---------------------------- MODULE BridgeProofs ----------------------------
(***************************************************************************)
(* The single thread on top of the two rings: it never waits, and it       *)
(* passes on the frames of tinc in order and without loss, for every size  *)
(* of the rings and any number of frames and failures.                     *)
(***************************************************************************)
EXTENDS Bridge, PacketRingProofs, SequenceTheorems

(* Every call of the single thread ends with nothing in its hands: what    *)
(* has been produced is released, and the semaphores agree.                *)
Balanced(r) ==
  /\ r.numProducedItems = r.numReleasedItems
  /\ r.item = r.numReleasedItems
  /\ r.free = ItemNumber - r.numProducedItems

(* A ring between two calls. *)
Quiet(r) ==
  /\ RingInv(r) /\ Balanced(r)
  /\ r.inProduction = {} /\ r.inConsumption = {}

(* The pointers in s2u may be anything; its indices and counters are not.  *)
LooseRing ==
  [ inUse            : SUBSET Int,
    inProduction     : SUBSET Int,
    inConsumption    : SUBSET Int,
    freeBuffer       : [Items -> Int],
    releasedBuffer   : [Items -> Int],
    numProducedItems : 0 .. ItemNumber,
    numReleasedItems : 0 .. ItemNumber,
    free             : 0 .. ItemNumber,
    item             : 0 .. ItemNumber,
    nextAdd          : Items,
    nextRelease      : Items,
    nextConsume      : Items,
    nextRemoved      : Items ]

S2uInv == s2u \in LooseRing /\ Balanced(s2u)

(* What pselect() and fd() have said still holds when execute() acts on it. *)
Answers ==
  /\ pc = "uml" /\ "uml" \in readSet => umlIn # <<>>
  /\ pc \in {"umlWrite", "umlRead"} /\ readable => umlIn # <<>> /\ slotsAvailable(u2s) # 0
  /\ pc \in {"uml", "umlWrite", "umlRead", "slirp"} /\ "slirp" \in readSet => slirpIn > 0
  /\ pc = "slirpRead" /\ readable => slirpIn > 0 /\ slotsAvailable(s2u) # 0

(* The frames are numbered in the order in which tinc sends them. *)
DataInv ==
  /\ umlIn \in Seq(0 .. UmlFrames) /\ toSlirp \in Seq(0 .. UmlFrames)
  /\ sent \in Seq(Nat) /\ Len(sent) <= UmlFrames
  /\ \A k \in 1 .. Len(sent) : sent[k] = k

IInv == TypeOK /\ Quiet(u2s) /\ S2uInv /\ Answers /\ DataInv /\ FramesInOrder /\ NeverHangs
-----------------------------------------------------------------------------
(* A produce() with a free slot does not look for an item to overwrite.    *)
LEMMA NothingOverwritten ==
  ASSUME NEW r, r.numProducedItems \in 0 .. ItemNumber, Balanced(r), slotsAvailable(r) # 0
  PROVE  /\ ~ProduceHangs(r)
         /\ BeforeTake(r) = FreeWait(r)
         /\ r.numProducedItems < ItemNumber
BY ItemNumberAssumption DEF slotsAvailable, IsFull, ProduceHangs, BeforeTake, Balanced

(* produce() and release() by the single thread: neither waits, and the    *)
(* semaphores agree again, whatever pointer is released.                   *)
LEMMA LooseProduces ==
  ASSUME NEW r \in LooseRing, Balanced(r), slotsAvailable(r) # 0, NEW p \in Int
  PROVE  /\ ~ProduceHangs(r)
         /\ Released(Produced(r), p) \in LooseRing
         /\ Balanced(Released(Produced(r), p))
<1> DEFINE f == FreeWait(r)
           t == TakeFree(f, NextFree(f))
           u == PutReleased(t, p)
<1>1. /\ ~ProduceHangs(r) /\ BeforeTake(r) = f /\ r.numProducedItems < ItemNumber
      /\ r.numProducedItems \in 0 .. ItemNumber /\ r.free \in 0 .. ItemNumber
      /\ r.numReleasedItems \in 0 .. ItemNumber /\ r.item \in 0 .. ItemNumber
      /\ ItemNumber \in Nat /\ r.nextAdd \in Items /\ r.nextRelease \in Items
  BY NothingOverwritten, ItemNumberAssumption DEF LooseRing
<1>2. /\ f \in LooseRing
      /\ f.free = r.free - 1 /\ f.item = r.item
      /\ f.numProducedItems = r.numProducedItems /\ f.numReleasedItems = r.numReleasedItems
      /\ f.nextAdd = r.nextAdd /\ f.nextRelease = r.nextRelease
  <2>1. r.free - 1 \in 0 .. ItemNumber
    BY <1>1 DEF Balanced
  <2> QED BY <2>1 DEF FreeWait, LooseRing
<1> HIDE DEF f
<1>3. /\ t \in LooseRing
      /\ t.free = f.free /\ t.item = f.item /\ t.nextRelease = f.nextRelease
      /\ t.numProducedItems = f.numProducedItems + 1 /\ t.numReleasedItems = f.numReleasedItems
  <2>1. f.numProducedItems + 1 \in 0 .. ItemNumber /\ Inc(f.nextAdd) \in Items /\ NULL \in Int
    BY <1>1, <1>2, IncInItems DEF NULL
  <2>2. NextFree(f) \in Int
    BY <1>1, <1>2 DEF NextFree, LooseRing
  <2> QED BY <1>2, <2>1, <2>2 DEF TakeFree, LooseRing
<1> HIDE DEF t
<1>4. /\ u \in LooseRing
      /\ u.free = t.free /\ u.item = t.item
      /\ u.numProducedItems = t.numProducedItems /\ u.numReleasedItems = t.numReleasedItems + 1
  <2>1. t.numReleasedItems + 1 \in 0 .. ItemNumber /\ Inc(t.nextRelease) \in Items
    BY <1>1, <1>2, <1>3, IncInItems DEF Balanced
  <2> QED BY <1>3, <2>1 DEF PutReleased, LooseRing
<1> HIDE DEF u
<1>5. /\ ItemPost(u) \in LooseRing
      /\ ItemPost(u).free = u.free /\ ItemPost(u).item = u.item + 1
      /\ ItemPost(u).numProducedItems = u.numProducedItems
      /\ ItemPost(u).numReleasedItems = u.numReleasedItems
  <2>1. u.item + 1 \in 0 .. ItemNumber
    BY <1>1, <1>2, <1>3, <1>4 DEF Balanced
  <2> QED BY <1>4, <2>1 DEF ItemPost, LooseRing
<1>6. Released(Produced(r), p) = ItemPost(u)
  BY <1>1 DEF Released, Produced, t, u
<1>7. Balanced(ItemPost(u))
  BY <1>1, <1>2, <1>3, <1>4, <1>5 DEF Balanced
<1> QED BY <1>1, <1>5, <1>6, <1>7

(* consume() and cleanup() likewise, when something has been released. *)
LEMMA LooseConsumes ==
  ASSUME NEW r \in LooseRing, Balanced(r), ~ConsumeReturnsNull(r)
  PROVE  /\ ~ConsumeHangs(r)
         /\ Cleaned(Consumed(r), OldestReleased(r)) \in LooseRing
         /\ Balanced(Cleaned(Consumed(r), OldestReleased(r)))
<1> DEFINE o == OldestReleased(r)
           w == ItemWait(r)
           t == TakeOldest(w, o)
           u == PutFree(t, o)
<1>1. /\ r.numReleasedItems \in 1 .. ItemNumber
      /\ r.numProducedItems \in 0 .. ItemNumber /\ r.free \in 0 .. ItemNumber
      /\ r.item \in 0 .. ItemNumber /\ ItemNumber \in Nat
      /\ r.nextConsume \in Items /\ r.nextRemoved \in Items
  BY ItemNumberAssumption DEF LooseRing, ConsumeReturnsNull
<1>2. ~ConsumeHangs(r)
  BY <1>1 DEF ConsumeHangs, Balanced
<1>3. o \in Int
  BY <1>1 DEF OldestReleased, LooseRing
<1>4. /\ w \in LooseRing
      /\ w.item = r.item - 1 /\ w.free = r.free
      /\ w.numProducedItems = r.numProducedItems /\ w.numReleasedItems = r.numReleasedItems
      /\ w.nextConsume = r.nextConsume /\ w.nextRemoved = r.nextRemoved
  <2>1. r.item - 1 \in 0 .. ItemNumber
    BY <1>1 DEF Balanced
  <2> QED BY <2>1 DEF ItemWait, LooseRing
<1>5. Cleaned(Consumed(r), o) = FreePost(u)
  BY DEF Cleaned, Consumed
<1> HIDE DEF o, w
<1>6. /\ t \in LooseRing
      /\ t.item = w.item /\ t.free = w.free /\ t.nextRemoved = w.nextRemoved
      /\ t.numProducedItems = w.numProducedItems /\ t.numReleasedItems = w.numReleasedItems - 1
  <2>1. w.numReleasedItems - 1 \in 0 .. ItemNumber /\ Inc(w.nextConsume) \in Items /\ NULL \in Int
    BY <1>1, <1>4, IncInItems DEF NULL
  <2> QED BY <1>3, <1>4, <2>1 DEF TakeOldest, LooseRing
<1> HIDE DEF t
<1>7. /\ u \in LooseRing
      /\ u.item = t.item /\ u.free = t.free
      /\ u.numProducedItems = t.numProducedItems - 1 /\ u.numReleasedItems = t.numReleasedItems
  <2>1. t.numProducedItems - 1 \in 0 .. ItemNumber /\ Inc(t.nextRemoved) \in Items
    BY <1>1, <1>4, <1>6, IncInItems DEF Balanced
  <2> QED BY <1>3, <1>6, <2>1 DEF PutFree, LooseRing
<1> HIDE DEF u
<1>8. /\ FreePost(u) \in LooseRing
      /\ FreePost(u).item = u.item /\ FreePost(u).free = u.free + 1
      /\ FreePost(u).numProducedItems = u.numProducedItems
      /\ FreePost(u).numReleasedItems = u.numReleasedItems
  <2>1. u.free + 1 \in 0 .. ItemNumber
    BY <1>1, <1>4, <1>6, <1>7 DEF Balanced
  <2> QED BY <1>7, <2>1 DEF FreePost, LooseRing
<1>9. Balanced(FreePost(u))
  BY <1>1, <1>4, <1>6, <1>7, <1>8 DEF Balanced
<1> QED BY <1>2, <1>5, <1>8, <1>9 DEF o
-----------------------------------------------------------------------------
(* produce() and release() of a quiet ring with a free slot append the     *)
(* item, which was not in use, to the queue.                               *)
LEMMA QuietProduces ==
  ASSUME NEW r, Quiet(r), slotsAvailable(r) # 0
  PROVE  /\ Product(r) \in Items \ r.inUse
         /\ Quiet(Released(Produced(r), Product(r)))
         /\ ReleasedQueue(Released(Produced(r), Product(r))) = Append(ReleasedQueue(r), Product(r))
<1> DEFINE f == FreeWait(r)
           p == NextFree(f)
           t == TakeFree(f, p)
           u == PutReleased(t, p)
<1>1. /\ r \in RingType /\ RingInv(r) /\ Balanced(r) /\ ItemNumber \in Nat
      /\ r.numProducedItems \in 0 .. ItemNumber /\ r.free \in 0 .. ItemNumber
      /\ r.numReleasedItems \in 0 .. ItemNumber /\ r.item \in 0 .. ItemNumber
      /\ r.inProduction = {} /\ r.inConsumption = {}
  BY ItemNumberAssumption DEF Quiet, RingInv, RingType
<1>2. BeforeTake(r) = f /\ r.numProducedItems < ItemNumber
  BY <1>1, NothingOverwritten
<1>3. Product(r) = p /\ Released(Produced(r), Product(r)) = ItemPost(u)
  BY <1>2 DEF Product, Produced, Released
<1>4. f = [r EXCEPT !.free = r.free - 1] /\ RingInv(f)
  BY <1>1, <1>2, SemaphoreSteps DEF FreeWait, Balanced
<1>5. /\ f \in RingType
      /\ f.numProducedItems = r.numProducedItems /\ f.numReleasedItems = r.numReleasedItems
      /\ f.free = r.free - 1 /\ f.item = r.item
      /\ f.inUse = r.inUse /\ f.inProduction = {} /\ f.inConsumption = {}
      /\ f.releasedBuffer = r.releasedBuffer /\ f.nextConsume = r.nextConsume
  BY <1>1, <1>4 DEF RingInv, RingType
<1> HIDE DEF f
<1>6. p \in Items \ f.inUse /\ RingInv(t)
  BY <1>2, <1>4, <1>5, TakeFreeStep
<1> HIDE DEF p
<1>7. /\ t \in RingType
      /\ t.numProducedItems = f.numProducedItems + 1 /\ t.numReleasedItems = f.numReleasedItems
      /\ t.free = f.free /\ t.item = f.item
      /\ t.inUse = f.inUse \cup {p} /\ t.inProduction = {p} /\ t.inConsumption = {}
      /\ t.releasedBuffer = f.releasedBuffer /\ t.nextConsume = f.nextConsume
  BY <1>5, <1>6 DEF TakeFree, RingInv, RingType
<1> HIDE DEF t
<1>8. RingInv(u)
  BY <1>1, <1>2, <1>5, <1>6, <1>7, PutReleasedStep DEF Balanced
<1>9. /\ u \in RingType
      /\ u.numProducedItems = t.numProducedItems /\ u.numReleasedItems = t.numReleasedItems + 1
      /\ u.free = t.free /\ u.item = t.item
      /\ u.inProduction = {} /\ u.inConsumption = {}
  BY <1>7, <1>8 DEF PutReleased, RingInv, RingType
<1>10. ReleasedQueue(u) = Append(ReleasedQueue(t), p)
  BY <1>1, <1>2, <1>5, <1>6, <1>7, <1>8, QueueAppends DEF Balanced
<1> HIDE DEF u
<1>11. ReleasedQueue(t) = ReleasedQueue(r)
  BY <1>5, <1>7 DEF ReleasedQueue
<1>12. /\ RingInv(ItemPost(u)) /\ ReleasedQueue(ItemPost(u)) = ReleasedQueue(u)
       /\ ItemPost(u).item = u.item + 1 /\ ItemPost(u).free = u.free
       /\ ItemPost(u).numProducedItems = u.numProducedItems
       /\ ItemPost(u).numReleasedItems = u.numReleasedItems
       /\ ItemPost(u).inProduction = {} /\ ItemPost(u).inConsumption = {}
  <2>1. u.item < ItemNumber
    BY <1>1, <1>2, <1>5, <1>7, <1>9 DEF Balanced
  <2>2. RingInv(ItemPost(u))
    BY <1>8, <2>1, SemaphoreSteps
  <2> QED BY <1>9, <2>2 DEF ItemPost, ReleasedQueue, RingType
<1>13. Quiet(ItemPost(u))
  BY <1>1, <1>2, <1>5, <1>7, <1>9, <1>12 DEF Quiet, Balanced
<1> QED BY <1>3, <1>5, <1>6, <1>10, <1>11, <1>12, <1>13

(* consume() and cleanup() of a quiet ring take the head of the queue. *)
LEMMA QuietConsumes ==
  ASSUME NEW r, Quiet(r), ~ConsumeReturnsNull(r)
  PROVE  LET o == OldestReleased(r)
             q == Cleaned(Consumed(r), o)
         IN  /\ ~ConsumeHangs(r)
             /\ o \in Items /\ Quiet(q)
             /\ ReleasedQueue(r) # <<>>
             /\ Head(ReleasedQueue(r)) = o
             /\ ReleasedQueue(q) = Tail(ReleasedQueue(r))
<1> DEFINE o == OldestReleased(r)
           w == ItemWait(r)
           t == TakeOldest(w, o)
           u == PutFree(t, o)
<1>1. /\ r \in RingType /\ RingInv(r) /\ Balanced(r) /\ ItemNumber \in Nat
      /\ r.numProducedItems \in 0 .. ItemNumber /\ r.free \in 0 .. ItemNumber
      /\ r.numReleasedItems \in 1 .. ItemNumber /\ r.item \in 0 .. ItemNumber
      /\ r.inProduction = {} /\ r.inConsumption = {}
  BY ItemNumberAssumption DEF Quiet, RingInv, RingType, ConsumeReturnsNull
<1>2. ~ConsumeHangs(r)
  BY <1>1 DEF ConsumeHangs, Balanced
<1>3. w = [r EXCEPT !.item = r.item - 1] /\ RingInv(w)
  BY <1>1, SemaphoreSteps DEF ItemWait, Balanced
<1>4. /\ w \in RingType /\ o = OldestReleased(w)
      /\ w.numProducedItems = r.numProducedItems /\ w.numReleasedItems = r.numReleasedItems
      /\ w.free = r.free /\ w.item = r.item - 1
      /\ w.inUse = r.inUse /\ w.inProduction = {} /\ w.inConsumption = {}
      /\ w.releasedBuffer = r.releasedBuffer /\ w.nextConsume = r.nextConsume
  BY <1>1, <1>3 DEF RingInv, RingType, OldestReleased
<1>5. Cleaned(Consumed(r), o) = FreePost(u)
  BY DEF Cleaned, Consumed
<1> HIDE DEF w
<1>6. o \in w.inUse /\ o \in Items /\ RingInv(t)
  <2>1. w.numReleasedItems > 0
    BY <1>1, <1>4
  <2> HIDE DEF o
  <2> QED BY <1>3, <1>4, <2>1, TakeOldestStep, Zenon
<1>7. /\ t \in RingType
      /\ t.numProducedItems = w.numProducedItems /\ t.numReleasedItems = w.numReleasedItems - 1
      /\ t.free = w.free /\ t.item = w.item
      /\ t.inUse = w.inUse /\ t.inProduction = {} /\ t.inConsumption = {o}
      /\ t.releasedBuffer = [w.releasedBuffer EXCEPT ![w.nextConsume] = NULL]
      /\ t.nextConsume = Inc(w.nextConsume)
  <2> HIDE DEF o
  <2> QED BY <1>4, <1>6 DEF TakeOldest, RingInv, RingType
<1>8. /\ ReleasedQueue(w) = ReleasedQueue(r)
      /\ ReleasedQueue(r) # <<>> /\ Head(ReleasedQueue(r)) = o
      /\ ReleasedQueue(t) = Tail(ReleasedQueue(r))
  <2>1. ReleasedQueue(w) = ReleasedQueue(r)
    BY <1>4 DEF ReleasedQueue
  <2> HIDE DEF t, o
  <2>2. w.numReleasedItems > 0
    BY <1>1, <1>4
  <2>3. /\ ReleasedQueue(w) # <<>> /\ Head(ReleasedQueue(w)) = OldestReleased(w)
        /\ ReleasedQueue(t) = Tail(ReleasedQueue(w))
    BY <1>3, <1>6, <1>7, <2>2, QueueShrinks, Zenon
  <2> QED BY <1>4, <2>1, <2>3
<1> HIDE DEF o, t
<1>9. RingInv(u)
  BY <1>1, <1>4, <1>6, <1>7, PutFreeStep DEF Balanced
<1>10. /\ u \in RingType
       /\ u.numProducedItems = t.numProducedItems - 1 /\ u.numReleasedItems = t.numReleasedItems
       /\ u.free = t.free /\ u.item = t.item
       /\ u.inProduction = {} /\ u.inConsumption = {}
       /\ u.releasedBuffer = t.releasedBuffer /\ u.nextConsume = t.nextConsume
  BY <1>7, <1>9 DEF PutFree, RingInv, RingType
<1> HIDE DEF u
<1>11. /\ RingInv(FreePost(u)) /\ ReleasedQueue(FreePost(u)) = ReleasedQueue(t)
       /\ FreePost(u).free = u.free + 1 /\ FreePost(u).item = u.item
       /\ FreePost(u).numProducedItems = u.numProducedItems
       /\ FreePost(u).numReleasedItems = u.numReleasedItems
       /\ FreePost(u).inProduction = {} /\ FreePost(u).inConsumption = {}
  <2>1. u.free < ItemNumber
    BY <1>1, <1>4, <1>7, <1>10 DEF Balanced
  <2>2. RingInv(FreePost(u))
    BY <1>9, <2>1, SemaphoreSteps
  <2> QED BY <1>10, <2>2 DEF FreePost, ReleasedQueue, RingType
<1>12. Quiet(FreePost(u))
  BY <1>1, <1>4, <1>7, <1>10, <1>11 DEF Quiet, Balanced
<1> QED BY <1>2, <1>5, <1>6, <1>8, <1>11, <1>12 DEF o
-----------------------------------------------------------------------------
(* What the items in the queue of a ring hold, oldest first. *)
Held(r, d) ==
  LET q == ReleasedQueue(r)
  IN [k \in 1 .. Len(q) |-> d[q[k]]]

(* The queue of a ring leads to frames. *)
LEMMA HeldIsSeq ==
  ASSUME NEW r, Quiet(r), NEW S, NEW d \in [Items -> S]
  PROVE  /\ Held(r, d) \in Seq(S)
         /\ Len(Held(r, d)) = r.numReleasedItems
         /\ \A k \in 1 .. r.numReleasedItems :
              /\ ReleasedQueue(r)[k] \in Items \cap r.inUse
              /\ Held(r, d)[k] = d[ReleasedQueue(r)[k]]
<1>1. r \in RingType /\ RingInv(r) /\ r.numReleasedItems \in Nat
  BY ItemNumberAssumption DEF Quiet, RingInv, RingType
<1>2. Len(ReleasedQueue(r)) = r.numReleasedItems
  BY <1>1, QueueEntry
<1>3. \A k \in 1 .. r.numReleasedItems : ReleasedQueue(r)[k] \in Items \cap r.inUse
  BY <1>1, QueuedItems
<1>4. Held(r, d) = [k \in 1 .. r.numReleasedItems |-> d[ReleasedQueue(r)[k]]]
  BY <1>2 DEF Held
<1>5. \A k \in 1 .. r.numReleasedItems : d[ReleasedQueue(r)[k]] \in S
  BY <1>3
<1> QED BY <1>1, <1>3, <1>4, <1>5

(* c is d with frame e put into item p. *)
PutInto(c, d, p, e) == c[p] = e /\ \A i \in Items \ {p} : c[i] = d[i]

(* A frame put into a new product is behind all others when it is          *)
(* released, and none of these is disturbed.                               *)
LEMMA HeldGrows ==
  ASSUME NEW r, Quiet(r), slotsAvailable(r) # 0, NEW S, NEW d \in [Items -> S], NEW e \in S,
         NEW c \in [Items -> S], PutInto(c, d, Product(r), e)
  PROVE  Held(Released(Produced(r), Product(r)), c) = Append(Held(r, d), e)
<1> DEFINE p == Product(r)
           q == Released(Produced(r), p)
           n == r.numReleasedItems
<1>1. /\ p \in Items \ r.inUse /\ Quiet(q)
      /\ ReleasedQueue(q) = Append(ReleasedQueue(r), p)
  BY QuietProduces
<1>2. r \in RingType /\ q \in RingType /\ n \in Nat
  BY <1>1, ItemNumberAssumption DEF Quiet, RingInv, RingType
<1>3. /\ ReleasedQueue(r) \in Seq(Items \cup {NULL}) /\ Len(ReleasedQueue(r)) = n
      /\ Len(ReleasedQueue(q)) = q.numReleasedItems
  BY <1>2, QueueEntry
<1> HIDE DEF p, q
<1>4. /\ q.numReleasedItems = n + 1
      /\ ReleasedQueue(q)[n + 1] = p
      /\ \A k \in 1 .. n : ReleasedQueue(q)[k] = ReleasedQueue(r)[k]
  BY <1>1, <1>2, <1>3
<1>5. c \in [Items -> S] /\ c[p] = e /\ \A i \in Items \cap r.inUse : c[i] = d[i]
  BY <1>1 DEF p, PutInto
<1> HIDE DEF n
<1>6. /\ Held(r, d) \in Seq(S) /\ Len(Held(r, d)) = n
      /\ \A k \in 1 .. n : /\ ReleasedQueue(r)[k] \in Items \cap r.inUse
                          /\ Held(r, d)[k] = d[ReleasedQueue(r)[k]]
  BY HeldIsSeq DEF n
<1>7. /\ Held(q, c) \in Seq(S) /\ Len(Held(q, c)) = n + 1
      /\ \A k \in 1 .. n + 1 : Held(q, c)[k] = c[ReleasedQueue(q)[k]]
  <2>1. /\ Held(q, c) \in Seq(S) /\ Len(Held(q, c)) = q.numReleasedItems
        /\ \A k \in 1 .. q.numReleasedItems : Held(q, c)[k] = c[ReleasedQueue(q)[k]]
    <3>1. Quiet(q) /\ c \in [Items -> S]
      BY <1>1, <1>5
    <3> QED BY <3>1, HeldIsSeq
  <2> QED BY <1>4, <2>1
<1>8. Held(q, c)[n + 1] = e
  BY <1>2, <1>4, <1>5, <1>7
<1>9. \A k \in 1 .. n : Held(q, c)[k] = Held(r, d)[k]
  BY <1>2, <1>4, <1>5, <1>6, <1>7
<1>10. Held(q, c) = Append(Held(r, d), e)
  BY <1>2, <1>6, <1>7, <1>8, <1>9
<1> QED BY <1>10 DEF p, q

(* consume() and cleanup() take the frame at the head. *)
LEMMA HeldShrinks ==
  ASSUME NEW r, Quiet(r), ~ConsumeReturnsNull(r), NEW S, NEW d \in [Items -> S]
  PROVE  LET o == OldestReleased(r)
             q == Cleaned(Consumed(r), o)
         IN  /\ Held(r, d) # <<>>
             /\ Head(Held(r, d)) = d[o]
             /\ Held(q, d) = Tail(Held(r, d))
<1> DEFINE o == OldestReleased(r)
           q == Cleaned(Consumed(r), o)
           n == r.numReleasedItems
<1>1. /\ o \in Items /\ Quiet(q)
      /\ ReleasedQueue(r) # <<>>
      /\ Head(ReleasedQueue(r)) = o
      /\ ReleasedQueue(q) = Tail(ReleasedQueue(r))
  BY QuietConsumes
<1>2. r \in RingType /\ q \in RingType /\ n \in Nat
  BY <1>1, ItemNumberAssumption DEF Quiet, RingInv, RingType
<1>3. /\ ReleasedQueue(r) \in Seq(Items \cup {NULL}) /\ Len(ReleasedQueue(r)) = n
      /\ Len(ReleasedQueue(q)) = q.numReleasedItems
  BY <1>2, QueueEntry
<1> HIDE DEF o, q
<1>4. /\ n >= 1 /\ q.numReleasedItems = n - 1
      /\ ReleasedQueue(r)[1] = o
      /\ \A k \in 1 .. n - 1 : ReleasedQueue(q)[k] = ReleasedQueue(r)[k + 1]
  BY <1>1, <1>2, <1>3
<1> HIDE DEF n
<1>5. /\ Held(r, d) \in Seq(S) /\ Len(Held(r, d)) = n
      /\ \A k \in 1 .. n : Held(r, d)[k] = d[ReleasedQueue(r)[k]]
  BY HeldIsSeq DEF n
<1>6. /\ Held(q, d) \in Seq(S) /\ Len(Held(q, d)) = n - 1
      /\ \A k \in 1 .. n - 1 : Held(q, d)[k] = d[ReleasedQueue(q)[k]]
  <2>1. /\ Held(q, d) \in Seq(S) /\ Len(Held(q, d)) = q.numReleasedItems
        /\ \A k \in 1 .. q.numReleasedItems : Held(q, d)[k] = d[ReleasedQueue(q)[k]]
    <3>1. Quiet(q)
      BY <1>1
    <3> QED BY <3>1, HeldIsSeq
  <2> QED BY <1>4, <2>1
<1>7. \A k \in 1 .. n - 1 : Held(q, d)[k] = Held(r, d)[k + 1]
  <2> SUFFICES ASSUME NEW k \in 1 .. n - 1
               PROVE  Held(q, d)[k] = Held(r, d)[k + 1]
    OBVIOUS
  <2>1. k + 1 \in 1 .. n
    BY <1>2
  <2>2. Held(r, d)[k + 1] = d[ReleasedQueue(r)[k + 1]]
    BY <1>5, <2>1
  <2>3. Held(q, d)[k] = d[ReleasedQueue(q)[k]] /\ ReleasedQueue(q)[k] = ReleasedQueue(r)[k + 1]
    BY <1>4, <1>6
  <2> QED BY <2>2, <2>3, Zenon
<1>8. Held(r, d) # <<>> /\ Head(Held(r, d)) = d[o]
  BY <1>2, <1>4, <1>5
<1>9. Held(q, d) = Tail(Held(r, d))
  BY <1>2, <1>4, <1>5, <1>6, <1>7
<1> QED BY <1>8, <1>9 DEF o, q
-----------------------------------------------------------------------------
(* Joining two sequences, under a name that the provers leave closed. *)
Cat(s, t) == s \o t

(* What the sequence of two joined ones consists of. *)
LEMMA CatProperties ==
  ASSUME NEW S, NEW s \in Seq(S), NEW t \in Seq(S)
  PROVE  /\ Cat(s, t) \in Seq(S)
         /\ Len(Cat(s, t)) = Len(s) + Len(t)
         /\ \A i \in 1 .. Len(s) + Len(t) :
              Cat(s, t)[i] = IF i <= Len(s) THEN s[i] ELSE t[i - Len(s)]
BY ConcatProperties DEF Cat

(* It does not matter which two of three sequences are joined first. *)
LEMMA CatAssociative ==
  ASSUME NEW S, NEW s \in Seq(S), NEW t \in Seq(S), NEW u \in Seq(S)
  PROVE  Cat(Cat(s, t), u) = Cat(s, Cat(t, u))
BY ConcatAssociative DEF Cat

(* Appending is joining. *)
LEMMA AppendIsCat ==
  ASSUME NEW S, NEW s \in Seq(S), NEW e \in S
  PROVE  Append(s, e) = Cat(s, <<e>>) /\ <<e>> \in Seq(S)
<1>1. Append(s, e) = s \o <<e>>
  BY AppendIsConcat
<1>2. <<e>> \in Seq(S)
  OBVIOUS
<1> QED BY <1>1, <1>2, Zenon DEF Cat

(* An entry may be appended before or after joining. *)
LEMMA CatAppends ==
  ASSUME NEW S, NEW s \in Seq(S), NEW t \in Seq(S), NEW e \in S
  PROVE  Cat(s, Append(t, e)) = Append(Cat(s, t), e)
<1>1. <<e>> \in Seq(S) /\ Append(t, e) = Cat(t, <<e>>)
  BY AppendIsCat
<1>2. Cat(s, t) \in Seq(S)
  BY CatProperties
<1>3. Append(Cat(s, t), e) = Cat(Cat(s, t), <<e>>)
  BY <1>2, AppendIsCat, Zenon
<1>4. Cat(Cat(s, t), <<e>>) = Cat(s, Cat(t, <<e>>))
  <2> DEFINE x == <<e>>
  <2> HIDE DEF x
  <2>1. x \in Seq(S)
    BY <1>1 DEF x
  <2>2. Cat(Cat(s, t), x) = Cat(s, Cat(t, x))
    BY <2>1, CatAssociative
  <2> QED BY <2>2 DEF x
<1> QED BY <1>1, <1>3, <1>4

(* The head of the second sequence may as well end the first. *)
LEMMA HeadMoves ==
  ASSUME NEW S, NEW s \in Seq(S), NEW t \in Seq(S), t # <<>>
  PROVE  /\ Head(t) \in S /\ Tail(t) \in Seq(S) /\ Append(s, Head(t)) \in Seq(S)
         /\ Cat(s, t) = Cat(Append(s, Head(t)), Tail(t))
<1>1. Head(t) \in S /\ Tail(t) \in Seq(S)
  OBVIOUS
<1>2. t = Cat(<<Head(t)>>, Tail(t))
  BY DEF Cat
<1>3. /\ <<Head(t)>> \in Seq(S) /\ Append(s, Head(t)) \in Seq(S)
      /\ Append(s, Head(t)) = Cat(s, <<Head(t)>>)
  BY <1>1, AppendIsCat
<1>4. Cat(Cat(s, <<Head(t)>>), Tail(t)) = Cat(s, Cat(<<Head(t)>>, Tail(t)))
  <2> DEFINE x == <<Head(t)>>
             l == Tail(t)
  <2> HIDE DEF x, l
  <2>1. x \in Seq(S) /\ l \in Seq(S)
    BY <1>1, <1>3 DEF x, l
  <2>2. Cat(Cat(s, x), l) = Cat(s, Cat(x, l))
    BY <2>1, CatAssociative
  <2> QED BY <2>2 DEF x, l
<1> QED BY <1>1, <1>2, <1>3, <1>4

(* Nothing joined to a sequence. *)
LEMMA CatNothing ==
  ASSUME NEW S, NEW s \in Seq(S)
  PROVE  Cat(s, <<>>) = s
BY ConcatEmptySeq DEF Cat
-----------------------------------------------------------------------------
(* What an item or a datagram may hold, under a name that stays closed. *)
Frames == 0 .. UmlFrames

(* FramesInOrder, as a property of any sequence of frames and any history  *)
(* of what has been sent.                                                  *)
InOrder(all, out) ==
  /\ \A j, k \in 1 .. Len(all) : j < k /\ all[k] # Empty => all[j] < all[k]
  /\ {all[k] : k \in 1 .. Len(all)} \ {Empty} = {out[k] : k \in 1 .. Len(out)}

NoneEmpty(all) == \A k \in 1 .. Len(all) : all[k] # Empty

All == Cat(Cat(toSlirp, Held(u2s, u2sData)), umlIn)

(* The property is one of All, before and after a step. *)
LEMMA OrderOfAll ==
  /\ FramesInOrder <=> InOrder(All, sent) /\ NoneEmpty(toSlirp)
  /\ FramesInOrder' <=> InOrder(All', sent') /\ NoneEmpty(toSlirp')
BY Zenon DEF FramesInOrder, InOrder, NoneEmpty, All, InU2s, Held, Cat

(* An empty item anywhere makes no difference. *)
LEMMA EmptyAnywhere ==
  ASSUME NEW s \in Seq(Frames), NEW t \in Seq(Frames), NEW out
  PROVE  InOrder(Cat(Append(s, Empty), t), out) <=> InOrder(Cat(s, t), out)
<1> DEFINE h == Append(s, Empty)
           a == Cat(s, t)
           b == Cat(h, t)
           m == Len(s)
           n == Len(t)
<1>1. /\ m \in Nat /\ n \in Nat
      /\ h \in Seq(Frames) /\ Len(h) = m + 1
      /\ \A i \in 1 .. m + 1 : h[i] = IF i = m + 1 THEN Empty ELSE s[i]
  <2>1. Empty \in Frames
    BY FramesAssumption DEF Empty, Frames
  <2> QED BY <2>1, AppendProperties
<1>2. /\ a \in Seq(Frames) /\ Len(a) = m + n
      /\ \A i \in 1 .. m + n : a[i] = IF i <= m THEN s[i] ELSE t[i - m]
  BY CatProperties
<1> HIDE DEF h
<1>3. /\ b \in Seq(Frames) /\ Len(b) = Len(h) + n
      /\ \A i \in 1 .. Len(h) + n : b[i] = IF i <= Len(h) THEN h[i] ELSE t[i - Len(h)]
  BY <1>1, CatProperties
<1> HIDE DEF a, b, m, n
<1>4. /\ Len(b) = m + n + 1
      /\ \A i \in 1 .. m : b[i] = a[i]
      /\ b[m + 1] = Empty
      /\ \A i \in m + 1 .. m + n : b[i + 1] = a[i]
  <2>1. \A i \in 1 .. m : b[i] = a[i]
    <3> SUFFICES ASSUME NEW i \in 1 .. m
                 PROVE  b[i] = a[i]
      OBVIOUS
    <3>1. i \in 1 .. m + n /\ i \in 1 .. Len(h) + n /\ i <= m /\ i <= Len(h) /\ i # m + 1 /\ i \in 1 .. m + 1
      BY <1>1
    <3>2. a[i] = s[i] /\ b[i] = h[i] /\ h[i] = s[i]
      BY <1>1, <1>2, <1>3, <3>1, Zenon
    <3> QED BY <3>2
  <2>2. b[m + 1] = Empty
    <3>1. m + 1 \in 1 .. Len(h) + n /\ m + 1 <= Len(h) /\ m + 1 \in 1 .. m + 1
      BY <1>1
    <3>2. b[m + 1] = h[m + 1] /\ h[m + 1] = Empty
      BY <1>1, <1>3, <3>1, Zenon
    <3> QED BY <3>2
  <2>3. \A i \in m + 1 .. m + n : b[i + 1] = a[i]
    <3> SUFFICES ASSUME NEW i \in m + 1 .. m + n
                 PROVE  b[i + 1] = a[i]
      OBVIOUS
    <3>1. /\ i \in 1 .. m + n /\ ~(i <= m)
          /\ i + 1 \in 1 .. Len(h) + n /\ ~(i + 1 <= Len(h))
          /\ i + 1 - Len(h) = i - m
      BY <1>1
    <3>2. a[i] = t[i - m]
      BY <1>2, <3>1
    <3>3. b[i + 1] = t[i + 1 - Len(h)]
      BY <1>3, <3>1
    <3> QED BY <3>1, <3>2, <3>3
  <2>4. Len(b) = m + n + 1
    BY <1>1, <1>3
  <2> QED BY <2>1, <2>2, <2>3, <2>4
<1>5. \A i \in 1 .. m + n : a[i] \in Frames
  <2>1. a \in Seq(Frames) /\ Len(a) = m + n
    BY <1>2
  <2> QED BY <2>1
<1>6. {b[i] : i \in 1 .. Len(b)} \ {Empty} = {a[i] : i \in 1 .. Len(a)} \ {Empty}
  <2>1. ASSUME NEW i \in 1 .. Len(a)
        PROVE  \E j \in 1 .. Len(b) : b[j] = a[i]
    <3>1. CASE i <= m
      BY <1>1, <1>2, <1>4, <3>1
    <3>2. CASE i > m
      <4>1. i + 1 \in 1 .. Len(b) /\ b[i + 1] = a[i]
        BY <1>1, <1>2, <1>4, <3>2
      <4> QED BY <4>1
    <3> QED BY <1>1, <1>2, <3>1, <3>2
  <2>2. ASSUME NEW j \in 1 .. Len(b), b[j] # Empty
        PROVE  \E i \in 1 .. Len(a) : b[j] = a[i]
    <3>1. CASE j <= m
      BY <1>1, <1>2, <1>4, <3>1
    <3>2. CASE j > m + 1
      <4>1. j - 1 \in 1 .. Len(a) /\ j - 1 \in m + 1 .. m + n /\ (j - 1) + 1 = j
        BY <1>1, <1>2, <1>4, <3>2
      <4>2. b[j] = a[j - 1]
        BY <1>4, <4>1
      <4> QED BY <4>1, <4>2
    <3> QED BY <1>1, <1>4, <2>2, <3>1, <3>2
  <2> QED BY <2>1, <2>2, Zenon
<1>7. ASSUME \A j, k \in 1 .. Len(a) : j < k /\ a[k] # Empty => a[j] < a[k],
             NEW j \in 1 .. Len(b), NEW k \in 1 .. Len(b), j < k, b[k] # Empty
      PROVE  b[j] < b[k]
  <2> DEFINE x == IF k <= m THEN k ELSE k - 1
             y == IF j <= m THEN j ELSE j - 1
  <2>1. x \in 1 .. Len(a) /\ b[k] = a[x]
    <3>1. CASE k <= m
      BY <1>1, <1>2, <1>4, <3>1
    <3>2. CASE k > m + 1
      <4>1. k - 1 \in 1 .. Len(a) /\ k - 1 \in m + 1 .. m + n /\ (k - 1) + 1 = k
        BY <1>1, <1>2, <1>4, <3>2
      <4>2. b[k] = a[k - 1]
        BY <1>4, <4>1
      <4>3. x = k - 1
        BY <1>1, <3>2
      <4> QED BY <4>1, <4>2, <4>3
    <3>3. k # m + 1
      BY <1>4, <1>7
    <3>4. k <= m \/ k > m + 1
      BY <1>1, <3>3
    <3> HIDE DEF x, y
    <3> QED BY <3>1, <3>2, <3>4
  <2>2. CASE j = m + 1
    BY <1>2, <1>4, <1>5, <1>7, <2>1, <2>2, FramesAssumption DEF Empty, Frames
  <2>3. CASE j # m + 1
    <3>1. y \in 1 .. Len(a) /\ b[j] = a[y]
      <4>1. CASE j <= m
        BY <1>1, <1>2, <1>4, <4>1
      <4>2. CASE j > m + 1
        <5>1. j - 1 \in 1 .. Len(a) /\ j - 1 \in m + 1 .. m + n /\ (j - 1) + 1 = j
          BY <1>1, <1>2, <1>4, <4>2
        <5> QED BY <1>1, <1>4, <4>2, <5>1
      <4> QED BY <1>1, <1>4, <2>3, <4>1, <4>2
    <3>2. y < x
      <4>1. k # m + 1
        BY <1>4, <1>7
      <4> QED BY <1>1, <1>4, <1>7, <2>3, <4>1
    <3> QED BY <1>7, <2>1, <3>1, <3>2
  <2> QED BY <2>2, <2>3
<1>8. ASSUME \A j, k \in 1 .. Len(b) : j < k /\ b[k] # Empty => b[j] < b[k],
             NEW j \in 1 .. Len(a), NEW k \in 1 .. Len(a), j < k, a[k] # Empty
      PROVE  a[j] < a[k]
  <2> DEFINE x == IF k <= m THEN k ELSE k + 1
             y == IF j <= m THEN j ELSE j + 1
  <2>1. x \in 1 .. Len(b) /\ b[x] = a[k]
    BY <1>1, <1>2, <1>4
  <2>2. y \in 1 .. Len(b) /\ b[y] = a[j]
    BY <1>1, <1>2, <1>4
  <2>3. y < x
    BY <1>1, <1>2, <1>8
  <2> HIDE DEF x, y
  <2> QED BY <1>8, <2>1, <2>2, <2>3
<1>9. InOrder(b, out) <=> InOrder(a, out)
  BY <1>6, <1>7, <1>8, Zenon DEF InOrder
<1> QED BY <1>9 DEF a, b, h

(* The next frame belongs to the end. *)
LEMMA NextAtTheEnd ==
  ASSUME NEW s \in Seq(Frames), NEW out \in Seq(Nat),
         \A k \in 1 .. Len(out) : out[k] = k,
         InOrder(s, out), Len(out) + 1 \in Frames
  PROVE  InOrder(Append(s, Len(out) + 1), Append(out, Len(out) + 1))
<1> DEFINE m == Len(s)
           n == Len(out)
           a == Append(s, n + 1)
           b == Append(out, n + 1)
<1>1. /\ m \in Nat /\ n \in Nat
      /\ Len(a) = m + 1 /\ \A i \in 1 .. m : a[i] = s[i]
      /\ a[m + 1] = n + 1
      /\ Len(b) = n + 1 /\ \A i \in 1 .. n : b[i] = out[i]
      /\ b[n + 1] = n + 1
  <2>1. n + 1 \in Nat
    OBVIOUS
  <2>2. /\ Len(a) = m + 1 /\ \A i \in 1 .. m : a[i] = s[i]
        /\ a[m + 1] = n + 1
    BY AppendProperties
  <2>3. /\ Len(b) = n + 1 /\ \A i \in 1 .. n : b[i] = out[i]
        /\ b[n + 1] = n + 1
    BY <2>1, AppendProperties
  <2>4. m \in Nat /\ n \in Nat
    OBVIOUS
  <2> QED BY <2>2, <2>3, <2>4, Zenon
<1>2. \A i \in 1 .. m : s[i] \in Frames
  BY ElementOfSeq
<1> HIDE DEF a, b, m, n
<1>3. \A k \in 1 .. n : out[k] = k
  BY DEF n
<1>4. /\ \A j, k \in 1 .. m : j < k /\ s[k] # Empty => s[j] < s[k]
      /\ {s[k] : k \in 1 .. m} \ {Empty} = {out[k] : k \in 1 .. n}
  BY Zenon DEF InOrder, m, n
<1>5. \A k \in 1 .. m : s[k] < n + 1
  <2> SUFFICES ASSUME NEW k \in 1 .. m, s[k] # Empty
               PROVE  s[k] < n + 1
    BY <1>1 DEF Empty
  <2>1. s[k] \in {out[i] : i \in 1 .. n}
    BY <1>4
  <2>2. PICK i \in 1 .. n : s[k] = out[i]
    BY <2>1
  <2> QED BY <1>1, <1>3, <2>2
<1>6. ASSUME NEW j \in 1 .. Len(a), NEW k \in 1 .. Len(a), j < k, a[k] # Empty
      PROVE  a[j] < a[k]
  <2>1. CASE k = m + 1
    BY <1>1, <1>5, <1>6, <2>1
  <2>2. CASE k # m + 1
    <3>1. j \in 1 .. m /\ k \in 1 .. m
      BY <1>1, <1>6, <2>2
    <3> QED BY <1>1, <1>4, <1>6, <3>1
  <2> QED BY <2>1, <2>2
<1>7. {a[k] : k \in 1 .. Len(a)} = {s[k] : k \in 1 .. m} \cup {n + 1}
  <2>1. 1 .. Len(a) = (1 .. m) \cup {m + 1}
    BY <1>1
  <2>2. /\ \A i \in 1 .. m : a[i] = s[i]
        /\ a[m + 1] = n + 1
    BY <1>1
  <2> QED BY <2>1, <2>2
<1>8. {b[k] : k \in 1 .. Len(b)} = {out[k] : k \in 1 .. n} \cup {n + 1}
  <2>1. 1 .. Len(b) = (1 .. n) \cup {n + 1}
    BY <1>1
  <2>2. {b[k] : k \in (1 .. n) \cup {n + 1}} = {b[k] : k \in 1 .. n} \cup {b[n + 1]}
    OBVIOUS
  <2>3. {b[k] : k \in 1 .. n} = {out[k] : k \in 1 .. n}
    BY <1>1
  <2> QED BY <1>1, <2>1, <2>2, <2>3
<1>9. n + 1 # Empty
  BY <1>1 DEF Empty
<1>10. {a[k] : k \in 1 .. Len(a)} \ {Empty} = {b[k] : k \in 1 .. Len(b)}
  BY <1>4, <1>7, <1>8, <1>9, Zenon
<1>11. InOrder(a, b)
  BY <1>6, <1>10, Zenon DEF InOrder
<1> QED BY <1>11 DEF a, b, n
-----------------------------------------------------------------------------
(* The frames on their way, as sequences. *)
LEMMA FramesOnTheWay ==
  ASSUME IInv
  PROVE  /\ u2sData \in [Items -> Frames]
         /\ Held(u2s, u2sData) \in Seq(Frames)
         /\ umlIn \in Seq(Frames) /\ toSlirp \in Seq(Frames)
         /\ Cat(toSlirp, Held(u2s, u2sData)) \in Seq(Frames)
         /\ All \in Seq(Frames)
<1>1. umlIn \in Seq(Frames) /\ toSlirp \in Seq(Frames)
  BY DEF IInv, DataInv, Frames
<1>2. u2sData \in [Items -> Frames]
  BY DEF IInv, TypeOK, Frames
<1>3. Held(u2s, u2sData) \in Seq(Frames)
  BY <1>2, HeldIsSeq DEF IInv
<1>4. Cat(toSlirp, Held(u2s, u2sData)) \in Seq(Frames)
  BY <1>1, <1>3, CatProperties
<1>5. All \in Seq(Frames)
  BY <1>1, <1>4, CatProperties DEF All
<1> QED BY <1>1, <1>2, <1>3, <1>4, <1>5

(* A step that moves no frame. *)
LEMMA NothingMoves ==
  ASSUME IInv, UNCHANGED <<ringVars, umlIn, sent>>
  PROVE  Quiet(u2s)' /\ S2uInv' /\ DataInv' /\ FramesInOrder'
<1>1. Quiet(u2s)'
  BY Zenon DEF IInv, ringVars
<1>2. S2uInv'
  BY Zenon DEF IInv, S2uInv, ringVars
<1>3. DataInv'
  BY DEF IInv, DataInv, ringVars
<1>4. FramesInOrder'
  <2>1. All' = All
    BY Zenon DEF All, ringVars
  <2>2. toSlirp' = toSlirp /\ sent' = sent
    BY Zenon DEF ringVars
  <2> QED BY <2>1, <2>2, OrderOfAll, Zenon DEF IInv
<1> QED BY <1>1, <1>2, <1>3, <1>4

(* A quiet ring has the types of a ring. *)
LEMMA QuietType ==
  ASSUME NEW r, Quiet(r)
  PROVE  r \in RingType
BY DEF Quiet, RingInv

(* tinc queues the next frame. *)
LEMMA TincSendsStep ==
  ASSUME IInv, TincSends
  PROVE  IInv'
<1> DEFINE n == Len(sent) + 1
           h == Cat(toSlirp, Held(u2s, u2sData))
<1>1. /\ sent' = Append(sent, n) /\ umlIn' = Append(umlIn, n)
      /\ n \in Frames /\ n \in Nat /\ n # Empty /\ Len(sent) \in Nat
      /\ sent \in Seq(Nat) /\ \A k \in 1 .. Len(sent) : sent[k] = k
      /\ UNCHANGED <<status, pc, loopVars, ringVars, slirpIn, slirpSent, faults>>
  BY FramesAssumption DEF IInv, DataInv, TincSends, Empty, Frames
<1>2. TypeOK' /\ NeverHangs'
  BY <1>1 DEF IInv, TypeOK, NeverHangs, loopVars, ringVars
<1>3. Quiet(u2s)' /\ S2uInv'
  BY <1>1, Zenon DEF IInv, S2uInv, ringVars
<1>4. Answers'
  <2>1. umlIn' # <<>>
    <3>1. umlIn \in Seq(Frames)
      BY FramesOnTheWay
    <3> QED BY <1>1, <3>1
  <2> QED BY <1>1, <2>1 DEF IInv, Answers, loopVars, ringVars
<1>5. DataInv'
  <2>1. /\ sent' \in Seq(Nat) /\ Len(sent') = n
        /\ \A k \in 1 .. Len(sent) : sent'[k] = sent[k]
        /\ sent'[n] = n
    BY <1>1, AppendProperties
  <2>2. \A k \in 1 .. Len(sent') : sent'[k] = k
    BY <1>1, <2>1
  <2>3. umlIn' \in Seq(Frames) /\ toSlirp' \in Seq(Frames)
    BY <1>1, FramesOnTheWay, AppendProperties DEF ringVars
  <2>4. Len(sent') <= UmlFrames
    BY <1>1, <2>1, FramesAssumption DEF Frames
  <2> QED BY <2>1, <2>2, <2>3, <2>4 DEF DataInv, Frames
<1>6. FramesInOrder'
  <2>1. All' = Cat(h, Append(umlIn, n))
    BY <1>1, Zenon DEF All, ringVars
  <2>2. All = Cat(h, umlIn)
    BY Zenon DEF All
  <2> HIDE DEF h, n
  <2>3. h \in Seq(Frames)
    BY FramesOnTheWay DEF h
  <2>4. Cat(h, Append(umlIn, n)) = Append(Cat(h, umlIn), n)
    BY <1>1, <2>3, FramesOnTheWay, CatAppends
  <2>5. InOrder(All, sent) /\ NoneEmpty(toSlirp)
    BY OrderOfAll DEF IInv
  <2>6. InOrder(Append(All, Len(sent) + 1), Append(sent, Len(sent) + 1))
    BY <1>1, <2>5, FramesOnTheWay, NextAtTheEnd DEF n
  <2>7. InOrder(All', sent')
    BY <1>1, <2>1, <2>2, <2>4, <2>6, Zenon DEF n
  <2>8. NoneEmpty(toSlirp')
    BY <1>1, <2>5, Zenon DEF ringVars
  <2> QED BY <2>7, <2>8, OrderOfAll, Zenon
<1> QED BY <1>2, <1>3, <1>4, <1>5, <1>6 DEF IInv

(* tinc queues an empty datagram. *)
LEMMA TincSendsEmptyStep ==
  ASSUME IInv, TincSendsEmpty
  PROVE  IInv'
<1> DEFINE h == Cat(toSlirp, Held(u2s, u2sData))
<1>1. /\ umlIn' = Append(umlIn, Empty) /\ Empty \in Frames
      /\ faults < Faults /\ faults' = faults + 1
      /\ UNCHANGED <<status, pc, loopVars, ringVars, slirpIn, slirpSent, sent>>
  BY FramesAssumption DEF TincSendsEmpty, Empty, Frames
<1>2. TypeOK' /\ NeverHangs'
  BY <1>1, FramesAssumption DEF IInv, TypeOK, NeverHangs, loopVars, ringVars
<1>3. Quiet(u2s)' /\ S2uInv'
  BY <1>1, Zenon DEF IInv, S2uInv, ringVars
<1>4. Answers'
  <2>1. umlIn' # <<>>
    BY <1>1, FramesOnTheWay, AppendProperties
  <2> QED BY <1>1, <2>1 DEF IInv, Answers, loopVars, ringVars
<1>5. DataInv'
  <2>1. umlIn' \in Seq(Frames)
    BY <1>1, FramesOnTheWay, AppendProperties
  <2> QED BY <1>1, <2>1 DEF IInv, DataInv, Frames, ringVars
<1>6. FramesInOrder'
  <2>1. All' = Cat(h, Append(umlIn, Empty))
    BY <1>1, Zenon DEF All, ringVars
  <2>2. All = Cat(h, umlIn)
    BY Zenon DEF All
  <2> HIDE DEF h
  <2>3. h \in Seq(Frames)
    BY FramesOnTheWay DEF h
  <2>4. All' = Append(All, Empty)
    <3>1. Cat(h, Append(umlIn, Empty)) = Append(Cat(h, umlIn), Empty)
      BY <1>1, <2>3, FramesOnTheWay, CatAppends
    <3> QED BY <2>1, <2>2, <3>1, Zenon
  <2>5. InOrder(All, sent) /\ NoneEmpty(toSlirp)
    BY OrderOfAll DEF IInv
  <2>6. /\ Cat(Append(All, Empty), <<>>) = Append(All, Empty)
        /\ Cat(All, <<>>) = All
        /\ <<>> \in Seq(Frames)
    <3>1. Append(All, Empty) \in Seq(Frames)
      BY <1>1, FramesOnTheWay, AppendProperties
    <3>2. All \in Seq(Frames)
      BY FramesOnTheWay
    <3>3. <<>> \in Seq(Frames)
      OBVIOUS
    <3> QED BY <3>1, <3>2, <3>3, CatNothing, Zenon
  <2>7. InOrder(Cat(Append(All, Empty), <<>>), sent) <=> InOrder(Cat(All, <<>>), sent)
    BY <2>6, FramesOnTheWay, EmptyAnywhere
  <2>8. InOrder(All', sent') /\ NoneEmpty(toSlirp')
    BY <1>1, <2>4, <2>5, <2>6, <2>7, Zenon DEF ringVars
  <2> QED BY <2>8, OrderOfAll, Zenon
<1> QED BY <1>2, <1>3, <1>4, <1>5, <1>6 DEF IInv

(* execute() of the plug, reading: whatever arrives is behind what the     *)
(* ring holds, and nothing is overwritten.                                 *)
LEMMA UmlReadsStep ==
  ASSUME IInv, UmlReadFrame \/ UmlReadFails
  PROVE  IInv'
<1> DEFINE p == Product(u2s)
           h == Cat(toSlirp, Held(u2s, u2sData))
<1>1. /\ pc = "umlRead" /\ readable
      /\ umlIn # <<>> /\ slotsAvailable(u2s) # 0
  BY DEF UmlReadFrame, UmlReadFails, UmlReads, IInv, Answers
<1>2. ~ProduceHangs(u2s)
  <2>1. u2s.numProducedItems \in 0 .. ItemNumber /\ Balanced(u2s)
    BY DEF IInv, Quiet, RingInv, RingType
  <2> QED BY <1>1, <2>1, NothingOverwritten
<1>3. PICK frame, rest, fault :
        /\ \/ frame = Head(umlIn) /\ rest = Tail(umlIn) /\ fault = 0
           \/ frame = Empty /\ rest = umlIn /\ fault = 1 /\ faults < Faults
        /\ u2sData' = [u2sData EXCEPT ![p] = frame]
        /\ u2s' = Released(Produced(u2s), p)
        /\ umlIn' = rest
        /\ faults' = faults + fault
        /\ pc' = "slirp"
        /\ UNCHANGED <<status, loopVars, slirpIn, slirpSent, sent, s2u, toSlirp>>
  BY <1>2, Zenon DEF UmlReadFrame, UmlReadFails, UmlReads
<1>4. frame \in Frames /\ rest \in Seq(Frames) /\ Empty \in Frames
  <2>1. umlIn \in Seq(Frames)
    BY FramesOnTheWay
  <2>2. Head(umlIn) \in Frames /\ Tail(umlIn) \in Seq(Frames)
    BY <1>1, <2>1
  <2>3. Empty \in Frames
    BY FramesAssumption DEF Frames, Empty
  <2> QED BY <1>3, <2>1, <2>2, <2>3
<1>5. p \in Items /\ Quiet(u2s')
  BY <1>1, <1>3, QuietProduces DEF IInv
<1>6. Held(u2s', u2sData') = Append(Held(u2s, u2sData), frame)
  <2>1. Quiet(u2s) /\ u2sData \in [Items -> Frames]
    BY FramesOnTheWay DEF IInv
  <2>2. slotsAvailable(u2s) # 0 /\ frame \in Frames
    BY <1>1, <1>4
  <2>3. u2sData' \in [Items -> Frames] /\ PutInto(u2sData', u2sData, p, frame)
    BY <1>3, <1>4, <1>5, <2>1 DEF PutInto
  <2>4. Held(Released(Produced(u2s), p), u2sData') = Append(Held(u2s, u2sData), frame)
    BY <2>1, <2>2, <2>3, HeldGrows
  <2> QED BY <1>3, <2>4, Zenon
<1> HIDE DEF p
<1>7. u2s' \in RingType /\ u2sData' \in [Items -> Frames]
  BY <1>3, <1>4, <1>5, FramesOnTheWay, QuietType
<1>8. TypeOK' /\ NeverHangs'
  <2>1. faults' \in 0 .. Faults
    BY <1>3, FramesAssumption DEF IInv, TypeOK
  <2> QED BY <1>3, <1>7, <2>1 DEF IInv, TypeOK, NeverHangs, Frames, loopVars
<1>9. S2uInv'
  BY <1>3, Zenon DEF IInv, S2uInv
<1>10. Answers'
  BY <1>1, <1>3 DEF IInv, Answers, loopVars
<1>11. DataInv'
  BY <1>3, <1>4 DEF IInv, DataInv, Frames
<1>12. FramesInOrder'
  <2>1. InOrder(Cat(h, umlIn), sent) /\ NoneEmpty(toSlirp)
    BY OrderOfAll DEF IInv, All
  <2>2. h \in Seq(Frames) /\ toSlirp \in Seq(Frames) /\ Held(u2s, u2sData) \in Seq(Frames)
        /\ umlIn \in Seq(Frames)
    BY FramesOnTheWay
  <2>3. Cat(toSlirp, Append(Held(u2s, u2sData), frame)) = Append(h, frame)
    BY <1>4, <2>2, CatAppends
  <2>4. All' = Cat(Append(h, frame), rest)
    BY <1>3, <1>6, <2>3, Zenon DEF All
  <2> HIDE DEF h
  <2>5. InOrder(Cat(Append(h, frame), rest), sent)
    <3>1. CASE frame = Head(umlIn) /\ rest = Tail(umlIn)
      <4>1. Cat(h, umlIn) = Cat(Append(h, Head(umlIn)), Tail(umlIn))
        BY <1>1, <2>2, HeadMoves
      <4> QED BY <2>1, <3>1, <4>1, Zenon
    <3>2. CASE frame = Empty /\ rest = umlIn
      <4>1. InOrder(Cat(Append(h, Empty), umlIn), sent) <=> InOrder(Cat(h, umlIn), sent)
        BY <2>2, EmptyAnywhere
      <4> QED BY <2>1, <3>2, <4>1, Zenon
    <3> QED BY <1>3, <3>1, <3>2
  <2>6. InOrder(All', sent') /\ NoneEmpty(toSlirp')
    BY <1>3, <2>1, <2>4, <2>5, Zenon
  <2> QED BY <2>6, OrderOfAll, Zenon
<1> QED BY <1>5, <1>8, <1>9, <1>10, <1>11, <1>12 DEF IInv

(* execute() of the SLiRP handler, writing: the oldest frame goes to       *)
(* libslirp, an empty item nowhere.                                        *)
LEMMA SlirpWriteStep ==
  ASSUME IInv, SlirpWrite
  PROVE  IInv'
<1> DEFINE o == OldestReleased(u2s)
           l == Held(u2s, u2sData)
<1>1. ~ConsumeReturnsNull(u2s) /\ Quiet(u2s)
  BY DEF SlirpWrite, IInv
<1>2. ~ConsumeHangs(u2s) /\ o \in Items /\ Quiet(Cleaned(Consumed(u2s), o))
  BY <1>1, QuietConsumes
<1>3. /\ toSlirp' = IF u2sData[o] = Empty THEN toSlirp ELSE Append(toSlirp, u2sData[o])
      /\ u2s' = Cleaned(Consumed(u2s), o)
      /\ pc' = "collect"
      /\ UNCHANGED <<status, loopVars, envVars, s2u, u2sData>>
  BY <1>2, Zenon DEF SlirpWrite
<1>4. l # <<>> /\ Head(l) = u2sData[o] /\ Held(u2s', u2sData') = Tail(l)
  <2>1. u2sData \in [Items -> Frames]
    BY FramesOnTheWay
  <2>2. Held(Cleaned(Consumed(u2s), o), u2sData) = Tail(l) /\ l # <<>> /\ Head(l) = u2sData[o]
    BY <1>1, <2>1, HeldShrinks
  <2> QED BY <1>3, <2>2, Zenon
<1> HIDE DEF o
<1>5. u2sData[o] \in Frames /\ u2s' \in RingType /\ Quiet(u2s')
  BY <1>2, <1>3, FramesOnTheWay, QuietType
<1>6. TypeOK' /\ NeverHangs'
  BY <1>3, <1>5 DEF IInv, TypeOK, NeverHangs, loopVars, envVars
<1>7. S2uInv'
  BY <1>3, Zenon DEF IInv, S2uInv
<1>8. Answers'
  BY <1>3 DEF IInv, Answers, loopVars, envVars
<1>9. toSlirp' \in Seq(Frames)
  <2>1. toSlirp \in Seq(Frames)
    BY FramesOnTheWay
  <2> QED BY <1>3, <1>5, <2>1
<1>10. DataInv'
  BY <1>3, <1>9 DEF IInv, DataInv, Frames, envVars
<1>11. FramesInOrder'
  <2>1. InOrder(All, sent) /\ NoneEmpty(toSlirp)
    BY OrderOfAll DEF IInv
  <2>2. toSlirp \in Seq(Frames) /\ l \in Seq(Frames) /\ umlIn \in Seq(Frames)
    BY FramesOnTheWay
  <2>3. All = Cat(Cat(toSlirp, l), umlIn)
    BY Zenon DEF All
  <2>4. All' = Cat(Cat(toSlirp', Tail(l)), umlIn)
    BY <1>3, <1>4, Zenon DEF All, envVars
  <2> HIDE DEF l
  <2>5. /\ Tail(l) \in Seq(Frames) /\ Append(toSlirp, Head(l)) \in Seq(Frames)
        /\ Cat(toSlirp, l) = Cat(Append(toSlirp, Head(l)), Tail(l))
    BY <1>4, <2>2, HeadMoves
  <2>6. CASE u2sData[o] # Empty
    <3>1. toSlirp' = Append(toSlirp, Head(l))
      BY <1>3, <1>4, <2>6, Zenon
    <3>2. All' = All
      BY <2>3, <2>4, <2>5, <3>1, Zenon
    <3>3. NoneEmpty(toSlirp')
      <4>1. /\ Len(toSlirp) \in Nat /\ Len(toSlirp') = Len(toSlirp) + 1
            /\ \A k \in 1 .. Len(toSlirp) : toSlirp'[k] = toSlirp[k]
            /\ toSlirp'[Len(toSlirp) + 1] = Head(l)
        BY <1>4, <1>5, <2>2, <3>1, AppendProperties
      <4> QED BY <1>4, <2>1, <2>6, <4>1 DEF NoneEmpty
    <3>4. sent' = sent
      BY <1>3 DEF envVars
    <3> QED BY <2>1, <3>2, <3>3, <3>4, OrderOfAll, Zenon
  <2>7. CASE u2sData[o] = Empty
    <3>1. toSlirp' = toSlirp /\ sent' = sent
      BY <1>3, <2>7 DEF envVars
    <3>2. Cat(Tail(l), umlIn) \in Seq(Frames)
      BY <2>2, <2>5, CatProperties
    <3>3. All = Cat(Append(toSlirp, Empty), Cat(Tail(l), umlIn))
      <4>1. Cat(Cat(Append(toSlirp, Head(l)), Tail(l)), umlIn)
              = Cat(Append(toSlirp, Head(l)), Cat(Tail(l), umlIn))
        <5> DEFINE x == Append(toSlirp, Head(l))
                   y == Tail(l)
        <5>1. x \in Seq(Frames) /\ y \in Seq(Frames)
          BY <2>5
        <5> HIDE DEF x, y
        <5>2. Cat(Cat(x, y), umlIn) = Cat(x, Cat(y, umlIn))
          BY <2>2, <5>1, CatAssociative
        <5> QED BY <5>2 DEF x, y
      <4> QED BY <1>4, <2>3, <2>5, <2>7, <4>1, Zenon
    <3>4. All' = Cat(toSlirp, Cat(Tail(l), umlIn))
      <4> DEFINE y == Tail(l)
      <4>1. y \in Seq(Frames)
        BY <2>5
      <4> HIDE DEF y
      <4>2. Cat(Cat(toSlirp, y), umlIn) = Cat(toSlirp, Cat(y, umlIn))
        BY <2>2, <4>1, CatAssociative
      <4> QED BY <2>4, <3>1, <4>2, Zenon DEF y
    <3> DEFINE t == Cat(Tail(l), umlIn)
    <3> HIDE DEF t
    <3>5. InOrder(Cat(Append(toSlirp, Empty), t), sent) <=> InOrder(Cat(toSlirp, t), sent)
      BY <2>2, <3>2, EmptyAnywhere DEF t
    <3>6. InOrder(All', sent') /\ NoneEmpty(toSlirp')
      BY <2>1, <3>1, <3>3, <3>4, <3>5, Zenon DEF t
    <3> QED BY <3>6, OrderOfAll, Zenon
  <2> QED BY <2>6, <2>7
<1> QED BY <1>5, <1>6, <1>7, <1>8, <1>10, <1>11 DEF IInv

(* execute() of the plug, writing an empty item: only s2u changes. *)
LEMMA UmlWriteEmptyStep ==
  ASSUME IInv, UmlWriteEmpty
  PROVE  IInv'
<1>1. s2u \in LooseRing /\ Balanced(s2u) /\ ~ConsumeReturnsNull(s2u)
  BY DEF IInv, S2uInv, UmlWriteEmpty
<1>2. /\ ~ConsumeHangs(s2u)
      /\ Cleaned(Consumed(s2u), OldestReleased(s2u)) \in LooseRing
      /\ Balanced(Cleaned(Consumed(s2u), OldestReleased(s2u)))
  BY <1>1, LooseConsumes
<1>3. /\ pc = "umlWrite" /\ pc' = "umlRead"
      /\ s2u' = Cleaned(Consumed(s2u), OldestReleased(s2u))
      /\ UNCHANGED <<status, loopVars, envVars, u2s, u2sData, toSlirp>>
  BY <1>2, Zenon DEF UmlWriteEmpty
<1>4. S2uInv'
  BY <1>2, <1>3, Zenon DEF S2uInv
<1>5. Quiet(u2s)'
  BY <1>3, Zenon DEF IInv
<1>6. TypeOK' /\ NeverHangs'
  BY <1>3 DEF IInv, TypeOK, NeverHangs, loopVars, envVars
<1>7. Answers'
  BY <1>3 DEF IInv, Answers, loopVars, envVars
<1>8. DataInv'
  BY <1>3 DEF IInv, DataInv, envVars
<1>9. FramesInOrder'
  <2>1. All' = All /\ toSlirp' = toSlirp /\ sent' = sent
    BY <1>3, Zenon DEF All, envVars
  <2> QED BY <2>1, OrderOfAll, Zenon DEF IInv
<1> QED BY <1>4, <1>5, <1>6, <1>7, <1>8, <1>9 DEF IInv

(* execute() of the SLiRP handler, reading: the pointer that is released   *)
(* is none of the ring's items, but no semaphore is waited for.            *)
LEMMA SlirpReadsStep ==
  ASSUME IInv, SlirpReadFrame \/ SlirpReadFails
  PROVE  IInv'
<1>1. /\ pc = "slirpRead" /\ readable
      /\ slirpIn > 0 /\ slotsAvailable(s2u) # 0
      /\ s2u \in LooseRing /\ Balanced(s2u)
  BY DEF SlirpReadFrame, SlirpReadFails, SlirpReads, IInv, Answers, S2uInv
<1>2. /\ ~ProduceHangs(s2u)
      /\ Released(Produced(s2u), Dangling) \in LooseRing
      /\ Balanced(Released(Produced(s2u), Dangling))
  BY <1>1, LooseProduces, ItemNumberAssumption DEF Dangling
<1>3. PICK taken, fault :
        /\ \/ taken = 1 /\ fault = 0
           \/ taken = 0 /\ fault = 1 /\ faults < Faults
        /\ s2u' = Released(Produced(s2u), Dangling)
        /\ slirpIn' = slirpIn - taken
        /\ faults' = faults + fault
        /\ pc' = "slirpWrite"
        /\ UNCHANGED <<status, loopVars, umlIn, slirpSent, sent, u2s, u2sData, toSlirp>>
  BY <1>2, Zenon DEF SlirpReadFrame, SlirpReadFails, SlirpReads
<1>4. S2uInv'
  BY <1>2, <1>3, Zenon DEF S2uInv
<1>5. Quiet(u2s)'
  BY <1>3, Zenon DEF IInv
<1>6. TypeOK' /\ NeverHangs'
  <2>1. faults' \in 0 .. Faults /\ slirpIn' \in 0 .. slirpSent'
    BY <1>1, <1>3, FramesAssumption DEF IInv, TypeOK
  <2> QED BY <1>3, <2>1 DEF IInv, TypeOK, NeverHangs, loopVars
<1>7. Answers'
  BY <1>3 DEF IInv, Answers, loopVars
<1>8. DataInv'
  BY <1>3 DEF IInv, DataInv
<1>9. FramesInOrder'
  <2>1. All' = All /\ toSlirp' = toSlirp /\ sent' = sent
    BY <1>3, Zenon DEF All
  <2> QED BY <2>1, OrderOfAll, Zenon DEF IInv
<1> QED BY <1>4, <1>5, <1>6, <1>7, <1>8, <1>9 DEF IInv

(* Every other step moves no frame and touches no ring. *)
LEMMA OtherSteps ==
  ASSUME IInv,
         \/ SlirpSends \/ Collect \/ SelectNothing
         \/ \E canWrite \in SUBSET Handlers : Select(canWrite)
         \/ AskUml \/ AskSlirp
         \/ UmlWriteNothing \/ UmlWriteAborts \/ UmlWriteFrame
         \/ UmlReadNothing \/ SlirpReadNothing \/ SlirpReadAborts \/ SlirpWriteNothing
         \/ UNCHANGED vars
  PROVE  IInv'
<1>1. UNCHANGED <<ringVars, umlIn, sent>>
  BY Zenon DEF SlirpSends, Collect, SelectNothing, Select, AskUml, AskSlirp, Ask,
     UmlWriteNothing, UmlWriteAborts, UmlWriteFrame, UmlReadNothing, SlirpReadNothing,
     SlirpReadAborts, SlirpWriteNothing, WritesNothing, ReadsNothing, Dies, envVars, vars
<1>2. Quiet(u2s)' /\ S2uInv' /\ DataInv' /\ FramesInOrder'
  BY <1>1, NothingMoves
<1>3. u2s' \in RingType
  BY <1>2, QuietType
<1>4. TypeOK' /\ NeverHangs' /\ Answers'
  <2> USE DEF IInv, TypeOK, NeverHangs, Answers, loopVars, envVars, ringVars
  <2>1. CASE SlirpSends
    BY <1>3, <2>1, FramesAssumption DEF SlirpSends
  <2>2. CASE Collect
    <3>1. /\ waitForRead' \in [Handlers -> BOOLEAN] /\ waitForWrite' \in [Handlers -> BOOLEAN]
          /\ readSet' \subseteq Handlers /\ writeSet' \subseteq Handlers
      BY <2>2 DEF Collect, WantsRead, WantsWrite
    <3> QED BY <1>3, <2>2, <3>1 DEF Collect
  <2>3. CASE SelectNothing
    BY <1>3, <2>3 DEF SelectNothing
  <2>4. ASSUME NEW canWrite \in SUBSET Handlers, Select(canWrite)
        PROVE  TypeOK' /\ NeverHangs' /\ Answers'
    BY <1>3, <2>4 DEF Select, Pending, Handlers
  <2>5. CASE AskUml
    <3>1. waitForRead' \in [Handlers -> BOOLEAN] /\ waitForWrite' \in [Handlers -> BOOLEAN]
      BY <2>5 DEF AskUml, Ask, WantsRead, WantsWrite
    <3> QED BY <1>3, <2>5, <3>1 DEF AskUml, Ask, WantsRead, WantsWrite, Rx
  <2>6. CASE AskSlirp
    <3>1. waitForRead' \in [Handlers -> BOOLEAN] /\ waitForWrite' \in [Handlers -> BOOLEAN]
      BY <2>6 DEF AskSlirp, Ask, WantsRead, WantsWrite
    <3> QED BY <1>3, <2>6, <3>1 DEF AskSlirp, Ask, WantsRead, WantsWrite, Rx
  <2>7. CASE UmlWriteNothing
    <3>1. waitForWrite' \in [Handlers -> BOOLEAN]
      BY <2>7 DEF UmlWriteNothing, WritesNothing
    <3> QED BY <1>3, <2>7, <3>1 DEF UmlWriteNothing, WritesNothing
  <2>8. CASE SlirpWriteNothing
    <3>1. waitForWrite' \in [Handlers -> BOOLEAN]
      BY <2>8 DEF SlirpWriteNothing, WritesNothing
    <3> QED BY <1>3, <2>8, <3>1 DEF SlirpWriteNothing, WritesNothing
  <2>9. CASE UmlWriteAborts \/ UmlWriteFrame \/ SlirpReadAborts
    BY <1>3, <2>9 DEF UmlWriteAborts, UmlWriteFrame, SlirpReadAborts, Dies
  <2>10. CASE UmlReadNothing \/ SlirpReadNothing
    BY <1>3, <2>10 DEF UmlReadNothing, SlirpReadNothing, ReadsNothing
  <2>11. CASE UNCHANGED vars
    BY <1>3, <2>11 DEF vars
  <2> QED BY <2>1, <2>2, <2>3, <2>4, <2>5, <2>6, <2>7, <2>8, <2>9, <2>10, <2>11
<1> QED BY <1>2, <1>4 DEF IInv
-----------------------------------------------------------------------------
(* The program starts with empty rings and nothing on the way. *)
LEMMA Initial == Init => IInv
<1> SUFFICES ASSUME Init
             PROVE  IInv
  OBVIOUS
<1>1. Quiet(InitRing) /\ InitRing \in RingType
  BY InitRingInv, QuietType, ItemNumberAssumption DEF Quiet, Balanced, InitRing
<1>2. S2uInv
  <2>1. InitRing \in LooseRing
    BY ItemNumberAssumption DEF InitRing, LooseRing, Items, NULL
  <2> QED BY <1>1, <2>1 DEF Init, S2uInv, Quiet
<1>3. TypeOK /\ NeverHangs /\ Answers /\ DataInv
  <2>1. u2sData \in [Items -> 0 .. UmlFrames]
    BY FramesAssumption DEF Init, Empty
  <2>2. DataInv
    BY FramesAssumption DEF Init, DataInv
  <2>3. waitForRead \in [Handlers -> BOOLEAN] /\ waitForWrite \in [Handlers -> BOOLEAN]
    BY DEF Init
  <2>4. TypeOK
    <3>1. u2s \in RingType /\ slirpIn = 0 /\ slirpSent = 0 /\ faults = 0
      BY <1>1 DEF Init
    <3>2. slirpIn \in 0 .. slirpSent /\ slirpSent \in 0 .. SlirpFrames /\ faults \in 0 .. Faults
      BY <3>1, FramesAssumption
    <3>3. readSet \subseteq Handlers /\ writeSet \subseteq Handlers
      BY DEF Init
    <3>4. status = "running" /\ pc = "collect" /\ readable = FALSE /\ writable = FALSE
      BY DEF Init
    <3> QED BY <2>1, <2>3, <3>1, <3>2, <3>3, <3>4 DEF TypeOK
  <2>5. NeverHangs /\ Answers
    BY DEF Init, NeverHangs, Answers
  <2> QED BY <2>2, <2>4, <2>5
<1>4. FramesInOrder
  <2>1. Held(u2s, u2sData) \in Seq(Frames) /\ Len(Held(u2s, u2sData)) = 0
    <3>1. u2sData \in [Items -> Frames] /\ Quiet(u2s) /\ u2s.numReleasedItems = 0
      BY <1>1, FramesAssumption DEF Init, Empty, Frames, InitRing
    <3> QED BY <3>1, HeldIsSeq
  <2>2. Held(u2s, u2sData) = <<>>
    BY <2>1
  <2>3. All = <<>>
    BY <2>2 DEF Init, All, Cat
  <2>4. InOrder(All, sent) /\ NoneEmpty(toSlirp)
    BY <2>3 DEF Init, InOrder, NoneEmpty
  <2> QED BY <2>4, OrderOfAll
<1> QED BY <1>1, <1>2, <1>3, <1>4 DEF Init, IInv

(* Every step of the environment and of the loop preserves the invariant. *)
LEMMA Inductive == IInv /\ [Next]_vars => IInv'
<1> SUFFICES ASSUME IInv, [Next]_vars
             PROVE  IInv'
  OBVIOUS
<1>1. CASE TincSends
  BY <1>1, TincSendsStep
<1>2. CASE TincSendsEmpty
  BY <1>2, TincSendsEmptyStep
<1>3. CASE UmlWriteEmpty
  BY <1>3, UmlWriteEmptyStep
<1>4. CASE UmlReadFrame \/ UmlReadFails
  BY <1>4, UmlReadsStep
<1>5. CASE SlirpReadFrame \/ SlirpReadFails
  BY <1>5, SlirpReadsStep
<1>6. CASE SlirpWrite
  BY <1>6, SlirpWriteStep
<1>7. CASE \/ SlirpSends \/ Collect \/ SelectNothing
           \/ \E canWrite \in SUBSET Handlers : Select(canWrite)
           \/ AskUml \/ AskSlirp
           \/ UmlWriteNothing \/ UmlWriteAborts \/ UmlWriteFrame
           \/ UmlReadNothing \/ SlirpReadNothing \/ SlirpReadAborts \/ SlirpWriteNothing
           \/ UNCHANGED vars
  BY <1>7, OtherSteps
<1> QED BY <1>1, <1>2, <1>3, <1>4, <1>5, <1>6, <1>7, Zenon DEF Next, Environment, Loop, Handle

(* The inductive invariant holds in every reachable state. *)
LEMMA Invariant == Spec => []IInv
<1>1. Init => IInv
  BY Initial
<1>2. IInv /\ [Next]_vars => IInv'
  BY Inductive
<1> QED BY <1>1, <1>2, PTL DEF Spec

(* The state stays in its types: no index of the ring to libslirp, no      *)
(* counter and no semaphore of it leaves its range.                        *)
THEOREM TypeCorrect == Spec => []TypeOK
<1>1. IInv => TypeOK
  BY DEF IInv
<1> QED BY <1>1, Invariant, PTL

(* Whatever the sizes of the rings and the interleaving of the two         *)
(* directions: no frame of tinc is lost, duplicated or overtaken, although *)
(* read() and write() only use calls that would drop the oldest packet.    *)
THEOREM FramesStayInOrder == Spec => []FramesInOrder
<1>1. IInv => FramesInOrder
  BY DEF IInv
<1> QED BY <1>1, Invariant, PTL

(* The only thread never waits on a semaphore that nobody else would post. *)
THEOREM LoopNeverHangs == Spec => []NeverHangs
<1>1. IInv => NeverHangs
  BY DEF IInv
<1> QED BY <1>1, Invariant, PTL
=============================================================================
