-------------------------- MODULE PacketRingProofs --------------------------
(***************************************************************************)
(* What each critical section of ProducerConsumer does to the ring         *)
(* invariant, for every ring size.  The side conditions of the lemmas are  *)
(* what a thread knows when it gets there.                                 *)
(***************************************************************************)
EXTENDS PacketRing, Sequences, TLAPS

(* The modulus of the code wraps an index at the end of the buffer. *)
LEMMA IncWraps ==
  ASSUME NEW i \in Items
  PROVE  Inc(i) = IF i = ItemNumber - 1 THEN 0 ELSE i + 1
BY ItemNumberAssumption, SMT DEF Inc, Items

(* `%= ItemNumber' brings every index back into its buffer. *)
LEMMA IncInItems == \A i \in Items : Inc(i) \in Items
BY IncWraps, ItemNumberAssumption DEF Items

(* The ring that the constructor builds satisfies the invariant. *)
LEMMA InitRingInv == RingInv(InitRing)
<1>1. InitRing \in RingType
  BY ItemNumberAssumption DEF InitRing, RingType, Items, NULL
<1>2. FreeSlots(InitRing)
  BY ItemNumberAssumption DEF InitRing, FreeSlots, Window, NoDuplicates, Ahead, Items, NULL
<1>3. ReleasedSlots(InitRing)
  BY ItemNumberAssumption DEF InitRing, ReleasedSlots, Window, NoDuplicates, Ahead, Items, NULL
<1>4. FlagsConsistent(InitRing)
  BY DEF InitRing, FlagsConsistent
<1> QED BY <1>1, <1>2, <1>3, <1>4 DEF RingInv

(* Removing the first entry of a window. *)
LEMMA WindowShrinks ==
  ASSUME NEW b \in [Items -> Items \cup {NULL}], NEW first \in Items,
         NEW n \in 1 .. ItemNumber, NEW last,
         Window(b, first, n, last), NoDuplicates(b)
  PROVE  /\ b[first] \in Items
         /\ Window([b EXCEPT ![first] = NULL], Inc(first), n - 1, last)
         /\ NoDuplicates([b EXCEPT ![first] = NULL])
         /\ \A i \in Items : [b EXCEPT ![first] = NULL][i] # b[first]
<1> USE ItemNumberAssumption DEF Items, NULL
<1>1. b[first] \in Items
  BY DEF Window, Ahead
<1>2. Window([b EXCEPT ![first] = NULL], Inc(first), n - 1, last)
  <2>1. Inc(first) = IF first = ItemNumber - 1 THEN 0 ELSE first + 1
    BY IncWraps
  <2>2. \A i \in Items : Ahead(Inc(first), i) = IF i = first THEN ItemNumber - 1 ELSE Ahead(first, i) - 1
    BY <2>1 DEF Ahead
  <2>3. \A i \in Items : [b EXCEPT ![first] = NULL][i] # NULL <=> Ahead(Inc(first), i) < n - 1
    <3>1. \A i \in Items : Ahead(first, i) \in Nat
      BY DEF Ahead
    <3> QED BY <2>2, <3>1 DEF Window
  <2>4. last = IF Inc(first) + (n - 1) < ItemNumber THEN Inc(first) + (n - 1)
               ELSE Inc(first) + (n - 1) - ItemNumber
    BY <2>1 DEF Window
  <2> QED BY <2>3, <2>4 DEF Window
<1>3. NoDuplicates([b EXCEPT ![first] = NULL])
  BY DEF NoDuplicates
<1>4. \A i \in Items : [b EXCEPT ![first] = NULL][i] # b[first]
  BY <1>1 DEF NoDuplicates
<1> QED BY <1>1, <1>2, <1>3, <1>4

(* Adding an entry, not yet there, behind a window that is not full. *)
LEMMA WindowGrows ==
  ASSUME NEW b \in [Items -> Items \cup {NULL}], NEW first \in Items,
         NEW n \in 0 .. ItemNumber - 1, NEW last \in Items, NEW p \in Items,
         Window(b, first, n, last), NoDuplicates(b),
         \A i \in Items : b[i] # p
  PROVE  /\ Window([b EXCEPT ![last] = p], first, n + 1, Inc(last))
         /\ NoDuplicates([b EXCEPT ![last] = p])
<1> USE ItemNumberAssumption DEF Items, NULL
<1>1. Window([b EXCEPT ![last] = p], first, n + 1, Inc(last))
  <2>1. Inc(last) = IF last = ItemNumber - 1 THEN 0 ELSE last + 1
    BY IncWraps
  <2>2. \A i \in Items : Ahead(first, i) \in Nat /\ (Ahead(first, i) = n <=> i = last)
    BY DEF Window, Ahead
  <2>3. \A i \in Items : [b EXCEPT ![last] = p][i] # NULL <=> Ahead(first, i) < n + 1
    BY <2>2 DEF Window
  <2>4. Inc(last) = IF first + (n + 1) < ItemNumber THEN first + (n + 1)
                    ELSE first + (n + 1) - ItemNumber
    BY <2>1 DEF Window
  <2> QED BY <2>3, <2>4 DEF Window
<1>2. NoDuplicates([b EXCEPT ![last] = p])
  BY DEF NoDuplicates
<1> QED BY <1>1, <1>2
-----------------------------------------------------------------------------
(* Nothing in the ring invariant but the types depends on the semaphores,  *)
(* and those move within 0..ItemNumber.                                    *)
LEMMA SemaphoreSteps ==
  ASSUME NEW r, RingInv(r)
  PROVE  /\ r.free > 0 => RingInv(FreeWait(r))
         /\ r.free < ItemNumber => RingInv(FreePost(r))
         /\ r.item > 0 => RingInv(ItemWait(r))
         /\ r.item < ItemNumber => RingInv(ItemPost(r))
<1>1. ASSUME NEW n \in 0 .. ItemNumber
      PROVE  RingInv([r EXCEPT !.free = n]) /\ RingInv([r EXCEPT !.item = n])
  BY DEF RingInv, RingType, FreeSlots, ReleasedSlots, FlagsConsistent
<1>2. /\ r.free \in 0 .. ItemNumber
      /\ r.item \in 0 .. ItemNumber
  BY DEF RingInv, RingType
<1>3. r.free > 0 => RingInv(FreeWait(r))
  <2>1. r.free > 0 => r.free - 1 \in 0 .. ItemNumber
    BY <1>2, ItemNumberAssumption
  <2> QED BY <1>1, <2>1, Zenon DEF FreeWait
<1>4. r.free < ItemNumber => RingInv(FreePost(r))
  <2>1. r.free < ItemNumber => r.free + 1 \in 0 .. ItemNumber
    BY <1>2, ItemNumberAssumption
  <2> QED BY <1>1, <2>1, Zenon DEF FreePost
<1>5. r.item > 0 => RingInv(ItemWait(r))
  <2>1. r.item > 0 => r.item - 1 \in 0 .. ItemNumber
    BY <1>2, ItemNumberAssumption
  <2> QED BY <1>1, <2>1, Zenon DEF ItemWait
<1>6. r.item < ItemNumber => RingInv(ItemPost(r))
  <2>1. r.item < ItemNumber => r.item + 1 \in 0 .. ItemNumber
    BY <1>2, ItemNumberAssumption
  <2> QED BY <1>1, <2>1, Zenon DEF ItemPost
<1> QED BY <1>3, <1>4, <1>5, <1>6

(* A ring stays a ring when the fields that a critical section assigns are *)
(* updated within their types: one lemma per critical section.             *)
LEMMA TakeFreeType ==
  ASSUME NEW r \in RingType,
         NEW fb \in [Items -> Items \cup {NULL}], NEW ip \in SUBSET Items, NEW iu \in SUBSET Items,
         NEW i \in Items, NEW np \in 0 .. ItemNumber
  PROVE  [r EXCEPT !.freeBuffer = fb, !.inProduction = ip, !.inUse = iu,
                   !.nextAdd = i, !.numProducedItems = np] \in RingType
BY DEF RingType

(* The section of release() writes only values of the declared types. *)
LEMMA PutReleasedType ==
  ASSUME NEW r \in RingType,
         NEW ip \in SUBSET Items, NEW rb \in [Items -> Items \cup {NULL}], NEW i \in Items,
         NEW nr \in 0 .. ItemNumber
  PROVE  [r EXCEPT !.inProduction = ip, !.releasedBuffer = rb, !.nextRelease = i,
                   !.numReleasedItems = nr] \in RingType
BY DEF RingType

(* The section of consume() writes only values of the declared types. *)
LEMMA TakeOldestType ==
  ASSUME NEW r \in RingType,
         NEW rb \in [Items -> Items \cup {NULL}], NEW ic \in SUBSET Items, NEW i \in Items,
         NEW nr \in 0 .. ItemNumber
  PROVE  [r EXCEPT !.releasedBuffer = rb, !.inConsumption = ic, !.nextConsume = i,
                   !.numReleasedItems = nr] \in RingType
BY DEF RingType

(* The section of cleanup() writes only values of the declared types. *)
LEMMA PutFreeType ==
  ASSUME NEW r \in RingType,
         NEW iu \in SUBSET Items, NEW ic \in SUBSET Items, NEW fb \in [Items -> Items \cup {NULL}],
         NEW j \in Items, NEW np \in 0 .. ItemNumber
  PROVE  [r EXCEPT !.inUse = iu, !.inConsumption = ic, !.freeBuffer = fb,
                   !.nextRemoved = j, !.numProducedItems = np] \in RingType
BY DEF RingType

(* The overwriting section of produce(false) does so, too. *)
LEMMA EatOldestType ==
  ASSUME NEW r \in RingType,
         NEW iu \in SUBSET Items, NEW fb \in [Items -> Items \cup {NULL}], NEW rb \in [Items -> Items \cup {NULL}],
         NEW i \in Items, NEW j \in Items, NEW np \in 0 .. ItemNumber,
         NEW nr \in 0 .. ItemNumber
  PROVE  [r EXCEPT !.inUse = iu, !.freeBuffer = fb, !.releasedBuffer = rb,
                   !.nextConsume = i, !.nextRemoved = j, !.numProducedItems = np,
                   !.numReleasedItems = nr] \in RingType
BY DEF RingType

(* produce() takes an item that is not in use when the ring is not full. *)
LEMMA TakeFreeStep ==
  ASSUME NEW r, RingInv(r), r.numProducedItems < ItemNumber, NEW p, p = NextFree(r)
  PROVE  /\ p \in Items \ r.inUse
         /\ RingInv(TakeFree(r, p))
<1> DEFINE q == TakeFree(r, p)
           b == [r.freeBuffer EXCEPT ![r.nextAdd] = NULL]
<1>1. /\ q = [r EXCEPT !.freeBuffer = b, !.inProduction = @ \cup {p}, !.inUse = @ \cup {p},
                       !.nextAdd = Inc(@), !.numProducedItems = @ + 1]
      /\ r \in RingType
  BY DEF RingInv, TakeFree, RingType
<1>2. /\ p \in Items
      /\ Window(b, Inc(r.nextAdd), ItemNumber - r.numProducedItems - 1, r.nextRemoved)
      /\ NoDuplicates(b)
      /\ \A i \in Items : b[i] # p
  BY WindowShrinks, ItemNumberAssumption DEF RingInv, RingType, FreeSlots, NextFree
<1>3. p \notin r.inUse
  BY DEF RingInv, RingType, FreeSlots, NextFree
<1>4. q \in RingType
  <2>1. /\ Inc(r.nextAdd) \in Items
        /\ r.numProducedItems + 1 \in 0 .. ItemNumber
        /\ b \in [Items -> Items \cup {NULL}]
        /\ r.inUse \cup {p} \in SUBSET Items
        /\ r.inProduction \cup {p} \in SUBSET Items
    BY <1>1, <1>2, IncInItems, ItemNumberAssumption DEF RingType
  <2> HIDE DEF b, q
  <2> QED BY <1>1, <2>1, TakeFreeType, Zenon
<1>5. FreeSlots(q)
  <2>1. ItemNumber - q.numProducedItems = ItemNumber - r.numProducedItems - 1
    BY <1>1, ItemNumberAssumption DEF RingType
  <2>2. \A i \in Items : q.freeBuffer[i] \notin q.inUse
    BY <1>1, <1>2 DEF RingInv, RingType, FreeSlots, Items, NULL
  <2> QED BY <1>1, <1>2, <2>1, <2>2 DEF FreeSlots, RingType
<1>6. ReleasedSlots(q)
  BY <1>1, <1>3 DEF RingInv, RingType, ReleasedSlots
<1>7. FlagsConsistent(q)
  BY <1>1, <1>3 DEF RingInv, RingType, FlagsConsistent
<1> QED BY <1>2, <1>3, <1>4, <1>5, <1>6, <1>7 DEF RingInv

(* release() queues an item in production when fewer than ItemNumber items *)
(* are queued.                                                             *)
LEMMA PutReleasedStep ==
  ASSUME NEW r, RingInv(r), r.numReleasedItems < ItemNumber,
         NEW p \in r.inUse \cap r.inProduction
  PROVE  RingInv(PutReleased(r, p))
<1> DEFINE q == PutReleased(r, p)
           b == [r.releasedBuffer EXCEPT ![r.nextRelease] = p]
<1>1. /\ q = [r EXCEPT !.inProduction = @ \ {p}, !.releasedBuffer = b,
                       !.nextRelease = Inc(@), !.numReleasedItems = @ + 1]
      /\ r \in RingType
      /\ p \in Items
  BY DEF RingInv, PutReleased, RingType
<1>2. \A i \in Items : r.releasedBuffer[i] # p
  BY <1>1 DEF RingInv, RingType, ReleasedSlots, Items, NULL
<1>3. /\ Window(b, r.nextConsume, r.numReleasedItems + 1, Inc(r.nextRelease))
      /\ NoDuplicates(b)
  <2> DEFINE n == r.numReleasedItems
  <2>1. /\ n \in 0 .. ItemNumber - 1
        /\ r.releasedBuffer \in [Items -> Items \cup {NULL}]
        /\ r.nextConsume \in Items /\ r.nextRelease \in Items
    BY <1>1, ItemNumberAssumption DEF RingType
  <2>2. Window(r.releasedBuffer, r.nextConsume, n, r.nextRelease) /\ NoDuplicates(r.releasedBuffer)
    BY DEF RingInv, ReleasedSlots
  <2> HIDE DEF n
  <2>3. /\ Window(b, r.nextConsume, n + 1, Inc(r.nextRelease))
        /\ NoDuplicates(b)
    BY <1>1, <1>2, <2>1, <2>2, WindowGrows, Zenon
  <2> QED BY <2>3 DEF n
<1>4. q \in RingType
  <2>1. /\ Inc(r.nextRelease) \in Items
        /\ r.numReleasedItems + 1 \in 0 .. ItemNumber
        /\ b \in [Items -> Items \cup {NULL}]
        /\ r.inProduction \ {p} \in SUBSET Items
    BY <1>1, IncInItems, ItemNumberAssumption DEF RingType
  <2> HIDE DEF b, q
  <2> QED BY <1>1, <2>1, PutReleasedType, Zenon
<1>5. FreeSlots(q)
  BY <1>1 DEF RingInv, RingType, FreeSlots
<1>6. ReleasedSlots(q)
  <2>1. \A i \in Items : q.releasedBuffer[i] # NULL =>
          q.releasedBuffer[i] \in q.inUse \ (q.inProduction \cup q.inConsumption)
    BY <1>1 DEF RingInv, RingType, ReleasedSlots, FlagsConsistent
  <2> QED BY <1>1, <1>3, <2>1 DEF ReleasedSlots, RingType
<1>7. FlagsConsistent(q)
  BY <1>1 DEF RingInv, RingType, FlagsConsistent
<1> QED BY <1>4, <1>5, <1>6, <1>7 DEF RingInv

(* consume() takes an item in use, neither in production nor consumption,  *)
(* when something is queued.                                               *)
LEMMA TakeOldestStep ==
  ASSUME NEW r, RingInv(r), r.numReleasedItems > 0, NEW o, o = OldestReleased(r)
  PROVE  /\ o \in r.inUse \ (r.inProduction \cup r.inConsumption)
         /\ o \in Items
         /\ RingInv(TakeOldest(r, o))
<1> DEFINE q == TakeOldest(r, o)
           b == [r.releasedBuffer EXCEPT ![r.nextConsume] = NULL]
<1>1. /\ q = [r EXCEPT !.releasedBuffer = b, !.inConsumption = @ \cup {o},
                       !.nextConsume = Inc(@), !.numReleasedItems = @ - 1]
      /\ r \in RingType
  BY DEF RingInv, TakeOldest, RingType
<1>2. /\ o \in Items
      /\ Window(b, Inc(r.nextConsume), r.numReleasedItems - 1, r.nextRelease)
      /\ NoDuplicates(b)
      /\ \A i \in Items : b[i] # o
  BY WindowShrinks, ItemNumberAssumption DEF RingInv, RingType, ReleasedSlots, OldestReleased
<1>3. o \in r.inUse \ (r.inProduction \cup r.inConsumption)
  BY <1>2 DEF RingInv, RingType, ReleasedSlots, OldestReleased, Items, NULL
<1>4. q \in RingType
  <2>1. /\ Inc(r.nextConsume) \in Items
        /\ r.numReleasedItems - 1 \in 0 .. ItemNumber
        /\ b \in [Items -> Items \cup {NULL}]
        /\ r.inConsumption \cup {o} \in SUBSET Items
    BY <1>1, <1>2, IncInItems, ItemNumberAssumption DEF RingType
  <2> HIDE DEF b, q
  <2> QED BY <1>1, <2>1, TakeOldestType, Zenon
<1>5. FreeSlots(q)
  BY <1>1 DEF RingInv, RingType, FreeSlots
<1>6. ReleasedSlots(q)
  <2>1. \A i \in Items : q.releasedBuffer[i] # NULL =>
          q.releasedBuffer[i] \in q.inUse \ (q.inProduction \cup q.inConsumption)
    BY <1>1, <1>2 DEF RingInv, RingType, ReleasedSlots
  <2> QED BY <1>1, <1>2, <2>1 DEF ReleasedSlots, RingType
<1>7. FlagsConsistent(q)
  BY <1>1, <1>3 DEF RingInv, RingType, FlagsConsistent
<1> QED BY <1>2, <1>3, <1>4, <1>5, <1>6, <1>7 DEF RingInv

(* cleanup() makes an item in consumption free again. *)
LEMMA PutFreeStep ==
  ASSUME NEW r, RingInv(r), r.numProducedItems > 0,
         NEW o \in r.inUse \cap r.inConsumption
  PROVE  RingInv(PutFree(r, o))
<1> DEFINE q == PutFree(r, o)
           b == [r.freeBuffer EXCEPT ![r.nextRemoved] = o]
<1>1. /\ q = [r EXCEPT !.inUse = @ \ {o}, !.inConsumption = @ \ {o}, !.freeBuffer = b,
                       !.nextRemoved = Inc(@), !.numProducedItems = @ - 1]
      /\ r \in RingType
      /\ o \in Items
  BY DEF RingInv, PutFree, RingType
<1>2. \A i \in Items : r.freeBuffer[i] # o
  BY DEF RingInv, FreeSlots
<1>3. /\ Window(b, r.nextAdd, ItemNumber - r.numProducedItems + 1, Inc(r.nextRemoved))
      /\ NoDuplicates(b)
  <2> DEFINE n == ItemNumber - r.numProducedItems
  <2>1. /\ n \in 0 .. ItemNumber - 1
        /\ r.freeBuffer \in [Items -> Items \cup {NULL}]
        /\ r.nextAdd \in Items /\ r.nextRemoved \in Items
    BY <1>1, ItemNumberAssumption DEF RingType
  <2>2. Window(r.freeBuffer, r.nextAdd, n, r.nextRemoved) /\ NoDuplicates(r.freeBuffer)
    BY DEF RingInv, FreeSlots
  <2> HIDE DEF n
  <2>3. /\ Window(b, r.nextAdd, n + 1, Inc(r.nextRemoved))
        /\ NoDuplicates(b)
    BY <1>1, <1>2, <2>1, <2>2, WindowGrows, Zenon
  <2> QED BY <2>3 DEF n
<1>4. q \in RingType
  <2>1. /\ Inc(r.nextRemoved) \in Items
        /\ r.numProducedItems - 1 \in 0 .. ItemNumber
        /\ b \in [Items -> Items \cup {NULL}]
        /\ r.inUse \ {o} \in SUBSET Items
        /\ r.inConsumption \ {o} \in SUBSET Items
    BY <1>1, IncInItems, ItemNumberAssumption DEF RingType
  <2> HIDE DEF b, q
  <2> QED BY <1>1, <2>1, PutFreeType, Zenon
<1>5. FreeSlots(q)
  <2>1. ItemNumber - q.numProducedItems = ItemNumber - r.numProducedItems + 1
    BY <1>1, ItemNumberAssumption DEF RingType
  <2>2. \A i \in Items : q.freeBuffer[i] \notin q.inUse
    BY <1>1 DEF RingInv, RingType, FreeSlots
  <2> QED BY <1>1, <1>3, <2>1, <2>2 DEF FreeSlots, RingType
<1>6. ReleasedSlots(q)
  BY <1>1 DEF RingInv, RingType, ReleasedSlots
<1>7. FlagsConsistent(q)
  BY <1>1 DEF RingInv, RingType, FlagsConsistent
<1> QED BY <1>4, <1>5, <1>6, <1>7 DEF RingInv

(* produce(false) on a full ring makes the oldest queued item free. *)
LEMMA EatOldestStep ==
  ASSUME NEW r, RingInv(r), r.numReleasedItems > 0, r.numProducedItems > 0,
         r.free < ItemNumber, NEW p, p = OldestReleased(r)
  PROVE  /\ p \in r.inUse \ (r.inProduction \cup r.inConsumption)
         /\ p \in Items
         /\ RingInv(EatOldest(r, p))
<1> DEFINE fb == [r.freeBuffer EXCEPT ![r.nextRemoved] = p]
           rb == [r.releasedBuffer EXCEPT ![r.nextConsume] = NULL]
           q  == [r EXCEPT !.inUse = @ \ {p}, !.freeBuffer = fb, !.releasedBuffer = rb,
                           !.nextConsume = Inc(@), !.nextRemoved = Inc(@),
                           !.numProducedItems = @ - 1, !.numReleasedItems = @ - 1]
<1>1. /\ EatOldest(r, p) = FreePost(q)
      /\ r \in RingType
  BY DEF RingInv, EatOldest, RingType
<1>2. /\ p \in Items
      /\ Window(rb, Inc(r.nextConsume), r.numReleasedItems - 1, r.nextRelease)
      /\ NoDuplicates(rb)
      /\ \A i \in Items : rb[i] # p
  BY WindowShrinks, ItemNumberAssumption DEF RingInv, RingType, ReleasedSlots, OldestReleased
<1>3. p \in r.inUse \ (r.inProduction \cup r.inConsumption)
  BY <1>2 DEF RingInv, RingType, ReleasedSlots, OldestReleased, Items, NULL
<1>4. \A i \in Items : r.freeBuffer[i] # p
  BY <1>3 DEF RingInv, FreeSlots
<1>5. /\ Window(fb, r.nextAdd, ItemNumber - r.numProducedItems + 1, Inc(r.nextRemoved))
      /\ NoDuplicates(fb)
  <2> DEFINE n == ItemNumber - r.numProducedItems
  <2>1. /\ n \in 0 .. ItemNumber - 1
        /\ r.freeBuffer \in [Items -> Items \cup {NULL}]
        /\ r.nextAdd \in Items /\ r.nextRemoved \in Items
    BY <1>1, ItemNumberAssumption DEF RingType
  <2>2. Window(r.freeBuffer, r.nextAdd, n, r.nextRemoved) /\ NoDuplicates(r.freeBuffer)
    BY DEF RingInv, FreeSlots
  <2> HIDE DEF n
  <2>3. Window(fb, r.nextAdd, n + 1, Inc(r.nextRemoved)) /\ NoDuplicates(fb)
    BY <1>2, <1>4, <2>1, <2>2, WindowGrows
  <2> QED BY <2>3 DEF n
<1>6. q \in RingType
  <2>1. /\ Inc(r.nextConsume) \in Items
        /\ Inc(r.nextRemoved) \in Items
        /\ r.numProducedItems - 1 \in 0 .. ItemNumber
        /\ r.numReleasedItems - 1 \in 0 .. ItemNumber
        /\ fb \in [Items -> Items \cup {NULL}]
        /\ rb \in [Items -> Items \cup {NULL}]
        /\ r.inUse \ {p} \in SUBSET Items
    BY <1>1, <1>2, IncInItems, ItemNumberAssumption DEF RingType
  <2> HIDE DEF fb, rb
  <2> QED BY <1>1, <2>1, EatOldestType, Zenon
<1>7. FreeSlots(q)
  <2>1. ItemNumber - q.numProducedItems = ItemNumber - r.numProducedItems + 1
    BY <1>1, ItemNumberAssumption DEF RingType
  <2>2. \A i \in Items : q.freeBuffer[i] \notin q.inUse
    BY <1>1 DEF RingInv, RingType, FreeSlots
  <2> QED BY <1>1, <1>5, <2>1, <2>2 DEF FreeSlots, RingType
<1>8. ReleasedSlots(q)
  <2>1. \A i \in Items : q.releasedBuffer[i] # NULL =>
          q.releasedBuffer[i] \in q.inUse \ (q.inProduction \cup q.inConsumption)
    BY <1>1, <1>2 DEF RingInv, RingType, ReleasedSlots
  <2> QED BY <1>1, <1>2, <2>1 DEF ReleasedSlots, RingType
<1>9. FlagsConsistent(q)
  BY <1>1, <1>3 DEF RingInv, RingType, FlagsConsistent
<1>10. RingInv(q) /\ q.free < ItemNumber
  BY <1>1, <1>6, <1>7, <1>8, <1>9 DEF RingInv, RingType
<1>11. RingInv(FreePost(q))
  <2> HIDE DEF q
  <2> QED BY <1>10, SemaphoreSteps
<1> QED BY <1>1, <1>2, <1>3, <1>11
-----------------------------------------------------------------------------
(* An index that is at most one buffer length too large wraps once. *)
LEMMA ModWraps ==
  ASSUME NEW a \in 0 .. 2 * ItemNumber - 1
  PROVE  a % ItemNumber = IF a < ItemNumber THEN a ELSE a - ItemNumber
<1>1. ItemNumber \in Nat /\ ItemNumber > 0 /\ a \in Nat
  BY ItemNumberAssumption
<1>2. CASE a < ItemNumber
  BY <1>1, <1>2, SMT
<1>3. CASE a >= ItemNumber
  BY <1>1, <1>3, SMT
<1> QED BY <1>1, <1>2, <1>3

(* The k-th index from c on is the one behind n entries only for k = n + 1. *)
LEMMA IndexBehind ==
  ASSUME NEW c \in Items, NEW n \in 0 .. ItemNumber - 1, NEW k \in 1 .. n + 1, NEW last,
         last = IF c + n < ItemNumber THEN c + n ELSE c + n - ItemNumber
  PROVE  LET i == c + k - 1
             j == IF i < ItemNumber THEN i ELSE i - ItemNumber
         IN  j \in Items /\ (j = last <=> k = n + 1)
BY ItemNumberAssumption DEF Items

(* The queue read without the modulus. *)
LEMMA QueueEntry ==
  ASSUME NEW r \in RingType
  PROVE  /\ ReleasedQueue(r) \in Seq(Items \cup {NULL})
         /\ Len(ReleasedQueue(r)) = r.numReleasedItems
         /\ \A k \in 1 .. r.numReleasedItems :
              LET i == r.nextConsume + k - 1
              IN  ReleasedQueue(r)[k] = r.releasedBuffer[IF i < ItemNumber THEN i ELSE i - ItemNumber]
<1>1. /\ r.nextConsume \in Items /\ r.numReleasedItems \in 0 .. ItemNumber
      /\ r.releasedBuffer \in [Items -> Items \cup {NULL}]
  BY DEF RingType
<1>2. ASSUME NEW k \in 1 .. r.numReleasedItems
      PROVE  LET i == r.nextConsume + k - 1
             IN  /\ i % ItemNumber = IF i < ItemNumber THEN i ELSE i - ItemNumber
                 /\ i % ItemNumber \in Items
  <2>1. r.nextConsume + k - 1 \in 0 .. 2 * ItemNumber - 1
    BY <1>1, ItemNumberAssumption DEF Items
  <2> QED BY <2>1, ModWraps, ItemNumberAssumption DEF Items
<1>3. /\ ReleasedQueue(r) \in Seq(Items \cup {NULL})
      /\ Len(ReleasedQueue(r)) = r.numReleasedItems
  BY <1>1, <1>2 DEF ReleasedQueue
<1>4. ASSUME NEW k \in 1 .. r.numReleasedItems
      PROVE  ReleasedQueue(r)[k] = r.releasedBuffer[(r.nextConsume + k - 1) % ItemNumber]
  BY DEF ReleasedQueue
<1> QED BY <1>2, <1>3, <1>4

(* release() appends its item to the queue. *)
LEMMA QueueAppends ==
  ASSUME NEW r, RingInv(r), r.numReleasedItems < ItemNumber, NEW p \in Items,
         RingInv(PutReleased(r, p))
  PROVE  ReleasedQueue(PutReleased(r, p)) = Append(ReleasedQueue(r), p)
<1> DEFINE q == PutReleased(r, p)
           n == r.numReleasedItems
<1>1. /\ r \in RingType /\ q \in RingType
      /\ q.numReleasedItems = n + 1 /\ q.nextConsume = r.nextConsume
      /\ q.releasedBuffer = [r.releasedBuffer EXCEPT ![r.nextRelease] = p]
  BY DEF RingInv, PutReleased, RingType
<1>2. /\ r.nextConsume \in Items /\ n \in 0 .. ItemNumber - 1 /\ r.nextRelease \in Items
      /\ r.releasedBuffer \in [Items -> Items \cup {NULL}]
      /\ r.nextRelease = IF r.nextConsume + n < ItemNumber THEN r.nextConsume + n
                         ELSE r.nextConsume + n - ItemNumber
  BY <1>1, ItemNumberAssumption DEF RingType, RingInv, ReleasedSlots, Window
<1>3. /\ ReleasedQueue(q) \in Seq(Items \cup {NULL}) /\ Len(ReleasedQueue(q)) = n + 1
      /\ ReleasedQueue(r) \in Seq(Items \cup {NULL}) /\ Len(ReleasedQueue(r)) = n
  BY <1>1, QueueEntry
<1> HIDE DEF q
<1>4. ASSUME NEW k \in 1 .. n + 1
      PROVE  ReleasedQueue(q)[k] = IF k = n + 1 THEN p ELSE ReleasedQueue(r)[k]
  <2> DEFINE i == r.nextConsume + k - 1
             j == IF i < ItemNumber THEN i ELSE i - ItemNumber
  <2>1. ReleasedQueue(q)[k] = q.releasedBuffer[j]
    <3> DEFINE a == q.nextConsume + k - 1
    <3>1. k \in 1 .. q.numReleasedItems /\ a = i
      BY <1>1
    <3>2. ReleasedQueue(q)[k] = q.releasedBuffer[IF a < ItemNumber THEN a ELSE a - ItemNumber]
      BY <1>1, <3>1, QueueEntry
    <3> QED BY <3>1, <3>2
  <2>2. j \in Items /\ (j = r.nextRelease <=> k = n + 1)
    BY <1>2, IndexBehind
  <2>3. CASE k = n + 1
    BY <1>1, <1>2, <2>1, <2>2, <2>3
  <2>4. CASE k # n + 1
    <3>1. k \in 1 .. n
      BY <1>2, <2>4
    <3>2. ReleasedQueue(r)[k] = r.releasedBuffer[j]
      BY <1>1, <3>1, QueueEntry
    <3> QED BY <1>1, <1>2, <2>1, <2>2, <2>4, <3>2
  <2> QED BY <2>3, <2>4
<1> HIDE DEF n
<1>5. ReleasedQueue(q) = Append(ReleasedQueue(r), p)
  BY <1>2, <1>3, <1>4
<1> QED BY <1>5 DEF q

(* consume() and the overwriting produce(false) take the queue's head. *)
LEMMA QueueShrinks ==
  ASSUME NEW r, RingInv(r), r.numReleasedItems > 0, NEW q, RingInv(q),
         q.numReleasedItems = r.numReleasedItems - 1,
         q.nextConsume = Inc(r.nextConsume),
         q.releasedBuffer = [r.releasedBuffer EXCEPT ![r.nextConsume] = NULL]
  PROVE  /\ ReleasedQueue(r) # <<>>
         /\ Head(ReleasedQueue(r)) = OldestReleased(r)
         /\ ReleasedQueue(q) = Tail(ReleasedQueue(r))
<1> DEFINE n == r.numReleasedItems
<1>1. /\ r \in RingType /\ q \in RingType
      /\ r.nextConsume \in Items /\ n \in 1 .. ItemNumber
      /\ r.releasedBuffer \in [Items -> Items \cup {NULL}]
  BY ItemNumberAssumption DEF RingInv, RingType
<1>2. q.nextConsume = IF r.nextConsume = ItemNumber - 1 THEN 0 ELSE r.nextConsume + 1
  BY <1>1, IncWraps
<1>3. /\ ReleasedQueue(q) \in Seq(Items \cup {NULL}) /\ Len(ReleasedQueue(q)) = n - 1
      /\ ReleasedQueue(r) \in Seq(Items \cup {NULL}) /\ Len(ReleasedQueue(r)) = n
  BY <1>1, QueueEntry
<1>4. ReleasedQueue(r)[1] = r.releasedBuffer[r.nextConsume]
  BY <1>1, QueueEntry, ItemNumberAssumption DEF Items
<1>5. ASSUME NEW k \in 1 .. n - 1
      PROVE  ReleasedQueue(q)[k] = ReleasedQueue(r)[k + 1]
  <2> DEFINE i == r.nextConsume + k
             j == IF i < ItemNumber THEN i ELSE i - ItemNumber
  <2>1. k + 1 \in 1 .. n /\ r.nextConsume + (k + 1) - 1 = i
    BY <1>1 DEF Items
  <2>2. ReleasedQueue(r)[k + 1] = r.releasedBuffer[j]
    BY <1>1, <2>1, QueueEntry
  <2>3. ReleasedQueue(q)[k] = q.releasedBuffer[j]
    <3> DEFINE a == q.nextConsume + k - 1
    <3>1. (IF a < ItemNumber THEN a ELSE a - ItemNumber) = j
      BY <1>1, <1>2, ItemNumberAssumption DEF Items
    <3>2. ReleasedQueue(q)[k] = q.releasedBuffer[IF a < ItemNumber THEN a ELSE a - ItemNumber]
      BY <1>1, QueueEntry
    <3> QED BY <3>1, <3>2
  <2>4. j \in Items /\ j # r.nextConsume
    BY <1>1, ItemNumberAssumption DEF Items
  <2> QED BY <1>1, <2>2, <2>3, <2>4
<1> HIDE DEF n
<1>6. ReleasedQueue(q) = Tail(ReleasedQueue(r))
  BY <1>1, <1>3, <1>5
<1>7. ReleasedQueue(r) # <<>> /\ Head(ReleasedQueue(r)) = OldestReleased(r)
  BY <1>1, <1>3, <1>4 DEF OldestReleased
<1> QED BY <1>6, <1>7

(* What waits in the queue is in use and in nobody's hands. *)
LEMMA QueuedItems ==
  ASSUME NEW r, RingInv(r), NEW k \in 1 .. r.numReleasedItems
  PROVE  ReleasedQueue(r)[k] \in (Items \cap r.inUse) \ (r.inProduction \cup r.inConsumption)
<1>1. /\ r \in RingType
      /\ r.nextConsume \in Items /\ r.numReleasedItems \in 0 .. ItemNumber
      /\ r.releasedBuffer \in [Items -> Items \cup {NULL}]
  BY DEF RingInv, RingType
<1> DEFINE i == r.nextConsume + k - 1
           j == IF i < ItemNumber THEN i ELSE i - ItemNumber
<1>2. ReleasedQueue(r)[k] = r.releasedBuffer[j]
  BY <1>1, QueueEntry
<1>3. j \in Items /\ Ahead(r.nextConsume, j) < r.numReleasedItems
  BY <1>1, ItemNumberAssumption DEF Items, Ahead
<1> HIDE DEF j
<1>4. r.releasedBuffer[j] # NULL
  BY <1>3 DEF RingInv, ReleasedSlots, Window
<1> QED BY <1>1, <1>2, <1>3, <1>4 DEF RingInv, ReleasedSlots
=============================================================================
