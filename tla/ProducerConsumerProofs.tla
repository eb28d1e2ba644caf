----------------------- MODULE ProducerConsumerProofs -----------------------
(***************************************************************************)
(* The safety of ProducerConsumer for every ring size, every finite number *)
(* of producers and consumers and every choice of blocking modes.  IInv is *)
(* shown to be inductive, action by action; what the critical sections do  *)
(* to the ring comes from PacketRingProofs.  The end of the module shows   *)
(* that the ring is a bounded FIFO queue.                                  *)
(***************************************************************************)
EXTENDS ProducerConsumer, PacketRingProofs, FiniteSetTheorems

(* Does label x count among the labels L? *)
One(x, L) == IF x \in L THEN 1 ELSE 0

(* There are finitely many threads, so that they can be counted. *)
LEMMA ThreadsFinite == IsFiniteSet(Threads)
BY ThreadAssumption, FS_Union DEF Threads

(* How the number of threads at some labels changes when a thread moves. *)
LEMMA CountStep ==
  ASSUME pc \in [Threads -> Labels], NEW t \in Threads, NEW from, NEW to, NEW L,
         Goto(t, from, to)
  PROVE  /\ Cardinality(At(L)) \in Nat
         /\ Cardinality(At(L)) >= One(from, L)
         /\ Cardinality(At(L))' = Cardinality(At(L)) + One(to, L) - One(from, L)
<1>1. /\ pc[t] = from
      /\ pc' = [pc EXCEPT ![t] = to]
  BY DEF Goto
<1>2. IsFiniteSet(At(L)) /\ Cardinality(At(L)) \in Nat
  BY ThreadsFinite, FS_Subset, FS_CardinalityType DEF At
<1>3. from \in L => At(L) # {}
  BY <1>1 DEF At
<1>4. Cardinality(At(L)) >= One(from, L)
  BY <1>2, <1>3, FS_EmptySet DEF One
<1>5. CASE from \in L /\ to \in L
  <2>1. At(L)' = At(L)
    BY <1>1, <1>5 DEF At
  <2> QED BY <1>2, <1>4, <1>5, <2>1 DEF One
<1>6. CASE from \notin L /\ to \notin L
  <2>1. At(L)' = At(L)
    BY <1>1, <1>6 DEF At
  <2> QED BY <1>2, <1>4, <1>6, <2>1 DEF One
<1>7. CASE from \in L /\ to \notin L
  <2>1. At(L)' = At(L) \ {t} /\ t \in At(L)
    BY <1>1, <1>7 DEF At
  <2>2. Cardinality(At(L) \ {t}) = Cardinality(At(L)) - 1
    BY <1>2, <2>1, FS_RemoveElement
  <2> QED BY <1>2, <1>4, <1>7, <2>1, <2>2 DEF One
<1>8. CASE from \notin L /\ to \in L
  <2>1. At(L)' = At(L) \cup {t} /\ t \notin At(L)
    BY <1>1, <1>8 DEF At
  <2>2. Cardinality(At(L) \cup {t}) = Cardinality(At(L)) + 1
    BY <1>2, <2>1, FS_AddElement
  <2> QED BY <1>2, <1>4, <1>8, <2>1, <2>2 DEF One
<1> QED BY <1>5, <1>6, <1>7, <1>8

(* The mutex is taken before a critical section and given back after it.   *)
LEMMA MutexStep ==
  ASSUME TypeOK, MutualExclusion, NEW t \in Threads, NEW from, NEW to, Goto(t, from, to),
         \/ from \notin CriticalLabels /\ to \in CriticalLabels /\ MutexAcquire
         \/ from \in CriticalLabels /\ to \notin CriticalLabels /\ MutexRelease
         \/ from \notin CriticalLabels /\ to \notin CriticalLabels /\ mutex' = mutex
  PROVE  MutualExclusion' /\ mutex' \in {0, 1}
<1>1. /\ pc[t] = from
      /\ \A s \in Threads : pc'[s] = IF s = t THEN to ELSE pc[s]
      /\ mutex \in {0, 1}
  BY DEF Goto, TypeOK
<1> QED BY <1>1 DEF MutualExclusion, MutexAcquire, MutexRelease

(* The number of threads at the labels L, with its changes under a name    *)
(* that the arithmetic steps need not look into.                           *)
Count(L) == Cardinality(At(L))

(* What CountStep says of the six counts in Conservation. *)
LEMMA CountsStep ==
  ASSUME TypeOK, NEW t \in Threads, NEW from, NEW to, Goto(t, from, to)
  PROVE  \A L \in {HoldsProduct, HoldsObject, TookFree, OwesFree, TookItem, OwesItem} :
           /\ Count(L) \in Nat
           /\ (from \in L <=> to \in L) => Count(L)' = Count(L)
           /\ from \notin L /\ to \in L => Count(L)' = Count(L) + 1
           /\ from \in L => Count(L) >= 1
           /\ from \in L /\ to \notin L => Count(L)' = Count(L) - 1
<1> SUFFICES ASSUME NEW L
             PROVE  /\ Count(L) \in Nat
                    /\ (from \in L <=> to \in L) => Count(L)' = Count(L)
                    /\ from \notin L /\ to \in L => Count(L)' = Count(L) + 1
                    /\ from \in L => Count(L) >= 1
                    /\ from \in L /\ to \notin L => Count(L)' = Count(L) - 1
  OBVIOUS
<1>1. /\ Count(L) \in Nat
      /\ Count(L) >= One(from, L)
      /\ Count(L)' = Count(L) + One(to, L) - One(from, L)
  BY CountStep DEF Count, TypeOK
<1> QED BY <1>1 DEF One

(* A step that moves no counter, and moves its thread within or without    *)
(* each of the counted sets of labels.                                     *)
LEMMA ConservationKept ==
  ASSUME TypeOK, Conservation, NEW t \in Threads, NEW from, NEW to, Goto(t, from, to),
         \A L \in {HoldsProduct, HoldsObject, TookFree, OwesFree, TookItem, OwesItem} :
           from \in L <=> to \in L,
         ring' = ring
  PROVE  Conservation'
<1>1. ASSUME NEW L \in {HoldsProduct, HoldsObject, TookFree, OwesFree, TookItem, OwesItem}
      PROVE  Count(L)' = Count(L)
  BY CountsStep
<1> QED BY <1>1 DEF Conservation, Count

(* Outside the critical sections a step keeps the pointers fresh if it     *)
(* touches neither them nor the buffers they were read from.               *)
LEMMA FreshKept ==
  ASSUME TypeOK, FreshPointers, NEW t \in Threads, NEW from, NEW to, Goto(t, from, to),
         to \notin {"pEat", "cTake", "pTake"},
         obj' = obj,
         OldestReleased(ring)' = OldestReleased(ring),
         NextFree(ring)' = NextFree(ring)
  PROVE  FreshPointers'
<1>1. \A s \in Threads : pc'[s] = IF s = t THEN to ELSE pc[s]
  BY DEF Goto, TypeOK
<1> QED BY <1>1 DEF FreshPointers

(* After a critical section nobody is in one, so no pointer can be stale. *)
LEMMA FreshAfterBody ==
  ASSUME TypeOK, MutualExclusion, NEW t \in Threads, NEW from, NEW to, Goto(t, from, to),
         from \in CriticalLabels, to \notin CriticalLabels
  PROVE  FreshPointers'
<1>1. /\ pc[t] = from
      /\ \A s \in Threads : pc'[s] = IF s = t THEN to ELSE pc[s]
  BY DEF Goto, TypeOK
<1>2. \A s \in Threads : pc'[s] \notin CriticalLabels
  BY <1>1 DEF MutualExclusion
<1> QED BY <1>2 DEF FreshPointers, CriticalLabels

(* The holders keep their items when a thread neither gets nor gives up    *)
(* one and the flags of the held items stay.                               *)
LEMMA HeldKept ==
  ASSUME TypeOK, HeldItems, NEW t \in Threads, NEW from, NEW to, Goto(t, from, to),
         from \in HoldsProduct <=> to \in HoldsProduct,
         from \in HoldsObject <=> to \in HoldsObject,
         \A s \in Threads : s # t \/ to \in HoldsProduct \cup HoldsObject => obj'[s] = obj[s],
         ring.inUse \cap ring.inProduction \subseteq ring'.inUse \cap ring'.inProduction,
         ring.inUse \cap ring.inConsumption \subseteq ring'.inUse \cap ring'.inConsumption
  PROVE  HeldItems'
<1>1. /\ pc[t] = from
      /\ \A s \in Threads : pc'[s] = IF s = t THEN to ELSE pc[s]
  BY DEF Goto, TypeOK
<1> QED BY <1>1 DEF HeldItems

(* Steps that only move a thread, and the mutex with it. *)
LEMMA QuietStep ==
  ASSUME IInv, NEW t \in Threads, NEW from, NEW to \in Labels, Goto(t, from, to),
         to \notin {"pEat", "cTake", "pTake"},
         \A L \in {HoldsProduct, HoldsObject, TookFree, OwesFree, TookItem, OwesItem} :
           from \in L <=> to \in L,
         \/ from \notin CriticalLabels /\ to \in CriticalLabels /\ MutexAcquire
         \/ from \in CriticalLabels /\ to \notin CriticalLabels /\ MutexRelease
         \/ from \notin CriticalLabels /\ to \notin CriticalLabels /\ mutex' = mutex,
         block' \in [Threads -> BOOLEAN],
         UNCHANGED <<ring, obj>>
  PROVE  IInv'
<1>1. MutualExclusion' /\ mutex' \in {0, 1}
  BY MutexStep DEF IInv
<1>2. TypeOK'
  BY <1>1 DEF IInv, TypeOK, Goto
<1>3. RingInv(ring)'
  BY DEF IInv
<1>4. FreshPointers'
  BY FreshKept DEF IInv
<1>5. HeldItems'
  <2>1. /\ from \in HoldsProduct <=> to \in HoldsProduct
        /\ from \in HoldsObject <=> to \in HoldsObject
    OBVIOUS
  <2> QED BY <2>1, HeldKept DEF IInv
<1>6. Conservation'
  BY ConservationKept DEF IInv
<1> QED BY <1>1, <1>2, <1>3, <1>4, <1>5, <1>6 DEF IInv
-----------------------------------------------------------------------------
(* The calls, and the critical sections that only look. *)
LEMMA LookingSteps ==
  ASSUME IInv, NEW t \in Threads,
         \/ ProduceCall(t) \/ ProduceLock(t) \/ ProduceCheck(t)
         \/ ConsumeCall(t) \/ ConsumeLock(t) \/ ConsumeCheck(t)
         \/ ReleaseLock(t) \/ CleanupLock(t)
  PROVE  IInv'
<1> DEFINE Moves(from, to) ==
      /\ to \in Labels \ {"pEat", "cTake", "pTake"}
      /\ \A L \in {HoldsProduct, HoldsObject, TookFree, OwesFree, TookItem, OwesItem} :
           from \in L <=> to \in L
<1>1. /\ Moves("idle", "pLock") /\ Moves("pLock", "pCheck")
      /\ Moves("pCheck", "pItem") /\ Moves("pCheck", "pFree")
      /\ Moves("idle", "cLock") /\ Moves("cLock", "cCheck")
      /\ Moves("cCheck", "idle") /\ Moves("cCheck", "cItem")
      /\ Moves("produced", "rBody") /\ Moves("consumed", "uBody")
  BY DEF Labels, ProduceLabels, ReleaseLabels, ConsumeLabels, CleanupLabels,
         HoldsProduct, HoldsObject, TookFree, OwesFree, TookItem, OwesItem
<1> USE DEF CriticalLabels
<1>2. block \in [Threads -> BOOLEAN]
  BY DEF IInv, TypeOK
<1>3. CASE ProduceCall(t)
  BY <1>1, <1>2, <1>3, ModeAssumption, QuietStep DEF ProduceCall
<1>4. CASE ProduceLock(t)
  BY <1>1, <1>2, <1>4, QuietStep DEF ProduceLock
<1>5. CASE ProduceCheck(t)
  BY <1>1, <1>2, <1>5, QuietStep DEF ProduceCheck
<1>6. CASE ConsumeCall(t)
  BY <1>1, <1>2, <1>6, ModeAssumption, QuietStep DEF ConsumeCall
<1>7. CASE ConsumeLock(t)
  BY <1>1, <1>2, <1>7, QuietStep DEF ConsumeLock
<1>8. CASE ConsumeCheck(t)
  BY <1>1, <1>2, <1>8, QuietStep DEF ConsumeCheck
<1>9. CASE ReleaseLock(t)
  BY <1>1, <1>2, <1>9, QuietStep DEF ReleaseLock
<1>10. CASE CleanupLock(t)
  BY <1>1, <1>2, <1>10, QuietStep DEF CleanupLock
<1> QED BY <1>3, <1>4, <1>5, <1>6, <1>7, <1>8, <1>9, <1>10

(* Taking the mutex and reading the pointer to work on. *)
LEMMA PointerSteps ==
  ASSUME IInv, NEW t \in Threads,
         ProduceLock2(t) \/ ProduceLock3(t) \/ ConsumeLock2(t)
  PROVE  IInv'
<1>1. PICK from, to :
        /\ Goto(t, from, to)
        /\ MutexAcquire
        /\ UNCHANGED <<ring, block>>
        /\ \/ from = "pLock2" /\ to = "pEat" /\ obj' = [obj EXCEPT ![t] = OldestReleased(ring)]
           \/ from = "cLock2" /\ to = "cTake" /\ obj' = [obj EXCEPT ![t] = OldestReleased(ring)]
           \/ from = "pLock3" /\ to = "pTake" /\ obj' = [obj EXCEPT ![t] = NextFree(ring)]
  BY DEF ProduceLock2, ProduceLock3, ConsumeLock2
<1>2. /\ from \notin CriticalLabels /\ to \in CriticalLabels
      /\ to \in Labels
      /\ \A L \in {HoldsProduct, HoldsObject, TookFree, OwesFree, TookItem, OwesItem} :
           from \in L <=> to \in L
      /\ from \notin HoldsProduct \cup HoldsObject /\ to \notin HoldsProduct \cup HoldsObject
  BY <1>1 DEF Labels, ProduceLabels, ReleaseLabels, ConsumeLabels, CleanupLabels, CriticalLabels,
              HoldsProduct, HoldsObject, TookFree, OwesFree, TookItem, OwesItem
<1>3. MutualExclusion' /\ mutex' \in {0, 1}
  BY <1>1, <1>2, MutexStep DEF IInv
<1>4. OldestReleased(ring) \in Items \cup {NULL} /\ NextFree(ring) \in Items \cup {NULL}
  BY DEF IInv, RingInv, RingType, OldestReleased, NextFree
<1>5. TypeOK'
  BY <1>1, <1>2, <1>3, <1>4 DEF IInv, TypeOK, Goto
<1>6. RingInv(ring)'
  BY <1>1 DEF IInv
<1>7. FreshPointers'
  <2>1. /\ \A s \in Threads : pc'[s] = IF s = t THEN to ELSE pc[s]
        /\ t \in DOMAIN obj
    BY <1>1 DEF IInv, TypeOK, Goto
  <2>2. \A s \in Threads : s # t => pc'[s] \notin CriticalLabels
    BY <1>2, <1>3, <2>1 DEF MutualExclusion
  <2>3. \A s \in Threads : s # t => pc'[s] \notin {"pEat", "cTake", "pTake"}
    BY <2>2 DEF CriticalLabels
  <2>4. /\ to \in {"pEat", "cTake"} => obj'[t] = OldestReleased(ring)
        /\ to = "pTake" => obj'[t] = NextFree(ring)
    BY <1>1, <2>1
  <2> QED BY <1>1, <2>1, <2>3, <2>4 DEF FreshPointers
<1>8. HeldItems'
  <2>1. \A s \in Threads : s # t => obj'[s] = obj[s]
    BY <1>1 DEF IInv, TypeOK
  <2> QED BY <1>1, <1>2, <2>1, HeldKept DEF IInv
<1>9. Conservation'
  BY <1>1, <1>2, ConservationKept DEF IInv
<1> QED BY <1>3, <1>5, <1>6, <1>7, <1>8, <1>9 DEF IInv

(* The facts about counters that every step below starts from. *)
LEMMA Counters ==
  ASSUME IInv
  PROVE  /\ ring.numProducedItems \in 0 .. ItemNumber
         /\ ring.numReleasedItems \in 0 .. ItemNumber
         /\ ring.free \in 0 .. ItemNumber
         /\ ring.item \in 0 .. ItemNumber
         /\ ItemNumber \in Nat
         /\ Count(HoldsProduct) \in Nat /\ Count(HoldsObject) \in Nat
         /\ Count(TookFree) \in Nat /\ Count(OwesFree) \in Nat
         /\ Count(TookItem) \in Nat /\ Count(OwesItem) \in Nat
         /\ ring.numProducedItems = ring.numReleasedItems + Count(HoldsProduct) + Count(HoldsObject)
         /\ ring.free + Count(TookFree) + Count(OwesFree) = ItemNumber - ring.numProducedItems
         /\ ring.item + Count(TookItem) + Count(OwesItem) = ring.numReleasedItems
<1>1. \A L : Count(L) \in Nat
  BY ThreadsFinite, FS_Subset, FS_CardinalityType DEF Count, At
<1>2. /\ ring.numProducedItems \in 0 .. ItemNumber
      /\ ring.numReleasedItems \in 0 .. ItemNumber
      /\ ring.free \in 0 .. ItemNumber
      /\ ring.item \in 0 .. ItemNumber
      /\ ItemNumber \in Nat
  BY ItemNumberAssumption DEF IInv, TypeOK, RingType
<1> QED BY <1>1, <1>2 DEF IInv, Conservation, Count

(* The three equations of Conservation, each with the types of its terms. *)
LEMMA ProducedCounter ==
  ASSUME IInv
  PROVE  /\ ring.numProducedItems \in Nat /\ ring.numReleasedItems \in Nat
         /\ Count(HoldsProduct) \in Nat /\ Count(HoldsObject) \in Nat
         /\ ring.numProducedItems = ring.numReleasedItems + Count(HoldsProduct) + Count(HoldsObject)
BY Counters

(* The same for the tokens of `free'. *)
LEMMA FreeCounter ==
  ASSUME IInv
  PROVE  /\ ring.numProducedItems \in Nat /\ ring.free \in Nat /\ ItemNumber \in Nat
         /\ Count(TookFree) \in Nat /\ Count(OwesFree) \in Nat
         /\ ring.free + Count(TookFree) + Count(OwesFree) = ItemNumber - ring.numProducedItems
BY Counters

(* The same for the tokens of `item'. *)
LEMMA ItemCounter ==
  ASSUME IInv
  PROVE  /\ ring.numReleasedItems \in Nat /\ ring.item \in Nat
         /\ Count(TookItem) \in Nat /\ Count(OwesItem) \in Nat
         /\ ring.item + Count(TookItem) + Count(OwesItem) = ring.numReleasedItems
BY Counters

(* A step on a semaphore leaves everything but its value alone. *)
LEMMA SemaphoreFrame ==
  ASSUME IInv
  PROVE  \A r \in {FreeWait(ring), FreePost(ring), ItemWait(ring), ItemPost(ring)} :
           /\ OldestReleased(r) = OldestReleased(ring)
           /\ NextFree(r) = NextFree(ring)
           /\ r.inUse = ring.inUse
           /\ r.inProduction = ring.inProduction
           /\ r.inConsumption = ring.inConsumption
           /\ r.numProducedItems = ring.numProducedItems
           /\ r.numReleasedItems = ring.numReleasedItems
BY DEF IInv, TypeOK, RingType, FreeWait, FreePost, ItemWait, ItemPost, OldestReleased, NextFree

(* What is left to show for a step that waits for or posts a semaphore     *)
(* outside the mutex.                                                      *)
LEMMA SemaphoreRest ==
  ASSUME IInv, NEW t \in Threads, NEW from, NEW to, Goto(t, from, to),
         to \in Labels,
         from \notin CriticalLabels \cup HoldsProduct \cup HoldsObject,
         to \notin CriticalLabels \cup HoldsProduct \cup HoldsObject,
         UNCHANGED <<mutex, block, obj>>,
         ring' \in {FreeWait(ring), FreePost(ring), ItemWait(ring), ItemPost(ring)},
         RingInv(ring'), Conservation'
  PROVE  IInv'
<1>1. MutualExclusion' /\ mutex' \in {0, 1}
  BY MutexStep DEF IInv
<1>2. TypeOK'
  BY <1>1 DEF IInv, TypeOK, Goto, RingInv
<1>3. FreshPointers'
  <2>1. /\ OldestReleased(ring)' = OldestReleased(ring)
        /\ NextFree(ring)' = NextFree(ring)
    BY SemaphoreFrame
  <2>2. to \notin {"pEat", "cTake", "pTake"}
    BY DEF CriticalLabels
  <2> QED BY <2>1, <2>2, FreshKept DEF IInv
<1>4. HeldItems'
  <2>1. /\ ring'.inUse = ring.inUse
        /\ ring'.inProduction = ring.inProduction
        /\ ring'.inConsumption = ring.inConsumption
    BY SemaphoreFrame
  <2> QED BY <2>1, HeldKept DEF IInv
<1> QED BY <1>1, <1>2, <1>3, <1>4 DEF IInv

(* produce() and consume() take a token of `item'. *)
LEMMA ItemWaitSteps ==
  ASSUME IInv, NEW t \in Threads, ProduceItemWait(t) \/ ConsumeItemWait(t)
  PROVE  IInv'
<1>1. PICK from, to :
        /\ Goto(t, from, to)
        /\ from \in {"pItem", "cItem"} /\ to \in {"pLock2", "cLock2"}
        /\ ring.item > 0
        /\ ring' = ItemWait(ring)
        /\ UNCHANGED <<mutex, block, obj>>
  BY DEF ProduceItemWait, ConsumeItemWait
<1>2. /\ to \in Labels
      /\ from \notin CriticalLabels \cup HoldsProduct \cup HoldsObject
      /\ to \notin CriticalLabels \cup HoldsProduct \cup HoldsObject
  BY <1>1 DEF Labels, ProduceLabels, ConsumeLabels, CriticalLabels, HoldsProduct, HoldsObject
<1>3. RingInv(ring')
  BY <1>1, SemaphoreSteps DEF IInv
<1>4. Conservation'
  <2>1. /\ Count(HoldsProduct)' = Count(HoldsProduct)
        /\ Count(HoldsObject)' = Count(HoldsObject)
        /\ Count(TookFree)' = Count(TookFree)
        /\ Count(OwesFree)' = Count(OwesFree)
        /\ Count(TookItem)' = Count(TookItem) + 1
        /\ Count(OwesItem)' = Count(OwesItem)
    BY <1>1, CountsStep DEF IInv, HoldsProduct, HoldsObject, TookFree, OwesFree,
                           TookItem, OwesItem
  <2>2. /\ ring'.numProducedItems = ring.numProducedItems
        /\ ring'.numReleasedItems = ring.numReleasedItems
        /\ ring'.free = ring.free
        /\ ring'.item = ring.item - 1
    BY <1>1 DEF IInv, TypeOK, RingType, ItemWait
  <2>3. ring'.numProducedItems = ring'.numReleasedItems + Count(HoldsProduct)' + Count(HoldsObject)'
    BY <2>1, <2>2, ProducedCounter
  <2>4. ring'.free + Count(TookFree)' + Count(OwesFree)' = ItemNumber - ring'.numProducedItems
    BY <2>1, <2>2, FreeCounter
  <2>5. ring'.item + Count(TookItem)' + Count(OwesItem)' = ring'.numReleasedItems
    BY <2>1, <2>2, ItemCounter
  <2> QED BY <2>3, <2>4, <2>5 DEF Conservation, Count
<1> QED BY <1>1, <1>2, <1>3, <1>4, SemaphoreRest

(* produce() takes a token of `free'. *)
LEMMA FreeWaitStep ==
  ASSUME IInv, NEW t \in Threads, ProduceFreeWait(t)
  PROVE  IInv'
<1>1. /\ Goto(t, "pFree", "pLock3")
      /\ ring.free > 0
      /\ ring' = FreeWait(ring)
      /\ UNCHANGED <<mutex, block, obj>>
  BY DEF ProduceFreeWait
<1>2. /\ "pLock3" \in Labels
      /\ "pFree" \notin CriticalLabels \cup HoldsProduct \cup HoldsObject
      /\ "pLock3" \notin CriticalLabels \cup HoldsProduct \cup HoldsObject
  BY DEF Labels, ProduceLabels, CriticalLabels, HoldsProduct, HoldsObject
<1>3. RingInv(ring')
  BY <1>1, SemaphoreSteps DEF IInv
<1>4. Conservation'
  <2>1. /\ Count(HoldsProduct)' = Count(HoldsProduct)
        /\ Count(HoldsObject)' = Count(HoldsObject)
        /\ Count(TookFree)' = Count(TookFree) + 1
        /\ Count(OwesFree)' = Count(OwesFree)
        /\ Count(TookItem)' = Count(TookItem)
        /\ Count(OwesItem)' = Count(OwesItem)
    BY <1>1, CountsStep DEF IInv, HoldsProduct, HoldsObject, TookFree, OwesFree,
                           TookItem, OwesItem
  <2>2. /\ ring'.numProducedItems = ring.numProducedItems
        /\ ring'.numReleasedItems = ring.numReleasedItems
        /\ ring'.free = ring.free - 1
        /\ ring'.item = ring.item
    BY <1>1 DEF IInv, TypeOK, RingType, FreeWait
  <2>3. ring'.numProducedItems = ring'.numReleasedItems + Count(HoldsProduct)' + Count(HoldsObject)'
    BY <2>1, <2>2, ProducedCounter
  <2>4. ring'.free + Count(TookFree)' + Count(OwesFree)' = ItemNumber - ring'.numProducedItems
    BY <2>1, <2>2, FreeCounter
  <2>5. ring'.item + Count(TookItem)' + Count(OwesItem)' = ring'.numReleasedItems
    BY <2>1, <2>2, ItemCounter
  <2> QED BY <2>3, <2>4, <2>5 DEF Conservation, Count
<1> QED BY <1>1, <1>2, <1>3, <1>4, SemaphoreRest

(* release() posts `item': the token was owed. *)
LEMMA ReleasePostStep ==
  ASSUME IInv, NEW t \in Threads, ReleasePost(t)
  PROVE  IInv'
<1>1. /\ Goto(t, "rPost", "idle")
      /\ ring' = ItemPost(ring)
      /\ UNCHANGED <<mutex, block, obj>>
  BY DEF ReleasePost
<1>2. /\ "idle" \in Labels
      /\ "rPost" \notin CriticalLabels \cup HoldsProduct \cup HoldsObject
      /\ "idle" \notin CriticalLabels \cup HoldsProduct \cup HoldsObject
  BY DEF Labels, ProduceLabels, CriticalLabels, HoldsProduct, HoldsObject
<1>3. RingInv(ring')
  <2>1. Count(OwesItem) >= 1
    BY <1>1, CountsStep DEF IInv, OwesItem
  <2>2. ring.item < ItemNumber
    BY <2>1, Counters
  <2> QED BY <1>1, <2>2, SemaphoreSteps DEF IInv
<1>4. Conservation'
  <2>1. /\ Count(HoldsProduct)' = Count(HoldsProduct)
        /\ Count(HoldsObject)' = Count(HoldsObject)
        /\ Count(TookFree)' = Count(TookFree)
        /\ Count(OwesFree)' = Count(OwesFree)
        /\ Count(TookItem)' = Count(TookItem)
        /\ Count(OwesItem)' = Count(OwesItem) - 1
    BY <1>1, CountsStep DEF IInv, HoldsProduct, HoldsObject, TookFree, OwesFree,
                           TookItem, OwesItem
  <2>2. /\ ring'.numProducedItems = ring.numProducedItems
        /\ ring'.numReleasedItems = ring.numReleasedItems
        /\ ring'.free = ring.free
        /\ ring'.item = ring.item + 1
    BY <1>1 DEF IInv, TypeOK, RingType, ItemPost
  <2>3. ring'.numProducedItems = ring'.numReleasedItems + Count(HoldsProduct)' + Count(HoldsObject)'
    BY <2>1, <2>2, ProducedCounter
  <2>4. ring'.free + Count(TookFree)' + Count(OwesFree)' = ItemNumber - ring'.numProducedItems
    BY <2>1, <2>2, FreeCounter
  <2>5. ring'.item + Count(TookItem)' + Count(OwesItem)' = ring'.numReleasedItems
    BY <2>1, <2>2, ItemCounter
  <2> QED BY <2>3, <2>4, <2>5 DEF Conservation, Count
<1> QED BY <1>1, <1>2, <1>3, <1>4, SemaphoreRest

(* cleanup() posts `free': the token was owed. *)
LEMMA CleanupPostStep ==
  ASSUME IInv, NEW t \in Threads, CleanupPost(t)
  PROVE  IInv'
<1>1. /\ Goto(t, "uPost", "idle")
      /\ ring' = FreePost(ring)
      /\ UNCHANGED <<mutex, block, obj>>
  BY DEF CleanupPost
<1>2. /\ "idle" \in Labels
      /\ "uPost" \notin CriticalLabels \cup HoldsProduct \cup HoldsObject
      /\ "idle" \notin CriticalLabels \cup HoldsProduct \cup HoldsObject
  BY DEF Labels, ProduceLabels, CriticalLabels, HoldsProduct, HoldsObject
<1>3. RingInv(ring')
  <2>1. Count(OwesFree) >= 1
    BY <1>1, CountsStep DEF IInv, OwesFree
  <2>2. ring.free < ItemNumber
    BY <2>1, Counters
  <2> QED BY <1>1, <2>2, SemaphoreSteps DEF IInv
<1>4. Conservation'
  <2>1. /\ Count(HoldsProduct)' = Count(HoldsProduct)
        /\ Count(HoldsObject)' = Count(HoldsObject)
        /\ Count(TookFree)' = Count(TookFree)
        /\ Count(OwesFree)' = Count(OwesFree) - 1
        /\ Count(TookItem)' = Count(TookItem)
        /\ Count(OwesItem)' = Count(OwesItem)
    BY <1>1, CountsStep DEF IInv, HoldsProduct, HoldsObject, TookFree, OwesFree,
                           TookItem, OwesItem
  <2>2. /\ ring'.numProducedItems = ring.numProducedItems
        /\ ring'.numReleasedItems = ring.numReleasedItems
        /\ ring'.free = ring.free + 1
        /\ ring'.item = ring.item
    BY <1>1 DEF IInv, TypeOK, RingType, FreePost
  <2>3. ring'.numProducedItems = ring'.numReleasedItems + Count(HoldsProduct)' + Count(HoldsObject)'
    BY <2>1, <2>2, ProducedCounter
  <2>4. ring'.free + Count(TookFree)' + Count(OwesFree)' = ItemNumber - ring'.numProducedItems
    BY <2>1, <2>2, FreeCounter
  <2>5. ring'.item + Count(TookItem)' + Count(OwesItem)' = ring'.numReleasedItems
    BY <2>1, <2>2, ItemCounter
  <2> QED BY <2>3, <2>4, <2>5 DEF Conservation, Count
<1> QED BY <1>1, <1>2, <1>3, <1>4, SemaphoreRest

(* What is left to show for the end of a critical section that changed the *)
(* ring.                                                                   *)
LEMMA BodyRest ==
  ASSUME IInv, NEW t \in Threads, NEW from, NEW to, Goto(t, from, to),
         from \in CriticalLabels, to \in Labels \ CriticalLabels,
         MutexRelease, UNCHANGED <<block, obj>>,
         RingInv(ring'), HeldItems', Conservation'
  PROVE  IInv'
<1>1. MutualExclusion' /\ mutex' \in {0, 1}
  BY MutexStep DEF IInv
<1>2. TypeOK'
  BY <1>1 DEF IInv, TypeOK, Goto, RingInv
<1>3. FreshPointers'
  BY FreshAfterBody DEF IInv
<1> QED BY <1>1, <1>2, <1>3 DEF IInv

(* produce(false) drops the oldest queued item: the token of `item' it took
   guarantees that there is one. *)
LEMMA ProduceEatStep ==
  ASSUME IInv, NEW t \in Threads, ProduceEat(t)
  PROVE  IInv'
<1>1. /\ Goto(t, "pEat", "pFree")
      /\ pc[t] = "pEat"
      /\ ring' = EatOldest(ring, obj[t])
      /\ MutexRelease
      /\ UNCHANGED <<block, obj>>
  BY DEF ProduceEat, Goto
<1>2. "pEat" \in CriticalLabels /\ "pFree" \in Labels \ CriticalLabels
  BY DEF Labels, ProduceLabels, ReleaseLabels, ConsumeLabels, CleanupLabels, CriticalLabels
<1>3. /\ RingInv(ring')
      /\ obj[t] \notin ring.inProduction \cup ring.inConsumption
  <2>1. Count(TookItem) >= 1
    BY <1>1, CountsStep DEF IInv, TookItem
  <2>2. ring.numReleasedItems > 0 /\ ring.numProducedItems > 0 /\ ring.free < ItemNumber
    BY <2>1, Counters
  <2>3. obj[t] = OldestReleased(ring)
    BY <1>1 DEF IInv, FreshPointers
  <2> QED BY <1>1, <2>2, <2>3, EatOldestStep DEF IInv
<1>4. HeldItems'
  <2>1. /\ ring'.inUse = ring.inUse \ {obj[t]}
        /\ ring'.inProduction = ring.inProduction
        /\ ring'.inConsumption = ring.inConsumption
    BY <1>1 DEF IInv, TypeOK, RingType, EatOldest, FreePost
  <2>2. /\ ring.inUse \cap ring.inProduction \subseteq ring'.inUse \cap ring'.inProduction
        /\ ring.inUse \cap ring.inConsumption \subseteq ring'.inUse \cap ring'.inConsumption
    BY <1>3, <2>1
  <2>3. "pEat" \notin HoldsProduct \cup HoldsObject /\ "pFree" \notin HoldsProduct \cup HoldsObject
    BY DEF HoldsProduct, HoldsObject
  <2> QED BY <1>1, <2>2, <2>3, HeldKept DEF IInv
<1>5. Conservation'
  <2>1. /\ Count(HoldsProduct)' = Count(HoldsProduct)
        /\ Count(HoldsObject)' = Count(HoldsObject)
        /\ Count(TookFree)' = Count(TookFree)
        /\ Count(OwesFree)' = Count(OwesFree)
        /\ Count(TookItem)' = Count(TookItem) - 1
        /\ Count(OwesItem)' = Count(OwesItem)
    BY <1>1, CountsStep DEF IInv, HoldsProduct, HoldsObject, TookFree, OwesFree,
                           TookItem, OwesItem
  <2>2. /\ ring'.numProducedItems = ring.numProducedItems - 1
        /\ ring'.numReleasedItems = ring.numReleasedItems - 1
        /\ ring'.free = ring.free + 1
        /\ ring'.item = ring.item
    BY <1>1 DEF IInv, TypeOK, RingType, EatOldest, FreePost
  <2>3. ring'.numProducedItems = ring'.numReleasedItems + Count(HoldsProduct)' + Count(HoldsObject)'
    BY <2>1, <2>2, ProducedCounter
  <2>4. ring'.free + Count(TookFree)' + Count(OwesFree)' = ItemNumber - ring'.numProducedItems
    BY <2>1, <2>2, FreeCounter
  <2>5. ring'.item + Count(TookItem)' + Count(OwesItem)' = ring'.numReleasedItems
    BY <2>1, <2>2, ItemCounter
  <2> QED BY <2>3, <2>4, <2>5 DEF Conservation, Count
<1> QED BY <1>1, <1>2, <1>3, <1>4, <1>5, BodyRest

(* produce() takes a free item: the token of `free' it took guarantees that
   there is one, and that nobody else holds it. *)
LEMMA ProduceTakeStep ==
  ASSUME IInv, NEW t \in Threads, ProduceTake(t)
  PROVE  IInv'
<1>1. /\ Goto(t, "pTake", "produced")
      /\ pc[t] = "pTake"
      /\ ring' = TakeFree(ring, obj[t])
      /\ MutexRelease
      /\ UNCHANGED <<block, obj>>
  BY DEF ProduceTake, Goto
<1>2. "pTake" \in CriticalLabels /\ "produced" \in Labels \ CriticalLabels
  BY DEF Labels, ProduceLabels, ReleaseLabels, ConsumeLabels, CleanupLabels, CriticalLabels
<1>3. /\ RingInv(ring')
      /\ obj[t] \in Items \ ring.inUse
  <2>1. Count(TookFree) >= 1
    BY <1>1, CountsStep DEF IInv, TookFree
  <2>2. ring.numProducedItems < ItemNumber
    BY <2>1, Counters
  <2>3. obj[t] = NextFree(ring)
    BY <1>1 DEF IInv, FreshPointers
  <2> QED BY <1>1, <2>2, <2>3, TakeFreeStep DEF IInv
<1>4. HeldItems'
  <2>1. \A s \in Threads : pc'[s] = IF s = t THEN "produced" ELSE pc[s]
    BY <1>1 DEF IInv, TypeOK, Goto
  <2>2. /\ ring'.inUse = ring.inUse \cup {obj[t]}
        /\ ring'.inProduction = ring.inProduction \cup {obj[t]}
        /\ ring'.inConsumption = ring.inConsumption
    BY <1>1 DEF IInv, TypeOK, RingType, TakeFree
  <2> QED BY <1>1, <1>3, <2>1, <2>2 DEF IInv, HeldItems, HoldsProduct, HoldsObject
<1>5. Conservation'
  <2>1. /\ Count(HoldsProduct)' = Count(HoldsProduct) + 1
        /\ Count(HoldsObject)' = Count(HoldsObject)
        /\ Count(TookFree)' = Count(TookFree) - 1
        /\ Count(OwesFree)' = Count(OwesFree)
        /\ Count(TookItem)' = Count(TookItem)
        /\ Count(OwesItem)' = Count(OwesItem)
    BY <1>1, CountsStep DEF IInv, HoldsProduct, HoldsObject, TookFree, OwesFree,
                           TookItem, OwesItem
  <2>2. /\ ring'.numProducedItems = ring.numProducedItems + 1
        /\ ring'.numReleasedItems = ring.numReleasedItems
        /\ ring'.free = ring.free
        /\ ring'.item = ring.item
    BY <1>1 DEF IInv, TypeOK, RingType, TakeFree
  <2>3. ring'.numProducedItems = ring'.numReleasedItems + Count(HoldsProduct)' + Count(HoldsObject)'
    BY <2>1, <2>2, ProducedCounter
  <2>4. ring'.free + Count(TookFree)' + Count(OwesFree)' = ItemNumber - ring'.numProducedItems
    BY <2>1, <2>2, FreeCounter
  <2>5. ring'.item + Count(TookItem)' + Count(OwesItem)' = ring'.numReleasedItems
    BY <2>1, <2>2, ItemCounter
  <2> QED BY <2>3, <2>4, <2>5 DEF Conservation, Count
<1> QED BY <1>1, <1>2, <1>3, <1>4, <1>5, BodyRest

(* release() queues the item its caller holds. *)
LEMMA ReleaseBodyStep ==
  ASSUME IInv, NEW t \in Threads, ReleaseBody(t)
  PROVE  IInv'
<1>1. /\ Goto(t, "rBody", "rPost")
      /\ pc[t] = "rBody"
      /\ ring' = PutReleased(ring, obj[t])
      /\ MutexRelease
      /\ UNCHANGED <<block, obj>>
  BY DEF ReleaseBody, Goto
<1>2. "rBody" \in CriticalLabels /\ "rPost" \in Labels \ CriticalLabels
  BY DEF Labels, ProduceLabels, ReleaseLabels, ConsumeLabels, CleanupLabels, CriticalLabels
<1>3. RingInv(ring')
  <2>1. Count(HoldsProduct) >= 1
    BY <1>1, CountsStep DEF IInv, HoldsProduct
  <2>2. ring.numReleasedItems < ItemNumber
    BY <2>1, Counters
  <2>3. obj[t] \in ring.inUse \cap ring.inProduction
    BY <1>1 DEF IInv, HeldItems, HoldsProduct
  <2> QED BY <1>1, <2>2, <2>3, PutReleasedStep DEF IInv
<1>4. HeldItems'
  <2>1. \A s \in Threads : pc'[s] = IF s = t THEN "rPost" ELSE pc[s]
    BY <1>1 DEF IInv, TypeOK, Goto
  <2>2. /\ ring'.inUse = ring.inUse
        /\ ring'.inProduction = ring.inProduction \ {obj[t]}
        /\ ring'.inConsumption = ring.inConsumption
    BY <1>1 DEF IInv, TypeOK, RingType, PutReleased
  <2> QED BY <1>1, <2>1, <2>2 DEF IInv, HeldItems, HoldsProduct, HoldsObject
<1>5. Conservation'
  <2>1. /\ Count(HoldsProduct)' = Count(HoldsProduct) - 1
        /\ Count(HoldsObject)' = Count(HoldsObject)
        /\ Count(TookFree)' = Count(TookFree)
        /\ Count(OwesFree)' = Count(OwesFree)
        /\ Count(TookItem)' = Count(TookItem)
        /\ Count(OwesItem)' = Count(OwesItem) + 1
    BY <1>1, CountsStep DEF IInv, HoldsProduct, HoldsObject, TookFree, OwesFree,
                           TookItem, OwesItem
  <2>2. /\ ring'.numProducedItems = ring.numProducedItems
        /\ ring'.numReleasedItems = ring.numReleasedItems + 1
        /\ ring'.free = ring.free
        /\ ring'.item = ring.item
    BY <1>1 DEF IInv, TypeOK, RingType, PutReleased
  <2>3. ring'.numProducedItems = ring'.numReleasedItems + Count(HoldsProduct)' + Count(HoldsObject)'
    BY <2>1, <2>2, ProducedCounter
  <2>4. ring'.free + Count(TookFree)' + Count(OwesFree)' = ItemNumber - ring'.numProducedItems
    BY <2>1, <2>2, FreeCounter
  <2>5. ring'.item + Count(TookItem)' + Count(OwesItem)' = ring'.numReleasedItems
    BY <2>1, <2>2, ItemCounter
  <2> QED BY <2>3, <2>4, <2>5 DEF Conservation, Count
<1> QED BY <1>1, <1>2, <1>3, <1>4, <1>5, BodyRest

(* consume() takes the oldest queued item: the token of `item' it took
   guarantees that there is one, and no client holds a queued item. *)
LEMMA ConsumeTakeStep ==
  ASSUME IInv, NEW t \in Threads, ConsumeTake(t)
  PROVE  IInv'
<1>1. /\ Goto(t, "cTake", "consumed")
      /\ pc[t] = "cTake"
      /\ ring' = TakeOldest(ring, obj[t])
      /\ MutexRelease
      /\ UNCHANGED <<block, obj>>
  BY DEF ConsumeTake, Goto
<1>2. "cTake" \in CriticalLabels /\ "consumed" \in Labels \ CriticalLabels
  BY DEF Labels, ProduceLabels, ReleaseLabels, ConsumeLabels, CleanupLabels, CriticalLabels
<1>3. /\ RingInv(ring')
      /\ obj[t] \in ring.inUse \ (ring.inProduction \cup ring.inConsumption)
  <2>1. Count(TookItem) >= 1
    BY <1>1, CountsStep DEF IInv, TookItem
  <2>2. ring.numReleasedItems > 0
    BY <2>1, Counters
  <2>3. obj[t] = OldestReleased(ring)
    BY <1>1 DEF IInv, FreshPointers
  <2> QED BY <1>1, <2>2, <2>3, TakeOldestStep DEF IInv
<1>4. HeldItems'
  <2>1. \A s \in Threads : pc'[s] = IF s = t THEN "consumed" ELSE pc[s]
    BY <1>1 DEF IInv, TypeOK, Goto
  <2>2. /\ ring'.inUse = ring.inUse
        /\ ring'.inProduction = ring.inProduction
        /\ ring'.inConsumption = ring.inConsumption \cup {obj[t]}
    BY <1>1 DEF IInv, TypeOK, RingType, TakeOldest
  <2> QED BY <1>1, <1>3, <2>1, <2>2 DEF IInv, HeldItems, HoldsProduct, HoldsObject
<1>5. Conservation'
  <2>1. /\ Count(HoldsProduct)' = Count(HoldsProduct)
        /\ Count(HoldsObject)' = Count(HoldsObject) + 1
        /\ Count(TookFree)' = Count(TookFree)
        /\ Count(OwesFree)' = Count(OwesFree)
        /\ Count(TookItem)' = Count(TookItem) - 1
        /\ Count(OwesItem)' = Count(OwesItem)
    BY <1>1, CountsStep DEF IInv, HoldsProduct, HoldsObject, TookFree, OwesFree,
                           TookItem, OwesItem
  <2>2. /\ ring'.numProducedItems = ring.numProducedItems
        /\ ring'.numReleasedItems = ring.numReleasedItems - 1
        /\ ring'.free = ring.free
        /\ ring'.item = ring.item
    BY <1>1 DEF IInv, TypeOK, RingType, TakeOldest
  <2>3. ring'.numProducedItems = ring'.numReleasedItems + Count(HoldsProduct)' + Count(HoldsObject)'
    BY <2>1, <2>2, ProducedCounter
  <2>4. ring'.free + Count(TookFree)' + Count(OwesFree)' = ItemNumber - ring'.numProducedItems
    BY <2>1, <2>2, FreeCounter
  <2>5. ring'.item + Count(TookItem)' + Count(OwesItem)' = ring'.numReleasedItems
    BY <2>1, <2>2, ItemCounter
  <2> QED BY <2>3, <2>4, <2>5 DEF Conservation, Count
<1> QED BY <1>1, <1>2, <1>3, <1>4, <1>5, BodyRest

(* cleanup() frees the item its caller holds. *)
LEMMA CleanupBodyStep ==
  ASSUME IInv, NEW t \in Threads, CleanupBody(t)
  PROVE  IInv'
<1>1. /\ Goto(t, "uBody", "uPost")
      /\ pc[t] = "uBody"
      /\ ring' = PutFree(ring, obj[t])
      /\ MutexRelease
      /\ UNCHANGED <<block, obj>>
  BY DEF CleanupBody, Goto
<1>2. "uBody" \in CriticalLabels /\ "uPost" \in Labels \ CriticalLabels
  BY DEF Labels, ProduceLabels, ReleaseLabels, ConsumeLabels, CleanupLabels, CriticalLabels
<1>3. RingInv(ring')
  <2>1. Count(HoldsObject) >= 1
    BY <1>1, CountsStep DEF IInv, HoldsObject
  <2>2. ring.numProducedItems > 0
    BY <2>1, Counters
  <2>3. obj[t] \in ring.inUse \cap ring.inConsumption
    BY <1>1 DEF IInv, HeldItems, HoldsObject
  <2> QED BY <1>1, <2>2, <2>3, PutFreeStep DEF IInv
<1>4. HeldItems'
  <2>1. \A s \in Threads : pc'[s] = IF s = t THEN "uPost" ELSE pc[s]
    BY <1>1 DEF IInv, TypeOK, Goto
  <2>2. /\ ring'.inUse = ring.inUse \ {obj[t]}
        /\ ring'.inProduction = ring.inProduction
        /\ ring'.inConsumption = ring.inConsumption \ {obj[t]}
    BY <1>1 DEF IInv, TypeOK, RingType, PutFree
  <2> QED BY <1>1, <2>1, <2>2 DEF IInv, HeldItems, HoldsProduct, HoldsObject
<1>5. Conservation'
  <2>1. /\ Count(HoldsProduct)' = Count(HoldsProduct)
        /\ Count(HoldsObject)' = Count(HoldsObject) - 1
        /\ Count(TookFree)' = Count(TookFree)
        /\ Count(OwesFree)' = Count(OwesFree) + 1
        /\ Count(TookItem)' = Count(TookItem)
        /\ Count(OwesItem)' = Count(OwesItem)
    BY <1>1, CountsStep DEF IInv, HoldsProduct, HoldsObject, TookFree, OwesFree,
                           TookItem, OwesItem
  <2>2. /\ ring'.numProducedItems = ring.numProducedItems - 1
        /\ ring'.numReleasedItems = ring.numReleasedItems
        /\ ring'.free = ring.free
        /\ ring'.item = ring.item
    BY <1>1 DEF IInv, TypeOK, RingType, PutFree
  <2>3. ring'.numProducedItems = ring'.numReleasedItems + Count(HoldsProduct)' + Count(HoldsObject)'
    BY <2>1, <2>2, ProducedCounter
  <2>4. ring'.free + Count(TookFree)' + Count(OwesFree)' = ItemNumber - ring'.numProducedItems
    BY <2>1, <2>2, FreeCounter
  <2>5. ring'.item + Count(TookItem)' + Count(OwesItem)' = ring'.numReleasedItems
    BY <2>1, <2>2, ItemCounter
  <2> QED BY <2>3, <2>4, <2>5 DEF Conservation, Count
<1> QED BY <1>1, <1>2, <1>3, <1>4, <1>5, BodyRest
-----------------------------------------------------------------------------
(* The object as its constructor leaves it satisfies the invariant. *)
LEMMA InitIInv == Init => IInv
<1> SUFFICES ASSUME Init PROVE IInv
  OBVIOUS
<1>1. RingInv(ring)
  BY InitRingInv DEF Init
<1>2. /\ mutex = 1
      /\ pc \in [Threads -> Labels]
      /\ \A t \in Threads : pc[t] = "idle"
      /\ block \in [Threads -> BOOLEAN]
      /\ obj \in [Threads -> Items \cup {NULL}]
  BY DEF Init, Labels
<1>3. TypeOK
  BY <1>1, <1>2 DEF TypeOK, RingInv
<1>4. MutualExclusion /\ FreshPointers
  BY <1>2 DEF MutualExclusion, FreshPointers, CriticalLabels
<1>5. HeldItems
  BY <1>2 DEF HeldItems, HoldsProduct, HoldsObject
<1>6. Conservation
  <2>1. /\ At(HoldsProduct) = {} /\ At(HoldsObject) = {} /\ At(TookFree) = {}
        /\ At(OwesFree) = {} /\ At(TookItem) = {} /\ At(OwesItem) = {}
    BY <1>2 DEF At, HoldsProduct, HoldsObject, TookFree, OwesFree, TookItem, OwesItem
  <2>2. Cardinality({}) = 0
    BY FS_EmptySet
  <2>3. /\ ring.numProducedItems = 0 /\ ring.numReleasedItems = 0
        /\ ring.free = ItemNumber /\ ring.item = 0
    BY DEF Init, InitRing
  <2> QED BY <2>1, <2>2, <2>3, ItemNumberAssumption DEF Conservation
<1> QED BY <1>1, <1>3, <1>4, <1>5, <1>6 DEF IInv

(* Every step of every thread preserves the invariant. *)
LEMMA NextIInv == IInv /\ [Next]_vars => IInv'
<1> SUFFICES ASSUME IInv, [Next]_vars PROVE IInv'
  OBVIOUS
<1>1. ASSUME NEW t \in Producers, ProduceCall(t) \/ ProducerStep(t)
      PROVE  IInv'
  <2>1. t \in Threads
    BY DEF Threads
  <2> QED BY <1>1, <2>1, LookingSteps, PointerSteps, ItemWaitSteps, FreeWaitStep, ReleasePostStep,
             ProduceEatStep, ProduceTakeStep, ReleaseBodyStep DEF ProducerStep
<1>2. ASSUME NEW t \in Consumers, ConsumeCall(t) \/ ConsumerStep(t)
      PROVE  IInv'
  <2>1. t \in Threads
    BY DEF Threads
  <2> QED BY <1>2, <2>1, LookingSteps, PointerSteps, ItemWaitSteps, CleanupPostStep,
             ConsumeTakeStep, CleanupBodyStep DEF ConsumerStep
<1>3. CASE UNCHANGED vars
  BY <1>3 DEF vars, IInv, TypeOK, MutualExclusion, FreshPointers, HeldItems, Conservation, At
<1> QED BY <1>1, <1>2, <1>3 DEF Next

(* IInv holds in every state of every behaviour. *)
THEOREM Invariance == Spec => []IInv
BY InitIInv, NextIInv, PTL DEF Spec

(* No counter, index or semaphore of ProducerConsumer leaves its range,    *)
(* for every ring size and any number of threads.                          *)
THEOREM TypeCorrect == Spec => []TypeOK
<1>1. IInv => TypeOK
  BY DEF IInv
<1> QED BY Invariance, <1>1, PTL

(* No assert() of ProducerConsumer.h ever fails. *)
THEOREM AssertsNeverFail == Spec => []AssertsHold
<1>1. IInv => AssertsHold
  <2> SUFFICES ASSUME IInv, NEW t \in Threads
               PROVE  /\ pc[t] = "pEat"     => /\ obj[t] # NULL
                                               /\ obj[t] \notin ring.inProduction \cup ring.inConsumption
                      /\ pc[t] = "pTake"    => /\ obj[t] # NULL
                                               /\ obj[t] \notin ring.inUse \cup ring.inProduction
                      /\ pc[t] = "produced" => obj[t] \in ring.inUse \cap ring.inProduction
                      /\ pc[t] = "cTake"    => obj[t] # NULL /\ obj[t] \in ring.inUse
                      /\ pc[t] = "consumed" => obj[t] \in ring.inUse \cap ring.inConsumption
    BY DEF AssertsHold
  <2>1. \A i \in Items : i # NULL
    BY DEF Items, NULL
  <2>2. ASSUME NEW L, pc[t] \in L
        PROVE  Count(L) >= 1
    <3>1. t \in At(L) /\ IsFiniteSet(At(L))
      BY <2>2, ThreadsFinite, FS_Subset DEF At
    <3> QED BY <3>1, FS_EmptySet, FS_CardinalityType DEF Count
  <2>3. ASSUME pc[t] \in {"pEat", "cTake"}
        PROVE  /\ obj[t] # NULL
               /\ obj[t] \in ring.inUse \ (ring.inProduction \cup ring.inConsumption)
    <3>1. Count(TookItem) >= 1
      BY <2>2, <2>3 DEF TookItem
    <3>2. ring.numReleasedItems > 0
      BY <3>1, ItemCounter
    <3>3. obj[t] = OldestReleased(ring)
      BY <2>3 DEF IInv, FreshPointers
    <3> QED BY <2>1, <3>2, <3>3, TakeOldestStep DEF IInv
  <2>4. ASSUME pc[t] = "pTake"
        PROVE  obj[t] # NULL /\ obj[t] \notin ring.inUse
    <3>1. Count(TookFree) >= 1
      BY <2>2, <2>4 DEF TookFree
    <3>2. ring.numProducedItems < ItemNumber
      BY <3>1, FreeCounter
    <3>3. obj[t] = NextFree(ring)
      BY <2>4 DEF IInv, FreshPointers
    <3> QED BY <2>1, <3>2, <3>3, TakeFreeStep DEF IInv
  <2>5. ring.inProduction \subseteq ring.inUse
    BY DEF IInv, RingInv, FlagsConsistent
  <2>6. /\ pc[t] = "produced" => obj[t] \in ring.inUse \cap ring.inProduction
        /\ pc[t] = "consumed" => obj[t] \in ring.inUse \cap ring.inConsumption
    BY DEF IInv, HeldItems, HoldsProduct, HoldsObject
  <2> QED BY <2>3, <2>4, <2>5, <2>6
<1> QED BY Invariance, <1>1, PTL

(* No two clients ever hold the same item, nor is a held item free or      *)
(* queued.                                                                 *)
THEOREM ItemsExclusive == Spec => []ExclusiveItems
<1>1. IInv => ExclusiveItems
  <2> SUFFICES ASSUME IInv, NEW t \in Threads, Held(t) # NULL
               PROVE  /\ \A s \in Threads \ {t} : Held(s) # Held(t)
                      /\ \A i \in Items : /\ ring.freeBuffer[i] # Held(t)
                                          /\ ring.releasedBuffer[i] # Held(t)
    BY DEF ExclusiveItems
  <2>1. pc[t] \in HoldsProduct \cup HoldsObject /\ Held(t) = obj[t]
    BY DEF Held
  <2>2. obj[t] \in ring.inUse \cap (ring.inProduction \cup ring.inConsumption)
    BY <2>1 DEF IInv, HeldItems
  <2>3. \A s \in Threads \ {t} : Held(s) # Held(t)
    BY <2>1 DEF IInv, HeldItems, Held
  <2>4. \A i \in Items : ring.freeBuffer[i] # obj[t]
    BY <2>2 DEF IInv, RingInv, FreeSlots
  <2>5. \A i \in Items : ring.releasedBuffer[i] # obj[t]
    BY <2>1, <2>2 DEF IInv, RingInv, ReleasedSlots
  <2> QED BY <2>1, <2>3, <2>4, <2>5
<1> QED BY Invariance, <1>1, PTL

(* No item and no semaphore token is ever lost or made up. *)
THEOREM ItemsConserved == Spec => []Conservation
<1>1. IInv => Conservation
  BY DEF IInv
<1> QED BY Invariance, <1>1, PTL
-----------------------------------------------------------------------------
(* ProducerConsumer implements BoundedFifo, for every ring size and any    *)
(* number of threads: the queue is the window of releasedBuffer, and an    *)
(* item is held from the end of the critical section of produce() or       *)
(* consume() to the end of the one of release() or cleanup().              *)

(* What the abstract specification sees of a state beside the queue. *)
HeldMap == [t \in Threads |-> Held(t)]

(* What a thread knows where it changes the queue or what is held. *)
LEMMA AtSection ==
  ASSUME IInv, NEW t \in Threads
  PROVE  /\ pc[t] \in {"pEat", "cTake"} => /\ ring.numReleasedItems > 0
                                           /\ obj[t] = OldestReleased(ring)
         /\ pc[t] = "pTake" => obj[t] \in Items \ ring.inUse
         /\ pc[t] = "rBody" => ring.numReleasedItems < ItemNumber
         /\ pc[t] \in HoldsProduct \cup HoldsObject => obj[t] \in Items \cap ring.inUse
<1>1. ASSUME NEW L, pc[t] \in L
      PROVE  Count(L) >= 1
  <2>1. t \in At(L) /\ IsFiniteSet(At(L))
    BY <1>1, ThreadsFinite, FS_Subset DEF At
  <2> QED BY <2>1, FS_EmptySet, FS_CardinalityType DEF Count
<1>2. ASSUME pc[t] \in {"pEat", "cTake"}
      PROVE  ring.numReleasedItems > 0 /\ obj[t] = OldestReleased(ring)
  <2>1. Count(TookItem) >= 1
    BY <1>1, <1>2 DEF TookItem
  <2> QED BY <1>2, <2>1, ItemCounter DEF IInv, FreshPointers
<1>3. ASSUME pc[t] = "pTake"
      PROVE  obj[t] \in Items \ ring.inUse
  <2>1. Count(TookFree) >= 1
    BY <1>1, <1>3 DEF TookFree
  <2>2. ring.numProducedItems < ItemNumber
    BY <2>1, FreeCounter
  <2>3. obj[t] = NextFree(ring)
    BY <1>3 DEF IInv, FreshPointers
  <2> QED BY <2>2, <2>3, TakeFreeStep DEF IInv
<1>4. ASSUME pc[t] = "rBody"
      PROVE  ring.numReleasedItems < ItemNumber
  <2>1. Count(HoldsProduct) >= 1
    BY <1>1, <1>4 DEF HoldsProduct
  <2> QED BY <2>1, Counters
<1>5. pc[t] \in HoldsProduct \cup HoldsObject => obj[t] \in Items \cap ring.inUse
  BY DEF IInv, HeldItems, TypeOK, RingType
<1> QED BY <1>2, <1>3, <1>4, <1>5

(* What a step does to the items that are held. *)
LEMMA HeldMapStep ==
  ASSUME TypeOK, NEW t \in Threads, NEW from, NEW to, Goto(t, from, to),
         \A s \in Threads : s # t => obj'[s] = obj[s]
  PROVE  /\ HeldMap \in [Threads -> Items \cup {NULL}]
         /\ HeldMap[t] = IF from \in HoldsProduct \cup HoldsObject THEN obj[t] ELSE NULL
         /\ HeldMap' = [HeldMap EXCEPT ![t] =
                          IF to \in HoldsProduct \cup HoldsObject THEN obj'[t] ELSE NULL]
<1>1. /\ pc[t] = from
      /\ \A s \in Threads : pc'[s] = IF s = t THEN to ELSE pc[s]
  BY DEF TypeOK, Goto
<1>2. HeldMap \in [Threads -> Items \cup {NULL}]
  BY DEF HeldMap, Held, TypeOK
<1>3. HeldMap[t] = IF from \in HoldsProduct \cup HoldsObject THEN obj[t] ELSE NULL
  BY <1>1 DEF HeldMap, Held
<1>4. \A s \in Threads : s # t => HeldMap'[s] = HeldMap[s]
  BY <1>1 DEF HeldMap, Held
<1>5. HeldMap'[t] = IF to \in HoldsProduct \cup HoldsObject THEN obj'[t] ELSE NULL
  BY <1>1 DEF HeldMap, Held
<1>6. HeldMap' = [s \in Threads |-> HeldMap'[s]]
  BY DEF HeldMap
<1> HIDE DEF HeldMap
<1> QED BY <1>2, <1>3, <1>4, <1>5, <1>6

(* Steps outside the sections that move items: they are invisible. *)
LEMMA QuietSimulation ==
  ASSUME IInv, NEW t \in Threads, NEW from, NEW to, Goto(t, from, to),
         \/ from \notin HoldsProduct \cup HoldsObject /\ to \notin HoldsProduct \cup HoldsObject
         \/ from \in HoldsProduct \cup HoldsObject /\ to \in HoldsProduct \cup HoldsObject /\ obj' = obj,
         \A s \in Threads : s # t => obj'[s] = obj[s],
         ring' \in {ring, FreeWait(ring), FreePost(ring), ItemWait(ring), ItemPost(ring)}
  PROVE  UNCHANGED <<ReleasedQueue(ring), HeldMap>>
<1>1. /\ ring'.numReleasedItems = ring.numReleasedItems
      /\ ring'.nextConsume = ring.nextConsume
      /\ ring'.releasedBuffer = ring.releasedBuffer
  BY DEF IInv, TypeOK, RingType, FreeWait, FreePost, ItemWait, ItemPost
<1>2. ReleasedQueue(ring)' = ReleasedQueue(ring)
  BY <1>1 DEF ReleasedQueue
<1>3. HeldMap' = HeldMap
  BY HeldMapStep DEF IInv
<1> QED BY <1>2, <1>3

(* Where the five visible steps start and end, and whether they hold. *)
LEMMA VisibleLabels ==
  /\ {"produced", "rBody"} \subseteq HoldsProduct
  /\ {"consumed", "uBody"} \subseteq HoldsObject
  /\ \A l \in {"pEat", "pFree", "pTake", "rPost", "cTake", "uPost"} :
       l \notin HoldsProduct \cup HoldsObject
BY DEF HoldsProduct, HoldsObject

(* No item is NULL, and a queued one is in use. *)
LEMMA QueuedInUse ==
  ASSUME IInv, NEW i \in Items, i \notin ring.inUse
  PROVE  i \in Fifo!FreeItems
<1>1. i # NULL
  BY DEF Items, NULL
<1>2. \A k \in DOMAIN ReleasedQueue(ring) : ReleasedQueue(ring)[k] # i
  <2>1. ASSUME NEW k \in DOMAIN ReleasedQueue(ring)
        PROVE  ReleasedQueue(ring)[k] # i
    <3>1. PICK j : ReleasedQueue(ring)[k] = ring.releasedBuffer[j] /\ j \in Items
      <4>1. k \in 1 .. ring.numReleasedItems
        BY <2>1 DEF ReleasedQueue
      <4>2. /\ ring.nextConsume \in Items /\ ring.numReleasedItems \in 0 .. ItemNumber
            /\ ring \in RingType
        BY DEF IInv, TypeOK, RingType
      <4> DEFINE a == ring.nextConsume + k - 1
                 b == IF a < ItemNumber THEN a ELSE a - ItemNumber
      <4>3. ReleasedQueue(ring)[k] = ring.releasedBuffer[b]
        BY <4>1, <4>2, QueueEntry
      <4>4. b \in Items
        BY <4>1, <4>2, ItemNumberAssumption DEF Items
      <4> QED BY <4>3, <4>4
    <3> QED BY <1>1, <3>1 DEF IInv, RingInv, ReleasedSlots
  <2> QED BY <2>1
<1>3. \A t \in Threads : HeldMap[t] # i
  <2>1. ASSUME NEW t \in Threads PROVE HeldMap[t] # i
    BY <1>1, AtSection DEF HeldMap, Held
  <2> QED BY <2>1
<1> QED BY <1>2, <1>3 DEF Fifo!FreeItems, Fifo!Range, HeldMap

(* produce() takes a free item. *)
LEMMA ProduceSimulation ==
  ASSUME IInv, NEW t \in Producers, ProduceTake(t)
  PROVE  Fifo!Produce(t)
<1>1. /\ t \in Threads
      /\ Goto(t, "pTake", "produced")
      /\ pc[t] = "pTake"
      /\ ring' = TakeFree(ring, obj[t])
      /\ obj' = obj
  BY DEF Threads, ProduceTake, Goto
<1>2. obj[t] \in Fifo!FreeItems
  BY <1>1, AtSection, QueuedInUse
<1>3. HeldMap[t] = NULL /\ HeldMap' = [HeldMap EXCEPT ![t] = obj[t]]
  BY <1>1, HeldMapStep, VisibleLabels DEF IInv
<1>4. ReleasedQueue(ring)' = ReleasedQueue(ring)
  BY <1>1 DEF ReleasedQueue, TakeFree, IInv, TypeOK, RingType
<1> QED BY <1>2, <1>3, <1>4 DEF Fifo!Produce, HeldMap

(* produce(false) on a full ring drops the oldest queued item. *)
LEMMA EatSimulation ==
  ASSUME IInv, IInv', NEW t \in Producers, ProduceEat(t)
  PROVE  Fifo!DropOldest
<1>1. /\ t \in Threads
      /\ Goto(t, "pEat", "pFree")
      /\ pc[t] = "pEat"
      /\ ring' = EatOldest(ring, obj[t])
      /\ obj' = obj
  BY DEF Threads, ProduceEat, Goto
<1>2. HeldMap' = HeldMap
  BY <1>1, HeldMapStep, VisibleLabels DEF IInv
<1>3. /\ ring'.numReleasedItems = ring.numReleasedItems - 1
      /\ ring'.nextConsume = Inc(ring.nextConsume)
      /\ ring'.releasedBuffer = [ring.releasedBuffer EXCEPT ![ring.nextConsume] = NULL]
  BY <1>1 DEF EatOldest, FreePost, IInv, TypeOK, RingType
<1>4. ReleasedQueue(ring) # <<>> /\ ReleasedQueue(ring)' = Tail(ReleasedQueue(ring))
  BY <1>1, <1>3, AtSection, QueueShrinks DEF IInv
<1> QED BY <1>2, <1>4 DEF Fifo!DropOldest, HeldMap

(* release() appends the item its caller holds. *)
LEMMA ReleaseSimulation ==
  ASSUME IInv, IInv', NEW t \in Producers, ReleaseBody(t)
  PROVE  Fifo!Release(t)
<1>1. /\ t \in Threads
      /\ Goto(t, "rBody", "rPost")
      /\ pc[t] = "rBody"
      /\ ring' = PutReleased(ring, obj[t])
      /\ obj' = obj
  BY DEF Threads, ReleaseBody, Goto
<1>2. HeldMap[t] = obj[t] /\ HeldMap' = [HeldMap EXCEPT ![t] = NULL]
  BY <1>1, HeldMapStep, VisibleLabels DEF IInv
<1>3. obj[t] \in Items /\ obj[t] # NULL /\ ring.numReleasedItems < ItemNumber
  BY <1>1, AtSection, VisibleLabels DEF Items, NULL
<1>4. ReleasedQueue(ring)' = Append(ReleasedQueue(ring), obj[t])
  BY <1>1, <1>3, QueueAppends DEF IInv
<1> QED BY <1>2, <1>3, <1>4 DEF Fifo!Release, HeldMap

(* consume() takes the oldest queued item. *)
LEMMA ConsumeSimulation ==
  ASSUME IInv, IInv', NEW t \in Consumers, ConsumeTake(t)
  PROVE  Fifo!Consume(t)
<1>1. /\ t \in Threads
      /\ Goto(t, "cTake", "consumed")
      /\ pc[t] = "cTake"
      /\ ring' = TakeOldest(ring, obj[t])
      /\ obj' = obj
  BY DEF Threads, ConsumeTake, Goto
<1>2. HeldMap[t] = NULL /\ HeldMap' = [HeldMap EXCEPT ![t] = obj[t]]
  BY <1>1, HeldMapStep, VisibleLabels DEF IInv
<1>3. /\ ring'.numReleasedItems = ring.numReleasedItems - 1
      /\ ring'.nextConsume = Inc(ring.nextConsume)
      /\ ring'.releasedBuffer = [ring.releasedBuffer EXCEPT ![ring.nextConsume] = NULL]
  BY <1>1 DEF TakeOldest, IInv, TypeOK, RingType
<1>4. /\ ReleasedQueue(ring) # <<>>
      /\ Head(ReleasedQueue(ring)) = obj[t]
      /\ ReleasedQueue(ring)' = Tail(ReleasedQueue(ring))
  BY <1>1, <1>3, AtSection, QueueShrinks DEF IInv
<1> QED BY <1>2, <1>4 DEF Fifo!Consume, HeldMap

(* cleanup() gives the item its caller holds back to the pool. *)
LEMMA CleanupSimulation ==
  ASSUME IInv, NEW t \in Consumers, CleanupBody(t)
  PROVE  Fifo!Cleanup(t)
<1>1. /\ t \in Threads
      /\ Goto(t, "uBody", "uPost")
      /\ pc[t] = "uBody"
      /\ ring' = PutFree(ring, obj[t])
      /\ obj' = obj
  BY DEF Threads, CleanupBody, Goto
<1>2. HeldMap[t] = obj[t] /\ HeldMap' = [HeldMap EXCEPT ![t] = NULL]
  BY <1>1, HeldMapStep, VisibleLabels DEF IInv
<1>3. obj[t] # NULL
  BY <1>1, AtSection, VisibleLabels DEF Items, NULL
<1>4. ReleasedQueue(ring)' = ReleasedQueue(ring)
  BY <1>1 DEF ReleasedQueue, PutFree, IInv, TypeOK, RingType
<1> QED BY <1>2, <1>3, <1>4 DEF Fifo!Cleanup, HeldMap

(* Every other step of a thread is invisible. *)
LEMMA QuietActions ==
  ASSUME IInv, NEW t \in Threads,
         \/ ProduceCall(t) \/ ProduceLock(t) \/ ProduceCheck(t) \/ ProduceItemWait(t)
         \/ ProduceLock2(t) \/ ProduceFreeWait(t) \/ ProduceLock3(t)
         \/ ReleaseLock(t) \/ ReleasePost(t)
         \/ ConsumeCall(t) \/ ConsumeLock(t) \/ ConsumeCheck(t) \/ ConsumeItemWait(t)
         \/ ConsumeLock2(t) \/ CleanupLock(t) \/ CleanupPost(t)
  PROVE  UNCHANGED <<ReleasedQueue(ring), HeldMap>>
<1> USE DEF HoldsProduct, HoldsObject
<1>1. CASE ProduceCall(t) \/ ProduceLock(t) \/ ProduceCheck(t) \/ ConsumeCall(t)
           \/ ConsumeLock(t) \/ ConsumeCheck(t)
  BY <1>1, QuietSimulation DEF ProduceCall, ProduceLock, ProduceCheck, ConsumeCall, ConsumeLock,
                              ConsumeCheck
<1>2. CASE ProduceItemWait(t) \/ ProduceFreeWait(t) \/ ReleasePost(t) \/ ConsumeItemWait(t)
           \/ CleanupPost(t)
  BY <1>2, QuietSimulation DEF ProduceItemWait, ProduceFreeWait, ReleasePost, ConsumeItemWait,
                              CleanupPost
<1>3. CASE ProduceLock2(t) \/ ProduceLock3(t) \/ ConsumeLock2(t)
  <2>1. \A s \in Threads : s # t => obj'[s] = obj[s]
    BY <1>3 DEF ProduceLock2, ProduceLock3, ConsumeLock2, IInv, TypeOK
  <2> QED BY <1>3, <2>1, QuietSimulation DEF ProduceLock2, ProduceLock3, ConsumeLock2
<1>4. CASE ReleaseLock(t) \/ CleanupLock(t)
  BY <1>4, QuietSimulation DEF ReleaseLock, CleanupLock
<1> QED BY <1>1, <1>2, <1>3, <1>4

(* Every step of a thread is a step of the queue or leaves it as it is. *)
LEMMA StepSimulation ==
  ASSUME IInv, [Next]_vars
  PROVE  [Fifo!Next]_Fifo!fifoVars
<1>1. IInv'
  BY NextIInv
<1>2. UNCHANGED <<ReleasedQueue(ring), HeldMap>> => UNCHANGED Fifo!fifoVars
  BY DEF Fifo!fifoVars, HeldMap
<1>3. ASSUME NEW t \in Producers, ProduceCall(t) \/ ProducerStep(t)
      PROVE  [Fifo!Next]_Fifo!fifoVars
  <2>1. t \in Threads
    BY DEF Threads
  <2>2. CASE ProduceTake(t)
    BY <2>2, ProduceSimulation DEF Fifo!Next
  <2>3. CASE ProduceEat(t)
    BY <1>1, <2>3, EatSimulation DEF Fifo!Next
  <2>4. CASE ReleaseBody(t)
    BY <1>1, <2>4, ReleaseSimulation DEF Fifo!Next
  <2> QED BY <1>2, <1>3, <2>1, <2>2, <2>3, <2>4, QuietActions DEF ProducerStep
<1>4. ASSUME NEW t \in Consumers, ConsumeCall(t) \/ ConsumerStep(t)
      PROVE  [Fifo!Next]_Fifo!fifoVars
  <2>1. t \in Threads
    BY DEF Threads
  <2>2. CASE ConsumeTake(t)
    BY <1>1, <2>2, ConsumeSimulation DEF Fifo!Next
  <2>3. CASE CleanupBody(t)
    BY <2>3, CleanupSimulation DEF Fifo!Next
  <2> QED BY <1>2, <1>4, <2>1, <2>2, <2>3, QuietActions DEF ConsumerStep
<1>5. CASE UNCHANGED vars
  <2>1. UNCHANGED <<ReleasedQueue(ring), HeldMap>>
    BY <1>5 DEF vars, ReleasedQueue, HeldMap, Held
  <2> QED BY <1>2, <2>1
<1> QED BY <1>3, <1>4, <1>5 DEF Next

(* The constructor makes the empty queue, and nobody holds anything. *)
LEMMA InitSimulation == Init => Fifo!Init
<1> SUFFICES ASSUME Init PROVE Fifo!Init
  OBVIOUS
<1>1. ReleasedQueue(ring) = <<>>
  BY DEF Init, InitRing, ReleasedQueue
<1>2. HeldMap = [t \in Threads |-> NULL]
  BY DEF Init, HeldMap, Held, HoldsProduct, HoldsObject
<1> QED BY <1>1, <1>2 DEF Fifo!Init, HeldMap, Threads

(* "Items are returned in the order they where produced": whatever the     *)
(* interleaving of the calls, ProducerConsumer behaves like a FIFO queue   *)
(* beside a pool of free items, from which nothing but the oldest item is  *)
(* ever dropped.                                                           *)
THEOREM RefinesFifo == Spec => ImplementsFifo
<1>1. IInv /\ [Next]_vars => [Fifo!Next]_Fifo!fifoVars
  BY StepSimulation
<1> QED BY InitSimulation, <1>1, Invariance, PTL DEF Spec, ImplementsFifo, Fifo!Spec
=============================================================================
