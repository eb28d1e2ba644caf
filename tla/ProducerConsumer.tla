-------------------------- MODULE ProducerConsumer --------------------------
(***************************************************************************)
(* Threads that call produce(), release(), consume() and cleanup() of one  *)
(* ProducerConsumer object (src/src/Util/ProducerConsumer.h).              *)
(*                                                                         *)
(* A step of a thread ends where another thread can interfere: at a wait   *)
(* on one of the semaphores `free', `item' and `mutex', or at the end of a *)
(* critical section.  The pointer a critical section works on is read in   *)
(* the step that acquires the mutex and used in the step that releases it, *)
(* so it is the mutex, not the model, that keeps it from going stale.      *)
(*                                                                         *)
(*   produce  pLock -> pCheck [-> pItem -> pLock2 -> pEat]                  *)
(*                  -> pFree -> pLock3 -> pTake -> produced                 *)
(*   release  produced -> rBody -> rPost -> idle                           *)
(*   consume  cLock -> cCheck [-> idle] -> cItem -> cLock2 -> cTake         *)
(*                  -> consumed                                            *)
(*   cleanup  consumed -> uBody -> uPost -> idle                           *)
(*                                                                         *)
(* A producer thread releases what it produced before it produces again,   *)
(* a consumer thread cleans up what it consumed; several items are in      *)
(* production or consumption at once when several threads are.             *)
(***************************************************************************)
EXTENDS PacketRing, FiniteSets, Sequences

CONSTANTS
  Producers,      \* threads that produce() and release()
  Consumers,      \* threads that consume() and cleanup()
  ProduceModes,   \* the values of `block' that producers pass
  ConsumeModes    \* the values of `block' that consumers pass

ASSUME ThreadAssumption ==
  /\ IsFiniteSet(Producers)
  /\ IsFiniteSet(Consumers)
  /\ Producers \cap Consumers = {}

ASSUME ModeAssumption ==
  ProduceModes \subseteq BOOLEAN /\ ConsumeModes \subseteq BOOLEAN

Threads == Producers \cup Consumers

VARIABLES
  ring,    \* the shared administration data
  mutex,   \* value of the semaphore `mutex'
  pc,      \* where each thread is
  block,   \* argument of the thread's current produce() or consume()
  obj      \* the local `product' or `object', or the item the client holds

vars == <<ring, mutex, pc, block, obj>>

ProduceLabels == {"pLock", "pCheck", "pItem", "pLock2", "pEat", "pFree", "pLock3", "pTake"}
ReleaseLabels == {"produced", "rBody", "rPost"}
ConsumeLabels == {"cLock", "cCheck", "cItem", "cLock2", "cTake"}
CleanupLabels == {"consumed", "uBody", "uPost"}
Labels == {"idle"} \cup ProduceLabels \cup ReleaseLabels \cup ConsumeLabels \cup CleanupLabels

(* Where a thread holds an item, has taken a token of a semaphore that the *)
(* counters do not show yet, or owes one that they already show.           *)
HoldsProduct == {"produced", "rBody"}
HoldsObject  == {"consumed", "uBody"}
TookFree     == {"pLock3", "pTake"}
OwesFree     == {"uPost"}
TookItem     == {"pLock2", "pEat", "cLock2", "cTake"}
OwesItem     == {"rPost"}

(* The threads at one of the labels L. *)
At(L) == {t \in Threads : pc[t] \in L}

Goto(t, from, to) ==
  /\ pc[t] = from
  /\ pc' = [pc EXCEPT ![t] = to]

MutexAcquire == mutex > 0 /\ mutex' = mutex - 1
MutexRelease == mutex' = mutex + 1

Init ==
  /\ ring = InitRing
  /\ mutex = 1
  /\ pc = [t \in Threads |-> "idle"]
  /\ block = [t \in Threads |-> TRUE]
  /\ obj = [t \in Threads |-> NULL]
-----------------------------------------------------------------------------
(* T& produce(bool block) *)

ProduceCall(t) ==
  /\ Goto(t, "idle", "pLock")
  /\ \E b \in ProduceModes : block' = [block EXCEPT ![t] = b]
  /\ UNCHANGED <<ring, mutex, obj>>

ProduceLock(t) ==
  /\ Goto(t, "pLock", "pCheck")
  /\ MutexAcquire
  /\ UNCHANGED <<ring, block, obj>>

(* Variant: a blocking producer looks again and again until there is room. *)
ProduceCheckSpins(t) ==
  /\ \/ ~block[t] /\ IsFull(ring) /\ Goto(t, "pCheck", "pItem")
     \/ block[t] /\ IsFull(ring) /\ Goto(t, "pCheck", "pLock")
     \/ ~IsFull(ring) /\ Goto(t, "pCheck", "pFree")
  /\ MutexRelease
  /\ UNCHANGED <<ring, block, obj>>

(* Full is decided here, under the mutex, and acted on after unlocking.    *)
ProduceCheck(t) ==
  /\ \/ ~block[t] /\ IsFull(ring) /\ Goto(t, "pCheck", "pItem")
     \/ ~(~block[t] /\ IsFull(ring)) /\ Goto(t, "pCheck", "pFree")
  /\ MutexRelease
  /\ UNCHANGED <<ring, block, obj>>

ProduceItemWait(t) ==
  /\ Goto(t, "pItem", "pLock2")
  /\ ring.item > 0
  /\ ring' = ItemWait(ring)
  /\ UNCHANGED <<mutex, block, obj>>

ProduceLock2(t) ==
  /\ Goto(t, "pLock2", "pEat")
  /\ MutexAcquire
  /\ obj' = [obj EXCEPT ![t] = OldestReleased(ring)]
  /\ UNCHANGED <<ring, block>>

ProduceEat(t) ==
  /\ Goto(t, "pEat", "pFree")
  /\ ring' = EatOldest(ring, obj[t])
  /\ MutexRelease
  /\ UNCHANGED <<block, obj>>

ProduceFreeWait(t) ==
  /\ Goto(t, "pFree", "pLock3")
  /\ ring.free > 0
  /\ ring' = FreeWait(ring)
  /\ UNCHANGED <<mutex, block, obj>>

(* Variant: a producer picks its item without waiting for the mutex. *)
ProduceLock3Unlocked(t) ==
  /\ Goto(t, "pLock3", "pTake")
  /\ mutex' = mutex - 1
  /\ obj' = [obj EXCEPT ![t] = NextFree(ring)]
  /\ UNCHANGED <<ring, block>>

ProduceLock3(t) ==
  /\ Goto(t, "pLock3", "pTake")
  /\ MutexAcquire
  /\ obj' = [obj EXCEPT ![t] = NextFree(ring)]
  /\ UNCHANGED <<ring, block>>

ProduceTake(t) ==
  /\ Goto(t, "pTake", "produced")
  /\ ring' = TakeFree(ring, obj[t])
  /\ MutexRelease
  /\ UNCHANGED <<block, obj>>
-----------------------------------------------------------------------------
(* void release(T& product) *)

ReleaseLock(t) ==
  /\ Goto(t, "produced", "rBody")
  /\ MutexAcquire
  /\ UNCHANGED <<ring, block, obj>>

ReleaseBody(t) ==
  /\ Goto(t, "rBody", "rPost")
  /\ ring' = PutReleased(ring, obj[t])
  /\ MutexRelease
  /\ UNCHANGED <<block, obj>>

ReleasePost(t) ==
  /\ Goto(t, "rPost", "idle")
  /\ ring' = ItemPost(ring)
  /\ UNCHANGED <<mutex, block, obj>>
-----------------------------------------------------------------------------
(* T* consume(bool block) *)

ConsumeCall(t) ==
  /\ Goto(t, "idle", "cLock")
  /\ \E b \in ConsumeModes : block' = [block EXCEPT ![t] = b]
  /\ UNCHANGED <<ring, mutex, obj>>

ConsumeLock(t) ==
  /\ Goto(t, "cLock", "cCheck")
  /\ MutexAcquire
  /\ UNCHANGED <<ring, block, obj>>

(* Empty is decided here, under the mutex; consume(false) then returns 0.  *)
ConsumeCheck(t) ==
  /\ \/ ~block[t] /\ ring.numReleasedItems = 0 /\ Goto(t, "cCheck", "idle")
     \/ ~(~block[t] /\ ring.numReleasedItems = 0) /\ Goto(t, "cCheck", "cItem")
  /\ MutexRelease
  /\ UNCHANGED <<ring, block, obj>>

(* Variant: the item semaphore is not waited for. *)
ConsumeItemNoWait(t) ==
  /\ Goto(t, "cItem", "cLock2")
  /\ ring.numReleasedItems > 0
  /\ UNCHANGED <<ring, mutex, block, obj>>

ConsumeItemWait(t) ==
  /\ Goto(t, "cItem", "cLock2")
  /\ ring.item > 0
  /\ ring' = ItemWait(ring)
  /\ UNCHANGED <<mutex, block, obj>>

ConsumeLock2(t) ==
  /\ Goto(t, "cLock2", "cTake")
  /\ MutexAcquire
  /\ obj' = [obj EXCEPT ![t] = OldestReleased(ring)]
  /\ UNCHANGED <<ring, block>>

ConsumeTake(t) ==
  /\ Goto(t, "cTake", "consumed")
  /\ ring' = TakeOldest(ring, obj[t])
  /\ MutexRelease
  /\ UNCHANGED <<block, obj>>
-----------------------------------------------------------------------------
(* void cleanup(T* object) *)

CleanupLock(t) ==
  /\ Goto(t, "consumed", "uBody")
  /\ MutexAcquire
  /\ UNCHANGED <<ring, block, obj>>

CleanupBody(t) ==
  /\ Goto(t, "uBody", "uPost")
  /\ ring' = PutFree(ring, obj[t])
  /\ MutexRelease
  /\ UNCHANGED <<block, obj>>

CleanupPost(t) ==
  /\ Goto(t, "uPost", "idle")
  /\ ring' = FreePost(ring)
  /\ UNCHANGED <<mutex, block, obj>>
-----------------------------------------------------------------------------
(* The steps of a call that has begun, up to the end of the paired         *)
(* release() or cleanup().                                                 *)
ProducerStep(t) ==
  \/ ProduceLock(t) \/ ProduceCheck(t)
  \/ ProduceItemWait(t) \/ ProduceLock2(t) \/ ProduceEat(t)
  \/ ProduceFreeWait(t) \/ ProduceLock3(t) \/ ProduceTake(t)
  \/ ReleaseLock(t) \/ ReleaseBody(t) \/ ReleasePost(t)

ConsumerStep(t) ==
  \/ ConsumeLock(t) \/ ConsumeCheck(t)
  \/ ConsumeItemWait(t) \/ ConsumeLock2(t) \/ ConsumeTake(t)
  \/ CleanupLock(t) \/ CleanupBody(t) \/ CleanupPost(t)

Next ==
  \/ \E t \in Producers : ProduceCall(t) \/ ProducerStep(t)
  \/ \E t \in Consumers : ConsumeCall(t) \/ ConsumerStep(t)

Spec == Init /\ [][Next]_vars

(* Threads that are scheduled: a call that has begun goes on whenever it   *)
(* can.  Nobody is obliged to begin a call.                                *)
FairSpec ==
  /\ Spec
  /\ \A t \in Producers : WF_vars(ProducerStep(t))
  /\ \A t \in Consumers : WF_vars(ConsumerStep(t))

(* The same with semaphores that starve nobody, stronger than sem_wait().  *)
StrongSpec ==
  /\ Spec
  /\ \A t \in Producers : SF_vars(ProducerStep(t))
  /\ \A t \in Consumers : SF_vars(ConsumerStep(t))

(* FairSpec with consumers that keep calling consume(). *)
ConsumingSpec == FairSpec /\ \A t \in Consumers : WF_vars(ConsumeCall(t))
-----------------------------------------------------------------------------
(* Every variable has the type its declaration in the class promises, and  *)
(* no counter or index leaves its range: the counts stay in 0..ItemNumber  *)
(* although they are changed at five places by any number of threads.      *)
TypeOK ==
  /\ ring \in RingType
  /\ mutex \in {0, 1}
  /\ pc \in [Threads -> Labels]
  /\ block \in [Threads -> BOOLEAN]
  /\ obj \in [Threads -> Items \cup {NULL}]

(* No assert() of ProducerConsumer.h fails and no null item is             *)
(* dereferenced, whatever the interleaving (lines 142-143, 161-163,        *)
(* 180-181, 210-211 and 226-228).                                          *)
AssertsHold ==
  \A t \in Threads :
    /\ pc[t] = "pEat"     => /\ obj[t] # NULL
                             /\ obj[t] \notin ring.inProduction \cup ring.inConsumption
    /\ pc[t] = "pTake"    => /\ obj[t] # NULL
                             /\ obj[t] \notin ring.inUse \cup ring.inProduction
    /\ pc[t] = "produced" => obj[t] \in ring.inUse \cap ring.inProduction
    /\ pc[t] = "cTake"    => obj[t] # NULL /\ obj[t] \in ring.inUse
    /\ pc[t] = "consumed" => obj[t] \in ring.inUse \cap ring.inConsumption

(* The item a client holds, between produce() and release() or between     *)
(* consume() and cleanup(), NULL when it holds none.                       *)
Held(t) == IF pc[t] \in HoldsProduct \cup HoldsObject THEN obj[t] ELSE NULL

(* A client has its item for itself: no other client holds it and it is    *)
(* neither queued for consumption nor free, so that the packet a thread is *)
(* writing or reading is never handed to a second thread.                  *)
ExclusiveItems ==
  \A t \in Threads : Held(t) # NULL =>
    /\ \A s \in Threads \ {t} : Held(s) # Held(t)
    /\ \A i \in Items : ring.freeBuffer[i] # Held(t) /\ ring.releasedBuffer[i] # Held(t)

(* No item is lost: a permanent count of ItemNumber items is free, queued  *)
(* or held, and the two semaphores agree with the counters up to the       *)
(* tokens that threads have taken or still owe.                            *)
Conservation ==
  /\ ring.numProducedItems = ring.numReleasedItems
       + Cardinality(At(HoldsProduct)) + Cardinality(At(HoldsObject))
  /\ ring.free + Cardinality(At(TookFree)) + Cardinality(At(OwesFree))
       = ItemNumber - ring.numProducedItems
  /\ ring.item + Cardinality(At(TookItem))
       + Cardinality(At(OwesItem)) = ring.numReleasedItems

(* The labels at which a thread has the mutex. *)
CriticalLabels == {"pCheck", "pEat", "pTake", "rBody", "cCheck", "cTake", "uBody"}

MutualExclusion ==
  /\ \A t \in Threads : pc[t] \in CriticalLabels => mutex = 0
  /\ \A s, t \in Threads : pc[s] \in CriticalLabels /\ pc[t] \in CriticalLabels => s = t

(* The pointer read when the mutex was taken is still the one to work on.  *)
FreshPointers ==
  \A t \in Threads :
    /\ pc[t] \in {"pEat", "cTake"} => obj[t] = OldestReleased(ring)
    /\ pc[t] = "pTake" => obj[t] = NextFree(ring)

HeldItems ==
  /\ \A t \in Threads :
       /\ pc[t] \in HoldsProduct => obj[t] \in ring.inUse \cap ring.inProduction
       /\ pc[t] \in HoldsObject  => obj[t] \in ring.inUse \cap ring.inConsumption
  /\ \A s, t \in Threads :
       /\ pc[s] \in HoldsProduct \cup HoldsObject
       /\ pc[t] \in HoldsProduct \cup HoldsObject
       /\ obj[s] = obj[t]
       => s = t

(* The inductive invariant of the threads: the asserts, the exclusive      *)
(* items and the counts hold because the mutex protects the critical       *)
(* sections, because the pointers read under it are fresh, and because     *)
(* each ring buffer is a window of distinct items between its two indices. *)
IInv ==
  /\ TypeOK
  /\ RingInv(ring)
  /\ MutualExclusion
  /\ FreshPointers
  /\ HeldItems
  /\ Conservation

(* "Items are returned in the order they where produced ... The order is   *)
(* given by the release() call": the ring implements a bounded FIFO.       *)
Fifo == INSTANCE BoundedFifo
          WITH None  <- NULL,
               queue <- ReleasedQueue(ring),
               held  <- [t \in Threads |-> Held(t)]
ImplementsFifo == Fifo!Spec

(* A blocking produce() returns: once a producer waits for an item, the    *)
(* consumers' cleanup() gives it one.                                      *)
ProduceReturns ==
  \A t \in Producers : pc[t] \in ProduceLabels ~> pc[t] = "produced"

(* Every released item is taken by a consumer that keeps consuming.        *)
ReleasedIsConsumed ==
  \A i \in Items :
    (\E k \in Items : ring.releasedBuffer[k] = i) ~> i \in ring.inConsumption

(* A call that was told not to block comes back: produce(false) with an   *)
(* item, consume(false) with an item or without one, even if nobody        *)
(* produces any more.                                                      *)
NonBlockingReturns ==
  /\ \A t \in Producers : ~block[t] /\ pc[t] \in ProduceLabels ~> pc[t] = "produced"
  /\ \A t \in Consumers : ~block[t] /\ pc[t] \in ConsumeLabels ~> pc[t] \in {"idle", "consumed"}
=============================================================================
