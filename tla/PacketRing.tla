----------------------------- MODULE PacketRing -----------------------------
(***************************************************************************)
(* The administration data of ProducerConsumer<T, ItemNumber, Semaphore>   *)
(* and what its critical sections do to it.                                *)
(*                                                                         *)
(* A ring is a record with the fields of the class.  An item is named by   *)
(* its index in itemBuffer; the three flags of an item are the sets of     *)
(* items that have them; `free' and `item' are the values of the counting  *)
(* semaphores.  The data of the items (class T) is not part of a ring.     *)
(* The operators below are pure: each takes a ring and returns the ring    *)
(* after one critical section, so that the threads of ProducerConsumer     *)
(* and the single event-loop thread of Bridge share them.                  *)
(***************************************************************************)
EXTENDS Integers

CONSTANT ItemNumber     \* template parameter: the number of items (256 in slirp4tinc)

ASSUME ItemNumberAssumption == ItemNumber \in Nat \ {0}

Items == 0 .. ItemNumber - 1
NULL  == -1                                         \* a null Item*

(* Variant: the index runs past the end of the buffer. *)
IncNoWrap(i) == i + 1

Inc(i) == (i + 1) % ItemNumber                      \* ++i; i %= ItemNumber

InitRing ==
  [ inUse            |-> {},
    inProduction     |-> {},
    inConsumption    |-> {},
    freeBuffer       |-> [i \in Items |-> i],
    releasedBuffer   |-> [i \in Items |-> NULL],
    numProducedItems |-> 0,
    numReleasedItems |-> 0,
    free             |-> ItemNumber,
    item             |-> 0,
    nextAdd          |-> 0,
    nextRelease      |-> 0,
    nextConsume      |-> 0,
    nextRemoved      |-> 0 ]

slotsAvailable(r) == ItemNumber - r.numProducedItems
itemsAvailable(r) == r.numReleasedItems
IsFull(r)         == ItemNumber = r.numProducedItems

(* Variant: the item released last is taken first. *)
NewestReleased(r) == r.releasedBuffer[(r.nextRelease + ItemNumber - 1) % ItemNumber]

OldestReleased(r) == r.releasedBuffer[r.nextConsume]
NextFree(r)       == r.freeBuffer[r.nextAdd]

(* Semaphore operations; a wait is enabled only on a positive value. *)
FreeWait(r) == [r EXCEPT !.free = @ - 1]
FreePost(r) == [r EXCEPT !.free = @ + 1]
ItemWait(r) == [r EXCEPT !.item = @ - 1]
ItemPost(r) == [r EXCEPT !.item = @ + 1]

(* Variant: the overwritten item is handed back without marking it unused. *)
EatOldestKeepsUse(r, p) ==
  FreePost([r EXCEPT !.freeBuffer[r.nextRemoved]     = p,
                     !.releasedBuffer[r.nextConsume] = NULL,
                     !.nextConsume      = Inc(@),
                     !.nextRemoved      = Inc(@),
                     !.numProducedItems = @ - 1,
                     !.numReleasedItems = @ - 1])

(* produce(false) on a full ring: the oldest released item becomes free. *)
EatOldest(r, p) ==
  FreePost([r EXCEPT !.inUse            = @ \ {p},
                     !.freeBuffer[r.nextRemoved]     = p,
                     !.releasedBuffer[r.nextConsume] = NULL,
                     !.nextConsume      = Inc(@),
                     !.nextRemoved      = Inc(@),
                     !.numProducedItems = @ - 1,
                     !.numReleasedItems = @ - 1])

(* produce(): a free item goes into production. *)
TakeFree(r, p) ==
  [r EXCEPT !.freeBuffer[r.nextAdd] = NULL,
            !.inProduction     = @ \cup {p},
            !.inUse            = @ \cup {p},
            !.nextAdd          = Inc(@),
            !.numProducedItems = @ + 1]

(* release(): a product is queued for consumption. *)
PutReleased(r, p) ==
  [r EXCEPT !.inProduction     = @ \ {p},
            !.releasedBuffer[r.nextRelease] = p,
            !.nextRelease      = Inc(@),
            !.numReleasedItems = @ + 1]

(* consume(): the oldest released item goes into consumption. *)
TakeOldest(r, o) ==
  [r EXCEPT !.releasedBuffer[r.nextConsume] = NULL,
            !.inConsumption    = @ \cup {o},
            !.nextConsume      = Inc(@),
            !.numReleasedItems = @ - 1]

(* cleanup(): a consumed item becomes free. *)
PutFree(r, o) ==
  [r EXCEPT !.inUse            = @ \ {o},
            !.inConsumption    = @ \ {o},
            !.freeBuffer[r.nextRemoved] = o,
            !.nextRemoved      = Inc(@),
            !.numProducedItems = @ - 1]

(* The released items, oldest first: the window of releasedBuffer that     *)
(* starts at nextConsume.                                                  *)
ReleasedQueue(r) ==
  [k \in 1 .. r.numReleasedItems |->
     r.releasedBuffer[(r.nextConsume + k - 1) % ItemNumber]]
-----------------------------------------------------------------------------
(* What the critical sections preserve: the part of the inductive          *)
(* invariant of ProducerConsumer that speaks of the ring alone.            *)

RingType ==
  [ inUse            : SUBSET Items,
    inProduction     : SUBSET Items,
    inConsumption    : SUBSET Items,
    freeBuffer       : [Items -> Items \cup {NULL}],
    releasedBuffer   : [Items -> Items \cup {NULL}],
    numProducedItems : 0 .. ItemNumber,
    numReleasedItems : 0 .. ItemNumber,
    free             : 0 .. ItemNumber,
    item             : 0 .. ItemNumber,
    nextAdd          : Items,
    nextRelease      : Items,
    nextConsume      : Items,
    nextRemoved      : Items ]

(* How many steps of Inc lead from index a to index i. *)
Ahead(a, i) == IF a <= i THEN i - a ELSE i - a + ItemNumber

(* In buffer b exactly the n entries from index `first' on are not null,   *)
(* and `last' is the index after them.                                     *)
Window(b, first, n, last) ==
  /\ \A i \in Items : b[i] # NULL <=> Ahead(first, i) < n
  /\ last = IF first + n < ItemNumber THEN first + n ELSE first + n - ItemNumber

NoDuplicates(b) == \A i, j \in Items : b[i] = b[j] /\ b[i] # NULL => i = j

FreeSlots(r) ==
  /\ Window(r.freeBuffer, r.nextAdd, ItemNumber - r.numProducedItems, r.nextRemoved)
  /\ NoDuplicates(r.freeBuffer)
  /\ \A i \in Items : r.freeBuffer[i] \notin r.inUse

ReleasedSlots(r) ==
  /\ Window(r.releasedBuffer, r.nextConsume, r.numReleasedItems, r.nextRelease)
  /\ NoDuplicates(r.releasedBuffer)
  /\ \A i \in Items : r.releasedBuffer[i] # NULL =>
       r.releasedBuffer[i] \in r.inUse \ (r.inProduction \cup r.inConsumption)

FlagsConsistent(r) ==
  /\ r.inProduction \cup r.inConsumption \subseteq r.inUse
  /\ r.inProduction \cap r.inConsumption = {}

RingInv(r) ==
  r \in RingType /\ FreeSlots(r) /\ ReleasedSlots(r) /\ FlagsConsistent(r)
=============================================================================
