---------------------------- MODULE BoundedFifo ----------------------------
(***************************************************************************)
(* What ProducerConsumer promises to its clients, without its indices,     *)
(* flags and semaphores: items move from a free pool to a producer, from   *)
(* there to a FIFO queue, to a consumer, and back to the pool.  The only   *)
(* other thing that may happen is that the oldest queued item is dropped   *)
(* (produce(false) on a full ring).                                        *)
(***************************************************************************)
EXTENDS Sequences, Functions

CONSTANTS Items, Producers, Consumers, None

VARIABLES
  queue,   \* released items, oldest first
  held     \* the item each thread holds, or None

fifoVars == <<queue, held>>

FreeItems == Items \ (Range(queue) \cup Range(held))

Init ==
  /\ queue = <<>>
  /\ held = [t \in Producers \cup Consumers |-> None]

Produce(t) ==
  /\ held[t] = None
  /\ \E i \in FreeItems : held' = [held EXCEPT ![t] = i]
  /\ UNCHANGED queue

DropOldest ==
  /\ queue # <<>>
  /\ queue' = Tail(queue)
  /\ UNCHANGED held

Release(t) ==
  /\ held[t] # None
  /\ queue' = Append(queue, held[t])
  /\ held' = [held EXCEPT ![t] = None]

Consume(t) ==
  /\ held[t] = None
  /\ queue # <<>>
  /\ held' = [held EXCEPT ![t] = Head(queue)]
  /\ queue' = Tail(queue)

Cleanup(t) ==
  /\ held[t] # None
  /\ held' = [held EXCEPT ![t] = None]
  /\ UNCHANGED queue

Next ==
  \/ DropOldest
  \/ \E t \in Producers : Produce(t) \/ Release(t)
  \/ \E t \in Consumers : Consume(t) \/ Cleanup(t)

Spec == Init /\ [][Next]_fifoVars
=============================================================================
