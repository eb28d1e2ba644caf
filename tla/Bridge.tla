------------------------------- MODULE Bridge -------------------------------
(***************************************************************************)
(* slirp4tinc itself: the single thread of main() runs                     *)
(* FdSelectHandler::waitOn() for ever over a chain of two handlers,        *)
(* UmlNetworkSocketPlug (first) and SlirpHandler, which exchange packets   *)
(* through two PacketRingBuffers:                                          *)
(*                                                                         *)
(*   tinc -> umlIn -> uml reads  -> u2s -> slirp writes -> toSlirp         *)
(*   slirp -> slirpIn -> slirp reads -> s2u -> uml writes -> tinc          *)
(*                                                                         *)
(* waitOn() is: Collect the fd sets, Select, then ask and serve the first  *)
(* handler and the second.  execute() is one step per direction, in the    *)
(* order of the code; the steps are forced by pc, nothing is skipped.      *)
(*                                                                         *)
(* SlirpHandler::execute() copies the item that produce() returns and      *)
(* passes the copy to release().  The copy is no item: its flags are what  *)
(* happens to lie behind it on the stack, and after execute() its memory   *)
(* is gone.  Dangling is its address; whatever is read through it is a     *)
(* nondeterministic choice, whatever is written through it has no effect   *)
(* that can be relied on.                                                  *)
(***************************************************************************)
EXTENDS PacketRing, Sequences, FiniteSets

CONSTANTS
  UmlFrames,     \* number of frames the tinc daemon sends
  Faults,        \* bound on empty datagrams from tinc and on failing recvfrom()
  SlirpFrames    \* number of frames the SLiRP stack sends

ASSUME FramesAssumption ==
  UmlFrames \in Nat /\ Faults \in Nat /\ SlirpFrames \in Nat

Handlers == {"uml", "slirp"}
Dangling == ItemNumber       \* an Item* that points to none of itemBuffer
Empty    == 0                \* contents of an item with fill = 0

VARIABLES
  status,         \* "running", or how the process ended
  pc,             \* where the event loop is
  readSet,        \* the fd sets of waitOn(): handed to pselect(), then its answer
  writeSet,
  waitForRead,    \* member flags of the handlers
  waitForWrite,
  readable,       \* arguments of the current execute()
  writable,
  u2s, s2u,       \* uml2slirpBuffers and slirp2umlBuffers
  u2sData,        \* the frame in each item of u2s
  umlIn,          \* datagrams in the receive queue of the UML data socket
  slirpIn,        \* number of frames waiting at the fd of libvdeslirp
  slirpSent,      \* history: how many frames libslirp sent
  sent,           \* history: the frames tinc sent, in order
  faults,         \* history: empty datagrams and failed receptions
  toSlirp         \* history: what vdeslirp_send() was called with

loopVars == <<readSet, writeSet, waitForRead, waitForWrite, readable, writable>>
envVars  == <<umlIn, slirpIn, slirpSent, sent, faults>>
ringVars == <<u2s, s2u, u2sData, toSlirp>>
vars     == <<status, pc, loopVars, envVars, ringVars>>

Init ==
  /\ status = "running"
  /\ pc = "collect"
  /\ readSet = {} /\ writeSet = {}
  /\ waitForRead = [h \in Handlers |-> h = "uml"]
  /\ waitForWrite = [h \in Handlers |-> FALSE]
  /\ readable = FALSE /\ writable = FALSE
  /\ u2s = InitRing /\ s2u = InitRing
  /\ u2sData = [i \in Items |-> Empty]
  /\ umlIn = <<>> /\ slirpIn = 0 /\ slirpSent = 0
  /\ sent = <<>> /\ faults = 0 /\ toSlirp = <<>>
-----------------------------------------------------------------------------
(* produce(), release(), consume() and cleanup() for a caller that is the  *)
(* only thread.  Where the code would wait on a semaphore nobody can post  *)
(* any more, the process hangs.                                            *)

ProduceHangs(r) == IF IsFull(r) THEN r.item = 0 ELSE r.free = 0

(* The ring in which a non-blocking produce() picks its item. *)
BeforeTake(r) ==
  FreeWait(IF IsFull(r) THEN EatOldest(ItemWait(r), OldestReleased(r)) ELSE r)

Produced(r) == TakeFree(BeforeTake(r), NextFree(BeforeTake(r)))
Product(r)  == NextFree(BeforeTake(r))

(* Variant: release() forgets to post `item'. *)
ReleasedNoPost(r, p) == PutReleased(r, p)

Released(r, p) == ItemPost(PutReleased(r, p))

ConsumeReturnsNull(r) == r.numReleasedItems = 0
ConsumeHangs(r)       == r.numReleasedItems # 0 /\ r.item = 0
Consumed(r)           == TakeOldest(ItemWait(r), OldestReleased(r))

(* Variants: cleanup() posts `free' twice, or forgets the counter. *)
CleanedTwice(r, o)    == FreePost(FreePost(PutFree(r, o)))
CleanedUncounted(r, o) == FreePost([PutFree(r, o) EXCEPT !.numProducedItems = @ + 1])

Cleaned(r, o)         == FreePost(PutFree(r, o))
-----------------------------------------------------------------------------
(* The environment: tinc and libslirp queue frames at the two descriptors. *)

TincSends ==
  /\ Len(sent) < UmlFrames
  /\ sent' = Append(sent, Len(sent) + 1)
  /\ umlIn' = Append(umlIn, Len(sent) + 1)
  /\ UNCHANGED <<status, pc, loopVars, ringVars, slirpIn, slirpSent, faults>>

TincSendsEmpty ==
  /\ faults < Faults
  /\ faults' = faults + 1
  /\ umlIn' = Append(umlIn, Empty)
  /\ UNCHANGED <<status, pc, loopVars, ringVars, slirpIn, slirpSent, sent>>

SlirpSends ==
  /\ slirpSent < SlirpFrames
  /\ slirpSent' = slirpSent + 1
  /\ slirpIn' = slirpIn + 1
  /\ UNCHANGED <<status, pc, loopVars, ringVars, umlIn, sent, faults>>
-----------------------------------------------------------------------------
(* fd() of both handlers renews the wait flags from the rings. *)

Rx(h) == IF h = "uml" THEN u2s ELSE s2u     \* the ring a handler produces into
Tx(h) == IF h = "uml" THEN s2u ELSE u2s     \* the ring it consumes from

(* Variant: a handler always wants to read. *)
WantsReadAlways(h) == TRUE

WantsRead(h)  == slotsAvailable(Rx(h)) # 0
WantsWrite(h) == itemsAvailable(Tx(h)) # 0

(* waitOn(), first loop. *)
Collect ==
  /\ pc = "collect"
  /\ waitForRead' = [h \in Handlers |-> WantsRead(h)]
  /\ waitForWrite' = [h \in Handlers |-> WantsWrite(h)]
  /\ readSet' = {h \in Handlers : WantsRead(h)}
  /\ writeSet' = {h \in Handlers : WantsWrite(h)}
  /\ pc' = "select"
  /\ UNCHANGED <<status, readable, writable, envVars, ringVars>>

Pending(h) == IF h = "uml" THEN umlIn # <<>> ELSE slirpIn > 0

(* pselect() answers with the descriptors that are ready; `canWrite' are   *)
(* those the kernel would accept a packet on at this moment.               *)
Select(canWrite) ==
  /\ pc = "select"
  /\ readSet' = {h \in readSet : Pending(h)}
  /\ writeSet' = writeSet \cap canWrite
  /\ readSet' \cup writeSet' # {}
  /\ pc' = "uml"
  /\ UNCHANGED <<status, waitForRead, waitForWrite, readable, writable, envVars, ringVars>>

(* Timeout after 100 ms, or an error that is printed: next round. *)
SelectNothing ==
  /\ pc = "select"
  /\ pc' = "collect"
  /\ UNCHANGED <<status, loopVars, envVars, ringVars>>

(* waitOn(), second loop: fd() again, then execute() if anything is ready. *)
Ask(h, then, otherwise) ==
  /\ pc = h
  /\ waitForRead' = [waitForRead EXCEPT ![h] = WantsRead(h)]
  /\ waitForWrite' = [waitForWrite EXCEPT ![h] = WantsWrite(h)]
  /\ readable' = (WantsRead(h) /\ h \in readSet)
  /\ writable' = (WantsWrite(h) /\ h \in writeSet)
  /\ pc' = IF readable' \/ writable' THEN then ELSE otherwise
  /\ UNCHANGED <<status, readSet, writeSet, envVars, ringVars>>

AskUml   == Ask("uml", "umlWrite", "slirp")
AskSlirp == Ask("slirp", "slirpRead", "collect")

(* The process ends in the middle of a handler. *)
Dies(how) ==
  /\ status' = how
  /\ pc' = "dead"
  /\ UNCHANGED <<loopVars, envVars, ringVars>>

(* consume(false) is not called, or it returns null and the handler stops  *)
(* waiting for a writable descriptor.                                      *)
WritesNothing(h, to) ==
  /\ writable => ConsumeReturnsNull(Tx(h))
  /\ waitForWrite' = [waitForWrite EXCEPT ![h] = @ /\ ~writable]
  /\ pc' = to
  /\ UNCHANGED <<status, readSet, writeSet, waitForRead, readable, writable, envVars, ringVars>>

ReadsNothing(to) ==
  /\ ~readable
  /\ pc' = to
  /\ UNCHANGED <<status, loopVars, envVars, ringVars>>
-----------------------------------------------------------------------------
(* UmlNetworkSocketPlug::execute(), the part for `writable'.  A packet     *)
(* with fill # 0 is written from *runningTxPacket, which is null.          *)

UmlWriteNothing == pc = "umlWrite" /\ WritesNothing("uml", "umlRead")

(* Every pointer in the queue is a dead copy: an assert() on its flags may *)
(* fail, and its fill may be anything.                                     *)
UmlWriteAborts ==
  /\ pc = "umlWrite" /\ writable
  /\ ~ConsumeReturnsNull(s2u) /\ ~ConsumeHangs(s2u)
  /\ OldestReleased(s2u) = Dangling
  /\ Dies("aborted")

UmlWriteFrame ==
  /\ pc = "umlWrite" /\ writable
  /\ ~ConsumeReturnsNull(s2u) /\ ~ConsumeHangs(s2u)
  /\ Dies("segfault")

UmlWriteEmpty ==
  /\ pc = "umlWrite" /\ writable
  /\ ~ConsumeReturnsNull(s2u)
  /\ IF ConsumeHangs(s2u)
       THEN Dies("hung")
       ELSE /\ s2u' = Cleaned(Consumed(s2u), OldestReleased(s2u))
            /\ pc' = "umlRead"
            /\ UNCHANGED <<status, loopVars, envVars, u2s, u2sData, toSlirp>>

(* UmlNetworkSocketPlug::execute(), the part for `readable': one datagram  *)
(* into one item, which is released whatever came.                         *)

UmlReadNothing == pc = "umlRead" /\ ReadsNothing("slirp")

UmlReads(frame, rest, fault) ==
  /\ pc = "umlRead" /\ readable
  /\ IF ProduceHangs(u2s)
       THEN Dies("hung")
       ELSE /\ u2sData' = [u2sData EXCEPT ![Product(u2s)] = frame]
            /\ u2s' = Released(Produced(u2s), Product(u2s))
            /\ umlIn' = rest
            /\ faults' = faults + fault
            /\ pc' = "slirp"
            /\ UNCHANGED <<status, loopVars, slirpIn, slirpSent, sent, s2u, toSlirp>>

UmlReadFrame == UmlReads(Head(umlIn), Tail(umlIn), 0)
UmlReadFails == faults < Faults /\ UmlReads(Empty, umlIn, 1)
-----------------------------------------------------------------------------
(* SlirpHandler::execute(), the part for `readable': the copy is released. *)

SlirpReadNothing == pc = "slirpRead" /\ ReadsNothing("slirpWrite")

(* The bytes behind the copy fail an assert() of release(), or those       *)
(* behind an older copy one of produce().                                  *)
SlirpReadAborts ==
  /\ pc = "slirpRead" /\ readable
  /\ ~ProduceHangs(s2u)
  /\ Dies("aborted")

SlirpReads(taken, fault) ==
  /\ pc = "slirpRead" /\ readable
  /\ IF ProduceHangs(s2u)
       THEN Dies("hung")
       ELSE /\ s2u' = Released(Produced(s2u), Dangling)
            /\ slirpIn' = slirpIn - taken
            /\ faults' = faults + fault
            /\ pc' = "slirpWrite"
            /\ UNCHANGED <<status, loopVars, umlIn, slirpSent, sent, u2s, u2sData, toSlirp>>

SlirpReadFrame == SlirpReads(1, 0)
SlirpReadFails == faults < Faults /\ SlirpReads(0, 1)

(* SlirpHandler::execute(), the part for `writable'; the result of         *)
(* vdeslirp_send() is ignored.                                             *)

SlirpWriteNothing == pc = "slirpWrite" /\ WritesNothing("slirp", "collect")

SlirpWrite ==
  /\ pc = "slirpWrite" /\ writable
  /\ ~ConsumeReturnsNull(u2s)
  /\ IF ConsumeHangs(u2s)
       THEN Dies("hung")
       ELSE LET o == OldestReleased(u2s)
            IN /\ toSlirp' = IF u2sData[o] = Empty THEN toSlirp ELSE Append(toSlirp, u2sData[o])
               /\ u2s' = Cleaned(Consumed(u2s), o)
               /\ pc' = "collect"
               /\ UNCHANGED <<status, loopVars, envVars, s2u, u2sData>>
-----------------------------------------------------------------------------
Environment == TincSends \/ TincSendsEmpty \/ SlirpSends

(* execute() of the two handlers, up to the end of the round. *)
Handle ==
  \/ UmlWriteNothing \/ UmlWriteAborts \/ UmlWriteFrame \/ UmlWriteEmpty
  \/ UmlReadNothing \/ UmlReadFrame \/ UmlReadFails
  \/ SlirpReadNothing \/ SlirpReadAborts \/ SlirpReadFrame \/ SlirpReadFails
  \/ SlirpWriteNothing \/ SlirpWrite

Loop ==
  \/ Collect \/ SelectNothing
  \/ \E canWrite \in SUBSET Handlers : Select(canWrite)
  \/ AskUml \/ AskSlirp
  \/ Handle

Next == Environment \/ Loop

Spec == Init /\ [][Next]_vars

(* The loop runs; pselect() reports a readable descriptor, and one that is *)
(* writable again and again.  tinc need not send.                          *)
FairSpec ==
  /\ Spec
  /\ WF_vars(Loop)
  /\ SF_vars(\E canWrite \in SUBSET Handlers : Select(canWrite) /\ "slirp" \in writeSet')
  /\ SF_vars(\E canWrite \in SUBSET Handlers : Select(canWrite) /\ "uml" \in readSet')
-----------------------------------------------------------------------------
(* The types; the indices, counters and semaphores of u2s stay in range.   *)
TypeOK ==
  /\ status \in {"running", "aborted", "segfault", "hung"}
  /\ pc \in {"collect", "select", "uml", "umlWrite", "umlRead",
             "slirp", "slirpRead", "slirpWrite", "dead"}
  /\ readSet \subseteq Handlers /\ writeSet \subseteq Handlers
  /\ waitForRead \in [Handlers -> BOOLEAN] /\ waitForWrite \in [Handlers -> BOOLEAN]
  /\ readable \in BOOLEAN /\ writable \in BOOLEAN
  /\ u2s \in RingType
  /\ u2sData \in [Items -> 0 .. UmlFrames]
  /\ slirpIn \in 0 .. slirpSent /\ slirpSent \in 0 .. SlirpFrames
  /\ faults \in 0 .. Faults

(* What u2s holds, oldest first. *)
InU2s ==
  LET q == ReleasedQueue(u2s)
  IN [k \in 1 .. Len(q) |-> u2sData[q[k]]]

(* No frame from tinc is lost, duplicated or overtaken on its way to       *)
(* libslirp, although read() and write() are done with non-blocking calls  *)
(* that would drop the oldest packet of a full ring.  Empty items may lie  *)
(* between the frames, but none is passed on.                              *)
FramesInOrder ==
  LET all == toSlirp \o InU2s \o umlIn
  IN /\ \A j, k \in 1 .. Len(all) : j < k /\ all[k] # Empty => all[j] < all[k]
     /\ {all[k] : k \in 1 .. Len(all)} \ {Empty} = {sent[k] : k \in 1 .. Len(sent)}
     /\ \A k \in 1 .. Len(toSlirp) : toSlirp[k] # Empty

(* The event loop never waits on a semaphore: nobody else could post it.   *)
NeverHangs == status # "hung"

(* Every frame tinc sends is passed to libslirp, unless the process dies.  *)
EveryFrameForwarded ==
  \A f \in 1 .. UmlFrames :
    Len(sent) >= f ~> Len(toSlirp) >= f \/ status # "running"

(* "this MUST be the same address as returned from produce()": every       *)
(* pointer in the buffers of a ring is null or one of its own items.       *)
OwnItemsOnly ==
  \A i \in Items : s2u.releasedBuffer[i] # Dangling /\ s2u.freeBuffer[i] # Dangling
=============================================================================
