--------------------------- MODULE FdSelectHandler ---------------------------
(***************************************************************************)
(* The intrusive chain of FdSelectHandler objects and waitOn(), which      *)
(* walks it twice: to collect the descriptors for pselect(), and to call   *)
(* execute() of the ready ones.  execute() runs client code in the middle  *)
(* of the second walk: it may delete its object, end its connection, take  *)
(* the object out of the chain and put it or another one in.  Between two  *)
(* calls of waitOn() the client may do this to any object.                 *)
(*                                                                         *)
(* An object is an address: after it is deleted another one may be         *)
(* allocated there.  What a derived class brings (fd() and the wait flags) *)
(* is chosen nondeterministically; the second fd() of a round may want     *)
(* more than the first, as both handlers of slirp4tinc do, never less.     *)
(* fd() assigns both flags, and only waitOn() reads them, after fd(): what *)
(* they were in an earlier call of waitOn() is forgotten.                  *)
(***************************************************************************)
EXTENDS Naturals, FiniteSets

CONSTANTS Objects, Null

ASSUME ObjectsAssumption == IsFiniteSet(Objects) /\ Null \notin Objects

Events == {"read", "write"}

VARIABLES
  alive,      \* the objects that are constructed
  open,       \* those whose descriptor is not negative
  chain,      \* the client's variable: the first object, or Null
  prev, next, \* the links of each object
  inChain,    \* the objects whose member `chain' is set
  wants,      \* waitForRead and waitForWrite of each object, {} outside waitOn()
  pc,         \* where waitOn() is, "idle" when it is not called
  h, h_next,  \* its cursors
  ready,      \* readSet and writeSet: pairs of object and event
  served      \* history: the objects executed in this round

objVars  == <<alive, open, wants>>
linkVars == <<chain, prev, next, inChain>>
loopVars == <<pc, h, h_next, ready, served>>
vars     == <<objVars, linkVars, loopVars>>

Forgotten == [o \in Objects |-> {}]

Init ==
  /\ alive = {} /\ open = {} /\ inChain = {}
  /\ chain = Null
  /\ prev = [o \in Objects |-> Null] /\ next = [o \in Objects |-> Null]
  /\ wants = Forgotten
  /\ pc = "idle" /\ h = Null /\ h_next = Null
  /\ ready = {} /\ served = {}
-----------------------------------------------------------------------------
(* Variant: addTo() puts the object behind the others. *)
AddToEnd(o) ==
  LET last == CHOOSE p \in inChain : next[p] = Null
  IN /\ next' = [p \in Objects |-> IF p = o THEN Null
                                  ELSE IF inChain # {} /\ p = last THEN o ELSE next[p]]
     /\ prev' = [prev EXCEPT ![o] = IF inChain = {} THEN Null ELSE last]
     /\ inChain' = inChain \cup {o}
     /\ chain' = IF inChain = {} THEN o ELSE chain

(* The links after addTo(chain): in front of the others. *)
AddTo(o) ==
  /\ prev' = [p \in Objects |-> IF p = o THEN Null ELSE IF p = chain THEN o ELSE prev[p]]
  /\ next' = [next EXCEPT ![o] = chain]
  /\ inChain' = inChain \cup {o}
  /\ chain' = o

(* Variant: removeFromChain() leaves the back link of the successor. *)
RemoveFromChainOneWay(o) ==
  /\ next' = [p \in Objects |-> IF p = o THEN Null ELSE IF p = prev[o] THEN next[o] ELSE next[p]]
  /\ chain' = IF prev[o] = Null /\ o \in inChain THEN next[o] ELSE chain
  /\ prev' = [prev EXCEPT ![o] = Null]
  /\ inChain' = inChain \ {o}

RemoveFromChain(o) ==
  /\ next' = [p \in Objects |-> IF p = o THEN Null ELSE IF p = prev[o] THEN next[o] ELSE next[p]]
  /\ chain' = IF prev[o] = Null /\ o \in inChain THEN next[o] ELSE chain
  /\ prev' = [p \in Objects |-> IF p = o THEN Null ELSE IF p = next[o] THEN prev[o] ELSE prev[p]]
  /\ inChain' = inChain \ {o}
-----------------------------------------------------------------------------
(* What the client may do, and to which objects: any between two calls of  *)
(* waitOn(); inside execute() new objects and the one being executed, as   *)
(* the comment at line 104 of the code allows.  That no other object is    *)
(* taken out or deleted there is a contract the code does not enforce: the *)
(* cursor may have been saved on it.                                       *)

InClientCode == pc \in {"idle", "execute"}
MayTouch(o)  == pc = "idle" \/ (pc = "execute" /\ o = h)

(* The connection of a new object may have failed. *)
Construct(o) ==
  /\ InClientCode
  /\ o \notin alive
  /\ alive' = alive \cup {o}
  /\ open' \in {open, open \cup {o}}
  /\ prev' = [prev EXCEPT ![o] = Null]
  /\ next' = [next EXCEPT ![o] = Null]
  /\ wants' = [wants EXCEPT ![o] = {}]
  /\ UNCHANGED <<chain, inChain, loopVars>>

(* Contract: an object is put only into a chain when it is in none. *)
Add(o) ==
  /\ InClientCode
  /\ o \in alive \ inChain
  /\ AddTo(o)
  /\ UNCHANGED <<objVars, loopVars>>

Remove(o) ==
  /\ MayTouch(o)
  /\ o \in alive
  /\ RemoveFromChain(o)
  /\ UNCHANGED <<objVars, loopVars>>

(* destroy() of a static object: the connection ends, fd() is negative     *)
(* from now on, and the object stays where it is.                          *)
Destroy(o) ==
  /\ MayTouch(o)
  /\ o \in open
  /\ open' = open \ {o}
  /\ UNCHANGED <<alive, wants, linkVars, loopVars>>

(* Variant: the destructor leaves the object in the chain. *)
DeleteLinked(o) ==
  /\ MayTouch(o)
  /\ o \in alive
  /\ alive' = alive \ {o}
  /\ open' = open \ {o}
  /\ UNCHANGED <<wants, linkVars, loopVars>>

(* destroy() of a dynamic object: the destructor takes it out of the chain. *)
Delete(o) ==
  /\ MayTouch(o)
  /\ o \in alive
  /\ RemoveFromChain(o)
  /\ alive' = alive \ {o}
  /\ open' = open \ {o}
  /\ UNCHANGED <<wants, loopVars>>
-----------------------------------------------------------------------------
(* bool waitOn(chain, relativeTimeout).  With an empty chain, or when no   *)
(* object has a descriptor, it only sleeps.                                *)

WaitOn ==
  /\ pc = "idle"
  /\ chain # Null
  /\ \E w \in [inChain -> SUBSET Events] :
       /\ wants' = IF inChain \cap open = {} THEN Forgotten
                   ELSE [o \in Objects |-> IF o \in inChain THEN w[o] ELSE {}]
       /\ ready' = {e \in (inChain \cap open) \X Events : e[2] \in w[e[1]]}
  /\ pc' = IF inChain \cap open = {} THEN "idle" ELSE "select"
  /\ UNCHANGED <<alive, open, linkVars, h, h_next, served>>

(* pselect() reports some of what it was asked for... *)
Select ==
  /\ pc = "select"
  /\ \E r \in SUBSET ready \ {{}} : ready' = r
  /\ h' = chain
  /\ pc' = "dispatch"
  /\ UNCHANGED <<objVars, linkVars, h_next, served>>

(* ... or times out, or fails. *)
SelectNothing ==
  /\ pc = "select"
  /\ ready' = {} /\ wants' = Forgotten
  /\ pc' = "idle"
  /\ UNCHANGED <<alive, open, linkVars, h, h_next, served>>

(* The second walk asks each object for its descriptor again, and tests it *)
(* with FD_ISSET() if the object waits for something.  With a negative     *)
(* descriptor FD_ISSET() ends the process: the build sets                  *)
(* _FORTIFY_SOURCE=2 (CMakeLists.txt:9).                                   *)
Dispatch ==
  /\ pc = "dispatch" /\ h # Null
  /\ \E w \in SUBSET Events :
       /\ wants[h] \subseteq w
       /\ wants' = [wants EXCEPT ![h] = w]
       /\ h_next' = next[h]
       /\ IF h \notin open /\ w # {}
            THEN pc' = "aborted" /\ UNCHANGED <<h, served>>
            ELSE IF \E e \in w : <<h, e>> \in ready
              THEN pc' = "execute" /\ served' = served \cup {h} /\ UNCHANGED h
              ELSE h' = next[h] /\ UNCHANGED <<pc, served>>
  /\ UNCHANGED <<alive, open, linkVars, ready>>

(* Variants: the cursor is read from the object after execute(), or the    *)
(* walk begins again.                                                      *)
ReturnLate ==
  /\ pc = "execute"
  /\ h' = next[h]
  /\ pc' = "dispatch"
  /\ UNCHANGED <<objVars, linkVars, h_next, ready, served>>

ReturnToFirst ==
  /\ pc = "execute"
  /\ h' = chain
  /\ pc' = "dispatch"
  /\ UNCHANGED <<objVars, linkVars, h_next, ready, served>>

Return ==
  /\ pc = "execute"
  /\ h' = h_next
  /\ pc' = "dispatch"
  /\ UNCHANGED <<objVars, linkVars, h_next, ready, served>>

RoundDone ==
  /\ pc = "dispatch" /\ h = Null
  /\ pc' = "idle"
  /\ ready' = {} /\ served' = {} /\ wants' = Forgotten
  /\ h_next' = Null
  /\ UNCHANGED <<alive, open, linkVars, h>>
-----------------------------------------------------------------------------
Client ==
  \E o \in Objects : Construct(o) \/ Add(o) \/ Remove(o) \/ Destroy(o) \/ Delete(o)

Loop == Select \/ SelectNothing \/ Dispatch \/ Return \/ RoundDone

Next == Client \/ WaitOn \/ Loop

Spec == Init /\ [][Next]_vars

(* pselect() has a timeout, and execute() returns. *)
FairSpec == Spec /\ WF_vars(Loop)
-----------------------------------------------------------------------------
(* The types of the links and cursors; only live objects are open or in    *)
(* the chain.                                                              *)
TypeOK ==
  /\ alive \subseteq Objects /\ open \subseteq alive /\ inChain \subseteq alive
  /\ {chain, h, h_next} \subseteq Objects \cup {Null}
  /\ prev \in [Objects -> Objects \cup {Null}]
  /\ next \in [Objects -> Objects \cup {Null}]
  /\ wants \in [Objects -> SUBSET Events]
  /\ pc \in {"idle", "select", "dispatch", "execute", "aborted"}
  /\ ready \subseteq Objects \X Events /\ served \subseteq Objects

(* pos numbers the objects that are in the chain in the order of their     *)
(* links: the first is 1, a successor is one more, the last has no next.   *)
InOrder(pos) ==
  /\ \A o, p \in inChain : pos[o] = pos[p] => o = p
  /\ IF chain = Null THEN inChain = {} ELSE chain \in inChain /\ pos[chain] = 1
  /\ \A o \in inChain :
       /\ IF next[o] = Null
            THEN pos[o] = Cardinality(inChain)
            ELSE next[o] \in inChain /\ prev[next[o]] = o /\ pos[next[o]] = pos[o] + 1
       /\ IF prev[o] = Null THEN o = chain ELSE prev[o] \in inChain /\ next[prev[o]] = o

(* The chain is a list of exactly the objects that are in it, all of them  *)
(* alive, linked in both directions, whoever joined or left it and when.   *)
ChainIsList ==
  \E pos \in [inChain -> 1 .. Cardinality(inChain)] : InOrder(pos)

(* "h->execute() is allowed to destroy/invalidate the h object": waitOn()  *)
(* never steps on an object that is deleted or no longer in the chain.     *)
CursorValid == pc = "dispatch" => h \in (inChain \cap alive) \cup {Null}

(* Every object pselect() reported is executed in that round, even if an   *)
(* earlier one left the chain or brought a new object into it.             *)
EveryReadyServed ==
  pc = "dispatch" /\ h = Null => served = {e[1] : e \in ready}

(* No object is executed twice for one answer of pselect(): its second     *)
(* read would wait for data that is not there.                             *)
ServedOnce ==
  [][pc = "dispatch" /\ pc' = "execute" => h \notin served]_vars

(* waitOn() comes back. *)
RoundEnds == pc \in {"select", "dispatch", "execute"} ~> pc \in {"idle", "aborted"}
=============================================================================
