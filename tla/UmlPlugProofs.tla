---------------------------- MODULE UmlPlugProofs ----------------------------
(***************************************************************************)
(* The safety of UmlPlug for every set of descriptor numbers.  What the    *)
(* error paths and destroy() give back is right because, at every step of  *)
(* the constructor, the fields and the locals name exactly what the plug   *)
(* has open and allocated: IInv says so step by step.                      *)
(***************************************************************************)
EXTENDS UmlPlug, WellFoundedInduction, TLAPS

Owned     == {n \in Numbers : table[n] = "plug"}
Addressed == {b \in Blocks : addr[b] = b}

(* The sockets that are open, by how far the constructor has come. *)
SocketsInv ==
  /\ pc \in {"ctl_addr", "local_addr", "socket", "failed", "destroyed"} => Owned = {}
  /\ pc \in {"connect", "dataSocket"} => Owned = {control}
  /\ pc \in {"bind", "malloc", "write", "read"} => Owned = {control, data}
  /\ pc = "ready" => Owned = {control, fd}
  /\ pc = "destroyed" => fd = NONE /\ control = NONE

(* The blocks that are allocated, and the fields that have been assigned.  *)
(* The answer's block belongs to no field until read() has succeeded.      *)
BlocksInv ==
  /\ blocks = Addressed \cup (IF pc \in {"write", "read"} THEN {"data_addr"} ELSE {})
  /\ pc \in {"write", "read"} => sun = "data_addr"
  /\ addr["ctl_addr"] = WILD <=> pc = "ctl_addr"
  /\ addr["local_addr"] = WILD <=> pc \in {"ctl_addr", "local_addr"}
  /\ addr["data_addr"] = WILD <=> pc \notin {"ready", "destroyed"}
  /\ pc \in {"malloc", "write", "read", "ready"} => addr["local_addr"] = "local_addr"
  /\ pc = "failed" => addr["local_addr"] = NULL
  /\ pc = "destroyed" => \A b \in Blocks : addr[b] = NULL

HarmInv ==
  /\ pc # "destroyed" => harm = {}
  /\ pc = "ready" => connected
  /\ connected => pc \in {"ready", "destroyed"} /\ harm = {}

IInv == TypeOK /\ SocketsInv /\ BlocksInv /\ HarmInv
-----------------------------------------------------------------------------
(* socket() finds a number when one is free. *)
LEMMA LowestFree ==
  ASSUME FreeNumbers # {}
  PROVE  Min(FreeNumbers) \in FreeNumbers
<1>1. FreeNumbers \subseteq Nat
  BY NumbersAssumption DEF FreeNumbers
<1> DEFINE Less == {ss \in Nat \X Nat : ss[1] < ss[2]}
<1>2. IsWellFoundedOn(Less, Nat)
  BY NatLessThanWellFounded DEF OpToRel
<1>3. PICK x \in FreeNumbers : \A y \in FreeNumbers : ~(<<y, x>> \in Less)
  <2> HIDE DEF Less
  <2> QED BY <1>1, <1>2, WFMin
<1>4. ASSUME NEW y \in FreeNumbers, y < x PROVE <<y, x>> \in Less
  BY <1>1, <1>4
<1>5. \A y \in FreeNumbers : x =< y
  <2> HIDE DEF Less
  <2>1. \A y \in FreeNumbers : ~(y < x)
    BY <1>3, <1>4
  <2>2. FreeNumbers \subseteq Int
    BY <1>1
  <2> QED BY <2>1, <2>2
<1> QED BY <1>5 DEF Min

(* What socket() does to the numbers the plug has. *)
LEMMA OpenStep ==
  ASSUME TypeOK, FreeNumbers # {}, NEW who \in {"plug", "other"}, table' = Opened(who)
  PROVE  /\ Min(FreeNumbers) \in Numbers
         /\ table' \in [Numbers -> {"free", "plug", "other"}]
         /\ who = "plug" => Owned' = Owned \cup {Min(FreeNumbers)}
         /\ who = "other" => Owned' = Owned
<1>1. Min(FreeNumbers) \in FreeNumbers
  BY LowestFree
<1>2. DEFINE m == Min(FreeNumbers)
<1>3. m \in Numbers /\ table[m] = "free"
  BY <1>1 DEF FreeNumbers
<1>4. \A n \in Numbers : table'[n] = IF n = m THEN who ELSE table[n]
  BY <1>3 DEF Opened, TypeOK
<1>5. table' \in [Numbers -> {"free", "plug", "other"}]
  BY <1>3 DEF Opened, TypeOK
<1> HIDE DEF m
<1>6. /\ who = "plug" => Owned' = Owned \cup {m}
      /\ who = "other" => Owned' = Owned
  BY <1>3, <1>4 DEF Owned
<1> QED BY <1>3, <1>5, <1>6 DEF m

(* What close() and free() do: no harm to others as long as the numbers    *)
(* are the plug's own, or none, and the blocks are allocated, or null.     *)
LEMMA GiveBackStep ==
  ASSUME TypeOK, NEW ds, NEW bs, GiveBack(ds, bs)
  PROVE  /\ table' \in [Numbers -> {"free", "plug", "other"}]
         /\ Owned' = Owned \ ds
         /\ blocks' = blocks \ bs
         /\ harm' \subseteq {"close", "free"}
         /\ ds \cap Numbers \subseteq Owned /\ bs \subseteq blocks \cup {NULL} => harm' = harm
<1>1. \A n \in Numbers : table'[n] = IF n \in ds THEN "free" ELSE table[n]
  BY DEF GiveBack, Closed
<1>2. table' \in [Numbers -> {"free", "plug", "other"}]
  BY DEF GiveBack, Closed, TypeOK
<1>3. Owned' = Owned \ ds
  BY <1>1 DEF Owned
<1>4. ds \cap Numbers \subseteq Owned => {n \in ds \cap Numbers : table[n] = "other"} = {}
  BY DEF Owned
<1>5. bs \subseteq blocks \cup {NULL} => bs \ (blocks \cup {NULL}) = {}
  OBVIOUS
<1>6. harm' = harm \cup {"close" : n \in {n \in ds \cap Numbers : table[n] = "other"}}
                   \cup {"free"  : b \in bs \ (blocks \cup {NULL})}
  BY DEF GiveBack
<1>7. harm' \subseteq {"close", "free"}
  BY <1>6 DEF TypeOK
<1>8. ds \cap Numbers \subseteq Owned /\ bs \subseteq blocks \cup {NULL} => harm' = harm
  BY <1>4, <1>5, <1>6
<1> QED BY <1>2, <1>3, <1>7, <1>8 DEF GiveBack

(* An error path that closes what is open and frees what is allocated      *)
(* beside the control address leads to a failed plug that owns nothing.    *)
LEMMA FailsStep ==
  ASSUME IInv, NEW step, NEW e \in Errnos, NEW closes, NEW frees,
         Fails(step, e, closes, frees),
         step \notin {"ctl_addr", "local_addr", "ready", "failed", "destroyed"},
         Owned \subseteq closes, closes \cap Numbers \subseteq Owned,
         frees = IF step \in {"write", "read"} THEN {sun} ELSE {},
         control' \in Numbers \cup {NONE, GARBAGE}
  PROVE  IInv'
<1> DEFINE bs == frees \cup {addr["local_addr"]}
<1>1. /\ pc = step /\ pc' = "failed"
      /\ GiveBack(closes, bs)
      /\ fd' = NONE /\ errno' = e /\ myErrno' = e
      /\ addr' = [addr EXCEPT !["local_addr"] = NULL]
      /\ UNCHANGED <<data, sun, xferFd, connected>>
  BY DEF Fails
<1>2. bs \subseteq blocks \cup {NULL}
  BY <1>1 DEF IInv, TypeOK, BlocksInv, Addressed, Blocks, WILD, NULL
<1> HIDE DEF bs
<1>3. /\ table' \in [Numbers -> {"free", "plug", "other"}]
      /\ Owned' = {}
      /\ blocks' = blocks \ bs
      /\ harm' = harm
  BY <1>1, <1>2, GiveBackStep DEF IInv, Owned
<1>4. blocks' = Addressed'
  BY <1>1, <1>3 DEF bs, IInv, TypeOK, BlocksInv, Addressed, Blocks, WILD, NULL
<1>5. TypeOK'
  BY <1>1, <1>3 DEF IInv, TypeOK, HarmInv, Blocks, NULL, WILD
<1>6. SocketsInv'
  BY <1>1, <1>3 DEF SocketsInv
<1>7. BlocksInv'
  BY <1>1, <1>4 DEF IInv, TypeOK, BlocksInv, Blocks, NULL, WILD
<1>8. HarmInv'
  BY <1>1, <1>3 DEF IInv, HarmInv
<1> QED BY <1>5, <1>6, <1>7, <1>8 DEF IInv

(* A step that leaves the address fields and the blocks alone, or moves    *)
(* between two steps of the constructor for which BlocksInv says the same. *)
LEMMA SameBlocks ==
  ASSUME IInv, addr' = addr, blocks' = blocks, sun' = sun,
         \/ pc' = pc
         \/ pc \in {"socket", "connect", "dataSocket"} /\ pc' \in {"connect", "dataSocket", "bind"}
         \/ pc = "bind" /\ pc' = "malloc" /\ addr["local_addr"] # NULL
         \/ pc = "write" /\ pc' = "read"
  PROVE  BlocksInv'
<1>1. Addressed' = Addressed
  BY DEF Addressed
<1> QED BY <1>1 DEF IInv, TypeOK, BlocksInv, Blocks

(* IInv holds after the step of every action. *)
LEMMA Inductive ==
  ASSUME IInv, [Next]_vars
  PROVE  IInv'
<1> USE DEF vars, priVars, errVars
<1>1. CASE UNCHANGED vars
  BY <1>1 DEF IInv, TypeOK, SocketsInv, BlocksInv, HarmInv, Owned, Addressed
<1>2. CASE OtherOpens
  <2>1. Owned' = Owned /\ table' \in [Numbers -> {"free", "plug", "other"}]
    BY <1>2, OpenStep DEF OtherOpens, IInv
  <2>2. BlocksInv'
    BY <1>2, SameBlocks DEF OtherOpens
  <2> QED BY <1>2, <2>1, <2>2 DEF OtherOpens, IInv, TypeOK, SocketsInv, HarmInv
<1>3. CASE OtherCloses
  <2>1. PICK n \in Numbers : table[n] = "other" /\ table' = Closed({n})
    BY <1>3 DEF OtherCloses
  <2>2. Owned' = Owned /\ table' \in [Numbers -> {"free", "plug", "other"}]
    BY <2>1 DEF Owned, Closed, IInv, TypeOK
  <2>3. BlocksInv'
    BY <1>3, SameBlocks DEF OtherCloses
  <2> QED BY <1>3, <2>2, <2>3 DEF OtherCloses, IInv, TypeOK, SocketsInv, HarmInv
<1>4. ASSUME NEW b \in {"ctl_addr", "local_addr"}, NEW then,
             <<b, then>> \in {<<"ctl_addr", "local_addr">>, <<"local_addr", "socket">>},
             NewAddr(b, then)
      PROVE  IInv'
  <2>1. /\ pc = b /\ pc' = then
        /\ UNCHANGED <<fd, control, data, sun, table, myErrno, xferFd, connected, harm>>
        /\ errno' \in {errno, Failure}
    BY <1>4 DEF NewAddr
  <2>2. \/ blocks' = blocks \cup {b} /\ addr' = [addr EXCEPT ![b] = b]
        \/ blocks' = blocks /\ addr' = [addr EXCEPT ![b] = NULL]
    BY <1>4 DEF NewAddr
  <2>3. Owned' = Owned
    BY <2>1 DEF Owned
  <2>4. blocks' = Addressed'
    BY <1>4, <2>1, <2>2 DEF IInv, TypeOK, BlocksInv, Addressed, Blocks, WILD, NULL
  <2>5. TypeOK'
    <3>1. /\ addr' \in [Blocks -> Blocks \cup {WILD, NULL}]
          /\ \A c \in Blocks : addr'[c] \in {WILD, NULL, c}
          /\ blocks' \subseteq Blocks
      <4>1. b \in Blocks
        BY <1>4 DEF Blocks
      <4> QED BY <2>2, <4>1 DEF IInv, TypeOK
    <3>2. errno' \in Errnos
      BY <2>1 DEF IInv, TypeOK, Errnos
    <3> QED BY <1>4, <2>1, <3>1, <3>2 DEF IInv, TypeOK
  <2>6. BlocksInv'
    BY <1>4, <2>1, <2>2, <2>4 DEF IInv, TypeOK, BlocksInv, Blocks, WILD, NULL
  <2> QED BY <1>4, <2>1, <2>3, <2>5, <2>6 DEF IInv, SocketsInv, HarmInv
<1>5. CASE NewCtlAddr \/ NewLocalAddr
  BY <1>4, <1>5 DEF NewCtlAddr, NewLocalAddr
<1>6. CASE ControlSocket
  <2>1. /\ control' \in Numbers /\ Owned' = Owned \cup {control'}
        /\ table' \in [Numbers -> {"free", "plug", "other"}]
    BY <1>6, OpenStep DEF ControlSocket, IInv
  <2>2. BlocksInv'
    BY <1>6, SameBlocks DEF ControlSocket, Succeeds
  <2> QED BY <1>6, <2>1, <2>2 DEF ControlSocket, Succeeds, IInv, TypeOK, SocketsInv, HarmInv
<1>7. CASE DataSocket
  <2>1. /\ data' \in Numbers /\ Owned' = Owned \cup {data'}
        /\ table' \in [Numbers -> {"free", "plug", "other"}]
    BY <1>7, OpenStep DEF DataSocket, IInv
  <2>2. BlocksInv'
    BY <1>7, SameBlocks DEF DataSocket, Succeeds
  <2> QED BY <1>7, <2>1, <2>2 DEF DataSocket, Succeeds, IInv, TypeOK, SocketsInv, HarmInv
<1>8. CASE Connect \/ Bind \/ Write
  <2>1. Owned' = Owned
    BY <1>8 DEF Connect, Bind, Write, Owned
  <2>2. BlocksInv'
    BY <1>8, SameBlocks DEF Connect, Bind, Write, Succeeds
  <2>3. TypeOK'
    BY <1>8 DEF Connect, Bind, Write, Succeeds, IInv, TypeOK
  <2>4. SocketsInv'
    BY <1>8, <2>1 DEF Connect, Bind, Write, Succeeds, IInv, SocketsInv
  <2>5. HarmInv'
    BY <1>8 DEF Connect, Bind, Write, Succeeds, IInv, HarmInv
  <2> QED BY <2>2, <2>3, <2>4, <2>5 DEF IInv
<1>9. CASE Malloc
  <2>1. Owned' = Owned /\ Addressed' = Addressed
    BY <1>9 DEF Malloc, Succeeds, Owned, Addressed
  <2>2. BlocksInv'
    BY <1>9, <2>1 DEF Malloc, Succeeds, IInv, BlocksInv
  <2> QED BY <1>9, <2>1, <2>2
          DEF Malloc, Succeeds, IInv, TypeOK, SocketsInv, HarmInv, Blocks
<1>10. Failure \in Errnos /\ errno \in Errnos /\ NONE \notin Numbers
  BY NumbersAssumption DEF IInv, TypeOK, Errnos, NONE
<1>11. CASE ControlSocketFails
  <2>1. Owned = {}
    BY <1>11 DEF ControlSocketFails, Fails, IInv, SocketsInv
  <2> QED BY <1>10, <1>11, <2>1, FailsStep DEF ControlSocketFails
<1>12. CASE ConnectFails \/ DataSocketFails
  <2>1. Owned = {control}
    BY <1>12 DEF ConnectFails, DataSocketFails, Fails, IInv, SocketsInv
  <2>2. control' \in Numbers \cup {NONE, GARBAGE}
    BY <1>12 DEF ConnectFails, DataSocketFails, IInv, TypeOK
  <2> QED BY <1>10, <1>12, <2>1, <2>2, FailsStep DEF ConnectFails, DataSocketFails, Out
<1>13. CASE BindFails \/ MallocFails
  <2>1. Owned = {control, data}
    BY <1>13 DEF BindFails, MallocFails, Fails, IInv, SocketsInv
  <2>2. control' \in Numbers \cup {NONE, GARBAGE}
    BY <1>13 DEF BindFails, MallocFails, IInv, TypeOK
  <2> QED BY <1>10, <1>13, <2>1, <2>2, FailsStep DEF BindFails, MallocFails, OutClose
<1>14. CASE HandshakeFails
  <2>1. PICK step \in {"write", "read"}, e \in {Failure, errno} : Fails(step, e, OutClose, {sun})
    BY <1>14 DEF HandshakeFails
  <2>2. Owned = {control, data}
    BY <2>1 DEF Fails, IInv, SocketsInv
  <2>3. control' \in Numbers \cup {NONE, GARBAGE}
    BY <1>14 DEF HandshakeFails, IInv, TypeOK
  <2> QED BY <1>10, <2>1, <2>2, <2>3, FailsStep DEF OutClose
<1>15. CASE Read
  <2>1. Owned' = Owned
    BY <1>15 DEF Read, Owned
  <2>2. Addressed' = Addressed \cup {"data_addr"} /\ blocks' = Addressed'
    BY <1>15 DEF Read, IInv, TypeOK, BlocksInv, Addressed, Blocks, WILD
  <2>3. TypeOK'
    BY <1>15 DEF Read, IInv, TypeOK, BlocksInv, Blocks, WILD, NULL
  <2>4. BlocksInv'
    BY <1>15, <2>2 DEF Read, IInv, TypeOK, BlocksInv, Blocks, WILD, NULL
  <2>5. SocketsInv'
    BY <1>15, <2>1 DEF Read, IInv, SocketsInv
  <2>6. HarmInv'
    BY <1>15 DEF Read, IInv, HarmInv
  <2> QED BY <2>3, <2>4, <2>5, <2>6 DEF IInv
<1>16. CASE ReceiveFails \/ Receive \/ GetPosixError
  <2>1. Owned' = Owned
    BY <1>16 DEF ReceiveFails, Receive, GetPosixError, Owned
  <2>2. BlocksInv'
    BY <1>16, SameBlocks DEF ReceiveFails, Receive, GetPosixError
  <2>3. TypeOK'
    BY <1>16 DEF ReceiveFails, Receive, GetPosixError, IInv, TypeOK, Errnos, NoError
  <2> QED BY <1>16, <2>1, <2>2, <2>3
          DEF ReceiveFails, Receive, GetPosixError, IInv, SocketsInv, HarmInv
<1>17. CASE Destroy
  <2> DEFINE bs == {addr[b] : b \in Blocks}
  <2>1. /\ GiveBack({fd, control}, bs)
        /\ pc \in {"ready", "failed", "destroyed"} /\ pc' = "destroyed"
        /\ control' = NONE /\ fd' = NONE /\ xferFd' = NONE
        /\ addr' = [b \in Blocks |-> NULL]
        /\ UNCHANGED <<data, sun, errVars, connected>>
    BY <1>17 DEF Destroy, RemovedFds
  <2>2. blocks \subseteq bs
    BY <2>1 DEF IInv, BlocksInv, Addressed
  <2>3. connected => {fd, control} \cap Numbers \subseteq Owned /\ bs \subseteq blocks \cup {NULL}
    <3>1. SUFFICES ASSUME connected
                   PROVE  {fd, control} \cap Numbers \subseteq Owned /\ bs \subseteq blocks \cup {NULL}
      OBVIOUS
    <3>2. CASE pc = "ready"
      BY <3>2 DEF IInv, TypeOK, SocketsInv, BlocksInv, Addressed, Blocks, WILD, NULL
    <3>3. CASE pc = "destroyed"
      BY <1>10, <3>3 DEF IInv, SocketsInv, BlocksInv, Blocks, NULL
    <3> QED BY <3>1, <3>2, <3>3 DEF IInv, HarmInv
  <2> HIDE DEF bs
  <2>4. /\ table' \in [Numbers -> {"free", "plug", "other"}]
        /\ Owned' = Owned \ {fd, control}
        /\ blocks' = {}
        /\ harm' \subseteq {"close", "free"}
        /\ connected => harm' = harm
    BY <2>1, <2>2, <2>3, GiveBackStep DEF IInv
  <2>5. Owned' = {} /\ Addressed' = {}
    BY <2>1, <2>4 DEF IInv, SocketsInv, Addressed, Blocks, NULL
  <2>6. TypeOK'
    BY <2>1, <2>4 DEF IInv, TypeOK, Blocks, NULL
  <2>7. BlocksInv'
    BY <2>1, <2>4, <2>5 DEF BlocksInv, Blocks, NULL, WILD
  <2>8. SocketsInv'
    BY <2>1, <2>5 DEF SocketsInv
  <2>9. HarmInv'
    BY <2>1, <2>4 DEF IInv, HarmInv
  <2> QED BY <2>6, <2>7, <2>8, <2>9 DEF IInv
<1> QED BY <1>1, <1>2, <1>3, <1>5, <1>6, <1>7, <1>8, <1>9, <1>11, <1>12, <1>13, <1>14,
           <1>15, <1>16, <1>17 DEF Next, Construct
-----------------------------------------------------------------------------
(* Before the constructor. *)
LEMMA Initial == Init => IInv
<1> SUFFICES ASSUME Init PROVE IInv
  OBVIOUS
<1>1. Owned = {} /\ Addressed = {}
  BY DEF Init, Owned, Addressed, Blocks, WILD
<1>2. TypeOK
  BY DEF Init, TypeOK, Blocks, WILD, NULL, NONE, GARBAGE, Errnos, NoError, Failure
<1> QED BY <1>1, <1>2 DEF Init, IInv, SocketsInv, BlocksInv, HarmInv, Blocks

(* The invariant holds in every state of the life of a plug. *)
LEMMA IInvAlways == Spec => []IInv
<1>1. IInv /\ [Next]_vars => IInv'
  BY Inductive
<1> QED BY Initial, <1>1, PTL DEF Spec

(* The fields keep their types whichever calls fail: a descriptor field    *)
(* holds a number, -1 or garbage, an address field its own block or none.  *)
THEOREM TypeCorrect == Spec => []TypeOK
<1>1. IInv => TypeOK
  BY DEF IInv
<1> QED BY <1>1, IInvAlways, PTL

(* Whichever call of connect_to_switch() fails, its error path closes and  *)
(* frees all that the calls before it had opened and allocated.            *)
THEOREM FailureLeaksNothing == Spec => []NoLeakOnFailure
<1>1. IInv => NoLeakOnFailure
  BY DEF IInv, SocketsInv, BlocksInv, Owned, Addressed, Blocks, NULL, WILD, NoLeakOnFailure
<1> QED BY <1>1, IInvAlways, PTL

(* `*local_addr' and `*sun' are read only when both blocks are there. *)
THEOREM AddressesThere == Spec => []NoNullAddress
<1>1. IInv => NoNullAddress
  BY DEF IInv, BlocksInv, Addressed, Blocks, NoNullAddress
<1> QED BY <1>1, IInvAlways, PTL

(* destroy() of a plug that was connected, any number of times, gives all  *)
(* back and touches nothing of the others, whatever numbers they reuse.    *)
THEOREM DestroyIsClean == Spec => []CleanDestroy
<1>1. IInv => CleanDestroy
  BY DEF IInv, SocketsInv, BlocksInv, HarmInv, Owned, Addressed, Blocks, NULL, CleanDestroy
<1> QED BY <1>1, IInvAlways, PTL
=============================================================================
