------------------------------- MODULE UmlPlug -------------------------------
(***************************************************************************)
(* The life of a UmlNetworkSocketPlug: its constructor connects to the UML *)
(* socket of tinc (daemon_user_init() and connect_to_switch() of           *)
(* daemon_user.c, where every system call may fail), execute() receives    *)
(* datagrams, and destroy() (daemon_remove()) gives everything back.       *)
(*                                                                         *)
(* The plug shares the descriptor table of the process with others (the    *)
(* SLiRP stack): a number it has closed may be theirs a moment later.      *)
(* A field of privData holds a descriptor number or the name of a block of *)
(* memory, whether or not that is still valid; NONE stands for -1, NULL    *)
(* for a null pointer; GARBAGE and WILD are what a field holds as long as  *)
(* nothing was assigned to it.                                             *)
(***************************************************************************)
EXTENDS Integers, FiniteSets, FiniteSetsExt

CONSTANT Numbers     \* the descriptor numbers of the process

ASSUME NumbersAssumption == IsFiniteSet(Numbers) /\ Numbers \subseteq Nat

NONE    == -1
GARBAGE == -2
NULL    == "null"
WILD    == "wild"
Blocks  == {"ctl_addr", "local_addr", "data_addr"}

NoError == 0
Failure == 1                        \* any errno that a system call sets
Errnos  == {NoError, Failure, -107} \* execute() assigns -ENOTCONN

VARIABLES
  pc,        \* what the constructor does next, then "ready", "failed" or "destroyed"
  fd, control,                     \* privData: the two sockets
  addr,      \* privData: ctl_addr, local_addr and data_addr
  data, sun, \* locals of connect_to_switch(): the data socket, the answer's block
  table,     \* who has each descriptor number open
  blocks,    \* the blocks that are allocated
  errno, myErrno, xferFd,
  connected, \* history: the constructor succeeded
  harm       \* history: what was closed or freed that was not the plug's

priVars == <<fd, control, addr, data, sun>>
errVars == <<errno, myErrno>>
vars    == <<pc, priVars, table, blocks, errVars, xferFd, connected, harm>>

Init ==
  /\ pc = "ctl_addr"
  /\ fd = GARBAGE /\ control = GARBAGE
  /\ addr = [b \in Blocks |-> WILD]
  /\ data = NONE /\ sun = NULL
  /\ table = [n \in Numbers |-> "free"] /\ blocks = {}
  /\ errno \in {NoError, Failure}             \* an earlier call may have left one
  /\ myErrno = NoError /\ xferFd = NONE
  /\ connected = FALSE /\ harm = {}
-----------------------------------------------------------------------------
(* socket() takes the lowest number that is free. *)
FreeNumbers == {n \in Numbers : table[n] = "free"}
Opened(who) == [table EXCEPT ![Min(FreeNumbers)] = who]

(* close() of a set of numbers: whoever has one open loses it; a number    *)
(* that is not open, -1 among them, does no harm.  free() of a set of      *)
(* pointers: null is harmless, anything that is not allocated is not.      *)
Closed(ds) == [n \in Numbers |-> IF n \in ds THEN "free" ELSE table[n]]

GiveBack(ds, bs) ==
  /\ table' = Closed(ds)
  /\ blocks' = blocks \ bs
  /\ harm' = harm \cup {"close" : n \in {n \in ds \cap Numbers : table[n] = "other"}}
                  \cup {"free"  : b \in bs \ (blocks \cup {NULL})}

(* Other parts of the process open and close descriptors, too. *)
OtherOpens ==
  /\ pc \in {"ctl_addr", "ready", "failed", "destroyed"}
  /\ FreeNumbers # {}
  /\ table' = Opened("other")
  /\ UNCHANGED <<pc, priVars, blocks, errVars, xferFd, connected, harm>>

OtherCloses ==
  /\ pc \in {"ctl_addr", "ready", "failed", "destroyed"}
  /\ \E n \in Numbers : table[n] = "other" /\ table' = Closed({n})
  /\ UNCHANGED <<pc, priVars, blocks, errVars, xferFd, connected, harm>>
-----------------------------------------------------------------------------
(* daemon_user_init(): the addresses of the control and the data socket.   *)
(* A failed malloc() leaves a null pointer and is not looked at.           *)
NewAddr(b, then) ==
  /\ pc = b
  /\ \/ /\ blocks' = blocks \cup {b}
        /\ addr' = [addr EXCEPT ![b] = b]
        /\ UNCHANGED errno
     \/ /\ addr' = [addr EXCEPT ![b] = NULL]
        /\ errno' = Failure
        /\ UNCHANGED blocks
  /\ pc' = then
  /\ UNCHANGED <<fd, control, data, sun, table, myErrno, xferFd, connected, harm>>

NewCtlAddr   == NewAddr("ctl_addr", "local_addr")
NewLocalAddr == NewAddr("local_addr", "socket")

(* Variant: the label out_close forgets the data socket. *)
OutCloseForgets == {control}

(* What the labels out_close and out of connect_to_switch() close. *)
OutClose == {data, control}
Out      == {control}

(* An error path of connect_to_switch(), then the one of                   *)
(* daemon_user_init(), which frees local_addr, then the constructor, which *)
(* keeps errno.                                                            *)
Fails(step, e, closes, frees) ==
  /\ pc = step
  /\ GiveBack(closes, frees \cup {addr["local_addr"]})
  /\ fd' = NONE
  /\ addr' = [addr EXCEPT !["local_addr"] = NULL]
  /\ errno' = e /\ myErrno' = e
  /\ pc' = "failed"
  /\ UNCHANGED <<data, sun, xferFd, connected>>

Succeeds(step, then) ==
  /\ pc = step
  /\ pc' = then
  /\ UNCHANGED <<fd, addr, errVars, xferFd, connected, harm>>

(* connect_to_switch(), call by call. *)

ControlSocket ==
  /\ Succeeds("socket", "connect")
  /\ FreeNumbers # {}
  /\ control' = Min(FreeNumbers)
  /\ table' = Opened("plug")
  /\ UNCHANGED <<data, sun, blocks>>

ControlSocketFails == Fails("socket", Failure, {}, {}) /\ control' = NONE

(* connect() and bind() refuse a null address with EFAULT. *)
Connect ==
  /\ Succeeds("connect", "dataSocket")
  /\ addr["ctl_addr"] # NULL
  /\ UNCHANGED <<control, data, sun, table, blocks>>

ConnectFails == Fails("connect", Failure, Out, {}) /\ UNCHANGED control

DataSocket ==
  /\ Succeeds("dataSocket", "bind")
  /\ FreeNumbers # {}
  /\ data' = Min(FreeNumbers)
  /\ table' = Opened("plug")
  /\ UNCHANGED <<control, sun, blocks>>

DataSocketFails == Fails("dataSocket", Failure, Out, {}) /\ UNCHANGED control

Bind ==
  /\ Succeeds("bind", "malloc")
  /\ addr["local_addr"] # NULL
  /\ UNCHANGED <<control, data, sun, table, blocks>>

BindFails == Fails("bind", Failure, OutClose, {}) /\ UNCHANGED control

(* Variant: the result of malloc() is not looked at. *)
MallocUnchecked ==
  /\ Succeeds("malloc", "write")
  /\ \/ sun' = "data_addr" /\ blocks' = blocks \cup {"data_addr"}
     \/ sun' = NULL /\ UNCHANGED blocks
  /\ UNCHANGED <<control, data, table>>

Malloc ==
  /\ Succeeds("malloc", "write")
  /\ sun' = "data_addr"
  /\ blocks' = blocks \cup {"data_addr"}
  /\ UNCHANGED <<control, data, table>>

MallocFails == Fails("malloc", Failure, OutClose, {}) /\ UNCHANGED control

(* write() and read() of the handshake fail with an errno, or come back    *)
(* short: errno then is what it was before.                                *)
Write == Succeeds("write", "read") /\ UNCHANGED <<control, data, sun, table, blocks>>

HandshakeFails ==
  /\ \E step \in {"write", "read"}, e \in {Failure, errno} : Fails(step, e, OutClose, {sun})
  /\ UNCHANGED control

(* Variant: the answer's block is kept in the field of the local address. *)
ReadIntoLocal ==
  /\ pc = "read"
  /\ addr' = [addr EXCEPT !["local_addr"] = sun]
  /\ fd' = data
  /\ xferFd' = data
  /\ connected' = TRUE
  /\ pc' = "ready"
  /\ UNCHANGED <<control, data, sun, table, blocks, errVars, harm>>

Read ==
  /\ pc = "read"
  /\ addr' = [addr EXCEPT !["data_addr"] = sun]
  /\ fd' = data
  /\ xferFd' = data
  /\ connected' = TRUE
  /\ pc' = "ready"
  /\ UNCHANGED <<control, data, sun, table, blocks, errVars, harm>>
-----------------------------------------------------------------------------
(* execute(): net_recvfrom() sets errno = 0 before every try.  EAGAIN      *)
(* makes it return 0, and execute() assigns errno itself; a datagram of    *)
(* length 0 is an error with errno = 0; other errors keep their errno.     *)
ReceiveFails ==
  /\ pc = "ready"
  /\ \E e \in Errnos : errno' = e /\ myErrno' = e
  /\ UNCHANGED <<pc, priVars, table, blocks, xferFd, connected, harm>>

Receive ==
  /\ pc = "ready"
  /\ errno' = NoError
  /\ UNCHANGED <<pc, priVars, table, blocks, myErrno, xferFd, connected, harm>>

(* getPosixError() writes errno. *)
GetPosixError ==
  /\ pc \in {"ready", "failed", "destroyed"}
  /\ errno' = myErrno
  /\ UNCHANGED <<pc, priVars, table, blocks, myErrno, xferFd, connected, harm>>

(* Variant: daemon_remove() keeps the numbers it closed. *)
RemovedKeepsControl == control' = control /\ fd' = NONE

RemovedFds == control' = NONE /\ fd' = NONE

(* destroy(), called by the client and again by the destructor. *)
Destroy ==
  /\ pc \in {"ready", "failed", "destroyed"}
  /\ GiveBack({fd, control}, {addr[b] : b \in Blocks})
  /\ RemovedFds
  /\ addr' = [b \in Blocks |-> NULL]
  /\ xferFd' = fd'
  /\ pc' = "destroyed"
  /\ UNCHANGED <<data, sun, errVars, connected>>
-----------------------------------------------------------------------------
Construct ==
  \/ NewCtlAddr \/ NewLocalAddr
  \/ ControlSocket \/ ControlSocketFails \/ Connect \/ ConnectFails
  \/ DataSocket \/ DataSocketFails \/ Bind \/ BindFails
  \/ Malloc \/ MallocFails \/ Write \/ HandshakeFails \/ Read

Next == OtherOpens \/ OtherCloses \/ Construct \/ ReceiveFails \/ Receive \/ GetPosixError \/ Destroy

Spec == Init /\ [][Next]_vars
-----------------------------------------------------------------------------
(* The types; an address field never holds another field's block. *)
TypeOK ==
  /\ pc \in {"ctl_addr", "local_addr", "socket", "connect", "dataSocket", "bind",
             "malloc", "write", "read", "ready", "failed", "destroyed"}
  /\ {fd, control} \subseteq Numbers \cup {NONE, GARBAGE}
  /\ {data, xferFd} \subseteq Numbers \cup {NONE}
  /\ addr \in [Blocks -> Blocks \cup {WILD, NULL}]
  /\ \A b \in Blocks : addr[b] \in {WILD, NULL, b}
  /\ sun \in {NULL, "data_addr"}
  /\ table \in [Numbers -> {"free", "plug", "other"}]
  /\ blocks \subseteq Blocks /\ harm \subseteq {"close", "free"}
  /\ connected \in BOOLEAN
  /\ errno \in Errnos /\ myErrno \in Errnos

(* Whichever call fails, connect_to_switch() leaves no descriptor open,    *)
(* and no block but the control address, which destroy() frees.            *)
NoLeakOnFailure ==
  pc = "failed" => (\A n \in Numbers : table[n] # "plug") /\ blocks \subseteq {"ctl_addr"}

(* A failed malloc() of an address is not looked at, yet `*local_addr' is  *)
(* read only when the block is there: bind() has refused a null address.   *)
NoNullAddress == pc \in {"write", "read"} => {"local_addr", sun} \subseteq blocks

(* A plug that was connected can be destroyed any number of times: all is  *)
(* given back, and no descriptor that others opened under a number the     *)
(* plug once had is closed.                                                *)
CleanDestroy ==
  connected =>
    /\ harm = {}
    /\ pc = "destroyed" => (\A n \in Numbers : table[n] # "plug") /\ blocks = {}

(* destroy() after a failed connection: "the destruction of the connection *)
(* and all associated clean-up work".                                      *)
NoInvalidCleanup == harm = {}

(* "assert(not umlPlug.hasPosixError())": a plug without an error is       *)
(* connected.                                                              *)
ErrorOrConnected == pc = "failed" => myErrno # NoError
=============================================================================
