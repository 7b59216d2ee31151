----------------------------- MODULE PacketSocket -----------------------------
(***************************************************************************)
(* n_dhcp4_network_client_packet_socket_new() (n-dhcp4-network.c) against *)
(* a kernel that delivers IPv4 datagrams concurrently.  The function makes *)
(* four system calls -- socket(AF_PACKET, SOCK_DGRAM, 0), setsockopt(      *)
(* SO_ATTACH_FILTER), setsockopt(PACKET_AUXDATA), bind() -- and returns    *)
(* -errno at the first that fails.  Datagrams arrive between any two of   *)
(* them, so each call is a step of its own.  The caller (the client, whose *)
(* code is not part of this repository) starts the function for an        *)
(* ifindex and a transaction id, reads the sockets it was handed, and      *)
(* closes them.                                                            *)
(*                                                                         *)
(* Kernel side: an AF_PACKET socket receives datagrams of the protocol it  *)
(* is hooked to (none when created with protocol 0, ETH_P_IP once bound)   *)
(* from its bound interface (all interfaces while unbound), runs its       *)
(* filter if one is attached, and queues what passes while its receive     *)
(* buffer has room.  File descriptors are handed out lowest-free-first.    *)
(***************************************************************************)
EXTENDS BpfFilter, FiniteSets

CONSTANTS
  Ifindexes,   \* interface indexes a caller may bind to
  Xids,        \* transaction ids a caller may subscribe to
  Frames,      \* datagrams that may arrive on any interface
  FdSpace,     \* file descriptor numbers available to packet sockets
  MaxCalls,    \* bound on the number of calls of the function
  QueueCap,    \* receive buffer capacity, in datagrams
  NoFilter     \* marks a socket with no filter attached

ASSUME IfindexesAssumption == Ifindexes \subseteq Nat \ {0}
ASSUME XidsAssumption == Xids \subseteq Int32
ASSUME FramesAssumption == Frames \subseteq Datagram
ASSUME FdSpaceAssumption == IsFiniteSet(FdSpace) /\ FdSpace \subseteq Nat
ASSUME BoundsAssumption == MaxCalls \in Nat /\ QueueCap \in Nat
ASSUME NoFilterAssumption == NoFilter \notin Int32

ETH_P_IP == 2048
NoOwner == [ifindex |-> 0, xid |-> 0]   \* unused: ifindex 0 is never requested

VARIABLES
  sock,    \* kernel state of each descriptor
  rcvq,    \* receive queue of each descriptor: <<datagram, ifindex>> pairs
  call,    \* the running invocation of the function, if any
  owner,   \* the (ifindex, xid) a descriptor was returned for, or NoOwner
  ncalls   \* invocations started so far

vars == <<sock, rcvq, call, owner, ncalls>>

SockState == [open : BOOLEAN, proto : {0, ETH_P_IP}, filter : Xids \cup {NoFilter},
              auxdata : BOOLEAN, ifindex : Ifindexes \cup {0}]
ClosedSock == [open |-> FALSE, proto |-> 0, filter |-> NoFilter, auxdata |-> FALSE,
               ifindex |-> 0]
CallState == [pc : {"idle", "socket", "attach", "auxdata", "bind"},
              fd : FdSpace \cup {0}, ifindex : Ifindexes \cup {0}, xid : Xids \cup {0}]
Idle == [pc |-> "idle", fd |-> 0, ifindex |-> 0, xid |-> 0]

TypeOK ==
  /\ sock \in [FdSpace -> SockState]
  /\ rcvq \in [FdSpace -> Seq(Frames \X Ifindexes)]
  /\ \A fd \in FdSpace : Len(rcvq[fd]) <= QueueCap
  /\ call \in CallState
  /\ owner \in [FdSpace -> [ifindex : Ifindexes, xid : Xids] \cup {NoOwner}]
  /\ ncalls \in 0..MaxCalls

Init ==
  /\ sock = [fd \in FdSpace |-> ClosedSock]
  /\ rcvq = [fd \in FdSpace |-> << >>]
  /\ call = Idle
  /\ owner = [fd \in FdSpace |-> NoOwner]
  /\ ncalls = 0

-----------------------------------------------------------------------------
(* The caller invokes n_dhcp4_network_client_packet_socket_new(&fd, ifx, *)
(* xid).                                                                   *)
Call(ifx, xid) ==
  /\ call.pc = "idle"
  /\ ncalls < MaxCalls
  /\ call' = [pc |-> "socket", fd |-> 0, ifindex |-> ifx, xid |-> xid]
  /\ ncalls' = ncalls + 1
  /\ UNCHANGED <<sock, rcvq, owner>>

(* The error return of any of the four calls: -errno, *sockfdp untouched, *)
(* and whatever descriptor was opened stays open.                          *)
Fail ==
  /\ call' = Idle
  /\ UNCHANGED <<sock, rcvq, owner, ncalls>>

FreeFds == {fd \in FdSpace : ~sock[fd].open}
LowestFreeFd == CHOOSE fd \in FreeFds : \A g \in FreeFds : fd <= g

(* socket(AF_PACKET, SOCK_DGRAM, htons(ETH_P_IP)): hooked at once.        *)
SocketOpenEthPIp(fd) ==
  /\ sock' = [sock EXCEPT ![fd] = [ClosedSock EXCEPT !.open = TRUE, !.proto = ETH_P_IP]]
  /\ rcvq' = [rcvq EXCEPT ![fd] = << >>]
  /\ call' = [call EXCEPT !.pc = "attach", !.fd = fd]
  /\ UNCHANGED <<owner, ncalls>>

(* sockfd = socket(AF_PACKET, SOCK_DGRAM, 0): protocol 0 hooks the socket *)
(* to no protocol, so it receives nothing yet.  Fails with EMFILE when no  *)
(* descriptor is free, and may fail for other reasons (EPERM, ENOMEM).    *)
SocketOpen(fd) ==
  /\ sock' = [sock EXCEPT ![fd] = [ClosedSock EXCEPT !.open = TRUE]]
  /\ rcvq' = [rcvq EXCEPT ![fd] = << >>]
  /\ call' = [call EXCEPT !.pc = "attach", !.fd = fd]
  /\ UNCHANGED <<owner, ncalls>>

Socket ==
  /\ call.pc = "socket"
  /\ \/ FreeFds # {} /\ SocketOpen(LowestFreeFd)
     \/ Fail

(* setsockopt(sockfd, SOL_SOCKET, SO_ATTACH_FILTER, &fprog): the filter   *)
(* for call.xid.                                                           *)
AttachFilter ==
  /\ call.pc = "attach"
  /\ \/ /\ sock' = [sock EXCEPT ![call.fd].filter = call.xid]
        /\ call' = [call EXCEPT !.pc = "auxdata"]
        /\ UNCHANGED <<rcvq, owner, ncalls>>
     \/ Fail

(* setsockopt(sockfd, SOL_PACKET, PACKET_AUXDATA, &on).                    *)
AuxData ==
  /\ call.pc = "auxdata"
  /\ \/ /\ sock' = [sock EXCEPT ![call.fd].auxdata = TRUE]
        /\ call' = [call EXCEPT !.pc = "bind"]
        /\ UNCHANGED <<rcvq, owner, ncalls>>
     \/ Fail

(* bind() with an address lacking .sll_ifindex: hooked on every interface. *)
BindAnyIfindex ==
  /\ call.pc = "bind"
  /\ \/ /\ sock' = [sock EXCEPT ![call.fd].proto = ETH_P_IP, ![call.fd].ifindex = 0]
        /\ owner' = [owner EXCEPT ![call.fd] = [ifindex |-> call.ifindex, xid |-> call.xid]]
        /\ call' = Idle
        /\ UNCHANGED <<rcvq, ncalls>>
     \/ Fail

(* bind(sockfd, {AF_PACKET, htons(ETH_P_IP), ifindex}): hooks the socket  *)
(* to IPv4 on that interface; on success *sockfdp = sockfd, return 0.     *)
(* Fails with ENODEV when the interface has gone.                          *)
Bind ==
  /\ call.pc = "bind"
  /\ \/ /\ sock' = [sock EXCEPT ![call.fd].proto = ETH_P_IP,
                                ![call.fd].ifindex = call.ifindex]
        /\ owner' = [owner EXCEPT ![call.fd] = [ifindex |-> call.ifindex, xid |-> call.xid]]
        /\ call' = Idle
        /\ UNCHANGED <<rcvq, ncalls>>
     \/ Fail

-----------------------------------------------------------------------------
(* Kernel: datagram d arrives on interface ifx and is cloned to every     *)
(* socket hooked to IPv4 there whose filter passes it and whose receive    *)
(* buffer has room.                                                        *)
Hears(fd, ifx) ==
  /\ sock[fd].proto = ETH_P_IP
  /\ sock[fd].ifindex \in {0, ifx}
Keeps(fd, d) ==
  sock[fd].filter = NoFilter \/ Passes(Program(sock[fd].filter), d)

Arrive(d, ifx) ==
  /\ rcvq' = [fd \in FdSpace |->
                IF Hears(fd, ifx) /\ Keeps(fd, d) /\ Len(rcvq[fd]) < QueueCap
                THEN Append(rcvq[fd], <<d, ifx>>) ELSE rcvq[fd]]
  /\ UNCHANGED <<sock, call, owner, ncalls>>

(* The caller reads the oldest queued datagram of a socket it owns.       *)
Recv(fd) ==
  /\ owner[fd] # NoOwner
  /\ rcvq[fd] # << >>
  /\ rcvq' = [rcvq EXCEPT ![fd] = Tail(@)]
  /\ UNCHANGED <<sock, call, owner, ncalls>>

(* The caller closes a socket it owns (a new xid, or the end of a probe). *)
Close(fd) ==
  /\ owner[fd] # NoOwner
  /\ sock' = [sock EXCEPT ![fd] = ClosedSock]
  /\ rcvq' = [rcvq EXCEPT ![fd] = << >>]
  /\ owner' = [owner EXCEPT ![fd] = NoOwner]
  /\ UNCHANGED <<call, ncalls>>

Next ==
  \/ \E ifx \in Ifindexes, xid \in Xids : Call(ifx, xid)
  \/ Socket
  \/ AttachFilter
  \/ AuxData
  \/ Bind
  \/ \E d \in Frames, ifx \in Ifindexes : Arrive(d, ifx)
  \/ \E fd \in FdSpace : Recv(fd)
  \/ \E fd \in FdSpace : Close(fd)

Spec == Init /\ [][Next]_vars

-----------------------------------------------------------------------------
(* Every datagram queued on a socket the function returned for (ifindex,  *)
(* xid) arrived on that interface and passes the filter for that xid --    *)
(* including datagrams that arrived while the function was still between   *)
(* its system calls.  This rests on the order of the calls: protocol 0 at  *)
(* socket() keeps the socket deaf until bind(), and the filter is attached *)
(* before bind().                                                          *)
QueuedFramesMatch ==
  \A fd \in FdSpace : owner[fd] # NoOwner =>
    \A i \in 1..Len(rcvq[fd]) :
      /\ rcvq[fd][i][2] = owner[fd].ifindex
      /\ Passes(Program(owner[fd].xid), rcvq[fd][i][1])

(* A descriptor the function opened is either handed to the caller or     *)
(* still being set up: no error path leaves one open behind (each would   *)
(* hold a slot of the descriptor table until the process exits).          *)
NoLeakedSocket ==
  \A fd \in FdSpace : sock[fd].open =>
    owner[fd] # NoOwner \/ (call.pc # "idle" /\ call.fd = fd)
(* A descriptor left open by a failed invocation -- socket() succeeded,  *)
(* then setsockopt() or bind() returned -errno and nobody closes it --     *)
(* never takes a datagram: it stays hooked to no protocol, so it neither  *)
(* fills its receive buffer nor costs the kernel a clone per arrival.     *)
(* This rests on socket() being called with protocol 0, not ETH_P_IP.     *)
LeakedSocketsDeaf ==
  \A fd \in FdSpace :
    sock[fd].open /\ owner[fd] = NoOwner => sock[fd].proto = 0 /\ rcvq[fd] = << >>

(* What the caller sees of a descriptor: its queue once it was handed     *)
(* back, nothing before.                                                    *)
SubscribedQueue == [fd \in FdSpace |-> IF owner[fd] # NoOwner THEN rcvq[fd] ELSE << >>]

Sub == INSTANCE PacketSubscription
         WITH Fds <- FdSpace, Accepts <- LAMBDA x, d : Passes(Program(x), d),
              subscriber <- owner, queue <- SubscribedQueue

(* The four-call set-up, with datagrams arriving between the calls,       *)
(* implements the atomic subscription of spec 4.2: a socket is handed back *)
(* with nothing queued, then receives exactly the datagrams of its         *)
(* interface that its xid's filter accepts, in arrival order.              *)
Subscribes == Sub!Spec
-----------------------------------------------------------------------------
(* The inductive strengthening of QueuedFramesMatch, as its named parts.  *)

(* A socket hooked to no protocol has received nothing.                   *)
DeafUntilBound == \A fd \in FdSpace : sock[fd].proto = 0 => rcvq[fd] = << >>

(* A socket hooked to IPv4 is open, filtered and bound to one interface.  *)
HookedIsSetUp ==
  \A fd \in FdSpace : sock[fd].proto = ETH_P_IP =>
    sock[fd].open /\ sock[fd].filter \in Xids /\ sock[fd].ifindex \in Ifindexes

(* A returned socket is hooked, with the filter and interface asked for.  *)
OwnedIsHooked ==
  \A fd \in FdSpace : owner[fd] # NoOwner =>
    /\ sock[fd].proto = ETH_P_IP
    /\ sock[fd].filter = owner[fd].xid
    /\ sock[fd].ifindex = owner[fd].ifindex

(* The socket a running call sets up is open, not hooked and not yet     *)
(* returned, and carries the call's filter once attached.                 *)
CallSetsUp ==
  /\ call.pc # "idle" => call.ifindex \in Ifindexes /\ call.xid \in Xids
  /\ call.pc \in {"attach", "auxdata", "bind"} =>
       /\ call.fd \in FdSpace
       /\ sock[call.fd].open
       /\ sock[call.fd].proto = 0
       /\ owner[call.fd] = NoOwner
       /\ call.pc # "attach" => sock[call.fd].filter = call.xid

(* What a hooked socket queued came from its interface through its filter. *)
QueuedPassFilter ==
  \A fd \in FdSpace : sock[fd].proto = ETH_P_IP =>
    \A i \in 1..Len(rcvq[fd]) :
      /\ rcvq[fd][i][2] = sock[fd].ifindex
      /\ Passes(Program(sock[fd].filter), rcvq[fd][i][1])

(* The strengthening of LeakedSocketsDeaf: only a returned socket is     *)
(* hooked to IPv4.                                                          *)
HookedIsOwned ==
  \A fd \in FdSpace : sock[fd].proto = ETH_P_IP => owner[fd] # NoOwner

IInv ==
  /\ TypeOK
  /\ DeafUntilBound
  /\ HookedIsSetUp
  /\ OwnedIsHooked
  /\ CallSetsUp
  /\ QueuedPassFilter
=============================================================================
