-------------------------- MODULE PacketSocketProofs --------------------------
(***************************************************************************)
(* Proofs about PacketSocket for every value of the constants: the         *)
(* strengthening IInv is inductive, hence the type invariant and           *)
(* QueuedFramesMatch hold in every reachable state.  The filter verdict    *)
(* (Passes) stays opaque: the argument is about the order of the system   *)
(* calls, not about what the program computes.                             *)
(***************************************************************************)
EXTENDS PacketSocket, WellFoundedInduction, TLAPS

(* socket() can hand out the lowest free descriptor whenever one is free: *)
(* a non-empty set of naturals has a least element.                        *)
LEMMA LowestFreeFdIsFree ==
  ASSUME FreeFds # {}
  PROVE  /\ LowestFreeFd \in FdSpace
         /\ ~sock[LowestFreeFd].open
<1>1. FreeFds \subseteq Nat
  BY FdSpaceAssumption DEF FreeFds
<1>2. \E x \in FreeFds : \A y \in FreeFds : ~(<<y, x>> \in OpToRel(<, Nat))
  BY <1>1, NatLessThanWellFounded, WFMin
<1>3. \E x \in FreeFds : \A y \in FreeFds : x <= y
  <2>1. PICK x \in FreeFds : \A y \in FreeFds : ~(<<y, x>> \in OpToRel(<, Nat))
    BY <1>2
  <2>2. ASSUME NEW y \in FreeFds PROVE x <= y
    <3>1. ~(<<y, x>> \in OpToRel(<, Nat))
      BY <2>1
    <3>2. y \in Nat /\ x \in Nat
      BY <1>1
    <3>3. ~(y < x)
      BY <3>1, <3>2 DEF OpToRel
    <3>4. QED
      BY <3>2, <3>3
  <2>3. QED
    BY <2>2
<1>4. LowestFreeFd \in FreeFds
  BY <1>3 DEF LowestFreeFd
<1>5. QED
  BY <1>4 DEF FreeFds

(* The initial state satisfies the strengthening.                          *)
LEMMA InitIInv == Init => IInv
<1> SUFFICES ASSUME Init PROVE IInv
  OBVIOUS
<1>1. TypeOK
  <2>1. sock \in [FdSpace -> SockState]
    BY DEF Init, ClosedSock, SockState
  <2>2. rcvq \in [FdSpace -> Seq(Frames \X Ifindexes)]
    BY DEF Init
  <2>3. \A fd \in FdSpace : Len(rcvq[fd]) <= QueueCap
    BY BoundsAssumption DEF Init
  <2>4. call \in CallState
    BY DEF Init, Idle, CallState
  <2>5. owner \in [FdSpace -> [ifindex : Ifindexes, xid : Xids] \cup {NoOwner}]
    BY DEF Init
  <2>6. ncalls \in 0..MaxCalls
    BY BoundsAssumption DEF Init
  <2>7. QED
    BY <2>1, <2>2, <2>3, <2>4, <2>5, <2>6 DEF TypeOK
<1>2. DeafUntilBound /\ HookedIsSetUp /\ QueuedPassFilter
  BY DEF Init, DeafUntilBound, HookedIsSetUp, QueuedPassFilter, ClosedSock, ETH_P_IP
<1>3. OwnedIsHooked /\ CallSetsUp
  BY DEF Init, OwnedIsHooked, CallSetsUp, Idle
<1>4. QED
  BY <1>1, <1>2, <1>3 DEF IInv
-----------------------------------------------------------------------------
(* One lemma per action: each preserves the strengthening.                *)

(* A returned socket is open, so socket() never hands out its descriptor. *)
LEMMA OwnedIsOpen ==
  ASSUME IInv, NEW fd \in FdSpace, owner[fd] # NoOwner
  PROVE  sock[fd].open
BY DEF IInv, OwnedIsHooked, HookedIsSetUp

(* The three updates the function makes to a socket keep it well formed. *)
LEMMA FilterUpdate ==
  ASSUME NEW r \in SockState, NEW x \in Xids
  PROVE  [r EXCEPT !.filter = x] \in SockState
BY DEF SockState

LEMMA AuxDataUpdate ==
  ASSUME NEW r \in SockState
  PROVE  [r EXCEPT !.auxdata = TRUE] \in SockState
BY DEF SockState

LEMMA BindUpdate ==
  ASSUME NEW r \in SockState, NEW i \in Ifindexes
  PROVE  [r EXCEPT !.proto = ETH_P_IP, !.ifindex = i] \in SockState
<1>1. [r EXCEPT !.proto = ETH_P_IP] \in SockState
  BY DEF SockState, ETH_P_IP
<1>2. [[r EXCEPT !.proto = ETH_P_IP] EXCEPT !.ifindex = i] \in SockState
  BY <1>1 DEF SockState
<1>3. [r EXCEPT !.proto = ETH_P_IP, !.ifindex = i]
        = [[r EXCEPT !.proto = ETH_P_IP] EXCEPT !.ifindex = i]
  OBVIOUS
<1>4. QED
  BY <1>2, <1>3

LEMMA CallStep ==
  ASSUME IInv, NEW ifx \in Ifindexes, NEW xid \in Xids, Call(ifx, xid)
  PROVE  IInv'
<1>1. TypeOK'
  BY BoundsAssumption DEF IInv, TypeOK, Call, CallState
<1>2. CallSetsUp'
  BY DEF Call, CallSetsUp
<1>3. QED
  BY <1>1, <1>2 DEF IInv, Call, DeafUntilBound, HookedIsSetUp, OwnedIsHooked,
                    QueuedPassFilter

LEMMA FailStep ==
  ASSUME IInv, Fail
  PROVE  IInv'
<1>1. TypeOK'
  BY DEF IInv, TypeOK, Fail, Idle, CallState
<1>2. CallSetsUp'
  BY DEF Fail, CallSetsUp, Idle
<1>3. QED
  BY <1>1, <1>2 DEF IInv, Fail, DeafUntilBound, HookedIsSetUp, OwnedIsHooked,
                    QueuedPassFilter

(* socket() takes a closed descriptor, which no caller owns.              *)
LEMMA SocketOpenStep ==
  ASSUME IInv, call.pc = "socket", NEW fd \in FdSpace, ~sock[fd].open,
         SocketOpen(fd)
  PROVE  IInv'
<1>1. owner[fd] = NoOwner
  BY OwnedIsOpen
<1>2. TypeOK'
  <2>1. [ClosedSock EXCEPT !.open = TRUE] \in SockState
    BY DEF ClosedSock, SockState
  <2>2. sock' \in [FdSpace -> SockState]
    BY <2>1 DEF IInv, TypeOK, SocketOpen
  <2>3. rcvq' \in [FdSpace -> Seq(Frames \X Ifindexes)]
        /\ \A g \in FdSpace : Len(rcvq'[g]) <= QueueCap
    BY BoundsAssumption DEF IInv, TypeOK, SocketOpen
  <2>4. call' \in CallState
    BY DEF IInv, TypeOK, SocketOpen, CallState
  <2>5. QED
    BY <2>2, <2>3, <2>4 DEF IInv, TypeOK, SocketOpen
<1>3. DeafUntilBound'
  BY DEF IInv, TypeOK, DeafUntilBound, SocketOpen
<1>4. HookedIsSetUp'
  BY DEF IInv, TypeOK, HookedIsSetUp, SocketOpen, ClosedSock, ETH_P_IP
<1>5. OwnedIsHooked'
  BY <1>1 DEF IInv, TypeOK, OwnedIsHooked, SocketOpen
<1>6. CallSetsUp'
  BY <1>1 DEF IInv, TypeOK, CallSetsUp, SocketOpen, ClosedSock
<1>7. QueuedPassFilter'
  BY DEF IInv, TypeOK, QueuedPassFilter, SocketOpen, ClosedSock, ETH_P_IP
<1>8. QED
  BY <1>2, <1>3, <1>4, <1>5, <1>6, <1>7 DEF IInv

(* SO_ATTACH_FILTER on the call's socket, which is not yet hooked.        *)
LEMMA AttachStep ==
  ASSUME IInv, call.pc = "attach",
         sock' = [sock EXCEPT ![call.fd].filter = call.xid],
         call' = [call EXCEPT !.pc = "auxdata"],
         UNCHANGED <<rcvq, owner, ncalls>>
  PROVE  IInv'
<1>1. call.fd \in FdSpace /\ call.xid \in Xids /\ sock[call.fd].proto = 0
      /\ owner[call.fd] = NoOwner
  BY DEF IInv, CallSetsUp
<1>2. TypeOK'
  <2>0. sock[call.fd] \in SockState
    BY <1>1 DEF IInv, TypeOK
  <2>1. [sock[call.fd] EXCEPT !.filter = call.xid] \in SockState
    BY <1>1, <2>0, FilterUpdate
  <2>2. sock' \in [FdSpace -> SockState]
    BY Zenon, <1>1, <2>1 DEF IInv, TypeOK
  <2>3. call' \in CallState
    BY DEF IInv, TypeOK, CallState
  <2>4. QED
    BY <2>2, <2>3 DEF IInv, TypeOK
<1>3. DeafUntilBound' /\ HookedIsSetUp' /\ OwnedIsHooked' /\ QueuedPassFilter'
  BY <1>1 DEF IInv, TypeOK, DeafUntilBound, HookedIsSetUp, OwnedIsHooked,
              QueuedPassFilter
<1>4. CallSetsUp'
  BY <1>1 DEF IInv, TypeOK, CallSetsUp
<1>5. QED
  BY <1>2, <1>3, <1>4 DEF IInv

(* PACKET_AUXDATA changes nothing the invariant speaks of.                *)
LEMMA AuxDataStep ==
  ASSUME IInv, call.pc = "auxdata",
         sock' = [sock EXCEPT ![call.fd].auxdata = TRUE],
         call' = [call EXCEPT !.pc = "bind"],
         UNCHANGED <<rcvq, owner, ncalls>>
  PROVE  IInv'
<1>1. call.fd \in FdSpace /\ sock[call.fd].proto = 0 /\ owner[call.fd] = NoOwner
  BY DEF IInv, CallSetsUp
<1>2. TypeOK'
  <2>0. sock[call.fd] \in SockState
    BY <1>1 DEF IInv, TypeOK
  <2>1. [sock[call.fd] EXCEPT !.auxdata = TRUE] \in SockState
    BY <1>1, <2>0, AuxDataUpdate
  <2>2. sock' \in [FdSpace -> SockState]
    BY Zenon, <1>1, <2>1 DEF IInv, TypeOK
  <2>3. call' \in CallState
    BY DEF IInv, TypeOK, CallState
  <2>4. QED
    BY <2>2, <2>3 DEF IInv, TypeOK
<1>3. DeafUntilBound' /\ HookedIsSetUp' /\ OwnedIsHooked' /\ QueuedPassFilter'
  BY <1>1 DEF IInv, TypeOK, DeafUntilBound, HookedIsSetUp, OwnedIsHooked,
              QueuedPassFilter
<1>4. CallSetsUp'
  BY <1>1 DEF IInv, TypeOK, CallSetsUp
<1>5. QED
  BY <1>2, <1>3, <1>4 DEF IInv

(* bind() hooks a socket whose queue is still empty, with the filter and  *)
(* interface of the call, and hands it to the caller.                      *)
LEMMA BindStep ==
  ASSUME IInv, call.pc = "bind",
         sock' = [sock EXCEPT ![call.fd].proto = ETH_P_IP,
                              ![call.fd].ifindex = call.ifindex],
         owner' = [owner EXCEPT ![call.fd] = [ifindex |-> call.ifindex, xid |-> call.xid]],
         call' = Idle,
         UNCHANGED <<rcvq, ncalls>>
  PROVE  IInv'
<1>1. /\ call.fd \in FdSpace /\ call.xid \in Xids /\ call.ifindex \in Ifindexes
      /\ sock[call.fd].open /\ sock[call.fd].filter = call.xid
      /\ sock[call.fd].proto = 0
  BY DEF IInv, CallSetsUp
<1>2. rcvq[call.fd] = << >>
  BY <1>1 DEF IInv, DeafUntilBound
<1>3. TypeOK'
  <2>0. sock[call.fd] \in SockState
    BY <1>1 DEF IInv, TypeOK
  <2>1. [sock[call.fd] EXCEPT !.proto = ETH_P_IP, !.ifindex = call.ifindex]
          \in SockState
    BY <1>1, <2>0, BindUpdate
  <2>2. sock' \in [FdSpace -> SockState]
    BY Zenon, <1>1, <2>1 DEF IInv, TypeOK
  <2>3. owner' \in [FdSpace -> [ifindex : Ifindexes, xid : Xids] \cup {NoOwner}]
    BY <1>1 DEF IInv, TypeOK
  <2>4. call' \in CallState
    BY DEF CallState, Idle
  <2>5. QED
    BY <2>2, <2>3, <2>4 DEF IInv, TypeOK
<1>4. DeafUntilBound' /\ HookedIsSetUp'
  BY <1>1 DEF IInv, TypeOK, DeafUntilBound, HookedIsSetUp, ETH_P_IP
<1>5. OwnedIsHooked'
  <2> SUFFICES ASSUME NEW g \in FdSpace, owner'[g] # NoOwner
               PROVE  /\ sock'[g].proto = ETH_P_IP
                      /\ sock'[g].filter = owner'[g].xid
                      /\ sock'[g].ifindex = owner'[g].ifindex
    BY DEF OwnedIsHooked
  <2>1. sock[call.fd] \in SockState
    BY <1>1 DEF IInv, TypeOK
  <2>2. CASE g = call.fd
    BY <1>1, <2>1, <2>2 DEF IInv, TypeOK, SockState
  <2>3. CASE g # call.fd
    BY <1>1, <2>3 DEF IInv, TypeOK, OwnedIsHooked
  <2>4. QED
    BY <2>2, <2>3
<1>6. CallSetsUp'
  BY DEF CallSetsUp, Idle
<1>7. QueuedPassFilter'
  BY <1>1, <1>2 DEF IInv, TypeOK, QueuedPassFilter
<1>8. QED
  BY <1>3, <1>4, <1>5, <1>6, <1>7 DEF IInv

(* A datagram is queued only on hooked sockets, and only where it came    *)
(* from the bound interface and passed the socket's filter.               *)
LEMMA ArriveStep ==
  ASSUME IInv, NEW d \in Frames, NEW ifx \in Ifindexes, Arrive(d, ifx)
  PROVE  IInv'
<1> DEFINE Takes(fd) == Hears(fd, ifx) /\ Keeps(fd, d) /\ Len(rcvq[fd]) < QueueCap
<1>1. \A fd \in FdSpace : rcvq'[fd] = IF Takes(fd) THEN Append(rcvq[fd], <<d, ifx>>)
                                                  ELSE rcvq[fd]
  BY DEF Arrive
<1>2. ASSUME NEW fd \in FdSpace, Takes(fd)
      PROVE  /\ sock[fd].proto = ETH_P_IP
             /\ sock[fd].ifindex = ifx
             /\ Passes(Program(sock[fd].filter), d)
  <2>1. sock[fd].proto = ETH_P_IP /\ sock[fd].ifindex \in {0, ifx}
    BY <1>2 DEF Hears
  <2>2. sock[fd].filter \in Xids /\ sock[fd].ifindex \in Ifindexes
    BY <2>1 DEF IInv, HookedIsSetUp
  <2>3. sock[fd].ifindex = ifx
    BY <2>1, <2>2, IfindexesAssumption
  <2>4. sock[fd].filter # NoFilter
    BY <2>2, XidsAssumption, NoFilterAssumption
  <2>5. Passes(Program(sock[fd].filter), d)
    BY <1>2, <2>4 DEF Keeps
  <2>6. QED
    BY <2>1, <2>3, <2>5
<1>3. ASSUME NEW fd \in FdSpace
      PROVE  \/ Takes(fd) /\ rcvq'[fd] = Append(rcvq[fd], <<d, ifx>>)
             \/ ~Takes(fd) /\ rcvq'[fd] = rcvq[fd]
  BY <1>1
<1>4. TypeOK'
  <2>1. ASSUME NEW fd \in FdSpace
        PROVE  rcvq'[fd] \in Seq(Frames \X Ifindexes) /\ Len(rcvq'[fd]) <= QueueCap
    <3>1. rcvq[fd] \in Seq(Frames \X Ifindexes) /\ Len(rcvq[fd]) <= QueueCap
      BY DEF IInv, TypeOK
    <3>2. CASE Takes(fd)
      <4>1. rcvq'[fd] = Append(rcvq[fd], <<d, ifx>>) /\ Len(rcvq[fd]) < QueueCap
        BY <1>3, <3>2 DEF Takes
      <4>2. <<d, ifx>> \in Frames \X Ifindexes
        OBVIOUS
      <4>3. QED
        BY <3>1, <4>1, <4>2, BoundsAssumption
    <3>3. CASE ~Takes(fd)
      BY <1>3, <3>1, <3>3
    <3>4. QED
      BY <3>2, <3>3
  <2>2. rcvq' \in [FdSpace -> Seq(Frames \X Ifindexes)]
    BY <2>1 DEF Arrive
  <2>3. QED
    BY <2>1, <2>2 DEF IInv, TypeOK, Arrive
<1>5. DeafUntilBound'
  BY <1>2, <1>3 DEF IInv, DeafUntilBound, Arrive, ETH_P_IP
<1>6. QueuedPassFilter'
  <2> SUFFICES ASSUME NEW fd \in FdSpace, sock'[fd].proto = ETH_P_IP,
                      NEW i \in 1..Len(rcvq'[fd])
               PROVE  /\ rcvq'[fd][i][2] = sock'[fd].ifindex
                      /\ Passes(Program(sock'[fd].filter), rcvq'[fd][i][1])
    BY DEF QueuedPassFilter
  <2>1. sock' = sock
    BY DEF Arrive
  <2>2. rcvq[fd] \in Seq(Frames \X Ifindexes)
    BY DEF IInv, TypeOK
  <2>3. ASSUME i \in 1..Len(rcvq[fd]), rcvq'[fd][i] = rcvq[fd][i]
        PROVE  /\ rcvq'[fd][i][2] = sock'[fd].ifindex
               /\ Passes(Program(sock'[fd].filter), rcvq'[fd][i][1])
    BY <2>1, <2>3 DEF IInv, QueuedPassFilter
  <2>4. CASE Takes(fd)
    <3>1. rcvq'[fd] = Append(rcvq[fd], <<d, ifx>>)
      BY <1>3, <2>4
    <3>2. CASE i = Len(rcvq[fd]) + 1
      <4>1. rcvq'[fd][i] = <<d, ifx>>
        BY <2>2, <3>1, <3>2
      <4>2. QED
        BY <1>2, <2>1, <2>4, <4>1
    <3>3. CASE i # Len(rcvq[fd]) + 1
      BY <2>2, <2>3, <3>1, <3>3
    <3>4. QED
      BY <3>2, <3>3
  <2>5. CASE ~Takes(fd)
    BY <1>3, <2>3, <2>5
  <2>6. QED
    BY <2>4, <2>5
<1>7. QED
  BY <1>4, <1>5, <1>6 DEF IInv, Arrive, HookedIsSetUp, OwnedIsHooked, CallSetsUp

(* Reading a datagram keeps the rest of the queue in order.                *)
LEMMA RecvStep ==
  ASSUME IInv, NEW fd \in FdSpace, Recv(fd)
  PROVE  IInv'
<1>1. rcvq[fd] \in Seq(Frames \X Ifindexes) /\ rcvq[fd] # << >>
  BY DEF IInv, TypeOK, Recv
<1>2. rcvq'[fd] = Tail(rcvq[fd])
  BY DEF IInv, TypeOK, Recv
<1>3. /\ Tail(rcvq[fd]) \in Seq(Frames \X Ifindexes)
      /\ Len(Tail(rcvq[fd])) = Len(rcvq[fd]) - 1
      /\ \A i \in 1..Len(rcvq[fd]) - 1 : Tail(rcvq[fd])[i] = rcvq[fd][i + 1]
  BY <1>1
<1>4. \A g \in FdSpace \ {fd} : rcvq'[g] = rcvq[g]
  BY DEF IInv, TypeOK, Recv
<1>5. TypeOK'
  <2>1. rcvq' \in [FdSpace -> Seq(Frames \X Ifindexes)]
    BY <1>2, <1>3, <1>4 DEF IInv, TypeOK, Recv
  <2>2. ASSUME NEW g \in FdSpace PROVE Len(rcvq'[g]) <= QueueCap
    <3>1. Len(rcvq[g]) <= QueueCap
      BY DEF IInv, TypeOK
    <3>2. CASE g = fd
      <4>1. Len(rcvq'[fd]) = Len(rcvq[fd]) - 1 /\ Len(rcvq[fd]) \in Nat
        BY <1>1, <1>2, <1>3
      <4>2. QED
        BY <3>1, <3>2, <4>1, BoundsAssumption
    <3>3. CASE g # fd
      BY <1>4, <3>1, <3>3
    <3>4. QED
      BY <3>2, <3>3
  <2>3. QED
    BY <2>1, <2>2 DEF IInv, TypeOK, Recv
<1>6. DeafUntilBound'
  BY <1>2, <1>3, <1>4 DEF IInv, DeafUntilBound, Recv
<1>7. QueuedPassFilter'
  <2> SUFFICES ASSUME NEW g \in FdSpace, sock'[g].proto = ETH_P_IP,
                      NEW i \in 1..Len(rcvq'[g])
               PROVE  /\ rcvq'[g][i][2] = sock'[g].ifindex
                      /\ Passes(Program(sock'[g].filter), rcvq'[g][i][1])
    BY DEF QueuedPassFilter
  <2>1. sock' = sock
    BY DEF Recv
  <2>2. CASE g = fd
    <3>0. rcvq'[g] = Tail(rcvq[fd]) /\ Len(rcvq'[g]) = Len(rcvq[fd]) - 1
      BY <1>2, <1>3, <2>2
    <3>1. i + 1 \in 1..Len(rcvq[fd]) /\ rcvq'[g][i] = rcvq[fd][i + 1]
      BY <1>1, <1>3, <3>0
    <3>2. QED
      BY <2>1, <2>2, <3>1 DEF IInv, QueuedPassFilter
  <2>3. CASE g # fd
    BY <1>4, <2>1, <2>3 DEF IInv, QueuedPassFilter
  <2>4. QED
    BY <2>2, <2>3
<1>8. QED
  BY <1>5, <1>6, <1>7 DEF IInv, Recv, HookedIsSetUp, OwnedIsHooked, CallSetsUp

(* Closing a returned socket never touches the one a call is setting up.  *)
LEMMA CloseStep ==
  ASSUME IInv, NEW fd \in FdSpace, Close(fd)
  PROVE  IInv'
<1>1. call.pc \in {"attach", "auxdata", "bind"} => call.fd # fd
  BY DEF IInv, CallSetsUp, Close
<1>2. TypeOK'
  <2>1. ClosedSock \in SockState
    BY DEF ClosedSock, SockState
  <2>2. sock' \in [FdSpace -> SockState]
    BY <2>1 DEF IInv, TypeOK, Close
  <2>3. rcvq' \in [FdSpace -> Seq(Frames \X Ifindexes)]
        /\ \A g \in FdSpace : Len(rcvq'[g]) <= QueueCap
    BY BoundsAssumption DEF IInv, TypeOK, Close
  <2>4. owner' \in [FdSpace -> [ifindex : Ifindexes, xid : Xids] \cup {NoOwner}]
    BY DEF IInv, TypeOK, Close
  <2>5. QED
    BY <2>2, <2>3, <2>4 DEF IInv, TypeOK, Close
<1>3. DeafUntilBound' /\ HookedIsSetUp' /\ QueuedPassFilter'
  BY DEF IInv, TypeOK, Close, DeafUntilBound, HookedIsSetUp, QueuedPassFilter,
         ClosedSock, ETH_P_IP
<1>4. OwnedIsHooked'
  BY DEF IInv, TypeOK, Close, OwnedIsHooked
<1>5. CallSetsUp'
  BY <1>1 DEF IInv, TypeOK, Close, CallSetsUp
<1>6. QED
  BY <1>2, <1>3, <1>4, <1>5 DEF IInv

(* The strengthening is preserved by every step of the system.           *)
LEMMA IInvInductive == IInv /\ [Next]_vars => IInv'
<1> SUFFICES ASSUME IInv, [Next]_vars PROVE IInv'
  OBVIOUS
<1>1. CASE \E ifx \in Ifindexes, xid \in Xids : Call(ifx, xid)
  BY <1>1, CallStep
<1>2. CASE Socket
  <2>1. CASE FreeFds # {} /\ SocketOpen(LowestFreeFd)
    BY <1>2, <2>1, LowestFreeFdIsFree, SocketOpenStep DEF Socket
  <2>2. CASE Fail
    BY <2>2, FailStep
  <2>3. QED
    BY <1>2, <2>1, <2>2 DEF Socket
<1>3. CASE AttachFilter
  BY <1>3, AttachStep, FailStep DEF AttachFilter
<1>4. CASE AuxData
  BY <1>4, AuxDataStep, FailStep DEF AuxData
<1>5. CASE Bind
  BY <1>5, BindStep, FailStep DEF Bind
<1>6. CASE \E d \in Frames, ifx \in Ifindexes : Arrive(d, ifx)
  BY <1>6, ArriveStep
<1>7. CASE \E fd \in FdSpace : Recv(fd)
  BY <1>7, RecvStep
<1>8. CASE \E fd \in FdSpace : Close(fd)
  BY <1>8, CloseStep
<1>9. CASE UNCHANGED vars
  BY <1>9 DEF vars, IInv, TypeOK, DeafUntilBound, HookedIsSetUp, OwnedIsHooked,
              CallSetsUp, QueuedPassFilter
<1>10. QED
  BY <1>1, <1>2, <1>3, <1>4, <1>5, <1>6, <1>7, <1>8, <1>9 DEF Next

-----------------------------------------------------------------------------
(* Every reachable state of the socket set-up satisfies the strengthening. *)
THEOREM IInvariant == Spec => []IInv
BY InitIInv, IInvInductive, PTL DEF Spec

(* Type correctness of the model of n_dhcp4_network_client_packet_socket_new *)
(* and the kernel, for every set of interfaces, xids and descriptors.        *)
THEOREM TypeCorrect == Spec => []TypeOK
<1>1. IInv => TypeOK
  BY DEF IInv
<1>2. QED
  BY <1>1, IInvariant, PTL

(* Whatever the interleaving of deliveries with the four system calls of   *)
(* n_dhcp4_network_client_packet_socket_new, a socket it returned has only *)
(* queued datagrams from its interface that pass its xid's BPF filter.     *)
THEOREM FilteredQueues == Spec => []QueuedFramesMatch
<1>1. IInv => QueuedFramesMatch
  BY DEF IInv, OwnedIsHooked, QueuedPassFilter, QueuedFramesMatch
<1>2. QED
  BY <1>1, IInvariant, PTL

-----------------------------------------------------------------------------
(* LeakedSocketsDeaf: a descriptor is hooked to IPv4 only by the bind()   *)
(* that hands it back, and unhooked only by the close() that takes it     *)
(* back, so an open descriptor nobody owns is deaf.                        *)

(* A step that changes no socket's protocol and no owner keeps            *)
(* HookedIsOwned.                                                           *)
LEMMA ProtoOwnerKept ==
  ASSUME HookedIsOwned, owner' = owner,
         \A fd \in FdSpace : sock'[fd].proto = sock[fd].proto
  PROVE  HookedIsOwned'
BY DEF HookedIsOwned

LEMMA HookedIsOwnedStep ==
  ASSUME IInv, HookedIsOwned, [Next]_vars
  PROVE  HookedIsOwned'
<1>1. CASE \E ifx \in Ifindexes, xid \in Xids : Call(ifx, xid)
  BY <1>1, ProtoOwnerKept DEF Call
<1>2. CASE Fail
  BY <1>2, ProtoOwnerKept DEF Fail
<1>3. CASE call.pc = "socket" /\ FreeFds # {} /\ SocketOpen(LowestFreeFd)
  <2> SUFFICES ASSUME NEW g \in FdSpace, sock'[g].proto = ETH_P_IP
               PROVE  owner'[g] # NoOwner
    BY DEF HookedIsOwned
  <2>1. LowestFreeFd \in FdSpace
    BY <1>3, LowestFreeFdIsFree
  <2>2. g # LowestFreeFd
    BY <1>3, <2>1 DEF SocketOpen, ClosedSock, ETH_P_IP, IInv, TypeOK
  <2>3. QED
    BY <1>3, <2>2 DEF SocketOpen, HookedIsOwned, IInv, TypeOK
<1>4. CASE /\ call.pc = "attach"
           /\ sock' = [sock EXCEPT ![call.fd].filter = call.xid]
           /\ UNCHANGED <<rcvq, owner, ncalls>>
  <2>1. call.fd \in FdSpace
    BY <1>4 DEF IInv, CallSetsUp
  <2>2. \A fd \in FdSpace : sock'[fd].proto = sock[fd].proto
    BY <1>4, <2>1 DEF IInv, TypeOK
  <2>3. QED
    BY <1>4, <2>2, ProtoOwnerKept
<1>5. CASE /\ call.pc = "auxdata"
           /\ sock' = [sock EXCEPT ![call.fd].auxdata = TRUE]
           /\ UNCHANGED <<rcvq, owner, ncalls>>
  <2>1. call.fd \in FdSpace
    BY <1>5 DEF IInv, CallSetsUp
  <2>2. \A fd \in FdSpace : sock'[fd].proto = sock[fd].proto
    BY <1>5, <2>1 DEF IInv, TypeOK
  <2>3. QED
    BY <1>5, <2>2, ProtoOwnerKept
<1>6. CASE /\ call.pc = "bind"
           /\ sock' = [sock EXCEPT ![call.fd].proto = ETH_P_IP,
                                   ![call.fd].ifindex = call.ifindex]
           /\ owner' = [owner EXCEPT ![call.fd] = [ifindex |-> call.ifindex, xid |-> call.xid]]
  <2> SUFFICES ASSUME NEW g \in FdSpace, sock'[g].proto = ETH_P_IP
               PROVE  owner'[g] # NoOwner
    BY DEF HookedIsOwned
  <2>1. call.fd \in FdSpace /\ call.ifindex \in Ifindexes
    BY <1>6 DEF IInv, CallSetsUp
  <2>2. CASE g = call.fd
    <3>1. owner'[g] = [ifindex |-> call.ifindex, xid |-> call.xid]
      BY <1>6, <2>1, <2>2 DEF IInv, TypeOK
    <3>2. call.ifindex # 0
      BY <2>1, IfindexesAssumption
    <3>3. QED
      BY <3>1, <3>2 DEF NoOwner
  <2>3. CASE g # call.fd
    <3>1. sock'[g] = sock[g] /\ owner'[g] = owner[g]
      BY <1>6, <2>3 DEF IInv, TypeOK
    <3>2. QED
      BY <3>1 DEF HookedIsOwned
  <2>4. QED
    BY <2>2, <2>3
<1>7. CASE \E d \in Frames, ifx \in Ifindexes : Arrive(d, ifx)
  BY <1>7, ProtoOwnerKept DEF Arrive
<1>8. CASE \E fd \in FdSpace : Recv(fd)
  BY <1>8, ProtoOwnerKept DEF Recv
<1>9. CASE \E fd \in FdSpace : Close(fd)
  <2>1. PICK fd \in FdSpace : Close(fd)
    BY <1>9
  <2> SUFFICES ASSUME NEW g \in FdSpace, sock'[g].proto = ETH_P_IP
               PROVE  owner'[g] # NoOwner
    BY DEF HookedIsOwned
  <2>2. g # fd
    BY <2>1 DEF Close, ClosedSock, ETH_P_IP, IInv, TypeOK
  <2>3. QED
    BY <2>1, <2>2 DEF Close, HookedIsOwned, IInv, TypeOK
<1>10. CASE UNCHANGED vars
  BY <1>10, ProtoOwnerKept DEF vars
<1>11. QED
  BY <1>1, <1>2, <1>3, <1>4, <1>5, <1>6, <1>7, <1>8, <1>9, <1>10
     DEF Next, Socket, AttachFilter, AuxData, Bind

(* An open descriptor that no caller owns -- one left behind by a failed   *)
(* setsockopt() or bind() of n_dhcp4_network_client_packet_socket_new, or  *)
(* the one still being set up -- is hooked to no protocol and has nothing  *)
(* queued, for every set of interfaces, xids and descriptors.              *)
THEOREM LeakedDeaf == Spec => []LeakedSocketsDeaf
<1>1. Init => HookedIsOwned
  BY DEF Init, HookedIsOwned, ClosedSock, ETH_P_IP
<1>2. IInv /\ HookedIsOwned => LeakedSocketsDeaf
  <2> SUFFICES ASSUME IInv, HookedIsOwned, NEW fd \in FdSpace,
                      sock[fd].open, owner[fd] = NoOwner
               PROVE  sock[fd].proto = 0 /\ rcvq[fd] = << >>
    BY DEF LeakedSocketsDeaf
  <2>1. sock[fd].proto \in {0, ETH_P_IP} /\ sock[fd].proto # ETH_P_IP
    BY DEF IInv, TypeOK, SockState, HookedIsOwned
  <2>2. QED
    BY <2>1 DEF IInv, DeafUntilBound
<1>3. IInv /\ HookedIsOwned /\ [Next]_vars => IInv' /\ HookedIsOwned'
  BY IInvInductive, HookedIsOwnedStep
<1>4. QED
  BY <1>1, <1>2, <1>3, InitIInv, PTL DEF Spec
=============================================================================
