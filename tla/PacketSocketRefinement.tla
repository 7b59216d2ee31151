------------------------ MODULE PacketSocketRefinement ------------------------
(***************************************************************************)
(* n_dhcp4_network_client_packet_socket_new() implements the atomic        *)
(* subscription of PacketSubscription under the mapping Sub of             *)
(* PacketSocket: the owner is the subscriber, and a descriptor's queue is   *)
(* visible only once it was handed back.  Every step of the four-call      *)
(* set-up is a stutter except bind(), which is Subscribe; a delivery is    *)
(* Deliver, a read Receive, a close Unsubscribe.  The argument rests on    *)
(* IInv: the socket being set up is unreturned and deaf until bind(), and  *)
(* a returned socket carries its owner's filter and interface.             *)
(***************************************************************************)
EXTENDS PacketSocketProofs

(* A step that changes neither owner nor any queue of a returned socket   *)
(* is a stutter of the subscription.                                        *)
LEMMA OwnerQueuesKept ==
  ASSUME TypeOK, owner' = owner,
         \A fd \in FdSpace : owner[fd] # NoOwner => rcvq'[fd] = rcvq[fd]
  PROVE  UNCHANGED Sub!vars
BY DEF SubscribedQueue, Sub!vars, TypeOK

(* socket() opens a descriptor nobody owns, so the queue it resets is     *)
(* invisible to the caller.                                                  *)
LEMMA SocketStutters ==
  ASSUME IInv, Socket
  PROVE  UNCHANGED Sub!vars
<1>1. CASE FreeFds # {} /\ SocketOpen(LowestFreeFd)
  <2>1. LowestFreeFd \in FdSpace /\ ~sock[LowestFreeFd].open
    BY <1>1, LowestFreeFdIsFree
  <2>2. owner[LowestFreeFd] = NoOwner
    BY <2>1, OwnedIsOpen
  <2>3. \A fd \in FdSpace : owner[fd] # NoOwner => rcvq'[fd] = rcvq[fd]
    BY <1>1, <2>1, <2>2 DEF SocketOpen, IInv, TypeOK
  <2>4. QED
    BY <1>1, <2>3, OwnerQueuesKept DEF SocketOpen, IInv
<1>2. CASE Fail
  BY <1>2, OwnerQueuesKept DEF Fail, IInv
<1>3. QED
  BY <1>1, <1>2 DEF Socket

(* bind() hands back the call's socket with nothing queued: it was hooked *)
(* to no protocol until now.                                                *)
LEMMA BindSubscribes ==
  ASSUME IInv, Bind
  PROVE  [Sub!Next]_Sub!vars
<1>1. CASE Fail
  BY <1>1, OwnerQueuesKept DEF Fail, IInv
<1>2. CASE /\ sock' = [sock EXCEPT ![call.fd].proto = ETH_P_IP,
                                   ![call.fd].ifindex = call.ifindex]
           /\ owner' = [owner EXCEPT ![call.fd] = [ifindex |-> call.ifindex, xid |-> call.xid]]
           /\ call' = Idle
           /\ UNCHANGED <<rcvq, ncalls>>
  <2>1. /\ call.fd \in FdSpace /\ call.ifindex \in Ifindexes /\ call.xid \in Xids
        /\ owner[call.fd] = NoOwner /\ sock[call.fd].proto = 0
    BY DEF Bind, IInv, CallSetsUp
  <2>2. rcvq[call.fd] = << >>
    BY <2>1 DEF IInv, DeafUntilBound
  <2>3. SubscribedQueue' = SubscribedQueue
    BY <1>2, <2>1, <2>2 DEF SubscribedQueue, IInv, TypeOK
  <2>4. Sub!Subscribe(call.fd, call.ifindex, call.xid)
    BY <1>2, <2>1, <2>3 DEF Sub!Subscribe
  <2>5. QED
    BY <2>1, <2>4 DEF Sub!Next
<1>3. QED
  BY <1>1, <1>2 DEF Bind

(* A delivery to the kernel's sockets is a delivery to the subscriptions: *)
(* a returned socket hears exactly its interface and keeps exactly what   *)
(* its owner's filter passes.                                               *)
LEMMA ArriveDelivers ==
  ASSUME IInv, NEW d \in Frames, NEW ifx \in Ifindexes, Arrive(d, ifx)
  PROVE  Sub!Deliver(d, ifx)
<1>1. ASSUME NEW fd \in FdSpace
      PROVE  SubscribedQueue'[fd] =
               IF Sub!Wants(fd, d, ifx) /\ Len(SubscribedQueue[fd]) < QueueCap
               THEN Append(SubscribedQueue[fd], <<d, ifx>>) ELSE SubscribedQueue[fd]
  <2>1. CASE owner[fd] = NoOwner
    <3>1. ~Sub!Wants(fd, d, ifx)
      BY <2>1 DEF Sub!Wants
    <3>2. QED
      BY <2>1, <3>1 DEF SubscribedQueue, Arrive
  <2>2. CASE owner[fd] # NoOwner
    <3>1. /\ sock[fd].proto = ETH_P_IP
          /\ sock[fd].filter = owner[fd].xid
          /\ sock[fd].ifindex = owner[fd].ifindex
      BY <2>2 DEF IInv, OwnedIsHooked
    <3>2. owner[fd].ifindex \in Ifindexes /\ owner[fd].xid \in Xids
      BY <2>2 DEF IInv, TypeOK
    <3>3. Hears(fd, ifx) <=> owner[fd].ifindex = ifx
      BY <3>1, <3>2, IfindexesAssumption DEF Hears
    <3>4. Keeps(fd, d) <=> Passes(Program(owner[fd].xid), d)
      BY <3>1, <3>2, XidsAssumption, NoFilterAssumption DEF Keeps
    <3>5. Sub!Wants(fd, d, ifx) <=> Hears(fd, ifx) /\ Keeps(fd, d)
      BY <2>2, <3>3, <3>4 DEF Sub!Wants
    <3>6. QED
      BY <2>2, <3>5 DEF SubscribedQueue, Arrive
  <2>3. QED
    BY <2>1, <2>2
<1>2. SubscribedQueue' = [fd \in FdSpace |->
               IF Sub!Wants(fd, d, ifx) /\ Len(SubscribedQueue[fd]) < QueueCap
               THEN Append(SubscribedQueue[fd], <<d, ifx>>) ELSE SubscribedQueue[fd]]
  BY <1>1 DEF SubscribedQueue
<1>3. QED
  BY <1>2 DEF Sub!Deliver, Arrive

(* Every step of the detailed system is a step or a stutter of the        *)
(* subscription, in any state satisfying IInv.                              *)
LEMMA StepRefines == IInv /\ [Next]_vars => [Sub!Next]_Sub!vars
<1> SUFFICES ASSUME IInv, [Next]_vars PROVE [Sub!Next]_Sub!vars
  OBVIOUS
<1>1. CASE \E ifx \in Ifindexes, xid \in Xids : Call(ifx, xid)
  BY <1>1, OwnerQueuesKept DEF Call, IInv
<1>2. CASE Socket
  BY <1>2, SocketStutters
<1>3. CASE AttachFilter
  BY <1>3, OwnerQueuesKept DEF AttachFilter, Fail, IInv
<1>4. CASE AuxData
  BY <1>4, OwnerQueuesKept DEF AuxData, Fail, IInv
<1>5. CASE Bind
  BY <1>5, BindSubscribes
<1>6. CASE \E d \in Frames, ifx \in Ifindexes : Arrive(d, ifx)
  BY <1>6, ArriveDelivers DEF Sub!Next
<1>7. CASE \E fd \in FdSpace : Recv(fd)
  <2>1. PICK fd \in FdSpace : Recv(fd)
    BY <1>7
  <2>2. SubscribedQueue' = [SubscribedQueue EXCEPT ![fd] = Tail(@)]
    BY <2>1 DEF Recv, SubscribedQueue, IInv, TypeOK
  <2>3. Sub!Receive(fd)
    BY <2>1, <2>2 DEF Recv, SubscribedQueue, Sub!Receive
  <2>4. QED
    BY <2>3 DEF Sub!Next
<1>8. CASE \E fd \in FdSpace : Close(fd)
  <2>1. PICK fd \in FdSpace : Close(fd)
    BY <1>8
  <2>2. SubscribedQueue' = [SubscribedQueue EXCEPT ![fd] = << >>]
    BY <2>1 DEF Close, SubscribedQueue, IInv, TypeOK
  <2>3. Sub!Unsubscribe(fd)
    BY <2>1, <2>2 DEF Close, Sub!Unsubscribe
  <2>4. QED
    BY <2>3 DEF Sub!Next
<1>9. CASE UNCHANGED vars
  BY <1>9 DEF vars, Sub!vars, SubscribedQueue
<1>10. QED
  BY <1>1, <1>2, <1>3, <1>4, <1>5, <1>6, <1>7, <1>8, <1>9 DEF Next

(* For every value of the constants, the four-call set-up of             *)
(* n_dhcp4_network_client_packet_socket_new, with datagrams arriving      *)
(* between the calls, implements the atomic subscription of spec 4.2: the *)
(* run packet_socket_refines checks Subscribes on a small instance.        *)
THEOREM Refinement == Spec => Subscribes
<1>1. Init => Sub!Init
  BY DEF Init, Sub!Init, SubscribedQueue
<1>2. QED
  BY <1>1, StepRefines, IInvariant, PTL DEF Spec, Subscribes, Sub!Spec
=============================================================================
