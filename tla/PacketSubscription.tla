-------------------------- MODULE PacketSubscription --------------------------
(***************************************************************************)
(* What a packet socket promises its owner (spec 4.2): once handed back   *)
(* for an interface and a transaction id, a descriptor receives, in       *)
(* arrival order and while its buffer has room, exactly the datagrams of  *)
(* that interface which the filter accepts for that xid -- and nothing     *)
(* that arrived before.  Opening is one atomic step here; PacketSocket     *)
(* implements it with four system calls between which datagrams arrive.   *)
(***************************************************************************)
EXTENDS Naturals, Sequences

CONSTANTS
  Fds,            \* descriptors
  Ifindexes,      \* interfaces
  Xids,           \* transaction ids
  Frames,         \* datagrams
  QueueCap,       \* receive buffer capacity, in datagrams
  NoOwner,        \* marks a descriptor nobody subscribed
  Accepts(_, _)   \* Accepts(xid, d): the filter for xid accepts d

VARIABLES
  subscriber,  \* the (ifindex, xid) each descriptor was opened for, or NoOwner
  queue        \* what each subscribed descriptor has received and not read

vars == <<subscriber, queue>>

Subscription == [ifindex : Ifindexes, xid : Xids]

TypeOK ==
  /\ subscriber \in [Fds -> Subscription \cup {NoOwner}]
  /\ queue \in [Fds -> Seq(Frames \X Ifindexes)]

Init ==
  /\ subscriber = [fd \in Fds |-> NoOwner]
  /\ queue = [fd \in Fds |-> << >>]

(* A free descriptor is opened for interface ifx and transaction xid,     *)
(* with nothing received yet.                                              *)
Subscribe(fd, ifx, xid) ==
  /\ subscriber[fd] = NoOwner
  /\ subscriber' = [subscriber EXCEPT ![fd] = [ifindex |-> ifx, xid |-> xid]]
  /\ UNCHANGED queue

(* The subscription of fd wants datagram d arriving on ifx.               *)
Wants(fd, d, ifx) ==
  /\ subscriber[fd] # NoOwner
  /\ subscriber[fd].ifindex = ifx
  /\ Accepts(subscriber[fd].xid, d)

(* Datagram d arrives on ifx: every subscription that wants it and has    *)
(* room gets it.                                                           *)
Deliver(d, ifx) ==
  /\ queue' = [fd \in Fds |->
                 IF Wants(fd, d, ifx) /\ Len(queue[fd]) < QueueCap
                 THEN Append(queue[fd], <<d, ifx>>) ELSE queue[fd]]
  /\ UNCHANGED subscriber

Receive(fd) ==
  /\ subscriber[fd] # NoOwner
  /\ queue[fd] # << >>
  /\ queue' = [queue EXCEPT ![fd] = Tail(@)]
  /\ UNCHANGED subscriber

Unsubscribe(fd) ==
  /\ subscriber[fd] # NoOwner
  /\ subscriber' = [subscriber EXCEPT ![fd] = NoOwner]
  /\ queue' = [queue EXCEPT ![fd] = << >>]

Next ==
  \/ \E fd \in Fds, ifx \in Ifindexes, xid \in Xids : Subscribe(fd, ifx, xid)
  \/ \E d \in Frames, ifx \in Ifindexes : Deliver(d, ifx)
  \/ \E fd \in Fds : Receive(fd)
  \/ \E fd \in Fds : Unsubscribe(fd)

Spec == Init /\ [][Next]_vars
=============================================================================
