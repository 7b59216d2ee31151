---------------------------- MODULE FilterDelivery ----------------------------
(***************************************************************************)
(* The kernel running the filter of n_dhcp4_network_client_packet_socket_ *)
(* new() on every IPv4 datagram that arrives on the bound interface: each  *)
(* step is one datagram of Frames and the verdict the program returns for  *)
(* it.  The properties compare the verdict with what the spec (4.2) says   *)
(* the filter admits.                                                      *)
(***************************************************************************)
EXTENDS BpfFilter

CONSTANTS
  Frames,   \* the datagrams that may arrive
  Xid       \* the transaction id the socket was created for

ASSUME FramesAssumption == Frames \subseteq Datagram /\ Frames # {}
ASSUME XidAssumption == Xid \in Int32

VARIABLES frame, verdict
vars == <<frame, verdict>>

(* packet_rcv(): the socket filter decides how much of d to queue.         *)
Arrive(d) ==
  /\ frame' = d
  /\ verdict' = RunFilter(Program(Xid), d)

Init == \E d \in Frames : frame = d /\ verdict = RunFilter(Program(Xid), d)
Next == \E d \in Frames : Arrive(d)
Spec == Init /\ [][Next]_vars

TypeOK == frame \in Frames /\ verdict \in 0..65535

(* Completeness: every well-formed DHCP reply for the socket's xid is     *)
(* queued whole -- the verdict (the snap length) covers the datagram --    *)
(* whatever the IP header length, since the UDP and DHCP fields are read  *)
(* at offsets relative to the header length the program computes.        *)
FilterAdmitsReplies ==
  Honest(frame) /\ SpecAdmits(frame, Xid) => verdict >= frame.len

(* Soundness of every check but the fragment offset: a datagram the        *)
(* filter keeps is UDP, has the More-Fragments bit clear, is long enough   *)
(* for UDP and DHCP headers, goes to the client port, and is a BOOTREPLY   *)
(* with this xid and the magic cookie.                                     *)
FilterChecksReply ==
  Honest(frame) /\ verdict > 0 =>
    /\ frame.proto = IPPROTO_UDP
    /\ (frame.frag \div IP_MF) % 2 = 0
    /\ frame.len >= frame.hdrLen + UdphdrSize + NDhcp4MessageSize
    /\ frame.dport = N_DHCP4_NETWORK_CLIENT_PORT
    /\ frame.op = N_DHCP4_OP_BOOTREPLY
    /\ frame.xid = Xid
    /\ frame.magic = N_DHCP4_MESSAGE_MAGIC

(* The code's own comment (and spec 4.2): "Only unfragmented DHCP packets *)
(* ... is returned" -- the filter drops every fragment, the last one of a  *)
(* fragmented datagram (MF clear, non-zero offset) included.               *)
FilterDropsFragments ==
  Honest(frame) /\ verdict > 0 => Unfragmented(frame)
=============================================================================
