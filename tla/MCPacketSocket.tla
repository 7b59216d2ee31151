---------------------------- MODULE MCPacketSocket ----------------------------
(* Two interfaces, two transaction ids, and three datagrams: a DHCP reply *)
(* for each xid and a TCP segment.  Two descriptor slots, so that a       *)
(* leaked descriptor leaves room for one more socket; three calls.        *)
EXTENDS PacketSocket

MCXid1 == 305419896   \* 0x12345678
MCXid2 == 2018915346  \* 0x78563412
MCXids == {MCXid1, MCXid2}

MCReply(x) == [ihl |-> 5, hdrLen |-> 20, len |-> 300, proto |-> IPPROTO_UDP, frag |-> 0,
               dport |-> 68, op |-> 2, xid |-> x, magic |-> N_DHCP4_MESSAGE_MAGIC]
MCFrames == {MCReply(MCXid1), MCReply(MCXid2), [MCReply(MCXid1) EXCEPT !.proto = 6]}
=============================================================================
