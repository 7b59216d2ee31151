--------------------------- MODULE MCFilterDelivery ---------------------------
(* Datagrams for the filter runs: every combination of a valid and an     *)
(* invalid value of each field the filter reads, with 20- and 24-byte IP  *)
(* headers, lengths one short of, exactly at and above the minimum, and   *)
(* runts shorter than the IP header: 8 and 9 bytes end at the load of    *)
(* the protocol byte, 10 and 19 bytes reach A -= X and wrap it.           *)
EXTENDS FilterDelivery

MCXid == 305419896          \* 0x12345678
MCSwappedXid == 2018915346  \* 0x78563412, MCXid byte-swapped
MCSwappedMagic == 1666417251 \* 0x63538263, the cookie byte-swapped

(* frag_off values: none, DF, MF at offset 0, last fragment at offset 8   *)
(* bytes (low byte of the offset), last fragment at offset 2048 bytes.    *)
MCFragOffs == {0, 16384, 8192, 1, 256}

MCFrames ==
  { [ihl |-> h \div 4, hdrLen |-> h, len |-> h + 248 + dl, proto |-> p,
     frag |-> fr, dport |-> dp, op |-> o, xid |-> x, magic |-> m] :
      h \in {20, 24}, dl \in {-1, 0, 32}, p \in {17, 6}, fr \in MCFragOffs,
      dp \in {68, 67}, o \in {2, 1}, x \in {MCXid, MCSwappedXid},
      m \in {N_DHCP4_MESSAGE_MAGIC, MCSwappedMagic} }
  \cup
  { [ihl |-> 5, hdrLen |-> 20, len |-> l, proto |-> 17, frag |-> 0,
     dport |-> 68, op |-> 2, xid |-> MCXid, magic |-> N_DHCP4_MESSAGE_MAGIC] :
      l \in {8, 9, 10, 19} }
=============================================================================
