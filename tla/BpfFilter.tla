------------------------------ MODULE BpfFilter ------------------------------
(***************************************************************************)
(* The classic-BPF socket filter that                                     *)
(* n_dhcp4_network_client_packet_socket_new() (n-dhcp4-network.c) attaches *)
(* to its AF_PACKET/SOCK_DGRAM socket, and the kernel's evaluation of such *)
(* a program on an IPv4 datagram.                                          *)
(*                                                                         *)
(* The program is kept as the list of sock_filter instructions the C      *)
(* initialiser builds, with the opcodes of <linux/bpf_common.h>; the       *)
(* kernel decodes each opcode into class, size, mode, operation and        *)
(* source fields, and so does Step below.  A datagram is abstracted to     *)
(* the header fields the program can read, laid out at their real byte    *)
(* offsets, so that absolute and indirect loads read what they would read *)
(* on the wire.  Everything is plain operators and recursive functions    *)
(* (no RECURSIVE operator), so that modules extending this one can be     *)
(* proved about.                                                           *)
(***************************************************************************)
EXTENDS Integers, Sequences

(* Byte order of the host that compiles the filter: ntohs() is a swap on  *)
(* a little-endian host and the identity on a big-endian one.             *)
CONSTANT HostLittleEndian
ASSUME HostEndianAssumption == HostLittleEndian \in BOOLEAN

-----------------------------------------------------------------------------
(* 32-bit words.  The accumulator and index register hold unsigned 32-bit *)
(* values; a model keeps each one as the int32 with the same bits (two's   *)
(* complement), so that every word fits the integers TLC computes with.   *)
(* U32 wraps a sum or difference back into that range, UGe compares two   *)
(* words as unsigned numbers, as BPF_JGE does.                             *)
MaxInt32 == 2147483647
MinInt32 == -MaxInt32 - 1
Int32 == MinInt32..MaxInt32
U32(n) == CASE n > MaxInt32 -> (n - MaxInt32 - 1) + MinInt32
            [] n < MinInt32 -> (n + MaxInt32 + 1) - MinInt32
            [] OTHER -> n
UGe(a, b) == IF (a < 0) = (b < 0) THEN a >= b ELSE a < 0

(* Bits 0..30 of a word, and a & b bit by bit (bit 31 is the sign).       *)
Low31(v) == IF v < 0 THEN (v + MaxInt32) + 1 ELSE v
BitAnd(a, b) ==
  LET acc[i \in 0..31] ==
        IF i = 0 THEN 0
        ELSE acc[i - 1] + (IF ((Low31(a) \div 2^(i - 1)) % 2) = 1
                              /\ ((Low31(b) \div 2^(i - 1)) % 2) = 1
                           THEN 2^(i - 1) ELSE 0)
  IN  IF a < 0 /\ b < 0 THEN acc[31] + MinInt32 ELSE acc[31]

(* ntohs() of a 16-bit value.                                              *)
Ntohs(v) == IF HostLittleEndian THEN (v % 256) * 256 + ((v \div 256) % 256) ELSE v

-----------------------------------------------------------------------------
(* Opcodes of <linux/bpf_common.h> and <linux/filter.h>.                   *)
BPF_LD == 0
BPF_LDX == 1
BPF_ALU == 4
BPF_JMP == 5
BPF_RET == 6
BPF_MISC == 7
BPF_W == 0
BPF_H == 8
BPF_B == 16
BPF_IMM == 0
BPF_ABS == 32
BPF_IND == 64
BPF_LEN == 128
BPF_MSH == 160
BPF_ADD == 0
BPF_SUB == 16
BPF_AND == 80
BPF_JEQ == 16
BPF_JGE == 48
BPF_K == 0
BPF_X == 8
BPF_TAX == 0

(* The field decoders BPF_CLASS, BPF_SIZE, BPF_MODE, BPF_OP, BPF_SRC.      *)
BpfClass(c) == c % 8
BpfSize(c)  == (c % 32) - (c % 8)
BpfMode(c)  == c - (c % 32)
BpfOp(c)    == c - (c % 16)
BpfSrc(c)   == (c % 16) - (c % 8)

(* Width in bytes of a load of the given size field.                       *)
LoadWidth(c) == CASE BpfSize(c) = BPF_W -> 4 [] BpfSize(c) = BPF_H -> 2 [] OTHER -> 1

(* The BPF_STMT and BPF_JUMP initialiser macros.                           *)
BPF_STMT(code, k) == [code |-> code, jt |-> 0, jf |-> 0, k |-> k]
BPF_JUMP(code, k, jt, jf) == [code |-> code, jt |-> jt, jf |-> jf, k |-> k]

-----------------------------------------------------------------------------
(* Constants the program is built from: <netinet/ip.h>, <linux/udp.h> and *)
(* the layout of NDhcp4Header / NDhcp4Message (44-byte fixed header, then *)
(* sname[64], file[128], the 32-bit magic cookie: 240 bytes).             *)
IPPROTO_UDP == 17
IP_MF == 8192
IP_OFFMASK == 8191
IphdrProtocolOff == 9
IphdrFragOffOff == 6
UdphdrSize == 8
UdphdrDestOff == 2
NDhcp4MessageSize == 240
NDhcp4HeaderOpOff == 0
NDhcp4HeaderXidOff == 4
NDhcp4MessageMagicOff == 236
N_DHCP4_NETWORK_CLIENT_PORT == 68
N_DHCP4_OP_BOOTREPLY == 2
N_DHCP4_MESSAGE_MAGIC == 1669485411   \* 0x63825363

(* Operand of the fragment test: ntohs(IP_MF | IP_OFFMASK), the two       *)
(* masks having disjoint bits.  It is ANDed with the one byte the BPF_B    *)
(* load before it reads from frag_off.                                     *)
FragMaskNoMF == Ntohs(IP_OFFMASK)
FragMask == Ntohs(IP_MF + IP_OFFMASK)

(* Least number of bytes after the IP header: UDP header plus the fixed   *)
(* DHCP message with its cookie.                                           *)
MinPayloadLenOffByOne == UdphdrSize + NDhcp4MessageSize + 1
MinPayloadLen == UdphdrSize + NDhcp4MessageSize

(* The filter[] array of n_dhcp4_network_client_packet_socket_new(), for  *)
(* transaction id xid.                                                     *)
Program(xid) ==
  << BPF_STMT(BPF_LD + BPF_B + BPF_ABS, IphdrProtocolOff),
     BPF_JUMP(BPF_JMP + BPF_JEQ + BPF_K, IPPROTO_UDP, 1, 0),
     BPF_STMT(BPF_RET + BPF_K, 0),
     BPF_STMT(BPF_LD + BPF_B + BPF_ABS, IphdrFragOffOff),
     BPF_STMT(BPF_ALU + BPF_AND + BPF_K, FragMask),
     BPF_JUMP(BPF_JMP + BPF_JEQ + BPF_K, 0, 1, 0),
     BPF_STMT(BPF_RET + BPF_K, 0),
     BPF_STMT(BPF_LDX + BPF_B + BPF_MSH, 0),
     BPF_STMT(BPF_LD + BPF_W + BPF_LEN, 0),
     BPF_STMT(BPF_ALU + BPF_SUB + BPF_X, 0),
     BPF_JUMP(BPF_JMP + BPF_JGE + BPF_K, MinPayloadLen, 1, 0),
     BPF_STMT(BPF_RET + BPF_K, 0),
     BPF_STMT(BPF_LD + BPF_H + BPF_IND, UdphdrDestOff),
     BPF_JUMP(BPF_JMP + BPF_JEQ + BPF_K, N_DHCP4_NETWORK_CLIENT_PORT, 1, 0),
     BPF_STMT(BPF_RET + BPF_K, 0),
     BPF_STMT(BPF_LD + BPF_W + BPF_K, UdphdrSize),
     BPF_STMT(BPF_ALU + BPF_ADD + BPF_X, 0),
     BPF_STMT(BPF_MISC + BPF_TAX, 0),
     BPF_STMT(BPF_LD + BPF_B + BPF_IND, NDhcp4HeaderOpOff),
     BPF_JUMP(BPF_JMP + BPF_JEQ + BPF_K, N_DHCP4_OP_BOOTREPLY, 1, 0),
     BPF_STMT(BPF_RET + BPF_K, 0),
     BPF_STMT(BPF_LD + BPF_W + BPF_IND, NDhcp4HeaderXidOff),
     BPF_JUMP(BPF_JMP + BPF_JEQ + BPF_K, xid, 1, 0),
     BPF_STMT(BPF_RET + BPF_K, 0),
     BPF_STMT(BPF_LD + BPF_W + BPF_IND, NDhcp4MessageMagicOff),
     BPF_JUMP(BPF_JMP + BPF_JEQ + BPF_K, N_DHCP4_MESSAGE_MAGIC, 1, 0),
     BPF_STMT(BPF_RET + BPF_K, 0),
     BPF_STMT(BPF_RET + BPF_K, 65535) >>

-----------------------------------------------------------------------------
(* An IPv4 datagram as the socket sees it (SOCK_DGRAM: the link header is *)
(* stripped, offset 0 is the IP header).  hdrLen is where the UDP header  *)
(* really starts, ihl the header-length nibble of byte 0 (honest when     *)
(* 4 * ihl = hdrLen), len the number of bytes; the other fields are the   *)
(* values of iphdr.protocol, iphdr.frag_off, udphdr.dest, header.op,      *)
(* header.xid and message.magic, all big-endian on the wire.              *)
Datagram == [ihl : 0..15, hdrLen : Nat, len : Nat, proto : 0..255,
             frag : 0..65535, dport : 0..65535, op : 0..255,
             xid : Int32, magic : Int32]

(* Byte n (0 = most significant) of the big-endian 32-bit word v.          *)
BeByte(v, n) == (v \div 256^(3 - n)) % 256

(* The byte at offset i of datagram d; bytes no field covers are zero.     *)
Byte(d, i) ==
  LET dhcp == d.hdrLen + UdphdrSize IN
  CASE i = 0 -> 64 + d.ihl
    [] i = 2 -> ((d.len \div 256) % 256)
    [] i = 3 -> d.len % 256
    [] i = IphdrFragOffOff -> d.frag \div 256
    [] i = IphdrFragOffOff + 1 -> d.frag % 256
    [] i = IphdrProtocolOff -> d.proto
    [] i = d.hdrLen + UdphdrDestOff -> d.dport \div 256
    [] i = d.hdrLen + UdphdrDestOff + 1 -> d.dport % 256
    [] i = dhcp + NDhcp4HeaderOpOff -> d.op
    [] i \in dhcp + NDhcp4HeaderXidOff .. dhcp + NDhcp4HeaderXidOff + 3 ->
         BeByte(d.xid, i - (dhcp + NDhcp4HeaderXidOff))
    [] i \in dhcp + NDhcp4MessageMagicOff .. dhcp + NDhcp4MessageMagicOff + 3 ->
         BeByte(d.magic, i - (dhcp + NDhcp4MessageMagicOff))
    [] OTHER -> 0

(* The w-byte big-endian value at offset off of d; for a 4-byte load the  *)
(* top byte carries the sign of the word.                                  *)
LoadBe(d, off, w) ==
  LET top == Byte(d, off)
      acc[j \in 1..w] ==
        IF j = 1 THEN (IF w = 4 /\ top >= 128 THEN top - 256 ELSE top)
        ELSE acc[j - 1] * 256 + Byte(d, off + j - 1)
  IN  acc[w]

-----------------------------------------------------------------------------
(* The kernel's interpreter.  A machine state holds the 1-based program    *)
(* counter, the accumulator A, the index register X and the verdict, which *)
(* is Running until a RET executes.  A load beyond the datagram ends the   *)
(* program with verdict 0, as the kernel does.                             *)
Running == -1
MachineInit == [pc |-> 1, a |-> 0, x |-> 0, ret |-> Running]

Step(prog, d, s) ==
  LET ins  == prog[s.pc]
      c    == ins.code
      next == [s EXCEPT !.pc = s.pc + 1]
      off  == IF BpfMode(c) = BPF_IND THEN s.x + ins.k ELSE ins.k
      src  == IF BpfSrc(c) = BPF_X THEN s.x ELSE ins.k
  IN
  CASE s.ret # Running -> s
    [] s.pc > Len(prog) -> [s EXCEPT !.ret = 0]
    [] BpfClass(c) = BPF_LD /\ BpfMode(c) \in {BPF_ABS, BPF_IND} ->
         IF off + LoadWidth(c) > d.len THEN [s EXCEPT !.ret = 0]
         ELSE [next EXCEPT !.a = LoadBe(d, off, LoadWidth(c))]
    [] BpfClass(c) = BPF_LD /\ BpfMode(c) = BPF_LEN -> [next EXCEPT !.a = d.len]
    [] BpfClass(c) = BPF_LD /\ BpfMode(c) = BPF_IMM -> [next EXCEPT !.a = ins.k]
    [] BpfClass(c) = BPF_LDX /\ BpfMode(c) = BPF_MSH ->
         IF ins.k + 1 > d.len THEN [s EXCEPT !.ret = 0]
         ELSE [next EXCEPT !.x = 4 * (Byte(d, ins.k) % 16)]
    [] BpfClass(c) = BPF_ALU /\ BpfOp(c) = BPF_ADD -> [next EXCEPT !.a = U32(s.a + src)]
    [] BpfClass(c) = BPF_ALU /\ BpfOp(c) = BPF_SUB -> [next EXCEPT !.a = U32(s.a - src)]
    [] BpfClass(c) = BPF_ALU /\ BpfOp(c) = BPF_AND -> [next EXCEPT !.a = BitAnd(s.a, src)]
    [] BpfClass(c) = BPF_JMP /\ BpfOp(c) = BPF_JEQ ->
         [s EXCEPT !.pc = s.pc + 1 + (IF s.a = src THEN ins.jt ELSE ins.jf)]
    [] BpfClass(c) = BPF_JMP /\ BpfOp(c) = BPF_JGE ->
         [s EXCEPT !.pc = s.pc + 1 + (IF UGe(s.a, src) THEN ins.jt ELSE ins.jf)]
    [] BpfClass(c) = BPF_RET -> [s EXCEPT !.ret = ins.k]
    [] BpfClass(c) = BPF_MISC /\ (c - BpfClass(c)) = BPF_TAX -> [next EXCEPT !.x = s.a]
    [] OTHER -> [s EXCEPT !.ret = 0]

(* The verdict of prog on d: the number of bytes to keep, 0 to drop.  A    *)
(* classic-BPF program only jumps forward, so Len(prog) steps end it.      *)
RunFilter(prog, d) ==
  LET s[n \in 0..Len(prog)] == IF n = 0 THEN MachineInit ELSE Step(prog, d, s[n - 1])
  IN  IF s[Len(prog)].ret = Running THEN 0 ELSE s[Len(prog)].ret

(* The kernel queues d on a socket filtered by prog iff the verdict is    *)
(* non-zero.                                                               *)
Passes(prog, d) == RunFilter(prog, d) > 0

-----------------------------------------------------------------------------
(* What the spec (section 4.2) says the filter admits: unfragmented UDP   *)
(* datagrams, large enough for UDP and DHCP headers, to the client port,   *)
(* carrying a BOOTREPLY with the active xid and the magic cookie.          *)
Honest(d) == 4 * d.ihl = d.hdrLen
Unfragmented(d) == d.frag % (IP_MF + IP_OFFMASK + 1) = 0
SpecAdmits(d, xid) ==
  /\ d.proto = IPPROTO_UDP
  /\ Unfragmented(d)
  /\ d.len >= d.hdrLen + UdphdrSize + NDhcp4MessageSize
  /\ d.dport = N_DHCP4_NETWORK_CLIENT_PORT
  /\ d.op = N_DHCP4_OP_BOOTREPLY
  /\ d.xid = xid
  /\ d.magic = N_DHCP4_MESSAGE_MAGIC
=============================================================================
