-------------------------------- MODULE HexStr --------------------------------
(***************************************************************************)
(* parse_hexstr() of test-run-client.c, which turns the argument of --mac  *)
(* and --broadcast-mac into bytes: malloc() (n_in + 1) / 2 bytes, then one *)
(* loop iteration per character, assigning the nibble at even positions   *)
(* and shifting it in at odd ones.  Characters are their ASCII codes; the  *)
(* loop is a state machine so that each iteration's read of out[i / 2] is *)
(* visible.                                                                *)
(***************************************************************************)
EXTENDS Integers, Sequences

CONSTANT Inputs   \* the argument strings, as sequences of character codes

ASSUME InputsAssumption == Inputs \subseteq Seq(0..127)

(* The switch on in[i]: '0'..'9', 'a'..'f', 'A'..'F'; anything else is 0. *)
Nibble(c) ==
  CASE c \in 48..57 -> c - 48
    [] c \in 97..102 -> c - 97 + 10
    [] c \in 65..70 -> c - 65 + 10
    [] OTHER -> 0

(* A byte of the malloc()ed buffer that no iteration has written yet.     *)
Uninit == -1
(* An uninitialized byte may hold anything; 0 stands for its value here.  *)
(* The loop writes out[i / 2] at an even i before it reads it at i + 1,   *)
(* so the value never shows in the result (ParsesReference).               *)
Stored(x) == IF x = Uninit THEN 0 ELSE x

VARIABLES
  in,    \* the argument
  i,     \* the loop index (C, from 0)
  out    \* the output buffer, bytes 1..(Len(in) + 1) \div 2

vars == <<in, i, out>>

Init ==
  /\ in \in Inputs
  /\ i = 0
  /\ out = [k \in 1..((Len(in) + 1) \div 2) |-> Uninit]

(* The loop with "if (i % 2 == 0)" in place of "if (i % 2)".              *)
IterSwapParity ==
  /\ i < Len(in)
  /\ LET v == Nibble(in[i + 1])
         k == i \div 2 + 1
     IN out' = IF i % 2 = 0
               THEN [out EXCEPT ![k] = ((Stored(@) * 16) % 256) + v]
               ELSE [out EXCEPT ![k] = v]
  /\ i' = i + 1
  /\ UNCHANGED in

(* One iteration: out[i / 2] = v at an even i; out[i / 2] <<= 4 (a uint8, *)
(* so modulo 256) and out[i / 2] |= v at an odd one.  The shift leaves the *)
(* low four bits zero and v < 16, so the OR is the sum.                     *)
Iter ==
  /\ i < Len(in)
  /\ LET v == Nibble(in[i + 1])
         k == i \div 2 + 1
     IN out' = IF i % 2 = 1
               THEN [out EXCEPT ![k] = ((Stored(@) * 16) % 256) + v]
               ELSE [out EXCEPT ![k] = v]
  /\ i' = i + 1
  /\ UNCHANGED in

(* The loop ends at i = Len(in), where parse_hexstr() returns the buffer. *)
Next == Iter

Spec == Init /\ [][Next]_vars
-----------------------------------------------------------------------------
(* What the argument means: two hex digits per byte, the first the high   *)
(* nibble; a last digit on its own is a byte of its own.                   *)
Reference(s) ==
  [k \in 1..((Len(s) + 1) \div 2) |->
     IF 2 * k <= Len(s) THEN 16 * Nibble(s[2 * k - 1]) + Nibble(s[2 * k])
                        ELSE Nibble(s[2 * k - 1])]

(* When parse_hexstr()'s loop ends, every byte of the buffer it returns is *)
(* the one the argument denotes: no byte is left uninitialized or keeps    *)
(* garbage from the malloc(), and the digits are paired from the start.    *)
ParsesReference ==
  i = Len(in) => out = Reference(in)
-----------------------------------------------------------------------------
TypeOK ==
  /\ in \in Inputs
  /\ i \in 0..Len(in)
  /\ out \in [1..((Len(in) + 1) \div 2) -> {Uninit} \cup 0..255]

(* The inductive strengthening of ParsesReference: after i iterations,     *)
(* every byte whose two digits were read is complete, the byte of a digit  *)
(* read alone holds that digit, and the bytes not reached are untouched.   *)
PrefixParsed ==
  \A k \in 1..((Len(in) + 1) \div 2) :
    out[k] = IF 2 * k <= i THEN 16 * Nibble(in[2 * k - 1]) + Nibble(in[2 * k])
             ELSE IF 2 * k - 1 = i THEN Nibble(in[2 * k - 1])
             ELSE Uninit

HInv == TypeOK /\ PrefixParsed
=============================================================================
