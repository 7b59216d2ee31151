------------------------------ MODULE HexStrProofs ------------------------------
(***************************************************************************)
(* parse_hexstr() is correct for every argument string, of any length:    *)
(* PrefixParsed, which says what the first i iterations have written, is   *)
(* inductive, and at the end of the loop it is ParsesReference.  TLC      *)
(* checks the strings of up to four characters; the proof covers all.     *)
(***************************************************************************)
EXTENDS HexStr, SequenceTheorems, TLAPS

(* Every character decodes to a nibble.                                     *)
LEMMA NibbleRange ==
  ASSUME NEW c \in 0..127
  PROVE  Nibble(c) \in 0..15
BY DEF Nibble

(* The characters of the argument are ASCII codes.                         *)
LEMMA InputChars ==
  ASSUME TypeOK, NEW j \in 1..Len(in)
  PROVE  in[j] \in 0..127 /\ Nibble(in[j]) \in 0..15
<1>1. in \in Seq(0..127)
  BY InputsAssumption DEF TypeOK
<1>2. in[j] \in 0..127
  BY <1>1, ElementOfSeq
<1>3. QED
  BY <1>2, NibbleRange

(* Writing one byte of the buffer keeps it a buffer of the same length.  *)
LEMMA ExceptTyped ==
  ASSUME NEW S, NEW T, NEW f \in [S -> T], NEW x \in S, NEW y \in T
  PROVE  [f EXCEPT ![x] = y] \in [S -> T]
OBVIOUS

LEMMA InitHInv == Init => HInv
<1> SUFFICES ASSUME Init PROVE HInv
  OBVIOUS
<1>1. in \in Seq(0..127)
  BY InputsAssumption DEF Init
<1>2. TypeOK
  BY <1>1 DEF Init, TypeOK, Uninit
<1>3. PrefixParsed
  BY <1>1 DEF Init, PrefixParsed, Uninit
<1>4. QED
  BY <1>2, <1>3 DEF HInv

(* One iteration writes the byte of character i + 1: the nibble itself at *)
(* an even i, the completed byte at an odd one; no other byte changes.    *)
LEMMA IterStep ==
  ASSUME HInv, Iter
  PROVE  HInv'
<1> DEFINE n == Len(in)
           v == Nibble(in[i + 1])
           k0 == i \div 2 + 1
           K == 1..((n + 1) \div 2)
<1>1. /\ in \in Seq(0..127) /\ n \in Nat /\ i \in 0..(n - 1)
      /\ in' = in /\ i' = i + 1
  BY InputsAssumption DEF HInv, TypeOK, Iter
<1>2. v \in 0..15
  BY <1>1, InputChars DEF HInv
<1>3. k0 \in K
  BY <1>1
<1>4. out \in [K -> {Uninit} \cup 0..255]
  BY DEF HInv, TypeOK
<1>5. out' = [out EXCEPT ![k0] = IF i % 2 = 1 THEN ((Stored(out[k0]) * 16) % 256) + v
                                              ELSE v]
  BY <1>3, <1>4 DEF Iter
<1>6. CASE i % 2 = 0
  <2>1. 2 * k0 - 1 = i + 1 /\ ~(2 * k0 <= i + 1) /\ ~(i % 2 = 1)
    BY <1>1, <1>6
  <2>2. out' = [out EXCEPT ![k0] = v]
    BY Zenon, <1>5, <2>1
  <2>3. out'[k0] = Nibble(in[2 * k0 - 1])
    BY <1>3, <1>4, <2>1, <2>2
  <2>4. ASSUME NEW k \in K, k # k0
        PROVE  /\ out'[k] = out[k]
               /\ 2 * k <= i + 1 <=> 2 * k <= i
               /\ 2 * k - 1 = i + 1 <=> FALSE
               /\ 2 * k - 1 = i <=> FALSE
    BY <1>1, <1>4, <1>6, <2>2, <2>4
  <2>5. v \in {Uninit} \cup 0..255
    BY <1>2
  <2>6. QED
    <3>1. out' \in [K -> {Uninit} \cup 0..255]
      BY Zenon, <1>3, <1>4, <2>2, <2>5, ExceptTyped
    <3>2. TypeOK'
      BY <1>1, <3>1 DEF HInv, TypeOK
    <3>3. PrefixParsed'
      <4> SUFFICES ASSUME NEW k \in K
                   PROVE  out'[k] = IF 2 * k <= i + 1
                                    THEN 16 * Nibble(in[2 * k - 1]) + Nibble(in[2 * k])
                                    ELSE IF 2 * k - 1 = i + 1 THEN Nibble(in[2 * k - 1])
                                    ELSE Uninit
        BY <1>1 DEF PrefixParsed
      <4>1. CASE k = k0
        BY <2>1, <2>3, <4>1
      <4>2. CASE k # k0
        BY <2>4, <4>2 DEF HInv, PrefixParsed
      <4>3. QED
        BY <4>1, <4>2
    <3>4. QED
      BY <3>2, <3>3 DEF HInv
<1>7. CASE i % 2 = 1
  <2>1. 2 * k0 = i + 1 /\ 2 * k0 - 1 = i /\ i \in 1..Len(in)
    BY <1>1, <1>7
  <2>2. out[k0] = Nibble(in[i])
    BY <1>1, <1>3, <2>1 DEF HInv, PrefixParsed
  <2>3. Nibble(in[i]) \in 0..15
    BY <2>1, InputChars DEF HInv
  <2>4. ((Stored(out[k0]) * 16) % 256) + v
          = 16 * Nibble(in[2 * k0 - 1]) + Nibble(in[2 * k0])
    <3>1. Stored(out[k0]) = Nibble(in[i])
      BY <2>2, <2>3 DEF Stored, Uninit
    <3>2. (Nibble(in[i]) * 16) % 256 = 16 * Nibble(in[i])
      BY <2>3
    <3>3. QED
      BY <2>1, <3>1, <3>2
  <2>5. out' = [out EXCEPT ![k0] = 16 * Nibble(in[2 * k0 - 1]) + Nibble(in[2 * k0])]
    BY Zenon, <1>5, <1>7, <2>4
  <2>6. 16 * Nibble(in[2 * k0 - 1]) + Nibble(in[2 * k0]) \in {Uninit} \cup 0..255
    <3>1. 16 * Nibble(in[i]) + v \in 0..255
      BY <1>2, <2>3
    <3>2. Nibble(in[2 * k0 - 1]) = Nibble(in[i]) /\ Nibble(in[2 * k0]) = v
      BY Zenon, <2>1
    <3>3. QED
      BY Zenon, <3>1, <3>2
  <2>7. ASSUME NEW k \in K, k # k0
        PROVE  /\ out'[k] = out[k]
               /\ 2 * k <= i + 1 <=> 2 * k <= i
               /\ 2 * k - 1 = i + 1 <=> FALSE
               /\ 2 * k - 1 = i <=> FALSE
    BY <1>1, <1>4, <1>7, <2>5, <2>7
  <2>8. QED
    <3>1. out' \in [K -> {Uninit} \cup 0..255]
      BY Zenon, <1>3, <1>4, <2>5, <2>6, ExceptTyped
    <3>2. TypeOK'
      BY <1>1, <3>1 DEF HInv, TypeOK
    <3>3. PrefixParsed'
      <4> SUFFICES ASSUME NEW k \in K
                   PROVE  out'[k] = IF 2 * k <= i + 1
                                    THEN 16 * Nibble(in[2 * k - 1]) + Nibble(in[2 * k])
                                    ELSE IF 2 * k - 1 = i + 1 THEN Nibble(in[2 * k - 1])
                                    ELSE Uninit
        BY <1>1 DEF PrefixParsed
      <4>1. CASE k = k0
        BY <1>3, <1>4, <2>1, <2>5, <4>1
      <4>2. CASE k # k0
        BY <2>7, <4>2 DEF HInv, PrefixParsed
      <4>3. QED
        BY <4>1, <4>2
    <3>4. QED
      BY <3>2, <3>3 DEF HInv
<1>8. QED
  BY <1>1, <1>6, <1>7

LEMMA HInvInductive == HInv /\ [Next]_vars => HInv'
<1> SUFFICES ASSUME HInv, [Next]_vars PROVE HInv'
  OBVIOUS
<1>1. CASE Iter
  BY <1>1, IterStep
<1>2. CASE UNCHANGED vars
  BY <1>2 DEF vars, HInv, TypeOK, PrefixParsed
<1>3. QED
  BY <1>1, <1>2 DEF Next

THEOREM HexStrInvariant == Spec => []HInv
BY InitHInv, HInvInductive, PTL DEF Spec

(* For every argument of --mac and --broadcast-mac, when parse_hexstr()'s *)
(* loop ends, the buffer it returns holds the bytes the string denotes:   *)
(* digits paired from the start, a trailing digit a byte of its own, no   *)
(* byte left as malloc() returned it.                                      *)
THEOREM ParsesEveryString == Spec => []ParsesReference
<1>1. HInv => ParsesReference
  <2> SUFFICES ASSUME HInv, i = Len(in) PROVE out = Reference(in)
    BY DEF ParsesReference
  <2>1. in \in Seq(0..127)
    BY InputsAssumption DEF HInv, TypeOK
  <2>2. ASSUME NEW k \in 1..((Len(in) + 1) \div 2), ~(2 * k <= i)
        PROVE  2 * k - 1 = i
    BY <2>1, <2>2
  <2>3. QED
    BY <2>1, <2>2 DEF HInv, TypeOK, PrefixParsed, Reference
<1>2. QED
  BY <1>1, HexStrInvariant, PTL
=============================================================================
