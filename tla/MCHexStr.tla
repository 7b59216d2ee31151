------------------------------- MODULE MCHexStr -------------------------------
(* parse_hexstr() on every string of up to four characters drawn from the  *)
(* ends of each digit range and one non-digit ('g').                        *)
EXTENDS HexStr, SequencesExt

MCAlphabet == {48, 57, 97, 102, 65, 70, 103}
MCInputs == SeqOf(MCAlphabet, 4)
=============================================================================
