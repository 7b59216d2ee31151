------------------------------- MODULE MCRunner -------------------------------
(* Runner on every option list of up to three options.                     *)
EXTENDS Runner, SequencesExt

MCArgvs == SeqOf(Options, 3)
=============================================================================
