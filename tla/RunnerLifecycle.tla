--------------------------- MODULE RunnerLifecycle ---------------------------
(***************************************************************************)
(* What a program driving the client promises about the objects it holds  *)
(* and the status it reports (spec 5 and 7): the client and what it needs  *)
(* come into being together or not at all ("partially constructed objects *)
(* are torn down on the error path"); while the client is served they are *)
(* all held; the serving loop ends only on an error, since the client     *)
(* never finishes by itself; everything is released before the process    *)
(* exits, and the exit status is derived from the error that ended the    *)
(* run.  Runner implements it, with several steps of the code mapped onto *)
(* each step here.                                                         *)
(***************************************************************************)
EXTENDS Integers

CONSTANTS
  Objects,    \* what a running client needs: the client, its probe, ...
  Status(_)   \* the exit status reported for an error code

VARIABLES
  phase,     \* "setup", "serving", "stopping", "exiting", "done" or "aborted"
  held,      \* the objects held
  err,       \* the code that ended the run, 0 while none did
  exitcode   \* the process's exit status, once it exits

vars == <<phase, held, err, exitcode>>

Phases == {"setup", "serving", "stopping", "exiting", "done", "aborted"}

TypeOK ==
  /\ phase \in Phases
  /\ held \in {{}, Objects}
  /\ err \in Int
  /\ exitcode \in Int

Init ==
  /\ phase = "setup"
  /\ held = {}
  /\ err = 0
  /\ exitcode = 0

(* A step before the client is up fails -- a bad option, --help, an       *)
(* allocation -- with nothing held.                                         *)
Leave ==
  /\ phase = "setup"
  /\ err' # 0
  /\ phase' = "exiting"
  /\ UNCHANGED <<held, exitcode>>

(* Everything the client needs is acquired at once; a run may end at once, *)
(* with success (the test suite's --test).                                 *)
Acquire ==
  /\ phase = "setup"
  /\ held' = Objects
  /\ phase' \in {"serving", "stopping"}
  /\ UNCHANGED <<err, exitcode>>

(* The serving loop ends, and only on an error.                            *)
Stop ==
  /\ phase = "serving"
  /\ err' # 0
  /\ phase' = "stopping"
  /\ UNCHANGED <<held, exitcode>>

(* Everything held is released.                                            *)
Release ==
  /\ phase = "stopping"
  /\ held' = {}
  /\ phase' = "exiting"
  /\ UNCHANGED <<err, exitcode>>

(* The process exits with the status of the code that ended the run.      *)
Exit ==
  /\ phase = "exiting"
  /\ exitcode' = Status(err)
  /\ phase' = "done"
  /\ UNCHANGED <<held, err>>

(* An assertion fails during the set-up.                                   *)
Abort ==
  /\ phase = "setup"
  /\ phase' = "aborted"
  /\ UNCHANGED <<held, err, exitcode>>

Next == Leave \/ Acquire \/ Stop \/ Release \/ Exit \/ Abort

Spec == Init /\ [][Next]_vars
=============================================================================
