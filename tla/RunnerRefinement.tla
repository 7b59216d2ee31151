--------------------------- MODULE RunnerRefinement ---------------------------
(***************************************************************************)
(* test-run-client.c implements the lifecycle of RunnerLifecycle under the *)
(* mapping Life of Runner.  Option parsing and each call of manager_new() *)
(* and manager_run() up to n_dhcp4_client_probe() are the set-up: each of  *)
(* their failures is Leave, the probe's creation is Acquire.  Every step   *)
(* of the poll loop that keeps it going is a stutter, each of its error    *)
(* returns is Stop; manager_free() after the probe exists is Release, and  *)
(* main()'s exit label is Exit.  The argument rests on RInv, which gives   *)
(* the live objects at each point, and ErrorUnwinds.                       *)
(***************************************************************************)
EXTENDS RunnerProofs

(* The abstract phase and held objects at each point of main().           *)
LEMMA PhaseOf ==
  /\ pc \in SetUpPc => LifePhase = "setup" /\ LifeHeld = {}
  /\ pc \in {"poll", "dispatch", "pop"} =>
       LifePhase = "serving" /\ LifeHeld = objs \cap ManagerObjs
  /\ pc = "free" /\ "probe" \in objs =>
       LifePhase = "stopping" /\ LifeHeld = objs \cap ManagerObjs
  /\ pc = "free" /\ "probe" \notin objs => LifePhase = "exiting" /\ LifeHeld = {}
  /\ pc = "exit" => LifePhase = "exiting" /\ LifeHeld = objs \cap ManagerObjs
  /\ pc = "done" => LifePhase = "done" /\ LifeHeld = objs \cap ManagerObjs
  /\ pc = "aborted" => LifePhase = "aborted" /\ LifeHeld = objs \cap ManagerObjs
BY DEF LifePhase, LifeHeld, SetUpPc

LEMMA PhaseOfNext ==
  /\ pc' \in SetUpPc => LifePhase' = "setup" /\ LifeHeld' = {}
  /\ pc' \in {"poll", "dispatch", "pop"} =>
       LifePhase' = "serving" /\ LifeHeld' = objs' \cap ManagerObjs
  /\ pc' = "free" /\ "probe" \in objs' =>
       LifePhase' = "stopping" /\ LifeHeld' = objs' \cap ManagerObjs
  /\ pc' = "free" /\ "probe" \notin objs' => LifePhase' = "exiting" /\ LifeHeld' = {}
  /\ pc' = "exit" => LifePhase' = "exiting" /\ LifeHeld' = objs' \cap ManagerObjs
  /\ pc' = "done" => LifePhase' = "done" /\ LifeHeld' = objs' \cap ManagerObjs
  /\ pc' = "aborted" => LifePhase' = "aborted" /\ LifeHeld' = objs' \cap ManagerObjs
BY DEF LifePhase, LifeHeld, SetUpPc

(* A step that changes neither the abstract phase, the held objects, r   *)
(* nor the exit status is a stutter of the lifecycle.                      *)
LEMMA LifeStutter ==
  ASSUME LifePhase' = LifePhase, LifeHeld' = LifeHeld, r' = r, exitcode' = exitcode
  PROVE  [Life!Next]_Life!vars
BY DEF Life!vars

(* The invariants the refinement rests on.                                *)
LInv == RInv /\ ErrorUnwinds

LEMMA LInvInductive == LInv /\ [Next]_vars => LInv'
BY RInvInductive, ErrorUnwindsStep DEF LInv

-----------------------------------------------------------------------------
(* The two shapes of a set-up step.                                       *)

(* A step that stays within the set-up and keeps r is invisible.          *)
LEMMA SetUpStutter ==
  ASSUME pc \in SetUpPc, pc' \in SetUpPc, r' = r, exitcode' = exitcode
  PROVE  [Life!Next]_Life!vars
BY PhaseOf, PhaseOfNext, LifeStutter

(* A set-up step that fails -- to main()'s exit label with nothing left,  *)
(* or to run()'s manager_free() before the probe exists -- is Leave.      *)
LEMMA SetUpLeave ==
  ASSUME pc \in SetUpPc, r' # 0, exitcode' = exitcode,
         \/ pc' = "exit" /\ objs' = {}
         \/ pc' = "free" /\ "probe" \notin objs'
  PROVE  [Life!Next]_Life!vars
<1>1. LifePhase = "setup" /\ LifeHeld = {}
  BY PhaseOf
<1>2. LifePhase' = "exiting" /\ LifeHeld' = {}
  BY PhaseOfNext
<1>3. Life!Leave
  BY <1>1, <1>2 DEF Life!Leave
<1>4. QED
  BY <1>3 DEF Life!Next

-----------------------------------------------------------------------------
(* One lemma per action of main(): the abstract step it takes.            *)

(* An option either keeps parsing, fails with a non-zero code (--help is  *)
(* MAIN_EXIT), or hits setup_test()'s assert().                            *)
LEMMA ParseOptionLife ==
  ASSUME LInv, ParseOption
  PROVE  [Life!Next]_Life!vars
<1>1. pc = "parse" /\ objs = {} /\ objs' = objs /\ exitcode' = exitcode
  BY DEF ParseOption, LInv, RInv, ObjectsByPc
<1>2. /\ pc' \in {"parse", "exit", "aborted"}
      /\ pc' \in {"parse", "aborted"} => r' = r
      /\ pc' = "exit" => r' # 0
  BY DEF ParseOption, Return, MAIN_EXIT, MAIN_FAILED, ENOMEM
<1>3. CASE pc' = "parse"
  BY <1>1, <1>2, <1>3, SetUpStutter DEF SetUpPc
<1>4. CASE pc' = "exit"
  BY <1>1, <1>2, <1>4, SetUpLeave DEF SetUpPc
<1>5. CASE pc' = "aborted"
  <2>1. Life!Abort
    BY <1>1, <1>2, <1>5, PhaseOf, PhaseOfNext DEF Life!Abort, SetUpPc
  <2>2. QED
    BY <2>1 DEF Life!Next
<1>6. QED
  BY <1>2, <1>3, <1>4, <1>5

(* The end of parse_argv() either calls run() or fails with MAIN_FAILED. *)
LEMMA ParseEndLife ==
  ASSUME LInv, ParseEnd
  PROVE  [Life!Next]_Life!vars
<1>1. pc = "parse" /\ objs = {} /\ objs' = objs /\ exitcode' = exitcode
  BY DEF ParseEnd, LInv, RInv, ObjectsByPc
<1>2. \/ pc' = "new" /\ r' = r
      \/ pc' = "exit" /\ r' # 0
  BY DEF ParseEnd, Return, MAIN_FAILED
<1>3. QED
  BY <1>1, <1>2, SetUpStutter, SetUpLeave DEF SetUpPc

(* A failure inside manager_new() leaves nothing behind.                  *)
LEMMA ManagerNewReturnLife ==
  ASSUME LInv, NEW code, code # 0, ManagerNewReturn(code),
         pc \in {"new", "newconfig", "newclient"}, exitcode' = exitcode
  PROVE  [Life!Next]_Life!vars
<1>1. pc' = "exit" /\ r' # 0
  BY DEF ManagerNewReturn, Return
<1>2. objs' = {}
  BY DEF ManagerNewReturn, LInv, RInv, ObjectsByPc
<1>3. QED
  BY <1>1, <1>2, SetUpLeave DEF SetUpPc

(* manager_new(): malloc(), n_dhcp4_client_config_new() and               *)
(* n_dhcp4_client_new() each fail with nothing left, or go on within the  *)
(* set-up.                                                                 *)
LEMMA ManagerNewLife ==
  ASSUME LInv, ManagerAlloc \/ ManagerConfig \/ ManagerClient
  PROVE  [Life!Next]_Life!vars
<1>1. pc \in {"new", "newconfig", "newclient"} /\ exitcode' = exitcode
  BY DEF ManagerAlloc, ManagerConfig, ManagerClient, KeepsArgs
<1>2. CASE \E e \in AllocErrors \cup {-ENOMEM} : ManagerNewReturn(e)
  <2>1. PICK e \in AllocErrors \cup {-ENOMEM} : ManagerNewReturn(e)
    BY <1>2
  <2>2. e # 0
    BY DEF AllocErrors, ENOMEM
  <2>3. QED
    BY <1>1, <2>1, <2>2, ManagerNewReturnLife
<1>3. CASE pc' \in {"newconfig", "newclient", "run"} /\ r' = r
  BY <1>1, <1>3, SetUpStutter DEF SetUpPc
<1>4. QED
  BY <1>2, <1>3 DEF ManagerAlloc, ManagerConfig, ManagerClient

(* manager_run(): a failure before the probe exists is Leave (the half-   *)
(* built Manager is not visible); the probe's creation is Acquire, into  *)
(* the loop, or straight to the clean-up with --test.                     *)
LEMMA ManagerRunLife ==
  ASSUME LInv, ProbeConfig \/ Probe
  PROVE  [Life!Next]_Life!vars
<1>1. pc \in {"run", "runprobe"} /\ "probe" \notin objs /\ exitcode' = exitcode
  BY DEF ProbeConfig, Probe, KeepsArgs, LInv, RInv, ObjectsByPc
<1>2. CASE \E e \in AllocErrors : ManagerRunReturn(e)
  <2>1. pc' = "free" /\ r' # 0 /\ "probe" \notin objs'
    BY <1>1, <1>2 DEF ManagerRunReturn, Return, AllocErrors, ENOMEM
  <2>2. QED
    BY <1>1, <2>1, SetUpLeave DEF SetUpPc
<1>3. CASE ProbeConfig /\ pc' = "runprobe" /\ r' = r
  BY <1>1, <1>3, SetUpStutter DEF SetUpPc
<1>4. CASE Probe /\ ~\E e \in AllocErrors : ManagerRunReturn(e)
  <2>1. /\ objs \cap ManagerObjs = {"manager", "client"}
        /\ objs' \cap ManagerObjs = ManagerObjs
        /\ pc' \in {"poll", "free"} /\ r' = r
    BY <1>4 DEF Probe, Return, LInv, RInv, ObjectsByPc, ErrorUnwinds, SetUpPc,
                ManagerObjs
  <2>2. LifeHeld' = ManagerObjs /\ LifePhase' \in {"serving", "stopping"}
    BY <2>1, PhaseOfNext DEF ManagerObjs
  <2>3. Life!Acquire
    BY <1>1, <2>1, <2>2, PhaseOf DEF Life!Acquire, SetUpPc
  <2>4. QED
    BY <2>3 DEF Life!Next
<1>5. QED
  BY <1>2, <1>3, <1>4 DEF ProbeConfig

(* The loop holds the Manager, client and probe; each of its error        *)
(* returns is Stop, every other step of it a stutter.                      *)
LEMMA LoopLife ==
  ASSUME LInv, Poll \/ Dispatch \/ PopEvent
  PROVE  [Life!Next]_Life!vars
<1>1. /\ pc \in {"poll", "dispatch", "pop"} /\ r = 0 /\ exitcode' = exitcode
      /\ objs = ManagerObjs \cup {"probecfg"}
  BY DEF Poll, Dispatch, PopEvent, KeepsArgs, LInv, RInv, ObjectsByPc, ErrorUnwinds,
         SetUpPc
<1>2. LifePhase = "serving" /\ LifeHeld = ManagerObjs
  BY <1>1, PhaseOf DEF ManagerObjs
<1>3. \/ pc' \in {"poll", "dispatch", "pop"} /\ r' = r /\ objs' = objs
      \/ pc' = "free" /\ r' # 0 /\ objs' = ManagerObjs
  BY <1>1 DEF Poll, Dispatch, PopEvent, ManagerRunReturn, Return, DispatchCodes, EINTR,
              ENOTRECOVERABLE, N_DHCP4_E_PREEMPTED, N_DHCP4_E_INTERNAL, ENOMEM,
              ManagerObjs
<1>4. CASE pc' \in {"poll", "dispatch", "pop"} /\ r' = r /\ objs' = objs
  BY <1>1, <1>2, <1>4, PhaseOfNext, LifeStutter
<1>5. CASE pc' = "free" /\ r' # 0 /\ objs' = ManagerObjs
  <2>1. LifePhase' = "stopping" /\ LifeHeld' = ManagerObjs
    BY <1>5, PhaseOfNext DEF ManagerObjs
  <2>2. Life!Stop
    BY <1>1, <1>2, <1>5, <2>1 DEF Life!Stop
  <2>3. QED
    BY <2>2 DEF Life!Next
<1>6. QED
  BY <1>3, <1>4, <1>5

(* manager_free() releases everything once the probe exists; after a     *)
(* failed set-up it frees what is not visible, a stutter.                  *)
LEMMA ManagerFreeLife ==
  ASSUME LInv, ManagerFree
  PROVE  [Life!Next]_Life!vars
<1>1. /\ pc = "free" /\ pc' = "exit" /\ objs' = {} /\ r' = r /\ exitcode' = exitcode
  BY DEF ManagerFree, KeepsArgs, LInv, RInv, ObjectsByPc, ManagerObjs
<1>2. LifePhase' = "exiting" /\ LifeHeld' = {}
  BY <1>1, PhaseOfNext
<1>3. CASE "probe" \in objs
  <2>1. Life!Release
    BY <1>1, <1>2, <1>3, PhaseOf DEF Life!Release
  <2>2. QED
    BY <2>1 DEF Life!Next
<1>4. CASE "probe" \notin objs
  BY <1>1, <1>2, <1>4, PhaseOf, LifeStutter
<1>5. QED
  BY <1>3, <1>4

(* main()'s exit label maps r to the exit status, with nothing held.      *)
LEMMA MainExitLife ==
  ASSUME LInv, MainExit
  PROVE  [Life!Next]_Life!vars
<1>1. /\ pc = "exit" /\ pc' = "done" /\ objs = {} /\ objs' = objs /\ r' = r
      /\ exitcode' = ExitStatus(r)
  BY DEF MainExit, LInv, RInv, ObjectsByPc
<1>2. Life!Exit
  BY <1>1, PhaseOf, PhaseOfNext DEF Life!Exit
<1>3. QED
  BY <1>2 DEF Life!Next

-----------------------------------------------------------------------------
LEMMA RunnerStepRefines == LInv /\ [Next]_vars => [Life!Next]_Life!vars
<1> SUFFICES ASSUME LInv, [Next]_vars PROVE [Life!Next]_Life!vars
  OBVIOUS
<1>1. CASE UNCHANGED vars
  BY <1>1, LifeStutter DEF vars, LifePhase, LifeHeld
<1>2. QED
  BY <1>1, ParseOptionLife, ParseEndLife, ManagerNewLife, ManagerRunLife, LoopLife,
     ManagerFreeLife, MainExitLife DEF Next

(* For every argv and every bound on dispatches and events, main() of     *)
(* test-run-client.c implements the lifecycle of spec 5 and 7: the         *)
(* Manager, the client and its probe appear together or not at all, the   *)
(* poll loop ends only with an error, manager_free() releases all three,   *)
(* and main() exits with the status of the code that ended the run.  The  *)
(* run runner_lifecycle checks Lifecycle on option lists of up to three.   *)
THEOREM LifecycleRefinement == Spec => Lifecycle
<1>1. Init => LInv
  BY InitRInv, ErrorUnwindsInit DEF LInv
<1>2. Init => Life!Init
  BY DEF Init, Life!Init, LifePhase, LifeHeld, SetUpPc
<1>3. QED
  BY <1>1, <1>2, LInvInductive, RunnerStepRefines, PTL DEF Spec, Lifecycle, Life!Spec
=============================================================================
