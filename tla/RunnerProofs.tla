------------------------------ MODULE RunnerProofs ------------------------------
(***************************************************************************)
(* Proofs about Runner for every set of option lists (of any length), any *)
(* number of dispatches and any number of events per dispatch: RInv is    *)
(* inductive, hence NoLeakAtExit holds in every reachable state, and r is  *)
(* never replaced once non-zero (ErrorKept).  TLC checks them for lists of *)
(* up to three options; the proof covers every argv.                       *)
(***************************************************************************)
EXTENDS Runner, TLAPS

LEMMA InitRInv == Init => RInv
<1> SUFFICES ASSUME Init PROVE RInv
  OBVIOUS
<1>1. args \in Seq(Options)
  BY ArgvsAssumption DEF Init
<1>2. TypeOK
  <2>1. pc \in Pc /\ bufs \subseteq 1..nbuf /\ objs \subseteq HeapObjects
    BY DEF Init, Pc
  <2>2. bmac \in Nat /\ mac \in Nat /\ nbuf \in Nat /\ evq \in Nat
        /\ ndisp \in 0..MaxDispatch /\ r \in Int /\ exitcode \in Int
    BY BoundsAssumption DEF Init, NULL
  <2>3. positional \in BOOLEAN /\ ifindex \in BOOLEAN /\ test \in BOOLEAN
        /\ helped \in BOOLEAN /\ failed \in BOOLEAN
    BY DEF Init
  <2>4. QED
    BY <1>1, <2>1, <2>2, <2>3 DEF TypeOK
<1>3. BuffersOwned /\ ObjectsByPc
  BY DEF Init, BuffersOwned, ObjectsByPc, SetUpPc, NULL
<1>4. QED
  BY <1>2, <1>3 DEF RInv

(* Return() keeps r an integer and failed a Boolean.                       *)
LEMMA ReturnTyped ==
  ASSUME TypeOK, NEW code \in Int, NEW to, Return(code, to)
  PROVE  r' \in Int /\ failed' \in BOOLEAN /\ pc' = to
BY DEF Return, TypeOK

(* One iteration of parse_argv()'s loop.  The buffer branches are the     *)
(* interesting ones: a new buffer replaces and frees the old one.          *)
LEMMA ParseOptionStep ==
  ASSUME RInv, ParseOption
  PROVE  RInv'
<1> DEFINE o == Head(args)
<1>1. /\ pc = "parse" /\ args \in Seq(Options) /\ args # << >>
      /\ args' = Tail(args) /\ args' \in Seq(Options) /\ o \in Options
      /\ objs = {} /\ evq = 0
      /\ UNCHANGED <<objs, evq, ndisp, exitcode>>
  BY DEF ParseOption, RInv, TypeOK, ObjectsByPc, SetUpPc
<1>2. /\ bmac \in Nat /\ mac \in Nat /\ nbuf \in Nat /\ bufs \subseteq 1..nbuf
      /\ bufs = {bmac, mac} \ {NULL} /\ bmac <= nbuf /\ mac <= nbuf
      /\ bmac = mac => bmac = NULL
  BY <1>1 DEF RInv, TypeOK, BuffersOwned
<1>3. CASE o = "h" /\ Return(MAIN_EXIT, "exit") /\ helped' = TRUE
           /\ UNCHANGED <<positional, bmac, mac, ifindex, test, bufs, nbuf>>
  <2>1. r' \in Int /\ failed' \in BOOLEAN /\ pc' = "exit"
    BY <1>3, ReturnTyped DEF RInv, MAIN_EXIT
  <2>2. QED
    BY <1>1, <1>2, <1>3, <2>1 DEF RInv, TypeOK, BuffersOwned, ObjectsByPc, SetUpPc, Pc
<1>4. CASE o \in {"bmac", "mac"} /\ Return(-ENOMEM, "exit")
           /\ UNCHANGED <<positional, bmac, mac, ifindex, test, bufs, nbuf, helped>>
  <2>1. r' \in Int /\ failed' \in BOOLEAN /\ pc' = "exit"
    BY <1>4, ReturnTyped DEF RInv, ENOMEM
  <2>2. QED
    BY <1>1, <1>2, <1>4, <2>1 DEF RInv, TypeOK, BuffersOwned, ObjectsByPc, SetUpPc, Pc
<1>5. CASE o = "bmac" /\ nbuf' = nbuf + 1
           /\ bmac' = nbuf' /\ bufs' = (bufs \ {bmac}) \cup {nbuf'} /\ UNCHANGED mac
           /\ UNCHANGED <<pc, r, failed, positional, ifindex, test, helped>>
  <2>1. BuffersOwned'
    BY <1>1, <1>2, <1>5 DEF BuffersOwned, NULL
  <2>2. TypeOK'
    BY <1>1, <1>2, <1>5 DEF RInv, TypeOK
  <2>3. ObjectsByPc'
    BY <1>1, <1>5 DEF RInv, ObjectsByPc, SetUpPc
  <2>4. QED
    BY <2>1, <2>2, <2>3 DEF RInv
<1>6. CASE o = "mac" /\ nbuf' = nbuf + 1
           /\ mac' = nbuf' /\ bufs' = (bufs \ {mac}) \cup {nbuf'} /\ UNCHANGED bmac
           /\ UNCHANGED <<pc, r, failed, positional, ifindex, test, helped>>
  <2>1. BuffersOwned'
    BY <1>1, <1>2, <1>6 DEF BuffersOwned, NULL
  <2>2. TypeOK'
    BY <1>1, <1>2, <1>6 DEF RInv, TypeOK
  <2>3. ObjectsByPc'
    BY <1>1, <1>6 DEF RInv, ObjectsByPc, SetUpPc
  <2>4. QED
    BY <2>1, <2>2, <2>3 DEF RInv
<1>7. CASE o \in {"ifx", "ifx0"} /\ ifindex' = (o = "ifx")
           /\ UNCHANGED <<pc, r, failed, positional, bmac, mac, test, bufs, nbuf, helped>>
  BY <1>1, <1>2, <1>7 DEF RInv, TypeOK, BuffersOwned, ObjectsByPc, SetUpPc
<1>8. CASE o = "test" /\ pc' = "aborted"
           /\ UNCHANGED <<r, failed, positional, bmac, mac, ifindex, test, bufs, nbuf, helped>>
  BY <1>1, <1>2, <1>8 DEF RInv, TypeOK, BuffersOwned, ObjectsByPc, SetUpPc, Pc
<1>9. CASE o = "test" /\ nbuf' = nbuf + 2
           /\ bmac' = nbuf + 1 /\ mac' = nbuf + 2
           /\ bufs' = (bufs \ {bmac, mac}) \cup {nbuf + 1, nbuf + 2}
           /\ ifindex' = TRUE /\ test' = TRUE
           /\ UNCHANGED <<pc, r, failed, positional, helped>>
  <2>1. BuffersOwned'
    BY <1>1, <1>2, <1>9 DEF BuffersOwned, NULL
  <2>2. TypeOK'
    BY <1>1, <1>2, <1>9 DEF RInv, TypeOK
  <2>3. ObjectsByPc'
    BY <1>1, <1>9 DEF RInv, ObjectsByPc, SetUpPc
  <2>4. QED
    BY <2>1, <2>2, <2>3 DEF RInv
<1>10. CASE o = "bad" /\ Return(MAIN_FAILED, "exit")
            /\ UNCHANGED <<positional, bmac, mac, ifindex, test, bufs, nbuf, helped>>
  <2>1. r' \in Int /\ failed' \in BOOLEAN /\ pc' = "exit"
    BY <1>10, ReturnTyped DEF RInv, MAIN_FAILED
  <2>2. QED
    BY <1>1, <1>2, <1>10, <2>1 DEF RInv, TypeOK, BuffersOwned, ObjectsByPc, SetUpPc, Pc
<1>11. CASE o = "pos" /\ positional' = TRUE
            /\ UNCHANGED <<pc, r, failed, bmac, mac, ifindex, test, bufs, nbuf, helped>>
  BY <1>1, <1>2, <1>11 DEF RInv, TypeOK, BuffersOwned, ObjectsByPc, SetUpPc
<1>12. QED
  BY <1>3, <1>4, <1>5, <1>6, <1>7, <1>8, <1>9, <1>10, <1>11 DEF ParseOption

LEMMA ParseEndStep ==
  ASSUME RInv, ParseEnd
  PROVE  RInv'
<1>1. CASE positional \/ bmac = NULL \/ ~ifindex \/ mac = NULL
  <2>1. r' \in Int /\ failed' \in BOOLEAN /\ pc' = "exit"
    BY <1>1, ReturnTyped DEF ParseEnd, RInv, MAIN_FAILED
  <2>2. QED
    BY <2>1 DEF ParseEnd, RInv, TypeOK, BuffersOwned, ObjectsByPc, SetUpPc, Pc
<1>2. CASE ~(positional \/ bmac = NULL \/ ~ifindex \/ mac = NULL)
  BY <1>2 DEF ParseEnd, RInv, TypeOK, BuffersOwned, ObjectsByPc, SetUpPc, Pc
<1>3. QED
  BY <1>1, <1>2

(* A failure inside manager_new(): its _cleanup_ handlers leave nothing   *)
(* allocated, whichever of its three calls failed.                          *)
LEMMA ManagerNewReturnStep ==
  ASSUME RInv, NEW code \in Int, ManagerNewReturn(code),
         pc \in {"new", "newconfig", "newclient"}, UNCHANGED <<evq, ndisp>>, KeepsArgs
  PROVE  RInv'
<1>1. r' \in Int /\ failed' \in BOOLEAN /\ pc' = "exit"
  BY ReturnTyped DEF ManagerNewReturn, RInv
<1>2. objs' = {}
  BY DEF ManagerNewReturn, RInv, ObjectsByPc
<1>3. QED
  BY <1>1, <1>2 DEF KeepsArgs, RInv, TypeOK, BuffersOwned, ObjectsByPc, SetUpPc, Pc

(* A return from manager_run(): its _cleanup_ frees the probe config,     *)
(* which leaves the Manager and client, and the probe if it was made.      *)
LEMMA ManagerRunReturnStep ==
  ASSUME RInv, NEW code \in Int, ManagerRunReturn(code),
         pc \in {"run", "runprobe", "poll", "dispatch"},
         ndisp' \in 0..MaxDispatch, evq' \in Nat, KeepsArgs
  PROVE  RInv'
<1>1. r' \in Int /\ failed' \in BOOLEAN /\ pc' = "free"
  BY ReturnTyped DEF ManagerRunReturn, RInv
<1>2. objs' \in {{"manager", "client"}, ManagerObjs}
  BY DEF ManagerRunReturn, RInv, ObjectsByPc, ManagerObjs
<1>3. objs' \subseteq HeapObjects
  BY <1>2 DEF ManagerObjs, HeapObjects
<1>4. QED
  BY <1>1, <1>2, <1>3 DEF KeepsArgs, RInv, TypeOK, BuffersOwned, ObjectsByPc, SetUpPc, Pc

LEMMA ManagerAllocStep ==
  ASSUME RInv, ManagerAlloc
  PROVE  RInv'
<1>1. CASE ManagerNewReturn(-ENOMEM)
  BY <1>1, ManagerNewReturnStep DEF ManagerAlloc, ENOMEM
<1>2. CASE objs' = objs \cup {"manager"} /\ pc' = "newconfig" /\ UNCHANGED <<r, failed>>
  BY <1>2 DEF ManagerAlloc, KeepsArgs, RInv, TypeOK, BuffersOwned, ObjectsByPc, SetUpPc,
              Pc, HeapObjects
<1>3. QED
  BY <1>1, <1>2 DEF ManagerAlloc

LEMMA ManagerConfigStep ==
  ASSUME RInv, ManagerConfig
  PROVE  RInv'
<1>1. CASE \E e \in AllocErrors : ManagerNewReturn(e)
  BY <1>1, ManagerNewReturnStep DEF ManagerConfig, AllocErrors, ENOMEM
<1>2. CASE objs' = objs \cup {"config"} /\ pc' = "newclient" /\ UNCHANGED <<r, failed>>
  BY <1>2 DEF ManagerConfig, KeepsArgs, RInv, TypeOK, BuffersOwned, ObjectsByPc, SetUpPc,
              Pc, HeapObjects
<1>3. QED
  BY <1>1, <1>2 DEF ManagerConfig

(* The hand-over: the Manager now holds a client, and only the config is *)
(* freed.                                                                   *)
LEMMA ManagerClientStep ==
  ASSUME RInv, ManagerClient
  PROVE  RInv'
<1>1. CASE \E e \in AllocErrors : ManagerNewReturn(e)
  BY <1>1, ManagerNewReturnStep DEF ManagerClient, AllocErrors, ENOMEM
<1>2. CASE objs' = (objs \cup {"client"}) \ {"config"} /\ pc' = "run"
           /\ UNCHANGED <<r, failed>>
  BY <1>2 DEF ManagerClient, KeepsArgs, RInv, TypeOK, BuffersOwned, ObjectsByPc, SetUpPc,
              Pc, HeapObjects
<1>3. QED
  BY <1>1, <1>2 DEF ManagerClient

LEMMA ProbeConfigStep ==
  ASSUME RInv, ProbeConfig
  PROVE  RInv'
<1>1. CASE \E e \in AllocErrors : ManagerRunReturn(e)
  BY <1>1, ManagerRunReturnStep DEF ProbeConfig, AllocErrors, ENOMEM, RInv, TypeOK
<1>2. CASE objs' = objs \cup {"probecfg"} /\ pc' = "runprobe" /\ UNCHANGED <<r, failed>>
  BY <1>2 DEF ProbeConfig, KeepsArgs, RInv, TypeOK, BuffersOwned, ObjectsByPc, SetUpPc,
              Pc, HeapObjects
<1>3. QED
  BY <1>1, <1>2 DEF ProbeConfig

LEMMA ProbeStep ==
  ASSUME RInv, Probe
  PROVE  RInv'
<1>1. CASE \E e \in AllocErrors : ManagerRunReturn(e)
  BY <1>1, ManagerRunReturnStep DEF Probe, AllocErrors, ENOMEM, RInv, TypeOK
<1>2. CASE test /\ Return(0, "free") /\ objs' = (objs \cup {"probe"}) \ {"probecfg"}
  <2>1. r' \in Int /\ failed' \in BOOLEAN /\ pc' = "free"
    BY <1>2, ReturnTyped DEF RInv
  <2>2. objs' = ManagerObjs
    BY <1>2 DEF Probe, RInv, ObjectsByPc, ManagerObjs
  <2>3. QED
    BY <2>1, <2>2 DEF Probe, KeepsArgs, RInv, TypeOK, BuffersOwned, ObjectsByPc, SetUpPc,
                      Pc, HeapObjects, ManagerObjs
<1>3. CASE ~test /\ objs' = objs \cup {"probe"} /\ pc' = "poll" /\ UNCHANGED <<r, failed>>
  BY <1>3 DEF Probe, KeepsArgs, RInv, TypeOK, BuffersOwned, ObjectsByPc, SetUpPc,
              Pc, HeapObjects, ManagerObjs
<1>4. QED
  BY <1>1, <1>2, <1>3 DEF Probe

LEMMA PollStep ==
  ASSUME RInv, Poll
  PROVE  RInv'
<1>1. CASE ManagerRunReturn(-EINTR) \/ ManagerRunReturn(-ENOTRECOVERABLE)
  <2>1. -EINTR \in Int /\ -ENOTRECOVERABLE \in Int
    BY DEF EINTR, ENOTRECOVERABLE
  <2>2. QED
    BY <1>1, <2>1, ManagerRunReturnStep DEF Poll, RInv, TypeOK
<1>2. CASE ndisp < MaxDispatch /\ pc' = "dispatch" /\ UNCHANGED <<objs, r, failed>>
  BY <1>2 DEF Poll, KeepsArgs, RInv, TypeOK, BuffersOwned, ObjectsByPc, SetUpPc, Pc
<1>3. QED
  BY <1>1, <1>2 DEF Poll

(* A dispatch stays within the bound poll() checked, and whatever it     *)
(* queued is drained at "pop".                                             *)
LEMMA DispatchStep ==
  ASSUME RInv, Dispatch
  PROVE  RInv'
<1>1. PICK code \in DispatchCodes, k \in 0..MaxEvents :
        /\ evq' = evq + k
        /\ IF code = 0 THEN pc' = "pop" /\ UNCHANGED <<objs, r, failed>>
                       ELSE ManagerRunReturn(code)
  BY DEF Dispatch
<1>2. ndisp' \in 0..MaxDispatch /\ evq' \in Nat
  BY <1>1, BoundsAssumption DEF Dispatch, RInv, TypeOK, ObjectsByPc
<1>3. CASE code = 0
  BY <1>1, <1>2, <1>3 DEF Dispatch, KeepsArgs, RInv, TypeOK, BuffersOwned, ObjectsByPc,
                          SetUpPc, Pc
<1>4. CASE code # 0
  <2>1. code \in Int
    BY DEF DispatchCodes, ENOMEM, N_DHCP4_E_PREEMPTED, N_DHCP4_E_INTERNAL
  <2>2. QED
    BY <1>1, <1>2, <1>4, <2>1, ManagerRunReturnStep DEF Dispatch
<1>5. QED
  BY <1>3, <1>4

LEMMA PopEventStep ==
  ASSUME RInv, PopEvent
  PROVE  RInv'
BY DEF PopEvent, KeepsArgs, RInv, TypeOK, BuffersOwned, ObjectsByPc, SetUpPc, Pc

(* manager_free() frees the probe, the client and the Manager.             *)
LEMMA ManagerFreeStep ==
  ASSUME RInv, ManagerFree
  PROVE  RInv'
BY DEF ManagerFree, KeepsArgs, RInv, TypeOK, BuffersOwned, ObjectsByPc, SetUpPc, Pc,
       ManagerObjs, HeapObjects

(* main()'s exit label frees both option buffers.                          *)
LEMMA MainExitStep ==
  ASSUME RInv, MainExit
  PROVE  RInv'
<1>1. ExitStatus(r) \in Int
  BY DEF ExitStatus, RInv, TypeOK
<1>2. QED
  BY <1>1 DEF MainExit, RInv, TypeOK, BuffersOwned, ObjectsByPc, SetUpPc, Pc

LEMMA RInvInductive == RInv /\ [Next]_vars => RInv'
<1> SUFFICES ASSUME RInv, [Next]_vars PROVE RInv'
  OBVIOUS
<1>1. CASE UNCHANGED vars
  BY <1>1 DEF vars, RInv, TypeOK, BuffersOwned, ObjectsByPc, SetUpPc
<1>2. QED
  BY <1>1, ParseOptionStep, ParseEndStep, ManagerAllocStep, ManagerConfigStep,
     ManagerClientStep, ProbeConfigStep, ProbeStep, PollStep, DispatchStep, PopEventStep, ManagerFreeStep, MainExitStep DEF Next

THEOREM RunnerInvariant == Spec => []RInv
BY InitRInv, RInvInductive, PTL DEF Spec

(* For every argv, when main() of test-run-client.c returns, the option   *)
(* buffers, the Manager, both configs, the client and the probe have all  *)
(* been freed, on every error path of parse_argv(), manager_new() and      *)
(* manager_run() and of its loop.                                          *)
THEOREM NoLeakOnEveryArgv == Spec => []NoLeakAtExit
<1>1. RInv => NoLeakAtExit
  BY DEF RInv, BuffersOwned, ObjectsByPc, NoLeakAtExit
<1>2. QED
  BY <1>1, RunnerInvariant, PTL

-----------------------------------------------------------------------------
(* ErrorKept: r is 0 wherever a call may still be made, and the two steps *)
(* that run after a failure -- manager_free() and main()'s exit label --   *)
(* leave r alone.                                                           *)
LEMMA ErrorUnwindsInit == Init => ErrorUnwinds
BY DEF Init, ErrorUnwinds

LEMMA ErrorUnwindsStep == ErrorUnwinds /\ [Next]_vars => ErrorUnwinds'
<1> DEFINE Live == SetUpPc \cup {"poll", "dispatch", "pop", "aborted"}
<1> SUFFICES ASSUME ErrorUnwinds, [Next]_vars, pc' \in Live
             PROVE  r' = 0
  BY DEF ErrorUnwinds
<1>1. CASE ParseOption \/ ParseEnd
  BY <1>1 DEF ParseOption, ParseEnd, Return, ErrorUnwinds, SetUpPc
<1>2. CASE ManagerAlloc \/ ManagerConfig \/ ManagerClient
  BY <1>2 DEF ManagerAlloc, ManagerConfig, ManagerClient, ManagerNewReturn, Return,
              ErrorUnwinds, SetUpPc
<1>3. CASE ProbeConfig \/ Probe \/ Poll \/ Dispatch
  BY <1>3 DEF ProbeConfig, Probe, Poll, Dispatch, ManagerRunReturn, Return,
              ErrorUnwinds, SetUpPc
<1>4. CASE PopEvent
  BY <1>4 DEF PopEvent, ErrorUnwinds
<1>5. CASE ManagerFree \/ MainExit
  BY <1>5 DEF ManagerFree, MainExit, SetUpPc
<1>6. CASE UNCHANGED vars
  BY <1>6 DEF vars, ErrorUnwinds
<1>7. QED
  BY <1>1, <1>2, <1>3, <1>4, <1>5, <1>6 DEF Next

(* Once a call of parse_argv(), manager_new(), manager_run() or            *)
(* manager_dispatch() has failed, r keeps its code until main() maps it to *)
(* the exit status: no later call replaces the first error, for every argv *)
(* and every bound on dispatches and events.                               *)
THEOREM FirstErrorReported == Spec => ErrorKept
<1>1. ErrorUnwinds /\ [Next]_vars => [r # 0 => r' = r]_vars
  <2> SUFFICES ASSUME ErrorUnwinds, [Next]_vars, r # 0 PROVE r' = r
    OBVIOUS
  <2>1. pc \notin SetUpPc \cup {"poll", "dispatch", "pop", "aborted"}
    BY DEF ErrorUnwinds
  <2>2. QED
    BY <2>1 DEF SetUpPc, Next, vars, ParseOption, ParseEnd, ManagerAlloc, ManagerConfig,
                ManagerClient, ProbeConfig, Probe, Poll, Dispatch, PopEvent, ManagerFree,
                MainExit
<1>2. QED
  BY <1>1, ErrorUnwindsInit, ErrorUnwindsStep, PTL DEF Spec, ErrorKept
=============================================================================
