-------------------------------- MODULE Runner --------------------------------
(***************************************************************************)
(* The DHCP client runner, test-run-client.c: main() parses its options,   *)
(* run() builds a Manager (a client and its probe) and, unless --test is   *)
(* given, loops: poll() the client's readiness fd, n_dhcp4_client_dispatch *)
(* and pop every queued event.  Every way out of run() goes through the    *)
(* _cleanup_ handlers and main()'s exit-status mapping.                    *)
(*                                                                         *)
(* The client library is not part of this repository; what its calls may  *)
(* return is taken from its specification: Success, Preempted, Internal or *)
(* a negative errno, and a dispatch may queue several events.  Option      *)
(* arguments are abstracted to the option names; a hex string is parsed   *)
(* into a fresh buffer or fails to allocate one.                           *)
(***************************************************************************)
EXTENDS Integers, Sequences

CONSTANTS
  Argvs,        \* the option lists main() may be started with
  MaxDispatch,  \* bound on the dispatches of one run
  MaxEvents     \* bound on the events one dispatch queues

ASSUME BoundsAssumption == MaxDispatch \in Nat /\ MaxEvents \in Nat

(* Options as getopt_long() returns them; "ifx" is an --ifindex whose      *)
(* atoi() is non-zero, "ifx0" one whose atoi() is 0, "bad" an unknown      *)
(* option, "pos" a non-option argument (permuted to the end).              *)
Options == {"h", "bmac", "mac", "ifx", "ifx0", "test", "bad", "pos"}

ASSUME ArgvsAssumption == Argvs \subseteq Seq(Options)

MAIN_EXIT == 1
MAIN_FAILED == 2

(* Library codes, in the order the specification lists them.              *)
N_DHCP4_E_PREEMPTED == 1
N_DHCP4_E_INTERNAL == 2

ENOMEM == 12
EINTR == 4
ENOTRECOVERABLE == 131

(* What malloc() in the runner, or a constructor of the library, returns *)
(* on failure: each failure point of a function has the same effect, so   *)
(* one disjunct stands for all of them.                                    *)
AllocErrors == {-ENOMEM}
(* What n_dhcp4_client_dispatch() may return: every code the library      *)
(* surfaces, or a negative errno of the I/O it does.                       *)
DispatchCodes == {0, N_DHCP4_E_PREEMPTED, N_DHCP4_E_INTERNAL, -ENOMEM}

NULL == 0

VARIABLES
  pc,          \* where main() is
  args,        \* options getopt_long() has not returned yet
  positional,  \* a non-option argument was seen
  bmac,        \* main_arg_broadcast_mac: NULL or a buffer
  mac,         \* main_arg_mac: NULL or a buffer
  ifindex,     \* main_arg_ifindex is non-zero
  test,        \* main_arg_test
  bufs,        \* live heap buffers
  nbuf,        \* buffers allocated so far (fresh names)
  objs,        \* live library objects and the Manager
  evq,         \* events queued in the client
  ndisp,       \* dispatches so far
  r,           \* the return value being propagated
  exitcode,    \* main()'s return value, once it returns
  helped,      \* --help was handled
  failed       \* some call returned an error

vars == <<pc, args, positional, bmac, mac, ifindex, test, bufs, nbuf, objs, evq,
          ndisp, r, exitcode, helped, failed>>

Pc == {"parse", "new", "newconfig", "newclient", "run", "runprobe", "poll", "dispatch",
       "pop", "free", "exit", "done", "aborted"}

(* What the runner allocates besides the option buffers: the Manager, the *)
(* client config manager_new() builds the client from, the client, the     *)
(* probe config manager_run() builds the probe from, and the probe.  The   *)
(* Manager holds the client and the probe.                                 *)
HeapObjects == {"manager", "config", "client", "probecfg", "probe"}
ManagerObjs == {"manager", "client", "probe"}

TypeOK ==
  /\ pc \in Pc
  /\ args \in Seq(Options)
  /\ positional \in BOOLEAN /\ ifindex \in BOOLEAN /\ test \in BOOLEAN
  /\ bmac \in Nat /\ mac \in Nat /\ nbuf \in Nat
  /\ bufs \subseteq 1..nbuf
  /\ objs \subseteq HeapObjects
  /\ evq \in Nat /\ ndisp \in 0..MaxDispatch
  /\ r \in Int /\ exitcode \in Int
  /\ helped \in BOOLEAN /\ failed \in BOOLEAN

Init ==
  /\ pc = "parse"
  /\ args \in Argvs
  /\ positional = FALSE
  /\ bmac = NULL /\ mac = NULL /\ ifindex = FALSE /\ test = FALSE
  /\ bufs = {} /\ nbuf = 0
  /\ objs = {} /\ evq = 0 /\ ndisp = 0
  /\ r = 0 /\ exitcode = 0
  /\ helped = FALSE /\ failed = FALSE

(* Returning r from a function: main() continues at its exit label.       *)
Return(code, to) ==
  /\ r' = code
  /\ pc' = to
  /\ failed' = (failed \/ code # 0)
-----------------------------------------------------------------------------
(* An iteration of parse_argv()'s getopt_long() loop, with parse_hexstr() *)
(* and setup_test() for the options that call them.                        *)
ParseOption ==
  /\ pc = "parse" /\ args # << >>
  /\ args' = Tail(args)
  /\ LET o == Head(args) IN
     \/ /\ o = "h"
        /\ Return(MAIN_EXIT, "exit") /\ helped' = TRUE
        /\ UNCHANGED <<positional, bmac, mac, ifindex, test, bufs, nbuf>>
     \/ /\ o \in {"bmac", "mac"}
        /\ \/ /\ Return(-ENOMEM, "exit")
              /\ UNCHANGED <<positional, bmac, mac, ifindex, test, bufs, nbuf, helped>>
           \/ /\ nbuf' = nbuf + 1
              /\ IF o = "bmac"
                 THEN bmac' = nbuf' /\ bufs' = (bufs \ {bmac}) \cup {nbuf'}
                      /\ UNCHANGED mac
                 ELSE mac' = nbuf' /\ bufs' = (bufs \ {mac}) \cup {nbuf'}
                      /\ UNCHANGED bmac
              /\ UNCHANGED <<pc, r, failed, positional, ifindex, test, helped>>
     \/ /\ o \in {"ifx", "ifx0"}
        /\ ifindex' = (o = "ifx")
        /\ UNCHANGED <<pc, r, failed, positional, bmac, mac, test, bufs, nbuf, helped>>
     \/ /\ o = "test"
        /\ \/ /\ pc' = "aborted"     \* assert(b) on a failed malloc()
              /\ UNCHANGED <<r, failed, positional, bmac, mac, ifindex, test, bufs,
                             nbuf, helped>>
           \/ /\ nbuf' = nbuf + 2
              /\ bmac' = nbuf + 1 /\ mac' = nbuf + 2
              /\ bufs' = (bufs \ {bmac, mac}) \cup {nbuf + 1, nbuf + 2}
              /\ ifindex' = TRUE /\ test' = TRUE
              /\ UNCHANGED <<pc, r, failed, positional, helped>>
     \/ /\ o = "bad"
        /\ Return(MAIN_FAILED, "exit")
        /\ UNCHANGED <<positional, bmac, mac, ifindex, test, bufs, nbuf, helped>>
     \/ /\ o = "pos"
        /\ positional' = TRUE
        /\ UNCHANGED <<pc, r, failed, bmac, mac, ifindex, test, bufs, nbuf, helped>>
  /\ UNCHANGED <<objs, evq, ndisp, exitcode>>

(* The end of parse_argv(): leftover arguments or a missing required one  *)
(* fail; otherwise main() calls run().                                     *)
ParseEnd ==
  /\ pc = "parse" /\ args = << >>
  /\ IF positional \/ bmac = NULL \/ ~ifindex \/ mac = NULL
     THEN Return(MAIN_FAILED, "exit")
     ELSE pc' = "new" /\ UNCHANGED <<r, failed>>
  /\ UNCHANGED <<args, positional, bmac, mac, ifindex, test, bufs, nbuf, objs, evq,
                 ndisp, exitcode, helped>>
-----------------------------------------------------------------------------
KeepsArgs == UNCHANGED <<args, positional, bmac, mac, ifindex, test, bufs, nbuf,
                              exitcode, helped>>

(* A return from manager_new(): its _cleanup_ handlers free the config    *)
(* and, through manager_freep(), a Manager that was not handed out (its    *)
(* client and probe are still NULL on every error path); run() returns the *)
(* error with its own manager still NULL, so main() goes to its exit label. *)
ManagerNewReturn(code) ==
  /\ Return(code, "exit")
  /\ objs' = objs \ {"config", "manager"}

(* run() calls manager_new(): manager = malloc(sizeof *manager).           *)
ManagerAlloc ==
  /\ pc = "new"
  /\ \/ ManagerNewReturn(-ENOMEM)
     \/ objs' = objs \cup {"manager"} /\ pc' = "newconfig" /\ UNCHANGED <<r, failed>>
  /\ UNCHANGED <<evq, ndisp>>
  /\ KeepsArgs

(* n_dhcp4_client_config_new(&config), and the three setters.             *)
ManagerConfig ==
  /\ pc = "newconfig"
  /\ \/ \E e \in AllocErrors : ManagerNewReturn(e)
     \/ objs' = objs \cup {"config"} /\ pc' = "newclient" /\ UNCHANGED <<r, failed>>
  /\ UNCHANGED <<evq, ndisp>>
  /\ KeepsArgs

(* manager_new() forgetting "manager = NULL" after *managerp = manager:    *)
(* its _cleanup_ frees the Manager, and unrefs the client, it has just     *)
(* handed out.                                                              *)
ManagerClientNoDisown ==
  /\ pc = "newclient"
  /\ \/ \E e \in AllocErrors : ManagerNewReturn(e)
     \/ /\ objs' = objs \ {"config", "manager"}
        /\ pc' = "run" /\ UNCHANGED <<r, failed>>
  /\ UNCHANGED <<evq, ndisp>>
  /\ KeepsArgs

(* n_dhcp4_client_new(&manager->client, config); on success "*managerp =  *)
(* manager; manager = NULL;" hands the Manager out, and only the config is *)
(* freed on the way out.                                                   *)
ManagerClient ==
  /\ pc = "newclient"
  /\ \/ \E e \in AllocErrors : ManagerNewReturn(e)
     \/ /\ objs' = (objs \cup {"client"}) \ {"config"}
        /\ pc' = "run" /\ UNCHANGED <<r, failed>>
  /\ UNCHANGED <<evq, ndisp>>
  /\ KeepsArgs

(* manager_run() with its probe config declared without _cleanup_: no     *)
(* return frees it.                                                         *)
ManagerRunReturnNoFree(code) ==
  /\ Return(code, "free")
  /\ UNCHANGED objs

(* A return from manager_run(): its _cleanup_ frees the probe config (a   *)
(* no-op while it is NULL), and run() returns to its own _cleanup_.        *)
ManagerRunReturn(code) ==
  /\ Return(code, "free")
  /\ objs' = objs \ {"probecfg"}

(* manager_run(): n_dhcp4_client_probe_config_new(&config).               *)
ProbeConfig ==
  /\ pc = "run"
  /\ \/ \E e \in AllocErrors : ManagerRunReturn(e)
     \/ objs' = objs \cup {"probecfg"} /\ pc' = "runprobe" /\ UNCHANGED <<r, failed>>
  /\ UNCHANGED <<evq, ndisp>>
  /\ KeepsArgs

(* n_dhcp4_client_probe(manager->client, &manager->probe, config); with   *)
(* --test manager_run() then returns 0, otherwise it enters its loop with  *)
(* the probe config still allocated.                                       *)
Probe ==
  /\ pc = "runprobe"
  /\ \/ \E e \in AllocErrors : ManagerRunReturn(e)
     \/ /\ test
        /\ Return(0, "free") /\ objs' = (objs \cup {"probe"}) \ {"probecfg"}
     \/ /\ ~test
        /\ objs' = objs \cup {"probe"} /\ pc' = "poll" /\ UNCHANGED <<r, failed>>
  /\ UNCHANGED <<evq, ndisp>>
  /\ KeepsArgs

(* One iteration of manager_run()'s loop up to the dispatch: poll() on the *)
(* client's fd fails (EINTR), reports something other than POLLIN, or     *)
(* reports POLLIN.                                                         *)
Poll ==
  /\ pc = "poll"
  /\ \/ ManagerRunReturn(-EINTR)
     \/ ManagerRunReturn(-ENOTRECOVERABLE)
     \/ /\ ndisp < MaxDispatch /\ pc' = "dispatch"
        /\ UNCHANGED <<objs, r, failed>>
  /\ UNCHANGED <<evq, ndisp>>
  /\ KeepsArgs

(* manager_run()'s loop without "if (r) return r;" after                  *)
(* manager_dispatch(): the code is kept in r and the loop goes on.        *)
DispatchNoReturn ==
  /\ pc = "dispatch"
  /\ ndisp' = ndisp + 1
  /\ \E code \in DispatchCodes, k \in 0..MaxEvents :
       /\ evq' = evq + k
       /\ r' = code /\ failed' = (failed \/ code # 0) /\ pc' = "pop"
  /\ UNCHANGED objs
  /\ KeepsArgs

(* manager_dispatch(): n_dhcp4_client_dispatch() may make several state  *)
(* transitions and queue an event for each; a non-zero code is returned   *)
(* up through manager_run() at once.                                       *)
Dispatch ==
  /\ pc = "dispatch"
  /\ ndisp' = ndisp + 1
  /\ \E code \in DispatchCodes, k \in 0..MaxEvents :
       /\ evq' = evq + k
       /\ IF code = 0 THEN pc' = "pop" /\ UNCHANGED <<objs, r, failed>>
                      ELSE ManagerRunReturn(code)
  /\ KeepsArgs

(* manager_dispatch()'s loop without "if (!event) break;": it keeps       *)
(* popping an empty queue.                                                 *)
PopEventNoBreak ==
  /\ pc = "pop"
  /\ evq' = IF evq > 0 THEN evq - 1 ELSE 0
  /\ UNCHANGED <<pc, objs, ndisp, r, failed>>
  /\ KeepsArgs

(* n_dhcp4_client_pop_event() in manager_dispatch()'s loop: print the     *)
(* oldest event, or leave the loop once none is left.                      *)
PopEvent ==
  /\ pc = "pop"
  /\ IF evq > 0 THEN evq' = evq - 1 /\ UNCHANGED pc
                ELSE pc' = "poll" /\ UNCHANGED evq
  /\ UNCHANGED <<objs, ndisp, r, failed>>
  /\ KeepsArgs

(* manager_free() without n_dhcp4_client_probe_free().                    *)
ManagerFreeKeepProbe ==
  /\ pc = "free"
  /\ objs' = objs \ {"client", "manager"}
  /\ pc' = "exit"
  /\ UNCHANGED <<evq, ndisp, r, failed>>
  /\ KeepsArgs

(* run()'s _cleanup_(manager_freep): manager_free() frees the probe, drops *)
(* the client (with the events still queued in it) and frees the Manager. *)
ManagerFree ==
  /\ pc = "free"
  /\ objs' = objs \ ManagerObjs
  /\ pc' = "exit"
  /\ UNCHANGED <<evq, ndisp, r, failed>>
  /\ KeepsArgs

(* main()'s exit label: map r to the exit status and free the arguments.  *)
ExitStatus(v) ==
  CASE v = MAIN_EXIT -> 0
    [] v < 0 -> 127
    [] OTHER -> v

MainExit ==
  /\ pc = "exit"
  /\ exitcode' = ExitStatus(r)
  /\ bufs' = bufs \ {bmac, mac}
  /\ pc' = "done"
  /\ UNCHANGED <<args, positional, bmac, mac, ifindex, test, nbuf, objs, evq, ndisp,
                 r, helped, failed>>

Next ==
  \/ ParseOption
  \/ ParseEnd
  \/ ManagerAlloc
  \/ ManagerConfig
  \/ ManagerClient
  \/ ProbeConfig
  \/ Probe
  \/ Poll
  \/ Dispatch
  \/ PopEvent
  \/ ManagerFree
  \/ MainExit

Spec == Init /\ [][Next]_vars

(* The runner is one thread, and every call it makes returns promptly     *)
(* (spec: "no suspension points internal to the API") except poll(),      *)
(* which waits for the network: every step but Poll is weakly fair.       *)
Fairness ==
  /\ WF_vars(ParseOption) /\ WF_vars(ParseEnd)
  /\ WF_vars(ManagerAlloc) /\ WF_vars(ManagerConfig) /\ WF_vars(ManagerClient)
  /\ WF_vars(ProbeConfig) /\ WF_vars(Probe)
  /\ WF_vars(Dispatch) /\ WF_vars(PopEvent)
  /\ WF_vars(ManagerFree) /\ WF_vars(MainExit)

FairSpec == Spec /\ Fairness
-----------------------------------------------------------------------------
(* When main() returns, nothing it or run() allocated is still allocated: *)
(* the option buffers replaced by later options, the Manager, both         *)
(* configs, the client and its probe are freed on every path: each of the *)
(* five failure points of manager_new() and manager_run(), each error of   *)
(* the loop, and --test.                                                    *)
NoLeakAtExit ==
  pc = "done" => bufs = {} /\ objs = {}

(* Between two blocking points the runner never spins: option parsing,   *)
(* the set-up, and each dispatch with the pop_event() loop that drains the *)
(* events it queued all end, back in poll() or with main() returning      *)
(* (or assert() aborting): the only places it may stay for ever.          *)
ReachesPollOrExit ==
  pc \notin {"poll", "done", "aborted"} ~> pc \in {"poll", "done", "aborted"}

(* The client loop never ends by itself, so main() exits with status 0    *)
(* only for --help or a completed --test run, never after a library call  *)
(* returned a code other than success.                                     *)
ExitZeroOnlyOnSuccess ==
  pc = "done" /\ exitcode = 0 => helped \/ (test /\ ~failed)
(* The code main() returns is the one of the first call that failed: every *)
(* "if (r) return r;" of parse_argv(), manager_new(), manager_run() and    *)
(* manager_dispatch() unwinds at once, and neither run()'s _cleanup_ nor    *)
(* main()'s exit label overwrites a non-zero r -- no later call runs and   *)
(* replaces an error with its own success or error.                       *)
ErrorKept == [][r # 0 => r' = r]_vars
(* The runner's lifecycle as spec 5 and 7 describe it: main() sees the     *)
(* set-up of run() as one step, which either fails with nothing held or    *)
(* yields the Manager, the client and its probe together; the poll loop     *)
(* ends only with an error; manager_free() releases all three; and main()  *)
(* exits with the status of the code that ended the run.  The Manager and  *)
(* client that manager_new() built before manager_run() failed are part of *)
(* the set-up, so they are not visible.                                    *)
SetUpPc == {"parse", "new", "newconfig", "newclient", "run", "runprobe"}

LifePhase ==
  CASE pc \in SetUpPc -> "setup"
    [] pc \in {"poll", "dispatch", "pop"} -> "serving"
    [] pc = "free" -> IF "probe" \in objs THEN "stopping" ELSE "exiting"
    [] pc = "exit" -> "exiting"
    [] pc = "done" -> "done"
    [] pc = "aborted" -> "aborted"

LifeHeld ==
  IF pc \in SetUpPc \/ (pc = "free" /\ "probe" \notin objs)
  THEN {} ELSE objs \cap ManagerObjs

Life == INSTANCE RunnerLifecycle
          WITH Objects <- ManagerObjs, Status <- ExitStatus,
               phase <- LifePhase, held <- LifeHeld, err <- r

Lifecycle == Life!Spec
-----------------------------------------------------------------------------
(* The inductive strengthening of NoLeakAtExit.                            *)

(* The live option buffers are exactly the ones main_arg_broadcast_mac   *)
(* and main_arg_mac point to, two distinct buffers, until main() frees    *)
(* them; every buffer named so far has a number up to nbuf.                *)
BuffersOwned ==
  /\ bmac <= nbuf /\ mac <= nbuf
  /\ bmac = mac => bmac = NULL
  /\ pc # "done" => bufs = {bmac, mac} \ {NULL}
  /\ pc = "done" => bufs = {}

(* Which objects are live at each point of main(): what each step of     *)
(* manager_new() and manager_run() has built and not yet freed, the probe *)
(* config for as long as the loop runs, and after a failure just what     *)
(* run()'s manager_free() is left to free; nothing queued outside the      *)
(* loop, and a dispatch only within the bound that let poll() return.     *)
ObjectsByPc ==
  /\ pc \in {"parse", "new", "aborted", "exit", "done"} => objs = {}
  /\ pc = "newconfig" => objs = {"manager"}
  /\ pc = "newclient" => objs = {"manager", "config"}
  /\ pc = "run" => objs = {"manager", "client"}
  /\ pc = "runprobe" => objs = {"manager", "client", "probecfg"}
  /\ pc \in {"poll", "dispatch", "pop"} => objs = ManagerObjs \cup {"probecfg"}
  /\ pc = "free" => objs \in {{"manager", "client"}, ManagerObjs}
  /\ pc \in SetUpPc \cup {"aborted"} => evq = 0
  /\ pc = "poll" => evq = 0
  /\ pc = "dispatch" => ndisp < MaxDispatch

RInv == TypeOK /\ BuffersOwned /\ ObjectsByPc

(* Until a call fails, r is 0: a failure leaves for run()'s cleanup or     *)
(* main()'s exit label at once.  ErrorKept rests on it.                    *)
ErrorUnwinds ==
  pc \in SetUpPc \cup {"poll", "dispatch", "pop", "aborted"} => r = 0
=============================================================================
