# TLA+ models of n-dhcp4

This directory holds TLA+ specifications of the code under `src/src/`, TLC
configurations that model-check them, and TLAPS proofs. The repository holds
three C files:

- `n-dhcp4-network.c`: `n_dhcp4_network_client_packet_socket_new()`. It builds
  a classic-BPF program for one transaction id (xid) and opens an
  `AF_PACKET`/`SOCK_DGRAM` socket with it. The socket is set up in four system
  calls: `socket`, `setsockopt(SO_ATTACH_FILTER)`,
  `setsockopt(PACKET_AUXDATA)` and `bind`.
- `test-run-client.c`: a command-line DHCP client runner. It parses options,
  builds a client and a probe through the library API, and loops on
  `poll` / `n_dhcp4_client_dispatch` / `n_dhcp4_client_pop_event`.
- `test-api.c`: compile-and-link checks that the API exists.

`spec.md` describes the whole library. That includes the client state
machine, the codec, leases and the UDP path, none of which is in `src/`. The
models of the runner's environment take the library's behaviour from the spec
and mark it `spec_modelled` in `PROJECT.json`.

## How the parts interact

```
client library (spec) --packet_socket_new(ifindex, xid)--> socket set-up (PacketSocket)
      ^                                                          |
      |  dispatch / pop_event                                    |  kernel runs the BPF program
      |                                                          v  on each datagram (BpfFilter)
   runner (Runner) <--argv-- main (parse_argv, parse_hexstr: HexStr)
```

The library opens a packet socket for the current xid. The kernel runs the
program on every IPv4 datagram of the bound interface and queues what it
accepts. The runner sees only the readiness fd, the return codes and the
events.

## Modules

| Module | Models | State / actions |
|---|---|---|
| `BpfFilter` | The filter program (network.c 33-95) and the Linux classic-BPF interpreter | No variables. `Program(xid)` is the 28 instructions, with `BPF_STMT`/`BPF_JUMP` as in the code. A datagram is a record of header fields; `Byte(d, i)` lays them out at their real byte offsets, so absolute and indirect loads read what they read on the wire. `Step` is one instruction (opcodes decoded with `%`, loads past the end give verdict 0, `JGE` unsigned). `RunFilter` iterates `Step` as a recursive function. u32 words are held as int32 with the same bits, because TLC integers are 32-bit. |
| `FilterDelivery` | The kernel handing each arriving datagram to the filter | `frame`, `verdict`; `Arrive(d)` |
| `PacketSocket` | `n_dhcp4_network_client_packet_socket_new` (network.c 97-128) against a kernel that delivers concurrently | `sock` (kernel state per descriptor), `rcvq`, `call` (the running invocation: program counter, fd, ifindex, xid), `owner` (what the caller got back), `ncalls`. Actions: `Call`, `Socket` (`SocketOpen` of the lowest free fd, or `Fail`), `AttachFilter`, `AuxData`, `Bind`, each with its `-errno` return `Fail`. Kernel: `Arrive(d, ifx)` clones a datagram to every socket hooked to IPv4 on that interface whose filter passes it and whose queue has room. Caller (spec): `Recv`, `Close`. |
| `PacketSubscription` | What a packet socket promises its owner (spec 4.2), as an abstract specification | `subscriber`, `queue`. Actions: `Subscribe` (atomic: a free descriptor is opened for an interface and an xid with nothing queued), `Deliver`, `Receive`, `Unsubscribe`. |
| `PacketSocketProofs` | TLAPS proofs about `PacketSocket` | |
| `PacketSocketRefinement` | TLAPS proof that `PacketSocket` implements `PacketSubscription` | |
| `Runner` | `test-run-client.c`: `main`, `parse_argv`, `setup_test`, `run`, `manager_new/run/dispatch/free` | `pc`, the option globals, live heap buffers (`bufs`) and heap objects (`objs` ⊆ `HeapObjects`: Manager, client config, client, probe config, probe), queued events (`evq`), the propagated return value `r`, `exitcode`. One action per function segment between library calls: `manager_new` is `ManagerAlloc`, `ManagerConfig`, `ManagerClient`, and `manager_run` is `ProbeConfig`, `Probe`, `Poll`, `Dispatch`, `PopEvent`, each with every failure outcome of its call. Each error return includes the `_cleanup_` handlers it runs (`ManagerNewReturn` frees the config and the half-built Manager, `ManagerRunReturn` the probe config). `PopEvent` leaves out `pop_event`'s error return (lines 98-99): the spec gives `n_dhcp4_client_pop_event` no failure. |
| `RunnerProofs` | TLAPS proofs about `Runner` | |
| `RunnerLifecycle` | What a program driving the client promises (spec 5 and 7), as an abstract specification | `phase` (setup, serving, stopping, exiting, done, aborted), `held`, `err`, `exitcode`. Actions: `Leave` (a set-up step fails with nothing held), `Acquire` (everything at once), `Stop` (the loop ends, only on an error), `Release`, `Exit` (status from `err`), `Abort`. |
| `RunnerRefinement` | TLAPS proof that `Runner` implements `RunnerLifecycle` | |
| `HexStr` | `parse_hexstr()` (test-run-client.c 219-257) | `in`, loop index `i`, buffer `out` (initially uninitialized); `Iter` is one loop iteration. `Stored` reads an uninitialized byte as 0: on an odd `i` the byte was written at `i - 1` (`HInv`), so the read value is never the uninitialized one. The code's `(b << 4) \| v` on a byte is written `((b * 16) % 256) + v`: the shift clears the low four bits and `v < 16`, so the OR is the sum. |
| `HexStrProofs` | TLAPS proofs about `HexStr` | |
| `MC*` | Instances for TLC | Constants, datagram sets, option lists |

## Runs

Each run is listed in `PROJECT.json`. Each property of a passing run also has a
mutant there: a plausible bug in a mapped definition that TLC must then catch.

- **filter_vs_spec** (pass, 966 datagrams): the filter is checked against
  spec 4.2.
  - Datagrams: every combination of a valid and an invalid value of each field
    it reads. The xid and magic cookie also appear byte-swapped, to catch
    endianness slips.
  - IP headers of 20 and 24 bytes; the 24-byte case checks the MSH-relative
    offsets.
  - Lengths one short of, at and above the minimum, plus runts shorter than the
    IP header. Runts of 8 and 9 bytes end at the load of the protocol byte
    (offset 9). Runts of 10 and 19 bytes get past it and reach `A -= X`, which
    wraps to 0xfffffff6 and 0xffffffff. The unsigned `JGE` then takes them as
    long enough, and only the out-of-bounds load of the UDP port drops them.
  - frag_off values: 0, DF, MF, offset 1 and offset 256.
  - Properties: `FilterAdmitsReplies` (completeness) and `FilterChecksReply`
    (soundness of every check except the fragment offset).
- **filter_fragments** (violation): `FilterDropsFragments` fails for
  frag_off = 1, which gets verdict 65535. The program loads frag_off with
  `BPF_B`, i.e. its high byte only, so the offset's low byte is never tested.
  This is a code bug.
- **packet_socket** (pass, 2711 states):
  - Bounds: two interfaces, two xids, two descriptors, three calls and queues
    of two, with datagrams for both xids and a TCP datagram. That is enough for
    one socket to be owned while a second call's socket is half set up, and for
    a datagram to arrive at every step of the set-up.
  - Properties: `QueuedFramesMatch`, and the strengthening `IInv` it is proved
    with.
  - `LeakedSocketsDeaf`: a descriptor left open by a failed call (see
    packet_socket_leak) is hooked to no protocol and has nothing queued. The
    leak costs a table slot but no kernel memory, and it does not cost a clone
    per arriving datagram. This holds only because `socket()` is called with
    protocol 0; the mutant that opens with `ETH_P_IP` breaks it.
- **packet_socket_refines** (pass, same bounds): `Subscribes`. `PacketSocket`
  implements `PacketSubscription` under the mapping `Sub`: `owner` is the
  subscriber, and a descriptor's queue is visible (`SubscribedQueue`) only once
  the function has handed it back. `socket()`, the two `setsockopt()` calls and
  every error return are stutters; `bind()` is `Subscribe`. The check fails if
  anything reaches the queue before `bind()`, e.g. with a socket created with
  protocol `ETH_P_IP` instead of 0. A delivery the kernel drops looks like a
  stutter, so the refinement states soundness, not completeness, of delivery.
- **packet_socket_leak** (violation): `NoLeakedSocket` fails because the error
  returns after `socket()` never close the descriptor. This is a code bug.
- **runner** (pass):
  - Bounds: every option list of up to three options, three dispatches, and up
    to two events per dispatch.
  - `NoLeakAtExit`: when `main()` returns, no buffer and no heap object is
    live, whichever of the five allocations of `manager_new` and
    `manager_run` fails. The mutant whose `manager_run` error return forgets
    the probe config breaks it.
  - Action property `ErrorKept`: once `r` is non-zero, no step changes it.
    Every `if (r) return r;` unwinds at once, so `main()` reports the first
    failure. The mutant that drops the return after `manager_dispatch()`
    breaks it.
  - `CHECK_DEADLOCK FALSE` because the process really stops: after `main`
    returns, and after `assert` aborts.
  `RInv`, the strengthening the proofs use, is checked here as well.
- **runner_live** (pass, same bounds): `ReachesPollOrExit` under `FairSpec`.
  Between two `poll()` calls the runner always gets back to `poll()` or
  returns from `main()`. In particular, the `pop_event` loop ends once the
  queue is empty.
- **runner_lifecycle** (pass, same bounds as runner): `Lifecycle`. `Runner`
  implements `RunnerLifecycle` under the mapping `Life`:
  - `LifePhase` translates `pc`. `parse`, `new` and `run` are the set-up, and
    `poll`, `dispatch` and `pop` are serving; the intermediate points of
    `manager_new` and `manager_run` (`SetUpPc`) are set-up too. `free` is
    stopping once the probe exists and exiting before.
  - `LifeHeld` is the live Manager, client and probe once the probe exists,
    and nothing before; the configs are internal.
    A half-built Manager is torn down inside the set-up, so it is not visible.
  - `err` is `r`.
  The mutants of `ManagerClient` (it does not clear its own pointer, so its
  `_cleanup_` frees the Manager it has just handed out), `ManagerFree` (keeps
  the probe) and `Dispatch` (does not return on an error) each break it. `CHECK_DEADLOCK FALSE` for the same reason as runner.
- **runner_exit** (violation): `ExitZeroOnlyOnSuccess` fails.
  `N_DHCP4_E_PREEMPTED` and `MAIN_EXIT` are both 1, so a Preempted dispatch
  ends the client loop with exit status 0.
- **hexstr** (pass): every string of up to four characters over
  `0 9 a f A F g`. `ParsesReference` compares the loop's result with the
  closed-form meaning of the string. `HInv`, the loop invariant the proof
  uses, is checked as well. The run stops when the loop ends.

## Fairness

One run, runner_live, assumes weak fairness (`Fairness` in `FairSpec` of
`Runner`): every step except `Poll` is fair. The runner is one thread, and the
  spec says every client call returns promptly. `poll()` waits for the
  network, so the runner may stay blocked there for ever.

## Proofs (TLAPS)

`PacketSocketProofs` proves, for every value of the constants under the
assumptions in `PacketSocket`:

- `IInvariant`: `Spec => []IInv`
- `FilteredQueues`: `Spec => []QueuedFramesMatch`
- `TypeCorrect`: `Spec => []TypeOK`
- `LeakedDeaf`: `Spec => []LeakedSocketsDeaf`

`QueuedFramesMatch` is not inductive on its own. A datagram queued while the
function is between its system calls is only constrained by what the socket is
hooked to at that moment. `IInv` adds the facts that make it inductive:

- `DeafUntilBound`: a socket hooked to protocol 0 has an empty queue.
- `HookedIsSetUp`: a hooked socket is open, filtered and bound to one
  interface.
- `OwnedIsHooked`: a returned socket carries the requested filter and
  interface.
- `CallSetsUp`: the socket a running call is setting up is open, unhooked and
  unreturned, and has the call's filter once attached.
- `QueuedPassFilter`: what a hooked socket queued passed its own filter.

The proof has one lemma per action. It needs three further lemmas:

- `LowestFreeFdIsFree`: a non-empty set of naturals has a least element, from
  `WellFoundedInduction`.
- `OwnedIsOpen`: `socket()` never hands out a returned descriptor.
- `FilterUpdate`, `AuxDataUpdate` and `BindUpdate`: the record updates keep a
  socket well formed.

`LeakedSocketsDeaf` needs one more fact, `HookedIsOwned`: only a returned
socket is hooked to IPv4. `bind()` sets the protocol and the owner in one
step, and `close()` resets both. `socket()` opens with protocol 0.
`HookedIsOwned` is proved inductive under `IInv` (`HookedIsOwnedStep`), with
one case per action. Then an open, unowned socket has protocol 0, and
`DeafUntilBound` gives it an empty queue.

The filter verdict `Passes(Program(x), d)` stays opaque throughout. The theorem
is about the order of the system calls and holds whatever the program
computes; what the program computes is checked by TLC in filter_vs_spec.

`PacketSocketRefinement` proves `Refinement`: `Spec => Subscribes`. It uses
`IInv` and nothing more:

- The socket being set up is unreturned, so its queue is invisible, and it is
  deaf until `bind()`. So `bind()` hands it back with an empty queue.
- A returned socket carries its owner's filter and interface. So `Arrive` is
  exactly `Deliver` on the visible queues.

There is one lemma per kind of step. Then `Init => Sub!Init`, and
`IInv /\ [Next]_vars => [Sub!Next]_Sub!vars`.

`RunnerProofs` proves the following for option lists of any length (TLC checks
lists of up to three), any `MaxDispatch` and any `MaxEvents`:

- `RunnerInvariant`: `Spec => []RInv`
- `NoLeakOnEveryArgv`: `Spec => []NoLeakAtExit`
- `FirstErrorReported`: `Spec => ErrorKept`, an action property

`RInv` adds two invariants that make these inductive:

- `BuffersOwned`: the live buffers are exactly the two that the option globals
  point to. They are distinct, and named by numbers up to `nbuf`, so a fresh
  buffer never aliases the one it replaces.
- `ObjectsByPc`: this gives the exact set of live objects at each program
  point (at `free`, with or without the probe), that no event is queued in
  the set-up or at `poll()`, and keeps a dispatch within the bound `poll()`
  checked. Each error return of `manager_new` and `manager_run` has a lemma
  (`ManagerNewReturnStep`, `ManagerRunReturnStep`) that its cleanup leaves
  exactly what the next point expects.

The buffer branches of `parse_argv` carry the argument. A new buffer frees the
old one of the same option, and `--test` replaces both.

`FirstErrorReported` rests on its own invariant, `ErrorUnwinds`: at every
point where a call can still be made, `r = 0`. Every `Return` with a non-zero
code jumps to `free` or `exit`. So a step from a state with `r # 0` is
`ManagerFree` or `MainExit`, and neither assigns `r`.

`RunnerRefinement` proves `LifecycleRefinement`: `Spec => Lifecycle`, for
every argv and every bound. The invariant is `LInv`, made of `RInv` and
`ErrorUnwinds`; `ObjectsByPc` already says which objects exist at each point.
`SetUpStutter` covers the steps that stay inside the set-up and `SetUpLeave`
those that leave it with an error.

There is one lemma per action of `main()`, and each names the abstract step it
takes:

- Every error return during the set-up is `Leave`, with `r # 0`. After a
  failed `manager_run`, `free` maps to exiting with nothing held.
- `assert()` is `Abort`.
- The probe's creation is `Acquire`: into the loop, or with `--test` straight
  to `free` with `r = 0`.
- A `poll()` or `manager_dispatch()` error is `Stop`. `ErrorUnwinds` gives
  `r = 0` before, and the error code is non-zero.
- `manager_free` is `Release` when the probe exists, and a stutter otherwise.
- The exit label is `Exit`, since `exitcode' = ExitStatus(r)`.
- All other steps are stutters.

`PhaseOf` and `PhaseOfNext` evaluate the mapping at each program point.

`HexStrProofs` proves the following for argument strings of every length (TLC
checks up to four characters):

- `HexStrInvariant`: `Spec => []HInv`
- `ParsesEveryString`: `Spec => []ParsesReference`

`HInv` is the loop invariant `PrefixParsed`. After `i` iterations:

- each byte whose two digits are both read holds `16 * hi + lo`;
- a byte whose first digit was just read holds that nibble;
- every later byte is still uninitialized.

An iteration at an even `i` writes the nibble. At an odd `i` it shifts the
stored nibble and adds the new one. When `i = Len(in)`, this is the
closed-form `Reference`. The lemma `NibbleRange` bounds what a character
decodes to, which makes the shift-and-add exact.

These stay with TLC only:

- Liveness and `ENABLED`, which this prover does not handle:
  `ReachesPollOrExit` is checked by TLC only.
- The filter properties `FilterAdmitsReplies` and `FilterChecksReply`.
  `RunFilter` is a recursive function over the instruction index. To unfold
  it, the prover needs the library's recursion theorems, and those take an
  operator parameter that no installed backend can instantiate. So what the
  program computes for every datagram would need induction over data, which
  is out of reach. TLC checks it on the 966 datagrams of filter_vs_spec.

## Not modelled

- The client state machine, probes, leases, the codec and the UDP path are not
  in `src/`.
- `test-api.c` has no state.
- Formatting of messages (`fprintf`, `print_help`) is left out: no property is
  about it.

## Plan

Next sittings, in order:

1. A spec-modelled client module (INIT..REBINDING, xid rotation, probe
   cancellation). It composes `PacketSocket`: a new socket per xid, with the
   old one closed.
2. A refinement of that module to an abstract lease-event specification.
