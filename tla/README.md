# A TLA+ verification of libbpf_dev

The repository holds three small eBPF tools for Android on arm64: `libbpfstrace`
(an strace for one process), `libbpfso` (a uprobe on `android_dlopen_ext`) and
`libbpfapp` (a sample on the `execve` tracepoints).  This directory models them in
TLA+, checks the models with TLC on small instances, and proves the central
properties with TLAPS for every instance.

## The parts of the system

| part | code | what it does | model |
|---|---|---|---|
| kernel programs of libbpfstrace | `libbpfstrace/libbpfstrace.bpf.c` 11-65, 143-238 | `handle_sys_enter` stores an entry in the hash map `inflight` under `pid_tgid`; `handle_sys_exit` looks it up, reserves, fills and submits a ring-buffer record and deletes the entry | `StraceKernel`, `BpfMaps` |
| main of libbpfstrace | `libbpfstrace/libbpfstrace.c` 33-40, 466-563 | arguments, wait for the process, open / write `.rodata` / load / attach, poll loop, signals, cleanup, exit status | `StraceMain` |
| skeleton | `libbpfstrace/out/libbpfstrace.skel.h` | generated open, load, attach, destroy; fixes the order enter, exit | its order is in `StraceMain`, `StraceKernel` and `Strace` |
| libbpfstrace as a whole | main and the programs together | main's calls act on the programs, poll reads the ring | `Strace` |
| capture | `libbpfstrace.bpf.c` 67-141 | which string and which socket address of a call are copied | `StraceCapture` |
| search | `libbpfstrace.c` 358-464, 489-504 | pid or process name; scan of `/proc` | `FindTarget`; one step of `StraceMain` |
| formatting | `libbpfstrace.c` 42-356 | names, flags, addresses, one line per event | path and address in `StraceCapture`; the flags and the line of `openat` in `SyscallFormat` |
| libbpfso | `libbpfso/*` | uprobe program, main with poll loop | `LibbpfSo` |
| libbpfapp | `libbpfapp/*` | `execs` map with `BPF_NOEXIST`, main | `LibbpfApp`, `BpfMaps` |
| build, vendored SDK, kernel headers | `Makefile`, `ebpf-android-sdk/`, `akita-include/` | no run-time state of the tools, or binary | not modelled; what the tools use of libbpf and the kernel appears as external actions |

How they interact: `main` writes the filter `target_tgid` into `.rodata`, loads and
attaches `sys_enter` and then `sys_exit`, and polls the ring buffer.  From then on the
threads of the machine run the two programs concurrently on their CPUs.  The only
shared state is `inflight` (one key per thread) and the ring buffer (all threads produce,
main consumes).  On a signal, main leaves the loop and detaches `sys_enter`, then
`sys_exit`.

## The modules

* `BpfMaps`: the kernel's bounded hash map; a new key fails when `max_entries` keys are
  stored, an existing key can be overwritten.
* `StraceKernel`: the kernel side.  Every system call has a number that stands for all
  that is captured about it and for its result, so a record that mixes two calls has
  `enter # ret`. The first half of `handle_sys_exit` (filter, lookup) is one step with the
  tracepoint; then reserve, fill-and-submit and delete (or drop) are steps of their own,
  with other threads and the consumer between them.  Within one step a program touches one
  shared object, so this is the finest interleaving that can be observed. `log` is the
  ring buffer: all records ever reserved, of which `log[1..cons]` have been consumed and
  at most `RingMax` are not. `recorded`, `dropped` and `missed` are history: properties
  read them, actions do not. External actions are those of the kernel: system calls,
  `clone`, the end of a thread (in `exit` or `exit_group`, which have no `sys_exit`, or
  between two calls), a call refused by seccomp (on arm64 `sys_exit` fires and `sys_enter`
  does not), and `execve` by a thread that is not the leader, which returns under the
  leader's id.
* `TraceLog`: what the kernel side promises, without map, ring or handlers: the target is
  chosen once; a call of one of its threads opens, and finishes into the thread's line of
  reports or is dropped; reports are delivered once and, per thread, in order.
  `ImplementsTraceLog` of `StraceKernel` has the refinement mapping: a call is open
  between its entry being stored and its record being submitted or dropped.
* `StraceMain`: `main` statement by statement, every library call with its failure,
  `sig_handler` at any point, and the traced process starting, calling and ending.
  A wait with nothing to read can also return `-EINTR` without the flag being set (a stop
  and a continue of main); the loop then polls again.  `epoll_wait` reports a readable
  ring before it looks at signals, so such interruptions never hold back a record.
  The ring is a number of readable records that the process raises.
* `Strace`: both together.  main's library calls are joint steps with the kernel (load
  fixes the target, attach and destroy switch the programs, poll consumes from the log),
  and `StraceMain` is instantiated with what main sees of the kernel: `Links`, `Avail`,
  `Proc`.
* `FindTarget`: how main gets its pid.  `readdir` hands out buffered, possibly stale
  entries; `cmdline` and `comm` are separate reads; processes start, end, change names and
  reuse pids between any two steps.  A name is what `process_name_match` tells apart:
  whether it has the prefix, and what follows.  `seen` is history.
* `SyscallFormat`: `format_openat_flags` as the calls of `APPEND_FLAG` one after the other
  (`Appended`, a recursive function), over flags as sets of bits with the values of arm64,
  and the length of the resulting line; operators that `StraceCapture` uses when it prints
  an `openat`.
* `LibbpfApp`: the `execve` program, insert / lookup / fill / delete as steps of
  concurrent threads on the shared map, tids that are reused, and `main`.
* `StraceCapture`: one call from its arguments to what is printed of the memory it points
  to.  Memory is abstracted to sizes (how long the string is, how many bytes are
  readable), the family stored there, and a version that other threads increase by
  rewriting it between the two reads of an address.  `PathArg`, `AddrArg` and
  `AddrLenArg` are the reference: where the kernel's interface has these arguments.
* `LibbpfSo`: the uprobe program in the context of any thread, `main`, and the ring buffer
  between them.  The program is attached before the ring buffer manager exists, and the
  signal handlers come last; a signal before them ends the process.  `err` starts
  unassigned, and a status computed from it may be either value.
* `MCStraceKernel`, `MCStrace`, `MCLibbpfApp`, `MCFindTarget`, `MCStraceCapture`: the ids,
  images, sizes and flags used by TLC.
* `StraceKernelInv` and the modules ending in `Proofs`: the proofs, see below.

Operators whose name has a suffix (`DropDelete_leak`, `Enough_more`, ...) are plausible
faults of the operator after them.  No action uses them; each property fails when one of
them takes the place of the right definition, which shows that the property bites.

## The runs

| run | checks | result |
|---|---|---|
| `kernel` | types, `EventJoinsOwnEntry`, `TargetOnly`, `EntriesReportedInOrder`, `NoLeakByHandler`, `RecordedCallAccounted`, `SubmittedStable` | hold; 1.7 million states |
| `kernel_pairing` | `EnterExitSameCall` | violated, finding 1 |
| `kernel_leak` | `FullOnlyWithLiveThreads` | violated, finding 2 |
| `main` | types, `EverythingReleased`, `FailureReported`, `AttachedIsFiltered`, `StopsOnceQuiet`, `StatusOfLastPoll` | hold |
| `main_interrupt` | `InterruptEndsPoll` | violated, finding 3 |
| `strace` | `MainImplemented`, `KernelImplemented`, `EveryRecordDelivered`, `ImplementsTraceLog` | hold |
| `find` | `FoundBoreName`, `TracesOnePid`, `PatientSearchFinds`, `SignalEndsSearch`, `ImplementsFind` | hold |
| `capture` | types, `ReadablePathPrinted`, `ReadWithinLength`, `ConnectBindComplete`, `NoHalfAddress`, `TextFits`, `FlagsReadBack` | hold; 0.8 million states |
| `capture_sendto` | `AddressOfAddressArgument` | violated, finding 4 |
| `so` | `ReleasedInReverse`, `UnsetOnlyKnownCases`, `CallsAccounted`, `EveryRecordDelivered`, `SignalEndsMain` | hold |
| `so_status` | `FailureReported` | violated, finding 5 |
| `app` | `ElementsInUse`, `PrintsOwnEvent`, `MyPidKnown`, `ReleasedAndReported`, `ElementsReturn`, `RefusedOnlyWhenFull` | hold |

What the properties say:

* `EventJoinsOwnEntry`: when the returning call was stored at its entry, the record
  carries that entry.
* `TargetOnly`: no record of another process.
* `EntriesReportedInOrder`: no entry is reported twice, and a thread's records are in
  the order of its calls.
* `NoLeakByHandler`: the programs delete what they stored, on every path that runs.
* `RecordedCallAccounted`: a stored call is running, in the ring, dropped at a full
  ring, or its exit was never seen.
* `SubmittedStable`: a submitted record is never written again.
* `EveryRecordDelivered`: a record reserved is consumed, or the program shuts down.
* `EverythingReleased`, `FailureReported`: cleanup and exit status after any failure.
* `AttachedIsFiltered`: the filter is set before anything is attached.
* `StopsOnceQuiet`: after a signal main ends once the traced process is gone for good.
* `StatusOfLastPoll`: when a signal ends the loop, the exit status is that of the last
  poll: 1 when it was interrupted (Ctrl-C during the wait) or had printed records, 0 when
  it timed out.  Polls before it, interrupted ones included, leave no mark.
* `MainImplemented`, `KernelImplemented`: the composition implements `StraceMain` and
  `StraceKernel`, each with its fairness.  What main assumes of the ring and what the
  kernel side assumes of its consumer is thereby shown, not assumed.
* `ImplementsTraceLog`: the abstract log is implemented by the whole.
* `FoundBoreName`: the pid a search returns bore the name at some moment of that scan.
  That it still does when the programs are attached cannot be promised by this design.
* `TracesOnePid`: main goes on with a pid only; 0 would trace every process.
* `PatientSearchFinds`, `SignalEndsSearch`: a process that keeps its names is found, and a
  signal ends the search.  A process whose `cmdline` and `comm` bear the name by turns may
  be missed, since the two are read one after the other.
* `ImplementsFind`: the search, entry by entry and with signals between any two steps,
  implements the one step `Find` of `StraceMain`: main goes on with a pid that was found
  and without a signal, or ends with status 1 and nothing opened.  A signal between the
  hit and the check after the loop is one of the cases.
* `ReadablePathPrinted`: a path is printed as text exactly when it is readable.
* `ReadWithinLength`: no more bytes are asked for than the caller's address length.
* `ConnectBindComplete`: connect and bind print exactly the complete addresses, as long
  as nobody rewrites them meanwhile.
* `NoHalfAddress`: an address is NULL or has a known family, and its family, port and
  address are of one moment unless another thread rewrote the memory after the first
  read.  (So the last line of `format_sockaddr`, for other families, is never reached.)
  With such a rewrite the two reads may mix two addresses; the code cannot notice it.
* `ReleasedInReverse`: libbpfso ends with nothing held, and releases in reverse order.
* `UnsetOnlyKnownCases`: libbpfso reads an unassigned `err` only when the ring buffer could
  not be created or a signal came before the first poll.
* `CallsAccounted`: a call libbpfso saw is reported once, lost at a full ring, or still in
  the program; no half-filled record is printed.
* `SignalEndsMain`: libbpfso ends after a handled signal once no library is loaded any
  more (`MaxCalls` bounds the calls; the loop has the shape of finding 3).

* `TextFits`: no combination of flags reaches the end of `flagbuf`, and no openat line
  that of `callbuf`.
* `FlagsReadBack`: the names printed are the flags passed that have a name, except that
  either bit of `O_SYNC` prints `O_SYNC`.
* `ElementsInUse`, `ElementsReturn`: an element of `execs` exists only while its thread is
  inside the program, and is deleted again.
* `RefusedOnlyWhenFull`: an `execve` goes unreported only while the map is full of other
  threads' events; `BPF_NOEXIST` never meets what an earlier call left.
* `PrintsOwnEvent`: what a thread prints is the event of its own call.
* `MyPidKnown`: the program never runs before `my_pid_map` is written.
* `ReleasedAndReported`: nothing stays attached, and a failure survives the eight bits of
  the exit status.

Findings, each a sentence of the repository that the code does not keep:

1. `libbpfstrace.bpf.c:59` says that `pid_tgid` associates entry and exit.  An entry
   whose own exit was not seen stays in the map, and a later exit that had no entry
   (a call refused by seccomp, for instance) is reported with its arguments.
   `EventJoinsOwnEntry` is what does hold.
2. `readme.md:4` says all system calls of the process are covered.  `exit` and
   `exit_group` have no `sys_exit`, so a thread that ends in one leaves an entry behind.
   The run reaches a map filled with the help of such an entry while fewer than
   `max_entries` threads are alive; then new keys are refused, and the failed update is
   ignored.
3. `libbpfstrace.c:485` says the handlers guarantee that the loop can be interrupted.
   `ring_buffer__poll` returns when the ring is empty, and `exiting` is read only between
   polls; a process that produces as fast as main consumes keeps main in one poll.
   `StopsOnceQuiet` is what does hold.
4. `libbpfstrace.bpf.c:35` says that the sockaddr of network calls is captured.  For
   `sendto` the program follows `args[1]`, the payload, with the length of `args[4]`, and
   prints the result as `dest_addr`.
5. `libbpfso.c:78` reports that the ring buffer could not be created, but `err` is not
   assigned on this path (line 72 does it on the one before), so the exit status may be 0.

Two more places where code and comment part, seen while modelling and stated here only:
`APPEND_FLAG` tests for a common bit and `O_SYNC` contains `O_DSYNC`, so `O_DSYNC` alone is
printed as `O_DSYNC|O_SYNC` (`FlagsReadBack` says exactly this); and `libbpfapp.c:32` says
the program only handles calls of our process, but it prints `my_pid` and compares it
with nothing.

### Bounds

`kernel` uses two threads of one process and one of another (leader, non-leader and
filtered thread), two map entries (one fewer than threads, so the map fills up), one ring
slot (so the ring is full whenever a second thread returns) and three calls (an entry
left behind, a call without entry, and one more).  `kernel_pairing` and
`kernel_leak` use the one process.  `main` uses a ring of three records.  `strace` has two
threads of the traced process, two ring slots and two calls, so that a busy record holds
back a submitted one.  `find` has three pids (one
before, one at and one after any position of the scan; the largest is also the largest
number allowed) and processes found by `cmdline`, found by `comm` only, and with a longer
name.  `app` has two threads of a process, a process that can get a tid of theirs and
one more, over a map of two elements, and error numbers from the ends of their ranges.
`capture` takes lengths at and next to 2, 16 and 28, readable sizes up to each structure,
strings at and next to the buffer size, one rewrite of each object, and as flags every bit
alone, every two, all, and one without a name (an `APPEND_FLAG` depends on the others
through `off` only).  `so` has two
threads, two ring slots and three calls, so the ring fills while a record is busy.  `MaxCalls`
is the only bound on behaviours, and the proofs have none of these bounds: they hold for
any value of the constants.

### Fairness

`StraceKernel`: a BPF program that has started runs to its end (it cannot be blocked or
preempted for ever), and main polls while both programs are attached; threads, signals
and attaching have no fairness.  `StraceMain`: main itself is scheduled, and its
`sleep(1)` and 200 ms wait end; signals and the traced process have no fairness.
In `Strace` only main and the programs that have started are fair; the fairness of the
consumer follows and is checked by `KernelImplemented`.  `LibbpfSo` combines both.
`FindTarget`: main is scheduled, and `opendir` does not fail for ever (strong fairness of
its success; without it no search could be promised to end).  `LibbpfApp`: a program
that has started runs to its end.
Deadlock is checked in `StraceKernel`; the other systems really stop: main
returns, the one call is printed.

## What is proved

`StraceKernelProofs` proves, for any set of threads, any map and ring size and any
number of calls: `TypeCorrect`, `JoinCorrect` (`EventJoinsOwnEntry`), `FilterCorrect`
(`TargetOnly`), `OrderCorrect` (`EntriesReportedInOrder`), `NoLeak` (`NoLeakByHandler`),
`NothingLostSilently` (`RecordedCallAccounted`) and `SubmittedNeverRewritten`
(`SubmittedStable`).

The only assumption is `KernelAssumption`: ids are pairs of positive numbers, every
process has an id for its leader, and the sizes are positive.

All follow from `Invariance`: `IInv` of `StraceKernelInv` holds always.  Its parts:

* `Numbered`: call numbers grow, so a new call is newer than all that exists;
* `FilterKept`: nothing is stored or reserved before the filter is final;
* `BusyOwned`: a busy record belongs to exactly the thread that is filling it and is its
  last one; without it a submit might overwrite another thread's record;
* `DeleteAfterSubmit`, `EntryPresent`: what a thread inside the handler may rely on
  although others run between its steps: only the owner deletes its key;
* `OwnEntry`: during a recorded call the map holds that call's entry; this is what makes
  the join correct;
* `CallsNotShared`: needed for `execve`: the call handed to the leader was not recorded
  under the leader's id;
* `EntryIsNewest`: a stored entry is newer than what its thread has reported; this
  gives the order;
* `EntryOfRunningCall`: an entry is of the running call or of a missed one; this gives
  `NoLeakByHandler`.

`StraceKernelInv` has the initial states, the consumer, attaching, the six steps of a
thread and the four steps of `handle_sys_exit`; `StraceKernelProofs` puts them together.

`LogImplemented` proves `Spec => ImplementsTraceLog`: initial states map to initial
states, and each action is shown to be a step of `TraceLog` or a stutter.  It uses `IInv`
and `StepStable`; most of the work is in showing that a submit extends exactly one
thread's line.

The type invariants of `FindTarget`, `LibbpfApp` and `LibbpfSo` are proved with their
theorems and are not among the runs.

`StraceMainProofs`, for a ring of any size: `MainTyped`, `MainCleansUp`
(`EverythingReleased`), `MainReports` (`FailureReported`) and `MainFilters`
(`AttachedIsFiltered`).  The invariant `MainInv` says what main holds and
what `err` can be at every label.  `LastPollKept` is the safety half of `StatusOfLastPoll`:
once the flag is set outside a poll main polls no more and `err` does not change, and the
status of a main that has ended is 0 for an `err` of 0 and 1 for any other.  That it ends
needs fairness.

`StraceProofs`: the composition, for any threads and any sizes of map and ring.

* `KernelPart`: `StraceSpec => Spec` of `StraceKernel`, so all its theorems hold with main
  as the user of the programs; `WholeImplementsLog` (`ImplementsTraceLog`) is one of them.
* `MainPart`: `StraceSpec => M!Spec`, where main's `links`, `avail` and `proc` are computed
  from the kernel side.  The hard step is that one step of a thread may raise the number
  of readable records by any amount that still fits, through a link main has made, and
  never lowers it (`KernelIsProcess`).  It needs `WholeInv`: `IInv` with `Joined`, which
  bounds the ring, says that no record and no running handler precedes the attachment of
  `sys_exit`, and relates the state of the programs to the statement main has reached.
* `WholeCleansUp`: a finished main has both programs detached, whatever failed and
  wherever the threads stood, and has reported the failure.  It carries `MainInv` over
  from `StraceMainProofs` through `MainPart`.
* `WholeFilters`: once anything is attached the filter is the pid asked for, and every
  record is of that process.  Neither part can state this alone: `StraceKernel` allows any
  filter, 0 included, and `StraceMain` knows no records.

`StraceCaptureProofs`: every invariant of the run `capture`, for strings, lengths, readable
sizes, families and flags of any value and any number of rewrites: `CaptureTypes`,
`PathCorrect` (`ReadablePathPrinted`), `ReadsBounded` (`ReadWithinLength`),
`AddressComplete` (`ConnectBindComplete`), `AddressWhole` (`NoHalfAddress`), `OpenatFits`
(`TextFits`) and `FlagsCorrect` (`FlagsReadBack`).  `OnlySendtoDiffers` complements finding 4:
for every call but `sendto` the address comes from the address argument.
`CaptureAssumption` says only that the sizes and families are natural numbers and flags
sets of bit positions.  The invariant `CaptureInv` says, for each step of the capture,
what the entry holds then: a path whose length is cut to the buffer, a family read from a
version not newer than the memory's, and an address that was read after it and agrees with
it while the version is the same.
What the text of the flags is for every set of flags is proved by induction along the
table of `APPEND_FLAG`: `UpTo` is induction up to a bound with the predicate given as a
set, from the well-foundedness of the natural numbers; with it `AppendedDef` shows that
the recursion has a solution and `FlagText` what it contains and how long it can be.

`FindTargetProofs`, for any number of pids and any images: `SearchCorrect`
(`FoundBoreName`) and `SearchGivesPid` (`TracesOnePid`).  `SearchInv` adds that during a
scan `seen` has every process that bears the name now, so that a read that matches is of
one of them.  `SearchImplementsFind` (`ImplementsFind`) shows that the scan, entry by
entry, is the one step `Find` that `StraceMain` takes for it (its process is "alive" once
the search has met it), which rests on `LeftForAReason`: the loop is left with a pid or
after a signal only, so the test `target_pid <= 0` after it never decides.  `FindTarget`
starts after the calls of `signal()`, so the refinement starts at the states in which
`StraceMain` has left "args". `RealSearchEnds` follows: the search ends in a trace or,
after a signal, in the end of main.

`LibbpfAppProofs`, for any threads and any size of `execs`: `ElementsHeld`
(`ElementsInUse`), `RefusedWhenFull` (`RefusedOnlyWhenFull`), `ScratchElements`
(`PrintsOwnEvent`), `PidFirst` (`MyPidKnown`) and `MainOrder` (`ReleasedAndReported`).
`AppInv` needs `TidsUnique`: two live threads never share a key.  `KeysInside`, that the
keys are exactly the tids inside the program, gives `RefusedWhenFull`.  The assumption
`AppAssumption` says that the threads are finitely many and gives the error numbers of the
kernel and of libbpf, none of which is a multiple of 256.

`LibbpfSoProofs`, for any threads, ring and number of calls: `SoReleases`
(`ReleasedInReverse`), `SoMainCorrect` (`UnsetOnlyKnownCases`) and `SoCallsCorrect`
(`CallsAccounted`).  `MainHeld` is what main holds at every label; `Records` says that a
busy record belongs to the one thread filling it and that a call has at most one record.

So every invariant and every action property of the passing runs has a theorem.  Only
model-checked: the liveness properties (`EveryRecordDelivered`, `StopsOnceQuiet`,
`StatusOfLastPoll`, `PatientSearchFinds`, `SignalEndsSearch`, `SignalEndsMain`,
`ElementsReturn`), since liveness under fairness is beyond the prover, and the fairness
in `MainImplemented` and `KernelImplemented`, whose safety is `MainPart` and `KernelPart`.

## Not modelled

* Tables and wording of the output: `errno_name`, `futex_op_name`, `syscall_name`, the
  formats of the calls other than `openat` and of the line itself.
* The embedded object file and the C++ wrapper of the generated skeletons, and
  allocation failures inside them, which reach main as a failed open.
* The build.
* The vendored SDK and kernel headers (`ebpf-android-sdk/`, `akita-include/`): about 2.17
  million of the lines under `src/` are generated or copied declarations (`vmlinux.h`,
  uapi and kernel headers) and binaries.  They have no behaviour of their own; against
  them the roughly 1150 lines of the three tools are a small fraction of one percent, and
  so is any share of `src/` a model can cover.
* libbpf, the BPF verifier and the kernel: what the tools use of them appears as external
  actions.
