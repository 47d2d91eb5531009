# tdvmm in TLA+

tdvmm is a single-vCPU virtual machine monitor on KVM. It owns the guest's
time: the guest's TSC is `host TSC + offset`, and when the guest is idle and
nothing outside is in flight the VMM *jumps* the offset to the next scheduled
event instead of waiting for it (fast-forward). It emulates the local APIC,
IOAPIC, PIT, PIC and UARTs in userspace, talks to an agent in the guest over a
serial line, lends the guest outbound TCP over another one, and ends the run on
a virtual-time budget or on the verdict of a test driver.

These modules model that program from its source (`src/src` is the VMM crate,
`src/tdvmm-agent` the guest agent, `src/tdvmm-proto` the shared protocols,
`src/sdk/go` the drivers' library). TLC
checks them on small instances; TLAPS proves the safety results that have a
proof module for every value of their constants. `PROJECT.json` maps each
definition to the lines it models and lists the hazards the properties are for.

    tlc -workers 2 -config ff_modes.cfg MCFastForward
    tlapm LoopProofs.tla

## Inventory

| Part | State | Operations | Interacts with | What is hard | Correct means |
|---|---|---|---|---|---|
| Virtual clock (`vtsc.rs`), event queue (`events.rs`) | offset, cached and in KVM; heap of deadlines | `vtsc_now`, `bump_offset`, `schedule`, `pop_due`, `peek_deadline` | run loop, park | one clock in two places; a failed ioctl between them | guest and VMM always read the same time; it never goes back |
| vCPU run loop (`main.rs: run_user_backend`) | position in the loop, stop reason | service timers, pump egress, fold agent lines, inject, arm doorbell, KVM_RUN, exits | everything | host time advances and signals land between any two steps | a budget ends the run; a finish line ends the run |
| Idle park (`park_until_deliverable`, `park.rs`) | none of its own | service, pump, gate, jump, ppoll wait | clock, LAPIC, egress, console | the gate's verdict is used later than it is taken | no leap past an event, none while a connection is open; a guest with a tick wakes |
| Local APIC (`lapic.rs`), IOAPIC (`ioapic.rs`) | IRR, ISR, TPR, SVR, timer, redirection table | MMIO reads/writes, `deliverable_vector`, `ack_injected`, `eoi`, `fire_timer_if_due` | KVM's `kvm_run` fields, run loop, devices | CR8 shadow of TPR, one-deep KVM queue, bails before entry | nesting follows priority; no vector lost or overwritten |
| Doorbell (`doorbell.rs`) | POSIX timer, FIRED, `immediate_exit`, last armed deadline | `clear`, `arm`, signal handler | run loop, KVM | signal before entry, cached deadline after a jump, early fire | an exit-free guest is preempted for its deadline |
| Egress backend, COM4 (`egress.rs`) | session table, resolving set, partial frame, pending frames, sockets, resolver thread and its mailboxes | `pump`, `handle_*`, `harvest_resolves`, `service_sessions`, `is_quiescent` | park's gate, guest forwarder, DNS, sockets | resolver races the pump, ids reused, back-pressure, half-closes | the quiescence sum misses nothing; answers bind to their own OPEN; no stream with work sleeps |
| Guest forwarder (`tdvmm-agent/forwarder.rs`) | stream registry, per-stream threads, credit to grant | accept, read loop, up and down threads | egress backend | two threads per stream, credit threshold, 16-bit ids | no stream leaks; credit never deadlocks |
| Egress wire protocol (`tdvmm-proto/egress.rs`) | none | `encode`, `decode` | both ends of COM4 | frames cut anywhere by the UART, length fields | decode undoes encode; a part of a frame is waited for |
| Control channel and verdict (`control.rs`, `serial.rs`, `driver.rs`) | COM2 capture, request in flight, driver state | `pump`, `poll_line`, `on_agent_line`, verdict | run loop, agent | lines split over drains, capture limit, several finishes | first verdict stands; no line lost or merged |
| Go SDK (`sdk/go/tdvmm.go`) | connection, next id, time-out | `Connect`, `Do`, `Close` | bridge | a time-out with the reply still on its way | a fault is applied when the call returns |
| Guest agent, bridge (`agent.rs`, `bridge.rs`) | connection table, event FIFO, partition book, finish | poll, fill, serve a line, forward, retire; partition, heal, kill, start, finish, logs | SDK, podman, nft, ttyS1 | drivers come and go inside a pass, nft or podman fails half-way | rules are as answered; first finish wins; everything served is traced |
| Log capture (`main.rs: capture_logs`, `drive_until_reply`) | service, cursor, budgets | request, run the guest until the reply, write the file | control channel, park, agent | reply consumed elsewhere, wall and virtual budgets, guest dying | ends; files are whole or warned about |
| Console scan (`conscan.rs`) | partial line, file handles | drain, emit, append, finish | COM1's tee, the capture's files | two writers of one file, lines split over drains | nothing printed is lost silently |
| Watchdog, exit codes (`main.rs`, `exit.rs`) | armed, fired | arm, disarm, expire | the vCPU thread | ends the process from another thread | the exit code is what the stop decided |
| PIT, PIC, UART registers | counters, latches, ICW sequence | port reads/writes | guest, LAPIC/IOAPIC | access modes, latch, wrap | agree with a reference |
| Diagnostics, telemetry, UI | counters | report | run loop | none | nothing guest-visible |
| Build pipeline, bake cache, artifacts (`build/`, `artifact/`) | kernel, downloads, agent, base segment, cache entries, outputs, scratch directories | ensure, key, restore, bake, pack, publish, sweep; run, verify, inspect | other builds, `doctor`, readers | everything shared through files, kills between any two steps | an entry is what its key says; a verified run boots what was sealed |
| Boot, CPUID/MSR tables, loader, compose, CLI parsing | none after start | construct | run loop | byte layout | out of scope of a state model |

The hard behaviours are few and specific: everything the vCPU thread reads and
uses later (the phase gate, the arming cache, the TPR of the last boundary),
the asynchronous doorbell signal, the resolver thread, the order of the
hand-overs (mirror before pop, clear before take, CLOSE after DATA, forward
before retire), the two writers of one log file, and files shared by builds
that may die. A run has no persistent state to recover: a crash of the VMM ends
it. The build has.

## Modules

| Module | Models | Runs | Proofs |
|---|---|---|---|
| `Lapic` | the LAPIC timer as operators, the delivery rule | through its users | used by `LoopProofs` |
| `VirtualTime` | abstract: what the guest is promised about time | as a property | the target of `Implements` |
| `FastForward` | run loop, service_timers, both parks, jump, clock | `ff_modes` | `LoopProofs` |
| `Doorbell` | extends `FastForward` with the preemption timer and `immediate_exit` | `doorbell` | `LoopProofs` |
| `Interrupts` | priorities, IRR/ISR/EOI, injection, interrupt window, CR8, HLT | `irq_delivery`, `irq_tpr` | `InterruptsProofs` |
| `EgressMux` | egress backend, resolver thread, sockets, COM4 hand-over | `egress_mux`, `egress_close` | `EgressProofs` |
| `EgressForwarder` | the guest's SOCKS forwarder and its threads, against the host's session table | `forwarder`, `fwd_leak` | `EgressForwarderProofs` |
| `EgressCodec` | the frames' bytes: encode and decode | evaluated on small buffers by `MCEgressMux` | `EgressProofs` |
| `LegacyPorts` | the 8254 counter and the masked 8259s, byte by byte | | `LegacyPortsProofs` |
| `GuestControl` | Go SDK clients, the agent's bridge and operations, the host's fold of its lines | `control` | `GuestControlProofs` |
| `LogCapture` | the end of a run: capture over COM2, console scan, watchdog, exit code | `capture` | `LogCaptureProofs` |
| `Build` | builds, pre-warm and readers on one cache directory | `build`, `bake_race` | `BuildProofs` |
| `MC*` | model-checking instances of the above (finite sets only) | | |

### FastForward

`pc` is the vCPU thread's position. One iteration of the loop is `boundary`
(service_timers) → `drain` (egress pump, agent lines) → `inject` → `guest`
(KVM_RUN); every guest action is one exit and returns to `boundary`, except
HLT with interrupts on, which goes to `park`. A park iteration is `park`
(console bytes, service_timers) → `parkpump` (agent lines, egress pump, the
gate) → `wait` (ppoll) or `jump`. `HostTick` advances the host TSC between any
two steps, so a sampled time is always possibly stale.

`queue` is the set service_timers leaves: the code clears the heap, mirrors the
LAPIC deadline and the horizon into it and pops what is due. The order matters
and is kept: a periodic timer that fires in this call is re-armed in the LAPIC
*after* it was mirrored. Two vectors stand for the timer and for all device
interrupts; `ppr` stands for the priority in force, and `Interrupts` models how
it is computed. The horizon and whether fast-forward is on are chosen in the
initial state, from `Horizons` and `FfModes`. The egress backend appears as `busy` (not quiescent) and
`sockReady` (the next pump has work): `EgressMux` justifies that a quiescent
backend has no work.

`VirtualTime` says, without loop, queue or gate, that guest time leaps only
while the guest is halted, nothing is deliverable and no connection is open,
and never past the horizon or a tick that could wake the guest. The refinement
mapping is `now <- host + offset`, `cpu` from `pc`, `live <- busy`.

### Doorbell

`at` refines `boundary` and `guest`: `clear` of `immediate_exit`, service,
`arm`, `KVM_RUN`, in the guest. `TimerExpires` makes the signal pending; the
handler runs at any point outside KVM_RUN or breaks KVM_RUN. `Slack` is how
early the timer may fire, since `cycles_to_ns` rounds down.

### Interrupts

KVM is external and modelled as the loop uses it: it loads CR8 and takes the
queued vector at entry, and fills `cr8`, `if_flag` and
`ready_for_interrupt_injection` at exit. The guest changes IF and raises CR8
without an exit, and exits for everything else. Time is absent: a timer may
fire whenever the VMM looks.

### EgressMux

One call of `EgressChannel::pump` is a run of steps: `absorb` (take the
captured bytes, parse) → `parse` (one action per frame kind) → `clear`, `take`
(the two halves of `take_resolved`) → `harvest` → `service` (one action per
outcome, in id order) → `feed` (the FIFO takes a prefix) → `gate`. Between them
the resolver thread, the kernel and the remote ends move. The guest is not the
forwarder: it writes any frame, legal or not, on any id, and a frame may be
cut in two by an exit. `gen` is a history variable that tells two OPENs of one
id apart. Bytes are counted, since no property looks at their values.

### EgressForwarder

The other end of the mux. Each connection has a handler (`handler`, the
position in `handle_connection` and `relay_down`) and, once connected, an up
thread (`up`); one demux reader (`Routes`) feeds the handlers' channels through
the registry. Reading and sending are separate steps, since the other thread
can end the stream between them. ttyS3 is two FIFO queues of whole frames. The
host is `EgressMux` without sockets: its handlers one frame at a time, and for
each session a connect, a read, a service pass and an abort that may come at
any time (socket error, `TO_SOCKET_CAP`). Frames carry the connection they
belong to as history. A client may write, finish, reset, or stop reading.

`Settled` is an assumption, not code: ids are 16 bits wide and `register` skips
only ids the guest has registered, so an id that came round within one round
trip would meet frames of its last stream. That takes 65536 registrations while
a frame is on the wire. Under the assumption the model shows that nothing else
can mix two streams up. With every id registered `register` never ends and
keeps the mutex: `spinning`.

### EgressCodec

Operators, no state: `Encode` and `Decode` on sequences of bytes, with the
version check on the first byte, the wait for the rest, and the length each
type may have. `EgressMux` and `EgressForwarder` work on the frames that come
out of it and on "malformed" for what it turns away.

### LegacyPorts

One action per port access, any byte, with time passing in between. The counter
is the function of vtsc that the code computes, in 16 bits. `view` is the guest's
own account of what it asked to be latched and how much of it it has read;
`owed` is the number of initialisation words ICW1 has announced and the guest
has not written yet. The theorems hold for every TSC frequency; 256 values of a
byte on three channels are more than TLC should enumerate, so no run has it.

### GuestControl

Each driver is an SDK client (`sdk`, its connection `sock`, bytes in flight
`up` and `dn`). The agent is one thread: `poll` → `conns` (the next ready
connection is read) → `lines` (one request: dispatch, reply, mirror to the host,
then a look at the connection) → back to `poll` after the dead connections are
retired and the event FIFO is forwarded. A pass sees the connections of its
poll; an accept in the same pass adds one behind them. Every operation of
`Agent::handle` is an operator that says what its answer claims; podman may
fail after it acted, nft may fail before or after its transaction. The host
folds lines until it has a verdict, and then no guest code runs any more.
`answered` and `served` are history: what the last answers say of each pair of
services, and how many requests were dispatched.

### LogCapture

`pc` is the one thread that runs host code and, in KVM_RUN, the guest. `start`
→ `load` → `boot` → `running` → (a stop) → `ask`/`boundary`/`poll`/`guest`/
`parked`, once per request → `close` per service → `finish` → `flush` →
`exited`. A fatal error goes to `fatal` from the boot or the run. Lines cross
the UART as units, the last of which has the newline, so a drain, a cap or a
stop can fall in the middle of a line. A log is its byte positions; `Lossy` is
the UTF-8 conversion of one page. The console line of one service is printed in
units through the tee, the scanner and the file handle; `file` has the pulled
text and the appended console units apart. `fault` is history: what went wrong,
so that a warning can be held against it.

### Build

Each process (two builds, or a build and a pre-warm) has its own `pc` and takes
one file operation at a time. Content is what it was made from, `Torn` between a
truncation and the last writer's end, so a reader or a second writer at that
moment is visible; a writer that is not the last one to truncate spoils the file
(`Closed`), unless it writes the same. Steps of the container engine, the network
and the disk can fail (`Fallible`); the restore copies the artifact, then the
initramfs, and a copy that fails goes on to a full bake. `Kill` leaves the disk as
it is, and a container the process had started, a download or the assembling, goes
on without it (`dead`, `Child`): `engine.rs` ties nobody's life to its parent. The
cache key is the inputs that differ between two builds here. One reader runs or
verifies artifacts that are being rewritten.

Nothing restricts the users. Caches may be cold (a first build compiles the kernel
and fetches), warm, or left by a build killed at the kernel's copy; two builds may
be of one stack; the sources may be edited at any moment. The code takes no lock,
so some of these orders poison the cache (`bake_race`, and "Where code and comments
disagree"). What the code does promise is stated with history variables:
`disturbed` has the builds under which another process or an edit changed the
kernel, the base's downloads, their sources or their outputs, or which took over
what such a build left; `suspectBase` and `suspectKeys` are what disturbed builds
put in the caches. A first build by itself, one after kills and failures, and
builds of different stacks on warm caches are never disturbed, and theirs are the
guarantees `FreshUnlessDisturbed` and `DeliversUnlessDisturbed`.

`Images` stands for the image bakes, the seed store, the lock and the binds, all in
the build's own directory; the image contexts and the binds are read at different
moments there and at one here. `Base` takes the segment as the downloads it is
built from, `Archive` the archive as its four inputs. `RunArtifact` reads the
members after the manifest in one step.

## Runs

| Run | Shows |
|---|---|
| `ff_modes` | both parks, with and without a budget, with egress: the loop implements `VirtualTime`; guest and VMM share one clock (`OneClock`), the schedule a park relies on is sound (`ParkSchedule`), a guest with a tick wakes, a finish line ends the run and so does the budget |
| `doorbell` | an exit-free guest is broken out of KVM_RUN for its tick and for the horizon, wherever the signal lands |
| `irq_delivery` | in-service set = the guest's nest, the queued vector outranks it, nothing is overwritten, a pending vector is always covered by a window and eventually injected |
| `irq_tpr` | *violation*: a TPR written by MMIO never takes effect |
| `egress_mux` | one id reused at will, data both ways: quiescence is real, answers are own, CLOSE is last, no lost wakeup, every resolve is harvested and every OPEN answered; the codec on small buffers |
| `egress_close` | *violation*: a CLOSE behind a backlog resets the stream |
| `forwarder` | the forwarder's grants and the host's credit always add up to the window, so a slow client holds at most a window in memory; a CLOSE reaches the client after the whole response; a client that reads gets every byte; the remote end's EOF ends the handler; an ended or reset connection frees the host's session; two connections share one id, and no frame reaches the wrong stream |
| `fwd_leak` | *violation*: a client's reset leaves its handler waiting for ever |
| `control` | the verdict is the first finish accepted, whoever else finished or forged one in the event FIFO; every request served is traced, also of a driver that is gone; nft's rules are what the answers said; a call that returns has been dispatched; a waiting driver is answered |
| `capture` | a log file is a contiguous prefix of the log, complete or warned about; no drain or cap swallows the reply waited for; the exit code is the one decided at the stop; no guest keeps the capture going |
| `build` | no usage rules: an entry of the bake cache is what a fresh bake makes and a successful build delivers its sources, unless something of theirs changed under them; a verified run boots what somebody sealed; no live scratch directory is swept; with one process killed anywhere and its containers running on |
| `bake_race` | *violation*: two builds of one stack publish an artifact no fresh bake makes |

**Bounds.** `MaxHost` and `MaxVtsc` cap the clock: 3 or 4 cycles with spans of
0 to 2 give several ticks, coalesced periods, ticks before, at and after the
horizon, and jumps at and above `MaxJump`. Beyond the cap the guest no longer
halts and the outside no longer acts, so a run cannot pass a liveness property
by running out of clock: the horizon lies within reach of `MaxHost`.
`Interrupts` is finite as it stands: three vectors in two classes give nesting,
equal-class and higher-class preemption. `EgressMux`: a window of 1 or 2 bytes,
payloads of one and two, a cap and a session limit of 1 put every limit in
reach; `MaxWire` and `MaxPending` only bound how far the guest runs ahead of one
pump. One id is enough for what happens within a stream and for reuse of its
id. Two ids competing for one slot (the refusal with StreamLimit) are outside
the TLC instance; the safety properties are proved for every set of ids.
`EgressForwarder`: a window of 3 with a threshold of 2 gives grants at and
above the threshold and a window that is not a multiple of it; 4 bytes exhaust
it. Client writes are bounded by `MaxSends`. `Loads` are the two cases of the run:
one connection with requests and a full response, and two over one id, the first
of which uploads and the second carries no data; the proofs have any number.
`GuestControl`: two drivers, a table with room for one or for both, a tty that
holds two lines and two addresses per container; driver d1 sends two requests
(partition, start, finish), d2 one of every kind. So a pair is partitioned, its
container restarted at another address, healed, refused and rebuilt, and a pass
retires one connection while it serves another. `LogCapture`: pages of two
bytes, a log of three with a two-byte character across the page border and an
empty line, a UART of one unit, a capture buffer of three, one thing that
happens in the guest meanwhile, and a name that is no safe path; the console
line has two units, so the branch for a line past `PARTIAL_CAP` is not reached.
`Build`: two builds of two stacks or of one, or one build and the pre-warm, on
cold, torn or warm caches, one edit, one kill: enough for a torn file left by the
dead, found by the living, and for a container writing under the next build. The
run uses symmetry in builds and stacks; its properties are all safety properties.
`bake_race` has one stack, warm caches, no edit and no kill.
`ff_modes` allows deadlock, since without a horizon a guest halted with nothing
scheduled waits for a key press that need not come; so do the `fwd_` runs, where
every connection may be over, `control` and `capture`, which end, and `build`,
where every process may be done.

**Fairness.** The vCPU thread keeps running and the host clock advances. In
`FastForward` the guest is assumed to leave KVM_RUN; `Doorbell` drops that
assumption and derives what is needed from the timer, whose expiry and signal
delivery are fair. `Interrupts` assumes nothing of the guest. In `EgressMux`
the resolver answers what it took (`getaddrinfo` has its own timeout), a
connect ends one way or another (TCP's timeout), and a wait is ended only by
its epoll fd. In `EgressForwarder` every thread runs and the host pumps; that a
client reads is a premise of the two properties that need it. In `GuestControl`
the agent's thread and the host run and a client's blocked read returns when its
line is there; an operation of the agent is one step, so podman and nft are
assumed to return (`run_podman` has a time-out, `do_exec` has none). In
`LogCapture` the thread goes on, the guest leaves KVM_RUN (what `Doorbell`
shows), and a thread that is in the guest or the park again and again uses up
both budgets; no interrupt is promised to a parked guest, and the watchdog is
never assumed to fire. `Build` states safety only. No byte, frame, key press
or spurious wake is ever assumed.

## Proofs

Each theorem holds for every value of the constants the named assumptions allow:
bounds and sizes are naturals, vectors lie in 16..255, and markers such as
`None`, `Torn` and `Pinned` differ from the values they stand beside. Any number
of connections, clients, ids, builds, edits and kills is covered, where the runs
have one or two.

* `LoopProofs`, the vCPU loop and its timer:
  * `TypeCorrect`, `ClockCoherence`, `ScheduleSound`, `GateSound` and `Implements`
    (`Spec => VT!Spec`). The invariant `Inv` adds two facts the properties do not
    state: the queue has one entry per kind (so the earliest entry is the timer's
    or the horizon's) and a quiescent backend has no work (so the pump between
    gate and jump cannot make it live). `ParkSchedule` is the delicate part: the
    timer may be missing from the queue, but then it is masked or its vector is
    already pending, and the jump's bound follows since a pending deliverable
    vector would have ended the park.
  * `BellLoop` (`BellSpec => Spec`, so everything proved of `FastForward` carries
    over), `BellTypeCorrect`, `Preemptible`. The arming cache makes
    `GuestIsPreemptible` non-inductive. `BellInv` says why the cache may be
    trusted: the deadline it holds is still covered by the timer, or the timer has
    fired, or a jump went past it and nothing live carries it any more; the last
    case needs that while the guest is parked nothing live precedes the armed
    deadline (`ParkReachesArmed`).
* `InterruptsProofs`: `TypeCorrect`, `InServiceSound`, `PrioritySound`,
  `WindowSound`, `OverwriteFree`. The strengthening is `RunFieldsFresh`: at the
  loop's top `kvm_run` shows the guest as it is, and after the injection step
  the window covers what was not injected.
* `EgressProofs`, the host's side of COM4:
  * `DecodeUndoesEncode` (for every frame the program sends and whatever follows
    it in the buffer) and `PartIsWaitedFor` (no proper prefix is rejected or taken
    for a frame). The argument is arithmetic on the header's little-endian fields
    plus indexing into a concatenation, one lemma per type of frame.
  * `TypeCorrect`, `QuiescenceSound`, `OwnAnswers`, `CloseAfterData`,
    `NoLostWakeup`, from one invariant. `OneResolvePerId`: every query somebody
    holds (mailboxes, the resolver's hands, the batch) reserves its id in
    `resolving` and is the only one of it, so that harvesting it frees the id for
    good. `SessionsSound`: a session has a socket exactly when it is past
    resolving, its buffer is within the window (which is what keeps the next read
    from underflowing), and EOF seen means nothing left to read. `ServicedIsQuiet`
    and `PulseFollows`: what a pump leaves behind needs no further pump until a
    descriptor says so.
* `EgressForwarderProofs`, the guest's side against the host's session table, in
  two layers:
  * `ForwarderTyped` and `FramesKeepTheirOwner`, from `StreamInv`: whose an id is.
    Whatever goes by an id, in the registry, a session or a frame in either
    direction, belongs to one connection (`Registered`, `Addressed`, `Owned`).
    Nothing of a connection is about before its OPEN, nothing but the OPEN until
    the host has handled it, and the host's first frame is its verdict (`Silent`,
    `Opens`, `Started`, `Verdicts`). After the host's last word it has no session
    or nothing left to send, and a handler on its way out has had that word or has
    sent a RST (`Finals`, `Ends`). The property alone is not inductive: that an id
    given back meets nothing of its last stream rests on what both ends have said
    by then. The assumption `Settled` in `Registers` is used here and nowhere else.
  * `CreditConserved` and `CloseDelivers`, from `StreamInv` and `FlowInv`, a ledger
    per connection: the credit equation from the session's beginning (`Fresh`,
    `CreditOf`); what the remote end has sent is with the client, on its way or in
    the session (`BytesOf`); the CLOSE is behind all of the stream's DATA (`LastOf`),
    and the client's EOF comes when everything is delivered (`ShutOf`). Bytes in a
    queue are a finite set of (frame, unit) pairs, so that append, head and tail
    become facts about cardinalities.
* `GuestControlProofs`, one invariant per property:
  * `VerdictIsTheAccepted` (`VerdictInv`): every finish line on the tty is the one
    accepted, since the parser of the event FIFO turns away the reserved kinds.
  * `PartitionsFollowAnswers` (`PartInv`): the answers are compared with the book
    as well as with nft, and the book keys each rule by its own pair, so that a
    transaction rebuilt from the book changes no other pair's rules.
  * `CommandsAreTraced` (`TraceInv`): the number served is the number the host
    counted plus the `ctl` and `finish` lines on the tty, plus the finish it took.
  * `FaultsPrecedeReturns` (`CallInv`): a client that never times out has at most
    one line, request or reply, between `Do` and its return, so the reply it reads
    is that of its own request although `Do` does not compare ids.
* `LogCaptureProofs`:
  * `ExitDecided`. `ExitInv` adds that nothing is decided before the stop, that the
    stop and the verdict still say what was decided, and that a process that has
    exited takes no step.
  * `ReplyKept` (`ReplyIsNeverLost`), from `CaptureTyped` and `LineInv`. Between two
    requests the line is idle or holds one event. While the host waits, either the
    whole request is on its way and at most one event is coming back, or nothing is
    asked and the whole reply (`Answers`) is coming. The agent writes one line at a
    time, and none is longer than `TxCap`, by the assumption
    `Escape * ChunkBytes + 1 <= TxCap`; while the guest runs the buffer holds no
    whole line, so the park's drain swallows nothing. After a budget has run out
    what is left of older requests carries older ids (`Queued`, `OldIds`).
  * `PulledIsPrefix` (`CapturedIsPrefix`) adds `PageInv` (what was captured is the
    log up to the cursor, and a service is closed with all of it or a warning),
    `FileInv` (a file nobody pulled has no pulled part; a pulled one holds a
    beginning of the log, a complete one unless warned) and `ConsoleInv` (a file's
    console units followed by the ones not yet written are in printing order).
  * `NothingIsSilent` (`NothingIsMissingSilently`) adds `WarnedInv` and `KeptInv`
    (what was printed is in a file or on its way to one).

  Where these count or search a stream, the lemma `Least` (a nonempty set of
  naturals has a least element) stands in for induction over the sequence.
* `BuildProofs`:
  * `ScratchOwned`, `BuildTyped` and `SealedVouched`. `SealedInv` follows a manifest
    through every place it can be copied to: a build's memory, the store, the cache,
    a reader.
  * `BakeCacheFresh` and `BuildsDeliver` (`FreshUnlessDisturbed`,
    `DeliversUnlessDisturbed`) assume nothing about the users: every order of steps
    is in `Next`, and the condition is in the property. `FreshInv` has three parts:
    `SoundBase` (a base segment no disturbed build left is made of pinned parts),
    the property itself, and `Made(p)` for every living undisturbed build (what it
    has made so far, in memory and in its outputs, is what a fresh bake of the
    sources as they are now makes, and nobody else is writing them). A step of p
    keeps `Made(p)`; a step of another that would break it makes p disturbed.
* `LegacyPortsProofs`: `LatchSound` (the property `LatchIsOneInstant`), `MaskSound`
  (`InitWordIsNoMask`) and `FirstMaskIsSwallowed`. The invariant says that the
  guest's view and the channel agree on what is latched and on which half is
  next, and how the chip's step relates to the words it is owed.

Only model-checked:

* every liveness property (`HaltedGuestWakes`, `RunEnds`, `FinishEndsRun`,
  `ExitFreeGuestIsBroken`, `PendingIsInjected`, `ResolvesAreHarvested`,
  `OpensAreAnswered`, `HostLetsGo`, `ResponsesArrive`, `CloseEndsTheHandler`,
  `AcceptedFinishEndsRun`, `DriversAreAnswered`, `CaptureEnds`), since liveness
  and ENABLED are outside the prover's reach.

The type invariants and the gate's `JumpLegal` are proved and are not repeated in
the runs.

## Where code and comments disagree

A run shows each of these:

1. `TprWriteTakesEffect` (`lapic.rs:264`): the loop syncs TPR from
   `run->cr8` before it pushes TPR back, so an MMIO write of TPR is lost. A
   Linux guest on x86-64 uses CR8 and does not meet this.
2. `BacklogIsDrained` (`egress.rs:33`): `handle_close` shuts the socket's write
   side while bytes may still be buffered; writing them then fails and the
   stream is reset.
3. `ResetStreamsEnd` (`forwarder.rs:378`): after a client's reset the up thread
   sends RST, the host answers nothing, and `relay_down` waits for ever with
   the stream id registered, unless response data was already on its way.
4. `BakedIsFresh` (`bake.rs:192`: "a hit reusing the prior `.tdvmm` is
   byte-identical to a fresh bake"; `CONTRIBUTING.md:81` asks the same of every
   change). `cache.rs:170` and `agent.rs:167` expect bakes of one key to race, and
   what they share by renaming is safe. The initramfs is not: its path depends on
   the stack's name only (`bake.rs:180`) and it is written in place. In the trace
   the first build has assembled it, the second truncates it to assemble its own,
   the first seals what it finds there and publishes it under the key of both. The
   manifest has the hash of the torn archive, so `verify` and every later hit
   accept it. With `FreshUnlessDisturbed` in place of `BakedIsFresh` nothing is
   found, and the condition names the other causes: an edit between the hash
   (`cache.rs:51`) and the image build, and two cold builds, of which one verifies
   the kernel (`kernel.rs:175`) or a download that the other then truncates.

Noticed on the way, without a run:

* `main.rs:1572` calls the jump target "the min of the LAPIC deadline and the
  horizon"; the queue can lack a periodic timer that fired in the same
  iteration. The guest loses nothing, as `ParkSchedule` and `HaltedGuestWakes`
  show.
* `main.rs:1370` says a halted guest waits "until an interrupt becomes
  deliverable"; the park tests this with the TPR of the last boundary, and a
  guest that raised CR8 since is resumed with nothing injected.
* `forwarder.rs:469` says that after RST "the caller resets the socket"; the
  caller shuts it down, and the client sees a cut response end like a whole one.
* `conscan.rs:187` promises that a flush after the capture "appends after the
  agent's copy instead of corrupting it". That holds for a file the scan had
  already open, which is what the test at `conscan.rs:306` covers. A service
  whose *first* console line comes during the capture has its file opened by the
  final flush, and `set_len(0)` erases the pulled log. The model has it
  (`handle[s] = "late"`) and `NothingIsMissingSilently` excepts it by name;
  without the exception TLC finds the behaviour.
* `pic.rs:23` says the initialisation "expects 4 words not 3", ICW1 included, when
  ICW1 asks for an ICW4. `write_data` takes four *data* words: step 3, reached
  after ICW3, does not yet count the word it consumes as ICW4. The first mask
  written after the sequence is swallowed (without an ICW4 too);
  `FirstMaskIsSwallowed` proves it. The test at `pic.rs:104` writes 0xff there,
  which is also the reset value. Nothing is delivered through the 8259, so the
  guest only sees a wrong mask when it reads it back.
* `sdk/go/README.md` says "Faults are applied before the call returns". `Do` does
  not look at the reply's id: after a time-out the next call returns on the reply
  to the one before. `FaultIsAppliedOnReturn` is stated for clients without a
  time-out.
* `main.rs:1218` says the capture "never changes the verdict, exit code"; the
  watchdog may fire during it and turn a verdict into exit 2
  (`ExitIsDecidedAtStop` excepts it). `main.rs:2088` says a finish during the
  capture "would be a second one"; after a horizon stop it can be the first. It
  is discarded and the exit code stays 3.
* A fatal error exits 1 (`main.rs:230`), the code `exit.rs` gives a driver's
  FAIL; infrastructure errors are meant to be 2.
* After a capture times out, each further service times out at once and its file
  is written empty over what the console scan had put there, with a warning.
* `do_partition` takes the key out of the book when nft fails, also when the pair
  was partitioned before; `do_heal` changes the book before it asks nft. In both
  cases the pair's rules are unknown until it is next answered, which is what
  `PartitionsAreAsAnswered` allows. A restarted container has another address and
  the old rule no longer cuts it off.
* `EgressReason::Other(x)` with x below 6 would encode as a known reason; the
  program only makes it from codes it does not know.
* Build: a download left half-written is never fetched again (`pins.rs:110`), so
  every later build fails until it is removed by hand, and `--no-cache` does not
  replace an existing entry.

## What the runs leave open

* `EgressMux` has one id, so the refusal of a new stream with `StreamLimit`
  (`egress.rs:540`) is not reached; the proofs cover it.
* `GuestControl` has one driver that leaves, so no pass of the bridge retires two
  connections.
* `FinishEndsRun` has the finish line captured at a boundary. The park's own test
  for it is there, and no behaviour of the run reaches it.
* `PartitionsAreAsAnswered` says nothing of a pair whose last answer was an error:
  a rollback that was forgotten would not show there.
* `ExitIsDecidedAtStop` excepts the watchdog, `NothingIsMissingSilently` a file
  opened late, `FaultIsAppliedOnReturn` clients with a time-out (the SDK's default
  is 120 s), and `Registers` waits until the host has let go of an id, which the
  code does not: reuse within a round trip takes about 65535 registrations. The
  hazards of these lines are listed without a property.

## Not modelled

Byte layout and encodings other than the egress frames (boot tables, CPUID, MP
table, tar, cpio, YAML, the JSON of the control lines); diagnostics and reports;
argument parsing; compose validation and emission, a pure rewriting of one
document into another. The divide and rounding arithmetic of the LAPIC timer
count is abstracted to the span it yields, IOAPIC register windows to the vector
a pin posts, the COM4 FIFO to "takes some prefix". The UART's register file is
the vm-superio crate's. The container
engine, podman, nft, DNS, TCP and KVM are external and modelled as the code uses
them.

## Plan

1. `FastForward`, `VirtualTime`, `Lapic`: time. *Done, proved.*
2. `Interrupts`: delivery. *Done, proved.*
3. `Doorbell`, refining `FastForward`. *Done, proved.*
4. `EgressMux`: the host side of egress. *Done, proved.*
5. `EgressForwarder`: the guest side of egress. *Done, proved.*
6. `GuestControl`, `LogCapture`: the control path, the end of a run. *Done,
   proved.*
7. `Build`: shared files and crashes. *Done, proved.*
8. `EgressCodec`: the frames' bytes. *Done, proved.*
9. `LegacyPorts`: the PIT and the PIC. *Done, proved.* The IOAPIC's register
   window, the LAPIC's count arithmetic and the event heap against reference
   definitions.
