---------------------------- MODULE FastForward -----------------------------
(***************************************************************************)
(* The vCPU thread of tdvmm and its idle park (src/src/main.rs:            *)
(* run_user_backend, service_timers, park_until_deliverable, and its two   *)
(* bodies real_wait_until_deliverable and fast_forward_until_deliverable), *)
(* with the virtual clock (vtsc.rs), the event queue (events.rs) and the   *)
(* LAPIC timer (lapic.rs).                                                 *)
(*                                                                         *)
(* Virtual time is vtsc = host + offset.  The host TSC advances on its own *)
(* between any two steps of the thread; the offset moves only in a jump.   *)
(* `ppr` is the priority class the LAPIC compares a pending vector with,   *)
(* as Lapic explains.                                                      *)
(***************************************************************************)
EXTENDS Lapic

CONSTANTS
  Spans,      \* vtsc spans a guest programs into TMICT (0 = stop the timer)
  Horizons,   \* --max-virtual-time deadlines (vtsc); None: the flag is absent
  MaxJump,    \* max_jump_cycles, the sanity bound on one jump
  FfModes,    \* values of --ff
  AllowEgress,   \* --allow-egress: the COM4 backend exists
  MaxHost,    \* bound: the host TSC stops here
  MaxVtsc     \* bound: the guest halts and the outside acts only before it

ASSUME ConstantsAssumption ==
  /\ Spans \subseteq Nat
  /\ Horizons \subseteq Deadlines
  /\ MaxJump \in Nat
  /\ MaxHost \in Nat /\ MaxVtsc \in Nat
  /\ FfModes \subseteq BOOLEAN
  /\ AllowEgress \in BOOLEAN

VARIABLES
  host,      \* host TSC
  offset,    \* VirtualClock.tsc_offset, the cached cell
  kvmOffset, \* KVM_VCPU_TSC_OFFSET, what the guest's RDTSC adds
  ff,        \* this run fast-forwards
  horizon,   \* this run's --max-virtual-time deadline, or None
  timer,     \* the LAPIC timer
  irr,       \* pending vectors
  ppr,       \* priority class in force (max of TPR and in-service class)
  queue,     \* EventQueue<TimerKind>, rebuilt by every service_timers
  iflag,     \* the guest's RFLAGS.IF
  busy,      \* ~EgressBackend::is_quiescent
  sockReady, \* the next egress pump has work (its epoll fd is readable)
  input,     \* bytes are waiting on stdin
  finishLine,\* a complete finish line sits in COM2's capture buffer
  pc,        \* where the vCPU thread is
  stop       \* the StopReason, "abort" for an Err return, None while running

clockVars == <<host, offset, kvmOffset, ff, horizon>>
extVars == <<busy, sockReady>>
vars == <<host, offset, kvmOffset, ff, horizon, timer, irr, ppr, queue,
          iflag, busy, sockReady, input, finishLine, pc, stop>>

Kinds == {"LapicDeadline", "StopRun"}
Events == [at : Nat, kind : Kinds]

Pcs == {"boundary", "drain", "inject", "guest",
        "park", "parkpump", "wait", "jump", "stopped"}

Reasons == {"horizon", "driver_finish", "guest_halt", "guest_shutdown", "abort"}

TypeOK ==
  /\ host \in Nat /\ offset \in Nat /\ kvmOffset \in Nat
  /\ ff \in BOOLEAN /\ horizon \in Deadlines
  /\ timer \in Timers
  /\ irr \subseteq Vectors
  /\ ppr \in 0..2
  /\ queue \subseteq Events
  /\ iflag \in BOOLEAN
  /\ busy \in BOOLEAN /\ sockReady \in BOOLEAN
  /\ input \in BOOLEAN /\ finishLine \in BOOLEAN
  /\ pc \in Pcs
  /\ stop \in Reasons \cup {None}
-----------------------------------------------------------------------------
(* The virtual clock and the event queue. *)

Vtsc == host + offset

WithinBound == Vtsc < MaxVtsc

\* Mutant: the horizon is left out of the queue.
MirrorWithoutHorizon(t) ==
  IF Armed(t) THEN {[at |-> t.deadline, kind |-> "LapicDeadline"]} ELSE {}

\* Mutant: the timer is left out of the queue.
MirrorWithoutTimer(t) ==
  IF horizon # None THEN {[at |-> horizon, kind |-> "StopRun"]} ELSE {}

\* The entries service_timers mirrors into the cleared queue.
Mirror(t) ==
  (IF Armed(t) THEN {[at |-> t.deadline, kind |-> "LapicDeadline"]} ELSE {})
    \cup
  (IF horizon # None THEN {[at |-> horizon, kind |-> "StopRun"]} ELSE {})

\* pop_due, called until it returns nothing.
Due(q, now) == {e \in q : e.at <= now}

\* peek_deadline of a non-empty queue.
PeekDeadline(q) ==
  (CHOOSE e \in q : \A f \in q : e.at <= f.at).at

\* The timer entry, if due, fires the LAPIC timer.  A periodic timer re-armed
\* here reaches the queue only at the next call.
Fires(now) == \E e \in Due(Mirror(timer), now) : e.kind = "LapicDeadline"
HorizonFired(now) == \E e \in Due(Mirror(timer), now) : e.kind = "StopRun"

\* service_timers(now); extra are the vectors raised just before it.
ServiceTimers(now, extra) ==
  /\ queue' = Mirror(timer) \ Due(Mirror(timer), now)
  /\ timer' = IF Fires(now) THEN AfterFire(timer, now) ELSE timer
  /\ irr' = irr \cup extra
              \cup (IF Fires(now) /\ ~timer.masked THEN {"timer"} ELSE {})

HighestOf(vs) == CHOOSE v \in vs : \A w \in vs : Class[v] >= Class[w]

\* EgressChannel::pump.  A quiescent backend does nothing; a live one changes
\* state or raises IRQ3 only when a socket, the resolver or the guest gave it
\* something to do.  A framing error aborts the run.
EgressPump(raised, ok) ==
  /\ IF sockReady
     THEN /\ busy' \in BOOLEAN
          /\ raised \in SUBSET {"dev"}
          /\ ok \in BOOLEAN
     ELSE busy' = busy /\ raised = {} /\ ok
  /\ sockReady' = FALSE

StopWith(reason) == pc' = "stopped" /\ stop' = reason
GoTo(label) == pc' = label /\ stop' = stop

\* Mutant: the finish line is counted like any other and the run goes on.
FoldAgentLinesDroppingFinish(next) == finishLine' = FALSE /\ GoTo(next)

\* The agent's lines are folded into the driver state; a finish ends the run.
FoldAgentLines(next) ==
  /\ finishLine' = FALSE
  /\ IF finishLine THEN StopWith("driver_finish") ELSE GoTo(next)
-----------------------------------------------------------------------------
Init ==
  /\ host = 0 /\ offset = 0 /\ kvmOffset = 0
  /\ ff \in FfModes /\ horizon \in Horizons
  /\ timer = ResetTimer
  /\ irr = {} /\ ppr = 2          \* soft-disabled out of reset
  /\ queue = {}
  /\ iflag = FALSE
  /\ busy = FALSE /\ sockReady = FALSE
  /\ input = FALSE /\ finishLine = FALSE
  /\ pc = "boundary" /\ stop = None

(* The run loop, up to KVM_RUN. *)

\* (1) service_timers; a fired horizon stops the run before anything else.
Boundary ==
  /\ pc = "boundary"
  /\ ServiceTimers(Vtsc, {})
  /\ IF HorizonFired(Vtsc) THEN StopWith("horizon") ELSE GoTo("drain")
  /\ UNCHANGED <<clockVars, ppr, iflag, extVars, input, finishLine>>

\* (1b) the egress pump, then the agent's lines.
Drain ==
  /\ pc = "drain"
  /\ \E raised \in SUBSET {"dev"}, ok \in BOOLEAN :
       /\ EgressPump(raised, ok)
       /\ irr' = irr \cup raised
       /\ IF ok THEN FoldAgentLines("inject")
          ELSE StopWith("abort") /\ UNCHANGED finishLine
  /\ UNCHANGED <<clockVars, timer, ppr, queue, iflag, input>>

\* (3) hand the highest deliverable vector to KVM if the guest can take it:
\* it moves from IRR to ISR and raises the priority in force.
Inject ==
  /\ pc = "inject"
  /\ LET vs == Deliverable(irr, ppr) IN
       IF vs # {} /\ iflag
       THEN LET v == HighestOf(vs) IN
              /\ irr' = irr \ {v}
              /\ ppr' = Class[v]
              /\ iflag' = FALSE         \* interrupt gate
       ELSE UNCHANGED <<irr, ppr, iflag>>
  /\ GoTo("guest")
  /\ UNCHANGED <<clockVars, timer, queue, extVars, input, finishLine>>

(* Guest execution: each disjunct is one exit to the loop. *)

\* A write to TMICT or to the LVT timer entry.
GuestProgramsTimer ==
  /\ pc = "guest"
  /\ \/ \E span \in Spans : timer' = WriteTimerIct(timer, span, Vtsc)
     \/ \E mode \in {"oneshot", "periodic"}, masked \in BOOLEAN :
          timer' = WriteLvtTimer(timer, mode, masked)
  /\ GoTo("boundary")
  /\ UNCHANGED <<clockVars, irr, ppr, queue, iflag, extVars, input, finishLine>>

\* TPR, SVR and EOI writes change the priority in force; STI/CLI change IF.
GuestPriority ==
  /\ pc = "guest"
  /\ ppr' \in 0..2
  /\ iflag' \in BOOLEAN
  /\ GoTo("boundary")
  /\ UNCHANGED <<clockVars, timer, irr, queue, extVars, input, finishLine>>

\* The agent completes a finish line on COM2, or the forwarder writes frame
\* bytes to COM4 (live egress state) or drains COM4's FIFO.  Either gives the
\* next pump of a live backend something to do.  Any UART access, and a
\* self-IPI through the ICR, may raise a device-class vector.
GuestUart ==
  /\ pc = "guest"
  /\ \/ finishLine' = TRUE /\ UNCHANGED extVars
     \/ /\ AllowEgress
        /\ busy' \in {busy, TRUE}
        /\ sockReady' = busy'
        /\ UNCHANGED finishLine
     \/ UNCHANGED <<extVars, finishLine>>
  /\ \E raised \in SUBSET {"dev"} : irr' = irr \cup raised
  /\ GoTo("boundary")
  /\ UNCHANGED <<clockVars, timer, ppr, queue, iflag, input>>

\* A triple fault or a system event; or an entry KVM fails, which aborts.
GuestShutdown ==
  /\ pc = "guest"
  /\ \E reason \in {"guest_shutdown", "abort"} : StopWith(reason)
  /\ UNCHANGED <<clockVars, timer, irr, ppr, queue, iflag, extVars, input, finishLine>>

\* An interrupted KVM_RUN (the doorbell, EAGAIN), an interrupt window or an
\* access to a device that is not modelled here (PIT, PIC, IOAPIC).
GuestExit ==
  /\ pc = "guest"
  /\ GoTo("boundary")
  /\ UNCHANGED <<clockVars, timer, irr, ppr, queue, iflag, extVars, input, finishLine>>

\* HLT: terminal with interrupts disabled, otherwise the idle park.
GuestHlt ==
  /\ pc = "guest"
  /\ WithinBound
  /\ IF iflag THEN GoTo("park") ELSE StopWith("guest_halt")
  /\ UNCHANGED <<clockVars, timer, irr, ppr, queue, iflag, extVars, input, finishLine>>
-----------------------------------------------------------------------------
(* The idle park. *)

\* Top of a park iteration.  Fast-forward reads waiting console input first;
\* the real wait reads it when ppoll reports it.
ParkService ==
  /\ pc = "park"
  /\ LET console == ff /\ input IN
       /\ input' = (input /\ ~console)
       /\ \E raised \in SUBSET {"dev"} :
            /\ raised # {} => console
            /\ ServiceTimers(Vtsc, raised)
  /\ IF HorizonFired(Vtsc) THEN StopWith("horizon") ELSE GoTo("parkpump")
  /\ UNCHANGED <<clockVars, ppr, iflag, extVars, finishLine>>

\* Mutant: the phase gate is missing.
AfterPumpUngated(pending, live) ==
  IF Deliverable(pending, ppr) # {} THEN "boundary"
  ELSE IF ~ff \/ queue = {} THEN "wait" ELSE "jump"

\* Where a park iteration goes after the pump: back to the loop with
\* something to deliver; otherwise, with fast-forward, the phase gate: real
\* rate while egress is live, a wait on input alone when nothing is
\* scheduled, a jump otherwise.
AfterPump(pending, live) ==
  IF Deliverable(pending, ppr) # {} THEN "boundary"
  ELSE IF ~ff \/ live \/ queue = {} THEN "wait" ELSE "jump"

\* The agent's lines, then the egress pump, then AfterPump.
ParkPump ==
  /\ pc = "parkpump"
  /\ \/ /\ finishLine
        /\ FoldAgentLines("stopped")
        /\ UNCHANGED <<irr, extVars>>
     \/ /\ ~finishLine
        /\ UNCHANGED finishLine
        /\ \E raised \in SUBSET {"dev"}, ok \in BOOLEAN :
             /\ EgressPump(raised, ok)
             /\ irr' = irr \cup raised
             /\ IF ok THEN GoTo(AfterPump(irr', busy')) ELSE StopWith("abort")
  /\ UNCHANGED <<clockVars, timer, ppr, queue, iflag, input>>

\* Mutant: the wait never arms its timerfd.
ExpiredNever == FALSE

\* ppoll returns: the timerfd armed to the queue's deadline has expired, or
\* stdin or the egress fd is readable.
Readable == input \/ (AllowEgress /\ sockReady)
Expired == queue # {} /\ PeekDeadline(queue) <= Vtsc

\* Waiting input is read and may raise the serial IRQ.
WakeFromWait ==
  /\ input' = FALSE
  /\ irr' = irr \/ (input /\ irr' = irr \cup {"dev"})
  /\ GoTo("park")
  /\ UNCHANGED <<clockVars, timer, ppr, queue, iflag, extVars, finishLine>>

WaitReady ==
  /\ pc = "wait"
  /\ Readable \/ Expired
  /\ WakeFromWait

\* EINTR, or a timeout a rounded-down nanosecond early.
WaitSpurious ==
  /\ pc = "wait"
  /\ ~Readable /\ WithinBound
  /\ WakeFromWait

\* Mutant: the cached cell is written before KVM's attribute.
BumpCacheFirst(delta) ==
  \/ /\ offset' = offset + delta
     /\ kvmOffset' = offset + delta
     /\ GoTo("park")
  \/ /\ offset' = offset + delta
     /\ StopWith("abort") /\ UNCHANGED kvmOffset

\* bump_offset: KVM's attribute first, then the cached cell; a failed write
\* leaves both alone and aborts the run.
BumpOffset(delta) ==
  \/ /\ kvmOffset' = offset + delta
     /\ offset' = offset + delta
     /\ GoTo("park")
  \/ StopWith("abort") /\ UNCHANGED <<offset, kvmOffset>>

\* The jump: one host sample, the target is the queue's next deadline.
Jump ==
  /\ pc = "jump"
  /\ LET next == PeekDeadline(queue)
         delta == next - Vtsc IN
       \/ /\ delta <= 0
          /\ GoTo("park") /\ UNCHANGED <<offset, kvmOffset>>
       \/ /\ delta > 0 /\ next # horizon /\ delta > MaxJump
          /\ StopWith("abort") /\ UNCHANGED <<offset, kvmOffset>>
       \/ /\ delta > 0 /\ (next = horizon \/ delta <= MaxJump)
          /\ BumpOffset(delta)
  /\ UNCHANGED <<host, ff, horizon, timer, irr, ppr, queue, iflag, extVars, input,
                 finishLine>>
-----------------------------------------------------------------------------
(* The outside world. *)

HostTick ==
  /\ host < MaxHost
  /\ pc # "stopped"
  /\ host' = host + 1
  /\ UNCHANGED <<offset, kvmOffset, ff, horizon, timer, irr, ppr, queue, iflag,
                 extVars, input, finishLine, pc, stop>>

\* A socket becomes readable or writable, or the resolver answers.
SocketReady ==
  /\ busy /\ ~sockReady /\ WithinBound /\ pc # "stopped"
  /\ sockReady' = TRUE
  /\ UNCHANGED <<clockVars, timer, irr, ppr, queue, iflag, busy, input,
                 finishLine, pc, stop>>

ConsoleInput ==
  /\ ~input /\ WithinBound /\ pc # "stopped"
  /\ input' = TRUE
  /\ UNCHANGED <<clockVars, timer, irr, ppr, queue, iflag, extVars,
                 finishLine, pc, stop>>

Stopped == pc = "stopped" /\ UNCHANGED vars

Guest == GuestProgramsTimer \/ GuestPriority \/ GuestUart
           \/ GuestShutdown \/ GuestExit \/ GuestHlt

Vmm == Boundary \/ Drain \/ Inject \/ ParkService \/ ParkPump
         \/ WaitReady \/ Jump

Next == Vmm \/ Guest \/ WaitSpurious
          \/ HostTick \/ SocketReady \/ ConsoleInput \/ Stopped

Spec == Init /\ [][Next]_vars

\* The vCPU thread keeps running, the host clock advances, and a guest that
\* runs is broken out of KVM_RUN (by its own exits or by the doorbell, see
\* Doorbell).  Nothing is assumed of sockets, the console or spurious wakes.
Fairness == WF_vars(Vmm) /\ WF_vars(HostTick) /\ WF_vars(Guest)

FairSpec == Spec /\ Fairness

-----------------------------------------------------------------------------
(* Properties. *)

Parked == {"park", "parkpump", "wait", "jump"}

Cpu == IF pc = "stopped" THEN "stopped"
       ELSE IF pc \in Parked THEN "halted" ELSE "running"

VT == INSTANCE VirtualTime WITH now <- Vtsc, cpu <- Cpu, live <- busy

\* The loop, its park and the jump implement VirtualTime: in particular a jump
\* happens only while the guest is halted, nothing is deliverable and egress
\* is quiescent, and never carries virtual time past the horizon or past a
\* tick that could wake the guest (fast_forward_until_deliverable).
ImplementsVirtualTime == VT!Spec

\* The guest's RDTSC (host + kvmOffset) and the VMM's virtual clock are the
\* same clock in every state, a failed KVM write included (bump_offset).
OneClock == kvmOffset = offset

\* What a park iteration may rely on between service_timers and the wait or
\* the jump: the horizon is scheduled and still ahead of the sampled time or
\* just became due; the timer is scheduled too, unless it fired in this very
\* iteration, in which case it cannot wake the guest: it was masked, or its
\* vector is pending already.
ParkSchedule ==
  pc \in {"parkpump", "wait", "jump"} =>
    /\ horizon # None => [at |-> horizon, kind |-> "StopRun"] \in queue
    /\ Armed(timer) =>
         \/ [at |-> timer.deadline, kind |-> "LapicDeadline"] \in queue
         \/ timer.masked
         \/ "timer" \in irr

\* The jump is tried only with something to jump to, with nothing deliverable
\* and with egress quiescent: the phase gate, evaluated steps earlier, still
\* holds when the host clock is sampled.
JumpLegal ==
  pc = "jump" => /\ queue # {} /\ ff /\ ~busy
                 /\ Deliverable(irr, ppr) = {}

OneEntryPerKind == \A e, f \in queue : e.kind = f.kind => e = f

NoWorkWhenQuiescent == sockReady => busy

\* The inductive invariant behind the three above.
Inv == /\ TypeOK /\ OneEntryPerKind /\ NoWorkWhenQuiescent
       /\ OneClock /\ ParkSchedule /\ JumpLegal

\* A halted guest with a tick that can wake it is resumed (or the run ends),
\* however the park waits: jumping, at real rate behind a live connection, or
\* with fast-forward off.  MaxHost bounds the ticks the model can wait for.
HaltedGuestWakes ==
  (pc = "park" /\ VT!TimerCanWake /\ timer.deadline <= MaxHost)
    ~> pc \notin Parked

\* A finish line the agent has written ends the run, before the guest can end
\* it another way: only the horizon or a VMM failure takes precedence.
FinishEndsRun == finishLine ~> stop \in {"driver_finish", "horizon", "abort"}

\* A run with a virtual-time budget ends.
RunEnds == horizon # None => <>(pc = "stopped")
=============================================================================
