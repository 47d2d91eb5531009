----------------------------- MODULE LoopProofs -----------------------------
(***************************************************************************)
(* Proofs about the run loop: FastForward, for every set of spans, horizon,*)
(* jump bound and choice of flags; then Doorbell on top of it: the loop    *)
(* with its doorbell is still the loop of FastForward, and a guest in      *)
(* KVM_RUN can always be preempted in time, for every deadline, jump bound,*)
(* horizon and rounding slack.                                             *)
(***************************************************************************)
EXTENDS Doorbell, TLAPS

-----------------------------------------------------------------------------
(* The LAPIC timer. *)

\* The boundary a periodic timer is re-armed to is a time, strictly later
\* than the moment it fired (the loop of fire_timer_if_due terminates past
\* now).
LEMMA NextBoundaryLater ==
  ASSUME NEW dl \in Nat, NEW period \in Nat, NEW now \in Nat,
         period > 0, dl <= now
  PROVE  NextBoundary(dl, period, now) \in Nat /\ NextBoundary(dl, period, now) > now
<1> DEFINE q == (now - dl) \div period
<1>1. q \in Nat /\ now - dl < (q + 1) * period
  OBVIOUS
<1>2. (q + 1) * period \in Nat
  BY <1>1
<1> QED
  BY <1>1, <1>2 DEF NextBoundary

\* Every timer operation yields a timer.
LEMMA TimerOps ==
  ASSUME NEW t \in Timers, NEW now \in Nat
  PROVE  /\ ResetTimer \in Timers
         /\ \A mode \in Modes, masked \in BOOLEAN :
              WriteLvtTimer(t, mode, masked) \in Timers
         /\ \A span \in Nat : WriteTimerIct(t, span, now) \in Timers
         /\ TimerDue(t, now) => AfterFire(t, now) \in Timers
<1>1. TimerDue(t, now) => AfterFire(t, now) \in Timers
  <2> SUFFICES ASSUME TimerDue(t, now) PROVE AfterFire(t, now) \in Timers
    OBVIOUS
  <2>1. t.deadline \in Nat /\ t.deadline <= now /\ t.period \in Nat
    BY DEF TimerDue, Armed, Timers, Deadlines
  <2>2. t.period > 0 => NextBoundary(t.deadline, t.period, now) \in Nat
    BY <2>1, NextBoundaryLater
  <2> QED
    BY <2>2 DEF AfterFire, Timers, Deadlines
<1>2. ASSUME NEW span \in Nat PROVE WriteTimerIct(t, span, now) \in Timers
  <2>1. (IF span = 0 THEN None ELSE now + span) \in Deadlines
    BY DEF Deadlines
  <2>2. (IF t.mode = "periodic" THEN span ELSE 0) \in Nat
    OBVIOUS
  <2> QED
    BY <2>1, <2>2 DEF WriteTimerIct, Timers
<1>3. \A mode \in Modes, masked \in BOOLEAN : WriteLvtTimer(t, mode, masked) \in Timers
  BY DEF WriteLvtTimer, Timers, Deadlines
<1>4. ResetTimer \in Timers
  BY DEF ResetTimer, Timers, Modes, Deadlines
<1> QED
  BY <1>1, <1>2, <1>3, <1>4

-----------------------------------------------------------------------------
(* Type correctness. *)

\* The run's configuration is fixed at its start.
LEMMA ConfigKept ==
  ASSUME [Next]_vars
  PROVE  UNCHANGED <<ff, horizon>>
BY DEF Next, Vmm, Guest, Boundary, Drain, Inject, GuestProgramsTimer, GuestPriority,
       GuestUart, GuestShutdown, GuestExit, GuestHlt, ParkService, ParkPump, WaitReady,
       WaitSpurious, WakeFromWait, Jump, HostTick, SocketReady, ConsoleInput, Stopped,
       vars, clockVars

\* The queue service_timers builds holds events.
LEMMA MirrorType ==
  ASSUME timer \in Timers, horizon \in Deadlines
  PROVE  Mirror(timer) \subseteq Events
BY DEF Mirror, Events, Kinds, Timers, Deadlines, Armed

\* The queue holds the timer's deadline exactly when the timer is armed, so
\* popping the due entries fires the timer exactly when it is due.
LEMMA FiresWhenDue ==
  ASSUME timer \in Timers, NEW now \in Nat
  PROVE  Fires(now) <=> TimerDue(timer, now)
<1>1. ASSUME Fires(now) PROVE TimerDue(timer, now)
  <2>1. PICK e \in Mirror(timer) : e.at <= now /\ e.kind = "LapicDeadline"
    BY <1>1 DEF Fires, Due
  <2>2. e.kind # "StopRun"
    BY <2>1
  <2>3. Armed(timer) /\ e = [at |-> timer.deadline, kind |-> "LapicDeadline"]
    BY <2>2 DEF Mirror
  <2> QED
    BY <2>1, <2>3 DEF TimerDue
<1>2. ASSUME TimerDue(timer, now) PROVE Fires(now)
  <2> DEFINE e == [at |-> timer.deadline, kind |-> "LapicDeadline"]
  <2>1. e \in Mirror(timer)
    BY <1>2 DEF TimerDue, Mirror
  <2>2. e.at <= now /\ e.kind = "LapicDeadline"
    BY <1>2 DEF TimerDue
  <2>3. e \in Due(Mirror(timer), now)
    BY <2>1, <2>2 DEF Due
  <2> QED
    BY <2>2, <2>3 DEF Fires
<1> QED
  BY <1>1, <1>2

\* service_timers preserves the types.
LEMMA ServiceType ==
  ASSUME TypeOK, NEW extra \in SUBSET {"dev"}, ServiceTimers(Vtsc, extra)
  PROVE  timer' \in Timers /\ irr' \subseteq Vectors /\ queue' \subseteq Events
<1>1. Vtsc \in Nat
  BY DEF TypeOK, Vtsc
<1>2. timer' \in Timers
  BY <1>1, FiresWhenDue, TimerOps DEF TypeOK, ServiceTimers
<1>3. irr' \subseteq Vectors
  BY DEF TypeOK, ServiceTimers, Vectors
<1>4. queue' \subseteq Events
  BY MirrorType DEF TypeOK, ServiceTimers
<1> QED
  BY <1>2, <1>3, <1>4

\* The highest of a non-empty set of vectors is one of them.
LEMMA HighestMember ==
  ASSUME NEW vs \in SUBSET Vectors, vs # {}
  PROVE  HighestOf(vs) \in vs
<1>1. \E v \in vs : \A w \in vs : Class[v] >= Class[w]
  <2>1. Class["timer"] = 2 /\ Class["dev"] = 1
    BY DEF Class, Vectors
  <2>2. CASE "timer" \in vs
    BY <2>1, <2>2 DEF Vectors
  <2>3. CASE "timer" \notin vs
    <3>1. \A w \in vs : w = "dev"
      BY <2>3 DEF Vectors
    <3> QED
      BY <2>1, <3>1
  <2> QED
    BY <2>2, <2>3
<1> QED
  BY <1>1 DEF HighestOf

\* A queue of at most the timer's and the horizon's entry has a deadline to
\* peek at.
LEMMA PeekMember ==
  ASSUME NEW q \in SUBSET Events, q # {},
         \A e, f \in q : e.kind = f.kind => e = f
  PROVE  \E e \in q : e.at = PeekDeadline(q) /\ \A f \in q : PeekDeadline(q) <= f.at
<1>1. \E e \in q : \A f \in q : e.at <= f.at
  <2>1. \A e \in q : e.at \in Nat
    BY DEF Events
  <2>3. \A e \in q : e.kind \in {"LapicDeadline", "StopRun"}
    BY DEF Events, Kinds
  <2>4. PICK a \in q : TRUE
    OBVIOUS
  <2>5. CASE \E b \in q : b.at < a.at
    <3>1. PICK b \in q : b.at < a.at
      BY <2>5
    <3>2. b.kind # a.kind
      BY <2>1, <3>1
    <3>3. \A f \in q : f = a \/ f = b
      BY <2>3, <3>2
    <3> QED
      BY <2>1, <3>1, <3>3
  <2>6. CASE ~ \E b \in q : b.at < a.at
    BY <2>1, <2>6
  <2> QED
    BY <2>5, <2>6
<1> QED
  BY <1>1 DEF PeekDeadline

-----------------------------------------------------------------------------
(* The inductive invariant, one lemma per conjunct. *)

LEMMA InitInv == Init => Inv
<1>1. ResetTimer \in Timers
  BY DEF ResetTimer, Timers, Modes, Deadlines
<1>2. ASSUME Init PROVE TypeOK
  <2>1. iflag \in BOOLEAN /\ busy \in BOOLEAN /\ sockReady \in BOOLEAN
          /\ input \in BOOLEAN /\ finishLine \in BOOLEAN
    BY <1>2, Zenon DEF Init
  <2>0. ff \in BOOLEAN /\ horizon \in Deadlines
    BY <1>2, ConstantsAssumption DEF Init
  <2>2. ppr \in 0..2 /\ host \in Nat /\ offset \in Nat /\ kvmOffset \in Nat
    BY <1>2 DEF Init
  <2>3. irr \subseteq Vectors /\ queue \subseteq Events
    BY <1>2 DEF Init
  <2> QED
    BY <1>1, <1>2, <2>0, <2>1, <2>2, <2>3 DEF Init, TypeOK, Pcs
<1>3. Init => /\ OneEntryPerKind /\ NoWorkWhenQuiescent
              /\ OneClock /\ ParkSchedule /\ JumpLegal
  BY DEF Init, OneEntryPerKind, NoWorkWhenQuiescent, OneClock, ParkSchedule, JumpLegal
<1> QED
  BY <1>2, <1>3 DEF Inv

\* A jump that happens moves the offset by a positive number of cycles.
LEMMA JumpType ==
  ASSUME Inv, Jump
  PROVE  offset' \in Nat /\ kvmOffset' \in Nat
<1>1. host \in Nat /\ offset \in Nat /\ kvmOffset \in Nat /\ Vtsc \in Nat
  BY DEF Inv, TypeOK, Vtsc
<1>2. queue # {} /\ queue \subseteq Events
  BY DEF Inv, TypeOK, JumpLegal, Jump
<1>3. PeekDeadline(queue) \in Nat
  BY <1>2, PeekMember DEF Inv, OneEntryPerKind, Events
<1> QED
  BY <1>1, <1>3 DEF Jump, BumpOffset

LEMMA TypeStep ==
  ASSUME Inv, [Next]_vars
  PROVE  TypeOK'
<1> USE DEF Inv
<1>0. Vtsc \in Nat
  BY DEF TypeOK, Vtsc
<1>1. CASE Boundary
  <2>1. timer' \in Timers /\ irr' \subseteq Vectors /\ queue' \subseteq Events
    BY <1>1, ServiceType DEF Boundary
  <2> QED
    BY <1>1, <2>1 DEF Boundary, TypeOK, StopWith, GoTo, clockVars, extVars, Pcs, Reasons
<1>2. CASE Drain
  BY <1>2 DEF Drain, TypeOK, EgressPump, FoldAgentLines, StopWith, GoTo, clockVars, Pcs,
              Reasons, Vectors
<1>3. CASE Inject
  <2>1. irr' \subseteq Vectors
    BY <1>3 DEF Inject, TypeOK
  <2>2. \A v \in Vectors : Class[v] \in 0..2
    BY DEF Class
  <2>3. Deliverable(irr, ppr) \in SUBSET Vectors
    BY DEF Deliverable, TypeOK
  <2>4. ppr' \in 0..2 /\ iflag' \in BOOLEAN
    BY <1>3, <2>2, <2>3, HighestMember DEF Inject, TypeOK
  <2> QED
    BY <1>3, <2>1, <2>4 DEF Inject, TypeOK, GoTo, clockVars, extVars, Pcs
<1>4. CASE GuestProgramsTimer
  <2>1. timer' \in Timers
    BY <1>0, <1>4, TimerOps, ConstantsAssumption DEF GuestProgramsTimer, TypeOK, Modes
  <2> QED
    BY <1>4, <2>1 DEF GuestProgramsTimer, TypeOK, GoTo, clockVars, extVars, Pcs
<1>5. CASE GuestPriority
  BY <1>5 DEF GuestPriority, TypeOK, GoTo, clockVars, extVars, Pcs
<1>6. CASE GuestUart
  BY <1>6 DEF GuestUart, TypeOK, GoTo, clockVars, extVars, Pcs, Vectors
<1>7. CASE GuestShutdown \/ GuestExit \/ GuestHlt
  BY <1>7 DEF GuestShutdown, GuestExit, GuestHlt, TypeOK, StopWith, GoTo, clockVars,
              extVars, Pcs, Reasons
<1>8. CASE ParkService
  <2>1. timer' \in Timers /\ irr' \subseteq Vectors /\ queue' \subseteq Events
    BY <1>8, ServiceType DEF ParkService
  <2> QED
    BY <1>8, <2>1 DEF ParkService, TypeOK, StopWith, GoTo, clockVars, extVars, Pcs, Reasons
<1>9. CASE ParkPump
  BY <1>9 DEF ParkPump, TypeOK, EgressPump, FoldAgentLines, AfterPump, StopWith, GoTo,
              clockVars, extVars, Pcs, Reasons, Vectors
<1>10. CASE WaitReady \/ WaitSpurious
  <2>1. irr' \subseteq Vectors
    BY <1>10 DEF WaitReady, WaitSpurious, WakeFromWait, TypeOK, Vectors
  <2> QED
    BY <1>10, <2>1 DEF WaitReady, WaitSpurious, WakeFromWait, TypeOK, GoTo, clockVars,
                       extVars, Pcs
<1>11. CASE Jump
  <2>1. offset' \in Nat /\ kvmOffset' \in Nat
    BY <1>11, JumpType
  <2>2. pc' \in Pcs /\ stop' \in Reasons \cup {None}
    BY <1>11 DEF Jump, BumpOffset, TypeOK, StopWith, GoTo, Pcs, Reasons
  <2> QED
    BY <1>11, <2>1, <2>2 DEF Jump, TypeOK, extVars
<1>12. CASE HostTick \/ SocketReady \/ ConsoleInput
  <2>1. CASE HostTick
    BY <2>1 DEF HostTick, TypeOK, extVars
  <2>2. CASE SocketReady
    <3>1. sockReady' \in BOOLEAN
      BY <2>2, Zenon DEF SocketReady
    <3> QED
      BY <2>2, <3>1 DEF SocketReady, TypeOK, clockVars
  <2>3. CASE ConsoleInput
    <3>1. input' \in BOOLEAN
      BY <2>3, Zenon DEF ConsoleInput
    <3> QED
      BY <2>3, <3>1 DEF ConsoleInput, TypeOK, clockVars, extVars
  <2> QED
    BY <1>12, <2>1, <2>2, <2>3
<1>13. CASE Stopped \/ UNCHANGED vars
  BY <1>13 DEF Stopped, TypeOK, vars
<1> QED
  BY <1>1, <1>2, <1>3, <1>4, <1>5, <1>6, <1>7, <1>8, <1>9, <1>10, <1>11, <1>12, <1>13
     DEF Next, Vmm, Guest

\* The steps that neither build a queue nor touch what a park iteration
\* relies on while it is between service_timers and its wait or jump.
LEMMA OneEntryStep ==
  ASSUME Inv, [Next]_vars
  PROVE  OneEntryPerKind'
<1>1. CASE Boundary \/ ParkService
  <2>1. queue' \subseteq Mirror(timer)
    BY <1>1 DEF Boundary, ParkService, ServiceTimers
  <2>2. \A e, f \in Mirror(timer) : e.kind = f.kind => e = f
    BY DEF Mirror
  <2> QED
    BY <2>1, <2>2 DEF OneEntryPerKind
<1>2. CASE ~(Boundary \/ ParkService)
  <2>1. queue' = queue
    BY <1>2 DEF Next, Vmm, Guest, vars, Drain, Inject, GuestProgramsTimer, GuestPriority,
                GuestUart, GuestShutdown, GuestExit, GuestHlt, ParkPump, WaitReady,
                WaitSpurious, WakeFromWait, Jump, HostTick, SocketReady, ConsoleInput, Stopped
  <2> QED
    BY <2>1 DEF Inv, OneEntryPerKind
<1> QED
  BY <1>1, <1>2

LEMMA NoWorkStep ==
  ASSUME Inv, [Next]_vars
  PROVE  NoWorkWhenQuiescent'
<1>1. CASE Drain \/ ParkPump
  BY <1>1 DEF Inv, NoWorkWhenQuiescent, Drain, ParkPump, EgressPump, extVars
<1>2. CASE GuestUart
  <2>1. sockReady' = busy' \/ UNCHANGED <<busy, sockReady>>
    BY <1>2 DEF GuestUart, extVars
  <2> QED
    BY <2>1 DEF Inv, NoWorkWhenQuiescent
<1>3. CASE SocketReady
  <2>1. busy /\ busy' = busy
    BY <1>3 DEF SocketReady
  <2> QED
    BY <2>1 DEF NoWorkWhenQuiescent
<1>4. CASE ~(Drain \/ ParkPump \/ GuestUart \/ SocketReady)
  <2>1. busy' = busy /\ sockReady' = sockReady
    BY <1>4 DEF Next, Vmm, Guest, vars, extVars, Boundary, Inject, GuestProgramsTimer,
                GuestPriority, GuestShutdown, GuestExit, GuestHlt, ParkService, WaitReady,
                WaitSpurious, WakeFromWait, Jump, HostTick, ConsoleInput, Stopped
  <2> QED
    BY <2>1 DEF Inv, NoWorkWhenQuiescent
<1> QED
  BY <1>1, <1>2, <1>3, <1>4

LEMMA OneClockStep ==
  ASSUME Inv, [Next]_vars
  PROVE  OneClock'
<1>1. CASE Jump
  BY <1>1 DEF Inv, OneClock, Jump, BumpOffset
<1>2. CASE ~Jump
  <2>1. offset' = offset /\ kvmOffset' = kvmOffset
    BY <1>2 DEF Next, Vmm, Guest, vars, clockVars, Boundary, Drain, Inject,
                GuestProgramsTimer, GuestPriority, GuestUart, GuestShutdown, GuestExit,
                GuestHlt, ParkService, ParkPump, WaitReady, WaitSpurious, WakeFromWait,
                HostTick, SocketReady, ConsoleInput, Stopped
  <2> QED
    BY <2>1 DEF Inv, OneClock
<1> QED
  BY <1>1, <1>2

LEMMA ParkScheduleStep ==
  ASSUME Inv, [Next]_vars
  PROVE  ParkSchedule'
<1>0. Vtsc \in Nat /\ timer \in Timers
  BY DEF Inv, TypeOK, Vtsc
<1>c. horizon' = horizon
  BY ConfigKept
<1>1. CASE ParkService
  <2> SUFFICES ASSUME pc' = "parkpump" PROVE ParkSchedule'
    BY <1>1 DEF ParkService, ParkSchedule, StopWith, GoTo
  <2>1. ~HorizonFired(Vtsc)
    BY <1>1 DEF ParkService, StopWith
  <2>2. queue' = Mirror(timer) \ Due(Mirror(timer), Vtsc)
    BY <1>1 DEF ParkService, ServiceTimers
  <2>3. horizon # None => [at |-> horizon, kind |-> "StopRun"] \in queue'
    BY <2>1, <2>2 DEF HorizonFired, Mirror, Due
  <2>4. CASE Fires(Vtsc)
    <3>1. timer'.masked = timer.masked
      BY <1>0, <1>1, <2>4 DEF ParkService, ServiceTimers, AfterFire, Timers
    <3>2. timer.masked \/ "timer" \in irr'
      BY <1>1, <2>4 DEF ParkService, ServiceTimers
    <3> QED
      BY <1>c, <2>3, <3>1, <3>2 DEF ParkSchedule
  <2>5. CASE ~Fires(Vtsc)
    <3>1. timer' = timer
      BY <1>1, <2>5 DEF ParkService, ServiceTimers
    <3>2. Armed(timer) => [at |-> timer.deadline, kind |-> "LapicDeadline"] \in queue'
      BY <2>2, <2>5 DEF Fires, Mirror, Due
    <3> QED
      BY <1>c, <2>3, <3>1, <3>2 DEF ParkSchedule
  <2> QED
    BY <2>4, <2>5
<1>2. CASE ParkPump
  BY <1>c, <1>2 DEF Inv, ParkSchedule, ParkPump
<1>3. CASE HostTick \/ SocketReady \/ ConsoleInput
  BY <1>c, <1>3 DEF Inv, ParkSchedule, HostTick, SocketReady, ConsoleInput
<1>4. CASE Boundary \/ Drain \/ Inject \/ Guest \/ WaitReady \/ WaitSpurious \/ Jump
  <2>1. pc' \notin {"parkpump", "wait", "jump"}
    BY <1>4 DEF Boundary, Drain, Inject, Guest, GuestProgramsTimer, GuestPriority, GuestUart,
                GuestShutdown, GuestExit, GuestHlt, WaitReady, WaitSpurious, WakeFromWait,
                Jump, BumpOffset, FoldAgentLines, StopWith, GoTo
  <2> QED
    BY <2>1 DEF ParkSchedule
<1>5. CASE Stopped \/ UNCHANGED vars
  BY <1>5 DEF Inv, ParkSchedule, Stopped, vars
<1> QED
  BY <1>1, <1>2, <1>3, <1>4, <1>5 DEF Next, Vmm

LEMMA JumpLegalStep ==
  ASSUME Inv, [Next]_vars
  PROVE  JumpLegal'
<1>c. ff' = ff
  BY ConfigKept
<1>1. CASE ParkPump
  BY <1>c, <1>1 DEF JumpLegal, ParkPump, FoldAgentLines, AfterPump, StopWith, GoTo
<1>2. CASE HostTick \/ ConsoleInput
  BY <1>c, <1>2 DEF Inv, JumpLegal, HostTick, ConsoleInput, extVars
<1>3. CASE SocketReady
  BY <1>c, <1>3 DEF Inv, JumpLegal, SocketReady
<1>4. CASE Boundary \/ Drain \/ Inject \/ Guest \/ ParkService \/ WaitReady
             \/ WaitSpurious \/ Jump
  <2>1. pc' # "jump"
    BY <1>4 DEF Boundary, Drain, Inject, Guest, GuestProgramsTimer, GuestPriority, GuestUart,
                GuestShutdown, GuestExit, GuestHlt, ParkService, WaitReady, WaitSpurious,
                WakeFromWait, Jump, BumpOffset, FoldAgentLines, StopWith, GoTo
  <2> QED
    BY <2>1 DEF JumpLegal
<1>5. CASE Stopped \/ UNCHANGED vars
  BY <1>5 DEF Inv, JumpLegal, Stopped, vars
<1> QED
  BY <1>1, <1>2, <1>3, <1>4, <1>5 DEF Next, Vmm

\* Type correctness, and with it the invariant that the park's schedule and
\* the phase gate are still right when the wait or the jump uses them.
THEOREM Invariance == Spec => []Inv
<1>1. Inv /\ [Next]_vars => Inv'
  BY TypeStep, OneEntryStep, NoWorkStep, OneClockStep, ParkScheduleStep, JumpLegalStep
     DEF Inv
<1> QED
  BY InitInv, <1>1, PTL DEF Spec

\* FastForward is type correct.
THEOREM TypeCorrect == Spec => []TypeOK
<1>1. Inv => TypeOK
  BY DEF Inv
<1> QED
  BY Invariance, <1>1, PTL

\* The guest's clock and the VMM's never part, whatever fails in bump_offset.
THEOREM ClockCoherence == Spec => []OneClock
<1>1. Inv => OneClock
  BY DEF Inv
<1> QED
  BY Invariance, <1>1, PTL

\* Between service_timers and the wait or the jump, every deadline that could
\* wake the guest is in the queue.
THEOREM ScheduleSound == Spec => []ParkSchedule
<1>1. Inv => ParkSchedule
  BY DEF Inv
<1> QED
  BY Invariance, <1>1, PTL

\* Whenever a jump is about to be taken the phase gate still holds.
THEOREM GateSound == Spec => []JumpLegal
<1>1. Inv => JumpLegal
  BY DEF Inv
<1> QED
  BY Invariance, <1>1, PTL

-----------------------------------------------------------------------------
(* FastForward implements VirtualTime, step by step. *)

\* A jump that moves the clock is a Leap: by Inv the queue it is computed from
\* holds the horizon and every tick that could wake the guest.
LEMMA JumpLeaps ==
  ASSUME Inv, Jump
  PROVE  VT!Leap \/ VT!Abort \/ UNCHANGED VT!vars
<1>1. /\ host \in Nat /\ offset \in Nat /\ Vtsc \in Nat /\ timer \in Timers
      /\ host' = host /\ pc = "jump" /\ Cpu = "halted"
  BY DEF Inv, TypeOK, Vtsc, Jump, Cpu, Parked
<1>2. UNCHANGED <<timer, irr, ppr, busy, horizon>>
  BY DEF Jump, extVars
<1>3. PICK e \in queue : e.at = PeekDeadline(queue)
                        /\ \A f \in queue : PeekDeadline(queue) <= f.at
  BY <1>1, PeekMember DEF Inv, TypeOK, OneEntryPerKind, JumpLegal
<1>4. PeekDeadline(queue) \in Nat
  BY <1>3 DEF Inv, TypeOK, Events
<1>5. CASE offset' = offset /\ pc' = "park"
  BY <1>1, <1>2, <1>5 DEF VT!vars, Vtsc, Cpu, Parked
<1>6. CASE offset' = offset /\ pc' = "stopped"
  BY <1>1, <1>2, <1>6 DEF VT!Abort, Vtsc, Cpu
<1>7. CASE /\ PeekDeadline(queue) - Vtsc > 0
           /\ offset' = offset + (PeekDeadline(queue) - Vtsc) /\ pc' = "park"
  <2>1. Vtsc' = PeekDeadline(queue) /\ Vtsc' > Vtsc
    BY <1>1, <1>4, <1>7 DEF Vtsc
  <2>2. ~busy /\ Deliverable(irr, ppr) = {}
    BY <1>1 DEF Inv, JumpLegal
  <2>3. horizon # None => Vtsc' <= horizon
    <3> DEFINE h == [at |-> horizon, kind |-> "StopRun"]
    <3>1. horizon # None => h \in queue /\ h.at = horizon
      BY <1>1 DEF Inv, ParkSchedule
    <3> QED
      BY <1>3, <2>1, <3>1
  <2>4. VT!TimerCanWake => Vtsc' <= timer.deadline
    <3> SUFFICES ASSUME VT!TimerCanWake PROVE Vtsc' <= timer.deadline
      OBVIOUS
    <3> DEFINE d == [at |-> timer.deadline, kind |-> "LapicDeadline"]
    <3>1. Armed(timer) /\ ~timer.masked /\ Class["timer"] > ppr
      BY DEF VT!TimerCanWake, VT!Armed, VT!Class, VT!Vectors, Armed, Class, Vectors
    <3>2. "timer" \notin irr
      BY <2>2, <3>1 DEF Deliverable
    <3>3. d \in queue /\ d.at = timer.deadline
      BY <1>1, <3>1, <3>2 DEF Inv, ParkSchedule
    <3> QED
      BY <1>3, <2>1, <3>3
  <2>5. Cpu' = Cpu
    BY <1>1, <1>7 DEF Cpu, Parked
  <2> QED
    BY <1>1, <1>2, <1>4, <2>1, <2>2, <2>3, <2>4, <2>5
       DEF VT!Leap, VT!Deliverable, VT!Class, VT!Vectors, Deliverable, Class, Vectors
<1> QED
  BY <1>5, <1>6, <1>7 DEF Jump, BumpOffset, StopWith, GoTo

\* Init is an initial state of VirtualTime.
LEMMA InitImplements == Init => VT!Init
BY DEF Init, VT!Init, VT!ResetTimer, ResetTimer, Vtsc, Cpu, Parked

\* service_timers, in the loop and in the park, is VirtualTime's Service.
LEMMA ServiceImplements ==
  ASSUME Inv, Boundary \/ ParkService
  PROVE  VT!Service
<1>1. Vtsc \in Nat /\ timer \in Timers
  BY DEF Inv, TypeOK, Vtsc
<1>2. PICK raised \in SUBSET {"dev"} : ServiceTimers(Vtsc, raised)
  BY DEF Boundary, ParkService
<1>3. Vtsc' = Vtsc /\ UNCHANGED <<ppr, busy, horizon>>
  BY DEF Boundary, ParkService, clockVars, extVars, Vtsc
<1>4. Fires(Vtsc) <=> TimerDue(timer, Vtsc)
  BY <1>1, FiresWhenDue
<1>5. TimerDue(timer, Vtsc) =>
        /\ timer' = AfterFire(timer, Vtsc)
        /\ irr' = irr \cup raised \cup (IF timer.masked THEN {} ELSE {"timer"})
  BY <1>2, <1>4 DEF ServiceTimers
<1>6. ~TimerDue(timer, Vtsc) => timer' = timer /\ irr' = irr \cup raised
  BY <1>2, <1>4 DEF ServiceTimers
<1>7. Cpu # "stopped"
  BY DEF Boundary, ParkService, Cpu, Parked
<1>8. Cpu' = Cpu \/ (Cpu' = "stopped" /\ horizon # None /\ horizon <= Vtsc)
  <2>1. CASE HorizonFired(Vtsc)
    <3>1. PICK e \in Mirror(timer) : e.at <= Vtsc /\ e.kind = "StopRun"
      BY <2>1 DEF HorizonFired, Due
    <3>2. e.kind # "LapicDeadline"
      BY <3>1
    <3>3. horizon # None /\ e = [at |-> horizon, kind |-> "StopRun"]
      BY <3>2 DEF Mirror
    <3>4. Cpu' = "stopped"
      BY <2>1 DEF Boundary, ParkService, StopWith, Cpu
    <3> QED
      BY <3>1, <3>3, <3>4
  <2>2. CASE ~HorizonFired(Vtsc)
    BY <2>2 DEF Boundary, ParkService, GoTo, Cpu, Parked
  <2> QED
    BY <2>1, <2>2
<1> QED
  BY <1>2, <1>3, <1>5, <1>6, <1>7, <1>8
     DEF VT!Service, VT!Expire, VT!TimerDue, VT!Armed, VT!AfterFire, VT!NextBoundary,
         TimerDue, Armed, AfterFire, NextBoundary

\* The pumps and the wakes of a wait are VirtualTime's Devices; only a pump
\* that made something deliverable resumes a halted guest.
LEMMA DevicesImplement ==
  ASSUME Inv, Drain \/ ParkPump \/ WaitReady \/ WaitSpurious
  PROVE  VT!Devices
<1>1. UNCHANGED <<timer, ppr, horizon>> /\ Vtsc' = Vtsc
  BY DEF Drain, ParkPump, WaitReady, WaitSpurious, WakeFromWait, clockVars, Vtsc
<1>2. \E raised \in SUBSET {"dev"} : irr' = irr \cup raised
  <2>1. CASE irr' = irr
    <3>1. irr' = irr \cup {} /\ {} \in SUBSET {"dev"}
      BY <2>1
    <3> QED
      BY <3>1
  <2>2. CASE irr' # irr /\ Drain
    BY <2>2 DEF Drain
  <2>3. CASE irr' # irr /\ ParkPump
    BY <2>3 DEF ParkPump
  <2>4. CASE irr' # irr /\ (WaitReady \/ WaitSpurious)
    <3>1. irr' = irr \cup {"dev"} /\ {"dev"} \in SUBSET {"dev"}
      BY <2>4 DEF WaitReady, WaitSpurious, WakeFromWait
    <3> QED
      BY <3>1
  <2> QED
    BY <2>1, <2>2, <2>3, <2>4
<1>3. busy' => busy
  BY DEF Inv, NoWorkWhenQuiescent, Drain, ParkPump, EgressPump, WaitReady, WaitSpurious,
         WakeFromWait, extVars
<1>4. Cpu # "stopped"
  BY DEF Drain, ParkPump, WaitReady, WaitSpurious, Cpu, Parked
<1>5. \/ Cpu' \in {Cpu, "stopped"}
      \/ Cpu = "halted" /\ Cpu' = "running" /\ Deliverable(irr', ppr) # {}
  <2>1. CASE Drain
    BY <2>1 DEF Drain, FoldAgentLines, StopWith, GoTo, Cpu, Parked
  <2>2. CASE ParkPump
    BY <2>2 DEF ParkPump, FoldAgentLines, AfterPump, StopWith, GoTo, Cpu, Parked
  <2>3. CASE WaitReady \/ WaitSpurious
    BY <2>3 DEF WaitReady, WaitSpurious, WakeFromWait, GoTo, Cpu, Parked
  <2> QED
    BY <2>1, <2>2, <2>3
<1> QED
  BY <1>1, <1>2, <1>3, <1>4, <1>5
     DEF VT!Devices, VT!Deliverable, VT!Class, VT!Vectors, Deliverable, Class, Vectors

\* Injection and everything the guest does are VirtualTime's GuestStep.
LEMMA GuestImplements ==
  ASSUME Inv, TypeOK', Inject \/ Guest
  PROVE  VT!GuestStep
<1>1. Cpu = "running" /\ Cpu' \in {"running", "halted", "stopped"} /\ Vtsc' = Vtsc
      /\ horizon' = horizon
  BY DEF Inject, Guest, GuestProgramsTimer, GuestPriority, GuestUart, GuestShutdown,
         GuestExit, GuestHlt, Cpu, Parked, clockVars, Vtsc
<1>2. ppr' \in 0..2 /\ busy' \in BOOLEAN
  BY DEF TypeOK
<1>3. CASE Inject
  <2>1. irr' \subseteq irr /\ (irr' = irr \/ Deliverable(irr, ppr) # {}) /\ timer' = timer
    BY <1>3 DEF Inject
  <2> QED
    BY <1>1, <1>2, <2>1
       DEF VT!GuestStep, VT!Deliverable, VT!Class, VT!Vectors, Deliverable, Class, Vectors
<1>4. CASE GuestProgramsTimer
  <2>1. irr' = irr
    BY <1>4 DEF GuestProgramsTimer
  <2>2. \/ \E span \in Spans : timer' = WriteTimerIct(timer, span, Vtsc)
        \/ \E mode \in Modes, masked \in BOOLEAN :
             timer' = WriteLvtTimer(timer, mode, masked)
    BY <1>4 DEF GuestProgramsTimer, Modes
  <2> QED
    BY <1>1, <1>2, <2>1, <2>2
       DEF VT!GuestStep, VT!WriteTimerIct, VT!WriteLvtTimer, VT!Modes, WriteTimerIct,
           WriteLvtTimer, Modes
<1>5. CASE GuestPriority \/ GuestUart \/ GuestShutdown \/ GuestExit \/ GuestHlt
  <2>1. timer' = timer
    BY <1>5 DEF GuestPriority, GuestUart, GuestShutdown, GuestExit, GuestHlt
  <2>2. irr \subseteq irr' /\ irr' \subseteq irr \cup {"dev"}
    BY <1>5 DEF GuestPriority, GuestUart, GuestShutdown, GuestExit, GuestHlt
  <2> QED
    BY <1>1, <1>2, <2>1, <2>2 DEF VT!GuestStep
<1> QED
  BY <1>3, <1>4, <1>5 DEF Guest

\* tdvmm keeps the promise VirtualTime states, in both park modes, with and
\* without egress, for every horizon and jump bound.
THEOREM Implements == Spec => ImplementsVirtualTime
<1>1. Inv /\ Inv' /\ [Next]_vars => [VT!Next]_(VT!vars)
  <2> SUFFICES ASSUME Inv, Inv', [Next]_vars PROVE VT!Next \/ UNCHANGED VT!vars
    OBVIOUS
  <2>1. CASE Boundary \/ ParkService
    BY <2>1, ServiceImplements DEF VT!Next
  <2>2. CASE Drain \/ ParkPump \/ WaitReady \/ WaitSpurious
    BY <2>2, DevicesImplement DEF VT!Next
  <2>3. CASE Inject \/ Guest
    BY <2>3, GuestImplements DEF Inv, VT!Next
  <2>4. CASE Jump
    BY <2>4, JumpLeaps DEF VT!Next
  <2>5. CASE HostTick
    <3>1. Vtsc' = Vtsc + 1
      BY <2>5 DEF HostTick, Inv, TypeOK, Vtsc
    <3> QED
      BY <2>5, <3>1 DEF HostTick, VT!Next, VT!Elapse, Cpu, extVars
  <2>6. CASE SocketReady \/ ConsoleInput \/ Stopped \/ UNCHANGED vars
    BY <2>6 DEF SocketReady, ConsoleInput, Stopped, vars, VT!vars, Vtsc, Cpu, clockVars,
                extVars
  <2> QED
    BY <2>1, <2>2, <2>3, <2>4, <2>5, <2>6 DEF Next, Vmm
<1> QED
  BY InitImplements, Invariance, <1>1, PTL DEF Spec, ImplementsVirtualTime, VT!Spec
-----------------------------------------------------------------------------
(* The loop with its doorbell. *)

\* Every step of the loop with its doorbell is a step of FastForward or
\* leaves its variables alone, so FastForward's theorems hold of it.
LEMMA BellStepIsLoopStep == BellNext \/ UNCHANGED allVars => [Next]_vars
  BY DEF BellNext, Clear, Service, Arm, EnterRun, GuestRuns, Signals, TimerExpires,
         SignalInUserspace, SignalInGuest, Rest, Next, Vmm, Guest, allVars

\* The invariants of FastForward hold of the loop with its doorbell.
THEOREM BellLoop == BellSpec => Spec
<1>1. [BellNext]_allVars => [Next]_vars
  BY BellStepIsLoopStep
<1>2. BellInit => Init
  BY DEF BellInit
<1> QED
  BY <1>1, <1>2, PTL DEF BellSpec, Spec

\* FastForward's inductive invariant is preserved by every step here.
LEMMA LoopInv == Inv /\ (BellNext \/ UNCHANGED allVars) => Inv'
  BY BellStepIsLoopStep, TypeStep, OneEntryStep, NoWorkStep, OneClockStep,
     ParkScheduleStep, JumpLegalStep DEF Inv

\* The horizon is fixed at the start of a run.
LEMMA HorizonKept ==
  ASSUME BellNext \/ UNCHANGED allVars
  PROVE  horizon' = horizon
BY BellStepIsLoopStep, ConfigKept

\* min_deadline is a live deadline and no live deadline precedes it.
LEMMA MinDeadlineIsMin ==
  ASSUME Inv
  PROVE  /\ MinDeadline \in Deadlines
         /\ \A e \in queue : MinDeadline # None /\ MinDeadline <= e.at
         /\ Armed(timer) => MinDeadline # None /\ MinDeadline <= timer.deadline
         /\ MinDeadline # None => \/ \E e \in queue : e.at = MinDeadline
                                  \/ Armed(timer) /\ timer.deadline = MinDeadline
<1>1. queue \subseteq Events /\ timer.deadline \in Nat \cup {None}
  BY DEF Inv, TypeOK, Timers, Deadlines
<1>2. \A e \in queue : e.at \in Nat
  BY <1>1 DEF Events
<1>3. CASE queue = {}
  BY <1>1, <1>3 DEF MinDeadline, NextEvent, Armed, Deadlines
<1>4. CASE queue # {}
  <2>1. PICK e \in queue : e.at = PeekDeadline(queue)
                           /\ \A f \in queue : PeekDeadline(queue) <= f.at
    BY <1>1, <1>4, PeekMember DEF Inv, OneEntryPerKind
  <2>2. NextEvent = e.at /\ NextEvent \in Nat /\ NextEvent # None
    BY <1>2, <1>4, <2>1, NoneAssumption DEF NextEvent
  <2>3. CASE timer.deadline = None \/ NextEvent <= timer.deadline
    <3>1. MinDeadline = NextEvent
      BY <2>2, <2>3 DEF MinDeadline
    <3> QED
      BY <1>1, <2>1, <2>2, <2>3, <3>1 DEF Armed, Deadlines
  <2>4. CASE ~(timer.deadline = None \/ NextEvent <= timer.deadline)
    <3>1. MinDeadline = timer.deadline /\ timer.deadline \in Nat
      BY <1>1, <2>2, <2>4 DEF MinDeadline
    <3>2. timer.deadline < NextEvent
      BY <2>2, <2>4, <3>1
    <3> QED
      BY <1>2, <2>1, <2>2, <3>1, <3>2, NoneAssumption DEF Armed, Deadlines
  <2> QED
    BY <2>3, <2>4
<1> QED
  BY <1>3, <1>4

\* After service_timers every live deadline is in the future.
LEMMA ServicedIsLater ==
  ASSUME Inv, NEW extra \in SUBSET {"dev"}, ServiceTimers(Vtsc, extra)
  PROVE  /\ \A e \in queue' : e.at > Vtsc
         /\ Armed(timer') => timer'.deadline > Vtsc
<1>1. Vtsc \in Nat /\ timer \in Timers
  BY DEF Inv, TypeOK, Vtsc
<1>2. \A e \in queue' : e.at > Vtsc
  <2>1. Mirror(timer) \subseteq Events
    BY <1>1, MirrorType DEF Inv, TypeOK
  <2> QED
    BY <1>1, <2>1 DEF ServiceTimers, Due, Events
<1>3. CASE TimerDue(timer, Vtsc)
  <2>1. timer' = AfterFire(timer, Vtsc)
    BY <1>1, <1>3, FiresWhenDue DEF ServiceTimers
  <2>2. timer.deadline \in Nat /\ timer.period \in Nat /\ timer.deadline <= Vtsc
    BY <1>1, <1>3 DEF TimerDue, Armed, Timers, Deadlines
  <2>3. timer'.deadline = IF timer.period > 0
                          THEN NextBoundary(timer.deadline, timer.period, Vtsc) ELSE None
    BY <1>1, <2>1 DEF AfterFire, Timers
  <2> QED
    BY <1>1, <1>2, <2>2, <2>3, NextBoundaryLater DEF Armed
<1>4. CASE ~TimerDue(timer, Vtsc)
  <2>1. timer' = timer
    BY <1>1, <1>4, FiresWhenDue DEF ServiceTimers
  <2>2. Armed(timer) => timer.deadline \in Nat
    BY <1>1 DEF Armed, Timers, Deadlines
  <2> QED
    BY <1>1, <1>2, <1>4, <2>1, <2>2 DEF TimerDue, Armed
<1> QED
  BY <1>3, <1>4
-----------------------------------------------------------------------------
LEMMA BellInitInv == BellInit => BellInv
  BY DEF BellInit, Init, BellInv, BellTypeOK, CacheSound, ArmedSound, ParkReachesArmed,
         HorizonQueued, Parked, Deadlines

LEMMA BellTypeStep ==
  ASSUME Inv, BellInv, BellNext \/ UNCHANGED allVars
  PROVE  BellTypeOK'
<1> USE DEF BellInv, BellTypeOK
<1>1. CASE Arm
  <2>1. MinDeadline \in Deadlines
    BY MinDeadlineIsMin
  <2>2. ASSUME MinDeadline # None, NEW early \in 0..Slack
        PROVE  host + Delay(MinDeadline, early) \in Nat
    BY <2>1, <2>2, SlackAssumption DEF Delay, Inv, TypeOK, Vtsc, Deadlines
  <2> QED
    BY <1>1, <2>1, <2>2 DEF Arm, Deadlines
<1>2. CASE Clear \/ Service \/ EnterRun \/ GuestRuns
  BY <1>2 DEF Clear, Service, EnterRun, GuestRuns, bellVars
<1>3. CASE Signals \/ Rest
  BY <1>3 DEF Signals, TimerExpires, SignalInUserspace, SignalInGuest, Handler, Rest,
              bellVars, Deadlines
<1>4. CASE UNCHANGED allVars
  BY <1>4 DEF allVars
<1> QED
  BY <1>1, <1>2, <1>3, <1>4 DEF BellNext

\* The loop top: after service_timers nothing live is at or before a deadline
\* a jump went past.
LEMMA ServiceKeeps ==
  ASSUME Inv, BellInv, BellTypeOK', Service
  PROVE  BellInv'
<1>1. PICK extra \in SUBSET {"dev"} : ServiceTimers(Vtsc, extra)
  BY DEF Service, Boundary
<1>2. pc = "boundary" /\ at = "ready" /\ at' = "ready" /\ pc' \in {"drain", "stopped"}
      /\ UNCHANGED <<host, offset, expiry, signal, immExit, fired, lastArmed>>
  BY DEF Service, Boundary, bellVars, clockVars, StopWith, GoTo
<1>3. Vtsc' = Vtsc /\ Vtsc \in Nat
  BY <1>2 DEF Vtsc, Inv, TypeOK
<1>4. CacheSound'
  <2>1. lastArmed # None /\ lastArmed <= Vtsc => LiveAfter(lastArmed)'
    <3>1. queue' \subseteq Events /\ timer' \in Timers
      BY <1>1, ServiceType DEF Inv
    <3>2. (\A e \in queue' : e.at > Vtsc) /\ (Armed(timer') => timer'.deadline > Vtsc)
      BY <1>1, ServicedIsLater
    <3>3. lastArmed # None => lastArmed \in Nat
      BY DEF BellInv, BellTypeOK, Deadlines
    <3> QED
      BY <1>2, <1>3, <3>1, <3>2, <3>3 DEF LiveAfter, Armed, Events, Timers, Deadlines
  <2> QED
    BY <1>2, <1>3, <2>1 DEF BellInv, CacheSound, Covers
<1>5. HorizonQueued'
  <2> SUFFICES ASSUME pc' = "drain", horizon # None
               PROVE  [at |-> horizon, kind |-> "StopRun"] \in queue'
    BY <1>2, HorizonKept DEF HorizonQueued, BellNext
  <2>1. ~HorizonFired(Vtsc)
    BY DEF Service, Boundary, StopWith
  <2> QED
    BY <1>1, <2>1 DEF ServiceTimers, HorizonFired, Due, Mirror
<1> QED
  BY <1>2, <1>4, <1>5 DEF BellInv, ArmedSound, ParkReachesArmed, Parked

\* Arming: the timer is set for the earliest live deadline, or it was already.
LEMMA ArmKeeps ==
  ASSUME Inv, BellInv, BellTypeOK', Arm
  PROVE  BellInv'
<1>1. pc = "guest" /\ at = "ready" /\ at' = "armed" /\ UNCHANGED <<vars, immExit>>
  BY DEF Arm
<1>2. MinDeadline' = MinDeadline /\ Vtsc' = Vtsc
  BY <1>1 DEF vars, MinDeadline, NextEvent, PeekDeadline, Vtsc
<1>3. host \in Nat /\ offset \in Nat /\ Vtsc = host + offset
  BY DEF Inv, TypeOK, Vtsc
<1>4. lastArmed' = MinDeadline
  BY DEF Arm, KeepArmed
<1>5. ASSUME MinDeadline # None PROVE Covers(MinDeadline)'
  <2>1. MinDeadline \in Nat
    BY <1>5, MinDeadlineIsMin DEF Deadlines
  <2>2. CASE KeepArmed(MinDeadline)
    <3>1. UNCHANGED <<expiry, signal, host, offset>> /\ lastArmed = MinDeadline /\ ~fired
      BY <1>1, <2>2 DEF Arm, KeepArmed, vars
    <3>2. ~LiveAfter(lastArmed)
      BY <1>5, <2>1, <3>1, MinDeadlineIsMin DEF LiveAfter
    <3> QED
      BY <1>1, <1>2, <1>5, <3>1, <3>2 DEF BellInv, CacheSound, Covers
  <2>3. CASE ~KeepArmed(MinDeadline)
    <3>1. PICK early \in 0..Slack : expiry' = host + Delay(MinDeadline, early)
      BY <1>5, <2>3 DEF Arm
    <3>2. early \in Nat
      BY SlackAssumption
    <3>3. CASE MinDeadline > Vtsc + early
      <4>1. expiry' \in Nat /\ expiry' + offset <= MinDeadline
        BY <1>3, <2>1, <3>1, <3>2, <3>3 DEF Delay
      <4> QED
        BY <1>1, <1>2, <4>1, NoneAssumption DEF Covers, vars
    <3>4. CASE ~(MinDeadline > Vtsc + early)
      <4>1. expiry' \in Nat /\ expiry' = host
        BY <1>3, <2>1, <3>1, <3>2, <3>4 DEF Delay
      <4> QED
        BY <1>1, <1>2, <1>3, <4>1, NoneAssumption DEF Covers, vars
    <3> QED
      BY <3>3, <3>4
  <2> QED
    BY <2>2, <2>3
<1>6. lastArmed' # None => Covers(lastArmed)'
  BY <1>2, <1>4, <1>5 DEF Covers
<1> QED
  BY <1>1, <1>2, <1>4, <1>6
     DEF BellInv, CacheSound, ArmedSound, ParkReachesArmed, Parked, HorizonQueued, vars

\* Signals turn a pending expiry into a recorded fire.
LEMMA SignalsKeep ==
  ASSUME Inv, BellInv, BellTypeOK', Signals
  PROVE  BellInv'
<1>1. CASE TimerExpires
  <2>1. MinDeadline' = MinDeadline /\ Vtsc' = Vtsc
    BY <1>1 DEF TimerExpires, vars, MinDeadline, NextEvent, PeekDeadline, Vtsc
  <2> QED
    BY <1>1, <2>1 DEF TimerExpires, vars, BellInv, CacheSound, Covers, ArmedSound,
                      ParkReachesArmed, HorizonQueued, Parked
<1>2. CASE SignalInUserspace
  <2>1. MinDeadline' = MinDeadline
    BY <1>2 DEF SignalInUserspace, vars, MinDeadline, NextEvent, PeekDeadline
  <2> QED
    BY <1>2, <2>1 DEF SignalInUserspace, Handler, vars, BellInv, CacheSound, ArmedSound,
                      ParkReachesArmed, HorizonQueued, Parked
<1>3. CASE SignalInGuest
  BY <1>3 DEF SignalInGuest, Handler, GuestExit, GoTo, BellInv, CacheSound, ArmedSound,
              ParkReachesArmed, HorizonQueued, Parked
<1> QED
  BY <1>1, <1>2, <1>3 DEF Signals

\* Entering KVM_RUN, and the guest: a HLT carries the armed deadline into the
\* park.
LEMMA GuestKeeps ==
  ASSUME Inv, BellInv, BellTypeOK', EnterRun \/ GuestRuns
  PROVE  BellInv'
<1>0. UNCHANGED <<expiry, signal, immExit, fired, lastArmed>> /\ pc = "guest"
  BY DEF EnterRun, GuestRuns, bellVars, BellInv, ArmedSound
<1>1. CASE EnterRun /\ ~Bails
  <2>1. MinDeadline' = MinDeadline /\ Vtsc' = Vtsc /\ at' = "in" /\ UNCHANGED vars
    BY <1>1 DEF EnterRun, vars, MinDeadline, NextEvent, PeekDeadline, Vtsc
  <2>2. at = "armed" /\ ~immExit
    BY <1>1 DEF EnterRun, Bails
  <2>3. ArmedSound'
    BY <1>0, <2>1, <2>2 DEF BellInv, ArmedSound, Covers, vars
  <2>4. CacheSound'
    BY <1>0, <2>1 DEF BellInv, CacheSound, Covers, LiveAfter, vars
  <2> QED
    BY <1>0, <2>1, <2>3, <2>4 DEF BellInv, ParkReachesArmed, HorizonQueued, vars
<1>2. CASE (EnterRun /\ Bails) \/ GuestRuns
  <2>1. at' = "top" /\ pc' # "guest" /\ pc' \notin {"drain", "inject"}
        /\ UNCHANGED <<host, offset>> /\ at \in {"armed", "in"}
    BY <1>2 DEF EnterRun, GuestRuns, Guest, GuestProgramsTimer, GuestPriority, GuestUart,
                GuestShutdown, GuestExit, GuestHlt, GoTo, StopWith, clockVars
  <2>2. CacheSound'
    BY <1>0, <2>1 DEF BellInv, CacheSound, Covers, Vtsc
  <2>3. ParkReachesArmed'
    <3>0. horizon' = horizon
      BY HorizonKept DEF BellNext
    <3> SUFFICES ASSUME pc' \in Parked, lastArmed # None PROVE ParkReachesArmed'
      BY <1>0 DEF ParkReachesArmed
    <3>1. UNCHANGED <<timer, queue>>
      BY <1>2 DEF EnterRun, GuestRuns, Guest, GuestProgramsTimer, GuestPriority, GuestUart,
                  GuestShutdown, GuestExit, GuestHlt, GoTo, StopWith, Parked
    <3>2. lastArmed = MinDeadline
      BY <2>1 DEF BellInv, ArmedSound
    <3>3. horizon # None => MinDeadline <= horizon
      BY <1>0, MinDeadlineIsMin DEF BellInv, HorizonQueued
    <3>4. queue \subseteq Events /\ lastArmed \in Nat /\ timer.deadline \in Nat \cup {None}
          /\ horizon \in Nat \cup {None}
      BY DEF Inv, TypeOK, BellInv, BellTypeOK, Deadlines, Timers
    <3> QED
      BY <1>0, <3>0, <3>1, <3>2, <3>3, <3>4, MinDeadlineIsMin
         DEF ParkReachesArmed, Events, Armed
  <2> QED
    BY <2>1, <2>2, <2>3 DEF BellInv, ArmedSound, HorizonQueued
<1> QED
  BY <1>1, <1>2

\* The jump: it moves the offset, and lands at or after the armed deadline.
LEMMA JumpKeeps ==
  ASSUME Inv, BellInv, BellTypeOK', Rest, Jump
  PROVE  BellInv'
<1>1. UNCHANGED <<host, queue, timer, expiry, signal, immExit, fired, lastArmed>>
      /\ pc = "jump" /\ pc' \in {"park", "stopped"} /\ at' = at
  BY DEF Rest, Jump, bellVars, BumpOffset, GoTo, StopWith
<1>2. queue # {} /\ queue \subseteq Events /\ host \in Nat /\ offset \in Nat
  BY <1>1 DEF Inv, TypeOK, JumpLegal
<1>3. PICK e \in queue : e.at = PeekDeadline(queue)
  BY <1>2, PeekMember DEF Inv, OneEntryPerKind
<1>4. e.at \in Nat
  BY <1>2 DEF Events
<1>5. \/ offset' = offset
      \/ Vtsc' = e.at
  BY <1>2, <1>3, <1>4 DEF Jump, BumpOffset, Vtsc
<1>6. lastArmed # None => lastArmed <= e.at /\ lastArmed \in Nat
  BY <1>1 DEF BellInv, ParkReachesArmed, Parked, BellTypeOK, Deadlines
<1>7. CacheSound'
  BY <1>1, <1>5, <1>6 DEF BellInv, CacheSound, Covers, Vtsc
<1>8. at \notin {"armed", "in"}
  BY <1>1 DEF BellInv, ArmedSound
<1>9. horizon' = horizon
  BY HorizonKept DEF BellNext
<1> QED
  BY <1>1, <1>7, <1>8, <1>9 DEF BellInv, ArmedSound, ParkReachesArmed, HorizonQueued, Parked

\* A service in the park only moves the timer forward.
LEMMA ParkServiceKeeps ==
  ASSUME Inv, BellInv, BellTypeOK', Rest, ParkService
  PROVE  BellInv'
<1>1. PICK raised \in SUBSET {"dev"} : ServiceTimers(Vtsc, raised)
  BY DEF ParkService
<1>2. UNCHANGED <<host, offset, expiry, signal, immExit, fired, lastArmed>>
      /\ pc = "park" /\ pc' \in {"parkpump", "stopped"} /\ at' = at
  BY DEF Rest, ParkService, bellVars, clockVars, GoTo, StopWith
<1>3. CacheSound'
  BY <1>2 DEF BellInv, CacheSound, Covers, Vtsc
<1>4. ParkReachesArmed'
  <2> SUFFICES ASSUME lastArmed # None PROVE ParkReachesArmed'
    BY <1>2 DEF ParkReachesArmed
  <2>1. /\ lastArmed \in Nat /\ Vtsc \in Nat /\ timer \in Timers
        /\ Armed(timer) => timer.deadline >= lastArmed
        /\ horizon # None => horizon >= lastArmed
    BY <1>2 DEF BellInv, BellTypeOK, ParkReachesArmed, Parked, Deadlines, Inv, TypeOK, Vtsc
  <2>2. \A e \in queue' : e.at >= lastArmed
    BY <1>1, <2>1 DEF ServiceTimers, Mirror
  <2>3. Armed(timer') => timer'.deadline >= lastArmed
    <3>1. CASE TimerDue(timer, Vtsc)
      <4>1. Armed(timer') => timer'.deadline > Vtsc
        BY <1>1, ServicedIsLater
      <4>2. timer' \in Timers
        BY <1>1, ServiceType DEF Inv
      <4> QED
        BY <2>1, <3>1, <4>1, <4>2 DEF TimerDue, Armed, Timers, Deadlines
    <3>2. CASE ~TimerDue(timer, Vtsc)
      BY <1>1, <2>1, <3>2, FiresWhenDue DEF ServiceTimers
    <3> QED
      BY <3>1, <3>2
  <2>4. horizon' = horizon
    BY HorizonKept DEF BellNext
  <2> QED
    BY <1>2, <2>1, <2>2, <2>3, <2>4 DEF ParkReachesArmed
<1>5. at \notin {"armed", "in"}
  BY <1>2 DEF BellInv, ArmedSound
<1> QED
  BY <1>2, <1>3, <1>4, <1>5 DEF BellInv, ArmedSound, HorizonQueued

\* Everything else leaves the timer, the queue and the offset alone.
LEMMA RestKeeps ==
  ASSUME Inv, BellInv, BellTypeOK', Rest
  PROVE  BellInv'
<1>0. horizon' = horizon
  BY HorizonKept DEF BellNext
<1>1. CASE Jump
  BY <1>1, JumpKeeps
<1>2. CASE ParkService
  BY <1>2, ParkServiceKeeps
<1>3. CASE HostTick \/ SocketReady \/ ConsoleInput \/ Stopped
  <2>1. UNCHANGED <<offset, queue, timer, pc, expiry, signal, immExit, fired, lastArmed, at>>
        /\ host' \in {host, host + 1} /\ host \in Nat /\ offset \in Nat
    BY <1>3 DEF Rest, HostTick, SocketReady, ConsoleInput, Stopped, vars, bellVars,
                clockVars, Inv, TypeOK
  <2>2. MinDeadline' = MinDeadline
    BY <2>1 DEF MinDeadline, NextEvent, PeekDeadline
  <2>3. \A d \in Nat : Covers(d) => Covers(d)'
    BY <2>1 DEF Covers, BellInv, BellTypeOK, Deadlines
  <2>4. lastArmed # None => lastArmed \in Nat
    BY DEF BellInv, BellTypeOK, Deadlines
  <2>5. CacheSound'
    BY <2>1, <2>3, <2>4 DEF BellInv, CacheSound, LiveAfter, Vtsc, Covers
  <2>6. ArmedSound'
    BY <2>1, <2>2, <2>3, <2>4 DEF BellInv, ArmedSound, Covers
  <2> QED
    BY <1>0, <2>1, <2>5, <2>6 DEF BellInv, ParkReachesArmed, HorizonQueued, Parked
<1>4. CASE Drain \/ Inject \/ ParkPump \/ WaitReady \/ WaitSpurious
  <2>1. UNCHANGED <<host, offset, queue, timer, expiry, signal, immExit, fired, lastArmed>>
    BY <1>4 DEF Rest, Drain, Inject, ParkPump, WaitReady, WaitSpurious, WakeFromWait,
                clockVars, bellVars
  <2>2. pc # "guest" /\ at \notin {"armed", "in"}
    BY <1>4 DEF Drain, Inject, ParkPump, WaitReady, WaitSpurious, BellInv, ArmedSound
  <2>3. /\ pc' \in {"drain", "inject", "guest"} => pc \in {"drain", "inject"}
        /\ pc' \in Parked => pc \in Parked
    BY <1>4 DEF Drain, Inject, ParkPump, WaitReady, WaitSpurious, WakeFromWait,
                FoldAgentLines, AfterPump, GoTo, StopWith, Parked
  <2>4. at' \in {at, "top"}
    BY <1>4 DEF Rest
  <2>5. CacheSound'
    <3>1. LiveAfter(lastArmed)' = LiveAfter(lastArmed) /\ Vtsc' = Vtsc
          /\ Covers(lastArmed)' = Covers(lastArmed)
      BY <2>1 DEF LiveAfter, Armed, Vtsc, Covers
    <3> QED
      BY <2>1, <2>3, <3>1 DEF BellInv, CacheSound
  <2>6. ArmedSound' /\ ParkReachesArmed'
    BY <1>0, <2>1, <2>2, <2>3, <2>4 DEF BellInv, ArmedSound, ParkReachesArmed
  <2>7. HorizonQueued'
    <3>1. pc' \in {"drain", "inject", "guest"} => at' = at
      BY <1>4 DEF Rest
    <3> QED
      BY <1>0, <2>1, <2>3, <3>1 DEF BellInv, HorizonQueued
  <2> QED
    BY <2>5, <2>6, <2>7 DEF BellInv
<1> QED
  BY <1>1, <1>2, <1>3, <1>4 DEF Rest

LEMMA BellNextInv == Inv /\ BellInv /\ (BellNext \/ UNCHANGED allVars) => BellInv'
<1> SUFFICES ASSUME Inv, BellInv, BellNext \/ UNCHANGED allVars PROVE BellInv'
  OBVIOUS
<1>1. BellTypeOK'
  BY BellTypeStep
<1>2. CASE Clear
  <2>1. MinDeadline' = MinDeadline
    BY <1>2 DEF Clear, vars, MinDeadline, NextEvent, PeekDeadline
  <2> QED
    BY <1>1, <1>2, <2>1 DEF Clear, vars, BellInv, CacheSound, Covers, LiveAfter, Vtsc,
                            ArmedSound, ParkReachesArmed, HorizonQueued, Parked
<1>3. CASE UNCHANGED allVars
  <2>1. MinDeadline' = MinDeadline
    BY <1>3 DEF allVars, vars, MinDeadline, NextEvent, PeekDeadline
  <2> QED
    BY <1>1, <1>3, <2>1 DEF allVars, vars, BellInv, CacheSound, Covers, LiveAfter, Vtsc,
                            ArmedSound, ParkReachesArmed, HorizonQueued, Parked
<1> QED
  BY <1>1, <1>2, <1>3, ServiceKeeps, ArmKeeps, SignalsKeep, GuestKeeps, RestKeeps
     DEF BellNext

\* The doorbell's invariant, with FastForward's, holds in every state.
THEOREM BellInvariance == BellSpec => [](Inv /\ BellInv)
<1>1. BellInit => Inv /\ BellInv
  BY InitInv, BellInitInv DEF BellInit
<1>2. Inv /\ BellInv /\ [BellNext]_allVars => Inv' /\ BellInv'
  BY LoopInv, BellNextInv
<1> QED
  BY <1>1, <1>2, PTL DEF BellSpec

\* No lost wakeup, for every slack, horizon, jump bound and timer span: in
\* KVM_RUN the host timer covers the LAPIC's deadline and the horizon.
THEOREM Preemptible == BellSpec => []GuestIsPreemptible
<1>1. Inv /\ BellInv => GuestIsPreemptible
  <2> SUFFICES ASSUME Inv, BellInv, at = "in" PROVE GuestIsPreemptible
    BY DEF GuestIsPreemptible
  <2>1. pc = "guest" /\ lastArmed = MinDeadline /\ (MinDeadline # None => Covers(MinDeadline))
    BY DEF BellInv, ArmedSound
  <2>2. ASSUME NEW d \in Nat, MinDeadline # None, MinDeadline <= d PROVE Covers(d)
    BY <2>1, <2>2, MinDeadlineIsMin DEF Covers, BellInv, BellTypeOK, Deadlines, Inv, TypeOK
  <2>3. Armed(timer) => Covers(timer.deadline)
    BY <2>2, MinDeadlineIsMin DEF Armed, Inv, TypeOK, Timers, Deadlines
  <2>4. horizon # None => Covers(horizon)
    BY <2>1, <2>2, MinDeadlineIsMin
       DEF BellInv, HorizonQueued, Deadlines, Inv, TypeOK
  <2> QED
    BY <2>3, <2>4 DEF GuestIsPreemptible
<1> QED
  BY BellInvariance, <1>1, PTL

\* Doorbell is type correct.
THEOREM BellTypeCorrect == BellSpec => []BellTypeOK
  BY BellInvariance, PTL DEF BellInv
=============================================================================
