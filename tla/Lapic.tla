-------------------------------- MODULE Lapic --------------------------------
(***************************************************************************)
(* The userspace local APIC (src/src/lapic.rs) as the run loop sees it:    *)
(* its timer, as a record and the operations on it, and the rule that says *)
(* which pending vector may be delivered.  All times are virtual TSC       *)
(* (vtsc) values.  Interrupts models the priority registers in full.       *)
(*                                                                         *)
(* A timer is [mode, masked, deadline, period]: the two LVT-timer fields   *)
(* the code branches on, `timer_deadline` (None when disarmed) and         *)
(* `timer_period` (0 unless armed in periodic mode).  The count the guest  *)
(* writes to TMICT enters here as the vtsc span it stands for              *)
(* (count * divisor * EBX / EAX, at least one cycle for a non-zero count); *)
(* span 0 stands for the count 0.                                          *)
(***************************************************************************)
EXTENDS Integers

CONSTANT None       \* the Rust None of an Option<u64> deadline

ASSUME NoneAssumption == None \notin Nat

Modes == {"oneshot", "periodic", "tscdeadline"}

Deadlines == Nat \cup {None}

Timers == [mode : Modes, masked : BOOLEAN, deadline : Deadlines, period : Nat]

\* Lapic::new: LVT masked, mode bits zero, nothing armed.
ResetTimer ==
  [mode |-> "oneshot", masked |-> TRUE, deadline |-> None, period |-> 0]

Armed(t) == t.deadline # None

\* write_lvt_timer: a mode change disarms, a same-mode write (toggling the
\* mask) leaves the armed timer running.
WriteLvtTimer(t, mode, masked) ==
  IF mode = t.mode
  THEN [t EXCEPT !.masked = masked]
  ELSE [mode |-> mode, masked |-> masked, deadline |-> None, period |-> 0]

\* write_timer_ict: ignored in TSC-deadline mode, 0 disarms, any other count
\* arms at now + span; only periodic mode keeps the span as the period.
WriteTimerIct(t, span, now) ==
  IF t.mode = "tscdeadline" THEN t
  ELSE [t EXCEPT !.deadline = IF span = 0 THEN None ELSE now + span,
                 !.period   = IF t.mode = "periodic" THEN span ELSE 0]

\* The loop `while now >= next { next += period }` of fire_timer_if_due: the
\* first boundary strictly after now; the periods missed coalesce.
NextBoundary(dl, period, now) == dl + ((now - dl) \div period + 1) * period

TimerDue(t, now) == Armed(t) /\ t.deadline <= now

\* What fire_timer_if_due leaves armed.
AfterFire(t, now) ==
  [t EXCEPT !.deadline =
     IF t.period > 0 THEN NextBoundary(t.deadline, t.period, now) ELSE None]

-----------------------------------------------------------------------------
\* Two interrupt sources are told apart: the timer vector (LOCAL_TIMER_VECTOR
\* 0xec on Linux) and the device vectors behind the IOAPIC, of a lower class.
Vectors == {"timer", "dev"}

Class == [v \in Vectors |-> IF v = "timer" THEN 2 ELSE 1]

\* deliverable_vector: a pending vector is deliverable iff its class exceeds
\* the class in force (PPR).  Class 2, which no vector exceeds, also stands
\* for a soft-disabled APIC.
Deliverable(pending, ppr) == {v \in pending : Class[v] > ppr}
=============================================================================
