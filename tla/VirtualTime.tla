---------------------------- MODULE VirtualTime -----------------------------
(***************************************************************************)
(* What tdvmm promises a guest about time, whichever way it parks: one     *)
(* clock that runs forward, that leaps only over time in which the halted  *)
(* guest could not have been woken, and a timer that fires at or after its *)
(* deadline and is never forgotten.  FastForward implements it.            *)
(***************************************************************************)
EXTENDS Lapic

CONSTANTS
  Horizons,    \* the virtual-time budgets a run may have, None among them
  Spans        \* what a guest programs into its timer

VARIABLES
  now,    \* guest TSC
  cpu,    \* "running", "halted" or "stopped"
  timer,  \* the LAPIC timer
  irr,    \* pending vectors
  ppr,    \* priority class in force
  live,   \* an external connection is open
  horizon \* the virtual-time budget of this run, or None

vars == <<now, cpu, timer, irr, ppr, live, horizon>>

Init ==
  /\ now = 0 /\ cpu = "running"
  /\ timer = ResetTimer /\ irr = {} /\ ppr = 2
  /\ live = FALSE /\ horizon \in Horizons

\* Real time passes.
Elapse == now' = now + 1 /\ UNCHANGED <<cpu, timer, irr, ppr, live, horizon>>

\* An armed, unmasked timer whose interrupt the halted guest would accept.
TimerCanWake == Armed(timer) /\ ~timer.masked /\ Class["timer"] > ppr

\* Time leaps only while the guest is halted with nothing to deliver and no
\* connection open, and never past the tick or the horizon.
Leap ==
  /\ cpu = "halted" /\ ~live
  /\ Deliverable(irr, ppr) = {}
  /\ now' \in Nat /\ now' > now
  /\ TimerCanWake => now' <= timer.deadline
  /\ horizon # None => now' <= horizon
  /\ UNCHANGED <<cpu, timer, irr, ppr, live, horizon>>

\* A due timer fires: its vector becomes pending unless masked.
Expire(raised) ==
  /\ TimerDue(timer, now)
  /\ timer' = AfterFire(timer, now)
  /\ irr' = irr \cup raised \cup (IF timer.masked THEN {} ELSE {"timer"})

\* The VMM's housekeeping between guest instructions: the due timer, device
\* interrupts, the end of a connection; possibly the horizon.
Service ==
  /\ cpu # "stopped"
  /\ \E raised \in SUBSET {"dev"} :
       \/ Expire(raised)
       \/ ~TimerDue(timer, now) /\ irr' = irr \cup raised /\ UNCHANGED timer
  /\ \/ cpu' = cpu
     \/ cpu' = "stopped" /\ horizon # None /\ horizon <= now
  /\ UNCHANGED <<now, ppr, live, horizon>>

\* Device work between two looks at the timer.
Devices ==
  /\ cpu # "stopped"
  /\ \E raised \in SUBSET {"dev"} : irr' = irr \cup raised
  /\ live' => live
  /\ cpu' \in {cpu, "stopped"}
       \/ (cpu = "halted" /\ cpu' = "running" /\ Deliverable(irr', ppr) # {})
  /\ UNCHANGED <<now, timer, ppr, horizon>>

\* The guest runs: takes an interrupt, programs its timer or its priority,
\* opens a connection, halts or ends the run.
GuestStep ==
  /\ cpu = "running"
  /\ irr' \subseteq irr \cup {"dev"}
  /\ irr \subseteq irr' \/ Deliverable(irr, ppr) # {}
  /\ ppr' \in 0..2
  /\ \/ UNCHANGED timer
     \/ \E span \in Spans : timer' = WriteTimerIct(timer, span, now)
     \/ \E mode \in Modes, masked \in BOOLEAN :
          timer' = WriteLvtTimer(timer, mode, masked)
  /\ live' \in BOOLEAN
  /\ cpu' \in {"running", "halted", "stopped"}
  /\ UNCHANGED <<now, horizon>>

\* A jump the VMM refuses, or fails to program, ends the run.
Abort == cpu' = "stopped" /\ UNCHANGED <<now, timer, irr, ppr, live, horizon>>

Next == Elapse \/ Leap \/ Service \/ Devices \/ GuestStep \/ Abort

Spec == Init /\ [][Next]_vars
=============================================================================
