------------------------------ MODULE Doorbell ------------------------------
(***************************************************************************)
(* The tick doorbell (src/src/doorbell.rs) on top of the vCPU loop of      *)
(* FastForward: a one-shot POSIX timer whose signal breaks a KVM_RUN in    *)
(* which the guest makes no exit of its own, and the immediate_exit byte   *)
(* that catches the signal when it lands outside KVM_RUN.                  *)
(*                                                                         *)
(* FastForward's "boundary" and "guest" are refined by `at`: the loop top  *)
(* clears immediate_exit before service_timers; after the injection step   *)
(* the doorbell is armed and KVM_RUN entered.  The signal can land between *)
(* any two of these steps.  Every step is a step of FastForward or leaves  *)
(* its variables alone.                                                    *)
(***************************************************************************)
EXTENDS FastForward

CONSTANT Slack   \* how early the timer may fire: cycles_to_ns rounds down

ASSUME SlackAssumption == Slack \in Nat

VARIABLES
  expiry,    \* the POSIX timer: the host time it fires at, or None
  signal,    \* its signal is pending on the vCPU thread
  immExit,   \* kvm_run.immediate_exit
  fired,     \* FIRED
  lastArmed, \* Doorbell::last_armed
  at         \* progress within "boundary" and "guest"

bellVars == <<expiry, signal, immExit, fired, lastArmed>>
allVars == <<vars, expiry, signal, immExit, fired, lastArmed, at>>

BellTypeOK ==
  /\ expiry \in Deadlines /\ lastArmed \in Deadlines
  /\ signal \in BOOLEAN /\ immExit \in BOOLEAN /\ fired \in BOOLEAN
  /\ at \in {"top", "ready", "armed", "in"}

\* peek_deadline, as an option.
NextEvent == IF queue = {} THEN None ELSE PeekDeadline(queue)

\* Mutant: only the queue is looked at.
MinDeadlineOfQueue == NextEvent

\* min_deadline of the queue and of the LAPIC's live deadline.
MinDeadline ==
  IF NextEvent = None THEN timer.deadline
  ELSE IF timer.deadline = None \/ NextEvent <= timer.deadline THEN NextEvent
  ELSE timer.deadline

BellInit ==
  /\ Init
  /\ expiry = None /\ signal = FALSE /\ immExit = FALSE
  /\ fired = FALSE /\ lastArmed = None
  /\ at = "top"

\* Doorbell::clear, before service_timers.
Clear ==
  /\ pc = "boundary" /\ at = "top"
  /\ immExit' = FALSE
  /\ at' = "ready"
  /\ UNCHANGED <<vars, expiry, signal, fired, lastArmed>>

Service ==
  /\ at = "ready"
  /\ Boundary
  /\ UNCHANGED <<bellVars, at>>

\* Mutant: a fire does not force a re-arm.
KeepArmedIgnoringFire(d) == d = lastArmed

\* The arming cache: the same deadline, and the timer has not fired.
KeepArmed(d) == d = lastArmed /\ ~fired

\* The relative expiry of a deadline: the cycles left, rounded down, or at
\* once when it is past.
Delay(d, early) == IF d > Vtsc + early THEN d - Vtsc - early ELSE 0

\* Doorbell::arm.  timer_settime may or may not discard a pending signal.
Arm ==
  /\ pc = "guest" /\ at = "ready"
  /\ fired' = FALSE
  /\ LET d == MinDeadline IN
       IF KeepArmed(d) THEN UNCHANGED <<expiry, signal, lastArmed>>
       ELSE /\ lastArmed' = d
            /\ signal' \in {signal, FALSE}
            /\ IF d = None THEN expiry' = None
               ELSE \E early \in 0..Slack : expiry' = host + Delay(d, early)
  /\ at' = "armed"
  /\ UNCHANGED <<vars, immExit>>

\* KVM_RUN returns at once: immediate_exit is set or a signal is pending.
Bails == immExit \/ signal

EnterRun ==
  /\ pc = "guest" /\ at = "armed"
  /\ IF Bails THEN GuestExit /\ at' = "top"
     ELSE at' = "in" /\ UNCHANGED vars
  /\ UNCHANGED bellVars

\* The guest runs and makes an exit of its own.
GuestRuns ==
  /\ at = "in"
  /\ Guest
  /\ at' = "top"
  /\ UNCHANGED bellVars

\* on_doorbell.
Handler ==
  /\ signal' = FALSE
  /\ immExit' = TRUE
  /\ fired' = TRUE
  /\ UNCHANGED <<expiry, lastArmed>>

TimerExpires ==
  /\ expiry # None /\ expiry <= host /\ pc # "stopped"
  /\ expiry' = None
  /\ signal' = TRUE
  /\ UNCHANGED <<vars, immExit, fired, lastArmed, at>>

SignalInUserspace ==
  /\ signal /\ at # "in" /\ pc # "stopped"
  /\ Handler
  /\ UNCHANGED <<vars, at>>

\* EINTR: the handler runs, then the loop continues.
SignalInGuest ==
  /\ signal /\ at = "in"
  /\ Handler
  /\ GuestExit
  /\ at' = "top"

\* Everything else the thread and the world do, the doorbell aside.
Rest ==
  /\ \/ Drain \/ Inject \/ ParkService \/ ParkPump \/ WaitReady \/ WaitSpurious
     \/ Jump \/ HostTick \/ SocketReady \/ ConsoleInput \/ Stopped
  /\ at' = IF pc' = "boundary" /\ pc # "boundary" THEN "top" ELSE at
  /\ UNCHANGED bellVars

Thread == \/ Clear \/ Service \/ Arm \/ EnterRun
          \/ Rest /\ (Drain \/ Inject \/ ParkService \/ ParkPump \/ WaitReady \/ Jump)

Signals == TimerExpires \/ SignalInUserspace \/ SignalInGuest

BellNext == Clear \/ Service \/ Arm \/ EnterRun \/ GuestRuns \/ Signals \/ Rest

BellSpec == BellInit /\ [][BellNext]_allVars

\* The thread runs, the host clock advances, an expired timer signals and a
\* pending signal is delivered.  Unlike FastForward's, this fairness does not
\* ask the guest to exit.
BellFairSpec ==
  /\ BellSpec
  /\ WF_allVars(Thread) /\ WF_allVars(Rest /\ HostTick)
  /\ WF_allVars(TimerExpires)
  /\ WF_allVars(SignalInUserspace \/ SignalInGuest)
-----------------------------------------------------------------------------
(* Properties. *)

\* The timer will fire by the time virtual time reaches d.
Covers(d) ==
  \/ signal
  \/ expiry # None /\ (expiry + offset <= d \/ expiry <= host)

\* No lost wakeup: whenever the guest is in KVM_RUN, the host timer is set to
\* go off by the LAPIC's deadline and by the horizon, or has already gone off;
\* also when it was armed before a jump, when it fired early, and when the
\* signal landed between arming and entry.
GuestIsPreemptible ==
  at = "in" => /\ Armed(timer) => Covers(timer.deadline)
               /\ horizon # None => Covers(horizon)

\* The inductive invariant behind it.
LiveAfter(d) ==
  /\ \A e \in queue : e.at > d
  /\ Armed(timer) => timer.deadline > d

\* The arming cache: either the next arm will not trust it, or the timer set
\* then still covers its deadline, or a jump went past that deadline and, once
\* service_timers has run, nothing live carries it any more.
CacheSound ==
  lastArmed # None =>
    \/ fired
    \/ Covers(lastArmed)
    \/ /\ lastArmed <= Vtsc
       /\ pc \in {"drain", "inject", "guest"} => LiveAfter(lastArmed)

\* Armed and about to enter, or in the guest.
ArmedSound ==
  at \in {"armed", "in"} =>
    /\ pc = "guest"
    /\ lastArmed = MinDeadline
    /\ lastArmed # None => Covers(lastArmed) \/ (at = "armed" /\ immExit)

\* While parked nothing live precedes the armed deadline, so a jump reaches it.
ParkReachesArmed ==
  pc \in Parked /\ lastArmed # None =>
    /\ \A e \in queue : e.at >= lastArmed
    /\ Armed(timer) => timer.deadline >= lastArmed
    /\ horizon # None => horizon >= lastArmed

HorizonQueued ==
  pc \in {"drain", "inject", "guest"} =>
    /\ horizon # None => [at |-> horizon, kind |-> "StopRun"] \in queue
    /\ at # "top"

BellInv == /\ BellTypeOK /\ CacheSound /\ ArmedSound
           /\ ParkReachesArmed /\ HorizonQueued

\* A guest that makes no exit at all is still broken out of KVM_RUN once a
\* deadline the host clock reaches has passed (the container-start wedge).
ExitFreeGuestIsBroken ==
  (at = "in" /\ Armed(timer) /\ timer.deadline <= MaxHost + offset) ~> at # "in"
=============================================================================
