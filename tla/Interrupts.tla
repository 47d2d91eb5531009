----------------------------- MODULE Interrupts -----------------------------
(***************************************************************************)
(* Interrupt delivery through the userspace local APIC: priorities and the *)
(* IRR/ISR of lapic.rs, the IOAPIC redirection table (ioapic.rs), the      *)
(* injection step of run_user_backend and the HLT park (main.rs), and the  *)
(* part of KVM they rely on, which is external: kvm_run's cr8, if_flag,    *)
(* ready_for_interrupt_injection and request_interrupt_window fields, and  *)
(* KVM_INTERRUPT's one-deep queue.                                         *)
(*                                                                         *)
(* A vector is its number; its class is the number's high nibble.  `tpr`,  *)
(* `cr8` and `runCr8` hold classes: the low nibble of TPR is never         *)
(* compared.  Time is left to FastForward: here a timer may fire whenever  *)
(* the VMM looks at it.                                                    *)
(***************************************************************************)
EXTENDS Integers

CONSTANTS
  Vectors,  \* vectors the guest uses
  Classes,  \* task priorities the guest sets
  Pins,     \* IOAPIC pins with a device behind them
  None

ASSUME VectorsAssumption == Vectors \subseteq 16..255
ASSUME ClassesAssumption == Classes \subseteq 0..15 /\ 0 \in Classes
ASSUME NoVectorAssumption == None \notin Vectors

VARIABLES
  irr, isr,   \* Lapic: pending and in-service vectors
  tpr,        \* Lapic: task priority
  enabled,    \* Lapic: SVR soft-enable
  rte,        \* Ioapic: what edge_vector answers for each pin
  runCr8,     \* kvm_run.cr8
  ready,      \* kvm_run.ready_for_interrupt_injection
  ifFlag,     \* kvm_run.if_flag
  window,     \* kvm_run.request_interrupt_window
  queued,     \* KVM: the vector of KVM_INTERRUPT, until the guest takes it
  cr8,        \* guest CR8
  iflag,      \* guest RFLAGS.IF
  active,     \* guest: handlers entered that have not issued their EOI
  halted,     \* guest: in HLT
  asked,      \* history: the priority the guest last set, by CR8 or by TPR
  pc          \* where the vCPU thread is

lapicVars == <<irr, isr, tpr, enabled, rte>>
runVars == <<runCr8, ready, ifFlag, window>>
guestVars == <<cr8, iflag, active, halted, asked>>
vars == <<irr, isr, tpr, enabled, rte, runCr8, ready, ifFlag, window, queued,
          cr8, iflag, active, halted, asked, pc>>

Pcs == {"boundary", "inject", "enter", "guest", "park", "stopped"}

TypeOK ==
  /\ irr \subseteq Vectors /\ isr \subseteq Vectors /\ active \subseteq Vectors
  /\ tpr \in Classes /\ runCr8 \in Classes /\ cr8 \in Classes /\ asked \in Classes
  /\ rte \in [Pins -> Vectors \cup {None}]
  /\ queued \in Vectors \cup {None}
  /\ enabled \in BOOLEAN /\ ready \in BOOLEAN /\ ifFlag \in BOOLEAN
  /\ window \in BOOLEAN /\ iflag \in BOOLEAN /\ halted \in BOOLEAN
  /\ pc \in Pcs
-----------------------------------------------------------------------------
(* The local APIC. *)

Class(v) == v \div 16

\* VecBits::highest, as a set of at most one vector.
Highest(vs) == {v \in vs : \A w \in vs : w <= v}

\* Mutant: a vector of the class in force is let through.
DeliverableAtClass(pending, service, prio) ==
  {v \in Highest(pending) :
     enabled /\ Class(v) >= prio /\ \A s \in service : Class(v) >= Class(s)}

\* deliverable_vector: the highest pending vector, if the APIC is enabled and
\* its class exceeds PPR, that is, the task priority and the class of every
\* vector in service.
DeliverableVector(pending, service, prio) ==
  {v \in Highest(pending) :
     enabled /\ Class(v) > prio /\ \A s \in service : Class(v) > Class(s)}

\* Mutant: the lowest in-service vector is retired.
EoiLowest(service) == service \ {v \in service : \A w \in service : v <= w}

\* eoi: clear the highest in-service vector.
Eoi(service) == service \ Highest(service)

\* What raise_irq can post: edges on pins that are neither masked nor
\* level-triggered (edge_vector).
Edges == {rte[p] : p \in Pins} \ {None}

-----------------------------------------------------------------------------
Init ==
  /\ irr = {} /\ isr = {} /\ tpr = 0 /\ enabled = FALSE
  /\ rte = [p \in Pins |-> None]
  /\ runCr8 = 0 /\ ready = FALSE /\ ifFlag = FALSE /\ window = FALSE
  /\ queued = None
  /\ cr8 = 0 /\ iflag = FALSE /\ active = {} /\ halted = FALSE /\ asked = 0
  /\ pc = "boundary"

\* service_timers and the pumps of the loop's top may raise the timer's
\* vector (any: the guest picks it) and the serial edges.
Service ==
  /\ pc = "boundary"
  /\ \E v \in Vectors, raised \in SUBSET Edges :
       irr' \in {irr \cup raised, irr \cup raised \cup {v}}
  /\ pc' = "inject"
  /\ UNCHANGED <<isr, tpr, enabled, rte, runVars, queued, guestVars>>

\* Mutant: the ready flag is not consulted.
CanInjectByIf == ifFlag

\* The guest can take an interrupt now, by the flags of its last exit.
CanInject == ready /\ ifFlag

\* Mutant: no interrupt window is ever asked for.
WindowNever(vs) == FALSE

\* request_interrupt_window: something is deliverable and was not injected.
Window(vs) == vs # {} /\ ~CanInject

\* (2) sync TPR from kvm_run.cr8, (3) inject or ask for a window, and push
\* TPR back.
Inject ==
  /\ pc = "inject"
  /\ tpr' = runCr8
  /\ LET vs == DeliverableVector(irr, isr, runCr8) IN
       /\ \/ /\ CanInject
             /\ \E v \in vs :
                  /\ queued' = v
                  /\ irr' = irr \ {v}
                  /\ isr' = isr \cup {v}
          \/ /\ vs = {} \/ ~CanInject
             /\ UNCHANGED <<queued, irr, isr>>
       /\ window' = Window(vs)
  /\ runCr8' = tpr'
  /\ pc' = "enter"
  /\ UNCHANGED <<enabled, rte, ready, ifFlag, guestVars>>

\* KVM fills kvm_run on the way out (external); the argument is where the
\* loop goes.
Exit(label) ==
  /\ runCr8' = cr8'
  /\ ifFlag' = iflag'
  /\ ready' = (iflag' /\ queued' = None)
  /\ pc' = label
  /\ UNCHANGED window

\* KVM_RUN with immediate_exit set, or a signal before guest entry.
EnterBails ==
  /\ pc = "enter"
  /\ cr8' = runCr8
  /\ UNCHANGED <<lapicVars, queued, iflag, active, halted, asked>>
  /\ Exit("boundary")

\* Guest entry: CR8 is loaded and a queued vector is taken through an
\* interrupt gate.  Either way the guest is past its HLT.
Enter ==
  /\ pc = "enter"
  /\ cr8' = runCr8
  /\ IF queued # None
     THEN active' = active \cup {queued} /\ iflag' = FALSE
     ELSE UNCHANGED <<active, iflag>>
  /\ queued' = None
  /\ halted' = FALSE
  /\ pc' = "guest"
  /\ UNCHANGED <<lapicVars, runVars, asked>>
-----------------------------------------------------------------------------
(* The guest.  With a window requested, KVM exits as soon as IF is set. *)

Runs == pc = "guest" /\ ~(window /\ iflag)

GuestInterruptFlag ==       \* STI, CLI, IRET: no exit
  /\ Runs
  /\ iflag' = ~iflag
  /\ UNCHANGED <<lapicVars, runVars, queued, cr8, active, halted, asked, pc>>

\* MOV to CR8: raising it does not exit, lowering it does (KVM_EXIT_SET_TPR,
\* which the loop logs and ignores).
GuestCr8 ==
  /\ Runs
  /\ \E c \in Classes :
       /\ c # cr8
       /\ cr8' = c /\ asked' = c
       /\ UNCHANGED <<lapicVars, queued, iflag, active, halted>>
       /\ IF c > cr8 THEN UNCHANGED <<runVars, pc>> ELSE Exit("boundary")

\* Lapic::mmio_write of TPR.
GuestTpr ==
  /\ Runs
  /\ \E c \in Classes : tpr' = c /\ asked' = c
  /\ UNCHANGED <<irr, isr, enabled, rte, queued, cr8, iflag, active, halted>>
  /\ Exit("boundary")

\* Lapic::mmio_write of EOI, by the innermost handler.
GuestEoi ==
  /\ Runs
  /\ isr' = Eoi(isr)
  /\ active' = active \ Highest(active)
  /\ UNCHANGED <<irr, tpr, enabled, rte, queued, cr8, iflag, halted, asked>>
  /\ Exit("boundary")

\* Lapic::mmio_write of SVR.
GuestSvr ==
  /\ Runs
  /\ enabled' \in BOOLEAN
  /\ UNCHANGED <<irr, isr, tpr, rte, queued, guestVars>>
  /\ Exit("boundary")

\* write_icr: a fixed self-IPI; other modes and shorthand 3 are dropped.
GuestIpi ==
  /\ Runs
  /\ \E v \in Vectors : irr' = irr \cup {v}
  /\ UNCHANGED <<isr, tpr, enabled, rte, queued, guestVars>>
  /\ Exit("boundary")

\* Ioapic::mmio_write of a redirection entry: masked or level-triggered
\* entries answer None.
GuestRte ==
  /\ Runs
  /\ \E p \in Pins, v \in Vectors \cup {None} : rte' = [rte EXCEPT ![p] = v]
  /\ UNCHANGED <<irr, isr, tpr, enabled, queued, guestVars>>
  /\ Exit("boundary")

\* UART access, which may raise an edge; with no edge, any other exit
\* (EINTR, a device that raises nothing).
GuestUart ==
  /\ Runs
  /\ \E raised \in SUBSET Edges : irr' = irr \cup raised
  /\ UNCHANGED <<isr, tpr, enabled, rte, queued, guestVars>>
  /\ Exit("boundary")

\* IrqWindowOpen.
WindowOpen ==
  /\ pc = "guest" /\ window /\ iflag
  /\ UNCHANGED <<lapicVars, queued, guestVars>>
  /\ Exit("boundary")

\* HLT: `sti; hlt` halts before the window KVM was asked for opens.  With
\* interrupts off it ends the run.
GuestHlt ==
  /\ Runs
  /\ UNCHANGED <<lapicVars, queued, cr8, active, asked>>
  /\ \/ iflag' = TRUE /\ halted' = TRUE /\ Exit("park")
     \/ ~iflag /\ UNCHANGED <<iflag, halted>> /\ Exit("stopped")

\* One iteration of the park: timers, console and egress may raise vectors;
\* it returns when one is deliverable by the TPR of the last sync.
Park ==
  /\ pc = "park"
  /\ \E v \in Vectors, raised \in SUBSET Edges :
       irr' \in {irr \cup raised, irr \cup raised \cup {v}}
  /\ pc' = IF DeliverableVector(irr', isr, tpr) # {} THEN "boundary" ELSE "park"
  /\ UNCHANGED <<isr, tpr, enabled, rte, runVars, queued, guestVars>>

Stopped == pc = "stopped" /\ UNCHANGED vars

Vmm == Service \/ Inject \/ Enter \/ EnterBails \/ WindowOpen \/ Park

Guest == GuestInterruptFlag \/ GuestCr8 \/ GuestTpr \/ GuestEoi \/ GuestSvr
           \/ GuestIpi \/ GuestRte \/ GuestUart \/ GuestHlt

Next == Vmm \/ Guest \/ Stopped

Spec == Init /\ [][Next]_vars

\* The vCPU thread runs and KVM opens the window it was asked for.  Nothing
\* is assumed of the guest.
FairSpec == Spec /\ WF_vars(Vmm)
-----------------------------------------------------------------------------
(* Properties. *)

Queued == {queued} \ {None}

\* The APIC's in-service set is the guest's own nest of unfinished handlers
\* plus the vector KVM still holds, so an EOI always retires the handler that
\* issued it (ack_injected, eoi, across bailed KVM_RUNs).
InServiceIsGuestNest == isr = active \cup Queued

\* The vector KVM holds was accepted by a guest that has not run since: it
\* outranks CR8 and every unfinished handler.  With InServiceIsGuestNest this
\* is what makes nesting follow priority.
QueuedOutranks ==
  \A v \in Queued :
    /\ pc \in {"boundary", "inject", "enter"} /\ iflag
    /\ Class(v) > runCr8
    /\ \A h \in active : Class(v) > Class(h)

\* KVM_INTERRUPT never overwrites a vector the guest has not taken yet, a
\* KVM_RUN that bails before entry included.
NoOverwrite == [][queued # None => queued' \in {queued, None}]_vars

\* The guest is never left running while it could take a pending interrupt
\* without KVM having been told to exit for it.
WindowCoversPending ==
  pc = "guest" /\ DeliverableVector(irr, isr, cr8) # {} => window

\* What kvm_run says of the guest at the loop's top and in the park, and what
\* the window covers once the injection step has run.
RunFieldsFresh ==
  /\ pc \in {"boundary", "inject", "park"} =>
       /\ runCr8 = cr8 /\ ifFlag = iflag
       /\ ready => queued = None
  /\ pc = "enter" /\ DeliverableVector(irr, isr, runCr8) # {} => window

\* The inductive invariant behind the safety properties.
Inv == /\ TypeOK /\ RunFieldsFresh
       /\ InServiceIsGuestNest /\ QueuedOutranks /\ WindowCoversPending

\* A pending vector the guest would accept, halted or running with IF set, is
\* handed to KVM, whatever the guest does.
PendingIsInjected ==
  (pc \in {"guest", "park"} /\ iflag /\ DeliverableVector(irr, isr, cr8) # {})
    ~> queued # None

\* lapic.rs (sync_tpr_from_cr8): "MMIO TPR writes go the other way (we push
\* tpr>>4 back into run->cr8 before each entry": once the loop has entered the
\* guest again, the priority it set by either path is the one in force.
TprWriteTakesEffect == pc = "enter" => runCr8 = asked
=============================================================================
