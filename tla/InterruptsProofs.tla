-------------------------- MODULE InterruptsProofs --------------------------
(***************************************************************************)
(* Proofs about Interrupts: the inductive invariant Inv, and from it the   *)
(* safety invariants and NoOverwrite, for every set of vectors, priorities *)
(* and pins.                                                               *)
(***************************************************************************)
EXTENDS Interrupts, TLAPS

\* A higher vector is of a class at least as high.
LEMMA ClassMonotone ==
  ASSUME NEW v \in Vectors, NEW w \in Vectors, v <= w
  PROVE  Class(v) <= Class(w) /\ Class(v) \in Int /\ Class(w) \in Int
  BY VectorsAssumption DEF Class

\* Raising the priority, or withdrawing a pending vector lower than the one
\* put in service, makes nothing deliverable.
LEMMA NothingAboveInjected ==
  ASSUME TypeOK, NEW c \in Classes, NEW v \in DeliverableVector(irr, isr, c)
  PROVE  DeliverableVector(irr \ {v}, isr \cup {v}, c) = {}
<1> SUFFICES ASSUME NEW w \in DeliverableVector(irr \ {v}, isr \cup {v}, c) PROVE FALSE
  OBVIOUS
<1>1. v \in irr /\ w \in irr /\ v \in Vectors /\ w \in Vectors /\ w <= v
  BY DEF DeliverableVector, Highest, TypeOK
<1>2. Class(w) > Class(v)
  BY DEF DeliverableVector
<1> QED
  BY <1>1, <1>2, ClassMonotone

LEMMA DeliverableAntitone ==
  ASSUME TypeOK, NEW c \in Classes, NEW d \in Classes, c <= d
  PROVE  DeliverableVector(irr, isr, d) \subseteq DeliverableVector(irr, isr, c)
<1> SUFFICES ASSUME NEW v \in DeliverableVector(irr, isr, d)
             PROVE  v \in DeliverableVector(irr, isr, c)
  OBVIOUS
<1>1. v \in Vectors /\ Class(v) \in Int /\ c \in Int /\ d \in Int
  BY ClassMonotone, ClassesAssumption, VectorsAssumption
     DEF DeliverableVector, Highest, TypeOK, Class
<1> QED
  BY <1>1 DEF DeliverableVector
-----------------------------------------------------------------------------
LEMMA InitInv == Init => Inv
  BY ClassesAssumption, NoVectorAssumption
     DEF Init, Inv, TypeOK, RunFieldsFresh, InServiceIsGuestNest, Queued,
         QueuedOutranks, WindowCoversPending, DeliverableVector, Highest, Pcs

LEMMA TypePreserved ==
  ASSUME TypeOK, [Next]_vars
  PROVE  TypeOK'
<1> USE DEF TypeOK, Pcs
<1>1. CASE Service \/ Park
  <2>1. Edges \subseteq Vectors
    BY DEF Edges
  <2> QED
    BY <1>1, <2>1 DEF Service, Park, runVars, guestVars
<1>2. CASE Inject
  BY <1>2 DEF Inject, DeliverableVector, Highest, Window, CanInject, guestVars
<1>3. CASE Enter \/ EnterBails \/ WindowOpen
  BY <1>3 DEF Enter, EnterBails, WindowOpen, Exit, lapicVars, runVars, guestVars
<1>4. CASE GuestInterruptFlag \/ GuestCr8 \/ GuestTpr
  BY <1>4, ZenonT(60) DEF GuestInterruptFlag, GuestCr8, GuestTpr, Exit, lapicVars, runVars
<1>5. CASE GuestEoi \/ GuestSvr \/ GuestIpi
  BY <1>5 DEF GuestEoi, GuestSvr, GuestIpi, Eoi, Exit, guestVars
<1>6. CASE GuestRte \/ GuestUart \/ GuestHlt
  <2>1. Edges \subseteq Vectors
    BY DEF Edges
  <2> QED
    BY <1>6, <2>1 DEF GuestRte, GuestUart, GuestHlt, Exit, lapicVars, guestVars
<1>7. CASE Stopped \/ UNCHANGED vars
  BY <1>7 DEF Stopped, vars
<1> QED
  BY <1>1, <1>2, <1>3, <1>4, <1>5, <1>6, <1>7 DEF Next, Vmm, Guest

\* The injection step: it hands KVM a vector only when KVM holds none, and
\* leaves a window request behind for whatever it could not hand over.
LEMMA InjectPreserves ==
  ASSUME Inv, TypeOK', Inject
  PROVE  Inv'
<1> DEFINE vs == DeliverableVector(irr, isr, runCr8)
<1>1. pc' = "enter" /\ runCr8' = runCr8 /\ window' = (vs # {} /\ ~CanInject)
      /\ UNCHANGED <<enabled, guestVars>>
  BY DEF Inject, Window
<1>2. runCr8 \in Classes
  BY DEF Inv, TypeOK
<1>3. CASE \E v \in vs : /\ CanInject
                         /\ queued' = v /\ irr' = irr \ {v} /\ isr' = isr \cup {v}
  <2>1. PICK v \in vs : /\ CanInject
                        /\ queued' = v /\ irr' = irr \ {v} /\ isr' = isr \cup {v}
    BY <1>3
  <2>2. queued = None /\ iflag /\ v # None
    BY <2>1, NoVectorAssumption
       DEF CanInject, Inv, TypeOK, RunFieldsFresh, Inject, DeliverableVector, Highest
  <2>3. InServiceIsGuestNest'
    BY <1>1, <2>1, <2>2 DEF Inv, InServiceIsGuestNest, Queued, guestVars
  <2>4. QueuedOutranks'
    BY <1>1, <2>1, <2>2
       DEF Inv, InServiceIsGuestNest, QueuedOutranks, Queued, guestVars, DeliverableVector
  <2>5. RunFieldsFresh' /\ WindowCoversPending'
    <3>1. DeliverableVector(irr', isr', runCr8) = {}
      BY <1>2, <2>1, NothingAboveInjected DEF Inv
    <3>2. DeliverableVector(irr, isr, runCr8)' = {}
      BY <1>1, <3>1 DEF DeliverableVector
    <3> QED
      BY <1>1, <3>2 DEF RunFieldsFresh, WindowCoversPending
  <2> QED
    BY <2>3, <2>4, <2>5 DEF Inv
<1>4. CASE (vs = {} \/ ~CanInject) /\ UNCHANGED <<queued, irr, isr>>
  <2>1. InServiceIsGuestNest'
    BY <1>1, <1>4 DEF Inv, InServiceIsGuestNest, Queued, guestVars
  <2>2. QueuedOutranks'
    BY <1>1, <1>4 DEF Inv, QueuedOutranks, Queued, guestVars
  <2>3. RunFieldsFresh' /\ WindowCoversPending'
    <3>1. DeliverableVector(irr, isr, runCr8)' = vs
      BY <1>1, <1>4 DEF DeliverableVector
    <3> QED
      BY <1>1, <1>4, <3>1 DEF RunFieldsFresh, WindowCoversPending
  <2> QED
    BY <2>1, <2>2, <2>3 DEF Inv
<1> QED
  BY <1>3, <1>4 DEF Inject

\* Everything else the vCPU thread does.
LEMMA VmmPreserves ==
  ASSUME Inv, TypeOK', Service \/ Park \/ Enter \/ EnterBails \/ WindowOpen
  PROVE  Inv'
<1>1. CASE Service \/ Park
  <2>1. UNCHANGED <<isr, queued, runCr8, ready, ifFlag, cr8, iflag, active>>
        /\ pc' \in {"boundary", "inject", "park"}
        /\ (queued # None => pc = "boundary" /\ pc' = "inject")
    BY <1>1 DEF Service, Park, runVars, guestVars, Inv, QueuedOutranks, Queued
  <2> QED
    BY <1>1, <2>1 DEF Service, Park, Inv, RunFieldsFresh, InServiceIsGuestNest, Queued,
                      QueuedOutranks, WindowCoversPending
<1>2. CASE Enter
  <2>1. InServiceIsGuestNest' /\ QueuedOutranks'
    BY <1>2 DEF Enter, Inv, InServiceIsGuestNest, QueuedOutranks, Queued, lapicVars
  <2>2. DeliverableVector(irr, isr, cr8)' = DeliverableVector(irr, isr, runCr8)
    BY <1>2 DEF Enter, DeliverableVector, lapicVars
  <2>3. RunFieldsFresh' /\ WindowCoversPending'
    BY <1>2, <2>2 DEF Enter, Inv, RunFieldsFresh, WindowCoversPending, runVars
  <2> QED
    BY <2>1, <2>3 DEF Inv
<1>3. CASE EnterBails \/ WindowOpen
  <2>1. UNCHANGED <<isr, queued, iflag, active>> /\ runCr8' = cr8' /\ pc' = "boundary"
        /\ ifFlag' = iflag' /\ (ready' => queued' = None)
    BY <1>3 DEF EnterBails, WindowOpen, Exit, lapicVars, guestVars
  <2>2. RunFieldsFresh' /\ WindowCoversPending' /\ InServiceIsGuestNest'
    BY <2>1 DEF Inv, RunFieldsFresh, WindowCoversPending, InServiceIsGuestNest, Queued
  <2>3. queued # None => runCr8' = runCr8
    BY <1>3 DEF EnterBails, WindowOpen, Exit, Inv, QueuedOutranks, Queued
  <2>4. QueuedOutranks'
    BY <2>1, <2>3 DEF Inv, QueuedOutranks, Queued
  <2> QED
    BY <2>2, <2>4 DEF Inv
<1> QED
  BY <1>1, <1>2, <1>3

\* The guest: while it runs KVM holds nothing, so the in-service set is its
\* own nest.
LEMMA GuestPreserves ==
  ASSUME Inv, TypeOK', Guest
  PROVE  Inv'
<1>1. pc = "guest" /\ queued = None /\ queued' = None /\ isr = active
  BY DEF Guest, GuestInterruptFlag, GuestCr8, GuestTpr, GuestEoi, GuestSvr, GuestIpi,
         GuestRte, GuestUart, GuestHlt, Runs, guestVars, Inv, QueuedOutranks,
         InServiceIsGuestNest, Queued
<1>2. isr' = active'
  BY <1>1 DEF Guest, GuestInterruptFlag, GuestCr8, GuestTpr, GuestEoi, GuestSvr, GuestIpi,
              GuestRte, GuestUart, GuestHlt, Eoi, guestVars, lapicVars
<1>3. InServiceIsGuestNest' /\ QueuedOutranks'
  BY <1>1, <1>2 DEF InServiceIsGuestNest, QueuedOutranks, Queued
<1>4. CASE GuestInterruptFlag
  <2>1. DeliverableVector(irr, isr, cr8)' = DeliverableVector(irr, isr, cr8)
    BY <1>4 DEF GuestInterruptFlag, DeliverableVector, lapicVars
  <2> QED
    BY <1>1, <1>3, <1>4, <2>1
       DEF GuestInterruptFlag, Inv, RunFieldsFresh, WindowCoversPending, runVars
<1>5. CASE GuestCr8
  <2>1. PICK c \in Classes :
          /\ c # cr8 /\ cr8' = c /\ UNCHANGED <<lapicVars, queued, iflag, active, halted>>
          /\ IF c > cr8 THEN UNCHANGED <<runVars, pc>> ELSE Exit("boundary")
    BY <1>5 DEF GuestCr8
  <2>2. CASE c > cr8
    <3>1. DeliverableVector(irr, isr, cr8)' \subseteq DeliverableVector(irr, isr, cr8)
      <4>1. DeliverableVector(irr, isr, cr8)' = DeliverableVector(irr, isr, c)
        BY <2>1 DEF DeliverableVector, lapicVars
      <4>2. cr8 \in Classes /\ cr8 <= c
        BY <2>2, ClassesAssumption DEF Inv, TypeOK
      <4> QED
        BY <4>1, <4>2, DeliverableAntitone DEF Inv
    <3> QED
      BY <1>1, <1>3, <2>1, <2>2, <3>1
         DEF Inv, RunFieldsFresh, WindowCoversPending, runVars
  <2>3. CASE ~(c > cr8)
    BY <1>1, <1>3, <2>1, <2>3 DEF Exit, Inv, RunFieldsFresh, WindowCoversPending
  <2> QED
    BY <2>2, <2>3
<1>6. CASE GuestTpr \/ GuestEoi \/ GuestSvr \/ GuestIpi \/ GuestRte \/ GuestUart \/ GuestHlt
  BY <1>1, <1>3, <1>6
     DEF GuestTpr, GuestEoi, GuestSvr, GuestIpi, GuestRte, GuestUart, GuestHlt, Exit,
         guestVars, Inv, RunFieldsFresh, WindowCoversPending
<1> QED
  BY <1>4, <1>5, <1>6 DEF Guest

LEMMA NextInv == Inv /\ [Next]_vars => Inv'
<1> SUFFICES ASSUME Inv, [Next]_vars PROVE Inv'
  OBVIOUS
<1>1. TypeOK'
  BY TypePreserved DEF Inv
<1>2. CASE Stopped \/ UNCHANGED vars
  BY <1>2 DEF Stopped, vars, Inv, TypeOK, RunFieldsFresh, InServiceIsGuestNest, Queued,
              QueuedOutranks, WindowCoversPending, DeliverableVector
<1> QED
  BY <1>1, <1>2, InjectPreserves, VmmPreserves, GuestPreserves DEF Next, Vmm
-----------------------------------------------------------------------------
\* The invariant holds in every state of every behaviour.
THEOREM Invariance == Spec => []Inv
  BY InitInv, NextInv, PTL DEF Spec

\* Interrupts is type correct.
THEOREM TypeCorrect == Spec => []TypeOK
  BY Invariance, PTL DEF Inv

\* An EOI always retires the handler that issued it: the APIC's in-service set
\* is the guest's nest of handlers plus what KVM still holds.
THEOREM InServiceSound == Spec => []InServiceIsGuestNest
  BY Invariance, PTL DEF Inv

\* A vector KVM holds outranks the guest's priority and its unfinished
\* handlers until the guest takes it.
THEOREM PrioritySound == Spec => []QueuedOutranks
  BY Invariance, PTL DEF Inv

\* A running guest that could take a pending interrupt is under a window.
THEOREM WindowSound == Spec => []WindowCoversPending
  BY Invariance, PTL DEF Inv

\* KVM_INTERRUPT never overwrites a vector the guest has not taken.
THEOREM OverwriteFree == Spec => NoOverwrite
<1>1. Inv /\ [Next]_vars => (queued # None => queued' \in {queued, None})
  <2> SUFFICES ASSUME Inv, [Next]_vars, queued # None PROVE queued' \in {queued, None}
    OBVIOUS
  <2>1. CASE Inject
    BY <2>1 DEF Inject, CanInject, Inv, RunFieldsFresh
  <2>2. CASE Service \/ Enter \/ EnterBails \/ WindowOpen \/ Park \/ Stopped \/ UNCHANGED vars
    BY <2>2 DEF Service, Enter, EnterBails, WindowOpen, Park, Stopped, vars
  <2>3. CASE Guest
    BY <2>3 DEF Guest, GuestInterruptFlag, GuestCr8, GuestTpr, GuestEoi, GuestSvr, GuestIpi,
                GuestRte, GuestUart, GuestHlt
  <2> QED
    BY <2>1, <2>2, <2>3 DEF Next, Vmm
<1> QED
  BY Invariance, <1>1, PTL DEF Spec, NoOverwrite
=============================================================================
