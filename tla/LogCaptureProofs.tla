-------------------------- MODULE LogCaptureProofs --------------------------
(***************************************************************************)
(* Proofs about LogCapture, for any services, logs, chunk and buffer       *)
(* sizes.                                                                  *)
(***************************************************************************)
EXTENDS LogCapture, FiniteSetTheorems, SequenceTheorems, WellFoundedInduction, TLAPS

-----------------------------------------------------------------------------
(* The exit code. *)

\* Where the thread is before the run has stopped, or without its having.
Early == {"start", "load", "boot", "running", "fatal"}

\* Before the stop nothing is decided; what the stop decided is what the verdict
\* and the stop reason still say; a process that has exited takes no step.
ExitInv ==
  /\ pc \in Early => stop = None
  /\ stop # None => decided = ExitCode(stop, verdict)
  /\ exit # None => pc = "exited"
  /\ exit # None /\ stop # None => exit = decided \/ watchdog = "fired"

LEMMA ExitInit == Init => ExitInv
  BY DEF Init, ExitInv

\* A step of the capture: neither the stop nor the verdict is touched.
LEMMA ExitQuiet ==
  ASSUME ExitInv, exit = None, UNCHANGED hostVars,
         pc' \in Early => pc \in Early
  PROVE  ExitInv'
  BY DEF ExitInv, hostVars

LEMMA ExitConsole ==
  ASSUME ExitInv, Prints \/ Drains \/ EmitsLine \/ FinishDrains \/ FlushesTail
  PROVE  ExitInv'
<1>1. exit = None /\ UNCHANGED hostVars
  BY DEF Prints, Drains, EmitsLine, FinishDrains, FlushesTail, Alive, otherThanConsole
<1>2. pc' \in Early => pc \in Early
  BY DEF Prints, Drains, EmitsLine, FinishDrains, FlushesTail, Early
<1> QED
  BY <1>1, <1>2, ExitQuiet

LEMMA ExitCapture ==
  ASSUME ExitInv,
         \/ Ask \/ CloseService \/ GaveUp \/ Aborted \/ Boundary \/ PollLine \/ Enter
         \/ ParkHorizon \/ ParkReturns \/ \E w : BudgetRunsOut(w)
  PROVE  ExitInv'
<1>1. exit = None /\ UNCHANGED hostVars
  BY DEF Ask, CloseService, GaveUp, Aborted, Boundary, PollLine, Enter, ParkHorizon,
     ParkReturns, BudgetRunsOut, Alive, FoldOther, hostVars
<1>2. pc' \in Early => pc \in Early
  BY DEF Ask, CloseService, GaveUp, Aborted, Boundary, PollLine, Enter, ParkHorizon,
     ParkReturns, BudgetRunsOut, Advance, OnPing, OnPage, Early
<1> QED
  BY <1>1, <1>2, ExitQuiet

LEMMA ExitGuest ==
  ASSUME ExitInv, GuestRuns
  PROVE  ExitInv'
<1>1. exit = None /\ UNCHANGED hostVars
  BY DEF GuestRuns, Halt, GuestDies, OtherExit, AgentEvent, AgentReads, AgentWrites,
     AgentHandles, ContainerLogs, GuestStep, Alive
<1>2. pc = "guest" /\ pc' \in {"guest", "parked", "dead", "boundary"}
  BY DEF GuestRuns, Halt, GuestDies, OtherExit, AgentEvent, AgentReads, AgentWrites,
     AgentHandles, ContainerLogs, GuestStep
<1> QED
  BY <1>1, <1>2, ExitQuiet DEF Early

LEMMA ExitNext == ExitInv /\ [Next]_vars => ExitInv'
<1> SUFFICES ASSUME ExitInv, [Next]_vars
             PROVE  ExitInv'
  OBVIOUS
<1>1. CASE Prepare \/ ArmsWatchdog \/ Boots \/ RunFails \/ Fatal
  BY <1>1 DEF ExitInv, Early, Prepare, ArmsWatchdog, Boots, RunFails, Fatal, PrepareLogsDir,
     notYetRunning
<1>2. CASE RunStops
  <2>1. exit = None /\ UNCHANGED exit
    BY <1>2 DEF RunStops, ExitInv
  <2>2. pc' \in {"ask", "finish"} /\ decided' = ExitCode(stop', verdict')
    BY <1>2 DEF RunStops
  <2> QED
    BY <2>1, <2>2 DEF ExitInv, Early, ExitCode
<1>3. CASE Finish
  <2>1. /\ pc' = "exited" /\ exit' = ExitCode(stop, verdict)
        /\ UNCHANGED <<stop, verdict, decided>>
    BY <1>3 DEF Finish
  <2> QED
    BY <2>1 DEF ExitInv, Early, ExitCode
<1>4. CASE WallTimeout
  BY <1>4 DEF WallTimeout, ExitInv, Early, ExitCode
<1>5. CASE UNCHANGED vars
  BY <1>5 DEF vars, hostVars, ExitInv, ExitCode
<1> QED
  BY <1>1, <1>2, <1>3, <1>4, <1>5, ExitConsole, ExitCapture, ExitGuest
     DEF Next, HostStep

\* The process exits with what was decided when the run stopped, or for the
\* watchdog, whatever the guest sends during the capture (boot_and_run,
\* drive_until_reply, spawn_wall_timeout).
THEOREM ExitDecided == Spec => []ExitIsDecidedAtStop
<1>1. ExitInv => ExitIsDecidedAtStop
  BY DEF ExitInv, ExitIsDecidedAtStop
<1> QED
  BY <1>1, ExitInit, ExitNext, PTL DEF Spec
-----------------------------------------------------------------------------
(* The request and its reply. *)

Waiting == {"boundary", "poll", "guest", "parked"}

Requests == [id : Nat, op : {"ping", "logs"}, svc : Services \cup {None}, cursor : Nat]
Replies == [id : Nat, kind : {"reply"}, ok : BOOLEAN, schema : {1, 2},
            data : Seq(Nat), next : Nat, eof : BOOLEAN]
Events == [id : {None}, kind : {"event", "finish"}]
LineUnits(L) == [line : L, i : Nat, n : Nat]

\* One type invariant for the capture's own state and for the line.
CaptureTyped ==
  /\ svc \in 0..Len(ServiceSeq) + 1 /\ cursor \in Nat /\ raw \in Seq(Nat) /\ id \in Nat
  /\ schema \in {1, 2}
  /\ len \in [Services -> Nat] /\ base \in [Services -> Nat]
  /\ \A s \in Services : base[s] <= len[s]
  /\ pend \in Seq(LineUnits(Requests)) /\ fifo \in Seq(LineUnits(Requests))
  /\ inbuf \in Seq(LineUnits(Requests)) /\ Len(fifo) <= FifoSize
  /\ tx \in Seq(LineUnits(Replies \cup Events)) /\ out \in Seq(LineUnits(Replies \cup Events))

\* What is on its way to the agent, and what is on its way back.
Asked == inbuf \o fifo \o pend
Coming == tx \o out

\* A byte captured at place p, unless its character was cut.
Faithful(v, p) == v # p => v = Lost /\ {p - 1, p} \cap Wide # {}

\* The reply to the request at hand: a page from the cursor on, the last one if
\* it reaches what was logged when the run stopped.
Answers(l) ==
  /\ l \in Replies /\ l.id = id
  /\ svc > 0 /\ ~l.ok => fault # {}
  /\ svc > 0 /\ l.ok =>
       /\ l.next = cursor + Len(l.data) /\ l.next <= len[ThisService]
       /\ \A k \in 1..Len(l.data) : Faithful(l.data[k], cursor + k)
       /\ l.eof => l.next >= base[ThisService]
       /\ ~l.eof => l.next > cursor

\* Between two requests, with the request on its way, with the reply on its way.
OneLine ==
  /\ Len(Coming) <= TxCap
  /\ \A k \in 1..Len(Coming) : Coming[k] = Unit(Coming[1].line, k, Len(Coming))
NoReply == OneLine /\ (Coming # <<>> => Coming[1].line \in Events)
Idle == Asked = <<>> /\ NoReply
Requested == Asked = Frame(Request(id)) /\ NoReply
Replied == Asked = <<>> /\ Coming # <<>> /\ OneLine /\ Answers(Coming[1].line)

\* A budget is used up; then requests are still queued, but no guest runs.
Overdue == fault \cap {"wall", "virtual"} # {}
Queued ==
  /\ Len(Asked) >= 2
  /\ \A k \in 1..Len(Asked) : Asked[k].line.id = id <=> k >= Len(Asked) - 1

NotYetAsked == pc \in Early => pend = <<>> /\ fifo = <<>> /\ inbuf = <<>> /\ svc = 0
OldIds == \A k \in 1..Len(Asked) : Asked[k].line.id <= id
AtService ==
  /\ pc \in Waiting \cup {"ask", "close", "timeout", "dead"} =>
       svc <= Len(ServiceSeq) /\ (svc > 0 => cursor <= len[ThisService])
  /\ pc = "close" => svc > 0
AtRest ==
  /\ pc \in {"ask", "close"} => Overdue \/ Idle
  /\ pc = "timeout" => Overdue
InFlight ==
  /\ pc = "boundary" => Requested \/ Replied \/ (Overdue /\ Queued)
  /\ pc \in {"poll", "guest", "parked"} => Requested \/ Replied
NoEnd == pc \in {"guest", "parked"} => \A k \in 1..Len(tx) : ~IsLast(tx[k])

LineInv == NotYetAsked /\ OldIds /\ AtService /\ AtRest /\ InFlight /\ NoEnd
-----------------------------------------------------------------------------
(* Streams and lines. *)

LEMMA Least ==
  ASSUME NEW S, S \subseteq Nat, S # {}
  PROVE  \E x \in S : \A y \in S : x <= y
<1>1. PICK x \in S : \A y \in S : ~(<<y, x>> \in OpToRel(<, Nat))
  BY NatLessThanWellFounded, WFMin
<1>2. \A y \in S : ~(y < x)
  BY <1>1 DEF OpToRel
<1> QED
  BY <1>2

LEMMA Assoc ==
  ASSUME NEW S, NEW s \in Seq(S), NEW t \in Seq(S), NEW u \in Seq(S)
  PROVE  (s \o t) \o u = s \o (t \o u)
  BY ConcatAssociative

\* A unit taken from one buffer and put at the end of another stays in order.
LEMMA MoveHead ==
  ASSUME NEW S, NEW s \in Seq(S), NEW t \in Seq(S), t # <<>>
  PROVE  /\ Append(s, Head(t)) \in Seq(S) /\ Tail(t) \in Seq(S)
         /\ Append(s, Head(t)) \o Tail(t) = s \o t
<1>1. Head(t) \in S /\ Tail(t) \in Seq(S) /\ Append(s, Head(t)) \in Seq(S)
  BY HeadTailProperties, AppendProperties
<1>2. t = <<Head(t)>> \o Tail(t)
  BY HeadTailProperties
<1>3. Append(s, Head(t)) = s \o <<Head(t)>> /\ <<Head(t)>> \in Seq(S)
  BY <1>1, AppendIsConcat
<1>4. (s \o <<Head(t)>>) \o Tail(t) = s \o (<<Head(t)>> \o Tail(t))
  BY <1>1, <1>3, Assoc
<1> QED
  BY <1>1, <1>2, <1>3, <1>4

\* A stream cut at place k.
LEMMA Cut ==
  ASSUME NEW S, NEW p \in Seq(S), NEW k \in 0..Len(p)
  PROVE  /\ SubSeq(p, 1, k) \in Seq(S) /\ Len(SubSeq(p, 1, k)) = k
         /\ SubSeq(p, k + 1, Len(p)) \in Seq(S)
         /\ Len(SubSeq(p, k + 1, Len(p))) = Len(p) - k
         /\ SubSeq(p, 1, k) \o SubSeq(p, k + 1, Len(p)) = p
<1>1. Len(p) \in Nat
  BY LenProperties
<1>2. SubSeq(p, 1, k) \in Seq(S) /\ Len(SubSeq(p, 1, k)) = k
  BY <1>1, SubSeqProperties
<1>3. /\ SubSeq(p, k + 1, Len(p)) \in Seq(S)
      /\ Len(SubSeq(p, k + 1, Len(p))) = Len(p) - k
  BY <1>1, SubSeqProperties
<1>4. 1 \in 1..Len(p) + 1 /\ k \in 1 - 1..Len(p) /\ Len(p) \in k..Len(p)
  BY <1>1
<1>5. SubSeq(p, 1, k) \o SubSeq(p, k + 1, Len(p)) = SubSeq(p, 1, Len(p))
  BY <1>4, ConcatAdjacentSubSeq, Zenon
<1> QED
  BY <1>2, <1>3, <1>5, SubSeqFull

\* What pump hands over stays in order, and within the FIFO.
LEMMA PumpKeeps ==
  ASSUME NEW S, NEW p \in Seq(S), NEW f \in Seq(S), Len(f) <= FifoSize
  PROVE  /\ PumpFifo(p, f) \in Seq(S) /\ PumpRest(p, f) \in Seq(S)
         /\ Len(PumpFifo(p, f)) <= FifoSize
         /\ PumpFifo(p, f) \o PumpRest(p, f) = f \o p
<1> DEFINE k == Take(p, f)
           a == SubSeq(p, 1, k)
           b == SubSeq(p, k + 1, Len(p))
<1>1. Len(p) \in Nat /\ Len(f) \in Nat /\ FifoSize \in Nat
  BY CaptureAssumption, LenProperties
<1>2. k \in 0..Len(p) /\ Len(f) + k <= FifoSize
  BY <1>1 DEF Take
<1> HIDE DEF k
<1>3. /\ a \in Seq(S) /\ Len(a) = k
  BY <1>2, Cut
<1>4. b \in Seq(S)
  BY <1>2, Cut
<1>5. a \o b = p
  BY <1>2, Cut
<1> HIDE DEF a, b
<1>6. f \o a \in Seq(S) /\ Len(f \o a) = Len(f) + k
  BY <1>3, ConcatProperties
<1>8. (f \o a) \o b = f \o (a \o b)
  BY <1>3, <1>4, Assoc, SMTT(30)
<1>7. PumpFifo(p, f) = f \o a /\ PumpRest(p, f) = b
  BY DEF PumpFifo, PumpRest, a, b, k
<1> QED
  BY <1>2, <1>4, <1>5, <1>6, <1>7, <1>8

\* The line on its way back is wholly in tx, or tx has no end of a line.
LEMMA LineEnds ==
  ASSUME CaptureTyped, OneLine
  PROVE  \/ /\ \A k \in 1..Len(tx) : ~IsLast(tx[k])
            /\ LastEnd(tx) = 0 /\ From(tx, LastEnd(tx)) = tx
            /\ out = <<>> => tx = <<>>
         \/ /\ tx # <<>> /\ out = <<>> /\ Coming = tx
            /\ LastEnd(tx) = Len(tx) /\ FirstEnd(tx) = Len(tx) /\ LastEnd(tx) > 0
            /\ From(tx, Len(tx)) = <<>>
            /\ Decodes(tx) /\ Len(tx) \in 1..Len(tx) /\ IsLast(tx[Len(tx)])
<1> DEFINE U == LineUnits(Replies \cup Events)
           n == Len(Coming)
           l == Coming[1].line
           I == {i \in 1..Len(tx) : IsLast(tx[i])}
<1>1. tx \in Seq(U) /\ out \in Seq(U)
  BY DEF CaptureTyped
<1>2. /\ Len(tx) \in Nat /\ Len(out) \in Nat /\ n = Len(tx) + Len(out)
      /\ \A k \in 1..Len(tx) : Coming[k] = tx[k]
  BY <1>1 DEF Coming
<1>3. \A k \in 1..n : Coming[k] = Unit(l, k, n)
  BY DEF OneLine
<1>4. \A k \in 1..Len(tx) : tx[k].i = k /\ tx[k].n = n
  BY <1>2, <1>3 DEF Unit
<1>5. \A k \in 1..Len(tx) : IsLast(tx[k]) <=> k = n
  BY <1>4 DEF IsLast
<1> HIDE DEF U, n, l, I
<1>6. LastEnd(tx) = IF I # {} THEN Max(I) ELSE 0
  BY DEF LastEnd, SelectLastInSeq, I
<1>7. FirstEnd(tx) = IF I # {} THEN Min(I) ELSE 0
  BY DEF FirstEnd, SelectInSeq, I
<1>8. CASE n \in 1..Len(tx)
  <2>1. I = {n} /\ n = Len(tx) /\ Len(out) = 0 /\ n > 0
    BY <1>2, <1>5, <1>8 DEF I
  <2>2. Max({n}) = n /\ Min({n}) = n
    BY <1>2 DEF Max, Min
  <2>3. out = <<>> /\ tx # <<>>
    BY <1>1, <2>1
  <2>4. Coming = tx
    BY <1>1, <2>3, ConcatEmptySeq DEF Coming
  <2>5. From(tx, Len(tx)) = <<>>
    BY <1>2, SubSeqEmpty DEF From
  <2>6. Decodes(tx)
    BY <1>4, <1>7, <2>1, <2>2 DEF Decodes
  <2>7. Len(tx) \in 1..Len(tx) /\ IsLast(tx[Len(tx)])
    BY <1>2, <1>5, <2>1
  <2> QED
    BY <1>6, <1>7, <2>1, <2>2, <2>3, <2>4, <2>5, <2>6, <2>7
<1>9. CASE n \notin 1..Len(tx)
  <2>1. I = {}
    BY <1>5, <1>9 DEF I
  <2>2. From(tx, 0) = tx
    BY <1>1, SubSeqFull DEF From
  <2>3. out = <<>> => Len(tx) = 0
    BY <1>2, <1>9
  <2>4. Len(tx) = 0 => tx = <<>>
    BY <1>1
  <2> QED
    BY <1>5, <1>6, <1>9, <2>1, <2>2, <2>3, <2>4
<1> QED
  BY <1>8, <1>9

\* The queues as sequences over one set.
LEMMA Streams ==
  ASSUME CaptureTyped
  PROVE  /\ Asked \in Seq(LineUnits(Requests)) /\ Coming \in Seq(LineUnits(Replies \cup Events))
         /\ Len(Asked) = Len(inbuf) + Len(fifo) + Len(pend)
         /\ Len(Coming) = Len(tx) + Len(out)
         /\ Len(inbuf) \in Nat /\ Len(fifo) \in Nat /\ Len(pend) \in Nat
         /\ Len(tx) \in Nat /\ Len(out) \in Nat
<1> DEFINE R == LineUnits(Requests)
           U == LineUnits(Replies \cup Events)
<1>1. /\ inbuf \in Seq(R) /\ fifo \in Seq(R) /\ pend \in Seq(R)
      /\ tx \in Seq(U) /\ out \in Seq(U)
  BY DEF CaptureTyped
<1> HIDE DEF R, U
<1>2. inbuf \o fifo \in Seq(R) /\ Len(inbuf \o fifo) = Len(inbuf) + Len(fifo)
  BY <1>1, ConcatProperties
<1>3. Asked \in Seq(R) /\ Len(Asked) = Len(inbuf \o fifo) + Len(pend)
  BY <1>1, <1>2, ConcatProperties DEF Asked
<1>4. Coming \in Seq(U) /\ Len(Coming) = Len(tx) + Len(out)
  BY <1>1, ConcatProperties DEF Coming
<1>5. /\ Len(inbuf) \in Nat /\ Len(fifo) \in Nat /\ Len(pend) \in Nat
      /\ Len(tx) \in Nat /\ Len(out) \in Nat
  BY <1>1, LenProperties
<1> QED
  BY <1>2, <1>3, <1>4, <1>5 DEF R, U

\* With nothing asked, all three buffers are empty.
LEMMA NothingAsked ==
  ASSUME CaptureTyped
  PROVE  Asked = <<>> <=> inbuf = <<>> /\ fifo = <<>> /\ pend = <<>>
<1>1. /\ Asked = <<>> <=> Len(Asked) = 0
      /\ inbuf = <<>> <=> Len(inbuf) = 0
      /\ fifo = <<>> <=> Len(fifo) = 0
      /\ pend = <<>> <=> Len(pend) = 0
  BY Streams, EmptySeq DEF CaptureTyped
<1> QED
  BY <1>1, Streams

LEMMA ServiceAtHand ==
  ASSUME svc \in Nat, svc > 0, svc <= Len(ServiceSeq)
  PROVE  ThisService \in Services
<1>1. ServiceSeq \in Seq(Services) /\ Len(ServiceSeq) \in Nat
  BY CaptureAssumption, LenProperties
<1>2. svc \in 1..Len(ServiceSeq)
  BY <1>1
<1> QED
  BY <1>1, <1>2, ElementOfSeq DEF ThisService
-----------------------------------------------------------------------------
(* The steps of the line. *)

lineVars == <<svc, cursor, raw, id, schema, base, pend, fifo, inbuf, tx, out>>

\* A step beside the line: it stays as it is.
LEMMA SameLine ==
  ASSUME UNCHANGED <<svc, cursor, id, base, len, pend, fifo, inbuf, tx, out>>, fault \subseteq fault'
  PROVE  /\ Asked' = Asked /\ Coming' = Coming
         /\ Idle => Idle'
         /\ Requested => Requested'
         /\ Replied => Replied'
         /\ Overdue => Overdue'
         /\ Queued => Queued'
<1>1. Asked' = Asked /\ Coming' = Coming
  BY DEF Asked, Coming
<1>2. OneLine => OneLine'
  BY <1>1 DEF OneLine
<1>3. NoReply => NoReply'
  BY <1>1, <1>2 DEF NoReply
<1>4. Request(id)' = Request(id)
  BY DEF Request, ThisService
<1>5. ASSUME NEW l, Answers(l)
      PROVE  Answers(l)'
  BY <1>5 DEF Answers, ThisService
<1>6. Frame(Request(id))' = Frame(Request(id))
  BY <1>4 DEF Frame
<1>7. Requested => Requested'
  BY <1>1, <1>3, <1>6 DEF Requested
<1>8. Replied => Replied'
  BY <1>1, <1>2, <1>5 DEF Replied
<1>9. Overdue => Overdue'
  BY DEF Overdue
<1>10. Queued => Queued'
  BY <1>1 DEF Queued
<1> QED
  BY <1>1, <1>3, <1>7, <1>8, <1>9, <1>10 DEF Idle

LEMMA LineQuiet ==
  ASSUME CaptureTyped, LineInv, UNCHANGED lineVars, len' = len, fault \subseteq fault',
         pc' \in Early => pc \in Early,
         pc' \in Waiting \cup {"ask", "close", "timeout", "dead"} =>
           pc \in Waiting \cup {"ask", "close", "timeout", "dead"},
         pc' = "ask" => pc = "ask",
         pc' = "close" => (pc \in {"close", "timeout"} /\ svc > 0),
         pc' = "timeout" => pc = "timeout" \/ Overdue,
         pc' = "boundary" => pc \in {"boundary", "guest", "parked"},
         pc' = "poll" => pc = "poll",
         pc' \in {"guest", "parked"} => pc \in {"guest", "parked"}
  PROVE  CaptureTyped' /\ LineInv'
<1>1. UNCHANGED <<svc, cursor, id, base, len, pend, fifo, inbuf, tx, out>>
  BY DEF lineVars
<1>2. CaptureTyped'
  BY DEF CaptureTyped, lineVars
<1>3. /\ Asked' = Asked
      /\ Idle => Idle'
      /\ Requested => Requested'
      /\ Replied => Replied'
      /\ Overdue => Overdue'
      /\ Queued => Queued'
  BY <1>1, SameLine
<1>4. NotYetAsked' /\ OldIds' /\ AtService'
  BY <1>1, <1>3 DEF LineInv, NotYetAsked, OldIds, AtService, ThisService
<1>5. AtRest'
  BY <1>3 DEF LineInv, AtRest
<1>6. InFlight'
  BY <1>3 DEF LineInv, InFlight
<1>7. NoEnd'
  BY <1>1 DEF LineInv, NoEnd
<1> QED
  BY <1>2, <1>4, <1>5, <1>6, <1>7 DEF LineInv

LEMMA LineBeside ==
  ASSUME CaptureTyped, LineInv,
         \/ Prepare \/ ArmsWatchdog \/ Boots \/ RunFails \/ Fatal \/ Finish
         \/ Prints \/ Drains \/ EmitsLine \/ FinishDrains \/ FlushesTail
         \/ GaveUp \/ Aborted \/ ParkHorizon \/ ParkReturns \/ GuestDies \/ OtherExit
         \/ \E w : BudgetRunsOut(w)
  PROVE  CaptureTyped' /\ LineInv'
<1>1. CASE Prepare \/ ArmsWatchdog \/ Boots \/ RunFails \/ Fatal \/ Finish
  <2>1. UNCHANGED lineVars /\ len' = len /\ fault' = fault
    BY <1>1 DEF Prepare, ArmsWatchdog, Boots, RunFails, Fatal, Finish, notYetRunning, pageVars,
       agentVars, lineVars
  <2>2. /\ pc' \in {"load", "exited", "boot", "running", "fatal"}
        /\ pc' \in Early => pc \in Early
    BY <1>1 DEF Prepare, ArmsWatchdog, Boots, RunFails, Fatal, Finish, Early, PrepareLogsDir
  <2> QED
    BY <2>1, <2>2, LineQuiet DEF Waiting
<1>2. CASE Prints \/ Drains \/ EmitsLine \/ FinishDrains \/ FlushesTail
  <2>1. UNCHANGED lineVars /\ len' = len
    BY <1>2 DEF Prints, Drains, EmitsLine, FinishDrains, FlushesTail, otherThanConsole, pageVars,
       lineVars
  <2>2. fault \subseteq fault'
    BY <1>2 DEF Prints, Drains, EmitsLine, FinishDrains, FlushesTail, AppendLine
  <2>3. pc' = pc \/ (pc = "guest" /\ pc' = "boundary") \/ pc' = "flush"
    BY <1>2 DEF Prints, Drains, EmitsLine, FinishDrains, FlushesTail
  <2>4. pc' = "close" => svc > 0
    BY <2>3 DEF LineInv, AtService
  <2>5. pc' = "timeout" => pc = "timeout"
    BY <2>3
  <2> QED
    BY <2>1, <2>2, <2>3, <2>4, <2>5, LineQuiet DEF Waiting, Early
<1>3. CASE GaveUp \/ Aborted
  <2>1. UNCHANGED lineVars /\ len' = len
    BY <1>3 DEF GaveUp, Aborted, pageVars, agentVars, lineVars
  <2>2. fault \subseteq fault'
    BY <1>3 DEF GaveUp, Aborted, WriteFile
  <2>3. pc' = "finish" \/ (pc = "timeout" /\ pc' = "close" /\ svc # 0)
    BY <1>3 DEF GaveUp, Aborted
  <2>4. svc \in Nat
    BY DEF CaptureTyped
  <2> QED
    BY <2>1, <2>2, <2>3, <2>4, LineQuiet DEF Waiting, Early
<1>4. CASE ParkHorizon \/ ParkReturns \/ GuestDies \/ OtherExit \/ \E w : BudgetRunsOut(w)
  <2>1. UNCHANGED lineVars /\ len' = len
    BY <1>4 DEF ParkHorizon, ParkReturns, GuestDies, OtherExit, BudgetRunsOut, GuestStep, pageVars,
       agentVars, lineVars
  <2>2. fault \subseteq fault'
    BY <1>4 DEF ParkHorizon, ParkReturns, GuestDies, OtherExit, BudgetRunsOut
  <2>3. /\ pc \in {"guest", "parked"}
        /\ pc' = pc \/ pc' \in {"boundary", "dead"} \/ (pc' = "timeout" /\ "virtual" \in fault)
    BY <1>4 DEF ParkHorizon, ParkReturns, GuestDies, OtherExit, BudgetRunsOut, GuestStep,
       ParkHorizonDue
  <2>4. pc' = "timeout" => Overdue
    BY <2>3 DEF Overdue
  <2> QED
    BY <2>1, <2>2, <2>3, <2>4, LineQuiet DEF Waiting, Early
<1> QED
  BY <1>1, <1>2, <1>3, <1>4

\* The units of a line.
LEMMA UnitsSeq ==
  ASSUME NEW L, NEW l \in L, NEW n \in Nat
  PROVE  /\ Units(l, n) \in Seq(LineUnits(L)) /\ Len(Units(l, n)) = n
         /\ \A k \in 1..n : Units(l, n)[k] = Unit(l, k, n)
<1>1. \A k \in 1..n : Unit(l, k, n) \in LineUnits(L)
  BY DEF Unit, LineUnits
<1> QED
  BY <1>1 DEF Units

LEMMA RequestIs ==
  ASSUME CaptureTyped, svc <= Len(ServiceSeq), NEW n \in Nat
  PROVE  /\ Request(n) \in Requests /\ Request(n).id = n
         /\ Request(n).op = IF svc = 0 THEN "ping" ELSE "logs"
         /\ svc > 0 => Request(n).svc = ThisService /\ Request(n).cursor = cursor
<1>1. svc \in Nat /\ cursor \in Nat
  BY DEF CaptureTyped
<1>2. CASE svc = 0
  BY <1>1, <1>2 DEF Request, Requests
<1>3. CASE svc > 0
  <2>1. ThisService \in Services
    BY <1>1, <1>3, ServiceAtHand
  <2> QED
    BY <1>1, <1>3, <2>1 DEF Request, Requests
<1> QED
  BY <1>1, <1>2, <1>3

LEMMA FrameIs ==
  ASSUME NEW req \in Requests
  PROVE  /\ Frame(req) \in Seq(LineUnits(Requests)) /\ Len(Frame(req)) = 2
         /\ Frame(req)[1] = Unit(req, 1, 2) /\ Frame(req)[2] = Unit(req, 2, 2)
<1>1. 2 \in Nat /\ 1 \in 1..2 /\ 2 \in 1..2
  OBVIOUS
<1>2. /\ Units(req, 2) \in Seq(LineUnits(Requests)) /\ Len(Units(req, 2)) = 2
      /\ \A k \in 1..2 : Units(req, 2)[k] = Unit(req, k, 2)
  BY <1>1, UnitsSeq
<1> QED
  BY <1>1, <1>2 DEF Frame

\* A line begins where there was none.
LEMMA NewLine ==
  ASSUME NEW l \in Replies \cup Events, NEW n \in 0..TxCap, tx' = <<>>, out' = Units(l, n)
  PROVE  /\ tx' \in Seq(LineUnits(Replies \cup Events)) /\ out' \in Seq(LineUnits(Replies \cup Events))
         /\ Coming' = Units(l, n) /\ OneLine'
         /\ n > 0 => Coming' # <<>> /\ Coming'[1].line = l
         /\ n = 0 => Coming' = <<>>
<1> DEFINE U == LineUnits(Replies \cup Events)
<1>1. n \in Nat /\ TxCap \in Nat /\ n <= TxCap
  BY CaptureAssumption
<1>2. /\ Units(l, n) \in Seq(U) /\ Len(Units(l, n)) = n
      /\ \A k \in 1..n : Units(l, n)[k] = Unit(l, k, n)
  BY <1>1, UnitsSeq
<1> HIDE DEF U
<1>3. Coming' = Units(l, n) /\ <<>> \in Seq(U)
  BY <1>2, ConcatEmptySeq, EmptySeq DEF Coming
<1>4. n > 0 => Coming'[1].line = l
  <2>1. n > 0 => 1 \in 1..n
    BY <1>1
  <2> QED
    BY <1>2, <1>3, <2>1 DEF Unit
<1>5. OneLine'
  <2>1. Len(Coming') = n
    BY <1>2, <1>3
  <2>2. ASSUME NEW k \in 1..n
        PROVE  Coming'[k] = Unit(Coming'[1].line, k, Len(Coming'))
    <3>1. n > 0
      BY <1>1
    <3> QED
      BY <1>2, <1>3, <1>4, <2>1, <3>1
  <2> QED
    BY <1>1, <2>1, <2>2 DEF OneLine
<1>6. (n > 0 => Coming' # <<>>) /\ (n = 0 => Coming' = <<>>)
  BY <1>1, <1>2, <1>3
<1> QED
  BY <1>2, <1>3, <1>4, <1>5, <1>6 DEF U

\* The empty line.
LEMMA NoLine ==
  ASSUME tx' = <<>>, out' = <<>>
  PROVE  NoReply' /\ Coming' = <<>>
<1>1. Coming' = <<>>
  BY DEF Coming
<1>2. Len(Coming') = 0 /\ TxCap \in Nat
  BY <1>1, CaptureAssumption
<1> QED
  BY <1>1, <1>2 DEF NoReply, OneLine

\* The last end of a line is a place in the stream, or 0.
LEMMA LastEndIs ==
  ASSUME NEW S, NEW t \in Seq(S)
  PROVE  /\ LastEnd(t) \in 0..Len(t) /\ From(t, LastEnd(t)) \in Seq(S)
         /\ LastEnd(t) > 0 => LastEnd(t) \in 1..Len(t) /\ IsLast(t[LastEnd(t)])
         /\ (\A k \in 1..Len(t) : ~IsLast(t[k])) => LastEnd(t) = 0 /\ From(t, LastEnd(t)) = t
<1> DEFINE I == {i \in 1..Len(t) : IsLast(t[i])}
           J == {j \in Nat : \E i \in I : j = Len(t) - i}
<1>1. LastEnd(t) = IF I # {} THEN Max(I) ELSE 0
  BY DEF LastEnd, SelectLastInSeq
<1>2. Len(t) \in Nat
  BY LenProperties
<1>3. I # {} => Max(I) \in I
  <2>1. SUFFICES ASSUME I # {}
                 PROVE  Max(I) \in I
    OBVIOUS
  <2>2. J \subseteq Nat /\ J # {}
    <3>1. PICK a \in I : TRUE
      BY <2>1
    <3>2. Len(t) - a \in Nat
      BY <1>2
    <3>3. Len(t) - a \in J
      BY <3>2
    <3> QED
      BY <3>3
  <2>3. PICK x \in J : \A y \in J : x <= y
    <3> HIDE DEF J
    <3> QED
      BY <2>2, Least
  <2>4. PICK i \in I : x = Len(t) - i
    OBVIOUS
  <2>5. \A y \in I : i >= y
    <3> SUFFICES ASSUME NEW y \in I
                 PROVE  i >= y
      OBVIOUS
    <3>1. y \in 1..Len(t) /\ i \in 1..Len(t)
      OBVIOUS
    <3>2. Len(t) - y \in J
      BY <1>2, <3>1
    <3>3. x <= Len(t) - y
      BY <2>3, <3>2
    <3> HIDE DEF I, J
    <3> QED
      BY <1>2, <2>4, <3>1, <3>3
  <2> HIDE DEF I, J
  <2> QED
    BY <2>4, <2>5 DEF Max
<1>4. LastEnd(t) \in 0..Len(t) /\ (LastEnd(t) > 0 => LastEnd(t) \in I)
  <2>1. CASE I = {}
    BY <1>1, <1>2, <2>1
  <2>2. CASE I # {}
    BY <1>1, <1>2, <1>3, <2>2
  <2> QED
    BY <2>1, <2>2
<1>5. From(t, LastEnd(t)) \in Seq(S)
  <2> DEFINE e == LastEnd(t)
  <2>1. e \in 0..Len(t)
    BY <1>4
  <2> HIDE DEF e
  <2>2. SubSeq(t, e + 1, Len(t)) \in Seq(S)
    BY <1>2, <2>1, SubSeqProperties
  <2> QED
    BY <2>2 DEF From, e
<1>6. ASSUME \A k \in 1..Len(t) : ~IsLast(t[k])
      PROVE  LastEnd(t) = 0 /\ From(t, LastEnd(t)) = t
  <2>1. LastEnd(t) = 0
    BY <1>1, <1>6
  <2> QED
    BY <2>1, SubSeqFull DEF From
<1> QED
  BY <1>4, <1>5, <1>6

\* The service after place i, past the ones that are skipped.
LEMMA NextServiceIs ==
  ASSUME NEW i \in 0..Len(ServiceSeq)
  PROVE  /\ NextService(i) \in i + 1..Len(ServiceSeq) + 1
         /\ \A j \in i + 1..NextService(i) - 1 : ServiceSeq[j] \in Unsafe
<1> DEFINE rest == {j \in i + 1..Len(ServiceSeq) : ServiceSeq[j] \notin Unsafe}
<1>1. Len(ServiceSeq) \in Nat
  BY CaptureAssumption, LenProperties
<1>2. CASE rest = {}
  <2>1. NextService(i) = Len(ServiceSeq) + 1
    BY <1>2 DEF NextService
  <2> QED
    BY <1>1, <1>2, <2>1
<1>3. CASE rest # {}
  <2>1. \E j \in rest : \A k \in rest : j <= k
    <3>1. rest \subseteq Nat
      BY <1>1
    <3> HIDE DEF rest
    <3> QED
      BY <1>3, <3>1, Least
  <2>2. NextService(i) = CHOOSE j \in rest : \A k \in rest : j <= k
    BY <1>3 DEF NextService
  <2>3. NextService(i) \in rest /\ \A k \in rest : NextService(i) <= k
    <3> HIDE DEF rest
    <3> QED
      BY <2>1, <2>2
  <2> QED
    BY <1>1, <2>3
<1> QED
  BY <1>2, <1>3

LEMMA LineStops ==
  ASSUME CaptureTyped, LineInv, RunStops
  PROVE  CaptureTyped' /\ LineInv'
<1> DEFINE ev == EventLine("event")
           two == Units(ev, 2)
           U == LineUnits(Replies \cup Events)
<1>1. pend = <<>> /\ fifo = <<>> /\ inbuf = <<>> /\ svc = 0
  BY DEF RunStops, LineInv, NotYetAsked, Early
<1>2. /\ UNCHANGED <<svc, cursor, raw, id, schema, pend, fifo, inbuf>>
      /\ len' = Logged /\ base' = Logged /\ pc' \in {"ask", "finish"}
  BY DEF RunStops, pageVars
<1>3. ev \in Replies \cup Events /\ ev \in Events
  BY DEF EventLine, Events
<1>4. /\ two \in Seq(U) /\ Len(two) = 2 /\ \A k \in 1..2 : two[k] = Unit(ev, k, 2)
  <2>1. 2 \in Nat
    OBVIOUS
  <2> QED
    BY <1>3, <2>1, UnitsSeq
<1>5. PICK k \in 0..2 : tx' = SubSeq(two, 1, k) /\ out' = SubSeq(two, k + 1, 2)
  BY DEF RunStops
<1> HIDE DEF two, U
<1>6. tx' \in Seq(U) /\ out' \in Seq(U)
  <2>1. Len(two) = 2 /\ k \in 0..Len(two)
    BY <1>4
  <2>2. SubSeq(two, 1, k) \in Seq(U) /\ SubSeq(two, k + 1, Len(two)) \in Seq(U)
    BY <1>4, <2>1, Cut
  <2> QED
    BY <1>5, <2>1, <2>2
<1>7. Coming' = two
  <2>1. Len(two) = 2 /\ k \in 0..Len(two)
    BY <1>4
  <2>2. SubSeq(two, 1, k) \o SubSeq(two, k + 1, Len(two)) = two
    BY <1>4, <2>1, Cut
  <2> QED
    BY <1>5, <2>1, <2>2 DEF Coming
<1>8. 2 <= TxCap
  <2>1. Escape * ChunkBytes \in Nat /\ Escape * ChunkBytes >= Escape
    BY CaptureAssumption
  <2> QED
    BY <2>1, CaptureAssumption, SMTT(30)
<1>9. Idle'
  <2>1. Asked' = <<>>
    BY <1>1, <1>2 DEF Asked
  <2>2. Coming'[1].line = ev
    BY <1>4, <1>7 DEF Unit
  <2>3. OneLine'
    BY <1>4, <1>7, <1>8, <2>2 DEF OneLine
  <2> QED
    BY <1>3, <2>1, <2>2, <2>3 DEF Idle, NoReply
<1>10. CaptureTyped'
  <2>1. Logged \in [Services -> Nat]
    BY CaptureAssumption
  <2> QED
    BY <1>2, <1>6, <2>1 DEF CaptureTyped, U
<1>11. OldIds'
  <2>1. Asked' = <<>>
    BY <1>9 DEF Idle
  <2> QED
    BY <2>1 DEF OldIds
<1>12. Len(ServiceSeq) \in Nat
  BY CaptureAssumption, LenProperties
<1> QED
  BY <1>1, <1>2, <1>9, <1>10, <1>11, <1>12
     DEF LineInv, NotYetAsked, AtService, AtRest, InFlight, NoEnd, Early, Waiting

LEMMA LineKilled ==
  ASSUME CaptureTyped, WallTimeout
  PROVE  CaptureTyped' /\ LineInv'
<1>1. /\ pend' = <<>> /\ fifo' = <<>> /\ tx' = <<>> /\ inbuf' = <<>> /\ out' = <<>>
      /\ svc' = 0 /\ cursor' = 0 /\ raw' = <<>> /\ id' = 0 /\ pc' = "exited"
      /\ UNCHANGED <<schema, len, base>>
  BY DEF WallTimeout
<1>2. FifoSize \in Nat /\ Len(ServiceSeq) \in Nat
  BY CaptureAssumption, LenProperties
<1>3. CaptureTyped'
  BY <1>1, <1>2 DEF CaptureTyped
<1>4. Asked' = <<>>
  BY <1>1 DEF Asked
<1> QED
  BY <1>1, <1>3, <1>4
     DEF LineInv, NotYetAsked, OldIds, AtService, AtRest, InFlight, NoEnd, Early, Waiting

\* The next request, or the end of the capture.
LEMMA LineAdvances ==
  ASSUME CaptureTyped, svc <= Len(ServiceSeq), Advance, UNCHANGED <<id, schema, len, base>>,
         UNCHANGED <<pend, fifo, inbuf, tx, out>>, Overdue' \/ Idle',
         \A k \in 1..Len(Asked) : Asked[k].line.id <= id
  PROVE  CaptureTyped' /\ LineInv'
<1>1. Len(ServiceSeq) \in Nat
  BY CaptureAssumption, LenProperties
<1>2. svc \in 0..Len(ServiceSeq)
  BY <1>1 DEF CaptureTyped
<1>3. svc' \in svc + 1..Len(ServiceSeq) + 1 /\ cursor' = 0 /\ raw' = <<>>
  BY <1>2, NextServiceIs DEF Advance
<1>4. pc' = IF svc' > Len(ServiceSeq) THEN "finish" ELSE "ask"
  BY DEF Advance
<1>5. CaptureTyped'
  BY <1>1, <1>2, <1>3 DEF CaptureTyped
<1>6. Asked' = Asked
  BY DEF Asked
<1>7. OldIds'
  BY <1>6 DEF OldIds
<1>8. svc' <= Len(ServiceSeq) => ThisService' \in Services
  <2>1. svc' <= Len(ServiceSeq) => svc' \in 1..Len(ServiceSeq)
    BY <1>1, <1>2, <1>3
  <2>2. ServiceSeq \in Seq(Services)
    BY CaptureAssumption
  <2> QED
    BY <2>1, <2>2, ElementOfSeq DEF ThisService
<1>9. svc' <= Len(ServiceSeq) => cursor' <= len'[ThisService']
  <2>1. svc' <= Len(ServiceSeq) => len'[ThisService'] \in Nat
    BY <1>5, <1>8 DEF CaptureTyped
  <2> QED
    BY <1>3, <2>1
<1>10. svc' > Len(ServiceSeq) \/ svc' <= Len(ServiceSeq)
  BY <1>1, <1>2, <1>3
<1> QED
  BY <1>4, <1>5, <1>7, <1>9, <1>10
     DEF LineInv, NotYetAsked, AtService, AtRest, InFlight, NoEnd, Early, Waiting

LEMMA LineCloses ==
  ASSUME CaptureTyped, LineInv, CloseService
  PROVE  CaptureTyped' /\ LineInv'
<1>1. /\ pc = "close" /\ Advance /\ UNCHANGED <<id, schema, len, base>>
      /\ UNCHANGED <<pend, fifo, inbuf, tx, out>>
  BY DEF CloseService, agentVars
<1>2. svc <= Len(ServiceSeq) /\ (Overdue \/ Idle) /\ OldIds
  BY <1>1 DEF LineInv, AtService, AtRest
<1>3. fault \subseteq fault'
  BY DEF CloseService, WriteFile
<1>4. Overdue => Overdue'
  BY <1>3 DEF Overdue
<1>5. Asked' = Asked /\ Coming' = Coming
  BY <1>1 DEF Asked, Coming
<1>6. Idle => Idle'
  BY <1>5 DEF Idle, NoReply, OneLine
<1> QED
  BY <1>1, <1>2, <1>4, <1>6, LineAdvances DEF OldIds

LEMMA LineAsks ==
  ASSUME CaptureTyped, LineInv, Ask
  PROVE  CaptureTyped' /\ LineInv'
<1> DEFINE R == LineUnits(Requests)
           U == LineUnits(Replies \cup Events)
           req == Request(id + 1)
           fr == Frame(req)
<1>1. /\ pc = "ask" /\ pc' = "boundary" /\ id' = id + 1 /\ tx' = From(tx, LastEnd(tx))
      /\ fifo' = PumpFifo(pend \o fr, fifo) /\ pend' = PumpRest(pend \o fr, fifo)
      /\ UNCHANGED <<svc, cursor, raw, inbuf, out, schema, len, base, fault>>
  BY DEF Ask, Pump, agentVars
<1>2. svc <= Len(ServiceSeq) /\ (Overdue \/ Idle) /\ OldIds /\ AtService
  BY <1>1 DEF LineInv, AtService, AtRest
<1>3. /\ inbuf \in Seq(R) /\ fifo \in Seq(R) /\ pend \in Seq(R) /\ Len(fifo) <= FifoSize
      /\ tx \in Seq(U) /\ out \in Seq(U) /\ id \in Nat /\ svc \in Nat
  BY DEF CaptureTyped
<1>4. req \in Requests /\ req.id = id + 1
  BY <1>2, <1>3, RequestIs
<1>5. /\ fr \in Seq(R) /\ Len(fr) = 2
      /\ fr[1] = Unit(req, 1, 2) /\ fr[2] = Unit(req, 2, 2)
  BY <1>4, FrameIs
<1>6. Frame(Request(id))' = fr
  BY <1>1 DEF Request, ThisService, Frame
<1> HIDE DEF R, U, req, fr
<1>7. pend \o fr \in Seq(R)
  BY <1>3, <1>5, ConcatProperties
<1>8. /\ fifo' \in Seq(R) /\ pend' \in Seq(R) /\ Len(fifo') <= FifoSize
      /\ fifo' \o pend' = fifo \o (pend \o fr)
  BY <1>1, <1>3, <1>7, PumpKeeps
<1>9. Asked' = Asked \o fr
  <2>1. \A b, c, d \in Seq(R) : (b \o c) \o d = b \o (c \o d)
    BY Assoc
  <2>2. (inbuf \o fifo') \o pend' = inbuf \o (fifo' \o pend')
    BY <1>3, <1>8, <2>1, Zenon
  <2>3. (inbuf \o fifo) \o (pend \o fr) = inbuf \o (fifo \o (pend \o fr))
    BY <1>3, <1>7, <2>1, Zenon
  <2>4. inbuf \o fifo \in Seq(R)
    BY <1>3, ConcatProperties
  <2>5. ((inbuf \o fifo) \o pend) \o fr = (inbuf \o fifo) \o (pend \o fr)
    BY <1>3, <1>5, <2>1, <2>4, Zenon
  <2> QED
    BY <1>1, <1>8, <2>2, <2>3, <2>5, Zenon DEF Asked
<1>10. tx' \in Seq(U)
  BY <1>1, <1>3, LastEndIs
<1>11. CaptureTyped'
  BY <1>1, <1>3, <1>8, <1>10 DEF CaptureTyped, R, U
<1>12. /\ Asked \in Seq(R) /\ Len(Asked) \in Nat /\ Asked' \in Seq(R)
       /\ Len(Asked') = Len(Asked) + 2
       /\ \A k \in 1..Len(Asked) : Asked'[k] = Asked[k]
       /\ Asked'[Len(Asked) + 1] = fr[1] /\ Asked'[Len(Asked) + 2] = fr[2]
  <2>1. Asked \in Seq(R) /\ Len(Asked) \in Nat
    BY Streams, LenProperties DEF R
  <2>2. /\ Asked \o fr \in Seq(R) /\ Len(Asked \o fr) = Len(Asked) + Len(fr)
        /\ \A k \in 1..Len(Asked) + Len(fr) :
             (Asked \o fr)[k] = IF k <= Len(Asked) THEN Asked[k] ELSE fr[k - Len(Asked)]
    BY <1>5, <2>1, ConcatProperties
  <2>3. Asked' \in Seq(R) /\ Len(Asked') = Len(Asked) + 2
    BY <1>5, <1>9, <2>2
  <2>4. \A k \in 1..Len(Asked) + 2 :
          Asked'[k] = IF k <= Len(Asked) THEN Asked[k] ELSE fr[k - Len(Asked)]
    BY <1>5, <1>9, <2>2
  <2>5. \A a \in Nat : /\ a + 1 \in 1..a + 2 /\ a + 2 \in 1..a + 2
                       /\ ~(a + 1 <= a) /\ ~(a + 2 <= a)
                       /\ (a + 1) - a = 1 /\ (a + 2) - a = 2
    OBVIOUS
  <2>6. Asked'[Len(Asked) + 1] = fr[1] /\ Asked'[Len(Asked) + 2] = fr[2]
    <3>1. Asked'[Len(Asked) + 1] = fr[(Len(Asked) + 1) - Len(Asked)]
      BY <2>1, <2>4, <2>5
    <3>2. Asked'[Len(Asked) + 2] = fr[(Len(Asked) + 2) - Len(Asked)]
      BY <2>1, <2>4, <2>5
    <3>3. (Len(Asked) + 1) - Len(Asked) = 1 /\ (Len(Asked) + 2) - Len(Asked) = 2
      BY <2>1, <2>5
    <3> QED
      BY <3>1, <3>2, <3>3
  <2>7. ASSUME NEW k \in 1..Len(Asked)
        PROVE  Asked'[k] = Asked[k]
    <3>1. k \in 1..Len(Asked) + 2 /\ k <= Len(Asked)
      BY <2>1
    <3> QED
      BY <2>4, <3>1
  <2> QED
    BY <2>1, <2>3, <2>6, <2>7
<1>13. fr[1].line.id = id + 1 /\ fr[2].line.id = id + 1
  BY <1>4, <1>5 DEF Unit
<1>14. \A k \in 1..Len(Asked) : Asked[k].line.id <= id /\ Asked[k].line.id \in Nat
  <2>1. \A k \in 1..Len(Asked) : Asked[k] \in R
    BY <1>12, ElementOfSeq
  <2> QED
    BY <1>2, <2>1 DEF OldIds, R, LineUnits, Requests
<1>15. ASSUME NEW k \in 1..Len(Asked')
       PROVE  /\ Asked'[k].line.id <= id'
              /\ Asked'[k].line.id = id' <=> k >= Len(Asked') - 1
  <2>1. k \in 1..Len(Asked) \/ k = Len(Asked) + 1 \/ k = Len(Asked) + 2
    BY <1>12
  <2>2. CASE k \in 1..Len(Asked)
    <3>1. Asked'[k].line.id \in Nat /\ Asked'[k].line.id <= id
      BY <1>12, <1>14, <2>2
    <3> QED
      BY <1>1, <1>3, <1>12, <2>2, <3>1
  <2>3. CASE k = Len(Asked) + 1 \/ k = Len(Asked) + 2
    <3>1. Asked'[k].line.id = id + 1
      BY <1>12, <1>13, <2>3
    <3> QED
      BY <1>1, <1>3, <1>12, <2>3, <3>1
  <2> QED
    BY <2>1, <2>2, <2>3
<1>16. OldIds' /\ Queued'
  <2>1. Len(Asked') >= 2
    BY <1>12
  <2> QED
    BY <1>15, <2>1 DEF OldIds, Queued
<1>17. Overdue => Overdue'
  BY <1>1 DEF Overdue
<1>18. Idle => Requested'
  <2> SUFFICES ASSUME Idle
               PROVE  Requested'
    OBVIOUS
  <2>1. NoReply'
    <3>1. OneLine /\ NoReply
      BY DEF Idle, NoReply
    <3>2. CASE tx' = tx
      <4>1. Coming' = Coming
        BY <1>1, <3>2 DEF Coming
      <4> QED
        BY <3>1, <4>1 DEF NoReply, OneLine
    <3>3. CASE tx' = <<>> /\ out = <<>>
      BY <1>1, <3>3, NoLine
    <3> QED
      BY <1>1, <3>1, <3>2, <3>3, LineEnds
  <2>2. Asked' = fr
    BY <1>5, <1>9, ConcatEmptySeq DEF Idle
  <2> QED
    BY <1>6, <2>1, <2>2 DEF Requested
<1>19. AtService'
  BY <1>1, <1>2 DEF AtService, Waiting, ThisService
<1> QED
  BY <1>1, <1>2, <1>11, <1>16, <1>17, <1>18, <1>19
     DEF LineInv, NotYetAsked, AtRest, InFlight, NoEnd, Early

LEMMA LineBoundary ==
  ASSUME CaptureTyped, LineInv, Boundary
  PROVE  CaptureTyped' /\ LineInv'
<1> DEFINE R == LineUnits(Requests)
<1>1. /\ pc = "boundary" /\ fifo' = PumpFifo(pend, fifo) /\ pend' = PumpRest(pend, fifo)
      /\ UNCHANGED <<svc, cursor, raw, id, tx, inbuf, out, schema, len, base, fault>>
      /\ IF Overdue THEN pc' = "timeout" ELSE pc' = "poll"
  BY DEF Boundary, Pump, agentVars, pageVars, Overdue
<1>2. inbuf \in Seq(R) /\ fifo \in Seq(R) /\ pend \in Seq(R) /\ Len(fifo) <= FifoSize
  BY DEF CaptureTyped
<1> HIDE DEF R
<1>3. /\ fifo' \in Seq(R) /\ pend' \in Seq(R) /\ Len(fifo') <= FifoSize
      /\ fifo' \o pend' = fifo \o pend
  BY <1>1, <1>2, PumpKeeps
<1>4. CaptureTyped'
  BY <1>1, <1>3 DEF CaptureTyped, R
<1>5. Asked' = Asked /\ Coming' = Coming
  <2>1. \A c, d \in Seq(R) : (inbuf \o c) \o d = inbuf \o (c \o d)
    BY <1>2, Assoc, SMTT(30)
  <2>2. (inbuf \o fifo') \o pend' = inbuf \o (fifo' \o pend')
    BY <1>3, <2>1, Zenon
  <2>3. (inbuf \o fifo) \o pend = inbuf \o (fifo \o pend)
    BY <1>2, <2>1, Zenon
  <2> QED
    BY <1>1, <1>3, <2>2, <2>3 DEF Asked, Coming
<1>6. Overdue => Overdue'
  BY <1>1 DEF Overdue
<1>7. Requested => Requested'
  BY <1>1, <1>5 DEF Requested, NoReply, OneLine, Frame, Request, ThisService
<1>8. Replied => Replied'
  BY <1>1, <1>5 DEF Replied, OneLine, Answers, ThisService
<1>9. OldIds' /\ AtService'
  BY <1>1, <1>5 DEF LineInv, OldIds, AtService, Waiting, ThisService
<1> QED
  BY <1>1, <1>4, <1>6, <1>7, <1>8, <1>9
     DEF LineInv, NotYetAsked, AtRest, InFlight, NoEnd, Early

LEMMA LineEnters ==
  ASSUME CaptureTyped, LineInv, Enter
  PROVE  CaptureTyped' /\ LineInv'
<1>1. /\ pc = "poll" /\ LastEnd(tx) = 0 /\ tx' = Capped(tx) /\ pc' \in {"guest", "dead"}
      /\ UNCHANGED <<svc, cursor, raw, id, pend, fifo, inbuf, out, schema, len, base>>
      /\ fault \subseteq fault'
  BY DEF Enter, agentVars, pageVars
<1>2. (Requested \/ Replied) /\ OneLine
  BY <1>1 DEF LineInv, InFlight, Requested, Replied, NoReply
<1>3. \A k \in 1..Len(tx) : ~IsLast(tx[k])
  BY <1>1, <1>2, LineEnds
<1>4. tx' = tx
  <2>1. Len(tx) <= TxCap /\ Len(tx) \in Nat /\ TxCap \in Nat
    BY <1>2, Streams, CaptureAssumption DEF OneLine
  <2> QED
    BY <1>1, <2>1 DEF Capped
<1>5. UNCHANGED <<svc, cursor, id, base, len, pend, fifo, inbuf, tx, out>>
  BY <1>1, <1>4
<1>6. (Requested' \/ Replied') /\ Asked' = Asked
  BY <1>1, <1>2, <1>5, SameLine
<1>7. CaptureTyped'
  BY <1>1, <1>4 DEF CaptureTyped
<1>8. OldIds' /\ AtService'
  BY <1>1, <1>6 DEF LineInv, OldIds, AtService, Waiting, ThisService
<1>9. NoEnd'
  BY <1>3, <1>4 DEF NoEnd
<1> QED
  BY <1>1, <1>6, <1>7, <1>8, <1>9 DEF LineInv, NotYetAsked, AtRest, InFlight, Early

\* One line from the agent: an event is dropped, the reply ends the wait.
LEMMA LinePolls ==
  ASSUME CaptureTyped, LineInv, PollLine
  PROVE  CaptureTyped' /\ LineInv'
<1> DEFINE l == tx[1].line
<1>1. /\ pc = "poll" /\ LastEnd(tx) > 0 /\ tx' = From(tx, FirstEnd(tx))
      /\ UNCHANGED <<id, pend, fifo, inbuf, out, schema, len, base, fault>>
  BY DEF PollLine, agentVars
<1>2. /\ svc <= Len(ServiceSeq) /\ OldIds /\ AtService /\ (Requested \/ Replied)
      /\ svc > 0 => cursor <= len[ThisService]
  BY <1>1 DEF LineInv, InFlight, AtService, Waiting
<1>3. OneLine
  BY <1>2 DEF Requested, Replied, NoReply
<1>4. /\ tx # <<>> /\ out = <<>> /\ Coming = tx /\ tx' = <<>> /\ Decodes(tx)
  BY <1>1, <1>3, LineEnds
<1>5. NoReply' /\ out' = <<>> /\ Asked' = Asked /\ OldIds'
  <2>1. Asked' = Asked
    BY <1>1 DEF Asked
  <2> QED
    BY <1>1, <1>2, <1>4, <2>1, NoLine DEF OldIds
<1>6. id \in Nat /\ svc \in Nat /\ cursor \in Nat /\ raw \in Seq(Nat)
  BY DEF CaptureTyped
<1>7. <<>> \in Seq(LineUnits(Replies \cup Events))
  BY EmptySeq
<1>8. CASE Requested
  <2>1. l.id = None
    BY <1>4, <1>8 DEF Requested, NoReply, Events
  <2>2. l.id # id
    BY <1>6, <2>1, CaptureAssumption
  <2>3. UNCHANGED <<pc, svc, cursor, raw>>
    BY <2>2 DEF PollLine, Ours
  <2>4. CaptureTyped'
    BY <1>1, <1>4, <1>7, <2>3 DEF CaptureTyped
  <2>5. Requested'
    BY <1>1, <1>5, <1>8, <2>3 DEF Requested, Frame, Request, ThisService
  <2>6. AtService'
    BY <1>1, <1>2, <2>3 DEF AtService, ThisService
  <2> QED
    BY <1>1, <1>5, <2>3, <2>4, <2>5, <2>6
       DEF LineInv, NotYetAsked, AtRest, InFlight, NoEnd, Early
<1>9. CASE Replied
  <2>1. /\ l \in Replies /\ l.id = id /\ Asked = <<>>
        /\ svc > 0 /\ l.ok => l.next <= len[ThisService]
    BY <1>4, <1>9 DEF Replied, Answers
  <2>2. l.next \in Nat /\ l.data \in Seq(Nat)
    BY <2>1 DEF Replies
  <2>3. OnPing(l) \/ OnPage(l)
    BY <1>4, <2>1 DEF PollLine, Ours
  <2>4. Idle'
    BY <1>5, <2>1 DEF Idle
  <2>5. CASE OnPing(l) /\ Advance
    <3>1. /\ svc' \in svc + 1..Len(ServiceSeq) + 1 /\ cursor' = 0 /\ raw' = <<>>
      <4>1. svc \in 0..Len(ServiceSeq)
        BY <1>2, <1>6, CaptureAssumption, LenProperties
      <4> QED
        BY <2>5, <4>1, NextServiceIs DEF Advance
    <3>2. pc' = IF svc' > Len(ServiceSeq) THEN "finish" ELSE "ask"
      BY <2>5 DEF Advance
    <3>3. Len(ServiceSeq) \in Nat
      BY CaptureAssumption, LenProperties
    <3>4. CaptureTyped'
      BY <1>1, <1>4, <1>6, <1>7, <3>1, <3>3 DEF CaptureTyped
    <3>5. svc' <= Len(ServiceSeq) => cursor' <= len'[ThisService']
      <4>1. svc' <= Len(ServiceSeq) => svc' \in 1..Len(ServiceSeq)
        BY <1>6, <3>1, <3>3
      <4>2. ServiceSeq \in Seq(Services)
        BY CaptureAssumption
      <4>3. svc' <= Len(ServiceSeq) => ThisService' \in Services
        BY <4>1, <4>2, ElementOfSeq DEF ThisService
      <4>4. svc' <= Len(ServiceSeq) => len'[ThisService'] \in Nat
        BY <3>4, <4>3 DEF CaptureTyped
      <4> QED
        BY <3>1, <4>4
    <3>6. svc' > Len(ServiceSeq) \/ svc' <= Len(ServiceSeq)
      BY <1>6, <3>1, <3>3
    <3> QED
      BY <1>5, <2>4, <3>2, <3>4, <3>5, <3>6
         DEF LineInv, NotYetAsked, AtService, AtRest, InFlight, NoEnd, Early, Waiting
  <2>6. CASE OnPing(l) /\ pc' = "finish" /\ UNCHANGED <<svc, cursor, raw>>
    <3>1. CaptureTyped'
      BY <1>1, <1>4, <1>7, <2>6 DEF CaptureTyped
    <3> QED
      BY <1>5, <2>6, <3>1
         DEF LineInv, NotYetAsked, AtService, AtRest, InFlight, NoEnd, Early, Waiting
  <2>7. CASE OnPage(l)
    <3>1. /\ svc > 0 /\ svc' = svc /\ pc' \in {"close", "ask"}
          /\ raw' = raw \/ raw' = raw \o l.data
          /\ cursor' = cursor \/ (l.ok /\ cursor' = l.next)
      BY <2>7 DEF OnPage, NextCursor
    <3>2. raw' \in Seq(Nat) /\ cursor' \in Nat
      BY <1>6, <2>2, <3>1, ConcatProperties
    <3>3. CaptureTyped'
      BY <1>1, <1>4, <1>7, <3>1, <3>2 DEF CaptureTyped
    <3>4. cursor' <= len'[ThisService'] /\ svc' <= Len(ServiceSeq)
      BY <1>1, <1>2, <2>1, <3>1 DEF ThisService
    <3> QED
      BY <1>5, <2>4, <3>1, <3>3, <3>4
         DEF LineInv, NotYetAsked, AtService, AtRest, InFlight, NoEnd, Early, Waiting
  <2> QED
    BY <2>3, <2>5, <2>6, <2>7 DEF OnPing
<1> QED
  BY <1>2, <1>8, <1>9

\* In the guest, tx holds no whole line; without anything to write, nothing.
LEMMA InGuest ==
  ASSUME CaptureTyped, LineInv, pc = "guest"
  PROVE  /\ (Requested \/ Replied) /\ From(tx, LastEnd(tx)) = tx
         /\ svc <= Len(ServiceSeq) /\ (svc > 0 => cursor <= len[ThisService])
         /\ OldIds
         /\ out = <<>> => tx = <<>> /\ Requested
<1>1. /\ Requested \/ Replied
      /\ \A k \in 1..Len(tx) : ~IsLast(tx[k])
      /\ svc <= Len(ServiceSeq) /\ (svc > 0 => cursor <= len[ThisService])
      /\ OldIds
  BY DEF LineInv, InFlight, NoEnd, AtService, Waiting
<1>2. From(tx, LastEnd(tx)) = tx
  BY <1>1, LastEndIs DEF CaptureTyped
<1>3. OneLine
  BY <1>1 DEF Requested, Replied, NoReply
<1>4. out = <<>> => tx = <<>>
  BY <1>1, <1>3, LineEnds
<1>5. out = <<>> => Coming = <<>>
  BY <1>4 DEF Coming
<1> QED
  BY <1>1, <1>2, <1>4, <1>5 DEF Replied

LEMMA LineHalts ==
  ASSUME CaptureTyped, LineInv, Halt
  PROVE  CaptureTyped' /\ LineInv'
<1>1. pc = "guest" /\ pc' = "parked" /\ tx' = From(tx, LastEnd(tx)) /\ fault' = fault
  BY DEF Halt
<1>2. tx' = tx
  BY <1>1, InGuest
<1>3. UNCHANGED lineVars /\ len' = len
  BY <1>2 DEF Halt, agentVars, pageVars, lineVars
<1> QED
  BY <1>1, <1>3, LineQuiet DEF Early, Waiting

\* A container logs: the reply on its way stays one to the request.
LEMMA LineLogs ==
  ASSUME CaptureTyped, LineInv, NEW s \in Services, ContainerLogs(s)
  PROVE  CaptureTyped' /\ LineInv'
<1>1. /\ pc = "guest" /\ pc' = pc /\ len' = [len EXCEPT ![s] = @ + 1]
      /\ UNCHANGED <<svc, cursor, raw, id, base, pend, fifo, inbuf, tx, out, schema, fault>>
  BY DEF ContainerLogs, GuestStep, pageVars
<1>2. /\ len' \in [Services -> Nat]
      /\ \A x \in Services : len[x] \in Nat /\ base[x] \in Nat /\ len[x] <= len'[x]
      /\ \A x \in Services : base[x] <= len'[x]
  BY <1>1 DEF CaptureTyped
<1>3. CaptureTyped'
  BY <1>1, <1>2 DEF CaptureTyped
<1>4. /\ Requested \/ Replied
      /\ svc <= Len(ServiceSeq) /\ (svc > 0 => cursor <= len[ThisService])
      /\ OldIds /\ NoEnd
  BY <1>1, InGuest DEF LineInv
<1>5. svc > 0 => ThisService \in Services
  BY <1>4, ServiceAtHand DEF CaptureTyped
<1>6. Asked' = Asked /\ Coming' = Coming
  BY <1>1 DEF Asked, Coming
<1>7. Requested => Requested'
  BY <1>1, <1>6 DEF Requested, NoReply, OneLine, Frame, Request, ThisService
<1>8. ASSUME NEW l, Answers(l)
      PROVE  Answers(l)'
  <2>1. l.next \in Nat
    BY <1>8 DEF Answers, Replies
  <2>2. svc > 0 /\ l.ok => l.next <= len'[ThisService]
    BY <1>2, <1>5, <1>8, <2>1 DEF Answers
  <2> QED
    BY <1>1, <1>8, <2>2 DEF Answers, ThisService
<1>9. Replied => Replied'
  BY <1>6, <1>8 DEF Replied, OneLine
<1>10. svc > 0 => cursor <= len'[ThisService]
  BY <1>2, <1>4, <1>5 DEF CaptureTyped
<1>11. OldIds' /\ AtService' /\ NoEnd'
  BY <1>1, <1>4, <1>6, <1>10 DEF OldIds, AtService, NoEnd, ThisService
<1> QED
  BY <1>1, <1>3, <1>4, <1>7, <1>9, <1>11
     DEF LineInv, NotYetAsked, AtRest, InFlight, Early

LEMMA LineEvent ==
  ASSUME CaptureTyped, LineInv, AgentEvent
  PROVE  CaptureTyped' /\ LineInv'
<1>1. /\ pc = "guest" /\ pc' = pc /\ out = <<>>
      /\ UNCHANGED <<svc, cursor, raw, id, base, len, pend, fifo, inbuf, tx, schema, fault>>
  BY DEF AgentEvent, GuestStep, pageVars
<1>2. PICK kind \in {"event", "finish"} : out' = Units(EventLine(kind), 1)
  BY DEF AgentEvent
<1>3. /\ tx = <<>> /\ Requested /\ OldIds
      /\ svc <= Len(ServiceSeq) /\ (svc > 0 => cursor <= len[ThisService])
  BY <1>1, InGuest
<1>4. EventLine(kind) \in Events /\ EventLine(kind) \in Replies \cup Events
  BY DEF EventLine, Events
<1>5. 1 \in 0..TxCap
  <2>1. Escape * ChunkBytes \in Nat
    BY CaptureAssumption
  <2> QED
    BY <2>1, CaptureAssumption, SMTT(30)
<1>6. /\ tx' \in Seq(LineUnits(Replies \cup Events)) /\ out' \in Seq(LineUnits(Replies \cup Events))
      /\ OneLine' /\ Coming'[1].line = EventLine(kind)
  <2>1. tx' = <<>> /\ 1 > 0
    BY <1>1, <1>3
  <2> QED
    BY <1>2, <1>4, <1>5, <2>1, NewLine
<1>7. CaptureTyped'
  BY <1>1, <1>6 DEF CaptureTyped
<1>8. Asked' = Asked
  BY <1>1 DEF Asked
<1>9. Requested'
  BY <1>1, <1>3, <1>4, <1>6, <1>8 DEF Requested, NoReply, Frame, Request, ThisService
<1>10. OldIds' /\ AtService' /\ NoEnd'
  BY <1>1, <1>3, <1>8 DEF OldIds, AtService, NoEnd, ThisService
<1> QED
  BY <1>1, <1>7, <1>9, <1>10 DEF LineInv, NotYetAsked, AtRest, InFlight, Early

\* A unit passes from the FIFO to the agent, or from the agent to COM2's writer.
LEMMA LineMoves ==
  ASSUME CaptureTyped, LineInv, AgentReads \/ AgentWrites
  PROVE  CaptureTyped' /\ LineInv'
<1> DEFINE R == LineUnits(Requests)
           U == LineUnits(Replies \cup Events)
<1>1. /\ pc = "guest" /\ pc' = "boundary"
      /\ UNCHANGED <<svc, cursor, raw, id, base, len, pend, schema, fault>>
  BY DEF AgentReads, AgentWrites, GuestStep, pageVars
<1>2. /\ inbuf \in Seq(R) /\ fifo \in Seq(R) /\ pend \in Seq(R) /\ Len(fifo) <= FifoSize
      /\ tx \in Seq(U) /\ out \in Seq(U)
  BY DEF CaptureTyped
<1> HIDE DEF R, U
<1>3. /\ inbuf' \in Seq(R) /\ fifo' \in Seq(R) /\ Len(fifo') <= FifoSize
      /\ tx' \in Seq(U) /\ out' \in Seq(U)
      /\ Asked' = Asked /\ Coming' = Coming
  <2>1. CASE AgentReads
    <3>1. /\ fifo # <<>> /\ inbuf' = Append(inbuf, Head(fifo)) /\ fifo' = Tail(fifo)
          /\ UNCHANGED <<tx, out>>
      BY <2>1 DEF AgentReads
    <3>2. inbuf' \in Seq(R) /\ fifo' \in Seq(R) /\ inbuf' \o fifo' = inbuf \o fifo
      BY <1>2, <3>1, MoveHead
    <3>3. Len(fifo') <= FifoSize
      <4>1. Len(fifo') = Len(fifo) - 1 /\ Len(fifo) \in Nat
        BY <1>2, <3>1, HeadTailProperties, LenProperties
      <4> QED
        BY <1>2, <4>1, CaptureAssumption
    <3> QED
      BY <1>1, <1>2, <3>1, <3>2, <3>3 DEF Asked, Coming
  <2>2. CASE AgentWrites
    <3>1. /\ out # <<>> /\ tx' = Append(tx, Head(out)) /\ out' = Tail(out)
          /\ UNCHANGED <<inbuf, fifo>>
      BY <2>2 DEF AgentWrites, Sink
    <3>2. tx' \in Seq(U) /\ out' \in Seq(U) /\ tx' \o out' = tx \o out
      BY <1>2, <3>1, MoveHead
    <3> QED
      BY <1>1, <1>2, <3>1, <3>2 DEF Asked, Coming
  <2> QED
    BY <2>1, <2>2
<1>4. CaptureTyped'
  BY <1>1, <1>3 DEF CaptureTyped, R, U
<1>5. /\ Requested \/ Replied
      /\ svc <= Len(ServiceSeq) /\ (svc > 0 => cursor <= len[ThisService]) /\ OldIds
  BY <1>1, InGuest
<1>6. Requested => Requested'
  BY <1>1, <1>3 DEF Requested, NoReply, OneLine, Frame, Request, ThisService
<1>7. Replied => Replied'
  BY <1>1, <1>3 DEF Replied, OneLine, Answers, ThisService
<1>8. OldIds' /\ AtService'
  BY <1>1, <1>3, <1>5 DEF OldIds, AtService, ThisService
<1> QED
  BY <1>1, <1>4, <1>5, <1>6, <1>7, <1>8
     DEF LineInv, NotYetAsked, AtRest, InFlight, NoEnd, Early

\* Escaping multiplies a chunk by at most Escape.
LEMMA ReplyFits ==
  ASSUME NEW e \in 1..Escape, NEW d \in 0..ChunkBytes
  PROVE  e * d + 1 \in 1..TxCap
<1>1. \A a, b, c, f \in Nat : a <= b /\ c <= f => a * c \in Nat /\ a * c <= b * f
  <2> SUFFICES ASSUME NEW a \in Nat, NEW b \in Nat, NEW c \in Nat, NEW f \in Nat,
                      a <= b, c <= f
               PROVE  a * c \in Nat /\ a * c <= b * f
    OBVIOUS
  <2>1. a * c \in Nat /\ a * f \in Nat /\ b * f \in Nat
    OBVIOUS
  <2>2. a * c <= a * f
    OBVIOUS
  <2>3. a * f <= b * f
    OBVIOUS
  <2> QED
    BY <2>1, <2>2, <2>3
<1>2. /\ e \in Nat /\ d \in Nat /\ Escape \in Nat /\ ChunkBytes \in Nat /\ TxCap \in Nat
      /\ e <= Escape /\ d <= ChunkBytes /\ Escape * ChunkBytes + 1 <= TxCap
  BY CaptureAssumption
<1>3. e * d \in Nat /\ e * d <= Escape * ChunkBytes /\ Escape * ChunkBytes \in Nat
  BY <1>1, <1>2
<1> QED
  BY <1>2, <1>3

\* from_utf8_lossy on a chunk: a byte is kept, or was part of a cut character.
LEMMA LossyIs ==
  ASSUME NEW c \in Nat, NEW n \in Nat
  PROVE  /\ Lossy(c, n) \in Seq(Nat) /\ Len(Lossy(c, n)) = n
         /\ \A k \in 1..n : Faithful(Lossy(c, n)[k], c + k)
<1> DEFINE cut(k) == (k = 1 /\ c + k - 1 \in Wide) \/ (k = n /\ c + k \in Wide)
           v(k) == IF cut(k) THEN Lost ELSE c + k
<1>1. Lossy(c, n) = [k \in 1..n |-> v(k)]
  BY DEF Lossy
<1>2. \A k \in 1..n : v(k) \in Nat
  BY DEF Lost
<1>3. ASSUME NEW k \in 1..n
      PROVE  Faithful(v(k), c + k)
  <2>1. CASE cut(k)
    BY <2>1 DEF Faithful
  <2>2. CASE ~cut(k)
    BY <2>2 DEF Faithful
  <2> QED
    BY <2>1, <2>2
<1> HIDE DEF v
<1> QED
  BY <1>1, <1>2, <1>3

\* read_log_chunk: the reply to a request for the page at the cursor.
LEMMA LogReplyIs ==
  ASSUME CaptureTyped, svc > 0, svc <= Len(ServiceSeq), cursor <= len[ThisService],
         NEW req \in Requests, req.id = id, req.svc = ThisService, req.cursor = cursor
  PROVE  /\ Answers(LogReply(req)) /\ Len(LogReply(req).data) \in 0..ChunkBytes
<1> DEFINE L == len[ThisService]
           left == IF L > cursor THEN L - cursor ELSE 0
           n == IF left < ChunkBytes THEN left ELSE ChunkBytes
           data == Lossy(cursor, n)
           rep == LogReply(req)
<1>1. ThisService \in Services
  BY ServiceAtHand DEF CaptureTyped
<1>2. L \in Nat /\ cursor \in Nat /\ id \in Nat /\ base[ThisService] \in Nat /\ base[ThisService] <= L
  BY <1>1 DEF CaptureTyped
<1>3. ChunkBytes \in Nat /\ ChunkBytes > 0
  BY CaptureAssumption
<1> HIDE DEF L
<1>4. /\ n \in Nat /\ n <= ChunkBytes /\ cursor + n <= L
      /\ n < ChunkBytes => cursor + n = L
  BY <1>2, <1>3 DEF L
<1>5. rep = [id |-> id, kind |-> "reply", ok |-> TRUE, schema |-> schema, data |-> data,
             next |-> cursor + Len(data), eof |-> n < ChunkBytes]
  BY DEF LogReply, Reply, ReadCap, Eof, L
<1> HIDE DEF n
<1>6. /\ data \in Seq(Nat) /\ Len(data) = n
      /\ \A k \in 1..n : Faithful(data[k], cursor + k)
  BY <1>2, <1>4, LossyIs
<1> HIDE DEF data
<1>7. rep \in Replies
  <2>1. schema \in {1, 2}
    BY DEF CaptureTyped
  <2> QED
    BY <1>2, <1>4, <1>5, <1>6, <2>1 DEF Replies
<1>8. rep.next = cursor + Len(rep.data) /\ rep.next <= L /\ rep.data = data
  BY <1>4, <1>5, <1>6
<1>9. (rep.eof => rep.next >= base[ThisService]) /\ (~rep.eof => rep.next > cursor)
  <2>1. rep.next = cursor + n
    BY <1>5, <1>6
  <2>4. rep.eof = (n < ChunkBytes)
    BY <1>5
  <2>2. n < ChunkBytes => cursor + n >= base[ThisService]
    BY <1>2, <1>4
  <2>3. ~(n < ChunkBytes) => cursor + n > cursor
    BY <1>2, <1>3, <1>4
  <2> QED
    BY <2>1, <2>2, <2>3, <2>4, Zenon
<1>10. rep.ok /\ rep.id = id
  BY <1>5
<1> HIDE DEF rep
<1>11. Answers(rep)
  BY <1>6, <1>7, <1>8, <1>9, <1>10 DEF Answers, L
<1> QED
  BY <1>3, <1>4, <1>6, <1>8, <1>11 DEF rep

\* A whole request in inbuf is the whole of what was asked.
LEMMA RequestRead ==
  ASSUME CaptureTyped, svc <= Len(ServiceSeq), Requested, LastEnd(inbuf) > 0
  PROVE  fifo = <<>> /\ pend = <<>> /\ Last(inbuf).line = Request(id)
<1> DEFINE R == LineUnits(Requests)
           e == LastEnd(inbuf)
<1>1. inbuf \in Seq(R) /\ fifo \in Seq(R) /\ pend \in Seq(R) /\ id \in Nat
  BY DEF CaptureTyped
<1>2. Request(id) \in Requests
  BY <1>1, RequestIs
<1>3. /\ Len(Asked) = 2 /\ Asked[1] = Unit(Request(id), 1, 2)
      /\ Asked[2] = Unit(Request(id), 2, 2)
  BY <1>2, FrameIs DEF Requested
<1>4. e \in 1..Len(inbuf) /\ IsLast(inbuf[e])
  BY <1>1, LastEndIs
<1> HIDE DEF R, e
<1>5. /\ Len(inbuf) \in Nat /\ Len(fifo) \in Nat /\ Len(pend) \in Nat
      /\ Len(inbuf) + Len(fifo) + Len(pend) = 2
  BY <1>3, Streams
<1>6. \A k \in 1..Len(inbuf) : Asked[k] = inbuf[k]
  <2>1. /\ inbuf \o fifo \in Seq(R) /\ Len(inbuf \o fifo) = Len(inbuf) + Len(fifo)
        /\ \A k \in 1..Len(inbuf) : (inbuf \o fifo)[k] = inbuf[k]
    BY <1>1
  <2>2. \A k \in 1..Len(inbuf) + Len(fifo) : Asked[k] = (inbuf \o fifo)[k]
    BY <1>1, <1>5, <2>1 DEF Asked
  <2> QED
    BY <1>5, <2>1, <2>2
<1>7. e # 1
  <2>1. ~IsLast(Asked[1])
    BY <1>3 DEF IsLast, Unit
  <2> QED
    BY <1>4, <1>6, <2>1
<1>8. Len(inbuf) = 2 /\ Len(fifo) = 0 /\ Len(pend) = 0
  <2>1. e \in 1..Len(inbuf)
    BY <1>4
  <2>2. Len(inbuf) >= 2
    BY <1>5, <1>7, <2>1
  <2>3. \A a, b, c \in Nat : a + b + c = 2 /\ a >= 2 => a = 2 /\ b = 0 /\ c = 0
    OBVIOUS
  <2> QED
    BY <1>5, <2>2, <2>3, Zenon
<1>9. Last(inbuf) = Asked[2]
  BY <1>6, <1>8 DEF Last
<1> QED
  BY <1>1, <1>3, <1>8, <1>9, EmptySeq DEF Unit

LEMMA LineAnswers ==
  ASSUME CaptureTyped, LineInv, AgentHandles
  PROVE  CaptureTyped' /\ LineInv'
<1> DEFINE req == Last(inbuf).line
<1>1. /\ pc = "guest" /\ pc' = pc /\ out = <<>> /\ LastEnd(inbuf) > 0 /\ inbuf' = <<>>
      /\ UNCHANGED <<svc, cursor, raw, id, base, len, pend, fifo, tx, schema>>
      /\ fault \subseteq fault'
  BY DEF AgentHandles, GuestStep, pageVars
<1>2. /\ tx = <<>> /\ Requested
      /\ svc <= Len(ServiceSeq) /\ (svc > 0 => cursor <= len[ThisService])
  BY <1>1, InGuest
<1>3. fifo = <<>> /\ pend = <<>> /\ req = Request(id)
  BY <1>1, <1>2, RequestRead
<1>4. id \in Nat /\ svc \in Nat /\ cursor \in Nat /\ schema \in {1, 2}
  BY DEF CaptureTyped
<1>5. /\ req \in Requests /\ req.id = id /\ req.op = IF svc = 0 THEN "ping" ELSE "logs"
      /\ svc > 0 => req.svc = ThisService /\ req.cursor = cursor
  BY <1>2, <1>3, <1>4, RequestIs
<1>6. ASSUME NEW ok \in BOOLEAN, NEW eof \in BOOLEAN
      PROVE  /\ Reply(req, ok, <<>>, eof) \in Replies /\ Reply(req, ok, <<>>, eof).id = id
             /\ Reply(req, ok, <<>>, eof).ok = ok
  <2>1. req.cursor \in Nat /\ req.cursor + Len(<<>>) = req.cursor /\ <<>> \in Seq(Nat)
    BY <1>5 DEF Requests
  <2> QED
    BY <1>4, <1>5, <2>1 DEF Reply, Replies
<1>7. ASSUME NEW l \in Replies, l.id = id, Answers(l) \/ svc = 0 \/ (~l.ok /\ fault' # {})
      PROVE  Answers(l)'
  <2>1. svc' = svc /\ cursor' = cursor /\ len' = len /\ base' = base /\ id' = id
    BY <1>1
  <2> QED
    BY <1>1, <1>4, <1>7, <2>1 DEF Answers, ThisService
<1>8. \E l \in Replies : \E n \in 1..TxCap : Answers(l)' /\ out' = Units(l, n)
  <2>1. 1 \in 1..TxCap
    <3>1. Escape * ChunkBytes \in Nat
      BY CaptureAssumption
    <3> QED
      BY <3>1, CaptureAssumption, SMTT(30)
  <2>2. CASE req.op = "ping" /\ out' = Units(Reply(req, TRUE, <<>>, FALSE), 1)
    <3>1. svc = 0
      BY <1>5, <2>2
    <3>2. PICK l \in Replies : l = Reply(req, TRUE, <<>>, FALSE)
      BY <1>6
    <3>3. l.id = id
      BY <1>6, <3>2
    <3>4. Answers(l)'
      BY <1>7, <3>1, <3>3
    <3> QED
      BY <2>1, <2>2, <3>2, <3>4
  <2>3. CASE /\ req.op = "logs"
             /\ \E e \in 1..Escape : out' = Units(LogReply(req), e * Len(LogReply(req).data) + 1)
    <3>1. svc > 0
      BY <1>4, <1>5, <2>3
    <3>2. Answers(LogReply(req)) /\ Len(LogReply(req).data) \in 0..ChunkBytes
      BY <1>2, <1>5, <3>1, LogReplyIs
    <3>3. LogReply(req) \in Replies /\ LogReply(req).id = id
      BY <3>2 DEF Answers
    <3>7. PICK l \in Replies : l = LogReply(req)
      BY <3>3
    <3>4. Answers(l)'
      BY <1>7, <3>2, <3>3, <3>7
    <3>5. PICK e \in 1..Escape : out' = Units(LogReply(req), e * Len(LogReply(req).data) + 1)
      BY <2>3
    <3>6. e * Len(LogReply(req).data) + 1 \in 1..TxCap
      BY <3>2, ReplyFits
    <3> QED
      BY <3>4, <3>5, <3>6, <3>7
  <2>4. CASE /\ req.op = "logs" /\ out' = Units(Reply(req, FALSE, <<>>, FALSE), 1)
             /\ fault' = fault \cup {"podman"}
    <3>1. fault' # {}
      BY <2>4
    <3>2. PICK l \in Replies : l = Reply(req, FALSE, <<>>, FALSE)
      BY <1>6
    <3>3. l.id = id /\ ~l.ok
      BY <1>6, <3>2
    <3>4. Answers(l)'
      BY <1>7, <3>1, <3>3
    <3> QED
      BY <2>1, <2>4, <3>2, <3>4
  <2> QED
    BY <2>2, <2>3, <2>4 DEF AgentHandles
<1>9. PICK l \in Replies, n \in 1..TxCap : Answers(l)' /\ out' = Units(l, n)
  BY <1>8
<1>10. /\ tx' \in Seq(LineUnits(Replies \cup Events)) /\ out' \in Seq(LineUnits(Replies \cup Events))
       /\ OneLine' /\ Coming' # <<>> /\ Coming'[1].line = l
  <2>1. tx' = <<>> /\ n \in 0..TxCap /\ n > 0 /\ l \in Replies \cup Events
    BY <1>1, <1>2, CaptureAssumption
  <2> QED
    BY <1>9, <2>1, NewLine
<1>11. Asked' = <<>>
  BY <1>1, <1>3 DEF Asked
<1>12. CaptureTyped'
  BY <1>1, <1>10 DEF CaptureTyped
<1>13. Replied'
  BY <1>9, <1>10, <1>11 DEF Replied
<1>14. OldIds' /\ AtService' /\ NoEnd'
  BY <1>1, <1>2, <1>11 DEF OldIds, AtService, NoEnd, ThisService
<1> QED
  BY <1>1, <1>12, <1>13, <1>14 DEF LineInv, NotYetAsked, AtRest, InFlight, Early

LEMMA LineInit == Init => CaptureTyped /\ LineInv
<1> SUFFICES ASSUME Init
             PROVE  CaptureTyped /\ LineInv
  OBVIOUS
<1>1. /\ pc = "start" /\ svc = 0 /\ cursor = 0 /\ raw = <<>> /\ id = 0
      /\ pend = <<>> /\ fifo = <<>> /\ tx = <<>> /\ inbuf = <<>> /\ out = <<>>
      /\ schema \in {1, 2} /\ len = [s \in Services |-> 0] /\ base = len
  BY DEF Init
<1>2. FifoSize \in Nat /\ Len(ServiceSeq) \in Nat
  BY CaptureAssumption, LenProperties
<1>3. CaptureTyped
  BY <1>1, <1>2 DEF CaptureTyped
<1>4. Asked = <<>>
  BY <1>1 DEF Asked
<1> QED
  BY <1>1, <1>3, <1>4
     DEF LineInv, NotYetAsked, OldIds, AtService, AtRest, InFlight, NoEnd, Early, Waiting

LEMMA LineNext == CaptureTyped /\ LineInv /\ [Next]_vars => CaptureTyped' /\ LineInv'
<1> SUFFICES ASSUME CaptureTyped, LineInv, [Next]_vars
             PROVE  CaptureTyped' /\ LineInv'
  OBVIOUS
<1>1. CASE UNCHANGED vars
  <2>1. UNCHANGED lineVars /\ len' = len /\ fault' = fault /\ pc' = pc
    BY <1>1 DEF vars, pageVars, agentVars, lineVars
  <2>2. pc = "close" => svc > 0
    BY DEF LineInv, AtService
  <2> QED
    BY <2>1, <2>2, LineQuiet
<1>2. CASE GuestRuns
  BY <1>2, LineHalts, LineBeside, LineEvent, LineMoves, LineAnswers, LineLogs DEF GuestRuns
<1>3. CASE HostStep
  BY <1>3, LineBeside, LineAsks, LineCloses, LineBoundary, LinePolls, LineEnters DEF HostStep
<1> QED
  BY <1>1, <1>2, <1>3, LineBeside, LineStops, LineKilled DEF Next

\* The shapes of the line, counted.
LEMMA LineKept == CaptureTyped /\ LineInv => ReplyIsNeverLost
<1> SUFFICES ASSUME CaptureTyped, LineInv, pc \in Waiting
             PROVE  \/ Cardinality(UnitsOf(Asked)) = 2
                    \/ \E k \in UnitsOf(Coming) : Cardinality(UnitsOf(Coming)) = Coming[k].n
  BY DEF ReplyIsNeverLost, Waiting, Asked, Coming
<1>1. svc <= Len(ServiceSeq) /\ (Requested \/ Replied \/ Queued)
  BY DEF LineInv, AtService, InFlight, Waiting
<1>2. /\ Asked \in Seq(LineUnits(Requests)) /\ Coming \in Seq(LineUnits(Replies \cup Events))
      /\ Len(Asked) \in Nat /\ Len(Coming) \in Nat
      /\ DOMAIN Asked = 1..Len(Asked) /\ DOMAIN Coming = 1..Len(Coming)
  BY Streams, LenProperties
<1>3. ASSUME NEW a \in Nat, NEW b \in Nat, a # b
      PROVE  Cardinality({a, b}) = 2
  <2>1. IsFiniteSet({a}) /\ Cardinality({a}) = 1
    BY FS_Singleton
  <2>2. {a, b} = {a} \cup {b} /\ b \notin {a}
    BY <1>3
  <2>3. Cardinality({a} \cup {b}) = Cardinality({a}) + 1
    BY <2>1, <2>2, FS_AddElement
  <2> QED
    BY <2>1, <2>2, <2>3
<1>4. CASE Requested
  <2>1. id \in Nat
    BY DEF CaptureTyped
  <2>2. Request(id) \in Requests /\ Request(id).id = id
    BY <1>1, <2>1, RequestIs
  <2>5. /\ Len(Asked) = 2 /\ Asked[1] = Unit(Request(id), 1, 2)
        /\ Asked[2] = Unit(Request(id), 2, 2)
    BY <1>4, <2>2, FrameIs DEF Requested
  <2>3. Len(Asked) = 2 /\ Asked[1].line.id = id /\ Asked[2].line.id = id
    BY <2>2, <2>5 DEF Unit
  <2>4. UnitsOf(Asked) = {1, 2}
    BY <1>2, <2>3 DEF UnitsOf
  <2> QED
    BY <1>3, <2>4
<1>5. CASE Queued
  <2> DEFINE n == Len(Asked)
  <2>1. n \in Nat /\ n >= 2 /\ \A k \in 1..n : Asked[k].line.id = id <=> k >= n - 1
    BY <1>2, <1>5 DEF Queued
  <2>2. UnitsOf(Asked) = {k \in 1..n : k >= n - 1}
    BY <1>2, <2>1 DEF UnitsOf
  <2> HIDE DEF n
  <2>3. {k \in 1..n : k >= n - 1} = {n - 1, n} /\ n - 1 \in Nat /\ n - 1 # n
    BY <2>1
  <2> QED
    BY <1>3, <2>1, <2>2, <2>3
<1>6. CASE Replied
  <2> DEFINE n == Len(Coming)
             l == Coming[1].line
  <2>1. l.id = id /\ \A k \in 1..n : Coming[k] = Unit(l, k, n)
    BY <1>6 DEF Replied, OneLine, Answers
  <2>2. n \in Nat /\ n > 0
    BY <1>2, <1>6, EmptySeq DEF Replied
  <2> HIDE DEF n, l
  <2>3. UnitsOf(Coming) = 1..n
    BY <1>2, <2>1 DEF UnitsOf, Unit, n
  <2>4. Cardinality(1..n) = n
    BY <2>2, FS_Interval
  <2>5. 1 \in 1..n
    BY <2>2
  <2>7. Coming[1] = Unit(l, 1, n)
    BY <2>1, <2>5
  <2>6. Coming[1].n = n
    <3>1. \A x, y, z : Unit(x, y, z).n = z
      BY DEF Unit
    <3> QED
      BY <2>7, <3>1
  <2> QED
    BY <2>3, <2>4, <2>5, <2>6
<1> QED
  BY <1>1, <1>4, <1>5, <1>6

\* While the host waits, the request or its reply is on the line, whole, however
\* the FIFO, the pump, the park's drain, the capture buffer's cap and the events
\* of the agent interleave, for any chunk, FIFO and buffer size that keep
\* escape * chunk below the cap (poll_line, drive_until_reply, park_drain_agent,
\* MAX_LOGS_CHUNK_BYTES).
THEOREM ReplyKept == Spec => []ReplyIsNeverLost
<1>1. Init => CaptureTyped /\ LineInv
  BY LineInit
<1> QED
  BY <1>1, LineNext, LineKept, PTL DEF Spec
-----------------------------------------------------------------------------
(* The pages. *)

\* From the first request on, until the capture of the last service is over.
Capturing == Waiting \cup {"ask", "close", "timeout", "dead"}

\* What was captured of the service at hand so far is the log up to the cursor;
\* a service is closed with all of it, or after a warning.
PageInv ==
  /\ svc > 0 /\ pc \in Capturing =>
       /\ \A k \in 1..Len(raw) : Faithful(raw[k], k)
       /\ Len(raw) <= len[ThisService]
       /\ pc # "close" => Len(raw) = cursor
       /\ pc = "close" => Len(raw) >= base[ThisService] \/ ThisService \in warned
  /\ pc = "dead" => fault # {}

\* Logs grow, and so do the warnings.
LEMMA PageQuiet ==
  ASSUME CaptureTyped, LineInv, PageInv, UNCHANGED <<svc, cursor, raw, base>>,
         len' \in [Services -> Nat], \A s \in Services : len[s] <= len'[s],
         warned \subseteq warned', fault \subseteq fault',
         pc' \in Capturing => pc' = pc \/ pc \in Capturing \ {"close"},
         pc' = "close" => pc = "close" \/ ThisService \in warned',
         pc' = "dead" => pc = "dead" \/ fault' # {}
  PROVE  PageInv'
<1>1. pc' = "dead" => fault' # {}
  BY DEF PageInv
<1>2. ASSUME svc > 0, pc' \in Capturing
      PROVE  /\ \A k \in 1..Len(raw) : Faithful(raw[k], k)
             /\ Len(raw) <= len'[ThisService]
             /\ pc' # "close" => Len(raw) = cursor
             /\ pc' = "close" => Len(raw) >= base[ThisService] \/ ThisService \in warned'
  <2>1. pc \in Capturing
    BY <1>2
  <2>2. svc \in Nat /\ svc <= Len(ServiceSeq)
    BY <2>1 DEF CaptureTyped, LineInv, AtService, Capturing
  <2>3. ThisService \in Services
    BY <1>2, <2>2, ServiceAtHand
  <2>4. Len(raw) \in Nat /\ len[ThisService] \in Nat /\ len'[ThisService] \in Nat
    BY <2>3, LenProperties DEF CaptureTyped
  <2>5. /\ \A k \in 1..Len(raw) : Faithful(raw[k], k)
        /\ Len(raw) <= len[ThisService]
        /\ pc # "close" => Len(raw) = cursor
        /\ pc = "close" => Len(raw) >= base[ThisService] \/ ThisService \in warned
    BY <1>2, <2>1 DEF PageInv
  <2>6. Len(raw) <= len'[ThisService]
    BY <2>3, <2>4, <2>5
  <2>7. pc' # "close" => pc # "close"
    BY <1>2 DEF Capturing, Waiting
  <2> QED
    BY <2>5, <2>6, <2>7
<1>3. ThisService' = ThisService
  BY DEF ThisService
<1> QED
  BY <1>1, <1>2, <1>3 DEF PageInv

LEMMA PageBeside ==
  ASSUME CaptureTyped, LineInv, PageInv,
         \/ Prepare \/ ArmsWatchdog \/ Boots \/ RunFails \/ Fatal \/ Finish
         \/ Prints \/ Drains \/ EmitsLine \/ FinishDrains \/ FlushesTail
         \/ GaveUp \/ Aborted \/ ParkHorizon \/ ParkReturns \/ (\E w : BudgetRunsOut(w))
         \/ Ask \/ Boundary \/ Enter \/ GuestRuns
  PROVE  PageInv'
<1>1. UNCHANGED <<svc, cursor, raw, base>>
  BY DEF Prepare, ArmsWatchdog, Boots, RunFails, Fatal, Finish, notYetRunning, Prints, Drains,
     EmitsLine, FinishDrains, FlushesTail, otherThanConsole, GaveUp, Aborted, ParkHorizon,
     ParkReturns, BudgetRunsOut, Ask, Boundary, Enter, GuestRuns, Halt, GuestDies, OtherExit,
     AgentEvent, AgentReads, AgentWrites, AgentHandles, ContainerLogs, GuestStep, pageVars
<1>2. len' = len \/ \E s \in Services : ContainerLogs(s)
  BY DEF Prepare, ArmsWatchdog, Boots, RunFails, Fatal, Finish, notYetRunning, Prints, Drains,
     EmitsLine, FinishDrains, FlushesTail, otherThanConsole, GaveUp, Aborted, ParkHorizon,
     ParkReturns, BudgetRunsOut, Ask, Boundary, Enter, GuestRuns, Halt, GuestDies, OtherExit,
     AgentEvent, AgentReads, AgentWrites, AgentHandles, GuestStep
<1>3. len' \in [Services -> Nat] /\ \A s \in Services : len[s] <= len'[s]
  <2>1. len \in [Services -> Nat]
    BY DEF CaptureTyped
  <2>2. CASE len' = len
    BY <2>1, <2>2
  <2>3. CASE \E s \in Services : ContainerLogs(s)
    <3>1. PICK s \in Services : len' = [len EXCEPT ![s] = @ + 1]
      BY <2>3 DEF ContainerLogs
    <3> QED
      BY <2>1, <3>1
  <2> QED
    BY <1>2, <2>2, <2>3
<1>4. fault \subseteq fault'
  BY DEF Prepare, ArmsWatchdog, Boots, RunFails, Fatal, Finish, notYetRunning, Prints, Drains,
     EmitsLine, FinishDrains, FlushesTail, AppendLine, GaveUp, Aborted, WriteFile, ParkHorizon,
     ParkReturns, BudgetRunsOut, Ask, Boundary, Enter, GuestRuns, Halt, GuestDies, OtherExit,
     AgentEvent, AgentReads, AgentWrites, AgentHandles, ContainerLogs
<1>5. warned \subseteq warned'
  BY DEF Prepare, ArmsWatchdog, Boots, RunFails, Fatal, Finish, notYetRunning, Prints, Drains,
     EmitsLine, FinishDrains, FlushesTail, AppendLine, GaveUp, Aborted, WriteFile, ParkHorizon,
     ParkReturns, BudgetRunsOut, Ask, Boundary, Enter, GuestRuns, Halt, GuestDies, OtherExit,
     AgentEvent, AgentReads, AgentWrites, AgentHandles, ContainerLogs, GuestStep, reportVars
<1>6. /\ pc' \in Capturing => pc' = pc \/ pc \in Capturing \ {"close"}
      /\ pc' = "close" => pc = "close" \/ ThisService \in warned'
      /\ pc' = "dead" => pc = "dead" \/ fault' # {}
  <2>1. CASE Prepare \/ ArmsWatchdog \/ Boots \/ RunFails \/ Fatal \/ Finish
    BY <2>1 DEF Prepare, PrepareLogsDir, ArmsWatchdog, Boots, RunFails, Fatal, Finish, Capturing,
       Waiting
  <2>2. CASE Prints \/ Drains \/ EmitsLine \/ FinishDrains \/ FlushesTail
    BY <2>2 DEF Prints, Drains, EmitsLine, FinishDrains, FlushesTail, Capturing, Waiting
  <2>3. CASE GaveUp \/ Aborted
    BY <2>3 DEF GaveUp, Aborted, Capturing, Waiting
  <2>4. CASE ParkHorizon \/ ParkReturns \/ (\E w : BudgetRunsOut(w)) \/ Ask \/ Boundary \/ Enter
    BY <2>4 DEF ParkHorizon, ParkReturns, BudgetRunsOut, Ask, Boundary, Enter, Capturing, Waiting
  <2>5. CASE GuestRuns
    BY <2>5 DEF GuestRuns, Halt, GuestDies, OtherExit, AgentEvent, AgentReads, AgentWrites,
       AgentHandles, ContainerLogs, GuestStep, Capturing, Waiting
  <2> QED
    BY <2>1, <2>2, <2>3, <2>4, <2>5
<1> QED
  BY <1>1, <1>3, <1>4, <1>5, <1>6, PageQuiet

\* A service begins with nothing captured.
LEMMA PageBegins ==
  ASSUME CaptureTyped, CaptureTyped', Advance, svc <= Len(ServiceSeq)
  PROVE  PageInv'
<1>1. Len(ServiceSeq) \in Nat
  BY CaptureAssumption, LenProperties
<1>2. /\ cursor' = 0 /\ raw' = <<>> /\ pc' = IF svc' > Len(ServiceSeq) THEN "finish" ELSE "ask"
  BY DEF Advance
<1>3. svc' \in Nat
  BY DEF CaptureTyped
<1>4. ASSUME svc' > 0, svc' <= Len(ServiceSeq)
      PROVE  len'[ThisService'] \in Nat
  <2>1. ThisService' \in Services
    <3>1. svc' \in 1..Len(ServiceSeq) /\ ServiceSeq \in Seq(Services)
      BY <1>1, <1>3, <1>4, CaptureAssumption
    <3> QED
      BY <3>1, ElementOfSeq DEF ThisService
  <2> QED
    BY <2>1 DEF CaptureTyped
<1>5. pc' # "finish" => svc' <= Len(ServiceSeq)
  BY <1>1, <1>2, <1>3
<1> QED
  BY <1>2, <1>4, <1>5 DEF PageInv, Capturing, Waiting

\* A line is taken as the reply only if it is the reply.
LEMMA PolledReply ==
  ASSUME CaptureTyped, LineInv, PollLine
  PROVE  \/ UNCHANGED <<pc, svc, cursor, raw, warned>>
         \/ Answers(tx[1].line) /\ (OnPing(tx[1].line) \/ OnPage(tx[1].line))
<1> DEFINE l == tx[1].line
<1>1. pc = "poll" /\ LastEnd(tx) > 0
  BY DEF PollLine
<1>2. OneLine /\ (Requested \/ Replied)
  BY <1>1 DEF LineInv, InFlight, Requested, Replied, NoReply
<1>3. Coming = tx /\ tx # <<>>
  BY <1>1, <1>2, LineEnds
<1>4. CASE Ours(l)
  <2>1. Requested => l.id = None
    BY <1>3 DEF Requested, NoReply, Events
  <2>2. l.id \in Nat
    BY <1>4 DEF Ours, CaptureTyped
  <2>3. Replied
    BY <1>2, <2>1, <2>2, CaptureAssumption
  <2>4. Answers(l)
    BY <1>3, <2>3 DEF Replied
  <2> QED
    BY <2>4 DEF PollLine
<1>5. CASE ~Ours(l)
  BY <1>5 DEF PollLine
<1> QED
  BY <1>4, <1>5

\* A page goes where the last one ended.
LEMMA PageTaken ==
  ASSUME CaptureTyped, LineInv, PageInv, PollLine
  PROVE  PageInv'
<1> DEFINE l == tx[1].line
<1>1. /\ pc = "poll" /\ LastEnd(tx) > 0
      /\ UNCHANGED <<id, len, base, fault>>
  BY DEF PollLine
<1>2. CaptureTyped' /\ LineInv' /\ svc <= Len(ServiceSeq)
  BY <1>1, LinePolls DEF LineInv, AtService, Waiting
<1>5. CASE UNCHANGED <<pc, svc, cursor, raw, warned>>
  BY <1>1, <1>5 DEF PageInv, ThisService
<1>6. CASE OnPing(l)
  <2>1. CASE Advance
    BY <1>2, <2>1, PageBegins
  <2>2. CASE pc' = "finish"
    BY <2>2 DEF PageInv, Capturing, Waiting
  <2> QED
    BY <1>6, <2>1, <2>2 DEF OnPing
<1>7. CASE OnPage(l) /\ Answers(l)
  <2>1. svc > 0 /\ svc' = svc /\ ThisService' = ThisService
    BY <1>7 DEF OnPage, ThisService
  <2>2. ThisService \in Services
    BY <1>2, <2>1, ServiceAtHand DEF CaptureTyped
  <2>4. Answers(l)
    BY <1>7
  <2>5. /\ \A k \in 1..Len(raw) : Faithful(raw[k], k)
        /\ Len(raw) <= len[ThisService] /\ Len(raw) = cursor
    BY <1>1, <2>1 DEF PageInv, Capturing, Waiting
  <2>6. CASE ~l.ok
    <3>1. pc' = "close" /\ ThisService \in warned' /\ UNCHANGED <<cursor, raw>>
      BY <1>7, <2>6 DEF OnPage
    <3> QED
      BY <1>1, <2>1, <2>5, <3>1 DEF PageInv
  <2>7. CASE l.ok
    <3>1. /\ l.next = cursor + Len(l.data) /\ l.next <= len[ThisService]
          /\ \A k \in 1..Len(l.data) : Faithful(l.data[k], cursor + k)
          /\ l.eof => l.next >= base[ThisService]
          /\ ~l.eof => l.next > cursor
          /\ l.data \in Seq(Nat) /\ l.next \in Nat
      BY <2>1, <2>4, <2>7 DEF Answers, Replies
    <3>2. /\ raw' = raw \o l.data
          /\ IF l.eof \/ l.next <= cursor THEN pc' = "close" /\ cursor' = cursor
                                          ELSE pc' = "ask" /\ cursor' = l.next
      BY <1>7, <2>7 DEF OnPage, NextCursor
    <3>3. raw \in Seq(Nat) /\ cursor \in Nat /\ base[ThisService] \in Nat
      BY <2>2 DEF CaptureTyped
    <3> DEFINE d == l.data
    <3> HIDE DEF d
    <3>4. /\ Len(raw) \in Nat /\ Len(d) \in Nat /\ Len(raw') = Len(raw) + Len(d)
          /\ \A k \in 1..Len(raw) : raw'[k] = raw[k]
          /\ \A k \in 1..Len(d) : raw'[Len(raw) + k] = d[k]
      BY <3>1, <3>2, <3>3, SMTT(30) DEF d
    <3>5. Len(raw') = l.next
      BY <2>5, <3>1, <3>4 DEF d
    <3>6. ASSUME NEW k \in 1..Len(raw')
          PROVE  Faithful(raw'[k], k)
      <4>1. CASE k \in 1..Len(raw)
        BY <2>5, <3>4, <4>1
      <4>2. CASE k \notin 1..Len(raw)
        <5>1. k - Len(raw) \in 1..Len(d) /\ Len(raw) + (k - Len(raw)) = k
          BY <3>4, <4>2
        <5>2. Faithful(d[k - Len(raw)], cursor + (k - Len(raw)))
          BY <3>1, <5>1 DEF d
        <5>3. raw'[k] = d[k - Len(raw)]
          BY <3>4, <5>1
        <5> QED
          BY <2>5, <5>1, <5>2, <5>3
      <4> QED
        BY <4>1, <4>2
    <3>7. /\ pc' \in {"close", "ask"}
          /\ pc' = "close" => l.next >= base[ThisService]
          /\ pc' # "close" => cursor' = l.next
      <4>1. l.next > cursor => ~(l.next <= cursor)
        BY <3>1, <3>3
      <4> QED
        BY <3>1, <3>2, <4>1
    <3> QED
      BY <1>1, <2>1, <3>1, <3>5, <3>6, <3>7 DEF PageInv
  <2> QED
    BY <2>6, <2>7
<1> QED
  BY <1>5, <1>6, <1>7, PolledReply

LEMMA PageInit == Init => PageInv
  BY DEF Init, PageInv, Capturing, Waiting

LEMMA PageNext == CaptureTyped /\ LineInv /\ PageInv /\ [Next]_vars => PageInv'
<1> SUFFICES ASSUME CaptureTyped, LineInv, PageInv, [Next]_vars
             PROVE  PageInv'
  OBVIOUS
<1>1. CASE UNCHANGED vars
  BY <1>1 DEF vars, pageVars, reportVars, PageInv, ThisService
<1>2. CASE CloseService
  <2>1. svc <= Len(ServiceSeq) /\ Advance
    BY <1>2 DEF CloseService, LineInv, AtService
  <2> QED
    BY <1>2, <2>1, LineCloses, PageBegins
<1>3. CASE RunStops
  <2>1. svc' = 0 /\ pc' # "dead"
    BY <1>3 DEF RunStops, LineInv, NotYetAsked, Early, pageVars
  <2> QED
    BY <2>1 DEF PageInv
<1>4. CASE WallTimeout
  BY <1>4 DEF WallTimeout, PageInv
<1> QED
  BY <1>1, <1>2, <1>3, <1>4, PageBeside, PageTaken DEF Next, HostStep
-----------------------------------------------------------------------------
(* The files and their two writers. *)

PrintedUnits == [i : Nat, n : {PrintUnits}]

\* What is printed and in no file yet.
Unwritten == partial \o tee

\* The type of the console's state and of the files.
ScanTyped ==
  /\ printed \in Nat /\ tee \in Seq(PrintedUnits) /\ partial \in Seq(PrintedUnits)
  /\ handle \in [Stems -> {"none", "open", "late", "gone"}]
  /\ file = [s \in Stems |-> [pull |-> file[s].pull, con |-> file[s].con]]
  /\ \A s \in Stems : file[s].con \in Seq(PrintedUnits)
  /\ pulled \subseteq Services

\* What AppendLine does: the file was given up before, it is given up now, or the
\* line is at its end.
Refused(stem) ==
  handle[stem] = "gone" /\ UNCHANGED <<file, handle, warned, fault>>
Failed(stem) ==
  /\ file' = file /\ handle' = [handle EXCEPT ![stem] = "gone"]
  /\ warned' = warned \cup {stem} /\ fault' = fault \cup {"write"}
Extended(stem, line) ==
  /\ UNCHANGED <<warned, fault>>
  /\ \A s \in Stems \ {stem} : file'[s] = file[s] /\ handle'[s] = handle[s]
  /\ IF handle[stem] = "none"
     THEN /\ handle'[stem] = OpensAs /\ file'[stem].pull = None
          /\ file'[stem].con = <<>> \o line
     ELSE /\ handle'[stem] = handle[stem] /\ file'[stem].pull = file[stem].pull
          /\ file'[stem].con = file[stem].con \o line

LEMMA AppendIs ==
  ASSUME ScanTyped, NEW line \in Seq(PrintedUnits), AppendLine(line)
  PROVE  /\ \E stem \in Stems : Refused(stem) \/ Failed(stem) \/ Extended(stem, line)
         /\ handle' \in [Stems -> {"none", "open", "late", "gone"}]
         /\ file' = [s \in Stems |-> [pull |-> file'[s].pull, con |-> file'[s].con]]
         /\ \A s \in Stems : file'[s].con \in Seq(PrintedUnits)
<1> DEFINE stem == Route(line)
           new == handle[stem] = "none"
           before == IF new THEN NoFile ELSE file[stem]
<1>1. stem \in Stems
  BY CaptureAssumption DEF Route, Stems
<1>2. handle \in [Stems -> {"none", "open", "late", "gone"}]
  BY DEF ScanTyped
<1>3. /\ file = [s \in Stems |-> [pull |-> file[s].pull, con |-> file[s].con]]
      /\ \A s \in Stems : file[s].con \in Seq(PrintedUnits)
  BY DEF ScanTyped
<1>4. CASE handle[stem] = "gone"
  <2>1. Refused(stem)
    BY <1>4 DEF AppendLine, Refused
  <2> QED
    BY <1>1, <1>2, <1>3, <2>1 DEF Refused
<1>5. CASE Failed(stem)
  BY <1>1, <1>2, <1>3, <1>5 DEF Failed
<1>6. CASE /\ file' = [file EXCEPT ![stem] = [before EXCEPT !.con = @ \o line]]
           /\ handle' = IF new THEN [handle EXCEPT ![stem] = OpensAs] ELSE handle
           /\ UNCHANGED <<warned, fault>>
  <2> DEFINE p == IF new THEN None ELSE file[stem].pull
             c == IF new THEN <<>> ELSE file[stem].con
  <2>1. file[stem] = [pull |-> file[stem].pull, con |-> file[stem].con]
    BY <1>1, <1>3
  <2>2. before = [pull |-> p, con |-> c]
    BY <2>1 DEF NoFile
  <2>3. c \in Seq(PrintedUnits) /\ c \o line \in Seq(PrintedUnits)
    BY <1>1, <1>3, EmptySeq, ConcatProperties
  <2>4. [before EXCEPT !.con = @ \o line] = [pull |-> p, con |-> c \o line]
    <3>1. \A x, y, z : [[pull |-> x, con |-> y] EXCEPT !.con = z] = [pull |-> x, con |-> z]
      OBVIOUS
    <3> HIDE DEF before, p, c
    <3>2. before.con = c
      BY <2>2
    <3> QED
      BY <2>2, <3>1, <3>2, Zenon
  <2> HIDE DEF before, stem
  <2>5. file' = [file EXCEPT ![stem] = [pull |-> p, con |-> c \o line]]
    BY <1>6, <2>4
  <2>6. OpensAs \in {"open", "late"}
    BY DEF OpensAs
  <2>7. /\ handle' \in [Stems -> {"none", "open", "late", "gone"}]
        /\ \A s \in Stems \ {stem} : handle'[s] = handle[s]
        /\ handle'[stem] = IF new THEN OpensAs ELSE handle[stem]
    BY <1>1, <1>2, <1>6, <2>6
  <2> HIDE DEF p, c, new
  <2>8. /\ file' = [s \in Stems |-> IF s = stem THEN [pull |-> p, con |-> c \o line] ELSE file[s]]
    BY <1>3, <2>5, Zenon
  <2>9. /\ file'[stem] = [pull |-> p, con |-> c \o line]
        /\ \A s \in Stems \ {stem} : file'[s] = file[s]
        /\ DOMAIN file' = Stems
    BY <1>1, <2>8
  <2>10. \A s \in Stems : /\ file'[s] = [pull |-> file'[s].pull, con |-> file'[s].con]
                          /\ file'[s].con \in Seq(PrintedUnits)
    <3> TAKE s \in Stems
    <3>1. file[s] = [pull |-> file[s].pull, con |-> file[s].con]
      BY <1>3
    <3>2. CASE s = stem
      <4>1. file'[s] = [pull |-> p, con |-> c \o line]
        BY <2>9, <3>2
      <4>2. file'[s].pull = p /\ file'[s].con = c \o line
        BY <4>1
      <4> QED
        BY <2>3, <4>1, <4>2, Zenon
    <3>3. CASE s # stem
      BY <1>3, <2>9, <3>1, <3>3
    <3> QED
      BY <3>2, <3>3
  <2>11. file' = [s \in Stems |-> [pull |-> file'[s].pull, con |-> file'[s].con]]
    BY <2>8, <2>10
  <2>12. file'[stem].pull = p /\ file'[stem].con = c \o line
    BY <2>9
  <2>13. Extended(stem, line)
    BY <1>6, <2>7, <2>9, <2>12 DEF Extended, p, c, new
  <2> QED
    BY <1>1, <2>7, <2>10, <2>11, <2>13
<1> QED
  BY <1>4, <1>5, <1>6 DEF AppendLine, Failed

\* The line that is emitted is the front of what is unwritten.
LEMMA EmitIs ==
  ASSUME ScanTyped, EmitsLine \/ FlushesTail
  PROVE  /\ pc' = pc /\ pc \in {"running", "flush"} /\ exit = None
         /\ UNCHANGED <<printed, tee, pulled, len, base, watchdog, stop, exit>>
         /\ partial' \in Seq(PrintedUnits)
         /\ \E line \in Seq(PrintedUnits) :
              AppendLine(line) /\ partial = line \o partial' /\ Unwritten = line \o Unwritten'
<1> DEFINE P == PrintedUnits
<1>1. /\ pc' = pc /\ pc \in {"running", "flush"} /\ exit = None
      /\ UNCHANGED <<printed, tee, pulled, len, base, watchdog, stop, exit>>
  BY DEF EmitsLine, FlushesTail, otherThanConsole, hostVars, Alive
<1>2. partial \in Seq(P) /\ tee \in Seq(P) /\ Len(partial) \in Nat
  BY LenProperties DEF ScanTyped
<1> HIDE DEF P
<1>3. LineEnd \in 0..Len(partial)
  <2> DEFINE I == {i \in 1..Len(partial) : partial[i].i = partial[i].n}
             k == SelectInSeq(partial, LAMBDA u : u.i = u.n)
  <2>1. k = IF I # {} THEN Min(I) ELSE 0
    BY DEF SelectInSeq
  <2>2. I # {} => Min(I) \in I
    <3>1. I \subseteq Nat
      OBVIOUS
    <3> HIDE DEF I
    <3>2. I # {} => \E x \in I : \A y \in I : x <= y
      BY <3>1, Least
    <3> QED
      BY <3>2 DEF Min
  <2>3. LineEnd = IF k > 0 THEN k ELSE Len(partial)
    BY DEF LineEnd
  <2>4. I # {} => k \in 1..Len(partial)
    BY <2>1, <2>2
  <2>5. I = {} => k = 0
    BY <2>1
  <2> HIDE DEF I, k
  <2> QED
    BY <1>2, <2>3, <2>4, <2>5
<1>4. \E line \in Seq(P) : AppendLine(line) /\ partial = line \o partial' /\ partial' \in Seq(P)
  <2>1. CASE EmitsLine
    <3> DEFINE a == SubSeq(partial, 1, LineEnd)
               b == SubSeq(partial, LineEnd + 1, Len(partial))
    <3>1. AppendLine(a) /\ partial' = b
      BY <2>1 DEF EmitsLine
    <3>2. a \in Seq(P) /\ b \in Seq(P) /\ a \o b = partial
      BY <1>2, <1>3, Cut
    <3> QED
      BY <3>1, <3>2
  <2>2. CASE FlushesTail
    <3>1. AppendLine(partial) /\ partial' = <<>>
      BY <2>2 DEF FlushesTail
    <3>2. <<>> \in Seq(P) /\ partial \o <<>> = partial
      BY <1>2, ConcatEmptySeq, EmptySeq
    <3> QED
      BY <1>2, <3>1, <3>2
  <2> QED
    BY <2>1, <2>2
<1>5. PICK line \in Seq(P) : AppendLine(line) /\ partial = line \o partial' /\ partial' \in Seq(P)
  BY <1>4
<1>6. (line \o partial') \o tee = line \o (partial' \o tee)
  BY <1>2, <1>5, Assoc, SMTT(30)
<1>7. Unwritten = line \o Unwritten'
  BY <1>1, <1>5, <1>6 DEF Unwritten
<1> QED
  BY <1>1, <1>5, <1>7 DEF P

\* What WriteFile does: the pulled text is the whole file, or the write failed.
Written(warn) ==
  /\ file'[ThisService].pull = FormatK8s(raw) /\ file'[ThisService].con = <<>>
  /\ \A s \in Stems \ {ThisService} : file'[s] = file[s]
  /\ pulled' = pulled \cup {ThisService} /\ warned' = warned \cup warn /\ fault' = fault
NotWritten(warn) ==
  /\ file' = file /\ pulled' = pulled /\ fault' = fault \cup {"write"}
  /\ warned' = warned \cup warn \cup {ThisService}

LEMMA WriteIs ==
  ASSUME ScanTyped, ThisService \in Services, NEW warn, WriteFile(warn)
  PROVE  /\ Written(warn) \/ NotWritten(warn)
         /\ file' = [s \in Stems |-> [pull |-> file'[s].pull, con |-> file'[s].con]]
         /\ \A s \in Stems : file'[s].con \in Seq(PrintedUnits)
         /\ pulled' \subseteq Services
<1>1. ThisService \in Stems
  BY DEF Stems
<1>2. /\ file = [s \in Stems |-> [pull |-> file[s].pull, con |-> file[s].con]]
      /\ \A s \in Stems : file[s].con \in Seq(PrintedUnits)
      /\ pulled \subseteq Services
  BY DEF ScanTyped
<1>3. CASE NotWritten(warn)
  BY <1>2, <1>3 DEF NotWritten
<1>4. CASE /\ file' = [file EXCEPT ![ThisService] = [pull |-> FormatK8s(raw), con |-> <<>>]]
           /\ pulled' = pulled \cup {ThisService}
           /\ warned' = warned \cup warn /\ fault' = fault
  <2> DEFINE p == FormatK8s(raw)
             t == ThisService
  <2> HIDE DEF p, t
  <2>1. file' = [s \in Stems |-> IF s = t THEN [pull |-> p, con |-> <<>>] ELSE file[s]]
    BY <1>2, <1>4, Zenon DEF p, t
  <2>2. /\ file'[t] = [pull |-> p, con |-> <<>>] /\ \A s \in Stems \ {t} : file'[s] = file[s]
    BY <1>1, <2>1 DEF t
  <2>3. file'[t].pull = p /\ file'[t].con = <<>>
    BY <2>2
  <2>4. <<>> \in Seq(PrintedUnits)
    BY EmptySeq
  <2>5. \A s \in Stems : /\ file'[s] = [pull |-> file'[s].pull, con |-> file'[s].con]
                         /\ file'[s].con \in Seq(PrintedUnits)
    <3> TAKE s \in Stems
    <3>1. CASE s = t
      BY <2>2, <2>3, <2>4, <3>1, Zenon
    <3>2. CASE s # t
      <4>1. file[s] = [pull |-> file[s].pull, con |-> file[s].con]
        BY <1>2
      <4>2. file'[s] = file[s]
        BY <2>2, <3>2
      <4> QED
        BY <1>2, <4>1, <4>2
    <3> QED
      BY <3>1, <3>2
  <2>6. file' = [s \in Stems |-> [pull |-> file'[s].pull, con |-> file'[s].con]]
    BY <2>1, <2>5
  <2>7. Written(warn)
    BY <1>4, <2>2, <2>3 DEF Written, p, t
  <2> QED
    BY <1>2, <1>4, <2>5, <2>6, <2>7
<1> QED
  BY <1>3, <1>4 DEF WriteFile, NotWritten

\* The steps that write no file, and what they do to the console's state.
Beside ==
  \/ Prepare \/ ArmsWatchdog \/ Boots \/ RunFails \/ Fatal \/ Finish \/ RunStops
  \/ GaveUp \/ ParkHorizon \/ ParkReturns \/ (\E w : BudgetRunsOut(w))
  \/ Ask \/ Boundary \/ PollLine \/ Enter \/ GuestRuns \/ UNCHANGED vars

LEMMA BesideIs ==
  ASSUME Beside
  PROVE  UNCHANGED <<printed, tee, partial, handle, file, pulled>>
<1>1. CASE Prepare \/ ArmsWatchdog \/ Boots \/ RunFails \/ Fatal \/ Finish \/ RunStops
  BY <1>1 DEF Prepare, ArmsWatchdog, Boots, RunFails, Fatal, Finish, RunStops, notYetRunning,
     reportVars, consoleVars, scanVars
<1>2. CASE GaveUp \/ ParkHorizon \/ ParkReturns \/ (\E w : BudgetRunsOut(w))
  BY <1>2 DEF GaveUp, ParkHorizon, ParkReturns, BudgetRunsOut, reportVars, consoleVars, scanVars
<1>3. CASE Ask \/ Boundary \/ PollLine \/ Enter
  BY <1>3 DEF Ask, Boundary, PollLine, Enter, reportVars, consoleVars, scanVars
<1>4. CASE GuestRuns
  BY <1>4 DEF GuestRuns, Halt, GuestDies, OtherExit, AgentEvent, AgentReads, AgentWrites,
     AgentHandles, ContainerLogs, GuestStep, reportVars, consoleVars, scanVars
<1>5. CASE UNCHANGED vars
  BY <1>5 DEF vars, reportVars, consoleVars, scanVars
<1> QED
  BY <1>1, <1>2, <1>3, <1>4, <1>5 DEF Beside

\* Every step is one of these.
LEMMA Steps ==
  [Next]_vars => \/ Beside \/ Prints \/ Drains \/ FinishDrains \/ (EmitsLine \/ FlushesTail)
                 \/ WallTimeout \/ CloseService \/ Aborted
  BY DEF Next, HostStep, Beside

\* Closing a service, or giving up on the guest with one at hand.
LEMMA WriteSteps ==
  ASSUME CaptureTyped, LineInv, CloseService \/ Aborted
  PROVE  /\ UNCHANGED <<printed, tee, partial, handle, len, base, watchdog, stop, exit>>
         /\ pc' \in {"ask", "finish"} /\ pc \in {"close", "dead"}
         /\ \/ /\ svc > 0 /\ svc <= Len(ServiceSeq) /\ ThisService \in Services
               /\ \/ pc = "close" /\ WriteFile(Skipped(svc))
                  \/ pc = "dead" /\ WriteFile({ThisService})
            \/ UNCHANGED <<file, pulled, warned, fault>>
<1>1. UNCHANGED <<printed, tee, partial, handle, len, base, watchdog, stop, exit>>
  BY DEF CloseService, Aborted, consoleVars, scanVars, hostVars
<1>2. pc' \in {"ask", "finish"} /\ pc \in {"close", "dead"}
  BY DEF CloseService, Aborted, Advance
<1>3. svc \in Nat /\ svc <= Len(ServiceSeq) /\ (pc = "close" => svc > 0)
  BY <1>2 DEF CaptureTyped, LineInv, AtService
<1>4. svc > 0 => ThisService \in Services
  BY <1>3, ServiceAtHand
<1>5. /\ pc = "close" => WriteFile(Skipped(svc))
      /\ pc = "dead" => IF svc = 0 THEN UNCHANGED <<file, pulled, warned, fault>>
                                   ELSE WriteFile({ThisService})
  BY DEF CloseService, Aborted
<1>6. svc = 0 \/ svc > 0
  BY <1>3
<1>7. CASE pc = "close"
  BY <1>1, <1>2, <1>3, <1>4, <1>5, <1>7
<1>8. CASE pc = "dead"
  BY <1>1, <1>2, <1>3, <1>4, <1>5, <1>6, <1>8
<1> QED
  BY <1>2, <1>7, <1>8

LEMMA ScanInit == Init => ScanTyped
<1> SUFFICES ASSUME Init
             PROVE  ScanTyped
  OBVIOUS
<1>1. /\ printed = 0 /\ tee = <<>> /\ partial = <<>> /\ pulled = {}
      /\ handle = [s \in Stems |-> "none"] /\ file = [s \in Stems |-> NoFile]
  BY DEF Init
<1>2. <<>> \in Seq(PrintedUnits)
  BY EmptySeq
<1>3. NoFile = [pull |-> NoFile.pull, con |-> NoFile.con] /\ NoFile.con = <<>>
  BY DEF NoFile
<1>4. \A s \in Stems : file[s] = NoFile
  BY <1>1
<1>5. file = [s \in Stems |-> [pull |-> file[s].pull, con |-> file[s].con]]
  BY <1>1, <1>3, <1>4
<1> QED
  BY <1>1, <1>2, <1>3, <1>4, <1>5 DEF ScanTyped

\* The tee takes one unit, and drops what it held if that is too much.
LEMMA TeeIs ==
  ASSUME ScanTyped, Prints
  PROVE  /\ PrintUnit(printed + 1) \in PrintedUnits /\ PrintUnit(printed + 1).i = printed + 1
         /\ printed' = printed + 1 /\ partial' = partial
         /\ fault \subseteq fault'
         /\ \/ tee' = Append(tee, PrintUnit(printed + 1))
            \/ tee' = <<PrintUnit(printed + 1)>> /\ "tee" \in fault'
         /\ UNCHANGED <<handle, file, pulled, warned, len, base, watchdog, stop, exit>>
         /\ (pc' = pc /\ pc = "running") \/ (pc' = "boundary" /\ pc = "guest")
         /\ tee' \in Seq(PrintedUnits)
<1> DEFINE u == PrintUnit(printed + 1)
<1>1. u \in PrintedUnits /\ u.i = printed + 1
  BY DEF PrintUnit, PrintedUnits, ScanTyped
<1>2. /\ printed' = printed + 1 /\ partial' = partial /\ tee' = Teed(tee, u)
      /\ fault' = IF Len(tee) + 1 > TeeCap THEN fault \cup {"tee"} ELSE fault
      /\ UNCHANGED <<handle, file, pulled, warned, len, base, watchdog, stop, exit>>
      /\ (pc' = pc /\ pc = "running") \/ (pc' = "boundary" /\ pc = "guest")
  BY DEF Prints, otherThanConsole, hostVars
<1> HIDE DEF u
<1>3. \/ tee' = Append(tee, u)
      \/ tee' = <<u>> /\ "tee" \in fault'
  BY <1>2 DEF Teed
<1>4. Append(tee, u) \in Seq(PrintedUnits) /\ <<u>> \in Seq(PrintedUnits)
  BY <1>1, AppendProperties DEF ScanTyped
<1> QED
  BY <1>1, <1>2, <1>3, <1>4 DEF u

\* A drain moves the tee behind the line that is being put together.
LEMMA DrainIs ==
  ASSUME ScanTyped, Drains \/ FinishDrains
  PROVE  /\ partial' \in Seq(PrintedUnits) /\ tee' = <<>> /\ Unwritten' = Unwritten
         /\ UNCHANGED <<printed, handle, file, pulled, warned, fault, len, base, watchdog, stop, exit>>
         /\ (pc' = pc /\ pc = "running") \/ (pc' = "flush" /\ pc = "finish")
<1>1. /\ partial' = partial \o tee /\ tee' = <<>>
      /\ UNCHANGED <<printed, handle, file, pulled, warned, fault, len, base, watchdog, stop, exit>>
      /\ (pc' = pc /\ pc = "running") \/ (pc' = "flush" /\ pc = "finish")
  BY DEF Drains, FinishDrains, otherThanConsole, hostVars
<1>2. partial \o tee \in Seq(PrintedUnits)
  BY ConcatProperties DEF ScanTyped
<1>3. Unwritten' = Unwritten
  BY <1>1, <1>2, ConcatEmptySeq DEF Unwritten
<1> QED
  BY <1>1, <1>2, <1>3

LEMMA ScanNext == CaptureTyped /\ LineInv /\ ScanTyped /\ [Next]_vars => ScanTyped'
<1> SUFFICES ASSUME CaptureTyped, LineInv, ScanTyped, [Next]_vars
             PROVE  ScanTyped'
  OBVIOUS
<1>1. CASE Beside
  BY <1>1, BesideIs DEF ScanTyped
<1>2. CASE Prints
  <2>1. printed' \in Nat
    BY <1>2, TeeIs DEF ScanTyped
  <2> QED
    BY <1>2, <2>1, TeeIs DEF ScanTyped
<1>3. CASE Drains \/ FinishDrains
  <2>1. <<>> \in Seq(PrintedUnits)
    BY EmptySeq
  <2> QED
    BY <1>3, <2>1, DrainIs DEF ScanTyped
<1>4. CASE EmitsLine \/ FlushesTail
  <2>1. PICK line \in Seq(PrintedUnits) : AppendLine(line)
    BY <1>4, EmitIs
  <2>2. UNCHANGED <<printed, tee, pulled>> /\ partial' \in Seq(PrintedUnits)
    BY <1>4, EmitIs
  <2>3. /\ handle' \in [Stems -> {"none", "open", "late", "gone"}]
        /\ file' = [s \in Stems |-> [pull |-> file'[s].pull, con |-> file'[s].con]]
        /\ \A s \in Stems : file'[s].con \in Seq(PrintedUnits)
    BY <2>1, AppendIs
  <2> QED
    BY <2>2, <2>3 DEF ScanTyped
<1>5. CASE WallTimeout
  <2>1. <<>> \in Seq(PrintedUnits)
    BY EmptySeq
  <2> QED
    BY <1>5, <2>1 DEF WallTimeout, ScanTyped
<1>6. CASE CloseService \/ Aborted
  <2>1. UNCHANGED <<printed, tee, partial, handle>>
    BY <1>6, WriteSteps
  <2>2. CASE UNCHANGED <<file, pulled, warned, fault>>
    BY <2>1, <2>2 DEF ScanTyped
  <2>3. CASE ThisService \in Services /\ \E warn : WriteFile(warn)
    BY <2>1, <2>3, WriteIs DEF ScanTyped
  <2> QED
    BY <1>6, <2>2, <2>3, WriteSteps
<1> QED
  BY <1>1, <1>2, <1>3, <1>4, <1>5, <1>6, Steps
-----------------------------------------------------------------------------
(* The console's units. *)

\* Printed in this order, and no later than unit m.
Ordered(q, m) ==
  /\ \A j, k \in 1..Len(q) : j < k => q[j].i < q[k].i
  /\ \A k \in 1..Len(q) : q[k].i <= m

LEMMA OrderedDrop ==
  ASSUME NEW a \in Seq(PrintedUnits), NEW b \in Seq(PrintedUnits), NEW c \in Seq(PrintedUnits),
         NEW m, Ordered((a \o b) \o c, m)
  PROVE  Ordered(a \o c, m)
<1> DEFINE q == (a \o b) \o c
           r == a \o c
           at(k) == IF k <= Len(a) THEN k ELSE k + Len(b)
<1>1. /\ Len(a) \in Nat /\ Len(b) \in Nat /\ Len(c) \in Nat
      /\ Len(q) = Len(a) + Len(b) + Len(c) /\ Len(r) = Len(a) + Len(c)
  OBVIOUS
<1>2. ASSUME NEW k \in 1..Len(r)
      PROVE  at(k) \in 1..Len(q) /\ q[at(k)] = r[k]
  <2>1. CASE k <= Len(a)
    BY <1>1, <2>1
  <2>2. CASE ~(k <= Len(a))
    BY <1>1, <2>2
  <2> QED
    BY <2>1, <2>2
<1>3. \A j, k \in 1..Len(r) : j < k => at(j) < at(k)
  BY <1>1
<1> HIDE DEF q, r, at
<1>4. Ordered(q, m)
  BY DEF q
<1>5. Ordered(r, m)
  BY <1>2, <1>3, <1>4 DEF Ordered
<1> QED
  BY <1>5 DEF r

LEMMA OrderedAppend ==
  ASSUME NEW a \in Seq(PrintedUnits), NEW m \in Nat, Ordered(a, m),
         NEW u \in PrintedUnits, u.i = m + 1
  PROVE  Ordered(a \o <<u>>, m + 1)
<1> DEFINE r == a \o <<u>>
           n == Len(a)
<1>1. n \in Nat /\ Len(r) = n + 1 /\ r[n + 1] = u /\ \A k \in 1..n : r[k] = a[k]
  OBVIOUS
<1>2. \A k \in 1..n : a[k].i \in Nat /\ a[k].i <= m
  <2>1. \A k \in 1..n : a[k] \in PrintedUnits
    BY ElementOfSeq
  <2> QED
    BY <2>1 DEF Ordered, PrintedUnits
<1>3. \A j, k \in 1..n : j < k => a[j].i < a[k].i
  BY DEF Ordered
<1> HIDE DEF r, n
<1>4. \A k \in 1..n : r[k].i \in Nat /\ r[k].i <= m
  BY <1>1, <1>2
<1>5. r[n + 1].i = m + 1
  BY <1>1
<1>6. ASSUME NEW j \in 1..n + 1, NEW k \in 1..n + 1, j < k
      PROVE  r[j].i < r[k].i
  <2>1. j \in 1..n
    BY <1>1, <1>6
  <2>2. CASE k = n + 1
    BY <1>4, <1>5, <2>1, <2>2
  <2>3. CASE k # n + 1
    BY <1>1, <1>3, <1>6, <2>1, <2>3
  <2> QED
    BY <2>2, <2>3
<1>7. ASSUME NEW k \in 1..n + 1
      PROVE  r[k].i <= m + 1
  <2>1. CASE k = n + 1
    BY <1>5, <2>1
  <2>2. CASE k # n + 1
    <3>1. k \in 1..n
      BY <1>1, <2>2
    <3> QED
      BY <1>4, <3>1
  <2> QED
    BY <2>1, <2>2
<1>8. Ordered(r, m + 1)
  BY <1>1, <1>6, <1>7 DEF Ordered
<1> QED
  BY <1>8 DEF r

\* The front and the back of an ordered stream.
LEMMA OrderedParts ==
  ASSUME NEW a \in Seq(PrintedUnits), NEW b \in Seq(PrintedUnits), NEW m, Ordered(a \o b, m)
  PROVE  Ordered(a, m) /\ Ordered(b, m)
<1>1. <<>> \in Seq(PrintedUnits) /\ a \o b \in Seq(PrintedUnits)
  BY EmptySeq, ConcatProperties
<1>2. (a \o b) \o <<>> = a \o b /\ a \o <<>> = a /\ <<>> \o a = a /\ <<>> \o b = b
  BY <1>1, ConcatEmptySeq
<1>3. Ordered(a \o <<>>, m)
  BY <1>1, <1>2, OrderedDrop
<1>4. Ordered((<<>> \o a) \o b, m)
  BY <1>2
<1>5. Ordered(<<>> \o b, m)
  BY <1>1, <1>4, OrderedDrop
<1> QED
  BY <1>2, <1>3, <1>5

\* Units go to every file in the order they were printed.
ConsoleInv == \A s \in Stems : Ordered(file[s].con \o Unwritten, printed)

LEMMA ConsoleInit == Init => ConsoleInv
<1> SUFFICES ASSUME Init, NEW s \in Stems
             PROVE  Ordered(file[s].con \o Unwritten, printed)
  BY DEF ConsoleInv
<1>1. file[s].con = <<>> /\ Unwritten = <<>>
  BY DEF Init, NoFile, Unwritten
<1>2. Len(file[s].con \o Unwritten) = 0
  BY <1>1
<1> QED
  BY <1>2 DEF Ordered

LEMMA ConsolePrints ==
  ASSUME ScanTyped, ConsoleInv, Prints
  PROVE  ConsoleInv'
<1> DEFINE P == PrintedUnits
           u == PrintUnit(printed + 1)
<1>1. /\ u \in P /\ u.i = printed + 1 /\ printed' = printed + 1 /\ partial' = partial
      /\ tee' = Append(tee, u) \/ tee' = <<u>>
      /\ file' = file
  BY TeeIs
<1>2. partial \in Seq(P) /\ tee \in Seq(P) /\ printed \in Nat
  BY DEF ScanTyped
<1> HIDE DEF P, u
<1>3. <<u>> \in Seq(P) /\ Append(tee, u) = tee \o <<u>> /\ partial \o tee \in Seq(P)
  BY <1>1, <1>2, AppendIsConcat, ConcatProperties
<1> SUFFICES ASSUME NEW s \in Stems
             PROVE  Ordered((file[s].con \o Unwritten)', printed + 1)
  BY <1>1 DEF ConsoleInv
<1> DEFINE c == file[s].con
<1>4. c \in Seq(P) /\ Ordered(c \o (partial \o tee), printed)
  BY DEF ScanTyped, ConsoleInv, Unwritten, P
<1>5. file'[s].con = c
  BY <1>1
<1> HIDE DEF c
<1>6. c \o partial \in Seq(P) /\ c \o (partial \o tee) \in Seq(P)
  BY <1>2, <1>3, <1>4, ConcatProperties
<1>7. CASE tee' = Append(tee, u)
  <2>1. partial \o (tee \o <<u>>) = (partial \o tee) \o <<u>>
    BY <1>2, <1>3, Assoc
  <2>2. c \o ((partial \o tee) \o <<u>>) = (c \o (partial \o tee)) \o <<u>>
    BY <1>3, <1>4, Assoc
  <2>3. Ordered((c \o (partial \o tee)) \o <<u>>, printed + 1)
    BY <1>1, <1>2, <1>4, <1>6, OrderedAppend DEF P
  <2>4. (file[s].con \o Unwritten)' = (c \o (partial \o tee)) \o <<u>>
    BY <1>1, <1>3, <1>5, <1>7, <2>1, <2>2, Zenon DEF Unwritten
  <2> QED
    BY <2>3, <2>4
<1>8. CASE tee' = <<u>>
  <2>1. c \o (partial \o tee) = (c \o partial) \o tee
    BY <1>2, <1>4, Assoc, SMTT(30)
  <2>2. Ordered(c \o partial, printed)
    BY <1>2, <1>4, <1>6, <2>1, OrderedParts DEF P
  <2>3. Ordered((c \o partial) \o <<u>>, printed + 1)
    BY <1>1, <1>2, <1>6, <2>2, OrderedAppend DEF P
  <2>4. (c \o partial) \o <<u>> = c \o (partial \o <<u>>)
    BY <1>2, <1>3, <1>4, Assoc
  <2>5. (file[s].con \o Unwritten)' = c \o (partial \o <<u>>)
    BY <1>1, <1>5, <1>8, Zenon DEF Unwritten
  <2> QED
    BY <2>3, <2>4, <2>5
<1> QED
  BY <1>1, <1>7, <1>8

LEMMA ConsoleEmits ==
  ASSUME ScanTyped, ConsoleInv, EmitsLine \/ FlushesTail
  PROVE  ConsoleInv'
<1> DEFINE P == PrintedUnits
           v == Unwritten'
<1>1. printed' = printed /\ tee' = tee /\ partial' \in Seq(P)
  BY EmitIs
<1>2. PICK line \in Seq(P) : AppendLine(line) /\ Unwritten = line \o Unwritten'
  BY EmitIs
<1>3. PICK stem \in Stems : Refused(stem) \/ Failed(stem) \/ Extended(stem, line)
  BY <1>2, AppendIs
<1>4. tee \in Seq(P)
  BY DEF ScanTyped
<1>5. v \in Seq(P) /\ Unwritten = line \o v
  BY <1>1, <1>2, <1>4, ConcatProperties DEF Unwritten
<1> HIDE DEF P, v
<1> SUFFICES ASSUME NEW s \in Stems
             PROVE  Ordered(file'[s].con \o v, printed)
  BY <1>1 DEF ConsoleInv, v
<1> DEFINE c == file[s].con
<1>6. c \in Seq(P) /\ Ordered(c \o (line \o v), printed)
  BY <1>5 DEF ScanTyped, ConsoleInv, P
<1> HIDE DEF c
<1>7. line \o v \in Seq(P) /\ c \o (line \o v) = (c \o line) \o v
  <2>1. line \o v \in Seq(P)
    BY <1>5, ConcatProperties
  <2>2. c \o (line \o v) = (c \o line) \o v
    BY <1>5, <1>6, Assoc, SMTT(30)
  <2> QED
    BY <2>1, <2>2
<1>8. CASE file'[s].con = c
  <2>1. Ordered(c \o v, printed)
    BY <1>5, <1>6, <1>7, OrderedDrop DEF P
  <2> QED
    BY <1>8, <2>1
<1>9. CASE file'[s].con = c \o line
  BY <1>6, <1>7, <1>9
<1>10. CASE file'[s].con = <<>> \o line
  <2>1. <<>> \o line = line
    BY ConcatEmptySeq
  <2>2. Ordered(line \o v, printed)
    BY <1>6, <1>7, OrderedParts DEF P
  <2> QED
    BY <1>10, <2>1, <2>2
<1>11. file'[s].con \in {c, c \o line, <<>> \o line}
  <2>1. CASE Refused(stem) \/ Failed(stem)
    BY <2>1 DEF Refused, Failed, c
  <2>2. CASE Extended(stem, line)
    BY <2>2 DEF Extended, c
  <2> QED
    BY <1>3, <2>1, <2>2
<1> QED
  BY <1>8, <1>9, <1>10, <1>11

LEMMA ConsoleNext == CaptureTyped /\ LineInv /\ ScanTyped /\ ConsoleInv /\ [Next]_vars => ConsoleInv'
<1> SUFFICES ASSUME CaptureTyped, LineInv, ScanTyped, ConsoleInv, [Next]_vars
             PROVE  ConsoleInv'
  OBVIOUS
<1>1. CASE Beside
  BY <1>1, BesideIs DEF ConsoleInv, Unwritten
<1>2. CASE Drains \/ FinishDrains
  BY <1>2, DrainIs DEF ConsoleInv
<1>3. Unwritten \in Seq(PrintedUnits)
  BY ConcatProperties DEF ScanTyped, Unwritten
<1>4. CASE WallTimeout
  <2>1. printed' = printed /\ file' = file /\ Unwritten' = <<>>
    BY <1>4 DEF WallTimeout, Unwritten
  <2> SUFFICES ASSUME NEW s \in Stems
               PROVE  Ordered(file[s].con \o <<>>, printed)
    BY <2>1 DEF ConsoleInv
  <2>2. file[s].con \in Seq(PrintedUnits) /\ Ordered(file[s].con \o Unwritten, printed)
    BY DEF ScanTyped, ConsoleInv
  <2>3. Ordered(file[s].con, printed)
    BY <1>3, <2>2, OrderedParts
  <2> QED
    BY <2>2, <2>3, ConcatEmptySeq
<1>5. CASE CloseService \/ Aborted
  <2>1. UNCHANGED <<printed, tee, partial>> /\ Unwritten' = Unwritten
    BY <1>5, WriteSteps DEF Unwritten
  <2>2. CASE UNCHANGED <<file, pulled, warned, fault>>
    BY <2>1, <2>2 DEF ConsoleInv
  <2>3. CASE ThisService \in Services /\ \E warn : WriteFile(warn)
    <3> SUFFICES ASSUME NEW s \in Stems
                 PROVE  Ordered(file'[s].con \o Unwritten, printed)
      BY <2>1 DEF ConsoleInv
    <3>1. file'[s].con = file[s].con \/ file'[s].con = <<>>
      BY <2>3, WriteIs DEF Written, NotWritten
    <3>2. file[s].con \in Seq(PrintedUnits) /\ Ordered(file[s].con \o Unwritten, printed)
      BY DEF ScanTyped, ConsoleInv
    <3>3. Ordered(Unwritten, printed) /\ <<>> \o Unwritten = Unwritten
      BY <1>3, <3>2, OrderedParts, ConcatEmptySeq
    <3> QED
      BY <3>1, <3>2, <3>3
  <2> QED
    BY <1>5, <2>2, <2>3, WriteSteps
<1> QED
  BY <1>1, <1>2, <1>4, <1>5, ConsolePrints, ConsoleEmits, Steps
-----------------------------------------------------------------------------
(* What the files hold. *)

\* While the run goes on nothing is pulled.
NotYetPulled == pc \in Early => pulled = {} /\ \A s \in Services : file[s].pull = None
PrefixInv ==
  \A s \in Services : file[s].pull # None => \E n \in 0..len[s] : HoldsPrefix(s, n)
CompleteInv ==
  \A s \in pulled \ warned :
    handle[s] = "late" \/ \E n \in base[s]..len[s] : HoldsPrefix(s, n)
WarnedInv == warned \ Unsafe # {} => fault # {}

FileInv == NotYetPulled /\ PrefixInv /\ CompleteInv

\* After the stop everything but the line only grows.
LEMMA Grows ==
  ASSUME CaptureTyped, [Next]_vars, ~RunStops
  PROVE  /\ base' = base /\ len' \in [Services -> Nat] /\ \A s \in Services : len[s] <= len'[s]
         /\ warned \subseteq warned' /\ fault \subseteq fault'
         /\ pc' \in Early => pc \in Early
<1>1. CASE Prepare \/ ArmsWatchdog \/ Boots \/ RunFails \/ Fatal \/ Finish \/ WallTimeout
  <2>1. UNCHANGED <<base, len, warned, fault>>
    BY <1>1 DEF Prepare, ArmsWatchdog, Boots, RunFails, Fatal, Finish, WallTimeout, notYetRunning,
       reportVars
  <2>2. pc' \in Early => pc \in Early
    BY <1>1 DEF Prepare, ArmsWatchdog, Boots, RunFails, Fatal, Finish, WallTimeout, Early
  <2> QED
    BY <2>1, <2>2 DEF CaptureTyped
<1>2. CASE Prints \/ Drains \/ FinishDrains \/ EmitsLine \/ FlushesTail
  <2>1. UNCHANGED <<base, len>> /\ warned \subseteq warned' /\ fault \subseteq fault'
    BY <1>2 DEF Prints, Drains, FinishDrains, EmitsLine, FlushesTail, AppendLine, otherThanConsole
  <2>2. pc' \in Early => pc \in Early
    BY <1>2 DEF Prints, Drains, FinishDrains, EmitsLine, FlushesTail, Early
  <2> QED
    BY <2>1, <2>2 DEF CaptureTyped
<1>3. CASE \/ Ask \/ CloseService \/ GaveUp \/ Aborted \/ Boundary \/ PollLine \/ Enter
           \/ ParkHorizon \/ ParkReturns \/ \E w : BudgetRunsOut(w)
  <2>1. UNCHANGED <<base, len>>
    BY <1>3 DEF Ask, CloseService, GaveUp, Aborted, Boundary, PollLine, Enter, ParkHorizon,
       ParkReturns, BudgetRunsOut
  <2>2. fault \subseteq fault'
    BY <1>3 DEF Ask, CloseService, GaveUp, Aborted, WriteFile, Boundary, PollLine, Enter,
       ParkHorizon, ParkReturns, BudgetRunsOut
  <2>3. warned \subseteq warned'
    BY <1>3 DEF Ask, CloseService, GaveUp, Aborted, WriteFile, Boundary, PollLine, OnPing, OnPage,
       Enter, ParkHorizon, ParkReturns, BudgetRunsOut, reportVars
  <2>4. pc' \notin Early
    BY <1>3 DEF Ask, CloseService, GaveUp, Aborted, Boundary, PollLine, OnPing, OnPage, Advance,
       Enter, ParkHorizon, ParkReturns, BudgetRunsOut, Early
  <2> QED
    BY <2>1, <2>2, <2>3, <2>4 DEF CaptureTyped
<1>4. CASE GuestRuns
  <2>1. base' = base /\ warned' = warned /\ fault \subseteq fault'
    BY <1>4 DEF GuestRuns, Halt, GuestDies, OtherExit, AgentEvent, AgentReads, AgentWrites,
       AgentHandles, ContainerLogs, GuestStep, reportVars
  <2>2. pc' \notin Early
    BY <1>4 DEF GuestRuns, Halt, GuestDies, OtherExit, AgentEvent, AgentReads, AgentWrites,
       AgentHandles, ContainerLogs, GuestStep, Early
  <2>3. len \in [Services -> Nat]
    BY DEF CaptureTyped
  <2>4. len' = len \/ \E s \in Services : len' = [len EXCEPT ![s] = @ + 1]
    BY <1>4 DEF GuestRuns, Halt, GuestDies, OtherExit, AgentEvent, AgentReads, AgentWrites,
       AgentHandles, ContainerLogs, GuestStep
  <2>5. len' \in [Services -> Nat] /\ \A s \in Services : len[s] <= len'[s]
    <3>1. CASE len' = len
      BY <2>3, <3>1
    <3>2. CASE \E s \in Services : len' = [len EXCEPT ![s] = @ + 1]
      <4>1. PICK s \in Services : len' = [len EXCEPT ![s] = @ + 1]
        BY <3>2
      <4> QED
        BY <2>3, <4>1
    <3> QED
      BY <2>4, <3>1, <3>2
  <2> QED
    BY <2>1, <2>2, <2>5
<1>5. CASE UNCHANGED vars
  <2>1. UNCHANGED <<pc, base, len, warned, fault>>
    BY <1>5 DEF vars, reportVars
  <2> QED
    BY <2>1 DEF CaptureTyped
<1> QED
  BY <1>1, <1>2, <1>3, <1>4, <1>5 DEF Next, HostStep

\* A file of which the pulled part stays, while its log may grow.
LEMMA SameFile ==
  ASSUME CaptureTyped, len' \in [Services -> Nat], base' = base, NEW s \in Services,
         len[s] <= len'[s], file'[s].pull = file[s].pull
  PROVE  /\ (\E n \in 0..len[s] : HoldsPrefix(s, n)) => \E n \in 0..len'[s] : HoldsPrefix(s, n)'
         /\ (\E n \in base[s]..len[s] : HoldsPrefix(s, n)) =>
              \E n \in base'[s]..len'[s] : HoldsPrefix(s, n)'
<1>1. len[s] \in Nat /\ len'[s] \in Nat /\ base[s] \in Nat
  BY DEF CaptureTyped
<1>2. \A n : HoldsPrefix(s, n) => HoldsPrefix(s, n)'
  BY DEF HoldsPrefix
<1>3. \A n \in 0..len[s] : n \in 0..len'[s]
  BY <1>1
<1>4. \A n \in base[s]..len[s] : n \in base'[s]..len'[s]
  BY <1>1
<1> QED
  BY <1>2, <1>3, <1>4

\* format_k8s_logs on what was captured: an empty line is where the log has one.
LEMMA FormatIs ==
  ASSUME NEW r \in Seq(Nat), \A k \in 1..Len(r) : Faithful(r[k], k), NEW s,
         file'[s].pull = FormatK8s(r)
  PROVE  HoldsPrefix(s, Len(r))'
<1> DEFINE pull == FormatK8s(r)
           n == Len(r)
<1>1. n \in Nat /\ DOMAIN r = 1..n
  BY LenProperties
<1>2. ASSUME NEW k \in 1..n
      PROVE  r[k] \in Blank <=> k \in Blank
  <2>1. CASE r[k] = k
    BY <2>1
  <2>2. CASE r[k] # k
    <3>1. r[k] = 0 /\ {k - 1, k} \cap Wide # {}
      BY <2>2 DEF Faithful, Lost
    <3>2. 0 \notin Blank
      BY CaptureAssumption
    <3>3. CASE k \in Wide
      BY <3>1, <3>2, <3>3, CaptureAssumption
    <3>4. CASE k - 1 \in Wide
      <4>1. (k - 1) + 1 \notin Blank
        BY <3>4, CaptureAssumption
      <4>2. (k - 1) + 1 = k
        BY <1>1
      <4> QED
        BY <3>1, <3>2, <4>1, <4>2
    <3> QED
      BY <3>1, <3>3, <3>4
  <2> QED
    BY <2>1, <2>2
<1>3. DOMAIN pull = {k \in 1..n : r[k] \notin Blank} /\ \A k \in DOMAIN pull : pull[k] = r[k]
  BY <1>1 DEF FormatK8s
<1>4. DOMAIN pull = 1..n \ Blank
  BY <1>2, <1>3
<1>5. \A k \in DOMAIN pull : pull[k] # k => pull[k] = Lost /\ {k - 1, k} \cap Wide # {}
  BY <1>3 DEF Faithful
<1> HIDE DEF pull, n
<1>6. file'[s].pull = pull
  BY DEF pull
<1> QED
  BY <1>4, <1>5, <1>6 DEF HoldsPrefix, n

LEMMA FileInit == Init => FileInv
<1> SUFFICES ASSUME Init
             PROVE  FileInv
  OBVIOUS
<1>1. pulled = {} /\ \A s \in Stems : file[s].pull = None
  BY DEF Init, NoFile
<1> QED
  BY <1>1 DEF FileInv, NotYetPulled, PrefixInv, CompleteInv, Stems

\* A step that writes to no file.
LEMMA FileQuiet ==
  ASSUME CaptureTyped, ScanTyped, FileInv, UNCHANGED <<file, handle, pulled>>,
         base' = base, len' \in [Services -> Nat], \A s \in Services : len[s] <= len'[s],
         warned \subseteq warned', pc' \in Early => pc \in Early
  PROVE  FileInv'
<1>1. NotYetPulled'
  BY DEF FileInv, NotYetPulled
<1>2. PrefixInv'
  <2> SUFFICES ASSUME NEW s \in Services, file'[s].pull # None
               PROVE  \E n \in 0..len'[s] : HoldsPrefix(s, n)'
    BY DEF PrefixInv
  <2>1. \E n \in 0..len[s] : HoldsPrefix(s, n)
    BY DEF FileInv, PrefixInv
  <2> QED
    BY <2>1, SameFile
<1>3. CompleteInv'
  <2> SUFFICES ASSUME NEW s \in pulled' \ warned', handle'[s] # "late"
               PROVE  \E n \in base'[s]..len'[s] : HoldsPrefix(s, n)'
    BY DEF CompleteInv
  <2>1. s \in Services /\ s \in pulled \ warned /\ handle[s] # "late"
    BY DEF ScanTyped
  <2>2. \E n \in base[s]..len[s] : HoldsPrefix(s, n)
    BY <2>1 DEF FileInv, CompleteInv
  <2> QED
    BY <2>1, <2>2, SameFile
<1> QED
  BY <1>1, <1>2, <1>3 DEF FileInv

\* The scan's append keeps the pulled text, or cuts the file and is late.
LEMMA FileEmits ==
  ASSUME CaptureTyped, ScanTyped, FileInv, EmitsLine \/ FlushesTail
  PROVE  FileInv'
<1>1. /\ pc' = pc /\ pc \in {"running", "flush"} /\ UNCHANGED <<pulled, len, base>>
  BY EmitIs
<1>2. PICK line \in Seq(PrintedUnits) : AppendLine(line)
  BY EmitIs
<1>3. PICK stem \in Stems : Refused(stem) \/ Failed(stem) \/ Extended(stem, line)
  BY <1>2, AppendIs
<1>4. len' \in [Services -> Nat] /\ \A s \in Services : len[s] \in Nat /\ len[s] <= len'[s]
  BY <1>1 DEF CaptureTyped
<1>5. CASE Refused(stem)
  BY <1>1, <1>4, <1>5, FileQuiet DEF Refused
<1>6. CASE Failed(stem)
  <2>1. file' = file /\ warned \subseteq warned' /\ stem \in warned'
    BY <1>6 DEF Failed
  <2>2. \A s \in Stems : s # stem => handle'[s] = handle[s]
    BY <1>6 DEF Failed, ScanTyped
  <2>3. NotYetPulled'
    BY <1>1, <2>1 DEF FileInv, NotYetPulled
  <2>4. PrefixInv'
    <3> SUFFICES ASSUME NEW s \in Services, file'[s].pull # None
                 PROVE  \E n \in 0..len'[s] : HoldsPrefix(s, n)'
      BY DEF PrefixInv
    <3>1. \E n \in 0..len[s] : HoldsPrefix(s, n)
      BY <2>1 DEF FileInv, PrefixInv
    <3> QED
      BY <1>1, <1>4, <2>1, <3>1, SameFile
  <2>5. CompleteInv'
    <3> SUFFICES ASSUME NEW s \in pulled' \ warned', handle'[s] # "late"
                 PROVE  \E n \in base'[s]..len'[s] : HoldsPrefix(s, n)'
      BY DEF CompleteInv
    <3>1. s \in Services /\ s \in pulled \ warned /\ handle[s] # "late"
      BY <1>1, <2>1, <2>2 DEF ScanTyped, Stems
    <3>2. \E n \in base[s]..len[s] : HoldsPrefix(s, n)
      BY <3>1 DEF FileInv, CompleteInv
    <3> QED
      BY <1>1, <1>4, <2>1, <3>1, <3>2, SameFile
  <2> QED
    BY <2>3, <2>4, <2>5 DEF FileInv
<1>7. CASE Extended(stem, line)
  <2>1. \A s \in Stems : \/ file'[s].pull = file[s].pull /\ handle'[s] = handle[s]
                         \/ file'[s].pull = None /\ handle'[s] = OpensAs
    BY <1>7 DEF Extended
  <2>2. warned' = warned
    BY <1>7 DEF Extended
  <2>3. Services \subseteq Stems
    BY DEF Stems
  <2>4. NotYetPulled'
    BY <1>1, <2>1, <2>3 DEF FileInv, NotYetPulled
  <2>5. PrefixInv'
    <3> SUFFICES ASSUME NEW s \in Services, file'[s].pull # None
                 PROVE  \E n \in 0..len'[s] : HoldsPrefix(s, n)'
      BY DEF PrefixInv
    <3>1. file'[s].pull = file[s].pull
      BY <2>1, <2>3
    <3>2. \E n \in 0..len[s] : HoldsPrefix(s, n)
      BY <3>1 DEF FileInv, PrefixInv
    <3> QED
      BY <1>1, <1>4, <3>1, <3>2, SameFile
  <2>6. CompleteInv'
    <3> SUFFICES ASSUME NEW s \in pulled' \ warned', handle'[s] # "late"
                 PROVE  \E n \in base'[s]..len'[s] : HoldsPrefix(s, n)'
      BY DEF CompleteInv
    <3>1. s \in Services /\ s \in pulled \ warned /\ s \in Stems
      BY <1>1, <2>2, <2>3 DEF ScanTyped
    <3>2. pc = "flush"
      BY <1>1, <3>1 DEF FileInv, NotYetPulled, Early
    <3>3. OpensAs = "late"
      BY <3>2 DEF OpensAs
    <3>4. file'[s].pull = file[s].pull /\ handle[s] # "late"
      BY <2>1, <3>1, <3>3
    <3>5. \E n \in base[s]..len[s] : HoldsPrefix(s, n)
      BY <3>1, <3>4 DEF FileInv, CompleteInv
    <3> QED
      BY <1>1, <1>4, <3>1, <3>4, <3>5, SameFile
  <2> QED
    BY <2>4, <2>5, <2>6 DEF FileInv
<1> QED
  BY <1>3, <1>5, <1>6, <1>7

\* A pulled file is the log up to the cursor, and all of it unless warned about.
LEMMA FileWrites ==
  ASSUME CaptureTyped, LineInv, PageInv, ScanTyped, FileInv, CloseService \/ Aborted
  PROVE  FileInv'
<1>1. /\ UNCHANGED <<handle, len, base>>
      /\ pc' \in {"ask", "finish"} /\ pc \in {"close", "dead"}
  BY WriteSteps
<1>2. /\ pc' \notin Early /\ len' \in [Services -> Nat]
      /\ \A s \in Services : len[s] \in Nat /\ len[s] <= len'[s]
  BY <1>1 DEF CaptureTyped, Early
<1>3. CASE UNCHANGED <<file, pulled, warned, fault>>
  BY <1>1, <1>2, <1>3, FileQuiet
<1>4. ASSUME svc > 0, ThisService \in Services, NEW warn, WriteFile(warn),
             pc = "dead" => ThisService \in warn
      PROVE  FileInv'
  <2>1. CASE NotWritten(warn)
    BY <1>1, <1>2, <2>1, FileQuiet DEF NotWritten
  <2>2. CASE Written(warn)
    <3>10. PICK t \in Services : t = ThisService
      BY <1>4
    <3>11. PICK r \in Seq(Nat) : r = raw
      BY DEF CaptureTyped
    <3>1. /\ file'[t].pull = FormatK8s(r)
          /\ \A s \in Stems \ {t} : file'[s] = file[s]
          /\ pulled' = pulled \cup {t} /\ warned' = warned \cup warn
      BY <2>2, <3>10, <3>11 DEF Written
    <3>2. Len(r) \in Nat /\ base[t] \in Nat /\ len[t] \in Nat
      BY LenProperties DEF CaptureTyped
    <3>3. /\ \A k \in 1..Len(r) : Faithful(r[k], k)
          /\ Len(r) <= len[t]
          /\ pc = "close" => Len(r) >= base[t] \/ t \in warned
      BY <1>1, <1>4, <3>10, <3>11 DEF PageInv, Capturing
    <3>4. HoldsPrefix(t, Len(r))'
      BY <3>1, <3>3, FormatIs
    <3>5. Len(r) \in 0..len'[t] /\ (t \notin warned' => Len(r) \in base'[t]..len'[t])
      <4>1. t \notin warned' => Len(r) >= base[t]
        BY <1>1, <1>4, <3>1, <3>3, <3>10
      <4> QED
        BY <1>1, <3>2, <3>3, <4>1
    <3>6. ASSUME NEW s \in Services, s # t
          PROVE  file'[s].pull = file[s].pull
      BY <3>1, <3>6 DEF Stems
    <3>7. PrefixInv'
      <4> SUFFICES ASSUME NEW s \in Services, file'[s].pull # None
                   PROVE  \E n \in 0..len'[s] : HoldsPrefix(s, n)'
        BY DEF PrefixInv
      <4>1. CASE s = t
        BY <3>4, <3>5, <4>1
      <4>2. CASE s # t
        <5>1. file'[s].pull = file[s].pull
          BY <3>6, <4>2
        <5>2. \E n \in 0..len[s] : HoldsPrefix(s, n)
          BY <5>1 DEF FileInv, PrefixInv
        <5> QED
          BY <1>1, <1>2, <5>1, <5>2, SameFile
      <4> QED
        BY <4>1, <4>2
    <3>8. CompleteInv'
      <4> SUFFICES ASSUME NEW s \in pulled' \ warned', handle'[s] # "late"
                   PROVE  \E n \in base'[s]..len'[s] : HoldsPrefix(s, n)'
        BY DEF CompleteInv
      <4>1. CASE s = t
        BY <3>4, <3>5, <4>1
      <4>2. CASE s # t
        <5>1. s \in Services /\ s \in pulled \ warned /\ handle[s] # "late"
          BY <1>1, <3>1, <4>2 DEF ScanTyped
        <5>2. file'[s].pull = file[s].pull
          BY <3>6, <4>2, <5>1
        <5>3. \E n \in base[s]..len[s] : HoldsPrefix(s, n)
          BY <5>1 DEF FileInv, CompleteInv
        <5> QED
          BY <1>1, <1>2, <5>1, <5>2, <5>3, SameFile
      <4> QED
        BY <4>1, <4>2
    <3>9. NotYetPulled'
      BY <1>2 DEF NotYetPulled
    <3> QED
      BY <3>7, <3>8, <3>9 DEF FileInv
  <2> QED
    BY <1>4, <2>1, <2>2, WriteIs
<1> QED
  BY <1>1, <1>3, <1>4, WriteSteps

LEMMA FileNext ==
  CaptureTyped /\ LineInv /\ PageInv /\ ScanTyped /\ FileInv /\ [Next]_vars => FileInv'
<1> SUFFICES ASSUME CaptureTyped, LineInv, PageInv, ScanTyped, FileInv, [Next]_vars
             PROVE  FileInv'
  OBVIOUS
<1>1. CASE RunStops
  <2>1. pc = "running" /\ UNCHANGED <<file, pulled>> /\ pc' \notin Early
    BY <1>1 DEF RunStops, reportVars, Early
  <2>2. pulled' = {} /\ \A s \in Services : file'[s].pull = None
    BY <2>1 DEF FileInv, NotYetPulled, Early
  <2> QED
    BY <2>1, <2>2 DEF FileInv, NotYetPulled, PrefixInv, CompleteInv
<1>2. CASE ~RunStops /\ UNCHANGED <<file, handle, pulled>>
  BY <1>2, Grows, FileQuiet
<1>3. Beside \/ Prints \/ Drains \/ FinishDrains \/ WallTimeout => UNCHANGED <<file, handle, pulled>>
  BY BesideIs, TeeIs, DrainIs DEF WallTimeout
<1> QED
  BY <1>1, <1>2, <1>3, FileEmits, FileWrites, Steps

LEMMA PrefixKept ==
  CaptureTyped /\ ScanTyped /\ FileInv /\ ConsoleInv => CapturedIsPrefix
<1> SUFFICES ASSUME ScanTyped, FileInv, ConsoleInv, NEW s \in Services
             PROVE  /\ file[s].pull # None => \E n \in 0..len[s] : HoldsPrefix(s, n)
                    /\ \A j, k \in DOMAIN file[s].con :
                         j < k => file[s].con[j].i < file[s].con[k].i
  BY DEF CapturedIsPrefix
<1>1. /\ file[s].con \in Seq(PrintedUnits) /\ Unwritten \in Seq(PrintedUnits)
      /\ Ordered(file[s].con \o Unwritten, printed)
  BY ConcatProperties DEF ScanTyped, ConsoleInv, Unwritten, Stems
<1>2. Ordered(file[s].con, printed)
  BY <1>1, OrderedParts
<1>3. DOMAIN file[s].con = 1..Len(file[s].con)
  BY <1>1, LenProperties
<1> QED
  BY <1>2, <1>3 DEF Ordered, FileInv, PrefixInv

\* A log file holds a contiguous piece of its service's log from the first byte
\* on, whatever pages, events and appends of the console scan come between, for
\* any chunk size and any logs, and then the console's units in the order they
\* were printed (capture_logs, read_log_chunk, format_k8s_logs, open_file).
THEOREM PulledIsPrefix == Spec => []CapturedIsPrefix
<1> DEFINE Inv == CaptureTyped /\ LineInv /\ PageInv /\ ScanTyped /\ FileInv /\ ConsoleInv
<1>1. Init => Inv
  BY LineInit, PageInit, ScanInit, FileInit, ConsoleInit
<1>2. Inv /\ [Next]_vars => Inv'
  BY LineNext, PageNext, ScanNext, FileNext, ConsoleNext
<1>3. Inv => CapturedIsPrefix
  BY PrefixKept
<1> QED
  BY <1>1, <1>2, <1>3, PTL DEF Spec
-----------------------------------------------------------------------------
(* Nothing is missing without a warning. *)

\* The services that are passed over have unsafe names.
LEMMA SkippedUnsafe ==
  ASSUME svc \in Nat, svc <= Len(ServiceSeq)
  PROVE  Skipped(svc) \subseteq Unsafe
<1>1. svc \in 0..Len(ServiceSeq)
  BY CaptureAssumption, LenProperties
<1>2. \A j \in svc + 1..NextService(svc) - 1 : ServiceSeq[j] \in Unsafe
  BY <1>1, NextServiceIs
<1> QED
  BY <1>2 DEF Skipped

LEMMA WarnedNext ==
  CaptureTyped /\ LineInv /\ PageInv /\ ScanTyped /\ WarnedInv /\ [Next]_vars => WarnedInv'
<1> SUFFICES ASSUME CaptureTyped, LineInv, PageInv, ScanTyped, WarnedInv, [Next]_vars
             PROVE  WarnedInv'
  OBVIOUS
<1>1. CASE RunStops
  BY <1>1 DEF RunStops, reportVars, WarnedInv
<1>2. ASSUME ~RunStops
      PROVE  fault \subseteq fault'
  BY <1>2, Grows
<1>3. CASE ~RunStops /\ (warned' \ Unsafe \subseteq warned \/ fault' # {})
  BY <1>2, <1>3 DEF WarnedInv
<1>4. svc \in Nat /\ (pc \in Capturing => svc <= Len(ServiceSeq))
  BY DEF CaptureTyped, LineInv, AtService, Capturing
<1>5. CASE GaveUp
  <2>1. fault' = fault /\ fault # {}
    BY <1>5 DEF GaveUp, LineInv, AtRest, Overdue
  <2> QED
    BY <2>1 DEF WarnedInv
<1>6. CASE PollLine
  <2> DEFINE l == tx[1].line
  <2>1. pc = "poll" /\ fault' = fault
    BY <1>6 DEF PollLine
  <2>2. CASE warned' = warned
    BY <2>1, <2>2 DEF WarnedInv
  <2>3. CASE OnPing(l)
    <3>1. Skipped(0) \subseteq Unsafe
      BY <1>4, <2>1, <2>3, SkippedUnsafe DEF OnPing, Capturing, Waiting
    <3>2. warned' \subseteq warned \cup Skipped(0)
      BY <2>3 DEF OnPing
    <3> QED
      BY <2>1, <3>1, <3>2 DEF WarnedInv
  <2>4. CASE OnPage(l) /\ Answers(l)
    BY <2>1, <2>4 DEF OnPage, Answers, WarnedInv
  <2> QED
    BY <1>6, <2>2, <2>3, <2>4, PolledReply
<1>7. CASE EmitsLine \/ FlushesTail
  <2>1. PICK line \in Seq(PrintedUnits) : AppendLine(line)
    BY <1>7, EmitIs
  <2>2. (warned' = warned /\ fault' = fault) \/ fault' # {}
    BY <2>1, AppendIs DEF Refused, Failed, Extended
  <2> QED
    BY <2>2 DEF WarnedInv
<1>8. CASE CloseService \/ Aborted
  <2>1. CASE UNCHANGED <<file, pulled, warned, fault>>
    BY <2>1 DEF WarnedInv
  <2>2. CASE /\ svc <= Len(ServiceSeq) /\ ThisService \in Services
             /\ pc = "close" /\ WriteFile(Skipped(svc))
    <3>1. Skipped(svc) \subseteq Unsafe
      BY <1>4, <2>2, SkippedUnsafe
    <3>2. (warned' = warned \cup Skipped(svc) /\ fault' = fault) \/ fault' # {}
      BY <2>2 DEF WriteFile
    <3> QED
      BY <3>1, <3>2 DEF WarnedInv
  <2>3. CASE pc = "dead" /\ WriteFile({ThisService})
    <3>1. fault' # {}
      BY <2>3 DEF WriteFile, PageInv
    <3> QED
      BY <3>1 DEF WarnedInv
  <2> QED
    BY <1>8, <2>1, <2>2, <2>3, WriteSteps
<1>9. CASE \/ Prepare \/ ArmsWatchdog \/ Boots \/ RunFails \/ Fatal \/ Finish \/ WallTimeout
           \/ Prints \/ Drains \/ FinishDrains \/ ParkHorizon \/ ParkReturns
           \/ (\E w : BudgetRunsOut(w)) \/ Ask \/ Boundary \/ Enter \/ GuestRuns \/ UNCHANGED vars
  <2>1. warned' = warned
    <3>1. CASE Prepare \/ ArmsWatchdog \/ Boots \/ RunFails \/ Fatal \/ Finish \/ WallTimeout
      BY <3>1 DEF Prepare, ArmsWatchdog, Boots, RunFails, Fatal, Finish, WallTimeout,
         notYetRunning, reportVars
    <3>2. CASE \/ Prints \/ Drains \/ FinishDrains \/ ParkHorizon \/ ParkReturns
               \/ (\E w : BudgetRunsOut(w)) \/ Ask \/ Boundary \/ Enter \/ UNCHANGED vars
      BY <3>2 DEF Prints, Drains, FinishDrains, ParkHorizon, ParkReturns, BudgetRunsOut, Ask,
         Boundary, Enter, vars, reportVars
    <3>3. CASE GuestRuns
      BY <3>3 DEF GuestRuns, Halt, GuestDies, OtherExit, AgentEvent, AgentReads, AgentWrites,
         AgentHandles, ContainerLogs, GuestStep, reportVars
    <3> QED
      BY <1>9, <3>1, <3>2, <3>3
  <2> QED
    BY <1>1, <1>3, <2>1
<1> QED
  BY <1>1, <1>5, <1>6, <1>7, <1>8, <1>9 DEF Next, HostStep

Holds(q, i) == \E k \in 1..Len(q) : q[k].i = i

\* Nothing went wrong with the console's own files.
Lossless == watchdog # "fired" /\ pulled = {} /\ fault \cap {"tee", "write"} = {}

\* Everything printed is in a file or on its way to one.
KeptInv ==
  /\ \A s \in Stems : handle[s] = "none" => file[s].con = <<>>
  /\ \A s \in Stems : handle[s] = "gone" => "write" \in fault
  /\ pc = "flush" => tee = <<>>
  /\ pc = "exited" /\ stop # None => tee = <<>> /\ partial = <<>>
  /\ watchdog = "fired" => pc = "exited"
  /\ Lossless => \A i \in 1..printed : Holds(Unwritten, i) \/ \E s \in Stems : Holds(file[s].con, i)

LEMMA HoldsConcat ==
  ASSUME NEW a \in Seq(PrintedUnits), NEW b \in Seq(PrintedUnits), NEW i
  PROVE  Holds(a \o b, i) <=> Holds(a, i) \/ Holds(b, i)
<1>1. /\ Len(a) \in Nat /\ Len(b) \in Nat /\ Len(a \o b) = Len(a) + Len(b)
      /\ \A k \in 1..Len(a) : k \in 1..Len(a \o b) /\ (a \o b)[k] = a[k]
      /\ \A k \in 1..Len(b) : Len(a) + k \in 1..Len(a \o b) /\ (a \o b)[Len(a) + k] = b[k]
  OBVIOUS
<1>2. ASSUME NEW k \in 1..Len(a \o b)
      PROVE  k \in 1..Len(a) \/ \E j \in 1..Len(b) : k = Len(a) + j
  <2>1. k \notin 1..Len(a) => k - Len(a) \in 1..Len(b) /\ k = Len(a) + (k - Len(a))
    BY <1>1
  <2> QED
    BY <2>1
<1>3. Holds(a, i) \/ Holds(b, i) => Holds(a \o b, i)
  BY <1>1 DEF Holds
<1>4. Holds(a \o b, i) => Holds(a, i) \/ Holds(b, i)
  BY <1>1, <1>2 DEF Holds
<1> QED
  BY <1>3, <1>4

LEMMA KeptInit == Init => KeptInv
  BY DEF Init, KeptInv, NoFile

\* The control around the files.
LEMMA BesideControl ==
  ASSUME Beside, ExitInv
  PROVE  \/ UNCHANGED <<pc, stop, watchdog, fault>>
         \/ /\ pc # "exited" /\ pc' # "flush" /\ watchdog' \in {"off", "armed", watchdog}
            /\ fault \subseteq fault'
            /\ pc' = "exited" => stop' = None \/ (pc = "flush" /\ partial = <<>>)
<1>1. CASE Prepare \/ ArmsWatchdog \/ Boots \/ RunFails \/ Fatal
  <2>1. stop = None /\ stop' = stop /\ fault' = fault
    BY <1>1 DEF Prepare, ArmsWatchdog, Boots, RunFails, Fatal, notYetRunning, ExitInv, Early
  <2> QED
    BY <1>1, <2>1 DEF Prepare, ArmsWatchdog, Boots, RunFails, Fatal
<1>2. CASE Finish \/ RunStops
  BY <1>2 DEF Finish, RunStops
<1>3. CASE GaveUp \/ ParkHorizon \/ ParkReturns \/ (\E w : BudgetRunsOut(w))
  BY <1>3 DEF GaveUp, ParkHorizon, ParkReturns, BudgetRunsOut, hostVars
<1>4. CASE Ask \/ Boundary \/ PollLine \/ Enter
  BY <1>4 DEF Ask, Boundary, PollLine, OnPing, OnPage, Advance, Enter, hostVars
<1>5. CASE GuestRuns
  BY <1>5 DEF GuestRuns, Halt, GuestDies, OtherExit, AgentEvent, AgentReads, AgentWrites,
     AgentHandles, ContainerLogs, GuestStep, hostVars
<1>6. CASE UNCHANGED vars
  BY <1>6 DEF vars, hostVars
<1> QED
  BY <1>1, <1>2, <1>3, <1>4, <1>5, <1>6 DEF Beside

LEMMA KeptBeside ==
  ASSUME ExitInv, KeptInv, Beside
  PROVE  KeptInv'
<1>1. UNCHANGED <<printed, tee, partial, handle, file, pulled>> /\ Unwritten' = Unwritten
  BY BesideIs DEF Unwritten
<1>2. CASE UNCHANGED <<pc, stop, watchdog, fault>>
  BY <1>1, <1>2 DEF KeptInv, Lossless
<1>3. CASE /\ pc # "exited" /\ pc' # "flush" /\ watchdog' \in {"off", "armed", watchdog}
           /\ fault \subseteq fault'
           /\ pc' = "exited" => stop' = None \/ (pc = "flush" /\ partial = <<>>)
  <2>1. watchdog # "fired" /\ watchdog' # "fired"
    BY <1>3 DEF KeptInv
  <2>2. Lossless' => Lossless
    BY <1>1, <1>3, <2>1 DEF Lossless
  <2>3. pc' = "exited" /\ stop' # None => tee' = <<>> /\ partial' = <<>>
    BY <1>1, <1>3 DEF KeptInv
  <2> QED
    BY <1>1, <1>3, <2>1, <2>2, <2>3 DEF KeptInv
<1> QED
  BY <1>2, <1>3, BesideControl

LEMMA KeptPrints ==
  ASSUME ScanTyped, KeptInv, Prints
  PROVE  KeptInv'
<1> DEFINE u == PrintUnit(printed + 1)
           P == PrintedUnits
<1>1. /\ u \in P /\ u.i = printed + 1 /\ printed' = printed + 1 /\ partial' = partial
      /\ tee' = Append(tee, u) \/ "tee" \in fault'
      /\ fault \subseteq fault'
      /\ UNCHANGED <<handle, file, pulled, watchdog, stop>>
      /\ pc \in {"running", "guest"} /\ pc' \in {"running", "boundary"}
  BY TeeIs
<1>2. partial \in Seq(P) /\ tee \in Seq(P) /\ printed \in Nat
  BY DEF ScanTyped
<1> HIDE DEF u, P
<1>3. ASSUME Lossless', NEW i \in 1..printed'
      PROVE  Holds(Unwritten', i) \/ \E s \in Stems : Holds(file'[s].con, i)
  <2>1. tee' = Append(tee, u) /\ Lossless
    BY <1>1, <1>3 DEF Lossless
  <2>2. <<u>> \in Seq(P) /\ Append(tee, u) = tee \o <<u>> /\ partial \o tee \in Seq(P)
    BY <1>1, <1>2, AppendIsConcat, ConcatProperties
  <2>3. partial \o (tee \o <<u>>) = (partial \o tee) \o <<u>>
    BY <1>2, <2>2, Assoc
  <2>4. Unwritten' = Unwritten \o <<u>> /\ Unwritten \in Seq(P)
    BY <1>1, <2>1, <2>2, <2>3, Zenon DEF Unwritten
  <2>5. Holds(Unwritten', i) <=> Holds(Unwritten, i) \/ Holds(<<u>>, i)
    BY <2>2, <2>4, HoldsConcat DEF P
  <2>6. CASE i = printed + 1
    <3>1. 1 \in 1..Len(<<u>>) /\ <<u>>[1].i = i
      BY <1>1, <2>6
    <3> QED
      BY <2>5, <3>1 DEF Holds
  <2>7. CASE i # printed + 1
    <3>1. i \in 1..printed
      BY <1>1, <1>2, <2>7
    <3> QED
      BY <1>1, <2>1, <2>5, <3>1 DEF KeptInv
  <2> QED
    BY <2>6, <2>7
<1> QED
  BY <1>1, <1>3 DEF KeptInv

LEMMA KeptEmits ==
  ASSUME ScanTyped, KeptInv, EmitsLine \/ FlushesTail
  PROVE  KeptInv'
<1> DEFINE P == PrintedUnits
<1>1. /\ pc' = pc /\ pc \in {"running", "flush"}
      /\ UNCHANGED <<printed, tee, pulled, watchdog, stop>> /\ partial' \in Seq(P)
  BY EmitIs
<1>2. PICK line \in Seq(P) : AppendLine(line) /\ Unwritten = line \o Unwritten'
  BY EmitIs
<1>3. PICK stem \in Stems : Refused(stem) \/ Failed(stem) \/ Extended(stem, line)
  BY <1>2, AppendIs
<1>4. handle \in [Stems -> {"none", "open", "late", "gone"}]
  BY DEF ScanTyped
<1>5. CASE Refused(stem)
  <2>1. UNCHANGED <<file, handle, fault>> /\ "write" \in fault
    BY <1>5 DEF Refused, KeptInv
  <2> QED
    BY <1>1, <2>1 DEF KeptInv, Lossless
<1>6. CASE Failed(stem)
  <2>1. file' = file /\ "write" \in fault' /\ fault \subseteq fault'
    BY <1>6 DEF Failed
  <2>2. \A s \in Stems : handle'[s] = "none" => handle[s] = "none"
    BY <1>4, <1>6 DEF Failed
  <2> QED
    BY <1>1, <2>1, <2>2 DEF KeptInv, Lossless
<1>7. CASE Extended(stem, line)
  <2>1. /\ fault' = fault
        /\ \A s \in Stems \ {stem} : file'[s] = file[s] /\ handle'[s] = handle[s]
    BY <1>7 DEF Extended
  <2>2. OpensAs \in {"open", "late"}
    BY DEF OpensAs
  <2>3. handle'[stem] # "none" /\ (handle'[stem] = "gone" => handle[stem] = "gone")
    BY <1>7, <2>2 DEF Extended
  <2>4. file'[stem].con = file[stem].con \o line
    BY <1>7 DEF Extended, KeptInv
  <2>5. \A s \in Stems : handle'[s] = "none" => file'[s].con = <<>>
    BY <2>1, <2>3 DEF KeptInv
  <2>6. \A s \in Stems : handle'[s] = "gone" => "write" \in fault'
    BY <2>1, <2>3 DEF KeptInv
  <2>7. Lossless' => Lossless
    BY <1>1, <2>1 DEF Lossless
  <2>8. ASSUME Lossless, NEW i \in 1..printed
        PROVE  Holds(Unwritten', i) \/ \E s \in Stems : Holds(file'[s].con, i)
    <3>1. Holds(Unwritten, i) \/ \E s \in Stems : Holds(file[s].con, i)
      BY <2>8 DEF KeptInv
    <3>2. Unwritten' \in Seq(P) /\ file[stem].con \in Seq(P)
      BY <1>1, ConcatProperties DEF ScanTyped, Unwritten
    <3>3. Holds(Unwritten, i) <=> Holds(line, i) \/ Holds(Unwritten', i)
      BY <1>2, <3>2, HoldsConcat
    <3>4. Holds(file'[stem].con, i) <=> Holds(file[stem].con, i) \/ Holds(line, i)
      BY <2>4, <3>2, HoldsConcat
    <3> QED
      BY <2>1, <3>1, <3>3, <3>4
  <2> QED
    BY <1>1, <2>5, <2>6, <2>7, <2>8 DEF KeptInv
<1> QED
  BY <1>3, <1>5, <1>6, <1>7

LEMMA KeptNext ==
  ExitInv /\ CaptureTyped /\ LineInv /\ ScanTyped /\ KeptInv /\ [Next]_vars => KeptInv'
<1> SUFFICES ASSUME ExitInv, CaptureTyped, LineInv, ScanTyped, KeptInv, [Next]_vars
             PROVE  KeptInv'
  OBVIOUS
<1>1. CASE Drains \/ FinishDrains
  <2>1. /\ tee' = <<>> /\ Unwritten' = Unwritten
        /\ UNCHANGED <<printed, handle, file, pulled, fault, watchdog, stop>>
        /\ pc \in {"running", "finish"} /\ pc' \in {"running", "flush"}
    BY <1>1, DrainIs
  <2> QED
    BY <2>1 DEF KeptInv, Lossless
<1>2. CASE WallTimeout
  BY <1>2 DEF WallTimeout, KeptInv, Lossless
<1>3. CASE CloseService \/ Aborted
  <2>1. /\ UNCHANGED <<printed, tee, partial, handle, watchdog, stop>>
        /\ pc' \in {"ask", "finish"} /\ pc \in {"close", "dead"} /\ Unwritten' = Unwritten
    BY <1>3, WriteSteps DEF Unwritten
  <2>2. CASE UNCHANGED <<file, pulled, warned, fault>>
    BY <2>1, <2>2 DEF KeptInv, Lossless
  <2>3. CASE ThisService \in Services /\ \E warn : WriteFile(warn)
    <3>1. PICK warn : WriteFile(warn)
      BY <2>3
    <3>2. Written(warn) \/ NotWritten(warn)
      BY <2>3, <3>1, WriteIs
    <3>3. ~Lossless' /\ fault \subseteq fault'
      BY <3>2 DEF Written, NotWritten, Lossless
    <3>4. \A s \in Stems : file'[s].con = file[s].con \/ file'[s].con = <<>>
      BY <3>2 DEF Written, NotWritten
    <3> QED
      BY <2>1, <3>3, <3>4 DEF KeptInv
  <2> QED
    BY <1>3, <2>2, <2>3, WriteSteps
<1> QED
  BY <1>1, <1>2, <1>3, KeptBeside, KeptPrints, KeptEmits, Steps

LEMMA NothingMissing ==
  ExitInv /\ ScanTyped /\ FileInv /\ WarnedInv /\ KeptInv => NothingIsMissingSilently
<1> SUFFICES ASSUME ExitInv, ScanTyped, FileInv, WarnedInv, KeptInv
             PROVE  NothingIsMissingSilently
  OBVIOUS
<1>1. ASSUME exit # None, stop # None, Lossless, NEW i \in 1..printed
      PROVE  InSomeFile(i)
  <2>1. tee = <<>> /\ partial = <<>>
    BY <1>1 DEF ExitInv, KeptInv
  <2>2. Len(Unwritten) = 0
    BY <2>1 DEF Unwritten
  <2>3. ~Holds(Unwritten, i)
    BY <2>2 DEF Holds
  <2>4. PICK s \in Stems : Holds(file[s].con, i)
    BY <1>1, <2>3 DEF KeptInv
  <2>5. DOMAIN file[s].con = 1..Len(file[s].con)
    BY LenProperties DEF ScanTyped
  <2> QED
    BY <2>4, <2>5 DEF InSomeFile, Holds
<1> QED
  BY <1>1 DEF NothingIsMissingSilently, FileInv, CompleteInv, WarnedInv, Lossless

\* A pulled file that lacks something logged before the stop was warned about, or
\* cut by the scan's last flush; a warning means that something did fail; and
\* where nothing was pulled and nothing failed, everything printed is in a file
\* at the exit (capture_logs, ConsoleScan::append, finish).
THEOREM NothingIsSilent == Spec => []NothingIsMissingSilently
<1> DEFINE Inv == /\ ExitInv /\ CaptureTyped /\ LineInv /\ PageInv /\ ScanTyped /\ FileInv
                  /\ WarnedInv /\ KeptInv
<1>1. Init => Inv
  <2>1. Init => WarnedInv
    BY DEF Init, WarnedInv
  <2> QED
    BY <2>1, ExitInit, LineInit, PageInit, ScanInit, FileInit, KeptInit
<1>2. Inv /\ [Next]_vars => Inv'
  BY ExitNext, LineNext, PageNext, ScanNext, FileNext, WarnedNext, KeptNext
<1>3. Inv => NothingIsMissingSilently
  BY NothingMissing
<1> QED
  BY <1>1, <1>2, <1>3, PTL DEF Spec
=============================================================================
