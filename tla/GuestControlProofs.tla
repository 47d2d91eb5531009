------------------------- MODULE GuestControlProofs -------------------------
(***************************************************************************)
(* Proofs about GuestControl, for any clients, services, scripts, event    *)
(* lines and limits.                                                       *)
(***************************************************************************)
EXTENDS GuestControl, FiniteSetTheorems, FunctionTheorems,
        SequenceTheorems, TLAPS

-----------------------------------------------------------------------------
(* The lines of the agent and the verdict. *)

\* A line that is a finish is the one the agent accepted, f.
TrueFinish(l, f) == l.kind = "finish" => l.exit = f /\ f # None

\* The lines on their way to the host, and what it has made of the others.
VerdictInv ==
  /\ \E S : tty \in Seq(S)
  /\ \A i \in 1..Len(tty) : TrueFinish(tty[i], finished)
  /\ run = [ready |-> run.ready, verdict |-> run.verdict, commands |-> run.commands]
  /\ run.verdict # None => run.verdict = finished

LEMMA VerdictInit == Init => VerdictInv
<1> SUFFICES ASSUME Init
             PROVE  VerdictInv
  OBVIOUS
<1>1. tty = <<>> /\ tty \in Seq({}) /\ Len(tty) = 0
  BY DEF Init
<1> QED
  BY <1>1 DEF Init, VerdictInv, NewRun

\* A line joins the others.
LEMMA AppendLine ==
  ASSUME NEW s, NEW S, s \in Seq(S), NEW l
  PROVE  LET t == Append(s, l) IN
           /\ t \in Seq(S \cup {l}) /\ Len(t) = Len(s) + 1 /\ Len(s) \in Nat
           /\ \A i \in 1..Len(s) : t[i] = s[i]
           /\ t[Len(s) + 1] = l
           /\ \A i \in 1..Len(t) : i \in 1..Len(s) \/ i = Len(s) + 1
<1>1. s \in Seq(S \cup {l})
  OBVIOUS
<1> QED
  BY <1>1

\* The first line leaves.
LEMMA TailLine ==
  ASSUME NEW s, NEW S, s \in Seq(S), s # <<>>
  PROVE  LET t == Tail(s) IN
           /\ t \in Seq(S) /\ Len(s) = Len(t) + 1 /\ Len(t) \in Nat
           /\ \A i \in 1..Len(t) : i + 1 \in 1..Len(s) /\ t[i] = s[i + 1]
           /\ Head(s) = s[1] /\ 1 \in 1..Len(s)
  OBVIOUS

LEMMA VerdictAppend ==
  ASSUME VerdictInv, NEW l, tty' = Append(tty, l), UNCHANGED run, Running,
         finished # None => UNCHANGED finished, TrueFinish(l, finished')
  PROVE  VerdictInv'
<1>1. PICK S : tty \in Seq(S)
  BY DEF VerdictInv
<1>2. /\ tty' \in Seq(S \cup {l})
      /\ \A i \in 1..Len(tty) : tty'[i] = tty[i]
      /\ tty'[Len(tty) + 1] = l
      /\ \A i \in 1..Len(tty') : i \in 1..Len(tty) \/ i = Len(tty) + 1
  BY <1>1, AppendLine
<1>3. \A i \in 1..Len(tty') : TrueFinish(tty'[i], finished')
  BY <1>2 DEF VerdictInv, TrueFinish
<1> QED
  BY <1>2, <1>3 DEF VerdictInv, Running

LEMMA VerdictSame ==
  ASSUME VerdictInv, UNCHANGED <<tty, finished, run>>
  PROVE  VerdictInv'
  BY DEF VerdictInv

LEMMA VerdictServe ==
  ASSUME VerdictInv, Running, Serve
  PROVE  VerdictInv'
<1> DEFINE line == Head(rd[conns[cur]])
<1>1. CASE line.req.op = "bad"
  BY <1>1, VerdictSame DEF Serve, agentVars
<1>2. CASE line.req.op # "bad"
  <2>1. PICK ok \in BOOLEAN :
          /\ Handle(line.req, ok)
          /\ tty' = Append(tty, IF AcceptedFinish(line.req, ok)
                                THEN FinishEvent(seq + 1, ExitOf(line.req))
                                ELSE CtlMirror(seq + 1))
    BY <1>2 DEF Serve, Forwards
  <2>2. UNCHANGED run
    BY DEF Serve
  <2> HIDE DEF line
  <2>3. CASE AcceptedFinish(line.req, ok)
    <3>1. finished = None /\ finished' = ExitOf(line.req)
      BY <2>1, <2>3 DEF AcceptedFinish, Handle, DoPing, DoFinish, DoContainers, DoExec,
         DoLogs, DoLifecycle, DoStart, DoPartition, DoHeal
    <3>2. ExitOf(line.req) # None
      BY ControlAssumption DEF ExitOf, ControlAssumption
    <3>3. TrueFinish(FinishEvent(seq + 1, ExitOf(line.req)), finished')
      BY <3>1, <3>2 DEF TrueFinish, FinishEvent
    <3> QED
      BY <2>1, <2>2, <2>3, <3>1, <3>3, VerdictAppend
  <2>4. CASE ~AcceptedFinish(line.req, ok)
    <3>1. UNCHANGED finished
      BY <2>1, <2>4 DEF AcceptedFinish, Handle, DoPing, DoFinish, DoContainers, DoExec,
         DoLogs, DoLifecycle, DoStart, DoPartition, DoHeal
    <3>2. TrueFinish(CtlMirror(seq + 1), finished')
      BY DEF TrueFinish, CtlMirror
    <3> QED
      BY <2>1, <2>2, <2>4, <3>1, <3>2, VerdictAppend
  <2> QED
    BY <2>3, <2>4
<1> QED
  BY <1>1, <1>2

\* A batch of lines joins the others.
LEMMA ConcatLines ==
  ASSUME NEW S, NEW s \in Seq(S), NEW k \in Nat, NEW T, NEW t \in [1..k -> T]
  PROVE  LET u == s \o t IN
           /\ u \in Seq(S \cup T) /\ Len(s) \in Nat /\ Len(u) = Len(s) + k
           /\ \A i \in 1..Len(s) : u[i] = s[i]
           /\ \A j \in 1..k : u[Len(s) + j] = t[j]
           /\ \A i \in 1..Len(u) : i \in 1..Len(s) \/ \E j \in 1..k : i = Len(s) + j
<1>1. s \in Seq(S \cup T) /\ t \in Seq(S \cup T) /\ Len(t) = k
  OBVIOUS
<1>2. \A i \in 1..Len(s \o t) : i \in 1..Len(s) \/ i - Len(s) \in 1..k
  BY <1>1
<1> QED
  BY <1>1, <1>2

\* The reserved kinds are the agent's own.
LEMMA EventIsNotReserved ==
  ASSUME NEW kind, NEW n
  PROVE  ParseEvent(kind, n).kind \notin Reserved
  BY DEF ParseEvent, Reserved

\* What a pass forwards from the FIFO.
LEMMA PassForwards ==
  ASSUME VerdictInv, EndPass, polled.events
  PROVE  \E k, t, T :
           /\ k \in Nat
           /\ t \in [1..k -> T] /\ tty' = tty \o t
           /\ \A i \in 1..k : t[i].kind \notin Reserved
<1>1. PICK k \in 1..Len(fifo) : tty' = tty \o [i \in 1..k |-> ParseEvent(fifo[i], seq + i)]
  BY DEF EndPass
<1> DEFINE t == [i \in 1..k |-> ParseEvent(fifo[i], seq + i)]
           T == {t[i] : i \in 1..k}
<1>2. k \in Nat
  OBVIOUS
<1>3. t \in [1..k -> T]
  OBVIOUS
<1>4. \A i \in 1..k : t[i].kind \notin Reserved
  BY EventIsNotReserved
<1>5. tty' = tty \o t
  BY <1>1
<1> HIDE DEF t, T
<1> QED
  BY <1>2, <1>3, <1>4, <1>5

LEMMA VerdictEndPass ==
  ASSUME VerdictInv, EndPass
  PROVE  VerdictInv'
<1>1. UNCHANGED <<finished, run>>
  BY DEF EndPass, agentVars
<1>2. CASE ~polled.events
  BY <1>1, <1>2, VerdictSame DEF EndPass
<1>3. CASE polled.events
  <2>1. PICK k, t, T :
          /\ k \in Nat
          /\ t \in [1..k -> T] /\ tty' = tty \o t
          /\ \A i \in 1..k : t[i].kind \notin Reserved
    BY <1>3, PassForwards
  <2>2. PICK S : tty \in Seq(S)
    BY DEF VerdictInv
  <2>3. /\ tty' \in Seq(S \cup T)
        /\ \A i \in 1..Len(tty) : tty'[i] = tty[i]
        /\ \A j \in 1..k : tty'[Len(tty) + j] = t[j]
        /\ \A i \in 1..Len(tty') : i \in 1..Len(tty) \/ \E j \in 1..k : i = Len(tty) + j
    <3>1. t \in [1..k -> T] /\ k \in Nat /\ tty \in Seq(S)
      BY <2>1, <2>2
    <3> DEFINE u == tty \o t
    <3>2. /\ u \in Seq(S \cup T)
          /\ \A i \in 1..Len(tty) : u[i] = tty[i]
          /\ \A j \in 1..k : u[Len(tty) + j] = t[j]
          /\ \A i \in 1..Len(u) : i \in 1..Len(tty) \/ \E j \in 1..k : i = Len(tty) + j
      BY <3>1, ConcatLines
    <3>3. tty' = u
      BY <2>1
    <3> QED
      BY <3>2, <3>3, Zenon
  <2>4. \A i \in 1..Len(tty') : TrueFinish(tty'[i], finished)
    BY <2>1, <2>3 DEF VerdictInv, TrueFinish, Reserved
  <2> QED
    BY <1>1, <2>3, <2>4 DEF VerdictInv
<1> QED
  BY <1>2, <1>3

\* What the host makes of a line.
LEMMA HostFolds ==
  ASSUME VerdictInv, HostLine
  PROVE  LET l == tty[1] IN
           /\ run' = [ready |-> run'.ready, verdict |-> run'.verdict, commands |-> run'.commands]
           /\ run'.verdict = IF l.kind = "finish" /\ run.verdict = None THEN l.exit ELSE run.verdict
           /\ run'.commands = IF l.kind = "ctl" THEN run.commands + 1 ELSE run.commands
<1>1. tty # <<>> /\ \E S : tty \in Seq(S)
  BY DEF HostLine, VerdictInv
<1>2. Head(tty) = tty[1]
  BY <1>1, TailLine
<1>3. run' = IF tty[1].kind = "hello" THEN [run EXCEPT !.ready = TRUE] ELSE OnEvent(run, tty[1])
  BY <1>2 DEF HostLine
<1>4. run = [ready |-> run.ready, verdict |-> run.verdict, commands |-> run.commands]
  BY DEF VerdictInv
<1>5. CASE tty[1].kind = "hello"
  BY <1>3, <1>4, <1>5
<1>6. CASE tty[1].kind = "finish"
  BY <1>3, <1>4, <1>6 DEF OnEvent
<1>7. CASE tty[1].kind = "ctl"
  BY <1>3, <1>4, <1>7 DEF OnEvent
<1>8. CASE tty[1].kind \notin {"hello", "finish", "ctl"}
  BY <1>3, <1>4, <1>8 DEF OnEvent
<1> QED
  BY <1>5, <1>6, <1>7, <1>8

LEMMA VerdictHost ==
  ASSUME VerdictInv, HostLine
  PROVE  VerdictInv'
<1>1. PICK S : tty \in Seq(S)
  BY DEF VerdictInv
<1>2. tty # <<>> /\ tty' = Tail(tty) /\ UNCHANGED finished
  BY DEF HostLine, agentVars
<1>3. /\ tty' \in Seq(S) /\ 1 \in 1..Len(tty)
      /\ \A i \in 1..Len(tty') : i + 1 \in 1..Len(tty) /\ tty'[i] = tty[i + 1]
  BY <1>1, <1>2, TailLine
<1>4. \A i \in 1..Len(tty') : TrueFinish(tty'[i], finished)
  BY <1>3 DEF VerdictInv
<1>5. TrueFinish(tty[1], finished)
  BY <1>3 DEF VerdictInv
<1> QED
  BY <1>2, <1>3, <1>4, <1>5, HostFolds DEF VerdictInv, TrueFinish

LEMMA VerdictNext == VerdictInv /\ [Next]_vars => VerdictInv'
<1> SUFFICES ASSUME VerdictInv, [Next]_vars
             PROVE  VerdictInv'
  OBVIOUS
<1>1. ASSUME NEW d \in Drivers,
             \/ Connect(d) \/ Send(d) \/ Receive(d) \/ ReceiveEof(d)
             \/ Timeout(d) \/ Close(d) \/ Workload(d)
      PROVE  VerdictInv'
  BY <1>1, VerdictSame DEF Connect, Send, Receive, ReceiveEof, Timeout, Close, Workload,
     agentVars
<1>2. CASE Running /\ Boot
  <2>1. TrueFinish(Hello, finished)
    BY DEF TrueFinish, Hello
  <2> QED
    BY <1>2, <2>1, VerdictAppend DEF Boot, agentVars
<1>3. CASE Poll \/ Fill
  BY <1>3, VerdictSame DEF Poll, Fill, agentVars
<1>4. CASE UNCHANGED vars
  BY <1>4, VerdictSame DEF vars
<1> QED
  BY <1>1, <1>2, <1>3, <1>4, VerdictServe, VerdictEndPass, VerdictHost
     DEF Next, DriverStep, AgentStep

\* The host's verdict is the finish the agent accepted, for any clients, scripts
\* and event lines (do_finish, accepted_finish, parse_event,
\* DriverRun::on_event).
THEOREM VerdictIsTheAccepted == Spec => []VerdictIsFirstFinish
<1>1. VerdictInv => VerdictIsFirstFinish
  BY DEF VerdictInv, VerdictIsFirstFinish
<1> QED
  BY <1>1, VerdictInit, VerdictNext, PTL DEF Spec
-----------------------------------------------------------------------------
(* Partitions. *)

\* The book has an entry for a pair under its own key; where the last answer
\* about a pair is sure, the book and nft both have what it said.
PartInv ==
  /\ book = [k \in DOMAIN book |-> book[k]]
  /\ \A k \in DOMAIN book : RuleServices(book[k]) = k
  /\ answered = [p \in Pairs |-> answered[p]]
  /\ \A p \in Pairs : answered[p].known =>
       /\ answered[p].rules = {book[k] : k \in DOMAIN book \cap {p}}
       /\ {r \in rules : RuleServices(r) = p} = answered[p].rules

\* The rules of a pair in the ruleset built from a book.
LEMMA RulesOfBook ==
  ASSUME NEW b, \A k \in DOMAIN b : RuleServices(b[k]) = k, NEW p
  PROVE  {r \in RulesOf(b) : RuleServices(r) = p} = {b[k] : k \in DOMAIN b \cap {p}}
  BY DEF RulesOf

LEMMA PartInit == Init => PartInv
<1> SUFFICES ASSUME Init
             PROVE  PartInv
  OBVIOUS
<1>1. DOMAIN book = {} /\ rules = {} /\ answered = [p \in Pairs |-> Known({})]
  BY DEF Init
<1>2. book = [k \in DOMAIN book |-> book[k]]
  BY DEF Init
<1> QED
  BY <1>1, <1>2 DEF PartInv, Known

\* A new ruleset, or the old one, for a new book: sure of every pair when nft
\* said yes, of the pairs that were left alone otherwise.
LEMMA PartApply ==
  ASSUME PartInv, NEW q, NEW b, NEW ok \in BOOLEAN,
         \A k \in DOMAIN b : RuleServices(b[k]) = k,
         \A p \in Pairs \ q :
           {b[k] : k \in DOMAIN b \cap {p}} = {book[k] : k \in DOMAIN book \cap {p}},
         Apply(b, ok)
  PROVE  /\ \A p \in Pairs \ q : answered[p].known =>
              {r \in rules' : RuleServices(r) = p} = answered[p].rules
         /\ ok => \A p \in Pairs : {r \in rules' : RuleServices(r) = p} =
                                   {b[k] : k \in DOMAIN b \cap {p}}
<1>1. CASE rules' = RulesOf(b)
  BY <1>1, RulesOfBook DEF PartInv
<1>2. CASE ~ok /\ rules' = rules
  BY <1>2 DEF PartInv
<1> QED
  BY <1>1, <1>2 DEF Apply

LEMMA CutServices ==
  ASSUME NEW a, NEW b
  PROVE  RuleServices({Addr(a), Addr(b)}) = {a, b}
  BY DEF RuleServices, Addr

LEMMA PartPartition ==
  ASSUME PartInv, NEW req, NEW ok \in BOOLEAN, DoPartition(req, ok)
  PROVE  PartInv'
<1> DEFINE key == {req.a, req.b}
           cut == {Addr(req.a), Addr(req.b)}
           with == [k \in DOMAIN book \cup {key} |-> IF k = key THEN cut ELSE book[k]]
           without == [k \in DOMAIN book \ {key} |-> book[k]]
<1>1. CASE UNCHANGED <<book, rules, answered>>
  BY <1>1 DEF PartInv
<1>2. CASE ~UNCHANGED <<book, rules, answered>>
  <2>1. /\ Resolves(req.a, WantRunning) /\ Resolves(req.b, WantRunning)
        /\ Apply(with, ok) /\ book' = IF ok THEN with ELSE without
        /\ answered' = [answered EXCEPT ![key] = IF ok THEN Known({cut}) ELSE Unknown]
    BY <1>2 DEF DoPartition, PairKey
  <2>2. key \in Pairs /\ RuleServices(cut) = key
    BY <2>1, CutServices DEF Resolves, PodmanJson, Pairs
  <2> HIDE DEF key, cut
  <2>3. /\ \A k \in DOMAIN with : RuleServices(with[k]) = k
        /\ \A k \in DOMAIN without : RuleServices(without[k]) = k
    BY <2>2 DEF PartInv
  <2>4. \A p : p # key =>
          /\ {with[k] : k \in DOMAIN with \cap {p}} = {book[k] : k \in DOMAIN book \cap {p}}
          /\ {without[k] : k \in DOMAIN without \cap {p}} = {book[k] : k \in DOMAIN book \cap {p}}
    OBVIOUS
  <2>5. {with[k] : k \in DOMAIN with \cap {key}} = {cut}
    OBVIOUS
  <2>6. /\ with = [k \in DOMAIN with |-> with[k]]
        /\ without = [k \in DOMAIN without |-> without[k]]
    OBVIOUS
  <2> HIDE DEF with, without
  <2>7. /\ \A p \in Pairs \ {key} : answered[p].known =>
              {r \in rules' : RuleServices(r) = p} = answered[p].rules
        /\ ok => \A p \in Pairs : {r \in rules' : RuleServices(r) = p} =
                                   {with[k] : k \in DOMAIN with \cap {p}}
    <3>1. \/ rules' = RulesOf(with)
          \/ ~ok /\ rules' = rules
      BY <2>1 DEF Apply
    <3>2. \A p : {r \in RulesOf(with) : RuleServices(r) = p} = {with[k] : k \in DOMAIN with \cap {p}}
      BY <2>3, RulesOfBook
    <3>3. CASE rules' = RulesOf(with)
      BY <2>4, <3>2, <3>3 DEF PartInv
    <3>4. CASE ~ok /\ rules' = rules
      BY <3>4 DEF PartInv
    <3> QED
      BY <3>1, <3>3, <3>4
  <2>8. /\ \A p \in Pairs \ {key} : answered'[p] = answered[p]
        /\ answered'[key] = IF ok THEN Known({cut}) ELSE Unknown
        /\ answered' = [p \in Pairs |-> answered'[p]]
    BY <2>1, <2>2 DEF PartInv
  <2>9. CASE ok
    <3>1. book' = with /\ answered'[key].rules = {cut}
      BY <2>1, <2>8, <2>9 DEF Known
    <3>2. \A p \in Pairs : answered'[p].known =>
            /\ answered'[p].rules = {with[k] : k \in DOMAIN with \cap {p}}
            /\ {r \in rules' : RuleServices(r) = p} = answered'[p].rules
      <4> TAKE p \in Pairs
      <4>1. CASE p = key
        BY <2>2, <2>5, <2>7, <2>9, <3>1, <4>1
      <4>2. CASE p # key
        BY <2>4, <2>7, <2>8, <2>9, <4>2 DEF PartInv
      <4> QED
        BY <4>1, <4>2
    <3> QED
      BY <2>3, <2>6, <2>8, <3>1, <3>2 DEF PartInv
  <2>10. CASE ~ok
    <3>1. book' = without /\ ~answered'[key].known
      BY <2>1, <2>8, <2>10 DEF Unknown
    <3>2. \A p \in Pairs : answered'[p].known =>
            /\ answered'[p].rules = {without[k] : k \in DOMAIN without \cap {p}}
            /\ {r \in rules' : RuleServices(r) = p} = answered'[p].rules
      <4> TAKE p \in Pairs
      <4>1. CASE p = key
        BY <3>1, <4>1
      <4>2. CASE p # key
        BY <2>4, <2>7, <2>8, <4>2 DEF PartInv
      <4> QED
        BY <4>1, <4>2
    <3> QED
      BY <2>3, <2>6, <2>8, <3>1, <3>2 DEF PartInv
  <2> QED
    BY <2>9, <2>10
<1> QED
  BY <1>1, <1>2

LEMMA PartHeal ==
  ASSUME PartInv, NEW req, NEW ok \in BOOLEAN, DoHeal(req, ok)
  PROVE  PartInv'
<1> DEFINE all == req.a = None /\ req.b = None
           healed == IF all THEN Pairs ELSE {{req.a, req.b}}
           kept == IF all THEN {} ELSE DOMAIN book \ {{req.a, req.b}}
           after == [k \in kept |-> book[k]]
<1>1. CASE UNCHANGED <<book, rules, answered>>
  BY <1>1 DEF PartInv
<1>2. CASE ~UNCHANGED <<book, rules, answered>>
  <2>1. /\ book' = after /\ Apply(after, ok)
        /\ answered' = [p \in Pairs |-> IF p \in healed
                                        THEN IF ok THEN Known({}) ELSE Unknown
                                        ELSE answered[p]]
    BY <1>2 DEF DoHeal, PairKey
  <2>2. /\ \A k \in DOMAIN after : RuleServices(after[k]) = k
        /\ after = [k \in DOMAIN after |-> after[k]]
    BY DEF PartInv
  <2>3. \A p \in Pairs \ healed :
          {after[k] : k \in DOMAIN after \cap {p}} = {book[k] : k \in DOMAIN book \cap {p}}
    OBVIOUS
  <2>4. \A p \in Pairs \cap healed : {after[k] : k \in DOMAIN after \cap {p}} = {}
    BY DEF PartInv
  <2> HIDE DEF after, healed
  <2>5. /\ \A p \in Pairs \ healed : answered[p].known =>
              {r \in rules' : RuleServices(r) = p} = answered[p].rules
        /\ ok => \A p \in Pairs : {r \in rules' : RuleServices(r) = p} =
                                   {after[k] : k \in DOMAIN after \cap {p}}
    BY <2>1, <2>2, <2>3, PartApply
  <2>6. \A p \in Pairs : answered'[p].known =>
          /\ answered'[p].rules = {after[k] : k \in DOMAIN after \cap {p}}
          /\ {r \in rules' : RuleServices(r) = p} = answered'[p].rules
    <3> TAKE p \in Pairs
    <3>1. CASE p \notin healed
      BY <2>1, <2>3, <2>5, <3>1 DEF PartInv
    <3>2. CASE p \in healed /\ ok
      <4>1. answered'[p].rules = {}
        BY <2>1, <3>2 DEF Known
      <4> QED
        BY <2>4, <2>5, <3>2, <4>1
    <3>3. CASE p \in healed /\ ~ok
      BY <2>1, <3>3 DEF Unknown
    <3> QED
      BY <3>1, <3>2, <3>3
  <2>7. answered' = [p \in Pairs |-> answered'[p]]
    BY <2>1
  <2> QED
    BY <2>1, <2>2, <2>6, <2>7 DEF PartInv
<1> QED
  BY <1>1, <1>2

LEMMA PartNext == PartInv /\ [Next]_vars => PartInv'
<1> SUFFICES ASSUME PartInv, [Next]_vars
             PROVE  PartInv'
  OBVIOUS
<1>1. ASSUME UNCHANGED <<book, rules, answered>>
      PROVE  PartInv'
  BY <1>1 DEF PartInv
<1>2. ASSUME NEW d \in Drivers,
             \/ Connect(d) \/ Send(d) \/ Receive(d) \/ ReceiveEof(d)
             \/ Timeout(d) \/ Close(d) \/ Workload(d)
      PROVE  PartInv'
  BY <1>1, <1>2 DEF Connect, Send, Receive, ReceiveEof, Timeout, Close, Workload, agentVars
<1>3. CASE Boot \/ Poll \/ Fill \/ EndPass \/ HostLine
  BY <1>1, <1>3 DEF Boot, Poll, Fill, EndPass, HostLine, agentVars
<1>4. CASE Serve
  <2> DEFINE req == Head(rd[conns[cur]]).req
  <2>1. CASE req.op = "bad"
    BY <1>1, <1>4, <2>1 DEF Serve, agentVars
  <2>2. CASE req.op # "bad"
    <3>1. PICK ok \in BOOLEAN : Handle(req, ok)
      BY <1>4, <2>2 DEF Serve
    <3> HIDE DEF req
    <3>2. CASE UNCHANGED <<book, rules, answered>>
      BY <1>1, <3>2
    <3> QED
      BY <3>1, <3>2, PartPartition, PartHeal DEF Handle, DoPing, DoFinish, DoContainers,
         DoExec, DoLogs, DoLifecycle, DoStart
  <2> QED
    BY <2>1, <2>2
<1>5. CASE UNCHANGED vars
  BY <1>1, <1>5 DEF vars
<1> QED
  BY <1>2, <1>3, <1>4, <1>5 DEF Next, DriverStep, AgentStep

\* nft drops between two services exactly when the last sure answer about the
\* pair said so, through any sequence of partitions, heals, restarts and nft
\* errors (do_partition, do_heal, apply_partitions).
THEOREM PartitionsFollowAnswers == Spec => []PartitionsAreAsAnswered
<1>1. PartInv => PartitionsAreAsAnswered
  BY DEF PartInv, PartitionsAreAsAnswered
<1> QED
  BY <1>1, PartInit, PartNext, PTL DEF Spec
-----------------------------------------------------------------------------
(* The trace. *)

\* Where a sequence of lines has those of one kind.
At(s, kind) == {i \in DOMAIN s : s[i].kind = kind}
CountIn(s, kind) == Cardinality(At(s, kind))

\* A counted line has an entry, and the counters are numbers.
TraceInv ==
  /\ served \in Nat /\ run.commands \in Nat
  /\ served = run.commands + CountIn(tty, "ctl") + CountIn(tty, "finish")
              + (IF run.verdict = None THEN 0 ELSE 1)

LEMMA AtFinite ==
  ASSUME NEW S, NEW s \in Seq(S), NEW kind
  PROVE  IsFiniteSet(At(s, kind)) /\ CountIn(s, kind) \in Nat
<1>1. At(s, kind) \in SUBSET (1..Len(s)) /\ Len(s) \in Nat
  BY DEF At
<1>2. IsFiniteSet(1..Len(s))
  BY <1>1, FS_Interval
<1>3. IsFiniteSet(At(s, kind))
  BY <1>1, <1>2, FS_Subset
<1> QED
  BY <1>3, FS_CardinalityType DEF CountIn

LEMMA CountAppend ==
  ASSUME NEW S, NEW s \in Seq(S), NEW l, NEW kind
  PROVE  CountIn(Append(s, l), kind) = CountIn(s, kind) + (IF l.kind = kind THEN 1 ELSE 0)
<1> DEFINE t == Append(s, l)
<1>1. /\ t \in Seq(S \cup {l}) /\ Len(t) = Len(s) + 1 /\ Len(s) \in Nat
      /\ \A i \in 1..Len(s) : t[i] = s[i]
      /\ t[Len(s) + 1] = l
      /\ \A i \in 1..Len(t) : i \in 1..Len(s) \/ i = Len(s) + 1
  BY AppendLine
<1>2. DOMAIN t = 1..Len(t) /\ DOMAIN s = 1..Len(s)
  BY <1>1
<1> HIDE DEF t
<1>3. IsFiniteSet(At(s, kind)) /\ CountIn(s, kind) \in Nat
  BY AtFinite
<1>4. CASE l.kind = kind
  <2>1. At(t, kind) = At(s, kind) \cup {Len(s) + 1} /\ Len(s) + 1 \notin At(s, kind)
    BY <1>1, <1>2, <1>4 DEF At
  <2> QED
    BY <1>3, <1>4, <2>1, FS_AddElement DEF CountIn, t
<1>5. CASE l.kind # kind
  <2>1. At(t, kind) = At(s, kind)
    BY <1>1, <1>2, <1>5 DEF At
  <2> QED
    BY <1>3, <1>5, <2>1 DEF CountIn, t
<1> QED
  BY <1>4, <1>5

LEMMA CountTail ==
  ASSUME NEW S, NEW s \in Seq(S), s # <<>>, NEW kind
  PROVE  CountIn(s, kind) = CountIn(Tail(s), kind) + (IF s[1].kind = kind THEN 1 ELSE 0)
<1> DEFINE t == Tail(s)
           rest == At(s, kind) \ {1}
           f == [i \in At(t, kind) |-> i + 1]
<1>1. /\ t \in Seq(S) /\ Len(s) = Len(t) + 1 /\ Len(t) \in Nat
      /\ \A i \in 1..Len(t) : i + 1 \in 1..Len(s) /\ t[i] = s[i + 1]
      /\ 1 \in 1..Len(s)
  BY TailLine
<1>2. DOMAIN t = 1..Len(t) /\ DOMAIN s = 1..Len(s)
  BY <1>1
<1>3. /\ IsFiniteSet(At(s, kind)) /\ CountIn(s, kind) \in Nat
      /\ IsFiniteSet(At(t, kind)) /\ CountIn(t, kind) \in Nat
  BY <1>1, AtFinite
<1> HIDE DEF t
<1>4. /\ \A i \in At(t, kind) : i \in Nat /\ i + 1 \in rest
      /\ \A j \in rest : j \in Nat /\ j - 1 \in At(t, kind) /\ (j - 1) + 1 = j
  <2>1. \A i \in At(t, kind) : i \in Nat /\ i + 1 \in rest
    BY <1>1, <1>2 DEF At
  <2>2. \A j \in rest : j - 1 \in 1..Len(t) /\ (j - 1) + 1 = j /\ j \in Nat /\ s[j].kind = kind
    BY <1>1, <1>2 DEF At
  <2>3. \A j \in rest : t[j - 1] = s[j]
    BY <1>1, <2>2
  <2> QED
    BY <1>2, <2>1, <2>2, <2>3 DEF At
<1>5. f \in Bijection(At(t, kind), rest)
  <2> HIDE DEF rest
  <2>1. f \in [At(t, kind) -> rest]
    BY <1>4
  <2>2. \A a, b \in At(t, kind) : f[a] = f[b] => a = b
    BY <1>4
  <2>3. \A j \in rest : \E i \in At(t, kind) : f[i] = j
    BY <1>4
  <2> QED
    BY <2>1, <2>2, <2>3, Fun_IsBij
<1>6. Cardinality(rest) = CountIn(t, kind)
  <2>1. ExistsBijection(At(t, kind), rest)
    BY <1>5 DEF ExistsBijection
  <2> QED
    BY <1>3, <2>1, FS_Bijection DEF CountIn
<1>7. 1 \in At(s, kind) <=> s[1].kind = kind
  BY <1>1, <1>2 DEF At
<1>8. Cardinality(rest) = IF 1 \in At(s, kind) THEN CountIn(s, kind) - 1 ELSE CountIn(s, kind)
  BY <1>3, FS_RemoveElement DEF CountIn
<1> HIDE DEF rest
<1>9. CountIn(s, kind) = CountIn(t, kind) + (IF s[1].kind = kind THEN 1 ELSE 0)
  BY <1>3, <1>6, <1>7, <1>8
<1> QED
  BY <1>9 DEF t

LEMMA CountConcat ==
  ASSUME NEW S, NEW s \in Seq(S), NEW k \in Nat, NEW T, NEW t \in [1..k -> T], NEW kind,
         \A i \in 1..k : t[i].kind # kind
  PROVE  CountIn(s \o t, kind) = CountIn(s, kind)
<1> DEFINE u == s \o t
<1>1. s \in Seq(S \cup T) /\ t \in Seq(S \cup T) /\ Len(t) = k
  OBVIOUS
<1>2. /\ DOMAIN u = 1..(Len(s) + k) /\ DOMAIN s = 1..Len(s) /\ Len(s) \in Nat
      /\ \A i \in 1..Len(s) : u[i] = s[i]
      /\ \A i \in 1..(Len(s) + k) : i \in 1..Len(s) \/ (i - Len(s) \in 1..k /\ u[i] = t[i - Len(s)])
  BY <1>1
<1> HIDE DEF u
<1>3. At(u, kind) = At(s, kind)
  BY <1>2 DEF At
<1> QED
  BY <1>3 DEF CountIn, u

LEMMA TraceInit == Init => TraceInv
<1> SUFFICES ASSUME Init
             PROVE  TraceInv
  OBVIOUS
<1>1. tty = <<>> /\ served = 0 /\ run.commands = 0 /\ run.verdict = None
  BY DEF Init, NewRun
<1>2. At(tty, "ctl") = {} /\ At(tty, "finish") = {}
  BY <1>1 DEF At
<1> QED
  BY <1>1, <1>2, FS_EmptySet DEF TraceInv, CountIn

LEMMA TraceSame ==
  ASSUME TraceInv, UNCHANGED <<tty, served, run>>
  PROVE  TraceInv'
  BY DEF TraceInv, CountIn, At

\* A request is served and its line forwarded: a mirror, or the finish.
LEMMA TraceServe ==
  ASSUME VerdictInv, TraceInv, Running, Serve
  PROVE  TraceInv'
<1> DEFINE line == Head(rd[conns[cur]])
<1>1. CASE line.req.op = "bad"
  BY <1>1, TraceSame DEF Serve, agentVars
<1>2. CASE line.req.op # "bad"
  <2>1. PICK ok \in BOOLEAN :
          /\ served' = served + 1
          /\ tty' = Append(tty, IF AcceptedFinish(line.req, ok)
                                THEN FinishEvent(seq + 1, ExitOf(line.req))
                                ELSE CtlMirror(seq + 1))
    BY <1>2 DEF Serve, Forwards
  <2>2. PICK l : tty' = Append(tty, l) /\ l.kind \in {"finish", "ctl"}
    BY <2>1 DEF FinishEvent, CtlMirror
  <2>3. PICK S : tty \in Seq(S)
    BY DEF VerdictInv
  <2>4. /\ CountIn(tty', "ctl") = CountIn(tty, "ctl") + (IF l.kind = "ctl" THEN 1 ELSE 0)
        /\ CountIn(tty', "finish") = CountIn(tty, "finish") + (IF l.kind = "finish" THEN 1 ELSE 0)
    BY <2>2, <2>3, CountAppend
  <2>5. CountIn(tty, "ctl") \in Nat /\ CountIn(tty, "finish") \in Nat
    BY <2>3, AtFinite
  <2>6. UNCHANGED run
    BY DEF Serve
  <2>7. CountIn(tty', "ctl") + CountIn(tty', "finish") = CountIn(tty, "ctl") + CountIn(tty, "finish") + 1
    BY <2>2, <2>4, <2>5
  <2>8. CountIn(tty', "ctl") \in Nat /\ CountIn(tty', "finish") \in Nat
    BY <2>4, <2>5
  <2>9. /\ served' \in Nat /\ run'.commands \in Nat
        /\ served' = run'.commands + CountIn(tty', "ctl") + CountIn(tty', "finish")
                     + (IF run'.verdict = None THEN 0 ELSE 1)
    <3>1. run.verdict = None /\ served = run.commands + CountIn(tty, "ctl") + CountIn(tty, "finish")
      BY <2>5 DEF TraceInv, Running
    <3>2. served \in Nat /\ run.commands \in Nat
      BY DEF TraceInv
    <3>3. served + 1 = run.commands + CountIn(tty', "ctl") + CountIn(tty', "finish")
      BY <2>5, <2>7, <2>8, <3>1, <3>2
    <3> QED
      BY <2>1, <2>6, <2>8, <3>1, <3>2, <3>3
  <2> QED
    BY <2>9 DEF TraceInv, CountIn, At
<1> QED
  BY <1>1, <1>2

\* The FIFO's lines are none of those counted.
LEMMA TraceEndPass ==
  ASSUME VerdictInv, TraceInv, EndPass
  PROVE  TraceInv'
<1>1. UNCHANGED <<served, run>>
  BY DEF EndPass, agentVars
<1>2. CASE ~polled.events
  BY <1>1, <1>2, TraceSame DEF EndPass
<1>3. CASE polled.events
  <2>1. PICK k, t, T :
          /\ k \in Nat
          /\ t \in [1..k -> T] /\ tty' = tty \o t
          /\ \A i \in 1..k : t[i].kind \notin Reserved
    BY <1>3, PassForwards
  <2>2. PICK S : tty \in Seq(S)
    BY DEF VerdictInv
  <2>3. /\ t \in [1..k -> T] /\ k \in Nat
        /\ \A i \in 1..k : t[i].kind # "ctl"
        /\ \A i \in 1..k : t[i].kind # "finish"
    BY <2>1 DEF Reserved
  <2>4. CountIn(tty', "ctl") = CountIn(tty, "ctl") /\ CountIn(tty', "finish") = CountIn(tty, "finish")
    <3>1. CountIn(tty \o t, "ctl") = CountIn(tty, "ctl")
      BY <2>2, <2>3, CountConcat, ZenonT(60)
    <3>2. CountIn(tty \o t, "finish") = CountIn(tty, "finish")
      BY <2>2, <2>3, CountConcat, ZenonT(60)
    <3> QED
      BY <2>1, <3>1, <3>2
  <2>5. /\ served' \in Nat /\ run'.commands \in Nat
        /\ served' = run'.commands + CountIn(tty', "ctl") + CountIn(tty', "finish")
                     + (IF run'.verdict = None THEN 0 ELSE 1)
    BY <1>1, <2>4 DEF TraceInv
  <2> QED
    BY <2>5 DEF TraceInv, CountIn, At
<1> QED
  BY <1>2, <1>3

\* A mirror is counted, a finish becomes the verdict, any other line is neither.
LEMMA TraceHost ==
  ASSUME VerdictInv, TraceInv, Running, HostLine
  PROVE  TraceInv'
<1>1. PICK S : tty \in Seq(S)
  BY DEF VerdictInv
<1>2. tty # <<>> /\ tty' = Tail(tty) /\ UNCHANGED served
  BY DEF HostLine, agentVars
<1>3. /\ CountIn(tty, "ctl") = CountIn(tty', "ctl") + (IF tty[1].kind = "ctl" THEN 1 ELSE 0)
      /\ CountIn(tty, "finish") = CountIn(tty', "finish") + (IF tty[1].kind = "finish" THEN 1 ELSE 0)
  BY <1>1, <1>2, CountTail
<1>4. tty' \in Seq(S) /\ 1 \in 1..Len(tty)
  BY <1>1, <1>2, TailLine
<1>5. CountIn(tty', "ctl") \in Nat /\ CountIn(tty', "finish") \in Nat
  BY <1>4, AtFinite
<1>6. tty[1].kind = "finish" => tty[1].exit # None
  BY <1>4 DEF VerdictInv, TrueFinish
<1>7. /\ run.verdict = None
      /\ run'.verdict = IF tty[1].kind = "finish" THEN tty[1].exit ELSE None
      /\ run'.commands = IF tty[1].kind = "ctl" THEN run.commands + 1 ELSE run.commands
  BY HostFolds DEF Running
<1>8. /\ served' \in Nat /\ run'.commands \in Nat
      /\ served' = run'.commands + CountIn(tty', "ctl") + CountIn(tty', "finish")
                   + (IF run'.verdict = None THEN 0 ELSE 1)
  <2>1. /\ served \in Nat /\ run.commands \in Nat
        /\ CountIn(tty, "ctl") \in Nat /\ CountIn(tty, "finish") \in Nat
    BY <1>1, AtFinite DEF TraceInv
  <2>2. served = run.commands + CountIn(tty, "ctl") + CountIn(tty, "finish")
    BY <1>7, <2>1 DEF TraceInv
  <2>3. CASE tty[1].kind = "finish"
    <3>1. /\ CountIn(tty, "ctl") = CountIn(tty', "ctl")
          /\ CountIn(tty, "finish") = CountIn(tty', "finish") + 1
          /\ run'.verdict # None /\ run'.commands = run.commands
      BY <1>3, <1>5, <1>6, <1>7, <2>3
    <3> QED
      BY <1>2, <1>5, <2>1, <2>2, <3>1
  <2>4. CASE tty[1].kind = "ctl"
    <3>1. /\ CountIn(tty, "ctl") = CountIn(tty', "ctl") + 1
          /\ CountIn(tty, "finish") = CountIn(tty', "finish")
          /\ run'.verdict = None /\ run'.commands = run.commands + 1
      BY <1>3, <1>5, <1>7, <2>4
    <3>2. served = run'.commands + CountIn(tty', "ctl") + CountIn(tty', "finish")
      BY <1>5, <2>1, <2>2, <3>1
    <3>3. run'.commands \in Nat
      BY <2>1, <3>1
    <3> QED
      BY <1>2, <1>5, <2>1, <3>1, <3>2, <3>3
  <2>5. CASE tty[1].kind \notin {"finish", "ctl"}
    <3>1. /\ CountIn(tty, "ctl") = CountIn(tty', "ctl")
          /\ CountIn(tty, "finish") = CountIn(tty', "finish")
          /\ run'.verdict = None /\ run'.commands = run.commands
      BY <1>3, <1>5, <1>7, <2>5
    <3> QED
      BY <1>2, <1>5, <2>1, <2>2, <3>1
  <2> QED
    BY <2>3, <2>4, <2>5
<1> QED
  BY <1>8 DEF TraceInv, CountIn, At

LEMMA TraceNext == VerdictInv /\ TraceInv /\ [Next]_vars => TraceInv'
<1> SUFFICES ASSUME VerdictInv, TraceInv, [Next]_vars
             PROVE  TraceInv'
  OBVIOUS
<1>1. ASSUME NEW d \in Drivers,
             \/ Connect(d) \/ Send(d) \/ Receive(d) \/ ReceiveEof(d)
             \/ Timeout(d) \/ Close(d) \/ Workload(d)
      PROVE  TraceInv'
  BY <1>1, TraceSame DEF Connect, Send, Receive, ReceiveEof, Timeout, Close, Workload,
     agentVars
<1>2. CASE Boot
  <2>1. PICK S : tty \in Seq(S)
    BY DEF VerdictInv
  <2>2. tty' = Append(tty, Hello) /\ UNCHANGED <<served, run>>
    BY <1>2 DEF Boot, agentVars
  <2>3. CountIn(tty', "ctl") = CountIn(tty, "ctl") + 0
        /\ CountIn(tty', "finish") = CountIn(tty, "finish") + 0
    BY <2>1, <2>2, CountAppend DEF Hello
  <2>4. CountIn(tty, "ctl") \in Nat /\ CountIn(tty, "finish") \in Nat
    BY <2>1, AtFinite
  <2>5. CountIn(tty', "ctl") = CountIn(tty, "ctl") /\ CountIn(tty', "finish") = CountIn(tty, "finish")
    BY <2>3, <2>4
  <2>6. /\ served' \in Nat /\ run'.commands \in Nat
        /\ served' = run'.commands + CountIn(tty', "ctl") + CountIn(tty', "finish")
                     + (IF run'.verdict = None THEN 0 ELSE 1)
    BY <2>2, <2>5 DEF TraceInv
  <2> QED
    BY <2>6 DEF TraceInv, CountIn, At
<1>3. CASE Poll \/ Fill
  BY <1>3, TraceSame DEF Poll, Fill, agentVars
<1>4. CASE UNCHANGED vars
  BY <1>4, TraceSame DEF vars
<1> QED
  BY <1>1, <1>2, <1>3, <1>4, TraceServe, TraceEndPass, TraceHost
     DEF Next, DriverStep, AgentStep

\* Every request served is counted by the host or is on its way to it, once, for
\* any number of clients, also those that are gone (run_loop,
\* DriverRun::on_event).
THEOREM CommandsAreTraced == Spec => []EveryCommandIsTraced
<1>1. TraceInv => EveryCommandIsTraced
  BY DEF TraceInv, EveryCommandIsTraced, Count, CountIn, At
<1> QED
  BY <1>1, VerdictInit, VerdictNext, TraceInit, TraceNext, PTL DEF Spec
-----------------------------------------------------------------------------
(* The calls of a client that waits as long as it takes. *)

IsSeq(s) == \E S : s \in Seq(S)

\* The number of lines in a byte stream.
Lines(s) == Len(s)

LEMMA SeqNone == IsSeq(<<>>) /\ Lines(<<>>) = 0
<1>1. <<>> \in Seq({})
  OBVIOUS
<1> QED
  BY <1>1 DEF IsSeq, Lines

LEMMA LenOfSeq ==
  ASSUME NEW s, IsSeq(s)
  PROVE  Lines(s) \in Nat /\ (s = <<>> <=> Lines(s) = 0)
  BY DEF IsSeq, Lines

LEMMA SeqConcat ==
  ASSUME NEW s, NEW t, IsSeq(s), IsSeq(t)
  PROVE  IsSeq(s \o t) /\ Lines(s \o t) = Lines(s) + Lines(t)
<1>1. PICK S, T : s \in Seq(S) /\ t \in Seq(T)
  BY DEF IsSeq
<1>2. s \in Seq(S \cup T) /\ t \in Seq(S \cup T)
  BY <1>1
<1>3. s \o t \in Seq(S \cup T) /\ Len(s \o t) = Len(s) + Len(t)
  BY <1>2
<1> QED
  BY <1>3 DEF IsSeq, Lines

LEMMA SeqOne ==
  ASSUME NEW x
  PROVE  IsSeq(<<x>>) /\ Lines(<<x>>) = 1
<1>1. <<x>> \in Seq({x})
  OBVIOUS
<1> QED
  BY <1>1 DEF IsSeq, Lines

LEMMA SeqAppend ==
  ASSUME NEW s, IsSeq(s), NEW x
  PROVE  IsSeq(Append(s, x)) /\ Lines(Append(s, x)) = Lines(s) + 1
<1>1. PICK S : s \in Seq(S)
  BY DEF IsSeq
<1>2. Append(s, x) \in Seq(S \cup {x}) /\ Len(Append(s, x)) = Len(s) + 1
  BY <1>1, AppendLine
<1> QED
  BY <1>2 DEF IsSeq, Lines

LEMMA SeqTail ==
  ASSUME NEW s, IsSeq(s), s # <<>>
  PROVE  IsSeq(Tail(s)) /\ Lines(Tail(s)) = Lines(s) - 1
<1>1. PICK S : s \in Seq(S)
  BY DEF IsSeq
<1>2. Tail(s) \in Seq(S) /\ Len(Tail(s)) = Len(s) - 1
  BY <1>1
<1> QED
  BY <1>2 DEF IsSeq, Lines

LEMMA SeqSplit ==
  ASSUME NEW s, IsSeq(s), NEW k \in 1..Len(s)
  PROVE  /\ k \in Nat /\ k # 0 /\ k <= Lines(s)
         /\ IsSeq(SubSeq(s, 1, k)) /\ Lines(SubSeq(s, 1, k)) = k
         /\ IsSeq(SubSeq(s, k + 1, Len(s)))
         /\ Lines(SubSeq(s, k + 1, Len(s))) = Lines(s) - k
<1>1. PICK S : s \in Seq(S)
  BY DEF IsSeq
<1>2. Len(s) \in Nat /\ k \in Nat /\ k # 0 /\ k <= Len(s)
  BY <1>1
<1>3. SubSeq(s, 1, k) \in Seq(S) /\ Len(SubSeq(s, 1, k)) = k
  BY <1>1, <1>2, SubSeqProperties
<1>4. /\ SubSeq(s, k + 1, Len(s)) \in Seq(S)
      /\ Len(SubSeq(s, k + 1, Len(s))) = Len(s) - k
  BY <1>1, <1>2, SubSeqProperties
<1> QED
  BY <1>2, <1>3, <1>4 DEF IsSeq, Lines

\* The lines between a client's Do and its reply: its requests the agent has
\* not dispatched and the replies it has not read.
Held(d) == Lines(up[d]) + Lines(rd[d]) + Lines(dn[d])

LinesAreSeqs ==
  /\ up = [d \in Drivers |-> up[d]] /\ rd = [d \in Drivers |-> rd[d]]
  /\ dn = [d \in Drivers |-> dn[d]]
  /\ \A d \in Drivers : IsSeq(up[d]) /\ IsSeq(rd[d]) /\ IsSeq(dn[d])

\* A client that does not give up has nothing between Do and the reply before a
\* call, and one line at most during it, as long as its connection lives.
OneCall(d) ==
  /\ sdk[d].st = "start" => Held(d) = 0
  /\ sdk[d].st = "idle" /\ sock[d] = "open" => Held(d) = 0
  /\ sdk[d].st = "waiting" => Held(d) <= 1

CallInv ==
  /\ LinesAreSeqs
  /\ sdk = [d \in Drivers |-> sdk[d]] /\ sock = [d \in Drivers |-> sock[d]]
  /\ pc = "lines" /\ conns[cur] \in Drivers => rd[conns[cur]] # <<>>
  /\ \A d \in Drivers \ Impatient : OneCall(d)

LEMMA HeldNat ==
  ASSUME LinesAreSeqs, NEW d \in Drivers
  PROVE  /\ Lines(up[d]) \in Nat /\ Lines(rd[d]) \in Nat /\ Lines(dn[d]) \in Nat
         /\ Held(d) \in Nat
  BY LenOfSeq DEF LinesAreSeqs, Held

LEMMA CallInit == Init => CallInv
<1> SUFFICES ASSUME Init
             PROVE  CallInv
  OBVIOUS
<1>1. \A d \in Drivers : up[d] = <<>> /\ rd[d] = <<>> /\ dn[d] = <<>>
  BY DEF Init
<1>2. LinesAreSeqs
  BY <1>1, SeqNone DEF LinesAreSeqs, Init
<1>3. \A d \in Drivers : Held(d) = 0
  <2>1. \A d \in Drivers : Lines(up[d]) = 0 /\ Lines(rd[d]) = 0 /\ Lines(dn[d]) = 0
    BY <1>1, SeqNone
  <2> QED
    BY <2>1 DEF Held
<1> QED
  BY <1>2, <1>3 DEF CallInv, OneCall, Init

\* A step that moves no line and opens no connection keeps what the other
\* clients have, and for its own client only has to ask of the state.
LEMMA CallQuiet ==
  ASSUME CallInv, UNCHANGED <<up, rd, dn>>,
         sdk' = [d \in Drivers |-> sdk'[d]], sock' = [d \in Drivers |-> sock'[d]],
         pc' = "lines" => pc = "lines" /\ UNCHANGED <<conns, cur>>,
         \A d \in Drivers \ Impatient :
           /\ sdk'[d].st \in {"start", "waiting"} => sdk'[d].st = sdk[d].st
           /\ sdk'[d].st = "idle" /\ sock'[d] = "open" => sdk[d].st \in {"start", "idle"}
                /\ (sdk[d].st = "idle" => sock[d] = "open")
  PROVE  CallInv'
<1>1. \A d : Held(d)' = Held(d)
  BY DEF Held
<1>2. \A d \in Drivers \ Impatient : OneCall(d)'
  BY <1>1 DEF CallInv, OneCall
<1>3. LinesAreSeqs'
  BY DEF CallInv, LinesAreSeqs
<1> QED
  BY <1>2, <1>3 DEF CallInv

LEMMA CallSend ==
  ASSUME CallInv, NEW c \in Drivers, Send(c)
  PROVE  CallInv'
<1>1. CASE sock[c] # "open"
  <2>1. /\ UNCHANGED <<up, rd, dn, sock, pc, conns, cur>>
        /\ sdk' = [sdk EXCEPT ![c] = [st |-> "idle", id |-> sdk[c].id + 1]]
    BY <1>1 DEF Send, loopVars, CallInv
  <2>2. /\ sdk' = [d \in Drivers |-> sdk'[d]]
        /\ \A d \in Drivers : d # c => sdk'[d] = sdk[d]
        /\ sdk'[c].st = "idle"
    BY <2>1 DEF CallInv
  <2>3. sock' = [d \in Drivers |-> sock'[d]]
    BY <2>1 DEF CallInv
  <2> QED
    BY <1>1, <2>1, <2>2, <2>3, CallQuiet DEF Send
<1>2. CASE sock[c] = "open"
  <2>1. PICK line : /\ up' = [up EXCEPT ![c] = Append(up[c], line)]
                    /\ sdk' = [sdk EXCEPT ![c] = [st |-> "waiting", id |-> sdk[c].id + 1]]
    BY <1>2 DEF Send, CallInv, LinesAreSeqs
  <2>2. /\ sdk[c].st = "idle" /\ UNCHANGED <<rd, dn, sock, pc, conns, cur>>
    BY DEF Send, loopVars
  <2>3. /\ up' = [d \in Drivers |-> up'[d]] /\ sdk' = [d \in Drivers |-> sdk'[d]]
        /\ \A d \in Drivers : d # c => up'[d] = up[d] /\ sdk'[d] = sdk[d]
        /\ up'[c] = Append(up[c], line) /\ sdk'[c].st = "waiting"
    BY <2>1 DEF CallInv, LinesAreSeqs
  <2>4. IsSeq(up'[c]) /\ Lines(up'[c]) = Lines(up[c]) + 1
    BY <2>3, SeqAppend DEF CallInv, LinesAreSeqs
  <2>5. LinesAreSeqs'
    BY <2>2, <2>3, <2>4 DEF CallInv, LinesAreSeqs
  <2>6. /\ \A d \in Drivers : d # c => Held(d)' = Held(d)
        /\ Held(c)' = Held(c) + 1 /\ Held(c) \in Nat
    <3>1. Lines(up[c]) \in Nat /\ Lines(rd[c]) \in Nat /\ Lines(dn[c]) \in Nat
      BY HeldNat DEF CallInv
    <3>2. \A d \in Drivers : d # c => Held(d)' = Held(d)
      BY <2>2, <2>3 DEF Held
    <3>3. Lines(rd'[c]) = Lines(rd[c]) /\ Lines(dn'[c]) = Lines(dn[c])
      BY <2>2
    <3>4. Held(c)' = Held(c) + 1 /\ Held(c) \in Nat
      BY <2>4, <3>1, <3>3 DEF Held
    <3> QED
      BY <3>2, <3>4
  <2>7. \A d \in Drivers \ Impatient : OneCall(d)'
    BY <1>2, <2>2, <2>3, <2>6 DEF CallInv, OneCall
  <2> QED
    BY <2>2, <2>3, <2>5, <2>7 DEF CallInv
<1> QED
  BY <1>1, <1>2

LEMMA CallReceive ==
  ASSUME CallInv, NEW c \in Drivers, Receive(c)
  PROVE  CallInv'
<1>1. /\ sdk[c].st = "waiting" /\ dn[c] # <<>> /\ UNCHANGED <<up, rd, sock, pc, conns, cur>>
      /\ sdk' = [sdk EXCEPT ![c] = [st |-> "idle", id |-> sdk[c].id]]
      /\ dn' = [dn EXCEPT ![c] = Tail(dn[c])]
  BY DEF Receive, Becomes, loopVars, CallInv, LinesAreSeqs
<1>2. /\ dn' = [d \in Drivers |-> dn'[d]] /\ sdk' = [d \in Drivers |-> sdk'[d]]
      /\ \A d \in Drivers : d # c => dn'[d] = dn[d] /\ sdk'[d] = sdk[d]
      /\ dn'[c] = Tail(dn[c]) /\ sdk'[c].st = "idle"
  BY <1>1 DEF CallInv, LinesAreSeqs
<1>3. IsSeq(dn'[c]) /\ Lines(dn'[c]) = Lines(dn[c]) - 1 /\ Lines(dn[c]) # 0
  BY <1>1, <1>2, SeqTail, LenOfSeq DEF CallInv, LinesAreSeqs
<1>4. LinesAreSeqs'
  BY <1>1, <1>2, <1>3 DEF CallInv, LinesAreSeqs
<1>5. /\ \A d \in Drivers : d # c => Held(d)' = Held(d)
      /\ Held(c)' = Held(c) - 1 /\ Held(c) \in Nat /\ Held(c) # 0
  <2>1. Lines(up[c]) \in Nat /\ Lines(rd[c]) \in Nat /\ Lines(dn[c]) \in Nat
    BY HeldNat DEF CallInv
  <2> QED
    BY <1>1, <1>2, <1>3, <2>1 DEF Held
<1>6. \A d \in Drivers \ Impatient : OneCall(d)'
  BY <1>1, <1>2, <1>5 DEF CallInv, OneCall
<1> QED
  BY <1>1, <1>2, <1>4, <1>6 DEF CallInv

\* A read moves lines from the socket to the connection's reader, and there is
\* one to serve.
LEMMA CallFill ==
  ASSUME CallInv, Fill
  PROVE  CallInv'
<1>0. PICK c : c = conns[Min(Pending)]
  OBVIOUS
<1>1. UNCHANGED <<sdk, sock, dn, conns>> /\ pc = "conns"
  BY DEF Fill
<1>2. CASE up[c] = <<>>
  <2>1. UNCHANGED <<rd, up, pc>>
    BY <1>0, <1>2 DEF Fill
  <2>2. sdk' = [d \in Drivers |-> sdk'[d]] /\ sock' = [d \in Drivers |-> sock'[d]]
    BY <1>1 DEF CallInv
  <2> QED
    BY <1>1, <2>1, <2>2, CallQuiet
<1>3. CASE up[c] # <<>>
  <2>1. PICK k \in 1..Len(up[c]) :
          /\ rd' = [rd EXCEPT ![c] = rd[c] \o SubSeq(up[c], 1, k)]
          /\ up' = [up EXCEPT ![c] = SubSeq(up[c], k + 1, Len(up[c]))]
    BY <1>0, <1>3 DEF Fill
  <2>2. conns'[cur'] = c
    BY <1>0, <1>1 DEF Fill
  <2>3. CASE c \in Drivers
    <3>1. /\ IsSeq(up[c]) /\ IsSeq(rd[c])
          /\ Lines(up[c]) \in Nat /\ Lines(rd[c]) \in Nat /\ Lines(dn[c]) \in Nat
      BY <2>3, HeldNat DEF CallInv, LinesAreSeqs
    <3>2. /\ k \in Nat /\ k # 0 /\ k <= Lines(up[c])
          /\ IsSeq(SubSeq(up[c], 1, k)) /\ Lines(SubSeq(up[c], 1, k)) = k
          /\ IsSeq(SubSeq(up[c], k + 1, Len(up[c])))
          /\ Lines(SubSeq(up[c], k + 1, Len(up[c]))) = Lines(up[c]) - k
      BY <3>1, SeqSplit
    <3>3. /\ rd' = [d \in Drivers |-> rd'[d]] /\ up' = [d \in Drivers |-> up'[d]]
          /\ \A d \in Drivers : d # c => rd'[d] = rd[d] /\ up'[d] = up[d]
          /\ rd'[c] = rd[c] \o SubSeq(up[c], 1, k)
          /\ up'[c] = SubSeq(up[c], k + 1, Len(up[c]))
      BY <2>1, <2>3 DEF CallInv, LinesAreSeqs
    <3>4. IsSeq(rd'[c]) /\ Lines(rd'[c]) = Lines(rd[c]) + k
      BY <3>1, <3>2, <3>3, SeqConcat
    <3>5. IsSeq(up'[c]) /\ Lines(up'[c]) = Lines(up[c]) - k
      BY <3>2, <3>3
    <3>6. LinesAreSeqs'
      BY <1>1, <3>3, <3>4, <3>5 DEF CallInv, LinesAreSeqs
    <3>7. \A d \in Drivers : Held(d)' = Held(d)
      <4>1. \A d \in Drivers : d # c => Held(d)' = Held(d)
        BY <1>1, <3>3 DEF Held
      <4>2. Lines(dn'[c]) = Lines(dn[c]) /\ k \in Nat
        BY <1>1, <3>2
      <4>3. Held(c)' = Held(c)
        BY <3>1, <3>4, <3>5, <4>2 DEF Held
      <4> QED
        BY <4>1, <4>3
    <3>8. rd'[c] # <<>>
      <4>1. Lines(rd'[c]) # 0
        BY <3>1, <3>2, <3>4
      <4> QED
        BY <3>4, <4>1, LenOfSeq
    <3>9. \A d \in Drivers \ Impatient : OneCall(d)'
      BY <1>1, <3>7 DEF CallInv, OneCall
    <3> QED
      BY <1>1, <2>2, <3>6, <3>8, <3>9 DEF CallInv
  <2>4. CASE c \notin Drivers
    <3>1. UNCHANGED <<rd, up>>
      BY <2>1, <2>4 DEF CallInv, LinesAreSeqs
    <3>2. \A d : Held(d)' = Held(d)
      BY <1>1, <3>1 DEF Held
    <3>3. \A d \in Drivers \ Impatient : OneCall(d)'
      BY <1>1, <3>2 DEF CallInv, OneCall
    <3>4. LinesAreSeqs'
      BY <1>1, <3>1 DEF CallInv, LinesAreSeqs
    <3> QED
      BY <1>1, <2>2, <2>4, <3>3, <3>4 DEF CallInv
  <2> QED
    BY <2>3, <2>4
<1> QED
  BY <1>2, <1>3

\* A dispatched line leaves the reader, and its one reply goes out if anybody is
\* there to read it.
LEMMA CallServe ==
  ASSUME CallInv, Serve
  PROVE  CallInv'
<1>0. PICK c : c = conns[cur]
  OBVIOUS
<1>1. /\ UNCHANGED <<sdk, sock, up, conns, cur>> /\ pc = "lines"
      /\ rd' = [rd EXCEPT ![c] = Tail(rd[c])]
      /\ pc' = "lines" => Tail(rd[c]) # <<>>
  BY <1>0 DEF Serve
<1>2. PICK r : dn' = IF sock[c] = "open" THEN [dn EXCEPT ![c] = dn[c] \o <<r>>] ELSE dn
  BY <1>0 DEF Serve, WriteLine, Answer, BadLine
<1>3. conns'[cur'] = c
  BY <1>0, <1>1
<1>4. c \in Drivers => rd[c] # <<>>
  BY <1>0, <1>1 DEF CallInv
<1>5. CASE c \in Drivers
  <2>1. /\ IsSeq(dn[c]) /\ IsSeq(rd[c]) /\ rd[c] # <<>>
        /\ Lines(up[c]) \in Nat /\ Lines(rd[c]) \in Nat /\ Lines(dn[c]) \in Nat
    BY <1>4, <1>5, HeldNat DEF CallInv, LinesAreSeqs
  <2>2. IsSeq(Tail(rd[c])) /\ Lines(Tail(rd[c])) = Lines(rd[c]) - 1
    BY <2>1, SeqTail
  <2>3. IsSeq(dn[c] \o <<r>>) /\ Lines(dn[c] \o <<r>>) = Lines(dn[c]) + 1
    BY <2>1, SeqConcat, SeqOne
  <2>4. /\ rd' = [d \in Drivers |-> rd'[d]] /\ dn' = [d \in Drivers |-> dn'[d]]
        /\ \A d \in Drivers : d # c => rd'[d] = rd[d] /\ dn'[d] = dn[d]
        /\ rd'[c] = Tail(rd[c])
        /\ dn'[c] = dn[c] \o <<r>> \/ dn'[c] = dn[c]
    BY <1>1, <1>2, <1>5 DEF CallInv, LinesAreSeqs
  <2>5. /\ IsSeq(rd'[c]) /\ IsSeq(dn'[c]) /\ Lines(rd'[c]) = Lines(rd[c]) - 1
        /\ Lines(dn'[c]) \in {Lines(dn[c]), Lines(dn[c]) + 1}
    BY <2>1, <2>2, <2>3, <2>4
  <2>6. LinesAreSeqs'
    BY <1>1, <2>4, <2>5 DEF CallInv, LinesAreSeqs
  <2>7. /\ \A d \in Drivers : d # c => Held(d)' = Held(d)
        /\ Held(c)' = Held(c) \/ Held(c)' = Held(c) - 1
    <3>1. \A d \in Drivers : d # c => Held(d)' = Held(d)
      BY <1>1, <2>4 DEF Held
    <3>2. Lines(up'[c]) = Lines(up[c])
      BY <1>1
    <3>3. Held(c)' = Held(c) \/ Held(c)' = Held(c) - 1
      BY <2>1, <2>5, <3>2 DEF Held
    <3> QED
      BY <3>1, <3>3
  <2>8. Held(c) \in Nat /\ Held(c)' \in Nat /\ Held(c) # 0
    <3>1. Lines(rd[c]) # 0
      BY <2>1, LenOfSeq
    <3>2. Held(c) \in Nat /\ Held(c) # 0
      BY <2>1, <3>1 DEF Held
    <3> QED
      BY <2>7, <3>2
  <2>9. \A d \in Drivers \ Impatient : OneCall(d)'
    BY <1>1, <2>7, <2>8 DEF CallInv, OneCall
  <2>10. pc' = "lines" => rd'[c] # <<>>
    BY <1>1, <2>4
  <2> QED
    BY <1>1, <1>3, <2>6, <2>9, <2>10 DEF CallInv
<1>6. CASE c \notin Drivers
  <2>1. UNCHANGED <<rd, dn>>
    BY <1>1, <1>2, <1>6 DEF CallInv, LinesAreSeqs
  <2>2. \A d : Held(d)' = Held(d)
    BY <1>1, <2>1 DEF Held
  <2>3. \A d \in Drivers \ Impatient : OneCall(d)'
    BY <1>1, <2>2 DEF CallInv, OneCall
  <2>4. LinesAreSeqs'
    BY <1>1, <2>1 DEF CallInv, LinesAreSeqs
  <2> QED
    BY <1>1, <1>3, <1>6, <2>3, <2>4 DEF CallInv
<1> QED
  BY <1>5, <1>6

\* A retired connection takes the lines of its reader with it, and is closed.
LEMMA CallEndPass ==
  ASSUME CallInv, EndPass
  PROVE  CallInv'
<1>1. /\ UNCHANGED <<sdk, up, dn>> /\ pc' = "poll"
      /\ rd' = [d \in Drivers |-> rd'[d]] /\ sock' = [d \in Drivers |-> sock'[d]]
      /\ \A d \in Drivers : rd'[d] \in {<<>>, rd[d]}
      /\ \A d \in Drivers : sock'[d] = "open" => sock[d] = "open"
  BY DEF EndPass
<1>2. \A d \in Drivers : IsSeq(rd'[d]) /\ (Lines(rd'[d]) = Lines(rd[d]) \/ Lines(rd'[d]) = 0)
  BY <1>1, SeqNone DEF CallInv, LinesAreSeqs
<1>3. LinesAreSeqs'
  BY <1>1, <1>2 DEF CallInv, LinesAreSeqs
<1>4. \A d \in Drivers : Held(d) \in Nat /\ Held(d)' \in Nat /\ Held(d)' <= Held(d)
  <2> TAKE d \in Drivers
  <2>1. Lines(up[d]) \in Nat /\ Lines(rd[d]) \in Nat /\ Lines(dn[d]) \in Nat
    BY HeldNat DEF CallInv
  <2> QED
    BY <1>1, <1>2, <2>1 DEF Held
<1>5. \A d \in Drivers \ Impatient : OneCall(d)'
  BY <1>1, <1>4 DEF CallInv, OneCall
<1> QED
  BY <1>1, <1>3, <1>5 DEF CallInv

LEMMA CallNext == CallInv /\ [Next]_vars => CallInv'
<1> SUFFICES ASSUME CallInv, [Next]_vars
             PROVE  CallInv'
  OBVIOUS
<1>1. sdk = [d \in Drivers |-> sdk[d]] /\ sock = [d \in Drivers |-> sock[d]]
  BY DEF CallInv
<1>2. ASSUME NEW c \in Drivers, Connect(c)
      PROVE  CallInv'
  <2>1. /\ UNCHANGED <<up, rd, dn, pc, conns, cur>> /\ sdk[c].st = "start"
        /\ sdk' = [sdk EXCEPT ![c] = [st |-> "idle", id |-> sdk[c].id]]
        /\ sock' = [sock EXCEPT ![c] = "open"]
    BY <1>2 DEF Connect, Becomes, loopVars
  <2>2. /\ sdk' = [d \in Drivers |-> sdk'[d]] /\ sock' = [d \in Drivers |-> sock'[d]]
        /\ \A d \in Drivers : d # c => sdk'[d] = sdk[d] /\ sock'[d] = sock[d]
        /\ sdk'[c].st = "idle"
    BY <1>1, <2>1
  <2> QED
    BY <2>1, <2>2, CallQuiet
<1>3. ASSUME NEW c \in Drivers, ReceiveEof(c)
      PROVE  CallInv'
  <2>1. /\ UNCHANGED <<up, rd, dn, sock, pc, conns, cur>> /\ sock[c] = "refused"
        /\ sdk' = [sdk EXCEPT ![c] = [st |-> "idle", id |-> sdk[c].id]]
    BY <1>3 DEF ReceiveEof, Becomes, loopVars
  <2>2. /\ sdk' = [d \in Drivers |-> sdk'[d]] /\ sock' = [d \in Drivers |-> sock'[d]]
        /\ \A d \in Drivers : d # c => sdk'[d] = sdk[d]
        /\ sdk'[c].st = "idle"
    BY <1>1, <2>1
  <2> QED
    BY <2>1, <2>2, CallQuiet
<1>4. ASSUME NEW c \in Drivers, Timeout(c)
      PROVE  CallInv'
  <2>1. /\ UNCHANGED <<up, rd, dn, sock, pc, conns, cur>> /\ c \in Impatient
        /\ sdk' = [sdk EXCEPT ![c] = [st |-> "idle", id |-> sdk[c].id]]
    BY <1>4 DEF Timeout, Becomes, loopVars
  <2>2. /\ sdk' = [d \in Drivers |-> sdk'[d]] /\ sock' = [d \in Drivers |-> sock'[d]]
        /\ \A d \in Drivers : d # c => sdk'[d] = sdk[d]
    BY <1>1, <2>1
  <2> QED
    BY <2>1, <2>2, CallQuiet
<1>5. ASSUME NEW c \in Drivers, Close(c)
      PROVE  CallInv'
  <2>1. /\ UNCHANGED <<up, rd, dn, pc, conns, cur>>
        /\ sdk' = [sdk EXCEPT ![c] = [st |-> "closed", id |-> sdk[c].id]]
        /\ sock' = [sock EXCEPT ![c] = IF sock[c] = "open" THEN "shut" ELSE sock[c]]
    BY <1>1, <1>5 DEF Close, Becomes, loopVars
  <2>2. /\ sdk' = [d \in Drivers |-> sdk'[d]] /\ sock' = [d \in Drivers |-> sock'[d]]
        /\ \A d \in Drivers : d # c => sdk'[d] = sdk[d] /\ sock'[d] = sock[d]
        /\ sdk'[c].st = "closed"
    BY <1>1, <2>1
  <2> QED
    BY <2>1, <2>2, CallQuiet
<1>6. CASE Boot \/ HostLine \/ (\E c \in Drivers : Workload(c)) \/ UNCHANGED vars
  <2>1. /\ UNCHANGED <<up, rd, dn, sock, sdk>>
        /\ pc' = "lines" => pc = "lines" /\ UNCHANGED <<conns, cur>>
    BY <1>6 DEF Boot, HostLine, Workload, vars, sdkVars, loopVars
  <2> QED
    BY <1>1, <2>1, CallQuiet
<1>7. CASE Poll
  <2>1. UNCHANGED <<up, rd, dn, sdk>> /\ pc' = "conns"
    BY <1>7 DEF Poll
  <2>2. sock' = sock \/ sock' = [sock EXCEPT ![Head(backlog)] = "refused"]
    BY <1>7 DEF Poll
  <2>3. /\ sock' = [d \in Drivers |-> sock'[d]]
        /\ \A d \in Drivers : sock'[d] = "open" => sock[d] = "open"
    BY <1>1, <2>2
  <2> QED
    BY <1>1, <2>1, <2>3, CallQuiet
<1> QED
  BY <1>2, <1>3, <1>4, <1>5, <1>6, <1>7, CallSend, CallReceive, CallFill, CallServe,
     CallEndPass DEF Next, DriverStep, AgentStep

\* A call that returns with a reply leaves its own request nowhere between Do
\* and the agent (Client.Do, run_loop, Agent::handle), for any clients and
\* scripts.
THEOREM FaultsPrecedeReturns == Spec => FaultIsAppliedOnReturn
<1>1. ASSUME CallInv, NEW d \in Drivers \ Impatient, Receive(d)
      PROVE  \A line \in ToSet(up[d] \o rd[d]) : line.id # sdk[d].id
  <2>1. /\ Lines(up[d]) \in Nat /\ Lines(rd[d]) \in Nat /\ Lines(dn[d]) \in Nat
        /\ IsSeq(up[d]) /\ IsSeq(rd[d]) /\ IsSeq(dn[d])
    BY <1>1, HeldNat DEF CallInv, LinesAreSeqs
  <2>2. Lines(dn[d]) # 0 /\ Held(d) <= 1
    BY <1>1, <2>1, LenOfSeq DEF Receive, CallInv, OneCall
  <2>3. Lines(up[d]) = 0 /\ Lines(rd[d]) = 0
    BY <2>1, <2>2 DEF Held
  <2>4. up[d] = <<>> /\ rd[d] = <<>>
    BY <2>1, <2>3, LenOfSeq
  <2>5. up[d] \o rd[d] = <<>>
    BY <2>4
  <2> QED
    BY <2>5 DEF ToSet
<1>2. CallInv => [\A d \in Drivers \ Impatient :
                    Receive(d) => \A line \in ToSet(up[d] \o rd[d]) : line.id # sdk[d].id]_vars
  BY <1>1
<1> QED
  BY <1>2, CallInit, CallNext, PTL DEF Spec, FaultIsAppliedOnReturn
=============================================================================
