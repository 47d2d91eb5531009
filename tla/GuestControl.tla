---------------------------- MODULE GuestControl ----------------------------
(***************************************************************************)
(* The in-guest control path of a driven run.                              *)
(*                                                                         *)
(*   - container processes that use the Go SDK (src/sdk/go/tdvmm.go), each *)
(*     with one connection to the agent's unix control socket;             *)
(*   - the guest agent: one thread around one poll (bridge.rs: run_loop)   *)
(*     that serves the connections and the shared event FIFO through       *)
(*     Agent::handle (agent.rs) and is the only writer of ttyS1;           *)
(*   - the host's fold of the agent's lines (src/src/driver.rs) into the   *)
(*     run's verdict.                                                      *)
(*                                                                         *)
(* A frame is a record, a byte stream a sequence of frames.  Podman, nft   *)
(* and the kernel are external: a call of theirs may fail, and nft applies *)
(* a ruleset as one transaction.                                           *)
(***************************************************************************)
EXTENDS Naturals, Sequences, FiniteSets, FiniteSetsExt, SequencesExt

CONSTANTS
  Drivers,    \* container processes, one SDK client each
  Services,   \* compose services, one container each
  Script,     \* Script[d]: the requests driver d may send
  EventKinds, \* what the workload writes into the event FIFO
  Generations,\* the addresses a container may get when it is started
  Impatient,  \* the clients whose timeout is not zero
  Leavers,    \* the clients that may hang up
  MaxReq,     \* MaxReq[d], bound: requests and event lines of driver d
  TtyCap,     \* lines the guest's ttyS1 holds; a write blocks when it is full
  Caps,       \* values of MAX_CTL_CONNS
  None

ASSUME ControlAssumption ==
  /\ MaxReq \in [Drivers -> Nat]
  /\ Caps \subseteq Nat \ {0} /\ TtyCap \in Nat \ {0}
  /\ IsFiniteSet(Drivers) /\ IsFiniteSet(Services)
  /\ DOMAIN Script = Drivers
  /\ None # 0

VARIABLES
  sdk,     \* sdk[d]: the client's state and the id of its last request
  sock,    \* sock[d]: the connection, seen from outside
  up, dn,  \* up[d], dn[d]: bytes in flight to the agent, and back
  backlog, \* connections waiting to be accepted
  fifo,    \* lines in the event FIFO
  wrote,   \* wrote[d]: lines driver d has written into it
  pc,      \* where the agent's loop is
  polled,  \* the result of the last poll
  conns,   \* the agent's connection table
  cap,     \* MAX_CTL_CONNS
  cur,     \* index of the connection being served
  rd,      \* rd[d]: complete lines in the connection's LineReader
  dead,    \* indices to retire at the end of the pass
  book,    \* Agent.partitions: pair key -> the two addresses
  finished,\* Agent.finished
  seq,     \* sequence number of the last forwarded event
  rules,   \* the drop rules nft holds
  ctr,     \* ctr[s]: the container of service s
  tty,     \* agent lines on their way to the host
  run,     \* the host's DriverRun
  answered,\* history: what the last answers say of each pair
  served   \* history: container requests served

sdkVars == <<sdk, sock, up, dn>>
loopVars == <<pc, polled, conns, cap, cur, rd, dead>>
agentVars == <<book, finished, rules, ctr, answered, served>>
vars == <<sdk, sock, up, dn, backlog, fifo, wrote, pc, polled, conns, cap,
          cur, rd, dead, book, finished, seq, rules, ctr, tty, run, answered,
          served>>
-----------------------------------------------------------------------------
(* Wire messages. *)

\* Mutant: the key keeps the order of the two services.
OrderedKey(a, b) == <<a, b>>

\* pair_key: the canonical unordered pair.
PairKey(a, b) == {a, b}

Pairs == {{a, b} : a \in Services, b \in Services}

\* Request: the command, its two services and the exit code of a finish, each
\* of them optional.
Request(op, container, peer, exit) ==
  [op |-> op, a |-> container, b |-> peer, exit |-> exit]

\* Reply, as the client uses it: whom it answers and whether it worked.
Reply(id, ok) == [id |-> id, ok |-> ok]

\* ok_stdout and err.
OkReply(id) == Reply(id, TRUE)
ErrReply(id) == Reply(id, FALSE)

\* bad_request: the line was no request, so the reply carries no id.
BadRequest == Reply(None, FALSE)

Hello == [kind |-> "hello"]
CtlMirror(n) == [kind |-> "ctl", seq |-> n]
FinishEvent(n, exit) == [kind |-> "finish", seq |-> n, exit |-> exit]

\* The kinds only the agent may originate.
Reserved == {"finish", "ctl"}

\* Mutant: a reserved kind passes through.
ParseEventVerbatim(kind, n) == [kind |-> kind, seq |-> n, exit |-> 0]

\* parse_event: a line that claims a reserved kind is recorded as invalid.
ParseEvent(kind, n) ==
  [kind |-> IF kind \in Reserved THEN "invalid" ELSE kind, seq |-> n, exit |-> 0]

\* unwrap_or(0): a finish without a code passes.
ExitOf(req) == IF req.exit = None THEN 0 ELSE req.exit

\* What the answers so far say of a pair: the rules in force, or nothing.
Known(rs) == [known |-> TRUE, rules |-> rs]
Unknown == [known |-> FALSE, rules |-> {}]

NoPoll == [ready |-> {}, events |-> FALSE]
NewRun == [ready |-> FALSE, verdict |-> None, commands |-> 0]
NewContainer == [running |-> TRUE, gen |-> 0]

Init ==
  /\ sdk = [d \in Drivers |-> [st |-> "start", id |-> 0]]
  /\ sock = [d \in Drivers |-> "none"]
  /\ up = [d \in Drivers |-> <<>>] /\ dn = [d \in Drivers |-> <<>>]
  /\ backlog = <<>> /\ fifo = <<>> /\ wrote = [d \in Drivers |-> 0]
  /\ pc = "boot" /\ polled = NoPoll /\ conns = <<>> /\ cap \in Caps /\ cur = 0
  /\ rd = [d \in Drivers |-> <<>>] /\ dead = {}
  /\ book = [p \in {} |-> None] /\ finished = None /\ seq = 0
  /\ rules = {} /\ ctr = [s \in Services |-> NewContainer]
  /\ tty = <<>> /\ run = NewRun
  /\ answered = [p \in Pairs |-> Known({})] /\ served = 0

\* The run is on: the host stops executing guest code when a verdict is in.
\* (The other reasons to stop only cut a behaviour short.)
Running == run.verdict = None
-----------------------------------------------------------------------------
(* The Go SDK. *)

\* The client goes on in another state.
Becomes(d, st) == sdk' = [sdk EXCEPT ![d] = [st |-> st, id |-> sdk[d].id]]

\* Connect: dial, retrying while the agent has not bound the socket.
Connect(d) ==
  /\ sdk[d].st = "start" /\ pc \notin {"boot", "bound-failed"}
  /\ Becomes(d, "idle")
  /\ sock' = [sock EXCEPT ![d] = "open"]
  /\ backlog' = Append(backlog, d)
  /\ UNCHANGED <<up, dn, fifo, wrote, loopVars, agentVars, seq, tty, run>>

HasMore(d) == sdk[d].id + wrote[d] < MaxReq[d]

\* Do, first half: number the request, write its line.  A write to a socket
\* the agent has closed fails.
Send(d) ==
  /\ sdk[d].st = "idle" /\ HasMore(d)
  /\ \E req \in Script[d] :
       /\ sdk' = [sdk EXCEPT ![d] = [st |-> IF sock[d] = "open"
                                            THEN "waiting" ELSE "idle",
                                     id |-> @.id + 1]]
       /\ up' = IF sock[d] = "open"
                THEN [up EXCEPT ![d] = Append(@, [id |-> sdk[d].id + 1, req |-> req])]
                ELSE up
  /\ UNCHANGED <<sock, dn, backlog, fifo, wrote, loopVars, agentVars,
                 seq, tty, run>>

\* Do, second half: the next line on the connection is the reply.
Receive(d) ==
  /\ sdk[d].st = "waiting" /\ dn[d] # <<>>
  /\ Becomes(d, "idle")
  /\ dn' = [dn EXCEPT ![d] = Tail(@)]
  /\ UNCHANGED <<sock, up, backlog, fifo, wrote, loopVars, agentVars, seq, tty,
                 run>>

\* Do: the agent closed the connection before answering.
ReceiveEof(d) ==
  /\ sdk[d].st = "waiting" /\ dn[d] = <<>> /\ sock[d] = "refused"
  /\ Becomes(d, "idle")
  /\ UNCHANGED <<sock, up, dn, backlog, fifo, wrote, loopVars, agentVars,
                 seq, tty, run>>

\* Do: the command's timeout passes first.  The connection stays in use.
Timeout(d) ==
  /\ d \in Impatient /\ sdk[d].st = "waiting"
  /\ Becomes(d, "idle")
  /\ UNCHANGED <<sock, up, dn, backlog, fifo, wrote, loopVars, agentVars,
                 seq, tty, run>>

\* Close, or the process ends: at any point, a request in flight included.
Close(d) ==
  /\ d \in Leavers /\ sdk[d].st \in {"idle", "waiting"}
  /\ Becomes(d, "closed")
  /\ sock' = [sock EXCEPT ![d] = IF @ = "open" THEN "shut" ELSE @]
  /\ UNCHANGED <<up, dn, backlog, fifo, wrote, loopVars, agentVars, seq,
                 tty, run>>

\* The process writes one line into the event FIFO instead.
Workload(d) ==
  /\ sdk[d].st # "waiting" /\ HasMore(d) /\ pc # "boot"
  /\ \E k \in EventKinds : fifo' = Append(fifo, k)
  /\ wrote' = [wrote EXCEPT ![d] = @ + 1]
  /\ UNCHANGED <<sdkVars, backlog, loopVars, agentVars, seq, tty, run>>
-----------------------------------------------------------------------------
(* The agent's start and its loop. *)

\* main: bind the control socket, then say hello.  Without the socket the
\* agent still runs, and no container can connect.
Boot ==
  /\ pc = "boot"
  /\ pc' \in {"poll", "bound-failed"}
  /\ tty' = Append(tty, Hello)
  /\ UNCHANGED <<sdkVars, backlog, fifo, wrote, polled, conns, cap, cur, rd,
                 dead, agentVars, seq, run>>

\* A stream is kept while the table is below MAX_CTL_CONNS.
Room == Len(conns) < cap

\* ready: a connection has bytes, or was closed (hangup).
Ready(d) == up[d] # <<>> \/ sock[d] = "shut"
ReadyConns == {n \in 1..Len(conns) : Ready(conns[n])}

\* poll_blocking returns when a source is ready; its timeout is infinite.
PollReturns == ReadyConns # {} \/ backlog # <<>> \/ fifo # <<>>

\* The poll set covers the connections of this moment.  Then one accept; past
\* the cap the stream is dropped.
Poll ==
  LET d == Head(backlog)
  IN /\ pc = "poll" /\ PollReturns
     /\ polled' = [ready |-> ReadyConns, events |-> fifo # <<>>]
     /\ IF backlog = <<>> THEN UNCHANGED <<backlog, conns, sock>>
        ELSE /\ backlog' = Tail(backlog)
             /\ IF Room
                THEN conns' = Append(conns, d) /\ sock' = sock
                ELSE conns' = conns /\ sock' = [sock EXCEPT ![d] = "refused"]
     /\ pc' = "conns"
     /\ UNCHANGED <<sdk, up, dn, fifo, wrote, cap, cur, rd, dead, agentVars,
                    seq, tty, run>>

\* The connections of this pass not served yet.
Pending == {n \in polled.ready : n > cur}

\* LineReader::fill on the next ready connection: one read returns some of what
\* is there, or reports the end of the stream.
Fill ==
  /\ pc = "conns" /\ Pending # {}
  /\ LET n == Min(Pending)
         d == conns[n]
     IN /\ cur' = n
        /\ IF up[d] # <<>>
           THEN \E k \in 1..Len(up[d]) :
                  /\ rd' = [rd EXCEPT ![d] = @ \o SubSeq(up[d], 1, k)]
                  /\ up' = [up EXCEPT ![d] = SubSeq(@, k + 1, Len(@))]
                  /\ pc' = "lines" /\ dead' = dead
           ELSE dead' = dead \cup {n} /\ UNCHANGED <<rd, up, pc>>
  /\ UNCHANGED <<sdk, sock, dn, backlog, fifo, wrote, polled, conns, cap,
                 agentVars, seq, tty, run>>

\* conns.remove(n) for the dead indices, in descending order.
DropDead(cs, gone) ==
  LET keep == SetToSortSeq((1..Len(cs)) \ gone, <)
  IN [i \in 1..Len(keep) |-> cs[keep[i]]]

\* The end of a pass: retire the connections that hung up, then forward the
\* FIFO's lines, each with its sequence number.
EndPass ==
  /\ pc = "conns" /\ Pending = {}
  /\ conns' = IF dead = {} THEN conns ELSE DropDead(conns, dead)
  /\ LET left == ToSet(conns) \ ToSet(conns') IN
       /\ rd' = [d \in Drivers |-> IF d \in left THEN <<>> ELSE rd[d]]
       /\ sock' = [d \in Drivers |-> IF d \in left /\ sock[d] = "open"
                                     THEN "refused" ELSE sock[d]]
  /\ IF polled.events
     THEN \E k \in 1..Len(fifo) :
            /\ Len(tty) + k <= TtyCap
            /\ tty' = tty \o [i \in 1..k |-> ParseEvent(fifo[i], seq + i)]
            /\ fifo' = SubSeq(fifo, k + 1, Len(fifo))
            /\ seq' = seq + k
     ELSE UNCHANGED <<tty, fifo, seq>>
  /\ pc' = "poll" /\ cur' = 0 /\ dead' = {} /\ polled' = NoPoll
  /\ UNCHANGED <<sdk, up, dn, backlog, wrote, cap, agentVars, run>>
-----------------------------------------------------------------------------
(* Agent::handle.  Each operator is one operation: ok is what its reply says. *)

\* podman_json: the containers there are, with their service and state.
PodmanJson == {[service |-> s, running |-> ctr[s].running] : s \in Services}

\* Want: the state of the container looked for.
WantRunning == TRUE
WantStopped == FALSE

\* resolve_running, resolve_by_service: the service has a container in the state
\* wanted; a request that names no service has none.
Resolves(s, want) == \E c \in PodmanJson : c.service = s /\ c.running = want

\* container_ip: the address the running container has now.
Addr(s) == <<s, ctr[s].gen>>

\* run_podman: a podman that fails or times out may have acted.
RunPodman(done, ok) == ctr' \in IF ok THEN {done} ELSE {ctr, done}

\* apply_partitions: the ruleset rebuilt from the book.
RulesOf(b) == {b[k] : k \in DOMAIN b}

\* nft -f -, one transaction.  A reported error may come after it was applied.
Apply(b, ok) ==
  \/ ok /\ rules' = RulesOf(b)
  \/ ~ok /\ rules' \in {rules, RulesOf(b)}

\* do_finish: the first one is recorded, a later one refused.
DoFinish(req, ok) ==
  /\ req.op = "finish" /\ ok = (finished = None)
  /\ finished' = IF ok THEN ExitOf(req) ELSE finished
  /\ UNCHANGED <<book, rules, ctr, answered>>

\* ping answers, an unknown command is refused.
DoPing(req, ok) ==
  /\ req.op \in {"ping", "unknown"} /\ ok = (req.op = "ping")
  /\ UNCHANGED <<book, finished, rules, ctr, answered>>

\* do_containers: podman's list, or its error.
DoContainers(req, ok) ==
  /\ req.op = "containers" /\ ok \in BOOLEAN
  /\ UNCHANGED <<book, finished, rules, ctr, answered>>

\* do_exec: the command runs in the running container; what it does there is the
\* workload's affair.
DoExec(req, ok) ==
  /\ req.op = "exec"
  /\ ok => Resolves(req.a, WantRunning)
  /\ UNCHANGED <<book, finished, rules, ctr, answered>>

\* do_logs: a chunk of the container's log, running or not.
DoLogs(req, ok) ==
  /\ req.op = "logs"
  /\ ok => req.a # None
  /\ UNCHANGED <<book, finished, rules, ctr, answered>>

\* do_lifecycle: kill or stop the running container, then wait for it; when the
\* wait after a kill fails, the container may still be listed as running.
DoLifecycle(req, ok) ==
  /\ req.op \in {"kill", "stop"}
  /\ \/ ~ok /\ ctr' = ctr
     \/ /\ Resolves(req.a, WantRunning)
        /\ \/ RunPodman([ctr EXCEPT ![req.a] = [@ EXCEPT !.running = FALSE]], ok)
           \/ ok /\ req.op = "kill" /\ ctr' = ctr
  /\ UNCHANGED <<book, finished, rules, answered>>

\* do_start: a running container counts as started.
DoStart(req, ok) ==
  /\ req.op = "start"
  /\ \/ ok /\ Resolves(req.a, WantRunning) /\ ctr' = ctr
     \/ ~ok /\ ctr' = ctr
     \/ /\ Resolves(req.a, WantStopped)
        /\ \E g \in Generations :
             RunPodman([ctr EXCEPT ![req.a] = [running |-> TRUE, gen |-> g]], ok)
  /\ UNCHANGED <<book, finished, rules, answered>>

\* do_partition.  An error before the insert changes nothing; one from nft
\* takes the key out of the book again.
DoPartition(req, ok) ==
  LET both == Resolves(req.a, WantRunning) /\ Resolves(req.b, WantRunning)
      key == PairKey(req.a, req.b)
      cut == {Addr(req.a), Addr(req.b)}
      with == [k \in DOMAIN book \cup {key} |-> IF k = key THEN cut ELSE book[k]]
      without == [k \in DOMAIN book \ {key} |-> book[k]]
  IN /\ req.op = "partition"
     /\ \/ /\ ~ok /\ UNCHANGED <<book, rules, answered>>
        \/ /\ both /\ Apply(with, ok)
           /\ book' = IF ok THEN with ELSE without
           /\ answered' = [answered EXCEPT
                             ![{req.a, req.b}] = IF ok THEN Known({cut}) ELSE Unknown]
     /\ UNCHANGED <<finished, ctr>>

\* do_heal: one pair, or all of them.  The book changes before nft is asked.
DoHeal(req, ok) ==
  LET all == req.a = None /\ req.b = None
      one == req.a # None /\ req.b # None
      healed == IF all THEN Pairs ELSE {{req.a, req.b}}
      kept == IF all THEN {} ELSE DOMAIN book \ {PairKey(req.a, req.b)}
      after == [k \in kept |-> book[k]]
  IN /\ req.op = "heal"
     /\ IF all \/ one
        THEN /\ book' = after /\ Apply(after, ok)
             /\ answered' = [p \in Pairs |->
                   IF p \in healed THEN IF ok THEN Known({}) ELSE Unknown
                                   ELSE answered[p]]
        ELSE ~ok /\ UNCHANGED <<book, rules, answered>>
     /\ UNCHANGED <<finished, ctr>>

Handle(req, ok) ==
  \/ DoPing(req, ok) \/ DoFinish(req, ok)
  \/ DoContainers(req, ok) \/ DoExec(req, ok) \/ DoLogs(req, ok)
  \/ DoLifecycle(req, ok) \/ DoStart(req, ok)
  \/ DoPartition(req, ok) \/ DoHeal(req, ok)

\* accepted_finish: the bridge must tell the host to end the run.
AcceptedFinish(req, ok) == req.op = "finish" /\ ok

\* Mutant: a line that is no request is skipped like noise.
BadIgnored == <<>>

\* The answer to a line that is no request.
BadLine == <<BadRequest>>

\* Mutant: the line for the host goes to the driver as well.
AnswerAndMirror(r) == <<r, r>>

\* What is written on the driver's own connection: the reply, once.
Answer(r) == <<r>>

\* Mutant: a connection that died is retired before its event is forwarded.
ForwardsIfAlive(alive) == alive

\* What the bridge sends to the host does not depend on the connection.
Forwards(alive) == TRUE

\* write_line: a line on the connection, whole, or an error if it is closed.
WriteLine(d, rs) == dn' = IF sock[d] = "open" THEN [dn EXCEPT ![d] = @ \o rs] ELSE dn

\* handle_ctl_line and the rest of run_loop's pass over one line: dispatch,
\* write the reply on the driver's own connection, forward the mirror or the
\* verdict to the host, then look at the connection: a failed write retires it,
\* its other lines unserved.
Serve ==
  LET d == conns[cur]
      line == Head(rd[d])
      alive == sock[d] = "open"
  IN /\ pc = "lines" /\ Len(tty) < TtyCap
     /\ IF line.req.op = "bad"
        THEN WriteLine(d, BadLine) /\ UNCHANGED <<agentVars, seq, tty>>
        ELSE \E ok \in BOOLEAN :
               /\ Handle(line.req, ok)
               /\ served' = served + 1
               /\ WriteLine(d, Answer(IF ok THEN OkReply(line.id) ELSE ErrReply(line.id)))
               /\ IF Forwards(alive)
                  THEN /\ seq' = seq + 1
                       /\ tty' = Append(tty, IF AcceptedFinish(line.req, ok)
                                             THEN FinishEvent(seq + 1, ExitOf(line.req))
                                             ELSE CtlMirror(seq + 1))
                  ELSE UNCHANGED <<seq, tty>>
     /\ rd' = [rd EXCEPT ![d] = Tail(@)]
     /\ pc' = IF alive /\ Tail(rd[d]) # <<>> THEN "lines" ELSE "conns"
     /\ dead' = IF alive THEN dead ELSE dead \cup {cur}
     /\ UNCHANGED <<sdk, sock, up, backlog, fifo, wrote, polled, conns, cap, cur,
                    run>>
-----------------------------------------------------------------------------
(* The host. *)

\* DriverRun::on_event.
OnEvent(r, ev) ==
  CASE ev.kind = "finish" ->
         [r EXCEPT !.verdict = IF @ = None THEN ev.exit ELSE @]
    [] ev.kind = "ctl" ->
         [r EXCEPT !.commands = @ + 1]
    [] OTHER -> r

\* on_agent_line, for the next line on COM2.
HostLine ==
  /\ tty # <<>>
  /\ tty' = Tail(tty)
  /\ run' = IF Head(tty).kind = "hello" THEN [run EXCEPT !.ready = TRUE]
            ELSE OnEvent(run, Head(tty))
  /\ UNCHANGED <<sdkVars, backlog, fifo, wrote, loopVars, agentVars, seq>>

DriverStep ==
  \E d \in Drivers : \/ Connect(d) \/ Send(d) \/ Receive(d) \/ ReceiveEof(d)
                     \/ Timeout(d) \/ Close(d) \/ Workload(d)

AgentStep ==
  \/ Boot \/ Poll \/ Fill \/ Serve \/ EndPass

Next == Running /\ (DriverStep \/ AgentStep \/ HostLine)

\* The agent's thread and the vCPU thread keep running, and a client blocked
\* in a read returns when its line is there.  Nothing makes a driver send.
Spec ==
  /\ Init /\ [][Next]_vars
  /\ WF_vars(Running /\ AgentStep) /\ WF_vars(Running /\ HostLine)
  /\ \A d \in Drivers : WF_vars(Running /\ (Receive(d) \/ ReceiveEof(d)))
-----------------------------------------------------------------------------
(* Properties. *)

\* The host's verdict is the first finish the agent accepted, whoever else
\* finished since and whatever the workload wrote into the event FIFO
\* (do_finish, accepted_finish, parse_event, DriverRun::on_event).
VerdictIsFirstFinish == run.verdict # None => run.verdict = finished

Count(kind) == Cardinality({i \in DOMAIN tty : tty[i].kind = kind})

\* Every request a container had served is traced once: counted by the host, on
\* its way, or about to be forwarded; also when its driver hung up before the
\* reply was written (run_loop forwards before it looks at the connection).
EveryCommandIsTraced ==
  served = run.commands + Count("ctl") + Count("finish")
           + (IF run.verdict = None THEN 0 ELSE 1)

RuleServices(r) == {x[1] : x \in r}

\* nft drops between two services exactly when the last answer about the pair
\* said so, between the addresses they had then; a pair whose last partition or
\* heal was answered with an nft error is the only one left open, through every
\* rebuild of the ruleset for other pairs (do_partition, do_heal,
\* apply_partitions).
PartitionsAreAsAnswered ==
  \A p \in Pairs : answered[p].known =>
    {r \in rules : RuleServices(r) = p} = answered[p].rules

\* "Faults are applied before the call returns" (sdk/go/README.md), for a client
\* whose calls never time out: a call that returns with a reply leaves its own
\* request nowhere between Do and the agent, so the agent has dispatched it.
\* Do does not look at the id of the reply: after a timeout the next call
\* returns on the reply to the one before (see the README).
FaultIsAppliedOnReturn ==
  [][\A d \in Drivers \ Impatient :
       Receive(d) => \A line \in ToSet(up[d] \o rd[d]) : line.id # sdk[d].id]_vars

\* An accepted finish ends the run, also when its driver is gone.
AcceptedFinishEndsRun == (finished # None) ~> ~Running

\* A client that waits for a reply gets one, or sees its connection closed,
\* whichever other connections come and go (the index bookkeeping of run_loop).
DriversAreAnswered ==
  \A d \in Drivers :
    (sdk[d].st = "waiting" /\ pc \notin {"boot", "bound-failed"})
      ~> (sdk[d].st # "waiting" \/ ~Running)
=============================================================================
