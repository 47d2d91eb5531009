--------------------------- MODULE EgressForwarder --------------------------
(***************************************************************************)
(* The guest side of --allow-egress (tdvmm-agent/src/forwarder.rs): the    *)
(* threads of the SOCKS proxy, that is the demux reader and, for each      *)
(* accepted connection, its handler and its up thread, joined by the       *)
(* registry of stream ids, the tty writer and a channel per stream.        *)
(*                                                                         *)
(* The two directions of ttyS3 are FIFO queues of whole frames: send holds *)
(* the writer's mutex across the frame.  At the other end is the host's    *)
(* session table, one stream at a time and without sockets (module         *)
(* EgressMux has those); a socket error or an overrun is HostAborts.       *)
(* Frames carry the connection they were sent for as history, so that a    *)
(* frame reaching a later user of its id can be told.  Losing the tty ends *)
(* the process, so sends do not fail.                                      *)
(***************************************************************************)
EXTENDS Integers, Sequences, FiniteSets

CONSTANTS
  Conns,      \* accepted SOCKS connections
  NIds,       \* how many stream ids there are (2^16)
  Window,     \* the host's initial credit, WINDOW_BYTES
  Threshold,  \* WINDOW_GRANT_THRESHOLD
  MaxBytes,   \* bound: bytes a remote end sends
  MaxSends,   \* bound: writes of a client
  Loads,      \* bound: what the connections carry, the cases to look at
  None

ASSUME IdsAssumption == NIds \in Nat \ {0} /\ None \notin Conns \cup Nat
ASSUME WindowAssumption ==
  Window \in Nat /\ Threshold \in Nat \ {0} /\ Threshold <= Window
ASSUME ForwarderBounds ==
  /\ MaxBytes \in Nat /\ MaxSends \in Nat
  /\ Loads \subseteq [Conns -> {"absent", "brief", "uploads", "full"}]

VARIABLES
  counter,   \* the id to try next
  registry,  \* Registry: which connection's channel an id feeds
  spinning,  \* a register loop holds the registry's mutex and finds no id
  handler,   \* where handle_connection is
  sid,       \* the connection's stream id
  chan,      \* its channel: Inbound messages
  ungranted, \* relay_down's counter
  up,        \* where relay_up is
  client,    \* the client socket
  toHost,    \* ttyS3, guest to host
  toGuest,   \* ttyS3, host to guest
  session,   \* the host's sessions
  total,     \* history: bytes the remote end has sent
  delivered  \* history: bytes written to the client

guestVars == <<counter, registry, spinning, handler, sid, chan, ungranted, up>>
hostVars == <<session, total>>
vars == <<counter, registry, spinning, handler, sid, chan, ungranted, up,
          client, toHost, toGuest, session, total, delivered>>

Ids == 0..(NIds - 1)

Frame(kind, c, n) == [kind |-> kind, stream |-> sid[c], n |-> n, conn |-> c]

GuestKinds == {"open", "data", "close", "rst", "window"}
HostKinds == {"open_ok", "open_err", "data", "close", "rst"}
Frames(kinds) == [kind : kinds, stream : Ids, n : Nat, conn : Conns]

HandlerPcs == {"negotiate", "register", "open", "verdict", "relay", "grant",
               "reset", "shut", "join", "remove", "done"}
UpPcs == {"none", "read", "send", "close", "rst", "done"}

\* The client's writes so far and whether one is unread, its FIN, its reset,
\* a response it has yet to read, and what the forwarder has done: sent the
\* FIN (eof), shut both directions (shut).
Clients == [sent : 0..MaxSends, unread : BOOLEAN, fin : BOOLEAN,
            reset : BOOLEAN, full : BOOLEAN, eof : BOOLEAN, shut : BOOLEAN]

\* A session: whose it is, its read buffer and credit, EOF seen, the guest's
\* CLOSE seen, its own CLOSE sent.
Sessions == [conn : Conns, open : BOOLEAN, credit : Nat, buf : Nat,
             eof : BOOLEAN, closed : BOOLEAN, closeSent : BOOLEAN]

TypeOK ==
  /\ counter \in Ids
  /\ registry \in [Ids -> Conns \cup {None}]
  /\ spinning \in BOOLEAN
  /\ handler \in [Conns -> HandlerPcs]
  /\ sid \in [Conns -> Ids \cup {None}]
  /\ chan \in [Conns -> Seq(Frames(HostKinds))]
  /\ ungranted \in [Conns -> Nat]
  /\ up \in [Conns -> UpPcs]
  /\ client \in [Conns -> Clients]
  /\ toHost \in Seq(Frames(GuestKinds))
  /\ toGuest \in Seq(Frames(HostKinds))
  /\ session \in [Ids -> Sessions \cup {None}]
  /\ total \in [Conns -> 0..MaxBytes]
  /\ delivered \in [Conns -> Nat]

NewClient == [sent |-> 0, unread |-> FALSE, fin |-> FALSE, reset |-> FALSE,
              full |-> FALSE, eof |-> FALSE, shut |-> FALSE]

\* A connection that is absent is over.  One that only uploads starts with the
\* bound on the bytes of its remote end used up, a brief one with both bounds.
Init ==
  /\ counter = 1 % NIds
  /\ registry = [i \in Ids |-> None]
  /\ spinning = FALSE
  /\ \E load \in Loads :
       /\ handler = [c \in Conns |-> IF load[c] = "absent" THEN "done" ELSE "negotiate"]
       /\ total = [c \in Conns |-> IF load[c] = "full" THEN 0 ELSE MaxBytes]
       /\ delivered = total
       /\ client = [c \in Conns |->
                     [NewClient EXCEPT !.sent = IF load[c] = "brief" THEN MaxSends ELSE 0]]
  /\ sid = [c \in Conns |-> None]
  /\ chan = [c \in Conns |-> <<>>]
  /\ ungranted = [c \in Conns |-> 0]
  /\ up = [c \in Conns |-> "none"]
  /\ toHost = <<>> /\ toGuest = <<>>
  /\ session = [i \in Ids |-> None]

Send(c, kind, n) == toHost' = Append(toHost, Frame(kind, c, n))

ClientBecomes(c, k) == client' = [client EXCEPT ![c] = k]

HandlerAt(c, from) == handler[c] = from
HandlerGoes(c, to) == handler' = [handler EXCEPT ![c] = to]
-----------------------------------------------------------------------------
(* handle_connection, up to the relay. *)

\* Socks5Target: the client named a destination.  SocksError: it was turned away
\* with a reply code or without one, or hung up.
Socks5Target == "register"
SocksError == "done"

\* An accepted client negotiates; whatever is rejected ends its handler.
Negotiates(c) ==
  /\ HandlerAt(c, "negotiate")
  /\ HandlerGoes(c, Socks5Target) \/ HandlerGoes(c, SocksError)
  /\ UNCHANGED <<counter, registry, spinning, sid, chan, ungranted, up, client,
                 toHost, toGuest, hostVars, delivered>>

Free(i) == registry[i] = None

\* The first free id from the counter on, the counter wrapping.
FreeId ==
  LET candidate(d) == (counter + d) % NIds
      d == CHOOSE d \in Ids : /\ Free(candidate(d))
                              /\ \A e \in 0..(d - 1) : ~Free(candidate(e))
  IN candidate(d)

IsDrained(s) == s.closed /\ s.eof /\ s.buf = 0

\* What the model assumes of the counter's wrap: all 2^16 ids go by only after
\* the frames of a stream have been delivered and the host's next pump is over.
Settled(i) ==
  /\ \A k \in DOMAIN toHost : toHost[k].stream # i
  /\ \A k \in DOMAIN toGuest : toGuest[k].stream # i
  /\ session[i] # None => ~IsDrained(session[i])

\* register: with the registry locked, take a free id.  With none, the loop
\* goes on under the lock.
Registers(c) ==
  /\ HandlerAt(c, "register") /\ ~spinning
  /\ IF \A i \in Ids : ~Free(i)
     THEN spinning' = TRUE /\ UNCHANGED <<counter, registry, handler, sid>>
     ELSE LET id == FreeId IN
            /\ Settled(id)
            /\ registry' = [registry EXCEPT ![id] = c]
            /\ counter' = (id + 1) % NIds
            /\ sid' = [sid EXCEPT ![c] = id]
            /\ HandlerGoes(c, "open")
            /\ UNCHANGED spinning
  /\ UNCHANGED <<chan, ungranted, up, client, toHost, toGuest, hostVars,
                 delivered>>

SendsOpen(c) ==
  /\ HandlerAt(c, "open")
  /\ Send(c, "open", 0)
  /\ HandlerGoes(c, "verdict")
  /\ UNCHANGED <<counter, registry, spinning, sid, chan, ungranted, up, client,
                 toGuest, hostVars, delivered>>

\* The next message of the channel, if it is of one of these kinds.
Receives(c, kinds) ==
  /\ chan[c] # <<>> /\ Head(chan[c]).kind \in kinds
  /\ chan' = [chan EXCEPT ![c] = Tail(chan[c])]

\* Connected: reply and start the up thread; if the reply or the clone of the
\* socket fails, tear down.  Any other verdict: reply and give up.
GetsVerdict(c) ==
  /\ HandlerAt(c, "verdict")
  /\ \/ /\ Receives(c, {"open_ok"})
        /\ \/ /\ ~client[c].reset
              /\ HandlerGoes(c, "relay")
              /\ up' = [up EXCEPT ![c] = "read"]
           \/ HandlerGoes(c, "reset") /\ UNCHANGED up
     \/ /\ Receives(c, HostKinds \ {"open_ok"})
        /\ HandlerGoes(c, "remove") /\ UNCHANGED up
  /\ UNCHANGED <<counter, registry, spinning, sid, ungranted, client, toHost,
                 toGuest, hostVars, delivered>>
-----------------------------------------------------------------------------
(* relay_down: a second verdict, which it would ignore, never comes. *)

otherThanDown == <<counter, registry, spinning, sid, up, toGuest, hostVars>>

\* Mutant: nothing is granted until a window's worth and more has been read.
GrantDueLate(n) == n > Window

GrantDue(n) == n >= Threshold

\* write_all goes through once the client has read what came before.
DownDelivers(c) ==
  /\ HandlerAt(c, "relay") /\ ~client[c].reset /\ ~client[c].full
  /\ Receives(c, {"data"})
  /\ LET n == Head(chan[c]).n IN
       /\ delivered' = [delivered EXCEPT ![c] = @ + n]
       /\ ungranted' = [ungranted EXCEPT ![c] = @ + n]
       /\ HandlerGoes(c, IF GrantDue(ungranted[c] + n) THEN "grant" ELSE "relay")
  /\ ClientBecomes(c, [client[c] EXCEPT !.full = TRUE])
  /\ UNCHANGED <<otherThanDown, toHost>>

\* Mutant: the threshold is granted instead of what was delivered.
CreditOfThreshold(c) == Threshold

Credit(c) == ungranted[c]

DownGrants(c) ==
  /\ HandlerAt(c, "grant")
  /\ Send(c, "window", Credit(c))
  /\ ungranted' = [ungranted EXCEPT ![c] = 0]
  /\ HandlerGoes(c, "relay")
  /\ UNCHANGED <<otherThanDown, chan, client, delivered>>

DownWriteFails(c) ==
  /\ HandlerAt(c, "relay") /\ client[c].reset
  /\ Receives(c, {"data"})
  /\ HandlerGoes(c, "reset")
  /\ UNCHANGED <<otherThanDown, ungranted, client, toHost, delivered>>

DownCloses(c) ==
  /\ HandlerAt(c, "relay")
  /\ Receives(c, {"close"})
  /\ ClientBecomes(c, [client[c] EXCEPT !.eof = TRUE])
  /\ HandlerGoes(c, "shut")
  /\ UNCHANGED <<otherThanDown, ungranted, toHost, delivered>>

DownIsReset(c) ==
  /\ HandlerAt(c, "relay")
  /\ Receives(c, {"rst"})
  /\ HandlerGoes(c, "shut")
  /\ UNCHANGED <<otherThanDown, ungranted, client, toHost, delivered>>
-----------------------------------------------------------------------------
(* The end of a connection: teardown, and the last lines of                 *)
(* handle_connection.  teardown's up thread was never started.              *)

SendsRst(c) ==
  /\ HandlerAt(c, "reset")
  /\ Send(c, "rst", 0)
  /\ HandlerGoes(c, "shut")
  /\ UNCHANGED <<otherThanDown, chan, ungranted, client, delivered>>

\* Mutant: only the write side is shut, and the up thread stays in its read.
WriteIsShut(k) == [k EXCEPT !.eof = TRUE]

\* shutdown(Both): FIN to the client, and the up thread's read returns.
BothAreShut(k) == [k EXCEPT !.eof = TRUE, !.shut = TRUE]

ShutsDown(c) ==
  /\ HandlerAt(c, "shut")
  /\ ClientBecomes(c, BothAreShut(client[c]))
  /\ HandlerGoes(c, "join")
  /\ UNCHANGED <<otherThanDown, chan, ungranted, toHost, delivered>>

\* Mutant: the id is given back without waiting for the up thread.
JoinsNobody(c) == TRUE

UpHasEnded(c) == up[c] \in {"none", "done"}

Joins(c) ==
  /\ HandlerAt(c, "join") /\ UpHasEnded(c)
  /\ HandlerGoes(c, "remove")
  /\ UNCHANGED <<otherThanDown, chan, ungranted, client, toHost, delivered>>

\* The registry is locked and the id removed; socket and channel are dropped.
Removes(c) ==
  /\ HandlerAt(c, "remove") /\ ~spinning
  /\ registry' = [registry EXCEPT ![sid[c]] = None]
  /\ chan' = [chan EXCEPT ![c] = <<>>]
  /\ HandlerGoes(c, "done")
  /\ UNCHANGED <<counter, spinning, sid, ungranted, up, client, toHost,
                 toGuest, hostVars, delivered>>
-----------------------------------------------------------------------------
(* relay_up. *)

UpGoes(c, from, to) == up[c] = from /\ up' = [up EXCEPT ![c] = to]

otherThanUp == <<counter, registry, spinning, handler, sid, chan, ungranted,
                 toGuest, hostVars, delivered>>

UpReads(c) ==
  /\ client[c].unread /\ ~client[c].reset
  /\ UpGoes(c, "read", "send")
  /\ ClientBecomes(c, [client[c] EXCEPT !.unread = FALSE])
  /\ UNCHANGED <<otherThanUp, toHost>>

UpSendsData(c) ==
  /\ UpGoes(c, "send", "read")
  /\ Send(c, "data", 1)
  /\ UNCHANGED <<otherThanUp, client>>

\* The client's FIN, or the handler's shutdown, with or without the bytes
\* still queued.
UpSeesEof(c) ==
  /\ client[c].shut \/ (client[c].fin /\ ~client[c].unread)
  /\ UpGoes(c, "read", "close")
  /\ UNCHANGED <<otherThanUp, client, toHost>>

\* Mutant: the up thread ends without a word.
UpEndsSilently(c) ==
  /\ UpGoes(c, "close", "done")
  /\ UNCHANGED <<otherThanUp, client, toHost>>

UpSendsClose(c) ==
  /\ UpGoes(c, "close", "done")
  /\ Send(c, "close", 0)
  /\ UNCHANGED <<otherThanUp, client>>

UpReadFails(c) ==
  /\ client[c].reset
  /\ UpGoes(c, "read", "rst")
  /\ UNCHANGED <<otherThanUp, client, toHost>>

UpSendsRst(c) ==
  /\ UpGoes(c, "rst", "done")
  /\ Send(c, "rst", 0)
  /\ UNCHANGED <<otherThanUp, client>>
-----------------------------------------------------------------------------
(* The demux reader. *)

\* Mutant: a CLOSE is taken ahead of what is queued before it.
EnqueueUrgent(q, f) == IF f.kind = "close" THEN <<f>> \o q ELSE Append(q, f)

Enqueue(q, f) == Append(q, f)

\* route: to the channel the registry names, under its lock, or nowhere.
Routes ==
  /\ toGuest # <<>> /\ ~spinning
  /\ toGuest' = Tail(toGuest)
  /\ LET f == Head(toGuest)
         c == registry[f.stream]
     IN chan' = IF c = None THEN chan
                ELSE [chan EXCEPT ![c] = Enqueue(@, f)]
  /\ UNCHANGED <<counter, registry, spinning, handler, sid, ungranted, up,
                 client, toHost, hostVars, delivered>>
-----------------------------------------------------------------------------
(* The client. *)

Connected(c) == handler[c] \notin {"negotiate", "done"}

otherThanClient == <<guestVars, toHost, toGuest, hostVars, delivered>>

ClientSends(c) ==
  /\ Connected(c) /\ ~client[c].fin /\ ~client[c].reset
  /\ client[c].sent < MaxSends
  /\ ClientBecomes(c, [client[c] EXCEPT !.sent = @ + 1, !.unread = TRUE])
  /\ UNCHANGED otherThanClient

ClientFinishes(c) ==
  /\ Connected(c) /\ ~client[c].fin
  /\ ClientBecomes(c, [client[c] EXCEPT !.fin = TRUE])
  /\ UNCHANGED otherThanClient

ClientResets(c) ==
  /\ Connected(c) /\ ~client[c].reset
  /\ ClientBecomes(c, [client[c] EXCEPT !.reset = TRUE])
  /\ UNCHANGED otherThanClient

ClientReads(c) ==
  /\ client[c].full
  /\ ClientBecomes(c, [client[c] EXCEPT !.full = FALSE])
  /\ UNCHANGED otherThanClient
-----------------------------------------------------------------------------
(* The host: EgressBackend's handlers and service_sessions. *)

otherThanHost == <<guestVars, client, delivered>>

Reply(frames) == toGuest' = toGuest \o frames
Answer(f, kind) == <<[kind |-> kind, stream |-> f.stream, n |-> 0, conn |-> f.conn]>>

SetSession(i, s) == session' = [session EXCEPT ![i] = s]

NewSession(c) ==
  [conn |-> c, open |-> FALSE, credit |-> Window, buf |-> 0, eof |-> FALSE,
   closed |-> FALSE, closeSent |-> FALSE]

HostHandles(kind) ==
  toHost # <<>> /\ Head(toHost).kind = kind /\ toHost' = Tail(toHost)

\* A taken id resets the stream; otherwise it is resolved, or refused.
HostHandlesOpen ==
  /\ HostHandles("open")
  /\ LET f == Head(toHost) IN
       IF session[f.stream] # None
       THEN SetSession(f.stream, None) /\ Reply(Answer(f, "rst"))
       ELSE \/ SetSession(f.stream, NewSession(f.conn)) /\ UNCHANGED toGuest
            \/ Reply(Answer(f, "open_err")) /\ UNCHANGED session
  /\ UNCHANGED <<otherThanHost, total>>

\* Data for a stream that takes none resets it.
HostHandlesData ==
  /\ HostHandles("data")
  /\ LET f == Head(toHost)
         s == session[f.stream] IN
       IF s # None /\ ~s.closed
       THEN UNCHANGED <<session, toGuest>>
       ELSE SetSession(f.stream, None) /\ Reply(Answer(f, "rst"))
  /\ UNCHANGED <<otherThanHost, total>>

HostHandlesClose ==
  /\ HostHandles("close")
  /\ LET i == Head(toHost).stream IN
       IF session[i] = None THEN UNCHANGED session
       ELSE SetSession(i, [session[i] EXCEPT !.closed = TRUE])
  /\ UNCHANGED <<otherThanHost, total, toGuest>>

HostHandlesRst ==
  /\ HostHandles("rst")
  /\ SetSession(Head(toHost).stream, None)
  /\ UNCHANGED <<otherThanHost, total, toGuest>>

HostHandlesWindow ==
  /\ HostHandles("window")
  /\ LET f == Head(toHost) IN
       IF session[f.stream] = None THEN UNCHANGED session
       ELSE SetSession(f.stream, [session[f.stream] EXCEPT !.credit = @ + f.n])
  /\ UNCHANGED <<otherThanHost, total, toGuest>>

Opening(i) == session[i] # None /\ ~session[i].open
Open(i) == session[i] # None /\ session[i].open

FrameOf(i, kind, n) ==
  [kind |-> kind, stream |-> i, n |-> n, conn |-> session[i].conn]

\* The resolve and the connect end, one way or the other.
HostConnects(i) ==
  /\ Opening(i)
  /\ \/ /\ SetSession(i, [session[i] EXCEPT !.open = TRUE])
        /\ Reply(<<FrameOf(i, "open_ok", 0)>>)
     \/ /\ SetSession(i, None)
        /\ Reply(<<FrameOf(i, "open_err", 0)>>)
  /\ UNCHANGED <<otherThanHost, toHost, total>>

\* A byte of the remote end, or its EOF, is read.
HostReads(i) ==
  /\ Open(i) /\ ~session[i].eof /\ session[i].buf < Window
  /\ LET s == session[i] IN
       \/ /\ total[s.conn] < MaxBytes
          /\ SetSession(i, [s EXCEPT !.buf = @ + 1])
          /\ total' = [total EXCEPT ![s.conn] = @ + 1]
       \/ SetSession(i, [s EXCEPT !.eof = TRUE]) /\ UNCHANGED total
  /\ UNCHANGED <<otherThanHost, toHost, toGuest>>

\* What the credit allows of the buffer.
Sendable(s) == IF s.buf <= s.credit THEN s.buf ELSE s.credit

\* run_open_io: frame what the credit allows, CLOSE after the last byte,
\* remove the session once both ends have closed.
HostServices(i) ==
  /\ Open(i)
  /\ LET s == session[i]
         n == Sendable(s)
         closing == s.eof /\ n = s.buf /\ ~s.closeSent
         after == [s EXCEPT !.buf = @ - n, !.credit = @ - n,
                            !.closeSent = @ \/ closing]
     IN /\ n > 0 \/ closing \/ IsDrained(after)
        /\ Reply((IF n > 0 THEN <<FrameOf(i, "data", n)>> ELSE <<>>)
                 \o (IF closing THEN <<FrameOf(i, "close", 0)>> ELSE <<>>))
        /\ SetSession(i, IF IsDrained(after) THEN None ELSE after)
  /\ UNCHANGED <<otherThanHost, toHost, total>>

\* A socket error, or more client bytes than the cap.
HostAborts(i) ==
  /\ Open(i)
  /\ SetSession(i, None)
  /\ Reply(<<FrameOf(i, "rst", 0)>>)
  /\ UNCHANGED <<otherThanHost, toHost, total>>
-----------------------------------------------------------------------------
Handler(c) ==
  \/ Registers(c) \/ SendsOpen(c) \/ GetsVerdict(c)
  \/ DownDelivers(c) \/ DownGrants(c) \/ DownWriteFails(c)
  \/ DownCloses(c) \/ DownIsReset(c)
  \/ SendsRst(c) \/ ShutsDown(c) \/ Joins(c) \/ Removes(c)

Up(c) == \/ UpReads(c) \/ UpSendsData(c) \/ UpSeesEof(c)
         \/ UpSendsClose(c) \/ UpReadFails(c) \/ UpSendsRst(c)

HostHandlesFrame == \/ HostHandlesOpen \/ HostHandlesData \/ HostHandlesClose
                    \/ HostHandlesRst \/ HostHandlesWindow

Next ==
  \/ \E c \in Conns : \/ Negotiates(c) \/ Handler(c) \/ Up(c)
                      \/ ClientSends(c) \/ ClientFinishes(c)
                      \/ ClientResets(c) \/ ClientReads(c)
  \/ Routes \/ HostHandlesFrame
  \/ \E i \in Ids : \/ HostConnects(i) \/ HostReads(i)
                    \/ HostServices(i) \/ HostAborts(i)

Spec == Init /\ [][Next]_vars

\* Every thread runs, the host pumps and a connect ends.  No client, remote
\* end or negotiation is assumed to move.
Fairness ==
  /\ \A c \in Conns : WF_vars(Handler(c)) /\ WF_vars(Up(c))
  /\ WF_vars(Routes) /\ WF_vars(HostHandlesFrame)
  /\ \A i \in Ids : WF_vars(HostConnects(i)) /\ WF_vars(HostServices(i))

FairSpec == Spec /\ Fairness
-----------------------------------------------------------------------------
(* Properties. *)

\* Payload bytes or credit of one kind, for one connection, in a queue: the
\* units of its frames, counted.
Units(q, kind, c) ==
  UNION {{k} \X (1..q[k].n) :
           k \in {k \in DOMAIN q : q[k].kind = kind /\ q[k].conn = c}}
Carried(q, kind, c) == Cardinality(Units(q, kind, c))

\* Flow control neither loses nor makes credit: while a connection is being
\* relayed, the host's credit, the bytes on their way to the client, those
\* not yet granted back and the grants on their way add up to the window.
\* So a slow client holds at most a window of memory in its channel.
CreditIsConserved ==
  \A i \in Ids :
    session[i] # None /\ handler[session[i].conn] \in {"open", "verdict", "relay", "grant"} =>
      LET c == session[i].conn IN
        session[i].credit + Carried(toGuest, "data", c) + Carried(chan[c], "data", c)
          + ungranted[c] + Carried(toHost, "window", c) = Window

\* A client that sees the end of the response because the host said CLOSE has
\* been given every byte the remote end sent.
CloseDeliversAll ==
  \A c \in Conns :
    handler[c] = "shut" /\ client[c].eof => delivered[c] = total[c]

\* A stream id is given back only when nothing will use it: a frame never
\* reaches a later stream with the same id, in either direction, and the host
\* never sees an OPEN for an id it still holds.
FramesReachTheirOwner ==
  /\ \A c \in Conns : \A k \in DOMAIN chan[c] : chan[c][k].conn = c
  /\ toHost # <<>> =>
       LET f == Head(toHost)
           s == session[f.stream] IN
         s # None => f.kind # "open" /\ f.conn = s.conn

\* When a connection is over, or its client has reset it, the host's session
\* goes away, so that the host can reach quiescence.
HostLetsGo ==
  \A c \in Conns :
    (handler[c] = "done" \/ (handler[c] = "relay" /\ up[c] = "rst"))
      ~> \A i \in Ids : session[i] # None => session[i].conn # c

\* A connection the forwarder cannot be expected to carry on.
Broken(c) == handler[c] = "done" \/ client[c].reset \/ spinning

\* The client goes on reading.
KeepsReading(c) == []<>(~client[c].full)

\* The credit never runs dry: what the remote end sends is delivered to a
\* client that reads.  (It stops sending at the bound, so that the client
\* catches up with it.)
ResponsesArrive ==
  \A c \in Conns :
    KeepsReading(c) => (delivered[c] < total[c] ~> (delivered[c] = total[c] \/ Broken(c)))

\* The remote end's EOF tears the whole stream down: the handler ends even if
\* its client never writes, closes or resets.
CloseEndsTheHandler ==
  \A c \in Conns :
    KeepsReading(c) =>
      ((\E i \in Ids : session[i] # None /\ session[i].conn = c /\ session[i].eof)
         ~> Broken(c))

\* forwarder.rs on handle_connection: "relay until the stream tears down.
\* Errors are logged and the connection dropped": once the client has reset
\* its connection, the handler ends and its id is free again.
ResetStreamsEnd ==
  \A c \in Conns : (client[c].reset /\ up[c] = "done") ~> handler[c] = "done"
=============================================================================
