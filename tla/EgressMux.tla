----------------------------- MODULE EgressMux ------------------------------
(***************************************************************************)
(* The host side of --allow-egress (src/src/egress.rs): EgressBackend with *)
(* its session table and quiescence sum, the COM4 channel that pumps it,   *)
(* the resolver thread and the sockets of RealConnector, and the guest as  *)
(* anything that may write frames to ttyS3.                                *)
(*                                                                         *)
(* One pump is a run of steps of the vCPU thread, from "absorb" to "gate": *)
(* the resolver thread, the kernel's sockets and the remote ends move      *)
(* between any two of them, the guest does not.  Bytes are counted, not    *)
(* told apart; a frame is [kind, stream, n], n its payload or credit.      *)
(***************************************************************************)
EXTENDS Integers, Sequences, FiniteSets

CONSTANTS
  Streams,     \* stream ids
  Window,      \* WINDOW_BYTES: read buffer bound and initial credit
  SocketCap,   \* TO_SOCKET_CAP
  MaxSessions, \* MAX_SESSIONS
  CreditMax,   \* where the credit's saturating_add stops
  Sizes,       \* bound: payloads and grants a guest sends
  MaxAvail,    \* bound: bytes waiting in a socket's receive buffer
  MaxWire,     \* bound: frames the guest writes between two pumps
  MaxPending,  \* bound: the guest writes only below this tx_pending
  None

ASSUME StreamsAssumption == Streams \subseteq Nat /\ None \notin Streams
ASSUME BoundsAssumption ==
  /\ Window \in Nat \ {0} /\ SocketCap \in Nat /\ MaxSessions \in Nat
  /\ CreditMax \in Nat /\ Window <= CreditMax
  /\ Sizes \subseteq Nat
  /\ MaxAvail \in Nat /\ MaxWire \in Nat /\ MaxPending \in Nat

VARIABLES
  toHost,    \* EgressChannel.tx: whole frames captured since the last pump
  half,      \* the guest has written the first bytes of its next frame
  inbox,     \* `owned`: decoded frames still to be handled in this pump
  rxHalf,    \* rx_parse holds a partial frame
  sess,      \* EgressBackend.sessions
  resolving, \* EgressBackend.resolving
  txPending, \* EgressBackend.tx_pending
  jobs,      \* mailbox to the resolver
  working,   \* the job the resolver is on
  posted,    \* the resolver has sent an answer and not yet pulsed the eventfd
  answers,   \* mailbox from the resolver
  failed,    \* RealConnector.failed
  event,     \* the eventfd's counter is non-zero
  alive,     \* the resolver thread exists
  batch,     \* take_resolved's result, still to be harvested
  sock,      \* RealConnector.conns
  gen,       \* history: which OPEN of a stream id is the latest, by parity
  todo,      \* service_sessions' ids still to be serviced
  pc         \* where the vCPU thread is

wireVars == <<toHost, half>>
parseVars == <<inbox, rxHalf>>
resolverVars == <<jobs, working, posted, answers, failed, event, alive, batch>>
vars == <<toHost, half, inbox, rxHalf, sess, resolving, txPending, jobs,
          working, posted, answers, failed, event, alive, batch, sock, gen,
          todo, pc>>

Frame(kind, id, n) == [kind |-> kind, stream |-> id, n |-> n]

GuestKinds == {"open", "open_bad", "data", "close", "rst", "window",
               "unexpected", "malformed"}
HostKinds == {"open_ok", "open_err", "data", "close", "rst"}
GuestFrames == [kind : GuestKinds, stream : Streams, n : Nat]
HostFrames == [kind : HostKinds, stream : Streams, n : Nat]

Sessions ==
  [state : {"resolving", "connecting", "established", "halfclosed"},
   toSocket : Nat, toGuest : Nat, credit : Nat,
   guestWriteClosed : BOOLEAN, hostReadClosed : BOOLEAN, closeSent : BOOLEAN,
   mask : SUBSET {"in", "out"}, gen : {0, 1}]

\* A socket: how its connect stands, bytes and EOF waiting to be read, an
\* error to report, a full send buffer, SHUT_WR done.
Sockets ==
  [conn : {"pending", "up", "refused"}, avail : Nat, eof : BOOLEAN,
   dead : BOOLEAN, full : BOOLEAN, shut : BOOLEAN]

Jobs == [stream : Streams, gen : {0, 1}]
Answers == [stream : Streams, gen : {0, 1}, ok : BOOLEAN]

ASSUME NoneAssumption == None \notin Sessions /\ None \notin Sockets /\ None \notin Jobs

Pcs == {"guest", "absorb", "parse", "clear", "take", "harvest", "service",
        "feed", "gate", "wait", "aborted"}

TypeOK ==
  /\ toHost \in Seq(GuestFrames) /\ inbox \in Seq(GuestFrames)
  /\ half \in BOOLEAN /\ rxHalf \in BOOLEAN
  /\ sess \in [Streams -> Sessions \cup {None}]
  /\ sock \in [Streams -> Sockets \cup {None}]
  /\ resolving \subseteq Streams /\ todo \subseteq Streams
  /\ txPending \in Seq(HostFrames)
  /\ jobs \in Seq(Jobs) /\ working \in Jobs \cup {None}
  /\ answers \subseteq Answers /\ failed \subseteq Answers
  /\ batch \subseteq Answers
  /\ posted \in BOOLEAN /\ event \in BOOLEAN /\ alive \in BOOLEAN
  /\ gen \in [Streams -> {0, 1}]
  /\ pc \in Pcs
-----------------------------------------------------------------------------
(* The session table. *)

Live == {id \in Streams : sess[id] # None}

\* is_quiescent: E = 0.
Quiescent ==
  Live = {} /\ resolving = {} /\ ~rxHalf /\ txPending = <<>>

NewResolving(id) ==
  [state |-> "resolving", toSocket |-> 0, toGuest |-> 0, credit |-> Window,
   guestWriteClosed |-> FALSE, hostReadClosed |-> FALSE, closeSent |-> FALSE,
   mask |-> {}, gen |-> 1 - gen[id]]

IsDrained(s) ==
  /\ s.guestWriteClosed /\ s.hostReadClosed
  /\ s.toSocket = 0 /\ s.toGuest = 0

\* Mutant: the write backlog is left out.
MaskOfReads(s) ==
  IF ~s.hostReadClosed /\ s.toGuest < Window THEN {"in"} ELSE {}

\* update_epoll's mask.
MaskOf(s) ==
  (IF ~s.hostReadClosed /\ s.toGuest < Window THEN {"in"} ELSE {})
    \cup (IF s.toSocket > 0 THEN {"out"} ELSE {})

\* usize::min: what bounds a read, a DATA frame and the credit.
AtMost(a, b) == IF a <= b THEN a ELSE b

Emit(frames) == txPending' = txPending \o frames

Update(id, s) == sess' = [sess EXCEPT ![id] = s]

\* Every way a session leaves the table closes its socket (detach_socket).
Drop(id) ==
  /\ sess' = [sess EXCEPT ![id] = None]
  /\ sock' = [sock EXCEPT ![id] = None]

ResetStream(id) == Drop(id) /\ Emit(<<Frame("rst", id, 0)>>)

FailOpen(id) == Drop(id) /\ Emit(<<Frame("open_err", id, 0)>>)

Init ==
  /\ toHost = <<>> /\ half = FALSE /\ inbox = <<>> /\ rxHalf = FALSE
  /\ sess = [id \in Streams |-> None] /\ sock = [id \in Streams |-> None]
  /\ resolving = {} /\ todo = {} /\ txPending = <<>>
  /\ jobs = <<>> /\ working = None /\ answers = {} /\ failed = {} /\ batch = {}
  /\ posted = FALSE /\ event = FALSE /\ alive = TRUE
  /\ gen = [id \in Streams |-> 0]
  /\ pc = "guest"
-----------------------------------------------------------------------------
(* The guest: whatever can write to ttyS3.  The bounds keep it from running *)
(* ahead of the host for ever.                                              *)

Offers ==
  {Frame(k, id, 0) : k \in GuestKinds \ {"data", "window"}, id \in Streams}
    \cup {Frame(k, id, n) : k \in {"data", "window"}, id \in Streams, n \in Sizes}

MayWrite ==
  pc = "guest" /\ Len(toHost) < MaxWire /\ Len(txPending) < MaxPending

\* A frame is completed; the bytes may have begun arriving before.
GuestWrites ==
  /\ MayWrite
  /\ \E f \in Offers : toHost' = Append(toHost, f)
  /\ half' = FALSE
  /\ UNCHANGED <<parseVars, sess, resolving, txPending, resolverVars, sock,
                 gen, todo, pc>>

GuestWritesPart ==
  /\ MayWrite /\ ~half
  /\ half' = TRUE
  /\ UNCHANGED <<toHost, parseVars, sess, resolving, txPending, resolverVars,
                 sock, gen, todo, pc>>

GuestExits ==
  /\ pc = "guest"
  /\ pc' = "absorb"
  /\ UNCHANGED <<wireVars, parseVars, sess, resolving, txPending, resolverVars,
                 sock, gen, todo>>
-----------------------------------------------------------------------------
(* EgressBackend::pump, first part: ingest_and_parse. *)

\* The captured bytes are taken whole; a malformed frame loses the framing
\* and ends the run before any frame of this pump is handled.
Absorb ==
  /\ pc = "absorb"
  /\ toHost' = <<>>
  /\ rxHalf' = half
  /\ IF \E i \in DOMAIN toHost : toHost[i].kind = "malformed"
     THEN pc' = "aborted" /\ UNCHANGED inbox
     ELSE pc' = "parse" /\ inbox' = toHost
  /\ UNCHANGED <<half, sess, resolving, txPending, resolverVars, sock, gen, todo>>

ParseDone ==
  /\ pc = "parse" /\ inbox = <<>>
  /\ pc' = "clear"
  /\ UNCHANGED <<wireVars, parseVars, sess, resolving, txPending, resolverVars,
                 sock, gen, todo>>

\* The frame at hand, if it is of one of these kinds.
Handles(kinds) == pc = "parse" /\ inbox # <<>> /\ Head(inbox).kind \in kinds

NextFrame == inbox' = Tail(inbox) /\ UNCHANGED <<wireVars, rxHalf, todo, pc>>

\* Mutant: a resolve still outstanding does not reserve the id.
IdTakenBySession(id) == sess[id] # None

\* The id is in use, by a stream or by a resolve whose stream is gone.
IdTaken(id) == sess[id] # None \/ id \in resolving

\* start_resolve: to the resolver, or, if it is gone, a synthetic failure.
StartResolve(id) ==
  LET g == 1 - gen[id] IN
    /\ gen' = [gen EXCEPT ![id] = g]
    /\ IF alive
       THEN /\ jobs' = Append(jobs, [stream |-> id, gen |-> g])
            /\ UNCHANGED failed
       ELSE /\ failed' = failed \cup {[stream |-> id, gen |-> g, ok |-> FALSE]}
            /\ UNCHANGED jobs

HandleOpen ==
  /\ Handles({"open", "open_bad"})
  /\ LET f == Head(inbox)
         id == f.stream IN
       \/ /\ IdTaken(id)
          /\ ResetStream(id)
          /\ UNCHANGED <<resolving, jobs, failed, gen>>
       \/ /\ ~IdTaken(id)
          /\ Cardinality(Live) >= MaxSessions \/ f.kind = "open_bad"
          /\ FailOpen(id)
          /\ UNCHANGED <<resolving, jobs, failed, gen>>
       \/ /\ ~IdTaken(id) /\ Cardinality(Live) < MaxSessions /\ f.kind = "open"
          /\ StartResolve(id)
          /\ resolving' = resolving \cup {id}
          /\ sess' = [sess EXCEPT ![id] = NewResolving(id)]
          /\ UNCHANGED <<sock, txPending>>
  /\ NextFrame
  /\ UNCHANGED <<working, posted, answers, event, alive, batch>>

Buffered(s, n) == [s EXCEPT !.toSocket = @ + n]

\* Data for a stream that takes none, or past the cap, resets the stream.
HandleData ==
  /\ Handles({"data"})
  /\ LET f == Head(inbox)
         id == f.stream IN
       IF /\ sess[id] # None
          /\ ~sess[id].guestWriteClosed
          /\ sess[id].toSocket + f.n <= SocketCap
       THEN /\ Update(id, Buffered(sess[id], f.n))
            /\ UNCHANGED <<sock, txPending>>
       ELSE ResetStream(id)
  /\ NextFrame
  /\ UNCHANGED <<resolving, resolverVars, gen>>

WriteShut(k) == [k EXCEPT !.shut = TRUE]

\* shutdown_write, if the socket exists.
ShutdownWrite(id) ==
  sock' = IF sock[id] = None THEN sock
          ELSE [sock EXCEPT ![id] = WriteShut(sock[id])]

GuestClosed(s) ==
  [s EXCEPT !.guestWriteClosed = TRUE,
            !.state = IF @ = "established" THEN "halfclosed" ELSE @]

\* The close bit, and SHUT_WR at once: bytes still in to_socket come too late.
HandleClose ==
  /\ Handles({"close"})
  /\ LET id == Head(inbox).stream IN
       IF sess[id] = None THEN UNCHANGED <<sess, sock>>
       ELSE Update(id, GuestClosed(sess[id])) /\ ShutdownWrite(id)
  /\ NextFrame
  /\ UNCHANGED <<resolving, txPending, resolverVars, gen>>

HandleRst ==
  /\ Handles({"rst"})
  /\ Drop(Head(inbox).stream)
  /\ NextFrame
  /\ UNCHANGED <<resolving, txPending, resolverVars, gen>>

Granted(s, n) == [s EXCEPT !.credit = AtMost(@ + n, CreditMax)]

HandleWindow ==
  /\ Handles({"window"})
  /\ LET f == Head(inbox) IN
       IF sess[f.stream] = None THEN UNCHANGED sess
       ELSE Update(f.stream, Granted(sess[f.stream], f.n))
  /\ NextFrame
  /\ UNCHANGED <<resolving, txPending, resolverVars, sock, gen>>

HandleUnexpected ==
  /\ Handles({"unexpected"})
  /\ ResetStream(Head(inbox).stream)
  /\ NextFrame
  /\ UNCHANGED <<resolving, resolverVars, gen>>
-----------------------------------------------------------------------------
(* Second part: harvest_resolves. *)

otherThanResolver == <<wireVars, parseVars, sess, resolving, txPending, sock,
                       gen, todo>>

\* Mutant: the answers are read before the eventfd is cleared.
TakeResolvedThenClear ==
  /\ \/ /\ pc = "clear" /\ pc' = "take"
        /\ batch' = failed \cup answers
        /\ failed' = {} /\ answers' = {}
        /\ UNCHANGED event
     \/ /\ pc = "take" /\ pc' = "harvest"
        /\ event' = FALSE
        /\ UNCHANGED <<batch, failed, answers>>
  /\ UNCHANGED <<otherThanResolver, jobs, working, posted, alive>>

\* take_resolved: clear the eventfd, then read the answers.
TakeResolved ==
  /\ \/ /\ pc = "clear" /\ pc' = "take"
        /\ event' = FALSE
        /\ UNCHANGED <<batch, failed, answers>>
     \/ /\ pc = "take" /\ pc' = "harvest"
        /\ batch' = failed \cup answers
        /\ failed' = {} /\ answers' = {}
        /\ UNCHANGED event
  /\ UNCHANGED <<otherThanResolver, jobs, working, posted, alive>>

NewSocket ==
  [conn |-> "pending", avail |-> 0, eof |-> FALSE, dead |-> FALSE,
   full |-> FALSE, shut |-> FALSE]

Connecting(s) == [s EXCEPT !.state = "connecting", !.mask = {"in", "out"}]

StillResolving(id) == sess[id] # None /\ sess[id].state = "resolving"

\* One answer: the resolve is over.  If its stream still waits for it, connect;
\* without an address, or when start_connect fails, fail the open.
HarvestResolve ==
  /\ pc = "harvest"
  /\ \E r \in batch :
       LET id == r.stream IN
         /\ batch' = batch \ {r}
         /\ resolving' = resolving \ {id}
         /\ \/ /\ ~StillResolving(id)
               /\ UNCHANGED <<sess, sock, txPending>>
            \/ /\ StillResolving(id)
               /\ FailOpen(id)
            \/ /\ StillResolving(id) /\ r.ok
               /\ sock' = [sock EXCEPT ![id] = NewSocket]
               /\ Update(id, Connecting(sess[id]))
               /\ UNCHANGED txPending
  /\ UNCHANGED <<wireVars, parseVars, jobs, working, posted, answers, failed,
                 event, alive, gen, todo, pc>>

HarvestDone ==
  /\ pc = "harvest" /\ batch = {}
  /\ todo' = Live
  /\ pc' = "service"
  /\ UNCHANGED <<wireVars, parseVars, sess, resolving, txPending, resolverVars,
                 sock, gen>>
-----------------------------------------------------------------------------
(* Third part: service_sessions, in id order. *)

otherThanService == <<wireVars, parseVars, resolving, resolverVars, gen, pc>>

Serviced(id) ==
  /\ pc = "service" /\ id \in todo /\ \A other \in todo : id <= other
  /\ todo' = todo \ {id}

\* Resolving, or a connect still pending.
ServiceWaiting ==
  /\ \E id \in todo :
       /\ Serviced(id)
       /\ \/ sess[id].state = "resolving"
          \/ sess[id].state = "connecting" /\ sock[id].conn = "pending"
  /\ UNCHANGED <<otherThanService, sess, sock, txPending>>

Connected(s) ==
  [s EXCEPT !.state = IF s.guestWriteClosed THEN "halfclosed" ELSE "established",
            !.mask = MaskOf(s)]

\* Connected: OPEN_OK, and a CLOSE that came before the socket is applied.
ServiceConnected ==
  /\ \E id \in todo :
       /\ Serviced(id)
       /\ sess[id].state = "connecting" /\ sock[id].conn = "up"
       /\ Update(id, Connected(sess[id]))
       /\ IF sess[id].guestWriteClosed THEN ShutdownWrite(id) ELSE UNCHANGED sock
       /\ Emit(<<Frame("open_ok", id, 0)>>)
  /\ UNCHANGED otherThanService

ServiceRefused ==
  /\ \E id \in todo :
       /\ Serviced(id)
       /\ sess[id].state = "connecting" /\ sock[id].conn = "refused"
       /\ FailOpen(id)
  /\ UNCHANGED otherThanService

IsOpen(s) == s.state \in {"established", "halfclosed"}

\* run_open_io's reads and writes that end in an error: a write after SHUT_WR
\* or on a dead socket, a read on a dead socket.
IoFails(s, k) ==
  \/ s.toSocket > 0 /\ (k.shut \/ k.dead)
  \/ ~s.hostReadClosed /\ s.toGuest < Window /\ k.dead

\* abort_open.
ServiceAborts ==
  /\ \E id \in todo :
       /\ Serviced(id)
       /\ IsOpen(sess[id]) /\ IoFails(sess[id], sock[id])
       /\ ResetStream(id)
  /\ UNCHANGED otherThanService

\* What the kernel takes of the backlog; a short write means a full buffer.
Accepts(s, k) == IF k.full THEN {0} ELSE 0..s.toSocket

\* Bytes read, bounded by the room in the window buffer; EOF is seen only by
\* a read that finds nothing before it, which needs room too.
Gets(s, k) ==
  IF s.hostReadClosed THEN 0 ELSE AtMost(k.avail, Window - s.toGuest)
SeesEof(s, k) ==
  s.hostReadClosed
    \/ (k.eof /\ Gets(s, k) = k.avail /\ s.toGuest + Gets(s, k) < Window)

\* Mutant: CLOSE is framed as soon as EOF is seen.
CloseNowEarly(s, eof, left) == eof /\ ~s.closeSent

\* CLOSE follows the last DATA: only once the buffer has been framed.
CloseNow(s, eof, left) == eof /\ left = 0 /\ ~s.closeSent

\* Bytes framed: what the credit allows; Left stay in the buffer.
Sent(s, k) == AtMost(s.toGuest + Gets(s, k), s.credit)
Left(s, k) == s.toGuest + Gets(s, k) - Sent(s, k)

Closes(s, k) == CloseNow(s, SeesEof(s, k), Left(s, k))

\* The session and its socket after run_open_io, n bytes of the backlog having
\* been accepted; the epoll mask is recomputed last.
AfterIo(s, k, n) ==
  [s EXCEPT !.toSocket = @ - n,
            !.toGuest = Left(s, k),
            !.credit = @ - Sent(s, k),
            !.hostReadClosed = SeesEof(s, k),
            !.closeSent = @ \/ Closes(s, k),
            !.state = IF SeesEof(s, k) THEN "halfclosed" ELSE @]
Remasked(s) == [s EXCEPT !.mask = MaskOf(s)]
AfterIoSocket(s, k, n) ==
  [k EXCEPT !.avail = @ - Gets(s, k), !.full = @ \/ n < s.toSocket]

\* run_open_io: write, read, frame what the credit allows, announce EOF,
\* recompute the epoll mask, and remove the stream once drained.
ServiceIo ==
  /\ \E id \in todo :
       /\ Serviced(id)
       /\ IsOpen(sess[id]) /\ ~IoFails(sess[id], sock[id])
       /\ \E n \in Accepts(sess[id], sock[id]) :
            LET s == sess[id]
                k == sock[id]
                io == AfterIo(s, k, n)
            IN /\ Emit((IF Sent(s, k) > 0 THEN <<Frame("data", id, Sent(s, k))>>
                         ELSE <<>>)
                       \o (IF Closes(s, k) THEN <<Frame("close", id, 0)>> ELSE <<>>))
               /\ IF IsDrained(io) THEN Drop(id)
                  ELSE /\ Update(id, Remasked(io))
                       /\ sock' = [sock EXCEPT ![id] = AfterIoSocket(s, k, n)]
  /\ UNCHANGED otherThanService

ServiceDone ==
  /\ pc = "service" /\ todo = {}
  /\ pc' = "feed"
  /\ UNCHANGED <<wireVars, parseVars, sess, resolving, txPending, resolverVars,
                 sock, gen, todo>>

\* An epoll_ctl that fails ends the run.
EpollFails ==
  /\ (pc = "harvest" /\ batch # {}) \/ (pc = "service" /\ todo # {})
  /\ pc' = "aborted"
  /\ UNCHANGED <<wireVars, parseVars, sess, resolving, txPending, resolverVars,
                 sock, gen, todo>>
-----------------------------------------------------------------------------
(* EgressChannel::pump, last part, and what the thread does next. *)

\* The RX FIFO takes some prefix of tx_pending; the rest is put back in front.
Feed ==
  /\ pc = "feed"
  /\ \E n \in 0..Len(txPending) :
       txPending' = SubSeq(txPending, n + 1, Len(txPending))
  /\ pc' = "gate"
  /\ UNCHANGED <<wireVars, parseVars, sess, resolving, resolverVars, sock, gen,
                 todo>>

\* Mutant: resolves in flight are not counted.
JumpAllowedBySessions == Live = {} /\ ~rxHalf /\ txPending = <<>>

\* ff_jump_allowed.
JumpAllowed == Quiescent

\* The loop goes on to the guest; or the park, with nothing to deliver, jumps
\* and pumps again; or it waits on the epoll fd at real rate.
Gate(label) ==
  /\ pc = "gate"
  /\ pc' = label
  /\ UNCHANGED <<wireVars, parseVars, sess, resolving, txPending, resolverVars,
                 sock, gen, todo>>

Resume == Gate("guest")
Jump == JumpAllowed /\ Gate("absorb")
Wait == ~JumpAllowed /\ Gate("wait")

\* A level-triggered descriptor is reported by its mask, or for an error or a
\* full hang-up whatever the mask.
FdReady(s, k) ==
  \/ "in" \in s.mask /\ k.conn = "up" /\ (k.avail > 0 \/ k.eof)
  \/ "out" \in s.mask /\ k.conn = "up" /\ ~k.full
  \/ k.conn = "refused" \/ k.dead \/ (k.eof /\ k.shut)

EpollReady ==
  event \/ \E id \in Live : sock[id] # None /\ FdReady(sess[id], sock[id])

Wakes ==
  /\ pc = "wait"
  /\ pc' = "absorb"
  /\ UNCHANGED <<wireVars, parseVars, sess, resolving, txPending, resolverVars,
                 sock, gen, todo>>

\* The epoll fd is readable; or the guest's next deadline, console input or a
\* signal ends the wait.
WakeByEpoll == EpollReady /\ Wakes
WakeOtherwise == ~EpollReady /\ Wakes
-----------------------------------------------------------------------------
(* The resolver thread. *)

otherThanWorker == <<wireVars, parseVars, sess, resolving, txPending, failed,
                     batch, sock, gen, todo, pc>>

ResolverTakes ==
  /\ working = None /\ ~posted /\ jobs # <<>>
  /\ working' = Head(jobs)
  /\ jobs' = Tail(jobs)
  /\ UNCHANGED <<otherThanWorker, posted, answers, event, alive>>

ResolverAnswers ==
  /\ working # None
  /\ \E ok \in BOOLEAN :
       answers' = answers \cup
         {[stream |-> working.stream, gen |-> working.gen, ok |-> ok]}
  /\ working' = None
  /\ posted' = TRUE
  /\ UNCHANGED <<otherThanWorker, jobs, event, alive>>

ResolverSignals ==
  /\ posted
  /\ posted' = FALSE
  /\ event' = TRUE
  /\ UNCHANGED <<otherThanWorker, jobs, working, answers, alive>>

\* The thread dies; the jobs it had are never answered.
ResolverDies ==
  /\ alive /\ ~posted /\ pc # "aborted"
  /\ alive' = FALSE
  /\ jobs' = <<>> /\ working' = None
  /\ UNCHANGED <<otherThanWorker, posted, answers, event>>

(* The sockets and their remote ends. *)

otherThanNet == <<wireVars, parseVars, sess, resolving, txPending,
                  resolverVars, gen, todo, pc>>

ConnectEnds(k, result) == [k EXCEPT !.conn = result]

ConnectCompletes(id) ==
  /\ sock[id] # None /\ sock[id].conn = "pending"
  /\ \E result \in {"up", "refused"} :
       sock' = [sock EXCEPT ![id] = ConnectEnds(sock[id], result)]
  /\ UNCHANGED otherThanNet

\* Data, EOF or a reset arrives, or the send buffer empties.
MayMove(k) ==
  (IF ~k.eof /\ k.avail < MaxAvail THEN {"data"} ELSE {})
    \cup (IF ~k.eof THEN {"eof"} ELSE {})
    \cup (IF k.full THEN {"drain"} ELSE {})
    \cup {"reset"}
Moved(k, move) ==
  [k EXCEPT !.avail = IF move = "data" THEN @ + 1 ELSE @,
            !.eof = @ \/ move = "eof",
            !.dead = @ \/ move = "reset",
            !.full = @ /\ move # "drain"]

NetworkMoves ==
  /\ \E id \in Streams :
       /\ sock[id] # None /\ sock[id].conn = "up" /\ ~sock[id].dead
       /\ \E move \in MayMove(sock[id]) :
            sock' = [sock EXCEPT ![id] = Moved(sock[id], move)]
  /\ UNCHANGED otherThanNet

Aborted == pc = "aborted" /\ UNCHANGED vars

Handle == HandleOpen \/ HandleData \/ HandleClose \/ HandleRst
            \/ HandleWindow \/ HandleUnexpected

Service == ServiceWaiting \/ ServiceConnected \/ ServiceRefused
             \/ ServiceAborts \/ ServiceIo \/ ServiceDone

Pump == Absorb \/ Handle \/ ParseDone \/ TakeResolved \/ HarvestResolve
          \/ HarvestDone \/ Service \/ Feed

Resolver == ResolverTakes \/ ResolverAnswers \/ ResolverSignals

Next == \/ GuestWrites \/ GuestWritesPart \/ GuestExits
        \/ Pump \/ EpollFails \/ Resume \/ Jump \/ Wait
        \/ WakeByEpoll \/ WakeOtherwise
        \/ Resolver \/ ResolverDies \/ NetworkMoves
        \/ \E id \in Streams : ConnectCompletes(id)
        \/ Aborted

Spec == Init /\ [][Next]_vars

\* The vCPU thread runs, the resolver answers what it took, a connect ends
\* one way or the other (TCP's own timeout), and a running guest exits.  A
\* wait is ended by the epoll fd alone; no write, frame or byte is assumed.
Fairness ==
  /\ WF_vars(Pump \/ Resume \/ Jump \/ Wait \/ WakeByEpoll)
  /\ WF_vars(Resolver) /\ WF_vars(GuestExits)
  /\ \A id \in Streams : WF_vars(ConnectCompletes(id))

FairSpec == Spec /\ Fairness
-----------------------------------------------------------------------------
(* Properties. *)

\* The resolves somebody still holds.
Pipeline ==
  {jobs[i] : i \in DOMAIN jobs} \cup ({working} \ {None})
    \cup {[stream |-> r.stream, gen |-> r.gen] : r \in answers \cup failed \cup batch}

\* INV-E2: when E = 0 lets the park jump there is no open socket, no query the
\* resolver could still answer, and no guest byte, not even part of a frame,
\* left behind: the four terms of E miss nothing.
QuiescenceIsReal ==
  pc = "gate" /\ JumpAllowed =>
    /\ \A id \in Streams : sock[id] = None
    /\ Pipeline = {}
    /\ toHost = <<>> /\ ~half /\ inbox = <<>>

\* A late answer never binds to a reused id: a stream waiting for its name
\* waits for its own resolve and for no other.
AnswersAreOwn ==
  \A j \in Pipeline :
    sess[j.stream] # None => /\ sess[j.stream].state = "resolving"
                             /\ sess[j.stream].gen = j.gen

\* CLOSE follows the last DATA: once it is framed, nothing of what the remote
\* end sent before its EOF is left to frame.
CloseIsLast ==
  \A id \in Live :
    sess[id].closeSent => /\ sess[id].hostReadClosed
                          /\ sess[id].toGuest = 0
                          /\ sock[id].avail = 0

\* What a pump would do for a stream if it were called now.
HasWork(s, k) ==
  \/ s.state = "connecting" /\ k.conn # "pending"
  \/ /\ IsOpen(s)
     /\ \/ IoFails(s, k)
        \/ s.toSocket > 0 /\ ~k.full
        \/ ~s.hostReadClosed /\ s.toGuest < Window /\ (k.avail > 0 \/ k.eof)
        \/ s.toGuest > 0 /\ s.credit > 0

\* No lost wakeup: while the thread waits at real rate, a stream or an answer
\* the pump could advance makes the epoll fd readable, or the resolver is
\* about to.
WaitIsCovered ==
  pc = "wait" =>
    /\ answers \cup failed # {} => event \/ posted
    /\ \A id \in Live :
         sock[id] # None /\ HasWork(sess[id], sock[id]) => EpollReady

-----------------------------------------------------------------------------
(* The inductive invariant behind the safety properties. *)

\* Where the captured bytes are: taken whole by the pump, and gone from the
\* inbox once it is parsed.
BytesTaken ==
  /\ pc \notin {"guest", "absorb", "aborted"} => toHost = <<>> /\ half = rxHalf
  /\ pc # "parse" => inbox = <<>>

Answered == answers \cup failed \cup batch

\* Every resolve somebody holds reserves its id, and there is one per id.
OneResolvePerId ==
  /\ \A j \in Pipeline : j.stream \in resolving
  /\ \A i, j \in DOMAIN jobs : jobs[i].stream = jobs[j].stream => i = j
  /\ \A r, q \in Answered : r.stream = q.stream => r = q
  /\ \A i \in DOMAIN jobs : \A r \in Answered : jobs[i].stream # r.stream
  /\ working # None =>
       /\ \A i \in DOMAIN jobs : jobs[i].stream # working.stream
       /\ \A r \in Answered : r.stream # working.stream
  /\ batch \cap (answers \cup failed) = {}
  /\ pc # "harvest" /\ pc # "aborted" => batch = {}

\* A session and its socket.
SessionSound(s, k) ==
  /\ (k = None) = (s.state = "resolving")
  /\ ~IsOpen(s) => s.toGuest = 0 /\ ~s.hostReadClosed /\ ~s.closeSent
  /\ s.toGuest <= Window
  /\ IsOpen(s) => k.conn = "up"
  /\ s.state = "connecting" => s.mask = {"in", "out"} /\ ~k.full
  /\ s.hostReadClosed => k.eof /\ k.avail = 0
  /\ s.closeSent => s.hostReadClosed /\ s.toGuest = 0

SessionsSound ==
  \A id \in Streams :
    IF sess[id] = None THEN sock[id] = None ELSE SessionSound(sess[id], sock[id])

\* What servicing a stream leaves behind: a fresh mask, nothing it could have
\* framed, and no backlog that a shut socket will refuse silently.
ServicedSound(s, k) ==
  /\ s.mask = MaskOf(s)
  /\ s.toGuest > 0 => s.credit = 0
  /\ s.toSocket > 0 /\ k.shut => ~k.full

ServicedStreams ==
  IF pc = "service" THEN Live \ todo
  ELSE IF pc \in {"feed", "gate", "wait"} THEN Live ELSE {}

ServicedIsQuiet ==
  \A id \in ServicedStreams : IsOpen(sess[id]) => ServicedSound(sess[id], sock[id])

\* After take_resolved an answer is there only with its pulse.
PulseFollows ==
  pc \in {"harvest", "service", "feed", "gate", "wait"} =>
    failed = {} /\ (answers # {} => event \/ posted)

\* Only live streams are still to be serviced.
TodoLive == todo \subseteq Live /\ (pc \notin {"service", "aborted"} => todo = {})

Inv == /\ TypeOK /\ BytesTaken /\ OneResolvePerId /\ AnswersAreOwn
       /\ SessionsSound /\ ServicedIsQuiet /\ PulseFollows /\ TodoLive

\* A resolve is harvested, whatever became of its stream, so that it cannot
\* hold E above zero for ever; unless the resolver dies or the run ends.
ResolvesAreHarvested ==
  \A id \in Streams :
    id \in resolving ~> (id \notin resolving \/ ~alive \/ pc = "aborted")

\* Every OPEN is answered: the stream gets past the connect or is removed.
OpensAreAnswered ==
  \A id \in Streams :
    (sess[id] # None /\ ~IsOpen(sess[id]))
      ~> (sess[id] = None \/ IsOpen(sess[id]) \/ ~alive \/ pc = "aborted")

\* egress.rs: "A session is removed ONLY when both directions are closed AND
\* both of its buffers are empty, so it cannot vanish while data is still
\* moving", and the test quiescent_only_after_the_last_buffer_drains_not_on_
\* close: servicing a stream whose socket is sound never resets it.
BacklogIsDrained ==
  [][\A id \in Streams :
       (pc = "service" /\ sock[id] # None /\ ~sock[id].dead)
         => txPending' # Append(txPending, Frame("rst", id, 0))]_vars
=============================================================================
