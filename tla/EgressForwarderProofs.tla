------------------------ MODULE EgressForwarderProofs -----------------------
(***************************************************************************)
(* Proofs about EgressForwarder, for any connections, ids and windows.     *)
(***************************************************************************)
EXTENDS EgressForwarder, FiniteSetTheorems, FunctionTheorems, SequenceTheorems,
        WellFoundedInduction, TLAPS

-----------------------------------------------------------------------------
(* Whose a stream is. *)

\* A frame of connection c, of one of these kinds, is in the queue.
Has(q, c, kinds) == \E k \in 1..Len(q) : q[k].conn = c /\ q[k].kind \in kinds

\* The host's session of id i is that of connection c.
Mine(i, c) == session[i] # None /\ session[i].conn = c

\* The handlers before they have an id, and those that hold one.
Unborn == {"negotiate", "register"}
Holding == HandlerPcs \ {"negotiate", "register", "done"}

\* The registry and the connections agree on who has which id.
Registered ==
  /\ \A c \in Conns : handler[c] \in Unborn => sid[c] = None
  /\ \A c \in Conns : handler[c] \in Holding => sid[c] \in Ids /\ registry[sid[c]] = c
  /\ \A i \in Ids : registry[i] # None =>
       sid[registry[i]] = i /\ handler[registry[i]] \in Holding

\* A frame, a channel and a session carry the id of their connection.
Addressed ==
  /\ \A k \in 1..Len(toHost) : toHost[k].stream = sid[toHost[k].conn]
  /\ \A k \in 1..Len(toGuest) : toGuest[k].stream = sid[toGuest[k].conn]
  /\ \A c \in Conns : \A k \in 1..Len(chan[c]) : chan[c][k].conn = c
  /\ \A i \in Ids : session[i] # None => sid[session[i].conn] = i

\* Whatever goes by an id belongs to one connection.
Owns(i, c) ==
  /\ registry[i] # None => registry[i] = c
  /\ session[i] # None => session[i].conn = c
  /\ \A k \in 1..Len(toHost) : toHost[k].stream = i => toHost[k].conn = c
  /\ \A k \in 1..Len(toGuest) : toGuest[k].stream = i => toGuest[k].conn = c
Owned == \A i \in Ids : \E c \in Conns \cup {None} : Owns(i, c)

\* Nothing of a connection is about before its OPEN ...
Nothing(c) ==
  /\ up[c] = "none" /\ chan[c] = <<>>
  /\ ~Has(toGuest, c, HostKinds)
  /\ \A i \in Ids : ~Mine(i, c)
Silent ==
  \A c \in Conns : handler[c] \in Unborn \cup {"open"} => Nothing(c) /\ ~Has(toHost, c, GuestKinds)

\* ... and nothing but the OPEN until the host has handled it.
Opens ==
  \A c \in Conns : \A k \in 1..Len(toHost) : toHost[k].kind = "open" /\ toHost[k].conn = c =>
    /\ handler[c] = "verdict" /\ Nothing(c)
    /\ \A j \in 1..Len(toHost) : toHost[j].conn = c => j = k

\* The up thread runs from the relay on, and has ended when the id is removed.
Started ==
  \A c \in Conns :
    /\ handler[c] = "verdict" => up[c] = "none"
    /\ handler[c] \in {"relay", "grant"} => up[c] # "none"
    /\ handler[c] \in {"remove", "done"} => UpHasEnded(c)

\* The host's first frame for a connection is its verdict.
Verdicts ==
  \A c \in Conns : handler[c] = "verdict" =>
    /\ \A k \in 1..Len(chan[c]) : chan[c][k].kind \in {"data", "close"} =>
         \E j \in 1..Len(chan[c]) : j < k /\ chan[c][j].kind = "open_ok"
    /\ \A k \in 1..Len(toGuest) : toGuest[k].conn = c /\ toGuest[k].kind \in {"data", "close"} =>
         \/ Has(chan[c], c, {"open_ok"})
         \/ \E j \in 1..Len(toGuest) : j < k /\ toGuest[j].conn = c /\ toGuest[j].kind = "open_ok"
    /\ \A i \in Ids : Mine(i, c) /\ session[i].open =>
         Has(chan[c], c, {"open_ok"}) \/ Has(toGuest, c, {"open_ok"})

\* After its refusal or reset the host has no session; after its CLOSE it has
\* nothing left to send.
Finals ==
  \A c \in Conns :
    /\ Has(chan[c], c, {"open_err", "rst"}) \/ Has(toGuest, c, {"open_err", "rst"}) =>
         \A i \in Ids : ~Mine(i, c)
    /\ Has(chan[c], c, {"close"}) \/ Has(toGuest, c, {"close"}) =>
         \A i \in Ids : Mine(i, c) => session[i].eof /\ session[i].buf = 0

\* A handler on its way out has nothing more to expect from the host, unless it
\* has sent a reset; the up thread that has ended has said so.
Ends ==
  \A c \in Conns : \A i \in Ids : Mine(i, c) =>
    /\ handler[c] \in {"shut", "join", "remove", "done"} =>
         (session[i].eof /\ session[i].buf = 0 /\ up[c] # "none") \/ Has(toHost, c, {"rst"})
    /\ up[c] = "done" => session[i].closed \/ Has(toHost, c, {"close", "rst"})

Core ==
  /\ Registered /\ Addressed /\ Owned /\ Silent /\ Opens /\ Started
  /\ Verdicts /\ Finals /\ Ends

StreamInv == TypeOK /\ Core
-----------------------------------------------------------------------------
(* Queues. *)

LEMMA QueueAppend ==
  ASSUME NEW S, NEW q \in Seq(S), NEW f \in S
  PROVE  LET t == Append(q, f) IN
           /\ t \in Seq(S) /\ Len(t) = Len(q) + 1 /\ Len(q) \in Nat
           /\ \A k \in 1..Len(q) : k \in 1..Len(t) /\ t[k] = q[k]
           /\ Len(q) + 1 \in 1..Len(t) /\ t[Len(q) + 1] = f
           /\ \A k \in 1..Len(t) : k \in 1..Len(q) \/ k = Len(q) + 1
  OBVIOUS

LEMMA QueueTail ==
  ASSUME NEW S, NEW q \in Seq(S), q # <<>>
  PROVE  LET t == Tail(q) IN
           /\ t \in Seq(S) /\ Len(q) = Len(t) + 1 /\ Len(t) \in Nat
           /\ \A k \in 1..Len(t) : k + 1 \in 1..Len(q) /\ t[k] = q[k + 1]
           /\ \A k \in 1..Len(q) : k = 1 \/ (k - 1 \in 1..Len(t) /\ t[k - 1] = q[k])
           /\ Head(q) = q[1] /\ 1 \in 1..Len(q) /\ Head(q) \in S
  OBVIOUS

LEMMA QueueConcat ==
  ASSUME NEW S, NEW q \in Seq(S), NEW t \in Seq(S)
  PROVE  LET u == q \o t IN
           /\ u \in Seq(S) /\ Len(u) = Len(q) + Len(t) /\ Len(q) \in Nat /\ Len(t) \in Nat
           /\ \A k \in 1..Len(q) : k \in 1..Len(u) /\ u[k] = q[k]
           /\ \A j \in 1..Len(t) : Len(q) + j \in 1..Len(u) /\ u[Len(q) + j] = t[j]
           /\ \A k \in 1..Len(u) : k \in 1..Len(q) \/ (k - Len(q) \in 1..Len(t) /\ u[k] = t[k - Len(q)])
  OBVIOUS

LEMMA HasAppend ==
  ASSUME NEW S, NEW q \in Seq(S), NEW f \in S, NEW c, NEW kinds
  PROVE  Has(Append(q, f), c, kinds) <=> Has(q, c, kinds) \/ (f.conn = c /\ f.kind \in kinds)
  BY QueueAppend DEF Has

LEMMA HasTail ==
  ASSUME NEW S, NEW q \in Seq(S), q # <<>>, NEW c, NEW kinds
  PROVE  Has(q, c, kinds) <=> (q[1].conn = c /\ q[1].kind \in kinds) \/ Has(Tail(q), c, kinds)
  BY QueueTail DEF Has

LEMMA HasConcat ==
  ASSUME NEW S, NEW q \in Seq(S), NEW t \in Seq(S), NEW c, NEW kinds
  PROVE  Has(q \o t, c, kinds) <=> Has(q, c, kinds) \/ Has(t, c, kinds)
<1> DEFINE u == q \o t
<1>1. /\ \A k \in 1..Len(q) : k \in 1..Len(u) /\ u[k] = q[k]
      /\ \A j \in 1..Len(t) : Len(q) + j \in 1..Len(u) /\ u[Len(q) + j] = t[j]
      /\ \A k \in 1..Len(u) : k \in 1..Len(q) \/ (k - Len(q) \in 1..Len(t) /\ u[k] = t[k - Len(q)])
  BY QueueConcat
<1> HIDE DEF u
<1>2. Has(u, c, kinds) <=> Has(q, c, kinds) \/ Has(t, c, kinds)
  BY <1>1 DEF Has
<1> QED
  BY <1>2 DEF u
-----------------------------------------------------------------------------
(* Records. *)

LEMMA ClientUpdates ==
  ASSUME NEW k \in Clients
  PROVE  /\ [k EXCEPT !.full = TRUE] \in Clients /\ [k EXCEPT !.full = FALSE] \in Clients
         /\ [k EXCEPT !.eof = TRUE] \in Clients /\ [k EXCEPT !.unread = FALSE] \in Clients
         /\ [k EXCEPT !.fin = TRUE] \in Clients /\ [k EXCEPT !.reset = TRUE] \in Clients
         /\ BothAreShut(k) \in Clients
         /\ k.sent < MaxSends => [k EXCEPT !.sent = @ + 1, !.unread = TRUE] \in Clients
<1>1. /\ [k EXCEPT !.full = TRUE] \in Clients /\ [k EXCEPT !.full = FALSE] \in Clients
      /\ [k EXCEPT !.eof = TRUE] \in Clients /\ [k EXCEPT !.unread = FALSE] \in Clients
      /\ [k EXCEPT !.fin = TRUE] \in Clients /\ [k EXCEPT !.reset = TRUE] \in Clients
  BY DEF Clients
<1>2. BothAreShut(k) \in Clients
  BY DEF Clients, BothAreShut
<1>3. ASSUME k.sent < MaxSends
      PROVE  [k EXCEPT !.sent = @ + 1, !.unread = TRUE] \in Clients
  <2> DEFINE n == k.sent + 1
  <2>1. n \in 0..MaxSends
    BY <1>3, ForwarderBounds DEF Clients, ForwarderBounds
  <2> HIDE DEF n
  <2>2. [k EXCEPT !.sent = n, !.unread = TRUE] \in Clients
    BY <2>1 DEF Clients
  <2> QED
    BY <2>2 DEF n
<1> QED
  BY <1>1, <1>2, <1>3

\* What is said of a session: whose it is, and how far it is.
Same(s, t) ==
  /\ t \in Sessions /\ t.conn = s.conn /\ t.open = s.open /\ t.closed = s.closed
  /\ t.eof = s.eof /\ t.buf = s.buf

LEMMA SessionNew ==
  ASSUME NEW c \in Conns
  PROVE  /\ NewSession(c) \in Sessions /\ NewSession(c).conn = c
         /\ NewSession(c).open = FALSE /\ NewSession(c).credit = Window /\ NewSession(c).buf = 0
  BY WindowAssumption DEF NewSession, Sessions, WindowAssumption

LEMMA SessionCloses ==
  ASSUME NEW s \in Sessions
  PROVE  LET t == [s EXCEPT !.closed = TRUE] IN
           /\ t \in Sessions /\ t.conn = s.conn /\ t.open = s.open /\ t.closed
           /\ t.eof = s.eof /\ t.buf = s.buf /\ t.credit = s.credit
  BY DEF Sessions

LEMMA SessionCredited ==
  ASSUME NEW s \in Sessions, NEW n \in Nat
  PROVE  LET t == [s EXCEPT !.credit = @ + n] IN Same(s, t) /\ t.credit = s.credit + n
  BY DEF Sessions, Same

LEMMA SessionOpens ==
  ASSUME NEW s \in Sessions
  PROVE  LET t == [s EXCEPT !.open = TRUE] IN
           /\ t \in Sessions /\ t.conn = s.conn /\ t.open /\ t.closed = s.closed
           /\ t.eof = s.eof /\ t.buf = s.buf /\ t.credit = s.credit
  BY DEF Sessions

LEMMA SessionBuffers ==
  ASSUME NEW s \in Sessions
  PROVE  LET t == [s EXCEPT !.buf = @ + 1] IN
           /\ t \in Sessions /\ t.conn = s.conn /\ t.open = s.open /\ t.closed = s.closed
           /\ t.eof = s.eof /\ t.buf = s.buf + 1 /\ t.credit = s.credit
  BY DEF Sessions

LEMMA SessionEof ==
  ASSUME NEW s \in Sessions
  PROVE  LET t == [s EXCEPT !.eof = TRUE] IN
           /\ t \in Sessions /\ t.conn = s.conn /\ t.open = s.open /\ t.closed = s.closed
           /\ t.eof /\ t.buf = s.buf /\ t.credit = s.credit
  BY DEF Sessions

LEMMA SessionServiced ==
  ASSUME NEW s \in Sessions, NEW n \in Nat, n <= s.buf, n <= s.credit, NEW b \in BOOLEAN
  PROVE  LET t == [s EXCEPT !.buf = @ - n, !.credit = @ - n, !.closeSent = b] IN
           /\ t \in Sessions /\ t.conn = s.conn /\ t.open = s.open /\ t.closed = s.closed
           /\ t.eof = s.eof /\ t.buf = s.buf - n /\ t.credit = s.credit - n
<1> DEFINE m == s.buf - n
           r == s.credit - n
           t == [s EXCEPT !.buf = m, !.credit = r, !.closeSent = b]
<1>1. m \in Nat /\ r \in Nat
  BY DEF Sessions
<1> HIDE DEF m, r
<1>2. t \in Sessions
  BY <1>1 DEF Sessions
<1>3. /\ t.conn = s.conn /\ t.open = s.open /\ t.closed = s.closed
      /\ t.eof = s.eof /\ t.buf = m /\ t.credit = r
  BY DEF Sessions
<1> QED
  BY <1>2, <1>3 DEF m, r
-----------------------------------------------------------------------------
(* The id that register takes. *)

LEMMA LeastOf ==
  ASSUME NEW T \in SUBSET Nat, T # {}
  PROVE  \E d \in T : \A e \in T : ~(e < d)
<1>1. \E d \in T : \A e \in T : ~(<<e, d>> \in OpToRel(<, Nat))
  BY NatLessThanWellFounded, WFMin
<1> QED
  BY <1>1 DEF OpToRel

LEMMA WrapReaches ==
  ASSUME NEW n \in Nat \ {0}, NEW a \in 0..(n - 1), NEW i \in 0..(n - 1)
  PROVE  \E d \in 0..(n - 1) : (a + d) % n = i
<1>1. i % n = i /\ (i + n) % n = i
  OBVIOUS
<1>2. CASE a <= i
  <2>1. i - a \in 0..(n - 1) /\ a + (i - a) = i
    BY <1>2
  <2> QED
    BY <1>1, <2>1
<1>3. CASE i < a
  <2>1. (i - a) + n \in 0..(n - 1) /\ a + ((i - a) + n) = i + n
    BY <1>3
  <2> QED
    BY <1>1, <2>1
<1> QED
  BY <1>2, <1>3

LEMMA FreeIdIsFree ==
  ASSUME TypeOK, NEW i \in Ids, Free(i)
  PROVE  FreeId \in Ids /\ Free(FreeId)
<1> DEFINE candidate(d) == (counter + d) % NIds
           T == {d \in Ids : Free(candidate(d))}
           P(d) == Free(candidate(d)) /\ \A e \in 0..(d - 1) : ~Free(candidate(e))
<1>1. NIds \in Nat \ {0} /\ counter \in 0..(NIds - 1)
  BY IdsAssumption DEF IdsAssumption, TypeOK, Ids
<1>2. \E d \in Ids : candidate(d) = i
  BY <1>1, WrapReaches DEF Ids
<1>3. T # {} /\ T \in SUBSET Nat
  <2>1. T \subseteq Ids /\ Ids \subseteq Nat
    BY <1>1 DEF Ids
  <2>2. PICK x \in Ids : candidate(x) = i
    BY <1>2
  <2>3. Free(candidate(x))
    BY <2>2
  <2>4. x \in T
    BY <2>3
  <2> QED
    BY <2>1, <2>4
<1>4. PICK d \in T : \A e \in T : ~(e < d)
  BY <1>3, LeastOf
<1>5. \A e \in 0..(d - 1) : e \in Ids /\ e < d
  BY <1>1, <1>4 DEF Ids
<1>6. d \in Ids /\ P(d)
  <2>1. d \in Ids /\ Free(candidate(d))
    BY <1>4
  <2>2. ASSUME NEW e \in 0..(d - 1)
        PROVE  ~Free(candidate(e))
    BY <1>4, <1>5
  <2> QED
    BY <2>1, <2>2
<1>7. (CHOOSE x \in Ids : P(x)) \in Ids /\ P(CHOOSE x \in Ids : P(x))
  BY <1>6
<1>8. \A x \in Ids : candidate(x) \in Ids
  BY <1>1 DEF Ids
<1>9. FreeId = candidate(CHOOSE x \in Ids : P(x))
  BY DEF FreeId
<1> QED
  BY <1>7, <1>8, <1>9
-----------------------------------------------------------------------------
(* Types. *)

coreVars == <<registry, handler, sid, chan, up, toHost, toGuest, session>>

\* Who is past its OPEN and still has its id.
LEMMA HolderHasId ==
  ASSUME StreamInv, NEW c \in Conns,
         handler[c] \in Holding \/ up[c] \in {"read", "send", "close", "rst"}
  PROVE  /\ sid[c] \in Ids /\ handler[c] \in Holding /\ registry[sid[c]] = c
         /\ up[c] \in {"read", "send", "close", "rst"} => handler[c] \notin {"open", "verdict", "remove"}
<1>1. up[c] \in {"read", "send", "close", "rst"} =>
        handler[c] \notin Unborn \cup {"open", "verdict", "remove", "done"}
  BY DEF StreamInv, Core, Silent, Nothing, Started, UpHasEnded
<1>2. handler[c] \in Holding
  BY <1>1 DEF StreamInv, TypeOK, Holding, Unborn
<1> QED
  BY <1>1, <1>2 DEF StreamInv, Core, Registered

LEMMA SentIsTyped ==
  ASSUME TypeOK, NEW c \in Conns, sid[c] \in Ids, NEW kind \in GuestKinds, NEW n \in Nat,
         Send(c, kind, n)
  PROVE  toHost' \in Seq(Frames(GuestKinds)) /\ Frame(kind, c, n) \in Frames(GuestKinds)
<1>1. Frame(kind, c, n) \in Frames(GuestKinds)
  BY DEF Frame, Frames
<1> QED
  BY <1>1, QueueAppend DEF TypeOK, Send

LEMMA ReceivedIsTyped ==
  ASSUME TypeOK, NEW c \in Conns, NEW kinds, Receives(c, kinds)
  PROVE  chan' \in [Conns -> Seq(Frames(HostKinds))] /\ Head(chan[c]) \in Frames(HostKinds)
<1>1. chan[c] \in Seq(Frames(HostKinds)) /\ chan[c] # <<>>
  BY DEF TypeOK, Receives
<1>2. Tail(chan[c]) \in Seq(Frames(HostKinds)) /\ Head(chan[c]) \in Frames(HostKinds)
  BY <1>1, QueueTail
<1> QED
  BY <1>2 DEF TypeOK, Receives

LEMMA HandlerTyped ==
  ASSUME StreamInv, NEW c \in Conns, Negotiates(c) \/ Handler(c)
  PROVE  TypeOK'
<1> USE DEF HandlerAt, HandlerGoes, hostVars, otherThanDown, HandlerPcs, UpPcs
<1>0. TypeOK
  BY DEF StreamInv
<1>1. CASE Negotiates(c)
  BY <1>0, <1>1 DEF TypeOK, Negotiates, Socks5Target, SocksError
<1>2. CASE Registers(c)
  <2>1. CASE \A i \in Ids : ~Free(i)
    BY <1>0, <1>2, <2>1 DEF TypeOK, Registers
  <2>2. CASE \E i \in Ids : Free(i)
    <3> DEFINE id == FreeId
    <3>1. id \in Ids
      BY <1>0, <2>2, FreeIdIsFree
    <3>2. /\ registry' = [registry EXCEPT ![id] = c]
          /\ counter' = (id + 1) % NIds
          /\ sid' = [sid EXCEPT ![c] = id]
          /\ handler' = [handler EXCEPT ![c] = "open"]
          /\ UNCHANGED <<spinning, chan, ungranted, up, client, toHost, toGuest, session, total, delivered>>
      BY <1>2, <2>2 DEF Registers
    <3> HIDE DEF id
    <3>3. counter' \in Ids
      BY <3>1, <3>2, IdsAssumption DEF IdsAssumption, Ids
    <3> QED
      BY <1>0, <3>1, <3>2, <3>3 DEF TypeOK
  <2> QED
    BY <2>1, <2>2
<1>3. CASE SendsOpen(c)
  <2>1. toHost' \in Seq(Frames(GuestKinds))
    BY <1>0, <1>3, HolderHasId, SentIsTyped DEF SendsOpen, Holding, GuestKinds
  <2> QED
    BY <1>0, <1>3, <2>1 DEF TypeOK, SendsOpen
<1>4. CASE GetsVerdict(c)
  <2>1. chan' \in [Conns -> Seq(Frames(HostKinds))]
    BY <1>0, <1>4, ReceivedIsTyped DEF GetsVerdict
  <2> QED
    BY <1>0, <1>4, <2>1 DEF TypeOK, GetsVerdict
<1>5. CASE DownDelivers(c)
  <2>1. chan' \in [Conns -> Seq(Frames(HostKinds))] /\ Head(chan[c]) \in Frames(HostKinds)
    BY <1>0, <1>5, ReceivedIsTyped DEF DownDelivers
  <2>2. Head(chan[c]).n \in Nat /\ [client[c] EXCEPT !.full = TRUE] \in Clients
    BY <1>0, <2>1, ClientUpdates DEF TypeOK, Frames
  <2>3. delivered' \in [Conns -> Nat] /\ ungranted' \in [Conns -> Nat]
    BY <1>0, <1>5, <2>2, SMTT(30) DEF TypeOK, DownDelivers
  <2>4. client' \in [Conns -> Clients]
    BY <1>0, <1>5, <2>2 DEF TypeOK, DownDelivers, ClientBecomes
  <2>5. handler' \in [Conns -> HandlerPcs]
    BY <1>0, <1>5 DEF TypeOK, DownDelivers
  <2> QED
    BY <1>0, <1>5, <2>1, <2>3, <2>4, <2>5 DEF TypeOK, DownDelivers
<1>6. CASE DownGrants(c)
  <2>1. toHost' \in Seq(Frames(GuestKinds))
    BY <1>0, <1>6, HolderHasId, SentIsTyped DEF DownGrants, Holding, GuestKinds, Credit, TypeOK
  <2> QED
    BY <1>0, <1>6, <2>1 DEF TypeOK, DownGrants
<1>7. CASE DownWriteFails(c)
  <2>1. chan' \in [Conns -> Seq(Frames(HostKinds))]
    BY <1>0, <1>7, ReceivedIsTyped DEF DownWriteFails
  <2> QED
    BY <1>0, <1>7, <2>1 DEF TypeOK, DownWriteFails
<1>8. CASE DownCloses(c)
  <2>1. chan' \in [Conns -> Seq(Frames(HostKinds))]
    BY <1>0, <1>8, ReceivedIsTyped DEF DownCloses
  <2>2. client' \in [Conns -> Clients]
    BY <1>0, <1>8, ClientUpdates DEF TypeOK, DownCloses, ClientBecomes
  <2> QED
    BY <1>0, <1>8, <2>1, <2>2 DEF TypeOK, DownCloses
<1>9. CASE DownIsReset(c)
  <2>1. chan' \in [Conns -> Seq(Frames(HostKinds))]
    BY <1>0, <1>9, ReceivedIsTyped DEF DownIsReset
  <2> QED
    BY <1>0, <1>9, <2>1 DEF TypeOK, DownIsReset
<1>10. CASE SendsRst(c)
  <2>1. toHost' \in Seq(Frames(GuestKinds))
    BY <1>0, <1>10, HolderHasId, SentIsTyped DEF SendsRst, Holding, GuestKinds
  <2> QED
    BY <1>0, <1>10, <2>1 DEF TypeOK, SendsRst
<1>11. CASE ShutsDown(c)
  <2>1. client' \in [Conns -> Clients]
    BY <1>0, <1>11, ClientUpdates DEF TypeOK, ShutsDown, ClientBecomes
  <2> QED
    BY <1>0, <1>11, <2>1 DEF TypeOK, ShutsDown
<1>12. CASE Joins(c)
  BY <1>0, <1>12 DEF TypeOK, Joins
<1>13. CASE Removes(c)
  <2>1. sid[c] \in Ids
    BY <1>13, HolderHasId DEF Removes, Holding
  <2>2. chan' \in [Conns -> Seq(Frames(HostKinds))]
    BY <1>0, <1>13 DEF TypeOK, Removes
  <2>3. registry' \in [Ids -> Conns \cup {None}]
    BY <1>0, <1>13, <2>1 DEF TypeOK, Removes
  <2> QED
    BY <1>0, <1>13, <2>2, <2>3 DEF TypeOK, Removes
<1> QED
  BY <1>1, <1>2, <1>3, <1>4, <1>5, <1>6, <1>7, <1>8, <1>9, <1>10, <1>11, <1>12, <1>13 DEF Handler

LEMMA UpTyped ==
  ASSUME StreamInv, NEW c \in Conns, Up(c)
  PROVE  TypeOK'
<1> USE DEF UpGoes, hostVars, otherThanUp, UpPcs
<1>0. TypeOK
  BY DEF StreamInv
<1>1. CASE UpReads(c)
  <2>1. client' \in [Conns -> Clients]
    BY <1>0, <1>1, ClientUpdates DEF TypeOK, UpReads, ClientBecomes
  <2> QED
    BY <1>0, <1>1, <2>1 DEF TypeOK, UpReads
<1>2. CASE UpSeesEof(c)
  BY <1>0, <1>2 DEF TypeOK, UpSeesEof
<1>3. CASE UpReadFails(c)
  BY <1>0, <1>3 DEF TypeOK, UpReadFails
<1>4. CASE UpSendsData(c)
  <2>1. toHost' \in Seq(Frames(GuestKinds))
    BY <1>0, <1>4, HolderHasId, SentIsTyped DEF UpSendsData, GuestKinds
  <2> QED
    BY <1>0, <1>4, <2>1 DEF TypeOK, UpSendsData
<1>5. CASE UpSendsClose(c)
  <2>1. toHost' \in Seq(Frames(GuestKinds))
    BY <1>0, <1>5, HolderHasId, SentIsTyped DEF UpSendsClose, GuestKinds
  <2> QED
    BY <1>0, <1>5, <2>1 DEF TypeOK, UpSendsClose
<1>6. CASE UpSendsRst(c)
  <2>1. toHost' \in Seq(Frames(GuestKinds))
    BY <1>0, <1>6, HolderHasId, SentIsTyped DEF UpSendsRst, GuestKinds
  <2> QED
    BY <1>0, <1>6, <2>1 DEF TypeOK, UpSendsRst
<1> QED
  BY <1>1, <1>2, <1>3, <1>4, <1>5, <1>6 DEF Up

ClientMoves(c) ==
  ClientSends(c) \/ ClientFinishes(c) \/ ClientResets(c) \/ ClientReads(c)

LEMMA ClientTyped ==
  ASSUME TypeOK, NEW c \in Conns, ClientMoves(c)
  PROVE  TypeOK' /\ UNCHANGED coreVars
<1> USE DEF ClientBecomes, otherThanClient, guestVars, hostVars
<1>1. client' \in [Conns -> Clients]
  <2>0. client \in [Conns -> Clients] /\ client[c] \in Clients
    BY DEF TypeOK
  <2>1. PICK k \in Clients : client' = [client EXCEPT ![c] = k]
    <3>1. CASE ClientSends(c)
      BY <2>0, <3>1, ClientUpdates DEF ClientSends
    <3>2. CASE ClientFinishes(c)
      BY <2>0, <3>2, ClientUpdates DEF ClientFinishes
    <3>3. CASE ClientResets(c)
      BY <2>0, <3>3, ClientUpdates DEF ClientResets
    <3>4. CASE ClientReads(c)
      BY <2>0, <3>4, ClientUpdates DEF ClientReads
    <3> QED
      BY <3>1, <3>2, <3>3, <3>4 DEF ClientMoves
  <2> QED
    BY <2>0, <2>1
<1>2. UNCHANGED <<counter, registry, spinning, handler, sid, chan, ungranted, up,
                  toHost, toGuest, session, total, delivered>>
  BY DEF ClientMoves, ClientSends, ClientFinishes, ClientResets, ClientReads
<1> QED
  BY <1>1, <1>2 DEF TypeOK, coreVars

LEMMA RoutesTyped ==
  ASSUME TypeOK, Routes
  PROVE  TypeOK'
<1> DEFINE f == Head(toGuest)
           c == registry[f.stream]
<1>1. toGuest' \in Seq(Frames(HostKinds)) /\ f \in Frames(HostKinds)
  BY QueueTail DEF TypeOK, Routes
<1>2. c \in Conns \cup {None}
  BY <1>1 DEF TypeOK, Frames
<1>3. chan' \in [Conns -> Seq(Frames(HostKinds))]
  <2>1. CASE c = None
    BY <2>1 DEF TypeOK, Routes
  <2>2. CASE c \in Conns
    <3>1. Append(chan[c], f) \in Seq(Frames(HostKinds))
      BY <1>1, <2>2, QueueAppend DEF TypeOK
    <3>2. chan' = [chan EXCEPT ![c] = Append(chan[c], f)]
      BY <2>2, IdsAssumption DEF Routes, Enqueue, IdsAssumption
    <3> QED
      BY <2>2, <3>1, <3>2 DEF TypeOK
  <2> QED
    BY <1>2, <2>1, <2>2
<1> QED
  BY <1>1, <1>3 DEF TypeOK, Routes, hostVars

\* What the host's steps leave alone is typed; so is the rest if the session
\* and the answer are.
LEMMA HostTyped ==
  ASSUME TypeOK, UNCHANGED otherThanHost,
         toHost' \in Seq(Frames(GuestKinds)), toGuest' \in Seq(Frames(HostKinds)),
         session' \in [Ids -> Sessions \cup {None}], total' \in [Conns -> 0..MaxBytes]
  PROVE  TypeOK'
  BY DEF TypeOK, otherThanHost, guestVars

LEMMA AnswerTyped ==
  ASSUME NEW f \in Frames(GuestKinds), NEW kind \in HostKinds
  PROVE  LET t == Answer(f, kind) IN
           /\ t \in Seq(Frames(HostKinds)) /\ Len(t) = 1
           /\ t[1].kind = kind /\ t[1].stream = f.stream /\ t[1].conn = f.conn
<1>1. [kind |-> kind, stream |-> f.stream, n |-> 0, conn |-> f.conn] \in Frames(HostKinds)
  BY DEF Frames
<1> QED
  BY <1>1 DEF Answer
-----------------------------------------------------------------------------
(* The host's steps. *)

\* A step of the host for connection c, whose id is i: it takes a frame of c or
\* none, sends t and leaves session x.
HostStep(i, c, x, t) ==
  /\ UNCHANGED <<registry, handler, sid, chan, up>>
  /\ session' = [session EXCEPT ![i] = x]
  /\ toGuest' = toGuest \o t
  /\ \/ toHost' = toHost
     \/ toHost # <<>> /\ Head(toHost).conn = c /\ toHost' = Tail(toHost)

\* What such a step keeps to.
HostKeeps(i, c, x, t) ==
  /\ Owns(i, c) /\ sid[c] = i /\ x \in Sessions \cup {None}
  /\ t \in Seq(Frames(HostKinds))
  /\ \A k \in 1..Len(t) : t[k].conn = c /\ t[k].stream = i
  /\ handler[c] \notin Unborn \cup {"open"} /\ ~Has(toHost', c, {"open"})
  /\ Has(t, c, {"data", "close"}) => session[i] # None /\ session[i].open
  /\ Has(t, c, {"open_err", "rst"}) => x = None
  /\ x # None =>
       /\ x.conn = c
       /\ session[i] # None \/ Nothing(c)
       /\ x.open => (session[i] # None /\ session[i].open) \/ Has(t, c, {"open_ok"})
       /\ Has(t, c, {"close"}) => x.eof /\ x.buf = 0
       /\ session[i] # None /\ session[i].eof /\ session[i].buf = 0 => x.eof /\ x.buf = 0
       /\ handler[c] \in {"shut", "join", "remove", "done"} =>
            (x.eof /\ x.buf = 0 /\ up[c] # "none") \/ Has(toHost', c, {"rst"})
       /\ up[c] = "done" => x.closed \/ Has(toHost', c, {"close", "rst"})

\* What is left of the queue to the host.
LEMMA TakenFrame ==
  ASSUME TypeOK, NEW c,
         \/ toHost' = toHost
         \/ toHost # <<>> /\ Head(toHost).conn = c /\ toHost' = Tail(toHost)
  PROVE  /\ \E e \in {0, 1} : \A k \in 1..Len(toHost') : k + e \in 1..Len(toHost) /\ toHost'[k] = toHost[k + e]
         /\ \A d, kinds : Has(toHost', d, kinds) => Has(toHost, d, kinds)
         /\ \A d, kinds : d # c /\ Has(toHost, d, kinds) => Has(toHost', d, kinds)
<1>1. CASE toHost' = toHost
  <2>1. \A k \in 1..Len(toHost') : k + 0 \in 1..Len(toHost) /\ toHost'[k] = toHost[k + 0]
    BY <1>1 DEF TypeOK
  <2> QED
    BY <1>1, <2>1
<1>2. CASE toHost # <<>> /\ Head(toHost).conn = c /\ toHost' = Tail(toHost)
  <2>1. \A k \in 1..Len(toHost') : k + 1 \in 1..Len(toHost) /\ toHost'[k] = toHost[k + 1]
    BY <1>2, QueueTail DEF TypeOK
  <2>2. Head(toHost) = toHost[1]
    BY <1>2, QueueTail DEF TypeOK
  <2>3. \A d, kinds : Has(toHost, d, kinds) <=>
          (toHost[1].conn = d /\ toHost[1].kind \in kinds) \/ Has(toHost', d, kinds)
    BY <1>2, HasTail DEF TypeOK
  <2> QED
    BY <1>2, <2>1, <2>2, <2>3
<1> QED
  BY <1>1, <1>2

LEMMA HostStepKeeps ==
  ASSUME StreamInv, NEW i \in Ids, NEW c \in Conns, NEW x, NEW t,
         HostStep(i, c, x, t), HostKeeps(i, c, x, t)
  PROVE  Core'
<1> USE DEF StreamInv, Core
<1>1. /\ registry' = registry /\ handler' = handler /\ sid' = sid /\ chan' = chan /\ up' = up
      /\ session' = [session EXCEPT ![i] = x] /\ toGuest' = toGuest \o t
      /\ session \in [Ids -> Sessions \cup {None}]
      /\ toGuest \in Seq(Frames(HostKinds)) /\ t \in Seq(Frames(HostKinds))
  BY DEF HostStep, HostKeeps, TypeOK
<1>2. /\ session'[i] = x
      /\ \A j \in Ids : j # i => session'[j] = session[j]
  BY <1>1
<1>3. PICK e \in {0, 1} : \A k \in 1..Len(toHost') : k + e \in 1..Len(toHost) /\ toHost'[k] = toHost[k + e]
  BY TakenFrame DEF HostStep
<1>4. /\ \A d, kinds : Has(toHost', d, kinds) => Has(toHost, d, kinds)
      /\ \A d, kinds : d # c /\ Has(toHost, d, kinds) => Has(toHost', d, kinds)
  BY TakenFrame DEF HostStep
<1> DEFINE u == toGuest \o t
           g == Len(toGuest)
<1>5. /\ g \in Nat /\ Len(t) \in Nat /\ Len(u) = g + Len(t)
      /\ \A k \in 1..g : k \in 1..Len(u) /\ u[k] = toGuest[k]
      /\ \A j \in 1..Len(t) : g + j \in 1..Len(u) /\ u[g + j] = t[j]
      /\ \A k \in 1..Len(u) : k \in 1..g \/ (k - g \in 1..Len(t) /\ u[k] = t[k - g])
  BY <1>1, QueueConcat
<1>6. \A d, kinds : Has(u, d, kinds) <=> Has(toGuest, d, kinds) \/ Has(t, d, kinds)
  BY <1>1, HasConcat
<1>7. /\ \A k \in 1..Len(t) : t[k].conn = c /\ t[k].stream = i
      /\ \A d, kinds : Has(t, d, kinds) => d = c
  BY DEF HostKeeps, Has
<1>8. toGuest' = u
  BY <1>1
<1> HIDE DEF u
<1>9. \A k \in 1..Len(u) : (k \in 1..g /\ u[k] = toGuest[k]) \/ (u[k].conn = c /\ u[k].stream = i)
  <2>1. \A k \in 1..Len(t) : t[k].conn = c /\ t[k].stream = i
    BY <1>7
  <2> QED
    BY <1>5, <2>1
<1>10. /\ \A j \in Ids, d \in Conns : Mine(j, d)' => (j = i /\ d = c /\ x # None) \/ (j # i /\ d # c /\ Mine(j, d))
       /\ \A d \in Conns : Mine(i, d) => d = c
       /\ \A j \in Ids : Mine(j, c) => j = i
  BY <1>2 DEF Mine, HostKeeps, Owns, Addressed
<1>11. Registered' /\ Started'
  BY <1>1 DEF Registered, Started, UpHasEnded
<1>12. Addressed'
  <2>1. \A k \in 1..Len(toHost') : toHost'[k].stream = sid[toHost'[k].conn]
    BY <1>3 DEF Addressed
  <2>2. \A k \in 1..Len(u) : u[k].stream = sid[u[k].conn]
    BY <1>5, <1>7, SMTT(30) DEF Addressed, HostKeeps
  <2>3. \A j \in Ids : session'[j] # None => sid[session'[j].conn] = j
    BY <1>2 DEF Addressed, HostKeeps
  <2> QED
    BY <1>1, <1>8, <2>1, <2>2, <2>3 DEF Addressed
<1>13. Owned'
  <2>1. ASSUME NEW j \in Ids
        PROVE  \E d \in Conns \cup {None} : Owns(j, d)'
    <3>1. CASE j = i
      <4>1. Owns(i, c)
        BY DEF HostKeeps
      <4>2. \A k \in 1..Len(toHost') : toHost'[k].stream = i => toHost'[k].conn = c
        BY <1>3, <4>1 DEF Owns
      <4>3. \A k \in 1..Len(u) : u[k].stream = i => u[k].conn = c
        BY <1>9, <4>1 DEF Owns
      <4>4. Owns(i, c)'
        <5>1. registry'[i] # None => registry'[i] = c
          BY <1>1, <4>1 DEF Owns
        <5>2. session'[i] # None => session'[i].conn = c
          BY <1>2 DEF HostKeeps
        <5> QED
          BY <1>8, <4>2, <4>3, <5>1, <5>2 DEF Owns
      <4> QED
        BY <3>1, <4>4
    <3>2. CASE j # i
      <4>1. PICK d \in Conns \cup {None} : Owns(j, d)
        BY DEF Owned
      <4>2. \A k \in 1..Len(toHost') : toHost'[k].stream = j => toHost'[k].conn = d
        BY <1>3, <4>1 DEF Owns
      <4>3. \A k \in 1..Len(u) : u[k].stream = j => u[k].conn = d
        BY <1>9, <3>2, <4>1 DEF Owns
      <4>4. Owns(j, d)'
        <5>1. registry'[j] # None => registry'[j] = d
          BY <1>1, <4>1 DEF Owns
        <5>2. session'[j] # None => session'[j].conn = d
          BY <1>2, <3>2, <4>1 DEF Owns
        <5> QED
          BY <1>8, <4>2, <4>3, <5>1, <5>2 DEF Owns
      <4> QED
        BY <4>4
    <3> QED
      BY <3>1, <3>2
  <2> QED
    BY <2>1 DEF Owned
<1>14. ASSUME NEW d \in Conns, d # c, Nothing(d)
       PROVE  Nothing(d)'
  BY <1>1, <1>6, <1>7, <1>8, <1>10, <1>14 DEF Nothing
<1>15. Silent'
  <2>1. ASSUME NEW d \in Conns, handler[d] \in Unborn \cup {"open"}
        PROVE  Nothing(d)' /\ ~Has(toHost', d, GuestKinds)
    BY <1>4, <1>14, <2>1 DEF Silent, HostKeeps
  <2> QED
    BY <1>1, <2>1 DEF Silent
<1>16. Opens'
  <2>1. ASSUME NEW d \in Conns, NEW k \in 1..Len(toHost'), toHost'[k].kind = "open", toHost'[k].conn = d
        PROVE  /\ handler[d] = "verdict" /\ Nothing(d)'
               /\ \A j \in 1..Len(toHost') : toHost'[j].conn = d => j = k
    <3>1. k + e \in 1..Len(toHost) /\ toHost'[k] = toHost[k + e]
      BY <1>3
    <3>2. d # c
      BY <2>1 DEF HostKeeps, Has
    <3>3. handler[d] = "verdict" /\ Nothing(d)
      BY <2>1, <3>1 DEF Opens
    <3>4. ASSUME NEW j \in 1..Len(toHost'), toHost'[j].conn = d
          PROVE  j = k
      <4>1. j + e = k + e
        BY <1>3, <2>1, <3>1, <3>4 DEF Opens
      <4> QED
        BY <4>1
    <3> QED
      BY <1>14, <3>2, <3>3, <3>4
  <2> QED
    BY <1>1, <2>1 DEF Opens
<1>17. Verdicts'
  <2>1. ASSUME NEW d \in Conns, handler[d] = "verdict", NEW k \in 1..Len(u),
               u[k].conn = d, u[k].kind \in {"data", "close"}
        PROVE  \/ Has(chan[d], d, {"open_ok"})
               \/ \E j \in 1..Len(u) : j < k /\ u[j].conn = d /\ u[j].kind = "open_ok"
    <3>1. CASE k \in 1..g
      BY <1>5, <2>1, <3>1 DEF Verdicts
    <3>2. CASE k - g \in 1..Len(t) /\ u[k] = t[k - g]
      <4>1. d = c /\ Has(t, c, {"data", "close"})
        BY <1>7, <2>1, <3>2 DEF Has
      <4>2. Mine(i, c) /\ session[i].open
        BY <4>1 DEF HostKeeps, Owns, Mine
      <4>3. Has(chan[d], d, {"open_ok"}) \/ Has(toGuest, d, {"open_ok"})
        BY <2>1, <4>1, <4>2 DEF Verdicts
      <4>4. ASSUME Has(toGuest, d, {"open_ok"})
            PROVE  \E j \in 1..Len(u) : j < k /\ u[j].conn = d /\ u[j].kind = "open_ok"
        <5>1. PICK j \in 1..g : toGuest[j].conn = d /\ toGuest[j].kind = "open_ok"
          BY <4>4 DEF Has
        <5>2. j \in 1..Len(u) /\ u[j] = toGuest[j]
          BY <1>5
        <5>3. j < k
          BY <1>5, <3>2
        <5> QED
          BY <5>1, <5>2, <5>3
      <4> QED
        BY <4>3, <4>4
    <3> QED
      BY <1>5, <3>1, <3>2
  <2>2. ASSUME NEW d \in Conns, handler[d] = "verdict", NEW j \in Ids, Mine(j, d)', session'[j].open
        PROVE  Has(chan[d], d, {"open_ok"}) \/ Has(u, d, {"open_ok"})
    <3>1. CASE j = i /\ d = c /\ x # None
      <4>1. (session[i] # None /\ session[i].open) \/ Has(t, c, {"open_ok"})
        BY <1>2, <2>2, <3>1 DEF HostKeeps
      <4>2. session[i] # None => Mine(i, c)
        BY DEF HostKeeps, Owns, Mine
      <4> QED
        BY <1>6, <2>2, <3>1, <4>1, <4>2 DEF Verdicts
    <3>2. CASE j # i /\ d # c /\ Mine(j, d)
      BY <1>2, <1>6, <2>2, <3>2 DEF Verdicts
    <3> QED
      BY <1>10, <2>2, <3>1, <3>2
  <2>3. \A d \in Conns : handler[d] = "verdict" =>
          \A k \in 1..Len(chan[d]) : chan[d][k].kind \in {"data", "close"} =>
             \E j \in 1..Len(chan[d]) : j < k /\ chan[d][j].kind = "open_ok"
    BY DEF Verdicts
  <2> QED
    BY <1>1, <1>8, <2>1, <2>2, <2>3 DEF Verdicts
<1>18. Finals'
  <2>1. ASSUME NEW d \in Conns, Has(chan[d], d, {"open_err", "rst"}) \/ Has(u, d, {"open_err", "rst"}),
               NEW j \in Ids, Mine(j, d)'
        PROVE  FALSE
    <3>1. CASE j = i /\ d = c /\ x # None
      <4>1. ~Has(t, c, {"open_err", "rst"})
        BY <3>1 DEF HostKeeps
      <4>2. Has(chan[c], c, {"open_err", "rst"}) \/ Has(toGuest, c, {"open_err", "rst"})
        BY <1>6, <2>1, <3>1, <4>1
      <4>3. ~Mine(i, c)
        BY <4>2 DEF Finals
      <4>4. session[i] = None
        BY <4>3 DEF HostKeeps, Owns, Mine
      <4>5. Nothing(c)
        BY <3>1, <4>4 DEF HostKeeps
      <4>6. ~Has(chan[c], c, {"open_err", "rst"}) /\ ~Has(toGuest, c, {"open_err", "rst"})
        BY <4>5 DEF Nothing, Has, HostKinds
      <4> QED
        BY <4>2, <4>6
    <3>2. CASE j # i /\ d # c /\ Mine(j, d)
      BY <1>6, <1>7, <2>1, <3>2 DEF Finals
    <3> QED
      BY <1>10, <2>1, <3>1, <3>2
  <2>2. ASSUME NEW d \in Conns, Has(chan[d], d, {"close"}) \/ Has(u, d, {"close"}),
               NEW j \in Ids, Mine(j, d)'
        PROVE  session'[j].eof /\ session'[j].buf = 0
    <3>1. CASE j = i /\ d = c /\ x # None
      <4>1. CASE Has(t, c, {"close"})
        BY <1>2, <3>1, <4>1 DEF HostKeeps
      <4>2. CASE Has(chan[c], c, {"close"}) \/ Has(toGuest, c, {"close"})
        <5>1. session[i] # None
          <6>1. Nothing(c) => ~Has(chan[c], c, {"close"}) /\ ~Has(toGuest, c, {"close"})
            BY DEF Nothing, Has, HostKinds
          <6> QED
            BY <3>1, <4>2, <6>1 DEF HostKeeps
        <5>2. Mine(i, c)
          BY <5>1 DEF HostKeeps, Owns, Mine
        <5>3. session[i].eof /\ session[i].buf = 0
          BY <4>2, <5>2 DEF Finals
        <5> QED
          BY <1>2, <3>1, <5>1, <5>3 DEF HostKeeps
      <4> QED
        BY <1>6, <2>2, <3>1, <4>1, <4>2
    <3>2. CASE j # i /\ d # c /\ Mine(j, d)
      BY <1>2, <1>6, <1>7, <2>2, <3>2 DEF Finals
    <3> QED
      BY <1>10, <2>2, <3>1, <3>2
  <2> QED
    BY <1>1, <1>8, <2>1, <2>2 DEF Finals
<1>19. Ends'
  <2>1. ASSUME NEW d \in Conns, NEW j \in Ids, Mine(j, d)'
        PROVE  /\ handler[d] \in {"shut", "join", "remove", "done"} =>
                    (session'[j].eof /\ session'[j].buf = 0 /\ up[d] # "none") \/ Has(toHost', d, {"rst"})
               /\ up[d] = "done" => session'[j].closed \/ Has(toHost', d, {"close", "rst"})
    <3>1. CASE j = i /\ d = c /\ x # None
      BY <1>2, <3>1 DEF HostKeeps
    <3>2. CASE j # i /\ d # c /\ Mine(j, d)
      BY <1>2, <1>4, <3>2 DEF Ends
    <3> QED
      BY <1>10, <2>1, <3>1, <3>2
  <2> QED
    BY <1>1, <2>1 DEF Ends
<1> QED
  BY <1>11, <1>12, <1>13, <1>15, <1>16, <1>17, <1>18, <1>19

\* The host takes a frame: whose it is, and that no OPEN of its connection is
\* left behind it.
LEMMA OwnerOfFrame ==
  ASSUME StreamInv, toHost # <<>>
  PROVE  LET f == Head(toHost) IN
           /\ f \in Frames(GuestKinds) /\ f.conn \in Conns /\ f.stream \in Ids /\ f.n \in Nat
           /\ sid[f.conn] = f.stream /\ Owns(f.stream, f.conn)
           /\ handler[f.conn] \notin Unborn \cup {"open"}
           /\ ~Has(Tail(toHost), f.conn, {"open"})
           /\ f.kind = "open" => Nothing(f.conn) /\ handler[f.conn] = "verdict"
           /\ \A kinds : Has(toHost, f.conn, kinds) => f.kind \in kinds \/ Has(Tail(toHost), f.conn, kinds)
<1> DEFINE f == Head(toHost)
<1> USE DEF StreamInv, Core
<1>1. /\ toHost \in Seq(Frames(GuestKinds)) /\ f = toHost[1] /\ 1 \in 1..Len(toHost) /\ f \in Frames(GuestKinds)
      /\ \A k \in 1..Len(Tail(toHost)) : k + 1 \in 1..Len(toHost) /\ Tail(toHost)[k] = toHost[k + 1]
  BY QueueTail DEF TypeOK
<1>2. f.conn \in Conns /\ f.stream \in Ids /\ f.n \in Nat /\ f.kind \in GuestKinds
  BY <1>1 DEF Frames
<1>3. sid[f.conn] = f.stream
  BY <1>1 DEF Addressed
<1>4. Owns(f.stream, f.conn)
  <2>1. PICK d \in Conns \cup {None} : Owns(f.stream, d)
    BY <1>2 DEF Owned
  <2>2. d = f.conn
    BY <1>1, <2>1 DEF Owns
  <2> QED
    BY <2>1, <2>2
<1>5. handler[f.conn] \notin Unborn \cup {"open"}
  BY <1>1, <1>2 DEF Silent, Has
<1>6. ~Has(Tail(toHost), f.conn, {"open"})
  <2>1. SUFFICES ASSUME NEW k \in 1..Len(Tail(toHost)), Tail(toHost)[k].conn = f.conn,
                        Tail(toHost)[k].kind = "open"
                 PROVE  FALSE
    BY DEF Has
  <2>2. k + 1 \in 1..Len(toHost) /\ toHost[k + 1].conn = f.conn /\ toHost[k + 1].kind = "open"
    BY <1>1, <2>1
  <2>3. 1 = k + 1
    BY <1>1, <1>2, <2>2 DEF Opens
  <2> QED
    BY <2>3
<1>7. f.kind = "open" => Nothing(f.conn) /\ handler[f.conn] = "verdict"
  BY <1>1, <1>2 DEF Opens
<1>8. \A kinds : Has(toHost, f.conn, kinds) => f.kind \in kinds \/ Has(Tail(toHost), f.conn, kinds)
  BY <1>1, HasTail
<1> QED
  BY <1>1, <1>2, <1>3, <1>4, <1>5, <1>6, <1>7, <1>8

LEMMA OwnerOfSession ==
  ASSUME StreamInv, NEW i \in Ids, session[i] # None
  PROVE  LET c == session[i].conn IN
           /\ session[i] \in Sessions /\ c \in Conns
           /\ sid[c] = i /\ Owns(i, c) /\ Mine(i, c)
           /\ handler[c] \notin Unborn \cup {"open"} /\ ~Has(toHost, c, {"open"})
<1> DEFINE c == session[i].conn
<1> USE DEF StreamInv, Core
<1>1. session[i] \in Sessions /\ c \in Conns
  BY DEF TypeOK, Sessions
<1>2. sid[c] = i /\ Mine(i, c)
  BY DEF Addressed, Mine
<1>3. Owns(i, c)
  BY DEF Owned, Owns
<1>4. handler[c] \notin Unborn \cup {"open"}
  BY <1>1, <1>2 DEF Silent, Nothing
<1>5. ~Has(toHost, c, {"open"})
  BY <1>1, <1>2 DEF Opens, Nothing, Has
<1> QED
  BY <1>1, <1>2, <1>3, <1>4, <1>5

LEMMA NoFrames ==
  ASSUME TypeOK
  PROVE  /\ <<>> \in Seq(Frames(HostKinds)) /\ Len(<<>>) = 0 /\ toGuest \o <<>> = toGuest
         /\ \A c, kinds : ~Has(<<>>, c, kinds)
         /\ \A i \in Ids : [session EXCEPT ![i] = session[i]] = session
  BY DEF TypeOK, Has

LEMMA OneFrame ==
  ASSUME NEW f \in Frames(HostKinds)
  PROVE  /\ <<f>> \in Seq(Frames(HostKinds)) /\ Len(<<f>>) = 1 /\ <<f>>[1] = f
         /\ \A c, kinds : Has(<<f>>, c, kinds) <=> f.conn = c /\ f.kind \in kinds
<1> DEFINE q == <<f>>
<1>1. q \in Seq(Frames(HostKinds)) /\ Len(q) = 1 /\ q[1] = f
  OBVIOUS
<1> HIDE DEF q
<1>2. \A k \in 1..Len(q) : k = 1
  BY <1>1
<1>3. 1 \in 1..Len(q)
  BY <1>1
<1>4. ASSUME NEW c, NEW kinds
      PROVE  Has(q, c, kinds) <=> f.conn = c /\ f.kind \in kinds
  <2>1. Has(q, c, kinds) => f.conn = c /\ f.kind \in kinds
    BY <1>1, <1>2 DEF Has
  <2>2. f.conn = c /\ f.kind \in kinds => Has(q, c, kinds)
    BY <1>1, <1>3 DEF Has
  <2> QED
    BY <2>1, <2>2
<1> QED
  BY <1>1, <1>4 DEF q

\* What a step of the host is made of is typed.
LEMMA HostStepTyped ==
  ASSUME StreamInv, NEW i \in Ids, NEW c, NEW x \in Sessions \cup {None},
         NEW t \in Seq(Frames(HostKinds)), HostStep(i, c, x, t),
         UNCHANGED otherThanHost, total' \in [Conns -> 0..MaxBytes]
  PROVE  TypeOK'
<1>0. TypeOK
  BY DEF StreamInv
<1>1. toHost' \in Seq(Frames(GuestKinds))
  <2>1. toHost \in Seq(Frames(GuestKinds))
    BY <1>0 DEF TypeOK
  <2>2. toHost # <<>> => Tail(toHost) \in Seq(Frames(GuestKinds))
    BY <2>1, QueueTail
  <2> QED
    BY <2>1, <2>2 DEF HostStep
<1>2. toGuest' \in Seq(Frames(HostKinds))
  BY <1>0, QueueConcat DEF TypeOK, HostStep
<1>3. session' \in [Ids -> Sessions \cup {None}]
  BY <1>0 DEF TypeOK, HostStep
<1> QED
  BY <1>0, <1>1, <1>2, <1>3, HostTyped

\* A frame is handled: what the step does to its stream.
LEMMA HandledFrame ==
  ASSUME StreamInv, toHost # <<>>, toHost' = Tail(toHost), UNCHANGED <<otherThanHost, total>>,
         NEW x \in Sessions \cup {None}, NEW t \in Seq(Frames(HostKinds)),
         session' = [session EXCEPT ![Head(toHost).stream] = x], toGuest' = toGuest \o t,
         \A k \in 1..Len(t) : t[k].conn = Head(toHost).conn /\ t[k].stream = Head(toHost).stream,
         ~Has(t, Head(toHost).conn, {"data", "close"}),
         Has(t, Head(toHost).conn, {"open_err", "rst"}) => x = None,
         x # None =>
           \/ /\ Head(toHost).kind = "open" /\ x.conn = Head(toHost).conn /\ x.open = FALSE
           \/ LET s == session[Head(toHost).stream] IN
                /\ s # None /\ x.conn = s.conn /\ x.open = s.open /\ x.eof = s.eof /\ x.buf = s.buf
                /\ s.closed => x.closed
                /\ Head(toHost).kind = "close" => x.closed
                /\ Head(toHost).kind \notin {"open", "rst"}
  PROVE  TypeOK' /\ Core'
<1> DEFINE f == Head(toHost)
           i == f.stream
           c == f.conn
           s == session[i]
<1>1. /\ f \in Frames(GuestKinds) /\ c \in Conns /\ i \in Ids
      /\ sid[c] = i /\ Owns(i, c) /\ handler[c] \notin Unborn \cup {"open"}
      /\ ~Has(Tail(toHost), c, {"open"})
      /\ f.kind = "open" => Nothing(c) /\ handler[c] = "verdict"
  BY OwnerOfFrame
<1>2. \A kinds : Has(toHost, c, kinds) => f.kind \in kinds \/ Has(Tail(toHost), c, kinds)
  BY OwnerOfFrame
<1>3. HostStep(i, c, x, t)
  BY DEF HostStep, otherThanHost, guestVars
<1>4. TypeOK'
  <2>1. total' \in [Conns -> 0..MaxBytes]
    BY DEF StreamInv, TypeOK
  <2> QED
    BY <1>1, <1>3, <2>1, HostStepTyped
<1>5. x # None /\ f.kind = "open" => up[c] = "none" /\ ~Mine(i, c)
  BY <1>1 DEF Nothing
<1>6. ASSUME x # None
      PROVE  /\ x.conn = c
             /\ session[i] # None \/ Nothing(c)
             /\ x.open => (session[i] # None /\ session[i].open) \/ Has(t, c, {"open_ok"})
             /\ Has(t, c, {"close"}) => x.eof /\ x.buf = 0
             /\ session[i] # None /\ session[i].eof /\ session[i].buf = 0 => x.eof /\ x.buf = 0
             /\ handler[c] \in {"shut", "join", "remove", "done"} =>
                  (x.eof /\ x.buf = 0 /\ up[c] # "none") \/ Has(toHost', c, {"rst"})
             /\ up[c] = "done" => x.closed \/ Has(toHost', c, {"close", "rst"})
  <2>1. CASE f.kind = "open" /\ x.conn = c /\ x.open = FALSE
    <3>1. Nothing(c) /\ handler[c] = "verdict" /\ up[c] = "none" /\ session[i] = None
      BY <1>1, <2>1 DEF Nothing, Mine, Owns
    <3>2. ~Has(t, c, {"close"})
      BY DEF Has
    <3> QED
      BY <2>1, <3>1, <3>2
  <2>2. CASE /\ s # None /\ x.conn = s.conn /\ x.open = s.open /\ x.eof = s.eof /\ x.buf = s.buf
             /\ s.closed => x.closed
             /\ f.kind = "close" => x.closed
             /\ f.kind \notin {"open", "rst"}
    <3>1. x.conn = c /\ Mine(i, c)
      BY <1>1, <2>2 DEF Owns, Mine
    <3>2. ~Has(t, c, {"close"})
      BY DEF Has
    <3>3. /\ handler[c] \in {"shut", "join", "remove", "done"} =>
               (s.eof /\ s.buf = 0 /\ up[c] # "none") \/ Has(toHost, c, {"rst"})
          /\ up[c] = "done" => s.closed \/ Has(toHost, c, {"close", "rst"})
      BY <1>1, <3>1 DEF StreamInv, Core, Ends
    <3>4. Has(toHost, c, {"rst"}) => Has(toHost', c, {"rst"})
      BY <1>2, <2>2
    <3>5. Has(toHost, c, {"close", "rst"}) => x.closed \/ Has(toHost', c, {"close", "rst"})
      BY <1>2, <2>2
    <3> QED
      BY <2>2, <3>1, <3>2, <3>3, <3>4, <3>5
  <2> QED
    BY <1>6, <2>1, <2>2
<1>7. HostKeeps(i, c, x, t)
  BY <1>1, <1>6 DEF HostKeeps
<1>8. Core'
  BY <1>1, <1>3, <1>7, HostStepKeeps
<1> QED
  BY <1>4, <1>8

LEMMA HandlesKeep ==
  ASSUME StreamInv, HostHandlesFrame
  PROVE  TypeOK' /\ Core'
<1> DEFINE f == Head(toHost)
           i == f.stream
           s == session[i]
<1>0. /\ TypeOK /\ toHost # <<>> /\ toHost' = Tail(toHost) /\ UNCHANGED <<otherThanHost, total>>
  BY DEF StreamInv, HostHandlesFrame, HostHandlesOpen, HostHandlesData, HostHandlesClose,
         HostHandlesRst, HostHandlesWindow, HostHandles
<1>1. /\ f \in Frames(GuestKinds) /\ f.conn \in Conns /\ i \in Ids /\ f.n \in Nat
      /\ Owns(i, f.conn)
      /\ f.kind = "open" => Nothing(f.conn)
  BY <1>0, OwnerOfFrame
<1>2. s \in Sessions \cup {None}
  BY <1>0, <1>1 DEF TypeOK
<1>3. /\ <<>> \in Seq(Frames(HostKinds)) /\ Len(<<>>) = 0 /\ toGuest \o <<>> = toGuest
      /\ \A c, kinds : ~Has(<<>>, c, kinds)
      /\ \A k \in 1..Len(<<>>) : <<>>[k].conn = f.conn /\ <<>>[k].stream = i
      /\ [session EXCEPT ![i] = s] = session
  BY <1>0, <1>1, NoFrames
<1>4. ASSUME NEW kind \in {"open_err", "rst"}
      PROVE  /\ Answer(f, kind) \in Seq(Frames(HostKinds))
             /\ \A k \in 1..Len(Answer(f, kind)) : Answer(f, kind)[k].conn = f.conn /\ Answer(f, kind)[k].stream = i
             /\ ~Has(Answer(f, kind), f.conn, {"data", "close"})
  BY <1>1, AnswerTyped DEF HostKinds, Has
<1>5. CASE HostHandlesOpen
  <2>1. f.kind = "open" /\ s = None
    BY <1>1, <1>5 DEF HostHandlesOpen, HostHandles, Nothing, Mine, Owns
  <2>2. CASE SetSession(i, NewSession(f.conn)) /\ UNCHANGED toGuest
    <3>1. NewSession(f.conn) \in Sessions /\ NewSession(f.conn).conn = f.conn /\ NewSession(f.conn).open = FALSE
      BY <1>1, SessionNew
    <3> QED
      BY <1>0, <1>3, <2>1, <2>2, <3>1, HandledFrame DEF SetSession
  <2>3. CASE Reply(Answer(f, "open_err")) /\ UNCHANGED session
    BY <1>0, <1>3, <1>4, <2>1, <2>3, HandledFrame DEF Reply
  <2> QED
    BY <1>5, <2>1, <2>2, <2>3 DEF HostHandlesOpen
<1>6. CASE HostHandlesData
  <2>1. f.kind = "data"
    BY <1>6 DEF HostHandlesData, HostHandles
  <2>2. CASE s # None /\ UNCHANGED <<session, toGuest>>
    BY <1>0, <1>2, <1>3, <2>1, <2>2, HandledFrame
  <2>3. CASE SetSession(i, None) /\ Reply(Answer(f, "rst"))
    BY <1>0, <1>4, <2>1, <2>3, HandledFrame DEF Reply, SetSession
  <2> QED
    BY <1>6, <2>2, <2>3 DEF HostHandlesData
<1>7. CASE HostHandlesClose
  <2>1. f.kind = "close" /\ toGuest' = toGuest
    BY <1>7 DEF HostHandlesClose, HostHandles
  <2>2. CASE s = None
    BY <1>0, <1>3, <1>7, <2>1, <2>2, HandledFrame DEF HostHandlesClose
  <2>3. CASE s # None
    <3> DEFINE x == [s EXCEPT !.closed = TRUE]
    <3>1. /\ x \in Sessions /\ x.conn = s.conn /\ x.open = s.open /\ x.closed
          /\ x.eof = s.eof /\ x.buf = s.buf
      BY <1>2, <2>3, SessionCloses
    <3>2. session' = [session EXCEPT ![i] = x]
      BY <1>7, <2>3 DEF HostHandlesClose, SetSession
    <3> HIDE DEF x
    <3> QED
      BY <1>0, <1>3, <2>1, <2>3, <3>1, <3>2, HandledFrame
  <2> QED
    BY <2>2, <2>3
<1>8. CASE HostHandlesRst
  BY <1>0, <1>3, <1>8, HandledFrame DEF HostHandlesRst, SetSession
<1>9. CASE HostHandlesWindow
  <2>1. f.kind = "window" /\ toGuest' = toGuest
    BY <1>9 DEF HostHandlesWindow, HostHandles
  <2>2. CASE s = None
    BY <1>0, <1>3, <1>9, <2>1, <2>2, HandledFrame DEF HostHandlesWindow
  <2>3. CASE s # None
    <3> DEFINE x == [s EXCEPT !.credit = @ + f.n]
    <3>1. Same(s, x)
      BY <1>1, <1>2, <2>3, SessionCredited
    <3>2. session' = [session EXCEPT ![i] = x]
      BY <1>9, <2>3 DEF HostHandlesWindow, SetSession
    <3> HIDE DEF x
    <3> QED
      BY <1>0, <1>3, <2>1, <2>3, <3>1, <3>2, HandledFrame DEF Same
  <2> QED
    BY <2>2, <2>3
<1> QED
  BY <1>5, <1>6, <1>7, <1>8, <1>9 DEF HostHandlesFrame

\* A session is served: what the step does to its stream.
LEMMA ServedSession ==
  ASSUME StreamInv, NEW i \in Ids, session[i] # None, toHost' = toHost, UNCHANGED otherThanHost,
         total' \in [Conns -> 0..MaxBytes],
         NEW x \in Sessions \cup {None}, NEW t \in Seq(Frames(HostKinds)),
         session' = [session EXCEPT ![i] = x], toGuest' = toGuest \o t,
         \A k \in 1..Len(t) : t[k].conn = session[i].conn /\ t[k].stream = i,
         Has(t, session[i].conn, {"data", "close"}) => session[i].open,
         Has(t, session[i].conn, {"open_err", "rst"}) => x = None,
         x # None =>
           /\ x.conn = session[i].conn /\ x.closed = session[i].closed
           /\ x.open => session[i].open \/ Has(t, session[i].conn, {"open_ok"})
           /\ Has(t, session[i].conn, {"close"}) => x.eof /\ x.buf = 0
           /\ session[i].eof /\ session[i].buf = 0 => x.eof /\ x.buf = 0
  PROVE  TypeOK' /\ Core'
<1> DEFINE c == session[i].conn
           s == session[i]
<1>1. /\ s \in Sessions /\ c \in Conns /\ sid[c] = i /\ Owns(i, c) /\ Mine(i, c)
      /\ handler[c] \notin Unborn \cup {"open"} /\ ~Has(toHost, c, {"open"})
  BY OwnerOfSession
<1>2. HostStep(i, c, x, t)
  BY DEF HostStep, otherThanHost, guestVars
<1>3. TypeOK'
  BY <1>2, HostStepTyped
<1>4. /\ handler[c] \in {"shut", "join", "remove", "done"} =>
           (s.eof /\ s.buf = 0 /\ up[c] # "none") \/ Has(toHost, c, {"rst"})
      /\ up[c] = "done" => s.closed \/ Has(toHost, c, {"close", "rst"})
  BY <1>1 DEF StreamInv, Core, Ends
<1>5. HostKeeps(i, c, x, t)
  BY <1>1, <1>4 DEF HostKeeps
<1>6. Core'
  BY <1>1, <1>2, <1>5, HostStepKeeps
<1> QED
  BY <1>3, <1>6

LEMMA FrameOfTyped ==
  ASSUME StreamInv, NEW i \in Ids, session[i] # None, NEW kind \in HostKinds, NEW n \in Nat
  PROVE  LET f == FrameOf(i, kind, n) IN
           /\ f \in Frames(HostKinds) /\ f.kind = kind /\ f.stream = i /\ f.n = n /\ f.conn = session[i].conn
  BY OwnerOfSession DEF FrameOf, Frames

LEMMA SendableBounds ==
  ASSUME NEW s \in Sessions
  PROVE  Sendable(s) \in Nat /\ Sendable(s) <= s.buf /\ Sendable(s) <= s.credit
  BY DEF Sendable, Sessions

LEMMA ServeKeeps ==
  ASSUME StreamInv, NEW i \in Ids,
         HostConnects(i) \/ HostReads(i) \/ HostServices(i) \/ HostAborts(i)
  PROVE  TypeOK' /\ Core'
<1> DEFINE s == session[i]
           c == s.conn
<1>0. TypeOK /\ s # None
  BY DEF StreamInv, HostConnects, HostReads, HostServices, HostAborts, Opening, Open
<1>1. s \in Sessions /\ c \in Conns
  BY <1>0, OwnerOfSession
<1>2. /\ UNCHANGED otherThanHost /\ toHost' = toHost
      /\ ~HostReads(i) => total' \in [Conns -> 0..MaxBytes]
  BY <1>0 DEF HostConnects, HostReads, HostServices, HostAborts, TypeOK
<1>3. /\ <<>> \in Seq(Frames(HostKinds)) /\ Len(<<>>) = 0 /\ toGuest \o <<>> = toGuest
      /\ \A d, kinds : ~Has(<<>>, d, kinds)
      /\ \A k \in 1..Len(<<>>) : <<>>[k].conn = c /\ <<>>[k].stream = i
  BY <1>0, NoFrames
<1>4. ASSUME NEW kind \in HostKinds, NEW n \in Nat
      PROVE  LET t == <<FrameOf(i, kind, n)>> IN
               /\ t \in Seq(Frames(HostKinds))
               /\ \A k \in 1..Len(t) : t[k].conn = c /\ t[k].stream = i
               /\ \A kinds : Has(t, c, kinds) <=> kind \in kinds
  <2> DEFINE f == FrameOf(i, kind, n)
  <2>1. f \in Frames(HostKinds) /\ f.kind = kind /\ f.stream = i /\ f.conn = c
    BY <1>0, FrameOfTyped
  <2> HIDE DEF f
  <2>2. /\ <<f>> \in Seq(Frames(HostKinds)) /\ Len(<<f>>) = 1 /\ <<f>>[1] = f
        /\ \A d, kinds : Has(<<f>>, d, kinds) <=> f.conn = d /\ f.kind \in kinds
    BY <2>1, OneFrame
  <2>3. \A k \in 1..Len(<<f>>) : <<f>>[k].conn = c /\ <<f>>[k].stream = i
    BY <2>1, <2>2
  <2>4. \A kinds : Has(<<f>>, c, kinds) <=> kind \in kinds
    BY <2>1, <2>2
  <2> QED
    BY <2>2, <2>3, <2>4 DEF f
<1>5. CASE HostConnects(i)
  <2>1. CASE SetSession(i, [s EXCEPT !.open = TRUE]) /\ Reply(<<FrameOf(i, "open_ok", 0)>>)
    <3> DEFINE x == [s EXCEPT !.open = TRUE]
               t == <<FrameOf(i, "open_ok", 0)>>
    <3>1. /\ x \in Sessions /\ x.conn = c /\ x.closed = s.closed
          /\ x.eof = s.eof /\ x.buf = s.buf
      BY <1>1, SessionOpens
    <3>2. /\ t \in Seq(Frames(HostKinds))
          /\ \A k \in 1..Len(t) : t[k].conn = c /\ t[k].stream = i
          /\ Has(t, c, {"open_ok"}) /\ ~Has(t, c, {"data", "close"}) /\ ~Has(t, c, {"open_err", "rst"})
          /\ ~Has(t, c, {"close"})
      BY <1>4 DEF HostKinds
    <3>3. session' = [session EXCEPT ![i] = x] /\ toGuest' = toGuest \o t
      BY <2>1 DEF SetSession, Reply
    <3>4. total' \in [Conns -> 0..MaxBytes]
      BY <1>0, <1>5 DEF HostConnects, TypeOK
    <3> HIDE DEF x, t
    <3> QED
      BY <1>0, <1>2, <3>1, <3>2, <3>3, <3>4, ServedSession
  <2>2. CASE SetSession(i, None) /\ Reply(<<FrameOf(i, "open_err", 0)>>)
    <3> DEFINE t == <<FrameOf(i, "open_err", 0)>>
    <3>2. /\ t \in Seq(Frames(HostKinds))
          /\ \A k \in 1..Len(t) : t[k].conn = c /\ t[k].stream = i
          /\ ~Has(t, c, {"data", "close"})
      BY <1>4 DEF HostKinds
    <3>3. session' = [session EXCEPT ![i] = None] /\ toGuest' = toGuest \o t
      BY <2>2 DEF SetSession, Reply
    <3>4. total' \in [Conns -> 0..MaxBytes]
      BY <1>0, <1>5 DEF HostConnects, TypeOK
    <3> HIDE DEF t
    <3> QED
      BY <1>0, <1>2, <3>2, <3>3, <3>4, ServedSession
  <2> QED
    BY <1>5, <2>1, <2>2 DEF HostConnects
<1>6. CASE HostAborts(i)
  <2> DEFINE t == <<FrameOf(i, "rst", 0)>>
  <2>1. /\ t \in Seq(Frames(HostKinds))
        /\ \A k \in 1..Len(t) : t[k].conn = c /\ t[k].stream = i
        /\ ~Has(t, c, {"data", "close"})
    BY <1>4 DEF HostKinds
  <2>2. session' = [session EXCEPT ![i] = None] /\ toGuest' = toGuest \o t
    BY <1>6 DEF HostAborts, SetSession, Reply
  <2>3. total' \in [Conns -> 0..MaxBytes]
    BY <1>0, <1>6 DEF HostAborts, TypeOK
  <2> HIDE DEF t
  <2> QED
    BY <1>0, <1>2, <2>1, <2>2, <2>3, ServedSession
<1>7. CASE HostReads(i)
  <2>0. s.open /\ ~s.eof /\ toGuest' = toGuest \o <<>>
    BY <1>3, <1>7 DEF HostReads, Open
  <2>1. CASE /\ total[c] < MaxBytes /\ SetSession(i, [s EXCEPT !.buf = @ + 1])
             /\ total' = [total EXCEPT ![c] = @ + 1]
    <3> DEFINE x == [s EXCEPT !.buf = @ + 1]
    <3>1. x \in Sessions /\ x.conn = c /\ x.open = s.open /\ x.closed = s.closed
      BY <1>1, SessionBuffers
    <3>2. session' = [session EXCEPT ![i] = x]
      BY <2>1 DEF SetSession
    <3>3. total' \in [Conns -> 0..MaxBytes]
      BY <1>0, <1>1, <2>1, ForwarderBounds DEF TypeOK, ForwarderBounds
    <3> HIDE DEF x
    <3> QED
      BY <1>0, <1>2, <1>3, <2>0, <3>1, <3>2, <3>3, ServedSession
  <2>2. CASE SetSession(i, [s EXCEPT !.eof = TRUE]) /\ UNCHANGED total
    <3> DEFINE x == [s EXCEPT !.eof = TRUE]
    <3>1. x \in Sessions /\ x.conn = c /\ x.open = s.open /\ x.closed = s.closed
      BY <1>1, SessionEof
    <3>2. session' = [session EXCEPT ![i] = x]
      BY <2>2 DEF SetSession
    <3>3. total' \in [Conns -> 0..MaxBytes]
      BY <1>0, <2>2 DEF TypeOK
    <3> HIDE DEF x
    <3> QED
      BY <1>0, <1>2, <1>3, <2>0, <3>1, <3>2, <3>3, ServedSession
  <2> QED
    BY <1>7, <2>1, <2>2 DEF HostReads
<1>8. CASE HostServices(i)
  <2> DEFINE n == Sendable(s)
             closing == s.eof /\ n = s.buf /\ ~s.closeSent
             after == [s EXCEPT !.buf = @ - n, !.credit = @ - n, !.closeSent = @ \/ closing]
             p == IF n > 0 THEN <<FrameOf(i, "data", n)>> ELSE <<>>
             r == IF closing THEN <<FrameOf(i, "close", 0)>> ELSE <<>>
             x == IF IsDrained(after) THEN None ELSE after
  <2>1. n \in Nat /\ n <= s.buf /\ n <= s.credit
    BY <1>1, SendableBounds
  <2>2. /\ after \in Sessions /\ after.conn = c /\ after.open = s.open /\ after.closed = s.closed
        /\ after.eof = s.eof /\ after.buf = s.buf - n
    <3>1. PICK b \in BOOLEAN : b = (s.closeSent \/ closing)
      OBVIOUS
    <3> DEFINE y == [s EXCEPT !.buf = @ - n, !.credit = @ - n, !.closeSent = b]
    <3>2. after = y
      BY <3>1
    <3>3. /\ y \in Sessions /\ y.conn = c /\ y.open = s.open /\ y.closed = s.closed
          /\ y.eof = s.eof /\ y.buf = s.buf - n
      <4>1. n \in Nat /\ n <= s.buf /\ n <= s.credit /\ s \in Sessions /\ c = s.conn
        BY <1>1, <2>1
      <4> HIDE DEF n, s, c
      <4> QED
        BY <4>1, SessionServiced, ZenonT(60)
    <3> HIDE DEF y, after
    <3> QED
      BY <3>2, <3>3
  <2>3. /\ s.open /\ toGuest' = toGuest \o (p \o r) /\ session' = [session EXCEPT ![i] = x]
    BY <1>8 DEF HostServices, Open, Reply, SetSession
  <2>4. total' \in [Conns -> 0..MaxBytes]
    BY <1>0, <1>8 DEF HostServices, TypeOK
  <2>5. /\ p \in Seq(Frames(HostKinds))
        /\ \A k \in 1..Len(p) : p[k].conn = c /\ p[k].stream = i
        /\ ~Has(p, c, {"open_err", "rst"}) /\ ~Has(p, c, {"close"})
    <3>1. CASE n > 0
      BY <1>4, <2>1, <3>1 DEF HostKinds
    <3>2. CASE ~(n > 0)
      BY <1>3, <3>2
    <3> QED
      BY <3>1, <3>2
  <2>6. /\ r \in Seq(Frames(HostKinds))
        /\ \A k \in 1..Len(r) : r[k].conn = c /\ r[k].stream = i
        /\ ~Has(r, c, {"open_err", "rst"}) /\ (Has(r, c, {"close"}) => closing)
    <3>1. CASE closing
      BY <1>4, <3>1 DEF HostKinds
    <3>2. CASE ~closing
      BY <1>3, <3>2
    <3> QED
      BY <3>1, <3>2
  <2>7. x \in Sessions \cup {None} /\ (x # None => x = after)
    BY <2>2
  <2>8. closing => s.eof /\ n = s.buf
    OBVIOUS
  <2> HIDE DEF p, r, x, closing, after, n
  <2>9. /\ p \o r \in Seq(Frames(HostKinds))
        /\ \A k \in 1..Len(p \o r) : (p \o r)[k].conn = c /\ (p \o r)[k].stream = i
    BY <2>5, <2>6, QueueConcat
  <2>10. ~Has(p \o r, c, {"open_err", "rst"}) /\ (Has(p \o r, c, {"close"}) => closing)
    BY <2>5, <2>6, HasConcat
  <2>11. x # None =>
           /\ x.conn = c /\ x.closed = s.closed /\ x.open = s.open
           /\ Has(p \o r, c, {"close"}) => x.eof /\ x.buf = 0
           /\ s.eof /\ s.buf = 0 => x.eof /\ x.buf = 0
    <3>1. s.buf \in Nat
      BY <1>1 DEF Sessions
    <3>2. closing => after.eof /\ after.buf = 0
      BY <2>1, <2>2, <2>8, <3>1
    <3>3. s.eof /\ s.buf = 0 => after.eof /\ after.buf = 0
      BY <2>1, <2>2, <3>1
    <3> QED
      BY <2>2, <2>7, <2>10, <3>2, <3>3
  <2> QED
    BY <1>0, <1>2, <2>3, <2>4, <2>7, <2>9, <2>10, <2>11, ServedSession
<1> QED
  BY <1>5, <1>6, <1>7, <1>8
-----------------------------------------------------------------------------
(* The steps of a connection that has its verdict. *)

\* Handler and up thread move, a message may be taken from the channel and a
\* frame sent.
GuestStep(c, h, u, f) ==
  /\ UNCHANGED <<registry, sid, toGuest, session>>
  /\ handler' = [handler EXCEPT ![c] = h] /\ up' = [up EXCEPT ![c] = u]
  /\ \/ chan' = chan
     \/ chan[c] # <<>> /\ chan' = [chan EXCEPT ![c] = Tail(chan[c])]
  /\ toHost' = toHost \/ toHost' = Append(toHost, f)

GuestKeeps(c, h, u, f) ==
  /\ handler[c] \in Holding \ {"open"} /\ h \in Holding \ {"open", "verdict"}
  /\ handler[c] = "verdict" => chan[c] # <<>>
  /\ f \in Frames(GuestKinds) /\ f.conn = c /\ f.stream = sid[c] /\ f.kind # "open"
  /\ h \in {"relay", "grant"} => u # "none"
  /\ h = "remove" => u \in {"none", "done"}
  /\ \A i \in Ids : Mine(i, c) =>
       /\ h \in {"shut", "join", "remove"} =>
            (session[i].eof /\ session[i].buf = 0 /\ u # "none") \/ Has(toHost', c, {"rst"})
       /\ u = "done" => session[i].closed \/ Has(toHost', c, {"close", "rst"})

LEMMA GuestStepKeeps ==
  ASSUME StreamInv, NEW c \in Conns, NEW h, NEW u, NEW f, GuestStep(c, h, u, f), GuestKeeps(c, h, u, f)
  PROVE  Core'
<1> USE DEF StreamInv, Core
<1>1. /\ registry' = registry /\ sid' = sid /\ toGuest' = toGuest /\ session' = session
      /\ handler'[c] = h /\ up'[c] = u
      /\ \A d \in Conns : d # c => handler'[d] = handler[d] /\ up'[d] = up[d] /\ chan'[d] = chan[d]
  BY DEF GuestStep, TypeOK
<1>2. /\ handler[c] \in Holding \ {"open"} /\ h \in Holding \ {"open", "verdict"}
      /\ f \in Frames(GuestKinds) /\ f.conn = c /\ f.stream = sid[c] /\ f.kind # "open"
  BY DEF GuestKeeps
<1>3. \A k \in 1..Len(toHost') :
         \/ k \in 1..Len(toHost) /\ toHost'[k] = toHost[k]
         \/ toHost'[k] = f
  BY <1>2, QueueAppend DEF GuestStep, TypeOK
<1>4. \A d, kinds : /\ Has(toHost, d, kinds) => Has(toHost', d, kinds)
                    /\ d # c /\ Has(toHost', d, kinds) => Has(toHost, d, kinds)
  <2>1. toHost \in Seq(Frames(GuestKinds))
    BY DEF TypeOK
  <2>2. \A d, kinds : Has(Append(toHost, f), d, kinds) <=> Has(toHost, d, kinds) \/ (f.conn = d /\ f.kind \in kinds)
    BY <1>2, <2>1, HasAppend
  <2>3. CASE toHost' = toHost
    BY <2>3
  <2>4. CASE toHost' = Append(toHost, f)
    BY <1>2, <2>2, <2>4
  <2> QED
    BY <2>3, <2>4 DEF GuestStep
<1>5. \A k \in 1..Len(chan'[c]) : \E m \in 1..Len(chan[c]) : chan'[c][k] = chan[c][m]
  <2>1. chan[c] \in Seq(Frames(HostKinds)) /\ chan \in [Conns -> Seq(Frames(HostKinds))]
    BY DEF TypeOK
  <2>2. CASE chan' = chan
    BY <2>2
  <2>3. CASE chan[c] # <<>> /\ chan' = [chan EXCEPT ![c] = Tail(chan[c])]
    <3>1. chan'[c] = Tail(chan[c])
      BY <2>1, <2>3
    <3> QED
      BY <2>1, <2>3, <3>1, QueueTail
  <2> QED
    BY <2>2, <2>3 DEF GuestStep
<1>6. \A kinds : Has(chan'[c], c, kinds) => Has(chan[c], c, kinds)
  BY <1>5 DEF Has
<1>7. sid[c] \in Ids /\ registry[sid[c]] = c /\ ~Has(toHost, c, {"open"})
  <2>1. sid[c] \in Ids /\ registry[sid[c]] = c
    BY <1>2 DEF Registered
  <2>2. ~Nothing(c) \/ handler[c] # "verdict"
    BY DEF Nothing, GuestKeeps
  <2>3. ~Has(toHost, c, {"open"})
    BY <2>2 DEF Opens, Has
  <2> QED
    BY <2>1, <2>2, <2>3
<1>8. Registered'
  <2>1. \A d \in Conns : handler'[d] \in Unborn => handler[d] \in Unborn
    BY <1>1, <1>2 DEF Holding, Unborn
  <2>2. \A d \in Conns : handler'[d] \in Holding <=> handler[d] \in Holding
    BY <1>1, <1>2
  <2>3. \A i \in Ids : registry[i] # None => registry[i] \in Conns
    BY DEF TypeOK
  <2> QED
    BY <1>1, <2>1, <2>2, <2>3 DEF Registered
<1>9. Addressed'
  <2>1. \A k \in 1..Len(toHost') : toHost'[k].stream = sid[toHost'[k].conn]
    BY <1>2, <1>3 DEF Addressed
  <2>2. \A k \in 1..Len(chan'[c]) : chan'[c][k].conn = c
    BY <1>5 DEF Addressed
  <2> QED
    BY <1>1, <2>1, <2>2 DEF Addressed
<1>10. Owned'
  <2>1. ASSUME NEW j \in Ids
        PROVE  \E d \in Conns \cup {None} : Owns(j, d)'
    <3>1. PICK d \in Conns \cup {None} : Owns(j, d)
      BY DEF Owned
    <3>2. j = sid[c] => d = c
      <4>1. registry[sid[c]] = c /\ c # None
        BY <1>2, IdsAssumption DEF Registered, IdsAssumption
      <4> QED
        BY <3>1, <4>1 DEF Owns
    <3>3. \A k \in 1..Len(toHost') : toHost'[k].stream = j => toHost'[k].conn = d
      BY <1>2, <1>3, <3>1, <3>2 DEF Owns
    <3>4. Owns(j, d)'
      BY <1>1, <3>1, <3>3 DEF Owns
    <3> QED
      BY <3>4
  <2> QED
    BY <2>1 DEF Owned
<1>11. ASSUME NEW d \in Conns, d # c, Nothing(d)
       PROVE  Nothing(d)'
  BY <1>1, <1>11 DEF Nothing, Mine
<1>12. Silent'
  <2>1. ASSUME NEW d \in Conns, handler'[d] \in Unborn \cup {"open"}
        PROVE  Nothing(d)' /\ ~Has(toHost', d, GuestKinds)
    <3>1. d # c /\ handler[d] \in Unborn \cup {"open"}
      BY <1>1, <1>2, <2>1 DEF Holding, Unborn
    <3> QED
      BY <1>4, <1>11, <3>1 DEF Silent
  <2> QED
    BY <2>1 DEF Silent
<1>13. Opens'
  <2>1. ASSUME NEW d \in Conns, NEW k \in 1..Len(toHost'), toHost'[k].kind = "open", toHost'[k].conn = d
        PROVE  /\ handler'[d] = "verdict" /\ Nothing(d)'
               /\ \A j \in 1..Len(toHost') : toHost'[j].conn = d => j = k
    <3>1. k \in 1..Len(toHost) /\ toHost'[k] = toHost[k]
      BY <1>2, <1>3, <2>1
    <3>2. d # c
      BY <1>7, <2>1, <3>1 DEF Has
    <3>3. handler[d] = "verdict" /\ Nothing(d) /\ \A j \in 1..Len(toHost) : toHost[j].conn = d => j = k
      BY <2>1, <3>1 DEF Opens
    <3>4. \A j \in 1..Len(toHost') : toHost'[j].conn = d => j = k
      BY <1>2, <1>3, <3>2, <3>3
    <3> QED
      BY <1>1, <1>11, <3>2, <3>3, <3>4
  <2> QED
    BY <2>1 DEF Opens
<1>14. Started'
  BY <1>1 DEF Started, UpHasEnded, GuestKeeps, Holding
<1>15. Verdicts'
  <2>1. \A d \in Conns : handler'[d] = "verdict" => d # c /\ handler[d] = "verdict" /\ chan'[d] = chan[d]
    BY <1>1, <1>2
  <2> QED
    BY <1>1, <2>1 DEF Verdicts, Mine
<1>16. Finals'
  <2>1. \A d \in Conns : \A kinds : Has(chan'[d], d, kinds) => Has(chan[d], d, kinds)
    BY <1>1, <1>6
  <2> QED
    BY <1>1, <2>1 DEF Finals, Mine
<1>17. Ends'
  <2>1. ASSUME NEW d \in Conns, NEW j \in Ids, Mine(j, d)
        PROVE  /\ handler'[d] \in {"shut", "join", "remove", "done"} =>
                    (session[j].eof /\ session[j].buf = 0 /\ up'[d] # "none") \/ Has(toHost', d, {"rst"})
               /\ up'[d] = "done" => session[j].closed \/ Has(toHost', d, {"close", "rst"})
    <3>1. CASE d = c
      BY <1>1, <1>2, <2>1, <3>1 DEF GuestKeeps, Holding
    <3>2. CASE d # c
      BY <1>1, <1>4, <2>1, <3>2 DEF Ends
    <3> QED
      BY <3>1, <3>2
  <2> QED
    BY <1>1, <2>1 DEF Ends, Mine
<1> QED
  BY <1>8, <1>9, <1>10, <1>12, <1>13, <1>14, <1>15, <1>16, <1>17

\* The message a handler takes says what became of its session.
LEMMA MessageTaken ==
  ASSUME StreamInv, NEW c \in Conns, NEW kinds, Receives(c, kinds)
  PROVE  LET k == Head(chan[c]).kind IN
           /\ chan[c] # <<>> /\ k \in kinds
           /\ k \in {"open_err", "rst"} => \A i \in Ids : ~Mine(i, c)
           /\ k = "close" => \A i \in Ids : Mine(i, c) => session[i].eof /\ session[i].buf = 0
           /\ handler[c] = "verdict" => k \notin {"data", "close"}
<1> USE DEF StreamInv, Core
<1>1. /\ chan[c] # <<>> /\ Head(chan[c]).kind \in kinds
      /\ Head(chan[c]) = chan[c][1] /\ 1 \in 1..Len(chan[c])
  BY QueueTail DEF TypeOK, Receives
<1>2. chan[c][1].conn = c
  BY <1>1 DEF Addressed
<1>3. \A ks : chan[c][1].kind \in ks => Has(chan[c], c, ks)
  BY <1>1, <1>2 DEF Has
<1>4. chan[c][1].kind \in {"open_err", "rst"} => \A i \in Ids : ~Mine(i, c)
  BY <1>3 DEF Finals
<1>5. chan[c][1].kind = "close" => \A i \in Ids : Mine(i, c) => session[i].eof /\ session[i].buf = 0
  BY <1>3 DEF Finals
<1>6. handler[c] = "verdict" => chan[c][1].kind \notin {"data", "close"}
  BY <1>1 DEF Verdicts
<1> QED
  BY <1>1, <1>4, <1>5, <1>6

LEMMA SpareFrame ==
  ASSUME StreamInv, NEW c \in Conns, sid[c] \in Ids, NEW kind \in {"data", "close", "rst", "window"}, NEW n \in Nat
  PROVE  LET f == Frame(kind, c, n) IN
           /\ f \in Frames(GuestKinds) /\ f.conn = c /\ f.stream = sid[c] /\ f.kind = kind
           /\ Has(Append(toHost, f), c, {kind})
           /\ \A kinds : Has(toHost, c, kinds) => Has(Append(toHost, f), c, kinds)
           /\ \A kinds : kind \in kinds => Has(Append(toHost, f), c, kinds)
<1> DEFINE f == Frame(kind, c, n)
<1>1. f \in Frames(GuestKinds) /\ f.conn = c /\ f.stream = sid[c] /\ f.kind = kind
  BY DEF Frame, Frames, GuestKinds
<1>2. toHost \in Seq(Frames(GuestKinds))
  BY DEF StreamInv, TypeOK
<1> HIDE DEF f
<1>3. \A kinds : Has(Append(toHost, f), c, kinds) <=> Has(toHost, c, kinds) \/ (f.conn = c /\ f.kind \in kinds)
  BY <1>1, <1>2, HasAppend
<1> QED
  BY <1>1, <1>3 DEF f

\* How a connection's session stands with a handler or up thread as they are.
LEMMA EndsNow ==
  ASSUME StreamInv, NEW c \in Conns, NEW i \in Ids, Mine(i, c)
  PROVE  /\ handler[c] \in {"shut", "join", "remove"} =>
              (session[i].eof /\ session[i].buf = 0 /\ up[c] # "none") \/ Has(toHost, c, {"rst"})
         /\ up[c] = "done" => session[i].closed \/ Has(toHost, c, {"close", "rst"})
  BY DEF StreamInv, Core, Ends

LEMMA RelayKeeps ==
  ASSUME StreamInv, NEW c \in Conns,
         \/ GetsVerdict(c) \/ DownDelivers(c) \/ DownGrants(c) \/ DownWriteFails(c)
         \/ DownCloses(c) \/ DownIsReset(c) \/ SendsRst(c) \/ ShutsDown(c) \/ Joins(c)
  PROVE  Core'
<1> USE DEF HandlerAt, HandlerGoes, hostVars, otherThanDown
<1>0. /\ TypeOK /\ up = [up EXCEPT ![c] = up[c]] /\ up[c] \in UpPcs
      /\ handler[c] \in Holding \ {"open"}
  <2>1. TypeOK /\ up = [up EXCEPT ![c] = up[c]] /\ up[c] \in UpPcs
    BY DEF StreamInv, TypeOK
  <2>2. handler[c] \in {"verdict", "relay", "grant", "reset", "shut", "join"}
    BY DEF GetsVerdict, DownDelivers, DownGrants, DownWriteFails, DownCloses,
           DownIsReset, SendsRst, ShutsDown, Joins
  <2> QED
    BY <2>1, <2>2 DEF Holding, HandlerPcs
<1>1. sid[c] \in Ids
  BY <1>0, HolderHasId
<1> DEFINE f == Frame("rst", c, 0)
           w == Frame("window", c, ungranted[c])
<1>2. /\ f \in Frames(GuestKinds) /\ f.conn = c /\ f.stream = sid[c] /\ f.kind # "open"
      /\ Has(Append(toHost, f), c, {"rst"}) /\ Has(Append(toHost, f), c, {"close", "rst"})
  BY <1>1, SpareFrame
<1>3. /\ w \in Frames(GuestKinds) /\ w.conn = c /\ w.stream = sid[c] /\ w.kind # "open"
      /\ \A kinds : Has(toHost, c, kinds) => Has(Append(toHost, w), c, kinds)
  <2>1. ungranted[c] \in Nat
    BY <1>0 DEF TypeOK
  <2> QED
    BY <1>1, <2>1, SpareFrame
<1> HIDE DEF f, w
<1>4. /\ handler[c] \in {"relay", "grant"} => up[c] # "none"
      /\ handler[c] = "verdict" => up[c] = "none"
  BY DEF StreamInv, Core, Started
<1>5. CASE GetsVerdict(c)
  <2>1. chan[c] # <<>> /\ chan' = [chan EXCEPT ![c] = Tail(chan[c])]
    BY <1>5 DEF GetsVerdict, Receives
  <2>2. CASE HandlerGoes(c, "relay") /\ up' = [up EXCEPT ![c] = "read"]
    <3>1. GuestStep(c, "relay", "read", f)
      BY <1>5, <2>1, <2>2 DEF GetsVerdict, GuestStep
    <3>2. GuestKeeps(c, "relay", "read", f)
      BY <1>0, <1>2, <2>1 DEF GuestKeeps, Holding, HandlerPcs
    <3> QED
      BY <3>1, <3>2, GuestStepKeeps
  <2>3. CASE HandlerGoes(c, "reset") /\ UNCHANGED up
    <3>1. GuestStep(c, "reset", up[c], f)
      BY <1>0, <1>5, <2>1, <2>3 DEF GetsVerdict, GuestStep
    <3>2. up[c] = "none"
      BY <1>4, <1>5 DEF GetsVerdict
    <3>3. GuestKeeps(c, "reset", up[c], f)
      BY <1>0, <1>2, <2>1, <3>2 DEF GuestKeeps, Holding, HandlerPcs
    <3> QED
      BY <3>1, <3>3, GuestStepKeeps
  <2>4. CASE Receives(c, HostKinds \ {"open_ok"}) /\ HandlerGoes(c, "remove") /\ UNCHANGED up
    <3>1. GuestStep(c, "remove", up[c], f)
      BY <1>0, <1>5, <2>1, <2>4 DEF GetsVerdict, GuestStep
    <3>2. up[c] = "none"
      BY <1>4, <1>5 DEF GetsVerdict
    <3>3. \A i \in Ids : ~Mine(i, c)
      <4>1. handler[c] = "verdict"
        BY <1>5 DEF GetsVerdict
      <4>2. Head(chan[c]).kind \in HostKinds \ {"open_ok"} /\ Head(chan[c]).kind \notin {"data", "close"}
        BY <2>4, <4>1, MessageTaken
      <4>3. Head(chan[c]).kind \in {"open_err", "rst"}
        BY <4>2 DEF HostKinds
      <4> QED
        BY <2>4, <4>3, MessageTaken
    <3>4. GuestKeeps(c, "remove", up[c], f)
      BY <1>0, <1>2, <2>1, <3>2, <3>3 DEF GuestKeeps, Holding, HandlerPcs
    <3> QED
      BY <3>1, <3>4, GuestStepKeeps
  <2> QED
    BY <1>5, <2>2, <2>3, <2>4 DEF GetsVerdict
<1>6. CASE DownDelivers(c)
  <2> DEFINE h == IF GrantDue(ungranted[c] + Head(chan[c]).n) THEN "grant" ELSE "relay"
  <2>1. GuestStep(c, h, up[c], f)
    BY <1>0, <1>6 DEF DownDelivers, Receives, GuestStep
  <2>2. h \in {"relay", "grant"} /\ handler[c] = "relay"
    BY <1>6 DEF DownDelivers
  <2> HIDE DEF h
  <2>3. toHost' = toHost
    BY <1>6 DEF DownDelivers
  <2>4. GuestKeeps(c, h, up[c], f)
    BY <1>0, <1>2, <1>4, <2>2, <2>3, EndsNow DEF GuestKeeps, Holding, HandlerPcs
  <2> QED
    BY <2>1, <2>4, GuestStepKeeps
<1>7. CASE DownGrants(c)
  <2>1. toHost' = Append(toHost, w) /\ handler[c] = "grant"
    BY <1>7 DEF DownGrants, Send, Credit, w
  <2>2. GuestStep(c, "relay", up[c], w)
    BY <1>0, <1>7, <2>1 DEF DownGrants, GuestStep
  <2>3. GuestKeeps(c, "relay", up[c], w)
    BY <1>0, <1>3, <1>4, <2>1, EndsNow DEF GuestKeeps, Holding, HandlerPcs
  <2> QED
    BY <2>2, <2>3, GuestStepKeeps
<1>8. CASE DownWriteFails(c)
  <2>1. GuestStep(c, "reset", up[c], f)
    BY <1>0, <1>8 DEF DownWriteFails, Receives, GuestStep
  <2>2. toHost' = toHost /\ handler[c] = "relay"
    BY <1>8 DEF DownWriteFails
  <2>3. GuestKeeps(c, "reset", up[c], f)
    BY <1>0, <1>2, <2>2, EndsNow DEF GuestKeeps, Holding, HandlerPcs
  <2> QED
    BY <2>1, <2>3, GuestStepKeeps
<1>9. CASE DownCloses(c)
  <2>1. GuestStep(c, "shut", up[c], f)
    BY <1>0, <1>9 DEF DownCloses, Receives, GuestStep
  <2>2. toHost' = toHost /\ handler[c] = "relay"
    BY <1>9 DEF DownCloses
  <2>3. \A i \in Ids : Mine(i, c) => session[i].eof /\ session[i].buf = 0
    BY <1>9, MessageTaken DEF DownCloses
  <2>4. GuestKeeps(c, "shut", up[c], f)
    BY <1>0, <1>2, <1>4, <2>2, <2>3, EndsNow DEF GuestKeeps, Holding, HandlerPcs
  <2> QED
    BY <2>1, <2>4, GuestStepKeeps
<1>10. CASE DownIsReset(c)
  <2>1. GuestStep(c, "shut", up[c], f)
    BY <1>0, <1>10 DEF DownIsReset, Receives, GuestStep
  <2>2. toHost' = toHost /\ handler[c] = "relay"
    BY <1>10 DEF DownIsReset
  <2>3. \A i \in Ids : ~Mine(i, c)
    BY <1>10, MessageTaken DEF DownIsReset
  <2>4. GuestKeeps(c, "shut", up[c], f)
    BY <1>0, <1>2, <2>2, <2>3 DEF GuestKeeps, Holding, HandlerPcs
  <2> QED
    BY <2>1, <2>4, GuestStepKeeps
<1>11. CASE SendsRst(c)
  <2>1. toHost' = Append(toHost, f) /\ handler[c] = "reset"
    BY <1>11 DEF SendsRst, Send, f
  <2>2. GuestStep(c, "shut", up[c], f)
    BY <1>0, <1>11, <2>1 DEF SendsRst, GuestStep
  <2>3. GuestKeeps(c, "shut", up[c], f)
    BY <1>0, <1>2, <2>1 DEF GuestKeeps, Holding, HandlerPcs
  <2> QED
    BY <2>2, <2>3, GuestStepKeeps
<1>12. CASE ShutsDown(c)
  <2>1. GuestStep(c, "join", up[c], f)
    BY <1>0, <1>12 DEF ShutsDown, GuestStep
  <2>2. toHost' = toHost /\ handler[c] = "shut"
    BY <1>12 DEF ShutsDown
  <2>3. GuestKeeps(c, "join", up[c], f)
    BY <1>0, <1>2, <2>2, EndsNow DEF GuestKeeps, Holding, HandlerPcs
  <2> QED
    BY <2>1, <2>3, GuestStepKeeps
<1>13. CASE Joins(c)
  <2>1. GuestStep(c, "remove", up[c], f)
    BY <1>0, <1>13 DEF Joins, GuestStep
  <2>2. toHost' = toHost /\ handler[c] = "join" /\ up[c] \in {"none", "done"}
    BY <1>13 DEF Joins, UpHasEnded
  <2>3. GuestKeeps(c, "remove", up[c], f)
    BY <1>0, <1>2, <2>2, EndsNow DEF GuestKeeps, Holding, HandlerPcs
  <2> QED
    BY <2>1, <2>3, GuestStepKeeps
<1> QED
  BY <1>5, <1>6, <1>7, <1>8, <1>9, <1>10, <1>11, <1>12, <1>13

LEMMA UpKeeps ==
  ASSUME StreamInv, NEW c \in Conns, Up(c)
  PROVE  Core'
<1> USE DEF UpGoes, otherThanUp, hostVars
<1>0. TypeOK /\ handler = [handler EXCEPT ![c] = handler[c]]
  BY DEF StreamInv, TypeOK
<1>1. up[c] \in {"read", "send", "close", "rst"}
  BY DEF Up, UpReads, UpSendsData, UpSeesEof, UpSendsClose, UpReadFails, UpSendsRst
<1>2. /\ sid[c] \in Ids /\ handler[c] \in Holding \ {"open", "verdict"} /\ handler[c] # "remove"
      /\ handler[c] # "done"
  BY <1>1, HolderHasId DEF Holding
<1>3. \A i \in Ids : Mine(i, c) /\ handler[c] \in {"shut", "join", "remove"} =>
         (session[i].eof /\ session[i].buf = 0) \/ Has(toHost, c, {"rst"})
  BY EndsNow
<1>4. ASSUME NEW kind \in {"data", "close", "rst"}, NEW n \in Nat, NEW u \in {"read", "done"},
             up' = [up EXCEPT ![c] = u], toHost' = Append(toHost, Frame(kind, c, n)),
             UNCHANGED <<registry, handler, sid, chan, toGuest, session>>,
             u = "done" => kind \in {"close", "rst"}
      PROVE  Core'
  <2> DEFINE f == Frame(kind, c, n)
  <2>1. /\ f \in Frames(GuestKinds) /\ f.conn = c /\ f.stream = sid[c] /\ f.kind = kind
        /\ \A kinds : Has(toHost, c, kinds) => Has(Append(toHost, f), c, kinds)
        /\ \A kinds : kind \in kinds => Has(Append(toHost, f), c, kinds)
    BY <1>2, SpareFrame
  <2>2. GuestStep(c, handler[c], u, f)
    BY <1>0, <1>4 DEF GuestStep
  <2> HIDE DEF f
  <2>3. toHost' = Append(toHost, f)
    BY <1>4 DEF f
  <2>4. GuestKeeps(c, handler[c], u, f)
    BY <1>2, <1>3, <1>4, <2>1, <2>3 DEF GuestKeeps
  <2> QED
    BY <2>2, <2>4, GuestStepKeeps
<1>5. ASSUME NEW u \in {"send", "close", "rst"},
             up' = [up EXCEPT ![c] = u], toHost' = toHost,
             UNCHANGED <<registry, handler, sid, chan, toGuest, session>>
      PROVE  Core'
  <2> DEFINE f == Frame("rst", c, 0)
  <2>1. f \in Frames(GuestKinds) /\ f.conn = c /\ f.stream = sid[c] /\ f.kind = "rst"
    BY <1>2, SpareFrame
  <2>2. GuestStep(c, handler[c], u, f)
    BY <1>0, <1>5 DEF GuestStep
  <2> HIDE DEF f
  <2>3. GuestKeeps(c, handler[c], u, f)
    BY <1>2, <1>3, <1>5, <2>1 DEF GuestKeeps
  <2> QED
    BY <2>2, <2>3, GuestStepKeeps
<1>6. CASE UpReads(c)
  BY <1>5, <1>6 DEF UpReads
<1>7. CASE UpSeesEof(c)
  BY <1>5, <1>7 DEF UpSeesEof
<1>8. CASE UpReadFails(c)
  BY <1>5, <1>8 DEF UpReadFails
<1>9. CASE UpSendsData(c)
  BY <1>4, <1>9 DEF UpSendsData, Send
<1>10. CASE UpSendsClose(c)
  BY <1>4, <1>10 DEF UpSendsClose, Send
<1>11. CASE UpSendsRst(c)
  BY <1>4, <1>11 DEF UpSendsRst, Send
<1> QED
  BY <1>6, <1>7, <1>8, <1>9, <1>10, <1>11 DEF Up
-----------------------------------------------------------------------------
(* The steps before the verdict, the removal of the id and the routing. *)

LEMMA NegotiatesKeeps ==
  ASSUME StreamInv, NEW c \in Conns, Negotiates(c)
  PROVE  Core'
<1> USE DEF StreamInv, Core, HandlerAt, HandlerGoes, hostVars
<1>1. /\ handler[c] = "negotiate" /\ handler'[c] \in {"register", "done"}
      /\ \A d \in Conns : d # c => handler'[d] = handler[d]
      /\ UNCHANGED <<registry, sid, chan, up, toHost, toGuest, session>>
  BY DEF Negotiates, TypeOK, Socks5Target, SocksError
<1>2. Nothing(c) /\ ~Has(toHost, c, GuestKinds) /\ sid[c] = None
  BY <1>1 DEF Silent, Registered, Unborn
<1>3. \A d \in Conns : Nothing(d)' <=> Nothing(d)
  BY <1>1 DEF Nothing, Mine
<1>4. Registered'
  <2>1. None \notin Ids /\ \A i \in Ids : registry[i] \in Conns \cup {None}
    BY IdsAssumption DEF TypeOK, Ids, IdsAssumption
  <2>2. \A i \in Ids : registry[i] # c
    BY <1>2, <2>1, IdsAssumption DEF Registered, IdsAssumption
  <2>3. /\ handler'[c] \notin Holding
        /\ \A d \in Conns : handler'[d] \in Unborn => sid[d] = None
    BY <1>1, <1>2 DEF Registered, Unborn, Holding
  <2>4. \A d \in Conns : handler'[d] \in Holding => sid[d] \in Ids /\ registry[sid[d]] = d
    BY <1>1, <2>3 DEF Registered
  <2>5. \A i \in Ids : registry[i] # None => sid[registry[i]] = i /\ handler'[registry[i]] \in Holding
    BY <1>1, <2>1, <2>2 DEF Registered
  <2> QED
    BY <1>1, <2>3, <2>4, <2>5 DEF Registered
<1>5. Addressed' /\ Owned'
  BY <1>1 DEF Addressed, Owned, Owns
<1>6. Silent'
  BY <1>1, <1>2, <1>3 DEF Silent
<1>7. Opens'
  BY <1>1, <1>3 DEF Opens
<1>8. Started'
  BY <1>1, <1>2 DEF Started, Nothing, UpHasEnded
<1>9. Verdicts'
  BY <1>1 DEF Verdicts, Mine
<1>10. Finals'
  BY <1>1 DEF Finals, Mine
<1>11. Ends'
  BY <1>1, <1>2 DEF Ends, Mine, Nothing
<1> QED
  BY <1>4, <1>5, <1>6, <1>7, <1>8, <1>9, <1>10, <1>11

LEMMA SendsOpenKeeps ==
  ASSUME StreamInv, NEW c \in Conns, SendsOpen(c)
  PROVE  Core'
<1> USE DEF StreamInv, Core, HandlerAt, HandlerGoes, hostVars
<1> DEFINE f == Frame("open", c, 0)
<1>1. /\ handler[c] = "open" /\ handler'[c] = "verdict"
      /\ \A d \in Conns : d # c => handler'[d] = handler[d]
      /\ UNCHANGED <<registry, sid, chan, up, toGuest, session>>
      /\ toHost' = Append(toHost, f) /\ toHost \in Seq(Frames(GuestKinds))
  BY DEF SendsOpen, TypeOK, Send
<1>2. Nothing(c) /\ ~Has(toHost, c, GuestKinds)
  BY <1>1 DEF Silent
<1>3. sid[c] \in Ids /\ registry[sid[c]] = c
  BY <1>1, HolderHasId DEF Holding, HandlerPcs
<1>4. f \in Frames(GuestKinds) /\ f.conn = c /\ f.stream = sid[c] /\ f.kind = "open"
  BY <1>3 DEF Frame, Frames, GuestKinds
<1> HIDE DEF f
<1>5. \A k \in 1..Len(toHost') :
        \/ k \in 1..Len(toHost) /\ toHost'[k] = toHost[k] /\ toHost[k].conn # c
        \/ k = Len(toHost) + 1 /\ toHost'[k] = f
  <2>1. \A k \in 1..Len(toHost) : toHost[k] \in Frames(GuestKinds)
    BY <1>1
  <2>2. \A k \in 1..Len(toHost) : toHost[k].conn # c
    BY <1>2, <2>1 DEF Has, Frames
  <2>3. \A k \in 1..Len(toHost') :
        \/ k \in 1..Len(toHost) /\ toHost'[k] = toHost[k]
        \/ k = Len(toHost) + 1 /\ toHost'[k] = f
    BY <1>1, <1>4, QueueAppend
  <2> QED
    BY <2>2, <2>3
<1>6. \A d, kinds : Has(toHost', d, kinds) <=> Has(toHost, d, kinds) \/ (d = c /\ "open" \in kinds)
  BY <1>1, <1>4, HasAppend
<1>7. \A d \in Conns : Nothing(d)' <=> Nothing(d)
  BY <1>1 DEF Nothing, Mine
<1>8. Registered'
  <2>1. \A d \in Conns : /\ handler'[d] \in Unborn => handler[d] \in Unborn
                         /\ handler'[d] \in Holding <=> handler[d] \in Holding
    BY <1>1 DEF Unborn, Holding, HandlerPcs
  <2>2. \A i \in Ids : registry[i] # None => registry[i] \in Conns
    BY DEF TypeOK
  <2> QED
    BY <1>1, <2>1, <2>2 DEF Registered
<1>9. Addressed'
  BY <1>1, <1>4, <1>5 DEF Addressed
<1>10. Owned'
  <2>1. ASSUME NEW j \in Ids
        PROVE  \E d \in Conns \cup {None} : Owns(j, d)'
    <3>1. PICK d \in Conns \cup {None} : Owns(j, d)
      BY DEF Owned
    <3>2. j = sid[c] => d = c
      BY <1>3, <3>1, IdsAssumption DEF Owns, IdsAssumption
    <3>3. \A k \in 1..Len(toHost') : toHost'[k].stream = j => toHost'[k].conn = d
      BY <1>4, <1>5, <3>1, <3>2 DEF Owns
    <3>4. Owns(j, d)'
      BY <1>1, <3>1, <3>3 DEF Owns
    <3> QED
      BY <3>4
  <2> QED
    BY <2>1 DEF Owned
<1>11. Silent'
  <2>1. ASSUME NEW d \in Conns, handler'[d] \in Unborn \cup {"open"}
        PROVE  Nothing(d)' /\ ~Has(toHost', d, GuestKinds)
    <3>1. d # c /\ handler[d] \in Unborn \cup {"open"}
      BY <1>1, <2>1 DEF Unborn
    <3> QED
      BY <1>6, <1>7, <3>1 DEF Silent
  <2> QED
    BY <2>1 DEF Silent
<1>12. Opens'
  <2>1. ASSUME NEW d \in Conns, NEW k \in 1..Len(toHost'), toHost'[k].kind = "open", toHost'[k].conn = d
        PROVE  /\ handler'[d] = "verdict" /\ Nothing(d)'
               /\ \A j \in 1..Len(toHost') : toHost'[j].conn = d => j = k
    <3>1. CASE d = c
      BY <1>1, <1>2, <1>4, <1>5, <1>7, <2>1, <3>1
    <3>2. CASE d # c
      <4>1. k \in 1..Len(toHost) /\ toHost'[k] = toHost[k]
        BY <1>4, <1>5, <2>1, <3>2
      <4>2. handler[d] = "verdict" /\ Nothing(d) /\ \A j \in 1..Len(toHost) : toHost[j].conn = d => j = k
        BY <2>1, <4>1 DEF Opens
      <4>3. \A j \in 1..Len(toHost') : toHost'[j].conn = d => j = k
        BY <1>4, <1>5, <3>2, <4>2
      <4> QED
        BY <1>1, <1>7, <3>2, <4>2, <4>3
    <3> QED
      BY <3>1, <3>2
  <2> QED
    BY <2>1 DEF Opens
<1>13. Started'
  BY <1>1, <1>2 DEF Started, Nothing, UpHasEnded
<1>14. Verdicts'
  <2>1. ASSUME NEW d \in Conns, handler'[d] = "verdict"
        PROVE  /\ \A k \in 1..Len(chan[d]) : chan[d][k].kind \in {"data", "close"} =>
                    \E j \in 1..Len(chan[d]) : j < k /\ chan[d][j].kind = "open_ok"
               /\ \A k \in 1..Len(toGuest) : toGuest[k].conn = d /\ toGuest[k].kind \in {"data", "close"} =>
                    \/ Has(chan[d], d, {"open_ok"})
                    \/ \E j \in 1..Len(toGuest) : j < k /\ toGuest[j].conn = d /\ toGuest[j].kind = "open_ok"
               /\ \A i \in Ids : Mine(i, d) /\ session[i].open =>
                    Has(chan[d], d, {"open_ok"}) \/ Has(toGuest, d, {"open_ok"})
    <3>1. CASE d # c
      BY <1>1, <2>1, <3>1 DEF Verdicts
    <3>2. CASE d = c
      <4>1. chan[d] = <<>> /\ \A i \in Ids : ~Mine(i, d)
        BY <1>2, <3>2 DEF Nothing
      <4>2. \A k \in 1..Len(toGuest) : ~(toGuest[k].conn = d /\ toGuest[k].kind \in {"data", "close"})
        BY <1>2, <3>2 DEF Nothing, Has, HostKinds
      <4> QED
        BY <4>1, <4>2
    <3> QED
      BY <3>1, <3>2
  <2> QED
    BY <1>1, <2>1 DEF Verdicts, Mine
<1>15. Finals'
  BY <1>1 DEF Finals, Mine
<1>16. Ends'
  <2>1. ASSUME NEW d \in Conns, NEW j \in Ids, Mine(j, d)
        PROVE  /\ handler'[d] \in {"shut", "join", "remove", "done"} =>
                    (session[j].eof /\ session[j].buf = 0 /\ up[d] # "none") \/ Has(toHost', d, {"rst"})
               /\ up[d] = "done" => session[j].closed \/ Has(toHost', d, {"close", "rst"})
    <3>1. d # c
      BY <1>2, <2>1 DEF Nothing
    <3> QED
      BY <1>1, <1>6, <2>1, <3>1 DEF Ends
  <2> QED
    BY <1>1, <2>1 DEF Ends, Mine
<1> QED
  BY <1>8, <1>9, <1>10, <1>11, <1>12, <1>13, <1>14, <1>15, <1>16

\* When the counter comes round to a free id and its frames are gone, the
\* host's session of it is gone too.
LEMMA FreeIdIsUnused ==
  ASSUME StreamInv, NEW i \in Ids, Free(i), Settled(i)
  PROVE  session[i] = None
<1> SUFFICES ASSUME session[i] # None
             PROVE  FALSE
  OBVIOUS
<1> DEFINE c == session[i].conn
<1>1. session[i] \in Sessions /\ c \in Conns /\ sid[c] = i /\ Mine(i, c) /\ handler[c] \notin Unborn
  BY OwnerOfSession
<1>2. handler[c] = "done"
  <2>1. c # None
    BY <1>1, IdsAssumption DEF IdsAssumption
  <2>2. handler[c] \notin Holding
    BY <1>1, <2>1 DEF StreamInv, Core, Registered, Free
  <2>3. handler[c] \in HandlerPcs
    BY <1>1 DEF StreamInv, TypeOK
  <2> QED
    BY <1>1, <2>2, <2>3 DEF Holding, Unborn
<1>3. ~Has(toHost, c, {"rst"}) /\ ~Has(toHost, c, {"close", "rst"})
  <2>0. DOMAIN toHost = 1..Len(toHost)
    BY DEF StreamInv, TypeOK
  <2>1. \A k \in 1..Len(toHost) : toHost[k].conn # c
    BY <1>1, <2>0 DEF StreamInv, Core, Addressed, Settled
  <2> QED
    BY <2>1 DEF Has
<1>4. session[i].eof /\ session[i].buf = 0 /\ up[c] # "none"
  BY <1>1, <1>2, <1>3 DEF StreamInv, Core, Ends
<1>5. up[c] = "done"
  BY <1>1, <1>2, <1>4 DEF StreamInv, Core, Started, UpHasEnded
<1>6. session[i].closed
  BY <1>1, <1>3, <1>5 DEF StreamInv, Core, Ends
<1> QED
  BY <1>4, <1>6 DEF Settled, IsDrained

LEMMA RegistersKeeps ==
  ASSUME StreamInv, NEW c \in Conns, Registers(c)
  PROVE  Core'
<1> USE DEF StreamInv, Core, HandlerAt, HandlerGoes, hostVars
<1>1. CASE \A i \in Ids : ~Free(i)
  <2>1. UNCHANGED coreVars
    BY <1>1 DEF Registers, coreVars
  <2> QED
    BY <2>1 DEF coreVars, Registered, Addressed, Owned, Owns, Silent, Opens, Started, Verdicts,
                Finals, Ends, Nothing, Mine, UpHasEnded
<1>2. CASE \E i \in Ids : Free(i)
  <2> DEFINE id == FreeId
  <2>1. id \in Ids /\ Free(id) /\ Settled(id)
    BY <1>2, FreeIdIsFree DEF Registers
  <2>2. /\ registry' = [registry EXCEPT ![id] = c] /\ sid' = [sid EXCEPT ![c] = id]
        /\ handler[c] = "register" /\ handler' = [handler EXCEPT ![c] = "open"]
        /\ UNCHANGED <<chan, up, toHost, toGuest, session>>
    BY <1>2 DEF Registers
  <2> HIDE DEF id
  <2>3. session[id] = None
    BY <2>1, FreeIdIsUnused
  <2>4. /\ registry[id] = None /\ registry'[id] = c /\ sid'[c] = id /\ handler'[c] = "open"
        /\ \A j \in Ids : j # id => registry'[j] = registry[j]
        /\ \A d \in Conns : d # c => sid'[d] = sid[d] /\ handler'[d] = handler[d]
        /\ c # None /\ id # None
    BY <2>1, <2>2, IdsAssumption DEF TypeOK, Free, IdsAssumption, Ids
  <2>5. Nothing(c) /\ ~Has(toHost, c, GuestKinds) /\ sid[c] = None
    BY <2>2 DEF Silent, Registered, Unborn
  <2>6. /\ \A k \in 1..Len(toHost) : toHost[k].conn \in Conns /\ toHost[k].conn # c /\ toHost[k].stream # id
        /\ \A k \in 1..Len(toGuest) : toGuest[k].conn \in Conns /\ toGuest[k].conn # c /\ toGuest[k].stream # id
        /\ \A j \in Ids : session[j] # None => session[j].conn \in Conns /\ session[j].conn # c
    <3>1. DOMAIN toHost = 1..Len(toHost) /\ DOMAIN toGuest = 1..Len(toGuest)
      BY DEF TypeOK
    <3>2. /\ \A k \in 1..Len(toHost) : toHost[k] \in Frames(GuestKinds)
          /\ \A k \in 1..Len(toGuest) : toGuest[k] \in Frames(HostKinds)
      BY DEF TypeOK
    <3>3. \A k \in 1..Len(toHost) : toHost[k].conn \in Conns /\ toHost[k].conn # c /\ toHost[k].stream # id
      BY <2>1, <2>5, <3>1, <3>2 DEF Has, Frames, Settled
    <3>4. \A k \in 1..Len(toGuest) : toGuest[k].conn \in Conns /\ toGuest[k].conn # c /\ toGuest[k].stream # id
      BY <2>1, <2>5, <3>1, <3>2 DEF Has, Frames, Settled, Nothing
    <3>5. \A j \in Ids : session[j] # None => session[j].conn \in Conns /\ session[j].conn # c
      BY <2>5, OwnerOfSession DEF Nothing, Mine
    <3> QED
      BY <3>3, <3>4, <3>5
  <2>7. \A j \in Ids : registry[j] # None => registry[j] \in Conns /\ registry[j] # c /\ j # id
    BY <2>2, <2>4 DEF TypeOK, Registered, Holding
  <2>8. Registered'
    <3>1. \A d \in Conns : handler'[d] \in Unborn => sid'[d] = None
      BY <2>4 DEF Registered, Unborn
    <3>2. ASSUME NEW d \in Conns, handler'[d] \in Holding
          PROVE  sid'[d] \in Ids /\ registry'[sid'[d]] = d
      <4>1. CASE d = c
        BY <2>1, <2>4, <4>1
      <4>2. CASE d # c
        <5>1. sid[d] \in Ids /\ registry[sid[d]] = d /\ d # None
          BY <2>4, <3>2, <4>2, IdsAssumption DEF Registered, IdsAssumption
        <5> QED
          BY <2>4, <4>2, <5>1
      <4> QED
        BY <4>1, <4>2
    <3>3. ASSUME NEW j \in Ids, registry'[j] # None
          PROVE  sid'[registry'[j]] = j /\ handler'[registry'[j]] \in Holding
      <4>1. CASE j = id
        BY <2>4, <4>1 DEF Holding, HandlerPcs
      <4>2. CASE j # id
        BY <2>4, <2>7, <3>3, <4>2 DEF Registered
      <4> QED
        BY <4>1, <4>2
    <3> QED
      BY <3>1, <3>2, <3>3 DEF Registered
  <2>9. Addressed'
    BY <2>2, <2>4, <2>6 DEF Addressed
  <2>10. Owned'
    <3>1. ASSUME NEW j \in Ids
          PROVE  \E d \in Conns \cup {None} : Owns(j, d)'
      <4>1. CASE j = id
        <5>1. Owns(j, c)'
          BY <2>2, <2>3, <2>4, <2>6, <4>1 DEF Owns
        <5> QED
          BY <5>1
      <4>2. CASE j # id
        <5>1. PICK d \in Conns \cup {None} : Owns(j, d)
          BY DEF Owned
        <5>2. Owns(j, d)'
          BY <2>2, <2>4, <4>2, <5>1 DEF Owns
        <5> QED
          BY <5>2
      <4> QED
        BY <4>1, <4>2
    <3> QED
      BY <3>1 DEF Owned
  <2>11. \A d \in Conns : Nothing(d)' <=> Nothing(d)
    BY <2>2 DEF Nothing, Mine
  <2>12. Silent'
    BY <2>2, <2>4, <2>5, <2>11 DEF Silent
  <2>13. Opens'
    <3>1. \A d \in Conns : handler[d] = "verdict" => handler'[d] = "verdict"
      BY <2>2, <2>4
    <3> QED
      BY <2>2, <2>11, <3>1 DEF Opens
  <2>14. Started'
    BY <2>2, <2>4 DEF Started, UpHasEnded
  <2>15. Verdicts'
    <3>1. \A d \in Conns : handler'[d] = "verdict" => handler[d] = "verdict"
      BY <2>2, <2>4
    <3> QED
      BY <2>2, <3>1 DEF Verdicts, Mine
  <2>16. Finals'
    BY <2>2 DEF Finals, Mine
  <2>17. Ends'
    BY <2>2, <2>4 DEF Ends, Mine
  <2> QED
    BY <2>8, <2>9, <2>10, <2>12, <2>13, <2>14, <2>15, <2>16, <2>17
<1> QED
  BY <1>1, <1>2

LEMMA RemovesKeeps ==
  ASSUME StreamInv, NEW c \in Conns, Removes(c)
  PROVE  Core'
<1> USE DEF StreamInv, Core, HandlerAt, HandlerGoes, hostVars
<1>1. /\ handler[c] = "remove" /\ handler'[c] = "done" /\ chan'[c] = <<>>
      /\ \A d \in Conns : d # c => handler'[d] = handler[d] /\ chan'[d] = chan[d]
      /\ UNCHANGED <<sid, up, toHost, toGuest, session>>
  BY DEF Removes, TypeOK
<1>2. sid[c] \in Ids /\ registry[sid[c]] = c /\ c # None
  BY <1>1, HolderHasId, IdsAssumption DEF Holding, HandlerPcs, IdsAssumption
<1>3. registry'[sid[c]] = None /\ \A j \in Ids : j # sid[c] => registry'[j] = registry[j]
  BY <1>2 DEF Removes, TypeOK
<1>4. \A d \in Conns : \A kinds : Has(chan'[d], d, kinds) => Has(chan[d], d, kinds)
  BY <1>1 DEF Has
<1>5. Registered'
  <2>1. \A d \in Conns : handler'[d] \in Unborn => sid[d] = None
    BY <1>1 DEF Registered, Unborn
  <2>2. ASSUME NEW d \in Conns, handler'[d] \in Holding
        PROVE  sid[d] \in Ids /\ registry'[sid[d]] = d
    <3>1. d # c
      BY <1>1, <2>2 DEF Holding
    <3>2. sid[d] \in Ids /\ registry[sid[d]] = d
      BY <1>1, <2>2, <3>1 DEF Registered
    <3> QED
      BY <1>2, <1>3, <3>1, <3>2
  <2>3. ASSUME NEW j \in Ids, registry'[j] # None
        PROVE  sid[registry'[j]] = j /\ handler'[registry'[j]] \in Holding
    <3>1. j # sid[c] /\ registry'[j] = registry[j]
      BY <1>3, <2>3
    <3>2. registry[j] \in Conns /\ sid[registry[j]] = j /\ handler[registry[j]] \in Holding
      BY <2>3, <3>1 DEF Registered, TypeOK
    <3> QED
      BY <1>1, <3>1, <3>2
  <2> QED
    BY <1>1, <2>1, <2>2, <2>3 DEF Registered
<1>6. Addressed'
  BY <1>1 DEF Addressed
<1>7. Owned'
  <2>1. ASSUME NEW j \in Ids
        PROVE  \E d \in Conns \cup {None} : Owns(j, d)'
    <3>1. PICK d \in Conns \cup {None} : Owns(j, d)
      BY DEF Owned
    <3>2. registry'[j] # None => registry'[j] = d
      BY <1>3, <3>1 DEF Owns
    <3>3. Owns(j, d)'
      BY <1>1, <3>1, <3>2 DEF Owns
    <3> QED
      BY <3>3
  <2> QED
    BY <2>1 DEF Owned
<1>8. \A d \in Conns : d # c => (Nothing(d)' <=> Nothing(d))
  BY <1>1 DEF Nothing, Mine
<1>9. Silent'
  <2>1. \A d \in Conns : handler'[d] \in Unborn \cup {"open"} => d # c /\ handler[d] \in Unborn \cup {"open"}
    BY <1>1 DEF Unborn
  <2> QED
    BY <1>1, <1>8, <2>1 DEF Silent
<1>10. Opens'
  <2>1. \A d \in Conns : handler[d] = "verdict" => d # c /\ handler'[d] = "verdict"
    BY <1>1
  <2> QED
    BY <1>1, <1>8, <2>1 DEF Opens
<1>11. Started'
  BY <1>1 DEF Started, UpHasEnded
<1>12. Verdicts'
  <2>1. \A d \in Conns : handler'[d] = "verdict" => handler[d] = "verdict" /\ chan'[d] = chan[d]
    BY <1>1
  <2> QED
    BY <1>1, <2>1 DEF Verdicts, Mine
<1>13. Finals'
  BY <1>1, <1>4 DEF Finals, Mine
<1>14. Ends'
  BY <1>1 DEF Ends, Mine
<1> QED
  BY <1>5, <1>6, <1>7, <1>9, <1>10, <1>11, <1>12, <1>13, <1>14

LEMMA RoutesKeeps ==
  ASSUME StreamInv, Routes
  PROVE  Core'
<1> USE DEF StreamInv, Core
<1> DEFINE f == Head(toGuest)
           c == f.conn
           t == Tail(toGuest)
<1>1. /\ f = toGuest[1] /\ 1 \in 1..Len(toGuest) /\ f \in Frames(HostKinds) /\ toGuest' = t
      /\ \A k \in 1..Len(t) : k + 1 \in 1..Len(toGuest) /\ t[k] = toGuest[k + 1]
      /\ \A k \in 1..Len(toGuest) : k = 1 \/ (k - 1 \in 1..Len(t) /\ t[k - 1] = toGuest[k])
      /\ Len(toGuest) \in Nat
      /\ UNCHANGED <<registry, handler, sid, up, toHost, session>>
  BY QueueTail DEF TypeOK, Routes, hostVars
<1>2. f.stream \in Ids /\ c \in Conns /\ f.kind \in HostKinds /\ sid[c] = f.stream
  <2>1. f.stream \in Ids /\ c \in Conns /\ f.kind \in HostKinds
    BY <1>1 DEF Frames
  <2>2. sid[c] = f.stream
    BY <1>1 DEF Addressed
  <2> QED
    BY <2>1, <2>2
<1>3. \A d, kinds : Has(toGuest, d, kinds) <=> (c = d /\ f.kind \in kinds) \/ Has(t, d, kinds)
  <2>1. toGuest \in Seq(Frames(HostKinds)) /\ toGuest # <<>>
    BY DEF TypeOK, Routes
  <2> QED
    BY <1>1, <2>1, HasTail
<1>4. registry[f.stream] \in {None, c}
  <2>1. PICK d \in Conns \cup {None} : Owns(f.stream, d)
    BY <1>2 DEF Owned
  <2>2. d = c
    BY <1>1, <2>1 DEF Owns
  <2> QED
    BY <2>1, <2>2 DEF Owns
<1>5. /\ \A d \in Conns : d # c => chan'[d] = chan[d]
      /\ chan'[c] = Append(chan[c], f) \/ (chan'[c] = chan[c] /\ handler[c] \notin Holding)
  <2>1. CASE registry[f.stream] = None
    <3>1. c # None
      BY <1>2, IdsAssumption DEF IdsAssumption
    <3>2. chan' = chan
      BY <2>1 DEF Routes
    <3>3. handler[c] \notin Holding
      BY <1>2, <2>1, <3>1 DEF Registered
    <3> QED
      BY <3>2, <3>3
  <2>2. CASE registry[f.stream] = c /\ c # None
    <3>1. chan' = [chan EXCEPT ![c] = Append(chan[c], f)]
      BY <2>2 DEF Routes, Enqueue
    <3> QED
      BY <1>2, <3>1 DEF TypeOK
  <2> QED
    BY <1>4, <2>1, <2>2
<1>6. chan[c] \in Seq(Frames(HostKinds))
  BY <1>2 DEF TypeOK
<1>7. handler[c] \notin Unborn \cup {"open"} /\ ~Nothing(c)
  <2>1. Has(toGuest, c, HostKinds)
    BY <1>2, <1>3
  <2> QED
    BY <1>2, <2>1 DEF Silent, Nothing
<1> HIDE DEF f, c, t
<1>8. /\ \A kinds : Has(chan'[c], c, kinds) => Has(chan[c], c, kinds) \/ f.kind \in kinds
      /\ \A kinds : Has(chan[c], c, kinds) => Has(chan'[c], c, kinds)
      /\ handler[c] \in Holding => \A kinds : f.kind \in kinds => Has(chan'[c], c, kinds)
  <2>1. \A kinds : Has(Append(chan[c], f), c, kinds) <=> Has(chan[c], c, kinds) \/ (f.conn = c /\ f.kind \in kinds)
    BY <1>1, <1>6, HasAppend
  <2>2. f.conn = c
    BY DEF c
  <2> QED
    BY <1>5, <2>1, <2>2
<1>9. \A d \in Conns : \A kinds : d # c => (Has(t, d, kinds) <=> Has(toGuest, d, kinds))
  BY <1>3
<1>10. Registered' /\ Started'
  BY <1>1 DEF Registered, Started, UpHasEnded
<1>11. Addressed'
  <2>1. \A k \in 1..Len(chan'[c]) : chan'[c][k].conn = c
    <3>1. \A k \in 1..Len(chan[c]) : chan[c][k].conn = c
      BY <1>2 DEF Addressed
    <3>2. CASE chan'[c] = chan[c]
      BY <3>1, <3>2
    <3>3. CASE chan'[c] = Append(chan[c], f)
      BY <1>1, <1>6, <3>1, <3>3, QueueAppend DEF c
    <3> QED
      BY <1>5, <3>2, <3>3
  <2>2. \A k \in 1..Len(t) : t[k].stream = sid[t[k].conn]
    BY <1>1 DEF Addressed
  <2> QED
    BY <1>1, <1>5, <2>1, <2>2 DEF Addressed
<1>12. Owned'
  <2>1. ASSUME NEW j \in Ids
        PROVE  \E d \in Conns \cup {None} : Owns(j, d)'
    <3>1. PICK d \in Conns \cup {None} : Owns(j, d)
      BY DEF Owned
    <3>2. \A k \in 1..Len(t) : t[k].stream = j => t[k].conn = d
      BY <1>1, <3>1 DEF Owns
    <3>3. Owns(j, d)'
      BY <1>1, <3>1, <3>2 DEF Owns
    <3> QED
      BY <3>3
  <2> QED
    BY <2>1 DEF Owned
<1>13. ASSUME NEW d \in Conns, Nothing(d)
       PROVE  Nothing(d)'
  <2>1. d # c
    BY <1>7, <1>13
  <2> QED
    BY <1>1, <1>5, <1>9, <1>13, <2>1 DEF Nothing, Mine
<1>14. Silent'
  BY <1>1, <1>13 DEF Silent
<1>15. Opens'
  BY <1>1, <1>13 DEF Opens
<1>16. Verdicts'
  <2>1. ASSUME NEW d \in Conns, handler[d] = "verdict", NEW k \in 1..Len(chan'[d]),
               chan'[d][k].kind \in {"data", "close"}
        PROVE  \E j \in 1..Len(chan'[d]) : j < k /\ chan'[d][j].kind = "open_ok"
    <3>1. CASE chan'[d] = chan[d]
      BY <2>1, <3>1 DEF Verdicts
    <3>2. CASE d = c /\ chan'[c] = Append(chan[c], f)
      <4> DEFINE q == Append(chan[c], f)
                 m == Len(chan[c])
      <4>1. /\ m \in Nat /\ \A j \in 1..m : j \in 1..Len(q) /\ q[j] = chan[c][j]
            /\ m + 1 \in 1..Len(q) /\ q[m + 1] = f
            /\ \A j \in 1..Len(q) : j \in 1..m \/ j = m + 1
        BY <1>1, <1>6, QueueAppend
      <4> HIDE DEF q
      <4>2. chan'[d] = q
        BY <3>2 DEF q
      <4>3. CASE k \in 1..m
        BY <2>1, <3>2, <4>1, <4>2, <4>3 DEF Verdicts
      <4>4. CASE k = m + 1
        <5>1. f.kind \in {"data", "close"}
          BY <2>1, <4>1, <4>2, <4>4
        <5>2. Has(chan[c], c, {"open_ok"})
          <6>1. toGuest[1].conn = d /\ toGuest[1].kind \in {"data", "close"}
            BY <1>1, <3>2, <5>1 DEF c
          <6>2. ~\E j \in 1..Len(toGuest) : j < 1
            BY <1>1
          <6> QED
            BY <1>1, <2>1, <3>2, <6>1, <6>2 DEF Verdicts
        <5>3. PICK j \in 1..m : chan[c][j].kind = "open_ok"
          BY <5>2 DEF Has
        <5> QED
          BY <4>1, <4>2, <4>4, <5>3
      <4> QED
        BY <4>1, <4>2, <4>3, <4>4, <2>1
    <3> QED
      BY <1>5, <2>1, <3>1, <3>2
  <2>2. ASSUME NEW d \in Conns, handler[d] = "verdict", NEW k \in 1..Len(t),
               t[k].conn = d, t[k].kind \in {"data", "close"}
        PROVE  \/ Has(chan'[d], d, {"open_ok"})
               \/ \E j \in 1..Len(t) : j < k /\ t[j].conn = d /\ t[j].kind = "open_ok"
    <3>1. k + 1 \in 1..Len(toGuest) /\ toGuest[k + 1] = t[k]
      BY <1>1
    <3>2. CASE Has(chan[d], d, {"open_ok"})
      BY <1>5, <1>8, <3>2
    <3>3. ASSUME NEW j \in 1..Len(toGuest), j < k + 1, toGuest[j].conn = d, toGuest[j].kind = "open_ok"
          PROVE  \/ Has(chan'[d], d, {"open_ok"})
                 \/ \E i \in 1..Len(t) : i < k /\ t[i].conn = d /\ t[i].kind = "open_ok"
      <4>1. CASE j = 1
        <5>1. c = d /\ f.kind = "open_ok"
          BY <1>1, <3>3, <4>1 DEF c
        <5>2. handler[c] \in Holding
          BY <2>2, <5>1 DEF Holding, HandlerPcs
        <5> QED
          BY <1>8, <5>1, <5>2
      <4>2. CASE j - 1 \in 1..Len(t) /\ t[j - 1] = toGuest[j]
        <5>1. j - 1 < k
          BY <3>3
        <5> QED
          BY <3>3, <4>2, <5>1
      <4> QED
        BY <1>1, <4>1, <4>2
    <3> QED
      BY <2>2, <3>1, <3>2, <3>3 DEF Verdicts
  <2>3. ASSUME NEW d \in Conns, handler[d] = "verdict", NEW i \in Ids, Mine(i, d), session[i].open
        PROVE  Has(chan'[d], d, {"open_ok"}) \/ Has(t, d, {"open_ok"})
    <3>1. Has(chan[d], d, {"open_ok"}) \/ Has(toGuest, d, {"open_ok"})
      BY <2>3 DEF Verdicts
    <3>2. handler[d] \in Holding
      BY <2>3 DEF Holding, HandlerPcs
    <3> QED
      BY <1>3, <1>5, <1>8, <3>1, <3>2
  <2> QED
    BY <1>1, <2>1, <2>2, <2>3 DEF Verdicts, Mine
<1>17. Finals'
  <2>1. \A d \in Conns : \A kinds : Has(chan'[d], d, kinds) \/ Has(t, d, kinds) =>
          Has(chan[d], d, kinds) \/ Has(toGuest, d, kinds)
    BY <1>3, <1>5, <1>8
  <2> QED
    BY <1>1, <2>1 DEF Finals, Mine
<1>18. Ends'
  BY <1>1 DEF Ends, Mine
<1> QED
  BY <1>10, <1>11, <1>12, <1>14, <1>15, <1>16, <1>17, <1>18
-----------------------------------------------------------------------------
(* The streams. *)

LEMMA InitStreams == Init => StreamInv
<1> SUFFICES ASSUME Init
             PROVE  StreamInv
  OBVIOUS
<1>1. counter \in Ids
  BY IdsAssumption DEF Init, Ids, IdsAssumption
<1>2. NewClient \in Clients
  BY ForwarderBounds DEF NewClient, Clients, ForwarderBounds
<1>3. TypeOK
  <2>1. chan \in [Conns -> Seq(Frames(HostKinds))] /\ client \in [Conns -> Clients]
    <3>1. \A n \in {0, MaxSends} : [NewClient EXCEPT !.sent = n] \in Clients
      BY <1>2, ForwarderBounds DEF Clients, ForwarderBounds
    <3>2. chan \in [Conns -> Seq(Frames(HostKinds))]
      BY DEF Init
    <3>3. PICK load : client = [c \in Conns |->
            [NewClient EXCEPT !.sent = IF load[c] = "brief" THEN MaxSends ELSE 0]]
      BY DEF Init
    <3> QED
      BY <3>1, <3>2, <3>3
  <2>2. /\ toHost \in Seq(Frames(GuestKinds)) /\ toGuest \in Seq(Frames(HostKinds))
        /\ session \in [Ids -> Sessions \cup {None}] /\ registry \in [Ids -> Conns \cup {None}]
        /\ sid \in [Conns -> Ids \cup {None}]
    BY DEF Init
  <2>5. spinning \in BOOLEAN
    BY DEF Init
  <2>3. handler \in [Conns -> HandlerPcs] /\ up \in [Conns -> UpPcs]
    BY DEF Init, HandlerPcs, UpPcs
  <2>4. /\ ungranted \in [Conns -> Nat] /\ delivered \in [Conns -> Nat]
        /\ total \in [Conns -> 0..MaxBytes]
    <3>1. /\ 0 \in 0..MaxBytes /\ MaxBytes \in 0..MaxBytes
          /\ \A n \in 0..MaxBytes : n \in Nat
      BY ForwarderBounds DEF ForwarderBounds
    <3>2. PICK load : total = [c \in Conns |-> IF load[c] = "full" THEN 0 ELSE MaxBytes]
      BY DEF Init
    <3>3. total \in [Conns -> 0..MaxBytes]
      BY <3>1, <3>2
    <3>4. ungranted = [c \in Conns |-> 0] /\ delivered = total
      BY DEF Init
    <3>5. delivered \in [Conns -> Nat]
      BY <3>1, <3>3, <3>4
    <3> QED
      BY <3>3, <3>4, <3>5
  <2> QED
    BY <1>1, <2>1, <2>2, <2>3, <2>4, <2>5 DEF TypeOK
<1>4. /\ \A d, kinds : ~Has(toHost, d, kinds) /\ ~Has(toGuest, d, kinds)
      /\ \A c \in Conns : \A kinds : ~Has(chan[c], c, kinds)
      /\ \A i \in Ids, c \in Conns : ~Mine(i, c)
  BY DEF Init, Has, Mine
<1>5. Registered /\ Started
  BY DEF Init, Registered, Started, Holding, HandlerPcs, UpHasEnded
<1>6. Addressed /\ Opens /\ Verdicts
  BY DEF Init, Addressed, Opens, Verdicts
<1>7. Owned
  <2>1. \A i \in Ids : Owns(i, None)
    BY DEF Init, Owns
  <2> QED
    BY <2>1 DEF Owned
<1>8. Silent
  BY <1>4 DEF Init, Silent, Nothing
<1>9. Finals /\ Ends
  BY <1>4 DEF Finals, Ends
<1> QED
  BY <1>3, <1>5, <1>6, <1>7, <1>8, <1>9 DEF StreamInv, Core

LEMMA StreamsStep == StreamInv /\ [Next]_vars => StreamInv'
<1> SUFFICES ASSUME StreamInv, [Next]_vars
             PROVE  StreamInv'
  OBVIOUS
<1>0. TypeOK
  BY DEF StreamInv
<1>1. ASSUME UNCHANGED coreVars
      PROVE  Core'
  BY <1>1 DEF StreamInv, Core, coreVars, Registered, Addressed, Owned, Owns, Silent, Opens, Started,
              Verdicts, Finals, Ends, Nothing, Mine, UpHasEnded
<1>2. ASSUME NEW c \in Conns, Negotiates(c) \/ Handler(c)
      PROVE  StreamInv'
  <2>1. TypeOK'
    BY <1>2, HandlerTyped
  <2>2. Core'
    BY <1>2, NegotiatesKeeps, RegistersKeeps, SendsOpenKeeps, RelayKeeps, RemovesKeeps DEF Handler
  <2> QED
    BY <2>1, <2>2 DEF StreamInv
<1>3. ASSUME NEW c \in Conns, Up(c)
      PROVE  StreamInv'
  BY <1>3, UpTyped, UpKeeps DEF StreamInv
<1>4. ASSUME NEW c \in Conns, ClientMoves(c)
      PROVE  StreamInv'
  BY <1>0, <1>1, <1>4, ClientTyped DEF StreamInv
<1>5. CASE Routes
  BY <1>0, <1>5, RoutesTyped, RoutesKeeps DEF StreamInv
<1>6. CASE HostHandlesFrame
  BY <1>6, HandlesKeep DEF StreamInv
<1>7. ASSUME NEW i \in Ids, HostConnects(i) \/ HostReads(i) \/ HostServices(i) \/ HostAborts(i)
      PROVE  StreamInv'
  BY <1>7, ServeKeeps DEF StreamInv
<1>8. CASE UNCHANGED vars
  <2>1. UNCHANGED coreVars
    BY <1>8 DEF vars, coreVars
  <2>2. TypeOK'
    BY <1>0, <1>8 DEF TypeOK, vars
  <2> QED
    BY <1>1, <2>1, <2>2 DEF StreamInv
<1> QED
  BY <1>2, <1>3, <1>4, <1>5, <1>6, <1>7, <1>8 DEF Next, ClientMoves

\* The threads' program counters, the channels, the queues and the sessions are
\* of their types, for any number of connections, ids and window.
THEOREM ForwarderTyped == Spec => []TypeOK
<1>1. StreamInv => TypeOK
  BY DEF StreamInv
<1> QED
  BY <1>1, InitStreams, StreamsStep, PTL DEF Spec

\* However many connections there are and however few ids, a frame of a stream
\* never reaches a later stream with the same id, in either direction, and the
\* host never sees an OPEN for an id it still has a session for: handle_connection
\* gives the id back only after joining the up thread and after the host's
\* last word, or after a RST of its own.
THEOREM FramesKeepTheirOwner == Spec => []FramesReachTheirOwner
<1>1. StreamInv => FramesReachTheirOwner
  <2> SUFFICES ASSUME StreamInv
               PROVE  FramesReachTheirOwner
    OBVIOUS
  <2>1. ASSUME NEW c \in Conns, NEW k \in DOMAIN chan[c]
        PROVE  chan[c][k].conn = c
    <3>1. DOMAIN chan[c] = 1..Len(chan[c])
      BY DEF StreamInv, TypeOK
    <3> QED
      BY <3>1 DEF StreamInv, Core, Addressed
  <2>2. ASSUME toHost # <<>>, session[Head(toHost).stream] # None
        PROVE  Head(toHost).kind # "open" /\ Head(toHost).conn = session[Head(toHost).stream].conn
    <3>1. /\ Head(toHost).stream \in Ids /\ Owns(Head(toHost).stream, Head(toHost).conn)
          /\ Head(toHost).kind = "open" => Nothing(Head(toHost).conn)
      BY <2>2, OwnerOfFrame
    <3> QED
      BY <2>2, <3>1 DEF Owns, Nothing, Mine
  <2> QED
    BY <2>1, <2>2 DEF FramesReachTheirOwner
<1> QED
  BY <1>1, InitStreams, StreamsStep, PTL DEF Spec
-----------------------------------------------------------------------------
(* Bytes and credit. *)

\* Whose credit and bytes are accounted for.
Relaying == {"open", "verdict", "relay", "grant"}

\* No data of the connection comes after a CLOSE.
CloseLast(q, c) ==
  \A j, k \in 1..Len(q) :
    j < k /\ q[j].conn = c /\ q[j].kind = "close" /\ q[k].conn = c => q[k].kind # "data"

\* On their way to the client.
Bytes(c) == Carried(toGuest, "data", c) + Carried(chan[c], "data", c)

\* Nothing is owed or sent before the host knows of the connection.
Fresh(c) ==
  /\ handler[c] \in Unborn \cup {"open", "verdict"} => ungranted[c] = 0
  /\ handler[c] \in Unborn \cup {"open"} \/ Has(toHost, c, {"open"}) =>
       total[c] = delivered[c]

CreditOf(c) ==
  \A i \in Ids : Mine(i, c) /\ handler[c] \in Relaying =>
    session[i].credit + Bytes(c) + ungranted[c] + Carried(toHost, "window", c) = Window

\* What the remote end has sent is with the client, on its way or in the
\* session; after the CLOSE it is with the client or on its way.
BytesOf(c) ==
  handler[c] \in Relaying =>
    /\ \A i \in Ids : Mine(i, c) => total[c] = delivered[c] + Bytes(c) + session[i].buf
    /\ Has(chan[c], c, {"close"}) \/ Has(toGuest, c, {"close"}) =>
         total[c] = delivered[c] + Bytes(c)

\* The CLOSE is the last of the stream.
LastOf(c) ==
  /\ CloseLast(chan[c], c) /\ CloseLast(toGuest, c)
  /\ Has(chan[c], c, {"close"}) => ~Has(toGuest, c, {"data"})

\* The end the client sees before the shutdown is that of a whole response.
ShutOf(c) ==
  /\ client[c].eof => handler[c] \in {"shut", "join", "remove", "done"}
  /\ handler[c] = "shut" /\ client[c].eof =>
       delivered[c] = total[c] /\ \A i \in Ids : Mine(i, c) => session[i].eof

FlowOf(c) == Fresh(c) /\ CreditOf(c) /\ BytesOf(c) /\ LastOf(c) /\ ShutOf(c)
FlowInv == \A c \in Conns : FlowOf(c)

\* A queue of frames, in one or the other direction.
AnyFrames == Frames(GuestKinds \cup HostKinds)

LEMMA AnyQueue ==
  /\ Seq(Frames(GuestKinds)) \subseteq Seq(AnyFrames)
  /\ Seq(Frames(HostKinds)) \subseteq Seq(AnyFrames)
  /\ Frames(GuestKinds) \subseteq AnyFrames /\ Frames(HostKinds) \subseteq AnyFrames
<1>1. Frames(GuestKinds) \subseteq AnyFrames /\ Frames(HostKinds) \subseteq AnyFrames
  <2>1. ASSUME NEW A, NEW B, NEW f \in Frames(A), A \subseteq B
        PROVE  f \in Frames(B)
    BY <2>1 DEF Frames
  <2>2. GuestKinds \subseteq GuestKinds \cup HostKinds /\ HostKinds \subseteq GuestKinds \cup HostKinds
    OBVIOUS
  <2> QED
    BY <2>1, <2>2 DEF AnyFrames
<1> QED
  BY <1>1

LEMMA UnitsAre ==
  ASSUME NEW q \in Seq(AnyFrames), NEW kind, NEW c, NEW x
  PROVE  x \in Units(q, kind, c) <=>
           \E k \in 1..Len(q) : \E m \in 1..q[k].n :
             q[k].kind = kind /\ q[k].conn = c /\ x = <<k, m>>
  BY DEF Units

LEMMA UnitsFinite ==
  ASSUME NEW q \in Seq(AnyFrames), NEW kind, NEW c
  PROVE  IsFiniteSet(Units(q, kind, c)) /\ Carried(q, kind, c) \in Nat
<1> DEFINE K == {k \in DOMAIN q : q[k].kind = kind /\ q[k].conn = c}
           F(k) == {k} \X (1..q[k].n)
<1>1. IsFiniteSet(K)
  <2>1. IsFiniteSet(1..Len(q)) /\ K \subseteq 1..Len(q)
    BY FS_Interval
  <2> QED
    BY <2>1, FS_Subset
<1>2. IsFiniteSet({F(k) : k \in K})
  <2> DEFINE g == [k \in K |-> F(k)]
             R == {F(k) : k \in K}
  <2>1. g \in Surjection(K, R)
    BY DEF Surjection
  <2> HIDE DEF g, R
  <2>2. IsFiniteSet(R)
    BY <1>1, <2>1, FS_Surjection
  <2> QED
    BY <2>2 DEF R
<1>3. \A T \in {F(k) : k \in K} : IsFiniteSet(T)
  <2>1. ASSUME NEW k \in K
        PROVE  IsFiniteSet(F(k))
    <3>1. q[k].n \in Int
      <4>1. q[k] \in AnyFrames
        OBVIOUS
      <4> QED
        BY <4>1 DEF AnyFrames, Frames
    <3>2. IsFiniteSet(1..q[k].n) /\ IsFiniteSet({k})
      <4>1. IsFiniteSet(1..q[k].n)
        BY <3>1, FS_Interval
      <4>2. IsFiniteSet({k})
        BY FS_Singleton
      <4> QED
        BY <4>1, <4>2
    <3> QED
      BY <3>2, FS_Product
  <2> QED
    BY <2>1
<1>4. IsFiniteSet(Units(q, kind, c))
  BY <1>2, <1>3, FS_UNION DEF Units
<1> QED
  BY <1>4, FS_CardinalityType DEF Carried

LEMMA CarriedConcat ==
  ASSUME NEW q \in Seq(AnyFrames), NEW t \in Seq(AnyFrames), NEW kind, NEW c
  PROVE  Carried(q \o t, kind, c) = Carried(q, kind, c) + Carried(t, kind, c)
<1> DEFINE u == q \o t
           Q == Units(q, kind, c)
           T == Units(t, kind, c)
           shift == [x \in T |-> <<x[1] + Len(q), x[2]>>]
           S == {shift[x] : x \in T}
<1>1. /\ u \in Seq(AnyFrames) /\ Len(u) = Len(q) + Len(t) /\ Len(q) \in Nat /\ Len(t) \in Nat
      /\ \A k \in 1..Len(q) : k \in 1..Len(u) /\ u[k] = q[k]
      /\ \A j \in 1..Len(t) : Len(q) + j \in 1..Len(u) /\ u[Len(q) + j] = t[j]
      /\ \A k \in 1..Len(u) : k \in 1..Len(q) \/ (k - Len(q) \in 1..Len(t) /\ u[k] = t[k - Len(q)])
  BY QueueConcat
<1> HIDE DEF u
<1>2. /\ \A x : x \in Q <=> \E k \in 1..Len(q) : \E m \in 1..q[k].n :
                 q[k].kind = kind /\ q[k].conn = c /\ x = <<k, m>>
      /\ \A x : x \in T <=> \E k \in 1..Len(t) : \E m \in 1..t[k].n :
                 t[k].kind = kind /\ t[k].conn = c /\ x = <<k, m>>
      /\ \A x : x \in Units(u, kind, c) <=> \E k \in 1..Len(u) : \E m \in 1..u[k].n :
                 u[k].kind = kind /\ u[k].conn = c /\ x = <<k, m>>
  <2>1. u \in Seq(AnyFrames)
    BY <1>1
  <2> QED
    BY <2>1, UnitsAre
<1>3. \A x \in T : x = <<x[1], x[2]>> /\ x[1] \in 1..Len(t)
  BY <1>2
<1>4. IsFiniteSet(Q) /\ IsFiniteSet(T)
  BY UnitsFinite
<1>5. IsFiniteSet(S) /\ Cardinality(S) = Cardinality(T)
  <2>1. shift \in Surjection(T, S)
    BY DEF Surjection
  <2>2. ASSUME NEW x \in T, NEW y \in T, shift[x] = shift[y]
        PROVE  x = y
    <3>1. x[1] + Len(q) = y[1] + Len(q) /\ x[2] = y[2]
      BY <2>2
    <3>2. x[1] = y[1]
      BY <1>1, <1>3, <3>1
    <3> QED
      BY <1>3, <3>1, <3>2
  <2>3. shift \in [T -> S]
    OBVIOUS
  <2>4. shift \in Injection(T, S)
    BY <2>2, <2>3 DEF Injection, IsInjective
  <2>5. ExistsBijection(T, S)
    BY <2>1, <2>4 DEF ExistsBijection, Bijection
  <2> QED
    BY <1>4, <2>5, FS_Bijection
<1> HIDE DEF Q, T
<1>6. Q \cap S = {}
  <2>1. \A x \in Q : x[1] \in 1..Len(q)
    BY <1>2
  <2>2. \A x \in T : shift[x][1] = x[1] + Len(q)
    OBVIOUS
  <2>3. \A x \in T : shift[x][1] \notin 1..Len(q)
    BY <1>1, <1>3, <2>2
  <2> QED
    BY <2>1, <2>3
<1>7. Units(u, kind, c) = Q \cup S
  <2>1. ASSUME NEW x \in Units(u, kind, c)
        PROVE  x \in Q \cup S
    <3>0. PICK k \in 1..Len(u) : \E m \in 1..u[k].n : u[k].kind = kind /\ u[k].conn = c /\ x = <<k, m>>
      BY <1>2
    <3>1. PICK m \in 1..u[k].n : u[k].kind = kind /\ u[k].conn = c /\ x = <<k, m>>
      BY <3>0
    <3>2. CASE k \in 1..Len(q)
      BY <1>1, <1>2, <3>1, <3>2
    <3>3. CASE k - Len(q) \in 1..Len(t) /\ u[k] = t[k - Len(q)]
      <4>1. <<k - Len(q), m>> \in T
        BY <1>2, <3>1, <3>3
      <4>2. shift[<<k - Len(q), m>>] = <<(k - Len(q)) + Len(q), m>>
        BY <4>1
      <4>3. (k - Len(q)) + Len(q) = k
        BY <1>1
      <4> QED
        BY <3>1, <4>1, <4>2, <4>3
    <3> QED
      BY <1>1, <3>2, <3>3
  <2>2. ASSUME NEW x \in Q
        PROVE  x \in Units(u, kind, c)
    BY <1>1, <1>2, SMTT(30)
  <2>3. ASSUME NEW x \in T
        PROVE  shift[x] \in Units(u, kind, c)
    <3>0. PICK k \in 1..Len(t) : \E m \in 1..t[k].n : t[k].kind = kind /\ t[k].conn = c /\ x = <<k, m>>
      BY <1>2
    <3>1. PICK m \in 1..t[k].n : t[k].kind = kind /\ t[k].conn = c /\ x = <<k, m>>
      BY <3>0
    <3>2. shift[x] = <<Len(q) + k, m>>
      BY <1>1, <3>1
    <3> QED
      BY <1>1, <1>2, <3>1, <3>2
  <2> QED
    BY <2>1, <2>2, <2>3
<1>8. Cardinality(Q \cup S) = Cardinality(Q) + Cardinality(S)
  <2>1. Cardinality(Q \cup S) = Cardinality(Q) + Cardinality(S) - Cardinality({})
    BY <1>4, <1>5, <1>6, FS_Union
  <2>2. Cardinality({}) = 0 /\ Cardinality(Q) \in Nat /\ Cardinality(S) \in Nat
    BY <1>4, <1>5, FS_EmptySet, FS_CardinalityType
  <2> QED
    BY <2>1, <2>2
<1> QED
  BY <1>5, <1>7, <1>8 DEF Carried, u, Q, T

LEMMA CarriedOne ==
  ASSUME NEW f \in AnyFrames, NEW kind, NEW c
  PROVE  Carried(<<f>>, kind, c) = IF f.kind = kind /\ f.conn = c THEN f.n ELSE 0
<1> DEFINE q == <<f>>
<1>1. q \in Seq(AnyFrames) /\ Len(q) = 1 /\ q[1] = f /\ f.n \in Nat
  BY DEF AnyFrames, Frames
<1> HIDE DEF q
<1>2. \A k \in 1..Len(q) : k = 1
  BY <1>1
<1>3. 1 \in 1..Len(q)
  BY <1>1
<1>4. \A x : x \in Units(q, kind, c) <=> \E k \in 1..Len(q) : \E m \in 1..q[k].n :
                 q[k].kind = kind /\ q[k].conn = c /\ x = <<k, m>>
  BY <1>1, UnitsAre
<1>5. CASE f.kind = kind /\ f.conn = c
  <2>1. \A x : x \in Units(q, kind, c) <=> \E m \in 1..f.n : x = <<1, m>>
    BY <1>1, <1>2, <1>3, <1>4, <1>5
  <2>2. Units(q, kind, c) = {1} \X (1..f.n)
    BY <2>1
  <2>3. /\ IsFiniteSet({1}) /\ Cardinality({1}) = 1
        /\ IsFiniteSet(1..f.n) /\ Cardinality(1..f.n) = f.n
    <3>1. IsFiniteSet({1}) /\ Cardinality({1}) = 1
      BY FS_Singleton
    <3>2. IsFiniteSet(1..f.n) /\ Cardinality(1..f.n) = IF 1 > f.n THEN 0 ELSE f.n - 1 + 1
      <4>1. 1 \in Int /\ f.n \in Int
        BY <1>1
      <4> DEFINE n == f.n
      <4> HIDE DEF n
      <4>2. IsFiniteSet(1..n) /\ Cardinality(1..n) = IF 1 > n THEN 0 ELSE n - 1 + 1
        BY <4>1, FS_Interval DEF n
      <4> QED
        BY <4>2 DEF n
    <3>3. (IF 1 > f.n THEN 0 ELSE f.n - 1 + 1) = f.n
      BY <1>1
    <3> QED
      BY <3>1, <3>2, <3>3
  <2>4. Cardinality({1} \X (1..f.n)) = 1 * f.n
    <3> DEFINE A == {1}
               B == 1..f.n
    <3>1. IsFiniteSet(A) /\ IsFiniteSet(B) /\ Cardinality(A) = 1 /\ Cardinality(B) = f.n
      BY <2>3
    <3> HIDE DEF A, B
    <3>2. Cardinality(A \X B) = Cardinality(A) * Cardinality(B)
      BY <3>1, FS_Product
    <3> QED
      BY <3>1, <3>2 DEF A, B
  <2> QED
    BY <1>1, <1>5, <2>2, <2>4 DEF Carried, q
<1>6. CASE ~(f.kind = kind /\ f.conn = c)
  <2>1. Units(q, kind, c) = {}
    BY <1>1, <1>2, <1>4, <1>6
  <2> QED
    BY <1>6, <2>1, FS_EmptySet DEF Carried, q
<1> QED
  BY <1>5, <1>6

LEMMA CarriedNone ==
  ASSUME NEW q \in Seq(AnyFrames), NEW kind, NEW c, ~Has(q, c, {kind})
  PROVE  Carried(q, kind, c) = 0
<1>1. \A x : x \notin Units(q, kind, c)
  BY UnitsAre DEF Has
<1>2. Units(q, kind, c) = {}
  BY <1>1
<1> QED
  BY <1>2, FS_EmptySet DEF Carried

\* What one frame adds.
Share(f, kind, c) == IF f.kind = kind /\ f.conn = c THEN f.n ELSE 0

LEMMA CarriedAppend ==
  ASSUME NEW q \in Seq(AnyFrames), NEW f \in AnyFrames, NEW kind, NEW c
  PROVE  Carried(Append(q, f), kind, c) = Carried(q, kind, c) + Share(f, kind, c)
<1>1. Append(q, f) = q \o <<f>> /\ <<f>> \in Seq(AnyFrames)
  OBVIOUS
<1>2. Carried(q \o <<f>>, kind, c) = Carried(q, kind, c) + Carried(<<f>>, kind, c)
  <2> DEFINE t == <<f>>
  <2>1. t \in Seq(AnyFrames)
    BY <1>1
  <2> HIDE DEF t
  <2>2. Carried(q \o t, kind, c) = Carried(q, kind, c) + Carried(t, kind, c)
    BY <2>1, CarriedConcat
  <2> QED
    BY <2>2 DEF t
<1>3. Carried(<<f>>, kind, c) = Share(f, kind, c)
  BY CarriedOne DEF Share
<1> QED
  BY <1>1, <1>2, <1>3

LEMMA CarriedTail ==
  ASSUME NEW q \in Seq(AnyFrames), q # <<>>, NEW kind, NEW c
  PROVE  Carried(q, kind, c) = Share(Head(q), kind, c) + Carried(Tail(q), kind, c)
<1>1. /\ q = <<Head(q)>> \o Tail(q) /\ Head(q) \in AnyFrames
      /\ Tail(q) \in Seq(AnyFrames) /\ <<Head(q)>> \in Seq(AnyFrames)
  <2> DEFINE h == <<Head(q)>>
             t == Tail(q)
             u == h \o t
  <2>1. /\ t \in Seq(AnyFrames) /\ Len(q) = Len(t) + 1 /\ Len(t) \in Nat
        /\ \A k \in 1..Len(q) : k = 1 \/ (k - 1 \in 1..Len(t) /\ t[k - 1] = q[k])
        /\ Head(q) = q[1] /\ Head(q) \in AnyFrames
    BY QueueTail
  <2>2. h \in Seq(AnyFrames) /\ Len(h) = 1 /\ h[1] = q[1]
    BY <2>1
  <2> HIDE DEF h, t
  <2>3. /\ u \in Seq(AnyFrames) /\ Len(u) = Len(h) + Len(t)
        /\ \A k \in 1..Len(h) : u[k] = h[k]
        /\ \A j \in 1..Len(t) : u[Len(h) + j] = t[j]
    <3>1. h \in Seq(AnyFrames) /\ t \in Seq(AnyFrames)
      BY <2>1, <2>2
    <3> QED
      BY <3>1, QueueConcat
  <2> HIDE DEF u
  <2>5. \A k \in 1..Len(q) : u[k] = q[k]
    <3>1. ASSUME NEW k \in 1..Len(q)
          PROVE  u[k] = q[k]
      <4>1. CASE k = 1
        <5>1. 1 \in 1..Len(h)
          BY <2>2
        <5> QED
          BY <2>2, <2>3, <4>1, <5>1
      <4>2. CASE k - 1 \in 1..Len(t) /\ t[k - 1] = q[k]
        <5>1. u[1 + (k - 1)] = t[k - 1]
          BY <2>2, <2>3, <4>2
        <5>2. 1 + (k - 1) = k
          BY <2>1
        <5> QED
          BY <4>2, <5>1, <5>2
      <4> QED
        BY <2>1, <4>1, <4>2
    <3> QED
      BY <3>1
  <2>6. Len(u) = Len(q)
    BY <2>1, <2>2, <2>3
  <2>7. u = q
    BY <2>3, <2>5, <2>6, SeqEqual
  <2> QED
    BY <2>1, <2>2, <2>7 DEF h, t, u
<1>2. Carried(<<Head(q)>> \o Tail(q), kind, c) = Carried(<<Head(q)>>, kind, c) + Carried(Tail(q), kind, c)
  <2> DEFINE h == <<Head(q)>>
             t == Tail(q)
  <2>1. h \in Seq(AnyFrames) /\ t \in Seq(AnyFrames)
    BY <1>1
  <2> HIDE DEF h, t
  <2>2. Carried(h \o t, kind, c) = Carried(h, kind, c) + Carried(t, kind, c)
    BY <2>1, CarriedConcat
  <2> QED
    BY <2>2 DEF h, t
<1>3. Carried(<<Head(q)>>, kind, c) = Share(Head(q), kind, c)
  BY <1>1, CarriedOne DEF Share
<1> QED
  BY <1>1, <1>2, <1>3

LEMMA LastTail ==
  ASSUME NEW q \in Seq(AnyFrames), q # <<>>, NEW c, CloseLast(q, c)
  PROVE  /\ CloseLast(Tail(q), c)
         /\ Head(q).conn = c /\ Head(q).kind = "close" => ~Has(Tail(q), c, {"data"})
<1> DEFINE t == Tail(q)
<1>1. /\ \A k \in 1..Len(t) : k + 1 \in 1..Len(q) /\ t[k] = q[k + 1]
      /\ Head(q) = q[1] /\ 1 \in 1..Len(q)
  BY QueueTail
<1> HIDE DEF t
<1>2. ASSUME NEW j \in 1..Len(t), NEW k \in 1..Len(t), j < k, t[j].conn = c, t[j].kind = "close", t[k].conn = c
      PROVE  t[k].kind # "data"
  <2>1. j + 1 < k + 1
    BY <1>2
  <2> QED
    BY <1>1, <1>2, <2>1 DEF CloseLast
<1>3. ASSUME NEW k \in 1..Len(t), t[k].conn = c, Head(q).conn = c, Head(q).kind = "close"
      PROVE  t[k].kind # "data"
  <2>1. 1 < k + 1
    OBVIOUS
  <2> QED
    BY <1>1, <1>3, <2>1 DEF CloseLast
<1> QED
  BY <1>2, <1>3 DEF CloseLast, Has, t

LEMMA LastConcat ==
  ASSUME NEW q \in Seq(AnyFrames), NEW t \in Seq(AnyFrames), NEW c, CloseLast(q, c), CloseLast(t, c),
         Has(q, c, {"close"}) => ~Has(t, c, {"data"})
  PROVE  CloseLast(q \o t, c)
<1> DEFINE u == q \o t
           g == Len(q)
<1>1. /\ g \in Nat /\ Len(t) \in Nat
      /\ \A k \in 1..Len(u) : (k \in 1..g /\ u[k] = q[k]) \/ (k - g \in 1..Len(t) /\ u[k] = t[k - g])
  BY QueueConcat
<1> HIDE DEF u
<1>2. ASSUME NEW j \in 1..Len(u), NEW k \in 1..Len(u), j < k, u[j].conn = c, u[j].kind = "close", u[k].conn = c
      PROVE  u[k].kind # "data"
  <2>1. CASE k \in 1..g /\ u[k] = q[k]
    <3>1. j \in 1..g /\ u[j] = q[j]
      BY <1>1, <1>2, <2>1
    <3> QED
      BY <1>2, <2>1, <3>1 DEF CloseLast
  <2>2. CASE k - g \in 1..Len(t) /\ u[k] = t[k - g]
    <3>1. CASE j \in 1..g /\ u[j] = q[j]
      BY <1>2, <2>2, <3>1 DEF Has
    <3>2. CASE j - g \in 1..Len(t) /\ u[j] = t[j - g]
      <4>1. j - g < k - g
        BY <1>1, <1>2
      <4> QED
        BY <1>2, <2>2, <3>2, <4>1 DEF CloseLast
    <3> QED
      BY <1>1, <3>1, <3>2
  <2> QED
    BY <1>1, <2>1, <2>2
<1> QED
  BY <1>2 DEF CloseLast, u

LEMMA LastAppend ==
  ASSUME NEW q \in Seq(AnyFrames), NEW f \in AnyFrames, NEW c, CloseLast(q, c),
         f.conn = c /\ f.kind = "data" => ~Has(q, c, {"close"})
  PROVE  CloseLast(Append(q, f), c)
<1> DEFINE t == <<f>>
<1>1. Append(q, f) = q \o t /\ t \in Seq(AnyFrames) /\ Len(t) = 1 /\ t[1] = f
  OBVIOUS
<1> HIDE DEF t
<1>2. \A k \in 1..Len(t) : k = 1
  BY <1>1
<1>3. CloseLast(t, c)
  BY <1>2 DEF CloseLast
<1>4. Has(q, c, {"close"}) => ~Has(t, c, {"data"})
  BY <1>1, <1>2 DEF Has
<1> QED
  BY <1>1, <1>3, <1>4, LastConcat
-----------------------------------------------------------------------------
(* A step for another connection. *)

Aside(d) ==
  /\ handler'[d] = handler[d] /\ ungranted'[d] = ungranted[d] /\ chan'[d] = chan[d]
  /\ total'[d] = total[d] /\ delivered'[d] = delivered[d] /\ client'[d].eof = client[d].eof
  /\ Has(toHost', d, {"open"}) => Has(toHost, d, {"open"})
  /\ Carried(toHost', "window", d) = Carried(toHost, "window", d)
  /\ Carried(toGuest', "data", d) = Carried(toGuest, "data", d)
  /\ \A kinds : Has(toGuest', d, kinds) <=> Has(toGuest, d, kinds)
  /\ CloseLast(toGuest, d) => CloseLast(toGuest', d)
  /\ \A i \in Ids : Mine(i, d)' => Mine(i, d) /\ session'[i] = session[i]

LEMMA AsideKeeps ==
  ASSUME NEW d \in Conns, FlowOf(d), Aside(d)
  PROVE  FlowOf(d)'
<1> USE DEF FlowOf, Aside
<1>1. Fresh(d)'
  BY DEF Fresh
<1>2. Bytes(d)' = Bytes(d)
  BY DEF Bytes
<1>3. CreditOf(d)'
  BY <1>2 DEF CreditOf
<1>4. BytesOf(d)'
  BY <1>2 DEF BytesOf
<1>5. LastOf(d)'
  BY DEF LastOf
<1>6. ShutOf(d)'
  BY DEF ShutOf
<1> QED
  BY <1>1, <1>3, <1>4, <1>5, <1>6

LEMMA ToHostAside ==
  ASSUME TypeOK, NEW d,
         \/ toHost' = toHost
         \/ \E f \in Frames(GuestKinds) : f.conn # d /\ toHost' = Append(toHost, f)
         \/ toHost # <<>> /\ Head(toHost).conn # d /\ toHost' = Tail(toHost)
  PROVE  /\ Has(toHost', d, {"open"}) => Has(toHost, d, {"open"})
         /\ Carried(toHost', "window", d) = Carried(toHost, "window", d)
<1>0. /\ toHost \in Seq(AnyFrames) /\ toHost \in Seq(Frames(GuestKinds)) /\ Carried(toHost, "window", d) \in Nat
      /\ \A f \in Frames(GuestKinds) : f \in AnyFrames
  BY AnyQueue, UnitsFinite DEF TypeOK
<1>1. CASE toHost' = toHost
  BY <1>1
<1>2. ASSUME NEW f \in Frames(GuestKinds), f.conn # d, toHost' = Append(toHost, f)
      PROVE  /\ Has(toHost', d, {"open"}) => Has(toHost, d, {"open"})
             /\ Carried(toHost', "window", d) = Carried(toHost, "window", d)
  BY <1>0, <1>2, HasAppend, CarriedAppend DEF Share
<1>3. CASE toHost # <<>> /\ Head(toHost).conn # d /\ toHost' = Tail(toHost)
  <2>1. Tail(toHost) \in Seq(AnyFrames)
    BY <1>0, <1>3, QueueTail
  <2>2. Carried(Tail(toHost), "window", d) \in Nat
    BY <2>1, UnitsFinite
  <2>3. Has(toHost', d, {"open"}) => Has(toHost, d, {"open"})
    BY <1>0, <1>3, HasTail
  <2>4. Carried(toHost, "window", d) = 0 + Carried(Tail(toHost), "window", d)
    BY <1>0, <1>3, CarriedTail DEF Share
  <2> QED
    BY <1>3, <2>2, <2>3, <2>4
<1> QED
  BY <1>1, <1>2, <1>3

LEMMA ToGuestAside ==
  ASSUME TypeOK, NEW d,
         \/ toGuest' = toGuest
         \/ \E t \in Seq(Frames(HostKinds)) :
              toGuest' = toGuest \o t /\ \A k \in 1..Len(t) : t[k].conn # d
         \/ toGuest # <<>> /\ Head(toGuest).conn # d /\ toGuest' = Tail(toGuest)
  PROVE  /\ Carried(toGuest', "data", d) = Carried(toGuest, "data", d)
         /\ \A kinds : Has(toGuest', d, kinds) <=> Has(toGuest, d, kinds)
         /\ CloseLast(toGuest, d) => CloseLast(toGuest', d)
<1>0. /\ toGuest \in Seq(AnyFrames) /\ toGuest \in Seq(Frames(HostKinds)) /\ Carried(toGuest, "data", d) \in Nat
      /\ \A t \in Seq(Frames(HostKinds)) : t \in Seq(AnyFrames)
  BY AnyQueue, UnitsFinite DEF TypeOK
<1>1. CASE toGuest' = toGuest
  BY <1>1
<1>2. ASSUME NEW t \in Seq(Frames(HostKinds)), toGuest' = toGuest \o t, \A k \in 1..Len(t) : t[k].conn # d
      PROVE  /\ Carried(toGuest', "data", d) = Carried(toGuest, "data", d)
             /\ \A kinds : Has(toGuest', d, kinds) <=> Has(toGuest, d, kinds)
             /\ CloseLast(toGuest, d) => CloseLast(toGuest', d)
  <2>1. \A kinds : ~Has(t, d, kinds)
    BY <1>2 DEF Has
  <2>2. Carried(t, "data", d) = 0
    BY <1>0, <2>1, CarriedNone
  <2>3. Carried(toGuest', "data", d) = Carried(toGuest, "data", d) + Carried(t, "data", d)
    BY <1>0, <1>2, CarriedConcat
  <2>4. \A kinds : Has(toGuest', d, kinds) <=> Has(toGuest, d, kinds)
    BY <1>0, <1>2, <2>1, HasConcat
  <2>5. CloseLast(t, d)
    BY <1>2 DEF CloseLast
  <2>6. CloseLast(toGuest, d) => CloseLast(toGuest', d)
    BY <1>0, <1>2, <2>1, <2>5, LastConcat
  <2> QED
    BY <1>0, <2>2, <2>3, <2>4, <2>6
<1>3. CASE toGuest # <<>> /\ Head(toGuest).conn # d /\ toGuest' = Tail(toGuest)
  <2>1. Tail(toGuest) \in Seq(AnyFrames) /\ Head(toGuest) = toGuest[1]
    BY <1>0, <1>3, QueueTail
  <2>2. Carried(Tail(toGuest), "data", d) \in Nat
    BY <2>1, UnitsFinite
  <2>3. \A kinds : Has(toGuest', d, kinds) <=> Has(toGuest, d, kinds)
    BY <1>0, <1>3, <2>1, HasTail
  <2>4. Carried(toGuest, "data", d) = 0 + Carried(Tail(toGuest), "data", d)
    BY <1>0, <1>3, CarriedTail DEF Share
  <2>5. CloseLast(toGuest, d) => CloseLast(toGuest', d)
    BY <1>0, <1>3, LastTail
  <2> QED
    BY <1>3, <2>2, <2>3, <2>4, <2>5
<1> QED
  BY <1>1, <1>2, <1>3
-----------------------------------------------------------------------------
(* A step of a handler or an up thread, for its own connection. *)

\* It leaves the host alone, and what leaves the channel is delivered, what is
\* delivered is owed, and what is no longer owed has been granted.
OwnStep(c) ==
  /\ UNCHANGED <<session, toGuest, total>>
  /\ Has(toHost', c, {"open"}) => Has(toHost, c, {"open"}) \/ handler[c] = "open"
  /\ handler'[c] \in Unborn \cup {"open", "verdict"} =>
       /\ handler[c] \in Unborn \cup {"open", "verdict"}
       /\ ungranted'[c] = ungranted[c]
  /\ handler'[c] \in Unborn \cup {"open"} => handler[c] \in Unborn \cup {"open"}
  /\ handler'[c] \in Unborn \cup {"open"} \/ Has(toHost', c, {"open"}) => delivered'[c] = delivered[c]
  /\ handler'[c] \in Relaying =>
       \/ Nothing(c) /\ chan'[c] = <<>>
       \/ /\ handler[c] \in Relaying
          /\ ungranted'[c] + Carried(toHost', "window", c) + Carried(chan'[c], "data", c) =
               ungranted[c] + Carried(toHost, "window", c) + Carried(chan[c], "data", c)
          /\ delivered'[c] + Carried(chan'[c], "data", c) = delivered[c] + Carried(chan[c], "data", c)
          /\ Has(chan'[c], c, {"close"}) => Has(chan[c], c, {"close"})
  /\ CloseLast(chan'[c], c) /\ (Has(chan'[c], c, {"close"}) => Has(chan[c], c, {"close"}))
  /\ client'[c].eof =>
       /\ handler'[c] \in {"shut", "join", "remove", "done"}
       /\ handler'[c] = "shut" =>
            delivered'[c] = total[c] /\ \A i \in Ids : Mine(i, c) => session[i].eof

\* The numbers are numbers.
Numbers(c) ==
  /\ ungranted[c] \in Nat /\ delivered[c] \in Nat /\ total[c] \in Nat
  /\ Carried(toHost, "window", c) \in Nat /\ Carried(toGuest, "data", c) \in Nat
  /\ Carried(chan[c], "data", c) \in Nat
  /\ \A i \in Ids : session[i] # None => session[i].credit \in Nat /\ session[i].buf \in Nat

LEMMA NumbersOf ==
  ASSUME TypeOK, NEW c \in Conns
  PROVE  Numbers(c)
<1>1. /\ toHost \in Seq(AnyFrames) /\ toGuest \in Seq(AnyFrames) /\ chan[c] \in Seq(AnyFrames)
  BY AnyQueue DEF TypeOK
<1>2. /\ Carried(toHost, "window", c) \in Nat /\ Carried(toGuest, "data", c) \in Nat
      /\ Carried(chan[c], "data", c) \in Nat
  BY <1>1, UnitsFinite
<1>3. total[c] \in 0..MaxBytes
  BY DEF TypeOK
<1>4. ungranted[c] \in Nat /\ delivered[c] \in Nat /\ total[c] \in Nat
  BY <1>3, ForwarderBounds DEF TypeOK, ForwarderBounds
<1>5. \A i \in Ids : session[i] # None => session[i] \in Sessions
  BY DEF TypeOK
<1>6. \A i \in Ids : session[i] # None => session[i].credit \in Nat /\ session[i].buf \in Nat
  BY <1>5 DEF Sessions
<1> QED
  BY <1>2, <1>4, <1>6 DEF Numbers

LEMMA NumbersNext ==
  ASSUME TypeOK', NEW c \in Conns
  PROVE  Numbers(c)'
<1>1. /\ toHost' \in Seq(AnyFrames) /\ toGuest' \in Seq(AnyFrames) /\ chan'[c] \in Seq(AnyFrames)
  BY AnyQueue DEF TypeOK
<1>2. /\ Carried(toHost', "window", c) \in Nat /\ Carried(toGuest', "data", c) \in Nat
      /\ Carried(chan'[c], "data", c) \in Nat
  BY <1>1, UnitsFinite
<1>3. total'[c] \in 0..MaxBytes
  BY DEF TypeOK
<1>4. ungranted'[c] \in Nat /\ delivered'[c] \in Nat /\ total'[c] \in Nat
  BY <1>3, ForwarderBounds DEF TypeOK, ForwarderBounds
<1>5. \A i \in Ids : session'[i] # None => session'[i] \in Sessions
  BY DEF TypeOK
<1>6. \A i \in Ids : session'[i] # None => session'[i].credit \in Nat /\ session'[i].buf \in Nat
  BY <1>5 DEF Sessions
<1> QED
  BY <1>2, <1>4, <1>6 DEF Numbers

LEMMA OwnStepKeeps ==
  ASSUME NEW c \in Conns, FlowOf(c), OwnStep(c), Numbers(c), Numbers(c)'
  PROVE  FlowOf(c)'
<1> USE DEF FlowOf
<1>1. session' = session /\ toGuest' = toGuest /\ total' = total
  BY DEF OwnStep
<1>2. \A i \in Ids : Mine(i, c)' <=> Mine(i, c)
  BY <1>1 DEF Mine
<1>3. Fresh(c)'
  BY <1>1 DEF Fresh, OwnStep
<1>4. ASSUME Nothing(c), chan'[c] = <<>>
      PROVE  CreditOf(c)' /\ BytesOf(c)'
  <2>1. \A i \in Ids : ~Mine(i, c)
    BY <1>4 DEF Nothing
  <2>2. ~Has(chan'[c], c, {"close"}) /\ ~Has(toGuest', c, {"close"})
    BY <1>1, <1>4 DEF Nothing, Has, HostKinds
  <2> QED
    BY <1>2, <2>1, <2>2 DEF CreditOf, BytesOf
<1>5. CreditOf(c)'
  <2>1. ASSUME NEW i \in Ids, Mine(i, c), handler'[c] \in Relaying, ~(Nothing(c) /\ chan'[c] = <<>>)
        PROVE  session[i].credit + (Carried(toGuest, "data", c) + Carried(chan'[c], "data", c))
                 + ungranted'[c] + Carried(toHost', "window", c) = Window
    <3>1. /\ handler[c] \in Relaying
          /\ ungranted'[c] + Carried(toHost', "window", c) + Carried(chan'[c], "data", c) =
               ungranted[c] + Carried(toHost, "window", c) + Carried(chan[c], "data", c)
      BY <2>1 DEF OwnStep
    <3>2. session[i].credit + (Carried(toGuest, "data", c) + Carried(chan[c], "data", c))
            + ungranted[c] + Carried(toHost, "window", c) = Window
      BY <2>1, <3>1 DEF CreditOf, Bytes
    <3>3. session[i].credit \in Nat
      BY <2>1 DEF Numbers, Mine
    <3> QED
      BY <1>1, <3>1, <3>2, <3>3 DEF Numbers
  <2> QED
    BY <1>1, <1>2, <1>4, <2>1 DEF CreditOf, Bytes, OwnStep
<1>6. BytesOf(c)'
  <2>1. ASSUME handler'[c] \in Relaying, ~(Nothing(c) /\ chan'[c] = <<>>), NEW i \in Ids, Mine(i, c)
        PROVE  total[c] = delivered'[c] + (Carried(toGuest, "data", c) + Carried(chan'[c], "data", c)) + session[i].buf
    <3>1. /\ handler[c] \in Relaying
          /\ delivered'[c] + Carried(chan'[c], "data", c) = delivered[c] + Carried(chan[c], "data", c)
      BY <2>1 DEF OwnStep
    <3>2. total[c] = delivered[c] + (Carried(toGuest, "data", c) + Carried(chan[c], "data", c)) + session[i].buf
      BY <2>1, <3>1 DEF BytesOf, Bytes
    <3>3. session[i].buf \in Nat
      BY <2>1 DEF Numbers, Mine
    <3> QED
      BY <3>1, <3>2, <3>3 DEF Numbers
  <2>2. ASSUME handler'[c] \in Relaying, ~(Nothing(c) /\ chan'[c] = <<>>), Has(chan'[c], c, {"close"}) \/ Has(toGuest, c, {"close"})
        PROVE  total[c] = delivered'[c] + (Carried(toGuest, "data", c) + Carried(chan'[c], "data", c))
    <3>1. /\ handler[c] \in Relaying
          /\ delivered'[c] + Carried(chan'[c], "data", c) = delivered[c] + Carried(chan[c], "data", c)
          /\ Has(chan[c], c, {"close"}) \/ Has(toGuest, c, {"close"})
      BY <2>2 DEF OwnStep
    <3>2. total[c] = delivered[c] + (Carried(toGuest, "data", c) + Carried(chan[c], "data", c))
      BY <3>1 DEF BytesOf, Bytes
    <3> QED
      BY <3>1, <3>2 DEF Numbers
  <2> QED
    BY <1>1, <1>2, <1>4, <2>1, <2>2 DEF BytesOf, Bytes, OwnStep
<1>7. LastOf(c)'
  BY <1>1 DEF LastOf, OwnStep
<1>8. ShutOf(c)'
  BY <1>1, <1>2 DEF ShutOf, OwnStep
<1> QED
  BY <1>3, <1>5, <1>6, <1>7, <1>8

LEMMA GuestAside ==
  ASSUME TypeOK, NEW d \in Conns, UNCHANGED <<session, toGuest, total>>,
         handler'[d] = handler[d], ungranted'[d] = ungranted[d], chan'[d] = chan[d],
         delivered'[d] = delivered[d], client'[d] = client[d],
         \/ toHost' = toHost
         \/ \E f \in Frames(GuestKinds) : f.conn # d /\ toHost' = Append(toHost, f)
  PROVE  Aside(d)
<1>1. /\ Has(toHost', d, {"open"}) => Has(toHost, d, {"open"})
      /\ Carried(toHost', "window", d) = Carried(toHost, "window", d)
  BY ToHostAside
<1> QED
  BY <1>1 DEF Aside, Mine

\* The message a handler takes.
LEMMA Popped ==
  ASSUME StreamInv, NEW c \in Conns, FlowOf(c), NEW kinds, Receives(c, kinds)
  PROVE  LET m == Head(chan[c]) IN
           /\ m.kind \in kinds /\ m.n \in Nat
           /\ Carried(chan[c], "data", c) =
                (IF m.kind = "data" THEN m.n ELSE 0) + Carried(chan'[c], "data", c)
           /\ Has(chan'[c], c, {"close"}) => Has(chan[c], c, {"close"})
           /\ CloseLast(chan'[c], c)
           /\ m.kind = "close" =>
                /\ Has(chan[c], c, {"close"})
                /\ Carried(chan'[c], "data", c) = 0 /\ Carried(toGuest, "data", c) = 0
<1> DEFINE m == Head(chan[c])
           t == Tail(chan[c])
<1>1. chan[c] \in Seq(Frames(HostKinds)) /\ chan[c] # <<>> /\ chan'[c] = t /\ m.kind \in kinds
  BY DEF StreamInv, TypeOK, Receives
<1>2. /\ chan[c] \in Seq(AnyFrames) /\ t \in Seq(AnyFrames) /\ toGuest \in Seq(AnyFrames)
      /\ m = chan[c][1] /\ m \in Frames(HostKinds) /\ 1 \in 1..Len(chan[c])
  <2>1. t \in Seq(Frames(HostKinds)) /\ m = chan[c][1] /\ m \in Frames(HostKinds) /\ 1 \in 1..Len(chan[c])
    BY <1>1, QueueTail
  <2> QED
    BY <1>1, <2>1, AnyQueue DEF StreamInv, TypeOK
<1>3. m.conn = c /\ m.n \in Nat
  BY <1>2 DEF StreamInv, Core, Addressed, Frames
<1>4. Carried(chan[c], "data", c) = Share(m, "data", c) + Carried(t, "data", c)
  BY <1>1, <1>2, CarriedTail
<1>5. Share(m, "data", c) = IF m.kind = "data" THEN m.n ELSE 0
  BY <1>3 DEF Share
<1>6. Has(t, c, {"close"}) => Has(chan[c], c, {"close"})
  BY <1>1, HasTail
<1>7. CloseLast(t, c) /\ (m.kind = "close" => ~Has(t, c, {"data"}))
  BY <1>1, <1>2, <1>3, LastTail DEF FlowOf, LastOf
<1>8. ASSUME m.kind = "close"
      PROVE  /\ Has(chan[c], c, {"close"})
             /\ Carried(t, "data", c) = 0 /\ Carried(toGuest, "data", c) = 0
  <2>1. Has(chan[c], c, {"close"})
    BY <1>2, <1>3, <1>8 DEF Has
  <2>2. ~Has(toGuest, c, {"data"})
    BY <2>1 DEF FlowOf, LastOf
  <2>3. Carried(t, "data", c) = 0
    BY <1>2, <1>7, <1>8, CarriedNone
  <2>4. Carried(toGuest, "data", c) = 0
    BY <1>2, <2>2, CarriedNone
  <2> QED
    BY <2>1, <2>3, <2>4
<1> QED
  BY <1>1, <1>3, <1>4, <1>5, <1>6, <1>7, <1>8

\* The frame a thread sends.
LEMMA SentShare ==
  ASSUME StreamInv, NEW c \in Conns, sid[c] \in Ids, NEW kind \in GuestKinds, NEW n \in Nat, Send(c, kind, n)
  PROVE  /\ Carried(toHost', "window", c) = Carried(toHost, "window", c) + (IF kind = "window" THEN n ELSE 0)
         /\ Has(toHost', c, {"open"}) => Has(toHost, c, {"open"}) \/ kind = "open"
         /\ \E f \in Frames(GuestKinds) : f.conn = c /\ toHost' = Append(toHost, f)
<1> DEFINE f == Frame(kind, c, n)
<1>1. f \in Frames(GuestKinds) /\ f.conn = c /\ f.kind = kind /\ f.n = n /\ toHost' = Append(toHost, f)
  BY DEF Frame, Frames, Send
<1>2. toHost \in Seq(Frames(GuestKinds)) /\ toHost \in Seq(AnyFrames) /\ f \in AnyFrames
  BY <1>1, AnyQueue DEF StreamInv, TypeOK
<1> HIDE DEF f
<1>3. Carried(toHost', "window", c) = Carried(toHost, "window", c) + Share(f, "window", c)
  BY <1>1, <1>2, CarriedAppend
<1>4. Has(toHost', c, {"open"}) => Has(toHost, c, {"open"}) \/ kind = "open"
  BY <1>1, <1>2, HasAppend
<1> QED
  BY <1>1, <1>3, <1>4 DEF Share

LEMMA EofKept ==
  ASSUME NEW k \in Clients
  PROVE  /\ [k EXCEPT !.full = TRUE].eof = k.eof /\ [k EXCEPT !.full = FALSE].eof = k.eof
         /\ [k EXCEPT !.unread = FALSE].eof = k.eof /\ [k EXCEPT !.fin = TRUE].eof = k.eof
         /\ [k EXCEPT !.reset = TRUE].eof = k.eof
         /\ [k EXCEPT !.sent = @ + 1, !.unread = TRUE].eof = k.eof
  BY DEF Clients

\* What a step of connection c leaves of another one.
LEMMA GuestOthers ==
  ASSUME StreamInv, NEW c \in Conns, Negotiates(c) \/ Handler(c) \/ Up(c), NEW d \in Conns, d # c
  PROVE  Aside(d)
<1> USE DEF HandlerAt, HandlerGoes, hostVars, otherThanDown, otherThanUp, UpGoes, ClientBecomes, Receives
<1>0. TypeOK
  BY DEF StreamInv
<1>1. UNCHANGED <<session, toGuest, total>>
  <2>1. CASE Negotiates(c)
    BY <2>1 DEF Negotiates
  <2>2. CASE Handler(c)
    BY <2>2 DEF Handler, Registers, SendsOpen, GetsVerdict, DownDelivers, DownGrants, DownWriteFails,
                DownCloses, DownIsReset, SendsRst, ShutsDown, Joins, Removes
  <2>3. CASE Up(c)
    BY <2>3 DEF Up, UpReads, UpSendsData, UpSeesEof, UpSendsClose, UpReadFails, UpSendsRst
  <2> QED
    BY <2>1, <2>2, <2>3
<1>2. /\ handler'[d] = handler[d] /\ ungranted'[d] = ungranted[d] /\ chan'[d] = chan[d]
      /\ delivered'[d] = delivered[d] /\ client'[d] = client[d]
  <2>1. CASE Negotiates(c) \/ Registers(c) \/ SendsOpen(c) \/ GetsVerdict(c)
    BY <1>0, <2>1 DEF Negotiates, Registers, SendsOpen, GetsVerdict, TypeOK
  <2>2. CASE DownDelivers(c)
    BY <1>0, <2>2 DEF DownDelivers, TypeOK
  <2>3. CASE DownGrants(c) \/ DownWriteFails(c) \/ DownCloses(c) \/ DownIsReset(c)
    BY <1>0, <2>3 DEF DownGrants, DownWriteFails, DownCloses, DownIsReset, TypeOK
  <2>4. CASE SendsRst(c) \/ ShutsDown(c) \/ Joins(c) \/ Removes(c)
    BY <1>0, <2>4 DEF SendsRst, ShutsDown, Joins, Removes, TypeOK
  <2>5. CASE Up(c)
    BY <1>0, <2>5 DEF Up, UpReads, UpSendsData, UpSeesEof, UpSendsClose, UpReadFails, UpSendsRst, TypeOK
  <2> QED
    BY <2>1, <2>2, <2>3, <2>4, <2>5 DEF Handler
<1>3. toHost' = toHost \/ \E f \in Frames(GuestKinds) : f.conn # d /\ toHost' = Append(toHost, f)
  <2>1. ASSUME sid[c] \in Ids, NEW kind \in GuestKinds, NEW n \in Nat, Send(c, kind, n)
        PROVE  \E f \in Frames(GuestKinds) : f.conn # d /\ toHost' = Append(toHost, f)
    BY <2>1, SentShare
  <2>2. CASE SendsOpen(c)
    <3>1. sid[c] \in Ids
      BY <2>2, HolderHasId DEF SendsOpen, Holding, HandlerPcs
    <3> QED
      BY <2>1, <2>2, <3>1 DEF SendsOpen, GuestKinds
  <2>3. CASE DownGrants(c)
    <3>1. sid[c] \in Ids
      BY <2>3, HolderHasId DEF DownGrants, Holding, HandlerPcs
    <3>2. ungranted[c] \in Nat
      BY <1>0 DEF TypeOK
    <3> QED
      BY <2>1, <2>3, <3>1, <3>2 DEF DownGrants, GuestKinds, Credit
  <2>4. CASE SendsRst(c)
    <3>1. sid[c] \in Ids
      BY <2>4, HolderHasId DEF SendsRst, Holding, HandlerPcs
    <3> QED
      BY <2>1, <2>4, <3>1 DEF SendsRst, GuestKinds
  <2>5. CASE UpSendsData(c) \/ UpSendsClose(c) \/ UpSendsRst(c)
    <3>1. sid[c] \in Ids
      BY <2>5, HolderHasId DEF UpSendsData, UpSendsClose, UpSendsRst
    <3> QED
      BY <2>1, <2>5, <3>1 DEF UpSendsData, UpSendsClose, UpSendsRst, GuestKinds
  <2>6. CASE Negotiates(c) \/ Registers(c) \/ GetsVerdict(c) \/ DownDelivers(c) \/ DownWriteFails(c)
             \/ DownCloses(c) \/ DownIsReset(c) \/ ShutsDown(c) \/ Joins(c) \/ Removes(c)
    BY <2>6 DEF Negotiates, Registers, GetsVerdict, DownDelivers, DownWriteFails, DownCloses,
                DownIsReset, ShutsDown, Joins, Removes
  <2>7. CASE UpReads(c) \/ UpSeesEof(c) \/ UpReadFails(c)
    BY <2>7 DEF UpReads, UpSeesEof, UpReadFails
  <2> QED
    BY <2>2, <2>3, <2>4, <2>5, <2>6, <2>7 DEF Handler, Up
<1> QED
  BY <1>0, <1>1, <1>2, <1>3, GuestAside

\* A handler before the shutdown has not ended the client's side.
LEMMA NotShut ==
  ASSUME NEW c \in Conns, FlowOf(c), handler[c] \notin {"shut", "join", "remove", "done"}
  PROVE  ~client[c].eof
  BY DEF FlowOf, ShutOf

LEMMA EarlyOwn ==
  ASSUME StreamInv, NEW c \in Conns, FlowOf(c), Negotiates(c) \/ Registers(c) \/ SendsOpen(c)
  PROVE  OwnStep(c)
<1> USE DEF HandlerAt, HandlerGoes, hostVars
<1>0. TypeOK /\ handler[c] \in {"negotiate", "register", "open"}
  BY DEF StreamInv, Negotiates, Registers, SendsOpen
<1>1. Nothing(c) /\ chan[c] = <<>> /\ ~client[c].eof
  BY <1>0, NotShut DEF StreamInv, Core, Silent, Nothing, Unborn
<1>2. /\ UNCHANGED <<session, toGuest, total, ungranted, chan, delivered, client>>
      /\ handler'[c] \in {"register", "open", "verdict", "done"}
  BY <1>0 DEF Negotiates, Registers, SendsOpen, TypeOK, Socks5Target, SocksError
<1>3. /\ Has(toHost', c, {"open"}) => Has(toHost, c, {"open"}) \/ handler[c] = "open"
      /\ handler'[c] \in Unborn \cup {"open"} => handler[c] \in Unborn
  <2>1. CASE Negotiates(c) \/ Registers(c)
    BY <1>0, <2>1 DEF Negotiates, Registers, Unborn
  <2>2. CASE SendsOpen(c)
    BY <1>0, <2>2 DEF SendsOpen, Unborn, TypeOK
  <2> QED
    BY <2>1, <2>2
<1>4. handler'[c] \in Unborn \cup {"open", "verdict"} => handler[c] \in Unborn \cup {"open", "verdict"}
  BY <1>0 DEF Unborn
<1>5. CloseLast(chan'[c], c)
  BY <1>2 DEF FlowOf, LastOf
<1> QED
  BY <1>0, <1>1, <1>2, <1>3, <1>4, <1>5 DEF OwnStep

LEMMA VerdictOwn ==
  ASSUME StreamInv, NEW c \in Conns, FlowOf(c), Numbers(c), Numbers(c)', GetsVerdict(c)
  PROVE  OwnStep(c)
<1> USE DEF HandlerAt, HandlerGoes, hostVars
<1>0. TypeOK /\ handler[c] = "verdict" /\ ~client[c].eof
  BY NotShut DEF StreamInv, GetsVerdict
<1>1. /\ UNCHANGED <<session, toGuest, total, toHost, ungranted, delivered, client>>
      /\ handler'[c] \in {"relay", "reset", "remove"}
  BY <1>0 DEF GetsVerdict, TypeOK
<1>2. PICK kinds : Receives(c, kinds)
  BY DEF GetsVerdict
<1>3. Head(chan[c]).kind # "data"
  BY <1>0, <1>2, MessageTaken
<1>4. /\ Carried(chan[c], "data", c) = 0 + Carried(chan'[c], "data", c)
      /\ Has(chan'[c], c, {"close"}) => Has(chan[c], c, {"close"})
      /\ CloseLast(chan'[c], c)
  BY <1>2, <1>3, Popped
<1>5. Carried(chan[c], "data", c) = Carried(chan'[c], "data", c)
  BY <1>4 DEF Numbers
<1> QED
  BY <1>0, <1>1, <1>4, <1>5 DEF OwnStep, Unborn, Relaying

LEMMA DeliversOwn ==
  ASSUME StreamInv, NEW c \in Conns, FlowOf(c), Numbers(c), Numbers(c)', DownDelivers(c)
  PROVE  OwnStep(c)
<1> USE DEF HandlerAt, HandlerGoes, hostVars, otherThanDown
<1> DEFINE m == Head(chan[c])
<1>0. TypeOK /\ handler[c] = "relay" /\ ~client[c].eof /\ client[c] \in Clients
  BY NotShut DEF StreamInv, DownDelivers, TypeOK
<1>1. /\ UNCHANGED <<session, toGuest, total, toHost>>
      /\ handler'[c] \in {"relay", "grant"}
      /\ ungranted'[c] = ungranted[c] + m.n /\ delivered'[c] = delivered[c] + m.n
  BY <1>0 DEF DownDelivers, TypeOK
<1>2. client'[c].eof = client[c].eof
  <2>1. client'[c] = [client[c] EXCEPT !.full = TRUE]
    BY <1>0 DEF DownDelivers, ClientBecomes, TypeOK
  <2> QED
    BY <1>0, <2>1, EofKept
<1>3. Receives(c, {"data"})
  BY DEF DownDelivers
<1>4. /\ m.kind = "data" /\ m.n \in Nat
      /\ Has(chan'[c], c, {"close"}) => Has(chan[c], c, {"close"})
      /\ CloseLast(chan'[c], c)
  BY <1>3, Popped
<1>5. Carried(chan[c], "data", c) = m.n + Carried(chan'[c], "data", c)
  BY <1>3, <1>4, Popped
<1> HIDE DEF m
<1>6. /\ ungranted'[c] + Carried(toHost', "window", c) + Carried(chan'[c], "data", c) =
           ungranted[c] + Carried(toHost, "window", c) + Carried(chan[c], "data", c)
      /\ delivered'[c] + Carried(chan'[c], "data", c) = delivered[c] + Carried(chan[c], "data", c)
  BY <1>1, <1>4, <1>5 DEF Numbers
<1>7. Has(toHost', c, {"open"}) => delivered'[c] = delivered[c]
  <2>1. ~Has(toHost, c, {"open"})
    BY <1>0 DEF StreamInv, Core, Opens, Has
  <2> QED
    BY <1>1, <2>1
<1> QED
  BY <1>0, <1>1, <1>2, <1>4, <1>6, <1>7 DEF OwnStep, Unborn, Relaying

LEMMA GrantsOwn ==
  ASSUME StreamInv, NEW c \in Conns, FlowOf(c), Numbers(c), Numbers(c)', DownGrants(c)
  PROVE  OwnStep(c)
<1> USE DEF HandlerAt, HandlerGoes, hostVars, otherThanDown
<1>0. TypeOK /\ handler[c] = "grant" /\ ~client[c].eof
  BY NotShut DEF StreamInv, DownGrants
<1>1. /\ UNCHANGED <<session, toGuest, total, chan, client, delivered>>
      /\ handler'[c] = "relay" /\ ungranted'[c] = 0
  BY <1>0 DEF DownGrants, TypeOK
<1>2. sid[c] \in Ids
  BY <1>0, HolderHasId DEF Holding, HandlerPcs
<1>3. Send(c, "window", ungranted[c]) /\ ungranted[c] \in Nat
  BY DEF DownGrants, Credit, Numbers
<1>4. /\ Carried(toHost', "window", c) = Carried(toHost, "window", c) + ungranted[c]
      /\ Has(toHost', c, {"open"}) => Has(toHost, c, {"open"})
  BY <1>2, <1>3, SentShare DEF GuestKinds
<1>5. ungranted'[c] + Carried(toHost', "window", c) + Carried(chan'[c], "data", c) =
        ungranted[c] + Carried(toHost, "window", c) + Carried(chan[c], "data", c)
  BY <1>1, <1>4 DEF Numbers
<1>6. CloseLast(chan'[c], c)
  BY <1>1 DEF FlowOf, LastOf
<1> QED
  BY <1>0, <1>1, <1>4, <1>5, <1>6 DEF OwnStep, Unborn, Relaying

\* The steps that leave the relay, and those after it.
LEMMA EndingOwn ==
  ASSUME StreamInv, NEW c \in Conns, FlowOf(c), Numbers(c), Numbers(c)',
         \/ DownWriteFails(c) \/ DownCloses(c) \/ DownIsReset(c)
         \/ SendsRst(c) \/ ShutsDown(c) \/ Joins(c) \/ Removes(c)
  PROVE  OwnStep(c)
<1> USE DEF HandlerAt, HandlerGoes, hostVars, otherThanDown
<1>0. TypeOK
  BY DEF StreamInv
<1>1. /\ UNCHANGED <<session, toGuest, total>>
      /\ handler'[c] \in {"reset", "shut", "join", "remove", "done"}
  BY <1>0 DEF DownWriteFails, DownCloses, DownIsReset, SendsRst, ShutsDown, Joins, Removes, TypeOK
<1>2. delivered' = delivered
  BY DEF DownWriteFails, DownCloses, DownIsReset, SendsRst, ShutsDown, Joins, Removes
<1>3. Has(toHost', c, {"open"}) => Has(toHost, c, {"open"})
  <2>1. CASE SendsRst(c)
    <3>1. sid[c] \in Ids /\ Send(c, "rst", 0)
      BY <2>1, HolderHasId DEF SendsRst, Holding, HandlerPcs
    <3> QED
      BY <3>1, SentShare DEF GuestKinds
  <2>2. CASE ~SendsRst(c)
    BY <2>2 DEF DownWriteFails, DownCloses, DownIsReset, ShutsDown, Joins, Removes
  <2> QED
    BY <2>1, <2>2
<1>4. CloseLast(chan'[c], c) /\ (Has(chan'[c], c, {"close"}) => Has(chan[c], c, {"close"}))
  <2>1. CASE DownWriteFails(c) \/ DownCloses(c) \/ DownIsReset(c)
    <3>1. PICK kinds : Receives(c, kinds)
      BY <2>1 DEF DownWriteFails, DownCloses, DownIsReset
    <3> QED
      BY <3>1, Popped
  <2>2. CASE SendsRst(c) \/ ShutsDown(c) \/ Joins(c)
    BY <2>2 DEF SendsRst, ShutsDown, Joins, FlowOf, LastOf
  <2>3. CASE Removes(c)
    <3>1. chan'[c] = <<>> /\ Len(<<>>) = 0
      BY <1>0, <2>3 DEF Removes, TypeOK
    <3> QED
      BY <3>1 DEF CloseLast, Has
  <2> QED
    BY <2>1, <2>2, <2>3
<1>5. ASSUME client'[c].eof
      PROVE  /\ handler'[c] # "reset"
             /\ handler'[c] = "shut" => delivered'[c] = total[c] /\ \A i \in Ids : Mine(i, c) => session[i].eof
  <2>1. CASE DownWriteFails(c) \/ DownIsReset(c) \/ SendsRst(c)
    <3>1. client' = client /\ handler[c] \notin {"shut", "join", "remove", "done"}
      BY <2>1 DEF DownWriteFails, DownIsReset, SendsRst
    <3> QED
      BY <1>5, <3>1, NotShut
  <2>2. CASE DownCloses(c)
    <3>1. Receives(c, {"close"}) /\ handler[c] = "relay" /\ handler'[c] = "shut"
      BY <1>0, <2>2 DEF DownCloses, TypeOK
    <3>2. /\ Head(chan[c]).kind = "close"
          /\ \A i \in Ids : Mine(i, c) => session[i].eof
      BY <3>1, MessageTaken
    <3>3. Has(chan[c], c, {"close"}) /\ Carried(toGuest, "data", c) = 0 /\ Carried(chan'[c], "data", c) = 0
      BY <3>1, <3>2, Popped
    <3>4. Carried(chan[c], "data", c) = 0 + Carried(chan'[c], "data", c)
      BY <3>1, <3>2, Popped
    <3>5. total[c] = delivered[c] + (Carried(toGuest, "data", c) + Carried(chan[c], "data", c))
      BY <3>1, <3>3 DEF FlowOf, BytesOf, Bytes, Relaying
    <3>6. total[c] = delivered[c]
      BY <3>3, <3>4, <3>5 DEF Numbers
    <3> QED
      BY <1>2, <3>1, <3>2, <3>6
  <2>3. CASE ShutsDown(c) \/ Joins(c) \/ Removes(c)
    BY <1>0, <2>3 DEF ShutsDown, Joins, Removes, TypeOK
  <2> QED
    BY <2>1, <2>2, <2>3
<1> QED
  BY <1>1, <1>2, <1>3, <1>4, <1>5 DEF OwnStep, Unborn, Relaying

LEMMA UpOwn ==
  ASSUME StreamInv, NEW c \in Conns, FlowOf(c), Numbers(c), Numbers(c)', Up(c)
  PROVE  OwnStep(c)
<1> USE DEF UpGoes, hostVars, otherThanUp
<1>0. TypeOK /\ client[c] \in Clients /\ up[c] \in {"read", "send", "close", "rst"}
  BY DEF StreamInv, TypeOK, Up, UpReads, UpSendsData, UpSeesEof, UpSendsClose, UpReadFails, UpSendsRst
<1>1. UNCHANGED <<session, toGuest, total, handler, chan, ungranted, delivered>>
  BY DEF Up, UpReads, UpSendsData, UpSeesEof, UpSendsClose, UpReadFails, UpSendsRst
<1>2. client'[c].eof = client[c].eof
  <2>1. CASE UpReads(c)
    <3>1. client'[c] = [client[c] EXCEPT !.unread = FALSE]
      BY <1>0, <2>1 DEF UpReads, ClientBecomes, TypeOK
    <3> QED
      BY <1>0, <3>1, EofKept
  <2>2. CASE client' = client
    BY <2>2
  <2> QED
    BY <2>1, <2>2 DEF Up, UpSendsData, UpSeesEof, UpSendsClose, UpReadFails, UpSendsRst
<1>3. sid[c] \in Ids
  BY <1>0, HolderHasId
<1>4. /\ Carried(toHost', "window", c) = Carried(toHost, "window", c)
      /\ Has(toHost', c, {"open"}) => Has(toHost, c, {"open"})
  <2>1. ASSUME NEW kind \in {"data", "close", "rst"}, NEW n \in Nat, Send(c, kind, n)
        PROVE  /\ Carried(toHost', "window", c) = Carried(toHost, "window", c)
               /\ Has(toHost', c, {"open"}) => Has(toHost, c, {"open"})
    <3>1. kind \in GuestKinds
      BY DEF GuestKinds
    <3>2. /\ Carried(toHost', "window", c) = Carried(toHost, "window", c) + 0
          /\ Has(toHost', c, {"open"}) => Has(toHost, c, {"open"})
      BY <1>3, <2>1, <3>1, SentShare
    <3> QED
      BY <3>2 DEF Numbers
  <2>2. CASE toHost' = toHost
    BY <2>2
  <2> QED
    BY <2>1, <2>2 DEF Up, UpReads, UpSendsData, UpSeesEof, UpSendsClose, UpReadFails, UpSendsRst
<1>5. CloseLast(chan'[c], c)
  BY <1>1 DEF FlowOf, LastOf
<1>6. client[c].eof =>
        /\ handler[c] \in {"shut", "join", "remove", "done"}
        /\ handler[c] = "shut" => delivered[c] = total[c] /\ \A i \in Ids : Mine(i, c) => session[i].eof
  BY DEF FlowOf, ShutOf
<1> QED
  BY <1>1, <1>2, <1>4, <1>5, <1>6 DEF OwnStep

LEMMA GuestFlow ==
  ASSUME StreamInv, TypeOK', FlowInv, NEW c \in Conns, Negotiates(c) \/ Handler(c) \/ Up(c)
  PROVE  FlowInv'
<1>1. ASSUME NEW d \in Conns
      PROVE  FlowOf(d)'
  <2>1. FlowOf(d)
    BY DEF FlowInv
  <2>2. CASE d # c
    BY <2>1, <2>2, GuestOthers, AsideKeeps
  <2>3. CASE d = c
    <3>1. Numbers(c) /\ Numbers(c)' /\ FlowOf(c)
      BY <2>1, <2>3, NumbersOf, NumbersNext DEF StreamInv
    <3>2. OwnStep(c)
      BY <3>1, EarlyOwn, VerdictOwn, DeliversOwn, GrantsOwn, EndingOwn, UpOwn DEF Handler
    <3> QED
      BY <2>3, <3>1, <3>2, OwnStepKeeps
  <2> QED
    BY <2>2, <2>3
<1> QED
  BY <1>1 DEF FlowInv

LEMMA ClientFlow ==
  ASSUME StreamInv, FlowInv, NEW c \in Conns, ClientMoves(c)
  PROVE  FlowInv'
<1> USE DEF ClientBecomes, otherThanClient, guestVars, hostVars
<1>1. UNCHANGED <<handler, chan, ungranted, toHost, toGuest, session, total, delivered>>
  BY DEF ClientMoves, ClientSends, ClientFinishes, ClientResets, ClientReads
<1>2. client \in [Conns -> Clients] /\ client[c] \in Clients
  BY DEF StreamInv, TypeOK
<1>3. ASSUME NEW d \in Conns
      PROVE  client'[d].eof = client[d].eof
  <2>1. CASE ClientSends(c)
    BY <1>2, <2>1, EofKept DEF ClientSends
  <2>2. CASE ClientFinishes(c)
    BY <1>2, <2>2, EofKept DEF ClientFinishes
  <2>3. CASE ClientResets(c)
    BY <1>2, <2>3, EofKept DEF ClientResets
  <2>4. CASE ClientReads(c)
    BY <1>2, <2>4, EofKept DEF ClientReads
  <2> QED
    BY <2>1, <2>2, <2>3, <2>4 DEF ClientMoves
<1>4. ASSUME NEW d \in Conns
      PROVE  Aside(d)
  BY <1>1, <1>3 DEF Aside, Mine
<1> QED
  BY <1>4, AsideKeeps DEF FlowInv

\* The demux reader moves a frame from the tty to the channel of its connection.
LEMMA RoutesFlow ==
  ASSUME StreamInv, TypeOK', FlowInv, Routes
  PROVE  FlowInv'
<1> USE DEF StreamInv
<1> DEFINE f == Head(toGuest)
           t == Tail(toGuest)
<1>1. /\ f = toGuest[1] /\ 1 \in 1..Len(toGuest) /\ f \in Frames(HostKinds) /\ toGuest' = t
      /\ toGuest # <<>> /\ toGuest \in Seq(Frames(HostKinds)) /\ t \in Seq(Frames(HostKinds))
      /\ UNCHANGED <<registry, handler, sid, up, toHost, session, ungranted, total, delivered, client>>
  BY QueueTail DEF TypeOK, Routes, hostVars
<1>0. PICK c \in Conns : f.conn = c
  BY <1>1 DEF Frames
<1>2. f.stream \in Ids /\ c \in Conns /\ f.kind \in HostKinds /\ f.n \in Nat /\ sid[c] = f.stream
  <2>1. f.stream \in Ids /\ c \in Conns /\ f.kind \in HostKinds /\ f.n \in Nat
    BY <1>1 DEF Frames
  <2>2. sid[c] = f.stream
    BY <1>0, <1>1 DEF Core, Addressed
  <2> QED
    BY <2>1, <2>2
<1>3. /\ \A d \in Conns : d # c => chan'[d] = chan[d]
      /\ chan'[c] = Append(chan[c], f) \/ (chan'[c] = chan[c] /\ handler[c] \notin Holding)
  <2>0. registry[f.stream] \in {None, c}
    <3>1. PICK d \in Conns \cup {None} : Owns(f.stream, d)
      BY <1>2 DEF Core, Owned
    <3>2. d = c
      BY <1>0, <1>1, <3>1 DEF Owns
    <3> QED
      BY <3>1, <3>2 DEF Owns
  <2>1. CASE registry[f.stream] = None
    <3>1. c # None
      BY <1>2, IdsAssumption DEF IdsAssumption
    <3>2. chan' = chan
      BY <2>1 DEF Routes
    <3>3. handler[c] \notin Holding
      BY <1>2, <2>1, <3>1 DEF Core, Registered
    <3> QED
      BY <3>2, <3>3
  <2>2. CASE registry[f.stream] = c /\ c # None
    <3>1. chan' = [chan EXCEPT ![c] = Append(chan[c], f)]
      BY <2>2 DEF Routes, Enqueue
    <3> QED
      BY <1>2, <3>1 DEF TypeOK
  <2> QED
    BY <2>0, <2>1, <2>2
<1>4. f.conn = c
  BY <1>0
<1>5. /\ toGuest \in Seq(AnyFrames) /\ t \in Seq(AnyFrames) /\ f \in AnyFrames
      /\ chan[c] \in Seq(AnyFrames) /\ chan[c] \in Seq(Frames(HostKinds))
  BY <1>1, <1>2, AnyQueue DEF TypeOK
<1>6. /\ Carried(toGuest, "data", c) = Share(f, "data", c) + Carried(t, "data", c)
      /\ CloseLast(toGuest, c) =>
           CloseLast(t, c) /\ (f.kind = "close" => ~Has(t, c, {"data"}))
  <2>1. Carried(toGuest, "data", c) = Share(f, "data", c) + Carried(t, "data", c)
    BY <1>1, <1>5, CarriedTail
  <2>2. CloseLast(toGuest, c) => CloseLast(t, c) /\ (f.kind = "close" => ~Has(t, c, {"data"}))
    BY <1>0, <1>1, <1>5, LastTail
  <2> QED
    BY <2>1, <2>2
<1>7. \A kinds : Has(toGuest, c, kinds) <=> f.kind \in kinds \/ Has(t, c, kinds)
  BY <1>0, <1>1, HasTail
<1>8. FlowOf(c) /\ Numbers(c) /\ Numbers(c)'
  BY <1>2, NumbersOf, NumbersNext DEF FlowInv
<1>9. ASSUME NEW d \in Conns, d # c
      PROVE  FlowOf(d)'
  <2>1. toGuest # <<>> /\ Head(toGuest).conn # d /\ toGuest' = Tail(toGuest)
    BY <1>0, <1>1, <1>9
  <2>2. /\ Carried(toGuest', "data", d) = Carried(toGuest, "data", d)
        /\ \A kinds : Has(toGuest', d, kinds) <=> Has(toGuest, d, kinds)
        /\ CloseLast(toGuest, d) => CloseLast(toGuest', d)
    BY <2>1, ToGuestAside
  <2>3. Aside(d)
    BY <1>1, <1>3, <1>9, <2>2 DEF Aside, Mine
  <2> QED
    BY <2>3, AsideKeeps DEF FlowInv
<1> HIDE DEF f, t
<1>10. Share(f, "data", c) \in Nat
  BY <1>2 DEF Share
<1>11. /\ Carried(Append(chan[c], f), "data", c) = Carried(chan[c], "data", c) + Share(f, "data", c)
       /\ \A kinds : Has(Append(chan[c], f), c, kinds) <=> Has(chan[c], c, kinds) \/ f.kind \in kinds
  <2>1. Carried(Append(chan[c], f), "data", c) = Carried(chan[c], "data", c) + Share(f, "data", c)
    BY <1>5, CarriedAppend
  <2>2. \A kinds : Has(Append(chan[c], f), c, kinds) <=> Has(chan[c], c, kinds) \/ f.kind \in kinds
    BY <1>1, <1>4, <1>5, HasAppend
  <2> QED
    BY <2>1, <2>2
<1>12. CloseLast(Append(chan[c], f), c)
  <2>1. f.kind = "data" => ~Has(chan[c], c, {"close"})
    BY <1>7, <1>8 DEF FlowOf, LastOf
  <2>2. CloseLast(chan[c], c)
    BY <1>8 DEF FlowOf, LastOf
  <2> QED
    BY <1>5, <2>1, <2>2, LastAppend
<1>13. Fresh(c)' /\ ShutOf(c)'
  BY <1>1, <1>8 DEF FlowOf, Fresh, ShutOf, Mine
<1>14. LastOf(c)'
  <2>1. /\ CloseLast(chan[c], c) /\ CloseLast(toGuest, c)
        /\ Has(chan[c], c, {"close"}) => ~Has(toGuest, c, {"data"})
    BY <1>8 DEF FlowOf, LastOf
  <2>2. CloseLast(chan'[c], c)
    BY <1>3, <1>12, <2>1
  <2>3. Has(chan'[c], c, {"close"}) => ~Has(t, c, {"data"})
    <3>1. Has(chan'[c], c, {"close"}) => Has(chan[c], c, {"close"}) \/ f.kind = "close"
      BY <1>3, <1>11
    <3>2. Has(t, c, {"data"}) => Has(toGuest, c, {"data"})
      BY <1>7
    <3> QED
      BY <1>6, <2>1, <3>1, <3>2
  <2> QED
    BY <1>1, <1>6, <2>1, <2>2, <2>3 DEF LastOf
<1>15. handler[c] \in Relaying =>
         /\ Bytes(c)' = Bytes(c)
         /\ Has(chan'[c], c, {"close"}) \/ Has(t, c, {"close"}) =>
              Has(chan[c], c, {"close"}) \/ Has(toGuest, c, {"close"})
  <2>1. SUFFICES ASSUME handler[c] \in Relaying
                 PROVE  /\ Bytes(c)' = Bytes(c)
                        /\ Has(chan'[c], c, {"close"}) \/ Has(t, c, {"close"}) =>
                             Has(chan[c], c, {"close"}) \/ Has(toGuest, c, {"close"})
    OBVIOUS
  <2>2. chan'[c] = Append(chan[c], f)
    BY <1>3, <2>1 DEF Relaying, Holding, HandlerPcs
  <2>3. Carried(t, "data", c) + Carried(chan'[c], "data", c) = Carried(toGuest, "data", c) + Carried(chan[c], "data", c)
    BY <1>1, <1>6, <1>8, <1>10, <1>11, <2>2 DEF Numbers
  <2>4. Has(chan'[c], c, {"close"}) => Has(chan[c], c, {"close"}) \/ f.kind = "close"
    BY <1>11, <2>2
  <2>5. f.kind = "close" \/ Has(t, c, {"close"}) => Has(toGuest, c, {"close"})
    BY <1>7
  <2> QED
    BY <1>1, <2>3, <2>4, <2>5 DEF Bytes
<1>16. CreditOf(c)'
  BY <1>1, <1>8, <1>15 DEF FlowOf, CreditOf, Mine
<1>17. BytesOf(c)'
  BY <1>1, <1>8, <1>15 DEF FlowOf, BytesOf, Mine
<1>18. FlowOf(c)'
  BY <1>13, <1>14, <1>16, <1>17 DEF FlowOf
<1> QED
  BY <1>9, <1>18 DEF FlowInv
-----------------------------------------------------------------------------
(* A step of the host, for the connection of its session or frame. *)

\* What the session's credit and buffer lose is in the frames it sends, what it
\* reads is new, and its CLOSE goes after its last byte.
HostFlows(i, c, x, t) ==
  LET s == session[i] IN
    /\ CloseLast(t, c)
    /\ Has(t, c, {"data"}) => s # None /\ s.buf > 0
    /\ Has(t, c, {"close"}) => s # None /\ s.eof /\ Carried(t, "data", c) = s.buf
    /\ s = None \/ s.eof => total'[c] = total[c]
    /\ x # None => x.conn = c
    /\ x # None /\ s # None =>
         /\ x.credit + Carried(t, "data", c) + Carried(toHost', "window", c) =
              s.credit + Carried(toHost, "window", c)
         /\ total'[c] + s.buf = total[c] + Carried(t, "data", c) + x.buf
         /\ s.eof => x.eof
    /\ x # None /\ s = None =>
         /\ Nothing(c) /\ handler[c] = "verdict" /\ x.credit = Window /\ x.buf = 0
         /\ ungranted[c] = 0 /\ total[c] = delivered[c]
         /\ Carried(t, "data", c) = 0 /\ Carried(toHost', "window", c) = 0

LEMMA HostOwn ==
  ASSUME StreamInv, TypeOK', NEW c \in Conns, NEW i \in Ids, FlowOf(c),
         NEW x \in Sessions \cup {None}, NEW t \in Seq(Frames(HostKinds)),
         HostStep(i, c, x, t), UNCHANGED otherThanHost, Owns(i, c), sid[c] = i,
         handler[c] \notin Unborn \cup {"open"}, ~Has(toHost', c, {"open"}), HostFlows(i, c, x, t)
  PROVE  FlowOf(c)'
<1> DEFINE s == session[i]
           D == Carried(t, "data", c)
<1>1. /\ UNCHANGED <<handler, chan, ungranted, delivered, client>>
      /\ session' = [session EXCEPT ![i] = x] /\ toGuest' = toGuest \o t
  BY DEF otherThanHost, guestVars, HostStep
<1>2. /\ session'[i] = x /\ \A j \in Ids : Mine(j, c)' \/ Mine(j, c) => j = i
      /\ s # None => Mine(i, c)
  <2>1. \A j \in Ids : j # i => session'[j] = session[j]
    BY <1>1 DEF StreamInv, TypeOK
  <2>2. session'[i] = x
    BY <1>1 DEF StreamInv, TypeOK
  <2>3. \A j \in Ids : Mine(j, c) => j = i
    BY DEF Mine, StreamInv, Core, Addressed
  <2> QED
    BY <2>1, <2>2, <2>3 DEF Mine, Owns
<1>3. Numbers(c) /\ Numbers(c)'
  BY NumbersOf, NumbersNext DEF StreamInv
<1>4. t \in Seq(AnyFrames) /\ toGuest \in Seq(AnyFrames)
  BY AnyQueue DEF StreamInv, TypeOK
<1>5. /\ D \in Nat /\ Carried(toGuest', "data", c) = Carried(toGuest, "data", c) + D
      /\ ~Has(t, c, {"data"}) => D = 0
  BY <1>1, <1>4, UnitsFinite, CarriedConcat, CarriedNone
<1>6. \A kinds : Has(toGuest', c, kinds) <=> Has(toGuest, c, kinds) \/ Has(t, c, kinds)
  BY <1>1, <1>4, HasConcat
<1>7. Has(chan[c], c, {"close"}) \/ Has(toGuest, c, {"close"}) =>
        /\ s # None => s.eof /\ s.buf = 0
        /\ ~Has(t, c, {"data"}) /\ D = 0 /\ total'[c] = total[c]
  <2>1. SUFFICES ASSUME Has(chan[c], c, {"close"}) \/ Has(toGuest, c, {"close"})
                 PROVE  /\ s # None => s.eof /\ s.buf = 0
                        /\ ~Has(t, c, {"data"}) /\ D = 0 /\ total'[c] = total[c]
    OBVIOUS
  <2>2. s # None => s.eof /\ s.buf = 0
    BY <1>2, <2>1 DEF StreamInv, Core, Finals
  <2>3. ~Has(t, c, {"data"})
    BY <2>2 DEF HostFlows
  <2>4. total'[c] = total[c]
    BY <2>2 DEF HostFlows
  <2> QED
    BY <1>5, <2>2, <2>3, <2>4
<1>15. /\ ungranted[c] \in Nat /\ delivered[c] \in Nat /\ total[c] \in Nat /\ total'[c] \in Nat
       /\ Carried(toHost, "window", c) \in Nat /\ Carried(toHost', "window", c) \in Nat
       /\ Carried(toGuest, "data", c) \in Nat /\ Carried(chan[c], "data", c) \in Nat
  BY <1>1, <1>3 DEF Numbers
<1>16. PICK g \in Nat, k \in Nat, u \in Nat, v \in Nat, w \in Nat, n \in Nat :
         /\ g = Carried(toGuest, "data", c) /\ k = Carried(chan[c], "data", c) /\ u = ungranted[c]
         /\ v = Carried(toHost, "window", c) /\ w = Carried(toHost', "window", c) /\ n = D
  BY <1>5, <1>15
<1>17. PICK l \in Nat, m \in Nat, o \in Nat : l = delivered[c] /\ m = total[c] /\ o = total'[c]
  BY <1>15
<1>8. Fresh(c)'
  BY <1>1 DEF Fresh, FlowOf
<1>9. CreditOf(c)'
  <2>1. SUFFICES ASSUME x # None, handler[c] \in Relaying
                 PROVE  x.credit + (Carried(toGuest', "data", c) + Carried(chan[c], "data", c))
                          + ungranted[c] + Carried(toHost', "window", c) = Window
    BY <1>1, <1>2 DEF CreditOf, Bytes, Mine
  <2>2. x.credit \in Nat
    BY <1>2, <1>3, <2>1 DEF Numbers
  <2>3. CASE s # None
    <3>1. s.credit + (Carried(toGuest, "data", c) + Carried(chan[c], "data", c))
            + ungranted[c] + Carried(toHost, "window", c) = Window
      BY <1>2, <2>1, <2>3 DEF FlowOf, CreditOf, Bytes
    <3>2. x.credit + D + Carried(toHost', "window", c) = s.credit + Carried(toHost, "window", c)
      BY <2>1, <2>3 DEF HostFlows
    <3>3. s.credit \in Nat
      BY <1>3, <2>3 DEF Numbers
    <3> HIDE DEF D, s
    <3>4. PICK a \in Nat, e \in Nat : a = s.credit /\ e = x.credit
      BY <2>2, <3>3
    <3>5. a + (g + k) + u + v = Window /\ e + n + w = a + v
      BY <1>16, <3>1, <3>2, <3>4
    <3>6. e + ((g + n) + k) + u + w = Window
      <4>1. e + ((g + n) + k) + u + w = (e + n + w) + ((g + k) + u)
        OBVIOUS
      <4>2. (a + v) + ((g + k) + u) = a + (g + k) + u + v
        OBVIOUS
      <4> QED
        BY <3>5, <4>1, <4>2
    <3> QED
      BY <1>5, <1>16, <3>4, <3>6
  <2>4. CASE s = None
    <3>1. /\ Nothing(c) /\ x.credit = Window /\ ungranted[c] = 0
          /\ D = 0 /\ Carried(toHost', "window", c) = 0
      BY <2>1, <2>4 DEF HostFlows
    <3>2. Carried(toGuest, "data", c) = 0 /\ Carried(chan[c], "data", c) = 0
      <4>1. ~Has(toGuest, c, {"data"}) /\ ~Has(chan[c], c, {"data"}) /\ chan[c] \in Seq(AnyFrames)
        BY <3>1, AnyQueue DEF Nothing, Has, HostKinds, StreamInv, TypeOK
      <4> QED
        BY <1>4, <4>1, CarriedNone
    <3> HIDE DEF D, s
    <3> QED
      BY <1>3, <1>5, <2>2, <3>1, <3>2, WindowAssumption DEF Numbers, WindowAssumption
  <2> QED
    BY <2>3, <2>4
<1>10. ASSUME handler[c] \in Relaying, x # None
       PROVE  total'[c] = delivered[c] + (Carried(toGuest', "data", c) + Carried(chan[c], "data", c)) + x.buf
  <2>2. x.buf \in Nat
    BY <1>2, <1>3, <1>10 DEF Numbers
  <2>3. CASE s # None
    <3>1. total[c] = delivered[c] + (Carried(toGuest, "data", c) + Carried(chan[c], "data", c)) + s.buf
      BY <1>2, <1>10, <2>3 DEF FlowOf, BytesOf, Bytes
    <3>2. total'[c] + s.buf = total[c] + D + x.buf
      BY <1>10, <2>3 DEF HostFlows
    <3>3. s.buf \in Nat
      BY <1>3, <2>3 DEF Numbers
    <3> HIDE DEF D, s
    <3>4. PICK a \in Nat, e \in Nat : a = s.buf /\ e = x.buf
      BY <2>2, <3>3
    <3>5. m = l + (g + k) + a /\ o + a = m + n + e
      BY <1>16, <1>17, <3>1, <3>2, <3>4
    <3>6. o = l + ((g + n) + k) + e
      BY <3>5
    <3> QED
      BY <1>5, <1>16, <1>17, <3>4, <3>6
  <2>4. CASE s = None
    <3>1. Nothing(c) /\ x.buf = 0 /\ total[c] = delivered[c] /\ D = 0 /\ total'[c] = total[c]
      BY <1>10, <2>4 DEF HostFlows
    <3>2. Carried(toGuest, "data", c) = 0 /\ Carried(chan[c], "data", c) = 0
      <4>1. ~Has(toGuest, c, {"data"}) /\ ~Has(chan[c], c, {"data"}) /\ chan[c] \in Seq(AnyFrames)
        BY <3>1, AnyQueue DEF Nothing, Has, HostKinds, StreamInv, TypeOK
      <4> QED
        BY <1>4, <4>1, CarriedNone
    <3> HIDE DEF D, s
    <3>3. g = 0 /\ k = 0 /\ n = 0 /\ m = l /\ o = m
      BY <1>16, <1>17, <3>1, <3>2
    <3>4. o = l + ((g + n) + k) + 0
      BY <3>3
    <3> QED
      BY <1>5, <1>16, <1>17, <3>1, <3>4
  <2> QED
    BY <2>3, <2>4
<1>11. ASSUME handler[c] \in Relaying, Has(chan[c], c, {"close"}) \/ Has(toGuest', c, {"close"})
       PROVE  total'[c] = delivered[c] + (Carried(toGuest', "data", c) + Carried(chan[c], "data", c))
  <2>1. CASE Has(chan[c], c, {"close"}) \/ Has(toGuest, c, {"close"})
    <3>1. total[c] = delivered[c] + (Carried(toGuest, "data", c) + Carried(chan[c], "data", c))
      BY <1>11, <2>1 DEF FlowOf, BytesOf, Bytes
    <3>2. D = 0 /\ total'[c] = total[c]
      BY <1>7, <2>1
    <3> HIDE DEF D
    <3> QED
      BY <1>3, <1>5, <3>1, <3>2 DEF Numbers
  <2>2. CASE Has(t, c, {"close"})
    <3>1. s # None /\ s.eof /\ D = s.buf
      BY <2>2 DEF HostFlows
    <3>2. total'[c] = total[c]
      BY <3>1 DEF HostFlows
    <3>3. total[c] = delivered[c] + (Carried(toGuest, "data", c) + Carried(chan[c], "data", c)) + s.buf
      BY <1>2, <1>11, <3>1 DEF FlowOf, BytesOf, Bytes
    <3> HIDE DEF D, s
    <3> QED
      BY <1>5, <1>15, <3>1, <3>2, <3>3, SMTT(30)
  <2> QED
    BY <1>6, <1>11, <2>1, <2>2
<1>12. BytesOf(c)'
  BY <1>1, <1>2, <1>10, <1>11 DEF BytesOf, Bytes, Mine
<1>13. LastOf(c)'
  <2>1. /\ CloseLast(chan[c], c) /\ CloseLast(toGuest, c)
        /\ Has(chan[c], c, {"close"}) => ~Has(toGuest, c, {"data"})
    BY DEF FlowOf, LastOf
  <2>2. CloseLast(t, c)
    BY DEF HostFlows
  <2>3. CloseLast(toGuest', c)
    BY <1>1, <1>4, <1>7, <2>1, <2>2, LastConcat
  <2>4. Has(chan[c], c, {"close"}) => ~Has(toGuest', c, {"data"})
    BY <1>6, <1>7, <2>1
  <2> QED
    BY <1>1, <2>1, <2>3, <2>4 DEF LastOf
<1>14. ShutOf(c)'
  <2>1. client[c].eof => handler[c] \in {"shut", "join", "remove", "done"}
    BY DEF FlowOf, ShutOf
  <2>2. ASSUME handler[c] = "shut", client[c].eof
        PROVE  delivered[c] = total'[c] /\ (x # None => x.eof)
    <3>1. delivered[c] = total[c] /\ (s # None => s.eof)
      BY <1>2, <2>2 DEF FlowOf, ShutOf
    <3>2. total'[c] = total[c]
      BY <3>1 DEF HostFlows
    <3>3. x # None => s # None
      BY <2>2 DEF HostFlows
    <3> QED
      BY <3>1, <3>2, <3>3 DEF HostFlows
  <2> QED
    BY <1>1, <1>2, <2>1, <2>2 DEF ShutOf, Mine
<1> QED
  BY <1>8, <1>9, <1>12, <1>13, <1>14 DEF FlowOf

LEMMA HostFlow ==
  ASSUME StreamInv, TypeOK', FlowInv, NEW c \in Conns, NEW i \in Ids,
         NEW x \in Sessions \cup {None}, NEW t \in Seq(Frames(HostKinds)),
         HostStep(i, c, x, t), UNCHANGED otherThanHost, Owns(i, c), sid[c] = i,
         \A k \in 1..Len(t) : t[k].conn = c,
         \A d \in Conns : d # c => total'[d] = total[d],
         handler[c] \notin Unborn \cup {"open"}, ~Has(toHost', c, {"open"}), HostFlows(i, c, x, t)
  PROVE  FlowInv'
<1>1. ASSUME NEW d \in Conns, d # c
      PROVE  FlowOf(d)'
  <2>0. TypeOK
    BY DEF StreamInv
  <2>1. /\ Has(toHost', d, {"open"}) => Has(toHost, d, {"open"})
        /\ Carried(toHost', "window", d) = Carried(toHost, "window", d)
    <3>1. \/ toHost' = toHost
          \/ toHost # <<>> /\ Head(toHost).conn # d /\ toHost' = Tail(toHost)
      BY <1>1 DEF HostStep
    <3> QED
      BY <2>0, <3>1, ToHostAside
  <2>2. /\ Carried(toGuest', "data", d) = Carried(toGuest, "data", d)
        /\ \A kinds : Has(toGuest', d, kinds) <=> Has(toGuest, d, kinds)
        /\ CloseLast(toGuest, d) => CloseLast(toGuest', d)
    <3>1. toGuest' = toGuest \o t /\ \A k \in 1..Len(t) : t[k].conn # d
      BY <1>1 DEF HostStep
    <3> QED
      BY <2>0, <3>1, ToGuestAside
  <2>3. \A j \in Ids : Mine(j, d)' => Mine(j, d) /\ session'[j] = session[j]
    <3>1. session'[i] = x /\ (x # None => x.conn = c) /\ \A j \in Ids : j # i => session'[j] = session[j]
      BY <2>0 DEF HostStep, TypeOK, HostFlows
    <3> QED
      BY <1>1, <3>1 DEF Mine
  <2>4. UNCHANGED <<handler, chan, ungranted, delivered, client>>
    BY DEF otherThanHost, guestVars
  <2>5. Aside(d)
    BY <1>1, <2>1, <2>2, <2>3, <2>4 DEF Aside
  <2> QED
    BY <2>5, AsideKeeps DEF FlowInv
<1>2. FlowOf(c)
  BY DEF FlowInv
<1>3. FlowOf(c)'
  BY <1>2, HostOwn
<1> QED
  BY <1>1, <1>3 DEF FlowInv

\* A frame is handled: what the step does to the credit and bytes of its stream.
LEMMA HandledFlow ==
  ASSUME StreamInv, TypeOK', FlowInv, toHost # <<>>, toHost' = Tail(toHost), UNCHANGED <<otherThanHost, total>>,
         NEW x \in Sessions \cup {None}, NEW t \in Seq(Frames(HostKinds)),
         session' = [session EXCEPT ![Head(toHost).stream] = x], toGuest' = toGuest \o t,
         \A k \in 1..Len(t) : t[k].conn = Head(toHost).conn,
         ~Has(t, Head(toHost).conn, {"data", "close"}),
         x # None =>
           \/ /\ Head(toHost).kind = "open" /\ x.conn = Head(toHost).conn
              /\ x.credit = Window /\ x.buf = 0
           \/ LET s == session[Head(toHost).stream] IN
                /\ s # None /\ x.conn = s.conn /\ x.eof = s.eof /\ x.buf = s.buf
                /\ x.credit = s.credit + (IF Head(toHost).kind = "window" THEN Head(toHost).n ELSE 0)
  PROVE  FlowInv'
<1> DEFINE f == Head(toHost)
<1>1. /\ f \in Frames(GuestKinds) /\ f.conn \in Conns /\ f.stream \in Ids /\ f.n \in Nat
      /\ sid[f.conn] = f.stream /\ Owns(f.stream, f.conn) /\ handler[f.conn] \notin Unborn \cup {"open"}
      /\ ~Has(Tail(toHost), f.conn, {"open"})
      /\ f.kind = "open" => Nothing(f.conn) /\ handler[f.conn] = "verdict"
  BY OwnerOfFrame
<1>2. PICK c \in Conns, i \in Ids : c = f.conn /\ i = f.stream
  BY <1>1
<1>3. HostStep(i, c, x, t)
  BY <1>2 DEF HostStep, otherThanHost, guestVars
<1>4. /\ toHost \in Seq(Frames(GuestKinds)) /\ toHost \in Seq(AnyFrames) /\ f = toHost[1] /\ 1 \in 1..Len(toHost)
      /\ \A k \in 1..Len(Tail(toHost)) : k + 1 \in 1..Len(toHost) /\ Tail(toHost)[k] = toHost[k + 1]
      /\ Tail(toHost) \in Seq(Frames(GuestKinds)) /\ Tail(toHost) \in Seq(AnyFrames)
  <2>1. toHost \in Seq(Frames(GuestKinds))
    BY DEF StreamInv, TypeOK
  <2>2. /\ f = toHost[1] /\ 1 \in 1..Len(toHost) /\ Tail(toHost) \in Seq(Frames(GuestKinds))
        /\ \A k \in 1..Len(Tail(toHost)) : k + 1 \in 1..Len(toHost) /\ Tail(toHost)[k] = toHost[k + 1]
    BY <2>1, QueueTail
  <2> QED
    BY <2>1, <2>2, AnyQueue
<1>5. Carried(toHost, "window", c) = (IF f.kind = "window" THEN f.n ELSE 0) + Carried(toHost', "window", c)
  <2>1. Carried(toHost, "window", c) = Share(f, "window", c) + Carried(Tail(toHost), "window", c)
    BY <1>4, CarriedTail
  <2> QED
    BY <1>2, <2>1 DEF Share
<1>6. t \in Seq(AnyFrames)
  BY AnyQueue
<1>7. ~Has(t, c, {"data"}) /\ ~Has(t, c, {"close"}) /\ CloseLast(t, c)
  BY <1>2 DEF Has, CloseLast
<1>8. Carried(t, "data", c) = 0
  BY <1>6, <1>7, CarriedNone
<1>9. FlowOf(c) /\ Numbers(c) /\ Numbers(c)'
  BY NumbersOf, NumbersNext DEF FlowInv, StreamInv
<1>10. Owns(i, c) /\ sid[c] = i /\ handler[c] \notin Unborn \cup {"open"} /\ ~Has(toHost', c, {"open"})
  BY <1>1, <1>2
<1>11. total' = total
  OBVIOUS
<1>12. f.kind = "open" =>
         /\ session[i] = None /\ Nothing(c) /\ handler[c] = "verdict"
         /\ ungranted[c] = 0 /\ total[c] = delivered[c] /\ Carried(toHost', "window", c) = 0
  <2>1. SUFFICES ASSUME f.kind = "open"
                 PROVE  /\ session[i] = None /\ Nothing(c) /\ handler[c] = "verdict"
                        /\ ungranted[c] = 0 /\ total[c] = delivered[c]
                        /\ Carried(toHost', "window", c) = 0
    OBVIOUS
  <2>2. Nothing(c) /\ handler[c] = "verdict"
    BY <1>1, <1>2, <2>1
  <2>3. session[i] = None
    BY <1>10, <2>2 DEF Nothing, Mine, Owns
  <2>4. Has(toHost, c, {"open"})
    BY <1>2, <1>4, <2>1 DEF Has
  <2>5. ungranted[c] = 0 /\ total[c] = delivered[c]
    BY <1>9, <2>2, <2>4 DEF FlowOf, Fresh
  <2>6. ~Has(Tail(toHost), c, {"window"})
    <3>1. SUFFICES ASSUME NEW k \in 1..Len(Tail(toHost)), Tail(toHost)[k].conn = c
                   PROVE  FALSE
      BY DEF Has
    <3>2. k + 1 \in 1..Len(toHost) /\ toHost[k + 1].conn = c
      BY <1>4, <3>1
    <3>3. toHost[1].kind = "open" /\ toHost[1].conn = c
      BY <1>2, <1>4, <2>1
    <3>4. k + 1 = 1
      BY <1>4, <3>2, <3>3 DEF StreamInv, Core, Opens
    <3> QED
      BY <3>4
  <2>7. Carried(toHost', "window", c) = 0
    BY <1>4, <2>6, CarriedNone
  <2> QED
    BY <2>2, <2>3, <2>5, <2>7
<1> HIDE DEF f
<1>13. ASSUME x # None, session[i] # None
       PROVE  /\ x.conn = c /\ x.credit + 0 + Carried(toHost', "window", c) = session[i].credit + Carried(toHost, "window", c)
              /\ total'[c] + session[i].buf = total[c] + 0 + x.buf
              /\ session[i].eof => x.eof
  <2>1. f.kind # "open"
    BY <1>12, <1>13
  <2>2. /\ x.conn = session[i].conn /\ x.eof = session[i].eof /\ x.buf = session[i].buf
        /\ x.credit = session[i].credit + (IF f.kind = "window" THEN f.n ELSE 0)
    BY <1>2, <1>13, <2>1 DEF f
  <2>3. session[i].credit \in Nat /\ session[i].buf \in Nat /\ Carried(toHost', "window", c) \in Nat /\ f.n \in Nat
    BY <1>1, <1>9, <1>13 DEF Numbers
  <2>4. PICK a \in Nat, n \in Nat, w \in Nat :
          /\ a = session[i].credit /\ n = (IF f.kind = "window" THEN f.n ELSE 0) /\ w = Carried(toHost', "window", c)
    BY <2>3
  <2>5. x.credit = a + n /\ Carried(toHost, "window", c) = n + w
    BY <1>5, <2>2, <2>4
  <2>6. (a + n) + 0 + w = a + (n + w)
    OBVIOUS
  <2>7. x.credit + 0 + Carried(toHost', "window", c) = session[i].credit + Carried(toHost, "window", c)
    BY <2>4, <2>5, <2>6
  <2>8. x.conn = c
    BY <1>10, <1>13, <2>2 DEF Owns
  <2>9. total'[c] + session[i].buf = total[c] + 0 + x.buf
    BY <1>9, <1>11, <2>2, <2>3 DEF Numbers
  <2> QED
    BY <2>2, <2>7, <2>8, <2>9
<1>14. ASSUME x # None, session[i] = None
       PROVE  f.kind = "open" /\ x.conn = c /\ x.credit = Window /\ x.buf = 0
  BY <1>2, <1>14 DEF f
<1>15. HostFlows(i, c, x, t)
  BY <1>7, <1>8, <1>11, <1>12, <1>13, <1>14 DEF HostFlows
<1>16. \A k \in 1..Len(t) : t[k].conn = c
  BY <1>2 DEF f
<1> QED
  BY <1>3, <1>10, <1>11, <1>15, <1>16, HostFlow

LEMMA HandlesFlow ==
  ASSUME StreamInv, TypeOK', FlowInv, HostHandlesFrame
  PROVE  FlowInv'
<1> DEFINE f == Head(toHost)
           i == f.stream
           s == session[i]
<1>0. /\ TypeOK /\ toHost # <<>> /\ toHost' = Tail(toHost) /\ UNCHANGED <<otherThanHost, total>>
  BY DEF StreamInv, HostHandlesFrame, HostHandlesOpen, HostHandlesData, HostHandlesClose,
         HostHandlesRst, HostHandlesWindow, HostHandles
<1>1. /\ f \in Frames(GuestKinds) /\ f.conn \in Conns /\ i \in Ids /\ f.n \in Nat
      /\ Owns(i, f.conn)
      /\ f.kind = "open" => Nothing(f.conn)
  BY <1>0, OwnerOfFrame
<1>2. s \in Sessions \cup {None} /\ (s # None => s.credit \in Nat /\ s.credit + 0 = s.credit)
  <2>1. s \in Sessions \cup {None}
    BY <1>0, <1>1 DEF TypeOK
  <2>2. s \in Sessions => s.credit \in Nat /\ s.credit + 0 = s.credit
    BY DEF Sessions
  <2> QED
    BY <2>1, <2>2
<1>3. /\ <<>> \in Seq(Frames(HostKinds)) /\ Len(<<>>) = 0 /\ toGuest \o <<>> = toGuest
      /\ \A c, kinds : ~Has(<<>>, c, kinds)
      /\ \A k \in 1..Len(<<>>) : <<>>[k].conn = f.conn
      /\ [session EXCEPT ![i] = s] = session
  BY <1>0, <1>1, NoFrames
<1>4. ASSUME NEW kind \in {"open_err", "rst"}
      PROVE  /\ Answer(f, kind) \in Seq(Frames(HostKinds))
             /\ \A k \in 1..Len(Answer(f, kind)) : Answer(f, kind)[k].conn = f.conn
             /\ ~Has(Answer(f, kind), f.conn, {"data", "close"})
  BY <1>1, AnswerTyped DEF HostKinds, Has
<1>5. CASE HostHandlesOpen
  <2>1. f.kind = "open" /\ s = None
    BY <1>1, <1>5 DEF HostHandlesOpen, HostHandles, Nothing, Mine, Owns
  <2>2. CASE SetSession(i, NewSession(f.conn)) /\ UNCHANGED toGuest
    <3>1. /\ NewSession(f.conn) \in Sessions /\ NewSession(f.conn).conn = f.conn
          /\ NewSession(f.conn).credit = Window /\ NewSession(f.conn).buf = 0
      BY <1>1, SessionNew
    <3> QED
      BY <1>0, <1>3, <2>1, <2>2, <3>1, HandledFlow DEF SetSession
  <2>3. CASE Reply(Answer(f, "open_err")) /\ UNCHANGED session
    BY <1>0, <1>3, <1>4, <2>1, <2>3, HandledFlow DEF Reply
  <2> QED
    BY <1>5, <2>1, <2>2, <2>3 DEF HostHandlesOpen
<1>6. CASE HostHandlesData
  <2>1. f.kind = "data"
    BY <1>6 DEF HostHandlesData, HostHandles
  <2>2. CASE s # None /\ UNCHANGED <<session, toGuest>>
    BY <1>0, <1>2, <1>3, <2>1, <2>2, HandledFlow
  <2>3. CASE SetSession(i, None) /\ Reply(Answer(f, "rst"))
    BY <1>0, <1>4, <2>1, <2>3, HandledFlow DEF Reply, SetSession
  <2> QED
    BY <1>6, <2>2, <2>3 DEF HostHandlesData
<1>7. CASE HostHandlesClose
  <2>1. f.kind = "close" /\ toGuest' = toGuest
    BY <1>7 DEF HostHandlesClose, HostHandles
  <2>2. CASE s = None
    BY <1>0, <1>3, <1>7, <2>1, <2>2, HandledFlow DEF HostHandlesClose
  <2>3. CASE s # None
    <3> DEFINE x == [s EXCEPT !.closed = TRUE]
    <3>1. x \in Sessions /\ x.conn = s.conn /\ x.eof = s.eof /\ x.buf = s.buf /\ x.credit = s.credit
      BY <1>2, <2>3, SessionCloses
    <3>2. session' = [session EXCEPT ![i] = x]
      BY <1>7, <2>3 DEF HostHandlesClose, SetSession
    <3> HIDE DEF x
    <3> QED
      BY <1>0, <1>2, <1>3, <2>1, <2>3, <3>1, <3>2, HandledFlow
  <2> QED
    BY <2>2, <2>3
<1>8. CASE HostHandlesRst
  BY <1>0, <1>3, <1>8, HandledFlow DEF HostHandlesRst, SetSession
<1>9. CASE HostHandlesWindow
  <2>1. f.kind = "window" /\ toGuest' = toGuest
    BY <1>9 DEF HostHandlesWindow, HostHandles
  <2>2. CASE s = None
    BY <1>0, <1>3, <1>9, <2>1, <2>2, HandledFlow DEF HostHandlesWindow
  <2>3. CASE s # None
    <3> DEFINE x == [s EXCEPT !.credit = @ + f.n]
    <3>1. Same(s, x) /\ x.credit = s.credit + f.n
      BY <1>1, <1>2, <2>3, SessionCredited
    <3>2. session' = [session EXCEPT ![i] = x]
      BY <1>9, <2>3 DEF HostHandlesWindow, SetSession
    <3> HIDE DEF x
    <3> QED
      BY <1>0, <1>3, <2>1, <2>3, <3>1, <3>2, HandledFlow DEF Same
  <2> QED
    BY <2>2, <2>3
<1> QED
  BY <1>5, <1>6, <1>7, <1>8, <1>9 DEF HostHandlesFrame

\* A session is served: what the step does to the credit and bytes of its stream.
LEMMA ServedFlow ==
  ASSUME StreamInv, TypeOK', FlowInv, NEW i \in Ids, session[i] # None, toHost' = toHost, UNCHANGED otherThanHost,
         NEW x \in Sessions \cup {None}, NEW t \in Seq(Frames(HostKinds)), NEW n \in Nat, NEW r \in Nat,
         session' = [session EXCEPT ![i] = x], toGuest' = toGuest \o t,
         \A k \in 1..Len(t) : t[k].conn = session[i].conn,
         total' = [total EXCEPT ![session[i].conn] = @ + r],
         CloseLast(t, session[i].conn), Carried(t, "data", session[i].conn) = n,
         Has(t, session[i].conn, {"data"}) => session[i].buf > 0,
         Has(t, session[i].conn, {"close"}) => session[i].eof /\ n = session[i].buf,
         session[i].eof => r = 0,
         x # None =>
           /\ x.conn = session[i].conn /\ x.credit + n = session[i].credit
           /\ x.buf + n = session[i].buf + r
           /\ session[i].eof => x.eof
  PROVE  FlowInv'
<1> DEFINE s == session[i]
<1>1. /\ s \in Sessions /\ s.conn \in Conns /\ sid[s.conn] = i /\ Owns(i, s.conn) /\ Mine(i, s.conn)
      /\ handler[s.conn] \notin Unborn \cup {"open"} /\ ~Has(toHost, s.conn, {"open"})
  BY OwnerOfSession
<1>2. PICK c \in Conns : c = session[i].conn
  BY <1>1
<1>3. HostStep(i, c, x, t)
  BY DEF HostStep, otherThanHost, guestVars
<1>4. Numbers(c) /\ Numbers(c)'
  BY NumbersOf, NumbersNext DEF StreamInv
<1>5. total'[c] = total[c] + r /\ \A d \in Conns : d # c => total'[d] = total[d]
  BY <1>2 DEF StreamInv, TypeOK
<1>6. /\ s.credit \in Nat /\ s.buf \in Nat /\ Carried(toHost, "window", c) \in Nat /\ total[c] \in Nat
      /\ x # None => x.credit \in Nat /\ x.buf \in Nat
  <2>1. x # None => x.credit \in Nat /\ x.buf \in Nat
    BY DEF Sessions
  <2> QED
    BY <1>4, <2>1 DEF Numbers
<1>7. ASSUME x # None
      PROVE  /\ x.credit + n + Carried(toHost, "window", c) = s.credit + Carried(toHost, "window", c)
             /\ total'[c] + s.buf = total[c] + n + x.buf
  <2>1. x.credit + n + Carried(toHost, "window", c) = s.credit + Carried(toHost, "window", c)
    BY <1>7
  <2>2. PICK a \in Nat, e \in Nat, m \in Nat : a = s.buf /\ e = x.buf /\ m = total[c]
    BY <1>6, <1>7
  <2>3. e + n = a + r
    BY <1>7, <2>2
  <2>4. (m + r) + a = m + n + e
    BY <2>3
  <2> QED
    BY <1>5, <2>1, <2>2, <2>4
<1>8. s.eof => total'[c] = total[c]
  BY <1>5, <1>6
<1>9. HostFlows(i, c, x, t)
  BY <1>2, <1>7, <1>8 DEF HostFlows
<1>10. /\ Owns(i, c) /\ sid[c] = i /\ handler[c] \notin Unborn \cup {"open"} /\ ~Has(toHost', c, {"open"})
       /\ \A k \in 1..Len(t) : t[k].conn = c
  BY <1>1, <1>2
<1> QED
  BY <1>3, <1>5, <1>9, <1>10, HostFlow

\* A queue of one frame, or of none.
LEMMA FewFrames ==
  ASSUME NEW f \in Frames(HostKinds)
  PROVE  LET t == <<f>> IN
           /\ t \in Seq(Frames(HostKinds)) /\ \A k \in 1..Len(t) : t[k] = f
           /\ \A c : CloseLast(t, c) /\ Carried(t, "data", c) = Share(f, "data", c)
           /\ \A c, kinds : Has(t, c, kinds) <=> f.conn = c /\ f.kind \in kinds
<1> DEFINE t == <<f>>
<1>1. /\ t \in Seq(Frames(HostKinds)) /\ Len(t) = 1 /\ t[1] = f
      /\ \A c, kinds : Has(t, c, kinds) <=> f.conn = c /\ f.kind \in kinds
  BY OneFrame
<1>2. \A c : Carried(t, "data", c) = Share(f, "data", c)
  BY AnyQueue, CarriedOne DEF Share
<1> HIDE DEF t
<1>3. \A k \in 1..Len(t) : k = 1
  BY <1>1
<1>4. \A c : CloseLast(t, c)
  BY <1>3 DEF CloseLast
<1> QED
  BY <1>1, <1>2, <1>3, <1>4 DEF t

LEMMA NoFrame ==
  /\ \A c : CloseLast(<<>>, c) /\ Carried(<<>>, "data", c) = 0
  /\ \A c, kinds : ~Has(<<>>, c, kinds)
<1>1. <<>> \in Seq(AnyFrames) /\ Len(<<>>) = 0
  OBVIOUS
<1>2. \A c, kinds : ~Has(<<>>, c, kinds)
  BY DEF Has
<1>3. \A c : Carried(<<>>, "data", c) = 0
  BY <1>1, <1>2, CarriedNone
<1>4. \A c : CloseLast(<<>>, c)
  BY DEF CloseLast
<1> QED
  BY <1>2, <1>3, <1>4

LEMMA ServesFlow ==
  ASSUME StreamInv, TypeOK', FlowInv, NEW i \in Ids,
         HostConnects(i) \/ HostReads(i) \/ HostServices(i) \/ HostAborts(i)
  PROVE  FlowInv'
<1> DEFINE s == session[i]
           c == s.conn
<1>0. TypeOK /\ s # None
  BY DEF StreamInv, HostConnects, HostReads, HostServices, HostAborts, Opening, Open
<1>1. s \in Sessions /\ c \in Conns /\ s.credit \in Nat /\ s.buf \in Nat
  <2>1. s \in Sessions /\ c \in Conns
    BY <1>0, OwnerOfSession
  <2> QED
    BY <2>1 DEF Sessions
<1>2. UNCHANGED otherThanHost /\ toHost' = toHost
  BY DEF HostConnects, HostReads, HostServices, HostAborts
<1>3. /\ <<>> \in Seq(Frames(HostKinds)) /\ Len(<<>>) = 0 /\ toGuest \o <<>> = toGuest
      /\ \A k \in 1..Len(<<>>) : <<>>[k].conn = c
      /\ CloseLast(<<>>, c) /\ Carried(<<>>, "data", c) = 0
      /\ ~Has(<<>>, c, {"data"}) /\ ~Has(<<>>, c, {"close"})
  <2>1. /\ <<>> \in Seq(Frames(HostKinds)) /\ Len(<<>>) = 0 /\ toGuest \o <<>> = toGuest
    BY <1>0, NoFrames
  <2> QED
    BY <2>1, NoFrame
<1>4. ASSUME NEW kind \in HostKinds, NEW n \in Nat
      PROVE  LET t == <<FrameOf(i, kind, n)>> IN
               /\ t \in Seq(Frames(HostKinds))
               /\ \A k \in 1..Len(t) : t[k].conn = c
               /\ CloseLast(t, c) /\ Carried(t, "data", c) = IF kind = "data" THEN n ELSE 0
               /\ \A kinds : Has(t, c, kinds) <=> kind \in kinds
  <2> DEFINE f == FrameOf(i, kind, n)
  <2>1. f \in Frames(HostKinds) /\ f.kind = kind /\ f.n = n /\ f.conn = c
    BY <1>0, FrameOfTyped
  <2> HIDE DEF f
  <2>2. /\ <<f>> \in Seq(Frames(HostKinds)) /\ \A k \in 1..Len(<<f>>) : <<f>>[k] = f
        /\ CloseLast(<<f>>, c) /\ Carried(<<f>>, "data", c) = Share(f, "data", c)
    BY <2>1, FewFrames
  <2>3. \A d, kinds : Has(<<f>>, d, kinds) <=> f.conn = d /\ f.kind \in kinds
    BY <2>1, FewFrames
  <2>4. \A k \in 1..Len(<<f>>) : <<f>>[k].conn = c
    BY <2>1, <2>2
  <2>5. \A kinds : Has(<<f>>, c, kinds) <=> kind \in kinds
    BY <2>1, <2>3
  <2>6. Share(f, "data", c) = IF kind = "data" THEN n ELSE 0
    BY <2>1 DEF Share
  <2> QED
    BY <2>2, <2>4, <2>5, <2>6 DEF f
<1>5. UNCHANGED total => total' = [total EXCEPT ![c] = @ + 0]
  <2>1. total \in [Conns -> 0..MaxBytes] /\ total[c] + 0 = total[c]
    BY <1>0, <1>1, ForwarderBounds DEF TypeOK, ForwarderBounds
  <2> QED
    BY <1>1, <2>1
<1>6. ASSUME NEW kind \in {"open_ok", "open_err", "rst"}, Reply(<<FrameOf(i, kind, 0)>>), UNCHANGED total,
             NEW x \in Sessions \cup {None}, SetSession(i, x),
             x # None => x.conn = c /\ x.credit = s.credit /\ x.buf = s.buf /\ x.eof = s.eof
      PROVE  FlowInv'
  <2> DEFINE t == <<FrameOf(i, kind, 0)>>
  <2>1. kind \in HostKinds /\ kind # "data" /\ kind # "close"
    BY DEF HostKinds
  <2>2. /\ t \in Seq(Frames(HostKinds)) /\ \A k \in 1..Len(t) : t[k].conn = c
        /\ CloseLast(t, c) /\ Carried(t, "data", c) = 0
        /\ ~Has(t, c, {"data"}) /\ ~Has(t, c, {"close"})
    BY <1>4, <2>1
  <2>3. session' = [session EXCEPT ![i] = x] /\ toGuest' = toGuest \o t
    BY <1>6 DEF SetSession, Reply
  <2>4. x # None => /\ x.conn = c /\ x.credit + 0 = s.credit /\ x.buf + 0 = s.buf + 0
                    /\ s.eof => x.eof
    BY <1>1, <1>6
  <2>5. total' = [total EXCEPT ![c] = @ + 0]
    BY <1>5, <1>6
  <2>6. PICK n \in Nat : n = 0
    OBVIOUS
  <2>7. /\ Carried(t, "data", c) = n /\ total' = [total EXCEPT ![c] = @ + n] /\ n = 0
        /\ x # None => /\ x.conn = c /\ x.credit + n = s.credit /\ x.buf + n = s.buf + n
                       /\ s.eof => x.eof
    BY <2>2, <2>4, <2>5, <2>6
  <2> HIDE DEF t
  <2> QED
    BY <1>0, <1>2, <2>2, <2>3, <2>7, ServedFlow
<1>7. CASE HostConnects(i)
  <2>1. CASE SetSession(i, [s EXCEPT !.open = TRUE]) /\ Reply(<<FrameOf(i, "open_ok", 0)>>)
    <3> DEFINE x == [s EXCEPT !.open = TRUE]
    <3>1. x \in Sessions /\ x.conn = c /\ x.credit = s.credit /\ x.buf = s.buf /\ x.eof = s.eof
      BY <1>1, SessionOpens
    <3>2. SetSession(i, x) /\ UNCHANGED total
      BY <1>7, <2>1 DEF HostConnects
    <3> HIDE DEF x
    <3> QED
      BY <1>6, <2>1, <3>1, <3>2
  <2>2. CASE SetSession(i, None) /\ Reply(<<FrameOf(i, "open_err", 0)>>)
    BY <1>6, <1>7, <2>2 DEF HostConnects
  <2> QED
    BY <1>7, <2>1, <2>2 DEF HostConnects
<1>8. CASE HostAborts(i)
  BY <1>6, <1>8 DEF HostAborts
<1>9. CASE HostReads(i)
  <2>0. ~s.eof /\ toGuest' = toGuest \o <<>>
    BY <1>3, <1>9 DEF HostReads
  <2>1. CASE /\ SetSession(i, [s EXCEPT !.buf = @ + 1])
             /\ total' = [total EXCEPT ![c] = @ + 1]
    <3> DEFINE x == [s EXCEPT !.buf = @ + 1]
    <3>1. x \in Sessions /\ x.conn = c /\ x.credit = s.credit /\ x.buf = s.buf + 1
      BY <1>1, SessionBuffers
    <3>2. session' = [session EXCEPT ![i] = x]
      BY <2>1 DEF SetSession
    <3> HIDE DEF x
    <3>3. x.credit + 0 = s.credit /\ x.buf + 0 = s.buf + 1
      BY <1>1, <3>1
    <3> QED
      BY <1>0, <1>2, <1>3, <2>0, <2>1, <3>1, <3>2, <3>3, ServedFlow
  <2>2. CASE SetSession(i, [s EXCEPT !.eof = TRUE]) /\ UNCHANGED total
    <3> DEFINE x == [s EXCEPT !.eof = TRUE]
    <3>1. x \in Sessions /\ x.conn = c /\ x.credit = s.credit /\ x.buf = s.buf /\ x.eof
      BY <1>1, SessionEof
    <3>2. session' = [session EXCEPT ![i] = x]
      BY <2>2 DEF SetSession
    <3> HIDE DEF x
    <3>3. x.credit + 0 = s.credit /\ x.buf + 0 = s.buf + 0
      BY <1>1, <3>1
    <3> QED
      BY <1>0, <1>2, <1>3, <1>5, <2>0, <2>2, <3>1, <3>2, <3>3, ServedFlow
  <2> QED
    BY <1>9, <2>1, <2>2 DEF HostReads
<1>10. CASE HostServices(i)
  <2> DEFINE n == Sendable(s)
             closing == s.eof /\ n = s.buf /\ ~s.closeSent
             after == [s EXCEPT !.buf = @ - n, !.credit = @ - n, !.closeSent = @ \/ closing]
             p == IF n > 0 THEN <<FrameOf(i, "data", n)>> ELSE <<>>
             r == IF closing THEN <<FrameOf(i, "close", 0)>> ELSE <<>>
             x == IF IsDrained(after) THEN None ELSE after
  <2>1. n \in Nat /\ n <= s.buf /\ n <= s.credit
    BY <1>1, SendableBounds
  <2>2. /\ after \in Sessions /\ after.conn = c
        /\ after.eof = s.eof /\ after.buf = s.buf - n /\ after.credit = s.credit - n
    <3>1. PICK b \in BOOLEAN : b = (s.closeSent \/ closing)
      OBVIOUS
    <3> DEFINE y == [s EXCEPT !.buf = @ - n, !.credit = @ - n, !.closeSent = b]
    <3>2. after = y
      BY <3>1
    <3>3. /\ y \in Sessions /\ y.conn = c
          /\ y.eof = s.eof /\ y.buf = s.buf - n /\ y.credit = s.credit - n
      <4>1. n \in Nat /\ n <= s.buf /\ n <= s.credit /\ s \in Sessions /\ c = s.conn
        BY <1>1, <2>1
      <4> HIDE DEF n, s, c
      <4> QED
        BY <4>1, SessionServiced, ZenonT(60)
    <3> HIDE DEF y, after
    <3> QED
      BY <3>2, <3>3
  <2>3. /\ toGuest' = toGuest \o (p \o r) /\ session' = [session EXCEPT ![i] = x] /\ UNCHANGED total
    BY <1>10 DEF HostServices, Reply, SetSession
  <2>5. /\ p \in Seq(Frames(HostKinds)) /\ \A k \in 1..Len(p) : p[k].conn = c
        /\ CloseLast(p, c) /\ Carried(p, "data", c) = n
        /\ (Has(p, c, {"data"}) => n > 0) /\ ~Has(p, c, {"close"})
    <3>1. CASE n > 0
      BY <1>4, <2>1, <3>1 DEF HostKinds
    <3>2. CASE ~(n > 0)
      <4>1. n = 0 /\ p = <<>>
        BY <2>1, <3>2
      <4> QED
        BY <1>3, <4>1
    <3> QED
      BY <3>1, <3>2
  <2>6. /\ r \in Seq(Frames(HostKinds)) /\ \A k \in 1..Len(r) : r[k].conn = c
        /\ CloseLast(r, c) /\ Carried(r, "data", c) = 0
        /\ ~Has(r, c, {"data"}) /\ (Has(r, c, {"close"}) => closing)
    <3>1. CASE closing
      BY <1>4, <3>1 DEF HostKinds
    <3>2. CASE ~closing
      BY <1>3, <3>2
    <3> QED
      BY <3>1, <3>2
  <2>7. x \in Sessions \cup {None} /\ (x # None => x = after)
    BY <2>2
  <2>8. closing => s.eof /\ n = s.buf
    OBVIOUS
  <2> HIDE DEF p, r, x, closing, after, n
  <2>9. p \in Seq(AnyFrames) /\ r \in Seq(AnyFrames)
    BY <2>5, <2>6, AnyQueue
  <2>10. /\ p \o r \in Seq(Frames(HostKinds))
         /\ \A k \in 1..Len(p \o r) : (p \o r)[k].conn = c
    BY <2>5, <2>6, QueueConcat
  <2>11. Carried(p \o r, "data", c) = n
    <3>1. Carried(p \o r, "data", c) = Carried(p, "data", c) + Carried(r, "data", c)
      BY <2>9, CarriedConcat
    <3> QED
      BY <2>1, <2>5, <2>6, <3>1
  <2>12. CloseLast(p \o r, c)
    BY <2>5, <2>6, <2>9, LastConcat
  <2>13. (Has(p \o r, c, {"data"}) => n > 0) /\ (Has(p \o r, c, {"close"}) => closing)
    BY <2>5, <2>6, HasConcat
  <2>14. /\ Has(p \o r, c, {"data"}) => s.buf > 0
         /\ Has(p \o r, c, {"close"}) => s.eof /\ n = s.buf
    BY <1>1, <2>1, <2>8, <2>13
  <2>15. x # None => /\ x.conn = c /\ x.credit + n = s.credit /\ x.buf + n = s.buf + 0
                     /\ s.eof => x.eof
    BY <1>1, <2>1, <2>2, <2>7
  <2> DEFINE t == p \o r
  <2>16. /\ t \in Seq(Frames(HostKinds)) /\ \A k \in 1..Len(t) : t[k].conn = c
         /\ Carried(t, "data", c) = n /\ CloseLast(t, c) /\ toGuest' = toGuest \o t
         /\ Has(t, c, {"data"}) => s.buf > 0
         /\ Has(t, c, {"close"}) => s.eof /\ n = s.buf
    BY <2>3, <2>10, <2>11, <2>12, <2>14
  <2> HIDE DEF t
  <2> QED
    BY <1>0, <1>2, <1>5, <2>1, <2>3, <2>7, <2>15, <2>16, ServedFlow
<1> QED
  BY <1>7, <1>8, <1>9, <1>10
-----------------------------------------------------------------------------
LEMMA InitFlow == Init => FlowInv
<1> SUFFICES ASSUME Init, NEW c \in Conns
             PROVE  FlowOf(c)
  BY DEF FlowInv
<1>1. /\ \A kinds : ~Has(toHost, c, kinds) /\ ~Has(toGuest, c, kinds) /\ ~Has(chan[c], c, kinds)
      /\ \A i \in Ids : ~Mine(i, c)
      /\ chan[c] = <<>> /\ toGuest = <<>>
  BY DEF Init, Has, Mine
<1>2. Fresh(c) /\ CreditOf(c) /\ BytesOf(c)
  BY <1>1 DEF Init, Fresh, CreditOf, BytesOf
<1>3. LastOf(c)
  BY <1>1, NoFrame DEF LastOf
<1>4. ShutOf(c)
  BY DEF Init, ShutOf, NewClient
<1> QED
  BY <1>2, <1>3, <1>4 DEF FlowOf

LEMMA FlowStep == StreamInv /\ FlowInv /\ [Next]_vars => StreamInv' /\ FlowInv'
<1> SUFFICES ASSUME StreamInv, FlowInv, [Next]_vars
             PROVE  StreamInv' /\ FlowInv'
  OBVIOUS
<1>1. StreamInv' /\ TypeOK'
  BY StreamsStep DEF StreamInv
<1>2. ASSUME NEW c \in Conns, Negotiates(c) \/ Handler(c) \/ Up(c)
      PROVE  FlowInv'
  BY <1>1, <1>2, GuestFlow
<1>3. ASSUME NEW c \in Conns, ClientMoves(c)
      PROVE  FlowInv'
  BY <1>3, ClientFlow
<1>4. CASE Routes
  BY <1>1, <1>4, RoutesFlow
<1>5. CASE HostHandlesFrame
  BY <1>1, <1>5, HandlesFlow
<1>6. ASSUME NEW i \in Ids, HostConnects(i) \/ HostReads(i) \/ HostServices(i) \/ HostAborts(i)
      PROVE  FlowInv'
  BY <1>1, <1>6, ServesFlow
<1>7. CASE UNCHANGED vars
  <2>1. ASSUME NEW d \in Conns
        PROVE  Aside(d)
    BY <1>7 DEF Aside, Mine, vars
  <2>2. ASSUME NEW d \in Conns
        PROVE  FlowOf(d)'
    BY <2>1, AsideKeeps DEF FlowInv
  <2> QED
    BY <1>1, <2>2 DEF FlowInv
<1> QED
  BY <1>1, <1>2, <1>3, <1>4, <1>5, <1>6, <1>7 DEF Next, ClientMoves

\* Flow control neither loses nor makes credit, for any window, threshold and
\* number of connections: while relay_down runs, the session's credit, the bytes
\* on the tty and in the channel, what relay_down has not granted back and the
\* WINDOW frames on their way add up to WINDOW_BYTES.
THEOREM CreditConserved == Spec => []CreditIsConserved
<1>1. StreamInv /\ FlowInv => CreditIsConserved
  <2> SUFFICES ASSUME StreamInv, FlowInv, NEW i \in Ids, session[i] # None,
                      handler[session[i].conn] \in {"open", "verdict", "relay", "grant"}
               PROVE  LET c == session[i].conn IN
                        session[i].credit + Carried(toGuest, "data", c) + Carried(chan[c], "data", c)
                          + ungranted[c] + Carried(toHost, "window", c) = Window
    BY DEF CreditIsConserved
  <2>1. PICK c \in Conns : c = session[i].conn
    BY OwnerOfSession
  <2>2. Numbers(c) /\ Mine(i, c) /\ FlowOf(c)
    BY <2>1, NumbersOf DEF StreamInv, Mine, FlowInv
  <2>3. session[i].credit + (Carried(toGuest, "data", c) + Carried(chan[c], "data", c)) + ungranted[c]
          + Carried(toHost, "window", c) = Window
    BY <2>1, <2>2 DEF FlowOf, CreditOf, Bytes, Relaying
  <2>4. PICK a \in Nat, g \in Nat, k \in Nat : a = session[i].credit /\ g = Carried(toGuest, "data", c)
                                                /\ k = Carried(chan[c], "data", c)
    BY <2>2 DEF Numbers
  <2>5. a + (g + k) = a + g + k
    OBVIOUS
  <2> QED
    BY <2>1, <2>3, <2>4, <2>5
<1> QED
  BY <1>1, InitStreams, InitFlow, FlowStep, PTL DEF Spec

\* A client whose side relay_down ends because the host said CLOSE has been
\* given every byte the remote end sent, whatever else the threads, the other
\* connections and the host have done in the meantime.
THEOREM CloseDelivers == Spec => []CloseDeliversAll
<1>1. FlowInv => CloseDeliversAll
  BY DEF FlowInv, FlowOf, ShutOf, CloseDeliversAll
<1> QED
  BY <1>1, InitStreams, InitFlow, FlowStep, PTL DEF Spec
=============================================================================
