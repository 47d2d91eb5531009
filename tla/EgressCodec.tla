---------------------------- MODULE EgressCodec ----------------------------
(***************************************************************************)
(* The binary framing of the egress channel (COM4): what encode writes for *)
(* a frame and what decode makes of the bytes at the front of a buffer.    *)
(* Both ends use it: TtyWriter and the demux in the guest, the backend on  *)
(* the host.  The state machines EgressMux and EgressForwarder work on the *)
(* frames that come out of it, and on "malformed" for what it rejects.     *)
(***************************************************************************)
EXTENDS Naturals, Sequences

EgressVersion == 1
HeaderLen == 6
MaxPayload == 65535
MaxHostLen == 255

TOpen == 1
TOpenOk == 2
TOpenErr == 3
TData == 4
TClose == 5
TRst == 6
TWindow == 7

Byte == 0..255
U16 == {n \in Nat : n <= 65535}
U32 == {n \in Nat : n \div 65536 \in U16}
-----------------------------------------------------------------------------
(* EgressReason. *)

Reason(name) == [name |-> name, raw |-> 0]
Other(x) == [name |-> "Other", raw |-> x]

\* from_code: a code nobody knows is kept as it is.
FromCode(code) ==
  CASE code = 0 -> Reason("ResolveFailed")
    [] code = 1 -> Reason("ConnectRefused")
    [] code = 2 -> Reason("Unreachable")
    [] code = 3 -> Reason("StreamLimit")
    [] code = 4 -> Reason("ProtocolError")
    [] code = 5 -> Reason("Overrun")
    [] OTHER -> Other(code)

\* code.
Code(reason) ==
  CASE reason.name = "ResolveFailed" -> 0
    [] reason.name = "ConnectRefused" -> 1
    [] reason.name = "Unreachable" -> 2
    [] reason.name = "StreamLimit" -> 3
    [] reason.name = "ProtocolError" -> 4
    [] reason.name = "Overrun" -> 5
    [] OTHER -> reason.raw

-----------------------------------------------------------------------------
(* Frames.  num is the port of an OPEN and the credit of a WINDOW, bytes the *)
(* host of an OPEN and the payload of a DATA.                                *)

WireFrame(ty, stream, num, reason, bytes) ==
  [ty |-> ty, stream |-> stream, num |-> num, reason |-> reason, bytes |-> bytes]

Bare(ty, stream) == WireFrame(ty, stream, 0, FromCode(0), <<>>)
Opens(stream, port, host) == WireFrame(TOpen, stream, port, FromCode(0), host)
OpensNot(stream, reason) == WireFrame(TOpenErr, stream, 0, reason, <<>>)
Carries(stream, payload) == WireFrame(TData, stream, 0, FromCode(0), payload)
Grants(stream, credit) == WireFrame(TWindow, stream, credit, FromCode(0), <<>>)

\* What the program sends: each kind of frame with what it carries.
Frames ==
  {Bare(ty, stream) : ty \in {TOpenOk, TClose, TRst}, stream \in U16}
    \cup {Opens(stream, port, host) : stream \in U16, port \in U16, host \in Seq(Byte)}
    \cup {OpensNot(stream, FromCode(code)) : stream \in U16, code \in Byte}
    \cup {Carries(stream, payload) : stream \in U16, payload \in Seq(Byte)}
    \cup {Grants(stream, credit) : stream \in U16, credit \in U32}

\* to_le_bytes and from_le_bytes.
Le16(n) == <<n % 256, n \div 256>>
U16At(s, i) == s[i] + 256 * s[i + 1]
Le32(n) == LET lo == n % 65536  hi == n \div 65536
           IN <<lo % 256, lo \div 256, hi % 256, hi \div 256>>
U32At(s, i) == U16At(s, i) + 65536 * U16At(s, i + 2)

\* The type-specific bytes.
PayloadOf(f) ==
  CASE f.ty = TOpen -> Le16(f.num) \o f.bytes
    [] f.ty = TOpenErr -> <<Code(f.reason)>>
    [] f.ty = TData -> f.bytes
    [] f.ty = TWindow -> Le32(f.num)
    [] OTHER -> <<>>

\* write_header.
Header(ty, stream, len) ==
  <<EgressVersion, ty, stream % 256, stream \div 256, len % 256, len \div 256>>

\* A host name or a payload that its length field cannot carry is an error, and
\* nothing is written.
Encodable(f) == /\ f.ty = TOpen => Len(f.bytes) <= MaxHostLen
                /\ Len(PayloadOf(f)) <= MaxPayload

\* encode, for a frame that is no error.
Encode(f) == Header(f.ty, f.stream, Len(PayloadOf(f))) \o PayloadOf(f)
-----------------------------------------------------------------------------
(* decode: Ok(None), Err, or a frame and the bytes it took. *)

NeedMore == [is |-> "none"]
Rejected == [is |-> "error"]
Decoded(f, total) == [is |-> "frame", frame |-> f, consumed |-> total]

\* The length a type may have; no other type is known.
LegalLength(ty, len) ==
  \/ ty = TOpen /\ len >= 2 /\ len - 2 <= MaxHostLen
  \/ ty \in {TOpenOk, TClose, TRst} /\ len = 0
  \/ ty = TOpenErr /\ len = 1
  \/ ty = TData
  \/ ty = TWindow /\ len = 4

Body(ty, stream, payload) ==
  CASE ty = TOpen -> Opens(stream, U16At(payload, 1), SubSeq(payload, 3, Len(payload)))
    [] ty = TOpenErr -> OpensNot(stream, FromCode(payload[1]))
    [] ty = TData -> Carries(stream, payload)
    [] ty = TWindow -> Grants(stream, U32At(payload, 1))
    [] OTHER -> Bare(ty, stream)

\* A bad version is rejected with the first byte, everything else once the whole
\* frame is there.
Decode(input) ==
  LET ty == input[2]
      stream == U16At(input, 3)
      len == U16At(input, 5)
      total == HeaderLen + len
  IN IF input # <<>> /\ input[1] # EgressVersion THEN Rejected
     ELSE IF Len(input) < HeaderLen THEN NeedMore
     ELSE IF Len(input) < total THEN NeedMore
     ELSE IF ~LegalLength(ty, len) THEN Rejected
     ELSE Decoded(Body(ty, stream, SubSeq(input, HeaderLen + 1, total)), total)
=============================================================================
