---------------------------- MODULE EgressProofs ----------------------------
(***************************************************************************)
(* Proofs about the egress channel.                                        *)
(*                                                                         *)
(* EgressCodec: the frames survive the wire: decode undoes encode whatever *)
(* follows, and a frame cut anywhere is waited for.  The header's fields   *)
(* and each kind of payload are read back on their own; the two theorems   *)
(* put them together on the buffer.                                        *)
(*                                                                         *)
(* EgressMux: the invariant Inv says where the captured bytes are, that    *)
(* every resolve in flight reserves its id and is the only one of it, how  *)
(* a session and its socket fit together, and what servicing a stream      *)
(* leaves behind.  Its first part states what each update of a session or  *)
(* socket record changes; the steps then use those facts and never open a  *)
(* record again.                                                           *)
(***************************************************************************)
EXTENDS EgressMux, EgressCodec, SequenceTheorems, TLAPS
-----------------------------------------------------------------------------
(* The wire. *)

\* A number's low byte and the rest of it make up the number.
LEMMA LowByte ==
  ASSUME NEW n \in Nat
  PROVE  n % 256 \in Byte /\ n \div 256 \in Nat /\ (n % 256) + 256 * (n \div 256) = n
<1>1. n % 256 \in 0..255
  BY SMT
<1>2. n \div 256 \in Nat
  BY SMT
<1>3. (n % 256) + 256 * (n \div 256) = n
  BY SMT
<1> QED
  BY <1>1, <1>2, <1>3 DEF Byte

\* The two bytes of a u16.
LEMMA TwoBytes ==
  ASSUME NEW n \in U16
  PROVE  n % 256 \in Byte /\ n \div 256 \in Byte /\ (n % 256) + 256 * (n \div 256) = n
<1>1. n \in Nat /\ n <= 65535
  BY DEF U16
<1>2. n % 256 \in Byte /\ n \div 256 \in Nat /\ (n % 256) + 256 * (n \div 256) = n
  BY <1>1, LowByte
<1>3. ASSUME NEW q \in Nat, NEW r \in 0..255, r + 256 * q <= 65535
      PROVE  q \in 0..255
  BY <1>3
<1>4. n \div 256 \in Byte
  BY <1>1, <1>2, <1>3 DEF Byte
<1> QED
  BY <1>2, <1>4

\* What is at most 65535 is a u16, the low half of a number among others.
LEMMA FitsU16 ==
  ASSUME NEW n \in Nat, n <= 65535
  PROVE  n \in U16
  BY DEF U16

\* The two halves of a u32.
LEMMA LowHalf ==
  ASSUME NEW n \in Nat
  PROVE  n % 65536 \in U16 /\ (n % 65536) + 65536 * (n \div 65536) = n
<1>1. n % 65536 \in Nat /\ n % 65536 <= 65535
  BY SMT
<1>2. (n % 65536) + 65536 * (n \div 65536) = n
  BY SMT
<1>3. n % 65536 \in U16
  BY <1>1, FitsU16
<1> QED
  BY <1>2, <1>3

\* An OPEN's length is legal as long as its host is.
LEMMA OpenLength ==
  ASSUME NEW n \in Nat, n <= 255
  PROVE  2 + n \in U16 /\ LegalLength(TOpen, 2 + n)
  BY DEF U16, LegalLength, MaxHostLen

\* The header is six bytes, and its fields read back.
LEMMA HeaderReads ==
  ASSUME NEW ty \in 1..7, NEW stream \in U16, NEW len \in U16
  PROVE  /\ Header(ty, stream, len) \in Seq(Byte)
         /\ Len(Header(ty, stream, len)) = 6
         /\ Header(ty, stream, len)[1] = EgressVersion
         /\ Header(ty, stream, len)[2] = ty
         /\ U16At(Header(ty, stream, len), 3) = stream
         /\ U16At(Header(ty, stream, len), 5) = len
<1>1. /\ stream % 256 \in Byte /\ stream \div 256 \in Byte
      /\ len % 256 \in Byte /\ len \div 256 \in Byte
      /\ (stream % 256) + 256 * (stream \div 256) = stream
      /\ (len % 256) + 256 * (len \div 256) = len
  BY TwoBytes
<1>2. EgressVersion \in Byte /\ ty \in Byte
  BY DEF EgressVersion, Byte
<1> QED
  BY <1>1, <1>2 DEF Header, U16At

\* What follows a sequence does not change what is read from it.
LEMMA FrontReads ==
  ASSUME NEW h \in Seq(Byte), NEW p \in Seq(Byte), NEW rest \in Seq(Byte)
  PROVE  /\ (h \o p) \o rest \in Seq(Byte)
         /\ Len((h \o p) \o rest) = Len(h) + Len(p) + Len(rest)
         /\ \A i \in 1..Len(h) : ((h \o p) \o rest)[i] = h[i]
         /\ SubSeq((h \o p) \o rest, Len(h) + 1, Len(h) + Len(p)) = p
<1> DEFINE e == h \o p
           b == e \o rest
           s == SubSeq(b, Len(h) + 1, Len(h) + Len(p))
<1>1. /\ e \in Seq(Byte) /\ Len(e) = Len(h) + Len(p)
      /\ \A i \in 1..Len(h) + Len(p) : e[i] = IF i <= Len(h) THEN h[i] ELSE p[i - Len(h)]
  BY ConcatProperties
<1>2. /\ b \in Seq(Byte) /\ Len(b) = Len(e) + Len(rest)
      /\ \A i \in 1..Len(e) + Len(rest) : b[i] = IF i <= Len(e) THEN e[i] ELSE rest[i - Len(e)]
  BY <1>1, ConcatProperties
<1>3. Len(h) \in Nat /\ Len(p) \in Nat /\ Len(rest) \in Nat
  BY LenProperties
<1>4. \A i \in 1..Len(h) : b[i] = h[i]
  BY <1>1, <1>2, <1>3
<1>5. \A i \in Len(h) + 1..Len(h) + Len(p) : b[i] = p[i - Len(h)]
  BY <1>1, <1>2, <1>3
<1>6. \A i \in Len(h) + 1..Len(h) + Len(p) : b[i] \in Byte
  BY <1>3, <1>5, ElementOfSeq
<1>7. /\ s \in Seq(Byte)
      /\ Len(s) = Len(p)
      /\ \A i \in 1..Len(p) : s[i] = b[Len(h) + i]
  BY <1>3, <1>6, SubSeqProperties
<1>8. \A i \in 1..Len(p) : s[i] = p[i]
  BY <1>3, <1>5, <1>7
<1>9. s = p
  BY <1>7, <1>8, SeqEqual
<1> QED
  BY <1>1, <1>2, <1>4, <1>9

\* What the decoder needs of a frame: the header's fields fit, and the payload
\* is of a legal length and gives the frame back.
ReadsBack(f) ==
  /\ f.ty \in 1..7 /\ f.stream \in U16
  /\ PayloadOf(f) \in Seq(Byte) /\ Len(PayloadOf(f)) \in U16
  /\ LegalLength(f.ty, Len(PayloadOf(f)))
  /\ Body(f.ty, f.stream, PayloadOf(f)) = f

\* OPEN_OK, CLOSE and RST carry nothing.
LEMMA BareReadsBack ==
  ASSUME NEW ty \in {TOpenOk, TClose, TRst}, NEW stream \in U16
  PROVE  ReadsBack(Bare(ty, stream))
<1> DEFINE f == Bare(ty, stream)
<1>1. f.ty = ty /\ f.stream = stream
  BY DEF Bare, WireFrame
<1>2. PayloadOf(f) = <<>>
  BY <1>1 DEF PayloadOf, TOpen, TOpenOk, TOpenErr, TData, TClose, TRst, TWindow
<1>3. <<>> \in Seq(Byte) /\ Len(<<>>) = 0
  BY EmptySeq
<1>4. Body(ty, stream, <<>>) = f
  BY DEF Body, TOpen, TOpenOk, TOpenErr, TData, TClose, TRst, TWindow
<1>5. LegalLength(ty, 0) /\ ty \in 1..7
  BY DEF LegalLength, TOpen, TOpenOk, TOpenErr, TData, TClose, TRst, TWindow
<1>6. 0 \in U16
  BY DEF U16
<1> HIDE DEF f
<1>7. ReadsBack(f)
  BY <1>1, <1>2, <1>3, <1>4, <1>5, <1>6 DEF ReadsBack
<1> QED
  BY <1>7 DEF f

\* OPEN: the port, then the host.
LEMMA OpenReadsBack ==
  ASSUME NEW stream \in U16, NEW port \in U16, NEW host \in Seq(Byte),
         Len(host) <= MaxHostLen
  PROVE  ReadsBack(Opens(stream, port, host))
<1> DEFINE f == Opens(stream, port, host)
           p == Le16(port) \o host
<1>1. f = [ty |-> TOpen, stream |-> stream, num |-> port, reason |-> FromCode(0),
           bytes |-> host]
  BY DEF Opens, WireFrame
<1>2. Le16(port) \in Seq(Byte) /\ Len(Le16(port)) = 2 /\ U16At(Le16(port), 1) = port
  BY TwoBytes DEF Le16, U16At
<1>3. PayloadOf(f) = p
  BY <1>1 DEF PayloadOf, TOpen, TOpenOk, TOpenErr, TData, TClose, TRst, TWindow
<1>4. (Le16(port) \o host) \o <<>> = p /\ p \in Seq(Byte)
  BY <1>2, ConcatProperties, ConcatEmptySeq
<1>5. /\ Len(p) = 2 + Len(host) /\ p[1] = Le16(port)[1] /\ p[2] = Le16(port)[2]
      /\ SubSeq(p, 3, 2 + Len(host)) = host
  <2>1. <<>> \in Seq(Byte) /\ Len(<<>>) = 0 /\ Len(host) \in Nat
    BY EmptySeq, LenProperties
  <2> DEFINE q == Le16(port)
  <2>2. /\ Len((q \o host) \o <<>>) = Len(q) + Len(host) + Len(<<>>)
        /\ \A i \in 1..Len(q) : ((q \o host) \o <<>>)[i] = q[i]
        /\ SubSeq((q \o host) \o <<>>, Len(q) + 1, Len(q) + Len(host)) = host
    BY <1>2, <2>1, FrontReads, ZenonT(60)
  <2>3. /\ Len(p) = Len(q) + Len(host) + 0
        /\ \A i \in 1..Len(q) : p[i] = q[i]
        /\ SubSeq(p, Len(q) + 1, Len(q) + Len(host)) = host
    BY <1>4, <2>1, <2>2
  <2>4. Len(q) = 2
    BY <1>2
  <2> HIDE DEF p, q
  <2>5. Len(q) + 1 = 3 /\ Len(p) = 2 + Len(host) /\ p[1] = q[1] /\ p[2] = q[2]
    BY <2>1, <2>3, <2>4
  <2>6. SubSeq(p, 3, 2 + Len(host)) = host
    BY <2>3, <2>4, <2>5
  <2> QED
    BY <2>5, <2>6 DEF q
<1>6. U16At(p, 1) = port
  BY <1>2, <1>5 DEF U16At
<1>7. Body(TOpen, stream, p) = f
  <2>1. Body(TOpen, stream, p) = Opens(stream, U16At(p, 1), SubSeq(p, 3, Len(p)))
    BY DEF Body, TOpen, TOpenErr, TData, TWindow
  <2> QED
    BY <1>5, <1>6, <2>1
<1>8. Len(host) \in Nat
  BY LenProperties
<1>9. Len(p) \in U16 /\ LegalLength(TOpen, Len(p))
  BY <1>5, <1>8, OpenLength DEF MaxHostLen
<1>10. TOpen \in 1..7
  BY DEF TOpen
<1>11. f.ty = TOpen /\ f.stream = stream
  BY <1>1
<1> HIDE DEF f, p
<1>12. ReadsBack(f)
  BY <1>3, <1>4, <1>7, <1>9, <1>10, <1>11 DEF ReadsBack
<1> QED
  BY <1>12 DEF f

\* OPEN_ERR: the reason's code, which gives the reason back.
LEMMA OpenErrReadsBack ==
  ASSUME NEW stream \in U16, NEW code \in Byte
  PROVE  ReadsBack(OpensNot(stream, FromCode(code)))
<1> DEFINE f == OpensNot(stream, FromCode(code))
<1>1. f = [ty |-> TOpenErr, stream |-> stream, num |-> 0, reason |-> FromCode(code),
           bytes |-> <<>>]
  BY DEF OpensNot, WireFrame
<1>2. Code(FromCode(code)) = code
  BY DEF Code, FromCode, Reason, Other, Byte
<1>3. PayloadOf(f) = <<code>>
  BY <1>1, <1>2 DEF PayloadOf, TOpen, TOpenOk, TOpenErr, TData, TClose, TRst, TWindow
<1>4. <<code>> \in Seq(Byte) /\ Len(<<code>>) = 1 /\ <<code>>[1] = code
  OBVIOUS
<1>5. Body(TOpenErr, stream, <<code>>) = f
  BY <1>4 DEF Body, TOpen, TOpenOk, TOpenErr, TData, TClose, TRst, TWindow
<1>6. LegalLength(TOpenErr, 1) /\ TOpenErr \in 1..7 /\ 1 \in U16
  BY DEF LegalLength, TOpenErr, U16
<1>7. f.ty = TOpenErr /\ f.stream = stream
  BY <1>1
<1> HIDE DEF f
<1>8. ReadsBack(f)
  BY <1>3, <1>4, <1>5, <1>6, <1>7 DEF ReadsBack
<1> QED
  BY <1>8 DEF f

\* DATA: the payload itself.
LEMMA DataReadsBack ==
  ASSUME NEW stream \in U16, NEW payload \in Seq(Byte), Len(payload) <= MaxPayload
  PROVE  ReadsBack(Carries(stream, payload))
<1> DEFINE f == Carries(stream, payload)
<1>1. f = [ty |-> TData, stream |-> stream, num |-> 0, reason |-> FromCode(0),
           bytes |-> payload]
  BY DEF Carries, WireFrame
<1>2. PayloadOf(f) = payload
  BY <1>1 DEF PayloadOf, TOpen, TOpenOk, TOpenErr, TData, TClose, TRst, TWindow
<1>3. Body(TData, stream, payload) = f
  BY DEF Body, TOpen, TOpenOk, TOpenErr, TData, TClose, TRst, TWindow
<1>4. Len(payload) \in U16
  <2>1. Len(payload) \in Nat
    BY LenProperties
  <2> QED
    BY <2>1, FitsU16 DEF MaxPayload
<1>5. LegalLength(TData, Len(payload)) /\ TData \in 1..7
  BY DEF LegalLength, TData
<1>6. f.ty = TData /\ f.stream = stream
  BY <1>1
<1> HIDE DEF f
<1>7. ReadsBack(f)
  BY <1>2, <1>3, <1>4, <1>5, <1>6 DEF ReadsBack
<1> QED
  BY <1>7 DEF f

\* WINDOW: the four bytes of the credit.
LEMMA WindowReadsBack ==
  ASSUME NEW stream \in U16, NEW credit \in U32
  PROVE  ReadsBack(Grants(stream, credit))
<1> DEFINE f == Grants(stream, credit)
           lo == credit % 65536
           hi == credit \div 65536
<1>1. f = [ty |-> TWindow, stream |-> stream, num |-> credit, reason |-> FromCode(0),
           bytes |-> <<>>]
  BY DEF Grants, WireFrame
<1>2. credit \in Nat /\ hi \in U16
  BY DEF U32
<1>3. lo \in U16 /\ lo + 65536 * hi = credit
  BY <1>2, LowHalf
<1>6. Le32(credit) = <<lo % 256, lo \div 256, hi % 256, hi \div 256>>
  BY DEF Le32
<1> HIDE DEF f, lo, hi
<1>7. /\ lo % 256 \in Byte /\ lo \div 256 \in Byte /\ (lo % 256) + 256 * (lo \div 256) = lo
      /\ hi % 256 \in Byte /\ hi \div 256 \in Byte /\ (hi % 256) + 256 * (hi \div 256) = hi
  BY <1>2, <1>3, TwoBytes
<1>8. Le32(credit) \in Seq(Byte) /\ Len(Le32(credit)) = 4
  BY <1>6, <1>7
<1>9. /\ Le32(credit)[1] + 256 * Le32(credit)[2] = lo
      /\ Le32(credit)[3] + 256 * Le32(credit)[4] = hi
  BY <1>6, <1>7
<1>10. U32At(Le32(credit), 1) = credit
  BY <1>3, <1>9 DEF U32At, U16At
<1>11. PayloadOf(f) = Le32(credit)
  BY <1>1 DEF PayloadOf, TOpen, TOpenOk, TOpenErr, TData, TClose, TRst, TWindow
<1>12. Body(TWindow, stream, Le32(credit)) = f
  BY <1>10 DEF Body, f, TOpen, TOpenOk, TOpenErr, TData, TClose, TRst, TWindow
<1>13. LegalLength(TWindow, 4) /\ TWindow \in 1..7 /\ 4 \in U16
  BY DEF LegalLength, TWindow, U16
<1>14. f.ty = TWindow /\ f.stream = stream
  BY <1>1
<1>15. ReadsBack(f)
  BY <1>8, <1>11, <1>12, <1>13, <1>14 DEF ReadsBack
<1> QED
  BY <1>15 DEF f

\* Every frame that can be encoded.
LEMMA AllReadBack ==
  ASSUME NEW f \in Frames, Encodable(f)
  PROVE  ReadsBack(f)
<1>1. CASE f \in {Bare(ty, stream) : ty \in {TOpenOk, TClose, TRst}, stream \in U16}
  BY <1>1, BareReadsBack
<1>2. CASE f \in {Opens(stream, port, host) :
                    stream \in U16, port \in U16, host \in Seq(Byte)}
  <2>1. PICK stream \in U16, port \in U16, host \in Seq(Byte) : f = Opens(stream, port, host)
    BY <1>2
  <2>2. f.ty = TOpen /\ f.bytes = host
    BY <2>1 DEF Opens, WireFrame
  <2> QED
    BY <2>1, <2>2, OpenReadsBack DEF Encodable
<1>3. CASE f \in {OpensNot(stream, FromCode(code)) : stream \in U16, code \in Byte}
  BY <1>3, OpenErrReadsBack
<1>4. CASE f \in {Carries(stream, payload) : stream \in U16, payload \in Seq(Byte)}
  <2>1. PICK stream \in U16, payload \in Seq(Byte) : f = Carries(stream, payload)
    BY <1>4
  <2>2. f.ty = TData /\ f.bytes = payload
    BY <2>1 DEF Carries, WireFrame
  <2>3. PayloadOf(f) = payload
    BY <2>2 DEF PayloadOf, TOpen, TOpenOk, TOpenErr, TData, TClose, TRst, TWindow
  <2> QED
    BY <2>1, <2>3, DataReadsBack DEF Encodable
<1>5. CASE f \in {Grants(stream, credit) : stream \in U16, credit \in U32}
  BY <1>5, WindowReadsBack
<1> QED
  BY <1>1, <1>2, <1>3, <1>4, <1>5 DEF Frames

\* decode, case by case.
LEMMA DecodesFrame ==
  ASSUME NEW b, b[1] = EgressVersion,
         ~(Len(b) < HeaderLen), ~(Len(b) < HeaderLen + U16At(b, 5)),
         LegalLength(b[2], U16At(b, 5))
  PROVE  Decode(b) =
           Decoded(Body(b[2], U16At(b, 3),
                        SubSeq(b, HeaderLen + 1, HeaderLen + U16At(b, 5))),
                   HeaderLen + U16At(b, 5))
  BY Zenon DEF Decode

\* ... and when it waits.
LEMMA NeedsMore ==
  ASSUME NEW b, b # <<>> => b[1] = EgressVersion,
         Len(b) < HeaderLen \/ Len(b) < HeaderLen + U16At(b, 5)
  PROVE  Decode(b) = NeedMore
  BY Zenon DEF Decode

\* What one end encodes the other decodes, whatever follows it in the buffer: the
\* same frame, and exactly its bytes are taken (encode, decode).
THEOREM DecodeUndoesEncode ==
  ASSUME NEW f \in Frames, Encodable(f), NEW rest \in Seq(Byte)
  PROVE  Decode(Encode(f) \o rest) = Decoded(f, Len(Encode(f)))
<1> DEFINE p == PayloadOf(f)
           h == Header(f.ty, f.stream, Len(p))
           b == (h \o p) \o rest
<1>1. ReadsBack(f)
  BY AllReadBack
<1>2. /\ h \in Seq(Byte) /\ Len(h) = 6 /\ h[1] = EgressVersion /\ h[2] = f.ty
      /\ U16At(h, 3) = f.stream /\ U16At(h, 5) = Len(p)
  BY <1>1, HeaderReads DEF ReadsBack
<1>3. p \in Seq(Byte) /\ Len(p) \in Nat /\ Len(rest) \in Nat
  BY <1>1, LenProperties DEF ReadsBack
<1>4. Encode(f) = h \o p
  BY DEF Encode
<1>6. LegalLength(f.ty, Len(p)) /\ Body(f.ty, f.stream, p) = f
  BY <1>1 DEF ReadsBack
<1> HIDE DEF p, h
<1>5. Len(Encode(f)) = 6 + Len(p)
  <2>1. Len(h \o p) = Len(h) + Len(p)
    BY <1>2, <1>3, ConcatProperties
  <2> QED
    BY <1>2, <1>4, <2>1
<1>7. /\ Len(b) = 6 + Len(p) + Len(rest)
      /\ \A i \in 1..6 : b[i] = h[i]
      /\ SubSeq(b, 7, 6 + Len(p)) = p
  <2>1. /\ Len(b) = Len(h) + Len(p) + Len(rest)
        /\ \A i \in 1..Len(h) : b[i] = h[i]
        /\ SubSeq(b, Len(h) + 1, Len(h) + Len(p)) = p
    BY <1>2, <1>3, FrontReads
  <2> HIDE DEF b
  <2>2. Len(h) + 1 = 7
    BY <1>2
  <2> QED
    BY <1>2, <2>1, <2>2
<1> HIDE DEF b
<1>8. b[1] = EgressVersion /\ b[2] = f.ty /\ U16At(b, 3) = f.stream /\ U16At(b, 5) = Len(p)
  BY <1>2, <1>7 DEF U16At
<1>9. ~(Len(b) < 6) /\ ~(Len(b) < 6 + Len(p))
  BY <1>3, <1>7
<1>10. Decode(b) = Decoded(f, 6 + Len(p))
  <2>1. HeaderLen = 6 /\ HeaderLen + 1 = 7
    BY DEF HeaderLen
  <2>2. Decode(b) = Decoded(Body(f.ty, f.stream, SubSeq(b, 7, 6 + Len(p))), 6 + Len(p))
    BY <1>6, <1>8, <1>9, <2>1, DecodesFrame
  <2> QED
    BY <1>6, <1>7, <2>2
<1> QED
  BY <1>4, <1>5, <1>10 DEF b

\* A frame of which only a part has arrived is waited for, wherever it was cut:
\* it is neither rejected nor taken for a shorter one (decode's early returns).
THEOREM PartIsWaitedFor ==
  ASSUME NEW f \in Frames, Encodable(f), NEW k \in 0..(Len(Encode(f)) - 1)
  PROVE  Decode(SubSeq(Encode(f), 1, k)) = NeedMore
<1> DEFINE p == PayloadOf(f)
           h == Header(f.ty, f.stream, Len(p))
           e == h \o p
           b == SubSeq(e, 1, k)
<1>1. ReadsBack(f)
  BY AllReadBack
<1>2. /\ h \in Seq(Byte) /\ Len(h) = 6 /\ h[1] = EgressVersion /\ h[2] = f.ty
      /\ U16At(h, 3) = f.stream /\ U16At(h, 5) = Len(p)
  BY <1>1, HeaderReads DEF ReadsBack
<1>3. p \in Seq(Byte) /\ Len(p) \in Nat
  BY <1>1, LenProperties DEF ReadsBack
<1>4. Encode(f) = e
  BY DEF Encode
<1> HIDE DEF p, h
<1>5. /\ e \in Seq(Byte) /\ Len(e) = 6 + Len(p)
      /\ \A i \in 1..6 : e[i] = h[i]
  <2>1. /\ e \in Seq(Byte) /\ Len(e) = Len(h) + Len(p)
        /\ \A i \in 1..Len(h) + Len(p) : e[i] = IF i <= Len(h) THEN h[i] ELSE p[i - Len(h)]
    BY <1>2, <1>3, ConcatProperties
  <2> HIDE DEF e
  <2>2. Len(e) = 6 + Len(p)
    BY <1>2, <2>1
  <2>3. \A i \in 1..6 : i \in 1..Len(h) + Len(p) /\ i <= Len(h)
    BY <1>2, <1>3
  <2>4. \A i \in 1..6 : e[i] = h[i]
    BY <2>1, <2>3
  <2> QED
    BY <2>1, <2>2, <2>4
<1> HIDE DEF e
<1>6. k \in Nat /\ k < 6 + Len(p)
  BY <1>3, <1>4, <1>5
<1>7. \A i \in 1..k : e[i] \in Byte
  BY <1>3, <1>5, <1>6, ElementOfSeq
<1>8. /\ b \in Seq(Byte) /\ Len(b) = k
      /\ \A i \in 1..k : b[i] = e[i]
  BY <1>6, <1>7, SubSeqProperties
<1> HIDE DEF b
<1>9. b # <<>> => b[1] = EgressVersion
  <2>1. b # <<>> => k >= 1
    BY <1>6, <1>8, EmptySeq
  <2> QED
    BY <1>2, <1>5, <1>6, <1>8, <2>1
<1>10. ASSUME k >= 6
       PROVE  U16At(b, 5) = Len(p)
  BY <1>2, <1>5, <1>6, <1>8, <1>10 DEF U16At
<1>11. Len(b) < HeaderLen \/ Len(b) < HeaderLen + U16At(b, 5)
  BY <1>3, <1>6, <1>8, <1>10 DEF HeaderLen
<1>12. Decode(b) = NeedMore
  BY <1>9, <1>11, NeedsMore
<1> QED
  BY <1>4, <1>12 DEF b, e
-----------------------------------------------------------------------------
(* What the updates of a session and of a socket leave as it is. *)

LEMMA BufferedOp ==
  ASSUME NEW s \in Sessions, NEW n \in Nat
  PROVE  /\ Buffered(s, n) \in Sessions
         /\ Buffered(s, n).state = s.state /\ Buffered(s, n).gen = s.gen
         /\ Buffered(s, n).toGuest = s.toGuest /\ Buffered(s, n).mask = s.mask
         /\ Buffered(s, n).hostReadClosed = s.hostReadClosed
         /\ Buffered(s, n).closeSent = s.closeSent
  BY DEF Buffered, Sessions

LEMMA GuestClosedOp ==
  ASSUME NEW s \in Sessions
  PROVE  /\ GuestClosed(s) \in Sessions
         /\ GuestClosed(s).state = IF s.state = "established" THEN "halfclosed" ELSE s.state
         /\ GuestClosed(s).gen = s.gen
         /\ GuestClosed(s).toGuest = s.toGuest /\ GuestClosed(s).mask = s.mask
         /\ GuestClosed(s).hostReadClosed = s.hostReadClosed
         /\ GuestClosed(s).closeSent = s.closeSent
  BY DEF GuestClosed, Sessions

LEMMA GrantedOp ==
  ASSUME NEW s \in Sessions, NEW n \in Nat
  PROVE  /\ Granted(s, n) \in Sessions
         /\ Granted(s, n).state = s.state /\ Granted(s, n).gen = s.gen
         /\ Granted(s, n).toGuest = s.toGuest /\ Granted(s, n).mask = s.mask
         /\ Granted(s, n).hostReadClosed = s.hostReadClosed
         /\ Granted(s, n).closeSent = s.closeSent
<1>1. AtMost(s.credit + n, CreditMax) \in Nat
  BY BoundsAssumption DEF AtMost, Sessions
<1> QED
  BY <1>1 DEF Granted, Sessions

LEMMA ConnectingOp ==
  ASSUME NEW s \in Sessions
  PROVE  /\ Connecting(s) \in Sessions
         /\ Connecting(s).state = "connecting" /\ Connecting(s).gen = s.gen
         /\ Connecting(s).toGuest = s.toGuest /\ Connecting(s).mask = {"in", "out"}
         /\ Connecting(s).hostReadClosed = s.hostReadClosed
         /\ Connecting(s).closeSent = s.closeSent
  BY DEF Connecting, Sessions

LEMMA MaskType == \A s : MaskOf(s) \in SUBSET {"in", "out"}
  BY DEF MaskOf

\* The mask depends on the two buffers and on the read side alone.
LEMMA ConnectedOp ==
  ASSUME NEW s \in Sessions
  PROVE  /\ Connected(s) \in Sessions
         /\ IsOpen(Connected(s)) /\ Connected(s).gen = s.gen
         /\ Connected(s).toGuest = s.toGuest /\ Connected(s).toSocket = s.toSocket
         /\ Connected(s).credit = s.credit
         /\ Connected(s).hostReadClosed = s.hostReadClosed
         /\ Connected(s).closeSent = s.closeSent
         /\ Connected(s).mask = MaskOf(Connected(s))
<1>1. /\ Connected(s) \in Sessions
      /\ IsOpen(Connected(s)) /\ Connected(s).gen = s.gen
      /\ Connected(s).toGuest = s.toGuest /\ Connected(s).toSocket = s.toSocket
      /\ Connected(s).credit = s.credit
      /\ Connected(s).hostReadClosed = s.hostReadClosed
      /\ Connected(s).closeSent = s.closeSent
      /\ Connected(s).mask = MaskOf(s)
  BY MaskType DEF Connected, Sessions, IsOpen
<1>2. MaskOf(Connected(s)) = MaskOf(s)
  BY <1>1 DEF MaskOf
<1> QED
  BY <1>1, <1>2

LEMMA RemaskedOp ==
  ASSUME NEW s \in Sessions
  PROVE  /\ Remasked(s) \in Sessions
         /\ Remasked(s).state = s.state /\ Remasked(s).gen = s.gen
         /\ Remasked(s).toGuest = s.toGuest /\ Remasked(s).toSocket = s.toSocket
         /\ Remasked(s).credit = s.credit
         /\ Remasked(s).hostReadClosed = s.hostReadClosed
         /\ Remasked(s).closeSent = s.closeSent
         /\ Remasked(s).mask = MaskOf(Remasked(s))
<1>1. /\ Remasked(s) \in Sessions
      /\ Remasked(s).state = s.state /\ Remasked(s).gen = s.gen
      /\ Remasked(s).toGuest = s.toGuest /\ Remasked(s).toSocket = s.toSocket
      /\ Remasked(s).credit = s.credit
      /\ Remasked(s).hostReadClosed = s.hostReadClosed
      /\ Remasked(s).closeSent = s.closeSent
      /\ Remasked(s).mask = MaskOf(s)
  BY MaskType DEF Remasked, Sessions
<1>2. MaskOf(Remasked(s)) = MaskOf(s)
  BY <1>1 DEF MaskOf
<1> QED
  BY <1>1, <1>2

\* The amounts run_open_io moves: within the window, within the credit, and
\* the buffer keeps something only when the credit is spent.
LEMMA IoAmounts ==
  ASSUME NEW s \in Sessions, NEW k \in Sockets, s.toGuest <= Window
  PROVE  /\ Gets(s, k) \in Nat /\ Gets(s, k) <= k.avail
         /\ s.toGuest + Gets(s, k) <= Window
         /\ Sent(s, k) \in Nat /\ Sent(s, k) <= s.credit
         /\ Left(s, k) \in Nat /\ Left(s, k) <= Window
         /\ Left(s, k) > 0 => Sent(s, k) = s.credit
<1>1. /\ s.toGuest \in Nat /\ s.credit \in Nat /\ k.avail \in Nat /\ Window \in Nat
      /\ s.hostReadClosed \in BOOLEAN
  BY BoundsAssumption DEF Sessions, Sockets
<1>2. Gets(s, k) \in Nat /\ Gets(s, k) <= k.avail /\ s.toGuest + Gets(s, k) <= Window
  BY <1>1 DEF Gets, AtMost
<1>3. /\ Sent(s, k) \in Nat /\ Sent(s, k) <= s.credit
      /\ Sent(s, k) <= s.toGuest + Gets(s, k)
      /\ Sent(s, k) = s.credit \/ Sent(s, k) = s.toGuest + Gets(s, k)
  BY <1>1, <1>2 DEF Sent, AtMost
<1> QED
  BY <1>1, <1>2, <1>3 DEF Left

\* run_open_io keeps a stream sound: what it leaves framed, buffered and
\* announced fits together.
LEMMA AfterIoOp ==
  ASSUME NEW s \in Sessions, NEW k \in Sockets, s.toGuest <= Window,
         NEW n \in Accepts(s, k), IsOpen(s)
  PROVE  /\ AfterIo(s, k, n) \in Sessions
         /\ IsOpen(AfterIo(s, k, n)) /\ AfterIo(s, k, n).gen = s.gen
         /\ AfterIo(s, k, n).toGuest = Left(s, k)
         /\ AfterIo(s, k, n).toSocket = s.toSocket - n
         /\ AfterIo(s, k, n).credit = s.credit - Sent(s, k)
         /\ AfterIo(s, k, n).hostReadClosed = SeesEof(s, k)
         /\ AfterIo(s, k, n).closeSent = (s.closeSent \/ Closes(s, k))
<1>1. s.toSocket \in Nat /\ n \in Nat /\ n <= s.toSocket
  BY DEF Accepts, Sessions
<1>2. SeesEof(s, k) \in BOOLEAN /\ (s.closeSent \/ Closes(s, k)) \in BOOLEAN
  BY DEF SeesEof, Closes, CloseNow, Sessions, Sockets
<1>3. s.toSocket - n \in Nat
  BY <1>1
<1>4. s.credit - Sent(s, k) \in Nat
  BY IoAmounts DEF Sessions
<1> QED
  BY <1>2, <1>3, <1>4, IoAmounts DEF AfterIo, Sessions, IsOpen

LEMMA AfterIoSocketOp ==
  ASSUME NEW s \in Sessions, NEW k \in Sockets, s.toGuest <= Window,
         NEW n \in Accepts(s, k)
  PROVE  /\ AfterIoSocket(s, k, n) \in Sockets
         /\ AfterIoSocket(s, k, n).avail = k.avail - Gets(s, k)
         /\ AfterIoSocket(s, k, n).conn = k.conn
         /\ AfterIoSocket(s, k, n).eof = k.eof
         /\ AfterIoSocket(s, k, n).shut = k.shut
<1>1. k.avail - Gets(s, k) \in Nat
  BY IoAmounts DEF Sockets
<1>2. (k.full \/ n < s.toSocket) \in BOOLEAN
  BY DEF Sockets
<1> QED
  BY <1>1, <1>2 DEF AfterIoSocket, Sockets

LEMMA SocketOps ==
  ASSUME NEW k \in Sockets
  PROVE  /\ WriteShut(k) \in Sockets
         /\ WriteShut(k).conn = k.conn /\ WriteShut(k).eof = k.eof
         /\ WriteShut(k).avail = k.avail /\ WriteShut(k).full = k.full
         /\ \A r \in {"up", "refused"} :
              /\ ConnectEnds(k, r) \in Sockets /\ ConnectEnds(k, r).eof = k.eof
              /\ ConnectEnds(k, r).avail = k.avail /\ ConnectEnds(k, r).full = k.full
<1>1. /\ WriteShut(k) \in Sockets
      /\ WriteShut(k).conn = k.conn /\ WriteShut(k).eof = k.eof
      /\ WriteShut(k).avail = k.avail /\ WriteShut(k).full = k.full
  BY DEF WriteShut, Sockets
<1>2. ASSUME NEW r \in {"up", "refused"}
      PROVE  /\ ConnectEnds(k, r) \in Sockets /\ ConnectEnds(k, r).eof = k.eof
             /\ ConnectEnds(k, r).avail = k.avail /\ ConnectEnds(k, r).full = k.full
  BY DEF ConnectEnds, Sockets
<1> QED
  BY <1>1, <1>2

LEMMA MovedOp ==
  ASSUME NEW k \in Sockets, NEW move \in MayMove(k)
  PROVE  /\ Moved(k, move) \in Sockets
         /\ Moved(k, move).conn = k.conn /\ Moved(k, move).shut = k.shut
         /\ k.eof => Moved(k, move).eof /\ Moved(k, move).avail = k.avail
         /\ ~k.full => ~Moved(k, move).full
<1>1. (k.eof \/ move = "eof") \in BOOLEAN /\ (k.dead \/ move = "reset") \in BOOLEAN
      /\ (k.full /\ move # "drain") \in BOOLEAN
  BY DEF Sockets
<1>2. (IF move = "data" THEN k.avail + 1 ELSE k.avail) \in Nat
  BY DEF Sockets
<1>3. k.eof => move # "data"
  BY DEF MayMove
<1> QED
  BY <1>1, <1>2, <1>3 DEF Moved, Sockets
-----------------------------------------------------------------------------
(* Types. *)

LEMMA InitInv == Init => Inv
<1> SUFFICES ASSUME Init PROVE Inv
  OBVIOUS
<1>1. TypeOK
  <2>1. toHost \in Seq(GuestFrames) /\ inbox \in Seq(GuestFrames)
        /\ txPending \in Seq(HostFrames) /\ jobs \in Seq(Jobs)
    BY DEF Init
  <2>2. /\ sess \in [Streams -> Sessions \cup {None}]
        /\ sock \in [Streams -> Sockets \cup {None}]
        /\ gen \in [Streams -> {0, 1}]
    BY DEF Init
  <2> QED
    BY <2>1, <2>2 DEF Init, TypeOK, Pcs
<1>2. Live = {} /\ Pipeline = {} /\ ServicedStreams = {}
  BY DEF Init, Live, Pipeline, ServicedStreams
<1> QED
  BY <1>1, <1>2 DEF Init, Inv, BytesTaken, OneResolvePerId, Answered, AnswersAreOwn,
       SessionsSound, ServicedIsQuiet, PulseFollows, TodoLive

LEMMA AppendType ==
  ASSUME NEW S, NEW q \in Seq(S), NEW e \in S
  PROVE  Append(q, e) \in Seq(S)
  OBVIOUS

LEMMA EmptyType == \A S : <<>> \in Seq(S)
  OBVIOUS

SessionType == sess \in [Streams -> Sessions \cup {None}]
SocketType == sock \in [Streams -> Sockets \cup {None}]

LEMMA ParseTypes ==
  ASSUME TypeOK, inbox # <<>>, NextFrame
  PROVE  /\ Head(inbox) \in GuestFrames
         /\ Head(inbox).stream \in Streams
         /\ Head(inbox).n \in Nat
         /\ inbox' \in Seq(GuestFrames)
<1>1. Head(inbox) \in GuestFrames /\ Tail(inbox) \in Seq(GuestFrames)
  BY DEF TypeOK
<1>2. Head(inbox).stream \in Streams /\ Head(inbox).n \in Nat
  BY <1>1 DEF GuestFrames
<1> QED
  BY <1>1, <1>2 DEF NextFrame

LEMMA DropTypes ==
  ASSUME TypeOK, NEW id \in Streams, Drop(id)
  PROVE  SessionType' /\ SocketType'
  BY DEF TypeOK, Drop, SessionType, SocketType

LEMMA UpdateType ==
  ASSUME TypeOK, NEW id \in Streams, NEW s \in Sessions, Update(id, s)
  PROVE  SessionType'
  BY DEF TypeOK, Update, SessionType

LEMMA EmitType ==
  ASSUME TypeOK, NEW id \in Streams, NEW kind \in HostKinds, NEW n \in Nat,
         Emit(<<Frame(kind, id, n)>>)
  PROVE  txPending' \in Seq(HostFrames)
<1>1. Frame(kind, id, n) \in HostFrames
  BY DEF Frame, HostFrames
<1> QED
  BY <1>1 DEF TypeOK, Emit

LEMMA EndTypes ==
  ASSUME TypeOK, NEW id \in Streams, ResetStream(id) \/ FailOpen(id)
  PROVE  SessionType' /\ SocketType' /\ txPending' \in Seq(HostFrames)
  BY DropTypes, EmitType DEF ResetStream, FailOpen, HostKinds

LEMMA ShutdownType ==
  ASSUME TypeOK, NEW id \in Streams, ShutdownWrite(id)
  PROVE  SocketType'
  BY SocketOps DEF TypeOK, ShutdownWrite, SocketType

LEMMA GuestTypes ==
  ASSUME TypeOK, GuestWrites \/ GuestWritesPart \/ GuestExits
  PROVE  TypeOK'
<1>1. ASSUME NEW f \in Offers PROVE f \in GuestFrames
  <2>1. CASE \E k \in GuestKinds \ {"data", "window"}, id \in Streams : f = Frame(k, id, 0)
    BY <2>1 DEF Frame, GuestFrames
  <2>2. CASE \E k \in {"data", "window"}, id \in Streams, n \in Sizes : f = Frame(k, id, n)
    BY <2>2, BoundsAssumption DEF Frame, GuestFrames, GuestKinds
  <2> QED
    BY <2>1, <2>2 DEF Offers
<1>2. toHost' \in Seq(GuestFrames)
  <2>1. CASE GuestWrites
    <3>1. PICK f \in Offers : toHost' = Append(toHost, f)
      BY <2>1 DEF GuestWrites
    <3> QED
      BY <1>1, <3>1, AppendType DEF TypeOK
  <2> QED
    BY <2>1 DEF TypeOK, GuestWritesPart, GuestExits, wireVars
<1> QED
  BY <1>2 DEF TypeOK, GuestWrites, GuestWritesPart, GuestExits, Pcs, resolverVars,
              parseVars, wireVars

LEMMA HandleTypes ==
  ASSUME TypeOK, Handle
  PROVE  TypeOK'
<1> DEFINE id == Head(inbox).stream
<1>1. NextFrame /\ inbox # <<>>
  BY DEF Handle, HandleOpen, HandleData, HandleClose, HandleRst, HandleWindow,
         HandleUnexpected, Handles
<1>2. id \in Streams /\ Head(inbox).n \in Nat /\ inbox' \in Seq(GuestFrames)
  BY <1>1, ParseTypes
<1>3. sess[id] # None => sess[id] \in Sessions
  BY <1>2 DEF TypeOK
<1> HIDE DEF id
<1>4. CASE HandleOpen
  <2>1. CASE (ResetStream(id) \/ FailOpen(id)) /\ UNCHANGED <<resolving, jobs, failed, gen>>
    BY <1>1, <1>2, <1>4, <2>1, EndTypes
       DEF HandleOpen, NextFrame, TypeOK, wireVars, SessionType, SocketType
  <2>2. CASE /\ StartResolve(id)
             /\ resolving' = resolving \cup {id}
             /\ sess' = [sess EXCEPT ![id] = NewResolving(id)]
             /\ UNCHANGED <<sock, txPending>>
    <3>1. 1 - gen[id] \in {0, 1}
      BY <1>2 DEF TypeOK
    <3>2. NewResolving(id) \in Sessions
      BY <3>1, BoundsAssumption DEF NewResolving, Sessions
    <3>3. /\ [stream |-> id, gen |-> 1 - gen[id]] \in Jobs
          /\ [stream |-> id, gen |-> 1 - gen[id], ok |-> FALSE] \in Answers
      BY <1>2, <3>1 DEF Jobs, Answers
    <3>4. gen' \in [Streams -> {0, 1}]
      BY <2>2, <3>1 DEF StartResolve, TypeOK
    <3>5. jobs' \in Seq(Jobs) /\ failed' \subseteq Answers
      BY <2>2, <3>3, AppendType, ZenonT(60) DEF StartResolve, TypeOK
    <3> QED
      BY <1>1, <1>2, <1>4, <2>2, <3>2, <3>4, <3>5 DEF HandleOpen, NextFrame, TypeOK, wireVars
  <2> QED
    BY <1>4, <2>1, <2>2 DEF HandleOpen, id
<1>5. CASE HandleData
  <2>1. SessionType' /\ SocketType' /\ txPending' \in Seq(HostFrames)
    <3>1. CASE ResetStream(id)
      BY <1>2, <3>1, EndTypes
    <3>2. CASE /\ sess[id] # None /\ Update(id, Buffered(sess[id], Head(inbox).n))
               /\ UNCHANGED <<sock, txPending>>
      BY <1>2, <1>3, <3>2, BufferedOp, UpdateType DEF TypeOK, SocketType
    <3> QED
      BY <1>5, <3>1, <3>2 DEF HandleData, id
  <2> QED
    BY <1>1, <1>2, <1>5, <2>1
       DEF HandleData, NextFrame, TypeOK, wireVars, resolverVars, SessionType, SocketType
<1>6. CASE HandleClose
  <2>1. SessionType' /\ SocketType'
    <3>1. CASE UNCHANGED <<sess, sock>>
      BY <3>1 DEF TypeOK, SessionType, SocketType
    <3>2. CASE sess[id] # None /\ Update(id, GuestClosed(sess[id])) /\ ShutdownWrite(id)
      BY <1>2, <1>3, <3>2, GuestClosedOp, UpdateType, ShutdownType
    <3> QED
      BY <1>6, <3>1, <3>2 DEF HandleClose, id
  <2> QED
    BY <1>1, <1>2, <1>6, <2>1
       DEF HandleClose, NextFrame, TypeOK, wireVars, resolverVars, SessionType, SocketType
<1>7. CASE HandleRst
  BY <1>1, <1>2, <1>7, DropTypes
     DEF HandleRst, NextFrame, TypeOK, wireVars, resolverVars, SessionType, SocketType, id
<1>8. CASE HandleWindow
  <2>1. SessionType'
    <3>1. CASE UNCHANGED sess
      BY <3>1 DEF TypeOK, SessionType
    <3>2. CASE sess[id] # None /\ Update(id, Granted(sess[id], Head(inbox).n))
      BY <1>2, <1>3, <3>2, GrantedOp, UpdateType
    <3> QED
      BY <1>8, <3>1, <3>2 DEF HandleWindow, id
  <2> QED
    BY <1>1, <1>2, <1>8, <2>1
       DEF HandleWindow, NextFrame, TypeOK, wireVars, resolverVars, SessionType
<1>9. CASE HandleUnexpected
  BY <1>1, <1>2, <1>9, EndTypes
     DEF HandleUnexpected, NextFrame, TypeOK, wireVars, resolverVars, SessionType, SocketType, id
<1> QED
  BY <1>4, <1>5, <1>6, <1>7, <1>8, <1>9 DEF Handle

LEMMA HarvestTypes ==
  ASSUME TypeOK, TakeResolved \/ HarvestResolve \/ HarvestDone
  PROVE  TypeOK'
<1>1. CASE TakeResolved \/ HarvestDone
  BY <1>1 DEF TakeResolved, HarvestDone, otherThanResolver, TypeOK, Pcs, wireVars,
              parseVars, resolverVars, Live
<1>2. CASE HarvestResolve
  <2>1. PICK r \in batch :
          /\ batch' = batch \ {r}
          /\ resolving' = resolving \ {r.stream}
          /\ \/ UNCHANGED <<sess, sock, txPending>>
             \/ FailOpen(r.stream)
             \/ /\ StillResolving(r.stream)
                /\ sock' = [sock EXCEPT ![r.stream] = NewSocket]
                /\ Update(r.stream, Connecting(sess[r.stream]))
                /\ UNCHANGED txPending
    BY <1>2 DEF HarvestResolve
  <2>2. r.stream \in Streams
    BY DEF TypeOK, Answers
  <2>3. SessionType' /\ SocketType' /\ txPending' \in Seq(HostFrames)
    <3>1. CASE UNCHANGED <<sess, sock, txPending>>
      BY <3>1 DEF TypeOK, SessionType, SocketType
    <3>2. CASE FailOpen(r.stream)
      BY <2>2, <3>2, EndTypes
    <3>3. CASE /\ StillResolving(r.stream)
               /\ sock' = [sock EXCEPT ![r.stream] = NewSocket]
               /\ Update(r.stream, Connecting(sess[r.stream]))
               /\ UNCHANGED txPending
      <4>1. sess[r.stream] \in Sessions
        BY <2>2, <3>3 DEF StillResolving, TypeOK
      <4>2. NewSocket \in Sockets
        BY DEF NewSocket, Sockets
      <4> QED
        BY <2>2, <3>3, <4>1, <4>2, ConnectingOp, UpdateType DEF TypeOK, SocketType
    <3> QED
      BY <2>1, <3>1, <3>2, <3>3
  <2> QED
    BY <1>2, <2>1, <2>3 DEF HarvestResolve, TypeOK, wireVars, parseVars, SessionType, SocketType
<1> QED
  BY <1>1, <1>2

LEMMA ServiceTypes ==
  ASSUME Inv, Service
  PROVE  TypeOK'
<1> USE DEF Inv
<1>1. todo \subseteq Streams /\ todo' \subseteq todo /\ pc' \in Pcs
  BY DEF Service, ServiceWaiting, ServiceConnected, ServiceRefused, ServiceAborts,
         ServiceIo, ServiceDone, Serviced, otherThanService, TypeOK, Pcs
<1>2. SessionType' /\ SocketType' /\ txPending' \in Seq(HostFrames)
  <2>1. CASE ServiceWaiting \/ ServiceDone
    BY <2>1 DEF ServiceWaiting, ServiceDone, TypeOK, SessionType, SocketType
  <2>2. CASE ServiceRefused \/ ServiceAborts
    BY <1>1, <2>2, EndTypes DEF ServiceRefused, ServiceAborts, TypeOK
  <2>3. CASE ServiceConnected
    <3>1. PICK id \in todo :
            /\ sess[id].state = "connecting"
            /\ Update(id, Connected(sess[id]))
            /\ IF sess[id].guestWriteClosed THEN ShutdownWrite(id) ELSE UNCHANGED sock
            /\ Emit(<<Frame("open_ok", id, 0)>>)
      BY <2>3 DEF ServiceConnected
    <3>2. id \in Streams /\ sess[id] \in Sessions
      BY <1>1 DEF TypeOK, TodoLive, Live
    <3>3. SessionType'
      BY <3>1, <3>2, ConnectedOp, UpdateType
    <3>4. SocketType'
      BY <3>1, <3>2, ShutdownType DEF TypeOK, SocketType
    <3> QED
      BY <3>1, <3>2, <3>3, <3>4, EmitType DEF HostKinds
  <2>4. CASE ServiceIo
    <3>1. PICK id \in todo : \E n \in Accepts(sess[id], sock[id]) :
            /\ IsOpen(sess[id])
            /\ Emit((IF Sent(sess[id], sock[id]) > 0
                        THEN <<Frame("data", id, Sent(sess[id], sock[id]))>> ELSE <<>>)
                     \o (IF Closes(sess[id], sock[id])
                          THEN <<Frame("close", id, 0)>> ELSE <<>>))
            /\ \/ Drop(id)
               \/ /\ Update(id, Remasked(AfterIo(sess[id], sock[id], n)))
                  /\ sock' = [sock EXCEPT ![id] = AfterIoSocket(sess[id], sock[id], n)]
      BY <2>4 DEF ServiceIo
    <3> DEFINE s == sess[id]
    <3> DEFINE k == sock[id]
    <3>2. PICK n \in Accepts(s, k) :
            /\ IsOpen(s)
            /\ Emit((IF Sent(s, k) > 0 THEN <<Frame("data", id, Sent(s, k))>> ELSE <<>>)
                     \o (IF Closes(s, k) THEN <<Frame("close", id, 0)>> ELSE <<>>))
            /\ \/ Drop(id)
               \/ /\ Update(id, Remasked(AfterIo(s, k, n)))
                  /\ sock' = [sock EXCEPT ![id] = AfterIoSocket(s, k, n)]
      BY <3>1
    <3>3. id \in Streams /\ s \in Sessions
      BY <1>1 DEF TypeOK, TodoLive, Live
    <3>4. k \in Sockets /\ s.toGuest <= Window
      BY <3>2, <3>3, NoneAssumption DEF TypeOK, SessionsSound, SessionSound, IsOpen
    <3> HIDE DEF s, k
    <3>5. txPending' \in Seq(HostFrames)
      <4>1. Frame("data", id, Sent(s, k)) \in HostFrames /\ Frame("close", id, 0) \in HostFrames
        BY <3>3, <3>4, IoAmounts DEF Frame, HostFrames, HostKinds
      <4> QED
        BY <3>2, <4>1 DEF Emit, TypeOK
    <3>6. AfterIo(s, k, n) \in Sessions /\ AfterIoSocket(s, k, n) \in Sockets
      BY <3>2, <3>3, <3>4, AfterIoOp, AfterIoSocketOp
    <3>7. SessionType'
      BY <3>2, <3>3, <3>6, RemaskedOp, UpdateType, DropTypes
    <3>8. SocketType'
      BY <3>2, <3>3, <3>6, DropTypes DEF TypeOK, SocketType
    <3> QED
      BY <3>5, <3>7, <3>8
  <2> QED
    BY <2>1, <2>2, <2>3, <2>4 DEF Service
<1> QED
  BY <1>1, <1>2 DEF Service, ServiceWaiting, ServiceConnected, ServiceRefused, ServiceAborts,
       ServiceIo, ServiceDone, Serviced, otherThanService, TypeOK, SessionType, SocketType,
       wireVars, parseVars, resolverVars

Loop == Feed \/ EpollFails \/ Resume \/ Jump \/ Wait \/ WakeByEpoll \/ WakeOtherwise

LEMMA SubSeqType ==
  ASSUME NEW S, NEW q \in Seq(S), NEW n \in 0..Len(q)
  PROVE  SubSeq(q, n + 1, Len(q)) \in Seq(S)
  OBVIOUS

LEMMA LoopTypes ==
  ASSUME TypeOK, Absorb \/ ParseDone \/ Loop \/ Aborted
  PROVE  TypeOK'
<1>1. CASE Feed
  <2>1. txPending' \in Seq(HostFrames)
    BY <1>1, SubSeqType DEF Feed, TypeOK
  <2> QED
    BY <1>1, <2>1 DEF Feed, TypeOK, Pcs, wireVars, parseVars, resolverVars
<1>2. CASE Absorb
  <2>1. toHost' \in Seq(GuestFrames) /\ inbox' \in Seq(GuestFrames) /\ pc' \in Pcs
    BY <1>2, EmptyType DEF Absorb, TypeOK, Pcs
  <2> QED
    BY <1>2, <2>1 DEF Absorb, TypeOK, resolverVars
<1>4. CASE ParseDone \/ Aborted
  BY <1>4 DEF ParseDone, Aborted, TypeOK, Pcs, wireVars, parseVars, resolverVars, vars
<1>3. CASE EpollFails \/ Resume \/ Jump \/ Wait \/ WakeByEpoll \/ WakeOtherwise
  BY <1>3 DEF EpollFails, Resume, Jump, Wait, WakeByEpoll, WakeOtherwise, Gate, Wakes,
              TypeOK, Pcs, wireVars, parseVars, resolverVars
<1> QED
  BY <1>1, <1>2, <1>3, <1>4 DEF Loop

World == Resolver \/ ResolverDies \/ NetworkMoves \/ \E id \in Streams : ConnectCompletes(id)

LEMMA WorldTypes ==
  ASSUME TypeOK, World
  PROVE  TypeOK'
<1>1. CASE ResolverTakes
  <2>1. jobs' \in Seq(Jobs) /\ working' \in Jobs
    BY <1>1 DEF ResolverTakes, TypeOK
  <2> QED
    BY <1>1, <2>1 DEF ResolverTakes, TypeOK, otherThanWorker, wireVars, parseVars
<1>2. CASE ResolverAnswers
  <2>1. PICK ok \in BOOLEAN : answers' = answers \cup
          {[stream |-> working.stream, gen |-> working.gen, ok |-> ok]}
    BY <1>2 DEF ResolverAnswers
  <2>2. [stream |-> working.stream, gen |-> working.gen, ok |-> ok] \in Answers
    BY <1>2 DEF ResolverAnswers, TypeOK, Jobs, Answers
  <2> QED
    BY <1>2, <2>1, <2>2 DEF ResolverAnswers, TypeOK, otherThanWorker, wireVars, parseVars
<1>3. CASE ResolverSignals \/ ResolverDies
  <2>1. jobs' \in Seq(Jobs)
    BY <1>3, EmptyType DEF ResolverSignals, ResolverDies, TypeOK
  <2> QED
    BY <1>3, <2>1 DEF ResolverSignals, ResolverDies, TypeOK, otherThanWorker, wireVars, parseVars
<1>4. CASE NetworkMoves \/ \E id \in Streams : ConnectCompletes(id)
  <2>1. SocketType'
    <3>1. CASE NetworkMoves
      BY <3>1, MovedOp DEF NetworkMoves, TypeOK, SocketType
    <3>2. CASE \E id \in Streams : ConnectCompletes(id)
      BY <3>2, SocketOps DEF ConnectCompletes, TypeOK, SocketType
    <3> QED
      BY <1>4, <3>1, <3>2
  <2> QED
    BY <1>4, <2>1 DEF NetworkMoves, ConnectCompletes, TypeOK, SocketType, otherThanNet,
                      wireVars, parseVars, resolverVars
<1> QED
  BY <1>1, <1>2, <1>3, <1>4 DEF World, Resolver

LEMMA TypePreserved ==
  ASSUME Inv, [Next]_vars
  PROVE  TypeOK'
<1>1. CASE UNCHANGED vars
  BY <1>1 DEF vars, Inv, TypeOK
<1> QED
  BY <1>1, GuestTypes, HandleTypes, HarvestTypes, ServiceTypes, LoopTypes, WorldTypes
     DEF Next, Pump, Loop, World, Inv
-----------------------------------------------------------------------------
(* A step that touches one stream. *)

Local(id) == \A o \in Streams \ {id} : sess'[o] = sess[o] /\ sock'[o] = sock[o]

Ended(id) == sess'[id] = None /\ sock'[id] = None

\* The stream stays, sound, and goes on waiting for its name if it did.
Kept(id) ==
  /\ sess[id] # None /\ sess'[id] \in Sessions
  /\ SessionSound(sess'[id], sock'[id])
  /\ sess'[id].gen = sess[id].gen
  /\ sess[id].state = "resolving" => sess'[id].state = "resolving"

OneStream(id) == Local(id) /\ (Ended(id) \/ Kept(id))

LEMMA DropEnds ==
  ASSUME TypeOK, NEW id \in Streams, Drop(id)
  PROVE  Local(id) /\ Ended(id)
  BY DEF TypeOK, Drop, Local, Ended

LEMMA UpdateLocal ==
  ASSUME TypeOK, NEW id \in Streams, NEW s, Update(id, s)
  PROVE  /\ sess'[id] = s
         /\ \A o \in Streams \ {id} : sess'[o] = sess[o]
  BY DEF TypeOK, Update

LEMMA ShutdownLocal ==
  ASSUME TypeOK, NEW id \in Streams, ShutdownWrite(id)
  PROVE  /\ sock'[id] = IF sock[id] = None THEN None ELSE WriteShut(sock[id])
         /\ \A o \in Streams \ {id} : sock'[o] = sock[o]
  BY DEF TypeOK, ShutdownWrite

LEMMA StreamFacts ==
  ASSUME Inv, NEW id \in Streams
  PROVE  /\ sess[id] # None => /\ sess[id] \in Sessions
                               /\ SessionSound(sess[id], sock[id])
                               /\ sess[id].state # "resolving" => sock[id] \in Sockets
         /\ sess[id] = None => sock[id] = None
  BY DEF Inv, TypeOK, SessionsSound, SessionSound

LEMMA OneStreamSound ==
  ASSUME Inv, NEW id \in Streams, OneStream(id)
  PROVE  SessionsSound'
<1>1. IF sess'[id] = None THEN sock'[id] = None ELSE SessionSound(sess'[id], sock'[id])
  BY NoneAssumption DEF OneStream, Ended, Kept
<1> QED
  BY <1>1 DEF OneStream, Local, Inv, SessionsSound

LEMMA OneStreamOwn ==
  ASSUME Inv, NEW id \in Streams, OneStream(id), Pipeline' \subseteq Pipeline
  PROVE  AnswersAreOwn'
<1> SUFFICES ASSUME NEW j \in Pipeline, sess'[j.stream] # None
             PROVE  sess'[j.stream].state = "resolving" /\ sess'[j.stream].gen = j.gen
  BY DEF AnswersAreOwn
<1>1. j.stream \in Streams
  BY DEF Inv, OneResolvePerId, TypeOK
<1>2. sess[j.stream] # None => sess[j.stream].state = "resolving" /\ sess[j.stream].gen = j.gen
  BY DEF Inv, AnswersAreOwn
<1> QED
  BY <1>1, <1>2 DEF OneStream, Local, Ended, Kept

\* Every frame but an OPEN that starts a resolve.
LEMMA HandleOneStream ==
  ASSUME Inv, Handle, UNCHANGED resolving
  PROVE  \E id \in Streams : OneStream(id)
<1> DEFINE id == Head(inbox).stream
<1>0. TypeOK
  BY DEF Inv
<1>1. NextFrame /\ inbox # <<>>
  BY DEF Handle, HandleOpen, HandleData, HandleClose, HandleRst, HandleWindow,
         HandleUnexpected, Handles
<1>2. id \in Streams /\ Head(inbox).n \in Nat
  BY <1>0, <1>1, ParseTypes
<1> DEFINE s == sess[id]
<1> DEFINE k == sock[id]
<1>3. s = None => k = None
  BY <1>2, StreamFacts
<1>4. s # None => s \in Sessions /\ SessionSound(s, k) /\ (s.state # "resolving" => k \in Sockets)
  BY <1>2, StreamFacts
<1> HIDE DEF id
<1> SUFFICES OneStream(id)
  BY <1>2
<1>5. CASE Drop(id)
  BY <1>0, <1>2, <1>5, DropEnds DEF OneStream
<1>6. CASE HandleOpen
  BY <1>5, <1>6 DEF HandleOpen, IdTaken, ResetStream, FailOpen, id
<1>7. CASE HandleData
  <2>1. CASE s # None /\ Update(id, Buffered(s, Head(inbox).n)) /\ UNCHANGED sock
    <3>1. Kept(id) /\ Local(id)
      BY <1>0, <1>2, <1>4, <2>1, UpdateLocal, BufferedOp DEF Kept, Local, SessionSound, IsOpen
    <3> QED
      BY <3>1 DEF OneStream
  <2> QED
    BY <1>5, <1>7, <2>1 DEF HandleData, ResetStream, id
<1>8. CASE HandleClose
  <2>1. CASE s = None /\ UNCHANGED <<sess, sock>>
    BY <1>3, <2>1 DEF OneStream, Local, Ended
  <2>2. CASE s # None /\ Update(id, GuestClosed(s)) /\ ShutdownWrite(id)
    <3>1. Local(id) /\ sess'[id] = GuestClosed(s)
          /\ sock'[id] = IF k = None THEN None ELSE WriteShut(k)
      BY <1>0, <1>2, <2>2, UpdateLocal, ShutdownLocal DEF Local
    <3>2. Kept(id)
      <4>1. CASE s.state = "resolving"
        BY <1>4, <2>2, <3>1, <4>1, GuestClosedOp DEF Kept, SessionSound, IsOpen
      <4>2. CASE s.state # "resolving"
        <5>1. k \in Sockets /\ k # None
          BY <1>4, <2>2, <4>2, NoneAssumption
        <5>2. WriteShut(k) # None
          BY <5>1, SocketOps, NoneAssumption
        <5> QED
          BY <1>4, <2>2, <3>1, <4>2, <5>1, <5>2, GuestClosedOp, SocketOps DEF Kept, SessionSound, IsOpen
      <4> QED
        BY <4>1, <4>2
    <3> QED
      BY <3>1, <3>2 DEF OneStream
  <2> QED
    BY <1>8, <2>1, <2>2 DEF HandleClose, id
<1>9. CASE HandleWindow
  <2>1. CASE s = None /\ UNCHANGED <<sess, sock>>
    BY <1>3, <2>1 DEF OneStream, Local, Ended
  <2>2. CASE s # None /\ Update(id, Granted(s, Head(inbox).n)) /\ UNCHANGED sock
    <3>1. Kept(id) /\ Local(id)
      BY <1>0, <1>2, <1>4, <2>2, UpdateLocal, GrantedOp DEF Kept, Local, SessionSound, IsOpen
    <3> QED
      BY <3>1 DEF OneStream
  <2> QED
    BY <1>9, <2>1, <2>2 DEF HandleWindow, id
<1>10. CASE HandleRst \/ HandleUnexpected
  BY <1>5, <1>10 DEF HandleRst, HandleUnexpected, ResetStream, id
<1> QED
  BY <1>6, <1>7, <1>8, <1>9, <1>10 DEF Handle
-----------------------------------------------------------------------------
(* The resolver's pipeline. *)

LEMMA PipelineElements ==
  /\ \A i \in DOMAIN jobs : jobs[i] \in Pipeline
  /\ working # None => working \in Pipeline
  /\ \A r \in Answered : [stream |-> r.stream, gen |-> r.gen] \in Pipeline
  BY DEF Pipeline, Answered

LEMMA PipelineCases ==
  ASSUME NEW j \in Pipeline'
  PROVE  \/ \E i \in DOMAIN jobs' : j = jobs'[i]
         \/ working' # None /\ j = working'
         \/ \E r \in Answered' : j = [stream |-> r.stream, gen |-> r.gen]
  BY DEF Pipeline, Answered

LEMMA ResolverKept ==
  ASSUME Inv, UNCHANGED <<jobs, working, answers, failed, batch, resolving>>,
         pc' \notin {"harvest", "aborted"} => pc \notin {"harvest", "aborted"} \/ batch = {}
  PROVE  OneResolvePerId' /\ Pipeline' = Pipeline
<1>1. Pipeline' = Pipeline /\ Answered' = Answered
  BY DEF Pipeline, Answered
<1> QED
  BY <1>1 DEF Inv, OneResolvePerId

\* A fresh resolve of an id nobody holds.
LEMMA StartResolveSound ==
  ASSUME Inv, NEW id \in Streams, StartResolve(id), id \notin resolving,
         sess[id] = None, sess' = [sess EXCEPT ![id] = NewResolving(id)],
         resolving' = resolving \cup {id}, UNCHANGED <<working, answers, batch, pc>>
  PROVE  OneResolvePerId' /\ AnswersAreOwn'
<1> DEFINE g == 1 - gen[id]
<1> DEFINE new == [stream |-> id, gen |-> g]
<1>1. \A j \in Pipeline : j.stream # id /\ j.stream \in Streams
  BY DEF Inv, OneResolvePerId, TypeOK
<1>2. /\ \A i \in DOMAIN jobs : jobs[i].stream # id
      /\ working # None => working.stream # id
      /\ \A r \in Answered : r.stream # id
  <2>1. \A r \in Answered : [stream |-> r.stream, gen |-> r.gen].stream = r.stream
    OBVIOUS
  <2> QED
    BY <1>1, <2>1, PipelineElements
<1>3. /\ \A i \in DOMAIN jobs' : jobs'[i] = new \/ (i \in DOMAIN jobs /\ jobs'[i] = jobs[i])
      /\ \A i, j \in DOMAIN jobs' : jobs'[i] = new /\ jobs'[j] = new => i = j
      /\ \A r \in Answered' : r = [stream |-> id, gen |-> g, ok |-> FALSE] \/ r \in Answered
      /\ (\E i \in DOMAIN jobs' : jobs'[i] = new) =>
            \A r \in Answered' : r \in Answered
  <2>1. CASE alive
    <3>1. jobs' = Append(jobs, new) /\ failed' = failed /\ jobs \in Seq(Jobs)
      BY <2>1 DEF StartResolve, Inv, TypeOK
    <3>2. /\ DOMAIN jobs = 1..Len(jobs) /\ DOMAIN jobs' = 1..(Len(jobs) + 1)
          /\ Len(jobs) \in Nat
          /\ \A i \in 1..Len(jobs) : jobs'[i] = jobs[i]
          /\ jobs'[Len(jobs) + 1] = new
      BY <3>1
    <3>3. Answered' = Answered
      BY <3>1 DEF Answered
    <3>4. \A i \in DOMAIN jobs' : i = Len(jobs) + 1 \/ i \in DOMAIN jobs
      BY <3>2
    <3>5. \A i \in DOMAIN jobs : jobs'[i] = jobs[i] /\ jobs[i] # new
      BY <1>2, <3>2
    <3> QED
      BY <3>2, <3>3, <3>4, <3>5
  <2>2. CASE ~alive
    <3>1. jobs' = jobs /\ failed' = failed \cup {[stream |-> id, gen |-> g, ok |-> FALSE]}
      BY <2>2 DEF StartResolve
    <3>2. \A i \in DOMAIN jobs : jobs[i] # new
      BY <1>2
    <3> QED
      BY <3>1, <3>2 DEF Answered
  <2> QED
    BY <2>1, <2>2
<1> DEFINE newAnswer == [stream |-> id, gen |-> g, ok |-> FALSE]
<1>4. \A j \in Pipeline' : j = new \/ j \in Pipeline
  <2>1. [stream |-> newAnswer.stream, gen |-> newAnswer.gen] = new
    OBVIOUS
  <2>2. \A i \in DOMAIN jobs' : jobs'[i] = new \/ jobs'[i] \in Pipeline
    BY <1>3, PipelineElements
  <2>3. \A r \in Answered' : [stream |-> r.stream, gen |-> r.gen] = new
                             \/ [stream |-> r.stream, gen |-> r.gen] \in Pipeline
    BY <1>3, <2>1, PipelineElements
  <2> QED
    BY <2>2, <2>3, PipelineCases, PipelineElements
<1>5. OneResolvePerId'
  <2> USE DEF Inv, OneResolvePerId
  <2>1. \A j \in Pipeline' : j.stream \in resolving'
    BY <1>4
  <2>2. \A i, j \in DOMAIN jobs' : jobs'[i].stream = jobs'[j].stream => i = j
    BY <1>2, <1>3
  <2>3. \A r, q \in Answered' : r.stream = q.stream => r = q
    <3>1. newAnswer.stream = id
      OBVIOUS
    <3>2. \A r \in Answered' : r = newAnswer \/ (r \in Answered /\ r.stream # id)
      BY <1>2, <1>3
    <3> HIDE DEF newAnswer
    <3> QED
      BY <3>1, <3>2
  <2>4. \A i \in DOMAIN jobs' : \A r \in Answered' : jobs'[i].stream # r.stream
    <3> SUFFICES ASSUME NEW i \in DOMAIN jobs', NEW r \in Answered'
                 PROVE  jobs'[i].stream # r.stream
      OBVIOUS
    <3>1. CASE jobs'[i] = new
      BY <1>2, <1>3, <3>1
    <3>2. CASE jobs'[i] # new /\ r = newAnswer
      BY <1>2, <1>3, <3>2
    <3>3. CASE jobs'[i] # new /\ r \in Answered
      BY <1>3, <3>3
    <3> QED
      BY <1>3, <3>1, <3>2, <3>3
  <2>5. working' # None => /\ \A i \in DOMAIN jobs' : jobs'[i].stream # working'.stream
                           /\ \A r \in Answered' : r.stream # working'.stream
    BY <1>2, <1>3
  <2>6. batch' \cap (answers' \cup failed') = {}
    <3>1. newAnswer \notin batch
      BY <1>2 DEF Answered
    <3> QED
      BY <3>1 DEF StartResolve
  <2> QED
    BY <2>1, <2>2, <2>3, <2>4, <2>5, <2>6
<1>6. AnswersAreOwn'
  <2> SUFFICES ASSUME NEW j \in Pipeline', sess'[j.stream] # None
               PROVE  sess'[j.stream].state = "resolving" /\ sess'[j.stream].gen = j.gen
    BY DEF AnswersAreOwn
  <2>1. CASE j = new
    BY <2>1 DEF Inv, TypeOK, NewResolving
  <2>2. CASE j \in Pipeline
    BY <1>1, <2>2 DEF Inv, TypeOK, AnswersAreOwn
  <2> QED
    BY <1>4, <2>1, <2>2
<1> QED
  BY <1>5, <1>6

LEMMA TakeSound ==
  ASSUME Inv, TakeResolved
  PROVE  OneResolvePerId' /\ AnswersAreOwn'
<1>1. batch = {} \/ pc = "clear"
  BY DEF Inv, OneResolvePerId, TakeResolved
<1>2. Answered' = Answered /\ Pipeline' = Pipeline
  BY DEF Inv, OneResolvePerId, TakeResolved, Answered, Pipeline
<1>3. UNCHANGED <<jobs, working, sess, resolving>>
  BY DEF TakeResolved, otherThanResolver
<1>4. batch' \cap (answers' \cup failed') = {} /\ (pc' # "harvest" => batch' = {})
  BY DEF Inv, OneResolvePerId, TakeResolved
<1> QED
  BY <1>2, <1>3, <1>4 DEF Inv, OneResolvePerId, AnswersAreOwn

\* An answer harvested is the last trace of its resolve.
LEMMA HarvestSound ==
  ASSUME Inv, NEW r \in batch, batch' = batch \ {r},
         resolving' = resolving \ {r.stream},
         UNCHANGED <<jobs, working, answers, failed, pc>>, pc = "harvest"
  PROVE  /\ OneResolvePerId'
         /\ Pipeline' \subseteq Pipeline
         /\ \A j \in Pipeline' : j.stream # r.stream
<1> USE DEF Inv, OneResolvePerId
<1>1. r \in Answered /\ r \notin Answered' /\ Answered' \subseteq Answered
  BY DEF Answered
<1>2. \A q \in Answered' : q.stream # r.stream
  BY <1>1
<1>3. \A i \in DOMAIN jobs : jobs[i].stream # r.stream
  BY <1>1
<1>4. working # None => working.stream # r.stream
  BY <1>1
<1>5. Pipeline' \subseteq Pipeline
  BY DEF Pipeline
<1>6. \A j \in Pipeline' : j.stream # r.stream
  <2>1. \A q \in Answered' : [stream |-> q.stream, gen |-> q.gen].stream # r.stream
    BY <1>2
  <2> QED
    BY <1>3, <1>4, <2>1 DEF Pipeline, Answered
<1>7. OneResolvePerId'
  BY <1>1, <1>5, <1>6
<1> QED
  BY <1>5, <1>6, <1>7

LEMMA ResolverSound ==
  ASSUME Inv, Resolver \/ ResolverDies
  PROVE  OneResolvePerId' /\ AnswersAreOwn'
<1> USE DEF Inv, OneResolvePerId
<1>0. UNCHANGED <<sess, resolving, failed, batch, pc>>
  BY DEF Resolver, ResolverTakes, ResolverAnswers, ResolverSignals, ResolverDies, otherThanWorker
<1>1. CASE ResolverTakes
  <2>1. /\ working = None /\ jobs # <<>> /\ jobs \in Seq(Jobs)
        /\ working' = Head(jobs) /\ jobs' = Tail(jobs) /\ answers' = answers
    BY <1>1 DEF ResolverTakes, TypeOK
  <2>2. /\ 1 \in DOMAIN jobs /\ working' = jobs[1]
        /\ \A i \in DOMAIN jobs' : i \in Nat /\ i + 1 \in DOMAIN jobs /\ jobs'[i] = jobs[i + 1]
        /\ \A i \in DOMAIN jobs' : i + 1 # 1
    BY <2>1
  <2>3. Answered' = Answered
    BY <1>0, <2>1 DEF Answered
  <2>4. Pipeline' \subseteq Pipeline
    BY <1>0, <2>1, <2>2 DEF Pipeline
  <2>5. \A i, j \in DOMAIN jobs' : jobs'[i].stream = jobs'[j].stream => i = j
    <3> SUFFICES ASSUME NEW i \in DOMAIN jobs', NEW j \in DOMAIN jobs',
                        jobs'[i].stream = jobs'[j].stream
                 PROVE  i = j
      OBVIOUS
    <3>1. i + 1 = j + 1
      BY <2>2
    <3> QED
      BY <2>2, <3>1
  <2>6. \A i \in DOMAIN jobs' : jobs'[i].stream # working'.stream
    BY <2>2
  <2>7. \A i \in DOMAIN jobs' : \A r \in Answered' : jobs'[i].stream # r.stream
    BY <2>2, <2>3
  <2>8. \A r \in Answered' : r.stream # working'.stream
    BY <2>2, <2>3
  <2>9. OneResolvePerId'
    BY <1>0, <2>1, <2>3, <2>4, <2>5, <2>6, <2>7, <2>8
  <2> QED
    BY <1>0, <2>4, <2>9 DEF AnswersAreOwn
<1>2. CASE ResolverAnswers
  <2>1. PICK ok \in BOOLEAN : answers' = answers \cup
          {[stream |-> working.stream, gen |-> working.gen, ok |-> ok]}
    BY <1>2 DEF ResolverAnswers
  <2> DEFINE a == [stream |-> working.stream, gen |-> working.gen, ok |-> ok]
  <2>2. working # None /\ working \in Jobs /\ working' = None /\ jobs' = jobs
    BY <1>2 DEF ResolverAnswers, TypeOK
  <2>3. a.stream = working.stream /\ [stream |-> a.stream, gen |-> a.gen] = working
    BY <2>2 DEF Jobs
  <2>4. Answered' = Answered \cup {a}
    BY <1>0, <2>1 DEF Answered
  <2>5. Pipeline' \subseteq Pipeline
    <3>1. \A r \in Answered' : [stream |-> r.stream, gen |-> r.gen] \in Pipeline
      BY <2>2, <2>3, <2>4, PipelineElements
    <3> QED
      BY <2>2, <3>1, PipelineElements, PipelineCases
  <2>6. a \notin Answered
    BY <2>2, <2>3
  <2>7. batch \cap (answers' \cup failed) = {}
    BY <2>1, <2>6 DEF Answered
  <2>8. \A r, q \in Answered' : r.stream = q.stream => r = q
    BY <2>2, <2>3, <2>4
  <2>9. \A i \in DOMAIN jobs' : \A r \in Answered' : jobs'[i].stream # r.stream
    BY <2>2, <2>3, <2>4
  <2>10. OneResolvePerId'
    BY <1>0, <2>2, <2>5, <2>7, <2>8, <2>9
  <2> QED
    BY <1>0, <2>5, <2>10 DEF AnswersAreOwn
<1>3. CASE ResolverSignals
  <2>1. UNCHANGED <<jobs, working, answers>>
    BY <1>3 DEF ResolverSignals
  <2> QED
    BY <1>0, <2>1, ResolverKept DEF AnswersAreOwn
<1>4. CASE ResolverDies
  <2>1. jobs' = <<>> /\ working' = None /\ answers' = answers
    BY <1>4 DEF ResolverDies
  <2>2. Answered' = Answered /\ DOMAIN jobs' = {}
    BY <1>0, <2>1 DEF Answered
  <2>3. Pipeline' \subseteq Pipeline
    BY <1>0, <2>1, <2>2 DEF Pipeline
  <2>4. OneResolvePerId'
    BY <1>0, <2>1, <2>2, <2>3
  <2> QED
    BY <1>0, <2>3, <2>4 DEF AnswersAreOwn
<1> QED
  BY <1>1, <1>2, <1>3, <1>4 DEF Resolver
-----------------------------------------------------------------------------
(* Servicing a stream. *)

ServicesOne(id) ==
  /\ OneStream(id)
  /\ sess'[id] # None /\ IsOpen(sess'[id]) => ServicedSound(sess'[id], sock'[id])

\* run_open_io leaves the stream sound and with nothing it could have done.
LEMMA AfterIoSound ==
  ASSUME NEW s \in Sessions, NEW k \in Sockets, SessionSound(s, k), IsOpen(s),
         ~IoFails(s, k), NEW n \in Accepts(s, k)
  PROVE  /\ SessionSound(Remasked(AfterIo(s, k, n)), AfterIoSocket(s, k, n))
         /\ ServicedSound(Remasked(AfterIo(s, k, n)), AfterIoSocket(s, k, n))
         /\ Remasked(AfterIo(s, k, n)) \in Sessions
         /\ Remasked(AfterIo(s, k, n)).gen = s.gen
<1> DEFINE t == AfterIo(s, k, n)
<1> DEFINE l == AfterIoSocket(s, k, n)
<1> DEFINE u == Remasked(t)
<1>1. s.toGuest <= Window /\ k.conn = "up"
  BY DEF SessionSound
<1>2. /\ t \in Sessions /\ IsOpen(t) /\ t.gen = s.gen
      /\ t.toGuest = Left(s, k) /\ t.toSocket = s.toSocket - n
      /\ t.credit = s.credit - Sent(s, k)
      /\ t.hostReadClosed = SeesEof(s, k)
      /\ t.closeSent = (s.closeSent \/ Closes(s, k))
  BY <1>1, AfterIoOp
<1>3. /\ l \in Sockets /\ l.avail = k.avail - Gets(s, k)
      /\ l.conn = k.conn /\ l.eof = k.eof /\ l.shut = k.shut
  BY <1>1, AfterIoSocketOp
<1>4. /\ Gets(s, k) \in Nat /\ Gets(s, k) <= k.avail
      /\ Sent(s, k) \in Nat /\ Left(s, k) \in Nat /\ Left(s, k) <= Window
      /\ Left(s, k) > 0 => Sent(s, k) = s.credit
  BY <1>1, IoAmounts
<1>5. k.avail \in Nat /\ s.credit \in Nat /\ s.toGuest \in Nat
      /\ s.toSocket \in Nat /\ n \in Nat
  BY DEF Sessions, Sockets, Accepts
<1>6. s.hostReadClosed => k.eof /\ k.avail = 0 /\ Gets(s, k) = 0
  BY DEF SessionSound, Gets
<1>7. SeesEof(s, k) => k.eof /\ k.avail - Gets(s, k) = 0
  BY <1>4, <1>5, <1>6 DEF SeesEof
<1>8. s.closeSent \/ Closes(s, k) => SeesEof(s, k) /\ Left(s, k) = 0
  <2>1. CASE s.closeSent
    <3>1. s.hostReadClosed /\ s.toGuest = 0 /\ Gets(s, k) = 0
      BY <1>6, <2>1 DEF SessionSound
    <3>2. Sent(s, k) = 0
      BY <1>5, <3>1 DEF Sent, AtMost
    <3> QED
      BY <1>5, <3>1, <3>2 DEF SeesEof, Left
  <2>2. CASE Closes(s, k)
    BY <2>2 DEF Closes, CloseNow
  <2> QED
    BY <2>1, <2>2
<1>9. s.toSocket > 0 => ~k.shut
  BY DEF IoFails
<1> HIDE DEF t, l
<1>10. /\ u \in Sessions /\ u.state = t.state /\ u.gen = t.gen
       /\ u.toGuest = t.toGuest /\ u.toSocket = t.toSocket /\ u.credit = t.credit
       /\ u.hostReadClosed = t.hostReadClosed /\ u.closeSent = t.closeSent
       /\ u.mask = MaskOf(u)
  BY <1>2, RemaskedOp
<1>11. IsOpen(u) /\ u.state # "resolving" /\ u.state # "connecting"
  BY <1>2, <1>10 DEF IsOpen
<1> HIDE DEF u
<1>12. SessionSound(u, l)
  BY <1>1, <1>2, <1>3, <1>4, <1>7, <1>8, <1>10, <1>11, NoneAssumption DEF SessionSound
<1>13. ServicedSound(u, l)
  BY <1>2, <1>3, <1>4, <1>5, <1>9, <1>10 DEF ServicedSound
<1> QED
  BY <1>2, <1>10, <1>12, <1>13 DEF u, t, l

LEMMA ServiceOneStream ==
  ASSUME Inv, Service, todo # {}
  PROVE  \E id \in todo : ServicesOne(id) /\ todo' = todo \ {id} /\ UNCHANGED otherThanService
<1>0. TypeOK /\ \A id \in todo : id \in Streams /\ sess[id] # None
  BY DEF Inv, TodoLive, Live, TypeOK
<1> DEFINE Done(id) == todo' = todo \ {id} /\ UNCHANGED otherThanService
<1>1. CASE ServiceWaiting
  <2>1. PICK id \in todo : /\ Done(id) /\ UNCHANGED <<sess, sock>>
                           /\ sess[id].state \in {"resolving", "connecting"}
    BY <1>1 DEF ServiceWaiting, Serviced
  <2>2. Kept(id) /\ Local(id) /\ ~IsOpen(sess'[id])
    BY <1>0, <2>1, StreamFacts DEF Kept, Local, IsOpen
  <2> QED
    BY <2>1, <2>2 DEF ServicesOne, OneStream
<1>2. CASE ServiceRefused \/ ServiceAborts
  <2>1. PICK id \in todo : Done(id) /\ Drop(id)
    BY <1>2 DEF ServiceRefused, ServiceAborts, Serviced, FailOpen, ResetStream
  <2> QED
    BY <1>0, <2>1, DropEnds DEF ServicesOne, OneStream, Ended
<1>3. CASE ServiceConnected
  <2>1. PICK id \in todo :
          /\ Done(id)
          /\ sess[id].state = "connecting" /\ sock[id].conn = "up"
          /\ Update(id, Connected(sess[id]))
          /\ IF sess[id].guestWriteClosed THEN ShutdownWrite(id) ELSE UNCHANGED sock
    BY <1>3 DEF ServiceConnected, Serviced
  <2> DEFINE s == sess[id]
  <2> DEFINE k == sock[id]
  <2>2. /\ id \in Streams /\ s \in Sessions /\ SessionSound(s, k)
        /\ k \in Sockets /\ k # None
    BY <1>0, <2>1, StreamFacts, NoneAssumption
  <2>3. sess'[id] = Connected(s) /\ \A o \in Streams \ {id} : sess'[o] = sess[o]
    BY <1>0, <2>1, <2>2, UpdateLocal
  <2>4. sock'[id] \in {k, WriteShut(k)} /\ \A o \in Streams \ {id} : sock'[o] = sock[o]
    BY <1>0, <2>1, <2>2, ShutdownLocal
  <2>5. /\ sock'[id] # None /\ sock'[id].conn = "up" /\ sock'[id].full = k.full
        /\ sock'[id].eof = k.eof /\ sock'[id].avail = k.avail
    BY <2>1, <2>2, <2>4, SocketOps, NoneAssumption
  <2>6. ~k.full /\ s.toGuest = 0 /\ ~s.hostReadClosed /\ ~s.closeSent
    BY <2>1, <2>2 DEF SessionSound, IsOpen
  <2>7. /\ Connected(s) \in Sessions /\ IsOpen(Connected(s)) /\ Connected(s).gen = s.gen
        /\ Connected(s).toGuest = 0 /\ ~Connected(s).hostReadClosed
        /\ ~Connected(s).closeSent /\ Connected(s).mask = MaskOf(Connected(s))
        /\ Connected(s).state # "resolving" /\ Connected(s).state # "connecting"
    BY <2>2, <2>6, ConnectedOp DEF IsOpen
  <2>8. SessionSound(Connected(s), sock'[id]) /\ ServicedSound(Connected(s), sock'[id])
    BY <2>5, <2>6, <2>7, BoundsAssumption DEF SessionSound, ServicedSound
  <2>9. Kept(id) /\ Local(id)
    BY <1>0, <2>1, <2>3, <2>4, <2>7, <2>8 DEF Kept, Local
  <2> QED
    BY <2>1, <2>3, <2>8, <2>9 DEF ServicesOne, OneStream
<1>4. CASE ServiceIo
  <2>1. PICK id \in todo : \E n \in Accepts(sess[id], sock[id]) :
          /\ Done(id)
          /\ IsOpen(sess[id]) /\ ~IoFails(sess[id], sock[id])
          /\ \/ Drop(id)
             \/ /\ Update(id, Remasked(AfterIo(sess[id], sock[id], n)))
                /\ sock' = [sock EXCEPT ![id] = AfterIoSocket(sess[id], sock[id], n)]
    BY <1>4 DEF ServiceIo, Serviced
  <2> DEFINE s == sess[id]
  <2> DEFINE k == sock[id]
  <2>2. PICK n \in Accepts(s, k) :
          /\ Done(id)
          /\ IsOpen(s) /\ ~IoFails(s, k)
          /\ \/ Drop(id)
             \/ /\ Update(id, Remasked(AfterIo(s, k, n)))
                /\ sock' = [sock EXCEPT ![id] = AfterIoSocket(s, k, n)]
    BY <2>1
  <2>3. /\ id \in Streams /\ s \in Sessions /\ SessionSound(s, k) /\ k \in Sockets
    BY <1>0, <2>2, StreamFacts DEF IsOpen
  <2>4. CASE Drop(id)
    BY <1>0, <2>2, <2>3, <2>4, DropEnds DEF ServicesOne, OneStream, Ended
  <2>5. CASE /\ Update(id, Remasked(AfterIo(s, k, n)))
             /\ sock' = [sock EXCEPT ![id] = AfterIoSocket(s, k, n)]
    <3>1. /\ sess'[id] = Remasked(AfterIo(s, k, n))
          /\ \A o \in Streams \ {id} : sess'[o] = sess[o]
      BY <1>0, <2>3, <2>5, UpdateLocal
    <3>2. /\ sock'[id] = AfterIoSocket(s, k, n)
          /\ \A o \in Streams \ {id} : sock'[o] = sock[o]
      BY <1>0, <2>3, <2>5 DEF TypeOK
    <3>3. SessionSound(sess'[id], sock'[id]) /\ ServicedSound(sess'[id], sock'[id])
          /\ sess'[id] \in Sessions /\ sess'[id].gen = s.gen
      BY <2>2, <2>3, <3>1, <3>2, AfterIoSound
    <3>4. Kept(id) /\ Local(id)
      BY <1>0, <2>2, <3>1, <3>2, <3>3 DEF Kept, Local, IsOpen
    <3> QED
      BY <2>2, <3>3, <3>4 DEF ServicesOne, OneStream
  <2> QED
    BY <2>2, <2>4, <2>5
<1> QED
  BY <1>1, <1>2, <1>3, <1>4 DEF Service, ServiceDone
-----------------------------------------------------------------------------
(* Every step preserves the invariant. *)

LEMMA GuestPreserves ==
  ASSUME Inv, TypeOK', GuestWrites \/ GuestWritesPart \/ GuestExits
  PROVE  Inv'
<1>1. /\ UNCHANGED <<sess, sock, resolving, todo, inbox>> /\ UNCHANGED resolverVars
      /\ pc = "guest" /\ pc' \in {"guest", "absorb"}
  BY DEF GuestWrites, GuestWritesPart, GuestExits, MayWrite, parseVars
<1>2. OneResolvePerId' /\ Pipeline' = Pipeline
  BY <1>1, ResolverKept DEF resolverVars
<1>3. AnswersAreOwn' /\ SessionsSound'
  BY <1>1, <1>2 DEF Inv, AnswersAreOwn, SessionsSound
<1>4. BytesTaken' /\ ServicedIsQuiet' /\ PulseFollows' /\ TodoLive'
  BY <1>1 DEF Inv, BytesTaken, ServicedIsQuiet, ServicedStreams, PulseFollows, TodoLive, Live
<1> QED
  BY <1>2, <1>3, <1>4 DEF Inv

LEMMA HandlePreserves ==
  ASSUME Inv, TypeOK', Handle
  PROVE  Inv'
<1>1. /\ pc = "parse" /\ pc' = "parse" /\ inbox # <<>> /\ NextFrame
      /\ UNCHANGED <<working, answers, batch>>
  BY DEF Handle, HandleOpen, HandleData, HandleClose, HandleRst, HandleWindow,
         HandleUnexpected, Handles, NextFrame, resolverVars
<1>2. OneResolvePerId' /\ AnswersAreOwn' /\ SessionsSound'
  <2>1. CASE UNCHANGED resolving
    <3>1. PICK id \in Streams : OneStream(id)
      BY <2>1, HandleOneStream
    <3>2. UNCHANGED <<jobs, failed>>
      BY <2>1 DEF Handle, HandleOpen, HandleData, HandleClose, HandleRst, HandleWindow,
                  HandleUnexpected, resolverVars, IdTaken
    <3>3. OneResolvePerId' /\ Pipeline' = Pipeline
      BY <1>1, <2>1, <3>2, ResolverKept
    <3> QED
      BY <3>1, <3>3, OneStreamSound, OneStreamOwn
  <2>2. CASE resolving' # resolving
    <3> DEFINE id == Head(inbox).stream
    <3>1. /\ ~IdTaken(id) /\ StartResolve(id)
          /\ resolving' = resolving \cup {id}
          /\ sess' = [sess EXCEPT ![id] = NewResolving(id)]
          /\ UNCHANGED sock
      BY <2>2 DEF Handle, HandleOpen, HandleData, HandleClose, HandleRst, HandleWindow,
                  HandleUnexpected
    <3>2. id \in Streams
      BY <1>1, ParseTypes DEF Inv
    <3> HIDE DEF id
    <3>3. OneResolvePerId' /\ AnswersAreOwn'
      BY <1>1, <3>1, <3>2, StartResolveSound DEF IdTaken
    <3>4. /\ sess'[id] = NewResolving(id) /\ sock'[id] = None
          /\ \A o \in Streams \ {id} : sess'[o] = sess[o] /\ sock'[o] = sock[o]
      BY <3>1, <3>2, StreamFacts DEF IdTaken, Inv, TypeOK
    <3>5. SessionSound(NewResolving(id), None)
      BY BoundsAssumption DEF NewResolving, SessionSound, IsOpen
    <3>6. NewResolving(id) # None
      <4>1. gen \in [Streams -> {0, 1}]
        BY DEF Inv, TypeOK
      <4>2. 1 - gen[id] \in {0, 1}
        BY <3>2, <4>1
      <4>3. NewResolving(id) \in Sessions
        BY <4>2, BoundsAssumption DEF NewResolving, Sessions
      <4> QED
        BY <4>3, NoneAssumption
    <3>7. SessionsSound'
      BY <3>4, <3>5, <3>6 DEF Inv, SessionsSound
    <3> QED
      BY <3>3, <3>7
  <2> QED
    BY <2>1, <2>2
<1>3. BytesTaken' /\ ServicedIsQuiet' /\ PulseFollows'
  BY <1>1 DEF Inv, BytesTaken, NextFrame, wireVars, ServicedIsQuiet, ServicedStreams, PulseFollows
<1>4. TodoLive'
  BY <1>1 DEF Inv, TodoLive, NextFrame
<1> QED
  BY <1>2, <1>3, <1>4 DEF Inv

LEMMA HarvestPreserves ==
  ASSUME Inv, TypeOK', TakeResolved \/ HarvestResolve \/ HarvestDone
  PROVE  Inv'
<1>1. CASE TakeResolved
  <2>1. UNCHANGED otherThanResolver /\ UNCHANGED posted
    BY <1>1 DEF TakeResolved
  <2>2. SessionsSound' /\ BytesTaken' /\ ServicedIsQuiet' /\ TodoLive'
    BY <1>1, <2>1 DEF TakeResolved, otherThanResolver, wireVars, parseVars, Inv, SessionsSound,
         BytesTaken, ServicedIsQuiet, ServicedStreams, TodoLive, Live
  <2>3. PulseFollows'
    BY <1>1 DEF TakeResolved, PulseFollows
  <2> QED
    BY <1>1, <2>2, <2>3, TakeSound DEF Inv
<1>2. CASE HarvestResolve
  <2>1. /\ pc = "harvest" /\ UNCHANGED <<wireVars, parseVars, jobs, working, posted, answers,
                                          failed, event, todo, pc>>
    BY <1>2 DEF HarvestResolve
  <2>2. PICK r \in batch :
          /\ batch' = batch \ {r}
          /\ resolving' = resolving \ {r.stream}
          /\ \/ ~StillResolving(r.stream) /\ UNCHANGED <<sess, sock>>
             \/ Drop(r.stream)
             \/ /\ StillResolving(r.stream)
                /\ sock' = [sock EXCEPT ![r.stream] = NewSocket]
                /\ Update(r.stream, Connecting(sess[r.stream]))
    BY <1>2 DEF HarvestResolve, FailOpen
  <2> DEFINE id == r.stream
  <2>3. id \in Streams
    BY DEF Inv, TypeOK, Answers
  <2>4. OneResolvePerId' /\ Pipeline' \subseteq Pipeline /\ \A j \in Pipeline' : j.stream # id
    BY <2>1, <2>2, HarvestSound
  <2> HIDE DEF id
  <2>5. /\ \A o \in Streams \ {id} : sess'[o] = sess[o] /\ sock'[o] = sock[o]
        /\ IF sess'[id] = None THEN sock'[id] = None ELSE SessionSound(sess'[id], sock'[id])
    <3>1. CASE UNCHANGED <<sess, sock>>
      BY <2>3, <3>1, StreamFacts
    <3>2. CASE Drop(id)
      BY <2>3, <3>2, DropEnds DEF Inv, Local, Ended
    <3>3. CASE /\ StillResolving(id)
               /\ sock' = [sock EXCEPT ![id] = NewSocket]
               /\ Update(id, Connecting(sess[id]))
      <4>1. sess[id] \in Sessions /\ SessionSound(sess[id], sock[id]) /\ sess[id].state = "resolving"
        BY <2>3, <3>3, StreamFacts DEF StillResolving
      <4>2. /\ sess'[id] = Connecting(sess[id]) /\ sock'[id] = NewSocket
            /\ \A o \in Streams \ {id} : sess'[o] = sess[o] /\ sock'[o] = sock[o]
        BY <2>3, <3>3, UpdateLocal DEF Inv, TypeOK
      <4>3. NewSocket \in Sockets /\ ~NewSocket.full
        BY DEF NewSocket, Sockets
      <4>4. NewSocket # None
        BY <4>3, NoneAssumption
      <4>5. SessionSound(Connecting(sess[id]), NewSocket)
        BY <4>1, <4>3, <4>4, ConnectingOp DEF SessionSound, IsOpen
      <4>6. Connecting(sess[id]) # None
        BY <4>1, ConnectingOp, NoneAssumption
      <4> QED
        BY <4>2, <4>5, <4>6
    <3> QED
      BY <2>2, <3>1, <3>2, <3>3 DEF id
  <2>6. SessionsSound'
    BY <2>5 DEF Inv, SessionsSound
  <2>7. AnswersAreOwn'
    <3> SUFFICES ASSUME NEW j \in Pipeline', sess'[j.stream] # None
                 PROVE  sess'[j.stream].state = "resolving" /\ sess'[j.stream].gen = j.gen
      BY DEF AnswersAreOwn
    <3>1. j \in Pipeline /\ j.stream \in Streams \ {id}
      BY <2>4 DEF Inv, OneResolvePerId, TypeOK
    <3> QED
      BY <2>5, <3>1 DEF Inv, AnswersAreOwn
  <2>8. BytesTaken' /\ ServicedIsQuiet' /\ PulseFollows' /\ TodoLive'
    BY <2>1 DEF Inv, wireVars, parseVars, BytesTaken, ServicedIsQuiet, ServicedStreams,
                PulseFollows, TodoLive
  <2> QED
    BY <2>4, <2>6, <2>7, <2>8 DEF Inv
<1>3. CASE HarvestDone
  <2>1. /\ pc = "harvest" /\ pc' = "service" /\ batch = {} /\ todo' = Live
        /\ UNCHANGED <<wireVars, parseVars, sess, sock, resolving, resolverVars>>
    BY <1>3 DEF HarvestDone
  <2>2. OneResolvePerId' /\ Pipeline' = Pipeline
    BY <2>1, ResolverKept DEF resolverVars
  <2>3. AnswersAreOwn' /\ SessionsSound'
    BY <2>1, <2>2 DEF Inv, AnswersAreOwn, SessionsSound
  <2>4. ServicedIsQuiet' /\ TodoLive'
    BY <2>1 DEF ServicedIsQuiet, ServicedStreams, TodoLive, Live
  <2>5. BytesTaken' /\ PulseFollows'
    BY <2>1 DEF Inv, wireVars, parseVars, resolverVars, BytesTaken, PulseFollows
  <2> QED
    BY <2>2, <2>3, <2>4, <2>5 DEF Inv
<1> QED
  BY <1>1, <1>2, <1>3

LEMMA ServicePreserves ==
  ASSUME Inv, TypeOK', Service
  PROVE  Inv'
<1>0. pc = "service"
  BY DEF Service, ServiceWaiting, ServiceConnected, ServiceRefused, ServiceAborts, ServiceIo,
         ServiceDone, Serviced
<1>1. CASE todo # {}
  <2>1. PICK id \in todo : ServicesOne(id) /\ todo' = todo \ {id} /\ UNCHANGED otherThanService
    BY <1>1, ServiceOneStream
  <2>2. id \in Streams /\ OneStream(id) /\ Local(id)
    BY <2>1 DEF Inv, TypeOK, ServicesOne, OneStream
  <2>3. OneResolvePerId' /\ Pipeline' = Pipeline
    BY <1>0, <2>1, ResolverKept DEF otherThanService, resolverVars
  <2>4. AnswersAreOwn' /\ SessionsSound'
    BY <2>2, <2>3, OneStreamSound, OneStreamOwn
  <2>5. BytesTaken' /\ PulseFollows'
    BY <1>0, <2>1 DEF Inv, otherThanService, resolverVars, wireVars, parseVars, BytesTaken, PulseFollows
  <2>6. pc' = "service"
    BY <1>0, <2>1 DEF otherThanService
  <2>7. TodoLive'
    BY <2>1, <2>2, <2>6 DEF Inv, TypeOK, TodoLive, Live, Local
  <2>8. ServicedIsQuiet'
    <3> SUFFICES ASSUME NEW o \in Streams, sess'[o] # None, o \notin todo', IsOpen(sess'[o])
                 PROVE  ServicedSound(sess'[o], sock'[o])
      BY <2>6 DEF ServicedIsQuiet, ServicedStreams, Live
    <3>1. CASE o = id
      BY <2>1, <3>1 DEF ServicesOne
    <3>2. CASE o # id
      <4>1. sess'[o] = sess[o] /\ sock'[o] = sock[o] /\ o \notin todo
        BY <2>1, <2>2, <3>2 DEF Local
      <4> QED
        BY <1>0, <4>1 DEF Inv, ServicedIsQuiet, ServicedStreams, Live
    <3> QED
      BY <3>1, <3>2
  <2> QED
    BY <2>3, <2>4, <2>5, <2>7, <2>8 DEF Inv
<1>2. CASE todo = {}
  <2>1. /\ pc' = "feed"
        /\ UNCHANGED <<wireVars, parseVars, sess, sock, resolving, resolverVars, todo>>
    BY <1>2 DEF Service, ServiceWaiting, ServiceConnected, ServiceRefused, ServiceAborts,
                ServiceIo, ServiceDone
  <2>2. OneResolvePerId' /\ Pipeline' = Pipeline
    BY <1>0, <2>1, ResolverKept DEF resolverVars
  <2>3. AnswersAreOwn' /\ SessionsSound'
    BY <2>1, <2>2 DEF Inv, AnswersAreOwn, SessionsSound
  <2>4. ServicedIsQuiet' /\ TodoLive'
    BY <1>0, <1>2, <2>1 DEF Inv, ServicedIsQuiet, ServicedStreams, TodoLive, Live
  <2>5. BytesTaken' /\ PulseFollows'
    BY <1>0, <2>1 DEF Inv, wireVars, parseVars, resolverVars, BytesTaken, PulseFollows
  <2> QED
    BY <2>2, <2>3, <2>4, <2>5 DEF Inv
<1> QED
  BY <1>1, <1>2

LEMMA LoopPreserves ==
  ASSUME Inv, TypeOK', Absorb \/ ParseDone \/ Loop \/ UNCHANGED vars
  PROVE  Inv'
<1>1. UNCHANGED <<sess, sock, resolving, todo>> /\ UNCHANGED resolverVars
  BY DEF Absorb, ParseDone, Loop, Feed, EpollFails, Resume, Jump, Wait, WakeByEpoll,
         WakeOtherwise, Gate, Wakes, vars, resolverVars
<1>2. \/ pc = "absorb" /\ pc' \in {"parse", "aborted"}
      \/ pc = "parse" /\ pc' = "clear"
      \/ pc = "feed" /\ pc' = "gate"
      \/ pc \in {"harvest", "service"} /\ pc' = "aborted"
      \/ pc = "gate" /\ pc' \in {"guest", "absorb", "wait"}
      \/ pc = "wait" /\ pc' = "absorb"
      \/ pc' = pc /\ UNCHANGED <<wireVars, parseVars>>
  BY DEF Absorb, ParseDone, Loop, Feed, EpollFails, Resume, Jump, Wait, WakeByEpoll,
         WakeOtherwise, Gate, Wakes, vars, wireVars, parseVars
<1>3. OneResolvePerId' /\ Pipeline' = Pipeline
  BY <1>1, <1>2, ResolverKept DEF resolverVars
<1>4. AnswersAreOwn' /\ SessionsSound'
  BY <1>1, <1>3 DEF Inv, AnswersAreOwn, SessionsSound
<1>5. PulseFollows' /\ TodoLive' /\ ServicedIsQuiet'
  BY <1>1, <1>2 DEF Inv, PulseFollows, TodoLive, Live, ServicedIsQuiet, ServicedStreams, resolverVars
<1>6. BytesTaken'
  <2>1. CASE Absorb
    BY <2>1 DEF Absorb, Inv, BytesTaken
  <2>2. CASE ~Absorb
    <3>1. UNCHANGED <<wireVars, parseVars>> /\ (pc = "parse" /\ pc' # "parse" => inbox = <<>>)
      BY <2>2 DEF ParseDone, Loop, Feed, EpollFails, Resume, Jump, Wait, WakeByEpoll,
                  WakeOtherwise, Gate, Wakes, vars, wireVars, parseVars
    <3>2. pc' \notin {"guest", "absorb", "aborted"} => pc \notin {"guest", "absorb", "aborted"}
      BY <2>2 DEF ParseDone, Loop, Feed, EpollFails, Resume, Jump, Wait, WakeByEpoll,
                  WakeOtherwise, Gate, Wakes, vars
    <3> QED
      BY <3>1, <3>2 DEF Inv, BytesTaken, wireVars, parseVars
  <2> QED
    BY <2>1, <2>2
<1> QED
  BY <1>3, <1>4, <1>5, <1>6 DEF Inv

LEMMA WorldPreserves ==
  ASSUME Inv, TypeOK', World
  PROVE  Inv'
<1>1. CASE Resolver \/ ResolverDies
  <2>1. UNCHANGED <<wireVars, parseVars, sess, sock, todo, pc, failed>>
    BY <1>1 DEF Resolver, ResolverTakes, ResolverAnswers, ResolverSignals, ResolverDies, otherThanWorker
  <2>2. SessionsSound' /\ BytesTaken' /\ ServicedIsQuiet' /\ TodoLive'
    BY <2>1 DEF Inv, SessionsSound, BytesTaken, ServicedIsQuiet, ServicedStreams, TodoLive, Live,
                wireVars, parseVars
  <2>3. (answers # {} => event \/ posted) => (answers' # {} => event' \/ posted')
    BY <1>1 DEF Resolver, ResolverTakes, ResolverAnswers, ResolverSignals, ResolverDies, otherThanWorker
  <2>4. PulseFollows'
    BY <2>1, <2>3 DEF Inv, PulseFollows
  <2> QED
    BY <1>1, <2>2, <2>4, ResolverSound DEF Inv
<1>2. CASE NetworkMoves \/ \E id \in Streams : ConnectCompletes(id)
  <2>1. UNCHANGED otherThanNet
    BY <1>2 DEF NetworkMoves, ConnectCompletes
  <2>2. \E id \in Streams :
          /\ sock[id] # None
          /\ \/ \E move \in MayMove(sock[id]) : sock' = [sock EXCEPT ![id] = Moved(sock[id], move)]
             \/ /\ sock[id].conn = "pending"
                /\ \E result \in {"up", "refused"} :
                     sock' = [sock EXCEPT ![id] = ConnectEnds(sock[id], result)]
    BY <1>2 DEF NetworkMoves, ConnectCompletes
  <2>3. PICK id \in Streams :
          /\ sock[id] # None
          /\ \/ \E move \in MayMove(sock[id]) : sock' = [sock EXCEPT ![id] = Moved(sock[id], move)]
             \/ /\ sock[id].conn = "pending"
                /\ \E result \in {"up", "refused"} :
                     sock' = [sock EXCEPT ![id] = ConnectEnds(sock[id], result)]
    BY <2>2
  <2> DEFINE k == sock[id]
  <2> DEFINE s == sess[id]
  <2>4. /\ \A o \in Streams \ {id} : sock'[o] = sock[o]
        /\ k \in Sockets /\ s # None /\ s \in Sessions /\ SessionSound(s, k)
    BY <2>3, StreamFacts DEF Inv, TypeOK
  <2>5. \/ \E move \in MayMove(k) : sock'[id] = Moved(k, move)
        \/ k.conn = "pending" /\ \E result \in {"up", "refused"} : sock'[id] = ConnectEnds(k, result)
    BY <2>3 DEF Inv, TypeOK
  <2>6. sock'[id] # None /\ SessionSound(s, sock'[id])
        /\ (IsOpen(s) => sock'[id].shut = k.shut /\ (~k.full => ~sock'[id].full))
    <3>1. CASE \E move \in MayMove(k) : sock'[id] = Moved(k, move)
      <4>1. PICK move \in MayMove(k) : sock'[id] = Moved(k, move)
        BY <3>1
      <4>2. /\ Moved(k, move) \in Sockets
            /\ Moved(k, move).conn = k.conn /\ Moved(k, move).shut = k.shut
            /\ k.eof => Moved(k, move).eof /\ Moved(k, move).avail = k.avail
            /\ ~k.full => ~Moved(k, move).full
        BY <2>4, MovedOp
      <4> QED
        BY <2>3, <2>4, <4>1, <4>2, NoneAssumption DEF SessionSound
    <3>2. CASE k.conn = "pending" /\ \E result \in {"up", "refused"} : sock'[id] = ConnectEnds(k, result)
      <4>1. PICK result \in {"up", "refused"} : sock'[id] = ConnectEnds(k, result)
        BY <3>2
      <4>2. ~IsOpen(s)
        BY <2>4, <3>2 DEF SessionSound
      <4>3. /\ ConnectEnds(k, result) \in Sockets /\ ConnectEnds(k, result).eof = k.eof
            /\ ConnectEnds(k, result).avail = k.avail /\ ConnectEnds(k, result).full = k.full
        BY <2>4, SocketOps
      <4> QED
        BY <2>3, <2>4, <4>1, <4>2, <4>3, NoneAssumption DEF SessionSound
    <3> QED
      BY <2>5, <3>1, <3>2
  <2>7. sess' = sess
    BY <2>1 DEF otherThanNet
  <2>8. SessionsSound'
    BY <2>4, <2>6, <2>7 DEF Inv, SessionsSound
  <2>9. ServicedIsQuiet'
    <3>1. ServicedStreams' = ServicedStreams /\ ServicedStreams \subseteq Streams
      BY <2>1, <2>7 DEF otherThanNet, ServicedStreams, Live
    <3> SUFFICES ASSUME NEW o \in ServicedStreams, IsOpen(sess[o])
                 PROVE  ServicedSound(sess[o], sock'[o])
      BY <2>7, <3>1 DEF ServicedIsQuiet
    <3>2. ServicedSound(sess[o], sock[o])
      BY DEF Inv, ServicedIsQuiet
    <3> QED
      BY <2>4, <2>6, <3>1, <3>2 DEF ServicedSound
  <2>10. OneResolvePerId' /\ Pipeline' = Pipeline
    BY <2>1, ResolverKept DEF otherThanNet, resolverVars
  <2>11. AnswersAreOwn' /\ BytesTaken' /\ PulseFollows' /\ TodoLive'
    BY <2>1, <2>10 DEF Inv, otherThanNet, resolverVars, wireVars, parseVars, AnswersAreOwn,
                       BytesTaken, PulseFollows, TodoLive, Live
  <2> QED
    BY <2>8, <2>9, <2>10, <2>11 DEF Inv
<1> QED
  BY <1>1, <1>2 DEF World

LEMMA InvPreserved == Inv /\ [Next]_vars => Inv'
<1> SUFFICES ASSUME Inv, [Next]_vars PROVE Inv'
  OBVIOUS
<1>1. TypeOK'
  BY TypePreserved
<1>2. CASE Next
  BY <1>1, <1>2, GuestPreserves, HandlePreserves, HarvestPreserves, ServicePreserves,
     LoopPreserves, WorldPreserves DEF Next, Pump, Loop, World, Aborted
<1> QED
  BY <1>1, <1>2, LoopPreserves

LEMMA InvAlways == Spec => []Inv
  BY InitInv, InvPreserved, PTL DEF Spec
-----------------------------------------------------------------------------
(* What it gives. *)

\* Every variable of the backend, the resolver and the sockets keeps its type,
\* for every window, cap, limit and set of stream ids (egress.rs).
THEOREM TypeCorrect == Spec => []TypeOK
<1>1. Inv => TypeOK
  BY DEF Inv
<1> QED
  BY <1>1, InvAlways, PTL

\* E = 0 at the gate means no socket, no query in flight and no captured byte
\* (is_quiescent, ff_jump_allowed).
THEOREM QuiescenceSound == Spec => []QuiescenceIsReal
<1>1. Inv => QuiescenceIsReal
  <2> SUFFICES ASSUME Inv, pc = "gate", JumpAllowed
               PROVE  /\ \A id \in Streams : sock[id] = None
                      /\ Pipeline = {}
                      /\ toHost = <<>> /\ ~half /\ inbox = <<>>
    BY DEF QuiescenceIsReal
  <2>1. \A id \in Streams : sess[id] = None
    BY DEF JumpAllowed, Quiescent, Live
  <2>2. Pipeline = {}
    BY DEF JumpAllowed, Quiescent, Inv, OneResolvePerId
  <2> QED
    BY <2>1, <2>2 DEF JumpAllowed, Quiescent, Inv, SessionsSound, BytesTaken
<1> QED
  BY <1>1, InvAlways, PTL

\* A late DNS answer never binds to a reused stream id (handle_open,
\* harvest_resolves).
THEOREM OwnAnswers == Spec => []AnswersAreOwn
<1>1. Inv => AnswersAreOwn
  BY DEF Inv
<1> QED
  BY <1>1, InvAlways, PTL

\* CLOSE is framed after the last DATA (run_open_io).
THEOREM CloseAfterData == Spec => []CloseIsLast
<1>1. Inv => CloseIsLast
  BY StreamFacts DEF CloseIsLast, SessionSound, Live
<1> QED
  BY <1>1, InvAlways, PTL

\* A stream or an answer the pump could advance makes the epoll fd readable
\* while the thread waits on it (update_epoll, take_resolved).
THEOREM NoLostWakeup == Spec => []WaitIsCovered
<1>1. Inv => WaitIsCovered
  <2> SUFFICES ASSUME Inv, pc = "wait"
               PROVE  /\ answers \cup failed # {} => event \/ posted
                      /\ \A id \in Live :
                           sock[id] # None /\ HasWork(sess[id], sock[id]) => EpollReady
    BY DEF WaitIsCovered
  <2>1. answers \cup failed # {} => event \/ posted
    BY DEF Inv, PulseFollows
  <2>2. ASSUME NEW id \in Live, sock[id] # None, HasWork(sess[id], sock[id])
        PROVE  EpollReady
    <3> DEFINE s == sess[id]
    <3> DEFINE k == sock[id]
    <3>1. id \in Streams /\ s # None /\ s \in Sessions /\ SessionSound(s, k)
      BY StreamFacts DEF Live
    <3>2. k \in Sockets
      BY <2>2, <3>1 DEF Inv, TypeOK
    <3>3. IsOpen(s) => ServicedSound(s, k)
      BY DEF Inv, ServicedIsQuiet, ServicedStreams
    <3> SUFFICES FdReady(s, k)
      BY <2>2 DEF EpollReady
    <3> HIDE DEF s, k
    <3>4. CASE s.state = "connecting"
      <4>1. k.conn # "pending" /\ s.mask = {"in", "out"} /\ ~k.full
        BY <2>2, <3>1, <3>4 DEF HasWork, IsOpen, SessionSound, s, k
      <4> QED
        BY <3>2, <4>1 DEF FdReady, Sockets
    <3>5. CASE IsOpen(s)
      <4>1. k.conn = "up" /\ s.mask = MaskOf(s) /\ (s.toGuest > 0 => s.credit = 0)
            /\ (s.toSocket > 0 /\ k.shut => ~k.full)
        BY <3>1, <3>3, <3>5 DEF SessionSound, ServicedSound
      <4>2. s.toGuest \in Nat /\ s.credit \in Nat /\ s.toSocket \in Nat
        BY <3>1 DEF Sessions
      <4>3. \/ IoFails(s, k)
            \/ s.toSocket > 0 /\ ~k.full
            \/ ~s.hostReadClosed /\ s.toGuest < Window /\ (k.avail > 0 \/ k.eof)
        BY <2>2, <3>5, <4>1, <4>2 DEF HasWork, IsOpen, s, k
      <4>4. CASE k.dead
        BY <4>4 DEF FdReady
      <4>5. CASE s.toSocket > 0 /\ ~k.full
        BY <4>1, <4>5 DEF FdReady, MaskOf
      <4>6. CASE ~s.hostReadClosed /\ s.toGuest < Window /\ (k.avail > 0 \/ k.eof)
        BY <4>1, <4>6 DEF FdReady, MaskOf
      <4> QED
        BY <4>1, <4>3, <4>4, <4>5, <4>6 DEF IoFails
    <3> QED
      BY <2>2, <3>4, <3>5 DEF HasWork, s, k
  <2> QED
    BY <2>1, <2>2
<1> QED
  BY <1>1, InvAlways, PTL
=============================================================================
