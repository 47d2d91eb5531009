---------------------------- MODULE MCEgressMux -----------------------------
(***************************************************************************)
(* EgressMux for TLC: one id, reused after every session; one byte fills a *)
(* socket buffer, two fill the window and three overrun it.                *)
(***************************************************************************)
EXTENDS EgressMux

MCStreams == {1}
MCSizes == {1, 2}

Codec == INSTANCE EgressCodec

\* Buffers that begin with a header, good or bad, and up to three bytes more.
MCBuffers ==
  {<<ver, ty, 3, 1, len, 0>> \o body :
     ver \in {1, 2}, ty \in 0..8, len \in 0..4,
     body \in UNION {[1..n -> {1, 5, 6}] : n \in 0..4}}

\* What decode accepts is what encode writes for that frame, and no more of the
\* buffer; what it turns away has the wrong version, an unknown type or a length
\* the type cannot have.
ASSUME CodecAssumption ==
  \A b \in MCBuffers :
    LET d == Codec!Decode(b) IN
      /\ d.is = "frame" => /\ Codec!Encodable(d.frame)
                           /\ SubSeq(b, 1, d.consumed) = Codec!Encode(d.frame)
      /\ d.is = "error" <=> \/ b[1] = 2
                            \/ Len(b) >= 6 + b[5] /\ ~Codec!LegalLength(b[2], b[5])
=============================================================================
