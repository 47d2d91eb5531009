---------------------------- MODULE MCLogCapture ----------------------------
(* Instance of LogCapture: two services and one with an unsafe name.           *)
EXTENDS LogCapture

CONSTANTS s1, s2, bad

MCServiceSeq == <<s1, bad, s2>>

MCLogged == (s1 :> 3) @@ (bad :> 0) @@ (s2 :> 1)
=============================================================================
