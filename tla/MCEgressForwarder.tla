-------------------------- MODULE MCEgressForwarder -------------------------
(* Model checking of EgressForwarder on one or two connections. *)
EXTENDS EgressForwarder, TLC

CONSTANTS c1, c2

MCOne == {c1}
MCTwo == {c1, c2}

\* One connection that carries everything, or two that follow each other, or
\* meet, on the same id.
MCLoads == {c1 :> "full" @@ c2 :> "absent", c1 :> "uploads" @@ c2 :> "brief"}

MCFull == {c1 :> "full"}
=============================================================================
