--------------------------- MODULE MCGuestControl ---------------------------
(* Instances of GuestControl: two clients, room for one or for both, two        *)
(* services, two addresses each.                                               *)
EXTENDS GuestControl

CONSTANTS d1, d2, a, b

MCScript ==
  (d1 :> {Request("partition", a, b, None), Request("start", a, None, None),
          Request("finish", None, None, 1)}) @@
  (d2 :> {Request("kill", a, None, None), Request("finish", None, None, None),
          Request("heal", b, a, None), Request("heal", None, None, None),
          Request("bad", None, None, None), Request("exec", a, None, None),
          Request("ping", None, None, None), Request("unknown", None, None, None),
          Request("containers", None, None, None), Request("logs", a, None, None)})

MCMaxReq == (d1 :> 2) @@ (d2 :> 1)
=============================================================================
