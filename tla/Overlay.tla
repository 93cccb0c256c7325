------------------------------- MODULE Overlay -------------------------------
(***************************************************************************)
(* Laying one function over another, and the function of a single point:   *)
(* what module TLC calls @@ and :>, spelled out so that a proof can unfold *)
(* them.                                                                   *)
(***************************************************************************)

f @@ g ==
    [x \in (DOMAIN f) \cup (DOMAIN g) |-> IF x \in DOMAIN f THEN f[x] ELSE g[x]]

x :> y == [z \in {x} |-> y]
=============================================================================
