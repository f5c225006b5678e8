--------------------------- MODULE MCOAuthManager ---------------------------
(* Two instances; two handlers on the first, so that the mutex matters. *)
EXTENDS OAuthManager, TLC

CONSTANTS a, b, a1, a2, b1

MCHome == (a1 :> a) @@ (a2 :> a) @@ (b1 :> b)
=============================================================================
