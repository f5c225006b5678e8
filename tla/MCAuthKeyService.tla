-------------------------- MODULE MCAuthKeyService --------------------------
(* Model values for the runs of AuthKeyService. *)
EXTENDS AuthKeyService

CONSTANTS h1, h2, k1

TwoHandlers == {h1, h2, Refresher}
OneKey      == {k1}
=============================================================================
