--------------------------- MODULE MCAsyncLogger ---------------------------
(* Model values for the run of AsyncLogger. *)
EXTENDS AsyncLogger

CONSTANTS e1, e2, e3, e4

FourEntries == {e1, e2, e3, e4}
=============================================================================
