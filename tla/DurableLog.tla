----------------------------- MODULE DurableLog -----------------------------
(***************************************************************************)
(* What an asynchronous logger promises, whatever its buffers and          *)
(* goroutines: an entry is refused only by a log that is closing or full;  *)
(* an accepted entry is pending until it is handed to the store, once; the *)
(* store keeps it or reports it lost; and the log is sealed only when      *)
(* nothing is pending, after which nothing more is accepted or stored.     *)
(***************************************************************************)
EXTENDS Naturals, FiniteSets

CONSTANTS Entries,
          Capacity   \* how many pending entries the log has to take

VARIABLES pending,  \* accepted and not yet handed to the store
          refused,  \* dropped by the call that offered them
          stored,   \* kept by the store
          lost,     \* part of a batch the store failed to write
          closing,  \* somebody has asked for the end
          sealed    \* the store is closed

logVars == <<pending, refused, stored, lost, closing, sealed>>

Init ==
    /\ pending = {} /\ refused = {} /\ stored = {} /\ lost = {}
    /\ closing = FALSE /\ sealed = FALSE

\* Nothing has become of e yet.
Fresh(e) == e \notin pending \cup refused \cup stored \cup lost

Accept(e) ==
    /\ ~sealed
    /\ Fresh(e)
    /\ pending' = pending \cup {e}
    /\ UNCHANGED <<refused, stored, lost, closing, sealed>>

Refuse(e) ==
    /\ closing \/ Cardinality(pending) >= Capacity
    /\ Fresh(e)
    /\ refused' = refused \cup {e}
    /\ UNCHANGED <<pending, stored, lost, closing, sealed>>

BeginClosing ==
    /\ closing' = TRUE
    /\ UNCHANGED <<pending, refused, stored, lost, sealed>>

\* One batch leaves; the store keeps some of it and loses the rest.
HandOver(batch, kept) ==
    /\ ~sealed
    /\ pending' = pending \ batch
    /\ stored' = stored \cup kept
    /\ lost' = lost \cup (batch \ kept)
    /\ UNCHANGED <<refused, closing, sealed>>

Seal ==
    /\ closing /\ ~sealed
    /\ pending = {}
    /\ sealed' = TRUE
    /\ UNCHANGED <<pending, refused, stored, lost, closing>>

Next ==
    \/ \E e \in Entries : Accept(e) \/ Refuse(e)
    \/ BeginClosing
    \/ \E batch \in SUBSET pending : \E kept \in SUBSET batch : HandOver(batch, kept)
    \/ Seal

Spec == Init /\ [][Next]_logVars

=============================================================================
