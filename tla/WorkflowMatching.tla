-------------------------- MODULE WorkflowMatching --------------------------
(***************************************************************************)
(* How a request finds its workflow (internal/workflows/service.go,        *)
(* matchCompiled).  A scope names a provider, a model and a user path; ""  *)
(* and << >> stand for "any".  A user path is the sequence of its          *)
(* segments, the first of which is the root: "/team/a" is                  *)
(* <<"/", "team", "a">>.                                                   *)
(***************************************************************************)
EXTENDS Integers, Sequences, SequencesExt

Unnamed == ""

Scope(p, m, path) == [provider |-> p, model |-> m, path |-> path]

GlobalScope == Scope(Unnamed, Unnamed, << >>)

(* The path itself, then each of its parents up to the root. *)
UserPathAncestors(path) ==
    [i \in 1 .. Len(path) |-> SubSeq(path, 1, Len(path) + 1 - i)]

(* Mutant: the provider is tried before its models. *)
ScopesAtSwapped(sel, path) == <<Scope(sel.provider, Unnamed, path),
                                Scope(sel.provider, sel.model, path),
                                Scope(Unnamed, Unnamed, path)>>

(* The scopes looked up for one path, or for none, in their order. *)
ScopesAt(sel, path) == <<Scope(sel.provider, sel.model, path),
                         Scope(sel.provider, Unnamed, path),
                         Scope(Unnamed, Unnamed, path)>>

(* Which of them a request has the names for. *)
Tried(sel) == {k \in 1 .. 3 : /\ k <= 2 => sel.provider # Unnamed
                              /\ k = 1 => sel.model # Unnamed}

(* Every scope a request may match: each ancestor's, then those without a  *)
(* path.                                                                   *)
Paths(sel) == Append(UserPathAncestors(sel.path), << >>)

Candidates(sel) ==
    [p \in (1 .. Len(Paths(sel))) \X Tried(sel) |-> ScopesAt(sel, Paths(sel)[p[1]])[p[2]]]

Before(p, q) == p[1] < q[1] \/ (p[1] = q[1] /\ p[2] < q[2])

(* The first candidate in the set of scopes that have an active workflow. *)
MatchedScope(loaded, candidates) ==
    LET hits == {p \in DOMAIN candidates : candidates[p] \in loaded}
    IN  candidates[CHOOSE p \in hits : \A q \in hits : ~Before(q, p)]

-----------------------------------------------------------------------------
(* Reference: the precedence as docs/advanced/workflows.mdx states it.     *)

Covers(s, sel) == /\ s.provider \in {Unnamed, sel.provider}
                  /\ s.model \in {Unnamed, sel.model}
                  /\ IsPrefix(s.path, sel.path)

(* The scopes that cover a request; a model is named with its provider. *)
Covering(sel) ==
    {s \in [provider : {Unnamed, sel.provider}, model : {Unnamed, sel.model},
            path : {SubSeq(sel.path, 1, n) : n \in 0 .. Len(sel.path)}] :
        s.model # Unnamed => s.provider # Unnamed}

(* A deeper path first, then provider and model, then provider. *)
MoreSpecific(s, t) ==
    \/ Len(s.path) > Len(t.path)
    \/ Len(s.path) = Len(t.path) /\ s.model # Unnamed /\ t.model = Unnamed
    \/ Len(s.path) = Len(t.path) /\ s.model = t.model
                                 /\ s.provider # Unnamed /\ t.provider = Unnamed
=============================================================================
