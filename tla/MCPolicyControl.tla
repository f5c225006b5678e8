-------------------------- MODULE MCPolicyControl --------------------------
(* Model values for the runs of PolicyControl. *)
EXTENDS PolicyControl

CONSTANTS a1, a2, r1, g1

TwoAdmins    == {a1, a2}
OneRequest   == {r1}
OneGuardrail == {g1}
WithOrWithout == {{}, {g1}}

TeamScope == Scope("", "", <<"/", "team">>)
TwoScopes == {GlobalScope, TeamScope}

TeamUser == Scope("p", "m", <<"/", "team", "ann">>)
Anyone   == Scope("p", "m", <<"/">>)
Callers  == {TeamUser, Anyone}

AdminsInterchangeable == Permutations(TwoAdmins)
=============================================================================
