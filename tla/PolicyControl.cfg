\* One gateway, two admins, a request; one write it is not told of.
SPECIFICATION Spec
CONSTANTS
    a1 = a1
    a2 = a2
    r1 = r1
    g1 = g1
    Guardrails <- OneGuardrail
    MaxRevision = 2
    Scopes <- TwoScopes
    RefSets <- WithOrWithout
    MaxVersions = 3
    Admins <- TwoAdmins
    Requests <- OneRequest
    Selectors <- Callers
    ConfigRules <- OneGuardrail
    MaxUnseen = 1
SYMMETRY AdminsInterchangeable
INVARIANTS
    TypeOK
    AckedRevisionServed
    OwnVersionsServed
    UnguardedOnlyIfRetired
    RefsResolvable
    MostSpecificMatched
