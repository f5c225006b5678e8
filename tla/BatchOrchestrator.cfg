\* One batch with a billable item, two concurrent requests about it, and an
\* input file that aliases and guardrails may both rewrite.
SPECIFICATION Spec
CONSTANTS
    h1 = h1
    h2 = h2
    i1 = i1
    Handlers <- TwoHandlers
    Items <- OneItem
    Preparers = 2
SYMMETRY Interchangeable
INVARIANTS
    TypeOK
    UsageAccounted
    NothingOrphaned
    InputKeptWhileRunning
    FreshAnswers
