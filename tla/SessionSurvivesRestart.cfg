SPECIFICATION Spec
CONSTANTS
    a = a
    b = b
    a1 = a1
    a2 = a2
    b1 = b1
    Instances = {a, b}
    Handlers = {a1, a2, b1}
    home <- MCHome
    MaxToken = 3
    None = None
    Torn = Torn
INVARIANT SessionSurvivesRestart
