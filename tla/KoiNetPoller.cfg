SPECIFICATION Spec
CONSTANTS
    c = c
    p = p
    None = none
    MaxEarly = 1
    MaxRestarts = 0
INVARIANTS PollerSurvives
CHECK_DEADLOCK FALSE
