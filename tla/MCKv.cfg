\* No deadlock check: the bounds on operations, terms and entries end the run.
SPECIFICATION Spec
VIEW Distinct
SYMMETRY Symmetric
CONSTANTS
    c1 = c1
    c2 = c2
    Client = {c1, c2}
    Server = {s1, s2}
    Key = {k}
    None = None
    Absent = Absent
    Noop = Noop
    Scenarios <- AllScenarios
INVARIANTS
    NeverStuck
    AnswersAreToTheirQuestion
    WaitingIsOwn
    MachineIsItsPrefix
PROPERTY IsLinearizable
CHECK_DEADLOCK FALSE
