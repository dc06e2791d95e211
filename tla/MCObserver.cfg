SPECIFICATION Spec
SYMMETRY Alike
CONSTANTS
    a = a
    b = b
    Settings <- AllSettings
INVARIANTS
    MatchingIsChecked
    CommittedIsChecked
    NoFalseAlarms
    ChangesAreChecked
PROPERTY LeadersAreChecked
