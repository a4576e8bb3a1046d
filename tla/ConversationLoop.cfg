\* Safety: four events, two commands, two handlers at a time.
CONSTANTS
    Commands = {c1, c2}
    Handlers = {h1, h2, h3, h4}
    NoCommand = NoCommand
    MaxConcurrent = 2
SPECIFICATION Spec
SYMMETRY Symmetry
CHECK_DEADLOCK FALSE
INVARIANTS TypeOK OnlyConfirmedExecutes OneEffect SuccessNotesTruthful OneOutcome
PROPERTY NoResurrection
