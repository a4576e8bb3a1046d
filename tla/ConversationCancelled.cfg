\* Three events one after the other: propose, confirm, cancel.
CONSTANTS
    Commands = {c1}
    Handlers = {h1, h2, h3}
    NoCommand = NoCommand
    MaxConcurrent = 1
SPECIFICATION Spec
SYMMETRY Symmetry
CHECK_DEADLOCK FALSE
INVARIANT CancelledNeverExecuted
