\* As many characters as the buffer has.
SPECIFICATION Spec
CONSTANTS
    Typings <- LongLine
    Leftovers = {}
    MaxLine = 80
    Spare = 519
    MaxArgs = 5
INVARIANTS
    LineFits
\* A line that grows as far as g.argc ends what can be said.
CHECK_DEADLOCK FALSE
