\* Four requests reach a reload that overtakes another load, and a new key reaches the
\* page limit; two codes reach the late reply of a modal that was closed and opened
\* again; two calls reach a change that a load reads before, and every reply of the
\* staff page.
SPECIFICATION Spec
CONSTANTS
    Others = 2
    PageLimit = 2
    MaxSent = 4
    Phones = {p1, p2}
    Life = 2
    MaxFetches = 2
    MaxUsers = 2
    Named = {1}
    PageSize = 1
    Filters = {"admin"}
    MaxCalls = 2
CHECK_DEADLOCK FALSE
INVARIANTS
    TypeOK
    AtRestAgrees
    TableAgrees
    ShownCodeWorks
    PairsOnce
PROPERTIES
    PageSettles
