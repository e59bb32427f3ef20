CONSTANTS
    W = 3
    Syms <- MCSyms
    BoundedNames <- MCSyms
    EntryNames = {"I6e"}
    CircName <- MCCirc
    AliasBase = 2
    External = {4, 5}
    Mmrs = {6}
    Image <- MCImage
    Traces <- MCTraces
SPECIFICATION Spec
INVARIANTS Bounded Covered
PROPERTY Terminates
CHECK_DEADLOCK FALSE
