SPECIFICATION Spec
CONSTANTS
    Processes = {p1, p2}
    Keys = {"user", "token"}
    Values = {"old", "new"}
    None = None
SYMMETRY Symmetric
INVARIANTS
    TypeOK
    NoUpdateIsLost
    NothingIsLeftBehind
