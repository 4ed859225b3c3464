SPECIFICATION Spec
CONSTANTS
    Names = {"tinyauth", "web"}
    MalformedNames = {}
    Subdomains = {"app"}
    WildSubdomains = {}
    Hosts = {}
    WildHosts = {}
    ParentHosts = {}
    Upstreams = {"up"}
    Roots = {"dist"}
    Programs = {"p"}
    Privates = {"q"}
    Abouts = {"t"}
    Absent = Absent
    Candidates <- MCCandidates
    Targets = {"tinyauth", "web"}
    Writers = {w1}
    Inodes = {i1, i2}
    NoInode = NoInode
    Blank = Blank
    Garbled = Garbled
    InitialContents <- MCInitialContents
INVARIANTS
    TypeOK
    LiveIsWhole
    ReportsAreTrue
PROPERTY
    EditsAreAtomic
