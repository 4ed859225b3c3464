SPECIFICATION Spec
CONSTANTS
    Names = {"system", "web"}
    MalformedNames = {}
    Subdomains = {"app"}
    WildSubdomains = {}
    Hosts = {}
    WildHosts = {}
    ParentHosts = {}
    Upstreams = {"up"}
    Roots = {"dist"}
    Programs = {"p"}
    Privates = {"q"}
    Abouts = {"t"}
    Absent = Absent
    Candidates <- MCCandidates
    Targets = {"system"}
    Writers = {w1, w2}
    Inodes = {i1, i2, i3, i4}
    NoInode = NoInode
    Blank = Blank
    Garbled = Garbled
    InitialContents <- MCOtherService
INVARIANT
    LiveIsWhole
