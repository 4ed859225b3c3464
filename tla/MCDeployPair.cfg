SPECIFICATION Spec
CONSTANTS
    Names = {"web"}
    MalformedNames = {}
    Subdomains = {"app"}
    WildSubdomains = {}
    Hosts = {}
    WildHosts = {}
    ParentHosts = {}
    Upstreams = {"up"}
    Roots = {"dist"}
    Programs = {"p"}
    Privates = {"q", "q2"}
    Abouts = {"t", "t2"}
    Absent = Absent
    Runs = {p1, p2}
    Kinds = {"sync", "reload"}
    RegistryContents <- MCPair
    Missing = Missing
    Blank = Blank
    Garbled = Garbled
    Foreign = Foreign
SYMMETRY MCAnyRun
INVARIANTS
    DeploymentsConverge
    ServedAsDeployed
