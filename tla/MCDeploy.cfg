SPECIFICATION Spec
CONSTANTS
    Names = {"caddy", "web", "site"}
    MalformedNames = {}
    Subdomains = {"app"}
    WildSubdomains = {}
    Hosts = {}
    WildHosts = {}
    ParentHosts = {}
    Upstreams = {"up"}
    Roots = {"dist"}
    Programs = {"p"}
    Privates = {"q", "q2"}
    Abouts = {"t", "t2"}
    Absent = Absent
    Runs = {p1}
    Kinds = {"sync", "apply", "validate", "preview", "reload"}
    RegistryContents <- MCContents
    Missing = Missing
    Blank = Blank
    Garbled = Garbled
    Foreign = Foreign
INVARIANTS
    TypeOK
    DeploymentsConverge
    PreviewIsExact
