SPECIFICATION Spec
CONSTANTS
    Names = {"caddy", "admin", "web"}
    MalformedNames = {}
    Subdomains = {"app"}
    WildSubdomains = {}
    Hosts = {}
    WildHosts = {}
    ParentHosts = {}
    Upstreams = {"up"}
    Roots = {"dist"}
    Programs = {"p"}
    Privates = {"q"}
    Abouts = {"t", "probed"}
    Absent = Absent
    Requests = {p1}
    Users = {"alice"}
    Username = "operator"
    ProxySecretSet = TRUE
    PasswordSet = TRUE
    RegistryContents <- MCContents
    Readings <- MCReadings
    Probed = {"probed"}
    NoEvent = NoEvent
INVARIANTS
    TypeOK
    ScriptsAreAuthorised
    AnswersAreAudited
    ActorIsAuthenticated
    TriageAgrees
    OffersAreAccepted
    PortalNeverRosier
