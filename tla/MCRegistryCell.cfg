SPECIFICATION Spec
CONSTANTS
    Names = {"tinyauth", "dev-gateway", "web", "Bad"}
    MalformedNames = {"Bad"}
    Subdomains = {"app"}
    WildSubdomains = {"*.dev"}
    Hosts = {"app.org", "x.app.org"}
    WildHosts = {"*.app.org"}
    ParentHosts = {"app.parent"}
    Upstreams = {"up", "up2"}
    Roots = {"dist"}
    Programs = {"p"}
    Privates = {"q"}
    Abouts = {"t"}
    Absent = Absent
    Candidates <- MCCandidates
    InitialContents = {}
    RequestHosts = {"app.org", "x.app.org", "y.x.app.org"}
    Suffixed <- MCSuffixed
    OneLabel <- MCOneLabel
INVARIANTS
    TypeOK
    BrokerGatesServed
    PublishedUrlsAreRoutes
    PortalShowsWhatIsDeployed
    GatewayFollowsCaddy
