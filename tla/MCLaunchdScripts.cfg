SPECIFICATION FairSpec
CONSTANTS
    Agents = {"web", "task"}
    Caddy = "caddy"
    Plists = {"v1", "v2"}
    None = None
    Scripts = {s1}
    Commands = {"install", "load", "uninstall", "unload", "start", "stop", "restart"}
    Generations <- MCGenerations
INVARIANTS
    TypeOK
    LoadConverges
    IngressFirst
    NoBootstrapWhileLeaving
PROPERTY
    ScriptsEnd
