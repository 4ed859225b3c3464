SPECIFICATION Spec
CONSTANTS
    Agents = {}
    Caddy = "caddy"
    Plists = {"v1"}
    None = None
    Syncs = {s1, s2}
INVARIANTS
    TypeOK
    CaddyCanRestart
    OriginalIsKept
    SuccessServesIdentity
