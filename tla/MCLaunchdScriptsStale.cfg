SPECIFICATION Spec
CONSTANTS
    Agents = {"web", "task"}
    Caddy = "caddy"
    Plists = {"v1", "v2"}
    None = None
    Scripts = {s1}
    Commands = {"install", "load"}
    Generations <- MCGenerations
INVARIANT
    LoadedIsInstalled
