SPECIFICATION Spec
CONSTANTS
    old = old
    Builds = {old, new, bad}
    Serves = {old, new}
    Reports <- MCReports
    Releases = {1, 2}
    Commits = {commit}
    Methods = {"github-release", "xcaddy", "source-go", "npm-global", "brew"}
    Missing = Missing
    Partial = Partial
INVARIANTS
    TypeOK
    KeepsPrevious
    LogIsTrue
    BehindMeansOlder
