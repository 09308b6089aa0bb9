SPECIFICATION Spec
CONSTANTS
    first = first
    second = second
    here = here
    there = there
    shared = shared
    old = old
    new = new
    current = current
    outdated = outdated
    None = None
    Jobs = {first, second}
    Command <- TwoCommands
    Cli <- OneCli
    OnPath <- Generators
    Plugins = {here, there}
    Workspace <- OneWorkspace
    Revisions = {1, 2, 3, 4}
    Source <- FourRevisions
    Tags = {old, new}
    DefaultTag = old
    OverrideTag = None
    MaxEdits = 1
INVARIANTS
    TypeOK
    UndisturbedPackagesMatchTheirSource
    DockerPackagesHoldTheirOwnLibrary
    UnloadableLibrariesAreRefused
    PackersMatchTheirVersion
    ClonesFindNoRemains
PROPERTY
    PackagesGoHome
CHECK_DEADLOCK FALSE
