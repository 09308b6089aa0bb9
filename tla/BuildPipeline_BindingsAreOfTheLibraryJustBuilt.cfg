SPECIFICATION Spec
CONSTANTS
    first = first
    second = second
    here = here
    there = there
    shared = shared
    old = old
    new = new
    current = current
    outdated = outdated
    None = None
    Jobs = {first, second}
    Command <- TwoCommands
    Cli <- OneCli
    OnPath <- Generators
    Plugins = {here, there}
    Workspace <- OneWorkspace
    Revisions = {1, 2, 3}
    Source <- StrippedRevisions
    Tags = {old, new}
    DefaultTag = old
    OverrideTag = None
    MaxEdits = 1
INVARIANT
    BindingsAreOfTheLibraryJustBuilt
CHECK_DEADLOCK FALSE
