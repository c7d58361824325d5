SPECIFICATION StudioSpec
CONSTANTS
    i1 = i1
    i2 = i2
    i3 = i3
    l1 = l1
    l2 = l2
    None = None
    Absent = Absent
    Manifests <- MCManifests
    Instances = {i1, i2, i3}
    Aliases = {"first", "second", "third"}
    LinkIds = {l1, l2}
    Tasks <- MCTasks
    DefaultTree = "behavior_tree.xml"
    Builtin <- MCBuiltin
    Plugins <- MCPlugins
    Seeded = {"job"}
    Trees <- MCTrees
    RecipePath <- MCPath
    Entries <- MCEntries
    Overrides <- MCOverrides
    CellTexts <- MCCellTexts
    SceneTexts <- MCSceneTexts
    CalibrationFiles = {"cal"}
    Lifetimes = {1}
    Starters <- MCStarters
    Surroundings <- MCSurroundings
    Safety = {}
    Backends <- MCBackends
    MaxRecords = 1
    MaxWatched = 1
    MaxEdits = 3
    MaxTime = 1
    MaxVersion = 2
CONSTRAINT Paced
INVARIANTS GraphResolves DiskOpens
PROPERTIES ImmutableStays ReadyOpens
CHECK_DEADLOCK FALSE
