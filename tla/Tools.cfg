SPECIFICATION ToolsSpec
CONSTANTS
    Shared = {"out"}
    Private = {"name"}
    Variables = {"u"}
    UserVariables = {}
    Others = {"m2"}
    Skills = {"k1"}
    Folders = {"k", "l"}
    MenuCodes = {"A", "B"}
    HelpCsvs <- HelpFiles
    MaxRuns = 3
    References = {"first", "a", "b"}
    SkillOnly = {"first"}
    Capable = {"first", "a"}
    FirstBreath = "first"
    Templates = {"INDEX", "CAPABILITIES", "PULSE"}
    Standard = {"INDEX", "CAPABILITIES"}
    MaxUpdates = 1
    Shapes = {"solo", "burst"}
    ShimShape = "solo"
    Nanos = {1, 3, 4, 6}
    DefaultBudget = 5
    Baselines <- BenchBaselines
    Paths = {"docs/a", "Makefile"}
    ListedFolders = {"docs/"}
    Below <- BelowFolder
    Bare = {"Makefile"}
    MaxSteps = 2
    Streams <- SessionStreams
    Runs = 3
    Codes = {"", "a", "b"}
    TomlIds = {"", "x"}
    MaxItems = 2
    Layers = 3
    Sources = {"x", "b/x", "x-review", "x-review-appendix", "x-appendix", "y-review"}
    NameOf <- FileNameOf
    BaseOf <- NameBase
    MaxSources = 6
    ScanRoots = {"r1", "r2"}
    SkillNames = {"s", "t"}
    MaxRoots = 3
INVARIANTS
    GateIsHonest
    CleanIsTrue
    TriggersAreTrue
    SurveysAreComplete
PROPERTIES
    SetupKeepsValues
    ValidatedIsWhole
    SanctumIsWhole
    LayersMerge
CHECK_DEADLOCK FALSE
