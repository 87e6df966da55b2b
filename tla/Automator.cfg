SPECIFICATION AutomatorSpec
CONSTANTS
    Installers = {"i1", "i2"}
    Commands = {"a", "b"}
    Recognised = {"a", "b"}
    MaxUserEdits = 1
    Tasks = {"dev", "retro"}
    Agents = {"codex"}
    Entries <- TaskEntries
    Clients = {"c1", "c2"}
    PresetNames = {"a", "A", "b"}
    Lower <- LowerCase
    Settings = {"x", "y"}
    MaxSaves = 4
    Nums = {1, 2, 10}
    Slugs = {1, 2}
    Within <- WithinDigits
    MaxLines = 2
    SchemaKeys = {"k", "l"}
    StatusTexts = {"", "done", "review"}
    MaxFiles = 3
    Roots = {"agents", "claude", "codex", "home codex", "home claude", "outside"}
    SearchOrder <- RootOrder
    Local = {"agents", "claude", "codex"}
    ProviderOf <- Provider
    MaxInstalls = 2
    StoryIds <- TwoStories
    Scores <- ScoreRules
    MaxBookLines = 5
    DocKeys = {"status", "storyRange"}
    DocTexts = {"READY", "t", "t---u", "---"}
    Dashed = {"t---u", "---"}
    CutAt <- CutTexts
    MaxDocLines = 4
INVARIANTS
    AgentsAsPlanned
    KeysAgree
    VerdictIsEarned
    LayoutAgrees
    DocumentSurvives
PROPERTIES
    HooksInstalledSafely
    PresetsKept
    EpicIsRead
CHECK_DEADLOCK FALSE
