CONSTANTS
    Listener = {"f", "g"}
    Payload = {"a", "b"}
    PlainFlags = {{}, {"memory"}, {"once"}, {"unique", "stopOnFalse"}, {"once", "memory"},
                  {"unique", "memory"}}
    MaxUses = 4
    Request = {"r1", "r2"}
    Options <- MCOptions
    AbortPoints = {"beforeSend", "settle", "complete", "ajaxSuccess", "ajaxComplete", "ajaxStop"}
    Element = {"e", "f"}
    Shows <- MCShows
    MaxAsked = 3
    Node = {"cell", "row", "page"}
    Ancestors <- MCAncestors
    Selector = {"*"}
    SelectedBy <- MCSelected
    Bound <- MCBound
    NoNamespace = "-"
    MaxBinds = 2
    MaxEventsSent = 2
    Menus <- MCMenus
    Multiples <- MCMultiples
    Words <- MCWords
    NoText = "-"
    Letters <- MCLetters
    Terms <- MCTerms
    MaxTerms_ = 2
    PageStep = 1
    CacheLength = 0
    MaxValue = 1
    MaxQueries = 2
    SchemaCore = {"k1", "k2"}
    IndexOf <- MCIndex
    SchemaOf <- MCSchema
    DynamicOf <- MCDynamic
    DynamicFlags <- MCDynamicFlags
    TypesOf <- MCTypes
    UniqueKeyOf <- MCUniqueKey
    DefaultFieldOf <- MCDefaultField
    FlagKeys <- MCKeys
    TextFlags = TextFlags
    NotThere = NotThere
    SchemaRoutes <- MCRoutes
    MaxVisits = 2
    MaxTerms = 2
    Clusters <- MCClusters
    ZkFile = {"a", "b"}
    NoFile = "-"
    MaxCloudVisits = 2
    MaxFileClicks = 2
    MaxShowings = 3
    MaxDumpPages = 2
    Targets = {"f", "t"}
    DefaultTarget = "f"
    NoTarget = "-"
    Texts = {"x"}
    NoWords = "-"
    Analyses <- MCAnalyses
    MaxAnalyses = 2
    Handlers = {"/update", "/extract"}
    MaxPosts = 2
    MaxInputs = 3
    MaxAddedFields = 1
    Loggers <- MCLoggers
    Words_ <- MCLoggerWords
    ReadAs <- MCReadAs
    Levels = {"WARN"}
    Unset = "unset"
    MaxLevelsPosted = 2
    BeansOf <- MCBeansOf
    Comma = ","
    NoReference = NoReference
    Restless <- MCRestless
    MaxStat = 1
    MaxClicks = 3
    MaxWatches = 2
    ConfigFiles <- MCConfigFiles
    BrokenFiles = {"x"}
    NothingYet = NothingYet
    MaxConfigClicks = 2
    MaxBlocks = 3
    MaxPluginPages = 2
    Hashes = {"", "#/", "#/k"}
    NoHash = ""
    HomeHash = "#/"
    RedirectOf <- MCRedirectOf
    MaxHashMoves = 3
    MaxHashTimers = 2
    RenderContexts = {"c1", "c2"}
    Programs <- MCPrograms
    TemplateOf <- MCTemplateOf
    EmptyTemplate <- MCEmptyTemplate
    EngineOf <- MCEngineOf
    NoEngine = "none"
    NoValue = NoValue
    SystemAnswers <- MCSystems
    FirstAnswer <- MCFirst
    NotSaid = NotSaid
    QueryLinks <- MCLinks
    EverythingQ = "*:*"
    DismaxBox = "dismax"
    EmptyField = ""
    QueryTexts = {"c"}
    MaxFqRows = 2
    MaxQueryEdits = 2
    MaxAskedQueries = 2
    MaxQueryVisits = 2
    MaxIndexVisits = 2
    MaxReloads = 2
    DetailsAnswers <- MCDetails
    MaxDetails = 4
    HealthCores = {"k1", "k2"}
    MaxCoreVisits = 2
    MaxToggles = 2
    PingTimes <- MCPingTimes
    MaxMenus = 3
    MaxPings = 3
    StatusAnswers <- MCStatuses
    StartOfClock = 120
    Pauses = {2580, 84600, 31536000}
    MaxPauses = 1
    MaxStatusAsks = 3
    MaxAborts = 2
SPECIFICATION PartsSpec
INVARIANTS CalledAsPromised RequestsAreTold QueuesGoOn HandlersRunOnce WidgetsKeepInStep
    PagesShowTheirOwn AddressIsRouted RendersInOrder
VIEW MCView
CHECK_DEADLOCK FALSE
