CONSTANTS
    c1 = c1
    c2 = c2
    Core = {c1, c2}
    NoCore = NoCore
    Families <- MCFamilies
    Blocks = {"statistics", "healthcheck", "fields", "zookeeper", "properties", "index template"}
    Types = {"core", "cache"}
    FirstType = "cache"
    Importing = {c1}
    Handler = "/dataimport"
    MaxEvents = 2
    Slaves = {c1}
    MaxTick = 2
    List <- MCList
    Jquery = "jquery"
    Starters <- MCStarters
SPECIFICATION PageSpec
INVARIANTS TypeOK RouteIsDrawn PagesAreOfTheCore RefreshedOnce OneCountdown OneConnectionCheck StartsInOrder
PROPERTIES ConnectionRecovers PageStarts
CHECK_DEADLOCK FALSE
