------------------------------ MODULE ControlPages ------------------------------
(***************************************************************************)
(* Pages of the console that are drawn again after each thing the user     *)
(* does on them: the levels of the loggers (scripts/logging.js), the beans *)
(* of a core and the watch for their changes (scripts/plugins.js), and the *)
(* configuration of an import (scripts/dataimport.js); and the block over  *)
(* the page while changes are watched for (lib/jquery.blockUI.js).         *)
(***************************************************************************)
LOCAL INSTANCE Naturals
LOCAL INSTANCE Sequences
LOCAL INSTANCE SequencesExt
LOCAL INSTANCE FiniteSets

CONSTANTS
    Loggers,         \* the names of the loggers, each the sequence of its parts
    Words_,          \* the parts that match \w+
    ReadAs,          \* by name, the names that its regular expression matches
    Levels, Unset,   \* what a logger is set to
    MaxLevelsPosted, \* bound on the levels that are posted
    BeansOf,         \* by type of plugin, the names of its beans, as sequences
    Comma,           \* what a list of entries is separated by
    NoReference,     \* no reference has come
    Restless,        \* the beans that change
    MaxStat,         \* bound on the changes of a bean
    MaxClicks,       \* bound on the clicks on entries and on the watch
    MaxWatches,      \* bound on the watches among them
    ConfigFiles,     \* the configurations of an import that the server has, in order
    BrokenFiles,     \* those of them that are no XML
    NothingYet,      \* not there, not read, not known
    MaxConfigClicks, \* bound on the clicks that load a configuration or import
    MaxBlocks,       \* bound on the blocks over the page
    MaxPluginPages   \* bound on the pages of plugins that are drawn

ASSUME LoggersAssumption ==
    /\ <<>> \in Loggers
    /\ Loggers \subseteq DOMAIN ReadAs
    /\ Unset \notin Levels

ASSUME ConfigAssumption == BrokenFiles \subseteq ToSet(ConfigFiles) /\ ConfigFiles # <<>>

ASSUME BeansAssumption ==
    \A t \in DOMAIN BeansOf : \A b \in BeansOf[t] : b # <<>> /\ Comma \notin ToSet(b)

VARIABLES
    serverLevels, \* what each logger of the server is set to
    levelPosts,   \* the requests, with the answer once the server has given it
    levelTree,    \* what is drawn: its rows, and the number of the answer
    levelHistory  \* (not in the code) the answers the server gave, the trigger that was
                  \* clicked, whether an answer came late or never

levelVars == <<serverLevels, levelPosts, levelTree, levelHistory>>

VARIABLES
    beanStats,    \* how often each bean of the server has changed
    entryPage,    \* the type that is shown, the address, the entries that are expanded
    reference,    \* reference_xml, and the request that it answers
    watch,        \* the watch and the changes it has found
    mbeanAsks,    \* the requests, with what the server has read for them
    toggled       \* (not in the code) the entries clicked an odd number of times, the
                  \* clicks, whether one was mistaken for another or came too soon

beanVars == <<beanStats, entryPage, reference, watch, mbeanAsks, toggled>>

VARIABLES
    configFile,   \* the configuration the server has, a place in ConfigFiles
    configPage,   \* the block that shows it, the button to load it, the errors
    debugMode,    \* debug_mode, and what the button to import says
    configAsks,   \* the requests, with what the server has answered
    configSeen    \* (not in the code) the clicks that asked, what was asked last, the
                  \* configuration answered last, whether two were under way at once

configVars == <<configFile, configPage, debugMode, configAsks, configSeen>>

VARIABLES
    overlay,      \* the layers in the body, pageBlock, blockUI.history, the handlers that
                  \* are bound, the timeouts that reset, and where the messages are
    underneath,   \* the page of plugins that is shown (0: another page), connection_working
    overlaySeen   \* (not in the code) the message of the last block; those whose last watch began
                  \* before an unblock had ended; the block that such an unblock left without
                  \* its message; whether a watch threw that had none of these before it

overlayVars == <<overlay, underneath, overlaySeen>>

-------------------------------------------------------------------------------
(***************************************************************************)
(* logger_tree: at the top the loggers with no dot in their name; below a  *)
(* logger those that match ^<its name>\.\w+$, where the name is not quoted *)
(* and a part that is more than letters does not match.                    *)
(***************************************************************************)
Topmost == {l \in Loggers : Len(l) <= 1}

ChildrenOf(l) ==
    IF l = <<>> THEN {}
    ELSE {c \in Loggers : /\ c # <<>> /\ Last(c) \in Words_
                          /\ Front(c) \in ReadAs[l] /\ Front(c) # <<>>}

Deepest == CHOOSE n \in {Len(l) : l \in Loggers} : \A l \in Loggers : Len(l) <= n

(* A fault of logger_tree: a filter is looked for anywhere in the name. *)
BranchesAnywhere(p) ==
    {Append(p, c) : c \in {d \in Loggers : Last(p) # <<>> /\ Len(d) > Len(Last(p))
                                           /\ SubSeq(d, 1, Len(Last(p))) = Last(p)}}
Branches(p) == {Append(p, c) : c \in ChildrenOf(Last(p))}

RowsOfTree ==
    LET Down[n \in 1..Deepest] ==
            IF n = 1 THEN {<<l>> : l \in Topmost}
            ELSE Down[n - 1] \cup UNION {Branches(p) : p \in {q \in Down[n - 1] : Len(q) = n - 1}}
    IN  Down[Deepest]

(***************************************************************************)
(* What the server answers: a logger has the level of the nearest name     *)
(* above it that is set.                                                   *)
(***************************************************************************)
LevelIn(set, l) ==
    LET above == {n \in 0..Len(l) : SubSeq(l, 1, n) \in Loggers /\ set[SubSeq(l, 1, n)] # Unset}
    IN  IF above = {} THEN Unset
        ELSE set[SubSeq(l, 1, CHOOSE n \in above : \A k \in above : k <= n)]

NoSelector == <<>>

DrawnTree(set, n) ==
    [rows |-> [p \in RowsOfTree |-> [level |-> LevelIn(set, Last(p)), set |-> set[Last(p)] # Unset]],
     open |-> NoSelector, handlers |-> 1, loading |-> {}, answer |-> n]

LevelsInit ==
    /\ serverLevels = [l \in Loggers |-> IF l = <<>> THEN CHOOSE v \in Levels : TRUE ELSE Unset]
    /\ levelPosts = {}
    /\ levelTree = DrawnTree(serverLevels, 1)
    /\ levelHistory = [posted |-> 0, answers |-> <<serverLevels>>, clicked |-> NoSelector,
                       late |-> FALSE, lost |-> FALSE]

-------------------------------------------------------------------------------
(***************************************************************************)
(* A click on a trigger clears what is open and toggles the selector of    *)
(* its row, through handlers that a redraw takes away before it binds them *)
(* again; the cross of a selector clears.                                  *)
(***************************************************************************)
ClickTrigger(p) ==
    /\ p \in DOMAIN levelTree.rows
    /\ levelTree' = [levelTree EXCEPT !.open = IF levelTree.handlers % 2 = 1 THEN p ELSE NoSelector]
    /\ levelHistory' = [levelHistory EXCEPT !.clicked = p]
    /\ UNCHANGED <<serverLevels, levelPosts>>

CloseSelector ==
    /\ levelTree.open # NoSelector
    /\ levelTree' = [levelTree EXCEPT !.open = NoSelector]
    /\ levelHistory' = [levelHistory EXCEPT !.clicked = NoSelector]
    /\ UNCHANGED <<serverLevels, levelPosts>>

(***************************************************************************)
(* The logger is that of the nearest row around the link.                  *)
(***************************************************************************)
PickLevel(level) ==
    /\ levelTree.open # NoSelector
    /\ levelHistory.posted < MaxLevelsPosted
    /\ LET n == levelHistory.posted + 1
           p == levelTree.open
       IN  /\ levelPosts' = levelPosts
                    \cup {[n |-> n, logger |-> Last(p), level |-> level, answer |-> 0]}
           /\ levelTree' = [levelTree EXCEPT !.loading = @ \cup {n}]
           /\ levelHistory' = [levelHistory EXCEPT !.posted = n]
    /\ UNCHANGED serverLevels

ServerSets(q) ==
    /\ q \in levelPosts /\ q.answer = 0
    /\ serverLevels' = [serverLevels EXCEPT ![q.logger] = q.level]
    /\ levelHistory' = [levelHistory EXCEPT !.answers = Append(@, serverLevels')]
    /\ levelPosts' = (levelPosts \ {q})
                        \cup {[q EXCEPT !.answer = Len(levelHistory.answers) + 1]}
    /\ UNCHANGED levelTree

(* A fault of logging_handler: the handlers bound before are not taken away. *)
RedrawnBound(n) == [DrawnTree(levelHistory.answers[n], n) EXCEPT !.handlers = levelTree.handlers + 1]

Redrawn_(n) == DrawnTree(levelHistory.answers[n], n)

LoggersCome(q) ==
    /\ q \in levelPosts /\ q.answer # 0
    /\ levelTree' = Redrawn_(q.answer)
    /\ levelPosts' = levelPosts \ {q}
    /\ levelHistory' = [levelHistory EXCEPT !.late = @ \/ q.answer < levelTree.answer,
                                            !.clicked = NoSelector]
    /\ UNCHANGED serverLevels

LoggersLost(q) ==
    /\ q \in levelPosts
    /\ levelPosts' = levelPosts \ {q}
    /\ levelHistory' = [levelHistory EXCEPT !.lost = TRUE]
    /\ UNCHANGED <<serverLevels, levelTree>>

LevelsNext ==
    \/ \E p \in DOMAIN levelTree.rows : ClickTrigger(p)
    \/ CloseSelector
    \/ \E level \in Levels \cup {Unset} : PickLevel(level)
    \/ \E q \in levelPosts : ServerSets(q) \/ LoggersCome(q) \/ LoggersLost(q)

LevelsSpec == LevelsInit /\ [][LevelsNext]_levelVars

(***************************************************************************)
(* A logger whose name is made of words that nobody's expression mistakes  *)
(* is drawn once, below the loggers its name begins with.                  *)
(***************************************************************************)
PrefixesOf(l) == [n \in 1..Len(l) |-> SubSeq(l, 1, n)]

Clear(l) ==
    /\ \A n \in 1..Len(l) : SubSeq(l, 1, n) \in Loggers /\ (n > 1 => l[n] \in Words_)
    /\ \A n \in 1..(Len(l) - 1) :
         {m \in Loggers : SubSeq(l, 1, n) \in ReadAs[m]} = {SubSeq(l, 1, n)}

LoggersAreDrawnOnce ==
    \A l \in Loggers \ {<<>>} :
        Clear(l) => {p \in DOMAIN levelTree.rows : Last(p) = l} = {PrefixesOf(l)}

(***************************************************************************)
(* The selector that is open is that of the trigger clicked last, and when *)
(* every answer has come and in order, the rows have the server's levels.  *)
(***************************************************************************)
LevelsAreShown ==
    /\ LoggersAreDrawnOnce
    /\ levelTree.open = levelHistory.clicked
    /\ levelPosts = {} /\ ~levelHistory.late /\ ~levelHistory.lost =>
         \A p \in DOMAIN levelTree.rows : levelTree.rows[p].level = LevelIn(serverLevels, Last(p))

-------------------------------------------------------------------------------
(***************************************************************************)
(* The page of a type of beans.  Its address lists the entries that are    *)
(* expanded; a click changes the list by a regular expression that finds   *)
(* the name at the end of any other, and goes to the new address, which is *)
(* drawn when the browser tells of it.                                     *)
(***************************************************************************)
AllBeans == UNION {BeansOf[t] : t \in DOMAIN BeansOf}

EndsAt(entry, bean, i) ==
    /\ i + Len(bean) - 1 <= Len(entry)
    /\ SubSeq(entry, i, i + Len(bean) - 1) = bean
    /\ i + Len(bean) - 1 < Len(entry) => entry[i + Len(bean)] = Comma

PlacesOf(entry, bean) == {i \in 1..Len(entry) : EndsAt(entry, bean, i)}

(* A fault of the click: a list of one entry keeps its comma. *)
CleanedAtTheEnd(entry) == IF entry # <<>> /\ Last(entry) = Comma THEN Front(entry) ELSE entry
Cleaned(entry) ==
    LET tail == IF entry # <<>> /\ Head(entry) = Comma THEN Tail(entry) ELSE entry
    IN  IF tail # <<>> /\ Last(tail) = Comma THEN Front(tail) ELSE tail

ToggledEntry(entry, bean) ==
    LET places == PlacesOf(entry, bean)
        i == CHOOSE j \in places : \A k \in places : j <= k
    IN  Cleaned(IF places = {} THEN entry \o <<Comma>> \o bean
                ELSE SubSeq(entry, 1, i - 1) \o SubSeq(entry, i + Len(bean) + 1, Len(entry)))

Names(entry) ==
    LET commas == {0, Len(entry) + 1} \cup {i \in 1..Len(entry) : entry[i] = Comma}
    IN  {SubSeq(entry, i + 1, j - 1) : <<i, j>> \in
            {<<i, j>> \in commas \X commas : i < j /\ ~\E k \in commas : i < k /\ k < j}}

Expanded(type, entry) == {b \in BeansOf[type] : b \in Names(entry)}

NoStats == [b \in AllBeans |-> 0]
FirstType == CHOOSE t \in DOMAIN BeansOf : TRUE

BeansInit ==
    /\ beanStats = NoStats
    /\ entryPage = [type |-> FirstType, path |-> <<>>, address |-> <<>>, expanded |-> {}]
    /\ reference = [n |-> 0, stats |-> NoReference]
    /\ watch = [n |-> 0, asked |-> 0, recording |-> FALSE, from |-> NoStats, list |-> {},
                of |-> NoReference]
    /\ mbeanAsks = {}
    /\ toggled = [entries |-> {}, clicks |-> 0, mistaken |-> FALSE]

(***************************************************************************)
(* The beans a link can be mistaken for: their names end with it.          *)
(***************************************************************************)
MistakenFor(b, c) == b # c /\ Len(b) <= Len(c) /\ SubSeq(c, Len(c) - Len(b) + 1, Len(c)) = b

ToggleBean(b) ==
    /\ b \in BeansOf[entryPage.type]
    /\ ~watch.recording /\ toggled.clicks + watch.n < MaxClicks
    /\ entryPage' = [entryPage EXCEPT !.address = ToggledEntry(entryPage.path, b)]
    /\ toggled' = [entries |-> SymDiff(toggled.entries, {b}), clicks |-> toggled.clicks + 1,
                   mistaken |-> \/ toggled.mistaken
                                \/ entryPage.address # entryPage.path
                                \/ \E c \in Names(entryPage.path) : MistakenFor(b, c)]
    /\ UNCHANGED <<beanStats, reference, watch, mbeanAsks>>

BeansRouted ==
    /\ entryPage.address # entryPage.path
    /\ LET entry == entryPage.address
       IN  entryPage' = [entryPage EXCEPT !.path = entry, !.expanded = Expanded(entryPage.type, entry)]
    /\ UNCHANGED <<beanStats, reference, watch, mbeanAsks, toggled>>

ShowType(t) ==
    /\ ~watch.recording /\ entryPage.address = entryPage.path
    /\ t # entryPage.type
    /\ entryPage' = [type |-> t, path |-> <<>>, address |-> <<>>, expanded |-> {}]
    /\ toggled' = [toggled EXCEPT !.entries = {}]
    /\ UNCHANGED <<beanStats, reference, watch, mbeanAsks>>

-------------------------------------------------------------------------------
(***************************************************************************)
(* The watch.  It asks for a reference and takes away the marks; the page  *)
(* is covered until it is stopped, which posts whatever reference there is *)
(* then, and the server tells what has changed since.                      *)
(***************************************************************************)
BeanChanges(b) ==
    /\ b \in Restless /\ watch.n > 0 /\ beanStats[b] < MaxStat
    /\ beanStats' = [beanStats EXCEPT ![b] = @ + 1]
    /\ UNCHANGED <<entryPage, reference, watch, mbeanAsks, toggled>>

(* A fault of the watch: the changes of the watch before stay. *)
MarksKept(list) == list
MarksCleared(list) == {}

NotRead == NoReference
AsksReference(n) == [do |-> "reference", n |-> n, read |-> NotRead, against |-> NoReference, by |-> 0]

WatchChanges ==
    /\ ~watch.recording /\ toggled.clicks + watch.n < MaxClicks /\ watch.n < MaxWatches
    /\ watch' = [watch EXCEPT !.n = @ + 1, !.asked = @ + 1, !.recording = TRUE, !.from = beanStats,
                             !.list = MarksCleared(@), !.of = NoReference]
    /\ mbeanAsks' = mbeanAsks \cup {AsksReference(watch.asked + 1)}
    /\ UNCHANGED <<beanStats, entryPage, reference, toggled>>

ServerReads(q) ==
    /\ q \in mbeanAsks /\ q.read = NotRead
    /\ mbeanAsks' = (mbeanAsks \ {q}) \cup {[q EXCEPT !.read = beanStats]}
    /\ UNCHANGED <<beanStats, entryPage, reference, watch, toggled>>

ReferenceComes(q) ==
    /\ q \in mbeanAsks /\ q.do = "reference" /\ q.read # NotRead
    /\ reference' = [n |-> q.n, stats |-> q.read]
    /\ mbeanAsks' = mbeanAsks \ {q}
    /\ UNCHANGED <<beanStats, entryPage, watch, toggled>>

StopWatching ==
    /\ watch.recording
    /\ watch' = [watch EXCEPT !.recording = FALSE]
    /\ mbeanAsks' = mbeanAsks \cup
        {[do |-> "changes", n |-> reference.n, read |-> NotRead, against |-> reference.stats,
          by |-> IF reference.n = watch.asked THEN watch.n ELSE 0]}
    /\ UNCHANGED <<beanStats, entryPage, reference, toggled>>

(***************************************************************************)
(* compute_plugin_data keeps what is marked `_changed_'.  An answer to no  *)
(* reference is an error, that nobody waits for.                           *)
(***************************************************************************)
ChangedSince(now, then) == {b \in AllBeans : now[b] # then[b]}

ChangesCome(q) ==
    /\ q \in mbeanAsks /\ q.do = "changes" /\ q.read # NotRead
    /\ IF q.against = NoReference
       THEN /\ mbeanAsks' = mbeanAsks \ {q}
            /\ UNCHANGED <<entryPage, watch>>
       ELSE /\ mbeanAsks' = (mbeanAsks \ {q}) \cup {AsksReference(watch.asked + 1)}
            /\ watch' = [watch EXCEPT !.asked = @ + 1, !.list = ChangedSince(q.read, q.against),
                                     !.of = [by |-> q.by, now |-> q.read, then |-> q.against]]
            /\ entryPage' = [entryPage EXCEPT !.expanded = Expanded(entryPage.type, entryPage.path)]
    /\ UNCHANGED <<beanStats, reference, toggled>>

BeansLost(q) ==
    /\ q \in mbeanAsks
    /\ mbeanAsks' = mbeanAsks \ {q}
    /\ UNCHANGED <<beanStats, entryPage, reference, watch, toggled>>

BeansNext ==
    \/ \E b \in AllBeans : ToggleBean(b) \/ BeanChanges(b)
    \/ BeansRouted \/ WatchChanges \/ StopWatching
    \/ \E t \in DOMAIN BeansOf : ShowType(t)
    \/ \E q \in mbeanAsks : ServerReads(q) \/ ReferenceComes(q) \/ ChangesCome(q) \/ BeansLost(q)

BeansSpec == BeansInit /\ [][BeansNext]_beanVars

(***************************************************************************)
(* The entries that are expanded are those clicked an odd number of times, *)
(* and the address names each once; unless a name was the end of another,  *)
(* or a click came before the one before had its address.                  *)
(***************************************************************************)
EntriesFollowTheClicks ==
    ~toggled.mistaken /\ entryPage.address = entryPage.path =>
        /\ entryPage.expanded = toggled.entries
        /\ Names(entryPage.path) \ {<<>>} = toggled.entries
        /\ entryPage.path # <<>> => <<>> \notin Names(entryPage.path)

(***************************************************************************)
(* What is marked after a watch whose own reference was there when it was  *)
(* stopped has changed since the watch began, and nothing is marked from   *)
(* then until changes have come.                                           *)
(***************************************************************************)
MarksAreOfTheWatch ==
    /\ watch.of = NoReference => watch.list = {}
    /\ watch.of # NoReference /\ watch.of.by = watch.n =>
         \A b \in watch.list : watch.of.now[b] > watch.from[b]

BeansAreShown == EntriesFollowTheClicks /\ MarksAreOfTheWatch

-------------------------------------------------------------------------------
(***************************************************************************)
(* The configuration of an import.  It is asked for when the page comes    *)
(* and after each command to load it again; the error that is shown above  *)
(* is also that of a failed import, and each request empties it.           *)
(***************************************************************************)
Configs == {"config", "reload", "import"}

ConfigAsk(do, n) == [do |-> do, n |-> n, file |-> NothingYet]
InFlight_(do) == {q \in configAsks : q.do = do}

ConfigInit ==
    /\ configFile = 1
    /\ configPage = [hidden |-> TRUE, broken |-> FALSE, error |-> NothingYet, entities |-> NothingYet,
                     text |-> NothingYet, formatted |-> NothingYet, reload |-> {}, fading |-> 0]
    /\ debugMode = [on |-> FALSE, says |-> "plain", original |-> NothingYet]
    /\ configAsks = {ConfigAsk("config", 0)}
    /\ configSeen = [clicks |-> 0, last |-> "config", answer |-> NothingYet, mixed |-> FALSE]

ConfigChanges ==
    /\ configFile < Len(ConfigFiles)
    /\ configFile' = configFile + 1
    /\ UNCHANGED <<configPage, debugMode, configAsks, configSeen>>

ServerSends(q, file) ==
    /\ q \in configAsks /\ q.file = NothingYet
    /\ file \in {ConfigFiles[configFile], "error"}
    /\ configAsks' = (configAsks \ {q}) \cup {[q EXCEPT !.file = file]}
    /\ UNCHANGED <<configFile, configPage, debugMode, configSeen>>

Answered(q, do) == q \in configAsks /\ q.do = do /\ q.file # NothingYet

(* A fault of beforeSend: the error stays until the answer. *)
ErrorKept(page) == page
ErrorEmptied(page) == [page EXCEPT !.error = NothingYet]

(***************************************************************************)
(* What jQuery gives to `error': what the conversion threw, or the text of *)
(* the status.  An old browser makes a document of its parser's complaint, *)
(* which is a success.                                                     *)
(***************************************************************************)
ErrorThrown(file) == IF file \in BrokenFiles THEN "Invalid XML" ELSE "Internal Server Error"

(***************************************************************************)
(* success and error of dataimport_fetch_config; `complete' writes what    *)
(* came.                                                                   *)
(***************************************************************************)
IsDocument(file, complained) == file \notin BrokenFiles \cup {"error"} \/ complained

ConfigWritten(page, file, complained) ==
    CASE IsDocument(file, complained) ->
           [page EXCEPT !.broken = FALSE, !.hidden = TRUE, !.text = file, !.formatted = file,
                        !.entities = IF complained THEN NothingYet ELSE file]
      [] ~IsDocument(file, complained) /\ ErrorThrown(file) = "parsererror" ->
           [page EXCEPT !.broken = TRUE, !.error = "config", !.hidden = FALSE, !.formatted = file]
      [] OTHER -> [page EXCEPT !.formatted = file]

ConfigComes(q, complained) ==
    /\ Answered(q, "config")
    /\ complained => q.file \in BrokenFiles
    /\ configPage' = ConfigWritten(configPage, q.file, complained)
    /\ configAsks' = configAsks \ {q}
    /\ configSeen' = [configSeen EXCEPT !.answer = IF IsDocument(q.file, complained) THEN q.file ELSE @]
    /\ UNCHANGED <<configFile, debugMode>>

Asking(do, n, rest) ==
    /\ configAsks' = rest \cup {ConfigAsk(do, n)}
    /\ configSeen' = [configSeen EXCEPT !.clicks = IF n > @ THEN n ELSE @,
                                        !.mixed = @ \/ rest # {},
                                        !.last = IF do = "reload" THEN @ ELSE do]

ReloadConfig ==
    /\ configSeen.clicks < MaxConfigClicks
    /\ configPage' = [configPage EXCEPT !.reload = (@ \ {"error"}) \cup {"loader"}]
    /\ Asking("reload", configSeen.clicks + 1, configAsks)
    /\ UNCHANGED <<configFile, debugMode>>

(***************************************************************************)
(* The mark of success goes after five seconds; of a reload that fails the *)
(* mark of one before may still be there.                                  *)
(***************************************************************************)
ReloadDone(q) ==
    /\ Answered(q, "reload")
    /\ LET mark == IF q.file = "error" THEN "error" ELSE "success"
           page == [configPage EXCEPT !.reload = (@ \cup {mark}) \ {"loader"},
                                      !.fading = IF mark = "success" THEN @ + 1 ELSE @]
       IN  configPage' = ErrorEmptied(page)
    /\ Asking("config", q.n, configAsks \ {q})
    /\ UNCHANGED <<configFile, debugMode>>

SuccessFades ==
    /\ configPage.fading > 0
    /\ configPage' = [configPage EXCEPT !.reload = @ \ {"success"}, !.fading = @ - 1]
    /\ UNCHANGED <<configFile, debugMode, configAsks, configSeen>>

ToggleConfig ==
    /\ configPage' = [configPage EXCEPT !.hidden = ~@]
    /\ UNCHANGED <<configFile, debugMode, configAsks, configSeen>>

(* A fault of the click: what the button says is kept when debug mode ends. *)
SaysStill(says, original) == says
SaysAgain(says, original) == original

ToggleDebug ==
    /\ debugMode' = IF debugMode.on
                    THEN [debugMode EXCEPT !.on = FALSE, !.says = SaysAgain(@, debugMode.original),
                                           !.original = NothingYet]
                    ELSE [on |-> TRUE, says |-> "debug", original |-> debugMode.says]
    /\ configPage' = [configPage EXCEPT !.hidden = @ /\ debugMode.on]
    /\ UNCHANGED <<configFile, configAsks, configSeen>>

EditConfig ==
    /\ debugMode.on /\ ~configPage.hidden
    /\ configPage' = [configPage EXCEPT !.text = "edited"]
    /\ UNCHANGED <<configFile, debugMode, configAsks, configSeen>>

(***************************************************************************)
(* An import; in debug mode it takes the text of the configuration along.  *)
(***************************************************************************)
SubmitImport ==
    /\ configSeen.clicks < MaxConfigClicks
    /\ configPage' = ErrorEmptied(configPage)
    /\ Asking("import", configSeen.clicks + 1, configAsks)
    /\ UNCHANGED <<configFile, debugMode>>

ImportEnds(q) ==
    /\ Answered(q, "import")
    /\ configPage' = IF q.file = "error" THEN [configPage EXCEPT !.error = "import"] ELSE configPage
    /\ configAsks' = configAsks \ {q}
    /\ UNCHANGED <<configFile, debugMode, configSeen>>

ConfigNext ==
    \/ ConfigChanges \/ ReloadConfig \/ SuccessFades \/ ToggleConfig \/ ToggleDebug
    \/ EditConfig \/ SubmitImport
    \/ \E q \in configAsks :
         \/ \E file \in ToSet(ConfigFiles) \cup {"error"} : ServerSends(q, file)
         \/ \E complained \in BOOLEAN : ConfigComes(q, complained)
         \/ ReloadDone(q) \/ ImportEnds(q)

ConfigSpec == ConfigInit /\ [][ConfigNext]_configVars

(***************************************************************************)
(* Unless two requests were under way at once: the error of an import is   *)
(* not shown any more once the configuration is asked for, and the import  *)
(* offers the entities of the last configuration that could be read, which *)
(* is the one that is shown unless a broken one came after it.             *)
(***************************************************************************)
ConfigIsJudged ==
    ~configSeen.mixed =>
        /\ configSeen.last = "config" => configPage.error = NothingYet
        /\ configPage.entities = IF configSeen.answer \in BrokenFiles THEN NothingYet
                                    ELSE configSeen.answer
        /\ configPage.formatted \in BrokenFiles \cup {"error", configPage.entities}

(***************************************************************************)
(* A mark on the button that loads the configuration goes away: there is a *)
(* request or a timeout that takes it off.  The button to import says what *)
(* it will do.                                                             *)
(***************************************************************************)
MarksGoAway ==
    /\ "success" \in configPage.reload => configPage.fading > 0
    /\ "loader" \in configPage.reload => InFlight_("reload") # {}
    /\ debugMode.says = IF debugMode.on THEN "debug" ELSE "plain"

ConfigIsShown == ConfigIsJudged /\ MarksGoAway

-------------------------------------------------------------------------------
(***************************************************************************)
(* jquery.blockUI over the whole page.  Its messages are the element       *)
(* #recording that each page of plugins has, and #connection_status of the *)
(* body: a block takes its message away from where it is, and to unblock   *)
(* puts it back.                                                           *)
(***************************************************************************)
Recording(v) == <<"recording", v>>
Status == <<"connection_status", 0>>
BlockMessages == {Recording(v) : v \in 1..MaxPluginPages} \cup {Status}

PageAt(v) == <<"page", v>>
BodyAt == <<"body", 0>>
LayerAt(n) == <<"layer", n>>
HomeOf(m) == IF m = Status THEN BodyAt ELSE PageAt(m[2])

NoHistory == NothingYet

BlockDefaults == [bindEvents |-> TRUE, showOverlay |-> TRUE, fadeOut |-> 400]
WithDefaults(opts) == [o \in DOMAIN BlockDefaults |-> IF o \in DOMAIN opts THEN opts[o]
                                                      ELSE BlockDefaults[o]]

OverlayInit ==
    /\ overlay = [fading |-> [n \in {} |-> FALSE], pageBlock |-> 0, blocks |-> 0,
                  history |-> NoHistory, handlers |-> 0, resets |-> <<>>,
                  messages |-> [m \in BlockMessages |-> [at |-> HomeOf(m), shown |-> FALSE]]]
    /\ underneath = [page |-> 1, drawn |-> 1, working |-> TRUE]
    /\ overlaySeen = [watched |-> NothingYet, over |-> {}, bare |-> 0, thrown |-> FALSE]

InDocument(o, page, place) ==
    \/ place = BodyAt
    \/ place = PageAt(page)
    \/ \E n \in DOMAIN o.fading : place = LayerAt(n)

(***************************************************************************)
(* bind: there is nothing to unbind without a block, and to unbind takes   *)
(* every handler away.  A handler lets the events of the message pass, and *)
(* those of the page when no layer is in the body.                         *)
(***************************************************************************)
BindHandler(o, opts) ==
    IF opts.bindEvents /\ opts.showOverlay THEN [o EXCEPT !.handlers = @ + 1] ELSE o

UnbindHandlers(o, opts) ==
    IF o.pageBlock # 0 /\ opts.bindEvents THEN [o EXCEPT !.handlers = 0] ELSE o

PageHears(o) == o.handlers = 0 \/ DOMAIN o.fading = {}

(***************************************************************************)
(* reset: the layers go, with what is in them; the message that was there  *)
(* when the unblock was asked for goes back to its place, and the history  *)
(* of the block there is now is forgotten.                                 *)
(***************************************************************************)
PutBack(o, layers, history) ==
    LET rest == DOMAIN o.fading \ layers
        gone == [o EXCEPT !.fading = [n \in rest |-> @[n]]]
    IN  IF history = NoHistory THEN gone
        ELSE [gone EXCEPT !.messages[history.el] = [at |-> history.parent, shown |-> history.shown],
                          !.history = NoHistory]

(* A fault of remove: pageBlock is emptied before the handlers are unbound. *)
RemovedBound(o, opts) ==
    LET layers == DOMAIN o.fading
        free == UnbindHandlers([o EXCEPT !.pageBlock = 0], opts)
    IN  IF opts.fadeOut = 0 THEN PutBack(free, layers, o.history)
        ELSE [free EXCEPT !.fading = [n \in layers |-> TRUE],
                          !.resets = Append(@, [layers |-> layers, history |-> o.history])]

RemoveBlock(o, opts) ==
    LET layers == DOMAIN o.fading
        free == [UnbindHandlers(o, opts) EXCEPT !.pageBlock = 0]
    IN  IF opts.fadeOut = 0 THEN PutBack(free, layers, o.history)
        ELSE [free EXCEPT !.fading = [n \in layers |-> TRUE],
                          !.resets = Append(@, [layers |-> layers, history |-> o.history])]

(***************************************************************************)
(* install: the block that is there goes at once; the message is captured  *)
(* and shown in a new layer.                                               *)
(***************************************************************************)
Captured(o, m) ==
    [o EXCEPT !.history = [el |-> m, parent |-> o.messages[m].at, shown |-> o.messages[m].shown]]

LayersUp(o, m) ==
    LET n == o.blocks + 1
    IN  [o EXCEPT !.blocks = n, !.pageBlock = n,
                  !.fading = [k \in DOMAIN @ \cup {n} |-> IF k = n THEN FALSE ELSE @[k]],
                  !.messages[m] = [at |-> LayerAt(n), shown |-> TRUE]]

(* A fault of install: the message goes into the layer before it is captured. *)
InstalledLate(o, m) == BindHandler(Captured(LayersUp(o, m), m), WithDefaults(<<>>))

InstallBlock(o, m) ==
    LET alone == IF o.pageBlock # 0 THEN RemoveBlock(o, WithDefaults([fadeOut |-> 0])) ELSE o
    IN  BindHandler(LayersUp(Captured(alone, m), m), WithDefaults(<<>>))

(***************************************************************************)
(* The click on Watch Changes takes the first #recording of the document;  *)
(* without one, install throws.  The mouse does not reach the page under   *)
(* layers that fade, but keys do.                                          *)
(***************************************************************************)
RecordingsThere == {v \in 1..MaxPluginPages :
                        InDocument(overlay, underneath.page, overlay.messages[Recording(v)].at)}
FirstRecording ==
    IF underneath.page \in RecordingsThere
       /\ overlay.messages[Recording(underneath.page)].at = PageAt(underneath.page)
    THEN underneath.page
    ELSE CHOOSE v \in RecordingsThere : \A w \in RecordingsThere :
            overlay.messages[Recording(v)].at[2] <= overlay.messages[Recording(w)].at[2]

BlockToRecord ==
    /\ underneath.page # 0 /\ PageHears(overlay)
    /\ overlay.blocks < MaxBlocks
    /\ IF RecordingsThere = {}
       THEN /\ overlay' = [overlay EXCEPT !.history = NoHistory]
            /\ overlaySeen' = [overlaySeen EXCEPT !.thrown =
                                 @ \/ Recording(underneath.page) \notin overlaySeen.over]
       ELSE LET m == Recording(FirstRecording)
            IN  /\ overlay' = InstallBlock(overlay, m)
                /\ overlaySeen' = [overlaySeen EXCEPT !.watched = m,
                                     !.over = IF overlay.resets = <<>> THEN @ \ {m} ELSE @ \cup {m}]
    /\ UNCHANGED underneath

(***************************************************************************)
(* The button of #recording unblocks, also a second time while the layers  *)
(* fade (here once more).                                                  *)
(***************************************************************************)
StopRecording ==
    /\ Len(overlay.resets) < 2
    /\ \E v \in 1..MaxPluginPages, n \in DOMAIN overlay.fading :
          overlay.messages[Recording(v)].at = LayerAt(n) /\ overlay.pageBlock \in {0, n}
    /\ overlay' = RemoveBlock(overlay, WithDefaults(<<>>))
    /\ UNCHANGED <<underneath, overlaySeen>>

FadeEnds ==
    /\ overlay.resets # <<>>
    /\ LET ended == Head(overlay.resets)
       IN  /\ overlay' = [PutBack(overlay, ended.layers, ended.history) EXCEPT !.resets = Tail(@)]
           /\ overlaySeen' = IF ended.history # NoHistory /\ ended.history.el = overlaySeen.watched
                             THEN [overlaySeen EXCEPT !.bare = overlay.pageBlock] ELSE overlaySeen
    /\ UNCHANGED underneath

(***************************************************************************)
(* connection_error blocks with the status, whatever blocks already; once  *)
(* the check succeeds, the next error blocks again.                        *)
(***************************************************************************)
ConnectionLost ==
    /\ underneath.working /\ overlay.blocks < MaxBlocks
    /\ underneath' = [underneath EXCEPT !.working = FALSE]
    /\ overlay' = InstallBlock(overlay, Status)
    /\ overlaySeen' = [overlaySeen EXCEPT !.watched = Status]

ConnectionBack ==
    /\ ~underneath.working
    /\ underneath' = [underneath EXCEPT !.working = TRUE]
    /\ UNCHANGED <<overlay, overlaySeen>>

(***************************************************************************)
(* The address changes (the keys of the browser do not ask the page): the  *)
(* page of plugins is drawn, with its own #recording, or another page is.  *)
(***************************************************************************)
PluginsDrawn ==
    /\ underneath.drawn < MaxPluginPages
    /\ underneath' = [underneath EXCEPT !.drawn = @ + 1, !.page = underneath.drawn + 1]
    /\ UNCHANGED <<overlay, overlaySeen>>

PluginsLeft ==
    /\ underneath' = [underneath EXCEPT !.page = 0]
    /\ UNCHANGED <<overlay, overlaySeen>>

OverlayNext ==
    \/ BlockToRecord \/ StopRecording \/ FadeEnds
    \/ ConnectionLost \/ ConnectionBack
    \/ PluginsDrawn \/ PluginsLeft

OverlaySpec == OverlayInit /\ [][OverlayNext]_overlayVars

(***************************************************************************)
(* One handler holds the events back exactly while a block is up, and      *)
(* layers that are not the block's fade.  A block shows its message until  *)
(* the fade of an earlier unblock of the same message ends, which takes it *)
(* back from under the block, and nothing else does.  When no unblock is   *)
(* under way every other message is back at its place and hidden, for the  *)
(* next watch to find, but one whose last watch began while an unblock     *)
(* still faded; and only without such a one does a watch find no message.  *)
(***************************************************************************)
OverlayIsWhole ==
    /\ overlay.handlers = (IF overlay.pageBlock = 0 THEN 0 ELSE 1)
    /\ \A n \in DOMAIN overlay.fading : overlay.fading[n] <=> n # overlay.pageBlock
    /\ overlay.pageBlock # 0 =>
         LET block == LayerAt(overlay.pageBlock)
         IN  IF overlaySeen.bare = overlay.pageBlock
             THEN /\ overlaySeen.watched \in overlaySeen.over
                  /\ \A m \in BlockMessages : overlay.messages[m].at # block
             ELSE overlay.messages[overlaySeen.watched] = [at |-> block, shown |-> TRUE]
    /\ overlay.resets = <<>> =>
         \A m \in BlockMessages \ overlaySeen.over :
             overlay.messages[m] \in {[at |-> HomeOf(m), shown |-> FALSE],
                                      [at |-> LayerAt(overlay.pageBlock), shown |-> TRUE]}
    /\ ~overlaySeen.thrown
===============================================================================
