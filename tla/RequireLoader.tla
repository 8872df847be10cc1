----------------------------- MODULE RequireLoader -----------------------------
(***************************************************************************)
(* How the page of the console loads its scripts: RequireJS 1.0.6 (js/     *)
(* require.js) with its plugin `order' (js/lib/order.js) and the list of   *)
(* js/main.js.                                                             *)
(*                                                                         *)
(* The scripts of the list use each other without saying so: the plugin is *)
(* what makes them run in the order of the list, in three different ways,  *)
(* whichever the browser allows.                                           *)
(***************************************************************************)
EXTENDS Naturals, FiniteSets, SequencesExt

CONSTANTS
    List,     \* the scripts main.js asks for, in order
    Jquery    \* the one that require.js has brought with it

(***************************************************************************)
(* No script of the list has a name that the model uses itself.            *)
(***************************************************************************)
ASSUME ListAssumption ==
    /\ List \in Seq(ToSet(List))
    /\ IsInjective(List)
    /\ Jquery \in ToSet(List)
    /\ Len(List) > 1
    /\ {"main", "order", "list"} \cap ToSet(List) = {}

Fetched == RemoveFirst(List, Jquery)
Scripts == ToSet(Fetched)
Files == Scripts \cup {"main", "order"}

(***************************************************************************)
(* The browser runs inserted scripts in order; or it can fetch one without *)
(* running it; or it can only be made to have it in its cache.             *)
(***************************************************************************)
Modes == {"in order", "fetch only", "cache"}

VARIABLES
    mode,
    arriving,      \* files being fetched
    failed,        \* files that will never come
    placed,        \* script elements in the document that have not run
    ran,           \* (history) the files that have run
    ended,         \* the files that have run, their `load' not handled yet
    fetched,       \* cached, or data-orderloaded
    ordered,       \* cacheWaiting, or scriptWaiting
    loading,       \* the managers whose `loaded' is false
    unmet,       \* context.waiting: the managers there
    paused,        \* context.paused: files still to be asked for
    given,         \* what the callback of main.js has got of its dependencies
    appRuns,       \* (history) how often app.run() was called
    scriptCount,
    depth,         \* resumeDepth, between two steps
    requireWait,
    polling,       \* checkLoadedTimeoutId
    expired,       \* startTime was longer than waitSeconds ago
    held,          \* jQueryIncremented: jQuery's ready is being held back
    thrown         \* (history) where the timeout error was thrown

net == <<mode, arriving, failed, placed, ran, ended>>
plugin == <<fetched, ordered>>
managers == <<loading, unmet, paused, given, appRuns>>
control == <<scriptCount, depth, requireWait, polling, expired, held, thrown>>
loaderVars == <<net, plugin, managers, control>>

(***************************************************************************)
(* The managers: of a file, of a resource of the plugin, and of a call of  *)
(* require that waits for a file.                                          *)
(***************************************************************************)
Managers(kind, names) == {[of |-> kind, name |-> n] : n \in names}
Manager(kind, n) == [of |-> kind, name |-> n]
Callback == Manager("require", "list")

-------------------------------------------------------------------------------
(***************************************************************************)
(* require.js has run: it has asked for the file of data-main, defined     *)
(* jquery and set a timer to stop waiting.                               *)
(***************************************************************************)
LoaderInit ==
    /\ mode \in Modes
    /\ arriving = {"main"}
    /\ failed = {}
    /\ placed = <<"main">>
    /\ ran = <<>>
    /\ ended = {}
    /\ fetched = {}
    /\ ordered = <<>>
    /\ loading = Managers("file", {"main"})
    /\ unmet = Managers("file", {"main"}) \cup Managers("require", {"main"})
    /\ paused = <<>>
    /\ given = {}
    /\ appRuns = 0
    /\ scriptCount = 1
    /\ depth = 0
    /\ requireWait = TRUE
    /\ polling = TRUE
    /\ expired = FALSE
    /\ held = FALSE
    /\ thrown = {}

(***************************************************************************)
(* A page whose scripts have all been loaded, in the best of ways.         *)
(***************************************************************************)
LoaderIsThrough ==
    /\ mode = "in order"
    /\ arriving = {} /\ failed = {} /\ placed = <<>> /\ ended = {}
    /\ ran = <<"main", "order">> \o Fetched /\ given = ToSet(List) /\ appRuns = 1
    /\ fetched = {} /\ ordered = <<>>
    /\ loading = {} /\ unmet = {} /\ paused = <<>>
    /\ scriptCount = 0 /\ depth = 0 /\ thrown = {}
    /\ requireWait = FALSE /\ polling = FALSE /\ expired = FALSE /\ held = FALSE

(***************************************************************************)
(* The `load' of a script follows its run at once, but for the browsers    *)
(* that fetch without running.                                             *)
(***************************************************************************)
Calm == mode = "fetch only" \/ ended = {}

(***************************************************************************)
(* checkLoaded, with these managers loading and waiting and this count of *)
(* scripts: it throws, tries again in 50 ms, or is through and releases    *)
(* ready if nothing waits.  No manager depends on another in a circle: the *)
(* breaking of cycles does nothing here.                                   *)
(***************************************************************************)
Throws(late, still) == late /\ still # {}
TriesAgain(late, still, count) == ~late /\ (still # {} \/ count > 0)
Released(late, still, wait, count) ==
    ~Throws(late, still) /\ ~TriesAgain(late, still, count) /\ wait = {}

Poll ==
    /\ polling
    /\ Calm
    /\ polling' = TriesAgain(expired, loading, scriptCount)
    /\ thrown' = IF Throws(expired, loading) THEN thrown \cup {"poll"} ELSE thrown
    /\ held' = (held /\ ~Released(expired, loading, unmet, scriptCount))
    /\ UNCHANGED <<net, plugin, managers, scriptCount, depth, requireWait, expired>>

(***************************************************************************)
(* Seven seconds have passed since something was asked for.  The timer of  *)
(* require.js, of no time at all, comes before.                            *)
(***************************************************************************)
Expire ==
    /\ Calm
    /\ ~requireWait
    /\ ~expired
    /\ loading # {}
    /\ expired' = TRUE
    /\ UNCHANGED <<net, plugin, managers, scriptCount, depth, requireWait, polling, held,
                   thrown>>

(* A fault of StopWaiting: ready is released without asking what waits. *)
StopWaitingReady ==
    /\ Calm
    /\ requireWait
    /\ requireWait' = FALSE
    /\ held' = FALSE
    /\ UNCHANGED <<net, plugin, managers, scriptCount, depth, polling, expired, thrown>>

(***************************************************************************)
(* resume() asks for all that is paused.                                   *)
(***************************************************************************)
StopWaiting ==
    /\ Calm
    /\ requireWait
    /\ requireWait' = FALSE
    /\ IF scriptCount = 0
       THEN /\ placed' = placed \o paused
            /\ scriptCount' = Len(paused)
            /\ paused' = <<>>
            /\ polling' = (polling \/ TriesAgain(expired, loading, Len(paused)))
       ELSE UNCHANGED <<placed, scriptCount, paused, polling>>
    /\ held' = (held /\ unmet # {})
    /\ UNCHANGED <<mode, arriving, failed, ran, ended, plugin, loading, unmet, given,
                   appRuns, depth, expired, thrown>>

-------------------------------------------------------------------------------
(***************************************************************************)
(* A file does not come, and its script, if there is one, will not run:    *)
(* nobody is told.                                                         *)
(***************************************************************************)
NeverComes(x) ==
    /\ Calm
    /\ arriving' = arriving \ {x}
    /\ failed' = failed \cup {x}
    /\ placed' = RemoveFirst(placed, x)
    /\ UNCHANGED <<mode, ran, ended, plugin, managers, control>>

(***************************************************************************)
(* A script of the document arrives.                                       *)
(***************************************************************************)
Arrive(x) ==
    /\ Calm
    /\ x \notin ToSet(ordered)
    /\ arriving' = arriving \ {x}
    /\ UNCHANGED <<mode, failed, placed, ran, ended, plugin, managers, control>>

(* A fault of Due: it does not stop at the first one that has not come. *)
DueAnyway(come) == SelectSeq(ordered, LAMBDA x : x \in come)

(* A fault of Due: it looks at the first one only. *)
DueFirst(come) == SelectSeq(SubSeq(ordered, 1, 1), LAMBDA x : x \in come)

(***************************************************************************)
(* The scripts at the head of the plugin's list that have come.            *)
(***************************************************************************)
Due(come) ==
    LET n == CHOOSE n \in 0..Len(ordered) :
                 /\ \A i \in 1..n : ordered[i] \in come
                 /\ n < Len(ordered) => ordered[n + 1] \notin come
    IN  SubSeq(ordered, 1, n)

(* A fault of Left: what was done is not taken out. *)
LeftAll(come) == ordered

Left(come) == SubSeq(ordered, Len(Due(come)) + 1, Len(ordered))

(***************************************************************************)
(* onFetchOnly: those that are due are added to the document.              *)
(***************************************************************************)
OnFetchOnly(x) ==
    /\ mode = "fetch only"
    /\ x \in ToSet(ordered)
    /\ arriving' = arriving \ {x}
    /\ fetched' = fetched \cup {x}
    /\ placed' = placed \o Due(fetched')
    /\ ordered' = Left(fetched')
    /\ UNCHANGED <<mode, failed, ran, ended, managers, control>>

(***************************************************************************)
(* scriptCacheCallback: those that are due are required, one after the     *)
(* other; require asks for what is paused only if no script is being       *)
(* loaded.                                                                 *)
(***************************************************************************)
ScriptCacheCallback(x) ==
    LET due == Due(fetched')
        asks == due # <<>> /\ ~requireWait /\ scriptCount = 0
    IN
    /\ mode = "cache"
    /\ Calm
    /\ x \in ToSet(ordered)
    /\ arriving' = arriving \ {x}
    /\ fetched' = fetched \cup {x}
    /\ ordered' = Left(fetched')
    /\ loading' = loading \cup Managers("file", ToSet(due))
    /\ unmet' = unmet \cup Managers("file", ToSet(due))
                          \cup Managers("require", ToSet(due))
    /\ IF asks
       THEN /\ placed' = placed \o Append(paused, Head(due))
            /\ paused' = Tail(due)
            /\ scriptCount' = Len(paused) + 1
            /\ expired' = FALSE
            /\ polling' = (polling \/ depth = 0)
       ELSE /\ paused' = paused \o due
            /\ UNCHANGED <<placed, scriptCount, expired, polling>>
    /\ UNCHANGED <<mode, failed, ran, ended, given, appRuns, depth, requireWait, held,
                   thrown>>

-------------------------------------------------------------------------------
(***************************************************************************)
(* The first script of the document runs, once it is there.  That of       *)
(* main.js calls require, which meets a plugin it has not got: the plugin  *)
(* is what it waits for first.                                             *)
(***************************************************************************)
Run ==
    /\ Calm
    /\ placed # <<>>
    /\ LET x == Head(placed) IN
         /\ x \notin arriving
         /\ ran' = Append(ran, x)
         /\ ended' = ended \cup {x}
         /\ IF x = "main"
            THEN /\ loading' = loading \cup Managers("file", {"order"})
                 /\ unmet' = unmet \cup Managers("file", {"order"}) \cup {Callback}
                 /\ paused' = <<"order">>
            ELSE UNCHANGED <<loading, unmet, paused>>
    /\ placed' = Tail(placed)
    /\ UNCHANGED <<mode, arriving, failed, plugin, given, appRuns, control>>

(***************************************************************************)
(* completeLoad of main.js: jquery, which has been defined meanwhile, is   *)
(* registered and its ready is held back; main is defined; the plugin is   *)
(* asked for.                                                              *)
(***************************************************************************)
CompleteMain ==
    /\ "main" \in ended
    /\ ended' = ended \ {"main"}
    /\ loading' = loading \ Managers("file", {"main"})
    /\ unmet' = unmet \ (Managers("file", {"main"}) \cup Managers("require", {"main"}))
    /\ placed' = placed \o paused
    /\ arriving' = arriving \cup ToSet(paused)
    /\ paused' = <<>>
    /\ scriptCount' = Len(paused)
    /\ held' = TRUE
    /\ polling' = TRUE
    /\ expired' = FALSE
    /\ UNCHANGED <<mode, failed, ran, plugin, given, appRuns, depth, requireWait, thrown>>

(***************************************************************************)
(* completeLoad of the plugin: each script of the list becomes a resource  *)
(* of it and is loaded in the way of the browser; jquery is there already. *)
(***************************************************************************)
CompleteOrder ==
    LET files == Managers("file", Scripts)
        resources == Managers("resource", Scripts)
        requires == Managers("require", Scripts)
    IN
    /\ "order" \in ended
    /\ ended' = ended \ {"order"}
    /\ arriving' = arriving \cup Scripts
    /\ given' = {Jquery}
    /\ placed' = IF mode = "in order" THEN placed \o Fetched ELSE placed
    /\ ordered' = IF mode = "in order" THEN <<>> ELSE Fetched
    /\ IF mode = "cache"
       THEN /\ loading' = resources
            /\ unmet' = {Callback} \cup resources
            /\ scriptCount' = 0
       ELSE /\ loading' = files \cup resources
            /\ unmet' = {Callback} \cup files \cup resources \cup requires
            /\ scriptCount' = Len(Fetched)
    /\ polling' = TRUE
    /\ expired' = FALSE
    /\ UNCHANGED <<mode, failed, ran, fetched, paused, appRuns, depth, requireWait, held,
                   thrown>>

(* A fault of AllGiven: depCount is one less. *)
AllButOneGiven(have) == Cardinality(have) >= Len(List) - 1

AllGiven(have) == have = ToSet(List)

(* A fault of Counted: the script that is complete still counts. *)
CountedOn(throws) == scriptCount + Len(paused)

Counted(throws) == scriptCount + Len(paused) - (IF throws THEN 0 ELSE 1)

(***************************************************************************)
(* completeLoad of a script.  Its file, the require of the plugin and the  *)
(* resource are done in turn, the callback gets the last of its            *)
(* dependencies perhaps, and what is paused is asked for; all this inside  *)
(* the require of the plugin, which is still waiting.  The check that    *)
(* follows may throw past the rest: past the end of that require, past the *)
(* count of scripts and past that of the depth.                            *)
(***************************************************************************)
CompleteScript(x) ==
    LET still == loading \ (Managers("file", {x}) \cup Managers("resource", {x}))
        late == expired /\ paused = <<>>
        checks == depth = 0
        throws == checks /\ Throws(late, still)
        done == AllGiven(given \cup {x})
        mine == IF throws THEN {} ELSE Managers("require", {x})
        count == Counted(throws)
        wait == unmet \ (Managers("file", {x}) \cup Managers("resource", {x})
                           \cup mine \cup (IF done THEN {Callback} ELSE {}))
    IN
    /\ x \in ended \cap Scripts
    /\ ended' = ended \ {x}
    /\ loading' = still
    /\ given' = given \cup {x}
    /\ appRuns' = IF done THEN appRuns + 1 ELSE appRuns
    /\ unmet' = wait
    /\ placed' = placed \o paused
    /\ paused' = <<>>
    /\ expired' = late
    /\ scriptCount' = count
    /\ depth' = IF throws THEN depth + 1 ELSE depth
    /\ thrown' = IF throws THEN thrown \cup {"load"} ELSE thrown
    /\ polling' = (polling \/ (checks /\ ~throws /\ ~late))
    /\ held' = (held /\ ~(checks /\ Released(late, still, wait, count)))
    /\ UNCHANGED <<mode, arriving, failed, ran, plugin, requireWait>>

-------------------------------------------------------------------------------
Load(x) ==
    \/ x = "main" /\ CompleteMain
    \/ x = "order" /\ CompleteOrder
    \/ CompleteScript(x)

Come(x) == Arrive(x) \/ OnFetchOnly(x) \/ ScriptCacheCallback(x)

LoaderNext ==
    \/ StopWaiting
    \/ Poll
    \/ Expire
    \/ \E x \in arriving : Come(x) \/ NeverComes(x)
    \/ Run
    \/ \E x \in ended : Load(x)

(***************************************************************************)
(* The timer of require.js fires, a file that is asked for comes or fails, *)
(* a script that is there runs and its `load' is told.  Nothing is assumed *)
(* of Expire.                                                              *)
(***************************************************************************)
LoaderFairness ==
    /\ WF_loaderVars(StopWaiting)
    /\ WF_loaderVars(Poll)
    /\ WF_loaderVars(Run)
    /\ \A x \in Files :
         /\ WF_loaderVars(x \in arriving /\ (Come(x) \/ NeverComes(x)))
         /\ WF_loaderVars(x \in ended /\ Load(x))

LoaderSpec == LoaderInit /\ [][LoaderNext]_loaderVars /\ LoaderFairness

-------------------------------------------------------------------------------
ManagerIds == Managers("file", Files) \cup Managers("resource", Scripts)
          \cup Managers("require", Scripts \cup {"main"}) \cup {Callback}

(***************************************************************************)
(* Every variable has its type; in particular no file is in two stages of  *)
(* its way at once.                                                        *)
(***************************************************************************)
LoaderTypeOK ==
    /\ mode \in Modes
    /\ arriving \cup failed \cup fetched \subseteq Files
    /\ arriving \cap failed = {}
    /\ IsInjective(placed \o ordered) /\ ended \cap ToSet(placed \o ordered) = {}
    /\ loading \cup unmet \subseteq ManagerIds
    /\ given \subseteq ToSet(List)
    /\ {appRuns, scriptCount} \subseteq Nat
    /\ depth \in 0..1
    /\ {requireWait, polling, expired, held} \subseteq BOOLEAN
    /\ thrown \subseteq {"poll", "load"}

(***************************************************************************)
(* The scripts run in the order of the list, each of them once, in         *)
(* whatever order they come; where the browser does not see to the order   *)
(* itself, none runs before all that precede it have.  app.run() is called *)
(* once, when all of them have run.                                        *)
(***************************************************************************)
AppRunsOnce ==
    /\ appRuns <= 1
    /\ appRuns = 1 <=> (Scripts \subseteq ToSet(ran) /\ ended \cap Scripts = {})

Precedes(x, y) == \E i, j \in DOMAIN Fetched : i < j /\ Fetched[i] = x /\ Fetched[j] = y

ScriptsInOrder ==
    /\ \A i, j \in DOMAIN ran :
          i < j /\ {ran[i], ran[j]} \subseteq Scripts => Precedes(ran[i], ran[j])
    /\ mode # "in order" =>
          \A x \in Scripts, y \in Scripts \cap ToSet(ran) : Precedes(x, y) => x \in ToSet(ran)
    /\ AppRunsOnce

(***************************************************************************)
(* As long as no load event was cut short, scriptCount counts the scripts  *)
(* that were asked for and are not complete, those that will never be      *)
(* among them.                                                             *)
(***************************************************************************)
Outstanding ==
    ToSet(placed) \cup ended
        \cup (IF mode = "fetch only" THEN ToSet(ordered) ELSE {})
        \cup (IF mode = "cache" THEN failed \ ToSet(ordered) ELSE failed)

CountIsRight == "load" \notin thrown => scriptCount = Cardinality(Outstanding)

(***************************************************************************)
(* jQuery's ready is released once the count says that everything has been *)
(* loaded, the count is right about it, and app.run() was called before.   *)
(***************************************************************************)
ReadyIsHeldBack ==
    /\ CountIsRight
    /\ ~held /\ "order" \in ToSet(ran) => appRuns = 1

(***************************************************************************)
(* The page is put together in order: its scripts, app.run() after all of  *)
(* them, and ready after that.                                             *)
(***************************************************************************)
StartsInOrder == LoaderTypeOK /\ ScriptsInOrder /\ ReadyIsHeldBack

(***************************************************************************)
(* If every file comes the page starts and ready is released, however long *)
(* it takes: but when the timeout is thrown in the middle of a load event, *)
(* ready may stay held back and, where scripts are required one by one,    *)
(* the rest of them not be asked for.                                      *)
(***************************************************************************)
PageStarts ==
    requireWait ~> \/ failed # {}
                   \/ appRuns = 1 /\ ~held
                   \/ "load" \in thrown /\ (appRuns = 1 \/ mode = "cache")
===============================================================================
