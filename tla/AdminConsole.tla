------------------------------ MODULE AdminConsole ------------------------------
(***************************************************************************)
(* The admin console: its pages over what they share, and a user who moves *)
(* between them without waiting for the answers.                           *)
(***************************************************************************)
EXTENDS PlainPages, CorePages, CachePages, ImportPage, LoggingPage, ReplicationPage

consoleVars == <<user, place, menu, wrecked, shown, requests, clock, basepath, alive,
                 upset>>
pageVars == <<acts, coreVars, cacheVars, importVars, loggingVars, replicationVars>>
vars == <<consoleVars, pageVars, connectionVars>>

Init ==
    /\ ConsoleInit
    /\ PlainInit
    /\ CoreInit
    /\ CacheInit
    /\ ImportInit
    /\ LoggingInit
    /\ ReplicationInit
    /\ ConnectionInit

OfPlain == UNCHANGED <<coreVars, cacheVars, importVars, loggingVars, replicationVars>>
OfCore == UNCHANGED <<acts, cacheVars, importVars, loggingVars, replicationVars>>
OfCache == UNCHANGED <<acts, coreVars, importVars, loggingVars, replicationVars>>
OfImport == UNCHANGED <<acts, coreVars, cacheVars, loggingVars, replicationVars>>
OfLogging == UNCHANGED <<acts, coreVars, cacheVars, importVars, replicationVars>>
OfReplication == UNCHANGED <<acts, coreVars, cacheVars, importVars, loggingVars>>

(***************************************************************************)
(* The route of the location is run, by the page it belongs to.            *)
(***************************************************************************)
Visit ==
    /\ \/ PlainVisit(address) /\ OfPlain
       \/ CoreVisit(address) /\ OfCore
       \/ CacheVisit(address) /\ OfCache
       \/ ImportVisit(address) /\ OfImport
       \/ LoggingVisit(address) /\ OfLogging
       \/ ReplicationVisit(address) /\ OfReplication
    /\ UNCHANGED connectionVars

Answered(q) ==
    /\ \/ (BootCores(q) \/ BootSystem(q)) /\ UNCHANGED pageVars
       \/ PlainAnswer(q) /\ OfPlain
       \/ CoreAnswer(q) /\ OfCore
       \/ CacheAnswer(q) /\ OfCache
       \/ ImportAnswer(q) /\ OfImport
       \/ LoggingAnswer(q) /\ OfLogging
       \/ ReplicationAnswer(q) /\ OfReplication
    /\ UNCHANGED connectionVars

Unhandled(q) == q.do \notin {"boot system", "import", "details"} /\ q.n # 1

(***************************************************************************)
(* A request fails: its own error callback runs and, if the server was not *)
(* reached, that of the connection.                                        *)
(***************************************************************************)
Failed(q) ==
    /\ \/ BootFails(q) /\ UNCHANGED pageVars
       \/ ImportFails(q) /\ OfImport
       \/ DetailsFail(q) /\ OfReplication
       \/ Unhandled(q) /\ Fail(q) /\ UNCHANGED pageVars
    /\ \/ UNCHANGED connectionVars
       \/ family.lossy /\ Unreachable

Fired(t) ==
    /\ \/ ImportTimer(t) /\ OfImport
       \/ LoggingTimer(t) /\ OfLogging
       \/ ReplicationTimer(t) /\ OfReplication
    /\ UNCHANGED connectionVars

Pressed ==
    /\ ~blocked
    /\ \/ PlainPress /\ OfPlain
       \/ CorePress /\ OfCore
       \/ ImportPress /\ OfImport
       \/ ReplicationPress /\ OfReplication
    /\ UNCHANGED connectionVars

Next ==
    \/ \E r \in family.routes : Move(r) /\ UNCHANGED <<pageVars, connectionVars>>
    \/ NoNewRoute /\ UNCHANGED <<pageVars, connectionVars>>
    \/ Visit
    \/ \E q \in InFlight : Answered(q) \/ Failed(q)
    \/ \E t \in timers : Fired(t)
    \/ Pressed
    \/ LogEvent /\ OfLogging /\ UNCHANGED connectionVars
    \/ ~due /\ ConnectionNext /\ UNCHANGED <<consoleVars, pageVars>>

Spec == Init /\ [][Next]_vars

FairSpec == Spec /\ ConnectionFairness

-------------------------------------------------------------------------------
Pages == Templated \cup Framed
           \cup {"cores", "plugins", "schema-browser", "dataimport", "logging",
                 "replication"}

Routes == [page : Pages \cup {"none"}, core : Core \cup {NoCore},
           arg : Core \cup {NoCore, "null", Handler} \cup Types]

OfACore == {"dashboard", "analysis", "documents", "query", "file", "plugins",
            "schema-browser", "dataimport", "replication"}

(***************************************************************************)
(* What a user goes about is made of the console's own routes; those of    *)
(* the pages of a core begin with its name.                                *)
(***************************************************************************)
ASSUME RoutesAssumption ==
    \A f \in Families :
        /\ f.cores \subseteq Core
        /\ \A r \in f.routes :
              /\ r \in Routes
              /\ r.page # "none"
              /\ r.page \in OfACore => r.core \in Core

Contents == Pages \cup {"loading", "no handler", "no replication"}

TypeOK ==
    /\ family \in Families
    /\ moves \in 0..family.moves
    /\ {address, last, route, shown.by} \subseteq Routes
    /\ visit \in Nat
    /\ menu \cup alive \subseteq Core
    /\ wrecked \in BOOLEAN /\ running \in BOOLEAN /\ due \in BOOLEAN
    /\ shown.page \in Contents
    /\ shown.visit \in 0..visit
    /\ \A d \in shown.data : d.core \in Core \cup {NoCore}
    /\ \A q \in InFlight : q.visit \in 0..visit /\ q.route \in Routes
    /\ \A t, u \in timers : t.id = u.id => t = u
    /\ {t.id : t \in timers} \subseteq Nat \ {0}
    /\ {timeout, ticker} \subseteq Nat
    /\ acts \in [Live -> Core \cup {NoCore}]
    /\ {basepath, coreActs, pluginData} \subseteq Core \cup {NoCore}
    /\ \A d \in schemaData : d.core \in Core
    /\ autorefresh \subseteq 1..visit
    /\ rows \in Seq(1..MaxEvents)
    /\ element \in 0..visit

(***************************************************************************)
(* The location has been followed, and the visit has nothing in flight     *)
(* that draws its page.                                                    *)
(***************************************************************************)
Drawing == {"template", "core list", "core data", "core template", "mbeans",
            "plugins template", "luke", "schema", "schema template",
            "find handlers", "import template", "logging template",
            "replication template"}

Settled ==
    /\ running /\ ~due /\ ~wrecked
    /\ address = last /\ route = address
    /\ \A q \in InFlight : q.visit = visit => q.do \notin Drawing

(***************************************************************************)
(* Answers of an earlier visit that draw over the page of the present one. *)
(***************************************************************************)
Overdrawing == {"template", "core template", "plugins template", "schema template",
                "find handlers", "import template", "logging template",
                "replication template"}

Disturbances(late, lost) ==
    ({"late"} \X late) \cup ({"lost"} \X lost) \cup ({"cached"} \X {"cores", "plugins"})

PageOf(r) ==
    IF r.page = "dataimport" /\ r.arg = NoCore THEN "no handler" ELSE r.page

(***************************************************************************)
(* The routes that only find another one to redirect to.                   *)
(***************************************************************************)
Redirecting(r) ==
    \/ r = ListRoute
    \/ r.page = "plugins" /\ r.arg = NoCore
    \/ r.page = "dataimport" /\ r.arg = NoCore /\ r.core \in Importing

(***************************************************************************)
(* However the user has moved before and whatever of it is still in flight,*)
(* a visit shows its own page when its answers have come, unless a late    *)
(* template was drawn over it, an answer was lost, or the page was taken   *)
(* for drawn because its template or its data were cached.                 *)
(***************************************************************************)
RouteIsDrawn ==
    /\ Settled /\ ~Redirecting(route)
    /\ upset \cap Disturbances(Overdrawing, Drawing \cup {"details"}) = {}
    => shown.page = PageOf(route)

CoreOf(r) == IF r.page = "cores" THEN r.arg ELSE r.core

(***************************************************************************)
(* What the page of a core shows is of that core.  Only late answers that  *)
(* write into a page looked up when they come can change that: the core    *)
(* page, the status of an import, the schema in the making, the details of *)
(* a replication, the plugins; the data of the other pages cannot.         *)
(***************************************************************************)
DataIsOfTheCore ==
    /\ Settled /\ ~Redirecting(route)
    /\ upset \cap Disturbances(Overdrawing \cup {"core data", "status", "luke", "schema",
                                                 "mbeans", "details"},
                               Drawing \cup {"details"}) = {}
    => \A d \in shown.data : d.core = CoreOf(route)

(***************************************************************************)
(* The buttons of a page act on the core whose data are shown beside them: *)
(* on the core pages always, on the dashboard unless a late answer has     *)
(* bound them to the core of an earlier visit.                             *)
(***************************************************************************)
ButtonsActOnTheShownCore ==
    \A d \in shown.data :
        /\ d.block \in Live /\ shown.visit = visit /\ <<"late", d.block>> \notin upset
              => acts[d.block] = d.core
        /\ d.block = "core" => coreActs = d.core

(***************************************************************************)
(* What a page shows and what its buttons do are of the same core, that of *)
(* the route.                                                              *)
(***************************************************************************)
PagesAreOfTheCore == DataIsOfTheCore /\ ButtonsActOnTheShownCore

(***************************************************************************)
(* The status of an import that is to be refreshed goes on being asked     *)
(* for, by one timer at a time, as long as no request failed, no late      *)
(* answer of another page has taken app.timeout and no route was refused.  *)
(***************************************************************************)
ImportPollsOnce ==
    LET mine == {t \in timers : t.do = "status timer" /\ t.visit = visit}
    IN  /\ Settled
        /\ shown.page = "dataimport" /\ shown.visit = visit
        /\ visit \in autorefresh
        /\ upset \cap Disturbances({"status", "status timer", "log", "log timer", "logging template"},
                                   {"status", "timer"}) = {}
        => /\ Cardinality(mine) <= 1
           /\ \/ \E t \in mine : t.id = timeout
              \/ \E q \in InFlight : q.do \in {"status", "import", "abort"} /\ q.visit = visit

(***************************************************************************)
(* The table of the logging viewer has every event once and in order,      *)
(* unless the viewer of an earlier visit is still going.                   *)
(***************************************************************************)
EventsShownOnce ==
    /\ shown.page = "logging" /\ shown.visit = visit
    /\ upset \cap Disturbances({"log", "log timer", "logging template"}, {}) = {}
    => rows = Events(0, latest)

(***************************************************************************)
(* The pages that refresh themselves do it once: one timer for an import,  *)
(* every event once in the log.                                            *)
(***************************************************************************)
RefreshedOnce == ImportPollsOnce /\ EventsShownOnce

(***************************************************************************)
(* However many requests for details are answered, one countdown runs.     *)
(***************************************************************************)
OneCountdown == {t.id : t \in {u \in timers : u.do = "tick"}} \subseteq {ticker}
===============================================================================
