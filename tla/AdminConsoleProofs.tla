--------------------------- MODULE AdminConsoleProofs ---------------------------
(***************************************************************************)
(* What is proved of the admin console, for any cores, any users and any   *)
(* number of moves and timers: one chain of connection checks, one         *)
(* countdown on the replication page, a route that is drawn when its       *)
(* answers have come, pages whose data and buttons are of one core, pages  *)
(* that refresh themselves once, and the types of the variables.           *)
(***************************************************************************)
EXTENDS AdminConsole, RequireLoader, Integers, FiniteSetTheorems, SequenceTheorems,
        WellFoundedInduction, TLAPS

ConnectionInv ==
    /\ working \in BOOLEAN
    /\ waiting \in Nat
    /\ asking \in Nat
    /\ OneConnectionCheck

LEMMA ConnectionDown ==
    ASSUME waiting' \in Nat, asking' \in Nat, waiting' + asking' = 1, working' = FALSE
    PROVE  ConnectionInv'
<1>1. working' \in BOOLEAN /\ ~working'
  OBVIOUS
<1>. QED BY <1>1, Zenon DEF ConnectionInv, OneConnectionCheck

LEMMA ConnectionUp ==
    ASSUME waiting' \in Nat, asking' \in Nat, waiting' + asking' = 0, working' = TRUE
    PROVE  ConnectionInv'
<1>1. working' \in BOOLEAN /\ working'
  OBVIOUS
<1>. QED BY <1>1, Zenon DEF ConnectionInv, OneConnectionCheck

LEMMA ConnectionStep ==
    ASSUME ConnectionInv,
           UNCHANGED connectionVars \/ Unreachable \/ ConnectionNext
    PROVE  ConnectionInv'
<1>. /\ waiting \in Nat
     /\ asking \in Nat
     /\ working \in BOOLEAN
  BY DEF ConnectionInv
<1>up. working => waiting + asking = 0
  BY Zenon DEF ConnectionInv, OneConnectionCheck
<1>down. ~working => waiting + asking = 1
  BY Zenon DEF ConnectionInv, OneConnectionCheck
<1>1. CASE UNCHANGED connectionVars
  BY <1>1, Zenon DEF ConnectionInv, OneConnectionCheck, connectionVars
<1>2. CASE Unreachable
  <2>1. CASE working
    <3>1. working' = FALSE /\ waiting' = waiting + 1 /\ asking' = asking
      BY <1>2, <2>1, Zenon DEF Unreachable
    <3>2. waiting' \in Nat /\ asking' \in Nat /\ waiting' + asking' = 1
      BY <1>up, <2>1, <3>1
    <3>. QED BY <3>1, <3>2, ConnectionDown
  <2>2. CASE ~working
    <3>1. UNCHANGED connectionVars
      BY <1>2, <2>2, Zenon DEF Unreachable
    <3>. QED BY <3>1, Zenon DEF ConnectionInv, OneConnectionCheck, connectionVars
  <2>. QED BY <2>1, <2>2
<1>3. CASE Check
  <2>1. waiting' \in Nat /\ asking' \in Nat /\ waiting' + asking' = waiting + asking
    BY <1>3 DEF Check
  <2>2. waiting + asking = 1 /\ ~working
    BY <1>up, <1>down, <1>3 DEF Check
  <2>3. working' = FALSE
    BY <1>3, <2>2, Zenon DEF Check
  <2>. QED BY <2>1, <2>2, <2>3, ConnectionDown
<1>4. CASE CheckSucceeds
  <2>1. waiting' \in Nat /\ asking' \in Nat /\ waiting' + asking' = 0
    BY <1>up, <1>down, <1>4 DEF CheckSucceeds
  <2>. QED BY <1>4, <2>1, ConnectionUp DEF CheckSucceeds
<1>5. CASE CheckFails
  <2>1. ~working
    BY <1>up, <1>5 DEF CheckFails
  <2>2. waiting' = waiting + 1 /\ asking' = asking - 1 /\ asking > 0 /\ working' = FALSE
    BY <1>5, <2>1, Zenon DEF CheckFails
  <2>3. waiting' \in Nat /\ asking' \in Nat /\ waiting' + asking' = 1
    BY <1>down, <2>1, <2>2
  <2>. QED BY <2>2, <2>3, ConnectionDown
<1>. QED BY <1>1, <1>2, <1>3, <1>4, <1>5 DEF ConnectionNext

(***************************************************************************)
(* Whatever a page does, the connection knows nothing of it but that a     *)
(* request was lost.                                                       *)
(***************************************************************************)
LEMMA StepOfTheConnection ==
    ASSUME [Next]_vars
    PROVE  UNCHANGED connectionVars \/ Unreachable \/ ConnectionNext
<1>1. CASE UNCHANGED vars
  BY <1>1 DEF vars
<1>2. CASE \E r \in family.routes : Move(r) /\ UNCHANGED <<pageVars, connectionVars>>
  BY <1>2
<1>3. CASE NoNewRoute /\ UNCHANGED <<pageVars, connectionVars>>
  BY <1>3
<1>4. CASE Visit
  BY <1>4 DEF Visit
<1>5. CASE \E q \in InFlight : Answered(q) \/ Failed(q)
  BY <1>5 DEF Answered, Failed
<1>6. CASE \E t \in timers : Fired(t)
  BY <1>6 DEF Fired
<1>7. CASE Pressed
  BY <1>7 DEF Pressed
<1>8. CASE LogEvent /\ OfLogging /\ UNCHANGED connectionVars
  BY <1>8
<1>9. CASE ~due /\ ConnectionNext /\ UNCHANGED <<consoleVars, pageVars>>
  BY <1>9
<1>. QED BY <1>1, <1>2, <1>3, <1>4, <1>5, <1>6, <1>7, <1>8, <1>9 DEF Next

(***************************************************************************)
(* There is one chain of checks while the connection is down and none      *)
(* while it works.                                                         *)
(***************************************************************************)
THEOREM OneChainOfChecks == Spec => []OneConnectionCheck
<1>1. Init => ConnectionInv
  BY DEF Init, ConnectionInit, ConnectionInv, OneConnectionCheck
<1>2. ConnectionInv /\ [Next]_vars => ConnectionInv'
  BY ConnectionStep, StepOfTheConnection
<1>3. ConnectionInv => OneConnectionCheck
  BY DEF ConnectionInv
<1>. QED BY <1>1, <1>2, <1>3, PTL DEF Spec

-------------------------------------------------------------------------------
(***************************************************************************)
(* The countdown.  There is at most one timer of it, and the handle in     *)
(* timer_timeout is its handle, so that stopping it stops it.              *)
(***************************************************************************)
CountdownInv ==
    \A t, u \in timers : t.do = "tick" /\ u.do = "tick" => t = u /\ t.id = ticker

(***************************************************************************)
(* A step that starts no countdown.                                        *)
(***************************************************************************)
Quiet == ticker' = ticker /\ \A t \in timers' : t \in timers \/ t.do # "tick"

LEMMA QuietStep == ASSUME CountdownInv, Quiet PROVE CountdownInv'
BY DEF CountdownInv, Quiet

LEMMA Unclocked == ASSUME UNCHANGED timers, UNCHANGED ticker PROVE Quiet
BY DEF Quiet

LEMMA Fewer == ASSUME timers' \subseteq timers, UNCHANGED ticker PROVE Quiet
BY DEF Quiet

LEMMA CountdownStarts ==
    ASSUME NEW others, NEW n, Countdown(others, n), \A t \in others : t.do # "tick"
    PROVE  CountdownInv'
<1>1. PICK id, u : u.id = id /\ ticker' = id /\ timers' = others \cup {u}
  BY DEF Countdown, Timer
<1>. QED BY <1>1 DEF CountdownInv

LEMMA ClearedOfTicks ==
    ASSUME CountdownInv PROVE \A t \in TimersCleared : t.do # "tick"
BY DEF CountdownInv, TimersCleared

(***************************************************************************)
(* Running a route clears app.timeout.                                     *)
(***************************************************************************)
LEMMA RunRouteQuiet ==
    ASSUME NEW r, RunRoute(r), UNCHANGED ticker PROVE Quiet
<1>1. timers' \subseteq timers
  BY DEF RunRoute, ClearTimeout
<1>. QED BY <1>1, Fewer

LEMMA VisitQuiet == ASSUME Visit PROVE Quiet
<1>1. ticker' = ticker
  BY DEF Visit, OfPlain, OfCore, OfCache, OfImport, OfLogging, ReplicationVisit,
         VisitReplication, replicationVars
<1>2. RunRoute(address)
  BY DEF Visit, PlainVisit, VisitTemplated, VisitFramed, CoreVisit, VisitCoreList,
         VisitCore, CacheVisit, VisitPlugins, VisitPluginType, VisitSchemaBrowser,
         ImportVisit, VisitImports, VisitImport, LoggingVisit, VisitLogging,
         ReplicationVisit, VisitReplication
<1>. QED BY <1>1, <1>2, RunRouteQuiet

(***************************************************************************)
(* The answers: only those of the polling pages touch the timers.          *)
(***************************************************************************)
LEMMA PlainAnswerQuiet == ASSUME NEW q, PlainAnswer(q), OfPlain PROVE Quiet
<1>1. UNCHANGED clock
  BY DEF PlainAnswer, Template, PlainData, CommandDone
<1>. QED BY <1>1, Unclocked DEF clock, OfPlain, replicationVars

LEMMA CoreAnswerQuiet == ASSUME NEW q, CoreAnswer(q), OfCore PROVE Quiet
<1>1. UNCHANGED clock
  BY DEF CoreAnswer, CoreList, CoreData, CoreTemplate, Execute, Executed
<1>. QED BY <1>1, Unclocked DEF clock, OfCore, replicationVars

LEMMA CacheAnswerQuiet == ASSUME NEW q, CacheAnswer(q), OfCache PROVE Quiet
<1>1. UNCHANGED clock
  BY DEF CacheAnswer, Mbeans, PluginsTemplate, Luke, Schema, SchemaTemplate
<1>. QED BY <1>1, Unclocked DEF clock, OfCache, replicationVars

LEMMA StatusQuiet == ASSUME NEW q, Status(q), UNCHANGED ticker PROVE Quiet
<1>1. CASE UNCHANGED clock
  BY <1>1, Unclocked DEF clock
<1>2. CASE timeout = 0 /\ q.visit \in autorefresh
  <2>1. PICK u : u.do = "status timer" /\ timers' = timers \cup {u}
    BY <1>2 DEF Status, Timer
  <2>. QED BY <2>1 DEF Quiet
<1>. QED BY <1>1, <1>2 DEF Status

LEMMA ImportAnswerQuiet == ASSUME NEW q, ImportAnswer(q), OfImport PROVE Quiet
<1>1. UNCHANGED ticker
  BY DEF OfImport, replicationVars
<1>2. CASE Status(q)
  BY <1>1, <1>2, StatusQuiet
<1>3. CASE FindHandlers(q) \/ ImportTemplate(q) \/ ImportDone(q)
  <2>1. UNCHANGED clock
    BY <1>3 DEF FindHandlers, ImportTemplate, ImportDone
  <2>. QED BY <1>1, <2>1, Unclocked DEF clock
<1>. QED BY <1>2, <1>3 DEF ImportAnswer

LEMMA LoggingAnswerQuiet == ASSUME NEW q, LoggingAnswer(q), OfLogging PROVE Quiet
<1>1. UNCHANGED ticker
  BY DEF OfLogging, replicationVars
<1>2. CASE Log(q)
  <2>1. PICK u : u.do = "log timer" /\ timers' = timers \cup {u}
    BY <1>2 DEF Log, Timer
  <2>. QED BY <1>1, <2>1 DEF Quiet
<1>3. CASE LoggingTemplate(q)
  <2>1. UNCHANGED clock
    BY <1>3 DEF LoggingTemplate
  <2>. QED BY <1>1, <2>1, Unclocked DEF clock
<1>. QED BY <1>2, <1>3 DEF LoggingAnswer

(***************************************************************************)
(* The answers of the replication page: init_timer stops the countdown it  *)
(* starts again.                                                           *)
(***************************************************************************)
LEMMA ReplicationAnswerStep ==
    ASSUME NEW q, ReplicationAnswer(q), CountdownInv PROVE CountdownInv'
<1>1. CASE ReplicationTemplate(q) \/ Replicate(q)
  <2>1. timers' \subseteq timers /\ UNCHANGED ticker
    BY <1>1 DEF ReplicationTemplate, Replicate, TimersCleared, replicationVars
  <2>. QED BY <2>1, Fewer, QuietStep
<1>2. CASE Details(q)
  <2>1. CASE UNCHANGED <<timers, ticker>>
    BY <2>1, Unclocked, QuietStep
  <2>2. CASE /\ timers' = timers \cup {Timer(FreeHandle, "refetch", NoRoute, visit, 0)}
             /\ UNCHANGED ticker
    <3>1. PICK u : u.do = "refetch" /\ timers' = timers \cup {u}
      BY <2>2 DEF Timer
    <3>2. Quiet
      BY <2>2, <3>1 DEF Quiet
    <3>. QED BY <3>2, QuietStep
  <2>3. CASE \E n \in 1..MaxTick : InitTimer(n)
    BY <2>3, ClearedOfTicks, CountdownStarts DEF InitTimer
  <2>. QED BY <1>2, <2>1, <2>2, <2>3 DEF Details
<1>. QED BY <1>1, <1>2 DEF ReplicationAnswer

LEMMA AnsweredStep ==
    ASSUME NEW q, Answered(q), CountdownInv PROVE CountdownInv'
<1>1. CASE (BootCores(q) \/ BootSystem(q)) /\ UNCHANGED pageVars
  <2>1. UNCHANGED timers /\ UNCHANGED ticker
    BY <1>1 DEF BootCores, BootSystem, clock, pageVars, replicationVars
  <2>. QED BY <2>1, Unclocked, QuietStep
<1>2. CASE \/ PlainAnswer(q) /\ OfPlain
           \/ CoreAnswer(q) /\ OfCore
           \/ CacheAnswer(q) /\ OfCache
           \/ ImportAnswer(q) /\ OfImport
           \/ LoggingAnswer(q) /\ OfLogging
  <2>1. Quiet
    BY <1>2, PlainAnswerQuiet, CoreAnswerQuiet, CacheAnswerQuiet, ImportAnswerQuiet,
       LoggingAnswerQuiet
  <2>. QED BY <2>1, QuietStep
<1>3. CASE ReplicationAnswer(q) /\ OfReplication
  BY <1>3, ReplicationAnswerStep
<1>. QED BY <1>1, <1>2, <1>3 DEF Answered

(***************************************************************************)
(* What fails and what is pressed starts no countdown.                     *)
(***************************************************************************)
LEMMA FailedQuiet == ASSUME NEW q, Failed(q) PROVE Quiet
<1>1. UNCHANGED clock
  BY DEF Failed, BootFails, ImportFails, DetailsFail, Fail
<1>2. UNCHANGED ticker
  BY DEF Failed, OfImport, DetailsFail, pageVars, replicationVars
<1>. QED BY <1>1, <1>2, Unclocked DEF clock

LEMMA PressedQuiet == ASSUME Pressed PROVE Quiet
<1>1. timers' \subseteq timers
  BY DEF Pressed, PlainPress, PressLive, CorePress, PressButton, SubmitForm, ImportPress,
         PressImport, ToggleAutorefresh, ReplicationPress, PressRefresh, PressCommand,
         TimersCleared, clock
<1>2. UNCHANGED ticker
  BY DEF Pressed, OfPlain, OfCore, OfImport, ReplicationPress, PressRefresh, PressCommand,
         replicationVars
<1>. QED BY <1>1, <1>2, Fewer

(***************************************************************************)
(* The timers: the countdown goes on with the timer that has fired gone.   *)
(***************************************************************************)
LEMMA FiredStep ==
    ASSUME NEW t \in timers, Fired(t), CountdownInv PROVE CountdownInv'
<1>1. CASE (ImportTimer(t) /\ OfImport) \/ (LoggingTimer(t) /\ OfLogging)
  <2>1. timers' \subseteq timers
    BY <1>1 DEF ImportTimer, StatusTimer, LoggingTimer, LogTimer
  <2>2. UNCHANGED ticker
    BY <1>1 DEF OfImport, OfLogging, replicationVars
  <2>. QED BY <2>1, <2>2, Fewer, QuietStep
<1>2. CASE Tick(t)
  <2>1. t.do = "tick"
    BY <1>2 DEF Tick, Answer
  <2>2. \A u \in timers \ {t} : u.do # "tick"
    BY <2>1 DEF CountdownInv
  <2>3. Countdown(timers \ {t}, t.n)
    BY <1>2 DEF Tick
  <2>. QED BY <2>2, <2>3, CountdownStarts
<1>3. CASE Refetch(t)
  <2>1. timers' \subseteq timers /\ UNCHANGED ticker
    BY <1>3 DEF Refetch, TimersCleared, replicationVars
  <2>. QED BY <2>1, Fewer, QuietStep
<1>. QED BY <1>1, <1>2, <1>3 DEF Fired, ReplicationTimer

LEMMA CountdownStep ==
    ASSUME CountdownInv, [Next]_vars PROVE CountdownInv'
<1>1. CASE UNCHANGED vars
  BY <1>1, Unclocked, QuietStep DEF vars, consoleVars, clock, pageVars, replicationVars
<1>2. CASE \E r \in family.routes : Move(r) /\ UNCHANGED <<pageVars, connectionVars>>
  BY <1>2, Unclocked, QuietStep DEF Move, clock, pageVars, replicationVars
<1>3. CASE NoNewRoute /\ UNCHANGED <<pageVars, connectionVars>>
  <2>1. timers' \subseteq timers /\ UNCHANGED ticker
    BY <1>3 DEF NoNewRoute, ClearTimeout, clock, pageVars, replicationVars
  <2>. QED BY <2>1, Fewer, QuietStep
<1>4. CASE Visit
  BY <1>4, VisitQuiet, QuietStep
<1>5. CASE \E q \in InFlight : Answered(q) \/ Failed(q)
  BY <1>5, AnsweredStep, FailedQuiet, QuietStep
<1>6. CASE \E t \in timers : Fired(t)
  BY <1>6, FiredStep
<1>7. CASE Pressed
  BY <1>7, PressedQuiet, QuietStep
<1>8. CASE LogEvent /\ OfLogging /\ UNCHANGED connectionVars
  BY <1>8, Unclocked, QuietStep DEF LogEvent, OfLogging, clock, replicationVars
<1>9. CASE ~due /\ ConnectionNext /\ UNCHANGED <<consoleVars, pageVars>>
  BY <1>9, Unclocked, QuietStep DEF consoleVars, clock, pageVars, replicationVars
<1>. QED BY <1>1, <1>2, <1>3, <1>4, <1>5, <1>6, <1>7, <1>8, <1>9 DEF Next

(***************************************************************************)
(* However many answers start a countdown, and whatever else the console   *)
(* does with its timers, one countdown runs, and its handle is the one     *)
(* that stops it.                                                          *)
(***************************************************************************)
THEOREM OneCountdownRuns == Spec => []OneCountdown
<1>1. Init => CountdownInv
  BY DEF Init, ConsoleInit, CountdownInv
<1>2. CountdownInv /\ [Next]_vars => CountdownInv'
  BY CountdownStep
<1>3. CountdownInv => OneCountdown
  BY DEF CountdownInv, OneCountdown
<1>. QED BY <1>1, <1>2, <1>3, PTL DEF Spec

-------------------------------------------------------------------------------
(* What the pages draw.  The requests whose closures belong to a visit, and *)
(* what each of them says of the route of that visit.                       *)

PlainBlocks == Dashboard \cup Analysis \cup File \cup Cloud \cup Threads
                 \cup LoggingLevel \cup JavaProperties \cup Index

Suits(q) ==
    /\ q.do = "template" => q.route.page \in Templated
    /\ q.do \in PlainBlocks => q.route.page \in Templated \cup Framed
    /\ q.do = "core list" => q.route = ListRoute
    /\ q.do \in {"core data", "core template"} =>
          q.route.page = "cores" /\ q.route # ListRoute
    /\ q.do \in {"mbeans", "plugins template"} => q.route.page = "plugins"
    /\ q.do \in {"luke", "schema", "schema template"} => q.route.page = "schema-browser"
    /\ q.do = "find handlers" => q.route.page = "dataimport" /\ q.route.arg = NoCore
    /\ q.do = "import template" => q.route.page = "dataimport" /\ q.route.arg # NoCore
    /\ q.do = "logging template" => q.route.page = "logging"
    /\ q.do = "replication template" => q.route.page = "replication"

Tracked == Drawing \cup PlainBlocks \cup {"status", "import", "abort"}

(***************************************************************************)
(* Everything that goes back to a visit: requests, the timers of an import *)
(* and the page that is shown, but for the one of a replication that       *)
(* failed, which is drawn by whoever asked.                                *)
(***************************************************************************)
Closures ==
    {<<q.visit, q.route>> : q \in {p \in InFlight : p.do \in Tracked}}
      \cup {<<t.visit, t.route>> : t \in {u \in timers : u.do = "status timer"}}
      \cup (IF shown.page = "no replication" THEN {} ELSE {<<shown.visit, shown.by>>})
      \cup {<<visit, route>>}

(***************************************************************************)
(* A visit has one route, and the requests in flight are the requests of   *)
(* their pages.                                                            *)
(***************************************************************************)
ClosureInv ==
    /\ IsABag(requests)
    /\ visit \in Nat
    /\ \A a \in Closures : a[1] \in 0..visit
    /\ \A a, b \in Closures : a[1] = b[1] => a[2] = b[2]
    /\ \A q \in InFlight :
          /\ q = AskOf(q.do, q.route, q.visit, q.cores, q.n)
          /\ q.visit \in 0..visit
          /\ Suits(q)
    /\ shown = [page |-> shown.page, by |-> shown.by, visit |-> shown.visit,
                data |-> shown.data]
    /\ shown.visit \in 0..visit
    /\ shown.page \in {"loading", "no replication"} \/ shown.page = PageOf(shown.by)
    /\ route.page \notin {"loading", "no replication"}

(***************************************************************************)
(* Every location is that of a page.                                       *)
(***************************************************************************)
PlaceInv ==
    /\ family \in Families
    /\ address.page # "none"

(***************************************************************************)
(* The requests of the present visit that still have to draw its page.     *)
(***************************************************************************)
Mine == {q \in InFlight : q.visit = visit /\ q.do \in Drawing}

Undrawn == upset \cap Disturbances(Overdrawing, Drawing \cup {"details"}) = {}

Mixing == Overdrawing \cup {"core data", "status", "luke", "schema", "mbeans", "details"}

Unmixed == upset \cap Disturbances(Mixing, Drawing \cup {"details"}) = {}

(***************************************************************************)
(* The two kinds of routes that draw nothing.                              *)
(***************************************************************************)
HandsOver(r) ==
    \/ r = ListRoute
    \/ r.page = "dataimport" /\ r.arg = NoCore /\ r.core \in Importing

(***************************************************************************)
(* An undisturbed visit has drawn its page or has a request in flight that *)
(* will; a plain page is drawn anew.  The list has forgotten the template  *)
(* of the core page, and a core page that is not drawn again is there to   *)
(* be written to.                                                          *)
(***************************************************************************)
DrawnInv ==
    Undrawn =>
      /\ \/ route = NoRoute \/ HandsOver(route)
         \/ Mine # {}
         \/ /\ shown.page = PageOf(route)
            /\ route.page \in Templated \cup Framed => shown.visit = visit
      /\ route.page = "schema-browser" => shown.page = "schema-browser"
      /\ route = ListRoute => ~coresTemplate
      /\ coresTemplate /\ (\E q \in Mine : q.do = "core data") => shown.page = "cores"

(***************************************************************************)
(* What an unmixed visit has is of the core of its route.                  *)
(***************************************************************************)
DataInv ==
    /\ route.page = "replication" =>
          /\ basepath = route.core
          /\ \A q \in InFlight : q.do = "details" /\ q.visit = visit =>
                q.route.core = route.core
    /\ Unmixed =>
          /\ route.page = "plugins" => pluginData \in {NoCore, route.core}
          /\ route.page = "schema-browser" => \A d \in schemaData : d.core = route.core
          /\ /\ ~HandsOver(route)
             /\ Mine = {} \/ route.page = "schema-browser"
             /\ shown.page = PageOf(route)
             => \A d \in shown.data : d.core = CoreOf(route)

(***************************************************************************)
(* The buttons are bound by the answer that fills the element beside them. *)
(***************************************************************************)
ButtonsInv ==
    /\ DOMAIN acts = Live
    /\ ButtonsActOnTheShownCore
    /\ \A d \in schemaData : d.block \in {"fields", "schema"}
    /\ \A d \in shown.data : d.block = "core" => shown.page = "cores"

ConsoleInv == ClosureInv /\ DrawnInv /\ DataInv /\ ButtonsInv

PagesInv == ConsoleInv /\ PlaceInv

-------------------------------------------------------------------------------
(***************************************************************************)
(* What sending and answering do to the requests in flight.                *)
(***************************************************************************)
Asked(gone, new) ==
    /\ IsABag(requests')
    /\ InFlight' \subseteq InFlight \cup new
    /\ new \subseteq InFlight'
    /\ InFlight \subseteq InFlight' \cup gone

LEMMA SentAsks ==
    ASSUME IsABag(requests), NEW new, requests' = Sent(new)
    PROVE  Asked({}, new)
<1> DEFINE more == SetToBag(new)
<1>1. more = [e \in new |-> 1]
  BY DEF SetToBag
<1>2. requests \in [DOMAIN requests -> {n \in Nat : n > 0}]
  BY DEF IsABag
<1>3. requests' = [e \in DOMAIN requests \cup new |->
                     (IF e \in DOMAIN requests THEN requests[e] ELSE 0)
                       + (IF e \in new THEN 1 ELSE 0)]
  BY <1>1 DEF Sent, (+)
<1> HIDE DEF more
<1>4. DOMAIN requests' = DOMAIN requests \cup new
  BY <1>3
<1>5. \A e \in DOMAIN requests' : requests'[e] \in Nat /\ requests'[e] > 0
  BY <1>2, <1>3, <1>4
<1>6. requests' = [e \in DOMAIN requests' |-> requests'[e]]
  BY <1>3
<1>7. IsABag(requests')
  BY <1>5, <1>6 DEF IsABag
<1> QED
  BY <1>4, <1>7 DEF Asked, InFlight, BagToSet

LEMMA ExchangedAsks ==
    ASSUME IsABag(requests), NEW q, NEW new, requests' = Exchanged(q, new)
    PROVE  Asked({q}, new)
<1> DEFINE rest == requests (-) SetToBag({q})
<1>1. requests \in [DOMAIN requests -> {n \in Nat : n > 0}]
  BY DEF IsABag
<1>2. SetToBag({q}) = [e \in {q} |-> 1]
  BY DEF SetToBag
<1> DEFINE left == [e \in DOMAIN requests |->
                      IF e \in {q} THEN requests[e] - 1 ELSE requests[e]]
<1>3. rest = [e \in {d \in DOMAIN left : left[d] > 0} |-> left[e]]
  BY <1>2 DEF (-)
<1>4. DOMAIN rest \subseteq DOMAIN requests /\ DOMAIN requests \subseteq DOMAIN rest \cup {q}
  BY <1>1, <1>3
<1>5. \A e \in DOMAIN rest : rest[e] \in Nat /\ rest[e] > 0
  <2>1. \A e \in DOMAIN left : left[e] \in Int
    BY <1>1
  <2>2. \A e \in DOMAIN rest : e \in DOMAIN left /\ left[e] > 0 /\ rest[e] = left[e]
    BY <1>3
  <2> HIDE DEF rest, left
  <2>3. QED
    BY <2>1, <2>2
<1>6. requests' = rest (+) SetToBag(new)
  BY DEF Exchanged
<1> HIDE DEF rest, left
<1>7. SetToBag(new) = [e \in new |-> 1]
  BY DEF SetToBag
<1>8. requests' = [e \in DOMAIN rest \cup new |->
                     (IF e \in DOMAIN rest THEN rest[e] ELSE 0)
                       + (IF e \in new THEN 1 ELSE 0)]
  BY <1>6, <1>7 DEF (+)
<1>9. DOMAIN requests' = DOMAIN rest \cup new
  BY <1>8
<1>10. \A e \in DOMAIN requests' : requests'[e] \in Nat /\ requests'[e] > 0
  BY <1>5, <1>8, <1>9
<1>11. requests' = [e \in DOMAIN requests' |-> requests'[e]]
  BY <1>8
<1>12. IsABag(requests')
  BY <1>10, <1>11 DEF IsABag
<1> QED
  BY <1>4, <1>9, <1>12 DEF Asked, InFlight, BagToSet

LEMMA KeptAsks ==
    ASSUME IsABag(requests), requests' = requests PROVE Asked({}, {})
BY DEF Asked, InFlight, BagToSet

LEMMA InFlightOf ==
    ASSUME NEW gone, NEW new, Asked(gone, new)
    PROVE  /\ \A q \in InFlight' : q \in InFlight \/ q \in new
           /\ \A q \in InFlight : q \in InFlight' \/ q \in gone
           /\ \A q \in new : q \in InFlight'
BY DEF Asked

LEMMA ClosureFacts ==
    /\ \A q \in InFlight : q.do \in Tracked => <<q.visit, q.route>> \in Closures
    /\ \A t \in timers : t.do = "status timer" => <<t.visit, t.route>> \in Closures
    /\ shown.page # "no replication" => <<shown.visit, shown.by>> \in Closures
    /\ <<visit, route>> \in Closures
BY DEF Closures

(***************************************************************************)
(* A step that only refers to visits there have been.                      *)
(***************************************************************************)
LEMMA ClosureKept ==
    ASSUME ClosureInv, UNCHANGED <<route, visit>>, NEW gone, NEW new, Asked(gone, new),
           \A a \in new : /\ a = AskOf(a.do, a.route, a.visit, a.cores, a.n)
                          /\ a.visit \in 0..visit
                          /\ Suits(a)
                          /\ a.do \in Tracked => <<a.visit, a.route>> \in Closures,
           \A t \in timers' : t.do = "status timer" =>
              t \in timers \/ <<t.visit, t.route>> \in Closures,
           shown' = [page |-> shown'.page, by |-> shown'.by, visit |-> shown'.visit,
                     data |-> shown'.data],
           shown'.visit \in 0..visit,
           \/ shown'.page = "no replication"
           \/ <<shown'.visit, shown'.by>> \in Closures,
           shown'.page \in {"loading", "no replication"} \/ shown'.page = PageOf(shown'.by)
    PROVE  ClosureInv'
<1>1. \A q \in InFlight' : q \in InFlight \/ q \in new
  BY InFlightOf
<1>2. Closures' \subseteq Closures
  <2>1. \A q \in InFlight' : q.do \in Tracked => <<q.visit, q.route>> \in Closures
    BY <1>1, ClosureFacts
  <2>2. \A t \in timers' : t.do = "status timer" => <<t.visit, t.route>> \in Closures
    BY ClosureFacts
  <2>3. <<visit', route'>> \in Closures
    BY ClosureFacts
  <2>4. ASSUME NEW c \in Closures' PROVE c \in Closures
    <3>1. CASE \E q \in InFlight' : q.do \in Tracked /\ c = <<q.visit, q.route>>
      BY <2>1, <3>1
    <3>2. CASE \E t \in timers' : t.do = "status timer" /\ c = <<t.visit, t.route>>
      BY <2>2, <3>2
    <3>3. CASE shown'.page # "no replication" /\ c = <<shown'.visit, shown'.by>>
      BY <3>3
    <3>4. CASE c = <<visit', route'>>
      BY <2>3, <3>4
    <3>5. QED
      BY <2>4, <3>1, <3>2, <3>3, <3>4 DEF Closures
  <2>5. QED
    BY <2>4
<1>3. \A q \in InFlight' : /\ q = AskOf(q.do, q.route, q.visit, q.cores, q.n)
                           /\ q.visit \in 0..visit
                           /\ Suits(q)
  BY <1>1 DEF ClosureInv
<1>4. IsABag(requests')
  BY DEF Asked
<1>5. (\A a \in Closures' : a[1] \in 0..visit')
      /\ (\A a, b \in Closures' : a[1] = b[1] => a[2] = b[2])
  BY <1>2 DEF ClosureInv
<1>6. visit' \in Nat
  BY DEF ClosureInv
<1> QED
  BY <1>3, <1>4, <1>5, <1>6 DEF ClosureInv, Suits, PageOf, ListRoute, CoreRoute

(***************************************************************************)
(* A disturbance is not forgotten as long as the visit lasts.              *)
(***************************************************************************)
LEMMA DisturbancesAre ==
    ASSUME NEW late, NEW lost
    PROVE  /\ \A do \in late : <<"late", do>> \in Disturbances(late, lost)
           /\ \A do \in lost : <<"lost", do>> \in Disturbances(late, lost)
           /\ \A page \in {"cores", "plugins"} :
                 <<"cached", page>> \in Disturbances(late, lost)
           /\ \A more : late \subseteq more =>
                 Disturbances(late, lost) \subseteq Disturbances(more, lost)
BY DEF Disturbances

LEMMA Disturbs ==
    /\ Unmixed => Undrawn
    /\ \A do \in Overdrawing : <<"late", do>> \in upset => ~Undrawn
    /\ \A do \in Mixing : <<"late", do>> \in upset => ~Unmixed
    /\ \A do \in Drawing \cup {"details"} : <<"lost", do>> \in upset => ~Undrawn
    /\ \A page \in {"cores", "plugins"} : <<"cached", page>> \in upset => ~Undrawn
<1>1. Overdrawing \subseteq Mixing
  BY DEF Mixing
<1> QED
  BY <1>1, DisturbancesAre DEF Undrawn, Unmixed

LEMMA DisturbsNext ==
    /\ Unmixed' => Undrawn'
    /\ \A do \in Overdrawing : <<"late", do>> \in upset' => ~Undrawn'
    /\ \A do \in Mixing : <<"late", do>> \in upset' => ~Unmixed'
    /\ \A do \in Drawing \cup {"details"} : <<"lost", do>> \in upset' => ~Undrawn'
    /\ \A page \in {"cores", "plugins"} : <<"cached", page>> \in upset' => ~Undrawn'
<1>1. Overdrawing \subseteq Mixing
  BY DEF Mixing
<1> QED
  BY <1>1, DisturbancesAre DEF Undrawn, Unmixed

LEMMA StaysDisturbed ==
    ASSUME upset \subseteq upset'
    PROVE  (Undrawn' => Undrawn) /\ (Unmixed' => Unmixed)
BY DEF Undrawn, Unmixed, Disturbances

LEMMA DisturbedGrows ==
    ASSUME NEW q, Disturbed(q) \subseteq upset'
    PROVE  /\ upset \subseteq upset'
           /\ q.visit # visit => <<"late", q.do>> \in upset'
BY DEF Disturbed

-------------------------------------------------------------------------------
(***************************************************************************)
(* The steps that neither draw nor load anything: they ask, they are       *)
(* answered in vain, or they are about something else.                     *)
(***************************************************************************)
DrawVars == <<route, visit, basepath, shown, coresTemplate, coreActs, acts,
              pluginData, schemaData>>

AskedAside(a) ==
    /\ a = AskOf(a.do, a.route, a.visit, a.cores, a.n)
    /\ a.visit \in 0..visit
    /\ a.do \notin Drawing \cup PlainBlocks
    /\ a.do \in {"status", "import", "abort"} => <<a.visit, a.route>> \in Closures
    /\ a.do = "details" /\ a.visit = visit => a.route.core = basepath

Aside(gone, new) ==
    /\ UNCHANGED DrawVars
    /\ upset \subseteq upset'
    /\ \A t \in timers' : t.do = "status timer" => t \in timers
    /\ Asked(gone, new)
    /\ \A q \in gone : q.visit = visit /\ q.do \in Drawing => <<"lost", q.do>> \in upset'
    /\ \A a \in new : AskedAside(a)

LEMMA SuitsAside ==
    ASSUME NEW a, a.do \notin Drawing \cup PlainBlocks PROVE Suits(a)
BY DEF Suits, Drawing

LEMMA AsideKeeps ==
    ASSUME ClosureInv, DrawnInv, DataInv, ButtonsInv, NEW gone, NEW new, Aside(gone, new)
    PROVE  ClosureInv' /\ DrawnInv' /\ DataInv' /\ ButtonsInv'
<1> USE DEF DrawVars
<1>1. /\ UNCHANGED DrawVars /\ Asked(gone, new) /\ upset \subseteq upset'
      /\ \A a \in new : AskedAside(a)
  BY DEF Aside
<1>2. ClosureInv'
  <2>1. \A a \in new : /\ a = AskOf(a.do, a.route, a.visit, a.cores, a.n)
                       /\ a.visit \in 0..visit
                       /\ Suits(a)
                       /\ a.do \in Tracked => <<a.visit, a.route>> \in Closures
    BY <1>1, SuitsAside DEF AskedAside, Tracked
  <2>2. \A t \in timers' : t.do = "status timer" =>
           t \in timers \/ <<t.visit, t.route>> \in Closures
    BY DEF Aside
  <2>3. /\ shown = [page |-> shown.page, by |-> shown.by, visit |-> shown.visit,
                    data |-> shown.data]
        /\ shown.visit \in 0..visit
        /\ shown.page = "no replication" \/ <<shown.visit, shown.by>> \in Closures
        /\ shown.page \in {"loading", "no replication"} \/ shown.page = PageOf(shown.by)
    BY ClosureFacts DEF ClosureInv
  <2> QED
    BY <1>1, <2>1, <2>2, <2>3, ClosureKept
<1>3. Mine' \subseteq Mine /\ (Undrawn' => Mine \subseteq Mine')
  <2>1. \A q \in InFlight' : q.do \in Drawing => q \in InFlight
    BY <1>1, InFlightOf DEF AskedAside
  <2>2. ASSUME Undrawn', NEW q \in Mine PROVE q \in InFlight'
    BY <1>1, <2>2, InFlightOf, DisturbsNext DEF Aside, Mine
  <2> QED
    BY <1>1, <2>1, <2>2 DEF Mine
<1>4. (Undrawn' => Undrawn) /\ (Unmixed' => Unmixed) /\ (Unmixed' => Undrawn')
  BY <1>1, StaysDisturbed, DisturbsNext
<1>5. DrawnInv'
  BY <1>1, <1>3, <1>4 DEF DrawnInv, HandsOver, PageOf
<1>6. DataInv'
  <2>1. route'.page = "replication" =>
          /\ basepath' = route'.core
          /\ \A q \in InFlight' : q.do = "details" /\ q.visit = visit' =>
                q.route.core = route'.core
    BY <1>1, InFlightOf DEF DataInv, AskedAside
  <2> QED
    BY <1>1, <1>3, <1>4, <2>1 DEF DataInv, HandsOver, PageOf, CoreOf
<1>7. ButtonsInv'
  BY <1>1 DEF ButtonsInv, ButtonsActOnTheShownCore
<1> QED
  BY <1>2, <1>5, <1>6, <1>7

LEMMA AsideWhenKept ==
    ASSUME ConsoleInv, UNCHANGED DrawVars, requests' = requests, upset \subseteq upset',
           \A t \in timers' : t.do = "status timer" => t \in timers
    PROVE  ConsoleInv'
<1>1. Asked({}, {})
  BY KeptAsks DEF ConsoleInv, ClosureInv
<1>2. Aside({}, {})
  BY <1>1 DEF Aside
<1> QED
  BY <1>2, AsideKeeps DEF ConsoleInv

LEMMA AsideWhenSent ==
    ASSUME ConsoleInv, UNCHANGED DrawVars, upset \subseteq upset',
           NEW a, AskedAside(a), requests' = Sent({a}),
           \A t \in timers' : t.do = "status timer" => t \in timers
    PROVE  ConsoleInv'
<1>1. Asked({}, {a})
  BY SentAsks DEF ConsoleInv, ClosureInv
<1>2. Aside({}, {a})
  BY <1>1 DEF Aside
<1> QED
  BY <1>2, AsideKeeps DEF ConsoleInv

LEMMA AsideWhenAnswered ==
    ASSUME ConsoleInv, UNCHANGED DrawVars, upset \subseteq upset',
           NEW q, NEW a, AskedAside(a), requests' = Exchanged(q, {a}),
           q.visit = visit /\ q.do \in Drawing => <<"lost", q.do>> \in upset',
           \A t \in timers' : t.do = "status timer" => t \in timers
    PROVE  ConsoleInv'
<1>1. Asked({q}, {a})
  BY ExchangedAsks DEF ConsoleInv, ClosureInv
<1>2. Aside({q}, {a})
  BY <1>1 DEF Aside
<1> QED
  BY <1>2, AsideKeeps DEF ConsoleInv

LEMMA AsideWhenDone ==
    ASSUME ConsoleInv, UNCHANGED DrawVars, upset \subseteq upset',
           NEW q, requests' = Exchanged(q, {}),
           q.visit = visit /\ q.do \in Drawing => <<"lost", q.do>> \in upset',
           \A t \in timers' : t.do = "status timer" => t \in timers
    PROVE  ConsoleInv'
<1>1. Asked({q}, {})
  BY ExchangedAsks DEF ConsoleInv, ClosureInv
<1>2. Aside({q}, {})
  BY <1>1 DEF Aside
<1> QED
  BY <1>2, AsideKeeps DEF ConsoleInv

(***************************************************************************)
(* What the frame of the console does between the routes.                  *)
(***************************************************************************)
LEMMA FrameStep ==
    ASSUME ConsoleInv, UNCHANGED pageVars
    PROVE  /\ \A r : Move(r) => ConsoleInv'
           /\ NoNewRoute => ConsoleInv'
           /\ \A q : BootCores(q) \/ BootSystem(q) \/ BootFails(q) => ConsoleInv'
           /\ \A q : Unhandled(q) /\ Fail(q) => ConsoleInv'
<1> USE DEF DrawVars, pageVars, coreVars, cacheVars, clock, place
<1>1. ASSUME NEW r, Move(r) PROVE ConsoleInv'
  BY <1>1, AsideWhenKept DEF Move
<1>2. CASE NoNewRoute
  <2>1. timers' \subseteq timers
    BY <1>2 DEF NoNewRoute, ClearTimeout
  <2>2. UNCHANGED DrawVars
    BY <1>2 DEF NoNewRoute
  <2>3. requests' = requests /\ upset \subseteq upset'
    BY <1>2 DEF NoNewRoute
  <2> QED
    BY <2>1, <2>2, <2>3, AsideWhenKept
<1>3. ASSUME NEW q, BootCores(q) PROVE ConsoleInv'
  <2>1. AskedAside(Ask("boot system", NoRoute, 0))
    <3>1. visit \in Nat
      BY DEF ConsoleInv, ClosureInv
    <3> QED
      BY <3>1 DEF AskedAside, Ask, AskOf, Drawing, PlainBlocks, Dashboard, Analysis,
         File, Cloud, Threads, LoggingLevel, JavaProperties, Index
  <2>2. UNCHANGED DrawVars /\ q.do \notin Drawing
    BY <1>3 DEF BootCores, Answer, Drawing
  <2>3. /\ requests' = Exchanged(q, {Ask("boot system", NoRoute, 0)})
        /\ upset' = upset /\ timers' = timers
    BY <1>3 DEF BootCores
  <2> QED
    BY <2>1, <2>2, <2>3, AsideWhenAnswered
<1>4. ASSUME NEW q, BootSystem(q) PROVE ConsoleInv'
  <2>1. UNCHANGED DrawVars /\ q.do \notin Drawing
    BY <1>4 DEF BootSystem, Answer, Drawing
  <2> QED
    BY <1>4, <2>1, AsideWhenDone DEF BootSystem
<1>5. ASSUME NEW q, BootFails(q) PROVE ConsoleInv'
  <2>1. UNCHANGED DrawVars /\ q.do \notin Drawing
    BY <1>5 DEF BootFails, Drawing
  <2> QED
    BY <1>5, <2>1, AsideWhenDone DEF BootFails
<1>6. ASSUME NEW q, Fail(q) PROVE ConsoleInv'
  <2>1. UNCHANGED DrawVars
    BY <1>6 DEF Fail
  <2>2. upset \subseteq upset' /\ (q.visit = visit => <<"lost", q.do>> \in upset')
    BY <1>6 DEF Fail
  <2> QED
    BY <1>6, <2>1, <2>2, AsideWhenDone DEF Fail
<1> QED
  BY <1>1, <1>2, <1>3, <1>4, <1>5, <1>6

(***************************************************************************)
(* The requests that draw nothing.                                         *)
(***************************************************************************)
Errands == {"boot system", "command", "status", "import", "abort", "details", "replicate",
            "log"} \cup Buttons \cup Forms

LEMMA ErrandsDrawNothing == \A do \in Errands : do \notin Drawing \cup PlainBlocks
BY DEF Errands, Buttons, Forms, Drawing, PlainBlocks, Dashboard, Analysis, File, Cloud,
       Threads, LoggingLevel, JavaProperties, Index

LEMMA AskedErrand ==
    ASSUME ConsoleInv, NEW do \in Errands, do \notin {"status", "import", "abort", "details"},
           NEW r, NEW cores, NEW n
    PROVE  AskedAside(AskOf(do, r, visit, cores, n))
<1>1. visit \in Nat
  BY DEF ConsoleInv, ClosureInv
<1> QED
  BY <1>1, ErrandsDrawNothing DEF AskedAside, AskOf

(***************************************************************************)
(* A question about an import, for a visit there has been.                 *)
(***************************************************************************)
LEMMA AskedImport ==
    ASSUME ConsoleInv, NEW do \in {"status", "import", "abort"}, NEW r, NEW v,
           <<v, r>> \in Closures
    PROVE  AskedAside(Ask(do, r, v))
<1>1. v \in 0..visit
  BY DEF ConsoleInv, ClosureInv
<1> QED
  BY <1>1, ErrandsDrawNothing DEF AskedAside, Ask, AskOf, Errands

LEMMA AskedDetails ==
    ASSUME ConsoleInv
    PROVE  AskedAside(FetchDetails)
<1>1. visit \in Nat
  BY DEF ConsoleInv, ClosureInv
<1>2. "details" \notin Drawing \cup PlainBlocks
  BY ErrandsDrawNothing DEF Errands
<1>3. ASSUME NEW r, r.core = basepath PROVE AskedAside(AskOf("details", r, visit, {}, 0))
  BY <1>1, <1>2, <1>3 DEF AskedAside, AskOf
<1>4. Route("replication", basepath, NoCore).core = basepath
  BY DEF Route
<1> QED
  BY <1>3, <1>4 DEF FetchDetails, Ask

LEMMA PlainAside ==
    ASSUME ConsoleInv, OfPlain
    PROVE  /\ \A q : CommandDone(q) => ConsoleInv'
           /\ PlainPress => ConsoleInv'
<1> USE DEF OfPlain, DrawVars, coreVars, cacheVars, clock, place
<1>1. ASSUME NEW q, CommandDone(q) PROVE ConsoleInv'
  <2>1. UNCHANGED DrawVars /\ q.do \notin Drawing
    BY <1>1, ErrandsDrawNothing DEF CommandDone, Answer, Errands
  <2>2. upset \subseteq upset' /\ requests' = Exchanged(q, {}) /\ timers' = timers
    BY <1>1, DisturbedGrows DEF CommandDone
  <2> QED
    BY <2>1, <2>2, AsideWhenDone
<1>2. ASSUME NEW button, PressLive(button) PROVE ConsoleInv'
  <2>1. AskedAside(AskOf("command", Route("dashboard", acts[button], NoCore), visit, {}, 0))
    BY AskedErrand DEF Errands
  <2>2. UNCHANGED DrawVars /\ upset' = upset /\ timers' = timers
    BY <1>2 DEF PressLive, Press
  <2>3. requests' = Sent({AskOf("command", Route("dashboard", acts[button], NoCore),
                                visit, {}, 0)})
    BY <1>2 DEF PressLive, Ask
  <2> QED
    BY <2>1, <2>2, <2>3, AsideWhenSent
<1> QED
  BY <1>1, <1>2 DEF PlainPress

LEMMA CoreAside ==
    ASSUME ConsoleInv, OfCore
    PROVE  /\ \A q \in InFlight : Execute(q) \/ Executed(q) => ConsoleInv'
           /\ CorePress => ConsoleInv'
<1> USE DEF OfCore, DrawVars, coreVars, cacheVars, clock, place
<1>1. ASSUME NEW q \in InFlight, Execute(q) PROVE ConsoleInv'
  <2>1. /\ q = AskOf(q.do, q.route, q.visit, q.cores, q.n)
        /\ q.visit \in 0..visit
        /\ q.do \in Errands
        /\ q.do \notin {"status", "import", "abort", "details"}
    BY <1>1 DEF ConsoleInv, ClosureInv, Execute, Errands, Buttons, Forms
  <2>2. [q EXCEPT !.n = 1] = AskOf(q.do, q.route, q.visit, q.cores, 1)
    BY <2>1 DEF AskOf
  <2>3. AskedAside([q EXCEPT !.n = 1])
    BY <2>1, <2>2, ErrandsDrawNothing DEF AskedAside, AskOf
  <2>4. UNCHANGED DrawVars /\ upset' = upset /\ timers' = timers
    BY <1>1 DEF Execute
  <2>5. requests' = Exchanged(q, {[q EXCEPT !.n = 1]})
    BY <1>1 DEF Execute
  <2> QED
    BY <2>1, <2>3, <2>4, <2>5, ErrandsDrawNothing, AsideWhenAnswered
<1>2. ASSUME NEW q, Executed(q) PROVE ConsoleInv'
  <2>1. q.do \notin Drawing
    BY <1>2, ErrandsDrawNothing DEF Executed, Errands
  <2>2. UNCHANGED <<route, visit>>
    BY <1>2 DEF Executed, Redirect, Refresh
  <2>3. UNCHANGED DrawVars
    BY <1>2, <2>2 DEF Executed
  <2>4. upset \subseteq upset' /\ requests' = Exchanged(q, {}) /\ timers' = timers
    BY <1>2, DisturbedGrows DEF Executed
  <2> QED
    BY <2>1, <2>3, <2>4, AsideWhenDone
<1>3. ASSUME NEW do \in Buttons \cup Forms, NEW r, NEW cores, NEW n,
             requests' = Sent({AskOf(do, r, visit, cores, n)}),
             UNCHANGED DrawVars, upset' = upset, timers' = timers
      PROVE  ConsoleInv'
  <2>1. AskedAside(AskOf(do, r, visit, cores, n))
    BY AskedErrand DEF Errands, Buttons, Forms
  <2> QED
    BY <1>3, <2>1, AsideWhenSent
<1>4. ASSUME NEW do \in Buttons, PressButton(do) PROVE ConsoleInv'
  BY <1>3, <1>4 DEF PressButton, Press, Ask
<1>5. ASSUME NEW do \in Forms, NEW other, SubmitForm(do, other) PROVE ConsoleInv'
  BY <1>3, <1>5 DEF SubmitForm, Press
<1> QED
  BY <1>1, <1>2, <1>4, <1>5 DEF CorePress

LEMMA ImportAside ==
    ASSUME ConsoleInv, OfImport
    PROVE  /\ \A q \in InFlight : ImportDone(q) \/ ImportFails(q) => ConsoleInv'
           /\ \A t \in timers : StatusTimer(t) => ConsoleInv'
           /\ ImportPress => ConsoleInv'
<1> USE DEF OfImport, DrawVars, coreVars, cacheVars, clock, place
<1>1. ASSUME NEW do \in {"status", "import", "abort"}, NEW r, NEW v,
             <<v, r>> \in Closures, UNCHANGED DrawVars, upset \subseteq upset',
             timers' \subseteq timers
      PROVE  /\ requests' = Sent({Ask(do, r, v)}) => ConsoleInv'
             /\ \A q : q.do \notin Drawing /\ requests' = Exchanged(q, {Ask(do, r, v)})
                  => ConsoleInv'
  BY <1>1, AskedImport, AsideWhenSent, AsideWhenAnswered
<1>2. ASSUME NEW q \in InFlight, q.do \in {"import", "abort"}
      PROVE  q.do \notin Drawing /\ <<q.visit, q.route>> \in Closures
  BY <1>2, ClosureFacts, ErrandsDrawNothing DEF Errands, Tracked
<1>3. ASSUME NEW q \in InFlight, ImportDone(q) PROVE ConsoleInv'
  <2>1. UNCHANGED DrawVars /\ upset \subseteq upset' /\ timers' \subseteq timers
    BY <1>3, DisturbedGrows DEF ImportDone
  <2>2. /\ requests' = Exchanged(q, {Ask("status", q.route, q.visit)})
        /\ q.do \in {"import", "abort"}
    BY <1>3 DEF ImportDone, FetchStatus
  <2> QED
    BY <1>1, <1>2, <2>1, <2>2
<1>4. ASSUME NEW q \in InFlight, ImportFails(q) PROVE ConsoleInv'
  <2>1. /\ UNCHANGED DrawVars /\ upset \subseteq upset' /\ timers' \subseteq timers
        /\ q.do \in {"import", "abort"}
    BY <1>4 DEF ImportFails
  <2>2. CASE requests' = Exchanged(q, {})
    BY <1>2, <2>1, <2>2, AsideWhenDone
  <2>3. CASE requests' = Exchanged(q, {Ask("status", q.route, q.visit)})
    BY <1>1, <1>2, <2>1, <2>3
  <2> QED
    BY <1>4, <2>2, <2>3 DEF ImportFails, FetchStatus
<1>5. ASSUME NEW t \in timers, StatusTimer(t) PROVE ConsoleInv'
  <2>1. UNCHANGED DrawVars /\ upset \subseteq upset' /\ timers' \subseteq timers
    BY <1>5, DisturbedGrows DEF StatusTimer
  <2>2. <<t.visit, t.route>> \in Closures
    BY <1>5, ClosureFacts DEF StatusTimer, Answer
  <2>3. requests' = Sent({Ask("status", t.route, t.visit)})
    BY <1>5 DEF StatusTimer, FetchStatus
  <2> QED
    BY <1>1, <2>1, <2>2, <2>3
<1>6. shown.page = "dataimport" => <<shown.visit, shown.by>> \in Closures
  BY ClosureFacts
<1>7. ASSUME NEW do \in {"status", "import", "abort"}, PressImport(do) PROVE ConsoleInv'
  <2>1. UNCHANGED DrawVars /\ upset \subseteq upset' /\ timers' \subseteq timers
    BY <1>7 DEF PressImport, Press
  <2>2. requests' = Sent({Ask(do, shown.by, shown.visit)}) /\ shown.page = "dataimport"
    BY <1>7 DEF PressImport
  <2> QED
    BY <1>1, <1>6, <2>1, <2>2
<1>8. CASE ToggleAutorefresh
  <2>1. UNCHANGED DrawVars /\ upset \subseteq upset' /\ timers' \subseteq timers
    BY <1>8 DEF ToggleAutorefresh, Press
  <2>2. requests' = Sent({Ask("status", shown.by, shown.visit)}) /\ shown.page = "dataimport"
    BY <1>8 DEF ToggleAutorefresh, FetchStatus
  <2> QED
    BY <1>1, <1>6, <2>1, <2>2
<1> QED
  BY <1>3, <1>4, <1>5, <1>7, <1>8 DEF ImportPress

LEMMA LoggingAside ==
    ASSUME ConsoleInv, OfLogging
    PROVE  /\ LogEvent => ConsoleInv'
           /\ \A q : Log(q) => ConsoleInv'
           /\ \A t \in timers : LogTimer(t) => ConsoleInv'
<1> USE DEF OfLogging, DrawVars, coreVars, cacheVars, clock, place
<1>1. CASE LogEvent
  BY <1>1, AsideWhenKept DEF LogEvent
<1>2. ASSUME NEW q, Log(q) PROVE ConsoleInv'
  <2>1. UNCHANGED DrawVars /\ q.do \notin Drawing
    BY <1>2, ErrandsDrawNothing DEF Log, Answer, Errands
  <2>2. upset \subseteq upset' /\ requests' = Exchanged(q, {})
    BY <1>2, DisturbedGrows DEF Log
  <2>3. PICK u : u.do = "log timer" /\ timers' = timers \cup {u}
    BY <1>2 DEF Log, Timer
  <2>4. \A t \in timers' : t.do = "status timer" => t \in timers
    BY <2>3
  <2> QED
    BY <2>1, <2>2, <2>4, AsideWhenDone
<1>3. ASSUME NEW t \in timers, LogTimer(t) PROVE ConsoleInv'
  <2>1. UNCHANGED DrawVars /\ upset \subseteq upset' /\ timers' \subseteq timers
    BY <1>3, DisturbedGrows DEF LogTimer
  <2>2. /\ requests' = Sent({AskOf("log", route, visit, {}, latest)})
        /\ AskedAside(AskOf("log", route, visit, {}, latest))
    BY <1>3, AskedErrand DEF LogTimer, LoadViewer, Errands
  <2> QED
    BY <2>1, <2>2, AsideWhenSent
<1> QED
  BY <1>1, <1>2, <1>3

LEMMA ReplicationAside ==
    ASSUME ConsoleInv, OfReplication
    PROVE  /\ \A q : Replicate(q) => ConsoleInv'
           /\ \A t \in timers : Tick(t) \/ Refetch(t) => ConsoleInv'
           /\ ReplicationPress => ConsoleInv'
<1> USE DEF OfReplication, DrawVars, coreVars, cacheVars, clock, place
<1>1. ASSUME NEW q, Replicate(q) PROVE ConsoleInv'
  <2>1. /\ UNCHANGED DrawVars /\ upset \subseteq upset' /\ timers' \subseteq timers
        /\ requests' = Exchanged(q, {FetchDetails})
    BY <1>1, DisturbedGrows DEF Replicate, TimersCleared
  <2>2. q.do \notin Drawing
    BY <1>1, ErrandsDrawNothing DEF Replicate, Answer, Errands
  <2> QED
    BY <2>1, <2>2, AskedDetails, AsideWhenAnswered
<1>2. ASSUME NEW t \in timers, Tick(t) PROVE ConsoleInv'
  <2>1. UNCHANGED DrawVars /\ upset \subseteq upset' /\ requests' = requests
    BY <1>2, DisturbedGrows DEF Tick
  <2>2. PICK u : u.do = "tick" /\ timers' = (timers \ {t}) \cup {u}
    BY <1>2 DEF Tick, Countdown, Timer
  <2>3. \A each \in timers' : each.do = "status timer" => each \in timers
    BY <2>2
  <2> QED
    BY <2>1, <2>3, AsideWhenKept
<1>3. ASSUME NEW t \in timers, Refetch(t) PROVE ConsoleInv'
  <2>1. /\ UNCHANGED DrawVars /\ upset \subseteq upset' /\ timers' \subseteq timers
        /\ requests' = Sent({FetchDetails})
    BY <1>3, DisturbedGrows DEF Refetch, TimersCleared
  <2> QED
    BY <2>1, AskedDetails, AsideWhenSent
<1>4. CASE PressRefresh
  <2>1. /\ UNCHANGED DrawVars /\ upset \subseteq upset' /\ timers' \subseteq timers
        /\ requests' = Sent({FetchDetails})
    BY <1>4 DEF PressRefresh, Press, TimersCleared
  <2> QED
    BY <2>1, AskedDetails, AsideWhenSent
<1>5. CASE PressCommand
  <2>1. /\ UNCHANGED DrawVars /\ upset \subseteq upset' /\ timers' \subseteq timers
        /\ requests' = Sent({AskOf("replicate", Route("replication", basepath, NoCore),
                                   visit, {}, 0)})
    BY <1>5 DEF PressCommand, Press, Ask
  <2>2. AskedAside(AskOf("replicate", Route("replication", basepath, NoCore), visit, {}, 0))
    BY AskedErrand DEF Errands
  <2> QED
    BY <2>1, <2>2, AsideWhenSent
<1> QED
  BY <1>1, <1>2, <1>3, <1>4, <1>5 DEF ReplicationPress

-------------------------------------------------------------------------------
(***************************************************************************)
(* An answer of the present visit is one to the route that was run last.   *)
(***************************************************************************)
LEMMA OwnRoute ==
    ASSUME ConsoleInv, NEW q \in InFlight, q.do \in Tracked, q.visit = visit
    PROVE  q.route = route
<1>1. <<q.visit, q.route>> \in Closures /\ <<visit, route>> \in Closures
  BY ClosureFacts
<1> QED
  BY <1>1 DEF ConsoleInv, ClosureInv

LEMMA MineAfter ==
    ASSUME UNCHANGED visit, NEW q, NEW new, Asked({q}, new)
    PROVE  /\ \A p \in Mine' : p \in Mine \/ p \in new
           /\ \A p \in Mine : p \in Mine' \/ p = q
           /\ \A p \in new : p.visit = visit /\ p.do \in Drawing => p \in Mine'
BY InFlightOf DEF Mine

LEMMA PageOfFacts ==
    ASSUME NEW r
    PROVE  /\ PageOf(r) = "no handler" \/ PageOf(r) = r.page
           /\ r.page # "dataimport" => PageOf(r) = r.page
           /\ PageOf(r) = "dataimport" => r.page = "dataimport"
BY DEF PageOf

(***************************************************************************)
(* What a request that comes with an answer may be.                        *)
(***************************************************************************)
AskedFor(a, q) ==
    /\ a = AskOf(a.do, a.route, a.visit, a.cores, a.n)
    /\ a.visit \in 0..visit
    /\ Suits(a)
    /\ a.do \in Tracked => a.visit = q.visit /\ a.route = q.route
    /\ a.do = "details" /\ a.visit = visit => a.route.core = basepath

LEMMA DetailsAfter ==
    ASSUME ConsoleInv, UNCHANGED <<route, visit, basepath>>, NEW gone, NEW new,
           Asked(gone, new),
           \A a \in new : a.do = "details" /\ a.visit = visit => a.route.core = basepath
    PROVE  route'.page = "replication" =>
             /\ basepath' = route'.core
             /\ \A q \in InFlight' : q.do = "details" /\ q.visit = visit' =>
                   q.route.core = route'.core
BY InFlightOf DEF ConsoleInv, DataInv

(***************************************************************************)
(* An answer that draws its page, over whatever is there.                  *)
(***************************************************************************)
LEMMA Draws ==
    ASSUME ConsoleInv, NEW q \in InFlight, q.do \in Overdrawing, NEW new, NEW data,
           requests' = Exchanged(q, new),
           Disturbed(q) \subseteq upset',
           shown' = [page |-> PageOf(q.route), by |-> q.route, visit |-> q.visit,
                     data |-> data],
           UNCHANGED <<route, visit, basepath, pluginData, schemaData, acts>>,
           \A t \in timers' : t.do = "status timer" => t \in timers,
           \A a \in new : AskedFor(a, q) /\ a.do \notin Drawing,
           Unmixed' /\ q.visit = visit => \A d \in data : d.core = CoreOf(route),
           \A d \in data :
              /\ d.block \notin Live
              /\ d.block = "core" => coreActs' = d.core /\ PageOf(q.route) = "cores"
    PROVE  ConsoleInv'
<1>1. Asked({q}, new) /\ q.visit \in 0..visit /\ q.do \in Tracked /\ Suits(q)
  BY ExchangedAsks DEF ConsoleInv, ClosureInv, Overdrawing, Tracked, Drawing
<1>2. <<q.visit, q.route>> \in Closures
  BY <1>1, ClosureFacts
<1>3. ClosureInv'
  <2>1. \A a \in new : /\ a = AskOf(a.do, a.route, a.visit, a.cores, a.n)
                       /\ a.visit \in 0..visit
                       /\ Suits(a)
                       /\ a.do \in Tracked => <<a.visit, a.route>> \in Closures
    BY <1>2 DEF AskedFor
  <2>2. /\ shown' = [page |-> shown'.page, by |-> shown'.by, visit |-> shown'.visit,
                     data |-> shown'.data]
        /\ shown'.visit = q.visit /\ shown'.by = q.route
        /\ shown'.page = PageOf(shown'.by)
    OBVIOUS
  <2> QED
    BY <1>1, <1>2, <2>1, <2>2, ClosureKept DEF ConsoleInv
<1>4. Undrawn' => q.visit = visit /\ q.route = route
  BY <1>1, DisturbedGrows, DisturbsNext, OwnRoute
<1>5. route # ListRoute \/ ~Undrawn'
  <2>1. ListRoute.page = "cores"
    BY DEF ListRoute, CoreRoute, Route
  <2>2. q.do = "core template" \/ q.route.page # "cores"
    BY <1>1 DEF Suits, Overdrawing, Templated
  <2>3. q.do = "core template" => q.route # ListRoute
    BY <1>1 DEF Suits
  <2> QED
    BY <1>4, <2>1, <2>2, <2>3
<1>6. DrawnInv'
  <2>1. ASSUME Undrawn', NEW p \in Mine', p.do = "core data" PROVE shown'.page = "cores"
    <3>1. p \in InFlight /\ p.visit = visit
      BY <1>1, <2>1, MineAfter DEF Mine, Drawing
    <3>2. p.route = route /\ p.route.page = "cores"
      BY <2>1, <3>1, OwnRoute DEF Tracked, Drawing, ConsoleInv, ClosureInv, Suits
    <3> QED
      BY <1>4, <2>1, <3>2, PageOfFacts
  <2>2. Undrawn' => shown'.page = PageOf(route) /\ shown'.visit = visit
    BY <1>4
  <2> QED
    BY <1>5, <2>1, <2>2, PageOfFacts DEF DrawnInv, PageOf, ListRoute
<1>7. DataInv'
  <2>1. Unmixed' => Unmixed /\ Undrawn'
    BY DisturbedGrows, StaysDisturbed, DisturbsNext
  <2>2. route'.page = "replication" =>
          /\ basepath' = route'.core
          /\ \A p \in InFlight' : p.do = "details" /\ p.visit = visit' =>
                p.route.core = route'.core
    BY <1>1, DetailsAfter DEF AskedFor
  <2>3. Unmixed' => \A d \in shown'.data : d.core = CoreOf(route)
    BY <1>4, <2>1
  <2> QED
    BY <2>1, <2>2, <2>3 DEF ConsoleInv, DataInv, CoreOf
<1>8. ButtonsInv'
  <2>1. shown'.data = data /\ shown'.page = PageOf(q.route)
    OBVIOUS
  <2>2. ButtonsActOnTheShownCore'
    BY <2>1 DEF ButtonsActOnTheShownCore
  <2>3. \A d \in schemaData' : d.block \in {"fields", "schema"}
    BY DEF ConsoleInv, ButtonsInv
  <2>4. DOMAIN acts' = Live
    BY DEF ConsoleInv, ButtonsInv
  <2> QED
    BY <2>1, <2>2, <2>3, <2>4 DEF ButtonsInv
<1> QED
  BY <1>3, <1>6, <1>7, <1>8 DEF ConsoleInv

(***************************************************************************)
(* An answer of whose page there is more to ask for, or that only finds    *)
(* another route: what is shown stays, the caches may change.              *)
(***************************************************************************)
Gathered(q) ==
    /\ UNCHANGED <<route, visit, basepath, shown, coresTemplate, coreActs, acts>>
    /\ Disturbed(q) \subseteq upset'
    /\ \A t \in timers' : t.do = "status timer" => t \in timers
    /\ pluginData' = pluginData \/ (q.do = "mbeans" /\ pluginData' = q.route.core)
    /\ \/ schemaData' = schemaData
       \/ /\ q.do \in {"luke", "schema"}
          /\ \A d \in schemaData' : /\ d.core = q.route.core \/ d \in schemaData
                                    /\ d.block \in {"fields", "schema"}

LEMMA Gathers ==
    ASSUME ConsoleInv, NEW q \in InFlight, q.do \in Drawing, Gathered(q),
           NEW new, Asked({q}, new),
           \A a \in new : AskedFor(a, q) /\ a.do \in Drawing \ {"core data"},
           new # {} \/ q.route.page = "schema-browser" \/ HandsOver(q.route)
    PROVE  ConsoleInv'
<1> USE DEF Gathered
<1>1. q.do \in Tracked /\ Suits(q) /\ <<q.visit, q.route>> \in Closures
  BY ClosureFacts DEF ConsoleInv, ClosureInv, Tracked
<1>2. ClosureInv'
  <2>1. \A a \in new : /\ a = AskOf(a.do, a.route, a.visit, a.cores, a.n)
                       /\ a.visit \in 0..visit
                       /\ Suits(a)
                       /\ a.do \in Tracked => <<a.visit, a.route>> \in Closures
    BY <1>1 DEF AskedFor
  <2>2. /\ shown = [page |-> shown.page, by |-> shown.by, visit |-> shown.visit,
                    data |-> shown.data]
        /\ shown.visit \in 0..visit
        /\ shown.page = "no replication" \/ <<shown.visit, shown.by>> \in Closures
        /\ shown.page \in {"loading", "no replication"} \/ shown.page = PageOf(shown.by)
    BY ClosureFacts DEF ConsoleInv, ClosureInv
  <2>3. ClosureInv
    BY DEF ConsoleInv
  <2> QED
    BY <2>1, <2>2, <2>3, ClosureKept
<1>3. q \in Mine => q.route = route
  BY <1>1, OwnRoute DEF Mine
<1>4. /\ q \in Mine /\ new # {} => Mine' # {}
      /\ q \notin Mine => Mine \subseteq Mine'
  <2>1. \A a \in new : q.visit = visit => a \in Mine'
    BY MineAfter DEF AskedFor, Tracked
  <2> QED
    BY <2>1, MineAfter DEF Mine
<1>5. (Undrawn' => Undrawn) /\ (Unmixed' => Unmixed /\ Undrawn')
  BY DisturbedGrows, StaysDisturbed, DisturbsNext
<1>6. DrawnInv'
  <2>1. \A p \in Mine' : p.do = "core data" => p \in Mine
    BY MineAfter
  <2>2. ASSUME Undrawn', route # NoRoute, ~HandsOver(route), Mine' = {}
        PROVE  /\ shown.page = PageOf(route)
               /\ route.page \in Templated \cup Framed => shown.visit = visit
    <3>1. CASE q \in Mine
      <4>1. route.page = "schema-browser"
        BY <1>3, <1>4, <2>2, <3>1
      <4> QED
        BY <1>5, <2>2, <4>1, PageOfFacts DEF ConsoleInv, DrawnInv, Templated, Framed
    <3>2. CASE q \notin Mine
      BY <1>4, <1>5, <2>2, <3>2 DEF ConsoleInv, DrawnInv
    <3> QED
      BY <3>1, <3>2
  <2>3. Undrawn' => /\ route.page = "schema-browser" => shown.page = "schema-browser"
                    /\ route = ListRoute => ~coresTemplate
                    /\ coresTemplate /\ (\E p \in Mine' : p.do = "core data")
                          => shown.page = "cores"
    BY <1>5, <2>1 DEF ConsoleInv, DrawnInv
  <2> QED
    BY <2>2, <2>3 DEF DrawnInv, HandsOver, PageOf, ListRoute, CoreRoute
<1>7. DataInv'
  <2>1. route'.page = "replication" =>
          /\ basepath' = route'.core
          /\ \A p \in InFlight' : p.do = "details" /\ p.visit = visit' =>
                p.route.core = route'.core
    BY DetailsAfter DEF AskedFor
  <2>2. ASSUME Unmixed', q.do \in {"mbeans", "luke", "schema"} PROVE q.route = route
    BY <1>1, <2>2, DisturbedGrows, DisturbsNext, OwnRoute DEF Mixing, Overdrawing
  <2>3. Unmixed' => /\ route.page = "plugins" => pluginData' \in {NoCore, route.core}
                    /\ route.page = "schema-browser" =>
                          \A d \in schemaData' : d.core = route.core
    BY <1>5, <2>2 DEF ConsoleInv, DataInv
  <2>4. ASSUME Unmixed', ~HandsOver(route), Mine' = {} \/ route.page = "schema-browser",
               shown.page = PageOf(route), NEW d \in shown.data
        PROVE  d.core = CoreOf(route)
    <3>1. Mine = {} \/ route.page = "schema-browser"
      BY <1>3, <1>4, <2>4
    <3> QED
      BY <1>5, <2>4, <3>1 DEF ConsoleInv, DataInv
  <2> QED
    BY <2>1, <2>3, <2>4 DEF DataInv, HandsOver, PageOf, CoreOf
<1>8. ButtonsInv'
  BY DisturbedGrows DEF ConsoleInv, ButtonsInv, ButtonsActOnTheShownCore
<1> QED
  BY <1>2, <1>6, <1>7, <1>8 DEF ConsoleInv

LEMMA GathersMore ==
    ASSUME ConsoleInv, NEW q \in InFlight, q.do \in Drawing, Gathered(q),
           NEW a, AskedFor(a, q), a.do \in Drawing \ {"core data"},
           requests' = Exchanged(q, {a})
    PROVE  ConsoleInv'
<1>1. Asked({q}, {a})
  BY ExchangedAsks DEF ConsoleInv, ClosureInv
<1>2. \A b \in {a} : AskedFor(b, q) /\ b.do \in Drawing \ {"core data"}
  OBVIOUS
<1>3. {a} # {}
  OBVIOUS
<1> QED
  BY <1>1, <1>2, <1>3, Gathers, Zenon

LEMMA GathersNoMore ==
    ASSUME ConsoleInv, NEW q \in InFlight, q.do \in Drawing, Gathered(q),
           q.route.page = "schema-browser" \/ HandsOver(q.route),
           requests' = Exchanged(q, {})
    PROVE  ConsoleInv'
<1>1. PICK none : none = {}
  OBVIOUS
<1>2. Asked({q}, none)
  BY <1>1, ExchangedAsks DEF ConsoleInv, ClosureInv
<1>3. \A a \in none : AskedFor(a, q) /\ a.do \in Drawing \ {"core data"}
  BY <1>1
<1>4. q.route.page = "schema-browser" \/ HandsOver(q.route)
  OBVIOUS
<1> QED
  BY <1>2, <1>3, <1>4, Gathers

(***************************************************************************)
(* An answer that fills a part of what is shown.  One that was still to    *)
(* draw the page is that of a core, whose template is there.               *)
(***************************************************************************)
FilledWith(q, data) ==
    /\ shown' = [page |-> shown.page, by |-> shown.by, visit |-> shown.visit,
                 data |-> data]
    /\ requests' = Exchanged(q, {})
    /\ Disturbed(q) \subseteq upset'
    /\ UNCHANGED <<route, visit, basepath, coresTemplate, pluginData, schemaData>>
    /\ \A t \in timers' : t.do = "status timer" =>
          t \in timers \/ <<t.visit, t.route>> \in Closures

LEMMA Fills ==
    ASSUME ConsoleInv, NEW q \in InFlight, NEW data, FilledWith(q, data),
           q.do \in Drawing => q.do = "core data" /\ coresTemplate,
           Unmixed' /\ ~HandsOver(route) /\ shown.page = PageOf(route)
             /\ (Mine \subseteq {q} \/ route.page = "schema-browser")
             => \A d \in data : \/ d \in shown.data /\ q \notin Mine
                                \/ d.core = CoreOf(route),
           DOMAIN acts' = Live,
           \A d \in data :
              /\ d.block \in Live /\ shown.visit = visit /\ <<"late", d.block>> \notin upset'
                    => acts'[d.block] = d.core
              /\ d.block = "core" => coreActs' = d.core /\ shown.page = "cores"
    PROVE  ConsoleInv'
<1> USE DEF FilledWith
<1>0. PICK none : none = {}
  OBVIOUS
<1>1. Asked({q}, none)
  BY <1>0, ExchangedAsks DEF ConsoleInv, ClosureInv
<1>2. ClosureInv'
  <2>1. /\ shown'.page = "no replication" \/ <<shown'.visit, shown'.by>> \in Closures
        /\ shown'.visit \in 0..visit
        /\ shown'.page \in {"loading", "no replication"} \/ shown'.page = PageOf(shown'.by)
    BY ClosureFacts DEF ConsoleInv, ClosureInv
  <2>2. shown' = [page |-> shown'.page, by |-> shown'.by, visit |-> shown'.visit,
                  data |-> shown'.data]
    OBVIOUS
  <2>3. ClosureInv
    BY DEF ConsoleInv
  <2>4. \A a \in none : /\ a = AskOf(a.do, a.route, a.visit, a.cores, a.n)
                        /\ a.visit \in 0..visit
                        /\ Suits(a)
                        /\ a.do \in Tracked => <<a.visit, a.route>> \in Closures
    BY <1>0
  <2>5. \A t \in timers' : t.do = "status timer" =>
           t \in timers \/ <<t.visit, t.route>> \in Closures
    OBVIOUS
  <2>6. UNCHANGED <<route, visit>>
    OBVIOUS
  <2> HIDE DEF FilledWith
  <2> QED
    BY <1>1, <2>1, <2>2, <2>3, <2>4, <2>5, <2>6, ClosureKept
<1>3. /\ \A p \in Mine' : p \in Mine
      /\ \A p \in Mine : p \in Mine' \/ p = q
  <2>1. UNCHANGED visit
    OBVIOUS
  <2>2. /\ \A p \in Mine' : p \in Mine \/ p \in none
        /\ \A p \in Mine : p \in Mine' \/ p = q
    BY <1>1, <2>1, MineAfter, Zenon
  <2> QED
    BY <1>0, <2>2
<1>4. (Undrawn' => Undrawn) /\ (Unmixed' => Unmixed /\ Undrawn')
  BY DisturbedGrows, StaysDisturbed, DisturbsNext
<1>5. shown'.page = shown.page /\ shown'.visit = shown.visit /\ shown'.data = data
  OBVIOUS
<1>6. DrawnInv'
  <2>1. ASSUME Undrawn', q \in Mine
        PROVE  /\ route.page = "cores"
               /\ shown.page = PageOf(route)
               /\ route.page \notin Templated \cup Framed
    <3>1. q.do = "core data" /\ coresTemplate /\ q.visit = visit
      BY <2>1 DEF Mine
    <3>2. shown.page = "cores"
      BY <1>4, <2>1, <3>1 DEF ConsoleInv, DrawnInv
    <3>3. q.route = route /\ q.route.page = "cores"
      BY <3>1, OwnRoute DEF Tracked, Drawing, ConsoleInv, ClosureInv, Suits
    <3> QED
      BY <3>2, <3>3, PageOfFacts DEF Templated, Framed
  <2>2. ASSUME Undrawn', route # NoRoute, ~HandsOver(route), Mine' = {}
        PROVE  /\ shown.page = PageOf(route)
               /\ route.page \in Templated \cup Framed => shown.visit = visit
    <3>1. CASE q \in Mine
      BY <2>1, <2>2, <3>1
    <3>2. CASE q \notin Mine
      BY <1>3, <1>4, <2>2, <3>2 DEF ConsoleInv, DrawnInv
    <3> QED
      BY <3>1, <3>2
  <2>3. Undrawn' => /\ route.page = "schema-browser" => shown.page = "schema-browser"
                    /\ route = ListRoute => ~coresTemplate
                    /\ coresTemplate /\ (\E p \in Mine' : p.do = "core data")
                          => shown.page = "cores"
    BY <1>3, <1>4 DEF ConsoleInv, DrawnInv
  <2> QED
    BY <1>5, <2>2, <2>3 DEF DrawnInv, HandsOver, PageOf, ListRoute, CoreRoute
<1>7. DataInv'
  <2>1. route'.page = "replication" =>
          /\ basepath' = route'.core
          /\ \A p \in InFlight' : p.do = "details" /\ p.visit = visit' =>
                p.route.core = route'.core
    BY <1>0, <1>1, DetailsAfter
  <2>2. Unmixed' => /\ route.page = "plugins" => pluginData \in {NoCore, route.core}
                    /\ route.page = "schema-browser" =>
                          \A d \in schemaData : d.core = route.core
    BY <1>4 DEF ConsoleInv, DataInv
  <2>3. ASSUME Unmixed', ~HandsOver(route), Mine' = {} \/ route.page = "schema-browser",
               shown.page = PageOf(route), NEW d \in data
        PROVE  d.core = CoreOf(route)
    <3>1. Mine \subseteq {q} \/ route.page = "schema-browser"
      BY <1>3, <2>3
    <3>2. (d \in shown.data /\ q \notin Mine) \/ d.core = CoreOf(route)
      BY <2>3, <3>1
    <3>3. CASE d \in shown.data /\ q \notin Mine
      BY <1>3, <1>4, <2>3, <3>3 DEF ConsoleInv, DataInv
    <3> QED
      BY <3>2, <3>3
  <2> QED
    BY <1>5, <2>1, <2>2, <2>3 DEF DataInv, HandsOver, PageOf, CoreOf
<1>8. ButtonsInv'
  <2>1. ButtonsActOnTheShownCore'
    BY <1>5 DEF ButtonsActOnTheShownCore
  <2>2. \A d \in schemaData' : d.block \in {"fields", "schema"}
    BY DEF ConsoleInv, ButtonsInv
  <2> QED
    BY <1>5, <2>1, <2>2 DEF ButtonsInv
<1> QED
  BY <1>2, <1>6, <1>7, <1>8 DEF ConsoleInv

-------------------------------------------------------------------------------
(***************************************************************************)
(* The answers of the plain pages.                                         *)
(***************************************************************************)
LEMMA BlocksDrawNothing ==
    \A do \in PlainBlocks :
        /\ do \in Tracked /\ do \notin Drawing
        /\ do \notin {"core", "details"}
BY DEF PlainBlocks, Tracked, Drawing, Dashboard, Analysis, File, Cloud, Threads,
       LoggingLevel, JavaProperties, Index

LEMMA WantedBlocks ==
    \A page \in Templated \cup Framed : Wanted(page) \subseteq PlainBlocks
<1>1. ASSUME NEW page \in Templated \cup Framed, NEW block \in Wanted(page)
      PROVE  block \in Dashboard \cup Analysis \cup Documents \cup Query \cup File
                         \cup Cloud \cup Threads \cup LoggingLevel \cup JavaProperties
                         \cup Index
  BY <1>1 DEF Wanted, Templated, Framed
<1> QED
  BY <1>1 DEF PlainBlocks, Documents, Query

LEMMA DataAsked ==
    ASSUME NEW r, r.page \in Templated \cup Framed, NEW v, NEW a \in Data(r, v)
    PROVE  /\ a = AskOf(a.do, a.route, a.visit, a.cores, a.n)
           /\ a.visit = v /\ a.route = r
           /\ a.do \in PlainBlocks
           /\ Suits(a)
<1>1. PICK block \in PlainBlocks : a = Ask(block, r, v)
  BY WantedBlocks DEF Data
<1>2. /\ a = AskOf(a.do, a.route, a.visit, a.cores, a.n)
      /\ a.visit = v /\ a.route = r /\ a.do = block
  BY <1>1 DEF Ask, AskOf
<1>3. Suits(a)
  BY <1>2, BlocksDrawNothing DEF Suits, Drawing
<1> QED
  BY <1>2, <1>3

LEMMA PlainDraws ==
    ASSUME ConsoleInv, OfPlain, NEW q \in InFlight, Template(q) PROVE ConsoleInv'
<1> USE DEF OfPlain, coreVars, cacheVars, clock, place
<1>1. q.do = "template" /\ q.do \in Overdrawing /\ q.do \in Tracked
  BY DEF Template, Answer, Overdrawing, Tracked, Drawing
<1>2. q.route.page \in Templated /\ q.visit \in 0..visit
  BY <1>1 DEF ConsoleInv, ClosureInv, Suits
<1>3. PageOf(q.route) = q.route.page
  BY <1>2, PageOfFacts DEF Templated
<1>4. PICK new : new = Data(q.route, q.visit)
  OBVIOUS
<1>5. \A a \in new : AskedFor(a, q) /\ a.do \notin Drawing
  BY <1>2, <1>4, DataAsked, BlocksDrawNothing DEF AskedFor
<1>6. PICK data : data = {}
  OBVIOUS
<1>7. shown' = [page |-> PageOf(q.route), by |-> q.route, visit |-> q.visit, data |-> data]
  BY <1>3, <1>6 DEF Template, Drawn
<1>8. /\ requests' = Exchanged(q, new)
      /\ Disturbed(q) \subseteq upset'
      /\ UNCHANGED <<route, visit, basepath, pluginData, schemaData, acts>>
      /\ \A t \in timers' : t.do = "status timer" => t \in timers
  BY <1>4 DEF Template
<1>9. /\ \A d \in data : d.core = CoreOf(route)
      /\ \A d \in data : /\ d.block \notin Live
                         /\ d.block = "core" => /\ coreActs' = d.core
                                                /\ PageOf(q.route) = "cores"
  BY <1>6
<1> QED
  BY <1>1, <1>5, <1>7, <1>8, <1>9, Draws

LEMMA PlainFills ==
    ASSUME ConsoleInv, OfPlain, NEW q \in InFlight, PlainData(q) PROVE ConsoleInv'
<1> USE DEF OfPlain, coreVars, cacheVars, clock, place
<1>1. q.do \in PlainBlocks
  BY WantedBlocks, Zenon DEF PlainData
<1>2. q.do \in Tracked /\ q.do \notin Drawing /\ q.do \notin {"core", "details"}
  BY <1>1, BlocksDrawNothing
<1>3. q.route.page \in Templated \cup Framed
  BY <1>1 DEF ConsoleInv, ClosureInv, Suits
<1> DEFINE entry == [block |-> q.do, core |-> q.route.core]
           data == IF shown.visit = q.visit
                   THEN {d \in shown.data : d.block # q.do} \cup {entry}
                   ELSE shown.data
<1>4. shown = [page |-> shown.page, by |-> shown.by, visit |-> shown.visit,
               data |-> shown.data]
  BY DEF ConsoleInv, ClosureInv
<1>5. FilledWith(q, data)
  <2>1. shown' = [page |-> shown.page, by |-> shown.by, visit |-> shown.visit,
                  data |-> data]
    BY <1>4 DEF PlainData, Filled
  <2>2. \A t \in timers' : t.do = "status timer" =>
           t \in timers \/ <<t.visit, t.route>> \in Closures
    BY DEF PlainData
  <2> QED
    BY <2>1, <2>2 DEF FilledWith, PlainData
<1>6. \A d \in data : \/ d \in shown.data
                      \/ d = entry /\ shown.visit = q.visit
  OBVIOUS
<1>7. upset \subseteq upset' /\ (q.visit # visit => <<"late", q.do>> \in upset')
  BY DisturbedGrows DEF PlainData
<1>8. ASSUME Unmixed', ~HandsOver(route), shown.page = PageOf(route),
             Mine \subseteq {q} \/ route.page = "schema-browser", NEW d \in data
      PROVE  (d \in shown.data /\ q \notin Mine) \/ d.core = CoreOf(route)
  <2>1. q \notin Mine
    BY <1>2 DEF Mine
  <2>2. CASE d = entry /\ shown.visit = q.visit
    <3>1. q.visit = visit => q.route = route
      BY <1>2, OwnRoute
    <3>2. CASE q.visit = visit
      BY <1>3, <2>2, <3>1, <3>2 DEF CoreOf, Templated, Framed
    <3>3. CASE q.visit # visit
      <4>1. shown.page \notin {"loading", "no replication"}
        BY <1>8, PageOfFacts DEF ConsoleInv, ClosureInv
      <4>2. shown.by = q.route
        <5>1. <<q.visit, q.route>> \in Closures /\ <<shown.visit, shown.by>> \in Closures
          BY <1>2, <4>1, ClosureFacts
        <5> QED
          BY <2>2, <5>1 DEF ConsoleInv, ClosureInv
      <4>3. route.page = q.route.page
        <5>1. shown.page = PageOf(q.route)
          BY <4>1, <4>2 DEF ConsoleInv, ClosureInv
        <5> QED
          BY <1>3, <1>8, <4>1, <5>1, PageOfFacts DEF Templated, Framed
      <4>4. Mine = {}
        BY <1>3, <1>8, <2>1, <4>3 DEF Templated, Framed
      <4>5. Undrawn /\ route # NoRoute
        <5>1. Undrawn
          BY <1>7, <1>8, StaysDisturbed, Disturbs
        <5>2. NoRoute.page = "none"
          BY DEF NoRoute, Route
        <5> QED
          BY <1>3, <4>3, <5>1, <5>2 DEF Templated, Framed
      <4>6. shown.visit = visit
        BY <1>3, <1>8, <4>3, <4>4, <4>5 DEF ConsoleInv, DrawnInv
      <4> QED
        BY <2>2, <3>3, <4>6
    <3> QED
      BY <3>2, <3>3
  <2> QED
    BY <1>6, <2>1, <2>2
<1>9. acts' = IF q.do \in Live THEN [acts EXCEPT ![q.do] = q.route.core] ELSE acts
  BY DEF PlainData, Bound
<1>10. DOMAIN acts' = Live
  BY <1>9 DEF ConsoleInv, ButtonsInv
<1>11. ASSUME NEW d \in data, d.block \in Live, shown.visit = visit,
              <<"late", d.block>> \notin upset'
       PROVE  acts'[d.block] = d.core
  <2>1. CASE d.block = q.do
    <3>1. q.visit = visit
      BY <1>7, <1>11, <2>1
    <3>2. d = entry
      BY <1>11, <2>1, <3>1
    <3>3. acts'[q.do] = q.route.core
      BY <1>9, <1>10, <1>11, <2>1
    <3> QED
      BY <3>2, <3>3
  <2>2. CASE d.block # q.do
    <3>1. d \in shown.data
      BY <2>2
    <3>2. acts[d.block] = d.core
      BY <1>7, <1>11, <3>1 DEF ConsoleInv, ButtonsInv, ButtonsActOnTheShownCore
    <3>3. acts'[d.block] = acts[d.block]
      BY <1>9, <1>11, <2>2 DEF ConsoleInv, ButtonsInv
    <3> QED
      BY <3>2, <3>3
  <2> QED
    BY <2>1, <2>2
<1>12. ASSUME NEW d \in data, d.block = "core"
       PROVE  coreActs' = d.core /\ shown.page = "cores"
  <2>1. d \in shown.data
    BY <1>2, <1>12
  <2>2. coreActs' = coreActs
    OBVIOUS
  <2> QED
    BY <1>12, <2>1, <2>2 DEF ConsoleInv, ButtonsInv, ButtonsActOnTheShownCore
<1> HIDE DEF data
<1> QED
  BY <1>2, <1>5, <1>8, <1>10, <1>11, <1>12, Fills

-------------------------------------------------------------------------------
(***************************************************************************)
(* The answers of the core pages.                                          *)
(***************************************************************************)
LEMMA CoreListGathers ==
    ASSUME ConsoleInv, OfCore, NEW q \in InFlight, CoreList(q) PROVE ConsoleInv'
<1> USE DEF OfCore, cacheVars, coreVars, clock
<1>1. q.do = "core list" /\ q.do \in Drawing
  BY DEF CoreList, Answer, Drawing
<1>2. HandsOver(q.route)
  BY <1>1 DEF ConsoleInv, ClosureInv, Suits, HandsOver
<1>3. UNCHANGED <<route, visit>>
  BY DEF CoreList, Redirect
<1>4. Gathered(q)
  BY <1>3 DEF CoreList, Gathered
<1>5. requests' = Exchanged(q, {})
  BY DEF CoreList
<1> QED
  BY <1>1, <1>2, <1>4, <1>5, GathersNoMore

LEMMA CoreRequests ==
    ASSUME ConsoleInv, NEW q \in InFlight, q.do \in {"core data", "core template"}
    PROVE  /\ q.route.page = "cores" /\ q.route # ListRoute
           /\ PageOf(q.route) = "cores" /\ CoreOf(q.route) = q.route.arg
           /\ q.visit = visit => q.route = route
           /\ q.visit \in 0..visit
<1>1. Suits(q) /\ q.visit \in 0..visit
  BY DEF ConsoleInv, ClosureInv
<1>2. q.visit = visit => q.route = route
  BY OwnRoute DEF Tracked, Drawing
<1> QED
  BY <1>1, <1>2 DEF Suits, PageOf, CoreOf

LEMMA CoreDataStep ==
    ASSUME ConsoleInv, OfCore, NEW q \in InFlight, CoreData(q) PROVE ConsoleInv'
<1> USE DEF OfCore, cacheVars, coreVars, clock, place
<1>1. q.do = "core data" /\ q.do \in Drawing /\ q.do \in Mixing
  BY DEF CoreData, Answer, Drawing, Mixing
<1>2. /\ q.route.page = "cores" /\ q.route # ListRoute
      /\ PageOf(q.route) = "cores" /\ CoreOf(q.route) = q.route.arg
      /\ q.visit = visit => q.route = route
      /\ q.visit \in 0..visit
  BY <1>1, CoreRequests
<1>3. shown = [page |-> shown.page, by |-> shown.by, visit |-> shown.visit,
               data |-> shown.data]
  BY DEF ConsoleInv, ClosureInv
<1>4. PICK cores : IF coresTemplate
                   THEN /\ Wire(q, cores, shown)
                        /\ requests' = Exchanged(q, {})
                   ELSE /\ requests' = Exchanged(q,
                               {AskOf("core template", q.route, q.visit, cores, 0)})
                        /\ upset' = Disturbed(q)
                        /\ UNCHANGED <<shown, coreActs>>
  BY DEF CoreData
<1>5. /\ UNCHANGED <<route, visit, basepath, coresTemplate, pluginData, schemaData, acts>>
      /\ timers' = timers
  BY DEF CoreData
<1>6. CASE ~coresTemplate
  <2>1. PICK a : a = AskOf("core template", q.route, q.visit, cores, 0)
    OBVIOUS
  <2>2. AskedFor(a, q) /\ a.do \in Drawing \ {"core data"}
    BY <1>2, <2>1 DEF AskedFor, AskOf, Suits, Drawing, PlainBlocks, Dashboard, Analysis,
       File, Cloud, Threads, LoggingLevel, JavaProperties, Index
  <2>3. Gathered(q)
    BY <1>4, <1>5, <1>6 DEF Gathered
  <2>4. requests' = Exchanged(q, {a})
    BY <1>4, <1>6, <2>1
  <2> QED
    BY <1>1, <2>2, <2>3, <2>4, GathersMore
<1>7. CASE coresTemplate
  <2> DEFINE entry == [block |-> "core", core |-> q.route.arg]
             data == IF q.route.arg \in cores /\ shown.page = "cores"
                     THEN {entry} ELSE shown.data
  <2>1. Disturbed(q) \subseteq upset' /\ requests' = Exchanged(q, {})
    BY <1>4, <1>7 DEF Wire
  <2>2. FilledWith(q, data)
    <3>1. shown' = [page |-> shown.page, by |-> shown.by, visit |-> shown.visit,
                    data |-> data]
      BY <1>3, <1>4, <1>7 DEF Wire
    <3> QED
      BY <1>5, <2>1, <3>1 DEF FilledWith
  <2>3. ASSUME Unmixed', shown.page = PageOf(route), NEW d \in data
        PROVE  d.core = CoreOf(route)
    <3>1. q.visit = visit
      BY <1>1, <2>1, <2>3, DisturbedGrows, DisturbsNext
    <3>2. q.route.arg \in cores
      <4>1. q.route.arg \notin cores => <<"lost", "core data">> \in upset'
        BY <1>4, <1>7 DEF Wire
      <4> QED
        BY <1>1, <2>3, <4>1, DisturbsNext
    <3> QED
      BY <1>2, <2>3, <3>1, <3>2
  <2>4. DOMAIN acts' = Live
    BY <1>5 DEF ConsoleInv, ButtonsInv
  <2>5. ASSUME NEW d \in data
        PROVE  /\ d.block \in Live /\ shown.visit = visit
                     /\ <<"late", d.block>> \notin upset' => acts'[d.block] = d.core
               /\ d.block = "core" => coreActs' = d.core /\ shown.page = "cores"
    <3>1. CASE q.route.arg \in cores /\ shown.page = "cores"
      BY <1>4, <1>7, <3>1 DEF Wire, Live
    <3>2. CASE q.route.arg \notin cores \/ shown.page # "cores"
      <4>1. d \in shown.data /\ upset \subseteq upset'
        BY <2>1, <3>2, DisturbedGrows
      <4>2. d.block = "core" => coreActs' = coreActs
        BY <1>4, <1>7, <3>2, <4>1 DEF Wire, ConsoleInv, ButtonsInv
      <4> QED
        BY <1>5, <4>1, <4>2 DEF ConsoleInv, ButtonsInv, ButtonsActOnTheShownCore
    <3> QED
      BY <3>1, <3>2
  <2> HIDE DEF data
  <2> QED
    BY <1>1, <1>7, <2>2, <2>3, <2>4, <2>5, Fills
<1> QED
  BY <1>6, <1>7

LEMMA CoreTemplateDraws ==
    ASSUME ConsoleInv, OfCore, NEW q \in InFlight, CoreTemplate(q) PROVE ConsoleInv'
<1> USE DEF OfCore, cacheVars, coreVars, clock, place
<1>1. q.do = "core template" /\ q.do \in Overdrawing /\ q.do \in Mixing
  BY DEF CoreTemplate, Answer, Overdrawing, Mixing
<1>2. /\ q.route.page = "cores" /\ q.route # ListRoute
      /\ PageOf(q.route) = "cores" /\ CoreOf(q.route) = q.route.arg
      /\ q.visit = visit => q.route = route
      /\ q.visit \in 0..visit
  BY <1>1, CoreRequests
<1> DEFINE entry == [block |-> "core", core |-> q.route.arg]
           data == IF q.route.arg \in q.cores THEN {entry} ELSE {}
<1>3. shown' = [page |-> PageOf(q.route), by |-> q.route, visit |-> q.visit, data |-> data]
  BY <1>2 DEF CoreTemplate, Wire, Drawn
<1>4. PICK new : new = {}
  OBVIOUS
<1>5. /\ requests' = Exchanged(q, new)
      /\ Disturbed(q) \subseteq upset'
      /\ UNCHANGED <<route, visit, basepath, pluginData, schemaData, acts>>
      /\ \A t \in timers' : t.do = "status timer" => t \in timers
  BY <1>4 DEF CoreTemplate, Wire
<1>6. \A a \in new : AskedFor(a, q) /\ a.do \notin Drawing
  BY <1>4
<1>7. Unmixed' /\ q.visit = visit => \A d \in data : d.core = CoreOf(route)
  BY <1>2
<1>8. \A d \in data : /\ d.block \notin Live
                      /\ d.block = "core" => /\ coreActs' = d.core
                                             /\ PageOf(q.route) = "cores"
  <2>1. \A d \in data : d = entry /\ q.route.arg \in q.cores
    OBVIOUS
  <2>2. q.route.arg \in q.cores => coreActs' = q.route.arg
    BY DEF CoreTemplate, Wire
  <2> QED
    BY <1>2, <2>1, <2>2 DEF Live
<1> HIDE DEF data
<1> QED
  BY <1>1, <1>3, <1>5, <1>6, <1>7, <1>8, Draws

-------------------------------------------------------------------------------
(***************************************************************************)
(* The answers of the plugins page and of the schema browser, which put    *)
(* what they bring into a global and then draw from it.                    *)
(***************************************************************************)
LEMMA MoreOfTheSame ==
    ASSUME NEW q, q.visit \in 0..visit, Suits(q),
           NEW do, \/ q.do = "mbeans" /\ do = "plugins template"
                   \/ q.do = "luke" /\ do = "schema"
                   \/ q.do = "schema" /\ do = "schema template"
    PROVE  AskedFor(Ask(do, q.route, q.visit), q) /\ do \in Drawing \ {"core data"}
<1>1. do \in Drawing \ {"core data"} /\ do \notin PlainBlocks
  BY BlocksDrawNothing DEF Drawing
<1>2. PICK a : a = Ask(do, q.route, q.visit)
  OBVIOUS
<1>3. /\ a = AskOf(a.do, a.route, a.visit, a.cores, a.n)
      /\ a.do = do /\ a.route = q.route /\ a.visit = q.visit
  BY <1>2 DEF Ask, AskOf
<1>4. Suits(a)
  BY <1>1, <1>3 DEF Suits
<1> QED
  BY <1>1, <1>2, <1>3, <1>4 DEF AskedFor

LEMMA CacheGathers ==
    ASSUME ConsoleInv, OfCache, NEW q \in InFlight, Mbeans(q) \/ Luke(q) \/ Schema(q)
    PROVE  ConsoleInv'
<1> USE DEF OfCache, coreVars, cacheVars, clock, place
<1>1. Suits(q) /\ q.visit \in 0..visit
  BY DEF ConsoleInv, ClosureInv
<1>2. CASE Mbeans(q)
  <2>1. q.do = "mbeans" /\ q.do \in Drawing
    BY <1>2 DEF Mbeans, Answer, Drawing
  <2>2. PICK a : a = Ask("plugins template", q.route, q.visit)
    OBVIOUS
  <2>3. Gathered(q) /\ requests' = Exchanged(q, {a})
    BY <1>2, <2>1, <2>2 DEF Mbeans, Gathered
  <2>4. AskedFor(a, q) /\ a.do \in Drawing \ {"core data"}
    BY <1>1, <2>1, <2>2, MoreOfTheSame DEF Ask, AskOf
  <2> QED
    BY <2>1, <2>3, <2>4, GathersMore
<1>3. CASE Luke(q)
  <2>1. q.do = "luke" /\ q.do \in Drawing
    BY <1>3 DEF Luke, Answer, Drawing
  <2>2. PICK a : a = Ask("schema", q.route, q.visit)
    OBVIOUS
  <2>3. Gathered(q) /\ requests' = Exchanged(q, {a})
    <3>1. schemaData' = {[block |-> "fields", core |-> q.route.core]}
      BY <1>3 DEF Luke
    <3>2. \A d \in schemaData' : /\ d.core = q.route.core \/ d \in schemaData
                               /\ d.block \in {"fields", "schema"}
      BY <3>1
    <3>3. /\ UNCHANGED <<route, visit, basepath, shown, coresTemplate, coreActs, acts>>
          /\ UNCHANGED pluginData /\ timers' = timers /\ upset' = Disturbed(q)
          /\ requests' = Exchanged(q, {a})
      BY <1>3, <2>2 DEF Luke
    <3> QED
      BY <2>1, <3>2, <3>3 DEF Gathered
  <2>4. AskedFor(a, q) /\ a.do \in Drawing \ {"core data"}
    BY <1>1, <2>1, <2>2, MoreOfTheSame DEF Ask, AskOf
  <2> QED
    BY <2>1, <2>3, <2>4, GathersMore
<1>4. CASE Schema(q) /\ schemaData # {}
  <2>1. q.do = "schema" /\ q.do \in Drawing
    BY <1>4 DEF Schema, Answer, Drawing
  <2>2. PICK a : a = Ask("schema template", q.route, q.visit)
    OBVIOUS
  <2>3. \A d \in schemaData : d.block \in {"fields", "schema"}
    BY DEF ConsoleInv, ButtonsInv
  <2>4. Gathered(q) /\ requests' = Exchanged(q, {a})
    <3>1. schemaData' = schemaData \cup {[block |-> "schema", core |-> q.route.core]}
      BY <1>4 DEF Schema
    <3>2. \A d \in schemaData' : /\ d.core = q.route.core \/ d \in schemaData
                               /\ d.block \in {"fields", "schema"}
      BY <2>3, <3>1
    <3>3. /\ UNCHANGED <<route, visit, basepath, shown, coresTemplate, coreActs, acts>>
          /\ UNCHANGED pluginData /\ timers' = timers /\ upset' = Disturbed(q)
          /\ requests' = Exchanged(q, {a})
      BY <1>4, <2>2 DEF Schema
    <3> QED
      BY <2>1, <3>2, <3>3 DEF Gathered
  <2>5. AskedFor(a, q) /\ a.do \in Drawing \ {"core data"}
    BY <1>1, <2>1, <2>2, MoreOfTheSame DEF Ask, AskOf
  <2> QED
    BY <2>1, <2>4, <2>5, GathersMore
<1>5. CASE Schema(q) /\ schemaData = {}
  <2>1. q.do = "schema" /\ q.do \in Drawing
    BY <1>5 DEF Schema, Answer, Drawing
  <2>2. Gathered(q) /\ requests' = Exchanged(q, {})
    BY <1>5 DEF Schema, Gathered
  <2>3. q.route.page = "schema-browser"
    BY <1>1, <2>1 DEF Suits
  <2> QED
    BY <2>1, <2>2, <2>3, GathersNoMore
<1> QED
  BY <1>2, <1>3, <1>4, <1>5

LEMMA PluginsDraws ==
    ASSUME ConsoleInv, OfCache, NEW q \in InFlight, PluginsTemplate(q) PROVE ConsoleInv'
<1> USE DEF OfCache, coreVars, cacheVars, clock
<1>1. q.do = "plugins template" /\ q.do \in Overdrawing /\ q.do \in Mixing
  BY DEF PluginsTemplate, Answer, Overdrawing, Mixing
<1>2. q.route.page = "plugins" /\ PageOf(q.route) = "plugins"
  BY <1>1, PageOfFacts DEF ConsoleInv, ClosureInv, Suits
<1> DEFINE entry == [block |-> "plugins", core |-> pluginData]
           data == IF pluginData # NoCore /\ q.route.arg # NoCore THEN {entry} ELSE {}
<1>3. shown' = [page |-> PageOf(q.route), by |-> q.route, visit |-> q.visit, data |-> data]
  BY <1>2 DEF PluginsTemplate, Rendered, Drawn
<1>4. PICK new : new = {}
  OBVIOUS
<1>5. UNCHANGED <<route, visit>>
  BY DEF PluginsTemplate, Redirect, place
<1>6. /\ requests' = Exchanged(q, new)
      /\ Disturbed(q) \subseteq upset'
      /\ UNCHANGED <<route, visit, basepath, pluginData, schemaData, acts>>
      /\ \A t \in timers' : t.do = "status timer" => t \in timers
  BY <1>4, <1>5 DEF PluginsTemplate
<1>7. \A a \in new : AskedFor(a, q) /\ a.do \notin Drawing
  BY <1>4
<1>8. \A d \in data : d = entry /\ pluginData # NoCore
  OBVIOUS
<1>9. ASSUME Unmixed', q.visit = visit, NEW d \in data PROVE d.core = CoreOf(route)
  <2>1. q.route = route
    BY <1>1, <1>9, OwnRoute DEF Tracked, Drawing
  <2>2. pluginData \in {NoCore, route.core}
    BY <1>2, <1>6, <1>9, <2>1, DisturbedGrows, StaysDisturbed DEF ConsoleInv, DataInv
  <2> QED
    BY <1>2, <1>8, <1>9, <2>1, <2>2 DEF CoreOf
<1>10. \A d \in data : /\ d.block \notin Live
                       /\ d.block = "core" => /\ coreActs' = d.core
                                              /\ PageOf(q.route) = "cores"
  BY <1>8 DEF Live
<1> HIDE DEF data
<1> QED
  BY <1>1, <1>3, <1>6, <1>7, <1>9, <1>10, Draws

LEMMA SchemaDraws ==
    ASSUME ConsoleInv, OfCache, NEW q \in InFlight, SchemaTemplate(q) PROVE ConsoleInv'
<1> USE DEF OfCache, coreVars, cacheVars, clock, place
<1>1. q.do = "schema template" /\ q.do \in Overdrawing
  BY DEF SchemaTemplate, Answer, Overdrawing
<1>2. q.route.page = "schema-browser" /\ PageOf(q.route) = "schema-browser"
  BY <1>1, PageOfFacts DEF ConsoleInv, ClosureInv, Suits
<1>3. PICK data : data = schemaData
  OBVIOUS
<1>4. shown' = [page |-> PageOf(q.route), by |-> q.route, visit |-> q.visit, data |-> data]
  BY <1>2, <1>3 DEF SchemaTemplate, Drawn
<1>5. PICK new : new = {}
  OBVIOUS
<1>6. /\ requests' = Exchanged(q, new)
      /\ Disturbed(q) \subseteq upset'
      /\ UNCHANGED <<route, visit, basepath, pluginData, schemaData, acts>>
      /\ \A t \in timers' : t.do = "status timer" => t \in timers
  BY <1>5 DEF SchemaTemplate
<1>7. \A a \in new : AskedFor(a, q) /\ a.do \notin Drawing
  BY <1>5
<1>8. ASSUME Unmixed', q.visit = visit, NEW d \in data PROVE d.core = CoreOf(route)
  <2>1. q.route = route
    BY <1>1, <1>8, OwnRoute DEF Tracked, Drawing
  <2>2. d.core = route.core
    BY <1>2, <1>3, <1>6, <1>8, <2>1, DisturbedGrows, StaysDisturbed
    DEF ConsoleInv, DataInv
  <2> QED
    BY <1>2, <2>1, <2>2 DEF CoreOf
<1>9. \A d \in data : /\ d.block \notin Live
                      /\ d.block = "core" => /\ coreActs' = d.core
                                             /\ PageOf(q.route) = "cores"
  BY <1>3 DEF Live, ConsoleInv, ButtonsInv
<1> QED
  BY <1>1, <1>4, <1>6, <1>7, <1>8, <1>9, Draws

-------------------------------------------------------------------------------
(***************************************************************************)
(* The answers of the pages that go on asking: a template is drawn without *)
(* data and a request for them is sent, whose answer fills all of it.      *)
(***************************************************************************)
LEMMA DrawsAndAsks ==
    ASSUME ConsoleInv, NEW q \in InFlight, q.do \in Overdrawing,
           NEW a, AskedFor(a, q), a.do \notin Drawing,
           requests' = Exchanged(q, {a}),
           Disturbed(q) \subseteq upset',
           shown' = Drawn(PageOf(q.route), q.route, q.visit),
           UNCHANGED <<route, visit, basepath, pluginData, schemaData, acts>>,
           \A t \in timers' : t.do = "status timer" => t \in timers
    PROVE  ConsoleInv'
<1>1. PICK new : new = {a}
  OBVIOUS
<1>2. PICK data : data = {}
  OBVIOUS
<1>3. /\ requests' = Exchanged(q, new)
      /\ shown' = [page |-> PageOf(q.route), by |-> q.route, visit |-> q.visit,
                   data |-> data]
  BY <1>1, <1>2 DEF Drawn
<1>4. \A b \in new : AskedFor(b, q) /\ b.do \notin Drawing
  BY <1>1
<1>5. /\ \A d \in data : d.core = CoreOf(route)
      /\ \A d \in data : /\ d.block \notin Live
                         /\ d.block = "core" => /\ coreActs' = d.core
                                                /\ PageOf(q.route) = "cores"
  BY <1>2
<1> QED
  BY <1>3, <1>4, <1>5, Draws

LEMMA FillsAll ==
    ASSUME ConsoleInv, NEW q \in InFlight, q.do \notin Drawing,
           NEW block, block \notin Live \cup {"core"}, NEW core,
           NEW data, FilledWith(q, data), UNCHANGED <<acts, coreActs>>,
           \/ data = shown.data
           \/ /\ data = {[block |-> block, core |-> core]}
              /\ Unmixed' /\ shown.page = PageOf(route) => core = CoreOf(route)
    PROVE  ConsoleInv'
<1>1. q \notin Mine
  BY DEF Mine
<1>2. upset \subseteq upset'
  BY DisturbedGrows DEF FilledWith
<1>3. \A d \in data : d \in shown.data \/ d = [block |-> block, core |-> core]
  OBVIOUS
<1>4. ASSUME Unmixed', shown.page = PageOf(route), NEW d \in data
      PROVE  (d \in shown.data /\ q \notin Mine) \/ d.core = CoreOf(route)
  BY <1>1, <1>4
<1>5. DOMAIN acts' = Live
  BY DEF ConsoleInv, ButtonsInv
<1>6. ASSUME NEW d \in data
      PROVE  /\ d.block \in Live /\ shown.visit = visit /\ <<"late", d.block>> \notin upset'
                   => acts'[d.block] = d.core
             /\ d.block = "core" => coreActs' = d.core /\ shown.page = "cores"
  <2>1. CASE d \in shown.data
    BY <1>2, <2>1 DEF ConsoleInv, ButtonsInv, ButtonsActOnTheShownCore, FilledWith
  <2>2. CASE d = [block |-> block, core |-> core]
    BY <2>2
  <2> QED
    BY <1>3, <2>1, <2>2
<1> QED
  BY <1>4, <1>5, <1>6, Fills

LEMMA ErrandAskedFor ==
    ASSUME NEW q, NEW a, AskedAside(a),
           a.do \in {"status", "import", "abort"} => a.visit = q.visit /\ a.route = q.route
    PROVE  AskedFor(a, q) /\ a.do \notin Drawing
BY SuitsAside DEF AskedAside, AskedFor, Tracked

LEMMA ImportAnswers ==
    ASSUME ConsoleInv, OfImport, NEW q \in InFlight,
           FindHandlers(q) \/ ImportTemplate(q) \/ Status(q)
    PROVE  ConsoleInv'
<1> USE DEF OfImport, coreVars, cacheVars, clock
<1>0. Suits(q) /\ q.visit \in 0..visit
  BY DEF ConsoleInv, ClosureInv
<1>1. CASE FindHandlers(q)
  <2>1. q.do = "find handlers" /\ q.do \in Overdrawing /\ q.do \in Drawing
    BY <1>1 DEF FindHandlers, Answer, Overdrawing, Drawing
  <2>2. q.route.page = "dataimport" /\ q.route.arg = NoCore
    BY <1>0, <2>1 DEF Suits
  <2>3. /\ UNCHANGED <<route, visit, basepath, coresTemplate, coreActs, acts>>
        /\ UNCHANGED <<pluginData, schemaData, timers>>
        /\ Disturbed(q) \subseteq upset' /\ requests' = Exchanged(q, {})
    BY <1>1 DEF FindHandlers, Redirect, place
  <2>4. CASE q.route.core \in Importing
    <3>1. Gathered(q)
      BY <1>1, <2>3, <2>4 DEF FindHandlers, Gathered
    <3>2. HandsOver(q.route)
      BY <2>2, <2>4 DEF HandsOver
    <3> QED
      BY <2>1, <2>3, <3>1, <3>2, GathersNoMore
  <2>5. CASE q.route.core \notin Importing
    <3>1. PICK none : none = {}
      OBVIOUS
    <3>2. shown' = [page |-> PageOf(q.route), by |-> q.route, visit |-> q.visit,
                    data |-> none]
      BY <1>1, <2>2, <2>5, <3>1 DEF FindHandlers, Drawn, PageOf
    <3>3. \A a \in none : AskedFor(a, q) /\ a.do \notin Drawing
      BY <3>1
    <3>4. /\ \A d \in none : d.core = CoreOf(route)
          /\ \A d \in none : /\ d.block \notin Live
                             /\ d.block = "core" => /\ coreActs' = d.core
                                                    /\ PageOf(q.route) = "cores"
      BY <3>1
    <3>5. requests' = Exchanged(q, none)
      BY <2>3, <3>1
    <3> QED
      BY <2>1, <2>3, <3>2, <3>3, <3>4, <3>5, Draws
  <2> QED
    BY <2>4, <2>5
<1>2. CASE ImportTemplate(q)
  <2>1. q.do = "import template" /\ q.do \in Overdrawing /\ q.do \in Tracked
    BY <1>2 DEF ImportTemplate, Answer, Overdrawing, Drawing, Tracked
  <2>2. PageOf(q.route) = "dataimport"
    BY <1>0, <2>1 DEF Suits, PageOf
  <2>3. PICK a : a = FetchStatus(q.route, q.visit)
    OBVIOUS
  <2>4. AskedAside(a)
    BY <2>1, <2>3, AskedImport, ClosureFacts DEF FetchStatus
  <2>5. AskedFor(a, q) /\ a.do \notin Drawing
    BY <2>3, <2>4, ErrandAskedFor DEF FetchStatus, Ask, AskOf
  <2>6. /\ requests' = Exchanged(q, {a})
        /\ Disturbed(q) \subseteq upset'
        /\ shown' = Drawn(PageOf(q.route), q.route, q.visit)
        /\ UNCHANGED <<route, visit, basepath, pluginData, schemaData, acts, timers>>
    BY <1>2, <2>2, <2>3 DEF ImportTemplate, place
  <2> QED
    BY <2>1, <2>5, <2>6, DrawsAndAsks
<1>3. CASE Status(q)
  <2>1. q.do = "status" /\ q.do \in Tracked /\ q.do \notin Drawing /\ q.do \in Mixing
    BY <1>3 DEF Status, Answer, Tracked, Drawing, Mixing
  <2> DEFINE entry == [block |-> "status", core |-> q.route.core]
             data == IF shown.page = "dataimport" THEN {entry} ELSE shown.data
  <2>2. shown = [page |-> shown.page, by |-> shown.by, visit |-> shown.visit,
                 data |-> shown.data]
    BY DEF ConsoleInv, ClosureInv
  <2>3. shown' = [page |-> shown.page, by |-> shown.by, visit |-> shown.visit,
                  data |-> data]
    BY <1>3, <2>2 DEF Status, StatusShown
  <2>4. \A t \in timers' : t.do = "status timer" =>
           t \in timers \/ <<t.visit, t.route>> \in Closures
    <3>1. \A t \in timers' : t \in timers \/ (t.visit = q.visit /\ t.route = q.route)
      <4>1. CASE timeout = 0 /\ q.visit \in autorefresh
        <5>1. PICK u : u = Timer(FreeHandle, "status timer", q.route, q.visit, 0)
          OBVIOUS
        <5>2. timers' = timers \cup {u}
          BY <1>3, <4>1, <5>1 DEF Status
        <5>3. u.visit = q.visit /\ u.route = q.route
          BY <5>1 DEF Timer
        <5> QED
          BY <5>2, <5>3
      <4>2. CASE ~(timeout = 0 /\ q.visit \in autorefresh)
        BY <1>3, <4>2 DEF Status
      <4> QED
        BY <4>1, <4>2
    <3>2. <<q.visit, q.route>> \in Closures
      BY <2>1, ClosureFacts
    <3> QED
      BY <3>1, <3>2
  <2>5. /\ requests' = Exchanged(q, {})
        /\ Disturbed(q) \subseteq upset'
        /\ UNCHANGED <<route, visit, basepath, coresTemplate, coreActs, acts,
                       pluginData, schemaData>>
    BY <1>3 DEF Status, place
  <2>6. FilledWith(q, data)
    BY <2>3, <2>4, <2>5 DEF FilledWith
  <2>7. ASSUME Unmixed', shown.page = "dataimport", shown.page = PageOf(route)
        PROVE  q.route.core = CoreOf(route)
    <3>1. q.visit = visit
      BY <2>1, <2>5, <2>7, DisturbedGrows, DisturbsNext
    <3>2. q.route = route /\ route.page = "dataimport"
      BY <2>1, <2>7, <3>1, OwnRoute, PageOfFacts
    <3> QED
      BY <3>2 DEF CoreOf
  <2>8. \/ data = shown.data
        \/ /\ data = {entry}
           /\ Unmixed' /\ shown.page = PageOf(route) => q.route.core = CoreOf(route)
    BY <2>7
  <2>9. "status" \notin Live \cup {"core"}
    BY DEF Live
  <2> HIDE DEF data
  <2> QED
    BY <2>1, <2>5, <2>6, <2>8, <2>9, FillsAll
<1> QED
  BY <1>1, <1>2, <1>3

LEMMA LoggingDraws ==
    ASSUME ConsoleInv, OfLogging, NEW q \in InFlight, LoggingTemplate(q) PROVE ConsoleInv'
<1> USE DEF OfLogging, coreVars, cacheVars, clock, place
<1>1. q.do = "logging template" /\ q.do \in Overdrawing
  BY DEF LoggingTemplate, Answer, Overdrawing
<1>2. PageOf(q.route) = "logging"
  BY <1>1, PageOfFacts DEF ConsoleInv, ClosureInv, Suits
<1>3. PICK a : a = LoadViewer(0)
  OBVIOUS
<1>4. AskedAside(a) /\ a.do = "log"
  BY <1>3, AskedErrand DEF LoadViewer, Errands, AskOf
<1>5. AskedFor(a, q) /\ a.do \notin Drawing
  BY <1>4, ErrandAskedFor
<1>6. /\ requests' = Exchanged(q, {a})
      /\ Disturbed(q) \subseteq upset'
      /\ shown' = Drawn(PageOf(q.route), q.route, q.visit)
      /\ UNCHANGED <<route, visit, basepath, pluginData, schemaData, acts, timers>>
  BY <1>2, <1>3 DEF LoggingTemplate
<1> QED
  BY <1>1, <1>5, <1>6, DrawsAndAsks

LEMMA ReplicationAnswers ==
    ASSUME ConsoleInv, OfReplication, NEW q \in InFlight,
           ReplicationTemplate(q) \/ Details(q) \/ DetailsFail(q)
    PROVE  ConsoleInv'
<1> USE DEF OfReplication, coreVars, cacheVars, clock, place
<1>1. CASE ReplicationTemplate(q)
  <2>1. q.do = "replication template" /\ q.do \in Overdrawing
    BY <1>1 DEF ReplicationTemplate, Answer, Overdrawing
  <2>2. PageOf(q.route) = "replication"
    BY <2>1, PageOfFacts DEF ConsoleInv, ClosureInv, Suits
  <2>3. PICK a : a = FetchDetails
    OBVIOUS
  <2>4. AskedAside(a) /\ a.do = "details"
    BY <2>3, AskedDetails DEF FetchDetails, Ask, AskOf
  <2>5. AskedFor(a, q) /\ a.do \notin Drawing
    BY <2>4, ErrandAskedFor
  <2>6. /\ requests' = Exchanged(q, {a})
        /\ Disturbed(q) \subseteq upset'
        /\ shown' = Drawn(PageOf(q.route), q.route, q.visit)
        /\ UNCHANGED <<route, visit, basepath, pluginData, schemaData, acts>>
        /\ timers' \subseteq timers
    BY <1>1, <2>2, <2>3 DEF ReplicationTemplate, TimersCleared
  <2>7. \A t \in timers' : t.do = "status timer" => t \in timers
    BY <2>6
  <2> QED
    BY <2>1, <2>5, <2>6, <2>7, DrawsAndAsks
<1>2. CASE Details(q)
  <2>1. q.do = "details" /\ q.do \notin Drawing /\ q.do \in Mixing
    BY <1>2 DEF Details, Answer, Drawing, Mixing
  <2> DEFINE entry == [block |-> "details", core |-> q.route.core]
             data == IF shown.page = "replication" /\ shown.visit = element
                     THEN {entry} ELSE shown.data
  <2>2. shown = [page |-> shown.page, by |-> shown.by, visit |-> shown.visit,
                 data |-> shown.data]
    BY DEF ConsoleInv, ClosureInv
  <2>3. shown' = [page |-> shown.page, by |-> shown.by, visit |-> shown.visit,
                  data |-> data]
    BY <1>2, <2>2 DEF Details
  <2>4. \A t \in timers' : t.do = "status timer" => t \in timers
    <3>1. CASE timers' = timers
      BY <3>1
    <3>2. CASE timers' = timers \cup {Timer(FreeHandle, "refetch",
                                            NoRoute, visit, 0)}
      <4>1. PICK u : u.do = "refetch" /\ timers' = timers \cup {u}
        BY <3>2 DEF Timer
      <4> QED
        BY <4>1
    <3>3. CASE \E n \in 1..MaxTick : InitTimer(n)
      <4>1. PICK u : u.do = "tick" /\ timers' = TimersCleared \cup {u}
        BY <3>3 DEF InitTimer, Countdown, Timer
      <4> QED
        BY <4>1 DEF TimersCleared
    <3> QED
      BY <1>2, <3>1, <3>2, <3>3 DEF Details
  <2>5. /\ requests' = Exchanged(q, {})
        /\ Disturbed(q) \subseteq upset'
        /\ UNCHANGED <<route, visit, basepath, coresTemplate, coreActs, acts,
                       pluginData, schemaData>>
    BY <1>2 DEF Details
  <2>6. FilledWith(q, data)
    BY <2>3, <2>4, <2>5 DEF FilledWith
  <2>7. ASSUME Unmixed', shown.page = "replication", shown.page = PageOf(route)
        PROVE  q.route.core = CoreOf(route)
    <3>1. q.visit = visit
      BY <2>1, <2>5, <2>7, DisturbedGrows, DisturbsNext
    <3>2. route.page = "replication"
      BY <2>7, PageOfFacts
    <3> QED
      BY <2>1, <3>1, <3>2 DEF CoreOf, ConsoleInv, DataInv
  <2>8. \/ data = shown.data
        \/ /\ data = {entry}
           /\ Unmixed' /\ shown.page = PageOf(route) => q.route.core = CoreOf(route)
    BY <2>7
  <2>9. "details" \notin Live \cup {"core"}
    BY DEF Live
  <2> HIDE DEF data
  <2> QED
    BY <2>1, <2>5, <2>6, <2>8, <2>9, FillsAll
<1>3. CASE DetailsFail(q)
  <2>1. PICK none : none = {}
    OBVIOUS
  <2>2. Asked({q}, none)
    BY <1>3, <2>1, ExchangedAsks DEF ConsoleInv, ClosureInv, DetailsFail
  <2>3. /\ UNCHANGED <<route, visit, basepath, acts, coreActs, coresTemplate>>
        /\ UNCHANGED <<pluginData, schemaData, timers>>
        /\ shown' = [page |-> "no replication", by |-> q.route, visit |-> q.visit,
                     data |-> {}]
        /\ <<"lost", "details">> \in upset'
    BY <1>3 DEF DetailsFail, Drawn
  <2>4. ClosureInv'
    <3>1. \A a \in none : /\ a = AskOf(a.do, a.route, a.visit, a.cores, a.n)
                          /\ a.visit \in 0..visit
                          /\ Suits(a)
                          /\ a.do \in Tracked => <<a.visit, a.route>> \in Closures
      BY <2>1
    <3>2. /\ shown' = [page |-> shown'.page, by |-> shown'.by, visit |-> shown'.visit,
                       data |-> shown'.data]
          /\ shown'.visit \in 0..visit
          /\ shown'.page = "no replication"
      BY <2>3 DEF ConsoleInv, ClosureInv
    <3>3. ClosureInv
      BY DEF ConsoleInv
    <3> QED
      BY <2>2, <2>3, <3>1, <3>2, <3>3, ClosureKept
  <2>5. ~Undrawn' /\ ~Unmixed'
    BY <2>3, DisturbsNext
  <2>6. route'.page = "replication" =>
          /\ basepath' = route'.core
          /\ \A p \in InFlight' : p.do = "details" /\ p.visit = visit' =>
                p.route.core = route'.core
    <3>1. \A a \in none : a.do = "details" /\ a.visit = visit => a.route.core = basepath
      BY <2>1
    <3>2. UNCHANGED <<route, visit, basepath>>
      BY <2>3
    <3> HIDE DEF OfReplication
    <3> QED
      BY <2>2, <3>1, <3>2, DetailsAfter
  <2>7. ButtonsInv'
    BY <2>3 DEF ConsoleInv, ButtonsInv, ButtonsActOnTheShownCore
  <2> QED
    BY <2>4, <2>5, <2>6, <2>7 DEF ConsoleInv, DrawnInv, DataInv
<1> QED
  BY <1>1, <1>2, <1>3

-------------------------------------------------------------------------------
(***************************************************************************)
(* A route is run: there is one more visit, and nothing that is in flight  *)
(* belongs to it.                                                          *)
(***************************************************************************)
AskedBy(a, r) ==
    /\ a = AskOf(a.do, a.route, a.visit, a.cores, a.n)
    /\ a.visit = visit + 1
    /\ a.route = r
    /\ Suits(a)

LEMMA OneMoreVisit ==
    ASSUME NEW n \in Nat
    PROVE  /\ n + 1 \in Nat /\ n + 1 \in 0..(n + 1) /\ n + 1 \notin 0..n
           /\ \A v \in 0..n : v \in 0..(n + 1)
OBVIOUS

LEMMA Ran ==
    ASSUME NEW r, RunRoute(r)
    PROVE  route' = r /\ visit' = visit + 1 /\ timers' \subseteq timers
BY DEF RunRoute, ClearTimeout

LEMMA ClosureOpened ==
    ASSUME ConsoleInv, NEW r, RunRoute(r), r.page \notin {"loading", "no replication"},
           NEW new, Asked({}, new),
           \A a \in new : AskedBy(a, r),
           shown' = [page |-> shown'.page, by |-> shown'.by, visit |-> shown'.visit,
                     data |-> shown'.data],
           \/ /\ shown'.page = shown.page /\ shown'.by = shown.by
              /\ shown'.visit = shown.visit
           \/ shown'.page = PageOf(r) /\ shown'.by = r /\ shown'.visit = visit + 1
    PROVE  /\ ClosureInv'
           /\ \A q \in InFlight' : q \in new \/ (q \in InFlight /\ q.visit # visit')
           /\ \A q \in InFlight : q.visit # visit'
           /\ shown.visit # visit'
<1>1. /\ route' = r /\ visit' = visit + 1
      /\ \A t \in timers' : t \in timers
  BY Ran
<1>2. /\ visit \in Nat
      /\ \A a \in Closures : a[1] \in 0..visit
      /\ \A a, b \in Closures : a[1] = b[1] => a[2] = b[2]
      /\ \A q \in InFlight : /\ q = AskOf(q.do, q.route, q.visit, q.cores, q.n)
                             /\ q.visit \in 0..visit
                             /\ Suits(q)
      /\ shown.visit \in 0..visit
      /\ shown.page \in {"loading", "no replication"} \/ shown.page = PageOf(shown.by)
  BY DEF ConsoleInv, ClosureInv
<1>3. \A q \in InFlight' : q \in InFlight \/ q \in new
  BY InFlightOf
<1>4. visit' \in Nat /\ visit + 1 \in 0..visit' /\ (\A v \in 0..visit : v \in 0..visit')
      /\ visit + 1 \notin 0..visit
  <2>1. PICK n \in Nat : n = visit /\ visit' = n + 1
    BY <1>1, <1>2
  <2>2. /\ n + 1 \in Nat /\ n + 1 \in 0..(n + 1) /\ n + 1 \notin 0..n
        /\ \A v \in 0..n : v \in 0..(n + 1)
    BY OneMoreVisit
  <2> QED
    BY <2>1, <2>2, Zenon
<1>5. (\A q \in InFlight : q.visit # visit') /\ shown.visit # visit'
  BY <1>1, <1>2, <1>4
<1>6. \A c \in Closures' : c \in Closures \/ c = <<visit + 1, r>>
  <2>1. ASSUME NEW q \in InFlight', q.do \in Tracked
        PROVE  <<q.visit, q.route>> \in Closures \/ <<q.visit, q.route>> = <<visit + 1, r>>
    <3>1. CASE q \in InFlight
      BY <2>1, <3>1, ClosureFacts
    <3>2. CASE q \in new
      BY <3>2 DEF AskedBy
    <3> QED
      BY <1>3, <3>1, <3>2
  <2>2. \A t \in timers' : t.do = "status timer" => <<t.visit, t.route>> \in Closures
    BY <1>1, ClosureFacts
  <2>3. shown'.page # "no replication" =>
           \/ <<shown'.visit, shown'.by>> \in Closures
           \/ <<shown'.visit, shown'.by>> = <<visit + 1, r>>
    BY ClosureFacts
  <2>4. ASSUME NEW c \in Closures' PROVE c \in Closures \/ c = <<visit + 1, r>>
    <3>1. CASE \E q \in InFlight' : q.do \in Tracked /\ c = <<q.visit, q.route>>
      BY <2>1, <3>1
    <3>2. CASE \E t \in timers' : t.do = "status timer" /\ c = <<t.visit, t.route>>
      BY <2>2, <3>2
    <3>3. CASE shown'.page # "no replication" /\ c = <<shown'.visit, shown'.by>>
      BY <2>3, <3>3
    <3>4. CASE c = <<visit', route'>>
      BY <1>1, <3>4
    <3> QED
      BY <2>4, <3>1, <3>2, <3>3, <3>4 DEF Closures
  <2> QED
    BY <2>4
<1> DEFINE opened == <<visit + 1, r>>
<1>7. opened[1] = visit + 1 /\ opened[2] = r /\ \A c \in Closures' : c \in Closures \/ c = opened
  BY <1>6
<1> HIDE DEF opened
<1>8. /\ \A a \in Closures' : a[1] \in 0..visit'
      /\ \A a, b \in Closures' : a[1] = b[1] => a[2] = b[2]
  <2>1. ASSUME NEW a \in Closures' PROVE a[1] \in 0..visit'
    BY <1>2, <1>4, <1>7
  <2>2. ASSUME NEW a \in Closures', NEW b \in Closures', a[1] = b[1] PROVE a[2] = b[2]
    <3>1. CASE a \in Closures /\ b \in Closures
      BY <1>2, <2>2, <3>1
    <3>2. CASE a = opened /\ b = opened
      BY <3>2
    <3>3. CASE (a \in Closures /\ b = opened) \/ (a = opened /\ b \in Closures)
      BY <1>2, <1>4, <1>7, <2>2, <3>3
    <3> QED
      BY <1>7, <3>1, <3>2, <3>3
  <2> QED
    BY <2>1, <2>2
<1>9. \A q \in InFlight' : /\ q = AskOf(q.do, q.route, q.visit, q.cores, q.n)
                           /\ q.visit \in 0..visit'
                           /\ Suits(q)
  BY <1>2, <1>3, <1>4 DEF AskedBy
<1>10. /\ shown'.visit \in 0..visit'
       /\ shown'.page \in {"loading", "no replication"} \/ shown'.page = PageOf(shown'.by)
       /\ route'.page \notin {"loading", "no replication"}
  BY <1>1, <1>2, <1>4
<1>11. IsABag(requests')
  BY DEF Asked
<1>12. ClosureInv'
  BY <1>4, <1>8, <1>9, <1>10, <1>11
  DEF ClosureInv, Suits, PageOf, ListRoute, CoreRoute
<1> QED
  BY <1>3, <1>5, <1>12

(***************************************************************************)
(* A visit that asks for what its page is drawn from, and leaves what is   *)
(* shown until that comes.                                                 *)
(***************************************************************************)
LEMMA VisitAsks ==
    ASSUME ConsoleInv, NEW r, RunRoute(r),
           r.page \notin {"loading", "no replication", "schema-browser"},
           NEW a, AskedBy(a, r), a.do \in Drawing, requests' = Sent({a}),
           UNCHANGED <<shown, acts, coreActs, schemaData>>,
           r = ListRoute => ~coresTemplate',
           Undrawn' /\ coresTemplate' /\ a.do = "core data" => shown.page = "cores",
           r.page = "replication" => basepath' = r.core,
           r.page = "plugins" => pluginData' = NoCore
    PROVE  ConsoleInv'
<1>1. PICK new : new = {a}
  OBVIOUS
<1>2. Asked({}, new)
  BY <1>1, SentAsks DEF ConsoleInv, ClosureInv
<1>3. \A b \in new : AskedBy(b, r)
  BY <1>1
<1>4. shown' = [page |-> shown'.page, by |-> shown'.by, visit |-> shown'.visit,
                data |-> shown'.data]
  BY DEF ConsoleInv, ClosureInv
<1>5. /\ ClosureInv'
      /\ \A q \in InFlight' : q \in new \/ (q \in InFlight /\ q.visit # visit')
      /\ shown.visit # visit'
  BY <1>2, <1>3, <1>4, ClosureOpened
<1>6. route' = r /\ visit' = visit + 1
  BY Ran
<1>7. \A q \in Mine' : q = a
  BY <1>1, <1>5 DEF Mine
<1>8. a \in Mine'
  BY <1>1, <1>2, <1>6, InFlightOf DEF Mine, AskedBy
<1>9. DrawnInv'
  <2>1. Undrawn' /\ coresTemplate' /\ (\E q \in Mine' : q.do = "core data")
           => shown'.page = "cores"
    BY <1>7
  <2> QED
    BY <1>6, <1>8, <2>1 DEF DrawnInv, ListRoute, CoreRoute
<1>10. DataInv'
  <2>1. \A q \in InFlight' : q.visit = visit' => q.do # "details"
    BY <1>1, <1>5 DEF Drawing
  <2> QED
    BY <1>6, <1>8, <2>1 DEF DataInv
<1>11. ButtonsInv'
  BY <1>5 DEF ConsoleInv, ButtonsInv, ButtonsActOnTheShownCore
<1> QED
  BY <1>5, <1>9, <1>10, <1>11 DEF ConsoleInv

LEMMA FirstAsked ==
    ASSUME NEW do \in Drawing, NEW r, NEW cores,
           NEW a, a = AskOf(do, r, visit + 1, cores, 0),
           do = "template" => r.page \in Templated,
           do = "core list" => r = ListRoute,
           do = "core data" => r.page = "cores" /\ r # ListRoute,
           do = "mbeans" => r.page = "plugins",
           do = "luke" => r.page = "schema-browser",
           do = "find handlers" => r.page = "dataimport" /\ r.arg = NoCore,
           do = "import template" => r.page = "dataimport" /\ r.arg # NoCore,
           do = "logging template" => r.page = "logging",
           do = "replication template" => r.page = "replication",
           do \notin {"core template", "plugins template", "schema", "schema template"}
    PROVE  AskedBy(a, r) /\ a.do = do
<1>1. /\ a = AskOf(a.do, a.route, a.visit, a.cores, a.n)
      /\ a.do = do /\ a.route = r /\ a.visit = visit + 1
  BY DEF AskOf
<1>2. Suits(a)
  BY <1>1, BlocksDrawNothing DEF Suits
<1> QED
  BY <1>1, <1>2 DEF AskedBy

LEMMA ListRouteIs == ListRoute.page = "cores" /\ ListRoute.arg = NoCore
BY DEF ListRoute, CoreRoute, Route

LEMMA PlainVisits ==
    ASSUME ConsoleInv, OfPlain, NEW r, PlainVisit(r) PROVE ConsoleInv'
<1> USE DEF OfPlain, coreVars, cacheVars
<1>1. CASE VisitTemplated(r)
  <2>1. PICK a : a = AskOf("template", r, visit + 1, {}, 0)
    OBVIOUS
  <2>2. RunRoute(r) /\ r.page \in Templated /\ requests' = Sent({a})
    BY <1>1, <2>1 DEF VisitTemplated, Ask
  <2>3. AskedBy(a, r) /\ a.do \in Drawing /\ a.do # "core data"
    BY <2>1, <2>2, FirstAsked DEF Drawing
  <2>4. /\ r.page \notin {"loading", "no replication", "schema-browser", "replication",
                          "plugins"}
        /\ r # ListRoute
    BY <2>2, ListRouteIs DEF Templated
  <2>5. UNCHANGED <<shown, acts, coreActs, schemaData>>
    BY <1>1 DEF VisitTemplated
  <2> QED
    BY <2>2, <2>3, <2>4, <2>5, VisitAsks
<1>2. CASE VisitFramed(r)
  <2>1. PICK new : new = Data(r, visit + 1)
    OBVIOUS
  <2>2. RunRoute(r) /\ r.page \in Framed /\ requests' = Sent(new)
    BY <1>2, <2>1 DEF VisitFramed
  <2>3. Asked({}, new)
    BY <2>2, SentAsks DEF ConsoleInv, ClosureInv
  <2>4. \A a \in new : AskedBy(a, r) /\ a.do \notin Drawing /\ a.do # "details"
    BY <2>1, <2>2, DataAsked, BlocksDrawNothing DEF AskedBy
  <2>5. /\ r.page \notin {"loading", "no replication", "schema-browser", "replication",
                          "plugins", "dataimport"}
        /\ r # ListRoute /\ PageOf(r) = r.page
    BY <2>2, ListRouteIs DEF Framed, PageOf
  <2>6. shown' = [page |-> PageOf(r), by |-> r, visit |-> visit + 1, data |-> {}]
    BY <1>2, <2>5 DEF VisitFramed, Drawn
  <2>7. route' = r /\ visit' = visit + 1
    BY <2>2, Ran
  <2>8. /\ ClosureInv'
        /\ \A q \in InFlight' : q \in new \/ (q \in InFlight /\ q.visit # visit')
    <3>1. shown' = [page |-> shown'.page, by |-> shown'.by, visit |-> shown'.visit,
                    data |-> shown'.data]
      BY <2>6
    <3>2. shown'.page = PageOf(r) /\ shown'.by = r /\ shown'.visit = visit + 1
      BY <2>6
    <3> QED
      BY <2>2, <2>3, <2>4, <2>5, <3>1, <3>2, ClosureOpened
  <2>9. Mine' = {}
    BY <2>4, <2>8 DEF Mine
  <2>10. DrawnInv'
    BY <2>5, <2>6, <2>7, <2>9 DEF DrawnInv, PageOf, ListRoute, CoreRoute
  <2>11. DataInv' /\ ButtonsInv'
    <3>1. acts' = acts /\ schemaData' = schemaData /\ coreActs' = coreActs
      BY <1>2 DEF VisitFramed
    <3> QED
      BY <2>5, <2>6, <2>7, <3>1
      DEF DataInv, ConsoleInv, ButtonsInv, ButtonsActOnTheShownCore
  <2> QED
    BY <2>8, <2>10, <2>11 DEF ConsoleInv
<1> QED
  BY <1>1, <1>2 DEF PlainVisit

LEMMA CoreVisits ==
    ASSUME ConsoleInv, OfCore, NEW r, CoreVisit(r) PROVE ConsoleInv'
<1> USE DEF OfCore, coreVars, cacheVars
<1>1. CASE VisitCoreList(r)
  <2>1. PICK a : a = AskOf("core list", r, visit + 1, alive, 0)
    OBVIOUS
  <2>2. RunRoute(r) /\ r = ListRoute /\ requests' = Sent({a}) /\ ~coresTemplate'
    BY <1>1, <2>1 DEF VisitCoreList
  <2>3. AskedBy(a, r) /\ a.do \in Drawing
    <3>1. "core list" \in Drawing
      BY DEF Drawing
    <3> QED
      BY <2>1, <2>2, <3>1, FirstAsked
  <2>4. r.page = "cores"
    BY <2>2, ListRouteIs
  <2>5. UNCHANGED <<shown, acts, coreActs, schemaData>>
    BY <1>1 DEF VisitCoreList
  <2> QED
    BY <2>2, <2>3, <2>4, <2>5, VisitAsks
<1>2. CASE VisitCore(r)
  <2>1. PICK a : a = AskOf("core data", r, visit + 1, alive, 0)
    OBVIOUS
  <2>2. /\ RunRoute(r) /\ r # ListRoute /\ r.page = "cores" /\ requests' = Sent({a})
        /\ UNCHANGED <<shown, acts, coreActs, schemaData, coresTemplate>>
    BY <1>2, <2>1 DEF VisitCore
  <2>3. AskedBy(a, r) /\ a.do \in Drawing
    <3>1. "core data" \in Drawing
      BY DEF Drawing
    <3> QED
      BY <2>1, <2>2, <3>1, FirstAsked
  <2>4. ASSUME Undrawn', coresTemplate PROVE shown.page = "cores"
    <3>1. CASE upset' = upset /\ ComesFromTheList
      BY <2>4, <3>1 DEF ComesFromTheList, Undrawn, ConsoleInv, DrawnInv
    <3>2. CASE upset' = {<<"cached", "cores">>}
      BY <2>4, <3>2, DisturbsNext
    <3>3. coresTemplate /\ shown.page # "cores" =>
            \/ upset' = upset /\ ComesFromTheList
            \/ upset' = {<<"cached", "cores">>}
      BY <1>2 DEF VisitCore
    <3> QED
      BY <2>4, <3>1, <3>2, <3>3
  <2> QED
    BY <2>2, <2>3, <2>4, VisitAsks
<1> QED
  BY <1>1, <1>2 DEF CoreVisit

LEMMA OtherVisits ==
    ASSUME ConsoleInv, NEW r,
           \/ ImportVisit(r) /\ OfImport
           \/ LoggingVisit(r) /\ OfLogging
           \/ ReplicationVisit(r) /\ OfReplication
    PROVE  ConsoleInv'
<1> USE DEF OfImport, OfLogging, OfReplication, coreVars, cacheVars
<1>1. ASSUME NEW do \in {"find handlers", "import template", "logging template",
                         "replication template"},
             RunRoute(r), requests' = Sent({Ask(do, r, visit + 1)}),
             UNCHANGED <<shown, acts, coreActs, schemaData>>,
             do = "find handlers" => r.page = "dataimport" /\ r.arg = NoCore,
             do = "import template" => r.page = "dataimport" /\ r.arg # NoCore,
             do = "logging template" => r.page = "logging",
             do = "replication template" => r.page = "replication" /\ basepath' = r.core
      PROVE  ConsoleInv'
  <2>1. PICK a : a = AskOf(do, r, visit + 1, {}, 0)
    OBVIOUS
  <2>2. requests' = Sent({a})
    BY <1>1, <2>1 DEF Ask
  <2>3. AskedBy(a, r) /\ a.do \in Drawing /\ a.do # "core data"
    <3>1. /\ do \in Drawing
          /\ do \notin {"template", "core list", "core data", "mbeans", "luke"}
          /\ do \notin {"core template", "plugins template", "schema", "schema template"}
      BY DEF Drawing
    <3>2. /\ a = AskOf(a.do, a.route, a.visit, a.cores, a.n)
          /\ a.do = do /\ a.route = r /\ a.visit = visit + 1
      BY <2>1 DEF AskOf
    <3>3. Suits(a)
      BY <1>1, <3>1, <3>2, BlocksDrawNothing DEF Suits
    <3> QED
      BY <3>1, <3>2, <3>3 DEF AskedBy
  <2>4. /\ r.page \notin {"loading", "no replication", "schema-browser", "plugins"}
        /\ r # ListRoute
        /\ r.page = "replication" => basepath' = r.core
    BY <1>1, ListRouteIs
  <2> QED
    BY <1>1, <2>2, <2>3, <2>4, VisitAsks
<1>2. CASE ImportVisit(r) /\ OfImport
  BY <1>1, <1>2 DEF ImportVisit, VisitImports, VisitImport
<1>3. CASE LoggingVisit(r) /\ OfLogging
  BY <1>1, <1>3 DEF LoggingVisit, VisitLogging
<1>4. CASE ReplicationVisit(r) /\ OfReplication
  BY <1>1, <1>4 DEF ReplicationVisit, VisitReplication
<1> QED
  BY <1>2, <1>3, <1>4

(***************************************************************************)
(* A type of plugins whose data are there is rendered at once into what is *)
(* shown: that is the plugins page, of this core, when the visit has been  *)
(* redirected from there.                                                  *)
(***************************************************************************)
LEMMA VisitRenders ==
    ASSUME ConsoleInv, OfCache, NEW r, VisitPluginType(r), pluginData # NoCore
    PROVE  ConsoleInv'
<1> USE DEF OfCache, coreVars, cacheVars
<1>1. /\ RunRoute(r) /\ r.page = "plugins" /\ r.arg # NoCore
      /\ shown' = Rendered(shown) /\ requests' = requests
      /\ UNCHANGED <<pluginData, schemaData, acts, coreActs>>
      /\ \/ ComesFromPlugins(r) /\ upset' = upset
         \/ pluginData = r.core /\ shown.page = "plugins"
         \/ upset' = {<<"cached", "plugins">>}
  BY DEF VisitPluginType
<1>2. /\ r.page \notin {"loading", "no replication"} /\ r # ListRoute
      /\ PageOf(r) = "plugins" /\ CoreOf(r) = r.core
      /\ ~HandsOver(r)
  BY <1>1, ListRouteIs DEF PageOf, CoreOf, HandsOver
<1>3. PICK none : none = {}
  OBVIOUS
<1>4. Asked({}, none)
  BY <1>1, <1>3, KeptAsks DEF ConsoleInv, ClosureInv
<1>5. \A a \in none : AskedBy(a, r)
  BY <1>3
<1>6. shown = [page |-> shown.page, by |-> shown.by, visit |-> shown.visit,
               data |-> shown.data]
  BY DEF ConsoleInv, ClosureInv
<1> DEFINE data == IF shown.page = "plugins"
                   THEN {[block |-> "plugins", core |-> pluginData]} ELSE shown.data
<1>7. shown' = [page |-> shown.page, by |-> shown.by, visit |-> shown.visit,
                data |-> data]
  BY <1>1, <1>6 DEF Rendered
<1>8. /\ shown' = [page |-> shown'.page, by |-> shown'.by, visit |-> shown'.visit,
                   data |-> shown'.data]
      /\ shown'.page = shown.page /\ shown'.by = shown.by /\ shown'.visit = shown.visit
      /\ shown'.data = data
  BY <1>7
<1>9. /\ ClosureInv'
      /\ \A q \in InFlight' : q \in none \/ (q \in InFlight /\ q.visit # visit')
      /\ shown.visit # visit'
  BY <1>1, <1>2, <1>4, <1>5, <1>8, ClosureOpened
<1>10. route' = r /\ visit' = visit + 1
  BY <1>1, Ran
<1>11. \A q \in InFlight' : q.visit # visit'
  BY <1>3, <1>9
<1>12. Mine' = {}
  BY <1>11 DEF Mine
<1>13. Undrawn' => shown.page = "plugins" /\ (Unmixed' => pluginData = r.core)
  <2>1. CASE ComesFromPlugins(r) /\ upset' = upset
    <3>1. /\ route.page = "plugins" /\ route.core = r.core
          /\ route # NoRoute /\ ~HandsOver(route) /\ PageOf(route) = "plugins"
      BY <2>1, ListRouteIs
      DEF ComesFromPlugins, PluginsRoute, Route, NoRoute, HandsOver, PageOf
    <3>2. Mine = {}
      BY <2>1 DEF ComesFromPlugins, Mine
    <3>3. (Undrawn' => Undrawn) /\ (Unmixed' => Unmixed)
      BY <2>1, StaysDisturbed
    <3> QED
      BY <3>1, <3>2, <3>3 DEF ConsoleInv, DrawnInv, DataInv
  <2>2. CASE upset' = {<<"cached", "plugins">>}
    BY <2>2, DisturbsNext
  <2> QED
    BY <1>1, <2>1, <2>2
<1>14. DrawnInv'
  BY <1>1, <1>2, <1>8, <1>10, <1>12, <1>13
  DEF DrawnInv, PageOf, ListRoute, CoreRoute, Templated, Framed
<1>15. DataInv'
  <2>1. Unmixed' => Undrawn'
    BY DisturbsNext
  <2>2. Unmixed' => \A d \in shown'.data : d.core = r.core
    BY <1>8, <1>13, <2>1
  <2> QED
    BY <1>1, <1>10, <1>13, <2>1, <2>2 DEF DataInv, CoreOf
<1>16. ButtonsInv'
  <2>1. \A d \in data : d \in shown.data \/ d.block = "plugins"
    OBVIOUS
  <2> HIDE DEF data
  <2>2. \A d \in shown'.data : d.block = "core" =>
           coreActs' = d.core /\ shown'.page = "cores"
    BY <1>1, <1>8, <2>1 DEF ConsoleInv, ButtonsInv, ButtonsActOnTheShownCore
  <2>3. shown'.visit # visit'
    BY <1>8, <1>9
  <2> QED
    BY <1>1, <2>2, <2>3 DEF ConsoleInv, ButtonsInv, ButtonsActOnTheShownCore
<1> QED
  BY <1>9, <1>14, <1>15, <1>16 DEF ConsoleInv

LEMMA VisitBrowses ==
    ASSUME ConsoleInv, OfCache, NEW r, VisitSchemaBrowser(r) PROVE ConsoleInv'
<1> USE DEF OfCache, coreVars, cacheVars
<1>1. PICK a : a = AskOf("luke", r, visit + 1, {}, 0)
  OBVIOUS
<1>2. /\ RunRoute(r) /\ r.page = "schema-browser" /\ requests' = Sent({a})
      /\ schemaData' = {}
      /\ shown' = [page |-> "schema-browser", by |-> r, visit |-> visit + 1, data |-> {}]
      /\ UNCHANGED <<acts, coreActs, coresTemplate>>
  BY <1>1 DEF VisitSchemaBrowser, Ask, Drawn
<1>3. /\ r.page \notin {"loading", "no replication"} /\ r # ListRoute
      /\ PageOf(r) = "schema-browser"
  BY <1>2, ListRouteIs DEF PageOf
<1>4. AskedBy(a, r) /\ a.do = "luke"
  <2>1. "luke" \in Drawing
    BY DEF Drawing
  <2> QED
    BY <1>1, <1>2, <2>1, FirstAsked
<1>5. PICK new : new = {a}
  OBVIOUS
<1>6. Asked({}, new)
  BY <1>2, <1>5, SentAsks DEF ConsoleInv, ClosureInv
<1>7. \A b \in new : AskedBy(b, r)
  BY <1>4, <1>5
<1>8. /\ shown' = [page |-> shown'.page, by |-> shown'.by, visit |-> shown'.visit,
                   data |-> shown'.data]
      /\ shown'.page = PageOf(r) /\ shown'.by = r /\ shown'.visit = visit + 1
      /\ shown'.data = {}
  BY <1>2, <1>3
<1>9. /\ ClosureInv'
      /\ \A q \in InFlight' : q \in new \/ (q \in InFlight /\ q.visit # visit')
  BY <1>2, <1>3, <1>6, <1>7, <1>8, ClosureOpened
<1>10. route' = r /\ visit' = visit + 1
  BY <1>2, Ran
<1>11. \A q \in Mine' : q.do = "luke"
  BY <1>4, <1>5, <1>9 DEF Mine
<1>12. DrawnInv'
  BY <1>2, <1>3, <1>8, <1>10, <1>11 DEF DrawnInv, PageOf, ListRoute, CoreRoute
<1>13. DataInv' /\ ButtonsInv'
  BY <1>2, <1>8, <1>10
  DEF DataInv, ConsoleInv, ButtonsInv, ButtonsActOnTheShownCore
<1> QED
  BY <1>9, <1>12, <1>13 DEF ConsoleInv

LEMMA CacheVisits ==
    ASSUME ConsoleInv, OfCache, NEW r, CacheVisit(r) PROVE ConsoleInv'
<1> USE DEF OfCache, coreVars, cacheVars
<1>1. ASSUME RunRoute(r), r.page = "plugins", pluginData' = NoCore,
             requests' = Sent({Ask("mbeans", r, visit + 1)}), UNCHANGED <<shown, schemaData>>
      PROVE  ConsoleInv'
  <2>1. PICK a : a = AskOf("mbeans", r, visit + 1, {}, 0)
    OBVIOUS
  <2>2. requests' = Sent({a})
    BY <1>1, <2>1 DEF Ask
  <2>3. AskedBy(a, r) /\ a.do = "mbeans" /\ a.do \in Drawing
    <3>1. "mbeans" \in Drawing
      BY DEF Drawing
    <3> QED
      BY <1>1, <2>1, <3>1, FirstAsked
  <2>4. r # ListRoute
    BY <1>1, ListRouteIs
  <2>5. UNCHANGED <<shown, acts, coreActs, schemaData>>
    BY <1>1
  <2> QED
    BY <1>1, <2>2, <2>3, <2>4, <2>5, VisitAsks
<1>2. CASE VisitPlugins(r)
  BY <1>1, <1>2 DEF VisitPlugins
<1>3. CASE VisitPluginType(r) /\ pluginData = NoCore
  BY <1>1, <1>3 DEF VisitPluginType
<1>4. CASE VisitPluginType(r) /\ pluginData # NoCore
  BY <1>4, VisitRenders
<1>5. CASE VisitSchemaBrowser(r)
  BY <1>5, VisitBrowses
<1> QED
  BY <1>2, <1>3, <1>4, <1>5 DEF CacheVisit

-------------------------------------------------------------------------------
(***************************************************************************)
(* Every step of the console.                                              *)
(***************************************************************************)
LEMMA ConsoleStarts == ASSUME Init PROVE ConsoleInv
<1>1. PICK q : q = Ask("boot cores", NoRoute, 0)
  OBVIOUS
<1>2. /\ requests = SetToBag({q})
      /\ route = NoRoute /\ visit = 0 /\ timers = {}
      /\ shown = [page |-> "loading", by |-> NoRoute, visit |-> 0, data |-> {}]
      /\ coresTemplate = FALSE /\ schemaData = {} /\ DOMAIN acts = Live
  BY <1>1 DEF Init, ConsoleInit, PlainInit, CoreInit, CacheInit, Drawn
<1>3. IsABag(requests) /\ InFlight = {q}
  <2>1. requests = [e \in {q} |-> 1]
    BY <1>2 DEF SetToBag
  <2>2. DOMAIN requests = {q} /\ requests[q] = 1
    BY <2>1
  <2>3. requests \in [{q} -> {n \in Nat : n > 0}]
    BY <2>1
  <2> QED
    BY <2>2, <2>3 DEF IsABag, InFlight, BagToSet
<1>4. /\ q = AskOf(q.do, q.route, q.visit, q.cores, q.n)
      /\ q.visit = 0 /\ q.do = "boot cores"
  BY <1>1 DEF Ask, AskOf
<1>5. q.do \notin Tracked /\ Suits(q)
  BY <1>4 DEF Suits, Tracked, Drawing, PlainBlocks, Dashboard, Analysis, File, Cloud,
     Threads, LoggingLevel, JavaProperties, Index
<1>6. NoRoute.page = "none"
  BY DEF NoRoute, Route
<1>7. \A c \in Closures : c = <<visit, route>>
  <2>1. {<<p.visit, p.route>> : p \in {p \in InFlight : p.do \in Tracked}} = {}
    BY <1>3, <1>5
  <2>2. {<<t.visit, t.route>> : t \in {t \in timers : t.do = "status timer"}} = {}
    BY <1>2
  <2>3. <<shown.visit, shown.by>> = <<visit, route>>
    BY <1>2
  <2> QED
    BY <2>1, <2>2, <2>3 DEF Closures
<1>8. ClosureInv
  <2>1. visit \in Nat /\ \A c \in Closures : c[1] \in 0..visit
    BY <1>2, <1>7
  <2>2. \A a, b \in Closures : a[1] = b[1] => a[2] = b[2]
    BY <1>7
  <2>3. /\ shown = [page |-> shown.page, by |-> shown.by, visit |-> shown.visit,
                    data |-> shown.data]
        /\ shown.visit = visit /\ shown.page = "loading"
        /\ route.page \notin {"loading", "no replication"}
    BY <1>2, <1>6
  <2>4. /\ visit \in 0..visit
        /\ \A p \in InFlight : /\ p = AskOf(p.do, p.route, p.visit, p.cores, p.n)
                              /\ p.visit \in 0..visit
                              /\ Suits(p)
    <3>1. 0 \in 0..0
      OBVIOUS
    <3>2. visit \in 0..visit /\ q.visit \in 0..visit
      BY <1>2, <1>4, <3>1, Zenon
    <3>3. \A p \in InFlight : p = q
      BY <1>3
    <3> QED
      BY <1>4, <1>5, <3>2, <3>3
  <2> QED
    BY <1>3, <2>1, <2>2, <2>3, <2>4 DEF ClosureInv
<1>9. DrawnInv
  BY <1>2, <1>6 DEF DrawnInv
<1>10. DataInv /\ ButtonsInv
  <2>1. shown.data = {}
    BY <1>2
  <2> QED
    BY <1>2, <1>6, <2>1 DEF DataInv, ButtonsInv, ButtonsActOnTheShownCore
<1> QED
  BY <1>8, <1>9, <1>10 DEF ConsoleInv

LEMMA VisitStep == ASSUME ConsoleInv, Visit PROVE ConsoleInv'
BY PlainVisits, CoreVisits, CacheVisits, OtherVisits DEF Visit

LEMMA AnswerStep ==
    ASSUME ConsoleInv, NEW q \in InFlight, Answered(q) PROVE ConsoleInv'
<1>1. CASE (BootCores(q) \/ BootSystem(q)) /\ UNCHANGED pageVars
  BY <1>1, FrameStep
<1>2. CASE PlainAnswer(q) /\ OfPlain
  BY <1>2, PlainDraws, PlainFills, PlainAside DEF PlainAnswer
<1>3. CASE CoreAnswer(q) /\ OfCore
  BY <1>3, CoreListGathers, CoreDataStep, CoreTemplateDraws, CoreAside DEF CoreAnswer
<1>4. CASE CacheAnswer(q) /\ OfCache
  BY <1>4, CacheGathers, PluginsDraws, SchemaDraws DEF CacheAnswer
<1>5. CASE ImportAnswer(q) /\ OfImport
  BY <1>5, ImportAnswers, ImportAside DEF ImportAnswer
<1>6. CASE LoggingAnswer(q) /\ OfLogging
  BY <1>6, LoggingDraws, LoggingAside DEF LoggingAnswer
<1>7. CASE ReplicationAnswer(q) /\ OfReplication
  BY <1>7, ReplicationAnswers, ReplicationAside DEF ReplicationAnswer
<1> QED
  BY <1>1, <1>2, <1>3, <1>4, <1>5, <1>6, <1>7 DEF Answered

LEMMA FailStep ==
    ASSUME ConsoleInv, NEW q \in InFlight, Failed(q) PROVE ConsoleInv'
<1>1. CASE BootFails(q) /\ UNCHANGED pageVars
  BY <1>1, FrameStep
<1>2. CASE ImportFails(q) /\ OfImport
  BY <1>2, ImportAside
<1>3. CASE DetailsFail(q) /\ OfReplication
  BY <1>3, ReplicationAnswers
<1>4. CASE Unhandled(q) /\ Fail(q) /\ UNCHANGED pageVars
  BY <1>4, FrameStep
<1> QED
  BY <1>1, <1>2, <1>3, <1>4 DEF Failed

LEMMA TimerStep ==
    ASSUME ConsoleInv, NEW t \in timers, Fired(t) PROVE ConsoleInv'
BY ImportAside, LoggingAside, ReplicationAside
DEF Fired, ImportTimer, LoggingTimer, ReplicationTimer

LEMMA PressStep == ASSUME ConsoleInv, Pressed PROVE ConsoleInv'
BY PlainAside, CoreAside, ImportAside, ReplicationAside DEF Pressed

LEMMA ConsoleStep == ASSUME ConsoleInv, [Next]_vars PROVE ConsoleInv'
<1>1. CASE UNCHANGED vars
  BY <1>1, AsideWhenKept DEF vars, consoleVars, pageVars, clock, place, coreVars,
     cacheVars, DrawVars
<1>2. CASE \E r \in family.routes : Move(r) /\ UNCHANGED <<pageVars, connectionVars>>
  BY <1>2, FrameStep
<1>3. CASE NoNewRoute /\ UNCHANGED <<pageVars, connectionVars>>
  BY <1>3, FrameStep
<1>4. CASE Visit
  BY <1>4, VisitStep
<1>5. CASE \E q \in InFlight : Answered(q) \/ Failed(q)
  BY <1>5, AnswerStep, FailStep
<1>6. CASE \E t \in timers : Fired(t)
  BY <1>6, TimerStep
<1>7. CASE Pressed
  BY <1>7, PressStep
<1>8. CASE LogEvent /\ OfLogging /\ UNCHANGED connectionVars
  BY <1>8, LoggingAside
<1>9. CASE ~due /\ ConnectionNext /\ UNCHANGED <<consoleVars, pageVars>>
  BY <1>9, AsideWhenKept DEF consoleVars, pageVars, clock, place, coreVars, cacheVars,
     DrawVars
<1> QED
  BY <1>1, <1>2, <1>3, <1>4, <1>5, <1>6, <1>7, <1>8, <1>9 DEF Next

(***************************************************************************)
(* The location only ever changes to that of a page.                       *)
(***************************************************************************)
Elsewhere == address' = address \/ address'.page # "none"

LEMMA RedirectedElsewhere ==
    ASSUME NEW from, NEW to, Redirect(from, to), to.page # "none" PROVE Elsewhere
BY DEF Redirect, Elsewhere

LEMMA AnswersElsewhere == ASSUME NEW q, Answered(q) PROVE Elsewhere
<1> USE DEF Elsewhere, place
<1>1. \A c : CoreRoute(c).page = "cores"
  BY DEF CoreRoute, Route
<1>2. CASE BootCores(q) \/ BootSystem(q)
  BY <1>2 DEF BootCores, BootSystem
<1>3. CASE PlainAnswer(q)
  BY <1>3 DEF PlainAnswer, Template, PlainData, CommandDone
<1>4. CASE CoreList(q)
  <2>1. PICK c : Redirect(q.route, CoreRoute(c))
    BY <1>4 DEF CoreList
  <2> QED
    BY <1>1, <2>1, RedirectedElsewhere
<1>5. CASE CoreData(q) \/ CoreTemplate(q) \/ Execute(q)
  BY <1>5 DEF CoreData, CoreTemplate, Execute
<1>6. CASE Executed(q)
  <2>1. CASE \E c : Redirect(q.route, CoreRoute(c))
    BY <1>1, <2>1, RedirectedElsewhere
  <2>2. CASE Refresh \/ UNCHANGED place
    BY <2>2 DEF Refresh
  <2> QED
    BY <1>6, <2>1, <2>2 DEF Executed, ListRoute
<1>7. CASE PluginsTemplate(q)
  <2>1. \A c, type : PluginsRoute(c, type).page = "plugins"
    BY DEF PluginsRoute, Route
  <2> QED
    BY <1>7, <2>1, RedirectedElsewhere DEF PluginsTemplate
<1>8. CASE CacheAnswer(q) /\ ~PluginsTemplate(q)
  BY <1>8 DEF CacheAnswer, Mbeans, Luke, Schema, SchemaTemplate
<1>9. CASE FindHandlers(q)
  <2>1. \A c, handler : ImportRoute(c, handler).page = "dataimport"
    BY DEF ImportRoute, Route
  <2> QED
    BY <1>9, <2>1, RedirectedElsewhere DEF FindHandlers
<1>10. CASE ImportAnswer(q) /\ ~FindHandlers(q)
  BY <1>10 DEF ImportAnswer, ImportTemplate, Status, ImportDone
<1>11. CASE LoggingAnswer(q) \/ ReplicationAnswer(q)
  BY <1>11 DEF LoggingAnswer, LoggingTemplate, Log, ReplicationAnswer,
     ReplicationTemplate, Details, Replicate
<1> QED
  BY <1>2, <1>3, <1>4, <1>5, <1>6, <1>7, <1>8, <1>9, <1>10, <1>11
  DEF Answered, CoreAnswer

LEMMA FramesElsewhere ==
    ASSUME [Next]_vars,
           ~ \E r \in family.routes : Move(r),
           ~ \E q \in InFlight : Answered(q)
    PROVE  Elsewhere
<1> USE DEF Elsewhere, place
<1>1. CASE UNCHANGED vars
  BY <1>1 DEF vars, consoleVars
<1>2. CASE NoNewRoute
  BY <1>2 DEF NoNewRoute, LocationChanged
<1>3. CASE Visit
  <2>1. RunRoute(address)
    BY <1>3 DEF Visit, PlainVisit, VisitTemplated, VisitFramed, CoreVisit, VisitCoreList,
       VisitCore, CacheVisit, VisitPlugins, VisitPluginType, VisitSchemaBrowser,
       ImportVisit, VisitImports, VisitImport, LoggingVisit, VisitLogging,
       ReplicationVisit, VisitReplication
  <2> QED
    BY <2>1 DEF RunRoute, LocationChanged
<1>4. CASE \E q \in InFlight : Failed(q)
  BY <1>4 DEF Failed, BootFails, ImportFails, DetailsFail, Fail
<1>5. CASE \E t \in timers : Fired(t)
  BY <1>5 DEF Fired, ImportTimer, StatusTimer, LoggingTimer, LogTimer, ReplicationTimer,
     Tick, Refetch
<1>6. CASE Pressed
  BY <1>6 DEF Pressed, PlainPress, PressLive, CorePress, PressButton, SubmitForm,
     ImportPress, PressImport, ToggleAutorefresh, ReplicationPress, PressRefresh,
     PressCommand
<1>7. CASE LogEvent
  BY <1>7 DEF LogEvent
<1>8. CASE UNCHANGED <<consoleVars, pageVars>>
  BY <1>8 DEF consoleVars
<1> QED
  BY <1>1, <1>2, <1>3, <1>4, <1>5, <1>6, <1>7, <1>8 DEF Next

LEMMA FamilyKept == ASSUME [Next]_vars PROVE family' = family
<1> USE DEF user
<1>1. CASE UNCHANGED vars \/ UNCHANGED <<consoleVars, pageVars>>
  BY <1>1 DEF vars, consoleVars
<1>2. CASE NoNewRoute \/ \E r \in family.routes : Move(r)
  BY <1>2 DEF NoNewRoute, LocationChanged, Move
<1>3. CASE Visit
  <2>1. RunRoute(address)
    BY <1>3 DEF Visit, PlainVisit, VisitTemplated, VisitFramed, CoreVisit, VisitCoreList,
       VisitCore, CacheVisit, VisitPlugins, VisitPluginType, VisitSchemaBrowser,
       ImportVisit, VisitImports, VisitImport, LoggingVisit, VisitLogging,
       ReplicationVisit, VisitReplication
  <2> QED
    BY <2>1 DEF RunRoute, LocationChanged
<1>4. ASSUME NEW q, Answered(q) PROVE family' = family
  <2>1. CASE BootCores(q) \/ BootSystem(q) \/ PlainAnswer(q)
    BY <2>1 DEF BootCores, BootSystem, PlainAnswer, Template, PlainData, CommandDone
  <2>2. CASE CoreAnswer(q) \/ CacheAnswer(q)
    BY <2>2 DEF CoreAnswer, CoreList, CoreData, CoreTemplate, Execute, Executed,
       CacheAnswer, Mbeans, PluginsTemplate, Luke, Schema, SchemaTemplate
  <2>3. CASE ImportAnswer(q) \/ LoggingAnswer(q) \/ ReplicationAnswer(q)
    BY <2>3 DEF ImportAnswer, FindHandlers, ImportTemplate, Status, ImportDone,
       LoggingAnswer, LoggingTemplate, Log, ReplicationAnswer, ReplicationTemplate,
       Details, Replicate
  <2> QED
    BY <1>4, <2>1, <2>2, <2>3 DEF Answered
<1>5. CASE \E q \in InFlight : Failed(q)
  BY <1>5 DEF Failed, BootFails, ImportFails, DetailsFail, Fail
<1>6. CASE \E t \in timers : Fired(t)
  BY <1>6 DEF Fired, ImportTimer, StatusTimer, LoggingTimer, LogTimer, ReplicationTimer,
     Tick, Refetch
<1>7. CASE Pressed
  BY <1>7 DEF Pressed, PlainPress, PressLive, CorePress, PressButton, SubmitForm,
     ImportPress, PressImport, ToggleAutorefresh, ReplicationPress, PressRefresh,
     PressCommand, Press
<1>8. CASE LogEvent
  BY <1>8 DEF LogEvent
<1> QED
  BY <1>1, <1>2, <1>3, <1>4, <1>5, <1>6, <1>7, <1>8 DEF Next

LEMMA PlaceStep == ASSUME PlaceInv, [Next]_vars PROVE PlaceInv'
<1>1. family' = family
  BY FamilyKept
<1>2. ASSUME NEW r \in family.routes, Move(r) PROVE address'.page # "none"
  BY <1>2, RoutesAssumption DEF PlaceInv, Move
<1>3. (\E q \in InFlight : Answered(q)) => Elsewhere
  BY AnswersElsewhere
<1>4. Elsewhere \/ \E r \in family.routes : Move(r)
  BY <1>3, FramesElsewhere
<1> QED
  BY <1>1, <1>2, <1>4 DEF PlaceInv, Elsewhere

LEMMA PagesHold == Spec => []PagesInv
<1>1. Init => PagesInv
  <2>1. Init => PlaceInv
    BY RoutesAssumption DEF Init, ConsoleInit, PlaceInv
  <2> QED
    BY <2>1, ConsoleStarts DEF PagesInv
<1>2. PagesInv /\ [Next]_vars => PagesInv'
  BY ConsoleStep, PlaceStep DEF PagesInv
<1> QED
  BY <1>1, <1>2, PTL DEF Spec

(***************************************************************************)
(* When everything a visit asked for has come, nothing of it is in flight  *)
(* that draws, and the route is none of the two that draw nothing.         *)
(***************************************************************************)
LEMMA SettledVisit ==
    ASSUME PagesInv, Settled, ~Redirecting(route)
    PROVE  Mine = {} /\ route # NoRoute /\ ~HandsOver(route)
<1>1. Mine = {}
  BY DEF Settled, Mine
<1>2. route # NoRoute
  BY DEF PagesInv, PlaceInv, Settled, NoRoute, Route
<1>3. ~HandsOver(route)
  BY DEF Redirecting, HandsOver
<1> QED
  BY <1>1, <1>2, <1>3

(***************************************************************************)
(* However the user has moved before, a visit whose answers have come      *)
(* shows its own page, unless a late template was drawn over it, an answer *)
(* was lost or what it draws from was cached (the callbacks of             *)
(* scripts/*.js and the before hook of app.js).                            *)
(***************************************************************************)
THEOREM RoutesAreDrawn == Spec => []RouteIsDrawn
<1>1. PagesInv => RouteIsDrawn
  <2>1. SUFFICES ASSUME PagesInv, Settled, ~Redirecting(route), Undrawn
                 PROVE  shown.page = PageOf(route)
    BY DEF RouteIsDrawn, Undrawn
  <2> QED
    BY <2>1, SettledVisit DEF PagesInv, ConsoleInv, DrawnInv
<1> QED
  BY <1>1, PagesHold, PTL

(***************************************************************************)
(* What a settled page shows is of the core of its route, and its buttons  *)
(* act on the core whose data are shown beside them.                       *)
(***************************************************************************)
THEOREM CoresAreNotMixed == Spec => []PagesAreOfTheCore
<1>1. ASSUME PagesInv PROVE DataIsOfTheCore
  <2>1. SUFFICES ASSUME Settled, ~Redirecting(route), Unmixed
                 PROVE  \A d \in shown.data : d.core = CoreOf(route)
    BY DEF DataIsOfTheCore, Unmixed, Mixing
  <2>2. Mine = {} /\ route # NoRoute /\ ~HandsOver(route)
    BY <1>1, <2>1, SettledVisit
  <2>3. shown.page = PageOf(route)
    BY <1>1, <2>1, <2>2, Disturbs DEF PagesInv, ConsoleInv, DrawnInv
  <2> QED
    BY <1>1, <2>1, <2>2, <2>3 DEF PagesInv, ConsoleInv, DataInv
<1>2. PagesInv => ButtonsActOnTheShownCore
  BY DEF PagesInv, ConsoleInv, ButtonsInv
<1>3. PagesInv => PagesAreOfTheCore
  BY <1>1, <1>2 DEF PagesAreOfTheCore
<1> QED
  BY <1>3, PagesHold, PTL

-------------------------------------------------------------------------------
(* The pages that refresh themselves: the status of an import and the log.   *)

Ids == {t.id : t \in timers}

(***************************************************************************)
(* No two timers have one handle, a handle somebody holds is not given     *)
(* away, and timer_timeout is never that of another page's timer.          *)
(***************************************************************************)
FreshTimers ==
    /\ IsFiniteSet(Ids)
    /\ timeout \in Nat
    /\ ticker \in Nat
    /\ \A t \in timers : /\ t.id \in Nat \ {0}
                         /\ t.visit \in 0..visit
                         /\ t.id = ticker => t.do = "tick"
    /\ \A t, u \in timers : t.id = u.id => t = u

(***************************************************************************)
(* What the status of an import is asked for by.                           *)
(***************************************************************************)
OfImports == {"status", "import", "abort"}
Polls == {t \in timers : t.do = "status timer" /\ t.visit = visit}

ImportsOfThePage ==
    /\ \A q \in InFlight : q.do \in OfImports /\ q.visit = visit => route.page = "dataimport"
    /\ \A t \in Polls : route.page = "dataimport"

LateForPolls == {"status", "status timer", "log", "log timer", "logging template"}

Unhindered == upset \cap Disturbances(LateForPolls, {"status", "timer"}) = {}

(***************************************************************************)
(* app.timeout of an unhindered visit is that of its own timer, the log    *)
(* sets it on its own page only, and a page that refreshes has its timer   *)
(* set or the status asked for.                                            *)
(***************************************************************************)
PollInv ==
    Unhindered =>
      /\ \A t \in Polls : t.id = timeout
      /\ route.page # "logging" /\ timeout # 0 => Polls # {}
      /\ \A q \in InFlight : q.do = "log" /\ q.visit = visit => route.page = "logging"
      /\ \A t \in timers : t.do = "log timer" /\ t.visit = visit => route.page = "logging"
      /\ shown.page = "dataimport" /\ shown.visit = visit /\ visit \in autorefresh
            => \/ Polls # {}
               \/ \E q \in InFlight : q.do = "status" /\ q.visit = visit

(***************************************************************************)
(* What the log of the present visit goes on by: its template, a request   *)
(* or a timer, one of them and once.                                       *)
(***************************************************************************)
Loggers == {q \in InFlight : q.do \in {"logging template", "log"} /\ q.visit = visit}
Viewers == {t \in timers : t.do = "log timer" /\ t.visit = visit}

LateForLogs == {"log", "log timer", "logging template"}

Alone == upset \cap Disturbances(LateForLogs, {}) = {}

LogInv ==
    /\ log \in Nat /\ latest \in Nat
    /\ \A q \in InFlight : q.do = "log" => q.n \in Nat
    /\ Alone =>
         /\ \A p, q \in Loggers : p = q /\ requests[p] = 1
         /\ \A t, u \in Viewers : t = u
         /\ Loggers = {} \/ Viewers = {}
         /\ \A q \in Loggers : q.do = "log" => q.n = latest
         /\ shown.page = "logging" /\ shown.visit = visit => rows = Events(0, latest)

RefreshInv == FreshTimers /\ ImportsOfThePage /\ PollInv /\ LogInv

(***************************************************************************)
(* The handle of a new timer is a number nobody holds.                     *)
(***************************************************************************)
LEMMA HandleIsFree ==
    ASSUME IsFiniteSet(Ids) PROVE FreeHandle \in Nat \ {0} /\ FreeHandle \notin Handles
<1> DEFINE n == Cardinality(Handles)
<1>1. Handles = (Ids \cup {timeout}) \cup {ticker}
  BY DEF Handles, Ids
<1>2. IsFiniteSet(Handles)
  BY <1>1, FS_AddElement
<1>3. n \in Nat
  BY <1>2, FS_CardinalityType
<1> HIDE DEF n
<1>4. Cardinality(1..(n + 1)) = n + 1
  BY <1>3, FS_Interval
<1>5. \E i \in 1..(n + 1) : i \notin Handles
  <2>1. SUFFICES ASSUME 1..(n + 1) \subseteq Handles PROVE FALSE
    OBVIOUS
  <2>2. Cardinality(1..(n + 1)) <= Cardinality(Handles)
    BY <1>2, <2>1, FS_Subset
  <2> QED
    BY <1>3, <1>4, <2>2 DEF n
<1>6. FreeHandle \in 1..(n + 1) /\ FreeHandle \notin Handles
  BY <1>5 DEF FreeHandle, n
<1> QED
  BY <1>3, <1>6

LEMMA FreshKept ==
    ASSUME FreshTimers, visit \in Nat, visit' \in Nat, visit <= visit',
           timers' \subseteq timers, timeout' \in {0, timeout}, ticker' = ticker
    PROVE  FreshTimers'
<1>1. Ids' \subseteq Ids
  BY DEF Ids
<1>2. IsFiniteSet(Ids')
  BY <1>1, FS_Subset DEF FreshTimers
<1> QED
  BY <1>2 DEF FreshTimers

LEMMA FreshFewer ==
    ASSUME FreshTimers, visit \in Nat, visit' = visit,
           timers' \subseteq timers, timeout' \in {0, timeout}, ticker' = ticker
    PROVE  FreshTimers'
<1>1. visit' \in Nat /\ visit <= visit'
  OBVIOUS
<1> QED
  BY <1>1, FreshKept

LEMMA FreshAdded ==
    ASSUME FreshTimers, visit \in Nat, visit' = visit,
           NEW others \in SUBSET timers,
           NEW do, NEW r, NEW v \in 0..visit, NEW n,
           timers' = others \cup {Timer(FreeHandle, do, r, v, n)},
           \/ timeout' \in {timeout, FreeHandle} /\ ticker' = ticker
           \/ timeout' = timeout /\ ticker' = FreeHandle /\ do = "tick"
    PROVE  FreshTimers'
<1>1. PICK id : id = FreeHandle
  OBVIOUS
<1>2. id \in Nat \ {0} /\ id \notin Handles
  BY <1>1, HandleIsFree DEF FreshTimers
<1>3. PICK u : u = Timer(id, do, r, v, n)
  OBVIOUS
<1>4. timers' = others \cup {u} /\ u.id = id /\ u.do = do /\ u.visit = v
  BY <1>1, <1>3 DEF Timer
<1>5. id # ticker /\ \A t \in timers : t.id # id
  BY <1>2 DEF Handles
<1>6. IsFiniteSet(Ids')
  <2>1. Ids' \subseteq Ids \cup {id}
    BY <1>4 DEF Ids
  <2>2. IsFiniteSet(Ids \cup {id})
    BY FS_AddElement DEF FreshTimers
  <2> QED
    BY <2>1, <2>2, FS_Subset
<1>7. timeout' \in Nat /\ ticker' \in Nat
  BY <1>1, <1>2 DEF FreshTimers
<1>8. ASSUME NEW t \in timers'
      PROVE  /\ t.id \in Nat \ {0}
             /\ t.visit \in 0..visit'
             /\ t.id = ticker' => t.do = "tick"
  <2>1. CASE t \in others
    BY <1>1, <1>5, <2>1 DEF FreshTimers
  <2>2. CASE t = u
    BY <1>1, <1>2, <1>4, <1>5, <2>2
  <2> QED
    BY <1>4, <2>1, <2>2
<1>9. \A t, w \in timers' : t.id = w.id => t = w
  BY <1>4, <1>5 DEF FreshTimers
<1> QED
  BY <1>6, <1>7, <1>8, <1>9 DEF FreshTimers

(***************************************************************************)
(* How often a request is in flight.                                       *)
(***************************************************************************)
LEMMA SentCounts ==
    ASSUME IsABag(requests), NEW new, requests' = Sent(new)
    PROVE  \A p \in InFlight' :
              /\ p \in new \/ (p \in InFlight /\ requests'[p] = requests[p])
              /\ p \notin InFlight => requests'[p] = 1
<1> DEFINE more == SetToBag(new)
<1>1. more = [e \in new |-> 1]
  BY DEF SetToBag
<1>2. requests \in [DOMAIN requests -> {n \in Nat : n > 0}]
  BY DEF IsABag
<1>3. requests' = [e \in DOMAIN requests \cup new |->
                     (IF e \in DOMAIN requests THEN requests[e] ELSE 0)
                       + (IF e \in new THEN 1 ELSE 0)]
  BY <1>1 DEF Sent, (+)
<1> HIDE DEF more
<1>4. DOMAIN requests' = DOMAIN requests \cup new
  BY <1>3
<1>5. ASSUME NEW p \in DOMAIN requests'
      PROVE  /\ p \in new \/ (p \in DOMAIN requests /\ requests'[p] = requests[p])
             /\ p \notin DOMAIN requests => requests'[p] = 1
  BY <1>2, <1>3, <1>4
<1> QED
  BY <1>5 DEF InFlight, BagToSet

LEMMA ExchangedCounts ==
    ASSUME IsABag(requests), NEW q \in InFlight, NEW new, requests' = Exchanged(q, new)
    PROVE  /\ \A p \in InFlight' :
                 /\ p \in new \/ (p \in InFlight /\ requests'[p] <= requests[p])
                 /\ p \notin InFlight => requests'[p] = 1
           /\ \A p \in InFlight : p # q => p \in InFlight'
           /\ requests[q] = 1 /\ q \notin new => q \notin InFlight'
<1> DEFINE rest == requests (-) SetToBag({q})
           left == [e \in DOMAIN requests |->
                      IF e \in {q} THEN requests[e] - 1 ELSE requests[e]]
<1>1. requests \in [DOMAIN requests -> {n \in Nat : n > 0}]
  BY DEF IsABag
<1>2. SetToBag({q}) = [e \in {q} |-> 1]
  BY DEF SetToBag
<1>3. rest = [e \in {d \in DOMAIN left : left[d] > 0} |-> left[e]]
  BY <1>2 DEF (-)
<1>4. DOMAIN rest \subseteq DOMAIN requests
  BY <1>3
<1>5. \A e \in DOMAIN requests : e # q => e \in DOMAIN rest
  BY <1>1, <1>3
<1>6. \A e \in DOMAIN rest : rest[e] \in Nat /\ rest[e] <= requests[e]
  <2>1. \A e \in DOMAIN left : left[e] \in Int /\ left[e] <= requests[e]
    BY <1>1
  <2>2. \A e \in DOMAIN rest : e \in DOMAIN left /\ left[e] > 0 /\ rest[e] = left[e]
    BY <1>3
  <2> HIDE DEF rest, left
  <2> QED
    BY <2>1, <2>2
<1>7. requests[q] = 1 => q \notin DOMAIN rest
  <2>1. ASSUME requests[q] = 1, q \in DOMAIN left PROVE ~(left[q] > 0)
    BY <2>1
  <2>2. \A e \in DOMAIN rest : e \in DOMAIN left /\ left[e] > 0
    BY <1>3
  <2> HIDE DEF rest, left
  <2> QED
    BY <2>1, <2>2
<1>8. requests' = rest (+) SetToBag(new)
  BY DEF Exchanged
<1> HIDE DEF rest, left
<1>9. SetToBag(new) = [e \in new |-> 1]
  BY DEF SetToBag
<1>10. requests' = [e \in DOMAIN rest \cup new |->
                     (IF e \in DOMAIN rest THEN rest[e] ELSE 0)
                       + (IF e \in new THEN 1 ELSE 0)]
  BY <1>8, <1>9 DEF (+)
<1>11. DOMAIN requests' = DOMAIN rest \cup new
  BY <1>10
<1>12. ASSUME NEW p \in DOMAIN requests'
       PROVE  /\ p \in new \/ (p \in DOMAIN requests /\ requests'[p] <= requests[p])
              /\ p \notin DOMAIN requests => requests'[p] = 1
  BY <1>4, <1>6, <1>10, <1>11
<1>13. InFlight = DOMAIN requests /\ InFlight' = DOMAIN requests'
  BY DEF InFlight, BagToSet
<1>14. \A p \in InFlight : p # q => p \in InFlight'
  BY <1>5, <1>11, <1>13
<1>15. requests[q] = 1 /\ q \notin new => q \notin InFlight'
  BY <1>7, <1>11, <1>13
<1> QED
  BY <1>12, <1>13, <1>14, <1>15

LEMMA LateForBoth == LateForLogs \subseteq LateForPolls
BY DEF LateForLogs, LateForPolls

LEMMA DisturbancesGrow ==
    ASSUME NEW late, NEW lost, NEW more, late \subseteq more
    PROVE  Disturbances(late, {}) \subseteq Disturbances(more, lost)
BY DEF Disturbances

LEMMA Hinders == Unhindered => Alone
BY LateForBoth, DisturbancesGrow DEF Unhindered, Alone

LEMMA HindersNext ==
    /\ \A do \in LateForPolls : <<"late", do>> \in upset' => ~Unhindered'
    /\ \A do \in {"status", "timer"} : <<"lost", do>> \in upset' => ~Unhindered'
    /\ \A do \in LateForLogs : <<"late", do>> \in upset' => ~Alone' /\ ~Unhindered'
BY LateForBoth, DisturbancesAre DEF Unhindered, Alone

LEMMA StaysHindered ==
    ASSUME upset \subseteq upset' PROVE (Unhindered' => Unhindered) /\ (Alone' => Alone)
BY DEF Unhindered, Alone, Disturbances

(***************************************************************************)
(* The log, in a step that asks for nothing of it and draws no page of it. *)
(***************************************************************************)
LogRests ==
    /\ UNCHANGED <<visit, rows, latest>>
    /\ log' \in {log, log + 1}
    /\ upset \subseteq upset'
    /\ \A p \in InFlight' : p.do \in {"logging template", "log"} =>
          p \in InFlight /\ requests'[p] <= requests[p]
    /\ \A t \in timers' : t.do = "log timer" => t \in timers
    /\ shown'.page = "logging" /\ shown'.visit = visit =>
          shown.page = "logging" /\ shown.visit = visit

LEMMA CountsArePositive ==
    ASSUME NEW bag, IsABag(bag), NEW p \in BagToSet(bag)
    PROVE  bag[p] \in Nat /\ bag[p] <= bag[p] /\ (bag[p] <= 1 => bag[p] = 1)
<1>1. bag[p] \in Nat /\ bag[p] > 0
  BY DEF IsABag, BagToSet
<1> QED
  BY <1>1

LEMMA LogKept ==
    ASSUME LogInv, LogRests, IsABag(requests)' PROVE LogInv'
<1>1. Loggers' \subseteq Loggers /\ Viewers' \subseteq Viewers
  BY DEF LogRests, Loggers, Viewers
<1>2. log' \in Nat /\ latest' \in Nat /\ \A q \in InFlight' : q.do = "log" => q.n \in Nat
  <2>1. \A q \in InFlight' : q.do = "log" => q \in InFlight
    BY DEF LogRests
  <2>2. log \in Nat /\ latest \in Nat
    BY DEF LogInv
  <2>3. (log' = log \/ log' = log + 1) /\ latest' = latest
    BY DEF LogRests
  <2>4. log' \in Nat /\ latest' \in Nat
    BY <2>2, <2>3
  <2> QED
    BY <2>1, <2>4 DEF LogInv
<1>3. SUFFICES ASSUME Alone'
               PROVE  /\ \A p, q \in Loggers' : p = q /\ requests'[p] = 1
                      /\ \A t, u \in Viewers' : t = u
                      /\ Loggers' = {} \/ Viewers' = {}
                      /\ \A q \in Loggers' : q.do = "log" => q.n = latest'
                      /\ shown'.page = "logging" /\ shown'.visit = visit' =>
                            rows' = Events(0, latest')
  BY <1>2 DEF LogInv
<1>4. Alone
  BY <1>3, StaysHindered DEF LogRests
<1>5. ASSUME NEW p \in Loggers' PROVE requests'[p] = 1
  <2>1. p \in Loggers /\ requests'[p] <= requests[p] /\ p \in BagToSet(requests')
    BY <1>1, <1>5 DEF LogRests, Loggers, InFlight
  <2>2. requests'[p] <= 1
    BY <1>4, <2>1 DEF LogInv
  <2> QED
    BY <2>1, <2>2, CountsArePositive
<1>6. \A p, q \in Loggers' : p = q
  BY <1>1, <1>4 DEF LogInv
<1>7. (\A t, u \in Viewers' : t = u) /\ (Loggers' = {} \/ Viewers' = {})
  BY <1>1, <1>4 DEF LogInv
<1>8. \A q \in Loggers' : q.do = "log" => q.n = latest'
  BY <1>1, <1>4 DEF LogInv, LogRests
<1>9. shown'.page = "logging" /\ shown'.visit = visit' => rows' = Events(0, latest')
  BY <1>4 DEF LogInv, LogRests
<1> QED
  BY <1>5, <1>6, <1>7, <1>8, <1>9

(***************************************************************************)
(* The polling, in a step that leaves app.timeout alone and draws no page  *)
(* of an import without asking for the status.                             *)
(***************************************************************************)
PollsRest ==
    /\ UNCHANGED <<route, visit, timeout>>
    /\ upset \subseteq upset'
    /\ \A p \in InFlight' : p.do \in OfImports \cup {"log"} =>
          \/ p \in InFlight
          \/ p.do \in OfImports /\ (p.visit = visit => route.page = "dataimport")
    /\ \A p \in InFlight : p.do = "status" /\ p.visit = visit =>
          p \in InFlight' \/ <<"lost", "status">> \in upset'
    /\ \A t \in timers : t.do = "status timer" => t \in timers'
    /\ \A t \in timers' : t.do \in {"status timer", "log timer"} => t \in timers
    /\ shown'.page = "dataimport" /\ shown'.visit = visit /\ visit \in autorefresh' =>
          \/ shown.page = "dataimport" /\ shown.visit = visit /\ visit \in autorefresh
          \/ \E p \in InFlight' : p.do = "status" /\ p.visit = visit

LEMMA PollsKept ==
    ASSUME ImportsOfThePage, PollInv, PollsRest PROVE ImportsOfThePage' /\ PollInv'
<1>1. Polls' = Polls
  BY DEF Polls, PollsRest
<1>2. ImportsOfThePage'
  BY <1>1 DEF ImportsOfThePage, PollsRest
<1>3. SUFFICES ASSUME Unhindered'
               PROVE  /\ \A t \in Polls' : t.id = timeout'
                      /\ route'.page # "logging" /\ timeout' # 0 => Polls' # {}
                      /\ \A q \in InFlight' : q.do = "log" /\ q.visit = visit' =>
                            route'.page = "logging"
                      /\ \A t \in timers' : t.do = "log timer" /\ t.visit = visit' =>
                            route'.page = "logging"
                      /\ shown'.page = "dataimport" /\ shown'.visit = visit'
                         /\ visit' \in autorefresh'
                            => \/ Polls' # {}
                               \/ \E q \in InFlight' : q.do = "status" /\ q.visit = visit'
  BY <1>2 DEF PollInv
<1>4. Unhindered
  BY <1>3, StaysHindered DEF PollsRest
<1>5. /\ \A t \in Polls' : t.id = timeout'
      /\ route'.page # "logging" /\ timeout' # 0 => Polls' # {}
  BY <1>1, <1>4 DEF PollInv, PollsRest
<1>6. \A q \in InFlight' : q.do = "log" /\ q.visit = visit' => route'.page = "logging"
  BY <1>4 DEF PollInv, PollsRest, OfImports
<1>7. \A t \in timers' : t.do = "log timer" /\ t.visit = visit' => route'.page = "logging"
  BY <1>4 DEF PollInv, PollsRest
<1>8. ASSUME shown'.page = "dataimport", shown'.visit = visit', visit' \in autorefresh'
      PROVE  Polls' # {} \/ \E q \in InFlight' : q.do = "status" /\ q.visit = visit'
  <2>1. CASE \E p \in InFlight' : p.do = "status" /\ p.visit = visit
    BY <2>1 DEF PollsRest
  <2>2. CASE shown.page = "dataimport" /\ shown.visit = visit /\ visit \in autorefresh
    <3>1. Polls # {} \/ \E q \in InFlight : q.do = "status" /\ q.visit = visit
      BY <1>4, <2>2 DEF PollInv
    <3>2. <<"lost", "status">> \notin upset'
      BY <1>3, HindersNext
    <3> QED
      BY <1>1, <3>1, <3>2 DEF PollsRest
  <2> QED
    BY <1>8, <2>1, <2>2 DEF PollsRest
<1> QED
  BY <1>5, <1>6, <1>7, <1>8

(***************************************************************************)
(* Most steps of the console are none of these pages' business: what they  *)
(* ask for, and what they do to the page that is shown.                    *)
(***************************************************************************)
AsksBesides ==
    /\ \A p \in InFlight' : p.do \in OfImports \cup {"logging template", "log"} =>
          \/ p \in InFlight /\ requests'[p] <= requests[p]
          \/ p.do \in OfImports /\ (p.visit = visit => route.page = "dataimport")
    /\ \A p \in InFlight : p.do = "status" /\ p.visit = visit =>
          p \in InFlight' \/ <<"lost", "status">> \in upset'

ShowsBesides ==
    /\ shown'.page = "logging" /\ shown'.visit = visit =>
          shown.page = "logging" /\ shown.visit = visit
    /\ shown'.page = "dataimport" /\ shown'.visit = visit /\ visit \in autorefresh' =>
          \/ shown.page = "dataimport" /\ shown.visit = visit /\ visit \in autorefresh
          \/ \E p \in InFlight' : p.do = "status" /\ p.visit = visit

TimersBesides ==
    /\ timeout' = timeout
    /\ \A t \in timers : t.do = "status timer" => t \in timers'
    /\ \A t \in timers' : t.do \in {"status timer", "log timer"} => t \in timers

Besides ==
    /\ UNCHANGED <<route, visit, rows, latest>>
    /\ log' \in {log, log + 1}
    /\ upset \subseteq upset'
    /\ AsksBesides
    /\ ShowsBesides
    /\ TimersBesides

LEMMA BesidesKeeps ==
    ASSUME RefreshInv, Besides, FreshTimers', ConsoleInv' PROVE RefreshInv'
<1>1. IsABag(requests)'
  BY DEF ConsoleInv, ClosureInv
<1>2. LogRests
  BY DEF Besides, AsksBesides, ShowsBesides, TimersBesides, LogRests, OfImports
<1>3. PollsRest
  BY DEF Besides, AsksBesides, ShowsBesides, TimersBesides, PollsRest, OfImports
<1> QED
  BY <1>1, <1>2, <1>3, LogKept, PollsKept DEF RefreshInv

(***************************************************************************)
(* A request that is none of these pages'.                                 *)
(***************************************************************************)
Foreign(a) ==
    \/ a.do \notin OfImports \cup {"logging template", "log"}
    \/ a.do \in OfImports /\ (a.visit = visit => route.page = "dataimport")

LEMMA AsksKept ==
    ASSUME IsABag(requests), requests' = requests PROVE AsksBesides
<1>1. InFlight' = InFlight
  BY DEF InFlight, BagToSet
<1>2. \A p \in InFlight : requests'[p] <= requests[p]
  BY CountsArePositive DEF InFlight
<1> QED
  BY <1>1, <1>2 DEF AsksBesides

LEMMA AsksSent ==
    ASSUME IsABag(requests), NEW new, \A a \in new : Foreign(a), requests' = Sent(new)
    PROVE  AsksBesides
<1>1. \A p \in InFlight : requests[p] <= requests[p]
  BY CountsArePositive DEF InFlight
<1>2. InFlight \subseteq InFlight'
  BY SentAsks DEF Asked
<1>3. \A p \in InFlight' : p \in new \/ (p \in InFlight /\ requests'[p] <= requests[p])
  BY <1>1, SentCounts
<1> QED
  BY <1>2, <1>3 DEF AsksBesides, Foreign

LEMMA AsksAnswered ==
    ASSUME IsABag(requests), NEW q \in InFlight, NEW new, \A a \in new : Foreign(a),
           q.do # "status" \/ <<"lost", "status">> \in upset' \/ q.visit # visit,
           requests' = Exchanged(q, new)
    PROVE  AsksBesides
<1>1. \A p \in InFlight' : p \in new \/ (p \in InFlight /\ requests'[p] <= requests[p])
  BY ExchangedCounts
<1>2. \A p \in InFlight : p # q => p \in InFlight'
  BY ExchangedCounts
<1> QED
  BY <1>1, <1>2 DEF AsksBesides, Foreign

LEMMA BagOfRequests ==
    ASSUME ConsoleInv PROVE IsABag(requests) /\ visit \in Nat
BY DEF ConsoleInv, ClosureInv

(***************************************************************************)
(* Whatever is shown of an import or of the log was shown before.          *)
(***************************************************************************)
ShownBefore ==
    shown'.page \in {"dataimport", "logging"} =>
        shown'.page = shown.page /\ shown'.visit = shown.visit

LEMMA RestKeeps ==
    ASSUME RefreshInv, ConsoleInv, ConsoleInv',
           UNCHANGED <<route, visit, rows, latest, autorefresh, timers, timeout, ticker>>,
           log' \in {log, log + 1},
           upset \subseteq upset',
           AsksBesides, ShownBefore
    PROVE  RefreshInv'
<1>1. FreshTimers'
  <2>1. FreshTimers /\ visit \in Nat
    BY BagOfRequests DEF RefreshInv
  <2>2. visit <= visit' /\ timers' \subseteq timers
    BY <2>1
  <2> QED
    BY <2>1, <2>2, FreshKept
<1>2. TimersBesides
  BY DEF TimersBesides
<1>3. ShowsBesides
  BY DEF ShowsBesides, ShownBefore
<1>4. Besides
  BY <1>2, <1>3 DEF Besides
<1> QED
  BY <1>1, <1>4, BesidesKeeps

(***************************************************************************)
(* The same for the timers of the replication page, set and stopped.       *)
(***************************************************************************)
LEMMA TimersRestKeep ==
    ASSUME RefreshInv, ConsoleInv, ConsoleInv',
           UNCHANGED <<route, visit, rows, latest, log, autorefresh, timeout>>,
           upset \subseteq upset',
           AsksBesides, ShownBefore,
           \A t \in timers : t.do = "status timer" => t \in timers',
           \A t \in timers' : t.do \in {"status timer", "log timer"} => t \in timers,
           FreshTimers'
    PROVE  RefreshInv'
<1>1. TimersBesides
  BY DEF TimersBesides
<1>2. ShowsBesides
  BY DEF ShowsBesides, ShownBefore
<1>3. Besides
  BY <1>1, <1>2 DEF Besides
<1> QED
  BY <1>3, BesidesKeeps

LEMMA ForeignDo ==
    ASSUME NEW a, a.do \notin {"status", "import", "abort", "logging template", "log"}
    PROVE  Foreign(a)
BY DEF Foreign, OfImports

(***************************************************************************)
(* An answer asks for what is not these pages'.                            *)
(***************************************************************************)
LEMMA AnswerAsks ==
    ASSUME ConsoleInv, NEW q \in InFlight, q.do # "status",
           NEW new, \A a \in new : Foreign(a), requests' = Exchanged(q, new)
    PROVE  AsksBesides
BY AsksAnswered, BagOfRequests

LEMMA DoneAsks ==
    ASSUME ConsoleInv, NEW q \in InFlight, q.do # "status", requests' = Exchanged(q, {})
    PROVE  AsksBesides
BY AnswerAsks

LEMMA OneAsk ==
    ASSUME ConsoleInv, NEW q \in InFlight, q.do # "status", NEW a, Foreign(a),
           requests' = Exchanged(q, {a})
    PROVE  AsksBesides
BY AnswerAsks

LEMMA SendAsks ==
    ASSUME ConsoleInv, NEW a, Foreign(a), requests' = Sent({a}) PROVE AsksBesides
<1>1. PICK new : new = {a}
  OBVIOUS
<1> QED
  BY <1>1, AsksSent, BagOfRequests

LEMMA NothingAsked == ASSUME ConsoleInv, requests' = requests PROVE AsksBesides
BY AsksKept, BagOfRequests

LEMMA FrameRefresh ==
    ASSUME RefreshInv, ConsoleInv, ConsoleInv', UNCHANGED pageVars
    PROVE  /\ \A r : Move(r) => RefreshInv'
           /\ \A q \in InFlight :
                 BootCores(q) \/ BootSystem(q) \/ BootFails(q) => RefreshInv'
           /\ \A q \in InFlight : Unhandled(q) /\ Fail(q) => RefreshInv'
           /\ UNCHANGED consoleVars => RefreshInv'
<1> USE DEF pageVars, importVars, loggingVars, replicationVars, clock, place, ShownBefore
<1>1. ASSUME NEW r, Move(r) PROVE RefreshInv'
  BY <1>1, NothingAsked, RestKeeps DEF Move
<1>2. ASSUME NEW q \in InFlight, BootCores(q) PROVE RefreshInv'
  <2>1. Foreign(Ask("boot system", NoRoute, 0)) /\ q.do # "status"
    BY <1>2, ForeignDo DEF Ask, AskOf, BootCores, Answer
  <2>2. AsksBesides
    BY <1>2, <2>1, OneAsk DEF BootCores
  <2> QED
    BY <1>2, <2>2, RestKeeps DEF BootCores
<1>3. ASSUME NEW q \in InFlight, BootSystem(q) \/ BootFails(q) PROVE RefreshInv'
  <2>1. q.do # "status"
    BY <1>3 DEF BootSystem, BootFails, Answer
  <2>2. AsksBesides
    BY <1>3, <2>1, DoneAsks DEF BootSystem, BootFails
  <2> QED
    BY <1>3, <2>2, RestKeeps DEF BootSystem, BootFails
<1>4. ASSUME NEW q \in InFlight, Fail(q) PROVE RefreshInv'
  <2>1. upset \subseteq upset' /\ (q.do = "status" /\ q.visit = visit
                                    => <<"lost", "status">> \in upset')
    BY <1>4 DEF Fail
  <2>2. AsksBesides
    <3>1. PICK new : new = {}
      OBVIOUS
    <3>2. requests' = Exchanged(q, new) /\ \A a \in new : Foreign(a)
      BY <1>4, <3>1 DEF Fail
    <3> QED
      BY <2>1, <3>2, AsksAnswered, BagOfRequests
  <2> QED
    BY <1>4, <2>1, <2>2, RestKeeps DEF Fail
<1>5. CASE UNCHANGED consoleVars
  BY <1>5, NothingAsked, RestKeeps DEF consoleVars
<1> QED
  BY <1>1, <1>2, <1>3, <1>4, <1>5

LEMMA PlainRefresh ==
    ASSUME RefreshInv, ConsoleInv, ConsoleInv', OfPlain
    PROVE  /\ \A q \in InFlight : PlainAnswer(q) => RefreshInv'
           /\ PlainPress => RefreshInv'
<1> USE DEF OfPlain, importVars, loggingVars, replicationVars, clock, place, ShownBefore
<1>1. ASSUME NEW q \in InFlight, Template(q) PROVE RefreshInv'
  <2>1. q.do = "template"
    BY <1>1 DEF Template, Answer
  <2>2. q.route.page \in Templated
    BY <2>1 DEF ConsoleInv, ClosureInv, Suits
  <2>3. \A a \in Data(q.route, q.visit) : Foreign(a)
    BY <2>2, DataAsked, ForeignDo DEF PlainBlocks, Dashboard, Analysis, File, Cloud,
       Threads, LoggingLevel, JavaProperties, Index
  <2>4. AsksBesides
    BY <1>1, <2>1, <2>3, AnswerAsks DEF Template
  <2>5. ShownBefore
    BY <1>1, <2>2 DEF Template, Drawn, Templated
  <2>6. upset \subseteq upset'
    BY <1>1, DisturbedGrows DEF Template
  <2> QED
    BY <1>1, <2>4, <2>5, <2>6, RestKeeps DEF Template
<1>2. ASSUME NEW q \in InFlight, PlainData(q) PROVE RefreshInv'
  <2>1. q.do # "status"
    BY <1>2, WantedBlocks DEF PlainData, PlainBlocks, Dashboard, Analysis, File, Cloud,
       Threads, LoggingLevel, JavaProperties, Index
  <2>2. AsksBesides
    BY <1>2, <2>1, DoneAsks DEF PlainData
  <2>3. shown'.page = shown.page /\ shown'.visit = shown.visit
    <3>1. shown = [page |-> shown.page, by |-> shown.by, visit |-> shown.visit,
                   data |-> shown.data]
      BY DEF ConsoleInv, ClosureInv
    <3> QED
      BY <1>2, <3>1 DEF PlainData, Filled
  <2>4. upset \subseteq upset'
    BY <1>2, DisturbedGrows DEF PlainData
  <2> QED
    BY <1>2, <2>2, <2>3, <2>4, RestKeeps DEF PlainData
<1>3. ASSUME NEW q \in InFlight, CommandDone(q) PROVE RefreshInv'
  <2>1. AsksBesides
    BY <1>3, DoneAsks DEF CommandDone, Answer
  <2>2. upset \subseteq upset'
    BY <1>3, DisturbedGrows DEF CommandDone
  <2> QED
    BY <1>3, <2>1, <2>2, RestKeeps DEF CommandDone
<1>4. ASSUME NEW button, PressLive(button) PROVE RefreshInv'
  <2>1. AsksBesides
    BY <1>4, ForeignDo, SendAsks DEF PressLive, Ask, AskOf
  <2> QED
    BY <1>4, <2>1, RestKeeps DEF PressLive, Press
<1> QED
  BY <1>1, <1>2, <1>3, <1>4 DEF PlainAnswer, PlainPress

LEMMA CoreRefresh ==
    ASSUME RefreshInv, ConsoleInv, ConsoleInv', OfCore
    PROVE  /\ \A q \in InFlight : CoreAnswer(q) => RefreshInv'
           /\ CorePress => RefreshInv'
<1> USE DEF OfCore, importVars, loggingVars, replicationVars, clock, place
<1>1. ASSUME NEW q \in InFlight, CoreList(q) PROVE RefreshInv'
  <2>1. AsksBesides
    BY <1>1, DoneAsks DEF CoreList, Answer
  <2>2. upset \subseteq upset'
    BY <1>1, DisturbedGrows DEF CoreList
  <2>3. UNCHANGED <<route, visit>>
    BY <1>1 DEF CoreList, Redirect
  <2> QED
    BY <1>1, <2>1, <2>2, <2>3, RestKeeps DEF CoreList, ShownBefore
<1>2. ASSUME NEW q, NEW cores, NEW content, Wire(q, cores, content),
             content = [page |-> content.page, by |-> content.by, visit |-> content.visit,
                        data |-> content.data]
      PROVE  /\ upset \subseteq upset'
             /\ shown'.page = content.page /\ shown'.visit = content.visit
  <2>1. upset \subseteq upset'
    BY <1>2, DisturbedGrows DEF Wire
  <2>2. CASE shown' = content
    BY <2>1, <2>2
  <2>3. CASE shown' = [content EXCEPT !.data = {[block |-> "core", core |-> q.route.arg]}]
    BY <1>2, <2>1, <2>3
  <2> QED
    BY <1>2, <2>2, <2>3 DEF Wire
<1>3. ASSUME NEW q \in InFlight, CoreData(q) PROVE RefreshInv'
  <2>1. PICK cores : \/ Wire(q, cores, shown) /\ requests' = Exchanged(q, {})
                     \/ /\ requests' = Exchanged(q,
                              {AskOf("core template", q.route, q.visit, cores, 0)})
                        /\ upset' = Disturbed(q)
                        /\ UNCHANGED <<shown, coreActs>>
    BY <1>3 DEF CoreData
  <2>2. shown = [page |-> shown.page, by |-> shown.by, visit |-> shown.visit,
                 data |-> shown.data]
    BY DEF ConsoleInv, ClosureInv
  <2>3. upset \subseteq upset' /\ shown'.page = shown.page /\ shown'.visit = shown.visit
    BY <1>2, <2>1, <2>2, DisturbedGrows
  <2>4. AsksBesides
    <3>1. Foreign(AskOf("core template", q.route, q.visit, cores, 0)) /\ q.do # "status"
      BY <1>3, ForeignDo DEF AskOf, CoreData, Answer
    <3> QED
      BY <2>1, <3>1, OneAsk, DoneAsks
  <2> QED
    BY <1>3, <2>3, <2>4, RestKeeps DEF CoreData, ShownBefore
<1>4. ASSUME NEW q \in InFlight, CoreTemplate(q) PROVE RefreshInv'
  <2>1. PICK drawn : drawn = Drawn("cores", q.route, q.visit)
    OBVIOUS
  <2>2. Wire(q, q.cores, drawn)
    BY <1>4, <2>1 DEF CoreTemplate
  <2>3. upset \subseteq upset' /\ shown'.page = "cores"
    BY <1>2, <2>1, <2>2 DEF Drawn
  <2>4. AsksBesides
    BY <1>4, DoneAsks DEF CoreTemplate, Answer
  <2> QED
    BY <1>4, <2>3, <2>4, RestKeeps DEF CoreTemplate, ShownBefore
<1>5. ASSUME NEW q \in InFlight, Execute(q) PROVE RefreshInv'
  <2>1. q = AskOf(q.do, q.route, q.visit, q.cores, q.n)
    BY DEF ConsoleInv, ClosureInv
  <2>2. q.do \in Buttons \cup Forms
    BY <1>5 DEF Execute
  <2>3. PICK a : a = [q EXCEPT !.n = 1]
    OBVIOUS
  <2>4. a.do = q.do
    BY <2>1, <2>3 DEF AskOf
  <2>5. Foreign(a) /\ q.do # "status"
    BY <2>2, <2>4, ForeignDo DEF Buttons, Forms
  <2>6. requests' = Exchanged(q, {a})
    BY <1>5, <2>3 DEF Execute
  <2>7. AsksBesides
    BY <2>5, <2>6, OneAsk
  <2> QED
    BY <1>5, <2>7, RestKeeps DEF Execute, ShownBefore
<1>6. ASSUME NEW q \in InFlight, Executed(q) PROVE RefreshInv'
  <2>1. q.do # "status"
    BY <1>6 DEF Executed, Buttons, Forms
  <2>2. AsksBesides
    BY <1>6, <2>1, DoneAsks DEF Executed
  <2>3. UNCHANGED <<route, visit>>
    BY <1>6 DEF Executed, Redirect, Refresh
  <2>4. upset \subseteq upset'
    BY <1>6, DisturbedGrows DEF Executed
  <2> QED
    BY <1>6, <2>2, <2>3, <2>4, RestKeeps DEF Executed, ShownBefore
<1>7. ASSUME NEW do \in Buttons \cup Forms, NEW r, NEW cores, NEW n,
             requests' = Sent({AskOf(do, r, visit, cores, n)}),
             upset' = upset,
             UNCHANGED <<place, shown, clock>>
      PROVE  RefreshInv'
  <2>1. Foreign(AskOf(do, r, visit, cores, n))
    BY ForeignDo DEF AskOf, Buttons, Forms
  <2>2. AsksBesides
    BY <1>7, <2>1, SendAsks
  <2> QED
    BY <1>7, <2>2, RestKeeps DEF ShownBefore
<1>8. ASSUME NEW do \in Buttons, PressButton(do) PROVE RefreshInv'
  BY <1>7, <1>8 DEF PressButton, Press, Ask
<1>9. ASSUME NEW do \in Forms, NEW other, SubmitForm(do, other) PROVE RefreshInv'
  BY <1>7, <1>9 DEF SubmitForm, Press
<1> QED
  BY <1>1, <1>3, <1>4, <1>5, <1>6, <1>8, <1>9 DEF CoreAnswer, CorePress

LEMMA CacheRefresh ==
    ASSUME RefreshInv, ConsoleInv, ConsoleInv', OfCache, NEW q \in InFlight, CacheAnswer(q)
    PROVE  RefreshInv'
<1> USE DEF OfCache, importVars, loggingVars, replicationVars, clock, place
<1>1. q.do \in {"mbeans", "plugins template", "luke", "schema", "schema template"}
  BY DEF CacheAnswer, Mbeans, PluginsTemplate, Luke, Schema, SchemaTemplate, Answer
<1>2. upset \subseteq upset'
  BY DisturbedGrows DEF CacheAnswer, Mbeans, PluginsTemplate, Luke, Schema, SchemaTemplate
<1>3. \/ requests' = Exchanged(q, {})
      \/ \E do \in {"plugins template", "schema", "schema template"} :
            requests' = Exchanged(q, {Ask(do, q.route, q.visit)})
  BY DEF CacheAnswer, Mbeans, PluginsTemplate, Luke, Schema, SchemaTemplate
<1>4. AsksBesides
  <2>1. \A do \in {"plugins template", "schema", "schema template"} :
           Foreign(Ask(do, q.route, q.visit))
    BY ForeignDo DEF Ask, AskOf
  <2> QED
    BY <1>1, <1>3, <2>1, OneAsk, DoneAsks
<1>5. UNCHANGED <<route, visit, rows, latest, log, autorefresh, timers, timeout, ticker>>
  BY DEF CacheAnswer, Mbeans, PluginsTemplate, Luke, Schema, SchemaTemplate, Redirect
<1>6. ShownBefore
  <2>1. CASE UNCHANGED shown
    BY <2>1 DEF ShownBefore
  <2>2. CASE PluginsTemplate(q)
    BY <2>2 DEF ShownBefore, PluginsTemplate, Rendered, Drawn
  <2>3. CASE SchemaTemplate(q)
    BY <2>3 DEF ShownBefore, SchemaTemplate, Drawn
  <2> QED
    BY <2>1, <2>2, <2>3 DEF CacheAnswer, Mbeans, Luke, Schema
<1> QED
  BY <1>2, <1>4, <1>5, <1>6, RestKeeps

LEMMA DrawnPage == \A page, r, v : Drawn(page, r, v).page = page
BY DEF Drawn

(***************************************************************************)
(* The import page that is shown, if it is of this visit, is of its route. *)
(***************************************************************************)
LEMMA OwnImports ==
    ASSUME ConsoleInv, shown.page = "dataimport", shown.visit = visit
    PROVE  route.page = "dataimport"
<1>1. <<shown.visit, shown.by>> \in Closures /\ <<visit, route>> \in Closures
  BY ClosureFacts
<1>2. shown.by = route
  BY <1>1 DEF ConsoleInv, ClosureInv
<1>3. PageOf(shown.by) = "dataimport"
  BY DEF ConsoleInv, ClosureInv
<1> QED
  BY <1>2, <1>3, PageOfFacts

LEMMA ImportForeign ==
    ASSUME NEW do \in OfImports, NEW r, NEW v, v = visit => route.page = "dataimport"
    PROVE  Foreign(Ask(do, r, v))
BY DEF Foreign, Ask, AskOf

LEMMA ImportRefresh ==
    ASSUME RefreshInv, ConsoleInv, ConsoleInv', OfImport
    PROVE  /\ \A q \in InFlight : FindHandlers(q) \/ ImportTemplate(q) \/ ImportDone(q)
                                    \/ ImportFails(q) => RefreshInv'
           /\ ImportPress => RefreshInv'
<1> USE DEF OfImport, importVars, loggingVars, replicationVars, clock, place
<1>1. ASSUME NEW q \in InFlight, FindHandlers(q) PROVE RefreshInv'
  <2>1. AsksBesides
    BY <1>1, DoneAsks DEF FindHandlers, Answer
  <2>2. upset \subseteq upset'
    BY <1>1, DisturbedGrows DEF FindHandlers
  <2>3. UNCHANGED <<route, visit>>
    BY <1>1 DEF FindHandlers, Redirect
  <2>4. ShownBefore
    <3>1. CASE q.route.core \in Importing
      BY <1>1, <3>1 DEF FindHandlers, ShownBefore
    <3>2. CASE q.route.core \notin Importing
      <4>1. shown' = Drawn("no handler", q.route, q.visit)
        BY <1>1, <3>2 DEF FindHandlers
      <4>2. shown'.page = "no handler"
        BY <4>1, DrawnPage
      <4> QED
        BY <4>2 DEF ShownBefore
    <3> QED
      BY <3>1, <3>2
  <2> QED
    BY <1>1, <2>1, <2>2, <2>3, <2>4, RestKeeps DEF FindHandlers
<1>2. ASSUME NEW q \in InFlight, ImportTemplate(q) PROVE RefreshInv'
  <2>1. q.do = "import template" /\ q.do \in Tracked
    BY <1>2 DEF ImportTemplate, Answer, Tracked, Drawing
  <2>2. q.visit = visit => route.page = "dataimport"
    BY <2>1, OwnRoute DEF ConsoleInv, ClosureInv, Suits
  <2>3. PICK a : a = Ask("status", q.route, q.visit)
    OBVIOUS
  <2>4. Foreign(a) /\ a.do = "status" /\ a.visit = q.visit
    BY <2>2, <2>3, ImportForeign DEF OfImports, Ask, AskOf
  <2>5. requests' = Exchanged(q, {a})
    BY <1>2, <2>3 DEF ImportTemplate, FetchStatus
  <2>6. AsksBesides
    BY <2>1, <2>4, <2>5, OneAsk
  <2>7. a \in InFlight'
    BY <2>5, ExchangedAsks, BagOfRequests DEF Asked
  <2>8. ShowsBesides
    BY <1>2, <2>4, <2>7 DEF ImportTemplate, ShowsBesides, Drawn
  <2>9. TimersBesides
    BY <1>2 DEF ImportTemplate, TimersBesides
  <2>10. upset \subseteq upset'
    BY <1>2, DisturbedGrows DEF ImportTemplate
  <2>11. Besides
    BY <1>2, <2>6, <2>8, <2>9, <2>10 DEF ImportTemplate, Besides
  <2>12. FreshTimers'
    <3>1. visit' = visit /\ timers' = timers /\ timeout' = timeout /\ ticker' = ticker
      BY <1>2 DEF ImportTemplate
    <3> QED
      BY <3>1 DEF RefreshInv, FreshTimers, Ids
  <2> QED
    BY <2>11, <2>12, BesidesKeeps
<1>3. ASSUME NEW q \in InFlight, ImportDone(q) \/ ImportFails(q) PROVE RefreshInv'
  <2>1. q.do \in {"import", "abort"}
    BY <1>3 DEF ImportDone, ImportFails
  <2>2. q.visit = visit => route.page = "dataimport"
    BY <2>1 DEF RefreshInv, ImportsOfThePage, OfImports
  <2>3. Foreign(Ask("status", q.route, q.visit))
    BY <2>2, ImportForeign DEF OfImports
  <2>4. requests' = Exchanged(q, {}) \/ requests' = Exchanged(q, {Ask("status", q.route, q.visit)})
    BY <1>3 DEF ImportDone, ImportFails, FetchStatus
  <2>5. AsksBesides
    BY <2>1, <2>3, <2>4, OneAsk, DoneAsks
  <2>6. upset \subseteq upset'
    BY <1>3, DisturbedGrows DEF ImportDone, ImportFails
  <2> QED
    BY <1>3, <2>5, <2>6, RestKeeps DEF ImportDone, ImportFails, ShownBefore
<1>4. ASSUME NEW do \in OfImports, PressImport(do) PROVE RefreshInv'
  <2>1. shown.visit = visit => route.page = "dataimport"
    BY <1>4, OwnImports DEF PressImport
  <2>2. AsksBesides
    BY <1>4, <2>1, ImportForeign, SendAsks DEF PressImport
  <2> QED
    BY <1>4, <2>2, RestKeeps DEF PressImport, Press, ShownBefore
<1>5. CASE ToggleAutorefresh
  <2>1. shown.visit = visit => route.page = "dataimport"
    BY <1>5, OwnImports DEF ToggleAutorefresh
  <2>2. PICK a : a = Ask("status", shown.by, shown.visit)
    OBVIOUS
  <2>3. Foreign(a) /\ a.do = "status" /\ a.visit = shown.visit
    BY <2>1, <2>2, ImportForeign DEF OfImports, Ask, AskOf
  <2>4. requests' = Sent({a})
    BY <1>5, <2>2 DEF ToggleAutorefresh, FetchStatus
  <2>5. AsksBesides
    BY <2>3, <2>4, SendAsks
  <2>6. a \in InFlight'
    BY <2>4, SentAsks, BagOfRequests DEF Asked
  <2>7. ShowsBesides
    BY <1>5, <2>3, <2>6 DEF ToggleAutorefresh, ShowsBesides
  <2>8. TimersBesides
    BY <1>5 DEF ToggleAutorefresh, TimersBesides
  <2>9. Besides
    BY <1>5, <2>5, <2>7, <2>8 DEF ToggleAutorefresh, Press, Besides
  <2>10. FreshTimers'
    <3>1. visit' = visit /\ timers' = timers /\ timeout' = timeout /\ ticker' = ticker
      BY <1>5 DEF ToggleAutorefresh
    <3> QED
      BY <3>1 DEF RefreshInv, FreshTimers, Ids
  <2> QED
    BY <2>9, <2>10, BesidesKeeps
<1> QED
  BY <1>1, <1>2, <1>3, <1>4, <1>5 DEF ImportPress, OfImports

(***************************************************************************)
(* The status comes: the timer that is set is the one of the page.         *)
(***************************************************************************)
LEMMA StatusRefresh ==
    ASSUME RefreshInv, ConsoleInv, ConsoleInv', OfImport, NEW q \in InFlight, Status(q)
    PROVE  RefreshInv'
<1> USE DEF OfImport, importVars, loggingVars, replicationVars, clock, place
<1>1. PICK u : u = Timer(FreeHandle, "status timer", q.route, q.visit, 0)
  OBVIOUS
<1>2. /\ q.do = "status"
      /\ UNCHANGED <<route, visit, rows, latest, log, autorefresh, ticker>>
      /\ requests' = Exchanged(q, {})
      /\ upset' = Disturbed(q)
      /\ shown' = StatusShown(q)
  BY DEF Status, Answer
<1>3. \/ UNCHANGED <<timers, timeout>> /\ ~(timeout = 0 /\ q.visit \in autorefresh)
      \/ /\ timeout = 0
         /\ q.visit \in autorefresh
         /\ timeout' = u.id
         /\ timers' = timers \cup {u}
  BY <1>1 DEF Status, Timer
<1>4. u.do = "status timer" /\ u.visit = q.visit
  BY <1>1 DEF Timer
<1>5. shown'.page = shown.page /\ shown'.visit = shown.visit
  <2>1. shown = [page |-> shown.page, by |-> shown.by, visit |-> shown.visit,
                 data |-> shown.data]
    BY DEF ConsoleInv, ClosureInv
  <2> QED
    BY <1>2, <2>1 DEF StatusShown
<1>6. upset \subseteq upset' /\ (q.visit # visit => <<"late", "status">> \in upset')
  BY <1>2, DisturbedGrows
<1>7. InFlight' \subseteq InFlight
      /\ \A p \in InFlight' : requests'[p] <= requests[p]
  BY <1>2, ExchangedCounts, BagOfRequests
<1>8. FreshTimers'
  <2>1. CASE UNCHANGED <<timers, timeout>>
    <3>1. visit' = visit /\ timers' = timers /\ timeout' = timeout /\ ticker' = ticker
      BY <1>2, <2>1
    <3> QED
      BY <3>1 DEF RefreshInv, FreshTimers, Ids
  <2>2. CASE timeout' = u.id /\ timers' = timers \cup {u}
    <3>1. q.visit \in 0..visit /\ FreshTimers
      BY DEF ConsoleInv, ClosureInv, RefreshInv
    <3>2. u.id = FreeHandle
      BY <1>1 DEF Timer
    <3>3. timers' = timers \cup {Timer(FreeHandle, "status timer", q.route, q.visit, 0)}
          /\ timeout' \in {timeout, FreeHandle} /\ ticker' = ticker
      BY <1>1, <1>2, <2>2, <3>2
    <3>4. visit' = visit
      BY <1>2
    <3> HIDE DEF OfImport
    <3> QED
      BY <3>1, <3>3, <3>4, BagOfRequests, FreshAdded
  <2> QED
    BY <1>3, <2>1, <2>2
<1>9. LogInv'
  <2>1. \A t \in timers' : t.do = "log timer" => t \in timers
    BY <1>3, <1>4
  <2>2. LogRests
    BY <1>2, <1>5, <1>6, <1>7, <2>1 DEF LogRests
  <2> QED
    BY <2>2, LogKept, BagOfRequests DEF RefreshInv, ConsoleInv, ClosureInv
<1>10. Polls' \subseteq Polls \cup {u} /\ Polls \subseteq Polls'
  BY <1>2, <1>3 DEF Polls
<1>11. q.visit = visit => route.page = "dataimport"
  BY <1>2 DEF RefreshInv, ImportsOfThePage, OfImports
<1>12. ImportsOfThePage'
  <2>1. ASSUME NEW p \in InFlight', p.do \in OfImports, p.visit = visit'
        PROVE  route'.page = "dataimport"
    BY <1>2, <1>7, <2>1 DEF RefreshInv, ImportsOfThePage
  <2>2. ASSUME NEW t \in Polls' PROVE route'.page = "dataimport"
    BY <1>2, <1>4, <1>10, <1>11, <2>2 DEF RefreshInv, ImportsOfThePage, Polls
  <2> QED
    BY <2>1, <2>2 DEF ImportsOfThePage
<1>13. ASSUME Unhindered'
       PROVE  /\ \A t \in Polls' : t.id = timeout'
              /\ route'.page # "logging" /\ timeout' # 0 => Polls' # {}
              /\ \A p \in InFlight' : p.do = "log" /\ p.visit = visit' =>
                    route'.page = "logging"
              /\ \A t \in timers' : t.do = "log timer" /\ t.visit = visit' =>
                    route'.page = "logging"
              /\ shown'.page = "dataimport" /\ shown'.visit = visit' /\ visit' \in autorefresh'
                    => Polls' # {}
  <2>1. Unhindered /\ q.visit = visit
    BY <1>6, <1>13, StaysHindered, HindersNext DEF LateForPolls
  <2>2. /\ \A t \in Polls : t.id = timeout
        /\ route.page # "logging" /\ timeout # 0 => Polls # {}
        /\ \A p \in InFlight : p.do = "log" /\ p.visit = visit => route.page = "logging"
        /\ \A t \in timers : t.do = "log timer" /\ t.visit = visit => route.page = "logging"
    BY <2>1 DEF RefreshInv, PollInv
  <2>3. \A p \in InFlight' : p.do = "log" /\ p.visit = visit' => route'.page = "logging"
    BY <1>2, <1>7, <2>2
  <2>4. \A t \in timers' : t.do = "log timer" /\ t.visit = visit' => route'.page = "logging"
    BY <1>2, <1>3, <1>4, <2>2
  <2>5. route.page = "dataimport"
    BY <1>11, <2>1
  <2>6. CASE UNCHANGED <<timers, timeout>> /\ ~(timeout = 0 /\ q.visit \in autorefresh)
    <3>1. Polls' = Polls
      BY <1>2, <2>6 DEF Polls
    <3> QED
      BY <1>2, <2>1, <2>2, <2>3, <2>4, <2>5, <2>6, <3>1
  <2>7. CASE timeout = 0 /\ timeout' = u.id /\ timers' = timers \cup {u}
    <3>1. Polls = {}
      BY <2>2, <2>7 DEF RefreshInv, FreshTimers, Polls
    <3>2. Polls' = {u}
      BY <1>2, <1>4, <1>10, <2>1, <2>7, <3>1 DEF Polls
    <3> QED
      BY <2>3, <2>4, <2>7, <3>2
  <2> QED
    BY <1>3, <2>6, <2>7
<1>14. PollInv'
  BY <1>13 DEF PollInv
<1> QED
  BY <1>8, <1>9, <1>12, <1>14 DEF RefreshInv

(***************************************************************************)
(* The timer of the status: no other one of the visit is left, and the     *)
(* status is asked for.                                                    *)
(***************************************************************************)
LEMMA StatusTimerRefresh ==
    ASSUME RefreshInv, ConsoleInv, ConsoleInv', OfImport, NEW t \in timers, StatusTimer(t)
    PROVE  RefreshInv'
<1> USE DEF OfImport, importVars, loggingVars, replicationVars, clock, place
<1>1. PICK a : a = Ask("status", t.route, t.visit)
  OBVIOUS
<1>2. a.do = "status" /\ a.visit = t.visit
  BY <1>1 DEF Ask, AskOf
<1>3. /\ t.do = "status timer"
      /\ UNCHANGED <<route, visit, rows, latest, log, autorefresh, ticker, shown>>
      /\ requests' = Sent({a})
      /\ upset' = Disturbed(t)
      /\ timeout' = 0
      /\ timers' = {u \in timers \ {t} : u.id # timeout}
  BY <1>1 DEF StatusTimer, Answer, FetchStatus
<1>4. upset \subseteq upset' /\ (t.visit # visit => <<"late", "status timer">> \in upset')
  BY <1>3, DisturbedGrows
<1>5. t.visit = visit => route.page = "dataimport"
  BY <1>3 DEF RefreshInv, ImportsOfThePage, Polls
<1>6. AsksBesides
  <2>1. Foreign(a)
    BY <1>2, <1>5 DEF Foreign, OfImports
  <2> QED
    BY <1>3, <2>1, SendAsks
<1>7. FreshTimers'
  <2>1. FreshTimers /\ visit \in Nat
    BY BagOfRequests DEF RefreshInv
  <2>2. /\ visit' = visit /\ timers' \subseteq timers
        /\ timeout' \in {0, timeout} /\ ticker' = ticker
    BY <1>3
  <2> QED
    BY <2>1, <2>2, FreshFewer
<1>8. LogInv'
  <2>1. LogRests
    BY <1>3, <1>4, <1>6 DEF LogRests, AsksBesides, OfImports
  <2> QED
    BY <2>1, LogKept DEF RefreshInv, ConsoleInv, ClosureInv
<1>9. Polls' \subseteq Polls
  BY <1>3 DEF Polls
<1>10. ImportsOfThePage'
  <2>1. ASSUME NEW p \in InFlight', p.do \in OfImports, p.visit = visit'
        PROVE  route'.page = "dataimport"
    BY <1>3, <1>6, <2>1 DEF RefreshInv, ImportsOfThePage, AsksBesides
  <2>2. ASSUME NEW u \in Polls' PROVE route'.page = "dataimport"
    BY <1>3, <1>9 DEF RefreshInv, ImportsOfThePage
  <2> QED
    BY <2>1, <2>2 DEF ImportsOfThePage
<1>11. ASSUME Unhindered'
       PROVE  /\ \A u \in Polls' : u.id = timeout'
              /\ \A p \in InFlight' : p.do = "log" /\ p.visit = visit' =>
                    route'.page = "logging"
              /\ \A u \in timers' : u.do = "log timer" /\ u.visit = visit' =>
                    route'.page = "logging"
              /\ \E p \in InFlight' : p.do = "status" /\ p.visit = visit'
  <2>1. Unhindered /\ t.visit = visit
    BY <1>4, <1>11, StaysHindered, HindersNext DEF LateForPolls
  <2>2. /\ \A u \in Polls : u.id = timeout
        /\ \A p \in InFlight : p.do = "log" /\ p.visit = visit => route.page = "logging"
        /\ \A u \in timers : u.do = "log timer" /\ u.visit = visit => route.page = "logging"
    BY <2>1 DEF RefreshInv, PollInv
  <2>3. Polls' = {}
    BY <1>3, <2>2 DEF Polls
  <2>4. \A p \in InFlight' : p.do = "log" /\ p.visit = visit' => route'.page = "logging"
    BY <1>3, <1>6, <2>2 DEF AsksBesides, OfImports
  <2>5. \A u \in timers' : u.do = "log timer" /\ u.visit = visit' => route'.page = "logging"
    BY <1>3, <2>2
  <2>6. a \in InFlight'
    BY <1>3, SentAsks, BagOfRequests DEF Asked
  <2> QED
    BY <1>2, <1>3, <2>1, <2>3, <2>4, <2>5, <2>6
<1>12. PollInv'
  BY <1>3, <1>11 DEF PollInv
<1> QED
  BY <1>7, <1>8, <1>10, <1>12 DEF RefreshInv

-------------------------------------------------------------------------------
(***************************************************************************)
(* Events follow on one another.                                           *)
(***************************************************************************)
LEMMA NoEvents == Events(0, 0) = <<>>
BY DEF Events

LEMMA MoreEvents ==
    ASSUME NEW m \in Nat, NEW n \in Nat, m <= n
    PROVE  Events(0, m) \o Events(m, n) = Events(0, n)
<1> DEFINE a == Events(0, m)
           b == Events(m, n)
           c == Events(0, n)
<1>1. a = [i \in 1..m |-> i] /\ a \in Seq(Nat) /\ Len(a) = m
  BY DEF Events
<1>2. b = [i \in 1..(n - m) |-> m + i] /\ b \in Seq(Nat) /\ Len(b) = n - m
  BY DEF Events
<1>3. c = [i \in 1..n |-> i] /\ c \in Seq(Nat) /\ Len(c) = n
  BY DEF Events
<1> HIDE DEF a, b, c
<1>4. a \o b \in Seq(Nat) /\ Len(a \o b) = n
  BY <1>1, <1>2
<1>5. \A i \in 1..n : (a \o b)[i] = c[i]
  BY <1>1, <1>2, <1>3
<1>6. a \o b = c
  <2>1. PICK s \in Seq(Nat) : s = a \o b
    BY <1>4
  <2>2. PICK t \in Seq(Nat) : t = c
    BY <1>3
  <2>3. Len(s) = Len(t) /\ \A i \in 1..Len(s) : s[i] = t[i]
    BY <1>3, <1>4, <1>5, <2>1, <2>2
  <2>4. s = t
    BY <2>3, SeqEqual
  <2> QED
    BY <2>1, <2>2, <2>4
<1> QED
  BY <1>6 DEF a, b, c

(***************************************************************************)
(* The steps that concern the log only, in two halves.                     *)
(***************************************************************************)
LEMMA LogEventRefresh ==
    ASSUME RefreshInv, ConsoleInv, ConsoleInv', OfLogging, LogEvent PROVE RefreshInv'
<1> USE DEF OfLogging, importVars, replicationVars, clock, place
<1>1. AsksBesides
  BY NothingAsked DEF LogEvent
<1> QED
  BY <1>1, RestKeeps DEF LogEvent, ShownBefore

(***************************************************************************)
(* The frame of the log is drawn: its own visit has nothing else of it.    *)
(***************************************************************************)
LEMMA LoggingTemplateRefresh ==
    ASSUME RefreshInv, ConsoleInv, ConsoleInv', OfLogging, NEW q \in InFlight,
           LoggingTemplate(q)
    PROVE  RefreshInv'
<1> USE DEF OfLogging, importVars, replicationVars, clock, place
<1>1. PICK a : a = LoadViewer(0)
  OBVIOUS
<1>2. a.do = "log" /\ a.visit = visit /\ a.n = 0
  BY <1>1 DEF LoadViewer, AskOf
<1>3. /\ q.do = "logging template"
      /\ UNCHANGED <<route, visit, timeout, timers, ticker, autorefresh, log>>
      /\ rows' = <<>> /\ latest' = 0
      /\ requests' = Exchanged(q, {a})
      /\ upset' = Disturbed(q)
      /\ shown'.page = "logging" /\ shown'.visit = q.visit
  BY <1>1 DEF LoggingTemplate, Answer, Drawn
<1>4. upset \subseteq upset' /\ (q.visit # visit => <<"late", "logging template">> \in upset')
  BY <1>3, DisturbedGrows
<1>5. /\ \A p \in InFlight' : p = a \/ (p \in InFlight /\ requests'[p] <= requests[p])
      /\ \A p \in InFlight' : p \notin InFlight => requests'[p] = 1
      /\ \A p \in InFlight : p # q => p \in InFlight'
      /\ requests[q] = 1 => q \notin InFlight'
  <2>1. q # a
    BY <1>2, <1>3
  <2>2. PICK new : new = {a}
    OBVIOUS
  <2>3. requests' = Exchanged(q, new) /\ IsABag(requests)
    BY <1>3, <2>2, BagOfRequests
  <2>4. q \notin new
    BY <2>1, <2>2
  <2>5. /\ \A p \in InFlight' : p \in new \/ (p \in InFlight /\ requests'[p] <= requests[p])
        /\ \A p \in InFlight' : p \notin InFlight => requests'[p] = 1
        /\ \A p \in InFlight : p # q => p \in InFlight'
        /\ requests[q] = 1 /\ q \notin new => q \notin InFlight'
    BY <2>3, ExchangedCounts
  <2> QED
    BY <2>2, <2>4, <2>5
<1>6. FreshTimers'
  BY <1>3 DEF RefreshInv, FreshTimers, Ids
<1>7. q.visit = visit => route.page = "logging"
  <2>1. q.do \in Tracked
    BY <1>3 DEF Tracked, Drawing
  <2> QED
    BY <1>3, <2>1, OwnRoute DEF ConsoleInv, ClosureInv, Suits
<1>8. ImportsOfThePage'
  BY <1>2, <1>3, <1>5 DEF RefreshInv, ImportsOfThePage, OfImports, Polls
<1>9. ASSUME Unhindered' PROVE Unhindered /\ Alone /\ q.visit = visit
  BY <1>4, <1>9, Hinders, StaysHindered, HindersNext DEF LateForPolls
<1>10. PollInv'
  <2>1. SUFFICES ASSUME Unhindered'
                 PROVE  /\ \A t \in Polls' : t.id = timeout'
                        /\ route'.page # "logging" /\ timeout' # 0 => Polls' # {}
                        /\ \A p \in InFlight' : p.do = "log" /\ p.visit = visit' =>
                              route'.page = "logging"
                        /\ \A t \in timers' : t.do = "log timer" /\ t.visit = visit' =>
                              route'.page = "logging"
                        /\ shown'.page # "dataimport"
    BY DEF PollInv
  <2>2. Unhindered /\ route.page = "logging"
    BY <1>7, <1>9, <2>1
  <2>3. Polls' = Polls
    BY <1>3 DEF Polls
  <2>4. \A t \in Polls : t.id = timeout
    BY <2>2 DEF RefreshInv, PollInv
  <2> QED
    BY <1>3, <2>2, <2>3, <2>4
<1>11. \A p \in InFlight' : p.do = "log" => p.n \in Nat
  <2>1. \A p \in InFlight : p.do = "log" => p.n \in Nat
    BY DEF RefreshInv, LogInv
  <2> QED
    BY <1>2, <1>5, <2>1
<1>12. ASSUME Alone'
       PROVE  /\ \A p, s \in Loggers' : p = s /\ requests'[p] = 1
              /\ \A t, u \in Viewers' : t = u
              /\ Loggers' = {} \/ Viewers' = {}
              /\ \A p \in Loggers' : p.do = "log" => p.n = latest'
              /\ shown'.page = "logging" /\ shown'.visit = visit' => rows' = Events(0, latest')
  <2>1. Alone /\ q.visit = visit
    BY <1>4, <1>12, StaysHindered, HindersNext DEF LateForLogs
  <2>2. /\ \A p, s \in Loggers : p = s /\ requests[p] = 1
        /\ Loggers = {} \/ Viewers = {}
    BY <2>1 DEF RefreshInv, LogInv
  <2>3. q \in Loggers
    BY <1>3, <2>1 DEF Loggers
  <2>4. Viewers' = {}
    BY <1>3, <2>2, <2>3 DEF Viewers
  <2>5. q \notin InFlight'
    BY <1>5, <2>2, <2>3
  <2>6. \A p \in Loggers' : p = a
    BY <1>3, <1>5, <2>2, <2>3, <2>5 DEF Loggers
  <2>7. a \notin InFlight
    BY <1>2, <1>3, <2>2, <2>3 DEF Loggers
  <2>8. \A p \in Loggers' : requests'[p] = 1
    BY <1>5, <2>6, <2>7 DEF Loggers
  <2>9. rows' = Events(0, latest')
    BY <1>3, NoEvents
  <2> QED
    BY <1>2, <1>3, <2>4, <2>6, <2>8, <2>9
<1>13. LogInv'
  BY <1>3, <1>11, <1>12 DEF RefreshInv, LogInv
<1> QED
  BY <1>6, <1>8, <1>10, <1>13 DEF RefreshInv

(***************************************************************************)
(* The events come: the request is gone, and the timer is the one that     *)
(* goes on.                                                                *)
(***************************************************************************)
LEMMA LogRefresh ==
    ASSUME RefreshInv, ConsoleInv, ConsoleInv', OfLogging, NEW q \in InFlight, Log(q)
    PROVE  RefreshInv'
<1> USE DEF OfLogging, importVars, replicationVars, clock, place
<1>1. PICK u : u = Timer(FreeHandle, "log timer", q.route, q.visit, 0)
  OBVIOUS
<1>2. u.do = "log timer" /\ u.visit = q.visit /\ u.id = FreeHandle
  BY <1>1 DEF Timer
<1>3. PICK upto \in q.n..log :
         /\ rows' = rows \o Events(q.n, upto)
         /\ latest' = IF upto > q.n THEN upto ELSE latest
  BY DEF Log
<1>4. /\ q.do = "log"
      /\ UNCHANGED <<route, visit, ticker, autorefresh, log, shown>>
      /\ requests' = Exchanged(q, {})
      /\ upset' = Disturbed(q)
      /\ timeout' = u.id
      /\ timers' = timers \cup {u}
  BY <1>1, <1>2 DEF Log, Answer
<1>5. upset \subseteq upset' /\ (q.visit # visit => <<"late", "log">> \in upset')
  BY <1>4, DisturbedGrows
<1>6. /\ \A p \in InFlight' : p \in InFlight /\ requests'[p] <= requests[p]
      /\ requests[q] = 1 => q \notin InFlight'
  <2>1. PICK new : new = {}
    OBVIOUS
  <2> QED
    BY <1>4, <2>1, ExchangedCounts, BagOfRequests
<1>7. FreshTimers'
  <2>1. FreshTimers /\ visit \in Nat /\ q.visit \in 0..visit
    BY BagOfRequests DEF RefreshInv, ConsoleInv, ClosureInv
  <2>2. /\ timers' = timers \cup {Timer(FreeHandle, "log timer", q.route, q.visit, 0)}
        /\ timeout' \in {timeout, FreeHandle} /\ ticker' = ticker
        /\ visit' = visit
    BY <1>1, <1>2, <1>4
  <2> HIDE DEF OfLogging
  <2> QED
    BY <2>1, <2>2, FreshAdded
<1>8. Polls' = Polls
  BY <1>2, <1>4 DEF Polls
<1>9. ImportsOfThePage'
  BY <1>4, <1>6, <1>8 DEF RefreshInv, ImportsOfThePage
<1>10. PollInv'
  <2>1. SUFFICES ASSUME Unhindered'
                 PROVE  /\ \A t \in Polls' : t.id = timeout'
                        /\ route'.page = "logging"
                        /\ ~(shown'.page = "dataimport" /\ shown'.visit = visit')
    BY DEF PollInv
  <2>2. Unhindered /\ q.visit = visit
    BY <1>5, <2>1, StaysHindered, HindersNext DEF LateForPolls
  <2>3. route.page = "logging"
    BY <1>4, <2>2 DEF RefreshInv, PollInv
  <2>4. Polls = {}
    BY <2>3 DEF RefreshInv, ImportsOfThePage
  <2>5. ~(shown.page = "dataimport" /\ shown.visit = visit)
    BY <2>3, OwnImports
  <2> QED
    BY <1>4, <1>8, <2>3, <2>4, <2>5
<1>11. log \in Nat /\ latest \in Nat /\ q.n \in Nat
  BY <1>4 DEF RefreshInv, LogInv
<1>12. upto \in Nat /\ q.n <= upto /\ latest' \in Nat
  BY <1>3, <1>11
<1>13. \A p \in InFlight' : p.do = "log" => p.n \in Nat
  BY <1>6 DEF RefreshInv, LogInv
<1>14. ASSUME Alone'
       PROVE  /\ Loggers' = {}
              /\ \A t, w \in Viewers' : t = w
              /\ shown'.page = "logging" /\ shown'.visit = visit' => rows' = Events(0, latest')
  <2>1. Alone /\ q.visit = visit
    BY <1>5, <1>14, StaysHindered, HindersNext DEF LateForLogs
  <2>2. /\ \A p, s \in Loggers : p = s /\ requests[p] = 1
        /\ Loggers = {} \/ Viewers = {}
        /\ \A p \in Loggers : p.do = "log" => p.n = latest
        /\ shown.page = "logging" /\ shown.visit = visit => rows = Events(0, latest)
    BY <2>1 DEF RefreshInv, LogInv
  <2>3. q \in Loggers
    BY <1>4, <2>1 DEF Loggers
  <2>4. q \notin InFlight'
    BY <1>6, <2>2, <2>3
  <2>5. Loggers' = {}
    BY <1>4, <1>6, <2>2, <2>3, <2>4 DEF Loggers
  <2>6. \A t \in Viewers' : t = u
    BY <1>4, <2>2, <2>3 DEF Viewers
  <2>7. q.n = latest
    BY <1>4, <2>2, <2>3
  <2>8. latest' = upto
    BY <1>3, <1>11, <1>12, <2>7
  <2>9. ASSUME shown.page = "logging", shown.visit = visit PROVE rows' = Events(0, latest')
    <3>1. rows' = Events(0, latest) \o Events(latest, upto)
      BY <1>3, <2>2, <2>7, <2>9
    <3> QED
      BY <1>11, <1>12, <2>7, <2>8, <3>1, MoreEvents
  <2> QED
    BY <1>4, <2>5, <2>6, <2>9
<1>15. LogInv'
  BY <1>4, <1>11, <1>12, <1>13, <1>14 DEF LogInv
<1> QED
  BY <1>7, <1>9, <1>10, <1>15 DEF RefreshInv

(***************************************************************************)
(* The timer of the log asks for the events after the last one.            *)
(***************************************************************************)
LEMMA LogTimerRefresh ==
    ASSUME RefreshInv, ConsoleInv, ConsoleInv', OfLogging, NEW t \in timers, LogTimer(t)
    PROVE  RefreshInv'
<1> USE DEF OfLogging, importVars, loggingVars, replicationVars, clock, place
<1>1. PICK a : a = LoadViewer(latest)
  OBVIOUS
<1>2. a.do = "log" /\ a.visit = visit /\ a.n = latest
  BY <1>1 DEF LoadViewer, AskOf
<1>3. /\ t.do = "log timer"
      /\ UNCHANGED <<route, visit, timeout, ticker, autorefresh, log, rows, latest, shown>>
      /\ requests' = Sent({a})
      /\ upset' = Disturbed(t)
      /\ timers' = timers \ {t}
  BY <1>1 DEF LogTimer, Answer
<1>4. upset \subseteq upset' /\ (t.visit # visit => <<"late", "log timer">> \in upset')
  BY <1>3, DisturbedGrows
<1>5. /\ \A p \in InFlight' : p = a \/ (p \in InFlight /\ requests'[p] = requests[p])
      /\ \A p \in InFlight' : p \notin InFlight => requests'[p] = 1
      /\ \A p \in InFlight : p \in InFlight'
  <2>1. PICK new : new = {a}
    OBVIOUS
  <2>2. requests' = Sent(new) /\ IsABag(requests)
    BY <1>3, <2>1, BagOfRequests
  <2>3. \A p \in InFlight : p \in InFlight'
    BY <2>2, SentAsks DEF Asked
  <2>4. \A p \in InFlight' : /\ p \in new \/ (p \in InFlight /\ requests'[p] = requests[p])
                             /\ p \notin InFlight => requests'[p] = 1
    BY <2>2, SentCounts
  <2> QED
    BY <2>1, <2>3, <2>4
<1>6. FreshTimers'
  <2>1. FreshTimers /\ visit \in Nat
    BY BagOfRequests DEF RefreshInv
  <2>2. visit' = visit /\ timers' \subseteq timers /\ timeout' \in {0, timeout}
        /\ ticker' = ticker
    BY <1>3
  <2> QED
    BY <2>1, <2>2, FreshFewer
<1>7. Polls' = Polls
  BY <1>3 DEF Polls
<1>8. ImportsOfThePage'
  BY <1>2, <1>3, <1>5, <1>7 DEF RefreshInv, ImportsOfThePage, OfImports
<1>9. PollInv'
  <2>1. SUFFICES ASSUME Unhindered'
                 PROVE  /\ \A u \in Polls' : u.id = timeout'
                        /\ route'.page = "logging"
                        /\ ~(shown'.page = "dataimport" /\ shown'.visit = visit')
    BY DEF PollInv
  <2>2. Unhindered /\ t.visit = visit
    BY <1>4, <2>1, StaysHindered, HindersNext DEF LateForPolls
  <2>3. route.page = "logging"
    BY <1>3, <2>2 DEF RefreshInv, PollInv
  <2>4. \A u \in Polls : u.id = timeout
    BY <2>2 DEF RefreshInv, PollInv
  <2>5. ~(shown.page = "dataimport" /\ shown.visit = visit)
    BY <2>3, OwnImports
  <2> QED
    BY <1>3, <1>7, <2>3, <2>4, <2>5
<1>10. log \in Nat /\ latest \in Nat /\ \A p \in InFlight : p.do = "log" => p.n \in Nat
  BY DEF RefreshInv, LogInv
<1>11. ASSUME Alone'
       PROVE  /\ \A p, s \in Loggers' : p = s /\ requests'[p] = 1
              /\ Viewers' = {}
              /\ \A p \in Loggers' : p.do = "log" => p.n = latest'
              /\ shown'.page = "logging" /\ shown'.visit = visit' => rows' = Events(0, latest')
  <2>1. Alone /\ t.visit = visit
    BY <1>4, <1>11, StaysHindered, HindersNext DEF LateForLogs
  <2>2. /\ \A v, w \in Viewers : v = w
        /\ Loggers = {} \/ Viewers = {}
        /\ shown.page = "logging" /\ shown.visit = visit => rows = Events(0, latest)
    BY <2>1 DEF RefreshInv, LogInv
  <2>3. t \in Viewers
    BY <1>3, <2>1 DEF Viewers
  <2>4. Viewers' = {}
    BY <1>3, <2>2, <2>3 DEF Viewers
  <2>5. Loggers = {}
    BY <2>2, <2>3
  <2>6. \A p \in Loggers' : p = a
    BY <1>3, <1>5, <2>5 DEF Loggers
  <2>7. a \notin InFlight
    BY <1>2, <2>5 DEF Loggers
  <2>8. \A p \in Loggers' : requests'[p] = 1
    BY <1>5, <2>6, <2>7 DEF Loggers
  <2> QED
    BY <1>2, <1>3, <2>2, <2>4, <2>6, <2>8
<1>12. LogInv'
  BY <1>2, <1>3, <1>5, <1>10, <1>11 DEF LogInv
<1> QED
  BY <1>6, <1>8, <1>9, <1>12 DEF RefreshInv


-------------------------------------------------------------------------------
(***************************************************************************)
(* The replication page stops its own timers and sets others, and asks for *)
(* details only.                                                           *)
(***************************************************************************)
LEMMA TimersStopped ==
    ASSUME RefreshInv, ConsoleInv, ConsoleInv',
           UNCHANGED <<route, visit, rows, latest, log, autorefresh, timeout, ticker>>,
           upset \subseteq upset',
           AsksBesides, ShownBefore,
           timers' \subseteq timers,
           \A t \in timers : t.do = "status timer" => t \in timers'
    PROVE  RefreshInv'
<1>1. FreshTimers'
  <2>1. FreshTimers /\ visit \in Nat
    BY BagOfRequests DEF RefreshInv
  <2>2. visit' = visit /\ timeout' \in {0, timeout} /\ ticker' = ticker
    OBVIOUS
  <2> QED
    BY <2>1, <2>2, FreshFewer
<1> QED
  BY <1>1, TimersRestKeep

LEMMA UpToItself == \A n \in Nat : n \in 0..n
OBVIOUS

LEMMA TimerSet ==
    ASSUME RefreshInv, ConsoleInv, ConsoleInv',
           UNCHANGED <<route, visit, rows, latest, log, autorefresh, timeout>>,
           upset \subseteq upset',
           AsksBesides, ShownBefore,
           NEW others \in SUBSET timers,
           \A t \in timers : t.do = "status timer" => t \in others,
           NEW do \in {"tick", "refetch"}, NEW n,
           timers' = others \cup {Timer(FreeHandle, do, NoRoute, visit, n)},
           ticker' = ticker \/ (ticker' = FreeHandle /\ do = "tick")
    PROVE  RefreshInv'
<1>1. FreshTimers'
  <2>1. FreshTimers /\ visit \in Nat
    BY BagOfRequests DEF RefreshInv
  <2>2. visit \in 0..visit /\ visit' = visit
    BY <2>1, UpToItself
  <2>3. \/ timeout' \in {timeout, FreeHandle} /\ ticker' = ticker
        \/ timeout' = timeout /\ ticker' = FreeHandle /\ do = "tick"
    OBVIOUS
  <2> QED
    BY <2>1, <2>2, <2>3, FreshAdded
<1>2. PICK u : u = Timer(FreeHandle, do, NoRoute, visit, n)
  OBVIOUS
<1>3. u.do = do
  BY <1>2 DEF Timer
<1>4. \A t \in timers' : t.do \in {"status timer", "log timer"} => t \in timers
  BY <1>2, <1>3
<1>5. \A t \in timers : t.do = "status timer" => t \in timers'
  OBVIOUS
<1> QED
  BY <1>1, <1>4, <1>5, TimersRestKeep

LEMMA StatusTimersStay ==
    ASSUME FreshTimers
    PROVE  /\ TimersCleared \subseteq timers
           /\ \A t \in timers : t.do = "status timer" => t \in TimersCleared
BY DEF FreshTimers, TimersCleared

LEMMA ReplicationAsks ==
    Foreign(FetchDetails)
      /\ \A r, v : Foreign(Ask("replicate", r, v))
BY ForeignDo DEF FetchDetails, Ask, AskOf

LEMMA ReplicationRefresh ==
    ASSUME RefreshInv, ConsoleInv, ConsoleInv', OfReplication
    PROVE  /\ \A q \in InFlight : ReplicationAnswer(q) \/ DetailsFail(q) => RefreshInv'
           /\ \A t \in timers : ReplicationTimer(t) => RefreshInv'
           /\ ReplicationPress => RefreshInv'
<1> USE DEF OfReplication, importVars, loggingVars, replicationVars, clock, place
<1>1. FreshTimers
  BY DEF RefreshInv
<1>2. ASSUME NEW q \in InFlight, ReplicationTemplate(q) PROVE RefreshInv'
  <2>1. AsksBesides
    BY <1>2, ReplicationAsks, OneAsk DEF ReplicationTemplate, Answer
  <2>2. upset \subseteq upset'
    BY <1>2, DisturbedGrows DEF ReplicationTemplate
  <2>3. ShownBefore
    <3>1. shown' = Drawn("replication", q.route, q.visit)
      BY <1>2 DEF ReplicationTemplate
    <3>2. shown'.page = "replication"
      BY <3>1, DrawnPage
    <3> QED
      BY <3>2 DEF ShownBefore
  <2>4. timers' = TimersCleared
    BY <1>2 DEF ReplicationTemplate
  <2> QED
    BY <1>1, <1>2, <2>1, <2>2, <2>3, <2>4, StatusTimersStay, TimersStopped
    DEF ReplicationTemplate
<1>3. ASSUME NEW q \in InFlight, Details(q) PROVE RefreshInv'
  <2>1. AsksBesides
    BY <1>3, DoneAsks DEF Details, Answer
  <2>2. upset \subseteq upset'
    BY <1>3, DisturbedGrows DEF Details
  <2>3. ShownBefore
    <3>1. shown = [page |-> shown.page, by |-> shown.by, visit |-> shown.visit,
                   data |-> shown.data]
      BY DEF ConsoleInv, ClosureInv
    <3> QED
      BY <1>3, <3>1 DEF Details, ShownBefore
  <2>4. UNCHANGED <<route, visit, rows, latest, log, autorefresh, timeout>>
    BY <1>3 DEF Details
  <2>5. CASE UNCHANGED <<timers, ticker>>
    BY <2>1, <2>2, <2>3, <2>4, <2>5, TimersStopped
  <2>6. CASE /\ timers' = timers \cup {Timer(FreeHandle, "refetch", NoRoute, visit, 0)}
             /\ UNCHANGED ticker
    BY <2>1, <2>2, <2>3, <2>4, <2>6, TimerSet
  <2>7. CASE \E n \in 1..MaxTick : InitTimer(n)
    <3>1. PICK n \in 1..MaxTick : InitTimer(n)
      BY <2>7
    <3>2. /\ ticker' = FreeHandle
          /\ timers' = TimersCleared \cup {Timer(FreeHandle, "tick", NoRoute, visit, n - 1)}
      BY <3>1 DEF InitTimer, Countdown
    <3>3. PICK others \in SUBSET timers : others = TimersCleared
      BY <1>1, StatusTimersStay
    <3> QED
      BY <1>1, <2>1, <2>2, <2>3, <2>4, <3>2, <3>3, StatusTimersStay, TimerSet
  <2> QED
    BY <1>3, <2>5, <2>6, <2>7 DEF Details
<1>4. ASSUME NEW q \in InFlight, Replicate(q) PROVE RefreshInv'
  <2>1. AsksBesides
    BY <1>4, ReplicationAsks, OneAsk DEF Replicate, Answer
  <2>2. upset \subseteq upset'
    BY <1>4, DisturbedGrows DEF Replicate
  <2>3. timers' = TimersCleared
    BY <1>4 DEF Replicate
  <2> QED
    BY <1>1, <1>4, <2>1, <2>2, <2>3, StatusTimersStay, TimersStopped
    DEF Replicate, ShownBefore
<1>5. ASSUME NEW q \in InFlight, DetailsFail(q) PROVE RefreshInv'
  <2>1. AsksBesides
    BY <1>5, DoneAsks DEF DetailsFail
  <2>2. upset \subseteq upset'
    BY <1>5 DEF DetailsFail
  <2>3. ShownBefore
    <3>1. shown' = Drawn("no replication", q.route, q.visit)
      BY <1>5 DEF DetailsFail
    <3>2. shown'.page = "no replication"
      BY <3>1, DrawnPage
    <3> QED
      BY <3>2 DEF ShownBefore
  <2> QED
    BY <1>5, <2>1, <2>2, <2>3, RestKeeps DEF DetailsFail
<1>6. ASSUME NEW t \in timers, Tick(t) PROVE RefreshInv'
  <2>1. AsksBesides
    BY <1>6, NothingAsked DEF Tick
  <2>2. upset \subseteq upset'
    BY <1>6, DisturbedGrows DEF Tick
  <2>3. PICK others \in SUBSET timers : others = timers \ {t}
    OBVIOUS
  <2>4. \A u \in timers : u.do = "status timer" => u \in others
    BY <1>6, <2>3 DEF Tick, Answer
  <2>5. /\ ticker' = FreeHandle
        /\ timers' = others \cup {Timer(FreeHandle, "tick", NoRoute, visit, t.n - 1)}
    BY <1>6, <2>3 DEF Tick, Countdown
  <2>6. UNCHANGED <<route, visit, rows, latest, log, autorefresh, timeout, shown>>
    BY <1>6 DEF Tick
  <2>7. ShownBefore
    BY <2>6 DEF ShownBefore
  <2> QED
    BY <2>1, <2>2, <2>4, <2>5, <2>6, <2>7, TimerSet
<1>7. ASSUME NEW t \in timers, Refetch(t) PROVE RefreshInv'
  <2>1. AsksBesides
    BY <1>7, ReplicationAsks, SendAsks DEF Refetch
  <2>2. upset \subseteq upset'
    BY <1>7, DisturbedGrows DEF Refetch
  <2>3. timers' = TimersCleared \ {t} /\ t.do # "status timer"
    BY <1>7 DEF Refetch
  <2> QED
    BY <1>1, <1>7, <2>1, <2>2, <2>3, StatusTimersStay, TimersStopped
    DEF Refetch, ShownBefore
<1>8. CASE PressRefresh
  <2>1. AsksBesides
    BY <1>8, ReplicationAsks, SendAsks DEF PressRefresh
  <2>2. timers' = TimersCleared /\ upset' = upset
    BY <1>8 DEF PressRefresh, Press
  <2> QED
    BY <1>1, <1>8, <2>1, <2>2, StatusTimersStay, TimersStopped
    DEF PressRefresh, ShownBefore
<1>9. CASE PressCommand
  <2>1. AsksBesides
    BY <1>9, ReplicationAsks, SendAsks DEF PressCommand
  <2> QED
    BY <1>9, <2>1, RestKeeps DEF PressCommand, Press, ShownBefore
<1> QED
  BY <1>2, <1>3, <1>4, <1>5, <1>6, <1>7, <1>8, <1>9
  DEF ReplicationAnswer, ReplicationTimer, ReplicationPress

(***************************************************************************)
(* A route that is refused clears app.timeout: the visit that stays is     *)
(* hindered, and the log has no fewer requests.                            *)
(***************************************************************************)
LEMMA NoNewRefresh ==
    ASSUME RefreshInv, ConsoleInv, ConsoleInv', NoNewRoute, UNCHANGED pageVars
    PROVE  RefreshInv'
<1> USE DEF pageVars, importVars, loggingVars, replicationVars, clock
<1>1. /\ UNCHANGED <<route, visit, rows, latest, log, autorefresh, ticker, shown, requests>>
      /\ upset \subseteq upset'
  BY DEF NoNewRoute
<1>2. AsksBesides
  BY <1>1, NothingAsked
<1>3. CASE UNCHANGED clock
  BY <1>1, <1>2, <1>3, RestKeeps DEF ShownBefore
<1>4. CASE ClearTimeout /\ <<"lost", "timer">> \in upset'
  <2>1. timers' \subseteq timers /\ timeout' = 0
    BY <1>4 DEF ClearTimeout
  <2>2. FreshTimers'
    <3>1. FreshTimers /\ visit \in Nat
      BY BagOfRequests DEF RefreshInv
    <3>2. visit' = visit /\ timeout' \in {0, timeout} /\ ticker' = ticker
      BY <1>1, <2>1
    <3> QED
      BY <2>1, <3>1, <3>2, FreshFewer
  <2>3. PollInv'
    BY <1>4, HindersNext DEF PollInv
  <2>4. InFlight' = InFlight
    BY <1>1 DEF InFlight, BagToSet
  <2>5. ImportsOfThePage'
    BY <1>1, <2>1, <2>4 DEF RefreshInv, ImportsOfThePage, Polls
  <2>6. LogRests
    BY <1>1, <1>2, <2>1 DEF LogRests, AsksBesides, OfImports
  <2>7. LogInv'
    BY <2>6, LogKept DEF RefreshInv, ConsoleInv, ClosureInv
  <2> QED
    BY <2>2, <2>3, <2>5, <2>7 DEF RefreshInv
<1> QED
  BY <1>3, <1>4 DEF NoNewRoute

LEMMA NoLater == \A n \in Nat : n <= n + 1
OBVIOUS

(***************************************************************************)
(* A new visit has no timer, no status and no log of its own yet; what it  *)
(* asks for is once the template of the log, at most.                      *)
(***************************************************************************)
LEMMA VisitOpens ==
    ASSUME RefreshInv, ConsoleInv, NEW r, RunRoute(r),
           UNCHANGED <<ticker, log, rows, latest>>,
           NEW new,
           requests' = Sent(new) \/ requests' = requests,
           \A a \in new : a.visit = visit + 1 /\ a.do \notin OfImports \cup {"log"},
           \A a, b \in new : a.do = "logging template" => a = b,
           shown'.visit = shown.visit \/ shown'.page \notin {"dataimport", "logging"}
    PROVE  RefreshInv'
<1>1. route' = r /\ visit' = visit + 1 /\ timers' \subseteq timers /\ timeout' = 0
  BY DEF RunRoute, ClearTimeout
<1>2. IsABag(requests) /\ visit \in Nat
  BY BagOfRequests
<1>3. visit' \in Nat /\ visit <= visit' /\ visit' \notin 0..visit
  <2>1. PICK n \in Nat : n = visit /\ visit' = n + 1
    BY <1>1, <1>2
  <2>2. n + 1 \in Nat /\ n <= n + 1 /\ n + 1 \notin 0..n
    BY OneMoreVisit, NoLater
  <2> QED
    BY <2>1, <2>2, Zenon
<1>4. /\ \A q \in InFlight : q.visit # visit'
      /\ \A t \in timers' : t.visit # visit'
      /\ shown.visit # visit'
  <2>1. /\ \A q \in InFlight : q.visit \in 0..visit
        /\ shown.visit \in 0..visit
    BY DEF ConsoleInv, ClosureInv
  <2>2. \A t \in timers' : t.visit \in 0..visit
    BY <1>1 DEF RefreshInv, FreshTimers
  <2> QED
    BY <1>3, <2>1, <2>2
<1>5. /\ \A p \in InFlight' : p \in new \/ p \in InFlight
      /\ \A p \in InFlight' : p \notin InFlight => requests'[p] = 1
  <2>1. CASE requests' = Sent(new)
    BY <1>2, <2>1, SentCounts
  <2>2. CASE requests' = requests
    <3>1. InFlight' = InFlight
      BY <2>2 DEF InFlight, BagToSet
    <3> QED
      BY <3>1
  <2> QED
    BY <2>1, <2>2
<1>6. FreshTimers'
  <2>1. FreshTimers /\ timeout' \in {0, timeout} /\ ticker' = ticker
    BY <1>1 DEF RefreshInv
  <2> QED
    BY <1>1, <1>2, <1>3, <2>1, FreshKept
<1>7. Polls' = {} /\ Viewers' = {}
  BY <1>4 DEF Polls, Viewers
<1>8. \A p \in InFlight' : p.visit = visit' => p \in new /\ p \notin InFlight
  BY <1>4, <1>5
<1>9. ~(shown'.visit = visit' /\ shown'.page \in {"dataimport", "logging"})
  BY <1>4
<1>10. ImportsOfThePage'
  BY <1>7, <1>8 DEF ImportsOfThePage
<1>11. PollInv'
  BY <1>1, <1>4, <1>7, <1>8, <1>9 DEF PollInv
<1>12. LogInv'
  <2>1. log' \in Nat /\ latest' \in Nat /\ \A p \in InFlight' : p.do = "log" => p.n \in Nat
    BY <1>5 DEF RefreshInv, LogInv
  <2>2. \A p \in Loggers' : p \in new /\ p.do = "logging template" /\ requests'[p] = 1
    BY <1>5, <1>8 DEF Loggers
  <2>3. \A p, q \in Loggers' : p = q
    BY <2>2
  <2> QED
    BY <1>7, <1>9, <2>1, <2>2, <2>3 DEF LogInv
<1> QED
  BY <1>6, <1>10, <1>11, <1>12 DEF RefreshInv

LEMMA VisitOpensAsking ==
    ASSUME RefreshInv, ConsoleInv, NEW r, RunRoute(r),
           UNCHANGED <<ticker, log, rows, latest>>,
           NEW a, requests' = Sent({a}),
           a.visit = visit + 1, a.do \notin OfImports \cup {"log"},
           shown'.visit = shown.visit \/ shown'.page \notin {"dataimport", "logging"}
    PROVE  RefreshInv'
<1>1. PICK new : new = {a}
  OBVIOUS
<1>2. requests' = Sent(new)
  BY <1>1
<1>3. /\ \A b \in new : b.visit = visit + 1 /\ b.do \notin OfImports \cup {"log"}
      /\ \A b, c \in new : b.do = "logging template" => b = c
  BY <1>1
<1> QED
  BY <1>2, <1>3, VisitOpens

LEMMA VisitAsksOnce ==
    ASSUME RefreshInv, ConsoleInv, NEW r, RunRoute(r),
           UNCHANGED <<ticker, log, rows, latest>>,
           NEW do, do \notin OfImports \cup {"log"}, NEW cores,
           requests' = Sent({AskOf(do, r, visit + 1, cores, 0)}),
           shown'.visit = shown.visit \/ shown'.page \notin {"dataimport", "logging"}
    PROVE  RefreshInv'
<1>1. PICK a : a = AskOf(do, r, visit + 1, cores, 0)
  OBVIOUS
<1>2. a.do = do /\ a.visit = visit + 1
  BY <1>1 DEF AskOf
<1>3. requests' = Sent({a})
  BY <1>1
<1> QED
  BY <1>2, <1>3, VisitOpensAsking

LEMMA PlainVisitsRefresh ==
    ASSUME RefreshInv, ConsoleInv, OfPlain, NEW r, PlainVisit(r) PROVE RefreshInv'
<1> USE DEF OfPlain, importVars, loggingVars, replicationVars
<1>1. CASE VisitTemplated(r)
  <2>1. "template" \notin OfImports \cup {"log"}
    BY DEF OfImports
  <2> QED
    BY <1>1, <2>1, VisitAsksOnce DEF VisitTemplated, Ask
<1>2. CASE VisitFramed(r)
  <2>1. PICK new : new = Data(r, visit + 1)
    OBVIOUS
  <2>2. RunRoute(r) /\ r.page \in Framed /\ requests' = Sent(new)
    BY <1>2, <2>1 DEF VisitFramed
  <2>3. \A a \in new : /\ a.visit = visit + 1
                       /\ a.do \notin OfImports \cup {"log", "logging template"}
    <3>1. SUFFICES ASSUME NEW a \in new
                   PROVE  /\ a.visit = visit + 1
                          /\ a.do \notin OfImports \cup {"log", "logging template"}
      OBVIOUS
    <3>2. a \in Data(r, visit + 1) /\ r.page \in Templated \cup Framed
      BY <2>1, <2>2
    <3>3. a.visit = visit + 1 /\ a.do \in PlainBlocks
      BY <3>2, DataAsked
    <3> QED
      BY <3>3 DEF OfImports, PlainBlocks, Dashboard, Analysis, File, Cloud, Threads,
         LoggingLevel, JavaProperties, Index
  <2>4. shown'.page = r.page
    BY <1>2, DrawnPage DEF VisitFramed
  <2>5. shown'.page \notin {"dataimport", "logging"}
    BY <2>2, <2>4 DEF Framed
  <2>6. \A a, b \in new : a.do = "logging template" => a = b
    BY <2>3
  <2> QED
    BY <2>2, <2>3, <2>5, <2>6, VisitOpens
<1> QED
  BY <1>1, <1>2 DEF PlainVisit

LEMMA CoreVisitsRefresh ==
    ASSUME RefreshInv, ConsoleInv, OfCore, NEW r, CoreVisit(r) PROVE RefreshInv'
<1> USE DEF OfCore, importVars, loggingVars, replicationVars
<1>1. "core list" \notin OfImports \cup {"log"} /\ "core data" \notin OfImports \cup {"log"}
  BY DEF OfImports
<1>2. CASE VisitCoreList(r)
  BY <1>1, <1>2, VisitAsksOnce DEF VisitCoreList
<1>3. CASE VisitCore(r)
  BY <1>1, <1>3, VisitAsksOnce DEF VisitCore
<1> QED
  BY <1>2, <1>3 DEF CoreVisit

LEMMA CacheVisitsRefresh ==
    ASSUME RefreshInv, ConsoleInv, OfCache, NEW r, CacheVisit(r) PROVE RefreshInv'
<1> USE DEF OfCache, importVars, loggingVars, replicationVars
<1>1. "mbeans" \notin OfImports \cup {"log"} /\ "luke" \notin OfImports \cup {"log"}
  BY DEF OfImports
<1>2. CASE VisitPlugins(r)
  BY <1>1, <1>2, VisitAsksOnce DEF VisitPlugins, Ask
<1>3. CASE VisitPluginType(r) /\ pluginData = NoCore
  BY <1>1, <1>3, VisitAsksOnce DEF VisitPluginType, Ask
<1>4. CASE VisitPluginType(r) /\ pluginData # NoCore
  <2>1. shown' = Rendered(shown) /\ requests' = requests /\ RunRoute(r)
    BY <1>4 DEF VisitPluginType
  <2>2. shown = [page |-> shown.page, by |-> shown.by, visit |-> shown.visit,
                 data |-> shown.data]
    BY DEF ConsoleInv, ClosureInv
  <2>3. shown'.visit = shown.visit
    BY <2>1, <2>2 DEF Rendered
  <2>4. PICK new : new = {}
    OBVIOUS
  <2>5. /\ \A a \in new : a.visit = visit + 1 /\ a.do \notin OfImports \cup {"log"}
        /\ \A a, b \in new : a.do = "logging template" => a = b
    BY <2>4
  <2> QED
    BY <2>1, <2>3, <2>5, VisitOpens
<1>5. CASE VisitSchemaBrowser(r)
  <2>1. shown' = Drawn("schema-browser", r, visit + 1)
    BY <1>5 DEF VisitSchemaBrowser
  <2>2. shown'.page \notin {"dataimport", "logging"}
    BY <2>1, DrawnPage
  <2> QED
    BY <1>1, <1>5, <2>2, VisitAsksOnce DEF VisitSchemaBrowser, Ask
<1> QED
  BY <1>2, <1>3, <1>4, <1>5 DEF CacheVisit

LEMMA OtherVisitsRefresh ==
    ASSUME RefreshInv, ConsoleInv, NEW r,
           \/ ImportVisit(r) /\ OfImport
           \/ LoggingVisit(r) /\ OfLogging
           \/ ReplicationVisit(r) /\ OfReplication
    PROVE  RefreshInv'
<1> USE DEF OfImport, OfLogging, OfReplication, importVars, loggingVars, replicationVars
<1>1. \A do \in {"find handlers", "import template", "logging template",
                 "replication template"} : do \notin OfImports \cup {"log"}
  BY DEF OfImports
<1>2. CASE VisitImports(r) /\ OfImport
  BY <1>1, <1>2, VisitAsksOnce DEF VisitImports, Ask
<1>3. CASE VisitImport(r) /\ OfImport
  BY <1>1, <1>3, VisitAsksOnce DEF VisitImport, Ask
<1>4. CASE LoggingVisit(r) /\ OfLogging
  BY <1>1, <1>4, VisitAsksOnce DEF LoggingVisit, VisitLogging, Ask
<1>5. CASE ReplicationVisit(r) /\ OfReplication
  BY <1>1, <1>5, VisitAsksOnce DEF ReplicationVisit, VisitReplication, Ask
<1> QED
  BY <1>2, <1>3, <1>4, <1>5 DEF ImportVisit

-------------------------------------------------------------------------------
(***************************************************************************)
(* Every step of the console.                                              *)
(***************************************************************************)
LEMMA RefreshStarts == ASSUME Init PROVE RefreshInv
<1>1. /\ requests = SetToBag({Ask("boot cores", NoRoute, 0)})
      /\ timers = {} /\ timeout = 0 /\ ticker = 0 /\ visit = 0
      /\ shown = Drawn("loading", NoRoute, 0)
      /\ log = 0 /\ rows = <<>> /\ latest = 0
  BY DEF Init, ConsoleInit, LoggingInit, ReplicationInit
<1>2. PICK a : a = Ask("boot cores", NoRoute, 0)
  OBVIOUS
<1>3. a.do = "boot cores"
  BY <1>2 DEF Ask, AskOf
<1>4. InFlight = {a}
  BY <1>1, <1>2 DEF InFlight, BagToSet, SetToBag
<1>5. FreshTimers
  <2>1. Ids = {}
    BY <1>1 DEF Ids
  <2> QED
    BY <1>1, <2>1, FS_EmptySet DEF FreshTimers
<1>6. Polls = {} /\ Viewers = {} /\ Loggers = {}
  BY <1>1, <1>3, <1>4 DEF Polls, Viewers, Loggers
<1>7. shown.page = "loading"
  BY <1>1, DrawnPage
<1>8. ImportsOfThePage
  BY <1>3, <1>4, <1>6 DEF ImportsOfThePage, OfImports
<1>9. PollInv
  BY <1>1, <1>3, <1>4, <1>6, <1>7 DEF PollInv
<1>10. LogInv
  BY <1>1, <1>3, <1>4, <1>6, <1>7 DEF LogInv
<1> QED
  BY <1>5, <1>8, <1>9, <1>10 DEF RefreshInv

LEMMA AnswerRefresh ==
    ASSUME RefreshInv, ConsoleInv, ConsoleInv', NEW q \in InFlight, Answered(q)
    PROVE  RefreshInv'
<1>1. CASE (BootCores(q) \/ BootSystem(q)) /\ UNCHANGED pageVars
  BY <1>1, FrameRefresh
<1>2. CASE PlainAnswer(q) /\ OfPlain
  BY <1>2, PlainRefresh
<1>3. CASE CoreAnswer(q) /\ OfCore
  BY <1>3, CoreRefresh
<1>4. CASE CacheAnswer(q) /\ OfCache
  BY <1>4, CacheRefresh
<1>5. CASE ImportAnswer(q) /\ OfImport
  BY <1>5, ImportRefresh, StatusRefresh DEF ImportAnswer
<1>6. CASE LoggingAnswer(q) /\ OfLogging
  BY <1>6, LoggingTemplateRefresh, LogRefresh DEF LoggingAnswer
<1>7. CASE ReplicationAnswer(q) /\ OfReplication
  BY <1>7, ReplicationRefresh
<1> QED
  BY <1>1, <1>2, <1>3, <1>4, <1>5, <1>6, <1>7 DEF Answered

LEMMA FailRefresh ==
    ASSUME RefreshInv, ConsoleInv, ConsoleInv', NEW q \in InFlight, Failed(q)
    PROVE  RefreshInv'
<1>1. CASE BootFails(q) /\ UNCHANGED pageVars
  BY <1>1, FrameRefresh
<1>2. CASE ImportFails(q) /\ OfImport
  BY <1>2, ImportRefresh
<1>3. CASE DetailsFail(q) /\ OfReplication
  BY <1>3, ReplicationRefresh
<1>4. CASE Unhandled(q) /\ Fail(q) /\ UNCHANGED pageVars
  BY <1>4, FrameRefresh
<1> QED
  BY <1>1, <1>2, <1>3, <1>4 DEF Failed

LEMMA RefreshStep == ASSUME PagesInv, RefreshInv, [Next]_vars PROVE RefreshInv'
<1>1. ConsoleInv /\ ConsoleInv'
  BY ConsoleStep DEF PagesInv
<1>2. CASE UNCHANGED vars \/ (~due /\ ConnectionNext /\ UNCHANGED <<consoleVars, pageVars>>)
  <2>1. UNCHANGED consoleVars /\ UNCHANGED pageVars
    BY <1>2 DEF vars
  <2> QED
    BY <1>1, <2>1, FrameRefresh
<1>3. CASE \E r \in family.routes : Move(r) /\ UNCHANGED <<pageVars, connectionVars>>
  BY <1>1, <1>3, FrameRefresh
<1>4. CASE NoNewRoute /\ UNCHANGED <<pageVars, connectionVars>>
  BY <1>1, <1>4, NoNewRefresh
<1>5. CASE Visit
  BY <1>1, <1>5, PlainVisitsRefresh, CoreVisitsRefresh, CacheVisitsRefresh,
     OtherVisitsRefresh DEF Visit
<1>6. CASE \E q \in InFlight : Answered(q) \/ Failed(q)
  BY <1>1, <1>6, AnswerRefresh, FailRefresh
<1>7. CASE \E t \in timers : Fired(t)
  BY <1>1, <1>7, StatusTimerRefresh, LogTimerRefresh, ReplicationRefresh
  DEF Fired, ImportTimer, LoggingTimer
<1>8. CASE Pressed
  BY <1>1, <1>8, PlainRefresh, CoreRefresh, ImportRefresh, ReplicationRefresh DEF Pressed
<1>9. CASE LogEvent /\ OfLogging /\ UNCHANGED connectionVars
  BY <1>1, <1>9, LogEventRefresh
<1> QED
  BY <1>2, <1>3, <1>4, <1>5, <1>6, <1>7, <1>8, <1>9 DEF Next

LEMMA PollsAreCounted ==
    ASSUME RefreshInv, Unhindered PROVE Cardinality(Polls) <= 1
<1>1. \A t, u \in Polls : t = u
  BY DEF RefreshInv, PollInv, FreshTimers, Polls
<1>2. CASE Polls = {}
  BY <1>2, FS_EmptySet
<1>3. CASE Polls # {}
  <2>1. PICK t : Polls = {t}
    BY <1>1, <1>3
  <2>2. Cardinality(Polls) = 1
    BY <2>1, FS_Singleton
  <2> QED
    BY <2>2
<1> QED
  BY <1>2, <1>3

(***************************************************************************)
(* However the user moves, presses and toggles, and whatever of earlier    *)
(* visits is still in flight: the status of an import that is to be        *)
(* refreshed goes on being asked for by one timer, that of app.timeout,    *)
(* and the log shows every event once (the callbacks and the timers of     *)
(* scripts/dataimport.js and scripts/logging.js).                          *)
(***************************************************************************)
THEOREM PagesRefreshOnce == Spec => []RefreshedOnce
<1>1. Init => RefreshInv
  BY RefreshStarts
<1>2. PagesInv /\ RefreshInv /\ [Next]_vars => RefreshInv'
  BY RefreshStep
<1>3. ASSUME RefreshInv PROVE ImportPollsOnce
  <2>1. SUFFICES ASSUME shown.page = "dataimport", shown.visit = visit,
                        visit \in autorefresh, Unhindered
                 PROVE  /\ Cardinality(Polls) <= 1
                        /\ \/ \E t \in Polls : t.id = timeout
                           \/ \E q \in InFlight : /\ q.do \in {"status", "import", "abort"}
                                                  /\ q.visit = visit
    BY DEF ImportPollsOnce, Polls, Unhindered, LateForPolls
  <2>2. Polls # {} \/ \E q \in InFlight : q.do = "status" /\ q.visit = visit
    BY <1>3, <2>1 DEF RefreshInv, PollInv
  <2>3. \A t \in Polls : t.id = timeout
    BY <1>3, <2>1 DEF RefreshInv, PollInv
  <2> QED
    BY <1>3, <2>1, <2>2, <2>3, PollsAreCounted
<1>4. RefreshInv => EventsShownOnce
  BY DEF RefreshInv, LogInv, Alone, LateForLogs, EventsShownOnce
<1>5. RefreshInv => RefreshedOnce
  BY <1>3, <1>4 DEF RefreshedOnce
<1> QED
  BY <1>1, <1>2, <1>5, PagesHold, PTL DEF Spec

-------------------------------------------------------------------------------
(* The types of the variables.                                             *)

(***************************************************************************)
(* A schema browser is always that of a core.                              *)
(***************************************************************************)
Routable(r) == r \in Routes /\ (r.page = "schema-browser" => r.core \in Core)

(***************************************************************************)
(* The parts of the console's type that are inductive together: the page   *)
(* of an import, and the request that draws it, are never of visit 0.      *)
(***************************************************************************)
TypedPlace ==
    /\ Routable(address) /\ Routable(last) /\ Routable(route)
    /\ running \in BOOLEAN /\ due \in BOOLEAN

TypedCores == menu \subseteq Core /\ alive \subseteq Core /\ wrecked \in BOOLEAN

CoresOf(data) == \A d \in data : d.core \in Core \cup {NoCore}

TypedShown ==
    /\ Routable(shown.by)
    /\ shown.page \in Contents
    /\ shown.page = "dataimport" => shown.visit # 0
    /\ CoresOf(shown.data)

TypedAsk(q) ==
    /\ Routable(q.route)
    /\ q.cores \subseteq Core
    /\ q.n \in Nat
    /\ q.do = "import template" => q.visit # 0

TypedAsks == \A q \in InFlight : TypedAsk(q)

TypedTimers == \A t \in timers : Routable(t.route)

TypedPages ==
    /\ acts \in [Live -> Core \cup {NoCore}]
    /\ {basepath, coreActs, pluginData} \subseteq Core \cup {NoCore}
    /\ \A d \in schemaData : d.core \in Core

TypedLog == log \in 0..MaxEvents /\ rows \in Seq(1..MaxEvents) /\ latest \in Nat

TypedVisits ==
    /\ moves \in 0..family.moves
    /\ autorefresh \subseteq 1..visit
    /\ element \in 0..visit

TypedInv ==
    /\ TypedPlace /\ TypedCores /\ TypedShown /\ TypedAsks /\ TypedTimers
    /\ TypedPages /\ TypedLog /\ TypedVisits

LEMMA KnownRoutes ==
    /\ Routable(NoRoute)
    /\ \A c \in Core \cup {NoCore, "null"} : Routable(CoreRoute(c))
    /\ \A c \in Core \cup {NoCore} : Routable(PluginsRoute(c, FirstType))
    /\ \A c \in Core : Routable(ImportRoute(c, Handler))
    /\ \A c \in Core \cup {NoCore} : Routable(Route("replication", c, NoCore))
    /\ \A c \in Core \cup {NoCore} : Routable(Route("dashboard", c, NoCore))
<1> DEFINE arguments == Core \cup {NoCore, "null", Handler} \cup Types
<1> DEFINE places == Core \cup {NoCore}
<1>1. Routes = [page : Pages \cup {"none"}, core : places, arg : arguments]
  BY DEF Routes
<1>2. FirstType \in arguments
  BY TypesAssumption
<1>3. {"none", "cores", "plugins", "dataimport", "replication", "dashboard"}
        \subseteq Pages \cup {"none"}
  BY DEF Pages, Templated
<1> HIDE DEF arguments, places
<1>4. \A page \in Pages \cup {"none"}, c \in places, a \in arguments :
        /\ Route(page, c, a) \in Routes
        /\ Route(page, c, a).page = page
  BY <1>1 DEF Route
<1>5. ASSUME NEW page \in Pages \cup {"none"}, NEW c \in places, NEW a \in arguments,
             page # "schema-browser"
      PROVE  Routable(Route(page, c, a))
  BY <1>4, <1>5 DEF Routable
<1> QED
  BY <1>2, <1>3, <1>5 DEF NoRoute, CoreRoute, PluginsRoute, ImportRoute, arguments, places

LEMMA RouteParts ==
    ASSUME NEW r, Routable(r)
    PROVE  /\ r.core \in Core \cup {NoCore}
           /\ r.page = "schema-browser" => r.core \in Core
           /\ r.page \in Pages \cup {"none"}
BY DEF Routable, Routes

LEMMA FamilyRoutes ==
    ASSUME family \in Families
    PROVE  (\A r \in family.routes : Routable(r)) /\ family.cores \subseteq Core
BY RoutesAssumption DEF Routable, OfACore

-------------------------------------------------------------------------------
LEMMA PlaceTyped ==
    ASSUME TypedInv, PagesInv, [Next]_vars PROVE TypedPlace'
<1> USE DEF place
<1> DEFINE Stays == UNCHANGED <<running, address, last, due, route>>
<1>0. Stays => TypedPlace'
  BY DEF TypedInv, TypedPlace
<1>r. \A from, to : Redirect(from, to) /\ Routable(from) /\ Routable(to) => TypedPlace'
  BY DEF TypedInv, TypedPlace, Redirect
<1>q. \A q \in InFlight : Routable(q.route)
  BY DEF TypedInv, TypedAsks, TypedAsk
<1>1. CASE UNCHANGED vars \/ UNCHANGED <<consoleVars, pageVars>>
  BY <1>0, <1>1 DEF vars, consoleVars
<1>2. ASSUME NEW r \in family.routes, Move(r) PROVE TypedPlace'
  BY <1>2, FamilyRoutes DEF Move, TypedInv, TypedPlace, PagesInv, PlaceInv
<1>3. CASE NoNewRoute
  BY <1>3 DEF NoNewRoute, LocationChanged, TypedInv, TypedPlace
<1>4. CASE Visit
  <2>1. RunRoute(address)
    BY <1>4 DEF Visit, PlainVisit, VisitTemplated, VisitFramed, CoreVisit, VisitCoreList,
       VisitCore, CacheVisit, VisitPlugins, VisitPluginType, VisitSchemaBrowser,
       ImportVisit, VisitImports, VisitImport, LoggingVisit, VisitLogging,
       ReplicationVisit, VisitReplication
  <2> QED
    BY <2>1 DEF RunRoute, LocationChanged, TypedInv, TypedPlace
<1>5. ASSUME NEW q \in InFlight, Answered(q) PROVE TypedPlace'
  <2>1. CASE BootSystem(q)
    BY <2>1 DEF BootSystem, TypedInv, TypedPlace
  <2>2. CASE CoreList(q)
    <3>1. PICK cores \in Lists(q) : Redirect(q.route, CoreRoute(FirstCore(cores)))
      BY <2>2 DEF CoreList
    <3>2. cores \subseteq Core
      BY DEF Lists, TypedInv, TypedAsks, TypedAsk, TypedCores
    <3>3. FirstCore(cores) \in Core \cup {"null"}
      BY <3>2 DEF FirstCore
    <3> QED
      BY <1>r, <1>q, <3>1, <3>3, KnownRoutes
  <2>3. CASE Executed(q)
    <3>1. CASE Redirect(q.route, ListRoute)
      BY <1>r, <1>q, <3>1, KnownRoutes DEF ListRoute
    <3>2. CASE \E c \in q.cores : Redirect(q.route, CoreRoute(c))
      <4>1. q.cores \subseteq Core
        BY DEF TypedInv, TypedAsks, TypedAsk
      <4> QED
        BY <1>r, <1>q, <3>2, <4>1, KnownRoutes
    <3>3. CASE Refresh
      BY <3>3, KnownRoutes DEF Refresh, TypedInv, TypedPlace
    <3>4. CASE UNCHANGED place
      BY <1>0, <3>4
    <3> QED
      BY <2>3, <3>1, <3>2, <3>3, <3>4 DEF Executed
  <2>4. CASE PluginsTemplate(q)
    <3>1. q.route.core \in Core \cup {NoCore}
      BY <1>q, RouteParts
    <3> QED
      BY <1>0, <1>r, <1>q, <2>4, <3>1, KnownRoutes DEF PluginsTemplate
  <2>5. CASE FindHandlers(q)
    BY <1>0, <1>r, <1>q, <2>5, KnownRoutes, ImportingAssumption DEF FindHandlers
  <2>6. CASE BootCores(q) \/ PlainAnswer(q)
    BY <1>0, <2>6 DEF BootCores, PlainAnswer, Template, PlainData, CommandDone
  <2>7. CASE CoreData(q) \/ CoreTemplate(q) \/ Execute(q)
    BY <1>0, <2>7 DEF CoreData, CoreTemplate, Execute
  <2>8. CASE CacheAnswer(q) /\ ~PluginsTemplate(q)
    BY <1>0, <2>8 DEF CacheAnswer, Mbeans, Luke, Schema, SchemaTemplate
  <2>9. CASE ImportAnswer(q) /\ ~FindHandlers(q)
    BY <1>0, <2>9 DEF ImportAnswer, ImportTemplate, Status, ImportDone
  <2>10. CASE LoggingAnswer(q) \/ ReplicationAnswer(q)
    BY <1>0, <2>10 DEF LoggingAnswer, LoggingTemplate, Log, ReplicationAnswer,
       ReplicationTemplate, Details, Replicate
  <2> QED
    BY <1>5, <2>1, <2>2, <2>3, <2>4, <2>5, <2>6, <2>7, <2>8, <2>9, <2>10
    DEF Answered, CoreAnswer
<1>6. CASE \E q \in InFlight : Failed(q)
  BY <1>0, <1>6 DEF Failed, BootFails, ImportFails, DetailsFail, Fail
<1>7. CASE \E t \in timers : Fired(t)
  BY <1>0, <1>7 DEF Fired, ImportTimer, StatusTimer, LoggingTimer, LogTimer,
     ReplicationTimer, Tick, Refetch
<1>8. CASE Pressed
  BY <1>0, <1>8 DEF Pressed, PlainPress, PressLive, CorePress, PressButton, SubmitForm,
     ImportPress, PressImport, ToggleAutorefresh, ReplicationPress, PressRefresh,
     PressCommand
<1>9. CASE LogEvent
  BY <1>0, <1>9 DEF LogEvent
<1> QED
  BY <1>1, <1>2, <1>3, <1>4, <1>5, <1>6, <1>7, <1>8, <1>9 DEF Next

LEMMA CoresTyped ==
    ASSUME TypedInv, [Next]_vars PROVE TypedCores'
<1> DEFINE Stays == UNCHANGED <<menu, wrecked, alive>>
<1>0. Stays => TypedCores'
  BY DEF TypedInv, TypedCores
<1>s. \A cores : SetCoresData(cores) /\ cores \subseteq Core /\ UNCHANGED alive => TypedCores'
  BY DEF TypedInv, TypedCores, SetCoresData, ShowGlobalError
<1>q. \A q \in InFlight : \A cores \in Lists(q) : cores \subseteq Core
  BY DEF Lists, TypedInv, TypedAsks, TypedAsk, TypedCores
<1>1. CASE UNCHANGED vars \/ UNCHANGED <<consoleVars, pageVars>>
  BY <1>0, <1>1 DEF vars, consoleVars
<1>2. CASE NoNewRoute \/ \E r \in family.routes : Move(r)
  BY <1>0, <1>2 DEF NoNewRoute, LocationChanged, Move
<1>3. CASE Visit
  <2>1. RunRoute(address)
    BY <1>3 DEF Visit, PlainVisit, VisitTemplated, VisitFramed, CoreVisit, VisitCoreList,
       VisitCore, CacheVisit, VisitPlugins, VisitPluginType, VisitSchemaBrowser,
       ImportVisit, VisitImports, VisitImport, LoggingVisit, VisitLogging,
       ReplicationVisit, VisitReplication
  <2> QED
    BY <1>0, <2>1 DEF RunRoute, LocationChanged
<1>4. ASSUME NEW q \in InFlight, Answered(q) PROVE TypedCores'
  <2>1. CASE BootCores(q)
    BY <1>s, <2>1 DEF BootCores, TypedInv, TypedCores
  <2>2. CASE CoreList(q) \/ CoreData(q)
    BY <1>s, <1>q, <2>2 DEF CoreList, CoreData
  <2>3. CASE Execute(q)
    <3>1. q.cores \subseteq Core
      BY DEF TypedInv, TypedAsks, TypedAsk
    <3>2. alive' \subseteq Core
      BY <2>3, <3>1 DEF Execute, TypedInv, TypedCores
    <3> QED
      BY <2>3, <3>2 DEF Execute, TypedInv, TypedCores
  <2>4. CASE BootSystem(q) \/ PlainAnswer(q)
    BY <1>0, <2>4 DEF BootSystem, PlainAnswer, Template, PlainData, CommandDone
  <2>5. CASE CoreTemplate(q) \/ Executed(q) \/ CacheAnswer(q)
    BY <1>0, <2>5 DEF CoreTemplate, Executed, CacheAnswer, Mbeans, PluginsTemplate, Luke,
       Schema, SchemaTemplate
  <2>6. CASE ImportAnswer(q) \/ LoggingAnswer(q) \/ ReplicationAnswer(q)
    BY <1>0, <2>6 DEF ImportAnswer, FindHandlers, ImportTemplate, Status, ImportDone,
       LoggingAnswer, LoggingTemplate, Log, ReplicationAnswer, ReplicationTemplate,
       Details, Replicate
  <2> QED
    BY <1>4, <2>1, <2>2, <2>3, <2>4, <2>5, <2>6 DEF Answered, CoreAnswer
<1>5. CASE \E q \in InFlight : Failed(q)
  <2>1. CASE \E q \in InFlight : BootFails(q)
    BY <2>1 DEF BootFails, ShowGlobalError, TypedInv, TypedCores
  <2> QED
    BY <1>0, <1>5, <2>1 DEF Failed, ImportFails, DetailsFail, Fail
<1>6. CASE \E t \in timers : Fired(t)
  BY <1>0, <1>6 DEF Fired, ImportTimer, StatusTimer, LoggingTimer, LogTimer,
     ReplicationTimer, Tick, Refetch
<1>7. CASE Pressed
  BY <1>0, <1>7 DEF Pressed, PlainPress, PressLive, CorePress, PressButton, SubmitForm,
     ImportPress, PressImport, ToggleAutorefresh, ReplicationPress, PressRefresh,
     PressCommand
<1>8. CASE LogEvent
  BY <1>0, <1>8 DEF LogEvent
<1> QED
  BY <1>1, <1>2, <1>3, <1>4, <1>5, <1>6, <1>7, <1>8 DEF Next

-------------------------------------------------------------------------------
(***************************************************************************)
(* What is drawn and filled.                                               *)
(***************************************************************************)
LEMMA DrawnTyped ==
    ASSUME NEW page \in Contents, NEW r, Routable(r), NEW v,
           page = "dataimport" => v # 0,
           shown' = Drawn(page, r, v)
    PROVE  TypedShown'
<1>1. shown'.page = page /\ shown'.by = r /\ shown'.visit = v /\ shown'.data = {}
  BY DEF Drawn
<1> QED
  BY <1>1 DEF TypedShown, CoresOf, Routable, Routes, Pages, Contents

LEMMA RefilledTyped ==
    ASSUME TypedShown, ClosureInv, NEW data, CoresOf(data),
           shown' = [shown EXCEPT !.data = data]
    PROVE  TypedShown'
<1>1. shown = [page |-> shown.page, by |-> shown.by, visit |-> shown.visit,
               data |-> shown.data]
  BY DEF ClosureInv
<1>2. /\ shown'.page = shown.page /\ shown'.by = shown.by /\ shown'.visit = shown.visit
      /\ shown'.data = data
  BY <1>1
<1> QED
  BY <1>2 DEF TypedShown, CoresOf, Routable, Routes, Pages, Contents

LEMMA FilledTyped ==
    ASSUME TypedShown, ClosureInv, NEW v, NEW block, NEW c \in Core \cup {NoCore},
           shown' = Filled(v, block, c)
    PROVE  TypedShown'
<1> DEFINE data == {d \in shown.data : d.block # block} \cup {[block |-> block, core |-> c]}
<1>1. CoresOf(data)
  BY DEF TypedShown, CoresOf
<1>2. shown' = shown \/ shown' = [shown EXCEPT !.data = data]
  BY DEF Filled
<1>3. CASE shown' = shown
  BY <1>3 DEF TypedShown, CoresOf
<1> QED
  BY <1>1, <1>2, <1>3, RefilledTyped

LEMMA OneDatum ==
    \A block : \A c \in Core \cup {NoCore} : CoresOf({[block |-> block, core |-> c]})
BY DEF CoresOf

LEMMA RedrawnTyped ==
    ASSUME NEW page \in Contents, NEW r, Routable(r), NEW v,
           page = "dataimport" => v # 0, NEW data, CoresOf(data),
           shown' = [Drawn(page, r, v) EXCEPT !.data = data]
    PROVE  TypedShown'
<1>1. shown'.page = page /\ shown'.by = r /\ shown'.visit = v /\ shown'.data = data
  BY DEF Drawn
<1> QED
  BY <1>1 DEF TypedShown, CoresOf, Routable, Routes, Pages, Contents

LEMMA ShownTyped ==
    ASSUME TypedInv, PagesInv, [Next]_vars PROVE TypedShown'
<1> USE DEF place
<1>0. UNCHANGED shown => TypedShown'
  BY DEF TypedInv, TypedShown, CoresOf
<1>i. TypedShown /\ TypedPages /\ ClosureInv /\ visit \in Nat
  BY DEF TypedInv, PagesInv, ConsoleInv, ClosureInv
<1>c. Templated \cup Framed \cup {"cores", "plugins", "schema-browser", "dataimport",
                                    "logging", "replication"} = Pages
      /\ Contents = Pages \cup {"loading", "no handler", "no replication"}
  BY DEF Pages, Contents
<1>d. "dataimport" \notin Templated \cup Framed
  BY DEF Templated, Framed
<1>q. \A q \in InFlight :
        /\ Routable(q.route) /\ q.route.core \in Core \cup {NoCore} /\ Suits(q)
        /\ q.do = "import template" => q.visit # 0
  BY <1>i, RouteParts DEF TypedInv, TypedAsks, TypedAsk, ClosureInv
<1>w. ASSUME NEW q, NEW cores, cores \subseteq Core, Wire(q, cores, shown) PROVE TypedShown'
  <2>1. q.route.arg \in cores => CoresOf({[block |-> "core", core |-> q.route.arg]})
    BY <1>w, OneDatum
  <2> QED
    BY <1>0, <1>i, <1>w, <2>1, RefilledTyped DEF Wire
<1>1. CASE UNCHANGED vars \/ UNCHANGED <<consoleVars, pageVars>>
  BY <1>0, <1>1 DEF vars, consoleVars
<1>2. CASE NoNewRoute \/ \E r \in family.routes : Move(r)
  BY <1>0, <1>2 DEF NoNewRoute, Move
<1>3. CASE Visit
  <2>0. Routable(address) /\ visit + 1 # 0
    BY <1>i DEF TypedInv, TypedPlace
  <2>1. CASE VisitFramed(address)
    BY <1>c, <1>d, <2>0, <2>1, DrawnTyped DEF VisitFramed
  <2>2. CASE VisitPluginType(address)
    <3>1. CoresOf({[block |-> "plugins", core |-> pluginData]})
      BY <1>i, OneDatum DEF TypedPages
    <3> QED
      BY <1>0, <1>i, <2>2, <3>1, RefilledTyped DEF VisitPluginType, Rendered
  <2>3. CASE VisitSchemaBrowser(address)
    BY <1>c, <2>0, <2>3, DrawnTyped DEF VisitSchemaBrowser
  <2>4. CASE VisitTemplated(address) \/ CoreVisit(address) \/ VisitPlugins(address)
    BY <1>0, <2>4 DEF VisitTemplated, CoreVisit, VisitCoreList, VisitCore, VisitPlugins
  <2>5. CASE ImportVisit(address) \/ LoggingVisit(address) \/ ReplicationVisit(address)
    BY <1>0, <2>5 DEF ImportVisit, VisitImports, VisitImport, LoggingVisit, VisitLogging,
       ReplicationVisit, VisitReplication
  <2> QED
    BY <1>3, <2>1, <2>2, <2>3, <2>4, <2>5 DEF Visit, PlainVisit, CacheVisit
<1>4. ASSUME NEW q \in InFlight, Answered(q) PROVE TypedShown'
  <2>1. CASE Template(q)
    <3>1. q.route.page \in Templated
      BY <1>q, <2>1 DEF Template, Answer, Suits
    <3> QED
      BY <1>c, <1>d, <1>q, <2>1, <3>1, DrawnTyped DEF Template
  <2>2. CASE PlainData(q)
    BY <1>i, <1>q, <2>2, FilledTyped DEF PlainData
  <2>3. CASE CoreData(q)
    <3>1. \A cores \in Lists(q) : cores \subseteq Core
      BY DEF Lists, TypedInv, TypedAsks, TypedAsk, TypedCores
    <3> QED
      BY <1>0, <1>w, <2>3, <3>1 DEF CoreData
  <2>4. CASE CoreTemplate(q)
    <3>1. q.cores \subseteq Core
      BY DEF TypedInv, TypedAsks, TypedAsk
    <3>2. q.route.arg \in q.cores => CoresOf({[block |-> "core", core |-> q.route.arg]})
      BY <3>1, OneDatum
    <3>3. Wire(q, q.cores, Drawn("cores", q.route, q.visit))
      BY <2>4 DEF CoreTemplate
    <3>4. CASE q.route.arg \in q.cores
      <4>1. shown' = [Drawn("cores", q.route, q.visit) EXCEPT
                        !.data = {[block |-> "core", core |-> q.route.arg]}]
        BY <3>3, <3>4, DrawnPage DEF Wire
      <4> QED
        BY <1>c, <1>q, <3>2, <3>4, <4>1, RedrawnTyped
    <3>5. CASE q.route.arg \notin q.cores
      <4>1. shown' = Drawn("cores", q.route, q.visit)
        BY <3>3, <3>5 DEF Wire
      <4> QED
        BY <1>c, <1>q, <4>1, DrawnTyped
    <3> QED
      BY <3>4, <3>5
  <2>5. CASE PluginsTemplate(q)
    <3>1. CoresOf({[block |-> "plugins", core |-> pluginData]})
      BY <1>i, OneDatum DEF TypedPages
    <3>2. \/ shown' = Drawn("plugins", q.route, q.visit)
          \/ shown' = [Drawn("plugins", q.route, q.visit) EXCEPT
                         !.data = {[block |-> "plugins", core |-> pluginData]}]
      BY <2>5, DrawnPage DEF PluginsTemplate, Rendered
    <3> QED
      BY <1>c, <1>q, <3>1, <3>2, DrawnTyped, RedrawnTyped
  <2>6. CASE SchemaTemplate(q)
    <3>1. CoresOf(schemaData)
      BY <1>i DEF TypedPages, CoresOf
    <3> QED
      BY <1>c, <1>q, <2>6, <3>1, RedrawnTyped DEF SchemaTemplate
  <2>7. CASE FindHandlers(q)
    BY <1>0, <1>c, <1>q, <2>7, DrawnTyped DEF FindHandlers
  <2>8. CASE ImportTemplate(q)
    BY <1>c, <1>q, <2>8, DrawnTyped DEF ImportTemplate, Answer
  <2>9. CASE Status(q)
    <3>1. CoresOf({[block |-> "status", core |-> q.route.core]})
      BY <1>q, OneDatum
    <3> QED
      BY <1>0, <1>i, <2>9, <3>1, RefilledTyped DEF Status, StatusShown
  <2>10. CASE LoggingTemplate(q) \/ ReplicationTemplate(q)
    BY <1>c, <1>q, <2>10, DrawnTyped DEF LoggingTemplate, ReplicationTemplate
  <2>11. CASE Details(q)
    <3>1. CoresOf({[block |-> "details", core |-> q.route.core]})
      BY <1>q, OneDatum
    <3> QED
      BY <1>0, <1>i, <2>11, <3>1, RefilledTyped DEF Details
  <2>12. CASE BootCores(q) \/ BootSystem(q) \/ CommandDone(q) \/ CoreList(q)
    BY <1>0, <2>12 DEF BootCores, BootSystem, CommandDone, CoreList
  <2>13. CASE Execute(q) \/ Executed(q) \/ Mbeans(q) \/ Luke(q) \/ Schema(q)
    BY <1>0, <2>13 DEF Execute, Executed, Mbeans, Luke, Schema
  <2>14. CASE ImportDone(q) \/ Log(q) \/ Replicate(q)
    BY <1>0, <2>14 DEF ImportDone, Log, Replicate
  <2> QED
    BY <1>4, <2>1, <2>2, <2>3, <2>4, <2>5, <2>6, <2>7, <2>8, <2>9, <2>10, <2>11, <2>12,
       <2>13, <2>14
    DEF Answered, PlainAnswer, CoreAnswer, CacheAnswer, ImportAnswer, LoggingAnswer,
       ReplicationAnswer
<1>5. ASSUME NEW q \in InFlight, Failed(q) PROVE TypedShown'
  <2>1. CASE DetailsFail(q)
    BY <1>c, <1>q, <2>1, DrawnTyped DEF DetailsFail
  <2> QED
    BY <1>0, <1>5, <2>1 DEF Failed, BootFails, ImportFails, Fail
<1>6. CASE \E t \in timers : Fired(t)
  BY <1>0, <1>6 DEF Fired, ImportTimer, StatusTimer, LoggingTimer, LogTimer,
     ReplicationTimer, Tick, Refetch
<1>7. CASE Pressed
  BY <1>0, <1>7 DEF Pressed, PlainPress, PressLive, CorePress, PressButton, SubmitForm,
     ImportPress, PressImport, ToggleAutorefresh, ReplicationPress, PressRefresh,
     PressCommand
<1>8. CASE LogEvent
  BY <1>0, <1>8 DEF LogEvent
<1> QED
  BY <1>1, <1>2, <1>3, <1>4, <1>5, <1>6, <1>7, <1>8 DEF Next

LEMMA PagesTyped ==
    ASSUME TypedInv, PagesInv, [Next]_vars PROVE TypedPages'
<1> USE DEF coreVars, cacheVars
<1> DEFINE Stays == UNCHANGED <<acts, basepath, coreActs, pluginData, schemaData>>
<1>0. Stays => TypedPages'
  BY DEF TypedInv, TypedPages
<1>i. TypedPages
  BY DEF TypedInv
<1>q. \A q \in InFlight :
        /\ Routable(q.route) /\ q.route.core \in Core \cup {NoCore} /\ Suits(q)
        /\ q.route.page = "schema-browser" => q.route.core \in Core
  BY RouteParts DEF TypedInv, TypedAsks, TypedAsk, PagesInv, ConsoleInv, ClosureInv
<1>w. ASSUME NEW q, NEW cores, cores \subseteq Core, NEW content, Wire(q, cores, content),
             UNCHANGED <<acts, basepath, cacheVars>>
      PROVE  TypedPages'
  BY <1>i, <1>w DEF Wire, TypedPages
<1>1. CASE UNCHANGED vars \/ UNCHANGED <<consoleVars, pageVars>>
  BY <1>0, <1>1 DEF vars, consoleVars, pageVars
<1>2. CASE (NoNewRoute \/ \E r \in family.routes : Move(r)) /\ UNCHANGED pageVars
  BY <1>0, <1>2 DEF NoNewRoute, Move, pageVars
<1>3. CASE Visit
  <2>1. address.core \in Core \cup {NoCore}
    BY RouteParts DEF TypedInv, TypedPlace
  <2>2. CASE PlainVisit(address) /\ OfPlain
    BY <1>0, <2>2 DEF OfPlain, PlainVisit, VisitTemplated, VisitFramed
  <2>3. CASE CoreVisit(address) /\ OfCore
    BY <1>0, <2>3 DEF OfCore, CoreVisit, VisitCoreList, VisitCore
  <2>4. CASE CacheVisit(address) /\ OfCache
    BY <1>i, <2>1, <2>4 DEF OfCache, CacheVisit, VisitPlugins, VisitPluginType,
       VisitSchemaBrowser, TypedPages
  <2>5. CASE ImportVisit(address) /\ OfImport
    BY <1>0, <2>5 DEF OfImport, ImportVisit, VisitImports, VisitImport
  <2>6. CASE LoggingVisit(address) /\ OfLogging
    BY <1>0, <2>6 DEF OfLogging, LoggingVisit, VisitLogging
  <2>7. CASE ReplicationVisit(address) /\ OfReplication
    BY <1>i, <2>1, <2>7 DEF OfReplication, ReplicationVisit, VisitReplication, TypedPages
  <2> QED
    BY <1>3, <2>2, <2>3, <2>4, <2>5, <2>6, <2>7 DEF Visit
<1>4. ASSUME NEW q \in InFlight, Answered(q) PROVE TypedPages'
  <2>1. CASE (BootCores(q) \/ BootSystem(q)) /\ UNCHANGED pageVars
    BY <1>0, <2>1 DEF BootCores, BootSystem, pageVars
  <2>2. CASE PlainAnswer(q) /\ OfPlain
    <3>1. CASE PlainData(q)
      <4>1. acts' \in [Live -> Core \cup {NoCore}]
        BY <1>i, <1>q, <3>1 DEF PlainData, Bound, TypedPages
      <4> QED
        BY <1>i, <2>2, <3>1, <4>1 DEF PlainData, OfPlain, TypedPages
    <3> QED
      BY <1>0, <2>2, <3>1 DEF PlainAnswer, OfPlain, Template, CommandDone
  <2>3. CASE CoreAnswer(q) /\ OfCore
    <3>1. \A cores \in Lists(q) \cup {q.cores} : cores \subseteq Core
      BY DEF Lists, TypedInv, TypedAsks, TypedAsk, TypedCores
    <3>2. CASE CoreData(q)
      <4>1. PICK cores \in Lists(q) :
              Wire(q, cores, shown) \/ UNCHANGED coreActs
        BY <3>2 DEF CoreData
      <4>2. UNCHANGED <<acts, basepath, cacheVars>>
        BY <2>3, <3>2 DEF CoreData, OfCore
      <4> QED
        BY <1>0, <1>w, <3>1, <4>1, <4>2
    <3>3. CASE CoreTemplate(q)
      BY <1>w, <2>3, <3>1, <3>3 DEF CoreTemplate, OfCore
    <3> QED
      BY <1>0, <2>3, <3>2, <3>3 DEF CoreAnswer, OfCore, CoreList, Execute, Executed
  <2>4. CASE CacheAnswer(q) /\ OfCache
    <3>1. CASE Luke(q) \/ Schema(q)
      <4>1. q.route.core \in Core
        BY <1>q, <3>1 DEF Luke, Schema, Answer, Suits
      <4>2. \A d \in schemaData' : d.core \in Core
        <5>1. PICK block :
                schemaData' \subseteq schemaData \cup {[block |-> block, core |-> q.route.core]}
          BY <3>1 DEF Luke, Schema
        <5> QED
          BY <1>i, <4>1, <5>1 DEF TypedPages
      <4>3. UNCHANGED <<acts, basepath, coreActs, pluginData>>
        BY <2>4, <3>1 DEF Luke, Schema, OfCache
      <4> QED
        BY <1>i, <4>2, <4>3 DEF TypedPages
    <3>2. CASE Mbeans(q)
      BY <1>i, <1>q, <2>4, <3>2 DEF Mbeans, OfCache, TypedPages
    <3> QED
      BY <1>0, <2>4, <3>1, <3>2 DEF CacheAnswer, OfCache, PluginsTemplate, SchemaTemplate
  <2>5. CASE ImportAnswer(q) /\ OfImport
    BY <1>0, <2>5 DEF ImportAnswer, OfImport, FindHandlers, ImportTemplate, Status,
       ImportDone
  <2>6. CASE LoggingAnswer(q) /\ OfLogging
    BY <1>0, <2>6 DEF LoggingAnswer, OfLogging, LoggingTemplate, Log
  <2>7. CASE ReplicationAnswer(q) /\ OfReplication
    BY <1>0, <2>7 DEF ReplicationAnswer, OfReplication, ReplicationTemplate, Details,
       Replicate
  <2> QED
    BY <1>4, <2>1, <2>2, <2>3, <2>4, <2>5, <2>6, <2>7 DEF Answered
<1>5. CASE \E q \in InFlight : Failed(q)
  BY <1>0, <1>5 DEF Failed, BootFails, ImportFails, DetailsFail, Fail, OfImport,
     OfReplication, pageVars
<1>6. CASE \E t \in timers : Fired(t)
  BY <1>0, <1>6 DEF Fired, ImportTimer, StatusTimer, LoggingTimer, LogTimer,
     ReplicationTimer, Tick, Refetch, OfImport, OfLogging, OfReplication
<1>7. CASE Pressed
  BY <1>0, <1>7 DEF Pressed, PlainPress, PressLive, CorePress, PressButton, SubmitForm,
     ImportPress, PressImport, ToggleAutorefresh, ReplicationPress, PressRefresh,
     PressCommand, OfPlain, OfCore, OfImport, OfReplication
<1>8. CASE LogEvent /\ OfLogging
  BY <1>0, <1>8 DEF LogEvent, OfLogging
<1> QED
  BY <1>1, <1>2, <1>3, <1>4, <1>5, <1>6, <1>7, <1>8 DEF Next

-------------------------------------------------------------------------------
(***************************************************************************)
(* The requests and the timers.                                            *)
(***************************************************************************)
LEMMA AskTyped ==
    ASSUME NEW do, NEW r, Routable(r), NEW v, do = "import template" => v # 0
    PROVE  /\ TypedAsk(Ask(do, r, v))
           /\ \A cores \in SUBSET Core, n \in Nat : TypedAsk(AskOf(do, r, v, cores, n))
BY DEF TypedAsk, Ask, AskOf

LEMMA SentTyped ==
    ASSUME TypedAsks, IsABag(requests), NEW new, \A a \in new : TypedAsk(a),
           requests' = Sent(new)
    PROVE  TypedAsks'
<1>1. \A q \in InFlight' : q \in InFlight \/ q \in new
  BY SentAsks, InFlightOf
<1> QED
  BY <1>1 DEF TypedAsks, TypedAsk, Routable, Routes, Pages

LEMMA KeptTyped ==
    ASSUME TypedAsks, IsABag(requests), requests' = requests PROVE TypedAsks'
<1>1. \A q \in InFlight' : q \in InFlight
  BY KeptAsks, InFlightOf
<1> QED
  BY <1>1 DEF TypedAsks, TypedAsk, Routable, Routes, Pages

LEMMA ExchangedTyped ==
    ASSUME TypedAsks, IsABag(requests), NEW q, NEW new, \A a \in new : TypedAsk(a),
           requests' = Exchanged(q, new)
    PROVE  TypedAsks'
<1>1. \A p \in InFlight' : p \in InFlight \/ p \in new
  BY ExchangedAsks, InFlightOf
<1> QED
  BY <1>1 DEF TypedAsks, TypedAsk, Routable, Routes, Pages

LEMMA RequestsTyped ==
    ASSUME TypedInv, PagesInv, [Next]_vars PROVE TypedAsks'
<1> USE DEF clock
<1>v. visit \in Nat
  BY DEF PagesInv, ConsoleInv, ClosureInv
<1>i. TypedAsks /\ TypedPages /\ IsABag(requests) /\ visit + 1 # 0
  <2>1. visit + 1 # 0
    BY <1>v
  <2> QED
    BY <2>1 DEF TypedInv, PagesInv, ConsoleInv, ClosureInv
<1>0. UNCHANGED requests => TypedAsks'
  BY <1>i, KeptTyped
<1>s. \A a : requests' = Sent({a}) /\ TypedAsk(a) => TypedAsks'
  BY <1>i, SentTyped
<1>x. \A q, a : requests' = Exchanged(q, {a}) /\ TypedAsk(a) => TypedAsks'
  BY <1>i, ExchangedTyped
<1>e. \A q : requests' = Exchanged(q, {}) => TypedAsks'
  BY <1>i, ExchangedTyped
<1>r. Routable(address) /\ Routable(route) /\ Routable(shown.by)
  BY DEF TypedInv, TypedPlace, TypedShown
<1>c. menu \subseteq Core /\ alive \subseteq Core
  BY DEF TypedInv, TypedCores
<1>q. \A q \in InFlight :
        /\ Routable(q.route) /\ q.cores \subseteq Core /\ q.n \in Nat
        /\ q = AskOf(q.do, q.route, q.visit, q.cores, q.n)
  BY DEF TypedInv, TypedAsks, TypedAsk, PagesInv, ConsoleInv, ClosureInv
<1>t. \A t \in timers : Routable(t.route)
  BY DEF TypedInv, TypedTimers
<1>d. TypedAsk(FetchDetails)
  BY <1>i, AskTyped, KnownRoutes DEF FetchDetails, TypedPages
<1>w. ASSUME NEW r, Routable(r), NEW v, r.page \in Templated \cup Framed
      PROVE  \A a \in Data(r, v) : TypedAsk(a)
  <2>1. "import template" \notin PlainBlocks
    BY DEF PlainBlocks, Dashboard, Analysis, File, Cloud, Threads, LoggingLevel,
       JavaProperties, Index
  <2> QED
    BY <1>w, <2>1, WantedBlocks, AskTyped DEF Data
<1>1. CASE UNCHANGED vars \/ UNCHANGED <<consoleVars, pageVars>>
  BY <1>0, <1>1 DEF vars, consoleVars
<1>2. CASE NoNewRoute \/ \E r \in family.routes : Move(r)
  BY <1>0, <1>2 DEF NoNewRoute, Move
<1>3. CASE Visit
  <2>1. CASE VisitTemplated(address)
    BY <1>r, <1>s, <2>1, AskTyped DEF VisitTemplated
  <2>2. CASE VisitFramed(address)
    BY <1>i, <1>r, <1>w, <2>2, SentTyped DEF VisitFramed
  <2>3. CASE CoreVisit(address)
    <3>1. \A do \in {"core list", "core data"} :
            TypedAsk(AskOf(do, address, visit + 1, alive, 0))
      BY <1>i, <1>r, <1>c, AskTyped
    <3> QED
      BY <1>s, <2>3, <3>1 DEF CoreVisit, VisitCoreList, VisitCore
  <2>4. CASE CacheVisit(address)
    BY <1>0, <1>r, <1>s, <2>4, AskTyped DEF CacheVisit, VisitPlugins, VisitPluginType,
       VisitSchemaBrowser
  <2>5. CASE ImportVisit(address)
    BY <1>i, <1>r, <1>s, <2>5, AskTyped DEF ImportVisit, VisitImports, VisitImport
  <2>6. CASE LoggingVisit(address) \/ ReplicationVisit(address)
    BY <1>r, <1>s, <2>6, AskTyped DEF LoggingVisit, VisitLogging, ReplicationVisit,
       VisitReplication
  <2> QED
    BY <1>3, <2>1, <2>2, <2>3, <2>4, <2>5, <2>6 DEF Visit, PlainVisit
<1>4. ASSUME NEW q \in InFlight, Answered(q) PROVE TypedAsks'
  <2>1. CASE BootCores(q) \/ BootSystem(q)
    BY <1>e, <1>x, <2>1, AskTyped, KnownRoutes DEF BootCores, BootSystem
  <2>2. CASE Template(q)
    <3>1. q.route.page \in Templated
      BY <2>2 DEF Template, Answer, Suits, PagesInv, ConsoleInv, ClosureInv
    <3> QED
      BY <1>i, <1>q, <1>w, <2>2, <3>1, ExchangedTyped DEF Template
  <2>3. CASE PlainData(q) \/ CommandDone(q) \/ CoreList(q) \/ CoreTemplate(q) \/ Executed(q)
    BY <1>e, <2>3 DEF PlainData, CommandDone, CoreList, CoreTemplate, Executed
  <2>4. CASE CoreData(q)
    <3>1. \A cores \in Lists(q) :
            TypedAsk(AskOf("core template", q.route, q.visit, cores, 0))
      BY <1>c, <1>q, AskTyped DEF Lists
    <3> QED
      BY <1>e, <1>x, <2>4, <3>1 DEF CoreData
  <2>5. CASE Execute(q)
    <3>1. [q EXCEPT !.n = 1] = AskOf(q.do, q.route, q.visit, q.cores, 1)
      BY <1>q DEF AskOf
    <3>2. q.do # "import template"
      BY <2>5 DEF Execute, Buttons, Forms
    <3>3. TypedAsk(AskOf(q.do, q.route, q.visit, q.cores, 1))
      BY <1>q, <3>2, AskTyped
    <3>4. TypedAsk([q EXCEPT !.n = 1])
      BY <3>1, <3>3
    <3> QED
      BY <1>x, <2>5, <3>4 DEF Execute
  <2>6. CASE CacheAnswer(q)
    BY <1>e, <1>q, <1>x, <2>6, AskTyped DEF CacheAnswer, Mbeans, PluginsTemplate, Luke,
       Schema, SchemaTemplate
  <2>7. CASE ImportAnswer(q)
    BY <1>e, <1>q, <1>x, <2>7, AskTyped DEF ImportAnswer, FindHandlers, ImportTemplate,
       Status, ImportDone, FetchStatus
  <2>8. CASE LoggingAnswer(q)
    <3>1. TypedAsk(LoadViewer(0))
      BY <1>r, AskTyped DEF LoadViewer
    <3> QED
      BY <1>e, <1>x, <2>8, <3>1 DEF LoggingAnswer, LoggingTemplate, Log
  <2>9. CASE ReplicationAnswer(q)
    BY <1>d, <1>e, <1>x, <2>9 DEF ReplicationAnswer, ReplicationTemplate, Details, Replicate
  <2> QED
    BY <1>4, <2>1, <2>2, <2>3, <2>4, <2>5, <2>6, <2>7, <2>8, <2>9
    DEF Answered, PlainAnswer, CoreAnswer
<1>5. ASSUME NEW q \in InFlight, Failed(q) PROVE TypedAsks'
  <2>1. TypedAsk(FetchStatus(q.route, q.visit))
    BY <1>q, AskTyped DEF FetchStatus
  <2> QED
    BY <1>e, <1>x, <1>5, <2>1 DEF Failed, BootFails, ImportFails, DetailsFail, Fail
<1>6. ASSUME NEW t \in timers, Fired(t) PROVE TypedAsks'
  <2>1. TypedAsk(FetchStatus(t.route, t.visit))
    BY <1>t, AskTyped DEF FetchStatus
  <2>2. TypedAsk(LoadViewer(latest))
    BY <1>r, AskTyped DEF LoadViewer, TypedInv, TypedLog
  <2> QED
    BY <1>0, <1>d, <1>s, <1>6, <2>1, <2>2 DEF Fired, ImportTimer, StatusTimer, LoggingTimer,
       LogTimer, ReplicationTimer, Tick, Refetch
<1>7. CASE Pressed
  <2>1. CASE PlainPress
    BY <1>i, <1>s, <2>1, AskTyped, KnownRoutes DEF PlainPress, PressLive, TypedPages
  <2>2. CASE CorePress
    <3>1. Routable(CoreRoute(coreActs))
      BY <1>i, KnownRoutes DEF TypedPages
    <3>2. ASSUME NEW do \in Buttons, PressButton(do) PROVE TypedAsks'
      BY <1>s, <3>1, <3>2, AskTyped DEF PressButton, Buttons
    <3>3. ASSUME NEW do \in Forms, NEW other \in Core, SubmitForm(do, other)
          PROVE  TypedAsks'
      <4>1. TypedAsk(AskOf(do, CoreRoute(coreActs), visit, {other}, 0))
        BY <3>1, AskTyped DEF Forms
      <4> QED
        BY <1>s, <3>3, <4>1 DEF SubmitForm
    <3> QED
      BY <2>2, <3>2, <3>3 DEF CorePress
  <2>3. CASE ImportPress
    BY <1>r, <1>s, <2>3, AskTyped DEF ImportPress, PressImport, ToggleAutorefresh,
       FetchStatus
  <2>4. CASE ReplicationPress
    BY <1>d, <1>i, <1>s, <2>4, AskTyped, KnownRoutes DEF ReplicationPress, PressRefresh,
       PressCommand, TypedPages
  <2> QED
    BY <1>7, <2>1, <2>2, <2>3, <2>4 DEF Pressed
<1>8. CASE LogEvent
  BY <1>0, <1>8 DEF LogEvent
<1> QED
  BY <1>1, <1>2, <1>3, <1>4, <1>5, <1>6, <1>7, <1>8 DEF Next

LEMMA TimersTyped ==
    ASSUME TypedInv, [Next]_vars PROVE TypedTimers'
<1> USE DEF clock
<1>0. timers' \subseteq timers => TypedTimers'
  BY DEF TypedInv, TypedTimers, Routable, Routes, Pages
<1>a. \A id, do, r, v, n :
        timers' \subseteq timers \cup {Timer(id, do, r, v, n)} /\ Routable(r) => TypedTimers'
  BY DEF TypedInv, TypedTimers, Timer, Routable, Routes, Pages
<1>n. ASSUME NEW others \in SUBSET timers, NEW n, Countdown(others, n) PROVE TypedTimers'
  BY <1>a, <1>n, KnownRoutes DEF Countdown
<1>q. \A q \in InFlight : Routable(q.route)
  BY DEF TypedInv, TypedAsks, TypedAsk
<1>1. CASE UNCHANGED vars \/ UNCHANGED <<consoleVars, pageVars>>
  BY <1>0, <1>1 DEF vars, consoleVars
<1>2. CASE NoNewRoute \/ \E r \in family.routes : Move(r)
  BY <1>0, <1>2 DEF NoNewRoute, Move, ClearTimeout
<1>3. CASE Visit
  <2>1. RunRoute(address)
    BY <1>3 DEF Visit, PlainVisit, VisitTemplated, VisitFramed, CoreVisit, VisitCoreList,
       VisitCore, CacheVisit, VisitPlugins, VisitPluginType, VisitSchemaBrowser,
       ImportVisit, VisitImports, VisitImport, LoggingVisit, VisitLogging,
       ReplicationVisit, VisitReplication
  <2> QED
    BY <1>0, <2>1 DEF RunRoute, ClearTimeout
<1>4. ASSUME NEW q \in InFlight, Answered(q) PROVE TypedTimers'
  <2>1. CASE Status(q)
    BY <1>0, <1>a, <1>q, <2>1 DEF Status
  <2>2. CASE Log(q)
    BY <1>a, <1>q, <2>2 DEF Log
  <2>3. CASE Details(q)
    BY <1>0, <1>a, <1>n, <2>3, KnownRoutes DEF Details, InitTimer, TimersCleared
  <2>4. CASE BootCores(q) \/ BootSystem(q) \/ PlainAnswer(q)
    BY <1>0, <2>4 DEF BootCores, BootSystem, PlainAnswer, Template, PlainData, CommandDone
  <2>5. CASE CoreAnswer(q) \/ CacheAnswer(q)
    BY <1>0, <2>5 DEF CoreAnswer, CoreList, CoreData, CoreTemplate, Execute, Executed,
       CacheAnswer, Mbeans, PluginsTemplate, Luke, Schema, SchemaTemplate
  <2>6. CASE FindHandlers(q) \/ ImportTemplate(q) \/ ImportDone(q) \/ LoggingTemplate(q)
    BY <1>0, <2>6 DEF FindHandlers, ImportTemplate, ImportDone, LoggingTemplate
  <2>7. CASE ReplicationTemplate(q) \/ Replicate(q)
    BY <1>0, <2>7 DEF ReplicationTemplate, Replicate, TimersCleared
  <2> QED
    BY <1>4, <2>1, <2>2, <2>3, <2>4, <2>5, <2>6, <2>7
    DEF Answered, ImportAnswer, LoggingAnswer, ReplicationAnswer
<1>5. CASE \E q \in InFlight : Failed(q)
  BY <1>0, <1>5 DEF Failed, BootFails, ImportFails, DetailsFail, Fail
<1>6. ASSUME NEW t \in timers, Fired(t) PROVE TypedTimers'
  <2>1. CASE Tick(t)
    BY <1>n, <2>1 DEF Tick
  <2> QED
    BY <1>0, <1>6, <2>1 DEF Fired, ImportTimer, StatusTimer, LoggingTimer, LogTimer,
       ReplicationTimer, Refetch, TimersCleared
<1>7. CASE Pressed
  BY <1>0, <1>7 DEF Pressed, PlainPress, PressLive, CorePress, PressButton, SubmitForm,
     ImportPress, PressImport, ToggleAutorefresh, ReplicationPress, PressRefresh,
     PressCommand, TimersCleared
<1>8. CASE LogEvent
  BY <1>0, <1>8 DEF LogEvent
<1> QED
  BY <1>1, <1>2, <1>3, <1>4, <1>5, <1>6, <1>7, <1>8 DEF Next

-------------------------------------------------------------------------------
(***************************************************************************)
(* The log, and what is counted.                                           *)
(***************************************************************************)
LEMMA NoRows == <<>> \in Seq(1..MaxEvents)
OBVIOUS

LEMMA LogTyped ==
    ASSUME TypedInv, [Next]_vars PROVE TypedLog'
<1> USE DEF loggingVars
<1>0. UNCHANGED loggingVars => TypedLog'
  BY DEF TypedInv, TypedLog
<1>i. log \in 0..MaxEvents /\ rows \in Seq(1..MaxEvents) /\ latest \in Nat /\ MaxEvents \in Nat
  BY EventsAssumption DEF TypedInv, TypedLog
<1>1. CASE UNCHANGED vars \/ UNCHANGED <<consoleVars, pageVars>>
  BY <1>0, <1>1 DEF vars, pageVars
<1>2. CASE (NoNewRoute \/ \E r \in family.routes : Move(r)) /\ UNCHANGED pageVars
  BY <1>0, <1>2 DEF pageVars
<1>3. CASE Visit
  BY <1>0, <1>3 DEF Visit, OfPlain, OfCore, OfCache, OfImport, OfReplication,
     LoggingVisit, VisitLogging
<1>4. ASSUME NEW q \in InFlight, Answered(q) PROVE TypedLog'
  <2>1. CASE LoggingTemplate(q)
    <3>1. log' = log /\ rows' = <<>> /\ latest' = 0
      BY <2>1 DEF LoggingTemplate
    <3> QED
      BY <1>i, <3>1, NoRows DEF TypedLog
  <2>2. CASE Log(q)
    <3>0. q.n \in Nat
      BY DEF TypedInv, TypedAsks, TypedAsk
    <3>1. PICK upto \in q.n..log :
            /\ rows' = rows \o Events(q.n, upto)
            /\ latest' = IF upto > q.n THEN upto ELSE latest
      BY <2>2 DEF Log
    <3>2. upto \in Nat /\ upto <= MaxEvents
      BY <1>i, <3>0, <3>1
    <3>3. \A i \in 1..(upto - q.n) : q.n + i \in 1..MaxEvents
      BY <1>i, <3>0, <3>2
    <3>4. Events(q.n, upto) \in Seq(1..MaxEvents)
      <4>1. upto - q.n \in Nat
        BY <3>0, <3>1, <3>2
      <4>2. Events(q.n, upto) \in [1..(upto - q.n) -> 1..MaxEvents]
        BY <3>3 DEF Events
      <4> QED
        BY <4>1, <4>2, SeqDef
    <3>5. rows' \in Seq(1..MaxEvents)
      BY <1>i, <3>1, <3>4, ConcatProperties
    <3>6. latest' \in Nat /\ log' = log
      BY <1>i, <2>2, <3>1, <3>2 DEF Log
    <3> QED
      BY <1>i, <3>5, <3>6 DEF TypedLog
  <2> QED
    BY <1>0, <1>4, <2>1, <2>2 DEF Answered, OfPlain, OfCore, OfCache, OfImport,
       OfReplication, LoggingAnswer, pageVars
<1>5. CASE \E q \in InFlight : Failed(q)
  BY <1>0, <1>5 DEF Failed, OfImport, OfReplication, pageVars
<1>6. CASE \E t \in timers : Fired(t)
  BY <1>0, <1>6 DEF Fired, OfImport, OfReplication, LoggingTimer, LogTimer
<1>7. CASE Pressed
  BY <1>0, <1>7 DEF Pressed, OfPlain, OfCore, OfImport, OfReplication
<1>8. CASE LogEvent
  BY <1>i, <1>8 DEF LogEvent, TypedLog
<1> QED
  BY <1>1, <1>2, <1>3, <1>4, <1>5, <1>6, <1>7, <1>8 DEF Next

LEMMA MovesTyped ==
    ASSUME TypedInv, PagesInv, [Next]_vars PROVE moves' \in 0..family'.moves
<1> USE DEF user
<1>1. family' = family
  BY FamilyKept
<1>2. moves \in 0..family.moves /\ family.moves \in Nat
  BY ConsoleAssumption DEF TypedInv, TypedVisits, PagesInv, PlaceInv
<1>3. \/ UNCHANGED moves
      \/ moves < family.moves /\ moves' = moves + 1
  <2>1. CASE UNCHANGED vars \/ UNCHANGED <<consoleVars, pageVars>>
    BY <2>1 DEF vars, consoleVars
  <2>2. CASE NoNewRoute \/ \E r \in family.routes : Move(r)
    BY <2>2 DEF NoNewRoute, LocationChanged, Move
  <2>3. CASE Visit
    <3>1. RunRoute(address)
      BY <2>3 DEF Visit, PlainVisit, VisitTemplated, VisitFramed, CoreVisit, VisitCoreList,
         VisitCore, CacheVisit, VisitPlugins, VisitPluginType, VisitSchemaBrowser,
         ImportVisit, VisitImports, VisitImport, LoggingVisit, VisitLogging,
         ReplicationVisit, VisitReplication
    <3> QED
      BY <3>1 DEF RunRoute, LocationChanged
  <2>4. ASSUME NEW q, Answered(q) PROVE UNCHANGED moves
    <3>1. CASE BootCores(q) \/ BootSystem(q) \/ PlainAnswer(q)
      BY <3>1 DEF BootCores, BootSystem, PlainAnswer, Template, PlainData, CommandDone
    <3>2. CASE CoreAnswer(q) \/ CacheAnswer(q)
      BY <3>2 DEF CoreAnswer, CoreList, CoreData, CoreTemplate, Execute, Executed,
         CacheAnswer, Mbeans, PluginsTemplate, Luke, Schema, SchemaTemplate
    <3>3. CASE ImportAnswer(q) \/ LoggingAnswer(q) \/ ReplicationAnswer(q)
      BY <3>3 DEF ImportAnswer, FindHandlers, ImportTemplate, Status, ImportDone,
         LoggingAnswer, LoggingTemplate, Log, ReplicationAnswer, ReplicationTemplate,
         Details, Replicate
    <3> QED
      BY <2>4, <3>1, <3>2, <3>3 DEF Answered
  <2>5. CASE \E q \in InFlight : Failed(q)
    BY <2>5 DEF Failed, BootFails, ImportFails, DetailsFail, Fail
  <2>6. CASE \E t \in timers : Fired(t)
    BY <2>6 DEF Fired, ImportTimer, StatusTimer, LoggingTimer, LogTimer, ReplicationTimer,
       Tick, Refetch
  <2>7. CASE Pressed
    BY <2>7 DEF Pressed, PlainPress, PressLive, CorePress, PressButton, SubmitForm,
       ImportPress, PressImport, ToggleAutorefresh, ReplicationPress, PressRefresh,
       PressCommand, Press
  <2>8. CASE LogEvent
    BY <2>8 DEF LogEvent
  <2> QED
    BY <2>1, <2>2, <2>3, <2>4, <2>5, <2>6, <2>7, <2>8 DEF Next
<1> QED
  BY <1>1, <1>2, <1>3

LEMMA VisitsTyped ==
    ASSUME TypedInv, PagesInv, [Next]_vars
    PROVE  autorefresh' \subseteq 1..visit' /\ element' \in 0..visit'
<1> USE DEF place, importVars, replicationVars
<1>i. visit \in Nat /\ autorefresh \subseteq 1..visit /\ element \in 0..visit
  BY DEF TypedInv, TypedVisits, PagesInv, ConsoleInv, ClosureInv
<1> DEFINE Goal == autorefresh' \subseteq 1..visit' /\ element' \in 0..visit'
<1>0. visit' \in {visit, visit + 1} /\ UNCHANGED <<autorefresh, element>> => Goal
  <2>1. 1..visit \subseteq 1..(visit + 1) /\ 0..visit \subseteq 0..(visit + 1)
    BY <1>i
  <2> QED
    BY <1>i, <2>1
<1>f. ASSUME NEW v \in 1..visit, NEW wanted, autorefresh' = Following(v, wanted),
             UNCHANGED <<visit, element>>
      PROVE  Goal
  BY <1>i, <1>f DEF Following
<1>q. \A q \in InFlight :
        /\ q.visit \in 0..visit
        /\ q.do = "import template" => q.visit \in 1..visit
  <2>1. \A q \in InFlight : q.visit \in 0..visit
    BY DEF PagesInv, ConsoleInv, ClosureInv
  <2>2. \A q \in InFlight : q.do = "import template" => q.visit # 0
    BY DEF TypedInv, TypedAsks, TypedAsk
  <2>3. \A v \in 0..visit : v # 0 => v \in 1..visit
    BY <1>i
  <2> QED
    BY <2>1, <2>2, <2>3
<1>1. CASE UNCHANGED vars \/ UNCHANGED <<consoleVars, pageVars>>
  BY <1>0, <1>1 DEF vars, consoleVars, pageVars
<1>2. CASE (NoNewRoute \/ \E r \in family.routes : Move(r)) /\ UNCHANGED pageVars
  BY <1>0, <1>2 DEF NoNewRoute, Move, pageVars
<1>3. CASE Visit
  <2>1. RunRoute(address)
    BY <1>3 DEF Visit, PlainVisit, VisitTemplated, VisitFramed, CoreVisit, VisitCoreList,
       VisitCore, CacheVisit, VisitPlugins, VisitPluginType, VisitSchemaBrowser,
       ImportVisit, VisitImports, VisitImport, LoggingVisit, VisitLogging,
       ReplicationVisit, VisitReplication
  <2>2. visit' = visit + 1
    BY <2>1 DEF RunRoute
  <2>3. UNCHANGED <<autorefresh, element>>
    BY <1>3 DEF Visit, OfPlain, OfCore, OfCache, OfImport, OfLogging, OfReplication,
       ImportVisit, VisitImports, VisitImport, ReplicationVisit, VisitReplication
  <2> QED
    BY <1>0, <2>2, <2>3
<1>4. ASSUME NEW q \in InFlight, Answered(q) PROVE Goal
  <2>1. CASE (BootCores(q) \/ BootSystem(q)) /\ UNCHANGED pageVars
    BY <1>0, <2>1 DEF BootCores, BootSystem, pageVars
  <2>2. CASE PlainAnswer(q) /\ OfPlain
    BY <1>0, <2>2 DEF OfPlain, PlainAnswer, Template, PlainData, CommandDone
  <2>3. CASE CoreAnswer(q) /\ OfCore
    <3>1. visit' = visit
      BY <2>3 DEF CoreAnswer, CoreList, CoreData, CoreTemplate, Execute, Executed, Redirect,
         Refresh
    <3> QED
      BY <1>0, <2>3, <3>1 DEF OfCore
  <2>4. CASE CacheAnswer(q) /\ OfCache
    BY <1>0, <2>4 DEF OfCache, CacheAnswer, Mbeans, PluginsTemplate, Luke, Schema,
       SchemaTemplate, Redirect
  <2>5. CASE ImportAnswer(q) /\ OfImport
    <3>1. CASE ImportTemplate(q)
      <4>1. q.visit \in 1..visit
        BY <1>q, <3>1 DEF ImportTemplate, Answer
      <4> QED
        BY <1>f, <2>5, <3>1, <4>1 DEF ImportTemplate, OfImport
    <3> QED
      BY <1>0, <2>5, <3>1 DEF OfImport, ImportAnswer, FindHandlers, Status, ImportDone,
         Redirect
  <2>6. CASE LoggingAnswer(q) /\ OfLogging
    BY <1>0, <2>6 DEF OfLogging, LoggingAnswer, LoggingTemplate, Log
  <2>7. CASE ReplicationAnswer(q) /\ OfReplication
    <3>1. visit' = visit /\ autorefresh' = autorefresh /\ element' \in {element, q.visit}
      BY <2>7 DEF OfReplication, ReplicationAnswer, ReplicationTemplate, Details, Replicate
    <3> QED
      BY <1>i, <1>q, <3>1
  <2> QED
    BY <1>4, <2>1, <2>2, <2>3, <2>4, <2>5, <2>6, <2>7 DEF Answered
<1>5. CASE \E q \in InFlight : Failed(q)
  BY <1>0, <1>5 DEF Failed, BootFails, ImportFails, DetailsFail, Fail, OfImport,
     OfReplication, pageVars
<1>6. CASE \E t \in timers : Fired(t)
  BY <1>0, <1>6 DEF Fired, ImportTimer, StatusTimer, LoggingTimer, LogTimer,
     ReplicationTimer, Tick, Refetch, OfImport, OfLogging, OfReplication
<1>7. CASE Pressed
  <2>1. CASE ToggleAutorefresh /\ OfImport
    <3>1. shown.visit \in 1..visit
      <4>1. shown.visit # 0
        BY <2>1 DEF ToggleAutorefresh, TypedInv, TypedShown
      <4>2. shown.visit \in 0..visit
        BY DEF PagesInv, ConsoleInv, ClosureInv
      <4> QED
        BY <1>i, <4>1, <4>2
    <3> QED
      BY <1>f, <2>1, <3>1 DEF ToggleAutorefresh, OfImport
  <2> QED
    BY <1>0, <1>7, <2>1 DEF Pressed, PlainPress, PressLive, CorePress, PressButton,
       SubmitForm, ImportPress, PressImport, ReplicationPress, PressRefresh, PressCommand,
       OfPlain, OfCore, OfImport, OfReplication
<1>8. CASE LogEvent /\ OfLogging
  BY <1>0, <1>8 DEF LogEvent, OfLogging
<1> QED
  BY <1>1, <1>2, <1>3, <1>4, <1>5, <1>6, <1>7, <1>8 DEF Next

LEMMA TypesStart == ASSUME Init PROVE TypedInv
<1>1. /\ family \in Families /\ family.moves \in Nat /\ family.cores \subseteq Core
      /\ Routable(address) /\ Routable(NoRoute)
  BY FamilyRoutes, KnownRoutes, ConsoleAssumption DEF Init, ConsoleInit
<1>2. TypedPlace /\ TypedCores
  BY <1>1 DEF Init, ConsoleInit, TypedPlace, TypedCores
<1>3. TypedShown
  BY <1>1 DEF Init, ConsoleInit, Drawn, TypedShown, CoresOf, Contents
<1>4. TypedAsks
  <2>1. InFlight = {Ask("boot cores", NoRoute, 0)}
    BY DEF Init, ConsoleInit, InFlight, BagToSet, SetToBag
  <2> QED
    BY <1>1, <2>1, AskTyped DEF TypedAsks
<1>5. TypedTimers
  BY DEF Init, ConsoleInit, TypedTimers
<1>6. TypedPages
  BY DEF Init, ConsoleInit, PlainInit, CoreInit, CacheInit, TypedPages
<1>7. TypedLog
  <2>1. log = 0 /\ rows = <<>> /\ latest = 0
    BY DEF Init, LoggingInit
  <2>2. 0 \in 0..MaxEvents /\ 0 \in Nat
    BY EventsAssumption
  <2> QED
    BY <2>1, <2>2, NoRows DEF TypedLog
<1>8. TypedVisits
  <2>1. moves = 0 /\ autorefresh = {} /\ element = 0 /\ visit = 0
    BY DEF Init, ConsoleInit, ImportInit, ReplicationInit
  <2> QED
    BY <1>1, <2>1 DEF TypedVisits
<1> QED
  BY <1>2, <1>3, <1>4, <1>5, <1>6, <1>7, <1>8 DEF TypedInv

(***************************************************************************)
(* Every variable of the console keeps its type: the routes in the         *)
(* closures and in the location are the console's own, what is shown is of *)
(* a core of the server or of none, no two timers share a handle, and      *)
(* every closure is of a visit there was.                                  *)
(***************************************************************************)
THEOREM TypeCorrect == Spec => []TypeOK
<1>1. Init => TypedInv /\ RefreshInv
  BY TypesStart, RefreshStarts
<1>2. PagesInv /\ TypedInv /\ [Next]_vars => TypedInv'
  <2>1. SUFFICES ASSUME PagesInv, TypedInv, [Next]_vars PROVE TypedInv'
    OBVIOUS
  <2>2. TypedVisits'
    BY <2>1, MovesTyped, VisitsTyped DEF TypedVisits
  <2> QED
    BY <2>1, <2>2, PlaceTyped, CoresTyped, ShownTyped, RequestsTyped, TimersTyped,
       PagesTyped, LogTyped
    DEF TypedInv
<1>3. PagesInv /\ RefreshInv /\ [Next]_vars => RefreshInv'
  BY RefreshStep
<1>4. ASSUME PagesInv, TypedInv, RefreshInv PROVE TypeOK
  <2> USE DEF TypedInv, PagesInv, ConsoleInv
  <2>1. {address, last, route, shown.by} \subseteq Routes
    BY <1>4 DEF TypedPlace, TypedShown, Routable
  <2>2. \A q \in InFlight : q.visit \in 0..visit /\ q.route \in Routes
    BY <1>4 DEF TypedAsks, TypedAsk, Routable, ClosureInv
  <2>3. {t.id : t \in timers} \subseteq Nat \ {0}
    BY <1>4 DEF RefreshInv, FreshTimers
  <2>4. (\A t, u \in timers : t.id = u.id => t = u) /\ {timeout, ticker} \subseteq Nat
    BY <1>4 DEF RefreshInv, FreshTimers
  <2>5. /\ shown.page \in Contents /\ shown.visit \in 0..visit /\ visit \in Nat
        /\ \A d \in shown.data : d.core \in Core \cup {NoCore}
    BY <1>4 DEF TypedShown, CoresOf, ClosureInv
  <2>6. /\ family \in Families
        /\ moves \in 0..family.moves /\ autorefresh \subseteq 1..visit /\ element \in 0..visit
    BY <1>4 DEF PlaceInv, TypedVisits
  <2>7. running \in BOOLEAN /\ due \in BOOLEAN /\ wrecked \in BOOLEAN
    BY <1>4 DEF TypedPlace, TypedCores
  <2>8. /\ menu \cup alive \subseteq Core /\ rows \in Seq(1..MaxEvents)
        /\ acts \in [Live -> Core \cup {NoCore}]
        /\ {basepath, coreActs, pluginData} \subseteq Core \cup {NoCore}
        /\ \A d \in schemaData : d.core \in Core
    BY <1>4 DEF TypedCores, TypedLog, TypedPages
  <2> QED
    BY <2>1, <2>2, <2>3, <2>4, <2>5, <2>6, <2>7, <2>8 DEF TypeOK
<1> QED
  BY <1>1, <1>2, <1>3, <1>4, PagesHold, PTL DEF Spec

-------------------------------------------------------------------------------
(***************************************************************************)
(* The elements of a sequence.                                             *)
(***************************************************************************)
LEMMA ElementsJoined ==
    ASSUME NEW S, NEW s \in Seq(S), NEW t \in Seq(S)
    PROVE  ToSet(s \o t) = ToSet(s) \cup ToSet(t)
<1>. DEFINE u == s \o t
<1>1. /\ u \in Seq(S) /\ Len(u) = Len(s) + Len(t)
      /\ \A i \in 1..(Len(s) + Len(t)) : u[i] = IF i <= Len(s) THEN s[i] ELSE t[i - Len(s)]
  BY ConcatProperties
<1>2. /\ DOMAIN u = 1..(Len(s) + Len(t)) /\ DOMAIN s = 1..Len(s) /\ DOMAIN t = 1..Len(t)
      /\ Len(s) \in Nat /\ Len(t) \in Nat
  BY <1>1
<1>. HIDE DEF u
<1>3. ASSUME NEW i \in 1..(Len(s) + Len(t)) PROVE u[i] \in ToSet(s) \cup ToSet(t)
  <2>1. CASE i <= Len(s)
    BY <1>1, <1>2, <2>1 DEF ToSet
  <2>2. CASE ~(i <= Len(s))
    <3>1. i - Len(s) \in 1..Len(t)
      BY <1>2, <2>2
    <3>. QED BY <1>1, <1>2, <2>2, <3>1 DEF ToSet
  <2>. QED BY <2>1, <2>2
<1>4. ASSUME NEW i \in 1..Len(s) PROVE s[i] \in ToSet(u)
  <2>1. i \in 1..(Len(s) + Len(t)) /\ i <= Len(s)
    BY <1>2
  <2>2. u[i] = s[i]
    BY <1>1, <2>1
  <2>. QED BY <1>2, <2>1, <2>2 DEF ToSet
<1>5. ASSUME NEW i \in 1..Len(t) PROVE t[i] \in ToSet(u)
  <2>1. i + Len(s) \in 1..(Len(s) + Len(t)) /\ ~(i + Len(s) <= Len(s)) /\ (i + Len(s)) - Len(s) = i
    BY <1>2
  <2>2. u[i + Len(s)] = t[i]
    BY <1>1, <2>1
  <2>. QED BY <1>2, <2>1, <2>2 DEF ToSet
<1>6. ToSet(u) \subseteq ToSet(s) \cup ToSet(t)
  BY <1>2, <1>3 DEF ToSet
<1>7. ToSet(s) \subseteq ToSet(u) /\ ToSet(t) \subseteq ToSet(u)
  <2>1. \A i \in 1..Len(s) : s[i] \in ToSet(u)
    BY <1>4
  <2>2. \A i \in 1..Len(t) : t[i] \in ToSet(u)
    BY <1>5
  <2>3. ToSet(s) = {s[i] : i \in 1..Len(s)} /\ ToSet(t) = {t[i] : i \in 1..Len(t)}
    BY <1>2 DEF ToSet
  <2>. QED BY <2>1, <2>2, <2>3
<1>. QED BY <1>6, <1>7 DEF u

(***************************************************************************)
(* The first element goes over from one sequence to another.               *)
(***************************************************************************)
LEMMA HeadAndTail ==
    ASSUME NEW S, NEW r \in Seq(S), NEW s \in Seq(S), s # <<>>
    PROVE  /\ Head(s) \in S /\ Head(s) \in ToSet(s)
           /\ Tail(s) \in Seq(S) /\ Len(Tail(s)) = Len(s) - 1
           /\ ToSet(s) = {Head(s)} \cup ToSet(Tail(s))
           /\ Append(r, Head(s)) \o Tail(s) = r \o s
<1>. DEFINE h == Head(s)
            t == Tail(s)
<1>1. /\ h \in S /\ t \in Seq(S) /\ Len(t) = Len(s) - 1
      /\ \A i \in 1..Len(t) : t[i] = s[i + 1]
      /\ h = s[1] /\ Len(s) \in Nat /\ Len(s) > 0 /\ Len(r) \in Nat
  BY HeadTailProperties
<1>. HIDE DEF h, t
<1>. DEFINE one == <<h>>
            both == one \o t
<1>5. one \in Seq(S) /\ Len(one) = 1 /\ one[1] = h
  BY <1>1
<1>6. ToSet(one) = {h}
  BY DEF ToSet
<1>7. Append(r, h) = r \o one
  BY <1>1
<1>. HIDE DEF one
<1>2. s = one \o t
  <2>1. /\ both \in Seq(S) /\ Len(both) = 1 + Len(t)
        /\ \A i \in 1..(1 + Len(t)) : both[i] = IF i <= 1 THEN one[i] ELSE t[i - 1]
    <3>1. /\ both \in Seq(S) /\ Len(both) = Len(one) + Len(t)
          /\ \A i \in 1..(Len(one) + Len(t)) :
                both[i] = IF i <= Len(one) THEN one[i] ELSE t[i - Len(one)]
      <4>1. one \in Seq(S) /\ t \in Seq(S)
        BY <1>1, <1>5
      <4>. QED BY <4>1, ConcatProperties
    <3>. HIDE DEF both
    <3>. QED BY <1>1, <1>5, <3>1
  <2>. HIDE DEF both
  <2>2. ASSUME NEW i \in 1..Len(s) PROVE s[i] = both[i]
    <3>1. CASE i = 1
      BY <1>1, <1>5, <2>1, <3>1
    <3>2. CASE i # 1
      <4>1. i - 1 \in 1..Len(t) /\ i \in 1..(1 + Len(t)) /\ ~(i <= 1) /\ (i - 1) + 1 = i
        BY <1>1, <3>2
      <4>. QED BY <1>1, <2>1, <4>1
    <3>. QED BY <3>1, <3>2
  <2>3. Len(s) = Len(both)
    BY <1>1, <2>1
  <2>4. s = both
    BY <2>1, <2>2, <2>3, SeqEqual
  <2>. QED BY <2>4 DEF both
<1>3. Append(r, h) \o t = r \o s
  <2>1. (r \o one) \o t = r \o (one \o t)
    BY <1>1, <1>5, ConcatAssociative
  <2>. QED BY <1>2, <1>7, <2>1
<1>4. ToSet(s) = {h} \cup ToSet(t)
  <2>1. ToSet(one \o t) = ToSet(one) \cup ToSet(t)
    BY <1>1, <1>5, ElementsJoined
  <2>. QED BY <1>2, <1>6, <2>1
<1>. QED BY <1>1, <1>3, <1>4 DEF h, t

(***************************************************************************)
(* A sequence without repetition has as many elements as places.           *)
(***************************************************************************)
LEMMA CountOf ==
    ASSUME NEW S, NEW s \in Seq(S), \A i, j \in 1..Len(s) : i < j => s[i] # s[j]
    PROVE  IsFiniteSet(ToSet(s)) /\ Cardinality(ToSet(s)) = Len(s)
<1>1. Len(s) \in Nat /\ s \in [1..Len(s) -> S]
  OBVIOUS
<1>2. ToSet(s) = {s[i] : i \in 1..Len(s)}
  BY DEF ToSet
<1>3. s \in Bijection(1..Len(s), ToSet(s))
  <2>1. s \in [1..Len(s) -> ToSet(s)]
    BY <1>1, <1>2
  <2>2. \A i, j \in 1..Len(s) : s[i] = s[j] => i = j
    BY <1>1
  <2>3. \A x \in ToSet(s) : \E i \in 1..Len(s) : s[i] = x
    BY <1>2
  <2>. QED BY <2>1, <2>2, <2>3 DEF Bijection, Injection, Surjection, IsInjective
<1>4. IsFiniteSet(1..Len(s)) /\ Cardinality(1..Len(s)) = Len(s)
  BY <1>1, FS_Interval
<1>. QED BY <1>3, <1>4, FS_Bijection DEF ExistsBijection

(***************************************************************************)
(* RemoveFirst takes out one place.                                        *)
(***************************************************************************)
LEMMA RemoveOne ==
    ASSUME NEW S, NEW s \in Seq(S), NEW x
    PROVE  /\ x \notin ToSet(s) => RemoveFirst(s, x) = s
           /\ x \in ToSet(s) =>
                \E i \in 1..Len(s) :
                    /\ s[i] = x
                    /\ RemoveFirst(s, x) \in Seq(S)
                    /\ Len(RemoveFirst(s, x)) = Len(s) - 1
                    /\ \A k \in 1..(Len(s) - 1) :
                          RemoveFirst(s, x)[k] = IF k < i THEN s[k] ELSE s[k + 1]
<1>1. ToSet(s) = {s[i] : i \in 1..Len(s)} /\ Len(s) \in Nat
  BY DEF ToSet
<1>2. x \notin ToSet(s) => RemoveFirst(s, x) = s
  BY <1>1 DEF RemoveFirst
<1>3. ASSUME x \in ToSet(s)
      PROVE  \E i \in 1..Len(s) :
                    /\ s[i] = x
                    /\ RemoveFirst(s, x) \in Seq(S)
                    /\ Len(RemoveFirst(s, x)) = Len(s) - 1
                    /\ \A k \in 1..(Len(s) - 1) :
                          RemoveFirst(s, x)[k] = IF k < i THEN s[k] ELSE s[k + 1]
  <2>. DEFINE I == {i \in 1..Len(s) : s[i] = x}
              m == Min(I)
              a == SubSeq(s, 1, m - 1)
              b == SubSeq(s, m + 1, Len(s))
  <2>1. I # {} /\ I \subseteq Nat
    BY <1>1, <1>3
  <2>2. \E n \in I : \A y \in I : n =< y
    <3>. HIDE DEF I
    <3>1. PICK n \in I : \A y \in I : ~ (<<y, n>> \in OpToRel(<, Nat))
      BY <2>1, NatLessThanWellFounded, WFMin
    <3>2. \A y \in I : ~(y < n)
      BY <2>1, <3>1 DEF OpToRel
    <3>3. \A y \in I : n =< y
      BY <2>1, <3>2
    <3>. QED BY <3>3
  <2>3. m \in I
    <3>. HIDE DEF I
    <3>. QED BY <2>2 DEF Min
  <2>4. m \in 1..Len(s) /\ s[m] = x
    BY <2>3
  <2>5. RemoveFirst(s, x) = a \o b
    BY <1>1, <1>3, <2>1 DEF RemoveFirst, RemoveAt, SelectInSeq
  <2>. HIDE DEF I, m
  <2>6. /\ a \in Seq(S) /\ Len(a) = m - 1
        /\ \A k \in 1..(m - 1) : a[k] = s[k]
    <3>1. \A k \in 1..(m - 1) : s[k] \in S
      BY <1>1, <2>4
    <3>2. /\ a \in Seq(S) /\ Len(a) = IF 1 <= m - 1 THEN (m - 1) - 1 + 1 ELSE 0
          /\ \A k \in 1..((m - 1) - 1 + 1) : a[k] = s[(1 + k) - 1]
      BY <2>4, <3>1, SubSeqProperties
    <3>. QED BY <2>4, <3>2
  <2>7. /\ b \in Seq(S) /\ Len(b) = Len(s) - m
        /\ \A k \in 1..(Len(s) - m) : b[k] = s[k + m]
    <3>1. \A k \in (m + 1)..Len(s) : s[k] \in S
      BY <1>1, <2>4
    <3>2. /\ b \in Seq(S) /\ Len(b) = IF m + 1 <= Len(s) THEN (Len(s) - (m + 1)) + 1 ELSE 0
          /\ \A k \in 1..((Len(s) - (m + 1)) + 1) : b[k] = s[((m + 1) + k) - 1]
      BY <1>1, <2>4, <3>1, SubSeqProperties
    <3>. QED BY <1>1, <2>4, <3>2
  <2>. HIDE DEF a, b
  <2>8. /\ a \o b \in Seq(S) /\ Len(a \o b) = Len(a) + Len(b)
        /\ \A k \in 1..(Len(a) + Len(b)) : (a \o b)[k] = IF k <= Len(a) THEN a[k] ELSE b[k - Len(a)]
    BY <2>6, <2>7, ConcatProperties
  <2>9. Len(a) + Len(b) = Len(s) - 1
    BY <1>1, <2>4, <2>6, <2>7
  <2>10. ASSUME NEW k \in 1..(Len(s) - 1) PROVE (a \o b)[k] = IF k < m THEN s[k] ELSE s[k + 1]
    <3>1. CASE k < m
      <4>1. k <= Len(a) /\ k \in 1..(m - 1)
        BY <2>4, <2>6, <3>1
      <4>. QED BY <2>6, <2>8, <2>9, <3>1, <4>1
    <3>2. CASE ~(k < m)
      <4>1. ~(k <= Len(a)) /\ k - Len(a) \in 1..(Len(s) - m) /\ (k - Len(a)) + m = k + 1
        BY <1>1, <2>4, <2>6, <3>2
      <4>. QED BY <2>7, <2>8, <2>9, <3>2, <4>1
    <3>. QED BY <3>1, <3>2
  <2>. QED BY <2>4, <2>5, <2>8, <2>9, <2>10
<1>. QED BY <1>2, <1>3

(***************************************************************************)
(* Everything that runs, in the order in which it is to run.               *)
(***************************************************************************)
Whole == <<"main", "order">> \o Fetched

Before(x, y) == \E i, j \in 1..Len(Whole) : i < j /\ Whole[i] = x /\ Whole[j] = y

InOrder(s) ==
    /\ s \in Seq(Files)
    /\ \A i, j \in 1..Len(s) : i < j => Before(s[i], s[j])

(***************************************************************************)
(* What is fetched is the list without jquery, each script once.           *)
(***************************************************************************)
LEMMA FetchedIs ==
    /\ Fetched \in Seq(Scripts) /\ Len(Fetched) \in Nat
    /\ Scripts = ToSet(List) \ {Jquery}
    /\ Scripts # {}
    /\ \A i, j \in 1..Len(Fetched) : Fetched[i] = Fetched[j] => i = j
    /\ Scripts = {Fetched[i] : i \in 1..Len(Fetched)}
<1>. DEFINE S == ToSet(List)
            L == Len(List)
<1>1. /\ List \in Seq(S) /\ L \in Nat /\ L > 1 /\ Jquery \in S
      /\ \A i, j \in 1..L : List[i] = List[j] => i = j
      /\ S = {List[i] : i \in 1..L}
  <2>1. List \in Seq(S) /\ L > 1 /\ Jquery \in S /\ IsInjective(List)
    BY ListAssumption
  <2>2. DOMAIN List = 1..L /\ L \in Nat
    BY <2>1
  <2>. QED BY <2>1, <2>2 DEF IsInjective, ToSet
<1>. HIDE DEF S
<1>2. PICK i \in 1..L :
         /\ List[i] = Jquery
         /\ Fetched \in Seq(S)
         /\ Len(Fetched) = L - 1
         /\ \A k \in 1..(L - 1) : Fetched[k] = IF k < i THEN List[k] ELSE List[k + 1]
  <2>1. Jquery \in ToSet(List)
    BY <1>1 DEF S
  <2>2. List \in Seq(S)
    BY <1>1
  <2>3. \E i \in 1..L :
          /\ List[i] = Jquery
          /\ RemoveFirst(List, Jquery) \in Seq(S)
          /\ Len(RemoveFirst(List, Jquery)) = L - 1
          /\ \A k \in 1..(L - 1) :
                RemoveFirst(List, Jquery)[k] = IF k < i THEN List[k] ELSE List[k + 1]
    BY <2>1, <2>2, RemoveOne
  <2>. QED BY <2>3 DEF Fetched
<1>. HIDE DEF L
<1>3. Scripts = {Fetched[k] : k \in 1..(L - 1)}
  <2>1. DOMAIN Fetched = 1..(L - 1)
    BY <1>2
  <2>. QED BY <2>1 DEF Scripts, ToSet
<1>4. \A k \in 1..(L - 1) : Fetched[k] \in S \ {Jquery}
  <2>. SUFFICES ASSUME NEW k \in 1..(L - 1) PROVE Fetched[k] \in S \ {Jquery}
    OBVIOUS
  <2>1. CASE k < i
    <3>1. k \in 1..L /\ k # i
      BY <1>1, <2>1
    <3>. QED BY <1>1, <1>2, <2>1, <3>1
  <2>2. CASE ~(k < i)
    <3>1. k + 1 \in 1..L /\ k + 1 # i
      BY <1>1, <1>2, <2>2
    <3>. QED BY <1>1, <1>2, <2>2, <3>1
  <2>. QED BY <2>1, <2>2
<1>5. S \ {Jquery} \subseteq Scripts
  <2>. SUFFICES ASSUME NEW x \in S, x # Jquery PROVE x \in Scripts
    OBVIOUS
  <2>1. PICK k \in 1..L : List[k] = x
    BY <1>1
  <2>2. k # i
    BY <1>2, <2>1
  <2>3. CASE k < i
    <3>1. k \in 1..(L - 1)
      BY <1>1, <2>3
    <3>. QED BY <1>2, <1>3, <2>1, <2>3, <3>1
  <2>4. CASE ~(k < i)
    <3>1. k - 1 \in 1..(L - 1) /\ ~(k - 1 < i) /\ (k - 1) + 1 = k
      BY <1>1, <1>2, <2>2, <2>4
    <3>. QED BY <1>2, <1>3, <2>1, <3>1
  <2>. QED BY <2>3, <2>4
<1>6. ASSUME NEW j \in 1..(L - 1), NEW k \in 1..(L - 1), j < k PROVE Fetched[j] # Fetched[k]
  <2>. DEFINE p(n) == IF n < i THEN n ELSE n + 1
  <2>1. p(j) \in 1..L /\ p(k) \in 1..L /\ p(j) # p(k)
    BY <1>1, <1>2, <1>6
  <2>2. Fetched[j] = List[p(j)] /\ Fetched[k] = List[p(k)]
    BY <1>2
  <2>. HIDE DEF p
  <2>. QED BY <1>1, <2>1, <2>2
<1>7. Scripts = S \ {Jquery}
  BY <1>3, <1>4, <1>5
<1>8. Fetched \in Seq(Scripts)
  <2>1. \A k \in 1..Len(Fetched) : Fetched[k] \in Scripts
    BY <1>2, <1>3
  <2>. QED BY <1>2, <2>1
<1>9. Scripts # {}
  <2>1. 1 \in 1..(L - 1)
    BY <1>1
  <2>. QED BY <1>3, <2>1
<1>10. \A j, k \in 1..Len(Fetched) : Fetched[j] = Fetched[k] => j = k
  <2>1. SUFFICES ASSUME NEW j \in 1..(L - 1), NEW k \in 1..(L - 1), Fetched[j] = Fetched[k], j # k
                 PROVE  FALSE
    BY <1>2
  <2>2. j < k \/ k < j
    BY <1>1, <2>1
  <2>. QED BY <1>6, <2>1, <2>2
<1>11. Scripts = {Fetched[k] : k \in 1..Len(Fetched)} /\ Len(Fetched) \in Nat
  BY <1>1, <1>2, <1>3
<1>. QED BY <1>7, <1>8, <1>9, <1>10, <1>11 DEF S

(***************************************************************************)
(* The names of the loader's own files are not those of scripts.           *)
(***************************************************************************)
LEMMA FilesAre ==
    /\ "main" \in Files /\ "order" \in Files /\ Scripts \subseteq Files
    /\ "main" \notin Scripts /\ "order" \notin Scripts /\ "list" \notin Scripts
    /\ "list" \notin Files
    /\ Files = Scripts \cup {"main", "order"}
<1>1. Scripts \subseteq ToSet(List)
  BY FetchedIs
<1>2. "main" \notin ToSet(List) /\ "order" \notin ToSet(List) /\ "list" \notin ToSet(List)
  BY ListAssumption
<1>. QED BY <1>1, <1>2 DEF Files

(***************************************************************************)
(* Every file has one place in the whole.                                  *)
(***************************************************************************)
LEMMA WholeIs ==
    /\ Whole \in Seq(Files) /\ Len(Whole) = 2 + Len(Fetched)
    /\ Whole[1] = "main" /\ Whole[2] = "order"
    /\ \A k \in 1..Len(Fetched) : Whole[k + 2] = Fetched[k]
    /\ \A i, j \in 1..Len(Whole) : Whole[i] = Whole[j] => i = j
<1>. DEFINE F == Fetched
            two == <<"main", "order">>
            w == two \o F
            n == Len(F)
<1>1. two \in Seq(Files) /\ Len(two) = 2 /\ two[1] = "main" /\ two[2] = "order"
  BY FilesAre
<1>2. F \in Seq(Files) /\ n \in Nat /\ \A k \in 1..n : F[k] \in Scripts
  BY FetchedIs, FilesAre
<1>. HIDE DEF two, F
<1>3. /\ w \in Seq(Files) /\ Len(w) = Len(two) + n
      /\ \A k \in 1..(Len(two) + n) : w[k] = IF k <= Len(two) THEN two[k] ELSE F[k - Len(two)]
  <2>1. two \in Seq(Files) /\ F \in Seq(Files)
    BY <1>1, <1>2
  <2>. QED BY <2>1, ConcatProperties
<1>. HIDE DEF w
<1>4. w[1] = "main" /\ w[2] = "order" /\ Len(w) = 2 + n
  BY <1>1, <1>2, <1>3
<1>5. ASSUME NEW k \in 1..n PROVE w[k + 2] = F[k]
  <2>1. k + 2 \in 1..(Len(two) + n) /\ ~(k + 2 <= Len(two)) /\ (k + 2) - Len(two) = k
    BY <1>1, <1>2
  <2>. QED BY <1>3, <2>1
<1>6. ASSUME NEW i \in 1..Len(w), NEW j \in 1..Len(w), i < j PROVE w[i] # w[j]
  <2>1. CASE j <= 2
    <3>1. i = 1 /\ j = 2
      BY <1>2, <1>4, <1>6, <2>1
    <3>. QED BY <1>4, <3>1
  <2>2. CASE ~(j <= 2)
    <3>1. j - 2 \in 1..n /\ (j - 2) + 2 = j
      BY <1>2, <1>4, <2>2
    <3>2. w[j] = F[j - 2]
      BY <1>5, <3>1
    <3>3. CASE i <= 2
      <4>1. w[i] \in {"main", "order"}
        <5>1. i = 1 \/ i = 2
          BY <3>3
        <5>. QED BY <1>4, <5>1
      <4>2. w[j] \in Scripts
        BY <1>2, <3>1, <3>2
      <4>. QED BY <4>1, <4>2, FilesAre
    <3>4. CASE ~(i <= 2)
      <4>1. i - 2 \in 1..n /\ (i - 2) + 2 = i /\ i - 2 # j - 2
        BY <1>2, <1>4, <1>6, <3>4
      <4>2. w[i] = F[i - 2]
        BY <1>5, <4>1
      <4>. QED BY <3>1, <3>2, <4>1, <4>2, FetchedIs DEF F
    <3>. QED BY <3>3, <3>4
  <2>. QED BY <2>1, <2>2
<1>7. \A i, j \in 1..Len(w) : w[i] = w[j] => i = j
  <2>1. SUFFICES ASSUME NEW i \in 1..Len(w), NEW j \in 1..Len(w), w[i] = w[j], i # j PROVE FALSE
    OBVIOUS
  <2>2. i < j \/ j < i
    BY <1>2, <1>4, <2>1
  <2>. QED BY <1>6, <2>1, <2>2
<1>8. w = Whole
  BY DEF w, two, F, Whole
<1>. QED BY <1>3, <1>4, <1>5, <1>7, <1>8 DEF F

LEMMA NeverBeforeItself == ASSUME NEW x PROVE ~Before(x, x)
<1>1. \A i, j \in 1..Len(Whole) : Whole[i] = Whole[j] => i = j
  BY WholeIs
<1>2. \A i, j \in 1..Len(Whole) : i < j => i # j
  OBVIOUS
<1>. QED BY <1>1, <1>2 DEF Before

(***************************************************************************)
(* What is a part of the whole is in order; so are the parts of what is in *)
(* order, and they have nothing in common.                                 *)
(***************************************************************************)
LEMMA WholeInOrder == InOrder(Whole)
BY WholeIs DEF InOrder, Before

LEMMA PartsInOrder ==
    ASSUME NEW s \in Seq(Files), NEW t \in Seq(Files), InOrder(s \o t)
    PROVE  /\ InOrder(s) /\ InOrder(t)
           /\ \A x \in ToSet(s), y \in ToSet(t) : Before(x, y) /\ x # y
           /\ ToSet(s) \cap ToSet(t) = {}
<1>. DEFINE u == s \o t
            m == Len(s)
            n == Len(t)
<1>1. /\ Len(u) = m + n /\ m \in Nat /\ n \in Nat
      /\ \A k \in 1..(m + n) : u[k] = IF k <= m THEN s[k] ELSE t[k - m]
  BY ConcatProperties
<1>2. \A i, j \in 1..(m + n) : i < j => Before(u[i], u[j])
  BY <1>1 DEF InOrder
<1>. HIDE DEF u
<1>3. \A k \in 1..m : k \in 1..(m + n) /\ u[k] = s[k]
  BY <1>1
<1>4. ASSUME NEW k \in 1..n PROVE k + m \in 1..(m + n) /\ u[k + m] = t[k]
  <2>1. k + m \in 1..(m + n) /\ ~(k + m <= m) /\ (k + m) - m = k
    BY <1>1
  <2>. QED BY <1>1, <2>1
<1>5. InOrder(s)
  <2>1. \A i, j \in 1..m : i < j => Before(s[i], s[j])
    BY <1>2, <1>3
  <2>. QED BY <2>1 DEF InOrder
<1>6. InOrder(t)
  <2>1. SUFFICES ASSUME NEW i \in 1..n, NEW j \in 1..n, i < j PROVE Before(t[i], t[j])
    BY DEF InOrder
  <2>2. i + m < j + m
    BY <1>1, <2>1
  <2>. QED BY <1>2, <1>4, <2>2
<1>7. ASSUME NEW x \in ToSet(s), NEW y \in ToSet(t) PROVE Before(x, y) /\ x # y
  <2>1. PICK i \in 1..m : s[i] = x
    BY DEF ToSet
  <2>2. PICK j \in 1..n : t[j] = y
    BY DEF ToSet
  <2>3. i < j + m
    BY <1>1
  <2>4. Before(x, y)
    BY <1>2, <1>3, <1>4, <2>1, <2>2, <2>3
  <2>. QED BY <2>4, NeverBeforeItself
<1>. QED BY <1>5, <1>6, <1>7

(***************************************************************************)
(* What is in order has as many elements as places.                        *)
(***************************************************************************)
LEMMA CountInOrder ==
    ASSUME NEW s, InOrder(s)
    PROVE  IsFiniteSet(ToSet(s)) /\ Cardinality(ToSet(s)) = Len(s) /\ Len(s) \in Nat
<1>1. s \in Seq(Files) /\ \A i, j \in 1..Len(s) : i < j => Before(s[i], s[j])
  BY DEF InOrder
<1>2. \A i, j \in 1..Len(s) : i < j => s[i] # s[j]
  BY <1>1, NeverBeforeItself
<1>3. IsFiniteSet(ToSet(s)) /\ Cardinality(ToSet(s)) = Len(s)
  BY <1>1, <1>2, CountOf
<1>. QED BY <1>1, <1>3

(***************************************************************************)
(* Without one of its elements it is still in order.                       *)
(***************************************************************************)
LEMMA RemovedInOrder ==
    ASSUME NEW r \in Seq(Files), NEW s \in Seq(Files), InOrder(r \o s), NEW x
    PROVE  /\ RemoveFirst(s, x) \in Seq(Files)
           /\ ToSet(RemoveFirst(s, x)) = ToSet(s) \ {x}
           /\ InOrder(r \o RemoveFirst(s, x))
<1>. DEFINE t == RemoveFirst(s, x)
<1>1. CASE x \notin ToSet(s)
  <2>1. t = s
    BY <1>1, RemoveOne
  <2>. QED BY <1>1, <2>1
<1>2. CASE x \in ToSet(s)
  <2>. DEFINE m == Len(r)
              n == Len(s)
              u == r \o s
              v == r \o t
  <2>1. PICK i \in 1..n :
            /\ s[i] = x
            /\ t \in Seq(Files)
            /\ Len(t) = n - 1
            /\ \A k \in 1..(n - 1) : t[k] = IF k < i THEN s[k] ELSE s[k + 1]
    BY <1>2, RemoveOne
  <2>. HIDE DEF t
  <2>2. m \in Nat /\ n \in Nat
    OBVIOUS
  <2>3. /\ Len(u) = m + n
        /\ \A k \in 1..(m + n) : u[k] = IF k <= m THEN r[k] ELSE s[k - m]
    BY ConcatProperties
  <2>4. /\ v \in Seq(Files) /\ Len(v) = m + (n - 1)
        /\ \A k \in 1..(m + (n - 1)) : v[k] = IF k <= m THEN r[k] ELSE t[k - m]
    <3>1. /\ v \in Seq(Files) /\ Len(v) = m + Len(t)
          /\ \A k \in 1..(m + Len(t)) : v[k] = IF k <= m THEN r[k] ELSE t[k - m]
      <4>1. r \in Seq(Files) /\ t \in Seq(Files)
        BY <2>1
      <4>. QED BY <4>1, ConcatProperties
    <3>. QED BY <2>1, <3>1
  <2>5. \A a, b \in 1..(m + n) : a < b => Before(u[a], u[b])
    BY <2>3 DEF InOrder
  <2>. HIDE DEF u, v
  <2>. DEFINE p(k) == IF k < m + i THEN k ELSE k + 1
  <2>6. ASSUME NEW k \in 1..(m + (n - 1)) PROVE p(k) \in 1..(m + n) /\ v[k] = u[p(k)]
    <3>0. p(k) \in 1..(m + n)
      BY <2>2
    <3>1. CASE k <= m
      <4>1. p(k) = k /\ k \in 1..(m + n)
        BY <2>2, <3>1
      <4>. QED BY <2>3, <2>4, <3>1, <4>1
    <3>2. CASE ~(k <= m)
      <4>1. k - m \in 1..(n - 1)
        BY <2>2, <3>2
      <4>2. v[k] = t[k - m]
        BY <2>4, <3>2
      <4>3. CASE k < m + i
        <5>1. k - m < i /\ p(k) = k
          BY <2>2, <4>3
        <5>2. v[k] = s[k - m]
          BY <2>1, <4>1, <4>2, <5>1
        <5>. QED BY <2>3, <3>0, <3>2, <5>1, <5>2
      <4>4. CASE ~(k < m + i)
        <5>1. ~(k - m < i) /\ p(k) = k + 1 /\ ~(k + 1 <= m) /\ (k - m) + 1 = (k + 1) - m
          BY <2>2, <3>2, <4>4
        <5>2. v[k] = s[(k + 1) - m]
          BY <2>1, <4>1, <4>2, <5>1
        <5>. QED BY <2>3, <3>0, <5>1, <5>2
      <4>. QED BY <4>3, <4>4
    <3>. QED BY <3>1, <3>2
  <2>7. \A a, b \in 1..(m + (n - 1)) : a < b => p(a) < p(b)
    BY <2>2
  <2>. HIDE DEF p
  <2>8. InOrder(v)
    <3>1. \A a, b \in 1..(m + (n - 1)) : a < b => Before(v[a], v[b])
      BY <2>5, <2>6, <2>7
    <3>. QED BY <2>4, <3>1 DEF InOrder
  <2>9. ToSet(t) = ToSet(s) \ {x}
    <3>1. ToSet(t) = {t[k] : k \in 1..(n - 1)} /\ ToSet(s) = {s[k] : k \in 1..n}
      <4>1. DOMAIN t = 1..(n - 1) /\ DOMAIN s = 1..n
        BY <2>1
      <4>. QED BY <4>1 DEF ToSet
    <3>2. \A a, b \in 1..n : a < b => Before(s[a], s[b])
      BY PartsInOrder DEF InOrder, u
    <3>3. \A a, b \in 1..n : a # b => s[a] # s[b]
      <4>1. SUFFICES ASSUME NEW a \in 1..n, NEW b \in 1..n, a # b PROVE s[a] # s[b]
        OBVIOUS
      <4>2. a < b \/ b < a
        BY <2>2, <4>1
      <4>. QED BY <3>2, <4>2, NeverBeforeItself
    <3>4. ASSUME NEW k \in 1..(n - 1) PROVE t[k] \in ToSet(s) \ {x}
      <4>1. CASE k < i
        <5>1. k \in 1..n /\ k # i
          BY <2>2, <4>1
        <5>. QED BY <2>1, <3>1, <3>3, <4>1, <5>1
      <4>2. CASE ~(k < i)
        <5>1. k + 1 \in 1..n /\ k + 1 # i
          BY <2>2, <4>2
        <5>. QED BY <2>1, <3>1, <3>3, <4>2, <5>1
      <4>. QED BY <4>1, <4>2
    <3>5. ASSUME NEW k \in 1..n, s[k] # x PROVE s[k] \in ToSet(t)
      <4>0. k # i
        BY <2>1, <3>5
      <4>1. CASE k < i
        <5>1. k \in 1..(n - 1)
          BY <2>2, <4>1
        <5>. QED BY <2>1, <3>1, <4>1, <5>1
      <4>2. CASE ~(k < i)
        <5>1. k - 1 \in 1..(n - 1) /\ ~(k - 1 < i) /\ (k - 1) + 1 = k
          BY <2>2, <4>0, <4>2
        <5>. QED BY <2>1, <3>1, <5>1
      <4>. QED BY <4>1, <4>2
    <3>. QED BY <3>1, <3>4, <3>5
  <2>. QED BY <2>1, <2>8, <2>9 DEF t, v
<1>. QED BY <1>1, <1>2

(***************************************************************************)
(* The plugin's list is what is due and what is left of it.                *)
(***************************************************************************)
LEMMA DueIs ==
    ASSUME ordered \in Seq(Files), NEW come
    PROVE  /\ Due(come) \in Seq(Files) /\ Left(come) \in Seq(Files)
           /\ Due(come) \o Left(come) = ordered
           /\ ToSet(Due(come)) \subseteq come
<1>. DEFINE L == Len(ordered)
            Fits(n) == /\ \A i \in 1..n : ordered[i] \in come
                       /\ n < L => ordered[n + 1] \notin come
            Out == {n \in 1..L : ordered[n] \notin come}
            d == CHOOSE n \in 0..L : Fits(n)
<1>1. L \in Nat /\ \A i \in 1..L : ordered[i] \in Files
  OBVIOUS
<1>. HIDE DEF L
<1>2. \E n \in 0..L : Fits(n)
  <2>1. CASE Out = {}
    <3>1. Fits(L) /\ L \in 0..L
      BY <1>1, <2>1
    <3>. QED BY <3>1
  <2>2. CASE Out # {}
    <3>0. Out \subseteq Nat
      BY <1>1
    <3>1. PICK n \in Out : \A y \in Out : ~ (<<y, n>> \in OpToRel(<, Nat))
      <4>. HIDE DEF Out
      <4>. QED BY <2>2, <3>0, NatLessThanWellFounded, WFMin
    <3>2. \A y \in Out : ~(y < n)
      <4>. HIDE DEF Out
      <4>. QED BY <3>0, <3>1 DEF OpToRel
    <3>3. n \in 1..L /\ ordered[n] \notin come
      BY <3>1
    <3>4. n - 1 \in 0..L /\ (n - 1) + 1 = n
      BY <1>1, <3>3
    <3>5. \A i \in 1..(n - 1) : i \in 1..L /\ i < n
      BY <1>1, <3>3
    <3>6. \A i \in 1..(n - 1) : ordered[i] \in come
      BY <3>2, <3>5
    <3>7. Fits(n - 1)
      BY <3>3, <3>4, <3>6
    <3>. QED BY <3>4, <3>7
  <2>. QED BY <2>1, <2>2
<1>3. d \in 0..L /\ Fits(d)
  <2>. HIDE DEF Fits
  <2>. QED BY <1>2
<1>4. \A i \in 1..d : ordered[i] \in come
  BY <1>3
<1>5. Due(come) = SubSeq(ordered, 1, d)
  BY DEF Due, L
<1>. HIDE DEF d, Fits, Out
<1>6. /\ SubSeq(ordered, 1, d) \in Seq(Files) /\ Len(SubSeq(ordered, 1, d)) = d
      /\ \A i \in 1..d : SubSeq(ordered, 1, d)[i] = ordered[i]
  <2>1. \A i \in 1..d : ordered[i] \in Files
    BY <1>1, <1>3
  <2>2. /\ SubSeq(ordered, 1, d) \in Seq(Files)
        /\ Len(SubSeq(ordered, 1, d)) = IF 1 <= d THEN (d - 1) + 1 ELSE 0
        /\ \A i \in 1..((d - 1) + 1) : SubSeq(ordered, 1, d)[i] = ordered[(1 + i) - 1]
    BY <1>3, <2>1, SubSeqProperties
  <2>. QED BY <1>3, <2>2
<1>7. Left(come) = SubSeq(ordered, d + 1, L)
  BY <1>5, <1>6 DEF Left, L
<1>8. SubSeq(ordered, d + 1, L) \in Seq(Files)
  <2>1. \A i \in (d + 1)..L : ordered[i] \in Files
    BY <1>1, <1>3
  <2>. QED BY <1>1, <1>3, <2>1, SubSeqProperties
<1>9. SubSeq(ordered, 1, d) \o SubSeq(ordered, d + 1, L) = ordered
  <2>1. 1 \in 1..(L + 1) /\ d \in (1 - 1)..L /\ L \in d..L
    BY <1>1, <1>3
  <2>2. SubSeq(ordered, 1, d) \o SubSeq(ordered, d + 1, L) = SubSeq(ordered, 1, L)
    BY <2>1, ConcatAdjacentSubSeq DEF L
  <2>3. SubSeq(ordered, 1, L) = ordered
    BY SubSeqFull DEF L
  <2>. QED BY <2>2, <2>3
<1>10. ToSet(Due(come)) \subseteq come
  <2>. DEFINE s == SubSeq(ordered, 1, d)
  <2>1. DOMAIN s = 1..d
    BY <1>6
  <2>2. \A i \in 1..d : s[i] \in come
    BY <1>4, <1>6
  <2>. QED BY <1>5, <2>1, <2>2 DEF ToSet
<1>. QED BY <1>5, <1>6, <1>7, <1>8, <1>9, <1>10

-------------------------------------------------------------------------------
(***************************************************************************)
(* The inductive invariant of the loader: every variable has its type;     *)
(* either the plugin is not there yet, or the list is in order; what       *)
(* scriptCount counts; app.run() is called when the callback of main.js    *)
(* has all it waits for; and until then that callback waits, and ready is  *)
(* held back.                                                              *)
(***************************************************************************)

LoaderTypes ==
    /\ mode \in Modes
    /\ arriving \cup failed \cup fetched \subseteq Files
    /\ arriving \cap failed = {}
    /\ placed \in Seq(Files) /\ ran \in Seq(Files)
    /\ ordered \in Seq(Files) /\ paused \in Seq(Files)
    /\ loading \cup unmet \subseteq ManagerIds
    /\ given \subseteq ToSet(List)
    /\ scriptCount \in Nat
    /\ depth \in 0..1
    /\ {requireWait, polling, expired, held} \subseteq BOOLEAN
    /\ thrown \subseteq {"poll", "load"}

(***************************************************************************)
(* The plugin is there after main.js and its own file have run; until then *)
(* one file at most is on its way.                                         *)
(***************************************************************************)
WaitsFor(x) ==
    /\ \/ placed = <<x>> /\ failed = {}
       \/ placed = <<>> /\ failed = {x}
    /\ arriving \subseteq {x}
    /\ ended = {} /\ paused = <<>>

HasRun(x) == ended = {x} /\ placed = <<>> /\ arriving = {} /\ failed = {}

BeforeMain == ran = <<>> /\ WaitsFor("main")
MainHasRun == ran = <<"main">> /\ HasRun("main") /\ paused = <<"order">>
BeforePlugin == ran = <<"main">> /\ WaitsFor("order")
PluginHasRun == ran = <<"main", "order">> /\ HasRun("order") /\ paused = <<>>

Unlisted ==
    /\ ordered = <<>> /\ given = {} /\ fetched = {}
    /\ BeforeMain \/ MainHasRun \/ BeforePlugin \/ PluginHasRun

(***************************************************************************)
(* From then on what has run, what is in the document, what is to be asked *)
(* for and what the plugin holds back are, one after the other, the whole  *)
(* list; where the browser sees to the order, what never comes is missing. *)
(***************************************************************************)
Line == ran \o (placed \o (paused \o ordered))

Listed ==
    /\ {"main", "order"} \subseteq ToSet(ran)
    /\ ended \subseteq Scripts \cap ToSet(ran)
    /\ fetched \cap (arriving \cup failed) = {}
    /\ given = {Jquery} \cup ((Scripts \cap ToSet(ran)) \ ended)
    /\ mode # "cache" => paused = <<>>
    /\ mode = "in order" => /\ ordered = <<>> /\ InOrder(Line)
                            /\ arriving \subseteq ToSet(placed)
                            /\ failed \cap (ToSet(ran) \cup ToSet(placed)) = {}
    /\ mode # "in order" => Line = Whole /\ arriving \cup failed \subseteq ToSet(ordered)

ScriptsCounted ==
    /\ IsFiniteSet(Outstanding)
    /\ Cardinality(Outstanding) <= scriptCount
    /\ CountIsRight

CalledWhenGiven == appRuns = IF given = ToSet(List) THEN 1 ELSE 0

HeldUntilCalled ==
    appRuns = 0 /\ ran # <<>> => Callback \in unmet /\ ("main" \notin ended => held)

LoaderInv ==
    /\ LoaderTypes /\ (Unlisted \/ Listed)
    /\ ScriptsCounted /\ CalledWhenGiven /\ HeldUntilCalled

-------------------------------------------------------------------------------
(***************************************************************************)
(* In the parts of the line no file is twice.                              *)
(***************************************************************************)
LEMMA ListedApart ==
    ASSUME LoaderTypes, Listed
    PROVE  /\ InOrder(Line)
           /\ InOrder(ran) /\ InOrder(placed) /\ InOrder(paused) /\ InOrder(ordered)
           /\ \A k \in 1..Len(ran) : k \in 1..Len(Line) /\ Line[k] = ran[k]
           /\ ToSet(ran) \cap (ToSet(placed) \cup ToSet(paused) \cup ToSet(ordered)) = {}
           /\ ToSet(placed) \cap (ToSet(paused) \cup ToSet(ordered)) = {}
           /\ ToSet(paused) \cap ToSet(ordered) = {}
<1>. DEFINE b == paused \o ordered
            a == placed \o b
<1>1. /\ ran \in Seq(Files) /\ placed \in Seq(Files) /\ paused \in Seq(Files)
      /\ ordered \in Seq(Files)
  BY DEF LoaderTypes
<1>2. b \in Seq(Files) /\ ToSet(b) = ToSet(paused) \cup ToSet(ordered)
  <2>1. b \in Seq(Files)
    BY <1>1, ConcatProperties
  <2>. QED BY <1>1, <2>1, ElementsJoined
<1>. HIDE DEF b
<1>3. a \in Seq(Files) /\ ToSet(a) = ToSet(placed) \cup ToSet(b)
  <2>1. a \in Seq(Files)
    BY <1>1, <1>2, ConcatProperties
  <2>. QED BY <1>1, <1>2, <2>1, ElementsJoined
<1>4. InOrder(Line)
  BY WholeInOrder DEF Listed
<1>5. Line = ran \o a
  BY DEF Line, a, b
<1>. HIDE DEF a
<1>6. InOrder(ran) /\ InOrder(a) /\ ToSet(ran) \cap ToSet(a) = {}
  <2>1. InOrder(ran \o a)
    BY <1>4, <1>5
  <2>. QED BY <1>1, <1>3, <2>1, PartsInOrder
<1>7. InOrder(placed) /\ InOrder(b) /\ ToSet(placed) \cap ToSet(b) = {}
  <2>1. InOrder(placed \o b)
    BY <1>6 DEF a
  <2>. QED BY <1>1, <1>2, <2>1, PartsInOrder
<1>8. InOrder(paused) /\ InOrder(ordered) /\ ToSet(paused) \cap ToSet(ordered) = {}
  <2>1. InOrder(paused \o ordered)
    BY <1>7 DEF b
  <2>. QED BY <1>1, <2>1, PartsInOrder
<1>9. ToSet(ran) \cap (ToSet(placed) \cup ToSet(paused) \cup ToSet(ordered)) = {}
  BY <1>2, <1>3, <1>6
<1>10. ToSet(placed) \cap (ToSet(paused) \cup ToSet(ordered)) = {}
  BY <1>2, <1>7
<1>11. \A k \in 1..Len(ran) : k \in 1..Len(Line) /\ Line[k] = ran[k]
  <2>1. /\ Len(ran \o a) = Len(ran) + Len(a)
        /\ \A k \in 1..(Len(ran) + Len(a)) :
              (ran \o a)[k] = IF k <= Len(ran) THEN ran[k] ELSE a[k - Len(ran)]
    BY <1>1, <1>3, ConcatProperties
  <2>2. Len(ran) \in Nat /\ Len(a) \in Nat
    BY <1>1, <1>3
  <2>. QED BY <1>5, <2>1, <2>2
<1>. QED BY <1>4, <1>6, <1>7, <1>8, <1>9, <1>10, <1>11

(***************************************************************************)
(* The page begins with main.js alone.                                     *)
(***************************************************************************)
LEMMA LoaderStarts == LoaderInit => LoaderInv
<1>. SUFFICES ASSUME LoaderInit PROVE LoaderInv
  OBVIOUS
<1>1. LoaderTypes
  <2>1. /\ placed \in Seq(Files) /\ ran \in Seq(Files)
        /\ ordered \in Seq(Files) /\ paused \in Seq(Files)
    BY FilesAre DEF LoaderInit
  <2>2. loading \cup unmet \subseteq ManagerIds
    BY FilesAre DEF LoaderInit, ManagerIds, Managers
  <2>3. arriving \cup failed \cup fetched \subseteq Files /\ arriving \cap failed = {}
    BY FilesAre DEF LoaderInit
  <2>4. mode \in Modes /\ given \subseteq ToSet(List) /\ scriptCount \in Nat /\ depth \in 0..1
        /\ thrown \subseteq {"poll", "load"}
    BY DEF LoaderInit
  <2>5. {requireWait, polling, expired, held} \subseteq BOOLEAN
    BY DEF LoaderInit
  <2>. QED BY <2>1, <2>2, <2>3, <2>4, <2>5 DEF LoaderTypes
<1>2. Unlisted
  BY DEF LoaderInit, Unlisted, BeforeMain, WaitsFor
<1>3. Outstanding = {"main"}
  <2>1. placed = <<"main">> /\ ended = {} /\ ordered = <<>> /\ failed = {}
    BY DEF LoaderInit
  <2>2. ToSet(placed) = {"main"} /\ ToSet(ordered) = {}
    BY <2>1 DEF ToSet
  <2>. QED BY <2>1, <2>2 DEF Outstanding
<1>4. ScriptsCounted
  <2>1. IsFiniteSet({"main"}) /\ Cardinality({"main"}) = 1
    BY FS_Singleton
  <2>. QED BY <1>3, <2>1 DEF LoaderInit, ScriptsCounted, CountIsRight
<1>5. CalledWhenGiven
  BY ListAssumption DEF LoaderInit, CalledWhenGiven
<1>6. HeldUntilCalled
  BY DEF LoaderInit, HeldUntilCalled
<1>. QED BY <1>1, <1>2, <1>4, <1>5, <1>6 DEF LoaderInv

(***************************************************************************)
(* Two parts in order that have nothing in common are, joined, without     *)
(* repetition.                                                             *)
(***************************************************************************)
LEMMA ApartInjective ==
    ASSUME NEW s, NEW t, InOrder(s), InOrder(t), ToSet(s) \cap ToSet(t) = {}
    PROVE  IsInjective(s \o t)
<1>. DEFINE u == s \o t
            m == Len(s)
            n == Len(t)
<1>1. s \in Seq(Files) /\ t \in Seq(Files) /\ m \in Nat /\ n \in Nat
  BY DEF InOrder
<1>2. /\ DOMAIN u = 1..(m + n)
      /\ \A k \in 1..(m + n) : u[k] = IF k <= m THEN s[k] ELSE t[k - m]
  <2>1. u \in Seq(Files) /\ Len(u) = m + n
    BY <1>1, ConcatProperties
  <2>. QED BY <1>1, <2>1, ConcatProperties
<1>. HIDE DEF u
<1>3. \A k \in 1..m : s[k] \in ToSet(s)
  <2>1. DOMAIN s = 1..m
    BY <1>1
  <2>. QED BY <2>1 DEF ToSet
<1>4. \A k \in 1..n : t[k] \in ToSet(t)
  <2>1. DOMAIN t = 1..n
    BY <1>1
  <2>. QED BY <2>1 DEF ToSet
<1>5. ASSUME NEW i \in 1..(m + n), NEW j \in 1..(m + n), i < j PROVE u[i] # u[j]
  <2>1. CASE j <= m
    <3>1. i \in 1..m /\ j \in 1..m /\ u[i] = s[i] /\ u[j] = s[j]
      BY <1>1, <1>2, <1>5, <2>1
    <3>2. Before(s[i], s[j])
      BY <1>5, <3>1 DEF InOrder
    <3>. QED BY <3>1, <3>2, NeverBeforeItself
  <2>2. CASE ~(i <= m)
    <3>1. /\ i - m \in 1..n /\ j - m \in 1..n /\ i - m < j - m
          /\ u[i] = t[i - m] /\ u[j] = t[j - m]
      BY <1>1, <1>2, <1>5, <2>2
    <3>2. Before(t[i - m], t[j - m])
      BY <3>1 DEF InOrder
    <3>. QED BY <3>1, <3>2, NeverBeforeItself
  <2>3. CASE i <= m /\ ~(j <= m)
    <3>1. i \in 1..m /\ j - m \in 1..n /\ u[i] = s[i] /\ u[j] = t[j - m]
      BY <1>1, <1>2, <2>3
    <3>. QED BY <1>3, <1>4, <3>1
  <2>. QED BY <1>1, <1>5, <2>1, <2>2, <2>3
<1>6. \A i, j \in 1..(m + n) : u[i] = u[j] => i = j
  <2>1. SUFFICES ASSUME NEW i \in 1..(m + n), NEW j \in 1..(m + n), u[i] = u[j], i # j PROVE FALSE
    OBVIOUS
  <2>2. i < j \/ j < i
    BY <1>1, <2>1
  <2>. QED BY <1>5, <2>1, <2>2
<1>7. IsInjective(u)
  BY <1>2, <1>6 DEF IsInjective
<1>. QED BY <1>7 DEF u

LEMMA BeforeIsPrecedes ==
    ASSUME NEW x \in Scripts, NEW y \in Scripts
    PROVE  Before(x, y) <=> Precedes(x, y)
<1>1. /\ Len(Whole) = 2 + Len(Fetched) /\ Whole[1] = "main" /\ Whole[2] = "order"
      /\ \A k \in 1..Len(Fetched) : Whole[k + 2] = Fetched[k]
      /\ Len(Fetched) \in Nat /\ DOMAIN Fetched = 1..Len(Fetched)
  BY WholeIs, FetchedIs
<1>2. ASSUME NEW i \in 1..Len(Whole), Whole[i] \in Scripts
      PROVE  i - 2 \in 1..Len(Fetched) /\ Fetched[i - 2] = Whole[i]
  <2>1. i # 1 /\ i # 2
    BY <1>1, <1>2, FilesAre
  <2>2. i - 2 \in 1..Len(Fetched) /\ (i - 2) + 2 = i
    BY <1>1, <2>1
  <2>. QED BY <1>1, <2>2
<1>3. ASSUME Before(x, y) PROVE Precedes(x, y)
  <2>1. PICK i, j \in 1..Len(Whole) : i < j /\ Whole[i] = x /\ Whole[j] = y
    BY <1>3 DEF Before
  <2>2. i - 2 < j - 2
    BY <1>1, <2>1
  <2>. QED BY <1>1, <1>2, <2>1, <2>2 DEF Precedes
<1>4. ASSUME Precedes(x, y) PROVE Before(x, y)
  <2>1. PICK i, j \in 1..Len(Fetched) : i < j /\ Fetched[i] = x /\ Fetched[j] = y
    BY <1>1, <1>4 DEF Precedes
  <2>2. i + 2 \in 1..Len(Whole) /\ j + 2 \in 1..Len(Whole) /\ i + 2 < j + 2
    BY <1>1, <2>1
  <2>. QED BY <1>1, <2>1, <2>2 DEF Before
<1>. QED BY <1>3, <1>4

(***************************************************************************)
(* What the invariant says of the page is what is claimed of it.           *)
(***************************************************************************)
LEMMA LoaderSays == LoaderInv => StartsInOrder
<1>. SUFFICES ASSUME LoaderInv PROVE StartsInOrder
  OBVIOUS
<1>1. LoaderTypes /\ (Unlisted \/ Listed)
  BY DEF LoaderInv
<1>2. /\ placed \in Seq(Files) /\ ran \in Seq(Files) /\ ordered \in Seq(Files)
      /\ DOMAIN ran = 1..Len(ran) /\ Len(ran) \in Nat
  BY <1>1 DEF LoaderTypes
<1>3. ASSUME Unlisted PROVE ToSet(ran) \subseteq {"main", "order"} /\ ended \cap Scripts = {}
  BY <1>3, FilesAre
     DEF Unlisted, BeforeMain, MainHasRun, BeforePlugin, PluginHasRun, WaitsFor, HasRun, ToSet
<1>4. appRuns \in 0..1 /\ (appRuns = 1 <=> given = ToSet(List))
  BY DEF LoaderInv, CalledWhenGiven
<1>5. LoaderTypeOK
  <2>1. IsInjective(placed \o ordered) /\ ended \cap ToSet(placed \o ordered) = {}
    <3>1. CASE Unlisted
      <4>1. placed \o ordered = placed
        BY <1>2, <3>1, ConcatEmptySeq DEF Unlisted
      <4>2. ended = {} \/ placed = <<>>
        BY <3>1 DEF Unlisted, BeforeMain, MainHasRun, BeforePlugin, PluginHasRun, WaitsFor, HasRun
      <4>3. placed = <<>> \/ placed = <<"main">> \/ placed = <<"order">>
        BY <3>1 DEF Unlisted, BeforeMain, MainHasRun, BeforePlugin, PluginHasRun, WaitsFor, HasRun
      <4>4. IsInjective(placed)
        BY <4>3 DEF IsInjective
      <4>5. placed = <<>> => ToSet(placed) = {}
        BY DEF ToSet
      <4>. QED BY <4>1, <4>2, <4>4, <4>5
    <3>2. CASE Listed
      <4>1. /\ InOrder(placed) /\ InOrder(ordered) /\ ToSet(placed) \cap ToSet(ordered) = {}
            /\ ended \cap (ToSet(placed) \cup ToSet(ordered)) = {}
        BY <1>1, <3>2, ListedApart DEF Listed
      <4>2. ToSet(placed \o ordered) = ToSet(placed) \cup ToSet(ordered)
        BY <1>2, ElementsJoined
      <4>. QED BY <4>1, <4>2, ApartInjective
    <3>. QED BY <1>1, <3>1, <3>2
  <2>. QED BY <1>1, <1>4, <2>1 DEF LoaderTypes, LoaderTypeOK
<1>6. ASSUME NEW i \in DOMAIN ran, NEW j \in DOMAIN ran, i < j, {ran[i], ran[j]} \subseteq Scripts
      PROVE  Precedes(ran[i], ran[j])
  <2>1. CASE Unlisted
    <3>1. ran[i] \in ToSet(ran)
      BY DEF ToSet
    <3>. QED BY <1>3, <1>6, <2>1, <3>1, FilesAre
  <2>2. CASE Listed
    <3>1. InOrder(ran)
      BY <1>1, <2>2, ListedApart
    <3>2. Before(ran[i], ran[j])
      BY <1>2, <1>6, <3>1 DEF InOrder
    <3>. QED BY <1>6, <3>2, BeforeIsPrecedes
  <2>. QED BY <1>1, <2>1, <2>2
<1>7. ASSUME mode # "in order", NEW x \in Scripts, NEW y \in Scripts \cap ToSet(ran), Precedes(x, y)
      PROVE  x \in ToSet(ran)
  <2>1. CASE Unlisted
    BY <1>3, <2>1, FilesAre
  <2>2. CASE Listed
    <3>1. PICK i, j \in 1..Len(Whole) : i < j /\ Whole[i] = x /\ Whole[j] = y
      BY <1>7, BeforeIsPrecedes DEF Before
    <3>2. PICK k \in 1..Len(ran) : ran[k] = y
      BY <1>2 DEF ToSet
    <3>3. Line = Whole /\ \A n \in 1..Len(ran) : n \in 1..Len(Line) /\ Line[n] = ran[n]
      BY <1>1, <1>7, <2>2, ListedApart DEF Listed
    <3>4. k = j
      <4>1. k \in 1..Len(Whole) /\ Whole[k] = Whole[j]
        BY <3>1, <3>2, <3>3
      <4>. QED BY <4>1, WholeIs
    <3>5. i \in 1..Len(ran)
      BY <1>2, <3>1, <3>4
    <3>6. ran[i] = x
      BY <3>1, <3>3, <3>5
    <3>. QED BY <1>2, <3>5, <3>6 DEF ToSet
  <2>. QED BY <1>1, <2>1, <2>2
<1>8. AppRunsOnce
  <2>1. appRuns = 1 <=> (Scripts \subseteq ToSet(ran) /\ ended \cap Scripts = {})
    <3>1. ToSet(List) = Scripts \cup {Jquery} /\ Jquery \notin Scripts
      BY FetchedIs, ListAssumption
    <3>2. CASE Unlisted
      <4>1. given = {}
        BY <3>2 DEF Unlisted
      <4>2. ~ (Scripts \subseteq ToSet(ran))
        BY <1>3, <3>2, FetchedIs, FilesAre
      <4>. QED BY <1>4, <3>1, <4>1, <4>2
    <3>3. CASE Listed
      <4>1. given = {Jquery} \cup ((Scripts \cap ToSet(ran)) \ ended)
        BY <3>3 DEF Listed
      <4>. QED BY <1>4, <3>1, <4>1
    <3>. QED BY <1>1, <3>2, <3>3
  <2>. QED BY <1>4, <2>1 DEF AppRunsOnce
<1>9. ScriptsInOrder
  BY <1>6, <1>7, <1>8 DEF ScriptsInOrder
<1>10. ReadyIsHeldBack
  <2>1. CountIsRight
    BY DEF LoaderInv, ScriptsCounted
  <2>2. ASSUME ~held, "order" \in ToSet(ran) PROVE appRuns = 1
    <3>1. ran # <<>>
      BY <2>2 DEF ToSet
    <3>2. "main" \notin ended
      <4>1. CASE Unlisted
        <5>1. ToSet(<<>>) = {} /\ ToSet(<<"main">>) = {"main"}
          BY DEF ToSet
        <5>. QED BY <2>2, <4>1, <5>1
                 DEF Unlisted, BeforeMain, MainHasRun, BeforePlugin, PluginHasRun, HasRun
      <4>2. CASE Listed
        BY <4>2, FilesAre DEF Listed
      <4>. QED BY <1>1, <4>1, <4>2
    <3>. QED BY <1>4, <2>2, <3>1, <3>2 DEF LoaderInv, HeldUntilCalled
  <2>. QED BY <2>1, <2>2 DEF ReadyIsHeldBack
<1>. QED BY <1>5, <1>9, <1>10 DEF StartsInOrder

-------------------------------------------------------------------------------
(***************************************************************************)
(* Steps that leave files, plugin and what is paused as they are leave the *)
(* stage as it is.                                                         *)
(***************************************************************************)
LEMMA StagesRest ==
    ASSUME Unlisted \/ Listed, UNCHANGED <<net, plugin, paused, given>>
    PROVE  (Unlisted \/ Listed)' /\ Outstanding' = Outstanding
<1>1. UNCHANGED <<mode, arriving, failed, placed, ran, ended, fetched, ordered, paused, given>>
  BY DEF net, plugin
<1>2. Unlisted => Unlisted'
  BY <1>1 DEF Unlisted, BeforeMain, MainHasRun, BeforePlugin, PluginHasRun, WaitsFor, HasRun
<1>3. Listed => Listed'
  BY <1>1 DEF Listed, Line
<1>4. Outstanding' = Outstanding
  BY <1>1 DEF Outstanding
<1>. QED BY <1>2, <1>3, <1>4

(***************************************************************************)
(* checkLoaded, and the clock it looks at, touch no script.                *)
(***************************************************************************)
LEMMA PollHolds == ASSUME LoaderInv, Poll PROVE LoaderInv'
<1>1. /\ UNCHANGED <<net, plugin, managers, scriptCount, depth, requireWait, expired>>
      /\ polling' = TriesAgain(expired, loading, scriptCount)
      /\ thrown' = IF Throws(expired, loading) THEN thrown \cup {"poll"} ELSE thrown
      /\ held' = (held /\ ~Released(expired, loading, unmet, scriptCount))
  BY DEF Poll
<1>2. /\ UNCHANGED <<mode, arriving, failed, placed, ran, ended, fetched, ordered>>
      /\ UNCHANGED <<loading, unmet, paused, given, appRuns>>
  BY <1>1 DEF net, plugin, managers
<1>3. LoaderTypes /\ (Unlisted \/ Listed) /\ ScriptsCounted /\ CalledWhenGiven /\ HeldUntilCalled
  BY DEF LoaderInv
<1>4. (Unlisted \/ Listed)' /\ Outstanding' = Outstanding
  BY <1>1, <1>2, <1>3, StagesRest
<1>5. LoaderTypes'
  <2>1. polling' \in BOOLEAN
    BY <1>1 DEF TriesAgain
  <2>2. held' \in BOOLEAN
    BY <1>1
  <2>3. thrown' \subseteq {"poll", "load"}
    BY <1>1, <1>3 DEF LoaderTypes
  <2>. QED BY <1>1, <1>2, <1>3, <2>1, <2>2, <2>3 DEF LoaderTypes
<1>6. ScriptsCounted'
  <2>1. "load" \in thrown' <=> "load" \in thrown
    BY <1>1
  <2>. QED BY <1>1, <1>3, <1>4, <2>1 DEF ScriptsCounted, CountIsRight
<1>7. CalledWhenGiven'
  BY <1>2, <1>3 DEF CalledWhenGiven
<1>8. HeldUntilCalled'
  <2>1. Callback \in unmet => held' = held
    BY <1>1, <1>3 DEF Released, LoaderTypes
  <2>. QED BY <1>2, <1>3, <2>1 DEF HeldUntilCalled
<1>. QED BY <1>4, <1>5, <1>6, <1>7, <1>8 DEF LoaderInv

LEMMA ExpireHolds == ASSUME LoaderInv, Expire PROVE LoaderInv'
<1>1. /\ UNCHANGED <<net, plugin, managers, scriptCount, depth, requireWait, polling, held, thrown>>
      /\ expired' = TRUE
  BY DEF Expire
<1>2. /\ UNCHANGED <<mode, arriving, failed, placed, ran, ended, fetched, ordered>>
      /\ UNCHANGED <<loading, unmet, paused, given, appRuns>>
  BY <1>1 DEF net, plugin, managers
<1>3. LoaderTypes /\ (Unlisted \/ Listed) /\ ScriptsCounted /\ CalledWhenGiven /\ HeldUntilCalled
  BY DEF LoaderInv
<1>4. (Unlisted \/ Listed)' /\ Outstanding' = Outstanding
  BY <1>1, <1>2, <1>3, StagesRest
<1>5. LoaderTypes'
  BY <1>1, <1>2, <1>3 DEF LoaderTypes
<1>6. ScriptsCounted' /\ CalledWhenGiven' /\ HeldUntilCalled'
  BY <1>1, <1>2, <1>3, <1>4 DEF ScriptsCounted, CountIsRight, CalledWhenGiven, HeldUntilCalled
<1>. QED BY <1>4, <1>5, <1>6 DEF LoaderInv

LEMMA LoaderStands == ASSUME LoaderInv, UNCHANGED loaderVars PROVE LoaderInv'
<1>1. /\ UNCHANGED <<net, plugin, managers, control>>
      /\ UNCHANGED <<scriptCount, depth, requireWait, polling, expired, held, thrown>>
  BY DEF loaderVars, control
<1>2. /\ UNCHANGED <<mode, arriving, failed, placed, ran, ended, fetched, ordered>>
      /\ UNCHANGED <<loading, unmet, paused, given, appRuns>>
  BY <1>1 DEF net, plugin, managers
<1>3. LoaderTypes /\ (Unlisted \/ Listed) /\ ScriptsCounted /\ CalledWhenGiven /\ HeldUntilCalled
  BY DEF LoaderInv
<1>4. (Unlisted \/ Listed)' /\ Outstanding' = Outstanding
  BY <1>1, <1>2, <1>3, StagesRest
<1>5. LoaderTypes'
  BY <1>1, <1>2, <1>3 DEF LoaderTypes
<1>6. ScriptsCounted' /\ CalledWhenGiven' /\ HeldUntilCalled'
  BY <1>1, <1>2, <1>3, <1>4 DEF ScriptsCounted, CountIsRight, CalledWhenGiven, HeldUntilCalled
<1>. QED BY <1>4, <1>5, <1>6 DEF LoaderInv

(***************************************************************************)
(* What is paused is asked for, when no script is being loaded: then       *)
(* nothing was asked for before that is not complete.                      *)
(***************************************************************************)
LEMMA NothingOutstanding ==
    ASSUME LoaderTypes, ScriptsCounted, scriptCount = 0
    PROVE  Outstanding = {} /\ placed = <<>> /\ ended = {}
<1>1. IsFiniteSet(Outstanding) /\ Cardinality(Outstanding) = 0
  <2>1. IsFiniteSet(Outstanding) /\ Cardinality(Outstanding) <= 0
    BY DEF ScriptsCounted
  <2>2. Cardinality(Outstanding) \in Nat
    BY <2>1, FS_CardinalityType
  <2>. QED BY <2>1, <2>2
<1>2. Outstanding = {}
  BY <1>1, FS_EmptySet
<1>3. ToSet(placed) = {} /\ ended = {}
  BY <1>2 DEF Outstanding
<1>4. placed = <<>>
  <2>1. placed \in Seq(Files)
    BY DEF LoaderTypes
  <2>2. placed # <<>> => Head(placed) \in ToSet(placed)
    BY <2>1, HeadAndTail
  <2>. QED BY <1>3, <2>2
<1>. QED BY <1>2, <1>3, <1>4

(***************************************************************************)
(* The timer of require.js asks for what is paused, if it may.             *)
(***************************************************************************)
LEMMA StopWaitingHolds == ASSUME LoaderInv, StopWaiting PROVE LoaderInv'
<1>1. /\ requireWait' = FALSE
      /\ held' = (held /\ unmet # {})
      /\ UNCHANGED <<mode, arriving, failed, ran, ended, plugin, loading, unmet, given,
                     appRuns, depth, expired, thrown>>
  BY DEF StopWaiting
<1>2. LoaderTypes /\ (Unlisted \/ Listed) /\ ScriptsCounted /\ CalledWhenGiven /\ HeldUntilCalled
  BY DEF LoaderInv
<1>3. held' \in BOOLEAN /\ UNCHANGED <<fetched, ordered>>
  BY <1>1 DEF plugin
<1>4. CalledWhenGiven'
  BY <1>1, <1>2 DEF CalledWhenGiven
<1>5. HeldUntilCalled'
  <2>1. Callback \in unmet => held' = held
    BY <1>1, <1>2 DEF LoaderTypes
  <2>. QED BY <1>1, <1>2, <2>1 DEF HeldUntilCalled
<1>6. CASE scriptCount # 0
  <2>1. UNCHANGED <<placed, scriptCount, paused, polling>>
    BY <1>6 DEF StopWaiting
  <2>2. (Unlisted \/ Listed)' /\ Outstanding' = Outstanding
    BY <1>1, <1>2, <2>1, StagesRest DEF net
  <2>3. LoaderTypes'
    BY <1>1, <1>2, <1>3, <2>1 DEF LoaderTypes
  <2>4. ScriptsCounted'
    BY <1>1, <1>2, <2>1, <2>2 DEF ScriptsCounted, CountIsRight
  <2>. QED BY <1>4, <1>5, <2>2, <2>3, <2>4 DEF LoaderInv
<1>7. CASE scriptCount = 0
  <2>1. /\ placed' = placed \o paused /\ scriptCount' = Len(paused) /\ paused' = <<>>
        /\ polling' = (polling \/ TriesAgain(expired, loading, Len(paused)))
    BY <1>7 DEF StopWaiting
  <2>2. Outstanding = {} /\ placed = <<>> /\ ended = {}
    BY <1>2, <1>7, NothingOutstanding
  <2>3. paused \in Seq(Files) /\ ordered \in Seq(Files) /\ ran \in Seq(Files)
    BY <1>2 DEF LoaderTypes
  <2>4. placed' = paused
    BY <2>1, <2>2, <2>3, ConcatEmptySeq
  <2>5. paused' \in Seq(Files) /\ polling' \in BOOLEAN /\ Len(paused) \in Nat
    <3>1. paused' \in Seq(Files)
      BY <2>1
    <3>2. polling' \in BOOLEAN
      BY <2>1
    <3>. QED BY <2>3, <3>1, <3>2
  <2>6. LoaderTypes'
    BY <1>1, <1>2, <1>3, <2>1, <2>4, <2>5 DEF LoaderTypes
  <2>7. CASE Listed
    <3>1. paused \o ordered \in Seq(Files)
      BY <2>3, ConcatProperties
    <3>2. Line' = Line
      <4>1. Line = ran \o (paused \o ordered)
        BY <2>2, <3>1, ConcatEmptySeq DEF Line
      <4>2. Line' = ran \o (paused \o (<<>> \o ordered))
        BY <1>1, <1>3, <2>1, <2>4 DEF Line
      <4>. QED BY <2>3, <4>1, <4>2, ConcatEmptySeq
    <3>3. ToSet(<<>>) = {}
      BY DEF ToSet
    <3>4. Listed'
      <4>1. CASE mode = "in order"
        <5>1. paused = <<>> /\ placed' = placed
          BY <2>2, <2>4, <2>7, <4>1 DEF Listed
        <5>. QED BY <1>1, <1>3, <2>1, <2>7, <3>2, <4>1, <5>1 DEF Listed
      <4>2. CASE mode # "in order"
        BY <1>1, <1>3, <2>1, <2>7, <3>2, <4>2 DEF Listed
      <4>. QED BY <4>1, <4>2
    <3>5. Outstanding' = ToSet(paused)
      BY <1>1, <1>3, <2>2, <2>4, <3>3 DEF Outstanding
    <3>6. IsFiniteSet(ToSet(paused)) /\ Cardinality(ToSet(paused)) = Len(paused)
      BY <1>2, <2>7, ListedApart, CountInOrder
    <3>7. ScriptsCounted'
      BY <2>1, <2>5, <3>5, <3>6 DEF ScriptsCounted, CountIsRight
    <3>. QED BY <1>4, <1>5, <2>6, <3>4, <3>7 DEF LoaderInv
  <2>8. CASE Unlisted
    <3>1. failed # {} /\ Outstanding # {}
      <4>1. ToSet(ordered) = {}
        BY <2>8 DEF Unlisted, ToSet
      <4>2. failed # {}
        BY <2>2, <2>8 DEF Unlisted, BeforeMain, MainHasRun, BeforePlugin, PluginHasRun,
                          WaitsFor, HasRun
      <4>. QED BY <4>1, <4>2 DEF Outstanding
    <3>. QED BY <2>2, <3>1
  <2>. QED BY <1>2, <2>7, <2>8
<1>. QED BY <1>6, <1>7

(***************************************************************************)
(* A file that does not come is still one that was asked for.              *)
(***************************************************************************)
LEMMA NeverComesHolds == ASSUME LoaderInv, NEW x \in arriving, NeverComes(x) PROVE LoaderInv'
<1>1. /\ arriving' = arriving \ {x} /\ failed' = failed \cup {x}
      /\ placed' = RemoveFirst(placed, x)
      /\ UNCHANGED <<mode, ran, ended, plugin, managers, control>>
  BY DEF NeverComes
<1>2. /\ UNCHANGED <<mode, ran, ended, fetched, ordered>>
      /\ UNCHANGED <<loading, unmet, paused, given, appRuns>>
      /\ UNCHANGED <<scriptCount, depth, requireWait, polling, expired, held, thrown>>
  BY <1>1 DEF plugin, managers, control
<1>3. LoaderTypes /\ (Unlisted \/ Listed) /\ ScriptsCounted /\ CalledWhenGiven /\ HeldUntilCalled
  BY DEF LoaderInv
<1>4. placed \in Seq(Files) /\ ran \in Seq(Files) /\ x \in Files /\ x \notin failed
  BY <1>3 DEF LoaderTypes
<1>5. placed' \in Seq(Files)
  BY <1>1, <1>4, RemoveOne
<1>6. LoaderTypes'
  BY <1>1, <1>2, <1>3, <1>5 DEF LoaderTypes
<1>7. (Unlisted \/ Listed)' /\ Outstanding' = Outstanding
  <2>1. CASE Unlisted
    <3>1. PICK y \in {"main", "order"} : WaitsFor(y) /\ (y = "main" => BeforeMain)
                                         /\ (y = "order" => BeforePlugin)
      BY <2>1 DEF Unlisted, BeforeMain, MainHasRun, BeforePlugin, PluginHasRun, HasRun
    <3>2. x = y /\ placed = <<x>> /\ failed = {} /\ arriving = {x} /\ ended = {} /\ paused = <<>>
      BY <1>4, <3>1 DEF WaitsFor
    <3>3. ToSet(placed) = {x} /\ Len(placed) = 1
      BY <3>2 DEF ToSet
    <3>4. placed' = <<>>
      <4>1. Len(placed') = 0
        BY <1>1, <1>4, <3>3, RemoveOne
      <4>. QED BY <1>5, <4>1
    <3>5. WaitsFor(y)'
      BY <1>1, <1>2, <3>2, <3>4 DEF WaitsFor
    <3>6. Unlisted'
      <4>1. ran' = ran /\ ordered' = <<>> /\ given' = {} /\ fetched' = {}
        BY <1>2, <2>1 DEF Unlisted
      <4>. QED BY <3>1, <3>5, <4>1 DEF Unlisted, BeforeMain, BeforePlugin
    <3>7. ToSet(placed') = {} /\ ToSet(ordered) = {}
      BY <2>1, <3>4 DEF Unlisted, ToSet
    <3>8. Outstanding' = Outstanding
      BY <1>1, <1>2, <3>2, <3>3, <3>7 DEF Outstanding
    <3>. QED BY <3>6, <3>8
  <2>2. CASE Listed
    <3>1. CASE mode = "in order"
      <4>1. /\ ordered = <<>> /\ paused = <<>> /\ InOrder(Line)
            /\ arriving \subseteq ToSet(placed)
            /\ failed \cap (ToSet(ran) \cup ToSet(placed)) = {}
        BY <2>2, <3>1 DEF Listed
      <4>2. Line = ran \o placed
        BY <1>4, <4>1, ConcatEmptySeq DEF Line
      <4>3. Line' = ran \o placed'
        BY <1>2, <1>4, <1>5, <4>1, ConcatEmptySeq DEF Line
      <4>4. ToSet(placed') = ToSet(placed) \ {x} /\ InOrder(ran \o placed')
        BY <1>1, <1>4, <4>1, <4>2, RemovedInOrder
      <4>5. x \notin ToSet(ran) /\ x \in ToSet(placed)
        BY <1>3, <2>2, <4>1, ListedApart
      <4>6. arriving' \subseteq ToSet(placed')
        BY <1>1, <4>1, <4>4
      <4>7. failed' \cap (ToSet(ran) \cup ToSet(placed')) = {}
        BY <1>1, <4>1, <4>4, <4>5
      <4>8. fetched \cap (arriving' \cup failed') = {}
        BY <1>1, <2>2 DEF Listed
      <4>9. Listed'
        BY <1>2, <2>2, <3>1, <4>1, <4>3, <4>4, <4>6, <4>7, <4>8 DEF Listed
      <4>10. Outstanding' = Outstanding
        BY <1>1, <1>2, <3>1, <4>4, <4>5 DEF Outstanding
      <4>. QED BY <4>9, <4>10
    <3>2. CASE mode # "in order"
      <4>1. Line = Whole /\ arriving \cup failed \subseteq ToSet(ordered)
        BY <2>2, <3>2 DEF Listed
      <4>2. placed' = placed
        <5>1. x \notin ToSet(placed)
          BY <1>3, <2>2, <4>1, ListedApart
        <5>. QED BY <1>1, <1>4, <5>1, RemoveOne
      <4>3. Line' = Line
        BY <1>2, <4>2 DEF Line
      <4>4. arriving' \cup failed' \subseteq ToSet(ordered)
        BY <1>1, <4>1
      <4>5. fetched \cap (arriving' \cup failed') = {}
        BY <1>1, <2>2 DEF Listed
      <4>6. Listed'
        BY <1>2, <2>2, <3>2, <4>1, <4>3, <4>4, <4>5 DEF Listed
      <4>7. Outstanding' = Outstanding
        <5>1. x \in ToSet(ordered)
          BY <4>1
        <5>2. mode = "fetch only" \/ mode = "cache"
          BY <1>3, <3>2 DEF LoaderTypes, Modes
        <5>. QED BY <1>1, <1>2, <4>2, <5>1, <5>2 DEF Outstanding
      <4>. QED BY <4>6, <4>7
    <3>. QED BY <3>1, <3>2
  <2>. QED BY <1>3, <2>1, <2>2
<1>8. ScriptsCounted' /\ CalledWhenGiven' /\ HeldUntilCalled'
  BY <1>2, <1>3, <1>7 DEF ScriptsCounted, CountIsRight, CalledWhenGiven, HeldUntilCalled
<1>. QED BY <1>6, <1>7, <1>8 DEF LoaderInv

(***************************************************************************)
(* A script that arrives is only not awaited any longer.                   *)
(***************************************************************************)
LEMMA ArriveHolds == ASSUME LoaderInv, NEW x \in arriving, Arrive(x) PROVE LoaderInv'
<1>1. /\ arriving' = arriving \ {x} /\ x \notin ToSet(ordered)
      /\ UNCHANGED <<mode, failed, placed, ran, ended, plugin, managers, control>>
  BY DEF Arrive
<1>2. /\ UNCHANGED <<mode, failed, placed, ran, ended, fetched, ordered>>
      /\ UNCHANGED <<loading, unmet, paused, given, appRuns>>
      /\ UNCHANGED <<scriptCount, depth, requireWait, polling, expired, held, thrown>>
  BY <1>1 DEF plugin, managers, control
<1>3. LoaderTypes /\ (Unlisted \/ Listed) /\ ScriptsCounted /\ CalledWhenGiven /\ HeldUntilCalled
  BY DEF LoaderInv
<1>4. LoaderTypes'
  BY <1>1, <1>2, <1>3 DEF LoaderTypes
<1>5. Unlisted => Unlisted'
  <2>1. ASSUME NEW y, WaitsFor(y) PROVE WaitsFor(y)'
    BY <1>1, <1>2, <2>1 DEF WaitsFor
  <2>2. ASSUME NEW y, HasRun(y) PROVE FALSE
    BY <2>2 DEF HasRun
  <2>. QED BY <1>2, <2>1, <2>2 DEF Unlisted, BeforeMain, MainHasRun, BeforePlugin, PluginHasRun
<1>6. Listed => Listed'
  BY <1>1, <1>2 DEF Listed, Line
<1>7. Outstanding' = Outstanding
  BY <1>2 DEF Outstanding
<1>8. ScriptsCounted' /\ CalledWhenGiven' /\ HeldUntilCalled'
  BY <1>2, <1>3, <1>7 DEF ScriptsCounted, CountIsRight, CalledWhenGiven, HeldUntilCalled
<1>. QED BY <1>3, <1>4, <1>5, <1>6, <1>8 DEF LoaderInv

(***************************************************************************)
(* A script that runs goes from the document to what has run.              *)
(***************************************************************************)
LEMMA RunHolds == ASSUME LoaderInv, Run PROVE LoaderInv'
<1>. DEFINE x == Head(placed)
<1>1. /\ placed # <<>> /\ x \notin arriving
      /\ ran' = Append(ran, x) /\ ended' = ended \cup {x} /\ placed' = Tail(placed)
      /\ UNCHANGED <<mode, arriving, failed, plugin, given, appRuns, control>>
      /\ x # "main" => UNCHANGED <<loading, unmet, paused>>
      /\ x = "main" => /\ loading' = loading \cup Managers("file", {"order"})
                       /\ unmet' = unmet \cup Managers("file", {"order"}) \cup {Callback}
                       /\ paused' = <<"order">>
  BY DEF Run
<1>2. /\ UNCHANGED <<mode, arriving, failed, fetched, ordered, given, appRuns>>
      /\ UNCHANGED <<scriptCount, depth, requireWait, polling, expired, held, thrown>>
  BY <1>1 DEF plugin, control
<1>3. LoaderTypes /\ (Unlisted \/ Listed) /\ ScriptsCounted /\ CalledWhenGiven /\ HeldUntilCalled
  BY DEF LoaderInv
<1>4. placed \in Seq(Files) /\ ran \in Seq(Files) /\ paused \in Seq(Files) /\ ordered \in Seq(Files)
  BY <1>3 DEF LoaderTypes
<1>5. /\ x \in Files /\ x \in ToSet(placed)
      /\ placed' \in Seq(Files) /\ Len(placed') = Len(placed) - 1
      /\ ToSet(placed) = {x} \cup ToSet(placed')
      /\ ran' \o placed' = ran \o placed
  BY <1>1, <1>4, HeadAndTail
<1>. HIDE DEF x
<1>6. ran' \in Seq(Files) /\ ToSet(ran') = ToSet(ran) \cup {x} /\ ran' # <<>>
  <2>1. Append(ran, x) \in Seq(Files) /\ Append(ran, x) # <<>>
    BY <1>4, <1>5
  <2>2. ToSet(Append(ran, x)) = ToSet(ran) \cup {x}
    <3>. DEFINE one == <<x>>
    <3>1. one \in Seq(Files)
      BY <1>5
    <3>2. ToSet(one) = {x}
      BY DEF ToSet
    <3>3. Append(ran, x) = ran \o one
      BY <1>4, <1>5
    <3>. HIDE DEF one
    <3>4. ToSet(ran \o one) = ToSet(ran) \cup ToSet(one)
      BY <1>4, <3>1, ElementsJoined
    <3>. QED BY <3>2, <3>3, <3>4
  <2>. QED BY <1>1, <2>1, <2>2
<1>7. Outstanding' = Outstanding
  BY <1>1, <1>2, <1>5 DEF Outstanding
<1>8. LoaderTypes'
  <2>1. paused' \in Seq(Files)
    <3>1. <<"order">> \in Seq(Files)
      BY FilesAre
    <3>. QED BY <1>1, <1>4, <3>1
  <2>2. Managers("file", {"order"}) \cup {Callback} \subseteq ManagerIds
    BY FilesAre DEF ManagerIds, Managers
  <2>3. loading' \cup unmet' \subseteq ManagerIds
    BY <1>1, <1>3, <2>2 DEF LoaderTypes
  <2>. QED BY <1>2, <1>3, <1>5, <1>6, <2>1, <2>3 DEF LoaderTypes
<1>9. (Unlisted \/ Listed)'
  <2>1. CASE Unlisted
    <3>1. PICK y \in {"main", "order"} : WaitsFor(y) /\ (y = "main" => BeforeMain)
                                         /\ (y = "order" => BeforePlugin)
      BY <1>1, <2>1 DEF Unlisted, BeforeMain, MainHasRun, BeforePlugin, PluginHasRun, HasRun
    <3>2. /\ placed = <<y>> /\ failed = {} /\ arriving \subseteq {y} /\ ended = {}
          /\ paused = <<>> /\ x = y
      BY <1>1, <3>1 DEF WaitsFor, x
    <3>3. placed' = <<>>
      <4>1. Len(placed') = 0
        BY <1>5, <3>2
      <4>. QED BY <1>5, <4>1
    <3>4. HasRun(y)'
      BY <1>1, <1>2, <3>2, <3>3 DEF HasRun
    <3>5. ordered' = <<>> /\ given' = {} /\ fetched' = {}
      BY <1>2, <2>1 DEF Unlisted
    <3>6. CASE y = "main"
      <4>1. ran' = <<"main">> /\ paused' = <<"order">>
        BY <1>1, <3>1, <3>2, <3>6 DEF BeforeMain
      <4>. QED BY <3>4, <3>5, <3>6, <4>1 DEF Unlisted, MainHasRun
    <3>7. CASE y = "order"
      <4>1. ran' = <<"main", "order">> /\ paused' = <<>>
        <5>1. ran = <<"main">> /\ x # "main"
          BY <3>1, <3>2, <3>7 DEF BeforePlugin
        <5>2. ran' = Append(<<"main">>, "order") /\ paused' = <<>>
          BY <1>1, <3>2, <3>7, <5>1
        <5>3. Append(<<"main">>, "order") = <<"main", "order">>
          <6>. DEFINE a == Append(<<"main">>, "order")
                      b == <<"main", "order">>
          <6>1. b \in Seq(Files) /\ Len(b) = 2 /\ b[1] = "main" /\ b[2] = "order"
            BY FilesAre
          <6>2. <<"main">> \in Seq(Files) /\ Len(<<"main">>) = 1 /\ <<"main">>[1] = "main"
            BY FilesAre
          <6>3. a \in Seq(Files) /\ Len(a) = 2 /\ a[1] = "main" /\ a[2] = "order"
            BY <6>2, FilesAre, AppendProperties
          <6>. HIDE DEF a, b
          <6>4. \A i \in 1..2 : a[i] = b[i]
            BY <6>1, <6>3
          <6>5. a = b
            BY <6>1, <6>3, <6>4, SeqEqual
          <6>. QED BY <6>5 DEF a, b
        <5>. QED BY <5>2, <5>3
      <4>. QED BY <3>4, <3>5, <3>7, <4>1 DEF Unlisted, PluginHasRun
    <3>. QED BY <3>6, <3>7
  <2>2. CASE Listed
    <3>1. x \notin ToSet(ran) /\ x \notin ToSet(ordered)
      BY <1>3, <1>5, <2>2, ListedApart
    <3>2. x \in Scripts
      BY <1>5, <2>2, <3>1, FilesAre DEF Listed
    <3>3. UNCHANGED paused
      BY <1>1, <3>2, FilesAre
    <3>4. Line' = Line
      <4>. DEFINE r == ran
                  q == placed
                  u == ran'
                  v == placed'
                  b == paused \o ordered
      <4>1. b \in Seq(Files) /\ r \in Seq(Files) /\ q \in Seq(Files)
            /\ u \in Seq(Files) /\ v \in Seq(Files) /\ u \o v = r \o q
        BY <1>4, <1>5, <1>6, ConcatProperties
      <4>2. Line = r \o (q \o b) /\ Line' = u \o (v \o b)
        BY <1>2, <3>3 DEF Line
      <4>. HIDE DEF b, r, q, u, v
      <4>3. (r \o q) \o b = r \o (q \o b)
        BY <4>1, ConcatAssociative
      <4>4. (u \o v) \o b = u \o (v \o b)
        <5>1. u \in Seq(Files) /\ v \in Seq(Files) /\ b \in Seq(Files)
          BY <4>1
        <5>. QED BY <5>1, ConcatAssociative
      <4>. QED BY <4>1, <4>2, <4>3, <4>4
    <3>5. given' = {Jquery} \cup ((Scripts \cap ToSet(ran')) \ ended')
      <4>1. (Scripts \cap ToSet(ran')) \ ended' = (Scripts \cap ToSet(ran)) \ ended
        BY <1>1, <1>6, <3>1
      <4>. QED BY <1>2, <2>2, <4>1 DEF Listed
    <3>6. ended' \subseteq Scripts \cap ToSet(ran')
      BY <1>1, <1>6, <2>2, <3>2 DEF Listed
    <3>7. {"main", "order"} \subseteq ToSet(ran')
      BY <1>6, <2>2 DEF Listed
    <3>8. mode = "in order" => /\ arriving \subseteq ToSet(placed')
                               /\ failed \cap (ToSet(ran') \cup ToSet(placed')) = {}
      BY <1>1, <1>5, <1>6, <2>2 DEF Listed
    <3>. QED BY <1>2, <2>2, <3>3, <3>4, <3>5, <3>6, <3>7, <3>8 DEF Listed
  <2>. QED BY <1>3, <2>1, <2>2
<1>10. ScriptsCounted' /\ CalledWhenGiven'
  BY <1>2, <1>3, <1>7 DEF ScriptsCounted, CountIsRight, CalledWhenGiven
<1>11. HeldUntilCalled'
  <2>1. CASE x = "main"
    <3>1. Callback \in unmet' /\ "main" \in ended'
      BY <1>1, <2>1
    <3>. QED BY <3>1 DEF HeldUntilCalled
  <2>2. CASE x # "main"
    <3>1. ran # <<>>
      <4>1. CASE Unlisted
        BY <1>1, <2>2, <4>1 DEF Unlisted, BeforeMain, MainHasRun, BeforePlugin, PluginHasRun,
                                WaitsFor, HasRun, x
      <4>2. CASE Listed
        <5>1. ToSet(<<>>) = {}
          BY DEF ToSet
        <5>. QED BY <4>2, <5>1 DEF Listed
      <4>. QED BY <1>3, <4>1, <4>2
    <3>2. UNCHANGED unmet /\ ("main" \in ended => "main" \in ended')
      BY <1>1, <2>2
    <3>. QED BY <1>2, <1>3, <3>1, <3>2 DEF HeldUntilCalled
  <2>. QED BY <2>1, <2>2
<1>. QED BY <1>8, <1>9, <1>10, <1>11 DEF LoaderInv

(***************************************************************************)
(* The scripts that are due go from the list of the plugin to the          *)
(* document.                                                               *)
(***************************************************************************)
LEMMA OnFetchOnlyHolds ==
    ASSUME LoaderInv, NEW x \in arriving, OnFetchOnly(x) PROVE LoaderInv'
<1>1. /\ mode = "fetch only" /\ x \in ToSet(ordered)
      /\ arriving' = arriving \ {x} /\ fetched' = fetched \cup {x}
      /\ placed' = placed \o Due(fetched') /\ ordered' = Left(fetched')
      /\ UNCHANGED <<mode, failed, ran, ended, managers, control>>
  BY DEF OnFetchOnly
<1>2. /\ UNCHANGED <<mode, failed, ran, ended, loading, unmet, paused, given, appRuns>>
      /\ UNCHANGED <<scriptCount, depth, requireWait, polling, expired, held, thrown>>
  BY <1>1 DEF managers, control
<1>3. LoaderTypes /\ (Unlisted \/ Listed) /\ ScriptsCounted /\ CalledWhenGiven /\ HeldUntilCalled
  BY DEF LoaderInv
<1>4. /\ placed \in Seq(Files) /\ ran \in Seq(Files) /\ ordered \in Seq(Files) /\ x \in Files
      /\ x \notin failed
  BY <1>3 DEF LoaderTypes
<1>. DEFINE goes == Due(fetched')
            left == Left(fetched')
<1>5. /\ goes \in Seq(Files) /\ left \in Seq(Files) /\ goes \o left = ordered
      /\ ToSet(goes) \subseteq fetched'
  BY <1>4, DueIs
<1>. HIDE DEF goes, left
<1>6. placed' = placed \o goes /\ ordered' = left
  BY <1>1 DEF goes, left
<1>7. /\ placed' \in Seq(Files) /\ ordered' \in Seq(Files)
      /\ ToSet(placed') = ToSet(placed) \cup ToSet(goes)
      /\ ToSet(ordered) = ToSet(goes) \cup ToSet(left)
  <2>1. placed \o goes \in Seq(Files)
    BY <1>4, <1>5, ConcatProperties
  <2>2. ToSet(placed \o goes) = ToSet(placed) \cup ToSet(goes)
    BY <1>4, <1>5, ElementsJoined
  <2>3. ToSet(goes \o left) = ToSet(goes) \cup ToSet(left)
    BY <1>5, ElementsJoined
  <2>. QED BY <1>5, <1>6, <2>1, <2>2, <2>3
<1>8. LoaderTypes'
  BY <1>1, <1>2, <1>3, <1>4, <1>7 DEF LoaderTypes
<1>9. Listed /\ paused = <<>> /\ Line = Whole
  <2>1. ordered # <<>>
    <3>1. ToSet(<<>>) = {}
      BY DEF ToSet
    <3>. QED BY <1>1, <3>1
  <2>. QED BY <1>1, <1>3, <2>1 DEF Unlisted, Listed
<1>10. Line' = Whole
  <2>1. (placed \o goes) \o left = placed \o (goes \o left)
    <3>1. placed \in Seq(Files) /\ goes \in Seq(Files) /\ left \in Seq(Files)
      BY <1>4, <1>5
    <3>. QED BY <3>1, ConcatAssociative
  <2>2. Line = ran \o (placed \o ordered)
    BY <1>4, <1>9, ConcatEmptySeq DEF Line
  <2>3. Line' = ran \o (placed' \o ordered')
    BY <1>2, <1>7, <1>9, ConcatEmptySeq DEF Line
  <2>. QED BY <1>5, <1>6, <1>9, <2>1, <2>2, <2>3
<1>11. fetched' \cap (arriving' \cup failed') = {}
  BY <1>1, <1>2, <1>4, <1>9 DEF Listed
<1>12. arriving' \cup failed' \subseteq ToSet(ordered')
  <2>1. arriving' \cup failed' \subseteq ToSet(ordered)
    BY <1>1, <1>2, <1>9 DEF Listed
  <2>. QED BY <1>5, <1>6, <1>7, <1>11, <2>1
<1>13. Listed'
  BY <1>1, <1>2, <1>9, <1>10, <1>11, <1>12 DEF Listed
<1>14. Outstanding' = Outstanding
  BY <1>1, <1>2, <1>6, <1>7 DEF Outstanding
<1>15. ScriptsCounted' /\ CalledWhenGiven' /\ HeldUntilCalled'
  BY <1>2, <1>3, <1>14 DEF ScriptsCounted, CountIsRight, CalledWhenGiven, HeldUntilCalled
<1>. QED BY <1>8, <1>13, <1>15 DEF LoaderInv

(***************************************************************************)
(* The load event of main.js: the plugin is asked for.                     *)
(***************************************************************************)
LEMMA CompleteMainHolds == ASSUME LoaderInv, CompleteMain PROVE LoaderInv'
<1>1. /\ "main" \in ended /\ ended' = ended \ {"main"}
      /\ loading' = loading \ Managers("file", {"main"})
      /\ unmet' = unmet \ (Managers("file", {"main"}) \cup Managers("require", {"main"}))
      /\ placed' = placed \o paused /\ arriving' = arriving \cup ToSet(paused)
      /\ paused' = <<>> /\ scriptCount' = Len(paused)
      /\ held' = TRUE /\ polling' = TRUE /\ expired' = FALSE
      /\ UNCHANGED <<mode, failed, ran, plugin, given, appRuns, depth, requireWait, thrown>>
  BY DEF CompleteMain
<1>2. UNCHANGED <<fetched, ordered>>
  BY <1>1 DEF plugin
<1>3. LoaderTypes /\ (Unlisted \/ Listed) /\ ScriptsCounted /\ CalledWhenGiven /\ HeldUntilCalled
  BY DEF LoaderInv
<1>4. Unlisted /\ MainHasRun
  <2>1. ~Listed
    BY <1>1, FilesAre DEF Listed
  <2>2. ~BeforeMain /\ ~BeforePlugin /\ ~PluginHasRun
    BY <1>1 DEF BeforeMain, BeforePlugin, PluginHasRun, WaitsFor, HasRun
  <2>. QED BY <1>3, <2>1, <2>2 DEF Unlisted
<1>5. /\ ran = <<"main">> /\ ended = {"main"} /\ placed = <<>> /\ arriving = {} /\ failed = {}
      /\ paused = <<"order">> /\ given = {}
  BY <1>4 DEF Unlisted, MainHasRun, HasRun
<1>6. placed' = <<"order">> /\ <<"order">> \in Seq(Files) /\ ToSet(<<"order">>) = {"order"}
  <2>1. <<"order">> \in Seq(Files)
    BY FilesAre
  <2>2. ToSet(<<"order">>) = {"order"}
    BY DEF ToSet
  <2>. QED BY <1>1, <1>5, <2>1, <2>2, ConcatEmptySeq
<1>7. LoaderTypes'
  <2>1. arriving' = {"order"} /\ "order" \in Files /\ scriptCount' = 1
    BY <1>1, <1>5, <1>6, FilesAre
  <2>2. paused' \in Seq(Files) /\ placed' \in Seq(Files)
    BY <1>1, <1>6
  <2>3. arriving' \cap failed' = {} /\ arriving' \subseteq Files /\ scriptCount' \in Nat
    BY <1>1, <1>5, <2>1
  <2>4. {requireWait', polling', expired', held'} \subseteq BOOLEAN
    BY <1>1, <1>3 DEF LoaderTypes
  <2>5. loading' \cup unmet' \subseteq ManagerIds
    BY <1>1, <1>3 DEF LoaderTypes
  <2>6. UNCHANGED <<mode, failed, fetched, ran, ordered, given, depth, thrown>>
    BY <1>1, <1>2
  <2>. QED BY <1>3, <2>2, <2>3, <2>4, <2>5, <2>6 DEF LoaderTypes
<1>8. Unlisted'
  <2>1. WaitsFor("order")'
    BY <1>1, <1>5, <1>6 DEF WaitsFor
  <2>. QED BY <1>1, <1>2, <1>4, <1>5, <2>1 DEF Unlisted, BeforePlugin
<1>9. Outstanding' = {"order"}
  <2>1. ToSet(ordered') = {}
    BY <1>2, <1>4 DEF Unlisted, ToSet
  <2>. QED BY <1>1, <1>5, <1>6, <2>1 DEF Outstanding
<1>10. ScriptsCounted'
  <2>1. IsFiniteSet({"order"}) /\ Cardinality({"order"}) = 1
    BY FS_Singleton
  <2>2. scriptCount' = 1
    BY <1>1, <1>5
  <2>. QED BY <1>9, <2>1, <2>2 DEF ScriptsCounted, CountIsRight
<1>11. CalledWhenGiven' /\ appRuns = 0
  BY <1>1, <1>3, <1>5, ListAssumption DEF CalledWhenGiven
<1>12. HeldUntilCalled'
  <2>1. Callback \in unmet
    BY <1>3, <1>5, <1>11 DEF HeldUntilCalled
  <2>2. Callback \notin Managers("file", {"main"}) \cup Managers("require", {"main"})
    BY DEF Callback, Manager, Managers
  <2>. QED BY <1>1, <2>1, <2>2 DEF HeldUntilCalled
<1>. QED BY <1>7, <1>8, <1>10, <1>11, <1>12 DEF LoaderInv

(***************************************************************************)
(* The load event of the plugin: the list is asked for, or held back.      *)
(***************************************************************************)
LEMMA CompleteOrderHolds == ASSUME LoaderInv, CompleteOrder PROVE LoaderInv'
<1>1. /\ "order" \in ended /\ ended' = ended \ {"order"}
      /\ arriving' = arriving \cup Scripts /\ given' = {Jquery}
      /\ placed' = IF mode = "in order" THEN placed \o Fetched ELSE placed
      /\ ordered' = IF mode = "in order" THEN <<>> ELSE Fetched
      /\ scriptCount' = IF mode = "cache" THEN 0 ELSE Len(Fetched)
      /\ polling' = TRUE /\ expired' = FALSE
      /\ UNCHANGED <<mode, failed, ran, fetched, paused, appRuns, depth, requireWait, held,
                     thrown>>
  BY DEF CompleteOrder
<1>2. /\ loading' \cup unmet' \subseteq ManagerIds
      /\ Callback \in unmet'
  <2>1. /\ loading' \subseteq Managers("file", Scripts) \cup Managers("resource", Scripts)
        /\ unmet' \subseteq {Callback} \cup Managers("file", Scripts)
                             \cup Managers("resource", Scripts) \cup Managers("require", Scripts)
        /\ Callback \in unmet'
    BY DEF CompleteOrder
  <2>2. /\ Managers("file", Scripts) \subseteq Managers("file", Files)
        /\ Managers("require", Scripts) \subseteq Managers("require", Scripts \cup {"main"})
    BY FilesAre DEF Managers
  <2>. QED BY <2>1, <2>2 DEF ManagerIds
<1>3. LoaderTypes /\ (Unlisted \/ Listed) /\ ScriptsCounted /\ CalledWhenGiven /\ HeldUntilCalled
  BY DEF LoaderInv
<1>4. Unlisted /\ PluginHasRun
  BY <1>1, <1>3, FilesAre DEF Unlisted, Listed, BeforeMain, BeforePlugin, MainHasRun,
                              WaitsFor, HasRun
<1>5. /\ ran = <<"main", "order">> /\ ended = {"order"} /\ placed = <<>> /\ arriving = {}
      /\ failed = {} /\ paused = <<>> /\ given = {} /\ fetched = {}
  BY <1>4 DEF Unlisted, PluginHasRun, HasRun
<1>6. Fetched \in Seq(Files) /\ ToSet(Fetched) = Scripts /\ Len(Fetched) \in Nat
      /\ ran \in Seq(Files) /\ ToSet(ran) = {"main", "order"}
  <2>1. Fetched \in Seq(Files) /\ Len(Fetched) \in Nat
    BY FetchedIs, FilesAre
  <2>2. ToSet(Fetched) = Scripts
    BY DEF Scripts
  <2>3. ToSet(<<"main", "order">>) = {"main", "order"}
    BY DEF ToSet
  <2>. QED BY <1>3, <1>5, <2>1, <2>2, <2>3 DEF LoaderTypes
<1>7. mode = "in order" => placed' = Fetched /\ ordered' = <<>>
  BY <1>1, <1>5, <1>6, ConcatEmptySeq
<1>8. mode # "in order" => placed' = <<>> /\ ordered' = Fetched
  BY <1>1, <1>5
<1>9. ToSet(<<>>) = {}
  BY DEF ToSet
<1>10. LoaderTypes'
  <2>1. placed' \in Seq(Files) /\ ordered' \in Seq(Files) /\ paused' \in Seq(Files)
    <3>1. <<>> \in Seq(Files)
      OBVIOUS
    <3>. QED BY <1>1, <1>5, <1>6, <1>7, <1>8, <3>1
  <2>2. arriving' \cup failed' \cup fetched' \subseteq Files /\ arriving' \cap failed' = {}
    BY <1>1, <1>5, FilesAre
  <2>3. given' \subseteq ToSet(List) /\ scriptCount' \in Nat
    BY <1>1, <1>6, ListAssumption
  <2>. QED BY <1>1, <1>2, <1>3, <1>6, <2>1, <2>2, <2>3 DEF LoaderTypes
<1>11. Line' = Whole
  <2>1. placed' \o (paused' \o ordered') = Fetched
    <3>1. <<>> \o Fetched = Fetched /\ Fetched \o <<>> = Fetched /\ <<>> \o <<>> = <<>>
      BY <1>6, ConcatEmptySeq
    <3>2. paused' = <<>>
      BY <1>1, <1>5
    <3>. QED BY <1>7, <1>8, <3>1, <3>2
  <2>. QED BY <1>1, <1>5, <2>1 DEF Line, Whole
<1>12. Listed'
  <2>1. (Scripts \cap ToSet(ran)) \ ended' = {} /\ ended' = {}
    BY <1>1, <1>5, <1>6, FilesAre
  <2>2. mode = "in order" => /\ arriving' \subseteq ToSet(placed')
                             /\ failed' \cap (ToSet(ran') \cup ToSet(placed')) = {}
    BY <1>1, <1>5, <1>6, <1>7
  <2>3. mode # "in order" => arriving' \cup failed' \subseteq ToSet(ordered')
    BY <1>1, <1>5, <1>6, <1>8
  <2>4. mode = "in order" => ordered' = <<>>
    BY <1>7
  <2>5. {"main", "order"} \subseteq ToSet(ran') /\ ended' \subseteq Scripts \cap ToSet(ran')
    BY <1>1, <1>6, <2>1
  <2>6. /\ fetched' \cap (arriving' \cup failed') = {} /\ paused' = <<>>
        /\ given' = {Jquery} \cup ((Scripts \cap ToSet(ran')) \ ended')
    BY <1>1, <1>5, <2>1
  <2>. QED BY <1>1, <1>11, <2>2, <2>3, <2>4, <2>5, <2>6, WholeInOrder DEF Listed
<1>13. Outstanding' = IF mode = "cache" THEN {} ELSE Scripts
  <2>1. mode = "in order" \/ mode = "fetch only" \/ mode = "cache"
    BY <1>3 DEF LoaderTypes, Modes
  <2>. QED BY <1>1, <1>5, <1>6, <1>7, <1>8, <1>9, <2>1 DEF Outstanding
<1>14. ScriptsCounted'
  <2>1. IsFiniteSet({}) /\ Cardinality({}) = 0
    BY FS_EmptySet
  <2>2. IsFiniteSet(Scripts) /\ Cardinality(Scripts) = Len(Fetched)
    <3>1. \A i, j \in 1..Len(Fetched) : i < j => Fetched[i] # Fetched[j]
      <4>1. \A i, j \in 1..Len(Fetched) : i < j => i # j
        OBVIOUS
      <4>. QED BY <4>1, FetchedIs
    <3>. QED BY <1>6, <3>1, CountOf
  <2>3. /\ IsFiniteSet(Outstanding') /\ Cardinality(Outstanding') = scriptCount'
        /\ scriptCount' \in Nat
    BY <1>1, <1>6, <1>13, <2>1, <2>2
  <2>. QED BY <2>3 DEF ScriptsCounted, CountIsRight
<1>15. CalledWhenGiven' /\ appRuns = 0
  <2>1. {Jquery} # ToSet(List)
    BY FetchedIs
  <2>2. given # ToSet(List)
    BY <1>5, ListAssumption
  <2>. QED BY <1>1, <1>3, <2>1, <2>2 DEF CalledWhenGiven
<1>16. HeldUntilCalled'
  BY <1>1, <1>2, <1>3, <1>5, <1>15 DEF HeldUntilCalled
<1>. QED BY <1>10, <1>12, <1>14, <1>15, <1>16 DEF LoaderInv

(***************************************************************************)
(* What is required comes to what is paused, and all of that to the        *)
(* document if nothing is being loaded.                                    *)
(***************************************************************************)
LEMMA ScriptCacheCallbackHolds ==
    ASSUME LoaderInv, NEW x \in arriving, ScriptCacheCallback(x) PROVE LoaderInv'
<1>. DEFINE goes == Due(fetched')
            left == Left(fetched')
            asks == goes # <<>> /\ ~requireWait /\ scriptCount = 0
<1>1. /\ mode = "cache" /\ x \in ToSet(ordered)
      /\ arriving' = arriving \ {x} /\ fetched' = fetched \cup {x} /\ ordered' = left
      /\ loading' = loading \cup Managers("file", ToSet(goes))
      /\ unmet' = unmet \cup Managers("file", ToSet(goes)) \cup Managers("require", ToSet(goes))
      /\ asks => /\ placed' = placed \o Append(paused, Head(goes))
                 /\ paused' = Tail(goes)
                 /\ scriptCount' = Len(paused) + 1
                 /\ expired' = FALSE
                 /\ polling' = (polling \/ depth = 0)
      /\ ~asks => /\ paused' = paused \o goes
                  /\ UNCHANGED <<placed, scriptCount, expired, polling>>
      /\ UNCHANGED <<mode, failed, ran, ended, given, appRuns, depth, requireWait, held,
                     thrown>>
  BY DEF ScriptCacheCallback
<1>2. LoaderTypes /\ (Unlisted \/ Listed) /\ ScriptsCounted /\ CalledWhenGiven /\ HeldUntilCalled
  BY DEF LoaderInv
<1>3. /\ placed \in Seq(Files) /\ ran \in Seq(Files) /\ ordered \in Seq(Files)
      /\ paused \in Seq(Files) /\ x \in Files /\ x \notin failed
  BY <1>2 DEF LoaderTypes
<1>4. /\ goes \in Seq(Files) /\ left \in Seq(Files) /\ goes \o left = ordered
      /\ ToSet(goes) \subseteq fetched'
  BY <1>3, DueIs
<1>. HIDE DEF goes, left, asks
<1>5. ToSet(ordered) = ToSet(goes) \cup ToSet(left)
  <2>1. ToSet(goes \o left) = ToSet(goes) \cup ToSet(left)
    BY <1>4, ElementsJoined
  <2>. QED BY <1>4, <2>1
<1>6. Listed /\ Line = Whole
  <2>1. ordered # <<>>
    <3>1. ToSet(<<>>) = {}
      BY DEF ToSet
    <3>. QED BY <1>1, <3>1
  <2>. QED BY <1>1, <1>2, <2>1 DEF Unlisted, Listed
<1>7. fetched' \cap (arriving' \cup failed') = {}
  BY <1>1, <1>3, <1>6 DEF Listed
<1>8. arriving' \cup failed' \subseteq ToSet(ordered')
  <2>1. arriving' \cup failed' \subseteq ToSet(ordered)
    BY <1>1, <1>6 DEF Listed
  <2>. QED BY <1>1, <1>4, <1>5, <1>7, <2>1
<1>9. loading' \cup unmet' \subseteq ManagerIds
  <2>1. ToSet(ordered) \cap ToSet(ran) = {}
    BY <1>2, <1>6, ListedApart
  <2>2. ToSet(goes) \subseteq Files
    BY <1>4 DEF ToSet
  <2>3. ToSet(goes) \subseteq Scripts
    BY <1>5, <1>6, <2>1, <2>2, FilesAre DEF Listed
  <2>4. Managers("file", ToSet(goes)) \cup Managers("require", ToSet(goes)) \subseteq ManagerIds
    BY <2>2, <2>3 DEF ManagerIds, Managers
  <2>. QED BY <1>1, <1>2, <2>4 DEF LoaderTypes
<1>10. CASE asks
  <2>1. /\ placed' = placed \o Append(paused, Head(goes)) /\ paused' = Tail(goes)
        /\ scriptCount' = Len(paused) + 1 /\ expired' = FALSE
        /\ polling' = (polling \/ depth = 0) /\ goes # <<>> /\ scriptCount = 0
    BY <1>1, <1>10 DEF asks
  <2>2. Outstanding = {} /\ placed = <<>> /\ ended = {}
    BY <1>2, <2>1, NothingOutstanding
  <2>. DEFINE p == Append(paused, Head(goes))
              q == Tail(goes)
  <2>3. q \in Seq(Files) /\ Head(goes) \in Files /\ p \o q = paused \o goes
    BY <1>3, <1>4, <2>1, HeadAndTail
  <2>4. p \in Seq(Files) /\ Len(p) = Len(paused) + 1 /\ Len(paused) \in Nat
    BY <1>3, <2>3
  <2>. HIDE DEF p, q
  <2>5. placed' = p /\ paused' = q /\ ordered' = left
    <3>1. placed' = placed \o p /\ paused' = q
      BY <2>1 DEF p, q
    <3>. QED BY <1>1, <2>2, <2>4, <3>1, ConcatEmptySeq
  <2>6. Line' = Whole
    <3>1. Line = ran \o (paused \o ordered)
      <4>1. paused \o ordered \in Seq(Files)
        BY <1>3, ConcatProperties
      <4>. QED BY <2>2, <4>1, ConcatEmptySeq DEF Line
    <3>2. Line' = ran \o (p \o (q \o left))
      BY <1>1, <2>5 DEF Line
    <3>3. (p \o q) \o left = p \o (q \o left)
      <4>1. p \in Seq(Files) /\ q \in Seq(Files) /\ left \in Seq(Files)
        BY <1>4, <2>3, <2>4
      <4>. QED BY <4>1, ConcatAssociative
    <3>4. (paused \o goes) \o left = paused \o (goes \o left)
      <4>1. paused \in Seq(Files) /\ goes \in Seq(Files) /\ left \in Seq(Files)
        BY <1>3, <1>4
      <4>. QED BY <4>1, ConcatAssociative
    <3>. QED BY <1>4, <1>6, <2>3, <3>1, <3>2, <3>3, <3>4
  <2>7. LoaderTypes'
    <3>1. {requireWait', polling', expired', held'} \subseteq BOOLEAN
      BY <1>1, <1>2, <2>1 DEF LoaderTypes
    <3>2. scriptCount' \in Nat /\ depth' \in 0..1
      BY <1>1, <1>2, <2>1, <2>4 DEF LoaderTypes
    <3>3. placed' \in Seq(Files) /\ paused' \in Seq(Files) /\ ordered' \in Seq(Files)
      BY <1>4, <2>3, <2>4, <2>5
    <3>. QED BY <1>1, <1>2, <1>3, <1>9, <3>1, <3>2, <3>3 DEF LoaderTypes
  <2>8. Listed'
    BY <1>1, <1>6, <1>7, <1>8, <2>6 DEF Listed
  <2>9. Outstanding' = ToSet(p)
    <3>1. failed' \ ToSet(ordered') = {} /\ ended' = {}
      BY <1>1, <1>8, <2>2
    <3>. QED BY <1>1, <2>5, <3>1 DEF Outstanding
  <2>10. InOrder(p)
    <3>1. InOrder(ran \o (p \o (q \o left)))
      <4>1. Line' = ran \o (p \o (q \o left))
        BY <1>1, <2>5 DEF Line
      <4>. QED BY <2>6, <4>1, WholeInOrder
    <3>2. q \o left \in Seq(Files)
      BY <1>4, <2>3, ConcatProperties
    <3>3. p \o (q \o left) \in Seq(Files)
      BY <2>4, <3>2, ConcatProperties
    <3>4. InOrder(p \o (q \o left))
      BY <1>3, <3>1, <3>3, PartsInOrder
    <3>. QED BY <2>4, <3>2, <3>4, PartsInOrder
  <2>11. ScriptsCounted'
    <3>1. IsFiniteSet(ToSet(p)) /\ Cardinality(ToSet(p)) = Len(p)
      BY <2>10, CountInOrder
    <3>2. /\ IsFiniteSet(Outstanding') /\ Cardinality(Outstanding') = scriptCount'
          /\ scriptCount' \in Nat
      BY <2>1, <2>4, <2>9, <3>1
    <3>. QED BY <3>2 DEF ScriptsCounted, CountIsRight
  <2>12. CalledWhenGiven' /\ HeldUntilCalled'
    BY <1>1, <1>2 DEF CalledWhenGiven, HeldUntilCalled
  <2>. QED BY <2>7, <2>8, <2>11, <2>12 DEF LoaderInv
<1>11. CASE ~asks
  <2>1. paused' = paused \o goes /\ UNCHANGED <<placed, scriptCount, expired, polling>>
    BY <1>1, <1>11
  <2>2. paused' \in Seq(Files) /\ ordered' \in Seq(Files)
    <3>1. paused \o goes \in Seq(Files)
      BY <1>3, <1>4, ConcatProperties
    <3>. QED BY <1>1, <1>4, <2>1, <3>1
  <2>3. LoaderTypes'
    BY <1>1, <1>2, <1>3, <1>9, <2>1, <2>2 DEF LoaderTypes
  <2>4. Line' = Whole
    <3>1. Line' = ran \o (placed \o ((paused \o goes) \o left))
      BY <1>1, <2>1 DEF Line
    <3>2. (paused \o goes) \o left = paused \o (goes \o left)
      <4>1. paused \in Seq(Files) /\ goes \in Seq(Files) /\ left \in Seq(Files)
        BY <1>3, <1>4
      <4>. QED BY <4>1, ConcatAssociative
    <3>. QED BY <1>4, <1>6, <3>1, <3>2 DEF Line
  <2>5. Listed'
    BY <1>1, <1>6, <1>7, <1>8, <2>4 DEF Listed
  <2>6. Outstanding' = Outstanding
    <3>1. failed' \ ToSet(ordered') = {} /\ failed \ ToSet(ordered) = {}
      BY <1>1, <1>6, <1>8 DEF Listed
    <3>. QED BY <1>1, <2>1, <3>1 DEF Outstanding
  <2>7. ScriptsCounted' /\ CalledWhenGiven' /\ HeldUntilCalled'
    BY <1>1, <1>2, <2>1, <2>6 DEF ScriptsCounted, CountIsRight, CalledWhenGiven, HeldUntilCalled
  <2>. QED BY <2>3, <2>5, <2>7 DEF LoaderInv
<1>. QED BY <1>10, <1>11

(***************************************************************************)
(* The load event of a script: what is paused is asked for, and the script *)
(* is not waited for any longer.                                           *)
(***************************************************************************)
LEMMA CompleteScriptHolds == ASSUME LoaderInv, NEW x, CompleteScript(x) PROVE LoaderInv'
<1>. DEFINE still == loading \ (Managers("file", {x}) \cup Managers("resource", {x}))
            late == expired /\ paused = <<>>
            checks == depth = 0
            throws == checks /\ Throws(late, still)
            done == AllGiven(given \cup {x})
            mine == IF throws THEN {} ELSE Managers("require", {x})
            count == Counted(throws)
            wait == unmet \ (Managers("file", {x}) \cup Managers("resource", {x})
                               \cup mine \cup (IF done THEN {Callback} ELSE {}))
<1>1. /\ x \in ended /\ x \in Scripts /\ ended' = ended \ {x} /\ loading' = still
      /\ given' = given \cup {x} /\ appRuns' = (IF done THEN appRuns + 1 ELSE appRuns)
      /\ unmet' = wait /\ placed' = placed \o paused /\ paused' = <<>>
      /\ expired' = late /\ scriptCount' = count
      /\ depth' = (IF throws THEN depth + 1 ELSE depth)
      /\ thrown' = (IF throws THEN thrown \cup {"load"} ELSE thrown)
      /\ polling' = (polling \/ (checks /\ ~throws /\ ~late))
      /\ held' = (held /\ ~(checks /\ Released(late, still, wait, count)))
      /\ UNCHANGED <<mode, arriving, failed, ran, plugin, requireWait>>
  BY DEF CompleteScript
<1>2. UNCHANGED <<fetched, ordered>>
  BY <1>1 DEF plugin
<1>3. LoaderTypes /\ (Unlisted \/ Listed) /\ ScriptsCounted /\ CalledWhenGiven /\ HeldUntilCalled
  BY DEF LoaderInv
<1>4. /\ placed \in Seq(Files) /\ ran \in Seq(Files) /\ ordered \in Seq(Files)
      /\ paused \in Seq(Files) /\ Len(paused) \in Nat
      /\ scriptCount \in Nat /\ loading \subseteq ManagerIds /\ unmet \subseteq ManagerIds
  BY <1>3 DEF LoaderTypes
<1>5. Listed
  BY <1>1, <1>3, FilesAre DEF Unlisted, BeforeMain, MainHasRun, BeforePlugin, PluginHasRun,
                              WaitsFor, HasRun
<1>6. x \in ToSet(List) /\ x # Jquery /\ x # "list" /\ x # "main" /\ x \in Files
  BY <1>1, FetchedIs, FilesAre
<1>7. /\ given = {Jquery} \cup ((Scripts \cap ToSet(ran)) \ ended)
      /\ ended \subseteq Scripts \cap ToSet(ran)
      /\ {"main", "order"} \subseteq ToSet(ran)
  BY <1>5 DEF Listed
<1>8. /\ still \subseteq ManagerIds /\ wait \subseteq ManagerIds
      /\ late \in BOOLEAN /\ checks \in BOOLEAN /\ throws \in BOOLEAN
      /\ checks = (depth = 0) /\ (throws => depth = 0)
      /\ count = (scriptCount + Len(paused)) - (IF throws THEN 0 ELSE 1)
      /\ done <=> given \cup {x} = ToSet(List)
      /\ ~done /\ Callback \in unmet => Callback \in wait
      /\ wait # {} => ~Released(late, still, wait, count)
  <2>1. still \subseteq ManagerIds /\ wait \subseteq ManagerIds
    BY <1>4
  <2>2. late \in BOOLEAN /\ checks \in BOOLEAN /\ throws \in BOOLEAN
    BY <1>3 DEF LoaderTypes, Throws
  <2>3. checks = (depth = 0) /\ (throws => depth = 0)
    OBVIOUS
  <2>4. count = (scriptCount + Len(paused)) - (IF throws THEN 0 ELSE 1)
    <3>1. count = Counted(throws)
      OBVIOUS
    <3>. HIDE DEF throws, count
    <3>. QED BY <1>4, <3>1 DEF Counted
  <2>5. done <=> given \cup {x} = ToSet(List)
    BY DEF AllGiven
  <2>6. ~done /\ Callback \in unmet => Callback \in wait
    <3>1. Callback \notin Managers("file", {x}) \cup Managers("resource", {x})
                            \cup Managers("require", {x})
      BY <1>6 DEF Callback, Manager, Managers
    <3>2. mine \subseteq Managers("require", {x})
      OBVIOUS
    <3>. QED BY <3>1, <3>2
  <2>7. wait # {} => ~Released(late, still, wait, count)
    BY DEF Released
  <2>. QED BY <2>1, <2>2, <2>3, <2>4, <2>5, <2>6, <2>7
<1>. HIDE DEF still, late, checks, throws, done, mine, count, wait
<1>9. /\ x \notin ToSet(placed) /\ x \notin ToSet(paused) /\ x \notin ToSet(ordered)
      /\ x \notin failed
      /\ ToSet(paused) \cap ToSet(placed) = {} /\ ToSet(paused) \cap ToSet(ran) = {}
      /\ ToSet(paused) \cap ToSet(ordered) = {}
      /\ InOrder(paused)
  <2>1. x \in ToSet(ran)
    BY <1>1, <1>7
  <2>2. x \notin failed
    <3>1. CASE mode = "in order"
      BY <1>5, <2>1, <3>1 DEF Listed
    <3>2. CASE mode # "in order"
      <4>1. failed \subseteq ToSet(ordered) /\ ToSet(ran) \cap ToSet(ordered) = {}
        BY <1>3, <1>5, <3>2, ListedApart DEF Listed
      <4>. QED BY <2>1, <4>1
    <3>. QED BY <3>1, <3>2
  <2>. QED BY <1>3, <1>5, <2>1, <2>2, ListedApart
<1>10. placed' \in Seq(Files) /\ ToSet(placed') = ToSet(placed) \cup ToSet(paused)
  <2>1. placed \o paused \in Seq(Files)
    BY <1>4, ConcatProperties
  <2>2. ToSet(placed \o paused) = ToSet(placed) \cup ToSet(paused)
    BY <1>4, ElementsJoined
  <2>. QED BY <1>1, <2>1, <2>2
<1>11. Line' = Line
  <2>1. Line' = ran \o ((placed \o paused) \o ordered)
    <3>1. <<>> \o ordered = ordered
      BY <1>4, ConcatEmptySeq
    <3>. QED BY <1>1, <1>2, <3>1 DEF Line
  <2>2. (placed \o paused) \o ordered = placed \o (paused \o ordered)
    <3>1. placed \in Seq(Files) /\ paused \in Seq(Files) /\ ordered \in Seq(Files)
      BY <1>4
    <3>. QED BY <3>1, ConcatAssociative
  <2>. QED BY <2>1, <2>2 DEF Line
<1>12. Listed'
  <2>1. given' = {Jquery} \cup ((Scripts \cap ToSet(ran)) \ ended')
    BY <1>1, <1>7
  <2>2. mode = "in order" => /\ arriving \subseteq ToSet(placed')
                             /\ failed \cap (ToSet(ran) \cup ToSet(placed')) = {}
    <3>1. mode = "in order" => ToSet(paused) = {}
      <4>1. ToSet(<<>>) = {}
        BY DEF ToSet
      <4>. QED BY <1>5, <4>1 DEF Listed
    <3>. QED BY <1>5, <1>10, <3>1 DEF Listed
  <2>3. ended' \subseteq Scripts \cap ToSet(ran)
    BY <1>1, <1>7
  <2>. QED BY <1>1, <1>2, <1>5, <1>11, <2>1, <2>2, <2>3 DEF Listed
<1>13. Outstanding' = (Outstanding \ {x}) \cup ToSet(paused)
  BY <1>1, <1>2, <1>9, <1>10 DEF Outstanding
<1>14. ToSet(paused) \cap (Outstanding \ {x}) = {} /\ x \in Outstanding
  <2>1. CASE paused = <<>>
    <3>1. ToSet(paused) = {}
      BY <2>1 DEF ToSet
    <3>. QED BY <1>1, <3>1 DEF Outstanding
  <2>2. CASE paused # <<>>
    <3>1. mode = "cache" /\ failed \subseteq ToSet(ordered)
      BY <1>5, <2>2 DEF Listed
    <3>2. Outstanding = ToSet(placed) \cup ended
      BY <3>1 DEF Outstanding
    <3>. QED BY <1>1, <1>7, <1>9, <3>2
  <2>. QED BY <2>1, <2>2
<1>15. /\ IsFiniteSet(Outstanding')
       /\ Cardinality(Outstanding) \in Nat /\ Cardinality(Outstanding) > 0
       /\ Cardinality(Outstanding') = (Cardinality(Outstanding) + Len(paused)) - 1
  <2>. DEFINE A == Outstanding
              B == Outstanding \ {x}
              P == ToSet(paused)
  <2>1. IsFiniteSet(A) /\ Cardinality(A) \in Nat
    BY <1>3, FS_CardinalityType DEF ScriptsCounted
  <2>2. IsFiniteSet(B) /\ Cardinality(B) = Cardinality(A) - 1
    BY <1>14, <2>1, FS_RemoveElement
  <2>3. Cardinality(B) \in Nat
    BY <2>2, FS_CardinalityType
  <2>4. IsFiniteSet(P) /\ Cardinality(P) = Len(paused)
    BY <1>9, CountInOrder
  <2>5. B \cap P = {} /\ Cardinality({}) = 0
    BY <1>14, FS_EmptySet
  <2>6. IsFiniteSet(B \cup P) /\ Cardinality(B \cup P) = Cardinality(B) + Cardinality(P)
                                                             - Cardinality(B \cap P)
    BY <2>2, <2>4, FS_Union
  <2>7. Outstanding' = B \cup P
    BY <1>13
  <2>. HIDE DEF A, B, P
  <2>8. Cardinality(B \cap P) = 0
    BY <2>5
  <2>9. Cardinality(B \cup P) = Cardinality(B) + Len(paused)
    BY <1>4, <2>3, <2>4, <2>6, <2>8
  <2>10. /\ Cardinality(A) > 0
         /\ Cardinality(B \cup P) = (Cardinality(A) + Len(paused)) - 1
    BY <1>4, <2>1, <2>2, <2>3, <2>9
  <2>. QED BY <2>1, <2>6, <2>7, <2>10 DEF A
<1>16. /\ scriptCount' \in Nat /\ Cardinality(Outstanding') <= scriptCount'
       /\ "load" \notin thrown' => scriptCount' = Cardinality(Outstanding')
  <2>1. Cardinality(Outstanding) <= scriptCount
        /\ ("load" \notin thrown => scriptCount = Cardinality(Outstanding))
    BY <1>3 DEF ScriptsCounted, CountIsRight
  <2>2. "load" \notin thrown' => ~throws /\ "load" \notin thrown
    BY <1>1
  <2>. QED BY <1>1, <1>4, <1>8, <1>15, <2>1, <2>2
<1>17. ScriptsCounted'
  BY <1>15, <1>16 DEF ScriptsCounted, CountIsRight
<1>18. LoaderTypes'
  <2>1. {requireWait', polling', expired', held'} \subseteq BOOLEAN
    <3>1. held' \in BOOLEAN /\ polling' \in BOOLEAN
      BY <1>1
    <3>. QED BY <1>1, <1>3, <1>8, <3>1 DEF LoaderTypes
  <2>2. depth' \in 0..1
    BY <1>1, <1>3, <1>8 DEF LoaderTypes
  <2>3. given' \subseteq ToSet(List) /\ thrown' \subseteq {"poll", "load"}
    BY <1>1, <1>3, <1>6 DEF LoaderTypes
  <2>4. loading' \cup unmet' \subseteq ManagerIds
    BY <1>1, <1>8
  <2>5. paused' \in Seq(Files)
    BY <1>1
  <2>6. UNCHANGED <<mode, arriving, failed, fetched, ran, ordered>>
    BY <1>1, <1>2
  <2>. QED BY <1>3, <1>10, <1>16, <2>1, <2>2, <2>3, <2>4, <2>5, <2>6 DEF LoaderTypes
<1>19. CalledWhenGiven' /\ appRuns = 0
  <2>1. given # ToSet(List)
    BY <1>1, <1>6, <1>7
  <2>2. appRuns = 0
    BY <1>3, <2>1 DEF CalledWhenGiven
  <2>. QED BY <1>1, <1>8, <2>2 DEF CalledWhenGiven
<1>20. HeldUntilCalled'
  <2>1. SUFFICES ASSUME appRuns' = 0 PROVE Callback \in unmet' /\ held'
    BY DEF HeldUntilCalled
  <2>2. ran # <<>>
    <3>1. ToSet(<<>>) = {}
      BY DEF ToSet
    <3>. QED BY <1>7, <3>1
  <2>3. "main" \notin ended
    BY <1>7, FilesAre
  <2>4. Callback \in unmet /\ held
    BY <1>3, <1>19, <2>2, <2>3 DEF HeldUntilCalled
  <2>5. ~done
    BY <1>1, <1>19, <2>1
  <2>6. Callback \in wait
    BY <1>8, <2>4, <2>5
  <2>7. ~Released(late, still, wait, count)
    BY <1>8, <2>6
  <2>. QED BY <1>1, <2>4, <2>6, <2>7
<1>. QED BY <1>12, <1>17, <1>18, <1>19, <1>20 DEF LoaderInv

-------------------------------------------------------------------------------
LEMMA LoaderStep == LoaderInv /\ [LoaderNext]_loaderVars => LoaderInv'
<1>. SUFFICES ASSUME LoaderInv, [LoaderNext]_loaderVars PROVE LoaderInv'
  OBVIOUS
<1>1. CASE StopWaiting
  BY <1>1, StopWaitingHolds
<1>2. CASE Poll
  BY <1>2, PollHolds
<1>3. CASE Expire
  BY <1>3, ExpireHolds
<1>4. CASE \E x \in arriving : Come(x) \/ NeverComes(x)
  BY <1>4, ArriveHolds, OnFetchOnlyHolds, ScriptCacheCallbackHolds, NeverComesHolds DEF Come
<1>5. CASE Run
  BY <1>5, RunHolds
<1>6. CASE \E x \in ended : Load(x)
  BY <1>6, CompleteMainHolds, CompleteOrderHolds, CompleteScriptHolds DEF Load
<1>7. CASE UNCHANGED loaderVars
  BY <1>7, LoaderStands
<1>. QED BY <1>1, <1>2, <1>3, <1>4, <1>5, <1>6, <1>7 DEF LoaderNext

(***************************************************************************)
(* A page whose scripts have all been loaded has them in order, too.       *)
(***************************************************************************)
LEMMA ThroughIsInOrder == LoaderIsThrough => LoaderInv
<1>. SUFFICES ASSUME LoaderIsThrough PROVE LoaderInv
  OBVIOUS
<1>1. /\ mode = "in order" /\ arriving = {} /\ failed = {} /\ placed = <<>> /\ ended = {}
      /\ ran = Whole /\ given = ToSet(List) /\ appRuns = 1
      /\ fetched = {} /\ ordered = <<>> /\ loading = {} /\ unmet = {} /\ paused = <<>>
      /\ scriptCount = 0 /\ depth = 0 /\ thrown = {}
      /\ requireWait = FALSE /\ polling = FALSE /\ expired = FALSE /\ held = FALSE
  BY DEF LoaderIsThrough, Whole
<1>2. ToSet(<<>>) = {} /\ <<>> \in Seq(Files)
  BY DEF ToSet
<1>3. Whole \in Seq(Files) /\ ToSet(Whole) = {"main", "order"} \cup Scripts
  <2>. DEFINE two == <<"main", "order">>
  <2>1. two \in Seq(Files) /\ ToSet(two) = {"main", "order"}
    BY FilesAre DEF ToSet
  <2>2. Fetched \in Seq(Files) /\ ToSet(Fetched) = Scripts
    BY FetchedIs, FilesAre DEF Scripts
  <2>. HIDE DEF two
  <2>3. ToSet(two \o Fetched) = ToSet(two) \cup ToSet(Fetched)
    BY <2>1, <2>2, ElementsJoined
  <2>. QED BY <2>1, <2>2, <2>3, WholeIs DEF two, Whole
<1>4. LoaderTypes
  <2>1. /\ mode \in Modes /\ arriving \cup failed \cup fetched \subseteq Files
        /\ arriving \cap failed = {} /\ loading \cup unmet \subseteq ManagerIds
        /\ given \subseteq ToSet(List) /\ scriptCount \in Nat /\ depth \in 0..1
        /\ thrown \subseteq {"poll", "load"}
    <3>1. mode = "in order" /\ depth = 0 /\ scriptCount = 0
      BY <1>1
    <3>2. /\ arriving = {} /\ failed = {} /\ fetched = {} /\ loading = {} /\ unmet = {}
          /\ given = ToSet(List) /\ thrown = {}
      BY <1>1
    <3>3. mode \in Modes /\ scriptCount \in Nat
      BY <3>1 DEF Modes
    <3>4. depth \in 0..1
      <4>1. depth = 0
        BY <3>1
      <4>2. 0 \in 0..1
        OBVIOUS
      <4>. QED BY <4>1, <4>2
    <3>5. arriving \cup failed \cup fetched \subseteq Files /\ arriving \cap failed = {}
      BY <3>2
    <3>6. loading \cup unmet \subseteq ManagerIds
      BY <3>2
    <3>7. given \subseteq ToSet(List) /\ thrown \subseteq {"poll", "load"}
      BY <3>2
    <3>. QED BY <3>3, <3>4, <3>5, <3>6, <3>7
  <2>2. {requireWait, polling, expired, held} \subseteq BOOLEAN
    BY <1>1
  <2>3. /\ placed \in Seq(Files) /\ ran \in Seq(Files)
        /\ ordered \in Seq(Files) /\ paused \in Seq(Files)
    BY <1>1, <1>2, <1>3
  <2>. QED BY <2>1, <2>2, <2>3 DEF LoaderTypes
<1>5. Listed
  <2>1. Line = Whole
    <3>1. <<>> \o <<>> = <<>> /\ Whole \o <<>> = Whole
      BY <1>3, ConcatEmptySeq
    <3>2. ran = Whole /\ placed = <<>> /\ paused = <<>> /\ ordered = <<>>
      BY <1>1
    <3>. QED BY <3>1, <3>2 DEF Line
  <2>2. ToSet(List) = {Jquery} \cup Scripts
    BY FetchedIs, ListAssumption
  <2>3. Scripts \cap ToSet(ran) = Scripts /\ {"main", "order"} \subseteq ToSet(ran)
    BY <1>1, <1>3
  <2>. QED BY <1>1, <2>1, <2>2, <2>3, WholeInOrder DEF Listed
<1>6. ScriptsCounted
  <2>1. Outstanding = {}
    BY <1>1, <1>2 DEF Outstanding
  <2>2. IsFiniteSet({}) /\ Cardinality({}) = 0
    BY FS_EmptySet
  <2>3. scriptCount = 0
    BY <1>1
  <2>. QED BY <2>1, <2>2, <2>3 DEF ScriptsCounted, CountIsRight
<1>7. CalledWhenGiven /\ HeldUntilCalled
  <2>1. given = ToSet(List) /\ appRuns = 1
    BY <1>1
  <2>. QED BY <2>1 DEF CalledWhenGiven, HeldUntilCalled
<1>. QED BY <1>4, <1>5, <1>6, <1>7 DEF LoaderInv

(***************************************************************************)
(* StartsInOrder, for any list of scripts: whatever files come, in         *)
(* whatever order, and whatever the browser can do, the scripts run in the *)
(* order of the list, app.run() is called once, after all of them, and     *)
(* ready is held back until then; where no load event was cut short,       *)
(* scriptCount counts the scripts that are asked for and not complete.     *)
(***************************************************************************)
THEOREM PageStartsInOrder == LoaderSpec => []StartsInOrder
<1>1. LoaderInv => StartsInOrder
  BY LoaderSays
<1>. QED BY LoaderStarts, LoaderStep, <1>1, PTL DEF LoaderSpec

(***************************************************************************)
(* The same of a page whose scripts have all been loaded.                  *)
(***************************************************************************)
COROLLARY LoadedPageStaysInOrder ==
    LoaderIsThrough /\ [][LoaderNext]_loaderVars => []StartsInOrder
<1>1. LoaderInv => StartsInOrder
  BY LoaderSays
<1>. QED BY ThroughIsInOrder, LoaderStep, <1>1, PTL
===============================================================================
