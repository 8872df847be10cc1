------------------------------- MODULE StatusPages -------------------------------
(***************************************************************************)
(* Pages of the console that draw the state of the server over what they   *)
(* drew before: the bars of the first page (scripts/index.js), the details *)
(* of replication (scripts/replication.js), the boxes of a core's page     *)
(* with the button of its healthcheck (scripts/dashboard.js), the ping in  *)
(* the menu of a core (scripts/ping.js) and the status of an import        *)
(* (scripts/dataimport.js, with the ages of lib/jquery.timeago.js).        *)
(***************************************************************************)
LOCAL INSTANCE Integers
LOCAL INSTANCE Sequences
LOCAL INSTANCE SequencesExt
LOCAL INSTANCE FiniteSets
LOCAL INSTANCE FiniteSetsExt

CONSTANTS
    SystemAnswers,   \* what the server says of its system: its load, and its bars
    FirstAnswer,     \* what it said when the console started (app.dashboard_values)
    NotSaid,         \* what an answer leaves out, and no number
    MaxIndexVisits, MaxReloads, \* bounds on the visits of the first page, on its reloads
    DetailsAnswers,  \* the details of replication that the server answers
    MaxDetails,      \* bound on the requests for them
    HealthCores,     \* the cores with a page
    MaxCoreVisits, MaxToggles,  \* bounds on the visits of a core's page, on its button
    PingTimes,       \* the times that a core's answer to a ping tells
    MaxMenus, MaxPings,         \* bounds on the menus that are drawn, on the pings
    StatusAnswers,   \* the statuses of an import that the server answers
    StartOfClock,    \* when the page of the import is opened, in seconds
    Pauses, MaxPauses, \* how long nothing may happen, longer than any timer; bound on that
    MaxStatusAsks, MaxAborts    \* bounds on the requests for the status, on those to abort

ASSUME SystemAssumption == FirstAnswer \in SystemAnswers

VARIABLES
    indexPage,     \* the first page: its visit, the bars and their headers
    indexVisits,   \* how many visits it had, and the visit that the reload link draws into
    indexAsks,     \* the requests for its template, and those of the reload link
    indexSeen      \* (not in the code) the answer drawn last, whether one crossed visits

indexVars == <<indexPage, indexVisits, indexAsks, indexSeen>>

VARIABLES
    details,       \* what the page of replication shows
    detailsTimers, \* its timeouts
    detailsAsks,   \* the requests that are under way
    detailsSeen    \* (not in the code) requests so far, the answer drawn last, whether a
                   \* server changed its role, whether two requests were under way at once

detailsVars == <<details, detailsTimers, detailsAsks, detailsSeen>>

VARIABLES
    pinged,        \* of each core, whether its healthcheck is enabled on the server
    corePage,      \* the page of a core: its boxes and the button
    toggles,       \* the core that the bound button speaks to
    boxAsks,       \* the requests, with what the server has done
    healthSeen     \* (not in the code) clicks so far, whether answers crossed or were lost

healthVars == <<pinged, corePage, toggles, boxAsks, healthSeen>>

VARIABLES
    pingLink,      \* the link `Ping' in the menu of the core
    pingAsks,      \* the pings under way
    pingSeen       \* (not in the code) menus and pings so far, how the last ping of this menu
                   \* ended, whether two of them were under way at once

pingVars == <<pingLink, pingAsks, pingSeen>>

VARIABLES
    statusBox,     \* what the page of an import shows of its status
    statusButtons, \* the button that asks for it, the one that aborts, the link to its configuration
    statusTimers,  \* the timeouts; whether the status is asked for again and again
    statusAsks,    \* how many requests are under way (they carry nothing that differs)
    statusClock,   \* the time
    statusSeen     \* (not in the code) requests and waits so far, whether the last one was
                   \* lost, whether two of a kind were under way at once, whether an abort
                   \* was answered during the timeout of another

statusVars == <<statusBox, statusButtons, statusTimers, statusAsks, statusClock, statusSeen>>

-------------------------------------------------------------------------------
(***************************************************************************)
(* index.js.  A bar has numbers for max and total, that of the JVM also    *)
(* for what is used; a number may come with a unit.                        *)
(***************************************************************************)
SystemBars == {"physical-memory", "swap-space", "file-descriptor"}
IndexBars == SystemBars \cup {"jvm-memory"}

ParseMemory(v) == v.n * 1024 ^ v.unit

BarData(b) == [k \in DOMAIN b |-> ParseMemory(b[k])]

(* The tenths of a percent that are written, a half rounded up. *)
Percentage(d) ==
    LET part == IF "used" \in DOMAIN d THEN d.used ELSE d.total
    IN  IF d.max = 0 THEN NotSaid ELSE (1000 * part + d.max \div 2) \div d.max

Labelled(bytes, converts) ==
    <<bytes, IF ~converts THEN "as it is" ELSE IF bytes < 1024 ^ 3 THEN "MB" ELSE "GB">>

GenerateBar(bar, d, converts) ==
    [shown |-> TRUE, levels |-> bar.levels \cup {Cardinality(DOMAIN d)},
     labels |-> [k \in DOMAIN d |-> Labelled(d[k], converts)]]

NewBar == [shown |-> TRUE, levels |-> {}, labels |-> <<>>]
NoIndex == [visit |-> 0, drawn |-> FALSE]
NewIndex(v) == [visit |-> v, drawn |-> TRUE, bars |-> [b \in IndexBars |-> NewBar],
                headers |-> [b \in IndexBars |-> <<>>], load |-> <<>>, none |-> FALSE]

IndexInit ==
    /\ indexPage = NoIndex
    /\ indexVisits = [count |-> 0, self |-> 0]
    /\ indexAsks = {}
    /\ indexSeen = [of |-> FirstAnswer, reloads |-> 0, crossed |-> FALSE]

(***************************************************************************)
(* system_info draws the bars into the element of a visit; their headers   *)
(* it looks for in the whole document, where they may be another visit's.  *)
(***************************************************************************)
BarsDrawn(p, a) ==
    LET bars == [b \in IndexBars |->
                    IF b \in DOMAIN a.bars
                    THEN GenerateBar(p.bars[b], BarData(a.bars[b]), b # "file-descriptor")
                    ELSE [p.bars[b] EXCEPT !.shown = FALSE]]
    IN  [p EXCEPT !.bars = bars, !.load = IF a.load = NotSaid THEN @ ELSE <<a.load>>,
                  !.none = \A b \in SystemBars : ~bars[b].shown]

(* A fault of generate_bar: the description that is there is not removed. *)
HeadersAdded(p, a) ==
    [p EXCEPT !.headers = [b \in IndexBars |->
        IF b \in DOMAIN a.bars THEN Append(@[b], Percentage(BarData(a.bars[b]))) ELSE @[b]]]

HeadersDrawn(p, a) ==
    [p EXCEPT !.headers = [b \in IndexBars |->
        IF b \in DOMAIN a.bars THEN <<Percentage(BarData(a.bars[b]))>> ELSE @[b]]]

SystemInfo(v, a) ==
    IF ~indexPage.drawn THEN indexPage
    ELSE HeadersDrawn(IF v = indexPage.visit THEN BarsDrawn(indexPage, a) ELSE indexPage, a)

VisitFirstPage ==
    /\ indexVisits.count < MaxIndexVisits
    /\ LET v == indexVisits.count + 1
       IN  /\ indexVisits' = [indexVisits EXCEPT !.count = v]
           /\ indexPage' = [visit |-> v, drawn |-> FALSE]
           /\ indexAsks' = indexAsks \cup {[what |-> "template", n |-> v]}
    /\ UNCHANGED indexSeen

LeaveFirstPage ==
    /\ indexPage # NoIndex
    /\ indexPage' = NoIndex
    /\ UNCHANGED <<indexVisits, indexAsks, indexSeen>>

(* The template, drawn with the values that the console started with. *)
FirstPageDrawn(v) ==
    /\ [what |-> "template", n |-> v] \in indexAsks
    /\ indexAsks' = indexAsks \ {[what |-> "template", n |-> v]}
    /\ indexVisits' = [indexVisits EXCEPT !.self = v]
    /\ IF v = indexPage.visit
       THEN /\ indexPage' = HeadersDrawn(BarsDrawn(NewIndex(v), FirstAnswer), FirstAnswer)
            /\ indexSeen' = [indexSeen EXCEPT !.of = FirstAnswer]
       ELSE /\ indexPage' = SystemInfo(v, FirstAnswer)
            /\ indexSeen' = [indexSeen EXCEPT !.crossed = TRUE]

ClickReload ==
    /\ indexPage.drawn /\ indexSeen.reloads < MaxReloads
    /\ indexSeen' = [indexSeen EXCEPT !.reloads = @ + 1]
    /\ indexAsks' = indexAsks
            \cup {[what |-> "system", n |-> indexSeen.reloads + 1, self |-> indexVisits.self]}
    /\ UNCHANGED <<indexPage, indexVisits>>

ReloadComes(q, a) ==
    /\ q.what = "system"
    /\ indexAsks' = indexAsks \ {q}
    /\ indexPage' = SystemInfo(q.self, a)
    /\ indexSeen' = IF q.self = indexPage.visit THEN [indexSeen EXCEPT !.of = a]
                    ELSE [indexSeen EXCEPT !.crossed = TRUE]
    /\ UNCHANGED indexVisits

IndexNext ==
    \/ VisitFirstPage \/ LeaveFirstPage \/ ClickReload
    \/ \E v \in 1..indexVisits.count : FirstPageDrawn(v)
    \/ \E q \in indexAsks, a \in SystemAnswers : ReloadComes(q, a)

IndexSpec == IndexInit /\ [][IndexNext]_indexVars

(***************************************************************************)
(* Whatever was drawn before, the first page shows a bar just when the     *)
(* last answer has its numbers, with those numbers, one level and one      *)
(* percentage, which is nearest to theirs unless an answer for an earlier  *)
(* visit came; and says that there is nothing just when it shows no bar.   *)
(***************************************************************************)
Nearest(p, d) ==
    LET part == IF "used" \in DOMAIN d THEN d.used ELSE d.total
    IN  IF d.max = 0 THEN p = NotSaid
        ELSE p * d.max - 1000 * part \in -(d.max \div 2)..(d.max \div 2)

SystemIsShown ==
    indexPage.drawn =>
      /\ \A b \in IndexBars :
           LET bar == indexPage.bars[b]
           IN  /\ bar.shown <=> b \in DOMAIN indexSeen.of.bars
               /\ bar.shown =>
                    LET d == BarData(indexSeen.of.bars[b])
                    IN  /\ \A k \in DOMAIN d : bar.labels[k][1] = d[k]
                        /\ bar.levels = {IF b = "jvm-memory" THEN 3 ELSE 2}
                        /\ Len(indexPage.headers[b]) = 1
                        /\ ~indexSeen.crossed => Nearest(indexPage.headers[b][1], d)
      /\ indexPage.none <=> DOMAIN indexSeen.of.bars \cap SystemBars = {}
      /\ Len(indexPage.load) <= 1

-------------------------------------------------------------------------------
(***************************************************************************)
(* replication.js.  What is shown of an answer is drawn over what earlier  *)
(* ones left; each piece of the handler is an operator here.               *)
(***************************************************************************)
NewDetails ==
    [there |-> TRUE, loader |-> FALSE, roles |-> {}, error |-> NotSaid, width |-> NotSaid,
     rows |-> <<>>, more |-> FALSE, expanded |-> FALSE, current |-> NotSaid, replicable |-> NotSaid,
     diff |-> {}, url |-> NotSaid, polls |-> FALSE, busy |-> FALSE, enabled |-> FALSE, files |-> NotSaid,
     timer |-> [shown |-> FALSE, about |-> TRUE, text |-> <<>>]]

DetailsInit ==
    /\ details = NewDetails
    /\ detailsTimers = [countdown |-> FALSE, ever |-> FALSE, soon |-> 0]
    /\ detailsAsks = {1}
    /\ detailsSeen = [asked |-> 1, of |-> NotSaid, roles |-> {}, together |-> FALSE]

RoleDrawn(p, a) == [p EXCEPT !.roles = @ \cup {IF a.slave THEN "slave" ELSE "master"}]

ErrorDrawn(p, a) == IF a.slave THEN [p EXCEPT !.error = a.error] ELSE p

(* The bar of a download: a pixel wide when nothing has come yet. *)
ProgressDrawn(p, a) ==
    IF a.slave THEN [p EXCEPT !.width = IF a.percent = 0 THEN "1px" ELSE a.percent] ELSE p

(***************************************************************************)
(* The iterations: each date once, in the order of the dates as texts, the *)
(* last one first, with a class for each list that has it.  When there are *)
(* none, the rows that are there stay.                                     *)
(***************************************************************************)
DatesOf(a) == ToSet(a.replicated) \cup ToSet(a.failed)

ClassesOf(a, d) ==
    {c \in {"replicated", "failed", "latest"} :
        \/ c = "replicated" /\ d \in ToSet(a.replicated)
        \/ c = "failed" /\ d \in ToSet(a.failed)
        \/ c = "latest" /\ d \in {a.lastReplicated, a.lastFailed}}

IterationRows(a) ==
    LET dates == SetToSortSeq(DatesOf(a), LAMBDA d, e : d > e)
    IN  [i \in DOMAIN dates |-> [date |-> dates[i], classes |-> ClassesOf(a, dates[i])]]

(* A list that is not expanded hides the rows that are not the latest; the link expands it. *)
HiddenRows(p) == {r \in ToSet(p.rows) : ~p.expanded /\ "latest" \notin r.classes}

IterationsDrawn(p, a) ==
    LET drawn == [p EXCEPT !.rows = IterationRows(a)]
    IN  IF ~a.slave \/ DatesOf(a) = {} THEN p ELSE [drawn EXCEPT !.more = HiddenRows(drawn) # {}]

CurrentDrawn(p, a) == [p EXCEPT !.current = <<a.version, a.generation>>]

ReplicableDrawn(p, a) == [p EXCEPT !.replicable = a.replicable]

(* A fault of the handler: what differed once stays marked. *)
DiffKept(p, a) ==
    IF ~a.slave THEN p
    ELSE [p EXCEPT !.diff = @ \cup {i \in 1..2 : <<a.version, a.generation>>[i] # a.replicable[i]}]

DiffDrawn(p, a) ==
    IF ~a.slave THEN p
    ELSE [p EXCEPT !.diff = {i \in 1..2 : <<a.version, a.generation>>[i] # a.replicable[i]}]

PollingDrawn(p, a) ==
    IF ~a.slave THEN p
    ELSE [p EXCEPT !.url = IF a.url = NotSaid THEN @ ELSE a.url, !.polls = a.polls]

BusyDrawn(p, a) == IF ~a.slave THEN p ELSE [p EXCEPT !.busy = a.busy]

MasterDrawn(p, a) ==
    [p EXCEPT !.enabled = a.enabled, !.files = IF a.files = NotSaid THEN @ ELSE a.files]

(***************************************************************************)
(* app.convert_duration_to_seconds reads the parts of h:m:s from the last, *)
(* and rounds by the first digit after the point; the other conversion     *)
(* leaves out what is zero.                                                *)
(***************************************************************************)
ToSeconds(duration) ==
    LET parts == Reverse(duration.parts)
        Sum[i \in 0..Len(parts)] == IF i = 0 THEN 0 ELSE Sum[i - 1] + parts[i] * 60 ^ (i - 1)
    IN  Sum[Len(parts)] + (IF duration.tenths >= 5 THEN 1 ELSE 0)

ReadableTime(seconds) ==
    LET minutes == seconds \div 60
        hours == minutes \div 60
    IN  SelectSeq(<< <<hours, "h">>, <<minutes - hours * 60, "m">>, <<seconds - minutes * 60, "s">> >>,
                  LAMBDA t : t[1] # 0)

CountsDown(a) == a.slave /\ ~a.busy /\ a.polls /\ a.interval # NotSaid

(* Until the next execution, if that is in the future; else about as long as the interval. *)
NextTick(a) == IF a.next # NotSaid /\ a.next > a.now THEN a.next - a.now ELSE ToSeconds(a.interval)

TimerDrawn(p, a) ==
    IF ~CountsDown(a) THEN p
    ELSE [p EXCEPT !.timer = [shown |-> TRUE, text |-> ReadableTime(NextTick(a)),
                              about |-> ~(a.next # NotSaid /\ a.next > a.now)]]

(***************************************************************************)
(* Without the details of the master, which a slave leaves out when it did *)
(* not reach it, the handler throws half way.                              *)
(***************************************************************************)
Throws(a) == a.slave /\ a.replicable = NotSaid

DrawnHalf(p, a) == CurrentDrawn(IterationsDrawn(ProgressDrawn(ErrorDrawn(RoleDrawn(p, a), a), a), a), a)

DrawnWhole(p, a) ==
    MasterDrawn(TimerDrawn(BusyDrawn(PollingDrawn(DiffDrawn(ReplicableDrawn(DrawnHalf(p, a), a), a),
                                                  a), a), a), a)

(***************************************************************************)
(* A request hides the countdown and stops it, once there has been one.    *)
(***************************************************************************)
TimerStopped(p, timers) ==
    IF timers.ever THEN [p EXCEPT !.loader = TRUE, !.timer.shown = FALSE]
    ELSE [p EXCEPT !.loader = TRUE]

AsksDetails(timers) ==
    /\ detailsSeen.asked < MaxDetails
    /\ details' = TimerStopped(details, detailsTimers)
    /\ detailsTimers' = [timers EXCEPT !.countdown = FALSE]
    /\ detailsAsks' = detailsAsks \cup {detailsSeen.asked + 1}
    /\ detailsSeen' = [detailsSeen EXCEPT !.asked = @ + 1, !.together = @ \/ detailsAsks # {}]

RefreshDetails == details.there /\ AsksDetails(detailsTimers)
CountdownOver == detailsTimers.countdown /\ AsksDetails(detailsTimers)
SoonOver ==
    detailsTimers.soon > 0 /\ AsksDetails([detailsTimers EXCEPT !.soon = @ - 1])

DetailsCome(q, a) ==
    /\ q \in detailsAsks
    /\ detailsAsks' = detailsAsks \ {q}
    /\ LET p == [details EXCEPT !.loader = FALSE]
       IN  details' = IF Throws(a) THEN DrawnHalf(p, a) ELSE DrawnWhole(p, a)
    /\ detailsTimers' =
          [countdown |-> detailsTimers.countdown \/ (CountsDown(a) /\ ~Throws(a)),
           ever |-> detailsTimers.ever \/ (CountsDown(a) /\ ~Throws(a)),
           soon |-> detailsTimers.soon + (IF a.slave /\ a.busy /\ ~Throws(a) THEN 1 ELSE 0)]
    /\ detailsSeen' = [detailsSeen EXCEPT !.of = a,
                            !.roles = @ \cup {IF a.slave THEN "slave" ELSE "master"}]

(* An error writes over the whole content; timers and answers go on without it. *)
DetailsLost(q) ==
    /\ q \in detailsAsks
    /\ detailsAsks' = detailsAsks \ {q}
    /\ details' = [details EXCEPT !.there = FALSE]
    /\ UNCHANGED <<detailsTimers, detailsSeen>>

ToggleIterations ==
    /\ details.there /\ details.more
    /\ details' = [details EXCEPT !.expanded = ~@]
    /\ UNCHANGED <<detailsTimers, detailsAsks, detailsSeen>>

DetailsNext ==
    \/ ToggleIterations \/ RefreshDetails \/ CountdownOver \/ SoonOver
    \/ \E q \in detailsAsks : DetailsLost(q) \/ \E a \in DetailsAnswers : DetailsCome(q, a)

DetailsSpec == DetailsInit /\ [][DetailsNext]_detailsVars

(***************************************************************************)
(* What the page shows after any answers is what the last one says, piece  *)
(* by piece, as far as it was drawn: each date once and with its classes,  *)
(* what differs from the master, the buttons.  No iteration is hidden      *)
(* without the link that shows it.  (What another role left stays, as do   *)
(* the rows when the lists become empty.)                                  *)
(***************************************************************************)
LastAnswerIsShown(a) ==
    /\ HiddenRows(details) # {} => details.more
    /\ a.slave =>
         /\ details.error = a.error
         /\ DatesOf(a) # {} =>
              /\ {r.date : r \in ToSet(details.rows)} = DatesOf(a)
              /\ Len(details.rows) = Cardinality(DatesOf(a))
              /\ \A r \in ToSet(details.rows) :
                    /\ "replicated" \in r.classes <=> r.date \in ToSet(a.replicated)
                    /\ "failed" \in r.classes <=> r.date \in ToSet(a.failed)
    /\ details.current = <<a.version, a.generation>>
    /\ ~Throws(a) =>
         /\ details.enabled = a.enabled
         /\ a.slave =>
              /\ details.polls = a.polls /\ details.busy = a.busy
              /\ details.diff = {} <=> details.current = details.replicable
         /\ detailsSeen.roles = {"master"} => details.diff = {}

(***************************************************************************)
(* Unless two requests were under way at once, the countdown is shown when *)
(* it runs, just when the last answer says that the slave polls, and with  *)
(* the time until then.  While a slave replicates, and while one polls and *)
(* reaches its master, the page has something that asks again.             *)
(***************************************************************************)
InSeconds(text) ==
    LET unit == [h |-> 3600, m |-> 60, s |-> 1]
    IN  SumSet({text[i][1] * unit[text[i][2]] : i \in DOMAIN text})

PageAsksAgain(a) ==
    ~detailsSeen.together /\ detailsAsks = {} /\ details.there =>
        /\ details.timer.shown = detailsTimers.countdown
        /\ details.timer.shown <=> (CountsDown(a) /\ ~Throws(a))
        /\ details.timer.shown => InSeconds(details.timer.text) = NextTick(a)
        /\ a.slave /\ a.busy /\ ~Throws(a) => detailsTimers.soon > 0

DetailsAreShown ==
    detailsSeen.of # NotSaid =>
        LastAnswerIsShown(detailsSeen.of) /\ PageAsksAgain(detailsSeen.of)

-------------------------------------------------------------------------------
(***************************************************************************)
(* dashboard.js.  Each box asks for its own content; the template draws    *)
(* them empty.                                                             *)
(***************************************************************************)
CoreBoxes == {"dataimport", "admin-extra", "healthcheck"}

LoadingBox == [loader |-> TRUE, message |-> "Loading", content |-> FALSE, disabled |-> FALSE]
NoButton == [enabled |-> FALSE, icon |-> "none"]
NoCorePage == [visit |-> 0]

NewCorePage(v, c) ==
    [visit |-> v, core |-> c, boxes |-> [b \in CoreBoxes |-> LoadingBox], button |-> NoButton]

BoxAsk(b, v, c) == [what |-> b, visit |-> v, core |-> c, done |-> FALSE, status |-> FALSE]

HealthInit ==
    /\ pinged \in [HealthCores -> BOOLEAN]
    /\ corePage = NoCorePage
    /\ toggles = NotSaid
    /\ boxAsks = {}
    /\ healthSeen = [visits |-> 0, clicks |-> 0, crossed |-> FALSE]

HealthRests == \A c \in HealthCores : pinged[c]

VisitCore(c) ==
    /\ healthSeen.visits < MaxCoreVisits
    /\ LET v == healthSeen.visits + 1
       IN  /\ corePage' = NewCorePage(v, c)
           /\ boxAsks' = boxAsks \cup {BoxAsk(b, v, c) : b \in CoreBoxes}
           /\ healthSeen' = [healthSeen EXCEPT !.visits = v]
    /\ UNCHANGED <<pinged, toggles>>

(***************************************************************************)
(* set_healthcheck_status: every button of the document, and its icon.     *)
(***************************************************************************)
(* A fault of it: to disable leaves the mark of the button. *)
ButtonMarked(p, enabled) ==
    IF p = NoCorePage THEN p
    ELSE [p EXCEPT !.button = [enabled |-> @.enabled \/ enabled, icon |-> enabled]]

SetHealthcheckStatus(p, enabled) ==
    IF p = NoCorePage THEN p
    ELSE [p EXCEPT !.button = [enabled |-> enabled, icon |-> enabled]]

(***************************************************************************)
(* The server tells the status of a core, or sets it, before the answer    *)
(* comes.                                                                  *)
(***************************************************************************)
PingServed(q) ==
    /\ q \in boxAsks /\ ~q.done /\ q.what \notin {"dataimport", "admin-extra"}
    /\ pinged' = IF q.what = "healthcheck" THEN pinged
                 ELSE [pinged EXCEPT ![q.core] = q.what = "enable"]
    /\ boxAsks' = (boxAsks \ {q}) \cup {[q EXCEPT !.done = TRUE, !.status = pinged'[q.core]]}
    /\ UNCHANGED <<corePage, toggles, healthSeen>>

(***************************************************************************)
(* An answer fills the box that asked, if it is still on the page.  That   *)
(* of the healthcheck binds the button to its own core anew, and marks the *)
(* button that is there now.                                               *)
(***************************************************************************)
InBox(p, q, box) ==
    IF p # NoCorePage /\ p.visit = q.visit THEN [p EXCEPT !.boxes[q.what] = box] ELSE p

FilledBox == [loader |-> FALSE, message |-> NotSaid, content |-> TRUE, disabled |-> FALSE]
DisabledBox(p, q) ==
    [loader |-> FALSE, message |-> "not configured", content |-> p.boxes[q.what].content,
     disabled |-> TRUE]

BoxComes(q) ==
    /\ q \in boxAsks /\ q.what \in CoreBoxes
    /\ q.what = "healthcheck" => q.done
    /\ boxAsks' = boxAsks \ {q}
    /\ LET p == InBox(corePage, q, FilledBox)
       IN  IF q.what = "healthcheck"
           THEN corePage' = SetHealthcheckStatus(p, q.status) /\ toggles' = q.core
           ELSE corePage' = p /\ UNCHANGED toggles
    /\ healthSeen' = [healthSeen EXCEPT !.crossed =
                        @ \/ (q.what = "healthcheck" /\ q.visit # corePage.visit)]
    /\ UNCHANGED pinged

BoxFails(q) ==
    /\ q \in boxAsks /\ q.what \in CoreBoxes
    /\ boxAsks' = boxAsks \ {q}
    /\ corePage' = IF corePage # NoCorePage /\ corePage.visit = q.visit
                   THEN InBox(corePage, q, DisabledBox(corePage, q)) ELSE corePage
    /\ UNCHANGED <<pinged, toggles, healthSeen>>

(***************************************************************************)
(* The button asks for the opposite of what it says, of the core that the  *)
(* last status was for; the answer marks the button of the page it finds.  *)
(***************************************************************************)
Pings == {q \in boxAsks : q.what \in {"enable", "disable"}}

PressHealthcheck ==
    /\ corePage # NoCorePage /\ corePage.boxes["healthcheck"].content /\ toggles # NotSaid
    /\ healthSeen.clicks < MaxToggles
    /\ boxAsks' = boxAsks \cup
            {[BoxAsk(IF corePage.button.enabled THEN "disable" ELSE "enable", corePage.visit, toggles)
                EXCEPT !.status = ~corePage.button.enabled]}
    /\ healthSeen' = [healthSeen EXCEPT !.clicks = @ + 1,
            !.crossed = @ \/ Pings # {} \/ \E q \in boxAsks : q.what = "healthcheck"]
    /\ UNCHANGED <<pinged, corePage, toggles>>

PingComes(q) ==
    /\ q \in Pings /\ q.done
    /\ boxAsks' = boxAsks \ {q}
    /\ corePage' = SetHealthcheckStatus(corePage, q.what = "enable")
    /\ healthSeen' = [healthSeen EXCEPT !.crossed = @ \/ q.visit # corePage.visit]
    /\ UNCHANGED <<pinged, toggles>>

PingFails(q) ==
    /\ q \in Pings
    /\ boxAsks' = boxAsks \ {q}
    /\ healthSeen' = [healthSeen EXCEPT !.crossed = TRUE]
    /\ UNCHANGED <<pinged, corePage, toggles>>

HealthNext ==
    \/ \E c \in HealthCores : VisitCore(c)
    \/ PressHealthcheck
    \/ \E q \in boxAsks : PingServed(q) \/ BoxComes(q) \/ BoxFails(q) \/ PingComes(q) \/ PingFails(q)

HealthSpec == HealthInit /\ [][HealthNext]_healthVars

(***************************************************************************)
(* A box says that it loads just while its request is under way, and is    *)
(* then either filled or disabled.  When answers have come for the page    *)
(* they were asked by, one press at a time, the button of a page is that   *)
(* of its own core and says what the server has.                           *)
(***************************************************************************)
BoxesEnd ==
    \A b \in CoreBoxes :
        LET box == corePage.boxes[b]
        IN  /\ box.loader <=> \E q \in boxAsks : q.what = b /\ q.visit = corePage.visit
            /\ ~box.loader => box.content # box.disabled

ButtonIsOfItsCore ==
    corePage.boxes["healthcheck"].content /\ ~healthSeen.crossed =>
        /\ toggles = corePage.core
        /\ corePage.button.icon = corePage.button.enabled
        /\ Pings = {} => corePage.button.enabled = pinged[corePage.core]

HealthIsShown == corePage # NoCorePage => BoxesEnd /\ ButtonIsOfItsCore

-------------------------------------------------------------------------------
(***************************************************************************)
(* ping.js.  The menu of a core is drawn anew at each visit, and the link  *)
(* with it; it is emptied when no core is chosen.                          *)
(***************************************************************************)
NewPingLink(n, c) ==
    [menu |-> n, core |-> c, error |-> FALSE, title |-> FALSE, qtime |-> NotSaid, loader |-> FALSE]
NoPingLink == [menu |-> 0]

PingInit ==
    /\ pingLink = NoPingLink
    /\ pingAsks = {}
    /\ pingSeen = [menus |-> 0, pings |-> 0, last |-> NotSaid, together |-> FALSE]

DrawMenu(link) ==
    /\ pingSeen.menus < MaxMenus
    /\ pingLink' = link
    /\ pingSeen' = [pingSeen EXCEPT !.menus = @ + 1, !.last = NotSaid, !.together = FALSE]
    /\ UNCHANGED pingAsks

CoreMenuDrawn(c) == DrawMenu(NewPingLink(pingSeen.menus + 1, c))
CoreMenuEmptied == pingLink # NoPingLink /\ DrawMenu(NoPingLink)

OfThisMenu == {q \in pingAsks : q.menu = pingLink.menu}

ClickPing ==
    /\ pingLink # NoPingLink /\ pingSeen.pings < MaxPings
    /\ pingLink' = [pingLink EXCEPT !.loader = TRUE]
    /\ pingAsks' = pingAsks \cup
            {[n |-> pingSeen.pings + 1, menu |-> pingLink.menu, core |-> pingLink.core]}
    /\ pingSeen' = [pingSeen EXCEPT !.pings = @ + 1, !.together = @ \/ OfThisMenu # {}]

(* A fault of Clicked: the link of the menu that is there now. *)
ClickedNow(q, link) == IF pingLink = NoPingLink THEN pingLink ELSE link

(* The link that was clicked, which may no longer be in the document. *)
Clicked(q, link) == IF q.menu = pingLink.menu THEN link ELSE pingLink

PingEnds(q, link, how) ==
    /\ q \in pingAsks
    /\ pingAsks' = pingAsks \ {q}
    /\ pingLink' = Clicked(q, link)
    /\ pingSeen' = IF q.menu = pingLink.menu THEN [pingSeen EXCEPT !.last = how] ELSE pingSeen

PingAnswered(q, t) ==
    /\ t \in PingTimes[q.core]
    /\ PingEnds(q, [pingLink EXCEPT !.loader = FALSE, !.error = FALSE, !.title = FALSE, !.qtime = t],
                "answered")

(* The time of an earlier ping stays beside the error. *)
PingRefused(q) ==
    PingEnds(q, [pingLink EXCEPT !.loader = FALSE, !.error = TRUE, !.title = TRUE], "refused")

PingNext ==
    \/ \E c \in HealthCores : CoreMenuDrawn(c)
    \/ CoreMenuEmptied \/ ClickPing
    \/ \E q \in pingAsks : PingRefused(q) \/ \E t \in PingTimes[q.core] : PingAnswered(q, t)

PingSpec == PingInit /\ [][PingNext]_pingVars

(***************************************************************************)
(* The link is marked just when the last ping that was answered in this    *)
(* menu was refused, its time is one of its own core, and it waits just    *)
(* while a ping of it is under way, one at a time.                         *)
(***************************************************************************)
PingIsShown ==
    pingLink # NoPingLink =>
      /\ pingLink.error <=> pingSeen.last = "refused"
      /\ pingLink.title <=> pingLink.error
      /\ pingSeen.last = "answered" => pingLink.qtime # NotSaid
      /\ pingLink.qtime # NotSaid => pingLink.qtime \in PingTimes[pingLink.core]
      /\ pingLink.loader => OfThisMenu # {}
      /\ OfThisMenu # {} /\ ~pingSeen.together => pingLink.loader

-------------------------------------------------------------------------------
(***************************************************************************)
(* $.timeago: the age of a date in words, a number and what it counts.     *)
(***************************************************************************)
Minute == 60
Hour == 60 * Minute
Day == 24 * Hour

Rounded(n, unit) == (2 * n + unit) \div (2 * unit)

InWords(age) ==
    IF age < 45 THEN <<0, Minute>>
    ELSE IF age < 90 THEN <<1, Minute>>
    ELSE IF age < 45 * Minute THEN <<Rounded(age, Minute), Minute>>
    ELSE IF age < 90 * Minute THEN <<1, Hour>>
    ELSE IF age < Day THEN <<Rounded(age, Hour), Hour>>
    ELSE IF age < 2 * Day THEN <<1, Day>>
    ELSE IF age < 30 * Day THEN <<age \div Day, Day>>
    ELSE IF age < 60 * Day THEN <<1, 30 * Day>>
    ELSE IF age < 365 * Day THEN <<age \div (30 * Day), 30 * Day>>
    ELSE IF age < 2 * 365 * Day THEN <<1, 365 * Day>>
    ELSE <<age \div (365 * Day), 365 * Day>>

(***************************************************************************)
(* dataimport.js, dataimport_fetch_status: what an answer draws.           *)
(***************************************************************************)
Message(a, key) == IF key \in DOMAIN a.messages THEN a.messages[key] ELSE NotSaid

StateClass(a) ==
    IF a.status = "busy" THEN "indexing"
    ELSE IF Message(a, "Rolledback") # NotSaid THEN "failure"
    ELSE IF Message(a, "Aborted") # NotSaid THEN "aborted"
    ELSE IF a.status = "idle" /\ DOMAIN a.messages # {} THEN "success"
    ELSE "idle"

SecondsOf(a, key) == IF Message(a, key) = NotSaid THEN 0 ELSE ToSeconds(Message(a, key))

DefaultInfo(a) == <<Message(a, ""), ReadableTime(SecondsOf(a, "Time taken"))>>

InfoText(a) ==
    CASE StateClass(a) = "indexing" -> <<"Indexing", ReadableTime(SecondsOf(a, "Time Elapsed"))>>
      [] StateClass(a) = "aborted" -> <<"Aborting current Import ...", <<>> >>
      [] StateClass(a) = "idle" -> <<"No information available (idle)", <<>> >>
      [] OTHER -> DefaultInfo(a)

(* Numbers, and how many a second; the names of the messages are shortened to the page's. *)
DocumentNames == <<"Requests", "Fetched", "Skipped", "Processed">>

DocumentDetails(a, seconds) ==
    [i \in DOMAIN DocumentNames |->
        LET name == DocumentNames[i]
            value == IF Message(a, name) = NotSaid THEN 0 ELSE Message(a, name)
        IN  [name |-> name, value |-> value,
             rate |-> IF seconds = 0 \/ name = "Skipped" THEN NotSaid ELSE Rounded(value, seconds)]]

DateNames == <<"Started", "Aborted", "Rolledback">>

DateDetails(a, now) ==
    LET said == SelectSeq(DateNames, LAMBDA name : Message(a, name) # NotSaid)
    IN  [i \in DOMAIN said |->
            [name |-> said[i], at |-> Message(a, said[i]), words |-> InWords(now - Message(a, said[i]))]]

ShowInfo(box, a) == [box EXCEPT !.text = InfoText(a), !.detailed = FALSE]

(* The seconds that an import runs, or else those it took. *)
ShowFullInfo(box, a, now) ==
    LET elapsed == IF StateClass(a) = "indexing" THEN SecondsOf(a, "Time Elapsed") ELSE 0
        seconds == IF elapsed # 0 THEN elapsed ELSE SecondsOf(a, "Time taken")
    IN  [ShowInfo(box, a) EXCEPT !.detailed = TRUE, !.docs = DocumentDetails(a, seconds),
                                 !.dates = DateDetails(a, now), !.drawn = now]

(* A fault of StateDrawn: the class of the state before stays. *)
StateAdded(box, a, auto) ==
    [box EXCEPT !.class = @ \cup {StateClass(a)}, !.spins = auto /\ a.status = "busy"]

StateDrawn(box, a, auto) ==
    [box EXCEPT !.class = {StateClass(a)}, !.spins = auto /\ a.status = "busy"]

RawDrawn(box, a) == [box EXCEPT !.raw = <<a>>]

StatusDrawn(box, a, auto, now) ==
    LET state == StateDrawn(box, a, auto)
    IN  RawDrawn(IF StateClass(a) = "idle" THEN ShowInfo(state, a) ELSE ShowFullInfo(state, a, now), a)

(* Each minute after they were drawn, the dates that are shown get new words. *)
Refreshed(box, now) ==
    LET tick == box.drawn + Minute * ((now - box.drawn) \div Minute)
    IN  [box EXCEPT !.dates = [i \in DOMAIN box.dates |->
                                [box.dates[i] EXCEPT !.words = InWords(tick - box.dates[i].at)]]]

-------------------------------------------------------------------------------
(***************************************************************************)
(* The requests for the status, of which several may be under way; each    *)
(* one, when it ends, stops the mark of the button and sets a timeout.     *)
(***************************************************************************)
NewStatusBox ==
    [class |-> {}, text |-> <<>>, spins |-> FALSE, detailed |-> FALSE, docs |-> <<>>, dates |-> <<>>,
     drawn |-> StartOfClock, raw |-> <<>>]

AbortLabel == "Abort Import"
NewAbortButton == [loader |-> FALSE, label |-> AbortLabel, original |-> NotSaid, kind |-> "warn"]

StatusInit ==
    /\ statusBox = NewStatusBox
    /\ statusButtons = [asks |-> [loader |-> TRUE, success |-> FALSE], abort |-> NewAbortButton,
                        error |-> FALSE]
    /\ \E on \in BOOLEAN : statusTimers = [auto |-> on, next |-> FALSE, done |-> 0, aborted |-> 0]
    /\ statusAsks = [status |-> 1, abort |-> 0]
    /\ statusClock = StartOfClock
    /\ statusSeen = [asked |-> 1, aborts |-> 0, waits |-> 0, lost |-> {}, together |-> {},
                      relabelled |-> FALSE]

StatusRests == statusTimers.auto

AsksStatus(asks, buttons, seen) ==
    /\ statusSeen.asked < MaxStatusAsks
    /\ statusAsks' = [asks EXCEPT !.status = @ + 1]
    /\ statusButtons' = [buttons EXCEPT !.asks.loader = TRUE]
    /\ statusSeen' = [seen EXCEPT !.asked = @ + 1,
                        !.together = IF statusAsks.status = 0 THEN @ ELSE @ \cup {"status"}]

PressStatus ==
    /\ AsksStatus(statusAsks, statusButtons, statusSeen)
    /\ UNCHANGED <<statusBox, statusTimers, statusClock>>

ToggleAuto ==
    /\ statusTimers' = [statusTimers EXCEPT !.auto = ~@]
    /\ AsksStatus(statusAsks, statusButtons, statusSeen)
    /\ UNCHANGED <<statusBox, statusClock>>

NextStatus ==
    /\ statusTimers.next
    /\ statusTimers' = [statusTimers EXCEPT !.next = FALSE]
    /\ AsksStatus(statusAsks, statusButtons, statusSeen)
    /\ UNCHANGED <<statusBox, statusClock>>

StatusEnded(buttons) == [buttons EXCEPT !.asks = [loader |-> FALSE, success |-> TRUE]]

StatusComes(a) ==
    /\ statusAsks.status > 0
    /\ statusAsks' = [statusAsks EXCEPT !.status = @ - 1]
    /\ statusBox' = StatusDrawn(statusBox, a, statusTimers.auto, statusClock)
    /\ statusTimers' = [statusTimers EXCEPT !.next = @ \/ statusTimers.auto, !.done = @ + 1]
    /\ statusButtons' = StatusEnded(statusButtons)
    /\ statusSeen' = [statusSeen EXCEPT !.lost = @ \ {"status"}]
    /\ UNCHANGED statusClock

(* An error marks the link that reloads the configuration, and nothing is asked again. *)
StatusLost ==
    /\ statusAsks.status > 0
    /\ statusAsks' = [statusAsks EXCEPT !.status = @ - 1]
    /\ statusTimers' = [statusTimers EXCEPT !.done = @ + 1]
    /\ statusButtons' = [StatusEnded(statusButtons) EXCEPT !.error = TRUE]
    /\ statusSeen' = [statusSeen EXCEPT !.lost = @ \cup {"status"}]
    /\ UNCHANGED <<statusBox, statusClock>>

SuccessOver ==
    /\ statusTimers.done > 0
    /\ statusTimers' = [statusTimers EXCEPT !.done = @ - 1]
    /\ statusButtons' = [statusButtons EXCEPT !.asks.success = FALSE]
    /\ UNCHANGED <<statusBox, statusAsks, statusClock, statusSeen>>

(***************************************************************************)
(* The button that aborts: its answer keeps the label that it finds, for a *)
(* timeout that puts it back.  A second timeout finds none; the callback   *)
(* stops there with a TypeError.  What is lost leaves the mark.            *)
(***************************************************************************)
PressAbort ==
    /\ statusSeen.aborts < MaxAborts
    /\ statusAsks' = [statusAsks EXCEPT !.abort = @ + 1]
    /\ statusButtons' = [statusButtons EXCEPT !.abort.loader = TRUE]
    /\ statusSeen' = [statusSeen EXCEPT !.aborts = @ + 1, !.together =
                        IF statusAsks.abort = 0 /\ statusTimers.aborted = 0 THEN @ ELSE @ \cup {"abort"}]
    /\ UNCHANGED <<statusBox, statusTimers, statusClock>>

AbortTaken(b) ==
    [b EXCEPT !.original = b.label, !.label = "Aborting Import", !.kind = "success"]

AbortComes ==
    /\ statusAsks.abort > 0
    /\ AsksStatus([statusAsks EXCEPT !.abort = @ - 1], [statusButtons EXCEPT !.abort = AbortTaken(@)],
                  [statusSeen EXCEPT !.relabelled = @ \/ statusTimers.aborted > 0])
    /\ statusTimers' = [statusTimers EXCEPT !.aborted = @ + 1]
    /\ UNCHANGED <<statusBox, statusClock>>

AbortLost ==
    /\ statusAsks.abort > 0
    /\ statusAsks' = [statusAsks EXCEPT !.abort = @ - 1]
    /\ statusSeen' = [statusSeen EXCEPT !.lost = @ \cup {"abort"}]
    /\ UNCHANGED <<statusBox, statusButtons, statusTimers, statusClock>>

AbortButtonBack(b) ==
    IF b.original = NotSaid THEN [b EXCEPT !.loader = FALSE]
    ELSE [loader |-> FALSE, label |-> b.original, original |-> NotSaid, kind |-> "warn"]

AbortOver ==
    /\ statusTimers.aborted > 0
    /\ statusTimers' = [statusTimers EXCEPT !.aborted = @ - 1]
    /\ statusButtons' = [statusButtons EXCEPT !.abort = AbortButtonBack(@)]
    /\ UNCHANGED <<statusBox, statusAsks, statusClock, statusSeen>>

(* A wait longer than the timeouts, so that none of them is set meanwhile. *)
TimePasses(seconds) ==
    /\ statusSeen.waits < MaxPauses
    /\ ~statusTimers.next /\ statusTimers.done = 0 /\ statusTimers.aborted = 0
    /\ statusClock' = statusClock + seconds
    /\ statusBox' = Refreshed(statusBox, statusClock')
    /\ statusSeen' = [statusSeen EXCEPT !.waits = @ + 1]
    /\ UNCHANGED <<statusButtons, statusTimers, statusAsks>>

StatusNext ==
    \/ PressStatus \/ ToggleAuto \/ NextStatus \/ SuccessOver
    \/ PressAbort \/ AbortOver \/ StatusLost \/ AbortComes \/ AbortLost
    \/ \E a \in StatusAnswers : StatusComes(a)
    \/ \E seconds \in Pauses : TimePasses(seconds)

StatusSpec == StatusInit /\ [][StatusNext]_statusVars

(***************************************************************************)
(* Whatever was drawn before, the state has one class, that of the raw     *)
(* status below it; its details are there unless it is idle, with all the  *)
(* dates that the status has; a number for each second, over the time that *)
(* is shown, is the number beside it; and the ages of the dates were right *)
(* at most a minute ago.                                                   *)
(***************************************************************************)
WordsFit(words, age) == age - words[1] * words[2] \in (1 - words[2])..(words[2] - 1)

DetailsFit(a) ==
    /\ {d.name : d \in ToSet(statusBox.dates)} = ToSet(DateNames) \cap DOMAIN a.messages
    /\ \A d \in ToSet(statusBox.docs) :
          LET seconds == InSeconds(statusBox.text[2])
          IN  seconds # 0 /\ d.rate # NotSaid => 2 * (d.rate * seconds - d.value) \in -seconds..seconds
    /\ \E tick \in (statusClock - Minute + 1)..statusClock :
          \A d \in ToSet(statusBox.dates) : WordsFit(d.words, tick - d.at)

StateIsShown(a) ==
    /\ Cardinality(statusBox.class) = 1
    /\ "indexing" \in statusBox.class <=> a.status = "busy"
    /\ statusBox.detailed <=> "idle" \notin statusBox.class
    /\ "idle" \in statusBox.class => ToSet(DateNames) \cap DOMAIN a.messages = {}
    /\ statusBox.detailed => DetailsFit(a)

(***************************************************************************)
(* When no request is under way and the last one was answered, the state   *)
(* spins just when the import runs and the user follows it, and then it is *)
(* asked for again.                                                        *)
(***************************************************************************)
StatusIsFollowed(a) ==
    statusAsks.status = 0 /\ "status" \notin statusSeen.lost =>
        /\ statusBox.spins <=> a.status = "busy" /\ statusTimers.auto
        /\ statusTimers.auto => statusTimers.next

(***************************************************************************)
(* The buttons are marked while their requests are under way, one at a     *)
(* time, and only then.  The button that aborts says so until the timeout  *)
(* of the last abort, and is then itself again; but an abort that was      *)
(* answered during the timeout of another takes its label for good, and    *)
(* nothing else does, in any order of presses, answers and timeouts.       *)
(***************************************************************************)
ButtonsAreThemselves ==
    LET asks == statusButtons.asks
        abort == statusButtons.abort
    IN  /\ asks.loader => statusAsks.status > 0
        /\ statusAsks.status > 0 /\ "status" \notin statusSeen.together => asks.loader
        /\ asks.success => statusTimers.done > 0
        /\ abort.original # NotSaid <=> abort.kind = "success"
        /\ abort.kind = "success" => statusTimers.aborted > 0
        /\ abort.label = AbortLabel <=> statusTimers.aborted = 0 /\ ~statusSeen.relabelled
        /\ abort.loader /\ "abort" \notin statusSeen.lost =>
              statusAsks.abort > 0 \/ statusTimers.aborted > 0
        /\ "abort" \notin statusSeen.together =>
              /\ statusTimers.aborted > 0 => abort.kind = "success"
              /\ statusAsks.abort > 0 \/ statusTimers.aborted > 0 => abort.loader

StatusIsShown ==
    /\ ButtonsAreThemselves
    /\ statusBox.raw # <<>> => StateIsShown(statusBox.raw[1]) /\ StatusIsFollowed(statusBox.raw[1])
===============================================================================
