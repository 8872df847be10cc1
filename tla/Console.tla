-------------------------------- MODULE Console --------------------------------
(***************************************************************************)
(* What the pages of the Solr 4.4 admin console share: the location and    *)
(* Sammy's idea of it (lib/jquery.sammy.js), the selector of cores, the    *)
(* element #content, the requests in flight and the timers (scripts/       *)
(* app.js).                                                                *)
(*                                                                         *)
(* A script runs to its end before the next one starts: every callback is  *)
(* one step.  What is asynchronous is the order of the answers, of the     *)
(* timers, of the hashchange event and of the user.                        *)
(***************************************************************************)
EXTENDS Naturals, FiniteSets, Bags

CONSTANTS
    Core,         \* names of cores
    NoCore,
    Families      \* what a user goes about: the routes, how often the user acts
                  \* (a bound), the cores of the server, whether the connection
                  \* may be lost and whether the cookie that refreshes the
                  \* status of imports is set

ASSUME ConsoleAssumption ==
    /\ NoCore \notin Core
    /\ \A f \in Families : f.moves \in Nat

(***************************************************************************)
(* A route: the page, the core of the splat, and what follows it in the    *)
(* path (a core, a type of plugins or a handler).                          *)
(***************************************************************************)
Route(page, core, arg) == [page |-> page, core |-> core, arg |-> arg]
NoRoute == Route("none", NoCore, NoCore)

VARIABLES
    family,       \* what this user goes about (chosen once)
    moves,        \* how often the user has acted
    running,      \* sammy.isRunning()
    address,      \* location.hash
    last,         \* sammy.last_location
    due,          \* location-changed has been triggered and is being delivered
    route,        \* the route that was run last
    visit,        \* how many routes have been run: names a closure
    menu,         \* the cores of the selector, app.menu_element
    wrecked,      \* show_global_error has removed menu and content
    shown,        \* #content (until wrecked): the page, the route and the visit
                  \* that drew it, and the data in it, of which cores
    requests,     \* the requests in flight, a bag
    timers,       \* the timers that have not fired
    timeout,      \* app.timeout: the handle of a timer, or 0
    ticker,       \* timer_timeout, of the replication page: one more
    basepath,     \* core_basepath, a global of the plugins and replication
                  \* pages both: the core it stands for
    alive,        \* the cores of the server
    upset         \* (history) what has disturbed this visit: answers of earlier
                  \* visits ("late"), requests of its own that failed ("lost"),
                  \* or its timer when a route was refused, a page that was
                  \* not drawn again ("cached"); a visit that was redirected
                  \* to keeps them

place == <<running, address, last, due, route, visit>>
user == <<family, moves>>
clock == <<timers, timeout>>

(***************************************************************************)
(* A request and the closure that waits for its answer.  `cores' and `n'   *)
(* are what else the closure holds, where it holds something.              *)
(***************************************************************************)
AskOf(do, r, v, cores, n) ==
    [do |-> do, route |-> r, visit |-> v, cores |-> cores, n |-> n]
Ask(do, r, v) == AskOf(do, r, v, {}, 0)

InFlight == BagToSet(requests)
Sent(asked) == requests (+) SetToBag(asked)
Exchanged(q, asked) == (requests (-) SetToBag({q})) (+) SetToBag(asked)

(***************************************************************************)
(* The handle of a new timer is that of no other timer, fired or not, that *)
(* somebody still holds.                                                   *)
(***************************************************************************)
Handles == {timeout, ticker} \cup {t.id : t \in timers}
FreeHandle == CHOOSE i \in 1..(Cardinality(Handles) + 1) : i \notin Handles
Timer(id, do, r, v, n) == [id |-> id, do |-> do, route |-> r, visit |-> v, n |-> n]

(***************************************************************************)
(* $('#content').html(...): what was there is gone.                        *)
(***************************************************************************)
Drawn(page, r, v) == [page |-> page, by |-> r, visit |-> v, data |-> {}]

(* A fault of Filled: the element is looked up when the answer comes. *)
FilledAnywhere(v, block, core) ==
    [shown EXCEPT !.data = @ \cup {[block |-> block, core |-> core]}]

(***************************************************************************)
(* An element of the page that visit v drew gets its data; nothing is seen *)
(* of it when the page has been replaced.                                  *)
(***************************************************************************)
Filled(v, block, core) ==
    IF shown.visit = v
    THEN [shown EXCEPT !.data = {d \in @ : d.block # block}
                                    \cup {[block |-> block, core |-> core]}]
    ELSE shown

-------------------------------------------------------------------------------
ConsoleInit ==
    /\ family \in Families
    /\ moves = 0
    /\ running = FALSE
    /\ address \in family.routes
    /\ last = NoRoute
    /\ due = FALSE
    /\ route = NoRoute
    /\ visit = 0
    /\ menu = {}
    /\ wrecked = FALSE
    /\ shown = Drawn("loading", NoRoute, 0)
    /\ requests = SetToBag({Ask("boot cores", NoRoute, 0)})
    /\ timers = {}
    /\ timeout = 0
    /\ basepath = NoCore
    /\ alive = family.cores
    /\ upset = {}

(***************************************************************************)
(* q is answered, well.  An answer or a timer of an earlier visit disturbs *)
(* the visit it meets.                                                     *)
(***************************************************************************)
Answer(q, do) == ~due /\ q.do = do

Disturbed(q) == IF q.visit = visit THEN upset ELSE upset \cup {<<"late", q.do>>}

(***************************************************************************)
(* An error nobody does anything about but to say so in its own element.   *)
(***************************************************************************)
Fail(q) ==
    /\ ~due
    /\ requests' = Exchanged(q, {})
    /\ upset' = IF q.visit = visit THEN upset \cup {<<"lost", q.do>>} ELSE upset
    /\ UNCHANGED <<user, place, menu, wrecked, shown, clock, alive, basepath>>

(***************************************************************************)
(* The list of cores, as the server had it when the request was sent or    *)
(* has it now.                                                             *)
(***************************************************************************)
Lists(q) == {q.cores, alive}

(***************************************************************************)
(* show_global_error: menu and content are removed, for good.              *)
(***************************************************************************)
ShowGlobalError == wrecked' = TRUE

(***************************************************************************)
(* set_cores_data: with no core at all the page is given up.               *)
(***************************************************************************)
SetCoresData(cores) ==
    /\ menu' = cores
    /\ IF cores = {} THEN ShowGlobalError ELSE UNCHANGED wrecked

(***************************************************************************)
(* app.run: the list of cores, then the values of the system, then Sammy.  *)
(***************************************************************************)
BootCores(q) ==
    /\ Answer(q, "boot cores")
    /\ SetCoresData(alive)
    /\ requests' = Exchanged(q, {Ask("boot system", NoRoute, 0)})
    /\ UNCHANGED <<user, place, shown, clock, alive, basepath, upset>>

BootSystem(q) ==
    /\ Answer(q, "boot system")
    /\ running' = TRUE
    /\ due' = TRUE
    /\ requests' = Exchanged(q, {})
    /\ UNCHANGED <<user, address, last, route, visit, menu, wrecked, shown,
                   clock, alive, basepath, upset>>

BootFails(q) ==
    /\ ~due
    /\ q.do = "boot system"
    /\ ShowGlobalError
    /\ requests' = Exchanged(q, {})
    /\ UNCHANGED <<user, place, menu, shown, clock, alive, basepath, upset>>

(***************************************************************************)
(* The user follows a link, goes back or types an address.                 *)
(***************************************************************************)
Move(r) ==
    /\ ~due
    /\ moves < family.moves
    /\ moves' = moves + 1
    /\ address' = r
    /\ address # r
    /\ UNCHANGED <<family, running, last, due, route, visit, menu, wrecked,
                   shown, requests, clock, alive, basepath, upset>>

(***************************************************************************)
(* context.redirect(to), in a closure whose path is `from'.  When `to' is  *)
(* the location already there is no hashchange, and location-changed is    *)
(* triggered at once.                                                      *)
(***************************************************************************)
Redirect(from, to) ==
    /\ address' = to
    /\ last' = from
    /\ due' = (address = to)
    /\ UNCHANGED <<running, route, visit>>

(***************************************************************************)
(* sammy.refresh().                                                        *)
(***************************************************************************)
Refresh ==
    /\ last' = NoRoute
    /\ due' = TRUE
    /\ UNCHANGED <<running, address, route, visit>>

-------------------------------------------------------------------------------
ClearTimeout ==
    /\ timeout' = 0
    /\ timers' = {t \in timers : t.id # timeout}

(***************************************************************************)
(* Sammy's _checkLocation, when the hash has changed or location-changed   *)
(* is triggered: the route is run if the location is not the last one.     *)
(***************************************************************************)
LocationChanged ==
    /\ running
    /\ due \/ address # last
    /\ due' = FALSE
    /\ last' = address
    /\ UNCHANGED <<user, running, address, menu, wrecked, alive>>

(***************************************************************************)
(* The core of the route must be in the selector; the global pages have    *)
(* their place in the menu as long as there is a menu.                     *)
(***************************************************************************)
Known(r) == ~wrecked /\ (r.core = NoCore \/ r.core \in menu)

(***************************************************************************)
(* The location is the last one, or the before hook refuses it: then the   *)
(* page that stays has no timer any more.                                  *)
(***************************************************************************)
NoNewRoute ==
    /\ LocationChanged
    /\ \/ /\ address = last
          /\ UNCHANGED <<clock, upset>>
       \/ /\ address # last /\ ~Known(address)
          /\ ClearTimeout
          /\ upset' = upset \cup {<<"lost", "timer">>}
    /\ UNCHANGED <<route, visit, shown, requests, basepath>>

(***************************************************************************)
(* The part of running a route that is the same for every page.            *)
(***************************************************************************)
RunRoute(r) ==
    /\ LocationChanged
    /\ address # last
    /\ address = r
    /\ Known(r)
    /\ ClearTimeout
    /\ route' = r
    /\ visit' = visit + 1

(***************************************************************************)
(* The user presses something.                                             *)
(***************************************************************************)
Press ==
    /\ ~due
    /\ moves < family.moves
    /\ moves' = moves + 1
    /\ UNCHANGED <<family, upset>>
-------------------------------------------------------------------------------
(***************************************************************************)
(* What the console does when the server cannot be reached (the end of     *)
(* scripts/app.js): the first request that ends with status 0 blocks the   *)
(* page and starts a chain of checks, each of them a timer and a request.  *)
(***************************************************************************)
VARIABLES
    working,      \* connection_working
    blocked,      \* $.blockUI: the page takes no more clicks
    waiting,      \* timers that will call connection_check
    asking        \* requests of connection_check in flight

connectionVars == <<working, blocked, waiting, asking>>

ConnectionInit ==
    /\ working = TRUE
    /\ blocked = FALSE
    /\ waiting = 0
    /\ asking = 0

(* A fault of Unreachable: every lost request starts a chain of checks. *)
UnreachableAgain ==
    /\ working' = FALSE
    /\ blocked' = TRUE
    /\ waiting' = waiting + 1
    /\ UNCHANGED asking

(***************************************************************************)
(* $(document).ajaxError, for a request that ended with status 0.          *)
(***************************************************************************)
Unreachable ==
    IF working
    THEN /\ working' = FALSE
         /\ blocked' = TRUE
         /\ waiting' = waiting + 1
         /\ UNCHANGED asking
    ELSE UNCHANGED connectionVars

Check ==
    /\ waiting > 0
    /\ waiting' = waiting - 1
    /\ asking' = asking + 1
    /\ UNCHANGED <<working, blocked>>

(***************************************************************************)
(* The server is back; the page stays blocked, with a link to reload it.   *)
(***************************************************************************)
CheckSucceeds ==
    /\ asking > 0
    /\ asking' = asking - 1
    /\ working' = TRUE
    /\ UNCHANGED <<blocked, waiting>>

(* A fault of CheckFails: the check after a failure is forgotten. *)
CheckFailsForGood ==
    /\ asking > 0
    /\ asking' = asking - 1
    /\ waiting' = waiting + (IF working THEN 1 ELSE 0)
    /\ working' = FALSE
    /\ blocked' = TRUE

(***************************************************************************)
(* The next check is due after twice the time, and ajaxError sees this     *)
(* failure like any other.                                                 *)
(***************************************************************************)
CheckFails ==
    /\ asking > 0
    /\ asking' = asking - 1
    /\ waiting' = waiting + (IF working THEN 2 ELSE 1)
    /\ working' = FALSE
    /\ blocked' = TRUE

ConnectionNext == Check \/ CheckSucceeds \/ CheckFails

(***************************************************************************)
(* A check that is due is made, and a server that is asked again and again *)
(* answers in the end.                                                     *)
(***************************************************************************)
ConnectionFairness ==
    /\ WF_connectionVars(Check)
    /\ SF_connectionVars(CheckSucceeds)
    /\ WF_connectionVars(CheckSucceeds \/ CheckFails)

-------------------------------------------------------------------------------
(***************************************************************************)
(* There is one chain of checks while the connection is down and none      *)
(* while it works, however many requests are lost meanwhile.               *)
(***************************************************************************)
OneConnectionCheck == waiting + asking = IF working THEN 0 ELSE 1

(***************************************************************************)
(* A console that has lost the connection sees it come back.               *)
(***************************************************************************)
ConnectionRecovers == ~working ~> working
===============================================================================
