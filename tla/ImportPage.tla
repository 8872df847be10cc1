------------------------------- MODULE ImportPage -------------------------------
(***************************************************************************)
(* The dataimport page, scripts/dataimport.js: finding a handler, the page *)
(* of a handler and its status, which is asked for again every two seconds *)
(* while the user wants it.                                                *)
(***************************************************************************)
EXTENDS Console

CONSTANTS
    Importing,    \* the cores with a dataimport handler
    Handler       \* its name, the last part of the path

ASSUME ImportingAssumption == Importing \subseteq Core

VARIABLES
    cookie,       \* the cookie dataimport_autorefresh, which outlives the page
    autorefresh   \* the visits whose closure has autorefresh_status set

importVars == <<cookie, autorefresh>>

ImportInit == cookie = family.cookie /\ autorefresh = {}

ImportRoute(core, handler) == Route("dataimport", core, handler)

-------------------------------------------------------------------------------
(***************************************************************************)
(* #/core/dataimport: find the first handler and go to it.                 *)
(***************************************************************************)
VisitImports(r) ==
    /\ RunRoute(r)
    /\ r.page = "dataimport"
    /\ r.arg = NoCore
    /\ requests' = Sent({Ask("find handlers", r, visit + 1)})
    /\ upset' = {}
    /\ UNCHANGED <<shown, basepath, importVars>>

FindHandlers(q) ==
    /\ Answer(q, "find handlers")
    /\ IF q.route.core \in Importing
       THEN /\ Redirect(q.route, ImportRoute(q.route.core, Handler))
            /\ UNCHANGED shown
       ELSE /\ shown' = Drawn("no handler", q.route, q.visit)
            /\ UNCHANGED place
    /\ requests' = Exchanged(q, {})
    /\ upset' = Disturbed(q)
    /\ UNCHANGED <<user, menu, wrecked, clock, alive, basepath, importVars>>

VisitImport(r) ==
    /\ RunRoute(r)
    /\ r.page = "dataimport"
    /\ r.arg # NoCore
    /\ requests' = Sent({Ask("import template", r, visit + 1)})
    /\ upset' = {}
    /\ UNCHANGED <<shown, basepath, importVars>>

(***************************************************************************)
(* dataimport_fetch_status, without clear_timeout.                         *)
(***************************************************************************)
FetchStatus(r, v) == Ask("status", r, v)

(***************************************************************************)
(* The `state' of the auto-refresh link: the closure follows the cookie.   *)
(***************************************************************************)
Following(v, wanted) == IF wanted THEN autorefresh \cup {v} ELSE autorefresh \ {v}

ImportTemplate(q) ==
    /\ Answer(q, "import template")
    /\ shown' = Drawn("dataimport", q.route, q.visit)
    /\ autorefresh' = Following(q.visit, cookie)
    /\ requests' = Exchanged(q, {FetchStatus(q.route, q.visit)})
    /\ upset' = Disturbed(q)
    /\ UNCHANGED <<user, place, menu, wrecked, clock, alive, basepath, cookie>>

(* A fault of StatusShown: the wrong part of the path is taken for the core. *)
StatusShownSwapped(q) ==
    IF shown.page = "dataimport"
    THEN [shown EXCEPT !.data = {[block |-> "status", core |-> q.route.arg]}]
    ELSE shown

(***************************************************************************)
(* The elements of the status are looked up in #content when it comes: a   *)
(* closure of an earlier visit writes into the page of the present one.    *)
(***************************************************************************)
StatusShown(q) ==
    IF shown.page = "dataimport"
    THEN [shown EXCEPT !.data = {[block |-> "status", core |-> q.route.core]}]
    ELSE shown

(* A fault of Status: the timer is set without asking if one is set. *)
StatusAlways(q) ==
    /\ Answer(q, "status")
    /\ shown' = StatusShown(q)
    /\ IF q.visit \in autorefresh
       THEN LET id == FreeHandle
            IN  /\ timeout' = id
                /\ timers' = timers \cup {Timer(id, "status timer", q.route, q.visit, 0)}
       ELSE UNCHANGED clock
    /\ requests' = Exchanged(q, {})
    /\ upset' = Disturbed(q)
    /\ UNCHANGED <<user, place, menu, wrecked, alive, basepath, importVars>>

(***************************************************************************)
(* The status is shown and, if the closure refreshes and app.timeout holds *)
(* no handle, the next one is due in two seconds.                          *)
(***************************************************************************)
Status(q) ==
    /\ Answer(q, "status")
    /\ shown' = StatusShown(q)
    /\ IF timeout = 0 /\ q.visit \in autorefresh
       THEN LET id == FreeHandle
            IN  /\ timeout' = id
                /\ timers' = timers \cup {Timer(id, "status timer", q.route, q.visit, 0)}
       ELSE UNCHANGED clock
    /\ requests' = Exchanged(q, {})
    /\ upset' = Disturbed(q)
    /\ UNCHANGED <<user, place, menu, wrecked, alive, basepath, importVars>>

(* A fault of StatusTimer: the handle of the fired timer stays. *)
StatusTimerKept(t) ==
    /\ Answer(t, "status timer")
    /\ timers' = timers \ {t}
    /\ requests' = Sent({FetchStatus(t.route, t.visit)})
    /\ upset' = Disturbed(t)
    /\ UNCHANGED <<user, place, menu, wrecked, shown, timeout, alive, basepath, importVars>>

(***************************************************************************)
(* dataimport_fetch_status( true ): app.timeout is cleared, whoever set it.*)
(***************************************************************************)
StatusTimer(t) ==
    /\ Answer(t, "status timer")
    /\ timeout' = 0
    /\ timers' = {u \in timers \ {t} : u.id # timeout}
    /\ requests' = Sent({FetchStatus(t.route, t.visit)})
    /\ upset' = Disturbed(t)
    /\ UNCHANGED <<user, place, menu, wrecked, shown, alive, basepath, importVars>>

-------------------------------------------------------------------------------
(***************************************************************************)
(* The buttons of the page that is shown, be it still that of an earlier   *)
(* visit: ask for the status, import, abort.  The last two ask for the     *)
(* status when they are answered.                                          *)
(***************************************************************************)
PressImport(do) ==
    /\ Press
    /\ shown.page = "dataimport"
    /\ requests' = Sent({Ask(do, shown.by, shown.visit)})
    /\ UNCHANGED <<place, menu, wrecked, shown, clock, alive, basepath, importVars>>

ImportDone(q) ==
    /\ q.do \in {"import", "abort"}
    /\ Answer(q, q.do)
    /\ requests' = Exchanged(q, {FetchStatus(q.route, q.visit)})
    /\ upset' = Disturbed(q)
    /\ UNCHANGED <<user, place, menu, wrecked, shown, clock, alive, basepath, importVars>>

(***************************************************************************)
(* An import that fails asks for the status as well, unless its answer     *)
(* cannot be read: then the error callback stops with a TypeError, and     *)
(* `complete' is not called.                                               *)
(***************************************************************************)
ImportFails(q) ==
    /\ ~due
    /\ q.do = "import"
    /\ \E asked \in {{}, {FetchStatus(q.route, q.visit)}} :
          requests' = Exchanged(q, asked)
    /\ UNCHANGED <<user, place, menu, wrecked, shown, clock, alive, basepath, upset,
                   importVars>>

(***************************************************************************)
(* The auto-refresh link flips the cookie.                                 *)
(***************************************************************************)
ToggleAutorefresh ==
    /\ Press
    /\ shown.page = "dataimport"
    /\ cookie' = ~cookie
    /\ autorefresh' = Following(shown.visit, ~cookie)
    /\ requests' = Sent({FetchStatus(shown.by, shown.visit)})
    /\ UNCHANGED <<place, menu, wrecked, shown, clock, alive, basepath>>

ImportVisit(r) == VisitImports(r) \/ VisitImport(r)
ImportAnswer(q) == FindHandlers(q) \/ ImportTemplate(q) \/ Status(q) \/ ImportDone(q)
ImportTimer(t) == StatusTimer(t)
ImportPress ==
    \/ \E do \in {"status", "import", "abort"} : PressImport(do)
    \/ ToggleAutorefresh
===============================================================================
