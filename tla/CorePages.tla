------------------------------- MODULE CorePages -------------------------------
(***************************************************************************)
(* The core admin pages, scripts/cores.js: the list of cores, a core, and  *)
(* the commands that reload, unload, optimize, rename, create and swap     *)
(* cores.                                                                  *)
(***************************************************************************)
EXTENDS Console

VARIABLES
    coresTemplate,   \* app.cores_template is cached
    coreActs         \* the core that the live buttons of the page act on

coreVars == <<coresTemplate, coreActs>>

CoreRoute(c) == Route("cores", NoCore, c)
ListRoute == CoreRoute(NoCore)

(***************************************************************************)
(* The first core of the list; without any the path ends in "null".        *)
(***************************************************************************)
FirstCore(cores) == IF cores = {} THEN "null" ELSE CHOOSE c \in cores : TRUE

CoreInit == coresTemplate = FALSE /\ coreActs = NoCore

-------------------------------------------------------------------------------
(* A fault of VisitCoreList: the template is not forgotten. *)
VisitCoreListCached(r) ==
    /\ RunRoute(r)
    /\ r = ListRoute
    /\ requests' = Sent({AskOf("core list", r, visit + 1, alive, 0)})
    /\ upset' = {}
    /\ UNCHANGED <<shown, basepath, coreVars>>

(***************************************************************************)
(* #/~cores: forget the template and go to the first core.                 *)
(***************************************************************************)
VisitCoreList(r) ==
    /\ RunRoute(r)
    /\ r = ListRoute
    /\ coresTemplate' = FALSE
    /\ requests' = Sent({AskOf("core list", r, visit + 1, alive, 0)})
    /\ upset' = {}
    /\ UNCHANGED <<shown, basepath, coreActs>>

CoreList(q) ==
    /\ Answer(q, "core list")
    /\ \E cores \in Lists(q) :
         /\ SetCoresData(cores)
         /\ Redirect(q.route, CoreRoute(FirstCore(cores)))
    /\ requests' = Exchanged(q, {})
    /\ upset' = Disturbed(q)
    /\ UNCHANGED <<user, shown, clock, alive, basepath, coreVars>>

(***************************************************************************)
(* The list has done its work and redirects to a core.                     *)
(***************************************************************************)
ComesFromTheList ==
    /\ route = ListRoute
    /\ \A q \in InFlight : q.visit # visit

(***************************************************************************)
(* #/~cores/name.  With the template cached the page is not drawn again,   *)
(* whatever has been drawn over it since.                                  *)
(***************************************************************************)
VisitCore(r) ==
    /\ RunRoute(r)
    /\ r.page = "cores"
    /\ r # ListRoute
    /\ requests' = Sent({AskOf("core data", r, visit + 1, alive, 0)})
    /\ upset' = IF ComesFromTheList THEN upset
                ELSE IF coresTemplate /\ shown.page # "cores"
                     THEN {<<"cached", "cores">>} ELSE {}
    /\ UNCHANGED <<shown, basepath, coreVars>>

(* A fault of Wire: the buttons keep the handlers of the core before. *)
WireOnce(q, cores, content) ==
    LET core == q.route.arg IN
    IF core \in cores
    THEN /\ coreActs' = IF coreActs = NoCore THEN core ELSE coreActs
         /\ shown' = IF content.page = "cores"
                     THEN [content EXCEPT !.data = {[block |-> "core", core |-> core]}]
                     ELSE content
         /\ upset' = Disturbed(q)
    ELSE /\ shown' = content
         /\ upset' = Disturbed(q) \cup {<<"lost", "core data">>}
         /\ UNCHANGED coreActs

(***************************************************************************)
(* The data of the core is written into the page, if `content' is it, and  *)
(* the buttons are bound anew.  A core that is not in the list stops the   *)
(* callback with a TypeError before any of that.                           *)
(***************************************************************************)
Wire(q, cores, content) ==
    LET core == q.route.arg IN
    IF core \in cores
    THEN /\ coreActs' = core
         /\ shown' = IF content.page = "cores"
                     THEN [content EXCEPT !.data = {[block |-> "core", core |-> core]}]
                     ELSE content
         /\ upset' = Disturbed(q)
    ELSE /\ shown' = content
         /\ upset' = Disturbed(q) \cup {<<"lost", "core data">>}
         /\ UNCHANGED coreActs

CoreData(q) ==
    /\ Answer(q, "core data")
    /\ \E cores \in Lists(q) :
         /\ SetCoresData(cores)
         /\ IF coresTemplate
            THEN /\ Wire(q, cores, shown)
                 /\ requests' = Exchanged(q, {})
            ELSE /\ requests' = Exchanged(q,
                        {AskOf("core template", q.route, q.visit, cores, 0)})
                 /\ upset' = Disturbed(q)
                 /\ UNCHANGED <<shown, coreActs>>
    /\ UNCHANGED <<user, place, clock, alive, basepath, coresTemplate>>

CoreTemplate(q) ==
    /\ Answer(q, "core template")
    /\ coresTemplate' = TRUE
    /\ Wire(q, q.cores, Drawn("cores", q.route, q.visit))
    /\ requests' = Exchanged(q, {})
    /\ UNCHANGED <<user, place, menu, wrecked, clock, alive, basepath>>

-------------------------------------------------------------------------------
(***************************************************************************)
(* The buttons act on the core their handlers were bound for.  The forms   *)
(* are those of the page, and take the name of another core.               *)
(***************************************************************************)
Buttons == {"reload", "unload", "optimize"}
Forms == {"rename", "create", "swap"}

PressButton(do) ==
    /\ Press
    /\ shown.page = "cores"
    /\ coreActs # NoCore
    /\ requests' = Sent({Ask(do, CoreRoute(coreActs), visit)})
    /\ UNCHANGED <<place, menu, wrecked, shown, clock, alive, basepath, coreVars>>

SubmitForm(do, other) ==
    /\ Press
    /\ shown.page = "cores"
    /\ shown.data # {}
    /\ requests' = Sent({AskOf(do, CoreRoute(coreActs), visit, {other}, 0)})
    /\ UNCHANGED <<place, menu, wrecked, shown, clock, alive, basepath, coreVars>>

(***************************************************************************)
(* The server does what it is asked, some time before the answer comes     *)
(* (then q.n = 1), or refuses (Fail).                                      *)
(***************************************************************************)
Possible(q) ==
    CASE q.do = "create" -> q.cores \cap alive = {}
      [] q.do = "rename" -> q.route.arg \in alive /\ q.cores \cap alive = {}
      [] OTHER           -> q.route.arg \in alive /\ q.cores \subseteq alive

Execute(q) ==
    /\ q.do \in Buttons \cup Forms
    /\ ~due
    /\ q.n = 0
    /\ Possible(q)
    /\ requests' = Exchanged(q, {[q EXCEPT !.n = 1]})
    /\ alive' = CASE q.do = "unload" -> alive \ {q.route.arg}
                  [] q.do = "rename" -> (alive \ {q.route.arg}) \cup q.cores
                  [] q.do = "create" -> alive \cup q.cores
                  [] OTHER           -> alive
    /\ UNCHANGED <<user, place, menu, wrecked, shown, clock, basepath, upset,
                   coreVars>>

(***************************************************************************)
(* After an unload to the list, after a rename to the new name, after the  *)
(* others (but for optimize) the route of the moment is run again:         *)
(* wherever the user has gone meanwhile.                                   *)
(***************************************************************************)
Executed(q) ==
    /\ q.do \in Buttons \cup Forms
    /\ Answer(q, q.do)
    /\ q.n = 1
    /\ CASE q.do = "unload"   -> Redirect(q.route, ListRoute)
         [] q.do = "rename"   -> \E c \in q.cores : Redirect(q.route, CoreRoute(c))
         [] q.do = "optimize" -> UNCHANGED place
         [] OTHER             -> Refresh
    /\ requests' = Exchanged(q, {})
    /\ upset' = Disturbed(q)
    /\ UNCHANGED <<user, menu, wrecked, shown, clock, alive, basepath, coreVars>>

CoreVisit(r) == VisitCoreList(r) \/ VisitCore(r)
CoreAnswer(q) == CoreList(q) \/ CoreData(q) \/ CoreTemplate(q) \/ Execute(q) \/ Executed(q)
CorePress ==
    \/ \E do \in Buttons : PressButton(do)
    \/ \E do \in Forms, other \in Core : SubmitForm(do, other)
===============================================================================
