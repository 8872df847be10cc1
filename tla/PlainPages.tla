------------------------------- MODULE PlainPages -------------------------------
(***************************************************************************)
(* The pages of the console that draw themselves and fill their elements:  *)
(* dashboard, analysis, documents, query, file (schema and config), cloud, *)
(* threads, logging/level, java-properties, index.                         *)
(***************************************************************************)
EXTENDS Console

CONSTANT Blocks   \* the requests for data that are followed

VARIABLE acts     \* the core a live button acts on, once it is bound

plainVars == acts

(***************************************************************************)
(* What a page asks for once its template is drawn, each answer for an     *)
(* element of its own.                                                     *)
(***************************************************************************)
Dashboard == {"statistics", "replication", "dataimport", "admin extra", "healthcheck"}
Analysis == {"fields"}
File == {"file"}
Cloud == {"zookeeper"}
Threads == {"threads"}
LoggingLevel == {"loggers"}
JavaProperties == {"properties"}
Index == {"index template"}
Query == {}
Documents == {}

Wanted(page) ==
    Blocks \cap
    CASE page = "dashboard"       -> Dashboard
      [] page = "analysis"        -> Analysis
      [] page = "documents"       -> Documents
      [] page = "query"           -> Query
      [] page = "file"            -> File
      [] page = "cloud"           -> Cloud
      [] page = "threads"         -> Threads
      [] page = "level"           -> LoggingLevel
      [] page = "java-properties" -> JavaProperties
      [] page = "index"           -> Index

Templated == {"dashboard", "analysis", "documents", "query", "file", "cloud",
              "threads", "level"}
Framed == {"java-properties", "index"}

Data(r, v) == {Ask(block, r, v) : block \in Wanted(r.page)}

-------------------------------------------------------------------------------
(***************************************************************************)
(* Most routes only ask for their template; what the page before has drawn *)
(* stays until it comes.                                                   *)
(***************************************************************************)
VisitTemplated(r) ==
    /\ RunRoute(r)
    /\ r.page \in Templated
    /\ requests' = Sent({Ask("template", r, visit + 1)})
    /\ upset' = {}
    /\ UNCHANGED <<shown, basepath, acts>>

(***************************************************************************)
(* Two draw an empty frame at once.                                        *)
(***************************************************************************)
VisitFramed(r) ==
    /\ RunRoute(r)
    /\ r.page \in Framed
    /\ shown' = Drawn(r.page, r, visit + 1)
    /\ requests' = Sent(Data(r, visit + 1))
    /\ upset' = {}
    /\ UNCHANGED <<basepath, acts>>

(***************************************************************************)
(* The template is drawn over whatever is there, be it of a later visit.   *)
(***************************************************************************)
Template(q) ==
    /\ Answer(q, "template")
    /\ shown' = Drawn(q.route.page, q.route, q.visit)
    /\ requests' = Exchanged(q, Data(q.route, q.visit))
    /\ upset' = Disturbed(q)
    /\ UNCHANGED <<user, place, menu, wrecked, clock, alive, basepath, acts>>

(***************************************************************************)
(* The buttons `optimize' and `healthcheck' of the dashboard are found by  *)
(* a selector in the whole document: binding them takes away what a visit  *)
(* before has bound.                                                       *)
(***************************************************************************)
Live == {"statistics", "healthcheck"}

(* A fault of Bound: the handlers bound before are not taken away, and the *)
(* first one goes on acting.                                               *)
BoundOnce(button, core) ==
    IF acts[button] = NoCore THEN [acts EXCEPT ![button] = core] ELSE acts

Bound(button, core) == [acts EXCEPT ![button] = core]

PlainData(q) ==
    /\ q.do \in UNION {Wanted(page) : page \in Templated \cup Framed}
    /\ Answer(q, q.do)
    /\ shown' = Filled(q.visit, q.do, q.route.core)
    /\ acts' = IF q.do \in Live THEN Bound(q.do, q.route.core) ELSE acts
    /\ requests' = Exchanged(q, {})
    /\ upset' = Disturbed(q)
    /\ UNCHANGED <<user, place, menu, wrecked, clock, alive, basepath>>

(***************************************************************************)
(* The user presses a live button of the dashboard.                        *)
(***************************************************************************)
PressLive(button) ==
    /\ Press
    /\ shown.page = "dashboard"
    /\ button \in Live
    /\ acts[button] # NoCore
    /\ requests' = Sent({Ask("command", Route("dashboard", acts[button], NoCore), visit)})
    /\ UNCHANGED <<place, menu, wrecked, shown, clock, alive, basepath, acts>>

(***************************************************************************)
(* What was done is noted in the element that was pressed.                 *)
(***************************************************************************)
CommandDone(q) ==
    /\ Answer(q, "command")
    /\ requests' = Exchanged(q, {})
    /\ upset' = Disturbed(q)
    /\ UNCHANGED <<user, place, menu, wrecked, shown, clock, alive, basepath, acts>>

PlainInit == acts = [button \in Live |-> NoCore]

PlainVisit(r) == VisitTemplated(r) \/ VisitFramed(r)
PlainAnswer(q) == Template(q) \/ PlainData(q) \/ CommandDone(q)
PlainPress == \E button \in Live : PressLive(button)
===============================================================================
