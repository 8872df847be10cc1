------------------------------- MODULE LoggingPage -------------------------------
(***************************************************************************)
(* The logging viewer, scripts/logging.js: a table that asks every ten     *)
(* seconds for the events since the last one it has.  The function that    *)
(* asks and the frame it writes to are globals: there is one viewer,       *)
(* whichever visit set it going.                                           *)
(***************************************************************************)
EXTENDS Console, Sequences

CONSTANT MaxEvents    \* bound on the events of the server

ASSUME EventsAssumption == MaxEvents \in Nat

VARIABLES
    log,          \* the number of events of the server
    rows,         \* the events in the table of frame_element
    latest        \* its data 'latest'

loggingVars == <<log, rows, latest>>

LoggingInit == log = 0 /\ rows = <<>> /\ latest = 0

-------------------------------------------------------------------------------
(***************************************************************************)
(* Something is logged; only what happens while a request is in flight can *)
(* tell one order from another.                                            *)
(***************************************************************************)
LogEvent ==
    /\ ~due
    /\ log < MaxEvents
    /\ \E q \in InFlight : q.do = "log"
    /\ log' = log + 1
    /\ UNCHANGED <<user, place, menu, wrecked, shown, requests, clock, alive, basepath,
                   upset, rows, latest>>

VisitLogging(r) ==
    /\ RunRoute(r)
    /\ r.page = "logging"
    /\ requests' = Sent({Ask("logging template", r, visit + 1)})
    /\ upset' = {}
    /\ UNCHANGED <<shown, basepath, loggingVars>>

(***************************************************************************)
(* load_logging_viewer, when the table has the events up to `since'.       *)
(***************************************************************************)
LoadViewer(since) == AskOf("log", route, visit, {}, since)

LoggingTemplate(q) ==
    /\ Answer(q, "logging template")
    /\ shown' = Drawn("logging", q.route, q.visit)
    /\ rows' = <<>>
    /\ latest' = 0
    /\ requests' = Exchanged(q, {LoadViewer(0)})
    /\ upset' = Disturbed(q)
    /\ UNCHANGED <<user, place, menu, wrecked, clock, alive, basepath, log>>

Events(from, to) == [i \in 1..(to - from) |-> from + i]

(* A fault of Log: the table does not note the last event it got. *)
LogForgetting(q) ==
    /\ Answer(q, "log")
    /\ \E upto \in q.n..log : rows' = rows \o Events(q.n, upto)
    /\ LET id == FreeHandle
       IN  /\ timeout' = id
           /\ timers' = timers \cup {Timer(id, "log timer", q.route, q.visit, 0)}
    /\ requests' = Exchanged(q, {})
    /\ upset' = Disturbed(q)
    /\ UNCHANGED <<user, place, menu, wrecked, shown, alive, basepath, log, latest>>

(***************************************************************************)
(* The answer has the events since the one the table had when it was asked *)
(* for, up to the last one the server had at some moment of the flight.    *)
(* The next request is due in ten seconds, whatever app.timeout holds.     *)
(***************************************************************************)
Log(q) ==
    /\ Answer(q, "log")
    /\ \E upto \in q.n..log :
         /\ rows' = rows \o Events(q.n, upto)
         /\ latest' = IF upto > q.n THEN upto ELSE latest
    /\ LET id == FreeHandle
       IN  /\ timeout' = id
           /\ timers' = timers \cup {Timer(id, "log timer", q.route, q.visit, 0)}
    /\ requests' = Exchanged(q, {})
    /\ upset' = Disturbed(q)
    /\ UNCHANGED <<user, place, menu, wrecked, shown, alive, basepath, log>>

LogTimer(t) ==
    /\ Answer(t, "log timer")
    /\ timers' = timers \ {t}
    /\ requests' = Sent({LoadViewer(latest)})
    /\ upset' = Disturbed(t)
    /\ UNCHANGED <<user, place, menu, wrecked, shown, timeout, alive, basepath, loggingVars>>

LoggingVisit(r) == VisitLogging(r)
LoggingAnswer(q) == LoggingTemplate(q) \/ Log(q)
LoggingTimer(t) == LogTimer(t)
===============================================================================
