----------------------------- MODULE ReplicationPage -----------------------------
(***************************************************************************)
(* The replication page, scripts/replication.js: the details of the        *)
(* replication of a core, asked for again while a slave replicates and     *)
(* when the countdown to its next poll is over.  Everything it works with  *)
(* is global and goes on when the page is left.                            *)
(***************************************************************************)
EXTENDS Console

CONSTANTS
    Slaves,       \* the cores that replicate from another
    MaxTick       \* bound on the seconds to the next poll

ASSUME ReplicationAssumption ==
    /\ Slaves \subseteq Core
    /\ MaxTick \in Nat \ {0}

VARIABLE element  \* replication_element: the visit that drew it

replicationVars == <<element, ticker>>

ReplicationInit == element = 0 /\ ticker = 0

-------------------------------------------------------------------------------
VisitReplication(r) ==
    /\ RunRoute(r)
    /\ r.page = "replication"
    /\ basepath' = r.core
    /\ requests' = Sent({Ask("replication template", r, visit + 1)})
    /\ upset' = {}
    /\ UNCHANGED <<shown, replicationVars>>

(***************************************************************************)
(* replication_fetch_status asks for the details of the core that the      *)
(* global core_basepath stands for; clear_timer stops the countdown.       *)
(***************************************************************************)
FetchDetails == Ask("details", Route("replication", basepath, NoCore), visit)
TimersCleared == {t \in timers : t.id # ticker}

ReplicationTemplate(q) ==
    /\ Answer(q, "replication template")
    /\ shown' = Drawn("replication", q.route, q.visit)
    /\ element' = q.visit
    /\ requests' = Exchanged(q, {FetchDetails})
    /\ timers' = TimersCleared
    /\ upset' = Disturbed(q)
    /\ UNCHANGED <<user, place, menu, wrecked, timeout, alive, basepath, ticker>>

(***************************************************************************)
(* update_timer( n ), for n > 0.                                           *)
(***************************************************************************)
Countdown(others, n) ==
    LET id == FreeHandle
    IN  /\ ticker' = id
        /\ timers' = others \cup {Timer(id, "tick", NoRoute, visit, n - 1)}

(* A fault of InitTimer: the countdown that runs is not stopped. *)
InitTimerAnew(n) == Countdown(timers, n)

InitTimer(n) == Countdown(TimersCleared, n)

(***************************************************************************)
(* A slave that replicates is asked again in a second, one that polls when *)
(* its next poll is due; others (a master, polling disabled) are not.      *)
(***************************************************************************)
Details(q) ==
    /\ Answer(q, "details")
    /\ shown' = IF shown.page = "replication" /\ shown.visit = element
                THEN [shown EXCEPT !.data = {[block |-> "details", core |-> q.route.core]}]
                ELSE shown
    /\ \/ UNCHANGED <<timers, ticker>>
       \/ /\ q.route.core \in Slaves
          /\ timers' = timers \cup {Timer(FreeHandle, "refetch", NoRoute, visit, 0)}
          /\ UNCHANGED ticker
       \/ /\ q.route.core \in Slaves
          /\ \E n \in 1..MaxTick : InitTimer(n)
    /\ requests' = Exchanged(q, {})
    /\ upset' = Disturbed(q)
    /\ UNCHANGED <<user, place, menu, wrecked, timeout, alive, basepath, element>>

(***************************************************************************)
(* An error takes away whatever page is shown.                             *)
(***************************************************************************)
DetailsFail(q) ==
    /\ ~due
    /\ q.do = "details"
    /\ shown' = Drawn("no replication", q.route, q.visit)
    /\ requests' = Exchanged(q, {})
    /\ upset' = upset \cup {<<"lost", "details">>}
    /\ UNCHANGED <<user, place, menu, wrecked, clock, alive, basepath, replicationVars>>

Tick(t) ==
    /\ Answer(t, "tick")
    /\ t.n > 0
    /\ Countdown(timers \ {t}, t.n)
    /\ upset' = Disturbed(t)
    /\ UNCHANGED <<user, place, menu, wrecked, shown, requests, timeout, alive, basepath,
                   element>>

(***************************************************************************)
(* The countdown is over, or the second of a slave that replicates.        *)
(***************************************************************************)
Refetch(t) ==
    /\ t.do \in {"tick", "refetch"}
    /\ Answer(t, t.do)
    /\ t.n = 0
    /\ timers' = TimersCleared \ {t}
    /\ requests' = Sent({FetchDetails})
    /\ upset' = Disturbed(t)
    /\ UNCHANGED <<user, place, menu, wrecked, shown, timeout, alive, basepath,
                   replicationVars>>

-------------------------------------------------------------------------------
(***************************************************************************)
(* Refresh, even when the details are being asked for already (the button  *)
(* is asked for the class `loader' that its span has); or a command, after *)
(* which the details are asked for.                                        *)
(***************************************************************************)
PressRefresh ==
    /\ Press
    /\ shown.page = "replication"
    /\ requests' = Sent({FetchDetails})
    /\ timers' = TimersCleared
    /\ UNCHANGED <<place, menu, wrecked, shown, timeout, alive, basepath, replicationVars>>

PressCommand ==
    /\ Press
    /\ shown.page = "replication"
    /\ requests' = Sent({Ask("replicate", Route("replication", basepath, NoCore), visit)})
    /\ UNCHANGED <<place, menu, wrecked, shown, clock, alive, basepath, replicationVars>>

Replicate(q) ==
    /\ Answer(q, "replicate")
    /\ requests' = Exchanged(q, {FetchDetails})
    /\ timers' = TimersCleared
    /\ upset' = Disturbed(q)
    /\ UNCHANGED <<user, place, menu, wrecked, shown, timeout, alive, basepath,
                   replicationVars>>

ReplicationVisit(r) == VisitReplication(r)
ReplicationAnswer(q) == ReplicationTemplate(q) \/ Details(q) \/ Replicate(q)
ReplicationTimer(t) == Tick(t) \/ Refetch(t)
ReplicationPress == PressRefresh \/ PressCommand
===============================================================================
