--------------------------------- MODULE Events ---------------------------------
(***************************************************************************)
(* jQuery.event of the jQuery 1.7 in require.js: binding and unbinding     *)
(* handlers of one type of event, directly or for descendants (delegated), *)
(* with namespaces and for one time, and events on their way up from a     *)
(* target, that the browser delivers or trigger() simulates.               *)
(*                                                                         *)
(* Handlers bind, unbind and trigger while an event is on its way: one     *)
(* thread, whose stack of events is `underway'.                            *)
(***************************************************************************)
EXTENDS Naturals, Sequences, SequencesExt, FiniteSets

CONSTANTS
    Node,         \* elements
    Ancestors,    \* the way up from each, itself first
    Selector,     \* selectors of delegates
    SelectedBy,   \* the elements that each matches, nested ones maybe
    Bound,        \* what pages bind: a function with a guid, a namespace, and
                  \* whether with one()
    NoNamespace,
    MaxBinds, MaxEventsSent   \* bounds

(***************************************************************************)
(* The way up goes from parent to parent, so it passes no element twice,   *)
(* and from each on it is the way up from there.                           *)
(***************************************************************************)
Higher(d, e) == e # d /\ e \in ToSet(Ancestors[d])

Everything == "**"
Direct == "no selector"

ASSUME EventsAssumption ==
    /\ \A b \in Bound : DOMAIN b = {"fn", "ns", "one"} /\ b.one \in BOOLEAN
    /\ \A e \in Node :
          /\ Ancestors[e] \in Seq(Node)
          /\ Ancestors[e] # <<>> /\ Head(Ancestors[e]) = e
          /\ \A i, j \in DOMAIN Ancestors[e] : i < j => Higher(Ancestors[e][i], Ancestors[e][j])
    /\ Direct \notin Selector /\ Everything \notin Selector
    /\ \A s \in Selector : SelectedBy[s] \subseteq Node
    /\ MaxBinds \in Nat /\ MaxEventsSent \in Nat

VARIABLES
    handlers,     \* of each element: its events[type], and delegateCount
    listening,    \* the elements with an event listener of the browser
    triggered,    \* jQuery.event.triggered is the type
    underway,     \* events that have not come to their end, the innermost last
    sent, binds,  \* counters (bounds)
    runs,         \* (history) what each event has run: on which element, which
                  \* binding, and the delegated element it ran for
    acted,        \* (history) how often the default action of each was taken
    nested        \* (history) a handler has triggered another event

eventVars == <<handlers, listening, triggered, underway, sent, binds, runs, acted, nested>>

EventsInit ==
    /\ handlers = [e \in Node |-> [list |-> <<>>, delegateCount |-> 0]]
    /\ listening = {}
    /\ triggered = FALSE
    /\ underway = <<>>
    /\ sent = 0 /\ binds = 0
    /\ runs = <<>> /\ acted = <<>> /\ nested = FALSE

Up(e) == Ancestors[e]
Inner == underway[Len(underway)]
Idle == underway = <<>>

(***************************************************************************)
(* Code of the page runs: between events, or as the handler of one.        *)
(***************************************************************************)
InHandler == IF Idle THEN TRUE ELSE Inner.running

-------------------------------------------------------------------------------
(***************************************************************************)
(* What a list has at some places, in its order.                           *)
(***************************************************************************)
Picked(s, places) ==
    LET Rank(i) == Cardinality({j \in places : j <= i})
    IN  [k \in 1..Cardinality(places) |-> s[CHOOSE i \in places : Rank(i) = k]]

(***************************************************************************)
(* jQuery.event.add: delegates go in front, and are counted.               *)
(***************************************************************************)
Binding(id, b, for) == [id |-> id, fn |-> b.fn, selector |-> for, ns |-> b.ns, one |-> b.one]

Added(h, b) ==
    IF b.selector = Direct THEN [h EXCEPT !.list = Append(@, b)]
    ELSE [list |-> InsertAt(h.list, h.delegateCount + 1, b), delegateCount |-> h.delegateCount + 1]

(* A fault of add: a delegate that is added does not count. *)
AddedUncounted(h, b) ==
    IF b.selector = Direct THEN [h EXCEPT !.list = Append(@, b)]
    ELSE [h EXCEPT !.list = InsertAt(h.list, h.delegateCount + 1, b)]

Bind(e, b, for) ==
    /\ InHandler
    /\ binds < MaxBinds
    /\ binds' = binds + 1
    /\ handlers' = [handlers EXCEPT ![e] = Added(@, Binding(binds + 1, b, for))]
    /\ listening' = listening \cup {e}
    /\ UNCHANGED <<triggered, underway, sent, runs, acted, nested>>

(***************************************************************************)
(* jQuery.event.remove: those of the function, the namespace and the       *)
(* selector, where these are given.  Without the last one the listener     *)
(* goes too.                                                               *)
(***************************************************************************)
(* A fault of remove: its expression wants a name before the namespace, so *)
(* that one by itself is found nowhere.                                    *)
MatchesSecond(b, fn, for, ns) ==
    /\ fn # Everything => b.fn = fn
    /\ ns = NoNamespace
    /\ for # Direct => (IF for = Everything THEN b.selector # Direct ELSE b.selector = for)

Matches(b, fn, for, ns) ==
    /\ fn # Everything => b.fn = fn
    /\ ns # NoNamespace => b.ns = ns
    /\ for # Direct => (IF for = Everything THEN b.selector # Direct ELSE b.selector = for)

Removed(h, fn, for, ns) ==
    LET gone == {i \in DOMAIN h.list : Matches(h.list[i], fn, for, ns)}
    IN  [list |-> Picked(h.list, DOMAIN h.list \ gone),
         delegateCount |-> h.delegateCount
            - Cardinality({i \in gone : h.list[i].selector # Direct})]

Listening(e, h) == IF h.list = <<>> THEN listening \ {e} ELSE listening

Unbind(e, fn, for, ns) ==
    /\ InHandler
    /\ handlers[e].list # <<>>
    /\ LET h == Removed(handlers[e], fn, for, ns)
       IN  handlers' = [handlers EXCEPT ![e] = h] /\ listening' = Listening(e, h)
    /\ UNCHANGED <<triggered, underway, sent, binds, runs, acted, nested>>

-------------------------------------------------------------------------------
(***************************************************************************)
(* dispatch: what is to run on element e for an event on target t is       *)
(* copied when the event comes there: for each element from the target up  *)
(* to e the delegates whose selector matches it, and then the direct ones. *)
(* A delegate is copied for each element that its selector matches.        *)
(***************************************************************************)
Below(t, e) == SubSeq(Up(t), 1, (CHOOSE i \in DOMAIN Up(t) : Up(t)[i] = e) - 1)

Group(cur, bs) == [i \in DOMAIN bs |-> [on |-> cur, b |-> bs[i]]]
DelegatesOf(h, cur) ==
    Picked(h.list, {i \in 1..h.delegateCount : cur \in SelectedBy[h.list[i].selector]})
DirectOnes(h) == SubSeq(h.list, h.delegateCount + 1, Len(h.list))

DelegatesFor(h, way) ==
    LET queue[k \in 0..Len(way)] ==
            IF k = 0 THEN <<>> ELSE queue[k - 1] \o Group(way[k], DelegatesOf(h, way[k]))
    IN  queue[Len(way)]

(* A fault of dispatch: the handlers of the element itself go first. *)
CopiedOutsideIn(h, t, e) == Group(e, DirectOnes(h)) \o DelegatesFor(h, Below(t, e))

Copied(h, t, e) == DelegatesFor(h, Below(t, e)) \o Group(e, DirectOnes(h))

(***************************************************************************)
(* An event: its number; its origin (the page's trigger(), the browser, or *)
(* the element's own method that trigger() calls at its end); the elements *)
(* to come; where it is, what is left to run there and for which element;  *)
(* what its handlers have said of it.                                      *)
(***************************************************************************)
Event(n, origin, t, ns) ==
    [n |-> n, origin |-> origin, target |-> t, ns |-> ns, path |-> Up(t), at |-> t, todo |-> <<>>,
     on |-> t, running |-> FALSE, stopped |-> FALSE, immediate |-> FALSE, prevented |-> FALSE]

Put(event) == [underway EXCEPT ![Len(underway)] = event]

SendEvent(t, origin, ns) ==
    /\ sent < MaxEventsSent
    /\ sent' = sent + 1
    /\ underway' = Append(underway, Event(sent + 1, origin, t, ns))
    /\ runs' = Append(runs, <<>>)
    /\ acted' = Append(acted, 0)
    /\ nested' = (nested \/ ~Idle)
    /\ UNCHANGED <<handlers, listening, triggered, binds>>

Occur(t) == Idle /\ SendEvent(t, "browser", NoNamespace)

Trigger(t, ns) == InHandler /\ SendEvent(t, "trigger", ns)

(***************************************************************************)
(* The next element of the path.  The handle of an element discards an     *)
(* event while trigger() has the browser act on one of the same type.      *)
(***************************************************************************)
Resting == ~Idle /\ ~Inner.running /\ Inner.todo = <<>>

GoUp ==
    /\ Resting /\ Inner.path # <<>> /\ ~Inner.stopped
    /\ LET e == Head(Inner.path)
       IN  underway' = Put([Inner EXCEPT !.path = Tail(@), !.at = e, !.immediate = FALSE,
                              !.todo = IF e \in listening /\ ~triggered
                                       THEN Copied(handlers[e], Inner.target, e) ELSE <<>>])
    /\ UNCHANGED <<handlers, listening, triggered, sent, binds, runs, acted, nested>>

(***************************************************************************)
(* The next handler that was copied, if the event has its namespace; that  *)
(* of one() unbinds its function first, and with it all its bindings, but  *)
(* not what is copied: it runs for each element it was copied for.         *)
(***************************************************************************)
Stays(i) == ~Inner.immediate /\ (~Inner.stopped \/ i.on = Inner.on)
Wanted(b) == Inner.ns = NoNamespace \/ b.ns = Inner.ns

RunHandler ==
    /\ ~Idle /\ ~Inner.running /\ Inner.todo # <<>>
    /\ LET i == Head(Inner.todo)
           b == i.b
           e == Inner.at
           h == Removed(handlers[e], b.fn, b.selector, b.ns)
       IN  IF ~Stays(i) THEN
               /\ underway' = Put([Inner EXCEPT !.todo = <<>>])
               /\ UNCHANGED <<handlers, listening, runs>>
           ELSE IF ~Wanted(b) THEN
               underway' = Put([Inner EXCEPT !.todo = Tail(@), !.on = i.on])
               /\ UNCHANGED <<handlers, listening, runs>>
           ELSE
               /\ underway' = Put([Inner EXCEPT !.todo = Tail(@), !.on = i.on, !.running = TRUE])
               /\ runs' = [runs EXCEPT ![Inner.n] = Append(@, <<e, i.on, b.id, b.one>>)]
               /\ handlers' = IF b.one THEN [handlers EXCEPT ![e] = h] ELSE handlers
               /\ listening' = IF b.one THEN Listening(e, h) ELSE listening
    /\ UNCHANGED <<triggered, sent, binds, acted, nested>>

(***************************************************************************)
(* What the handler says of the event, and its return (false is both to    *)
(* prevent and to stop).                                                   *)
(***************************************************************************)
HandlerReturns(prevents, stops, immediately) ==
    /\ ~Idle /\ Inner.running
    /\ underway' = Put([Inner EXCEPT !.running = FALSE, !.prevented = @ \/ prevents,
                           !.stopped = @ \/ stops \/ immediately, !.immediate = @ \/ immediately])
    /\ UNCHANGED <<handlers, listening, triggered, sent, binds, runs, acted, nested>>

(***************************************************************************)
(* The end of the way.  The browser takes its default action; trigger()    *)
(* calls the method of the target, an event of the browser's own.          *)
(***************************************************************************)
Ended_ == Resting /\ (Inner.path = <<>> \/ Inner.stopped)

Act ==
    /\ Ended_ /\ ~Inner.prevented
    /\ IF Inner.origin = "trigger"
       THEN /\ underway' = Append(Put([Inner EXCEPT !.origin = "done", !.path = <<>>]),
                                  Event(Inner.n, "method", Inner.target, NoNamespace))
            /\ triggered' = TRUE
            /\ UNCHANGED acted
       ELSE /\ acted' = IF Inner.origin = "done" THEN acted ELSE [acted EXCEPT ![Inner.n] = @ + 1]
            /\ triggered' = IF Inner.origin = "method" THEN FALSE ELSE triggered
            /\ underway' = Front(underway)
    /\ UNCHANGED <<handlers, listening, sent, binds, runs, nested>>

Forget ==
    /\ Ended_ /\ Inner.prevented
    /\ underway' = Front(underway)
    /\ UNCHANGED <<handlers, listening, triggered, sent, binds, runs, acted, nested>>

SelectorsOn == {Direct} \cup Selector

EventsNext ==
    \/ \E e \in Node, b \in Bound :
          \/ \E for \in SelectorsOn : Bind(e, b, for)
          \/ \E for \in SelectorsOn \cup {Everything} : Unbind(e, b.fn, for, b.ns)
    \/ \E e \in Node : Unbind(e, Everything, Direct, NoNamespace)
    \/ \E t \in Node : Occur(t) \/ \E ns \in {b.ns : b \in Bound} : Trigger(t, ns)
    \/ GoUp \/ RunHandler \/ Act \/ Forget
    \/ \E p, s, i \in BOOLEAN : (i => s) /\ HandlerReturns(p, s, i)

EventsSpec == EventsInit /\ [][EventsNext]_eventVars

-------------------------------------------------------------------------------
EventsTypeOK ==
    /\ \A e \in Node : handlers[e].delegateCount \in 0..Len(handlers[e].list)
    /\ listening \subseteq Node
    /\ triggered \in BOOLEAN
    /\ sent \in 0..MaxEventsSent /\ binds \in 0..MaxBinds

(***************************************************************************)
(* However handlers were bound and unbound, and while events were on their *)
(* way: an element has a listener of the browser exactly while it has      *)
(* handlers, and its delegates are the first delegateCount of them.        *)
(***************************************************************************)
BindingsAgree ==
    \A e \in Node :
        LET h == handlers[e]
        IN  /\ e \in listening <=> h.list # <<>>
            /\ \A i \in DOMAIN h.list : h.list[i].selector # Direct <=> i <= h.delegateCount

(***************************************************************************)
(* An event runs a binding once at most for an element (though trigger()   *)
(* sends it up the same way twice, and though the selector of a delegate   *)
(* matches several elements on the way), goes from the target up and       *)
(* through the delegates before the direct ones, and its default action is *)
(* taken at most once.                                                     *)
(***************************************************************************)
Before(x, y) ==
    \/ x[1] # y[1] /\ y[1] \in ToSet(Up(x[1]))
    \/ x[1] = y[1] /\ (x[2] = y[2] \/ y[2] \in ToSet(Up(x[2])))

OnceAndInOrder ==
    \A n \in DOMAIN runs :
        /\ acted[n] <= 1
        /\ \A i, j \in DOMAIN runs[n] :
              i < j => runs[n][i] # runs[n][j] /\ Before(runs[n][i], runs[n][j])

(***************************************************************************)
(* What is bound with one() runs for a single event, also when several     *)
(* elements deliver the same event, and there once for each element that   *)
(* its selector matches, as it was copied for all of them; unless handlers *)
(* trigger events of their type: the outer event then runs what it has     *)
(* copied, though the inner one has run it.                                *)
(***************************************************************************)
OnceMeansOnce ==
    ~nested => \A n, m \in DOMAIN runs : \A i \in DOMAIN runs[n], j \in DOMAIN runs[m] :
        LET x == runs[n][i]
            y == runs[m][j]
        IN  x[4] /\ <<n, i>> # <<m, j>> /\ x[3] = y[3] => n = m /\ x[1] = y[1] /\ x[2] # y[2]

(***************************************************************************)
(* What is bound when an event comes runs, in order, and as often as it    *)
(* was bound for.                                                          *)
(***************************************************************************)
HandlersRunOnce == EventsTypeOK /\ BindingsAgree /\ OnceAndInOrder /\ OnceMeansOnce
===============================================================================
