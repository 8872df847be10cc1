-------------------------------- MODULE Effects --------------------------------
(***************************************************************************)
(* The queues and the animations of the jQuery 1.7 in require.js: queue,   *)
(* dequeue, delay, promise, animate, stop and the clock of jQuery.fx.      *)
(*                                                                         *)
(* A call runs to its end before anything else happens; what it calls (the *)
(* next of the queue, a `complete' function, which may stop again) belongs *)
(* to it.  What is left of the calls under way, the innermost first, is in *)
(* `todo', and each action is one piece of them.                           *)
(***************************************************************************)
LOCAL INSTANCE Naturals
LOCAL INSTANCE Sequences
LOCAL INSTANCE SequencesExt
LOCAL INSTANCE FiniteSets
LOCAL INSTANCE TLC

CONSTANTS
    Element,
    Shows,        \* what a page does with its elements: the animations it asks
                  \* for, how it stops them, and whether it waits for promises
    MaxAsked      \* bound on what is asked for

(***************************************************************************)
(* An animation: its properties, the way (show, hide, toggle, or to a      *)
(* value), whether it is queued, whether it takes no time, and what its    *)
(* `complete' does (nothing, or stop the element).                         *)
(***************************************************************************)
EffectsAssumption ==
    \A s \in Shows :
        /\ DOMAIN s = {"animations", "delays", "stops", "promises"}
        /\ \A a \in s.animations :
              /\ DOMAIN a = {"props", "way", "queued", "instant", "then"}
              /\ a.props # {}
        /\ s.stops \subseteq BOOLEAN \X BOOLEAN
ASSUME EffectsAssumption

VARIABLES
    show,         \* what this page does (chosen once)
    asked,        \* what has been asked for: the animations and delays by number
    fx,           \* the data of the elements and jQuery.timers
    todo          \* what is left of the calls under way, the innermost first

effectVars == <<show, asked, fx, todo>>

InProgress == 0
NoHook == 0

(***************************************************************************)
(* queue: numbers of what waits, after the sentinel; hook: the delay that  *)
(* "fx.run" can stop; marks: the count of animations that are not queued;  *)
(* toggled: what the next toggle is to do; awaited, checking: a promise    *)
(* waits, and a look at whether it is due is on its way; over: what has    *)
(* completed, in order; cut: what was taken from the queue or stopped.     *)
(***************************************************************************)
EffectsInit ==
    /\ show \in Shows
    /\ asked = <<>>
    /\ todo = <<>>
    /\ \E h \in [Element -> BOOLEAN] :
          fx = [queue |-> [e \in Element |-> <<>>], hook |-> [e \in Element |-> NoHook],
                marks |-> [e \in Element |-> 0], hidden |-> h,
                toggled |-> [e \in Element |-> "no"],
                timers |-> <<>>, left |-> <<>>, way |-> <<>>, delays |-> {},
                awaited |-> {}, checking |-> {}, over |-> <<>>, cut |-> {}]

EffectsRest == show = (CHOOSE s \in Shows : TRUE) /\ \A e \in Element : fx.hidden[e]

Delay == [props |-> {}, way |-> "wait", queued |-> TRUE, instant |-> FALSE, then |-> "nothing"]
Timer(e, n, p) == [elem |-> e, n |-> n, prop |-> p]
TimersOf(e) == {i \in DOMAIN fx.timers : fx.timers[i].elem = e}
WithoutTimer(i) == IF i <= Len(fx.timers) THEN RemoveAt(fx.timers, i) ELSE fx.timers

(***************************************************************************)
(* The pieces of calls: of an element, of an animation, of one of its      *)
(* properties, of a stop, and of a tick, which is at one of the timers.    *)
(***************************************************************************)
On(does, e) == [do |-> does, elem |-> e]
Of(does, n) == [do |-> does, elem |-> asked[n].elem, n |-> n]
Property(t) == [do |-> "step", elem |-> t.elem, n |-> t.n, prop |-> t.prop]
StopCall(does, e, toEnd) == [do |-> does, elem |-> e, toEnd |-> toEnd]
StopAt(does, e, i, toEnd) == [do |-> does, elem |-> e, at |-> i, toEnd |-> toEnd]
TickAt(i, expired) == [do |-> "tick", at |-> i, expired |-> expired]
TickDone(i, t, expired) == [do |-> "ticked", at |-> i, timer |-> t, expired |-> expired]

Now == Head(todo)
Doing(does) == todo # <<>> /\ Now.do = does
Calls(pieces) == todo' = pieces \o Tail(todo) /\ UNCHANGED <<show, asked>>
If(c, pieces) == IF c THEN pieces ELSE <<>>

(***************************************************************************)
(* handleQueueMarkDefer: whoever waits for a promise is told later, if     *)
(* nothing has come by then.                                               *)
(***************************************************************************)
Defers(s, e) ==
    IF e \in s.awaited /\ s.queue[e] = <<>> /\ s.marks[e] = 0
    THEN [s EXCEPT !.checking = @ \cup {e}] ELSE s

Unmark(s, e, count) ==
    LET s1 == [s EXCEPT !.marks[e] = count] IN IF count = 0 THEN Defers(s1, e) ELSE s1

Marked(s, e) == IF s.marks[e] = 0 THEN 0 ELSE s.marks[e] - 1

(***************************************************************************)
(* jQuery.dequeue: the next of the queue runs, with the sentinel in front  *)
(* of those that wait.                                                     *)
(***************************************************************************)
Waiting(q) == IF q # <<>> /\ Head(q) = InProgress THEN Tail(q) ELSE q
(* A fault of dequeue: without the sentinel the next one can be started by anybody. *)
InFrontBare(q) == q

InFront(q) == <<InProgress>> \o q

Dequeue ==
    /\ Doing("dequeue")
    /\ LET e == Now.elem
           q == Waiting(fx.queue[e])
           n == Head(q)
           emptied == [fx EXCEPT !.queue[e] = <<>>, !.hook[e] = NoHook]
           taken == [fx EXCEPT !.queue[e] = InFront(Tail(q)), !.hook[e] = NoHook]
       IN  \/ /\ q = <<>>
              /\ fx' = Defers(emptied, e)
              /\ Calls(<<>>)
           \/ /\ q # <<>> /\ asked[n].what.way = "wait"
              /\ fx' = [taken EXCEPT !.hook[e] = n, !.delays = @ \cup {[elem |-> e, n |-> n]}]
              /\ Calls(<<>>)
           \/ /\ q # <<>> /\ asked[n].what.way # "wait"
              /\ fx' = taken
              /\ Calls(<<Of("animate", n)>>)

(***************************************************************************)
(* doAnimation.  To show what is shown, or to hide what is hidden, is done *)
(* at once; what takes no time is done before it has a timer.              *)
(***************************************************************************)
Way(e, a) ==
    CASE a.way = "to" -> "to"
      [] a.way # "to" /\ fx.toggled[e] # "no" -> fx.toggled[e]
      [] a.way = "toggle" /\ fx.toggled[e] = "no" -> IF fx.hidden[e] THEN "show" ELSE "hide"
      [] OTHER -> a.way

DoneAlready(e, a) == (a.way = "hide" /\ fx.hidden[e]) \/ (a.way = "show" /\ ~fx.hidden[e])

NothingToDo ==
    /\ Doing("animate")
    /\ DoneAlready(Now.elem, asked[Now.n].what)
    /\ fx' = [fx EXCEPT !.way = Now.n :> "none" @@ @, !.left = Now.n :> {} @@ @]
    /\ Calls(<<Of("complete", Now.n)>>)

Animate ==
    /\ Doing("animate")
    /\ LET e == Now.elem
           n == Now.n
           a == asked[n].what
           way == Way(e, a)
           keeps == a.way # "to" /\ (a.way = "toggle" \/ fx.toggled[e] # "no")
           timers == [i \in 1..Cardinality(a.props) |-> Timer(e, n, SetToSeq(a.props)[i])]
       IN  /\ ~DoneAlready(e, a)
           /\ fx' = [fx EXCEPT
                        !.way = n :> way @@ @,
                        !.toggled[e] = IF keeps THEN (IF way = "show" THEN "hide" ELSE "show") ELSE @,
                        !.left = n :> (IF a.instant THEN {} ELSE a.props) @@ @,
                        !.timers = IF a.instant THEN @ ELSE @ \o timers]
           /\ Calls(If(a.instant, <<Of("complete", n)>>) \o If(way = "show", <<On("appear", e)>>))

Appear ==
    /\ Doing("appear")
    /\ fx' = [fx EXCEPT !.hidden[Now.elem] = FALSE]
    /\ Calls(<<>>)

(***************************************************************************)
(* The end of an animation, once: the element is hidden if it was to be,   *)
(* `complete' is called, and then the next of the queue.                   *)
(***************************************************************************)
Stops(e, clear, toEnd) == If(clear, <<On("dequeue", e)>>) \o <<StopCall("stop", e, toEnd)>>

Completed ==
    /\ Doing("complete")
    /\ LET e == Now.elem
           n == Now.n
           a == asked[n].what
           way == fx.way[n]
       IN  /\ fx' = [fx EXCEPT !.hidden[e] = way = "hide" \/ @,
                               !.toggled[e] = IF way \in {"hide", "show"} THEN "no" ELSE @,
                               !.over = Append(@, n)]
           /\ Calls(If(a.then = "stop", Stops(e, FALSE, FALSE))
                    \o <<On(IF a.queued THEN "dequeue" ELSE "unmark", e)>>)

UnmarkOne ==
    /\ Doing("unmark")
    /\ fx' = Unmark(fx, Now.elem, Marked(fx, Now.elem))
    /\ Calls(<<>>)

(***************************************************************************)
(* One property of an animation has come to its end.                       *)
(***************************************************************************)
Step ==
    /\ Doing("step")
    /\ LET left == fx.left[Now.n] \ {Now.prop}
       IN  /\ fx' = [fx EXCEPT !.left[Now.n] = left]
           /\ Calls(If(left = {}, <<Of("complete", Now.n)>>))

(***************************************************************************)
(* stop().  The next of the queue is started here unless an animation that *)
(* was finished has started it.                                            *)
(***************************************************************************)
Stop ==
    /\ Doing("stop")
    /\ LET e == Now.elem
           n == fx.hook[e]
           s == IF Now.toEnd THEN fx ELSE Unmark(fx, e, 0)
           finishes == Now.toEnd /\ TimersOf(e) # {}
       IN  /\ fx' = IF n = NoHook THEN s
                    ELSE [s EXCEPT !.hook[e] = NoHook, !.delays = @ \ {[elem |-> e, n |-> n]},
                                   !.cut = @ \cup {n}]
           /\ Calls(<<StopAt("stopping", e, Len(fx.timers), Now.toEnd)>>
                    \o If(~finishes, <<On("dequeue", e)>>))

(***************************************************************************)
(* The timers of a stopped element, from the last to the first.            *)
(***************************************************************************)
NextDown == StopAt("stopping", Now.elem, Now.at - 1, Now.toEnd)
IsItsTimer == Now.at <= Len(fx.timers) /\ fx.timers[Now.at].elem = Now.elem

Stopping ==
    /\ Doing("stopping")
    /\ \/ Now.at = 0 /\ Calls(<<>>) /\ UNCHANGED fx
       \/ Now.at > 0 /\ ~IsItsTimer /\ Calls(<<NextDown>>) /\ UNCHANGED fx
       \/ /\ Now.at > 0 /\ IsItsTimer
          /\ LET t == fx.timers[Now.at]
             IN  /\ fx' = [fx EXCEPT !.cut = IF Now.toEnd THEN @ ELSE @ \cup {t.n}]
                 /\ Calls(If(Now.toEnd, <<Property(t)>>)
                          \o <<[Now EXCEPT !.do = "stopped"], NextDown>>)

Stopped ==
    /\ Doing("stopped")
    /\ fx' = [fx EXCEPT !.timers = WithoutTimer(Now.at)]
    /\ Calls(<<>>)

-------------------------------------------------------------------------------
(***************************************************************************)
(* jQuery.fx.tick: each timer in turn, also those that come meanwhile; one *)
(* that is over is removed, unless it has been already.                    *)
(***************************************************************************)
TickOne ==
    /\ Doing("tick")
    /\ UNCHANGED fx
    /\ \/ Now.at > Len(fx.timers) /\ Calls(<<>>)
       \/ /\ Now.at <= Len(fx.timers) /\ fx.timers[Now.at].n \notin Now.expired
          /\ Calls(<<[Now EXCEPT !.at = @ + 1]>>)
       \/ /\ Now.at <= Len(fx.timers) /\ fx.timers[Now.at].n \in Now.expired
          /\ LET t == fx.timers[Now.at]
             IN  Calls(<<Property(t), TickDone(Now.at, t, Now.expired)>>)

(* A fault of tick: the timer is removed whatever stands in its place now. *)
StillThereOrNot(i, t) == i <= Len(fx.timers)

StillThere(i, t) == i <= Len(fx.timers) /\ fx.timers[i] = t

TickedOne ==
    /\ Doing("ticked")
    /\ \/ /\ StillThere(Now.at, Now.timer)
          /\ fx' = [fx EXCEPT !.timers = WithoutTimer(Now.at)]
          /\ Calls(<<TickAt(Now.at, Now.expired)>>)
       \/ /\ ~StillThere(Now.at, Now.timer)
          /\ Calls(<<TickAt(Now.at + 1, Now.expired)>>)
          /\ UNCHANGED fx

-------------------------------------------------------------------------------
(***************************************************************************)
(* What a page calls, when no other call is under way: animate() and       *)
(* delay(), queued or at once;                                             *)
(***************************************************************************)
Ask(e, a) ==
    /\ todo = <<>>
    /\ Len(asked) < MaxAsked
    /\ asked' = Append(asked, [elem |-> e, what |-> a])
    /\ LET n == Len(asked) + 1
           first == a.queued /\ fx.queue[e] = <<>>
       IN  /\ fx' = IF a.queued THEN [fx EXCEPT !.queue[e] = Append(@, n)]
                    ELSE [fx EXCEPT !.marks[e] = @ + 1]
           /\ todo' = If(first, <<On("dequeue", e)>>)
                      \o If(~a.queued, <<[do |-> "animate", elem |-> e, n |-> n]>>)
    /\ UNCHANGED show

(***************************************************************************)
(* stop(), which clears a queue by putting an empty one in its place, and  *)
(* dequeues that, which forgets how to stop a delay;                       *)
(***************************************************************************)
StopElement(e, clear, toEnd) ==
    /\ todo = <<>>
    /\ TimersOf(e) # {} \/ fx.queue[e] # <<>> \/ fx.marks[e] # 0
    /\ fx' = IF clear THEN [fx EXCEPT !.queue[e] = <<>>, !.cut = @ \cup ToSet(Waiting(fx.queue[e]))]
             ELSE fx
    /\ todo' = Stops(e, clear, toEnd)
    /\ UNCHANGED <<show, asked>>

(***************************************************************************)
(* and promise().                                                          *)
(***************************************************************************)
Promise(e) ==
    /\ todo = <<>>
    /\ show.promises
    /\ e \notin fx.awaited
    /\ fx.queue[e] # <<>> \/ fx.marks[e] # 0
    /\ fx' = [fx EXCEPT !.awaited = @ \cup {e}]
    /\ UNCHANGED <<show, asked, todo>>

(***************************************************************************)
(* The interval of jQuery.fx: some of the animations are over by now.  The *)
(* properties of one started together and share the time of the tick.      *)
(***************************************************************************)
Live == {fx.timers[i].n : i \in DOMAIN fx.timers}

Tick(expired) ==
    /\ todo = <<>>
    /\ expired \subseteq Live /\ expired # {}
    /\ todo' = <<TickAt(1, expired)>>
    /\ UNCHANGED <<show, asked, fx>>

DelayOver(d) ==
    /\ todo = <<>>
    /\ d \in fx.delays
    /\ fx' = [fx EXCEPT !.delays = @ \ {d}, !.over = Append(@, d.n)]
    /\ todo' = <<On("dequeue", d.elem)>>
    /\ UNCHANGED <<show, asked>>

Check(e) ==
    /\ todo = <<>>
    /\ e \in fx.checking
    /\ fx' = [fx EXCEPT !.checking = @ \ {e},
                        !.awaited = IF fx.queue[e] = <<>> /\ fx.marks[e] = 0 THEN @ \ {e} ELSE @]
    /\ UNCHANGED <<show, asked, todo>>

Pieces ==
    \/ Dequeue \/ NothingToDo \/ Animate \/ Appear \/ Completed \/ UnmarkOne
    \/ Step \/ Stop \/ Stopping \/ Stopped \/ TickOne \/ TickedOne

EffectsNext ==
    \/ Pieces
    \/ \E e \in Element :
          \/ \E a \in show.animations : Ask(e, a)
          \/ show.delays /\ Ask(e, Delay)
          \/ \E c \in show.stops : StopElement(e, c[1], c[2])
          \/ Promise(e) \/ Check(e)
    \/ \E expired \in SUBSET Live : Tick(expired)
    \/ \E d \in fx.delays : DelayOver(d)

EffectsSpec == EffectsInit /\ [][EffectsNext]_effectVars

-------------------------------------------------------------------------------
EffectsTypeOK ==
    /\ show \in Shows
    /\ Len(asked) <= MaxAsked
    /\ \A e \in Element : ToSet(fx.queue[e]) \subseteq 0..Len(asked) /\ fx.marks[e] \in Nat
    /\ ToSet(fx.over) \cup fx.cut \subseteq 1..Len(asked)

(***************************************************************************)
(* On an element whose queue is not empty one thing that was queued is     *)
(* under way, behind the sentinel, and so the rest will be reached; on any *)
(* other none is.  What is queued ends in the order it was asked for, and  *)
(* nothing ends twice, whatever was stopped in between.                    *)
(***************************************************************************)
Queued(e) == {n \in 1..Len(asked) : asked[n].elem = e /\ asked[n].what.queued}
Under(e) == (Queued(e) \cap Live) \cup {d.n : d \in {x \in fx.delays : x.elem = e}}
Ended(e) == SelectSeq(fx.over, LAMBDA n : n \in Queued(e))

OneAtATime ==
    /\ \A e \in Element :
          IF fx.queue[e] = <<>> THEN Under(e) = {}
          ELSE Head(fx.queue[e]) = InProgress /\ Cardinality(Under(e)) = 1
    /\ \A e \in Element : \A i, j \in DOMAIN Ended(e) : i < j => Ended(e)[i] < Ended(e)[j]
    /\ \A i, j \in DOMAIN fx.over : i # j => fx.over[i] # fx.over[j]

(***************************************************************************)
(* A promise that an element was asked for is kept once its queue is empty *)
(* and no other animation of it runs.                                      *)
(***************************************************************************)
Quiet(e) == fx.queue[e] = <<>> /\ fx.marks[e] = 0 /\ fx.checking = {}

PromisesAreKept == \A e \in Element : Quiet(e) => e \notin fx.awaited
(***************************************************************************)
(* When no call is under way, queues go on to their end, and who waits for *)
(* it is told.                                                             *)
(***************************************************************************)
QueuesGoOn == EffectsTypeOK /\ (todo = <<>> => OneAtATime /\ PromisesAreKept)
===============================================================================
