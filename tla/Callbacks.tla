------------------------------- MODULE Callbacks -------------------------------
(***************************************************************************)
(* jQuery.Callbacks and jQuery.Deferred, of the jQuery 1.7 in require.js.  *)
(*                                                                         *)
(* A list of functions that are called when it is fired.  Whatever runs    *)
(* may use the lists, and the functions that a list calls more than        *)
(* anybody: they add to it, remove from it, fire it and disable it while   *)
(* it is half way.  The steps are those of one thread: `calls' is its      *)
(* stack.                                                                  *)
(***************************************************************************)
EXTENDS Naturals, Sequences, SequencesExt, FiniteSets

CONSTANTS
    Listener,     \* functions of the users of the lists
    Payload,      \* arguments that a list is fired with
    PlainFlags,   \* the flags of the lists that are no Deferred's
    MaxUses       \* bound on what the users do with the lists

(***************************************************************************)
(* A Deferred has three lists, and a list may stand by itself.             *)
(***************************************************************************)
DeferredFlags == [done |-> {"once", "memory"}, fail |-> {"once", "memory"}, progress |-> {"memory"}]
ListName == {"plain", "done", "fail", "progress"}

(***************************************************************************)
(* What the first functions of `done' and `fail' do: they are Deferred's   *)
(* own.                                                                    *)
(***************************************************************************)
Own == {"resolved", "rejected", "failList.disable", "doneList.disable", "progressList.lock"}
Function == Listener \cup Own

Undefined == "undefined"
Halted == "true"      \* memory of a list without the flag, or that was stopped
Nothing == "nothing"

(***************************************************************************)
(* A memory is a pair of a context and arguments, neither `undefined' nor  *)
(* `true'; nobody outside has the functions of a Deferred itself.          *)
(***************************************************************************)
CallbacksAssumption ==
    /\ Listener \cap (Own \cup {Nothing}) = {}
    /\ Payload \cap {Undefined, Halted} = {}
    /\ MaxUses \in Nat
ASSUME CallbacksAssumption

VARIABLES
    flags,        \* of each list there is (chosen once)
    lists,        \* the variables of each call of jQuery.Callbacks
    state,        \* that of the Deferred
    calls,        \* the loops of `fire' under way, the innermost last
    uses,         \* what users have done so far (a bound)
    attached,     \* (history) the functions each list was given, in order
    called,       \* (history) what each list has called, and with what
    crashed       \* (history) a function has thrown

callbackVars == <<flags, lists, state, calls, uses, attached, called, crashed>>

EmptyList == [list |-> <<>>, gone |-> FALSE, stack |-> <<>>, locked |-> FALSE,
              memory |-> Undefined, firing |-> FALSE, index |-> 0, start |-> 0, length |-> 0]

NewDeferred ==
    [done |-> [EmptyList EXCEPT !.list = <<"resolved", "failList.disable", "progressList.lock">>],
     fail |-> [EmptyList EXCEPT !.list = <<"rejected", "doneList.disable", "progressList.lock">>],
     progress |-> EmptyList]

CallbacksInit ==
    /\ \/ flags = DeferredFlags /\ lists = NewDeferred
       \/ \E f \in PlainFlags : flags = [plain |-> f] /\ lists = [plain |-> EmptyList]
    /\ state = "pending"
    /\ calls = <<>>
    /\ uses = 0
    /\ attached = [l \in DOMAIN flags |-> <<>>]
    /\ called = [l \in DOMAIN flags |-> <<>>]
    /\ crashed = FALSE

(***************************************************************************)
(* A page that has a Deferred and does nothing with it.                    *)
(***************************************************************************)
CallbacksRest == flags = DeferredFlags

-------------------------------------------------------------------------------
(***************************************************************************)
(* What happens to the variables of one list c with the flags f.           *)
(***************************************************************************)
Fires(c, f, v) ==
    [c EXCEPT !.memory = IF "memory" \in f THEN v ELSE Halted, !.firing = TRUE,
              !.index = c.start + 1, !.start = 0, !.length = Len(c.list)]

Remembers(c) == ~c.firing /\ c.memory \notin {Undefined, Halted}

IsNew(c, f, fn) == "unique" \notin f \/ fn \notin ToSet(c.list)
Longer(c, f, fn) == IF IsNew(c, f, fn) THEN Append(c.list, fn) ELSE c.list

(* A fault of add: what is added while the list is fired waits for the next time. *)
AddsForLater(c, f, fn) ==
    LET c1 == [c EXCEPT !.list = Longer(c, f, fn)]
    IN  IF ~c.gone /\ ~c.firing /\ Remembers(c)
        THEN Fires([c1 EXCEPT !.start = Len(c.list)], f, c.memory)
        ELSE IF c.gone THEN c ELSE c1

Adds(c, f, fn) ==
    LET c1 == [c EXCEPT !.list = Longer(c, f, fn)]
    IN  CASE c.gone -> c
          [] ~c.gone /\ c.firing -> [c1 EXCEPT !.length = Len(c1.list)]
          [] ~c.gone /\ Remembers(c) -> Fires([c1 EXCEPT !.start = Len(c.list)], f, c.memory)
          [] OTHER -> c1

(***************************************************************************)
(* What is left of a list without a function, wherever it was in it.       *)
(***************************************************************************)
Without(s, fn) ==
    LET kept == {i \in DOMAIN s : s[i] # fn}
        Rank(i) == Cardinality({j \in kept : j <= i})
    IN  [k \in 1..Cardinality(kept) |-> s[CHOOSE i \in kept : Rank(i) = k]]

(* A fault of remove: the loop that is under way is not told. *)
RemovesQuietly(c, fn) == [c EXCEPT !.list = Without(c.list, fn)]

Removes(c, fn) ==
    LET Shift(n) == Cardinality({i \in 1..Len(c.list) : c.list[i] = fn /\ i <= n})
        c1 == [c EXCEPT !.list = Without(c.list, fn)]
    IN  IF c.firing
        THEN [c1 EXCEPT !.length = @ - Shift(c.length), !.index = @ - Shift(c.index)]
        ELSE c1

Disabled(c) ==
    [c EXCEPT !.list = <<>>, !.gone = TRUE, !.stack = <<>>, !.locked = TRUE, !.memory = Undefined]

Locks(c) ==
    IF c.memory \in {Undefined, Halted} THEN Disabled(c)
    ELSE [c EXCEPT !.stack = <<>>, !.locked = TRUE]

Refires(c, f, v) ==
    CASE c.locked -> c
      [] ~c.locked /\ c.firing -> IF "once" \in f THEN c ELSE [c EXCEPT !.stack = Append(@, v)]
      [] ~c.locked /\ ~c.firing /\ "once" \in f /\ c.memory # Undefined -> c
      [] OTHER -> Fires(c, f, v)

(***************************************************************************)
(* The loop is over.                                                       *)
(***************************************************************************)
Ends(c, f) ==
    LET c1 == [c EXCEPT !.firing = FALSE]
    IN  CASE c.gone -> c1
          [] ~c.gone /\ "once" \in f -> IF c.memory = Halted THEN Disabled(c1)
                                        ELSE [c1 EXCEPT !.list = <<>>]
          [] ~c.gone /\ "once" \notin f /\ c.stack # <<>> ->
                Refires([c1 EXCEPT !.stack = Tail(@)], f, Head(c.stack))
          [] OTHER -> c1

-------------------------------------------------------------------------------
Loop(l) == [list |-> l, fn |-> Nothing, due |-> {}, heard |-> {}]

(***************************************************************************)
(* The loop that starts owes a call to the functions it comes to.          *)
(***************************************************************************)
Starts(l, c) == [Loop(l) EXCEPT !.due = ToSet(SubSeq(c.list, c.index, Len(c.list)))]

(***************************************************************************)
(* Whoever runs: the page, or the function at the top of the stack.        *)
(***************************************************************************)
Current == calls[Len(calls)]
Running == IF calls = <<>> THEN TRUE ELSE Current.fn \in Listener

(***************************************************************************)
(* The list l becomes c: when that starts it, its loop is the innermost.   *)
(***************************************************************************)
Becomes(l, c) ==
    /\ lists' = [lists EXCEPT ![l] = c]
    /\ calls' = IF c.firing /\ ~lists[l].firing THEN Append(calls, Starts(l, c)) ELSE calls

(***************************************************************************)
(* What a loop under way owes changes with its list.                       *)
(***************************************************************************)
Owe(l, more, less) ==
    calls' = [i \in DOMAIN calls |->
                IF calls[i].list = l THEN [calls[i] EXCEPT !.due = (@ \cup more) \ less]
                ELSE calls[i]]

Use ==
    /\ Running
    /\ uses < MaxUses
    /\ uses' = uses + 1
    /\ UNCHANGED <<flags, state, crashed, called>>

Give(l, fn) ==
    /\ Use
    /\ LET c == Adds(lists[l], flags[l], fn)
           isNew == IsNew(lists[l], flags[l], fn)
       IN  /\ attached' = [attached EXCEPT ![l] = IF isNew THEN Append(@, fn) ELSE @]
           /\ IF lists[l].firing
              THEN lists' = [lists EXCEPT ![l] = c] /\ Owe(l, IF isNew THEN {fn} ELSE {}, {})
              ELSE Becomes(l, c)

FireWith(l, v) ==
    /\ Use
    /\ Becomes(l, Refires(lists[l], flags[l], v))
    /\ UNCHANGED attached

Withdraw(l, fn) ==
    /\ Use
    /\ "plain" = l /\ ~lists[l].gone
    /\ lists' = [lists EXCEPT ![l] = Removes(@, fn)]
    /\ Owe(l, {}, {fn})
    /\ UNCHANGED attached

Disable(l) ==
    /\ Use
    /\ "plain" = l
    /\ lists' = [lists EXCEPT ![l] = Disabled(@)]
    /\ UNCHANGED <<calls, attached>>

Lock(l) ==
    /\ Use
    /\ "plain" = l
    /\ lists' = [lists EXCEPT ![l] = Locks(@)]
    /\ UNCHANGED <<calls, attached>>

(***************************************************************************)
(* Not while the list is fired: what the loop would find then is           *)
(* undefined, and it throws.                                               *)
(***************************************************************************)
Empty(l) ==
    /\ Use
    /\ "plain" = l /\ ~lists[l].firing
    /\ lists' = [lists EXCEPT ![l].list = <<>>, ![l].gone = FALSE]
    /\ UNCHANGED <<calls, attached>>

-------------------------------------------------------------------------------
(***************************************************************************)
(* One turn of the loop of `fire'.                                         *)
(***************************************************************************)
Top(i) == [calls EXCEPT ![Len(calls)] = i]

Goes(c) == ~c.gone /\ c.index <= c.length

Call ==
    /\ calls # <<>> /\ Current.fn = Nothing
    /\ LET l == Current.list
           c == lists[l]
           fn == c.list[c.index]
       IN  /\ Goes(c)
           /\ calls' = Top([Current EXCEPT !.fn = fn, !.heard = @ \cup {fn}])
           /\ called' = IF fn \in Own THEN called
                        ELSE [called EXCEPT ![l] = Append(@, <<fn, c.memory>>)]
           /\ state' = IF fn \in {"resolved", "rejected"} THEN fn ELSE state
           /\ lists' = CASE fn = "failList.disable" -> [lists EXCEPT !.fail = Disabled(@)]
                         [] fn = "doneList.disable" -> [lists EXCEPT !.done = Disabled(@)]
                         [] fn = "progressList.lock" -> [lists EXCEPT !.progress = Locks(@)]
                         [] OTHER -> lists
           /\ UNCHANGED <<flags, uses, attached, crashed>>

(***************************************************************************)
(* The function returns, and may have returned false.                      *)
(***************************************************************************)
Return(saysFalse) ==
    /\ calls # <<>> /\ Current.fn # Nothing
    /\ Current.fn \in Own => ~saysFalse
    /\ LET l == Current.list
       IN  IF saysFalse /\ "stopOnFalse" \in flags[l]
           THEN /\ lists' = [lists EXCEPT ![l].memory = Halted, ![l].index = lists[l].length + 1]
                /\ calls' = Top([Current EXCEPT !.fn = Nothing, !.due = {}])
           ELSE /\ lists' = [lists EXCEPT ![l].index = @ + 1]
                /\ calls' = Top([Current EXCEPT !.fn = Nothing])
    /\ UNCHANGED <<flags, state, uses, attached, called, crashed>>

Finish ==
    /\ calls # <<>> /\ Current.fn = Nothing
    /\ LET l == Current.list
           c == Ends(lists[l], flags[l])
       IN  /\ ~Goes(lists[l])
           /\ lists' = [lists EXCEPT ![l] = c]
           /\ calls' = IF c.firing THEN Top(Starts(l, c)) ELSE Front(calls)
    /\ UNCHANGED <<flags, state, uses, attached, called, crashed>>

(***************************************************************************)
(* The function of a user throws.  Nothing catches it: every loop under    *)
(* way is left as it is, and its list stays `firing'.                      *)
(***************************************************************************)
Throw ==
    /\ calls # <<>> /\ Current.fn \in Listener
    /\ ~crashed
    /\ crashed' = TRUE
    /\ calls' = <<>>
    /\ UNCHANGED <<flags, lists, state, uses, attached, called>>

CallbacksNext ==
    \/ \E l \in DOMAIN flags :
          \/ \E fn \in Listener : Give(l, fn) \/ Withdraw(l, fn)
          \/ \E v \in Payload : FireWith(l, v)
          \/ Disable(l) \/ Lock(l) \/ Empty(l)
    \/ Call \/ \E b \in BOOLEAN : Return(b)
    \/ Finish \/ Throw

CallbacksSpec == CallbacksInit /\ [][CallbacksNext]_callbackVars

-------------------------------------------------------------------------------
ListState ==
    [list : Seq(Function), gone : BOOLEAN, stack : Seq(Payload), locked : BOOLEAN,
     memory : Payload \cup {Undefined, Halted}, firing : BOOLEAN,
     index : Nat, start : Nat, length : Nat]

CallbacksTypeOK ==
    /\ DOMAIN flags \subseteq ListName
    /\ lists \in [DOMAIN flags -> ListState]
    /\ state \in {"pending", "resolved", "rejected"}
    /\ \A i \in DOMAIN calls : calls[i].list \in DOMAIN flags
    /\ uses \in 0..MaxUses

(***************************************************************************)
(* A Deferred is resolved or rejected, once: never do functions of both    *)
(* sides run; those of its side run once each, in the order they were      *)
(* attached (before or after), with what it was settled with; those of the *)
(* other side do not.  (A function that throws takes with it those that    *)
(* were to come, and all that are attached later.)                         *)
(***************************************************************************)
Side(l, s) ==
    /\ called[l] # <<>> => state = s
    /\ calls = <<>> /\ state = s /\ ~crashed =>
          /\ Len(called[l]) = Len(attached[l])
          /\ \A i \in DOMAIN called[l] : called[l][i] = <<attached[l][i], lists[l].memory>>

DeferredSettlesOnce ==
    "done" \in DOMAIN flags => Side("done", "resolved") /\ Side("fail", "rejected")

(***************************************************************************)
(* A loop that has ended has called every function that was in the list    *)
(* when it came there, or was added during it, and was not removed before  *)
(* its turn, whatever the functions did to the list.                       *)
(***************************************************************************)
NobodyIsSkipped ==
    \A i \in DOMAIN calls :
        LET c == lists[calls[i].list]
        IN  calls[i].fn = Nothing /\ ~c.gone /\ c.index > c.length =>
               calls[i].due \subseteq calls[i].heard
(***************************************************************************)
(* Functions may use the list that is calling them, and whoever was        *)
(* promised a call gets it, once.                                          *)
(***************************************************************************)
CalledAsPromised == CallbacksTypeOK /\ DeferredSettlesOnce /\ NobodyIsSkipped
===============================================================================
