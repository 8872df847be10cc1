---------------------------------- MODULE Ajax ----------------------------------
(***************************************************************************)
(* jQuery.ajax of the jQuery 1.7 in require.js: a request from the call to *)
(* the last of its callbacks, over an XMLHttpRequest or a script element.  *)
(*                                                                         *)
(* Whatever the user gives to it (beforeSend, success, error, complete and *)
(* the handlers of the global events) may abort a request, send another    *)
(* one or throw.  There is one thread, and `frames' is its stack: the      *)
(* calls of `ajax' and of `done' that have not returned.                   *)
(***************************************************************************)
EXTENDS Integers, Sequences, SequencesExt, FiniteSets

CONSTANTS
    Request,
    Options,      \* sets of options to choose a request's from
    AbortPoints   \* how far a request is when its handlers may abort it

(***************************************************************************)
(* by: the transport ("xhr", "script", "none"); async, global and timeout  *)
(* as in the settings; jsonp: the answer is a script that calls a          *)
(* function; refuses: beforeSend returns false.  A handler of ajaxStart    *)
(* has no request to abort, and no code of the user runs in `send'; of     *)
(* ajaxSend it would have one, and `done' would run twice: nothing in the  *)
(* console does that.                                                      *)
(***************************************************************************)
ASSUME AjaxAssumption ==
    /\ \A o \in Options :
          /\ DOMAIN o = {"by", "async", "global", "timeout", "jsonp", "refuses"}
          /\ {o.async, o.global, o.timeout, o.jsonp, o.refuses} \subseteq BOOLEAN
          /\ o.by \in {"xhr", "script", "none"} /\ (o.jsonp => o.by = "script")
    /\ AbortPoints \cap {"ajaxStart", "ajaxSend", "send"} = {}

VARIABLES
    options,      \* of each request
    xhr,          \* of each request the variables of `ajax'
    wire,         \* of each request, what the browser does about it
    active,       \* jQuery.active
    frames,
    heard,        \* (history) what each request has called, in order
    broken        \* (history) a callback has thrown

ajaxVars == <<options, xhr, wire, active, frames, heard, broken>>

(***************************************************************************)
(* window: the function of a JSONP request is on the window; container:    *)
(* it has been called.                                                     *)
(***************************************************************************)
New == [state |-> 0, called |-> FALSE, transport |-> FALSE, timer |-> FALSE,
        fireGlobals |-> FALSE, installed |-> FALSE, settled |-> FALSE,
        completed |-> FALSE, window |-> FALSE, container |-> FALSE]

AjaxInit ==
    /\ options \in [Request -> Options]
    /\ xhr = [r \in Request |-> New]
    /\ wire = [r \in Request |-> "idle"]
    /\ active = 0
    /\ frames = <<>>
    /\ heard = [r \in Request |-> <<>>]
    /\ broken = FALSE

AjaxRests == options = [r \in Request |-> CHOOSE o \in Options : TRUE]

Frame(r, at, ok) == [r |-> r, at |-> at, ok |-> ok]
Innermost == frames[Len(frames)]
At(place) == frames # <<>> /\ Innermost.at = place
Moves(place) == [frames EXCEPT ![Len(frames)].at = place]
Replaced(f) == Append(Front(frames), f)

(***************************************************************************)
(* Where code of the user runs.  A callback of the request is there only   *)
(* once the callbacks are installed, and its list is fired only once.      *)
(***************************************************************************)
UserCode ==
    IF frames = <<>> THEN TRUE
    ELSE LET f == Innermost
         IN  CASE f.at = "settle" -> xhr[f.r].installed /\ ~xhr[f.r].settled
               [] f.at = "complete" -> xhr[f.r].installed /\ ~xhr[f.r].completed
               [] f.at = "send" -> FALSE
               [] OTHER -> TRUE

-------------------------------------------------------------------------------
(***************************************************************************)
(* done(): the request r is over, well or not.  Below it on the stack is   *)
(* whoever called it.                                                      *)
(***************************************************************************)
Over(x) == [x EXCEPT !.state = 2, !.timer = FALSE, !.transport = FALSE]

(* A fault of done: it is not called once only. *)
DoneTwice(r, ok, below) ==
    xhr' = [xhr EXCEPT ![r] = Over(@)] /\ frames' = Append(below, Frame(r, "settle", ok))

Done(r, ok, below) ==
    IF xhr[r].state = 2
    THEN xhr' = xhr /\ frames' = below
    ELSE xhr' = [xhr EXCEPT ![r] = Over(@)] /\ frames' = Append(below, Frame(r, "settle", ok))

(***************************************************************************)
(* What the transport forgets when it is aborted; the script of a JSONP    *)
(* request may run all the same.                                           *)
(***************************************************************************)
Dropped(r) ==
    IF xhr[r].transport /\ wire[r] = "open" THEN [wire EXCEPT ![r] = "dropped"] ELSE wire

Abort(r) ==
    /\ UserCode
    /\ xhr[r].called
    /\ \A i \in DOMAIN frames : frames[i].r = r => frames[i].at \in AbortPoints
    /\ wire' = Dropped(r)
    /\ Done(r, FALSE, frames)
    /\ UNCHANGED <<options, active, heard, broken>>

(***************************************************************************)
(* The call of jQuery.ajax, up to the first code of the user.  A request   *)
(* to another server by a script has no global events; a JSONP request     *)
(* puts its function, with a name of its own, on the window.               *)
(***************************************************************************)
Global(o) == o.global /\ o.by # "script"

Counts(o) == IF Global(o) THEN active + 1 ELSE active

Request_(r) ==
    /\ UserCode
    /\ ~xhr[r].called
    /\ LET o == options[r]
       IN  /\ xhr' = [xhr EXCEPT ![r].called = TRUE, ![r].fireGlobals = Global(o),
                                 ![r].window = o.jsonp]
           /\ active' = Counts(o)
           /\ frames' = Append(frames, Frame(r, IF Global(o) /\ active = 0 THEN "ajaxStart"
                                                ELSE "beforeSend", TRUE))
    /\ UNCHANGED <<options, wire, heard, broken>>

AjaxStart ==
    /\ At("ajaxStart")
    /\ frames' = Moves("beforeSend")
    /\ UNCHANGED <<options, xhr, wire, active, heard, broken>>

(***************************************************************************)
(* beforeSend returns.  Only then are the callbacks of the settings        *)
(* installed.                                                              *)
(***************************************************************************)
BeforeSend ==
    /\ At("beforeSend")
    /\ LET r == Innermost.r
           o == options[r]
       IN  IF o.refuses \/ xhr[r].state = 2
           THEN Done(r, FALSE, Front(frames))
           ELSE IF o.by = "none"
           THEN /\ xhr' = [xhr EXCEPT ![r] = [Over(@) EXCEPT !.installed = TRUE]]
                /\ frames' = Replaced(Frame(r, "settle", FALSE))
           ELSE /\ xhr' = [xhr EXCEPT ![r].installed = TRUE, ![r].transport = TRUE]
                /\ frames' = Moves(IF xhr[r].fireGlobals THEN "ajaxSend" ELSE "send")
    /\ UNCHANGED <<options, wire, active, heard, broken>>

AjaxSend ==
    /\ At("ajaxSend")
    /\ frames' = Moves("send")
    /\ UNCHANGED <<options, xhr, wire, active, heard, broken>>

(***************************************************************************)
(* transport.send.  It throws when the request was aborted by a handler of *)
(* ajaxSend, since `done' has taken the transport away, and may throw for  *)
(* reasons of the browser; a request that is not asynchronous is answered  *)
(* on the spot.                                                            *)
(***************************************************************************)
Send ==
    /\ At("send")
    /\ LET r == Innermost.r
           o == options[r]
           sent == [xhr[r] EXCEPT !.state = 1, !.timer = o.async /\ o.timeout]
           fails == xhr' = [xhr EXCEPT ![r] = Over(sent)]
                    /\ frames' = Replaced(Frame(r, "settle", FALSE)) /\ UNCHANGED wire
       IN  \/ fails /\ (~xhr[r].transport \/ o.by = "xhr")
           \/ /\ xhr[r].transport /\ o.by = "xhr" /\ ~o.async
              /\ xhr' = [xhr EXCEPT ![r] = Over(sent)]
              /\ \E ok \in BOOLEAN : frames' = Replaced(Frame(r, "settle", ok))
              /\ UNCHANGED wire
           \/ /\ xhr[r].transport /\ (o.async \/ o.by = "script")
              /\ xhr' = [xhr EXCEPT ![r] = sent]
              /\ wire' = [wire EXCEPT ![r] = "open"]
              /\ frames' = Front(frames)
    /\ UNCHANGED <<options, active, heard, broken>>

-------------------------------------------------------------------------------
(***************************************************************************)
(* What the browser does when no code runs.                                *)
(*                                                                         *)
(* The answer of a request by XMLHttpRequest: with a status that is a      *)
(* success, and can be converted, or not.                                  *)
(***************************************************************************)
Answer(r) ==
    /\ frames = <<>>
    /\ wire[r] = "open" /\ options[r].by = "xhr"
    /\ wire' = [wire EXCEPT ![r] = "over"]
    /\ \E ok \in BOOLEAN : Done(r, ok, frames)
    /\ UNCHANGED <<options, active, heard, broken>>

(***************************************************************************)
(* A script comes.  That of a JSONP request calls its function, when that  *)
(* is there; if it was not called the conversion fails.  A script that     *)
(* does not come tells nobody.                                             *)
(***************************************************************************)
ScriptComes(r) ==
    /\ frames = <<>>
    /\ wire[r] \in {"open", "dropped"} /\ options[r].by = "script"
    /\ wire' = [wire EXCEPT ![r] = "over"]
    /\ \E calls \in {xhr[r].window, FALSE} :
          IF wire[r] = "dropped" \/ xhr[r].state = 2
          THEN UNCHANGED <<xhr, frames>>
          ELSE LET ok == options[r].jsonp => calls
               IN  /\ xhr' = [xhr EXCEPT ![r] = [Over(@) EXCEPT !.container = calls]]
                   /\ frames' = Append(frames, Frame(r, "settle", ok))
    /\ UNCHANGED <<options, active, heard, broken>>

ScriptFails(r) ==
    /\ frames = <<>>
    /\ wire[r] \in {"open", "dropped"} /\ options[r].by = "script"
    /\ wire' = [wire EXCEPT ![r] = "over"]
    /\ UNCHANGED <<options, xhr, active, frames, heard, broken>>

Timeout(r) ==
    /\ frames = <<>>
    /\ xhr[r].timer
    /\ wire' = Dropped(r)
    /\ Done(r, FALSE, frames)
    /\ UNCHANGED <<options, active, heard, broken>>

-------------------------------------------------------------------------------
(***************************************************************************)
(* The rest of done(), a callback or an event at a time.  The first to     *)
(* hear, of a JSONP request, is its own clean-up.                          *)
(***************************************************************************)
Settle ==
    /\ At("settle")
    /\ LET r == Innermost.r
       IN  /\ xhr' = [xhr EXCEPT ![r].settled = TRUE, ![r].window = FALSE]
           /\ heard' = IF xhr[r].installed /\ ~xhr[r].settled
                       THEN [heard EXCEPT ![r] = Append(@, IF Innermost.ok THEN "success" ELSE "error")]
                       ELSE heard
           /\ frames' = Moves(IF xhr[r].fireGlobals THEN "ajaxSuccess" ELSE "complete")
    /\ UNCHANGED <<options, wire, active, broken>>

AjaxSuccess ==
    /\ At("ajaxSuccess")
    /\ frames' = Moves("complete")
    /\ UNCHANGED <<options, xhr, wire, active, heard, broken>>

Complete ==
    /\ At("complete")
    /\ LET r == Innermost.r
       IN  /\ xhr' = [xhr EXCEPT ![r].completed = TRUE]
           /\ heard' = IF xhr[r].installed /\ ~xhr[r].completed
                       THEN [heard EXCEPT ![r] = Append(@, "complete")] ELSE heard
           /\ frames' = IF xhr[r].fireGlobals THEN Moves("ajaxComplete") ELSE Front(frames)
    /\ UNCHANGED <<options, wire, active, broken>>

AjaxComplete ==
    /\ At("ajaxComplete")
    /\ active' = active - 1
    /\ frames' = IF active = 1 THEN Moves("ajaxStop") ELSE Front(frames)
    /\ UNCHANGED <<options, xhr, wire, heard, broken>>

AjaxStop ==
    /\ At("ajaxStop")
    /\ frames' = Front(frames)
    /\ UNCHANGED <<options, xhr, wire, active, heard, broken>>

(***************************************************************************)
(* Code of the user throws: nothing on the stack catches it (`ajax' throws *)
(* it again).  A callback that throws has been called.                     *)
(***************************************************************************)
AjaxThrow ==
    /\ UserCode /\ frames # <<>>
    /\ ~broken
    /\ broken' = TRUE
    /\ LET f == Innermost
       IN  xhr' = [xhr EXCEPT ![f.r].settled = @ \/ f.at = "settle",
                              ![f.r].window = @ /\ f.at # "settle",
                              ![f.r].completed = @ \/ f.at = "complete"]
    /\ frames' = <<>>
    /\ UNCHANGED <<options, wire, active, heard>>

AjaxStep ==
    \/ AjaxStart \/ BeforeSend \/ AjaxSend \/ Send
    \/ Settle \/ AjaxSuccess \/ Complete \/ AjaxComplete \/ AjaxStop

AjaxNext ==
    \/ \E r \in Request : \/ Request_(r) \/ Abort(r)
                          \/ Answer(r) \/ ScriptComes(r) \/ ScriptFails(r) \/ Timeout(r)
    \/ AjaxStep
    \/ AjaxThrow

AjaxSpec == AjaxInit /\ [][AjaxNext]_ajaxVars

-------------------------------------------------------------------------------
AjaxTypeOK ==
    /\ options \in [Request -> Options]
    /\ xhr \in [Request -> [state : 0..2, called : BOOLEAN, transport : BOOLEAN, timer : BOOLEAN,
                            fireGlobals : BOOLEAN, installed : BOOLEAN, settled : BOOLEAN,
                            completed : BOOLEAN, window : BOOLEAN, container : BOOLEAN]]
    /\ wire \in [Request -> {"idle", "open", "dropped", "over"}]
    /\ active \in Int
    /\ \A i \in DOMAIN frames : frames[i].r \in Request

(***************************************************************************)
(* Whatever happens to a request (an answer, an answer that cannot be      *)
(* read, a timeout, an abort, no transport, two of these), its callbacks   *)
(* hear of it once: success or error, and then complete; and its function  *)
(* does not stay on the window.  After a callback has thrown, at most that.*)
(***************************************************************************)
Verdicts == {<<"success", "complete">>, <<"error", "complete">>}

AnsweredOnce ==
    \A r \in Request :
        /\ \E v \in Verdicts : IsPrefix(heard[r], v)
        /\ frames = <<>> /\ ~broken /\ xhr[r].state = 2 =>
              /\ xhr[r].installed => heard[r] \in Verdicts
              /\ ~xhr[r].window

(***************************************************************************)
(* jQuery.active, which decides when ajaxStart and ajaxStop are triggered, *)
(* is the number of the requests with global events that are under way.    *)
(* (Not after a callback has thrown: the counter then stays too high.)     *)
(***************************************************************************)
UnderWay == {r \in Request : xhr[r].fireGlobals /\ xhr[r].state # 2}

ActiveIsCounted == frames = <<>> /\ ~broken => active = Cardinality(UnderWay)

(***************************************************************************)
(* What a request's callbacks hear and what jQuery counts agree with what  *)
(* has become of it.                                                       *)
(***************************************************************************)
RequestsAreTold == AjaxTypeOK /\ AnsweredOnce /\ ActiveIsCounted
===============================================================================
