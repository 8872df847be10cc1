------------------------------ MODULE SammyContext ------------------------------
(***************************************************************************)
(* Two parts of Sammy (lib/jquery.sammy.js) below the router that the      *)
(* other modules use: how an application notices that the address has      *)
(* changed, by the browser's event or by looking every 50 ms, and the      *)
(* queue of a RenderContext, that loads, renders and swaps templates one   *)
(* after the other although their answers come when they like.             *)
(***************************************************************************)
EXTENDS Naturals, Sequences, SequencesExt, FiniteSets

CONSTANTS
    Hashes,        \* the addresses
    NoHash,        \* the address without a hash, which is the empty string
    HomeHash,      \* where the page goes when it starts without a hash
    RedirectOf,    \* by address, where its route redirects to, at once or later
    MaxHashMoves,  \* bound on the changes of the address by the user
    MaxHashTimers, \* bound on the timeouts of the poll that run at once
    RenderContexts,\* the RenderContexts of a page
    Programs,      \* what is chained on one: at once, and later
    TemplateOf,    \* by location, what the server sends
    EmptyTemplate, \* a template of no characters
    EngineOf,      \* by location, the engine its extension names
    NoEngine,      \* next_engine = false
    NoValue        \* undefined

(* No route of the console redirects to its own address. *)
ASSUME SammyAssumption ==
    /\ NoHash \in Hashes /\ HomeHash \in Hashes \ {NoHash} /\ NoValue \notin Hashes
    /\ DOMAIN RedirectOf \subseteq Hashes
    /\ \A h \in DOMAIN RedirectOf : RedirectOf[h] \in Hashes \ {h}
    /\ EmptyTemplate # NoValue

(***************************************************************************)
(* `load' is given a location that the server has, and nothing but a       *)
(* `load' asks for a callback of its own; a swap gives no value.           *)
(***************************************************************************)
IsChained(ops) ==
    /\ ops \in Seq(ToSet(ops))
    /\ \A op \in ToSet(ops) :
         /\ op.do = "load" => op.at \in DOMAIN TemplateOf
         /\ op.do # "load" => ~op.then
         /\ op.do = "swap" => op.value = NoValue

ASSUME ProgramsAssumption ==
    \A p \in Programs : IsChained(p.first) /\ IsChained(p.later)

VARIABLES
    address_,      \* window.location and what the browser will tell of it
    hashProxy,     \* the HashLocationProxy
    application,   \* running, bound to the proxy, last_location
    routed         \* (not in the code) the route that ran last, the moves of the user,
                   \* the routes that may still redirect, whether the user has left and
                   \* whether a change of the address could be missed

addressVars == <<address_, hashProxy, application, routed>>

VARIABLES
    renders,       \* the RenderContexts
    renderTimers,  \* the timeouts of 13 ms, in order
    renderAsks,    \* the requests, by their context and place
    templateCache, \* by location, what templateCache returns
    swapped,       \* what the page's element holds
    renderSeen     \* (not in the code) by context, what was put into its queue, how much of
                   \* it has begun and ended, and whether that was out of order

renderVars == <<renders, renderTimers, renderAsks, templateCache, swapped, renderSeen>>

-------------------------------------------------------------------------------
(***************************************************************************)
(* The constructor of the proxy polls at once; the application runs when   *)
(* the document is ready.                                                  *)
(***************************************************************************)
NewApplication == [running |-> FALSE, bound |-> FALSE, last |-> NoValue]

AddressInit ==
    /\ \E native \in BOOLEAN, hash \in Hashes :
         /\ address_ = [native |-> native, hash |-> hash, events |-> 0, timers |-> 1]
         /\ hashProxy = [native |-> FALSE, interval |-> TRUE, polled |-> hash]
    /\ application = NewApplication
    /\ routed = [shown |-> NoValue, moves |-> 0, late |-> {}, left |-> FALSE,
                 missed |-> FALSE]

AddressRests == ~address_.native /\ address_.hash = HomeHash

Moved_(window, hash) ==
    IF hash = window.hash THEN window
    ELSE [window EXCEPT !.hash = hash, !.events = IF window.native THEN @ + 1 ELSE @]

(***************************************************************************)
(* The poll has not seen the address yet, though its route has run.        *)
(***************************************************************************)
Unpolled(hash) == ~address_.native /\ hashProxy.polled # hash

(***************************************************************************)
(* _checkLocation runs the route of the address unless it is the last.  A  *)
(* route may redirect at once, or when its data comes.                     *)
(***************************************************************************)
CheckLocation(window, last, late) ==
    IF last = window.hash
    THEN /\ address_' = window
         /\ application' = [application EXCEPT !.running = TRUE, !.bound = TRUE, !.last = last]
         /\ routed' = [routed EXCEPT !.late = late]
    ELSE /\ application' = [application EXCEPT !.running = TRUE, !.bound = TRUE, !.last = window.hash]
         /\ \/ /\ address_' = window
               /\ routed' = [routed EXCEPT !.shown = window.hash,
                                           !.late = late \cup ({window.hash} \cap DOMAIN RedirectOf)]
            \/ /\ window.hash \in DOMAIN RedirectOf
               /\ address_' = Moved_(window, RedirectOf[window.hash])
               /\ routed' = [routed EXCEPT !.shown = window.hash, !.late = late,
                                           !.missed = @ \/ Unpolled(window.hash)]

(***************************************************************************)
(* app.run(location.hash): the handler of `run' gives an empty address the *)
(* dashboard's.  The proxy is bound after the first route has run.         *)
(***************************************************************************)
RunApplication ==
    /\ ~application.running /\ ~routed.left
    /\ CheckLocation(Moved_(address_, IF address_.hash = NoHash THEN HomeHash ELSE address_.hash),
                     NoValue, {})
    /\ UNCHANGED hashProxy

(***************************************************************************)
(* The user comes back to where a redirect came from before the browser    *)
(* has told of the redirect.                                               *)
(***************************************************************************)
ReturnsTo(hash) == application.last = hash /\ routed.shown # hash

UserMoves(hash) ==
    /\ routed.moves < MaxHashMoves /\ hash # address_.hash
    /\ address_' = Moved_(address_, hash)
    /\ routed' = [routed EXCEPT !.moves = @ + 1,
                                !.missed = @ \/ Unpolled(routed.shown) \/ ReturnsTo(hash)]
    /\ UNCHANGED <<hashProxy, application>>

(***************************************************************************)
(* hashCheck, every 50 ms.  The empty address is as good as none before.   *)
(***************************************************************************)
HashCheck ==
    /\ hashProxy.interval /\ address_.timers < MaxHashTimers
    /\ hashProxy.polled = NoHash \/ hashProxy.polled # address_.hash
    /\ address_' = [address_ EXCEPT !.timers = @ + 1]
    /\ hashProxy' = [hashProxy EXCEPT !.polled = address_.hash]
    /\ UNCHANGED <<application, routed>>

(* A fault of bind: the event that the poll triggers passes for the browser's. *)
AnyIsNative(native) == TRUE
IsNative(native) == native

(***************************************************************************)
(* The handler of hashchange, once it is bound.                            *)
(***************************************************************************)
HashChange(native, window) ==
    IF ~application.bound
    THEN /\ address_' = window
         /\ UNCHANGED <<hashProxy, application, routed>>
    ELSE /\ hashProxy' = IF ~hashProxy.native /\ IsNative(native)
                         THEN [hashProxy EXCEPT !.native = TRUE, !.interval = FALSE]
                         ELSE hashProxy
         /\ CheckLocation(window, application.last, routed.late)

BrowserTells ==
    /\ address_.events > 0
    /\ HashChange(TRUE, [address_ EXCEPT !.events = @ - 1])

PollTells ==
    /\ address_.timers > 0
    /\ HashChange(FALSE, [address_ EXCEPT !.timers = @ - 1])

(* A fault of redirect: where it goes counts as seen. *)
LastIsTarget(from, to) == to
LastIsOwn(from, to) == from

(***************************************************************************)
(* redirect, when the data of a route has come: the user may be elsewhere. *)
(***************************************************************************)
RedirectLate(from) ==
    /\ from \in routed.late
    /\ LET to == RedirectOf[from]
           last == LastIsOwn(from, to)
       IN  IF address_.hash = to /\ application.running
           THEN CheckLocation(address_, last, routed.late \ {from})
           ELSE /\ address_' = Moved_(address_, to)
                /\ application' = [application EXCEPT !.last = last]
                /\ routed' = [routed EXCEPT !.late = @ \ {from},
                                            !.missed = @ \/ Unpolled(routed.shown)]
    /\ UNCHANGED hashProxy

(***************************************************************************)
(* beforeunload, also of a link that only downloads: the page stays, but   *)
(* nothing is bound any more.                                              *)
(***************************************************************************)
Unload ==
    /\ application.running
    /\ application' = [application EXCEPT !.running = FALSE, !.bound = FALSE]
    /\ hashProxy' = [hashProxy EXCEPT !.interval = FALSE]
    /\ routed' = [routed EXCEPT !.left = TRUE]
    /\ UNCHANGED address_

AddressNext ==
    \/ RunApplication \/ HashCheck \/ BrowserTells \/ PollTells \/ Unload
    \/ \E hash \in Hashes : UserMoves(hash) \/ RedirectLate(hash)

AddressSpec == AddressInit /\ [][AddressNext]_addressVars

(***************************************************************************)
(* Whatever the browser and however the events of the browser, the poll    *)
(* and the redirects cross: when none of them is left to come, the route   *)
(* that ran last is the one of the address.  Two things are excepted:      *)
(* without the browser's event, an address that was left before the poll   *)
(* saw it though a timeout for another had its route run; and a user who   *)
(* is back where a redirect came from before its address was told.         *)
(***************************************************************************)
NothingToCome ==
    /\ address_.events = 0 /\ address_.timers = 0
    /\ hashProxy.interval => address_.hash # NoHash /\ hashProxy.polled = address_.hash

AddressIsRouted ==
    application.running /\ ~routed.missed /\ NothingToCome => routed.shown = address_.hash

-------------------------------------------------------------------------------
(***************************************************************************)
(* What can be put into the queue of a RenderContext.  A function that a   *)
(* page gives to `then' returns a value, waits for an answer (`send'), or  *)
(* only says wait(), as the example above wait() does, or throws.          *)
(***************************************************************************)
Op(do) == [do |-> do, at |-> NoHash, cache |-> TRUE, then |-> FALSE, value |-> NoValue]

LoadOp(at, cache, then) == [Op("load") EXCEPT !.at = at, !.cache = cache, !.then = then]
InterpolateOp(data, at) == [Op("interpolate") EXCEPT !.at = at, !.value = data]
EachOp(data, at) == [Op("each") EXCEPT !.at = at, !.value = data]
CallOp(value) == [Op("call") EXCEPT !.value = value]
SendOp(value) == [Op("send") EXCEPT !.value = value]
WaitOp(value) == [Op("wait") EXCEPT !.value = value]
SwapOps == <<Op("swap"), CallOp(NoValue)>>

RenderOps(at, data) == <<LoadOp(at, TRUE, FALSE), InterpolateOp(data, at)>>
PartialOps(at, data) == RenderOps(at, data) \o SwapOps
RenderEachOps(at, data) == <<LoadOp(at, TRUE, FALSE), EachOp(data, at)>>

NewContext == [waiting |-> FALSE, callbacks |-> <<>>, content |-> NoValue, previous |-> NoValue,
               engine |-> NoEngine]

SeenOf(p) == [put |-> <<>>, first |-> p.first, later |-> p.later, begun |-> <<>>, ended |-> {},
              broken |-> FALSE, careless |-> FALSE]

RendersInit ==
    /\ renders = [c \in RenderContexts |-> NewContext]
    /\ renderTimers = <<>>
    /\ renderAsks = {}
    /\ templateCache = [l \in DOMAIN TemplateOf |-> NoValue]
    /\ swapped = [by |-> NoValue, at |-> 0, content |-> NoValue]
    /\ renderSeen \in [RenderContexts -> {SeenOf(p) : p \in Programs}]

RendersRest == \A c \in RenderContexts : renderSeen[c] = SeenOf(CHOOSE p \in Programs : TRUE)

(***************************************************************************)
(* then(): into the queue, or to a timeout of its own if nothing waits.    *)
(***************************************************************************)
Places(c, ops) == [k \in 1..Len(ops) |-> Len(renderSeen[c].put) + k]

Chain(c, ops) ==
    LET places == Places(c, ops)
    IN  /\ ops # <<>>
        /\ IF renders[c].waiting
           THEN /\ renders' = [renders EXCEPT ![c].callbacks = @ \o places]
                /\ UNCHANGED renderTimers
           ELSE /\ renders' = [renders EXCEPT ![c].waiting = TRUE, ![c].callbacks = @ \o Tail(places)]
                /\ renderTimers' = Append(renderTimers, <<c, Head(places)>>)
        /\ UNCHANGED <<renderAsks, templateCache, swapped>>

ChainFirst(c) ==
    /\ Chain(c, renderSeen[c].first)
    /\ renderSeen' = [renderSeen EXCEPT ![c].put = renderSeen[c].first, ![c].first = <<>>]

ChainLater(c) ==
    /\ renderSeen[c].first = <<>>
    /\ Chain(c, renderSeen[c].later)
    /\ renderSeen' = [renderSeen EXCEPT ![c].put = @ \o renderSeen[c].later, ![c].later = <<>>]

(***************************************************************************)
(* next(): a value that is defined becomes the content, and the first in   *)
(* the queue gets its timeout.                                             *)
(***************************************************************************)
Given(r, value) ==
    IF value = NoValue THEN r ELSE [r EXCEPT !.previous = r.content, !.content = value]

(* A fault of next: the callback put last is taken. *)
TakenLast(callbacks) == <<Last(callbacks), Front(callbacks)>>
Taken_(callbacks) == <<Head(callbacks), Tail(callbacks)>>

NextOf(c, r, value) ==
    LET given == [Given(r, value) EXCEPT !.waiting = FALSE]
    IN  IF given.callbacks = <<>>
        THEN [context |-> given, timers |-> <<>>]
        ELSE [context |-> [given EXCEPT !.waiting = TRUE, !.callbacks = Taken_(@)[2]],
              timers |-> << <<c, Taken_(given.callbacks)[1]>> >>]

GoesNext(c, r, value, timers) ==
    LET n == NextOf(c, r, value)
    IN  renders' = [renders EXCEPT ![c] = n.context] /\ renderTimers' = timers \o n.timers

(***************************************************************************)
(* The engine is the one of the location loaded last, which `interpolate'  *)
(* forgets and `renderEach' does not; data that is not given is the        *)
(* content before.                                                         *)
(***************************************************************************)
EngineFor(engine, at) == IF engine # NoEngine THEN engine ELSE EngineOf[at]

Rendered_(r, op) ==
    LET engine == EngineFor(r.engine, op.at)
        before == IF r.previous = EmptyTemplate THEN NoValue ELSE r.previous
    IN  <<engine, r.content, IF op.value = NoValue THEN before ELSE op.value>>

AfterRender(r, op) == IF op.do = "interpolate" THEN [r EXCEPT !.engine = NoEngine] ELSE r

(* A fault of load: the queue goes on while the template is on its way. *)
GoesOnWhile(do) == do \in {"load", "wait"}
GoesOn(do) == do = "wait"

Begins(c, i, over) ==
    /\ renderTimers # <<>> /\ Head(renderTimers) = <<c, i>>
    /\ LET seen == renderSeen[c]
       IN  renderSeen' = [renderSeen EXCEPT
             ![c].begun = Append(@, i),
             ![c].ended = IF over THEN @ \cup {i} ELSE @,
             ![c].broken = @ \/ seen.put[i].do = "throw",
             ![c].careless = @ \/ seen.put[i].do = "wait",
             ![c].put = IF seen.put[i].then THEN Append(@, CallOp(NoValue)) ELSE @]

(***************************************************************************)
(* load(): its callback goes to the end of the queue; an empty template    *)
(* in the cache is none.                                                   *)
(***************************************************************************)
Load(c, i) ==
    LET op == renderSeen[c].put[i]
        own == IF op.then THEN <<Len(renderSeen[c].put) + 1>> ELSE <<>>
        r == [renders[c] EXCEPT !.engine = EngineOf[op.at], !.callbacks = @ \o own]
        cached == templateCache[op.at]
        hit == op.cache /\ cached \notin {NoValue, EmptyTemplate}
    IN  /\ op.do = "load" /\ Begins(c, i, hit)
        /\ IF hit
           THEN /\ GoesNext(c, r, cached, Tail(renderTimers))
                /\ UNCHANGED renderAsks
           ELSE /\ renderAsks' = renderAsks \cup {<<c, i>>}
                /\ IF GoesOn("load") THEN GoesNext(c, r, NoValue, Tail(renderTimers))
                   ELSE /\ renders' = [renders EXCEPT ![c] = r]
                        /\ renderTimers' = Tail(renderTimers)
        /\ UNCHANGED <<templateCache, swapped>>

Render(c, i) ==
    LET op == renderSeen[c].put[i]
    IN  /\ op.do \in {"interpolate", "each"} /\ Begins(c, i, TRUE)
        /\ GoesNext(c, AfterRender(renders[c], op), Rendered_(renders[c], op), Tail(renderTimers))
        /\ UNCHANGED <<renderAsks, templateCache, swapped>>

Swap(c, i) ==
    /\ Begins(c, i, TRUE) /\ renderSeen[c].put[i].do = "swap"
    /\ swapped' = [by |-> c, at |-> i, content |-> renders[c].content]
    /\ GoesNext(c, renders[c], NoValue, Tail(renderTimers))
    /\ UNCHANGED <<renderAsks, templateCache>>

(***************************************************************************)
(* The page's own functions.                                               *)
(***************************************************************************)
CallOwn(c, i) ==
    LET op == renderSeen[c].put[i]
    IN  /\ op.do \in {"call", "throw", "send", "wait"} /\ Begins(c, i, op.do = "call")
        /\ IF op.do = "call" \/ GoesOn(op.do)
           THEN GoesNext(c, renders[c], IF op.do = "call" THEN op.value ELSE NoValue, Tail(renderTimers))
           ELSE UNCHANGED renders /\ renderTimers' = Tail(renderTimers)
        /\ renderAsks' = IF op.do \in {"send", "wait"} THEN renderAsks \cup {<<c, i>>} ELSE renderAsks
        /\ UNCHANGED <<templateCache, swapped>>

(***************************************************************************)
(* The answer of a request gives the content and goes on; after a failure  *)
(* nobody calls next.                                                      *)
(***************************************************************************)
CachedAt(key, value) ==
    IF value = NoValue THEN templateCache ELSE [templateCache EXCEPT ![key] = value]

RenderAnswer(c, i) ==
    LET op == renderSeen[c].put[i]
        data == IF op.do = "load" THEN TemplateOf[op.at] ELSE op.value
    IN  /\ <<c, i>> \in renderAsks
        /\ renderAsks' = renderAsks \ {<<c, i>>}
        /\ templateCache' = IF op.do = "load" /\ op.cache THEN CachedAt(op.at, data) ELSE templateCache
        /\ GoesNext(c, renders[c], data, renderTimers)
        /\ renderSeen' = [renderSeen EXCEPT ![c].ended = @ \cup {i}]
        /\ UNCHANGED swapped

RenderFails(c, i) ==
    /\ <<c, i>> \in renderAsks
    /\ renderAsks' = renderAsks \ {<<c, i>>}
    /\ renderSeen' = [renderSeen EXCEPT ![c].broken = TRUE]
    /\ UNCHANGED <<renders, renderTimers, templateCache, swapped>>

RendersNext ==
    \E c \in RenderContexts :
        \/ ChainFirst(c) \/ ChainLater(c)
        \/ \E i \in 1..Len(renderSeen[c].put) :
             \/ Load(c, i) \/ Render(c, i) \/ Swap(c, i) \/ CallOwn(c, i)
             \/ RenderAnswer(c, i) \/ RenderFails(c, i)

RendersSpec == RendersInit /\ [][RendersNext]_renderVars

(***************************************************************************)
(* `then() puts the callback into a queue to be executed once the previous *)
(* callback is complete': what was put begins in that order, one when the  *)
(* one before has ended, none is forgotten, and the queue stands still     *)
(* only with nothing left or with a request to come, unless a template     *)
(* failed to load, a function threw, or one waited without saying so.      *)
(***************************************************************************)
QueueIsInOrder(c) ==
    LET seen == renderSeen[c]
        begun == Len(seen.begun)
        timers == {i \in DOMAIN renderTimers : renderTimers[i][1] = c}
        due == Cardinality(timers)
    IN  ~seen.careless =>
          /\ \A k \in 1..begun : seen.begun[k] = k /\ (k < begun => k \in seen.ended)
          /\ due <= 1 /\ \A i \in timers : renderTimers[i][2] = begun + 1
          /\ renders[c].callbacks
               = [k \in 1..(Len(seen.put) - begun - due) |-> begun + due + k]
          /\ ~seen.broken /\ timers = {} /\ (\A i \in 1..begun : <<c, i>> \notin renderAsks) =>
               begun = Len(seen.put) /\ ~renders[c].waiting

(***************************************************************************)
(* What the functions put before place n make of each other's values, with *)
(* no queue, cache or request: the page holds that.                        *)
(***************************************************************************)
Work(r, op) ==
    CASE op.do = "load" -> Given([r EXCEPT !.engine = EngineOf[op.at]], TemplateOf[op.at])
      [] op.do \in {"interpolate", "each"} -> Given(AfterRender(r, op), Rendered_(r, op))
      [] OTHER -> Given(r, op.value)

Made(ops, n) ==
    LET M[k \in 0..n] == IF k = 0 THEN NewContext ELSE Work(M[k - 1], ops[k])
    IN  M[n]

MadeBy(ops, n) == Made(ops, n).content

(* What the element of the page holds is what the chain that swapped it    *)
(* makes, whatever the answers of the other chain did in between.          *)
PageIsRendered ==
    swapped.at > 0 /\ ~renderSeen[swapped.by].careless =>
        swapped.content = MadeBy(renderSeen[swapped.by].put, swapped.at - 1)

(***************************************************************************)
(* Both, of every RenderContext: chained functions run in their order and  *)
(* the page shows what they make of each other's values.                   *)
(***************************************************************************)
RendersInOrder == PageIsRendered /\ \A c \in RenderContexts : QueueIsInOrder(c)
===============================================================================
