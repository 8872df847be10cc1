# A verification project for RecuperacionPracticas

The repository holds the programs of a course on information retrieval: an
indexer and two searchers over Lucene, a program that evaluates search results,
a semantic search system over RDF, and a Solr 4.4 with its admin console, with
which practice 3 is done. This directory holds TLA+ modules that model those
programs and the console, TLC configurations that check them on small instances
and proofs, checked by TLAPS, of what matters most about them.

## The system

### The programs of the course

| Part | Source | State | Operations | Status |
|---|---|---|---|---|
| Index directory | Lucene, as the programs use it | the last commit, `write.lock` | take the lock, commit, let go | `IndexStore` |
| Indexer of the collection | `Trabajo/src/IndexFiles.java` | the stack of `indexDocs`, the documents the writer has pending | open the writer, enter/skip/leave a directory, add/update a document, skip a file, close, every failure | `IndexFiles` |
| Indexer of practice 1 | `Practica1/src/IndexFiles.java` | the same | the same; also `modified` and bounding boxes | by `IndexFiles`, partly |
| Batch searcher | `Trabajo/src/SearchFiles.java` | reader, results file | parse needs, reset the file, open a reader per need, append the answer | `SearchFiles` |
| Centuries in needs | same file, `romanoToInt` | the loop's variables | one letter | `RomanNumerals` |
| Other query clauses | same file | none | string matching | not modelled |
| Interactive searcher | `Practica1/src/SearchFiles.java` | page, collected hits | query, collect more, previous, next, jump, quit | `PagingSearch` |
| Evaluation | `Practica5/.../evaluation` | judgements, results, measures | read a line, evaluate a need, total, write | `Evaluation` |
| Semantic generator | `Practica5/.../SemanticGenerator.java` | the RDF graph so far, the RDF file | list, process a file, lose the graph, open and write the file | `SemanticGenerator` |
| Semantic searcher | `Practica5/.../SemanticSearcher.java` | dataset, results file and its buffer | load, empty the results, run a query, write a line, close | `SemanticSearcher` |
| Thesaurus and ontology | `creacionSKOS.java`, `creacionOWL.java` | a constant graph | write it | a constant of `SemanticGenerator` |
| Examples of the course | `A_` to `G_`, `Practica6` | | demonstrations | not modelled |
| Analyzers | `NuestroSpanishAnalyzer`, `SpanishAnalyzer2` | none | a chain of Lucene filters | not modelled |
| Vendored software | Lucene, Nutch, Protege, the server side of Solr | | | not modelled |

The parts meet in files. The indexer writes the index directory and the
searchers read it; a searcher writes a results file and the evaluation reads it
with the judgements; the generator writes the RDF file that the semantic
searcher loads. Nothing stops two programs from running at once, and only the
index directory has a lock.

### The Solr admin console

All of it is below `Practica3/solr-4.4.0/example`: `S/` stands for
`solr-webapp/webapp/js/scripts/`, `L/` for `solr-webapp/webapp/js/lib/`.

| Part | Source | State | Operations | Status |
|---|---|---|---|---|
| Script loader | `require.js`, `L/order.js`, `main.js` | counts, managers, caches, the waiting timer | ask, come, run, tell, time out | `RequireLoader` |
| Router and frame | `S/app.js`, `L/jquery.sammy.js` | location, `last_location`, `#content`, menu, `app.timeout` | hashchange, run a route, redirect, refresh, boot | `Console` |
| Addresses and renders | `L/jquery.sammy.js` | `_last_location`, the poll; the queue, content and cache of RenderContexts | notice an address; load, render, swap, wait, next | `SammyContext` |
| Connection check | `S/app.js` | whether it works, one chain of checks | lose, check, recover | `Console` |
| Plain pages | dashboard, analysis, documents, query, file, cloud, threads, logging/level, java-properties, index | the elements and live buttons | template, answers | `PlainPages` |
| Core admin | `S/cores.js` | the cached template, whose buttons are bound | list, reload, unload, rename, create, swap, optimize | `CorePages` |
| Plugins, schema browser | `S/plugins.js`, `S/schema-browser.js` | two global caches | load, merge, render | `CachePages` |
| Data import | `S/dataimport.js` | cookie, who refreshes | find a handler, status, import, abort | `ImportPage` |
| Logging viewer | `S/logging.js` | the chain of timers | load, append | `LoggingPage` |
| Replication | `S/replication.js` | the element, the countdown | details, tick, refetch, commands | `ReplicationPage` |
| Levels, beans, configuration, overlay | `logging.js`, `plugins.js`, `dataimport.js`, `L/jquery.blockUI.js` | the tree and its open selector; entries and the watch; the configuration and debug mode; blocks and fading layers | filter, open, post; open, watch, stop; load, reload, import; block, unblock, fade | `ControlPages` |
| First page, details, boxes, ping, import status | `index.js`, `replication.js`, `dashboard.js`, `ping.js`, `dataimport.js`, `L/jquery.timeago.js` | bars and headers; every row of the details; boxes and the healthcheck button; the link of a ping; state, ages and buttons of an import | visit, reload; answer, refresh, expand; toggle; ping; ask, follow, abort | `StatusPages` |
| Fields of a schema | `S/schema-browser.js` | `app.schema_browser_data` | index, schema, field, terms | `SchemaField` |
| Cloud and its dump | `S/cloud.js`, `L/ZeroClipboard.js` | tree, graph, file; clients and movies | three views, files; show, copy, close | `CloudPage`, `DumpClipboard` |
| Analysis | `S/analysis.js` | form, address, table | submit, draw | `AnalysisPage` |
| Documents, query | `S/documents.js`, `L/jquery.ajaxfileupload.js`, `S/query.js`, `formToArray` of `L/jquery.form.js` | the forms and the input of a file; rows, sets and the response | type, post, upload; fill from a link, submit, answer | `DocumentsForm` |
| Selects | `L/chosen.js` | the list beside the select | mouse, keys, focus, new options | `Chosen` |
| Suggestions | `.../velocity/jquery.autocomplete.js` | field, timeout, list, cache | keys, mouse, answers | `Autocomplete` |
| jQuery | the jQuery 1.7 in `require.js` | lists of callbacks, requests, queues and animations, handlers | see the modules | `Callbacks`, `Ajax`, `Effects`, `Events` |
| Other widgets | d3, jstree, highlight, cookie, linker | none that the pages decide on | | not modelled |

The console is one page and one thread. What is concurrent is the order in which
answers, timers, events of the browser and the user come: a page asks, the user
goes on, and the answer finds another page. The pages share `#content`,
`app.timeout`, two caches, some globals and the menu of cores; under them they
share jQuery's lists, requests, queues and handlers, whose functions call back
into the pages.

### What is hard here, and what the properties are about

* the docs directory changes during a walk that looks at each file three times
  (`list`, `canRead`, open), and any file can end the program;
* a run may be killed at any moment, and nothing is committed before `close`;
* two runs over one index, of which one may build on what the other replaces;
* a results file that is emptied early, appended to by needs that are answered
  from different commits, and whose write errors are only printed;
* a graph that one file turns into null, and that is written only at the end, over
  the previous one, by a program that a record without title can end;
* lines of results that wait in a buffer when an exception comes;
* page numbers and page sizes that overflow or fall below the first page;
* measures computed from lists where a document may be repeated, and an
  evaluation in which one need takes all the others with it;
* in the console: answers that come after the user has left, or in another order
  than they were asked for; redirects and refreshes of a page the user has left;
  caches that do not know their core; one handle for the timers of several pages;
* scripts that arrive in any order, and a timeout thrown out of a load event;
* code that is entered again from its own callbacks: lists that are changed while
  they fire, requests aborted by their handlers, queues stopped by what they run,
  handlers unbound by the event they handle.

## Modules

### Programs of the course

`IndexStore` is the abstract index directory: a run takes the lock
(`Acquire`), makes one commit (`Publish`) or none (`Abandon`). A commit has one
document per path, is made of the run's documents and earlier ones, and replaces
none by an older version. It is stated apart from both programs, as what the
indexer owes to the searchers.

`IndexFiles` is the indexer in detail. `disk` and `closed` are the docs
directory; `Environment` changes them at any time. `pc`, `create`, `spelling`,
`todo` and `pending` are the local state of each execution of `main`: `todo` is
the recursion of `indexDocs`, one set of names per level (the order of
`File.list()` is unspecified, so a level is a set). What a file contains is a
`Kind`, one for each way `indexDocs` can go. A document is the path as it was
written, the stamp of the version that was read, and the run that added it.
`OpenWriter` stands for `main` up to line 119, `Close` for line 129, `Abort` for
the exceptions that leave `indexDocs`, `Crash` for a kill. Reading a file and
adding its document is one step: a file that changes while it is parsed is one of
the kinds of content. `Store == INSTANCE IndexStore WITH Path <- Spelling \X File`
is the refinement mapping; the three variables of the directory are the same.

`SearchFiles` extends `IndexStore` with executions of the batch searcher. Its
index changes as `IndexStore` allows and, because the indexer implements it, as
the indexer does. Scores are not modelled: the best hits are any injective choice
among the documents that match. A need that the query parser refuses is one of
`Broken`. `owner`, `answered` and `shortened` are history variables.

`PagingSearch` is a session of the interactive searcher. A query is its number of
hits; ints wrap at `MaxInt`.

`RomanNumerals` is the loop of `romanoToInt`, a letter per step, with the numerals
as people write them (`Numeral`) as its reference.

`Evaluation` reads the two input files line by line, in any order of lines, and
evaluates the judged needs in any order (they come from a `HashMap`). The measures
are operators over one list of results and one map of judgements.

`RdfFile` is what the semantic generator owes to the semantic searcher: the file
between them is a whole graph in which every document is described and every
person has a name, or it cannot be loaded.

`SemanticGenerator` has `content` (what each file of the directory holds, changed
by `ChangeDocs` at any time), `todo` (the rest of `dir.list()`), `graph`
(`rdfOut`) and `rdf` (the file). `NoGraph` is the null that `procesarFichero`
returns for a file that cannot be opened: it takes the place of everything built
so far, stays through files that are not XML, and ends the program at the next
record, before the file is touched, or at the end, after it was emptied
(`OpenOutput` is the argument of `rdfOut.write`, evaluated before the null is
noticed). `AddRecord` is all of `procesarCampos`; when that throws half way the
graph dies with the program, so the part of a record is not a state of its own.
Resources are named by `HashCode`, which need not be injective. Executions follow
one another; two at a time are not modelled. `Rdf == INSTANCE RdfFile` is the
refinement mapping.

`SemanticSearcher` extends `RdfFile`: the file is rewritten at any time. A line of
results is two halves, so that a buffer of an odd number of them cuts lines, as one
of 8192 bytes does; `Overflow` is the part that leaves the buffer when more comes.
What is in the results file stays when the next execution cannot load its graph.
Loading is one step: a file rewritten while it is read is one that cannot be parsed.

### The console as a whole

`Console` has what every page shares. `address`, `last` and `due` are the
location, Sammy's memory of it and the event that is still to be delivered;
`route` and `visit` name the closure of the route that was run last; `shown` is
`#content`: who drew it, and of which cores its data is. `requests` is a bag of
requests in flight, each with the visit it belongs to, `timers` the timers that
have not fired and `timeout` is `app.timeout`. `basepath` is the global
`core_basepath`. `upset` is history: answers of an earlier visit that came
("late"), requests of the visit that failed or its timer that a refused route has
cleared ("lost"), a page that was not drawn again ("cached").

`PlainPages`, `CorePages`, `CachePages`, `ImportPage`, `LoggingPage` and
`ReplicationPage` extend it by the routes of their scripts. Each callback of a
script is one action: `VisitX` runs a route, `X(q)` handles the answer `q`. Where
two answers run the same code (any block of the dashboard) they are one action
with a parameter. The end of `Console` is `ajaxError`, `connection_error` and
`connection_check`. `AdminConsole` composes them: `Visit`, `Answered`, `Failed`,
`Fired`, `Pressed`, and the user, who belongs to one of the `Families`, each a set
of routes, a number of moves and the cores of the server.

`RequireLoader` is the loading of the scripts: the context of RequireJS (what is
paused, waiting, `scriptCount`, `resumeDepth`, the timer that polls) and the
plugin `order` in its three modes, from the `script` element with `data-main` to
the call of `app.run()` and the release of jQuery's `ready`. `MCConsolePage` composes
both: a user of `Starters` sees the page load before the first route; the others
start on a page that is loaded (`LoaderIsThrough`), which leaves out only the
product of two parts that share no variable afterwards.

### Parts of the console, one at a time

`MCConsoleParts` has 23 parts; `part` is chosen once and only that part moves. They
share no variable, so the run checks each over all its states without their
product.

`Callbacks` is `jQuery.Callbacks` and `jQuery.Deferred`. What runs inside may use
the lists again, so the thread's stack is a variable, `calls`: a frame is a call
that has not returned. `Ajax` is `jQuery.ajax` from
the call to the last callback over both transports, its stack is `frames`.
`Effects` is `queue`, `dequeue`, `delay`, `promise`, `animate`, `stop` and the
clock of `jQuery.fx`; `todo` is what is left of the calls under way, in pieces, the
innermost first. `Events` is `jQuery.event`: `underway` is the stack of events on
their way up. A selector stands for any set of elements (`SelectedBy`), nested ones
among them: then a delegate is copied once for each that an event passes.

`Chosen` and `Autocomplete` are the two widgets with timeouts of their own.
`SchemaField`, `CloudPage`, `DumpClipboard`, `AnalysisPage`, `DocumentsForm` (with
the query form as its second half), `ControlPages` (levels, beans with the watch,
configuration, overlay) and `StatusPages` (first page, details, boxes, ping, the
status of an import with the ages of its dates) are what
the pages do inside, which `PlainPages` and its neighbours draw as a whole.
`SammyContext` has the two ways to notice an address and the queue of a
RenderContext. Their handlers are actions; a request is a record in a set with
the visit or the closure that asked; what is marked "not in the code" is history.

The operators under a comment "A fault of ..." are plausible mistakes in the code
next to them. Nothing uses them: putting one in the place of the definition it
follows makes TLC find the property it is for violated.

`MC...` modules give values to constants; the `...Proofs` modules hold the theorems.

## Runs

| Run | What it asks | Bounds | Distinct states |
|---|---|---|---|
| `MCIndexFiles.cfg` | Does the indexer implement `IndexStore`, keep paths unique, lose nobody's work, never go back in time, commit everything when undisturbed, and give the lock back (`EveryRunEnds`)? | 2 runs, 2 spellings, 2 files (one in a subdirectory), 2 stamps | 280,466 |
| `MCSearchFiles.cfg` | Are answers whole, in order, from ever newer commits and without repetitions while commits happen (`LinesInOrder`, `AnswersCanBeEvaluated`)? Does every search end, also with a broken need? | 2 searches, 2 needs, 2 paths, 1 writing run, 2 commits | 240,516 |
| `PagingSearch.cfg` | `PagesAreWhole`: the same pages whichever way, nothing skipped, at most two searches; failures only after bad jumps | ints of 5 bits, up to 13 hits, all page sizes | 1,937,466 |
| `PagingSearchJump.cfg` | Does an accepted jump land on a page? (no) | the same | |
| `RomanNumerals.cfg` | Are numerals read, and is no value below 1? | numerals to 3999, all tokens to 5 letters | 144,491 |
| `RomanNumeralsYear.cfg` | Is a century returned as its year? (no) | the same | |
| `Evaluation.cfg` | `MeasuresFollowTheRanking`: do the measures agree with their definitions? Is the report whole or absent? | 2 needs, 3 documents, lists of 3, precision at 2 | 925,307 |
| `EvaluationPrecision.cfg` | Is the precision that of the last point? (no) | the same | |
| `MCSemanticGenerator.cfg` | Is every graph that is written that of all the records read, closed, and of all the directory when nobody touches it? Do documents keep their creators (`Attribution`)? Does every execution end? | 3 files, 4 records (2 of them faulty), 2 names with one hash code | 197,017 |
| `MCSemanticSearcher.cfg` | `ResultsAreWhole`: what is in the results file after each way of ending? Does every execution with a graph end? | 3 documents, 2 topics, needs of up to 3 lines, a buffer of a line and a half | 2,726 |
| `MCConsolePage.cfg` | Does a page show its route (`RouteIsDrawn`), data and buttons of its core (`PagesAreOfTheCore`), one refresh, one countdown, one chain of checks? Do the scripts start in order, and the page at all? Is a lost connection found again? | 12 kinds of users, 2 or 3 moves, 2 cores, a list of 6 scripts in 3 modes | 377,471 |
| `MCConsoleParts.cfg` | One question for each part below | 23 parts, see below | 3,390,654 |

The properties of `MCConsoleParts.cfg`:

* `CalledAsPromised`: a Deferred is settled once, and the functions of its side run
  once each, in the order they were attached, before or after; a loop over a list
  has called all that was on it when it came there or was added meanwhile, and not
  removed, however the functions change the list.
* `RequestsAreTold`: a request's callbacks hear of it once, success or error and then
  complete, whichever of answer, timeout and abort is first; `jQuery.active` is the
  number of requests under way.
* `QueuesGoOn`: a queue that is not empty has its sentinel in front and one thing under
  way that will dequeue it; what is queued ends once, in order; a promise is kept
  when the queue is empty and no other animation runs.
* `HandlersRunOnce`: an element listens to the browser just while it has handlers, and
  its delegates are the first of them; an event runs no binding twice for one element
  that its selector matches, from the target up and delegates first; what `one()` bound
  runs for a single event, of that once for each element its selector matches.
* `WidgetsKeepInStep`: `SelectsAreShown` and `SuggestionsFollow`.
* `PagesShowTheirOwn`: fifteen invariants, one for each page or part of one
  (`SchemaIsShown`, `CloudIsShown`, `DumpIsCopied`, `AnalysisIsShown`,
  `DocumentsAreSent`, `QueryIsAsked`, `LevelsAreShown`, `BeansAreShown`,
  `ConfigIsShown`, `OverlayIsWhole`, `SystemIsShown`, `DetailsAreShown`,
  `HealthIsShown`, `PingIsShown`, `StatusIsShown`): what the page shows is what
  the answers to its own visit and the clicks on it say. Where the code lets something
  cross, they say exactly what may stay behind, and that nothing else does:
  * `OneViewOnAPage`: a graph or tree of another visit only if that visit was waiting when
    the page was drawn, and one of each;
  * `ButtonsAreThemselves`: "Aborting Import" stays for good just when an abort was
    answered during the timeout of another;
  * `OverlayIsWhole`: a block loses its message just when the fade of an earlier unblock
    of the same message ends, and only a message whose watch began over a fade may be
    away from its place;
  * `InputIsFree`: forms stay around the input only when two uploads of one second, or of
    two inputs, met in one frame (`crossed`), and none is taken from an upload under way;
  * `DumpIsCopied` asks nothing once a dump was asked for while another one was, or came
    after the closing (`late`).
* `AddressIsRouted`: when no event, timeout or poll is left to come, the route that ran
  last is that of the address, in both ways of noticing it.
* `RendersInOrder`: what is chained on a RenderContext runs once and in order, and
  the page holds what it makes.

### Why the bounds are enough

Three files of every kind are a record before a loss, a
file that is skipped after it and a record after that; the two sound records share
a person, a department and a hash code. A buffer of three halves is overflowed by
two lines and cuts the second; queries with two topics repeat documents. The graph
without a title among those of `MCSemanticSearcher` is there for `Closed` to refuse.
For the other programs: two runs are what a lock is about; a subdirectory
makes the stack two deep; a file that changes has two stamps, before and during a
walk, and two spellings let one file have two documents. Two needs and two commits
let an execution straddle a commit. `MaxInt` and
`MaxTotal` leave room for pages beyond the five that are collected, and for every
overflow of `5 * hitsPerPage`, of `start + hitsPerPage` and of a jump. Three
documents in lists of three have repetitions, unjudged documents, relevant and
irrelevant ones in every order, and precision at 2 stands for precision at 10.
`MaxVersion`, `MaxCommits`, `MaxTotal`, `MaxLetters` and `MaxNumeral` bound the
instance, and so do the three files and the needs files of the semantic runs;
`MAX_RES_NEED`, `AtK` and `MaxHits` are parameters of the code. The needs and
documents of the evaluation are interchangeable, and symmetry is used there only.

The console. A family of users has the pages that share something: two cores of
one page, or pages of the two globals `app.timeout` and `core_basepath`. Two moves
leave a page and come to another while the answers of the first are on their way;
three come back, which `Farther` families do. (Wider families, 20 million states,
were searched once with the invariants of the proofs.) `MaxTick` 2 lets a countdown
tick and end; `MaxEvents` 2 lets a log be appended to and repeat itself. Six scripts
with `jquery` in the place it has in `main.js` have a script before it and four after it
in each mode. One branch cannot be reached, `NoNewRoute` with a delivery due for the
address that is already the last: it is in the code and kept.

The parts. Four uses of a list are a firing, two changes from inside and one after, on
a Deferred and on lists of six kinds (`PlainFlags`: each flag by itself or with one that
it meets in the code; six uses were searched once with the invariant of the proof); two
requests let one be sent, or aborted, by the other's handlers, with six sets of
options for the ways through `ajax`. Two elements and three animations or delays
have a queue with something behind what runs; two bindings, one of them by `one()` and
with a namespace, and two events have one that unbinds the other and triggers the event
again, over a cell in a row of a page and a selector that matches cell and row (three
bindings and one event were searched once: 1.1 million states, no violation). The
widgets have menus of up to a group and four options, two terms, two requests that
cross. A page is visited twice, so that an earlier visit's answers meet a later page,
and asked two or three times (`MaxVisits`, `MaxCloudVisits`, `MaxDumpPages`, `MaxAnalyses`, `MaxPosts`,
`MaxQueryVisits`, `MaxIndexVisits`, `MaxCoreVisits`, `MaxDetails`; `MaxFileClicks`,
`MaxClicks`, `MaxLevelsPosted`, `MaxConfigClicks`, `MaxToggles`, `MaxReloads`,
`MaxMenus`, `MaxPings`, `MaxStatusAsks`, `MaxAborts`, `MaxPauses`). Larger
instances that were run once, without a violation: three posts and two added fields
(241 thousand states), three asked queries and five links (3.1 million), two levels,
watches without a bound of their own (7.8 million), three visits of the cloud page (4.6
million), six blocks over three pages of plugins (45 thousand), three aborts among four
requests for the status (456 thousand). `MaxBlocks` 3 has the status of the
connection over two watches; at most two unblocks are under way. Three hashes and
three moves take a user away and back; two RenderContexts share the cache and the
element, with six chains made of the forms in Sammy's comments and of two that fail.
A `VIEW` in `MCConsoleParts` takes of a state the part it uses: the variables of the
others rest.

The systems stop when all their executions have ended or all that is bounded is
used up, so deadlock is not checked.

### Fairness

`WF_vars(Walk(r))` and `WF` of a search's `Step`: a process that runs is
scheduled. The semantic programs have one execution at a time and `WF_vars(Step)`.
`LoaderFairness`: timers of the browser fire, a file that is asked for comes or
fails, a script that is there runs and its `load` is told; nothing is assumed of the
timeout. `ConnectionFairness`: the timer of a check fires, a check is answered one way
or the other, and a server that is asked again and again is back one day (`SF` of
`CheckSucceeds`, the only strong fairness: without it the connection may stay
lost, which is nothing the console could change). Nothing is assumed of the
environment, of users, of new executions or of kills. The parts are checked for
safety only.

### Where the code and its comments disagree

* `PagingSearchJump.cfg`: page 0 and negative pages are accepted instead of
  answered with "No such page", and end the session
  (`Practica1/src/SearchFiles.java`, line 232).
* `RomanNumeralsYear.cfg`: "Siglo XX -> 1900" says the comment on `romanoToInt`; it
  returns 20, and its caller relies on that (`Trabajo/src/SearchFiles.java`, 300).
* `EvaluationPrecision.cfg`: "La prec y recall son los del ultimo punto" says
  `Evaluation.java`, 118; the precision is computed over the whole list.

### What the runs have shown of the console

The properties hold of the code as it is, so each names the cases in which the
code does something else. Those are worth knowing:

Loading and moving about.
* A timeout that is thrown out of a `load` event leaves `scriptCount` and the depth
  of `resume` as they were: `ready` may be held for ever, and in the mode that fills
  the browser's cache the rest of the list is never asked for.
* `app.timeout` is one handle. A log timer or the status of an import that was left
  takes it from the page that is shown, which then is refreshed no more, or twice.
* The countdown of replication goes on when its page is left, and an error of what it
  asks for erases whatever page is there. The guard of the refresh button
  (`replication.js`, 506) looks on the button for a class that its span has (70).
* A late answer of the dashboard binds the buttons to the core that was left. A cached
  template of the core page or cached plugins are not drawn for another core. An
  unknown core makes the page of the core throw. A status of an import that is no
  XML stops its refreshing.
* Sammy: `options == {}` (1076) is never true; a download that triggers `beforeunload`
  leaves a page that routes no more; `_interval` is never reset; a user who is back
  where a late redirect came from before Sammy was told is not routed; where the
  address is polled, one that was left before the poll saw it may be routed by a
  leftover timeout, and is then not noticed again.
* Sammy's queues: the callback of `load` goes to the end of the queue; an empty template
  is never taken from the cache; a template that fails, or a callback that throws,
  leaves its queue waiting for ever; the example of `wait` in the comments
  (1374-1398) does not return false, so that the queue goes on at once; `renderEach`
  keeps `next_engine`; of two contexts that swap, the later answer wins.

jQuery 1.7.
* A function that throws leaves its list "firing" for ever; `empty()` while it fires
  throws. An abort in `ajaxSend` runs `done` twice, with `active` at -1, against
  "Called once" (`require.js`, 9399); `active` stays too high when a callback throws.
* `stop(true)` during a delay leaves its timeout; `stop()` in `complete` dequeues twice;
  `stop(false, true)` with an animation outside the queue and a delay in it leaves the
  queue stuck; a toggle that was stopped makes a later hide go backwards.
* A handler of `one()` that triggers its own event runs twice. A delegate of `one()` runs
  once for every element on the way up that its selector matches, in one event: only the
  list is unbound, not the copies that `dispatch` has made (`require.js`, 5292).

Widgets.
* `set_cores_data` replaces the options without `liszt:updated` until the next route: a
  line picked meanwhile selects another core, or throws. A multiple select keeps the
  focus when a choice is removed, and its list is closed by nothing; a choice marked
  by the backspace key and removed by the mouse is removed once more.
* Suggestions: hiding the list gives the focus back; a late answer opens a list after
  Escape, after the field was emptied and after a selection; a mouse that is dragged
  out of the list keeps it for ever; keys after the mouse make a click take another
  line; PageDown wraps when eight lines further is the end; the cache holds one more
  than its length.

Pages.
* Schema: answers of two visits that cross double the links of a field, or throw where
  a name is both an unknown source of a copy and a destination.
* Cloud: the answers of visits that still waited when a page was drawn put their graph or
  tree beside its own, one of each visit; a node
  that comes alive between the two requests is drawn as gone; an error that is no JSON
  throws; a file that was overtaken replaces that of the active link. Dump: an answer
  after the closing, or to an earlier showing, leaves a movie over the button. The movie
  is inside the button, and leaves the document with its first copy, which gives the
  button a text: there is no second copy, and closing removes nothing more. A text that
  comes for it later throws; a client whose movie is gone before it was found polls
  every millisecond for ever. A page closed without a copy says "Copy to Clipboard" from
  then on also where it has copied.
* Analysis: tokens beyond the columns are lost when a tokenizer leaves positions
  out; the same parameters cannot be submitted again; an analyzer whose name has no
  capitals throws and leaves the button off.
* Documents: the mark `uploading_file` stops nobody; a file that is chosen later is
  uploaded at once, to the address of the first upload. Frames are named by the second
  (`jquery.ajaxfileupload.js`, 88): of two uploads within one, as of a double click, both
  may go to one frame, the first response is lost and its form stays around the input,
  though "Files are sandboxed. Doesn't matter how many" (16).
* Query: a parameter that a link gives twice becomes a list and is dropped, and a link
  with no others sends nothing; one of an optional set fills a field of a set that is
  not ticked, and is not asked; `#qt` has no name, so that of a link is lost; an earlier
  query's answer stands below the later one's address.
* Levels: a logger whose last part is not `\w+` is never drawn; the dots in a filter are
  not quoted, so that a logger may be drawn below another as well; an answer out of
  order shows older levels.
* Plugins: an entry whose name ends with another's is taken for it; a second click before
  `hashchange` loses the first; a late answer resets the reference of the next watch, and a
  stop before the reference has come posts none.
* Import: with jQuery 1.7.1 the branch for `parsererror` (`dataimport.js`, 198) is never
  taken, and a broken configuration is not reported; a late configuration overwrites
  what was edited.
* Overlay: a watch that begins while the last block fades takes the message out of the
  fading layer, whose end then takes it back: a block without a button, until the
  page is reloaded; or, unblocked before that, the message goes with the layer, and the
  next watch throws. After a connection that came back the next loss still says
  "Instance is available".
* First page: without swap space the percentage is `NaN%` (`index.js`, 49); a late answer
  of an earlier visit writes its percentages over the present bars.
* Replication: a slave whose master is out of reach makes the handler throw half way,
  and its countdown never starts again; iterations are sorted as texts, by the name of
  the weekday; rows stay when lists become empty; a redraw hides the link that folds
  an open list.
* Healthcheck: the status of an earlier visit binds the button to another core, and marks
  the present one.
* Ping: two under way at once lose the mark with the first answer; the time of an earlier
  answer stays beside a later error.
* Import status: an abort that is answered within four seconds of another keeps
  `Aborting Import` as the label to put back (`dataimport.js`, 363), the second timeout
  stops at `removeData` of a string (376), and the button never says `Abort Import`
  again; an abort that is lost leaves its mark; a status that is lost marks the link
  that reloads the configuration (640) and ends the following.

## Proofs

Eight modules hold theorems; each of them is about every value of the constants
that meets the assumptions named in the model. TLC evaluates the assumptions on
the instances of the runs.

| Module | Theorems | Properties of runs |
|---|---|---|
| `IndexFilesProofs` | `TypeCorrect`, `IndexInvariant`, `PathsAreUnique`, `UpdatesLoseNothing`, `StoreImplemented`, `NoStepBack`, `UndisturbedCommits` | all the safety properties of the indexer |
| `SearchFilesProofs` | `LinesStayInOrder`, `AnswersStayEvaluable`, `PagesStayWhole`, `BadJumpsFailOnly` | `LinesInOrder`, `AnswersCanBeEvaluated` of the batch searcher, `PagesAreWhole`, `OnlyBadJumpsFail` of the interactive one |
| `RomanNumeralsProofs` | `PrefixNeverNegative`, `EveryNumeralIsRead` | `PrefixIsNatural`, `NumeralsAreRead` |
| `ResultsProofs` | `TypeCorrect`, `ReportIsForAllNeeds`, `MeasuresAreOfTheRanking`, `ResultsStayWhole` | `AllNeedsOrNoReport` and `MeasuresFollowTheRanking` of the evaluation, `ResultsAreWhole` of the semantic searcher |
| `SemanticGeneratorProofs` | `GraphsAttribute`, `WritesTheWalk`, `UndisturbedWalkIsComplete`, `GeneratorImplementsRdf` | `Attribution`, `GraphOfTheWalk`, `UndisturbedGraphIsComplete`, `ImplementsRdf` |
| `AdminConsoleProofs` | `OneChainOfChecks`, `OneCountdownRuns`, `RoutesAreDrawn`, `CoresAreNotMixed`, `PagesRefreshOnce`, `TypeCorrect`, `PageStartsInOrder` | all the safety properties of the console and its loader |
| `ConsolePartsProofs` | `RequestsHearOnce`, `AddressesAreFollowed`, `TemplatesInOrder`, `FunctionsAreCalled` | `RequestsAreTold`, `AddressIsRouted`, `RendersInOrder`, `CalledAsPromised` |
| `EventsProofs` | `EventsRunTheirHandlers` | `HandlersRunOnce` |

### The indexer

`UniquePaths` is not inductive: `addDocument` looks for no old copy, so one must
know that the walk comes to no file twice. `WalkInv` says so: the names left on
the stack are roots of disjoint subtrees, and in CREATE mode none of them contains
a file already written. Disjointness is kept because entering a directory replaces
it by its entries, which share no file by `TreeAssumption` (the docs directory is a
tree). `UpdateBuildsOnLastCommit` needs `LockInv` (a writer is open exactly when its
run holds the lock), for another commit would make the pending view stale.
`NeverBackInTime` needs `VersionInv`: committed and pending documents are no newer
than the clock and the file, and what is pending is no older than what is
committed; `OwnDocs` gives the shape of a CREATE commit that `Publish` asks for.
`SentinelAssumption` keeps the sentinels apart from what they stand beside.

`UndisturbedCommits` is about a run that no change has met. `ThoroughInv` says of
such a run, at every moment of its walk, that each file which can be seen from the
root is on the stack, below a directory that is, or done with, and that what is on
the stack has no closed directory above it. That "above" means one thing is
`PathAssumption`: every file and directory of the tree has its set of directories
above it. A finite tree has them, by an induction over its depth which is not done here;
TLC evaluates the assumption on the instance.

### The batch searcher and the pages

`SearchInv` is what the two theorems about the results file rest on: readers show
commits that were made and have one document per path, needs are answered in turn,
and the lines of an execution are of needs before the one in turn and of commits
that its reader does not come before. `FileInv` is then inductive: the order of the
lines, that the execution which last emptied the file has its answers there whole,
and that no line is there twice. The hard step is an append between lines of other
executions. `IsFiniteSet(Doc)` makes the number of hits a number; that no file is
named twice in an answer is said where different paths have different names
(`NamesDiffer`), since the code writes the name without its directory.

`PagingInv` says where the page is: it begins at a multiple of the page's length
that is no hit beyond the last, ends at its length or at the last hit, and at most
two searches have been executed, the second of which collects all. `Fits` leaves out
what has wrapped around; the lemmas about `Wrap` and multiples do the arithmetic.
A user who only goes on has seen `0..start-1` or `0..end-1` (`SeenSoFar`).

`PrefixNeverNegative`: the value read so far is greater than all that the letters
to come could take away (`ValueInv`), because letters that are subtracted are
strictly decreasing in value.

`EveryNumeralIsRead` needs to know how far the loop is. `NumeralInv`: for the number n
that the token is a numeral of, there are a decimal place k and a number q of letters
such that the letters left are those of the higher places and all but q of the place's,
the value is that of the lower digits and of the q letters (`ReadOf`, in units of the
place), and the letter read last is one of the place or worth less than its unit.
`LetterRead` is the heart of it, a case for each digit and letter: IV, IX, XL and the
like are the only letters that are taken away. Empty places, of a digit 0, are gone
through in between (`NextPlace`, `ReadsOnOrOut`). The rest is where the letters of a
place are in the numeral (`LetterAt`) and division by ten.

### The evaluation, the semantic generator and the semantic searcher

`ReportInv` says what the loop over the needs has done (`LoopInv`): every need it
has left behind could be evaluated, and is in the map just if it found something.
So a report that is written is of all of them.

`MeasuresAreOfTheRanking` has a small invariant: `MeasuresInv`, that each need was
evaluated from the judgements and the list there are, which are finite, and TOTAL from
those evaluations. The rest is about what `Evaluacion` and `Total` compute of any list,
with repeats or not:

* the positives up to a rank grow by one at each relevant result, so every number up to
  their total is reached, at one rank (`RankExists`, by the least rank that has so many,
  and `RanksAre`); the documents among them are at most as many, since the ranks map onto
  them (`DocsAre`), and as many if none is listed twice. So the points climb to the
  recall, and a repeat makes the points end before the positives do;
* a mean of fractions lies between two of them (`MeanIsBetween`). That takes induction
  over the list; here it is a least number: were a partial sum too large for its length,
  the first such one would not be. `AverageIs` and `PromedioIs` follow, and with it TOTAL;
* `InterpolatedIs`: the precision at a level is the best of the points above it, because
  a finite set of fractions has a greatest (`GreatestOf`); of fewer points the best is no
  better, so the curve falls.

Fractions are exact, where the program has doubles, and `EPS` (1e-10), which makes up for
doubles, is left out. `SumOf` is a recursive function and `Ranks` counts, because the
prover knows nothing of folds and of `SelectSeq`.

`WalkInv` of the generator: wherever it is, the graph is that of the records it has
read, all of them complete, or there is none (`GraphIsOfTheRead`); and if nobody
changes the directory, the files that are not to be read any more hold what they
held (`NothingLeftBehind`). That the graph attributes documents and is closed are
facts about `GraphOf`, which need to know that no other statement speaks of the
properties of documents: `BaseAssumption`, which the code justifies: `addConstantes`
adds types of languages only, and `owl.ttl` and `tesauro-skos.ttl` declare `creado`,
`contribuido`, `title` and their like without ever using them as a predicate.
`VocabularyAssumption` and `RecordAssumption` say that names are strings.

`ResultsStayWhole` is about the file that the semantic searcher writes. `FileInv`: while
it is open, the file and `FileWriter`'s buffer one after the other are the text of the
lines passed to `write`, and the buffer is within its size, so that an execution which
stops anywhere loses no more than that. `AnswersInv`: the lines are of needs come to, in
their order, and for each of these needs and each document the lines there are and the
solutions still to come (`ToCome`) are together what the query gives. Both are inductive
only with each other and with `StageInv`, which says that the dataset is a whole graph:
it is the one loaded, whatever happens to the RDF file afterwards. `GraphAssumption`
makes solutions countable; `NeedsAssumption` says that the queries of a needs file have
different identifiers, without which the lines of two needs could not be told apart.

### The console

`OneChainOfChecks`: `ConnectionInv` adds the types of the counters; `working` is
false exactly while one check waits or is asked, and only the request that finds it
true starts a chain. `OneCountdownRuns`: a second countdown could come from every
answer with a next poll; `CountdownInv` says that there is one tick among the timers
at most, and that its handle is `ticker`, so that `InitTimer`, which clears `ticker`
first, leaves one. Most actions are `Quiet`.

`RoutesAreDrawn` and `CoresAreNotMixed` rest on `PagesInv`, that is `ConsoleInv` and
`PlaceInv` (every location is that of a page, from `RoutesAssumption`: the routes of a
user are routes of the console, and those of the pages of a core name it, as their
regular expressions ask). `ConsoleInv` has four parts:

* `ClosureInv`: a visit has one route, and whatever is in flight belongs to a visit that
  was and is a request that its page makes (`Suits`);
* `DrawnInv`: an undisturbed visit has drawn its page or has a request in flight that
  will, and what the caches of templates know of it;
* `DataInv`: what an unmixed visit has collected, in caches and on the page, is of the
  core of its route;
* `ButtonsInv`: the buttons are bound by the answer that fills the element beside them.

Neither theorem is inductive by itself: a page that is drawn late is right only
because the request was there all the time, and data that arrive in stages (the
list, the template, the values) must be of one core at each stage. There are five
ways for a step to keep the invariant, a lemma each, which the actions cite:
`AsideKeeps` (it draws nothing), `Gathers` (an answer that asks for more), `Draws`,
`Fills`, and `VisitAsks` (a new visit).

`PagesRefreshOnce` rests on `RefreshInv` beside them:

* `FreshTimers`: no two timers have one handle, and `timer_timeout` is never that of
  another page's timer. `FreeHandle` is proved to be free: there are more numbers than
  handles;
* `ImportsOfThePage`: status, import and abort are asked for on the import page only;
* `PollInv`: in an unhindered visit `app.timeout` is the handle of its own timer, and a
  page that refreshes has its timer set or the status asked for: never neither, and
  one timer, since they all have that handle;
* `LogInv`: the log of an undisturbed visit goes on by one thing, its template, a
  request or a timer, whose `since` is the last event in the table.

`Besides`, with `LogRests` and `PollsRest`, is what all the other steps of the console
leave alone. The proof showed the property wrong as it stood: a route that is refused
clears `app.timeout` and the page that stays is refreshed no more, which the bounds of
the run hid. The refusal now disturbs the visit, and the model has no bound on timers.

`TypeCorrect` takes the handles, the visits and the closures' routes from these
invariants and adds `TypedInv`: a redirect leads to a route of the console, whatever
list of cores it is chosen from; what fills a page or a cache is of a core or of none,
and the fields of the schema browser always of a core, because a request for them is of
a route that has one (`Routable`, with `Suits`); the events in the log are among those
of the server; and no visit refreshes before it has been.

`PageStartsInOrder` is about any list of scripts and each of the three ways to keep them
in order; it rests on `LoaderInv`:

* the stage: until the plugin has run, one file at most is on its way (`Unlisted`, in four
  steps). From then on (`Listed`) what has run, what is in the document, what is paused
  and what the plugin holds back are, one after the other, the whole list; where the
  browser sees to the order, a script that never comes is missing from it. Each step
  moves the head of one part to the end of the part before it, so the line (`Line`)
  stays; `Due` and `Left` are proved to cut the plugin's list in two. That what ran is
  in order does not go on by itself: it says nothing of what runs next;
* `ScriptsCounted`: `scriptCount` counts the files that are asked for and not complete
  (`Outstanding`), more after a load event that the timeout cut short. It is never less:
  so nothing is left to count when it is 0, and `resume` may begin to count what was
  paused from there;
* `CalledWhenGiven` and `HeldUntilCalled`: the callback of `main.js` has what each
  complete script gave it, and until it is called its manager waits, for which
  `checkLoaded` does not release jQuery's `ready`.

`ListAssumption` says that the list names no script twice and has jquery among others,
as `main.js` does, and that no script is called like one of the loader's own files or
managers. `LoadedPageStaysInOrder` says the same of the pages on which `MCConsolePage`
starts after they are loaded.

### Five parts of the console

`RequestsHearOnce` is about any number of requests and frames of the stack. `AjaxInv`:
what each request's callbacks have heard is a beginning of success-or-error and
complete; each frame fits the place in the code where it is (`FramesFit`); a request
has one frame, or one of `done` over one of `beforeSend` (`OneFrameEach`); a request
that is not being settled has told nothing or all (`RequestFits`); and `active` is the
number of requests that will still bring it down (`ActiveIsOwed`). `AjaxAssumption`
says what options are, and that `ajaxSend` does not abort: it runs `done` twice if it
does, as noted above.

`AddressesAreFollowed`: `AddressInv` says that the route of the address has run or
something will look at the address again (`WillLook`), and that it has run if the
address is the last one, since whoever looks then does nothing. `SammyAssumption`: no
address redirects to itself, which would go round for ever.

`TemplatesInOrder` is about any number of RenderContexts with any chains of functions.
`RendersInv` says of each of them (`InTurn`) that the functions which began are the
first of the chain, and that the context either rests after the last of them, with a
timeout for the next one or nothing left (`Rests_`), or waits for the answer that the
last one asked for (`Busy`); and that its content is what the functions so far make of
each other's values (`Made`), so that a swap puts just that on the page. A context whose
function waited without saying so is left out, as in the property. `Made` is a recursive
function. That it exists, is unique and only depends on the places before (`MadeExists`,
`MadeUnique`, `MadeNext`) takes an induction over the chain, which is done without an
induction rule: `LeastNatural`, from `WFMin` and `NatLessThanWellFounded` of the library,
gives a least place where it would fail. `ProgramsAssumption` says that a `load` names a
template of the server, that only a `load` takes a callback, and that `swap` gives no
value.

`FunctionsAreCalled` is about one list with any flags or one Deferred, any functions that
use them and loops nested to any depth. `CallbacksInv` is a type invariant and three parts:

* `StackHolds`: the loops on the stack are of lists of their own, since a list that is
  fired keeps the next payload for later; all but the innermost wait for a function of a
  user; and what a loop owes a call is on its list from its index on, or has been called;
* `NoneLost`: a list that is fired has its loop on the stack, unless a function threw;
* `DeferredHolds`: a Deferred is not settled and nothing of `done` and `fail` has run; or
  one of the two runs its own three functions (`Settling`: the state, the other side's
  `disable`, the lock of `progress`), in that order, before any of a user's; or it is
  settled and the place of the loop is that of the next function to call
  (`StillToCome`), in a list with nothing but listeners behind it.

The step that is hard is `remove` in the middle of a loop, which corrects `firingIndex`
and `firingLength` by hand: that they come to point where they did (`StandsWithdrawn`)
takes counting what is left before a place (`UpTo`, with `UpToSplits` and `WithoutIs`),
and so `Without` is defined by ranks. The proof showed the bookkeeping of the model
wrong: a list that is `unique` and has a memory took a function that it had already for
one to be called, and `attached` had it twice. What is new is now asked once (`IsNew`),
and the run has such a list. `CallbacksAssumption`: the functions of a Deferred are
nobody else's, and a payload is a pair, neither `undefined` nor `true`.

`EventsRunTheirHandlers` is about any tree of elements and handlers that bind, unbind and
trigger what they like. `EventsInv` is a type invariant and four parts:

* `ListsHold`: delegates come first, `delegateCount` of them, and no two bindings have one
  number. `add` and `remove` keep that because a list only gains one element or loses some
  (`AddedIs`, `RemovedIs`), the rest staying in order (`PickedIs`);
* `StackInOrder`: events lie on the stack by their number, but for the method that
  `trigger()` calls over its own event, whose way is then over; `triggered` is set just
  while that method is on top, which is why it copies no handler. Of each event: the way
  left leads up from where it is (`Climbs`); what it is to run there is in order, each
  binding once (`Orderly`), and still what is bound under that number, if anything is
  (`Known`: a page may unbind what an event has copied); and what it ran comes before all
  of that (`HasRun`);
* `RunsHold`: the property's order, of what ran;
* `OnceHolds`: while no handler has triggered an event, nothing that is bound and is for
  one time has run (`Spent`), and what is copied has run only for the event it is copied
  for, on the element where it was copied (`RanOnlyFor`): there its other copies, for other
  elements that its selector matches, may have run.

The last part is lost when a handler triggers an event of its type, since the outer event
has copied what the inner one runs and unbinds: the exception that the property names. The
queue of an element is a recursive function (`DelegatesFor`), whose values exist by the same
least place (`QueuesExist`). `EventsAssumption`: the ways up are chains that begin at the
element and pass none twice; of what a selector matches nothing is assumed.

### What is only model-checked

* Of the console's parts `QueuesGoOn`, `WidgetsKeepInStep` and `PagesShowTheirOwn`.
  `QueuesGoOn` is no theorem: for some pages it is false (those named above, which
  `MCShows` leaves out), so that it is a property of the calls which the run makes. The
  other two are many invariants, one for each page, and none of them needs another's.
* Liveness: `EveryRunEnds`, `EverySearchEnds`, `EveryGenerationEnds`, `EveryAnswerEnds`,
  `ConnectionRecovers` and `PageStarts`, and anything about ENABLED.

## Not modelled

Scores and rankings, analyzers, the text of queries, the layout of files, the
command line, and the demonstrations of Jena (`A_` to `G_`, Practica6), which keep
no state of their own. Lucene, Jena, OpenNLP, Nutch, Protege and the server side of
Solr are other people's programs; Solr's console is modelled because it is the one
interactive, concurrent program of the repository, and the repository carries its
source.

Of the console's scripts: the selectors, attributes, styles and element building of
jQuery, which compute from the document what the browser draws; d3, jstree and the
highlighter, which draw; the parts of RequireJS for modules that depend on each
other (the list has none), for packages and for other plugins; the parts of Sammy,
jquery.form and jquery.autocomplete that the console does not call. Wording,
units and layout are left out except where a property is about them (durations,
ages, percentages, the texts of a graph's nodes).

In the parts, the bounds on the number of visits and clicks are those of the run;
several parts at once are not checked, since they share no variable in the models,
and in the code only what `Console` models.

## Plan

Done: `IndexStore`, `IndexFiles` and its proofs, `SearchFiles`, `PagingSearch`,
`RomanNumerals`, `Evaluation`, `RdfFile`, `SemanticGenerator`, `SemanticSearcher`;
the console as a whole with its proofs, its loader, and its parts. Left, in order:

1. Proofs: of the console's parts the widgets of `WidgetsKeepInStep` and the pages that
   make up `PagesShowTheirOwn`, one by one; for `QueuesGoOn`, the calls of a page for
   which it holds.
2. `MiniTrec`: a searcher's results file as the input of `Evaluation`: which
   answers make the evaluation fail (a need without lines, fewer than ten of them,
   a line that was cut), and which repeat a document.
3. Modules that depend on each other, and packages, in `RequireLoader`.
4. The thesaurus of `creacionSKOS` as a graph: `broader` has no cycle, and the
   labels that the tokens of a text can match.
5. Splitting the reading and the adding of a document in `IndexFiles`, and loading
   in `SemanticSearcher`; two generators, or two semantic searchers, over the same file.
6. jstree and d3, as far as the cloud page depends on their state.
