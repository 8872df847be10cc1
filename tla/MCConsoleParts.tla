----------------------------- MODULE MCConsoleParts -----------------------------
(***************************************************************************)
(* The parts of a page of the console that keep state of their own: those  *)
(* of jQuery under it, the widgets on it, and what single pages draw.      *)
(* They share no variable; here a page uses one of them.                   *)
(***************************************************************************)
EXTENDS Callbacks, Ajax, Effects, Events, Chosen, Autocomplete, SchemaField, CloudPage,
        DumpClipboard, AnalysisPage, DocumentsForm, ControlPages,
        SammyContext, StatusPages, TLC, Sequences

VARIABLE part      \* the part this page uses (chosen once)

JQueryParts == {"callbacks", "ajax", "effects", "events"}
HelperParts == {"chosen", "autocomplete", "address", "renders"}
PageParts == {"schema", "cloud", "dump", "analysis", "documents", "query"}
ControlParts == {"levels", "beans", "config", "overlay"}
ReportParts == {"system", "details", "health", "ping", "import"}
Parts == JQueryParts \cup HelperParts \cup PageParts \cup ControlParts \cup ReportParts

jQueryVars == <<callbackVars, ajaxVars, effectVars, eventVars>>
helperVars == <<chosenVars, autocompleteVars, addressVars, renderVars>>
pageVars == <<schemaVars, cloudVars, dumpVars, analysisVars, documentVars, queryVars>>
controlVars == <<levelVars, beanVars, configVars, overlayVars>>
reportVars == <<indexVars, detailsVars, healthVars, pingVars, statusVars>>
partVars == <<part, jQueryVars, helperVars, pageVars, controlVars, reportVars>>

PartsInit ==
    /\ part \in Parts
    /\ CallbacksInit /\ (part # "callbacks" => CallbacksRest)
    /\ AjaxInit /\ (part # "ajax" => AjaxRests)
    /\ EffectsInit /\ (part # "effects" => EffectsRest)
    /\ EventsInit
    /\ ChosenInit /\ (part # "chosen" => ChosenRests)
    /\ AutocompleteInit
    /\ SchemaInit /\ (part # "schema" => SchemaRests)
    /\ CloudInit /\ (part # "cloud" => CloudRests)
    /\ DumpInit /\ (part # "dump" => DumpRests)
    /\ AnalysisInit
    /\ DocumentsInit /\ (part # "documents" => DocumentsRest)
    /\ QueryInit
    /\ LevelsInit /\ BeansInit /\ ConfigInit /\ OverlayInit
    /\ AddressInit /\ (part # "address" => AddressRests)
    /\ RendersInit /\ (part # "renders" => RendersRest)
    /\ IndexInit /\ DetailsInit
    /\ HealthInit /\ (part # "health" => HealthRests)
    /\ PingInit /\ StatusInit /\ (part # "import" => StatusRests)

(***************************************************************************)
(* A step is one of the part in use; all the others rest, of its own group *)
(* and of the other groups.                                                *)
(***************************************************************************)
JQueryNext ==
    /\ part \in JQueryParts
    /\ UNCHANGED <<part, helperVars, pageVars, controlVars, reportVars>>
    /\ part # "callbacks" => UNCHANGED callbackVars
    /\ part # "ajax" => UNCHANGED ajaxVars
    /\ part # "effects" => UNCHANGED effectVars
    /\ part # "events" => UNCHANGED eventVars
    /\ \/ part = "callbacks" /\ CallbacksNext
       \/ part = "ajax" /\ AjaxNext
       \/ part = "effects" /\ EffectsNext
       \/ part = "events" /\ EventsNext

HelperNext ==
    /\ part \in HelperParts
    /\ UNCHANGED <<part, jQueryVars, pageVars, controlVars, reportVars>>
    /\ part # "chosen" => UNCHANGED chosenVars
    /\ part # "autocomplete" => UNCHANGED autocompleteVars
    /\ part # "address" => UNCHANGED addressVars
    /\ part # "renders" => UNCHANGED renderVars
    /\ \/ part = "chosen" /\ ChosenNext
       \/ part = "autocomplete" /\ AutocompleteNext
       \/ part = "address" /\ AddressNext
       \/ part = "renders" /\ RendersNext

PageNext ==
    /\ part \in PageParts
    /\ UNCHANGED <<part, jQueryVars, helperVars, controlVars, reportVars>>
    /\ part # "schema" => UNCHANGED schemaVars
    /\ part # "cloud" => UNCHANGED cloudVars
    /\ part # "dump" => UNCHANGED dumpVars
    /\ part # "analysis" => UNCHANGED analysisVars
    /\ part # "documents" => UNCHANGED documentVars
    /\ part # "query" => UNCHANGED queryVars
    /\ \/ part = "schema" /\ SchemaFieldNext
       \/ part = "cloud" /\ CloudNext
       \/ part = "dump" /\ DumpNext
       \/ part = "analysis" /\ AnalysisNext
       \/ part = "documents" /\ DocumentsNext
       \/ part = "query" /\ QueryNext

ControlNext ==
    /\ part \in ControlParts
    /\ UNCHANGED <<part, jQueryVars, helperVars, pageVars, reportVars>>
    /\ part # "levels" => UNCHANGED levelVars
    /\ part # "beans" => UNCHANGED beanVars
    /\ part # "config" => UNCHANGED configVars
    /\ part # "overlay" => UNCHANGED overlayVars
    /\ \/ part = "levels" /\ LevelsNext
       \/ part = "beans" /\ BeansNext
       \/ part = "config" /\ ConfigNext
       \/ part = "overlay" /\ OverlayNext

ReportNext ==
    /\ part \in ReportParts
    /\ UNCHANGED <<part, jQueryVars, helperVars, pageVars, controlVars>>
    /\ part # "system" => UNCHANGED indexVars
    /\ part # "details" => UNCHANGED detailsVars
    /\ part # "health" => UNCHANGED healthVars
    /\ part # "ping" => UNCHANGED pingVars
    /\ part # "import" => UNCHANGED statusVars
    /\ \/ part = "system" /\ IndexNext
       \/ part = "details" /\ DetailsNext
       \/ part = "health" /\ HealthNext
       \/ part = "ping" /\ PingNext
       \/ part = "import" /\ StatusNext

PartsNext == JQueryNext \/ HelperNext \/ PageNext \/ ControlNext \/ ReportNext

PartsSpec == PartsInit /\ [][PartsNext]_partVars

(***************************************************************************)
(* The widgets: a drawn select, and the list of suggestions under the      *)
(* query, offer and show what their fields say while answers, timers, keys *)
(* and the mouse come in any order.                                        *)
(***************************************************************************)
WidgetsKeepInStep ==
    /\ part = "chosen" => SelectsAreShown
    /\ part = "autocomplete" => SuggestionsFollow

(***************************************************************************)
(* The pages: what is drawn, copied, marked or sent belongs to the visit,  *)
(* the address or the form that it was asked for.                          *)
(***************************************************************************)
PagesShowTheirOwn ==
    /\ part = "schema" => SchemaIsShown
    /\ part = "cloud" => CloudIsShown
    /\ part = "dump" => DumpIsCopied
    /\ part = "analysis" => AnalysisIsShown
    /\ part = "documents" => DocumentsAreSent
    /\ part = "query" => QueryIsAsked
    /\ part = "levels" => LevelsAreShown
    /\ part = "beans" => BeansAreShown
    /\ part = "config" => ConfigIsShown
    /\ part = "overlay" => OverlayIsWhole
    /\ part = "system" => SystemIsShown
    /\ part = "details" => DetailsAreShown
    /\ part = "health" => HealthIsShown
    /\ part = "ping" => PingIsShown
    /\ part = "import" => StatusIsShown

-------------------------------------------------------------------------------
(***************************************************************************)
(* Requests: plain; with a timeout and no global events; not asynchronous; *)
(* refused by beforeSend; with no transport; for a script, with a timeout. *)
(***************************************************************************)
Plain == [by |-> "xhr", async |-> TRUE, global |-> TRUE, timeout |-> FALSE, jsonp |-> FALSE,
          refuses |-> FALSE]

MCOptions ==
    {Plain, [Plain EXCEPT !.timeout = TRUE, !.global = FALSE], [Plain EXCEPT !.async = FALSE],
     [Plain EXCEPT !.refuses = TRUE], [Plain EXCEPT !.by = "none"],
     [Plain EXCEPT !.by = "script", !.jsonp = TRUE, !.timeout = TRUE]}

(***************************************************************************)
(* Pages that toggle their elements and hide, show or move them as well.   *)
(***************************************************************************)
Toggle == [props |-> {"height"}, way |-> "toggle", queued |-> TRUE, instant |-> FALSE,
           then |-> "nothing"]
Show(animations, delays, stop) ==
    [animations |-> animations, delays |-> delays, stops |-> {stop}, promises |-> TRUE]

MCShows ==
    {Show({Toggle, [Toggle EXCEPT !.props = {"height", "opacity"}, !.way = "hide"]}, FALSE,
          <<FALSE, FALSE>>),
     Show({Toggle, [Toggle EXCEPT !.way = "show", !.instant = TRUE]}, TRUE, <<FALSE, TRUE>>),
     Show({Toggle, [Toggle EXCEPT !.queued = FALSE, !.way = "to", !.then = "stop"]}, FALSE,
          <<TRUE, FALSE>>)}

MCBound ==
    {[fn |-> "f", ns |-> "ns", one |-> TRUE], [fn |-> "f", ns |-> "-", one |-> FALSE]}

(***************************************************************************)
(* A cell in a row of a page, and a selector that matches both.            *)
(***************************************************************************)
MCAncestors ==
    [cell |-> <<"cell", "row", "page">>, row |-> <<"row", "page">>, page |-> <<"page">>]
MCSelected == "*" :> {"cell", "row"}

(***************************************************************************)
(* Menus of cores, a multiple select with a group and a disabled option.   *)
(***************************************************************************)
O(t) == [group |-> FALSE, text |-> t, disabled |-> FALSE]
MCMenus == {<<O("-"), O("c1"), O("c2")>>, <<O("-"), O("c2")>>}
MCMultiples ==
    {<<[O("g") EXCEPT !.group = TRUE], O("a"), [O("x") EXCEPT !.disabled = TRUE], O("b"), O("c")>>}
MCWords == {[text |-> TRUE, finds |-> {"c2", "b"}], [text |-> TRUE, finds |-> {}]}

(***************************************************************************)
(* Suggestions that differ in the case of their letters.                   *)
(***************************************************************************)
MCLetters == "i" :> "i" @@ "I" :> "i"
MCTerms == << <<"i", "i">>, <<"i", "I">>, <<"I", "i">> >>

(***************************************************************************)
(* Two cores, one with dynamic fields and copies, one copying in a circle. *)
(***************************************************************************)
Said(t, d, s, letters, o) ==
    [type |-> t, base |-> NotThere, dests |-> d, sources |-> s, flags |-> letters,
     schema |-> NotThere, index |-> NotThere, options |-> o]
Indexed(t, b, stored, inIndex) ==
    [type |-> t, base |-> b, dests |-> NotThere, sources |-> NotThere, flags |-> NotThere,
     schema |-> stored, index |-> inIndex, options |-> {"docs"}]
MCKeys == <<"I", "T", "S">>
MCIndex == [k1 |-> [id |-> Indexed("string", NotThere, <<"I", "-", "S">>, <<"I", "-", "-">>),
                    a_t |-> Indexed("text", "*_t", <<"-", "T", "S">>, TextFlags)],
            k2 |-> [id |-> Indexed("int", NotThere, <<"-", "-", "S">>, TextFlags)]]
MCSchema ==
    [k1 |-> [id |-> Said("string", <<"all">>, <<>>, <<"I", "-", "S">>, {}),
             all |-> Said("text", <<"all_t">>, <<"id", "x_t">>, <<"-", "T", "-">>,
                          {"positionIncrementGap"})],
     k2 |-> [id |-> Said("int", <<"other">>, <<"other">>, <<"-", "-", "S">>, {})]]
MCDynamic == [k1 |-> ("*_t" :> "text"), k2 |-> <<>>]
MCDynamicFlags == [k1 |-> ("*_t" :> <<"-", "T", "S">>), k2 |-> <<>>]
NoAnalyzers == [similarity |-> FALSE, analyzers |-> <<>>]
MCTypes ==
    [k1 |-> [string |-> NoAnalyzers,
             text |-> [similarity |-> TRUE,
                       analyzers |-> [index |-> {"tokenizer", "filters"}, query |-> {"tokenizer"}]]],
     k2 |-> [int |-> [similarity |-> FALSE, analyzers |-> [index |-> {}]]]]
MCUniqueKey == [k1 |-> "id", k2 |-> "id"]
MCDefaultField == [k1 |-> "all", k2 |-> NotThere]
R(c, t, v) == [core |-> c, type |-> t, value |-> v]
MCRoutes ==
    {R("k1", "field", "id"), R("k1", "field", "all_t"), R("k1", "type", "text"),
     R("k1", "dynamic-field", "*_t"), R("k2", "field", "id"), R("k1", "none", "-")}

(***************************************************************************)
(* One and two live nodes, and a replica whose address is no address.      *)
(***************************************************************************)
U(h, p) == [protocol |-> "http:", hostname |-> h, port |-> p, pathname |-> "/solr"]
Rep(n, s, u) == [node |-> n, state |-> s, uri |-> u, bad |-> FALSE]
R1 == Rep("n1", "active", U("h", 80))
R2 == Rep("n2", "down", U("h", 81))
MCClusters ==
    {[live |-> {"n1"}, replicas |-> <<R1>>], [live |-> {"n1", "n2"}, replicas |-> <<R1, R2>>],
     [live |-> {"n2"}, replicas |-> <<[R2 EXCEPT !.bad = TRUE], R1>>]}

(***************************************************************************)
(* Analyses: steps that move tokens, drop them and give two one position.  *)
(***************************************************************************)
T(p, f) == [position |-> p, first |-> f]
MCAnalyses ==
    {<< <<T(0, 0)>>, <<T(1, 1), T(2, 2)>>, <<T(2, 2)>> >>,
     << <<T(1, 1), T(3, 3)>>, <<T(1, 1), T(2, 1), T(4, 3)>> >>,
     << <<T(1, 1)>>, <<>> >>,
     << <<T(1, 1), T(3, 3)>> >>}

(***************************************************************************)
(* Loggers: a class inside another, and a name that the expression of      *)
(* another logger reads as its own.                                        *)
(***************************************************************************)
MCLoggers ==
    {<<>>, <<"org">>, <<"org", "a">>, <<"org", "a", "X">>, <<"org", "a", "X$Y">>, <<"org-a">>,
     <<"org-a", "Z">>}
MCLoggerWords == {"org", "a", "X", "Z"}
MCReadAs == [l \in MCLoggers |-> IF l = <<"org", "a">> THEN {l, <<"org-a">>} ELSE {l}]

(***************************************************************************)
(* Beans: one whose name ends with another's, and one of another type.     *)
(***************************************************************************)
MCBeansOf == [cache |-> {<<"b">>, <<"x", "b">>, <<"c">>}, other |-> {<<"d">>}]
MCRestless == {<<"b">>}

(***************************************************************************)
(* A configuration that is no XML, and its repair.                         *)
(***************************************************************************)
MCConfigFiles == <<"x", "b">>

(***************************************************************************)
(* A route that redirects to another; templates, one of them empty; chains *)
(* of the forms that Sammy's comments show, and two that fail by their own *)
(* functions.                                                              *)
(***************************************************************************)
MCRedirectOf == "#/k" :> "#/"
MCTemplateOf == [a |-> <<"a">>, b |-> <<>>, d |-> <<"d">>]
MCEmptyTemplate == <<>>
MCEngineOf == [a |-> "mustache", b |-> "ejs", d |-> "plain"]

Chained(first, later) == [first |-> first, later |-> later]
MCPrograms ==
    {Chained(<<LoadOp("d", TRUE, FALSE)>> \o PartialOps("a", NoValue), <<>>),
     Chained(<<LoadOp("a", TRUE, TRUE), InterpolateOp(<<"x">>, "a")>>, SwapOps),
     Chained(RenderEachOps("b", <<"x">>), <<InterpolateOp(<<"y">>, "a")>> \o SwapOps),
     Chained(<<SendOp(<<"s">>), Op("swap")>>, RenderOps("b", NoValue) \o SwapOps),
     Chained(<<LoadOp("d", FALSE, FALSE), WaitOp(<<"w">>), Op("swap"), Op("swap")>>, <<>>),
     Chained(<<CallOp(<<"c">>), Op("throw"), Op("swap")>>, <<CallOp(<<"e">>)>>)}

(***************************************************************************)
(* Links: with a filter given twice, with an empty value before another,   *)
(* into the closed set, and with a name no field has.                      *)
(***************************************************************************)
MCLinks ==
    {<< <<"fq", "a">>, <<"fq", "b">> >>, << <<"q", "a">>, <<"fq", "a">>, <<"other", "a">> >>,
     << <<"q", "">>, <<"q", "b">>, <<"qf", "a">>, <<"defType", "b">> >>}

(***************************************************************************)
(* Systems: with numbers in two units, half a percent and a gigabyte;      *)
(* without swap, where nothing is divided by nothing; with nothing to say. *)
(***************************************************************************)
B(n) == [n |-> n, unit |-> 0]
KB(n) == [n |-> n, unit |-> 1]
MCFirst ==
    [load |-> "low", bars |-> "physical-memory" :> [max |-> KB(1048576), total |-> KB(512)]
                           @@ "jvm-memory" :> [max |-> B(4000), total |-> B(3000), used |-> B(2)]
                           @@ "file-descriptor" :> [max |-> B(200), total |-> B(31)]]
MCSystems ==
    {MCFirst,
     [load |-> "high", bars |-> "swap-space" :> [max |-> B(0), total |-> B(0)]
                             @@ "jvm-memory" :> [max |-> B(4000), total |-> B(3000), used |-> B(1001)]],
     [load |-> NotSaid, bars |-> <<>>]}

(***************************************************************************)
(* Details: of a master; of a slave that is behind, that replicates, whose *)
(* polling is disabled, that does not reach its master.                    *)
(***************************************************************************)
OfMaster ==
    [slave |-> FALSE, version |-> 2, generation |-> 2, replicable |-> <<2, 2>>, enabled |-> TRUE,
     files |-> "schema"]
OfSlave ==
    [slave |-> TRUE, error |-> "none", percent |-> 0, replicated |-> <<2, 1, 2>>, failed |-> <<1, 3>>,
     lastReplicated |-> 2, lastFailed |-> 3, version |-> 1, generation |-> 2, replicable |-> <<2, 2>>,
     url |-> "master", polls |-> TRUE, interval |-> [parts |-> <<1, 0, 59>>, tenths |-> 5],
     next |-> 70, now |-> 9, busy |-> FALSE, enabled |-> TRUE, files |-> "schema"]
MCDetails ==
    {OfMaster, OfSlave,
     [OfSlave EXCEPT !.busy = TRUE, !.percent = 50, !.replicated = <<>>, !.failed = <<>>],
     [OfSlave EXCEPT !.version = 2, !.polls = FALSE, !.enabled = FALSE, !.next = NotSaid],
     [OfSlave EXCEPT !.version = 2, !.next = NotSaid, !.lastFailed = NotSaid],
     [OfSlave EXCEPT !.error = "invalid_master", !.replicable = NotSaid, !.version = 2]}

(***************************************************************************)
(* Statuses of an import: that runs, since an hour and since just now; that*)
(* succeeded, was rolled back, is being aborted; of a server that had none.*)
(***************************************************************************)
MCPingTimes == [k1 |-> {1, 2}, k2 |-> {3}]
Lasting(parts, tenths) == [parts |-> parts, tenths |-> tenths]
Numbers == "Requests" :> 3 @@ "Fetched" :> 3000 @@ "Skipped" :> 1 @@ "Processed" :> 2995
MCStatuses ==
    {[status |-> "busy", messages |-> "Time Elapsed" :> Lasting(<<1, 0, 7>>, 5) @@ Numbers
                                      @@ "Started" :> 76],
     [status |-> "busy", messages |-> "Time Elapsed" :> Lasting(<<0, 0, 0>>, 4) @@ Numbers],
     [status |-> "idle", messages |-> "Time taken" :> Lasting(<<0, 1, 1>>, 0) @@ Numbers
                                      @@ "Started" :> 0 @@ "" :> "Indexing completed"],
     [status |-> "idle", messages |-> "Rolledback" :> 119 @@ "Started" :> 1],
     [status |-> "idle", messages |-> "Aborted" :> 120 @@ "Started" :> 2 @@ "Fetched" :> 7],
     [status |-> "idle", messages |-> <<>>]}

(***************************************************************************)
(* Two states of a page differ when the part it uses does: the variables   *)
(* of the others rest.                                                     *)
(***************************************************************************)
PartOfThePage ==
    CASE part = "events" -> eventVars
      [] part = "effects" -> effectVars
      [] part = "autocomplete" -> autocompleteVars
      [] part = "import" -> statusVars
      [] part = "query" -> queryVars
      [] part = "callbacks" -> callbackVars
      [] part = "ajax" -> ajaxVars
      [] part = "chosen" -> chosenVars
      [] part = "schema" -> schemaVars
      [] part = "cloud" -> cloudVars
      [] part = "dump" -> dumpVars
      [] part = "analysis" -> analysisVars
      [] part = "documents" -> documentVars
      [] part = "levels" -> levelVars
      [] part = "beans" -> beanVars
      [] part = "config" -> configVars
      [] part = "overlay" -> overlayVars
      [] part = "address" -> addressVars
      [] part = "renders" -> renderVars
      [] part = "system" -> indexVars
      [] part = "details" -> detailsVars
      [] part = "health" -> healthVars
      [] part = "ping" -> pingVars

MCView == <<part, PartOfThePage>>
===============================================================================
