------------------------------- MODULE CachePages -------------------------------
(***************************************************************************)
(* The two pages of a core that keep what they have loaded in a global:    *)
(* plugins (scripts/plugins.js, app.plugin_data) and the schema browser    *)
(* (scripts/schema-browser.js, app.schema_browser_data).                   *)
(***************************************************************************)
EXTENDS Console

CONSTANT Types        \* types of plugins, the last part of the path
CONSTANT FirstType    \* the first one in the list

ASSUME TypesAssumption == FirstType \in Types

VARIABLES
    pluginData,   \* app.plugin_data: the core it describes, or NoCore
    schemaData    \* app.schema_browser_data: its parts; {} when deleted

cacheVars == <<pluginData, schemaData>>

CacheInit == pluginData = NoCore /\ schemaData = {}

-------------------------------------------------------------------------------
PluginsRoute(core, type) == Route("plugins", core, type)

(***************************************************************************)
(* render_plugin_data writes app.plugin_data into the page.                *)
(***************************************************************************)
Rendered(content) ==
    IF content.page = "plugins"
    THEN [content EXCEPT !.data = {[block |-> "plugins", core |-> pluginData]}]
    ELSE content

(* A fault of VisitPlugins: the data of the visit before is kept. *)
VisitPluginsKeeping(r) ==
    /\ RunRoute(r)
    /\ r.page = "plugins"
    /\ r.arg = NoCore
    /\ basepath' = r.core
    /\ requests' = IF pluginData # NoCore
                   THEN Sent({Ask("plugins template", r, visit + 1)})
                   ELSE Sent({Ask("mbeans", r, visit + 1)})
    /\ upset' = {}
    /\ UNCHANGED <<shown, cacheVars>>

(***************************************************************************)
(* #/core/plugins: forget the data, load it again and go to the first type.*)
(***************************************************************************)
VisitPlugins(r) ==
    /\ RunRoute(r)
    /\ r.page = "plugins"
    /\ r.arg = NoCore
    /\ basepath' = r.core
    /\ pluginData' = NoCore
    /\ requests' = Sent({Ask("mbeans", r, visit + 1)})
    /\ upset' = {}
    /\ UNCHANGED <<shown, schemaData>>

(***************************************************************************)
(* #/core/plugins has done its work and redirects here.                    *)
(***************************************************************************)
ComesFromPlugins(r) ==
    /\ route = PluginsRoute(r.core, NoCore)
    /\ \A q \in InFlight : q.visit # visit

(***************************************************************************)
(* #/core/plugins/type: with the data cached it is written at once into    *)
(* the page, if that is still there, whatever core it is of.               *)
(***************************************************************************)
VisitPluginType(r) ==
    /\ RunRoute(r)
    /\ r.page = "plugins"
    /\ r.arg # NoCore
    /\ basepath' = r.core
    /\ IF pluginData # NoCore
       THEN /\ shown' = Rendered(shown)
            /\ upset' = IF ComesFromPlugins(r) THEN upset
                        ELSE IF pluginData = r.core /\ shown.page = "plugins"
                             THEN {} ELSE {<<"cached", "plugins">>}
            /\ requests' = requests
       ELSE /\ requests' = Sent({Ask("mbeans", r, visit + 1)})
            /\ upset' = {}
            /\ UNCHANGED shown
    /\ UNCHANGED cacheVars

Mbeans(q) ==
    /\ Answer(q, "mbeans")
    /\ pluginData' = q.route.core
    /\ requests' = Exchanged(q, {Ask("plugins template", q.route, q.visit)})
    /\ upset' = Disturbed(q)
    /\ UNCHANGED <<user, place, menu, wrecked, shown, clock, alive, basepath, schemaData>>

(***************************************************************************)
(* The callback reads app.plugin_data again: it may have been deleted (a   *)
(* TypeError, with the empty template drawn) or be of another core.        *)
(***************************************************************************)
PluginsTemplate(q) ==
    LET drawn == Drawn("plugins", q.route, q.visit) IN
    /\ Answer(q, "plugins template")
    /\ IF pluginData # NoCore /\ q.route.arg = NoCore
       THEN Redirect(q.route, PluginsRoute(q.route.core, FirstType))
       ELSE UNCHANGED place
    /\ shown' = IF pluginData # NoCore /\ q.route.arg # NoCore
                THEN Rendered(drawn) ELSE drawn
    /\ requests' = Exchanged(q, {})
    /\ upset' = Disturbed(q)
    /\ UNCHANGED <<user, menu, wrecked, clock, alive, basepath, cacheVars>>

-------------------------------------------------------------------------------
(***************************************************************************)
(* #/core/schema-browser deletes the data before schema_browser_load looks *)
(* for it: it is always loaded anew, in two stages and a template.         *)
(***************************************************************************)
VisitSchemaBrowser(r) ==
    /\ RunRoute(r)
    /\ r.page = "schema-browser"
    /\ schemaData' = {}
    /\ shown' = Drawn("schema-browser", r, visit + 1)
    /\ requests' = Sent({Ask("luke", r, visit + 1)})
    /\ upset' = {}
    /\ UNCHANGED <<basepath, pluginData>>

Luke(q) ==
    /\ Answer(q, "luke")
    /\ schemaData' = {[block |-> "fields", core |-> q.route.core]}
    /\ requests' = Exchanged(q, {Ask("schema", q.route, q.visit)})
    /\ upset' = Disturbed(q)
    /\ UNCHANGED <<user, place, menu, wrecked, shown, clock, alive, basepath, pluginData>>

(***************************************************************************)
(* The schema is merged into the fields that are there, be they of another *)
(* core; deleted meanwhile, they stop the callback with a TypeError.       *)
(***************************************************************************)
Schema(q) ==
    /\ Answer(q, "schema")
    /\ IF schemaData = {}
       THEN /\ requests' = Exchanged(q, {})
            /\ UNCHANGED schemaData
       ELSE /\ schemaData' = schemaData \cup {[block |-> "schema", core |-> q.route.core]}
            /\ requests' = Exchanged(q, {Ask("schema template", q.route, q.visit)})
    /\ upset' = Disturbed(q)
    /\ UNCHANGED <<user, place, menu, wrecked, shown, clock, alive, basepath, pluginData>>

SchemaTemplate(q) ==
    /\ Answer(q, "schema template")
    /\ shown' = [Drawn("schema-browser", q.route, q.visit) EXCEPT !.data = schemaData]
    /\ requests' = Exchanged(q, {})
    /\ upset' = Disturbed(q)
    /\ UNCHANGED <<user, place, menu, wrecked, clock, alive, basepath, cacheVars>>

CacheVisit(r) == VisitPlugins(r) \/ VisitPluginType(r) \/ VisitSchemaBrowser(r)
CacheAnswer(q) ==
    Mbeans(q) \/ PluginsTemplate(q) \/ Luke(q) \/ Schema(q) \/ SchemaTemplate(q)
===============================================================================
