----------------------------- MODULE MCConsolePage -----------------------------
(***************************************************************************)
(* The page of the console from its first script on: the loader brings the *)
(* scripts, and the last thing it does for them is to call app.run(), from *)
(* where the console goes on.                                              *)
(***************************************************************************)
EXTENDS AdminConsole, RequireLoader

CONSTANT Starters   \* the users who are seen loading the page

ASSUME StartersAssumption == Starters \subseteq Families

PageVars == <<vars, loaderVars>>

PageInit ==
    /\ Init
    /\ IF family \in Starters THEN LoaderInit ELSE LoaderIsThrough

Loading == LoaderNext /\ UNCHANGED vars
Loaded == appRuns > 0 /\ Next /\ UNCHANGED loaderVars

PageNext == Loading \/ Loaded

PageSpec == PageInit /\ [][PageNext]_PageVars /\ LoaderFairness /\ ConnectionFairness

-------------------------------------------------------------------------------
(***************************************************************************)
(* Users of the console.  Each goes about a few routes, two cores at most: *)
(* pages that share nothing but the location have no business together.    *)
(***************************************************************************)
CONSTANTS c1, c2

Global(page) == Route(page, NoCore, NoCore)
Of(page, core) == Route(page, core, NoCore)

Goes(routes, cores) ==
    [routes |-> routes, moves |-> 2, cores |-> cores, lossy |-> FALSE, cookie |-> FALSE]
Farther(f) == [f EXCEPT !.moves = 3]
Refreshing(f) == [f EXCEPT !.cookie = TRUE]
Losing(f) == [f EXCEPT !.lossy = TRUE]

(***************************************************************************)
(* Who loads the page stays where it takes him.                            *)
(***************************************************************************)
MCStarters == {[Goes({Global("threads")}, {}) EXCEPT !.moves = 0]}

(***************************************************************************)
(* A list like that of main.js, jquery in the same place: what runs before *)
(* it and what runs after it.                                              *)
(***************************************************************************)
MCList == <<"console", "jquery", "cookie", "sammy", "app", "cores">>

MCFamilies == MCStarters \cup {
    Goes({Of("dashboard", c1), Of("dashboard", c2)}, {c1, c2}),
    Farther(Goes({Of("query", c1), Global("java-properties"), Of("query", c2)}, {c1})),
    Goes({ListRoute, CoreRoute(c1), Global("threads")}, {c1}),
    Goes({CoreRoute(c1), CoreRoute(c2)}, {c1, c2}),
    Farther(Goes({PluginsRoute(c1, NoCore), PluginsRoute(c1, "core"), PluginsRoute(c2, NoCore)},
                 {c1, c2})),
    Goes({Of("schema-browser", c1), Of("schema-browser", c2), Global("cloud")}, {c1, c2}),
    Refreshing(Goes({ImportRoute(c1, NoCore), ImportRoute(c1, Handler), ImportRoute(c2, NoCore)},
                    {c1, c2})),
    Goes({Global("logging"), Global("level")}, {c1}),
    Refreshing(Goes({Global("logging"), ImportRoute(c1, Handler)}, {c1})),
    Goes({Of("replication", c1), Of("replication", c2)}, {c1, c2}),
    Goes({Of("replication", c1), PluginsRoute(c2, "core")}, {c1, c2}),
    Farther(Losing(Goes({Of("analysis", c1), Global("index")}, {c1})))
}
===============================================================================
