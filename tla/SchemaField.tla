------------------------------- MODULE SchemaField -------------------------------
(***************************************************************************)
(* What the schema browser of the console shows: the fields of the index   *)
(* and of the schema merged into one, a field with the links to what it is *)
(* copied from and to, its type and dynamic field, its flags, the          *)
(* analyzers of its type, and its top terms.                               *)
(*                                                                         *)
(* A visit asks for the fields of the index, then the schema, then the     *)
(* template; what they bring goes into app.schema_browser_data, which the  *)
(* next visit deletes, and of which the answers of two visits can make one.*)
(***************************************************************************)
LOCAL INSTANCE Naturals
LOCAL INSTANCE Sequences
LOCAL INSTANCE SequencesExt
LOCAL INSTANCE FiniteSets
LOCAL INSTANCE TLC

CONSTANTS
    SchemaCore,   \* the cores with a schema to look at
    IndexOf,      \* the fields of the index of each, by name
    SchemaOf,     \* the fields of the schema of each, by name
    DynamicOf,    \* the type of each dynamic field
    DynamicFlags, \* and its flags
    TypesOf,      \* the types of each: with a similarity or not, the parts of its analyzers
    UniqueKeyOf, DefaultFieldOf,   \* the two fields that a schema names, if it does
    FlagKeys,     \* the letters of the flags, in the order of the key
    TextFlags,    \* what is said in words where flags should be
    NotThere,     \* a value that is not there
    SchemaRoutes, \* the routes that are visited, in a core
    MaxVisits,    \* bound on the visits
    MaxTerms      \* bound on the requests for the terms of a field

(***************************************************************************)
(* A field: its type, the dynamic field it comes from, the fields it is    *)
(* copied to and from, its three rows of flags, which are a letter or a    *)
(* dash for every letter of the key, and what else is known of it.         *)
(***************************************************************************)
Attributes == {"type", "base", "dests", "sources", "flags", "schema", "index"}
FieldOptions == {"docs", "distinct", "positionIncrementGap"}

FlagsAreWellFormed(v) ==
    v \notin {NotThere, TextFlags} =>
        /\ Len(v) = Len(FlagKeys)
        /\ \A i \in 1..Len(v) : v[i] # FlagKeys[i] => v[i] \notin ToSet(FlagKeys)

ASSUME SchemaAssumption ==
    \A c \in SchemaCore : \A of \in {IndexOf[c], SchemaOf[c]} : \A f \in DOMAIN of :
        /\ DOMAIN of[f] = Attributes \cup {"options"}
        /\ \A a \in {"flags", "schema", "index"} : FlagsAreWellFormed(of[f][a])
        /\ of[f].options \subseteq FieldOptions

VARIABLES
    visits,       \* the visits, in order
    data,         \* app.schema_browser_data, and the visits merged into it
    waits,        \* the answers that visits wait for
    page,         \* what is drawn
    terms,        \* the top terms on it, and the requests for them
    autoload,     \* the cookie
    crossed       \* an answer to a visit has come after the next visit (not in the code)

schemaVars == <<visits, data, waits, page, terms, autoload, crossed>>

NoSchemaData == [from |-> 0]
NoTerms == [loading |-> FALSE, disabled |-> FALSE, shown |-> {}, asked |-> 0, waiting |-> {}]
LoadingPage == [visit |-> 0]

SchemaInit ==
    /\ visits = <<>> /\ crossed = FALSE
    /\ data = NoSchemaData
    /\ waits = {}
    /\ page = LoadingPage /\ terms = NoTerms
    /\ autoload \in BOOLEAN

SchemaRests == autoload

Present == Len(visits)
CurrentCore == visits[Present].core

-------------------------------------------------------------------------------
(***************************************************************************)
(* The merge.  A name that is only a source or a destination of another    *)
(* becomes a partial field, and gets the link back; one that is met as     *)
(* both has only one of the two lists, and to push to the other throws.    *)
(***************************************************************************)
Plain_(f) == "partial" :> FALSE @@ f
PartialField ==
    [a \in Attributes |-> NotThere] @@ "partial" :> TRUE @@ "options" :> {}

(* $.extend: what the schema says of a field goes over what the index does. *)
ExtendedField(field, schema) ==
    [a \in Attributes |-> IF schema[a] # NotThere THEN schema[a] ELSE field[a]]
    @@ "partial" :> field.partial @@ "options" :> (field.options \cup schema.options)

Extended(fields, schema) ==
    [f \in DOMAIN fields \cup DOMAIN schema |->
        CASE f \notin DOMAIN schema -> fields[f]
          [] f \notin DOMAIN fields -> Plain_(schema[f])
          [] OTHER -> ExtendedField(fields[f], schema[f])]

(* A fault of the merge: the link back goes to a field the schema has as well. *)
LinkedBackAnyway(m, name, side, f) ==
    IF name \in DOMAIN m.fields /\ m.fields[name][side] # NotThere
    THEN [m EXCEPT !.fields[name][side] = Append(@, f)]
    ELSE [m EXCEPT !.fields = name :> [PartialField EXCEPT ![side] = <<f>>] @@ @]

LinkedBack(m, name, side, f) ==
    LET known == name \in DOMAIN m.fields
        partial == IF known THEN m.fields[name] ELSE [PartialField EXCEPT ![side] = <<>>]
        fields == name :> partial @@ m.fields
    IN  CASE m.thrown -> m
          [] ~m.thrown /\ ~partial.partial -> m
          [] ~m.thrown /\ partial.partial /\ partial[side] = NotThere ->
                [m EXCEPT !.fields = fields, !.thrown = TRUE]
          [] OTHER -> [m EXCEPT !.fields = [fields EXCEPT ![name][side] = Append(@, f)]]

ListOf(v) == IF v = NotThere THEN <<>> ELSE v

Pushed(lists, key, v) ==
    IF key = NotThere THEN lists
    ELSE key :> (IF key \in DOMAIN lists THEN Append(lists[key], v) ELSE <<v>>) @@ lists

Merged(m, f) ==
    LET field == m.fields[f]
        m1 == FoldLeft(LAMBDA x, d : LinkedBack(x, d, "sources", f), m, ListOf(field.dests))
        m2 == FoldLeft(LAMBDA x, s : LinkedBack(x, s, "dests", f), m1, ListOf(m1.fields[f].sources))
    IN  IF m2.thrown THEN m2
        ELSE [m2 EXCEPT !.typeOf = f :> field.type @@ @, !.ofType = Pushed(@, field.type, f),
                        !.ofBase = Pushed(@, field.base, f)]

MergedDynamic(m, dynamic) ==
    IF m.thrown THEN m
    ELSE [m EXCEPT !.typeOfDynamic = dynamic @@ @, !.dynamicOfType =
            FoldLeft(LAMBDA x, d : Pushed(x, dynamic[d], d), @, SetToSeq(DOMAIN dynamic))]

Merge(m, c) ==
    LET fields == Extended(m.fields, SchemaOf[c])
    IN  MergedDynamic(FoldLeft(Merged, [m EXCEPT !.fields = fields], SetToSeq(DOMAIN fields)),
                      DynamicOf[c])

-------------------------------------------------------------------------------
(***************************************************************************)
(* A visit, and the answers it waits for.  The data is the page's, not the *)
(* visit's: whoever comes finds what is there.                             *)
(***************************************************************************)
Waits(what, v) == [what |-> what, visit |-> v]
Crossing(v) == crossed' = (crossed \/ v # Present)

(* A fault of the route: the data of the last visit is kept. *)
VisitSchemaKeeping(r) ==
    /\ Present < MaxVisits
    /\ visits' = Append(visits, r)
    /\ waits' = waits \cup {Waits(IF data = NoSchemaData THEN "luke" ELSE "template", Present + 1)}
    /\ page' = LoadingPage /\ terms' = NoTerms
    /\ UNCHANGED <<autoload, crossed, data>>

VisitSchema(r) ==
    /\ Present < MaxVisits
    /\ visits' = Append(visits, r)
    /\ data' = NoSchemaData
    /\ waits' = waits \cup {Waits("luke", Present + 1)}
    /\ page' = LoadingPage /\ terms' = NoTerms
    /\ UNCHANGED <<autoload, crossed>>

LukeFields(v) ==
    /\ Waits("luke", v) \in waits
    /\ data' = [from |-> v, merges |-> <<>>, thrown |-> FALSE,
                fields |-> [f \in DOMAIN IndexOf[visits[v].core] |-> Plain_(IndexOf[visits[v].core][f])],
                typeOf |-> <<>>, ofType |-> <<>>, ofBase |-> <<>>,
                typeOfDynamic |-> <<>>, dynamicOfType |-> <<>>]
    /\ waits' = (waits \ {Waits("luke", v)}) \cup {Waits("schema", v)}
    /\ Crossing(v)
    /\ UNCHANGED <<visits, page, terms, autoload>>

SchemaFields(v) ==
    /\ Waits("schema", v) \in waits
    /\ LET m == Merge([data EXCEPT !.thrown = FALSE], visits[v].core)
           rest == waits \ {Waits("schema", v)}
       IN  IF data = NoSchemaData
           THEN waits' = rest /\ UNCHANGED data
           ELSE /\ data' = [m EXCEPT !.merges = Append(@, v)]
                /\ waits' = IF m.thrown THEN rest ELSE rest \cup {Waits("template", v)}
    /\ Crossing(v)
    /\ UNCHANGED <<visits, page, terms, autoload>>

(***************************************************************************)
(* schema_browser_navi: the links of a field, of a dynamic field, of a     *)
(* type.  To ask for a field that there is not throws, and leaves a page   *)
(* with nothing but its selects.                                           *)
(***************************************************************************)
At_(lists, key) == IF key \in DOMAIN lists THEN lists[key] ELSE <<>>
ValueOf(map, key) == IF key \in DOMAIN map THEN map[key] ELSE NotThere
One(v) == IF v = NotThere THEN <<>> ELSE <<v>>

NoLinks == [fields |-> <<>>, sources |-> <<>>, dests |-> <<>>, dynamic |-> <<>>, types |-> <<>>]

LinksOf(d, r) ==
    CASE r.type = "field" ->
            LET f == d.fields[r.value]
            IN  [NoLinks EXCEPT !.fields = <<r.value>>, !.dynamic = One(f.base),
                                !.types = One(ValueOf(d.typeOf, r.value)),
                                !.sources = ListOf(f.sources), !.dests = ListOf(f.dests)]
      [] r.type = "dynamic-field" ->
            [NoLinks EXCEPT !.dynamic = <<r.value>>, !.fields = At_(d.ofBase, r.value),
                            !.types = One(ValueOf(d.typeOfDynamic, r.value))]
      [] r.type = "type" ->
            [NoLinks EXCEPT !.types = <<r.value>>, !.fields = At_(d.ofType, r.value),
                            !.dynamic = At_(d.dynamicOfType, r.value)]
      [] OTHER -> NoLinks

Known_(d, r) == r.type = "field" => r.value \in DOMAIN d.fields

(***************************************************************************)
(* The callback of a route: the flags of a field or dynamic field, a cell  *)
(* for every letter of the key, checked if the letter stands in its place; *)
(* a column that is checked nowhere is hidden, and words take the width of *)
(* those that are left.  The types, the unique key and the default field   *)
(* are those of the last schema to come.                                   *)
(***************************************************************************)
Schemas(d) == IF d.merges = <<>> THEN {} ELSE {visits[Last(d.merges)].core}
FromSchema(d, what) == IF Schemas(d) = {} THEN NotThere ELSE what[CHOOSE c \in Schemas(d) : TRUE]

(* A fault of the table: the place in the flags goes on only at a match. *)
CheckedInARow(flags) ==
    FoldLeft(LAMBDA seen, key : IF flags[Cardinality(seen) + 1] = key THEN seen \cup {key} ELSE seen,
             {}, FlagKeys)

Checked(flags) == {FlagKeys[i] : i \in {j \in 1..Len(FlagKeys) : flags[j] = FlagKeys[j]}}

FlagRow(title, flags) ==
    IF flags = NotThere THEN <<>>
    ELSE <<[title |-> title, words |-> flags = TextFlags,
            checked |-> IF flags = TextFlags THEN {} ELSE Checked(flags)]>>

FlagRows(d, r) ==
    CASE r.type = "field" ->
            LET f == d.fields[r.value]
            IN  FlagRow("Properties", f.flags) \o FlagRow("Schema", f.schema)
                \o FlagRow("Index", f.index)
      [] r.type = "dynamic-field" /\ Schemas(d) # {} ->
            FlagRow("Properties", ValueOf(FromSchema(d, DynamicFlags), r.value))
      [] OTHER -> <<>>

FlagColumns(rows) == UNION {row.checked : row \in ToSet(rows)}

TypeToShow(d, r) ==
    LET t == CASE r.type = "field" -> ValueOf(d.typeOf, r.value)
               [] r.type = "dynamic-field" -> ValueOf(d.typeOfDynamic, r.value)
               [] OTHER -> r.value
        types == FromSchema(d, TypesOf)
    IN  IF types = NotThere \/ t \notin DOMAIN types THEN NotThere ELSE types[t]

(* An analyzer with no part to list has nothing to open. *)
AnalyzersShown(type) ==
    [a \in DOMAIN type.analyzers |->
        [parts |-> type.analyzers[a], toggle |-> type.analyzers[a] # {}, open |-> FALSE]]

AnalysisLink(r) ==
    IF r.type = "dynamic-field" THEN NotThere ELSE [core |-> CurrentCore, by |-> r.type, of |-> r.value]

OptionsShown(d, r) ==
    LET type == TypeToShow(d, r)
    IN  (IF r.type = "field" THEN d.fields[r.value].options ELSE {})
        \cup (IF r.type = "type" /\ type # NotThere /\ type.similarity THEN {"similarity"} ELSE {})

(***************************************************************************)
(* The links to the unique key and the default field, and which of the two *)
(* is marked as the one that is looked at.                                 *)
(***************************************************************************)
MarkedAsActive(d, r) ==
    {m \in {"key", "default"} :
        /\ r.type = "field"
        /\ r.value = FromSchema(d, IF m = "key" THEN UniqueKeyOf ELSE DefaultFieldOf)}

MetaLinks(d, r) ==
    [key |-> FromSchema(d, UniqueKeyOf), default |-> FromSchema(d, DefaultFieldOf),
     active |-> MarkedAsActive(d, r)]

NothingToSee == [meta |-> NotThere, rows |-> <<>>, columns |-> {}, options |-> {}, partial |-> FALSE,
                 analyzers |-> NotThere, analysis |-> NotThere]

Look(d, r) ==
    IF r.type = "none" THEN [NothingToSee EXCEPT !.meta = MetaLinks(d, r)]
    ELSE LET type == TypeToShow(d, r)
         IN  [meta |-> MetaLinks(d, r),
              rows |-> FlagRows(d, r), columns |-> FlagColumns(FlagRows(d, r)),
              options |-> OptionsShown(d, r),
              partial |-> r.type = "field" /\ d.fields[r.value].partial,
              analyzers |-> IF type = NotThere THEN NotThere ELSE AnalyzersShown(type),
              analysis |-> AnalysisLink(r)]

(***************************************************************************)
(* The template is drawn for the visit that asked for it; links to other   *)
(* pages have the core of the visit that was the last.  With the cookie    *)
(* the terms are asked for at once.                                        *)
(***************************************************************************)
AsksTerms(t) == [t EXCEPT !.loading = TRUE, !.asked = @ + 1, !.waiting = @ \cup {t.asked + 1}]

SchemaDrawn(v) ==
    /\ Waits("template", v) \in waits
    /\ waits' = waits \ {Waits("template", v)}
    /\ LET r == visits[v]
           shows == data # NoSchemaData /\ Known_(data, r)
       IN  /\ page' = [visit |-> v, shows |-> shows, core |-> CurrentCore,
                       links |-> IF shows THEN LinksOf(data, r) ELSE NoLinks,
                       look |-> IF shows THEN Look(data, r) ELSE NothingToSee,
                       merges |-> IF data = NoSchemaData THEN <<>> ELSE data.merges,
                       from |-> data.from]
           /\ terms' = IF shows /\ r.type # "none" /\ autoload THEN AsksTerms(NoTerms) ELSE NoTerms
    /\ Crossing(v)
    /\ UNCHANGED <<visits, data, autoload>>

SchemaLost(w) ==
    /\ w \in waits
    /\ waits' = waits \ {w}
    /\ UNCHANGED <<visits, data, page, terms, autoload, crossed>>

-------------------------------------------------------------------------------
(***************************************************************************)
(* load_terminfo: the terms of the field that is drawn.  The first request *)
(* to end takes the sign that one is under way with it.  The answer goes   *)
(* to the elements that were on the page when it was asked for.            *)
(***************************************************************************)
LoadTerms ==
    /\ page # LoadingPage /\ page.shows
    /\ visits[page.visit].type = "field"
    /\ terms.asked < MaxTerms
    /\ terms' = AsksTerms(terms)
    /\ UNCHANGED <<visits, data, waits, page, autoload, crossed>>

HasTerms == visits[page.visit].type = "field"

TermsCome(q, any) ==
    /\ q \in terms.waiting
    /\ any => HasTerms
    /\ terms' = [terms EXCEPT !.waiting = @ \ {q}, !.loading = FALSE, !.disabled = @ \/ ~any,
                              !.shown = IF any THEN {[field |-> visits[page.visit].value,
                                                      core |-> CurrentCore]} ELSE @]
    /\ UNCHANGED <<visits, data, waits, page, autoload, crossed>>

ToggleAutoload ==
    /\ page # LoadingPage /\ page.shows
    /\ autoload' = ~autoload
    /\ UNCHANGED <<visits, data, waits, page, terms, crossed>>

ToggleAnalyzer(a) ==
    /\ page # LoadingPage /\ page.look.analyzers # NotThere
    /\ a \in DOMAIN page.look.analyzers /\ page.look.analyzers[a].toggle
    /\ page' = [page EXCEPT !.look.analyzers[a].open = ~@]
    /\ UNCHANGED <<visits, data, waits, terms, autoload, crossed>>

SchemaFieldNext ==
    \/ \E r \in SchemaRoutes : VisitSchema(r)
    \/ \E v \in 1..Present : LukeFields(v) \/ SchemaFields(v) \/ SchemaDrawn(v)
    \/ \E w \in waits : SchemaLost(w)
    \/ LoadTerms \/ ToggleAutoload
    \/ \E a \in {"index", "query"} : ToggleAnalyzer(a)
    \/ \E q \in terms.waiting, any \in BOOLEAN : TermsCome(q, any)

SchemaFieldSpec == SchemaInit /\ [][SchemaFieldNext]_schemaVars

-------------------------------------------------------------------------------
(***************************************************************************)
(* The links as the server has them: a name is copied from every field     *)
(* that says it is copied to it, and to every field that says it is copied *)
(* from it.                                                                *)
(***************************************************************************)
FieldAt(c, f) ==
    CASE f \notin DOMAIN SchemaOf[c] -> IndexOf[c][f]
      [] f \notin DOMAIN IndexOf[c] -> SchemaOf[c][f]
      [] OTHER -> [a \in Attributes |-> IF SchemaOf[c][f][a] # NotThere THEN SchemaOf[c][f][a]
                                        ELSE IndexOf[c][f][a]]
NamesOf(c) == DOMAIN SchemaOf[c] \cup DOMAIN IndexOf[c]
CopiedTo(c, f) == {g \in NamesOf(c) : f \in ToSet(ListOf(FieldAt(c, g).dests))}
CopiedFrom(c, f) == {g \in NamesOf(c) : f \in ToSet(ListOf(FieldAt(c, g).sources))}

Once(s, set) == ToSet(s) = set /\ Len(s) = Cardinality(set)

AsTheServerHasIt(links, c, r) ==
    CASE r.type = "field" /\ r.value \in NamesOf(c) ->
            LET f == FieldAt(c, r.value)
            IN  /\ links.types = One(f.type) /\ links.dynamic = One(f.base)
                /\ links.sources = ListOf(f.sources) /\ links.dests = ListOf(f.dests)
      [] r.type = "field" /\ r.value \notin NamesOf(c) ->
            /\ Once(links.sources, CopiedTo(c, r.value)) /\ Once(links.dests, CopiedFrom(c, r.value))
            /\ links.sources # <<>> \/ links.dests # <<>>
      [] r.type = "type" ->
            /\ Once(links.fields, {f \in NamesOf(c) : FieldAt(c, f).type = r.value})
            /\ Once(links.dynamic, {d \in DOMAIN DynamicOf[c] : DynamicOf[c][d] = r.value})
      [] r.type = "dynamic-field" ->
            Once(links.fields, {f \in NamesOf(c) : FieldAt(c, f).base = r.value})
      [] OTHER -> links = NoLinks

(***************************************************************************)
(* A page that was drawn from its own visit's data shows each link of the  *)
(* server once.  (When the answers of two visits cross, a field is merged  *)
(* twice, or into the fields of another core: the links then double.)      *)
(***************************************************************************)
LinksAreTheServers ==
    page # LoadingPage /\ page.shows /\ page.from = page.visit /\ page.merges = <<page.visit>> =>
        AsTheServerHasIt(page.links, visits[page.visit].core, visits[page.visit])

(***************************************************************************)
(* And what it shows of a field, a dynamic field or a type is what the     *)
(* server says of that one: each row checks the letters of its flags and   *)
(* no other, a column is there for each letter of some row, the analyzers  *)
(* are those of its type in its own core, only a field that nothing but a  *)
(* copy speaks of is partial, and the unique key is marked when looked at. *)
(***************************************************************************)
FlagsOf(c, r) ==
    CASE r.type = "field" /\ r.value \in NamesOf(c) ->
            LET f == FieldAt(c, r.value) IN <<f.flags, f.schema, f.index>>
      [] r.type = "dynamic-field" -> <<DynamicFlags[c][r.value]>>
      [] OTHER -> <<>>

TypeAt(c, r) ==
    CASE r.type = "type" -> r.value
      [] r.type = "dynamic-field" -> DynamicOf[c][r.value]
      [] r.type = "field" /\ r.value \in NamesOf(c) -> FieldAt(c, r.value).type
      [] OTHER -> NotThere

LettersOf(flags) == IF flags = TextFlags THEN {} ELSE ToSet(flags) \cap ToSet(FlagKeys)

FieldIsDescribed(look, c, r) ==
    LET flags == SelectSeq(FlagsOf(c, r), LAMBDA f : f # NotThere)
        type == TypeAt(c, r)
    IN  /\ Len(look.rows) = Len(flags)
        /\ \A i \in 1..Len(flags) : look.rows[i].checked = LettersOf(flags[i])
        /\ look.columns = UNION {LettersOf(flags[i]) : i \in 1..Len(flags)}
        /\ type = NotThere <=> look.analyzers = NotThere
        /\ type # NotThere =>
            LET analyzers == TypesOf[c][type].analyzers
            IN  /\ DOMAIN look.analyzers = DOMAIN analyzers
                /\ \A a \in DOMAIN analyzers : look.analyzers[a].parts = analyzers[a]
        /\ look.partial <=> (r.type = "field" /\ r.value \notin NamesOf(c))
        /\ "key" \in look.meta.active <=> (r.type = "field" /\ r.value = UniqueKeyOf[c])

ThingsAreDescribed ==
    page # LoadingPage /\ page.shows /\ page.from = page.visit /\ page.merges = <<page.visit>> =>
        LET r == visits[page.visit]
        IN  r.type # "none" => FieldIsDescribed(page.look, r.core, r)

(***************************************************************************)
(* The page of the present visit links to its own core and has the terms   *)
(* of its own field; and unless an answer to an earlier visit has come in  *)
(* between, it is drawn from the data of its own visit.                    *)
(***************************************************************************)
PageIsOfItsVisit ==
    page # LoadingPage /\ page.visit = Present =>
        /\ page.core = visits[page.visit].core
        /\ terms.shown \subseteq {[field |-> visits[page.visit].value, core |-> page.core]}
        /\ ~crossed => page.from = page.visit /\ page.merges = <<page.visit>>

SchemaIsShown == LinksAreTheServers /\ ThingsAreDescribed /\ PageIsOfItsVisit
===============================================================================
