-------------------------------- MODULE RdfFile --------------------------------
(***************************************************************************)
(* What the semantic generator owes to the semantic searcher: the RDF file *)
(* between them is a whole graph, or it cannot be loaded at all, and a     *)
(* graph describes every document and every person it speaks of.           *)
(*                                                                         *)
(* SemanticGenerator is shown to implement this module; SemanticSearcher   *)
(* is modelled over it.                                                    *)
(***************************************************************************)
CONSTANTS
    Graph,        \* the graphs, as sets of statements
    Absent,       \* there is no file
    Truncated     \* an empty file, or the beginning of one: not RDF

VARIABLE rdf      \* what is in the file

(***************************************************************************)
(* A statement of a graph.                                                 *)
(***************************************************************************)
Says(subject, property, object) ==
    [subject |-> subject, property |-> property, object |-> object]

SubjectsOf(g, property) == {t.subject : t \in {u \in g : u.property = property}}
ObjectsOf(g, property)  == {t.object : t \in {u \in g : u.property = property}}

DocumentProperties == {"Idioma-documento", "title", "contribuido", "creado",
                       "publisher", "Tema"}

DocumentsOf(g) == UNION {SubjectsOf(g, p) : p \in DocumentProperties}

(***************************************************************************)
(* No document is half described, and no link leads to someone without a   *)
(* name.                                                                   *)
(***************************************************************************)
Closed(g) ==
    /\ \A p \in {"type", "Idioma-documento", "title"} :
          DocumentsOf(g) \subseteq SubjectsOf(g, p)
    /\ ObjectsOf(g, "contribuido") \cup ObjectsOf(g, "creado")
          \subseteq SubjectsOf(g, "family_name")
    /\ ObjectsOf(g, "publisher") \subseteq SubjectsOf(g, "Nombre-departamento")

Loadable == rdf \notin {Absent, Truncated}

RdfInit == rdf = Absent

(***************************************************************************)
(* The file is opened to be written: what was there is gone.               *)
(***************************************************************************)
Empty == rdf' = Truncated

(* A fault of Fill: what a record has is written, whole or not. *)
FillAny == rdf = Truncated /\ rdf' \in Graph

(***************************************************************************)
(* The whole of a graph is written.                                        *)
(***************************************************************************)
Fill ==
    /\ rdf = Truncated
    /\ rdf' \in Graph
    /\ Closed(rdf')

RdfNext == Empty \/ Fill

RdfSpec == RdfInit /\ [][RdfNext]_rdf
===============================================================================
