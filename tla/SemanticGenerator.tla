--------------------------- MODULE SemanticGenerator ---------------------------
(***************************************************************************)
(* The semantic generator, Practica5/.../SemanticGenerator.java: it builds *)
(* a graph from the records of a directory, one file at a time, and writes *)
(* it after the last one.                                                  *)
(*                                                                         *)
(* Executions follow one another, each over what the previous one left in  *)
(* the RDF file, while the directory changes.  The graph lives in memory:  *)
(* when an execution ends, however it ends, only the file is left of it.   *)
(***************************************************************************)
EXTENDS Sequences

CONSTANTS
    File,         \* names in the docs directory
    Record,       \* the records that a file may hold
    Name,         \* persons and departments, as the records write them
    NameOf,       \* NameOf[n]: n without its first name (parseNombre)
    Unparted,     \* the names made of commas, which have no parts
    HashCode,     \* HashCode[n]: the resource named by n's String.hashCode
    Concept,      \* the concepts of the thesaurus
    Labels,       \* Labels[c]: the preferred and alternative labels of c
    Base,         \* the statements of addConstantes, thesaurus and ontology
    None,         \* a field that the record does not have, or has empty
    Gone,         \* no file
    Unopenable,   \* a subdirectory, or a file that cannot be opened
    Malformed,    \* a file that is not XML or cannot be read to its end
    NoGraph,      \* the null that procesarFichero returns
    Absent,
    Truncated

VARIABLES
    content,      \* what each file of the docs directory holds
    at,           \* where the execution is
    todo,         \* the names that dir.list() gave and are still to be read
    graph,        \* rdfOut
    rdf,          \* the RDF file
    read,         \* (history) the records that this execution has read
    undisturbed   \* (history) the directory has not changed since its start

vars == <<content, at, todo, graph, rdf, read, undisturbed>>

Statement == [subject : STRING, property : STRING, object : STRING]

Rdf == INSTANCE RdfFile WITH Graph <- SUBSET Statement

Says(s, p, o) == Rdf!Says(s, p, o)

Tipo == {"Tesis", "TFG", "TFM", "TFC"}

(***************************************************************************)
(* The names of properties and of classes are strings.  (They are in TLA+; *)
(* the provers have to be told.)                                           *)
(***************************************************************************)
ASSUME VocabularyAssumption ==
    Tipo \cup {"type", "Idioma-documento", "title", "contribuido", "creado", "publisher", "Tema",
               "family_name", "Nombre-departamento", "Contributor", "Creator"} \subseteq STRING

(***************************************************************************)
(* A field that the record has is a text; persons and departments are      *)
(* texts, and what is made of them by hashCode, concatenation and split    *)
(* is a text again.                                                        *)
(***************************************************************************)
ASSUME RecordAssumption ==
    /\ \A r \in Record :
          /\ \A field \in {r.identifier, r.tipo, r.language, r.title} :
                field # None => field \in STRING
          /\ r.contributor \cup r.creator \cup r.publisher \subseteq Name
    /\ Name \cup Concept \subseteq STRING
    /\ \A n \in Name : {NameOf[n], HashCode[n], HashCode[n] \o "-nombre"} \subseteq STRING

(***************************************************************************)
(* addConstantes says of the languages that they are such; the thesaurus   *)
(* and the ontology speak of concepts, classes and properties.  None of    *)
(* them describes a document or names a person.                            *)
(***************************************************************************)
ASSUME BaseAssumption ==
    /\ Base \subseteq Statement
    /\ \A t \in Base : t.property \notin Rdf!DocumentProperties \cup {"family_name"}

Content == Record \cup {Gone, Unopenable, Malformed}

(***************************************************************************)
(* procesarCampos gets to its end: no get(0) of a field without values, a  *)
(* type in the list, and no name without parts.                            *)
(***************************************************************************)
Sound(r) ==
    /\ None \notin {r.identifier, r.tipo, r.language, r.title}
    /\ r.tipo \in Tipo
    /\ (r.contributor \cup r.creator) \cap Unparted = {}

(* A fault of Person: contributors and creators are given resources of their *)
(* own, and the link goes on leading to the common one.                      *)
PersonByRole(doc, link, role, n) ==
    {Says(HashCode[n] \o role, "type", role),
     Says(HashCode[n] \o role, "family_name", NameOf[n]),
     Says(doc, link, HashCode[n])}

Person(doc, link, role, n) ==
    {Says(HashCode[n], "type", role),
     Says(HashCode[n], "family_name", NameOf[n]),
     Says(doc, link, HashCode[n])}

Department(doc, n) ==
    {Says(HashCode[n] \o "-nombre", "type", "Nombre-departamento"),
     Says(HashCode[n], "Nombre-departamento", n),
     Says(doc, "publisher", HashCode[n])}

(***************************************************************************)
(* The concepts one of whose labels is a token of the record: a label of   *)
(* several words, or with a letter that tokenizar replaces, never is.      *)
(***************************************************************************)
Topics(r) == {c \in Concept : Labels[c] \cap r.tokens # {}}

Described(r) ==
    {Says(r.identifier, "type", r.tipo),
     Says(r.identifier, "Idioma-documento", r.language),
     Says(r.identifier, "title", r.title)}

StatementsOf(r) ==
    Described(r)
    \cup (UNION {Person(r.identifier, "contribuido", "Contributor", n) :
                    n \in r.contributor})
    \cup (UNION {Person(r.identifier, "creado", "Creator", n) : n \in r.creator})
    \cup (UNION {Department(r.identifier, n) : n \in r.publisher})
    \cup {Says(r.identifier, "Tema", c) : c \in Topics(r)}

Listed == {f \in File : content[f] # Gone}

-------------------------------------------------------------------------------
Init ==
    /\ content \in [File -> Content]
    /\ at = "ended"
    /\ todo = {}
    /\ graph = NoGraph
    /\ rdf = Absent
    /\ read = {}
    /\ undisturbed = TRUE

(***************************************************************************)
(* The models are loaded, the graph starts with the constants and the      *)
(* directory is listed; the list is null when that cannot be done.         *)
(***************************************************************************)
Start(names) ==
    /\ at = "ended"
    /\ at' = "walking"
    /\ todo' = names
    /\ graph' = Base
    /\ read' = {}
    /\ undisturbed' = (names = Listed)
    /\ UNCHANGED <<content, rdf>>

(* Faults of AfterUnopenable: the file is skipped, or a new graph is begun, *)
(* with the constants or without them.                                      *)
KeepGraph == graph
NewGraph == Base
BareGraph == {}

(***************************************************************************)
(* procesarFichero catches the exception and returns null for the graph.   *)
(***************************************************************************)
AfterUnopenable == NoGraph

Turn(f) == at = "walking" /\ f \in todo /\ todo' = todo \ {f}

Lose(f) ==
    /\ Turn(f)
    /\ content[f] \in {Gone, Unopenable}
    /\ graph' = AfterUnopenable
    /\ UNCHANGED <<content, at, rdf, read, undisturbed>>

(***************************************************************************)
(* A SAXException or an IOException is printed and the graph goes on.      *)
(***************************************************************************)
Skip(f) ==
    /\ Turn(f)
    /\ content[f] = Malformed
    /\ UNCHANGED <<content, at, graph, rdf, read, undisturbed>>

Faulty(f) == content[f] \in Record /\ (graph = NoGraph \/ ~Sound(content[f]))

AddRecord(f) ==
    /\ Turn(f)
    /\ content[f] \in Record
    /\ ~Faulty(f)
    /\ graph' = graph \cup StatementsOf(content[f])
    /\ read' = read \cup {content[f]}
    /\ UNCHANGED <<content, at, rdf, undisturbed>>

(* Faults of FailOnRecord: every exception is caught, the graph keeping what *)
(* the record gave it; or the walk starts the file over.                     *)
CatchAll(f) ==
    /\ Turn(f)
    /\ Faulty(f)
    /\ graph' = IF graph = NoGraph THEN graph
                ELSE graph \cup {Says(content[f].identifier, "type", content[f].tipo),
                                 Says(content[f].identifier, "Idioma-documento",
                                      content[f].language)}
    /\ UNCHANGED <<content, at, rdf, read, undisturbed>>
RetryRecord(f) ==
    /\ at = "walking"
    /\ f \in todo
    /\ Faulty(f)
    /\ UNCHANGED vars

(***************************************************************************)
(* A NullPointerException, an IndexOutOfBoundsException or an exit(1) ends *)
(* the program in the middle of a record: it lacks a field, its type is    *)
(* not in the list, a name has no parts, or there is no graph to add to.   *)
(***************************************************************************)
FailOnRecord(f) ==
    /\ Turn(f)
    /\ Faulty(f)
    /\ at' = "ended"
    /\ UNCHANGED <<content, graph, rdf, read, undisturbed>>

(***************************************************************************)
(* The argument of rdfOut.write: the file is opened, and emptied, before   *)
(* Java looks whether rdfOut is null.                                      *)
(***************************************************************************)
OpenOutput ==
    /\ at = "walking"
    /\ todo = {}
    /\ at' = "writing"
    /\ rdf' = Truncated
    /\ UNCHANGED <<content, todo, graph, read, undisturbed>>

Written == IF graph = NoGraph THEN rdf ELSE graph

Write ==
    /\ at = "writing"
    /\ at' = "ended"
    /\ rdf' = Written
    /\ UNCHANGED <<content, todo, graph, read, undisturbed>>

Die ==
    /\ at # "ended"
    /\ at' = "ended"
    /\ UNCHANGED <<content, todo, graph, rdf, read, undisturbed>>

(***************************************************************************)
(* Somebody replaces, removes or creates a file of the docs directory.     *)
(***************************************************************************)
ChangeDocs(f) ==
    /\ content' \in {[content EXCEPT ![f] = c] : c \in Content \ {content[f]}}
    /\ undisturbed' = FALSE
    /\ UNCHANGED <<at, todo, graph, rdf, read>>

Step ==
    \/ \E f \in File : Lose(f) \/ Skip(f) \/ AddRecord(f) \/ FailOnRecord(f)
    \/ OpenOutput
    \/ Write

Next ==
    \/ \E names \in {Listed, {}} : Start(names)
    \/ Step
    \/ Die
    \/ \E f \in File : ChangeDocs(f)

Spec == Init /\ [][Next]_vars

(***************************************************************************)
(* The program is one thread that waits for nothing.                       *)
(***************************************************************************)
FairSpec == Spec /\ WF_vars(Step)

-------------------------------------------------------------------------------
TypeOK ==
    /\ content \in [File -> Content]
    /\ at \in {"ended", "walking", "writing"}
    /\ todo \subseteq File
    /\ graph = NoGraph \/ Base \subseteq graph
    /\ rdf \in {Absent, Truncated} \/ Base \subseteq rdf
    /\ read \subseteq Record
    /\ undisturbed \in BOOLEAN

Filled == rdf' # rdf /\ rdf' # Truncated

(***************************************************************************)
(* The file goes from one whole graph to the next through being unloadable,*)
(* and no graph that is written has a document without type, language and  *)
(* title or a link to someone unnamed, whatever records end executions     *)
(* half way.                                                               *)
(***************************************************************************)
ImplementsRdf == Rdf!RdfSpec

(***************************************************************************)
(* What is written is the graph of all the records that the execution has  *)
(* read, in whatever order it came to them: a file that could not be       *)
(* opened never makes it lose silently those that were read before.        *)
(***************************************************************************)
GraphOfTheWalk ==
    [][Filled => rdf' = Base \cup UNION {StatementsOf(r) : r \in read}]_vars

(***************************************************************************)
(* When nobody touches the directory during an execution, the graph it     *)
(* writes lacks none of its files but those that are not XML.              *)
(***************************************************************************)
UndisturbedGraphIsComplete ==
    [][Filled /\ undisturbed =>
          \A f \in Listed : \/ content[f] = Malformed
                            \/ /\ content[f] \in Record
                               /\ StatementsOf(content[f]) \subseteq rdf']_vars

CreatorsIn(g, doc) ==
    {t.object : t \in {u \in g : /\ u.property = "family_name"
                                 /\ Says(doc, "creado", u.subject) \in g}}

(***************************************************************************)
(* The creators that the graph gives to a document are those its records   *)
(* name, and besides them only persons that share a hash code with one of  *)
(* them, whatever other records say of those persons.                      *)
(***************************************************************************)
CreatorsAreTheirs ==
    at # "ended" /\ graph # NoGraph =>
        \A r \in read :
            /\ {NameOf[n] : n \in r.creator} \subseteq CreatorsIn(graph, r.identifier)
            /\ \A who \in CreatorsIn(graph, r.identifier) :
                  \E s \in read : \E m \in s.creator, n \in Name :
                      /\ s.identifier = r.identifier
                      /\ NameOf[n] = who
                      /\ HashCode[n] = HashCode[m]

(***************************************************************************)
(* A graph in the making has the base statements under it and gives to     *)
(* every document its creators.                                            *)
(***************************************************************************)
Attribution == TypeOK /\ CreatorsAreTheirs

(***************************************************************************)
(* Every execution ends, with the graph written or not.                    *)
(***************************************************************************)
EveryGenerationEnds == at = "walking" ~> at = "ended"
===============================================================================
