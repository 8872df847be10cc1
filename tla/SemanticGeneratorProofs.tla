------------------------ MODULE SemanticGeneratorProofs ------------------------
(***************************************************************************)
(* Proofs about SemanticGenerator, for any directory, any records and any  *)
(* hash function: what the graph in the making is at each step, that what  *)
(* is written is it, that it is closed and that it gives documents their   *)
(* creators.                                                               *)
(***************************************************************************)
EXTENDS SemanticGenerator, TLAPS

GraphOf(records) == Base \cup UNION {StatementsOf(r) : r \in records}

Complete == {r \in Record : Sound(r)}

(***************************************************************************)
(* Wherever the execution is, its graph is that of the records it has      *)
(* read, all of them complete, or it has none.                             *)
(***************************************************************************)
GraphIsOfTheRead ==
    /\ read \subseteq Complete
    /\ graph = NoGraph \/ graph = GraphOf(read)

(***************************************************************************)
(* Since nothing was changed from the listing on, the files that are not   *)
(* any longer to be read hold what they held when their turn came.         *)
(***************************************************************************)
NothingLeftBehind ==
    at # "ended" /\ undisturbed /\ graph # NoGraph =>
        \A f \in Listed \ todo : content[f] = Malformed \/ content[f] \in read

WalkInv ==
    /\ TypeOK
    /\ GraphIsOfTheRead
    /\ at = "writing" => rdf = Truncated /\ todo = {}
    /\ NothingLeftBehind

-------------------------------------------------------------------------------
(* Statements. *)

LEMMA SaysFields ==
    ASSUME NEW s, NEW p, NEW o
    PROVE  /\ Says(s, p, o).subject = s
           /\ Says(s, p, o).property = p
           /\ Says(s, p, o).object = o
BY DEF Says, Rdf!Says

LEMMA AmongStatements ==
    ASSUME NEW r, NEW t
    PROVE  t \in StatementsOf(r) <=>
             \/ t \in Described(r)
             \/ \E n \in r.contributor : t \in Person(r.identifier, "contribuido", "Contributor", n)
             \/ \E n \in r.creator : t \in Person(r.identifier, "creado", "Creator", n)
             \/ \E n \in r.publisher : t \in Department(r.identifier, n)
             \/ \E c \in Topics(r) : t = Says(r.identifier, "Tema", c)
<1>1. t \in UNION {Person(r.identifier, "contribuido", "Contributor", n) : n \in r.contributor}
        <=> \E n \in r.contributor : t \in Person(r.identifier, "contribuido", "Contributor", n)
  BY Zenon
<1>2. t \in UNION {Person(r.identifier, "creado", "Creator", n) : n \in r.creator}
        <=> \E n \in r.creator : t \in Person(r.identifier, "creado", "Creator", n)
  BY Zenon
<1>3. t \in UNION {Department(r.identifier, n) : n \in r.publisher}
        <=> \E n \in r.publisher : t \in Department(r.identifier, n)
  BY Zenon
<1>4. t \in {Says(r.identifier, "Tema", c) : c \in Topics(r)}
        <=> \E c \in Topics(r) : t = Says(r.identifier, "Tema", c)
  BY Zenon
<1>5. QED
  <2> DEFINE contributors == UNION {Person(r.identifier, "contribuido", "Contributor", n) :
                                      n \in r.contributor}
             creators == UNION {Person(r.identifier, "creado", "Creator", n) : n \in r.creator}
             departments == UNION {Department(r.identifier, n) : n \in r.publisher}
             topics == {Says(r.identifier, "Tema", c) : c \in Topics(r)}
  <2>1. StatementsOf(r) = Described(r) \cup contributors \cup creators \cup departments \cup topics
    BY DEF StatementsOf
  <2>2. t \in StatementsOf(r) <=>
          t \in Described(r) \/ t \in contributors \/ t \in creators \/ t \in departments \/ t \in topics
    <3> HIDE DEF contributors, creators, departments, topics
    <3> QED
      BY <2>1
  <2>3. QED
    BY <1>1, <1>2, <1>3, <1>4, <2>2, Zenon

(***************************************************************************)
(* What the description of a record may say of documents and of persons.   *)
(***************************************************************************)
Speaks(r, t) ==
    /\ t.property \in Rdf!DocumentProperties => t.subject = r.identifier
    /\ t.property = "family_name" =>
          \E n \in r.contributor \cup r.creator :
              t.subject = HashCode[n] /\ t.object = NameOf[n]
    /\ t.property = "contribuido" => \E n \in r.contributor : t.object = HashCode[n]
    /\ t.property = "creado" => \E n \in r.creator : t.object = HashCode[n]
    /\ t.property = "publisher" => \E n \in r.publisher : t.object = HashCode[n]

LEMMA RecordSpeaks ==
    ASSUME NEW r, NEW t \in StatementsOf(r)
    PROVE  Speaks(r, t)
<1>1. CASE t \in Described(r)
  <2>1. t.property \in {"type", "Idioma-documento", "title"} /\ t.subject = r.identifier
    BY <1>1, SaysFields DEF Described
  <2>2. QED
    BY <2>1 DEF Speaks
<1>2. CASE \E n \in r.contributor : t \in Person(r.identifier, "contribuido", "Contributor", n)
  <2> PICK n \in r.contributor : t \in Person(r.identifier, "contribuido", "Contributor", n)
    BY <1>2
  <2>1. \/ t.property = "type"
        \/ t.property = "family_name" /\ t.subject = HashCode[n] /\ t.object = NameOf[n]
        \/ t.property = "contribuido" /\ t.subject = r.identifier /\ t.object = HashCode[n]
    BY SaysFields DEF Person
  <2>2. QED
    BY <2>1 DEF Speaks, Rdf!DocumentProperties
<1>3. CASE \E n \in r.creator : t \in Person(r.identifier, "creado", "Creator", n)
  <2> PICK n \in r.creator : t \in Person(r.identifier, "creado", "Creator", n)
    BY <1>3
  <2>1. \/ t.property = "type"
        \/ t.property = "family_name" /\ t.subject = HashCode[n] /\ t.object = NameOf[n]
        \/ t.property = "creado" /\ t.subject = r.identifier /\ t.object = HashCode[n]
    BY SaysFields DEF Person
  <2>2. QED
    BY <2>1 DEF Speaks, Rdf!DocumentProperties
<1>4. CASE \E n \in r.publisher : t \in Department(r.identifier, n)
  <2> PICK n \in r.publisher : t \in Department(r.identifier, n)
    BY <1>4
  <2>1. \/ t.property \in {"type", "Nombre-departamento"}
        \/ t.property = "publisher" /\ t.subject = r.identifier /\ t.object = HashCode[n]
    BY SaysFields DEF Department
  <2>2. QED
    BY <2>1 DEF Speaks, Rdf!DocumentProperties
<1>5. CASE \E c \in Topics(r) : t = Says(r.identifier, "Tema", c)
  <2>1. t.property = "Tema" /\ t.subject = r.identifier
    BY <1>5, SaysFields
  <2>2. QED
    BY <2>1 DEF Speaks
<1>6. QED
  BY <1>1, <1>2, <1>3, <1>4, <1>5, AmongStatements

(***************************************************************************)
(* What it does say of them.                                               *)
(***************************************************************************)
LEMMA RecordSays ==
    ASSUME NEW r
    PROVE  /\ Described(r) \subseteq StatementsOf(r)
           /\ \A n \in r.contributor \cup r.creator :
                 Says(HashCode[n], "family_name", NameOf[n]) \in StatementsOf(r)
           /\ \A n \in r.creator :
                 Says(r.identifier, "creado", HashCode[n]) \in StatementsOf(r)
           /\ \A n \in r.publisher :
                 Says(HashCode[n], "Nombre-departamento", n) \in StatementsOf(r)
<1>1. ASSUME NEW doc, NEW link, NEW role, NEW n
      PROVE  /\ Says(HashCode[n], "family_name", NameOf[n]) \in Person(doc, link, role, n)
             /\ Says(doc, link, HashCode[n]) \in Person(doc, link, role, n)
  BY DEF Person
<1>2. \A n : Says(HashCode[n], "Nombre-departamento", n) \in Department(r.identifier, n)
  BY DEF Department
<1>3. QED
  BY <1>1, <1>2, AmongStatements, Zenon

(***************************************************************************)
(* The description of a complete record is made of statements.             *)
(***************************************************************************)
LEMMA RecordIsOfStatements ==
    ASSUME NEW r \in Complete
    PROVE  StatementsOf(r) \subseteq Statement
<1>1. /\ r.identifier \in STRING /\ r.tipo \in STRING
      /\ r.language \in STRING /\ r.title \in STRING
  BY RecordAssumption DEF Complete, Sound
<1>2. \A n \in r.contributor \cup r.creator \cup r.publisher :
          n \in STRING /\ NameOf[n] \in STRING /\ HashCode[n] \in STRING
          /\ HashCode[n] \o "-nombre" \in STRING
  BY RecordAssumption DEF Complete
<1>3. Topics(r) \subseteq STRING
  BY RecordAssumption DEF Topics
<1>4. \A s, p, o \in STRING : Says(s, p, o) \in Statement
  BY DEF Says, Rdf!Says, Statement
<1>5. Described(r) \subseteq Statement
  <2>1. "type" \in STRING /\ "Idioma-documento" \in STRING /\ "title" \in STRING
    BY VocabularyAssumption
  <2>2. /\ Says(r.identifier, "type", r.tipo) \in Statement
        /\ Says(r.identifier, "Idioma-documento", r.language) \in Statement
        /\ Says(r.identifier, "title", r.title) \in Statement
    BY <1>1, <1>4, <2>1
  <2>3. QED
    BY <2>2 DEF Described
<1>6. ASSUME NEW n \in r.contributor \cup r.creator, NEW link \in STRING, NEW role \in STRING
      PROVE  Person(r.identifier, link, role, n) \subseteq Statement
  <2>1. "type" \in STRING /\ "family_name" \in STRING
    BY VocabularyAssumption
  <2>2. /\ Says(HashCode[n], "type", role) \in Statement
        /\ Says(HashCode[n], "family_name", NameOf[n]) \in Statement
        /\ Says(r.identifier, link, HashCode[n]) \in Statement
    BY <1>1, <1>2, <1>4, <2>1
  <2>3. QED
    BY <2>2 DEF Person
<1>7. ASSUME NEW n \in r.publisher
      PROVE  Department(r.identifier, n) \subseteq Statement
  BY <1>1, <1>2, <1>4, VocabularyAssumption DEF Department
<1>8. \A c \in Topics(r) : Says(r.identifier, "Tema", c) \in Statement
  BY <1>1, <1>3, <1>4, VocabularyAssumption
<1>9. QED
  <2> SUFFICES ASSUME NEW t \in StatementsOf(r) PROVE t \in Statement
    OBVIOUS
  <2>1. {"contribuido", "creado", "Contributor", "Creator"} \subseteq STRING
    BY VocabularyAssumption
  <2>2. \A n \in r.contributor :
            Person(r.identifier, "contribuido", "Contributor", n) \subseteq Statement
    BY <1>6, <2>1
  <2>3. \A n \in r.creator : Person(r.identifier, "creado", "Creator", n) \subseteq Statement
    BY <1>6, <2>1
  <2>4. QED
    BY <1>5, <2>2, <2>3, <1>7, <1>8, AmongStatements, Zenon
-------------------------------------------------------------------------------
(* Graphs of records. *)

LEMMA InGraphOf ==
    ASSUME NEW R, NEW t
    PROVE  t \in GraphOf(R) <=> t \in Base \/ \E r \in R : t \in StatementsOf(r)
BY Zenon DEF GraphOf

LEMMA GraphIsOfStatements ==
    ASSUME NEW R \in SUBSET Complete
    PROVE  GraphOf(R) \subseteq Statement
BY InGraphOf, RecordIsOfStatements, BaseAssumption

LEMMA GraphGrows ==
    ASSUME NEW R, NEW r
    PROVE  GraphOf(R) \cup StatementsOf(r) = GraphOf(R \cup {r})
<1>1. \A t : t \in GraphOf(R) \cup StatementsOf(r) <=> t \in GraphOf(R \cup {r})
  <2> SUFFICES ASSUME NEW t
               PROVE  t \in GraphOf(R) \cup StatementsOf(r) <=> t \in GraphOf(R \cup {r})
    OBVIOUS
  <2>1. t \in GraphOf(R) <=> t \in Base \/ \E s \in R : t \in StatementsOf(s)
    BY InGraphOf
  <2>2. t \in GraphOf(R \cup {r}) <=> t \in Base \/ \E s \in R \cup {r} : t \in StatementsOf(s)
    BY InGraphOf
  <2>3. QED
    BY <2>1, <2>2
<1>2. QED
  BY <1>1

(***************************************************************************)
(* The documents of a graph are those that its records describe, and they  *)
(* are described whole; the persons and departments that it leads to are   *)
(* named by the record that leads to them.                                 *)
(***************************************************************************)
LEMMA GraphIsClosed ==
    ASSUME NEW R
    PROVE  Rdf!Closed(GraphOf(R))
<1> DEFINE g == GraphOf(R)
<1>1. ASSUME NEW t \in g, t.property \in Rdf!DocumentProperties
      PROVE  \E r \in R : t \in StatementsOf(r) /\ Speaks(r, t)
  BY <1>1, InGraphOf, BaseAssumption, RecordSpeaks
<1>2. ASSUME NEW r \in R, NEW t \in StatementsOf(r)
      PROVE  t \in g
  BY InGraphOf
<1> HIDE DEF g
<1>3. ASSUME NEW doc \in Rdf!DocumentsOf(g), NEW p \in {"type", "Idioma-documento", "title"}
      PROVE  doc \in Rdf!SubjectsOf(g, p)
  <2>1. PICK t \in g : t.property \in Rdf!DocumentProperties /\ t.subject = doc
    BY DEF Rdf!DocumentsOf, Rdf!SubjectsOf
  <2>2. PICK r \in R : r.identifier = doc
    BY <1>1, <2>1 DEF Speaks
  <2>3. \E u \in Described(r) : u.property = p /\ u.subject = r.identifier
    BY SaysFields DEF Described
  <2>4. QED
    BY <1>2, <2>2, <2>3, RecordSays DEF Rdf!SubjectsOf
<1>4. ASSUME NEW link \in {"contribuido", "creado"}, NEW who \in Rdf!ObjectsOf(g, link)
      PROVE  who \in Rdf!SubjectsOf(g, "family_name")
  <2>1. PICK t \in g : t.property = link /\ t.object = who
    BY DEF Rdf!ObjectsOf
  <2>2. PICK r \in R : Speaks(r, t)
    BY <1>1, <2>1 DEF Rdf!DocumentProperties
  <2>3. PICK n \in r.contributor \cup r.creator : who = HashCode[n]
    BY <2>1, <2>2 DEF Speaks
  <2>4. Says(HashCode[n], "family_name", NameOf[n]) \in g
    BY <1>2, RecordSays
  <2>5. QED
    BY <2>3, <2>4, SaysFields DEF Rdf!SubjectsOf
<1>5. ASSUME NEW dep \in Rdf!ObjectsOf(g, "publisher")
      PROVE  dep \in Rdf!SubjectsOf(g, "Nombre-departamento")
  <2>1. PICK t \in g : t.property = "publisher" /\ t.object = dep
    BY DEF Rdf!ObjectsOf
  <2>2. PICK r \in R : Speaks(r, t)
    BY <1>1, <2>1 DEF Rdf!DocumentProperties
  <2>3. PICK n \in r.publisher : dep = HashCode[n]
    BY <2>1, <2>2 DEF Speaks
  <2>4. Says(HashCode[n], "Nombre-departamento", n) \in g
    BY <1>2, RecordSays
  <2>5. QED
    BY <2>3, <2>4, SaysFields DEF Rdf!SubjectsOf
<1>6. QED
  BY <1>3, <1>4, <1>5 DEF Rdf!Closed, g

(***************************************************************************)
(* A creator of a document is named by a record of some person, and shares *)
(* its resource with a creator that a record of the document names.        *)
(***************************************************************************)
LEMMA GraphGivesCreators ==
    ASSUME NEW R \in SUBSET Record, NEW r \in R
    PROVE  /\ {NameOf[n] : n \in r.creator} \subseteq CreatorsIn(GraphOf(R), r.identifier)
           /\ \A who \in CreatorsIn(GraphOf(R), r.identifier) :
                 \E s \in R : \E m \in s.creator, n \in Name :
                     /\ s.identifier = r.identifier
                     /\ NameOf[n] = who
                     /\ HashCode[n] = HashCode[m]
<1> DEFINE g == GraphOf(R)
<1>1. ASSUME NEW n \in r.creator
      PROVE  NameOf[n] \in CreatorsIn(g, r.identifier)
  <2> DEFINE t == Says(HashCode[n], "family_name", NameOf[n])
  <2>1. t \in g /\ Says(r.identifier, "creado", HashCode[n]) \in g
    BY RecordSays, InGraphOf
  <2>2. t.property = "family_name" /\ t.subject = HashCode[n] /\ t.object = NameOf[n]
    BY SaysFields
  <2> HIDE DEF t, g
  <2>3. QED
    BY <2>1, <2>2 DEF CreatorsIn
<1>2. ASSUME NEW who \in CreatorsIn(g, r.identifier)
      PROVE  \E s \in R : \E m \in s.creator, n \in Name :
                 /\ s.identifier = r.identifier
                 /\ NameOf[n] = who
                 /\ HashCode[n] = HashCode[m]
  <2> DEFINE link(t) == Says(r.identifier, "creado", t.subject)
  <2>1. PICK t \in g : t.object = who /\ t.property = "family_name" /\ link(t) \in g
    BY DEF CreatorsIn
  <2>2. PICK q \in R : t \in StatementsOf(q)
    BY <2>1, InGraphOf, BaseAssumption
  <2>3. PICK n \in q.contributor \cup q.creator : t.subject = HashCode[n] /\ t.object = NameOf[n]
    BY <2>1, <2>2, RecordSpeaks DEF Speaks
  <2>4. /\ link(t).property = "creado" /\ link(t).property \in Rdf!DocumentProperties
        /\ link(t).subject = r.identifier /\ link(t).object = t.subject
    BY SaysFields DEF Rdf!DocumentProperties
  <2>5. PICK s \in R : link(t) \in StatementsOf(s)
    BY <2>1, <2>4, InGraphOf, BaseAssumption
  <2>6. Speaks(s, link(t))
    BY <2>5, RecordSpeaks
  <2>7. s.identifier = r.identifier /\ \E m \in s.creator : t.subject = HashCode[m]
    <3> HIDE DEF link
    <3> QED
      BY <2>4, <2>6 DEF Speaks
  <2>8. n \in Name
    BY <2>2, <2>3, RecordAssumption
  <2>9. QED
    BY <2>1, <2>3, <2>7, <2>8
<1>3. QED
  BY <1>1, <1>2
-------------------------------------------------------------------------------
(* The walk. *)

LEMMA WalkInit == Init => WalkInv
<1> SUFFICES ASSUME Init PROVE WalkInv
  OBVIOUS
<1>1. TypeOK
  BY DEF Init, TypeOK
<1>2. GraphIsOfTheRead
  BY DEF Init, GraphIsOfTheRead
<1>3. NothingLeftBehind
  BY DEF Init, NothingLeftBehind
<1>4. QED
  BY <1>1, <1>2, <1>3 DEF Init, WalkInv

LEMMA WalkStep == WalkInv /\ [Next]_vars => WalkInv'
<1> SUFFICES ASSUME WalkInv, [Next]_vars PROVE WalkInv'
  OBVIOUS
<1> USE DEF WalkInv
<1>1. CASE UNCHANGED vars
  BY <1>1 DEF vars, TypeOK, GraphIsOfTheRead, NothingLeftBehind, Listed
<1>2. ASSUME NEW names \in {Listed, {}}, Start(names) PROVE WalkInv'
  <2>1. TypeOK'
    BY <1>2 DEF Start, TypeOK, Listed
  <2>2. GraphIsOfTheRead'
    <3>1. GraphOf({}) = Base
      BY DEF GraphOf
    <3>2. QED
      BY <1>2, <3>1 DEF Start, GraphIsOfTheRead
  <2>3. NothingLeftBehind'
    BY <1>2 DEF Start, NothingLeftBehind, Listed
  <2>4. QED
    BY <1>2, <2>1, <2>2, <2>3 DEF Start
<1>3. ASSUME NEW f \in File, Lose(f) PROVE WalkInv'
  <2>1. TypeOK' /\ GraphIsOfTheRead'
    BY <1>3 DEF Lose, Turn, AfterUnopenable, TypeOK, GraphIsOfTheRead
  <2>2. NothingLeftBehind'
    BY <1>3 DEF Lose, Turn, AfterUnopenable, NothingLeftBehind
  <2>3. QED
    BY <1>3, <2>1, <2>2 DEF Lose, Turn
<1>4. ASSUME NEW f \in File, Skip(f) PROVE WalkInv'
  <2>1. TypeOK' /\ GraphIsOfTheRead'
    BY <1>4 DEF Skip, Turn, TypeOK, GraphIsOfTheRead
  <2>2. NothingLeftBehind'
    BY <1>4 DEF Skip, Turn, NothingLeftBehind, Listed
  <2>3. QED
    BY <1>4, <2>1, <2>2 DEF Skip, Turn
<1>5. ASSUME NEW f \in File, AddRecord(f) PROVE WalkInv'
  <2>1. content[f] \in Complete /\ graph # NoGraph
    BY <1>5 DEF AddRecord, Faulty, Complete
  <2>2. GraphIsOfTheRead'
    <3>1. graph' = GraphOf(read')
      BY <1>5, <2>1, GraphGrows DEF AddRecord, GraphIsOfTheRead
    <3>2. QED
      BY <1>5, <2>1, <3>1 DEF AddRecord, GraphIsOfTheRead
  <2>3. TypeOK'
    BY <1>5, <2>1 DEF AddRecord, Turn, TypeOK, Complete
  <2>4. NothingLeftBehind'
    BY <1>5, <2>1 DEF AddRecord, Turn, NothingLeftBehind, Listed
  <2>5. QED
    BY <1>5, <2>2, <2>3, <2>4 DEF AddRecord, Turn
<1>6. ASSUME NEW f \in File, FailOnRecord(f) PROVE WalkInv'
  BY <1>6 DEF FailOnRecord, Turn, TypeOK, GraphIsOfTheRead, NothingLeftBehind
<1>7. CASE OpenOutput
  BY <1>7 DEF OpenOutput, TypeOK, GraphIsOfTheRead, NothingLeftBehind, Listed
<1>8. CASE Write
  BY <1>8 DEF Write, Written, TypeOK, GraphIsOfTheRead, NothingLeftBehind
<1>9. CASE Die
  BY <1>9 DEF Die, TypeOK, GraphIsOfTheRead, NothingLeftBehind
<1>10. ASSUME NEW f \in File, ChangeDocs(f) PROVE WalkInv'
  <2>1. TypeOK'
    BY <1>10 DEF ChangeDocs, TypeOK
  <2>2. QED
    BY <1>10, <2>1 DEF ChangeDocs, GraphIsOfTheRead, NothingLeftBehind
<1>11. QED
  BY <1>1, <1>2, <1>3, <1>4, <1>5, <1>6, <1>7, <1>8, <1>9, <1>10 DEF Next, Step

LEMMA WalkInvariant == Spec => []WalkInv
BY WalkInit, WalkStep, PTL DEF Spec

(***************************************************************************)
(* What fills the RDF file is the graph that procesarDirectorio returned.  *)
(***************************************************************************)
LEMMA FilledWithGraph ==
    ASSUME WalkInv, Next, Filled
    PROVE  Write /\ graph # NoGraph /\ rdf' = GraphOf(read)
<1>1. Write
  BY DEF Next, Step, Start, Lose, Skip, AddRecord, FailOnRecord, Turn, OpenOutput, Die,
         ChangeDocs, Filled
<1>2. graph # NoGraph /\ rdf' = graph
  BY <1>1 DEF Write, Written, Filled
<1>3. QED
  BY <1>1, <1>2 DEF WalkInv, GraphIsOfTheRead

-------------------------------------------------------------------------------
(* The results. *)

(***************************************************************************)
(* At every step of every execution a graph in the making has the base     *)
(* statements and gives each document the creators that its records name.  *)
(***************************************************************************)
THEOREM GraphsAttribute == Spec => []Attribution
<1>1. WalkInv => Attribution
  <2> SUFFICES ASSUME WalkInv, at # "ended", graph # NoGraph, NEW r \in read
               PROVE  /\ {NameOf[n] : n \in r.creator} \subseteq CreatorsIn(graph, r.identifier)
                      /\ \A who \in CreatorsIn(graph, r.identifier) :
                            \E s \in read : \E m \in s.creator, n \in Name :
                                /\ s.identifier = r.identifier
                                /\ NameOf[n] = who
                                /\ HashCode[n] = HashCode[m]
    BY DEF Attribution, CreatorsAreTheirs, WalkInv
  <2>1. graph = GraphOf(read) /\ read \in SUBSET Record
    BY DEF WalkInv, GraphIsOfTheRead, Complete
  <2>2. QED
    BY <2>1, GraphGivesCreators
<1>2. QED
  BY <1>1, WalkInvariant, PTL

(***************************************************************************)
(* What rdfOut.write leaves in the file is the graph of all that the       *)
(* execution has read, whatever files stood between.                       *)
(***************************************************************************)
THEOREM WritesTheWalk == Spec => GraphOfTheWalk
<1>1. WalkInv /\ [Next]_vars =>
        [Filled => rdf' = Base \cup UNION {StatementsOf(r) : r \in read}]_vars
  BY FilledWithGraph DEF GraphOf
<1>2. QED
  BY <1>1, WalkInvariant, PTL DEF Spec, GraphOfTheWalk

(***************************************************************************)
(* If nobody touches the docs directory from its listing on, the graph     *)
(* that is written lacks nothing but files that are not XML.               *)
(***************************************************************************)
THEOREM UndisturbedWalkIsComplete == Spec => UndisturbedGraphIsComplete
<1>1. ASSUME WalkInv, Next, Filled, undisturbed, NEW f \in Listed
      PROVE  \/ content[f] = Malformed
             \/ content[f] \in Record /\ StatementsOf(content[f]) \subseteq rdf'
  <2>1. Write /\ graph # NoGraph /\ rdf' = GraphOf(read)
    BY <1>1, FilledWithGraph
  <2>2. todo = {} /\ at # "ended"
    BY <1>1, <2>1 DEF Write, WalkInv
  <2>3. content[f] = Malformed \/ content[f] \in read
    BY <1>1, <2>1, <2>2 DEF WalkInv, NothingLeftBehind
  <2>4. content[f] \in read => StatementsOf(content[f]) \subseteq GraphOf(read)
    BY InGraphOf
  <2>5. QED
    BY <1>1, <2>1, <2>3, <2>4 DEF WalkInv, GraphIsOfTheRead, Complete
<1>2. WalkInv /\ [Next]_vars =>
        [Filled /\ undisturbed =>
           \A f \in Listed : \/ content[f] = Malformed
                             \/ /\ content[f] \in Record
                                /\ StatementsOf(content[f]) \subseteq rdf']_vars
  BY <1>1
<1>3. QED
  BY <1>2, WalkInvariant, PTL DEF Spec, UndisturbedGraphIsComplete

(***************************************************************************)
(* The generator keeps what RdfFile promises to the semantic searcher: the *)
(* file is emptied, filled with a closed graph, or left as it is.          *)
(***************************************************************************)
THEOREM GeneratorImplementsRdf == Spec => ImplementsRdf
<1>1. Init => Rdf!RdfInit
  BY DEF Init, Rdf!RdfInit
<1>2. WalkInv /\ [Next]_vars => [Rdf!RdfNext]_rdf
  <2> SUFFICES ASSUME WalkInv, Next, rdf' # rdf PROVE Rdf!RdfNext
    BY DEF vars
  <2>1. CASE rdf' = Truncated
    BY <2>1 DEF Rdf!RdfNext, Rdf!Empty
  <2>2. CASE Filled
    <3>1. Write /\ rdf' = GraphOf(read)
      BY <2>2, FilledWithGraph
    <3>2. rdf = Truncated
      BY <3>1 DEF Write, WalkInv
    <3>3. GraphOf(read) \subseteq Statement
      BY GraphIsOfStatements DEF WalkInv, GraphIsOfTheRead
    <3>4. Rdf!Closed(rdf')
      BY <3>1, GraphIsClosed
    <3>5. QED
      BY <3>1, <3>2, <3>3, <3>4 DEF Rdf!RdfNext, Rdf!Fill
  <2>3. QED
    BY <2>1, <2>2 DEF Filled
<1>3. QED
  BY <1>1, <1>2, WalkInvariant, PTL DEF Spec, ImplementsRdf, Rdf!RdfSpec
===============================================================================
