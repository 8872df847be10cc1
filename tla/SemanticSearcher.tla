---------------------------- MODULE SemanticSearcher ----------------------------
(***************************************************************************)
(* The semantic searcher, Practica5/.../SemanticSearcher.java: it loads    *)
(* the RDF file, runs the queries of the needs file one by one and writes  *)
(* a line of results for every solution, through a buffer that an          *)
(* exception leaves behind.                                                *)
(*                                                                         *)
(* The RDF file is the one of RdfFile: it is written by others at any time.*)
(***************************************************************************)
EXTENDS RdfFile, Naturals, Sequences, SequencesExt, FiniteSets

CONSTANTS
    NeedsFiles,   \* the contents of the -infoNeeds file, as sequences of lines
    NoNeeds,      \* there is no such file
    Blank,        \* a line of blanks
    Unrunnable,   \* a line without a query, or whose query Jena refuses
    ShortUri,     \* the documents whose URI has no part after "record/"
    BufferSize    \* the size of FileWriter's buffer, in halves of a line

ASSUME BufferAssumption == BufferSize \in Nat \ {0}

(***************************************************************************)
(* A graph is a finite set of statements, about resources with names; the  *)
(* line of a query begins with its identifier, which no two queries of a   *)
(* file share.                                                             *)
(***************************************************************************)
ASSUME GraphAssumption == \A g \in Graph : IsFiniteSet(g) /\ DocumentsOf(g) \subseteq STRING

ASSUME NeedsAssumption ==
    /\ NoNeeds \notin NeedsFiles
    /\ \A lines \in NeedsFiles :
          LET queries == {i \in 1..Len(lines) : lines[i] \notin {Blank, Unrunnable}}
          IN  /\ lines \in Seq(ToSet(lines))
              /\ \A i \in queries : lines[i].id \in STRING
              /\ \A i, j \in queries : lines[i].id = lines[j].id => i = j

VARIABLES
    at,           \* where the execution is
    needs,        \* the needs file
    line,         \* the number of lines read from it
    model,        \* the dataset: the graph that was loaded
    rows,         \* the documents of the solutions still to be written
    buffer,       \* what FileWriter has not written yet, in halves of lines
    results,      \* what the results file holds, in halves of lines
    written       \* (history) the lines passed to FileWriter.write

searcherVars == <<at, needs, line, model, rows, buffer, results, written>>
allVars == <<rdf, searcherVars>>

(***************************************************************************)
(* A query asks for the documents on some topics, of which it may give the *)
(* document once (SELECT DISTINCT ?x) or once per topic.                   *)
(***************************************************************************)
Solutions(g, query) ==
    {s \in g : s.property = "Tema" /\ s.object \in query.topics}

Hits(g, query, doc) ==
    LET n == Cardinality({s \in Solutions(g, query) : s.subject = doc})
    IN IF query.distinct /\ n > 0 THEN 1 ELSE n

(***************************************************************************)
(* The documents of the solutions, in whatever order their scores give.    *)
(***************************************************************************)
Rows(g, query) ==
    {r \in SeqOf(DocumentsOf(g), Cardinality(Solutions(g, query))) :
        \A d \in DocumentsOf(g) :
            Cardinality({i \in 1..Len(r) : r[i] = d}) = Hits(g, query, d)}

Halves(l) == <<[line |-> l, half |-> 1], [line |-> l, half |-> 2]>>

-------------------------------------------------------------------------------
SearcherInit ==
    /\ RdfInit
    /\ at = "idle"
    /\ needs \in NeedsFiles \cup {NoNeeds}
    /\ line = 0
    /\ model = {}
    /\ rows = <<>>
    /\ buffer = <<>>
    /\ results = <<>>
    /\ written = <<>>

Ended == at \in {"idle", "done", "failed"}

(***************************************************************************)
(* main begins: the RDF file is loaded into a dataset of its own.          *)
(***************************************************************************)
Load(lines) ==
    /\ Ended
    /\ Loadable
    /\ at' = "loaded"
    /\ needs' = lines
    /\ line' = 0
    /\ model' = rdf
    /\ rows' = <<>>
    /\ buffer' = <<>>
    /\ UNCHANGED <<rdf, results, written>>

(***************************************************************************)
(* There is no file, or what it has is not RDF: RDFDataMgr.read throws.    *)
(***************************************************************************)
FailToLoad ==
    /\ Ended
    /\ ~Loadable
    /\ at' = "failed"
    /\ buffer' = <<>>
    /\ UNCHANGED <<rdf, needs, line, model, rows, results, written>>

OpenResults ==
    /\ at = "loaded"
    /\ at' = "opened"
    /\ results' = <<>>
    /\ written' = <<>>
    /\ UNCHANGED <<rdf, needs, line, model, rows, buffer>>

(***************************************************************************)
(* The needs file is opened after the results file has been emptied.       *)
(***************************************************************************)
OpenNeeds ==
    /\ at = "opened"
    /\ at' = IF needs = NoNeeds THEN "failed" ELSE "asking"
    /\ UNCHANGED <<rdf, needs, line, model, rows, buffer, results, written>>

AtLine == at = "asking" /\ rows = <<>>

(***************************************************************************)
(* readLine returns null, or a blank line.                                 *)
(***************************************************************************)
AtEnd == line < Len(needs) => needs[line + 1] = Blank

(***************************************************************************)
(* The query of the next line is run; its solutions come one by one.       *)
(***************************************************************************)
RunQuery ==
    /\ AtLine
    /\ ~AtEnd
    /\ needs[line + 1] # Unrunnable
    /\ line' = line + 1
    /\ rows' \in Rows(model, needs[line + 1])
    /\ UNCHANGED <<rdf, at, needs, model, buffer, results, written>>

(* A fault of Overflow: the buffer grows instead. *)
OverflowNever(text) == 0

(***************************************************************************)
(* What fits no more in the buffer goes to the file in whole buffers,      *)
(* wherever a line may be cut by that; the rest waits.                     *)
(***************************************************************************)
Overflow(text) == ((Len(text) - 1) \div BufferSize) * BufferSize

(* A fault of WriteRow: what does not fit in the buffer is lost. *)
WriteRowOver ==
    LET l    == [need |-> needs[line].id, doc |-> Head(rows)]
        text == buffer \o Halves(l)
        cut  == Overflow(text)
    IN  /\ at = "asking"
        /\ rows # <<>>
        /\ Head(rows) \notin ShortUri
        /\ rows' = Tail(rows)
        /\ written' = Append(written, l)
        /\ results' = results \o SubSeq(text, 1, cut)
        /\ buffer' = IF cut > 0 THEN <<>> ELSE text
        /\ UNCHANGED <<rdf, at, needs, line, model>>

WriteRow ==
    LET l    == [need |-> needs[line].id, doc |-> Head(rows)]
        text == buffer \o Halves(l)
        cut  == Overflow(text)
    IN  /\ at = "asking"
        /\ rows # <<>>
        /\ Head(rows) \notin ShortUri
        /\ rows' = Tail(rows)
        /\ written' = Append(written, l)
        /\ results' = results \o SubSeq(text, 1, cut)
        /\ buffer' = SubSeq(text, cut + 1, Len(text))
        /\ UNCHANGED <<rdf, at, needs, line, model>>

(* A fault of Fails: nothing is said of a URI that is too short. *)
FailsOnLines == AtLine /\ ~AtEnd /\ needs[line + 1] = Unrunnable

(***************************************************************************)
(* A line without a space, a query that Jena refuses, or a URI without a   *)
(* fifth part: an exception that main does not catch.                      *)
(***************************************************************************)
Fails ==
    \/ AtLine /\ ~AtEnd /\ needs[line + 1] = Unrunnable
    \/ at = "asking" /\ rows # <<>> /\ Head(rows) \in ShortUri

Throw ==
    /\ Fails
    /\ at' = "failed"
    /\ UNCHANGED <<rdf, needs, line, model, rows, buffer, results, written>>

(* A fault of Close: the writer is not closed. *)
Leave ==
    /\ AtLine
    /\ AtEnd
    /\ at' = "done"
    /\ UNCHANGED <<rdf, needs, line, model, rows, buffer, results, written>>

Close ==
    /\ AtLine
    /\ AtEnd
    /\ at' = "done"
    /\ results' = results \o buffer
    /\ buffer' = <<>>
    /\ UNCHANGED <<rdf, needs, line, model, rows, written>>

(***************************************************************************)
(* The program is killed, or a write or a read fails.                      *)
(***************************************************************************)
Die ==
    /\ ~Ended
    /\ at' = "failed"
    /\ UNCHANGED <<rdf, needs, line, model, rows, buffer, results, written>>

Step ==
    \/ OpenResults
    \/ OpenNeeds
    \/ RunQuery
    \/ WriteRow
    \/ Throw
    \/ Close

SearcherNext ==
    \/ \E lines \in NeedsFiles \cup {NoNeeds} : Load(lines)
    \/ FailToLoad
    \/ Step
    \/ Die
    \/ RdfNext /\ UNCHANGED searcherVars

SearcherSpec == SearcherInit /\ [][SearcherNext]_allVars

(***************************************************************************)
(* An execution that has loaded its graph waits for nobody.                *)
(***************************************************************************)
FairSearcherSpec == SearcherSpec /\ WF_allVars(Step)

-------------------------------------------------------------------------------
ResultLine == [need : STRING, doc : STRING]
Text == Seq([line : ResultLine, half : {1, 2}])

SearcherTypeOK ==
    /\ rdf \in Graph \cup {Absent, Truncated}
    /\ at \in {"idle", "loaded", "opened", "asking", "done", "failed"}
    /\ needs \in NeedsFiles \cup {NoNeeds}
    /\ needs # NoNeeds => line \in 0..Len(needs)
    /\ model \in Graph \cup {{}}
    /\ rows \in Seq(DocumentsOf(model))
    /\ buffer \in Text
    /\ results \in Text
    /\ written \in Seq(ResultLine)
    /\ Len(buffer) <= BufferSize

(***************************************************************************)
(* Lines one after another.                                                *)
(***************************************************************************)
TextOf(lines) ==
    [k \in 1..(2 * Len(lines)) |-> Halves(lines[(k + 1) \div 2])[2 - (k % 2)]]

(***************************************************************************)
(* The results file holds the beginning of what its last execution wrote,  *)
(* all but what fits in the buffer at most, however that execution ended   *)
(* and however many others have failed to load their graph since.          *)
(***************************************************************************)
LosesAtMostABuffer ==
    /\ IsPrefix(results, TextOf(written))
    /\ Len(TextOf(written)) - Len(results) <= BufferSize

Asked == {i \in 1..Len(needs) : \A j \in 1..i : needs[j] # Blank}

LinesFor(query, doc) ==
    {i \in 1..Len(written) : written[i] = [need |-> query.id, doc |-> doc]}

(***************************************************************************)
(* An execution that ends well has left in the file, uncut and in the      *)
(* order of the needs, a line for every solution of every query before the *)
(* first blank line, and no line for a query after it.                     *)
(***************************************************************************)
ClosedResultsAreWhole ==
    at = "done" =>
        /\ results = TextOf(written)
        /\ \A i \in 1..Len(written) : \E j \in Asked : written[i].need = needs[j].id
        /\ \A i, j \in 1..Len(written) : \A k, l \in Asked :
              i < j /\ written[i].need = needs[k].id /\ written[j].need = needs[l].id
              => k <= l
        /\ \A i \in Asked : \A d \in DocumentsOf(model) :
              Cardinality(LinesFor(needs[i], d)) = Hits(model, needs[i], d)

(***************************************************************************)
(* A document is listed only if its record said what it is and its title,  *)
(* even when the RDF file is being written again.                          *)
(***************************************************************************)
ListedDocumentsAreDescribed ==
    at \in {"asking", "done"} =>
        \A i \in 1..Len(written) :
            \A p \in {"type", "title"} : written[i].doc \in SubjectsOf(model, p)

(***************************************************************************)
(* However an execution ends, the results file has a beginning of its      *)
(* answers, and all of them when it says it is done; and what it lists was *)
(* described, also when the RDF file is being written again.               *)
(***************************************************************************)
ResultsAreWhole ==
    SearcherTypeOK /\ LosesAtMostABuffer /\ ClosedResultsAreWhole /\ ListedDocumentsAreDescribed

(***************************************************************************)
(* An execution that has loaded its graph ends.                            *)
(***************************************************************************)
EveryAnswerEnds == at = "loaded" ~> at \in {"done", "failed"}
===============================================================================
