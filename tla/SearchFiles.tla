------------------------------ MODULE SearchFiles ------------------------------
(***************************************************************************)
(* The batch searcher, Trabajo/src/SearchFiles.java: executions of main    *)
(* that answer a list of information needs from the index and append the   *)
(* answers to a results file, while the index is being replaced by others. *)
(*                                                                         *)
(* The index directory is the one of IndexStore.  A reader is opened for   *)
(* every need, so that the needs of one execution may be answered from     *)
(* different commits.                                                      *)
(***************************************************************************)
EXTENDS IndexStore, Sequences, FiniteSets, Functions

CONSTANTS
    Search,       \* executions of main, all with the same -output file
    NumNeeds,     \* the number of needs in the -infoNeeds file
    Matches,      \* Matches[n]: the paths whose documents satisfy need n
    Broken,       \* Broken[s]: the needs of the file of s whose text cannot be
                  \* turned into a query
    Name,         \* Name[p]: the field "name" of the document with path p
    MaxHits,      \* the 100 of searcher.search(query, 100)
    MaxCommits    \* bound on the number of commits

Need == 1..NumNeeds

(***************************************************************************)
(* A commit holds finitely many documents.                                 *)
(***************************************************************************)
ASSUME SearchAssumption ==
    /\ IsFiniteSet(Doc)
    /\ NumNeeds \in Nat
    /\ MaxHits \in Nat \ {0}
    /\ Matches \in [Need -> SUBSET Path]
    /\ Broken \in [Search -> SUBSET Need]

NoReader == [commit |-> 0, docs |-> {}]

VARIABLES
    at,           \* where each execution of main is
    reader,       \* what the reader of the current need shows
    output,       \* the lines of the results file
    owner,        \* (history) the last execution that emptied the file
    answered,     \* (history) the readers from which s answered its needs
    shortened     \* (history) the executions that met an error writing

searchVars == <<at, reader, output, owner, answered, shortened>>
allVars == <<storeVars, searchVars>>

Line == [need : Need, name : {Name[p] : p \in Path}, by : Search, commit : Nat]

(***************************************************************************)
(* The need in turn: the needs before it have been answered.               *)
(***************************************************************************)
Current(s) == Len(answered[s]) + 1

Matching(n, docs) == {d \in docs : d.path \in Matches[n]}

NumHits(n, docs) ==
    IF Cardinality(Matching(n, docs)) < MaxHits
    THEN Cardinality(Matching(n, docs))
    ELSE MaxHits

(* A fault of TopDocs: a document may be one of the best more than once, as *)
(* when the hits of each field are put together.                            *)
TopDocsOfEachField(n, docs) == [1..NumHits(n, docs) -> Matching(n, docs)]

(***************************************************************************)
(* The score of a document is not modelled: the best MaxHits documents are *)
(* any that match, in any order.                                           *)
(***************************************************************************)
TopDocs(n, docs) == Injection(1..NumHits(n, docs), Matching(n, docs))

(* A fault of Block: the path is written instead of the name. *)
BlockOfPaths(s, hits) ==
    [i \in 1..Len(hits) |-> [need   |-> Current(s),
                             name   |-> hits[i].path,
                             by     |-> s,
                             commit |-> reader[s].commit]]

Block(s, hits) ==
    [i \in 1..Len(hits) |-> [need   |-> Current(s),
                             name   |-> Name[hits[i].path],
                             by     |-> s,
                             commit |-> reader[s].commit]]

-------------------------------------------------------------------------------
SearchInit ==
    /\ at = [s \in Search |-> "idle"]
    /\ reader = [s \in Search |-> NoReader]
    /\ output = <<>>
    /\ owner \in Search
    /\ answered = [s \in Search |-> <<>>]
    /\ shortened = {}

Goes(s, where) == at' = [at EXCEPT ![s] = where]

(***************************************************************************)
(* parseNeeds fails: the needs file cannot be read or is not what it       *)
(* should be.  The results file of the previous execution is still there.  *)
(***************************************************************************)
RejectNeeds(s) ==
    /\ at[s] = "idle"
    /\ Goes(s, "failed")
    /\ UNCHANGED <<storeVars, reader, output, owner, answered, shortened>>

(***************************************************************************)
(* The needs are parsed and the results file is emptied.                   *)
(***************************************************************************)
ResetOutput(s) ==
    /\ at[s] = "idle"
    /\ Goes(s, "loading")
    /\ output' = <<>>
    /\ owner' = s
    /\ UNCHANGED <<storeVars, reader, answered, shortened>>

(***************************************************************************)
(* The OpenNLP models are read from en-token.bin and en-ner-person.bin.    *)
(***************************************************************************)
LoadModels(s) ==
    /\ at[s] = "loading"
    /\ Goes(s, "running")
    /\ UNCHANGED <<storeVars, reader, output, owner, answered, shortened>>

(***************************************************************************)
(* What DirectoryReader.open finds.                                        *)
(***************************************************************************)
Openable == index # NoIndex

Opened(s) == [commit |-> generation, docs |-> index]

OpenReader(s) ==
    /\ at[s] = "running"
    /\ Current(s) <= NumNeeds
    /\ Openable
    /\ Goes(s, "searching")
    /\ reader' = [reader EXCEPT ![s] = Opened(s)]
    /\ UNCHANGED <<storeVars, output, owner, answered, shortened>>

(* A fault of OpenNothing: the execution waits for a commit. *)
WaitForIndex(s) ==
    /\ at[s] = "running"
    /\ index = NoIndex
    /\ UNCHANGED allVars

(***************************************************************************)
(* Without a commit to open, the IOException is printed, reader stays null *)
(* and new IndexSearcher(null) ends the execution.                         *)
(***************************************************************************)
OpenNothing(s) ==
    /\ at[s] = "running"
    /\ Current(s) <= NumNeeds
    /\ ~Openable
    /\ Goes(s, "failed")
    /\ UNCHANGED <<storeVars, reader, output, owner, answered, shortened>>

(***************************************************************************)
(* The query parser refuses the text: query stays null and new BoostQuery  *)
(* throws.                                                                 *)
(***************************************************************************)
BreakOnNeed(s) ==
    /\ at[s] = "searching"
    /\ Current(s) \in Broken[s]
    /\ Goes(s, "failed")
    /\ UNCHANGED <<storeVars, reader, output, owner, answered, shortened>>

(* Faults of Appended: the file is opened without append, or written from *)
(* its beginning.                                                         *)
Overwritten(written) == written
Prepended(written) == written \o output

Appended(written) == output \o written

(***************************************************************************)
(* The answer is searched for and appended to the results file, of which   *)
(* `written' is what gets there.                                           *)
(***************************************************************************)
AnswerWith(s, written) ==
    /\ at[s] = "searching"
    /\ Current(s) \notin Broken[s]
    /\ Goes(s, "running")
    /\ output' = Appended(written)
    /\ reader' = [reader EXCEPT ![s] = NoReader]
    /\ answered' = [answered EXCEPT ![s] = Append(@, reader[s])]
    /\ UNCHANGED <<storeVars, owner>>

Answer(s, hits) == AnswerWith(s, Block(s, hits)) /\ UNCHANGED shortened

(***************************************************************************)
(* An IOException while writing is printed and the execution goes on: the  *)
(* answer is cut short, and nothing in the results file tells.             *)
(***************************************************************************)
AnswerShort(s, hits, n) ==
    /\ AnswerWith(s, SubSeq(Block(s, hits), 1, n))
    /\ shortened' = shortened \cup {s}

Finish(s) ==
    /\ at[s] = "running"
    /\ Current(s) > NumNeeds
    /\ Goes(s, "done")
    /\ UNCHANGED <<storeVars, reader, output, owner, answered, shortened>>

(***************************************************************************)
(* The execution is killed, or the models cannot be loaded, or the search  *)
(* throws (resultados stays null).                                         *)
(***************************************************************************)
Die(s) ==
    /\ at[s] \in {"loading", "running", "searching"}
    /\ Goes(s, "failed")
    /\ UNCHANGED <<storeVars, reader, output, owner, answered, shortened>>

Step(s) ==
    \/ LoadModels(s)
    \/ OpenReader(s)
    \/ OpenNothing(s)
    \/ BreakOnNeed(s)
    \/ \E hits \in TopDocs(Current(s), reader[s].docs) : Answer(s, hits)
    \/ \E hits \in TopDocs(Current(s), reader[s].docs) :
          \E n \in 0..(Len(hits) - 1) : AnswerShort(s, hits, n)
    \/ Finish(s)

SearchNext ==
    \E s \in Search : RejectNeeds(s) \/ ResetOutput(s) \/ Step(s) \/ Die(s)

Init == StoreInit /\ SearchInit

Next ==
    \/ SearchNext
    \/ StoreNext /\ generation' <= MaxCommits /\ UNCHANGED searchVars

Spec == Init /\ [][Next]_allVars

(***************************************************************************)
(* An execution that has emptied the results file waits for nobody.        *)
(***************************************************************************)
FairSpec ==
    Spec /\ \A s \in Search : WF_allVars(Step(s))

-------------------------------------------------------------------------------
Reader == [commit : Nat, docs : SUBSET Doc]

TypeOK ==
    /\ index \in (SUBSET Doc) \cup {NoIndex}
    /\ generation \in Nat
    /\ lock \in Run \cup {NoRun}
    /\ at \in [Search -> {"idle", "loading", "running", "searching", "done",
                          "failed"}]
    /\ reader \in [Search -> Reader]
    /\ output \in Seq(Line)
    /\ owner \in Search
    /\ answered \in [Search -> Seq(Reader)]
    /\ shortened \in SUBSET Search

(***************************************************************************)
(* The lines of one execution follow the order of the needs file, and a    *)
(* need is never answered from an older commit than a need before it;      *)
(* whatever is committed during the execution, the lines of one need come  *)
(* from one commit.                                                        *)
(***************************************************************************)
LinesInOrder ==
    \A i, j \in 1..Len(output) :
        i < j /\ output[i].by = output[j].by =>
            /\ output[i].need <= output[j].need
            /\ output[i].commit <= output[j].commit
            /\ output[i].need = output[j].need
                  => output[i].commit = output[j].commit

LinesOf(s, n) == {i \in 1..Len(output) : output[i].by = s /\ output[i].need = n}

(***************************************************************************)
(* What the execution that last emptied the results file has answered is   *)
(* in the file, whole: as many lines for each need as the need has hits    *)
(* (up to MaxHits), unless an error cut an answer short.  When the         *)
(* execution is done, that is true of every need.  Executions that overlap *)
(* it append their own lines but take none away.                           *)
(***************************************************************************)
AnswersAreWhole ==
    LET s == owner IN
    /\ s \notin shortened =>
         \A n \in 1..Len(answered[s]) :
            /\ Cardinality(LinesOf(s, n)) = NumHits(n, answered[s][n].docs)
            /\ \A i \in LinesOf(s, n) :
                  \E d \in Matching(n, answered[s][n].docs) :
                      output[i].name = Name[d.path]
    /\ at[s] = "done" => Len(answered[s]) = NumNeeds

(***************************************************************************)
(* No execution names a file twice in the answer to a need, when different *)
(* paths have different names: the evaluation would count it twice.  It    *)
(* rests on what IndexStore says of paths.                                 *)
(***************************************************************************)
NamesDiffer == \A p, q \in Path : Name[p] = Name[q] => p = q

NoRepeatedLine ==
    NamesDiffer =>
        \A i, j \in 1..Len(output) :
            /\ i # j
            /\ output[i].by = output[j].by
            /\ output[i].need = output[j].need
            => output[i].name # output[j].name

(***************************************************************************)
(* What is in the results file after the last execution to empty it can be *)
(* evaluated: whole answers, and no file counted twice in one of them.     *)
(***************************************************************************)
AnswersCanBeEvaluated == TypeOK /\ AnswersAreWhole /\ NoRepeatedLine

(***************************************************************************)
(* An execution that empties the results file ends, and it ends well       *)
(* unless it was killed, it had no commit to read or the text of a need    *)
(* could not be turned into a query.                                       *)
(***************************************************************************)
EverySearchEnds ==
    \A s \in Search : at[s] = "loading" ~> at[s] \in {"done", "failed"}
===============================================================================
