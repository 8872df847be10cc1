------------------------------ MODULE IndexStore ------------------------------
(***************************************************************************)
(* What an index directory promises to those who search it: a commit is    *)
(* whole, it is the work of one writer, and it does not go back in time.   *)
(*                                                                         *)
(* IndexFiles (the indexing program) is shown to implement this module,    *)
(* and SearchFiles (the batch searcher) is modelled over it.               *)
(*                                                                         *)
(* A document is its path, the stamp of the file version it was parsed     *)
(* from and the run that added it.  The last field is not stored by        *)
(* Lucene: it keeps apart two copies of one path, which the index holds as *)
(* two documents.                                                          *)
(***************************************************************************)
EXTENDS Naturals

CONSTANTS
    Run,          \* executions of the indexing program
    Path,         \* values of the field "path"
    MaxVersion,   \* bound on the stamps of file versions
    NoIndex,      \* the directory before the first commit
    NoRun         \* write.lock is free

VARIABLES
    index,        \* the documents of the last commit, or NoIndex
    generation,   \* the number of commits made (the N of segments_N)
    lock          \* the run that holds write.lock, or NoRun

storeVars == <<index, generation, lock>>

Doc == [path : Path, by : Run, version : 1..MaxVersion]

Committed == IF index = NoIndex THEN {} ELSE index

OneDocPerPath(docs) == \A d, e \in docs : d.path = e.path => d = e

(***************************************************************************)
(* No document of `old' is replaced in `new' by an older version.          *)
(***************************************************************************)
NoOlder(old, new) ==
    \A d \in old, e \in new : d.path = e.path => d.version <= e.version

StoreInit ==
    /\ index = NoIndex
    /\ generation = 0
    /\ lock = NoRun

Acquire(r) ==
    /\ lock = NoRun
    /\ lock' = r
    /\ UNCHANGED <<index, generation>>

(***************************************************************************)
(* The commit of r: its own documents and some of those committed before.  *)
(***************************************************************************)
Publish(r) ==
    /\ lock = r
    /\ lock' = NoRun
    /\ generation' = generation + 1
    /\ index' \in SUBSET Doc
    /\ OneDocPerPath(index')
    /\ \A d \in index' : d.by = r \/ d \in Committed
    /\ NoOlder(Committed, index')

(***************************************************************************)
(* r ends, by an exception, by a crash or with nothing to commit.          *)
(***************************************************************************)
Abandon(r) ==
    /\ lock = r
    /\ lock' = NoRun
    /\ UNCHANGED <<index, generation>>

StoreNext == \E r \in Run : Acquire(r) \/ Publish(r) \/ Abandon(r)

StoreSpec == StoreInit /\ [][StoreNext]_storeVars
===============================================================================
