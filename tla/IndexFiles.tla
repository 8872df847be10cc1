------------------------------ MODULE IndexFiles ------------------------------
(***************************************************************************)
(* The indexing program, Trabajo/src/IndexFiles.java: any number of        *)
(* executions of main over one docs directory and one index directory,     *)
(* while other programs write and remove the files being indexed.          *)
(*                                                                         *)
(* An execution opens the IndexWriter (which takes write.lock), walks the  *)
(* docs directory depth first adding a document per file to the writer,    *)
(* and closes the writer, which commits.  Nothing is committed before.     *)
(***************************************************************************)
EXTENDS Naturals, Sequences

CONSTANTS
    Run,          \* executions of main
    File,         \* the places of the docs tree where a file may be
    Dir,          \* the directories of the docs tree
    Root,         \* the directory given with -docs
    Entries,      \* Entries[d]: the files and directories that may be in d
    Below,        \* Below[d]: the files that may be anywhere below d
    Spelling,     \* the ways of writing Root on the command line: the prefix
                  \* that File.getPath() puts before the file
    MaxVersion,   \* bound on the stamps of file versions
    NoFile, NoIndex, NoRun

Under(n) == IF n \in File THEN {n} ELSE Below[n]

(***************************************************************************)
(* The docs directory is a tree: two entries of a directory share no file. *)
(***************************************************************************)
ASSUME TreeAssumption ==
    /\ Root \in Dir
    /\ File \cap Dir = {}
    /\ Entries \in [Dir -> SUBSET (File \cup Dir)]
    /\ Below \in [Dir -> SUBSET File]
    /\ \A d \in Dir : Below[d] = UNION {Under(n) : n \in Entries[d]}
    /\ \A d \in Dir : \A m, n \in Entries[d] :
          m # n => Under(m) \cap Under(n) = {}

(***************************************************************************)
(* Each place of the tree has one path: the directories it is in, which    *)
(* are none for Root.                                                      *)
(***************************************************************************)
IsPaths(above) ==
    /\ above[Root] = {}
    /\ \A d \in Dir : \A n \in Entries[d] : above[n] = above[d] \cup {d}
    /\ \A d \in Dir, f \in File : f \in Below[d] <=> d \in above[f]

ASSUME PathAssumption == \E above \in [File \cup Dir -> SUBSET Dir] : IsPaths(above)

ASSUME SentinelAssumption ==
    /\ MaxVersion \in Nat \ {0}
    /\ NoRun \notin Run
    /\ NoFile \notin [version : 1..MaxVersion,
                      kind : {"wellFormed", "malformed", "unreadable",
                              "emptyElement", "readError"}]

VARIABLES
    disk,         \* what each place of the docs tree holds
    closed,       \* the directories that cannot be read or listed
    clock,        \* the stamp of the last change to the docs tree
    index, generation, lock,      \* the index directory, see IndexStore
    pc,           \* where each execution of main is
    create,       \* OpenMode.CREATE (no -update on the command line)
    spelling,     \* docsPath, as it was written
    todo,         \* the stack of indexDocs: what is left of each list()
    pending,      \* the index as the writer sees it, committed at close()
    begun         \* (history) the clock when the run opened its writer

diskVars  == <<disk, closed, clock>>
storeVars == <<index, generation, lock>>
runVars   == <<pc, create, spelling, todo, pending, begun>>
vars == <<diskVars, storeVars, runVars>>

Store == INSTANCE IndexStore WITH Path <- Spelling \X File

-------------------------------------------------------------------------------
(* Files.  The kind is what indexDocs runs into when it reads the file. *)

Kind == {"wellFormed",    \* an XML record whose elements have a text
         "malformed",     \* SAXException: the file is left out
         "unreadable",    \* canRead() is false, or it cannot be opened
         "emptyElement",  \* getFirstChild() is null: NullPointerException
         "readError"}     \* IOException while parsing

Content == [version : 1..MaxVersion, kind : Kind]

HasKind(f, kinds) == disk[f] # NoFile /\ disk[f].kind \in kinds

Skippable(f) == disk[f] = NoFile \/ HasKind(f, {"unreadable", "malformed"})

(* A fault of Listing: the names of the subdirectories are left out. *)
ListingOfFiles(d) == {n \in Entries[d] : n \in File /\ disk[n] # NoFile}

(***************************************************************************)
(* The names file.list() returns.                                          *)
(***************************************************************************)
Listing(d) == {n \in Entries[d] : n \in File => disk[n] # NoFile}

(* A fault of DocOf: the file and its directory change places in the path. *)
DocOfSwapped(r, f) ==
    [path |-> <<f, spelling[r]>>, by |-> r, version |-> disk[f].version]

DocOf(r, f) ==
    [path |-> <<spelling[r], f>>, by |-> r, version |-> disk[f].version]

-------------------------------------------------------------------------------
Init ==
    /\ disk \in [File -> [version : {1}, kind : Kind] \cup {NoFile}]
    /\ closed = {}
    /\ clock = 1
    /\ Store!StoreInit
    /\ pc = [r \in Run |-> "idle"]
    /\ create = [r \in Run |-> TRUE]
    /\ spelling \in [Run -> Spelling]
    /\ todo = [r \in Run |-> <<>>]
    /\ pending = [r \in Run |-> {}]
    /\ begun = [r \in Run |-> 1]

-------------------------------------------------------------------------------
(* The rest of the system: whoever keeps the docs directory. *)

Tick == clock < MaxVersion /\ clock' = clock + 1

WriteFile(f, k) ==
    /\ Tick
    /\ disk' = [disk EXCEPT ![f] = [version |-> clock + 1, kind |-> k]]
    /\ UNCHANGED <<closed, storeVars, runVars>>

RemoveFile(f) ==
    /\ Tick
    /\ disk[f] # NoFile
    /\ disk' = [disk EXCEPT ![f] = NoFile]
    /\ UNCHANGED <<closed, storeVars, runVars>>

ToggleDir(d) ==
    /\ Tick
    /\ closed' = IF d \in closed THEN closed \ {d} ELSE closed \cup {d}
    /\ UNCHANGED <<disk, storeVars, runVars>>

Environment ==
    \/ \E f \in File, k \in Kind : WriteFile(f, k)
    \/ \E f \in File : RemoveFile(f)
    \/ \E d \in Dir : ToggleDir(d)

-------------------------------------------------------------------------------
(* main, up to the opening of the writer. *)

(***************************************************************************)
(* No -docs, a docs directory that cannot be read, write.lock held by      *)
(* another run (LockObtainFailedException) or any other IOException.       *)
(***************************************************************************)
ExitEarly(r) ==
    /\ pc[r] = "idle"
    /\ pc' = [pc EXCEPT ![r] = "failed"]
    /\ UNCHANGED <<diskVars, storeVars, create, spelling, todo, pending, begun>>

(* A fault of OpenWriter: it does without write.lock. *)
OpenUnlocked(r, c) ==
    /\ pc[r] = "idle"
    /\ Root \notin closed
    /\ lock' = r
    /\ pc' = [pc EXCEPT ![r] = "indexing"]
    /\ create' = [create EXCEPT ![r] = c]
    /\ pending' = [pending EXCEPT ![r] = IF c THEN {} ELSE Store!Committed]
    /\ todo' = [todo EXCEPT ![r] = <<{Root}>>]
    /\ begun' = [begun EXCEPT ![r] = clock]
    /\ UNCHANGED <<diskVars, index, generation, spelling>>

OpenWriter(r, c) ==
    /\ pc[r] = "idle"
    /\ Root \notin closed
    /\ lock = NoRun
    /\ lock' = r
    /\ pc' = [pc EXCEPT ![r] = "indexing"]
    /\ create' = [create EXCEPT ![r] = c]
    /\ pending' = [pending EXCEPT ![r] = IF c THEN {} ELSE Store!Committed]
    /\ todo' = [todo EXCEPT ![r] = <<{Root}>>]
    /\ begun' = [begun EXCEPT ![r] = clock]
    /\ UNCHANGED <<diskVars, index, generation, spelling>>

-------------------------------------------------------------------------------
(* indexDocs. *)

Depth(r) == Len(todo[r])

Indexing(r) == pc[r] = "indexing" /\ Depth(r) > 0

Level(r) == todo[r][Depth(r)]

Without(r, n) == [todo[r] EXCEPT ![Depth(r)] = @ \ {n}]

Taken(r, n) == todo' = [todo EXCEPT ![r] = Without(r, n)]

EnterDir(r, d) ==
    /\ Indexing(r)
    /\ d \in Level(r)
    /\ d \notin closed
    /\ todo' = [todo EXCEPT ![r] = Append(Without(r, d), Listing(d))]
    /\ UNCHANGED <<diskVars, storeVars, pc, create, spelling, pending, begun>>

SkipDir(r, d) ==
    /\ Indexing(r)
    /\ d \in Level(r)
    /\ d \in closed
    /\ Taken(r, d)
    /\ UNCHANGED <<diskVars, storeVars, pc, create, spelling, pending, begun>>

(***************************************************************************)
(* The loop over one list() ends and indexDocs returns to its caller.      *)
(***************************************************************************)
LeaveDir(r) ==
    /\ Indexing(r)
    /\ Level(r) = {}
    /\ todo' = [todo EXCEPT ![r] = SubSeq(@, 1, Depth(r) - 1)]
    /\ UNCHANGED <<diskVars, storeVars, pc, create, spelling, pending, begun>>

SkipFile(r, f) ==
    /\ Indexing(r)
    /\ f \in Level(r)
    /\ Skippable(f)
    /\ Taken(r, f)
    /\ UNCHANGED <<diskVars, storeVars, pc, create, spelling, pending, begun>>

AddDocument(r, f) ==
    /\ Indexing(r)
    /\ f \in Level(r)
    /\ HasKind(f, {"wellFormed"})
    /\ create[r]
    /\ pending' = [pending EXCEPT ![r] = @ \cup {DocOf(r, f)}]
    /\ Taken(r, f)
    /\ UNCHANGED <<diskVars, storeVars, pc, create, spelling, begun>>

(* A fault of UpdateDocument: addDocument, which keeps the old copy. *)
UpdateByAdding(r, f) ==
    /\ Indexing(r)
    /\ f \in Level(r)
    /\ HasKind(f, {"wellFormed"})
    /\ ~create[r]
    /\ pending' = [pending EXCEPT ![r] = @ \cup {DocOf(r, f)}]
    /\ Taken(r, f)
    /\ UNCHANGED <<diskVars, storeVars, pc, create, spelling, begun>>

UpdateDocument(r, f) ==
    /\ Indexing(r)
    /\ f \in Level(r)
    /\ HasKind(f, {"wellFormed"})
    /\ ~create[r]
    /\ pending' = [pending EXCEPT ![r] =
            {d \in @ : d.path # DocOf(r, f).path} \cup {DocOf(r, f)}]
    /\ Taken(r, f)
    /\ UNCHANGED <<diskVars, storeVars, pc, create, spelling, begun>>

-------------------------------------------------------------------------------
(* The ends of main. *)

(* A fault of Exit: write.lock is a file that outlives the process. *)
ExitLeavingLock(r, outcome) ==
    /\ pc' = [pc EXCEPT ![r] = outcome]
    /\ todo' = [todo EXCEPT ![r] = <<>>]
    /\ pending' = [pending EXCEPT ![r] = {}]
    /\ UNCHANGED <<diskVars, lock, create, spelling, begun>>

(***************************************************************************)
(* The process ends: its memory is gone, and the operating system frees    *)
(* write.lock if it was still held.                                        *)
(***************************************************************************)
Exit(r, outcome) ==
    /\ pc' = [pc EXCEPT ![r] = outcome]
    /\ lock' = NoRun
    /\ todo' = [todo EXCEPT ![r] = <<>>]
    /\ pending' = [pending EXCEPT ![r] = {}]
    /\ UNCHANGED <<diskVars, create, spelling, begun>>

(***************************************************************************)
(* The writer is not closed, so nothing is committed.                      *)
(***************************************************************************)
Die(r) == Exit(r, "failed") /\ UNCHANGED <<index, generation>>

Abort(r, f) ==
    /\ Indexing(r)
    /\ f \in Level(r)
    /\ HasKind(f, {"emptyElement", "readError"})
    /\ Die(r)

Crash(r) == pc[r] = "indexing" /\ Die(r)

(***************************************************************************)
(* writer.close() commits unless there is nothing new to commit.           *)
(***************************************************************************)
Close(r) ==
    /\ pc[r] = "indexing"
    /\ todo[r] = <<>>
    /\ Exit(r, "done")
    /\ index' = pending[r]
    /\ generation' = IF create[r] \/ pending[r] # index
                     THEN generation + 1
                     ELSE generation

Walk(r) ==
    \/ \E d \in Dir : EnterDir(r, d)
    \/ \E d \in Dir : SkipDir(r, d)
    \/ LeaveDir(r)
    \/ \E f \in File : SkipFile(r, f)
    \/ \E f \in File : AddDocument(r, f)
    \/ \E f \in File : UpdateDocument(r, f)
    \/ \E f \in File : Abort(r, f)
    \/ Close(r)

Main(r) ==
    \/ ExitEarly(r)
    \/ \E c \in BOOLEAN : OpenWriter(r, c)
    \/ Walk(r)
    \/ Crash(r)

Next == Environment \/ \E r \in Run : Main(r)

Spec == Init /\ [][Next]_vars

(***************************************************************************)
(* A run that has opened its writer waits for nobody: it goes on with its  *)
(* walk unless it is killed.                                               *)
(***************************************************************************)
FairSpec == Spec /\ \A r \in Run : WF_vars(Walk(r))

-------------------------------------------------------------------------------
TypeOK ==
    /\ disk \in [File -> Content \cup {NoFile}]
    /\ closed \in SUBSET Dir
    /\ clock \in 1..MaxVersion
    /\ index \in (SUBSET Store!Doc) \cup {NoIndex}
    /\ generation \in Nat
    /\ lock \in Run \cup {NoRun}
    /\ pc \in [Run -> {"idle", "indexing", "done", "failed"}]
    /\ create \in [Run -> BOOLEAN]
    /\ spelling \in [Run -> Spelling]
    /\ todo \in [Run -> Seq(SUBSET (File \cup Dir))]
    /\ pending \in [Run -> SUBSET Store!Doc]
    /\ begun \in [Run -> 1..MaxVersion]

(***************************************************************************)
(* The index directory behaves as IndexStore says: a searcher sees whole   *)
(* commits, each of one writer and never older than the one before, also   *)
(* when runs are killed, fail half way or start together.                  *)
(***************************************************************************)
ImplementsStore == Store!StoreSpec

(***************************************************************************)
(* A path is the path of at most one document, in what is committed and in *)
(* what a writer has pending.  In CREATE mode indexDocs relies on it ("no  *)
(* old document can be there") and adds without looking for an old copy.   *)
(***************************************************************************)
UniquePaths ==
    /\ Store!OneDocPerPath(Store!Committed)
    /\ \A r \in Run : Store!OneDocPerPath(pending[r])

(***************************************************************************)
(* What an update has not touched is still what is committed: no other run *)
(* has committed since the writer was opened, so its commit undoes         *)
(* nobody's work, and a document that is gone from its view was replaced   *)
(* by one of its own.                                                      *)
(***************************************************************************)
UpdateBuildsOnLastCommit ==
    \A r \in Run : pc[r] = "indexing" /\ ~create[r] =>
        /\ \A d \in pending[r] : d.by = r \/ d \in Store!Committed
        /\ \A d \in Store!Committed :
               \E e \in pending[r] : e.path = d.path /\ (e = d \/ e.by = r)

(***************************************************************************)
(* Nothing in the index is newer than what is on disk, and a commit never  *)
(* puts back a version of a file older than the one it replaces, whatever  *)
(* was written to disk during the walk.                                    *)
(***************************************************************************)
NeverBackInTime ==
    [][ /\ Store!NoOlder(Store!Committed, Store!Committed')
        /\ \A d \in Store!Committed' :
              disk'[d.path[2]] # NoFile => d.version <= disk'[d.path[2]].version
      ]_vars

(***************************************************************************)
(* A commit of a run during which nobody touched the docs directory holds  *)
(* the current version of every file that can be indexed, and in CREATE    *)
(* mode nothing else.  In particular no file of the tree was one of those  *)
(* that make the run fail.                                                 *)
(***************************************************************************)
Visible == {f \in Below[Root] : /\ disk[f] # NoFile
                                /\ \A d \in closed : f \notin Below[d]}

UndisturbedCommitIsComplete ==
    [][ \A r \in Run : pc[r] = "indexing" /\ pc'[r] = "done" /\ begun[r] = clock =>
          LET good == {f \in Visible : disk[f].kind = "wellFormed"}
              mine == {DocOf(r, f) : f \in good}
          IN  /\ mine \subseteq index'
              /\ create[r] => index' = mine
              /\ \A f \in Visible : ~HasKind(f, {"emptyElement", "readError"})
      ]_vars

(***************************************************************************)
(* Every run that opens the writer ends, and then write.lock is free: no   *)
(* run keeps the others out for ever, however it ends.                     *)
(***************************************************************************)
EveryRunEnds ==
    \A r \in Run : lock = r ~> lock # r /\ pc[r] \in {"done", "failed"}

-------------------------------------------------------------------------------
(* The inductive invariant behind the safety properties. *)

(***************************************************************************)
(* The writers that are open are the owner of write.lock.                  *)
(***************************************************************************)
LockInv == \A r \in Run : pc[r] = "indexing" <=> lock = r

(***************************************************************************)
(* What is left of a walk never reaches a file twice, and in CREATE mode   *)
(* it never reaches a file that already has its document.                  *)
(***************************************************************************)
Disjoint(stack) ==
    \A i, j \in 1..Len(stack) : \A m \in stack[i], n \in stack[j] :
        i # j \/ m # n => Under(m) \cap Under(n) = {}

Unwritten(stack, docs) ==
    \A i \in 1..Len(stack) : \A m \in stack[i], d \in docs :
        d.path[2] \notin Under(m)

WalkInv ==
    \A r \in Run : /\ Disjoint(todo[r])
                   /\ create[r] => Unwritten(todo[r], pending[r])

OwnDocs ==
    \A r \in Run : pc[r] = "indexing" /\ create[r] =>
        \A d \in pending[r] : d.by = r

(***************************************************************************)
(* No document is newer than the file it was parsed from.                  *)
(***************************************************************************)
Behind(docs) ==
    \A d \in docs :
        /\ d.version <= clock
        /\ disk[d.path[2]] # NoFile => d.version <= disk[d.path[2]].version

VersionInv ==
    /\ \A f \in File : disk[f] # NoFile => disk[f].version <= clock
    /\ Behind(Store!Committed)
    /\ \A r \in Run : Behind(pending[r])
    /\ \A r \in Run : pc[r] = "indexing" =>
          Store!NoOlder(Store!Committed, pending[r])

(***************************************************************************)
(* The conjunction is preserved by every step of Next.                     *)
(***************************************************************************)
IndexInv ==
    /\ TypeOK
    /\ LockInv
    /\ UniquePaths
    /\ UpdateBuildsOnLastCommit
    /\ WalkInv
    /\ OwnDocs
    /\ VersionInv
===============================================================================
