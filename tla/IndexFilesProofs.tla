-------------------------- MODULE IndexFilesProofs --------------------------
(***************************************************************************)
(* Proofs about IndexFiles for every docs tree, every number of runs and   *)
(* every bound on the versions.                                            *)
(***************************************************************************)
EXTENDS IndexFiles, SequenceTheorems, TLAPS

Node == File \cup Dir

(***************************************************************************)
(* The steps of a walk, as what they do to the stack of indexDocs.         *)
(***************************************************************************)
LEMMA WithoutFacts ==
    ASSUME TypeOK, NEW r \in Run, Indexing(r), NEW n
    PROVE  /\ Depth(r) \in 1..Len(todo[r])
           /\ Level(r) \in SUBSET Node
           /\ Without(r, n) \in Seq(SUBSET Node)
           /\ Len(Without(r, n)) = Len(todo[r])
           /\ Without(r, n)[Depth(r)] = Level(r) \ {n}
           /\ \A i \in 1..Len(todo[r]) :
                 i # Depth(r) => Without(r, n)[i] = todo[r][i]
<1>1. todo[r] \in Seq(SUBSET Node) /\ Depth(r) \in 1..Len(todo[r])
  BY DEF TypeOK, Node, Indexing, Depth
<1>2. Level(r) \in SUBSET Node
  BY <1>1 DEF Level
<1>3. Level(r) \ {n} \in SUBSET Node
  BY <1>2
<1>4. Without(r, n) = [todo[r] EXCEPT ![Depth(r)] = Level(r) \ {n}]
  BY DEF Without, Level
<1>5. /\ Without(r, n) \in Seq(SUBSET Node)
      /\ Len(Without(r, n)) = Len(todo[r])
      /\ \A i \in 1..Len(todo[r]) :
            Without(r, n)[i] = IF i = Depth(r) THEN Level(r) \ {n}
                                               ELSE todo[r][i]
  <2> DEFINE S == SUBSET Node
             s == todo[r]
             k == Depth(r)
             e == Level(r) \ {n}
  <2>1. s \in Seq(S) /\ k \in 1..Len(s) /\ e \in S
    BY <1>1, <1>3
  <2> HIDE DEF S, s, k, e
  <2>2. /\ [s EXCEPT ![k] = e] \in Seq(S)
        /\ Len([s EXCEPT ![k] = e]) = Len(s)
        /\ \A i \in 1..Len(s) : [s EXCEPT ![k] = e][i] = IF i = k THEN e ELSE s[i]
    BY <2>1, ExceptSeq
  <2>3. QED
    BY <2>2, <1>4 DEF S, s, k, e
<1>6. QED
  BY <1>1, <1>2, <1>5 DEF Depth, Level

LEMMA EnterFacts ==
    ASSUME TypeOK, NEW r \in Run, NEW d \in Dir, EnterDir(r, d)
    PROVE  LET s == Append(Without(r, d), Listing(d)) IN
           /\ s \in Seq(SUBSET Node)
           /\ Len(s) = Len(todo[r]) + 1
           /\ \A i \in 1..Len(todo[r]) : s[i] = Without(r, d)[i]
           /\ s[Len(todo[r]) + 1] = Listing(d)
           /\ Listing(d) \subseteq Entries[d]
<1>1. /\ Without(r, d) \in Seq(SUBSET Node)
      /\ Len(Without(r, d)) = Len(todo[r])
  BY WithoutFacts DEF EnterDir
<1>2. Listing(d) \in SUBSET Node /\ Listing(d) \subseteq Entries[d]
  BY TreeAssumption DEF Listing, Node
<1>3. QED
  BY <1>1, <1>2, AppendProperties

LEMMA LeaveFacts ==
    ASSUME TypeOK, NEW r \in Run, LeaveDir(r)
    PROVE  LET s == SubSeq(todo[r], 1, Depth(r) - 1) IN
           /\ s \in Seq(SUBSET Node)
           /\ Len(s) = Len(todo[r]) - 1
           /\ \A i \in 1..Len(s) : s[i] = todo[r][i]
<1>1. todo[r] \in Seq(SUBSET Node) /\ Depth(r) \in 1..Len(todo[r])
  BY DEF TypeOK, Node, Indexing, LeaveDir, Depth
<1>2. \A i \in 1..(Depth(r) - 1) : todo[r][i] \in SUBSET Node
  BY <1>1
<1>3. QED
  BY <1>1, <1>2, SubSeqProperties DEF Depth

LEMMA DocFacts ==
    ASSUME TypeOK, NEW r \in Run, NEW f \in File, HasKind(f, {"wellFormed"})
    PROVE  /\ DocOf(r, f) \in Store!Doc
           /\ DocOf(r, f).path = <<spelling[r], f>>
           /\ DocOf(r, f).path[2] = f
           /\ DocOf(r, f).by = r
           /\ DocOf(r, f).version = disk[f].version
<1>1. disk[f] \in Content /\ spelling[r] \in Spelling
  BY DEF TypeOK, HasKind
<1>2. QED
  BY <1>1 DEF DocOf, Store!Doc, Content

(***************************************************************************)
(* Typing: each variable keeps its type along every step of every run.     *)
(***************************************************************************)
LEMMA TypeInit == Init => TypeOK
<1> SUFFICES ASSUME Init PROVE TypeOK
  OBVIOUS
<1> USE SentinelAssumption DEF Init, Store!StoreInit
<1>1. disk \in [File -> Content \cup {NoFile}]
  <2>1. [version : {1}, kind : Kind] \subseteq Content
    BY DEF Content
  <2>2. QED
    BY <2>1
<1>2. /\ todo \in [Run -> Seq(SUBSET (File \cup Dir))]
      /\ pending \in [Run -> SUBSET Store!Doc]
  OBVIOUS
<1>3. /\ index \in (SUBSET Store!Doc) \cup {NoIndex}
      /\ lock \in Run \cup {NoRun}
      /\ closed \in SUBSET Dir
      /\ generation \in Nat
  OBVIOUS
<1>4. /\ pc \in [Run -> {"idle", "indexing", "done", "failed"}]
      /\ create \in [Run -> BOOLEAN]
      /\ spelling \in [Run -> Spelling]
      /\ clock \in 1..MaxVersion
      /\ begun \in [Run -> 1..MaxVersion]
  OBVIOUS
<1>5. QED
  BY <1>1, <1>2, <1>3, <1>4 DEF TypeOK

LEMMA TypeEnvironment == TypeOK /\ Environment => TypeOK'
<1> SUFFICES ASSUME TypeOK, Environment PROVE TypeOK'
  OBVIOUS
<1> USE SentinelAssumption DEF TypeOK, Tick, storeVars, runVars, diskVars
<1>1. ASSUME NEW f \in File, NEW k \in Kind, WriteFile(f, k) PROVE TypeOK'
  <2>1. [version |-> clock + 1, kind |-> k] \in Content
    BY <1>1 DEF WriteFile, Content
  <2>2. QED
    BY <1>1, <2>1 DEF WriteFile
<1>2. ASSUME NEW f \in File, RemoveFile(f) PROVE TypeOK'
  BY <1>2 DEF RemoveFile
<1>3. ASSUME NEW d \in Dir, ToggleDir(d) PROVE TypeOK'
  BY <1>3 DEF ToggleDir
<1>4. QED
  BY <1>1, <1>2, <1>3 DEF Environment

LEMMA TypeExit ==
    ASSUME TypeOK, NEW r \in Run, NEW outcome \in {"done", "failed"},
           Exit(r, outcome), index' \in (SUBSET Store!Doc) \cup {NoIndex},
           generation' \in Nat
    PROVE  TypeOK'
BY DEF TypeOK, Exit, diskVars

LEMMA TypeWalk ==
    ASSUME TypeOK, NEW r \in Run, Walk(r)
    PROVE  TypeOK'
<1> USE DEF diskVars, storeVars
<1>1. ASSUME NEW d \in Dir, EnterDir(r, d) PROVE TypeOK'
  BY <1>1, EnterFacts DEF EnterDir, TypeOK, Node
<1>2. ASSUME NEW d \in Dir, SkipDir(r, d) PROVE TypeOK'
  BY <1>2, WithoutFacts DEF SkipDir, Taken, TypeOK, Node
<1>3. CASE LeaveDir(r)
  <2>1. SubSeq(todo[r], 1, Depth(r) - 1) \in Seq(SUBSET Node)
    BY <1>3, LeaveFacts
  <2>2. QED
    BY <1>3, <2>1 DEF LeaveDir, TypeOK, Node
<1>4. ASSUME NEW f \in File, SkipFile(r, f) PROVE TypeOK'
  BY <1>4, WithoutFacts DEF SkipFile, Taken, TypeOK, Node
<1>5. ASSUME NEW f \in File, AddDocument(r, f) PROVE TypeOK'
  BY <1>5, WithoutFacts, DocFacts DEF AddDocument, Taken, TypeOK, Node
<1>6. ASSUME NEW f \in File, UpdateDocument(r, f) PROVE TypeOK'
  BY <1>6, WithoutFacts, DocFacts DEF UpdateDocument, Taken, TypeOK, Node
<1>7. ASSUME NEW f \in File, Abort(r, f) PROVE TypeOK'
  BY <1>7, TypeExit DEF Abort, Die, TypeOK
<1>8. CASE Close(r)
  <2>1. pending[r] \in SUBSET Store!Doc /\ generation' \in Nat
    BY <1>8 DEF Close, TypeOK
  <2>2. QED
    BY <1>8, <2>1, TypeExit DEF Close
<1>9. QED
  BY <1>1, <1>2, <1>3, <1>4, <1>5, <1>6, <1>7, <1>8 DEF Walk

LEMMA TypeStep == TypeOK /\ [Next]_vars => TypeOK'
<1> SUFFICES ASSUME TypeOK, [Next]_vars PROVE TypeOK'
  OBVIOUS
<1> USE DEF diskVars, storeVars, runVars
<1>1. ASSUME NEW r \in Run, Main(r) PROVE TypeOK'
  <2>1. CASE ExitEarly(r)
    BY <2>1 DEF ExitEarly, TypeOK
  <2>2. ASSUME NEW c \in BOOLEAN, OpenWriter(r, c) PROVE TypeOK'
    <3>1. <<{Root}>> \in Seq(SUBSET (File \cup Dir))
      BY TreeAssumption
    <3>2. Store!Committed \in SUBSET Store!Doc
      BY DEF Store!Committed, TypeOK
    <3>3. QED
      BY <2>2, <3>1, <3>2 DEF OpenWriter, TypeOK
  <2>3. CASE Walk(r)
    BY <2>3, TypeWalk
  <2>4. CASE Crash(r)
    BY <2>4, TypeExit DEF Crash, Die, TypeOK
  <2>5. QED
    BY <1>1, <2>1, <2>2, <2>3, <2>4 DEF Main
<1>2. CASE UNCHANGED vars
  BY <1>2 DEF vars, TypeOK
<1>3. QED
  BY <1>1, <1>2, TypeEnvironment DEF Next

(***************************************************************************)
(* Every reachable state is well typed.                                    *)
(***************************************************************************)
THEOREM TypeCorrect == Spec => []TypeOK
BY TypeInit, TypeStep, PTL DEF Spec

-----------------------------------------------------------------------------
(* The parts of the inductive invariant, each kept by every step. *)

(***************************************************************************)
(* The steps of the walk that go on with it, and those that end the run.   *)
(***************************************************************************)
Strides(r) ==
    /\ pc[r] = "indexing"
    /\ UNCHANGED <<diskVars, storeVars, pc, create, spelling, begun>>

Exits(r) ==
    /\ pc[r] = "indexing"
    /\ \E outcome \in {"done", "failed"} : Exit(r, outcome)

LEMMA ExitCases ==
    ASSUME NEW r \in Run
    PROVE  /\ \A f \in File : Abort(r, f) => Exits(r) /\ index' = index
           /\ Crash(r) => Exits(r) /\ index' = index
           /\ Close(r) => Exits(r) /\ index' = pending[r]
BY DEF Abort, Crash, Close, Die, Exits, Indexing

LEMMA StrideCases ==
    ASSUME NEW r \in Run
    PROVE  /\ \A d \in Dir : EnterDir(r, d) => Strides(r)
           /\ \A d \in Dir : SkipDir(r, d) => Strides(r)
           /\ LeaveDir(r) => Strides(r)
           /\ \A f \in File : SkipFile(r, f) => Strides(r)
           /\ \A f \in File : AddDocument(r, f) => Strides(r)
           /\ \A f \in File : UpdateDocument(r, f) => Strides(r)
BY DEF EnterDir, SkipDir, LeaveDir, SkipFile, AddDocument, UpdateDocument,
       Strides, Indexing

LEMMA WalkCases ==
    ASSUME NEW r \in Run, Walk(r)
    PROVE  Strides(r) \/ Exits(r)
BY ExitCases, StrideCases DEF Walk

LEMMA LockStep == TypeOK /\ LockInv /\ [Next]_vars => LockInv'
<1> SUFFICES ASSUME TypeOK, LockInv, [Next]_vars PROVE LockInv'
  OBVIOUS
<1> USE DEF LockInv, TypeOK
<1>1. CASE Environment
  BY <1>1 DEF Environment, WriteFile, RemoveFile, ToggleDir, storeVars, runVars
<1>2. ASSUME NEW r \in Run, Main(r) PROVE LockInv'
  <2>1. CASE ExitEarly(r)
    BY <2>1 DEF ExitEarly, storeVars
  <2>2. ASSUME NEW c \in BOOLEAN, OpenWriter(r, c) PROVE LockInv'
    BY <2>2, SentinelAssumption DEF OpenWriter
  <2>3. CASE Strides(r)
    BY <2>3 DEF Strides, storeVars
  <2>4. CASE Exits(r)
    BY <2>4, SentinelAssumption DEF Exits, Exit
  <2>5. QED
    BY <1>2, <2>1, <2>2, <2>3, <2>4, WalkCases, ExitCases DEF Main
<1>3. CASE UNCHANGED vars
  BY <1>3 DEF vars, storeVars, runVars
<1>4. QED
  BY <1>1, <1>2, <1>3 DEF Next

(***************************************************************************)
(* Taking entries out of a stack keeps it disjoint and unwritten.          *)
(***************************************************************************)
LEMMA Shrink ==
    ASSUME NEW s, NEW t, Len(s) \in Nat, Len(t) \in Nat, Len(t) <= Len(s),
           \A i \in 1..Len(t) : t[i] \subseteq s[i]
    PROVE  /\ Disjoint(s) => Disjoint(t)
           /\ \A docs : Unwritten(s, docs) => Unwritten(t, docs)
<1>1. \A i \in 1..Len(t) : i \in 1..Len(s)
  OBVIOUS
<1>2. Disjoint(s) => Disjoint(t)
  BY <1>1 DEF Disjoint
<1>3. ASSUME NEW docs, Unwritten(s, docs) PROVE Unwritten(t, docs)
  BY <1>1, <1>3 DEF Unwritten
<1>4. QED
  BY <1>2, <1>3

LEMMA WithoutShrinks ==
    ASSUME TypeOK, NEW r \in Run, Indexing(r), NEW n,
           Disjoint(todo[r])
    PROVE  /\ Disjoint(Without(r, n))
           /\ \A docs : Unwritten(todo[r], docs) => Unwritten(Without(r, n), docs)
<1>1. Len(todo[r]) \in Nat /\ Len(Without(r, n)) = Len(todo[r])
  BY WithoutFacts, LenProperties DEF TypeOK
<1>2. ASSUME NEW i \in 1..Len(todo[r])
      PROVE  Without(r, n)[i] \subseteq todo[r][i]
  <2>1. CASE i = Depth(r)
    BY <2>1, WithoutFacts DEF Level
  <2>2. CASE i # Depth(r)
    BY <2>2, WithoutFacts
  <2>3. QED
    BY <2>1, <2>2
<1>3. QED
  BY <1>1, <1>2, Shrink

(***************************************************************************)
(* The entry taken out shares no file with what is left.                   *)
(***************************************************************************)
LEMMA TakenIsApart ==
    ASSUME TypeOK, NEW r \in Run, Indexing(r), NEW n \in Level(r),
           Disjoint(todo[r]),
           NEW i \in 1..Len(todo[r]), NEW m \in Without(r, n)[i]
    PROVE  m \in todo[r][i] /\ Under(m) \cap Under(n) = {}
<1>1. /\ Depth(r) \in 1..Len(todo[r]) /\ Depth(r) = Len(todo[r])
      /\ n \in todo[r][Depth(r)]
  BY WithoutFacts DEF Level, Depth
<1>2. m \in todo[r][i] /\ (i # Depth(r) \/ m # n)
  <2>1. CASE i = Depth(r)
    BY <2>1, WithoutFacts DEF Level
  <2>2. CASE i # Depth(r)
    BY <2>2, WithoutFacts
  <2>3. QED
    BY <2>1, <2>2
<1>3. QED
  BY <1>1, <1>2 DEF Disjoint

LEMMA EnterKeepsWalk ==
    ASSUME TypeOK, NEW r \in Run, NEW d \in Dir, EnterDir(r, d),
           Disjoint(todo[r])
    PROVE  LET s == Append(Without(r, d), Listing(d)) IN
           /\ Disjoint(s)
           /\ \A docs : Unwritten(todo[r], docs) => Unwritten(s, docs)
<1> DEFINE n == Len(todo[r])
           s == Append(Without(r, d), Listing(d))
<1>1. Indexing(r) /\ d \in Level(r) /\ n \in Nat \ {0}
  BY LenProperties DEF EnterDir, Indexing, Depth, TypeOK
<1>2. Under(d) = Below[d]
  BY TreeAssumption DEF Under
<1>3. \A m \in Listing(d) : Under(m) \subseteq Under(d)
  BY <1>2, EnterFacts, TreeAssumption
<1>4. /\ Len(s) = n + 1
      /\ \A i \in 1..n : s[i] = Without(r, d)[i]
      /\ s[n + 1] = Listing(d)
  BY EnterFacts
<1>5. \A i \in 1..n : \A m \in s[i] :
         m \in todo[r][i] /\ Under(m) \cap Under(d) = {}
  BY <1>1, <1>4, TakenIsApart
<1>6. Disjoint(Without(r, d)) /\ Len(Without(r, d)) = n
  BY <1>1, WithoutShrinks, WithoutFacts
<1> HIDE DEF n, s
<1>7. ASSUME NEW i \in 1..Len(s), NEW j \in 1..Len(s),
             NEW m \in s[i], NEW k \in s[j], i # j \/ m # k
      PROVE  Under(m) \cap Under(k) = {}
  <2>1. CASE i \in 1..n /\ j \in 1..n
    BY <1>4, <1>6, <1>7, <2>1 DEF Disjoint
  <2>2. CASE i \in 1..n /\ j = n + 1
    BY <1>3, <1>4, <1>5, <2>2
  <2>3. CASE i = n + 1 /\ j \in 1..n
    BY <1>3, <1>4, <1>5, <2>3
  <2>4. CASE i = n + 1 /\ j = n + 1
    BY <1>4, <1>7, <2>4, EnterFacts, TreeAssumption
  <2>5. QED
    BY <1>1, <1>4, <2>1, <2>2, <2>3, <2>4
<1>8. ASSUME NEW docs, Unwritten(todo[r], docs),
             NEW i \in 1..Len(s), NEW m \in s[i], NEW e \in docs
      PROVE  e.path[2] \notin Under(m)
  <2>1. CASE i \in 1..n
    BY <1>5, <1>8, <2>1 DEF Unwritten, n
  <2>2. CASE i = n + 1
    <3>1. e.path[2] \notin Under(d)
      BY <1>1, <1>8, WithoutFacts DEF Unwritten, Level
    <3>2. QED
      BY <1>3, <1>4, <2>2, <3>1
  <2>3. QED
    BY <1>1, <1>4, <2>1, <2>2
<1>9. QED
  BY <1>7, <1>8 DEF Disjoint, Unwritten, s

(***************************************************************************)
(* A walk reaches each file at most once.                                  *)
(***************************************************************************)
LEMMA WalkStep == TypeOK /\ WalkInv /\ [Next]_vars => WalkInv'
<1> SUFFICES ASSUME TypeOK, WalkInv, [Next]_vars PROVE WalkInv'
  OBVIOUS
<1> DEFINE Good(stack, c, docs) == Disjoint(stack) /\ (c => Unwritten(stack, docs))
<1>0. ASSUME NEW q \in Run PROVE Good(todo[q], create[q], pending[q])
  BY DEF WalkInv
<1>1. SUFFICES ASSUME NEW q \in Run
               PROVE  Good(todo'[q], create'[q], pending'[q])
  BY DEF WalkInv, Disjoint, Unwritten, Under
<1>2. CASE UNCHANGED <<todo, create, pending>>
  BY <1>0, <1>2
<1>3. ASSUME NEW r \in Run, Walk(r), Strides(r)
      PROVE  Good(todo'[q], create'[q], pending'[q])
  <2>1. CASE q # r
    <3>1. todo'[q] = todo[q] /\ create'[q] = create[q] /\ pending'[q] = pending[q]
      BY <1>3, <2>1 DEF Strides, Walk, EnterDir, SkipDir, LeaveDir, SkipFile,
         AddDocument, UpdateDocument, Abort, Close, Die, Exit, Taken, TypeOK
    <3>2. QED
      BY <3>1, <1>0
  <2>2. CASE q = r
    <3>1. create'[r] = create[r] /\ Disjoint(todo[r])
      BY <1>3, <1>0 DEF Strides
    <3>2. ASSUME NEW d \in Dir, EnterDir(r, d)
          PROVE  Good(todo'[r], create'[r], pending'[r])
      <4>1. /\ todo'[r] = Append(Without(r, d), Listing(d))
            /\ pending'[r] = pending[r]
        BY <3>2 DEF EnterDir, TypeOK
      <4>2. QED
        BY <3>1, <3>2, <4>1, <1>0, EnterKeepsWalk
    <3>3. ASSUME NEW n, Indexing(r), todo'[r] = Without(r, n), pending'[r] = pending[r]
          PROVE  Good(todo'[r], create'[r], pending'[r])
      BY <3>1, <3>3, <1>0, WithoutShrinks
    <3>4. CASE LeaveDir(r)
      <4>1. /\ todo'[r] = SubSeq(todo[r], 1, Depth(r) - 1)
            /\ pending'[r] = pending[r]
        BY <3>4 DEF LeaveDir, TypeOK
      <4>2. /\ Len(todo'[r]) = Len(todo[r]) - 1
            /\ \A i \in 1..Len(todo'[r]) : todo'[r][i] = todo[r][i]
        BY <3>4, <4>1, LeaveFacts
      <4>3. /\ Len(todo[r]) \in Nat /\ Len(todo'[r]) \in Nat
            /\ Len(todo'[r]) <= Len(todo[r])
        <5>1. todo[r] \in Seq(SUBSET Node) /\ todo'[r] \in Seq(SUBSET Node)
          BY <3>4, <4>1, LeaveFacts DEF TypeOK, Node
        <5>2. QED
          BY <5>1, <4>2, LenProperties
      <4>4. /\ Disjoint(todo'[r])
            /\ Unwritten(todo[r], pending[r]) => Unwritten(todo'[r], pending[r])
        <5>1. \A i \in 1..Len(todo'[r]) : todo'[r][i] \subseteq todo[r][i]
          BY <4>2
        <5>2. QED
          BY <3>1, <4>3, <5>1, Shrink
      <4>5. QED
        BY <2>2, <3>1, <4>1, <4>4, <1>0
    <3>5. ASSUME NEW f \in File, AddDocument(r, f)
          PROVE  Good(todo'[r], create'[r], pending'[r])
      <4>1. /\ Indexing(r) /\ f \in Level(r)
            /\ todo'[r] = Without(r, f)
            /\ pending'[r] = pending[r] \cup {DocOf(r, f)}
        BY <3>5 DEF AddDocument, Taken, TypeOK
      <4>2. DocOf(r, f).path[2] = f /\ Under(f) = {f}
        BY <3>5, DocFacts DEF AddDocument, Under
      <4>3. Disjoint(todo'[r]) /\ Unwritten(todo'[r], pending[r])
        BY <3>1, <3>5, <4>1, <1>0, WithoutShrinks DEF AddDocument
      <4>4. ASSUME NEW i \in 1..Len(todo'[r]), NEW m \in todo'[r][i]
            PROVE  f \notin Under(m)
        <5>1. i \in 1..Len(todo[r]) /\ m \in Without(r, f)[i]
          BY <4>1, WithoutFacts
        <5>2. Under(m) \cap Under(f) = {}
          BY <3>1, <4>1, <5>1, TakenIsApart
        <5>3. QED
          BY <4>2, <5>2
      <4>5. QED
        BY <4>1, <4>2, <4>3, <4>4 DEF Unwritten
    <3>6. ASSUME NEW f \in File, UpdateDocument(r, f)
          PROVE  Good(todo'[r], create'[r], pending'[r])
      <4>1. /\ Indexing(r) /\ ~create[r]
            /\ todo'[r] = Without(r, f)
        BY <3>6 DEF UpdateDocument, Taken, TypeOK
      <4>2. QED
        BY <3>1, <4>1, WithoutShrinks
    <3>7. ASSUME NEW d \in Dir, SkipDir(r, d)
          PROVE  Good(todo'[r], create'[r], pending'[r])
      BY <3>7, <3>3 DEF SkipDir, Taken, TypeOK
    <3>8. ASSUME NEW f \in File, SkipFile(r, f)
          PROVE  Good(todo'[r], create'[r], pending'[r])
      BY <3>8, <3>3 DEF SkipFile, Taken, TypeOK
    <3>9. (\A f \in File : ~Abort(r, f)) /\ ~Close(r)
      BY <1>3 DEF Strides, Abort, Close, Die, Exit, Indexing, TypeOK
    <3>10. QED
      BY <1>3, <2>2, <3>2, <3>4, <3>5, <3>6, <3>7, <3>8, <3>9 DEF Walk
  <2>3. QED
    BY <2>1, <2>2
<1>4. ASSUME NEW r \in Run, Exits(r) PROVE Good(todo'[q], create'[q], pending'[q])
  <2>1. create' = create /\ todo' = [todo EXCEPT ![r] = <<>>]
        /\ pending' = [pending EXCEPT ![r] = {}]
    BY <1>4 DEF Exits, Exit
  <2>2. CASE q # r
    BY <2>1, <2>2, <1>0 DEF TypeOK
  <2>3. CASE q = r
    <3>1. todo'[q] = <<>>
      BY <2>1, <2>3 DEF TypeOK
    <3>2. QED
      BY <3>1 DEF Disjoint, Unwritten
  <2>4. QED
    BY <2>2, <2>3
<1>5. ASSUME NEW r \in Run, NEW c \in BOOLEAN, OpenWriter(r, c)
      PROVE  Good(todo'[q], create'[q], pending'[q])
  <2>1. CASE q # r
    BY <1>5, <2>1, <1>0 DEF OpenWriter, TypeOK
  <2>2. CASE q = r
    <3>1. /\ todo'[q] = <<{Root}>>
          /\ create'[q] = c
          /\ c => pending'[q] = {}
      BY <1>5, <2>2 DEF OpenWriter, TypeOK
    <3>2. QED
      BY <3>1 DEF Disjoint, Unwritten
  <2>3. QED
    BY <2>1, <2>2
<1>6. CASE Environment
  BY <1>6, <1>2 DEF Environment, WriteFile, RemoveFile, ToggleDir, runVars
<1>7. ASSUME NEW r \in Run, ExitEarly(r) PROVE UNCHANGED <<todo, create, pending>>
  BY <1>7 DEF ExitEarly
<1>8. CASE UNCHANGED vars
  BY <1>8, <1>2 DEF vars, runVars
<1> HIDE DEF Good
<1>9. ASSUME NEW r \in Run, Main(r) PROVE Good(todo'[q], create'[q], pending'[q])
  BY <1>9, <1>2, <1>3, <1>4, <1>5, <1>7, WalkCases, ExitCases DEF Main
<1>10. QED
  BY <1>6, <1>8, <1>9 DEF Next

LEMMA OwnDocsStep == TypeOK /\ LockInv /\ OwnDocs /\ [Next]_vars => OwnDocs'
<1> SUFFICES ASSUME TypeOK, LockInv, OwnDocs, [Next]_vars,
                    NEW q \in Run, pc'[q] = "indexing", create'[q],
                    NEW e \in pending'[q]
             PROVE  e.by = q
  BY DEF OwnDocs
<1>1. CASE UNCHANGED <<pc, create, pending>>
  BY <1>1 DEF OwnDocs
<1>2. ASSUME NEW r \in Run, Walk(r), Strides(r) PROVE e.by = q
  <2>1. ASSUME NEW f \in File, AddDocument(r, f) PROVE e.by = q
    BY <1>2, <2>1, DocFacts DEF AddDocument, OwnDocs, TypeOK, Strides
  <2>2. ASSUME NEW f \in File, UpdateDocument(r, f) PROVE e.by = q
    BY <1>2, <2>2 DEF UpdateDocument, OwnDocs, TypeOK, Strides
  <2>3. (\A f \in File : ~Abort(r, f)) /\ ~Close(r)
    BY <1>2 DEF Strides, Abort, Close, Die, Exit, Indexing, TypeOK
  <2>4. QED
    BY <1>1, <1>2, <2>1, <2>2, <2>3 DEF Walk, EnterDir, SkipDir, LeaveDir,
       SkipFile
<1>3. ASSUME NEW r \in Run, Exits(r) PROVE e.by = q
  BY <1>3 DEF Exits, Exit, OwnDocs, TypeOK
<1>4. ASSUME NEW r \in Run, NEW c \in BOOLEAN, OpenWriter(r, c) PROVE e.by = q
  BY <1>4 DEF OpenWriter, OwnDocs, TypeOK
<1>5. ASSUME NEW r \in Run, ExitEarly(r) PROVE e.by = q
  BY <1>5 DEF ExitEarly, OwnDocs, TypeOK
<1>6. CASE Environment
  BY <1>6, <1>1 DEF Environment, WriteFile, RemoveFile, ToggleDir, runVars
<1>7. CASE UNCHANGED vars
  BY <1>7, <1>1 DEF vars, runVars
<1>8. ASSUME NEW r \in Run, Main(r) PROVE e.by = q
  BY <1>8, <1>2, <1>3, <1>4, <1>5, WalkCases, ExitCases DEF Main
<1>9. QED
  BY <1>6, <1>7, <1>8 DEF Next

(***************************************************************************)
(* Adding without looking for an old copy (CREATE) and replacing the old   *)
(* copy (update) both keep the paths of a writer's view unique.            *)
(***************************************************************************)
LEMMA UniqueStep == TypeOK /\ UniquePaths /\ WalkInv /\ [Next]_vars => UniquePaths'
<1> SUFFICES ASSUME TypeOK, UniquePaths, WalkInv, [Next]_vars PROVE UniquePaths'
  OBVIOUS
<1> USE DEF UniquePaths, Store!OneDocPerPath
<1>1. CASE UNCHANGED <<index, pending>>
  BY <1>1 DEF Store!Committed
<1>2. ASSUME NEW r \in Run, Walk(r), Strides(r) PROVE UniquePaths'
  <2>1. ASSUME NEW f \in File, AddDocument(r, f) PROVE UniquePaths'
    <3>1. /\ pending' = [pending EXCEPT ![r] = @ \cup {DocOf(r, f)}]
          /\ index' = index
      BY <2>1 DEF AddDocument, storeVars
    <3>2. DocOf(r, f).path[2] = f /\ Under(f) = {f}
      BY <2>1, DocFacts DEF AddDocument, Under
    <3>3. Unwritten(todo[r], pending[r]) /\ Depth(r) \in 1..Len(todo[r])
      BY <2>1, WithoutFacts DEF AddDocument, WalkInv
    <3>4. \A d \in pending[r] : d.path # DocOf(r, f).path
      BY <2>1, <3>2, <3>3 DEF Unwritten, AddDocument, Level
    <3>5. QED
      BY <3>1, <3>4 DEF Store!Committed, TypeOK
  <2>2. ASSUME NEW f \in File, UpdateDocument(r, f) PROVE UniquePaths'
    BY <2>2 DEF UpdateDocument, Store!Committed, TypeOK, storeVars
  <2>3. (\A f \in File : ~Abort(r, f)) /\ ~Close(r)
    BY <1>2 DEF Strides, Abort, Close, Die, Exit, Indexing, TypeOK
  <2>4. QED
    BY <1>1, <1>2, <2>1, <2>2, <2>3 DEF Walk, EnterDir, SkipDir, LeaveDir,
       SkipFile, storeVars
<1>3. ASSUME NEW r \in Run, Exits(r), index' \in {index, pending[r]}
      PROVE  UniquePaths'
  BY <1>3 DEF Exits, Exit, Store!Committed, TypeOK
<1>4. ASSUME NEW r \in Run, NEW c \in BOOLEAN, OpenWriter(r, c) PROVE UniquePaths'
  BY <1>4 DEF OpenWriter, Store!Committed, TypeOK
<1>5. ASSUME NEW r \in Run, ExitEarly(r) PROVE UniquePaths'
  BY <1>5, <1>1 DEF ExitEarly, storeVars
<1>6. CASE Environment
  BY <1>6, <1>1 DEF Environment, WriteFile, RemoveFile, ToggleDir, runVars, storeVars
<1>7. CASE UNCHANGED vars
  BY <1>7, <1>1 DEF vars, runVars, storeVars
<1>8. ASSUME NEW r \in Run, Main(r) PROVE UniquePaths'
  <2>1. CASE Walk(r)
    <3>1. CASE Strides(r)
      BY <1>2, <2>1, <3>1
    <3>2. CASE ~Strides(r)
      <4>1. Exits(r) /\ index' \in {index, pending[r]}
        BY <2>1, <3>2, ExitCases, StrideCases DEF Walk
      <4>2. QED
        BY <1>3, <4>1
    <3>3. QED
      BY <3>1, <3>2
  <2>2. CASE Crash(r)
    BY <1>3, <2>2, ExitCases
  <2>3. QED
    BY <1>4, <1>5, <1>8, <2>1, <2>2 DEF Main
<1>9. QED
  BY <1>6, <1>7, <1>8 DEF Next

(***************************************************************************)
(* write.lock keeps the last commit in place while an update builds on it. *)
(***************************************************************************)
LEMMA UpdateStep ==
    TypeOK /\ LockInv /\ UpdateBuildsOnLastCommit /\ [Next]_vars
        => UpdateBuildsOnLastCommit'
<1> DEFINE Builds(docs, old, q) ==
        /\ \A d \in docs : d.by = q \/ d \in old
        /\ \A d \in old : \E e \in docs : e.path = d.path /\ (e = d \/ e.by = q)
<1> SUFFICES ASSUME TypeOK, LockInv, UpdateBuildsOnLastCommit, [Next]_vars,
                    NEW q \in Run, pc'[q] = "indexing", ~create'[q]
             PROVE  Builds(pending'[q], Store!Committed', q)
  BY DEF UpdateBuildsOnLastCommit
<1>0. pc[q] = "indexing" /\ ~create[q] => Builds(pending[q], Store!Committed, q)
  BY DEF UpdateBuildsOnLastCommit
<1>1. CASE UNCHANGED <<pc, create, index, pending>>
  BY <1>0, <1>1 DEF Store!Committed
<1>2. ASSUME NEW r \in Run, Walk(r), Strides(r)
      PROVE  Builds(pending'[q], Store!Committed', q)
  <2>1. pc' = pc /\ create' = create /\ Store!Committed' = Store!Committed
    BY <1>2 DEF Strides, storeVars, Store!Committed
  <2>2. ASSUME NEW f \in File, AddDocument(r, f)
        PROVE  Builds(pending'[q], Store!Committed', q)
    <3>1. q # r /\ pending'[q] = pending[q]
      BY <2>1, <2>2 DEF AddDocument, TypeOK
    <3>2. QED
      BY <1>0, <2>1, <3>1
  <2>3. ASSUME NEW f \in File, UpdateDocument(r, f)
        PROVE  Builds(pending'[q], Store!Committed', q)
    <3>1. CASE q # r
      <4>1. pending'[q] = pending[q]
        BY <2>3, <3>1 DEF UpdateDocument, TypeOK
      <4>2. QED
        BY <1>0, <2>1, <4>1
    <3>2. CASE q = r
      <4>1. pending'[q] = {d \in pending[q] : d.path # DocOf(q, f).path}
                          \cup {DocOf(q, f)}
        BY <2>3, <3>2 DEF UpdateDocument, TypeOK
      <4>2. DocOf(q, f).by = q
        BY DEF DocOf
      <4>3. Builds(pending[q], Store!Committed, q)
        BY <1>0, <2>1
      <4> HIDE DEF Store!Committed
      <4>4. ASSUME NEW d \in Store!Committed
            PROVE  \E e \in pending'[q] : e.path = d.path /\ (e = d \/ e.by = q)
        <5>1. PICK e \in pending[q] : e.path = d.path /\ (e = d \/ e.by = q)
          BY <4>3
        <5>2. CASE e.path = DocOf(q, f).path
          BY <4>1, <4>2, <5>1, <5>2
        <5>3. CASE e.path # DocOf(q, f).path
          BY <4>1, <5>1, <5>3
        <5>4. QED
          BY <5>2, <5>3
      <4>5. \A d \in pending'[q] : d.by = q \/ d \in Store!Committed
        BY <4>1, <4>2, <4>3
      <4>6. QED
        BY <2>1, <4>4, <4>5
    <3>3. QED
      BY <3>1, <3>2
  <2>4. (\A f \in File : ~Abort(r, f)) /\ ~Close(r)
    BY <1>2 DEF Strides, Abort, Close, Die, Exit, Indexing, TypeOK
  <2>5. QED
    BY <1>1, <1>2, <2>2, <2>3, <2>4 DEF Walk, EnterDir, SkipDir, LeaveDir,
       SkipFile, storeVars
<1>3. ASSUME NEW r \in Run, Exits(r) PROVE FALSE
  <2>1. q # r /\ pc[q] = "indexing"
    BY <1>3 DEF Exits, Exit, TypeOK
  <2>2. QED
    BY <1>3, <2>1 DEF Exits, LockInv
<1>4. ASSUME NEW r \in Run, NEW c \in BOOLEAN, OpenWriter(r, c)
      PROVE  Builds(pending'[q], Store!Committed', q)
  <2>1. Store!Committed' = Store!Committed
    BY <1>4 DEF OpenWriter, Store!Committed
  <2>2. CASE q # r
    <3>1. pc[q] = "indexing" /\ ~create[q] /\ pending'[q] = pending[q]
      BY <1>4, <2>2 DEF OpenWriter, TypeOK
    <3>2. QED
      BY <1>0, <2>1, <3>1
  <2>3. CASE q = r
    <3>1. pending'[q] = Store!Committed
      BY <1>4, <2>3 DEF OpenWriter, TypeOK
    <3>2. QED
      BY <2>1, <3>1
  <2>4. QED
    BY <2>2, <2>3
<1>5. ASSUME NEW r \in Run, ExitEarly(r)
      PROVE  Builds(pending'[q], Store!Committed', q)
  <2>1. /\ pc[q] = "indexing" /\ ~create[q] /\ pending'[q] = pending[q]
        /\ Store!Committed' = Store!Committed
    BY <1>5 DEF ExitEarly, TypeOK, storeVars, Store!Committed
  <2>2. QED
    BY <1>0, <2>1
<1>6. CASE Environment
  BY <1>6, <1>1 DEF Environment, WriteFile, RemoveFile, ToggleDir, runVars, storeVars
<1>7. CASE UNCHANGED vars
  BY <1>7, <1>1 DEF vars, runVars, storeVars
<1> HIDE DEF Builds
<1>8. ASSUME NEW r \in Run, Main(r) PROVE Builds(pending'[q], Store!Committed', q)
  BY <1>8, <1>2, <1>3, <1>4, <1>5, WalkCases, ExitCases DEF Main
<1>9. QED
  BY <1>6, <1>7, <1>8 DEF Next

(***************************************************************************)
(* Whatever happens to the docs directory, documents stay behind it.       *)
(***************************************************************************)
LEMMA VersionEnvironment ==
    TypeOK /\ VersionInv /\ Environment => VersionInv'
<1> SUFFICES ASSUME TypeOK, VersionInv, Environment PROVE VersionInv'
  OBVIOUS
<1>1. /\ UNCHANGED <<index, pending, pc>>
      /\ clock \in Nat /\ clock' \in Nat /\ clock' = clock + 1
      /\ \A f \in File : disk'[f] # NoFile =>
            disk'[f] = disk[f] \/ disk'[f].version = clock'
  <2>1. clock \in Nat
    BY SentinelAssumption DEF TypeOK
  <2>2. ASSUME NEW g \in File, NEW k \in Kind, WriteFile(g, k),
               NEW f \in File
        PROVE  disk'[f] = disk[f] \/ disk'[f].version = clock'
    BY <2>2 DEF WriteFile, Tick, TypeOK
  <2>3. ASSUME NEW g \in File, RemoveFile(g), NEW f \in File
        PROVE  disk'[f] = disk[f] \/ disk'[f] = NoFile
    BY <2>3 DEF RemoveFile, TypeOK
  <2>4. QED
    BY <2>1, <2>2, <2>3 DEF Environment, WriteFile, RemoveFile, ToggleDir, Tick,
       storeVars, runVars
<1>2. ASSUME NEW docs \in SUBSET Store!Doc, Behind(docs),
             NEW d \in docs
      PROVE  /\ d.version <= clock'
             /\ disk'[d.path[2]] # NoFile => d.version <= disk'[d.path[2]].version
  <2>1. d.version \in Nat /\ d.path[2] \in File
    BY SentinelAssumption DEF Store!Doc
  <2>2. d.version <= clock
    BY <1>2 DEF Behind
  <2>3. CASE disk'[d.path[2]] = disk[d.path[2]]
    BY <1>1, <1>2, <2>1, <2>2, <2>3 DEF Behind
  <2>4. CASE disk'[d.path[2]] # disk[d.path[2]]
    BY <1>1, <2>1, <2>2, <2>4
  <2>5. QED
    BY <2>3, <2>4
<1>3. \A f \in File : disk'[f] # NoFile => disk'[f].version <= clock'
  <2>1. ASSUME NEW f \in File, disk'[f] # NoFile PROVE disk'[f].version <= clock'
    <3>1. CASE disk'[f] = disk[f]
      <4>1. disk[f].version <= clock /\ disk[f].version \in Nat
        BY <2>1, <3>1, SentinelAssumption DEF VersionInv, TypeOK, Content
      <4>2. QED
        BY <1>1, <3>1, <4>1
    <3>2. CASE disk'[f] # disk[f]
      BY <1>1, <2>1, <3>2
    <3>3. QED
      BY <3>1, <3>2
  <2>2. QED
    BY <2>1
<1>4. Store!Committed' = Store!Committed /\ Store!Committed \in SUBSET Store!Doc
  BY <1>1 DEF Store!Committed, TypeOK
<1>5. Behind(Store!Committed)'
  BY <1>2, <1>4 DEF Behind, VersionInv
<1>6. \A r \in Run : Behind(pending[r])'
  <2>1. ASSUME NEW r \in Run PROVE Behind(pending[r])'
    <3>1. pending'[r] = pending[r] /\ pending[r] \in SUBSET Store!Doc
      BY <1>1 DEF TypeOK
    <3>2. QED
      BY <1>2, <3>1 DEF Behind, VersionInv
  <2>2. QED
    BY <2>1
<1>7. \A r \in Run : pc'[r] = "indexing" =>
         Store!NoOlder(Store!Committed', pending'[r])
  BY <1>1, <1>4 DEF VersionInv
<1>8. QED
  BY <1>3, <1>5, <1>6, <1>7 DEF VersionInv

(***************************************************************************)
(* A document that a run adds is not older than the committed copy: it was *)
(* read after that copy was committed, and write.lock was held since.      *)
(***************************************************************************)
LEMMA VersionAdd ==
    ASSUME TypeOK, VersionInv, NEW r \in Run, NEW f \in File,
           pc[r] = "indexing", HasKind(f, {"wellFormed"}),
           NEW docs \in SUBSET pending[r]
    PROVE  /\ Behind(docs \cup {DocOf(r, f)})
           /\ Store!NoOlder(Store!Committed, docs \cup {DocOf(r, f)})
<1>1. /\ DocOf(r, f).path[2] = f
      /\ DocOf(r, f).version = disk[f].version
      /\ disk[f] # NoFile /\ disk[f].version <= clock
      /\ disk[f].version \in Nat
  BY DocFacts, SentinelAssumption DEF HasKind, VersionInv, TypeOK, Content
<1>2. Behind(docs \cup {DocOf(r, f)})
  <2>1. Behind(pending[r])
    BY DEF VersionInv
  <2>2. QED
    BY <1>1, <2>1 DEF Behind
<1>3. ASSUME NEW d \in Store!Committed, d.path = DocOf(r, f).path
      PROVE  d.version <= DocOf(r, f).version
  BY <1>1, <1>3 DEF VersionInv, Behind
<1>4. Store!NoOlder(Store!Committed, pending[r])
  BY DEF VersionInv
<1>5. QED
  BY <1>2, <1>3, <1>4 DEF Store!NoOlder

LEMMA VersionMain ==
    ASSUME TypeOK, LockInv, UniquePaths, VersionInv, NEW r \in Run, Main(r)
    PROVE  VersionInv'
<1> DEFINE Fresh(q) == /\ Behind(pending[q])
                       /\ pc[q] = "indexing" =>
                             Store!NoOlder(Store!Committed, pending[q])
<1>0. VersionInv <=> /\ \A f \in File : disk[f] # NoFile => disk[f].version <= clock
                     /\ Behind(Store!Committed)
                     /\ \A q \in Run : Fresh(q)
  BY DEF VersionInv
<1>1. UNCHANGED <<disk, clock>>
  BY DEF Main, Walk, ExitEarly, OpenWriter, EnterDir, SkipDir, LeaveDir, SkipFile,
     AddDocument, UpdateDocument, Abort, Crash, Close, Die, Exit, diskVars
<1>2. CASE UNCHANGED <<index, pending>> /\ \A q \in Run : pc'[q] = "indexing" => pc[q] = "indexing"
  BY <1>1, <1>2 DEF VersionInv, Behind, Store!NoOlder, Store!Committed
<1>3. ASSUME Strides(r), NEW docs \in SUBSET pending[r], NEW f \in File,
             HasKind(f, {"wellFormed"}),
             pending' = [pending EXCEPT ![r] = docs \cup {DocOf(r, f)}]
      PROVE  VersionInv'
  <2>1. pc[r] = "indexing" /\ pc' = pc /\ index' = index
    BY <1>3 DEF Strides, storeVars
  <2>2. /\ Behind(docs \cup {DocOf(r, f)})
        /\ Store!NoOlder(Store!Committed, docs \cup {DocOf(r, f)})
    BY <1>3, <2>1, VersionAdd
  <2>3. \A q \in Run : pending'[q] = IF q = r THEN docs \cup {DocOf(r, f)}
                                              ELSE pending[q]
    BY <1>3 DEF TypeOK
  <2>4. QED
    BY <1>1, <2>1, <2>2, <2>3 DEF VersionInv, Behind, Store!NoOlder, Store!Committed
<1>4. ASSUME Exits(r), index' \in {index, pending[r]} PROVE VersionInv'
  <2>1. /\ pc[r] = "indexing"
        /\ \A q \in Run : pc'[q] # "indexing"
        /\ \A q \in Run : pending'[q] = IF q = r THEN {} ELSE pending[q]
    BY <1>4 DEF Exits, Exit, TypeOK, LockInv
  <2>2. Store!Committed' = Store!Committed \/ Store!Committed' \subseteq pending[r]
    BY <1>4 DEF Store!Committed
  <2>3. Behind(Store!Committed)'
    BY <1>1, <2>2 DEF VersionInv, Behind
  <2>4. \A q \in Run : Behind(pending[q])'
    BY <1>1, <2>1 DEF VersionInv, Behind
  <2>5. QED
    BY <1>1, <2>1, <2>3, <2>4 DEF VersionInv
<1>5. ASSUME NEW c \in BOOLEAN, OpenWriter(r, c) PROVE VersionInv'
  <2>1. /\ index' = index
        /\ \A q \in Run : pc'[q] = "indexing" => q = r
        /\ pending'[r] \subseteq Store!Committed
        /\ \A q \in Run : q # r => pending'[q] = pending[q]
    BY <1>5, SentinelAssumption DEF OpenWriter, TypeOK, LockInv
  <2>2. Store!Committed' = Store!Committed /\ Store!Committed \subseteq Store!Doc
    BY <2>1 DEF Store!Committed, TypeOK
  <2>3. Store!NoOlder(Store!Committed, pending'[r])
    <3>1. ASSUME NEW d \in Store!Committed, NEW e \in pending'[r], d.path = e.path
          PROVE  d.version <= e.version
      <4>1. d = e
        BY <2>1, <3>1 DEF UniquePaths, Store!OneDocPerPath
      <4>2. d.version \in Nat
        BY <2>2, SentinelAssumption DEF Store!Doc
      <4>3. QED
        BY <4>1, <4>2
    <3>2. QED
      BY <3>1 DEF Store!NoOlder
  <2>4. \A q \in Run : Behind(pending[q])'
    BY <1>1, <2>1 DEF VersionInv, Behind
  <2>5. Behind(Store!Committed)'
    BY <1>1, <2>2 DEF VersionInv, Behind
  <2>6. QED
    BY <1>1, <2>1, <2>2, <2>3, <2>4, <2>5 DEF VersionInv
<1>6. CASE Walk(r)
  <2>1. ASSUME NEW f \in File, AddDocument(r, f) PROVE VersionInv'
    <3>1. pending' = [pending EXCEPT ![r] = pending[r] \cup {DocOf(r, f)}]
      BY <2>1 DEF AddDocument
    <3>2. QED
      BY <1>3, <2>1, <3>1, StrideCases DEF AddDocument
  <2>2. ASSUME NEW f \in File, UpdateDocument(r, f) PROVE VersionInv'
    <3> DEFINE docs == {d \in pending[r] : d.path # DocOf(r, f).path}
    <3>1. pending' = [pending EXCEPT ![r] = docs \cup {DocOf(r, f)}]
      BY <2>2 DEF UpdateDocument
    <3>2. docs \in SUBSET pending[r]
      OBVIOUS
    <3> HIDE DEF docs
    <3>3. Strides(r) /\ HasKind(f, {"wellFormed"})
      BY <2>2, StrideCases DEF UpdateDocument
    <3>4. QED
      BY <1>3, <3>1, <3>2, <3>3
  <2>3. CASE Close(r) \/ \E f \in File : Abort(r, f)
    BY <1>4, <2>3, ExitCases
  <2>4. QED
    BY <1>2, <1>6, <2>1, <2>2, <2>3 DEF Walk, EnterDir, SkipDir, LeaveDir,
       SkipFile, storeVars
<1>7. CASE Crash(r)
  BY <1>4, <1>7, ExitCases
<1>8. CASE ExitEarly(r)
  BY <1>2, <1>8 DEF ExitEarly, storeVars, TypeOK
<1>9. QED
  BY <1>5, <1>6, <1>7, <1>8 DEF Main

LEMMA VersionStep ==
    TypeOK /\ LockInv /\ UniquePaths /\ VersionInv /\ [Next]_vars => VersionInv'
<1> SUFFICES ASSUME TypeOK, LockInv, UniquePaths, VersionInv, [Next]_vars
             PROVE  VersionInv'
  OBVIOUS
<1>1. CASE UNCHANGED vars
  <2>1. UNCHANGED <<disk, clock, pc, pending, index>>
    BY <1>1 DEF vars, diskVars, storeVars, runVars
  <2>2. Store!Committed' = Store!Committed
    BY <2>1 DEF Store!Committed
  <2>3. QED
    BY <2>1, <2>2 DEF VersionInv, Behind
<1>2. QED
  BY <1>1, VersionEnvironment, VersionMain DEF Next

-----------------------------------------------------------------------------
LEMMA IndexInvInit == Init => IndexInv
<1> SUFFICES ASSUME Init PROVE IndexInv
  OBVIOUS
<1>1. TypeOK
  BY TypeInit
<1>2. Store!Committed = {}
  BY DEF Init, Store!StoreInit, Store!Committed
<1>3. \A r \in Run : pc[r] = "idle" /\ pending[r] = {} /\ todo[r] = <<>>
  BY DEF Init
<1>4. LockInv
  BY <1>3, SentinelAssumption DEF Init, Store!StoreInit, LockInv
<1>5. WalkInv
  <2>1. Disjoint(<<>>) /\ \A docs : Unwritten(<<>>, docs)
    BY DEF Disjoint, Unwritten
  <2>2. QED
    BY <1>3, <2>1 DEF WalkInv
<1>6. UniquePaths /\ UpdateBuildsOnLastCommit /\ OwnDocs
  BY <1>2, <1>3 DEF UniquePaths, UpdateBuildsOnLastCommit, OwnDocs,
     Store!OneDocPerPath
<1>7. \A f \in File : disk[f] # NoFile => disk[f].version <= clock
  BY DEF Init
<1>8. VersionInv
  BY <1>2, <1>3, <1>7 DEF VersionInv, Behind
<1>9. QED
  BY <1>1, <1>4, <1>5, <1>6, <1>8 DEF IndexInv

LEMMA IndexInvStep == IndexInv /\ [Next]_vars => IndexInv'
BY TypeStep, LockStep, UniqueStep, UpdateStep, WalkStep, OwnDocsStep, VersionStep
   DEF IndexInv

(***************************************************************************)
(* IndexInv holds in every reachable state.                                *)
(***************************************************************************)
THEOREM IndexInvariant == Spec => []IndexInv
BY IndexInvInit, IndexInvStep, PTL DEF Spec

(***************************************************************************)
(* No path ever has two documents, neither committed nor pending: the      *)
(* comment "no old document can be there" of indexDocs is true, because a  *)
(* walk of a tree meets each file once and CREATE starts from nothing.     *)
(***************************************************************************)
THEOREM PathsAreUnique == Spec => []UniquePaths
<1>1. IndexInv => UniquePaths
  BY DEF IndexInv
<1>2. QED
  BY <1>1, IndexInvariant, PTL

(***************************************************************************)
(* An update loses no document and undoes no other run's commit.           *)
(***************************************************************************)
THEOREM UpdatesLoseNothing == Spec => []UpdateBuildsOnLastCommit
<1>1. IndexInv => UpdateBuildsOnLastCommit
  BY DEF IndexInv
<1>2. QED
  BY <1>1, IndexInvariant, PTL

-----------------------------------------------------------------------------
(* The index directory implements IndexStore. *)

(***************************************************************************)
(* The commit that Close makes is one that IndexStore allows, and every    *)
(* other step of a run takes the lock, gives it up or stutters.            *)
(***************************************************************************)
LEMMA CloseRefines ==
    ASSUME IndexInv, NEW r \in Run, Close(r)
    PROVE  Store!Publish(r) \/ Store!Abandon(r)
<1>1. /\ lock = r /\ lock' = NoRun /\ index' = pending[r]
      /\ pc[r] = "indexing"
      /\ pending[r] \in SUBSET Store!Doc
  BY DEF Close, Exit, IndexInv, LockInv, TypeOK
<1>2. Store!OneDocPerPath(pending[r])
  BY DEF IndexInv, UniquePaths
<1>3. \A d \in pending[r] : d.by = r \/ d \in Store!Committed
  BY <1>1 DEF IndexInv, OwnDocs, UpdateBuildsOnLastCommit, TypeOK
<1>4. Store!NoOlder(Store!Committed, pending[r])
  BY <1>1 DEF IndexInv, VersionInv
<1>5. CASE generation' = generation + 1
  BY <1>1, <1>2, <1>3, <1>4, <1>5 DEF Store!Publish
<1>6. CASE generation' = generation /\ pending[r] = index
  BY <1>1, <1>6 DEF Store!Abandon
<1>7. QED
  BY <1>5, <1>6 DEF Close

LEMMA MainRefines ==
    ASSUME IndexInv, NEW r \in Run, Main(r)
    PROVE  Store!StoreNext \/ UNCHANGED Store!storeVars
<1> USE DEF Store!storeVars, storeVars
<1>1. CASE ExitEarly(r)
  BY <1>1 DEF ExitEarly
<1>2. ASSUME NEW c \in BOOLEAN, OpenWriter(r, c) PROVE Store!StoreNext
  BY <1>2 DEF OpenWriter, Store!StoreNext, Store!Acquire
<1>3. CASE Strides(r)
  BY <1>3 DEF Strides
<1>4. ASSUME Die(r), pc[r] = "indexing" PROVE Store!StoreNext
  BY <1>4 DEF Die, Exit, IndexInv, LockInv, Store!StoreNext, Store!Abandon
<1>5. CASE Walk(r)
  <2>1. ASSUME NEW f \in File, Abort(r, f) PROVE Store!StoreNext
    BY <1>4, <2>1 DEF Abort, Indexing
  <2>2. CASE Close(r)
    BY <2>2, CloseRefines DEF Store!StoreNext
  <2>3. QED
    BY <1>3, <1>5, <2>1, <2>2, StrideCases DEF Walk
<1>6. CASE Crash(r)
  BY <1>4, <1>6 DEF Crash
<1>7. QED
  BY <1>1, <1>2, <1>5, <1>6 DEF Main

(***************************************************************************)
(* The index directory that the runs of IndexFiles share behaves as        *)
(* IndexStore says, however they interleave, fail or are killed.           *)
(***************************************************************************)
THEOREM StoreImplemented == Spec => ImplementsStore
<1>1. Init => Store!StoreInit
  BY DEF Init
<1>2. IndexInv /\ [Next]_vars => [Store!StoreNext]_(Store!storeVars)
  <2> SUFFICES ASSUME IndexInv, [Next]_vars
               PROVE  Store!StoreNext \/ UNCHANGED Store!storeVars
    OBVIOUS
  <2>1. CASE Environment
    BY <2>1 DEF Environment, WriteFile, RemoveFile, ToggleDir, storeVars,
       Store!storeVars
  <2>2. CASE UNCHANGED vars
    BY <2>2 DEF vars, storeVars, Store!storeVars
  <2>3. QED
    BY <2>1, <2>2, MainRefines DEF Next
<1>3. QED
  BY <1>1, <1>2, IndexInvariant, PTL DEF Spec, ImplementsStore, Store!StoreSpec

(***************************************************************************)
(* No commit replaces a document by an older version of its file, and the  *)
(* index is never ahead of the docs directory.                             *)
(***************************************************************************)
THEOREM NoStepBack == Spec => NeverBackInTime
<1> DEFINE Forward ==
      /\ Store!NoOlder(Store!Committed, Store!Committed')
      /\ \A d \in Store!Committed' :
            disk'[d.path[2]] # NoFile => d.version <= disk'[d.path[2]].version
<1>1. IndexInv /\ IndexInv' /\ [Next]_vars => [Forward]_vars
  <2> SUFFICES ASSUME IndexInv, IndexInv', Next PROVE Forward
    OBVIOUS
  <2>1. Behind(Store!Committed)'
    BY DEF IndexInv, VersionInv
  <2>2. \A d \in Store!Committed' :
           disk'[d.path[2]] # NoFile => d.version <= disk'[d.path[2]].version
    BY <2>1 DEF Behind
  <2>3. Store!NoOlder(Store!Committed, Store!Committed')
    <3>1. CASE Store!Committed' = Store!Committed
      <4>1. ASSUME NEW d \in Store!Committed, NEW e \in Store!Committed,
                   d.path = e.path
            PROVE  d.version <= e.version
        <5>1. d = e
          BY <4>1 DEF IndexInv, UniquePaths, Store!OneDocPerPath
        <5>2. d.version \in Nat
          BY SentinelAssumption DEF IndexInv, TypeOK, Store!Committed, Store!Doc
        <5>3. QED
          BY <5>1, <5>2
      <4>2. QED
        BY <3>1, <4>1 DEF Store!NoOlder
    <3>2. ASSUME NEW r \in Run, Close(r)
          PROVE  Store!NoOlder(Store!Committed, Store!Committed')
      <4>1. Store!NoOlder(Store!Committed, pending[r])
        BY <3>2 DEF Close, IndexInv, VersionInv
      <4>2. Store!Committed' \subseteq pending[r]
        BY <3>2 DEF Close, Store!Committed
      <4>3. QED
        BY <4>1, <4>2 DEF Store!NoOlder
    <3>3. CASE Environment
      BY <3>1, <3>3 DEF Environment, WriteFile, RemoveFile, ToggleDir, storeVars,
         Store!Committed
    <3>4. ASSUME NEW r \in Run, Main(r), ~Close(r) PROVE index' = index
      BY <3>4, StrideCases, ExitCases DEF Main, Walk, ExitEarly, OpenWriter,
         Strides, storeVars
    <3>5. QED
      BY <3>1, <3>2, <3>3, <3>4 DEF Next, Store!Committed
  <2>4. QED
    BY <2>2, <2>3
<1>2. QED
  BY <1>1, IndexInvariant, PTL DEF Spec, NeverBackInTime

-----------------------------------------------------------------------------
(* What a walk that nobody disturbs has still to reach, and what it has. *)

Above == CHOOSE above \in [File \cup Dir -> SUBSET Dir] : IsPaths(above)

Queued(r, n) == \E i \in 1..Len(todo[r]) : n \in todo[r][i]

Reached(r, f) ==
    \/ HasKind(f, {"unreadable", "malformed"})
    \/ HasKind(f, {"wellFormed"}) /\ DocOf(r, f) \in pending[r]

(***************************************************************************)
(* While nobody touches the docs directory: what is queued can be reached  *)
(* from Root, each visible file is queued or done with, and in CREATE mode *)
(* the writer has documents of visible files only.                         *)
(***************************************************************************)
Thorough(r) ==
    /\ \A n \in Node : Queued(r, n) =>
          Under(n) \subseteq Below[Root] /\ Above[n] \cap closed = {}
    /\ \A f \in Visible :
          Reached(r, f) \/ \E n \in Node : Queued(r, n) /\ f \in Under(n)
    /\ create[r] => \A d \in pending[r] : \E f \in Visible :
          HasKind(f, {"wellFormed"}) /\ d = DocOf(r, f)

ThoroughInv ==
    \A r \in Run : /\ begun[r] <= clock
                   /\ pc[r] = "indexing" /\ begun[r] = clock => Thorough(r)

LEMMA AboveFacts == Above \in [Node -> SUBSET Dir] /\ IsPaths(Above)
BY PathAssumption DEF Above, Node

(***************************************************************************)
(* The queue after each way of changing the stack.                         *)
(***************************************************************************)
LEMMA QueueTaken ==
    ASSUME TypeOK, NEW r \in Run, Indexing(r), NEW n, todo'[r] = Without(r, n)
    PROVE  \A m : /\ Queued(r, m)' => Queued(r, m)
                  /\ Queued(r, m) => m = n \/ Queued(r, m)'
<1>1. Len(todo'[r]) = Len(todo[r])
  BY WithoutFacts
<1>2. ASSUME NEW i \in 1..Len(todo[r])
      PROVE  todo'[r][i] \subseteq todo[r][i] /\ todo[r][i] \subseteq todo'[r][i] \cup {n}
  <2>1. CASE i = Depth(r)
    BY <2>1, WithoutFacts DEF Level
  <2>2. CASE i # Depth(r)
    BY <2>2, WithoutFacts
  <2>3. QED
    BY <2>1, <2>2
<1>3. QED
  BY <1>1, <1>2 DEF Queued

LEMMA QueueEntered ==
    ASSUME TypeOK, NEW r \in Run, NEW d \in Dir, EnterDir(r, d)
    PROVE  \A m : /\ Queued(r, m)' => Queued(r, m) \/ m \in Listing(d)
                  /\ Queued(r, m) => m = d \/ Queued(r, m)'
                  /\ m \in Listing(d) => Queued(r, m)'
<1> DEFINE k == Len(todo[r])
<1>1. /\ Indexing(r) /\ k \in Nat
      /\ todo'[r] = Append(Without(r, d), Listing(d))
  BY LenProperties DEF EnterDir, Indexing, TypeOK
<1>2. /\ Len(todo'[r]) = k + 1
      /\ \A i \in 1..k : todo'[r][i] = Without(r, d)[i]
      /\ todo'[r][k + 1] = Listing(d)
  BY <1>1, EnterFacts
<1>3. ASSUME NEW i \in 1..k
      PROVE  todo'[r][i] \subseteq todo[r][i] /\ todo[r][i] \subseteq todo'[r][i] \cup {d}
  <2>1. CASE i = Depth(r)
    BY <1>1, <1>2, <2>1, WithoutFacts DEF Level
  <2>2. CASE i # Depth(r)
    BY <1>1, <1>2, <2>2, WithoutFacts
  <2>3. QED
    BY <2>1, <2>2
<1> HIDE DEF k
<1>4. \A i : i \in 1..(k + 1) <=> i \in 1..k \/ i = k + 1
  BY <1>1 DEF k
<1>5. QED
  BY <1>2, <1>3, <1>4 DEF Queued, k

LEMMA QueueLeft ==
    ASSUME TypeOK, NEW r \in Run, LeaveDir(r)
    PROVE  \A m : Queued(r, m)' <=> Queued(r, m)
<1> DEFINE k == Len(todo[r])
<1>1. /\ todo'[r] = SubSeq(todo[r], 1, Depth(r) - 1)
      /\ k \in Nat /\ todo[r][k] = {}
  BY LenProperties DEF LeaveDir, Indexing, TypeOK, Level, Depth
<1>2. /\ Len(todo'[r]) = k - 1
      /\ \A i \in 1..(k - 1) : todo'[r][i] = todo[r][i]
  BY <1>1, LeaveFacts
<1>3. k > 0
  BY <1>1 DEF LeaveDir, Indexing, Depth
<1> HIDE DEF k
<1>4. \A i : i \in 1..k <=> i \in 1..(k - 1) \/ i = k
  BY <1>1, <1>3
<1>5. QED
  BY <1>1, <1>2, <1>4 DEF Queued, k

(***************************************************************************)
(* A stride of the walk changes neither the files nor what is visible.     *)
(***************************************************************************)
LEMMA StrideSees ==
    ASSUME NEW r \in Run, Strides(r)
    PROVE  /\ Visible' = Visible
           /\ \A q \in Run, f \in File : DocOf(q, f)' = DocOf(q, f)
           /\ \A f \in File : \A kinds : HasKind(f, kinds)' <=> HasKind(f, kinds)
           /\ closed' = closed /\ create' = create
BY DEF Strides, diskVars, Visible, DocOf, HasKind

LEMMA VisibleFiles == Visible \subseteq File
BY TreeAssumption DEF Visible

(***************************************************************************)
(* What is taken out of the queue may go when it had no visible file left  *)
(* to offer; new documents must be of visible files.                       *)
(***************************************************************************)
LEMMA ThoroughStride ==
    ASSUME TypeOK, NEW r \in Run, Strides(r), Thorough(r),
           \A m \in Node : Queued(r, m)' =>
              Under(m) \subseteq Below[Root] /\ Above[m] \cap closed = {},
           \A f \in Visible : \A n \in Node : Queued(r, n) /\ f \in Under(n) =>
              \/ \E m \in Node : Queued(r, m)' /\ f \in Under(m)
              \/ Reached(r, f)',
           \A f \in Visible : DocOf(r, f) \in pending[r] => DocOf(r, f) \in pending'[r],
           create[r] => \A d \in pending'[r] : d \in pending[r] \/
              \E f \in Visible : HasKind(f, {"wellFormed"}) /\ d = DocOf(r, f)
    PROVE  Thorough(r)'
<1>1. \A f \in Visible : Reached(r, f) => Reached(r, f)'
  BY StrideSees, VisibleFiles DEF Reached
<1>2. \A f \in Visible :
         Reached(r, f)' \/ \E n \in Node : Queued(r, n)' /\ f \in Under(n)
  BY <1>1 DEF Thorough
<1>3. create[r] => \A d \in pending'[r] : \E f \in Visible :
         HasKind(f, {"wellFormed"}) /\ d = DocOf(r, f)
  BY DEF Thorough
<1>4. create'[r] => \A d \in pending'[r] : \E f \in Visible' :
         HasKind(f, {"wellFormed"})' /\ d = DocOf(r, f)'
  BY <1>3, StrideSees, VisibleFiles
<1>5. QED
  BY <1>2, <1>4, StrideSees DEF Thorough, Under

LEMMA EnterIsThorough ==
    ASSUME TypeOK, NEW r \in Run, Thorough(r), NEW d \in Dir, EnterDir(r, d)
    PROVE  Thorough(r)'
<1>1. /\ Strides(r) /\ pending' = pending
      /\ d \in Level(r) /\ d \notin closed /\ Indexing(r)
  BY StrideCases DEF EnterDir
<1>2. Queued(r, d) /\ d \in Node
  BY <1>1, WithoutFacts DEF Queued, Level, Node
<1>3. /\ Under(d) = Below[d]
      /\ \A n \in Entries[d] : Under(n) \subseteq Below[d]
      /\ \A f \in Below[d] : \E n \in Entries[d] : f \in Under(n)
  BY TreeAssumption DEF Under
<1>4. ASSUME NEW m \in Node, Queued(r, m)'
      PROVE  Under(m) \subseteq Below[Root] /\ Above[m] \cap closed = {}
  <2>1. CASE Queued(r, m)
    BY <2>1 DEF Thorough
  <2>2. CASE m \in Listing(d)
    <3>1. m \in Entries[d] /\ Above[m] = Above[d] \cup {d}
      BY <2>2, AboveFacts DEF Listing, IsPaths
    <3>2. Below[d] \subseteq Below[Root] /\ Above[d] \cap closed = {}
      BY <1>2, <1>3 DEF Thorough
    <3>3. QED
      BY <1>1, <1>3, <3>1, <3>2
  <2>3. QED
    BY <1>4, <2>1, <2>2, QueueEntered
<1>5. ASSUME NEW f \in Visible, NEW n \in Node, Queued(r, n), f \in Under(n)
      PROVE  \E m \in Node : Queued(r, m)' /\ f \in Under(m)
  <2>1. CASE n = d
    <3>1. PICK m \in Entries[d] : f \in Under(m)
      BY <1>3, <1>5, <2>1
    <3>2. m \in Node /\ (m \in File => m = f)
      BY <3>1, TreeAssumption DEF Under, Node
    <3>3. m \in Listing(d)
      BY <3>1, <3>2 DEF Listing, Visible
    <3>4. QED
      BY <3>1, <3>2, <3>3, QueueEntered
  <2>2. CASE n # d
    BY <1>5, <2>2, QueueEntered
  <2>3. QED
    BY <2>1, <2>2
<1>6. QED
  BY <1>1, <1>4, <1>5, ThoroughStride

LEMMA TakenIsThorough ==
    ASSUME TypeOK, NEW r \in Run, Thorough(r), Strides(r), NEW n \in Node,
           Indexing(r), todo'[r] = Without(r, n),
           \A f \in Visible : f \in Under(n) => Reached(r, f)',
           \A f \in Visible : DocOf(r, f) \in pending[r] => DocOf(r, f) \in pending'[r],
           create[r] => \A d \in pending'[r] : d \in pending[r] \/
              \E f \in Visible : HasKind(f, {"wellFormed"}) /\ d = DocOf(r, f)
    PROVE  Thorough(r)'
<1>1. \A m \in Node : Queued(r, m)' =>
         Under(m) \subseteq Below[Root] /\ Above[m] \cap closed = {}
  BY QueueTaken DEF Thorough
<1>2. \A f \in Visible : \A m \in Node : Queued(r, m) /\ f \in Under(m) =>
         \/ \E k \in Node : Queued(r, k)' /\ f \in Under(k)
         \/ Reached(r, f)'
  BY QueueTaken
<1>3. QED
  BY <1>1, <1>2, ThoroughStride

LEMMA LeaveIsThorough ==
    ASSUME TypeOK, NEW r \in Run, Thorough(r), LeaveDir(r)
    PROVE  Thorough(r)'
<1>1. Strides(r) /\ pending' = pending
  BY StrideCases DEF LeaveDir
<1>2. QED
  BY <1>1, QueueLeft, ThoroughStride DEF Thorough

(***************************************************************************)
(* A file that the walk takes is visible if it is there: no directory      *)
(* above it was closed.                                                    *)
(***************************************************************************)
LEMMA TakenIsVisible ==
    ASSUME TypeOK, NEW r \in Run, Thorough(r), NEW f \in File, Indexing(r),
           f \in Level(r)
    PROVE  /\ f \in Node /\ Under(f) = {f}
           /\ disk[f] # NoFile => f \in Visible
<1>1. f \in Node /\ Under(f) = {f} /\ Queued(r, f)
  BY WithoutFacts DEF Queued, Level, Node, Under
<1>2. f \in Below[Root] /\ Above[f] \cap closed = {} /\ closed \subseteq Dir
  BY <1>1 DEF Thorough, TypeOK
<1>3. \A d \in closed : f \notin Below[d]
  BY <1>2, AboveFacts DEF IsPaths
<1>4. QED
  BY <1>1, <1>2, <1>3 DEF Visible

LEMMA StrideIsThorough ==
    ASSUME TypeOK, NEW r \in Run, Thorough(r), Walk(r), Strides(r)
    PROVE  Thorough(r)'
<1>1. ASSUME NEW d \in Dir, EnterDir(r, d) PROVE Thorough(r)'
  BY <1>1, EnterIsThorough
<1>2. ASSUME NEW d \in Dir, SkipDir(r, d) PROVE Thorough(r)'
  <2>1. /\ Indexing(r) /\ todo'[r] = Without(r, d) /\ d \in Node
        /\ pending' = pending /\ d \in closed
    BY <1>2 DEF SkipDir, Taken, TypeOK, Node
  <2>2. \A f \in Visible : f \notin Under(d)
    BY <2>1, TreeAssumption DEF Visible, Under
  <2>3. QED
    BY <2>1, <2>2, TakenIsThorough
<1>3. CASE LeaveDir(r)
  BY <1>3, LeaveIsThorough
<1>4. ASSUME NEW f \in File, SkipFile(r, f) PROVE Thorough(r)'
  <2>1. /\ Indexing(r) /\ todo'[r] = Without(r, f)
        /\ pending' = pending /\ Skippable(f) /\ f \in Level(r)
    BY <1>4 DEF SkipFile, Taken, TypeOK
  <2>2. f \in Node /\ Under(f) = {f}
    BY <2>1, TakenIsVisible
  <2>3. f \in Visible => Reached(r, f)'
    BY <2>1, StrideSees DEF Visible, Skippable, Reached
  <2>4. QED
    BY <2>1, <2>2, <2>3, TakenIsThorough
<1>5. ASSUME NEW f \in File, f \in Level(r), Indexing(r), todo'[r] = Without(r, f),
             HasKind(f, {"wellFormed"}), DocOf(r, f) \in pending'[r],
             \A g \in Visible : DocOf(r, g) \in pending[r] => DocOf(r, g) \in pending'[r],
             create[r] => pending'[r] = pending[r] \cup {DocOf(r, f)}
      PROVE  Thorough(r)'
  <2>1. f \in Node /\ Under(f) = {f} /\ f \in Visible
    BY <1>5, TakenIsVisible DEF HasKind
  <2>2. Reached(r, f)'
    BY <1>5, StrideSees DEF Reached
  <2>3. create[r] => \A d \in pending'[r] : d \in pending[r] \/
           \E g \in Visible : HasKind(g, {"wellFormed"}) /\ d = DocOf(r, g)
    BY <1>5, <2>1
  <2>4. QED
    BY <1>5, <2>1, <2>2, <2>3, TakenIsThorough
<1>6. ASSUME NEW f \in File, AddDocument(r, f) PROVE Thorough(r)'
  <2>1. pending'[r] = pending[r] \cup {DocOf(r, f)} /\ todo'[r] = Without(r, f)
    BY <1>6 DEF AddDocument, Taken, TypeOK
  <2>2. QED
    BY <1>5, <1>6, <2>1 DEF AddDocument
<1>7. ASSUME NEW f \in File, UpdateDocument(r, f) PROVE Thorough(r)'
  <2>1. /\ pending'[r] = {d \in pending[r] : d.path # DocOf(r, f).path}
                            \cup {DocOf(r, f)}
        /\ todo'[r] = Without(r, f)
    BY <1>7 DEF UpdateDocument, Taken, TypeOK
  <2>2. ASSUME NEW g \in Visible, DocOf(r, g) \in pending[r]
        PROVE  DocOf(r, g) \in pending'[r]
    <3>1. CASE g = f
      BY <2>1, <3>1
    <3>2. CASE g # f
      <4>1. DocOf(r, g).path # DocOf(r, f).path
        BY <3>2 DEF DocOf
      <4>2. QED
        BY <2>1, <2>2, <4>1
    <3>3. QED
      BY <3>1, <3>2
  <2>3. QED
    BY <1>5, <1>7, <2>1, <2>2 DEF UpdateDocument
<1>8. (\A f \in File : ~Abort(r, f)) /\ ~Close(r)
  BY DEF Strides, Abort, Close, Die, Exit, Indexing, TypeOK
<1>9. QED
  BY <1>1, <1>2, <1>3, <1>4, <1>6, <1>7, <1>8 DEF Walk

LEMMA OpeningIsThorough ==
    ASSUME TypeOK, NEW r \in Run, NEW c \in BOOLEAN, OpenWriter(r, c)
    PROVE  Thorough(r)'
<1>1. /\ todo'[r] = <<{Root}>> /\ create'[r] = c
      /\ c => pending'[r] = {}
      /\ UNCHANGED <<disk, closed>>
  BY DEF OpenWriter, TypeOK, diskVars
<1>2. Root \in Node /\ Under(Root) = Below[Root] /\ Above[Root] = {}
  BY TreeAssumption, AboveFacts DEF Node, Under, IsPaths
<1>3. \A n : Queued(r, n)' <=> n = Root
  BY <1>1 DEF Queued
<1>4. Visible' \subseteq Below[Root]
  BY DEF Visible
<1>5. QED
  BY <1>1, <1>2, <1>3, <1>4 DEF Thorough, Under

(***************************************************************************)
(* Whoever changes the docs directory advances the clock past every run.   *)
(***************************************************************************)
LEMMA ThoroughStep == TypeOK /\ ThoroughInv /\ [Next]_vars => ThoroughInv'
<1> SUFFICES ASSUME TypeOK, ThoroughInv, [Next]_vars, NEW q \in Run
             PROVE  /\ begun'[q] <= clock'
                    /\ pc'[q] = "indexing" /\ begun'[q] = clock' => Thorough(q)'
  BY DEF ThoroughInv
<1>0. /\ begun[q] \in Nat /\ clock \in Nat /\ begun[q] <= clock
      /\ pc[q] = "indexing" /\ begun[q] = clock => Thorough(q)
  BY SentinelAssumption DEF ThoroughInv, TypeOK
<1>1. CASE Environment
  <2>1. begun' = begun /\ clock' = clock + 1
    BY <1>1 DEF Environment, WriteFile, RemoveFile, ToggleDir, Tick, runVars
  <2>2. QED
    BY <1>0, <2>1
<1>2. ASSUME UNCHANGED <<diskVars, todo[q], create[q], spelling, pending[q], begun[q]>>,
             pc'[q] = "indexing" => pc[q] = "indexing"
      PROVE  /\ begun'[q] <= clock'
             /\ pc'[q] = "indexing" /\ begun'[q] = clock' => Thorough(q)'
  <2>1. begun'[q] = begun[q] /\ clock' = clock
    BY <1>2 DEF diskVars
  <2>2. Thorough(q) => Thorough(q)'
    BY <1>2 DEF diskVars, Thorough, Queued, Reached, Visible, HasKind, DocOf, Under
  <2>3. QED
    BY <1>0, <1>2, <2>1, <2>2
<1>3. ASSUME NEW r \in Run, Main(r)
      PROVE  /\ begun'[q] <= clock'
             /\ pc'[q] = "indexing" /\ begun'[q] = clock' => Thorough(q)'
  <2>1. CASE ExitEarly(r)
    BY <1>2, <2>1 DEF ExitEarly, TypeOK
  <2>2. ASSUME NEW c \in BOOLEAN, OpenWriter(r, c)
        PROVE  /\ begun'[q] <= clock'
               /\ pc'[q] = "indexing" /\ begun'[q] = clock' => Thorough(q)'
    <3>1. CASE q = r
      <4>1. begun'[q] = clock /\ clock' = clock
        BY <2>2, <3>1 DEF OpenWriter, diskVars, TypeOK
      <4>2. QED
        BY <1>0, <2>2, <3>1, <4>1, OpeningIsThorough
    <3>2. CASE q # r
      BY <1>2, <2>2, <3>2 DEF OpenWriter, TypeOK
    <3>3. QED
      BY <3>1, <3>2
  <2>3. CASE Walk(r) /\ Strides(r)
    <3>1. UNCHANGED <<diskVars, pc, create, spelling, begun>>
      BY <2>3 DEF Strides
    <3>2. CASE q = r
      <4>1. clock' = clock /\ pc' = pc /\ begun' = begun
        BY <3>1 DEF diskVars
      <4>2. QED
        BY <1>0, <2>3, <3>2, <4>1, StrideIsThorough
    <3>3. CASE q # r
      <4>1. todo'[q] = todo[q] /\ pending'[q] = pending[q]
        BY <2>3, <3>3 DEF Strides, Walk, EnterDir, SkipDir, LeaveDir, SkipFile,
           AddDocument, UpdateDocument, Abort, Close, Die, Exit, Taken, TypeOK
      <4>2. QED
        BY <1>2, <3>1, <4>1
    <3>4. QED
      BY <3>2, <3>3
  <2>4. CASE Exits(r)
    <3>1. /\ UNCHANGED <<diskVars, create, spelling, begun>>
          /\ q = r => pc'[q] # "indexing"
          /\ q # r => UNCHANGED <<pc[q], todo[q], pending[q]>>
      BY <2>4 DEF Exits, Exit, TypeOK
    <3>2. clock' = clock
      BY <3>1 DEF diskVars
    <3>3. QED
      BY <1>0, <1>2, <3>1, <3>2
  <2>5. QED
    BY <1>3, <2>1, <2>2, <2>3, <2>4, WalkCases, ExitCases DEF Main
<1>4. CASE UNCHANGED vars
  BY <1>2, <1>4 DEF vars, runVars
<1>5. QED
  BY <1>1, <1>3, <1>4 DEF Next

LEMMA ThoroughInit == Init => ThoroughInv
<1> SUFFICES ASSUME Init, NEW r \in Run
             PROVE  begun[r] <= clock /\ pc[r] # "indexing"
  BY DEF ThoroughInv
<1>1. begun[r] = 1 /\ clock = 1 /\ pc[r] = "idle"
  BY DEF Init
<1>2. QED
  BY <1>1

(***************************************************************************)
(* A commit whose walk nobody disturbed has every visible file in its      *)
(* current version, in CREATE mode nothing else, and met no file that      *)
(* makes the run fail: indexDocs leaves nothing out silently but files it  *)
(* cannot read or parse.                                                   *)
(***************************************************************************)
THEOREM UndisturbedCommits == Spec => UndisturbedCommitIsComplete
<1> DEFINE Complete == \A r \in Run :
      pc[r] = "indexing" /\ pc'[r] = "done" /\ begun[r] = clock =>
        LET good == {f \in Visible : disk[f].kind = "wellFormed"}
            mine == {DocOf(r, f) : f \in good}
        IN  /\ mine \subseteq index'
            /\ create[r] => index' = mine
            /\ \A f \in Visible : ~HasKind(f, {"emptyElement", "readError"})
<1>1. TypeOK /\ ThoroughInv /\ [Next]_vars => [Complete]_vars
  <2> SUFFICES ASSUME TypeOK, ThoroughInv, Next, NEW r \in Run,
                      pc[r] = "indexing", pc'[r] = "done", begun[r] = clock
               PROVE  LET good == {f \in Visible : disk[f].kind = "wellFormed"}
                          mine == {DocOf(r, f) : f \in good}
                      IN  /\ mine \subseteq index'
                          /\ create[r] => index' = mine
                          /\ \A f \in Visible :
                                ~HasKind(f, {"emptyElement", "readError"})
    OBVIOUS
  <2>1. Close(r)
    <3>1. ~Environment
      BY DEF Environment, WriteFile, RemoveFile, ToggleDir, runVars
    <3>2. PICK q \in Run : Main(q)
      BY <3>1 DEF Next
    <3>3. q = r
      BY <3>2 DEF Main, Walk, ExitEarly, OpenWriter, EnterDir, SkipDir, LeaveDir,
         SkipFile, AddDocument, UpdateDocument, Abort, Crash, Close, Die, Exit, TypeOK
    <3>4. QED
      BY <3>2, <3>3 DEF Main, Walk, ExitEarly, OpenWriter, EnterDir, SkipDir, LeaveDir,
         SkipFile, AddDocument, UpdateDocument, Abort, Crash, Die, Exit, TypeOK
  <2>2. /\ Thorough(r) /\ index' = pending[r]
        /\ \A n : ~Queued(r, n)
    BY <2>1 DEF Close, ThoroughInv, Queued
  <2>3. \A f \in Visible : Reached(r, f)
    BY <2>2 DEF Thorough
  <2>4. \A f \in Visible : ~HasKind(f, {"emptyElement", "readError"})
    BY <2>3 DEF Reached, HasKind
  <2>5. \A f \in Visible : disk[f].kind = "wellFormed" => DocOf(r, f) \in pending[r]
    BY <2>3 DEF Reached, HasKind
  <2>6. create[r] => \A d \in pending[r] : \E f \in Visible :
           disk[f].kind = "wellFormed" /\ d = DocOf(r, f)
    BY <2>2 DEF Thorough, HasKind
  <2>7. QED
    BY <2>2, <2>4, <2>5, <2>6
<1>2. Spec => []ThoroughInv
  BY ThoroughInit, ThoroughStep, TypeCorrect, TypeStep, PTL DEF Spec
<1>3. QED
  BY <1>1, <1>2, TypeCorrect, PTL DEF Spec, UndisturbedCommitIsComplete
=============================================================================
