--------------------------- MODULE SearchFilesProofs ---------------------------
(***************************************************************************)
(* What is proved of the two programs called SearchFiles.  The batch       *)
(* searcher, for any number of executions over one results file, any needs *)
(* and any commits of the index meanwhile.                                 *)
(***************************************************************************)
EXTENDS SearchFiles, PagingSearch, SequenceTheorems, FiniteSetTheorems, TLAPS

(***************************************************************************)
(* What Publish says of a commit holds of the last one and of the readers, *)
(* none of which shows a commit that is still to come.                     *)
(***************************************************************************)
ReadersShowCommits ==
    /\ index # NoIndex => OneDocPerPath(index)
    /\ \A s \in Search :
          reader[s].commit <= generation /\ OneDocPerPath(reader[s].docs)

(***************************************************************************)
(* Needs are answered one after another, and no more than there are; an    *)
(* execution that has not emptied the file has answered none.              *)
(***************************************************************************)
NeedsInTurn ==
    \A s \in Search :
        /\ Len(answered[s]) <= NumNeeds
        /\ at[s] = "idle" => Len(answered[s]) = 0
        /\ at[s] = "searching" => Current(s) <= NumNeeds

(***************************************************************************)
(* The lines of an execution are all of needs before the one in turn, and  *)
(* of commits that its reader does not come before.                        *)
(***************************************************************************)
LinesBefore(i) ==
    LET s == output[i].by IN
    /\ output[i].need <= Len(answered[s])
    /\ output[i].commit <= generation
    /\ at[s] = "searching" => output[i].commit <= reader[s].commit

LinesAreOfThePast == \A i \in 1..Len(output) : LinesBefore(i)

SearchInv ==
    /\ TypeOK
    /\ ReadersShowCommits
    /\ NeedsInTurn
    /\ LinesAreOfThePast

FileInv ==
    /\ LinesInOrder
    /\ AnswersAreWhole
    /\ NoRepeatedLine

(***************************************************************************)
(* What outputDocs may add to the file for the need in turn of s.          *)
(***************************************************************************)
HitLine(s, line) ==
    /\ line.by = s
    /\ line.need = Current(s)
    /\ line.commit = reader[s].commit
    /\ \E d \in Matching(Current(s), reader[s].docs) : line.name = Name[d.path]

HitLines(s, w) ==
    /\ w \in Seq(Line)
    /\ \A k \in 1..Len(w) : HitLine(s, w[k])
    /\ NamesDiffer => \A k, l \in 1..Len(w) : k # l => w[k].name # w[l].name

-------------------------------------------------------------------------------
LEMMA Shapes ==
    ASSUME TypeOK
    PROVE  /\ generation \in Nat /\ NumNeeds \in Nat
           /\ output \in Seq(Line) /\ Len(output) \in Nat
           /\ \A i \in 1..Len(output) :
                 /\ output[i].by \in Search /\ output[i].commit \in Nat /\ output[i].need \in Nat
           /\ \A s \in Search :
                 /\ answered[s] \in Seq(Reader) /\ Len(answered[s]) \in Nat /\ Current(s) \in Nat
                 /\ reader[s] \in Reader /\ reader[s].commit \in Nat
                 /\ reader[s].docs \subseteq Doc
<1>1. /\ generation \in Nat /\ NumNeeds \in Nat /\ output \in Seq(Line)
      /\ \A s \in Search : answered[s] \in Seq(Reader) /\ reader[s] \in Reader
  BY SearchAssumption DEF TypeOK
<1>2. \A i \in 1..Len(output) : output[i] \in Line
  BY <1>1
<1>3. \A l \in Line : l.by \in Search /\ l.commit \in Nat /\ l.need \in Nat
  BY <1>1 DEF Line, Need
<1>4. \A r \in Reader : r.commit \in Nat /\ r.docs \subseteq Doc
  BY DEF Reader
<1>5. Len(output) \in Nat /\ \A s \in Search : Len(answered[s]) \in Nat
  BY <1>1
<1>6. QED
  BY <1>1, <1>2, <1>3, <1>4, <1>5 DEF Current

LEMMA HitsAreFew ==
    ASSUME TypeOK, NEW s \in Search, NEW n
    PROVE  NumHits(n, reader[s].docs) \in Nat
<1>1. Matching(n, reader[s].docs) \in SUBSET Doc
  BY Shapes DEF Matching
<1>2. Cardinality(Matching(n, reader[s].docs)) \in Nat
  BY <1>1, SearchAssumption, FS_Subset, FS_CardinalityType
<1>3. QED
  BY <1>2, SearchAssumption DEF NumHits

(***************************************************************************)
(* The lines made of a search are as many as its hits, and name no file    *)
(* twice: no two documents of a commit have the same path.                 *)
(***************************************************************************)
LEMMA HitsMakeLines ==
    ASSUME SearchInv, NEW s \in Search, at[s] = "searching",
           NEW hits \in TopDocs(Current(s), reader[s].docs)
    PROVE  /\ HitLines(s, Block(s, hits))
           /\ Len(Block(s, hits)) = NumHits(Current(s), reader[s].docs)
           /\ Len(hits) = Len(Block(s, hits))
<1> DEFINE n == NumHits(Current(s), reader[s].docs)
           m == Matching(Current(s), reader[s].docs)
           w == Block(s, hits)
<1>1. n \in Nat
  BY HitsAreFew DEF SearchInv
<1>2. /\ hits \in [1..n -> m]
      /\ \A k, l \in 1..n : hits[k] = hits[l] => k = l
  BY DEF TopDocs, Injection, IsInjective
<1>3. m \subseteq Doc /\ OneDocPerPath(m)
  BY Shapes DEF SearchInv, ReadersShowCommits, Matching, OneDocPerPath
<1>4. Len(hits) = n
  <2> HIDE DEF n, m
  <2>1. hits \in Seq(m)
    BY <1>1, <1>2, SeqDef
  <2>2. DOMAIN hits = 1..n /\ DOMAIN hits = 1..Len(hits) /\ Len(hits) \in Nat
    BY <1>2, <2>1, LenProperties
  <2>3. QED
    BY <1>1, <2>2
<1>5. Current(s) \in Need /\ reader[s].commit \in Nat
  BY Shapes DEF SearchInv, NeedsInTurn, Need, Current
<1>6. /\ w = [k \in 1..n |-> w[k]]
      /\ \A k \in 1..n : w[k] = [need |-> Current(s), name |-> Name[hits[k].path], by |-> s,
                                 commit |-> reader[s].commit]
  BY <1>4 DEF Block
<1>7. \A k \in 1..n : hits[k] \in m /\ hits[k].path \in Path
  BY <1>2, <1>3 DEF Doc
<1>8. \A k \in 1..n : w[k] \in Line /\ HitLine(s, w[k])
  <2> SUFFICES ASSUME NEW k \in 1..n PROVE w[k] \in Line /\ HitLine(s, w[k])
    OBVIOUS
  <2> HIDE DEF n, m, w
  <2>1. Name[hits[k].path] \in {Name[p] : p \in Path}
    BY <1>7
  <2>2. w[k] \in Line
    BY <1>5, <1>6, <2>1 DEF Line
  <2>3. \E d \in m : w[k].name = Name[d.path]
    BY <1>6, <1>7
  <2>4. QED
    BY <1>6, <2>2, <2>3 DEF HitLine, m
<1>9. w \in Seq(Line) /\ Len(w) = n
  <2> HIDE DEF n, m, w
  <2>1. w \in [1..n -> Line]
    BY <1>6, <1>8
  <2>2. w \in Seq(Line)
    BY <1>1, <2>1, SeqDef
  <2>3. DOMAIN w = 1..n /\ DOMAIN w = 1..Len(w) /\ Len(w) \in Nat
    BY <2>1, <2>2, LenProperties
  <2>4. QED
    BY <1>1, <2>2, <2>3
<1>10. ASSUME NamesDiffer, NEW k \in 1..n, NEW l \in 1..n, k # l
       PROVE  w[k].name # w[l].name
  <2>1. hits[k] # hits[l] /\ hits[k] \in m /\ hits[l] \in m
    BY <1>2, <1>10
  <2>2. hits[k].path # hits[l].path
    BY <1>3, <2>1 DEF OneDocPerPath
  <2>3. Name[hits[k].path] # Name[hits[l].path]
    BY <1>7, <1>10, <2>2 DEF NamesDiffer
  <2>4. QED
    BY <1>6, <2>3
<1> HIDE DEF n, m, w
<1>11. HitLines(s, w)
  BY <1>8, <1>9, <1>10 DEF HitLines
<1>12. QED
  BY <1>4, <1>9, <1>11 DEF n, w

LEMMA CutLines ==
    ASSUME NEW s, NEW w, HitLines(s, w), NEW n \in 0..(Len(w) - 1)
    PROVE  HitLines(s, SubSeq(w, 1, n))
<1>1. w \in Seq(Line) /\ Len(w) \in Nat /\ n \in Nat
  BY DEF HitLines
<1>2. \A k \in 1..n : k \in 1..Len(w) /\ w[k] \in Line
  BY <1>1
<1>3. /\ SubSeq(w, 1, n) \in Seq(Line)
      /\ Len(SubSeq(w, 1, n)) = IF 1 <= n THEN n - 1 + 1 ELSE 0
      /\ \A k \in 1..(n - 1 + 1) : SubSeq(w, 1, n)[k] = w[1 + k - 1]
  BY <1>1, <1>2, SubSeqProperties
<1>4. Len(SubSeq(w, 1, n)) = n /\ \A k \in 1..n : SubSeq(w, 1, n)[k] = w[k]
  BY <1>1, <1>3
<1>5. QED
  BY <1>2, <1>3, <1>4 DEF HitLines

-------------------------------------------------------------------------------
(* An answer is appended. *)

LEMMA AppendedLines ==
    ASSUME TypeOK, NEW s \in Search, NEW w, HitLines(s, w), AnswerWith(s, w)
    PROVE  /\ output' \in Seq(Line) /\ Len(w) \in Nat
           /\ Len(output') = Len(output) + Len(w)
           /\ \A i \in 1..Len(output) : output'[i] = output[i]
           /\ \A i \in (Len(output) + 1)..(Len(output) + Len(w)) :
                 /\ i - Len(output) \in 1..Len(w)
                 /\ output'[i] = w[i - Len(output)]
                 /\ HitLine(s, output'[i])
<1>1. /\ output' = output \o w /\ output \in Seq(Line) /\ w \in Seq(Line)
      /\ Len(output) \in Nat /\ Len(w) \in Nat
  BY Shapes DEF AnswerWith, Appended, HitLines
<1>2. /\ output' \in Seq(Line)
      /\ Len(output') = Len(output) + Len(w)
      /\ \A i \in 1..(Len(output) + Len(w)) :
            output'[i] = IF i <= Len(output) THEN output[i] ELSE w[i - Len(output)]
  BY <1>1, ConcatProperties
<1>3. ASSUME NEW i \in (Len(output) + 1)..(Len(output) + Len(w))
      PROVE  /\ i - Len(output) \in 1..Len(w)
             /\ output'[i] = w[i - Len(output)]
             /\ HitLine(s, output'[i])
  <2>1. i - Len(output) \in 1..Len(w)
    BY <1>1
  <2>2. output'[i] = w[i - Len(output)]
    BY <1>1, <1>2
  <2>3. HitLine(s, w[i - Len(output)])
    BY <2>1 DEF HitLines
  <2>4. QED
    BY <2>1, <2>2, <2>3
<1>4. \A i \in 1..Len(output) : output'[i] = output[i]
  BY <1>1, <1>2
<1>5. QED
  BY <1>1, <1>2, <1>3, <1>4

LEMMA AnsweredNeeds ==
    ASSUME TypeOK, NEW s \in Search, NEW w, AnswerWith(s, w)
    PROVE  /\ answered' \in [Search -> Seq(Reader)]
           /\ Len(answered'[s]) = Current(s)
           /\ answered'[s][Current(s)] = reader[s]
           /\ \A n \in 1..Len(answered[s]) : answered'[s][n] = answered[s][n]
           /\ \A t \in Search \ {s} : answered'[t] = answered[t]
<1>1. /\ answered \in [Search -> Seq(Reader)] /\ reader[s] \in Reader
      /\ answered' = [answered EXCEPT ![s] = Append(answered[s], reader[s])]
  BY DEF TypeOK, AnswerWith
<1>2. /\ Append(answered[s], reader[s]) \in Seq(Reader)
      /\ Len(Append(answered[s], reader[s])) = Current(s)
      /\ Append(answered[s], reader[s])[Current(s)] = reader[s]
      /\ \A n \in 1..Len(answered[s]) :
            Append(answered[s], reader[s])[n] = answered[s][n]
  BY <1>1 DEF Current
<1>3. QED
  BY <1>1, <1>2

LEMMA AnswerKeepsSearchInv ==
    ASSUME SearchInv, NEW s \in Search, NEW w, HitLines(s, w), AnswerWith(s, w),
           shortened' \subseteq shortened \cup {s}
    PROVE  SearchInv'
<1> USE DEF SearchInv
<1>1. /\ index' = index /\ generation' = generation /\ lock' = lock /\ owner' = owner
      /\ at' = [at EXCEPT ![s] = "running"]
      /\ reader' = [reader EXCEPT ![s] = NoReader]
      /\ at[s] = "searching"
  BY DEF AnswerWith, Goes, storeVars
<1>2. TypeOK'
  <2>1. NoReader \in Reader
    BY DEF NoReader, Reader
  <2>2. QED
    BY <1>1, <2>1, AppendedLines, AnsweredNeeds DEF TypeOK
<1>3. ReadersShowCommits'
  <2>1. NoReader.commit = 0 /\ OneDocPerPath(NoReader.docs)
    BY DEF NoReader, OneDocPerPath
  <2>2. ASSUME NEW t \in Search
        PROVE  reader'[t].commit <= generation /\ OneDocPerPath(reader'[t].docs)
    BY <1>1, <2>1, Shapes DEF TypeOK, ReadersShowCommits
  <2>3. QED
    BY <1>1, <2>2 DEF ReadersShowCommits, OneDocPerPath
<1>4. NeedsInTurn'
  BY <1>1, AnsweredNeeds DEF TypeOK, NeedsInTurn, Current
<1>5. LinesAreOfThePast'
  <2> SUFFICES ASSUME NEW i \in 1..Len(output') PROVE LinesBefore(i)'
    BY DEF LinesAreOfThePast
  <2>1. CASE i \in 1..Len(output)
    <3>1. output'[i] = output[i] /\ LinesBefore(i) /\ output[i].by \in Search
      BY <2>1, AppendedLines, Shapes DEF LinesAreOfThePast
    <3>2. Len(answered[s]) <= Len(answered'[s])
      BY AnsweredNeeds, Shapes DEF Current
    <3>3. CASE output[i].by = s
      <4>1. output[i].need <= Len(answered'[s])
        BY <2>1, <3>1, <3>2, <3>3, Shapes, AnsweredNeeds DEF LinesBefore
      <4>2. at'[s] = "running"
        BY <1>1 DEF TypeOK
      <4>3. QED
        BY <1>1, <3>1, <3>3, <4>1, <4>2 DEF LinesBefore
    <3>4. CASE output[i].by # s
      BY <1>1, <3>1, <3>4, AnsweredNeeds DEF LinesBefore, TypeOK
    <3>5. QED
      BY <3>3, <3>4
  <2>2. CASE i \in (Len(output) + 1)..(Len(output) + Len(w))
    <3>1. HitLine(s, output'[i])
      BY <2>2, AppendedLines
    <3>2. at'[s] = "running" /\ Len(answered'[s]) = Current(s) /\ Current(s) \in Nat
      BY <1>1, AnsweredNeeds, Shapes DEF TypeOK
    <3>3. QED
      BY <1>1, <3>1, <3>2 DEF HitLine, LinesBefore, ReadersShowCommits
  <2>3. QED
    BY <2>1, <2>2, AppendedLines, Shapes
<1>6. QED
  BY <1>2, <1>3, <1>4, <1>5

LEMMA AnswerKeepsOrder ==
    ASSUME SearchInv, NEW s \in Search, NEW w, HitLines(s, w), AnswerWith(s, w)
    PROVE  /\ LinesInOrder => LinesInOrder'
           /\ NoRepeatedLine => NoRepeatedLine'
<1> USE DEF SearchInv
<1> DEFINE old == 1..Len(output)
           new == (Len(output) + 1)..(Len(output) + Len(w))
<1>1. 1..Len(output') = old \cup new /\ \A i \in old, j \in new : i < j
  BY AppendedLines, Shapes
<1>2. \A i \in old : output'[i] = output[i]
  BY AppendedLines
<1>3. ASSUME NEW i \in old, NEW j \in new, output'[i].by = output'[j].by
      PROVE  /\ output'[i].need < output'[j].need
             /\ output'[i].commit <= output'[j].commit
  <2>1. HitLine(s, output'[j]) /\ output'[i] = output[i] /\ LinesBefore(i)
    BY AppendedLines DEF LinesAreOfThePast
  <2>2. output[i].by = s /\ at[s] = "searching"
    BY <1>3, <2>1 DEF HitLine, AnswerWith
  <2>3. QED
    BY <2>1, <2>2, Shapes DEF HitLine, LinesBefore, Current
<1>4. ASSUME NEW i \in new, NEW j \in new
      PROVE  /\ output'[i].need = output'[j].need /\ output'[i].need \in Nat
             /\ output'[i].commit = output'[j].commit /\ output'[i].commit \in Nat
             /\ NamesDiffer /\ i # j => output'[i].name # output'[j].name
  <2>1. HitLine(s, output'[i]) /\ HitLine(s, output'[j])
    BY AppendedLines
  <2>2. /\ output'[i] = w[i - Len(output)] /\ output'[j] = w[j - Len(output)]
        /\ i - Len(output) \in 1..Len(w) /\ j - Len(output) \in 1..Len(w)
    BY AppendedLines
  <2>3. i # j => i - Len(output) # j - Len(output)
    BY Shapes
  <2>4. QED
    BY <2>1, <2>2, <2>3, Shapes DEF HitLine, HitLines
<1>5. \A i \in new, j \in old : ~(i < j)
  BY Shapes
<1>6. LinesInOrder => LinesInOrder'
  <2> SUFFICES ASSUME LinesInOrder, NEW i \in 1..Len(output'), NEW j \in 1..Len(output'),
                      i < j, output'[i].by = output'[j].by
               PROVE  /\ output'[i].need <= output'[j].need
                      /\ output'[i].commit <= output'[j].commit
                      /\ output'[i].need = output'[j].need
                           => output'[i].commit = output'[j].commit
    BY DEF LinesInOrder
  <2>1. CASE i \in old /\ j \in old
    BY <1>2, <2>1 DEF LinesInOrder
  <2>2. CASE i \in old /\ j \in new
    <3>1. output'[i].need \in Nat /\ output'[j].need \in Nat
      BY <1>2, <1>4, <2>2, Shapes
    <3>2. QED
      BY <1>3, <2>2, <3>1
  <2>3. CASE i \in new /\ j \in new
    BY <1>4, <2>3
  <2> HIDE DEF old, new
  <2>4. QED
    BY <1>1, <1>5, <2>1, <2>2, <2>3
<1>7. NoRepeatedLine => NoRepeatedLine'
  <2> SUFFICES ASSUME NoRepeatedLine, NamesDiffer,
                      NEW i \in 1..Len(output'), NEW j \in 1..Len(output'), i # j,
                      output'[i].by = output'[j].by, output'[i].need = output'[j].need
               PROVE  output'[i].name # output'[j].name
    BY DEF NoRepeatedLine
  <2>1. CASE i \in old /\ j \in old
    BY <1>2, <2>1 DEF NoRepeatedLine
  <2>2. CASE i \in old /\ j \in new
    <3>1. output'[i].need < output'[j].need /\ output'[j].need \in Nat
      BY <1>3, <1>4, <2>2
    <3>2. QED
      BY <3>1
  <2>3. CASE i \in new /\ j \in old
    <3>1. output'[j].need < output'[i].need /\ output'[i].need \in Nat
      BY <1>3, <1>4, <2>3
    <3>2. QED
      BY <3>1
  <2>4. CASE i \in new /\ j \in new
    BY <1>4, <2>4
  <2> HIDE DEF old, new
  <2>5. QED
    BY <1>1, <2>1, <2>2, <2>3, <2>4
<1>8. QED
  BY <1>6, <1>7

(***************************************************************************)
(* The lines of a need that was answered before are where they were; those *)
(* of the need in turn are the new ones, and no other line is of that need.*)
(***************************************************************************)
LEMMA AnswerKeepsWhole ==
    ASSUME SearchInv, AnswersAreWhole, NEW s \in Search, NEW w, HitLines(s, w), AnswerWith(s, w),
           \/ shortened' = shortened /\ Len(w) = NumHits(Current(s), reader[s].docs)
           \/ shortened' = shortened \cup {s}
    PROVE  AnswersAreWhole'
<1> USE DEF SearchInv
<1> DEFINE old == 1..Len(output)
           new == (Len(output) + 1)..(Len(output) + Len(w))
           linesNow(n) == {i \in 1..Len(output') : output'[i].by = owner /\ output'[i].need = n}
<1>1. /\ 1..Len(output') = old \cup new
      /\ \A i \in old : output'[i] = output[i]
      /\ \A i \in new : HitLine(s, output'[i])
  BY AppendedLines, Shapes
<1>2. /\ owner' = owner /\ owner \in Search
      /\ at' = [at EXCEPT ![s] = "running"] /\ at \in [Search -> {"idle", "loading", "running",
                                                  "searching", "done", "failed"}]
  BY DEF AnswerWith, Goes, TypeOK
<1>3. ASSUME NEW n, owner # s \/ n \in 1..Len(answered[s])
      PROVE  linesNow(n) = LinesOf(owner, n)
  <2>1. ASSUME NEW i \in new
        PROVE  ~(output'[i].by = owner /\ output'[i].need = n)
    <3>1. output'[i].by = s /\ output'[i].need = Current(s)
      BY <1>1 DEF HitLine
    <3>2. n \in 1..Len(answered[s]) => n # Current(s)
      BY Shapes DEF Current
    <3>3. QED
      BY <1>3, <3>1, <3>2
  <2>2. linesNow(n) = {i \in old \cup new : output'[i].by = owner /\ output'[i].need = n}
    BY <1>1
  <2> HIDE DEF new
  <2>3. linesNow(n) = {i \in old : output'[i].by = owner /\ output'[i].need = n}
    BY <2>1, <2>2
  <2>4. {i \in old : output'[i].by = owner /\ output'[i].need = n} = LinesOf(owner, n)
    BY <1>1 DEF LinesOf
  <2>5. QED
    BY <2>3, <2>4
<1>4. ASSUME owner = s
      PROVE  linesNow(Current(s)) = new
  <2>1. ASSUME NEW i \in old
        PROVE  ~(output'[i].by = s /\ output'[i].need = Current(s))
    <3>1. output'[i] = output[i] /\ LinesBefore(i) /\ output[i].need \in Nat
      BY <1>1, Shapes DEF LinesAreOfThePast
    <3>2. QED
      BY <3>1, Shapes DEF LinesBefore, Current
  <2>2. \A i \in new : output'[i].by = s /\ output'[i].need = Current(s)
    BY <1>1 DEF HitLine
  <2> DEFINE c == Current(s)
  <2> HIDE DEF old, new, c
  <2>3. linesNow(c) = new
    BY <1>1, <1>4, <2>1, <2>2 DEF c
  <2>4. QED
    BY <2>3 DEF c
<1>5. ASSUME owner \notin shortened', NEW n \in 1..Len(answered'[owner])
      PROVE  /\ Cardinality(linesNow(n)) = NumHits(n, answered'[owner][n].docs)
             /\ \A i \in linesNow(n) :
                   \E d \in Matching(n, answered'[owner][n].docs) :
                       output'[i].name = Name[d.path]
  <2>1. owner \notin shortened
    BY <1>5
  <2>2. CASE owner # s \/ n \in 1..Len(answered[s])
    <3>1. n \in 1..Len(answered[owner]) /\ answered'[owner][n] = answered[owner][n]
      BY <1>2, <1>5, <2>2, AnsweredNeeds
    <3>2. linesNow(n) = LinesOf(owner, n)
      BY <1>3, <2>2
    <3>3. LinesOf(owner, n) \subseteq old
      BY DEF LinesOf
    <3>4. /\ Cardinality(LinesOf(owner, n)) = NumHits(n, answered[owner][n].docs)
          /\ \A i \in LinesOf(owner, n) :
                \E d \in Matching(n, answered[owner][n].docs) : output[i].name = Name[d.path]
      BY <2>1, <3>1 DEF AnswersAreWhole
    <3> HIDE DEF old, new, linesNow
    <3>5. QED
      BY <1>1, <3>1, <3>2, <3>3, <3>4
  <2>3. CASE owner = s /\ n \notin 1..Len(answered[s])
    <3>1. n = Current(s) /\ answered'[owner][n] = reader[s]
      BY <1>5, <2>3, AnsweredNeeds, Shapes DEF Current
    <3>2. Len(w) = NumHits(Current(s), reader[s].docs)
      BY <1>5, <2>3
    <3>3. linesNow(n) = new
      BY <1>4, <2>3, <3>1
    <3>4. Cardinality(new) = Len(w)
      <4>1. Len(output) \in Nat /\ Len(w) \in Nat
        BY AppendedLines, Shapes
      <4>2. Cardinality(new) = IF Len(output) + 1 > Len(output) + Len(w) THEN 0
                               ELSE Len(output) + Len(w) - (Len(output) + 1) + 1
        <5> DEFINE a == Len(output) + 1
                   b == Len(output) + Len(w)
        <5>1. a \in Int /\ b \in Int
          BY <4>1
        <5> HIDE DEF a, b
        <5>2. Cardinality(a..b) = IF a > b THEN 0 ELSE b - a + 1
          BY <5>1, FS_Interval
        <5>3. QED
          BY <5>2 DEF a, b
      <4>3. QED
        BY <4>1, <4>2
    <3>5. \A i \in new : \E d \in Matching(n, reader[s].docs) : output'[i].name = Name[d.path]
      BY <1>1, <3>1 DEF HitLine
    <3> HIDE DEF old, new, linesNow
    <3>6. QED
      BY <3>1, <3>2, <3>3, <3>4, <3>5
  <2>4. QED
    BY <2>2, <2>3
<1>6. at'[owner] = "done" => Len(answered'[owner]) = NumNeeds
  <2>1. CASE owner = s
    BY <1>2, <2>1
  <2>2. CASE owner # s
    BY <1>2, <2>2, AnsweredNeeds DEF AnswersAreWhole
  <2>3. QED
    BY <2>1, <2>2
<1>7. \A n : LinesOf(owner, n)' = linesNow(n)
  BY <1>2 DEF LinesOf
<1> HIDE DEF linesNow
<1>8. QED
  BY <1>2, <1>5, <1>6, <1>7 DEF AnswersAreWhole

-------------------------------------------------------------------------------
(* The other steps. *)

LEMMA SearchInitially == Init => SearchInv /\ FileInv
<1> SUFFICES ASSUME Init PROVE SearchInv /\ FileInv
  OBVIOUS
<1> USE DEF Init, StoreInit, SearchInit
<1>1. output = <<>> /\ Len(output) = 0 /\ \A s \in Search : answered[s] = <<>> /\ Len(answered[s]) = 0
  OBVIOUS
<1>2. NoReader \in Reader /\ OneDocPerPath(NoReader.docs) /\ NoReader.commit = 0
  BY DEF NoReader, Reader, OneDocPerPath
<1>3. TypeOK
  BY <1>1, <1>2 DEF TypeOK
<1>4. ReadersShowCommits
  BY <1>2 DEF ReadersShowCommits
<1>5. NeedsInTurn
  BY <1>1, SearchAssumption DEF NeedsInTurn
<1>6. LinesAreOfThePast /\ LinesInOrder /\ NoRepeatedLine
  BY <1>1 DEF LinesAreOfThePast, LinesInOrder, NoRepeatedLine
<1>7. AnswersAreWhole
  BY <1>1 DEF AnswersAreWhole
<1>8. QED
  BY <1>3, <1>4, <1>5, <1>6, <1>7 DEF SearchInv, FileInv

(***************************************************************************)
(* A step that only takes an execution to its next place.                  *)
(***************************************************************************)
LEMMA QuietStep ==
    ASSUME SearchInv, FileInv, NEW s \in Search,
           NEW where \in {"loading", "running", "done", "failed"}, Goes(s, where),
           where = "done" => Len(answered[s]) = NumNeeds,
           UNCHANGED <<storeVars, reader, output, owner, answered, shortened>>
    PROVE  SearchInv' /\ FileInv'
<1> USE DEF SearchInv, FileInv
<1>1. /\ index' = index /\ generation' = generation /\ lock' = lock /\ reader' = reader
      /\ output' = output /\ owner' = owner /\ answered' = answered /\ shortened' = shortened
      /\ at' = [at EXCEPT ![s] = where]
  BY DEF storeVars, Goes
<1>2. TypeOK'
  BY <1>1 DEF TypeOK
<1>3. \A t \in Search : at'[t] = at[t] \/ (t = s /\ at'[t] = where)
  BY <1>1 DEF TypeOK
<1>4. ReadersShowCommits'
  BY <1>1 DEF ReadersShowCommits, OneDocPerPath
<1>5. NeedsInTurn'
  BY <1>1, <1>3 DEF NeedsInTurn, Current
<1>6. LinesAreOfThePast'
  BY <1>1, <1>3, Shapes DEF LinesAreOfThePast, LinesBefore
<1>7. LinesInOrder' /\ NoRepeatedLine'
  BY <1>1 DEF LinesInOrder, NoRepeatedLine
<1>8. AnswersAreWhole'
  <2>1. \A n : LinesOf(owner, n)' = LinesOf(owner, n)
    BY <1>1 DEF LinesOf
  <2>2. at'[owner] = "done" => Len(answered[owner]) = NumNeeds
    BY <1>3 DEF AnswersAreWhole, TypeOK
  <2>3. QED
    BY <1>1, <2>1, <2>2 DEF AnswersAreWhole
<1>9. QED
  BY <1>2, <1>4, <1>5, <1>6, <1>7, <1>8

LEMMA ResetStep ==
    ASSUME SearchInv, FileInv, NEW s \in Search, ResetOutput(s)
    PROVE  SearchInv' /\ FileInv'
<1> USE DEF SearchInv, FileInv
<1>1. /\ index' = index /\ generation' = generation /\ lock' = lock /\ reader' = reader
      /\ output' = <<>> /\ Len(output') = 0 /\ owner' = s
      /\ answered' = answered /\ shortened' = shortened
      /\ at' = [at EXCEPT ![s] = "loading"] /\ Len(answered[s]) = 0
  BY DEF ResetOutput, storeVars, Goes, NeedsInTurn
<1>2. TypeOK'
  BY <1>1 DEF TypeOK
<1>3. at'[s] = "loading" /\ \A t \in Search : t # s => at'[t] = at[t]
  BY <1>1 DEF TypeOK
<1>4. ReadersShowCommits'
  BY <1>1 DEF ReadersShowCommits, OneDocPerPath
<1>5. NeedsInTurn'
  BY <1>1, <1>3 DEF NeedsInTurn, Current
<1>6. LinesAreOfThePast' /\ LinesInOrder' /\ NoRepeatedLine'
  BY <1>1 DEF LinesAreOfThePast, LinesInOrder, NoRepeatedLine
<1>7. AnswersAreWhole'
  BY <1>1, <1>3 DEF AnswersAreWhole
<1>8. QED
  BY <1>2, <1>4, <1>5, <1>6, <1>7

LEMMA OpenStep ==
    ASSUME SearchInv, FileInv, NEW s \in Search, OpenReader(s)
    PROVE  SearchInv' /\ FileInv'
<1> USE DEF SearchInv, FileInv
<1>1. /\ index' = index /\ generation' = generation /\ lock' = lock
      /\ output' = output /\ owner' = owner /\ answered' = answered /\ shortened' = shortened
      /\ at' = [at EXCEPT ![s] = "searching"] /\ reader' = [reader EXCEPT ![s] = Opened(s)]
      /\ index # NoIndex /\ Current(s) <= NumNeeds
  BY DEF OpenReader, Openable, storeVars, Goes
<1>2. Opened(s) \in Reader /\ Opened(s).commit = generation /\ Opened(s).docs = index
  BY <1>1 DEF Opened, Reader, TypeOK
<1>3. TypeOK'
  BY <1>1, <1>2 DEF TypeOK
<1>4. /\ at'[s] = "searching" /\ reader'[s] = Opened(s)
      /\ \A t \in Search : t # s => at'[t] = at[t] /\ reader'[t] = reader[t]
  BY <1>1 DEF TypeOK
<1>5. ReadersShowCommits'
  <2>1. ASSUME NEW t \in Search
        PROVE  reader'[t].commit <= generation /\ OneDocPerPath(reader'[t].docs)
    BY <1>1, <1>2, <1>4, Shapes DEF ReadersShowCommits
  <2>2. QED
    BY <1>1, <2>1 DEF ReadersShowCommits, OneDocPerPath
<1>6. NeedsInTurn'
  BY <1>1, <1>4 DEF NeedsInTurn, Current
<1>7. LinesAreOfThePast'
  <2> SUFFICES ASSUME NEW i \in 1..Len(output) PROVE LinesBefore(i)'
    BY <1>1 DEF LinesAreOfThePast
  <2>1. LinesBefore(i) /\ output[i].by \in Search
    BY Shapes DEF LinesAreOfThePast
  <2>2. QED
    BY <1>1, <1>2, <1>4, <2>1 DEF LinesBefore
<1>8. LinesInOrder' /\ NoRepeatedLine'
  BY <1>1 DEF LinesInOrder, NoRepeatedLine
<1>9. AnswersAreWhole'
  <2>1. \A n : LinesOf(owner, n)' = LinesOf(owner, n)
    BY <1>1 DEF LinesOf
  <2>2. at'[owner] = "done" => Len(answered[owner]) = NumNeeds
    BY <1>4 DEF AnswersAreWhole, TypeOK
  <2>3. QED
    BY <1>1, <2>1, <2>2 DEF AnswersAreWhole
<1>10. QED
  BY <1>3, <1>5, <1>6, <1>7, <1>8, <1>9

(***************************************************************************)
(* The index goes on to its next commit, under readers that keep theirs.   *)
(***************************************************************************)
LEMMA StoreStep ==
    ASSUME SearchInv, FileInv, StoreNext, UNCHANGED searchVars
    PROVE  SearchInv' /\ FileInv'
<1> USE DEF SearchInv, FileInv
<1>1. /\ at' = at /\ reader' = reader /\ output' = output /\ owner' = owner
      /\ answered' = answered /\ shortened' = shortened
  BY DEF searchVars
<1>2. /\ generation' \in Nat /\ generation <= generation'
      /\ lock' \in Run \cup {NoRun}
      /\ index' \in (SUBSET Doc) \cup {NoIndex}
      /\ index' # NoIndex => OneDocPerPath(index')
  <2>1. generation \in Nat
    BY DEF TypeOK
  <2>2. ASSUME NEW r \in Run, Acquire(r) \/ Abandon(r)
        PROVE  index' = index /\ generation' = generation /\ lock' \in Run \cup {NoRun}
    BY <2>2 DEF Acquire, Abandon
  <2>3. ASSUME NEW r \in Run, Publish(r)
        PROVE  /\ index' \in SUBSET Doc /\ OneDocPerPath(index')
               /\ generation' = generation + 1 /\ lock' = NoRun
    BY <2>3 DEF Publish
  <2>4. CASE \E r \in Run : Acquire(r) \/ Abandon(r)
    BY <2>1, <2>2, <2>4 DEF TypeOK, ReadersShowCommits, OneDocPerPath
  <2>5. CASE \E r \in Run : Publish(r)
    BY <2>1, <2>3, <2>5
  <2>6. QED
    BY <2>4, <2>5 DEF StoreNext
<1>3. TypeOK'
  BY <1>1, <1>2 DEF TypeOK
<1>4. ReadersShowCommits'
  <2>1. \A t \in Search : reader[t].commit <= generation' /\ OneDocPerPath(reader[t].docs)
    BY <1>2, Shapes DEF ReadersShowCommits
  <2>2. (index # NoIndex => OneDocPerPath(index))'
    BY <1>2 DEF OneDocPerPath
  <2>3. QED
    BY <1>1, <2>1, <2>2 DEF ReadersShowCommits, OneDocPerPath
<1>5. NeedsInTurn'
  BY <1>1 DEF NeedsInTurn, Current
<1>6. LinesAreOfThePast'
  BY <1>1, <1>2, Shapes DEF LinesAreOfThePast, LinesBefore
<1>7. LinesInOrder' /\ NoRepeatedLine'
  BY <1>1 DEF LinesInOrder, NoRepeatedLine
<1>8. AnswersAreWhole'
  BY <1>1 DEF AnswersAreWhole, LinesOf
<1>9. QED
  BY <1>3, <1>4, <1>5, <1>6, <1>7, <1>8

-------------------------------------------------------------------------------
(* The results. *)

LEMMA SearchStep == SearchInv /\ FileInv /\ [Next]_allVars => (SearchInv /\ FileInv)'
<1> SUFFICES ASSUME SearchInv, FileInv, [Next]_allVars PROVE SearchInv' /\ FileInv'
  OBVIOUS
<1>1. CASE UNCHANGED allVars
  <2>1. /\ index' = index /\ generation' = generation /\ lock' = lock /\ at' = at
        /\ reader' = reader /\ output' = output /\ owner' = owner /\ answered' = answered
        /\ shortened' = shortened
    BY <1>1 DEF allVars, storeVars, searchVars
  <2>2. SearchInv'
    BY <2>1 DEF SearchInv, TypeOK, ReadersShowCommits, OneDocPerPath, NeedsInTurn, Current,
                LinesAreOfThePast, LinesBefore
  <2>3. FileInv'
    <3>1. LinesInOrder' /\ NoRepeatedLine'
      BY <2>1 DEF FileInv, LinesInOrder, NoRepeatedLine
    <3>2. AnswersAreWhole'
      BY <2>1 DEF FileInv, AnswersAreWhole, LinesOf
    <3>. QED BY <3>1, <3>2 DEF FileInv
  <2>4. QED
    BY <2>2, <2>3
<1>2. CASE StoreNext /\ UNCHANGED searchVars
  BY <1>2, StoreStep
<1>3. ASSUME NEW s \in Search, RejectNeeds(s) \/ OpenNothing(s) \/ BreakOnNeed(s) \/ Die(s)
      PROVE  SearchInv' /\ FileInv'
  BY <1>3, QuietStep DEF RejectNeeds, OpenNothing, BreakOnNeed, Die
<1>4. ASSUME NEW s \in Search, ResetOutput(s) PROVE SearchInv' /\ FileInv'
  BY <1>4, ResetStep
<1>5. ASSUME NEW s \in Search, LoadModels(s) PROVE SearchInv' /\ FileInv'
  BY <1>5, QuietStep DEF LoadModels
<1>6. ASSUME NEW s \in Search, OpenReader(s) PROVE SearchInv' /\ FileInv'
  BY <1>6, OpenStep
<1>7. ASSUME NEW s \in Search, NEW hits \in TopDocs(Current(s), reader[s].docs), Answer(s, hits)
      PROVE  SearchInv' /\ FileInv'
  <2>1. AnswerWith(s, Block(s, hits)) /\ shortened' = shortened
    BY <1>7 DEF Answer
  <2>2. at[s] = "searching"
    BY <2>1 DEF AnswerWith
  <2>3. /\ HitLines(s, Block(s, hits))
        /\ Len(Block(s, hits)) = NumHits(Current(s), reader[s].docs)
    BY <2>2, HitsMakeLines
  <2>4. QED
    BY <2>1, <2>3, AnswerKeepsSearchInv, AnswerKeepsOrder, AnswerKeepsWhole DEF FileInv
<1>8. ASSUME NEW s \in Search, NEW hits \in TopDocs(Current(s), reader[s].docs),
             NEW n \in 0..(Len(hits) - 1), AnswerShort(s, hits, n)
      PROVE  SearchInv' /\ FileInv'
  <2> DEFINE w == SubSeq(Block(s, hits), 1, n)
  <2>1. AnswerWith(s, w) /\ shortened' = shortened \cup {s}
    BY <1>8 DEF AnswerShort
  <2>2. at[s] = "searching"
    BY <2>1 DEF AnswerWith
  <2>3. HitLines(s, w)
    BY <2>2, HitsMakeLines, CutLines
  <2> HIDE DEF w
  <2>4. QED
    BY <2>1, <2>3, AnswerKeepsSearchInv, AnswerKeepsOrder, AnswerKeepsWhole DEF FileInv
<1>9. ASSUME NEW s \in Search, Finish(s) PROVE SearchInv' /\ FileInv'
  <2>1. Len(answered[s]) = NumNeeds
    BY <1>9, Shapes DEF SearchInv, NeedsInTurn, Finish, Current
  <2>2. QED
    BY <1>9, <2>1, QuietStep DEF Finish
<1>10. CASE SearchNext
  BY <1>10, <1>3, <1>4, <1>5, <1>6, <1>7, <1>8, <1>9 DEF SearchNext, Step
<1>11. QED
  BY <1>1, <1>2, <1>10 DEF Next

LEMMA SearchInvariant == Spec => [](SearchInv /\ FileInv)
BY SearchInitially, SearchStep, PTL DEF Spec

(***************************************************************************)
(* Whatever commits are made while executions run, the lines of each one   *)
(* follow the needs, and never go back to an older commit.                 *)
(***************************************************************************)
THEOREM LinesStayInOrder == Spec => []LinesInOrder
<1>1. FileInv => LinesInOrder
  BY DEF FileInv
<1>2. QED
  BY <1>1, SearchInvariant, PTL

(***************************************************************************)
(* The results file can be evaluated: the execution that last emptied it   *)
(* has its answers there whole, however many others append theirs, and no  *)
(* answer names a file twice.                                              *)
(***************************************************************************)
THEOREM AnswersStayEvaluable == Spec => []AnswersCanBeEvaluated
<1>1. SearchInv /\ FileInv => AnswersCanBeEvaluated
  BY DEF SearchInv, FileInv, AnswersCanBeEvaluated
<1>2. QED
  BY <1>1, SearchInvariant, PTL

-----------------------------------------------------------------------------
(***************************************************************************)
(* The interactive searcher, for any width of int, any page length and any *)
(* bound on the hits: the pages are whole, and nothing but a bad jump or   *)
(* an overflow ends the paging by an index out of bounds.                  *)
(***************************************************************************)

(***************************************************************************)
(* Integers: multiples, and what Wrap makes of an int.                     *)
(***************************************************************************)
LEMMA MultipleIsZero ==
    ASSUME NEW b \in Nat \ {0}, NEW k \in Int PROVE (k * b) % b = 0
OBVIOUS

LEMMA ZeroIsMultiple ==
    ASSUME NEW b \in Nat \ {0}, NEW a \in Int, a % b = 0
    PROVE  \E k \in Int : a = k * b
<1>1. a \div b \in Int /\ a = (a \div b) * b
  OBVIOUS
<1>. QED BY <1>1

LEMMA NextMultiple ==
    ASSUME NEW b \in Nat \ {0}, NEW a \in Int, a % b = 0
    PROVE  (a + b) % b = 0 /\ (a - b) % b = 0
<1>1. PICK k \in Int : a = k * b
  BY ZeroIsMultiple
<1>2. a + b = (k + 1) * b /\ a - b = (k - 1) * b
  BY <1>1
<1>. QED BY <1>2, MultipleIsZero, k + 1 \in Int, k - 1 \in Int

LEMMA SmallRemainder ==
    ASSUME NEW b \in Nat \ {0}, NEW a \in 0..(b - 1) PROVE a % b = a
OBVIOUS

LEMMA WrapIsInt == ASSUME NEW x \in Int PROVE Wrap(x) \in Int32
<1>. DEFINE b == 2 * (MaxInt + 1)
<1>1. MaxInt \in Nat /\ b \in Nat \ {0}
  BY IntAssumption
<1>2. (x + MaxInt + 1) % b \in 0..(b - 1)
  <2>. HIDE DEF b
  <2>. QED BY <1>1
<1>. QED BY <1>1, <1>2 DEF Wrap, Int32

LEMMA IntIsNotWrapped == ASSUME NEW x \in Int32 PROVE Wrap(x) = x
<1>. DEFINE b == 2 * (MaxInt + 1)
<1>1. MaxInt \in Nat /\ b \in Nat \ {0} /\ x \in Int
  BY IntAssumption DEF Int32
<1>2. x + MaxInt + 1 \in 0..(b - 1)
  BY <1>1 DEF Int32
<1>3. (x + MaxInt + 1) % b = x + MaxInt + 1
  <2>. HIDE DEF b
  <2>. QED BY <1>1, <1>2, SmallRemainder
<1>. QED BY <1>1, <1>3 DEF Wrap

-------------------------------------------------------------------------------
(***************************************************************************)
(* The invariant.  `Fits' leaves out of Exact what the cuts do not depend  *)
(* on: whether the number of hits to collect has wrapped around.           *)
(***************************************************************************)
Paging == pc \in {"check", "show", "ask"}

Fits ==
    /\ total + hitsPerPage <= MaxInt
    /\ (jump - 1) * hitsPerPage \in Int32
    /\ jump - 1 \in Int32

(***************************************************************************)
(* The page announced ends at a hit, and no page is shown of which a hit   *)
(* was not collected.                                                      *)
(***************************************************************************)
Collecting ==
    /\ searches <= 2
    /\ searches = 2 => collected = total
    /\ collected <= total
    /\ Paging => end <= total
    /\ pc = "show" => end <= collected

(***************************************************************************)
(* Where the page is.  A jump below the first page is seen only when the   *)
(* page is to be shown, so that who is asked stands on a page.             *)
(***************************************************************************)
OnAPage ==
    Paging /\ Fits =>
        /\ start <= total
        /\ start % hitsPerPage = 0
        /\ pc = "ask" \/ jump >= 1 => start >= 0
        /\ end = Lesser(total, start + hitsPerPage)

(***************************************************************************)
(* What a user who only goes on has seen: up to the page that comes, or up *)
(* to its end when there is no page after it.                              *)
(***************************************************************************)
SeenSoFar ==
    /\ onlyNext => jump = 1
    /\ Paging /\ Fits /\ onlyNext =>
         /\ pc = "ask" => seen = 0..(end - 1)
         /\ seen = 0..(start - 1) \/ seen = 0..(end - 1)

Faultless == pc # "ended" => fault = "none"

PagingInv ==
    PagingTypeOK /\ Collecting /\ OnAPage /\ SeenSoFar /\ Faultless /\ OnlyBadJumpsFail

LEMMA Ints ==
    ASSUME PagingInv
    PROVE  /\ MaxInt \in Nat \ {0} /\ MaxTotal \in 0..MaxInt
           /\ hitsPerPage \in 1..MaxInt
           /\ total \in 0..MaxInt /\ collected \in 0..MaxInt
           /\ start \in Int /\ end \in Int /\ jump \in Int
BY IntAssumption DEF PagingInv, PagingTypeOK, Int32

LEMMA Extremes ==
    ASSUME NEW a \in Int, NEW b \in Int
    PROVE  /\ Lesser(a, b) \in {a, b} /\ Lesser(a, b) <= a /\ Lesser(a, b) <= b
           /\ Greater(a, b) \in {a, b} /\ Greater(a, b) >= a /\ Greater(a, b) >= b
BY DEF Lesser, Greater

(***************************************************************************)
(* The end of a page that starts among the hits is not wrapped.            *)
(***************************************************************************)
LEMMA EndIsExact ==
    ASSUME PagingInv, Fits, NEW s \in Int32, s <= total
    PROVE  Wrap(s + hitsPerPage) = s + hitsPerPage
<1>1. s + hitsPerPage \in Int32
  BY Ints DEF Fits, Int32
<1>. QED BY <1>1, IntIsNotWrapped

-------------------------------------------------------------------------------
(* The steps. *)

(***************************************************************************)
(* The query or the session is left, for another reason than an index out  *)
(* of bounds.                                                              *)
(***************************************************************************)
LEMMA Left ==
    ASSUME PagingInv, pc # "ended", pc' \in {"query", "ended"},
           pc' = "query" => fault' = fault,
           fault' \in {fault, "IllegalArgumentException", "ParseException",
                       "NumberFormatException", "NullPointerException"},
           UNCHANGED <<options, total, collected, start, end, history>>
    PROVE  PagingInv'
<1>1. PagingTypeOK'
  BY DEF PagingInv, PagingTypeOK, options, history
<1>2. Collecting'
  BY DEF PagingInv, Collecting, Paging, history
<1>3. OnAPage' /\ SeenSoFar'
  BY DEF PagingInv, OnAPage, SeenSoFar, Paging, history
<1>4. Faultless' /\ OnlyBadJumpsFail'
  BY DEF PagingInv, Faultless, OnlyBadJumpsFail
<1>. QED BY <1>1, <1>2, <1>3, <1>4 DEF PagingInv

LEMMA FirstSearchStep ==
    ASSUME PagingInv, NEW t \in 0..MaxTotal, FirstSearch(t)
    PROVE  PagingInv'
<1>. USE Ints
<1>1. /\ pc' = "check" /\ total' = t /\ start' = 0 /\ end' = Lesser(t, hitsPerPage)
      /\ collected' = Lesser(t, Wrap(5 * hitsPerPage))
      /\ searches' = 1 /\ seen' = {} /\ onlyNext' = TRUE /\ jump' = 1
      /\ UNCHANGED <<hitsPerPage, mode, printable, fault>>
      /\ pc = "query" /\ Wrap(5 * hitsPerPage) > 0
  BY DEF FirstSearch, options
<1>2. Wrap(5 * hitsPerPage) \in Int
  BY WrapIsInt, 5 * hitsPerPage \in Int DEF Int32
<1>3. collected' \in 0..t /\ end' \in 0..t
  BY <1>1, <1>2, Extremes
<1>4. PagingTypeOK'
  BY <1>1, <1>3, IntAssumption DEF PagingInv, PagingTypeOK, Int32
<1>5. Collecting'
  BY <1>1, <1>3 DEF Collecting
<1>6. OnAPage'
  <2>1. start' % hitsPerPage' = 0
    BY <1>1, MultipleIsZero, 0 * hitsPerPage = 0
  <2>2. end' = Lesser(total', start' + hitsPerPage')
    BY <1>1, 0 + hitsPerPage = hitsPerPage
  <2>. QED BY <1>1, <2>1, <2>2 DEF OnAPage
<1>7. SeenSoFar'
  BY <1>1 DEF SeenSoFar
<1>8. Faultless' /\ OnlyBadJumpsFail'
  BY <1>1 DEF PagingInv, Faultless, OnlyBadJumpsFail
<1>. QED BY <1>4, <1>5, <1>6, <1>7, <1>8 DEF PagingInv

LEMMA EnoughCollectedStep ==
    ASSUME PagingInv, EnoughCollected PROVE PagingInv'
<1>. USE DEF EnoughCollected, PagingInv, options, history
<1>1. PagingTypeOK'
  BY DEF PagingTypeOK
<1>2. Collecting'
  BY DEF Collecting, Paging
<1>3. OnAPage' /\ SeenSoFar'
  BY DEF OnAPage, SeenSoFar, Paging, Fits
<1>4. Faultless' /\ OnlyBadJumpsFail'
  BY DEF Faultless, OnlyBadJumpsFail
<1>. QED BY <1>1, <1>2, <1>3, <1>4

(***************************************************************************)
(* A user is asked to collect more only after the first execution.         *)
(***************************************************************************)
LEMMA CollectMoreStep ==
    ASSUME PagingInv, CollectMore PROVE PagingInv'
<1>. USE Ints DEF CollectMore, PagingInv, options
<1>1. searches # 2
  BY DEF Collecting, Paging
<1>2. PagingTypeOK'
  BY DEF PagingTypeOK
<1>3. Collecting'
  <2>1. searches' <= 2
    BY <1>1 DEF Collecting, PagingTypeOK
  <2>. QED BY <2>1 DEF Collecting, Paging
<1>4. OnAPage' /\ SeenSoFar'
  BY DEF OnAPage, SeenSoFar, Paging, Fits
<1>5. Faultless' /\ OnlyBadJumpsFail'
  BY DEF Faultless, OnlyBadJumpsFail
<1>. QED BY <1>2, <1>3, <1>4, <1>5

(***************************************************************************)
(* A page that is shown is the one that was announced.                     *)
(***************************************************************************)
LEMMA LastShownIsTheEnd ==
    ASSUME PagingInv, Fits, pc = "show" PROVE LastShown = end
<1>. USE Ints
<1>1. start \in Int32 /\ start <= total /\ end = Lesser(total, start + hitsPerPage)
  BY DEF PagingInv, PagingTypeOK, OnAPage, Paging
<1>2. LastShown = Lesser(collected, start + hitsPerPage)
  BY <1>1, EndIsExact DEF LastShown
<1>3. end <= collected /\ collected <= total
  BY DEF PagingInv, Collecting
<1>. QED BY <1>1, <1>2, <1>3 DEF Lesser

LEMMA LastShownIsCollected ==
    ASSUME PagingInv PROVE LastShown \in Int /\ LastShown <= collected
<1>1. Wrap(start + hitsPerPage) \in Int
  BY Ints, WrapIsInt, start + hitsPerPage \in Int DEF Int32
<1>. QED BY <1>1, Ints, Extremes DEF LastShown

LEMMA ShowPageStep ==
    ASSUME PagingInv, ShowPage PROVE PagingInv'
<1>. USE Ints, LastShownIsCollected
<1>1. /\ pc = "show" /\ Page \subseteq 0..(collected - 1)
      /\ end' = LastShown /\ seen' = seen \cup Page
      /\ pc' = IF ~interactive \/ end' = 0 THEN NextQuery
               ELSE IF total >= end' THEN "ask" ELSE "check"
      /\ UNCHANGED <<hitsPerPage, mode, printable, total, collected, start, searches,
                     onlyNext, jump, fault>>
  BY DEF ShowPage, options
<1>2. collected <= total
  BY DEF PagingInv, Collecting
<1>3. pc' \in {"query", "ended", "ask"}
  BY <1>1, <1>2 DEF NextQuery
<1>4. end' \in Int32
  <2>1. CASE end' = collected
    BY <2>1, IntAssumption DEF Int32
  <2>2. CASE end' = Wrap(start + hitsPerPage)
    BY <2>2, WrapIsInt, start + hitsPerPage \in Int
  <2>. QED BY <1>1, <2>1, <2>2 DEF LastShown, Lesser
<1>5. PagingTypeOK'
  <2>1. 0..(collected - 1) \subseteq 0..(MaxTotal - 1)
    BY DEF PagingInv, PagingTypeOK
  <2>. QED BY <1>1, <1>3, <1>4, <2>1 DEF PagingInv, PagingTypeOK
<1>6. Collecting'
  BY <1>1, <1>2, <1>3 DEF PagingInv, Collecting, Paging
<1>7. CASE pc' # "ask" \/ ~Fits
  BY <1>1, <1>3, <1>5, <1>6, <1>7
     DEF PagingInv, OnAPage, SeenSoFar, Paging, Fits, Faultless, OnlyBadJumpsFail
<1>8. CASE pc' = "ask" /\ Fits
  <2>1. end' = end
    BY <1>1, <1>8, LastShownIsTheEnd
  <2>2. start <= total /\ start % hitsPerPage = 0 /\ end = Lesser(total, start + hitsPerPage)
    BY <1>1, <1>8 DEF PagingInv, OnAPage, Paging
  <2>3. start < end \/ end = start
    BY <2>2 DEF Lesser
  <2>4. start >= 0
    <3>1. CASE start < end
      BY <1>1, <2>1, <3>1, start \in Page DEF Page
    <3>2. CASE end = start
      <4>1. start = total
        BY <2>2, <3>2 DEF Lesser
      <4>. QED BY <4>1
    <3>. QED BY <2>3, <3>1, <3>2
  <2>5. OnAPage'
    BY <1>1, <2>1, <2>2, <2>4 DEF OnAPage
  <2>6. SeenSoFar'
    <3>1. ASSUME onlyNext PROVE seen' = 0..(end' - 1)
      <4>1. seen = 0..(start - 1) \/ seen = 0..(end - 1)
        BY <1>1, <1>8, <3>1 DEF PagingInv, SeenSoFar, Paging
      <4>2. Page = start..(end - 1)
        BY <1>1, <2>1 DEF Page
      <4>. QED BY <1>1, <2>1, <2>3, <2>4, <4>1, <4>2
    <3>. QED BY <1>1, <3>1 DEF PagingInv, SeenSoFar
  <2>7. Faultless' /\ OnlyBadJumpsFail'
    BY <1>1 DEF PagingInv, Faultless, OnlyBadJumpsFail
  <2>. QED BY <1>5, <1>6, <2>5, <2>6, <2>7 DEF PagingInv
<1>. QED BY <1>7, <1>8

(***************************************************************************)
(* The index is out of bounds only on a page below the first one, to which *)
(* a jump has led, or when an int has wrapped.                             *)
(***************************************************************************)
LEMMA ShowNoPageStep ==
    ASSUME PagingInv, ShowNoPage PROVE PagingInv'
<1>. USE Ints, LastShownIsCollected
<1>1. /\ pc = "show" /\ ~ Page \subseteq 0..(collected - 1)
      /\ pc' = "ended" /\ fault' = "ArrayIndexOutOfBoundsException"
      /\ UNCHANGED <<options, total, collected, start, end, history>>
  BY DEF ShowNoPage, Fails
<1>2. OnlyBadJumpsFail
  BY DEF PagingInv
<1>3. ASSUME jump >= 1, (jump - 1) * hitsPerPage <= MaxInt, total + hitsPerPage <= MaxInt
      PROVE  FALSE
  <2>1. Fits
    <3>1. jump - 1 \in Int32
      BY <1>3, IntAssumption DEF PagingInv, PagingTypeOK, Int32
    <3>2. (jump - 1) * hitsPerPage \in Nat
      BY <1>3, jump - 1 \in Nat, hitsPerPage \in Nat
    <3>. QED BY <1>3, <3>1, <3>2 DEF Fits, Int32
  <2>2. start >= 0
    BY <1>1, <1>3, <2>1 DEF PagingInv, OnAPage, Paging
  <2>. QED BY <1>1, <2>2 DEF Page
<1>4. OnlyBadJumpsFail'
  <2>1. UNCHANGED <<jump, hitsPerPage, total>>
    BY <1>1 DEF options, history
  <2>2. (jump - 1) * hitsPerPage \in Int
    OBVIOUS
  <2>. QED BY <1>3, <2>1, <2>2 DEF OnlyBadJumpsFail
<1>5. PagingTypeOK'
  BY <1>1 DEF PagingInv, PagingTypeOK, options, history
<1>6. Collecting' /\ OnAPage' /\ SeenSoFar' /\ Faultless'
  BY <1>1 DEF PagingInv, Collecting, OnAPage, SeenSoFar, Faultless, Paging, history
<1>. QED BY <1>4, <1>5, <1>6 DEF PagingInv

(***************************************************************************)
(* Where the prompt is, when no int has wrapped: on a page, with the user  *)
(* having seen up to its end.                                              *)
(***************************************************************************)
LEMMA AtThePrompt ==
    ASSUME PagingInv, pc = "ask", Fits
    PROVE  /\ start \in 0..total
           /\ start % hitsPerPage = 0
           /\ end = Lesser(total, start + hitsPerPage)
           /\ onlyNext => seen = 0..(end - 1) /\ jump = 1
           /\ Wrap(start + hitsPerPage) = start + hitsPerPage
<1>1. start <= total /\ start % hitsPerPage = 0 /\ start >= 0
      /\ end = Lesser(total, start + hitsPerPage)
  BY DEF PagingInv, OnAPage, Paging
<1>2. onlyNext => seen = 0..(end - 1) /\ jump = 1
  BY DEF PagingInv, SeenSoFar, Paging
<1>3. Wrap(start + hitsPerPage) = start + hitsPerPage
  BY <1>1, EndIsExact DEF PagingInv, PagingTypeOK
<1>. QED BY <1>1, <1>2, <1>3, Ints

(***************************************************************************)
(* What every move has in common; what is left to show of each is where it *)
(* leads to.                                                               *)
(***************************************************************************)
LEMMA MoveStep ==
    ASSUME PagingInv, pc = "ask", NEW s \in Int32, MoveTo(s),
           onlyNext' \in BOOLEAN, jump' \in Int32,
           onlyNext' => jump' = 1,
           Fits' => /\ s <= total
                    /\ s % hitsPerPage = 0
                    /\ jump' >= 1 => s >= 0,
           Fits' /\ onlyNext' =>
               seen = 0..(s - 1) \/ seen = 0..(Lesser(total, s + hitsPerPage) - 1)
    PROVE  PagingInv'
<1>. USE Ints
<1>1. /\ pc' = "check" /\ start' = s /\ end' = Lesser(total, Wrap(s + hitsPerPage))
      /\ UNCHANGED <<hitsPerPage, mode, printable, total, collected, searches, seen, fault>>
  BY DEF MoveTo, options
<1>2. Wrap(s + hitsPerPage) \in Int32 /\ s \in Int
  BY WrapIsInt, s + hitsPerPage \in Int DEF Int32
<1>3. end' \in Int32 /\ end' <= total
  <2>1. Wrap(s + hitsPerPage) \in Int
    BY <1>2 DEF Int32
  <2>2. end' \in {total, Wrap(s + hitsPerPage)} /\ end' <= total
    BY <1>1, <2>1, Extremes
  <2>. QED BY <1>2, <2>2, IntAssumption DEF Int32
<1>4. PagingTypeOK'
  BY <1>1, <1>3 DEF PagingInv, PagingTypeOK
<1>5. Collecting'
  BY <1>1, <1>3 DEF PagingInv, Collecting, Paging
<1>6. Faultless' /\ OnlyBadJumpsFail'
  BY <1>1 DEF PagingInv, Faultless, OnlyBadJumpsFail
<1>7. ASSUME Fits' PROVE end' = Lesser(total, s + hitsPerPage)
  <2>1. s <= total
    BY <1>7
  <2>2. total + hitsPerPage <= MaxInt
    BY <1>1, <1>7 DEF Fits
  <2>3. s + hitsPerPage \in Int32
    BY <1>2, <2>1, <2>2 DEF Int32
  <2>. QED BY <1>1, <2>3, IntIsNotWrapped
<1>8. OnAPage'
  BY <1>1, <1>7 DEF OnAPage
<1>9. SeenSoFar'
  BY <1>1, <1>7 DEF SeenSoFar
<1>. QED BY <1>4, <1>5, <1>6, <1>8, <1>9 DEF PagingInv

LEMMA PreviousPageStep ==
    ASSUME PagingInv, PreviousPage PROVE PagingInv'
<1>. USE Ints
<1>. DEFINE s == Greater(0, Wrap(start - hitsPerPage))
<1>1. pc = "ask" /\ MoveTo(s) /\ onlyNext' = FALSE /\ jump' = jump
  BY DEF PreviousPage
<1>2. Wrap(start - hitsPerPage) \in Int32
  BY WrapIsInt, start - hitsPerPage \in Int
<1>3. s \in Int32 /\ s >= 0
  BY <1>2, IntAssumption DEF Greater, Int32
<1>4. ASSUME Fits' PROVE s <= total /\ s % hitsPerPage = 0
  <2>1. Fits
    BY <1>1, <1>4 DEF Fits, MoveTo, options
  <2>2. start \in 0..total /\ start % hitsPerPage = 0
    BY <1>1, <2>1, AtThePrompt
  <2>3. start - hitsPerPage \in Int32
    BY <2>2, IntAssumption DEF Int32
  <2>4. s = Greater(0, start - hitsPerPage)
    BY <2>3, IntIsNotWrapped
  <2>5. (start - hitsPerPage) % hitsPerPage = 0 /\ 0 % hitsPerPage = 0
    BY <2>2, NextMultiple, MultipleIsZero, 0 * hitsPerPage = 0
  <2>. QED BY <2>2, <2>4, <2>5 DEF Greater
<1>5. jump' \in Int32
  BY <1>1 DEF PagingInv, PagingTypeOK
<1>. HIDE DEF s
<1>. QED BY <1>1, <1>3, <1>4, <1>5, MoveStep

LEMMA NextPageStep ==
    ASSUME PagingInv, NextPage PROVE PagingInv'
<1>. USE Ints
<1>. DEFINE s == IF Wrap(start + hitsPerPage) < total
                 THEN Wrap(start + hitsPerPage) ELSE start
<1>1. pc = "ask" /\ MoveTo(s) /\ onlyNext' = onlyNext /\ jump' = jump
  BY DEF NextPage
<1>2. s \in Int32 /\ onlyNext' \in BOOLEAN /\ jump' \in Int32
  BY <1>1, WrapIsInt, start + hitsPerPage \in Int DEF PagingInv, PagingTypeOK
<1>3. onlyNext' => jump' = 1
  BY <1>1 DEF PagingInv, SeenSoFar
<1>4. ASSUME Fits'
      PROVE  /\ s <= total /\ s % hitsPerPage = 0 /\ s >= 0
             /\ onlyNext' =>
                  seen = 0..(s - 1) \/ seen = 0..(Lesser(total, s + hitsPerPage) - 1)
  <2>1. Fits
    BY <1>1, <1>4 DEF Fits, MoveTo, options
  <2>2. /\ start \in 0..total /\ start % hitsPerPage = 0
        /\ end = Lesser(total, start + hitsPerPage)
        /\ onlyNext => seen = 0..(end - 1)
        /\ Wrap(start + hitsPerPage) = start + hitsPerPage
    BY <1>1, <2>1, AtThePrompt
  <2>3. CASE start + hitsPerPage < total
    <3>1. s = start + hitsPerPage /\ end = s
      BY <2>2, <2>3 DEF Lesser
    <3>2. s % hitsPerPage = 0
      BY <2>2, <3>1, NextMultiple
    <3>. QED BY <1>1, <2>2, <2>3, <3>1, <3>2
  <2>4. CASE ~(start + hitsPerPage < total)
    BY <1>1, <2>2, <2>4
  <2>. QED BY <2>3, <2>4
<1>. HIDE DEF s
<1>. QED BY <1>1, <1>2, <1>3, <1>4, MoveStep

(***************************************************************************)
(* A jump whose numbers fit an int leads to the page of that number.       *)
(***************************************************************************)
LEMMA JumpToStep ==
    ASSUME PagingInv, NEW page \in Int32, JumpTo(page) PROVE PagingInv'
<1>. USE Ints
<1>1. /\ pc = "ask" /\ MoveTo(FirstOf(page)) /\ onlyNext' = FALSE /\ jump' = page
      /\ FirstOf(page) < total
  BY DEF JumpTo
<1>2. page \in Int
  BY DEF Int32
<1>3. FirstOf(page) \in Int32 /\ FirstOf(page) \in Int
  <2>1. Wrap(page - 1) \in Int
    BY <1>2, WrapIsInt, page - 1 \in Int DEF Int32
  <2>. QED BY <2>1, WrapIsInt, Wrap(page - 1) * hitsPerPage \in Int DEF FirstOf, Int32
<1>4. ASSUME Fits'
      PROVE  /\ FirstOf(page) % hitsPerPage = 0
             /\ page >= 1 => FirstOf(page) >= 0
  <2>1. page - 1 \in Int32 /\ (page - 1) * hitsPerPage \in Int32
    BY <1>1, <1>4 DEF Fits, MoveTo, options
  <2>2. FirstOf(page) = (page - 1) * hitsPerPage
    BY <2>1, IntIsNotWrapped DEF FirstOf
  <2>3. ((page - 1) * hitsPerPage) % hitsPerPage = 0
    BY <1>2, MultipleIsZero, page - 1 \in Int, hitsPerPage \in Nat \ {0}
  <2>4. page >= 1 => (page - 1) * hitsPerPage \in Nat
    BY <1>2, page >= 1 => page - 1 \in Nat, hitsPerPage \in Nat
  <2>. QED BY <2>2, <2>3, <2>4
<1>5. FirstOf(page) <= total
  BY <1>1, <1>3
<1>. QED BY <1>1, <1>3, <1>4, <1>5, MoveStep

-------------------------------------------------------------------------------
LEMMA InitialPaging == PagingInit => PagingInv
BY IntAssumption
   DEF PagingInit, PagingInv, PagingTypeOK, Collecting, OnAPage, SeenSoFar, Paging, Faultless,
       OnlyBadJumpsFail, Int32

LEMMA PagingStep == ASSUME PagingInv, [PagingNext]_pagingVars PROVE PagingInv'
<1>1. CASE UNCHANGED pagingVars
  BY <1>1
     DEF pagingVars, options, history, PagingInv, PagingTypeOK, Collecting, OnAPage, SeenSoFar,
         Paging, Fits, Faultless, OnlyBadJumpsFail
<1>2. CASE \E t \in 0..MaxTotal : FirstSearch(t)
  BY <1>2, FirstSearchStep
<1>3. CASE \/ TooManyHits \/ BadQuery \/ EndOfQueries \/ DoNotCollect \/ ShowNoDate
           \/ Quit \/ NoNumber \/ EndOfInput
  BY <1>3, Left
     DEF TooManyHits, BadQuery, EndOfQueries, DoNotCollect, ShowNoDate, Quit, NoNumber,
         EndOfInput, Fails, NextQuery
<1>4. CASE EnoughCollected
  BY <1>4, EnoughCollectedStep
<1>5. CASE CollectMore
  BY <1>5, CollectMoreStep
<1>6. CASE ShowPage
  BY <1>6, ShowPageStep
<1>7. CASE ShowNoPage
  BY <1>7, ShowNoPageStep
<1>8. CASE PreviousPage
  BY <1>8, PreviousPageStep
<1>9. CASE NextPage
  BY <1>9, NextPageStep
<1>10. CASE \E page \in Int32 : JumpTo(page)
  BY <1>10, JumpToStep
<1>11. CASE \E page \in Int32 : NoSuchPage(page)
  BY <1>1, <1>11 DEF NoSuchPage
<1>. QED BY <1>1, <1>2, <1>3, <1>4, <1>5, <1>6, <1>7, <1>8, <1>9, <1>10, <1>11
         DEF PagingNext, Prompt

LEMMA PagingSafe == PagingSpec => []PagingInv
BY InitialPaging, PagingStep, PTL DEF PagingSpec

(***************************************************************************)
(* Whichever way the pages of a query are reached, and in whatever order,  *)
(* they are cut in the same places, who only goes on misses none of their  *)
(* hits, and the query is executed twice at most.                          *)
(***************************************************************************)
THEOREM PagesStayWhole == PagingSpec => []PagesAreWhole
<1>1. PagingInv => PagesAreWhole
  <2>. SUFFICES ASSUME PagingInv PROVE PagesAreWhole
    OBVIOUS
  <2>1. PagingTypeOK /\ CollectedAtMostTwice
    BY DEF PagingInv, Collecting, CollectedAtMostTwice, Paging
  <2>2. Exact => Fits
    BY DEF Exact, Fits
  <2>3. SamePages
    BY <2>2 DEF PagingInv, OnAPage, SamePages, Paging
  <2>4. NothingSkipped
    BY <2>2 DEF PagingInv, SeenSoFar, NothingSkipped, Paging
  <2>. QED BY <2>1, <2>3, <2>4 DEF PagesAreWhole
<1>. QED BY <1>1, PagingSafe, PTL

(***************************************************************************)
(* Paging ends by an index out of bounds only after a jump below the first *)
(* page or beyond the ints, or when the page after the last hit would end  *)
(* beyond them.                                                            *)
(***************************************************************************)
THEOREM BadJumpsFailOnly == PagingSpec => []OnlyBadJumpsFail
<1>1. PagingInv => OnlyBadJumpsFail
  BY DEF PagingInv
<1>. QED BY <1>1, PagingSafe, PTL

=============================================================================
