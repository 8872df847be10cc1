----------------------------- MODULE ResultsProofs -----------------------------
(***************************************************************************)
(* What is proved of the files of results of practice 5: that the semantic *)
(* searcher writes them whole, for any graph, needs and size of the        *)
(* buffer; and of the evaluation program, which reads such files, that its *)
(* report is for all the judged needs or for none and that the measures in *)
(* it are those of the lists, for any needs, documents and lists.          *)
(***************************************************************************)
EXTENDS Evaluation, SemanticSearcher, SequenceTheorems, FiniteSetTheorems, FunctionTheorems,
        WellFoundedInduction, TLAPS

-------------------------------------------------------------------------------
(* The evaluation program. *)

(***************************************************************************)
(* map.put.                                                                *)
(***************************************************************************)
LEMMA PutDomain ==
    ASSUME NEW map, NEW key, NEW value
    PROVE  DOMAIN Put(map, key, value) = DOMAIN map \cup {key}
BY DEF Put

LEMMA PutEntry ==
    ASSUME NEW map, NEW key, NEW value, NEW k \in DOMAIN map \cup {key}
    PROVE  Put(map, key, value)[k] = IF k = key THEN value ELSE map[k]
BY DEF Put

LEMMA PutType ==
    ASSUME NEW Values, NEW map, map \in [DOMAIN map -> Values], NEW key, NEW value \in Values
    PROVE  Put(map, key, value) \in [DOMAIN map \cup {key} -> Values]
BY DEF Put

(***************************************************************************)
(* The entry TOTAL is one once it is computed.                             *)
(***************************************************************************)
LEMMA TotalIsThere == ASSUME NEW evals PROVE Total(evals) # NoTotal
<1>1. "map" \in DOMAIN Total(evals)
  BY DEF Total
<1>2. DOMAIN NoTotal = {}
  BY DEF NoTotal
<1>. QED BY <1>1, <1>2

-------------------------------------------------------------------------------
(* The invariant: types, and what the loop of evaluar has done. *)

(***************************************************************************)
(* The needs that evaluar has come to and gone on from.                    *)
(***************************************************************************)
Judged == DOMAIN relevancias \ left

(***************************************************************************)
(* A need that was left behind could be evaluated, and was if it found     *)
(* something; the inputs do not change from then on.                       *)
(***************************************************************************)
LoopInv ==
    /\ \A need \in Judged : Evaluable(need)
    /\ \A need \in Judged : need \in DOMAIN evaluaciones <=> Retrieves(need)
    /\ DOMAIN evaluaciones \subseteq Judged

ReportInv ==
    /\ left \subseteq DOMAIN relevancias
    /\ pc \in {"qrels", "results"} => left = {} /\ DOMAIN evaluaciones = {}
    /\ pc \in {"evaluating", "writing", "done"} => LoopInv
    /\ pc \in {"writing", "done"} => left = {}
    /\ pc \notin {"writing", "done"} => report = "previous"
    /\ pc = "failed" /\ left # {} => \E need \in left : ~Evaluable(need)

-------------------------------------------------------------------------------
(* Types. *)

LEMMA KeptType ==
    ASSUME NEW docs \in Seq(DocId), NEW doc \in DocId,
           docs = <<>> \/ Len(docs) <= MAX_RES_NEED
    PROVE  /\ Kept(docs, doc) \in Seq(DocId) \ {<<>>}
           /\ Len(Kept(docs, doc)) <= MAX_RES_NEED
<1>. USE EvaluationAssumption
<1>1. CASE Len(docs) < MAX_RES_NEED
  BY <1>1 DEF Kept
<1>2. CASE ~(Len(docs) < MAX_RES_NEED)
  <2>1. Kept(docs, doc) = docs /\ Len(docs) >= MAX_RES_NEED
    BY <1>2 DEF Kept
  <2>2. docs # <<>>
    BY <2>1
  <2>. QED BY <2>1, <2>2
<1>. QED BY <1>1, <1>2

LEMMA ReadJudgementType ==
    ASSUME TypeOK, NEW need \in Need, NEW doc \in DocId, NEW relevante \in BOOLEAN,
           ReadJudgement(need, doc, relevante)
    PROVE  TypeOK'
<1>. DEFINE entry == EntryOf(relevancias, need)
            judged == Put(entry, doc, relevante)
<1>1. /\ relevancias' = Put(relevancias, need, judged) /\ pc = "qrels" /\ pc' = "qrels"
      /\ UNCHANGED <<resultados, left, evaluaciones, total, report>>
  BY DEF ReadJudgement, Goes
<1>2. entry \in [DOMAIN entry -> BOOLEAN] /\ DOMAIN entry \subseteq DocId
  <2>1. CASE need \in DOMAIN relevancias
    BY <2>1 DEF TypeOK, EntryOf
  <2>2. CASE need \notin DOMAIN relevancias
    <3>1. entry = <<>>
      BY <2>2 DEF EntryOf
    <3>2. <<>> \in [{} -> BOOLEAN] /\ DOMAIN <<>> = {}
      OBVIOUS
    <3>. QED BY <3>1, <3>2
  <2>. QED BY <2>1, <2>2
<1>3. judged \in [DOMAIN entry \cup {doc} -> BOOLEAN]
  <2>. HIDE DEF entry
  <2>. QED BY <1>2, PutType
<1>4. DOMAIN judged \in (SUBSET DocId) \ {{}} /\ judged \in [DOMAIN judged -> BOOLEAN]
  BY <1>2, <1>3
<1>. HIDE DEF judged
<1>domain. DOMAIN relevancias' = DOMAIN relevancias \cup {need}
  BY <1>1, PutDomain
<1>5. \A n \in DOMAIN relevancias' :
         /\ DOMAIN relevancias'[n] \in (SUBSET DocId) \ {{}}
         /\ relevancias'[n] \in [DOMAIN relevancias'[n] -> BOOLEAN]
  <2>. TAKE n \in DOMAIN relevancias'
  <2>1. relevancias'[n] = IF n = need THEN judged ELSE relevancias[n]
    BY <1>1, <1>domain, PutEntry
  <2>2. CASE n = need
    BY <1>4, <2>1, <2>2
  <2>3. CASE n # need
    <3>1. n \in DOMAIN relevancias
      BY <1>domain, <2>3
    <3>. QED BY <2>1, <2>3, <3>1 DEF TypeOK
  <2>. QED BY <2>2, <2>3
<1>. QED BY <1>1, <1>5, <1>domain DEF TypeOK

LEMMA ReadResultType ==
    ASSUME TypeOK, NEW need \in Need, NEW doc \in DocId, ReadResult(need, doc)
    PROVE  TypeOK'
<1>. DEFINE docs == Kept(EntryOf(resultados, need), doc)
<1>1. /\ resultados' = Put(resultados, need, docs) /\ pc = "results" /\ pc' = "results"
      /\ UNCHANGED <<relevancias, left, evaluaciones, total, report>>
  BY DEF ReadResult, Goes
<1>2. docs \in Seq(DocId) \ {<<>>} /\ Len(docs) <= MAX_RES_NEED
  <2>1. /\ EntryOf(resultados, need) \in Seq(DocId)
        /\ \/ EntryOf(resultados, need) = <<>>
           \/ Len(EntryOf(resultados, need)) <= MAX_RES_NEED
    BY DEF EntryOf, TypeOK
  <2>. QED BY <2>1, KeptType
<1>. HIDE DEF docs
<1>domain. DOMAIN resultados' = DOMAIN resultados \cup {need}
  BY <1>1, PutDomain
<1>3. \A n \in DOMAIN resultados' :
         /\ resultados'[n] \in Seq(DocId) \ {<<>>}
         /\ Len(resultados'[n]) <= MAX_RES_NEED
  <2>. TAKE n \in DOMAIN resultados'
  <2>1. resultados'[n] = IF n = need THEN docs ELSE resultados[n]
    BY <1>1, <1>domain, PutEntry
  <2>2. CASE n = need
    BY <1>2, <2>1, <2>2
  <2>3. CASE n # need
    <3>1. n \in DOMAIN resultados
      BY <1>domain, <2>3
    <3>. QED BY <2>1, <2>3, <3>1 DEF TypeOK
  <2>. QED BY <2>2, <2>3
<1>. QED BY <1>1, <1>3, <1>domain DEF TypeOK

LEMMA TypeStep == ASSUME TypeOK, ReportInv, [Next]_vars PROVE TypeOK'
<1>1. CASE UNCHANGED vars
  BY <1>1 DEF vars, inputs, TypeOK
<1>2. CASE \E need \in Need, doc \in DocId, relevante \in BOOLEAN :
              ReadJudgement(need, doc, relevante)
  BY <1>2, ReadJudgementType
<1>3. CASE \E need \in Need, doc \in DocId : ReadResult(need, doc)
  BY <1>3, ReadResultType
<1>4. CASE EndOfJudgements \/ ShortLine \/ Write \/ WriteFails
  BY <1>4 DEF EndOfJudgements, ShortLine, Write, WriteFails, Goes, inputs, TypeOK
<1>5. CASE EndOfResults
  <2>1. /\ pc = "results" /\ pc' = "evaluating" /\ left' = DOMAIN relevancias
        /\ UNCHANGED <<relevancias, resultados, evaluaciones, total, report>>
    BY <1>5 DEF EndOfResults, Goes, inputs
  <2>2. DOMAIN evaluaciones = {}
    BY <2>1 DEF ReportInv
  <2>. QED BY <2>1, <2>2 DEF TypeOK
<1>6. CASE \E need \in Need : NoResults(need) \/ SkipNeed(need) \/ FewResults(need)
  BY <1>6 DEF NoResults, SkipNeed, FewResults, Comes, inputs, TypeOK
<1>7. CASE \E need \in Need : EvaluateNeed(need)
  <2>1. PICK need \in left :
           /\ left' = left \ {need}
           /\ evaluaciones' =
                Put(evaluaciones, need, Evaluacion(resultados[need], relevancias[need]))
           /\ UNCHANGED <<pc, relevancias, resultados, total, report>>
    BY <1>7 DEF EvaluateNeed, Comes, inputs
  <2>2. DOMAIN evaluaciones' = DOMAIN evaluaciones \cup {need}
    BY <2>1, PutDomain
  <2>. QED BY <2>1, <2>2 DEF TypeOK
<1>8. CASE EvaluateTotal
  <2>1. /\ pc = "evaluating" /\ pc' = "writing" /\ total' = Total(evaluaciones)
        /\ UNCHANGED <<relevancias, resultados, left, evaluaciones, report>>
    BY <1>8 DEF EvaluateTotal, Goes, inputs
  <2>. QED BY <2>1, TotalIsThere DEF TypeOK
<1>. QED BY <1>1, <1>2, <1>3, <1>4, <1>5, <1>6, <1>7, <1>8 DEF Next

-------------------------------------------------------------------------------
(* The report. *)

LEMMA InitialReport == Init => ReportInv
BY DEF Init, ReportInv, NoEntries

LEMMA UnchangedInputs ==
    ASSUME UNCHANGED inputs
    PROVE  \A need : /\ Evaluable(need)' <=> Evaluable(need)
                     /\ Retrieves(need)' <=> Retrieves(need)
BY DEF Evaluable, Retrieves, inputs, Relevantes, Range

LEMMA ReportStep == ASSUME TypeOK, ReportInv, [Next]_vars PROVE ReportInv'
<1>. USE DEF ReportInv
<1>1. CASE UNCHANGED vars
  <2>1. UNCHANGED inputs
    BY <1>1 DEF vars
  <2>. QED BY <1>1, <2>1, UnchangedInputs DEF vars, inputs, LoopInv, Judged
<1>2. CASE \E need \in Need, doc \in DocId, relevante \in BOOLEAN :
              ReadJudgement(need, doc, relevante)
  <2>1. pc = "qrels" /\ pc' = "qrels" /\ UNCHANGED <<left, evaluaciones, report>>
    BY <1>2 DEF ReadJudgement, Goes
  <2>. QED BY <2>1
<1>3. CASE EndOfJudgements
  BY <1>3 DEF EndOfJudgements, Goes
<1>4. CASE \E need \in Need, doc \in DocId : ReadResult(need, doc)
  <2>1. pc = "results" /\ pc' = "results" /\ UNCHANGED <<left, evaluaciones, report>>
    BY <1>4 DEF ReadResult, Goes
  <2>. QED BY <2>1
<1>5. CASE EndOfResults
  <2>1. /\ pc = "results" /\ pc' = "evaluating" /\ left' = DOMAIN relevancias
        /\ UNCHANGED <<relevancias, evaluaciones, report>>
    BY <1>5 DEF EndOfResults, Goes, inputs
  <2>2. LoopInv'
    BY <2>1 DEF LoopInv, Judged
  <2>. QED BY <2>1, <2>2
<1>6. CASE ShortLine
  BY <1>6 DEF ShortLine
<1>7. CASE \E need \in Need : NoResults(need) \/ FewResults(need)
  <2>1. PICK need \in left :
           /\ ~Evaluable(need) /\ pc = "evaluating" /\ pc' = "failed"
           /\ UNCHANGED <<inputs, left, report>>
    BY <1>7, EvaluationAssumption DEF TypeOK, NoResults, FewResults, Comes, Evaluable
  <2>2. ~Evaluable(need)'
    BY <2>1, UnchangedInputs
  <2>. QED BY <2>1, <2>2 DEF inputs
<1>8. CASE \E need \in Need : SkipNeed(need)
  <2>1. PICK need \in left :
           /\ need \in DOMAIN resultados /\ ~Retrieves(need)
           /\ pc = "evaluating" /\ left' = left \ {need}
           /\ UNCHANGED <<pc, inputs, evaluaciones, report>>
    BY <1>8 DEF SkipNeed, Comes
  <2>2. Evaluable(need)
    BY <2>1 DEF Evaluable
  <2>3. Judged' = Judged \cup {need} /\ need \notin Judged
    BY <2>1 DEF Judged, inputs
  <2>4. LoopInv'
    BY <2>1, <2>2, <2>3, UnchangedInputs DEF LoopInv
  <2>. QED BY <2>1, <2>4 DEF inputs
<1>9. CASE \E need \in Need : EvaluateNeed(need)
  <2>1. PICK need \in left :
           /\ need \in DOMAIN resultados /\ Retrieves(need)
           /\ Len(resultados[need]) >= AtK
           /\ pc = "evaluating" /\ left' = left \ {need}
           /\ evaluaciones' =
                Put(evaluaciones, need, Evaluacion(resultados[need], relevancias[need]))
           /\ UNCHANGED <<pc, inputs, report>>
    BY <1>9 DEF EvaluateNeed, Comes
  <2>2. Evaluable(need)
    BY <2>1 DEF Evaluable
  <2>3. Judged' = Judged \cup {need} /\ need \notin Judged
    BY <2>1 DEF Judged, inputs
  <2>4. DOMAIN evaluaciones' = DOMAIN evaluaciones \cup {need}
    BY <2>1, PutDomain
  <2>5. LoopInv'
    BY <2>1, <2>2, <2>3, <2>4, UnchangedInputs DEF LoopInv
  <2>. QED BY <2>1, <2>5 DEF inputs
<1>10. CASE EvaluateTotal
  <2>1. /\ left = {} /\ pc = "evaluating" /\ pc' = "writing"
        /\ UNCHANGED <<inputs, left, evaluaciones, report>>
    BY <1>10 DEF EvaluateTotal, Goes
  <2>2. LoopInv'
    BY <2>1, UnchangedInputs DEF LoopInv, Judged, inputs
  <2>. QED BY <2>1, <2>2 DEF inputs
<1>11. CASE Write \/ WriteFails
  <2>1. /\ pc = "writing" /\ pc' = "done"
        /\ UNCHANGED <<inputs, left, evaluaciones>>
    BY <1>11 DEF Write, WriteFails, Goes
  <2>2. LoopInv'
    BY <2>1, UnchangedInputs DEF LoopInv, Judged, inputs
  <2>. QED BY <2>1, <2>2 DEF inputs
<1>. QED BY <1>1, <1>2, <1>3, <1>4, <1>5, <1>6, <1>7, <1>8, <1>9, <1>10, <1>11 DEF Next

LEMMA EvaluationInvariant == Spec => [](TypeOK /\ ReportInv)
<1>1. Init => TypeOK
  BY DEF Init, TypeOK, NoEntries
<1>. QED BY <1>1, InitialReport, TypeStep, ReportStep, PTL DEF Spec

(***************************************************************************)
(* Type correctness of the evaluation: every entry of the two maps has     *)
(* something in it, a list is never longer than MAX_RES_NEED, and there is *)
(* an entry TOTAL exactly when all the needs have been gone through.       *)
(***************************************************************************)
THEOREM TypeCorrect == Spec => []TypeOK
BY EvaluationInvariant, PTL

(***************************************************************************)
(* The report is written for all the judged needs or not at all: one need  *)
(* that cannot be evaluated leaves the file of an earlier evaluation as it *)
(* was, and what is missing from a whole report found nothing.             *)
(***************************************************************************)
THEOREM ReportIsForAllNeeds == Spec => []AllNeedsOrNoReport
<1>1. ReportInv => AllNeedsOrNoReport
  BY DEF ReportInv, AllNeedsOrNoReport, LoopInv, Judged
<1>. QED BY <1>1, EvaluationInvariant, PTL

-------------------------------------------------------------------------------
(* The measures of the evaluation program. *)

(***************************************************************************)
(* Inequalities are multiplied, and divided, by what is not zero.          *)
(***************************************************************************)
LEMMA TimesBoth ==
    ASSUME NEW a \in Nat, NEW b \in Nat, NEW c \in Nat, a <= b
    PROVE  a * c <= b * c
<1>1. PICK d \in Nat : b = a + d
  <2>1. b - a \in Nat /\ b = a + (b - a)
    OBVIOUS
  <2>. QED BY <2>1
<1>2. b * c = a * c + d * c
  BY <1>1
<1>3. d * c \in Nat /\ a * c \in Nat
  OBVIOUS
<1>. QED BY <1>2, <1>3

LEMMA OverBoth ==
    ASSUME NEW a \in Nat, NEW b \in Nat, NEW c \in Nat \ {0}, a * c <= b * c
    PROVE  a <= b
<1>. SUFFICES ASSUME b < a PROVE FALSE
  OBVIOUS
<1>1. PICK d \in Nat : a = (b + 1) + d
  <2>1. (a - b) - 1 \in Nat /\ a = (b + 1) + ((a - b) - 1)
    OBVIOUS
  <2>. QED BY <2>1
<1>2. a * c = b * c + c + d * c
  BY <1>1
<1>3. d * c \in Nat /\ b * c \in Nat
  OBVIOUS
<1>. QED BY <1>2, <1>3

(***************************************************************************)
(* a/x <= b/y <= c/z.                                                      *)
(***************************************************************************)
LEMMA QuotientsFollow ==
    ASSUME NEW a \in Nat, NEW x \in Nat, NEW b \in Nat, NEW y \in Nat \ {0},
           NEW c \in Nat, NEW z \in Nat, a * y <= b * x, b * z <= c * y
    PROVE  a * z <= c * x
<1>1. (a * y) * z <= (b * x) * z
  <2>1. a * y \in Nat /\ b * x \in Nat
    OBVIOUS
  <2>. QED BY <2>1, TimesBoth
<1>2. (b * z) * x <= (c * y) * x
  <2>1. b * z \in Nat /\ c * y \in Nat
    OBVIOUS
  <2>. QED BY <2>1, TimesBoth
<1>3. /\ (a * y) * z = (a * z) * y /\ (c * y) * x = (c * x) * y
      /\ (b * x) * z = (b * z) * x
  OBVIOUS
<1>4. (a * z) * y \in Nat /\ (c * x) * y \in Nat /\ (b * z) * x \in Nat
      /\ a * z \in Nat /\ c * x \in Nat
  OBVIOUS
<1>5. (a * z) * y <= (c * x) * y
  BY <1>1, <1>2, <1>3, <1>4
<1>. QED BY <1>4, <1>5, OverBoth

Fractions == [num : Nat, den : Nat \ {0}]

LEMMA FracIs ==
    ASSUME NEW n \in Nat, NEW d \in Nat \ {0}
    PROVE  Frac(n, d) \in Fractions /\ Frac(n, d).num = n /\ Frac(n, d).den = d
BY DEF Frac, Fractions

LEMMA LessEqFollows ==
    ASSUME NEW a \in Fractions, NEW b \in Fractions, NEW c \in Fractions,
           LessEq(a, b), LessEq(b, c)
    PROVE  LessEq(a, c)
<1>1. /\ a.num \in Nat /\ a.den \in Nat /\ b.num \in Nat /\ b.den \in Nat \ {0}
      /\ c.num \in Nat /\ c.den \in Nat
  BY DEF Fractions
<1>. QED BY <1>1, QuotientsFollow DEF LessEq

LEMMA LessEqTotal ==
    ASSUME NEW a \in Fractions, NEW b \in Fractions
    PROVE  LessEq(a, b) \/ LessEq(b, a)
<1>1. /\ a.num \in Nat /\ a.den \in Nat /\ b.num \in Nat /\ b.den \in Nat
  BY DEF Fractions
<1>2. a.num * b.den \in Nat /\ b.num * a.den \in Nat
  BY <1>1
<1>. QED BY <1>2 DEF LessEq

(***************************************************************************)
(* The principle that stands for induction: a set of naturals that is not  *)
(* empty has a least element.                                              *)
(***************************************************************************)
LEMMA LeastOf ==
    ASSUME NEW T, T \subseteq Nat, T # {}
    PROVE  \E x \in T : \A y \in T : x <= y
<1>1. PICK x \in T : \A y \in T : ~ (<<y, x>> \in OpToRel(<, Nat))
  BY NatLessThanWellFounded, WFMin
<1>2. \A y \in T : ~(y < x)
  BY <1>1 DEF OpToRel
<1>. QED BY <1>2

(***************************************************************************)
(* Among some of a sequence of fractions there is a greatest one.          *)
(***************************************************************************)
LEMMA GreatestOf ==
    ASSUME NEW n \in Nat, NEW s, \A k \in 1..n : s[k] \in Fractions,
           NEW S \in SUBSET (1..n), S # {}
    PROVE  \E k \in S : \A j \in S : LessEq(s[j], s[k])
<1>. DEFINE Has(R) == \E k \in R : \A j \in R : LessEq(s[j], s[k])
            T == {m \in 0..n : \E R \in SUBSET (1..m) : R # {} /\ ~Has(R)}
<1>. SUFFICES ASSUME ~Has(S) PROVE FALSE
  OBVIOUS
<1>1. n \in T
  OBVIOUS
<1>2. PICK m \in T : \A y \in T : m <= y
  <2>1. T \subseteq 0..n
    OBVIOUS
  <2>. HIDE DEF T
  <2>2. T \subseteq Nat /\ T # {}
    BY <1>1, <2>1
  <2>. QED BY <2>2, LeastOf
<1>3. PICK R \in SUBSET (1..m) : R # {} /\ ~Has(R)
  BY <1>2
<1>4. m \in 1..n
  <2>1. m \in 0..n
    BY <1>2
  <2>2. PICK j \in 1..m : j \in R
    BY <1>3
  <2>. QED BY <2>1, <2>2
<1>5. m - 1 \in 0..n /\ m - 1 \notin T
  <2>. HIDE DEF T
  <2>1. m - 1 \in 0..n /\ ~(m <= m - 1)
    BY <1>4
  <2>. QED BY <1>2, <2>1
<1>. DEFINE Q == R \ {m}
<1>6. Q \in SUBSET (1..(m - 1))
  BY <1>3, <1>4
<1>7. Q = {} \/ Has(Q)
  BY <1>5, <1>6
<1>8. s[m] \in Fractions /\ \A j \in R : s[j] \in Fractions
  BY <1>3, <1>4
<1>9. LessEq(s[m], s[m])
  BY <1>8, LessEqTotal
<1>10. m \in R
  <2>1. m \notin R => Q = R
    OBVIOUS
  <2>. QED BY <2>1, <1>3, <1>7
<1>11. CASE Q = {}
  <2>1. R = {m}
    BY <1>10, <1>11
  <2>. QED BY <2>1, <1>3, <1>9
<1>12. CASE Has(Q)
  <2>1. PICK k \in Q : \A j \in Q : LessEq(s[j], s[k])
    BY <1>12
  <2>2. k \in R /\ s[k] \in Fractions
    BY <2>1, <1>8
  <2>3. CASE LessEq(s[m], s[k])
    <3>1. \A j \in R : LessEq(s[j], s[k])
      BY <2>1, <2>3
    <3>. QED BY <2>2, <3>1, <1>3
  <2>4. CASE LessEq(s[k], s[m])
    <3>1. \A j \in Q : LessEq(s[j], s[m])
      BY <2>1, <2>2, <2>4, <1>8, LessEqFollows
    <3>2. \A j \in R : LessEq(s[j], s[m])
      BY <3>1, <1>9
    <3>. QED BY <3>2, <1>3, <1>10
  <2>. QED BY <2>2, <2>3, <2>4, <1>8, LessEqTotal
<1>. QED BY <1>7, <1>11, <1>12

(***************************************************************************)
(* The sums of the beginnings of a sequence of fractions.                  *)
(***************************************************************************)
AreSums(M, fracs) ==
    M = [k \in 0..Len(fracs) |-> IF k = 0 THEN Frac(0, 1) ELSE Plus(M[k - 1], fracs[k])]

LEMMA SumsExist ==
    ASSUME NEW fracs, Len(fracs) \in Nat
    PROVE  \E M : AreSums(M, fracs)
<1>. DEFINE Are(M, n) == M = [k \in 0..n |-> IF k = 0 THEN Frac(0, 1)
                                              ELSE Plus(M[k - 1], fracs[k])]
            T == {n \in Nat : ~ \E M : Are(M, n)}
<1>. SUFFICES ASSUME T # {} PROVE FALSE
  <2>1. T = {} => \E M : Are(M, Len(fracs))
    OBVIOUS
  <2>. HIDE DEF T
  <2>. QED BY <2>1 DEF AreSums
<1>1. PICK m \in T : \A y \in T : m <= y
  <2>1. T \subseteq Nat
    OBVIOUS
  <2>. HIDE DEF T
  <2>. QED BY <2>1, LeastOf
<1>2. m # 0
  <2>. DEFINE M == [k \in 0..0 |-> Frac(0, 1)]
  <2>1. Are(M, 0)
    OBVIOUS
  <2>. HIDE DEF M, Are
  <2>. QED BY <2>1, <1>1
<1>3. m \in Nat /\ m - 1 \in Nat /\ ~(m <= m - 1)
  BY <1>1, <1>2
<1>4. PICK M : Are(M, m - 1)
  <2>. HIDE DEF Are
  <2>. QED BY <1>1, <1>3
<1>. DEFINE N == [k \in 0..m |-> IF k = m THEN Plus(M[m - 1], fracs[m]) ELSE M[k]]
<1>5. ASSUME NEW k \in 0..m
      PROVE  N[k] = IF k = 0 THEN Frac(0, 1) ELSE Plus(N[k - 1], fracs[k])
  <2>1. CASE k = m
    <3>1. m - 1 \in 0..m /\ m - 1 # m /\ N[m - 1] = M[m - 1]
      BY <1>3
    <3>. QED BY <2>1, <1>2, <3>1
  <2>2. CASE k # m /\ k # 0
    <3>1. k \in 0..(m - 1) /\ k - 1 \in 0..m /\ k - 1 # m
      BY <2>2, <1>3
    <3>2. M[k] = Plus(M[k - 1], fracs[k])
      BY <2>2, <3>1, <1>4
    <3>. QED BY <2>2, <3>1, <3>2
  <2>3. CASE k # m /\ k = 0
    <3>1. M[0] = Frac(0, 1)
      BY <1>3, <1>4
    <3>. QED BY <2>3, <3>1
  <2>. QED BY <2>1, <2>2, <2>3
<1>6. N = [k \in 0..m |-> N[k]]
  OBVIOUS
<1>. HIDE DEF N
<1>7. Are(N, m)
  BY <1>5, <1>6
<1>. HIDE DEF Are
<1>. QED BY <1>1, <1>7

LEMMA SumIs ==
    ASSUME NEW fracs, Len(fracs) \in Nat
    PROVE  \E M : AreSums(M, fracs) /\ SumOf(fracs) = M[Len(fracs)]
<1>. DEFINE M == CHOOSE M : AreSums(M, fracs)
<1>1. AreSums(M, fracs)
  BY SumsExist
<1>2. SumOf(fracs) = M[Len(fracs)]
  BY DEF SumOf, AreSums
<1>. QED BY <1>1, <1>2

(***************************************************************************)
(* A mean goes on between the least and the greatest: a/b, the sum of k,   *)
(* is no more than k times c/d; then that and e/g is no more than k + 1    *)
(* times the greater of c/d and e/g.  And the other way round.             *)
(***************************************************************************)
LEMMA MeanGoesOn ==
    ASSUME NEW a \in Nat, NEW b \in Nat \ {0}, NEW c \in Nat, NEW d \in Nat \ {0},
           NEW e \in Nat, NEW g \in Nat \ {0}, NEW k \in Nat
    PROVE  /\ a * d <= c * (b * k) /\ e * d <= c * g
                => (a * g + e * b) * d <= c * ((b * g) * (k + 1))
           /\ a * d <= c * (b * k) /\ c * g <= e * d
                => (a * g + e * b) * g <= e * ((b * g) * (k + 1))
           /\ c * (b * k) <= a * d /\ c * g <= e * d
                => c * ((b * g) * (k + 1)) <= (a * g + e * b) * d
           /\ c * (b * k) <= a * d /\ e * d <= c * g
                => e * ((b * g) * (k + 1)) <= (a * g + e * b) * g
<1>. DEFINE ad == a * d
            cbk == c * (b * k)
            ed == e * d
            cg == c * g
<1>1. ad \in Nat /\ cbk \in Nat /\ ed \in Nat /\ cg \in Nat
  OBVIOUS
<1>2. /\ (a * g + e * b) * d = ad * g + ed * b
      /\ c * ((b * g) * (k + 1)) = cbk * g + cg * b
  OBVIOUS
<1>3. /\ ad * g \in Nat /\ ed * b \in Nat /\ cbk * g \in Nat /\ cg * b \in Nat
  BY <1>1
<1>4. /\ a * g \in Nat /\ e * b \in Nat /\ e * (b * k) \in Nat /\ (a * g) * g \in Nat
      /\ (e * b) * g \in Nat /\ (e * (b * k)) * g \in Nat
  OBVIOUS
<1>5. /\ (a * g + e * b) * g = (a * g) * g + (e * b) * g
      /\ e * ((b * g) * (k + 1)) = (e * (b * k)) * g + (e * b) * g
  OBVIOUS
<1>6. b * k \in Nat
  OBVIOUS
<1>7. ad <= cbk /\ ed <= cg => ad * g + ed * b <= cbk * g + cg * b
  <2>. HIDE DEF ad, cbk, ed, cg
  <2>. SUFFICES ASSUME ad <= cbk, ed <= cg PROVE ad * g + ed * b <= cbk * g + cg * b
    OBVIOUS
  <2>1. ad * g <= cbk * g /\ ed * b <= cg * b
    BY <1>1, TimesBoth
  <2>. QED BY <1>3, <2>1
<1>8. cbk <= ad /\ cg <= ed => cbk * g + cg * b <= ad * g + ed * b
  <2>. HIDE DEF ad, cbk, ed, cg
  <2>. SUFFICES ASSUME cbk <= ad, cg <= ed PROVE cbk * g + cg * b <= ad * g + ed * b
    OBVIOUS
  <2>1. cbk * g <= ad * g /\ cg * b <= ed * b
    BY <1>1, TimesBoth
  <2>. QED BY <1>3, <2>1
<1>9. a * d <= c * (b * k) /\ c * g <= e * d => a * g <= e * (b * k)
  BY <1>6, QuotientsFollow
<1>10. c * (b * k) <= a * d /\ e * d <= c * g => e * (b * k) <= a * g
  BY <1>6, QuotientsFollow
<1>11. a * g <= e * (b * k) => (a * g) * g <= (e * (b * k)) * g
  BY <1>4, TimesBoth
<1>12. e * (b * k) <= a * g => (e * (b * k)) * g <= (a * g) * g
  BY <1>4, TimesBoth
<1>13. a * d <= c * (b * k) /\ e * d <= c * g
         => (a * g + e * b) * d <= c * ((b * g) * (k + 1))
  BY <1>2, <1>7
<1>14. c * (b * k) <= a * d /\ c * g <= e * d
         => c * ((b * g) * (k + 1)) <= (a * g + e * b) * d
  BY <1>2, <1>8
<1>15. a * d <= c * (b * k) /\ c * g <= e * d
         => (a * g + e * b) * g <= e * ((b * g) * (k + 1))
  BY <1>4, <1>5, <1>9, <1>11
<1>16. c * (b * k) <= a * d /\ e * d <= c * g
         => e * ((b * g) * (k + 1)) <= (a * g + e * b) * g
  BY <1>4, <1>5, <1>10, <1>12
<1>. QED BY <1>13, <1>14, <1>15, <1>16

(***************************************************************************)
(* A mean is between two of what it is the mean of.                        *)
(***************************************************************************)
LEMMA MeanIsBetween ==
    ASSUME NEW fracs, NEW n \in Nat \ {0}, Len(fracs) = n,
           \A k \in 1..n : fracs[k] \in Fractions
    PROVE  /\ MeanOf(fracs) \in Fractions
           /\ \E i \in 1..n : LessEq(fracs[i], MeanOf(fracs))
           /\ \E j \in 1..n : LessEq(MeanOf(fracs), fracs[j])
<1>1. PICK M : AreSums(M, fracs) /\ SumOf(fracs) = M[n]
  BY SumIs
<1>2. M[0] = Frac(0, 1) /\ \A k \in 1..n : M[k] = Plus(M[k - 1], fracs[k])
  <2>1. n \in Nat
    OBVIOUS
  <2>2. \A k \in 0..n : M[k] = IF k = 0 THEN Frac(0, 1) ELSE Plus(M[k - 1], fracs[k])
    BY <1>1 DEF AreSums
  <2>. QED BY <2>1, <2>2
<1>. DEFINE Good(k) == /\ M[k] \in Fractions
                       /\ \E i \in 1..n : fracs[i].num * (M[k].den * k) <= M[k].num * fracs[i].den
                       /\ \E j \in 1..n : M[k].num * fracs[j].den <= fracs[j].num * (M[k].den * k)
            T == {k \in 0..n : ~Good(k)}
<1>3. Good(0)
  <2>1. M[0] \in Fractions /\ M[0].num = 0 /\ M[0].den = 1
    BY <1>2, FracIs
  <2>2. 1 \in 1..n /\ fracs[1].num \in Nat /\ fracs[1].den \in Nat
    BY DEF Fractions
  <2>3. fracs[1].num * (1 * 0) <= 0 * fracs[1].den /\ 0 * fracs[1].den <= fracs[1].num * (1 * 0)
    BY <2>2
  <2>. QED BY <2>1, <2>2, <2>3
<1>4. ASSUME NEW k \in 0..(n - 1), Good(k) PROVE Good(k + 1)
  <2>. DEFINE a == M[k].num
              b == M[k].den
              e == fracs[k + 1].num
              g == fracs[k + 1].den
  <2>1. k + 1 \in 1..n /\ (k + 1) - 1 = k /\ k \in Nat
    OBVIOUS
  <2>2. /\ a \in Nat /\ b \in Nat \ {0} /\ e \in Nat /\ g \in Nat \ {0}
    BY <1>4, <2>1 DEF Fractions
  <2>3. M[k + 1] = Frac(a * g + e * b, b * g)
    BY <1>2, <2>1 DEF Plus
  <2>. HIDE DEF a, b, e, g
  <2>4. a * g + e * b \in Nat /\ b * g \in Nat \ {0}
    BY <2>2
  <2>5. M[k + 1] \in Fractions /\ M[k + 1].num = a * g + e * b /\ M[k + 1].den = b * g
    BY <2>3, <2>4, FracIs
  <2>6. \E i \in 1..n : fracs[i].num * ((b * g) * (k + 1)) <= (a * g + e * b) * fracs[i].den
    <3>1. PICK i \in 1..n : fracs[i].num * (b * k) <= a * fracs[i].den
      BY <1>4 DEF a, b
    <3>. DEFINE c == fracs[i].num
                d == fracs[i].den
    <3>2. c \in Nat /\ d \in Nat \ {0} /\ c * (b * k) <= a * d
      BY <3>1 DEF Fractions
    <3>. HIDE DEF c, d
    <3>3. c * g \in Nat /\ e * d \in Nat
      BY <2>2, <3>2
    <3>4. CASE c * g <= e * d
      <4>1. c * ((b * g) * (k + 1)) <= (a * g + e * b) * d
        BY <2>1, <2>2, <3>2, <3>4, MeanGoesOn
      <4>. QED BY <4>1 DEF c, d
    <3>5. CASE e * d <= c * g
      <4>1. e * ((b * g) * (k + 1)) <= (a * g + e * b) * g
        BY <2>1, <2>2, <3>2, <3>5, MeanGoesOn
      <4>. QED BY <2>1, <4>1 DEF e, g
    <3>. QED BY <3>3, <3>4, <3>5
  <2>7. \E j \in 1..n : (a * g + e * b) * fracs[j].den <= fracs[j].num * ((b * g) * (k + 1))
    <3>1. PICK i \in 1..n : a * fracs[i].den <= fracs[i].num * (b * k)
      BY <1>4 DEF a, b
    <3>. DEFINE c == fracs[i].num
                d == fracs[i].den
    <3>2. c \in Nat /\ d \in Nat \ {0} /\ a * d <= c * (b * k)
      BY <3>1 DEF Fractions
    <3>. HIDE DEF c, d
    <3>3. c * g \in Nat /\ e * d \in Nat
      BY <2>2, <3>2
    <3>4. CASE e * d <= c * g
      <4>1. (a * g + e * b) * d <= c * ((b * g) * (k + 1))
        BY <2>1, <2>2, <3>2, <3>4, MeanGoesOn
      <4>. QED BY <4>1 DEF c, d
    <3>5. CASE c * g <= e * d
      <4>1. (a * g + e * b) * g <= e * ((b * g) * (k + 1))
        BY <2>1, <2>2, <3>2, <3>5, MeanGoesOn
      <4>. QED BY <2>1, <4>1 DEF e, g
    <3>. QED BY <3>3, <3>4, <3>5
  <2>. QED BY <2>5, <2>6, <2>7
<1>5. Good(n)
  <2>. SUFFICES ASSUME ~Good(n) PROVE FALSE
    OBVIOUS
  <2>. HIDE DEF Good
  <2>1. T \subseteq Nat /\ T # {}
    <3>1. n \in T
      OBVIOUS
    <3>. QED BY <3>1
  <2>2. PICK m \in T : \A y \in T : m <= y
    <3>. HIDE DEF T
    <3>. QED BY <2>1, LeastOf
  <2>3. m \in 0..n /\ ~Good(m) /\ m # 0
    BY <2>2, <1>3
  <2>4. m - 1 \in 0..(n - 1) /\ (m - 1) + 1 = m /\ m - 1 \in 0..n /\ ~(m <= m - 1)
    BY <2>3
  <2>5. Good(m - 1)
    BY <2>2, <2>4
  <2>. QED BY <2>3, <2>4, <2>5, <1>4
<1>. DEFINE s == M[n].num
            t == M[n].den
<1>6. s \in Nat /\ t \in Nat \ {0} /\ MeanOf(fracs) = Frac(s, t * n)
  BY <1>1, <1>5 DEF MeanOf, Fractions
<1>7. t * n \in Nat \ {0}
  <2>. HIDE DEF t, s
  <2>. QED BY <1>6
<1>8. MeanOf(fracs) \in Fractions /\ MeanOf(fracs).num = s /\ MeanOf(fracs).den = t * n
  BY <1>6, <1>7, FracIs
<1>. QED BY <1>5, <1>8 DEF LessEq

(***************************************************************************)
(* The relevant ones among the first results, counted.                     *)
(***************************************************************************)
LEMMA RelevantIs ==
    ASSUME NEW rel, NEW doc
    PROVE  EsRelevante(rel, doc) <=> doc \in Relevantes(rel)
BY DEF EsRelevante, Relevantes

LEMMA HitsAre ==
    ASSUME NEW rec, NEW rel, NEW k \in Nat
    PROVE  /\ IsFiniteSet(PositivosTrue(rec, rel, k))
           /\ Cardinality(PositivosTrue(rec, rel, k)) \in 0..k
<1>1. IsFiniteSet(1..k) /\ Cardinality(1..k) = k
  BY FS_Interval
<1>2. PositivosTrue(rec, rel, k) \subseteq 1..k
  BY DEF PositivosTrue
<1>3. /\ IsFiniteSet(PositivosTrue(rec, rel, k))
      /\ Cardinality(PositivosTrue(rec, rel, k)) <= Cardinality(1..k)
  BY <1>1, <1>2, FS_Subset
<1>4. Cardinality(PositivosTrue(rec, rel, k)) \in Nat
  BY <1>3, FS_CardinalityType
<1>. QED BY <1>1, <1>3, <1>4

LEMMA NoHitsYet ==
    ASSUME NEW rec, NEW rel
    PROVE  Cardinality(PositivosTrue(rec, rel, 0)) = 0
<1>1. Cardinality(PositivosTrue(rec, rel, 0)) \in 0..0
  BY HitsAre
<1>. QED BY <1>1

LEMMA HitsGoOn ==
    ASSUME NEW rec, NEW rel, NEW k \in Nat
    PROVE  Cardinality(PositivosTrue(rec, rel, k + 1))
             = IF EsRelevante(rel, rec[k + 1]) THEN Cardinality(PositivosTrue(rec, rel, k)) + 1
               ELSE Cardinality(PositivosTrue(rec, rel, k))
<1>1. \A i : i \in 1..(k + 1) <=> i \in 1..k \/ i = k + 1
  OBVIOUS
<1>2. k + 1 \notin 1..k
  OBVIOUS
<1>3. CASE EsRelevante(rel, rec[k + 1])
  <2>1. PositivosTrue(rec, rel, k + 1) = PositivosTrue(rec, rel, k) \cup {k + 1}
    BY <1>1, <1>3 DEF PositivosTrue
  <2>2. k + 1 \notin PositivosTrue(rec, rel, k)
    BY <1>2 DEF PositivosTrue
  <2>3. IsFiniteSet(PositivosTrue(rec, rel, k))
    BY HitsAre
  <2>. QED BY <1>3, <2>1, <2>2, <2>3, FS_AddElement
<1>4. CASE ~EsRelevante(rel, rec[k + 1])
  <2>1. PositivosTrue(rec, rel, k + 1) = PositivosTrue(rec, rel, k)
    BY <1>1, <1>4 DEF PositivosTrue
  <2>. QED BY <1>4, <2>1
<1>. QED BY <1>3, <1>4

(***************************************************************************)
(* The k-th of them is at some rank.                                       *)
(***************************************************************************)
LEMMA RankExists ==
    ASSUME NEW rec, NEW rel, NEW n \in Nat,
           NEW k \in 1..Cardinality(PositivosTrue(rec, rel, n))
    PROVE  \E i \in PositivosTrue(rec, rel, n) : Cardinality(PositivosTrue(rec, rel, i)) = k
<1>. DEFINE C(i) == Cardinality(PositivosTrue(rec, rel, i))
            T == {i \in 0..n : C(i) >= k}
<1>1. C(n) \in 0..n /\ k \in 1..C(n) /\ k \in Nat
  BY HitsAre
<1>. HIDE DEF C
<1>2. n \in T
  BY <1>1
<1>3. PICK i \in T : \A y \in T : i <= y
  <2>1. T \subseteq Nat /\ T # {}
    BY <1>2
  <2>. HIDE DEF T
  <2>. QED BY <2>1, LeastOf
<1>4. C(0) = 0
  BY NoHitsYet DEF C
<1>5. i \in 1..n /\ C(i) >= k
  BY <1>1, <1>3, <1>4
<1>6. i - 1 \in 0..n /\ i - 1 \notin T /\ (i - 1) + 1 = i /\ i - 1 \in Nat
  <2>1. i - 1 \in 0..n /\ ~(i <= i - 1) /\ (i - 1) + 1 = i /\ i - 1 \in Nat
    BY <1>5
  <2>. QED BY <1>3, <2>1
<1>7. C(i - 1) \in 0..(i - 1) /\ C(i) \in 0..i
  BY <1>5, <1>6, HitsAre DEF C
<1>8. C(i - 1) < k
  BY <1>1, <1>6, <1>7
<1>9. C(i) = IF EsRelevante(rel, rec[i]) THEN C(i - 1) + 1 ELSE C(i - 1)
  BY <1>6, HitsGoOn DEF C
<1>10. EsRelevante(rel, rec[i]) /\ C(i) = k
  BY <1>1, <1>5, <1>7, <1>8, <1>9
<1>11. i \in PositivosTrue(rec, rel, n)
  BY <1>5, <1>10 DEF PositivosTrue
<1>. QED BY <1>10, <1>11 DEF C

LEMMA RanksAre ==
    ASSUME NEW rec, NEW rel, NEW n \in Nat, Len(rec) = n
    PROVE  LET all == PositivosTrue(rec, rel, n)
               s == Ranks(rec, rel)
           IN  /\ Len(s) = Cardinality(all) /\ Len(s) \in 0..n
               /\ \A k \in 1..Len(s) :
                    /\ s[k] \in 1..n /\ EsRelevante(rel, rec[s[k]])
                    /\ Cardinality(PositivosTrue(rec, rel, s[k])) = k
                    /\ k <= s[k]
<1>. DEFINE all == PositivosTrue(rec, rel, n)
            s == Ranks(rec, rel)
            m == Cardinality(all)
<1>1. m \in 0..n
  BY HitsAre
<1>2. s = [k \in 1..m |-> CHOOSE i \in all : Cardinality(PositivosTrue(rec, rel, i)) = k]
  BY DEF Ranks
<1>3. Len(s) = m
  <2>. HIDE DEF m, all, s
  <2>1. m \in Nat
    BY <1>1
  <2>. QED BY <1>2, <2>1
<1>4. ASSUME NEW k \in 1..m
      PROVE  /\ s[k] \in 1..n /\ EsRelevante(rel, rec[s[k]])
             /\ Cardinality(PositivosTrue(rec, rel, s[k])) = k
             /\ k <= s[k]
  <2>1. \E i \in all : Cardinality(PositivosTrue(rec, rel, i)) = k
    BY RankExists
  <2>2. s[k] = CHOOSE i \in all : Cardinality(PositivosTrue(rec, rel, i)) = k
    BY <1>2
  <2>3. s[k] \in all /\ Cardinality(PositivosTrue(rec, rel, s[k])) = k
    <3>. HIDE DEF all, s
    <3>. QED BY <2>1, <2>2
  <2>4. s[k] \in 1..n /\ EsRelevante(rel, rec[s[k]])
    BY <2>3 DEF PositivosTrue
  <2>. HIDE DEF s
  <2>5. s[k] \in Nat
    BY <2>4
  <2>6. k \in 0..s[k]
    BY <2>3, <2>5, HitsAre
  <2>. QED BY <2>3, <2>4, <2>5, <2>6
<1>. QED BY <1>1, <1>3, <1>4

(***************************************************************************)
(* The documents that are found among the first results, each once.        *)
(***************************************************************************)
Docs(rec, rel, n) == Relevantes(rel) \cap {rec[i] : i \in 1..n}

LEMMA DocsAre ==
    ASSUME NEW rec, NEW rel, NEW n \in Nat
    PROVE  LET P == PositivosTrue(rec, rel, n)
               D == Docs(rec, rel, n)
           IN  /\ IsFiniteSet(D) /\ Cardinality(D) \in 0..Cardinality(P)
               /\ Cardinality(D) = Cardinality(P)
                    <=> \A i, j \in P : rec[i] = rec[j] => i = j
<1>. DEFINE P == PositivosTrue(rec, rel, n)
            D == Docs(rec, rel, n)
            f == [i \in P |-> rec[i]]
<1>1. IsFiniteSet(P)
  BY HitsAre
<1>2. \A i \in P : rec[i] \in D
  BY RelevantIs DEF PositivosTrue, Docs
<1>3. \A d \in D : \E i \in P : rec[i] = d
  BY RelevantIs DEF PositivosTrue, Docs
<1>4. f \in Surjection(P, D)
  <2>. HIDE DEF P, D
  <2>. QED BY <1>2, <1>3 DEF Surjection
<1>5. /\ IsFiniteSet(D) /\ Cardinality(D) <= Cardinality(P)
      /\ Cardinality(D) = Cardinality(P) <=> f \in Injection(P, D)
  <2>. HIDE DEF P, D, f
  <2>. QED BY <1>1, <1>4, FS_Surjection
<1>6. f \in Injection(P, D) <=> \A i, j \in P : rec[i] = rec[j] => i = j
  <2>. HIDE DEF P, D
  <2>. QED BY <1>2 DEF Injection, IsInjective
<1>7. Cardinality(D) \in Nat /\ Cardinality(P) \in Nat
  BY <1>1, <1>5, FS_CardinalityType
<1>. QED BY <1>5, <1>6, <1>7

(***************************************************************************)
(* The measures of a need that finds something, in numbers: n results, p   *)
(* of them relevant, f different documents among these, size relevant ones *)
(* in all.                                                                 *)
(***************************************************************************)
FindsSomething(rec, rel) ==
    /\ rec \in Seq(DocId) /\ Len(rec) >= AtK
    /\ IsFiniteSet(DOMAIN rel)
    /\ Relevantes(rel) \cap Range(rec) # {}

LEMMA NumbersAre ==
    ASSUME NEW rec, NEW rel, FindsSomething(rec, rel)
    PROVE  LET n    == Len(rec)
               p    == Cardinality(PositivosTrue(rec, rel, n))
               f    == Cardinality(Docs(rec, rel, n))
               size == Cardinality(Relevantes(rel))
           IN  /\ n \in Nat \ {0} /\ p \in 1..n /\ f \in 1..p
               /\ size \in Nat \ {0} /\ f \in 1..size
               /\ Docs(rec, rel, n) = Relevantes(rel) \cap Range(rec)
<1>. DEFINE n == Len(rec)
            p == Cardinality(PositivosTrue(rec, rel, n))
            D == Docs(rec, rel, n)
            f == Cardinality(D)
            R == Relevantes(rel)
            size == Cardinality(R)
<1>1. n \in Nat /\ DOMAIN rec = 1..n
  BY DEF FindsSomething
<1>2. D = R \cap Range(rec)
  BY <1>1 DEF Docs, Range
<1>3. D # {} /\ D \subseteq R
  BY <1>2 DEF FindsSomething
<1>4. IsFiniteSet(R) /\ size \in Nat
  <2>1. IsFiniteSet(DOMAIN rel) /\ R \subseteq DOMAIN rel
    BY DEF FindsSomething, Relevantes
  <2>2. IsFiniteSet(R)
    <3>. HIDE DEF R
    <3>. QED BY <2>1, FS_Subset
  <2>. HIDE DEF R
  <2>. QED BY <2>2, FS_CardinalityType
<1>5. p \in 0..n
  BY <1>1, HitsAre
<1>6. IsFiniteSet(D) /\ f \in 0..p
  BY <1>1, DocsAre
<1>. HIDE DEF n, p, D, R
<1>7. f \in Nat /\ f # 0 /\ f <= size
  <2>1. f \in Nat /\ f # 0
    BY <1>3, <1>6, FS_EmptySet, FS_CardinalityType
  <2>2. f <= size
    BY <1>3, <1>4, FS_Subset
  <2>. QED BY <2>1, <2>2
<1>8. n \in Nat \ {0} /\ p \in 1..n /\ f \in 1..p /\ size \in Nat \ {0} /\ f \in 1..size
  <2>. HIDE DEF f, size
  <2>. QED BY <1>1, <1>4, <1>5, <1>6, <1>7
<1>. QED BY <1>2, <1>8 DEF n, p, D, R

LEMMA PrecisionsAre ==
    ASSUME NEW rec, NEW rel, FindsSomething(rec, rel)
    PROVE  LET p == Cardinality(PositivosTrue(rec, rel, Len(rec)))
               s == Precisiones(rec, rel)
           IN  /\ Len(s) = p
               /\ \A k \in 1..p : /\ Ranks(rec, rel)[k] \in 1..Len(rec)
                                  /\ s[k] = Frac(k, Ranks(rec, rel)[k]) /\ s[k] \in Fractions
                                  /\ LessEq(s[k], Frac(1, 1))
                                  /\ s[k] = PrecisionAtK(rec, rel, Ranks(rec, rel)[k])
<1>. DEFINE n == Len(rec)
            p == Cardinality(PositivosTrue(rec, rel, n))
            s == Precisiones(rec, rel)
            r == Ranks(rec, rel)
<1>1. n \in Nat \ {0} /\ p \in 1..n
  BY NumbersAre
<1>2. /\ Len(r) = p
      /\ \A k \in 1..p : /\ r[k] \in 1..n /\ k <= r[k]
                         /\ Cardinality(PositivosTrue(rec, rel, r[k])) = k
  BY <1>1, RanksAre
<1>3. s = [k \in 1..p |-> Frac(k, r[k])]
  BY <1>2 DEF Precisiones
<1>. HIDE DEF p, r, s
<1>4. Len(s) = p
  BY <1>1, <1>3
<1>5. ASSUME NEW k \in 1..p
      PROVE  /\ r[k] \in 1..n /\ s[k] = Frac(k, r[k]) /\ s[k] \in Fractions
             /\ LessEq(s[k], Frac(1, 1)) /\ s[k] = PrecisionAtK(rec, rel, r[k])
  <2>1. k \in Nat /\ r[k] \in Nat \ {0} /\ k <= r[k] /\ r[k] \in 1..n
    BY <1>1, <1>2
  <2>2. s[k] = Frac(k, r[k])
    BY <1>3
  <2>3. s[k] \in Fractions /\ s[k].num = k /\ s[k].den = r[k]
    BY <2>1, <2>2, FracIs
  <2>4. LessEq(s[k], Frac(1, 1))
    BY <2>1, <2>3, FracIs DEF LessEq
  <2>5. s[k] = PrecisionAtK(rec, rel, r[k])
    BY <1>2, <2>2 DEF PrecisionAtK
  <2>. QED BY <2>1, <2>2, <2>3, <2>4, <2>5
<1>. QED BY <1>4, <1>5 DEF p, r, s

LEMMA PointsAre ==
    ASSUME NEW rec, NEW rel, FindsSomething(rec, rel)
    PROVE  LET f    == Cardinality(Docs(rec, rel, Len(rec)))
               size == Cardinality(Relevantes(rel))
               s    == PuntosPR(rec, rel)
           IN  /\ Len(s) = f
               /\ \A k \in 1..f : /\ s[k].recall = Frac(k, size)
                                  /\ s[k].precision = Precisiones(rec, rel)[k]
               /\ Last(s).recall = Frac(f, size)
<1>. DEFINE n == Len(rec)
            D == Docs(rec, rel, n)
            f == Cardinality(D)
            size == Cardinality(Relevantes(rel))
            s == PuntosPR(rec, rel)
<1>1. f \in Nat \ {0} /\ D = Relevantes(rel) \cap Range(rec)
  <2>1. n \in Nat /\ Cardinality(PositivosTrue(rec, rel, n)) \in Nat
        /\ f \in 1..Cardinality(PositivosTrue(rec, rel, n))
    BY NumbersAre
  <2>2. f \in Nat \ {0}
    <3>. HIDE DEF f
    <3>. QED BY <2>1
  <2>. QED BY <2>2, NumbersAre
<1>2. s = [k \in 1..f |-> [recall |-> Frac(k, size), precision |-> Precisiones(rec, rel)[k]]]
  BY <1>1 DEF PuntosPR
<1>. HIDE DEF f, D, s, size
<1>3. Len(s) = f
  BY <1>1, <1>2
<1>4. \A k \in 1..f : s[k].recall = Frac(k, size) /\ s[k].precision = Precisiones(rec, rel)[k]
  BY <1>2
<1>5. Last(s).recall = Frac(f, size)
  <2>1. f \in 1..f
    BY <1>1
  <2>. QED BY <1>3, <1>4, <2>1 DEF Last
<1>. QED BY <1>3, <1>4, <1>5 DEF f, D, s, size

(***************************************************************************)
(* The average precision is between two of the precisions.                 *)
(***************************************************************************)
LEMMA AverageIs ==
    ASSUME NEW rec, NEW rel, FindsSomething(rec, rel)
    PROVE  LET s == Precisiones(rec, rel)
               a == AvgPrecision(rec, rel)
           IN  /\ a \in Fractions /\ LessEq(a, Frac(1, 1))
               /\ \E i, j \in 1..Len(s) : LessEq(s[i], a) /\ LessEq(a, s[j])
<1>. DEFINE p == Cardinality(PositivosTrue(rec, rel, Len(rec)))
            r == Ranks(rec, rel)
            s == Precisiones(rec, rel)
            t == [k \in 1..Len(r) |-> PrecisionAtK(rec, rel, r[k])]
            a == AvgPrecision(rec, rel)
<1>1. p \in Nat \ {0} /\ Len(r) = p
  <2>1. Len(rec) \in Nat /\ p \in 1..Len(rec)
    BY NumbersAre
  <2>2. Len(r) = p
    BY <2>1, RanksAre
  <2>. HIDE DEF p, r
  <2>. QED BY <2>1, <2>2
<1>2. /\ Len(s) = p
      /\ \A k \in 1..p : s[k] \in Fractions /\ s[k] = PrecisionAtK(rec, rel, r[k])
                         /\ LessEq(s[k], Frac(1, 1))
  BY PrecisionsAre
<1>3. a = MeanOf(t)
  BY DEF AvgPrecision
<1>. HIDE DEF p, r, s
<1>4. Len(t) = p /\ \A k \in 1..p : t[k] = s[k]
  BY <1>1, <1>2
<1>. HIDE DEF t
<1>5. /\ MeanOf(t) \in Fractions
      /\ \E i \in 1..p : LessEq(t[i], MeanOf(t))
      /\ \E j \in 1..p : LessEq(MeanOf(t), t[j])
  BY <1>1, <1>2, <1>4, MeanIsBetween
<1>. HIDE DEF a
<1>6. PICK i \in 1..p, j \in 1..p : LessEq(s[i], a) /\ LessEq(a, s[j])
  BY <1>3, <1>4, <1>5
<1>7. a \in Fractions /\ Frac(1, 1) \in Fractions
  BY <1>3, <1>5, FracIs
<1>8. LessEq(a, Frac(1, 1))
  BY <1>2, <1>6, <1>7, LessEqFollows
<1>. QED BY <1>2, <1>6, <1>7, <1>8 DEF a, s

LEMMA EvaluationIs ==
    ASSUME NEW rec, NEW rel
    PROVE  LET e == Evaluacion(rec, rel)
               s == PuntosPR(rec, rel)
           IN  /\ e.precision = Precision(rec, rel) /\ e.recall = Last(s).recall
               /\ e.f1score = F1Score(e.precision, e.recall)
               /\ e.precAt10 = PrecisionAtK(rec, rel, AtK)
               /\ e.avgPrecision = AvgPrecision(rec, rel)
               /\ e.ptosPR = s
<1>. DEFINE s == PuntosPR(rec, rel)
            recall == Last(s).recall
            precision == Precision(rec, rel)
            atK == PrecisionAtK(rec, rel, AtK)
            avg == AvgPrecision(rec, rel)
            f1 == F1Score(precision, recall)
<1>1. Evaluacion(rec, rel) = [precision |-> precision, recall |-> recall, f1score |-> f1,
                              precAt10 |-> atK, avgPrecision |-> avg, ptosPR |-> s]
  BY DEF Evaluacion
<1>. HIDE DEF s, recall, precision, atK, avg, f1
<1>2. LET e == Evaluacion(rec, rel)
      IN  /\ e.precision = precision /\ e.recall = recall /\ e.f1score = f1
          /\ e.precAt10 = atK /\ e.avgPrecision = avg /\ e.ptosPR = s
  BY <1>1
<1>. QED BY <1>2 DEF s, recall, precision, atK, avg, f1

(***************************************************************************)
(* Every measure of a need is a fraction between 0 and 1.                  *)
(***************************************************************************)
Shares(e) == \A m \in {"precision", "recall", "f1score", "precAt10", "avgPrecision"} :
                e[m] \in Fractions /\ LessEq(e[m], Frac(1, 1))

LEMMA ShareIs ==
    ASSUME NEW n \in Nat, NEW d \in Nat \ {0}, n <= d
    PROVE  Frac(n, d) \in Fractions /\ LessEq(Frac(n, d), Frac(1, 1))
<1>1. Frac(1, 1).num = 1 /\ Frac(1, 1).den = 1
  BY FracIs
<1>. QED BY <1>1, FracIs DEF LessEq

LEMMA MeasuresAreShares ==
    ASSUME NEW rec, NEW rel, FindsSomething(rec, rel)
    PROVE  LET e    == Evaluacion(rec, rel)
               n    == Len(rec)
               p    == Cardinality(PositivosTrue(rec, rel, n))
               f    == Cardinality(Docs(rec, rel, n))
               size == Cardinality(Relevantes(rel))
           IN  /\ Shares(e)
               /\ e.precision = Frac(p, n) /\ e.recall = Frac(f, size)
               /\ e.f1score = Frac((2 * p) * f, p * size + f * n)
<1>. DEFINE e == Evaluacion(rec, rel)
            n == Len(rec)
            p == Cardinality(PositivosTrue(rec, rel, n))
            f == Cardinality(Docs(rec, rel, n))
            size == Cardinality(Relevantes(rel))
<1>1. e.precision = Frac(p, n)
  BY EvaluationIs DEF Precision, PrecisionAtK
<1>2. e.recall = Frac(f, size)
  BY EvaluationIs, PointsAre
<1>3. n \in Nat \ {0} /\ p \in 1..n /\ f \in 1..p /\ size \in Nat \ {0} /\ f \in 1..size
  BY NumbersAre
<1>4. e.f1score = F1Score(e.precision, e.recall) /\ e.avgPrecision = AvgPrecision(rec, rel)
      /\ e.precAt10 = PrecisionAtK(rec, rel, AtK)
  BY EvaluationIs
<1>. HIDE DEF e, n, p, f, size
<1>5. p \in Nat \ {0} /\ p <= n /\ f \in Nat \ {0} /\ f <= p /\ f <= size
  BY <1>3
<1>6. e.f1score = Frac((2 * p) * f, p * size + f * n)
  <2>1. /\ e.precision.num = p /\ e.precision.den = n
        /\ e.recall.num = f /\ e.recall.den = size
    BY <1>1, <1>2, <1>3, <1>5, FracIs
  <2>. QED BY <1>4, <2>1 DEF F1Score
<1>7. e.f1score \in Fractions /\ LessEq(e.f1score, Frac(1, 1))
  <2>1. f * p <= size * p /\ p * f <= n * f
    BY <1>3, <1>5, TimesBoth
  <2>2. p * f \in Nat \ {0} /\ p * size \in Nat \ {0} /\ f * n \in Nat \ {0}
    BY <1>3, <1>5
  <2>3. f * p = p * f /\ size * p = p * size /\ n * f = f * n /\ (2 * p) * f = p * f + p * f
    BY <1>3, <1>5
  <2>4. /\ (2 * p) * f \in Nat /\ p * size + f * n \in Nat \ {0}
        /\ (2 * p) * f <= p * size + f * n
    <3>. DEFINE x == p * f
                y == p * size
                z == f * n
    <3>1. x <= y /\ x <= z /\ (2 * p) * f = x + x
      BY <2>1, <2>3
    <3>2. x \in Nat \ {0} /\ y \in Nat \ {0} /\ z \in Nat \ {0}
      BY <2>2
    <3>. HIDE DEF x, y, z
    <3>3. x + x \in Nat /\ y + z \in Nat \ {0} /\ x + x <= y + z
      BY <3>1, <3>2
    <3>. QED BY <3>1, <3>3 DEF y, z
  <2>. QED BY <1>6, <2>4, ShareIs
<1>8. e.precision \in Fractions /\ LessEq(e.precision, Frac(1, 1))
  BY <1>1, <1>3, <1>5, ShareIs
<1>9. e.recall \in Fractions /\ LessEq(e.recall, Frac(1, 1))
  BY <1>2, <1>3, <1>5, ShareIs
<1>10. e.precAt10 \in Fractions /\ LessEq(e.precAt10, Frac(1, 1))
  <2>. DEFINE h == Cardinality(PositivosTrue(rec, rel, AtK))
  <2>1. AtK \in Nat \ {0}
    BY EvaluationAssumption
  <2>2. h \in 0..AtK
    BY <2>1, HitsAre
  <2>3. e.precAt10 = Frac(h, AtK)
    BY <1>4 DEF PrecisionAtK
  <2>. HIDE DEF h
  <2>4. h \in Nat /\ h <= AtK
    BY <2>1, <2>2
  <2>. QED BY <2>1, <2>3, <2>4, ShareIs
<1>11. e.avgPrecision \in Fractions /\ LessEq(e.avgPrecision, Frac(1, 1))
  BY <1>4, AverageIs
<1>12. Shares(e)
  BY <1>7, <1>8, <1>9, <1>10, <1>11 DEF Shares
<1>. QED BY <1>1, <1>2, <1>6, <1>12 DEF e, n, p, f, size

(***************************************************************************)
(* The points climb to the recall, and each is the precision of the        *)
(* shortest list with so many of the relevant documents.                   *)
(***************************************************************************)
LEMMA PointsClimb ==
    ASSUME NEW rec, NEW rel, FindsSomething(rec, rel)
    PROVE  LET e      == Evaluacion(rec, rel)
               puntos == e.ptosPR
               n      == Len(rec)
               size   == Cardinality(Relevantes(rel))
           IN  /\ Same(e.recall, Frac(Cardinality(Docs(rec, rel, n)), size))
               /\ \A k \in 1..Len(puntos) : Same(puntos[k].recall, Frac(k, size))
               /\ IsInjective(rec) =>
                    \A k \in 1..Len(puntos) : \E i \in 1..n :
                        /\ Cardinality(Docs(rec, rel, i)) = k
                        /\ Cardinality(Docs(rec, rel, i - 1)) = k - 1
                        /\ Same(puntos[k].precision, Frac(k, i))
<1>. DEFINE e == Evaluacion(rec, rel)
            puntos == e.ptosPR
            n == Len(rec)
            p == Cardinality(PositivosTrue(rec, rel, n))
            f == Cardinality(Docs(rec, rel, n))
            size == Cardinality(Relevantes(rel))
            r == Ranks(rec, rel)
<1>1. n \in Nat \ {0} /\ p \in 1..n /\ f \in 1..p /\ size \in Nat \ {0} /\ f \in 1..size
  BY NumbersAre
<1>2. /\ Len(puntos) = f
      /\ \A k \in 1..f : /\ puntos[k].recall = Frac(k, size)
                         /\ puntos[k].precision = Precisiones(rec, rel)[k]
  BY EvaluationIs, PointsAre
<1>3. Same(e.recall, Frac(f, size))
  <2>1. e.recall = Frac(f, size)
    BY MeasuresAreShares
  <2>. QED BY <2>1 DEF Same
<1>4. \A k \in 1..Len(puntos) : Same(puntos[k].recall, Frac(k, size))
  BY <1>2 DEF Same
<1>5. ASSUME IsInjective(rec), NEW k \in 1..f
      PROVE  \E i \in 1..n : /\ Cardinality(Docs(rec, rel, i)) = k
                             /\ Cardinality(Docs(rec, rel, i - 1)) = k - 1
                             /\ Same(puntos[k].precision, Frac(k, i))
  <2>1. k \in 1..p /\ k \in Nat
    <3>. HIDE DEF n, p, f, size
    <3>. QED BY <1>1
  <2>2. r[k] \in 1..n /\ Precisiones(rec, rel)[k] = Frac(k, r[k])
    BY <2>1, PrecisionsAre
  <2>3. EsRelevante(rel, rec[r[k]]) /\ Cardinality(PositivosTrue(rec, rel, r[k])) = k
    <3>1. n \in Nat /\ Len(r) = p
      BY <1>1, RanksAre
    <3>. QED BY <2>1, <3>1, RanksAre
  <2>4. ASSUME NEW m \in 0..n
        PROVE  Cardinality(Docs(rec, rel, m)) = Cardinality(PositivosTrue(rec, rel, m))
    <3>1. DOMAIN rec = 1..n /\ n \in Nat
      BY DEF FindsSomething
    <3>. HIDE DEF n
    <3>2. m \in Nat /\ \A i \in 1..m : i \in DOMAIN rec
      BY <3>1
    <3>3. \A i, j \in PositivosTrue(rec, rel, m) : rec[i] = rec[j] => i = j
      BY <1>5, <3>2 DEF IsInjective, PositivosTrue
    <3>. QED BY <3>2, <3>3, DocsAre
  <2>. DEFINE i == r[k]
  <2>. HIDE DEF r, n, p, f, e, puntos
  <2>5. i \in 1..n /\ i - 1 \in 0..n /\ i \in 0..n /\ i - 1 \in Nat /\ (i - 1) + 1 = i
    BY <1>1, <2>2
  <2>6. Cardinality(PositivosTrue(rec, rel, i - 1)) = k - 1
    <3>. DEFINE c == Cardinality(PositivosTrue(rec, rel, i - 1))
    <3>. HIDE DEF i
    <3>1. Cardinality(PositivosTrue(rec, rel, i)) = c + 1
      BY <2>3, <2>5, HitsGoOn DEF i
    <3>2. c \in 0..(i - 1)
      BY <2>5, HitsAre
    <3>. HIDE DEF c
    <3>3. k = c + 1
      BY <2>3, <3>1 DEF i
    <3>4. c \in Nat
      BY <2>5, <3>2
    <3>5. c = k - 1
      BY <2>1, <3>3, <3>4
    <3>. QED BY <3>5 DEF c
  <2>7. puntos[k].precision = Frac(k, i)
    BY <1>2, <2>2
  <2>8. Same(puntos[k].precision, Frac(k, i))
    BY <2>7 DEF Same
  <2>. QED BY <2>3, <2>4, <2>5, <2>6, <2>8
<1>. QED BY <1>2, <1>3, <1>4, <1>5

(***************************************************************************)
(* A document that is listed twice only raises the precision.              *)
(***************************************************************************)
LEMMA RepeatsRaise ==
    ASSUME NEW rec, NEW rel, FindsSomething(rec, rel)
    PROVE  LET e     == Evaluacion(rec, rel)
               n     == Len(rec)
               f     == Cardinality(Docs(rec, rel, n))
               size  == Cardinality(Relevantes(rel))
               clean == Same(e.precision, Frac(f, n))
           IN  /\ LessEq(Frac(f, n), e.precision)
               /\ clean <=> \A i, j \in 1..n :
                      i # j /\ rec[i] = rec[j] => ~EsRelevante(rel, rec[i])
               /\ clean => Same(e.f1score, Frac(2 * f, n + size))
<1>. DEFINE e == Evaluacion(rec, rel)
            n == Len(rec)
            P == PositivosTrue(rec, rel, n)
            p == Cardinality(P)
            f == Cardinality(Docs(rec, rel, n))
            size == Cardinality(Relevantes(rel))
            clean == Same(e.precision, Frac(f, n))
<1>1. n \in Nat \ {0} /\ p \in 1..n /\ f \in 1..p /\ size \in Nat \ {0}
  BY NumbersAre
<1>2. /\ e.precision = Frac(p, n)
      /\ e.f1score = Frac((2 * p) * f, p * size + f * n)
  BY MeasuresAreShares
<1>3. f = p <=> \A i, j \in P : rec[i] = rec[j] => i = j
  <2>1. n \in Nat
    BY <1>1
  <2>. QED BY <2>1, DocsAre
<1>4. (\A i, j \in P : rec[i] = rec[j] => i = j)
        <=> \A i, j \in 1..n : i # j /\ rec[i] = rec[j] => ~EsRelevante(rel, rec[i])
  BY DEF PositivosTrue
<1>. HIDE DEF e, n, P, p, f, size
<1>5. p \in Nat /\ f \in Nat /\ f <= p /\ n \in Nat \ {0}
  BY <1>1
<1>6. /\ e.precision.num = p /\ e.precision.den = n
      /\ Frac(f, n).num = f /\ Frac(f, n).den = n
  BY <1>2, <1>5, FracIs
<1>7. LessEq(Frac(f, n), e.precision)
  <2>1. f * n <= p * n
    BY <1>5, TimesBoth
  <2>. QED BY <1>6, <2>1 DEF LessEq
<1>8. clean <=> f = p
  <2>1. clean <=> p * n = f * n
    BY <1>6 DEF Same
  <2>2. p * n = f * n => p <= f
    <3>1. p * n = f * n => p * n <= f * n
      BY <1>5
    <3>. QED BY <1>5, <3>1, OverBoth
  <2>. QED BY <1>5, <2>1, <2>2
<1>9. clean => Same(e.f1score, Frac(2 * f, n + size))
  <2>. SUFFICES ASSUME f = p PROVE Same(e.f1score, Frac(2 * f, n + size))
    BY <1>8
  <2>1. /\ e.f1score = Frac((2 * f) * f, f * size + f * n)
    BY <1>2
  <2>2. e.f1score.num = (2 * f) * f /\ e.f1score.den = f * size + f * n
        /\ Frac(2 * f, n + size).num = 2 * f /\ Frac(2 * f, n + size).den = n + size
    BY <2>1 DEF Frac
  <2>3. ((2 * f) * f) * (n + size) = (2 * f) * (f * size + f * n)
    BY <1>1, <1>5
  <2>. QED BY <2>2, <2>3 DEF Same
<1>. HIDE DEF clean
<1>. QED BY <1>3, <1>4, <1>7, <1>8, <1>9 DEF e, n, P, p, f, size, clean

(***************************************************************************)
(* The interpolated precision is the best of the points at a level of      *)
(* recall or above it.                                                     *)
(***************************************************************************)
Above(puntos, nivel) == {k \in 1..Len(puntos) : LessEq(Frac(nivel, 10), puntos[k].recall)}

LEMMA InterpolatedIs ==
    ASSUME NEW puntos, NEW nivel, Len(puntos) \in Nat,
           \A k \in 1..Len(puntos) : puntos[k].precision \in Fractions
    PROVE  LET S == Above(puntos, nivel)
               v == PrecisionInterpolada(puntos, nivel)
           IN  /\ S = {} => v = Frac(0, 1)
               /\ S # {} => \E k \in S : v = puntos[k].precision
               /\ \A j \in S : LessEq(puntos[j].precision, v)
               /\ v \in Fractions
<1>. DEFINE S == Above(puntos, nivel)
            v == PrecisionInterpolada(puntos, nivel)
            s == [k \in 1..Len(puntos) |-> puntos[k].precision]
            Best(k) == \A j \in S : LessEq(puntos[j].precision, puntos[k].precision)
<1>1. v = IF S = {} THEN Frac(0, 1) ELSE puntos[CHOOSE k \in S : Best(k)].precision
  BY DEF PrecisionInterpolada, Above
<1>2. S \in SUBSET (1..Len(puntos))
  BY DEF Above
<1>. HIDE DEF S, v
<1>3. CASE S = {}
  <2>1. v = Frac(0, 1) /\ Frac(0, 1) \in Fractions
    BY <1>1, <1>3, FracIs
  <2>. QED BY <1>3, <2>1 DEF S, v
<1>4. CASE S # {}
  <2>1. \A k \in 1..Len(puntos) : s[k] = puntos[k].precision
    OBVIOUS
  <2>2. \E k \in S : \A j \in S : LessEq(s[j], s[k])
    <3>. HIDE DEF s
    <3>. QED BY <1>2, <1>4, <2>1, GreatestOf
  <2>3. \E k \in S : Best(k)
    BY <1>2, <2>1, <2>2
  <2>. HIDE DEF Best
  <2>4. PICK k \in S : Best(k) /\ v = puntos[k].precision
    BY <1>1, <1>4, <2>3
  <2>5. \A j \in S : LessEq(puntos[j].precision, v)
    BY <2>4 DEF Best
  <2>6. v \in Fractions
    BY <1>2, <2>4
  <2>. QED BY <1>4, <2>4, <2>5, <2>6 DEF S, v
<1>. QED BY <1>3, <1>4

LEMMA CurveFalls ==
    ASSUME NEW rec, NEW rel, FindsSomething(rec, rel)
    PROVE  LET e      == Evaluacion(rec, rel)
               puntos == e.ptosPR
               curve  == InterpolarPR(puntos)
               s      == Precisiones(rec, rel)
           IN  /\ \A i \in 1..(N_PTOS_INTER - 1) : LessEq(curve[i + 1], curve[i])
               /\ \A k \in 1..Len(puntos) : \A i \in 1..N_PTOS_INTER :
                     LessEq(Frac(i - 1, 10), puntos[k].recall)
                        => LessEq(puntos[k].precision, curve[i])
               /\ \A i \in 1..N_PTOS_INTER :
                     curve[i].num = 0 <=> ~LessEq(Frac(i - 1, 10), e.recall)
               /\ \E i, j \in 1..Len(s) :
                     LessEq(s[i], e.avgPrecision) /\ LessEq(e.avgPrecision, s[j])
<1>. DEFINE e == Evaluacion(rec, rel)
            puntos == e.ptosPR
            curve == InterpolarPR(puntos)
            s == Precisiones(rec, rel)
            p == Cardinality(PositivosTrue(rec, rel, Len(rec)))
            f == Cardinality(Docs(rec, rel, Len(rec)))
            size == Cardinality(Relevantes(rel))
            r == Ranks(rec, rel)
<1>1. e.avgPrecision = AvgPrecision(rec, rel) /\ e.recall = Frac(f, size)
  BY EvaluationIs, MeasuresAreShares
<1>2. \E i, j \in 1..Len(s) : LessEq(s[i], e.avgPrecision) /\ LessEq(e.avgPrecision, s[j])
  BY <1>1, AverageIs
<1>3. Len(rec) \in Nat /\ p \in 1..Len(rec) /\ f \in 1..p /\ size \in Nat \ {0}
  BY NumbersAre
<1>4. /\ Len(puntos) = f
      /\ \A k \in 1..f : puntos[k].recall = Frac(k, size) /\ puntos[k].precision = s[k]
  BY EvaluationIs, PointsAre
<1>5. \A k \in 1..p : s[k] \in Fractions /\ s[k] = Frac(k, r[k]) /\ r[k] \in 1..Len(rec)
  BY PrecisionsAre
<1>6. \A i \in 1..11 : curve[i] = PrecisionInterpolada(puntos, i - 1)
  BY DEF InterpolarPR, N_PTOS_INTER
<1>. HIDE DEF e, puntos, curve, s, p, f, size, r
<1>7. f \in Nat \ {0} /\ \A k \in 1..f : k \in 1..p /\ k \in Nat \ {0}
  BY <1>3
<1>8. \A k \in 1..f : puntos[k].precision \in Fractions /\ puntos[k].precision.num = k
  <2>. SUFFICES ASSUME NEW k \in 1..f
                PROVE  puntos[k].precision \in Fractions /\ puntos[k].precision.num = k
    OBVIOUS
  <2>1. s[k] \in Fractions /\ s[k] = Frac(k, r[k])
    BY <1>5, <1>7
  <2>2. Frac(k, r[k]).num = k
    BY DEF Frac
  <2>3. puntos[k].precision = s[k]
    BY <1>4
  <2>4. s[k].num = k
    BY <2>1, <2>2
  <2>. QED BY <2>1, <2>3, <2>4
<1>9. ASSUME NEW l \in Nat
      PROVE  Above(puntos, l) = {k \in 1..f : l * size <= k * 10}
  <2>1. ASSUME NEW k \in 1..f
        PROVE  LessEq(Frac(l, 10), puntos[k].recall) <=> l * size <= k * 10
    <3>1. puntos[k].recall = Frac(k, size)
      BY <1>4
    <3>2. LessEq(Frac(l, 10), Frac(k, size)) <=> l * size <= k * 10
      BY DEF LessEq, Frac
    <3>. QED BY <3>1, <3>2
  <2>. QED BY <1>4, <2>1 DEF Above
<1>10. ASSUME NEW l \in Nat, NEW v, v = PrecisionInterpolada(puntos, l)
       PROVE  /\ Above(puntos, l) = {} => v = Frac(0, 1)
              /\ Above(puntos, l) # {} => \E k \in Above(puntos, l) : v = puntos[k].precision
              /\ \A j \in Above(puntos, l) : LessEq(puntos[j].precision, v)
              /\ v \in Fractions
  <2>1. Len(puntos) \in Nat /\ \A k \in 1..Len(puntos) : puntos[k].precision \in Fractions
    BY <1>4, <1>7, <1>8
  <2>. QED BY <1>10, <2>1, InterpolatedIs
<1>11. ASSUME NEW i \in 1..10 PROVE LessEq(curve[i + 1], curve[i])
  <2>. DEFINE l == i - 1
  <2>1. l \in Nat /\ i \in Nat /\ i = l + 1 /\ i \in 1..11 /\ i + 1 \in 1..11 /\ (i + 1) - 1 = i
    OBVIOUS
  <2>2. curve[i] = PrecisionInterpolada(puntos, l) /\ curve[i + 1] = PrecisionInterpolada(puntos, i)
    BY <1>6, <2>1
  <2>3. Above(puntos, i) \subseteq Above(puntos, l)
    <3>1. ASSUME NEW k \in 1..f, i * size <= k * 10 PROVE l * size <= k * 10
      <4>1. l * size <= i * size
        BY <1>3, <2>1, TimesBoth
      <4>2. l * size \in Nat /\ i * size \in Nat /\ k * 10 \in Nat
        BY <1>3, <1>7, <2>1
      <4>. HIDE DEF l
      <4>. QED BY <3>1, <4>1, <4>2
    <3>. HIDE DEF l
    <3>. QED BY <1>9, <2>1, <3>1
  <2>. HIDE DEF l
  <2>4. CASE Above(puntos, i) = {}
    <3>1. curve[i + 1] = Frac(0, 1) /\ curve[i] \in Fractions
      BY <1>10, <2>1, <2>2, <2>4
    <3>2. curve[i].num \in Nat /\ curve[i].den \in Nat
      BY <3>1 DEF Fractions
    <3>. QED BY <3>1, <3>2 DEF LessEq, Frac
  <2>5. CASE Above(puntos, i) # {}
    <3>1. PICK k \in Above(puntos, i) : curve[i + 1] = puntos[k].precision
      BY <1>10, <2>1, <2>2, <2>5
    <3>2. k \in Above(puntos, l)
      BY <2>3, <3>1
    <3>3. LessEq(puntos[k].precision, curve[i])
      BY <1>10, <2>1, <2>2, <3>2
    <3>. QED BY <3>1, <3>3
  <2>. QED BY <2>4, <2>5
<1>12. ASSUME NEW k \in 1..Len(puntos), NEW i \in 1..11,
              LessEq(Frac(i - 1, 10), puntos[k].recall)
       PROVE  LessEq(puntos[k].precision, curve[i])
  <2>1. i - 1 \in Nat /\ curve[i] = PrecisionInterpolada(puntos, i - 1)
    BY <1>6
  <2>2. k \in Above(puntos, i - 1)
    BY <1>12 DEF Above
  <2>. QED BY <1>10, <2>1, <2>2
<1>13. ASSUME NEW i \in 1..11
       PROVE  curve[i].num = 0 <=> ~LessEq(Frac(i - 1, 10), e.recall)
  <2>. DEFINE l == i - 1
  <2>1. l \in Nat /\ curve[i] = PrecisionInterpolada(puntos, l)
    BY <1>6
  <2>. HIDE DEF l
  <2>2. LessEq(Frac(l, 10), e.recall) <=> l * size <= f * 10
    BY <1>1 DEF LessEq, Frac
  <2>3. l * size <= f * 10 <=> Above(puntos, l) # {}
    <3>1. ASSUME l * size <= f * 10 PROVE f \in Above(puntos, l)
      <4>1. f \in 1..f
        BY <1>7
      <4>. QED BY <1>9, <2>1, <3>1, <4>1
    <3>2. ASSUME NEW k \in Above(puntos, l) PROVE l * size <= f * 10
      <4>1. k \in 1..f /\ l * size <= k * 10
        BY <1>9, <2>1
      <4>2. k \in Nat /\ f \in Nat /\ k <= f /\ size \in Nat
        BY <1>3, <1>7, <4>1
      <4>3. l * size \in Nat
        BY <2>1, <4>2
      <4>. QED BY <4>1, <4>2, <4>3
    <3>. QED BY <3>1, <3>2
  <2>4. Above(puntos, l) = {} => curve[i].num = 0
    BY <1>10, <2>1 DEF Frac
  <2>5. Above(puntos, l) # {} => curve[i].num # 0
    <3>. SUFFICES ASSUME Above(puntos, l) # {} PROVE curve[i].num # 0
      OBVIOUS
    <3>1. PICK k \in Above(puntos, l) : curve[i] = puntos[k].precision
      BY <1>10, <2>1
    <3>2. k \in 1..f
      BY <1>9, <2>1, <3>1
    <3>. QED BY <1>7, <1>8, <3>1, <3>2
  <2>. QED BY <2>2, <2>3, <2>4, <2>5 DEF l
<1>. QED BY <1>2, <1>11, <1>12, <1>13 DEF e, puntos, curve, s, N_PTOS_INTER

(***************************************************************************)
(* The entry TOTAL.                                                        *)
(***************************************************************************)
LEMMA SeqOfSet ==
    ASSUME NEW S, IsFiniteSet(S)
    PROVE  SetToSeq(S) \in [1..Cardinality(S) -> S]
<1>. DEFINE n == Cardinality(S)
<1>1. ExistsBijection(1..n, S)
  BY FS_CardinalityType
<1>2. \E f \in [1..n -> S] : IsInjective(f)
  <2>1. PICK f : f \in Bijection(1..n, S)
    BY <1>1 DEF ExistsBijection
  <2>2. f \in [1..n -> S] /\ \A i, j \in 1..n : f[i] = f[j] => i = j
    BY <2>1 DEF Bijection, Injection, IsInjective
  <2>. QED BY <2>2 DEF IsInjective
<1>. QED BY <1>2 DEF SetToSeq

LEMMA NoMean ==
    ASSUME NEW fracs, Len(fracs) = 0
    PROVE  MeanOf(fracs) = Frac(0, 0)
<1>1. PICK M : AreSums(M, fracs) /\ SumOf(fracs) = M[0]
  BY SumIs
<1>2. SumOf(fracs) = Frac(0, 1)
  BY <1>1 DEF AreSums
<1>. QED BY <1>2 DEF MeanOf, Frac

LEMMA PromedioIs ==
    ASSUME NEW evals, IsFiniteSet(DOMAIN evals), NEW m,
           \A need \in DOMAIN evals :
              evals[need][m] \in Fractions /\ LessEq(evals[need][m], Frac(1, 1))
    PROVE  LET a == Promedio(m, evals)
           IN  /\ DOMAIN evals = {} => a = Frac(0, 0)
               /\ DOMAIN evals # {} =>
                    /\ \E need \in DOMAIN evals : LessEq(evals[need][m], a)
                    /\ \E need \in DOMAIN evals : LessEq(a, evals[need][m])
                    /\ a.den > 0 /\ LessEq(a, Frac(1, 1))
<1>. DEFINE S == DOMAIN evals
            n == Cardinality(S)
            q == SetToSeq(S)
            t == [k \in 1..n |-> evals[q[k]][m]]
            a == Promedio(m, evals)
<1>1. a = MeanOf(t)
  BY DEF Promedio
<1>2. n \in Nat
  BY FS_CardinalityType
<1>3. q \in [1..n -> S]
  BY SeqOfSet
<1>4. n = 0 <=> S = {}
  <2>. HIDE DEF S
  <2>. QED BY FS_EmptySet DEF S
<1>. HIDE DEF n, q, a
<1>5. Len(t) = n
  BY <1>2
<1>6. \A k \in 1..n : q[k] \in S /\ t[k] = evals[q[k]][m]
  BY <1>3
<1>. HIDE DEF t
<1>7. CASE S = {}
  <2>1. a = Frac(0, 0)
    BY <1>1, <1>4, <1>5, <1>7, NoMean
  <2>. QED BY <1>7, <2>1 DEF a
<1>8. CASE S # {}
  <2>1. n \in Nat \ {0}
    BY <1>2, <1>4, <1>8
  <2>2. \A k \in 1..n : t[k] \in Fractions
    BY <1>6
  <2>3. /\ a \in Fractions /\ \E i \in 1..n : LessEq(t[i], a)
        /\ \E j \in 1..n : LessEq(a, t[j])
    BY <1>1, <1>5, <2>1, <2>2, MeanIsBetween
  <2>4. /\ \E need \in S : LessEq(evals[need][m], a)
        /\ \E need \in S : LessEq(a, evals[need][m])
    BY <1>6, <2>3
  <2>5. LessEq(a, Frac(1, 1))
    <3>1. Frac(1, 1) \in Fractions
      BY FracIs
    <3>. QED BY <2>3, <2>4, <3>1, LessEqFollows
  <2>6. a.den > 0
    BY <2>3 DEF Fractions
  <2>. QED BY <1>8, <2>4, <2>5, <2>6 DEF a
<1>. QED BY <1>7, <1>8

(***************************************************************************)
(* The invariant: what was evaluated was evaluated from the inputs that    *)
(* there are, which are finite, and TOTAL from that.                       *)
(***************************************************************************)
MeasuresInv ==
    /\ IsFiniteSet(DOMAIN relevancias)
    /\ \A need \in DOMAIN relevancias : IsFiniteSet(DOMAIN relevancias[need])
    /\ \A need \in DOMAIN evaluaciones :
          /\ need \in DOMAIN relevancias
          /\ FindsSomething(resultados[need], relevancias[need])
          /\ evaluaciones[need] = Evaluacion(resultados[need], relevancias[need])
    /\ total # NoTotal => total = Total(evaluaciones)

LEMMA MeasuresStart == Init => MeasuresInv
<1>1. DOMAIN NoEntries = {} /\ IsFiniteSet({})
  BY FS_EmptySet DEF NoEntries
<1>. QED BY <1>1 DEF Init, MeasuresInv

LEMMA MeasuresStep == TypeOK /\ ReportInv /\ MeasuresInv /\ [Next]_vars => MeasuresInv'
<1>. SUFFICES ASSUME TypeOK, ReportInv, MeasuresInv, [Next]_vars PROVE MeasuresInv'
  OBVIOUS
<1>1. ASSUME UNCHANGED <<relevancias, resultados, evaluaciones, total>> PROVE MeasuresInv'
  BY <1>1 DEF MeasuresInv
<1>2. CASE UNCHANGED vars
  BY <1>1, <1>2 DEF vars, inputs
<1>3. ASSUME NEW need \in Need, NEW doc \in DocId, NEW relevante \in BOOLEAN,
             ReadJudgement(need, doc, relevante)
      PROVE  MeasuresInv'
  <2>. DEFINE old == EntryOf(relevancias, need)
              entry == Put(old, doc, relevante)
  <2>1. /\ relevancias' = Put(relevancias, need, entry) /\ pc = "qrels"
        /\ UNCHANGED <<resultados, left, evaluaciones, total>>
    BY <1>3 DEF ReadJudgement, Goes
  <2>2. DOMAIN evaluaciones = {} /\ total = NoTotal
    BY <2>1 DEF ReportInv, TypeOK
  <2>3. IsFiniteSet(DOMAIN old)
    <3>1. IsFiniteSet({}) /\ DOMAIN <<>> = {}
      BY FS_EmptySet
    <3>. QED BY <3>1 DEF EntryOf, MeasuresInv
  <2>4. IsFiniteSet(DOMAIN entry)
    <3>1. DOMAIN entry = DOMAIN old \cup {doc}
      BY PutDomain
    <3>. QED BY <2>3, <3>1, FS_AddElement
  <2>. HIDE DEF entry
  <2>5. DOMAIN relevancias' = DOMAIN relevancias \cup {need}
    BY <2>1, PutDomain
  <2>6. IsFiniteSet(DOMAIN relevancias')
    <3>1. IsFiniteSet(DOMAIN relevancias)
      BY DEF MeasuresInv
    <3>. QED BY <2>5, <3>1, FS_AddElement
  <2>7. ASSUME NEW k \in DOMAIN relevancias' PROVE IsFiniteSet(DOMAIN relevancias'[k])
    <3>1. relevancias'[k] = IF k = need THEN entry ELSE relevancias[k]
      BY <2>1, <2>5, PutEntry
    <3>. QED BY <2>4, <2>5, <3>1 DEF MeasuresInv
  <2>8. DOMAIN evaluaciones' = {} /\ total' = NoTotal
    BY <2>1, <2>2
  <2>. QED BY <2>6, <2>7, <2>8 DEF MeasuresInv
<1>4. ASSUME NEW need \in Need, NEW doc \in DocId, ReadResult(need, doc) PROVE MeasuresInv'
  <2>1. /\ pc = "results" /\ UNCHANGED <<relevancias, left, evaluaciones, total>>
    BY <1>4 DEF ReadResult, Goes
  <2>2. DOMAIN evaluaciones = {} /\ total = NoTotal
    BY <2>1 DEF ReportInv, TypeOK
  <2>3. DOMAIN evaluaciones' = {} /\ total' = NoTotal
    BY <2>1, <2>2
  <2>. QED BY <2>1, <2>3 DEF MeasuresInv
<1>5. ASSUME NEW need \in Need, EvaluateNeed(need) PROVE MeasuresInv'
  <2>. DEFINE e == Evaluacion(resultados[need], relevancias[need])
  <2>1. /\ pc = "evaluating" /\ need \in left /\ need \in DOMAIN resultados /\ Retrieves(need)
        /\ Len(resultados[need]) >= AtK /\ evaluaciones' = Put(evaluaciones, need, e)
        /\ UNCHANGED <<relevancias, resultados, total>>
    BY <1>5 DEF EvaluateNeed, Comes, inputs
  <2>2. FindsSomething(resultados[need], relevancias[need]) /\ need \in DOMAIN relevancias
    BY <2>1 DEF TypeOK, MeasuresInv, FindsSomething, Retrieves
  <2>3. total = NoTotal
    BY <2>1 DEF TypeOK
  <2>. HIDE DEF e
  <2>4. DOMAIN evaluaciones' = DOMAIN evaluaciones \cup {need}
    BY <2>1, PutDomain
  <2>5. ASSUME NEW k \in DOMAIN evaluaciones'
        PROVE  /\ k \in DOMAIN relevancias
               /\ FindsSomething(resultados[k], relevancias[k])
               /\ evaluaciones'[k] = Evaluacion(resultados[k], relevancias[k])
    <3>1. evaluaciones'[k] = IF k = need THEN e ELSE evaluaciones[k]
      BY <2>1, <2>4, PutEntry
    <3>. QED BY <2>2, <2>4, <3>1 DEF MeasuresInv, e
  <2>. QED BY <2>1, <2>3, <2>5 DEF MeasuresInv
<1>6. CASE EvaluateTotal
  <2>1. total' = Total(evaluaciones) /\ UNCHANGED <<relevancias, resultados, evaluaciones>>
    BY <1>6 DEF EvaluateTotal, inputs
  <2>. QED BY <2>1 DEF MeasuresInv
<1>7. CASE \/ EndOfJudgements \/ EndOfResults \/ ShortLine \/ Write \/ WriteFails
           \/ \E need \in Need : NoResults(need) \/ SkipNeed(need) \/ FewResults(need)
  BY <1>1, <1>7 DEF EndOfJudgements, EndOfResults, ShortLine, Write, WriteFails, NoResults,
                    SkipNeed, FewResults, inputs
<1>. QED BY <1>2, <1>3, <1>4, <1>5, <1>6, <1>7 DEF Next

LEMMA MeasuresSay == TypeOK /\ MeasuresInv => MeasuresFollowTheRanking
<1>. SUFFICES ASSUME TypeOK, MeasuresInv PROVE MeasuresFollowTheRanking
  OBVIOUS
<1>1. ASSUME NEW need \in DOMAIN evaluaciones
      PROVE  /\ FindsSomething(resultados[need], relevancias[need])
             /\ evaluaciones[need] = Evaluacion(resultados[need], relevancias[need])
  BY DEF MeasuresInv
<1>2. \A need, n : Found(need, n) = Cardinality(Docs(resultados[need], relevancias[need], n))
  BY DEF Found, Docs
<1>3. PointsFollowTheRanking
  <2>1. ASSUME NEW need \in DOMAIN evaluaciones
        PROVE  LET e      == evaluaciones[need]
                   puntos == e.ptosPR
                   n      == Len(resultados[need])
                   size   == Cardinality(Relevantes(relevancias[need]))
               IN  /\ Same(e.recall, Frac(Found(need, n), size))
                   /\ \A k \in 1..Len(puntos) : Same(puntos[k].recall, Frac(k, size))
                   /\ IsInjective(resultados[need]) =>
                        \A k \in 1..Len(puntos) : \E i \in 1..n :
                            /\ Found(need, i) = k /\ Found(need, i - 1) = k - 1
                            /\ Same(puntos[k].precision, Frac(k, i))
    <3>. DEFINE rec == resultados[need]
                rel == relevancias[need]
                e == Evaluacion(rec, rel)
    <3>1. FindsSomething(rec, rel) /\ evaluaciones[need] = e
      BY <1>1
    <3>2. /\ Same(e.recall,
                  Frac(Cardinality(Docs(rec, rel, Len(rec))), Cardinality(Relevantes(rel))))
          /\ \A k \in 1..Len(e.ptosPR) :
                Same(e.ptosPR[k].recall, Frac(k, Cardinality(Relevantes(rel))))
          /\ IsInjective(rec) =>
                \A k \in 1..Len(e.ptosPR) : \E i \in 1..Len(rec) :
                   /\ Cardinality(Docs(rec, rel, i)) = k
                   /\ Cardinality(Docs(rec, rel, i - 1)) = k - 1
                   /\ Same(e.ptosPR[k].precision, Frac(k, i))
      <4>. HIDE DEF rec, rel
      <4>. QED BY <3>1, PointsClimb DEF e
    <3>3. \A i : Found(need, i) = Cardinality(Docs(rec, rel, i))
      BY <1>2
    <3>. HIDE DEF e
    <3>. QED BY <3>1, <3>2, <3>3
  <2>. QED BY <2>1 DEF PointsFollowTheRanking, NoRepeats
<1>4. RepeatsOnlyRaisePrecision
  BY <1>1, <1>2, RepeatsRaise DEF RepeatsOnlyRaisePrecision
<1>5. InterpolationNeverRises
  BY <1>1, CurveFalls DEF InterpolationNeverRises
<1>6. TotalIsAMean
  <2>. SUFFICES ASSUME total # NoTotal
                PROVE  IF DOMAIN evaluaciones = {}
                       THEN \A m \in DOMAIN total : total[m] = Frac(0, 0)
                       ELSE /\ \A m \in DOMAIN total \ {"map"} : Between(total[m], m)
                            /\ Between(total.map, "avgPrecision")
                            /\ \A m \in DOMAIN total :
                                  total[m].den > 0 /\ LessEq(total[m], Frac(1, 1))
    BY DEF TotalIsAMean
  <2>. DEFINE Measures == {"precision", "recall", "f1score", "precAt10", "avgPrecision"}
              a(m) == Promedio(m, evaluaciones)
  <2>1. total = Total(evaluaciones)
    BY DEF MeasuresInv
  <2>2. /\ DOMAIN total = {"precision", "recall", "f1score", "precAt10", "map"}
        /\ total.map = a("avgPrecision")
        /\ \A m \in DOMAIN total \ {"map"} : m \in Measures /\ total[m] = a(m)
    BY <2>1 DEF Total
  <2>3. IsFiniteSet(DOMAIN evaluaciones)
    <3>1. IsFiniteSet(DOMAIN relevancias) /\ DOMAIN evaluaciones \subseteq DOMAIN relevancias
      BY DEF MeasuresInv
    <3>. QED BY <3>1, FS_Subset
  <2>4. \A need \in DOMAIN evaluaciones : Shares(evaluaciones[need])
    BY <1>1, MeasuresAreShares
  <2>5. ASSUME NEW m \in Measures
        PROVE  /\ DOMAIN evaluaciones = {} => a(m) = Frac(0, 0)
               /\ DOMAIN evaluaciones # {} =>
                    /\ Between(a(m), m) /\ a(m).den > 0 /\ LessEq(a(m), Frac(1, 1))
    <3>1. \A need \in DOMAIN evaluaciones :
             /\ evaluaciones[need][m] \in Fractions
             /\ LessEq(evaluaciones[need][m], Frac(1, 1))
      BY <2>4 DEF Shares
    <3>. HIDE DEF Measures
    <3>. QED BY <2>3, <3>1, PromedioIs DEF Between
  <2>6. "avgPrecision" \in Measures
    OBVIOUS
  <2>. HIDE DEF Measures, a
  <2>7. \A m \in DOMAIN total : total[m] = a(IF m = "map" THEN "avgPrecision" ELSE m)
        /\ (IF m = "map" THEN "avgPrecision" ELSE m) \in Measures
    BY <2>2, <2>6
  <2>8. CASE DOMAIN evaluaciones = {}
    BY <2>5, <2>7, <2>8
  <2>9. CASE DOMAIN evaluaciones # {}
    BY <2>2, <2>5, <2>6, <2>7, <2>9
  <2>. QED BY <2>8, <2>9
<1>. QED BY <1>3, <1>4, <1>5, <1>6 DEF MeasuresFollowTheRanking

(***************************************************************************)
(* The measures in the report are those of the lists it was made from, for *)
(* any needs, judgements and lists, also with documents that are listed    *)
(* twice: the points climb to the recall and are the precisions at the     *)
(* ranks of the relevant results, repeats only raise the precision, the    *)
(* interpolated curve falls and bounds the points, and TOTAL is a mean.    *)
(***************************************************************************)
THEOREM MeasuresAreOfTheRanking == Spec => []MeasuresFollowTheRanking
<1>. QED BY EvaluationInvariant, MeasuresStart, MeasuresStep, MeasuresSay, PTL DEF Spec

-------------------------------------------------------------------------------
(* The semantic searcher: places in a sequence, and lines as halves. *)

(***************************************************************************)
(* How often something is in a list.                                       *)
(***************************************************************************)
Places(s, e) == {n \in 1..Len(s) : s[n] = e}

(***************************************************************************)
(* They are finite, so they can be counted.                                *)
(***************************************************************************)
LEMMA PlacesFinite ==
    ASSUME NEW S, NEW s \in Seq(S), NEW e
    PROVE  IsFiniteSet(Places(s, e)) /\ Cardinality(Places(s, e)) \in Nat
<1>1. IsFiniteSet(1..Len(s))
  BY FS_Interval
<1>2. Places(s, e) \in SUBSET (1..Len(s))
  BY DEF Places
<1>3. IsFiniteSet(Places(s, e))
  BY <1>1, <1>2, FS_Subset
<1>. QED BY <1>3, FS_CardinalityType

(***************************************************************************)
(* What is not in a list is there no times,                                *)
(***************************************************************************)
LEMMA PlacesNone ==
    ASSUME NEW S, NEW s \in Seq(S), NEW e, \A n \in 1..Len(s) : s[n] # e
    PROVE  Cardinality(Places(s, e)) = 0
<1>1. Places(s, e) = {}
  BY DEF Places
<1>. QED BY <1>1, FS_EmptySet

(***************************************************************************)
(* something appended is there once more,                                  *)
(***************************************************************************)
LEMMA PlacesAppend ==
    ASSUME NEW S, NEW s \in Seq(S), NEW x \in S, NEW e
    PROVE  Cardinality(Places(Append(s, x), e))
             = Cardinality(Places(s, e)) + (IF x = e THEN 1 ELSE 0)
<1>. DEFINE t == Append(s, x)
            l == Len(s)
<1>1. l \in Nat /\ Len(t) = l + 1 /\ t[l + 1] = x /\ \A n \in 1..l : t[n] = s[n]
  BY AppendProperties
<1>2. IsFiniteSet(Places(s, e)) /\ Cardinality(Places(s, e)) \in Nat
  BY PlacesFinite
<1>. HIDE DEF t
<1>3. \A n : n \in 1..(l + 1) <=> n \in 1..l \/ n = l + 1
  BY <1>1
<1>4. CASE x = e
  <2>1. Places(t, e) = Places(s, e) \cup {l + 1}
    <3>. HIDE DEF l
    <3>1. Places(t, e) = {n \in 1..(l + 1) : t[n] = e}
      BY <1>1 DEF Places
    <3>2. Places(s, e) = {n \in 1..l : s[n] = e}
      BY DEF Places, l
    <3>. QED BY <1>1, <1>3, <1>4, <3>1, <3>2
  <2>2. l + 1 \notin Places(s, e)
    BY <1>1 DEF Places
  <2>3. Cardinality(Places(t, e)) = Cardinality(Places(s, e)) + 1
    BY <1>2, <2>1, <2>2, FS_AddElement
  <2>. QED BY <1>4, <2>3 DEF t
<1>5. CASE x # e
  <2>1. Places(t, e) = Places(s, e)
    <3>. HIDE DEF l
    <3>1. Places(t, e) = {n \in 1..(l + 1) : t[n] = e}
      BY <1>1 DEF Places
    <3>2. Places(s, e) = {n \in 1..l : s[n] = e}
      BY DEF Places, l
    <3>. QED BY <1>1, <1>3, <1>5, <3>1, <3>2
  <2>. QED BY <1>2, <1>5, <2>1 DEF t
<1>. QED BY <1>4, <1>5

(***************************************************************************)
(* and something taken from the head once less.                            *)
(***************************************************************************)
LEMMA PlacesTail ==
    ASSUME NEW S, NEW s \in Seq(S), s # <<>>, NEW e
    PROVE  Cardinality(Places(s, e))
             = Cardinality(Places(Tail(s), e)) + (IF Head(s) = e THEN 1 ELSE 0)
<1>. DEFINE t == Tail(s)
            l == Len(t)
            P == Places(t, e)
            Q == Places(s, e) \ {1}
            f == [n \in P |-> n + 1]
<1>1. t \in Seq(S) /\ l \in Nat /\ Len(s) = l + 1 /\ \A n \in 1..l : t[n] = s[n + 1]
  <2>1. t \in Seq(S) /\ Len(t) = Len(s) - 1 /\ \A n \in 1..Len(t) : t[n] = s[n + 1]
    BY HeadTailProperties
  <2>2. Len(s) \in Nat /\ Len(t) \in Nat
    BY <2>1
  <2>. HIDE DEF t
  <2>. QED BY <2>1, <2>2
<1>2. Head(s) = s[1]
  OBVIOUS
<1>3. IsFiniteSet(P) /\ Cardinality(P) \in Nat
  BY <1>1, PlacesFinite
<1>4. P = {n \in 1..l : t[n] = e}
  BY DEF Places
<1>5. Q = {n \in 2..(l + 1) : s[n] = e}
  <2>1. Places(s, e) = {n \in 1..(l + 1) : s[n] = e}
    BY <1>1 DEF Places
  <2>2. \A n : n \in 1..(l + 1) /\ n # 1 <=> n \in 2..(l + 1)
    BY <1>1
  <2>. QED BY <2>1, <2>2
<1>. HIDE DEF t, l
<1>6. \A n \in P : n \in 1..l /\ n + 1 \in Q
  BY <1>1, <1>4, <1>5
<1>7. \A m \in Q : m - 1 \in P /\ (m - 1) + 1 = m
  BY <1>1, <1>4, <1>5
<1>8. f \in Bijection(P, Q)
  <2>1. f \in [P -> Q]
    BY <1>6
  <2>2. \A a, b \in P : f[a] = f[b] => a = b
    <3>1. \A a, b \in P : a \in Int /\ b \in Int
      BY <1>6
    <3>. QED BY <3>1
  <2>3. \A m \in Q : \E n \in P : f[n] = m
    BY <1>7
  <2>. HIDE DEF f, P, Q
  <2>. QED BY <2>1, <2>2, <2>3 DEF Bijection, Injection, Surjection, IsInjective
<1>9. IsFiniteSet(Q) /\ Cardinality(Q) = Cardinality(P)
  BY <1>3, <1>8, FS_Bijection DEF ExistsBijection
<1>10. CASE Head(s) = e
  <2>1. Places(s, e) = Q \cup {1}
    BY <1>1, <1>2, <1>10 DEF Places
  <2>2. 1 \notin Q
    OBVIOUS
  <2>3. Cardinality(Places(s, e)) = Cardinality(Q) + 1
    <3>. HIDE DEF Q
    <3>. QED BY <1>9, <2>1, <2>2, FS_AddElement
  <2>. QED BY <1>9, <1>10, <2>3 DEF t
<1>11. CASE Head(s) # e
  <2>1. Places(s, e) = Q
    BY <1>2, <1>11 DEF Places
  <2>2. Cardinality(Places(s, e)) = Cardinality(P) /\ Cardinality(P) \in Nat
    <3>. HIDE DEF P, Q
    <3>. QED BY <1>3, <1>9, <2>1
  <2>3. Cardinality(P) + 0 = Cardinality(P)
    <3>. HIDE DEF P
    <3>. QED BY <2>2
  <2>4. P = Places(Tail(s), e)
    BY DEF t
  <2>. HIDE DEF P
  <2>. QED BY <1>11, <2>2, <2>3, <2>4
<1>. QED BY <1>10, <1>11

(***************************************************************************)
(* Lines and halves of lines.                                              *)
(***************************************************************************)
Half == [line : ResultLine, half : {1, 2}]

(***************************************************************************)
(* A line has two halves.                                                  *)
(***************************************************************************)
LEMMA HalvesAre ==
    ASSUME NEW l \in ResultLine
    PROVE  Halves(l) \in Seq(Half) /\ Len(Halves(l)) = 2
BY DEF Halves, Half

(***************************************************************************)
(* The text of one line more is the text so far and the two halves of that *)
(* line.                                                                   *)
(***************************************************************************)
LEMMA TextAppend ==
    ASSUME NEW lines \in Seq(ResultLine), NEW l \in ResultLine
    PROVE  /\ TextOf(lines) \in Seq(Half)
           /\ Len(TextOf(lines)) = 2 * Len(lines)
           /\ TextOf(Append(lines, l)) = TextOf(lines) \o Halves(l)
<1>. DEFINE n == Len(lines)
            more == Append(lines, l)
            At(k) == (k + 1) \div 2
            Of(k) == 2 - (k % 2)
<1>1. /\ more \in Seq(ResultLine) /\ Len(more) = n + 1 /\ more[n + 1] = l
      /\ n \in Nat /\ \A k \in 1..n : more[k] = lines[k]
  BY AppendProperties
<1>2. ASSUME NEW k \in Nat, k > 0 PROVE Of(k) \in {1, 2} /\ At(k) \in Nat /\ At(k) > 0
  <2>1. k % 2 \in 0..1
    OBVIOUS
  <2>2. Of(k) \in {1, 2}
    BY <2>1
  <2>3. (k + 1) \div 2 \in Nat /\ (k + 1) \div 2 > 0
    <3>1. k + 1 \in Nat /\ k + 1 >= 2
      BY <1>2
    <3>. DEFINE m == k + 1
    <3>2. m \in Nat /\ m >= 2
      BY <3>1
    <3>. HIDE DEF m
    <3>3. m \div 2 \in Nat /\ m \div 2 > 0
      BY <3>2
    <3>. QED BY <3>3 DEF m
  <2>. QED BY <2>2, <2>3
<1>3. ASSUME NEW k \in 1..(2 * n) PROVE At(k) \in 1..n
  <2>1. (k + 1) \div 2 \in Nat /\ (k + 1) \div 2 > 0 /\ (k + 1) \div 2 <= n
    BY <1>1
  <2>. QED BY <2>1
<1>4. At((2 * n) + 1) = n + 1 /\ At((2 * n) + 2) = n + 1
  BY <1>1
<1>5. Of((2 * n) + 1) = 1 /\ Of((2 * n) + 2) = 2
  <2>1. ((2 * n) + 1) % 2 = 1 /\ ((2 * n) + 2) % 2 = 0
    BY <1>1
  <2>. QED BY <2>1
<1>6. \A x \in ResultLine : Halves(x) \in [1..2 -> Half]
  BY DEF Halves, Half
<1>. HIDE DEF At, Of, n
<1>7. TextOf(lines) = [k \in 1..(2 * n) |-> Halves(lines[At(k)])[Of(k)]]
  BY DEF TextOf, At, Of, n
<1>8. TextOf(more) = [k \in 1..(2 * (n + 1)) |-> Halves(more[At(k)])[Of(k)]]
  <2>. HIDE DEF more
  <2>. QED BY <1>1 DEF TextOf, At, Of
<1>9. TextOf(lines) \in [1..(2 * n) -> Half]
  <2>1. ASSUME NEW k \in 1..(2 * n) PROVE Halves(lines[At(k)])[Of(k)] \in Half
    <3>1. At(k) \in 1..n /\ Of(k) \in 1..2
      BY <1>1, <1>2, <1>3
    <3>2. lines[At(k)] \in ResultLine
      BY <3>1 DEF n
    <3>. QED BY <1>6, <3>1, <3>2
  <2>. QED BY <1>7, <2>1
<1>10. TextOf(lines) \in Seq(Half) /\ Len(TextOf(lines)) = 2 * n
  <2>1. 2 * n \in Nat
    BY <1>1
  <2>. QED BY <1>9, <2>1
<1>11. TextOf(more) \in [1..(2 * (n + 1)) -> Half]
  <2>1. ASSUME NEW k \in 1..(2 * (n + 1)) PROVE Halves(more[At(k)])[Of(k)] \in Half
    <3>1. At(k) \in 1..(n + 1) /\ Of(k) \in 1..2
      <4>1. k \in 1..(2 * n) \/ k = (2 * n) + 1 \/ k = (2 * n) + 2
        BY <1>1
      <4>2. n + 1 \in 1..(n + 1) /\ \A m \in 1..n : m \in 1..(n + 1)
        BY <1>1
      <4>3. k \in Nat /\ k > 0
        BY <1>1
      <4>4. At(k) \in 1..n \/ At(k) = n + 1
        BY <1>3, <1>4, <4>1
      <4>5. Of(k) \in {1, 2}
        BY <1>2, <4>3
      <4>. QED BY <4>2, <4>4, <4>5
    <3>2. more[At(k)] \in ResultLine
      <4>. HIDE DEF more
      <4>. QED BY <1>1, <3>1
    <3>. QED BY <1>6, <3>1, <3>2
  <2>. HIDE DEF more
  <2>. QED BY <1>8, <2>1
<1>12. TextOf(more) \in Seq(Half) /\ Len(TextOf(more)) = 2 * (n + 1)
  <2>1. 2 * (n + 1) \in Nat
    BY <1>1
  <2>. HIDE DEF more
  <2>. QED BY <1>11, <2>1
<1>. DEFINE both == TextOf(lines) \o Halves(l)
<1>13. /\ both \in Seq(Half) /\ Len(both) = 2 * n + 2
       /\ \A k \in 1..(2 * n + 2) :
             both[k] = IF k <= 2 * n THEN TextOf(lines)[k] ELSE Halves(l)[k - 2 * n]
  <2>1. Halves(l) \in Seq(Half) /\ Len(Halves(l)) = 2
    BY HalvesAre
  <2>2. Len(TextOf(lines)) = 2 * n /\ TextOf(lines) \in Seq(Half)
    BY <1>10
  <2>. DEFINE a == TextOf(lines)
              b == Halves(l)
  <2>. HIDE DEF a, b
  <2>3. a \in Seq(Half) /\ b \in Seq(Half) /\ Len(a) = 2 * n /\ Len(b) = 2
    BY <2>1, <2>2 DEF a, b
  <2>4. /\ a \o b \in Seq(Half) /\ Len(a \o b) = Len(a) + Len(b)
        /\ \A k \in 1..(Len(a) + Len(b)) :
              (a \o b)[k] = IF k <= Len(a) THEN a[k] ELSE b[k - Len(a)]
    BY <2>3, ConcatProperties
  <2>. QED BY <2>3, <2>4 DEF a, b
<1>14. ASSUME NEW k \in 1..(2 * n + 2) PROVE TextOf(more)[k] = both[k]
  <2>0. k \in 1..(2 * (n + 1))
    BY <1>1
  <2>1. TextOf(more)[k] = Halves(more[At(k)])[Of(k)]
    <3>. HIDE DEF more
    <3>. QED BY <1>8, <2>0
  <2>2. CASE k \in 1..(2 * n)
    <3>1. both[k] = TextOf(lines)[k]
      <4>1. k <= 2 * n
        BY <1>1, <2>2
      <4>. HIDE DEF both
      <4>. QED BY <1>13, <4>1
    <3>2. TextOf(lines)[k] = Halves(lines[At(k)])[Of(k)]
      BY <1>7, <2>2
    <3>3. more[At(k)] = lines[At(k)]
      <4>. HIDE DEF more
      <4>. QED BY <1>1, <1>3, <2>2
    <3>. HIDE DEF more, both
    <3>. QED BY <2>1, <3>1, <3>2, <3>3
  <2>3. CASE k = (2 * n) + 1
    <3>1. both[k] = Halves(l)[1]
      <4>1. ~(k <= 2 * n) /\ k - 2 * n = 1
        BY <1>1, <2>3
      <4>. HIDE DEF both
      <4>. QED BY <1>13, <4>1
    <3>. HIDE DEF more, both
    <3>. QED BY <1>1, <1>4, <1>5, <2>1, <2>3, <3>1
  <2>4. CASE k = (2 * n) + 2
    <3>1. both[k] = Halves(l)[2]
      <4>1. ~(k <= 2 * n) /\ k - 2 * n = 2
        BY <1>1, <2>4
      <4>. HIDE DEF both
      <4>. QED BY <1>13, <4>1
    <3>. HIDE DEF more, both
    <3>. QED BY <1>1, <1>4, <1>5, <2>1, <2>4, <3>1
  <2>5. k \in 1..(2 * n) \/ k = (2 * n) + 1 \/ k = (2 * n) + 2
    BY <1>1
  <2>. QED BY <2>2, <2>3, <2>4, <2>5
<1>15. TextOf(more) = both
  <2>1. 2 * n + 2 = 2 * (n + 1)
    BY <1>1
  <2>. HIDE DEF more, both
  <2>. QED BY <1>12, <1>13, <1>14, <2>1, SeqEqual
<1>. QED BY <1>10, <1>15 DEF n

(***************************************************************************)
(* The lines of the needs file that have a query.                          *)
(***************************************************************************)
Queries(lines) == {n \in 1..Len(lines) : lines[n] \notin {Blank, Unrunnable}}

(***************************************************************************)
(* A graph as RdfFile.Fill leaves it in the file: every document           *)
(* described.                                                              *)
(***************************************************************************)
Whole(g) == g \in Graph /\ Closed(g)

(***************************************************************************)
(* The line in which need n lists document d.                              *)
(***************************************************************************)
AnswerFor(n, d) == [need |-> needs[n].id, doc |-> d]

(***************************************************************************)
(* The file holds what the execution has written but for the buffer.       *)
(***************************************************************************)
FileInv ==
    /\ LosesAtMostABuffer
    /\ at \in {"opened", "asking", "done"} => results \o buffer = TextOf(written)
    /\ at = "done" => buffer = <<>>

(***************************************************************************)
(* What the program holds at each stage of its main method.                *)
(***************************************************************************)
StageInv ==
    /\ rdf \in {Absent, Truncated} \/ Whole(rdf)
    /\ at \in {"loaded", "opened", "asking", "done"} => Whole(model)
    /\ at \in {"loaded", "opened"} => line = 0 /\ rows = <<>> /\ buffer = <<>>
    /\ at = "opened" => written = <<>>
    /\ at \in {"asking", "done"} => needs \in NeedsFiles
    /\ at = "done" => rows = <<>> /\ AtEnd

(***************************************************************************)
(* The lines so far are the answers to the needs so far, in their order,   *)
(* but for the solutions that are still to come.                           *)
(***************************************************************************)
ToCome(n, d) == IF n = line THEN Cardinality(Places(rows, d)) ELSE 0

(***************************************************************************)
(* Every line of the needs file that was come to had a query,              *)
(***************************************************************************)
NeedsKnown ==
    /\ 1..line \subseteq Queries(needs)
    /\ rows # <<>> => line > 0

(***************************************************************************)
(* every line written answers one of them with a document of the graph,    *)
(***************************************************************************)
LinesKnown ==
    \A m \in 1..Len(written) :
        \E n \in 1..line : /\ written[m].need = needs[n].id
                           /\ written[m].doc \in DocumentsOf(model)

(***************************************************************************)
(* in the order of the needs file,                                         *)
(***************************************************************************)
LinesOrdered ==
    \A m, n \in 1..Len(written) : \A k, l \in 1..line :
        m < n /\ written[m].need = needs[k].id /\ written[n].need = needs[l].id => k <= l

(***************************************************************************)
(* and as often as the query has the document as a solution, but for the   *)
(* solutions still to come.                                                *)
(***************************************************************************)
AllAnswered ==
    \A n \in 1..line : \A d \in DocumentsOf(model) :
        Cardinality(Places(written, AnswerFor(n, d))) + ToCome(n, d) = Hits(model, needs[n], d)

(***************************************************************************)
(* All that while the needs are asked, and when it is done.                *)
(***************************************************************************)
AnswersInv ==
    at \in {"asking", "done"} => NeedsKnown /\ LinesKnown /\ LinesOrdered /\ AllAnswered

(***************************************************************************)
(* The inductive invariant.                                                *)
(***************************************************************************)
ResultsInv == SearcherTypeOK /\ StageInv /\ FileInv /\ AnswersInv

(***************************************************************************)
(* The texts of the model are the sequences of halves,                     *)
(***************************************************************************)
LEMMA TextIsHalves == Text = Seq(Half)
BY DEF Text, Half

(***************************************************************************)
(* and no lines are the empty one.                                         *)
(***************************************************************************)
LEMMA TextEmpty == TextOf(<<>>) = <<>>
<1>1. Len(<<>>) = 0 /\ 2 * 0 = 0
  OBVIOUS
<1>2. DOMAIN TextOf(<<>>) = 1..0
  BY <1>1 DEF TextOf
<1>3. TextOf(<<>>) \in [1..0 -> {}]
  BY <1>1 DEF TextOf
<1>4. TextOf(<<>>) \in Seq({})
  BY <1>3
<1>. QED BY <1>2, <1>4

(***************************************************************************)
(* A beginning of a text, and all but a buffer of it.                      *)
(***************************************************************************)
LEMMA BeginningLosesLittle ==
    ASSUME NEW r \in Text, NEW b \in Text, Len(b) <= BufferSize,
           NEW lines \in Seq(ResultLine), r \o b = TextOf(lines)
    PROVE  IsPrefix(r, TextOf(lines)) /\ Len(TextOf(lines)) - Len(r) <= BufferSize
<1>. DEFINE t == TextOf(lines)
<1>1. r \in Seq(Half) /\ b \in Seq(Half) /\ r \o b = t /\ Len(b) <= BufferSize
  BY TextIsHalves
<1>2. SubSeq(r, 1, Len(r)) = r
  BY <1>1, SubSeqFull
<1>3. /\ r \o b \in Seq(Half) /\ Len(r \o b) = Len(r) + Len(b)
      /\ \A k \in 1..(Len(r) + Len(b)) : (r \o b)[k] = IF k <= Len(r) THEN r[k] ELSE b[k - Len(r)]
  BY <1>1, ConcatProperties
<1>4. Len(r) \in Nat /\ Len(b) \in Nat
  BY <1>1
<1>. DEFINE s == SubSeq(t, 1, Len(r))
<1>. HIDE DEF t
<1>5. /\ s \in Seq(Half) /\ Len(s) = Len(r) /\ \A k \in 1..Len(r) : s[k] = t[k]
  <2>1. \A k \in 1..Len(r) : t[k] \in Half /\ t[k] = r[k]
    BY <1>1, <1>3, <1>4
  <2>2. Len(r) \in Int /\ 1 \in Int
    BY <1>4
  <2>3. /\ s \in Seq(Half)
        /\ Len(s) = IF 1 <= Len(r) THEN Len(r) - 1 + 1 ELSE 0
        /\ \A k \in 1..(Len(r) - 1 + 1) : s[k] = t[1 + k - 1]
    BY <2>1, <2>2, SubSeqProperties
  <2>4. Len(r) - 1 + 1 = Len(r) /\ \A k \in Int : 1 + k - 1 = k
    BY <1>4
  <2>5. Len(s) = Len(r)
    BY <1>4, <2>3, <2>4
  <2>. QED BY <2>3, <2>4, <2>5
<1>6. s = r
  <2>1. \A k \in 1..Len(s) : s[k] = r[k]
    BY <1>1, <1>3, <1>4, <1>5
  <2>. HIDE DEF s
  <2>. QED BY <1>1, <1>5, <2>1, SeqEqual
<1>7. IsPrefix(r, t)
  BY <1>1, <1>2, <1>3, <1>4, <1>6 DEF IsPrefix
<1>8. Len(t) - Len(r) <= BufferSize
  BY <1>1, <1>3, <1>4, BufferAssumption
<1>. QED BY <1>7, <1>8 DEF t

(***************************************************************************)
(* What goes to the file and what waits.                                   *)
(***************************************************************************)
LEMMA WholeBuffers ==
    ASSUME NEW n \in Nat, n > 0, NEW b \in Nat, b > 0
    PROVE  /\ ((n - 1) \div b) * b \in 0..n
           /\ n - ((n - 1) \div b) * b <= b
<1>. DEFINE q == (n - 1) \div b
            p == q * b
<1>1. n - 1 \in Nat
  OBVIOUS
<1>2. q \in Nat
  BY <1>1
<1>3. p = (n - 1) - ((n - 1) % b)
  BY <1>1
<1>4. (n - 1) % b \in 0..(b - 1)
  BY <1>1
<1>5. p \in Nat
  <2>. HIDE DEF q
  <2>. QED BY <1>2
<1>. DEFINE r == (n - 1) % b
<1>. HIDE DEF p, r, q
<1>6. p = (n - 1) - r /\ r \in 0..(b - 1)
  BY <1>3, <1>4 DEF r
<1>7. p \in 0..n /\ n - p <= b
  BY <1>5, <1>6
<1>. QED BY <1>7 DEF p, q

(***************************************************************************)
(* A text cut where the buffer overflows is in two parts that give it      *)
(* back.                                                                   *)
(***************************************************************************)
LEMMA CutInTwo ==
    ASSUME NEW s \in Seq(Half), Len(s) > 0
    PROVE  LET cut == Overflow(s)
           IN  /\ SubSeq(s, 1, cut) \in Seq(Half)
               /\ SubSeq(s, cut + 1, Len(s)) \in Seq(Half)
               /\ Len(SubSeq(s, cut + 1, Len(s))) <= BufferSize
               /\ SubSeq(s, 1, cut) \o SubSeq(s, cut + 1, Len(s)) = s
<1>. DEFINE c == Overflow(s)
            n == Len(s)
<1>1. n \in Nat /\ n > 0 /\ BufferSize \in Nat /\ BufferSize > 0
  BY BufferAssumption
<1>2. c \in 0..n /\ n - c <= BufferSize
  <2>1. c = ((n - 1) \div BufferSize) * BufferSize
    BY DEF Overflow
  <2>. HIDE DEF c, n
  <2>. QED BY <1>1, <2>1, WholeBuffers
<1>. HIDE DEF c
<1>3. \A k \in 1..n : s[k] \in Half
  OBVIOUS
<1>4. SubSeq(s, 1, c) \in Seq(Half)
  <2>1. \A k \in 1..c : s[k] \in Half
    BY <1>1, <1>2, <1>3
  <2>2. c \in Int
    BY <1>2
  <2>. QED BY <2>1, <2>2, SubSeqProperties
<1>5. /\ SubSeq(s, c + 1, n) \in Seq(Half)
      /\ Len(SubSeq(s, c + 1, n)) <= BufferSize
  <2>1. \A k \in (c + 1)..n : s[k] \in Half
    BY <1>1, <1>2, <1>3
  <2>2. c + 1 \in Int /\ n \in Int
    BY <1>1, <1>2
  <2>3. /\ SubSeq(s, c + 1, n) \in Seq(Half)
        /\ Len(SubSeq(s, c + 1, n)) = IF c + 1 <= n THEN n - (c + 1) + 1 ELSE 0
    BY <2>1, <2>2, SubSeqProperties
  <2>4. (IF c + 1 <= n THEN n - (c + 1) + 1 ELSE 0) <= BufferSize
    <3>. HIDE DEF n
    <3>. QED BY <1>1, <1>2
  <2>. QED BY <2>3, <2>4
<1>6. SubSeq(s, 1, c) \o SubSeq(s, c + 1, n) = s
  <2>1. SubSeq(s, 1, n) = s
    BY SubSeqFull
  <2>2. SubSeq(s, 1, c) \o SubSeq(s, c + 1, n) = SubSeq(s, 1, n)
    <3>1. 1 \in 1..(n + 1) /\ c \in (1 - 1)..n /\ n \in c..n
      <4>. HIDE DEF n
      <4>. QED BY <1>1, <1>2
    <3>. QED BY <3>1, ConcatAdjacentSubSeq
  <2>. QED BY <2>1, <2>2
<1>. QED BY <1>4, <1>5, <1>6 DEF c

(***************************************************************************)
(* Nothing is written before the first execution.                          *)
(***************************************************************************)
LEMMA ResultsStart == SearcherInit => ResultsInv
<1>. SUFFICES ASSUME SearcherInit PROVE ResultsInv
  OBVIOUS
<1>1. /\ rdf = Absent /\ at = "idle" /\ line = 0 /\ model = {}
      /\ rows = <<>> /\ buffer = <<>> /\ results = <<>> /\ written = <<>>
      /\ needs \in NeedsFiles \cup {NoNeeds}
  BY DEF SearcherInit, RdfInit
<1>2. SearcherTypeOK
  <2>1. /\ rows \in Seq(DocumentsOf(model)) /\ buffer \in Text /\ results \in Text
        /\ written \in Seq(ResultLine)
    BY <1>1 DEF Text
  <2>2. Len(buffer) <= BufferSize
    BY <1>1, BufferAssumption
  <2>3. needs # NoNeeds => line \in 0..Len(needs)
    <3>1. needs # NoNeeds => needs \in Seq(ToSet(needs))
      BY <1>1, NeedsAssumption
    <3>2. needs # NoNeeds => Len(needs) \in Nat
      BY <3>1
    <3>. QED BY <1>1, <3>2
  <2>. QED BY <1>1, <2>1, <2>2, <2>3 DEF SearcherTypeOK
<1>3. FileInv
  <2>1. results \o buffer = TextOf(written)
    BY <1>1, TextEmpty
  <2>2. /\ results \in Text /\ buffer \in Text /\ Len(buffer) <= BufferSize
        /\ written \in Seq(ResultLine)
    BY <1>2 DEF SearcherTypeOK
  <2>3. LosesAtMostABuffer
    BY <2>1, <2>2, BeginningLosesLittle DEF LosesAtMostABuffer
  <2>. QED BY <1>1, <2>3 DEF FileInv
<1>. QED BY <1>1, <1>2, <1>3 DEF ResultsInv, StageInv, AnswersInv

(***************************************************************************)
(* What does not touch the file, and leaves the execution.                 *)
(***************************************************************************)
LEMMA FileRests ==
    ASSUME FileInv, UNCHANGED <<results, written>>, at' \notin {"opened", "asking", "done"}
    PROVE  FileInv'
BY DEF FileInv, LosesAtMostABuffer

(***************************************************************************)
(* The file and the buffer together are the lines written.                 *)
(***************************************************************************)
LEMMA FileFollows ==
    ASSUME results' \in Text, buffer' \in Text, Len(buffer') <= BufferSize,
           written' \in Seq(ResultLine), results' \o buffer' = TextOf(written'),
           at' = "done" => buffer' = <<>>
    PROVE  FileInv'
<1>1. LosesAtMostABuffer'
  BY BeginningLosesLittle DEF LosesAtMostABuffer
<1>. QED BY <1>1 DEF FileInv

(***************************************************************************)
(* An execution begins, with the RDF file it finds or without one that can *)
(* be loaded.                                                              *)
(***************************************************************************)
LEMMA LoadHolds ==
    ASSUME ResultsInv, NEW lines \in NeedsFiles \cup {NoNeeds}, Load(lines)
    PROVE  ResultsInv'
<1>1. SearcherTypeOK'
  <2>1. lines # NoNeeds => Len(lines) \in Nat
    <3>1. lines # NoNeeds => lines \in Seq(ToSet(lines))
      BY NeedsAssumption
    <3>. QED BY <3>1
  <2>2. rdf \in Graph
    BY DEF Load, Loadable, ResultsInv, StageInv, Whole
  <2>3. rows' \in Seq(DocumentsOf(model')) /\ buffer' \in Text /\ Len(buffer') <= BufferSize
    BY BufferAssumption DEF Load, Text
  <2>. QED BY <2>1, <2>2, <2>3 DEF Load, ResultsInv, SearcherTypeOK
<1>2. StageInv'
  BY DEF Load, Loadable, ResultsInv, StageInv
<1>3. FileInv'
  BY FileRests DEF Load, ResultsInv
<1>4. AnswersInv'
  BY DEF Load, AnswersInv
<1>. QED BY <1>1, <1>2, <1>3, <1>4 DEF ResultsInv

(***************************************************************************)
(* An execution that cannot load the RDF file leaves the results as they   *)
(* were.                                                                   *)
(***************************************************************************)
LEMMA FailToLoadHolds == ASSUME ResultsInv, FailToLoad PROVE ResultsInv'
<1>1. SearcherTypeOK'
  <2>1. buffer' \in Text /\ Len(buffer') <= BufferSize
    BY BufferAssumption DEF FailToLoad, Text
  <2>. QED BY <2>1 DEF FailToLoad, ResultsInv, SearcherTypeOK
<1>2. StageInv'
  BY DEF FailToLoad, ResultsInv, StageInv
<1>3. FileInv'
  BY FileRests DEF FailToLoad, ResultsInv
<1>4. AnswersInv'
  BY DEF FailToLoad, AnswersInv
<1>. QED BY <1>1, <1>2, <1>3, <1>4 DEF ResultsInv

(***************************************************************************)
(* The results file is opened and is empty from then on.                   *)
(***************************************************************************)
LEMMA OpenResultsHolds == ASSUME ResultsInv, OpenResults PROVE ResultsInv'
<1>1. SearcherTypeOK'
  <2>1. results' \in Text /\ written' \in Seq(ResultLine)
    BY DEF OpenResults, Text
  <2>. QED BY <2>1 DEF OpenResults, ResultsInv, SearcherTypeOK
<1>2. StageInv'
  BY DEF OpenResults, ResultsInv, StageInv
<1>3. FileInv'
  <2>1. results' = <<>> /\ buffer' = <<>> /\ written' = <<>>
    BY DEF OpenResults, ResultsInv, StageInv
  <2>2. results' \o buffer' = TextOf(written')
    BY <2>1, TextEmpty
  <2>3. /\ results' \in Text /\ buffer' \in Text /\ Len(buffer') <= BufferSize
        /\ written' \in Seq(ResultLine)
    BY <1>1 DEF SearcherTypeOK
  <2>. QED BY <2>1, <2>2, <2>3, FileFollows
<1>4. AnswersInv'
  BY DEF OpenResults, AnswersInv
<1>. QED BY <1>1, <1>2, <1>3, <1>4 DEF ResultsInv

(***************************************************************************)
(* The needs file is opened, or it is not there.                           *)
(***************************************************************************)
LEMMA OpenNeedsHolds == ASSUME ResultsInv, OpenNeeds PROVE ResultsInv'
<1>0. /\ at = "opened" /\ UNCHANGED <<rdf, needs, line, model, rows, buffer, results, written>>
      /\ (at' = "failed" /\ needs = NoNeeds) \/ (at' = "asking" /\ needs \in NeedsFiles)
  BY DEF OpenNeeds, ResultsInv, SearcherTypeOK
<1>1. SearcherTypeOK'
  BY <1>0 DEF ResultsInv, SearcherTypeOK
<1>2. StageInv'
  BY <1>0 DEF ResultsInv, StageInv
<1>3. FileInv'
  BY <1>0 DEF ResultsInv, FileInv, LosesAtMostABuffer
<1>4. AnswersInv'
  <2>1. line' = 0 /\ written' = <<>> /\ rows' = <<>>
    BY <1>0 DEF ResultsInv, StageInv
  <2>2. 1..line' = {} /\ 1..Len(written') = {}
    BY <2>1
  <2>. QED BY <2>1, <2>2 DEF AnswersInv, NeedsKnown, LinesKnown, LinesOrdered, AllAnswered
<1>. QED BY <1>1, <1>2, <1>3, <1>4 DEF ResultsInv

(***************************************************************************)
(* An execution stops where it is; others write the RDF file.              *)
(***************************************************************************)
LEMMA StopHolds ==
    ASSUME ResultsInv, at' = "failed",
           UNCHANGED <<rdf, needs, line, model, rows, buffer, results, written>>
    PROVE  ResultsInv'
<1>1. SearcherTypeOK'
  BY DEF ResultsInv, SearcherTypeOK
<1>2. StageInv'
  BY DEF ResultsInv, StageInv
<1>3. FileInv'
  BY FileRests DEF ResultsInv
<1>4. AnswersInv'
  BY DEF AnswersInv
<1>. QED BY <1>1, <1>2, <1>3, <1>4 DEF ResultsInv

(***************************************************************************)
(* What the answers so far depend on.                                      *)
(***************************************************************************)
LEMMA AnswersRest ==
    ASSUME AnswersInv, UNCHANGED <<at, needs, line, model, rows, written>>
    PROVE  AnswersInv'
BY DEF AnswersInv, NeedsKnown, LinesKnown, LinesOrdered, AllAnswered, ToCome, AnswerFor

(***************************************************************************)
(* The generator writes the RDF file meanwhile: the graph in memory is     *)
(* another.                                                                *)
(***************************************************************************)
LEMMA RdfHolds == ASSUME ResultsInv, RdfNext, UNCHANGED searcherVars PROVE ResultsInv'
<1>0. UNCHANGED <<at, needs, line, model, rows, buffer, results, written>>
  BY DEF searcherVars
<1>1. rdf' = Truncated \/ Whole(rdf')
  BY DEF RdfNext, Empty, Fill, Whole
<1>2. SearcherTypeOK'
  BY <1>0, <1>1 DEF ResultsInv, SearcherTypeOK, Whole
<1>3. StageInv'
  <2>1. AtEnd' <=> AtEnd
    BY <1>0 DEF AtEnd
  <2>. QED BY <1>0, <1>1, <2>1 DEF ResultsInv, StageInv
<1>4. FileInv'
  BY <1>0 DEF ResultsInv, FileInv, LosesAtMostABuffer
<1>5. AnswersInv'
  BY <1>0, AnswersRest DEF ResultsInv
<1>. QED BY <1>2, <1>3, <1>4, <1>5 DEF ResultsInv

(***************************************************************************)
(* Nothing happens.                                                        *)
(***************************************************************************)
LEMMA StandHolds == ASSUME ResultsInv, UNCHANGED allVars PROVE ResultsInv'
<1>0. UNCHANGED <<rdf, at, needs, line, model, rows, buffer, results, written>>
  BY DEF allVars, searcherVars
<1>2. SearcherTypeOK'
  BY <1>0 DEF ResultsInv, SearcherTypeOK
<1>3. StageInv'
  <2>1. AtEnd' <=> AtEnd
    BY <1>0 DEF AtEnd
  <2>. QED BY <1>0, <2>1 DEF ResultsInv, StageInv
<1>4. FileInv'
  BY <1>0 DEF ResultsInv, FileInv, LosesAtMostABuffer
<1>5. AnswersInv'
  BY <1>0, AnswersRest DEF ResultsInv
<1>. QED BY <1>2, <1>3, <1>4, <1>5 DEF ResultsInv

(***************************************************************************)
(* The file is closed and the buffer goes to it.                           *)
(***************************************************************************)
LEMMA CloseHolds == ASSUME ResultsInv, Close PROVE ResultsInv'
<1>0. /\ at = "asking" /\ rows = <<>> /\ AtEnd /\ at' = "done"
      /\ results' = results \o buffer /\ buffer' = <<>>
      /\ UNCHANGED <<rdf, needs, line, model, rows, written>>
  BY DEF Close, AtLine
<1>1. results' = TextOf(written') /\ results' \in Text
  <2>1. results \o buffer = TextOf(written)
    BY <1>0 DEF ResultsInv, FileInv
  <2>2. results \in Seq(Half) /\ buffer \in Seq(Half)
    BY TextIsHalves DEF ResultsInv, SearcherTypeOK
  <2>3. results \o buffer \in Seq(Half)
    BY <2>2, ConcatProperties
  <2>. QED BY <1>0, <2>1, <2>3, TextIsHalves
<1>2. buffer' \in Text /\ Len(buffer') <= BufferSize /\ Len(buffer') = 0
  BY <1>0, BufferAssumption DEF Text
<1>3. SearcherTypeOK'
  BY <1>0, <1>1, <1>2 DEF ResultsInv, SearcherTypeOK
<1>4. StageInv'
  <2>1. AtEnd' <=> AtEnd
    BY <1>0 DEF AtEnd
  <2>. QED BY <1>0, <2>1 DEF ResultsInv, StageInv
<1>5. FileInv'
  <2>1. results' \o buffer' = TextOf(written')
    <3>1. results' \in Seq(Half)
      BY <1>1, TextIsHalves
    <3>. QED BY <1>0, <1>1, <3>1, ConcatEmptySeq
  <2>2. written' \in Seq(ResultLine)
    BY <1>3 DEF SearcherTypeOK
  <2>. QED BY <1>0, <1>1, <1>2, <2>1, <2>2, FileFollows
<1>6. AnswersInv'
  BY <1>0 DEF ResultsInv, AnswersInv, NeedsKnown, LinesKnown, LinesOrdered, AllAnswered,
              ToCome, AnswerFor
<1>. QED BY <1>3, <1>4, <1>5, <1>6 DEF ResultsInv

(***************************************************************************)
(* What is assumed of a needs file, by the name Queries.                   *)
(***************************************************************************)
LEMMA QueriesHaveIds ==
    ASSUME NEW lines \in NeedsFiles
    PROVE  /\ Len(lines) \in Nat
           /\ \A n \in Queries(lines) : lines[n].id \in STRING
           /\ \A m, n \in Queries(lines) : lines[m].id = lines[n].id => m = n
<1>1. lines \in Seq(ToSet(lines))
  BY NeedsAssumption
<1>2. Len(lines) \in Nat
  BY <1>1
<1>3. /\ \A n \in Queries(lines) : lines[n].id \in STRING
      /\ \A m, n \in Queries(lines) : lines[m].id = lines[n].id => m = n
  BY NeedsAssumption DEF Queries
<1>. QED BY <1>2, <1>3

(***************************************************************************)
(* The solutions of a query in some order: each document as often as it is *)
(* one.                                                                    *)
(***************************************************************************)
LEMMA RowsAre ==
    ASSUME NEW g, NEW q, NEW r \in Rows(g, q)
    PROVE  /\ r \in Seq(DocumentsOf(g))
           /\ \A d \in DocumentsOf(g) : Cardinality(Places(r, d)) = Hits(g, q, d)
<1>1. PICK m \in 0..Cardinality(Solutions(g, q)) : r \in [1..m -> DocumentsOf(g)]
  BY DEF Rows, SeqOf
<1>2. m \in Nat
  OBVIOUS
<1>3. r \in Seq(DocumentsOf(g))
  BY <1>1, <1>2
<1>4. \A d \in DocumentsOf(g) : Cardinality(Places(r, d)) = Hits(g, q, d)
  BY DEF Rows, Places
<1>. QED BY <1>3, <1>4

(***************************************************************************)
(* A query is run: its solutions are all to come.                          *)
(***************************************************************************)
LEMMA RunQueryHolds == ASSUME ResultsInv, RunQuery PROVE ResultsInv'
<1>0. /\ at = "asking" /\ rows = <<>> /\ line < Len(needs) /\ needs[line + 1] # Blank
      /\ needs[line + 1] # Unrunnable /\ line' = line + 1
      /\ rows' \in Rows(model, needs[line + 1])
      /\ UNCHANGED <<rdf, at, needs, model, buffer, results, written>>
  BY DEF RunQuery, AtLine, AtEnd
<1>1. /\ needs \in NeedsFiles
      /\ Len(needs) \in Nat
      /\ \A m, n \in Queries(needs) : needs[m].id = needs[n].id => m = n
  <2>1. needs \in NeedsFiles
    BY <1>0 DEF ResultsInv, StageInv
  <2>. QED BY <2>1, QueriesHaveIds
<1>2. line \in 0..Len(needs) /\ line \in Nat /\ line + 1 \in 1..Len(needs)
  <2>1. needs # NoNeeds => line \in 0..Len(needs)
    BY DEF ResultsInv, SearcherTypeOK
  <2>2. line \in 0..Len(needs)
    <3>1. needs # NoNeeds
      BY <1>1, NeedsAssumption
    <3>. QED BY <2>1, <3>1
  <2>. QED BY <1>0, <1>1, <2>2
<1>3. /\ rows' \in Seq(DocumentsOf(model))
      /\ \A d \in DocumentsOf(model) :
            Cardinality(Places(rows', d)) = Hits(model, needs[line + 1], d)
  BY <1>0, RowsAre
<1>4. SearcherTypeOK'
  BY <1>0, <1>2, <1>3 DEF ResultsInv, SearcherTypeOK
<1>5. StageInv'
  BY <1>0 DEF ResultsInv, StageInv
<1>6. FileInv'
  BY <1>0 DEF ResultsInv, FileInv, LosesAtMostABuffer
<1>7. NeedsKnown /\ LinesKnown /\ LinesOrdered /\ AllAnswered
  BY <1>0 DEF ResultsInv, AnswersInv
<1>8. line + 1 \in Queries(needs) /\ \A n : n \in 1..(line + 1) <=> n \in 1..line \/ n = line + 1
  BY <1>0, <1>2 DEF Queries
<1>9. NeedsKnown'
  <2>1. 1..line \subseteq Queries(needs)
    BY <1>7 DEF NeedsKnown
  <2>2. 1..(line + 1) \subseteq Queries(needs)
    BY <1>8, <2>1
  <2>3. line + 1 > 0
    BY <1>2
  <2>. QED BY <1>0, <2>2, <2>3 DEF NeedsKnown
<1>10. LinesKnown'
  BY <1>0, <1>7, <1>8 DEF LinesKnown
<1>11. ASSUME NEW m \in 1..Len(written) PROVE written[m].need # needs[line + 1].id
  <2>1. PICK n \in 1..line : written[m].need = needs[n].id
    BY <1>7 DEF LinesKnown
  <2>2. n \in Queries(needs)
    BY <1>7 DEF NeedsKnown
  <2>3. n # line + 1
    BY <1>2
  <2>. QED BY <1>1, <1>8, <2>1, <2>2, <2>3
<1>12. LinesOrdered'
  <2>1. SUFFICES ASSUME NEW m \in 1..Len(written), NEW n \in 1..Len(written),
                        NEW k \in 1..(line + 1), NEW l \in 1..(line + 1), m < n,
                        written[m].need = needs[k].id, written[n].need = needs[l].id
                 PROVE  k <= l
    BY <1>0 DEF LinesOrdered
  <2>2. k # line + 1 /\ l # line + 1
    BY <1>11, <2>1
  <2>3. k \in 1..line /\ l \in 1..line
    BY <1>8, <2>2
  <2>. QED BY <1>7, <2>1, <2>3 DEF LinesOrdered
<1>13. AllAnswered'
  <2>1. SUFFICES ASSUME NEW n \in 1..(line + 1), NEW d \in DocumentsOf(model)
                 PROVE  Cardinality(Places(written, AnswerFor(n, d))) + ToCome(n, d)'
                          = Hits(model, needs[n], d)
    BY <1>0 DEF AllAnswered, AnswerFor
  <2>2. written \in Seq(ResultLine)
    BY DEF ResultsInv, SearcherTypeOK
  <2>3. Cardinality(Places(written, AnswerFor(n, d))) \in Nat
    BY <2>2, PlacesFinite
  <2>4. CASE n \in 1..line
    <3>1. ToCome(n, d)' = 0
      BY <1>0, <1>2, <2>4 DEF ToCome
    <3>2. Cardinality(Places(<<>>, d)) = 0
      <4>1. <<>> \in Seq({}) /\ \A m \in 1..Len(<<>>) : <<>>[m] # d
        OBVIOUS
      <4>. QED BY <4>1, PlacesNone
    <3>3. ToCome(n, d) = 0
      BY <1>0, <3>2 DEF ToCome
    <3>4. Cardinality(Places(written, AnswerFor(n, d))) + ToCome(n, d) = Hits(model, needs[n], d)
      BY <1>7, <2>4 DEF AllAnswered
    <3>. QED BY <3>1, <3>3, <3>4
  <2>5. CASE n = line + 1
    <3>1. \A m \in 1..Len(written) : written[m] # AnswerFor(n, d)
      BY <1>11, <2>5 DEF AnswerFor
    <3>2. Cardinality(Places(written, AnswerFor(n, d))) = 0
      BY <2>2, <3>1, PlacesNone
    <3>3. ToCome(n, d)' = Hits(model, needs[n], d)
      BY <1>0, <1>3, <2>5 DEF ToCome
    <3>4. ToCome(n, d)' \in Nat
      <4>1. Cardinality(Places(rows', d)) \in Nat
        BY <1>3, PlacesFinite
      <4>. QED BY <1>0, <2>5, <4>1 DEF ToCome
    <3>5. 0 + ToCome(n, d)' = ToCome(n, d)'
      BY <3>4
    <3>. QED BY <3>2, <3>3, <3>5
  <2>. QED BY <1>8, <2>4, <2>5
<1>14. AnswersInv'
  BY <1>0, <1>9, <1>10, <1>12, <1>13 DEF AnswersInv
<1>. QED BY <1>4, <1>5, <1>6, <1>14 DEF ResultsInv

(***************************************************************************)
(* What is said of sequences of halves by name, for the steps below.       *)
(***************************************************************************)
LEMMA HalvesJoin == ASSUME NEW r \in Seq(Half), NEW b \in Seq(Half), NEW h \in Seq(Half)
                    PROVE  /\ r \o b \in Seq(Half) /\ Len(r \o b) = Len(r) + Len(b)
                           /\ r \o (b \o h) = (r \o b) \o h
<1>1. r \o b \in Seq(Half) /\ Len(r \o b) = Len(r) + Len(b)
  BY ConcatProperties
<1>2. r \o (b \o h) = (r \o b) \o h
  BY ConcatAssociative
<1>. QED BY <1>1, <1>2

(***************************************************************************)
(* A line is written: one solution less to come, one more in the file.     *)
(***************************************************************************)
LEMMA WriteRowHolds == ASSUME ResultsInv, WriteRow PROVE ResultsInv'
<1>. DEFINE l == [need |-> needs[line].id, doc |-> Head(rows)]
            text == buffer \o Halves(l)
            cut == Overflow(text)
<1>0. /\ at = "asking" /\ rows # <<>>
      /\ rows' = Tail(rows) /\ written' = Append(written, l)
      /\ results' = results \o SubSeq(text, 1, cut)
      /\ buffer' = SubSeq(text, cut + 1, Len(text))
      /\ UNCHANGED <<rdf, at, needs, line, model>>
  BY DEF WriteRow
<1>1. /\ needs \in NeedsFiles
      /\ Len(needs) \in Nat
      /\ \A n \in Queries(needs) : needs[n].id \in STRING
      /\ \A m, n \in Queries(needs) : needs[m].id = needs[n].id => m = n
  <2>1. needs \in NeedsFiles
    BY <1>0 DEF ResultsInv, StageInv
  <2>. QED BY <2>1, QueriesHaveIds
<1>2. NeedsKnown /\ LinesKnown /\ LinesOrdered /\ AllAnswered
  BY <1>0 DEF ResultsInv, AnswersInv
<1>3. line \in Nat /\ line \in 1..line /\ 1..line \subseteq Queries(needs)
  <2>1. needs # NoNeeds
    BY <1>1, NeedsAssumption
  <2>2. line \in 0..Len(needs)
    BY <2>1 DEF ResultsInv, SearcherTypeOK
  <2>3. line > 0 /\ 1..line \subseteq Queries(needs)
    BY <1>0, <1>2 DEF NeedsKnown
  <2>4. line \in Nat
    BY <1>1, <2>2
  <2>. QED BY <2>3, <2>4
<1>4. /\ rows \in Seq(DocumentsOf(model)) /\ Head(rows) \in DocumentsOf(model)
      /\ Tail(rows) \in Seq(DocumentsOf(model))
  <2>1. rows \in Seq(DocumentsOf(model))
    BY DEF ResultsInv, SearcherTypeOK
  <2>. QED BY <1>0, <2>1, HeadTailProperties
<1>5. DocumentsOf(model) \subseteq STRING
  BY <1>0, GraphAssumption DEF ResultsInv, StageInv, Whole
<1>6. /\ l \in ResultLine /\ l = AnswerFor(line, Head(rows))
      /\ l.need = needs[line].id /\ l.doc = Head(rows)
  <2>1. needs[line].id \in STRING /\ Head(rows) \in STRING
    BY <1>1, <1>3, <1>4, <1>5
  <2>. QED BY <2>1 DEF ResultLine, AnswerFor
<1>7. /\ written \in Seq(ResultLine) /\ buffer \in Seq(Half) /\ results \in Seq(Half)
      /\ results \o buffer = TextOf(written)
  BY <1>0, TextIsHalves DEF ResultsInv, SearcherTypeOK, FileInv
<1>. HIDE DEF l
<1>8. Halves(l) \in Seq(Half) /\ Len(Halves(l)) = 2
  BY <1>6, HalvesAre
<1>9. text \in Seq(Half) /\ Len(text) > 0
  <2>. DEFINE h == Halves(l)
  <2>0. /\ buffer \o h \in Seq(Half) /\ Len(buffer \o h) = Len(buffer) + Len(h)
        /\ Len(h) = 2
    <3>1. h \in Seq(Half) /\ Len(h) = 2
      BY <1>8
    <3>. HIDE DEF h
    <3>. QED BY <1>7, <3>1, HalvesJoin
  <2>1. text \in Seq(Half) /\ Len(text) = Len(buffer) + 2
    BY <2>0
  <2>2. Len(buffer) \in Nat
    BY <1>7
  <2>. QED BY <2>1, <2>2
<1>. HIDE DEF text
<1>10. /\ SubSeq(text, 1, cut) \in Seq(Half) /\ SubSeq(text, cut + 1, Len(text)) \in Seq(Half)
       /\ Len(SubSeq(text, cut + 1, Len(text))) <= BufferSize
       /\ SubSeq(text, 1, cut) \o SubSeq(text, cut + 1, Len(text)) = text
  BY <1>9, CutInTwo
<1>11. /\ results' \in Seq(Half) /\ buffer' \in Seq(Half) /\ Len(buffer') <= BufferSize
       /\ written' \in Seq(ResultLine)
  <2>1. results \o SubSeq(text, 1, cut) \in Seq(Half)
    BY <1>7, <1>10, ConcatProperties
  <2>2. Append(written, l) \in Seq(ResultLine)
    BY <1>6, <1>7, AppendProperties
  <2>. QED BY <1>0, <1>10, <2>1, <2>2
<1>12. results' \o buffer' = TextOf(written')
  <2>. DEFINE a == SubSeq(text, 1, cut)
              b == SubSeq(text, cut + 1, Len(text))
  <2>1. a \in Seq(Half) /\ b \in Seq(Half) /\ a \o b = text
    BY <1>10
  <2>2. results' = results \o a /\ buffer' = b
    BY <1>0
  <2>. HIDE DEF a, b
  <2>3. (results \o a) \o b = results \o (a \o b)
    BY <1>7, <2>1, HalvesJoin
  <2>4. results \o (buffer \o Halves(l)) = (results \o buffer) \o Halves(l)
    BY <1>7, <1>8, HalvesJoin
  <2>5. TextOf(Append(written, l)) = TextOf(written) \o Halves(l)
    BY <1>6, <1>7, TextAppend
  <2>6. a \o b = buffer \o Halves(l)
    BY <2>1 DEF text
  <2>. QED BY <1>0, <1>7, <2>2, <2>3, <2>4, <2>5, <2>6
<1>13. SearcherTypeOK'
  BY <1>0, <1>4, <1>11, TextIsHalves DEF ResultsInv, SearcherTypeOK
<1>14. StageInv'
  BY <1>0 DEF ResultsInv, StageInv
<1>15. FileInv'
  <2>1. results' \in Text /\ buffer' \in Text
    BY <1>11, TextIsHalves
  <2>2. at' # "done"
    BY <1>0
  <2>. QED BY <1>11, <1>12, <2>1, <2>2, FileFollows
<1>. DEFINE n0 == Len(written)
<1>16. /\ n0 \in Nat /\ Len(written') = n0 + 1 /\ written'[n0 + 1] = l
       /\ \A m \in 1..n0 : written'[m] = written[m]
  BY <1>0, <1>6, <1>7, AppendProperties
<1>17. \A m \in 1..Len(written') : m \in 1..n0 \/ m = n0 + 1
  <2>. HIDE DEF n0
  <2>. QED BY <1>16
<1>18. NeedsKnown'
  <2>1. line > 0
    BY <1>3
  <2>. QED BY <1>0, <1>3, <2>1 DEF NeedsKnown
<1>19. LinesKnown'
  <2>1. SUFFICES ASSUME NEW m \in 1..Len(written')
                 PROVE  \E n \in 1..line : /\ written'[m].need = needs[n].id
                                           /\ written'[m].doc \in DocumentsOf(model)
    BY <1>0 DEF LinesKnown
  <2>2. CASE m \in 1..n0
    BY <1>2, <1>16, <2>2 DEF LinesKnown
  <2>3. CASE m = n0 + 1
    BY <1>3, <1>4, <1>6, <1>16, <2>3
  <2>. QED BY <1>17, <2>2, <2>3
<1>20. LinesOrdered'
  <2>1. SUFFICES ASSUME NEW m \in 1..Len(written'), NEW n \in 1..Len(written'),
                        NEW j \in 1..line, NEW k \in 1..line, m < n,
                        written'[m].need = needs[j].id, written'[n].need = needs[k].id
                 PROVE  j <= k
    BY <1>0 DEF LinesOrdered
  <2>2. CASE n \in 1..n0
    <3>1. m \in 1..n0
      BY <1>16, <2>1, <2>2
    <3>2. written'[m] = written[m] /\ written'[n] = written[n]
      BY <1>16, <2>2, <3>1
    <3>. QED BY <1>2, <2>1, <2>2, <3>1, <3>2 DEF LinesOrdered
  <2>3. CASE n = n0 + 1
    <3>1. needs[k].id = needs[line].id
      BY <1>6, <1>16, <2>1, <2>3
    <3>2. k = line
      BY <1>1, <1>3, <3>1
    <3>. QED BY <1>3, <3>2
  <2>. QED BY <1>17, <2>2, <2>3
<1>21. AllAnswered'
  <2>1. SUFFICES ASSUME NEW n \in 1..line, NEW d \in DocumentsOf(model)
                 PROVE  Cardinality(Places(written', AnswerFor(n, d))) + ToCome(n, d)'
                          = Hits(model, needs[n], d)
    BY <1>0 DEF AllAnswered, AnswerFor
  <2>. DEFINE a == AnswerFor(n, d)
              x == Cardinality(Places(written, a))
              y == Cardinality(Places(Tail(rows), d))
  <2>2. Cardinality(Places(written', a)) = x + (IF l = a THEN 1 ELSE 0)
    <3>. HIDE DEF a
    <3>. QED BY <1>0, <1>6, <1>7, PlacesAppend
  <2>3. Cardinality(Places(rows, d)) = y + (IF Head(rows) = d THEN 1 ELSE 0)
    BY <1>0, <1>4, PlacesTail
  <2>4. x \in Nat
    <3>. HIDE DEF a
    <3>. QED BY <1>7, PlacesFinite
  <2>5. y \in Nat
    BY <1>4, PlacesFinite
  <2>6. l = a <=> n = line /\ Head(rows) = d
    <3>1. l = a => needs[n].id = needs[line].id
      BY <1>6 DEF AnswerFor
    <3>2. l = a => n = line /\ Head(rows) = d
      BY <1>1, <1>3, <1>6, <3>1 DEF AnswerFor
    <3>. QED BY <1>6, <3>2
  <2>7. x + ToCome(n, d) = Hits(model, needs[n], d)
    BY <1>2 DEF AllAnswered
  <2>8. ToCome(n, d) = IF n = line THEN y + (IF Head(rows) = d THEN 1 ELSE 0) ELSE 0
    <3>. HIDE DEF y
    <3>. QED BY <2>3 DEF ToCome
  <2>9. ToCome(n, d)' = IF n = line THEN y ELSE 0
    BY <1>0 DEF ToCome
  <2>. HIDE DEF x, y, a
  <2>10. x + (IF l = a THEN 1 ELSE 0) + ToCome(n, d)' = x + ToCome(n, d)
    BY <2>4, <2>5, <2>6, <2>8, <2>9
  <2>11. Cardinality(Places(written', a)) + ToCome(n, d)' = Hits(model, needs[n], d)
    BY <2>2, <2>7, <2>10
  <2>. QED BY <2>11 DEF a
<1>22. AnswersInv'
  BY <1>18, <1>19, <1>20, <1>21 DEF AnswersInv
<1>. QED BY <1>13, <1>14, <1>15, <1>22 DEF ResultsInv

(***************************************************************************)
(* Every step.                                                             *)
(***************************************************************************)
LEMMA ResultsStep == ResultsInv /\ [SearcherNext]_allVars => ResultsInv'
<1>. SUFFICES ASSUME ResultsInv, [SearcherNext]_allVars PROVE ResultsInv'
  OBVIOUS
<1>1. ASSUME NEW lines \in NeedsFiles \cup {NoNeeds}, Load(lines) PROVE ResultsInv'
  BY <1>1, LoadHolds
<1>2. CASE FailToLoad
  BY <1>2, FailToLoadHolds
<1>3. CASE OpenResults
  BY <1>3, OpenResultsHolds
<1>4. CASE OpenNeeds
  BY <1>4, OpenNeedsHolds
<1>5. CASE RunQuery
  BY <1>5, RunQueryHolds
<1>6. CASE WriteRow
  BY <1>6, WriteRowHolds
<1>7. CASE Throw
  BY <1>7, StopHolds DEF Throw
<1>8. CASE Close
  BY <1>8, CloseHolds
<1>9. CASE Die
  BY <1>9, StopHolds DEF Die
<1>10. CASE RdfNext /\ UNCHANGED searcherVars
  BY <1>10, RdfHolds
<1>11. CASE UNCHANGED allVars
  BY <1>11, StandHolds
<1>. QED BY <1>1, <1>2, <1>3, <1>4, <1>5, <1>6, <1>7, <1>8, <1>9, <1>10, <1>11
         DEF SearcherNext, Step

(***************************************************************************)
(* The invariant says what the results file promises.                      *)
(***************************************************************************)
LEMMA ResultsSay == ResultsInv => ResultsAreWhole
<1>. SUFFICES ASSUME ResultsInv PROVE ResultsAreWhole
  OBVIOUS
<1>1. SearcherTypeOK /\ LosesAtMostABuffer
  BY DEF ResultsInv, FileInv
<1>2. ClosedResultsAreWhole
  <2>1. SUFFICES ASSUME at = "done"
                 PROVE  /\ results = TextOf(written)
                        /\ \A m \in 1..Len(written) : \E n \in Asked : written[m].need = needs[n].id
                        /\ \A m, n \in 1..Len(written) : \A k, l \in Asked :
                              /\ m < n
                              /\ written[m].need = needs[k].id /\ written[n].need = needs[l].id
                              => k <= l
                        /\ \A n \in Asked : \A d \in DocumentsOf(model) :
                              Cardinality(LinesFor(needs[n], d)) = Hits(model, needs[n], d)
    BY DEF ClosedResultsAreWhole
  <2>2. /\ NeedsKnown /\ LinesKnown /\ LinesOrdered /\ AllAnswered
        /\ rows = <<>> /\ AtEnd /\ needs \in NeedsFiles
    BY <2>1 DEF ResultsInv, AnswersInv, StageInv
  <2>3. results = TextOf(written)
    <3>1. results \o buffer = TextOf(written) /\ buffer = <<>>
      BY <2>1 DEF ResultsInv, FileInv
    <3>2. results \in Seq(Half)
      BY <1>1, TextIsHalves DEF SearcherTypeOK
    <3>. QED BY <3>1, <3>2, ConcatEmptySeq
  <2>4. Len(needs) \in Nat /\ line \in 0..Len(needs)
    <3>1. Len(needs) \in Nat
      BY <2>2, QueriesHaveIds
    <3>2. needs # NoNeeds
      BY <2>2, NeedsAssumption
    <3>. QED BY <1>1, <3>1, <3>2 DEF SearcherTypeOK
  <2>5. \A n \in 1..line : needs[n] # Blank /\ n \in 1..Len(needs)
    BY <2>2 DEF NeedsKnown, Queries
  <2>6. Asked = 1..line
    <3>1. ASSUME NEW n \in Asked PROVE n \in 1..line
      <4>1. n \in 1..Len(needs) /\ \A m \in 1..n : needs[m] # Blank
        BY DEF Asked
      <4>2. CASE line < Len(needs)
        <5>1. needs[line + 1] = Blank
          BY <2>2, <4>2 DEF AtEnd
        <5>2. line + 1 \notin 1..n
          BY <4>1, <5>1
        <5>. QED BY <2>4, <4>1, <5>2
      <4>3. CASE ~(line < Len(needs))
        BY <2>4, <4>1, <4>3
      <4>. QED BY <4>2, <4>3
    <3>2. ASSUME NEW n \in 1..line PROVE n \in Asked
      <4>1. \A m \in 1..n : m \in 1..line
        BY <2>4
      <4>. QED BY <2>5, <4>1 DEF Asked
    <3>. QED BY <3>1, <3>2
  <2>7. ASSUME NEW n \in Asked, NEW d \in DocumentsOf(model)
        PROVE  Cardinality(LinesFor(needs[n], d)) = Hits(model, needs[n], d)
    <3>1. LinesFor(needs[n], d) = Places(written, AnswerFor(n, d))
      BY DEF LinesFor, Places, AnswerFor
    <3>2. Cardinality(Places(<<>>, d)) = 0
      <4>1. <<>> \in Seq({}) /\ \A m \in 1..Len(<<>>) : <<>>[m] # d
        OBVIOUS
      <4>. QED BY <4>1, PlacesNone
    <3>3. ToCome(n, d) = 0
      BY <2>2, <3>2 DEF ToCome
    <3>4. Cardinality(Places(written, AnswerFor(n, d))) \in Nat
      <4>1. written \in Seq(ResultLine)
        BY <1>1 DEF SearcherTypeOK
      <4>. QED BY <4>1, PlacesFinite
    <3>5. Cardinality(Places(written, AnswerFor(n, d))) + ToCome(n, d) = Hits(model, needs[n], d)
      BY <2>2, <2>6 DEF AllAnswered
    <3>. QED BY <3>1, <3>3, <3>4, <3>5
  <2>8. \A m \in 1..Len(written) : \E n \in Asked : written[m].need = needs[n].id
    BY <2>2, <2>6 DEF LinesKnown
  <2>9. \A m, n \in 1..Len(written) : \A k, l \in Asked :
            m < n /\ written[m].need = needs[k].id /\ written[n].need = needs[l].id => k <= l
    BY <2>2, <2>6 DEF LinesOrdered
  <2>. QED BY <2>3, <2>7, <2>8, <2>9
<1>3. ListedDocumentsAreDescribed
  <2>1. SUFFICES ASSUME at \in {"asking", "done"}, NEW m \in 1..Len(written),
                        NEW p \in {"type", "title"}
                 PROVE  written[m].doc \in SubjectsOf(model, p)
    BY DEF ListedDocumentsAreDescribed
  <2>2. written[m].doc \in DocumentsOf(model)
    BY <2>1 DEF ResultsInv, AnswersInv, LinesKnown
  <2>3. Closed(model)
    BY <2>1 DEF ResultsInv, StageInv, Whole
  <2>. QED BY <2>2, <2>3 DEF Closed
<1>. QED BY <1>1, <1>2, <1>3 DEF ResultsAreWhole

(***************************************************************************)
(* However executions end and follow one another, and whoever writes the   *)
(* RDF file meanwhile: the results file has a beginning of the answers of  *)
(* the last execution that opened it, all but a buffer of them at most;    *)
(* when it says it is done, all of them, in the order of the needs, as     *)
(* many for each document as the query has solutions.                      *)
(***************************************************************************)
THEOREM ResultsStayWhole == SearcherSpec => []ResultsAreWhole
BY ResultsStart, ResultsStep, ResultsSay, PTL DEF SearcherSpec
===============================================================================
