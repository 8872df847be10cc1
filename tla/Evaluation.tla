------------------------------ MODULE Evaluation ------------------------------
(***************************************************************************)
(* The evaluation program, Practica5/src/main/java/evaluation: it reads    *)
(* the judgements (qrels) and the results of a search system, computes the *)
(* usual measures for every judged need and for all of them together, and  *)
(* writes the report.                                                      *)
(*                                                                         *)
(* A measure is a double in the code and an exact fraction here.           *)
(***************************************************************************)
EXTENDS Naturals, SequencesExt

CONSTANTS
    Need,           \* identifiers of information needs, none of them "TOTAL"
    DocId,          \* names of documents
    MAX_RES_NEED,   \* results of a need taken into account (45)
    AtK             \* the 10 of the precision at 10

ASSUME EvaluationAssumption ==
    /\ MAX_RES_NEED \in Nat \ {0}
    /\ AtK \in 1..MAX_RES_NEED

VARIABLES
    pc,           \* what main is doing
    relevancias,  \* the judgements of each need that has some
    resultados,   \* the results of each need that has some, best first
    left,         \* the needs that evaluar has not come to yet
    evaluaciones, \* the measures of each need evaluated so far
    total,        \* the measures of the entry TOTAL, or NoTotal
    report        \* what the output file holds

inputs == <<relevancias, resultados>>
vars == <<pc, inputs, left, evaluaciones, total, report>>

-------------------------------------------------------------------------------
(* Fractions.  0/0 is the NaN of the doubles. *)

Frac(n, d) == [num |-> n, den |-> d]

Plus(a, b) == Frac(a.num * b.den + b.num * a.den, a.den * b.den)

LessEq(a, b) == a.num * b.den <= b.num * a.den

Same(a, b) == a.num * b.den = b.num * a.den

SumOf(fracs) ==
    LET sum[k \in 0..Len(fracs)] == IF k = 0 THEN Frac(0, 1) ELSE Plus(sum[k - 1], fracs[k])
    IN  sum[Len(fracs)]

(* A fault of MeanOf: the sum is not divided. *)
MeanUndivided(fracs) == SumOf(fracs)

MeanOf(fracs) == Frac(SumOf(fracs).num, SumOf(fracs).den * Len(fracs))

-------------------------------------------------------------------------------
(* The measures of one need: rec is its list of results, rel its judgements. *)

EsRelevante(rel, doc) == doc \in DOMAIN rel /\ rel[doc]

Relevantes(rel) == {doc \in DOMAIN rel : rel[doc]}

(***************************************************************************)
(* The relevant ones of the first k results, and the ranks of them all in  *)
(* order.  A document that is listed twice has two ranks.                  *)
(***************************************************************************)
PositivosTrue(rec, rel, k) == {i \in 1..k : EsRelevante(rel, rec[i])}

Ranks(rec, rel) ==
    LET all == PositivosTrue(rec, rel, Len(rec))
    IN  [k \in 1..Cardinality(all) |->
            CHOOSE i \in all : Cardinality(PositivosTrue(rec, rel, i)) = k]

PrecisionAtK(rec, rel, k) == Frac(Cardinality(PositivosTrue(rec, rel, k)), k)

Precision(rec, rel) == PrecisionAtK(rec, rel, Len(rec))

AvgPrecision(rec, rel) ==
    LET ranks == Ranks(rec, rel)
    IN  MeanOf([k \in 1..Len(ranks) |-> PrecisionAtK(rec, rel, ranks[k])])

(* A fault of Precisiones: the whole list counts at every rank. *)
PrecisionesDelTotal(rec, rel) ==
    LET ranks == Ranks(rec, rel)
    IN  [k \in 1..Len(ranks) |-> Frac(k, Len(rec))]

Precisiones(rec, rel) ==
    LET ranks == Ranks(rec, rel)
    IN  [k \in 1..Len(ranks) |-> Frac(k, ranks[k])]

(***************************************************************************)
(* One point per relevant document that was retrieved.                     *)
(***************************************************************************)
PuntosPR(rec, rel) ==
    [k \in 1..Cardinality(Relevantes(rel) \cap Range(rec)) |->
        [recall    |-> Frac(k, Cardinality(Relevantes(rel))),
         precision |-> Precisiones(rec, rel)[k]]]

(* A fault of F1Score: the factor 2 is forgotten. *)
F1SinDoble(p, r) == Frac(p.num * r.num, p.num * r.den + r.num * p.den)

F1Score(p, r) == Frac(2 * p.num * r.num, p.num * r.den + r.num * p.den)

Evaluacion(rec, rel) ==
    LET puntos == PuntosPR(rec, rel)
        recall == Last(puntos).recall
    IN  [precision    |-> Precision(rec, rel),
         recall       |-> recall,
         f1score      |-> F1Score(Precision(rec, rel), recall),
         precAt10     |-> PrecisionAtK(rec, rel, AtK),
         avgPrecision |-> AvgPrecision(rec, rel),
         ptosPR       |-> puntos]

(***************************************************************************)
(* The interpolated precision at each of the eleven levels of recall, 0,   *)
(* 0.1 ... 1: the best precision of the points at that level or above.     *)
(***************************************************************************)
N_PTOS_INTER == 11

(* A fault of PrecisionInterpolada: the nearest point, not the best. *)
PrecisionSiguiente(puntos, nivel) ==
    LET above == {k \in 1..Len(puntos) : LessEq(Frac(nivel, 10), puntos[k].recall)}
    IN  IF above = {} THEN Frac(0, 1)
        ELSE puntos[CHOOSE k \in above : \A j \in above : k <= j].precision

PrecisionInterpolada(puntos, nivel) ==
    LET above == {k \in 1..Len(puntos) : LessEq(Frac(nivel, 10), puntos[k].recall)}
    IN  IF above = {} THEN Frac(0, 1)
        ELSE puntos[CHOOSE k \in above : \A j \in above :
                        LessEq(puntos[j].precision, puntos[k].precision)].precision

InterpolarPR(puntos) ==
    [i \in 1..N_PTOS_INTER |-> PrecisionInterpolada(puntos, i - 1)]

(***************************************************************************)
(* The entry TOTAL: each measure is the mean of those of the needs that    *)
(* have been evaluated.                                                    *)
(***************************************************************************)
Promedio(measure, evals) ==
    MeanOf([k \in 1..Cardinality(DOMAIN evals) |->
                evals[SetToSeq(DOMAIN evals)[k]][measure]])

Total(evals) ==
    [precision |-> Promedio("precision", evals),
     recall    |-> Promedio("recall", evals),
     f1score   |-> Promedio("f1score", evals),
     precAt10  |-> Promedio("precAt10", evals),
     map       |-> Promedio("avgPrecision", evals)]

-------------------------------------------------------------------------------
NoEntries == <<>>
NoTotal == <<>>

Init ==
    /\ pc = "qrels"
    /\ relevancias = NoEntries
    /\ resultados = NoEntries
    /\ left = {}
    /\ evaluaciones = NoEntries
    /\ total = NoTotal
    /\ report = "previous"

Goes(from, to) == pc = from /\ pc' = to

(***************************************************************************)
(* map.get(key), where a key without entry has the empty one.              *)
(***************************************************************************)
EntryOf(map, key) == IF key \in DOMAIN map THEN map[key] ELSE <<>>

(***************************************************************************)
(* map.put(key, value).                                                    *)
(***************************************************************************)
Put(map, key, value) ==
    [k \in DOMAIN map \cup {key} |-> IF k = key THEN value ELSE map[k]]

(***************************************************************************)
(* One line of the judgements: the last judgement of a document counts.    *)
(***************************************************************************)
ReadJudgement(need, doc, relevante) ==
    /\ Goes("qrels", "qrels")
    /\ relevancias' =
         Put(relevancias, need, Put(EntryOf(relevancias, need), doc, relevante))
    /\ UNCHANGED <<resultados, left, evaluaciones, total, report>>

(***************************************************************************)
(* The end of the file; a file that cannot be found is an empty one.       *)
(***************************************************************************)
EndOfJudgements ==
    /\ Goes("qrels", "results")
    /\ UNCHANGED <<inputs, left, evaluaciones, total, report>>

(* A fault of Kept: one result too many. *)
KeptOneMore(docs, doc) ==
    IF Len(docs) <= MAX_RES_NEED THEN Append(docs, doc) ELSE docs

Kept(docs, doc) == IF Len(docs) < MAX_RES_NEED THEN Append(docs, doc) ELSE docs

(***************************************************************************)
(* One line of the results: those of a need beyond MAX_RES_NEED are        *)
(* dropped.                                                                *)
(***************************************************************************)
ReadResult(need, doc) ==
    /\ Goes("results", "results")
    /\ resultados' = Put(resultados, need, Kept(EntryOf(resultados, need), doc))
    /\ UNCHANGED <<relevancias, left, evaluaciones, total, report>>

EndOfResults ==
    /\ Goes("results", "evaluating")
    /\ left' = DOMAIN relevancias
    /\ UNCHANGED <<inputs, evaluaciones, total, report>>

(***************************************************************************)
(* A line of either file with too few fields: System.exit(1).              *)
(***************************************************************************)
ShortLine ==
    /\ pc \in {"qrels", "results"}
    /\ pc' = "failed"
    /\ UNCHANGED <<inputs, left, evaluaciones, total, report>>

-------------------------------------------------------------------------------
(* evaluar: one turn of the loop over the judged needs. *)

Comes(need) == pc = "evaluating" /\ need \in left

Retrieves(need) ==
    Relevantes(relevancias[need]) \cap Range(resultados[need]) # {}

(***************************************************************************)
(* resultados.get(need) is null: NullPointerException.                     *)
(***************************************************************************)
NoResults(need) ==
    /\ Comes(need)
    /\ need \notin DOMAIN resultados
    /\ pc' = "failed"
    /\ UNCHANGED <<inputs, left, evaluaciones, total, report>>

(***************************************************************************)
(* No relevant document was retrieved: the need has no measures.           *)
(***************************************************************************)
SkipNeed(need) ==
    /\ Comes(need)
    /\ need \in DOMAIN resultados
    /\ ~Retrieves(need)
    /\ left' = left \ {need}
    /\ UNCHANGED <<pc, inputs, evaluaciones, total, report>>

(* A fault of FewResults: the need is left out as one that found nothing. *)
SkipFewResults(need) ==
    /\ Comes(need)
    /\ need \in DOMAIN resultados
    /\ Retrieves(need)
    /\ Len(resultados[need]) < AtK
    /\ left' = left \ {need}
    /\ UNCHANGED <<pc, inputs, evaluaciones, total, report>>

(***************************************************************************)
(* precisionAtK asks for the AtK-th result: IndexOutOfBoundsException.     *)
(***************************************************************************)
FewResults(need) ==
    /\ Comes(need)
    /\ need \in DOMAIN resultados
    /\ Retrieves(need)
    /\ Len(resultados[need]) < AtK
    /\ pc' = "failed"
    /\ UNCHANGED <<inputs, left, evaluaciones, total, report>>

EvaluateNeed(need) ==
    /\ Comes(need)
    /\ need \in DOMAIN resultados
    /\ Retrieves(need)
    /\ Len(resultados[need]) >= AtK
    /\ evaluaciones' =
         Put(evaluaciones, need, Evaluacion(resultados[need], relevancias[need]))
    /\ left' = left \ {need}
    /\ UNCHANGED <<pc, inputs, total, report>>

EvaluateTotal ==
    /\ left = {}
    /\ Goes("evaluating", "writing")
    /\ total' = Total(evaluaciones)
    /\ UNCHANGED <<inputs, left, evaluaciones, report>>

(***************************************************************************)
(* escribirEvaluaciones: an IOException is printed and main ends well.     *)
(***************************************************************************)
Write ==
    /\ Goes("writing", "done")
    /\ report' = "whole"
    /\ UNCHANGED <<inputs, left, evaluaciones, total>>

WriteFails ==
    /\ Goes("writing", "done")
    /\ report' \in {"previous", "cut"}
    /\ UNCHANGED <<inputs, left, evaluaciones, total>>

Next ==
    \/ \E need \in Need, doc \in DocId, relevante \in BOOLEAN :
          ReadJudgement(need, doc, relevante)
    \/ EndOfJudgements
    \/ \E need \in Need, doc \in DocId : ReadResult(need, doc)
    \/ EndOfResults
    \/ ShortLine
    \/ \E need \in Need : NoResults(need)
    \/ \E need \in Need : SkipNeed(need)
    \/ \E need \in Need : FewResults(need)
    \/ \E need \in Need : EvaluateNeed(need)
    \/ EvaluateTotal
    \/ Write
    \/ WriteFails

Spec == Init /\ [][Next]_vars

-------------------------------------------------------------------------------
TypeOK ==
    /\ pc \in {"qrels", "results", "evaluating", "writing", "done", "failed"}
    /\ DOMAIN relevancias \subseteq Need
    /\ \A need \in DOMAIN relevancias :
          /\ DOMAIN relevancias[need] \in (SUBSET DocId) \ {{}}
          /\ relevancias[need] \in [DOMAIN relevancias[need] -> BOOLEAN]
    /\ DOMAIN resultados \subseteq Need
    /\ \A need \in DOMAIN resultados :
          /\ resultados[need] \in Seq(DocId) \ {<<>>}
          /\ Len(resultados[need]) <= MAX_RES_NEED
    /\ left \subseteq DOMAIN relevancias
    /\ DOMAIN evaluaciones \subseteq DOMAIN relevancias \ left
    /\ total = NoTotal <=> pc \notin {"writing", "done"}
    /\ report \in {"previous", "cut", "whole"}

(***************************************************************************)
(* The points of a need climb to its recall, which is the share of its     *)
(* relevant documents that were retrieved however often they are listed.   *)
(* When no document is listed twice, the k-th point is the precision of    *)
(* the shortest list that has k of the relevant documents.                 *)
(***************************************************************************)
NoRepeats(need) == IsInjective(resultados[need])

Found(need, n) ==
    Cardinality(Relevantes(relevancias[need])
                  \cap {resultados[need][i] : i \in 1..n})

PointsFollowTheRanking ==
    \A need \in DOMAIN evaluaciones :
        LET puntos == evaluaciones[need].ptosPR
            length == Len(resultados[need])
            size   == Cardinality(Relevantes(relevancias[need]))
        IN  /\ Same(evaluaciones[need].recall, Frac(Found(need, length), size))
            /\ \A k \in 1..Len(puntos) : Same(puntos[k].recall, Frac(k, size))
            /\ NoRepeats(need) =>
                 \A k \in 1..Len(puntos) : \E n \in 1..length :
                     /\ Found(need, n) = k /\ Found(need, n - 1) = k - 1
                     /\ Same(puntos[k].precision, Frac(k, n))

(***************************************************************************)
(* Precision and recall count the same documents, and F1 is their overlap  *)
(* with the relevant ones (Dice), exactly when no relevant document is     *)
(* listed twice.  Otherwise the precision counts it twice and is too high; *)
(* it is never too low.                                                    *)
(***************************************************************************)
RepeatsOnlyRaisePrecision ==
    \A need \in DOMAIN evaluaciones :
        LET e      == evaluaciones[need]
            length == Len(resultados[need])
            found  == Found(need, length)
            size   == Cardinality(Relevantes(relevancias[need]))
            clean  == Same(e.precision, Frac(found, length))
        IN  /\ LessEq(Frac(found, length), e.precision)
            /\ clean <=> \A i, j \in 1..length :
                   /\ i # j
                   /\ resultados[need][i] = resultados[need][j]
                   => ~EsRelevante(relevancias[need], resultados[need][i])
            /\ clean => Same(e.f1score, Frac(2 * found, length + size))

(***************************************************************************)
(* The average precision of a need is one of its precisions or between     *)
(* two of them, and the interpolated precision, which starts at the best   *)
(* of the points, never rises and is below none of the points that have    *)
(* its level of recall; it is zero beyond the recall of the need.          *)
(***************************************************************************)
InterpolationNeverRises ==
    \A need \in DOMAIN evaluaciones :
        LET e      == evaluaciones[need]
            puntos == e.ptosPR
            curve  == InterpolarPR(puntos)
        IN  /\ \A i \in 1..(N_PTOS_INTER - 1) : LessEq(curve[i + 1], curve[i])
            /\ \A k \in 1..Len(puntos) : \A i \in 1..N_PTOS_INTER :
                  LessEq(Frac(i - 1, 10), puntos[k].recall)
                     => LessEq(puntos[k].precision, curve[i])
            /\ \A i \in 1..N_PTOS_INTER :
                  curve[i].num = 0 <=> ~LessEq(Frac(i - 1, 10), e.recall)
            /\ \E i, j \in 1..Len(Precisiones(resultados[need], relevancias[need])) :
                  /\ LessEq(Precisiones(resultados[need], relevancias[need])[i],
                            e.avgPrecision)
                  /\ LessEq(e.avgPrecision,
                            Precisiones(resultados[need], relevancias[need])[j])

(***************************************************************************)
(* The report is written for all the judged needs or not at all: one that  *)
(* has no results, or finds something with less than AtK results, takes    *)
(* the measures of all the others with it, and the file of an earlier      *)
(* evaluation is left as it was.  The needs missing from a whole report    *)
(* are those that found nothing.                                           *)
(***************************************************************************)
Evaluable(need) ==
    /\ need \in DOMAIN resultados
    /\ Retrieves(need) => Len(resultados[need]) >= AtK

AllNeedsOrNoReport ==
    /\ pc \in {"writing", "done"} =>
         /\ \A need \in DOMAIN relevancias : Evaluable(need)
         /\ \A need \in DOMAIN relevancias :
               need \in DOMAIN evaluaciones <=> Retrieves(need)
    /\ pc = "failed" => report = "previous"
    /\ pc = "failed" /\ left # {} => \E need \in left : ~Evaluable(need)

(***************************************************************************)
(* Each measure of TOTAL is between the worst and the best of the needs,   *)
(* whatever the order they are added in; it is not a number exactly when   *)
(* no need could be evaluated.                                             *)
(***************************************************************************)
Between(mean, measure) ==
    /\ \E need \in DOMAIN evaluaciones : LessEq(evaluaciones[need][measure], mean)
    /\ \E need \in DOMAIN evaluaciones : LessEq(mean, evaluaciones[need][measure])

TotalIsAMean ==
    total # NoTotal =>
        IF DOMAIN evaluaciones = {}
        THEN \A m \in DOMAIN total : total[m] = Frac(0, 0)
        ELSE /\ \A m \in DOMAIN total \ {"map"} : Between(total[m], m)
             /\ Between(total.map, "avgPrecision")
             /\ \A m \in DOMAIN total :
                   total[m].den > 0 /\ LessEq(total[m], Frac(1, 1))

(***************************************************************************)
(* The measures that the report is made of: the points of every need, its  *)
(* precision, recall and F1 with documents that are listed twice, the      *)
(* interpolated curve, and their means over the needs.                     *)
(***************************************************************************)
MeasuresFollowTheRanking ==
    /\ TypeOK
    /\ PointsFollowTheRanking
    /\ RepeatsOnlyRaisePrecision
    /\ InterpolationNeverRises
    /\ TotalIsAMean

(***************************************************************************)
(* For TLC: the names of the needs are interchangeable, and those of the   *)
(* documents.                                                              *)
(***************************************************************************)
EvaluationSymmetry == Permutations(Need) \cup Permutations(DocId)

(***************************************************************************)
(* The comment in evaluar: "La prec y recall son los del ultimo punto",    *)
(* the precision and the recall of a need are those of its last point.     *)
(***************************************************************************)
PrecisionOfTheLastPoint ==
    \A need \in DOMAIN evaluaciones :
        Same(evaluaciones[need].precision, Last(evaluaciones[need].ptosPR).precision)
===============================================================================
