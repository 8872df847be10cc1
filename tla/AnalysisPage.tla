------------------------------ MODULE AnalysisPage ------------------------------
(***************************************************************************)
(* The analysis page of a core.  The form never asks: it redirects to its  *)
(* own parameters, and the page that is drawn there fills the form from    *)
(* them and asks.  The answer, the tokens after each step of the analysis, *)
(* is drawn as a table with a column for each position.                    *)
(***************************************************************************)
LOCAL INSTANCE Naturals
LOCAL INSTANCE Sequences
LOCAL INSTANCE SequencesExt
LOCAL INSTANCE FiniteSets
LOCAL INSTANCE FiniteSetsExt

CONSTANTS
    Targets,          \* the fields and types of the schema, the first by name being chosen
    DefaultTarget,    \* what is selected if the address names none
    NoTarget,         \* nothing is selected
    Texts,            \* what is typed
    NoWords,          \* the empty text
    Analyses,         \* what the server may answer
    MaxAnalyses       \* bound on the visits

(***************************************************************************)
(* An analysis is the tokens after each step: the position each has there  *)
(* and the one it had first, where the tokens were made.  The step of a    *)
(* character filter is a text without positions.                           *)
(***************************************************************************)
NoPosition == 0
ASSUME AnalysisAssumption ==
    /\ DefaultTarget \in Targets
    /\ NoWords \notin Texts
    /\ \A a \in Analyses : \A i \in DOMAIN a : \A j \in DOMAIN a[i] :
          a[i][j].position \in Nat /\ a[i][j].first \in Nat

VARIABLES
    addresses,        \* the parameters of the visits, in order
    analysing,        \* the requests under way
    form,             \* the page that is drawn: its visit, form and button
    table             \* the result on it

analysisVars == <<addresses, analysing, form, table>>

NoForm == [visit |-> 0]
NoTable == [shown |-> FALSE, of |-> 0, rows |-> <<>>, verbose |-> FALSE, error |-> FALSE]

AnalysisInit == addresses = <<>> /\ analysing = {} /\ form = NoForm /\ table = NoTable
AnalysisRests == TRUE

Here == Len(addresses)
Pending(what, v) == [what |-> what, visit |-> v]

-------------------------------------------------------------------------------
Go(params) ==
    /\ Here < MaxAnalyses
    /\ addresses' = Append(addresses, params)
    /\ analysing' = analysing \cup {Pending("template", Here + 1)}
    /\ UNCHANGED <<form, table>>

(***************************************************************************)
(* An address: the field or type, the text, and whether all is shown;      *)
(* each may be left out.                                                   *)
(***************************************************************************)
Verbosities == {"absent", "0", "1"}
VisitAnalysis(target, text, verbose) ==
    Go([target |-> target, text |-> text, verbose |-> verbose])

DrawForm(v) ==
    /\ Pending("template", v) \in analysing
    /\ analysing' = (analysing \ {Pending("template", v)}) \cup {Pending("luke", v)}
    /\ form' = [visit |-> v, target |-> NoTarget, link |-> NoTarget, text |-> NoWords, active |-> FALSE,
                loading |-> TRUE, broken |-> FALSE, disabled |-> FALSE, edited |-> FALSE]
    /\ table' = NoTable
    /\ UNCHANGED addresses

(***************************************************************************)
(* The options come: one is selected, the form is filled, and if any       *)
(* parameter is there it is executed.  A schema without fields and types   *)
(* has no option, and to split none throws.                                *)
(***************************************************************************)
OnForm(v) == form.visit = v

Selected(p, options) ==
    LET wanted == IF p.target = NoTarget THEN DefaultTarget ELSE p.target
    IN  IF wanted \in options THEN wanted ELSE CHOOSE t \in options : TRUE

Filled(f, p, options) ==
    LET t == Selected(p, options)
    IN  [f EXCEPT !.target = t, !.link = t, !.loading = FALSE,
                  !.text = IF p.text = NoWords THEN @ ELSE p.text,
                  !.active = IF p.verbose = "absent" THEN @ ELSE p.verbose = "1",
                  !.disabled = p # [target |-> NoTarget, text |-> NoWords, verbose |-> "absent"]]

Options_Come(v, options) ==
    /\ Pending("luke", v) \in analysing
    /\ LET p == addresses[v]
           rest == analysing \ {Pending("luke", v)}
           executes == p # [target |-> NoTarget, text |-> NoWords, verbose |-> "absent"]
       IN  IF OnForm(v) /\ options # {}
           THEN /\ form' = Filled(form, p, options)
                /\ table' = IF p.verbose = "absent" THEN table
                            ELSE [table EXCEPT !.verbose = p.verbose = "1"]
                /\ analysing' = rest \cup (IF executes THEN {Pending("field", v)} ELSE {})
           ELSE /\ analysing' = rest
                /\ form' = IF OnForm(v) THEN [form EXCEPT !.broken = TRUE] ELSE form
                /\ UNCHANGED table
    /\ UNCHANGED addresses

(***************************************************************************)
(* What the user does to the form, and its submission.  A redirect to the  *)
(* address where the page is does nothing.                                 *)
(***************************************************************************)
TypeText(text) ==
    /\ form # NoForm
    /\ form' = [form EXCEPT !.text = text, !.edited = TRUE]
    /\ UNCHANGED <<addresses, analysing, table>>

Choose(target) ==
    /\ form # NoForm /\ ~form.loading
    /\ form' = [form EXCEPT !.target = target, !.link = target, !.edited = TRUE]
    /\ UNCHANGED <<addresses, analysing, table>>

FormParams(f) ==
    [target |-> f.target, text |-> f.text, verbose |-> IF f.active THEN "1" ELSE "0"]

Submit_(f) ==
    IF FormParams(f) = addresses[Here] THEN UNCHANGED <<addresses, analysing, table>> /\ form' = f
    ELSE /\ Here < MaxAnalyses
         /\ addresses' = Append(addresses, FormParams(f))
         /\ analysing' = analysing \cup {Pending("template", Here + 1)}
         /\ form' = f
         /\ UNCHANGED table

SubmitForm == form # NoForm /\ ~form.broken /\ ~form.disabled /\ Submit_(form)
ClickVerbose ==
    form # NoForm /\ ~form.broken /\ Submit_([form EXCEPT !.active = ~@, !.edited = TRUE])

-------------------------------------------------------------------------------
(***************************************************************************)
(* build_analysis_table: as many columns as the step with the most         *)
(* different positions has; a step whose first token has no history has    *)
(* one cell over all of them.  A token goes where its first position says, *)
(* and nowhere if there is no such cell.                                   *)
(***************************************************************************)
Positions(step) == {step[j].position : j \in DOMAIN step}

(* A fault of build_analysis_table: only the last step is counted. *)
ColumnsOfLast(a) == Cardinality(Positions(Last(a)))
Columns(a) == Max({Cardinality(Positions(a[i])) : i \in DOMAIN a})

Spans(step) == step = <<>> \/ Head(step).first = NoPosition
Column(token) == IF token.first = NoPosition THEN 1 ELSE token.first

Row(step, columns) ==
    [k \in 1..(IF Spans(step) THEN 1 ELSE columns) |-> SelectSeq(step, LAMBDA t : Column(t) = k)]

Rows(a) == [i \in DOMAIN a |-> Row(a[i], Columns(a))]

Analysed(v, a) ==
    /\ Pending("field", v) \in analysing
    /\ analysing' = analysing \ {Pending("field", v)}
    /\ IF OnForm(v)
       THEN /\ table' = [table EXCEPT !.shown = TRUE, !.of = v, !.error = FALSE,
                                      !.rows = [analysis |-> a, rows |-> Rows(a)]]
            /\ form' = [form EXCEPT !.disabled = FALSE]
       ELSE UNCHANGED <<table, form>>
    /\ UNCHANGED addresses

NotAnalysed(v) ==
    /\ Pending("field", v) \in analysing
    /\ analysing' = analysing \ {Pending("field", v)}
    /\ IF OnForm(v)
       THEN /\ table' = [table EXCEPT !.shown = FALSE, !.error = TRUE]
            /\ form' = [form EXCEPT !.disabled = FALSE]
       ELSE UNCHANGED <<table, form>>
    /\ UNCHANGED addresses

AnalysisLost(v, what) ==
    /\ what \in {"template", "luke"} /\ Pending(what, v) \in analysing
    /\ analysing' = analysing \ {Pending(what, v)}
    /\ form' = IF what = "luke" /\ OnForm(v) THEN [form EXCEPT !.loading = FALSE] ELSE form
    /\ UNCHANGED <<addresses, table>>

AnalysisNext ==
    \/ \E target \in Targets \cup {NoTarget}, text \in Texts \cup {NoWords}, verbose \in Verbosities :
          VisitAnalysis(target, text, verbose)
    \/ \E v \in DOMAIN addresses :
          \/ DrawForm(v) \/ NotAnalysed(v)
          \/ \E options \in {{}, Targets} : Options_Come(v, options)
          \/ \E a \in Analyses : Analysed(v, a)
          \/ \E what \in {"template", "luke"} : AnalysisLost(v, what)
    \/ \E text \in Texts : TypeText(text)
    \/ \E target \in Targets : Choose(target)
    \/ SubmitForm \/ ClickVerbose

AnalysisSpec == AnalysisInit /\ [][AnalysisNext]_analysisVars

-------------------------------------------------------------------------------
(***************************************************************************)
(* The result on the page is that of the address the page was drawn for,   *)
(* the button is off while it is awaited, and until the user edits it the  *)
(* form says what was analysed.                                            *)
(***************************************************************************)
ResultOfTheAddress ==
    form # NoForm =>
        /\ table.shown => table.of = form.visit
        /\ form.disabled <=> Pending("field", form.visit) \in analysing
        /\ (table.shown /\ ~form.edited) =>
              LET p == addresses[form.visit]
              IN  /\ p.target # NoTarget => form.target = p.target
                  /\ form.text = p.text
                  /\ table.verbose = (p.verbose = "1") /\ form.active = table.verbose

(***************************************************************************)
(* The table has every token once, in the row of its step, in the column   *)
(* of the position it had first; unless no step counts as many positions.  *)
(* (After a tokenizer that leaves out positions the last tokens are lost.) *)
(***************************************************************************)
TokensInTheirColumns ==
    table.shown =>
        LET a == table.rows.analysis
            rows == table.rows.rows
        IN  \A i \in DOMAIN a : \A j \in DOMAIN a[i] :
                LET t == a[i][j]
                    at == {k \in DOMAIN rows[i] : t \in ToSet(rows[i][k])}
                IN  \/ at = {Column(t)}
                    \/ at = {} /\ \A k \in DOMAIN a : Cardinality(Positions(a[k])) < Column(t)

AnalysisIsShown == ResultOfTheAddress /\ TokensInTheirColumns
===============================================================================
