------------------------------ MODULE Autocomplete ------------------------------
(***************************************************************************)
(* jquery.autocomplete.js, with which the search page of the example core  *)
(* suggests terms for the query field.                                     *)
(*                                                                         *)
(* One timeout serves two purposes: to ask a while after the last key, and *)
(* to hide the list a while after the focus is lost.  Requests are never   *)
(* aborted (that needs a plugin the page does not have), so any answer may *)
(* come to any field.                                                      *)
(***************************************************************************)
LOCAL INSTANCE Integers
LOCAL INSTANCE Sequences
LOCAL INSTANCE SequencesExt
LOCAL INSTANCE FiniteSets
LOCAL INSTANCE FiniteSetsExt
LOCAL INSTANCE TLC

CONSTANTS
    Letters,       \* the keys that write, each with its lower case
    Terms,         \* the terms of the index, as the server sorts them
    MaxTerms_,     \* how many of them it suggests
    PageStep,      \* how far the page keys go
    CacheLength,   \* cacheLength
    MaxValue,      \* bound on the length of what is typed
    MaxQueries     \* bound on the requests

ASSUME AutocompleteAssumption ==
    /\ MaxTerms_ \in Nat \ {0} /\ PageStep \in Nat \ {0} /\ CacheLength \in Nat
    /\ \A l \in DOMAIN Letters : Letters[l] \in DOMAIN Letters

VARIABLES
    query,         \* the field: value, previousValue, hasFocus, whether the last key was delete
    delay,         \* what the timeout is for
    offers,        \* the list: rows, term, active, classes, and whether it is visible
    queries,       \* the requests: how many, and those under way
    cache,         \* the cache, which is written and never used
    wrong          \* the mouse, and what has happened to explain a wrong list (not in the code)

autocompleteVars == <<query, delay, offers, queries, cache, wrong>>

LowerCase(word) == [i \in DOMAIN word |-> Letters[word[i]]]
Suggested(prefix) ==
    LET all == SelectSeq(Terms, LAMBDA t : IsPrefix(prefix, t))
    IN  SubSeq(all, 1, Min({MaxTerms_, Len(all)}))

AutocompleteInit ==
    /\ query = [value |-> <<>>, previous |-> <<>>, count |-> 0, focused |-> FALSE, key |-> "other",
                loading |-> FALSE, mouseDown |-> FALSE]
    /\ delay = "none"
    /\ offers = [rows |-> <<>>, term |-> <<>>, active |-> -1, over |-> {}, visible |-> FALSE]
    /\ queries = [last |-> 0, open |-> {}]
    /\ cache = <<>>
    /\ wrong = [at |-> -1, pressed |-> FALSE, dragged |-> FALSE, stale |-> FALSE,
                lost |-> FALSE, moved |-> FALSE, mistaken |-> FALSE]

AutocompleteRests == TRUE

-------------------------------------------------------------------------------
(***************************************************************************)
(* select.hide, and hideResultsNow, which gives the focus back to the      *)
(* field if the list was visible, whoever has it by now.                   *)
(***************************************************************************)
HiddenList(o) == [o EXCEPT !.visible = FALSE, !.over = {}, !.active = -1]

(* hasFocus, counted up to 2, as it is only asked whether it is more than 0, or than 1. *)
Counted(q) == [q EXCEPT !.count = Min({2, @ + 1})]
Focused(q) == IF q.focused THEN q ELSE [Counted(q) EXCEPT !.focused = TRUE]

HideNow(q, o) ==
    /\ offers' = HiddenList(o)
    /\ delay' = "none"
    /\ query' = [(IF o.visible THEN Focused(q) ELSE q) EXCEPT !.loading = FALSE]

(***************************************************************************)
(* onChange: nothing for the delete key, or for the value of last time     *)
(* unless that does not matter; else the terms are asked for.              *)
(***************************************************************************)
OnChange(q, skips, timer) ==
    \/ /\ q.key = "delete"
       /\ offers' = HiddenList(offers)
       /\ query' = q /\ delay' = timer
       /\ UNCHANGED queries
    \/ /\ q.key # "delete" /\ ~skips /\ q.value = q.previous
       /\ query' = q /\ delay' = timer
       /\ UNCHANGED <<offers, queries>>
    \/ /\ q.key # "delete" /\ (skips \/ q.value # q.previous) /\ q.value # <<>>
       /\ queries.last < MaxQueries
       /\ query' = [q EXCEPT !.previous = q.value, !.loading = TRUE]
       /\ queries' = [last |-> queries.last + 1,
                      open |-> queries.open \cup {[n |-> queries.last + 1, value |-> q.value]}]
       /\ delay' = timer
       /\ UNCHANGED offers
    \/ /\ q.key # "delete" /\ (skips \/ q.value # q.previous) /\ q.value = <<>>
       /\ query' = [q EXCEPT !.previous = q.value, !.loading = FALSE]
       /\ offers' = HiddenList(offers)
       /\ delay' = timer
       /\ UNCHANGED queries

(***************************************************************************)
(* The focus, and clicks in the field.                                     *)
(***************************************************************************)
FocusQuery ==
    /\ ~query.focused
    /\ query' = Focused(query)
    /\ UNCHANGED <<delay, offers, queries, cache, wrong>>

BlurQuery ==
    /\ query.focused
    /\ query' = [query EXCEPT !.focused = FALSE, !.count = 0]
    /\ delay' = IF query.mouseDown THEN delay ELSE "hide"
    /\ UNCHANGED <<offers, queries, cache, wrong>>

ClickQuery ==
    /\ query.focused
    /\ LET q == Counted(query)
       IN  IF query.count > 1 /\ ~offers.visible THEN OnChange(q, TRUE, delay)
           ELSE query' = q /\ UNCHANGED <<delay, offers, queries>>
    /\ UNCHANGED <<cache, wrong>>

-------------------------------------------------------------------------------
(***************************************************************************)
(* Keys.  One that writes begins the delay again.                          *)
(***************************************************************************)
Writes(key, value) ==
    /\ query.focused
    /\ query' = [query EXCEPT !.key = key, !.value = value]
    /\ delay' = "change"
    /\ UNCHANGED <<offers, queries, cache, wrong>>

LetterKey(l) == Len(query.value) < MaxValue /\ Writes("other", Append(query.value, l))
BackspaceKey == query.value # <<>> /\ Writes("other", Front(query.value))
DeleteKey == Writes("delete", query.value)

EscapeKey ==
    /\ query.focused
    /\ query' = [query EXCEPT !.key = "other"]
    /\ offers' = HiddenList(offers)
    /\ UNCHANGED <<delay, queries, cache, wrong>>

(***************************************************************************)
(* moveSelect, from the line that was active when the list was last moved  *)
(* in, which may have been another list.                                   *)
(***************************************************************************)
Moved(o, step) ==
    LET to == o.active + step
        size == Len(o.rows)
        at == IF to < 0 THEN size - 1 ELSE IF to >= size THEN 0 ELSE to
    IN  [o EXCEPT !.active = at, !.over = (@ \ {o.active}) \cup {at}]

StepOf(key, o) ==
    CASE key = "up" -> -1
      [] key = "down" -> 1
      [] key = "pageup" -> IF o.active # 0 /\ o.active - PageStep < 0 THEN -o.active ELSE -PageStep
      [] key = "pagedown" ->
            IF o.active # Len(o.rows) - 1 /\ o.active + PageStep > Len(o.rows)
            THEN Len(o.rows) - 1 - o.active ELSE PageStep

MoveKey(key) ==
    /\ query.focused
    /\ LET q == [query EXCEPT !.key = "other"]
       IN  IF offers.visible
           THEN /\ query' = q /\ offers' = Moved(offers, StepOf(key, offers))
                /\ wrong' = [wrong EXCEPT !.moved = TRUE]
                /\ UNCHANGED <<delay, queries>>
           ELSE OnChange(q, TRUE, delay) /\ UNCHANGED wrong
    /\ UNCHANGED cache

(***************************************************************************)
(* selectCurrent: the first line that has the class of the active one.     *)
(***************************************************************************)
Taken(o) == o.rows[Min(o.over) + 1]

SelectCurrent(q, o) ==
    IF o.over = {} THEN query' = q /\ offers' = o /\ UNCHANGED delay
    ELSE HideNow([q EXCEPT !.value = Taken(o), !.previous = Taken(o)], o)

EnterKey ==
    /\ query.focused /\ offers.visible
    /\ SelectCurrent([query EXCEPT !.key = "other"], offers)
    /\ UNCHANGED <<queries, cache, wrong>>

-------------------------------------------------------------------------------
(***************************************************************************)
(* The mouse on the list.  A press there keeps the list when the focus     *)
(* goes, until the release, if that is on the list too.                    *)
(***************************************************************************)
OverLine(i) ==
    /\ offers.visible
    /\ i \in 0..(Len(offers.rows) - 1)
    /\ offers' = [offers EXCEPT !.active = i, !.over = {i}]
    /\ wrong' = [wrong EXCEPT !.moved = FALSE, !.at = i]
    /\ UNCHANGED <<query, delay, queries, cache>>

PressLine ==
    /\ offers.visible /\ ~wrong.pressed
    /\ query' = [query EXCEPT !.mouseDown = TRUE]
    /\ wrong' = [wrong EXCEPT !.pressed = TRUE]
    /\ UNCHANGED <<delay, offers, queries, cache>>

ReleaseOutside ==
    /\ wrong.pressed
    /\ wrong' = [wrong EXCEPT !.pressed = FALSE, !.dragged = TRUE]
    /\ UNCHANGED <<query, delay, offers, queries, cache>>

(* A fault of the list: the release does not say that the mouse is up. *)
StillDown(q) == q
Released(q) == [q EXCEPT !.mouseDown = FALSE]

ClickLine(i) ==
    /\ wrong.pressed /\ wrong.at = i
    /\ offers.visible /\ i \in 0..(Len(offers.rows) - 1)
    /\ LET o == [offers EXCEPT !.over = @ \cup {i}]
       IN  /\ SelectCurrent(Focused(Released(query)), o)
           /\ wrong' = [wrong EXCEPT !.pressed = FALSE,
                                     !.mistaken = @ \/ (~wrong.moved /\ Taken(o) # o.rows[i + 1])]
    /\ UNCHANGED <<queries, cache>>

-------------------------------------------------------------------------------
Timeout_ ==
    /\ delay # "none"
    /\ IF delay = "change" THEN OnChange(query, FALSE, "none")
       ELSE HideNow(query, offers) /\ UNCHANGED queries
    /\ UNCHANGED <<cache, wrong>>

(***************************************************************************)
(* An answer: it goes into the cache, which is emptied when it has more    *)
(* than its length, and onto the list if the field has the focus.          *)
(***************************************************************************)
CacheAdd(q, rows) ==
    q :> rows @@ (IF Cardinality(DOMAIN cache) > CacheLength THEN <<>> ELSE cache)

(* A fault of receiveData: the list is shown to a field that has no focus. *)
AnyField(q) == TRUE
HasFocus(q) == q.count > 0

SuggestionsCome(r) ==
    /\ r \in queries.open
    /\ queries' = [queries EXCEPT !.open = @ \ {r}]
    /\ cache' = CacheAdd(LowerCase(r.value), Suggested(r.value))
    /\ wrong' = [wrong EXCEPT !.stale = @ \/ r.value # query.previous]
    /\ IF Suggested(r.value) # <<>> /\ HasFocus(query)
       THEN /\ query' = [query EXCEPT !.loading = FALSE]
            /\ offers' = [offers EXCEPT !.rows = Suggested(r.value), !.term = LowerCase(r.value),
                                        !.over = {}, !.visible = TRUE]
            /\ UNCHANGED delay
       ELSE HideNow(query, offers)

SuggestionsLost(r) ==
    /\ r \in queries.open
    /\ queries' = [queries EXCEPT !.open = @ \ {r}]
    /\ wrong' = [wrong EXCEPT !.lost = TRUE]
    /\ UNCHANGED <<query, delay, offers, cache>>

AutocompleteNext ==
    \/ FocusQuery \/ BlurQuery \/ ClickQuery
    \/ \E l \in DOMAIN Letters : LetterKey(l)
    \/ BackspaceKey \/ DeleteKey \/ EscapeKey \/ EnterKey
    \/ \E key \in {"up", "down", "pageup", "pagedown"} : MoveKey(key)
    \/ \E i \in 0..(MaxTerms_ - 1) : OverLine(i) \/ ClickLine(i)
    \/ PressLine \/ ReleaseOutside
    \/ Timeout_
    \/ \E r \in queries.open : SuggestionsCome(r) \/ SuggestionsLost(r)

AutocompleteSpec == AutocompleteInit /\ [][AutocompleteNext]_autocompleteVars

-------------------------------------------------------------------------------
(***************************************************************************)
(* A field that has lost the focus shows no list once no timeout is there  *)
(* to hide it, unless the mouse is pressed on the list or has been dragged *)
(* out of it.                                                              *)
(***************************************************************************)
LeftHasNoList ==
    ~query.focused /\ delay # "hide" /\ ~wrong.pressed /\ ~wrong.dragged => ~offers.visible

(***************************************************************************)
(* The list has the server's terms for what was asked; and when every      *)
(* answer has come, in the order of the requests, for what was asked last. *)
(***************************************************************************)
ListOfTheLastQuestion ==
    offers.visible =>
        /\ \A i \in DOMAIN offers.rows : IsPrefix(offers.term, LowerCase(offers.rows[i]))
        /\ queries.open = {} /\ ~wrong.stale /\ ~wrong.lost => offers.term = LowerCase(query.previous)

(***************************************************************************)
(* The line that is clicked is the one that is taken, unless the keys have *)
(* moved since the mouse came over it; and the line that has the class is  *)
(* the active one of the list.                                             *)
(***************************************************************************)
ClickedIsTaken ==
    /\ ~wrong.mistaken
    /\ offers.over \subseteq {offers.active}

(* The field says it is loading only while a request is under way or was lost. *)
LoadingIsAsked == query.loading => queries.open # {} \/ wrong.lost

CacheIsBounded == Cardinality(DOMAIN cache) <= CacheLength + 1

SuggestionsFollow ==
    LeftHasNoList /\ ListOfTheLastQuestion /\ ClickedIsTaken /\ LoadingIsAsked /\ CacheIsBounded
===============================================================================
