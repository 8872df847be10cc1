----------------------------- MODULE PagingSearch -----------------------------
(***************************************************************************)
(* The interactive searcher, Practica1/src/SearchFiles.java: main reads    *)
(* queries and doPagingSearch pages through the hits of each one.          *)
(*                                                                         *)
(* One IndexReader is opened for the whole session, so a query has the     *)
(* same hits however often it is executed.  Integers are those of Java:    *)
(* they wrap around at MaxInt.                                             *)
(***************************************************************************)
EXTENDS Integers, FiniteSets

CONSTANTS
    MaxInt,       \* Integer.MAX_VALUE
    MaxTotal      \* bound on the number of hits of a query

ASSUME IntAssumption == MaxInt \in Nat \ {0} /\ MaxTotal \in 0..MaxInt

VARIABLES
    hitsPerPage,  \* -paging
    mode,         \* the queries are typed, or come from the file of -queries
                  \* or there is one, that of -query
    printable,    \* -raw, or every document has its "modified" field
    pc,           \* where the session is
    total,        \* numTotalHits
    collected,    \* hits.length
    start, end,   \* the page is hits[start] .. hits[end - 1]
    searches,     \* (history) executions of the current query
    seen,         \* (history) the hits of the current query that were printed
    onlyNext,     \* (history) the user has asked for nothing but next pages
    jump,         \* (history) the last page number that was accepted
    fault         \* why the session ended, if it was by an exception

options == <<hitsPerPage, mode, printable>>
history == <<searches, seen, onlyNext, jump>>
pagingVars == <<options, pc, total, collected, start, end, history, fault>>

Int32 == -(MaxInt + 1)..MaxInt

(* A fault of Wrap: page numbers are computed with integers of any width. *)
Unwrapped(x) == x

(***************************************************************************)
(* The value that Java gives to an int expression whose exact value is x.  *)
(***************************************************************************)
Wrap(x) == ((x + MaxInt + 1) % (2 * (MaxInt + 1))) - (MaxInt + 1)

Lesser(a, b) == IF a < b THEN a ELSE b
Greater(a, b) == IF a > b THEN a ELSE b

PagingInit ==
    /\ hitsPerPage \in 1..MaxInt
    /\ mode \in {"typed", "file", "single"}
    /\ printable \in BOOLEAN
    /\ pc = "query"
    /\ total = 0 /\ collected = 0
    /\ start = 0 /\ end = 0
    /\ searches = 0 /\ seen = {} /\ onlyNext = TRUE /\ jump = 1
    /\ fault = "none"

interactive == mode = "typed"

(***************************************************************************)
(* Where main goes on when doPagingSearch returns.                         *)
(***************************************************************************)
NextQuery == IF mode = "single" THEN "ended" ELSE "query"

Fails(why) ==
    /\ pc' = "ended"
    /\ fault' = why
    /\ UNCHANGED <<options, total, collected, start, end, history>>

-------------------------------------------------------------------------------
(* main: a line is read and parsed as a query. *)

(***************************************************************************)
(* The query has t hits, of which those of five pages are collected.  A    *)
(* number of hits to collect that wraps around to 0 or less is refused.    *)
(***************************************************************************)
FirstSearch(t) ==
    /\ pc = "query"
    /\ Wrap(5 * hitsPerPage) > 0
    /\ pc' = "check"
    /\ total' = t
    /\ collected' = Lesser(t, Wrap(5 * hitsPerPage))
    /\ start' = 0
    /\ end' = Lesser(t, hitsPerPage)
    /\ searches' = 1 /\ seen' = {} /\ onlyNext' = TRUE /\ jump' = 1
    /\ UNCHANGED <<options, fault>>

TooManyHits ==
    /\ pc = "query"
    /\ Wrap(5 * hitsPerPage) <= 0
    /\ Fails("IllegalArgumentException")

BadQuery == pc = "query" /\ Fails("ParseException")

(***************************************************************************)
(* An empty line or the end of the input.                                  *)
(***************************************************************************)
EndOfQueries ==
    /\ pc = "query"
    /\ pc' = "ended"
    /\ UNCHANGED <<options, total, collected, start, end, history, fault>>

-------------------------------------------------------------------------------
(* doPagingSearch, one turn of its outer loop: check, show, ask. *)

EnoughCollected ==
    /\ pc = "check"
    /\ end <= collected
    /\ pc' = "show"
    /\ UNCHANGED <<options, total, collected, start, end, history, fault>>

(* A fault of CollectMore: five more pages are collected, not all the hits. *)
CollectFiveMore ==
    /\ pc = "check"
    /\ end > collected
    /\ pc' = "show"
    /\ collected' = Lesser(total, collected + Greater(1, Wrap(5 * hitsPerPage)))
    /\ searches' = searches + 1
    /\ UNCHANGED <<options, total, start, end, seen, onlyNext, jump, fault>>

(***************************************************************************)
(* "Collect more (y/n) ?": the answer n leaves the query altogether.       *)
(***************************************************************************)
CollectMore ==
    /\ pc = "check"
    /\ end > collected
    /\ pc' = "show"
    /\ collected' = total
    /\ searches' = searches + 1
    /\ UNCHANGED <<options, total, start, end, seen, onlyNext, jump, fault>>

DoNotCollect ==
    /\ pc = "check"
    /\ end > collected
    /\ pc' = NextQuery
    /\ UNCHANGED <<options, total, collected, start, end, history, fault>>

(* A fault of LastShown: the last hit of the page is left out. *)
LastShownButOne == Lesser(collected, Wrap(start + hitsPerPage - 1))

LastShown == Lesser(collected, Wrap(start + hitsPerPage))

Page == start..(LastShown - 1)

ShowPage ==
    /\ pc = "show"
    /\ Page \subseteq 0..(collected - 1)
    /\ Page = {} \/ printable
    /\ end' = LastShown
    /\ seen' = seen \cup Page
    /\ pc' = IF ~interactive \/ end' = 0 THEN NextQuery
             ELSE IF total >= end' THEN "ask" ELSE "check"
    /\ UNCHANGED <<options, total, collected, start, searches, onlyNext, jump,
                   fault>>

(***************************************************************************)
(* hits[i] is out of bounds.                                               *)
(***************************************************************************)
ShowNoPage ==
    /\ pc = "show"
    /\ ~ Page \subseteq 0..(collected - 1)
    /\ Fails("ArrayIndexOutOfBoundsException")

(***************************************************************************)
(* Long.parseLong(null): the index has no "modified" field, because it was *)
(* built by the indexer of Trabajo.                                        *)
(***************************************************************************)
ShowNoDate ==
    /\ pc = "show"
    /\ Page \subseteq 0..(collected - 1)
    /\ Page # {} /\ ~printable
    /\ Fails("NumberFormatException")

-------------------------------------------------------------------------------
(* The inner loop of doPagingSearch: what the user types. *)

MoveTo(s) ==
    /\ pc' = "check"
    /\ start' = s
    /\ end' = Lesser(total, Wrap(s + hitsPerPage))
    /\ UNCHANGED <<options, total, collected, searches, seen, fault>>

Quit ==
    /\ pc = "ask"
    /\ pc' = NextQuery
    /\ UNCHANGED <<options, total, collected, start, end, history, fault>>

(* A fault of PreviousPage: it goes back beyond the first hit. *)
PreviousOfAny ==
    /\ pc = "ask"
    /\ MoveTo(Wrap(start - hitsPerPage))
    /\ onlyNext' = FALSE
    /\ UNCHANGED jump

PreviousPage ==
    /\ pc = "ask"
    /\ MoveTo(Greater(0, Wrap(start - hitsPerPage)))
    /\ onlyNext' = FALSE
    /\ UNCHANGED jump

NextPage ==
    /\ pc = "ask"
    /\ MoveTo(IF Wrap(start + hitsPerPage) < total
              THEN Wrap(start + hitsPerPage) ELSE start)
    /\ UNCHANGED <<onlyNext, jump>>

(* A fault of FirstOf: the number typed is taken for that of a hit. *)
HitNumbered(page) == Wrap(page - 1)

FirstOf(page) == Wrap(Wrap(page - 1) * hitsPerPage)

JumpTo(page) ==
    /\ pc = "ask"
    /\ FirstOf(page) < total
    /\ MoveTo(FirstOf(page))
    /\ onlyNext' = FALSE
    /\ jump' = page

(***************************************************************************)
(* "No such page": the user is asked again.                                *)
(***************************************************************************)
NoSuchPage(page) ==
    /\ pc = "ask"
    /\ FirstOf(page) >= total
    /\ UNCHANGED pagingVars

(***************************************************************************)
(* Integer.parseInt refuses the line, or the input ends (line is null).    *)
(***************************************************************************)
NoNumber == pc = "ask" /\ Fails("NumberFormatException")
EndOfInput ==
    /\ pc = "ask" \/ (pc = "check" /\ end > collected)
    /\ Fails("NullPointerException")

Prompt ==
    \/ Quit
    \/ PreviousPage
    \/ NextPage
    \/ \E page \in Int32 : JumpTo(page)
    \/ \E page \in Int32 : NoSuchPage(page)
    \/ NoNumber
    \/ EndOfInput

PagingNext ==
    \/ \E t \in 0..MaxTotal : FirstSearch(t)
    \/ TooManyHits \/ BadQuery \/ EndOfQueries
    \/ EnoughCollected \/ CollectMore \/ DoNotCollect
    \/ ShowPage \/ ShowNoPage \/ ShowNoDate
    \/ Prompt

PagingSpec == PagingInit /\ [][PagingNext]_pagingVars

-------------------------------------------------------------------------------
PagingTypeOK ==
    /\ hitsPerPage \in 1..MaxInt
    /\ mode \in {"typed", "file", "single"} /\ printable \in BOOLEAN
    /\ pc \in {"query", "check", "show", "ask", "ended"}
    /\ total \in 0..MaxTotal /\ collected \in 0..MaxTotal
    /\ start \in Int32 /\ end \in Int32
    /\ searches \in Nat /\ seen \subseteq 0..(MaxTotal - 1)
    /\ onlyNext \in BOOLEAN /\ jump \in Int32

(***************************************************************************)
(* A query is executed once for five pages and at most once again, for all *)
(* its hits: after that the user is never asked to collect more.  No page  *)
(* ends after the last hit, so that whoever is shown a page is asked what  *)
(* to do next.                                                             *)
(***************************************************************************)
CollectedAtMostTwice ==
    /\ searches <= 2
    /\ searches = 2 => collected = total
    /\ collected <= total
    /\ pc = "ask" => end <= total

(***************************************************************************)
(* No int of the session has wrapped around.                               *)
(***************************************************************************)
Exact ==
    /\ 5 * hitsPerPage <= MaxInt
    /\ total + hitsPerPage <= MaxInt
    /\ (jump - 1) * hitsPerPage \in Int32
    /\ jump - 1 \in Int32

(***************************************************************************)
(* Whatever way the user takes, the hits are cut into the same pages.      *)
(***************************************************************************)
SamePages ==
    pc \in {"show", "ask"} /\ Exact => start % hitsPerPage = 0

(***************************************************************************)
(* A user who only goes on to the next page has seen every hit up to the   *)
(* end of the page, none left out between two pages or between the first   *)
(* and the second execution of the query.                                  *)
(***************************************************************************)
NothingSkipped ==
    pc = "ask" /\ onlyNext /\ Exact => seen = 0..(end - 1)

(***************************************************************************)
(* Along the session the pages stay what they are: the same cuts whichever *)
(* way they are reached, none of their hits skipped on the way, and all of *)
(* them collected once the query was executed again.                       *)
(***************************************************************************)
PagesAreWhole == PagingTypeOK /\ CollectedAtMostTwice /\ SamePages /\ NothingSkipped

(***************************************************************************)
(* Paging ends by an index out of bounds only after a jump to a page below *)
(* the first one, or to one so far that its first hit overflows an int, or *)
(* when the page after the last hit would end beyond the largest int.      *)
(***************************************************************************)
OnlyBadJumpsFail ==
    fault = "ArrayIndexOutOfBoundsException" =>
        \/ jump <= 0
        \/ (jump - 1) * hitsPerPage > MaxInt
        \/ total + hitsPerPage > MaxInt

(***************************************************************************)
(* The prompt takes the number of a page to jump to, and the code answers  *)
(* "No such page" to the others: a jump that is accepted lands on a hit.   *)
(***************************************************************************)
JumpsLandOnAPage ==
    pc \in {"check", "show"} /\ ~onlyNext => start \in 0..(total - 1)
===============================================================================
