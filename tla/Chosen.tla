--------------------------------- MODULE Chosen ---------------------------------
(***************************************************************************)
(* chosen.js, which hides a select of the console and shows a list with a  *)
(* search field in its place: the core selector and the selects of the     *)
(* analysis, documents and schema pages.                                   *)
(*                                                                         *)
(* The browser tells it of the mouse, of keys, of the focus and of clicks, *)
(* each at its own time; two of its answers to them come after a timeout.  *)
(* What it knows of the options it has read once, and reads again when the *)
(* page triggers liszt:updated.                                            *)
(***************************************************************************)
LOCAL INSTANCE Naturals
LOCAL INSTANCE Sequences
LOCAL INSTANCE SequencesExt
LOCAL INSTANCE FiniteSets
LOCAL INSTANCE FiniteSetsExt

CONSTANTS
    Menus,        \* the contents a single select may have: groups and options
    Multiples,    \* the contents of a multiple one
    Words,        \* what is typed, each with the texts it finds
    NoText        \* the text of an empty option, and of nothing selected

ASSUME ChosenAssumption ==
    /\ Menus # {}
    /\ \A menu \in Menus \cup Multiples : \A i \in DOMAIN menu :
          /\ DOMAIN menu[i] = {"group", "text", "disabled"}
          /\ menu[i].group => menu[i].text # NoText

VARIABLES
    multiple,     \* the select takes several options (chosen once)
    select,       \* the select: its content and what is selected
    known,        \* results_data: what was read, and what it takes for selected
    list,         \* the list: classes of its lines, what is highlighted
    field,        \* the field: whether it is active, open, listening, and so on
    picked,       \* the choices that are shown, or what the single field shows
    updated       \* the select is as it was read (not in the code)

chosenVars == <<multiple, select, known, list, field, picked, updated>>

Nobody == 0
NoWord == [text |-> FALSE, finds |-> {}]

(***************************************************************************)
(* Positions of results_data and the options they stand for.               *)
(***************************************************************************)
Options_(menu) == {i \in DOMAIN menu : ~menu[i].group}
Named(menu) == {i \in Options_(menu) : menu[i].text # NoText}
Listed(menu) == {i \in Named(menu) : ~menu[i].disabled}
OptionsIndex(menu, i) == Cardinality({j \in Options_(menu) : j < i})
TextAt(menu, index) == menu[CHOOSE i \in Options_(menu) : OptionsIndex(menu, i) = index].text
SelectedIn(menu, indexes) == {i \in Named(menu) : OptionsIndex(menu, i) \in indexes}
SingleText(s) == TextAt(s.menu, CHOOSE o \in s.options : TRUE)

FirstOf(positions) == IF positions = {} THEN Nobody ELSE Min(positions)

(***************************************************************************)
(* results_build: the options are read, and the list and what is picked    *)
(* are drawn from them.                                                    *)
(***************************************************************************)
Read(s) == [menu |-> s.menu, selected |-> SelectedIn(s.menu, s.options)]
Lines(s) ==
    LET selected == SelectedIn(s.menu, s.options)
    IN  [active |-> IF multiple THEN Listed(s.menu) \ selected ELSE Listed(s.menu),
         selected |-> selected \cap Listed(s.menu), highlight |-> Nobody, single |-> Nobody]
Shown(s) ==
    IF multiple THEN SetToSortSeq(SelectedIn(s.menu, s.options), <) ELSE <<SingleText(s)>>

ChosenInit ==
    /\ multiple \in BOOLEAN
    /\ \E menu \in (IF multiple THEN Multiples ELSE Menus) :
          select = [menu |-> menu, options |-> IF multiple THEN {} ELSE {0}]
    /\ known = Read(select)
    /\ list = Lines(select)
    /\ picked = [shown |-> Shown(select), count |-> 0]
    /\ field = [on |-> FALSE, lit |-> FALSE, showing |-> FALSE, inside |-> FALSE,
                listening |-> FALSE, blurs |-> FALSE, opens |-> FALSE, focused |-> FALSE,
                word |-> NoWord, destroying |-> FALSE, backstroke |-> Nobody]
    /\ updated = TRUE

ChosenRests == ~multiple /\ select.menu = CHOOSE menu \in Menus : TRUE

(***************************************************************************)
(* winnow_results: the lines that the word finds are active; one that is   *)
(* not loses the highlight, and the first takes it if no other has it.     *)
(* What is selected in a multiple select is not looked at.                 *)
(***************************************************************************)
Sought(k) == IF multiple THEN Listed(k.menu) \ k.selected ELSE Listed(k.menu)
Finds(w, text) == w = NoWord \/ text \in w.finds
Found(k, w) == {i \in Sought(k) : Finds(w, k.menu[i].text)}

(* A fault of winnow_results: a line keeps the highlight when the word does not find it. *)
HighlightLeft(l, missed) == l.highlight
HighlightKept(l, missed) == IF l.highlight \in missed THEN Nobody ELSE l.highlight

Winnowed(l, k, w) ==
    LET found == Found(k, w)
        active == (l.active \ Sought(k)) \cup found
        selected == IF multiple THEN {} ELSE l.selected \cap active
        kept == HighlightKept(l, Sought(k) \ found)
        first == IF selected # {} THEN FirstOf(selected) ELSE FirstOf(active)
    IN  [l EXCEPT !.active = active,
                  !.highlight = IF kept # Nobody \/ (found = {} /\ w # NoWord) THEN kept ELSE first]

Cleared(l, k) == [l EXCEPT !.highlight = Nobody,
                           !.active = Listed(k.menu) \ (IF multiple THEN l.selected ELSE {})]

(***************************************************************************)
(* results_show (which gives the focus to the field: a multiple one that   *)
(* is not active takes that for a click, later), results_hide,             *)
(* activate_field and close_field.                                         *)
(***************************************************************************)
Open(f) == [f EXCEPT !.showing = TRUE, !.focused = TRUE, !.opens = @ \/ (multiple /\ ~f.on)]
OpenLines(l, k, w) ==
    Winnowed(IF ~multiple /\ l.single # Nobody THEN [l EXCEPT !.highlight = l.single] ELSE l, k, w)
Hidden(f) == [f EXCEPT !.showing = FALSE]
Unlit(l) == [l EXCEPT !.highlight = Nobody]
Activated(f) == [f EXCEPT !.on = TRUE, !.lit = TRUE, !.focused = TRUE]

(* A fault of close_field: the page's clicks are not unbound. *)
ClosedListening(f) == [f EXCEPT !.on = FALSE, !.showing = FALSE, !.lit = FALSE,
                                !.word = NoWord, !.backstroke = Nobody]
Closed(f) == [f EXCEPT !.listening = FALSE, !.on = FALSE, !.showing = FALSE, !.lit = FALSE,
                       !.word = NoWord, !.backstroke = Nobody]

Close ==
    /\ field' = Closed(field)
    /\ list' = Cleared(list, known)
    /\ UNCHANGED <<known, picked, select>>

ResultsShow ==
    /\ field' = Open(field)
    /\ list' = OpenLines(list, known, field.word)

ResultsHide ==
    /\ field' = Hidden(field)
    /\ list' = Unlit(list)

(* results_toggle. *)
ToggledField(f) == IF f.showing THEN Hidden(f) ELSE Open(f)
ToggledLines(f) == IF f.showing THEN Unlit(list) ELSE OpenLines(list, known, f.word)

Unselected == UNCHANGED <<multiple, select, known, picked, updated>>

-------------------------------------------------------------------------------
(***************************************************************************)
(* container_mousedown, for a press on what is shown of the field, on the  *)
(* rest of the container, or (with no event) on behalf of the focus.  The  *)
(* press that follows the removal of a choice is swallowed.                *)
(***************************************************************************)
ContainerMousedown(f, on) ==
    IF f.destroying \/ on = "close"
    THEN field' = [f EXCEPT !.destroying = FALSE] /\ UNCHANGED list
    ELSE \/ /\ ~f.on
            /\ LET w == IF multiple THEN NoWord ELSE f.word
               IN  /\ field' = Activated(Open([f EXCEPT !.listening = TRUE, !.word = w]))
                   /\ list' = OpenLines(list, known, w)
         \/ /\ f.on /\ ~multiple /\ on = "item"
            /\ field' = Activated(ToggledField(f))
            /\ list' = ToggledLines(f)
         \/ /\ f.on /\ (multiple \/ on # "item")
            /\ field' = Activated(f)
            /\ UNCHANGED list

Mousedown(on) ==
    /\ field.inside
    /\ ContainerMousedown(field, on)
    /\ Unselected

FocusTimer ==
    /\ field.opens
    /\ ContainerMousedown([field EXCEPT !.opens = FALSE], "field")
    /\ Unselected

Mouse(enters) ==
    /\ field.inside # enters
    /\ field' = [field EXCEPT !.inside = enters]
    /\ UNCHANGED list /\ Unselected

(***************************************************************************)
(* The field loses the focus: it is no longer active, and closed soon,     *)
(* unless the mouse is still on the container.  It gets it with the tab    *)
(* key, a single one by way of the item that has the field's place.        *)
(***************************************************************************)
Blur ==
    /\ field.focused
    /\ field' = IF field.inside THEN [field EXCEPT !.focused = FALSE]
                ELSE [field EXCEPT !.focused = FALSE, !.on = FALSE, !.blurs = TRUE]
    /\ UNCHANGED list /\ Unselected

Focus ==
    /\ ~field.focused
    /\ field' = IF multiple THEN [field EXCEPT !.focused = TRUE, !.opens = @ \/ ~field.on]
                ELSE Activated(field)
    /\ UNCHANGED list /\ Unselected

BlurTest ==
    /\ field.blurs
    /\ LET f == [field EXCEPT !.blurs = FALSE]
       IN  IF ~f.on /\ f.lit
           THEN field' = Closed(f) /\ list' = Cleared(list, known)
           ELSE field' = f /\ UNCHANGED list
    /\ Unselected

(***************************************************************************)
(* A click, as the document hears of it: test_active_click.  The press of  *)
(* a click outside has taken the focus.                                    *)
(***************************************************************************)
ClickOutside ==
    /\ ~field.inside /\ ~field.focused /\ field.listening
    /\ Close
    /\ UNCHANGED <<multiple, updated>>

ClickInside ==
    /\ field.inside
    /\ LET opens == multiple /\ field.on /\ ~field.showing
           f == IF opens THEN Open(field) ELSE field
       IN  /\ field' = [f EXCEPT !.on = @ \/ f.listening]
           /\ list' = IF opens THEN OpenLines(list, known, field.word) ELSE list
    /\ Unselected

-------------------------------------------------------------------------------
(***************************************************************************)
(* result_select: the line that is highlighted is selected in the list, in *)
(* results_data and in the select, by the place it had there when it was   *)
(* read.  The menu may have no such place by now.                          *)
(***************************************************************************)
Highlight(l, i) == [l EXCEPT !.highlight = i]

(* A fault of result_select: the place in the list is taken for that in the select. *)
PlaceInList(i) == i - 1
PlaceInSelect(i) == OptionsIndex(known.menu, i)

Deactivated(l, i) == [l EXCEPT !.active = @ \ {i}]

Picks(f, l, i, keeps) ==
    LET index == PlaceInSelect(i)
        line == IF multiple THEN Deactivated(l, i)
                ELSE [l EXCEPT !.selected = {}, !.single = i]
        there == index < Cardinality(Options_(select.menu))
        done == [f EXCEPT !.word = NoWord, !.showing = IF keeps THEN f.showing ELSE FALSE]
    IN  /\ list' = [line EXCEPT !.highlight = Nobody, !.selected = @ \cup {i}]
        /\ known' = [known EXCEPT !.selected = @ \cup {i}]
        /\ IF there
           THEN /\ select' = [select EXCEPT !.options = IF multiple THEN @ \cup {index} ELSE {index}]
                /\ picked' = IF multiple
                             THEN [shown |-> Append(picked.shown, i), count |-> picked.count + 1]
                             ELSE [picked EXCEPT !.shown = <<known.menu[i].text>>]
                /\ field' = done
           ELSE field' = f /\ UNCHANGED <<select, picked>>
        /\ UNCHANGED <<multiple, updated>>

SearchResultsMouseup(i, keeps) ==
    /\ field.inside /\ field.showing
    /\ i \in list.active
    /\ keeps => multiple
    /\ Picks(field, list, i, keeps)

SearchResultsMouseover(i) ==
    /\ field.inside /\ field.showing
    /\ i \in list.active
    /\ list' = Highlight(list, i)
    /\ UNCHANGED field /\ Unselected

SearchResultsMouseout ==
    /\ field.inside /\ list.highlight # Nobody
    /\ list' = Unlit(list)
    /\ UNCHANGED field /\ Unselected

(***************************************************************************)
(* result_deselect: the line is active again, in the select and beside it. *)
(***************************************************************************)
Deselected(i) == [known EXCEPT !.selected = @ \ {i}]
ActiveAgain(i) ==
    [list EXCEPT !.selected = @ \ {i}, !.active = @ \cup {i}, !.highlight = Nobody]

ResultDeselect(i) ==
    /\ picked' = [shown |-> SelectSeq(picked.shown, LAMBDA j : j # i), count |-> picked.count - 1]
    /\ known' = Deselected(i)
    /\ select' = [select EXCEPT !.options = @ \ {OptionsIndex(known.menu, i)}]
    /\ UNCHANGED <<multiple, updated>>

(***************************************************************************)
(* choice_destroy.  What is left open is looked through again.             *)
(***************************************************************************)
Destroyed(f, i) ==
    /\ ResultDeselect(i)
    /\ list' = Winnowed(ActiveAgain(i), Deselected(i), NoWord)
    /\ field' = [f EXCEPT !.word = NoWord, !.showing = IF picked.count > 1 THEN FALSE ELSE @]

(***************************************************************************)
(* A click on the cross of a choice: the cross is gone when the click      *)
(* comes to the document, which takes it for a click outside.              *)
(***************************************************************************)
ChoiceDestroyLinkClick(i) ==
    /\ multiple /\ field.inside
    /\ i \in ToSet(picked.shown)
    /\ LET f == [field EXCEPT !.destroying = TRUE]
           opens == field.on /\ (~field.showing \/ picked.count > 1)
       IN  IF field.listening
           THEN /\ ResultDeselect(i)
                /\ list' = Cleared(ActiveAgain(i), Deselected(i))
                /\ field' = Closed(IF opens THEN Open(f) ELSE f)
           ELSE Destroyed(IF opens THEN Open(f) ELSE f, i)

-------------------------------------------------------------------------------
(***************************************************************************)
(* Keys, of the field that has the focus.  A key that is not a backspace   *)
(* forgets the choice the next one would remove.                           *)
(***************************************************************************)
Typed == [field EXCEPT !.backstroke = Nobody]

ResultsSearch(f, l) ==
    /\ field' = IF f.showing THEN f ELSE Open(f)
    /\ list' = IF f.showing THEN Winnowed(l, known, f.word) ELSE OpenLines(l, known, f.word)
    /\ Unselected

Type(w) ==
    /\ field.focused
    /\ ResultsSearch([Typed EXCEPT !.word = w], list)

Backspace ==
    /\ field.focused
    /\ IF multiple /\ field.word = NoWord /\ picked.count > 0
       THEN IF field.backstroke # Nobody
            THEN Destroyed([field EXCEPT !.backstroke = Nobody], field.backstroke)
            ELSE /\ field' = [field EXCEPT !.backstroke = Last(picked.shown)]
                 /\ UNCHANGED list /\ Unselected
       ELSE /\ field.backstroke = Nobody
            /\ ResultsSearch([field EXCEPT !.word = NoWord], Unlit(list))

Enter ==
    /\ field.focused /\ field.showing
    /\ list.highlight # Nobody
    /\ Picks(Typed, list, list.highlight, FALSE)

Escape ==
    /\ field.focused /\ field.showing
    /\ field' = Hidden(Typed)
    /\ list' = Unlit(list)
    /\ Unselected

Tab ==
    /\ field.focused
    /\ LET f == [Typed EXCEPT !.inside = FALSE]
       IN  IF field.showing /\ ~multiple /\ list.highlight # Nobody
           THEN Picks(f, list, list.highlight, FALSE)
           ELSE field' = f /\ UNCHANGED list /\ Unselected

ArrowDown ==
    /\ field.focused
    /\ LET h == list.highlight
           next == FirstOf({i \in list.active : i > h})
           l == IF h = Nobody \/ field.showing
                THEN [list EXCEPT !.highlight = IF next = Nobody THEN h ELSE next] ELSE list
       IN  IF field.showing THEN field' = Typed /\ list' = l
           ELSE field' = Open(Typed) /\ list' = OpenLines(l, known, field.word)
    /\ Unselected

ArrowUp ==
    /\ field.focused
    /\ LET before == {i \in list.active : i < list.highlight}
       IN  \/ /\ ~field.showing /\ ~multiple
              /\ field' = Open(Typed) /\ list' = OpenLines(list, known, field.word)
           \/ /\ field.showing /\ list.highlight # Nobody /\ before # {}
              /\ field' = Typed /\ list' = Highlight(list, Max(before))
           \/ /\ field.showing /\ list.highlight # Nobody /\ before = {}
              /\ field' = IF picked.count > 0 THEN Hidden(Typed) ELSE Typed
              /\ list' = Unlit(list)
    /\ Unselected

-------------------------------------------------------------------------------
(***************************************************************************)
(* set_cores_data writes new options into the menu, and the next route     *)
(* tells Chosen of them; a multiple select is told at once.                *)
(***************************************************************************)
SetCores(menu) ==
    /\ ~multiple /\ menu # select.menu
    /\ select' = [menu |-> menu, options |-> {0}]
    /\ updated' = FALSE
    /\ UNCHANGED <<multiple, known, list, field, picked>>

ResultsUpdateField ==
    /\ ~updated
    /\ updated' = TRUE
    /\ known' = Read(select) /\ list' = Lines(select)
    /\ picked' = [picked EXCEPT !.shown = Shown(select)]
    /\ field' = [field EXCEPT !.word = NoWord]
    /\ UNCHANGED <<multiple, select>>

ChosenNext ==
    \/ \E on \in {"item", "rest", "close"} : Mousedown(on)
    \/ \E enters \in BOOLEAN : Mouse(enters)
    \/ FocusTimer \/ Blur \/ Focus \/ BlurTest \/ ClickOutside \/ ClickInside
    \/ \E i \in DOMAIN known.menu :
          \/ \E keeps \in BOOLEAN : SearchResultsMouseup(i, keeps)
          \/ SearchResultsMouseover(i) \/ ChoiceDestroyLinkClick(i)
    \/ SearchResultsMouseout
    \/ \E w \in Words : Type(w)
    \/ Backspace \/ Enter \/ Escape \/ Tab \/ ArrowDown \/ ArrowUp
    \/ \E menu \in Menus : SetCores(menu)
    \/ ResultsUpdateField

ChosenSpec == ChosenInit /\ [][ChosenNext]_chosenVars

-------------------------------------------------------------------------------
ChosenTypeOK ==
    /\ list.active \cup list.selected \subseteq Listed(known.menu)
    /\ list.highlight \in DOMAIN known.menu \cup {Nobody}
    /\ select.options \subseteq 0..Cardinality(Options_(select.menu))

(***************************************************************************)
(* What the field shows is what the select has selected.  When the page    *)
(* has changed the options and not said so, the select has its first, or,  *)
(* if the user picks a line, the option that stands now where that line    *)
(* stood before (and there is one), while the field shows the line.  In a  *)
(* multiple select each choice is shown once, and no more are counted than *)
(* are shown.  (Fewer may be: a choice that the backspace key has marked,  *)
(* and the mouse removed, is removed again by the next backspace.)         *)
(***************************************************************************)
ShowsWhatIsSelected ==
    IF multiple
    THEN /\ picked.count <= Len(picked.shown)
         /\ Cardinality(ToSet(picked.shown)) = Len(picked.shown)
         /\ ToSet(picked.shown) = SelectedIn(select.menu, select.options)
    ELSE /\ updated => picked.shown = <<SingleText(select)>>
         /\ ~updated /\ select.options # {0} =>
                picked.shown = <<SingleText([select EXCEPT !.menu = known.menu])>>
         /\ \A index \in select.options : index < Cardinality(Options_(select.menu))

(***************************************************************************)
(* The line that the enter key takes is one the list offers: the word has  *)
(* found it, and in a multiple select it has not been taken yet.           *)
(***************************************************************************)
HighlightIsOffered ==
    field.showing /\ list.highlight # Nobody =>
        /\ list.highlight \in list.active
        /\ list.highlight \in Found(known, field.word)

(***************************************************************************)
(* A single field that the user has left, and no timeout will look at, is  *)
(* closed and does not listen to the clicks of the page.  (A multiple one  *)
(* closes itself when a choice is removed and keeps the focus; what is     *)
(* typed then opens a list that nothing closes.)                           *)
(***************************************************************************)
LeftIsClosed ==
    ~multiple /\ ~field.on /\ ~field.blurs /\ ~field.focused => ~field.showing /\ ~field.listening

SelectsAreShown == ChosenTypeOK /\ ShowsWhatIsSelected /\ HighlightIsOffered /\ LeftIsClosed
===============================================================================
