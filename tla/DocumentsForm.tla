------------------------------ MODULE DocumentsForm ------------------------------
(***************************************************************************)
(* Two forms of a core: the query page's, which an address can fill, at    *)
(* the end; and before it that of the documents page, which posts a        *)
(* document, in the form that a select says, or uploads a file by a frame. *)
(*                                                                         *)
(* jquery.ajaxfileupload.js wraps the file's input into a form of its own, *)
(* takes it out when the frame has loaded, and from the first upload on    *)
(* uploads each file that is chosen, with what it was told that first time.*)
(***************************************************************************)
LOCAL INSTANCE Naturals
LOCAL INSTANCE Sequences
LOCAL INSTANCE SequencesExt
LOCAL INSTANCE Functions
LOCAL INSTANCE FiniteSets
LOCAL INSTANCE FiniteSetsExt

CONSTANTS
    Handlers,      \* the request handlers that are typed
    MaxPosts,      \* bound on the documents and files that are sent
    MaxInputs,     \* bound on the file inputs, of which each change of the type makes one
    MaxAddedFields \* bound on the fields that are added to a document

Types_ == {"json", "csv", "xml", "solr", "wizard", "upload"}

VARIABLES
    doc,           \* the form: type, text, what is shown
    fieldsAsked,   \* the requests for the fields of the wizard
    dispatched,    \* the documents and files sent: how many, those under way, and the
                   \* frames that were made in the second of the last upload
    input          \* the file input: its number, file, forms around it, first address, and
                   \* the files that were chosen in it and whether an upload of it was
                   \* crossed by another (the last two not in the code)

documentVars == <<doc, fieldsAsked, dispatched, input>>

NoFile_ == "no file"

(***************************************************************************)
(* The text a type begins with: an example, or for the wizard nothing.     *)
(***************************************************************************)
ExampleOf(type) == IF type \in {"wizard", "upload"} THEN <<>> ELSE <<type>>

DisplayOf(type) ==
    [json |-> type = "json", file |-> type = "upload", document |-> type # "upload",
     wizard |-> type = "wizard", attributes |-> type # "solr"]

NewInput(n) == [n |-> n, file |-> NoFile_, wraps |-> 0, first |-> "none", chosen |-> {},
                crossed |-> FALSE]

DocumentsInit ==
    /\ \E h \in Handlers :
          doc = [type |-> "json", text |-> ExampleOf("json"), display |-> DisplayOf("json"),
                 handler |-> h, fields |-> FALSE]
    /\ fieldsAsked = 0 /\ dispatched = [last |-> 0, open |-> {}, frames |-> {}]
    /\ input = NewInput(1)

DocumentsRest == doc.handler = CHOOSE h \in Handlers : TRUE

SentAlso(what) == [dispatched EXCEPT !.last = @ + 1, !.open = @ \cup {what}]

-------------------------------------------------------------------------------
(***************************************************************************)
(* Another type: the file input is made again from its markup, so that no  *)
(* old file is sent, and what belongs to the type is shown.                *)
(***************************************************************************)
(* A fault of the type's handler: the new file input still has the old file. *)
SameFile == [NewInput(input.n + 1) EXCEPT !.file = input.file]
Redrawn == NewInput(input.n + 1)

(* A fault of the type's handler: the text that is there stays. *)
TextStays(type) == IF doc.text = <<>> THEN ExampleOf(type) ELSE doc.text
TextFor(type) == IF type = "upload" THEN doc.text ELSE ExampleOf(type)

ChangeType(type) ==
    /\ input.n < MaxInputs
    /\ input' = Redrawn
    /\ doc' = [doc EXCEPT !.type = type, !.display = DisplayOf(type),
                          !.text = TextFor(type)]
    /\ fieldsAsked' = IF type = "wizard" THEN fieldsAsked + 1 ELSE fieldsAsked
    /\ UNCHANGED <<dispatched>>

FieldsCome ==
    /\ fieldsAsked > 0
    /\ fieldsAsked' = fieldsAsked - 1
    /\ doc' = [doc EXCEPT !.fields = TRUE]
    /\ UNCHANGED <<dispatched, input>>

FieldsLost ==
    /\ fieldsAsked > 0
    /\ fieldsAsked' = fieldsAsked - 1
    /\ UNCHANGED <<doc, dispatched, input>>

(***************************************************************************)
(* Add Field: the entry goes before the last brace of the text; of a text  *)
(* that has none a new object is begun.                                    *)
(***************************************************************************)
AddField ==
    /\ doc.display.wizard
    /\ Len(doc.text) <= MaxAddedFields
    /\ doc' = [doc EXCEPT !.text = IF @ = <<>> THEN <<"object", "field">> ELSE Append(@, "field")]
    /\ UNCHANGED <<fieldsAsked, dispatched, input>>

TypeHandler(h) ==
    /\ h # doc.handler
    /\ doc' = [doc EXCEPT !.handler = h]
    /\ UNCHANGED <<fieldsAsked, dispatched, input>>

-------------------------------------------------------------------------------
(***************************************************************************)
(* A document that is posted: the command and its type.  A command of Solr *)
(* is what its text looks like.                                            *)
(***************************************************************************)
Command(d) ==
    [url |-> d.handler, text |-> d.text,
     type |-> CASE d.type \in {"json", "wizard"} -> "application/json"
                [] d.type = "csv" -> "application/csv"
                [] d.type \in {"xml", "solr"} -> "text/xml"]

SubmitDocument ==
    /\ doc.type # "upload"
    /\ dispatched.last < MaxPosts
    /\ dispatched' = SentAlso([n |-> dispatched.last + 1, by |-> 0, command |-> Command(doc)])
    /\ UNCHANGED <<doc, fieldsAsked, input>>

(***************************************************************************)
(* ajaxfileupload: a file is uploaded, through a new frame, to where this  *)
(* call (or, when a file is chosen, the first call of this input) says.    *)
(* The mark that one is under way is the call's own, and stops nobody.     *)
(*                                                                         *)
(* A frame is named by the second it is made in, and stays.  Of frames of  *)
(* one name the new one is the first in the document, so the call's        *)
(* handler is on its own frame; but the form is sent to any frame of the   *)
(* name, which forgets what it was loading.                                *)
(***************************************************************************)
Interrupted(frame) == {p \in dispatched.open : p.by # 0 /\ p.frame = frame}

UploadInto(frame, named, i, url) ==
    LET n == dispatched.last + 1
        upload == [n |-> n, by |-> i.n, file |-> i.file, url |-> url, frame |-> frame]
    IN  /\ dispatched' = [last |-> n, frames |-> named,
                          open |-> (dispatched.open \ Interrupted(frame)) \cup {upload}]
        /\ input' = [i EXCEPT !.wraps = @ + 1,
                              !.crossed = @ \/ Interrupted(frame) # {} \/ frame.of # i.n]

Upload(i, url) ==
    IF i.file = NoFile_
    THEN input' = i /\ UNCHANGED dispatched
    ELSE /\ dispatched.last < MaxPosts
         /\ \E ofThisSecond \in {{}, dispatched.frames} :
                LET named == ofThisSecond \cup {[n |-> dispatched.last + 1, of |-> i.n]}
                IN  \E frame \in named : UploadInto(frame, named, i, url)

SubmitUpload ==
    /\ doc.type = "upload"
    /\ Upload([input EXCEPT !.first = IF @ = "none" THEN doc.handler ELSE @], doc.handler)
    /\ UNCHANGED <<doc, fieldsAsked>>

ChooseFile(f) ==
    /\ doc.display.file /\ f # input.file
    /\ LET i == [input EXCEPT !.file = f, !.chosen = @ \cup {f}]
       IN  IF input.first = "none" THEN input' = i /\ UNCHANGED dispatched ELSE Upload(i, input.first)
    /\ UNCHANGED <<doc, fieldsAsked>>

(***************************************************************************)
(* handleResponse: when a frame has loaded, the upload that made it takes  *)
(* a form from around its input, whichever upload was sent to the frame.   *)
(* (Of an input that has been replaced it is the old one's form.)          *)
(***************************************************************************)
(* A fault of handleResponse: what is unwrapped is the input of the page. *)
UnwrappedThere(i, p) == IF p.by # 0 THEN [i EXCEPT !.wraps = @ - 1] ELSE i
Unwrapped(i, p) == IF p.by # 0 /\ p.frame.of = i.n THEN [i EXCEPT !.wraps = @ - 1] ELSE i

Answers(p) ==
    /\ dispatched' = [dispatched EXCEPT !.open = @ \ {p}]
    /\ input' = Unwrapped(input, p)
    /\ UNCHANGED <<doc, fieldsAsked>>

DocumentsNext ==
    \/ \E type \in Types_ : ChangeType(type)
    \/ FieldsCome \/ FieldsLost \/ AddField
    \/ \E h \in Handlers : TypeHandler(h)
    \/ SubmitDocument \/ SubmitUpload
    \/ \E f \in {"file", "another", NoFile_} : ChooseFile(f)
    \/ \E p \in dispatched.open : Answers(p)

DocumentsSpec == DocumentsInit /\ [][DocumentsNext]_documentVars

-------------------------------------------------------------------------------
(***************************************************************************)
(* The input is back where it was when the last of its uploads has been    *)
(* answered, unless one was sent to a frame of another of the same second  *)
(* that had not been answered, or that an input before this one had made;  *)
(* then forms stay around it, but none is ever taken from an upload that   *)
(* is under way.  And a file is sent only if it was chosen in the input    *)
(* that is on the page, not in one that a change of the type has replaced. *)
(***************************************************************************)
InputIsFree ==
    LET uploads == {p \in dispatched.open : p.by = input.n}
    IN  /\ input.wraps >= Cardinality(uploads)
        /\ ~input.crossed => input.wraps = Cardinality(uploads)
        /\ \A p \in uploads : p.file \in input.chosen

(***************************************************************************)
(* A document that is posted is in the form that its content type says:    *)
(* what was written for another type has not stayed in the text.           *)
(***************************************************************************)
FormatsOf ==
    [x \in {"application/json", "application/csv", "text/xml"} |->
        CASE x = "application/json" -> {"json", "object"}
          [] x = "application/csv" -> {"csv"}
          [] x = "text/xml" -> {"xml", "solr"}]

PostsAreOfTheirType ==
    \A p \in dispatched.open : p.by = 0 /\ p.command.text # <<>> =>
        Head(p.command.text) \in FormatsOf[p.command.type]

DocumentsAreSent == InputIsFree /\ PostsAreOfTheirType

-------------------------------------------------------------------------------
(***************************************************************************)
(* The query page (query.js).  Of its fields there are q, which stands for *)
(* all fields that are there once, fq with its rows, and qf in a set of    *)
(* fields that the box defType opens.                                      *)
(***************************************************************************)
CONSTANTS
    QueryLinks,    \* the query strings of addresses: sequences of a name and a value
    EverythingQ,   \* what is in q from the start, *:*
    DismaxBox,     \* the value of the box defType
    EmptyField,        \* the empty string
    QueryTexts,         \* what is typed
    MaxFqRows, MaxQueryEdits, MaxAskedQueries, MaxQueryVisits   \* bounds

VARIABLES
    queryVisits,   \* the links that were visited, and those whose template is to come
    queryForm,     \* the form
    queryAsked,    \* the queries, in order, and those under way
    queryShown     \* the page's element for the response

queryVars == <<queryVisits, queryForm, queryAsked, queryShown>>

(***************************************************************************)
(* _parseParamPair: a name that has a value already gets a list of both.   *)
(***************************************************************************)
(* A fault of it: the later value counts. *)
PairOverrides(params, pair) == pair[1] :> [list |-> FALSE, values |-> <<pair[2]>>] @@ params

WithPair(params, pair) ==
    IF pair[1] \in DOMAIN params /\ params[pair[1]].values # <<EmptyField>>
    THEN [params EXCEPT ![pair[1]] = [list |-> TRUE, values |-> Append(@.values, pair[2])]]
    ELSE pair[1] :> [list |-> FALSE, values |-> <<pair[2]>>] @@ params

ParamsOf(link) == FoldLeft(WithPair, <<>>, link)

FreshForm(v) ==
    [visit |-> v, q |-> EverythingQ, fq |-> <<EmptyField>>, open |-> FALSE, box |-> DismaxBox,
     qf |-> EmptyField, select |-> TRUE, raw |-> EmptyField, edits |-> 0, typed |-> {}]

QueryInit ==
    /\ queryVisits = [links |-> <<>>, waiting |-> {}]
    /\ queryForm = FreshForm(0)
    /\ queryAsked = [queries |-> <<>>, waiting |-> {}]
    /\ queryShown = [by |-> 0, loading |-> FALSE]

(***************************************************************************)
(* The fields of the two sets, and what formToArray (jquery.form.js) makes *)
(* of a set: a pair for each field with a name, unless it is a box that is *)
(* not ticked.                                                             *)
(***************************************************************************)
NoName == "no name"
Text(name, value) == [name |-> name, value |-> value, box |-> FALSE, checked |-> FALSE]
Box(name, value, checked) == [name |-> name, value |-> value, box |-> TRUE, checked |-> checked]

CommonSet(f) ==
    <<Text("q", f.q)>> \o [i \in DOMAIN f.fq |-> Text("fq", f.fq[i])] \o <<Text(NoName, f.raw)>>
DismaxSet(f) == <<Box("defType", f.box, f.open), Text("qf", f.qf)>>

FieldValue(el) ==
    IF el.name = NoName \/ (el.box /\ ~el.checked) THEN <<>> ELSE << <<el.name, el.value>> >>
FormToArray(els) == FlattenSeq([i \in DOMAIN els |-> FieldValue(els[i])])

(***************************************************************************)
(* The form is sent: what is not empty in the first set of fields, in the  *)
(* other sets whose box is ticked, the handler unless it is a path, and    *)
(* what was written raw.                                                   *)
(***************************************************************************)
NotEmpty(pairs) == SelectSeq(pairs, LAMBDA pair : pair[2] # EmptyField)

FormValues(f) ==
    NotEmpty(FormToArray(CommonSet(f)))
    \o (IF f.open THEN NotEmpty(FormToArray(DismaxSet(f))) ELSE <<>>)
    \o (IF f.select THEN <<>> ELSE << <<"qt", "handler">> >>)
    \o NotEmpty(<< <<"raw", f.raw>> >>)

Submitted(f) ==
    LET n == Len(queryAsked.queries) + 1
    IN  /\ queryAsked' = [queries |-> Append(queryAsked.queries,
                                            [of |-> FormValues(f), visit |-> f.visit, open |-> f.open,
                                             typed |-> f.typed]),
                          waiting |-> queryAsked.waiting \cup {n}]
        /\ queryShown' = [by |-> 0, loading |-> TRUE]

(***************************************************************************)
(* The route: each parameter that is a string goes into the fields of its  *)
(* name, and if there was one at all the form is sent.  The box of a set   *)
(* gets a value by this, but it is not ticked.                             *)
(***************************************************************************)
QueryVisit(link) ==
    /\ Len(queryVisits.links) < MaxQueryVisits
    /\ queryVisits' = [links |-> Append(queryVisits.links, link),
                       waiting |-> queryVisits.waiting \cup {Len(queryVisits.links) + 1}]
    /\ UNCHANGED <<queryForm, queryAsked, queryShown>>

Strings(params) == {name \in DOMAIN params : ~params[name].list}
StringOr(params, name, value) == IF name \in Strings(params) THEN params[name].values[1] ELSE value

FormOf(v, params) ==
    LET fresh == FreshForm(v)
    IN  [fresh EXCEPT !.q = StringOr(params, "q", @), !.qf = StringOr(params, "qf", @),
                      !.box = StringOr(params, "defType", @),
                      !.fq = <<StringOr(params, "fq", EmptyField)>>]

QueryDrawn(v) ==
    /\ v \in queryVisits.waiting
    /\ queryVisits' = [queryVisits EXCEPT !.waiting = @ \ {v}]
    /\ LET params == ParamsOf(queryVisits.links[v])
           form == FormOf(v, params)
       IN  /\ queryForm' = form
           /\ IF Strings(params) = {}
              THEN UNCHANGED queryAsked /\ queryShown' = [by |-> 0, loading |-> FALSE]
              ELSE Submitted(form)

-------------------------------------------------------------------------------
(***************************************************************************)
(* What the user does with the form.                                       *)
(***************************************************************************)
Edits(form, names) ==
    /\ queryForm.visit > 0 /\ queryForm.edits < MaxQueryEdits
    /\ queryForm' = [form EXCEPT !.edits = @ + 1, !.typed = @ \cup names]
    /\ UNCHANGED <<queryVisits, queryAsked, queryShown>>

TypeRow(i, value) == i \in DOMAIN queryForm.fq /\ Edits([queryForm EXCEPT !.fq[i] = value], {"fq"})
AddRow(i) ==
    /\ i \in DOMAIN queryForm.fq /\ Len(queryForm.fq) < MaxFqRows
    /\ Edits([queryForm EXCEPT !.fq = InsertAt(@, i + 1, EmptyField)], {"fq"})
RemoveRow(i) ==
    /\ i \in DOMAIN queryForm.fq
    /\ Edits([queryForm EXCEPT !.fq = IF Len(@) = 1 THEN <<EmptyField>> ELSE RemoveAt(@, i)], {"fq"})
TickSet == Edits([queryForm EXCEPT !.open = ~@], {})
ChangeQt == Edits([queryForm EXCEPT !.select = ~@], {})
TypeRaw(value) == Edits([queryForm EXCEPT !.raw = value], {})

SubmitQuery ==
    /\ queryForm.visit > 0 /\ Len(queryAsked.queries) < MaxAskedQueries
    /\ Submitted(queryForm)
    /\ UNCHANGED <<queryVisits, queryForm>>

(***************************************************************************)
(* The response, well or not, goes to the element of the page it was asked *)
(* from, whichever query was the last.                                     *)
(***************************************************************************)
QueryAnswered(n) ==
    /\ n \in queryAsked.waiting
    /\ queryAsked' = [queryAsked EXCEPT !.waiting = @ \ {n}]
    /\ queryShown' = IF queryAsked.queries[n].visit = queryForm.visit
                     THEN [by |-> n, loading |-> FALSE] ELSE queryShown
    /\ UNCHANGED <<queryVisits, queryForm>>

QueryNext ==
    \/ \E link \in QueryLinks : QueryVisit(link)
    \/ \E v \in queryVisits.waiting : QueryDrawn(v)
    \/ \E i \in 1..MaxFqRows : AddRow(i) \/ RemoveRow(i) \/ \E t \in QueryTexts : TypeRow(i, t)
    \/ TickSet \/ ChangeQt \/ SubmitQuery \/ \E t \in QueryTexts : TypeRaw(t)
    \/ \E n \in queryAsked.waiting : QueryAnswered(n)

QuerySpec == QueryInit /\ [][QueryNext]_queryVars

(***************************************************************************)
(* An address that is sent to somebody asks what it says: a name that is   *)
(* said once is asked with its value, one that is not said or more than    *)
(* once as the form has it, and the fields of a set that is not open are   *)
(* not asked.  What the user has typed over is the user's.                 *)
(***************************************************************************)
SaidIn(link, name) ==
    LET values == SelectSeq(link, LAMBDA pair : pair[1] = name)
        first == SelectInSeq(values, LAMBDA pair : pair[2] # EmptyField)
    IN  IF first = 0 THEN values # <<>> ELSE first = Len(values)

ValueIn(link, name, default) ==
    IF SaidIn(link, name) THEN Last(SelectSeq(link, LAMBDA pair : pair[1] = name))[2] ELSE default

AskedOf(query, name) ==
    LET pairs == SelectSeq(query.of, LAMBDA pair : pair[1] = name)
    IN  [i \in DOMAIN pairs |-> pairs[i][2]]

LinkIsAsked(query) ==
    LET link == queryVisits.links[query.visit]
        default == [q |-> EverythingQ, fq |-> EmptyField, defType |-> DismaxBox, qf |-> EmptyField]
    IN  \A name \in DOMAIN default \ query.typed :
            LET value == ValueIn(link, name, default[name])
            IN  AskedOf(query, name) =
                    IF value = EmptyField \/ (name \in {"defType", "qf"} /\ ~query.open) THEN <<>>
                    ELSE <<value>>

(***************************************************************************)
(* There is always a row to write a filter in; a page shows no response    *)
(* to a query of the page before it; and when the answers came in order    *)
(* (nothing is under way), a response stays until the next is asked for.   *)
(***************************************************************************)
ResponseIsThePages ==
    /\ queryForm.fq # <<>>
    /\ queryShown.by > 0 => queryAsked.queries[queryShown.by].visit = queryForm.visit
    /\ queryShown.loading =>
          \E n \in queryAsked.waiting : queryAsked.queries[n].visit = queryForm.visit

QueryIsAsked ==
    /\ \A n \in DOMAIN queryAsked.queries : LinkIsAsked(queryAsked.queries[n])
    /\ ResponseIsThePages
===============================================================================
