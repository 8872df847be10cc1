------------------------------ MODULE DumpClipboard ------------------------------
(***************************************************************************)
(* The dump of ZooKeeper that the cloud page shows over itself, and the    *)
(* ZeroClipboard clients it glues a Flash movie to its button with: a      *)
(* click on the movie copies the text the movie was last given.            *)
(*                                                                         *)
(* Each showing makes a client, clipboard_client, which is global: the     *)
(* answer to its request, and the closing, find whichever is the newest.   *)
(***************************************************************************)
LOCAL INSTANCE Naturals
LOCAL INSTANCE Sequences
LOCAL INSTANCE FiniteSets
LOCAL INSTANCE FiniteSetsExt

CONSTANTS
    MaxShowings,   \* bound on the showings of the dump
    MaxDumpPages   \* bound on the templates of the page that are drawn

NoDump == 0

VARIABLES
    kicks,         \* Firefox on Windows, which is told of the text late later (chosen once)
    dumpPage,      \* the page: its number, whether the dump is open, what is written where
    dumps,         \* the requests under way, with the page each belongs to
    clients,       \* ZeroClipboard.clients, by id: the last is clipboard_client
    movies,        \* the movies in the document, with the text each has
    late           \* a dump was asked for while one was, or came after the closing (not in the code)

dumpVars == <<kicks, dumpPage, dumps, clients, movies, late>>

CopyText == "Copy to Clipboard"
CopiedText == "Copied to Clipboard!"

NewDumpPage(n) ==
    [n |-> n, open |-> FALSE, shown |-> NoDump, lit |-> FALSE,
     button |-> CopyText, text |-> "undefined", copied |-> CopiedText]

DumpInit ==
    /\ kicks \in BOOLEAN
    /\ dumpPage = NewDumpPage(1) /\ dumps = {}
    /\ clients = <<>> /\ movies = {}
    /\ late = FALSE

DumpRests == kicks

Newest == Len(clients)
NewClient == [clip |-> NoDump, ready |-> FALSE, movie |-> 0, div |-> 0, glued |-> 0, later |-> FALSE]

-------------------------------------------------------------------------------
(***************************************************************************)
(* ZeroClipboard.  A client finds its movie by the id of its element: of   *)
(* two with one id, the first in the document.                             *)
(***************************************************************************)
MovieOf(c) == LET own == {m.at : m \in {x \in movies : x.client = c}}
              IN  IF own = {} THEN 0 ELSE Min(own)

Written(ms, at, text) == {IF m.at = at THEN [m EXCEPT !.text = text] ELSE m : m \in ms}

(***************************************************************************)
(* Client.glue and setText, when the button may be of a page that is gone: *)
(* the movie is not in the document then.  A movie that the client was     *)
(* told of and that is not in the document any more cannot be called.      *)
(***************************************************************************)
SetText(k, ms, text) == IF k.ready THEN Written(ms, k.movie, text) ELSE ms

CannotBeTold(c) == clients[c].ready /\ clients[c].movie \notin {m.at : m \in movies}

NextMovie == 1 + Cardinality(UNION {{<<c, i>> : i \in 1..clients[c].glued} : c \in DOMAIN clients})

GlueAndSet(c, p, text) ==
    LET at == NextMovie
        k == clients[c]
        there == movies \cup (IF p = dumpPage.n
                              THEN {[client |-> c, at |-> at, text |-> NoDump, loaded |-> FALSE]} ELSE {})
    IN  /\ clients' = [clients EXCEPT ![c] = [k EXCEPT !.div = at, !.glued = @ + 1, !.clip = text]]
        /\ movies' = SetText(k, there, text)

(***************************************************************************)
(* receiveEvent(`load'): until the movie is found it is looked for every   *)
(* millisecond; a Firefox on Windows is told that it is ready, and of the  *)
(* text a tenth of a second later.                                         *)
(***************************************************************************)
ReceiveLoad(c, ms) ==
    LET k == [clients[c] EXCEPT !.movie = MovieOf(c), !.later = FALSE]
    IN  \/ /\ MovieOf(c) = 0
           /\ clients' = [clients EXCEPT ![c] = [k EXCEPT !.later = TRUE]]
           /\ movies' = ms
        \/ /\ MovieOf(c) # 0 /\ kicks /\ ~k.ready
           /\ clients' = [clients EXCEPT ![c] = [k EXCEPT !.later = TRUE, !.ready = TRUE]]
           /\ movies' = ms
        \/ /\ MovieOf(c) # 0 /\ (kicks => k.ready)
           /\ clients' = [clients EXCEPT ![c] = [k EXCEPT !.ready = TRUE]]
           /\ movies' = Written(ms, MovieOf(c), k.clip)

MovieLoads(m) ==
    /\ m \in movies /\ ~m.loaded
    /\ ReceiveLoad(m.client, (movies \ {m}) \cup {[m EXCEPT !.loaded = TRUE]})
    /\ UNCHANGED <<kicks, dumpPage, dumps, late>>

LoadTimer(c) ==
    /\ clients[c].later
    /\ ReceiveLoad(c, movies)
    /\ UNCHANGED <<kicks, dumpPage, dumps, late>>

-------------------------------------------------------------------------------
(***************************************************************************)
(* The dump: the button of the menu shows it, the one on it closes it.     *)
(***************************************************************************)
ShowDump ==
    /\ Newest < MaxShowings
    /\ clients' = Append(clients, NewClient)
    /\ dumps' = dumps \cup {[n |-> Newest + 1, page |-> dumpPage.n]}
    /\ dumpPage' = [dumpPage EXCEPT !.open = TRUE, !.shown = NoDump]
    /\ late' = (late \/ dumpPage.open \/ dumps # {})
    /\ UNCHANGED <<kicks, movies>>

DumpComes(d) ==
    /\ d \in dumps
    /\ dumps' = dumps \ {d}
    /\ GlueAndSet(Newest, d.page, d.n)
    /\ dumpPage' = IF d.page = dumpPage.n /\ ~CannotBeTold(Newest)
                   THEN [dumpPage EXCEPT !.shown = d.n] ELSE dumpPage
    /\ late' = (late \/ d.page # dumpPage.n \/ ~dumpPage.open)
    /\ UNCHANGED kicks

DumpLost(d) ==
    /\ d \in dumps
    /\ dumps' = dumps \ {d}
    /\ UNCHANGED <<kicks, dumpPage, clients, movies, late>>

(* A fault of the closing: the client is not destroyed. *)
Kept(c) == movies
Destroy(c) == {m \in movies : m.at # clients[c].div}

(* A button that is given a text is emptied first, of the movies in it too. *)
HideDump ==
    /\ dumpPage.open
    /\ dumpPage' = [dumpPage EXCEPT !.open = FALSE, !.shown = NoDump, !.lit = FALSE,
                                    !.copied = dumpPage.button,
                                    !.button = IF dumpPage.text = "undefined" THEN @ ELSE dumpPage.text]
    /\ movies' = IF dumpPage.text = "undefined" THEN Destroy(Newest) ELSE {}
    /\ clients' = [clients EXCEPT ![Newest].div = 0]
    /\ UNCHANGED <<kicks, dumps, late>>

Copy(m) ==
    /\ m \in movies /\ m.loaded /\ dumpPage.open
    /\ dumpPage' = [dumpPage EXCEPT !.lit = TRUE, !.text = dumpPage.button, !.button = dumpPage.copied]
    /\ movies' = {}
    /\ UNCHANGED <<kicks, dumps, clients, late>>

DrawnAgain ==
    /\ dumpPage.n < MaxDumpPages
    /\ dumpPage' = NewDumpPage(dumpPage.n + 1)
    /\ movies' = {}
    /\ UNCHANGED <<kicks, dumps, clients, late>>

DumpNext ==
    \/ ShowDump \/ HideDump \/ DrawnAgain
    \/ \E d \in dumps : DumpComes(d) \/ DumpLost(d)
    \/ \E m \in movies : MovieLoads(m) \/ Copy(m)
    \/ \E c \in DOMAIN clients : LoadTimer(c)

DumpSpec == DumpInit /\ [][DumpNext]_dumpVars

-------------------------------------------------------------------------------
(***************************************************************************)
(* Unless a dump was asked for while another one was, or came after the    *)
(* closing, there is at most one movie, only while the dump is open, and   *)
(* once its client has heard that it is loaded it copies what is shown.    *)
(***************************************************************************)
CopiesWhatIsShown ==
    ~late =>
        /\ Cardinality(movies) <= 1
        /\ movies # {} => dumpPage.open
        /\ \A m \in movies : m.loaded /\ ~clients[m.client].later => m.text = dumpPage.shown

(***************************************************************************)
(* With the same exceptions, the button says that the text has been copied *)
(* only while it is lit, and the closing puts back what it said before.    *)
(* While it is lit it does say so, unless the page was closed without a    *)
(* copy: the closing takes what the button says for what it is to say.     *)
(***************************************************************************)
LitWhenCopied ==
    ~late =>
        /\ dumpPage.button = CopiedText => dumpPage.lit
        /\ dumpPage.lit /\ dumpPage.copied = CopiedText => dumpPage.button = CopiedText

DumpIsCopied == CopiesWhatIsShown /\ LitWhenCopied
===============================================================================
