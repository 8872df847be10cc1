-------------------------------- MODULE CloudPage --------------------------------
(***************************************************************************)
(* The cloud page of the console: the tree of ZooKeeper's files and the    *)
(* two graphs of the cluster.                                              *)
(*                                                                         *)
(* A visit asks for the template, then whether ZooKeeper answers, and only *)
(* then triggers `activate' on its link of the menu.  What listens to that *)
(* was bound by the last template to be drawn, and the graphs go into the  *)
(* canvas of the document, so the answers of two visits can meet on a page.*)
(***************************************************************************)
LOCAL INSTANCE Naturals
LOCAL INSTANCE Sequences
LOCAL INSTANCE SequencesExt
LOCAL INSTANCE FiniteSets

CONSTANTS
    Clusters,      \* what the server may say of its nodes and replicas
    ZkFile,        \* the links of the tree
    NoFile,        \* no link of it
    MaxCloudVisits,\* bound on the visits
    MaxFileClicks  \* bound on the clicks in the tree

CloudViews == {"tree", "graph", "rgraph"}

(***************************************************************************)
(* A replica: its node, its state, and its address, in parts; one whose    *)
(* address is not an address makes the script throw.                       *)
(***************************************************************************)
AddressParts == {"protocol", "hostname", "port", "pathname"}

ASSUME CloudAssumption ==
    /\ NoFile \notin ZkFile
    /\ \A c \in Clusters : \A i \in DOMAIN c.replicas :
          /\ DOMAIN c.replicas[i] = {"node", "state", "uri", "bad"}
          /\ DOMAIN c.replicas[i].uri = AddressParts

VARIABLES
    cluster,       \* the state of the server
    cloudVisits,   \* the views that were visited, or "elsewhere"
    requested,     \* the requests that are under way
    cloudPage,     \* the page that is drawn
    navigation,    \* the links of the menu that are active
    listeners,     \* the visits whose handlers listen to `activate'
    helperData,    \* helper_data: the parts of all addresses met so far
    unanswered     \* the visits that still waited when the last one was made (not in the code)

cloudVars == <<cluster, cloudVisits, requested, cloudPage, navigation, listeners, helperData,
               unanswered>>

(***************************************************************************)
(* Of a page: whose trees and graphs are in it, the last click on a link   *)
(* and the one whose file came last; and, which is not in the code, the    *)
(* visits that were still waiting for an answer when it was drawn.         *)
(***************************************************************************)
Elsewhere == [of |-> 0]
NewPage(v) == [of |-> v, trees |-> {}, graphs |-> <<>>, failed |-> FALSE, link |-> NoFile,
               file |-> NoFile, clicks |-> 0, shown |-> 0, waiting |-> {}]

CloudInit ==
    /\ cluster \in Clusters
    /\ cloudVisits = <<>> /\ requested = {} /\ cloudPage = Elsewhere
    /\ navigation = {} /\ listeners = {}
    /\ helperData = [p \in AddressParts |-> {}]
    /\ unanswered = {}

CloudRests == cluster = CHOOSE c \in Clusters : TRUE

LastVisit == Len(cloudVisits)
Asks(what, v) == [what |-> what, by |-> v, visit |-> v]
WaitingFor(what) == {r.by : r \in {q \in requested : q.what \in what}}
OnPage(p) == cloudPage.of = p /\ cloudPage # Elsewhere
Drawn(p) == OnPage(p) /\ ~cloudPage.failed

-------------------------------------------------------------------------------
VisitCloud(view) ==
    /\ LastVisit < MaxCloudVisits
    /\ cloudVisits' = Append(cloudVisits, view)
    /\ requested' = IF view = "elsewhere" THEN requested ELSE requested \cup {Asks("template", LastVisit + 1)}
    /\ cloudPage' = IF view = "elsewhere" THEN Elsewhere ELSE cloudPage
    /\ navigation' = {}
    /\ unanswered' = WaitingFor({"template", "zookeeper"})
    /\ UNCHANGED <<cluster, listeners, helperData>>

(* A fault of the template's callback: the handlers of the last page are not taken away. *)
BoundAlso(v) == listeners \cup {v}
BoundOnly(v) == {v}

CloudTemplate(v) ==
    /\ Asks("template", v) \in requested
    /\ requested' = (requested \ {Asks("template", v)}) \cup {Asks("zookeeper", v)}
    /\ cloudPage' = [NewPage(v) EXCEPT !.waiting = WaitingFor({"zookeeper", "tree", "live", "state"})]
    /\ listeners' = BoundOnly(v)
    /\ UNCHANGED <<cluster, cloudVisits, navigation, helperData, unanswered>>

(***************************************************************************)
(* The link of the visit's path is activated, for whichever page listens.  *)
(***************************************************************************)
FirstRequest(v, p) ==
    [what |-> IF cloudVisits[v] = "tree" THEN "tree" ELSE "live", by |-> v, visit |-> p]

ZookeeperAnswers(v) ==
    /\ Asks("zookeeper", v) \in requested
    /\ LET view == cloudVisits[v]
           rest == requested \ {Asks("zookeeper", v)}
       IN  IF view \in CloudViews
           THEN /\ navigation' = navigation \cup {view}
                /\ requested' = rest \cup {FirstRequest(v, p) : p \in listeners}
           ELSE requested' = rest /\ UNCHANGED navigation
    /\ UNCHANGED <<cluster, cloudVisits, cloudPage, listeners, helperData, unanswered>>

(***************************************************************************)
(* zk_error writes over the page, if the answer says what is wrong; when   *)
(* it does not, to ask it throws.                                          *)
(***************************************************************************)
ZkError(r, says) ==
    /\ r \in requested /\ r.what \in {"zookeeper", "tree"}
    /\ requested' = requested \ {r}
    /\ cloudPage' = IF says /\ Drawn(r.visit)
                    THEN [NewPage(r.visit) EXCEPT !.failed = TRUE, !.waiting = cloudPage.waiting]
                    ELSE cloudPage
    /\ UNCHANGED <<cluster, cloudVisits, navigation, listeners, helperData, unanswered>>

NoAnswer(r) ==
    /\ r \in requested /\ r.what \in {"template", "live", "state", "file"}
    /\ requested' = requested \ {r}
    /\ UNCHANGED <<cluster, cloudVisits, cloudPage, navigation, listeners, helperData, unanswered>>

-------------------------------------------------------------------------------
(***************************************************************************)
(* prepare_graph: the live nodes first, then the state of the cluster,     *)
(* which may be another by then.                                           *)
(***************************************************************************)
LiveNodes(r) ==
    /\ r \in requested /\ r.what = "live"
    /\ requested' = (requested \ {r}) \cup {[what |-> "state", by |-> r.by, visit |-> r.visit,
                                     live |-> cluster.live]}
    /\ UNCHANGED <<cluster, cloudVisits, cloudPage, navigation, listeners, helperData, unanswered>>

ClusterChanges(c) ==
    /\ \E r \in requested : r.what = "state"
    /\ c # cluster
    /\ cluster' = c
    /\ UNCHANGED <<cloudVisits, requested, cloudPage, navigation, listeners, helperData, unanswered>>

(***************************************************************************)
(* The replicas that are read: those before the first bad address.         *)
(***************************************************************************)
ReplicasRead(replicas) ==
    {replicas[i] : i \in {j \in DOMAIN replicas : \A k \in 1..j : ~replicas[k].bad}}
IsWhole(replicas) == \A i \in DOMAIN replicas : ~replicas[i].bad

Pushed_(h, replicas) == [p \in AddressParts |-> h[p] \cup {r.uri[p] : r \in replicas}]

(***************************************************************************)
(* helper_node_text: the host, and of the other parts those that have had  *)
(* more than one value, on this page or an earlier one.                    *)
(***************************************************************************)
(* A fault of helper_node_text: a part with two values is left out. *)
ManyOf(values) == Cardinality(values) > 2
NotOne(values) == Cardinality(values) # 1

NodeText(h, uri) ==
    [p \in AddressParts |-> IF p = "hostname" \/ NotOne(h[p]) THEN <<uri[p]>> ELSE <<>>]

GraphOf(h, r) ==
    [by |-> r.by, from |-> r.visit,
     nodes |-> {[uri |-> x.uri, text |-> NodeText(h, x.uri),
                 state |-> IF x.node \in r.live THEN x.state ELSE "gone"]
                   : x \in ReplicasRead(cluster.replicas)}]

ClusterState(r) ==
    /\ r \in requested /\ r.what = "state"
    /\ requested' = requested \ {r}
    /\ LET h == Pushed_(helperData, ReplicasRead(cluster.replicas))
           draws == IsWhole(cluster.replicas) /\ cloudPage # Elsewhere /\ ~cloudPage.failed
       IN  /\ helperData' = h
           /\ cloudPage' = IF draws THEN [cloudPage EXCEPT !.graphs = Append(@, GraphOf(h, r))]
                           ELSE cloudPage
    /\ UNCHANGED <<cluster, cloudVisits, navigation, listeners, unanswered>>

-------------------------------------------------------------------------------
(***************************************************************************)
(* init_tree, and the clicks on its links: the file of the last one is     *)
(* asked for, and drawn when it comes.                                     *)
(***************************************************************************)
TreeComes(r) ==
    /\ r \in requested /\ r.what = "tree"
    /\ requested' = requested \ {r}
    /\ cloudPage' = IF Drawn(r.visit) THEN [cloudPage EXCEPT !.trees = @ \cup {r.by}] ELSE cloudPage
    /\ UNCHANGED <<cluster, cloudVisits, navigation, listeners, helperData, unanswered>>

(* A fault of the click: the link that was active stays so. *)
Activates(f, old) == IF old = NoFile THEN f ELSE old
ActivatesOnly(f, old) == f

ClickFile(f) ==
    /\ cloudPage # Elsewhere /\ cloudPage.trees # {}
    /\ cloudPage.clicks < MaxFileClicks
    /\ LET n == cloudPage.clicks + 1
       IN  /\ cloudPage' = [cloudPage EXCEPT !.link = ActivatesOnly(f, @), !.clicks = n]
           /\ requested' = requested \cup {[what |-> "file", by |-> cloudPage.of,
                                            visit |-> cloudPage.of, file |-> f, n |-> n]}
    /\ UNCHANGED <<cluster, cloudVisits, navigation, listeners, helperData, unanswered>>

CloseFile ==
    /\ cloudPage # Elsewhere /\ cloudPage.link # NoFile
    /\ cloudPage' = [cloudPage EXCEPT !.link = NoFile]
    /\ UNCHANGED <<cluster, cloudVisits, requested, navigation, listeners, helperData, unanswered>>

FileComes(r) ==
    /\ r \in requested /\ r.what = "file"
    /\ requested' = requested \ {r}
    /\ cloudPage' = IF Drawn(r.visit) THEN [cloudPage EXCEPT !.file = r.file, !.shown = r.n]
                    ELSE cloudPage
    /\ UNCHANGED <<cluster, cloudVisits, navigation, listeners, helperData, unanswered>>

CloudNext ==
    \/ \E view \in CloudViews \cup {"other", "elsewhere"} : VisitCloud(view)
    \/ \E v \in DOMAIN cloudVisits : CloudTemplate(v) \/ ZookeeperAnswers(v)
    \/ \E r \in requested :
          \/ \E says \in BOOLEAN : ZkError(r, says)
          \/ NoAnswer(r) \/ LiveNodes(r) \/ ClusterState(r) \/ TreeComes(r) \/ FileComes(r)
    \/ \E c \in Clusters : ClusterChanges(c)
    \/ \E f \in ZkFile : ClickFile(f)
    \/ CloseFile

CloudSpec == CloudInit /\ [][CloudNext]_cloudVars

-------------------------------------------------------------------------------
(***************************************************************************)
(* Two nodes with different addresses have different texts in a graph,     *)
(* though a text leaves out what all addresses have had in common so far.  *)
(***************************************************************************)
LabelsTellNodesApart ==
    cloudPage # Elsewhere =>
        \A i \in DOMAIN cloudPage.graphs : \A a, b \in cloudPage.graphs[i].nodes :
            a.uri # b.uri => a.text # b.text

(***************************************************************************)
(* A page has the tree or the graph that its own visit asked for, at most  *)
(* once, whatever else comes.  What other visits asked for may be on it,   *)
(* since the canvas is that of the document and handlers are those of the  *)
(* last page: but only of visits that were still waiting when the page was *)
(* drawn, one view of each; and a link of the menu is active only for the  *)
(* last visit or one that was still waiting when it was made.              *)
(***************************************************************************)
OneViewOnAPage ==
    /\ cloudPage # Elsewhere =>
         LET drawnBy == {cloudPage.graphs[i].by : i \in DOMAIN cloudPage.graphs}
             known == {cloudPage.of} \cup cloudPage.waiting
         IN  /\ drawnBy \subseteq {v \in known : cloudVisits[v] \in {"graph", "rgraph"}}
             /\ Len(cloudPage.graphs) = Cardinality(drawnBy)
             /\ cloudPage.trees \subseteq {v \in known : cloudVisits[v] = "tree"}
             /\ \A i \in DOMAIN cloudPage.graphs :
                   cloudPage.graphs[i].by = cloudPage.of => cloudPage.graphs[i].from = cloudPage.of
    /\ \A view \in navigation : \E v \in {LastVisit} \cup unanswered : view = cloudVisits[v]

(***************************************************************************)
(* When the file that came last is the one that was clicked last, it is    *)
(* that of the active link.  (A file that is overtaken on its way replaces *)
(* the later one.)                                                         *)
(***************************************************************************)
FileOfTheLink ==
    cloudPage # Elsewhere /\ cloudPage.link # NoFile /\ cloudPage.shown = cloudPage.clicks =>
        cloudPage.file = cloudPage.link

CloudIsShown == LabelsTellNodesApart /\ OneViewOnAPage /\ FileOfTheLink
===============================================================================
