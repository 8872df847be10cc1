-------------------------- MODULE MCSemanticSearcher --------------------------
(***************************************************************************)
(* Graphs with three documents at most: one on two topics, one on a single *)
(* topic, one with a URI that is too short, and one without a title.       *)
(***************************************************************************)
EXTENDS SemanticSearcher

Document(d, topics) ==
    {Says(d, "type", "Tesis"), Says(d, "Idioma-documento", "spa"),
     Says(d, "title", "t")} \cup {Says(d, "Tema", c) : c \in topics}

Both == Document("d1", {"crisis", "spain"}) \cup Document("d2", {"spain"})
Short == Both \cup Document("short", {"crisis"})
Untitled == Both \ {Says("d2", "title", "t")}

MCGraph == {Both, Short, Untitled}

Query(id, topics, distinct) ==
    [id |-> id, topics |-> topics, distinct |-> distinct]
PerTopic == Query("105-5", {"crisis", "spain"}, FALSE)
Distinct == Query("106-4", {"crisis", "spain"}, TRUE)

MCNeedsFiles == {<<PerTopic, Distinct>>,
                 <<PerTopic, Blank, Distinct>>,
                 <<Distinct, Unrunnable, PerTopic>>}
===============================================================================
