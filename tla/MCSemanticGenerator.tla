-------------------------- MODULE MCSemanticGenerator --------------------------
(***************************************************************************)
(* Two sound records that share a person and a department, one that lacks  *)
(* its title and one whose creator is a comma.  "Aa" and "BB" have the same*)
(* hash code in Java.                                                      *)
(***************************************************************************)
EXTENDS SemanticGenerator, TLC

MCHashCode == "Aa" :> "2112" @@ "BB" :> "2112" @@ "Dep" :> "68596" @@ "," :> "44"
MCName == DOMAIN MCHashCode
MCNameOf == [n \in MCName |-> n]
MCConcept == {"crisis", "espana"}
MCLabels == "crisis" :> {"crisis"} @@ "espana" :> {"españa", "spain"}

Tesis == [identifier |-> "d1", tipo |-> "Tesis", language |-> "spa",
          title |-> "t1", contributor |-> {}, creator |-> {"Aa"},
          publisher |-> {"Dep"}, tokens |-> {"crisis", "espana"}]
TFG == [Tesis EXCEPT !.identifier = "d2", !.tipo = "TFG", !.title = "t2",
                     !.contributor = {"Aa"}, !.creator = {"BB"},
                     !.tokens = {"spain"}]
Untitled == [Tesis EXCEPT !.identifier = "d3", !.title = None]
Unnamed == [Tesis EXCEPT !.creator = {","}]

MCRecord == {Tesis, TFG, Untitled, Unnamed}
MCBase == {Says(l, "type", "Idioma") : l \in {"eng", "spa", "fre"}}
===============================================================================
