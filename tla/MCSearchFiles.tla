---------------------------- MODULE MCSearchFiles ----------------------------
(* Two needs over two files: one matches both, the other a single one. *)
EXTENDS SearchFiles, TLC

CONSTANTS p, q, s1, s2

MCMatches == <<{p, q}, {q}>>
MCName == p :> "oai_1.xml" @@ q :> "oai_2.xml"

(* The text of the last need of the second execution is not a query. *)
MCBroken == s1 :> {} @@ s2 :> {2}
===============================================================================
