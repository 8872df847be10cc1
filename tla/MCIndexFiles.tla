---------------------------- MODULE MCIndexFiles ----------------------------
(* A docs directory with one file and a subdirectory with another one. *)
EXTENDS IndexFiles, TLC

CONSTANTS top, nested, docs, sub

MCEntries == docs :> {top, sub} @@ sub :> {nested}
MCBelow == docs :> {top, nested} @@ sub :> {nested}

=============================================================================
