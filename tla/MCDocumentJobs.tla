--------------------------- MODULE MCDocumentJobs ---------------------------
(* Two connections, each with a job of its own and one that they share,    *)
(* three jobs for two places, and three documents, one with nothing to     *)
(* translate.                                                              *)
EXTENDS DocumentJobs, TLC

CONSTANTS c1, c2, j1, j2, j3, d1, d2, d3

MCShape  == d1 :> <<"prose", "prose">> @@ d2 :> <<"prose">> @@ d3 :> <<"verbatim">>
MCAccess == {<<c1, j1, d1>>, <<c1, j1, d3>>, <<c1, j2, d2>>, <<c2, j2, d2>>, <<c2, j3, d3>>}
=============================================================================
