---------------------------- MODULE MCRagAnswer ----------------------------
(***************************************************************************)
(* Four documents, one of them new, and limits of three and two.           *)
(***************************************************************************)
EXTENDS RagAnswer

CONSTANTS d1, d2, d3, new

MCDocs == {d1, d2, d3, new}
MCEarly == {d1, d2, d3}
MCConditions == {{d1, d2, new}, {d3}, {new}, {}}
=============================================================================
