---------------------------- MODULE MCDataSplits ----------------------------
(***************************************************************************)
(* Five issues of core, of which one is closed late and the oldest has no  *)
(* label of the map, so that a label has up to four issues, the fewest     *)
(* with which no split is empty; and two of home-assistant.io, the newer   *)
(* closed late, of which fetch_docs.py has room for one.                   *)
(***************************************************************************)
EXTENDS DataSplits

MCCore == {1, 2, 3, 4, 5}
MCDocs == {6, 7}
MCOpen == {3, 7}
MCRawLabels == [i \in MCCore |->
  CASE i = 1 -> <<"stale">>
    [] i = 4 -> <<"stale", "regression", "support">>
    [] OTHER -> <<"regression">>]
MCLabelMap == [l \in {"regression", "support", "docs"} |->
  CASE l = "regression" -> "bug" [] l = "support" -> "question" [] l = "docs" -> "docs"]
=============================================================================
