--------------------------- MODULE MCCorpusIndexer ---------------------------
(***************************************************************************)
(* Values of the constants for TLC: five issues of core, of which the      *)
(* oldest is in a split of the classifier and the newest has comments      *)
(* without text, and one issue of home-assistant.io.  Three of core are    *)
(* wanted where the limit is two, unless one of them is not closed.        *)
(* Bodies fit one chunk, exceed it, or have a paragraph that exceeds it    *)
(* alone; a comment without text stands between one that fits behind the   *)
(* title and one that is cut.                                              *)
(***************************************************************************)
EXTENDS CorpusIndexer

CONSTANTS r1, r2

MCCore == {1, 3, 4, 5, 6}
MCDocs == {2}
MCExcluded == {1}
MCBlank == {6}
MCFirstClosed == {Issues}
MCRuns == {r1, r2}
MCParagraphs == [i \in Issues |-> IF i = 3 THEN <<1, 5, 3>> ELSE IF i = 5 THEN <<1, 7>> ELSE <<1>>]
MCComments == [i \in Issues |-> IF i = 5 THEN <<2, 0, 9>> ELSE <<>>]
==============================================================================
