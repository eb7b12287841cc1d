--------------------------- MODULE MCWidgetStream ---------------------------
(***************************************************************************)
(* WidgetStream with what its tool calls are assembled from: a reply of    *)
(* two calls in two pieces each, at indexes with a gap.                    *)
(***************************************************************************)
EXTENDS WidgetStream, LLMReplies

MCReplies == {<<<<"search", "query">>, <<"classify", "title">>>>}
MCIndexes == <<0, 2>>
=============================================================================
