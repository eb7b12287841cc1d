---------------------------- MODULE MCChatService ----------------------------
(***************************************************************************)
(* ChatService on small instances: conversations c1 and c2 of one user,    *)
(* c3 of another, and a widget session.                                    *)
(***************************************************************************)
EXTENDS ChatService, TLC

CONSTANTS c1, c2, c3, w1, u1, u2

MCOwnerOf == [k \in ChatKeys |-> IF k = c3 THEN u2 ELSE u1]

\* Requests are interchangeable; no safety property singles one out.
RequestSymmetry == Permutations(Requests)
==============================================================================
