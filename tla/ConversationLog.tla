--------------------------- MODULE ConversationLog ---------------------------
(***************************************************************************)
(* What a user of the chat endpoints would like a conversation to be: a    *)
(* log of turns that only grows, until the server forgets it as a whole.   *)
(* A turn is in the log before its answer is acknowledged, and no turn is  *)
(* recorded twice.                                                         *)
(***************************************************************************)
EXTENDS Naturals, Sequences

CONSTANTS Keys, Requests

VARIABLES
  log,      \* the turns of each conversation, named by their requests
  acked     \* requests whose answer reached the client

vars == <<log, acked>>

Init ==
  /\ log = [k \in Keys |-> <<>>]
  /\ acked = {}

Recorded(r) == \E k \in Keys : \E i \in 1..Len(log[k]) : log[k][i] = r

\* A turn ends; its answer may be lost on the way to the client.
Turn(k, r) ==
  /\ ~Recorded(r)
  /\ r \notin acked
  /\ log' = [log EXCEPT ![k] = Append(@, r)]
  /\ acked' \in {acked, acked \cup {r}}

Forget(k) ==
  /\ log' = [log EXCEPT ![k] = <<>>]
  /\ UNCHANGED acked

Next == \E k \in Keys : Forget(k) \/ \E r \in Requests : Turn(k, r)

Spec == Init /\ [][Next]_vars
==============================================================================
