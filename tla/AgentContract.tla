---------------------------- MODULE AgentContract ----------------------------
(***************************************************************************)
(* What one agent request promises the rest of the backend, whatever the   *)
(* language model, the tools and the database do on the way.               *)
(*                                                                         *)
(* While it runs, a request may leave durable effects, one tool call at a  *)
(* time and each call at most once: a long-term memory together with its   *)
(* audit entry, never one without the other, or one inference-log row.     *)
(* It stops once, with a reply or without one, and does nothing after.     *)
(***************************************************************************)

CONSTANT Calls              \* the tool calls a request could make

VARIABLES
  status,                   \* "running", "answered" or "failed"
  memories,                 \* calls whose memory entry is durable
  audits,                   \* calls whose audit entry is durable
  logs                      \* calls whose inference-log row is durable

vars == <<status, memories, audits, logs>>

Init ==
  /\ status = "running"
  /\ memories = {}
  /\ audits = {}
  /\ logs = {}

Fresh(c) == c \notin memories \cup audits \cup logs

Remember(c) ==
  /\ status = "running"
  /\ Fresh(c)
  /\ memories' = memories \cup {c}
  /\ audits' = audits \cup {c}
  /\ UNCHANGED logs

LogInference(c) ==
  /\ status = "running"
  /\ Fresh(c)
  /\ logs' = logs \cup {c}
  /\ UNCHANGED <<memories, audits>>

\* An effect may be the last thing that happens: the process can die between
\* the commit and the code that runs after it.
Effect ==
  /\ \E c \in Calls : Remember(c) \/ LogInference(c)
  /\ status' \in {"running", "answered", "failed"}

Stop ==
  /\ status = "running"
  /\ status' \in {"answered", "failed"}
  /\ UNCHANGED <<memories, audits, logs>>

Next == Effect \/ Stop

Spec == Init /\ [][Next]_vars
==============================================================================
