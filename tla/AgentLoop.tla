------------------------------ MODULE AgentLoop ------------------------------
(***************************************************************************)
(* One request to the agent: app/agent/loop.py (run and stream), the tool  *)
(* dispatcher app/agent/tools/registry.py, the tools it calls and the      *)
(* SQLAlchemy session the request owns.                                    *)
(*                                                                         *)
(* A step is what happens between two awaits.  The language model and the  *)
(* tools' services are the environment: they may answer anything, fail, or *)
(* name tools that do not exist.  The session is modelled as SQLAlchemy    *)
(* runs it here: objects added wait in "pending" until commit; the first   *)
(* database error leaves the session unusable, because no caller ever      *)
(* rolls it back, and every later use of it raises.                        *)
(*                                                                         *)
(* A tool call is named by <<turn, position>>.  What the messages and the  *)
(* arguments say is left out; history holds what the loop appends after    *)
(* the system prompt and the caller's messages.                            *)
(***************************************************************************)
EXTENDS Integers, Sequences

CONSTANTS
  Users,            \* signed-in users
  Anonymous,        \* the user_id of a widget visitor: None
  InferenceTools,   \* _INFERENCE_TOOLS: the tools served by the model server
  MaxTurns,         \* _MAX_TURNS
  MaxCalls          \* bound: tool calls in one response of the model

ASSUME AgentAssumption ==
  /\ Anonymous \notin Users
  /\ MaxTurns \in Nat \ {0}
  /\ MaxCalls \in Nat \ {0}
  /\ InferenceTools \cap {"search_knowledge_base", "write_memory", "other"} = {}

Tools == InferenceTools \cup {"search_knowledge_base", "write_memory", "other"}

VARIABLES
  user,      \* user_id of the request
  mode,      \* "run" or "stream": which of the two loops serves it
  pc,        \* what the request is doing
  turn,      \* loop counter: turns completed
  calls,     \* tool calls in the response being served
  next,      \* the call of that response being served
  history,   \* messages appended by the loop
  pending,   \* rows added to the session and not committed
  usable,    \* FALSE once a database error has poisoned the session
  db         \* rows committed by this request

vars == <<user, mode, pc, turn, calls, next, history, pending, usable, db>>
request == <<user, mode>>
session == <<pending, usable, db>>

Committing == {"commit_memory", "commit_log"}
Ended == {"answered", "exhausted", "failed"}

CallIds == Nat \X Nat
Call == <<turn, next>>

\* MemoryEntry.id is a column default: SQLAlchemy assigns it at the flush.
NoId == <<0, 0>>

Row == [table : {"memory", "audit", "log"}, call : CallIds,
        owner : Users \cup {Anonymous}, target : CallIds]

Outcomes == {"remembered", "inferred", "found", "unknown", "error", "db_error"}

Message == [role : {"assistant", "tool"}, call : CallIds, calls : Nat,
            result : Outcomes \cup {"none"}]

AssistantTurn(t, n) ==
  [role |-> "assistant", call |-> <<t, 0>>, calls |-> n, result |-> "none"]

ToolResult(c, outcome) ==
  [role |-> "tool", call |-> c, calls |-> 0, result |-> outcome]

\* Mutant of MemoryRows: the audit entry is forgotten.
MemoryRows_Unaudited ==
  { [table |-> "memory", call |-> Call, owner |-> user, target |-> Call] }

MemoryRows ==
  { [table |-> "memory", call |-> Call, owner |-> user, target |-> Call],
    [table |-> "audit",  call |-> Call, owner |-> user, target |-> NoId] }

LogRows ==
  { [table |-> "log", call |-> Call, owner |-> user, target |-> Call] }

CallsIn(rows, table) == {r.call : r \in {x \in rows : x.table = table}}
Committed(table) == CallsIn(db, table)

-----------------------------------------------------------------------------
Init ==
  /\ user \in Users \cup {Anonymous}
  /\ mode \in IF user = Anonymous THEN {"run", "stream"} ELSE {"run"}
  /\ pc = "llm"
  /\ turn = 0
  /\ calls = 0
  /\ next = 1
  /\ history = <<>>
  /\ pending = {}
  /\ usable = TRUE
  /\ db = {}

\* The request is over and get_session closes the session: what was not
\* committed is rolled back.
End(outcome) ==
  /\ pc' = outcome
  /\ pending' = {}

\* Mutant of Respond: a tool that failed leaves no message.
Respond_DropsErrors(outcome) ==
  /\ history' = IF outcome \in {"error", "db_error"} THEN history
                ELSE Append(history, ToolResult(Call, outcome))
  /\ IF next < calls
     THEN /\ next' = next + 1
          /\ pc' = "dispatch"
          /\ UNCHANGED <<turn, calls>>
     ELSE /\ turn' = turn + 1
          /\ calls' = 0
          /\ next' = 1
          /\ pc' = IF turn + 1 < MaxTurns THEN "llm" ELSE "exhausted"
  /\ UNCHANGED request

\* The result of the current call joins the history; the loop goes on to the
\* next call, the next turn, or the step limit.
Respond(outcome) ==
  /\ history' = Append(history, ToolResult(Call, outcome))
  /\ IF next < calls
     THEN /\ next' = next + 1
          /\ pc' = "dispatch"
          /\ UNCHANGED <<turn, calls>>
     ELSE /\ turn' = turn + 1
          /\ calls' = 0
          /\ next' = 1
          /\ pc' = IF turn + 1 < MaxTurns THEN "llm" ELSE "exhausted"
  /\ UNCHANGED request

\* As Respond, for a tool that left the session as it was.  The step limit
\* ends the request too, and with it the session.
RespondOnly(outcome) ==
  /\ Respond(outcome)
  /\ pending' = IF pc' = "exhausted" THEN {} ELSE pending
  /\ UNCHANGED <<usable, db>>

-----------------------------------------------------------------------------
(* The language model.                                                     *)

LlmRequestsTools ==
  /\ pc = "llm"
  /\ \E n \in 1..MaxCalls :
       /\ calls' = n
       /\ history' = Append(history, AssistantTurn(turn, n))
  /\ next' = 1
  /\ pc' = "dispatch"
  /\ UNCHANGED <<request, turn, session>>

LlmAnswers ==
  /\ pc = "llm"
  /\ End("answered")
  /\ UNCHANGED <<request, turn, calls, next, history, usable, db>>

\* Every provider failed: chat raises, and nothing between it and the
\* request's exception handler catches the error.
LlmFails ==
  /\ pc = "llm"
  /\ End("failed")
  /\ UNCHANGED <<request, turn, calls, next, history, usable, db>>

-----------------------------------------------------------------------------
(* The dispatcher.                                                         *)

\* Mutant of ArgumentsUnparsable: drop the response and ask again, without
\* counting the turn.
ArgumentsUnparsable_AsksAgain ==
  /\ pc = "dispatch"
  /\ pc' = "llm"
  /\ history' = SubSeq(history, 1, Len(history) - next)
  /\ calls' = 0
  /\ next' = 1
  /\ UNCHANGED <<request, turn, session>>

\* json.loads(tc.arguments) is outside dispatch and its try: arguments that
\* are not JSON abort the request.
ArgumentsUnparsable ==
  /\ pc = "dispatch"
  /\ End("failed")
  /\ UNCHANGED <<request, turn, calls, next, history, usable, db>>

UnknownTool ==
  /\ pc = "dispatch"
  /\ RespondOnly("unknown")

\* Mutant of ToolFails: write_memory adds its entry before it computes the
\* embedding, which fails.
ToolFails_AfterAdding ==
  /\ pc = "dispatch"
  /\ Respond("error")
  /\ pending' = IF pc' = "exhausted" THEN {}
                ELSE pending \cup {r \in MemoryRows : r.table = "memory"}
  /\ UNCHANGED <<usable, db>>

\* A tool raised before it used the session: the model server is down, a
\* required argument is missing, the embedder or the query rewriter failed.
ToolFails ==
  /\ pc = "dispatch"
  /\ RespondOnly("error")

\* search_knowledge_base reads through the request's session.
SearchFinds ==
  /\ pc = "dispatch"
  /\ usable
  /\ RespondOnly("found")

SearchHitsDatabaseError ==
  /\ pc = "dispatch"
  /\ Respond("db_error")
  /\ usable' = FALSE
  /\ pending' = IF pc' = "exhausted" \/ usable THEN {} ELSE pending
  /\ UNCHANGED db

\* A widget visitor's inference calls are not logged.
InferenceUnlogged ==
  /\ pc = "dispatch"
  /\ user = Anonymous
  /\ RespondOnly("inferred")

InferenceAddsLog ==
  /\ pc = "dispatch"
  /\ user # Anonymous
  /\ pending' = pending \cup LogRows
  /\ pc' = "commit_log"
  /\ UNCHANGED <<request, turn, calls, next, history, usable, db>>

\* Mutant of WriteMemoryAddsRows: the entry is committed on its own, before
\* its audit entry is added.
WriteMemoryAddsRows_CommitsEntryFirst ==
  LET entry == {r \in MemoryRows : r.table = "memory"} IN
  /\ pc = "dispatch"
  /\ usable
  /\ user # Anonymous
  /\ db' = db \cup pending \cup entry
  /\ pending' = MemoryRows \ entry
  /\ pc' = "commit_memory"
  /\ UNCHANGED <<request, turn, calls, next, history, usable>>

\* write_memory adds the entry and its audit entry, whoever the user is.
WriteMemoryAddsRows ==
  /\ pc = "dispatch"
  /\ pending' = pending \cup MemoryRows
  /\ pc' = "commit_memory"
  /\ UNCHANGED <<request, turn, calls, next, history, usable, db>>

-----------------------------------------------------------------------------
(* The database.                                                           *)

\* user_id and actor_id are NOT NULL in the three tables.
Acceptable == usable /\ \A r \in pending : r.owner # Anonymous

CommitSucceeds ==
  /\ pc \in Committing
  /\ Acceptable
  /\ db' = db \cup pending
  /\ pending' = {}
  /\ Respond(IF pc = "commit_memory" THEN "remembered" ELSE "inferred")
  /\ UNCHANGED usable

\* Mutant of CommitFails: the error is swallowed and success reported.
CommitFails_ReportsSuccess ==
  /\ pc \in Committing
  /\ UNCHANGED db
  /\ usable' = FALSE
  /\ Respond("remembered")
  /\ pending' = {}

\* The flush is refused, the connection is lost, or the session was unusable
\* already; dispatch turns the exception into text.  When the connection is
\* lost while COMMIT is under way, the rows may be durable all the same.  A
\* failed flush expunges the pending rows; a session that was already
\* unusable keeps them.
CommitFails ==
  /\ pc \in Committing
  /\ \/ UNCHANGED db
     \/ Acceptable /\ db' = db \cup pending
  /\ usable' = FALSE
  /\ Respond("db_error")
  /\ pending' = IF pc' = "exhausted" \/ usable THEN {} ELSE pending

\* The process stops, or the client of a stream goes away and the generator
\* is cancelled, at any await.
Abort ==
  /\ pc \notin Ended
  /\ End("failed")
  /\ \/ UNCHANGED db
     \/ pc \in Committing /\ Acceptable /\ db' = db \cup pending
  /\ usable' = FALSE
  /\ UNCHANGED <<request, turn, calls, next, history>>

\* A finished request stays finished.
Finished ==
  /\ pc \in Ended
  /\ UNCHANGED vars

Next ==
  \/ LlmRequestsTools
  \/ LlmAnswers
  \/ LlmFails
  \/ ArgumentsUnparsable
  \/ UnknownTool
  \/ ToolFails
  \/ SearchFinds
  \/ SearchHitsDatabaseError
  \/ InferenceUnlogged
  \/ InferenceAddsLog
  \/ WriteMemoryAddsRows
  \/ CommitSucceeds
  \/ CommitFails
  \/ Abort
  \/ Finished

\* Every await of a request ends: the HTTP clients have timeouts and the
\* database answers or its connection breaks.
Spec == Init /\ [][Next]_vars /\ WF_vars(Next)

-----------------------------------------------------------------------------
TypeOK ==
  /\ user \in Users \cup {Anonymous}
  /\ mode \in {"run", "stream"}
  /\ pc \in {"llm", "dispatch"} \cup Committing \cup Ended
  /\ turn \in 0..MaxTurns
  /\ calls \in 0..MaxCalls
  /\ next \in 1..MaxCalls
  /\ history \in Seq(Message)
  /\ pending \subseteq Row
  /\ usable \in BOOLEAN
  /\ db \subseteq Row

IsTool(i) == history[i].role = "tool"

\* What the chat APIs require of the messages they are sent: whenever the
\* model is called, each assistant message with n tool calls is followed by
\* exactly the n results of those calls, in their order, and no result stands
\* anywhere else.  A tool that fails, does not exist or meets a dead database
\* session still has to answer its call (loop.py:66-89, registry.py:142-145).
ResultsFollowCalls ==
  pc = "llm" =>
    /\ \A i \in 1..Len(history) : ~IsTool(i) =>
         \A k \in 1..history[i].calls :
           /\ i + k <= Len(history)
           /\ IsTool(i + k)
           /\ history[i + k].call = <<history[i].call[1], k>>
    /\ \A j \in 1..Len(history) : IsTool(j) =>
         \E i \in 1..(j - 1) : ~IsTool(i) /\ j - i <= history[i].calls

\* A memory entry is durable if and only if the audit entry of the same call
\* is, whatever fails and wherever the process stops (write_memory.py:32-39).
AtomicEffects == Committed("memory") = Committed("audit")

\* Whenever the session can still commit, it holds only the rows of the call
\* being committed.  Tools of one request share a session and dispatch turns
\* their errors into text (registry.py:142-145) without a rollback: no tool's
\* commit may make durable what an earlier, failed tool left behind, and a
\* finished request leaves nothing behind at all.
CleanSession ==
  /\ usable => \A r \in pending : pc \in Committing /\ r.call = Call
  /\ pc \in Ended => pending = {}

\* What the model and the client are told agrees with the database.  A call
\* reported as remembered, or a signed-in user's inference call reported as
\* done, has its row; and as long as the session is usable each row was
\* reported.  (After a database error a row may be durable unreported.)
ReportsMatchRows ==
  /\ \A i \in 1..Len(history) :
       /\ history[i].result = "remembered" =>
            history[i].call \in Committed("memory")
       /\ history[i].result = "inferred" /\ user # Anonymous =>
            history[i].call \in Committed("log")
  /\ usable => \A c \in Committed("memory") \cup Committed("log") :
       \E i \in 1..Len(history) :
         history[i].call = c /\ history[i].result \in {"remembered", "inferred"}

\* Every request ends, however many tools the model asks for (loop.py:58,112).
Terminates == <>(pc \in Ended)

\* A request implements the contract the rest of the backend relies on:
\* audited memories, every call executed at most once, nothing after the end.
Contract ==
  INSTANCE AgentContract WITH
    Calls    <- (0..MaxTurns) \X (1..MaxCalls),
    status   <- IF pc = "failed" THEN "failed"
                ELSE IF pc \in Ended THEN "answered" ELSE "running",
    memories <- Committed("memory"),
    audits   <- Committed("audit"),
    logs     <- Committed("log")

ImplementsContract == Contract!Spec

==============================================================================
