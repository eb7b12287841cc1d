--------------------------- MODULE AgentLoopProofs ---------------------------
(***************************************************************************)
(* What TLAPS proves of AgentLoop and of what AnthropicMessages makes of   *)
(* it, for any users, any step limit and any number of tool calls.         *)
(***************************************************************************)
EXTENDS AnthropicMessages, SequenceTheorems, WellFoundedInduction, TLAPS

Active == {"dispatch"} \cup Committing

-----------------------------------------------------------------------------
(* Types.                                                                  *)

\* Where in its loops a request is: a call is being served only while there
\* is one to serve, and the model is called only below the step limit.
LoopOK ==
  /\ pc \in Active => next <= calls
  /\ pc \in Active \cup {"llm"} => turn < MaxTurns

\* Responding to a call keeps the types and the bounds of the loop.
LEMMA RespondType ==
  ASSUME TypeOK, LoopOK, pc \in Active, NEW outcome \in Outcomes, Respond(outcome)
  PROVE  /\ pc' \in {"llm", "dispatch", "exhausted"}
         /\ turn' \in 0..MaxTurns
         /\ calls' \in 0..MaxCalls
         /\ next' \in 1..MaxCalls
         /\ history' \in Seq(Message)
         /\ pc' = "dispatch" => next' <= calls' /\ turn' = turn
         /\ pc' \in {"dispatch", "llm"} => turn' < MaxTurns
         /\ UNCHANGED <<user, mode>>
<1>1. ToolResult(Call, outcome) \in Message
  BY DEF TypeOK, ToolResult, Message, Call, CallIds
<1>2. history' = Append(history, ToolResult(Call, outcome))
  BY DEF Respond
<1>3. history' \in Seq(Message)
  BY <1>1, <1>2 DEF TypeOK
<1>4. QED
  BY <1>3, AgentAssumption DEF TypeOK, LoopOK, Respond, request

\* The type invariant and the loop's bounds hold in every state.
THEOREM TypeCorrect == Spec => [](TypeOK /\ LoopOK)
<1>1. Init => TypeOK /\ LoopOK
  BY AgentAssumption DEF Init, TypeOK, LoopOK, Active, Committing, Ended
<1>2. TypeOK /\ LoopOK /\ [Next]_vars => (TypeOK /\ LoopOK)'
  <2> SUFFICES ASSUME TypeOK, LoopOK, [Next]_vars PROVE (TypeOK /\ LoopOK)'
    OBVIOUS
  <2> USE DEF Active, Committing, Ended
  <2>1. CASE LlmRequestsTools
    <3>1. PICK n \in 1..MaxCalls :
            calls' = n /\ history' = Append(history, AssistantTurn(turn, n))
      BY <2>1 DEF LlmRequestsTools
    <3>2. AssistantTurn(turn, n) \in Message
      BY <3>1, AgentAssumption DEF TypeOK, AssistantTurn, Message, CallIds
    <3>3. history' \in Seq(Message)
      BY <3>1, <3>2 DEF TypeOK
    <3> QED
      BY <2>1, <3>1, <3>3, AgentAssumption
      DEF LlmRequestsTools, TypeOK, LoopOK, request, session
  <2>2. CASE LlmAnswers
    BY <2>2 DEF LlmAnswers, End, TypeOK, LoopOK, request
  <2>3. CASE LlmFails
    BY <2>3 DEF LlmFails, End, TypeOK, LoopOK, request
  <2>4. CASE ArgumentsUnparsable
    BY <2>4 DEF ArgumentsUnparsable, End, TypeOK, LoopOK, request
  <2>5. ASSUME NEW outcome \in Outcomes, pc \in Active, Respond(outcome),
               pending' \subseteq Row, usable' \in BOOLEAN, db' \subseteq Row
        PROVE  (TypeOK /\ LoopOK)'
    BY <2>5, RespondType DEF TypeOK, LoopOK
  <2>6. ASSUME NEW outcome \in Outcomes, pc = "dispatch", RespondOnly(outcome)
        PROVE  (TypeOK /\ LoopOK)'
    BY <2>5, <2>6 DEF RespondOnly, TypeOK
  <2>7. CASE UnknownTool
    BY <2>6, <2>7 DEF UnknownTool, Outcomes
  <2>8. CASE ToolFails
    BY <2>6, <2>8 DEF ToolFails, Outcomes
  <2>9. CASE SearchFinds
    BY <2>6, <2>9 DEF SearchFinds, Outcomes
  <2>10. CASE SearchHitsDatabaseError
    <3>1. pending' \subseteq Row /\ usable' \in BOOLEAN /\ db' \subseteq Row
      BY <2>10 DEF SearchHitsDatabaseError, TypeOK
    <3> QED
      BY <2>5, <2>10, <3>1 DEF SearchHitsDatabaseError, Outcomes
  <2>11. CASE InferenceUnlogged
    BY <2>6, <2>11 DEF InferenceUnlogged, Outcomes
  <2>12. CASE InferenceAddsLog
    <3>1. LogRows \subseteq Row
      BY DEF TypeOK, LogRows, Row, Call, CallIds
    <3> QED
      BY <2>12, <3>1 DEF InferenceAddsLog, TypeOK, LoopOK, request
  <2>13. CASE WriteMemoryAddsRows
    <3>1. MemoryRows \subseteq Row
      BY DEF TypeOK, MemoryRows, Row, Call, CallIds, NoId
    <3> QED
      BY <2>13, <3>1 DEF WriteMemoryAddsRows, TypeOK, LoopOK, request
  <2>14. CASE CommitSucceeds
    <3>1. pending' \subseteq Row /\ usable' \in BOOLEAN /\ db' \subseteq Row
      BY <2>14 DEF CommitSucceeds, TypeOK
    <3>2. (IF pc = "commit_memory" THEN "remembered" ELSE "inferred") \in Outcomes
      BY DEF Outcomes
    <3> QED
      BY <2>5, <2>14, <3>1, <3>2 DEF CommitSucceeds
  <2>15. CASE CommitFails
    <3>1. pending' \subseteq Row /\ usable' \in BOOLEAN /\ db' \subseteq Row
      BY <2>15 DEF CommitFails, TypeOK
    <3> QED
      BY <2>5, <2>15, <3>1 DEF CommitFails, Outcomes
  <2>16. CASE Abort
    BY <2>16 DEF Abort, End, TypeOK, LoopOK, request
  <2>17. CASE UNCHANGED vars
    BY <2>17 DEF vars, TypeOK, LoopOK
  <2>18. CASE Finished
    BY <2>17, <2>18 DEF Finished
  <2> QED
    BY <2>1, <2>2, <2>3, <2>4, <2>7, <2>8, <2>9, <2>10, <2>11, <2>12, <2>13,
       <2>14, <2>15, <2>16, <2>17, <2>18 DEF Next
<1>3. QED
  BY <1>1, <1>2, PTL DEF Spec

-----------------------------------------------------------------------------
(* The database session.                                                   *)

\* The calls with a row in a union are those with a row in either part.
LEMMA CallsInUnion ==
  ASSUME NEW S, NEW T, NEW table
  PROVE  CallsIn(S \cup T, table) = CallsIn(S, table) \cup CallsIn(T, table)
BY DEF CallsIn

\* What the rows of one tool call add to the calls of each table.
LEMMA CallsInRows ==
  /\ CallsIn(MemoryRows, "memory") = {Call}
  /\ CallsIn(MemoryRows, "audit") = {Call}
  /\ CallsIn(MemoryRows, "log") = {}
  /\ CallsIn(LogRows, "memory") = {}
  /\ CallsIn(LogRows, "audit") = {}
  /\ CallsIn(LogRows, "log") = {Call}
<1>1. \A x \in MemoryRows : x.call = Call /\ x.table \in {"memory", "audit"}
  BY DEF MemoryRows
<1>2. \A x \in LogRows : x.call = Call /\ x.table = "log"
  BY DEF LogRows
<1>3. \A t \in {"memory", "audit"} : \E x \in MemoryRows : x.table = t
  BY DEF MemoryRows
<1>4. \E x \in LogRows : x.table = "log"
  BY DEF LogRows
<1>5. QED
  BY <1>1, <1>2, <1>3, <1>4 DEF CallsIn

\* AtomicEffects is not inductive: a commit writes whatever is pending.  What
\* makes it so is that a usable session holds exactly the rows of the call
\* being committed, and none between calls.
SessionInv ==
  /\ usable /\ pc = "commit_memory" => pending = MemoryRows
  /\ usable /\ pc = "commit_log" => pending = LogRows
  /\ usable /\ pc \notin Committing => pending = {}
  /\ pc \in Ended => pending = {}
  /\ pc = "commit_log" => user # Anonymous

\* Every way in which a step can change the committed rows.
LEMMA WhatIsWritten ==
  ASSUME Next, SessionInv, db' # db
  PROVE  /\ pc \in Committing /\ Acceptable
         /\ db' = db \cup pending
         /\ pc = "commit_memory" => pending = MemoryRows
         /\ pc = "commit_log" => pending = LogRows
BY DEF Next, LlmRequestsTools, LlmAnswers, LlmFails, ArgumentsUnparsable,
       UnknownTool, ToolFails, SearchFinds, SearchHitsDatabaseError,
       InferenceUnlogged, InferenceAddsLog, WriteMemoryAddsRows, CommitSucceeds,
       CommitFails, Abort, Finished, RespondOnly, session, vars, SessionInv,
       Acceptable

\* Every step preserves the session invariant.
LEMMA SessionStep == TypeOK /\ LoopOK /\ SessionInv /\ [Next]_vars => SessionInv'
<1> SUFFICES ASSUME TypeOK, LoopOK, SessionInv, [Next]_vars PROVE SessionInv'
  OBVIOUS
<1> USE DEF Committing, Ended
<1>1. CASE LlmRequestsTools
  BY <1>1 DEF LlmRequestsTools, SessionInv, session, request
<1>2. CASE LlmAnswers \/ LlmFails \/ ArgumentsUnparsable
  BY <1>2 DEF LlmAnswers, LlmFails, ArgumentsUnparsable, End, SessionInv
<1>3. ASSUME NEW outcome, pc = "dispatch", RespondOnly(outcome)
      PROVE  SessionInv'
  <2>1. pc' \in {"llm", "dispatch", "exhausted"}
    BY <1>3 DEF RespondOnly, Respond
  <2> QED
    BY <1>3, <2>1 DEF RespondOnly, SessionInv
<1>4. CASE UnknownTool \/ ToolFails \/ SearchFinds \/ InferenceUnlogged
  BY <1>3, <1>4 DEF UnknownTool, ToolFails, SearchFinds, InferenceUnlogged
<1>5. CASE SearchHitsDatabaseError
  <2>1. pc' \in {"llm", "dispatch", "exhausted"}
    BY <1>5 DEF SearchHitsDatabaseError, Respond
  <2> QED
    BY <1>5, <2>1 DEF SearchHitsDatabaseError, SessionInv
<1>6. CASE InferenceAddsLog
  <2>1. LogRows' = LogRows
    BY <1>6 DEF InferenceAddsLog, LogRows, Call, request
  <2> QED
    BY <1>6, <2>1 DEF InferenceAddsLog, SessionInv, request
<1>7. CASE WriteMemoryAddsRows
  <2>1. MemoryRows' = MemoryRows
    BY <1>7 DEF WriteMemoryAddsRows, MemoryRows, Call, request, NoId
  <2> QED
    BY <1>7, <2>1 DEF WriteMemoryAddsRows, SessionInv
<1>8. CASE CommitSucceeds
  <2>1. pc' \in {"llm", "dispatch", "exhausted"} /\ pending' = {}
    BY <1>8 DEF CommitSucceeds, Respond
  <2> QED
    BY <2>1 DEF SessionInv
<1>9. CASE CommitFails
  <2>1. pc' \in {"llm", "dispatch", "exhausted"}
    BY <1>9 DEF CommitFails, Respond
  <2> QED
    BY <1>9, <2>1 DEF CommitFails, SessionInv
<1>10. CASE Abort
  BY <1>10 DEF Abort, End, SessionInv
<1>11. CASE UNCHANGED vars
  BY <1>11 DEF vars, SessionInv, MemoryRows, LogRows, Call
<1>12. CASE Finished
  BY <1>11, <1>12 DEF Finished
<1> QED
  BY <1>1, <1>2, <1>4, <1>5, <1>6, <1>7, <1>8, <1>9, <1>10, <1>11, <1>12 DEF Next

\* The session invariant holds in every state of the specification.
THEOREM SessionCorrect == Spec => []SessionInv
<1>1. Init => SessionInv
  BY DEF Init, SessionInv, Committing, Ended
<1>2. QED
  BY <1>1, SessionStep, TypeCorrect, PTL DEF Spec

\* A usable session holds only the rows of the call being committed, and a
\* finished request holds none.
THEOREM SessionIsClean == Spec => []CleanSession
<1>1. SessionInv => CleanSession
  BY DEF SessionInv, CleanSession, MemoryRows, LogRows, Committing
<1>2. QED
  BY <1>1, SessionCorrect, PTL

\* Memory entries and their audit entries become durable together, through
\* any failure of a tool, the database, the model or the process.
THEOREM EffectsAreAtomic == Spec => []AtomicEffects
<1>1. Init => AtomicEffects
  BY DEF Init, AtomicEffects, Committed, CallsIn
<1>2. AtomicEffects /\ SessionInv /\ [Next]_vars => AtomicEffects'
  <2> SUFFICES ASSUME AtomicEffects, SessionInv, [Next]_vars
               PROVE  CallsIn(db', "memory") = CallsIn(db', "audit")
    BY DEF AtomicEffects, Committed, CallsIn
  <2>1. CASE db' = db
    BY <2>1 DEF AtomicEffects, Committed
  <2>2. CASE db' # db
    <3>1. /\ db' = db \cup pending
          /\ pending = MemoryRows \/ pending = LogRows
      BY <2>2, WhatIsWritten DEF vars, Committing
    <3>2. CallsIn(pending, "memory") = CallsIn(pending, "audit")
      BY <3>1, CallsInRows
    <3>3. \A t : CallsIn(db', t) = CallsIn(db, t) \cup CallsIn(pending, t)
      BY <3>1, CallsInUnion
    <3> QED
      BY <3>2, <3>3 DEF AtomicEffects, Committed
  <2> QED
    BY <2>1, <2>2
<1>3. QED
  BY <1>1, <1>2, SessionCorrect, PTL DEF Spec

-----------------------------------------------------------------------------
(* What the messages say.                                                  *)

\* When a step may append message m.
Said(m) ==
  /\ m.result \in {"remembered", "found"} => usable
  /\ m.result = "inferred" => usable \/ user = Anonymous
  /\ m.result = "remembered" =>
       pc = "commit_memory" /\ m.call = Call /\ CommitSucceeds
  /\ m.result = "inferred" /\ user # Anonymous =>
       pc = "commit_log" /\ m.call = Call /\ CommitSucceeds
  /\ CommitSucceeds => m.result \in {"remembered", "inferred"} /\ m.call = Call
  /\ m.result = "db_error" => usable' = FALSE

\* Every message a step can append.
LEMMA WhatIsSaid ==
  ASSUME TypeOK, LoopOK, SessionInv, Next
  PROVE  \/ history' = history
         \/ \E m \in Message : history' = Append(history, m) /\ Said(m)
<1>1. CASE history' = history
  BY <1>1
<1>2. CASE LlmRequestsTools
  <2>1. PICK n \in 1..MaxCalls : history' = Append(history, AssistantTurn(turn, n))
    BY <1>2 DEF LlmRequestsTools
  <2>2. AssistantTurn(turn, n) \in Message
    BY <2>1, AgentAssumption DEF TypeOK, AssistantTurn, Message, CallIds
  <2>3. ~CommitSucceeds
    BY <1>2 DEF LlmRequestsTools, CommitSucceeds, Committing
  <2>4. AssistantTurn(turn, n).result = "none"
    BY DEF AssistantTurn
  <2> QED
    BY <2>1, <2>2, <2>3, <2>4 DEF Said
<1>3. ASSUME NEW outcome \in Outcomes, Respond(outcome),
             outcome \in {"remembered", "found"} => usable,
             outcome = "inferred" => usable \/ user = Anonymous,
             outcome = "remembered" => pc = "commit_memory" /\ CommitSucceeds,
             outcome = "inferred" /\ user # Anonymous =>
               pc = "commit_log" /\ CommitSucceeds,
             CommitSucceeds => outcome \in {"remembered", "inferred"},
             outcome = "db_error" => usable' = FALSE
      PROVE  \E m \in Message : history' = Append(history, m) /\ Said(m)
  <2> DEFINE m == ToolResult(Call, outcome)
  <2>1. m \in Message /\ m.result = outcome /\ m.call = Call
    BY DEF TypeOK, ToolResult, Message, Call, CallIds
  <2>2. history' = Append(history, m)
    BY <1>3 DEF Respond
  <2> QED
    BY <1>3, <2>1, <2>2 DEF Said
<1>4. CASE UnknownTool \/ ToolFails \/ SearchFinds \/ InferenceUnlogged
  <2>1. ~CommitSucceeds
    BY <1>4 DEF UnknownTool, ToolFails, SearchFinds, InferenceUnlogged,
                CommitSucceeds, Committing
  <2>2. PICK outcome \in {"unknown", "error", "found", "inferred"} :
          /\ Respond(outcome)
          /\ outcome = "found" => usable
          /\ outcome = "inferred" => user = Anonymous
    BY <1>4 DEF UnknownTool, ToolFails, SearchFinds, InferenceUnlogged, RespondOnly
  <2> QED
    BY <1>3, <2>1, <2>2 DEF Outcomes
<1>5. CASE SearchHitsDatabaseError
  <2>1. ~CommitSucceeds
    BY <1>5 DEF SearchHitsDatabaseError, CommitSucceeds, Committing
  <2> QED
    BY <1>3, <1>5, <2>1 DEF SearchHitsDatabaseError, Outcomes
<1>6. CASE CommitSucceeds
  BY <1>3, <1>6 DEF CommitSucceeds, Acceptable, Outcomes, Committing
<1>7. CASE CommitFails /\ ~CommitSucceeds
  BY <1>3, <1>7 DEF CommitFails, Outcomes
<1> QED
  BY <1>1, <1>2, <1>4, <1>5, <1>6, <1>7
  DEF Next, LlmAnswers, LlmFails, ArgumentsUnparsable, InferenceAddsLog,
      WriteMemoryAddsRows, Abort, Finished, vars

\* Append adds one element at the end and keeps the others.
LEMMA AppendKeeps ==
  ASSUME NEW S, NEW s \in Seq(S), NEW m \in S, NEW t, t = Append(s, m)
  PROVE  /\ Len(t) = Len(s) + 1
         /\ \A i \in 1..Len(s) : t[i] = s[i]
         /\ t[Len(s) + 1] = m
OBVIOUS

\* A commit that succeeds is reported.
LEMMA WhatCommitSays ==
  ASSUME TypeOK, CommitSucceeds
  PROVE  history' # history
BY AppendKeeps DEF CommitSucceeds, Respond, TypeOK, ToolResult

\* A request keeps its user, and an unusable session stays unusable.
LEMMA RequestIsFixed ==
  ASSUME [Next]_vars
  PROVE  user' = user /\ (usable' => usable)
BY DEF Next, LlmRequestsTools, LlmAnswers, LlmFails, ArgumentsUnparsable,
       UnknownTool, ToolFails, SearchFinds, SearchHitsDatabaseError,
       InferenceUnlogged, InferenceAddsLog, WriteMemoryAddsRows, CommitSucceeds,
       CommitFails, Abort, Finished, RespondOnly, Respond, session, request, vars,
       Acceptable

\* What the model and the client are told of memories and inference calls
\* agrees with the committed rows.
THEOREM ReportsAreTrue == Spec => []ReportsMatchRows
<1>1. Init => ReportsMatchRows
  BY DEF Init, ReportsMatchRows, Committed, CallsIn
<1>2. TypeOK /\ LoopOK /\ SessionInv /\ ReportsMatchRows /\ [Next]_vars
      => ReportsMatchRows'
  <2> SUFFICES ASSUME TypeOK, LoopOK, SessionInv, ReportsMatchRows, [Next]_vars
               PROVE  ReportsMatchRows'
    OBVIOUS
  <2> DEFINE Reported(h, c) ==
        \E i \in 1..Len(h) :
          h[i].call = c /\ h[i].result \in {"remembered", "inferred"}
  <2>1. user' = user /\ (usable' => usable)
    BY RequestIsFixed
  <2>2. \A t \in {"memory", "log"} : Committed(t) \subseteq Committed(t)'
    <3>1. db \subseteq db'
      BY WhatIsWritten DEF vars
    <3> QED
      BY <3>1 DEF Committed, CallsIn
  <2>3. \A i \in 1..Len(history) :
          /\ i \in 1..Len(history') /\ history'[i] = history[i]
    BY WhatIsSaid, AppendKeeps DEF vars, TypeOK
  <2>4. CommitSucceeds =>
          /\ pc = "commit_memory" => Committed("memory")' = Committed("memory") \cup {Call}
          /\ pc = "commit_memory" => Committed("log")' = Committed("log")
          /\ pc = "commit_log" => Committed("log")' = Committed("log") \cup {Call}
          /\ pc = "commit_log" => Committed("memory")' = Committed("memory")
    <3> SUFFICES ASSUME CommitSucceeds
                 PROVE  /\ pc = "commit_memory" =>
                             CallsIn(db', "memory") = CallsIn(db, "memory") \cup {Call}
                        /\ pc = "commit_memory" =>
                             CallsIn(db', "log") = CallsIn(db, "log")
                        /\ pc = "commit_log" =>
                             CallsIn(db', "log") = CallsIn(db, "log") \cup {Call}
                        /\ pc = "commit_log" =>
                             CallsIn(db', "memory") = CallsIn(db, "memory")
      BY DEF Committed, CallsIn
    <3>1. /\ db' = db \cup pending
          /\ pc = "commit_memory" => pending = MemoryRows
          /\ pc = "commit_log" => pending = LogRows
      BY DEF CommitSucceeds, Acceptable, SessionInv
    <3>2. \A t : CallsIn(db', t) = CallsIn(db, t) \cup CallsIn(pending, t)
      BY <3>1, CallsInUnion
    <3> QED
      BY <3>1, <3>2, CallsInRows
  <2>5. CASE history' = history
    <3>1. ~CommitSucceeds
      BY <2>5, WhatCommitSays
    <3>2. usable' => db' = db
      BY <3>1 DEF Next, LlmRequestsTools, LlmAnswers, LlmFails,
        ArgumentsUnparsable, UnknownTool, ToolFails, SearchFinds,
        SearchHitsDatabaseError, InferenceUnlogged, InferenceAddsLog,
        WriteMemoryAddsRows, CommitFails, Abort, Finished, RespondOnly, session, vars
    <3> QED
      BY <2>1, <2>2, <2>5, <3>2 DEF ReportsMatchRows, Committed
  <2>6. CASE history' # history
    <3>1. PICK m \in Message : history' = Append(history, m) /\ Said(m)
      BY <2>6, WhatIsSaid DEF vars
    <3>2. /\ Len(history') = Len(history) + 1
          /\ history'[Len(history) + 1] = m
          /\ Len(history) \in Nat
      BY <3>1, AppendKeeps DEF TypeOK
    <3>3. ASSUME NEW i \in 1..Len(history')
          PROVE  /\ history'[i].result = "remembered" =>
                      history'[i].call \in Committed("memory")'
                 /\ history'[i].result = "inferred" /\ user # Anonymous =>
                      history'[i].call \in Committed("log")'
      <4>1. CASE i \in 1..Len(history)
        BY <2>2, <2>3, <4>1 DEF ReportsMatchRows
      <4>2. CASE i = Len(history) + 1
        BY <2>4, <3>1, <3>2, <4>2 DEF Said
      <4> QED
        BY <3>2, <4>1, <4>2
    <3>4. ASSUME usable', NEW c \in Committed("memory")' \cup Committed("log")'
          PROVE  Reported(history', c)
      <4>1. CASE c \in Committed("memory") \cup Committed("log")
        <5>1. PICK i \in 1..Len(history) :
                history[i].call = c /\ history[i].result \in {"remembered", "inferred"}
          BY <2>1, <3>4, <4>1 DEF ReportsMatchRows
        <5> QED
          BY <2>3, <5>1
      <4>2. CASE c \notin Committed("memory") \cup Committed("log")
        <5>1. db' # db
          BY <3>4, <4>2 DEF Committed
        <5>2. CommitSucceeds
          BY <3>4, <5>1 DEF Next, LlmRequestsTools, LlmAnswers, LlmFails,
            ArgumentsUnparsable, UnknownTool, ToolFails, SearchFinds,
            SearchHitsDatabaseError, InferenceUnlogged, InferenceAddsLog,
            WriteMemoryAddsRows, CommitFails, Abort, Finished, RespondOnly,
            session, vars
        <5>3. c = Call
          BY <2>4, <3>4, <4>2, <5>2 DEF CommitSucceeds, Committing
        <5> QED
          BY <3>1, <3>2, <5>2, <5>3 DEF Said
      <4> QED
        BY <4>1, <4>2
    <3> QED
      BY <2>1, <3>3, <3>4 DEF ReportsMatchRows
  <2> QED
    BY <2>5, <2>6
<1>3. QED
  BY <1>1, <1>2, TypeCorrect, SessionCorrect, PTL DEF Spec

-----------------------------------------------------------------------------
(* The shape of the conversation.                                          *)

\* The first n messages are assistant turns, each followed by its results.
Complete(h, n) ==
  /\ \A i \in 1..n : h[i].role # "tool" =>
       \A k \in 1..h[i].calls :
         /\ i + k <= n
         /\ h[i + k].role = "tool"
         /\ h[i + k].call = <<h[i].call[1], k>>
  /\ \A j \in 1..n : h[j].role = "tool" =>
       \E i \in 1..(j - 1) : h[i].role # "tool" /\ j - i <= h[i].calls

\* While a response is served, its assistant turn stands next-1 places before
\* the end, the results of its first next-1 calls follow it, and everything
\* before it is complete.
Base == Len(history) - (next - 1)

HistoryInv ==
  /\ pc = "llm" => Complete(history, Len(history))
  /\ pc \in Active =>
       /\ Base \in 1..Len(history)
       /\ history[Base] = AssistantTurn(turn, calls)
       /\ Complete(history, Base - 1)
       /\ \A k \in 1..(next - 1) :
            history[Base + k].role = "tool" /\ history[Base + k].call = <<turn, k>>

\* Completeness of a prefix depends on the prefix only.
LEMMA CompletePrefix ==
  ASSUME NEW h, NEW g, NEW n \in Nat, \A i \in 1..n : g[i] = h[i], Complete(h, n)
  PROVE  Complete(g, n)
<1>1. ASSUME NEW i \in 1..n, NEW k \in Int, i + k <= n, k >= 1
      PROVE  g[i + k] = h[i + k]
  BY <1>1
<1>2. ASSUME NEW i \in 1..n, g[i].role # "tool", NEW k \in 1..g[i].calls
      PROVE  /\ i + k <= n
             /\ g[i + k].role = "tool"
             /\ g[i + k].call = <<g[i].call[1], k>>
  BY <1>1, <1>2 DEF Complete
<1>3. ASSUME NEW j \in 1..n, g[j].role = "tool"
      PROVE  \E i \in 1..(j - 1) : g[i].role # "tool" /\ j - i <= g[i].calls
  <2>1. PICK i \in 1..(j - 1) : h[i].role # "tool" /\ j - i <= h[i].calls
    BY <1>3 DEF Complete
  <2> QED
    BY <2>1
<1>4. QED
  BY <1>2, <1>3 DEF Complete

\* Responding to a call keeps the shape of the conversation.
LEMMA RespondKeepsHistory ==
  ASSUME TypeOK, LoopOK, HistoryInv, pc \in Active, NEW outcome \in Outcomes,
         Respond(outcome)
  PROVE  HistoryInv'
<1> DEFINE m == ToolResult(Call, outcome)
           b == Base
<1>1. m \in Message /\ m.role = "tool" /\ m.call = <<turn, next>>
  BY DEF TypeOK, ToolResult, Message, Call, CallIds
<1>2. history' = Append(history, m)
  BY DEF Respond
<1>3. /\ Len(history') = Len(history) + 1
      /\ \A i \in 1..Len(history) : history'[i] = history[i]
      /\ history'[Len(history) + 1] = m
      /\ Len(history) \in Nat
  BY <1>1, <1>2, AppendKeeps DEF TypeOK
<1>4. /\ b \in 1..Len(history) /\ Len(history) = b + next - 1
      /\ next \in Nat /\ next >= 1 /\ next <= calls /\ calls \in Nat
  BY AgentAssumption DEF Base, HistoryInv, TypeOK, LoopOK
<1>5. history'[b] = AssistantTurn(turn, calls)
  BY <1>3, <1>4 DEF HistoryInv
<1>6. Complete(history', b - 1)
  <2>1. b - 1 \in Nat /\ \A i \in 1..(b - 1) : history'[i] = history[i]
    BY <1>3, <1>4
  <2>2. Complete(history, b - 1)
    BY DEF HistoryInv
  <2> QED
    BY <2>1, <2>2, CompletePrefix
<1>7. \A k \in 1..next :
        history'[b + k].role = "tool" /\ history'[b + k].call = <<turn, k>>
  <2> SUFFICES ASSUME NEW k \in 1..next
               PROVE  history'[b + k].role = "tool" /\ history'[b + k].call = <<turn, k>>
    OBVIOUS
  <2>1. CASE k = next
    BY <1>1, <1>3, <1>4, <2>1
  <2>2. CASE k \in 1..(next - 1)
    <3>1. history[b + k].role = "tool" /\ history[b + k].call = <<turn, k>>
      BY <2>2 DEF HistoryInv
    <3>2. b + k \in 1..Len(history)
      BY <1>4, <2>2
    <3> QED
      BY <1>3, <3>1, <3>2
  <2> QED
    BY <1>4, <2>1, <2>2
<1>8. CASE next < calls
  <2>1. pc' = "dispatch" /\ next' = next + 1 /\ turn' = turn /\ calls' = calls
    BY <1>8 DEF Respond
  <2>2. Base' = b
    BY <1>3, <1>4, <2>1 DEF Base
  <2>3. AssistantTurn(turn, calls)' = AssistantTurn(turn, calls)
    BY <2>1 DEF AssistantTurn
  <2>4. Base' \in 1..Len(history')
    BY <1>3, <1>4, <2>2
  <2>5. history'[Base'] = AssistantTurn(turn, calls)'
    BY <1>5, <2>2, <2>3
  <2>6. Complete(history', Base' - 1)
    BY <1>6, <2>2
  <2>7. \A k \in 1..(next' - 1) : /\ history'[Base' + k].role = "tool"
                                   /\ history'[Base' + k].call = <<turn', k>>
    <3> HIDE DEF b
    <3>1. next' - 1 = next
      BY <1>4, <2>1
    <3> QED
      BY <1>7, <2>1, <2>2, <3>1
  <2> HIDE DEF b
  <2> QED
    BY <2>1, <2>4, <2>5, <2>6, <2>7 DEF HistoryInv
<1>9. CASE ~(next < calls)
  <2>1. pc' \in {"llm", "exhausted"} /\ calls = next /\ Len(history') = b + calls
    BY <1>3, <1>4, <1>9 DEF Respond
  <2>2. /\ history'[b].role # "tool"
        /\ history'[b].calls = calls
        /\ history'[b].call[1] = turn
    BY <1>5 DEF AssistantTurn
  <2>3. ASSUME NEW i \in 1..(b + calls), history'[i].role # "tool",
               NEW k \in 1..history'[i].calls
        PROVE  /\ i + k <= b + calls
               /\ history'[i + k].role = "tool"
               /\ history'[i + k].call = <<history'[i].call[1], k>>
    <3>1. CASE i \in 1..(b - 1)
      BY <1>4, <1>6, <2>3, <3>1 DEF Complete
    <3>2. CASE i = b
      BY <1>4, <1>7, <2>1, <2>2, <2>3, <3>2
    <3>3. CASE i \in (b + 1)..(b + calls)
      <4>1. i = b + (i - b) /\ i - b \in 1..next
        BY <1>4, <2>1, <3>3
      <4> QED
        BY <1>7, <2>3, <4>1
    <3> QED
      BY <1>4, <3>1, <3>2, <3>3
  <2>4. ASSUME NEW j \in 1..(b + calls), history'[j].role = "tool"
        PROVE  \E i \in 1..(j - 1) :
                 history'[i].role # "tool" /\ j - i <= history'[i].calls
    <3>1. CASE j \in 1..(b - 1)
      BY <1>6, <2>4, <3>1 DEF Complete
    <3>2. CASE j = b
      BY <2>2, <2>4, <3>2
    <3>3. CASE j \in (b + 1)..(b + calls)
      BY <1>4, <2>1, <2>2, <3>3
    <3> QED
      BY <1>4, <3>1, <3>2, <3>3
  <2>5. Complete(history', Len(history'))
    BY <2>1, <2>3, <2>4 DEF Complete
  <2> QED
    BY <2>1, <2>5 DEF HistoryInv, Active, Committing
<1>10. QED
  BY <1>8, <1>9

\* Every step keeps the shape of the conversation.
LEMMA HistoryStep ==
  TypeOK /\ LoopOK /\ HistoryInv /\ [Next]_vars => HistoryInv'
<1> SUFFICES ASSUME TypeOK, LoopOK, HistoryInv, [Next]_vars PROVE HistoryInv'
  OBVIOUS
<1>1. CASE LlmRequestsTools
  <2>1. PICK n \in 1..MaxCalls :
          calls' = n /\ history' = Append(history, AssistantTurn(turn, n))
    BY <1>1 DEF LlmRequestsTools
  <2>2. /\ AssistantTurn(turn, n) \in Message
        /\ pc = "llm" /\ pc' = "dispatch" /\ next' = 1 /\ turn' = turn
    BY <1>1, <2>1, AgentAssumption
    DEF LlmRequestsTools, TypeOK, AssistantTurn, Message, CallIds
  <2>3. /\ Len(history') = Len(history) + 1
        /\ \A i \in 1..Len(history) : history'[i] = history[i]
        /\ history'[Len(history) + 1] = AssistantTurn(turn, n)
        /\ Len(history) \in Nat
    BY <2>1, <2>2, AppendKeeps DEF TypeOK
  <2>4. Base' = Len(history) + 1
    BY <2>2, <2>3 DEF Base
  <2>5. Complete(history', Len(history))
    BY <2>2, <2>3, CompletePrefix DEF HistoryInv
  <2>6. AssistantTurn(turn, calls)' = AssistantTurn(turn, n)
    BY <2>1, <2>2 DEF AssistantTurn
  <2> QED
    BY <2>2, <2>3, <2>4, <2>5, <2>6 DEF HistoryInv
<1>2. CASE pc' \in Ended
  BY <1>2 DEF HistoryInv, Active, Committing, Ended
<1>3. CASE \E outcome \in Outcomes : pc \in Active /\ Respond(outcome)
  BY <1>3, RespondKeepsHistory
<1>4. CASE /\ pc' \in Active => pc \in Active
           /\ pc' = "llm" => pc = "llm"
           /\ UNCHANGED <<turn, calls, next, history>>
  BY <1>4 DEF HistoryInv, Base, AssistantTurn, Complete
<1> QED
  BY <1>1, <1>2, <1>3, <1>4
  DEF Next, LlmAnswers, LlmFails, ArgumentsUnparsable, UnknownTool, ToolFails,
      SearchFinds, SearchHitsDatabaseError, InferenceUnlogged, InferenceAddsLog,
      WriteMemoryAddsRows, CommitSucceeds, CommitFails, Abort, Finished, End,
      RespondOnly, Active, Committing, Ended, Outcomes, vars

\* Whenever the model is called, the messages are assistant turns each followed
\* by exactly the results of its calls.
THEOREM EveryCallIsAnswered == Spec => []ResultsFollowCalls
<1>1. Init => HistoryInv
  BY DEF Init, HistoryInv, Complete, Active, Committing
<1>2. TypeOK /\ HistoryInv => ResultsFollowCalls
  BY DEF TypeOK, HistoryInv, Complete, ResultsFollowCalls, IsTool
<1>3. QED
  BY <1>1, <1>2, HistoryStep, TypeCorrect, PTL DEF Spec

-----------------------------------------------------------------------------
(* The contract.                                                           *)

\* Calls are served in order: every committed row belongs to a call before
\* the current one, so a call's effect cannot be repeated.
Before(c, t, n) == c[1] < t \/ (c[1] = t /\ c[2] < n)

FreshInv ==
  /\ pc = "llm" => next = 1
  /\ pc \notin Ended => \A r \in db : Before(r.call, turn, next)

\* Responding to a call moves past it, and past every call before it.
LEMMA RespondMovesOn ==
  ASSUME TypeOK, LoopOK, pc \in Active, NEW outcome, Respond(outcome)
  PROVE  /\ pc' = "llm" => next' = 1
         /\ \A c \in CallIds : c = Call \/ Before(c, turn, next) =>
              Before(c, turn', next')
<1>1. /\ turn \in Nat /\ next \in Nat
      /\ \/ turn' = turn /\ next' = next + 1 /\ pc' = "dispatch"
         \/ turn' = turn + 1 /\ next' = 1
  BY AgentAssumption DEF TypeOK, Respond
<1>2. \A c \in CallIds : c[1] \in Nat /\ c[2] \in Nat
  BY DEF CallIds
<1>3. Call[1] = turn /\ Call[2] = next
  BY DEF Call
<1>4. QED
  BY <1>1, <1>2, <1>3 DEF Before

\* Freshness is preserved by every step.
LEMMA FreshStep ==
  TypeOK /\ LoopOK /\ SessionInv /\ FreshInv /\ [Next]_vars => FreshInv'
<1> SUFFICES ASSUME TypeOK, LoopOK, SessionInv, FreshInv, [Next]_vars
             PROVE  FreshInv'
  OBVIOUS
<1>1. CASE pc' \in Ended
  BY <1>1 DEF FreshInv, Ended
<1>2. CASE /\ db' = db /\ turn' = turn /\ next' = next
           /\ pc' = "llm" => pc = "llm"
           /\ pc \notin Ended
  BY <1>2 DEF FreshInv
<1>3. CASE LlmRequestsTools
  BY <1>3 DEF LlmRequestsTools, FreshInv, session, Ended
<1>4. ASSUME NEW outcome, pc \in Active, Respond(outcome)
      PROVE  FreshInv'
  <2>1. pc \notin Ended
    BY <1>4 DEF Active, Committing, Ended
  <2>2. \A r \in db' : r \in Row /\ (r.call = Call \/ Before(r.call, turn, next))
    <3>1. CASE db' = db
      BY <2>1, <3>1 DEF FreshInv, TypeOK
    <3>2. CASE db' # db
      <4>1. db' = db \cup pending /\ (pending = MemoryRows \/ pending = LogRows)
        BY <3>2, WhatIsWritten DEF vars, Committing
      <4>2. \A r \in MemoryRows \cup LogRows : r.call = Call
        BY DEF MemoryRows, LogRows
      <4> QED
        BY <2>1, <4>1, <4>2 DEF FreshInv, TypeOK
    <3> QED
      BY <3>1, <3>2
  <2>3. \A r \in Row : r.call \in CallIds
    BY DEF Row
  <2> QED
    BY <1>4, <2>2, <2>3, RespondMovesOn DEF FreshInv
<1> QED
  BY <1>1, <1>2, <1>3, <1>4
  DEF Next, LlmAnswers, LlmFails, ArgumentsUnparsable, UnknownTool, ToolFails,
      SearchFinds, SearchHitsDatabaseError, InferenceUnlogged, InferenceAddsLog,
      WriteMemoryAddsRows, CommitSucceeds, CommitFails, Abort, Finished, End,
      RespondOnly, Active, Committing, Ended, vars, FreshInv, request

\* An agent request implements the contract: whatever fails on the way, its
\* durable effects happen one call at a time, each at most once, memories only
\* together with their audit entries, and none after the request has ended.
THEOREM AgentImplementsContract == Spec => ImplementsContract
<1> DEFINE status == IF pc = "failed" THEN "failed"
                     ELSE IF pc \in Ended THEN "answered" ELSE "running"
<1>1. Init => Contract!Init
  BY DEF Init, Contract!Init, Committed, CallsIn, Ended
<1>2. TypeOK /\ LoopOK /\ SessionInv /\ FreshInv /\ [Next]_vars
      => [Contract!Next]_Contract!vars
  <2> SUFFICES ASSUME TypeOK, LoopOK, SessionInv, FreshInv, [Next]_vars
               PROVE  Contract!Next \/ UNCHANGED Contract!vars
    OBVIOUS
  <2>1. status \in {"running", "answered", "failed"}
        /\ status' \in {"running", "answered", "failed"}
    OBVIOUS
  <2>2. CASE db' = db
    <3>1. \A t : CallsIn(db', t) = CallsIn(db, t)
      BY <2>2
    <3>2. status # "running" => pc' = pc
      BY DEF Next, LlmRequestsTools, LlmAnswers, LlmFails, ArgumentsUnparsable,
        UnknownTool, ToolFails, SearchFinds, SearchHitsDatabaseError,
        InferenceUnlogged, InferenceAddsLog, WriteMemoryAddsRows, CommitSucceeds,
        CommitFails, Abort, Finished, Committing, Ended, vars
    <3>3. status' = status \/ (status = "running" /\ status' # "running")
      BY <3>2
    <3> QED
      BY <2>1, <3>1, <3>3 DEF Contract!Next, Contract!Stop, Contract!vars, Committed
  <2>3. CASE db' # db
    <3>1. /\ pc \in Committing
          /\ db' = db \cup pending
          /\ pc = "commit_memory" => pending = MemoryRows
          /\ pc = "commit_log" => pending = LogRows
      BY <2>3, WhatIsWritten DEF vars
    <3>2. status = "running"
      BY <3>1 DEF Committing, Ended
    <3>3. Call \in (0..MaxTurns) \X (1..MaxCalls)
      BY DEF TypeOK, Call
    <3>4. \A r \in db : r.call # Call
      <4>1. \A r \in db : Before(r.call, turn, next)
        BY <3>1 DEF FreshInv, Committing, Ended
      <4>2. ~Before(Call, turn, next)
        BY AgentAssumption DEF TypeOK, Before, Call
      <4> QED
        BY <4>1, <4>2
    <3>5. \A t : Call \notin CallsIn(db, t)
      BY <3>4 DEF CallsIn
    <3>6. \A t : CallsIn(db', t) = CallsIn(db, t) \cup CallsIn(pending, t)
      BY <3>1, CallsInUnion
    <3>7. CASE pc = "commit_memory"
      <4>1. /\ CallsIn(db', "memory") = CallsIn(db, "memory") \cup {Call}
            /\ CallsIn(db', "audit") = CallsIn(db, "audit") \cup {Call}
            /\ CallsIn(db', "log") = CallsIn(db, "log")
        BY <3>1, <3>6, <3>7, CallsInRows
      <4>2. Contract!Remember(Call)
        BY <3>2, <3>5, <4>1 DEF Contract!Remember, Contract!Fresh, Committed
      <4> QED
        BY <2>1, <3>3, <4>2 DEF Contract!Next, Contract!Effect
    <3>8. CASE pc = "commit_log"
      <4>1. /\ CallsIn(db', "memory") = CallsIn(db, "memory")
            /\ CallsIn(db', "audit") = CallsIn(db, "audit")
            /\ CallsIn(db', "log") = CallsIn(db, "log") \cup {Call}
        BY <3>1, <3>6, <3>8, CallsInRows
      <4>2. Contract!LogInference(Call)
        BY <3>2, <3>5, <4>1 DEF Contract!LogInference, Contract!Fresh, Committed
      <4> QED
        BY <2>1, <3>3, <4>2 DEF Contract!Next, Contract!Effect
    <3> QED
      BY <3>1, <3>7, <3>8 DEF Committing
  <2> QED
    BY <2>2, <2>3
<1>3. Init => FreshInv
  BY DEF Init, FreshInv
<1>4. QED
  BY <1>1, <1>2, <1>3, FreshStep, TypeCorrect, SessionCorrect, PTL
  DEF Spec, ImplementsContract, Contract!Spec

-----------------------------------------------------------------------------
(* Induction over the numbers.                                             *)

Less == {p \in Nat \X Nat : p[1] < p[2]}

\* A set of numbers that has 0 and with every number its successor has all.
LEMMA NatSetInduction ==
  ASSUME NEW T, 0 \in T, \A n \in Nat : n \in T => n + 1 \in T
  PROVE  Nat \subseteq T
<1>1. IsWellFoundedOn(Less, Nat)
  BY NatLessThanWellFounded DEF OpToRel, Less
<1> DEFINE U == Nat \ T
<1> SUFFICES ASSUME U # {} PROVE FALSE
  OBVIOUS
<1>2. PICK x \in U : \A y \in U : ~(<<y, x>> \in Less)
  <2>1. U \subseteq Nat
    OBVIOUS
  <2> HIDE DEF U
  <2> QED
    BY <1>1, <2>1, WFMin
<1>3. x # 0 /\ x \in Nat
  OBVIOUS
<1>4. x - 1 \in T
  <2>1. <<x - 1, x>> \in Less
    BY <1>3 DEF Less
  <2> QED
    BY <1>2, <1>3, <2>1
<1> QED
  BY <1>3, <1>4

-----------------------------------------------------------------------------
(* What Anthropic is sent.                                                 *)

\* The i-th message as it is converted, after the ones before it.
Taken(sent, u, i) == Extended(sent, u[i], IsResult(u, i) /\ IsResult(u, i - 1))

\* f[i] is the conversion of the first i messages of u, up to the n-th.
AreConverted(f, u, n) == f = [i \in 0..n |-> IF i = 0 THEN <<>> ELSE Taken(f[i - 1], u, i)]

\* There is such a function; its last value is the conversion.
LEMMA ConversionIsDefined ==
  ASSUME NEW S, NEW u \in Seq(S)
  PROVE  \E f : AreConverted(f, u, Len(u)) /\ ToAnthropic(u) = f[Len(u)]
<1> DEFINE T == {n \in Nat : \E f : AreConverted(f, u, n)}
<1>1. 0 \in T
  <2>1. AreConverted([i \in 0..0 |-> <<>>], u, 0)
    BY DEF AreConverted
  <2>2. QED
    BY <2>1
<1>2. ASSUME NEW n \in Nat, n \in T PROVE n + 1 \in T
  <2>1. PICK f : AreConverted(f, u, n)
    BY <1>2
  <2> DEFINE last == Taken(f[n], u, n + 1)
             g == [i \in 0..(n + 1) |-> IF i = n + 1 THEN last ELSE f[i]]
  <2>2. g[n + 1] = last /\ \A i \in 0..n : g[i] = f[i]
    OBVIOUS
  <2>3. g = [i \in 0..(n + 1) |-> g[i]]
    OBVIOUS
  <2>4. last = Taken(g[n], u, n + 1)
    BY <2>2
  <2> HIDE DEF last, g
  <2>5. ASSUME NEW i \in 0..(n + 1)
        PROVE  g[i] = IF i = 0 THEN <<>> ELSE Taken(g[i - 1], u, i)
    <3>1. CASE i = n + 1
      BY <2>2, <2>4, <3>1
    <3>2. CASE i \in 0..n
      <4>1. f[i] = IF i = 0 THEN <<>> ELSE Taken(f[i - 1], u, i)
        BY <2>1, <3>2 DEF AreConverted
      <4>2. g[i] = f[i] /\ (i # 0 => g[i - 1] = f[i - 1])
        BY <2>2, <3>2
      <4>3. QED
        BY <4>1, <4>2
    <3>3. QED
      BY <3>1, <3>2
  <2>6. AreConverted(g, u, n + 1)
    BY <2>3, <2>5 DEF AreConverted
  <2>7. QED
    BY <2>6
<1>3. Len(u) \in T
  <2> HIDE DEF T
  <2>1. QED
    BY <1>1, <1>2, NatSetInduction
<1> DEFINE upTo == CHOOSE f : AreConverted(f, u, Len(u))
<1>4. AreConverted(upTo, u, Len(u))
  BY <1>3
<1>5. ToAnthropic(u) = upTo[Len(u)]
  BY DEF ToAnthropic, AreConverted, Taken
<1>6. QED
  BY <1>4, <1>5

\* What one message more adds to the conversion.
LEMMA ConversionExtends ==
  ASSUME NEW S, NEW u \in Seq(S), NEW x \in S
  PROVE  /\ ToAnthropic(<<>>) = <<>>
         /\ ToAnthropic(Append(u, x)) =
              Extended(ToAnthropic(u), x, x.role = "tool" /\ IsResult(u, Len(u)))
<1> DEFINE v == Append(u, x)
           n == Len(u)
<1>1. /\ n \in Nat /\ v \in Seq(S) /\ Len(v) = n + 1 /\ v[n + 1] = x
      /\ \A i \in 1..n : v[i] = u[i]
  BY AppendProperties
<1> HIDE DEF v, n
<1>2. PICK f : AreConverted(f, u, n) /\ ToAnthropic(u) = f[n]
  BY ConversionIsDefined DEF n
<1>3. PICK g : AreConverted(g, v, n + 1) /\ ToAnthropic(v) = g[n + 1]
  BY <1>1, ConversionIsDefined
<1>4. /\ \A i \in 0..n : IsResult(v, i) <=> IsResult(u, i)
      /\ IsResult(v, n + 1) <=> x.role = "tool"
  BY <1>1 DEF IsResult, n
<1>5. \A i \in 0..n : g[i] = f[i]
  <2> DEFINE T == {i \in Nat : i <= n => g[i] = f[i]}
  <2>1. 0 \in T
    BY <1>1, <1>2, <1>3 DEF AreConverted
  <2>2. ASSUME NEW i \in Nat, i \in T PROVE i + 1 \in T
    <3> SUFFICES ASSUME i + 1 <= n PROVE g[i + 1] = f[i + 1]
      OBVIOUS
    <3>1. i + 1 \in 0..n /\ i + 1 \in 0..(n + 1) /\ i + 1 # 0 /\ (i + 1) - 1 = i /\ i + 1 \in 1..n
          /\ i \in 0..n
      BY <1>1
    <3>2. g[i] = f[i] /\ v[i + 1] = u[i + 1]
      BY <1>1, <2>2, <3>1
    <3>3. f[i + 1] = Taken(f[i], u, i + 1)
      BY <1>2, <3>1 DEF AreConverted
    <3>4. g[i + 1] = Taken(g[i], v, i + 1)
      BY <1>3, <3>1 DEF AreConverted
    <3>5. (IsResult(v, i + 1) <=> IsResult(u, i + 1)) /\ (IsResult(v, i) <=> IsResult(u, i))
      BY <1>4, <3>1
    <3>6. (IsResult(v, i + 1) /\ IsResult(v, i)) = (IsResult(u, i + 1) /\ IsResult(u, i))
      BY <3>5
    <3>7. Taken(g[i], v, i + 1) = Taken(f[i], u, i + 1)
      BY <3>1, <3>2, <3>6 DEF Taken
    <3>8. QED
      BY <3>3, <3>4, <3>7
  <2>3. Nat \subseteq T
    <3> HIDE DEF T
    <3>1. QED
      BY <2>1, <2>2, NatSetInduction
  <2>4. QED
    BY <1>1, <2>3
<1>6. g[n + 1] = Extended(f[n], x, x.role = "tool" /\ IsResult(u, n))
  <2>1. n + 1 \in 0..(n + 1) /\ n + 1 # 0 /\ (n + 1) - 1 = n /\ n \in 0..n
    BY <1>1
  <2>2. g[n + 1] = Taken(g[n], v, n + 1)
    BY <1>3, <2>1 DEF AreConverted
  <2>3. (IsResult(v, n + 1) /\ IsResult(v, n)) = (x.role = "tool" /\ IsResult(u, n))
    BY <1>4, <2>1
  <2>4. g[n] = f[n] /\ v[n + 1] = x
    BY <1>1, <1>5, <2>1
  <2>5. Taken(g[n], v, n + 1) = Extended(f[n], x, x.role = "tool" /\ IsResult(u, n))
    BY <2>1, <2>3, <2>4 DEF Taken
  <2>6. QED
    BY <2>2, <2>5
<1>7. ToAnthropic(<<>>) = <<>>
  <2>1. <<>> \in Seq(S) /\ Len(<<>>) = 0
    BY EmptySeq
  <2>2. PICK e : AreConverted(e, <<>>, 0) /\ ToAnthropic(<<>>) = e[0]
    BY <2>1, ConversionIsDefined
  <2>3. QED
    BY <2>2 DEF AreConverted
<1>8. QED
  BY <1>2, <1>3, <1>6, <1>7 DEF v, n

\* The messages the loop sends, and those Anthropic is sent.
Line == [role : {"system", "user", "assistant", "tool"}, call : CallIds, calls : Nat,
         result : Outcomes \cup {"none"}]

Conv == [role : {"user", "assistant"}, uses : Seq(CallIds), results : Seq(CallIds)]

\* The first n calls of the response of turn t.
FirstCalls(t, n) == [k \in 1..n |-> <<t, k>>]

Asks(t, n) == Converted("assistant", FirstCalls(t, n), <<>>)
Brings(t, n) == Converted("user", <<>>, FirstCalls(t, n))

\* A conversation that could be sent as it stands.
Sendable(sent) == sent \in Seq(Conv) /\ sent # <<>> /\ WellFormed(sent)

\* What Anthropic would be sent now.
Sent == ToAnthropic(Prompt \o history)

\* While a response is served, a conversation that could be sent is followed
\* by the response and by what its calls have brought so far.
SendableInv ==
  /\ pc = "llm" => Sendable(Sent)
  /\ pc \in Active => \E sent : Sendable(sent) /\
       IF next = 1 THEN Sent = Append(sent, Asks(turn, calls))
       ELSE Sent = Append(Append(sent, Asks(turn, calls)), Brings(turn, next - 1))

\* What is asked and what it brings are messages.
LEMMA ConvTypes ==
  ASSUME NEW t \in Nat, NEW n \in Nat
  PROVE  /\ FirstCalls(t, n) \in Seq(CallIds)
         /\ Asks(t, n) \in Conv /\ Brings(t, n) \in Conv
         /\ n > 0 => FirstCalls(t, n) # <<>>
<1>1. FirstCalls(t, n) \in [1..n -> CallIds] /\ Len(FirstCalls(t, n)) = n
  BY DEF FirstCalls, CallIds
<1>2. FirstCalls(t, n) \in Seq(CallIds)
  BY <1>1, SeqDef
<1>3. <<>> \in Seq(CallIds) /\ Len(<<>>) = 0
  BY EmptySeq
<1>4. QED
  BY <1>1, <1>2, <1>3 DEF Asks, Brings, Conv, Converted

\* One call more.
LEMMA OneCallMore ==
  ASSUME NEW t \in Nat, NEW n \in Nat
  PROVE  FirstCalls(t, n + 1) = Append(FirstCalls(t, n), <<t, n + 1>>)
<1> DEFINE f == FirstCalls(t, n)
           g == FirstCalls(t, n + 1)
           c == <<t, n + 1>>
<1>1. f \in Seq(CallIds) /\ g \in Seq(CallIds) /\ c \in CallIds
  <2>1. n + 1 \in Nat
    OBVIOUS
  <2>2. c \in CallIds
    BY DEF CallIds
  <2> HIDE DEF c
  <2> QED
    BY <2>1, <2>2, ConvTypes
<1>2. Len(f) = n /\ Len(g) = n + 1 /\ g[n + 1] = c /\ \A i \in 1..n : g[i] = f[i]
  BY DEF FirstCalls
<1> HIDE DEF f, g, c
<1>3. /\ Append(f, c) \in Seq(CallIds) /\ Len(Append(f, c)) = n + 1
      /\ Append(f, c)[n + 1] = c /\ \A i \in 1..n : Append(f, c)[i] = f[i]
  BY <1>1, <1>2, AppendProperties
<1>4. Len(g) = Len(Append(f, c)) /\ \A i \in 1..Len(g) : g[i] = Append(f, c)[i]
  BY <1>2, <1>3
<1>5. g = Append(f, c)
  BY <1>1, <1>3, <1>4, SeqEqual
<1>6. QED
  BY <1>5 DEF f, g, c

\* A response and all that its calls bring leave a conversation sendable.
LEMMA ServedIsSendable ==
  ASSUME NEW sent, Sendable(sent), NEW t \in Nat, NEW n \in Nat, n > 0
  PROVE  Sendable(Append(Append(sent, Asks(t, n)), Brings(t, n)))
<1>1. PICK a \in Conv : a = Asks(t, n)
  BY ConvTypes
<1>2. PICK b \in Conv : b = Brings(t, n)
  BY ConvTypes
<1>3. a.uses = b.results /\ a.results = <<>> /\ b.uses = <<>> /\ a.uses # <<>>
  BY <1>1, <1>2, ConvTypes DEF Asks, Brings, Converted
<1>4. PICK l \in Nat : l = Len(sent)
  BY DEF Sendable
<1>5. l > 0
  BY <1>4, EmptySeq DEF Sendable
<1>6. PICK s \in Seq(Conv) : s = Append(sent, a)
  BY AppendProperties DEF Sendable
<1>7. Len(s) = l + 1 /\ s[l + 1] = a /\ \A i \in 1..l : s[i] = sent[i]
  BY <1>4, <1>6, AppendProperties DEF Sendable
<1>8. PICK u \in Seq(Conv) : u = Append(s, b)
  BY AppendProperties
<1>9. Len(u) = l + 2 /\ u[l + 2] = b /\ u # <<>> /\ \A i \in 1..(l + 1) : u[i] = s[i]
  <2>1. Len(u) = Len(s) + 1 /\ u[Len(s) + 1] = b /\ u # <<>> /\ \A i \in 1..Len(s) : u[i] = s[i]
    BY <1>8, AppendProperties
  <2>2. Len(s) + 1 = l + 2
    BY <1>7
  <2> QED
    BY <1>7, <2>1, <2>2
<1>10. u[l + 1] = a /\ \A i \in 1..l : u[i] = sent[i]
  BY <1>7, <1>9
<1>11. /\ sent[1].role = "user"
       /\ \A i \in 1..l :
            /\ sent[i].uses # <<>> => i < l /\ sent[i + 1].results = sent[i].uses
            /\ sent[i].results # <<>> => i > 1 /\ sent[i - 1].uses # <<>>
  BY <1>4 DEF Sendable, WellFormed
<1>12. u[1].role = "user"
  BY <1>5, <1>10, <1>11
<1>13. ASSUME NEW i \in 1..Len(u)
       PROVE  /\ u[i].uses # <<>> => i < Len(u) /\ u[i + 1].results = u[i].uses
              /\ u[i].results # <<>> => i > 1 /\ u[i - 1].uses # <<>>
  <2>1. CASE i \in 1..l
    <3>1. i < l => u[i + 1] = sent[i + 1]
      BY <1>10, <2>1
    <3>2. i > 1 => u[i - 1] = sent[i - 1]
      BY <1>10, <2>1
    <3>3. u[i] = sent[i] /\ l < Len(u)
      BY <1>9, <1>10, <2>1
    <3>4. QED
      BY <1>11, <2>1, <3>1, <3>2, <3>3
  <2>2. CASE i = l + 1
    BY <1>3, <1>9, <1>10, <2>2
  <2>3. CASE i = l + 2
    <3>1. u[i - 1] = a /\ i > 1
      BY <1>5, <1>10, <2>3
    <3>2. QED
      BY <1>3, <1>9, <2>3, <3>1
  <2>4. QED
    BY <1>9, <2>1, <2>2, <2>3
<1>14. WellFormed(u)
  BY <1>12, <1>13 DEF WellFormed
<1>15. QED
  BY <1>1, <1>2, <1>6, <1>8, <1>9, <1>14 DEF Sendable

\* Concatenation and Append commute.
LEMMA AppendToLines ==
  \A s \in Seq(Line) : \A t \in Seq(Line) : \A x \in Line :
    Append(s \o t, x) = s \o Append(t, x)
OBVIOUS

\* The messages of the loop are lines.
LEMMA LinesAreSent ==
  ASSUME NEW h \in Seq(Message)
  PROVE  /\ h \in Seq(Line) /\ Prompt \in Seq(Line) /\ Len(Prompt) = 2
         /\ Prompt \o h \in Seq(Line) /\ Len(Prompt \o h) = Len(h) + 2
         /\ Len(h) \in Nat
         /\ Len(h) > 0 => (Prompt \o h)[Len(h) + 2] = h[Len(h)]
<1>1. Message \subseteq Line
  BY DEF Message, Line
<1>2. h \in Seq(Line)
  BY <1>1, SeqMonotonic
<1>3. Plain("system") \in Line /\ Plain("user") \in Line
  BY DEF Plain, Line, NoId, CallIds
<1>4. Prompt \in Seq(Line) /\ Len(Prompt) = 2
  BY <1>3 DEF Prompt
<1>5. Len(h) \in Nat
  OBVIOUS
<1>6. PICK p \in Seq(Line) : p = Prompt
  BY <1>4
<1>7. PICK u \in Seq(Line) : u = p \o h
  BY <1>2, ConcatProperties
<1>8. Len(p) = 2
  BY <1>4, <1>6
<1>9. Len(u) = Len(h) + 2
  <2>1. Len(p \o h) = Len(p) + Len(h)
    BY <1>2, ConcatProperties
  <2> QED
    BY <1>5, <1>7, <1>8, <2>1
<1>10. ASSUME Len(h) > 0 PROVE u[Len(h) + 2] = h[Len(h)]
  <2>1. Len(h) + 2 \in 1..(Len(p) + Len(h)) /\ ~(Len(h) + 2 <= Len(p))
        /\ (Len(h) + 2) - Len(p) = Len(h)
    BY <1>5, <1>8, <1>10
  <2>2. (p \o h)[Len(h) + 2] = h[(Len(h) + 2) - Len(p)]
    BY <1>2, <2>1, ConcatProperties
  <2> QED
    BY <1>7, <2>1, <2>2
<1>11. QED
  BY <1>2, <1>4, <1>5, <1>6, <1>7, <1>9, <1>10

\* What one message more adds to what is sent.
LEMMA SentExtends ==
  ASSUME NEW h \in Seq(Message), NEW m \in Message
  PROVE  ToAnthropic(Prompt \o Append(h, m)) =
           Extended(ToAnthropic(Prompt \o h), m,
             m.role = "tool" /\ Len(h) > 0 /\ h[Len(h)].role = "tool")
<1>1. m \in Line
  BY DEF Message, Line
<1>2. Append(Prompt \o h, m) = Prompt \o Append(h, m)
  BY <1>1, LinesAreSent, AppendToLines
<1>3. PICK u \in Seq(Line) : u = Prompt \o h
  BY LinesAreSent
<1>4. ToAnthropic(Append(u, m)) =
        Extended(ToAnthropic(u), m, m.role = "tool" /\ IsResult(u, Len(u)))
  BY <1>1, ConversionExtends
<1>5. Len(u) = Len(h) + 2 /\ Len(h) \in Nat /\ (Len(h) > 0 => u[Len(h) + 2] = h[Len(h)])
  BY <1>3, LinesAreSent
<1>6. IsResult(u, Len(u)) = (Len(h) > 0 /\ h[Len(h)].role = "tool")
  <2>1. CASE Len(h) > 0
    BY <1>5, <2>1 DEF IsResult
  <2>2. CASE Len(h) = 0
    <3>1. h = <<>>
      BY <2>2, EmptySeq
    <3>2. u = Prompt
      BY <1>3, <3>1, LinesAreSent, ConcatEmptySeq
    <3>3. u[2].role = "user" /\ Len(u) = 2
      BY <1>5, <2>2, <3>2 DEF Prompt, Plain
    <3> QED
      BY <2>2, <3>3 DEF IsResult
  <2> QED
    BY <1>5, <2>1, <2>2
<1>7. QED
  BY <1>2, <1>3, <1>4, <1>6

\* At first there is the user's message alone.
LEMMA FirstIsSendable == history = <<>> => Sendable(Sent)
<1> SUFFICES ASSUME history = <<>> PROVE Sendable(Sent)
  OBVIOUS
<1> DEFINE sys == Plain("system")
           usr == Plain("user")
           one == Converted("user", <<>>, <<>>)
<1>1. sys \in Line /\ usr \in Line /\ sys.role = "system" /\ usr.role = "user"
  BY DEF Plain, Line, NoId, CallIds
<1>2. one \in Conv /\ one.role = "user" /\ one.uses = <<>> /\ one.results = <<>>
  BY DEF Conv, Converted
<1>3. Prompt = Append(Append(<<>>, sys), usr)
  BY DEF Prompt
<1>4. <<>> \in Seq(Line) /\ Append(<<>>, sys) \in Seq(Line)
  BY <1>1, EmptySeq, AppendProperties
<1>5. <<>> \in Seq(Message) /\ Prompt \o <<>> = Prompt
  <2>1. <<>> \in Seq(Message)
    BY EmptySeq
  <2> QED
    BY <2>1, LinesAreSent, ConcatEmptySeq
<1>6. Sent = ToAnthropic(Prompt)
  BY <1>5 DEF Sent
<1>7. ToAnthropic(Append(<<>>, sys)) = <<>>
  <2>1. ToAnthropic(Append(<<>>, sys)) =
          Extended(ToAnthropic(<<>>), sys, sys.role = "tool" /\ IsResult(<<>>, Len(<<>>)))
    BY <1>1, <1>4, ConversionExtends
  <2>2. ToAnthropic(<<>>) = <<>>
    BY <1>1, <1>4, ConversionExtends
  <2> HIDE DEF sys
  <2> QED
    BY <1>1, <2>1, <2>2 DEF Extended
<1>8. ToAnthropic(Prompt) = Append(<<>>, one)
  <2> DEFINE s == Append(<<>>, sys)
  <2>1. ToAnthropic(Append(s, usr)) =
          Extended(ToAnthropic(s), usr, usr.role = "tool" /\ IsResult(s, Len(s)))
    <3> HIDE DEF s, usr
    <3> QED
      BY <1>1, <1>4, ConversionExtends DEF s
  <2> HIDE DEF s, usr
  <2>2. (usr.role = "tool" /\ IsResult(s, Len(s))) = FALSE
    BY <1>1
  <2>3. Extended(ToAnthropic(s), usr, FALSE) = Append(ToAnthropic(s), one)
    BY <1>1 DEF Extended
  <2> QED
    BY <1>3, <1>7, <2>1, <2>2, <2>3 DEF s
<1> HIDE DEF one
<1>9. PICK u \in Seq(Conv) : u = Append(<<>>, one)
  BY <1>2, EmptySeq, AppendProperties
<1>10. Len(u) = 1 /\ u[1] = one /\ u # <<>>
  BY <1>2, <1>9, EmptySeq, AppendProperties
<1>11. WellFormed(u)
  BY <1>2, <1>10 DEF WellFormed
<1> QED
  BY <1>6, <1>8, <1>9, <1>10, <1>11 DEF Sendable

\* A response of the model is taken over as it is.
LEMMA AskingIsSent ==
  ASSUME TypeOK, NEW n \in 1..MaxCalls, history' = Append(history, AssistantTurn(turn, n))
  PROVE  Sent' = Append(Sent, Asks(turn, n))
<1> DEFINE m == AssistantTurn(turn, n)
<1>1. m \in Message /\ m.role = "assistant" /\ m.calls = n /\ m.call[1] = turn
  BY AgentAssumption DEF TypeOK, AssistantTurn, Message, CallIds
<1>2. Uses(m) = FirstCalls(turn, n)
  BY <1>1 DEF Uses, FirstCalls
<1> HIDE DEF m
<1>3. history \in Seq(Message) /\ history' = Append(history, m)
  BY DEF TypeOK, m
<1>4. ToAnthropic(Prompt \o Append(history, m)) =
        Extended(ToAnthropic(Prompt \o history), m,
          m.role = "tool" /\ Len(history) > 0 /\ history[Len(history)].role = "tool")
  BY <1>1, <1>3, SentExtends
<1>5. (m.role = "tool" /\ Len(history) > 0 /\ history[Len(history)].role = "tool") = FALSE
  BY <1>1
<1>6. Extended(Sent, m, FALSE) = Append(Sent, Asks(turn, n))
  BY <1>1, <1>2 DEF Extended, Asks
<1>7. Sent' = ToAnthropic(Prompt \o Append(history, m))
  BY <1>3 DEF Sent
<1>8. QED
  BY <1>4, <1>5, <1>6, <1>7 DEF Sent

\* The result of a call is sent on its own or merged with those before it.
LEMMA ResultIsSent ==
  ASSUME TypeOK, LoopOK, HistoryInv, SendableInv, pc \in Active, NEW outcome \in Outcomes,
         history' = Append(history, ToolResult(Call, outcome))
  PROVE  \E sent : Sendable(sent) /\
           Sent' = Append(Append(sent, Asks(turn, calls)), Brings(turn, next))
<1> DEFINE m == ToolResult(Call, outcome)
<1>1. m \in Message /\ m.role = "tool" /\ m.call = <<turn, next>>
  BY DEF TypeOK, ToolResult, Message, Call, CallIds
<1> HIDE DEF m
<1>2. history \in Seq(Message) /\ history' = Append(history, m) /\ Len(history) \in Nat
  BY DEF TypeOK, m
<1>3. turn \in Nat /\ next \in Nat /\ next >= 1 /\ calls \in Nat
  BY AgentAssumption DEF TypeOK
<1> DEFINE merged == Len(history) > 0 /\ history[Len(history)].role = "tool"
<1>4. Sent' = Extended(Sent, m, m.role = "tool" /\ merged)
  BY <1>1, <1>2, SentExtends DEF Sent
<1>5. (m.role = "tool" /\ merged) = (next > 1)
  <2>1. /\ Base \in 1..Len(history) /\ Base = Len(history) - (next - 1)
        /\ history[Base] = AssistantTurn(turn, calls)
        /\ \A k \in 1..(next - 1) : history[Base + k].role = "tool"
    BY DEF HistoryInv, Base
  <2>2. CASE next = 1
    <3>1. Base = Len(history)
      BY <1>2, <2>1, <2>2
    <3>2. history[Len(history)].role = "assistant"
      BY <2>1, <3>1 DEF AssistantTurn
    <3> QED
      BY <2>2, <3>2
  <2>3. CASE next > 1
    <3>1. Base + (next - 1) = Len(history) /\ next - 1 \in 1..(next - 1) /\ Len(history) > 0
      BY <1>2, <1>3, <2>1, <2>3
    <3>2. history[Len(history)].role = "tool"
      BY <2>1, <3>1
    <3> QED
      BY <1>1, <2>3, <3>1, <3>2
  <2> QED
    BY <1>3, <2>2, <2>3
<1> HIDE DEF merged
<1>6. Sent' = Extended(Sent, m, next > 1)
  BY <1>4, <1>5
<1>7. PICK sent : Sendable(sent) /\
        IF next = 1 THEN Sent = Append(sent, Asks(turn, calls))
        ELSE Sent = Append(Append(sent, Asks(turn, calls)), Brings(turn, next - 1))
  BY DEF SendableInv
<1>8. CASE next = 1
  <2>1. FirstCalls(turn, 1) = <<m.call>>
    BY <1>1, <1>8 DEF FirstCalls
  <2>2. Sent' = Append(Sent, Converted("user", <<>>, <<m.call>>))
    BY <1>1, <1>6, <1>8 DEF Extended
  <2>3. Sent' = Append(Sent, Brings(turn, next))
    BY <1>8, <2>1, <2>2 DEF Brings
  <2> QED
    BY <1>7, <1>8, <2>3
<1>9. CASE next > 1
  <2>1. PICK old \in Conv : old = Brings(turn, next - 1)
    BY <1>3, <1>9, ConvTypes
  <2>2. PICK new \in Conv : new = Brings(turn, next)
    BY <1>3, ConvTypes
  <2>3. old.results = FirstCalls(turn, next - 1)
    BY <2>1 DEF Brings, Converted
  <2>4. FirstCalls(turn, next) = Append(FirstCalls(turn, next - 1), m.call)
    <3>1. next - 1 \in Nat /\ (next - 1) + 1 = next
      BY <1>3
    <3> QED
      BY <1>1, <1>3, <3>1, OneCallMore
  <2>5. Converted("user", <<>>, Append(old.results, m.call)) = new
    BY <2>2, <2>3, <2>4 DEF Brings
  <2>6. PICK p \in Seq(Conv) : p = Append(sent, Asks(turn, calls))
    BY <1>3, <1>7, ConvTypes, AppendProperties DEF Sendable
  <2>7. Sent = Append(p, old)
    BY <1>7, <1>9, <2>1, <2>6
  <2>8. PICK l \in Nat : l = Len(p)
    BY LenProperties
  <2>9. PICK s \in Seq(Conv) : s = Append(p, old)
    BY <2>6, AppendProperties
  <2>10. Len(s) = l + 1 /\ s[l + 1] = old /\ \A i \in 1..l : s[i] = p[i]
    BY <2>8, <2>9, AppendProperties
  <2>11. Sent' = [s EXCEPT ![l + 1] = new]
    BY <1>1, <1>6, <1>9, <2>5, <2>7, <2>9, <2>10 DEF Extended
  <2>12. PICK e \in Seq(Conv) : e = [s EXCEPT ![l + 1] = new]
    <3>1. l + 1 \in 1..Len(s)
      BY <2>10
    <3> QED
      BY <3>1, ExceptSeq
  <2>13. Len(e) = l + 1 /\ \A j \in 1..(l + 1) : e[j] = IF j = l + 1 THEN new ELSE s[j]
    <3>1. l + 1 \in 1..Len(s)
      BY <2>10
    <3> QED
      BY <2>10, <2>12, <3>1, ExceptSeq
  <2>14. PICK v \in Seq(Conv) : v = Append(p, new)
    BY AppendProperties
  <2>15. Len(v) = l + 1 /\ v[l + 1] = new /\ \A i \in 1..l : v[i] = p[i]
    BY <2>8, <2>14, AppendProperties
  <2>16. Len(e) = Len(v) /\ \A j \in 1..Len(e) : e[j] = v[j]
    <3>1. ASSUME NEW j \in 1..(l + 1) PROVE e[j] = v[j]
      <4>1. CASE j = l + 1
        BY <2>13, <2>15, <4>1
      <4>2. CASE j \in 1..l
        BY <2>10, <2>13, <2>15, <4>2
      <4> QED
        BY <4>1, <4>2
    <3> QED
      BY <2>13, <2>15, <3>1
  <2>17. e = v
    BY <2>16, SeqEqual
  <2> QED
    BY <1>7, <2>2, <2>6, <2>11, <2>12, <2>14, <2>17
<1>10. QED
  BY <1>3, <1>8, <1>9

\* Responding to a call keeps what Anthropic would be sent.
LEMMA RespondKeepsSendable ==
  ASSUME TypeOK, LoopOK, HistoryInv, SendableInv, pc \in Active, NEW outcome \in Outcomes,
         Respond(outcome)
  PROVE  SendableInv'
<1>1. PICK sent : Sendable(sent) /\
        Sent' = Append(Append(sent, Asks(turn, calls)), Brings(turn, next))
  BY ResultIsSent DEF Respond
<1>2. turn \in Nat /\ next \in Nat /\ next >= 1 /\ calls \in Nat /\ next <= calls
  BY AgentAssumption DEF TypeOK, LoopOK
<1>3. CASE next < calls
  <2>1. /\ pc' = "dispatch" /\ next' = next + 1 /\ turn' = turn /\ calls' = calls
        /\ next' # 1 /\ next' - 1 = next
    BY <1>2, <1>3 DEF Respond
  <2>2. Sent' = Append(Append(sent, Asks(turn', calls')), Brings(turn', next' - 1))
    BY <1>1, <2>1
  <2> QED
    BY <1>1, <2>1, <2>2 DEF SendableInv
<1>4. CASE ~(next < calls)
  <2>1. pc' \in {"llm", "exhausted"} /\ next = calls /\ calls > 0
    BY <1>2, <1>4 DEF Respond
  <2>2. Sendable(Sent')
    BY <1>1, <1>2, <2>1, ServedIsSendable
  <2>3. pc' \notin Active
    BY <2>1 DEF Active, Committing
  <2> QED
    BY <2>2, <2>3 DEF SendableInv
<1>5. QED
  BY <1>3, <1>4

\* Every step keeps what Anthropic would be sent in order.
LEMMA SendableStep ==
  TypeOK /\ LoopOK /\ HistoryInv /\ SendableInv /\ [Next]_vars => SendableInv'
<1> SUFFICES ASSUME TypeOK, LoopOK, HistoryInv, SendableInv, [Next]_vars PROVE SendableInv'
  OBVIOUS
<1>1. CASE LlmRequestsTools
  <2>1. PICK n \in 1..MaxCalls :
          calls' = n /\ history' = Append(history, AssistantTurn(turn, n))
    BY <1>1 DEF LlmRequestsTools
  <2>2. pc = "llm" /\ pc' = "dispatch" /\ next' = 1 /\ turn' = turn
    BY <1>1 DEF LlmRequestsTools
  <2>3. Sent' = Append(Sent, Asks(turn', calls'))
    BY <2>1, <2>2, AskingIsSent
  <2>4. Sendable(Sent)
    BY <2>2 DEF SendableInv
  <2> QED
    BY <2>2, <2>3, <2>4 DEF SendableInv
<1>2. CASE pc' \in Ended
  BY <1>2 DEF SendableInv, Active, Committing, Ended
<1>3. CASE \E outcome \in Outcomes : pc \in Active /\ Respond(outcome)
  BY <1>3, RespondKeepsSendable
<1>4. CASE /\ pc' \in Active => pc \in Active
           /\ pc' = "llm" => pc = "llm"
           /\ UNCHANGED <<turn, calls, next, history>>
  <2>1. Sent' = Sent
    BY <1>4 DEF Sent
  <2> QED
    BY <1>4, <2>1 DEF SendableInv
<1> QED
  BY <1>1, <1>2, <1>3, <1>4
  DEF Next, LlmAnswers, LlmFails, ArgumentsUnparsable, UnknownTool, ToolFails,
      SearchFinds, SearchHitsDatabaseError, InferenceUnlogged, InferenceAddsLog,
      WriteMemoryAddsRows, CommitSucceeds, CommitFails, Abort, Finished, End,
      RespondOnly, Active, Committing, Ended, Outcomes, vars

\* Whenever the model is called, Anthropic could be sent the conversation.
THEOREM AnthropicIsReady == Spec => []AnthropicCanTakeOver
<1>1. Init => HistoryInv
  BY DEF Init, HistoryInv, Complete, Active, Committing
<1>2. Init => SendableInv
  BY FirstIsSendable DEF Init, SendableInv, Active, Committing
<1>3. SendableInv => AnthropicCanTakeOver
  BY DEF SendableInv, Sendable, Sent, AnthropicCanTakeOver
<1>4. QED
  BY <1>1, <1>2, <1>3, HistoryStep, SendableStep, TypeCorrect, PTL DEF Spec
==============================================================================
