-------------------------- MODULE AnthropicMessages --------------------------
(***************************************************************************)
(* What Anthropic is sent when OpenAI fails in the middle of a request:    *)
(* the history of AgentLoop, converted by _to_anthropic_messages of        *)
(* app/infra/llm.py.  A converted message keeps its role, the tool calls   *)
(* it makes and the tool results it brings, in order; texts are left out.  *)
(***************************************************************************)
EXTENDS AgentLoop

Plain(role) == [role |-> role, call |-> NoId, calls |-> 0, result |-> "none"]

\* The system prompt and what the caller passes, which has no tool calls.
Prompt == <<Plain("system"), Plain("user")>>

Converted(role, uses, results) == [role |-> role, uses |-> uses, results |-> results]

Uses(m) == [k \in 1..m.calls |-> <<m.call[1], k>>]

\* Mutant of Extended: each tool result becomes a message of its own.
Extended_OneByOne(sent, m, merged) ==
  IF m.role = "system" THEN sent
  ELSE Append(sent,
         IF m.role = "assistant" THEN Converted("assistant", Uses(m), <<>>)
         ELSE Converted("user", <<>>, IF m.role = "tool" THEN <<m.call>> ELSE <<>>))

\* What has been converted, and one message more.  The system prompt goes
\* elsewhere; a tool result that follows another one is merged into the same
\* message of the user.
Extended(sent, m, merged) ==
  IF m.role = "system" THEN sent
  ELSE IF merged
  THEN [sent EXCEPT ![Len(sent)] =
          Converted("user", <<>>, Append(sent[Len(sent)].results, m.call))]
  ELSE Append(sent,
         IF m.role = "assistant" THEN Converted("assistant", Uses(m), <<>>)
         ELSE Converted("user", <<>>, IF m.role = "tool" THEN <<m.call>> ELSE <<>>))

IsResult(msgs, i) == i \in 1..Len(msgs) /\ msgs[i].role = "tool"

ToAnthropic(msgs) ==
  LET upTo[i \in 0..Len(msgs)] ==
        IF i = 0 THEN <<>>
        ELSE Extended(upTo[i - 1], msgs[i], IsResult(msgs, i) /\ IsResult(msgs, i - 1))
  IN  upTo[Len(msgs)]

\* What the Messages API accepts (llm.py:58-63).
WellFormed(sent) ==
  /\ sent[1].role = "user"
  /\ \A i \in 1..Len(sent) :
       /\ sent[i].uses # <<>> => i < Len(sent) /\ sent[i + 1].results = sent[i].uses
       /\ sent[i].results # <<>> => i > 1 /\ sent[i - 1].uses # <<>>

\* Whenever the model is called, whatever tools have failed before, Anthropic
\* could take over: the conversation starts with the user, the message after
\* one with tool calls brings exactly their results, in their order, and no
\* other message brings any (llm.py:58-63).
AnthropicCanTakeOver ==
  pc = "llm" => WellFormed(ToAnthropic(Prompt \o history))
==============================================================================
