----------------------------- MODULE LLMReplies -----------------------------
(***************************************************************************)
(* app/infra/llm.py: the tool calls of a reply, as the three ways it may   *)
(* arrive give them to the agent: whole from OpenAI, in deltas from        *)
(* OpenAI's stream, and in content blocks from Anthropic.  A call is the   *)
(* sequence of the pieces of its id, name and arguments.                   *)
(***************************************************************************)
EXTENDS Integers, Sequences, FiniteSets

CONSTANTS
  Pieces,    \* of calls
  Replies,   \* the calls of some replies
  Indexes    \* of the calls of a stream; they need not be contiguous

ASSUME RepliesAssumption ==
  /\ Indexes \in Seq(Nat)
  /\ \A a, b \in 1..Len(Indexes) : a < b => Indexes[a] < Indexes[b]
  /\ \A calls \in Replies :
       calls \in Seq(Seq(Pieces) \ {<<>>}) /\ Len(calls) <= Len(Indexes)

\* A delta extends the entry of its index, wherever the others stand.
Entries(deltas) ==
  LET tcs[k \in 0..Len(deltas)] ==
        IF k = 0 THEN [i \in {} |-> <<>>]
        ELSE [i \in DOMAIN tcs[k - 1] \cup {deltas[k].index} |->
                IF i # deltas[k].index THEN tcs[k - 1][i]
                ELSE Append(IF i \in DOMAIN tcs[k - 1] THEN tcs[k - 1][i] ELSE <<>>,
                            deltas[k].piece)]
  IN  tcs[Len(deltas)]

\* Mutant of Assemble: calls are listed in the order their first deltas came.
Assemble_ByArrival(deltas) ==
  LET tcs == Entries(deltas)
      first(i) == CHOOSE k \in 1..Len(deltas) :
                    /\ deltas[k].index = i
                    /\ \A l \in 1..(k - 1) : deltas[l].index # i
      listed(n) == CHOOSE i \in DOMAIN tcs :
                     Cardinality({j \in DOMAIN tcs : first(j) < first(i)}) = n - 1
  IN  [n \in 1..Cardinality(DOMAIN tcs) |-> tcs[listed(n)]]

\* The entries are listed by index, the n-th having n - 1 before it.
Assemble(deltas) ==
  LET tcs == Entries(deltas)
      listed(n) == CHOOSE i \in DOMAIN tcs : Cardinality({j \in DOMAIN tcs : j < i}) = n - 1
  IN  [n \in 1..Cardinality(DOMAIN tcs) |-> tcs[listed(n)]]

\* _anthropic_chat collects the tool_use blocks between blocks of text.
BlockCalls(blocks) ==
  LET calls[k \in 0..Len(blocks)] ==
        IF k = 0 THEN <<>>
        ELSE IF blocks[k].type = "tool_use" THEN Append(calls[k - 1], blocks[k].call)
        ELSE calls[k - 1]
  IN  calls[Len(blocks)]

-----------------------------------------------------------------------------
\* How many of the first k elements of s are x.
Count(s, x, k) == Cardinality({j \in 1..k : s[j] = x})

\* Every way to cut calls into deltas: each call's pieces in order, those of
\* different calls in any order, each with the index of its call.
Deliveries(calls, indexes) ==
  LET total == Cardinality(UNION {{c} \X (1..Len(calls[c])) : c \in 1..Len(calls)}) IN
  {[k \in 1..total |-> [index |-> indexes[owner[k]],
                        piece |-> calls[owner[k]][Count(owner, owner[k], k)]]] :
     owner \in {o \in [1..total -> 1..Len(calls)] :
                 \A c \in 1..Len(calls) : Count(o, c, total) = Len(calls[c])}}

\* Every way to put blocks of text between calls, n blocks in all.
Blocks(calls, n) ==
  {[k \in 1..n |-> IF kind[k] = "text" THEN [type |-> "text"]
                   ELSE [type |-> "tool_use", call |-> calls[Count(kind, "tool_use", k)]]] :
     kind \in {t \in [1..n -> {"text", "tool_use"}] : Count(t, "tool_use", n) = Len(calls)}}

\* However a reply arrives, the agent is given the same calls in the same
\* order, each put together from its own pieces: the interleaving of deltas
\* and of blocks leaves no trace (llm.py:181-184, 239-247, 323-359).
CallsAreAssembled ==
  \A calls \in Replies :
    /\ \A deltas \in Deliveries(calls, Indexes) : Assemble(deltas) = calls
    /\ \A n \in 0..(2 * Len(calls) + 1) : \A blocks \in Blocks(calls, n) : BlockCalls(blocks) = calls
=============================================================================
