----------------------------- MODULE ChatService -----------------------------
(***************************************************************************)
(* Concurrent chat turns over the conversations kept in Redis:             *)
(* app/services/chat.py (signed-in users), the two widget endpoints of     *)
(* app/routes/widget.py (visitors), app/services/memory.py and             *)
(* app/infra/redis.py.                                                     *)
(*                                                                         *)
(* A turn reads the whole stored conversation, lets the agent answer it    *)
(* and writes the whole conversation back.  Nothing locks a conversation   *)
(* in between: that turns of one conversation do not overlap is left to    *)
(* the clients.  What the agent does inside a turn is AgentContract: it    *)
(* answers or fails, and may leave long-term memories on the way.          *)
(*                                                                         *)
(* The Streamlit page (60 s timeout, 1_Chat.py) and a visitor's browser    *)
(* may stop waiting while the server goes on; ClientGivesUp is that.       *)
(***************************************************************************)
EXTENDS Integers, Sequences, FiniteSets

CONSTANTS
  Requests,      \* bound: every request that is ever sent
  ChatKeys,      \* conv:<user>:<conversation>
  WidgetKeys,    \* widget:<widget>:<session>
  Users,
  OwnerOf,       \* the user in a chat key
  Recall,        \* stands for the author of a recall pair
  RecallLimit    \* _RECALL_LIMIT

ASSUME ChatAssumption ==
  /\ ChatKeys \cap WidgetKeys = {}
  /\ OwnerOf \in [ChatKeys -> Users]
  /\ Recall \notin Requests
  /\ RecallLimit \in Nat

Keys == ChatKeys \cup WidgetKeys
Unsent == [kind |-> "unsent"]

VARIABLES
  sent,      \* kind and key of each request
  pc,        \* what the server does for it
  local,     \* its copy of the conversation
  client,    \* what its client knows of it
  store,     \* the conversations in Redis; <<>> where the key is absent
  memories,  \* committed memory_entries
  saved      \* turns saved to each key since it last expired

vars == <<sent, pc, local, client, store, memories, saved>>

\* A message of a stored conversation.  "seen" records the turns that stood
\* before a reply when the model wrote it; "past" the memories a recall pair
\* quotes.
Said(role, of, seen, past) == [role |-> role, of |-> of, seen |-> seen, past |-> past]

UserMessage(r) == Said("user", r, <<>>, {})
RecallPair(past) == <<Said("user", Recall, <<>>, past), Said("assistant", Recall, <<>>, {})>>

IsReply(m) == m.role = "assistant" /\ m.of # Recall

\* The turns of a conversation: the requests it has a reply to, in order.
Turns(h) ==
  LET upTo[i \in 0..Len(h)] ==
        IF i = 0 THEN <<>>
        ELSE IF IsReply(h[i]) THEN Append(upTo[i - 1], h[i].of) ELSE upTo[i - 1]
  IN  upTo[Len(h)]

TurnSet(h) == {h[i].of : i \in {j \in 1..Len(h) : IsReply(h[j])}}

Reply(r, h) == Said("assistant", r, Turns(h), {})

Memory(k, r) == [key |-> k, request |-> r]
Memories == [key : ChatKeys, request : Requests]

Serving == {"load", "recall", "agent", "save"}
InFlight(k) == {r \in Requests : pc[r] \in Serving /\ sent[r].key = k}
Waiting(k) == {r \in Requests : client[r] = "waiting" /\ sent[r].key = k}

-----------------------------------------------------------------------------
Init ==
  /\ sent = [r \in Requests |-> Unsent]
  /\ pc = [r \in Requests |-> "unsent"]
  /\ local = [r \in Requests |-> <<>>]
  /\ client = [r \in Requests |-> "idle"]
  /\ store = [k \in Keys |-> <<>>]
  /\ memories = {}
  /\ saved = [k \in Keys |-> {}]

\* One page waits for one answer at a time: the chat page blocks, the widget
\* refuses to send while it is loading.
Send(r, k) ==
  /\ pc[r] = "unsent"
  /\ Waiting(k) = {}
  /\ \E kind \in IF k \in ChatKeys THEN {"chat"} ELSE {"widget", "stream"} :
       sent' = [sent EXCEPT ![r] = [kind |-> kind, key |-> k]]
  /\ pc' = [pc EXCEPT ![r] = "load"]
  /\ client' = [client EXCEPT ![r] = "waiting"]
  /\ UNCHANGED <<local, store, memories, saved>>

\* The widget endpoints add the message at once; chat.handle recalls first.
LoadHistory(r) ==
  LET h == store[sent[r].key] IN
  /\ pc[r] = "load"
  /\ IF sent[r].kind = "chat"
     THEN /\ local' = [local EXCEPT ![r] = h]
          /\ pc' = [pc EXCEPT ![r] = "recall"]
     ELSE /\ local' = [local EXCEPT ![r] = Append(h, UserMessage(r))]
          /\ pc' = [pc EXCEPT ![r] = "agent"]
  /\ UNCHANGED <<sent, client, store, memories, saved>>

\* Mutant of Recallable: the current conversation is not excluded.
Recallable_AnyConversation(k) == {m \in memories : OwnerOf[m.key] = OwnerOf[k]}

\* Memories of the same user from other conversations.
Recallable(k) == {m \in memories : OwnerOf[m.key] = OwnerOf[k] /\ m.key # k}

\* search_similar returns at most RecallLimit of them.  The index of the
\* embeddings is approximate, and the conditions choose among the rows it
\* visits: fewer may come, or none.
Nearest(k) == {past \in SUBSET Recallable(k) : Cardinality(past) <= RecallLimit}

\* Mutant of RecallMemories: the recall pair goes between the history and the
\* new message.
RecallMemories_InTheMiddle(r) ==
  /\ pc[r] = "recall"
  /\ \E past \in Nearest(sent[r].key) :
       local' = [local EXCEPT ![r] =
         Append(@ \o IF past = {} THEN <<>> ELSE RecallPair(past), UserMessage(r))]
  /\ pc' = [pc EXCEPT ![r] = "agent"]
  /\ UNCHANGED <<sent, client, store, memories, saved>>

RecallMemories(r) ==
  /\ pc[r] = "recall"
  /\ \E past \in Nearest(sent[r].key) :
       local' = [local EXCEPT ![r] =
         Append((IF past = {} THEN <<>> ELSE RecallPair(past)) \o @, UserMessage(r))]
  /\ pc' = [pc EXCEPT ![r] = "agent"]
  /\ UNCHANGED <<sent, client, store, memories, saved>>

\* The agent of a signed-in user writes a memory, with its audit entry.
\* Bound: one per request.
AgentRemembers(r) ==
  LET m == Memory(sent[r].key, r) IN
  /\ pc[r] = "agent"
  /\ sent[r].kind = "chat"
  /\ m \notin memories
  /\ memories' = memories \cup {m}
  /\ UNCHANGED <<sent, pc, local, client, store, saved>>

\* How the end of a request reaches a client that still waits.
Tell(r, outcomes) ==
  IF client[r] = "waiting"
  THEN \E o \in outcomes : client' = [client EXCEPT ![r] = o]
  ELSE UNCHANGED client

\* Mutant of AgentAnswers: the answer goes out before the turn is saved.
AgentAnswers_RespondsEarly(r) ==
  /\ pc[r] = "agent"
  /\ local' = [local EXCEPT ![r] = Append(@, Reply(r, @))]
  /\ Tell(r, {"answered", "failed"})
  /\ pc' = [pc EXCEPT ![r] = "save"]
  /\ UNCHANGED <<sent, store, memories, saved>>

AgentAnswers(r) ==
  /\ pc[r] = "agent"
  /\ local' = [local EXCEPT ![r] = Append(@, Reply(r, @))]
  /\ pc' = [pc EXCEPT ![r] = "save"]
  /\ UNCHANGED <<sent, client, store, memories, saved>>

\* The request is over and its copy is gone.
End(r, how) ==
  /\ pc' = [pc EXCEPT ![r] = how]
  /\ local' = [local EXCEPT ![r] = <<>>]

Write(r) ==
  /\ store' = [store EXCEPT ![sent[r].key] = local[r]]
  /\ saved' = [saved EXCEPT ![sent[r].key] = @ \cup {r}]

\* Mutant of SaveHistory: append the turn to what is stored now.
SaveHistory_Merges(r) ==
  LET k == sent[r].key
      turn == SubSeq(local[r], Len(local[r]) - 1, Len(local[r])) IN
  /\ pc[r] = "save"
  /\ store' = [store EXCEPT ![k] = @ \o turn]
  /\ saved' = [saved EXCEPT ![k] = @ \cup {r}]
  /\ Tell(r, {"answered", "failed"})
  /\ End(r, "done")
  /\ UNCHANGED <<sent, memories>>

\* Mutant of SaveHistory: the save is forgotten.
SaveHistory_Skipped(r) ==
  /\ pc[r] = "save"
  /\ Tell(r, {"answered", "failed"})
  /\ saved' = [saved EXCEPT ![sent[r].key] = @ \cup {r}]
  /\ End(r, "done")
  /\ UNCHANGED <<sent, memories, store>>

\* SETEX replaces whatever the key holds; then the answer goes out.  It may be
\* lost on the way.
SaveHistory(r) ==
  /\ pc[r] = "save"
  /\ Write(r)
  /\ Tell(r, {"answered", "failed"})
  /\ End(r, "done")
  /\ UNCHANGED <<sent, memories>>

\* The widget does not exist, Redis, the embedder or the model fails, the
\* process stops, or a stream is cancelled because its client is gone.  A
\* SETEX that was under way may have reached Redis.
RequestFails(r) ==
  /\ pc[r] \in Serving
  /\ \/ UNCHANGED <<store, saved>>
     \/ pc[r] = "save" /\ Write(r)
  /\ Tell(r, {"failed"})
  /\ End(r, "failed")
  /\ UNCHANGED <<sent, memories>>

-----------------------------------------------------------------------------
\* The client's timeout passes, its page is reloaded or its connection breaks;
\* the request goes on without it.
ClientGivesUp(r) ==
  /\ client[r] = "waiting"
  /\ client' = [client EXCEPT ![r] = "gave_up"]
  /\ UNCHANGED <<sent, pc, local, store, memories, saved>>

\* The TTL of a key runs out, 2 h or 30 min after the last save.
Expire(k) ==
  /\ store[k] # <<>>
  /\ store' = [store EXCEPT ![k] = <<>>]
  /\ saved' = [saved EXCEPT ![k] = {}]
  /\ UNCHANGED <<sent, pc, local, client, memories>>

\* DELETE /memory/{id}.  A conversation that already quotes it keeps the quote.
DeleteMemory(m) ==
  /\ m \in memories
  /\ memories' = memories \ {m}
  /\ UNCHANGED <<sent, pc, local, client, store, saved>>

\* Nothing more to send or to serve.
Finished ==
  /\ \A r \in Requests : pc[r] \in {"done", "failed"}
  /\ UNCHANGED vars

Serve(r) ==
  \/ LoadHistory(r)
  \/ RecallMemories(r)
  \/ AgentAnswers(r)
  \/ SaveHistory(r)
  \/ RequestFails(r)

PatientNext ==
  \/ \E r \in Requests : \/ \E k \in Keys : Send(r, k)
                         \/ Serve(r)
                         \/ AgentRemembers(r)
  \/ \E k \in Keys : Expire(k)
  \/ \E m \in memories : DeleteMemory(m)
  \/ Finished

Next == PatientNext \/ \E r \in Requests : ClientGivesUp(r)

\* Every await of a request ends; nothing forces a client to send, a key to
\* expire or the agent to remember.
Fairness == \A r \in Requests : WF_vars(Serve(r))

Spec == Init /\ [][Next]_vars /\ Fairness

\* Clients that always wait for the answer.
PatientSpec == Init /\ [][PatientNext]_vars /\ Fairness

-----------------------------------------------------------------------------
Message(h) == \A i \in 1..Len(h) :
  /\ DOMAIN h[i] = {"role", "of", "seen", "past"}
  /\ h[i].role \in {"user", "assistant"}
  /\ h[i].of \in Requests \cup {Recall}
  /\ h[i].seen \in Seq(Requests)
  /\ h[i].past \subseteq Memories

TypeOK ==
  /\ \A r \in Requests : \/ sent[r] = Unsent
                         \/ sent[r] \in [kind : {"chat"}, key : ChatKeys]
                         \/ sent[r] \in [kind : {"widget", "stream"}, key : WidgetKeys]
  /\ pc \in [Requests -> {"unsent", "done", "failed"} \cup Serving]
  /\ client \in [Requests -> {"idle", "waiting", "answered", "failed", "gave_up"}]
  /\ DOMAIN local = Requests /\ \A r \in Requests : Message(local[r])
  /\ DOMAIN store = Keys /\ \A k \in Keys : Message(store[k])
  /\ memories \subseteq Memories
  /\ saved \in [Keys -> SUBSET Requests]

\* The n-th pair of messages of a conversation.
Pair(h, n) == <<h[2 * n - 1], h[2 * n]>>
Pairs(h) == Len(h) \div 2

IsRecallPair(p) == \E past \in SUBSET Memories : past # {} /\ p = RecallPair(past)

IsTurn(p, k) ==
  /\ p[1] = UserMessage(p[2].of)
  /\ IsReply(p[2])
  /\ sent[p[2].of].key = k

\* What the model is sent as a conversation is one: a stored conversation is a
\* sequence of recall pairs, no more of them than turns, followed by turns,
\* each a message of this conversation and the reply to it, none twice.  It
\* must hold whatever turns overlap and whenever they fail.
WellPaired ==
  \A k \in Keys : LET h == store[k] IN
    /\ Len(h) % 2 = 0
    /\ \E n \in 0..Pairs(h) :
         /\ \A i \in 1..n : k \in ChatKeys /\ IsRecallPair(Pair(h, i))
         /\ \A i \in (n + 1)..Pairs(h) : IsTurn(Pair(h, i), k)
         /\ 2 * n <= Pairs(h)
         /\ Cardinality(TurnSet(h)) = Pairs(h) - n

\* Every reply on record was written by a model that saw exactly the turns on
\* record before it: overlapping turns may replace each other as a whole, but
\* never mix (this is why save_history overwrites instead of appending).
RepliesKeepTheirContext ==
  \A k \in Keys : \A i \in 1..Len(store[k]) : LET h == store[k] IN
    IsReply(h[i]) => h[i].seen = Turns(SubSeq(h, 1, i - 1))

\* A conversation quotes only memories of its own user, written in another
\* conversation, even after turns of several conversations have interleaved
\* with writes and deletions of memories.
RecallIsForeignAndOwn ==
  \A k \in Keys : \A i \in 1..Len(store[k]) : \A m \in store[k][i].past :
    /\ k \in ChatKeys
    /\ OwnerOf[m.key] = OwnerOf[k]
    /\ m.key # k

\* Redis holds the full conversation history (services/memory.py:3): every
\* turn saved since the conversation last expired is in it.
FullHistory == \A k \in Keys : saved[k] \subseteq TurnSet(store[k])

\* Every request that is sent is served to an end.
RequestsEnd ==
  \A r \in Requests : (pc[r] \in Serving) ~> (pc[r] \in {"done", "failed"})

\* With patient clients the read, the agent and the write of a turn are as good
\* as one step.  The log of a conversation is the copy held by the turn in
\* flight, if there is one: an expiry that happens meanwhile is undone by the
\* save, so it takes effect only when the turn fails.
HeldCopy(k) == {r \in InFlight(k) : pc[r] # "load"}

\* The copy of a turn without its own reply, which comes last and counts once
\* it is saved.
Unanswered(r) ==
  IF pc[r] = "save" THEN SubSeq(local[r], 1, Len(local[r]) - 1) ELSE local[r]

Log == INSTANCE ConversationLog WITH
  log   <- [k \in Keys |->
              Turns(IF HeldCopy(k) = {} THEN store[k]
                    ELSE Unanswered(CHOOSE r \in HeldCopy(k) : TRUE))],
  acked <- {r \in Requests : client[r] = "answered"}

ImplementsLog == Log!Spec
==============================================================================
