-------------------------- MODULE ChatServiceProofs --------------------------
(***************************************************************************)
(* Proofs about ChatService: whatever turns overlap, fail or outlive their *)
(* clients, a stored conversation is a sequence of recall pairs and turns, *)
(* and quotes only what it may.                                            *)
(*                                                                         *)
(* The argument: "the stored value is a dialogue of requests that are      *)
(* over" is preserved by every step, because a turn copies such a value,   *)
(* extends its copy by whole pairs of its own, and replaces the stored     *)
(* value at the moment it is over itself.  That other turns write to the   *)
(* key in between does not matter, since nothing is ever merged.  In the   *)
(* same way "every reply saw the turns that stand before it" is preserved. *)
(*                                                                         *)
(* With clients that wait for their answers at most one turn of a          *)
(* conversation is under way.  Its copy has all that was saved, and it is  *)
(* what the refinement of ConversationLog takes for the log until the turn *)
(* ends: then a save appends the turn, and a failure goes back to what is  *)
(* stored, which is the same or, if the key expired meanwhile, nothing.    *)
(*                                                                         *)
(* What Turns computes is proved by induction on the length of the         *)
(* conversation: a set of numbers that has 0 and with every number its     *)
(* successor has all of them (NatSetInduction).                            *)
(***************************************************************************)
EXTENDS ChatService, FiniteSetTheorems, SequenceTheorems, WellFoundedInduction,
        TLAPS

\* A sequence, of whatever.
IsSequence(h) == \E S : h \in Seq(S)

\* What appending one element does to a sequence.
LEMMA Appended ==
  ASSUME NEW h, IsSequence(h), NEW x
  PROVE  /\ IsSequence(Append(h, x))
         /\ Len(h) \in Nat
         /\ Len(Append(h, x)) = Len(h) + 1
         /\ \A i \in 1..Len(h) : Append(h, x)[i] = h[i]
         /\ Append(h, x)[Len(h) + 1] = x
<1>1. PICK S : h \in Seq(S)
  BY DEF IsSequence
<1>2. h \in Seq(S \cup {x})
  BY <1>1
<1>3. x \in S \cup {x}
  OBVIOUS
<1>4. Append(h, x) \in Seq(S \cup {x})
  BY <1>2, <1>3, AppendProperties
<1>5. QED
  BY <1>2, <1>3, <1>4, AppendProperties DEF IsSequence

\* What putting a pair in front does to a sequence.
LEMMA Prepended ==
  ASSUME NEW h, IsSequence(h), NEW a, NEW b
  PROVE  /\ IsSequence(<<a, b>> \o h)
         /\ Len(h) \in Nat
         /\ Len(<<a, b>> \o h) = Len(h) + 2
         /\ (<<a, b>> \o h)[1] = a /\ (<<a, b>> \o h)[2] = b
         /\ \A i \in 1..Len(h) : (<<a, b>> \o h)[i + 2] = h[i]
<1>1. PICK S : h \in Seq(S)
  BY DEF IsSequence
<1> DEFINE T == S \cup {a, b}
<1>2. h \in Seq(T)
  BY <1>1
<1>3. <<a, b>> \in Seq(T) /\ Len(<<a, b>>) = 2
  OBVIOUS
<1> HIDE DEF T
<1>4. /\ <<a, b>> \o h \in Seq(T)
      /\ Len(<<a, b>> \o h) = Len(h) + 2
      /\ \A i \in 1..(Len(h) + 2) : (<<a, b>> \o h)[i] = IF i <= 2 THEN <<a, b>>[i] ELSE h[i - 2]
  BY <1>2, <1>3, ConcatProperties
<1>5. QED
  BY <1>2, <1>4 DEF IsSequence
-----------------------------------------------------------------------------
\* The dialogue of a key: n recall pairs, followed by turns up to m pairs in
\* all, each by a request of R and none twice; "extra" recall pairs may still
\* wait for their turn.  No state is involved.
PairsOK(h, k, R, n, m) ==
  /\ \A i \in 1..n : k \in ChatKeys /\ IsRecallPair(Pair(h, i))
  /\ \A i \in (n + 1)..m : /\ h[2 * i - 1] = UserMessage(h[2 * i].of)
                           /\ IsReply(h[2 * i])
                           /\ h[2 * i].of \in R
  /\ \A i, j \in (n + 1)..m : h[2 * i].of = h[2 * j].of => i = j

QuotesOK(h, k) == \A i \in 1..Len(h) : \A m \in h[i].past :
  k \in ChatKeys /\ OwnerOf[m.key] = OwnerOf[k] /\ m.key # k

Dialogue(h, k, R, extra) ==
  /\ IsSequence(h)
  /\ QuotesOK(h, k)
  /\ \E m \in Nat : \E n \in 0..m :
       Len(h) = 2 * m /\ 2 * n <= m + extra /\ PairsOK(h, k, R, n, m)

\* A dialogue with one more message of the user at its end.
Question(h, k, R, r) ==
  \E g : Dialogue(g, k, R, 1) /\ h = Append(g, UserMessage(r))

\* A new conversation, and one that has expired.
LEMMA EmptyDialogue ==
  ASSUME NEW k, NEW R
  PROVE  Dialogue(<<>>, k, R, 0)
<1>1. IsSequence(<<>>) /\ Len(<<>>) = 0
  BY DEF IsSequence
<1>2. QuotesOK(<<>>, k) /\ PairsOK(<<>>, k, R, 0, 0)
  BY DEF QuotesOK, PairsOK
<1>3. QED
  BY <1>1, <1>2 DEF Dialogue

\* A dialogue remains one when more requests are over.
LEMMA DialogueGrows ==
  ASSUME NEW h, NEW k, NEW R, NEW R2, R \subseteq R2,
         NEW extra \in {0, 1}, NEW extra2 \in {0, 1}, extra <= extra2,
         Dialogue(h, k, R, extra)
  PROVE  Dialogue(h, k, R2, extra2)
<1>0. PICK m \in Nat : \E n \in 0..m :
        Len(h) = 2 * m /\ 2 * n <= m + extra /\ PairsOK(h, k, R, n, m)
  BY DEF Dialogue
<1>1. PICK n \in 0..m :
        Len(h) = 2 * m /\ 2 * n <= m + extra /\ PairsOK(h, k, R, n, m)
  BY <1>0
<1>2. PairsOK(h, k, R2, n, m)
  BY <1>1 DEF PairsOK
<1>3. 2 * n <= m + extra2
  BY <1>1
<1>4. QED
  BY <1>1, <1>2, <1>3 DEF Dialogue

\* chat.handle puts a recall pair in front.
LEMMA DialogueRecalls ==
  ASSUME NEW h, NEW k \in ChatKeys, NEW R, Dialogue(h, k, R, 0),
         NEW past \in SUBSET Memories, past # {},
         \A m \in past : OwnerOf[m.key] = OwnerOf[k] /\ m.key # k
  PROVE  Dialogue(RecallPair(past) \o h, k, R, 1)
<1> DEFINE a == Said("user", Recall, <<>>, past)
           b == Said("assistant", Recall, <<>>, {})
           g == <<a, b>> \o h
<1>0. PICK m \in Nat : \E n \in 0..m :
        Len(h) = 2 * m /\ 2 * n <= m /\ PairsOK(h, k, R, n, m)
  BY DEF Dialogue
<1>1. PICK n \in 0..m :
        Len(h) = 2 * m /\ 2 * n <= m /\ PairsOK(h, k, R, n, m)
  BY <1>0
<1>2. a.past = past /\ b.past = {} /\ RecallPair(past) = <<a, b>>
  BY DEF Said, RecallPair
<1> HIDE DEF a, b
<1>3. /\ IsSequence(g)
      /\ Len(g) = Len(h) + 2
      /\ g[1] = a /\ g[2] = b
      /\ \A i \in 1..Len(h) : g[i + 2] = h[i]
  <2>1. IsSequence(h)
    BY DEF Dialogue
  <2>2. QED
    BY <2>1, Prepended
<1> HIDE DEF g
<1>4. QuotesOK(g, k)
  <2> SUFFICES ASSUME NEW i \in 1..Len(g), NEW q \in g[i].past
               PROVE  OwnerOf[q.key] = OwnerOf[k] /\ q.key # k
    BY DEF QuotesOK
  <2>1. CASE i \in {1, 2}
    BY <1>3, <1>2, <2>1
  <2>2. CASE i \notin {1, 2}
    <3>1. i - 2 \in 1..Len(h) /\ g[i] = h[i - 2]
      <4>1. i - 2 \in 1..Len(h)
        BY <1>1, <1>3, <2>2
      <4>2. g[(i - 2) + 2] = h[i - 2]
        BY <1>3, <4>1
      <4>3. QED
        BY <4>1, <4>2
    <3>2. QED
      BY <3>1 DEF Dialogue, QuotesOK
  <2>3. QED
    BY <2>1, <2>2
<1>5. \A i \in 2..(m + 1) : g[2 * i - 1] = h[2 * (i - 1) - 1] /\ g[2 * i] = h[2 * (i - 1)]
  <2> TAKE i \in 2..(m + 1)
  <2>1. 2 * (i - 1) - 1 \in 1..Len(h) /\ 2 * (i - 1) \in 1..Len(h)
    BY <1>1
  <2>2. (2 * (i - 1) - 1) + 2 = 2 * i - 1 /\ (2 * (i - 1)) + 2 = 2 * i
    OBVIOUS
  <2>3. QED
    BY <1>3, <2>1, <2>2
<1>6. PairsOK(g, k, R, n + 1, m + 1)
  <2>1. ASSUME NEW i \in 1..(n + 1) PROVE IsRecallPair(Pair(g, i))
    <3>1. CASE i = 1
      <4>1. Pair(g, i) = RecallPair(past)
        BY <1>3, <1>2, <3>1 DEF Pair
      <4>2. QED
        BY <4>1 DEF IsRecallPair
    <3>2. CASE i # 1
      <4>1. i - 1 \in 1..n /\ i \in 2..(m + 1)
        BY <3>2
      <4>2. IsRecallPair(Pair(h, i - 1))
        BY <1>1, <4>1 DEF PairsOK
      <4>3. Pair(g, i) = Pair(h, i - 1)
        BY <1>5, <4>1 DEF Pair
      <4>4. QED
        BY <4>2, <4>3
    <3>3. QED
      BY <3>1, <3>2
  <2>2. ASSUME NEW i \in (n + 2)..(m + 1)
        PROVE  /\ i - 1 \in (n + 1)..m
               /\ g[2 * i - 1] = h[2 * (i - 1) - 1] /\ g[2 * i] = h[2 * (i - 1)]
    BY <1>5
  <2>3. ASSUME NEW i \in (n + 2)..(m + 1)
        PROVE  g[2 * i - 1] = UserMessage(g[2 * i].of) /\ IsReply(g[2 * i]) /\ g[2 * i].of \in R
    BY <1>1, <2>2 DEF PairsOK
  <2>4. ASSUME NEW i \in (n + 2)..(m + 1), NEW j \in (n + 2)..(m + 1),
               g[2 * i].of = g[2 * j].of
        PROVE  i = j
    <3>1. \A x, y \in (n + 1)..m : h[2 * x].of = h[2 * y].of => x = y
      BY <1>1 DEF PairsOK
    <3>2. i - 1 \in (n + 1)..m /\ g[2 * i] = h[2 * (i - 1)]
      BY <2>2
    <3>3. j - 1 \in (n + 1)..m /\ g[2 * j] = h[2 * (j - 1)]
      BY <2>2
    <3>4. h[2 * (i - 1)].of = h[2 * (j - 1)].of
      BY <2>4, <3>2, <3>3
    <3>5. i - 1 = j - 1
      BY <3>1, <3>2, <3>3, <3>4
    <3>6. QED
      BY <3>5
  <2>5. (n + 1) + 1 = n + 2
    OBVIOUS
  <2>6. QED
    BY <2>1, <2>3, <2>4, <2>5 DEF PairsOK
<1>7. m + 1 \in Nat /\ n + 1 \in 0..(m + 1) /\ Len(g) = 2 * (m + 1) /\ 2 * (n + 1) <= (m + 1) + 1
  BY <1>1, <1>3
<1>8. Dialogue(g, k, R, 1)
  BY <1>3, <1>4, <1>6, <1>7 DEF Dialogue
<1>9. QED
  BY <1>2, <1>8 DEF g

\* The agent's answer turns a question into a dialogue, with one more turn.
LEMMA DialogueAnswered ==
  ASSUME NEW h, NEW k, NEW R, NEW r, r \notin R, r # Recall,
         Question(h, k, R, r)
  PROVE  Dialogue(Append(h, Reply(r, h)), k, R \cup {r}, 0)
<1> DEFINE u == UserMessage(r)
           x == Reply(r, h)
           c == Append(h, x)
<1>1. PICK g : Dialogue(g, k, R, 1) /\ h = Append(g, u)
  BY DEF Question
<1>0. PICK m \in Nat : \E n \in 0..m :
        Len(g) = 2 * m /\ 2 * n <= m + 1 /\ PairsOK(g, k, R, n, m)
  BY <1>1 DEF Dialogue
<1>2. PICK n \in 0..m :
        Len(g) = 2 * m /\ 2 * n <= m + 1 /\ PairsOK(g, k, R, n, m)
  BY <1>0
<1>3. u.past = {} /\ x.past = {} /\ x.of = r /\ IsReply(x)
  BY DEF UserMessage, Reply, Said, IsReply
<1>4. u = UserMessage(r)
  OBVIOUS
<1> HIDE DEF u, x
<1>5. /\ IsSequence(h)
      /\ Len(h) = 2 * m + 1
      /\ \A i \in 1..(2 * m) : h[i] = g[i]
      /\ h[2 * m + 1] = u
  BY <1>1, <1>2, Appended DEF Dialogue
<1>6. /\ IsSequence(c)
      /\ Len(c) = (2 * m + 1) + 1
      /\ \A i \in 1..(2 * m + 1) : c[i] = h[i]
      /\ c[(2 * m + 1) + 1] = x
  BY <1>5, Appended
<1> HIDE DEF c
<1>7. /\ Len(c) = 2 * (m + 1)
      /\ \A i \in 1..(2 * m) : c[i] = g[i]
      /\ c[2 * (m + 1) - 1] = u
      /\ c[2 * (m + 1)] = x
  <2>1. (2 * m + 1) + 1 = 2 * (m + 1) /\ 2 * (m + 1) - 1 = 2 * m + 1
    OBVIOUS
  <2>2. 2 * m + 1 \in 1..(2 * m + 1) /\ 1..(2 * m) \subseteq 1..(2 * m + 1)
    OBVIOUS
  <2>3. QED
    BY <1>5, <1>6, <2>1, <2>2
<1>8. QuotesOK(c, k)
  <2> SUFFICES ASSUME NEW i \in 1..Len(c), NEW q \in c[i].past
               PROVE  k \in ChatKeys /\ OwnerOf[q.key] = OwnerOf[k] /\ q.key # k
    BY DEF QuotesOK
  <2>1. i \in 1..(2 * m) \/ i = 2 * (m + 1) - 1 \/ i = 2 * (m + 1)
    BY <1>7
  <2>2. i \in 1..(2 * m)
    BY <1>3, <1>7, <2>1
  <2>3. i \in 1..Len(g) /\ q \in g[i].past
    BY <1>2, <1>7, <2>2
  <2>4. QED
    BY <1>1, <2>3 DEF Dialogue, QuotesOK
<1>9. \A i \in 1..m : c[2 * i - 1] = g[2 * i - 1] /\ c[2 * i] = g[2 * i]
  <2> TAKE i \in 1..m
  <2>1. 2 * i - 1 \in 1..(2 * m) /\ 2 * i \in 1..(2 * m)
    OBVIOUS
  <2>2. QED
    BY <1>7, <2>1
<1>10. PairsOK(c, k, R \cup {r}, n, m + 1)
  <2>1. ASSUME NEW i \in 1..n PROVE k \in ChatKeys /\ IsRecallPair(Pair(c, i))
    <3>1. i \in 1..m
      OBVIOUS
    <3>2. Pair(c, i) = Pair(g, i)
      BY <1>9, <3>1 DEF Pair
    <3>3. QED
      BY <1>2, <3>2 DEF PairsOK
  <2>2. \A i \in (n + 1)..(m + 1) : i \in (n + 1)..m \/ i = m + 1
    OBVIOUS
  <2>3. \A i \in (n + 1)..m : c[2 * i - 1] = g[2 * i - 1] /\ c[2 * i] = g[2 * i]
    BY <1>9
  <2>4. ASSUME NEW i \in (n + 1)..(m + 1)
        PROVE  /\ c[2 * i - 1] = UserMessage(c[2 * i].of)
               /\ IsReply(c[2 * i])
               /\ c[2 * i].of \in R \cup {r}
    BY <1>2, <1>3, <1>4, <1>7, <2>2, <2>3 DEF PairsOK
  <2>5. \A i \in (n + 1)..m : c[2 * i].of # r
    BY <1>2, <2>3 DEF PairsOK
  <2>6. ASSUME NEW i \in (n + 1)..(m + 1), NEW j \in (n + 1)..(m + 1),
               c[2 * i].of = c[2 * j].of
        PROVE  i = j
    <3>1. CASE i = m + 1 \/ j = m + 1
      BY <1>3, <1>7, <2>2, <2>5, <2>6, <3>1
    <3>2. CASE i \in (n + 1)..m /\ j \in (n + 1)..m
      BY <1>2, <2>3, <2>6, <3>2 DEF PairsOK
    <3>3. QED
      BY <2>2, <3>1, <3>2
  <2>7. QED
    BY <2>1, <2>4, <2>6 DEF PairsOK
<1>11. m + 1 \in Nat /\ n \in 0..(m + 1) /\ 2 * n <= (m + 1) + 0
  BY <1>2
<1>12. Dialogue(c, k, R \cup {r}, 0)
  BY <1>6, <1>7, <1>8, <1>10, <1>11 DEF Dialogue
<1>13. QED
  BY <1>12 DEF c, x
\* In a dialogue, the requests replied to are as many as its turns.
LEMMA DialogueTurns ==
  ASSUME NEW h, NEW k, NEW R, NEW m \in Nat, NEW n \in 0..m,
         Recall \notin R, Len(h) = 2 * m, PairsOK(h, k, R, n, m)
  PROVE  Cardinality(TurnSet(h)) = m - n
<1> DEFINE S == (n + 1)..m
           f == [i \in S |-> h[2 * i].of]
<1>1. \A i \in S : 2 * i \in 1..Len(h) /\ IsReply(h[2 * i])
  BY DEF PairsOK
<1>2. \A j \in 1..Len(h) : IsReply(h[j]) => \E i \in S : j = 2 * i
  <2> SUFFICES ASSUME NEW j \in 1..Len(h), IsReply(h[j])
               PROVE  \E i \in S : j = 2 * i
    OBVIOUS
  <2>1. PICK i \in 1..m : j = 2 * i \/ j = 2 * i - 1
    <3>1. CASE j % 2 = 0
      <4>1. j \div 2 \in 1..m /\ j = 2 * (j \div 2)
        BY <3>1
      <4>2. QED
        BY <4>1
    <3>2. CASE j % 2 = 1
      <4>1. (j + 1) \div 2 \in 1..m /\ j = 2 * ((j + 1) \div 2) - 1
        BY <3>2
      <4>2. QED
        BY <4>1
    <3>3. QED
      BY <3>1, <3>2
  <2>2. CASE i \in 1..n
    <3>1. PICK past : h[2 * i - 1] = Said("user", Recall, <<>>, past) /\ h[2 * i] = Said("assistant", Recall, <<>>, {})
      <4>1. PICK past : Pair(h, i) = RecallPair(past)
        BY <2>2 DEF PairsOK, IsRecallPair
      <4>2. QED
        BY <4>1 DEF Pair, RecallPair
    <3>2. h[2 * i - 1].role = "user" /\ h[2 * i].of = Recall
      BY <3>1 DEF Said
    <3>3. QED
      BY <2>1, <3>2 DEF IsReply
  <2>3. CASE i \in S
    <3>1. h[2 * i - 1] = UserMessage(h[2 * i].of)
      BY <2>3 DEF PairsOK
    <3>2. h[2 * i - 1].role = "user"
      BY <3>1 DEF UserMessage, Said
    <3>3. j = 2 * i
      BY <2>1, <3>2 DEF IsReply
    <3>4. QED
      BY <2>3, <3>3
  <2>4. QED
    BY <2>2, <2>3
<1>3. TurnSet(h) = {h[2 * i].of : i \in S}
  <2>1. ASSUME NEW x \in TurnSet(h) PROVE x \in {h[2 * i].of : i \in S}
    BY <1>2 DEF TurnSet
  <2>2. ASSUME NEW i \in S PROVE h[2 * i].of \in TurnSet(h)
    BY <1>1 DEF TurnSet
  <2>3. QED
    BY <2>1, <2>2
<1>4. f \in Surjection(S, TurnSet(h))
  BY <1>3 DEF Surjection
<1>5. f \in Injection(S, TurnSet(h))
  <2>1. \A i, j \in S : f[i] = f[j] => i = j
    BY DEF PairsOK
  <2>2. f \in [S -> TurnSet(h)]
    BY <1>4 DEF Surjection
  <2>3. QED
    BY <2>1, <2>2 DEF Injection, IsInjective
<1>6. IsFiniteSet(S) /\ Cardinality(S) = m - n
  <2>1. n + 1 \in Int /\ m \in Int
    OBVIOUS
  <2>2. IsFiniteSet(S) /\ Cardinality(S) = IF n + 1 > m THEN 0 ELSE m - (n + 1) + 1
    BY <2>1, FS_Interval
  <2>3. QED
    BY <2>2
<1> HIDE DEF S, f
<1>7. Cardinality(TurnSet(h)) = Cardinality(S)
  BY <1>4, <1>5, <1>6, FS_Surjection
<1>8. QED
  BY <1>6, <1>7

-----------------------------------------------------------------------------
\* The requests on k that are over.
Over(k) == {r \in Requests : pc[r] \in {"done", "failed"} /\ sent[r].key = k}

\* What a server knows at each step of a request.
RequestOK(r) ==
  LET k == sent[r].key IN
  /\ pc[r] \in Serving => k \in Keys /\ (sent[r].kind = "chat" => k \in ChatKeys)
  /\ pc[r] = "recall" => sent[r].kind = "chat" /\ Dialogue(local[r], k, Over(k), 0)
  /\ pc[r] = "agent" => Question(local[r], k, Over(k), r)
  /\ pc[r] = "save" => Dialogue(local[r], k, Over(k) \cup {r}, 0)

ShapeOK ==
  /\ DOMAIN sent = Requests
  /\ pc \in [Requests -> {"unsent", "done", "failed"} \cup Serving]
  /\ DOMAIN local = Requests
  /\ DOMAIN store = Keys
  /\ memories \subseteq Memories

ChatInv ==
  /\ ShapeOK
  /\ \A r \in Requests : RequestOK(r)
  /\ \A k \in Keys : Dialogue(store[k], k, Over(k), 0)

\* The invariant implies the properties.
LEMMA ChatInvProperties ==
  ASSUME ChatInv
  PROVE  WellPaired /\ RecallIsForeignAndOwn
<1>1. ASSUME NEW k \in Keys PROVE QuotesOK(store[k], k)
  BY DEF ChatInv, Dialogue
<1>2. RecallIsForeignAndOwn
  BY <1>1 DEF RecallIsForeignAndOwn, QuotesOK
<1>3. ASSUME NEW k \in Keys
      PROVE  LET h == store[k] IN
             /\ Len(h) % 2 = 0
             /\ \E n \in 0..Pairs(h) :
                  /\ \A i \in 1..n : k \in ChatKeys /\ IsRecallPair(Pair(h, i))
                  /\ \A i \in (n + 1)..Pairs(h) : IsTurn(Pair(h, i), k)
                  /\ 2 * n <= Pairs(h)
                  /\ Cardinality(TurnSet(h)) = Pairs(h) - n
  <2> DEFINE h == store[k]
  <2>1. Dialogue(h, k, Over(k), 0)
    BY DEF ChatInv
  <2>0. PICK m \in Nat : \E n \in 0..m :
          Len(h) = 2 * m /\ 2 * n <= m + 0 /\ PairsOK(h, k, Over(k), n, m)
    BY <2>1 DEF Dialogue
  <2>2. PICK n \in 0..m :
          Len(h) = 2 * m /\ 2 * n <= m + 0 /\ PairsOK(h, k, Over(k), n, m)
    BY <2>0
  <2>3. Len(h) % 2 = 0 /\ Pairs(h) = m
    BY <2>2 DEF Pairs
  <2>4. \A i \in (n + 1)..m : IsTurn(Pair(h, i), k)
    BY <2>2 DEF PairsOK, IsTurn, Pair, Over
  <2>5. Cardinality(TurnSet(h)) = m - n
    <3>1. Recall \notin Over(k)
      BY ChatAssumption DEF Over
    <3>2. QED
      BY <2>2, <3>1, DialogueTurns
  <2>6. \A i \in 1..n : k \in ChatKeys /\ IsRecallPair(Pair(h, i))
    BY <2>2 DEF PairsOK
  <2>7. QED
    BY <2>2, <2>3, <2>4, <2>5, <2>6
<1>4. WellPaired
  BY <1>3 DEF WellPaired
<1>5. QED
  BY <1>2, <1>4

-----------------------------------------------------------------------------
\* Requests that are over stay so; what the invariant says of a request or a
\* key that a step leaves alone, it says afterwards.
LEMMA Undisturbed ==
  ASSUME ChatInv, ShapeOK',
         \A r \in Requests : pc[r] # "unsent" => sent'[r] = sent[r],
         \A r \in Requests : pc[r] \in {"done", "failed"} => pc'[r] = pc[r]
  PROVE  /\ \A k : Over(k) \subseteq Over(k)'
         /\ \A r \in Requests : pc'[r] = pc[r] /\ local'[r] = local[r] => RequestOK(r)'
         /\ \A k \in Keys : store'[k] = store[k] => Dialogue(store[k], k, Over(k), 0)'
<1>1. \A k : Over(k) \subseteq Over(k)'
  BY DEF Over
<1>2. ASSUME NEW r \in Requests, pc'[r] = pc[r], local'[r] = local[r]
      PROVE  RequestOK(r)'
  <2> DEFINE k == sent[r].key
  <2>0. RequestOK(r)
    BY DEF ChatInv
  <2>1. CASE pc[r] \notin Serving
    BY <1>2, <2>1 DEF RequestOK, Serving
  <2>2. CASE pc[r] \in Serving
    <3>1. sent'[r] = sent[r] /\ Over(k) \subseteq Over(k)'
      BY <1>1, <2>2 DEF Serving
    <3>2. pc[r] = "recall" => Dialogue(local[r], k, Over(k)', 0)
      BY <2>0, <3>1, DialogueGrows DEF RequestOK
    <3>3. pc[r] = "agent" => Question(local[r], k, Over(k)', r)
      <4> HAVE pc[r] = "agent"
      <4>1. Question(local[r], k, Over(k), r)
        BY <2>0 DEF RequestOK
      <4>2. PICK g : Dialogue(g, k, Over(k), 1) /\ local[r] = Append(g, UserMessage(r))
        BY <4>1 DEF Question
      <4>3. Dialogue(g, k, Over(k)', 1)
        BY <3>1, <4>2, DialogueGrows
      <4>4. QED
        BY <4>2, <4>3 DEF Question
    <3>4. pc[r] = "save" => Dialogue(local[r], k, Over(k)' \cup {r}, 0)
      <4>1. Over(k) \cup {r} \subseteq Over(k)' \cup {r}
        BY <3>1
      <4>2. QED
        BY <2>0, <4>1, DialogueGrows DEF RequestOK
    <3>5. QED
      BY <1>2, <2>0, <2>2, <3>1, <3>2, <3>3, <3>4 DEF RequestOK
  <2>3. QED
    BY <2>1, <2>2
<1>3. ASSUME NEW k \in Keys, store'[k] = store[k]
      PROVE  Dialogue(store[k], k, Over(k), 0)'
  <2>1. Dialogue(store[k], k, Over(k), 0)
    BY DEF ChatInv
  <2>2. Dialogue(store[k], k, Over(k)', 0)
    BY <1>1, <2>1, DialogueGrows
  <2>3. QED
    BY <1>3, <2>2
<1>4. QED
  BY <1>1, <1>2, <1>3
\* A step of one request: it is enough to look at that request and at the keys
\* it writes.
LEMMA OneRequest ==
  ASSUME ChatInv, ShapeOK', NEW r \in Requests,
         pc[r] \notin {"done", "failed"},
         pc[r] # "unsent" => sent'[r] = sent[r],
         \A s \in Requests \ {r} : pc'[s] = pc[s] /\ local'[s] = local[s] /\ sent'[s] = sent[s],
         RequestOK(r)',
         \A k \in Keys : store'[k] = store[k] \/ Dialogue(store[k], k, Over(k), 0)'
  PROVE  ChatInv'
<1>1. /\ \A s \in Requests : pc[s] # "unsent" => sent'[s] = sent[s]
      /\ \A s \in Requests : pc[s] \in {"done", "failed"} => pc'[s] = pc[s]
  OBVIOUS
<1>2. \A s \in Requests : RequestOK(s)'
  BY <1>1, Undisturbed
<1>3. \A k \in Keys : Dialogue(store[k], k, Over(k), 0)'
  BY <1>1, Undisturbed
<1>4. QED
  BY <1>2, <1>3 DEF ChatInv

\* A step that serves, ends or sends no request.
LEMMA NoRequest ==
  ASSUME ChatInv, ShapeOK', UNCHANGED <<sent, pc, local>>,
         \A k \in Keys : store'[k] = store[k] \/ store'[k] = <<>>
  PROVE  ChatInv'
<1>1. \A r \in Requests : RequestOK(r)'
  BY Undisturbed
<1>2. \A k \in Keys : Dialogue(store[k], k, Over(k), 0)'
  <2> SUFFICES ASSUME NEW k \in Keys PROVE Dialogue(store'[k], k, Over(k)', 0)
    OBVIOUS
  <2>1. CASE store'[k] = store[k]
    BY <2>1, Undisturbed
  <2>2. CASE store'[k] = <<>>
    BY <2>2, EmptyDialogue
  <2>3. QED
    BY <2>1, <2>2
<1>3. QED
  BY <1>1, <1>2 DEF ChatInv

-----------------------------------------------------------------------------
\* The steps of a request keep the invariant.
LEMMA ChatSend ==
  ASSUME ChatInv, NEW r \in Requests, NEW k \in Keys, Send(r, k)
  PROVE  ChatInv'
<1>1. PICK kind \in IF k \in ChatKeys THEN {"chat"} ELSE {"widget", "stream"} :
        sent' = [sent EXCEPT ![r] = [kind |-> kind, key |-> k]]
  BY DEF Send
<1>2. /\ pc[r] = "unsent" /\ pc' = [pc EXCEPT ![r] = "load"]
      /\ UNCHANGED <<local, store, memories>>
  BY DEF Send
<1>3. ShapeOK'
  BY <1>1, <1>2 DEF ChatInv, ShapeOK, Serving
<1>4. pc'[r] = "load" /\ sent'[r] = [kind |-> kind, key |-> k]
  BY <1>1, <1>2 DEF ChatInv, ShapeOK
<1>5. RequestOK(r)'
  BY <1>1, <1>4 DEF RequestOK
<1>6. \A s \in Requests \ {r} : pc'[s] = pc[s] /\ local'[s] = local[s] /\ sent'[s] = sent[s]
  BY <1>1, <1>2 DEF ChatInv, ShapeOK
<1>7. QED
  BY <1>2, <1>3, <1>5, <1>6, OneRequest

\* The copy is what is stored.
LEMMA ChatLoad ==
  ASSUME ChatInv, NEW r \in Requests, LoadHistory(r)
  PROVE  ChatInv'
<1> DEFINE k == sent[r].key
           h == store[k]
<1>1. pc[r] = "load" /\ UNCHANGED <<sent, store, memories>>
  BY DEF LoadHistory
<1>2. k \in Keys /\ (sent[r].kind = "chat" => k \in ChatKeys)
  BY <1>1 DEF ChatInv, RequestOK, Serving
<1>3. Dialogue(h, k, Over(k), 0)
  BY <1>2 DEF ChatInv
<1> DEFINE chat == sent[r].kind = "chat"
           step == IF chat THEN "recall" ELSE "agent"
           x == IF chat THEN h ELSE Append(h, UserMessage(r))
<1>4. /\ pc' = [pc EXCEPT ![r] = step]
      /\ local' = [local EXCEPT ![r] = x]
      /\ \/ step = "recall" /\ sent[r].kind = "chat" /\ x = h
         \/ step = "agent" /\ x = Append(h, UserMessage(r))
  BY DEF LoadHistory
<1> HIDE DEF x, step
<1>5. ShapeOK'
  BY <1>1, <1>4 DEF ChatInv, ShapeOK, Serving, step
<1>6. pc'[r] = step /\ local'[r] = x /\ sent'[r] = sent[r]
  BY <1>1, <1>4 DEF ChatInv, ShapeOK
<1>7. Over(k)' = Over(k)
  BY <1>1, <1>4 DEF Over, ChatInv, ShapeOK, step
<1>8. RequestOK(r)'
  <2>1. CASE step = "recall"
    BY <1>2, <1>3, <1>4, <1>6, <1>7, <2>1 DEF RequestOK
  <2>2. CASE step = "agent"
    <3>1. Dialogue(h, k, Over(k), 1)
      BY <1>3, DialogueGrows
    <3>2. Question(x, k, Over(k), r)
      BY <1>4, <2>2, <3>1 DEF Question
    <3>3. QED
      BY <1>2, <1>6, <1>7, <2>2, <3>2 DEF RequestOK
  <2>3. QED
    BY <1>4, <2>1, <2>2
<1>9. \A s \in Requests \ {r} : pc'[s] = pc[s] /\ local'[s] = local[s] /\ sent'[s] = sent[s]
  BY <1>1, <1>4 DEF ChatInv, ShapeOK
<1>10. QED
  BY <1>1, <1>5, <1>6, <1>8, <1>9, OneRequest

\* A recall pair goes in front, the message to the end.
LEMMA ChatRecall ==
  ASSUME ChatInv, NEW r \in Requests, RecallMemories(r)
  PROVE  ChatInv'
<1> DEFINE k == sent[r].key
           h == local[r]
<1>1. /\ pc[r] = "recall" /\ UNCHANGED <<sent, store, memories>>
      /\ pc' = [pc EXCEPT ![r] = "agent"]
  BY DEF RecallMemories
<1>2. k \in ChatKeys /\ k \in Keys /\ Dialogue(h, k, Over(k), 0)
  BY <1>1 DEF ChatInv, RequestOK, Serving
<1>3. PICK past \in Nearest(k) :
        local' = [local EXCEPT ![r] =
          Append((IF past = {} THEN <<>> ELSE RecallPair(past)) \o h, UserMessage(r))]
  BY DEF RecallMemories
<1> DEFINE g == (IF past = {} THEN <<>> ELSE RecallPair(past)) \o h
<1>4. /\ past \in SUBSET Memories
      /\ \A m \in past : OwnerOf[m.key] = OwnerOf[k] /\ m.key # k
  BY DEF Nearest, Recallable, ChatInv, ShapeOK
<1>5. Dialogue(g, k, Over(k), 1)
  <2>1. CASE past = {}
    <3>1. PICK S : h \in Seq(S)
      BY <1>2 DEF Dialogue, IsSequence
    <3>2. <<>> \o h = h
      BY <3>1, ConcatEmptySeq
    <3>3. QED
      BY <1>2, <2>1, <3>2, DialogueGrows
  <2>2. CASE past # {}
    BY <1>2, <1>4, <2>2, DialogueRecalls
  <2>3. QED
    BY <2>1, <2>2
<1> HIDE DEF g
<1>6. pc'[r] = "agent" /\ local'[r] = Append(g, UserMessage(r)) /\ sent'[r] = sent[r]
  BY <1>1, <1>3 DEF ChatInv, ShapeOK, g
<1>7. Over(k)' = Over(k)
  BY <1>1 DEF Over, ChatInv, ShapeOK
<1>8. RequestOK(r)'
  BY <1>2, <1>5, <1>6, <1>7 DEF RequestOK, Question
<1>9. ShapeOK'
  BY <1>1, <1>3 DEF ChatInv, ShapeOK, Serving
<1>10. \A s \in Requests \ {r} : pc'[s] = pc[s] /\ local'[s] = local[s] /\ sent'[s] = sent[s]
  BY <1>1, <1>3 DEF ChatInv, ShapeOK
<1>11. QED
  BY <1>1, <1>6, <1>8, <1>9, <1>10, OneRequest

\* The reply completes the turn of a request that is not over.
LEMMA ChatAnswer ==
  ASSUME ChatInv, NEW r \in Requests, AgentAnswers(r)
  PROVE  ChatInv'
<1> DEFINE k == sent[r].key
           h == local[r]
<1>1. /\ pc[r] = "agent" /\ UNCHANGED <<sent, store, memories>>
      /\ pc' = [pc EXCEPT ![r] = "save"]
      /\ local' = [local EXCEPT ![r] = Append(h, Reply(r, h))]
  BY DEF AgentAnswers
<1>2. k \in Keys /\ (sent[r].kind = "chat" => k \in ChatKeys) /\ Question(h, k, Over(k), r)
  BY <1>1 DEF ChatInv, RequestOK, Serving
<1>3. r \notin Over(k) /\ r # Recall
  BY <1>1, ChatAssumption DEF Over
<1>4. Dialogue(Append(h, Reply(r, h)), k, Over(k) \cup {r}, 0)
  BY <1>2, <1>3, DialogueAnswered
<1>5. pc'[r] = "save" /\ local'[r] = Append(h, Reply(r, h)) /\ sent'[r] = sent[r]
  BY <1>1 DEF ChatInv, ShapeOK
<1>6. Over(k)' = Over(k)
  BY <1>1 DEF Over, ChatInv, ShapeOK
<1>7. RequestOK(r)'
  BY <1>2, <1>4, <1>5, <1>6 DEF RequestOK
<1>8. ShapeOK'
  BY <1>1 DEF ChatInv, ShapeOK, Serving
<1>9. \A s \in Requests \ {r} : pc'[s] = pc[s] /\ local'[s] = local[s] /\ sent'[s] = sent[s]
  BY <1>1 DEF ChatInv, ShapeOK
<1>10. QED
  BY <1>1, <1>5, <1>7, <1>8, <1>9, OneRequest

\* The end of a request, with its save or without (SaveHistory, RequestFails).
LEMMA ChatEnds ==
  ASSUME ChatInv, NEW r \in Requests, NEW how \in {"done", "failed"},
         pc[r] \in Serving, End(r, how), UNCHANGED <<sent, memories>>,
         UNCHANGED store \/ (pc[r] = "save" /\ Write(r))
  PROVE  ChatInv'
<1> DEFINE k == sent[r].key
<1>1. pc' = [pc EXCEPT ![r] = how] /\ local' = [local EXCEPT ![r] = <<>>]
  BY DEF End
<1>2. pc'[r] = how /\ pc[r] \notin {"done", "failed", "unsent"} /\ sent'[r] = sent[r]
  BY <1>1 DEF ChatInv, ShapeOK, Serving
<1>3. ShapeOK'
  <2>1. DOMAIN store' = DOMAIN store
    BY DEF Write
  <2>2. QED
    BY <1>1, <2>1 DEF ChatInv, ShapeOK
<1>4. RequestOK(r)'
  BY <1>2 DEF RequestOK, Serving
<1>5. \A s \in Requests \ {r} : pc'[s] = pc[s] /\ local'[s] = local[s] /\ sent'[s] = sent[s]
  BY <1>1 DEF ChatInv, ShapeOK
<1>6. Over(k) \cup {r} \subseteq Over(k)'
  BY <1>1, <1>2 DEF Over, ChatInv, ShapeOK
<1>7. ASSUME NEW j \in Keys
      PROVE  store'[j] = store[j] \/ Dialogue(store[j], j, Over(j), 0)'
  <2>1. CASE UNCHANGED store
    BY <2>1
  <2>2. CASE pc[r] = "save" /\ Write(r) /\ j = k
    <3>1. store'[j] = local[r]
      BY <2>2 DEF Write, ChatInv, ShapeOK
    <3>2. Dialogue(local[r], k, Over(k) \cup {r}, 0)
      BY <2>2 DEF ChatInv, RequestOK
    <3>3. Dialogue(local[r], k, Over(k)', 0)
      BY <1>6, <3>2, DialogueGrows
    <3>4. QED
      BY <2>2, <3>1, <3>3
  <2>3. CASE Write(r) /\ j # k
    BY <2>3 DEF Write, ChatInv, ShapeOK
  <2>4. QED
    BY <2>1, <2>2, <2>3
<1>8. QED
  BY <1>2, <1>3, <1>4, <1>5, <1>7, OneRequest

-----------------------------------------------------------------------------
\* Every conversation is empty at first.
LEMMA ChatInit == Init => ChatInv
<1> SUFFICES ASSUME Init PROVE ChatInv
  OBVIOUS
<1>1. ShapeOK
  BY DEF Init, ShapeOK
<1>2. \A r \in Requests : RequestOK(r)
  BY DEF Init, RequestOK, Serving
<1>3. \A k \in Keys : Dialogue(store[k], k, Over(k), 0)
  BY EmptyDialogue DEF Init
<1>4. QED
  BY <1>1, <1>2, <1>3 DEF ChatInv

\* Every step keeps the invariant.
LEMMA ChatNext == ChatInv /\ [Next]_vars => ChatInv'
<1> SUFFICES ASSUME ChatInv, [Next]_vars PROVE ChatInv'
  OBVIOUS
<1>1. ASSUME NEW r \in Requests, NEW k \in Keys, Send(r, k) PROVE ChatInv'
  BY <1>1, ChatSend
<1>2. ASSUME NEW r \in Requests, Serve(r) PROVE ChatInv'
  <2>1. CASE LoadHistory(r)
    BY <2>1, ChatLoad
  <2>2. CASE RecallMemories(r)
    BY <2>2, ChatRecall
  <2>3. CASE AgentAnswers(r)
    BY <2>3, ChatAnswer
  <2>4. CASE SaveHistory(r)
    BY <2>4, ChatEnds DEF SaveHistory, Serving
  <2>5. CASE RequestFails(r)
    <3>1. UNCHANGED store \/ (pc[r] = "save" /\ Write(r))
      BY <2>5 DEF RequestFails
    <3>2. pc[r] \in Serving /\ End(r, "failed") /\ UNCHANGED <<sent, memories>>
      BY <2>5 DEF RequestFails
    <3>3. QED
      BY <3>1, <3>2, ChatEnds
  <2>6. QED
    BY <1>2, <2>1, <2>2, <2>3, <2>4, <2>5 DEF Serve
<1>3. ASSUME NEW r \in Requests, AgentRemembers(r) PROVE ChatInv'
  <2>1. sent[r].key \in ChatKeys
    BY <1>3 DEF AgentRemembers, ChatInv, RequestOK, Serving
  <2>2. ShapeOK'
    BY <1>3, <2>1 DEF AgentRemembers, Memory, Memories, ChatInv, ShapeOK
  <2>3. QED
    BY <1>3, <2>2, NoRequest DEF AgentRemembers
<1>4. ASSUME NEW k \in Keys, Expire(k) PROVE ChatInv'
  <2>1. ShapeOK'
    BY <1>4 DEF Expire, ChatInv, ShapeOK
  <2>2. \A j \in Keys : store'[j] = store[j] \/ store'[j] = <<>>
    BY <1>4 DEF Expire, ChatInv, ShapeOK
  <2>3. QED
    BY <1>4, <2>1, <2>2, NoRequest DEF Expire
<1>5. ASSUME NEW m \in memories, DeleteMemory(m) PROVE ChatInv'
  <2>1. ShapeOK'
    BY <1>5 DEF DeleteMemory, ChatInv, ShapeOK
  <2>2. QED
    BY <1>5, <2>1, NoRequest DEF DeleteMemory
<1>6. ASSUME NEW r \in Requests, ClientGivesUp(r) PROVE ChatInv'
  <2>1. ShapeOK'
    BY <1>6 DEF ClientGivesUp, ChatInv, ShapeOK
  <2>2. QED
    BY <1>6, <2>1, NoRequest DEF ClientGivesUp
<1>7. CASE UNCHANGED vars
  <2>1. ShapeOK'
    BY <1>7 DEF vars, ChatInv, ShapeOK
  <2>2. QED
    BY <1>7, <2>1, NoRequest DEF vars
<1>8. QED
  BY <1>1, <1>2, <1>3, <1>4, <1>5, <1>6, <1>7 DEF Next, PatientNext, Finished

\* What the model is sent as a conversation is one, however many turns overlap
\* and whenever they fail, with any number of requests.
THEOREM ConversationsStayPaired == Spec => []WellPaired
<1>1. ChatInv => WellPaired
  BY ChatInvProperties
<1>2. QED
  BY <1>1, ChatInit, ChatNext, PTL DEF Spec

\* A conversation quotes only memories of its own user, written in another
\* conversation.
THEOREM RecallIsCorrect == Spec => []RecallIsForeignAndOwn
<1>1. ChatInv => RecallIsForeignAndOwn
  BY ChatInvProperties
<1>2. QED
  BY <1>1, ChatInit, ChatNext, PTL DEF Spec
-----------------------------------------------------------------------------
\* With patient clients nothing that was saved is lost.  A conversation has one
\* turn at a time, and the copy that turn holds has everything saved so far.
OneAtATime ==
  /\ DOMAIN client = Requests
  /\ \A r \in Requests : pc[r] \in Serving => client[r] = "waiting"
  /\ \A r, s \in Requests :
       client[r] = "waiting" /\ client[s] = "waiting" /\ sent[r].key = sent[s].key => r = s

CopyIsFull(r) ==
  /\ pc[r] \in {"recall", "agent", "save"} => saved[sent[r].key] \subseteq TurnSet(local[r])
  /\ pc[r] = "save" => r \in TurnSet(local[r])

PatientInv ==
  /\ ChatInv
  /\ OneAtATime
  /\ DOMAIN saved = Keys
  /\ \A r \in Requests : CopyIsFull(r)
  /\ FullHistory

\* Adding messages removes no turn.
LEMMA TurnsStay ==
  ASSUME NEW h, IsSequence(h), NEW x, NEW past
  PROVE  /\ TurnSet(h) \subseteq TurnSet(Append(h, x))
         /\ IsReply(x) => x.of \in TurnSet(Append(h, x))
         /\ TurnSet(h) \subseteq TurnSet(RecallPair(past) \o h)
<1>1. /\ Len(h) \in Nat
      /\ Len(Append(h, x)) = Len(h) + 1
      /\ \A i \in 1..Len(h) : Append(h, x)[i] = h[i]
      /\ Append(h, x)[Len(h) + 1] = x
  BY Appended
<1> DEFINE a == Said("user", Recall, <<>>, past)
           b == Said("assistant", Recall, <<>>, {})
<1>2. RecallPair(past) = <<a, b>>
  BY DEF RecallPair
<1> HIDE DEF a, b
<1>3. /\ Len(<<a, b>> \o h) = Len(h) + 2
      /\ \A i \in 1..Len(h) : (<<a, b>> \o h)[i + 2] = h[i]
  BY Prepended
<1>4. ASSUME NEW t \in TurnSet(h)
      PROVE  t \in TurnSet(Append(h, x)) /\ t \in TurnSet(<<a, b>> \o h)
  <2>1. PICK i \in 1..Len(h) : IsReply(h[i]) /\ t = h[i].of
    BY DEF TurnSet
  <2>2. i \in 1..Len(Append(h, x)) /\ Append(h, x)[i] = h[i]
    BY <1>1
  <2>3. i + 2 \in 1..Len(<<a, b>> \o h) /\ (<<a, b>> \o h)[i + 2] = h[i]
    BY <1>1, <1>3
  <2>4. QED
    BY <2>1, <2>2, <2>3 DEF TurnSet
<1>5. ASSUME IsReply(x) PROVE x.of \in TurnSet(Append(h, x))
  <2>1. Len(h) + 1 \in 1..Len(Append(h, x))
    BY <1>1
  <2>2. QED
    BY <1>1, <1>5, <2>1 DEF TurnSet
<1>6. QED
  BY <1>2, <1>4, <1>5

\* The copies that turns hold, and what is stored, are sequences.
LEMMA CopiesAreSequences ==
  ASSUME ChatInv
  PROVE  /\ \A r \in Requests : pc[r] \in {"recall", "agent", "save"} => IsSequence(local[r])
         /\ \A k \in Keys : IsSequence(store[k])
<1>1. ASSUME NEW r \in Requests, pc[r] \in {"recall", "agent", "save"}
      PROVE  IsSequence(local[r])
  <2>1. CASE pc[r] = "agent"
    <3>1. PICK g : Dialogue(g, sent[r].key, Over(sent[r].key), 1) /\ local[r] = Append(g, UserMessage(r))
      BY <2>1 DEF ChatInv, RequestOK, Question
    <3>2. QED
      BY <3>1, Appended DEF Dialogue
  <2>2. CASE pc[r] # "agent"
    BY <1>1, <2>2 DEF ChatInv, RequestOK, Dialogue
  <2>3. QED
    BY <2>1, <2>2
<1>2. QED
  BY <1>1 DEF ChatInv, Dialogue

\* A step of the server for one request that neither ends it nor saves.
LEMMA PatientWork ==
  ASSUME PatientInv, ChatInv', NEW r \in Requests, NEW step \in Serving, NEW copy,
         pc[r] \in Serving, UNCHANGED <<sent, client, store, saved>>,
         pc' = [pc EXCEPT ![r] = step], local' = [local EXCEPT ![r] = copy],
         saved[sent[r].key] \subseteq TurnSet(copy),
         step = "save" => r \in TurnSet(copy)
  PROVE  PatientInv'
<1>1. /\ pc'[r] = step /\ local'[r] = copy
      /\ \A s \in Requests \ {r} : pc'[s] = pc[s] /\ local'[s] = local[s]
  BY DEF PatientInv, ChatInv, ShapeOK
<1>2. OneAtATime'
  BY <1>1 DEF PatientInv, OneAtATime
<1>3. \A s \in Requests : CopyIsFull(s)'
  BY <1>1 DEF PatientInv, CopyIsFull
<1>4. FullHistory' /\ DOMAIN saved' = Keys
  BY DEF PatientInv, FullHistory
<1>5. QED
  BY <1>2, <1>3, <1>4 DEF PatientInv

\* The end of a request, with its save or without.
LEMMA PatientEnds ==
  ASSUME PatientInv, ChatInv', NEW r \in Requests, NEW how \in {"done", "failed"},
         pc[r] \in Serving, End(r, how), Tell(r, {"answered", "failed"}),
         UNCHANGED sent,
         UNCHANGED <<store, saved>> \/ (pc[r] = "save" /\ Write(r))
  PROVE  PatientInv'
<1> DEFINE k == sent[r].key
<1>1. /\ pc'[r] = how
      /\ \A s \in Requests \ {r} : pc'[s] = pc[s] /\ local'[s] = local[s]
  BY DEF End, PatientInv, ChatInv, ShapeOK
<1>2. k \in Keys
  BY DEF PatientInv, ChatInv, RequestOK
<1>3. client[r] = "waiting"
  BY DEF PatientInv, OneAtATime
<1>4. PICK o \in {"answered", "failed"} : client' = [client EXCEPT ![r] = o]
  BY <1>3 DEF Tell
<1>5. OneAtATime'
  <2>1. /\ client'[r] = o
        /\ \A s \in Requests \ {r} : client'[s] = client[s]
        /\ DOMAIN client' = Requests
    BY <1>4 DEF PatientInv, OneAtATime
  <2>2. pc'[r] \notin Serving
    BY <1>1 DEF Serving
  <2>3. QED
    BY <1>1, <2>1, <2>2 DEF PatientInv, OneAtATime
<1>6. CASE UNCHANGED <<store, saved>>
  <2>1. \A s \in Requests : CopyIsFull(s)'
    BY <1>1, <1>6 DEF PatientInv, CopyIsFull
  <2>2. FullHistory' /\ DOMAIN saved' = Keys
    BY <1>6 DEF PatientInv, FullHistory
  <2>3. QED
    BY <1>5, <2>1, <2>2 DEF PatientInv
<1>7. CASE pc[r] = "save" /\ Write(r)
  <2>1. /\ store'[k] = local[r] /\ saved'[k] = saved[k] \cup {r}
        /\ \A j \in Keys \ {k} : store'[j] = store[j] /\ saved'[j] = saved[j]
        /\ DOMAIN saved' = Keys
    BY <1>2, <1>7 DEF Write, PatientInv, ChatInv, ShapeOK
  <2>2. saved[k] \cup {r} \subseteq TurnSet(local[r])
    BY <1>7 DEF PatientInv, CopyIsFull
  <2>3. FullHistory'
    BY <2>1, <2>2 DEF PatientInv, FullHistory
  <2>4. ASSUME NEW s \in Requests PROVE CopyIsFull(s)'
    <3>1. CASE s = r
      BY <1>1, <3>1 DEF CopyIsFull
    <3>2. CASE s # r /\ pc[s] \in {"recall", "agent", "save"}
      <4>1. sent[s].key \in Keys /\ sent[s].key # k
        BY <1>3, <3>2 DEF PatientInv, ChatInv, RequestOK, OneAtATime, Serving
      <4>2. saved'[sent[s].key] = saved[sent[s].key]
        BY <2>1, <4>1
      <4>3. QED
        BY <1>1, <3>2, <4>2 DEF PatientInv, CopyIsFull
    <3>3. CASE s # r /\ pc[s] \notin {"recall", "agent", "save"}
      BY <1>1, <3>3 DEF CopyIsFull
    <3>4. QED
      BY <3>1, <3>2, <3>3
  <2>5. QED
    BY <1>5, <2>1, <2>3, <2>4 DEF PatientInv
<1>8. QED
  BY <1>6, <1>7

\* A patient client sends when no turn of its conversation is under way.
LEMMA PatientSend ==
  ASSUME PatientInv, ChatInv', NEW r \in Requests, NEW k \in Keys, Send(r, k)
  PROVE  PatientInv'
<1>1. PICK kind \in IF k \in ChatKeys THEN {"chat"} ELSE {"widget", "stream"} :
        sent' = [sent EXCEPT ![r] = [kind |-> kind, key |-> k]]
  BY DEF Send
<1>2. /\ Waiting(k) = {} /\ UNCHANGED <<local, store, saved>>
      /\ pc' = [pc EXCEPT ![r] = "load"]
      /\ client' = [client EXCEPT ![r] = "waiting"]
  BY DEF Send
<1>3. /\ sent'[r].key = k /\ pc'[r] = "load" /\ client'[r] = "waiting"
      /\ \A s \in Requests \ {r} : sent'[s] = sent[s] /\ pc'[s] = pc[s] /\ client'[s] = client[s]
      /\ DOMAIN client' = Requests
  BY <1>1, <1>2 DEF PatientInv, ChatInv, ShapeOK, OneAtATime
<1>4. \A s \in Requests : client[s] = "waiting" => sent[s].key # k
  BY <1>2 DEF Waiting
<1>5. OneAtATime'
  BY <1>3, <1>4 DEF PatientInv, OneAtATime
<1>6. \A s \in Requests : CopyIsFull(s)'
  BY <1>2, <1>3 DEF PatientInv, CopyIsFull
<1>7. FullHistory' /\ DOMAIN saved' = Keys
  BY <1>2 DEF PatientInv, FullHistory
<1>8. QED
  BY <1>5, <1>6, <1>7 DEF PatientInv

\* The steps of the server.
LEMMA PatientServe ==
  ASSUME PatientInv, ChatInv', NEW r \in Requests, Serve(r)
  PROVE  PatientInv'
<1> DEFINE k == sent[r].key
<1>0. pc[r] \in Serving => k \in Keys
  BY DEF PatientInv, ChatInv, RequestOK
<1>1. CASE LoadHistory(r)
  <2> DEFINE h == store[k]
             chat == sent[r].kind = "chat"
             step == IF chat THEN "recall" ELSE "agent"
             copy == IF chat THEN h ELSE Append(h, UserMessage(r))
  <2>1. /\ pc[r] \in Serving /\ UNCHANGED <<sent, client, store, saved>>
        /\ pc' = [pc EXCEPT ![r] = step] /\ local' = [local EXCEPT ![r] = copy]
    BY <1>1 DEF LoadHistory, Serving
  <2>2. saved[k] \subseteq TurnSet(h) /\ IsSequence(h)
    BY <1>0, <2>1, CopiesAreSequences DEF PatientInv, FullHistory
  <2>3. TurnSet(h) \subseteq TurnSet(copy)
    BY <2>2, TurnsStay
  <2>4. step \in Serving /\ step # "save"
    BY DEF Serving
  <2> HIDE DEF h, step, copy
  <2>5. QED
    BY <2>1, <2>2, <2>3, <2>4, PatientWork
<1>2. CASE RecallMemories(r)
  <2>1. PICK past \in Nearest(k) :
          local' = [local EXCEPT ![r] =
            Append((IF past = {} THEN <<>> ELSE RecallPair(past)) \o local[r], UserMessage(r))]
    BY <1>2 DEF RecallMemories
  <2> DEFINE h == local[r]
             g == (IF past = {} THEN <<>> ELSE RecallPair(past)) \o h
             copy == Append(g, UserMessage(r))
  <2>2. /\ pc[r] = "recall" /\ UNCHANGED <<sent, client, store, saved>>
        /\ pc' = [pc EXCEPT ![r] = "agent"] /\ local' = [local EXCEPT ![r] = copy]
    BY <1>2, <2>1 DEF RecallMemories
  <2>3. saved[k] \subseteq TurnSet(h) /\ IsSequence(h)
    BY <2>2, CopiesAreSequences DEF PatientInv, CopyIsFull
  <2>4. TurnSet(h) \subseteq TurnSet(g) /\ IsSequence(g)
    <3>1. PICK S : h \in Seq(S)
      BY <2>3 DEF IsSequence
    <3>2. <<>> \o h = h
      BY <3>1, ConcatEmptySeq
    <3>3. CASE past = {}
      BY <2>3, <3>2, <3>3
    <3>4. CASE past # {}
      BY <2>3, <3>4, TurnsStay, Prepended DEF RecallPair
    <3>5. QED
      BY <3>3, <3>4
  <2> HIDE DEF g
  <2>5. TurnSet(g) \subseteq TurnSet(copy)
    BY <2>4, TurnsStay
  <2> HIDE DEF h, copy
  <2>6. saved[k] \subseteq TurnSet(copy)
    BY <2>3, <2>4, <2>5
  <2>7. pc[r] \in Serving /\ "agent" \in Serving
    BY <2>2 DEF Serving
  <2>8. QED
    BY <2>2, <2>6, <2>7, PatientWork
<1>3. CASE AgentAnswers(r)
  <2> DEFINE h == local[r]
             copy == Append(h, Reply(r, h))
  <2>1. /\ pc[r] = "agent" /\ UNCHANGED <<sent, client, store, saved>>
        /\ pc' = [pc EXCEPT ![r] = "save"] /\ local' = [local EXCEPT ![r] = copy]
    BY <1>3 DEF AgentAnswers
  <2>2. saved[k] \subseteq TurnSet(h) /\ IsSequence(h)
    BY <2>1, CopiesAreSequences DEF PatientInv, CopyIsFull
  <2>3. IsReply(Reply(r, h)) /\ Reply(r, h).of = r
    BY ChatAssumption DEF IsReply, Reply, Said
  <2>4. TurnSet(h) \subseteq TurnSet(copy) /\ r \in TurnSet(copy)
    BY <2>2, <2>3, TurnsStay
  <2> HIDE DEF h, copy
  <2>5. saved[k] \subseteq TurnSet(copy)
    BY <2>2, <2>4
  <2>6. pc[r] \in Serving /\ "save" \in Serving
    BY <2>1 DEF Serving
  <2>7. QED
    BY <2>1, <2>4, <2>5, <2>6, PatientWork
<1>4. CASE SaveHistory(r)
  BY <1>4, PatientEnds DEF SaveHistory, Serving
<1>5. CASE RequestFails(r)
  <2>1. UNCHANGED <<store, saved>> \/ (pc[r] = "save" /\ Write(r))
    BY <1>5 DEF RequestFails
  <2>2. pc[r] \in Serving /\ End(r, "failed") /\ UNCHANGED sent
    BY <1>5 DEF RequestFails
  <2>3. Tell(r, {"answered", "failed"})
    BY <1>5 DEF RequestFails, Tell
  <2>4. QED
    BY <2>1, <2>2, <2>3, PatientEnds
<1>6. QED
  BY <1>1, <1>2, <1>3, <1>4, <1>5 DEF Serve

\* Every step of a system with patient clients keeps the invariant.
LEMMA PatientStep == PatientInv /\ [PatientNext]_vars => PatientInv'
<1> SUFFICES ASSUME PatientInv, [PatientNext]_vars PROVE PatientInv'
  OBVIOUS
<1>1. ChatInv'
  BY ChatNext DEF PatientInv, Next
<1>2. ASSUME NEW r \in Requests, NEW k \in Keys, Send(r, k) PROVE PatientInv'
  BY <1>1, <1>2, PatientSend
<1>3. ASSUME NEW r \in Requests, Serve(r) PROVE PatientInv'
  BY <1>1, <1>3, PatientServe
<1>4. ASSUME UNCHANGED <<sent, pc, local, client, store, saved>> PROVE PatientInv'
  BY <1>1, <1>4 DEF PatientInv, OneAtATime, CopyIsFull, FullHistory
<1>5. ASSUME NEW k \in Keys, Expire(k) PROVE PatientInv'
  <2>1. /\ UNCHANGED <<sent, pc, local, client>>
        /\ \A j \in Keys : saved'[j] \subseteq saved[j]
        /\ \A j \in Keys : saved'[j] = {} \/ store'[j] = store[j]
        /\ DOMAIN saved' = Keys
    BY <1>5 DEF Expire, PatientInv, ChatInv, ShapeOK
  <2>2. \A r \in Requests : CopyIsFull(r)'
    <3> SUFFICES ASSUME NEW r \in Requests PROVE CopyIsFull(r)'
      OBVIOUS
    <3>1. pc[r] \in {"recall", "agent", "save"} => sent[r].key \in Keys
      BY DEF PatientInv, ChatInv, RequestOK, Serving
    <3>2. QED
      BY <2>1, <3>1 DEF PatientInv, CopyIsFull
  <2>3. QED
    BY <1>1, <2>1, <2>2 DEF PatientInv, OneAtATime, FullHistory
<1>6. QED
  BY <1>2, <1>3, <1>4, <1>5
     DEF PatientNext, AgentRemembers, DeleteMemory, Finished, vars

\* Nothing is under way and nothing saved at first.
LEMMA PatientInit == Init => PatientInv
<1> SUFFICES ASSUME Init PROVE PatientInv
  OBVIOUS
<1>1. ChatInv
  BY ChatInit
<1>2. OneAtATime /\ \A r \in Requests : CopyIsFull(r)
  BY DEF Init, OneAtATime, CopyIsFull, Serving
<1>3. DOMAIN saved = Keys /\ FullHistory
  BY DEF Init, FullHistory
<1>4. QED
  BY <1>1, <1>2, <1>3 DEF PatientInv

\* With clients that wait for every answer Redis holds the full history
\* (services/memory.py:3): every turn saved since the conversation last expired.
THEOREM PatienceKeepsHistory == PatientSpec => []FullHistory
<1>1. PatientInv => FullHistory
  BY DEF PatientInv
<1>2. QED
  BY <1>1, PatientInit, PatientStep, PTL DEF PatientSpec
-----------------------------------------------------------------------------
Less == {p \in Nat \X Nat : p[1] < p[2]}

\* A set of numbers that has 0 and with every number its successor has all.
LEMMA NatSetInduction ==
  ASSUME NEW T, 0 \in T, \A n \in Nat : n \in T => n + 1 \in T
  PROVE  Nat \subseteq T
<1>1. IsWellFoundedOn(Less, Nat)
  BY NatLessThanWellFounded DEF OpToRel, Less
<1> DEFINE U == Nat \ T
<1> SUFFICES ASSUME U # {} PROVE FALSE
  OBVIOUS
<1>2. PICK x \in U : \A y \in U : ~(<<y, x>> \in Less)
  <2>1. U \subseteq Nat
    OBVIOUS
  <2> HIDE DEF U
  <2> QED
    BY <1>1, <2>1, WFMin
<1>3. x # 0 /\ x \in Nat
  OBVIOUS
<1>4. x - 1 \in T
  <2>1. <<x - 1, x>> \in Less
    BY <1>3 DEF Less
  <2> QED
    BY <1>2, <1>3, <2>1
<1> QED
  BY <1>3, <1>4

\* f[i] is the turns of the first i messages of h, up to the n-th.
AreTurns(f, h, n) ==
  f = [i \in 0..n |->
         IF i = 0 THEN <<>>
         ELSE IF IsReply(h[i]) THEN Append(f[i - 1], h[i].of) ELSE f[i - 1]]

\* There is such a function, and Turns is its last value.
LEMMA TurnsAreDefined ==
  ASSUME NEW h, Len(h) \in Nat
  PROVE  \E f : AreTurns(f, h, Len(h)) /\ Turns(h) = f[Len(h)]
<1> DEFINE T == {n \in Nat : \E f : AreTurns(f, h, n)}
<1>1. 0 \in T
  <2>1. AreTurns([i \in 0..0 |-> <<>>], h, 0)
    BY DEF AreTurns
  <2>2. QED
    BY <2>1
<1>2. ASSUME NEW n \in Nat, n \in T PROVE n + 1 \in T
  <2>1. PICK f : AreTurns(f, h, n)
    BY <1>2
  <2> DEFINE last == IF IsReply(h[n + 1]) THEN Append(f[n], h[n + 1].of) ELSE f[n]
             g == [i \in 0..(n + 1) |-> IF i = n + 1 THEN last ELSE f[i]]
  <2>2. \A i \in 0..n : g[i] = f[i]
    OBVIOUS
  <2>3. \A i \in 1..n : i - 1 \in 0..n
    OBVIOUS
  <2>4. ASSUME NEW i \in 0..(n + 1)
        PROVE  g[i] = IF i = 0 THEN <<>>
                      ELSE IF IsReply(h[i]) THEN Append(g[i - 1], h[i].of) ELSE g[i - 1]
    <3>1. CASE i = n + 1
      <4>1. g[i - 1] = f[n] /\ i # 0
        BY <2>2, <3>1
      <4>2. QED
        BY <3>1, <4>1
    <3>2. CASE i \in 0..n
      <4>1. f[i] = IF i = 0 THEN <<>>
                      ELSE IF IsReply(h[i]) THEN Append(f[i - 1], h[i].of) ELSE f[i - 1]
        BY <2>1, <3>2 DEF AreTurns
      <4>2. i # 0 => g[i - 1] = f[i - 1]
        BY <2>2, <2>3, <3>2
      <4>3. g[i] = f[i]
        BY <2>2, <3>2
      <4> HIDE DEF g
      <4>4. QED
        BY <4>1, <4>2, <4>3
    <3>3. QED
      BY <3>1, <3>2
  <2>5. AreTurns(g, h, n + 1)
    <3>1. g = [i \in 0..(n + 1) |-> g[i]]
      OBVIOUS
    <3> HIDE DEF g
    <3>2. QED
      BY <2>4, <3>1 DEF AreTurns
  <2>6. QED
    BY <2>5
<1>3. Len(h) \in T
  <2> HIDE DEF T
  <2>1. QED
    BY <1>1, <1>2, NatSetInduction
<1> DEFINE upTo == CHOOSE f : AreTurns(f, h, Len(h))
<1>4. AreTurns(upTo, h, Len(h))
  BY <1>3
<1>5. Turns(h) = upTo[Len(h)]
  BY DEF Turns, AreTurns
<1>6. QED
  BY <1>4, <1>5

\* After s messages of its own g goes on like h, for n messages.
GoesOnLike(g, s, h, n) == \A i \in 1..n : g[i + s] = h[i]

\* Where two conversations say the same, they have the same turns.
LEMMA TurnsAgree ==
  ASSUME NEW h, NEW g, NEW a \in Nat, NEW b \in Nat, NEW s \in Nat, a + s <= b,
         NEW f, AreTurns(f, h, a), NEW e, AreTurns(e, g, b),
         e[s] = <<>>, GoesOnLike(g, s, h, a)
  PROVE  \A i \in 0..a : e[i + s] = f[i]
<1> DEFINE T == {i \in Nat : i <= a => e[i + s] = f[i]}
<1>1. 0 \in T
  BY DEF AreTurns
<1>2. ASSUME NEW i \in Nat, i \in T PROVE i + 1 \in T
  <2> SUFFICES ASSUME i + 1 <= a PROVE e[(i + 1) + s] = f[i + 1]
    OBVIOUS
  <2>1. /\ (i + 1) + s \in 0..b /\ (i + 1) + s # 0 /\ ((i + 1) + s) - 1 = i + s
        /\ i + 1 \in 0..a /\ i + 1 # 0 /\ (i + 1) - 1 = i
        /\ i + 1 \in 1..a
    OBVIOUS
  <2>2. g[(i + 1) + s] = h[i + 1] /\ e[i + s] = f[i]
    BY <1>2, <2>1 DEF GoesOnLike
  <2>3. e[(i + 1) + s] = IF IsReply(g[(i + 1) + s])
                         THEN Append(e[i + s], g[(i + 1) + s].of) ELSE e[i + s]
    BY <2>1 DEF AreTurns
  <2>4. f[i + 1] = IF IsReply(h[i + 1]) THEN Append(f[i], h[i + 1].of) ELSE f[i]
    BY <2>1 DEF AreTurns
  <2>5. QED
    BY <2>2, <2>3, <2>4
<1>3. Nat \subseteq T
  <2> HIDE DEF T
  <2>1. QED
    BY <1>1, <1>2, NatSetInduction
<1>4. QED
  BY <1>3

\* An empty conversation has no turn.
LEMMA NoTurns == Turns(<<>>) = <<>>
<1>1. Len(<<>>) = 0
  OBVIOUS
<1>2. PICK f : AreTurns(f, <<>>, 0) /\ Turns(<<>>) = f[0]
  BY <1>1, TurnsAreDefined
<1>3. QED
  BY <1>2 DEF AreTurns

\* A message more is a turn more if it is a reply.
LEMMA TurnsAppended ==
  ASSUME NEW h, IsSequence(h), NEW x
  PROVE  Turns(Append(h, x)) = IF IsReply(x) THEN Append(Turns(h), x.of) ELSE Turns(h)
<1> DEFINE g == Append(h, x)
           n == Len(h)
<1>1. /\ n \in Nat /\ Len(g) = n + 1 /\ g[n + 1] = x
      /\ \A i \in 1..n : g[i + 0] = h[i]
  BY Appended
<1> HIDE DEF g, n
<1>2. PICK f : AreTurns(f, h, n) /\ Turns(h) = f[n]
  BY <1>1, TurnsAreDefined DEF n
<1>3. PICK e : AreTurns(e, g, n + 1) /\ Turns(g) = e[n + 1]
  BY <1>1, TurnsAreDefined
<1>4. e[0] = <<>>
  BY <1>1, <1>3 DEF AreTurns
<1>5. e[n + 0] = f[n]
  <2>1. n + 1 \in Nat /\ 0 \in Nat /\ n + 0 <= n + 1 /\ n \in 0..n
    BY <1>1
  <2>2. \A i \in 0..n : e[i + 0] = f[i]
    BY <1>1, <1>2, <1>3, <1>4, <2>1, TurnsAgree DEF GoesOnLike
  <2>3. QED
    BY <2>1, <2>2
<1>6. n + 1 \in 0..(n + 1) /\ n + 1 # 0 /\ (n + 1) - 1 = n /\ n + 0 = n
  BY <1>1
<1>7. e[n + 1] = IF IsReply(x) THEN Append(e[n], x.of) ELSE e[n]
  BY <1>1, <1>3, <1>6 DEF AreTurns
<1>8. QED
  BY <1>2, <1>3, <1>5, <1>6, <1>7 DEF g

\* A recall pair in front is no turn.
LEMMA TurnsRecalled ==
  ASSUME NEW h, IsSequence(h), NEW past
  PROVE  Turns(RecallPair(past) \o h) = Turns(h)
<1> DEFINE p == Said("user", Recall, <<>>, past)
           q == Said("assistant", Recall, <<>>, {})
           g == <<p, q>> \o h
           n == Len(h)
<1>1. ~IsReply(p) /\ ~IsReply(q) /\ RecallPair(past) = <<p, q>>
  BY DEF IsReply, Said, RecallPair
<1> HIDE DEF p, q
<1>2. /\ n \in Nat /\ Len(g) = n + 2 /\ g[1] = p /\ g[2] = q
      /\ \A i \in 1..n : g[i + 2] = h[i]
  BY Prepended
<1> HIDE DEF g, n
<1>3. PICK f : AreTurns(f, h, n) /\ Turns(h) = f[n]
  BY <1>2, TurnsAreDefined DEF n
<1>4. PICK e : AreTurns(e, g, n + 2) /\ Turns(g) = e[n + 2]
  BY <1>2, TurnsAreDefined
<1>5. e[0] = <<>> /\ e[1] = e[0] /\ e[2] = e[1]
  <2>1. 0 \in 0..(n + 2) /\ 1 \in 0..(n + 2) /\ 2 \in 0..(n + 2)
    BY <1>2
  <2>2. QED
    BY <1>1, <1>2, <1>4, <2>1 DEF AreTurns
<1>6. e[n + 2] = f[n]
  <2>1. PICK s \in Nat : s = 2
    OBVIOUS
  <2>2. PICK m \in Nat : m = n + 2
    BY <1>2
  <2>3. n \in Nat /\ n + s <= m
    BY <1>2, <2>1, <2>2
  <2>4. s \in Nat
    BY <2>1
  <2>5. m \in Nat
    BY <2>2
  <2>6. AreTurns(f, h, n) /\ AreTurns(e, g, m)
    BY <1>3, <1>4, <2>2
  <2>7. e[s] = <<>> /\ GoesOnLike(g, s, h, n)
    BY <1>2, <1>5, <2>1 DEF GoesOnLike
  <2>8. \A i \in 0..n : e[i + s] = f[i]
    BY <2>3, <2>4, <2>5, <2>6, <2>7, TurnsAgree
  <2>9. QED
    BY <2>1, <2>3, <2>8
<1>7. QED
  BY <1>1, <1>3, <1>4, <1>6 DEF g

\* Every reply of a conversation saw the turns before it.
InContext(h) ==
  \A i \in 1..Len(h) : IsReply(h[i]) => h[i].seen = Turns(SubSeq(h, 1, i - 1))

\* What stands before a message that was there already does not change when
\* one is added.
LEMMA AppendedContext ==
  ASSUME NEW h, IsSequence(h), NEW x, NEW i \in 1..(Len(h) + 1)
  PROVE  SubSeq(Append(h, x), 1, i - 1) = SubSeq(h, 1, i - 1)
<1>1. /\ Len(h) \in Nat /\ Len(Append(h, x)) = Len(h) + 1
      /\ \A j \in 1..Len(h) : Append(h, x)[j] = h[j]
  BY Appended
<1>2. i \in Int
  BY <1>1
<1> DEFINE g == Append(h, x)
<1>3. \A j \in 1..(i - 1) : g[j] = h[j]
  BY <1>1, <1>2
<1> HIDE DEF g
<1>4. \A j \in 1..(i - 1) : g[(1 + j) - 1] = h[(1 + j) - 1]
  <2>1. \A j \in 1..(i - 1) : (1 + j) - 1 = j
    BY <1>2
  <2>2. QED
    BY <1>3, <2>1
<1>5. SubSeq(g, 1, i - 1) = SubSeq(h, 1, i - 1)
  BY <1>2, <1>3, <1>4
<1>6. QED
  BY <1>5 DEF g

\* The same with a recall pair in front.
LEMMA RecalledContext ==
  ASSUME NEW h, IsSequence(h), NEW past, NEW i \in 1..Len(h)
  PROVE  Turns(SubSeq(RecallPair(past) \o h, 1, (i + 2) - 1)) = Turns(SubSeq(h, 1, i - 1))
<1> DEFINE a == Said("user", Recall, <<>>, past)
           b == Said("assistant", Recall, <<>>, {})
           g == <<a, b>> \o h
           p == SubSeq(h, 1, i - 1)
           q == <<a, b>> \o p
<1>1. RecallPair(past) = <<a, b>>
  BY DEF RecallPair
<1> HIDE DEF a, b
<1>2. /\ Len(h) \in Nat /\ Len(g) = Len(h) + 2 /\ g[1] = a /\ g[2] = b
      /\ \A j \in 1..Len(h) : g[j + 2] = h[j]
      /\ IsSequence(g)
  BY Prepended
<1>3. PICK S : h \in Seq(S) /\ g \in Seq(S)
  <2>1. PICK S : h \in Seq(S)
    BY DEF IsSequence
  <2>2. PICK R : g \in Seq(R)
    BY <1>2 DEF IsSequence
  <2> HIDE DEF g
  <2>3. h \in Seq(S \cup R) /\ g \in Seq(S \cup R)
    BY <2>1, <2>2
  <2>4. QED
    BY <2>3
<1>4. i \in Nat /\ i - 1 \in Nat /\ i - 1 <= Len(h) /\ i + 1 <= Len(g)
  BY <1>2
<1>5. /\ p \in Seq(S) /\ Len(p) = i - 1
      /\ \A j \in 1..(i - 1) : p[j] = h[j]
  BY <1>3, <1>4, SubSeqProperties
<1> HIDE DEF p
<1>6. /\ IsSequence(p)
      /\ Len(q) = (i - 1) + 2 /\ q[1] = a /\ q[2] = b
      /\ \A j \in 1..(i - 1) : q[j + 2] = p[j]
      /\ IsSequence(q)
  <2>1. IsSequence(p)
    BY <1>5 DEF IsSequence
  <2>2. QED
    BY <1>5, <2>1, Prepended
<1> HIDE DEF g, q
<1>7. SubSeq(g, 1, i + 1) = q
  <2> DEFINE e == SubSeq(g, 1, i + 1)
  <2>1. /\ e \in Seq(S) /\ Len(e) = i + 1
        /\ \A j \in 1..(i + 1) : e[j] = g[j]
    BY <1>3, <1>4, SubSeqProperties
  <2> HIDE DEF e
  <2>2. ASSUME NEW j \in 1..(i + 1) PROVE e[j] = q[j]
    <3>1. CASE j \in {1, 2}
      BY <1>2, <1>6, <2>1, <3>1
    <3>2. CASE j \notin {1, 2}
      <4>1. j - 2 \in 1..(i - 1) /\ j - 2 \in 1..Len(h) /\ (j - 2) + 2 = j
        BY <1>4, <3>2
      <4>2. q[j] = p[j - 2] /\ p[j - 2] = h[j - 2] /\ g[j] = h[j - 2]
        BY <1>2, <1>5, <1>6, <4>1
      <4>3. QED
        BY <2>1, <4>2
    <3>3. QED
      BY <3>1, <3>2
  <2>3. Len(q) = i + 1
    BY <1>4, <1>6
  <2>4. PICK R : q \in Seq(R)
    BY <1>6 DEF IsSequence
  <2>5. e = q
    BY <2>1, <2>2, <2>3, <2>4, SeqEqual
  <2>6. QED
    BY <2>5 DEF e
<1>8. Turns(q) = Turns(p)
  BY <1>1, <1>6, TurnsRecalled DEF q
<1>9. (i + 2) - 1 = i + 1
  BY <1>4
<1>10. QED
  BY <1>1, <1>7, <1>8, <1>9 DEF g, p
-----------------------------------------------------------------------------
\* A message that is no reply, or a reply that saw what is there, changes
\* nothing of that.
LEMMA ContextAppended ==
  ASSUME NEW h, IsSequence(h), InContext(h), NEW x,
         IsReply(x) => x.seen = Turns(h)
  PROVE  InContext(Append(h, x))
<1>1. /\ Len(h) \in Nat /\ Len(Append(h, x)) = Len(h) + 1
      /\ \A i \in 1..Len(h) : Append(h, x)[i] = h[i]
      /\ Append(h, x)[Len(h) + 1] = x
  BY Appended
<1> DEFINE g == Append(h, x)
<1>2. \A i \in 1..(Len(h) + 1) : SubSeq(g, 1, i - 1) = SubSeq(h, 1, i - 1)
  BY AppendedContext
<1>3. SubSeq(h, 1, Len(h)) = h
  BY DEF IsSequence
<1> HIDE DEF g
<1>4. ASSUME NEW i \in 1..Len(g), IsReply(g[i])
      PROVE  g[i].seen = Turns(SubSeq(g, 1, i - 1))
  <2>1. CASE i \in 1..Len(h)
    <3>1. g[i] = h[i] /\ SubSeq(g, 1, i - 1) = SubSeq(h, 1, i - 1)
      BY <1>1, <1>2, <2>1 DEF g
    <3>2. QED
      BY <1>4, <2>1, <3>1 DEF InContext
  <2>2. CASE i = Len(h) + 1
    <3>1. g[i] = x /\ SubSeq(g, 1, i - 1) = SubSeq(h, 1, i - 1) /\ i - 1 = Len(h)
      BY <1>1, <1>2, <2>2 DEF g
    <3>2. QED
      BY <1>3, <1>4, <3>1
  <2>3. QED
    BY <1>1, <2>1, <2>2 DEF g
<1>5. QED
  BY <1>4 DEF InContext, g

\* Nor does a recall pair in front.
LEMMA ContextRecalled ==
  ASSUME NEW h, IsSequence(h), InContext(h), NEW past
  PROVE  InContext(RecallPair(past) \o h)
<1> DEFINE a == Said("user", Recall, <<>>, past)
           b == Said("assistant", Recall, <<>>, {})
           g == RecallPair(past) \o h
<1>1. ~IsReply(a) /\ ~IsReply(b) /\ RecallPair(past) = <<a, b>>
  BY DEF IsReply, Said, RecallPair
<1> HIDE DEF a, b
<1>2. /\ Len(h) \in Nat /\ Len(g) = Len(h) + 2 /\ g[1] = a /\ g[2] = b
      /\ \A i \in 1..Len(h) : g[i + 2] = h[i]
  BY <1>1, Prepended
<1>3. \A i \in 1..Len(h) :
        Turns(SubSeq(g, 1, (i + 2) - 1)) = Turns(SubSeq(h, 1, i - 1))
  BY RecalledContext
<1> HIDE DEF g
<1>4. ASSUME NEW i \in 1..Len(g), IsReply(g[i])
      PROVE  g[i].seen = Turns(SubSeq(g, 1, i - 1))
  <2>1. i \notin {1, 2}
    BY <1>1, <1>2, <1>4
  <2>2. PICK j \in 1..Len(h) : i = j + 2
    <3>1. i - 2 \in 1..Len(h) /\ i = (i - 2) + 2
      BY <1>2, <2>1
    <3>2. QED
      BY <3>1
  <2>3. g[i] = h[j] /\ Turns(SubSeq(g, 1, i - 1)) = Turns(SubSeq(h, 1, j - 1))
    BY <1>2, <1>3, <2>2
  <2>4. QED
    BY <1>4, <2>3 DEF InContext
<1>5. QED
  BY <1>4 DEF InContext, g

\* What a turn holds and what is stored is in context.
ContextInv ==
  /\ ChatInv
  /\ \A r \in Requests : pc[r] \in {"recall", "agent", "save"} => InContext(local[r])
  /\ \A k \in Keys : InContext(store[k])

\* A step of the server that goes on with its copy.
LEMMA ContextWork ==
  ASSUME ContextInv, ChatInv', NEW r \in Requests, NEW step, NEW copy,
         pc' = [pc EXCEPT ![r] = step], local' = [local EXCEPT ![r] = copy],
         UNCHANGED store, InContext(copy)
  PROVE  ContextInv'
BY DEF ContextInv, ChatInv, ShapeOK

\* A step that leaves the copies and what is stored alone, or empties a key.
LEMMA ContextIdle ==
  ASSUME ContextInv, ChatInv', UNCHANGED local,
         \A r \in Requests : pc'[r] \in {"recall", "agent", "save"} => pc'[r] = pc[r],
         \A k \in Keys : store'[k] = store[k] \/ store'[k] = <<>>
  PROVE  ContextInv'
<1>1. InContext(<<>>)
  BY DEF InContext
<1>2. \A k \in Keys : InContext(store'[k])
  BY <1>1 DEF ContextInv
<1>3. QED
  BY <1>2 DEF ContextInv

\* The steps of a request keep the context.
LEMMA ContextServe ==
  ASSUME ContextInv, ChatInv', NEW r \in Requests, Serve(r)
  PROVE  ContextInv'
<1> DEFINE k == sent[r].key
<1>0. pc[r] \in Serving => k \in Keys
  BY DEF ContextInv, ChatInv, RequestOK
<1>1. CASE LoadHistory(r)
  <2> DEFINE h == store[k]
             chat == sent[r].kind = "chat"
             step == IF chat THEN "recall" ELSE "agent"
             copy == IF chat THEN h ELSE Append(h, UserMessage(r))
  <2>1. /\ pc[r] \in Serving /\ UNCHANGED store
        /\ pc' = [pc EXCEPT ![r] = step] /\ local' = [local EXCEPT ![r] = copy]
    BY <1>1 DEF LoadHistory, Serving
  <2>2. InContext(h) /\ IsSequence(h)
    BY <1>0, <2>1, CopiesAreSequences DEF ContextInv
  <2>3. ~IsReply(UserMessage(r))
    BY DEF IsReply, UserMessage, Said
  <2>4. InContext(Append(h, UserMessage(r)))
    BY <2>2, <2>3, ContextAppended
  <2>5. InContext(copy)
    BY <2>2, <2>4
  <2> HIDE DEF h, step, copy
  <2>6. QED
    BY <2>1, <2>5, ContextWork
<1>2. CASE RecallMemories(r)
  <2>1. PICK past \in Nearest(k) :
          local' = [local EXCEPT ![r] =
            Append((IF past = {} THEN <<>> ELSE RecallPair(past)) \o local[r], UserMessage(r))]
    BY <1>2 DEF RecallMemories
  <2> DEFINE h == local[r]
             g == (IF past = {} THEN <<>> ELSE RecallPair(past)) \o h
             copy == Append(g, UserMessage(r))
  <2>2. /\ pc[r] = "recall" /\ UNCHANGED store
        /\ pc' = [pc EXCEPT ![r] = "agent"] /\ local' = [local EXCEPT ![r] = copy]
    BY <1>2, <2>1 DEF RecallMemories
  <2>3. InContext(h) /\ IsSequence(h)
    BY <2>2, CopiesAreSequences DEF ContextInv
  <2>4. InContext(g) /\ IsSequence(g)
    <3>1. PICK S : h \in Seq(S)
      BY <2>3 DEF IsSequence
    <3>2. <<>> \o h = h
      BY <3>1, ConcatEmptySeq
    <3>3. CASE past = {}
      BY <2>3, <3>2, <3>3
    <3>4. CASE past # {}
      <4>1. InContext(RecallPair(past) \o h)
        BY <2>3, ContextRecalled
      <4>2. IsSequence(RecallPair(past) \o h)
        BY <2>3, Prepended DEF RecallPair
      <4>3. QED
        BY <3>4, <4>1, <4>2
    <3>5. QED
      BY <3>3, <3>4
  <2> HIDE DEF g
  <2>5. ~IsReply(UserMessage(r))
    BY DEF IsReply, UserMessage, Said
  <2>6. InContext(copy)
    BY <2>4, <2>5, ContextAppended
  <2> HIDE DEF h, copy
  <2>7. QED
    BY <2>2, <2>6, ContextWork
<1>3. CASE AgentAnswers(r)
  <2> DEFINE h == local[r]
             copy == Append(h, Reply(r, h))
  <2>1. /\ pc[r] = "agent" /\ UNCHANGED store
        /\ pc' = [pc EXCEPT ![r] = "save"] /\ local' = [local EXCEPT ![r] = copy]
    BY <1>3 DEF AgentAnswers
  <2>2. InContext(h) /\ IsSequence(h)
    BY <2>1, CopiesAreSequences DEF ContextInv
  <2>3. Reply(r, h).seen = Turns(h)
    BY DEF Reply, Said
  <2>4. InContext(copy)
    BY <2>2, <2>3, ContextAppended
  <2> HIDE DEF h, copy
  <2>5. QED
    BY <2>1, <2>4, ContextWork
<1>4. ASSUME NEW how \in {"done", "failed"}, End(r, how), pc[r] \in Serving,
             UNCHANGED store \/ (pc[r] = "save" /\ Write(r))
      PROVE  ContextInv'
  <2>1. /\ pc'[r] = how
        /\ \A s \in Requests \ {r} : pc'[s] = pc[s] /\ local'[s] = local[s]
    BY <1>4 DEF End, ContextInv, ChatInv, ShapeOK
  <2>2. \A s \in Requests : pc'[s] \in {"recall", "agent", "save"} => InContext(local'[s])
    BY <2>1 DEF ContextInv
  <2>3. ASSUME pc[r] = "save", Write(r), NEW j \in Keys
        PROVE  store'[j] \in {store[j], local[r]}
    BY <2>3 DEF Write, ContextInv, ChatInv, ShapeOK
  <2>4. \A j \in Keys : InContext(store'[j])
    BY <1>4, <2>3 DEF ContextInv
  <2>5. QED
    BY <2>2, <2>4 DEF ContextInv
<1>5. CASE SaveHistory(r)
  BY <1>4, <1>5 DEF SaveHistory, Serving
<1>6. CASE RequestFails(r)
  <2>1. UNCHANGED store \/ (pc[r] = "save" /\ Write(r))
    BY <1>6 DEF RequestFails
  <2>2. pc[r] \in Serving /\ End(r, "failed")
    BY <1>6 DEF RequestFails
  <2>3. QED
    BY <1>4, <2>1, <2>2
<1>7. QED
  BY <1>1, <1>2, <1>3, <1>5, <1>6 DEF Serve

\* Every step keeps the context.
LEMMA ContextNext == ContextInv /\ [Next]_vars => ContextInv'
<1> SUFFICES ASSUME ContextInv, [Next]_vars PROVE ContextInv'
  OBVIOUS
<1>1. ChatInv'
  BY ChatNext DEF ContextInv
<1>2. ASSUME NEW r \in Requests, NEW k \in Keys, Send(r, k) PROVE ContextInv'
  <2>1. UNCHANGED <<local, store>> /\ pc' = [pc EXCEPT ![r] = "load"]
    BY <1>2 DEF Send
  <2>2. \A s \in Requests : pc'[s] \in {"recall", "agent", "save"} => pc'[s] = pc[s]
    BY <2>1 DEF ContextInv, ChatInv, ShapeOK
  <2>3. QED
    BY <1>1, <2>1, <2>2, ContextIdle
<1>3. ASSUME NEW r \in Requests, Serve(r) PROVE ContextInv'
  BY <1>1, <1>3, ContextServe
<1>4. ASSUME UNCHANGED <<pc, local, store>> PROVE ContextInv'
  BY <1>1, <1>4, ContextIdle
<1>5. ASSUME NEW k \in Keys, Expire(k) PROVE ContextInv'
  <2>1. UNCHANGED <<pc, local>> /\ \A j \in Keys : store'[j] = store[j] \/ store'[j] = <<>>
    BY <1>5 DEF Expire, ContextInv, ChatInv, ShapeOK
  <2>2. QED
    BY <1>1, <2>1, ContextIdle
<1>6. QED
  BY <1>2, <1>3, <1>4, <1>5
     DEF Next, PatientNext, AgentRemembers, DeleteMemory, ClientGivesUp, Finished, vars

\* Every reply on record was written by a model that saw exactly the turns on
\* record before it, whatever turns overlap: they replace each other as a whole
\* and never mix.
THEOREM RepliesStayInContext == Spec => []RepliesKeepTheirContext
<1>1. Init => ContextInv
  <2>1. InContext(<<>>)
    BY DEF InContext
  <2>2. QED
    BY <2>1, ChatInit DEF Init, ContextInv
<1>2. ContextInv => RepliesKeepTheirContext
  BY DEF ContextInv, InContext, RepliesKeepTheirContext
<1>3. QED
  BY <1>1, <1>2, ContextNext, PTL DEF Spec
-----------------------------------------------------------------------------
\* The refinement of the conversation log by patient clients.
Holding == {"recall", "agent", "save"}

\* The log of k, as the refinement maps it.
Logged(k) == Turns(IF HeldCopy(k) = {} THEN store[k]
                   ELSE Unanswered(CHOOSE r \in HeldCopy(k) : TRUE))

\* What a turn holds without its reply is what is stored, or was before it
\* expired; its own reply comes last.
HeldOK(r) ==
  LET k == sent[r].key
      t == Turns(Unanswered(r)) IN
  pc[r] \in Holding =>
    /\ t \in Seq(Over(k))
    /\ Turns(store[k]) \in {t, <<>>}
    /\ pc[r] = "save" => Turns(local[r]) = Append(t, r)

LogInv ==
  /\ PatientInv
  /\ \A r \in Requests : pc[r] = "unsent" => client[r] = "idle"
  /\ \A k \in Keys : Turns(store[k]) \in Seq(Over(k))
  /\ \A r \in Requests : HeldOK(r)

\* A user message changes no turn, a reply adds its own.
LEMMA OwnMessages ==
  ASSUME NEW h, IsSequence(h), NEW r \in Requests
  PROVE  /\ Turns(Append(h, UserMessage(r))) = Turns(h)
         /\ Turns(Append(h, Reply(r, h))) = Append(Turns(h), r)
         /\ SubSeq(Append(h, Reply(r, h)), 1, Len(Append(h, Reply(r, h))) - 1) = h
<1>1. ~IsReply(UserMessage(r)) /\ IsReply(Reply(r, h)) /\ Reply(r, h).of = r
  BY ChatAssumption DEF IsReply, UserMessage, Reply, Said
<1>2. Turns(Append(h, UserMessage(r))) = Turns(h)
  BY <1>1, TurnsAppended
<1>3. Turns(Append(h, Reply(r, h))) = Append(Turns(h), r)
  BY <1>1, TurnsAppended
<1> DEFINE x == Reply(r, h)
           g == Append(h, x)
<1> HIDE DEF x
<1>4. Len(h) \in Nat /\ Len(g) = Len(h) + 1
  BY Appended
<1>5. SubSeq(g, 1, Len(h)) = SubSeq(h, 1, Len(h))
  <2>1. Len(h) + 1 \in 1..(Len(h) + 1) /\ (Len(h) + 1) - 1 = Len(h)
    BY <1>4
  <2>2. SubSeq(g, 1, (Len(h) + 1) - 1) = SubSeq(h, 1, (Len(h) + 1) - 1)
    BY <2>1, AppendedContext
  <2>3. QED
    BY <2>1, <2>2
<1>6. SubSeq(h, 1, Len(h)) = h
  BY DEF IsSequence
<1>7. Len(g) - 1 = Len(h)
  BY <1>4
<1>8. QED
  BY <1>2, <1>3, <1>5, <1>6, <1>7 DEF x

\* A step of one request on k: what is logged before and after.
LEMMA LogOfRequest ==
  ASSUME LogInv, OneAtATime', NEW r \in Requests, pc[r] \in Serving,
         UNCHANGED sent, sent[r].key \in Keys,
         \A s \in Requests \ {r} : pc'[s] = pc[s] /\ local'[s] = local[s],
         \A j \in Keys \ {sent[r].key} : store'[j] = store[j]
  PROVE  LET k == sent[r].key IN
         /\ \A j \in Keys \ {k} : Logged(j)' = Logged(j)
         /\ Logged(k) = Turns(IF pc[r] = "load" THEN store[k] ELSE Unanswered(r))
         /\ Logged(k)' = Turns(IF pc'[r] \in Holding THEN Unanswered(r)' ELSE store'[k])
<1> DEFINE k == sent[r].key
<1>1. \A s \in Requests \ {r} : pc[s] \in Serving => sent[s].key # k
  BY DEF LogInv, PatientInv, OneAtATime
<1>2. HeldCopy(k) = IF pc[r] = "load" THEN {} ELSE {r}
  BY <1>1 DEF HeldCopy, InFlight
<1>3. HeldCopy(k)' = IF pc'[r] \in Holding THEN {r} ELSE {}
  BY <1>1 DEF HeldCopy, InFlight, Holding, Serving
<1>4. ASSUME NEW j \in Keys \ {k} PROVE Logged(j)' = Logged(j)
  <2>1. HeldCopy(j)' = HeldCopy(j) /\ r \notin HeldCopy(j) /\ HeldCopy(j) \subseteq Requests
    BY DEF HeldCopy, InFlight
  <2>2. \A s \in HeldCopy(j) : Unanswered(s)' = Unanswered(s)
    BY <2>1 DEF Unanswered
  <2>3. CASE HeldCopy(j) = {}
    BY <2>1, <2>3 DEF Logged
  <2>4. CASE HeldCopy(j) # {}
    <3>1. PICK s \in HeldCopy(j) : s = CHOOSE x \in HeldCopy(j) : TRUE
      BY <2>4
    <3>2. Logged(j) = Turns(Unanswered(s))
      BY <2>4, <3>1 DEF Logged
    <3>3. Logged(j)' = Turns(Unanswered(s)')
      BY <2>1, <2>4, <3>1 DEF Logged
    <3>4. QED
      BY <2>2, <3>2, <3>3
  <2>5. QED
    BY <2>3, <2>4
<1>5. Logged(k) = Turns(IF pc[r] = "load" THEN store[k] ELSE Unanswered(r))
  <2>1. pc[r] # "load" => (CHOOSE x \in HeldCopy(k) : TRUE) = r
    BY <1>2
  <2>2. QED
    BY <1>2, <2>1 DEF Logged
<1>6. Logged(k)' = Turns(IF pc'[r] \in Holding THEN Unanswered(r)' ELSE store'[k])
  <2>1. pc'[r] \in Holding => (CHOOSE x \in HeldCopy(k)' : TRUE) = r
    BY <1>3
  <2>2. QED
    BY <1>3, <2>1 DEF Logged
<1>7. QED
  BY <1>4, <1>5, <1>6

\* What the invariant says of a turn that a step leaves alone, it says
\* afterwards, unless the step writes to its key.
LEMMA HeldKept ==
  ASSUME LogInv, NEW s \in Requests,
         UNCHANGED <<pc[s], local[s], sent[s]>>,
         LET k == sent[s].key IN
           pc[s] \in Holding => /\ Over(k) \subseteq Over(k)'
                                /\ store'[k] = store[k] \/ store'[k] = <<>>
  PROVE  HeldOK(s)'
<1> SUFFICES ASSUME pc[s] \in Holding PROVE HeldOK(s)'
  BY DEF HeldOK
<1> DEFINE k == sent[s].key
           t == Turns(Unanswered(s))
<1>1. /\ t \in Seq(Over(k)) /\ Turns(store[k]) \in {t, <<>>}
      /\ pc[s] = "save" => Turns(local[s]) = Append(t, s)
  BY DEF LogInv, HeldOK
<1>2. Unanswered(s)' = Unanswered(s)
  BY DEF Unanswered
<1>3. t' = t
  BY <1>2
<1> HIDE DEF t
<1>4. t \in Seq(Over(k)')
  BY <1>1
<1>5. Turns(store'[k]) \in {t, <<>>}
  BY <1>1, NoTurns
<1>6. QED
  BY <1>1, <1>3, <1>4, <1>5 DEF HeldOK, t

\* A step of the server that goes on with its copy.
LEMMA LogWork ==
  ASSUME LogInv, PatientInv', NEW r \in Requests, NEW step \in Holding, NEW copy,
         pc[r] \in Serving, UNCHANGED <<sent, client, store>>,
         pc' = [pc EXCEPT ![r] = step], local' = [local EXCEPT ![r] = copy],
         HeldOK(r)'
  PROVE  LogInv'
<1>1. /\ pc'[r] = step /\ local'[r] = copy
      /\ \A s \in Requests \ {r} : pc'[s] = pc[s] /\ local'[s] = local[s]
  BY DEF LogInv, PatientInv, ChatInv, ShapeOK
<1>2. \A k : Over(k)' = Over(k)
  BY <1>1 DEF Over, Serving, Holding
<1>3. \A s \in Requests \ {r} : HeldOK(s)'
  BY <1>1, <1>2, HeldKept
<1>4. \A s \in Requests : pc'[s] = "unsent" => client'[s] = "idle"
  BY <1>1 DEF LogInv, Serving, Holding
<1>5. \A k \in Keys : Turns(store'[k]) \in Seq(Over(k)')
  BY <1>2 DEF LogInv
<1>6. QED
  BY <1>3, <1>4, <1>5 DEF LogInv

\* The end of a request, with its save or without.
LEMMA LogEnds ==
  ASSUME LogInv, PatientInv', NEW r \in Requests, NEW how \in {"done", "failed"},
         pc[r] \in Serving, End(r, how), Tell(r, {"answered", "failed"}),
         UNCHANGED sent,
         UNCHANGED <<store, saved>> \/ (pc[r] = "save" /\ Write(r))
  PROVE  LogInv'
<1> DEFINE k == sent[r].key
<1>0. k \in Keys
  BY DEF LogInv, PatientInv, ChatInv, RequestOK
<1>1. /\ pc'[r] = how /\ pc[r] \notin {"done", "failed", "unsent"}
      /\ \A s \in Requests \ {r} : pc'[s] = pc[s] /\ local'[s] = local[s]
  BY DEF End, LogInv, PatientInv, ChatInv, ShapeOK, Serving
<1>2. \A j : Over(j) \subseteq Over(j)'
  BY <1>1 DEF Over
<1>3. r \in Over(k)'
  BY <1>1 DEF Over
<1>4. \A s \in Requests \ {r} : client'[s] = client[s]
  BY DEF Tell, LogInv, PatientInv, OneAtATime
<1>5. \A s \in Requests : pc'[s] = "unsent" => client'[s] = "idle"
  BY <1>1, <1>4 DEF LogInv
<1>6. \A s \in Requests \ {r} : pc[s] \in Holding => sent[s].key # k
  BY DEF LogInv, PatientInv, OneAtATime, Holding, Serving
<1>7. \A j \in Keys \ {k} : store'[j] = store[j]
  BY DEF Write, LogInv, PatientInv, ChatInv, ShapeOK
<1>8. \A s \in Requests \ {r} : pc[s] \in Holding => sent[s].key \in Keys
  BY DEF LogInv, PatientInv, ChatInv, RequestOK, Holding, Serving
<1>9. \A s \in Requests \ {r} : HeldOK(s)'
  BY <1>1, <1>2, <1>6, <1>7, <1>8, HeldKept
<1>10. HeldOK(r)'
  BY <1>1 DEF HeldOK, Holding
<1>11. ASSUME NEW j \in Keys PROVE Turns(store'[j]) \in Seq(Over(j)')
  <2>1. CASE store'[j] = store[j]
    BY <1>2, <2>1 DEF LogInv
  <2>2. CASE pc[r] = "save" /\ Write(r) /\ j = k
    <3> DEFINE t == Turns(Unanswered(r))
    <3>1. store'[j] = local[r]
      BY <1>0, <2>2 DEF Write, LogInv, PatientInv, ChatInv, ShapeOK
    <3>2. t \in Seq(Over(k)) /\ Turns(local[r]) = Append(t, r)
      BY <2>2 DEF LogInv, HeldOK, Holding
    <3> HIDE DEF t
    <3>3. t \in Seq(Over(k)')
      BY <1>2, <3>2
    <3>4. QED
      BY <1>3, <2>2, <3>1, <3>2, <3>3
  <2>3. QED
    BY <1>7, <2>1, <2>2
<1>12. QED
  BY <1>5, <1>9, <1>10, <1>11 DEF LogInv

\* While a turn is under way the turns of its copy, its own reply apart, are
\* those it loaded.
LEMMA CopyKeepsTurns ==
  ASSUME ChatInv, NEW r \in Requests,
         LoadHistory(r) \/ RecallMemories(r) \/ AgentAnswers(r)
  PROVE  LET k == sent[r].key
             t == Turns(IF pc[r] = "load" THEN store[k] ELSE Unanswered(r)) IN
         /\ pc[r] \in Serving /\ pc[r] # "save" /\ pc'[r] \in Holding
         /\ UNCHANGED <<sent, client, store>>
         /\ \E copy : local' = [local EXCEPT ![r] = copy]
         /\ \E step \in Holding : pc' = [pc EXCEPT ![r] = step]
         /\ Turns(Unanswered(r)') = t
         /\ pc'[r] = "save" => Turns(local'[r]) = Append(t, r)
<1> DEFINE k == sent[r].key
<1>0. pc[r] \in Serving => k \in Keys
  BY DEF ChatInv, RequestOK
<1>1. CASE LoadHistory(r)
  <2> DEFINE h == store[k]
             chat == sent[r].kind = "chat"
             step == IF chat THEN "recall" ELSE "agent"
             copy == IF chat THEN h ELSE Append(h, UserMessage(r))
  <2>1. /\ pc[r] \in Serving /\ pc[r] = "load" /\ UNCHANGED <<sent, client, store>>
        /\ pc' = [pc EXCEPT ![r] = step] /\ local' = [local EXCEPT ![r] = copy]
    BY <1>1 DEF LoadHistory, Serving
  <2>2. IsSequence(h)
    BY <1>0, <2>1, CopiesAreSequences
  <2>3. Turns(copy) = Turns(h)
    BY <2>2, OwnMessages
  <2>4. step \in Holding /\ step # "save"
    BY DEF Holding
  <2> HIDE DEF step, copy
  <2>5. pc'[r] = step /\ local'[r] = copy
    BY <2>1 DEF ChatInv, ShapeOK
  <2>6. Unanswered(r)' = copy
    BY <2>4, <2>5 DEF Unanswered
  <2>7. QED
    BY <2>1, <2>3, <2>4, <2>5, <2>6
<1>2. CASE RecallMemories(r)
  <2>1. PICK past \in Nearest(k) :
          local' = [local EXCEPT ![r] =
            Append((IF past = {} THEN <<>> ELSE RecallPair(past)) \o local[r], UserMessage(r))]
    BY <1>2 DEF RecallMemories
  <2> DEFINE h == local[r]
             g == (IF past = {} THEN <<>> ELSE RecallPair(past)) \o h
             copy == Append(g, UserMessage(r))
  <2>2. /\ pc[r] = "recall" /\ UNCHANGED <<sent, client, store>>
        /\ pc' = [pc EXCEPT ![r] = "agent"] /\ local' = [local EXCEPT ![r] = copy]
    BY <1>2, <2>1 DEF RecallMemories
  <2>3. IsSequence(h) /\ Unanswered(r) = h
    BY <2>2, CopiesAreSequences DEF Unanswered
  <2>4. Turns(g) = Turns(h) /\ IsSequence(g)
    <3>1. PICK S : h \in Seq(S)
      BY <2>3 DEF IsSequence
    <3>2. <<>> \o h = h
      BY <3>1, ConcatEmptySeq
    <3>3. CASE past = {}
      BY <2>3, <3>2, <3>3
    <3>4. CASE past # {}
      <4>1. Turns(RecallPair(past) \o h) = Turns(h)
        BY <2>3, TurnsRecalled
      <4>2. IsSequence(RecallPair(past) \o h)
        BY <2>3, Prepended DEF RecallPair
      <4>3. QED
        BY <3>4, <4>1, <4>2
    <3>5. QED
      BY <3>3, <3>4
  <2> HIDE DEF g
  <2>5. Turns(copy) = Turns(h)
    BY <2>4, OwnMessages
  <2> HIDE DEF copy
  <2>6. pc'[r] = "agent" /\ local'[r] = copy
    BY <2>2 DEF ChatInv, ShapeOK
  <2>7. Unanswered(r)' = copy
    BY <2>6 DEF Unanswered
  <2>8. pc[r] \in Serving /\ "agent" \in Holding
    BY <2>2 DEF Serving, Holding
  <2>9. QED
    BY <2>2, <2>3, <2>5, <2>6, <2>7, <2>8
<1>3. CASE AgentAnswers(r)
  <2> DEFINE h == local[r]
             copy == Append(h, Reply(r, h))
  <2>1. /\ pc[r] = "agent" /\ UNCHANGED <<sent, client, store>>
        /\ pc' = [pc EXCEPT ![r] = "save"] /\ local' = [local EXCEPT ![r] = copy]
    BY <1>3 DEF AgentAnswers
  <2>2. IsSequence(h) /\ Unanswered(r) = h
    BY <2>1, CopiesAreSequences DEF Unanswered
  <2>3. Turns(copy) = Append(Turns(h), r) /\ SubSeq(copy, 1, Len(copy) - 1) = h
    BY <2>2, OwnMessages
  <2> HIDE DEF copy
  <2>4. pc'[r] = "save" /\ local'[r] = copy
    BY <2>1 DEF ChatInv, ShapeOK
  <2>5. Unanswered(r)' = h
    BY <2>3, <2>4 DEF Unanswered
  <2>6. pc[r] \in Serving /\ "save" \in Holding
    BY <2>1 DEF Serving, Holding
  <2>7. QED
    BY <2>1, <2>2, <2>3, <2>4, <2>5, <2>6
<1>4. QED
  BY <1>1, <1>2, <1>3

\* The steps of the server keep the invariant.
LEMMA LogServe ==
  ASSUME LogInv, PatientInv', NEW r \in Requests, Serve(r)
  PROVE  LogInv'
<1> DEFINE k == sent[r].key
           t == Turns(IF pc[r] = "load" THEN store[k] ELSE Unanswered(r))
<1>1. CASE LoadHistory(r) \/ RecallMemories(r) \/ AgentAnswers(r)
  <2>1. ChatInv
    BY DEF LogInv, PatientInv
  <2>2. /\ pc[r] \in Serving /\ pc[r] # "save"
        /\ UNCHANGED <<sent, client, store>>
        /\ Turns(Unanswered(r)') = t
        /\ pc'[r] = "save" => Turns(local'[r]) = Append(t, r)
    BY <1>1, <2>1, CopyKeepsTurns
  <2>3. PICK copy : local' = [local EXCEPT ![r] = copy]
    BY <1>1, <2>1, CopyKeepsTurns
  <2>4. PICK step \in Holding : pc' = [pc EXCEPT ![r] = step]
    BY <1>1, <2>1, CopyKeepsTurns
  <2>5. k \in Keys
    BY <2>1, <2>2 DEF ChatInv, RequestOK
  <2>6. t \in Seq(Over(k)) /\ Turns(store[k]) \in {t, <<>>}
    <3>1. CASE pc[r] = "load"
      BY <2>5, <3>1 DEF LogInv
    <3>2. CASE pc[r] # "load"
      BY <2>2, <3>2 DEF LogInv, HeldOK, Holding, Serving
    <3>3. QED
      BY <3>1, <3>2
  <2>7. Over(k)' = Over(k)
    BY <2>1, <2>2, <2>4 DEF Over, ChatInv, ShapeOK, Holding, Serving
  <2>8. HeldOK(r)'
    <3> HIDE DEF t
    <3>1. QED
      BY <2>2, <2>6, <2>7 DEF HeldOK
  <2>9. QED
    BY <2>2, <2>3, <2>4, <2>8, LogWork
<1>2. CASE SaveHistory(r)
  BY <1>2, LogEnds DEF SaveHistory, Serving
<1>3. CASE RequestFails(r)
  <2>1. UNCHANGED <<store, saved>> \/ (pc[r] = "save" /\ Write(r))
    BY <1>3 DEF RequestFails
  <2>2. pc[r] \in Serving /\ End(r, "failed") /\ UNCHANGED sent
    BY <1>3 DEF RequestFails
  <2>3. Tell(r, {"answered", "failed"})
    BY <1>3 DEF RequestFails, Tell
  <2>4. QED
    BY <2>1, <2>2, <2>3, LogEnds
<1>4. QED
  BY <1>1, <1>2, <1>3 DEF Serve

\* A request that is sent holds nothing yet.
LEMMA LogSend ==
  ASSUME LogInv, PatientInv', NEW r \in Requests, NEW k \in Keys, Send(r, k)
  PROVE  LogInv'
<1>1. PICK kind \in IF k \in ChatKeys THEN {"chat"} ELSE {"widget", "stream"} :
        sent' = [sent EXCEPT ![r] = [kind |-> kind, key |-> k]]
  BY DEF Send
<1>2. /\ pc[r] = "unsent" /\ UNCHANGED <<local, store>>
      /\ pc' = [pc EXCEPT ![r] = "load"]
      /\ client' = [client EXCEPT ![r] = "waiting"]
  BY DEF Send
<1>3. /\ pc'[r] = "load"
      /\ \A s \in Requests \ {r} : sent'[s] = sent[s] /\ pc'[s] = pc[s] /\ client'[s] = client[s]
  BY <1>1, <1>2 DEF LogInv, PatientInv, ChatInv, ShapeOK, OneAtATime
<1>4. \A j : Over(j)' = Over(j)
  BY <1>2, <1>3 DEF Over
<1>5. \A s \in Requests \ {r} : HeldOK(s)'
  BY <1>2, <1>3, <1>4, HeldKept
<1>6. HeldOK(r)'
  BY <1>3 DEF HeldOK, Holding
<1>7. \A s \in Requests : pc'[s] = "unsent" => client'[s] = "idle"
  BY <1>3 DEF LogInv
<1>8. \A j \in Keys : Turns(store'[j]) \in Seq(Over(j)')
  BY <1>2, <1>4 DEF LogInv
<1>9. QED
  BY <1>5, <1>6, <1>7, <1>8 DEF LogInv

\* A step that serves or sends no request.
LEMMA LogIdle ==
  ASSUME LogInv, PatientInv', UNCHANGED <<sent, pc, local, client>>,
         \A k \in Keys : store'[k] = store[k] \/ store'[k] = <<>>
  PROVE  LogInv'
<1>1. \A j : Over(j)' = Over(j)
  BY DEF Over
<1>2. ASSUME NEW s \in Requests PROVE HeldOK(s)'
  <2>1. pc[s] \in Holding => sent[s].key \in Keys
    BY DEF LogInv, PatientInv, ChatInv, RequestOK, Serving, Holding
  <2>2. QED
    BY <1>1, <2>1, HeldKept
<1>3. ASSUME NEW j \in Keys PROVE Turns(store'[j]) \in Seq(Over(j)')
  <2>1. CASE store'[j] = store[j]
    BY <1>1, <2>1 DEF LogInv
  <2>2. CASE store'[j] = <<>>
    <3>1. \A S : <<>> \in Seq(S)
      OBVIOUS
    <3>2. QED
      BY <2>2, <3>1, NoTurns
  <2>3. QED
    BY <2>1, <2>2
<1>4. QED
  BY <1>2, <1>3 DEF LogInv

\* Every step of a system with patient clients keeps the invariant.
LEMMA LogNext == LogInv /\ [PatientNext]_vars => LogInv'
<1> SUFFICES ASSUME LogInv, [PatientNext]_vars PROVE LogInv'
  OBVIOUS
<1>1. PatientInv'
  BY PatientStep DEF LogInv
<1>2. ASSUME NEW r \in Requests, NEW k \in Keys, Send(r, k) PROVE LogInv'
  BY <1>1, <1>2, LogSend
<1>3. ASSUME NEW r \in Requests, Serve(r) PROVE LogInv'
  BY <1>1, <1>3, LogServe
<1>4. ASSUME UNCHANGED <<sent, pc, local, client, store>> PROVE LogInv'
  BY <1>1, <1>4, LogIdle
<1>5. ASSUME NEW k \in Keys, Expire(k) PROVE LogInv'
  <2>1. /\ UNCHANGED <<sent, pc, local, client>>
        /\ \A j \in Keys : store'[j] = store[j] \/ store'[j] = <<>>
    BY <1>5 DEF Expire, LogInv, PatientInv, ChatInv, ShapeOK
  <2>2. QED
    BY <1>1, <2>1, LogIdle
<1>6. QED
  BY <1>2, <1>3, <1>4, <1>5
     DEF PatientNext, AgentRemembers, DeleteMemory, Finished, vars

\* Nothing logged is the turn of a request that is still under way.
LEMMA NotYetLogged ==
  ASSUME LogInv, NEW r \in Requests, pc[r] \in Serving, NEW k \in Keys
  PROVE  \A i \in 1..Len(Logged(k)) : Logged(k)[i] # r
<1>1. r \notin Over(k)
  BY DEF Over, Serving
<1>2. Logged(k) \in Seq(Over(k))
  <2>1. CASE HeldCopy(k) = {}
    BY <2>1 DEF Logged, LogInv
  <2>2. CASE HeldCopy(k) # {}
    <3>1. PICK s \in HeldCopy(k) : s = CHOOSE x \in HeldCopy(k) : TRUE
      BY <2>2
    <3>2. Logged(k) = Turns(Unanswered(s))
      BY <2>2, <3>1 DEF Logged
    <3>3. s \in Requests /\ pc[s] \in Holding /\ sent[s].key = k
      BY DEF HeldCopy, InFlight, Holding, Serving
    <3>4. Turns(Unanswered(s)) \in Seq(Over(k))
      BY <3>3 DEF LogInv, HeldOK
    <3>5. QED
      BY <3>2, <3>4
  <2>3. QED
    BY <2>1, <2>2
<1>3. QED
  BY <1>1, <1>2

\* Every step of the server is a step of the log, or none.
LEMMA ServeRefines ==
  ASSUME LogInv, LogInv', NEW r \in Requests, Serve(r)
  PROVE  Log!Next \/ UNCHANGED Log!vars
<1> DEFINE k == sent[r].key
           logged == [j \in Keys |-> Logged(j)]
           acked == {s \in Requests : client[s] = "answered"}
           t == Turns(IF pc[r] = "load" THEN store[k] ELSE Unanswered(r))
<1>0. ChatInv /\ OneAtATime /\ OneAtATime' /\ HeldOK(r)
  BY DEF LogInv, PatientInv
<1>1. pc[r] \in Serving /\ UNCHANGED sent
  BY DEF Serve, LoadHistory, RecallMemories, AgentAnswers, SaveHistory, RequestFails, Serving
<1>2. k \in Keys
  BY <1>0, <1>1 DEF ChatInv, RequestOK
<1>3. client[r] = "waiting"
  BY <1>0, <1>1 DEF OneAtATime
<1>4. CASE LoadHistory(r) \/ RecallMemories(r) \/ AgentAnswers(r)
  <2>1. /\ pc'[r] \in Holding /\ UNCHANGED <<client, store>>
        /\ Turns(Unanswered(r)') = t
    BY <1>0, <1>4, CopyKeepsTurns
  <2>2. PICK copy : local' = [local EXCEPT ![r] = copy]
    BY <1>0, <1>4, CopyKeepsTurns
  <2>3. PICK step \in Holding : pc' = [pc EXCEPT ![r] = step]
    BY <1>0, <1>4, CopyKeepsTurns
  <2>4. \A s \in Requests \ {r} : pc'[s] = pc[s] /\ local'[s] = local[s]
    BY <1>0, <2>2, <2>3 DEF ChatInv, ShapeOK
  <2>5. /\ \A j \in Keys \ {k} : Logged(j)' = Logged(j)
        /\ Logged(k) = t
        /\ Logged(k)' = Turns(IF pc'[r] \in Holding THEN Unanswered(r)' ELSE store'[k])
    BY <1>0, <1>1, <1>2, <2>1, <2>4, LogOfRequest
  <2>6. Logged(k)' = Logged(k)
    BY <2>1, <2>5
  <2>7. logged' = logged
    BY <1>1, <2>5, <2>6
  <2>8. acked' = acked
    BY <2>1
  <2>9. UNCHANGED Log!vars
    BY <2>7, <2>8 DEF Log!vars, Logged
  <2>10. QED
    BY <2>9
<1>5. ASSUME NEW how \in {"done", "failed"}, End(r, how), Tell(r, {"answered", "failed"}),
             \/ UNCHANGED store /\ Tell(r, {"failed"})
             \/ pc[r] = "save" /\ Write(r)
      PROVE  Log!Next \/ UNCHANGED Log!vars
  <2>1. /\ pc'[r] = how /\ pc'[r] \notin Holding
        /\ \A s \in Requests \ {r} : pc'[s] = pc[s] /\ local'[s] = local[s]
    BY <1>0, <1>5 DEF End, ChatInv, ShapeOK, Holding
  <2>2. \A j \in Keys \ {k} : store'[j] = store[j]
    BY <1>0, <1>5 DEF Write, ChatInv, ShapeOK
  <2>3. /\ \A j \in Keys \ {k} : Logged(j)' = Logged(j)
        /\ Logged(k) = t
        /\ Logged(k)' = Turns(IF pc'[r] \in Holding THEN Unanswered(r)' ELSE store'[k])
    BY <1>0, <1>1, <1>2, <2>1, <2>2, LogOfRequest
  <2>4. Logged(k)' = Turns(store'[k])
    BY <2>1, <2>3
  <2>5. logged' = [logged EXCEPT ![k] = Logged(k)']
    BY <1>1, <1>2, <2>3
  <2>6. acked' \in {acked, acked \cup {r}} /\ r \notin acked
    <3>1. PICK o \in {"answered", "failed"} : client' = [client EXCEPT ![r] = o]
      BY <1>3, <1>5 DEF Tell
    <3>2. client'[r] = o /\ \A s \in Requests \ {r} : client'[s] = client[s]
      BY <1>0, <3>1 DEF OneAtATime
    <3>3. QED
      BY <1>3, <3>2
  <2>7. ASSUME pc[r] = "save", Write(r)
        PROVE  Log!Turn(k, r)
    <3>1. store'[k] = local[r]
      BY <1>0, <1>2, <2>7 DEF Write, ChatInv, ShapeOK
    <3>2. Logged(k)' = Append(Logged(k), r)
      BY <1>0, <2>3, <2>4, <2>7, <3>1 DEF HeldOK, Holding
    <3>3. logged' = [logged EXCEPT ![k] = Append(@, r)]
      BY <1>2, <2>5, <3>2
    <3>4. \A j \in Keys : \A i \in 1..Len(logged[j]) : logged[j][i] # r
      BY <1>1, NotYetLogged
    <3>5. QED
      BY <2>6, <3>3, <3>4 DEF Log!Turn, Log!Recorded, Logged
  <2>8. ASSUME UNCHANGED store, Tell(r, {"failed"})
        PROVE  Log!Forget(k) \/ UNCHANGED Log!vars
    <3>1. acked' = acked
      <4>1. client' = [client EXCEPT ![r] = "failed"]
        BY <1>3, <2>8 DEF Tell
      <4>2. client'[r] = "failed" /\ \A s \in Requests \ {r} : client'[s] = client[s]
        BY <1>0, <4>1 DEF OneAtATime
      <4>3. QED
        BY <1>3, <4>2
    <3>2. t = Turns(store[k]) \/ Turns(store[k]) = <<>>
      BY <1>0, <1>1 DEF HeldOK, Holding, Serving
    <3>3. CASE t = Turns(store[k])
      <4>1. Logged(k)' = Logged(k)
        BY <2>3, <2>4, <2>8, <3>3
      <4>2. logged' = logged
        BY <1>1, <2>3, <4>1
      <4>3. QED
        BY <3>1, <4>2 DEF Log!vars, Logged
    <3>4. CASE Turns(store[k]) = <<>>
      <4>1. logged' = [logged EXCEPT ![k] = <<>>]
        BY <2>4, <2>5, <2>8, <3>4
      <4>2. QED
        BY <3>1, <4>1 DEF Log!Forget, Logged
    <3>5. QED
      BY <3>2, <3>3, <3>4
  <2>9. QED
    BY <1>2, <1>5, <2>7, <2>8 DEF Log!Next
<1>6. CASE SaveHistory(r)
  BY <1>5, <1>6 DEF SaveHistory
<1>7. CASE RequestFails(r)
  <2>1. \/ UNCHANGED store /\ Tell(r, {"failed"})
        \/ pc[r] = "save" /\ Write(r)
    BY <1>7 DEF RequestFails
  <2>2. End(r, "failed") /\ Tell(r, {"answered", "failed"})
    BY <1>7 DEF RequestFails, Tell
  <2>3. QED
    BY <1>5, <2>1, <2>2
<1>8. QED
  BY <1>4, <1>6, <1>7 DEF Serve

\* The log of a key that a step leaves alone.
LEMMA SameLog ==
  ASSUME NEW k, HeldCopy(k)' = HeldCopy(k), HeldCopy(k) \subseteq Requests,
         \A s \in HeldCopy(k) : pc'[s] = pc[s] /\ local'[s] = local[s],
         HeldCopy(k) = {} => store'[k] = store[k]
  PROVE  Logged(k)' = Logged(k)
<1>1. CASE HeldCopy(k) = {}
  BY <1>1 DEF Logged
<1>2. CASE HeldCopy(k) # {}
  <2>1. PICK s \in HeldCopy(k) : s = CHOOSE x \in HeldCopy(k) : TRUE
    BY <1>2
  <2>2. Logged(k) = Turns(Unanswered(s)) /\ Logged(k)' = Turns(Unanswered(s)')
    BY <1>2, <2>1 DEF Logged
  <2>3. Unanswered(s)' = Unanswered(s)
    BY DEF Unanswered
  <2>4. QED
    BY <2>2, <2>3
<1>3. QED
  BY <1>1, <1>2

\* The other steps: only an expiry between two turns changes the log.
LEMMA OtherStepsRefine ==
  ASSUME LogInv, [PatientNext]_vars, ~(\E r \in Requests : Serve(r))
  PROVE  Log!Next \/ UNCHANGED Log!vars
<1> DEFINE logged == [j \in Keys |-> Logged(j)]
           acked == {s \in Requests : client[s] = "answered"}
<1>1. ASSUME NEW r \in Requests, NEW k \in Keys, Send(r, k)
      PROVE  UNCHANGED Log!vars
  <2>1. PICK kind \in IF k \in ChatKeys THEN {"chat"} ELSE {"widget", "stream"} :
          sent' = [sent EXCEPT ![r] = [kind |-> kind, key |-> k]]
    BY <1>1 DEF Send
  <2>2. /\ pc[r] = "unsent" /\ UNCHANGED <<local, store>>
        /\ pc' = [pc EXCEPT ![r] = "load"]
        /\ client' = [client EXCEPT ![r] = "waiting"]
    BY <1>1 DEF Send
  <2>3. /\ pc'[r] = "load" /\ client'[r] = "waiting" /\ client[r] = "idle"
        /\ \A s \in Requests \ {r} : sent'[s] = sent[s] /\ pc'[s] = pc[s] /\ client'[s] = client[s]
    BY <2>1, <2>2 DEF LogInv, PatientInv, ChatInv, ShapeOK, OneAtATime
  <2>4. ASSUME NEW j \in Keys PROVE Logged(j)' = Logged(j)
    <3>1. HeldCopy(j)' = HeldCopy(j) /\ r \notin HeldCopy(j) /\ HeldCopy(j) \subseteq Requests
      BY <2>2, <2>3 DEF HeldCopy, InFlight, Serving
    <3>2. QED
      BY <2>2, <2>3, <3>1, SameLog
  <2>5. logged' = logged
    BY <2>4
  <2>6. acked' = acked
    BY <2>3
  <2>7. QED
    BY <2>5, <2>6 DEF Log!vars, Logged
<1>2. ASSUME UNCHANGED <<sent, pc, local, client, store>>
      PROVE  UNCHANGED Log!vars
  BY <1>2 DEF Log!vars, HeldCopy, InFlight, Unanswered
<1>3. ASSUME NEW k \in Keys, Expire(k)
      PROVE  Log!Forget(k) \/ UNCHANGED Log!vars
  <2>1. /\ UNCHANGED <<sent, pc, local, client>>
        /\ store'[k] = <<>> /\ \A j \in Keys \ {k} : store'[j] = store[j]
    BY <1>3 DEF Expire, LogInv, PatientInv, ChatInv, ShapeOK
  <2>2. \A j : HeldCopy(j)' = HeldCopy(j) /\ HeldCopy(j) \subseteq Requests
    BY <2>1 DEF HeldCopy, InFlight
  <2>3. \A j \in Keys \ {k} : Logged(j)' = Logged(j)
    BY <2>1, <2>2, SameLog
  <2>4. acked' = acked
    BY <2>1
  <2>5. CASE HeldCopy(k) = {}
    <3>1. Logged(k)' = <<>>
      BY <2>1, <2>2, <2>5, NoTurns DEF Logged
    <3>2. logged' = [logged EXCEPT ![k] = <<>>]
      BY <2>3, <3>1
    <3>3. QED
      BY <2>4, <3>2 DEF Log!Forget, Logged
  <2>6. CASE HeldCopy(k) # {}
    <3>1. Logged(k)' = Logged(k)
      BY <2>1, <2>2, <2>6, SameLog
    <3>2. logged' = logged
      BY <2>3, <3>1
    <3>3. QED
      BY <2>4, <3>2 DEF Log!vars, Logged
  <2>7. QED
    BY <2>5, <2>6
<1>4. QED
  BY <1>1, <1>2, <1>3
     DEF PatientNext, Log!Next, AgentRemembers, DeleteMemory, Finished, vars

\* With clients that wait for every answer, the read, the agent and the write
\* of a turn are as good as one step: each conversation is a log that grows by
\* whole turns, none twice and none after its answer went out, until it is
\* forgotten as a whole.
THEOREM PatienceImplementsLog == PatientSpec => ImplementsLog
<1>1. Init => LogInv
  <2> SUFFICES ASSUME Init PROVE LogInv
    OBVIOUS
  <2>1. PatientInv
    BY PatientInit
  <2>2. \A k \in Keys : Turns(store[k]) \in Seq(Over(k))
    <3>1. \A S : <<>> \in Seq(S)
      OBVIOUS
    <3>2. QED
      BY <3>1, NoTurns DEF Init
  <2>3. \A r \in Requests : HeldOK(r)
    BY DEF Init, HeldOK, Holding
  <2>4. \A r \in Requests : pc[r] = "unsent" => client[r] = "idle"
    BY DEF Init
  <2>5. QED
    BY <2>1, <2>2, <2>3, <2>4 DEF LogInv
<1>2. Init => Log!Init
  <2> SUFFICES ASSUME Init PROVE Log!Init
    OBVIOUS
  <2>1. \A k \in Keys : HeldCopy(k) = {} /\ store[k] = <<>>
    BY DEF Init, HeldCopy, InFlight, Serving
  <2>2. \A r \in Requests : client[r] # "answered"
    BY DEF Init
  <2>3. QED
    BY <2>1, <2>2, NoTurns DEF Log!Init
<1>3. LogInv /\ LogInv' /\ [PatientNext]_vars => [Log!Next]_Log!vars
  <2> SUFFICES ASSUME LogInv, LogInv', [PatientNext]_vars
               PROVE  Log!Next \/ UNCHANGED Log!vars
    OBVIOUS
  <2>1. CASE \E r \in Requests : Serve(r)
    BY <2>1, ServeRefines
  <2>2. CASE ~(\E r \in Requests : Serve(r))
    BY <2>2, OtherStepsRefine
  <2>3. QED
    BY <2>1, <2>2
<1>4. QED
  BY <1>1, <1>2, <1>3, LogNext, PTL DEF PatientSpec, ImplementsLog, Log!Spec
==============================================================================
