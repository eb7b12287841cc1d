------------------------- MODULE WidgetStreamProofs -------------------------
(***************************************************************************)
(* Proofs about WidgetStream.  Whichever provider fails, and whenever,     *)
(* what the agent says in one of its turns comes from one provider         *)
(* (OneVoice).  However the network cuts the stream, and wherever it       *)
(* breaks, nothing the server said is lost, repeated or put into the       *)
(* wrong bubble (NothingIsLost), a reply shown as finished is recorded     *)
(* word for word (FinishedIsSaved), and the page is busy exactly while it  *)
(* reads a response (PageSettles).  However the tool calls of a reply are  *)
(* cut up on the way, they are put together again (RepliesAreAssembled).   *)
(*                                                                         *)
(* Those on the page rest on FlowInv: what is under way to the reader is a *)
(* sequence of events, each followed by two newlines, of which the buffer  *)
(* never holds a whole one; "done" can only be the last event, and it is   *)
(* under way or handled exactly when the reply has been saved.  Texts,     *)
(* pages and the calls of a reply are defined by recursion, so their       *)
(* lemmas go by induction: over sets of numbers and of sequences, since    *)
(* the library's own induction theorems take an operator.                  *)
(***************************************************************************)
EXTENDS WidgetStream, LLMReplies, FiniteSetTheorems, SequenceTheorems, WellFoundedInduction,
        TLAPS

Less == {p \in Nat \X Nat : p[1] < p[2]}

\* A set of numbers that has 0 and with every number its successor has all.
LEMMA NatSetInduction ==
  ASSUME NEW T, 0 \in T, \A n \in Nat : n \in T => n + 1 \in T
  PROVE  Nat \subseteq T
<1>1. IsWellFoundedOn(Less, Nat)
  BY NatLessThanWellFounded DEF OpToRel, Less
<1> DEFINE U == Nat \ T
<1> SUFFICES ASSUME U # {} PROVE FALSE
  OBVIOUS
<1>2. PICK x \in U : \A y \in U : ~(<<y, x>> \in Less)
  <2>1. U \subseteq Nat
    OBVIOUS
  <2> HIDE DEF U
  <2> QED
    BY <1>1, <2>1, WFMin
<1>3. x # 0 /\ x \in Nat
  OBVIOUS
<1>4. x - 1 \in T
  <2>1. <<x - 1, x>> \in Less
    BY <1>3 DEF Less
  <2> QED
    BY <1>2, <1>3, <2>1
<1> QED
  BY <1>3, <1>4

\* A set of sequences that has the empty one and with every sequence those
\* longer by one has all.
LEMMA SeqSetInduction ==
  ASSUME NEW S, NEW T, <<>> \in T,
         \A s \in Seq(S) : \A x \in S : s \in T => Append(s, x) \in T
  PROVE  Seq(S) \subseteq T
<1> DEFINE N == {n \in Nat : \A s \in Seq(S) : Len(s) = n => s \in T}
<1>1. 0 \in N
  BY EmptySeq
<1>2. ASSUME NEW n \in Nat, n \in N PROVE n + 1 \in N
  <2> SUFFICES ASSUME NEW s \in Seq(S), Len(s) = n + 1 PROVE s \in T
    OBVIOUS
  <2>1. s # <<>>
    BY EmptySeq
  <2>2. PICK w \in Seq(S), x \in S : s = Append(w, x)
    BY <2>1, SequenceEmptyOrAppend
  <2>3. Len(w) = n
    BY <2>2
  <2>4. QED
    BY <1>2, <2>2, <2>3
<1>3. Nat \subseteq N
  <2> HIDE DEF N
  <2>1. QED
    BY <1>1, <1>2, NatSetInduction
<1>4. QED
  BY <1>3

-----------------------------------------------------------------------------
\* f[i] is the text of the first i units of u, up to the n-th.
AreTexts(f, u, n) ==
  f = [i \in 0..n |->
         IF i = 0 THEN <<>>
         ELSE IF IsTokenEvent(u[i]) THEN Append(f[i - 1], u[i].token)
         ELSE f[i - 1]]

\* f[i] is the page after the first i of the n units of u.
ArePages(f, p, u, n) ==
  f = [i \in 0..n |->
         IF i = 0 THEN p
         ELSE IF IsEvent(u[i]) THEN Handle(f[i - 1], u[i])
         ELSE f[i - 1]]

\* There are such functions; TextOf and HandleAll are their last values, and
\* what one unit more does to those.
LEMMA TextsAreDefined ==
  ASSUME NEW S, NEW u \in Seq(S)
  PROVE  \E f : AreTexts(f, u, Len(u)) /\ TextOf(u) = f[Len(u)]
<1> DEFINE T == {n \in Nat : \E f : AreTexts(f, u, n)}
<1>1. 0 \in T
  <2>1. AreTexts([i \in 0..0 |-> <<>>], u, 0)
    BY DEF AreTexts
  <2>2. QED
    BY <2>1
<1>2. ASSUME NEW n \in Nat, n \in T PROVE n + 1 \in T
  <2>1. PICK f : AreTexts(f, u, n)
    BY <1>2
  <2> DEFINE last == IF IsTokenEvent(u[n + 1]) THEN Append(f[n], u[n + 1].token) ELSE f[n]
             g == [i \in 0..(n + 1) |-> IF i = n + 1 THEN last ELSE f[i]]
  <2>2. g[n + 1] = last /\ \A i \in 0..n : g[i] = f[i]
    OBVIOUS
  <2>3. g = [i \in 0..(n + 1) |-> g[i]]
    OBVIOUS
  <2>4. last = IF IsTokenEvent(u[n + 1]) THEN Append(g[n], u[n + 1].token) ELSE g[n]
    BY <2>2
  <2> HIDE DEF last, g
  <2>5. ASSUME NEW i \in 0..(n + 1)
        PROVE  g[i] = IF i = 0 THEN <<>>
                      ELSE IF IsTokenEvent(u[i]) THEN Append(g[i - 1], u[i].token)
                      ELSE g[i - 1]
    <3>1. CASE i = n + 1
      BY <2>2, <2>4, <3>1
    <3>2. CASE i \in 0..n
      <4>1. f[i] = IF i = 0 THEN <<>>
                   ELSE IF IsTokenEvent(u[i]) THEN Append(f[i - 1], u[i].token)
                   ELSE f[i - 1]
        BY <2>1, <3>2 DEF AreTexts
      <4>2. g[i] = f[i] /\ (i # 0 => g[i - 1] = f[i - 1])
        BY <2>2, <3>2
      <4>3. QED
        BY <4>1, <4>2
    <3>3. QED
      BY <3>1, <3>2
  <2>6. AreTexts(g, u, n + 1)
    BY <2>3, <2>5 DEF AreTexts
  <2>7. QED
    BY <2>6
<1>3. Len(u) \in T
  <2> HIDE DEF T
  <2>1. QED
    BY <1>1, <1>2, NatSetInduction
<1> DEFINE upTo == CHOOSE f : AreTexts(f, u, Len(u))
<1>4. AreTexts(upTo, u, Len(u))
  BY <1>3
<1>5. TextOf(u) = upTo[Len(u)]
  BY DEF TextOf, AreTexts
<1>6. QED
  BY <1>4, <1>5

\* The same for pages.
LEMMA PagesAreDefined ==
  ASSUME NEW S, NEW u \in Seq(S), NEW p
  PROVE  \E f : ArePages(f, p, u, Len(u)) /\ HandleAll(p, u) = f[Len(u)]
<1> DEFINE T == {n \in Nat : \E f : ArePages(f, p, u, n)}
<1>1. 0 \in T
  <2>1. ArePages([i \in 0..0 |-> p], p, u, 0)
    BY DEF ArePages
  <2>2. QED
    BY <2>1
<1>2. ASSUME NEW n \in Nat, n \in T PROVE n + 1 \in T
  <2>1. PICK f : ArePages(f, p, u, n)
    BY <1>2
  <2> DEFINE last == IF IsEvent(u[n + 1]) THEN Handle(f[n], u[n + 1]) ELSE f[n]
             g == [i \in 0..(n + 1) |-> IF i = n + 1 THEN last ELSE f[i]]
  <2>2. g[n + 1] = last /\ \A i \in 0..n : g[i] = f[i]
    OBVIOUS
  <2>3. g = [i \in 0..(n + 1) |-> g[i]]
    OBVIOUS
  <2>4. last = IF IsEvent(u[n + 1]) THEN Handle(g[n], u[n + 1]) ELSE g[n]
    BY <2>2
  <2> HIDE DEF last, g
  <2>5. ASSUME NEW i \in 0..(n + 1)
        PROVE  g[i] = IF i = 0 THEN p
                      ELSE IF IsEvent(u[i]) THEN Handle(g[i - 1], u[i]) ELSE g[i - 1]
    <3>1. CASE i = n + 1
      BY <2>2, <2>4, <3>1
    <3>2. CASE i \in 0..n
      <4>1. f[i] = IF i = 0 THEN p
                   ELSE IF IsEvent(u[i]) THEN Handle(f[i - 1], u[i]) ELSE f[i - 1]
        BY <2>1, <3>2 DEF ArePages
      <4>2. g[i] = f[i] /\ (i # 0 => g[i - 1] = f[i - 1])
        BY <2>2, <3>2
      <4>3. QED
        BY <4>1, <4>2
    <3>3. QED
      BY <3>1, <3>2
  <2>6. ArePages(g, p, u, n + 1)
    BY <2>3, <2>5 DEF ArePages
  <2>7. QED
    BY <2>6
<1>3. Len(u) \in T
  <2> HIDE DEF T
  <2>1. QED
    BY <1>1, <1>2, NatSetInduction
<1> DEFINE after == CHOOSE f : ArePages(f, p, u, Len(u))
<1>4. ArePages(after, p, u, Len(u))
  BY <1>3
<1>5. HandleAll(p, u) = after[Len(u)]
  BY DEF HandleAll, ArePages
<1>6. QED
  BY <1>4, <1>5

\* One unit more.
LEMMA TextAppended ==
  ASSUME NEW S, NEW u \in Seq(S), NEW x \in S
  PROVE  /\ TextOf(<<>>) = <<>>
         /\ TextOf(Append(u, x)) =
              IF IsTokenEvent(x) THEN Append(TextOf(u), x.token) ELSE TextOf(u)
<1> DEFINE v == Append(u, x)
           n == Len(u)
<1>1. /\ n \in Nat /\ v \in Seq(S) /\ Len(v) = n + 1 /\ v[n + 1] = x
      /\ \A i \in 1..n : v[i] = u[i]
  BY AppendProperties
<1> HIDE DEF v, n
<1>2. PICK f : AreTexts(f, u, n) /\ TextOf(u) = f[n]
  BY TextsAreDefined DEF n
<1>3. PICK g : AreTexts(g, v, n + 1) /\ TextOf(v) = g[n + 1]
  BY <1>1, TextsAreDefined
<1>4. \A i \in 0..n : g[i] = f[i]
  <2> DEFINE T == {i \in Nat : i <= n => g[i] = f[i]}
  <2>1. 0 \in T
    BY <1>1, <1>2, <1>3 DEF AreTexts
  <2>2. ASSUME NEW i \in Nat, i \in T PROVE i + 1 \in T
    <3> SUFFICES ASSUME i + 1 <= n PROVE g[i + 1] = f[i + 1]
      OBVIOUS
    <3>1. i + 1 \in 0..n /\ i + 1 \in 0..(n + 1) /\ i + 1 # 0 /\ (i + 1) - 1 = i /\ i + 1 \in 1..n
      BY <1>1
    <3>2. g[i] = f[i] /\ v[i + 1] = u[i + 1]
      BY <1>1, <2>2, <3>1
    <3>3. f[i + 1] = IF IsTokenEvent(u[i + 1]) THEN Append(f[i], u[i + 1].token) ELSE f[i]
      BY <1>2, <3>1 DEF AreTexts
    <3>4. g[i + 1] = IF IsTokenEvent(v[i + 1]) THEN Append(g[i], v[i + 1].token) ELSE g[i]
      BY <1>3, <3>1 DEF AreTexts
    <3>5. QED
      BY <3>2, <3>3, <3>4
  <2>3. Nat \subseteq T
    <3> HIDE DEF T
    <3>1. QED
      BY <2>1, <2>2, NatSetInduction
  <2>4. QED
    BY <1>1, <2>3
<1>5. g[n + 1] = IF IsTokenEvent(x) THEN Append(f[n], x.token) ELSE f[n]
  <2>1. n + 1 \in 0..(n + 1) /\ n + 1 # 0 /\ (n + 1) - 1 = n /\ n \in 0..n
    BY <1>1
  <2>2. g[n + 1] = IF IsTokenEvent(v[n + 1]) THEN Append(g[n], v[n + 1].token) ELSE g[n]
    BY <1>3, <2>1 DEF AreTexts
  <2>3. QED
    BY <1>1, <1>4, <2>1, <2>2
<1>6. TextOf(<<>>) = <<>>
  <2>1. <<>> \in Seq(S) /\ Len(<<>>) = 0
    BY EmptySeq
  <2>2. PICK e : AreTexts(e, <<>>, 0) /\ TextOf(<<>>) = e[0]
    BY <2>1, TextsAreDefined
  <2>3. QED
    BY <2>2 DEF AreTexts
<1>7. QED
  BY <1>2, <1>3, <1>5, <1>6 DEF v

\* A page handles no unit by staying as it is, and one unit more after the others.
LEMMA PageAppended ==
  ASSUME NEW S, NEW u \in Seq(S), NEW x \in S, NEW p
  PROVE  /\ HandleAll(p, <<>>) = p
         /\ HandleAll(p, Append(u, x)) =
              IF IsEvent(x) THEN Handle(HandleAll(p, u), x) ELSE HandleAll(p, u)
<1> DEFINE v == Append(u, x)
           n == Len(u)
<1>1. /\ n \in Nat /\ v \in Seq(S) /\ Len(v) = n + 1 /\ v[n + 1] = x
      /\ \A i \in 1..n : v[i] = u[i]
  BY AppendProperties
<1> HIDE DEF v, n
<1>2. PICK f : ArePages(f, p, u, n) /\ HandleAll(p, u) = f[n]
  BY PagesAreDefined DEF n
<1>3. PICK g : ArePages(g, p, v, n + 1) /\ HandleAll(p, v) = g[n + 1]
  BY <1>1, PagesAreDefined
<1>4. \A i \in 0..n : g[i] = f[i]
  <2> DEFINE T == {i \in Nat : i <= n => g[i] = f[i]}
  <2>1. 0 \in T
    BY <1>1, <1>2, <1>3 DEF ArePages
  <2>2. ASSUME NEW i \in Nat, i \in T PROVE i + 1 \in T
    <3> SUFFICES ASSUME i + 1 <= n PROVE g[i + 1] = f[i + 1]
      OBVIOUS
    <3>1. i + 1 \in 0..n /\ i + 1 \in 0..(n + 1) /\ i + 1 # 0 /\ (i + 1) - 1 = i /\ i + 1 \in 1..n
      BY <1>1
    <3>2. g[i] = f[i] /\ v[i + 1] = u[i + 1]
      BY <1>1, <2>2, <3>1
    <3>3. f[i + 1] = IF IsEvent(u[i + 1]) THEN Handle(f[i], u[i + 1]) ELSE f[i]
      BY <1>2, <3>1 DEF ArePages
    <3>4. g[i + 1] = IF IsEvent(v[i + 1]) THEN Handle(g[i], v[i + 1]) ELSE g[i]
      BY <1>3, <3>1 DEF ArePages
    <3>5. QED
      BY <3>2, <3>3, <3>4
  <2>3. Nat \subseteq T
    <3> HIDE DEF T
    <3>1. QED
      BY <2>1, <2>2, NatSetInduction
  <2>4. QED
    BY <1>1, <2>3
<1>5. g[n + 1] = IF IsEvent(x) THEN Handle(f[n], x) ELSE f[n]
  <2>1. n + 1 \in 0..(n + 1) /\ n + 1 # 0 /\ (n + 1) - 1 = n /\ n \in 0..n
    BY <1>1
  <2>2. g[n + 1] = IF IsEvent(v[n + 1]) THEN Handle(g[n], v[n + 1]) ELSE g[n]
    BY <1>3, <2>1 DEF ArePages
  <2>3. QED
    BY <1>1, <1>4, <2>1, <2>2
<1>6. HandleAll(p, <<>>) = p
  <2>1. <<>> \in Seq(S) /\ Len(<<>>) = 0
    BY EmptySeq
  <2>2. PICK e : ArePages(e, p, <<>>, 0) /\ HandleAll(p, <<>>) = e[0]
    BY <2>1, PagesAreDefined
  <2>3. QED
    BY <2>2 DEF ArePages
<1>7. QED
  BY <1>2, <1>3, <1>5, <1>6 DEF v

-----------------------------------------------------------------------------
Provider == {"openai", "anthropic"}
AnyToken == Sends \X Nat \X Provider
TokenOrNone == AnyToken \cup {NoToken}
Unit == [type : {"token", "status", "done", "newline"}, token : TokenOrNone]

Bubbles == [role : {"user", "assistant"}, of : Nat, text : Seq(TokenOrNone),
            streaming : BOOLEAN, error : BOOLEAN]
Pages == [bubbles : Seq(Bubbles), status : {"", "thinking", "tool"}, loading : BOOLEAN]

\* There is a unit.
LEMMA SomeUnit == \E x : x \in Unit
<1>1. [type |-> "token", token |-> NoToken] \in Unit
  BY DEF Unit, TokenOrNone
<1> QED
  BY <1>1

\* Appending to two sequences put together appends to the second.
LEMMA AppendOfConcat ==
  \A s \in Seq(TokenOrNone) : \A t \in Seq(TokenOrNone) : \A x \in TokenOrNone :
    Append(s \o t, x) = s \o Append(t, x)
OBVIOUS

\* The text of units that follow each other is their texts in that order.
LEMMA TextOfConcat ==
  ASSUME NEW u \in Seq(Unit), NEW v \in Seq(Unit)
  PROVE  /\ TextOf(u) \in Seq(TokenOrNone)
         /\ TextOf(v) \in Seq(TokenOrNone)
         /\ TextOf(u \o v) = TextOf(u) \o TextOf(v)
<1> DEFINE T == {w \in Seq(Unit) : TextOf(w) \in Seq(TokenOrNone)}
<1>1. Seq(Unit) \subseteq T
  <2>1. <<>> \in T
    <3>1. \E x : x \in Unit
      BY SomeUnit
    <3>2. TextOf(<<>>) = <<>>
      BY <3>1, TextAppended, EmptySeq
    <3>3. QED
      BY <3>2, EmptySeq
  <2>2. ASSUME NEW w \in Seq(Unit), NEW x \in Unit, w \in T PROVE Append(w, x) \in T
    <3>1. TextOf(Append(w, x)) = IF IsTokenEvent(x) THEN Append(TextOf(w), x.token) ELSE TextOf(w)
      BY TextAppended
    <3>2. x.token \in TokenOrNone
      BY DEF Unit
    <3>3. TextOf(Append(w, x)) \in Seq(TokenOrNone)
      BY <2>2, <3>1, <3>2
    <3>4. QED
      BY <3>3, AppendProperties
  <2> HIDE DEF T
  <2>3. QED
    BY <2>1, <2>2, SeqSetInduction
<1> DEFINE C == {w \in Seq(Unit) : TextOf(u \o w) = TextOf(u) \o TextOf(w)}
<1>2. Seq(Unit) \subseteq C
  <2>1. <<>> \in C
    <3>1. \E x : x \in Unit
      BY SomeUnit
    <3>2. TextOf(<<>>) = <<>>
      BY <3>1, TextAppended, EmptySeq
    <3>3. u \o <<>> = u
      BY ConcatEmptySeq
    <3>4. TextOf(u) \o <<>> = TextOf(u)
      BY <1>1, ConcatEmptySeq
    <3>5. QED
      BY <3>2, <3>3, <3>4, EmptySeq
  <2>2. ASSUME NEW w \in Seq(Unit), NEW x \in Unit, w \in C PROVE Append(w, x) \in C
    <3>1. TextOf(Append(w, x)) = IF IsTokenEvent(x) THEN Append(TextOf(w), x.token) ELSE TextOf(w)
      BY TextAppended
    <3>2. u \o w \in Seq(Unit) /\ u \o Append(w, x) = Append(u \o w, x)
      OBVIOUS
    <3>3. TextOf(u \o Append(w, x)) =
            IF IsTokenEvent(x) THEN Append(TextOf(u \o w), x.token) ELSE TextOf(u \o w)
      BY <3>2, TextAppended
    <3>4. TextOf(u) \in Seq(TokenOrNone) /\ TextOf(w) \in Seq(TokenOrNone) /\ x.token \in TokenOrNone
      BY <1>1 DEF Unit
    <3>5. Append(TextOf(u) \o TextOf(w), x.token) = TextOf(u) \o Append(TextOf(w), x.token)
      <4>1. PICK a \in Seq(TokenOrNone) : a = TextOf(u)
        BY <3>4
      <4>2. PICK b \in Seq(TokenOrNone) : b = TextOf(w)
        BY <3>4
      <4>3. PICK y \in TokenOrNone : y = x.token
        BY <3>4
      <4>4. Append(a \o b, y) = a \o Append(b, y)
        <5>1. a \in Seq(TokenOrNone) /\ b \in Seq(TokenOrNone) /\ y \in TokenOrNone
          BY <4>1, <4>2, <4>3
        <5>2. QED
          BY <5>1, AppendOfConcat
      <4>5. QED
        BY <4>1, <4>2, <4>3, <4>4
    <3>6. TextOf(u \o w) = TextOf(u) \o TextOf(w)
      BY <2>2
    <3>7. TextOf(u \o Append(w, x)) = TextOf(u) \o TextOf(Append(w, x))
      BY <3>1, <3>3, <3>5, <3>6
    <3>8. Append(w, x) \in Seq(Unit)
      BY AppendProperties
    <3>9. QED
      BY <3>7, <3>8
  <2> HIDE DEF C
  <2>3. QED
    BY <2>1, <2>2, SeqSetInduction
<1>3. QED
  BY <1>1, <1>2

\* What one event does to a page that ends with an assistant's bubble.
LEMMA HandleDoes ==
  ASSUME NEW p \in Pages, NEW e \in Unit, p.bubbles # <<>>,
         LastBubble(p).role = "assistant"
  PROVE  LET q == Handle(p, e)
             n == Len(p.bubbles)
             b == p.bubbles[n]
             c == q.bubbles[n] IN
         /\ q \in Pages /\ Len(q.bubbles) = n /\ n \in Nat \ {0}
         /\ \A i \in 1..(n - 1) : q.bubbles[i] = p.bubbles[i]
         /\ q.loading = p.loading
         /\ q.status = IF e.type = "status" THEN "tool" ELSE ""
         /\ c.role = "assistant" /\ c.of = b.of /\ c.error = b.error
         /\ c.text = IF IsTokenEvent(e) THEN Append(b.text, e.token) ELSE b.text
         /\ c.streaming = (b.streaming /\ e.type # "done")
<1> DEFINE n == Len(p.bubbles)
           b == p.bubbles[n]
           text == IF IsTokenEvent(e) THEN Append(b.text, e.token) ELSE b.text
           streaming == b.streaming /\ e.type # "done"
           c == Bubble(b.role, b.of, text, streaming, b.error)
           status == IF e.type = "status" THEN "tool" ELSE ""
<1>1. p.bubbles \in Seq(Bubbles) /\ n \in Nat \ {0} /\ b \in Bubbles
  <2>1. p.bubbles \in Seq(Bubbles)
    BY DEF Pages
  <2>2. n \in Nat \ {0}
    BY <2>1, EmptySeq
  <2>3. QED
    BY <2>1, <2>2
<1>2. b.role = "assistant"
  BY DEF LastBubble
<1>3. Handle(p, e) = [bubbles |-> [p.bubbles EXCEPT ![n] = c], status |-> status,
                      loading |-> p.loading]
  BY <1>2 DEF Handle, LastBubble
<1>4. c \in Bubbles
  <2>1. text \in Seq(TokenOrNone)
    <3>1. b.text \in Seq(TokenOrNone) /\ e.token \in TokenOrNone
      BY <1>1 DEF Bubbles, Unit
    <3>2. QED
      BY <3>1
  <2>2. streaming \in BOOLEAN
    BY <1>1 DEF Bubbles
  <2> HIDE DEF text, streaming
  <2>3. QED
    BY <1>1, <2>1, <2>2 DEF Bubbles, Bubble
<1>5. /\ c.role = "assistant" /\ c.of = b.of /\ c.error = b.error
      /\ c.text = text /\ c.streaming = streaming
  BY <1>2 DEF Bubble
<1> HIDE DEF c
<1> DEFINE B == [p.bubbles EXCEPT ![n] = c]
<1>6. B \in Seq(Bubbles) /\ Len(B) = n /\ \A i \in 1..n : B[i] = IF i = n THEN c ELSE p.bubbles[i]
  <2>1. n \in 1..Len(p.bubbles)
    BY <1>1
  <2>2. QED
    BY <1>1, <1>4, <2>1, ExceptSeq
<1>7. status \in {"", "tool"} /\ p.loading \in BOOLEAN
  BY DEF Pages
<1> HIDE DEF B
<1>8. B[n] = c /\ \A i \in 1..(n - 1) : B[i] = p.bubbles[i]
  BY <1>1, <1>6
<1> HIDE DEF status, text, streaming, b, n
<1>9. PICK q : q = Handle(p, e)
  OBVIOUS
<1>10. q \in Pages /\ q.bubbles = B /\ q.status = status /\ q.loading = p.loading
  <2>1. q = [bubbles |-> B, status |-> status, loading |-> p.loading]
    BY <1>3, <1>9 DEF B
  <2>2. B \in Seq(Bubbles) /\ status \in {"", "thinking", "tool"} /\ p.loading \in BOOLEAN
    BY <1>6, <1>7
  <2>3. QED
    BY <2>1, <2>2 DEF Pages
<1>11. /\ q \in Pages /\ Len(q.bubbles) = n /\ n \in Nat \ {0}
       /\ \A i \in 1..(n - 1) : q.bubbles[i] = p.bubbles[i]
       /\ q.loading = p.loading
       /\ q.status = status
       /\ q.bubbles[n].role = "assistant" /\ q.bubbles[n].of = b.of /\ q.bubbles[n].error = b.error
       /\ q.bubbles[n].text = text
       /\ q.bubbles[n].streaming = streaming
  BY <1>1, <1>5, <1>6, <1>8, <1>10
<1>12. QED
  BY <1>9, <1>11 DEF n, b, text, streaming, status

-----------------------------------------------------------------------------

\* What the agent has said, typed, as far as the proof needs.
SpeechOK ==
  /\ pc \in [Sends -> {"unsent", "ended", "failed"} \cup Busy]
  /\ turn \in [Sends -> Nat]
  /\ reply \in [Sends -> Seq(AnyToken)]

\* Steps of a turn in which nothing has been said yet.
Silent == {"unsent", "load", "llm", "anthropic"}

\* Nothing is said ahead of its turn; a turn that asks a provider is silent;
\* while OpenAI speaks, only OpenAI has spoken.
TurnsInOrder == \A r \in Sends : \A i \in 1..Len(reply[r]) :
  /\ reply[r][i][2] <= turn[r]
  /\ pc[r] \in Silent => reply[r][i][2] < turn[r]
  /\ pc[r] = "openai" /\ reply[r][i][2] = turn[r] => reply[r][i][3] = "openai"

VoiceInv == SpeechOK /\ TurnsInOrder /\ OneVoicePerTurn

-----------------------------------------------------------------------------
\* A step that says nothing and moves on to a step where as much is known,
\* or to a later turn, keeps the invariant (AskOpenAI, FallBack, CallTool...).
LEMMA Unspoken ==
  ASSUME VoiceInv, NEW r \in Sends, NEW step \in {"ended", "failed"} \cup Busy,
         pc' = [pc EXCEPT ![r] = step],
         reply' = reply,
         turn' \in {turn, [turn EXCEPT ![r] = @ + 1]},
         step \in Silent \cup {"openai"} => pc[r] \in Silent \/ turn'[r] = turn[r] + 1
  PROVE  VoiceInv'
<1>1. SpeechOK'
  <2>1. turn' \in [Sends -> Nat]
    <3>1. CASE turn' = turn
      BY <3>1 DEF VoiceInv, SpeechOK
    <3>2. CASE turn' = [turn EXCEPT ![r] = @ + 1]
      BY <3>2 DEF VoiceInv, SpeechOK
    <3>3. QED
      BY <3>1, <3>2
  <2>2. pc' \in [Sends -> {"unsent", "ended", "failed"} \cup Busy]
    BY DEF VoiceInv, SpeechOK
  <2>3. QED
    BY <2>1, <2>2 DEF VoiceInv, SpeechOK
<1>2. TurnsInOrder'
  <2> SUFFICES ASSUME NEW s \in Sends, NEW i \in 1..Len(reply[s])
               PROVE  /\ reply[s][i][2] <= turn'[s]
                      /\ pc'[s] \in Silent => reply[s][i][2] < turn'[s]
                      /\ pc'[s] = "openai" /\ reply[s][i][2] = turn'[s] => reply[s][i][3] = "openai"
    BY DEF TurnsInOrder
  <2>1. reply[s][i] \in AnyToken /\ reply[s][i][2] \in Nat /\ turn[s] \in Nat
    BY DEF VoiceInv, SpeechOK, AnyToken
  <2>2. /\ reply[s][i][2] <= turn[s]
        /\ pc[s] \in Silent => reply[s][i][2] < turn[s]
        /\ pc[s] = "openai" /\ reply[s][i][2] = turn[s] => reply[s][i][3] = "openai"
    BY DEF VoiceInv, TurnsInOrder
  <2>3. CASE s # r
    BY <2>1, <2>2, <2>3 DEF VoiceInv, SpeechOK
  <2>4. CASE s = r
    <3>1. pc'[r] = step
      BY DEF VoiceInv, SpeechOK
    <3>2. turn'[r] = turn[r] \/ turn'[r] = turn[r] + 1
      BY <2>4, <2>1 DEF VoiceInv, SpeechOK
    <3>3. QED
      BY <2>1, <2>2, <2>4, <3>1, <3>2 DEF Silent
  <2>5. QED
    BY <2>3, <2>4
<1>3. OneVoicePerTurn'
  BY DEF VoiceInv, OneVoicePerTurn
<1>4. QED
  BY <1>1, <1>2, <1>3 DEF VoiceInv

\* Saying a token of a turn that has been silent, or in which only the same
\* provider spoke, keeps the invariant (OpenAIToken, AnthropicAnswers).
LEMMA Spoken ==
  ASSUME VoiceInv, NEW r \in Sends, NEW provider \in Provider,
         NEW step \in {"openai", "save"},
         pc' = [pc EXCEPT ![r] = step],
         turn' = turn,
         reply' = [reply EXCEPT ![r] = Append(@, Token(r, provider))],
         \/ pc[r] \in Silent
         \/ pc[r] = "openai" /\ provider = "openai",
         step = "openai" => provider = "openai"
  PROVE  VoiceInv'
<1> DEFINE said0 == reply[r]
           token == Token(r, provider)
<1>1. /\ said0 \in Seq(AnyToken)
      /\ token \in AnyToken
      /\ token[2] = turn[r] /\ token[3] = provider
      /\ turn[r] \in Nat
  BY DEF VoiceInv, SpeechOK, AnyToken, Token
<1>2. /\ reply'[r] = Append(said0, token)
      /\ \A s \in Sends \ {r} : reply'[s] = reply[s] /\ pc'[s] = pc[s]
      /\ pc'[r] = step
  BY DEF VoiceInv, SpeechOK
<1>3. \A i \in 1..Len(reply'[r]) :
        \/ i \in 1..Len(said0) /\ reply'[r][i] = said0[i]
        \/ reply'[r][i] = token
  BY <1>1, <1>2
<1>4. \A i \in 1..Len(said0) : said0[i] \in AnyToken /\ said0[i][2] \in Nat
  BY <1>1 DEF AnyToken
<1>5. \A i \in 1..Len(said0) :
        /\ said0[i][2] <= turn[r]
        /\ said0[i][2] = turn[r] => said0[i][3] = provider
  BY <1>1, <1>4 DEF VoiceInv, TurnsInOrder
<1>6. SpeechOK'
  <2>1. reply' \in [Sends -> Seq(AnyToken)]
    BY <1>1 DEF VoiceInv, SpeechOK
  <2>2. pc' \in [Sends -> {"unsent", "ended", "failed"} \cup Busy]
    BY DEF VoiceInv, SpeechOK, Busy
  <2>3. QED
    BY <2>1, <2>2 DEF VoiceInv, SpeechOK
<1>7. TurnsInOrder'
  <2> SUFFICES ASSUME NEW s \in Sends, NEW i \in 1..Len(reply'[s])
               PROVE  /\ reply'[s][i][2] <= turn[s]
                      /\ pc'[s] \in Silent => reply'[s][i][2] < turn[s]
                      /\ pc'[s] = "openai" /\ reply'[s][i][2] = turn[s] => reply'[s][i][3] = "openai"
    BY DEF TurnsInOrder
  <2>1. CASE s # r
    BY <1>2, <2>1 DEF VoiceInv, TurnsInOrder
  <2>2. CASE s = r
    <3>1. step \notin Silent
      BY DEF Silent
    <3>2. CASE i \in 1..Len(said0) /\ reply'[r][i] = said0[i]
      BY <1>2, <1>5, <2>2, <3>1, <3>2
    <3>3. CASE reply'[r][i] = token
      BY <1>1, <1>2, <2>2, <3>1, <3>3
    <3>4. QED
      BY <1>3, <2>2, <3>2, <3>3
  <2>3. QED
    BY <2>1, <2>2
<1>8. OneVoicePerTurn'
  <2> SUFFICES ASSUME NEW s \in Sends,
                      NEW i \in 1..Len(reply'[s]), NEW j \in 1..Len(reply'[s]),
                      reply'[s][i][2] = reply'[s][j][2]
               PROVE  reply'[s][i][3] = reply'[s][j][3]
    BY DEF OneVoicePerTurn
  <2>1. CASE s # r
    BY <1>2, <2>1 DEF VoiceInv, OneVoicePerTurn
  <2>2. CASE s = r
    <3>1. CASE reply'[r][i] = token \/ reply'[r][j] = token
      BY <1>1, <1>3, <1>5, <2>2, <3>1
    <3>2. CASE reply'[r][i] # token /\ reply'[r][j] # token
      <4>1. /\ i \in 1..Len(said0) /\ reply'[r][i] = said0[i]
            /\ j \in 1..Len(said0) /\ reply'[r][j] = said0[j]
        BY <1>3, <2>2, <3>2
      <4>2. QED
        BY <2>2, <4>1 DEF VoiceInv, OneVoicePerTurn
    <3>3. QED
      BY <3>1, <3>2
  <2>3. QED
    BY <2>1, <2>2
<1>9. QED
  BY <1>6, <1>7, <1>8 DEF VoiceInv

-----------------------------------------------------------------------------
\* Nothing has been said at first.
LEMMA VoiceInit == Init => VoiceInv
<1> SUFFICES ASSUME Init PROVE VoiceInv
  OBVIOUS
<1>1. \A r \in Sends : reply[r] = <<>> /\ Len(reply[r]) = 0
  BY DEF Init
<1>2. SpeechOK
  BY DEF Init, SpeechOK
<1>3. TurnsInOrder /\ OneVoicePerTurn
  BY <1>1 DEF TurnsInOrder, OneVoicePerTurn
<1>4. QED
  BY <1>2, <1>3 DEF VoiceInv

\* The browser's steps, and steps that change nothing.
LEMMA VoiceUnchanged ==
  ASSUME VoiceInv, UNCHANGED <<pc, turn, reply>>
  PROVE  VoiceInv'
BY DEF VoiceInv, SpeechOK, TurnsInOrder, OneVoicePerTurn

\* The steps of the server keep the invariant.
LEMMA VoiceServe ==
  ASSUME VoiceInv, NEW r \in Sends, Serve(r)
  PROVE  VoiceInv'
<1> USE DEF Goto
<1>0. pc[r] \in {"unsent", "ended", "failed"} \cup Busy /\ turn[r] \in Nat
  BY DEF VoiceInv, SpeechOK
<1>1. CASE Load(r)
  BY <1>1, Unspoken DEF Load, Silent, Busy
<1>2. CASE AskOpenAI(r)
  BY <1>2, Unspoken DEF AskOpenAI, Silent, Busy
<1>3. CASE FallBack(r)
  BY <1>3, Unspoken DEF FallBack, Silent, Busy
<1>4. CASE OpenAIToken(r)
  <2>1. pc' = [pc EXCEPT ![r] = "openai"]
    BY <1>4 DEF OpenAIToken, VoiceInv, SpeechOK
  <2>2. QED
    BY <1>4, <2>1, Spoken DEF OpenAIToken, Speak, Provider
<1>5. CASE OpenAIEnds(r)
  BY <1>5, Unspoken DEF OpenAIEnds, EndResponse, Silent, Busy
<1>6. CASE AnthropicAnswers(r)
  <2>1. CASE UNCHANGED reply
    BY <1>6, <2>1, Unspoken DEF AnthropicAnswers, EndResponse, Silent, Busy
  <2>2. CASE Speak(r, "anthropic") /\ EndResponse(r, 0)
    BY <1>6, <2>2, Spoken DEF AnthropicAnswers, Speak, EndResponse, Silent, Provider
  <2>3. QED
    BY <1>6, <2>1, <2>2 DEF AnthropicAnswers
<1>7. CASE CallTool(r)
  <2>1. PICK step \in {"tools", "llm", "save"} :
          /\ pc' = [pc EXCEPT ![r] = step]
          /\ step = "llm" => turn' = [turn EXCEPT ![r] = @ + 1]
    BY <1>7 DEF CallTool
  <2>2. turn' \in {turn, [turn EXCEPT ![r] = @ + 1]} /\ reply' = reply
    BY <1>7 DEF CallTool
  <2>3. step = "llm" => turn'[r] = turn[r] + 1
    BY <2>1 DEF VoiceInv, SpeechOK
  <2>4. QED
    BY <2>1, <2>2, <2>3, Unspoken DEF Silent, Busy
<1>8. CASE SaveReply(r)
  BY <1>8, Unspoken DEF SaveReply, Silent, Busy
<1>9. CASE ServerFails(r)
  BY <1>9, Unspoken DEF ServerFails, Silent, Busy
<1>10. QED
  BY <1>1, <1>2, <1>3, <1>4, <1>5, <1>6, <1>7, <1>8, <1>9 DEF Serve

\* Every step keeps the invariant.
LEMMA VoiceNext == VoiceInv /\ [Next]_vars => VoiceInv'
<1> SUFFICES ASSUME VoiceInv, [Next]_vars PROVE VoiceInv'
  OBVIOUS
<1>1. CASE UNCHANGED vars
  BY <1>1, VoiceUnchanged DEF vars, server
<1>2. ASSUME NEW r \in Sends, Send(r) PROVE VoiceInv'
  BY <1>2, Unspoken DEF Send, Goto, Silent, Busy
<1>3. ASSUME NEW r \in Sends, Serve(r) PROVE VoiceInv'
  BY <1>3, VoiceServe
<1>4. ASSUME NEW r \in Sends, Read(r) \/ ReaderFails(r) PROVE VoiceInv'
  BY <1>4, VoiceUnchanged DEF Read, Receive, ReaderEnds, ReaderFails, server
<1>5. CASE Reload \/ Finished
  BY <1>5, VoiceUnchanged DEF Reload, Finished, vars, server
<1>6. QED
  BY <1>1, <1>2, <1>3, <1>4, <1>5 DEF Next

\* What the agent says in one turn comes from one provider: the fallback never
\* continues or repeats what OpenAI has begun.
THEOREM OneVoice == Spec => []OneVoicePerTurn
<1>1. Init => VoiceInv
  BY VoiceInit
<1>2. VoiceInv /\ [Next]_vars => VoiceInv'
  BY VoiceNext
<1>3. VoiceInv => OneVoicePerTurn
  BY DEF VoiceInv
<1>4. QED
  BY <1>1, <1>2, <1>3, PTL DEF Spec

-----------------------------------------------------------------------------
StreamTyped ==
  /\ pc \in [Sends -> {"unsent", "ended", "failed"} \cup Busy]
  /\ turn \in [Sends -> Nat]
  /\ reply \in [Sends -> Seq(TokenOrNone)]
  /\ wire \in [Sends -> Seq(Unit)]
  /\ buf \in [Sends -> Seq(Unit)]
  /\ reader \in [Sends -> {"none", "open", "closed"}]
  /\ page \in Pages
  /\ page.bubbles # <<>>

Framed(u) ==
  /\ Len(u) % 3 = 0
  /\ \A i \in 1..Len(u) : u[i] = Newline <=> i % 3 # 1

HasDone(u) == \E i \in 1..Len(u) : u[i].type = "done"

UnderWay(r) == buf[r] \o wire[r]

Flow(r) ==
  LET b == LastBubble(page)
      u == UnderWay(r) IN
  /\ Len(buf[r]) < 3
  /\ Framed(u)
  /\ b.role = "assistant" /\ b.of = r /\ ~b.error
  /\ b.text \o TextOf(u) = reply[r]
  /\ \A i \in 1..Len(u) : u[i].type = "done" => i = Len(u) - 2
  /\ HasDone(u) => b.streaming
  /\ ~b.streaming => u = <<>> /\ page.status = ""
  /\ pc[r] = "ended" <=> HasDone(u) \/ ~b.streaming

NoStray == \A r \in Sends :
  /\ reader[r] # "open" => wire[r] = <<>> /\ buf[r] = <<>>
  /\ pc[r] = "unsent" => reply[r] = <<>> /\ reader[r] = "none"
  /\ pc[r] = "ended" => Saved(r) \in recorded

OthersSettled == \A i \in 1..(Len(page.bubbles) - 1) : ~page.bubbles[i].streaming

FlowInv ==
  /\ StreamTyped
  /\ NoStray
  /\ OthersSettled
  /\ PageIsSettled
  /\ FinishedMeansSaved
  /\ \A r \in Sends : reader[r] = "open" => Flow(r)

-----------------------------------------------------------------------------
\* What the units handled together do to a page that ends with an assistant's
\* bubble.
Handled(p, u) ==
  LET q == HandleAll(p, u)
      n == Len(p.bubbles)
      b == p.bubbles[n]
      c == q.bubbles[n] IN
  /\ q \in Pages /\ Len(q.bubbles) = n /\ n \in Nat \ {0}
  /\ \A i \in 1..(n - 1) : q.bubbles[i] = p.bubbles[i]
  /\ q.loading = p.loading
  /\ c.role = "assistant" /\ c.of = b.of /\ c.error = b.error
  /\ c.text = b.text \o TextOf(u)
  /\ c.streaming = (b.streaming /\ ~HasDone(u))
  /\ \A i \in 1..Len(u) :
       u[i].type = "done" /\ (\A j \in (i + 1)..Len(u) : u[j] = Newline) => q.status = ""

\* A read of several units adds their text to the last bubble, and a finished
\* bubble is one of them that says done.
LEMMA HandleAllDoes ==
  ASSUME NEW p \in Pages, NEW u \in Seq(Unit), p.bubbles # <<>>,
         LastBubble(p).role = "assistant"
  PROVE  Handled(p, u)
<1> DEFINE T == {w \in Seq(Unit) : Handled(p, w)}
           n == Len(p.bubbles)
           b == p.bubbles[n]
<1>1. p.bubbles \in Seq(Bubbles) /\ n \in Nat \ {0} /\ b \in Bubbles
  <2>1. p.bubbles \in Seq(Bubbles)
    BY DEF Pages
  <2>2. n \in Nat \ {0}
    BY <2>1, EmptySeq
  <2>3. QED
    BY <2>1, <2>2
<1>2. b.role = "assistant" /\ b.text \in Seq(TokenOrNone) /\ b.streaming \in BOOLEAN
  BY <1>1 DEF LastBubble, Bubbles
<1>3. <<>> \in T
  <2>1. TextOf(<<>>) = <<>> /\ HandleAll(p, <<>>) = p
    BY SomeUnit, TextAppended, PageAppended, EmptySeq
  <2>2. b.text \o <<>> = b.text
    BY <1>2, ConcatEmptySeq
  <2>3. <<>> \in Seq(Unit) /\ Len(<<>>) = 0
    BY EmptySeq
  <2>4. ~HasDone(<<>>)
    BY <2>3 DEF HasDone
  <2>5. \A i \in 1..Len(<<>>) : FALSE
    BY <2>3
  <2>6. Handled(p, <<>>)
    <3> HIDE DEF T, n, b
    <3>1. QED
      BY <1>1, <1>2, <2>1, <2>2, <2>4, <2>5 DEF Handled, n, b
  <2>7. QED
    BY <2>3, <2>6
<1>4. ASSUME NEW w \in Seq(Unit), NEW x \in Unit, Handled(p, w)
      PROVE  Handled(p, Append(w, x))
  <2> DEFINE v == Append(w, x)
  <2>1. /\ Len(v) = Len(w) + 1 /\ Len(w) \in Nat
        /\ v[Len(w) + 1] = x /\ \A i \in 1..Len(w) : v[i] = w[i]
    BY AppendProperties, LenProperties
  <2>2. PICK q : q = HandleAll(p, w)
    OBVIOUS
  <2>3. PICK o : o = HandleAll(p, v)
    OBVIOUS
  <2>4. o = IF IsEvent(x) THEN Handle(q, x) ELSE q
    BY <2>2, <2>3, PageAppended
  <2>5. PICK t \in Seq(TokenOrNone) : t = TextOf(w)
    BY TextOfConcat
  <2>6. TextOf(v) = IF IsTokenEvent(x) THEN Append(t, x.token) ELSE t
    BY <2>5, TextAppended
  <2>7. x.token \in TokenOrNone /\ x.type \in {"token", "status", "done", "newline"}
    BY DEF Unit
  <2>8. HasDone(v) <=> HasDone(w) \/ x.type = "done"
    BY <2>1 DEF HasDone
  <2> SUFFICES Handled(p, v)
    OBVIOUS
  <2> HIDE DEF v
  <2>9. /\ q \in Pages /\ Len(q.bubbles) = n
        /\ \A i \in 1..(n - 1) : q.bubbles[i] = p.bubbles[i]
        /\ q.loading = p.loading
        /\ q.bubbles[n].role = "assistant" /\ q.bubbles[n].of = b.of /\ q.bubbles[n].error = b.error
        /\ q.bubbles[n].text = b.text \o t
        /\ q.bubbles[n].streaming = (b.streaming /\ ~HasDone(w))
        /\ \A i \in 1..Len(w) :
             w[i].type = "done" /\ (\A j \in (i + 1)..Len(w) : w[j] = Newline) => q.status = ""
    BY <1>4, <2>2, <2>5 DEF Handled
  <2> HIDE DEF n, b
  <2>10. CASE x = Newline
    <3>1. o = q /\ ~IsTokenEvent(x) /\ x.type # "done"
      BY <2>4, <2>10 DEF IsEvent, IsTokenEvent, Newline, Event
    <3>2. TextOf(v) = t /\ (HasDone(v) <=> HasDone(w))
      BY <2>6, <2>8, <3>1
    <3>3. ASSUME NEW i \in 1..Len(v), v[i].type = "done",
                 \A j \in (i + 1)..Len(v) : v[j] = Newline
          PROVE  o.status = ""
      <4>1. i # Len(w) + 1
        BY <2>1, <3>1, <3>3
      <4>2. i \in 1..Len(w) /\ w[i].type = "done"
        BY <2>1, <3>3, <4>1
      <4>3. \A j \in (i + 1)..Len(w) : w[j] = Newline
        BY <2>1, <3>3, <4>2
      <4>4. QED
        BY <2>9, <3>1, <4>2, <4>3
    <3>4. QED
      BY <1>1, <2>3, <2>9, <3>1, <3>2, <3>3 DEF Handled, n, b
  <2>11. CASE x # Newline
    <3>1. o = Handle(q, x)
      BY <2>4, <2>11 DEF IsEvent
    <3>2. q.bubbles # <<>> /\ LastBubble(q).role = "assistant"
      <4>1. Len(q.bubbles) # 0
        BY <1>1, <2>9
      <4>2. QED
        BY <2>9, <4>1, EmptySeq DEF LastBubble
    <3>3. /\ o \in Pages /\ Len(o.bubbles) = n
          /\ \A i \in 1..(n - 1) : o.bubbles[i] = q.bubbles[i]
          /\ o.loading = q.loading
          /\ o.status = IF x.type = "status" THEN "tool" ELSE ""
          /\ o.bubbles[n].role = "assistant"
          /\ o.bubbles[n].of = q.bubbles[n].of /\ o.bubbles[n].error = q.bubbles[n].error
          /\ o.bubbles[n].text = IF IsTokenEvent(x) THEN Append(q.bubbles[n].text, x.token)
                                 ELSE q.bubbles[n].text
          /\ o.bubbles[n].streaming = (q.bubbles[n].streaming /\ x.type # "done")
      BY <2>9, <3>1, <3>2, HandleDoes
    <3>4. o.bubbles[n].text = b.text \o TextOf(v)
      <4>1. CASE ~IsTokenEvent(x)
        BY <2>6, <2>9, <3>3, <4>1
      <4>2. CASE IsTokenEvent(x)
        <5>1. b.text \in Seq(TokenOrNone)
          BY <1>2
        <5>2. Append(b.text \o t, x.token) = b.text \o Append(t, x.token)
          BY <2>5, <2>7, <5>1, AppendOfConcat
        <5>3. QED
          BY <2>6, <2>9, <3>3, <4>2, <5>2
      <4>3. QED
        BY <4>1, <4>2
    <3>5. o.bubbles[n].streaming = (b.streaming /\ ~HasDone(v))
      BY <2>8, <2>9, <3>3
    <3>6. ASSUME NEW i \in 1..Len(v), v[i].type = "done",
                 \A j \in (i + 1)..Len(v) : v[j] = Newline
          PROVE  o.status = ""
      <4>1. CASE i # Len(w) + 1
        <5>1. Len(w) + 1 \in (i + 1)..Len(v)
          BY <2>1, <4>1
        <5>2. QED
          BY <2>1, <2>11, <3>6, <5>1
      <4>2. CASE i = Len(w) + 1
        BY <2>1, <3>3, <3>6, <4>2
      <4>3. QED
        BY <4>1, <4>2
    <3>7. QED
      BY <1>1, <2>3, <2>9, <3>3, <3>4, <3>5, <3>6 DEF Handled, n, b
  <2>12. QED
    BY <2>10, <2>11
<1>5. Seq(Unit) \subseteq T
  <2>1. \A w \in Seq(Unit) : \A x \in Unit : w \in T => Append(w, x) \in T
    BY <1>4, AppendProperties
  <2> HIDE DEF T
  <2>2. QED
    BY <1>3, <2>1, SeqSetInduction
<1>6. QED
  BY <1>5

-----------------------------------------------------------------------------
\* Remainders by three.
LEMMA ByThree ==
  ASSUME NEW n \in Nat
  PROVE  /\ n % 3 \in 0..2 /\ n - (n % 3) \in 0..n
         /\ (n - (n % 3)) % 3 = 0
         /\ \A i \in Nat : n % 3 = 0 => (n + i) % 3 = i % 3
         /\ \A i \in Nat : n % 3 = 0 /\ (n + i) % 3 = 0 => i % 3 = 0
OBVIOUS

\* Where the newlines of whole events stand.
Lined(u) == \A i \in 1..Len(u) : u[i] = Newline <=> i % 3 # 1

\* The last whole event in a buffer ends at the last multiple of three.
LEMMA BreakIs ==
  ASSUME NEW u \in Seq(Unit), Lined(u)
  PROVE  LastBreak(u) = Len(u) - (Len(u) % 3)
<1> DEFINE n == Len(u)
           k == n - (n % 3)
           B == {0} \cup {i \in 2..n : u[i - 1] = Newline /\ u[i] = Newline}
<1>1. n \in Nat
  OBVIOUS
<1>2. k \in 0..n /\ k % 3 = 0 /\ n - k < 3
  BY <1>1, ByThree
<1>3. k \in B
  <2>1. CASE k = 0
    BY <2>1
  <2>2. CASE k # 0
    <3>1. k \in 3..n /\ (k - 1) % 3 = 2
      BY <1>1, <1>2, <2>2
    <3>2. u[k] = Newline /\ u[k - 1] = Newline
      <4>1. k \in 1..Len(u) /\ k - 1 \in 1..Len(u) /\ k % 3 # 1 /\ (k - 1) % 3 # 1
        BY <1>1, <1>2, <3>1
      <4> HIDE DEF k
      <4>2. QED
        BY <4>1 DEF Lined
    <3> HIDE DEF k
    <3>3. QED
      BY <1>1, <3>1, <3>2
  <2>3. QED
    BY <2>1, <2>2
<1>4. ASSUME NEW i \in B PROVE i <= k
  <2>1. CASE i = 0
    BY <1>2, <2>1
  <2>2. CASE i # 0
    <3>1. i \in 2..n /\ u[i - 1] = Newline /\ u[i] = Newline
      BY <2>2
    <3>2. i % 3 # 1 /\ (i - 1) % 3 # 1
      BY <1>1, <3>1 DEF Lined
    <3>3. i % 3 = 0
      BY <3>1, <3>2
    <3> HIDE DEF k
    <3>4. QED
      BY <1>1, <1>2, <3>1, <3>3
  <2>3. QED
    BY <2>1, <2>2
<1>5. B \subseteq Int /\ k \in Int
  BY <1>1, <1>2
<1>6. LastBreak(u) = CHOOSE x \in B : \A y \in B : x >= y
  BY DEF LastBreak, Max
<1> HIDE DEF B, k
<1>7. (CHOOSE x \in B : \A y \in B : x >= y) = k
  <2> DEFINE m == CHOOSE x \in B : \A y \in B : x >= y
  <2>1. m \in B /\ \A y \in B : m >= y
    <3>1. k \in B /\ \A y \in B : k >= y
      BY <1>3, <1>4, <1>5
    <3>2. QED
      BY <3>1
  <2> HIDE DEF m
  <2>2. m >= k /\ m <= k /\ m \in Int
    BY <1>3, <1>4, <1>5, <2>1
  <2>3. m = k
    BY <1>5, <2>2
  <2>4. QED
    BY <2>3 DEF m
<1>8. QED
  BY <1>6, <1>7 DEF k

-----------------------------------------------------------------------------
\* Putting units together is associative.
LEMMA UnitsAssociate ==
  \A a \in Seq(Unit) : \A b \in Seq(Unit) : \A c \in Seq(Unit) : (a \o b) \o c = a \o (b \o c)
OBVIOUS

\* A piece of n units arrives: what was under way is the units of whole events,
\* followed by what stays in the buffer and by what is still on the wire.
LEMMA PieceArrives ==
  ASSUME NEW b \in Seq(Unit), NEW w \in Seq(Unit), NEW n \in 1..Len(w), Framed(b \o w)
  PROVE  LET units == b \o SubSeq(w, 1, n)
             rest == SubSeq(w, n + 1, Len(w))
             end == LastBreak(units)
             whole == SubSeq(units, 1, end)
             kept == SubSeq(units, end + 1, Len(units)) IN
         /\ {rest, whole, kept} \subseteq Seq(Unit)
         /\ Len(whole) % 3 = 0
         /\ Len(kept) < 3
         /\ whole \o (kept \o rest) = b \o w
<1> DEFINE piece == SubSeq(w, 1, n)
           units == b \o piece
           rest == SubSeq(w, n + 1, Len(w))
           end == LastBreak(units)
           whole == SubSeq(units, 1, end)
           kept == SubSeq(units, end + 1, Len(units))
<1>0. Len(w) \in Nat /\ Len(b) \in Nat /\ n \in Nat /\ n <= Len(w)
  OBVIOUS
<1>1. piece \in Seq(Unit) /\ rest \in Seq(Unit)
  <2>1. \A i \in 1..n : w[i] \in Unit
    BY <1>0
  <2>2. \A i \in (n + 1)..Len(w) : w[i] \in Unit
    BY <1>0
  <2>3. piece \in Seq(Unit)
    BY <1>0, <2>1, SubSeqProperties
  <2>4. n + 1 \in Int /\ Len(w) \in Int
    BY <1>0
  <2>5. rest \in Seq(Unit)
    BY <2>2, <2>4, SubSeqProperties
  <2>6. QED
    BY <2>3, <2>5
<1>2. piece \o rest = w
  <2>1. 1 \in 1..Len(w)+1 /\ n \in (1 - 1)..Len(w) /\ Len(w) \in n..Len(w)
    BY <1>0
  <2>2. SubSeq(w, 1, n) \o SubSeq(w, n + 1, Len(w)) = SubSeq(w, 1, Len(w))
    BY <2>1, ConcatAdjacentSubSeq
  <2>3. QED
    BY <2>2, SubSeqFull
<1> HIDE DEF piece, rest
<1>3. units \in Seq(Unit) /\ Len(units) \in Nat
  BY <1>1
<1>4. units \o rest = b \o w
  BY <1>1, <1>2, UnitsAssociate
<1>5. Lined(units)
  <2>1. Lined(b \o w)
    BY DEF Framed, Lined
  <2>2. \A i \in 1..Len(units) : i \in 1..Len(units \o rest) /\ (units \o rest)[i] = units[i]
    BY <1>1, <1>3
  <2> HIDE DEF units
  <2>3. QED
    BY <1>4, <2>1, <2>2 DEF Lined
<1> HIDE DEF units
<1>6. end = Len(units) - (Len(units) % 3)
  BY <1>3, <1>5, BreakIs
<1>7. end \in 0..Len(units) /\ end % 3 = 0 /\ Len(units) - end < 3
  BY <1>3, <1>6, ByThree
<1> HIDE DEF end
<1>8. whole \in Seq(Unit) /\ Len(whole) = end
  <2>1. \A i \in 1..end : units[i] \in Unit
    BY <1>3, <1>7
  <2>2. end \in Int
    BY <1>3, <1>7
  <2>3. whole \in Seq(Unit) /\ Len(whole) = IF 1 <= end THEN end - 1 + 1 ELSE 0
    BY <2>1, <2>2, SubSeqProperties
  <2>4. QED
    BY <1>3, <1>7, <2>3
<1>9. kept \in Seq(Unit) /\ Len(kept) < 3
  <2>1. \A i \in (end + 1)..Len(units) : units[i] \in Unit
    BY <1>3, <1>7
  <2>2. end + 1 \in Int /\ Len(units) \in Int
    BY <1>3, <1>7
  <2>3. kept \in Seq(Unit)
    BY <2>1, <2>2, SubSeqProperties
  <2>4. Len(kept) = IF end + 1 <= Len(units) THEN Len(units) - (end + 1) + 1 ELSE 0
    BY <2>1, <2>2, SubSeqProperties
  <2>5. QED
    BY <1>3, <1>7, <2>3, <2>4
<1>10. whole \o kept = units
  <2>1. CASE units = <<>>
    <3>1. Len(units) = 0 /\ Len(whole) = 0 /\ Len(kept) = 0
      <4>1. Len(units) = 0
        BY <2>1
      <4>2. end = 0
        BY <1>7, <4>1
      <4>3. end + 1 \in Int /\ Len(units) \in Int /\ Len(units) < end + 1
        BY <4>1, <4>2
      <4>4. kept = <<>>
        BY <4>3, SubSeqEmpty
      <4>5. QED
        BY <1>8, <4>1, <4>2, <4>4
    <3>2. whole = <<>> /\ kept = <<>>
      BY <1>8, <1>9, <3>1, EmptySeq
    <3>3. QED
      BY <2>1, <3>2
  <2>2. CASE units # <<>>
    <3>1. 1 \in 1..Len(units)+1 /\ end \in (1 - 1)..Len(units) /\ Len(units) \in end..Len(units)
      BY <1>3, <1>7
    <3>2. whole \o kept = SubSeq(units, 1, Len(units))
      BY <1>3, <3>1, ConcatAdjacentSubSeq
    <3>3. QED
      BY <1>3, <3>2, SubSeqFull
  <2>3. QED
    BY <2>1, <2>2
<1> HIDE DEF whole, kept
<1>11. whole \o (kept \o rest) = b \o w
  BY <1>1, <1>4, <1>8, <1>9, <1>10, UnitsAssociate
<1>12. QED
  BY <1>1, <1>7, <1>8, <1>9, <1>11 DEF piece, rest, units, end, whole, kept

\* What follows some whole events is framed as they are.
LEMMA FramedRest ==
  ASSUME NEW h \in Seq(Unit), NEW v \in Seq(Unit), Framed(h \o v), Len(h) % 3 = 0
  PROVE  /\ Framed(v) /\ Framed(h)
         /\ Len(h) \in Nat /\ Len(v) \in Nat /\ Len(h \o v) = Len(h) + Len(v)
         /\ \A i \in 1..Len(h) : (h \o v)[i] = h[i]
         /\ \A i \in 1..Len(v) : (h \o v)[Len(h) + i] = v[i]
<1>1. /\ Len(h) \in Nat /\ Len(v) \in Nat /\ Len(h \o v) = Len(h) + Len(v)
      /\ \A i \in 1..Len(h) : (h \o v)[i] = h[i]
      /\ \A i \in 1..Len(v) : (h \o v)[Len(h) + i] = v[i]
  OBVIOUS
<1>2. Len(v) % 3 = 0
  BY <1>1, ByThree DEF Framed
<1>3. ASSUME NEW i \in 1..Len(v) PROVE v[i] = Newline <=> i % 3 # 1
  <2>1. Len(h) + i \in 1..Len(h \o v) /\ (Len(h) + i) % 3 = i % 3
    <3>1. i \in Nat /\ Len(h) \in Nat /\ i <= Len(v)
      BY <1>1
    <3>2. (Len(h) + i) % 3 = i % 3
      BY <3>1, ByThree
    <3>3. PICK m \in Nat, k \in Nat : m = Len(h) /\ k = Len(v)
      BY <1>1
    <3>4. m + i \in 1..(m + k)
      BY <3>1, <3>3
    <3>5. QED
      BY <1>1, <3>2, <3>3, <3>4
  <2>2. (h \o v)[Len(h) + i] = Newline <=> (Len(h) + i) % 3 # 1
    BY <2>1 DEF Framed
  <2>3. QED
    BY <1>1, <2>1, <2>2
<1>4. ASSUME NEW i \in 1..Len(h) PROVE h[i] = Newline <=> i % 3 # 1
  <2>1. i \in 1..Len(h \o v)
    BY <1>1
  <2>2. QED
    BY <1>1, <2>1 DEF Framed
<1>5. QED
  BY <1>1, <1>2, <1>3, <1>4 DEF Framed

-----------------------------------------------------------------------------
\* An event with the newlines that end it, and what it adds to units.
LEMMA EventAdded ==
  ASSUME NEW u \in Seq(Unit), NEW e \in Unit, e.type # "newline", Framed(u)
  PROVE  LET f == <<e, Newline, Newline>>
             v == u \o f IN
         /\ f \in Seq(Unit) /\ v \in Seq(Unit)
         /\ Framed(v) /\ Len(v) = Len(u) + 3 /\ Len(u) \in Nat
         /\ TextOf(v) = IF IsTokenEvent(e) THEN Append(TextOf(u), e.token) ELSE TextOf(u)
         /\ \A i \in 1..Len(u) : v[i] = u[i]
         /\ v[Len(u) + 1] = e
         /\ \A i \in 1..Len(v) : v[i].type = "done" =>
              (i \in 1..Len(u) /\ u[i].type = "done") \/ (i = Len(u) + 1 /\ e.type = "done")
<1>1. Newline \in Unit /\ Newline.type = "newline" /\ ~IsTokenEvent(Newline)
  BY DEF Newline, Event, Unit, TokenOrNone, IsTokenEvent
<1>2. e # Newline
  BY <1>1
<1> DEFINE u1 == Append(u, e)
           u2 == Append(u1, Newline)
           u3 == Append(u2, Newline)
           f == <<e, Newline, Newline>>
<1>3. u1 \in Seq(Unit) /\ u2 \in Seq(Unit) /\ u3 \in Seq(Unit) /\ f \in Seq(Unit)
  BY <1>1, AppendProperties
<1>4. Len(u) \in Nat
  OBVIOUS
<1>5. u3 = u \o f
  <2>1. Newline \in Unit
    BY <1>1
  <2> HIDE DEF Newline
  <2>2. QED
    BY <2>1
<1>6. /\ Len(u3) = Len(u) + 3
      /\ \A i \in 1..Len(u) : u3[i] = u[i]
      /\ u3[Len(u) + 1] = e /\ u3[Len(u) + 2] = Newline /\ u3[Len(u) + 3] = Newline
  BY <1>1, <1>3, <1>4
<1>7. TextOf(u3) = IF IsTokenEvent(e) THEN Append(TextOf(u), e.token) ELSE TextOf(u)
  <2>1. TextOf(u1) = IF IsTokenEvent(e) THEN Append(TextOf(u), e.token) ELSE TextOf(u)
    BY TextAppended
  <2> HIDE DEF u1
  <2>2. TextOf(u2) = TextOf(u1)
    BY <1>1, <1>3, TextAppended
  <2> HIDE DEF u2
  <2>3. TextOf(u3) = TextOf(u2)
    BY <1>1, <1>3, TextAppended
  <2>4. QED
    BY <2>1, <2>2, <2>3
<1> HIDE DEF u3
<1>8. PICK n \in Nat : n = Len(u)
  BY <1>4
<1>9. n % 3 = 0
  BY <1>8 DEF Framed
<1>10. ASSUME NEW i \in 1..(n + 3)
       PROVE  (i \in 1..n /\ u3[i] = u[i]) \/ (i = n + 1 /\ u3[i] = e)
                \/ (i \in {n + 2, n + 3} /\ u3[i] = Newline)
  BY <1>6, <1>8
<1>11. (n + 3) % 3 = 0 /\ (n + 1) % 3 = 1 /\ (n + 2) % 3 # 1 /\ (n + 3) % 3 # 1
  BY <1>9
<1>12. Framed(u3)
  <2>1. ASSUME NEW i \in 1..(n + 3) PROVE u3[i] = Newline <=> i % 3 # 1
    <3>1. CASE i \in 1..n
      <4>1. u3[i] = u[i]
        BY <1>6, <1>8, <3>1
      <4>2. u[i] = Newline <=> i % 3 # 1
        BY <1>8, <3>1 DEF Framed
      <4>3. QED
        BY <4>1, <4>2
    <3>2. CASE i \notin 1..n
      BY <1>2, <1>8, <1>10, <1>11, <3>2
    <3>3. QED
      BY <3>1, <3>2
  <2>2. QED
    BY <1>6, <1>8, <1>11, <2>1 DEF Framed
<1>13. ASSUME NEW i \in 1..Len(u3), u3[i].type = "done"
       PROVE  (i \in 1..Len(u) /\ u[i].type = "done") \/ (i = Len(u) + 1 /\ e.type = "done")
  BY <1>1, <1>6, <1>8, <1>10, <1>13
<1>14. QED
  BY <1>3, <1>4, <1>5, <1>6, <1>7, <1>12, <1>13

-----------------------------------------------------------------------------
\* The units under way and the last bubble are typed.
LEMMA FlowTyped ==
  ASSUME StreamTyped, NEW r \in Sends
  PROVE  /\ buf[r] \in Seq(Unit) /\ wire[r] \in Seq(Unit) /\ reply[r] \in Seq(TokenOrNone)
         /\ UnderWay(r) \in Seq(Unit) /\ turn[r] \in Nat /\ r \in Nat
         /\ page \in Pages /\ page.bubbles \in Seq(Bubbles)
         /\ page.status \in {"", "thinking", "tool"} /\ page.loading \in BOOLEAN
         /\ Len(page.bubbles) \in Nat \ {0} /\ LastBubble(page) \in Bubbles
         /\ LastBubble(page).text \in Seq(TokenOrNone) /\ LastBubble(page).streaming \in BOOLEAN
<1>1. buf[r] \in Seq(Unit) /\ wire[r] \in Seq(Unit) /\ reply[r] \in Seq(TokenOrNone)
  BY DEF StreamTyped
<1>2. UnderWay(r) \in Seq(Unit)
  BY <1>1 DEF UnderWay
<1>3. turn[r] \in Nat /\ r \in Nat
  BY WidgetAssumption DEF StreamTyped, Sends
<1>4. page \in Pages /\ page.bubbles \in Seq(Bubbles)
      /\ page.status \in {"", "thinking", "tool"} /\ page.loading \in BOOLEAN
  BY DEF StreamTyped, Pages
<1>5. Len(page.bubbles) \in Nat \ {0}
  BY <1>4, EmptySeq DEF StreamTyped
<1>6. LastBubble(page) \in Bubbles
  <2>1. PICK B \in Seq(Bubbles) : B = page.bubbles
    BY <1>4
  <2>2. B[Len(B)] \in Bubbles
    BY <1>5, <2>1
  <2>3. QED
    BY <2>1, <2>2 DEF LastBubble
<1>7. LastBubble(page).text \in Seq(TokenOrNone) /\ LastBubble(page).streaming \in BOOLEAN
  BY <1>6 DEF Bubbles
<1>8. QED
  BY <1>1, <1>2, <1>3, <1>4, <1>5, <1>6, <1>7

\* A step of the server that says nothing to the reader and does not end its
\* answer (Load, AskOpenAI, FallBack, OpenAIEnds, AnthropicAnswers, ServerFails).
LEMMA FlowSilent ==
  ASSUME FlowInv, NEW r \in Sends, NEW step \in {"failed"} \cup Busy,
         pc[r] \in Busy, pc' = [pc EXCEPT ![r] = step],
         turn' \in [Sends -> Nat],
         UNCHANGED <<reply, wire, buf, reader, page>>,
         recorded \subseteq recorded'
  PROVE  FlowInv'
<1>1. StreamTyped'
  BY DEF FlowInv, StreamTyped, Pages
<1>2. pc'[r] = step /\ step \notin {"unsent", "ended"} /\ pc[r] \notin {"unsent", "ended"}
      /\ \A s \in Sends \ {r} : pc'[s] = pc[s]
  BY DEF FlowInv, StreamTyped, Busy
<1>3. NoStray'
  <2> SUFFICES ASSUME NEW s \in Sends
               PROVE  /\ reader[s] # "open" => wire[s] = <<>> /\ buf[s] = <<>>
                      /\ pc'[s] = "unsent" => reply[s] = <<>> /\ reader[s] = "none"
                      /\ pc'[s] = "ended" => Saved(s)' \in recorded'
    BY DEF NoStray
  <2>1. Saved(s)' = Saved(s)
    BY DEF Saved
  <2>2. QED
    BY <1>2, <2>1 DEF FlowInv, NoStray
<1>4. OthersSettled' /\ PageIsSettled'
  BY DEF FlowInv, OthersSettled, PageIsSettled
<1>5. FinishedMeansSaved'
  BY DEF FlowInv, FinishedMeansSaved
<1>6. ASSUME NEW s \in Sends, reader'[s] = "open" PROVE Flow(s)'
  <2>1. Flow(s)
    BY <1>6 DEF FlowInv
  <2>2. pc'[s] = "ended" <=> pc[s] = "ended"
    BY <1>2
  <2>3. UNCHANGED <<LastBubble(page), UnderWay(s)>>
    BY DEF LastBubble, UnderWay
  <2>4. QED
    BY <2>1, <2>2, <2>3 DEF Flow, HasDone
<1>7. QED
  BY <1>1, <1>3, <1>4, <1>5, <1>6 DEF FlowInv

-----------------------------------------------------------------------------
\* A step of the server that sends an event: a token is part of the reply, and
\* the answer ends with "done", when the reply has been saved (OpenAIToken,
\* AnthropicAnswers, CallTool, SaveReply).
LEMMA FlowSpoken ==
  ASSUME FlowInv, NEW r \in Sends, NEW step \in {"ended"} \cup Busy,
         NEW e \in Unit, e.type \in {"token", "status", "done"},
         pc[r] \in Busy, pc' = [pc EXCEPT ![r] = step],
         turn' \in [Sends -> Nat],
         Emit(r, e),
         reply' = IF IsTokenEvent(e) THEN [reply EXCEPT ![r] = Append(@, e.token)] ELSE reply,
         UNCHANGED <<buf, reader, page>>,
         recorded \subseteq recorded',
         step = "ended" <=> e.type = "done",
         step = "ended" => Saved(r) \in recorded'
  PROVE  FlowInv'
<1> DEFINE f == <<e, Newline, Newline>>
<1>1. f \in Seq(Unit) /\ e.token \in TokenOrNone
  <2>1. Newline \in Unit /\ e.token \in TokenOrNone
    BY DEF Newline, Event, Unit, TokenOrNone
  <2>2. QED
    BY <2>1
<1>2. \A s \in Sends \ {r} : wire'[s] = wire[s] /\ reply'[s] = reply[s] /\ pc'[s] = pc[s]
  BY DEF Emit, FlowInv, StreamTyped
<1>3. wire'[r] = IF reader[r] = "open" THEN wire[r] \o f ELSE wire[r]
  BY DEF Emit, FlowInv, StreamTyped
<1>4. reply'[r] = IF IsTokenEvent(e) THEN Append(reply[r], e.token) ELSE reply[r]
  BY DEF FlowInv, StreamTyped
<1>5. pc'[r] = step /\ step # "unsent" /\ pc[r] \notin {"unsent", "ended"}
  BY DEF FlowInv, StreamTyped, Busy
<1>6. /\ buf[r] \in Seq(Unit) /\ wire[r] \in Seq(Unit) /\ reply[r] \in Seq(TokenOrNone)
      /\ UnderWay(r) \in Seq(Unit)
      /\ LastBubble(page).text \in Seq(TokenOrNone)
  BY FlowTyped DEF FlowInv
<1>7. StreamTyped'
  <2>1. wire' \in [Sends -> Seq(Unit)]
    <3>1. CASE reader[r] # "open"
      BY <3>1 DEF Emit, FlowInv, StreamTyped
    <3>2. CASE reader[r] = "open"
      <4>1. wire' = [wire EXCEPT ![r] = wire[r] \o f]
        BY <3>2 DEF Emit
      <4>2. wire[r] \o f \in Seq(Unit)
        BY <1>1, <1>6
      <4>3. QED
        BY <4>1, <4>2 DEF FlowInv, StreamTyped
    <3>3. QED
      BY <3>1, <3>2
  <2>2. reply' \in [Sends -> Seq(TokenOrNone)]
    <3>1. CASE ~IsTokenEvent(e)
      BY <3>1 DEF FlowInv, StreamTyped
    <3>2. CASE IsTokenEvent(e)
      <4>1. reply' = [reply EXCEPT ![r] = Append(reply[r], e.token)]
        BY <3>2
      <4>2. Append(reply[r], e.token) \in Seq(TokenOrNone)
        BY <1>1, <1>6
      <4>3. QED
        BY <4>1, <4>2 DEF FlowInv, StreamTyped
    <3>3. QED
      BY <3>1, <3>2
  <2>3. pc' \in [Sends -> {"unsent", "ended", "failed"} \cup Busy]
    BY DEF FlowInv, StreamTyped
  <2>4. QED
    BY <2>1, <2>2, <2>3 DEF FlowInv, StreamTyped, Pages
<1>8. NoStray'
  <2> SUFFICES ASSUME NEW s \in Sends
               PROVE  /\ reader[s] # "open" => wire'[s] = <<>> /\ buf[s] = <<>>
                      /\ pc'[s] = "unsent" => reply'[s] = <<>> /\ reader[s] = "none"
                      /\ pc'[s] = "ended" => Saved(s)' \in recorded'
    BY DEF NoStray
  <2>1. CASE s # r
    <3>1. Saved(s)' = Saved(s)
      BY <1>2, <2>1 DEF Saved
    <3>2. QED
      BY <1>2, <2>1, <3>1 DEF FlowInv, NoStray
  <2>2. CASE s = r
    <3>1. step = "ended" => Saved(r)' = Saved(r)
      BY <1>4 DEF Saved, IsTokenEvent
    <3>2. QED
      BY <1>3, <1>5, <2>2, <3>1 DEF FlowInv, NoStray
  <2>3. QED
    BY <2>1, <2>2
<1>9. OthersSettled' /\ PageIsSettled'
  BY DEF FlowInv, OthersSettled, PageIsSettled
<1>10. FinishedMeansSaved'
  BY DEF FlowInv, FinishedMeansSaved
<1>11. ASSUME NEW s \in Sends, reader'[s] = "open" PROVE Flow(s)'
  <2>0. Flow(s) /\ LastBubble(page)' = LastBubble(page) /\ buf'[s] = buf[s]
    BY <1>11 DEF FlowInv, LastBubble
  <2>1. CASE s # r
    <3>1. UnderWay(s)' = UnderWay(s) /\ reply'[s] = reply[s] /\ (pc'[s] = "ended" <=> pc[s] = "ended")
      BY <1>2, <2>1 DEF UnderWay
    <3>2. QED
      BY <2>0, <3>1 DEF Flow, HasDone
  <2>2. CASE s = r
    <3>1. PICK u \in Seq(Unit) : u = UnderWay(r)
      BY <1>6
    <3>2. PICK v : v = u \o f
      OBVIOUS
    <3>3. UnderWay(r)' = v
      <4>1. UnderWay(r)' = buf[r] \o (wire[r] \o f)
        BY <1>3, <1>11, <2>2 DEF UnderWay
      <4>2. (buf[r] \o wire[r]) \o f = buf[r] \o (wire[r] \o f)
        BY <1>1, <1>6, UnitsAssociate
      <4>3. QED
        BY <3>1, <3>2, <4>1, <4>2 DEF UnderWay
    <3>4. PICK b \in Bubbles : b = LastBubble(page)
      BY FlowTyped DEF FlowInv
    <3>5. /\ Len(buf[r]) < 3
          /\ Framed(u)
          /\ b.role = "assistant" /\ b.of = r /\ ~b.error
          /\ b.text \o TextOf(u) = reply[r]
          /\ ~HasDone(u)
          /\ b.streaming
          /\ b.streaming \in BOOLEAN
      BY <1>5, <2>0, <2>2, <3>1, <3>4 DEF Flow, Bubbles
    <3>6. e.type # "newline"
      OBVIOUS
    <3>7. /\ v \in Seq(Unit)
          /\ Framed(v) /\ Len(v) = Len(u) + 3 /\ Len(u) \in Nat
          /\ TextOf(v) = IF IsTokenEvent(e) THEN Append(TextOf(u), e.token) ELSE TextOf(u)
          /\ v[Len(u) + 1] = e
          /\ \A i \in 1..Len(v) : v[i].type = "done" =>
               (i \in 1..Len(u) /\ u[i].type = "done") \/ (i = Len(u) + 1 /\ e.type = "done")
      BY <3>2, <3>5, <3>6, EventAdded
    <3>8. b.text \o TextOf(v) = reply'[r]
      <4>1. CASE ~IsTokenEvent(e)
        BY <1>4, <3>5, <3>7, <4>1
      <4>2. CASE IsTokenEvent(e)
        <5>1. b.text \in Seq(TokenOrNone) /\ TextOf(u) \in Seq(TokenOrNone)
          BY <3>4, TextOfConcat DEF Bubbles
        <5>2. Append(b.text \o TextOf(u), e.token) = b.text \o Append(TextOf(u), e.token)
          BY <1>1, <5>1, AppendOfConcat
        <5>3. QED
          BY <1>4, <3>5, <3>7, <4>2, <5>2
      <4>3. QED
        BY <4>1, <4>2
    <3>9. ASSUME NEW i \in 1..Len(v), v[i].type = "done"
          PROVE  i = Len(v) - 2 /\ e.type = "done"
      BY <3>5, <3>7, <3>9 DEF HasDone
    <3>10. HasDone(v) <=> e.type = "done"
      <4>1. Len(u) + 1 \in 1..Len(v)
        BY <3>7
      <4>2. QED
        BY <3>7, <3>9, <4>1 DEF HasDone
    <3>11. pc'[r] = "ended" <=> HasDone(v) \/ ~b.streaming
      BY <1>5, <3>5, <3>10
    <3>12. Flow(r)'
      BY <2>0, <2>2, <3>3, <3>4, <3>5, <3>7, <3>8, <3>9, <3>11 DEF Flow
    <3>13. QED
      BY <2>2, <3>12
  <2>3. QED
    BY <2>1, <2>2
<1>12. QED
  BY <1>7, <1>8, <1>9, <1>10, <1>11 DEF FlowInv

-----------------------------------------------------------------------------
\* While a response is read, no other one is.
LEMMA OneReader ==
  ASSUME FlowInv, NEW r \in Sends, reader[r] = "open"
  PROVE  /\ page.loading /\ Flow(r)
         /\ \A s \in Sends \ {r} : reader[s] # "open"
BY DEF FlowInv, PageIsSettled

\* A piece arrives and its whole events are handled.
LEMMA FlowReceive ==
  ASSUME FlowInv, NEW r \in Sends, NEW n \in 1..Len(wire[r]), Receive(r, n)
  PROVE  FlowInv'
<1> DEFINE units == buf[r] \o SubSeq(wire[r], 1, n)
           rest == SubSeq(wire[r], n + 1, Len(wire[r]))
           end == LastBreak(units)
           whole == SubSeq(units, 1, end)
           kept == SubSeq(units, end + 1, Len(units))
<1>1. /\ reader[r] = "open"
      /\ wire' = [wire EXCEPT ![r] = rest]
      /\ buf' = [buf EXCEPT ![r] = kept]
      /\ page' = HandleAll(page, whole)
      /\ UNCHANGED <<providers, pc, turn, calls, said, reply, reader, recorded>>
  BY DEF Receive, server
<1>2. Flow(r) /\ page.loading /\ \A s \in Sends \ {r} : reader[s] # "open"
  BY <1>1, OneReader
<1>3. /\ buf[r] \in Seq(Unit) /\ wire[r] \in Seq(Unit) /\ reply[r] \in Seq(TokenOrNone)
      /\ UnderWay(r) \in Seq(Unit)
      /\ page \in Pages /\ page.bubbles \in Seq(Bubbles)
      /\ Len(page.bubbles) \in Nat \ {0} /\ LastBubble(page) \in Bubbles
  BY FlowTyped DEF FlowInv
<1>4. Framed(buf[r] \o wire[r])
  BY <1>2 DEF Flow, UnderWay
<1>5. /\ {rest, whole, kept} \subseteq Seq(Unit)
      /\ Len(whole) % 3 = 0
      /\ Len(kept) < 3
      /\ whole \o (kept \o rest) = buf[r] \o wire[r]
  BY <1>3, <1>4, PieceArrives
<1> HIDE DEF units, rest, end, whole, kept
<1>6. PICK h \in Seq(Unit) : h = whole
  BY <1>5
<1>7. PICK v \in Seq(Unit) : v = kept \o rest
  <2>1. kept \in Seq(Unit) /\ rest \in Seq(Unit)
    BY <1>5
  <2>2. kept \o rest \in Seq(Unit)
    BY <2>1
  <2>3. QED
    BY <2>2
<1>8. UnderWay(r) = h \o v
  BY <1>5, <1>6, <1>7 DEF UnderWay
<1>9. UnderWay(r)' = v /\ wire'[r] = rest /\ buf'[r] = kept
  BY <1>1, <1>7 DEF UnderWay, FlowInv, StreamTyped
<1>10. PICK b \in Bubbles : b = LastBubble(page)
  BY <1>3
<1>11. PICK m \in Nat : m = Len(page.bubbles) /\ m # 0 /\ b = page.bubbles[m]
  BY <1>3, <1>10 DEF LastBubble
<1>12. PICK u \in Seq(Unit) : u = h \o v
  BY <1>3, <1>8
<1>13. /\ Framed(u)
       /\ b.role = "assistant" /\ b.of = r /\ ~b.error
       /\ b.text \o TextOf(u) = reply[r]
       /\ \A i \in 1..Len(u) : u[i].type = "done" => i = Len(u) - 2
       /\ HasDone(u) => b.streaming
       /\ ~b.streaming => u = <<>> /\ page.status = ""
       /\ pc[r] = "ended" <=> HasDone(u) \/ ~b.streaming
       /\ b.text \in Seq(TokenOrNone) /\ b.streaming \in BOOLEAN
  BY <1>2, <1>8, <1>10, <1>12 DEF Flow, Bubbles
<1>14. /\ Framed(v) /\ Framed(h)
       /\ Len(h) \in Nat /\ Len(v) \in Nat /\ Len(u) = Len(h) + Len(v)
       /\ \A i \in 1..Len(h) : u[i] = h[i]
       /\ \A i \in 1..Len(v) : u[Len(h) + i] = v[i]
  <2>1. Framed(h \o v) /\ Len(h) % 3 = 0
    BY <1>5, <1>6, <1>12, <1>13
  <2>2. QED
    BY <1>12, <2>1, FramedRest
<1>15. u # <<>>
  <2>1. PICK x \in Seq(Unit), y \in Seq(Unit) : x = buf[r] /\ y = wire[r]
    BY <1>3
  <2>2. Len(u) # 0
    <3>1. u = x \o y
      BY <1>8, <1>12, <2>1 DEF UnderWay
    <3>2. n \in 1..Len(y)
      BY <2>1
    <3>3. Len(x \o y) = Len(x) + Len(y) /\ Len(x) \in Nat /\ Len(y) \in Nat
      BY <2>1
    <3>4. QED
      BY <3>1, <3>2, <3>3
  <2>3. QED
    BY <2>2, EmptySeq
<1>16. b.streaming
  BY <1>13, <1>15
<1>17. PICK q : q = page'
  OBVIOUS
<1>18. /\ q \in Pages /\ Len(q.bubbles) = m
       /\ \A i \in 1..(m - 1) : q.bubbles[i] = page.bubbles[i]
       /\ q.loading = page.loading
       /\ q.bubbles[m].role = "assistant" /\ q.bubbles[m].of = b.of /\ q.bubbles[m].error = b.error
       /\ q.bubbles[m].text = b.text \o TextOf(h)
       /\ q.bubbles[m].streaming = (b.streaming /\ ~HasDone(h))
       /\ \A i \in 1..Len(h) :
            h[i].type = "done" /\ (\A j \in (i + 1)..Len(h) : h[j] = Newline) => q.status = ""
  <2>1. page.bubbles # <<>> /\ LastBubble(page).role = "assistant"
    BY <1>10, <1>13 DEF FlowInv, StreamTyped
  <2>2. Handled(page, h)
    BY <1>3, <2>1, HandleAllDoes
  <2>3. q = HandleAll(page, h)
    BY <1>1, <1>6, <1>17
  <2>4. QED
    BY <1>11, <2>2, <2>3 DEF Handled
<1>19. LastBubble(q) = q.bubbles[m] /\ q.bubbles[m] \in Bubbles
  <2>1. q.bubbles \in Seq(Bubbles)
    BY <1>18 DEF Pages
  <2>2. PICK B \in Seq(Bubbles) : B = q.bubbles
    BY <2>1
  <2>3. B \in Seq(Bubbles)
    BY <2>2
  <2>4. Len(B) = m /\ m \in 1..m
    <3>1. Len(q.bubbles) = m
      BY <1>18
    <3>2. m \in Nat /\ m # 0
      BY <1>11
    <3>3. m \in 1..m
      BY <3>2
    <3>4. QED
      BY <2>2, <3>1, <3>3
  <2>5. B[m] \in Bubbles
    BY <2>3, <2>4, ElementOfSeq
  <2>6. QED
    BY <2>2, <2>4, <2>5 DEF LastBubble
<1>20. HasDone(u) <=> HasDone(h) \/ HasDone(v)
  <2>1. ASSUME HasDone(u) PROVE HasDone(h) \/ HasDone(v)
    <3>1. PICK i \in 1..Len(u) : u[i].type = "done"
      BY <2>1 DEF HasDone
    <3>2. CASE i <= Len(h)
      BY <1>14, <3>1, <3>2 DEF HasDone
    <3>3. CASE ~(i <= Len(h))
      <4>0. i \in Nat /\ Len(h) \in Nat /\ i > Len(h)
        BY <1>14, <3>3
      <4>1. PICK j \in Nat : j = i - Len(h)
        <5>1. PICK x \in Nat : x = Len(h)
          BY <1>14
        <5>2. i - x \in Nat
          BY <4>0, <5>1
        <5>3. QED
          BY <5>1, <5>2
      <4>2. j \in 1..Len(v) /\ i = Len(h) + j
        BY <1>14, <3>3, <4>1
      <4>3. v[j].type = "done"
        BY <1>14, <3>1, <4>2
      <4>4. QED
        BY <4>2, <4>3 DEF HasDone
    <3>4. QED
      BY <3>2, <3>3
  <2>2. ASSUME HasDone(h) PROVE HasDone(u)
    <3>1. PICK i \in 1..Len(h) : h[i].type = "done"
      BY <2>2 DEF HasDone
    <3>2. i \in 1..Len(u) /\ u[i].type = "done"
      BY <1>14, <3>1
    <3>3. QED
      BY <3>2 DEF HasDone
  <2>3. ASSUME HasDone(v) PROVE HasDone(u)
    <3>1. PICK j \in 1..Len(v) : v[j].type = "done"
      BY <2>3 DEF HasDone
    <3>2. Len(h) + j \in 1..Len(u) /\ u[Len(h) + j].type = "done"
      BY <1>14, <3>1
    <3>3. QED
      BY <3>2 DEF HasDone
  <2>4. QED
    BY <2>1, <2>2, <2>3
<1>21. ASSUME HasDone(h) PROVE v = <<>> /\ q.status = ""
  <2>1. PICK i \in 1..Len(h) : h[i].type = "done"
    BY <1>21 DEF HasDone
  <2>2. i \in 1..Len(u) /\ u[i].type = "done"
    BY <1>14, <2>1
  <2>3. i = Len(u) - 2
    BY <1>13, <2>2
  <2>4. PICK x \in Nat, y \in Nat : x = Len(h) /\ y = Len(v)
    BY <1>14
  <2>5. x % 3 = 0 /\ y % 3 = 0 /\ i = x + y - 2 /\ i <= x
    BY <1>14, <2>1, <2>3, <2>4 DEF Framed
  <2>6. y = 0 /\ i = x - 2
    BY <2>5
  <2>7. v = <<>>
    BY <2>4, <2>6, EmptySeq
  <2>8. ASSUME NEW j \in (i + 1)..Len(h) PROVE h[j] = Newline
    <3>1. j \in 1..Len(h) /\ j \in {x - 1, x}
      BY <2>1, <2>4, <2>6
    <3>2. j % 3 # 1
      BY <2>5, <3>1
    <3>3. QED
      BY <1>14, <3>1, <3>2 DEF Framed
  <2>9. q.status = ""
    BY <1>18, <2>1, <2>8
  <2>10. QED
    BY <2>7, <2>9
<1>22. StreamTyped'
  <2>1. wire' \in [Sends -> Seq(Unit)] /\ buf' \in [Sends -> Seq(Unit)]
    BY <1>1, <1>5 DEF FlowInv, StreamTyped
  <2>2. page' \in Pages /\ page'.bubbles # <<>>
    <3>1. Len(q.bubbles) # 0
      BY <1>11, <1>18
    <3>2. q.bubbles # <<>>
      BY <3>1, EmptySeq
    <3>3. QED
      BY <1>17, <1>18, <3>2
  <2>3. QED
    BY <1>1, <2>1, <2>2 DEF FlowInv, StreamTyped
<1>23. NoStray'
  <2> SUFFICES ASSUME NEW s \in Sends
               PROVE  /\ reader[s] # "open" => wire'[s] = <<>> /\ buf'[s] = <<>>
                      /\ pc[s] = "unsent" => reply[s] = <<>> /\ reader[s] = "none"
                      /\ pc[s] = "ended" => Saved(s)' \in recorded
    BY <1>1 DEF NoStray
  <2>1. Saved(s)' = Saved(s)
    BY <1>1 DEF Saved
  <2>2. s # r => wire'[s] = wire[s] /\ buf'[s] = buf[s]
    BY <1>1 DEF FlowInv, StreamTyped
  <2>3. QED
    BY <1>1, <2>1, <2>2 DEF FlowInv, NoStray
<1>24. OthersSettled'
  BY <1>11, <1>17, <1>18 DEF FlowInv, OthersSettled
<1>25. PageIsSettled'
  BY <1>1, <1>2, <1>17, <1>18 DEF FlowInv, PageIsSettled
<1>26. q.bubbles[m].text \o TextOf(v) = reply[r]
  <2>1. TextOf(u) = TextOf(h) \o TextOf(v)
        /\ TextOf(h) \in Seq(TokenOrNone) /\ TextOf(v) \in Seq(TokenOrNone)
    BY <1>12, TextOfConcat
  <2>2. PICK t1 \in Seq(TokenOrNone), t2 \in Seq(TokenOrNone), t3 \in Seq(TokenOrNone) :
          t1 = b.text /\ t2 = TextOf(h) /\ t3 = TextOf(v)
    BY <1>13, <2>1
  <2>3. (t1 \o t2) \o t3 = t1 \o (t2 \o t3)
    OBVIOUS
  <2>4. QED
    BY <1>13, <1>18, <2>1, <2>2, <2>3
<1>27. HasDone(h) => q.bubbles[m].text = reply[r]
  <2> SUFFICES ASSUME HasDone(h) PROVE q.bubbles[m].text = reply[r]
    OBVIOUS
  <2>1. TextOf(v) = <<>>
    BY <1>21, SomeUnit, TextAppended, EmptySeq
  <2>2. q.bubbles[m].text \in Seq(TokenOrNone)
    BY <1>19 DEF Bubbles
  <2>3. q.bubbles[m].text \o <<>> = q.bubbles[m].text
    BY <2>2, ConcatEmptySeq
  <2>4. QED
    BY <1>26, <2>1, <2>3
<1>28. FinishedMeansSaved'
  <2> SUFFICES ASSUME NEW i \in 1..m, q.bubbles[i].role = "assistant", q.bubbles[i] # Greeting,
                      ~q.bubbles[i].streaming, ~q.bubbles[i].error
               PROVE  [of |-> q.bubbles[i].of, text |-> q.bubbles[i].text] \in recorded
    BY <1>1, <1>17, <1>18 DEF FinishedMeansSaved
  <2>1. CASE i # m
    <3>1. i \in 1..(m - 1) /\ i \in 1..Len(page.bubbles)
      BY <1>11, <2>1
    <3>2. QED
      BY <1>18, <3>1 DEF FlowInv, FinishedMeansSaved
  <2>2. CASE i = m
    <3>1. HasDone(h)
      BY <1>16, <1>18, <2>2
    <3>2. pc[r] = "ended"
      BY <1>13, <1>20, <3>1
    <3>3. [of |-> r, text |-> reply[r]] \in recorded
      BY <3>2 DEF FlowInv, NoStray, Saved
    <3>4. QED
      BY <1>13, <1>18, <1>27, <2>2, <3>1, <3>3
  <2>3. QED
    BY <2>1, <2>2
<1>29. Flow(r)'
  <2>1. HasDone(v) => ~HasDone(h)
    <3>1. HasDone(h) => Len(v) = 0
      BY <1>21, EmptySeq
    <3>2. HasDone(v) => Len(v) # 0
      BY <1>14 DEF HasDone
    <3>3. QED
      BY <3>1, <3>2
  <2>2. ASSUME NEW i \in 1..Len(v), v[i].type = "done" PROVE i = Len(v) - 2
    <3>1. Len(h) + i \in 1..Len(u) /\ u[Len(h) + i].type = "done"
      BY <1>14, <2>2
    <3>2. Len(h) + i = Len(u) - 2
      BY <1>13, <3>1
    <3>3. QED
      BY <1>14, <3>2
  <2>3. ~q.bubbles[m].streaming <=> HasDone(h)
    BY <1>16, <1>18
  <2>4. pc[r] = "ended" <=> HasDone(v) \/ ~q.bubbles[m].streaming
    BY <1>13, <1>16, <1>20, <2>3
  <2>5. PICK c \in Bubbles : c = q.bubbles[m]
    BY <1>19
  <2>6. /\ Len(kept) < 3 /\ Framed(v)
        /\ c.role = "assistant" /\ c.of = r /\ ~c.error
        /\ c.text \o TextOf(v) = reply[r]
        /\ \A i \in 1..Len(v) : v[i].type = "done" => i = Len(v) - 2
        /\ HasDone(v) => c.streaming
        /\ ~c.streaming => v = <<>> /\ q.status = ""
        /\ pc[r] = "ended" <=> HasDone(v) \/ ~c.streaming
    BY <1>5, <1>13, <1>14, <1>18, <1>21, <1>26, <2>1, <2>2, <2>3, <2>4, <2>5
  <2>7. LastBubble(page)' = c
    BY <1>17, <1>19, <2>5 DEF LastBubble
  <2>8. QED
    BY <1>1, <1>9, <1>17, <2>6, <2>7 DEF Flow
<1>30. QED
  BY <1>1, <1>2, <1>22, <1>23, <1>24, <1>25, <1>28, <1>29 DEF FlowInv

-----------------------------------------------------------------------------
\* The steps of the server keep the invariant.
LEMMA FlowServe ==
  ASSUME FlowInv, NEW r \in Sends, Serve(r)
  PROVE  FlowInv'
<1> USE DEF Goto
<1>0. turn[r] \in Nat /\ r \in Sends /\ turn \in [Sends -> Nat]
      /\ pc \in [Sends -> {"unsent", "ended", "failed"} \cup Busy]
  BY FlowTyped DEF FlowInv, StreamTyped
<1>1. \A provider \in {"openai", "anthropic"} :
        LET e == Event("token", Token(r, provider)) IN
        e \in Unit /\ e.type = "token" /\ e.token = Token(r, provider) /\ IsTokenEvent(e)
  BY <1>0 DEF Event, Token, Unit, TokenOrNone, AnyToken, Provider, IsTokenEvent
<1>2. \A type \in {"status", "done"} :
        LET e == Event(type, NoToken) IN e \in Unit /\ e.type = type /\ ~IsTokenEvent(e)
  BY DEF Event, Unit, TokenOrNone, IsTokenEvent
<1>3. CASE Load(r)
  BY <1>0, <1>3, FlowSilent DEF Load, browser, Busy
<1>4. CASE AskOpenAI(r)
  BY <1>0, <1>4, FlowSilent DEF AskOpenAI, browser, Busy
<1>5. CASE FallBack(r)
  BY <1>0, <1>5, FlowSilent DEF FallBack, browser, Busy
<1>6. CASE OpenAIToken(r)
  <2>1. PICK e \in Unit : e = Event("token", Token(r, "openai"))
    BY <1>1
  <2>2. e.type = "token" /\ e.token = Token(r, "openai") /\ IsTokenEvent(e)
    BY <1>1, <2>1
  <2>3. pc' = [pc EXCEPT ![r] = "openai"] /\ "openai" \in Busy /\ pc[r] \in Busy
    BY <1>0, <1>6 DEF OpenAIToken, Busy
  <2>4. /\ Emit(r, e)
        /\ reply' = IF IsTokenEvent(e) THEN [reply EXCEPT ![r] = Append(@, e.token)] ELSE reply
        /\ UNCHANGED <<turn, buf, reader, page, recorded>>
    BY <1>6, <2>1, <2>2 DEF OpenAIToken, Speak, browser
  <2>5. QED
    BY <1>0, <2>2, <2>3, <2>4, FlowSpoken
<1>7. CASE OpenAIEnds(r)
  BY <1>0, <1>7, FlowSilent DEF OpenAIEnds, EndResponse, browser, Busy
<1>8. CASE AnthropicAnswers(r)
  <2>1. CASE UNCHANGED <<reply, wire>>
    BY <1>0, <1>8, <2>1, FlowSilent DEF AnthropicAnswers, EndResponse, browser, Busy
  <2>2. CASE Speak(r, "anthropic") /\ EndResponse(r, 0)
    <3>1. PICK e \in Unit : e = Event("token", Token(r, "anthropic"))
      BY <1>1
    <3>2. e.type = "token" /\ e.token = Token(r, "anthropic") /\ IsTokenEvent(e)
      BY <1>1, <3>1
    <3>3. pc' = [pc EXCEPT ![r] = "save"] /\ "save" \in Busy /\ pc[r] \in Busy
      BY <1>8, <2>2 DEF AnthropicAnswers, EndResponse, Busy
    <3>4. /\ Emit(r, e)
          /\ reply' = IF IsTokenEvent(e) THEN [reply EXCEPT ![r] = Append(@, e.token)] ELSE reply
          /\ UNCHANGED <<turn, buf, reader, page, recorded>>
      BY <1>8, <2>2, <3>1, <3>2 DEF AnthropicAnswers, Speak, browser
    <3>5. QED
      BY <1>0, <3>2, <3>3, <3>4, FlowSpoken
  <2>3. QED
    BY <1>8, <2>1, <2>2 DEF AnthropicAnswers
<1>9. CASE CallTool(r)
  <2>1. PICK step \in {"tools", "llm", "save"} : pc' = [pc EXCEPT ![r] = step]
    BY <1>9 DEF CallTool
  <2>2. turn' \in [Sends -> Nat]
    <3>1. turn' \in {turn, [turn EXCEPT ![r] = turn[r] + 1]}
      BY <1>9 DEF CallTool
    <3>2. turn[r] + 1 \in Nat
      BY <1>0
    <3>3. QED
      BY <1>0, <3>1, <3>2
  <2>3. PICK e \in Unit : e = Event("status", NoToken)
    BY <1>2
  <2>4. e.type = "status" /\ ~IsTokenEvent(e)
    BY <1>2, <2>3
  <2>5. Emit(r, e) /\ reply' = reply /\ pc[r] \in Busy /\ UNCHANGED <<buf, reader, page, recorded>>
    BY <1>9, <2>3 DEF CallTool, browser, Busy
  <2>6. step \in Busy /\ step # "ended"
    BY <2>1 DEF Busy
  <2>7. QED
    BY <2>1, <2>2, <2>4, <2>5, <2>6, FlowSpoken
<1>10. CASE SaveReply(r)
  <2>1. PICK e \in Unit : e = Event("done", NoToken)
    BY <1>2
  <2>2. e.type = "done" /\ ~IsTokenEvent(e)
    BY <1>2, <2>1
  <2>3. /\ Emit(r, e) /\ reply' = reply /\ pc[r] \in Busy /\ UNCHANGED <<turn, buf, reader, page>>
        /\ pc' = [pc EXCEPT ![r] = "ended"]
        /\ recorded \subseteq recorded' /\ Saved(r) \in recorded'
    BY <1>10, <2>1 DEF SaveReply, browser, Busy
  <2>4. QED
    BY <1>0, <2>2, <2>3, FlowSpoken
<1>11. CASE ServerFails(r)
  <2>1. recorded \subseteq recorded'
    BY <1>11 DEF ServerFails
  <2>2. QED
    BY <1>0, <1>11, <2>1, FlowSilent DEF ServerFails, browser
<1>12. QED
  BY <1>3, <1>4, <1>5, <1>6, <1>7, <1>8, <1>9, <1>10, <1>11 DEF Serve

\* Steps that change nothing.
LEMMA FlowUnchanged ==
  ASSUME FlowInv, UNCHANGED vars
  PROVE  FlowInv'
<1> USE DEF vars, server, browser
<1>1. StreamTyped'
  BY DEF FlowInv, StreamTyped, Pages
<1>2. NoStray' /\ OthersSettled' /\ PageIsSettled' /\ FinishedMeansSaved'
  BY DEF FlowInv, NoStray, OthersSettled, PageIsSettled, FinishedMeansSaved, Saved
<1>3. ASSUME NEW s \in Sends, reader'[s] = "open" PROVE Flow(s)'
  <2>1. UNCHANGED <<LastBubble(page), UnderWay(s)>> /\ Flow(s)
    BY <1>3 DEF LastBubble, UnderWay, FlowInv
  <2>2. QED
    BY <2>1 DEF Flow, HasDone
<1>4. QED
  BY <1>1, <1>2, <1>3 DEF FlowInv

\* A message is sent: a bubble for its answer, in which nothing stands yet.
LEMMA FlowSend ==
  ASSUME FlowInv, NEW r \in Sends, Send(r)
  PROVE  FlowInv'
<1> DEFINE asked == Bubble("user", r, <<>>, FALSE, FALSE)
           answer == Bubble("assistant", r, <<>>, TRUE, FALSE)
           pair == <<asked, answer>>
<1>1. /\ pc[r] = "unsent" /\ ~page.loading
      /\ page' = [bubbles |-> page.bubbles \o pair, status |-> "thinking", loading |-> TRUE]
      /\ reader' = [reader EXCEPT ![r] = "open"]
      /\ pc' = [pc EXCEPT ![r] = "load"]
      /\ UNCHANGED <<turn, reply, wire, buf, recorded>>
  BY DEF Send, Goto
<1>2. /\ reply[r] = <<>> /\ reader[r] = "none" /\ wire[r] = <<>> /\ buf[r] = <<>>
      /\ \A s \in Sends : reader[s] # "open"
      /\ \A i \in 1..Len(page.bubbles) : ~page.bubbles[i].streaming
  BY <1>1 DEF FlowInv, NoStray, PageIsSettled
<1>3. r \in Nat /\ <<>> \in Seq(TokenOrNone)
  BY FlowTyped, EmptySeq DEF FlowInv
<1>4. asked \in Bubbles /\ answer \in Bubbles
  BY <1>3 DEF Bubble, Bubbles
<1>5. /\ asked.role = "user" /\ ~asked.streaming
      /\ answer.role = "assistant" /\ answer.of = r /\ answer.text = <<>>
      /\ answer.streaming = TRUE /\ answer.error = FALSE
  BY DEF Bubble
<1> HIDE DEF asked, answer
<1>6. PICK B \in Seq(Bubbles) : B = page.bubbles
  BY FlowTyped DEF FlowInv
<1>7. PICK C : C = B \o pair
  OBVIOUS
<1>8. PICK m \in Nat : m = Len(B) /\ m # 0
  BY <1>6, FlowTyped DEF FlowInv
<1>9. /\ C \in Seq(Bubbles) /\ Len(C) = m + 2
      /\ \A i \in 1..m : C[i] = B[i]
      /\ C[m + 1] = asked /\ C[m + 2] = answer
  BY <1>4, <1>6, <1>7, <1>8
<1>10. page'.bubbles = C /\ page'.status = "thinking" /\ page'.loading = TRUE
  BY <1>1, <1>6, <1>7
<1>11. reader'[r] = "open" /\ pc'[r] = "load"
       /\ \A s \in Sends \ {r} : reader'[s] = reader[s] /\ pc'[s] = pc[s]
  BY <1>1 DEF FlowInv, StreamTyped
<1>12. StreamTyped'
  <2>1. page' \in Pages
    <3>1. page' = [bubbles |-> C, status |-> "thinking", loading |-> TRUE]
      BY <1>1, <1>6, <1>7
    <3>2. QED
      BY <1>9, <3>1 DEF Pages
  <2>2. page'.bubbles # <<>>
    <3>1. Len(C) # 0
      BY <1>8, <1>9
    <3>2. QED
      BY <1>10, <3>1, EmptySeq
  <2>3. pc' \in [Sends -> {"unsent", "ended", "failed"} \cup Busy]
        /\ reader' \in [Sends -> {"none", "open", "closed"}]
    BY <1>1 DEF FlowInv, StreamTyped, Busy
  <2>4. QED
    BY <1>1, <2>1, <2>2, <2>3 DEF FlowInv, StreamTyped
<1>13. NoStray'
  <2> SUFFICES ASSUME NEW s \in Sends
               PROVE  /\ reader'[s] # "open" => wire[s] = <<>> /\ buf[s] = <<>>
                      /\ pc'[s] = "unsent" => reply[s] = <<>> /\ reader'[s] = "none"
                      /\ pc'[s] = "ended" => Saved(s)' \in recorded
    BY <1>1 DEF NoStray
  <2>1. Saved(s)' = Saved(s)
    BY <1>1 DEF Saved
  <2>2. QED
    BY <1>11, <2>1 DEF FlowInv, NoStray
<1>14. OthersSettled'
  <2> SUFFICES ASSUME NEW i \in 1..(m + 1) PROVE ~C[i].streaming
    BY <1>8, <1>9, <1>10 DEF OthersSettled
  <2>1. CASE i \in 1..m
    BY <1>2, <1>6, <1>8, <1>9, <2>1
  <2>2. CASE i = m + 1
    BY <1>5, <1>9, <2>2
  <2>3. QED
    BY <1>8, <2>1, <2>2
<1>15. PageIsSettled'
  BY <1>2, <1>10, <1>11 DEF PageIsSettled
<1>16. FinishedMeansSaved'
  <2> SUFFICES ASSUME NEW i \in 1..(m + 2), C[i].role = "assistant", C[i] # Greeting,
                      ~C[i].streaming, ~C[i].error
               PROVE  [of |-> C[i].of, text |-> C[i].text] \in recorded
    BY <1>1, <1>9, <1>10 DEF FinishedMeansSaved
  <2>1. i \in 1..m
    BY <1>5, <1>8, <1>9
  <2>2. QED
    BY <1>6, <1>8, <1>9, <2>1 DEF FlowInv, FinishedMeansSaved
<1>17. Flow(r)'
  <2>1. LastBubble(page)' = answer
    BY <1>9, <1>10 DEF LastBubble
  <2>2. UnderWay(r)' = <<>> /\ buf'[r] = <<>> /\ reply'[r] = <<>>
    <3>1. <<>> \o <<>> = <<>>
      BY <1>3, ConcatEmptySeq
    <3>2. QED
      BY <1>1, <1>2, <3>1 DEF UnderWay
  <2>3. Len(<<>>) = 0 /\ TextOf(<<>>) = <<>> /\ <<>> \o <<>> = <<>>
    BY <1>3, SomeUnit, TextAppended, EmptySeq, ConcatEmptySeq
  <2>4. Framed(<<>>) /\ ~HasDone(<<>>) /\ \A i \in 1..Len(<<>>) : FALSE
    BY <2>3 DEF Framed, HasDone
  <2>5. PICK u : u = <<>>
    OBVIOUS
  <2>6. PICK c : c = answer
    OBVIOUS
  <2>7. /\ Len(u) < 3 /\ Framed(u)
        /\ c.role = "assistant" /\ c.of = r /\ ~c.error
        /\ c.text \o TextOf(u) = u
        /\ \A i \in 1..Len(u) : u[i].type = "done" => i = Len(u) - 2
        /\ HasDone(u) => c.streaming
        /\ c.streaming
        /\ FALSE <=> HasDone(u) \/ ~c.streaming
    BY <1>5, <2>3, <2>4, <2>5, <2>6
  <2>8. UnderWay(r)' = u /\ buf'[r] = u /\ reply'[r] = u /\ LastBubble(page)' = c
        /\ (pc'[r] = "ended" <=> FALSE)
    BY <1>11, <2>1, <2>2, <2>5, <2>6
  <2>9. QED
    BY <2>7, <2>8 DEF Flow
<1>18. QED
  BY <1>2, <1>11, <1>12, <1>13, <1>14, <1>15, <1>16, <1>17 DEF FlowInv

-----------------------------------------------------------------------------
\* A page that reads nothing and shows nothing unfinished.
Quiet(p) ==
  /\ p \in Pages /\ p.bubbles # <<>>
  /\ p.loading = FALSE /\ p.status = ""
  /\ \A i \in 1..Len(p.bubbles) : ~p.bubbles[i].streaming

\* The reader of r is closed: nothing is under way to it, and its page goes on
\* without it.
LEMMA FlowClosed ==
  ASSUME FlowInv, NEW r \in Sends, reader[r] = "open", CloseReader(r),
         UNCHANGED <<pc, turn, reply, recorded>>,
         NEW p, page' = p, Quiet(p),
         FinishedMeansSaved'
  PROVE  FlowInv'
<1>1. /\ reader' = [reader EXCEPT ![r] = "closed"]
      /\ wire' = [wire EXCEPT ![r] = <<>>]
      /\ buf' = [buf EXCEPT ![r] = <<>>]
  BY DEF CloseReader
<1>2. \A s \in Sends \ {r} : reader[s] # "open"
  BY OneReader
<1>3. \A s \in Sends : reader'[s] # "open"
  BY <1>1, <1>2 DEF FlowInv, StreamTyped
<1>4. StreamTyped'
  <2>1. \A S : <<>> \in Seq(S)
    OBVIOUS
  <2>2. wire' \in [Sends -> Seq(Unit)] /\ buf' \in [Sends -> Seq(Unit)]
    <3>1. <<>> \in Seq(Unit)
      BY <2>1
    <3>2. QED
      BY <1>1, <3>1 DEF FlowInv, StreamTyped
  <2>3. page' \in Pages /\ page'.bubbles # <<>>
    BY DEF Quiet
  <2>4. QED
    BY <1>1, <2>2, <2>3 DEF FlowInv, StreamTyped
<1>5. NoStray'
  <2> SUFFICES ASSUME NEW s \in Sends
               PROVE  /\ reader'[s] # "open" => wire'[s] = <<>> /\ buf'[s] = <<>>
                      /\ pc[s] = "unsent" => reply[s] = <<>> /\ reader'[s] = "none"
                      /\ pc[s] = "ended" => Saved(s)' \in recorded
    BY DEF NoStray
  <2>1. Saved(s)' = Saved(s)
    BY DEF Saved
  <2>2. CASE s # r
    BY <1>1, <2>1, <2>2 DEF FlowInv, StreamTyped, NoStray
  <2>3. CASE s = r
    BY <1>1, <2>1, <2>3 DEF FlowInv, StreamTyped, NoStray
  <2>4. QED
    BY <2>2, <2>3
<1>6. OthersSettled' /\ PageIsSettled'
  <2>2. OthersSettled'
    <3>1. PICK B \in Seq(Bubbles) : B = p.bubbles
      BY DEF Quiet, Pages
    <3>2. PICK n \in Nat : n = Len(B)
      BY <3>1
    <3>3. \A i \in 1..n : ~B[i].streaming
      BY <3>1, <3>2 DEF Quiet
    <3>4. \A i \in 1..(n - 1) : ~B[i].streaming
      BY <3>3
    <3>5. QED
      BY <3>1, <3>2, <3>4 DEF OthersSettled
  <2>3. PageIsSettled'
    BY <1>3 DEF PageIsSettled, Quiet
  <2>4. QED
    BY <2>2, <2>3
<1>7. QED
  BY <1>3, <1>4, <1>5, <1>6 DEF FlowInv

\* The response is over: everything has been shown, or has been saved.
LEMMA FlowEnds ==
  ASSUME FlowInv, NEW r \in Sends, ReaderEnds(r)
  PROVE  FlowInv'
<1>1. /\ reader[r] = "open" /\ pc[r] = "ended" /\ wire[r] = <<>> /\ CloseReader(r)
      /\ page' = [page EXCEPT !.loading = FALSE]
      /\ UNCHANGED <<pc, turn, reply, recorded>>
  BY DEF ReaderEnds, server
<1>2. Flow(r)
  BY <1>1, OneReader
<1>3. PICK u \in Seq(Unit) : u = buf[r]
  BY FlowTyped DEF FlowInv
<1>4. UnderWay(r) = u
  <2>1. u \o <<>> = u
    BY <1>3, ConcatEmptySeq
  <2>2. QED
    BY <1>1, <1>3, <2>1 DEF UnderWay
<1>5. u = <<>>
  <2>1. PICK n \in Nat : n = Len(u)
    BY <1>3
  <2>2. n % 3 = 0 /\ n < 3
    BY <1>2, <1>3, <1>4, <2>1 DEF Flow, Framed
  <2>3. n = 0
    BY <2>2
  <2>4. QED
    BY <2>1, <2>3, EmptySeq
<1>6. ~HasDone(u)
  BY <1>5, EmptySeq DEF HasDone
<1>7. ~LastBubble(page).streaming /\ page.status = ""
  BY <1>1, <1>2, <1>4, <1>6 DEF Flow
<1>8. page \in Pages /\ page.bubbles # <<>>
  BY DEF FlowInv, StreamTyped
<1>9. /\ page' \in Pages /\ page'.bubbles = page.bubbles
      /\ page'.status = "" /\ page'.loading = FALSE
  BY <1>1, <1>7, <1>8 DEF Pages
<1>10. \A i \in 1..Len(page.bubbles) : ~page.bubbles[i].streaming
  <2>1. PICK m \in Nat : m = Len(page.bubbles)
    BY FlowTyped DEF FlowInv
  <2>2. ~page.bubbles[m].streaming
    BY <1>7, <2>1 DEF LastBubble
  <2>3. \A i \in 1..(m - 1) : ~page.bubbles[i].streaming
    BY <2>1 DEF FlowInv, OthersSettled
  <2>4. QED
    BY <2>1, <2>2, <2>3
<1>11. FinishedMeansSaved'
  <2>1. recorded' = recorded /\ page'.bubbles = page.bubbles
    BY <1>1, <1>9
  <2>2. QED
    BY <2>1 DEF FlowInv, FinishedMeansSaved
<1>12. QED
  <2>1. PICK p : p = page'
    OBVIOUS
  <2>2. Quiet(p)
    BY <1>8, <1>9, <1>10, <2>1 DEF Quiet
  <2>3. QED
    BY <1>1, <1>11, <2>1, <2>2, FlowClosed

\* An apology takes the place of an unfinished answer, or follows a finished one.
LEMMA FlowFails ==
  ASSUME FlowInv, NEW r \in Sends, ReaderFails(r)
  PROVE  FlowInv'
<1>1. PICK B \in Seq(Bubbles) : B = page.bubbles
  BY FlowTyped DEF FlowInv
<1>2. PICK m \in Nat : m = Len(B) /\ m # 0
  BY <1>1, FlowTyped DEF FlowInv
<1>3. PICK b \in Bubbles : b = LastBubble(page) /\ b = B[m]
  BY <1>1, <1>2, FlowTyped DEF FlowInv, LastBubble
<1>4. PICK a : a = Apology(r)
  OBVIOUS
<1>5. a \in Bubbles /\ a.streaming = FALSE /\ a.error = TRUE
  <2>1. r \in Nat /\ <<>> \in Seq(TokenOrNone)
    BY FlowTyped, EmptySeq DEF FlowInv
  <2>2. QED
    BY <1>4, <2>1 DEF Apology, Bubble, Bubbles
<1>6. PICK C : C = IF b.role = "assistant" /\ b.streaming THEN [B EXCEPT ![m] = a]
                   ELSE Append(B, a)
  OBVIOUS
<1>7. /\ reader[r] = "open" /\ CloseReader(r)
      /\ page' = [bubbles |-> C, status |-> "", loading |-> FALSE]
      /\ UNCHANGED <<pc, turn, reply, recorded>>
  BY <1>1, <1>2, <1>3, <1>4, <1>6 DEF ReaderFails, server
<1>8. Flow(r)
  BY <1>7, OneReader
<1>9. b.role = "assistant"
  BY <1>3, <1>8 DEF Flow
<1>10. \A i \in 1..(m - 1) : ~B[i].streaming
  BY <1>1, <1>2 DEF FlowInv, OthersSettled
<1>11. /\ C \in Seq(Bubbles) /\ C # <<>>
       /\ \A i \in 1..Len(C) : \/ C[i] = a
                               \/ i \in 1..m /\ C[i] = B[i] /\ ~B[i].streaming
  <2>1. CASE b.streaming
    <3>1. C = [B EXCEPT ![m] = a] /\ m \in 1..Len(B)
      BY <1>2, <1>6, <1>9, <2>1
    <3>2. /\ C \in Seq(Bubbles) /\ Len(C) = m
          /\ \A i \in 1..m : C[i] = IF i = m THEN a ELSE B[i]
      BY <1>2, <1>5, <3>1, ExceptSeq
    <3>3. C # <<>>
      BY <1>2, <3>2, EmptySeq
    <3>4. QED
      BY <1>2, <1>10, <3>2, <3>3
  <2>2. CASE ~b.streaming
    <3>1. C = Append(B, a)
      BY <1>6, <2>2
    <3>2. /\ C \in Seq(Bubbles) /\ C # <<>> /\ Len(C) = m + 1
          /\ \A i \in 1..m : C[i] = B[i]
          /\ C[m + 1] = a
      BY <1>2, <1>5, <3>1, AppendProperties
    <3>3. \A i \in 1..m : ~B[i].streaming
      BY <1>2, <1>3, <1>10, <2>2
    <3>4. QED
      BY <1>2, <3>2, <3>3
  <2>3. QED
    BY <2>1, <2>2
<1>12. /\ page'.bubbles = C /\ page'.status = "" /\ page'.loading = FALSE
       /\ page' \in Pages
  BY <1>7, <1>11 DEF Pages
<1>13. \A i \in 1..Len(page'.bubbles) : ~page'.bubbles[i].streaming
  BY <1>5, <1>11, <1>12
<1>14. FinishedMeansSaved'
  <2> SUFFICES ASSUME NEW i \in 1..Len(C), C[i].role = "assistant", C[i] # Greeting,
                      ~C[i].streaming, ~C[i].error
               PROVE  [of |-> C[i].of, text |-> C[i].text] \in recorded
    BY <1>7, <1>12 DEF FinishedMeansSaved
  <2>1. i \in 1..m /\ C[i] = B[i]
    BY <1>5, <1>11
  <2>2. QED
    BY <1>1, <1>2, <2>1 DEF FlowInv, FinishedMeansSaved
<1>15. QED
  <2>1. PICK p : p = page'
    OBVIOUS
  <2>2. Quiet(p)
    BY <1>11, <1>12, <1>13, <2>1 DEF Quiet
  <2>3. QED
    BY <1>7, <1>14, <2>1, <2>2, FlowClosed

\* A page as it is first loaded.
LEMMA EmptyPageOK ==
  /\ \E p \in Pages : /\ p = EmptyPage /\ p.bubbles # <<>>
                       /\ p.loading = FALSE /\ p.status = ""
                       /\ Len(p.bubbles) = 1 /\ \A i \in 1..1 : p.bubbles[i] = Greeting
  /\ Greeting.streaming = FALSE
<1>1. <<>> \in Seq(TokenOrNone)
  BY EmptySeq
<1>2. Greeting \in Bubbles /\ Greeting.streaming = FALSE
  BY <1>1 DEF Greeting, Bubble, Bubbles
<1> HIDE DEF Greeting
<1>3. <<Greeting>> \in Seq(Bubbles) /\ Len(<<Greeting>>) = 1 /\ <<Greeting>>[1] = Greeting
  BY <1>2
<1>4. <<Greeting>> # <<>>
  BY <1>3, EmptySeq
<1>5. QED
  <2>1. PICK B : B = <<Greeting>>
    OBVIOUS
  <2>2. B \in Seq(Bubbles) /\ B # <<>> /\ Len(B) = 1 /\ \A i \in 1..1 : B[i] = Greeting
    BY <1>3, <1>4, <2>1
  <2>3. PICK p : p = [bubbles |-> B, status |-> "", loading |-> FALSE]
    OBVIOUS
  <2>4. p \in Pages
    <3>1. B \in Seq(Bubbles)
      BY <2>2
    <3>2. QED
      BY <2>3, <3>1 DEF Pages
  <2>5. p.bubbles = B /\ p.loading = FALSE /\ p.status = ""
    BY <2>3
  <2>6. p = EmptyPage
    BY <2>1, <2>3 DEF EmptyPage
  <2>7. QED
    BY <1>2, <2>2, <2>4, <2>5, <2>6

\* A reload, and the first state.
LEMMA FlowReload ==
  ASSUME FlowInv, Reload
  PROVE  FlowInv'
<1>1. /\ page' = EmptyPage
      /\ reader' = [r \in Sends |-> IF reader[r] = "open" THEN "closed" ELSE reader[r]]
      /\ wire' = [r \in Sends |-> <<>>]
      /\ buf' = [r \in Sends |-> <<>>]
      /\ UNCHANGED <<pc, turn, reply, recorded>>
  BY DEF Reload, server
<1>2. \A s \in Sends : /\ reader'[s] # "open" /\ wire'[s] = <<>> /\ buf'[s] = <<>>
                       /\ reader[s] = "none" => reader'[s] = "none"
  BY <1>1
<1>3. StreamTyped'
  <2>1. \A S : <<>> \in Seq(S)
    OBVIOUS
  <2>2. <<>> \in Seq(Unit)
    BY <2>1
  <2>3. wire' \in [Sends -> Seq(Unit)] /\ buf' \in [Sends -> Seq(Unit)]
    BY <1>1, <2>2
  <2>4. reader' \in [Sends -> {"none", "open", "closed"}]
    BY <1>1 DEF FlowInv, StreamTyped
  <2>5. QED
    BY <1>1, <2>3, <2>4, EmptyPageOK DEF FlowInv, StreamTyped
<1>4. NoStray'
  <2>1. \A s \in Sends : Saved(s)' = Saved(s)
    BY <1>1 DEF Saved
  <2>2. QED
    BY <1>1, <1>2, <2>1 DEF FlowInv, NoStray
<1>5. OthersSettled' /\ PageIsSettled' /\ FinishedMeansSaved'
  <2>1. PICK p : p = EmptyPage /\ p = page'
    BY <1>1
  <2>2. /\ p.loading = FALSE /\ p.status = "" /\ Len(p.bubbles) = 1
        /\ \A i \in 1..1 : p.bubbles[i] = Greeting
        /\ Greeting.streaming = FALSE
    BY <2>1, EmptyPageOK
  <2>4. OthersSettled' /\ FinishedMeansSaved'
    <3>1. Len(page'.bubbles) = 1 /\ \A i \in 1..1 : page'.bubbles[i] = Greeting
      BY <2>1, <2>2
    <3>2. OthersSettled'
      BY <3>1 DEF OthersSettled
    <3>3. FinishedMeansSaved'
      BY <3>1 DEF FinishedMeansSaved
    <3>4. QED
      BY <3>2, <3>3
  <2>5. PageIsSettled'
    BY <1>2, <2>1, <2>2 DEF PageIsSettled
  <2>6. QED
    BY <2>4, <2>5
<1>6. QED
  BY <1>2, <1>3, <1>4, <1>5 DEF FlowInv

\* Nothing is under way at first.
LEMMA FlowInit == Init => FlowInv
<1> SUFFICES ASSUME Init PROVE FlowInv
  OBVIOUS
<1>1. \A S : <<>> \in Seq(S)
  OBVIOUS
<1>2. StreamTyped
  <2>1. <<>> \in Seq(Unit) /\ <<>> \in Seq(TokenOrNone)
    BY <1>1
  <2>2. reply \in [Sends -> Seq(TokenOrNone)] /\ wire \in [Sends -> Seq(Unit)]
        /\ buf \in [Sends -> Seq(Unit)]
    BY <2>1 DEF Init
  <2>3. QED
    BY <2>2, EmptyPageOK DEF Init, StreamTyped
<1>3. \A s \in Sends : pc[s] = "unsent" /\ reply[s] = <<>> /\ wire[s] = <<>> /\ buf[s] = <<>>
                       /\ reader[s] = "none"
  BY DEF Init
<1>4. NoStray
  BY <1>3 DEF NoStray
<1>5. page = EmptyPage
  BY DEF Init
<1>6. OthersSettled /\ PageIsSettled /\ FinishedMeansSaved
  <2>1. PICK p : p = EmptyPage /\ p = page
    BY <1>5
  <2>2. /\ p.loading = FALSE /\ p.status = "" /\ Len(p.bubbles) = 1
        /\ \A i \in 1..1 : p.bubbles[i] = Greeting
        /\ Greeting.streaming = FALSE
    BY <2>1, EmptyPageOK
  <2>4. OthersSettled /\ FinishedMeansSaved
    <3>1. Len(page.bubbles) = 1 /\ \A i \in 1..1 : page.bubbles[i] = Greeting
      BY <2>1, <2>2
    <3>2. OthersSettled
      BY <3>1 DEF OthersSettled
    <3>3. FinishedMeansSaved
      BY <3>1 DEF FinishedMeansSaved
    <3>4. QED
      BY <3>2, <3>3
  <2>5. PageIsSettled
    BY <1>3, <2>1, <2>2 DEF PageIsSettled
  <2>6. QED
    BY <2>4, <2>5
<1>7. QED
  BY <1>2, <1>3, <1>4, <1>6 DEF FlowInv

\* Every step keeps the invariant.
LEMMA FlowNext == FlowInv /\ [Next]_vars => FlowInv'
<1> SUFFICES ASSUME FlowInv, [Next]_vars PROVE FlowInv'
  OBVIOUS
<1>1. CASE UNCHANGED vars
  BY <1>1, FlowUnchanged
<1>2. ASSUME NEW r \in Sends, Send(r) PROVE FlowInv'
  BY <1>2, FlowSend
<1>3. ASSUME NEW r \in Sends, Serve(r) PROVE FlowInv'
  BY <1>3, FlowServe
<1>4. ASSUME NEW r \in Sends, Read(r) PROVE FlowInv'
  BY <1>4, FlowReceive, FlowEnds DEF Read
<1>5. ASSUME NEW r \in Sends, ReaderFails(r) PROVE FlowInv'
  BY <1>5, FlowFails
<1>6. CASE Reload
  BY <1>6, FlowReload
<1>7. CASE Finished
  BY <1>7, FlowUnchanged DEF Finished
<1>8. QED
  BY <1>1, <1>2, <1>3, <1>4, <1>5, <1>6, <1>7 DEF Next

\* However the network cuts the stream, what the visitor reads so far, followed
\* by what is under way, is what the server has said so far; and it stands in
\* the bubble of the message it answers.
THEOREM NothingIsLost == Spec => []NothingLostOnTheWay
<1>1. FlowInv => NothingLostOnTheWay
  BY DEF FlowInv, NothingLostOnTheWay, Flow, UnderWay
<1>2. QED
  BY <1>1, FlowInit, FlowNext, PTL DEF Spec

\* A reply the page shows as finished was saved, word for word.
THEOREM FinishedIsSaved == Spec => []FinishedMeansSaved
<1>1. FlowInv => FinishedMeansSaved
  BY DEF FlowInv
<1>2. QED
  BY <1>1, FlowInit, FlowNext, PTL DEF Spec

\* A page that is not loading shows no unfinished answer and no status, and a
\* page that is loading reads exactly one response.
THEOREM PageSettles == Spec => []PageIsSettled
<1>1. FlowInv => PageIsSettled
  BY DEF FlowInv
<1>2. QED
  BY <1>1, FlowInit, FlowNext, PTL DEF Spec

-----------------------------------------------------------------------------
(* The tool calls of a reply, by LLMReplies.                              *)

\* One element more is counted if it is x.
LEMMA Counting ==
  \A s, x : \A k \in Nat :
    /\ Count(s, x, 0) = 0
    /\ Count(s, x, k) \in Nat
    /\ s[k + 1] = x => Count(s, x, k + 1) = Count(s, x, k) + 1
    /\ s[k + 1] # x => Count(s, x, k + 1) = Count(s, x, k)
<1> TAKE s, x
<1> TAKE k \in Nat
<1> DEFINE C == {j \in 1..k : s[j] = x}
           D == {j \in 1..(k + 1) : s[j] = x}
<1>1. Count(s, x, k) = Cardinality(C) /\ Count(s, x, k + 1) = Cardinality(D)
  BY DEF Count
<1>2. IsFiniteSet(C) /\ Cardinality(C) \in Nat
  <2>1. IsFiniteSet(1..k)
    BY FS_Interval
  <2>2. C \subseteq 1..k
    OBVIOUS
  <2> HIDE DEF C
  <2> QED
    BY <2>1, <2>2, FS_Subset, FS_CardinalityType
<1>3. ASSUME s[k + 1] = x PROVE Count(s, x, k + 1) = Count(s, x, k) + 1
  <2>1. D = C \cup {k + 1} /\ k + 1 \notin C
    BY <1>3
  <2> HIDE DEF C, D
  <2>2. Cardinality(C \cup {k + 1}) = Cardinality(C) + 1
    BY <1>2, <2>1, FS_AddElement
  <2> QED
    BY <1>1, <1>3, <2>1, <2>2
<1>4. ASSUME s[k + 1] # x PROVE Count(s, x, k + 1) = Count(s, x, k)
  <2>1. D = C
    BY <1>4
  <2> QED
    BY <1>1, <1>4, <2>1
<1>5. Count(s, x, 0) = 0
  <2>1. {j \in 1..0 : s[j] = x} = {}
    OBVIOUS
  <2> QED
    BY <2>1, FS_EmptySet DEF Count
<1>6. Count(s, x, k) \in Nat
  BY <1>1, <1>2
<1> QED
  BY <1>3, <1>4, <1>5, <1>6

\* What is not there is not counted.
LEMMA CountedNone ==
  ASSUME NEW s, NEW x, NEW k \in Nat
  PROVE  (\A j \in 1..k : s[j] # x) <=> Count(s, x, k) = 0
<1>1. PICK C : C = {j \in 1..k : s[j] = x}
  OBVIOUS
<1>2. IsFiniteSet(C)
  <2>1. IsFiniteSet(1..k)
    BY FS_Interval
  <2> QED
    BY <1>1, <2>1, FS_Subset
<1>3. (\A j \in 1..k : s[j] # x) <=> C = {}
  BY <1>1
<1>4. C = {} <=> Cardinality(C) = 0
  BY <1>2, FS_EmptySet
<1> QED
  BY <1>1, <1>3, <1>4 DEF Count

\* A longer part has no fewer.
LEMMA CountsGrow ==
  ASSUME NEW s, NEW x, NEW k \in Nat, NEW n \in Nat, k <= n
  PROVE  Count(s, x, k) <= Count(s, x, n)
<1>1. PICK C : C = {j \in 1..k : s[j] = x}
  OBVIOUS
<1>2. PICK D : D = {j \in 1..n : s[j] = x}
  OBVIOUS
<1>3. C \subseteq D /\ D \subseteq 1..n
  BY <1>1, <1>2
<1>4. IsFiniteSet(D)
  <2>1. IsFiniteSet(1..n)
    BY FS_Interval
  <2> QED
    BY <1>3, <2>1, FS_Subset
<1>5. Cardinality(C) <= Cardinality(D)
  BY <1>3, <1>4, FS_Subset
<1> QED
  BY <1>1, <1>2, <1>5 DEF Count

\* The first n of a sequence.
Cut(s, n) == [i \in 1..n |-> s[i]]

\* The empty part, the whole, and one element more.
LEMMA Cutting ==
  ASSUME NEW S, NEW s \in Seq(S), NEW n \in Nat, n <= Len(s)
  PROVE  /\ Cut(s, 0) = <<>> /\ Cut(s, Len(s)) = s /\ Cut(s, n) \in Seq(S)
         /\ n < Len(s) => Append(Cut(s, n), s[n + 1]) = Cut(s, n + 1)
<1>1. \A m \in Nat : m <= Len(s) => Cut(s, m) \in [1..m -> S]
  BY DEF Cut
<1>2. \A m \in Nat : m <= Len(s) => Cut(s, m) \in Seq(S) /\ Len(Cut(s, m)) = m
  BY <1>1, SeqDef
<1>3. Cut(s, 0) = <<>>
  <2>1. Cut(s, 0) \in Seq(S) /\ Len(Cut(s, 0)) = 0
    BY <1>2
  <2> QED
    BY <2>1, EmptySeq
<1>4. Cut(s, Len(s)) = s
  BY DEF Cut
<1>5. ASSUME n < Len(s) PROVE Append(Cut(s, n), s[n + 1]) = Cut(s, n + 1)
  <2>1. PICK c \in Seq(S) : c = Cut(s, n) /\ Len(c) = n /\ \A i \in 1..n : c[i] = s[i]
    <3>1. \A i \in 1..n : Cut(s, n)[i] = s[i]
      BY DEF Cut
    <3> QED
      BY <1>2, <3>1
  <2>2. PICK x \in S : x = s[n + 1]
    BY <1>5
  <2>3. /\ Append(c, x) \in Seq(S) /\ Len(Append(c, x)) = n + 1
        /\ \A i \in 1..n : Append(c, x)[i] = c[i]
        /\ Append(c, x)[n + 1] = x
    BY <2>1, AppendProperties
  <2>4. PICK d \in Seq(S) : d = Cut(s, n + 1) /\ Len(d) = n + 1 /\ \A i \in 1..(n + 1) : d[i] = s[i]
    <3>1. \A i \in 1..(n + 1) : Cut(s, n + 1)[i] = s[i]
      BY DEF Cut
    <3>2. n + 1 \in Nat /\ n + 1 <= Len(s)
      BY <1>5
    <3> QED
      BY <1>2, <3>1, <3>2
  <2>5. \A i \in 1..(n + 1) : i \in 1..n \/ i = n + 1
    OBVIOUS
  <2>6. \A i \in 1..Len(d) : Append(c, x)[i] = d[i]
    BY <2>1, <2>2, <2>3, <2>4, <2>5
  <2>7. Append(c, x) = d
    BY <2>3, <2>4, <2>6, SeqEqual
  <2> QED
    BY <2>1, <2>2, <2>4, <2>7
<1> QED
  BY <1>2, <1>3, <1>4, <1>5

\* f[k] are the calls of the first k of n blocks.
AreCalls(f, blocks, n) ==
  f = [k \in 0..n |->
         IF k = 0 THEN <<>>
         ELSE IF blocks[k].type = "tool_use" THEN Append(f[k - 1], blocks[k].call)
         ELSE f[k - 1]]

\* There is such a function, and BlockCalls is its last value.
LEMMA BlockCallsIs ==
  ASSUME NEW blocks, Len(blocks) \in Nat
  PROVE  \E f : AreCalls(f, blocks, Len(blocks)) /\ BlockCalls(blocks) = f[Len(blocks)]
<1> DEFINE T == {n \in Nat : \E f : AreCalls(f, blocks, n)}
<1>1. 0 \in T
  <2>1. AreCalls([k \in 0..0 |-> <<>>], blocks, 0)
    BY DEF AreCalls
  <2> QED
    BY <2>1
<1>2. ASSUME NEW n \in Nat, n \in T PROVE n + 1 \in T
  <2>1. PICK f : AreCalls(f, blocks, n)
    BY <1>2
  <2> DEFINE b == blocks[n + 1]
             last == IF b.type = "tool_use" THEN Append(f[n], b.call) ELSE f[n]
             g == [k \in 0..(n + 1) |-> IF k = n + 1 THEN last ELSE f[k]]
  <2>2. g[n + 1] = last /\ \A k \in 0..n : g[k] = f[k]
    OBVIOUS
  <2>3. g = [k \in 0..(n + 1) |-> g[k]]
    OBVIOUS
  <2>4. last = IF b.type = "tool_use" THEN Append(g[n], b.call) ELSE g[n]
    BY <2>2
  <2> HIDE DEF last, g
  <2>5. ASSUME NEW k \in 0..(n + 1)
        PROVE  g[k] = IF k = 0 THEN <<>>
                      ELSE IF blocks[k].type = "tool_use" THEN Append(g[k - 1], blocks[k].call)
                      ELSE g[k - 1]
    <3>1. CASE k = n + 1
      BY <2>2, <2>4, <3>1
    <3>2. CASE k \in 0..n
      <4>1. f[k] = IF k = 0 THEN <<>>
                   ELSE IF blocks[k].type = "tool_use" THEN Append(f[k - 1], blocks[k].call)
                   ELSE f[k - 1]
        BY <2>1, <3>2 DEF AreCalls
      <4>2. g[k] = f[k] /\ (k # 0 => g[k - 1] = f[k - 1])
        BY <2>2, <3>2
      <4> QED
        BY <4>1, <4>2
    <3> QED
      BY <3>1, <3>2
  <2>6. AreCalls(g, blocks, n + 1)
    BY <2>3, <2>5 DEF AreCalls
  <2> QED
    BY <2>6
<1>3. Len(blocks) \in T
  <2> HIDE DEF T
  <2> QED
    BY <1>1, <1>2, NatSetInduction
<1> DEFINE upTo == CHOOSE f : AreCalls(f, blocks, Len(blocks))
<1>4. AreCalls(upTo, blocks, Len(blocks))
  BY <1>3
<1>5. BlockCalls(blocks) = upTo[Len(blocks)]
  BY DEF BlockCalls, AreCalls
<1> QED
  BY <1>4, <1>5

\* Blocks of text between the calls leave no trace.
LEMMA BlocksAreCollected ==
  ASSUME NEW S, NEW cs \in Seq(S), NEW n \in Nat, NEW blocks \in Blocks(cs, n)
  PROVE  BlockCalls(blocks) = cs
<1>1. PICK kind :
        /\ kind \in [1..n -> {"text", "tool_use"}]
        /\ Count(kind, "tool_use", n) = Len(cs)
        /\ blocks = [k \in 1..n |->
                       IF kind[k] = "text" THEN [type |-> "text"]
                       ELSE [type |-> "tool_use", call |-> cs[Count(kind, "tool_use", k)]]]
  BY DEF Blocks
<1> DEFINE uses(k) == Count(kind, "tool_use", k)
<1>2. Len(blocks) = n
  BY <1>1
<1>3. PICK f : AreCalls(f, blocks, n) /\ BlockCalls(blocks) = f[n]
  BY <1>2, BlockCallsIs
<1>4. Len(cs) \in Nat
  OBVIOUS
<1>5. ASSUME NEW k \in 1..n
      PROVE  /\ kind[k] = "tool_use" => blocks[k].type = "tool_use" /\ blocks[k].call = cs[uses(k)]
             /\ kind[k] # "tool_use" => blocks[k].type # "tool_use"
  <2>1. kind[k] \in {"text", "tool_use"}
    BY <1>1
  <2>2. blocks[k] = IF kind[k] = "text" THEN [type |-> "text"]
                    ELSE [type |-> "tool_use", call |-> cs[uses(k)]]
    BY <1>1
  <2>3. CASE kind[k] = "text"
    <3>1. blocks[k] = [type |-> "text"]
      BY <2>2, <2>3
    <3> QED
      BY <2>3, <3>1
  <2>4. CASE kind[k] = "tool_use"
    <3>1. blocks[k] = [type |-> "tool_use", call |-> cs[uses(k)]]
      BY <2>2, <2>4
    <3> QED
      BY <2>4, <3>1
  <2> QED
    BY <2>1, <2>3, <2>4
<1>6. ASSUME NEW k \in Nat
      PROVE  /\ uses(k) \in Nat
             /\ kind[k + 1] = "tool_use" => uses(k + 1) = uses(k) + 1
             /\ kind[k + 1] # "tool_use" => uses(k + 1) = uses(k)
  BY Counting
<1> DEFINE T == {k \in Nat : k <= n => f[k] = Cut(cs, uses(k))}
<1>7. 0 \in T
  <2>1. f[0] = <<>>
    BY <1>3 DEF AreCalls
  <2>2. uses(0) = 0 /\ Cut(cs, 0) = <<>>
    BY <1>4, Counting, Cutting
  <2> QED
    BY <2>1, <2>2
<1>8. ASSUME NEW k \in Nat, k \in T PROVE k + 1 \in T
  <2> SUFFICES ASSUME k + 1 <= n PROVE f[k + 1] = Cut(cs, uses(k + 1))
    OBVIOUS
  <2>1. f[k] = Cut(cs, uses(k))
    BY <1>8
  <2>2. k + 1 \in 1..n /\ k + 1 \in Nat /\ (k + 1) - 1 = k
    OBVIOUS
  <2>3. f[k + 1] = IF blocks[k + 1].type = "tool_use" THEN Append(f[k], blocks[k + 1].call) ELSE f[k]
    <3>1. \A j \in 0..n : f[j] = IF j = 0 THEN <<>>
                                 ELSE IF blocks[j].type = "tool_use" THEN Append(f[j - 1], blocks[j].call)
                                 ELSE f[j - 1]
      BY <1>3 DEF AreCalls
    <3> QED
      BY <2>2, <3>1
  <2>4. /\ uses(k) \in Nat
        /\ kind[k + 1] = "tool_use" => uses(k + 1) = uses(k) + 1
        /\ kind[k + 1] # "tool_use" => uses(k + 1) = uses(k)
    BY <1>6
  <2>5. uses(k + 1) <= Len(cs)
    BY <1>1, <2>2, CountsGrow
  <2>6. CASE kind[k + 1] = "tool_use"
    <3>1. f[k + 1] = Append(f[k], cs[uses(k + 1)])
      BY <1>5, <2>2, <2>3, <2>6
    <3>2. PICK u \in Nat : u = uses(k) /\ uses(k + 1) = u + 1 /\ u < Len(cs)
      BY <1>4, <2>4, <2>5, <2>6
    <3>3. Append(Cut(cs, u), cs[u + 1]) = Cut(cs, u + 1)
      BY <1>4, <3>2, Cutting
    <3> QED
      BY <2>1, <3>1, <3>2, <3>3
  <2>7. CASE kind[k + 1] # "tool_use"
    BY <1>5, <2>1, <2>2, <2>3, <2>4, <2>7
  <2> QED
    BY <2>6, <2>7
<1>9. Nat \subseteq T
  <2> HIDE DEF T
  <2> QED
    BY <1>7, <1>8, NatSetInduction
<1>10. f[n] = Cut(cs, uses(n))
  BY <1>9
<1>11. Cut(cs, Len(cs)) = cs
  BY <1>4, Cutting
<1> QED
  BY <1>1, <1>3, <1>10, <1>11

\* An entry with one delta more, and the entries with it.
Extended(acc, d) ==
  [i \in DOMAIN acc \cup {d.index} |->
     IF i # d.index THEN acc[i]
     ELSE Append(IF i \in DOMAIN acc THEN acc[i] ELSE <<>>, d.piece)]

\* f[k] are the entries after the first k of n deltas.
AreEntries(f, deltas, n) ==
  f = [k \in 0..n |-> IF k = 0 THEN [i \in {} |-> <<>>] ELSE Extended(f[k - 1], deltas[k])]

\* There is such a function, and Entries is its last value.
LEMMA EntriesIs ==
  ASSUME NEW deltas, Len(deltas) \in Nat
  PROVE  \E f : AreEntries(f, deltas, Len(deltas)) /\ Entries(deltas) = f[Len(deltas)]
<1> DEFINE T == {n \in Nat : \E f : AreEntries(f, deltas, n)}
<1>1. 0 \in T
  <2>1. AreEntries([k \in 0..0 |-> [i \in {} |-> <<>>]], deltas, 0)
    BY DEF AreEntries
  <2> QED
    BY <2>1
<1>2. ASSUME NEW n \in Nat, n \in T PROVE n + 1 \in T
  <2>1. PICK f : AreEntries(f, deltas, n)
    BY <1>2
  <2> DEFINE last == Extended(f[n], deltas[n + 1])
             g == [k \in 0..(n + 1) |-> IF k = n + 1 THEN last ELSE f[k]]
  <2>2. g[n + 1] = last /\ \A k \in 0..n : g[k] = f[k]
    OBVIOUS
  <2>3. g = [k \in 0..(n + 1) |-> g[k]]
    OBVIOUS
  <2>4. last = Extended(g[n], deltas[n + 1])
    BY <2>2
  <2> HIDE DEF last, g
  <2>5. ASSUME NEW k \in 0..(n + 1)
        PROVE  g[k] = IF k = 0 THEN [i \in {} |-> <<>>] ELSE Extended(g[k - 1], deltas[k])
    <3>1. CASE k = n + 1
      BY <2>2, <2>4, <3>1
    <3>2. CASE k \in 0..n
      <4>1. f[k] = IF k = 0 THEN [i \in {} |-> <<>>] ELSE Extended(f[k - 1], deltas[k])
        BY <2>1, <3>2 DEF AreEntries
      <4>2. g[k] = f[k] /\ (k # 0 => g[k - 1] = f[k - 1])
        BY <2>2, <3>2
      <4> QED
        BY <4>1, <4>2
    <3> QED
      BY <3>1, <3>2
  <2>6. AreEntries(g, deltas, n + 1)
    BY <2>3, <2>5 DEF AreEntries
  <2> QED
    BY <2>6
<1>3. Len(deltas) \in T
  <2> HIDE DEF T
  <2> QED
    BY <1>1, <1>2, NatSetInduction
<1> DEFINE upTo == CHOOSE f : AreEntries(f, deltas, Len(deltas))
<1>4. AreEntries(upTo, deltas, Len(deltas))
  BY <1>3
<1>5. Entries(deltas) = upTo[Len(deltas)]
  BY DEF Entries, AreEntries, Extended
<1> QED
  BY <1>4, <1>5

\* Different calls have different indexes.
LEMMA IndexesDiffer ==
  /\ Len(Indexes) \in Nat
  /\ \A a \in 1..Len(Indexes) : Indexes[a] \in Nat
  /\ \A a, b \in 1..Len(Indexes) : Indexes[a] < Indexes[b] <=> a < b
  /\ \A a, b \in 1..Len(Indexes) : Indexes[a] = Indexes[b] => a = b
<1>1. Len(Indexes) \in Nat /\ \A a \in 1..Len(Indexes) : Indexes[a] \in Nat
  BY RepliesAssumption
<1>2. \A a, b \in 1..Len(Indexes) : a < b => Indexes[a] < Indexes[b]
  BY RepliesAssumption
<1>3. \A a, b \in 1..Len(Indexes) : a < b \/ a = b \/ b < a
  BY <1>1
<1> QED
  BY <1>1, <1>2, <1>3

\* So many of the indexes are as there are calls.
LEMMA IndexesCounted ==
  ASSUME NEW n \in Nat, n <= Len(Indexes)
  PROVE  LET D == {Indexes[c] : c \in 1..n} IN IsFiniteSet(D) /\ Cardinality(D) = n
<1> DEFINE f == [c \in 1..n |-> Indexes[c]]
<1>1. PICK D : D = {Indexes[c] : c \in 1..n}
  OBVIOUS
<1>2. \A a, b \in 1..n : f[a] = f[b] => a = b
  <2>1. \A a \in 1..n : a \in 1..Len(Indexes)
    BY IndexesDiffer
  <2> QED
    BY <2>1, IndexesDiffer
<1>3. f \in [1..n -> D] /\ \A d \in D : \E c \in 1..n : f[c] = d
  BY <1>1
<1> HIDE DEF f
<1>4. f \in Bijection(1..n, D)
  BY <1>2, <1>3 DEF Bijection, Injection, Surjection, IsInjective
<1>5. ExistsBijection(1..n, D)
  BY <1>4 DEF ExistsBijection
<1> QED
  BY <1>1, <1>5, FS_NatBijection, FS_CountingElements

\* The n-th of the first m indexes is the one n - 1 are smaller than.
LEMMA IndexesListed ==
  ASSUME NEW m \in Nat, m <= Len(Indexes), NEW n \in 1..m,
         NEW D, D = {Indexes[c] : c \in 1..m}
  PROVE  (CHOOSE i \in D : Cardinality({j \in D : j < i}) = n - 1) = Indexes[n]
<1>1. \A c \in 1..m : c \in 1..Len(Indexes)
  BY IndexesDiffer
<1>2. ASSUME NEW c \in 1..m PROVE Cardinality({j \in D : j < Indexes[c]}) = c - 1
  <2>1. {j \in D : j < Indexes[c]} = {Indexes[b] : b \in 1..(c - 1)}
    <3>1. \A b \in 1..m : Indexes[b] < Indexes[c] <=> b < c
      BY <1>1, IndexesDiffer
    <3>2. \A b \in 1..m : b < c <=> b \in 1..(c - 1)
      OBVIOUS
    <3>3. \A b \in 1..(c - 1) : b \in 1..m
      OBVIOUS
    <3> QED
      BY <3>1, <3>2, <3>3
  <2>2. c - 1 \in Nat /\ c - 1 <= Len(Indexes)
    BY <1>1, IndexesDiffer
  <2>3. Cardinality({Indexes[b] : b \in 1..(c - 1)}) = c - 1
    BY <2>2, IndexesCounted
  <2> QED
    BY <2>1, <2>3
<1> DEFINE Is(i) == Cardinality({j \in D : j < i}) = n - 1
<1>3. Indexes[n] \in D /\ Is(Indexes[n])
  BY <1>2
<1>4. ASSUME NEW i \in D, Is(i) PROVE i = Indexes[n]
  <2>1. PICK c \in 1..m : i = Indexes[c]
    OBVIOUS
  <2>2. c - 1 = n - 1
    BY <1>2, <1>4, <2>1
  <2> QED
    BY <2>1, <2>2
<1> HIDE DEF Is
<1>5. (CHOOSE i \in D : Is(i)) = Indexes[n]
  BY <1>3, <1>4
<1> QED
  BY <1>5 DEF Is

\* There are finitely many pieces.
LEMMA PiecesAreFinite ==
  ASSUME NEW S, NEW cs \in Seq(Seq(S))
  PROVE  Cardinality(UNION {{c} \X (1..Len(cs[c])) : c \in 1..Len(cs)}) \in Nat
<1>1. PICK n \in Nat : n = Len(cs)
  OBVIOUS
<1>2. PICK F : F = {{c} \X (1..Len(cs[c])) : c \in 1..n}
  OBVIOUS
<1>3. IsFiniteSet(F)
  <2> DEFINE f == [c \in 1..n |-> {c} \X (1..Len(cs[c]))]
  <2>1. f \in [1..n -> F] /\ \A x \in F : \E c \in 1..n : f[c] = x
    BY <1>2
  <2> HIDE DEF f
  <2>2. f \in Surjection(1..n, F)
    BY <2>1 DEF Surjection
  <2>3. IsFiniteSet(1..n)
    BY <1>1, FS_Interval
  <2> QED
    BY <2>2, <2>3, FS_Surjection
<1>4. ASSUME NEW x \in F PROVE IsFiniteSet(x)
  <2>1. PICK c \in 1..n : x = {c} \X (1..Len(cs[c]))
    BY <1>2
  <2>2. IsFiniteSet(1..Len(cs[c]))
    <3>1. Len(cs[c]) \in Nat
      BY <1>1
    <3> QED
      BY <3>1, FS_Interval
  <2>3. IsFiniteSet({c})
    BY FS_Singleton
  <2> QED
    BY <2>1, <2>2, <2>3, FS_Product
<1>5. IsFiniteSet(UNION F)
  BY <1>3, <1>4, FS_UNION
<1> QED
  BY <1>1, <1>2, <1>5, FS_CardinalityType

\* The entries after k deltas: of each call that has one, its first pieces.
AreParts(acc, cs, o, k) ==
  /\ DOMAIN acc = {Indexes[o[j]] : j \in 1..k}
  /\ \A c \in 1..Len(cs) :
       Indexes[c] \in DOMAIN acc => acc[Indexes[c]] = Cut(cs[c], Count(o, c, k))

\* The next delta brings the next piece of its call, and the others stay.
LEMMA PartsGrow ==
  ASSUME NEW S, NEW cs \in Seq(Seq(S)), Len(cs) <= Len(Indexes),
         NEW n \in Nat, NEW o \in [1..n -> 1..Len(cs)],
         NEW k \in Nat, k + 1 <= n, Count(o, o[k + 1], n) = Len(cs[o[k + 1]]),
         NEW acc, AreParts(acc, cs, o, k),
         NEW p, p = cs[o[k + 1]][Count(o, o[k + 1], k + 1)]
  PROVE  AreParts(Extended(acc, [index |-> Indexes[o[k + 1]], piece |-> p]), cs, o, k + 1)
<1>1. PICK d \in 1..Len(cs) : d = o[k + 1]
  OBVIOUS
<1>2. PICK i : i = Indexes[d]
  OBVIOUS
<1>3. PICK new : new = Extended(acc, [index |-> i, piece |-> p])
  OBVIOUS
<1>4. /\ DOMAIN new = DOMAIN acc \cup {i}
      /\ i \in DOMAIN acc => new[i] = Append(acc[i], p)
      /\ i \notin DOMAIN acc => new[i] = Append(<<>>, p)
      /\ \A j \in DOMAIN acc : j # i => new[j] = acc[j]
  <2>1. new = [j \in DOMAIN acc \cup {i} |->
                 IF j # i THEN acc[j]
                 ELSE Append(IF j \in DOMAIN acc THEN acc[j] ELSE <<>>, p)]
    BY <1>3 DEF Extended
  <2>2. new[i] = Append(IF i \in DOMAIN acc THEN acc[i] ELSE <<>>, p)
    BY <2>1
  <2> QED
    BY <2>1, <2>2
<1>5. \A j \in 1..n : o[j] \in 1..Len(cs)
  OBVIOUS
<1>6. \A c \in 1..Len(cs) : c \in 1..Len(Indexes)
  BY IndexesDiffer
<1>7. DOMAIN new = {Indexes[o[j]] : j \in 1..(k + 1)}
  <2>1. DOMAIN acc = {Indexes[o[j]] : j \in 1..k}
    BY DEF AreParts
  <2>2. \A j : j \in 1..(k + 1) <=> j \in 1..k \/ j = k + 1
    OBVIOUS
  <2> QED
    BY <1>1, <1>2, <1>4, <2>1, <2>2
<1>8. PICK u \in Nat : u = Count(o, d, k) /\ Count(o, d, k + 1) = u + 1
  <2>1. Count(o, d, k) \in Nat
    BY Counting
  <2>2. Count(o, d, k + 1) = Count(o, d, k) + 1
    BY <1>1, Counting
  <2> QED
    BY <2>1, <2>2
<1>9. cs[d] \in Seq(S) /\ Len(cs[d]) \in Nat /\ u < Len(cs[d])
  <2>1. k + 1 \in Nat
    OBVIOUS
  <2>2. Count(o, d, k + 1) <= Count(o, d, n)
    BY <2>1, CountsGrow
  <2>3. cs[d] \in Seq(S)
    OBVIOUS
  <2>4. Len(cs[d]) \in Nat
    BY <2>3
  <2> QED
    BY <1>1, <1>8, <2>2, <2>3, <2>4
<1>10. p = cs[d][u + 1]
  BY <1>1, <1>8
<1>11. Append(Cut(cs[d], u), p) = Cut(cs[d], u + 1) /\ Cut(cs[d], 0) = <<>>
  <2>1. PICK s \in Seq(S) : s = cs[d]
    BY <1>9
  <2>2. u <= Len(s) /\ u < Len(s)
    BY <1>9, <2>1
  <2>3. Append(Cut(s, u), s[u + 1]) = Cut(s, u + 1) /\ Cut(s, 0) = <<>>
    BY <2>2, Cutting
  <2> QED
    BY <1>10, <2>1, <2>3
<1>12. new[i] = Cut(cs[d], u + 1)
  <2>1. CASE i \in DOMAIN acc
    <3>1. acc[i] = Cut(cs[d], u)
      BY <1>2, <1>8, <2>1 DEF AreParts
    <3> QED
      BY <1>4, <1>11, <2>1, <3>1
  <2>2. CASE i \notin DOMAIN acc
    <3>1. \A j \in 1..k : o[j] # d
      BY <1>2, <2>2 DEF AreParts
    <3>2. u = 0
      BY <1>8, <3>1, CountedNone
    <3> QED
      BY <1>4, <1>11, <2>2, <3>2
  <2> QED
    BY <2>1, <2>2
<1>13. ASSUME NEW c \in 1..Len(cs), Indexes[c] \in DOMAIN new
       PROVE  new[Indexes[c]] = Cut(cs[c], Count(o, c, k + 1))
  <2>1. CASE c = d
    BY <1>2, <1>8, <1>12, <2>1
  <2>2. CASE c # d
    <3>1. Indexes[c] # i
      BY <1>2, <1>6, <2>2, IndexesDiffer
    <3>2. Indexes[c] \in DOMAIN acc
      BY <1>4, <1>13, <3>1
    <3>3. Count(o, c, k + 1) = Count(o, c, k)
      BY <1>1, <2>2, Counting
    <3>4. acc[Indexes[c]] = Cut(cs[c], Count(o, c, k))
      BY <3>2 DEF AreParts
    <3> QED
      BY <1>4, <3>1, <3>2, <3>3, <3>4
  <2> QED
    BY <2>1, <2>2
<1>14. AreParts(new, cs, o, k + 1)
  BY <1>7, <1>13 DEF AreParts
<1> QED
  BY <1>1, <1>2, <1>3, <1>14

\* Deltas in any interleaving make the calls they were cut from.
LEMMA DeltasAreAssembled ==
  ASSUME NEW S, NEW cs \in Seq(Seq(S) \ {<<>>}), Len(cs) <= Len(Indexes),
         NEW deltas \in Deliveries(cs, Indexes)
  PROVE  Assemble(deltas) = cs
<1>1. PICK n \in Nat : n = Cardinality(UNION {{c} \X (1..Len(cs[c])) : c \in 1..Len(cs)})
  <2>1. cs \in Seq(Seq(S))
    OBVIOUS
  <2> QED
    BY <2>1, PiecesAreFinite
<1>2. PICK o \in [1..n -> 1..Len(cs)] :
        /\ \A c \in 1..Len(cs) : Count(o, c, n) = Len(cs[c])
        /\ deltas = [k \in 1..n |-> [index |-> Indexes[o[k]],
                                     piece |-> cs[o[k]][Count(o, o[k], k)]]]
  BY <1>1 DEF Deliveries
<1>3. Len(deltas) = n
  BY <1>2
<1>4. PICK f : AreEntries(f, deltas, n) /\ Entries(deltas) = f[n]
  BY <1>3, EntriesIs
<1>5. PICK m \in Nat : m = Len(cs)
  OBVIOUS
<1>6. \A c \in 1..m : cs[c] \in Seq(S) /\ Len(cs[c]) \in Nat /\ Len(cs[c]) # 0
  <2>1. \A c \in 1..m : cs[c] \in Seq(S) /\ cs[c] # <<>>
    BY <1>5
  <2> QED
    BY <2>1, EmptySeq
<1> DEFINE T == {k \in Nat : k <= n => AreParts(f[k], cs, o, k)}
<1>7. 0 \in T
  <2>1. f[0] = [i \in {} |-> <<>>]
    BY <1>4 DEF AreEntries
  <2>2. DOMAIN f[0] = {} /\ 1..0 = {}
    BY <2>1
  <2> QED
    BY <2>2 DEF AreParts
<1>8. ASSUME NEW k \in Nat, k \in T PROVE k + 1 \in T
  <2> SUFFICES ASSUME k + 1 <= n PROVE AreParts(f[k + 1], cs, o, k + 1)
    OBVIOUS
  <2>1. AreParts(f[k], cs, o, k)
    BY <1>8
  <2>2. k + 1 \in 1..n /\ k + 1 \in Nat /\ k + 1 # 0 /\ (k + 1) - 1 = k /\ k + 1 \in 0..n
    OBVIOUS
  <2>3. f[k + 1] = Extended(f[k], deltas[k + 1])
    <3>1. \A j \in 0..n : f[j] = IF j = 0 THEN [i \in {} |-> <<>>] ELSE Extended(f[j - 1], deltas[j])
      BY <1>4 DEF AreEntries
    <3> QED
      BY <2>2, <3>1
  <2>4. PICK p : p = cs[o[k + 1]][Count(o, o[k + 1], k + 1)]
    OBVIOUS
  <2>5. deltas[k + 1] = [index |-> Indexes[o[k + 1]], piece |-> p]
    BY <1>2, <2>2, <2>4
  <2>6. Count(o, o[k + 1], n) = Len(cs[o[k + 1]])
    BY <1>2, <2>2
  <2>7. cs \in Seq(Seq(S))
    OBVIOUS
  <2>8. PICK acc : acc = f[k]
    OBVIOUS
  <2>9. AreParts(Extended(acc, [index |-> Indexes[o[k + 1]], piece |-> p]), cs, o, k + 1)
    BY <2>1, <2>4, <2>6, <2>7, <2>8, PartsGrow
  <2> QED
    BY <2>3, <2>5, <2>8, <2>9
<1>9. Nat \subseteq T
  <2> HIDE DEF T
  <2> QED
    BY <1>7, <1>8, NatSetInduction
<1>10. PICK tcs : tcs = Entries(deltas)
  OBVIOUS
<1>11. AreParts(tcs, cs, o, n)
  BY <1>4, <1>9, <1>10
<1>12. DOMAIN tcs = {Indexes[c] : c \in 1..m}
  <2>1. DOMAIN tcs = {Indexes[o[j]] : j \in 1..n}
    BY <1>11 DEF AreParts
  <2>2. ASSUME NEW c \in 1..m PROVE \E j \in 1..n : o[j] = c
    <3>1. Count(o, c, n) # 0
      BY <1>2, <1>5, <1>6
    <3> QED
      BY <3>1, CountedNone
  <2>3. \A j \in 1..n : o[j] \in 1..m
    BY <1>5
  <2> QED
    BY <2>1, <2>2, <2>3
<1>13. ASSUME NEW c \in 1..m PROVE tcs[Indexes[c]] = cs[c]
  <2>1. Indexes[c] \in DOMAIN tcs
    BY <1>12
  <2>2. tcs[Indexes[c]] = Cut(cs[c], Count(o, c, n))
    BY <1>5, <1>11, <2>1 DEF AreParts
  <2>3. Count(o, c, n) = Len(cs[c])
    BY <1>2, <1>5
  <2>4. PICK s \in Seq(S) : s = cs[c]
    BY <1>6
  <2>5. Len(s) \in Nat /\ Len(s) <= Len(s)
    OBVIOUS
  <2>6. Cut(s, Len(s)) = s
    BY <2>5, Cutting
  <2> QED
    BY <2>2, <2>3, <2>4, <2>6
<1>14. Cardinality(DOMAIN tcs) = m
  BY <1>5, <1>12, IndexesCounted
<1> DEFINE listed(k) == CHOOSE i \in DOMAIN tcs : Cardinality({j \in DOMAIN tcs : j < i}) = k - 1
<1>15. ASSUME NEW k \in 1..m PROVE listed(k) = Indexes[k]
  BY <1>5, <1>12, IndexesListed
<1>16. Assemble(deltas) = [k \in 1..m |-> tcs[listed(k)]]
  BY <1>10, <1>14 DEF Assemble
<1> HIDE DEF listed
<1>17. Assemble(deltas) = [k \in 1..m |-> cs[k]]
  BY <1>13, <1>15, <1>16
<1> QED
  BY <1>5, <1>17

\* However a reply arrives, in deltas or in blocks, its calls are put together
\* as they were made and in their order (llm.py:239-247, 323-359).
THEOREM RepliesAreAssembled == CallsAreAssembled
<1> SUFFICES ASSUME NEW cs \in Replies
             PROVE  /\ \A deltas \in Deliveries(cs, Indexes) : Assemble(deltas) = cs
                    /\ \A n \in 0..(2 * Len(cs) + 1) : \A blocks \in Blocks(cs, n) : BlockCalls(blocks) = cs
  BY DEF CallsAreAssembled
<1>1. cs \in Seq(Seq(Pieces) \ {<<>>}) /\ Len(cs) <= Len(Indexes)
  BY RepliesAssumption
<1>2. \A deltas \in Deliveries(cs, Indexes) : Assemble(deltas) = cs
  BY <1>1, DeltasAreAssembled
<1>3. ASSUME NEW n \in 0..(2 * Len(cs) + 1), NEW blocks \in Blocks(cs, n)
      PROVE  BlockCalls(blocks) = cs
  <2>1. n \in Nat
    BY <1>1
  <2> QED
    BY <1>1, <2>1, BlocksAreCollected
<1> QED
  BY <1>2, <1>3
=============================================================================
