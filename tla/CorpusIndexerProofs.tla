------------------------- MODULE CorpusIndexerProofs -------------------------
(***************************************************************************)
(* Proofs about CorpusIndexer and CorpusFetch, for every corpus, page      *)
(* size, limit, number of runs and way an issue is split.  The chunks of   *)
(* an issue come first: what the chunker makes of it, and that it can be   *)
(* read back.  Then the listing: pages in the order of age.  Then the      *)
(* types of the fetcher, the invariant of the indexer, and what a script   *)
(* nothing disturbs has looked at.                                         *)
(***************************************************************************)
EXTENDS CorpusIndexer, SequenceTheorems, FiniteSetTheorems, WellFoundedInduction, TLAPS

Less == {p \in Nat \X Nat : p[1] < p[2]}

\* A set of numbers that has 0 and with every number its successor has all.
LEMMA NatSetInduction ==
  ASSUME NEW T, 0 \in T, \A n \in Nat : n \in T => n + 1 \in T
  PROVE  Nat \subseteq T
<1>1. IsWellFoundedOn(Less, Nat)
  BY NatLessThanWellFounded DEF OpToRel, Less
<1> DEFINE U == Nat \ T
<1> SUFFICES ASSUME U # {} PROVE FALSE
  OBVIOUS
<1>2. PICK x \in U : \A y \in U : ~(<<y, x>> \in Less)
  <2>1. U \subseteq Nat
    OBVIOUS
  <2> HIDE DEF U
  <2> QED
    BY <1>1, <2>1, WFMin
<1>3. x # 0 /\ x \in Nat
  OBVIOUS
<1>4. x - 1 \in T
  <2>1. <<x - 1, x>> \in Less
    BY <1>3 DEF Less
  <2> QED
    BY <1>2, <1>3, <2>1
<1> QED
  BY <1>3, <1>4

-----------------------------------------------------------------------------
(* Recursion over sequences.                                               *)

\* f[i] is the base followed by the first i parts, up to the n-th.
AreConcat(f, base, parts, n) ==
  f = [i \in 0..n |-> IF i = 0 THEN base ELSE f[i - 1] \o parts[i]]

\* There are such functions.
LEMMA ConcatExists ==
  ASSUME NEW base, NEW parts
  PROVE  \A n \in Nat : \E f : AreConcat(f, base, parts, n)
<1> DEFINE T == {n \in Nat : \E f : AreConcat(f, base, parts, n)}
<1>1. 0 \in T
  <2>1. AreConcat([i \in 0..0 |-> base], base, parts, 0)
    BY DEF AreConcat
  <2> QED
    BY <2>1
<1>2. ASSUME NEW n \in Nat, n \in T PROVE n + 1 \in T
  <2>1. PICK f : AreConcat(f, base, parts, n)
    BY <1>2
  <2> DEFINE last == f[n] \o parts[n + 1]
             g == [i \in 0..(n + 1) |-> IF i = n + 1 THEN last ELSE f[i]]
  <2>2. g[n + 1] = last /\ \A i \in 0..n : g[i] = f[i]
    OBVIOUS
  <2>3. g = [i \in 0..(n + 1) |-> g[i]]
    OBVIOUS
  <2>4. last = g[n] \o parts[n + 1]
    BY <2>2
  <2> HIDE DEF last, g
  <2>5. ASSUME NEW i \in 0..(n + 1)
        PROVE  g[i] = IF i = 0 THEN base ELSE g[i - 1] \o parts[i]
    <3>1. CASE i = n + 1
      <4>1. i - 1 = n /\ i # 0
        BY <3>1
      <4> QED
        BY <2>2, <2>4, <3>1, <4>1
    <3>2. CASE i \in 0..n
      <4>1. f[i] = IF i = 0 THEN base ELSE f[i - 1] \o parts[i]
        BY <2>1, <3>2 DEF AreConcat
      <4>2. g[i] = f[i] /\ (i # 0 => g[i - 1] = f[i - 1])
        BY <2>2, <3>2
      <4> QED
        BY <4>1, <4>2
    <3> QED
      BY <3>1, <3>2
  <2>6. AreConcat(g, base, parts, n + 1)
    BY <2>3, <2>5 DEF AreConcat
  <2> QED
    BY <2>6
<1>3. Nat \subseteq T
  <2> HIDE DEF T
  <2> QED
    BY <1>1, <1>2, NatSetInduction
<1> QED
  BY <1>3

\* f[i] is the sum of the first i numbers, up to the n-th.
AreSums(f, s, n) ==
  f = [i \in 0..n |-> IF i = 0 THEN 0 ELSE f[i - 1] + s[i]]

\* There are such functions.
LEMMA SumsExist ==
  ASSUME NEW s
  PROVE  \A n \in Nat : \E f : AreSums(f, s, n)
<1> DEFINE T == {n \in Nat : \E f : AreSums(f, s, n)}
<1>1. 0 \in T
  <2>1. AreSums([i \in 0..0 |-> 0], s, 0)
    BY DEF AreSums
  <2> QED
    BY <2>1
<1>2. ASSUME NEW n \in Nat, n \in T PROVE n + 1 \in T
  <2>1. PICK f : AreSums(f, s, n)
    BY <1>2
  <2> DEFINE last == f[n] + s[n + 1]
             g == [i \in 0..(n + 1) |-> IF i = n + 1 THEN last ELSE f[i]]
  <2>2. g[n + 1] = last /\ \A i \in 0..n : g[i] = f[i]
    OBVIOUS
  <2>3. g = [i \in 0..(n + 1) |-> g[i]]
    OBVIOUS
  <2>4. last = g[n] + s[n + 1]
    BY <2>2
  <2> HIDE DEF last, g
  <2>5. ASSUME NEW i \in 0..(n + 1)
        PROVE  g[i] = IF i = 0 THEN 0 ELSE g[i - 1] + s[i]
    <3>1. CASE i = n + 1
      <4>1. i - 1 = n /\ i # 0
        BY <3>1
      <4> QED
        BY <2>2, <2>4, <3>1, <4>1
    <3>2. CASE i \in 0..n
      <4>1. f[i] = IF i = 0 THEN 0 ELSE f[i - 1] + s[i]
        BY <2>1, <3>2 DEF AreSums
      <4>2. g[i] = f[i] /\ (i # 0 => g[i - 1] = f[i - 1])
        BY <2>2, <3>2
      <4> QED
        BY <4>1, <4>2
    <3> QED
      BY <3>1, <3>2
  <2>6. AreSums(g, s, n + 1)
    BY <2>3, <2>5 DEF AreSums
  <2> QED
    BY <2>6
<1>3. Nat \subseteq T
  <2> HIDE DEF T
  <2> QED
    BY <1>1, <1>2, NatSetInduction
<1> QED
  BY <1>3

\* f[i] is what i paragraphs have been split into, up to the n-th.
AreSplit(f, s, n) ==
  f = [i \in 0..n |-> IF i = 0 THEN [closed |-> <<>>, current |-> <<>>] ELSE AddParagraph(f[i - 1], s[i])]

\* There are such functions.
LEMMA SplitsExist ==
  ASSUME NEW s
  PROVE  \A n \in Nat : \E f : AreSplit(f, s, n)
<1> DEFINE T == {n \in Nat : \E f : AreSplit(f, s, n)}
<1>1. 0 \in T
  <2>1. AreSplit([i \in 0..0 |-> [closed |-> <<>>, current |-> <<>>]], s, 0)
    BY DEF AreSplit
  <2> QED
    BY <2>1
<1>2. ASSUME NEW n \in Nat, n \in T PROVE n + 1 \in T
  <2>1. PICK f : AreSplit(f, s, n)
    BY <1>2
  <2> DEFINE last == AddParagraph(f[n], s[n + 1])
             g == [i \in 0..(n + 1) |-> IF i = n + 1 THEN last ELSE f[i]]
  <2>2. g[n + 1] = last /\ \A i \in 0..n : g[i] = f[i]
    OBVIOUS
  <2>3. g = [i \in 0..(n + 1) |-> g[i]]
    OBVIOUS
  <2>4. last = AddParagraph(g[n], s[n + 1])
    BY <2>2
  <2> HIDE DEF last, g
  <2>5. ASSUME NEW i \in 0..(n + 1)
        PROVE  g[i] = IF i = 0 THEN [closed |-> <<>>, current |-> <<>>] ELSE AddParagraph(g[i - 1], s[i])
    <3>1. CASE i = n + 1
      <4>1. i - 1 = n /\ i # 0
        BY <3>1
      <4> QED
        BY <2>2, <2>4, <3>1, <4>1
    <3>2. CASE i \in 0..n
      <4>1. f[i] = IF i = 0 THEN [closed |-> <<>>, current |-> <<>>] ELSE AddParagraph(f[i - 1], s[i])
        BY <2>1, <3>2 DEF AreSplit
      <4>2. g[i] = f[i] /\ (i # 0 => g[i - 1] = f[i - 1])
        BY <2>2, <3>2
      <4> QED
        BY <4>1, <4>2
    <3> QED
      BY <3>1, <3>2
  <2>6. AreSplit(g, s, n + 1)
    BY <2>3, <2>5 DEF AreSplit
  <2> QED
    BY <2>6
<1>3. Nat \subseteq T
  <2> HIDE DEF T
  <2> QED
    BY <1>1, <1>2, NatSetInduction
<1> QED
  BY <1>3

\* f[i] is what is kept of the first i rows, up to the n-th.
AreKept(f, s, n) ==
  f = [i \in 0..n |-> IF i = 0 THEN <<>> ELSE Kept(f[i - 1], s[i])]

\* There are such functions.
LEMMA KeptExist ==
  ASSUME NEW s
  PROVE  \A n \in Nat : \E f : AreKept(f, s, n)
<1> DEFINE T == {n \in Nat : \E f : AreKept(f, s, n)}
<1>1. 0 \in T
  <2>1. AreKept([i \in 0..0 |-> <<>>], s, 0)
    BY DEF AreKept
  <2> QED
    BY <2>1
<1>2. ASSUME NEW n \in Nat, n \in T PROVE n + 1 \in T
  <2>1. PICK f : AreKept(f, s, n)
    BY <1>2
  <2> DEFINE last == Kept(f[n], s[n + 1])
             g == [i \in 0..(n + 1) |-> IF i = n + 1 THEN last ELSE f[i]]
  <2>2. g[n + 1] = last /\ \A i \in 0..n : g[i] = f[i]
    OBVIOUS
  <2>3. g = [i \in 0..(n + 1) |-> g[i]]
    OBVIOUS
  <2>4. last = Kept(g[n], s[n + 1])
    BY <2>2
  <2> HIDE DEF last, g
  <2>5. ASSUME NEW i \in 0..(n + 1)
        PROVE  g[i] = IF i = 0 THEN <<>> ELSE Kept(g[i - 1], s[i])
    <3>1. CASE i = n + 1
      <4>1. i - 1 = n /\ i # 0
        BY <3>1
      <4> QED
        BY <2>2, <2>4, <3>1, <4>1
    <3>2. CASE i \in 0..n
      <4>1. f[i] = IF i = 0 THEN <<>> ELSE Kept(f[i - 1], s[i])
        BY <2>1, <3>2 DEF AreKept
      <4>2. g[i] = f[i] /\ (i # 0 => g[i - 1] = f[i - 1])
        BY <2>2, <3>2
      <4> QED
        BY <4>1, <4>2
    <3> QED
      BY <3>1, <3>2
  <2>6. AreKept(g, s, n + 1)
    BY <2>3, <2>5 DEF AreKept
  <2> QED
    BY <2>6
<1>3. Nat \subseteq T
  <2> HIDE DEF T
  <2> QED
    BY <1>1, <1>2, NatSetInduction
<1> QED
  BY <1>3

\* The operators of the model are the last values of such functions.
LEMMA JoinedIsConcat ==
  ASSUME NEW s, Len(s) \in Nat
  PROVE  \E f : AreConcat(f, <<>>, s, Len(s)) /\ Joined(s) = f[Len(s)]
<1> DEFINE upTo == CHOOSE f : AreConcat(f, <<>>, s, Len(s))
<1>1. AreConcat(upTo, <<>>, s, Len(s))
  BY ConcatExists
<1>2. Joined(s) = upTo[Len(s)]
  BY DEF Joined, AreConcat
<1> QED
  BY <1>1, <1>2

\* The sum of lengths.
LEMMA SumOfIsSums ==
  ASSUME NEW s, Len(s) \in Nat
  PROVE  \E f : AreSums(f, s, Len(s)) /\ SumOf(s) = f[Len(s)]
<1> DEFINE upTo == CHOOSE f : AreSums(f, s, Len(s))
<1>1. AreSums(upTo, s, Len(s))
  BY SumsExist
<1>2. SumOf(s) = upTo[Len(s)]
  BY DEF SumOf, AreSums
<1> QED
  BY <1>1, <1>2

\* The splitting of paragraphs.
LEMMA SplitIsSplit ==
  ASSUME NEW s, Len(s) \in Nat
  PROVE  \E f : AreSplit(f, s, Len(s))
                /\ SplitParagraphs(s) = Append(f[Len(s)].closed, f[Len(s)].current)
<1> DEFINE upTo == CHOOSE f : AreSplit(f, s, Len(s))
<1>1. AreSplit(upTo, s, Len(s))
  BY SplitsExist
<1>2. SplitParagraphs(s) = Append(upTo[Len(s)].closed, upTo[Len(s)].current)
  BY DEF SplitParagraphs, AreSplit
<1> QED
  BY <1>1, <1>2

\* The rows without duplicates.
LEMMA DropIsKept ==
  ASSUME NEW s, Len(s) \in Nat
  PROVE  \E f : AreKept(f, s, Len(s)) /\ DropDuplicates(s) = f[Len(s)]
<1> DEFINE upTo == CHOOSE f : AreKept(f, s, Len(s))
<1>1. AreKept(upTo, s, Len(s))
  BY KeptExist
<1>2. DropDuplicates(s) = upTo[Len(s)]
  BY DEF DropDuplicates, AreKept
<1> QED
  BY <1>1, <1>2

\* What a run makes of each of its rows.
Part(rows, taken, n) == IF rows[n] \in taken THEN <<>> ELSE Chunks[rows[n]]

\* The chunks of a run.
LEMMA NewChunksAreConcat ==
  ASSUME NEW rows, NEW taken, Len(rows) \in Nat
  PROVE  \E f : /\ AreConcat(f, <<>>, [n \in 1..Len(rows) |-> Part(rows, taken, n)], Len(rows))
                /\ NewChunks(rows, taken) = f[Len(rows)]
<1> DEFINE L == Len(rows)
           parts == [n \in 1..L |-> Part(rows, taken, n)]
           Are(f) == f = [n \in 0..L |-> IF n = 0 THEN <<>> ELSE f[n - 1] \o Part(rows, taken, n)]
           upTo == CHOOSE f : Are(f)
<1>1. \A f : AreConcat(f, <<>>, parts, L) <=> Are(f)
  <2> SUFFICES ASSUME NEW f PROVE AreConcat(f, <<>>, parts, L) <=> Are(f)
    OBVIOUS
  <2>1. \A n \in 0..L : n # 0 => parts[n] = Part(rows, taken, n)
    OBVIOUS
  <2> HIDE DEF parts
  <2>2. [n \in 0..L |-> IF n = 0 THEN <<>> ELSE f[n - 1] \o parts[n]]
          = [n \in 0..L |-> IF n = 0 THEN <<>> ELSE f[n - 1] \o Part(rows, taken, n)]
    BY <2>1
  <2> QED
    BY <2>2 DEF AreConcat
<1>2. \E f : Are(f)
  BY <1>1, ConcatExists
<1>3. Are(upTo)
  <2> HIDE DEF Are
  <2> QED
    BY <1>2
<1>4. NewChunks(rows, taken) = upTo[L]
  BY DEF NewChunks, Part
<1> HIDE DEF upTo, Are, parts
<1>5. AreConcat(upTo, <<>>, parts, L)
  BY <1>1, <1>3
<1> QED
  BY <1>4, <1>5 DEF parts

CommentChunk(bodies, title, comments, n) ==
  [index |-> CommentIndex(Len(bodies), n), paras |-> <<>>, comment |-> n,
   kept |-> Fitting(title, comments[n])]

\* What an issue has for each of its comments.
CommentPart(bodies, title, comments, n) ==
  IF comments[n] > 0 THEN <<CommentChunk(bodies, title, comments, n)>> ELSE <<>>

\* The chunks of an issue.
LEMMA ChunkIssueIsConcat ==
  ASSUME NEW paras, NEW comments, Len(comments) \in Nat
  PROVE  \E f : /\ AreConcat(f, BodyChunks(paras),
                     [n \in 1..Len(comments) |-> CommentPart(BodyChunks(paras), Head(paras), comments, n)],
                     Len(comments))
                /\ ChunkIssue(paras, comments) = f[Len(comments)]
<1> DEFINE L == Len(comments)
           bodies == BodyChunks(paras)
           parts == [n \in 1..L |-> CommentPart(bodies, Head(paras), comments, n)]
           Are(f) == f = [n \in 0..L |-> IF n = 0 THEN bodies
                                         ELSE f[n - 1] \o CommentPart(bodies, Head(paras), comments, n)]
           upTo == CHOOSE f : Are(f)
<1>1. \A f : AreConcat(f, bodies, parts, L) <=> Are(f)
  <2> SUFFICES ASSUME NEW f PROVE AreConcat(f, bodies, parts, L) <=> Are(f)
    OBVIOUS
  <2>1. \A n \in 0..L : n # 0 => parts[n] = CommentPart(bodies, Head(paras), comments, n)
    OBVIOUS
  <2> HIDE DEF parts, bodies
  <2>2. [n \in 0..L |-> IF n = 0 THEN bodies ELSE f[n - 1] \o parts[n]]
          = [n \in 0..L |-> IF n = 0 THEN bodies ELSE f[n - 1] \o CommentPart(bodies, Head(paras), comments, n)]
    BY <2>1
  <2> QED
    BY <2>2 DEF AreConcat
<1>2. \E f : Are(f)
  BY <1>1, ConcatExists
<1>3. Are(upTo)
  <2> HIDE DEF Are
  <2> QED
    BY <1>2
<1>4. ChunkIssue(paras, comments) = upTo[L]
  BY DEF ChunkIssue, CommentPart, CommentChunk
<1> HIDE DEF upTo, Are, parts
<1>5. AreConcat(upTo, bodies, parts, L)
  BY <1>1, <1>3
<1> QED
  BY <1>4, <1>5 DEF parts

\* Two functions that join the same first n parts agree so far.
LEMMA ConcatsAgree ==
  ASSUME NEW f, NEW g, NEW base, NEW p, NEW q, NEW n \in Nat, NEW m \in Nat, n <= m,
         AreConcat(f, base, p, n), AreConcat(g, base, q, m), \A i \in 1..n : q[i] = p[i]
  PROVE  \A i \in 0..n : g[i] = f[i]
<1> DEFINE T == {i \in Nat : i <= n => g[i] = f[i]}
<1>1. 0 \in T
  BY DEF AreConcat
<1>2. ASSUME NEW i \in Nat, i \in T PROVE i + 1 \in T
  <2> SUFFICES ASSUME i + 1 <= n PROVE g[i + 1] = f[i + 1]
    OBVIOUS
  <2>1. i + 1 \in 0..n /\ i + 1 \in 0..m /\ i + 1 # 0 /\ (i + 1) - 1 = i /\ i + 1 \in 1..n
    OBVIOUS
  <2>2. g[i] = f[i]
    BY <1>2
  <2>3. f[i + 1] = f[i] \o p[i + 1]
    BY <2>1 DEF AreConcat
  <2>4. g[i + 1] = g[i] \o q[i + 1]
    BY <2>1 DEF AreConcat
  <2> QED
    BY <2>1, <2>2, <2>3, <2>4
<1>3. Nat \subseteq T
  <2> HIDE DEF T
  <2> QED
    BY <1>1, <1>2, NatSetInduction
<1> QED
  BY <1>3

\* What is joined is a sequence again.
LEMMA ConcatIsSeq ==
  ASSUME NEW S, NEW f, NEW base \in Seq(S), NEW p, NEW n \in Nat,
         AreConcat(f, base, p, n), \A i \in 1..n : p[i] \in Seq(S)
  PROVE  \A i \in 0..n : f[i] \in Seq(S)
<1> DEFINE T == {i \in Nat : i <= n => f[i] \in Seq(S)}
<1>1. 0 \in T
  <2>1. f[0] = base
    <3>1. 0 \in 0..n
      OBVIOUS
    <3>2. f = [i \in 0..n |-> IF i = 0 THEN base ELSE f[i - 1] \o p[i]]
      BY DEF AreConcat
    <3> HIDE DEF T
    <3> QED
      BY <3>1, <3>2
  <2> QED
    BY <2>1
<1>2. ASSUME NEW i \in Nat, i \in T PROVE i + 1 \in T
  <2> SUFFICES ASSUME i + 1 <= n PROVE f[i + 1] \in Seq(S)
    OBVIOUS
  <2>1. i + 1 \in 0..n /\ i + 1 # 0 /\ (i + 1) - 1 = i /\ i + 1 \in 1..n
    OBVIOUS
  <2>2. f[i] \in Seq(S) /\ p[i + 1] \in Seq(S)
    BY <1>2, <2>1
  <2>3. f[i + 1] = f[i] \o p[i + 1]
    BY <2>1 DEF AreConcat
  <2> QED
    BY <2>2, <2>3, ConcatProperties
<1>3. Nat \subseteq T
  <2> HIDE DEF T
  <2> QED
    BY <1>1, <1>2, NatSetInduction
<1> QED
  BY <1>3

\* Joining one sequence more puts it at the end.
LEMMA JoinedAppends ==
  ASSUME NEW s \in Seq(Seq(Nat)), NEW x \in Seq(Nat)
  PROVE  /\ Joined(<<>>) = <<>>
         /\ Joined(s) \in Seq(Nat)
         /\ Joined(Append(s, x)) = Joined(s) \o x
<1>1. PICK n \in Nat : n = Len(s)
  OBVIOUS
<1>2. PICK v \in Seq(Seq(Nat)) : v = Append(s, x)
  BY AppendProperties
<1>3. Len(v) = n + 1 /\ v[n + 1] = x /\ \A i \in 1..n : v[i] = s[i]
  BY <1>1, <1>2, AppendProperties
<1>4. PICK f : AreConcat(f, <<>>, s, n) /\ Joined(s) = f[n]
  BY <1>1, JoinedIsConcat
<1>5. PICK g : AreConcat(g, <<>>, v, n + 1) /\ Joined(v) = g[n + 1]
  BY <1>3, JoinedIsConcat
<1>6. g[n] = f[n]
  <2>1. \A i \in 0..n : g[i] = f[i]
    <3>1. PICK m \in Nat : m = n + 1 /\ n <= m
      OBVIOUS
    <3>2. AreConcat(f, <<>>, s, n) /\ AreConcat(g, <<>>, v, m) /\ \A i \in 1..n : v[i] = s[i]
      BY <1>3, <1>4, <1>5, <3>1
    <3> QED
      BY <3>1, <3>2, ConcatsAgree
  <2> QED
    BY <2>1
<1>7. g[n + 1] = g[n] \o v[n + 1]
  <2>1. n + 1 \in 0..(n + 1) /\ n + 1 # 0 /\ (n + 1) - 1 = n
    OBVIOUS
  <2> QED
    BY <1>5, <2>1 DEF AreConcat
<1>8. f[n] \in Seq(Nat)
  <2>1. \A i \in 1..n : s[i] \in Seq(Nat)
    BY <1>1
  <2>2. <<>> \in Seq(Nat)
    BY EmptySeq
  <2>3. \A i \in 0..n : f[i] \in Seq(Nat)
    BY <1>4, <2>1, <2>2, ConcatIsSeq
  <2> QED
    BY <2>3
<1>9. Joined(<<>>) = <<>>
  <2>1. Len(<<>>) = 0
    OBVIOUS
  <2>2. PICK e : AreConcat(e, <<>>, <<>>, 0) /\ Joined(<<>>) = e[0]
    BY <2>1, JoinedIsConcat
  <2> QED
    BY <2>2 DEF AreConcat
<1> QED
  BY <1>2, <1>3, <1>4, <1>5, <1>6, <1>7, <1>8, <1>9

\* One length more adds to the sum.
LEMMA SumOfAppends ==
  ASSUME NEW s \in Seq(Nat), NEW x \in Nat
  PROVE  /\ SumOf(<<>>) = 0
         /\ SumOf(s) \in Nat
         /\ SumOf(Append(s, x)) = SumOf(s) + x
<1>1. PICK n \in Nat : n = Len(s)
  OBVIOUS
<1>2. PICK v \in Seq(Nat) : v = Append(s, x)
  BY AppendProperties
<1>3. Len(v) = n + 1 /\ v[n + 1] = x /\ \A i \in 1..n : v[i] = s[i]
  BY <1>1, <1>2, AppendProperties
<1>4. PICK f : AreSums(f, s, n) /\ SumOf(s) = f[n]
  BY <1>1, SumOfIsSums
<1>5. PICK g : AreSums(g, v, n + 1) /\ SumOf(v) = g[n + 1]
  BY <1>3, SumOfIsSums
<1> DEFINE T == {i \in Nat : i <= n => g[i] = f[i] /\ f[i] \in Nat}
<1>6. 0 \in T
  BY <1>4, <1>5 DEF AreSums
<1>7. ASSUME NEW i \in Nat, i \in T PROVE i + 1 \in T
  <2> SUFFICES ASSUME i + 1 <= n PROVE g[i + 1] = f[i + 1] /\ f[i + 1] \in Nat
    OBVIOUS
  <2>1. i + 1 \in 0..n /\ i + 1 \in 0..(n + 1) /\ i + 1 # 0 /\ (i + 1) - 1 = i /\ i + 1 \in 1..n
    OBVIOUS
  <2>2. g[i] = f[i] /\ f[i] \in Nat
    BY <1>7
  <2>3. f[i + 1] = f[i] + s[i + 1]
    BY <1>4, <2>1 DEF AreSums
  <2>4. g[i + 1] = g[i] + v[i + 1]
    BY <1>5, <2>1 DEF AreSums
  <2>5. v[i + 1] = s[i + 1] /\ s[i + 1] \in Nat
    BY <1>1, <1>3, <2>1
  <2> QED
    BY <2>2, <2>3, <2>4, <2>5
<1>8. Nat \subseteq T
  <2> HIDE DEF T
  <2> QED
    BY <1>6, <1>7, NatSetInduction
<1>9. g[n] = f[n] /\ f[n] \in Nat
  BY <1>8
<1>10. g[n + 1] = g[n] + v[n + 1]
  <2>1. n + 1 \in 0..(n + 1) /\ n + 1 # 0 /\ (n + 1) - 1 = n
    OBVIOUS
  <2> QED
    BY <1>5, <2>1 DEF AreSums
<1>11. SumOf(<<>>) = 0
  <2>1. Len(<<>>) = 0
    OBVIOUS
  <2>2. PICK e : AreSums(e, <<>>, 0) /\ SumOf(<<>>) = e[0]
    BY <2>1, SumOfIsSums
  <2> QED
    BY <2>2 DEF AreSums
<1> QED
  BY <1>2, <1>3, <1>4, <1>5, <1>9, <1>10, <1>11

\* No chunk has more than the limit unless it is one paragraph.
Fits(paras) == Len(paras) > 1 => SumOf(paras) <= MaxChars

\* What is split and in progress is together the first n paragraphs, and fits.
SplitSoFar(acc, s, n) ==
  /\ acc.closed \in Seq(Seq(Nat)) /\ acc.current \in Seq(Nat)
  /\ Joined(acc.closed) \o acc.current = SubSeq(s, 1, n)
  /\ \A k \in 1..Len(acc.closed) : Fits(acc.closed[k])
  /\ Fits(acc.current)

\* A concatenation is extended at its end.
LEMMA AppendOfConcat ==
  \A s \in Seq(Nat) : \A t \in Seq(Nat) : \A x \in Nat : Append(s \o t, x) = s \o Append(t, x)
BY SMTT(30)

\* One paragraph more.
LEMMA AddParagraphSplits ==
  ASSUME NEW s \in Seq(Nat), NEW n \in Nat, n + 1 <= Len(s), NEW acc, SplitSoFar(acc, s, n)
  PROVE  SplitSoFar(AddParagraph(acc, s[n + 1]), s, n + 1)
<1>a. \A i \in 1..(n + 1) : s[i] \in Nat
  <2>1. Len(s) \in Nat
    OBVIOUS
  <2> QED
    BY <2>1
<1>1. PICK x \in Nat : x = s[n + 1]
  BY <1>a
<1>2. SubSeq(s, 1, n + 1) = Append(SubSeq(s, 1, n), x)
  <2>1. PICK a \in Seq(Nat) : a = SubSeq(s, 1, n)
    <3>1. 1 \in Int /\ n \in Int /\ \A i \in 1..n : s[i] \in Nat
      BY <1>a
    <3>2. SubSeq(s, 1, n) \in Seq(Nat)
      BY <3>1, SubSeqProperties
    <3> QED
      BY <3>2
  <2>2. PICK b \in Seq(Nat) : b = SubSeq(s, 1, n + 1)
    <3>1. 1 \in Int /\ n + 1 \in Int
      OBVIOUS
    <3>2. SubSeq(s, 1, n + 1) \in Seq(Nat)
      BY <1>a, <3>1, SubSeqProperties
    <3> QED
      BY <3>2
  <2>3. Len(a) = n /\ \A i \in 1..n : a[i] = s[i]
    BY <2>1
  <2>4. Len(b) = n + 1 /\ \A i \in 1..(n + 1) : b[i] = s[i]
    BY <2>2
  <2>5. PICK c \in Seq(Nat) : c = Append(a, x)
    BY AppendProperties
  <2>6. Len(c) = n + 1 /\ c[n + 1] = x /\ \A i \in 1..n : c[i] = a[i]
    BY <2>3, <2>5, AppendProperties
  <2>7. \A i \in 1..Len(b) : b[i] = c[i]
    <3> SUFFICES ASSUME NEW i \in 1..(n + 1) PROVE b[i] = c[i]
      BY <2>4
    <3>1. CASE i = n + 1
      BY <1>1, <2>4, <2>6, <3>1
    <3>2. CASE i \in 1..n
      BY <2>3, <2>4, <2>6, <3>2
    <3> QED
      BY <3>1, <3>2
  <2>8. b = c
    BY <2>4, <2>6, <2>7, SeqEqual
  <2> QED
    BY <2>1, <2>2, <2>5, <2>8
<1>3. PICK closed_, current_ : closed_ = acc.closed /\ current_ = acc.current
  OBVIOUS
<1>4. closed_ \in Seq(Seq(Nat)) /\ current_ \in Seq(Nat)
  BY <1>3 DEF SplitSoFar
<1>5. PICK sum \in Nat : sum = SumOf(current_)
  BY <1>4, SumOfAppends, <1>1
<1>6. PICK all \in Seq(Nat) : all = Joined(closed_)
  BY <1>4, JoinedAppends
<1>7. all \o current_ = SubSeq(s, 1, n)
  BY <1>3, <1>6 DEF SplitSoFar
<1>8. CASE sum + x > MaxChars /\ current_ # <<>>
  <2>1. PICK c \in Seq(Seq(Nat)) : c = Append(closed_, current_)
    BY <1>4, AppendProperties
  <2>2. AddParagraph(acc, x) = [closed |-> c, current |-> <<x>>]
    BY <1>3, <1>5, <1>8, <2>1 DEF AddParagraph
  <2>3. PICK one \in Seq(Nat) : one = <<x>>
    <3>1. <<x>> \in Seq(Nat)
      OBVIOUS
    <3> QED
      BY <3>1
  <2>4. Len(one) = 1
    BY <2>3
  <2>5. Joined(c) = all \o current_
    BY <1>4, <1>6, <2>1, JoinedAppends
  <2>6. Joined(c) \o one = SubSeq(s, 1, n + 1)
    <3>1. PICK b \in Seq(Nat) : b = all \o current_
      BY <1>4, ConcatProperties
    <3>2. Append(b, x) = b \o one
      BY <2>3, <3>1, AppendIsConcat
    <3> QED
      BY <1>2, <1>7, <2>5, <3>1, <3>2
  <2>7. ASSUME NEW k \in 1..Len(c) PROVE Fits(c[k])
    <3>1. Len(c) = Len(closed_) + 1 /\ c[Len(closed_) + 1] = current_
          /\ \A i \in 1..Len(closed_) : c[i] = closed_[i]
      BY <1>4, <2>1, AppendProperties
    <3>2. Len(closed_) \in Nat
      BY <1>4
    <3>3. CASE k = Len(closed_) + 1
      BY <1>3, <3>1, <3>3 DEF SplitSoFar
    <3>4. CASE k \in 1..Len(closed_)
      BY <1>3, <3>1, <3>4 DEF SplitSoFar
    <3> QED
      BY <3>1, <3>2, <3>3, <3>4
  <2>8. Fits(one)
    BY <2>4 DEF Fits
  <2>9. PICK r : r = AddParagraph(acc, x)
    OBVIOUS
  <2>10. r.closed = c /\ r.current = one
    BY <2>2, <2>3, <2>9
  <2> QED
    BY <1>1, <2>6, <2>7, <2>8, <2>9, <2>10 DEF SplitSoFar
<1>9. CASE ~(sum + x > MaxChars /\ current_ # <<>>)
  <2>1. PICK c \in Seq(Nat) : c = Append(current_, x)
    BY <1>4, AppendProperties
  <2>2. AddParagraph(acc, x) = [closed |-> closed_, current |-> c]
    BY <1>3, <1>5, <1>9, <2>1 DEF AddParagraph
  <2>3. all \o c = SubSeq(s, 1, n + 1)
    <3>1. Append(all \o current_, x) = all \o Append(current_, x)
      BY <1>4, AppendOfConcat
    <3> QED
      BY <1>2, <1>7, <2>1, <3>1
  <2>4. Fits(c)
    <3>1. CASE current_ = <<>>
      <4>1. Len(c) = 1
        BY <2>1, <3>1
      <4> QED
        BY <4>1 DEF Fits
    <3>2. CASE sum + x <= MaxChars
      <4>1. SumOf(c) = sum + x
        BY <1>4, <1>5, <2>1, SumOfAppends
      <4> QED
        BY <3>2, <4>1 DEF Fits
    <3> QED
      BY <1>9, <3>1, <3>2, ChunkerAssumption
  <2>5. PICK r : r = AddParagraph(acc, x)
    OBVIOUS
  <2>6. r.closed = closed_ /\ r.current = c
    BY <2>2, <2>5
  <2> QED
    BY <1>1, <1>3, <1>4, <1>6, <2>3, <2>4, <2>5, <2>6 DEF SplitSoFar
<1> QED
  BY <1>8, <1>9

\* The chunks of a body, joined, are its paragraphs, and there is always one.
LEMMA SplitKeepsParagraphs ==
  ASSUME NEW s \in Seq(Nat)
  PROVE  /\ SplitParagraphs(s) \in Seq(Seq(Nat))
         /\ Len(SplitParagraphs(s)) >= 1
         /\ Joined(SplitParagraphs(s)) = s
         /\ \A k \in 1..Len(SplitParagraphs(s)) : Fits(SplitParagraphs(s)[k])
<1>1. PICK n \in Nat : n = Len(s)
  OBVIOUS
<1>2. PICK f : AreSplit(f, s, n) /\ SplitParagraphs(s) = Append(f[n].closed, f[n].current)
  BY <1>1, SplitIsSplit
<1> DEFINE T == {i \in Nat : i <= n => SplitSoFar(f[i], s, i)}
<1>3. 0 \in T
  <2>1. <<>> \in Seq(Seq(Nat)) /\ <<>> \in Seq(Nat) /\ Len(<<>>) = 0
    BY EmptySeq
  <2>2. SubSeq(s, 1, 0) = <<>>
    BY SubSeqEmpty
  <2>3. Joined(<<>>) = <<>>
    BY <2>1, JoinedAppends
  <2>4. <<>> \o <<>> = <<>>
    BY <2>1, ConcatEmptySeq
  <2>5. PICK r : r = f[0]
    OBVIOUS
  <2>6. r.closed = <<>> /\ r.current = <<>>
    BY <1>2, <2>5 DEF AreSplit
  <2>7. SplitSoFar(r, s, 0)
    <3>1. PICK e : e = <<>>
      OBVIOUS
    <3>2. /\ e \in Seq(Seq(Nat)) /\ e \in Seq(Nat) /\ Len(e) = 0
          /\ Joined(e) \o e = SubSeq(s, 1, 0)
      BY <2>1, <2>2, <2>3, <2>4, <3>1
    <3>3. r.closed = e /\ r.current = e
      BY <2>6, <3>1
    <3> QED
      BY <3>2, <3>3 DEF SplitSoFar, Fits
  <2> QED
    BY <2>5, <2>7
<1>4. ASSUME NEW i \in Nat, i \in T PROVE i + 1 \in T
  <2> SUFFICES ASSUME i + 1 <= n PROVE SplitSoFar(f[i + 1], s, i + 1)
    OBVIOUS
  <2>1. i + 1 \in 0..n /\ i + 1 # 0 /\ (i + 1) - 1 = i
    OBVIOUS
  <2>2. f[i + 1] = AddParagraph(f[i], s[i + 1])
    BY <1>2, <2>1 DEF AreSplit
  <2>3. SplitSoFar(f[i], s, i)
    BY <1>4
  <2> QED
    BY <1>1, <2>2, <2>3, AddParagraphSplits
<1>5. Nat \subseteq T
  <2> HIDE DEF T
  <2> QED
    BY <1>3, <1>4, NatSetInduction
<1>6. SplitSoFar(f[n], s, n)
  BY <1>5
<1>7. PICK closed_ \in Seq(Seq(Nat)), current_ \in Seq(Nat) :
        closed_ = f[n].closed /\ current_ = f[n].current
  BY <1>6 DEF SplitSoFar
<1>8. SubSeq(s, 1, n) = s
  BY <1>1, SubSeqFull
<1>9. PICK all \in Seq(Seq(Nat)) : all = Append(closed_, current_)
  BY <1>7, AppendProperties
<1>10. Joined(all) = s
  BY <1>6, <1>7, <1>8, <1>9, JoinedAppends DEF SplitSoFar
<1>11. Len(all) = Len(closed_) + 1 /\ all[Len(closed_) + 1] = current_ /\ Len(closed_) \in Nat
       /\ \A i \in 1..Len(closed_) : all[i] = closed_[i]
  BY <1>7, <1>9, AppendProperties
<1>12. ASSUME NEW k \in 1..Len(all) PROVE Fits(all[k])
  <2>1. CASE k = Len(closed_) + 1
    BY <1>6, <1>7, <1>11, <2>1 DEF SplitSoFar
  <2>2. CASE k \in 1..Len(closed_)
    BY <1>6, <1>7, <1>11, <2>2 DEF SplitSoFar
  <2> QED
    BY <1>11, <2>1, <2>2
<1>13. SplitParagraphs(s) = all
  BY <1>2, <1>7, <1>9
<1> QED
  BY <1>10, <1>11, <1>12, <1>13

\* A row of the table, without the issue it belongs to.
Text == [index : Nat, paras : Seq(Nat), comment : Nat, kept : Nat]

\* The chunks of a body and of its first n comments.
InOrder(cs, bodies, title, comments, n) ==
  /\ cs \in Seq(Text)
  /\ Len(bodies) <= Len(cs)
  /\ \A k \in 1..Len(bodies) :
       cs[k].index = k - 1 /\ cs[k].paras = bodies[k] /\ cs[k].comment = 0
  /\ \A k \in 1..Len(cs) : k > Len(bodies) =>
       /\ cs[k].paras = <<>>
       /\ cs[k].comment \in 1..n /\ comments[cs[k].comment] > 0
       /\ cs[k].kept = Fitting(title, comments[cs[k].comment])
       /\ cs[k].index = Len(bodies) + cs[k].comment - 1
  /\ \A k, l \in 1..Len(cs) : Len(bodies) < k /\ k < l => cs[k].comment < cs[l].comment
  /\ \A m \in 1..n : comments[m] > 0 => \E k \in 1..Len(cs) : cs[k].comment = m

\* What is kept of a comment is a number of characters; it is the whole comment
\* or fills the row.
LEMMA FittingIsNat ==
  ASSUME NEW title \in Nat, NEW comment \in Nat
  PROVE  /\ Fitting(title, comment) \in Nat
         /\ \/ Fitting(title, comment) = comment
            \/ /\ Fitting(title, comment) < comment
               /\ title + Separator + Fitting(title, comment) >= MaxChars
BY ChunkerAssumption DEF Fitting, Separator

\* One comment more.
LEMMA CommentKeepsOrder ==
  ASSUME NEW bodies \in Seq(Seq(Nat)), NEW rows \in Seq(Text), Len(rows) = Len(bodies),
         NEW title \in Nat, NEW comments \in Seq(Nat), NEW n \in Nat, n + 1 <= Len(comments),
         NEW cs, InOrder(cs, bodies, title, comments, n)
  PROVE  InOrder(cs \o CommentPart(rows, title, comments, n + 1), bodies, title, comments, n + 1)
<1>1. PICK B \in Nat : B = Len(bodies) /\ B = Len(rows)
  OBVIOUS
<1>2. PICK s \in Seq(Text) : s = cs
  BY DEF InOrder
<1>3. PICK L \in Nat : L = Len(s) /\ B <= L
  BY <1>1, <1>2 DEF InOrder
<1>4. /\ \A k \in 1..B : s[k].index = k - 1 /\ s[k].paras = bodies[k] /\ s[k].comment = 0
      /\ \A k \in 1..L : k > B =>
           /\ s[k].paras = <<>>
           /\ s[k].comment \in 1..n /\ comments[s[k].comment] > 0
           /\ s[k].kept = Fitting(title, comments[s[k].comment])
           /\ s[k].index = B + s[k].comment - 1
      /\ \A k, l \in 1..L : B < k /\ k < l => s[k].comment < s[l].comment
      /\ \A m \in 1..n : comments[m] > 0 => \E k \in 1..L : s[k].comment = m
  BY <1>1, <1>2, <1>3 DEF InOrder
<1>5. CASE ~(comments[n + 1] > 0)
  <2>1. CommentPart(rows, title, comments, n + 1) = <<>>
    BY <1>5 DEF CommentPart
  <2>2. cs \o <<>> = s
    BY <1>2, ConcatEmptySeq
  <2>3. ASSUME NEW m \in 1..(n + 1), comments[m] > 0 PROVE \E k \in 1..L : s[k].comment = m
    <3>1. m \in 1..n
      BY <1>5, <2>3
    <3> QED
      BY <1>4, <2>3, <3>1
  <2>4. \A k \in 1..L : k > B => s[k].comment \in 1..(n + 1)
    BY <1>4
  <2>5. InOrder(s, bodies, title, comments, n + 1)
    BY <1>1, <1>3, <1>4, <2>3, <2>4 DEF InOrder
  <2> QED
    BY <2>1, <2>2, <2>5
<1>6. CASE comments[n + 1] > 0
  <2>1. PICK c \in Text : /\ c = CommentChunk(rows, title, comments, n + 1)
                          /\ c.index = B + (n + 1) - 1 /\ c.paras = <<>> /\ c.comment = n + 1
                          /\ c.kept = Fitting(title, comments[n + 1])
    <3>1. <<>> \in Seq(Nat)
      BY EmptySeq
    <3>2. B + (n + 1) - 1 \in Nat /\ n + 1 \in Nat
      OBVIOUS
    <3> DEFINE fitting == Fitting(title, comments[n + 1])
    <3>3. CommentChunk(rows, title, comments, n + 1)
            = [index |-> B + (n + 1) - 1, paras |-> <<>>, comment |-> n + 1, kept |-> fitting]
      BY <1>1 DEF CommentChunk, CommentIndex
    <3>10. fitting \in Nat
      <4>1. comments[n + 1] \in Nat
        OBVIOUS
      <4> QED
        BY <4>1, FittingIsNat
    <3> HIDE DEF fitting
    <3>4. PICK i \in Nat : i = B + (n + 1) - 1
      BY <3>2
    <3>5. PICK m \in Nat : m = n + 1
      BY <3>2
    <3>6. PICK p \in Seq(Nat) : p = <<>>
      BY <3>1
    <3>11. PICK k \in Nat : k = fitting
      BY <3>10
    <3>7. PICK c : c = [index |-> i, paras |-> p, comment |-> m, kept |-> k]
      OBVIOUS
    <3>8. c \in Text /\ c.index = i /\ c.paras = p /\ c.comment = m /\ c.kept = k
      BY <3>7 DEF Text
    <3>9. c = CommentChunk(rows, title, comments, n + 1)
      BY <3>3, <3>4, <3>5, <3>6, <3>7, <3>11
    <3> QED
      BY <3>4, <3>5, <3>6, <3>8, <3>9, <3>11 DEF fitting
  <2>2. CommentPart(rows, title, comments, n + 1) = <<c>>
    BY <1>6, <2>1 DEF CommentPart
  <2>3. PICK u \in Seq(Text) : u = Append(s, c)
    BY AppendProperties
  <2>4. cs \o <<c>> = u
    BY <1>2, <2>3, AppendIsConcat
  <2>5. Len(u) = L + 1 /\ u[L + 1] = c /\ \A k \in 1..L : u[k] = s[k]
    BY <1>3, <2>3, AppendProperties
  <2>6. ASSUME NEW k \in 1..(L + 1), k > B
        PROVE  /\ u[k].paras = <<>>
               /\ u[k].comment \in 1..(n + 1) /\ comments[u[k].comment] > 0
               /\ u[k].kept = Fitting(title, comments[u[k].comment])
               /\ u[k].index = B + u[k].comment - 1
    <3>1. CASE k = L + 1
      BY <1>6, <2>1, <2>5, <3>1
    <3>2. CASE k \in 1..L
      <4>1. u[k] = s[k]
        BY <2>5, <3>2
      <4>2. s[k].comment \in 1..n
        BY <1>4, <2>6, <3>2
      <4>3. u[k].comment \in 1..(n + 1)
        BY <4>1, <4>2
      <4> QED
        BY <1>4, <2>6, <3>2, <4>1, <4>3
    <3> QED
      BY <3>1, <3>2
  <2>7. ASSUME NEW k \in 1..(L + 1), NEW l \in 1..(L + 1), B < k, k < l
        PROVE  u[k].comment < u[l].comment
    <3>1. k \in 1..L /\ u[k] = s[k]
      BY <2>5, <2>7
    <3>2. CASE l = L + 1
      <4>1. s[k].comment \in 1..n
        BY <1>4, <2>7, <3>1
      <4>2. u[l].comment = n + 1
        BY <2>1, <2>5, <3>2
      <4> QED
        BY <3>1, <4>1, <4>2
    <3>3. CASE l \in 1..L
      BY <1>4, <2>5, <2>7, <3>1, <3>3
    <3> QED
      BY <3>2, <3>3
  <2>8. ASSUME NEW m \in 1..(n + 1), comments[m] > 0
        PROVE  \E k \in 1..(L + 1) : u[k].comment = m
    <3>1. CASE m = n + 1
      <4>1. L + 1 \in 1..(L + 1)
        OBVIOUS
      <4> QED
        BY <2>1, <2>5, <3>1, <4>1
    <3>2. CASE m \in 1..n
      <4>1. PICK k \in 1..L : s[k].comment = m
        BY <1>4, <2>8, <3>2
      <4>2. k \in 1..(L + 1) /\ u[k] = s[k]
        BY <2>5, <4>1
      <4> QED
        BY <4>1, <4>2
    <3>3. m = n + 1 \/ m \in 1..n
      OBVIOUS
    <3> QED
      BY <3>1, <3>2, <3>3
  <2>9. \A k \in 1..B : u[k] = s[k]
    BY <1>3, <2>5
  <2>10. InOrder(u, bodies, title, comments, n + 1)
    <3>1. Len(bodies) <= Len(u)
      BY <1>1, <1>3, <2>5
    <3>2. \A k \in 1..Len(bodies) :
            u[k].index = k - 1 /\ u[k].paras = bodies[k] /\ u[k].comment = 0
      BY <1>1, <1>4, <2>9
    <3>3. \A k \in 1..Len(u) : k > Len(bodies) =>
            /\ u[k].paras = <<>>
            /\ u[k].comment \in 1..(n + 1) /\ comments[u[k].comment] > 0
            /\ u[k].kept = Fitting(title, comments[u[k].comment])
            /\ u[k].index = Len(bodies) + u[k].comment - 1
      BY <1>1, <2>5, <2>6
    <3>4. \A k, l \in 1..Len(u) : Len(bodies) < k /\ k < l => u[k].comment < u[l].comment
      BY <1>1, <2>5, <2>7
    <3>5. \A m \in 1..(n + 1) : comments[m] > 0 => \E k \in 1..Len(u) : u[k].comment = m
      BY <2>5, <2>8
    <3> QED
      BY <3>1, <3>2, <3>3, <3>4, <3>5 DEF InOrder
  <2> QED
    BY <2>2, <2>4, <2>10
<1> QED
  BY <1>5, <1>6

\* The chunks of the body are the bodies.
LEMMA BodiesAreFirst ==
  ASSUME NEW paras \in Seq(Nat)
  PROVE  /\ BodyChunks(paras) \in Seq(Text)
         /\ Len(BodyChunks(paras)) = Len(SplitParagraphs(paras))
         /\ \A title, comments : InOrder(BodyChunks(paras), SplitParagraphs(paras), title, comments, 0)
<1>1. PICK bodies \in Seq(Seq(Nat)) : bodies = SplitParagraphs(paras)
  BY SplitKeepsParagraphs
<1>2. PICK B \in Nat : B = Len(bodies)
  OBVIOUS
<1> DEFINE row(k) == [index |-> k - 1, paras |-> bodies[k], comment |-> 0, kept |-> 0]
<1>3. \A k \in 1..B : row(k) \in Text
  BY <1>1, <1>2 DEF Text
<1>4. PICK cs : cs = [k \in 1..B |-> row(k)]
  OBVIOUS
<1>5. BodyChunks(paras) = cs
  BY <1>1, <1>2, <1>4 DEF BodyChunks
<1>6. \A k \in 1..B : cs[k].index = k - 1 /\ cs[k].paras = bodies[k] /\ cs[k].comment = 0
  BY <1>4
<1> HIDE DEF row
<1>7. cs \in [1..B -> Text]
  BY <1>3, <1>4
<1>8. cs \in Seq(Text) /\ Len(cs) = B
  BY <1>7, SeqDef, <1>4
<1>9. ASSUME NEW title, NEW comments PROVE InOrder(cs, bodies, title, comments, 0)
  <2>1. Len(cs) = Len(bodies) /\ Len(bodies) <= Len(cs) /\ \A k \in 1..Len(cs) : ~(k > Len(bodies))
    BY <1>2, <1>8
  <2>2. \A k \in 1..Len(cs) : ~(Len(bodies) < k)
    BY <2>1
  <2> QED
    BY <1>2, <1>6, <1>8, <2>1, <2>2 DEF InOrder
<1> QED
  BY <1>1, <1>2, <1>5, <1>8, <1>9

\* The chunks of an issue are those of its body, then those of its comments.
LEMMA ChunksAreInOrder ==
  ASSUME NEW paras \in Seq(Nat), paras # <<>>, NEW comments \in Seq(Nat)
  PROVE  InOrder(ChunkIssue(paras, comments), SplitParagraphs(paras), Head(paras), comments,
                 Len(comments))
<1>1. PICK L \in Nat : L = Len(comments)
  OBVIOUS
<1>12. PICK title \in Nat : title = Head(paras)
  OBVIOUS
<1>2. PICK rows \in Seq(Text) : rows = BodyChunks(paras)
  BY BodiesAreFirst
<1>3. PICK bodies \in Seq(Seq(Nat)) : bodies = SplitParagraphs(paras)
  BY SplitKeepsParagraphs
<1>4. Len(rows) = Len(bodies) /\ InOrder(rows, bodies, title, comments, 0)
  BY <1>2, <1>3, BodiesAreFirst
<1> DEFINE parts == [n \in 1..L |-> CommentPart(rows, title, comments, n)]
<1>5. PICK f : AreConcat(f, rows, parts, L) /\ ChunkIssue(paras, comments) = f[L]
  BY <1>1, <1>2, <1>12, ChunkIssueIsConcat
<1>6. f = [i \in 0..L |-> IF i = 0 THEN rows ELSE f[i - 1] \o parts[i]]
  BY <1>5 DEF AreConcat
<1>7. \A i \in 1..L : parts[i] = CommentPart(rows, title, comments, i)
  OBVIOUS
<1> HIDE DEF parts
<1> DEFINE T == {i \in Nat : i <= L => InOrder(f[i], bodies, title, comments, i)}
<1>8. 0 \in T
  <2>1. 0 \in 0..L
    OBVIOUS
  <2>2. f[0] = rows
    BY <1>6, <2>1
  <2> QED
    BY <1>4, <2>2
<1>9. ASSUME NEW i \in Nat, i \in T PROVE i + 1 \in T
  <2> SUFFICES ASSUME i + 1 <= L PROVE InOrder(f[i + 1], bodies, title, comments, i + 1)
    OBVIOUS
  <2>1. i + 1 \in 0..L /\ i + 1 # 0 /\ (i + 1) - 1 = i /\ i + 1 \in 1..L
    OBVIOUS
  <2>2. f[i + 1] = f[i] \o CommentPart(rows, title, comments, i + 1)
    BY <1>6, <1>7, <2>1
  <2>3. InOrder(f[i], bodies, title, comments, i)
    BY <1>9
  <2> QED
    BY <1>1, <1>4, <2>2, <2>3, CommentKeepsOrder
<1>10. Nat \subseteq T
  <2> HIDE DEF T
  <2> QED
    BY <1>8, <1>9, NatSetInduction
<1>11. InOrder(f[L], bodies, title, comments, L)
  BY <1>10
<1> QED
  BY <1>1, <1>3, <1>5, <1>11, <1>12

-----------------------------------------------------------------------------
(* The chunks of an issue, and of rows of issues.                          *)

\* Chunks of an issue are in the order of their indexes.
LEMMA IndexGrows ==
  ASSUME NEW cs, NEW bodies \in Seq(Seq(Nat)), NEW title, NEW comments, NEW n \in Nat,
         InOrder(cs, bodies, title, comments, n), NEW k \in 1..Len(cs), NEW l \in 1..Len(cs), k < l
  PROVE  /\ cs[k].index < cs[l].index
         /\ cs[l].comment # 0 => cs[k].comment < cs[l].comment
<1>1. PICK B \in Nat : B = Len(bodies)
  OBVIOUS
<1>2. PICK L \in Nat : L = Len(cs)
  BY DEF InOrder
<1>3. \A j \in 1..B : cs[j].index = j - 1 /\ cs[j].comment = 0
  BY <1>1 DEF InOrder
<1>4. \A j \in 1..L : j > B => /\ cs[j].comment \in 1..n
                               /\ cs[j].index = B + cs[j].comment - 1
  BY <1>1, <1>2 DEF InOrder
<1>5. \A i, j \in 1..L : B < i /\ i < j => cs[i].comment < cs[j].comment
  BY <1>1, <1>2 DEF InOrder
<1>6. CASE l <= B
  <2>1. k \in 1..B /\ l \in 1..B
    BY <1>2, <1>6
  <2> QED
    BY <1>3, <2>1
<1>7. CASE l > B /\ k <= B
  <2>1. k \in 1..B /\ l \in 1..L /\ k \in Int
    BY <1>2, <1>7
  <2>2. cs[l].comment \in 1..n /\ cs[l].index = B + cs[l].comment - 1
    BY <1>4, <1>7, <2>1
  <2>3. cs[k].index = k - 1 /\ cs[k].comment = 0
    BY <1>3, <2>1
  <2> QED
    BY <1>7, <2>1, <2>2, <2>3
<1>8. CASE k > B
  <2>1. k \in 1..L /\ l \in 1..L /\ l > B
    BY <1>2, <1>8
  <2>2. cs[l].comment \in 1..n /\ cs[l].index = B + cs[l].comment - 1
    BY <1>4, <2>1
  <2>3. cs[k].comment \in 1..n /\ cs[k].index = B + cs[k].comment - 1
    BY <1>4, <1>8, <2>1
  <2>4. cs[k].comment < cs[l].comment
    BY <1>5, <1>8, <2>1
  <2> QED
    BY <2>2, <2>3, <2>4
<1> QED
  BY <1>1, <1>2, <1>6, <1>7, <1>8

Chunk == [issue : Issues, content : Text]
Texts(i) == ChunkIssue(Paragraphs[i], Comments[i])

\* The chunks of an issue are there, belong to it and differ from each other.
LEMMA ChunksOfIssue ==
  ASSUME NEW i \in Issues
  PROVE  /\ InOrder(Texts(i), SplitParagraphs(Paragraphs[i]), Head(Paragraphs[i]), Comments[i],
                    Len(Comments[i]))
         /\ Texts(i) \in Seq(Text) /\ Len(Texts(i)) >= 1
         /\ Chunks[i] \in Seq(Chunk) /\ Len(Chunks[i]) = Len(Texts(i))
         /\ \A k \in 1..Len(Texts(i)) :
              Chunks[i][k].issue = i /\ Chunks[i][k].content = Texts(i)[k]
         /\ \A k, l \in 1..Len(Texts(i)) : Chunks[i][k] = Chunks[i][l] => k = l
<1>1. Paragraphs[i] \in Seq(Nat) /\ Paragraphs[i] # <<>> /\ Comments[i] \in Seq(Nat)
  BY IndexAssumption
<1>15. PICK comments \in Seq(Nat) : comments = Comments[i]
  BY <1>1
<1>2. PICK bodies \in Seq(Seq(Nat)) : bodies = SplitParagraphs(Paragraphs[i]) /\ Len(bodies) >= 1
  BY <1>1, SplitKeepsParagraphs
<1>14. PICK title \in Nat : title = Head(Paragraphs[i])
  BY <1>1
<1>3. InOrder(Texts(i), bodies, title, Comments[i], Len(Comments[i]))
  BY <1>1, <1>2, <1>14, ChunksAreInOrder DEF Texts
<1>4. PICK cs \in Seq(Text) : cs = Texts(i)
  BY <1>3 DEF InOrder
<1>5. PICK L \in Nat : L = Len(cs)
  OBVIOUS
<1>6. L >= 1
  <2>1. Len(bodies) <= L
    BY <1>3, <1>4, <1>5 DEF InOrder
  <2> QED
    BY <1>2, <2>1
<1>7. Chunks[i] = [n \in 1..L |-> [issue |-> i, content |-> cs[n]]]
  BY <1>4, <1>5 DEF Chunks, Texts
<1>8. PICK c : c = [n \in 1..L |-> [issue |-> i, content |-> cs[n]]]
  OBVIOUS
<1>9. \A k \in 1..L : c[k] = [issue |-> i, content |-> cs[k]]
  BY <1>8
<1>10. \A k \in 1..L : c[k].issue = i /\ c[k].content = cs[k]
  <2> SUFFICES ASSUME NEW k \in 1..L PROVE c[k].issue = i /\ c[k].content = cs[k]
    OBVIOUS
  <2>1. PICK r : r = [issue |-> i, content |-> cs[k]]
    OBVIOUS
  <2>2. r.issue = i /\ r.content = cs[k]
    BY <2>1
  <2>3. c[k] = r
    BY <1>9, <2>1
  <2> QED
    BY <2>2, <2>3
<1>11. c \in [1..L -> Chunk]
  <2>1. \A k \in 1..L : cs[k] \in Text
    BY <1>5
  <2>2. \A k \in 1..L : [issue |-> i, content |-> cs[k]] \in Chunk
    BY <2>1 DEF Chunk
  <2> QED
    BY <1>8, <2>2
<1>12. c \in Seq(Chunk) /\ Len(c) = L
  BY <1>8, <1>11, SeqDef
<1>13. ASSUME NEW k \in 1..L, NEW l \in 1..L, c[k] = c[l] PROVE k = l
  <2>1. cs[k].index = cs[l].index
    BY <1>10, <1>13
  <2>2. PICK n \in Nat : n = Len(comments)
    OBVIOUS
  <2>3. InOrder(cs, bodies, title, comments, n)
    BY <1>3, <1>4, <1>15, <2>2
  <2>4. \A j \in 1..L : cs[j].index \in Nat
    <3>1. \A j \in 1..L : cs[j] \in Text
      BY <1>5
    <3> QED
      BY <3>1 DEF Text
  <2>5. ~(k < l)
    <3> SUFFICES ASSUME k < l PROVE FALSE
      OBVIOUS
    <3>1. cs[k].index < cs[l].index
      BY <1>5, <2>3, IndexGrows
    <3> QED
      BY <2>1, <2>4, <3>1
  <2>6. ~(l < k)
    <3> SUFFICES ASSUME l < k PROVE FALSE
      OBVIOUS
    <3>1. cs[l].index < cs[k].index
      BY <1>5, <2>3, IndexGrows
    <3> QED
      BY <2>1, <2>4, <3>1
  <2> QED
    BY <2>5, <2>6
<1> QED
  BY <1>2, <1>3, <1>4, <1>5, <1>6, <1>7, <1>8, <1>10, <1>12, <1>13, <1>14

Distinct(s) == \A k, l \in 1..Len(s) : s[k] = s[l] => k = l

\* The chunks of those of the first n rows that are not taken.
NewSoFar(q, rows, taken, n) ==
  /\ q \in Seq(Chunk)
  /\ Distinct(q)
  /\ \A k \in 1..Len(q) : \E m \in 1..n : \E j \in 1..Len(Chunks[rows[m]]) :
       rows[m] \notin taken /\ q[k].issue = rows[m] /\ q[k] = Chunks[rows[m]][j]
  /\ \A m \in 1..n : rows[m] \notin taken =>
       \A j \in 1..Len(Chunks[rows[m]]) : \E k \in 1..Len(q) : q[k] = Chunks[rows[m]][j]

\* One row more.
LEMMA PartKeepsNew ==
  ASSUME NEW rows \in Seq(Issues), Distinct(rows), NEW taken, NEW n \in Nat,
         n + 1 <= Len(rows), NEW q, NewSoFar(q, rows, taken, n)
  PROVE  NewSoFar(q \o Part(rows, taken, n + 1), rows, taken, n + 1)
<1>1. PICK i \in Issues : i = rows[n + 1]
  <2>1. Len(rows) \in Nat
    OBVIOUS
  <2>2. n + 1 \in 1..Len(rows)
    BY <2>1
  <2> QED
    BY <2>2
<1>2. PICK s \in Seq(Chunk) : s = q
  BY DEF NewSoFar
<1>3. PICK L \in Nat : L = Len(s)
  OBVIOUS
<1>4. /\ \A k, l \in 1..L : s[k] = s[l] => k = l
      /\ \A k \in 1..L : \E m \in 1..n : \E j \in 1..Len(Chunks[rows[m]]) :
           rows[m] \notin taken /\ s[k].issue = rows[m] /\ s[k] = Chunks[rows[m]][j]
      /\ \A m \in 1..n : rows[m] \notin taken =>
           \A j \in 1..Len(Chunks[rows[m]]) : \E k \in 1..L : s[k] = Chunks[rows[m]][j]
  BY <1>2, <1>3 DEF NewSoFar, Distinct
<1>5. CASE i \in taken
  <2>1. q \o Part(rows, taken, n + 1) = s
    BY <1>1, <1>2, <1>5, ConcatEmptySeq DEF Part
  <2>2. ASSUME NEW k \in 1..L
        PROVE  \E m \in 1..(n + 1) : \E j \in 1..Len(Chunks[rows[m]]) :
                 rows[m] \notin taken /\ s[k].issue = rows[m] /\ s[k] = Chunks[rows[m]][j]
    <3>1. PICK m \in 1..n : \E j \in 1..Len(Chunks[rows[m]]) :
                 rows[m] \notin taken /\ s[k].issue = rows[m] /\ s[k] = Chunks[rows[m]][j]
      BY <1>4
    <3>2. m \in 1..(n + 1)
      OBVIOUS
    <3> QED
      BY <3>1, <3>2
  <2>3. ASSUME NEW m \in 1..(n + 1), rows[m] \notin taken
        PROVE  \A j \in 1..Len(Chunks[rows[m]]) : \E k \in 1..L : s[k] = Chunks[rows[m]][j]
    <3>1. m \in 1..n
      BY <1>1, <1>5, <2>3
    <3> QED
      BY <1>4, <2>3, <3>1
  <2>4. NewSoFar(s, rows, taken, n + 1)
    BY <1>3, <1>4, <2>2, <2>3 DEF NewSoFar, Distinct
  <2> QED
    BY <2>1, <2>4
<1>6. CASE i \notin taken
  <2>1. PICK c \in Seq(Chunk) : c = Chunks[i]
    BY ChunksOfIssue
  <2>2. PICK M \in Nat : M = Len(c)
    OBVIOUS
  <2>3. /\ \A k \in 1..M : c[k].issue = i
        /\ \A k, l \in 1..M : c[k] = c[l] => k = l
    BY <2>1, <2>2, ChunksOfIssue
  <2>4. PICK u \in Seq(Chunk) : u = s \o c
    BY ConcatProperties
  <2>5. Len(u) = L + M /\ \A k \in 1..(L + M) : u[k] = IF k <= L THEN s[k] ELSE c[k - L]
    BY <1>3, <2>2, <2>4, ConcatProperties
  <2>6. q \o Part(rows, taken, n + 1) = u
    BY <1>1, <1>2, <1>6, <2>1, <2>4 DEF Part
  <2>7. \A k \in 1..L : u[k] = s[k]
    BY <2>5
  <2>8. \A k \in 1..M : u[L + k] = c[k]
    <3> SUFFICES ASSUME NEW k \in 1..M PROVE u[L + k] = c[k]
      OBVIOUS
    <3>1. L + k \in 1..(L + M) /\ ~(L + k <= L) /\ (L + k) - L = k
      OBVIOUS
    <3> QED
      BY <2>5, <3>1
  <2>9. \A k \in 1..L : s[k].issue # i
    <3> SUFFICES ASSUME NEW k \in 1..L, s[k].issue = i PROVE FALSE
      OBVIOUS
    <3>1. PICK m \in 1..n : s[k].issue = rows[m]
      BY <1>4
    <3>2. m \in 1..Len(rows) /\ n + 1 \in 1..Len(rows) /\ m # n + 1
      <4>1. Len(rows) \in Nat
        OBVIOUS
      <4> QED
        BY <4>1
    <3> QED
      BY <1>1, <3>1, <3>2 DEF Distinct
  <2>10. ASSUME NEW k \in 1..(L + M) PROVE k \in 1..L \/ \E j \in 1..M : k = L + j
    <3>1. CASE k <= L
      BY <3>1
    <3>2. CASE k > L
      <4>1. k - L \in 1..M /\ k = L + (k - L)
        BY <3>2
      <4> QED
        BY <4>1
    <3> QED
      BY <3>1, <3>2
  <2>11. ASSUME NEW k \in 1..(L + M), NEW l \in 1..(L + M), u[k] = u[l] PROVE k = l
    <3>1. CASE k \in 1..L /\ l \in 1..L
      BY <1>4, <2>7, <2>11, <3>1
    <3>2. CASE k \in 1..L /\ \E j \in 1..M : l = L + j
      <4>1. PICK j \in 1..M : l = L + j
        BY <3>2
      <4>2. s[k] = c[j]
        BY <2>7, <2>8, <2>11, <3>2, <4>1
      <4> QED
        BY <2>3, <2>9, <3>2, <4>2
    <3>3. CASE l \in 1..L /\ \E j \in 1..M : k = L + j
      <4>1. PICK j \in 1..M : k = L + j
        BY <3>3
      <4>2. s[l] = c[j]
        BY <2>7, <2>8, <2>11, <3>3, <4>1
      <4> QED
        BY <2>3, <2>9, <3>3, <4>2
    <3>4. CASE (\E j \in 1..M : k = L + j) /\ (\E j \in 1..M : l = L + j)
      <4>1. PICK j \in 1..M : k = L + j
        BY <3>4
      <4>2. PICK h \in 1..M : l = L + h
        BY <3>4
      <4>3. c[j] = c[h]
        BY <2>8, <2>11, <4>1, <4>2
      <4>4. j = h
        BY <2>3, <4>3
      <4> QED
        BY <4>1, <4>2, <4>4
    <3> QED
      BY <2>10, <3>1, <3>2, <3>3, <3>4
  <2>12. ASSUME NEW k \in 1..(L + M)
        PROVE  \E m \in 1..(n + 1) : \E j \in 1..Len(Chunks[rows[m]]) :
                 rows[m] \notin taken /\ u[k].issue = rows[m] /\ u[k] = Chunks[rows[m]][j]
    <3>1. CASE k \in 1..L
      <4>1. PICK m \in 1..n : \E j \in 1..Len(Chunks[rows[m]]) :
                 rows[m] \notin taken /\ s[k].issue = rows[m] /\ s[k] = Chunks[rows[m]][j]
        BY <1>4, <3>1
      <4>2. m \in 1..(n + 1) /\ u[k] = s[k]
        BY <2>7, <3>1
      <4> QED
        BY <4>1, <4>2
    <3>2. CASE \E j \in 1..M : k = L + j
      <4>1. PICK j \in 1..M : k = L + j
        BY <3>2
      <4>2. u[k] = c[j] /\ u[k].issue = i
        BY <2>3, <2>8, <4>1
      <4>3. n + 1 \in 1..(n + 1)
        OBVIOUS
      <4> QED
        BY <1>1, <1>6, <2>1, <2>2, <4>2, <4>3
    <3> QED
      BY <2>10, <3>1, <3>2
  <2>13. ASSUME NEW m \in 1..(n + 1), rows[m] \notin taken, NEW j \in 1..Len(Chunks[rows[m]])
        PROVE  \E k \in 1..(L + M) : u[k] = Chunks[rows[m]][j]
    <3>1. CASE m \in 1..n
      <4>1. PICK k \in 1..L : s[k] = Chunks[rows[m]][j]
        BY <1>4, <2>13, <3>1
      <4>2. k \in 1..(L + M) /\ u[k] = s[k]
        BY <2>7
      <4> QED
        BY <4>1, <4>2
    <3>2. CASE m = n + 1
      <4>1. j \in 1..M /\ Chunks[rows[m]] = c
        BY <1>1, <2>1, <2>2, <3>2
      <4>2. L + j \in 1..(L + M) /\ u[L + j] = c[j]
        BY <2>8, <4>1
      <4> QED
        BY <4>1, <4>2
    <3>3. m \in 1..n \/ m = n + 1
      OBVIOUS
    <3> QED
      BY <3>1, <3>2, <3>3
  <2>14. NewSoFar(u, rows, taken, n + 1)
    BY <2>5, <2>11, <2>12, <2>13 DEF NewSoFar, Distinct
  <2> QED
    BY <2>6, <2>14
<1> QED
  BY <1>5, <1>6

\* A run makes all chunks of the rows that are not taken, none twice.
LEMMA NewChunksAreNew ==
  ASSUME NEW rows \in Seq(Issues), Distinct(rows), NEW taken
  PROVE  NewSoFar(NewChunks(rows, taken), rows, taken, Len(rows))
<1>1. PICK L \in Nat : L = Len(rows)
  OBVIOUS
<1> DEFINE parts == [n \in 1..L |-> Part(rows, taken, n)]
<1>2. PICK f : AreConcat(f, <<>>, parts, L) /\ NewChunks(rows, taken) = f[L]
  BY <1>1, NewChunksAreConcat
<1>3. f = [i \in 0..L |-> IF i = 0 THEN <<>> ELSE f[i - 1] \o parts[i]]
  BY <1>2 DEF AreConcat
<1>4. \A i \in 1..L : parts[i] = Part(rows, taken, i)
  OBVIOUS
<1> HIDE DEF parts
<1> DEFINE T == {i \in Nat : i <= L => NewSoFar(f[i], rows, taken, i)}
<1>5. 0 \in T
  <2>1. 0 \in 0..L
    OBVIOUS
  <2>2. f[0] = <<>>
    BY <1>3, <2>1
  <2>3. <<>> \in Seq(Chunk) /\ Len(<<>>) = 0
    BY EmptySeq
  <2>4. NewSoFar(f[0], rows, taken, 0)
    BY <2>2, <2>3 DEF NewSoFar, Distinct
  <2> QED
    BY <2>4
<1>6. ASSUME NEW i \in Nat, i \in T PROVE i + 1 \in T
  <2> SUFFICES ASSUME i + 1 <= L PROVE NewSoFar(f[i + 1], rows, taken, i + 1)
    OBVIOUS
  <2>1. i + 1 \in 0..L /\ i + 1 # 0 /\ (i + 1) - 1 = i /\ i + 1 \in 1..L
    OBVIOUS
  <2>2. f[i + 1] = f[i] \o Part(rows, taken, i + 1)
    BY <1>3, <1>4, <2>1
  <2>3. NewSoFar(f[i], rows, taken, i)
    BY <1>6
  <2> QED
    BY <1>1, <2>2, <2>3, PartKeepsNew
<1>7. Nat \subseteq T
  <2> HIDE DEF T
  <2> QED
    BY <1>5, <1>6, NatSetInduction
<1>8. NewSoFar(f[L], rows, taken, L)
  BY <1>7
<1> QED
  BY <1>1, <1>2, <1>8

\* No issue is in the file twice.
LEMMA DropLeavesDistinct ==
  ASSUME NEW rows \in Seq(Issues)
  PROVE  DropDuplicates(rows) \in Seq(Issues) /\ Distinct(DropDuplicates(rows))
<1>1. PICK L \in Nat : L = Len(rows)
  OBVIOUS
<1>2. PICK f : AreKept(f, rows, L) /\ DropDuplicates(rows) = f[L]
  BY <1>1, DropIsKept
<1>3. f = [i \in 0..L |-> IF i = 0 THEN <<>> ELSE Kept(f[i - 1], rows[i])]
  BY <1>2 DEF AreKept
<1> DEFINE T == {i \in Nat : i <= L => f[i] \in Seq(Issues) /\ Distinct(f[i])}
<1>4. 0 \in T
  <2>1. 0 \in 0..L
    OBVIOUS
  <2>2. f[0] = <<>>
    BY <1>3, <2>1
  <2>3. <<>> \in Seq(Issues) /\ Len(<<>>) = 0
    BY EmptySeq
  <2>4. f[0] \in Seq(Issues) /\ Distinct(f[0])
    BY <2>2, <2>3 DEF Distinct
  <2> QED
    BY <2>4
<1>5. ASSUME NEW i \in Nat, i \in T PROVE i + 1 \in T
  <2> SUFFICES ASSUME i + 1 <= L PROVE f[i + 1] \in Seq(Issues) /\ Distinct(f[i + 1])
    OBVIOUS
  <2>1. i + 1 \in 0..L /\ i + 1 # 0 /\ (i + 1) - 1 = i /\ i + 1 \in 1..L
    OBVIOUS
  <2>2. PICK x \in Issues : x = rows[i + 1]
    BY <1>1, <2>1
  <2>3. PICK q \in Seq(Issues) : q = f[i] /\ Distinct(q)
    BY <1>5
  <2>4. f[i + 1] = Kept(q, x)
    BY <1>3, <2>1, <2>2, <2>3
  <2>5. CASE Contains(q, x)
    BY <2>3, <2>4, <2>5 DEF Kept
  <2>6. CASE ~Contains(q, x)
    <3>1. PICK u \in Seq(Issues) : u = Append(q, x)
      BY AppendProperties
    <3>2. PICK n \in Nat : n = Len(q)
      OBVIOUS
    <3>3. Len(u) = n + 1 /\ u[n + 1] = x /\ \A k \in 1..n : u[k] = q[k]
      BY <3>1, <3>2, AppendProperties
    <3>4. \A k \in 1..n : q[k] # x
      BY <2>6, <3>2 DEF Contains
    <3>5. \A k, l \in 1..n : q[k] = q[l] => k = l
      BY <2>3, <3>2 DEF Distinct
    <3>6. ASSUME NEW k \in 1..(n + 1), NEW l \in 1..(n + 1), u[k] = u[l] PROVE k = l
      <4>1. k \in 1..n \/ k = n + 1
        OBVIOUS
      <4>2. l \in 1..n \/ l = n + 1
        OBVIOUS
      <4> QED
        BY <3>3, <3>4, <3>5, <3>6, <4>1, <4>2
    <3>7. f[i + 1] = u
      BY <2>4, <2>6, <3>1 DEF Kept
    <3> QED
      BY <3>3, <3>6, <3>7 DEF Distinct
  <2> QED
    BY <2>5, <2>6
<1>6. Nat \subseteq T
  <2> HIDE DEF T
  <2> QED
    BY <1>4, <1>5, NatSetInduction
<1>7. f[L] \in Seq(Issues) /\ Distinct(f[L])
  BY <1>6
<1> QED
  BY <1>2, <1>7

-----------------------------------------------------------------------------
(* The order of a listing.                                                 *)

\* A set of numbers that is not empty has a least.
LEMMA LeastExists ==
  ASSUME NEW S \in SUBSET Nat, S # {}
  PROVE  \E x \in S : \A y \in S : x <= y
<1>1. IsWellFoundedOn(Less, Nat)
  BY NatLessThanWellFounded DEF OpToRel, Less
<1>2. PICK x \in S : \A y \in S : ~(<<y, x>> \in Less)
  BY <1>1, WFMin
<1>3. ASSUME NEW y \in S PROVE x <= y
  <2>1. ~(y < x)
    BY <1>2 DEF Less
  <2> QED
    BY <2>1
<1> QED
  BY <1>3

\* Without its least member fewer are there, and the same are newer.
LEMMA WithoutLeast ==
  ASSUME NEW S \in SUBSET Nat, IsFiniteSet(S), NEW x \in S, \A y \in S : x <= y
  PROVE  /\ IsFiniteSet(S \ {x}) /\ Cardinality(S \ {x}) = Cardinality(S) - 1
         /\ Newer(S, x) = Cardinality(S) - 1
         /\ \A i \in S \ {x} : Newer(S \ {x}, i) = Newer(S, i)
<1>1. IsFiniteSet(S \ {x}) /\ Cardinality(S \ {x}) = Cardinality(S) - 1
  BY FS_RemoveElement
<1>2. {j \in S : j > x} = S \ {x}
  <2>1. \A j \in S : j \in Nat /\ x \in Nat /\ x <= j
    OBVIOUS
  <2>2. \A j \in S : j > x <=> j # x
    BY <2>1
  <2> QED
    BY <2>2
<1>3. \A i \in S \ {x} : {j \in S \ {x} : j > i} = {j \in S : j > i}
  OBVIOUS
<1> QED
  BY <1>1, <1>2, <1>3 DEF Newer

\* The members of a set have the ranks from 0 on, each once.
LEMMA RanksAreTaken ==
  ASSUME NEW S \in SUBSET Nat, IsFiniteSet(S), NEW n \in 1..Cardinality(S)
  PROVE  \E i \in S : Newer(S, i) = n - 1
<1> DEFINE Good(U) == \A m \in 1..Cardinality(U) : \E i \in U : Newer(U, i) = m - 1
           T == {k \in Nat : \A U \in SUBSET Nat :
                   IsFiniteSet(U) /\ Cardinality(U) = k => Good(U)}
<1>1. 0 \in T
  <2> SUFFICES ASSUME NEW U \in SUBSET Nat, Cardinality(U) = 0 PROVE Good(U)
    OBVIOUS
  <2> QED
    OBVIOUS
<1>2. ASSUME NEW k \in Nat, k \in T PROVE k + 1 \in T
  <2> SUFFICES ASSUME NEW U \in SUBSET Nat, IsFiniteSet(U), Cardinality(U) = k + 1,
                      NEW m \in 1..(k + 1)
               PROVE  \E i \in U : Newer(U, i) = m - 1
    OBVIOUS
  <2>1. U # {}
    BY FS_EmptySet
  <2>2. PICK x \in U : \A y \in U : x <= y
    BY <2>1, LeastExists
  <2>3. /\ IsFiniteSet(U \ {x}) /\ Cardinality(U \ {x}) = k
        /\ Newer(U, x) = k
        /\ \A i \in U \ {x} : Newer(U \ {x}, i) = Newer(U, i)
    BY <2>2, WithoutLeast
  <2>4. CASE m = k + 1
    BY <2>3, <2>4
  <2>5. CASE m \in 1..k
    <3>1. Good(U \ {x})
      BY <1>2, <2>3
    <3>2. PICK i \in U \ {x} : Newer(U \ {x}, i) = m - 1
      BY <2>3, <2>5, <3>1
    <3> QED
      BY <2>3, <3>2
  <2>6. m \in 1..k \/ m = k + 1
    OBVIOUS
  <2> QED
    BY <2>4, <2>5, <2>6
<1>3. Nat \subseteq T
  <2> HIDE DEF T
  <2> QED
    BY <1>1, <1>2, NatSetInduction
<1>4. Cardinality(S) \in T
  BY <1>3, FS_CardinalityType
<1> QED
  BY <1>4

\* The newer of two has the smaller rank; a rank is below the size.
LEMMA NewerGrows ==
  ASSUME NEW S \in SUBSET Nat, IsFiniteSet(S), NEW i \in Nat
  PROVE  /\ Newer(S, i) \in Nat
         /\ i \in S => Newer(S, i) < Cardinality(S)
         /\ \A j \in S : i < j => Newer(S, j) < Newer(S, i)
<1>1. /\ IsFiniteSet({k \in S : k > i}) /\ Cardinality({k \in S : k > i}) \in Nat
      /\ Cardinality({k \in S : k > i}) <= Cardinality(S)
      /\ Cardinality({k \in S : k > i}) = Cardinality(S) => {k \in S : k > i} = S
  <2>1. {k \in S : k > i} \subseteq S
    OBVIOUS
  <2> QED
    BY <2>1, FS_Subset, FS_CardinalityType
<1>2. i \in S => Newer(S, i) < Cardinality(S)
  <2>1. i \in S => {k \in S : k > i} # S
    OBVIOUS
  <2> QED
    BY <1>1, <2>1, FS_CardinalityType DEF Newer
<1>3. ASSUME NEW j \in S, i < j PROVE Newer(S, j) < Newer(S, i)
  <2>1. {k \in S : k > j} \subseteq {k \in S : k > i}
    <3>1. \A k \in S : k \in Nat /\ j \in Nat
      OBVIOUS
    <3>2. \A k \in S : k > j => k > i
      BY <1>3, <3>1
    <3> QED
      BY <3>2
  <2>2. j \in {k \in S : k > i} /\ j \notin {k \in S : k > j}
    BY <1>3
  <2>3. {k \in S : k > j} # {k \in S : k > i}
    BY <2>2
  <2>4. /\ IsFiniteSet({k \in S : k > j})
        /\ Cardinality({k \in S : k > j}) <= Cardinality({k \in S : k > i})
        /\ Cardinality({k \in S : k > j}) # Cardinality({k \in S : k > i})
    <3>1. {k \in S : k > j} \in SUBSET {k \in S : k > i}
      BY <2>1
    <3> QED
      BY <1>1, <2>3, <3>1, FS_Subset
  <2>5. Cardinality({k \in S : k > j}) \in Nat
    BY <2>4, FS_CardinalityType
  <2> QED
    BY <1>1, <2>4, <2>5 DEF Newer
<1> QED
  BY <1>1, <1>2, <1>3 DEF Newer

\* A set in the order of its ranks: all its members, each at its rank.
LEMMA NewestFirstIsTheSet ==
  ASSUME NEW S \in SUBSET Nat, IsFiniteSet(S)
  PROVE  /\ NewestFirst(S) \in Seq(S)
         /\ Len(NewestFirst(S)) = Cardinality(S)
         /\ \A n \in 1..Cardinality(S) : Newer(S, NewestFirst(S)[n]) = n - 1
         /\ \A i \in S : \E n \in 1..Cardinality(S) : NewestFirst(S)[n] = i
<1>1. PICK L \in Nat : L = Cardinality(S)
  BY FS_CardinalityType
<1>2. PICK f : f = NewestFirst(S)
  OBVIOUS
<1>3. f = [n \in 1..L |-> CHOOSE i \in S : Newer(S, i) = n - 1]
  BY <1>1, <1>2 DEF NewestFirst
<1>4. ASSUME NEW n \in 1..L PROVE f[n] \in S /\ Newer(S, f[n]) = n - 1
  <2>1. \E i \in S : Newer(S, i) = n - 1
    BY <1>1, RanksAreTaken
  <2>2. f[n] = CHOOSE i \in S : Newer(S, i) = n - 1
    BY <1>3
  <2> QED
    BY <2>1, <2>2
<1>5. f \in [1..L -> S]
  BY <1>3, <1>4
<1>6. f \in Seq(S) /\ Len(f) = L
  BY <1>5, SeqDef
<1>7. ASSUME NEW i \in S PROVE \E n \in 1..L : f[n] = i
  <2>1. Newer(S, i) \in Nat /\ Newer(S, i) < L
    BY <1>1, NewerGrows
  <2>2. PICK n \in 1..L : n = Newer(S, i) + 1
    BY <2>1
  <2>3. PICK j \in S : j = f[n] /\ Newer(S, j) = Newer(S, i)
    <3>1. f[n] \in S /\ Newer(S, f[n]) = n - 1
      BY <1>4
    <3>2. n - 1 = Newer(S, i)
      BY <2>1, <2>2
    <3> QED
      BY <3>1, <3>2
  <2>4. i \in Nat /\ j \in Nat
    OBVIOUS
  <2>5. ~(j < i)
    <3>1. j < i => Newer(S, i) < Newer(S, j)
      BY <2>4, NewerGrows
    <3> QED
      BY <2>1, <2>3, <3>1
  <2>6. ~(i < j)
    <3>1. i < j => Newer(S, j) < Newer(S, i)
      BY <2>4, NewerGrows
    <3> QED
      BY <2>1, <2>3, <3>1
  <2>7. j = i
    BY <2>4, <2>5, <2>6
  <2> QED
    BY <2>3, <2>7
<1> QED
  BY <1>1, <1>2, <1>4, <1>6, <1>7

-----------------------------------------------------------------------------
(* The types of the fetcher.                                               *)

\* Where the fetcher is, and what it has room for.
FetchTypes ==
  /\ FetchTypeOK
  /\ queue \in Seq(Repository[source])
  /\ fpc = "comments" => source = "core"
  /\ source = "core" => got["docs"] = <<>>
  /\ fpc # "write" => Len(got[source]) < Limit[source]

\* The repositories are sets of issues, with limits of one at least.
LEMMA TwoRepositories ==
  /\ Repository["core"] = CoreIssues /\ Repository["docs"] = DocsIssues
  /\ Limit["core"] = MaxCore /\ Limit["docs"] = MaxDocs
  /\ \A s \in {"core", "docs"} :
       Repository[s] \in SUBSET Issues /\ Repository[s] \in SUBSET Nat /\ Limit[s] \in Nat \ {0}
BY FetchAssumption DEF Repository, Limit, Issues

\* A page is a finite set of numbers, and in sequence once it is filtered.
LEMMA FoundIsTyped ==
  ASSUME closed \subseteq Issues, NEW s \in {"core", "docs"}, NEW n
  PROVE  Found(s, n) \in Seq(Repository[s])
<1> DEFINE S == {i \in Page(s, n) : Eligible(s, i)}
<1>1. Page(s, n) \subseteq closed \cap Repository[s]
  BY DEF Page, Listed
<1>2. S \subseteq Page(s, n)
  OBVIOUS
<1>3. S \in SUBSET Repository[s] /\ S \in SUBSET Nat /\ S \in SUBSET Issues
  BY <1>1, <1>2, TwoRepositories
<1>4. Found(s, n) = NewestFirst(S)
  BY DEF Found
<1> HIDE DEF S
<1>5. IsFiniteSet(S)
  BY <1>3, FetchAssumption, FS_Subset
<1>6. NewestFirst(S) \in Seq(S)
  BY <1>3, <1>5, NewestFirstIsTheSet
<1> QED
  BY <1>3, <1>4, <1>6, SeqMonotonic

\* The least of two numbers is one of them.
LEMMA MinOfTwo ==
  ASSUME NEW a \in Int, NEW b \in Int
  PROVE  Min({a, b}) = IF a <= b THEN a ELSE b
<1> DEFINE m == IF a <= b THEN a ELSE b
<1>1. m \in {a, b} /\ \A y \in {a, b} : m <= y
  OBVIOUS
<1>2. \A x \in {a, b} : (\A y \in {a, b} : x <= y) => x = m
  OBVIOUS
<1> QED
  BY <1>1, <1>2 DEF Min

\* A run of the script ends with the fetcher at rest.
LEMMA EndFetchTypes ==
  ASSUME FetchTypes, EndFetch, closed' \subseteq Issues,
         moves' \in 0..MaxMoves, fetches' \in 0..MaxFetches, file' \in Seq(Issues)
  PROVE  FetchTypes'
<1>1. got'["core"] = <<>> /\ got'["docs"] = <<>> /\ DOMAIN got' = {"core", "docs"}
  BY DEF EndFetch
<1>2. /\ fpc' = "idle" /\ source' = "core" /\ page' = 1 /\ attempt' = 1
      /\ queue' = <<>> /\ more' = FALSE /\ torn' = FALSE /\ calm' = TRUE
  BY DEF EndFetch
<1>3. \A S : <<>> \in Seq(S) /\ Len(<<>>) = 0
  BY EmptySeq
<1>4. 1 \in 1..MaxRetries /\ 1 \in Nat \ {0}
  BY FetchAssumption
<1>5. FetchTypeOK'
  <2>1. \A s \in {"core", "docs"} : 0 <= Limit[s]
    BY TwoRepositories
  <2>2. \A s \in {"core", "docs"} : got'[s] = <<>>
    BY <1>1
  <2>3. \A s \in {"core", "docs"} : got'[s] \in Seq(Repository[s]) /\ Len(got'[s]) <= Limit[s]
    BY <1>3, <2>1, <2>2
  <2> QED
    BY <1>1, <1>2, <1>3, <1>4, <2>3 DEF FetchTypeOK
<1>6. Len(got'[source']) < Limit[source']
  BY <1>1, <1>2, <1>3, TwoRepositories
<1> QED
  BY <1>1, <1>2, <1>3, <1>5, <1>6 DEF FetchTypes

\* The loop over a repository ends.
LEMMA EndSourceTypes ==
  ASSUME FetchTypes, EndSource, UNCHANGED <<closed, moves, fetches, file, torn>>, calm' \in BOOLEAN,
         NEW rows \in Seq(Repository[source]), Len(rows) <= Limit[source],
         DOMAIN got' = DOMAIN got, got'[source] = rows,
         \A t \in {"core", "docs"} : t # source => got'[t] = got[t]
  PROVE  FetchTypes'
<1>1. PICK s \in {"core", "docs"} : s = source
  BY DEF FetchTypes, FetchTypeOK
<1>2. DOMAIN got = {"core", "docs"}
  BY DEF FetchTypes, FetchTypeOK
<1>3. DOMAIN got' = {"core", "docs"} /\ got'[s] = rows /\ \A t \in {"core", "docs"} : t # s => got'[t] = got[t]
  BY <1>1, <1>2
<1>4. \A t \in {"core", "docs"} : got'[t] \in Seq(Repository[t]) /\ Len(got'[t]) <= Limit[t]
  BY <1>1, <1>3 DEF FetchTypes, FetchTypeOK
<1>5. /\ page' = 1 /\ attempt' = 1 /\ queue' = <<>> /\ more' = FALSE
      /\ fpc' \in {"list", "write"} /\ source' = "docs"
      /\ fpc' = "list" => source = "core"
  BY <1>1 DEF EndSource
<1>6. \A S : <<>> \in Seq(S) /\ Len(<<>>) = 0
  BY EmptySeq
<1>7. 1 \in 1..MaxRetries /\ 1 \in Nat \ {0}
  BY FetchAssumption
<1>8. FetchTypeOK'
  BY <1>3, <1>4, <1>5, <1>6, <1>7 DEF FetchTypeOK, FetchTypes
<1>9. fpc' = "list" => got'["docs"] = <<>>
  BY <1>1, <1>3, <1>5 DEF FetchTypes
<1>10. fpc' = "list" => Len(got'[source']) < Limit[source']
  BY <1>5, <1>6, <1>9, TwoRepositories
<1> QED
  BY <1>5, <1>6, <1>8, <1>10 DEF FetchTypes

\* The loops go on.
LEMMA ContinueTypes ==
  ASSUME FetchTypes, UNCHANGED <<closed, moves, fetches, file, torn>>, calm' \in BOOLEAN,
         NEW rows \in Seq(Repository[source]), Len(rows) <= Limit[source],
         NEW left \in Seq(Repository[source]), left # <<>> => source = "core",
         NEW next \in BOOLEAN, Continue(rows, left, next)
  PROVE  FetchTypes'
<1>1. got' = [got EXCEPT ![source] = rows]
  BY DEF Continue
<1>a. DOMAIN got' = DOMAIN got /\ got'[source] = rows /\ \A t \in {"core", "docs"} : t # source => got'[t] = got[t]
  BY <1>1 DEF FetchTypes, FetchTypeOK
<1>2. CASE EndSource
  BY <1>2, <1>a, EndSourceTypes
<1>3. CASE ~EndSource
  <2>1. PICK s \in {"core", "docs"} : s = source
    BY DEF FetchTypes, FetchTypeOK
  <2>2. DOMAIN got = {"core", "docs"}
    BY DEF FetchTypes, FetchTypeOK
  <2>3. DOMAIN got' = {"core", "docs"} /\ got'[s] = rows /\ \A t \in {"core", "docs"} : t # s => got'[t] = got[t]
    BY <1>1, <2>1, <2>2
  <2>4. \A t \in {"core", "docs"} : got'[t] \in Seq(Repository[t]) /\ Len(got'[t]) <= Limit[t]
    BY <2>1, <2>3 DEF FetchTypes, FetchTypeOK
  <2>5. ~(Len(rows) >= Limit[source])
    BY <1>3 DEF Continue
  <2>6. /\ attempt' = 1 /\ source' = source
        /\ \/ fpc' = "comments" /\ queue' = left /\ left # <<>> /\ more' = next /\ page' = page
           \/ fpc' = "list" /\ queue' = <<>> /\ more' = FALSE /\ page' = page + 1
    BY <1>3 DEF Continue
  <2>7. \A S : <<>> \in Seq(S) /\ Len(<<>>) = 0
    BY EmptySeq
  <2>8. 1 \in 1..MaxRetries
    BY FetchAssumption
  <2>9. Len(rows) < Limit[source]
    <3>1. Len(rows) \in Nat
      OBVIOUS
    <3> QED
      BY <2>1, <2>5, <3>1, TwoRepositories
  <2>10. page' \in Nat \ {0}
    BY <2>6 DEF FetchTypes, FetchTypeOK
  <2>11. queue' \in Seq(Repository[source]) /\ queue' \in Seq(Issues)
    <3>1. queue' \in Seq(Repository[source])
      BY <2>6, <2>7
    <3> QED
      BY <2>1, <3>1, TwoRepositories, SeqMonotonic
  <2>12. FetchTypeOK'
    BY <2>1, <2>3, <2>4, <2>6, <2>8, <2>10, <2>11 DEF FetchTypeOK, FetchTypes
  <2>13. source = "core" => got'["docs"] = <<>>
    BY <2>1, <2>3 DEF FetchTypes
  <2>14. fpc' = "comments" => source = "core"
    BY <2>6
  <2> QED
    BY <2>1, <2>3, <2>6, <2>9, <2>11, <2>12, <2>13, <2>14 DEF FetchTypes
<1> QED
  BY <1>2, <1>3

\* The script starts with nothing collected.
LEMMA FetchInitTypes == FetchInit => FetchTypes
<1> SUFFICES ASSUME FetchInit PROVE FetchTypes
  OBVIOUS
<1>1. \A S : <<>> \in Seq(S) /\ Len(<<>>) = 0
  BY EmptySeq
<1>2. got["core"] = <<>> /\ got["docs"] = <<>> /\ DOMAIN got = {"core", "docs"}
  BY DEF FetchInit
<1>3. 1 \in 1..MaxRetries /\ 1 \in Nat \ {0} /\ 0 \in 0..MaxMoves /\ 0 \in 0..MaxFetches
  BY FetchAssumption
<1>4. \A s \in {"core", "docs"} : 0 <= Limit[s]
  BY TwoRepositories
<1>5. \A s \in {"core", "docs"} : got[s] \in Seq(Repository[s]) /\ Len(got[s]) <= Limit[s]
  BY <1>1, <1>2, <1>4
<1>6. closed \subseteq Issues
  BY FetchAssumption DEF FetchInit
<1>7. FetchTypeOK
  BY <1>1, <1>2, <1>3, <1>5, <1>6 DEF FetchInit, FetchTypeOK
<1>8. source = "core" /\ fpc = "idle" /\ queue = <<>>
  BY DEF FetchInit
<1>9. Len(got[source]) < Limit[source]
  BY <1>1, <1>2, <1>8, TwoRepositories
<1> QED
  BY <1>1, <1>2, <1>7, <1>8, <1>9 DEF FetchTypes

\* As many docs issues of a page are taken as there is room for.
LEMMA RoomIsKept ==
  ASSUME NEW m \in Nat, NEW n \in Nat, NEW limit \in Nat, m <= limit
  PROVE  \E room \in 0..n : /\ room = Min({limit - m, n})
                            /\ m + room <= limit
                            /\ room = n \/ m + room = limit
<1>1. Min({limit - m, n}) = IF limit - m <= n THEN limit - m ELSE n
  BY MinOfTwo
<1> QED
  BY <1>1

\* The first of a sequence after another.
LEMMA FirstOnesAppended ==
  ASSUME NEW S, NEW s \in Seq(S), NEW t \in Seq(S), NEW k \in 0..Len(t)
  PROVE  /\ SubSeq(t, 1, k) \in Seq(S) /\ Len(SubSeq(t, 1, k)) = k
         /\ \A i \in 1..k : SubSeq(t, 1, k)[i] = t[i]
         /\ s \o SubSeq(t, 1, k) \in Seq(S)
         /\ Len(s \o SubSeq(t, 1, k)) = Len(s) + k
<1>1. PICK n \in Nat : n = Len(t)
  OBVIOUS
<1>2. k \in 0..n /\ 1 \in Int /\ k \in Int
  BY <1>1
<1>3. \A i \in 1..k : t[i] \in S
  BY <1>1, <1>2
<1>4. PICK u : u = SubSeq(t, 1, k)
  OBVIOUS
<1>5. /\ u \in Seq(S) /\ Len(u) = IF 1 <= k THEN k - 1 + 1 ELSE 0
      /\ \A i \in 1..k-1+1 : u[i] = t[1+i-1]
  BY <1>2, <1>3, <1>4, SubSeqProperties
<1>6. Len(u) = k /\ \A i \in 1..k : u[i] = t[i]
  <2>1. k - 1 + 1 = k /\ \A i \in 1..k : 1 + i - 1 = i
    BY <1>2
  <2> QED
    BY <1>2, <1>5, <2>1
<1>7. s \o u \in Seq(S) /\ Len(s \o u) = Len(s) + k
  BY <1>5, <1>6, ConcatProperties
<1> QED
  BY <1>4, <1>5, <1>6, <1>7

\* A page has a next or not.
LEMMA HasNextOrNot ==
  ASSUME closed \subseteq Issues, NEW s \in {"core", "docs"}, NEW n \in Nat
  PROVE  HasNext(s, n) \in BOOLEAN
<1>1. IsFiniteSet(Listed(s))
  <2>1. Listed(s) \in SUBSET Issues
    BY DEF Listed
  <2> QED
    BY <2>1, FetchAssumption, FS_Subset
<1>2. PICK m \in Nat : m = Cardinality(Listed(s))
  BY <1>1, FS_CardinalityType
<1>3. PICK k \in Nat : k = n * PerPage
  <2>1. PerPage \in Nat
    BY FetchAssumption
  <2> QED
    BY <2>1
<1>4. (k < m) \in BOOLEAN
  OBVIOUS
<1> QED
  BY <1>2, <1>3, <1>4 DEF HasNext

\* Each step keeps the types of the fetcher.
LEMMA FetchStepTypes ==
  ASSUME FetchTypes, FetchNext
  PROVE  FetchTypes'
<1>1. CASE StartFetch
  <2>1. /\ fpc = "idle" /\ fpc' = "list" /\ fetches' = fetches + 1 /\ fetches < MaxFetches
        /\ UNCHANGED <<closed, moves, source, page, attempt, queue, more, got, file, torn, calm>>
    BY <1>1 DEF StartFetch, github
  <2>2. fetches' \in 0..MaxFetches
    BY <2>1, FetchAssumption DEF FetchTypes, FetchTypeOK
  <2>3. FetchTypeOK'
    BY <2>1, <2>2 DEF FetchTypes, FetchTypeOK
  <2> QED
    BY <2>1, <2>3 DEF FetchTypes
<1>2. CASE ListAnswers
  <2>1. PICK s \in {"core", "docs"} : s = source
    BY DEF FetchTypes, FetchTypeOK
  <2>2. PICK found \in Seq(Repository[s]) : found = Found(s, page)
    BY FoundIsTyped DEF FetchTypes, FetchTypeOK
  <2>3. PICK next \in BOOLEAN : next = HasNext(s, page)
    BY HasNextOrNot DEF FetchTypes, FetchTypeOK
  <2>4. UNCHANGED <<closed, moves, fetches, file, torn>> /\ calm' \in BOOLEAN
    BY <1>2 DEF ListAnswers, github, FetchTypes, FetchTypeOK
  <2>5. fpc = "list"
    BY <1>2 DEF ListAnswers
  <2>6. CASE s = "core"
    <3>1. Continue(got.core, found, next)
      BY <1>2, <2>1, <2>2, <2>3, <2>6 DEF ListAnswers
    <3>2. got.core \in Seq(Repository[source]) /\ Len(got.core) <= Limit[source]
      BY <2>1, <2>6 DEF FetchTypes, FetchTypeOK
    <3> QED
      BY <2>1, <2>4, <2>6, <3>1, <3>2, ContinueTypes
  <2>7. CASE s = "docs"
    <3>1. PICK old \in Seq(Repository[s]) : old = got.docs /\ Len(old) <= Limit[s]
      BY <2>7 DEF FetchTypes, FetchTypeOK
    <3>2. PICK l \in Nat : l = Limit[s]
      BY TwoRepositories
    <3>3. PICK m \in Nat : m = Len(old) /\ m <= l
      BY <3>1, <3>2
    <3>a. PICK n \in Nat : n = Len(found)
      OBVIOUS
    <3>b. PICK room \in 0..n : room = Min({l - m, n}) /\ m + room <= l
      BY <3>3, RoomIsKept
    <3>c. PICK rows : rows = old \o SubSeq(found, 1, room)
      OBVIOUS
    <3>4. rows \in Seq(Repository[s]) /\ Len(rows) <= Limit[s]
      <4>1. rows \in Seq(Repository[s]) /\ Len(rows) = m + room
        BY <3>3, <3>a, <3>c, FirstOnesAppended
      <4> QED
        BY <3>2, <3>b, <4>1
    <3>5. Continue(rows, <<>>, next)
      BY <1>2, <2>1, <2>2, <2>3, <2>7, <3>1, <3>2, <3>3, <3>a, <3>b, <3>c DEF ListAnswers
    <3>6. <<>> \in Seq(Repository[source])
      BY EmptySeq
    <3> QED
      BY <2>1, <2>4, <3>4, <3>5, <3>6, ContinueTypes
  <2> QED
    BY <2>6, <2>7
<1>3. CASE CommentsAnswer \/ (fpc = "comments" /\ GiveUp)
  <2>1. /\ fpc = "comments" /\ source = "core"
        /\ UNCHANGED <<closed, moves, fetches, file, torn>> /\ calm' \in BOOLEAN
    BY <1>3 DEF CommentsAnswer, GiveUp, github, FetchTypes, FetchTypeOK
  <2>2. PICK old \in Seq(Repository[source]) : old = got.core /\ Len(old) < Limit[source]
    BY <2>1 DEF FetchTypes, FetchTypeOK
  <2>3. PICK i \in Repository[source] : i = Head(queue)
    BY <2>1, HeadTailProperties DEF FetchTypes, FetchTypeOK
  <2>4. PICK left \in Seq(Repository[source]) : left = Tail(queue)
    BY <2>1, HeadTailProperties DEF FetchTypes, FetchTypeOK
  <2>5. PICK rows : rows \in {old, Append(old, i)} /\ Continue(rows, left, more)
    BY <1>3, <2>1, <2>2, <2>3, <2>4 DEF CommentsAnswer, GiveUp
  <2>6. rows \in Seq(Repository[source]) /\ Len(rows) <= Limit[source]
    <3>1. Append(old, i) \in Seq(Repository[source]) /\ Len(Append(old, i)) = Len(old) + 1
      BY AppendProperties
    <3>2. PICK l \in Nat : l = Limit[source]
      BY <2>1, TwoRepositories
    <3>3. PICK m \in Nat : m = Len(old)
      OBVIOUS
    <3>4. m < l /\ Len(Append(old, i)) = m + 1 /\ m + 1 <= l
      BY <2>2, <3>1, <3>2, <3>3
    <3>5. old \in Seq(Repository[source]) /\ Len(old) <= Limit[source]
      BY <3>2, <3>3, <3>4
    <3>6. Append(old, i) \in Seq(Repository[source]) /\ Len(Append(old, i)) <= Limit[source]
      BY <3>1, <3>2, <3>4
    <3>7. rows = old \/ rows = Append(old, i)
      BY <2>5
    <3> QED
      BY <3>5, <3>6, <3>7
  <2>7. more \in BOOLEAN
    BY DEF FetchTypes, FetchTypeOK
  <2> QED
    BY <2>1, <2>5, <2>6, <2>7, ContinueTypes
<1>4. CASE Retry
  <2>1. /\ attempt < MaxRetries /\ attempt' = attempt + 1
        /\ UNCHANGED <<closed, moves, fetches, fpc, source, page, queue, more, got, file, torn, calm>>
    BY <1>4 DEF Retry, github
  <2>2. attempt' \in 1..MaxRetries
    BY <2>1, FetchAssumption DEF FetchTypes, FetchTypeOK
  <2>3. FetchTypeOK'
    BY <2>1, <2>2 DEF FetchTypes, FetchTypeOK
  <2> QED
    BY <2>1, <2>3 DEF FetchTypes
<1>5. CASE fpc = "list" /\ GiveUp
  <2>1. EndSource /\ UNCHANGED <<closed, moves, fetches, file, torn, got>> /\ calm' \in BOOLEAN
    BY <1>5 DEF GiveUp, github
  <2>2. PICK s \in {"core", "docs"} : s = source
    BY DEF FetchTypes, FetchTypeOK
  <2>3. got[source] \in Seq(Repository[source]) /\ Len(got[source]) <= Limit[source]
    BY <2>2 DEF FetchTypes, FetchTypeOK
  <2> QED
    BY <2>1, <2>3, EndSourceTypes
<1>6. CASE OpenFile
  <2>1. CASE EndFetch
    BY <1>6, <2>1, EndFetchTypes DEF OpenFile, github, FetchTypes, FetchTypeOK
  <2>2. CASE UNCHANGED <<closed, moves, fetches, fpc, source, page, attempt, queue, more, got, file, calm>> /\ torn' = TRUE
    <3>1. FetchTypeOK'
      BY <2>2 DEF FetchTypes, FetchTypeOK
    <3> QED
      BY <2>2, <3>1 DEF FetchTypes
  <2> QED
    BY <1>6, <2>1, <2>2 DEF OpenFile, github
<1>7. CASE WriteFile
  <2>1. got["core"] \in Seq(Issues) /\ got["docs"] \in Seq(Issues)
    BY TwoRepositories, SeqMonotonic DEF FetchTypes, FetchTypeOK
  <2>2. Rows \in Seq(Issues)
    BY <2>1, ConcatProperties DEF Rows
  <2>3. file' \in Seq(Issues)
    BY <1>7, <2>2, DropLeavesDistinct DEF WriteFile
  <2> QED
    BY <1>7, <2>3, EndFetchTypes DEF WriteFile, github, FetchTypes, FetchTypeOK
<1>8. CASE FetchStops
  <2>1. file' \in Seq(Issues)
    BY <1>8, EmptySeq DEF FetchStops, FetchTypes, FetchTypeOK
  <2> QED
    BY <1>8, <2>1, EndFetchTypes DEF FetchStops, github, FetchTypes, FetchTypeOK
<1>9. CASE Move
  <2>1. /\ moves < MaxMoves /\ moves' = moves + 1 /\ calm' \in BOOLEAN
        /\ \E i \in Issues : closed' = IF i \in closed THEN closed \ {i} ELSE closed \cup {i}
        /\ UNCHANGED <<fetches, fpc, source, page, attempt, queue, more, got, file, torn>>
    BY <1>9 DEF Move, script
  <2>2. moves' \in 0..MaxMoves
    BY <2>1, FetchAssumption DEF FetchTypes, FetchTypeOK
  <2>3. closed' \subseteq Issues
    BY <2>1 DEF FetchTypes, FetchTypeOK
  <2>4. FetchTypeOK'
    BY <2>1, <2>2, <2>3 DEF FetchTypes, FetchTypeOK
  <2> QED
    BY <2>1, <2>4 DEF FetchTypes
<1>10. GiveUp => fpc \in {"list", "comments"}
  BY DEF GiveUp
<1> QED
  BY <1>1, <1>2, <1>3, <1>4, <1>5, <1>6, <1>7, <1>8, <1>9, <1>10 DEF FetchNext, FetchStep

-----------------------------------------------------------------------------
(* The invariant of the indexer.                                           *)

Doc == [run : Runs, at : Nat, chunk : Chunk]

IndexTypes ==
  /\ ipc \in [Runs -> {"idle", "done", "failed"} \cup Working]
  /\ corpus \in [Runs -> Seq(Issues)]
  /\ chunks \in [Runs -> Seq(Chunk)]
  /\ embedded \in [Runs -> Nat]
  /\ documents \subseteq Doc
  /\ before \in [Runs -> SUBSET Runs]
  /\ \A x \in Runs : /\ embedded[x] <= Len(chunks[x])
                     /\ ipc[x] = "embed" => embedded[x] < Len(chunks[x])
                     /\ ipc[x] \in {"idle", "check"} => embedded[x] = 0

\* With a chunk of an issue, all chunks of it.
Full(C) == \A c \in C : c \in Range(Chunks[c.issue]) /\ Range(Chunks[c.issue]) \subseteq C

Made(x) == Range(chunks[x])
Table(x) == {d.chunk : d \in Inserted(x)}

RowsAreDistinct == Distinct(file) /\ \A x \in Runs : Distinct(corpus[x])

RunsInsertOnce == \A x \in Runs :
  /\ ipc[x] \in Working \cup {"idle"} => Inserted(x) = {}
  /\ before[x] \subseteq {d.run : d \in documents}

ChunksAreFull == \A x \in Runs : Full(Table(x)) /\ Full(Made(x)) /\ Distinct(chunks[x])

RowsAreCovered == \A x \in Runs : \A n \in 1..Len(corpus[x]) :
  /\ ipc[x] \in {"embed", "commit"} =>
       corpus[x][n] \in Indexed \/ Range(Chunks[corpus[x][n]]) \subseteq Made(x)
  /\ ipc[x] = "done" => corpus[x][n] \in Indexed

OncePerRun == \A d, e \in documents : d.run = e.run /\ d.chunk = e.chunk => d = e

LookedFirst == \A x \in Runs : \A d \in documents : d.run \in before[x] =>
  \A c \in Made(x) \cup Table(x) : c.issue # d.chunk.issue

IndexInv ==
  /\ FetchTypes
  /\ IndexTypes
  /\ RowsAreDistinct
  /\ RunsInsertOnce
  /\ ChunksAreFull
  /\ RowsAreCovered
  /\ OncePerRun
  /\ LookedFirst

\* What chunking the rows gives.
LEMMA NewChunksAreFull ==
  ASSUME NEW rows \in Seq(Issues), Distinct(rows), NEW taken
  PROVE  /\ NewChunks(rows, taken) \in Seq(Chunk)
         /\ Distinct(NewChunks(rows, taken))
         /\ Full(Range(NewChunks(rows, taken)))
         /\ \A c \in Range(NewChunks(rows, taken)) : c.issue \notin taken
         /\ \A m \in 1..Len(rows) : rows[m] \notin taken =>
              /\ Range(Chunks[rows[m]]) \subseteq Range(NewChunks(rows, taken))
              /\ NewChunks(rows, taken) # <<>>
<1>1. PICK L \in Nat : L = Len(rows)
  OBVIOUS
<1>2. NewSoFar(NewChunks(rows, taken), rows, taken, L)
  BY <1>1, NewChunksAreNew
<1>3. PICK q \in Seq(Chunk) : q = NewChunks(rows, taken)
  BY <1>2 DEF NewSoFar
<1>4. PICK K \in Nat : K = Len(q)
  OBVIOUS
<1>5. /\ Distinct(q)
      /\ \A k \in 1..K : \E m \in 1..L : \E j \in 1..Len(Chunks[rows[m]]) :
           rows[m] \notin taken /\ q[k].issue = rows[m] /\ q[k] = Chunks[rows[m]][j]
      /\ \A m \in 1..L : rows[m] \notin taken =>
           \A j \in 1..Len(Chunks[rows[m]]) : \E k \in 1..K : q[k] = Chunks[rows[m]][j]
  BY <1>2, <1>3, <1>4 DEF NewSoFar
<1>6. Range(q) = {q[k] : k \in 1..K}
  BY <1>3, <1>4 DEF Range
<1>7. \A i \in Issues : /\ Len(Chunks[i]) \in Nat /\ Len(Chunks[i]) >= 1
                        /\ Range(Chunks[i]) = {Chunks[i][j] : j \in 1..Len(Chunks[i])}
  <2> SUFFICES ASSUME NEW i \in Issues
               PROVE  /\ Len(Chunks[i]) \in Nat /\ Len(Chunks[i]) >= 1
                      /\ Range(Chunks[i]) = {Chunks[i][j] : j \in 1..Len(Chunks[i])}
    OBVIOUS
  <2>1. PICK s \in Seq(Chunk) : s = Chunks[i] /\ Len(s) >= 1
    BY ChunksOfIssue
  <2>2. Len(s) \in Nat /\ DOMAIN s = 1..Len(s)
    OBVIOUS
  <2> QED
    BY <2>1, <2>2 DEF Range
<1>8. \A m \in 1..L : rows[m] \in Issues
  BY <1>1
<1>9. ASSUME NEW m \in 1..L, rows[m] \notin taken
      PROVE  Range(Chunks[rows[m]]) \subseteq Range(q) /\ q # <<>>
  <2>1. PICK i \in Issues : i = rows[m]
    BY <1>8
  <2>2. \A j \in 1..Len(Chunks[i]) : Chunks[i][j] \in Range(q)
    <3>1. \A j \in 1..Len(Chunks[i]) : \E k \in 1..K : q[k] = Chunks[i][j]
      BY <1>5, <1>9, <2>1
    <3> QED
      BY <1>6, <3>1
  <2>3. ASSUME NEW c \in Range(Chunks[i]) PROVE c \in Range(q)
    <3>1. PICK j \in 1..Len(Chunks[i]) : c = Chunks[i][j]
      BY <1>7, <2>3
    <3> QED
      BY <2>2, <3>1
  <2>4. 1 \in 1..Len(Chunks[i])
    BY <1>7
  <2>5. PICK k \in 1..K : q[k] = Chunks[i][1]
    BY <1>5, <1>9, <2>1, <2>4
  <2>6. q # <<>>
    BY <1>4, <2>5
  <2> QED
    BY <2>1, <2>3, <2>6
<1>10. ASSUME NEW c \in Range(q)
       PROVE  c.issue \notin taken /\ c \in Range(Chunks[c.issue])
              /\ Range(Chunks[c.issue]) \subseteq Range(q)
  <2>1. PICK k \in 1..K : c = q[k]
    BY <1>6
  <2>2. PICK m \in 1..L : \E j \in 1..Len(Chunks[rows[m]]) :
           rows[m] \notin taken /\ q[k].issue = rows[m] /\ q[k] = Chunks[rows[m]][j]
    BY <1>5
  <2>3. PICK i \in Issues : i = rows[m]
    BY <1>8
  <2>4. PICK j \in 1..Len(Chunks[i]) : i \notin taken /\ c.issue = i /\ c = Chunks[i][j]
    BY <2>1, <2>2, <2>3
  <2>5. c \in Range(Chunks[i])
    BY <1>7, <2>4
  <2> QED
    BY <1>9, <2>3, <2>4, <2>5
<1>11. Full(Range(q))
  BY <1>10 DEF Full
<1> QED
  BY <1>1, <1>3, <1>5, <1>9, <1>10, <1>11

\* Before the first step the table is empty and nobody has read the file.
LEMMA InitIndex == Init => IndexInv
<1> SUFFICES ASSUME Init PROVE IndexInv
  OBVIOUS
<1>1. FetchTypes
  BY FetchInitTypes DEF Init
<1>2. \A S : <<>> \in Seq(S) /\ Len(<<>>) = 0
  BY EmptySeq
<1>3. \A x \in Runs : ipc[x] = "idle" /\ corpus[x] = <<>> /\ chunks[x] = <<>> /\ embedded[x] = 0 /\ before[x] = {}
  BY DEF Init
<1>4. IndexTypes
  <2>1. /\ corpus \in [Runs -> Seq(Issues)] /\ chunks \in [Runs -> Seq(Chunk)]
        /\ embedded \in [Runs -> Nat] /\ before \in [Runs -> SUBSET Runs]
        /\ ipc \in [Runs -> {"idle", "done", "failed"} \cup Working]
        /\ documents \subseteq Doc
    BY <1>2 DEF Init
  <2> QED
    BY <1>2, <1>3, <2>1 DEF IndexTypes
<1>5. Distinct(<<>>)
  BY <1>2 DEF Distinct
<1>6. RowsAreDistinct
  BY <1>3, <1>5 DEF RowsAreDistinct, Init, FetchInit
<1>7. \A x : Inserted(x) = {} /\ Table(x) = {}
  BY DEF Init, Inserted, Table
<1>8. RunsInsertOnce /\ OncePerRun /\ LookedFirst
  BY <1>3, <1>7 DEF RunsInsertOnce, OncePerRun, LookedFirst, Init
<1>9. Full({})
  BY DEF Full
<1>10. Range(<<>>) = {}
  BY DEF Range
<1>11. ChunksAreFull
  BY <1>3, <1>5, <1>7, <1>9, <1>10 DEF ChunksAreFull, Made
<1>12. RowsAreCovered
  BY <1>2, <1>3 DEF RowsAreCovered
<1> QED
  BY <1>1, <1>4, <1>6, <1>8, <1>11, <1>12 DEF IndexInv

\* The fetcher and the index do not touch each other.
LEMMA FetchKeepsIndex ==
  ASSUME IndexInv, FetchNext, UNCHANGED index
  PROVE  IndexInv'
<1>1. FetchTypes'
  BY FetchStepTypes DEF IndexInv
<1>2. UNCHANGED <<ipc, corpus, chunks, embedded, documents, before>>
  BY DEF index
<1>3. Distinct(file')
  <2>1. Distinct(<<>>)
    BY EmptySeq DEF Distinct
  <2>2. CASE WriteFile
    <3>1. got["core"] \in Seq(Issues) /\ got["docs"] \in Seq(Issues)
      BY TwoRepositories, SeqMonotonic DEF IndexInv, FetchTypes, FetchTypeOK
    <3>2. Rows \in Seq(Issues)
      BY <3>1, ConcatProperties DEF Rows
    <3> QED
      BY <2>2, <3>2, DropLeavesDistinct DEF WriteFile
  <2>3. CASE ~WriteFile
    <3>1. file' = file \/ file' = <<>>
      BY <2>3 DEF FetchNext, FetchStep, StartFetch, ListAnswers, CommentsAnswer, Retry, GiveUp,
        OpenFile, FetchStops, Move, script
    <3> QED
      BY <2>1, <3>1 DEF IndexInv, RowsAreDistinct
  <2> QED
    BY <2>2, <2>3
<1>4. IndexTypes'
  BY <1>2 DEF IndexInv, IndexTypes
<1>5. RowsAreDistinct'
  BY <1>2, <1>3 DEF IndexInv, RowsAreDistinct
<1>6. RunsInsertOnce' /\ OncePerRun'
  BY <1>2 DEF IndexInv, RunsInsertOnce, OncePerRun, Inserted
<1>7. ChunksAreFull' /\ LookedFirst'
  BY <1>2 DEF IndexInv, ChunksAreFull, LookedFirst, Made, Table, Inserted
<1>8. RowsAreCovered'
  BY <1>2 DEF IndexInv, RowsAreCovered, Made, Indexed
<1> QED
  BY <1>1, <1>4, <1>5, <1>6, <1>7, <1>8 DEF IndexInv

\* A step of a run of the indexer leaves the fetcher as it is.
LEMMA FetcherRests ==
  ASSUME FetchTypes, UNCHANGED fetchVars
  PROVE  FetchTypes' /\ file' = file
BY DEF FetchTypes, FetchTypeOK, fetchVars, github, script

\* A run reads the file.
LEMMA StartKeepsIndex ==
  ASSUME IndexInv, NEW x \in Runs, StartIndex(x)
  PROVE  IndexInv'
<1>1. FetchTypes' /\ file' = file
  BY FetcherRests DEF IndexInv, StartIndex
<1>2. /\ ipc[x] = "idle" /\ ipc' = [ipc EXCEPT ![x] = "check"] /\ corpus' = [corpus EXCEPT ![x] = file]
      /\ UNCHANGED <<chunks, embedded, documents, before>>
  BY DEF StartIndex, Goto
<1>3. file \in Seq(Issues) /\ Distinct(file)
  BY DEF IndexInv, FetchTypes, FetchTypeOK, RowsAreDistinct
<1>4. /\ ipc \in [Runs -> {"idle", "done", "failed"} \cup Working]
      /\ corpus \in [Runs -> Seq(Issues)]
  BY DEF IndexInv, IndexTypes
<1>5. /\ ipc' \in [Runs -> {"idle", "done", "failed"} \cup Working]
      /\ corpus' \in [Runs -> Seq(Issues)]
      /\ ipc'[x] = "check" /\ corpus'[x] = file
      /\ \A y \in Runs : y # x => ipc'[y] = ipc[y] /\ corpus'[y] = corpus[y]
  BY <1>2, <1>3, <1>4 DEF Working
<1>6. IndexTypes'
  BY <1>2, <1>5 DEF IndexInv, IndexTypes
<1>7. RowsAreDistinct'
  BY <1>1, <1>3, <1>5 DEF IndexInv, RowsAreDistinct
<1>8. RunsInsertOnce' /\ OncePerRun'
  BY <1>2, <1>5 DEF IndexInv, RunsInsertOnce, OncePerRun, Inserted
<1>9. ChunksAreFull' /\ LookedFirst'
  BY <1>2 DEF IndexInv, ChunksAreFull, LookedFirst, Made, Table, Inserted
<1>10. RowsAreCovered'
  <2> SUFFICES ASSUME NEW y \in Runs, NEW n \in 1..Len(corpus'[y])
               PROVE  /\ ipc'[y] \in {"embed", "commit"} =>
                           corpus'[y][n] \in Indexed' \/ Range(Chunks[corpus'[y][n]]) \subseteq Made(y)'
                      /\ ipc'[y] = "done" => corpus'[y][n] \in Indexed'
    BY DEF RowsAreCovered
  <2>1. CASE y = x
    BY <1>5, <2>1
  <2>2. CASE y # x
    BY <1>2, <1>5, <2>2 DEF IndexInv, RowsAreCovered, Made, Indexed
  <2> QED
    BY <2>1, <2>2
<1> QED
  BY <1>1, <1>6, <1>7, <1>8, <1>9, <1>10 DEF IndexInv

\* A run that gives up leaves the table alone.
LEMMA EndRunKeepsIndex ==
  ASSUME IndexInv, NEW x \in Runs, ipc[x] \in Working, EndRun(x, "failed"),
         UNCHANGED <<fetchVars, corpus, documents, before>>
  PROVE  IndexInv'
<1>1. FetchTypes' /\ file' = file
  BY FetcherRests DEF IndexInv
<1>2. <<>> \in Seq(Chunk) /\ Len(<<>>) = 0
  BY EmptySeq
<1>3. /\ ipc' = [ipc EXCEPT ![x] = "failed"] /\ chunks' = [chunks EXCEPT ![x] = <<>>]
      /\ embedded' = [embedded EXCEPT ![x] = 0]
      /\ UNCHANGED <<corpus, documents, before>>
  BY DEF EndRun, Goto
<1>4. /\ ipc' \in [Runs -> {"idle", "done", "failed"} \cup Working]
      /\ chunks' \in [Runs -> Seq(Chunk)]
      /\ embedded' \in [Runs -> Nat]
      /\ ipc'[x] = "failed" /\ chunks'[x] = <<>> /\ embedded'[x] = 0
      /\ \A y \in Runs : y # x => ipc'[y] = ipc[y] /\ chunks'[y] = chunks[y] /\ embedded'[y] = embedded[y]
  BY <1>2, <1>3 DEF IndexInv, IndexTypes
<1>5. IndexTypes'
  BY <1>2, <1>3, <1>4 DEF IndexInv, IndexTypes
<1>6. RowsAreDistinct'
  BY <1>1, <1>3 DEF IndexInv, RowsAreDistinct
<1>7. "failed" \notin Working \cup {"idle"}
  BY DEF Working
<1>8. RunsInsertOnce' /\ OncePerRun'
  BY <1>3, <1>4, <1>7 DEF IndexInv, RunsInsertOnce, OncePerRun, Inserted
<1>9. Made(x)' = {} /\ \A y \in Runs : y # x => Made(y)' = Made(y)
  BY <1>4 DEF Made, Range
<1>10. \A y \in Runs : Table(y)' = Table(y)
  BY <1>3 DEF Table, Inserted
<1>11. ChunksAreFull'
  <2>1. Full({}) /\ Distinct(<<>>)
    BY <1>2 DEF Full, Distinct
  <2>2. \A y \in Runs : Full(Made(y)') /\ Distinct(chunks'[y])
    BY <1>4, <1>9, <2>1 DEF IndexInv, ChunksAreFull
  <2> QED
    BY <1>10, <2>2 DEF IndexInv, ChunksAreFull, Full
<1>12. LookedFirst'
  <2>1. \A y \in Runs : Made(y)' \subseteq Made(y)
    BY <1>9
  <2> QED
    BY <1>3, <1>10, <2>1 DEF IndexInv, LookedFirst
<1>13. RowsAreCovered'
  BY <1>3, <1>4, <1>9 DEF IndexInv, RowsAreCovered, Indexed
<1> QED
  BY <1>1, <1>5, <1>6, <1>8, <1>11, <1>12, <1>13 DEF IndexInv

\* A run looks up what is indexed and makes chunks of the rest.
LEMMA CheckKeepsIndex ==
  ASSUME IndexInv, NEW x \in Runs, CheckIndexed(x)
  PROVE  IndexInv'
<1>1. FetchTypes' /\ file' = file
  BY FetcherRests DEF IndexInv, CheckIndexed
<1>2. corpus[x] \in Seq(Issues) /\ Distinct(corpus[x])
  BY DEF IndexInv, IndexTypes, RowsAreDistinct
<1>3. PICK rows \in Seq(Issues) : rows = corpus[x] /\ Distinct(rows)
  BY <1>2
<1>4. PICK new \in Seq(Chunk) :
        /\ new = NewChunks(rows, Indexed)
        /\ Distinct(new) /\ Full(Range(new))
        /\ \A c \in Range(new) : c.issue \notin Indexed
        /\ \A m \in 1..Len(rows) : rows[m] \notin Indexed =>
             Range(Chunks[rows[m]]) \subseteq Range(new) /\ new # <<>>
  BY <1>3, NewChunksAreFull
<1>5. PICK how \in {"done", "embed"} : how = IF new = <<>> THEN "done" ELSE "embed"
  OBVIOUS
<1>6. /\ ipc[x] = "check" /\ ipc' = [ipc EXCEPT ![x] = how]
      /\ chunks' = [chunks EXCEPT ![x] = new]
      /\ before' = [before EXCEPT ![x] = {d.run : d \in documents}]
      /\ UNCHANGED <<corpus, embedded, documents>>
  BY <1>3, <1>4, <1>5 DEF CheckIndexed, Goto
<1>7. {d.run : d \in documents} \subseteq Runs
  BY DEF IndexInv, IndexTypes, Doc
<1>8. /\ ipc' \in [Runs -> {"idle", "done", "failed"} \cup Working]
      /\ chunks' \in [Runs -> Seq(Chunk)]
      /\ before' \in [Runs -> SUBSET Runs]
      /\ ipc'[x] = how /\ chunks'[x] = new /\ before'[x] = {d.run : d \in documents}
      /\ \A y \in Runs : y # x => ipc'[y] = ipc[y] /\ chunks'[y] = chunks[y] /\ before'[y] = before[y]
  BY <1>5, <1>6, <1>7 DEF IndexInv, IndexTypes, Working
<1>9. embedded[x] = 0 /\ 0 <= Len(new) /\ (new # <<>> => 0 < Len(new))
  <2>1. embedded[x] = 0
    BY <1>6 DEF IndexInv, IndexTypes
  <2>2. Len(new) \in Nat /\ (new # <<>> => Len(new) # 0)
    BY EmptySeq
  <2> QED
    BY <2>1, <2>2
<1>10. IndexTypes'
  <2>1. \A y \in Runs : embedded'[y] = embedded[y]
    BY <1>6
  <2>2. \A y \in Runs :
          /\ embedded'[y] <= Len(chunks'[y])
          /\ ipc'[y] = "embed" => embedded'[y] < Len(chunks'[y])
          /\ ipc'[y] \in {"idle", "check"} => embedded'[y] = 0
    <3> SUFFICES ASSUME NEW y \in Runs
                 PROVE  /\ embedded'[y] <= Len(chunks'[y])
                        /\ ipc'[y] = "embed" => embedded'[y] < Len(chunks'[y])
                        /\ ipc'[y] \in {"idle", "check"} => embedded'[y] = 0
      OBVIOUS
    <3>1. CASE y = x
      BY <1>5, <1>8, <1>9, <2>1, <3>1
    <3>2. CASE y # x
      BY <1>8, <2>1, <3>2 DEF IndexInv, IndexTypes
    <3> QED
      BY <3>1, <3>2
  <2> QED
    BY <1>6, <1>8, <2>2 DEF IndexInv, IndexTypes
<1>11. RowsAreDistinct'
  BY <1>1, <1>6 DEF IndexInv, RowsAreDistinct
<1>12. Inserted(x) = {}
  BY <1>6 DEF IndexInv, RunsInsertOnce, Working
<1>13. RunsInsertOnce' /\ OncePerRun'
  <2>1. \A y : Inserted(y)' = Inserted(y)
    BY <1>6 DEF Inserted
  <2>2. \A y \in Runs : ipc'[y] \in Working \cup {"idle"} => Inserted(y) = {}
    BY <1>8, <1>12 DEF IndexInv, RunsInsertOnce
  <2>3. \A y \in Runs : before'[y] \subseteq {d.run : d \in documents}
    BY <1>8 DEF IndexInv, RunsInsertOnce
  <2> QED
    BY <1>6, <2>1, <2>2, <2>3 DEF IndexInv, RunsInsertOnce, OncePerRun
<1>14. Made(x)' = Range(new) /\ \A y \in Runs : y # x => Made(y)' = Made(y)
  BY <1>8 DEF Made
<1>15. \A y \in Runs : Table(y)' = Table(y)
  BY <1>6 DEF Table, Inserted
<1>16. ChunksAreFull'
  <2>1. \A y \in Runs : Full(Made(y)') /\ Distinct(chunks'[y])
    BY <1>4, <1>8, <1>14 DEF IndexInv, ChunksAreFull
  <2> QED
    BY <1>15, <2>1 DEF IndexInv, ChunksAreFull, Full
<1>17. LookedFirst'
  <2> SUFFICES ASSUME NEW y \in Runs, NEW d \in documents, d.run \in before'[y],
                      NEW c \in Made(y)' \cup Table(y)'
               PROVE  c.issue # d.chunk.issue
    BY <1>6 DEF LookedFirst
  <2>1. CASE y = x
    <3>1. Table(x) = {}
      BY <1>12 DEF Table
    <3>2. c \in Range(new)
      BY <1>14, <1>15, <2>1, <3>1
    <3>3. d.chunk.issue \in Indexed
      BY DEF Indexed
    <3> QED
      BY <1>4, <3>2, <3>3
  <2>2. CASE y # x
    BY <1>8, <1>14, <1>15, <2>2 DEF IndexInv, LookedFirst
  <2> QED
    BY <2>1, <2>2
<1>18. RowsAreCovered'
  <2> SUFFICES ASSUME NEW y \in Runs, NEW n \in 1..Len(corpus[y])
               PROVE  /\ ipc'[y] \in {"embed", "commit"} =>
                           corpus[y][n] \in Indexed \/ Range(Chunks[corpus[y][n]]) \subseteq Made(y)'
                      /\ ipc'[y] = "done" => corpus[y][n] \in Indexed
    BY <1>6 DEF RowsAreCovered, Indexed
  <2>1. CASE y = x
    <3>1. corpus[y][n] \in Indexed \/ (Range(Chunks[corpus[y][n]]) \subseteq Range(new) /\ new # <<>>)
      BY <1>3, <1>4, <2>1
    <3> QED
      BY <1>5, <1>8, <1>14, <2>1, <3>1
  <2>2. CASE y # x
    BY <1>8, <1>14, <2>2 DEF IndexInv, RowsAreCovered
  <2> QED
    BY <2>1, <2>2
<1> QED
  BY <1>1, <1>10, <1>11, <1>13, <1>16, <1>17, <1>18 DEF IndexInv

\* A run embeds a batch.
LEMMA EmbedKeepsIndex ==
  ASSUME IndexInv, NEW x \in Runs, EmbedChunks(x)
  PROVE  IndexInv'
<1>1. FetchTypes' /\ file' = file
  BY FetcherRests DEF IndexInv, EmbedChunks
<1>2. PICK L \in Nat : L = Len(chunks[x])
  BY DEF IndexInv, IndexTypes
<1>3. PICK m \in Nat : m = embedded[x]
  BY DEF IndexInv, IndexTypes
<1>23. EmbedBatch \in Nat \ {0}
  BY IndexAssumption
<1>4. Min({m + EmbedBatch, L}) = IF m + EmbedBatch <= L THEN m + EmbedBatch ELSE L
  BY <1>23, MinOfTwo
<1>5. PICK n \in 0..L : n = Min({m + EmbedBatch, L})
  BY <1>4, <1>23
<1>6. PICK how \in {"commit", "embed"} : how = IF n = L THEN "commit" ELSE "embed"
  OBVIOUS
<1>7. /\ ipc[x] = "embed" /\ ipc' = [ipc EXCEPT ![x] = how]
      /\ embedded' = [embedded EXCEPT ![x] = n]
      /\ UNCHANGED <<corpus, chunks, documents, before>>
  BY <1>2, <1>3, <1>5, <1>6 DEF EmbedChunks, Goto
<1>8. n \in Nat
  BY <1>5
<1>9. /\ ipc' \in [Runs -> {"idle", "done", "failed"} \cup Working]
      /\ embedded' \in [Runs -> Nat]
      /\ ipc'[x] = how /\ embedded'[x] = n
      /\ \A y \in Runs : y # x => ipc'[y] = ipc[y] /\ embedded'[y] = embedded[y]
  BY <1>6, <1>7, <1>8 DEF IndexInv, IndexTypes, Working
<1>10. IndexTypes'
  <2>1. \A y \in Runs :
          /\ embedded'[y] <= Len(chunks[y])
          /\ ipc'[y] = "embed" => embedded'[y] < Len(chunks[y])
          /\ ipc'[y] \in {"idle", "check"} => embedded'[y] = 0
    <3> SUFFICES ASSUME NEW y \in Runs
                 PROVE  /\ embedded'[y] <= Len(chunks[y])
                        /\ ipc'[y] = "embed" => embedded'[y] < Len(chunks[y])
                        /\ ipc'[y] \in {"idle", "check"} => embedded'[y] = 0
      OBVIOUS
    <3>1. CASE y = x
      <4>1. n <= L /\ (how = "embed" => n < L) /\ how \notin {"idle", "check"}
        BY <1>5, <1>6
      <4> QED
        BY <1>2, <1>9, <3>1, <4>1
    <3>2. CASE y # x
      BY <1>9, <3>2 DEF IndexInv, IndexTypes
    <3> QED
      BY <3>1, <3>2
  <2> QED
    BY <1>7, <1>9, <2>1 DEF IndexInv, IndexTypes
<1>11. RowsAreDistinct'
  BY <1>1, <1>7 DEF IndexInv, RowsAreDistinct
<1>12. RunsInsertOnce' /\ OncePerRun'
  BY <1>7, <1>9 DEF IndexInv, RunsInsertOnce, OncePerRun, Inserted, Working
<1>13. ChunksAreFull' /\ LookedFirst'
  BY <1>7 DEF IndexInv, ChunksAreFull, LookedFirst, Made, Table, Inserted
<1>14. RowsAreCovered'
  <2>1. \A y \in Runs : /\ ipc'[y] \in {"embed", "commit"} => ipc[y] \in {"embed", "commit"}
                        /\ ipc'[y] = "done" => ipc[y] = "done"
    BY <1>6, <1>7, <1>9
  <2> QED
    BY <1>7, <2>1 DEF IndexInv, RowsAreCovered, Made, Indexed
<1> QED
  BY <1>1, <1>10, <1>11, <1>12, <1>13, <1>14 DEF IndexInv

\* A run inserts its chunks in one transaction, whatever becomes of it then.
LEMMA CommitKeepsIndex ==
  ASSUME IndexInv, NEW x \in Runs, CommitChunks(x)
  PROVE  IndexInv'
<1>1. FetchTypes' /\ file' = file
  BY FetcherRests DEF IndexInv, CommitChunks
<1>2. PICK q \in Seq(Chunk) : q = chunks[x]
  BY DEF IndexInv, IndexTypes
<1>3. PICK L \in Nat : L = Len(q)
  OBVIOUS
<1>4. PICK New : New = {[run |-> x, at |-> k, chunk |-> q[k]] : k \in 1..L}
  OBVIOUS
<1>5. PICK how \in {"done", "failed"} :
        /\ ipc[x] = "commit" /\ ipc' = [ipc EXCEPT ![x] = how]
        /\ chunks' = [chunks EXCEPT ![x] = <<>>]
        /\ embedded' = [embedded EXCEPT ![x] = 0]
        /\ documents' = documents \cup New
        /\ UNCHANGED <<corpus, before>>
  BY <1>2, <1>3, <1>4 DEF CommitChunks, Documents, EndRun, Goto
<1>6. \A d \in New : d.run = x /\ \E k \in 1..L : d = [run |-> x, at |-> k, chunk |-> q[k]] /\ d.chunk = q[k]
  BY <1>4
<1>7. ASSUME NEW k \in 1..L PROVE \E d \in New : d.run = x /\ d.chunk = q[k]
  <2>1. PICK d : d = [run |-> x, at |-> k, chunk |-> q[k]]
    OBVIOUS
  <2>2. d.run = x /\ d.chunk = q[k]
    BY <2>1
  <2>3. d \in New
    BY <1>4, <2>1
  <2> QED
    BY <2>2, <2>3
<1>8. <<>> \in Seq(Chunk) /\ Len(<<>>) = 0
  BY EmptySeq
<1>9. /\ ipc' \in [Runs -> {"idle", "done", "failed"} \cup Working]
      /\ chunks' \in [Runs -> Seq(Chunk)] /\ embedded' \in [Runs -> Nat]
      /\ ipc'[x] = how /\ chunks'[x] = <<>> /\ embedded'[x] = 0
      /\ \A y \in Runs : y # x => ipc'[y] = ipc[y] /\ chunks'[y] = chunks[y] /\ embedded'[y] = embedded[y]
  BY <1>5, <1>8 DEF IndexInv, IndexTypes
<1>10. New \subseteq Doc
  <2>1. \A k \in 1..L : k \in Nat /\ q[k] \in Chunk
    BY <1>3
  <2> QED
    BY <1>4, <2>1 DEF Doc
<1>11. IndexTypes'
  <2>1. documents' \subseteq Doc
    BY <1>5, <1>10 DEF IndexInv, IndexTypes
  <2>2. \A y \in Runs : /\ embedded'[y] <= Len(chunks'[y])
                        /\ ipc'[y] = "embed" => embedded'[y] < Len(chunks'[y])
                        /\ ipc'[y] \in {"idle", "check"} => embedded'[y] = 0
    BY <1>5, <1>8, <1>9 DEF IndexInv, IndexTypes
  <2> QED
    BY <1>5, <1>9, <2>1, <2>2 DEF IndexInv, IndexTypes
<1>12. RowsAreDistinct'
  BY <1>1, <1>5 DEF IndexInv, RowsAreDistinct
<1>13. Inserted(x) = {}
  BY <1>5 DEF IndexInv, RunsInsertOnce, Working
<1>14. Inserted(x)' = New /\ \A y \in Runs : y # x => Inserted(y)' = Inserted(y)
  BY <1>5, <1>6, <1>13 DEF Inserted
<1>15. \A y \in Runs : x \notin before[y]
  BY <1>13 DEF IndexInv, RunsInsertOnce, Inserted
<1>16. RunsInsertOnce'
  <2>1. \A y \in Runs : ipc'[y] \in Working \cup {"idle"} => Inserted(y)' = {}
    BY <1>5, <1>9, <1>14 DEF IndexInv, RunsInsertOnce, Working
  <2>2. \A y \in Runs : before'[y] \subseteq {d.run : d \in documents'}
    BY <1>5 DEF IndexInv, RunsInsertOnce
  <2> QED
    BY <2>1, <2>2 DEF RunsInsertOnce
<1>17. Range(q) = {q[k] : k \in 1..L}
  BY <1>2, <1>3 DEF Range
<1>18. Made(x) = Range(q) /\ Made(x)' = {} /\ \A y \in Runs : y # x => Made(y)' = Made(y)
  BY <1>2, <1>9 DEF Made, Range
<1>19. Table(x)' = Range(q) /\ \A y \in Runs : y # x => Table(y)' = Table(y)
  <2>1. {d.chunk : d \in New} = Range(q)
    BY <1>6, <1>7, <1>17
  <2> QED
    BY <1>14, <2>1 DEF Table
<1>20. ChunksAreFull'
  <2>1. Full({}) /\ Distinct(<<>>)
    BY <1>8 DEF Full, Distinct
  <2>2. \A y \in Runs : Full(Made(y)') /\ Distinct(chunks'[y])
    BY <1>9, <1>18, <2>1 DEF IndexInv, ChunksAreFull
  <2>3. \A y \in Runs : Full(Table(y)')
    BY <1>18, <1>19 DEF IndexInv, ChunksAreFull
  <2> QED
    BY <2>2, <2>3 DEF ChunksAreFull, Full
<1>21. OncePerRun'
  <2> SUFFICES ASSUME NEW d \in documents', NEW e \in documents', d.run = e.run, d.chunk = e.chunk
               PROVE  d = e
    BY DEF OncePerRun
  <2>1. CASE d.run = x
    <3>1. d \in New /\ e \in New
      BY <1>5, <1>13, <2>1 DEF Inserted
    <3>2. PICK k \in 1..L : d = [run |-> x, at |-> k, chunk |-> q[k]] /\ d.chunk = q[k]
      BY <1>6, <3>1
    <3>3. PICK l \in 1..L : e = [run |-> x, at |-> l, chunk |-> q[l]] /\ e.chunk = q[l]
      BY <1>6, <3>1
    <3>4. k = l
      BY <1>2, <1>3, <3>2, <3>3 DEF IndexInv, ChunksAreFull, Distinct
    <3> QED
      BY <3>2, <3>3, <3>4
  <2>2. CASE d.run # x
    <3>1. d \in documents /\ e \in documents
      BY <1>5, <1>6, <2>2
    <3> QED
      BY <3>1 DEF IndexInv, OncePerRun
  <2> QED
    BY <2>1, <2>2
<1>22. LookedFirst'
  <2> SUFFICES ASSUME NEW y \in Runs, NEW d \in documents', d.run \in before[y],
                      NEW c \in Made(y)' \cup Table(y)'
               PROVE  c.issue # d.chunk.issue
    BY <1>5 DEF LookedFirst
  <2>1. d \in documents
    BY <1>5, <1>6, <1>15
  <2>2. c \in Made(y) \cup Table(y)
    BY <1>18, <1>19
  <2> QED
    BY <2>1, <2>2 DEF IndexInv, LookedFirst
<1>23. Indexed \subseteq Indexed'
  BY <1>5 DEF Indexed
<1>24. RowsAreCovered'
  <2> SUFFICES ASSUME NEW y \in Runs, NEW n \in 1..Len(corpus[y])
               PROVE  /\ ipc'[y] \in {"embed", "commit"} =>
                           corpus[y][n] \in Indexed' \/ Range(Chunks[corpus[y][n]]) \subseteq Made(y)'
                      /\ ipc'[y] = "done" => corpus[y][n] \in Indexed'
    BY <1>5 DEF RowsAreCovered
  <2>1. CASE y = x
    <3>1. corpus[x][n] \in Indexed \/ Range(Chunks[corpus[x][n]]) \subseteq Range(q)
      BY <1>5, <1>18, <2>1 DEF IndexInv, RowsAreCovered
    <3>2. PICK i \in Issues : i = corpus[x][n]
      BY <2>1 DEF IndexInv, IndexTypes
    <3>3. CASE Range(Chunks[i]) \subseteq Range(q)
      <4>1. PICK s \in Seq(Chunk) : s = Chunks[i] /\ Len(s) >= 1 /\ s[1].issue = i
        <5>1. Chunks[i] \in Seq(Chunk) /\ Len(Chunks[i]) = Len(Texts(i)) /\ Len(Texts(i)) >= 1
              /\ Len(Texts(i)) \in Nat
          BY ChunksOfIssue
        <5>2. 1 \in 1..Len(Texts(i))
          BY <5>1
        <5>3. Chunks[i][1].issue = i
          BY <5>2, ChunksOfIssue
        <5> QED
          BY <5>1, <5>3
      <4>2. s[1] \in Range(q)
        <5>1. Len(s) \in Nat /\ DOMAIN s = 1..Len(s)
          BY <4>1
        <5>2. 1 \in DOMAIN s
          BY <4>1, <5>1
        <5>3. s[1] \in Range(s)
          BY <5>2 DEF Range
        <5> QED
          BY <3>3, <4>1, <5>3
      <4>3. PICK d \in New : d.chunk = s[1]
        BY <1>7, <1>17, <4>2
      <4>4. i \in Indexed'
        BY <1>5, <4>1, <4>3 DEF Indexed
      <4> QED
        BY <1>5, <1>9, <2>1, <3>2, <4>4
    <3>4. CASE i \in Indexed
      BY <1>5, <1>9, <1>23, <2>1, <3>2, <3>4
    <3> QED
      BY <3>1, <3>2, <3>3, <3>4
  <2>2. CASE y # x
    BY <1>9, <1>18, <1>23, <2>2 DEF IndexInv, RowsAreCovered
  <2> QED
    BY <2>1, <2>2
<1> QED
  BY <1>1, <1>11, <1>12, <1>16, <1>20, <1>21, <1>22, <1>24 DEF IndexInv

\* Every step keeps the invariant.
LEMMA StepKeepsIndex == IndexInv /\ [Next]_vars => IndexInv'
<1> SUFFICES ASSUME IndexInv, [Next]_vars PROVE IndexInv'
  OBVIOUS
<1>1. ASSUME NEW x \in Runs, StartIndex(x) \/ IndexStep(x) PROVE IndexInv'
  <2>1. CASE StartIndex(x)
    BY <2>1, StartKeepsIndex
  <2>2. CASE CheckIndexed(x)
    BY <2>2, CheckKeepsIndex
  <2>3. CASE EmbedChunks(x)
    BY <2>3, EmbedKeepsIndex
  <2>4. CASE CommitChunks(x)
    BY <2>4, CommitKeepsIndex
  <2>5. CASE IndexStops(x)
    BY <2>5, EndRunKeepsIndex DEF IndexStops
  <2> QED
    BY <1>1, <2>1, <2>2, <2>3, <2>4, <2>5 DEF IndexStep
<1>2. CASE FetchNext /\ UNCHANGED index
  BY <1>2, FetchKeepsIndex
<1>3. CASE UNCHANGED vars
  <2>1. FetchTypes' /\ file' = file
    BY <1>3, FetcherRests DEF vars, IndexInv
  <2>2. UNCHANGED <<ipc, corpus, chunks, embedded, documents, before>>
    BY <1>3 DEF vars, index
  <2>3. IndexTypes' /\ RowsAreDistinct'
    BY <2>1, <2>2 DEF IndexInv, IndexTypes, RowsAreDistinct
  <2>4. RunsInsertOnce' /\ OncePerRun'
    BY <2>2 DEF IndexInv, RunsInsertOnce, OncePerRun, Inserted
  <2>5. ChunksAreFull' /\ LookedFirst'
    BY <2>2 DEF IndexInv, ChunksAreFull, LookedFirst, Made, Table, Inserted
  <2>6. RowsAreCovered'
    BY <2>2 DEF IndexInv, RowsAreCovered, Made, Indexed
  <2> QED
    BY <2>1, <2>3, <2>4, <2>5, <2>6 DEF IndexInv
<1> QED
  BY <1>1, <1>2, <1>3 DEF Next, Finished

\* The invariant of the indexer and the fetcher.
THEOREM IndexIsKept == Spec => []IndexInv
BY InitIndex, StepKeepsIndex, PTL DEF Spec

\* TypeOK: every variable keeps its type.
THEOREM TypeCorrect == Spec => []TypeOK
<1>1. IndexInv => TypeOK
  <2> SUFFICES ASSUME IndexInv PROVE TypeOK
    OBVIOUS
  <2>1. FetchTypeOK
    BY DEF IndexInv, FetchTypes
  <2>2. \A d \in documents : d.run \in Runs /\ d.chunk.issue \in Issues
    BY DEF IndexInv, IndexTypes, Doc, Chunk
  <2>3. ASSUME NEW x \in Runs
        PROVE  /\ corpus[x] \in Seq(Issues)
               /\ \A n \in 1..Len(chunks[x]) : chunks[x][n].issue \in Issues
               /\ embedded[x] \in 0..Len(chunks[x])
               /\ ipc[x] = "embed" => embedded[x] < Len(chunks[x])
    <3>1. PICK q \in Seq(Chunk) : q = chunks[x]
      BY DEF IndexInv, IndexTypes
    <3>2. \A n \in 1..Len(q) : q[n].issue \in Issues
      <4>1. \A n \in 1..Len(q) : q[n] \in Chunk
        OBVIOUS
      <4> QED
        BY <4>1 DEF Chunk
    <3>3. embedded[x] \in 0..Len(q)
      <4>1. Len(q) \in Nat /\ embedded[x] \in Nat /\ embedded[x] <= Len(q)
        BY <3>1 DEF IndexInv, IndexTypes
      <4> QED
        BY <4>1
    <3> QED
      BY <3>1, <3>2, <3>3 DEF IndexInv, IndexTypes
  <2> QED
    BY <2>1, <2>2, <2>3 DEF IndexInv, IndexTypes, TypeOK
<1> QED
  BY <1>1, IndexIsKept, PTL

\* DuplicatesNeedOverlap: two runs have inserted the same chunk only if each
\* had looked up what is indexed before the other committed.
THEOREM OnlyOverlapDuplicates == Spec => []DuplicatesNeedOverlap
<1>1. IndexInv => DuplicatesNeedOverlap
  <2> SUFFICES ASSUME IndexInv, NEW d \in documents, NEW e \in documents, d # e, d.chunk = e.chunk
               PROVE  /\ d.run # e.run
                      /\ d.run \notin before[e.run] /\ e.run \notin before[d.run]
    BY DEF DuplicatesNeedOverlap
  <2>1. d.run \in Runs /\ e.run \in Runs
    BY DEF IndexInv, IndexTypes, Doc
  <2>2. d.chunk \in Table(d.run) /\ e.chunk \in Table(e.run)
    BY DEF Table, Inserted
  <2>3. d.run # e.run
    BY DEF IndexInv, OncePerRun
  <2> QED
    BY <2>1, <2>2, <2>3 DEF IndexInv, LookedFirst
<1> QED
  BY <1>1, IndexIsKept, PTL

\* DoneMeansIndexed: after a run that has succeeded every issue of its file is
\* in the table with all its chunks.
THEOREM DoneFindsAll == Spec => []DoneMeansIndexed
<1>1. IndexInv => DoneMeansIndexed
  <2> SUFFICES ASSUME IndexInv, NEW x \in Runs, ipc[x] = "done", NEW n \in 1..Len(corpus[x]),
                      NEW c \in Range(Chunks[corpus[x][n]])
               PROVE  \E d \in documents : d.chunk = c
    BY DEF DoneMeansIndexed
  <2>1. corpus[x][n] \in Indexed
    BY DEF IndexInv, RowsAreCovered
  <2>2. PICK e \in documents : e.chunk.issue = corpus[x][n]
    BY <2>1 DEF Indexed
  <2>3. e.run \in Runs /\ e.chunk \in Table(e.run)
    BY DEF IndexInv, IndexTypes, Doc, Table, Inserted
  <2>4. Range(Chunks[corpus[x][n]]) \subseteq Table(e.run)
    BY <2>2, <2>3 DEF IndexInv, ChunksAreFull, Full
  <2> QED
    BY <2>4 DEF Table, Inserted
<1> QED
  BY <1>1, IndexIsKept, PTL

-----------------------------------------------------------------------------
(* What is in the table can be read back.                                  *)

\* A sequence without repetitions has as many members as places.
LEMMA DistinctCounts ==
  ASSUME NEW S, NEW s \in Seq(S), Distinct(s)
  PROVE  Cardinality(Range(s)) = Len(s) /\ s \in [1..Len(s) -> Range(s)]
<1>1. PICK n \in Nat : n = Len(s)
  OBVIOUS
<1>2. Range(s) = {s[k] : k \in 1..n} /\ DOMAIN s = 1..n
  BY <1>1 DEF Range
<1>3. s \in [1..n -> Range(s)]
  <2>1. s = [k \in 1..n |-> s[k]]
    BY <1>1
  <2>2. \A k \in 1..n : s[k] \in Range(s)
    BY <1>2
  <2> QED
    BY <2>1, <2>2
<1>4. IsFiniteSet(1..n) /\ Cardinality(1..n) = n
  BY FS_Interval
<1>5. s \in Surjection(1..n, Range(s))
  BY <1>2, <1>3 DEF Surjection
<1>6. s \in Injection(1..n, Range(s))
  BY <1>1, <1>3 DEF Injection, IsInjective, Distinct
<1>7. Cardinality(Range(s)) = n
  BY <1>4, <1>5, <1>6, FS_Surjection
<1> QED
  BY <1>1, <1>3, <1>7

\* The text of an issue is whole in its chunks.
LEMMA ParagraphsAreKept ==
  ASSUME NEW cs \in Seq(Text), NEW bodies \in Seq(Seq(Nat)), NEW title, NEW comments,
         NEW n, InOrder(cs, bodies, title, comments, n)
  PROVE  Joined([k \in 1..Len(cs) |-> cs[k].paras]) = Joined(bodies)
<1>1. PICK B \in Nat : B = Len(bodies)
  OBVIOUS
<1>2. PICK L \in Nat : L = Len(cs) /\ B <= L
  <2>1. Len(cs) \in Nat
    OBVIOUS
  <2> QED
    BY <1>1, <2>1 DEF InOrder
<1>3. /\ \A k \in 1..B : cs[k].paras = bodies[k]
      /\ \A k \in 1..L : k > B => cs[k].paras = <<>>
  BY <1>1, <1>2 DEF InOrder
<1>4. \A k \in 1..L : cs[k].paras \in Seq(Nat)
  <2>1. \A k \in 1..L : cs[k] \in Text
    BY <1>2
  <2> QED
    BY <2>1 DEF Text
<1> DEFINE q(m) == [k \in 1..m |-> cs[k].paras]
           T == {j \in Nat : B + j <= L => Joined(q(B + j)) = Joined(bodies)}
<1>5. q(B) = bodies
  <2>1. bodies = [k \in 1..B |-> bodies[k]]
    BY <1>1
  <2> QED
    BY <1>3, <2>1
<1>6. 0 \in T
  <2>1. B + 0 = B
    OBVIOUS
  <2> QED
    BY <1>5, <2>1
<1>7. ASSUME NEW j \in Nat, j \in T PROVE j + 1 \in T
  <2> SUFFICES ASSUME B + (j + 1) <= L PROVE Joined(q(B + (j + 1))) = Joined(bodies)
    OBVIOUS
  <2>1. PICK m \in Nat : m = B + j /\ B + (j + 1) = m + 1 /\ m + 1 <= L /\ B <= m
    OBVIOUS
  <2>2. Joined(q(m)) = Joined(bodies)
    BY <1>7, <2>1
  <2>3. q(m) \in [1..m -> Seq(Nat)]
    BY <1>4, <2>1
  <2>4. q(m) \in Seq(Seq(Nat)) /\ Len(q(m)) = m
    BY <2>3, SeqDef
  <2>5. <<>> \in Seq(Nat)
    BY EmptySeq
  <2>6. cs[m + 1].paras = <<>>
    <3>1. m + 1 \in 1..L /\ m + 1 > B
      BY <2>1
    <3> QED
      BY <1>3, <3>1
  <2>7. q(m + 1) = Append(q(m), <<>>)
    <3>1. q(m + 1) \in [1..(m + 1) -> Seq(Nat)]
      BY <1>4, <2>1
    <3>2. q(m + 1) \in Seq(Seq(Nat)) /\ Len(q(m + 1)) = m + 1
      BY <3>1, SeqDef
    <3>3. /\ \A k \in 1..m : q(m + 1)[k] = q(m)[k]
          /\ q(m + 1)[m + 1] = <<>>
      BY <2>6
    <3> HIDE DEF q
    <3>4. PICK u \in Seq(Seq(Nat)) : u = q(m)
      BY <2>4
    <3>5. PICK v \in Seq(Seq(Nat)) : v = q(m + 1)
      BY <3>2
    <3>6. PICK w \in Seq(Seq(Nat)) : w = Append(u, <<>>)
      BY <2>5, AppendProperties
    <3>7. Len(w) = m + 1 /\ w[m + 1] = <<>> /\ \A k \in 1..m : w[k] = u[k]
      BY <2>4, <2>5, <3>4, <3>6, AppendProperties
    <3>8. Len(v) = Len(w) /\ \A k \in 1..Len(v) : v[k] = w[k]
      <4>1. Len(v) = m + 1
        BY <3>2, <3>5
      <4>2. \A k \in 1..(m + 1) : k \in 1..m \/ k = m + 1
        OBVIOUS
      <4> QED
        BY <3>3, <3>4, <3>5, <3>7, <4>1, <4>2
    <3>9. v = w
      BY <3>8, SeqEqual
    <3> QED
      BY <3>4, <3>5, <3>6, <3>9
  <2> HIDE DEF q
  <2>8. PICK u \in Seq(Seq(Nat)) : u = q(m)
    BY <2>4
  <2>9. Joined(Append(u, <<>>)) = Joined(u) \o <<>> /\ Joined(u) \in Seq(Nat)
    BY <2>5, JoinedAppends
  <2>10. Joined(u) \o <<>> = Joined(u)
    BY <2>9, ConcatEmptySeq
  <2> QED
    BY <2>1, <2>2, <2>7, <2>8, <2>9, <2>10
<1>8. Nat \subseteq T
  <2> HIDE DEF T
  <2> QED
    BY <1>6, <1>7, NatSetInduction
<1>9. PICK j \in Nat : B + j = L
  <2>1. L - B \in Nat /\ B + (L - B) = L
    BY <1>2
  <2> QED
    BY <2>1
<1>10. Joined(q(L)) = Joined(bodies)
  <2>1. j \in T /\ B + j <= L
    BY <1>8, <1>9
  <2>2. Joined(q(B + j)) = Joined(bodies)
    BY <2>1
  <2> HIDE DEF q
  <2> QED
    BY <1>9, <2>2
<1> QED
  BY <1>2, <1>10

\* The chunks of an issue are what can be read back as the issue.
LEMMA ChunksAreWhole ==
  ASSUME NEW i \in Issues
  PROVE  IsWhole(Range(Texts(i)), i)
<1>1. PICK cs \in Seq(Text) : cs = Texts(i)
  BY ChunksOfIssue
<1>2. Paragraphs[i] \in Seq(Nat) /\ Paragraphs[i] # <<>> /\ Comments[i] \in Seq(Nat)
  BY IndexAssumption
<1>3. PICK bodies \in Seq(Seq(Nat)) :
        /\ bodies = SplitParagraphs(Paragraphs[i]) /\ Joined(bodies) = Paragraphs[i]
        /\ \A k \in 1..Len(bodies) : Fits(bodies[k])
  BY <1>2, SplitKeepsParagraphs
<1>31. Comments[i] \in Seq(Nat)
  BY <1>2
<1>32. Len(Comments[i]) \in Nat
  BY <1>31
<1>4. PICK N \in Nat : N = Len(Comments[i])
  BY <1>32
<1>20. PICK title \in Nat : title = Head(Paragraphs[i])
  BY <1>2
<1>5. InOrder(cs, bodies, title, Comments[i], N)
  BY <1>1, <1>3, <1>4, <1>20, ChunksOfIssue
<1>6. PICK L \in Nat : L = Len(cs)
  OBVIOUS
<1>7. PICK B \in Nat : B = Len(bodies)
  OBVIOUS
<1>8. \A m, n \in 1..L : m < n => /\ cs[m].index < cs[n].index
                                  /\ cs[n].comment # 0 => cs[m].comment < cs[n].comment
  BY <1>5, <1>6, IndexGrows
<1>9. Distinct(cs)
  <2> SUFFICES ASSUME NEW k \in 1..L, NEW l \in 1..L, cs[k] = cs[l] PROVE k = l
    BY <1>6 DEF Distinct
  <2>1. \A j \in 1..L : cs[j].index \in Nat
    <3>1. \A j \in 1..L : cs[j] \in Text
      BY <1>6
    <3> QED
      BY <3>1 DEF Text
  <2>2. ~(k < l)
    BY <1>8, <2>1
  <2>3. ~(l < k)
    BY <1>8, <2>1
  <2> QED
    BY <2>2, <2>3
<1>10. PICK rows : rows = Range(cs)
  OBVIOUS
<1>11. Cardinality(rows) = L /\ cs \in [1..L -> rows] /\ DOMAIN cs = 1..L
  BY <1>6, <1>9, <1>10, DistinctCounts
<1>12. rows = {cs[k] : k \in 1..L}
  BY <1>10, <1>11 DEF Range
<1>13. Joined([k \in 1..L |-> cs[k].paras]) = Paragraphs[i]
  BY <1>3, <1>5, <1>6, ParagraphsAreKept
<1>14. /\ B <= L
       /\ \A k \in 1..B : cs[k].paras = bodies[k] /\ cs[k].comment = 0
       /\ \A k \in 1..L : k > B =>
            /\ cs[k].paras = <<>>
            /\ cs[k].comment \in 1..N /\ Comments[i][cs[k].comment] > 0
       /\ \A m \in 1..N : Comments[i][m] > 0 => \E k \in 1..L : cs[k].comment = m
  BY <1>5, <1>6, <1>7 DEF InOrder
<1>21. \A k \in 1..L : k > B => cs[k].kept = Fitting(title, Comments[i][cs[k].comment])
  BY <1>5, <1>6, <1>7 DEF InOrder
<1>15. \A k \in 1..L : k \in 1..B \/ k > B
  OBVIOUS
<1>16. {c.comment : c \in rows} \ {0} = {n \in 1..N : Comments[i][n] > 0}
  <2>1. ASSUME NEW c \in rows, c.comment # 0 PROVE c.comment \in 1..N /\ Comments[i][c.comment] > 0
    <3>1. PICK k \in 1..L : c = cs[k]
      BY <1>12
    <3> QED
      BY <1>14, <1>15, <2>1, <3>1
  <2>2. ASSUME NEW n \in 1..N, Comments[i][n] > 0 PROVE \E c \in rows : c.comment = n
    <3>1. PICK k \in 1..L : cs[k].comment = n
      BY <1>14, <2>2
    <3> QED
      BY <1>12, <3>1
  <2>3. \A n \in 1..N : n # 0
    OBVIOUS
  <2> QED
    BY <2>1, <2>2, <2>3
<1>17. ASSUME NEW c \in rows, Len(c.paras) > 1 PROVE SumOf(c.paras) <= MaxChars
  <2>1. PICK k \in 1..L : c = cs[k]
    BY <1>12
  <2>2. k \in 1..B
    <3>1. Len(<<>>) = 0
      BY EmptySeq
    <3> QED
      BY <1>14, <1>15, <1>17, <2>1, <3>1
  <2> QED
    BY <1>3, <1>7, <1>14, <1>17, <2>1, <2>2 DEF Fits
<1>19. ASSUME NEW c \in rows, c.comment # 0
       PROVE  \/ c.kept = Comments[i][c.comment]
              \/ /\ c.kept < Comments[i][c.comment]
                 /\ title + Separator + c.kept >= MaxChars
  <2>1. PICK k \in 1..L : c = cs[k]
    BY <1>12
  <2>2. /\ cs[k].comment \in 1..N
        /\ cs[k].kept = Fitting(title, Comments[i][cs[k].comment])
    <3>1. k > B
      BY <1>14, <1>15, <1>19, <2>1
    <3> QED
      BY <1>14, <1>21, <3>1
  <2>3. PICK comments \in Seq(Nat) : comments = Comments[i]
    BY <1>2
  <2>7. Len(comments) = N
    BY <1>4, <2>3
  <2>8. PICK j \in 1..N : j = cs[k].comment
    BY <2>2
  <2>6. comments[j] \in Nat
    BY <2>7
  <2>4. PICK m \in Nat : m = Comments[i][cs[k].comment]
    BY <2>3, <2>6, <2>8
  <2>5. \/ Fitting(title, m) = m
        \/ /\ Fitting(title, m) < m
           /\ title + Separator + Fitting(title, m) >= MaxChars
    BY FittingIsNat
  <2>9. c.comment = cs[k].comment /\ c.kept = Fitting(title, m)
    BY <2>1, <2>2, <2>4
  <2> QED
    BY <2>4, <2>5, <2>9
<1>18. IsWhole(rows, i)
  BY <1>4, <1>8, <1>11, <1>13, <1>16, <1>17, <1>19, <1>20 DEF IsWhole
<1> QED
  BY <1>1, <1>10, <1>18

\* WholeIssues: wherever runs have stopped, an issue is in the table with all
\* its paragraphs and all its comments in order, comments cut only where their
\* row is full, or not at all.
THEOREM IssuesAreWhole == Spec => []WholeIssues
<1>1. IndexInv => WholeIssues
  <2> SUFFICES ASSUME IndexInv, NEW x \in Runs, NEW i \in Issues, NEW rows,
                      rows = {d.chunk.content : d \in {e \in Inserted(x) : e.chunk.issue = i}},
                      rows # {}
               PROVE  IsWhole(rows, i)
    BY DEF WholeIssues
  <2>1. PICK L \in Nat : L = Len(Texts(i))
    BY ChunksOfIssue
  <2>2. PICK c \in Seq(Chunk) :
          c = Chunks[i] /\ Len(c) = L /\ \A k \in 1..L : c[k].content = Texts(i)[k] /\ c[k].issue = i
    BY <2>1, ChunksOfIssue
  <2>3. Range(c) = {c[k] : k \in 1..L}
    BY <2>2 DEF Range
  <2>4. Range(Texts(i)) = {Texts(i)[k] : k \in 1..L}
    BY <2>1, ChunksOfIssue DEF Range
  <2>5. Full(Table(x))
    BY DEF IndexInv, ChunksAreFull
  <2>6. ASSUME NEW t \in rows PROVE t \in Range(Texts(i)) /\ Range(c) \subseteq Table(x)
    <3>1. PICK d \in Inserted(x) : d.chunk.issue = i /\ t = d.chunk.content
      BY <2>6
    <3>2. d.chunk \in Table(x)
      BY DEF Table
    <3>3. d.chunk \in Range(c) /\ Range(c) \subseteq Table(x)
      BY <2>2, <2>5, <3>1, <3>2 DEF Full
    <3> QED
      BY <2>2, <2>3, <2>4, <3>1, <3>3
  <2>7. ASSUME NEW t \in Range(Texts(i)) PROVE t \in rows
    <3>1. PICK k \in 1..L : t = Texts(i)[k]
      BY <2>4
    <3>2. c[k] \in Table(x)
      BY <2>3, <2>6
    <3>3. PICK d \in Inserted(x) : d.chunk = c[k]
      BY <3>2 DEF Table
    <3> QED
      BY <2>2, <3>1, <3>3
  <2>8. rows = Range(Texts(i))
    BY <2>6, <2>7
  <2> QED
    BY <2>8, ChunksAreWhole
<1> QED
  BY <1>1, IndexIsKept, PTL

-----------------------------------------------------------------------------
(* What a calm fetch has looked at.                                        *)

Eligibles(s) == {i \in Listed(s) : Eligible(s, i)}

\* Those after the first n pages.
Beyond(s, n) == {i \in Eligibles(s) : n * PerPage <= Newer(Listed(s), i)}

\* The rows are what is wanted of all but those that are left, which are older.
LookedAt(s, rows, left) ==
  /\ Distinct(rows)
  /\ left \subseteq Eligibles(s)
  /\ ToSet(rows) = Wanted(s) \ left
  /\ \A i \in Eligibles(s) \ left : \A j \in left : j < i

Complete(s, rows) == ToSet(rows) = Newest(Wanted(s), Limit[s])

Descending(q) == \A k, l \in 1..Len(q) : k < l => q[l] < q[k]

OnPage(q, s, n) ==
  /\ Descending(q)
  /\ \A i \in Range(q) : i \in Eligibles(s) /\ Newer(Listed(s), i) < n * PerPage

CalmInv ==
  /\ fpc = "idle" => source = "core" /\ page = 1 /\ got["core"] = <<>>
  /\ calm /\ fpc = "list" => LookedAt(source, got[source], Beyond(source, page - 1))
  /\ calm /\ fpc = "comments" =>
       /\ LookedAt("core", got["core"], Range(queue) \cup Beyond("core", page))
       /\ more <=> HasNext("core", page)
       /\ OnPage(queue, "core", page)
  /\ calm /\ source = "docs" => Complete("core", got["core"])
  /\ calm /\ fpc = "write" => source = "docs" /\ Complete("docs", got["docs"])

\* The listing is a finite set of numbers, and so are its parts.
LEMMA ListingIsFinite ==
  ASSUME FetchTypes, NEW s \in {"core", "docs"}
  PROVE  /\ Listed(s) \in SUBSET Nat /\ IsFiniteSet(Listed(s))
         /\ Eligibles(s) \subseteq Listed(s) /\ Eligibles(s) \subseteq Nat
         /\ Wanted(s) \subseteq Eligibles(s) /\ Wanted(s) \in SUBSET Nat /\ IsFiniteSet(Wanted(s))
         /\ Wanted(s) = {i \in Eligibles(s) : i \notin Blank}
         /\ s = "docs" => Wanted(s) = Eligibles(s)
<1>1. Listed(s) \in SUBSET Issues
  BY DEF Listed, FetchTypes, FetchTypeOK
<1>2. Listed(s) \in SUBSET Nat /\ IsFiniteSet(Listed(s))
  BY <1>1, FetchAssumption, FS_Subset
<1>3. Wanted(s) = {i \in Eligibles(s) : i \notin Blank} /\ Eligibles(s) \subseteq Listed(s)
  BY DEF Wanted, Eligibles
<1>4. Wanted(s) \in SUBSET Listed(s)
  BY <1>3
<1>5. IsFiniteSet(Wanted(s))
  BY <1>2, <1>4, FS_Subset
<1>6. s = "docs" => \A i \in Eligibles(s) : i \notin Blank
  BY FetchAssumption, TwoRepositories DEF Eligibles, Listed
<1> QED
  BY <1>2, <1>3, <1>4, <1>5, <1>6

\* With nothing left, or with as many rows as the limit allows, the rows are
\* the newest of what is wanted.
LEMMA EnoughIsComplete ==
  ASSUME FetchTypes, NEW s \in {"core", "docs"}, NEW rows \in Seq(Repository[s]), NEW left,
         LookedAt(s, rows, left), Len(rows) <= Limit[s], left = {} \/ Len(rows) >= Limit[s]
  PROVE  Complete(s, rows)
<1>1. PICK W \in SUBSET Nat : W = Wanted(s) /\ IsFiniteSet(W) /\ W \subseteq Eligibles(s)
  BY ListingIsFinite
<1>2. PICK A : A = Range(rows)
  OBVIOUS
<1>3. A = W \ left
  BY <1>1, <1>2 DEF LookedAt, ToSet, Range
<1>4. PICK l \in Nat : l = Limit[s]
  BY TwoRepositories
<1>5. PICK n \in Nat : n = Len(rows) /\ n <= l /\ (left = {} \/ n = l)
  BY <1>4
<1>6. Cardinality(A) = n
  BY <1>2, <1>5, DistinctCounts DEF LookedAt
<1>7. IsFiniteSet(A)
  <2>1. A \in SUBSET W
    BY <1>3
  <2> QED
    BY <1>1, <2>1, FS_Subset
<1>8. \A i \in A : \A j \in W \cap left : j < i
  BY <1>1, <1>3 DEF LookedAt
<1>9. ASSUME NEW i \in A PROVE Newer(W, i) < l
  <2>1. {j \in W : j > i} \in SUBSET (A \ {i})
    <3> SUFFICES ASSUME NEW j \in W, j > i PROVE j \in A \ {i}
      OBVIOUS
    <3>1. i \in Nat /\ j \in Nat
      BY <1>3
    <3>2. j \notin left
      BY <1>8, <3>1
    <3> QED
      BY <1>3, <3>1, <3>2
  <2>2. IsFiniteSet(A \ {i}) /\ Cardinality(A \ {i}) = n - 1
    BY <1>6, <1>7, FS_RemoveElement
  <2>3. Cardinality({j \in W : j > i}) <= n - 1 /\ IsFiniteSet({j \in W : j > i})
    BY <2>1, <2>2, FS_Subset
  <2>4. Cardinality({j \in W : j > i}) \in Nat
    BY <2>3, FS_CardinalityType
  <2> QED
    BY <1>5, <2>3, <2>4 DEF Newer
<1>10. ASSUME NEW i \in W, i \notin A PROVE ~(Newer(W, i) < l)
  <2>1. i \in left /\ n = l
    BY <1>3, <1>5, <1>10
  <2>2. A \in SUBSET {j \in W : j > i}
    <3> SUFFICES ASSUME NEW j \in A PROVE j \in W /\ j > i
      OBVIOUS
    <3>1. i \in Nat /\ j \in Nat /\ j \in W
      BY <1>3
    <3>2. i < j
      BY <1>8, <2>1
    <3> QED
      BY <3>1, <3>2
  <2>3. {j \in W : j > i} \in SUBSET W
    OBVIOUS
  <2>4. IsFiniteSet({j \in W : j > i})
    BY <1>1, <2>3, FS_Subset
  <2>5. Cardinality(A) <= Cardinality({j \in W : j > i})
    BY <2>2, <2>4, FS_Subset
  <2>6. Cardinality({j \in W : j > i}) \in Nat
    BY <2>4, FS_CardinalityType
  <2> QED
    BY <1>6, <2>1, <2>5, <2>6 DEF Newer
<1>11. A = {i \in W : Newer(W, i) < l}
  BY <1>3, <1>9, <1>10
<1> QED
  BY <1>1, <1>2, <1>4, <1>11 DEF Complete, Newest, ToSet, Range

\* Before the first page nothing is looked at.
LEMMA NothingLookedAt ==
  ASSUME FetchTypes, NEW s \in {"core", "docs"}
  PROVE  LookedAt(s, <<>>, Beyond(s, 0))
<1>1. \A i \in Eligibles(s) : 0 * PerPage <= Newer(Listed(s), i)
  <2> SUFFICES ASSUME NEW i \in Eligibles(s) PROVE 0 * PerPage <= Newer(Listed(s), i)
    OBVIOUS
  <2>1. Newer(Listed(s), i) \in Nat
    BY ListingIsFinite, NewerGrows
  <2>2. 0 * PerPage = 0
    BY FetchAssumption
  <2> QED
    BY <2>1, <2>2
<1>2. Beyond(s, 0) = Eligibles(s)
  BY <1>1 DEF Beyond
<1>3. ToSet(<<>>) = {}
  BY DEF ToSet
<1>4. Distinct(<<>>)
  BY EmptySeq DEF Distinct
<1>5. Wanted(s) \subseteq Eligibles(s)
  BY ListingIsFinite
<1> QED
  BY <1>2, <1>3, <1>4, <1>5 DEF LookedAt

\* Behind the last page is nothing.
LEMMA NothingBeyondLast ==
  ASSUME FetchTypes, NEW s \in {"core", "docs"}, NEW n \in Nat, ~HasNext(s, n)
  PROVE  Beyond(s, n) = {}
<1>1. PICK k \in Nat : k = n * PerPage
  <2>1. PerPage \in Nat
    BY FetchAssumption
  <2> QED
    BY <2>1
<1>2. PICK m \in Nat : m = Cardinality(Listed(s))
  BY ListingIsFinite, FS_CardinalityType
<1>3. m <= k
  BY <1>1, <1>2 DEF HasNext
<1>4. ASSUME NEW i \in Eligibles(s) PROVE ~(k <= Newer(Listed(s), i))
  <2>1. Newer(Listed(s), i) \in Nat /\ Newer(Listed(s), i) < m
    BY <1>2, ListingIsFinite, NewerGrows
  <2> QED
    BY <1>3, <2>1
<1> QED
  BY <1>1, <1>4 DEF Beyond

\* What is looked at does not change while the listing does not.
LEMMA SameListing ==
  ASSUME closed' = closed, NEW s, NEW rows, NEW left, NEW n, NEW q
  PROVE  /\ Beyond(s, n)' = Beyond(s, n)
         /\ LookedAt(s, rows, left)' <=> LookedAt(s, rows, left)
         /\ Complete(s, rows)' <=> Complete(s, rows)
         /\ OnPage(q, s, n)' <=> OnPage(q, s, n)
         /\ HasNext(s, n)' <=> HasNext(s, n)
<1>1. Listed(s)' = Listed(s)
  BY DEF Listed
<1>2. Eligibles(s)' = Eligibles(s) /\ Wanted(s)' = Wanted(s)
  BY <1>1 DEF Eligibles, Wanted
<1>3. Beyond(s, n)' = Beyond(s, n)
  BY <1>1, <1>2 DEF Beyond
<1>4. LookedAt(s, rows, left)' <=> LookedAt(s, rows, left)
  BY <1>2 DEF LookedAt
<1>5. Complete(s, rows)' <=> Complete(s, rows)
  BY <1>2 DEF Complete
<1>6. OnPage(q, s, n)' <=> OnPage(q, s, n)
  BY <1>1, <1>2 DEF OnPage
<1>7. HasNext(s, n)' <=> HasNext(s, n)
  BY <1>1 DEF HasNext
<1> QED
  BY <1>3, <1>4, <1>5, <1>6, <1>7

\* What is on a page, in which order, and what is behind it.
LEMMA FoundIsPage ==
  ASSUME FetchTypes, NEW s \in {"core", "docs"}, NEW n \in Nat \ {0}
  PROVE  /\ Distinct(Found(s, n)) /\ OnPage(Found(s, n), s, n)
         /\ Beyond(s, n - 1) = Range(Found(s, n)) \cup Beyond(s, n)
         /\ \A i \in Range(Found(s, n)) : \A j \in Beyond(s, n) : j < i
<1>1. PICK L \in SUBSET Nat : L = Listed(s) /\ IsFiniteSet(L)
  BY ListingIsFinite
<1>2. PICK S : S = {i \in Page(s, n) : Eligible(s, i)}
  OBVIOUS
<1>3. PICK a \in Nat : a = (n - 1) * PerPage
  <2>1. n - 1 \in Nat /\ PerPage \in Nat
    BY FetchAssumption
  <2> QED
    BY <2>1
<1>4. PICK b \in Nat : b = n * PerPage
  <2>1. PerPage \in Nat
    BY FetchAssumption
  <2> QED
    BY <2>1
<1>5. a <= b
  <2>1. PICK p \in Nat : p = PerPage
    BY FetchAssumption
  <2>2. n * p = (n - 1) * p + p
    OBVIOUS
  <2> QED
    BY <1>3, <1>4, <2>1, <2>2
<1>6. Eligibles(s) = {i \in L : Eligible(s, i)}
  BY <1>1 DEF Eligibles
<1>7. S = {i \in Eligibles(s) : a <= Newer(L, i) /\ Newer(L, i) < b}
  BY <1>1, <1>2, <1>3, <1>4, <1>6 DEF Page
<1>8. \A i \in L : Newer(L, i) \in Nat
  BY <1>1, NewerGrows
<1>9. Beyond(s, n - 1) = {i \in Eligibles(s) : a <= Newer(L, i)}
      /\ Beyond(s, n) = {i \in Eligibles(s) : b <= Newer(L, i)}
  BY <1>1, <1>3, <1>4 DEF Beyond
<1>10. Beyond(s, n - 1) = S \cup Beyond(s, n)
  <2>1. \A i \in Eligibles(s) : a <= Newer(L, i) <=>
          (a <= Newer(L, i) /\ Newer(L, i) < b) \/ b <= Newer(L, i)
    <3> SUFFICES ASSUME NEW i \in Eligibles(s)
                 PROVE  a <= Newer(L, i) <=>
                          (a <= Newer(L, i) /\ Newer(L, i) < b) \/ b <= Newer(L, i)
      OBVIOUS
    <3>1. Newer(L, i) \in Nat
      BY <1>6, <1>8
    <3> QED
      BY <1>5, <3>1
  <2> QED
    BY <1>7, <1>9, <2>1
<1>11. ASSUME NEW i \in S, NEW j \in Beyond(s, n) PROVE j < i
  <2>1. i \in L /\ j \in L /\ i \in Nat /\ j \in Nat
    BY <1>6, <1>7, <1>9
  <2>2. Newer(L, i) < b /\ b <= Newer(L, j)
    BY <1>7, <1>9, <1>11
  <2>3. Newer(L, i) \in Nat /\ Newer(L, j) \in Nat
    BY <1>8, <2>1
  <2>4. i # j
    BY <2>2, <2>3
  <2>5. ~(i < j)
    <3>1. i < j => Newer(L, j) < Newer(L, i)
      BY <1>1, <2>1, NewerGrows
    <3> QED
      BY <2>2, <2>3, <3>1
  <2> QED
    BY <2>1, <2>4, <2>5
<1>12. S \in SUBSET L /\ S \in SUBSET Nat /\ IsFiniteSet(S)
  <2>1. S \in SUBSET L
    BY <1>6, <1>7
  <2> QED
    BY <1>1, <2>1, FS_Subset
<1>13. PICK K \in Nat : K = Cardinality(S)
  BY <1>12, FS_CardinalityType
<1>14. PICK f \in Seq(S) : f = Found(s, n)
  BY <1>2, <1>12, NewestFirstIsTheSet DEF Found
<1>15. /\ Len(f) = K
       /\ \A k \in 1..K : Newer(S, f[k]) = k - 1
       /\ \A i \in S : \E k \in 1..K : f[k] = i
  BY <1>2, <1>12, <1>13, <1>14, NewestFirstIsTheSet DEF Found
<1>16. \A k \in 1..K : f[k] \in S
  BY <1>14, <1>15
<1>17. Range(f) = S
  <2>1. Range(f) = {f[k] : k \in 1..K}
    <3>1. DOMAIN f = 1..K
      BY <1>14, <1>15
    <3> QED
      BY <3>1 DEF Range
  <2> QED
    BY <1>15, <1>16, <2>1
<1>18. ASSUME NEW k \in 1..K, NEW l \in 1..K, k < l PROVE f[l] < f[k]
  <2>1. PICK i \in S : i = f[k] /\ Newer(S, i) = k - 1
    BY <1>15, <1>16
  <2>2. PICK j \in S : j = f[l] /\ Newer(S, j) = l - 1
    BY <1>15, <1>16
  <2>3. i \in Nat /\ j \in Nat
    BY <1>12
  <2>4. i # j
    BY <1>18, <2>1, <2>2
  <2>5. ~(i < j)
    <3>1. i < j => Newer(S, j) < Newer(S, i)
      BY <1>12, <2>3, NewerGrows
    <3> QED
      BY <1>18, <2>1, <2>2, <3>1
  <2> QED
    BY <2>1, <2>2, <2>3, <2>4, <2>5
<1>19. Descending(f)
  BY <1>15, <1>18 DEF Descending
<1>20. Distinct(f)
  <2>1. ASSUME NEW k \in 1..K, NEW l \in 1..K, f[k] = f[l] PROVE k = l
    <3>1. k - 1 = l - 1
      BY <1>15, <2>1
    <3> QED
      BY <3>1
  <2> QED
    BY <1>15, <2>1 DEF Distinct
<1>21. OnPage(f, s, n)
  BY <1>1, <1>4, <1>7, <1>17, <1>19 DEF OnPage
<1> QED
  BY <1>10, <1>11, <1>14, <1>17, <1>20, <1>21

\* A repository that ends is complete.
LEMMA EndSourceIsCalm ==
  ASSUME FetchTypes, EndSource, closed' = closed, calm' = calm, CalmInv,
         NEW rows, DOMAIN got' = DOMAIN got, got'[source] = rows,
         \A t \in {"core", "docs"} : t # source => got'[t] = got[t],
         calm => Complete(source, rows)
  PROVE  CalmInv'
<1>1. CASE source = "core"
  <2>1. fpc' = "list" /\ source' = "docs" /\ page' = 1 /\ got'["core"] = rows /\ got'["docs"] = <<>>
    BY <1>1 DEF EndSource, FetchTypes
  <2>2. LookedAt("docs", <<>>, Beyond("docs", 0))
    BY NothingLookedAt
  <2>3. page' - 1 = 0
    BY <2>1
  <2>4. Beyond("docs", 0)' = Beyond("docs", 0)
    BY SameListing
  <2>5. LookedAt("docs", <<>>, Beyond("docs", 0))'
    BY <2>2, <2>4, SameListing
  <2>6. LookedAt(source, got[source], Beyond(source, page - 1))'
    BY <2>1, <2>3, <2>5
  <2>7. calm => Complete("core", rows)'
    BY <1>1, SameListing
  <2>8. calm' => Complete("core", got["core"])'
    BY <2>1, <2>7
  <2> QED
    BY <2>1, <2>6, <2>8 DEF CalmInv
<1>2. CASE source = "docs"
  <2>1. fpc' = "write" /\ source' = "docs" /\ got'["docs"] = rows /\ got'["core"] = got["core"]
    BY <1>2 DEF EndSource
  <2>2. calm => Complete("docs", rows)' /\ Complete("core", got["core"])'
    <3>1. PICK c : c = got["core"]
      OBVIOUS
    <3>2. calm => Complete("core", c)
      BY <1>2, <3>1 DEF CalmInv
    <3> QED
      BY <1>2, <2>1, <3>1, <3>2, SameListing
  <2> QED
    BY <2>1, <2>2 DEF CalmInv
<1> QED
  BY <1>1, <1>2 DEF FetchTypes, FetchTypeOK

\* The loops go on with what is left.
LEMMA ContinueIsCalm ==
  ASSUME FetchTypes, closed' = closed, calm' = calm, CalmInv,
         NEW rows \in Seq(Repository[source]), Len(rows) <= Limit[source],
         NEW left \in Seq(Repository[source]), left # <<>> => source = "core",
         NEW next \in BOOLEAN, Continue(rows, left, next),
         calm => /\ LookedAt(source, rows, Range(left) \cup Beyond(source, page))
                 /\ OnPage(left, source, page)
                 /\ next <=> HasNext(source, page)
  PROVE  CalmInv'
<1>1. got' = [got EXCEPT ![source] = rows]
  BY DEF Continue
<1>2. DOMAIN got' = DOMAIN got /\ got'[source] = rows /\ \A t \in {"core", "docs"} : t # source => got'[t] = got[t]
  BY <1>1 DEF FetchTypes, FetchTypeOK
<1>3. PICK s \in {"core", "docs"} : s = source
  BY DEF FetchTypes, FetchTypeOK
<1>4. PICK n \in Nat \ {0} : n = page
  BY DEF FetchTypes, FetchTypeOK
<1>5. Range(<<>>) = {}
  BY DEF Range
<1>6. CASE EndSource
  <2>1. Len(rows) >= Limit[s] \/ (left = <<>> /\ ~next)
    BY <1>3, <1>6 DEF Continue, EndSource
  <2>2. ASSUME calm PROVE Complete(s, rows)
    <3>1. CASE Len(rows) >= Limit[s]
      BY <1>3, <2>2, <3>1, EnoughIsComplete
    <3>2. CASE left = <<>> /\ ~next
      <4>1. ~HasNext(s, n)
        BY <1>3, <1>4, <2>2, <3>2
      <4>2. Beyond(s, n) = {}
        BY <4>1, NothingBeyondLast
      <4>3. LookedAt(s, rows, {})
        BY <1>3, <1>4, <1>5, <2>2, <3>2, <4>2
      <4> QED
        BY <1>3, <4>3, EnoughIsComplete
    <3> QED
      BY <2>1, <3>1, <3>2
  <2> QED
    BY <1>2, <1>3, <1>6, <2>2, EndSourceIsCalm
<1>7. CASE ~EndSource /\ fpc' = "comments"
  <2>1. /\ s = "core" /\ source' = "core" /\ queue' = left /\ page' = n /\ more' = next
    BY <1>3, <1>4, <1>7 DEF Continue
  <2>2. got'["core"] = rows
    BY <1>2, <1>3, <2>1
  <2>3. ASSUME calm
        PROVE  /\ LookedAt("core", rows, Range(left) \cup Beyond("core", n))'
               /\ (more <=> HasNext("core", page))'
               /\ OnPage(queue, "core", page)'
    <3>1. LookedAt("core", rows, Range(left) \cup Beyond("core", n))
          /\ OnPage(left, "core", n) /\ (next <=> HasNext("core", n))
      BY <1>3, <1>4, <2>1, <2>3
    <3>2. PICK rest : rest = Range(left) \cup Beyond("core", n)
      OBVIOUS
    <3>3. (Range(left) \cup Beyond("core", n))' = rest
      BY <3>2, SameListing
    <3>4. LookedAt("core", rows, rest)'
      BY <3>1, <3>2, SameListing
    <3>5. OnPage(left, "core", n)' /\ (next <=> HasNext("core", n)')
      BY <3>1, SameListing
    <3> QED
      BY <2>1, <3>3, <3>4, <3>5
  <2> QED
    BY <1>7, <2>1, <2>2, <2>3 DEF CalmInv
<1>8. CASE ~EndSource /\ fpc' # "comments"
  <2>1. fpc' = "list" /\ left = <<>> /\ source' = s /\ page' = n + 1
    BY <1>3, <1>4, <1>8 DEF Continue
  <2>2. got'[s] = rows /\ page' - 1 = n
    BY <1>2, <1>3, <2>1
  <2>3. calm => LookedAt(source, got[source], Beyond(source, page - 1))'
    <3>1. calm => LookedAt(s, rows, Beyond(s, n))
      BY <1>3, <1>4, <1>5, <2>1
    <3>2. Beyond(s, n)' = Beyond(s, n)
      BY SameListing
    <3>3. calm => LookedAt(s, rows, Beyond(s, n))'
      BY <3>1, <3>2, SameListing
    <3> QED
      BY <2>1, <2>2, <3>3
  <2>4. calm /\ source' = "docs" => Complete("core", got["core"])'
    <3>1. PICK c : c = got["core"]
      OBVIOUS
    <3>2. source' = "docs" => got'["core"] = c
      BY <1>2, <1>3, <2>1, <3>1
    <3>3. calm /\ s = "docs" => Complete("core", c)
      BY <1>3, <3>1 DEF CalmInv
    <3>4. calm /\ s = "docs" => Complete("core", c)'
      BY <3>3, SameListing
    <3> QED
      BY <2>1, <3>2, <3>4
  <2> QED
    BY <2>1, <2>3, <2>4 DEF CalmInv
<1> QED
  BY <1>6, <1>7, <1>8

\* What is on a page is newer than what is behind it.
LEMMA PageIsNewer ==
  ASSUME FetchTypes, NEW s \in {"core", "docs"}, NEW n \in Nat,
         NEW i \in Eligibles(s), Newer(Listed(s), i) < n * PerPage, NEW j \in Beyond(s, n)
  PROVE  j < i
<1>1. PICK L \in SUBSET Nat : L = Listed(s) /\ IsFiniteSet(L)
  BY ListingIsFinite
<1>2. PICK b \in Nat : b = n * PerPage
  <2>1. PerPage \in Nat
    BY FetchAssumption
  <2> QED
    BY <2>1
<1>3. i \in L /\ j \in L /\ i \in Nat /\ j \in Nat
  BY <1>1 DEF Beyond, Eligibles
<1>4. Newer(L, i) < b /\ b <= Newer(L, j)
  BY <1>1, <1>2 DEF Beyond
<1>5. Newer(L, i) \in Nat /\ Newer(L, j) \in Nat
  BY <1>1, <1>3, NewerGrows
<1>6. i # j
  BY <1>4, <1>5
<1>7. i < j => Newer(L, j) < Newer(L, i)
  BY <1>1, <1>3, NewerGrows
<1>8. ~(i < j)
  BY <1>4, <1>5, <1>7
<1> QED
  BY <1>3, <1>6, <1>8

\* The comments of one issue.
LEMMA OneLookedAt ==
  ASSUME FetchTypes, NEW n \in Nat, NEW q \in Seq(CoreIssues), q # <<>>, OnPage(q, "core", n),
         NEW old \in Seq(CoreIssues), LookedAt("core", old, Range(q) \cup Beyond("core", n)),
         NEW rows, rows = IF Head(q) \in Blank THEN old ELSE Append(old, Head(q))
  PROVE  LookedAt("core", rows, Range(Tail(q)) \cup Beyond("core", n)) /\ OnPage(Tail(q), "core", n)
<1>1. PICK m \in Nat : m + 1 = Len(q)
  <2>1. Len(q) \in Nat /\ Len(q) # 0
    BY EmptySeq
  <2>2. Len(q) - 1 \in Nat /\ Len(q) - 1 + 1 = Len(q)
    BY <2>1
  <2> QED
    BY <2>2
<1>2. PICK i \in CoreIssues : i = Head(q) /\ i = q[1]
  <2>1. 1 \in 1..Len(q)
    BY <1>1
  <2> QED
    BY <2>1
<1>3. PICK t \in Seq(CoreIssues) : t = Tail(q) /\ Len(t) = m /\ \A k \in 1..m : t[k] = q[k + 1]
  <2>1. PICK t : t = Tail(q)
    OBVIOUS
  <2>2. t \in Seq(CoreIssues) /\ Len(t) = Len(q) - 1
    BY <2>1, HeadTailProperties
  <2>3. \A k \in 1..m : t[k] = q[k + 1]
    BY <1>1, <2>1
  <2> QED
    BY <1>1, <2>1, <2>2, <2>3
<1>4. Range(q) = {q[k] : k \in 1..(m + 1)} /\ Range(t) = {t[k] : k \in 1..m}
  <2>1. DOMAIN q = 1..(m + 1) /\ DOMAIN t = 1..m
    BY <1>1, <1>3
  <2> QED
    BY <2>1 DEF Range
<1>5. \A k \in 1..m : k + 1 \in 1..(m + 1) /\ t[k] = q[k + 1]
  BY <1>3
<1>6. \A k, l \in 1..(m + 1) : k < l => q[l] < q[k]
  BY <1>1 DEF OnPage, Descending
<1>7. \A j \in Range(t) : j < i /\ j \in Range(q)
  <2> SUFFICES ASSUME NEW k \in 1..m PROVE t[k] < i /\ t[k] \in Range(q)
    BY <1>4
  <2>1. 1 \in 1..(m + 1) /\ k + 1 \in 1..(m + 1) /\ 1 < k + 1
    OBVIOUS
  <2> QED
    BY <1>2, <1>4, <1>5, <1>6, <2>1
<1>8. Range(q) = Range(t) \cup {i}
  <2>1. ASSUME NEW k \in 1..(m + 1) PROVE q[k] \in Range(t) \cup {i}
    <3>1. CASE k = 1
      BY <1>2, <3>1
    <3>2. CASE k # 1
      <4>1. k - 1 \in 1..m /\ (k - 1) + 1 = k
        BY <3>2
      <4>2. t[k - 1] = q[k]
        BY <1>3, <4>1
      <4> QED
        BY <1>4, <4>1, <4>2
    <3> QED
      BY <3>1, <3>2
  <2>2. i \in Range(q)
    <3>1. 1 \in 1..(m + 1)
      OBVIOUS
    <3> QED
      BY <1>2, <1>4, <3>1
  <2> QED
    BY <1>4, <1>7, <2>1, <2>2
<1>9. OnPage(t, "core", n)
  <2>1. Descending(t)
    <3> SUFFICES ASSUME NEW k \in 1..m, NEW l \in 1..m, k < l PROVE t[l] < t[k]
      BY <1>3 DEF Descending
    <3>1. k + 1 \in 1..(m + 1) /\ l + 1 \in 1..(m + 1) /\ k + 1 < l + 1
      OBVIOUS
    <3> QED
      BY <1>5, <1>6, <3>1
  <2> QED
    BY <1>8, <2>1 DEF OnPage
<1>10. i \in Eligibles("core") /\ Newer(Listed("core"), i) < n * PerPage
  BY <1>8 DEF OnPage
<1>11. PICK R : R = Beyond("core", n)
  OBVIOUS
<1>12. \A j \in R : j < i
  BY <1>10, <1>11, PageIsNewer
<1>13. i \in Nat
  BY TwoRepositories
<1>14. PICK new : new = Range(t) \cup R
  OBVIOUS
<1>15. Range(q) \cup R = new \cup {i} /\ i \notin new /\ \A j \in new : j < i
  <2>1. \A j \in new : j < i
    BY <1>7, <1>12, <1>14
  <2>2. i \notin new
    BY <1>13, <2>1
  <2> QED
    BY <1>8, <1>14, <2>1, <2>2
<1>16. /\ Distinct(old) /\ new \cup {i} \subseteq Eligibles("core")
       /\ ToSet(old) = Wanted("core") \ (new \cup {i})
       /\ \A h \in Eligibles("core") \ (new \cup {i}) : \A j \in new \cup {i} : j < h
  BY <1>11, <1>15 DEF LookedAt
<1>17. \A h \in Eligibles("core") \ new : \A j \in new : j < h
  BY <1>15, <1>16
<1>18. Wanted("core") = {h \in Eligibles("core") : h \notin Blank}
  BY ListingIsFinite
<1>19. CASE i \in Blank
  <2>1. rows = old
    BY <1>2, <1>19
  <2>2. ToSet(old) = Wanted("core") \ new
    BY <1>16, <1>18, <1>19
  <2>3. LookedAt("core", rows, new)
    BY <1>16, <1>17, <2>1, <2>2 DEF LookedAt
  <2> QED
    BY <1>3, <1>9, <1>11, <1>14, <2>3
<1>20. CASE i \notin Blank
  <2>1. PICK u \in Seq(CoreIssues) : u = Append(old, i)
    BY AppendProperties
  <2>2. PICK o \in Nat : o = Len(old)
    OBVIOUS
  <2>3. Len(u) = o + 1 /\ u[o + 1] = i /\ \A k \in 1..o : u[k] = old[k]
    BY <2>1, <2>2, AppendProperties
  <2>4. rows = u
    BY <1>2, <1>20, <2>1
  <2>5. ToSet(old) = {old[k] : k \in 1..o} /\ ToSet(u) = {u[k] : k \in 1..(o + 1)}
    <3>1. DOMAIN old = 1..o /\ DOMAIN u = 1..(o + 1)
      BY <2>2, <2>3
    <3> QED
      BY <3>1 DEF ToSet
  <2>6. \A k \in 1..(o + 1) : k \in 1..o \/ k = o + 1
    OBVIOUS
  <2>7. ToSet(u) = ToSet(old) \cup {i}
    <3>1. \A k \in 1..o : k \in 1..(o + 1)
      OBVIOUS
    <3>2. o + 1 \in 1..(o + 1)
      OBVIOUS
    <3>3. \A k \in 1..(o + 1) : u[k] \in ToSet(old) \cup {i}
      BY <2>3, <2>5, <2>6
    <3>4. \A k \in 1..o : old[k] \in ToSet(u)
      BY <2>3, <2>5, <3>1
    <3>5. i \in ToSet(u)
      BY <2>3, <2>5, <3>2
    <3> QED
      BY <2>5, <3>3, <3>4, <3>5
  <2>8. i \notin ToSet(old)
    BY <1>16
  <2>9. Distinct(u)
    <3>1. \A k, l \in 1..o : old[k] = old[l] => k = l
      BY <1>16, <2>2 DEF Distinct
    <3>2. \A k \in 1..o : old[k] # i
      BY <2>5, <2>8
    <3>3. ASSUME NEW k \in 1..(o + 1), NEW l \in 1..(o + 1), u[k] = u[l] PROVE k = l
      BY <2>3, <2>6, <3>1, <3>2, <3>3
    <3> QED
      BY <2>3, <3>3 DEF Distinct
  <2>10. i \in Wanted("core")
    BY <1>16, <1>18, <1>20
  <2>11. ToSet(u) = Wanted("core") \ new
    BY <1>15, <1>16, <2>7, <2>10
  <2>12. LookedAt("core", rows, new)
    BY <1>16, <1>17, <2>4, <2>9, <2>11 DEF LookedAt
  <2> QED
    BY <1>3, <1>9, <1>11, <1>14, <2>12
<1> QED
  BY <1>19, <1>20

\* The first issues of a page of home-assistant.io.
LEMMA DocsLookedAt ==
  ASSUME FetchTypes, NEW n \in Nat \ {0}, NEW old \in Seq(DocsIssues),
         LookedAt("docs", old, Beyond("docs", n - 1)),
         NEW found \in Seq(DocsIssues), found = Found("docs", n), NEW room \in 0..Len(found),
         NEW rows, rows = old \o SubSeq(found, 1, room)
  PROVE  LookedAt("docs", rows,
           {found[k] : k \in (room + 1)..Len(found)} \cup Beyond("docs", n))
<1>1. PICK F \in Nat : F = Len(found) /\ room \in 0..F
  OBVIOUS
<1>2. Range(found) = {found[k] : k \in 1..F}
  <2>1. DOMAIN found = 1..F
    BY <1>1
  <2> QED
    BY <2>1 DEF Range
<1>3. PICK R : R = Beyond("docs", n)
  OBVIOUS
<1>4. PICK late : late = {found[k] : k \in (room + 1)..F}
  OBVIOUS
<1>5. PICK early : early = {found[k] : k \in 1..room}
  OBVIOUS
<1>6. /\ \A k, l \in 1..F : found[k] = found[l] => k = l
      /\ \A k, l \in 1..F : k < l => found[l] < found[k]
      /\ Beyond("docs", n - 1) = Range(found) \cup R
      /\ \A i \in Range(found) : \A j \in R : j < i
  BY <1>1, <1>3, FoundIsPage DEF Distinct, OnPage, Descending
<1>7. Range(found) = early \cup late
  <2>1. \A k \in 1..F : k \in 1..room \/ k \in (room + 1)..F
    BY <1>1
  <2>2. \A k \in 1..room : k \in 1..F
    BY <1>1
  <2>3. \A k \in (room + 1)..F : k \in 1..F
    BY <1>1
  <2>4. early \subseteq Range(found)
    BY <1>2, <1>5, <2>2
  <2>5. late \subseteq Range(found)
    BY <1>2, <1>4, <2>3
  <2>6. Range(found) \subseteq early \cup late
    BY <1>2, <1>4, <1>5, <2>1
  <2> QED
    BY <2>4, <2>5, <2>6
<1>8. \A i \in early : \A j \in late : j < i
  <2> SUFFICES ASSUME NEW k \in 1..room, NEW l \in (room + 1)..F PROVE found[l] < found[k]
    BY <1>4, <1>5
  <2>1. k \in 1..F /\ l \in 1..F /\ k < l
    BY <1>1
  <2> QED
    BY <1>6, <2>1
<1>9. early \subseteq Nat /\ R \subseteq Nat
  <2>1. R \subseteq Nat
    BY <1>3, ListingIsFinite DEF Beyond
  <2>2. \A k \in 1..room : found[k] \in DocsIssues
    BY <1>1
  <2> QED
    BY <1>5, <2>1, <2>2, TwoRepositories
<1>10. PICK rest : rest = late \cup R
  OBVIOUS
<1>11. Beyond("docs", n - 1) = early \cup rest /\ \A i \in early : \A j \in rest : j < i
  BY <1>6, <1>7, <1>8, <1>10
<1>12. \A i \in early : i \notin rest
  BY <1>9, <1>11
<1>13. /\ Distinct(old) /\ early \cup rest \subseteq Eligibles("docs")
       /\ ToSet(old) = Wanted("docs") \ (early \cup rest)
       /\ \A h \in Eligibles("docs") \ (early \cup rest) : \A j \in early \cup rest : j < h
  BY <1>11 DEF LookedAt
<1>14. \A h \in Eligibles("docs") \ rest : \A j \in rest : j < h
  BY <1>11, <1>13
<1>15. PICK t \in Seq(DocsIssues) : t = SubSeq(found, 1, room) /\ Len(t) = room /\ \A k \in 1..room : t[k] = found[k]
  <2>1. room \in 0..Len(found)
    OBVIOUS
  <2>2. /\ SubSeq(found, 1, room) \in Seq(DocsIssues) /\ Len(SubSeq(found, 1, room)) = room
        /\ \A k \in 1..room : SubSeq(found, 1, room)[k] = found[k]
    BY <2>1, FirstOnesAppended
  <2> QED
    BY <2>2
<1>16. PICK o \in Nat : o = Len(old)
  OBVIOUS
<1>17. PICK r \in Nat : r = room
  OBVIOUS
<1>18. PICK u \in Seq(DocsIssues) : u = rows
  BY <1>15, ConcatProperties
<1>19. Len(u) = o + r /\ \A k \in 1..(o + r) : u[k] = IF k <= o THEN old[k] ELSE t[k - o]
  BY <1>15, <1>16, <1>17, <1>18, ConcatProperties
<1>20. \A k \in 1..o : u[k] = old[k]
  BY <1>19
<1>21. \A k \in 1..r : u[o + k] = found[k]
  <2> SUFFICES ASSUME NEW k \in 1..r PROVE u[o + k] = found[k]
    OBVIOUS
  <2>1. o + k \in 1..(o + r) /\ ~(o + k <= o) /\ (o + k) - o = k
    OBVIOUS
  <2> QED
    BY <1>15, <1>17, <1>19, <2>1
<1>22. ASSUME NEW k \in 1..(o + r) PROVE k \in 1..o \/ \E j \in 1..r : k = o + j
  <2>1. CASE k <= o
    BY <2>1
  <2>2. CASE k > o
    <3>1. k - o \in 1..r /\ k = o + (k - o)
      BY <2>2
    <3> QED
      BY <3>1
  <2> QED
    BY <2>1, <2>2
<1>23. ToSet(old) = {old[k] : k \in 1..o} /\ ToSet(u) = {u[k] : k \in 1..(o + r)}
  <2>1. DOMAIN old = 1..o /\ DOMAIN u = 1..(o + r)
    BY <1>16, <1>19
  <2> QED
    BY <2>1 DEF ToSet
<1>24. ToSet(u) = ToSet(old) \cup early
  <2>1. ASSUME NEW k \in 1..(o + r) PROVE u[k] \in ToSet(old) \cup early
    <3>1. CASE k \in 1..o
      BY <1>20, <1>23, <3>1
    <3>2. CASE \E j \in 1..r : k = o + j
      <4>1. PICK j \in 1..r : k = o + j
        BY <3>2
      <4>2. u[k] = found[j] /\ found[j] \in early
        BY <1>5, <1>17, <1>21, <4>1
      <4> QED
        BY <4>2
    <3> QED
      BY <1>22, <3>1, <3>2
  <2>2. ASSUME NEW k \in 1..o PROVE old[k] \in ToSet(u)
    <3>1. k \in 1..(o + r)
      OBVIOUS
    <3> QED
      BY <1>20, <1>23, <3>1
  <2>3. ASSUME NEW k \in 1..r PROVE found[k] \in ToSet(u)
    <3>1. o + k \in 1..(o + r)
      OBVIOUS
    <3> QED
      BY <1>21, <1>23, <3>1
  <2>4. ToSet(u) \subseteq ToSet(old) \cup early
    BY <1>23, <2>1
  <2>5. ToSet(old) \subseteq ToSet(u)
    BY <1>23, <2>2
  <2>6. early \subseteq ToSet(u)
    BY <1>5, <1>17, <2>3
  <2> QED
    BY <2>4, <2>5, <2>6
<1>25. \A k \in 1..o : \A l \in 1..r : old[k] # found[l]
  <2> SUFFICES ASSUME NEW k \in 1..o, NEW l \in 1..r, old[k] = found[l] PROVE FALSE
    OBVIOUS
  <2>1. old[k] \in ToSet(old) /\ found[l] \in early
    BY <1>5, <1>17, <1>23
  <2> QED
    BY <1>13, <2>1
<1>26. Distinct(u)
  <2>1. \A k, l \in 1..o : old[k] = old[l] => k = l
    BY <1>13, <1>16 DEF Distinct
  <2>2. \A k, l \in 1..r : found[k] = found[l] => k = l
    <3>1. \A k \in 1..r : k \in 1..F
      BY <1>1, <1>17
    <3> QED
      BY <1>6, <3>1
  <2>3. ASSUME NEW k \in 1..(o + r), NEW l \in 1..(o + r), u[k] = u[l] PROVE k = l
    <3>1. CASE k \in 1..o /\ l \in 1..o
      BY <1>20, <2>1, <2>3, <3>1
    <3>2. CASE k \in 1..o /\ \E j \in 1..r : l = o + j
      <4>1. PICK j \in 1..r : l = o + j
        BY <3>2
      <4>2. old[k] = found[j]
        BY <1>20, <1>21, <2>3, <3>2, <4>1
      <4> QED
        BY <1>25, <3>2, <4>2
    <3>3. CASE l \in 1..o /\ \E j \in 1..r : k = o + j
      <4>1. PICK j \in 1..r : k = o + j
        BY <3>3
      <4>2. old[l] = found[j]
        BY <1>20, <1>21, <2>3, <3>3, <4>1
      <4> QED
        BY <1>25, <3>3, <4>2
    <3>4. CASE (\E j \in 1..r : k = o + j) /\ (\E j \in 1..r : l = o + j)
      <4>1. PICK j \in 1..r : k = o + j
        BY <3>4
      <4>2. PICK h \in 1..r : l = o + h
        BY <3>4
      <4>3. found[j] = found[h]
        BY <1>21, <2>3, <4>1, <4>2
      <4>4. j = h
        BY <2>2, <4>3
      <4> QED
        BY <4>1, <4>2, <4>4
    <3> QED
      BY <1>22, <3>1, <3>2, <3>3, <3>4
  <2> QED
    BY <1>19, <2>3 DEF Distinct
<1>27. Wanted("docs") = Eligibles("docs")
  BY ListingIsFinite
<1>28. ToSet(u) = Wanted("docs") \ rest
  BY <1>12, <1>13, <1>24, <1>27
<1>29. LookedAt("docs", u, rest)
  BY <1>13, <1>14, <1>26, <1>28 DEF LookedAt
<1> QED
  BY <1>1, <1>3, <1>4, <1>10, <1>18, <1>29

\* The end of a process leaves nothing to be complete.
LEMMA EndFetchIsCalm == ASSUME EndFetch PROVE CalmInv'
<1>1. fpc' = "idle" /\ source' = "core" /\ page' = 1 /\ got'["core"] = <<>>
  BY DEF EndFetch
<1> QED
  BY <1>1 DEF CalmInv

\* What only counts, waits or writes leaves the rows as they are.
LEMMA RestIsCalm ==
  ASSUME CalmInv, UNCHANGED <<closed, calm, fpc, source, page, queue, more, got>>
  PROVE  CalmInv'
<1>1. PICK c : c = got["core"]
  OBVIOUS
<1>2. PICK d : d = got["docs"]
  OBVIOUS
<1>3. PICK r : r = got[source]
  OBVIOUS
<1>4. PICK s : s = source
  OBVIOUS
<1>5. PICK n : n = page
  OBVIOUS
<1>6. PICK left : left = Range(queue) \cup Beyond("core", n)
  OBVIOUS
<1>7. LookedAt(s, r, Beyond(s, n - 1))' <=> LookedAt(s, r, Beyond(s, n - 1))
  <2>1. PICK m : m = n - 1
    OBVIOUS
  <2>2. Beyond(s, m)' = Beyond(s, m)
    BY SameListing
  <2>3. PICK b : b = Beyond(s, m)
    OBVIOUS
  <2>4. LookedAt(s, r, b)' <=> LookedAt(s, r, b)
    BY SameListing
  <2> QED
    BY <2>1, <2>2, <2>3, <2>4
<1>8. (Range(queue) \cup Beyond("core", n))' = left
  BY <1>6, SameListing
<1>9. LookedAt("core", c, left)' <=> LookedAt("core", c, left)
  BY SameListing
<1>10. PICK q : q = queue
  OBVIOUS
<1>11. OnPage(q, "core", n)' <=> OnPage(q, "core", n)
  BY SameListing
<1>12. HasNext("core", n)' <=> HasNext("core", n)
  BY SameListing
<1>13. /\ Complete("core", c)' <=> Complete("core", c)
       /\ Complete("docs", d)' <=> Complete("docs", d)
  BY SameListing
<1>14. fpc = "idle" => source = "core" /\ page = 1 /\ got["core"] = <<>>
  BY DEF CalmInv
<1>15. calm /\ fpc = "list" => LookedAt(source, got[source], Beyond(source, page - 1))'
  <2>1. calm /\ fpc = "list" => LookedAt(s, r, Beyond(s, n - 1))
    BY <1>3, <1>4, <1>5 DEF CalmInv
  <2> QED
    BY <1>3, <1>4, <1>5, <1>7, <2>1
<1>16. calm /\ fpc = "comments" =>
         /\ LookedAt("core", got["core"], Range(queue) \cup Beyond("core", page))'
         /\ (more <=> HasNext("core", page))'
         /\ OnPage(queue, "core", page)'
  <2>1. calm /\ fpc = "comments" =>
          LookedAt("core", c, left) /\ (more <=> HasNext("core", n)) /\ OnPage(q, "core", n)
    BY <1>1, <1>5, <1>6, <1>10 DEF CalmInv
  <2> QED
    BY <1>1, <1>5, <1>8, <1>9, <1>10, <1>11, <1>12, <2>1
<1>17. calm /\ source = "docs" => Complete("core", got["core"])'
  BY <1>1, <1>13 DEF CalmInv
<1>18. calm /\ fpc = "write" => source = "docs" /\ Complete("docs", got["docs"])'
  BY <1>2, <1>13 DEF CalmInv
<1> QED
  BY <1>14, <1>15, <1>16, <1>17, <1>18 DEF CalmInv

\* The listing answers.
LEMMA ListIsCalm ==
  ASSUME FetchTypes, CalmInv, ListAnswers
  PROVE  CalmInv'
<1>1. PICK s \in {"core", "docs"} : s = source
  BY DEF FetchTypes, FetchTypeOK
<1>2. PICK n \in Nat \ {0} : n = page
  BY DEF FetchTypes, FetchTypeOK
<1>3. PICK found \in Seq(Repository[s]) : found = Found(s, n)
  BY FoundIsTyped DEF FetchTypes, FetchTypeOK
<1>4. PICK next \in BOOLEAN : next <=> HasNext(s, n)
  <2>1. HasNext(s, n) \in BOOLEAN
    BY HasNextOrNot DEF FetchTypes, FetchTypeOK
  <2> QED
    BY <2>1
<1>5. next = HasNext(s, n)
  <2>1. HasNext(s, n) \in BOOLEAN
    BY HasNextOrNot DEF FetchTypes, FetchTypeOK
  <2> QED
    BY <1>4, <2>1
<1>6. closed' = closed /\ calm' = calm /\ fpc = "list"
  BY DEF ListAnswers, github
<1>7. /\ OnPage(found, s, n)
      /\ Beyond(s, n - 1) = Range(found) \cup Beyond(s, n)
  BY <1>3, FoundIsPage
<1>8. calm => LookedAt(s, got[s], Range(found) \cup Beyond(s, n))
  BY <1>1, <1>2, <1>6, <1>7 DEF CalmInv
<1>9. CASE s = "core"
  <2>1. Continue(got.core, found, next)
    BY <1>1, <1>2, <1>3, <1>5, <1>9 DEF ListAnswers
  <2>2. got.core \in Seq(Repository[source]) /\ Len(got.core) <= Limit[source]
    BY <1>1, <1>9 DEF FetchTypes, FetchTypeOK
  <2>3. calm => /\ LookedAt(source, got.core, Range(found) \cup Beyond(source, page))
                /\ OnPage(found, source, page)
                /\ next <=> HasNext(source, page)
    BY <1>1, <1>2, <1>4, <1>7, <1>8, <1>9
  <2> QED
    BY <1>1, <1>6, <1>9, <2>1, <2>2, <2>3, ContinueIsCalm
<1>10. CASE s = "docs"
  <2>1. PICK old \in Seq(Repository[s]) : old = got.docs /\ Len(old) <= Limit[s]
    BY <1>10 DEF FetchTypes, FetchTypeOK
  <2>2. PICK l \in Nat : l = Limit[s]
    BY TwoRepositories
  <2>3. PICK m \in Nat : m = Len(old) /\ m <= l
    BY <2>1, <2>2
  <2>4. PICK F \in Nat : F = Len(found)
    OBVIOUS
  <2>5. PICK room \in 0..F : room = Min({l - m, F}) /\ m + room <= l /\ (room = F \/ m + room = l)
    <3>1. \E room \in 0..F : /\ room = Min({l - m, F})
                             /\ m + room <= l
                             /\ room = F \/ m + room = l
      BY <2>3, RoomIsKept, Zenon
    <3> QED
      BY <3>1
  <2>6. PICK rows : rows = old \o SubSeq(found, 1, room)
    OBVIOUS
  <2>7. rows \in Seq(Repository[s]) /\ Len(rows) = m + room
    <3>1. room \in 0..Len(found)
      BY <2>4
    <3>2. /\ old \o SubSeq(found, 1, room) \in Seq(Repository[s])
          /\ Len(old \o SubSeq(found, 1, room)) = Len(old) + room
      <4>1. PICK S : S = Repository[s]
        OBVIOUS
      <4>2. old \in Seq(S) /\ found \in Seq(S)
        BY <4>1
      <4>3. old \o SubSeq(found, 1, room) \in Seq(S) /\ Len(old \o SubSeq(found, 1, room)) = Len(old) + room
        BY <3>1, <4>2, FirstOnesAppended, SMTT(60)
      <4> QED
        BY <4>1, <4>3
    <3> QED
      BY <2>3, <2>6, <3>2
  <2>8. Continue(rows, <<>>, next)
    BY <1>1, <1>2, <1>3, <1>5, <1>10, <2>1, <2>2, <2>3, <2>4, <2>5, <2>6 DEF ListAnswers
  <2>9. PICK rest : rest = {found[k] : k \in (room + 1)..F} \cup Beyond("docs", n)
    OBVIOUS
  <2>10. calm => LookedAt("docs", rows, rest)
    <3>1. calm => LookedAt("docs", old, Beyond("docs", n - 1))
      BY <1>7, <1>8, <1>10, <2>1
    <3>2. found \in Seq(DocsIssues) /\ old \in Seq(DocsIssues) /\ found = Found("docs", n)
      BY <1>3, <1>10, <2>1, TwoRepositories
    <3>3. room \in 0..Len(found) /\ rest = {found[k] : k \in (room + 1)..Len(found)} \cup Beyond("docs", n)
      BY <2>4, <2>9
    <3> QED
      BY <2>6, <3>1, <3>2, <3>3, DocsLookedAt
  <2>11. CASE room = F
    <3>1. rest = Beyond("docs", n)
      <4>1. (room + 1)..F = {}
        BY <2>11
      <4> QED
        BY <2>9, <4>1
    <3>2. <<>> \in Seq(Repository[source]) /\ Len(<<>>) = 0
      BY EmptySeq
    <3>3. Range(<<>>) = {}
      BY DEF Range
    <3>4. OnPage(<<>>, source, page)
      BY <3>2, <3>3 DEF OnPage, Descending
    <3>5. calm => LookedAt(source, rows, Range(<<>>) \cup Beyond(source, page))
      BY <1>1, <1>2, <1>10, <2>10, <3>1, <3>3
    <3>6. rows \in Seq(Repository[source]) /\ Len(rows) <= Limit[source]
      BY <1>1, <2>2, <2>5, <2>7
    <3>7. next <=> HasNext(source, page)
      BY <1>1, <1>2, <1>4
    <3> QED
      BY <1>6, <2>8, <3>2, <3>4, <3>5, <3>6, <3>7, ContinueIsCalm
  <2>12. CASE m + room = l
    <3>1. Len(rows) = l /\ Len(rows) >= Limit[source] /\ Len(rows) <= Limit[source]
      BY <1>1, <2>2, <2>7, <2>12
    <3>2. EndSource /\ got' = [got EXCEPT ![source] = rows]
      BY <2>8, <3>1 DEF Continue
    <3>3. DOMAIN got' = DOMAIN got /\ got'[source] = rows /\ \A t \in {"core", "docs"} : t # source => got'[t] = got[t]
      BY <3>2 DEF FetchTypes, FetchTypeOK
    <3>4. calm => Complete(source, rows)
      BY <1>1, <1>10, <2>7, <2>10, <3>1, EnoughIsComplete
    <3> QED
      BY <1>6, <3>2, <3>3, <3>4, EndSourceIsCalm
  <2> QED
    BY <2>5, <2>11, <2>12
<1> QED
  BY <1>9, <1>10

\* The comments of an issue answer.
LEMMA CommentsAreCalm ==
  ASSUME FetchTypes, CalmInv, CommentsAnswer
  PROVE  CalmInv'
<1>1. closed' = closed /\ calm' = calm /\ fpc = "comments" /\ source = "core" /\ queue # <<>>
  BY DEF CommentsAnswer, github, FetchTypes, FetchTypeOK
<1>2. PICK n \in Nat : n = page
  BY DEF FetchTypes, FetchTypeOK
<1>3. PICK old \in Seq(CoreIssues) : old = got["core"] /\ Len(old) < Limit["core"]
  BY <1>1, TwoRepositories DEF FetchTypes, FetchTypeOK
<1>4. PICK q \in Seq(CoreIssues) : q = queue /\ q # <<>>
  BY <1>1, TwoRepositories DEF FetchTypes
<1>5. PICK left \in Seq(CoreIssues) : left = Tail(q)
  BY <1>4, HeadTailProperties
<1>6. PICK rows : rows = IF Head(q) \in Blank THEN old ELSE Append(old, Head(q))
  OBVIOUS
<1>7. Continue(rows, left, more)
  BY <1>3, <1>4, <1>5, <1>6 DEF CommentsAnswer
<1>8. rows \in Seq(CoreIssues) /\ Len(rows) <= Limit["core"]
  <2>1. Head(q) \in CoreIssues
    BY <1>4, HeadTailProperties
  <2>2. Append(old, Head(q)) \in Seq(CoreIssues) /\ Len(Append(old, Head(q))) = Len(old) + 1
    BY <2>1, AppendProperties
  <2>3. PICK l \in Nat : l = Limit["core"]
    BY TwoRepositories
  <2>4. PICK m \in Nat : m = Len(old)
    OBVIOUS
  <2>5. Len(old) <= Limit["core"] /\ Len(Append(old, Head(q))) <= Limit["core"]
    BY <1>3, <2>2, <2>3, <2>4
  <2> QED
    BY <1>6, <2>2, <2>5
<1>9. ASSUME calm
      PROVE  /\ LookedAt("core", rows, Range(left) \cup Beyond("core", n))
             /\ OnPage(left, "core", n)
             /\ more <=> HasNext("core", n)
  <2>1. /\ LookedAt("core", old, Range(q) \cup Beyond("core", n))
        /\ OnPage(q, "core", n) /\ (more <=> HasNext("core", n))
    BY <1>1, <1>2, <1>3, <1>4, <1>9 DEF CalmInv
  <2> QED
    BY <1>4, <1>5, <1>6, <2>1, OneLookedAt
<1>10. more \in BOOLEAN
  BY DEF FetchTypes, FetchTypeOK
<1>11. rows \in Seq(Repository[source]) /\ left \in Seq(Repository[source]) /\ Len(rows) <= Limit[source]
  BY <1>1, <1>5, <1>8, TwoRepositories
<1> QED
  BY <1>1, <1>2, <1>7, <1>9, <1>10, <1>11, ContinueIsCalm

\* Every step of the fetcher.
LEMMA FetchStepIsCalm ==
  ASSUME FetchTypes, CalmInv, FetchNext
  PROVE  CalmInv'
<1>1. CASE StartFetch
  <2>1. /\ fpc = "idle" /\ fpc' = "list" /\ UNCHANGED <<closed, source, page, got>>
    BY <1>1 DEF StartFetch, github
  <2>2. source = "core" /\ page = 1 /\ got["core"] = <<>>
    BY <2>1 DEF CalmInv
  <2>3. LookedAt("core", <<>>, Beyond("core", 0))
    BY NothingLookedAt
  <2>4. Beyond("core", 0)' = Beyond("core", 0)
    BY <2>1, SameListing
  <2>5. LookedAt("core", <<>>, Beyond("core", 0))'
    BY <2>1, <2>3, <2>4, SameListing
  <2>6. source' = "core" /\ got'["core"] = <<>> /\ page' - 1 = 0
    BY <2>1, <2>2
  <2>7. LookedAt(source, got[source], Beyond(source, page - 1))'
    BY <2>5, <2>6
  <2> QED
    BY <2>1, <2>6, <2>7 DEF CalmInv
<1>2. CASE GiveUp
  <2>1. calm' = FALSE /\ (EndSource \/ \E rows, left, next : Continue(rows, left, next))
    BY <1>2 DEF GiveUp
  <2>2. fpc' # "idle"
    BY <2>1 DEF EndSource, Continue
  <2> QED
    BY <2>1, <2>2 DEF CalmInv
<1>3. CASE Retry
  BY <1>3, RestIsCalm DEF Retry, github
<1>4. CASE OpenFile
  <2>1. CASE EndFetch
    BY <2>1, EndFetchIsCalm
  <2>2. CASE ~EndFetch
    BY <1>4, <2>2, RestIsCalm DEF OpenFile, github
  <2> QED
    BY <2>1, <2>2
<1>5. CASE WriteFile \/ FetchStops
  BY <1>5, EndFetchIsCalm DEF WriteFile, FetchStops
<1>6. CASE Move
  <2>1. calm' = (fpc = "idle") /\ UNCHANGED <<fpc, source, page, got>>
    BY <1>6 DEF Move, script
  <2>2. fpc' = "idle" => source' = "core" /\ page' = 1 /\ got'["core"] = <<>>
    BY <2>1 DEF CalmInv
  <2>3. CASE fpc = "idle"
    BY <2>1, <2>2, <2>3 DEF CalmInv
  <2>4. CASE fpc # "idle"
    <3>1. ~calm'
      BY <2>1, <2>4
    <3> QED
      BY <2>2, <3>1 DEF CalmInv
  <2> QED
    BY <2>3, <2>4
<1> QED
  BY <1>1, <1>2, <1>3, <1>4, <1>5, <1>6, ListIsCalm, CommentsAreCalm DEF FetchNext, FetchStep

\* CalmFetchIsComplete: where nothing was given up and nothing moved, the
\* script finds exactly the newest of the issues it wants.
THEOREM CalmFetchFindsAll == Spec => []CalmFetchIsComplete
<1>1. Init => CalmInv
  BY DEF Init, FetchInit, CalmInv
<1>2. IndexInv /\ CalmInv /\ [Next]_vars => CalmInv'
  <2> SUFFICES ASSUME FetchTypes, CalmInv, [Next]_vars PROVE CalmInv'
    BY DEF IndexInv
  <2>1. CASE FetchNext
    BY <2>1, FetchStepIsCalm
  <2>2. CASE UNCHANGED fetchVars
    BY <2>2, RestIsCalm DEF fetchVars, github, script
  <2>3. FetchNext \/ UNCHANGED fetchVars
    BY DEF Next, vars, Finished, StartIndex, IndexStep, CheckIndexed, EmbedChunks, CommitChunks, IndexStops
  <2> QED
    BY <2>1, <2>2, <2>3
<1>3. CalmInv => CalmFetchIsComplete
  BY DEF CalmInv, CalmFetchIsComplete, Complete
<1> QED
  BY <1>1, <1>2, <1>3, IndexIsKept, PTL DEF Spec

==============================================================================
