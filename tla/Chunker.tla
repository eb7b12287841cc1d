------------------------------ MODULE Chunker ------------------------------
(***************************************************************************)
(* app/rag/chunker.py: how an issue becomes chunks.  A paragraph is its    *)
(* length, and the title is the first; a comment is the length of its text,*)
(* which may be 0.                                                         *)
(***************************************************************************)
EXTENDS Integers, Sequences

CONSTANT MaxChars      \* _MAX_CHARS

ASSUME ChunkerAssumption == MaxChars \in Nat \ {0}

Separator == 2         \* the two line ends between title and comment

SumOf(lengths) ==
  LET upTo[n \in 0..Len(lengths)] == IF n = 0 THEN 0 ELSE upTo[n - 1] + lengths[n]
  IN  upTo[Len(lengths)]

\* Mutant of AddParagraph: the current chunk is not closed but replaced.
AddParagraph_Forgets(acc, para) ==
  IF SumOf(acc.current) + para > MaxChars /\ acc.current # <<>>
  THEN [closed |-> acc.closed, current |-> <<para>>]
  ELSE [closed |-> acc.closed, current |-> Append(acc.current, para)]

\* The chunk in progress is closed when the next paragraph would exceed the
\* limit.  The separators that will stand between paragraphs are not counted,
\* and a paragraph that is too long by itself stays whole.
AddParagraph(acc, para) ==
  IF SumOf(acc.current) + para > MaxChars /\ acc.current # <<>>
  THEN [closed |-> Append(acc.closed, acc.current), current |-> <<para>>]
  ELSE [closed |-> acc.closed, current |-> Append(acc.current, para)]

\* There is a chunk even where there is no paragraph.
SplitParagraphs(paras) ==
  LET upTo[n \in 0..Len(paras)] ==
        IF n = 0 THEN [closed |-> <<>>, current |-> <<>>]
        ELSE AddParagraph(upTo[n - 1], paras[n])
  IN  Append(upTo[Len(paras)].closed, upTo[Len(paras)].current)

\* Mutant of CommentIndex: chunks are numbered as they come, bodies apart.
CommentIndex_Restarts(bodyCount, n) == n - 1

\* Comments without text are counted and left out.
CommentIndex(bodyCount, n) == bodyCount + n - 1

BodyChunks(paras) ==
  LET bodies == SplitParagraphs(paras)
  IN  [k \in 1..Len(bodies) |-> [index |-> k - 1, paras |-> bodies[k], comment |-> 0, kept |-> 0]]

\* What content[:_MAX_CHARS] leaves of a comment behind the title.
Fitting(title, comment) ==
  LET room == MaxChars - (title + Separator)
  IN  IF comment <= room THEN comment ELSE IF room > 0 THEN room ELSE 0

\* The chunks of an issue with their chunk_index: those of the body, each with
\* its paragraphs, then one for each comment that has text, with as much of it
\* as is kept.
ChunkIssue(paras, comments) ==
  LET bodies == BodyChunks(paras)
      Comment(n) == [index |-> CommentIndex(Len(bodies), n), paras |-> <<>>, comment |-> n,
                     kept |-> Fitting(Head(paras), comments[n])]
      upTo[n \in 0..Len(comments)] ==
        IF n = 0 THEN bodies
        ELSE upTo[n - 1] \o (IF comments[n] > 0 THEN <<Comment(n)>> ELSE <<>>)
  IN  upTo[Len(comments)]
=============================================================================
