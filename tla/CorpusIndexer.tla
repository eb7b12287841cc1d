---------------------------- MODULE CorpusIndexer ----------------------------
(***************************************************************************)
(* app/rag/indexer.py with app/repositories/documents.py: runs of the      *)
(* indexer over the file CorpusFetch writes.  A run looks up which issues  *)
(* the documents table has, chunks the others, embeds the chunks in        *)
(* batches, and inserts all of them in one transaction.  Runs may overlap  *)
(* and may stop anywhere.  The text of an issue is the same in every fetch:*)
(* an issue that is edited or commented on after it was indexed is skipped *)
(* like any other (indexer.py:37) and its rows stay as they are.           *)
(***************************************************************************)
EXTENDS CorpusFetch, Chunker

CONSTANTS
  Runs,        \* bound: runs of the indexer
  Paragraphs,  \* of each issue: their lengths, the title's first
  Comments,    \* of each issue: their lengths
  EmbedBatch   \* _EMBED_BATCH

ASSUME IndexAssumption ==
  /\ Paragraphs \in [Issues -> Seq(Nat) \ {<<>>}]
  /\ Comments \in [Issues -> Seq(Nat)]
  /\ EmbedBatch \in Nat \ {0}

VARIABLES
  ipc,        \* what each run waits for
  corpus,     \* the rows it has read
  chunks,     \* the chunks it is to insert
  embedded,   \* how many of them it has embedded
  documents,  \* the table
  before      \* the runs whose chunks were in the table when this one looked

index == <<ipc, corpus, chunks, embedded, documents, before>>
vars == <<fetchVars, index>>

\* What is in the table of an issue, and in which order.
Chunks == [i \in Issues |->
  LET contents == ChunkIssue(Paragraphs[i], Comments[i])
  IN  [n \in 1..Len(contents) |-> [issue |-> i, content |-> contents[n]]]]

Indexed == {d.chunk.issue : d \in documents}
Inserted(x) == {d \in documents : d.run = x}

\* The rows of documents that run x makes of its chunks number m to n.
Documents(x, m, n) == {[run |-> x, at |-> k, chunk |-> chunks[x][k]] : k \in m..n}

Working == {"check", "embed", "commit"}
Goto(x, step) == ipc' = [ipc EXCEPT ![x] = step]

\* The run is over and what it has computed is gone.
EndRun(x, how) ==
  /\ Goto(x, how)
  /\ chunks' = [chunks EXCEPT ![x] = <<>>]
  /\ embedded' = [embedded EXCEPT ![x] = 0]

-----------------------------------------------------------------------------
Init ==
  /\ FetchInit
  /\ ipc = [x \in Runs |-> "idle"]
  /\ corpus = [x \in Runs |-> <<>>]
  /\ chunks = [x \in Runs |-> <<>>]
  /\ embedded = [x \in Runs |-> 0]
  /\ documents = {}
  /\ before = [x \in Runs |-> {}]

StartIndex(x) ==
  /\ ipc[x] = "idle"
  /\ file # <<>> /\ ~torn
  /\ Goto(x, "check")
  /\ corpus' = [corpus EXCEPT ![x] = file]
  /\ UNCHANGED <<fetchVars, chunks, embedded, documents, before>>

\* The chunks of rows that are not in the set taken, one issue after the other.
NewChunks(rows, taken) ==
  LET upTo[n \in 0..Len(rows)] ==
        IF n = 0 THEN <<>>
        ELSE upTo[n - 1] \o (IF rows[n] \in taken THEN <<>> ELSE Chunks[rows[n]])
  IN  upTo[Len(rows)]

\* Mutant of CheckIndexed: every issue is taken, also one that is indexed.
CheckIndexed_TakesAll(x) ==
  LET new == NewChunks(corpus[x], {}) IN
  /\ ipc[x] = "check"
  /\ chunks' = [chunks EXCEPT ![x] = new]
  /\ before' = [before EXCEPT ![x] = {d.run : d \in documents}]
  /\ Goto(x, IF new = <<>> THEN "done" ELSE "embed")
  /\ UNCHANGED <<fetchVars, corpus, embedded, documents>>

\* fetch_indexed_source_ids tells which issues have a chunk in the table; the
\* others are chunked.
CheckIndexed(x) ==
  LET new == NewChunks(corpus[x], Indexed) IN
  /\ ipc[x] = "check"
  /\ chunks' = [chunks EXCEPT ![x] = new]
  /\ before' = [before EXCEPT ![x] = {d.run : d \in documents}]
  /\ Goto(x, IF new = <<>> THEN "done" ELSE "embed")
  /\ UNCHANGED <<fetchVars, corpus, embedded, documents>>

EmbedChunks(x) ==
  LET n == Min({embedded[x] + EmbedBatch, Len(chunks[x])}) IN
  /\ ipc[x] = "embed"
  /\ embedded' = [embedded EXCEPT ![x] = n]
  /\ Goto(x, IF n = Len(chunks[x]) THEN "commit" ELSE "embed")
  /\ UNCHANGED <<fetchVars, corpus, chunks, documents, before>>

\* Mutant of CommitChunks: only the last batch is inserted.
CommitChunks_LastBatch(x) ==
  /\ ipc[x] = "commit"
  /\ documents' = documents \cup
       Documents(x, EmbedBatch * ((embedded[x] - 1) \div EmbedBatch) + 1, embedded[x])
  /\ EndRun(x, "done")
  /\ UNCHANGED <<fetchVars, corpus, before>>

\* All chunks are inserted and committed.  The connection may break when they
\* are durable; then the run fails.
CommitChunks(x) ==
  /\ ipc[x] = "commit"
  /\ documents' = documents \cup Documents(x, 1, Len(chunks[x]))
  /\ \E how \in {"done", "failed"} : EndRun(x, how)
  /\ UNCHANGED <<fetchVars, corpus, before>>

\* The embedder or the database fails, or the run is stopped.
IndexStops(x) ==
  /\ ipc[x] \in Working
  /\ EndRun(x, "failed")
  /\ UNCHANGED <<fetchVars, corpus, documents, before>>

Finished ==
  /\ fpc = "idle"
  /\ \A x \in Runs : ipc[x] \notin Working
  /\ UNCHANGED vars

IndexStep(x) ==
  \/ CheckIndexed(x)
  \/ EmbedChunks(x)
  \/ CommitChunks(x)
  \/ IndexStops(x)

Next ==
  \/ FetchNext /\ UNCHANGED index
  \/ \E x \in Runs : StartIndex(x) \/ IndexStep(x)
  \/ Finished

\* A script that is started goes on: its requests have timeouts, its waits
\* end, the embedder and the database answer or fail.
Fairness ==
  /\ WF_vars(FetchStep /\ UNCHANGED index)
  /\ \A x \in Runs : WF_vars(IndexStep(x))

Spec == Init /\ [][Next]_vars /\ Fairness

-----------------------------------------------------------------------------
TypeOK ==
  /\ FetchTypeOK
  /\ ipc \in [Runs -> {"idle", "done", "failed"} \cup Working]
  /\ \A x \in Runs : /\ corpus[x] \in Seq(Issues)
                     /\ \A n \in 1..Len(chunks[x]) : chunks[x][n].issue \in Issues
                     /\ embedded[x] \in 0..Len(chunks[x])
                     /\ ipc[x] = "embed" => embedded[x] < Len(chunks[x])
  /\ \A d \in documents : d.run \in Runs /\ d.chunk.issue \in Issues
  /\ before \in [Runs -> SUBSET Runs]

\* Sequences one after the other.
Joined(seqs) ==
  LET upTo[n \in 0..Len(seqs)] == IF n = 0 THEN <<>> ELSE upTo[n - 1] \o seqs[n]
  IN  upTo[Len(seqs)]

\* These rows tell, in the order of chunk_index, the issue's paragraphs and
\* then its comments that have text, with no index twice.  No paragraph is cut;
\* a comment is, but only in a row that is full.  A row of several paragraphs
\* has no more than the limit, the separators between them not counted.
IsWhole(rows, i) ==
  \E inOrder \in [1..Cardinality(rows) -> rows] :
    /\ \A m, n \in DOMAIN inOrder : m < n =>
         /\ inOrder[m].index < inOrder[n].index
         /\ inOrder[n].comment # 0 => inOrder[m].comment < inOrder[n].comment
    /\ Joined([n \in DOMAIN inOrder |-> inOrder[n].paras]) = Paragraphs[i]
    /\ {c.comment : c \in rows} \ {0} = {n \in 1..Len(Comments[i]) : Comments[i][n] > 0}
    /\ \A c \in rows : c.comment # 0 =>
         \/ c.kept = Comments[i][c.comment]
         \/ /\ c.kept < Comments[i][c.comment]
            /\ Head(Paragraphs[i]) + Separator + c.kept >= MaxChars
    /\ \A c \in rows : Len(c.paras) > 1 => SumOf(c.paras) <= MaxChars

\* A run leaves of an issue all its rows in the table or none, wherever it
\* stopped, and these are the issue's text in order, as far as the limit lets
\* comments in.  The check at the start of a run relies on it: it takes an
\* issue with one chunk for indexed and never returns to it (indexer.py:37).
WholeIssues ==
  \A x \in Runs : \A i \in Issues :
    LET rows == {d.chunk.content : d \in {e \in Inserted(x) : e.chunk.issue = i}}
    IN  rows # {} => IsWhole(rows, i)

\* A chunk is in the table twice only if two runs overlapped: each had looked
\* before the other committed.
DuplicatesNeedOverlap ==
  \A d, e \in documents : d # e /\ d.chunk = e.chunk =>
    /\ d.run # e.run
    /\ d.run \notin before[e.run] /\ e.run \notin before[d.run]

\* After a run that has succeeded every issue of its file can be found.
DoneMeansIndexed ==
  \A x \in Runs : ipc[x] = "done" =>
    \A n \in 1..Len(corpus[x]) : \A c \in Range(Chunks[corpus[x][n]]) :
      \E d \in documents : d.chunk = c
==============================================================================
