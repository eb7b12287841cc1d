---------------------------- MODULE CorpusFetch ----------------------------
(***************************************************************************)
(* app/rag/data/fetch_corpus.py: the closed issues of two repositories are *)
(* listed page by page, newest first, those used to train the classifier   *)
(* are left out, comments are fetched issue by issue, and the rows go to   *)
(* one parquet file.  GitHub answers, refuses, fails or asks to wait; and  *)
(* issues are closed and reopened between two requests, which moves the    *)
(* pages under the fetcher.                                                *)
(*                                                                         *)
(* An issue is a number, larger for a later one.  Pages are by number:     *)
(* what the next link of GitHub's issue list leads to is external.         *)
(***************************************************************************)
EXTENDS Integers, Sequences, FiniteSets, FiniteSetsExt, SequencesExt

CONSTANTS
  CoreIssues, DocsIssues,  \* of home-assistant/core and home-assistant.io
  CoreExcluded,            \* in a split of the classifier
  DocsExcluded,            \* in docs_issues.parquet
  Skipped,                 \* pull requests, and core issues without comments
  Blank,                   \* core issues whose comments have no text
  PerPage,                 \* PER_PAGE
  MaxRetries,              \* MAX_RETRIES
  MaxCore, MaxDocs,        \* MAX_CORE_ISSUES, MAX_DOCS_ISSUES
  FirstClosed,             \* bound: sets of issues closed at first
  MaxFetches,              \* bound: runs of the script
  MaxMoves                 \* bound: issues closed or reopened

Issues == CoreIssues \cup DocsIssues

ASSUME FetchAssumption ==
  /\ Issues \subseteq Nat /\ IsFiniteSet(Issues)
  /\ CoreIssues \cap DocsIssues = {} /\ Blank \subseteq CoreIssues
  /\ FirstClosed \subseteq SUBSET Issues
  /\ {PerPage, MaxRetries, MaxCore, MaxDocs} \subseteq Nat \ {0}
  /\ {MaxFetches, MaxMoves} \subseteq Nat

VARIABLES
  closed,    \* GitHub: the closed issues
  moves,     \* counts closes and reopenings
  fetches,   \* counts runs of the script
  fpc,       \* what the script waits for
  source,    \* the repository it is at
  page,      \* the page it is at
  attempt,   \* attempts made at the request under way
  queue,     \* issues of this page still to be looked at
  more,      \* this page has a next link
  got,       \* the rows collected from each repository
  file,      \* rag_corpus.parquet; <<>> where it is absent
  torn,      \* the file is being written
  calm       \* nothing was given up or moved since the script started

github == <<closed, moves>>
script == <<fetches, fpc, source, page, attempt, queue, more, got, file, torn>>
fetchVars == <<github, script, calm>>

Repository == [core |-> CoreIssues, docs |-> DocsIssues]
Excluded == [core |-> CoreExcluded, docs |-> DocsExcluded]
Limit == [core |-> MaxCore, docs |-> MaxDocs]

Listed(src) == closed \cap Repository[src]
Newer(S, i) == Cardinality({j \in S : j > i})

\* Page n of the listing, which is newest first, and whether it has a next.
Page(src, n) ==
  {i \in Listed(src) :
     (n - 1) * PerPage <= Newer(Listed(src), i) /\ Newer(Listed(src), i) < n * PerPage}
HasNext(src, n) == n * PerPage < Cardinality(Listed(src))

\* The n-th is the one that n - 1 others are newer than.
NewestFirst(S) == [n \in 1..Cardinality(S) |-> CHOOSE i \in S : Newer(S, i) = n - 1]

\* Not filtered out before its comments are asked for.
Eligible(src, i) == i \notin Skipped \cup Excluded[src]
Found(src, n) == NewestFirst({i \in Page(src, n) : Eligible(src, i)})

-----------------------------------------------------------------------------
FetchInit ==
  /\ closed \in FirstClosed
  /\ moves = 0 /\ fetches = 0
  /\ fpc = "idle"
  /\ source = "core" /\ page = 1 /\ attempt = 1
  /\ queue = <<>> /\ more = FALSE
  /\ got = [core |-> <<>>, docs |-> <<>>]
  /\ file = <<>> /\ torn = FALSE
  /\ calm = TRUE

StartFetch ==
  /\ fpc = "idle"
  /\ fetches < MaxFetches
  /\ fetches' = fetches + 1
  /\ fpc' = "list"
  /\ UNCHANGED <<github, source, page, attempt, queue, more, got, file, torn, calm>>

\* The process ends; nothing of it is left but the file.
EndFetch ==
  /\ fpc' = "idle" /\ source' = "core" /\ page' = 1 /\ attempt' = 1
  /\ queue' = <<>> /\ more' = FALSE
  /\ got' = [core |-> <<>>, docs |-> <<>>]
  /\ torn' = FALSE
  /\ calm' = TRUE

\* The loop over a repository ends: on to the next one, or to the file.
EndSource ==
  /\ IF source = "core" THEN fpc' = "list" /\ source' = "docs" ELSE fpc' = "write" /\ UNCHANGED source
  /\ page' = 1 /\ attempt' = 1 /\ queue' = <<>> /\ more' = FALSE

\* The loops go on with rows collected, issues left on this page and a next
\* page or none.
Continue(rows, left, next) ==
  LET full == Len(rows) >= Limit[source] IN
  /\ got' = [got EXCEPT ![source] = rows]
  /\ \/ ~full /\ left # <<>>
        /\ fpc' = "comments" /\ attempt' = 1 /\ queue' = left /\ more' = next
        /\ UNCHANGED <<source, page>>
     \/ /\ ~full /\ left = <<>> /\ next
        /\ fpc' = "list" /\ attempt' = 1 /\ queue' = <<>> /\ more' = FALSE
        /\ page' = page + 1
        /\ UNCHANGED source
     \/ /\ full \/ (left = <<>> /\ ~next)
        /\ EndSource

\* Mutant of ListAnswers: only a page before two others is taken to have a
\* next link, so that the last page is never asked for.
ListAnswers_OffByOne ==
  LET found == Found(source, page)
      next == HasNext(source, page + 1)
      room == Min({Limit[source] - Len(got[source]), Len(found)}) IN
  /\ fpc = "list"
  /\ IF source = "core"
     THEN Continue(got.core, found, next)
     ELSE Continue(got.docs \o SubSeq(found, 1, room), <<>>, next)
  /\ UNCHANGED <<github, fetches, file, torn, calm>>

\* A page of the listing.  The issues of home-assistant.io are taken as they
\* are; those of core wait for their comments.
ListAnswers ==
  LET found == Found(source, page)
      next == HasNext(source, page)
      room == Min({Limit[source] - Len(got[source]), Len(found)}) IN
  /\ fpc = "list"
  /\ IF source = "core"
     THEN Continue(got.core, found, next)
     ELSE Continue(got.docs \o SubSeq(found, 1, room), <<>>, next)
  /\ UNCHANGED <<github, fetches, file, torn, calm>>

\* The comments of the first issue in the queue, without text or with.
CommentsAnswer ==
  /\ fpc = "comments"
  /\ Continue(IF Head(queue) \in Blank THEN got.core ELSE Append(got.core, Head(queue)),
              Tail(queue), more)
  /\ UNCHANGED <<github, fetches, file, torn, calm>>

\* Mutant of Retry: waiting for the rate limit does not use up an attempt.
Retry_ForEver ==
  /\ fpc \in {"list", "comments"}
  /\ attempt' = IF attempt < MaxRetries THEN attempt + 1 ELSE 1
  /\ UNCHANGED <<github, fetches, fpc, source, page, queue, more, got, file, torn, calm>>

\* The connection or the server fails, or the rate limit is hit, and an
\* attempt is left.
Retry ==
  /\ fpc \in {"list", "comments"}
  /\ attempt < MaxRetries
  /\ attempt' = attempt + 1
  /\ UNCHANGED <<github, fetches, fpc, source, page, queue, more, got, file, torn, calm>>

\* safe_request returns None: refused, or no attempt left.  That ends a
\* repository as if it had no more pages, and skips an issue as if it had no
\* comments.
GiveUp ==
  /\ fpc \in {"list", "comments"}
  /\ calm' = FALSE
  /\ IF fpc = "list"
     THEN EndSource /\ UNCHANGED got
     ELSE Continue(got.core, Tail(queue), more)
  /\ UNCHANGED <<github, fetches, file, torn>>

Rows == got.core \o got.docs

\* drop_duplicates keeps the first of the rows with one id.
Kept(kept, i) == IF Contains(kept, i) THEN kept ELSE Append(kept, i)
DropDuplicates(rows) ==
  LET upTo[n \in 0..Len(rows)] == IF n = 0 THEN <<>> ELSE Kept(upTo[n - 1], rows[n])
  IN  upTo[Len(rows)]

\* Nothing is written when nothing was found; otherwise the file is opened,
\* which empties it.
OpenFile ==
  /\ fpc = "write" /\ ~torn
  /\ \/ /\ Rows = <<>>
        /\ EndFetch
     \/ /\ Rows # <<>>
        /\ torn' = TRUE
        /\ UNCHANGED <<fpc, source, page, attempt, queue, more, got, calm>>
  /\ UNCHANGED <<github, fetches, file>>

WriteFile ==
  /\ fpc = "write" /\ torn
  /\ file' = DropDuplicates(Rows)
  /\ EndFetch
  /\ UNCHANGED <<github, fetches>>

\* The script is stopped.  What it has collected is gone, and so is the file
\* if it was being written.
FetchStops ==
  /\ fpc # "idle"
  /\ file' = IF torn THEN <<>> ELSE file
  /\ EndFetch
  /\ UNCHANGED <<github, fetches>>

-----------------------------------------------------------------------------
\* On GitHub an issue is closed, which puts it among the others by its age, or
\* reopened.
Move ==
  /\ moves < MaxMoves
  /\ moves' = moves + 1
  /\ calm' = (fpc = "idle")
  /\ \E i \in Issues : closed' = IF i \in closed THEN closed \ {i} ELSE closed \cup {i}
  /\ UNCHANGED script

FetchStep ==
  \/ ListAnswers
  \/ CommentsAnswer
  \/ Retry
  \/ GiveUp
  \/ OpenFile
  \/ WriteFile

FetchNext == StartFetch \/ FetchStep \/ FetchStops \/ Move

-----------------------------------------------------------------------------
FetchTypeOK ==
  /\ closed \subseteq Issues
  /\ moves \in 0..MaxMoves /\ fetches \in 0..MaxFetches
  /\ fpc \in {"idle", "list", "comments", "write"}
  /\ source \in {"core", "docs"}
  /\ page \in Nat \ {0} /\ attempt \in 1..MaxRetries
  /\ queue \in Seq(Issues) /\ (fpc = "comments" => queue # <<>>)
  /\ more \in BOOLEAN
  /\ DOMAIN got = {"core", "docs"}
  /\ \A s \in {"core", "docs"} : got[s] \in Seq(Repository[s]) /\ Len(got[s]) <= Limit[s]
  /\ file \in Seq(Issues)
  /\ {torn, calm} \subseteq BOOLEAN

\* The newest n of a set.
Newest(S, n) == {i \in S : Newer(S, i) < n}

Wanted(src) == {i \in Listed(src) : Eligible(src, i) /\ i \notin Blank}

\* If nothing was given up and nothing moved, the script finds exactly the
\* newest of the issues it wants: nothing is lost between pages, requests and
\* limits.
CalmFetchIsComplete ==
  fpc = "write" /\ calm => \A s \in {"core", "docs"} : ToSet(got[s]) = Newest(Wanted(s), Limit[s])

\* The script ends even if GitHub always fails or always asks to wait.
FetchEnds == fpc # "idle" ~> fpc = "idle"
=============================================================================
