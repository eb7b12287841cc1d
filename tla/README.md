# A formal model of Maintainer's Copilot

This directory holds TLA+ specifications of Maintainer's Copilot, TLC
configurations that check them on small instances, and TLAPS proofs of their
main results for every instance.

## 1. The system

Maintainer's Copilot helps the maintainers of a GitHub project.  A signed-in
user chats with an agent from a Streamlit page; a visitor of a documentation
site chats with it from an embedded widget.  The agent is a loop around a
language model that may call five tools.  Around it stand the services it boots
against, the scripts that make its data, and the gates that judge it.

| Part | State it keeps | Operations | Talks to |
|---|---|---|---|
| Agent loop (`app/agent/loop.py`) | messages of one request | `run`, `stream` | LLM client, dispatcher |
| Dispatcher and tools (`app/agent/tools/`) | none of its own; the request's database session | classify, NER, summarise, search, write_memory | inference service, RAG, PostgreSQL |
| LLM client (`app/infra/llm.py`) | none | `chat`, `chat_stream`, fallback OpenAI -> Anthropic | providers |
| Chat service (`app/services/chat.py`, `memory.py`) | conversations in Redis, 2 h TTL | `handle`: load, recall, agent, save | Redis, PostgreSQL, agent |
| Widget endpoints (`app/routes/widget.py`) | conversations in Redis, 30 min TTL; widget rows | chat, stream, create, read, update | the same |
| Administration (`app/routes/admin.py`, `auth.py`, `memory.py`, `services/auth.py`) | `user.role`, `memory_entries`, `audit_logs` | change a role (two routes), delete a memory | PostgreSQL |
| Admin page (`chatbot/pages/3_Admin.py`) | what the form and the select boxes of a session hold | rerun at every click: load, save, list, change roles | widget and admin endpoints |
| Other front ends (`widget/src`, `chatbot/`) | what the user sees; a session or conversation id | send, time out, reload | the API |
| Sessions (`app/db/session.py`) | one SQLAlchemy session per request | add, flush, commit, close | PostgreSQL |
| RAG (`app/services/rag.py`, `app/rag/`) | `documents` | filters, HyDE, two searches, fusion, rerank, generate | LLM, embedder, PostgreSQL |
| Corpus scripts (`app/rag/data/`, `app/rag/indexer.py`, `chunker.py`) | a parquet file; `documents` | fetch, chunk, index | GitHub, embedder, PostgreSQL |
| Startup (`app/core/`, `app/infra/vault.py`) | secrets, clients | boot in order, refuse to boot | Vault, inference service, tracing |
| Inference service (`inference/`) | loaded models | check the hash, load, serve | the file of weights |
| Gates (`eval/`) | a report | ask the golden set, measure, compare | inference service, API, Vault |
| Data scripts (`ml/data/`) | parquet files of issues and splits | fetch, label, split | GitHub |

### What is hard here

* **Sessions.**  A request has one database session.  The dispatcher turns every
  exception of a tool into text for the model, so the loop goes on after a
  database error, on a session that nobody rolls back.
* **Read-modify-write.**  A conversation is loaded, answered (which takes
  seconds to minutes) and written back as a whole.  There is no lock and no
  version; clients have timeouts and may send again.  The admin page writes back
  a whole widget configuration, of which its user has typed one field.
* **Check-then-act under READ COMMITTED.**  The guard of the last administrator
  counts rows that may change before the commit.
* **Two commits for one fact.**  The users router commits a role and audits it
  afterwards.
* **A page that is a script.**  Streamlit runs the admin page from the top at
  every click; a role is changed whenever its select box differs from what the
  server lists, whoever changed which.
* **Streams.**  An answer travels from a provider through two generators and an
  event stream to the screen.  A provider can fail, the network cuts the stream
  anywhere, and a visitor can go away at any await.
* **Boots.**  Secrets are read once, each failure swallowed, from a Vault that
  restarts empty and is filled meanwhile; the model server may restart between
  two checks of it.
* **Long scripts.**  Fetching takes thousands of requests over a listing that
  changes meanwhile; indexing takes up to an hour, and may stop or be started
  twice.  The data scripts are started by hand, in any order, and each leaves
  several files.
* **Boundaries.**  Limits cut rankings, thresholds may be zero, null or missing,
  ranks start at one, indexes have gaps.

`PROJECT.json` lists each hazard at the line where it bites, with the properties
that cover it.

### What makes each part correct

* A request ends; it leaves only audited memories, each call at most once; what
  it reports is what it committed; the history it sends to the model answers
  every tool call.
* A conversation stays a conversation whatever overlaps; with patient clients it
  is a log that loses nothing.
* What a visitor reads is what the agent said, by one provider per turn; what
  looks finished was saved; the page never stays busy.
* The audit log explains every role and every deletion, and there is an
  administrator.
* A save of the admin page does to each field what was asked for; a choice of a
  role that has come true is never asked for again.
* A service that is up has what it needs and is answered by the weights it
  expects; a boot ends.
* A fetch nothing disturbs finds the newest issues it wants; no issue is half
  indexed, and one is indexed twice only by runs that overlap.
* "Nothing found" is true, and an answer is made from the best candidates.
* A gate notices a dead service and does not punish a better classifier; the
  data it judges by is newer than what the classifier was trained on, and is not
  in the corpus.

## 2. Modules

| Module | Models | Role |
|---|---|---|
| `AgentContract` | what a request promises the backend | abstract |
| `AgentLoop` | `loop.py`, `registry.py`, the tools, the session | detailed; implements `AgentContract` |
| `AnthropicMessages` | the conversion of a history in `llm.py` | pure operators over the histories of `AgentLoop` |
| `ConversationLog` | what a patient user may expect of a conversation | abstract |
| `ChatService` | `services/chat.py`, `services/memory.py`, the widget chat endpoints, Redis, the clients | detailed; implements `ConversationLog` for patient clients |
| `LLMReplies` | the assembly of tool calls in `llm.py`, whole, streamed and in blocks | pure operators |
| `WidgetStream` | the streaming half of `llm.py` and `loop.py`, `generate` of `routes/widget.py`, `send` of `ChatWidget.jsx` | detailed, end to end |
| `Administration` | role changes, deletions and their audit entries | detailed |
| `Console` | `3_Admin.py` in several sessions, over the endpoints it calls | detailed |
| `Startup` | `lifespan.py`, `startup_checks.py`, `vault.py`, the boot of `inference/main.py`, `seedexample.sh` | detailed |
| `CorpusFetch` | `rag/data/fetch_corpus.py` and GitHub's listing | detailed |
| `Chunker` | `rag/chunker.py` | pure operators |
| `CorpusIndexer` | `rag/indexer.py`, `repositories/documents.py` | detailed; composes with `CorpusFetch` through the file, and cuts with `Chunker` |
| `RankFusion` | `_rrf_fuse` of `rag/retriever.py` | pure operators |
| `RagAnswer` | `services/rag.py`, `rag/query_rewriter.py`, the searches, `rag/reranker.py` | detailed; fuses with `RankFusion` |
| `Evaluation` | `eval/classification/runner.py`, `eval/rag/runner.py`, the boot check of the thresholds | detailed, with the metrics as operators |
| `DataSplits` | `ml/data/*.py`, and what `fetch_corpus.py` leaves out because of them | detailed |
| `AgentLoopProofs`, `ChatServiceProofs`, `WidgetStreamProofs`, `AdministrationProofs`, `ConsoleProofs`, `CorpusIndexerProofs`, `DataSplitsProofs` | | theorems about the module of that name, and in `WidgetStreamProofs` about `LLMReplies` |
| `ServiceProofs` | | theorems about `Startup`, `RagAnswer` and `Evaluation` |
| `MC*` | | values of the constants for TLC, and symmetries |

`ChatService` composes with the agent through its contract: inside a turn the
agent may leave memories (`AgentRemembers`), and ends with an answer or a
failure (`AgentAnswers`, `RequestFails`), which is what `AgentContract` allows
and `AgentLoop` implements.  `Console` takes a role change for one step of the
server; its steps are those of `Administration`.  `Startup` takes the check of
the thresholds for a step that may fail; what it accepts is `Boots` of
`Evaluation`.  `DataSplits` takes a fetch for one step that ends with the newest
issues or fewer; how one goes is `CorpusFetch`.

A definition named `X_Something` just before `X` is a mutant: `X` with a
plausible bug.  No specification uses it; section 3 says what it is for.

### AgentLoop

A step is what happens between two awaits.  `pc` is `llm` while the model is
awaited, `dispatch` when the next tool call is to be executed, and `commit_*`
while the tool awaits its commit.  `pending`, `usable` and `db` are the SQLAlchemy
session as this code uses it: rows added wait until the commit; the first
database error makes the session unusable, because nobody calls `rollback`;
closing it discards what is pending.  A row stands for the call that wrote it.
The model may request any number of calls up to the bound, answer, or fail.  A
call may name an unknown tool, have arguments that are no JSON (this aborts the
request: `json.loads` is outside the dispatcher's `try`), fail before or in the
database, or succeed.  A commit may be refused, or be lost with the rows durable
all the same.  `Abort` is a stopped process, and the cancelled generator of a
stream whose client is gone.

### AnthropicMessages and LLMReplies

`ToAnthropic` translates `_to_anthropic_messages`: system messages are left out,
calls become uses, and a run of tool results becomes one message of the user.
`AnthropicCanTakeOver` is evaluated in every state of `AgentLoop` in which the
model is about to be called, because that is when `chat` and `chat_stream` may
fall back.

`LLMReplies` is the other direction: `Entries` puts the calls of a stream together
from their deltas, by index, `Assemble` lists them in the order of the indexes, and
`BlockCalls` takes calls from Anthropic's blocks.  `CallsAreAssembled` compares both
with the calls that were cut, over every order in which deltas may come
(`Deliveries`) and every place blocks of text may take (`Blocks`); it does not
change with the state, is evaluated in the run of `WidgetStream` for a reply of two
calls in two pieces each at indexes with a gap, and is proved for all replies.

### ChatService

A request loads the whole conversation, a signed-in user's request recalls
memories from other conversations, the agent answers, and the whole conversation
is written back.  Messages carry what the properties need: whose turn they are
(`of`), what the model saw when it wrote a reply (`seen`), and which memories a
recall pair quotes (`past`).  `Nearest` is any choice among the memories that may be
recalled: the index of the embeddings (HNSW) is approximate, and the user and the
conversation are filtered after its scan.  `ClientGivesUp` is the 60 s timeout of the chat
page and a closed or reloaded widget; `PatientSpec` is the system without it.
`saved` is a history variable: the turns saved since a key last expired.

### WidgetStream

One page, one server and the wire between them.  `pc[r]` is the server's step for
the r-th message: `load` in front of the generator, `llm` while a provider is
asked, `openai` while OpenAI streams, `anthropic` while Anthropic answers as a
whole, `tools`, and `save` when the agent is done.  `wire` and `buf` are the
bytes under way and the reader's `buf`; an event is a unit for its text and two
newlines, so a piece can end in front of, between and behind the newlines.  A cut
inside the text leaves the text in the buffer, which is what a cut in front of it
does.  `page` is the React state: bubbles, status line, loading flag.

The fallback is possible until the first token only: a stream that breaks later
raises an error of httpx, or an `APIError` that is neither a status nor a
connection error, and `chat_stream` catches neither.  `ServerFails` is every end
of a response without `done`, the generator cancelled because its reader is gone
included.  What overlapping turns do to the stored conversation is the subject of
`ChatService`; here `recorded` is only which replies were saved.

### Administration

Each request is a sequence of database statements.  `seen` is the role a session
loaded: SQLAlchemy neither reads a loaded object again nor writes an attribute
set to its loaded value.  An entry of the audit log carries `at`, its `created_at`:
the default `now()` of PostgreSQL is the time at which the transaction began
(`BeginTransaction`, `clock`), and the listing orders by it, not by the order of the
commits.  `locks` is the row a deletion holds until it commits.
`changed` and `stale` are history variables: which requests changed a role, and
whether a commit relied on something that had changed since it was read.

### Console

`pc[p]` is where the script of a page is; it runs `LoadConfig`, `SaveAnswered`,
`ListUsers`, `RoleAnswered`, and begins again at `st.rerun()`.  `shown` and `listed`
are what the form and the select boxes were last rendered with, `typed` and
`chosen` what they hold.  `Rendered` is the rule of Streamlit 1.40, which
`chatbot/Dockerfile` pins: a widget is known by its arguments, its default among
them, so it keeps what was typed until its default changes; and it forgets it
when a run ends, normally or with `st.rerun()`, without rendering it, but not when a run ends
with `st.stop()`.  `ConfigMissing` and `UsersMissing` are answers other than 200 to
what a form or a box is rendered from.  A save sends every field; the server loads the row
(`LoadWidget`) and writes the attributes that differ from it (`Written`,
`CommitWidget`).  A page waits 10 s: `ScriptStops` is this, an error, and the
click that interrupts a run, and the request it leaves goes on.  `spent` and
`foreign` are history variables: a chosen role has been seen to be the server's,
and which fields another save has changed since the page showed them.

### Startup

`vault` is what Vault in development mode has in memory; it stops, starts empty,
and is filled path by path by the seeding script, whose values for two keys may
be the blank ones of the example.  `server`, `loaded` and `swapped` are the model
server, what it has loaded, and whether the file was replaced between its hash
and its loading.  `api` is the next step of the boot: `load_all` (a path that
cannot be read is left empty), the clients, and the checks in the order of
`run_startup_checks`.  `BootFails` is every refusal and every stop.  `seen` is
whose answers the service has got.  The two checks that are defined and not
called, `assert_redis_reachable` and `assert_llm_key_configured`, are not steps;
`BootedHasKey` shows what the second would have checked, and `BootStarts` says
why the first is not missed at the boot.

### CorpusFetch, Chunker and CorpusIndexer

`fpc` is what the fetcher waits for: a page of the listing, the comments of the
first issue in `queue`, or the write of its file.  `Continue` is what both loops do
between two requests: the limit, the rest of the page, the next page, the next
repository.  A request fails by `Retry` until its attempts are used up and by
`GiveUp` after that, which the loops take for the end of a repository or for an
issue without comments.  `Move` closes or reopens an issue between two requests;
pages are by number, so issues slip from one to another.  Opening the file
empties it (`torn`), and a script that stops then leaves no usable file.  `calm` is
a history variable: nothing was given up or moved since the script started.

`ChunkIssue` cuts an issue as `chunker.py` does: paragraphs are collected until the
next would exceed the limit, and comments are numbered behind the chunks of the
body, those without text counted and left out.  A paragraph is its length, and a comment too: `Fitting` is as much of it as
`content[:_MAX_CHARS]` leaves behind the title.  Paragraphs are never cut, so one
that exceeds the limit alone makes a chunk that does.
A run of the indexer reads the file, looks up which issues have a chunk in
`documents`, cuts the others, embeds the chunks in batches, and commits all of
them.  `before` is a history variable: whose chunks a run saw when it looked.
`WholeIssues` reads an issue back from its rows.  An issue has the same text in every
fetch: one that has changed is not indexed again (section 5).

### RankFusion and RagAnswer

`Fuse` is `_rrf_fuse`: fractions instead of floats, `alpha` in tenths.  The stable
sort of Python is `ByValue`: the n-th document is the one that n - 1 exceed in
value, or have the same value and stand in front of.  `Reranked` is the same sort
by the scores of the cross-encoder.  `RagAnswer` follows one question through the steps of `answer`;
the rankings of the two searches, the conditions the model finds in the question
and the scores of the cross-encoder are chosen.  The two searches are two
statements, and the indexer may commit between them.  `matches` are the documents
that have the words of the question: `FtsSearch` finds among them exactly.
`VectorSearch` finds any of what fulfils the conditions, and perhaps nothing: its
index is approximate and filters after its scan.

### Evaluation

`stage` begins as `classify` or `sweep`, the two runners.  Each request may fail; a
failed classification is the prediction `error`, a failed question scores 0.
Metrics are integers in ten thousandths, `Round4` is the rounding, and `F1`,
`Accuracy` and `MacroF1` are those of the code, by counting.  `thresholds` is the
file, a function on the names it gives.  `Judged` and `Check` are the two
`check_thresholds`, which differ: the first stops at a null, the second passes over
a null threshold and over a metric that was not measured.  A file without any content
stops both with an `AttributeError`, and a label the classifier does not have scores
0.

### DataSplits

Issues are numbers in the order of their creation.  `raw`, `docs`, `splits` and
`corpus` are the files; a script reads, computes (`parts`, `excluded`), and writes,
and may stop between its writes, or in one, which leaves a torn file (`Unreadable`)
that `fetch_corpus.py` cannot read.  The numbers of runs and fetches, and the issues
(`data`) that files were computed from, are history the code does not have; the
properties need them to say which splits belong together.  `SplitOf` is the split by position inside a label.

## 3. Runs

| Run | Instance | Shows |
|---|---|---|
| `agent_loop` | one user or one visitor, 3 turns, 2 calls per response (about 263,000 states) | audited memories, a session that never commits what a failed tool left, truthful reports, complete histories that Anthropic could continue, termination, refinement of `AgentContract` |
| `chat_patient` | 2 conversations of one user, 1 widget session, 3 requests (about 408,000 states) | with clients that wait, a conversation is a log that loses nothing |
| `chat_impatient` | 3 conversations of two users, 1 widget session, 3 requests (about 799,000 states, symmetric requests) | with overlapping turns, what is stored is still a conversation, of replies with their contexts, quoting only what it may |
| `widget_stream` | 2 messages, 2 turns, 1 call, 1 token; deltas of 2 calls (about 229,000 states) | however the stream is cut, broken or reloaded: the page shows what was said, what it shows as finished was saved, one provider speaks per turn, calls are put together as they were sent, and the page never stays busy |
| `admin_roles` | 2 users, one of them administrator, 1 memory, 3 requests over all routes (about 472,000 states) | the audit log explains roles; the guard fails only on a stale count; no request waits for ever |
| `admin_last` (violated) | 2 demotions | no administrator is left |
| `corpus` | 5 + 1 issues on pages of 2, 2 attempts, 2 fetches, 1 issue moved, 2 runs of the indexer (about 823,000 states) | however pages move, requests fail and scripts stop: a calm fetch is complete, an issue is in the table with all of its text that is kept or not at all, duplicates need overlapping runs, and the fetcher ends |
| `startup` | all six secrets (about 2,870,000 states) | whatever restarts during a boot: only verified weights answer, but for a file replaced between check and loading, a booted service has its key, an undisturbed boot has everything, and a boot ends |
| `console` | 2 sessions, 2 fields, 2 writes (about 2,577,000 states, symmetric sessions) | what a session may undo of another's edits, and what not |
| `rag` | 4 documents, one of them new, limits of 3 and 2 (about 1,114,000 states) | a document that has the words is not hidden, the fusion respects both rankings, the answer is made from the best |
| `evaluation` | 5 golden issues, 2 questions, 2 alphas, 9 files of thresholds (about 317,000 states) | a dead service does not pass, and a better classifier does not fail |
| `data_splits` | 5 + 2 issues, 2 splits, 2 fetches (about 3,461,000 states) | the splits of the same issues hold every labelled one, are ordered in time, and are not in the corpus |

**The violated run.**  `app/routes/admin.py:93` says "Cannot demote the last admin".
Two demotions that count at the same time both find two administrators.
`GuardFailsOnlyOnStaleCount` is what holds instead, and it is proved.

**Bounds.**  `MaxTurns` is 10 in the code (`loop.py:25`) and 3 here: a failure in one turn, its
effect on a call of a later turn, and the step limit all happen within three, and
the proofs hold for every bound.  Two calls per response are enough for a call
that fails in front of one that succeeds.  In `ChatService` two turns overlap and
a third reads what they left; `RecallLimit` is 1 (5 in the code) so that the limit
is reached, and each request writes at most one memory.  In `Administration` two
requests race and a third looks or repeats; the second user is promoted first, where
a demotion needs two administrators.  In `WidgetStream` a token in each of
two turns makes a reply of several tokens with a status between them, two turns
reach the step limit (10 in the code), and the second message meets the page the
first has left; the two streamed calls come in two pieces each, at indexes with a
gap.

In `CorpusFetch` the five issues of core fill three pages, of which one issue is
excluded and one has no text in its comments.  Three are wanted, or two while one of
these is not closed, and the limit is 2: it is reached in the middle of a page, at
its end or not at all, and cuts what a calm fetch finds.  With `MaxChars` 6 a body is
one chunk, two, or one paragraph that is too long; of the comments of one issue one
fits behind the title, one has no text, and one is cut; and
`EmbedBatch` 2 lets an issue lie across batches.  A second fetch and a second run
meet what the first left.

`Console` needs two sessions to disturb each other, a field that is typed and one
that is not, and two writes, so that one is late, or made on what the other left;
its proofs hold for any number of each.  `Startup` has all the paths the code has.
In `RagAnswer` four documents exceed the retrieval limit of 3 (50 in the code) and
three candidates the rerank limit of 2 (15); `RrfK` is the 60 of the code, and the
weights include both ends.  In `Evaluation` three issues of a label and one of each
of two others change precision and recall of two labels at once; the files of
thresholds are the shipped one and some with gaps, nulls and zeros.  In `DataSplits`
four issues of one label are the fewest that leave no split empty; one issue is
closed late, one has no label, and there is one docs issue more than `fetch_docs.py`
takes (`MaxDocs`, 500 in the code; `MaxIo` is the 1000 of `fetch_corpus.py`); a second
run and a second fetch make files of different runs and of different issues.

**Fairness.**  `AgentLoop`: weak fairness of the next step, because every await
ends (the HTTP clients have timeouts; the database answers or its connection
breaks).  `ChatService`: weak fairness of the server's steps of each request, for
the same reason; nothing forces a client to send, a key to expire or an agent to
remember.  `Administration`: weak fairness of the server's steps of each accepted
request.  The server does not wait for anything but row locks, which are held
until a commit or a failure.  `WidgetStream`: weak fairness of the server's steps
of each message and of the reader of each response (what was sent arrives), and of
`ReaderFails` for a response the server has broken off, since the closed connection
makes `reader.read()` fail.  The reader has no timeout of its own, so
`LoadingEnds` rests on the server's timeouts.  `CorpusIndexer`: weak fairness of the
fetcher's steps (each request has a timeout of 30 s, each wait is finite) and of each
run of the indexer.  `Startup`: weak fairness of a boot's next step or failure, as its
requests have timeouts or raise when nobody answers; nothing forces Vault, the
script or the model server to do anything.  `Console`, `RagAnswer`, `Evaluation` and
`DataSplits` state no fairness: their properties are about what is wrong at some
moment, and a user may walk away at any.  Deadlock is checked in every run;
`Finished`, where a module has it, is the only way to stop.

Every property of a passing run is shown to depend on the code: `PROJECT.json`
pairs it with a mutated operator under which TLC finds it violated.

## 4. Proofs

The eight proof modules are checked by TLAPS for all values of the constants that
satisfy the assumption of each module (`AgentAssumption`, `ChatAssumption`,
`WidgetAssumption`, `RepliesAssumption`, `AdminAssumption`, `ConsoleAssumption`, `StartupAssumption`,
`SplitsAssumption`, of the corpus `FetchAssumption`, `ChunkerAssumption` and
`IndexAssumption`, and of the answers `FusionAssumption`, `RagAssumption` and
`EvaluationAssumption`); TLC evaluates these on every run.

* `TypeCorrect`, in six of them, strengthens the type invariant by what the steps
  need: `LoopOK` (a dispatch has a call to dispatch, the turn is below the limit),
  `AskedOK` (what a request at work asks for fits the step it is at),
  `ReadingInBounds` (where `load_all` is in its list).
* `AgentLoopProofs`.  `SessionInv` is the heart: the pending rows of a usable session
  are exactly those of the call being committed, and each commit writes all or
  nothing of them.  `SessionIsClean` and `EffectsAreAtomic` follow from it: a
  memory row and its audit row are pending together, so they become durable
  together.  `ReportsAreTrue` needs that rows are named by calls that have
  been reported or are being committed.  `EveryCallIsAnswered`: the history is a
  complete prefix of call groups plus the group being served, cut at the current
  call.  `AnthropicIsReady`: what is converted for Anthropic is a conversation that
  could be sent, followed, while a response is served, by the response and one
  message with what its calls have brought so far (`SendableInv`).  That a result
  extends this message, and a response begins a new one, is a lemma about one
  message more at the end (`ToAnthropic` of an appended history), which needs the
  structure `HistoryInv` gives the history.  `AgentImplementsContract`: each step of `AgentLoop` maps to a step of
  `AgentContract` or to a stutter; its invariant `FreshInv` says that no row is
  named by the current or a later call, so that no call takes effect twice.
* `ChatServiceProofs`.  `ConversationsStayPaired`: a `Dialogue` is n recall pairs
  followed by turns of requests from a set R, none twice.  The lemmas on dialogues
  (a recall pair in front, a question and its reply at the end) are about sequences
  only; the invariant `ChatInv` then says which dialogue each copy and each stored
  value is.  R is the set of requests that are over, so the request at work is
  never in it, and a save puts it there at the moment it writes.  That no two
  replies have the same request becomes the count of `WellPaired` through a
  bijection (`DialogueTurns`).  `RecallIsCorrect` is carried by the same invariant.
  `RepliesStayInContext`: every copy and every stored value is in context
  (`ContextInv`), because a reply is made of the turns in front of it in the copy it
  is appended to, and neither a recall pair in front nor a question changes the
  turns.
  `PatienceKeepsHistory` is proved of `PatientSpec`: clients that wait leave one
  turn at a time in a conversation, and the copy that turn holds contains
  everything saved, so overwriting loses nothing.  `PatienceImplementsLog` maps a
  conversation to the turns of the copy that a turn at work holds, without its own
  reply, or of the stored value when none is held.  `LogInv` says that what a turn
  holds is what is stored, or was before it expired; so the save is the one step at
  which the log grows, and grows by this turn.
* `WidgetStreamProofs`.  `OneVoice`: tokens are not ahead of the turn, a turn that
  still asks a provider has said nothing, and while OpenAI streams only OpenAI has
  spoken.  `NothingIsLost`, `FinishedIsSaved` and `PageSettles` have one invariant,
  `FlowInv`: of a response that is read, the buffer and the wire together are whole
  events, a line and its two newlines each (`Framed`); the text of the bubble
  followed by theirs is what the server has said; `done` is the last of them, and is
  there or has been read exactly when the reply was saved; and nothing is left of a
  response nobody reads.  Its lemmas say what a page becomes by handling the units
  of a read one after the other (`HandleAllDoes`), whatever is cut off at the end.
  `RepliesAreAssembled` is about `LLMReplies`: after some of the deltas there is an
  entry for each call that has had one, and it is that call cut after as many pieces
  as there were deltas for it (`AreParts`); the next delta extends the one it is for
  and leaves the others (`PartsGrow`).  In the end every call is whole, and the order
  of increasing indexes is that of the calls (`IndexesListed`).
* `AdministrationProofs`.  `GuardIsAsGoodAsItsCount`: by induction, a count that is
  not stale is the number of administrators, so a demotion leaves at least one.
  `RoleChangesAreExplained`, `DeletionsAreRecorded`: audit entries are only
  appended, and the entry is part of the commit that makes the change.
  `LatestEntryIsTrue`: a commit that is not stale makes the role what its entry
  says, and entries about others leave both the role and the entry committed last
  alone (`LatestInv`); where no two requests about a user cross, this entry has also
  the latest `created_at`.  It needs that a request once sent keeps what it asks for, so that a user the
  users router has touched stays touched.
* `ConsoleProofs`.  `ConsoleInv` has, besides the types, `WaitInv` (a page awaits one
  request at most, and only while its script waits), `FormInv` (a form shows what
  is stored but for foreign fields, and was submitted for what was typed in it),
  `SavesInv` (a save under way differs from the row it finds in what was asked for
  and in nothing else, but for foreign fields) and `SpentInv` (what a page has listed
  since it was chosen stands in its box, and is not asked for any more).
  `SavesAreAsAsked` and `ChoicesAreSpent` follow for the one step that writes.
* `ServiceProofs`, of the boot.  `AnswersAreVerified`: what the server has verified is
  the expected file as long as nothing replaces it, so what it has loaded is, unless
  it was swapped in between, and what answers is what it has loaded.  `BootedServiceHasKey`: past the clients
  nothing clears the secrets.  `QuietBootHasSecrets`: the secrets read so far are
  those of Vault as long as the boot is quiet.
* `ServiceProofs`, of an answer.  `RagInv`: the candidates are the fusion of the two
  rankings up to the limit, the contexts are the candidates ranked again up to
  theirs, and where nothing was found, nothing of the first table has the words and
  fulfils the conditions: the search of the words had found it, and the fusion of a
  ranking that is not empty is not empty, whatever its weight.  A chain of lemmas carries it.  In a finite set with a strict total
  order every number below its size is the rank of one member (`RanksExist`, by
  induction over the size: a last member exists and is behind all others), so a
  sorted set is a sequence of its members in that order (`SortedIsInOrder`).  Values
  that are compared as fractions, with places that differ, are such an order
  (`ByValueIsInOrder`); the products of `Exceeds` are what this needs arithmetic for.
  A share shrinks with the rank, and a sum with its parts (`ScoresRespectRankings`).
  So a document that is nowhere behind another has no smaller score, and with the
  same score it entered the dictionary first (`FusionIsInOrder`).
* `ServiceProofs`, of the gates.  `BetterPasses`: one issue that becomes right adds one
  to what is found and what is predicted of its label and takes one from what is
  predicted of the other, so no F1 falls (`F1Grows`), the mean does not (`TotalGrows`),
  and rounding keeps the order (`RoundingIsMonotone`).  `DeadServiceFails`: without an
  answer every metric is exactly 0, and thresholds that passed the boot check are
  positive.  `GateInv` says that a verdict "passed" is one of the judgement of what
  was measured.
* `CorpusIndexerProofs`.  `IndexInv`: the files have no issue twice; a run inserts
  once; what it is to insert, and what it has inserted, has with a chunk of an issue
  all of them, each once (`ChunksAreFull`); an issue of its file was indexed when it
  looked or is among its chunks (`RowsAreCovered`); and of an issue whose chunks were
  there when it looked it has none (`LookedFirst`).  `OnlyOverlapDuplicates` and
  `DoneFindsAll` follow.  `IssuesAreWhole` follows with a chain of lemmas about
  `Chunker`, for every issue and limit: the chunks of the body put together are its
  paragraphs, a chunk of several paragraphs is within the limit, indexes increase,
  and the comments that have text are there in their order, whole or filling their
  chunk up to the limit.
  `CalmFetchFindsAll` has `CalmInv`: what is collected is what is wanted of the issues
  the script has looked at, and those it has not, on this page and beyond it, are all
  older.  So when a limit is reached, what is missing is older than what is there.
  Its lemmas are about ranks in a finite set of numbers: a page is an interval of
  ranks, the pages behind it are what it leaves, and `NewestFirst` lists it in order.
* `DataSplitsProofs`.  `SplitsStayTemporal`: what is computed of a set of issues is
  ordered (a lemma on positions inside a finite group) and complete (every position
  is in a split), and each file holds its part of what was computed of the issues it
  is of (`SplitsAreComputed`), whichever run wrote it.  `CorpusStaysClean`: exclusions are those of the files as they were,
  and files with the same stamps have the same content.

Recursion over data (a fold over messages, deltas, units, paragraphs or rows) is
written as a recursive function inside the operator that uses it.  Each such
operator has a lemma that its function exists and satisfies its equation, and one
that says what one element more does; both are inductions over the set of lengths
for which they hold (`NatSetInduction`), and the proofs above use no more than
these.

Only model-checked are the liveness properties (`Terminates`, `RequestsEnd`,
`LoadingEnds`, `FetchEnds`, `BootEnds`), which need ENABLED.  Every safety property
of a passing run has its theorem.

The type invariants of `ChatService`, `WidgetStream`, `RagAnswer` and `Evaluation` are no
property of a run; they were checked by TLC and document the variables.  Those of
`RagAnswer` and `Evaluation` are proved (`RagTypeCorrect`, `GateTypeCorrect`).

## 5. Known divergences without a run

These were met while modelling.  The models have them; no run is spent on them.

* An inference call of a visitor is served and not logged: the log's owner is
  NOT NULL (`app/agent/tools/registry.py:125`).
* The audit entry of a memory names the target `"None"`: it is made before the
  flush that gives the memory its id (`app/agent/tools/write_memory.py:37`).
* A role changed through the users router is unaudited if its request fails
  between its two commits, and its entry names the changed user as the actor
  (`app/services/auth.py:33`).  `ChangesAreExplained` exempts such a request, as
  nothing in the code mends it.
* The audit log is read by `created_at`, which is when the transaction of an entry
  began (`app/db/models.py:66`).  Of two role changes that overlap, the one that
  began first may commit last; then the latest entry contradicts the role.
  `LatestEntryTellsRole` exempts this (`crossed`); without it TLC finds two requests
  that show it.
* "commits after every _EMBED_BATCH chunks so progress is saved incrementally"
  (`app/rag/indexer.py:16`): it logs progress per batch and saves everything in one
  commit at the end (`app/rag/indexer.py:59`).  `WholeIssues` rests on this commit:
  with one per batch a run that stops would leave the half of an issue, which is never
  returned to.
* "merged to stay under _MAX_CHARS" (`app/rag/chunker.py:27`): the separators are not
  counted, and a paragraph that is longer alone is not cut.  A comment is, behind the
  title, with no chunk for the rest (`app/rag/chunker.py:69`).
* An issue with a chunk in the table is never indexed again, also when its text or
  its comments have changed since (`app/rag/indexer.py:37`).  In the model an issue
  has the same text in every fetch.
* A fetch that gives up on a page ends its repository without an error
  (`app/rag/data/fetch_corpus.py:151`); `CalmFetchIsComplete` is about fetches that
  give nothing up.
* The searches by embedding go through HNSW indexes
  (`app/db/alembic/versions/0001_initial.py:64`, `:95`), which are approximate: with
  pgvector's default such a scan visits 40 rows (`hnsw.ef_search`), fewer than the 50
  that are asked for, and the conditions are applied to what it has visited.  So a
  document that fulfils them may not be found although it is there, and
  `NotFoundIsTrue` is about those that have the words of the question.
* The weights are hashed and then loaded; a file put in place in between is served
  (`inference/main.py:76`).  `OnlyVerifiedWeightsAnswer` says that there is no other
  way.
* Splits that were computed from different issues, after a run stopped between its
  writes, may share issues, or lose some; a torn file makes `fetch_corpus.py` raise,
  and nothing else notices (`ml/data/split.py:44`).  `SplitsAreTemporal` is about
  files that were computed from the same issues.
* `docs/ARCH.md:91` and `:94` say "top-20 candidates" and "top-5 most relevant
  chunks", and `docs/EVALS.md:71` "top-5 chunks", where the code has 50 and 15
  (`app/services/rag.py:18`); `docs/EVALS.md:34` says "80% of the temporal split",
  where the code has 70% (`ml/data/split.py:19`).
* Of two overlapping turns the later save wins, and a saved turn is lost
  (`app/services/memory.py:31`): `ConversationLog` is implemented for patient
  clients only.
* The docs issues a corpus leaves out are those of the current
  `docs_issues.parquet`, not those the splits were made of
  (`app/rag/data/fetch_corpus.py:113`); `CorpusIsClean` says so.
* The RAG gate passes over metrics that were not measured
  (`eval/rag/runner.py:79`), and its MRR equals its hit@5
  (`eval/rag/retrieval_eval.py:53`).
* `assert_redis_reachable` and `assert_llm_key_configured` are never called
  (`app/core/startup_checks.py:143`).

## 6. Not modelled

* Texts, prompts, embeddings, distances and the models themselves: a model
  checker has nothing to say about them.  Where their results matter they are
  chosen.
* Redaction (regular expressions over a text), the embedding model, the tracing
  and MinIO clients: no state and no order of events.
* The creation of a widget (it inserts a row of its own), the HTML that embeds one,
  the listings, the memory and login pages, registration and login
  (fastapi-users): they share no state that an order of events could spoil.
* The counts of tokens and their logs; NDCG, the ablations and the reports of the
  gates, which nothing judges; a crashed runner leaves the report of an earlier
  run, which is why the gates are their exit codes here.
* Floats: `int(0.70 * n)` may fall one short of the exact 70% (it does at 90
  issues of a label), which moves one issue between splits and keeps their order;
  the fusion compares fractions that lie further apart than the rounding.
* The notebooks of `ml/`, whose cells are run by hand; migrations; containers, but
  for what starts in which order and which volumes are shared (`Startup`).
