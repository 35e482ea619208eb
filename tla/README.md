# Verification of the knowledge search

TLA+ modules of the parts of `knowledge_search` whose correctness depends on the order of things:
uploads, ingestion attempts and deletions that interleave over one database, one vector index, one
file store and one queue, and what the HTTP API tells its clients meanwhile; the file store, down to
its system calls; searches and their cache over a corpus that changes under them; concurrent questions
over one lazily created embedding model; and the algorithms that turn a file into located chunks, rank
them and measure the ranking. TLC checks them on small instances, and TLAPS proves every safety
property, for every number of documents, workers, requests and retries, every file and every ranking.

Paths below are relative to the repository; `application/` and the like are under
`src/knowledge_search/`.

## Inventory

| Component | State | Operations | Models |
|---|---|---|---|
| Document and job lifecycle (`domain/documents.py`) | status and failure code of a document and of its job | the transitions of either | `Documents`, `DocumentWorkflow` |
| Submission (`application/documents.py`) | one request: the file it saved, the rows it read | validate, save the file, look up the hash, insert, enqueue, mark a failed dispatch | `DocumentWorkflow` |
| Deletion (`application/documents.py`) | one request | mark and announce, cancel the job, remove vectors, file and row | `DocumentWorkflow` |
| Ingestion worker (`application/ingestion.py`, `worker/`) | one attempt | start, prepare, upsert, publish, mark failed, clean up | `DocumentWorkflow` |
| Persistence (`persistence/`, `migrations/`) | documents, jobs, chunks, the corpus revision | transactions of the above, `load_chunks`, keyword search | `Documents`, `DocumentWorkflow`, `SearchCache` |
| Queue adapter (`providers/redis_queue.py`) | RQ's waiting jobs and their retries | enqueue with `Retry(max=3)`, cancel | `DocumentWorkflow`; RQ itself is external |
| Vector index (`providers/qdrant_index.py`) | points in Qdrant | upsert, delete by document, search | `DocumentWorkflow`, `SearchCache`; Qdrant is external |
| File store (`providers/local_files.py`) | one directory and file per document | save, open, delete | `LocalStore`, `DocumentStore`; one step each in `DocumentWorkflow` |
| Search and cache (`application/search.py`, `application/cache.py`, `providers/redis_cache.py`) | entries in Redis | read the revision, look up, find candidates, hydrate, store | `SearchCache`, `Corpus` |
| Extraction (`ingestion/extraction.py`) | none: file to sections | Markdown, PDF, plain text | `Extraction`, `Pipeline` |
| Normalization, layout and chunking (`ingestion/normalization.py`, `pipeline.py`, `chunking.py`) | none: sections to chunks | normalize, fixed windows, section-aware windows | `Chunking`, `Pipeline` |
| Ranking (`retrieval/ranking.py`, `application/search.py`) | none | candidate limits, reciprocal rank fusion, loading, final limit | `Ranking`; `SearchCache` leaves the order open |
| Evaluation (`evaluation/`, `scripts/evaluate_retrieval.py`) | none | recall, reciprocal rank and nDCG of a search | `Evaluation` |
| Answers (`application/answers.py`, `generation/`) | none | a search, then a generator | `Questions`; the search is a reader of `SearchCache` |
| Embeddings (`providers/embeddings.py`) | the lazily created model, its lock | get the model, embed | `Questions` |
| HTTP API (`api/`) | none of its own: exceptions in flight | uploads, deletions, searches, questions and their replies | `Api`, `Questions`; single reads, lists and health probes are not modelled |
| Configuration, observability, web UI | settings | wiring, logs, presentation | not modelled, but `Settings.validate_chunking` bounds `Chunking` |

How they interact. The API process submits and deletes; RQ hands a job to a worker process; both
write the same PostgreSQL rows at READ COMMITTED without locking them (only the corpus revision is
locked), and both call Qdrant, Redis and the file store outside any transaction. Searches read the
revision, Redis, either index and the rows one after the other while all of that goes on.

What is hard, and what makes each part correct:

* *Submission.* Two uploads of one content; a failure between the file, the rows and the queue; an
  enqueue that worked but raised. Right: one document for each content, no file without an owner,
  no accepted upload that stays unprocessed.
* *API.* Its replies are promises. Right: a refused upload left nothing, not both of two equal uploads
  are refused, what was said to be stored stays, what was said to be deleted is gone.
* *File store.* Any call may fail, the process may stop, the host may lose power. Right: a file has its
  name only when it is whole, a refused upload leaves none, a deletion that returns has removed it.
* *Questions.* The first requests race for the embedding model, whose creation may fail. Right: one model,
  nobody embeds without it, everybody is answered, with a reply that fits the deployment.
* *Worker.* Retries, work-horses killed half-way, attempts RQ gives up while they run, errors of the
  clean-up itself. Right: the two rows agree, a success is final, "ready" means chunks, vectors and
  file are there.
* *Deletion.* Concurrent with itself, with attempts and with a late failure, and it may stop after any
  step. Right: a document marked for deletion never comes back and goes in the end.
* *Corpus revision and cache.* What can be searched changes with the revision, and no result is older
  than the search it answers.
* *Ranking.* Two orders become one, over chunks that may be gone by then. Right: no chunk falls behind one
  that no index preferred, and nothing is left out while the limit has room.
* *Extraction and chunking.* Offsets, boundaries and skipped levels. Right: no text is lost, each
  chunk's locator gives back its text, and its section is the one it is in.

`PROJECT.json` lists the hazards one by one, each at its line.

## Modules

| Module | What it is |
|---|---|
| `Documents` | the two transition tables; `UpdateCommits` and `Updated`, the effect of the UPDATE of a `save()` on a row that changed since `save()` selected it |
| `Corpus` | abstract: the set of searchable documents and the revision. What a search may rely on |
| `DocumentWorkflow` | submissions, attempts and deletions; implements `Corpus` |
| `DocumentWorkflowInv` | its inductive invariants, named conjunct by conjunct |
| `DocumentWorkflowProofs` | theorems about the workflow and its two inductive invariants |
| `Api`, `ApiProofs` | the replies to uploads and deletions, over the steps of `DocumentWorkflow`; theorems |
| `DocumentStore` | abstract: a store that saves a document at once and loses it to a deletion or to a loss of power |
| `LocalStore`, `LocalStoreProofs` | `LocalDocumentStore`, call by call; implements `DocumentStore`; theorems |
| `Questions`, `QuestionsProofs` | concurrent searches and questions over one embedding provider and one generator; theorems |
| `SearchCache` | searches and cache, composed with `Corpus` as their environment |
| `SearchCacheProofs` | theorems |
| `Ordering`, `OrderingProofs` | the members of a set in order, for `Extraction`, `Chunking` and `Ranking`; lemmas on orders, smallest and largest numbers, recursive functions and concatenations |
| `Extraction` | parsed file to sections |
| `Chunking` | sections to chunks |
| `Pipeline`, `PipelineProofs` | the two composed: `DocumentContentPreparer.prepare`, from file to chunks; theorems |
| `Ranking`, `RankingProofs` | from the rankings of two indexes to the results of a search; theorems |
| `Evaluation` | EXTENDS `Ranking`: the metrics of its results; theorems in `RankingProofs` |
| `MC*` | small instances for TLC: values, symmetry, a view |

### DocumentWorkflow

Each submission, work-horse and request to delete is an actor whose `pc` names the next call the code
makes; what it has read and still uses is in its record (`doc`, `job`).

| Variable | Code |
|---|---|
| `docRow`, `jobRow` | `documents.status`, `ingestion_jobs.status`, or no row |
| `chunks`, `revision` | chunk rows, `corpus_revision.revision` |
| `points`, `files` | documents with points in Qdrant, with a file in the store |
| `queued`, `retries` | RQ: jobs waiting or scheduled, retries left |
| `sub`, `att`, `del` | the handlers in progress |
| `accepted` | history: documents for which "deleting" was committed |

A transaction is one step for each SELECT of a document or a job and one last step that writes and
commits, so that any other step may come between. There are two kinds of SELECT. `get()` is what a
handler decides from (`*ReadDoc`, `*ReadJob`). `save()` then selects the row again (`*SaveDoc`, `*SaveJob`,
`DeleteSave`): it calls `session.get` of its own (`persistence/repositories.py:49`, `:108`), the session's
identity map is weak, and nobody has kept the record that `get()` loaded. The UPDATE names the columns in
which that later row differs from the new one, not the row the handler decided from, so the record of an
actor then holds the later one.

`UpdateCommits(now, seen, new, recodes)` and `Updated(now, seen, new)` say what the UPDATE does to a row
that `save()` found at status `seen` and that is at `now` by then. There is no version column, so a status committed
meanwhile is overwritten, unless the two are equal and the UPDATE leaves the column alone. The failure
code is reset, or set, with the status when exactly one of `seen` and `new` is "failed" (`WritesCode`): a start, a
publication or a deletion mark may therefore commit over a row that has failed since the handler read it, if
`save()` has seen the failure. If it came later still, the CHECK constraint on status and failure code rejects
the mixture of the two. Between two failures the code is written if the two codes differ, which `recodes` leaves
open for `_mark_failed`; "queue_unavailable" is the code of no other failure, so that a failed dispatch always
writes its own. A row that is gone raises, in `save()` or in the UPDATE. What the second UPDATE of a
transaction finds is taken at the commit, although the first may have been sent, and its row locked, some
steps before: the model admits more interleavings than PostgreSQL does, and none fewer. `ContentTaken` is both the
lookup by hash and the UNIQUE constraint, at their different moments.

The actions follow the handlers: `SaveFile`, `CheckHash`, `Insert`, `InsertFails`, `Unstore`,
`Enqueue`, `Dispatch*` are `submit` and `_mark_dispatch_failed`; `StartRead*`, `StartSave*`, `StartJob`, `Prepare`,
`Upsert`, `Final*`, `Publish`, `Fail*`, `MarkFailed`, `Cleanup` are `process`, `_start_job` and
`_mark_failed`; `Delete*` is `delete`; `DispatchAborts` and `AttemptAborts` are a transaction that fails at any of
its steps outside the `try` of its handler; `Deliver`, `RetryJob`, `WorkerCrash`, `Abandon` are RQ as the
code configures it. A document and its job share an identity, as every submission creates one of each.
Timestamps, `attempt_count` and the particular failure code are left out: no code decides by the latter
two, and a transition refused because of a clock is a transaction that rolls back.

Failures of the database, Qdrant and the file store in the ordinary course (a failed insert, upsert,
publication, clean-up or deletion step, an enqueue that raises) are always possible. `Faults` selects
the rarer ones: `api_crash`, `ack_lost` (Redis took the job and the API saw an error), `late_error`
(an exception after the commit of a transaction took effect: of an insert, a failed dispatch, a start, a publication, a failure, a deletion mark or the removal of a row), `db_error` (a transaction outside those fails, at any of its steps, and rolls back), `abandon` (RQ gives up
a live attempt and queues the job again), `store_error` (unlink fails). `Crashes` bounds how many
attempts of a job may be killed.

### Api

`Api` EXTENDS `DocumentWorkflow` and gives its handlers their outcomes: `error` is the exception in flight
while an upload cleans up after itself, `reply` the status that ends it (`UploadStatus` is the table of
`api/errors.py`), `told` the last status a request to delete a document got. Every action is one of
`DocumentWorkflow` with its reply, except those that only read (`LookedAgain`, the lookup after a lost
race, `Unknown`, `Conflict`). A loser of the race for a content is `Inserted` into the constraint or
`NotInserted`, then `Unstored`, then `LookedAgain`, whose own transaction may fail as well (500). When the API stops its
uploads are `Lost`: nobody was told anything.

Redis may take a job without saying so (`ack_lost`), and `_mark_dispatch_failed` may then fail a document whose
attempt had succeeded meanwhile. The step that does so answers the upload: with 503, or with 500 when its commit
took effect and raised all the same (`late_error`), since nothing in `submit` catches that. `SuccessIsFinal`
names these two as its only exception. A request to delete whose mark or whose removal of the row raises late is told
500 too (`Marked`, `Removed`).

### LocalStore

| Variable | Code |
|---|---|
| `entry`, `blocks` | what the directory of a document holds and how much of the file is written, as processes see it |
| `entryOnDisk`, `blocksOnDisk` | what a loss of power leaves: the directory as last written back, the blocks that were synced |
| `save`, `read`, `del` | the calls in progress, each with the next system call it makes |

Each system call is an action that works or raises; the `except` clause of `save` is `UnlinkPartial` and
`RemoveDirectory`, which ends with the exception it began with (`raises`) or with that of `unlink`. A file
is counted in blocks of `COPY_BUFFER_BYTES`. `Journal` writes a directory back at any time; `PowerLoss`
returns to what was written back and to any length between what was synced and what was written.
`DocumentStore` is the store the others think they have; the refinement mapping reads the documents from
the directories and takes "saved" from the calls that returned. The directory is never synced by the code,
so a loss of power may lose a saved file, whose row stays, or bring back a deleted one: both are
`LosePower` of `DocumentStore`, and no file is ever torn.

### Questions

A request to `/search` or `/answers` is a thread of the API. `Search`, `LoadChunks`, `Answer` and `Generate`
follow `AnswerService` over the search, with the corpus and the cache reduced to whether evidence was found.
`GlanceAtModel`, `Acquire`, `Recheck`, `CreateModel` or `CreationFails`, and `Release` are `_get_model`, the
first without the lock; `Embed` uses the model. `Problem` is the table of handlers in `api/errors.py`. A
request is asked once: a burst is finite, since `threading.Lock` promises no order among those who wait.
fastembed is external; it loads the weights of the one model at the first inference, without this lock.

### SearchCache

The environment is `Corpus!Next`, exactly what `DocumentWorkflow` is shown to implement, a document
that lapses without a new revision included. A search is `ReadRevision`, `Hit` or `Miss`,
`KeywordCandidates`, `VectorCandidates`, `Hydrate`, `Store`, `Reply`, or `Fails`, and `Expire` is Redis
dropping an entry. Which candidates rank best is left open (`BestOf`), and Qdrant may return any
points, since nothing ties its contents to the rows at the moment of the search, nor, as no threshold cuts
off what is far, to the query: only the documents in `Matching` are found by their words. In a hybrid search those
that do not match compete for the places of the result (`Competing`), and `Complete` promises a matching document
its place only when all that compete fit the limit. A document stands for the best of its chunks. `witness`, `stable` and `lapsed` are history.

### Extraction, Chunking and Pipeline

`Extraction` starts from what the parsers make of a file: lines with a heading level and the pieces
`str.splitlines` cuts them into, or pages. The stack of headings, the preamble, the body of each
heading and the page limit are the code's. `Chunking` takes sections as sequences of characters of three
classes (word, other mark, blank), which is all the token pattern and `strip` tell apart. The loop of
`_normalize_sections` is the recursive function of `NormalizeSections`, an `AddSection` for each section
(blank ones are skipped) at the `Cursor`, which leaves room for the separator that `Join` puts between
the texts. The loop of `_windows` is in closed form: window `p` begins `(p - 1) * Step` tokens into the
text, and the last one is the first that reaches the end. `Pipeline` EXTENDS both and adds the order of
`prepare`: `Extract`, `NormalizeExtracted`, `ChunkNormalized`; `outcome` says how far it came, and each
step may end in a refusal instead, the last two if nothing is left. Some of its properties follow characters from the line or page they
stand on to the chunk that is cited (`Origins`), independently of the offsets the code computes.

### Ranking

A request with its settings and what each index finds is chosen in `Init`; `RankCandidates` is the cut to
the candidate limit and `_rank`; `LoadChunks` loads any subset (documents go away meanwhile) and
assembles. Scores are exact fractions. The code adds two floating-point numbers, which is
commutative, so that swapped ranks tie in both; two different pairs of ranks whose fractions are equal may
differ in the last bit there and are then ordered by it.

### Evaluation

`Evaluate` measures the results of `Ranking` against one of the judgements in `Cases`, a location for each
chunk being given (`LocationOf`): several chunks may be of one section. Metrics are fractions, and the
discounts `1 / log2(rank + 1)` are scaled integers of which only the order matters (`EvaluationAssumption`).
`Relevances` counts a location at its first chunk, `Gain` is `2**relevance - 1`, `Graded` the judged relevances
in falling order and `Ideal` as many of them as the limit allows.

## Runs

`CHECK_DEADLOCK FALSE` throughout: the service with every document deleted or settled, a search bound
by `MaxRevision`, or a finished pipeline really has nothing left to do.

| Run | Instance | What it shows |
|---|---|---|
| `workflow_safety` | 1 document, 1 work-horse, 2 requests to delete, the code's 3 retries, all 4 attempts may be killed; `ack_lost`, `api_crash`, `db_error` | the two rows agree; a searchable document is complete; both inductive invariants hold |
| `api` | 2 documents of one content, 1 work-horse, 1 deleter, 2 retries, the first attempt may be killed; `late_error`, `db_error`, `ack_lost`, `api_crash`; up to the second insert (`OneIsInserted`) | one document for each content; a refusal left nothing, and not both uploads are refused; no file left behind; what was said to be stored stays, what was accepted was sent, what was said to be deleted is gone; a success is never taken back but in the step that answers with an error |
| `workflow_liveness` | 1 document, 2 work-horses, 1 deleter, 1 retry, no kill; `ack_lost`, `abandon`, `store_error`; fair, and the client repeats | every accepted upload settles; overlapping attempts still implement `Corpus`; every accepted and repeated deletion completes |
| `local_store` | 2 documents of up to 2 blocks and one too long, 1 reader, 2 deletions, every call may fail, the API stops, power is lost | implements `DocumentStore`; refusals leave no file; readers get whole files; deletions remove |
| `questions` | 3 requests, both routes, keyword and hybrid, either generator; fair | one model; none embeds without it; replies fit the deployment; every request is answered |
| `search_cache` | 2 documents, one of which matches, 2 readers, all three modes, limit 1 of 2 candidates, revisions to 2 | fresh, complete, and the inductive invariant of completeness (`CompleteInv`, which holds that of freshness) |
| `pipeline` | every Markdown file of up to 5 lines (headings of 3 levels, text, blank); PDFs of up to 3 pages with every text of up to 5 characters in all, and of up to 5 pages, empty or unreadable ones included, with a limit of 4; sizes to 3, every overlap, both chunkers | every token of the file is in the text once, every token of the text in a chunk; locators; windows advance by the step; citations name the headings or the page; chunks cross neither; only files without text are refused |
| `ranking` | every pair of rankings of up to 3 of 4 chunks, limits and multipliers 1 and 2, `rrf_k` 1 and 60, every choice of vanished chunks; 5 judgements of 3 sections, two chunks in one of them | better ranks come first, the order is independent of insertion, nothing better is left out, the limit is reached; metrics never exceed 1, and nDCG is 1 exactly for the best possible results |
| `workflow_interrupted`, `workflow_stale_revision`, `workflow_unindexed`, `pipeline_linebreaks` | expected violations | see Findings |

Why the bounds are enough. Nothing in the workflow relates two documents except the hash and the
revision, so one document shows every interleaving over its rows and two show the race for a content;
the proofs cover the rest. Two requests to delete overlap at any two steps in
`workflow_safety`, with the code's own retries; in `api` a job may fail, be killed and succeed, each in an
attempt of its own. That run ends where the second upload of a content is inserted after the deletion of the
first was accepted (`OneIsInserted`): from there it takes the steps the first one took, over rows and
files of its own, and the theorems about `Api` have no such bound. Two overlapping attempts are the case `abandon` is about. In
`LocalStore` two documents show that nothing of one touches the other, two deletions race for one file, two
blocks make a partial file that is neither empty nor whole; the proofs cover the rest. In `Questions` one
request creates the model, one waits and one comes late; vector searches take the steps of hybrid ones
here. In
`SearchCache` an old entry needs a writer, a later reader and a change between them, and a publication and
a removal are two: two readers and two revisions. One document that matches and one that does not show what
competes for the one place of each mode. Five characters hold a document of three sections or three overlapping windows; five lines hold
a preamble, headings of skipped, repeated and rising levels, and text between and below them. Three
candidates in each index show a chunk of both, of one and of the other, in every relative order, and
`rrf_k` of 1 and 60 the steepest fusion and the configured one.

`ApiView` leaves the revision and the replies to deletions other than their being final out of the
comparison of states: no step and no property of the run reads them. `LiveView` identifies states of `SearchCache` that differ only in entries of revisions no request can
look up any more: such entries can never be read, since requests yet to come read the present revision or a later one.

### Fairness

`Fairness` is weak fairness of each actor: a thread of the API or a work-horse that can take a
step takes it, with two work-horses as with one, and RQ hands out a waiting job while a work-horse is idle. Which branch a step takes
(success or failure) is never assumed. `RetriedDeletion` is an assumption about the client and says so:
a request that answers 503 is repeated, and the steps of the clean-up do not fail for ever (there is a last
failure). Without it a deletion stops where it failed, since no background task takes it up.
Only `DeletionCompletes` needs it: a deletion is refused while a document is queued or processing, so that no client can
help `Settles`.
`Settles` uses no kills (`Crashes = 0`) and no API crash: with a kill it fails (`workflow_interrupted`), and an API that
stops between its commit and its enqueue leaves a queued row with no job, for which the code has no
recovery and promises none; a `_mark_failed` whose own transaction fails (`db_error`) leaves the same
pair as a kill, and so does an insert that took effect but raised (`late_error`), after which nothing is
enqueued. `Settles` is claimed, and checked, without these four. `DeletionCompletes` needs the same: an attempt that overwrote
"deleting" and is then killed, or cannot record its failure, leaves a document that no deletion may take. It needs no luck with the retries: when they are
spent the document is failed, and that is settled.

## Findings

* `workflow_interrupted` - a work-horse killed after its start commits leaves processing/running, which
  no retry accepts and no deletion may take (`application/ingestion.py:112`).
* `workflow_stale_revision` - a retry that read failed/failed before the deletion was accepted writes
  processing over deleting (`application/ingestion.py:114`); it may publish, and the deletion then removes
  the row of a searchable document without a new revision (`application/documents.py:203`). `Corpus`
  therefore has `Lapse`, and `Fresh` states precisely what remains true in spite of it.
* `workflow_unindexed` - an exception after the publishing commit deletes the vectors of a document
  that stays ready (`application/ingestion.py:84`).
* `pipeline_linebreaks` - heading lines counted by one library index the lines of another, which
  breaks at more characters: text before a heading is chunked and cited with the text below it
  (`ingestion/extraction.py:48`).

## Proofs

All hold for any finite or infinite sets of documents, work-horses and requests, any assignment of
contents and any bound on retries and crashes (`WorkflowAssumption`); for searches, any readers,
modes, limits and finite set of documents (`SearchAssumption`); for the store, any documents, readers,
deletions and sizes (`LocalStoreAssumption`); for questions, any requests (`QuestionsAssumption`); for
rankings, any chunks, lengths of rankings, and positive limits, multipliers and `rrf_k`
(`RankingAssumption`; `Settings` and the request schema let no other through); for the evaluation, any
finite judgements of positive relevance, any places of the chunks and any positive, falling discounts
(`EvaluationAssumption`; `RelevantLocation` lets no other relevance through); for the pipeline, any
Markdown files and PDFs of any length, any size of chunks and any overlap below it (`ExtractionAssumption`,
which says what the parsers deliver: every line has at least one piece and no heading is blank, and
`ChunkingAssumption`). What a theorem assumes is never a bound. It is a kind of fault excluded or, for the
three theorems from a line of the source to the text, `UnbrokenLines`: no line of a Markdown file holds a break
that `str.splitlines` knows and CommonMark does not. It is an assumption of those theorems and not of the
model because real files break it, and where they do the code misplaces text (`pipeline_linebreaks`); the
instance of `pipeline` satisfies it, which TLC checks (`UnbrokenInstance`).

| Theorem | States | Assumes |
|---|---|---|
| `TypeCorrect` | `Spec => []TypeOK` | - |
| `UniqueContent` | `Spec => []ContentIsUnique` | - |
| `CorpusRefined` | `Spec => ImplementsCorpus` | - |
| `Agreement` | `Spec => []StatusAgreement` | no `abandon` |
| `Completeness` | `Spec => []ReadyIsComplete` | no `abandon`, no `late_error` |
| `AgreementIsInductive` | `Spec => []AgreementInv` | no `abandon` |
| `CompletenessIsInductive` | `Spec => []CompletenessInv` | no `abandon`, no `late_error` |
| `Freshness` | `Spec => []Fresh` | - |
| `CacheIsSound` | `Spec => []CompleteInv` | - |
| `SearchesAreComplete` | `Spec => []Complete` | - |
| `ApiRunsTheWorkflow` | `ApiSpec => Spec` | - |
| `StoredDocumentsStay` | `ApiSpec => []StoredIsKept` | - |
| `DeletionIsFinal` | `ApiSpec => []DeletedIsGone` | - |
| `RefusalsLeaveNothing` | `ApiSpec => []RefusedLeavesNothing` | - |
| `DuplicatesHaveAnOriginal` | `ApiSpec => []NotAllAreDuplicates` | - |
| `AcceptedJobsAreSent` | `ApiSpec => []AcceptedIsSent` | - |
| `FilesAreOwned` | `ApiSpec => []NoOrphanFile` | no `store_error` |
| `SuccessesAreFinal` | `ApiSpec => SuccessIsFinal` | no `abandon` |
| `LocalStoreProofs!TypeCorrect`, `WholeFilesAreRead`, `DeletionsRemove` | `Spec => []TypeOK`, `[]ReadersGetWholeFiles`, `[]DeletedIsRemoved` | - |
| `RefusalsLeaveNoFile` | `Spec => RefusedLeavesNoFile` | - |
| `StoreImplemented` | `Spec => ImplementsStore` | - |
| `ModelCreatedOnce` | `Spec => OneModel` | - |
| `ModelBeforeEmbedding`, `RepliesFit` | `Spec => []EmbedsWithAModel`, `[]RepliesFitTheDeployment` | - |
| `FusionIsSymmetric` | `Spec => []OrderIsIndependent` | - |
| `BetterRanksLead` | `Spec => []BetterRanksComeFirst` | - |
| `BestAreKept` | `Spec => []NothingBetterIsLeftOut` | - |
| `MultiplierMakesUp` | `Spec => []LimitIsReached` | - |
| `ChunksPointAtTheirText` | `Spec => []ChunksAreLocated` | - |
| `ChunksOverlapAsSet` | `Spec => []WindowsAdvance` | - |
| `ChunksLeaveNothingOut` | `Spec => []ChunksCoverTheText` | - |
| `CitationsAreCorrect` | `Spec => []CitationsNameTheirPlace` | `UnbrokenLines` |
| `ChunksCrossNoHeading` | `Spec => []ChunksKeepWithinHeadings` | `UnbrokenLines` |
| `EveryTokenIsKept` | `Spec => []NoTokenIsLost` | `UnbrokenLines` |
| `RefusedFilesAreEmpty` | `Spec => []OnlyEmptyFilesAreRefused` | - |
| `EvaluationSearches` | `EvaluationSpec => Spec` | - |
| `NoMetricExceedsOne` | `EvaluationSpec => []MetricsAreFractions` | - |
| `PerfectionIsRecognised` | `EvaluationSpec => []PerfectIsBest` | - |

*Uniqueness* is inductive with the types: the only step that gives a document without a row one is
`Insert`, and it is guarded by the constraint, not by the earlier lookup.

*Refinement.* Each action of the workflow is `Publish`, `Retire`, `Lapse` or a stutter of `Corpus`: the set of
ready documents grows only in `Publish`, which increments the revision, and `SetBoth` of any other handler can only take one
document out. No assumption on faults is needed, so what `SearchCache` rests on holds even where
`StatusAgreement` and `ReadyIsComplete` do not.

*Agreement.* `StatusAgreement` is not inductive. A handler writes both rows from values found at
different moments, so it could pass a state in which `_mark_failed` found one pair while the rows hold
another. What makes it inductive says, for each handler, what others can have committed since it looked. While an
attempt starts or indexes a document, nobody else starts or publishes it: neither row is "ready" or
"succeeded", none is "processing" or "running" before the start commits, and what its saves have found is neither
(`SoleWriterOfDoc`, `SoleWriterOfJob`). Only a failed dispatch and a deletion can come between, and over the rows
they leave a save writes both statuses or, by the CHECK constraint, none. `FailureReads` is the same for
`_mark_failed`, which saves only the rows it read as "processing" and "running" (`SavesDoc`, `SavesJob`): a row it does
not save cannot come back into either state, and one it finds failed is failed with the other or gone. `DeletionIsLate` says that
a deletion never touches a queued row, and `UnsentIsUntouched` that until a job is sent only its submission
has it; `SoleAttempt`, one delivery at a time, is what an abandoned attempt breaks, hence the hypothesis. It is one: with `abandon` TLC finds two
attempts tearing the rows apart.

*Completeness* adds that the file is stored before the row and outlives it unless a deletion was
accepted (`FileOutlivesRow`), that an attempt has indexed its document before publishing it and marks failed only what
is not ready (`AttemptIndexesFirst`), and that the clean-up of a deletion only works on accepted
documents (`CleanupIsAccepted`). `late_error` is excluded because with it the property is false
(`workflow_unindexed`).

*Freshness.* What is kept for a revision, in the cache or in a search about to store, holds no more
than the corpus had under that revision, nor than any request looking up that revision has seen
(`KeptIsSeen`). A request that starts later takes `searchable \union lapsed` as its witness, hence the
lapsed documents in the invariant.

*Completeness of searches* is the other half: what is kept hides nothing (`KeptIsWhole`). An entry of the
present revision holds all that is searchable whenever no limit can have cut it, which is decided by
`searchable \union lapsed`, the witness of a request about to begin, and by what competes in the entry's mode (`Fits`); one that a request is looking up holds
what stayed searchable since that request began. `CompleteInv` needs `FreshInv`: between the candidates
and the hydration, only a set no larger than the witness is known to fit the limit.

*Replies.* `ApiProofs` builds on the lemmas of `DocumentWorkflowProofs`; only `SuccessesAreFinal` takes one with a
hypothesis on faults. A document answered as stored has a row until its deletion is accepted, since
rows go in `DeleteRow` only, and that works on accepted documents. That a deleted document is gone needs
more: a row appears in `Insert` only, once (`InsertedOnceStep`); chunks never outlive the row, which the
cascade and the foreign key see to (`ChunksHaveRowsStep`); and the file goes before the row, whatever
fails between (`FilesGoFirstStep`). `UpdateCommits`, which never brings back a row that is gone, carries it.
`ApiRunsTheWorkflow` is a refinement with the identity for a mapping: every reply is given in a step of the
workflow or changes nothing of it, so that its theorems hold of the service a client sees.

A refused upload left nothing (`UploadInv`): until it commits, nobody else knows of its document (`Clean`),
and the exceptions it is refused with are raised before any commit, or by one that rolled back. Of two
uploads of one content not both are refused (`DuplicatesInv`): the row in the way is the row of an upload
that has committed, and such an upload is never refused (`NeverRefused`). RQ has every accepted job (`Sent`):
only `Insert` makes a row "queued", only RQ and a deletion take a job off the queue, an attempt that gives its job back spends
a retry, and one that returns without an exception leaves a row that is not queued: if it still is when the attempt
publishes, the attempt's save has found it so and writes the status (`QueuedIsSeen`). A file without a row has its upload to see to it (`FileIsOwned`), because a
deletion removes the file first; with `store_error` the clean-up itself may fail. A success is final because
`AgreementInv` holds: no attempt that is about to write has read or found a "succeeded" job, and one that is
about to record a failure saves only a job it found running, which no other attempt can have made succeed since
(`FailsNoSuccess`). What is left is the failed dispatch, in the step that answers. Overlapping attempts, hence
`abandon`, are excluded.

*Store.* A file has its name, in the directory or on the disk, only if its save returned, and then all of
it was written and synced (`FileInv`): this is what makes `PowerLoss` a step of `DocumentStore`. Readers
have opened saved files and have read no more than there is (`ReaderInv`); a deletion past its `unlink`
finds no file (`DeleterInv`), because no second save takes the directory. A save on its way to
`rmdir` has emptied its directory, so that a refused upload leaves no file whatever its clean-up does.

*Questions.* Whoever is between the second look and the release holds the lock (`LockInv`); while someone is
to create the model there is none, and past its release there is one (`ModelInv`). `OneModel` and
`EmbedsWithAModel` follow; `PathInv` says how a request came where it is, for the replies.

*Ranking.* `Fuse` and `Assemble` put a set in order by counting for each member the ones before it
(`InOrder`). `InOrderIsSorted` shows once that this is sorting: for a strict total order the count is
injective, an injection of a finite set into as many places takes them all, and a member is before another
exactly if its place is. `Ahead` is such an order because scores are fractions with positive denominators
(`RationalsAreOrdered`) and equal scores fall back on the identifier (`AheadIsAnOrder`); a chunk no index
ranks behind another has the larger share from each, and sums keep that (`SumsAreOrdered`, `NoWorseIsAhead`),
which gives `BetterRanksLead`. `AssemblyKeeps` says that dropping the vanished chunks and cutting keeps the
order and cuts only at the limit, which gives `BestAreKept`. For `MultiplierMakesUp`, the candidates of either
index are all ranked, and of `limit * multiplier` of them at least `limit` remain. `FusionIsSymmetric` needs
only that a sum of two shares commutes.

*Evaluation.* `EvaluationInv` says that the metrics are those of a case and of results that stand
(`MetricsInv`). Recall counts some of the judged locations and the reciprocal rank is 1 over a rank, so the
matter is nDCG, whose numerator must not exceed the gain of the ideal ranking:

1. the ideal ranking is the judged relevances in falling order (`GradedIsSorted`, from `InOrderIsSorted`), and
   each result that counts has a place of its own in it, since a location counts once (`PlacesAreDistinct`);
2. `k` distinct places of a falling ranking hold no more than its first `k` (`FirstHoldMost`): one of `k + 1`
   distinct places lies beyond the first `k` (`OneIsFarOut`) and holds no more than place `k + 1`. The gains of
   the results therefore add up to no more than those of the ideal ranking at every rank;
3. totals that stay below others at every rank stay below when each term is weighted by falling discounts,
   and come to the same only if they are the same at every rank (`WeightedTotals`): `NoMetricExceedsOne`;
4. for `PerfectionIsRecognised`, an unseen location is worth no more than the next place of the ideal ranking when
   the results so far are as good as it (`UnseenIsWorthLess`), and while fewer results than locations were
   returned one of them is unseen (`OneIsUnseen`). Results that could not be better therefore follow the ideal
   ranking rank by rank (`BestMeansIdeal`), and those that follow it could not be better (`IdealIsBest`), as
   `2**relevance` grows with the relevance (`GainGrows`).

*Pipeline.* `PipelineInv` says what each stage hands to the next: sections of text (`SectionsFit`), a
layout (`Layouts`: texts, the first at 0 and each two characters after the one before), and chunks
that the chunker in use made of that layout (`ChunksFit`). It is inductive, and each property follows
from it by what the chunkers compute for any layout:

1. the tokens of a text are in order and apart (`TokensAreInOrder`, `TokensAreApart`); windows are runs of tokens, each `Step` further than the one before, the last of
   which reaches the last token (`WindowsAreRuns`);
2. the text of all sections holds each of them where its locator says and blanks between them
   (`SectionsAreLaidOut`, `TextHoldsAll`), so that a slice of a section, moved by its start, is a slice of
   the whole (`SlicesShift`), and the section found by offset is the one with the mark at that offset
   (`MarksHaveSections`). This gives `ChunksAreLocated` for both chunkers;
3. the tokens of the whole are those of its sections, moved, because no token crosses a separator
   (`TokensMove`, `NoTokenIsElsewhere`). A chunk therefore holds exactly the tokens of its window
   (`PartsAreWithin`), consecutive windows share the overlap (`WindowsOverlap`): `WindowsAdvance`;
4. no token is left between two windows, as the overlap is not negative, nor after the last
   (`WindowsCover`), and no section loses a window (`HasAllWindows`): `ChunksCoverTheText`.

From the source to that text, `PlacesInv` adds that the sections are those of the source, the layout that of the
sections and the chunks those of the layout:

1. the stack of headings above a line, as `Push` makes it, holds those headings that no later one of the same or a
   higher level closes (`PushKeepsTheHigher`, `PathsAreChains`), which is the chain that encloses the line
   (`HeadingPathsAreChains`);
2. where every line is one piece, the sections of a file are its lines cut at the headings: each follows the one
   before, has the path of the heading it stands under and leaves out only headings and sections
   without text (`MarkdownReaches`, `PdfReaches`, `NormalizedTakesAll`);
3. the text of all sections has each character of a section where the layout puts it (`OriginsAreInPlace`), so that
   a token of a chunk comes from the lines of its section (`CharactersComeFromLines`), whose path is cited:
   `CitationsAreCorrect` and, with the windows of one section, `ChunksCrossNoHeading`;
4. the tokens of a line are those of its piece, moved to where the line stands, and nothing else is found there
   (`LineTokensAreFound`, `FoundTokensAreOfLines`), while a line with text stands in one section
   (`LinesHaveOneSection`): `EveryTokenIsKept` counts them through that bijection.

`RefusedFilesAreEmpty` may not use the second step, since it holds of broken lines too, where the rows of
`str.splitlines` are no longer the lines. It counts instead (`RefusedInv`): if no section has text, the only rows
with text are the ones taken for headings, one for each heading (`OnlyHeadingsHaveText`); every heading has a row with
text of its own (`HeadingsHaveText`), so none is left for another line with text (`FilesWithoutSections`).

The loops are recursive functions and concatenations over a sequence. That such a function has the values
its equation says, and that a property of its value at 0 that each step keeps holds at the end, is proved in
`OrderingProofs` from the smallest number where it fails (`SmallestExists`, `LoopsHaveValues`,
`EveryNumberIsReached`, `FlattenIsALoop`), the induction theorems of the library being out of reach.

Each invariant of the workflow and of the cache is checked by TLC as an invariant of a run (`AgreementInv`,
`CompletenessInv`, which hold `TypeOK`, and `CompleteInv`) beside its proof.

Every safety invariant and every action property that a run checks is proved. Model-checked only is liveness
(`Settles`, `DeletionCompletes`, `EveryRequestIsAnswered`): the prover handles neither fairness nor ENABLED.

## Not modelled

A partial upsert of several points is one call applied or not. A heading underlined over several lines is one line
here (the code repeats the lines after its first in the body, `ingestion/extraction.py:53-58`, `:76`), and text that
is not UTF-8, refused with `INVALID_TEXT_ENCODING`, is no file of the model. `Complete` says nothing of a keyword match that
loses its place in a hybrid search to a document that does not match: Qdrant returns the nearest points however far they are. The set-up of the Qdrant collection, RQ's
intervals, NFC and whitespace folding, floating-point rounding, the prompt, timestamps and `attempt_count`
(two overlapping attempts may count as one; no code decides by it) are left out, as are reads of single
documents and jobs, request validation and health probes, which change no state, and the components the
inventory calls not modelled, for the reasons given in `PROJECT.json`. The worker has an embedding provider of its own, used by one
attempt at a time in a work-horse process: `Questions` is about the API, where threads share one.

## Plan

1. `DocumentWorkflow` over `DocumentStore` in place of its variable `files`: rows whose file a loss of power took.
2. Points without a row that take candidate slots: what a vector search may then miss.
3. Timestamps and `attempt_count`, as a refinement of `DocumentWorkflow`.
