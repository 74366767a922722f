# Specifications of ask-any-channel

ask-any-channel ingests YouTube channels (captions → chunks → embeddings →
Postgres) and answers questions about them. This directory holds TLA+ models of
its components, the TLC runs that check them on small instances, and proofs
checked by TLAPS. Paths below are relative to the repository.

| Module | Models | Proofs | TLC instance |
|---|---|---|---|
| `JobQueue` | the ingest_jobs table, under any caller | `JobQueueProofs` | `MCJobQueue`: JobQueue.cfg |
| `IngestPipeline` | workers, inline runs and users on that table; implements `JobQueue` | `IngestPipelineProofs` | `MCIngestPipeline`: Pipeline, Zombie, LostLoad .cfg |
| `AtomicBundle` | what a bundle directory promises | | |
| `BundleFiles` | the directory file by file; implements `AtomicBundle` | `BundleFilesProofs` | `MCBundleFiles`: BundleFiles.cfg |
| `Startup` | migrations and checks of the processes that come up | `WorkerProofs` | `MCStartup`: Startup.cfg |
| `Scheduler` | the ticks of the auto-ingest scheduler | `WorkerProofs` | `MCScheduler`: Scheduler.cfg |
| `Chats` | chats, their scope and messages, turns and what they cost | `ChatsProofs` | `MCChats`: Chats, OrphanChat .cfg |
| `Branding` | voice and suggested questions of a channel | `BrandingProofs` | `MCBranding`: Branding.cfg |
| `Session` | a browser session of the UI and its URL | `SessionProofs` | `MCSession`: Session.cfg |
| `Transcript` | caption dedupe and chunking | `GroundingProofs` | with Grounding |
| `Grounding` | search, prompt, answer and receipts; EXTENDS `Transcript` | `GroundingProofs` | `MCGrounding`: Grounding.cfg |

## 1. The system

| Part | State it keeps | Operations | Talks to |
|---|---|---|---|
| Job store, `core/store/pgvector_store.py`, `core/db/migrations` | tables channels, videos, chunks, ingest_jobs, chats, messages, usage_events | one method = one Postgres transaction | called by every process |
| Job service, `core/ingest/jobs.py` | none | enqueue, retry, cancel, active-job pre-check | store; called by UI, API, CLI, scheduler |
| Pipeline, `core/ingest/pipeline.py` | in memory: records and embeddings of the running build | list, build bundle, load bundle, update | YouTube, providers, bundle files, store |
| Inline runner, `core/ingest/runner.py` | none | ingest, dataset build/load, delete channel, in the calling process | pipeline, store, bundle files |
| Worker daemon, `core/worker/daemon.py` | the claimed job | reclaim, claim, run, record failure, for ever | pipeline, store |
| Scheduler, `core/worker/scheduler.py` | channels.last_checked_at | enqueue due updates once a tick, inside the daemon | job service |
| Bundle files, `core/dataset/*` | `datasets/<slug>/…` on disk | write, read, exist, validate, find a channel's | pipeline, runner |
| Migrations, `core/db/migrate.py` | schema_migrations, an advisory lock | apply all | Postgres, at the start of every process |
| Captions and chunking, `core/ingest/{captions,vtt_parser,chunker,channel_source}.py` | a cache directory | fetch, parse, dedupe, chunk | YouTube |
| Chat, `core/chat/*` | chats, chat_sources, messages, usage_events | a turn (retrieve, stream, persist), scope changes, suggestions | search, providers, store |
| Persona, `core/persona/*` | channels.branding | generate, edit, stale check | providers, store |
| Search, `core/search/*`; providers, `core/providers/*` | none | vector/text search, rank fusion; network adapters | store; network |
| HTTP API, Streamlit UI, CLI, doctor, configuration | UI session state | thin handlers | all of the above |

Several processes run at once: any number of worker daemons, CLI commands, the
API and the UI. They share nothing but Postgres and the dataset directory.

What is hard here, and what makes each part correct:

* **Job store.** Indexes, not locks, keep one active job per channel; claim,
  cancel and reclaim write the status without handling a collision, and
  `update_job` writes it without looking at the present one. Correct: one active
  job per key; a poison job's runs are bounded; no job of a deleted channel.
* **Pipeline, daemon, inline runner.** A run is dozens of separate transactions
  and file writes; a process may die or raise between any two, its job may be
  requeued by a timeout while it still runs, and its channel may be deleted.
  Correct: one builder per channel; a running builder's row stays its own; what
  a finished run or a quiet system calls embedded can be searched; every job is
  settled in the end.
* **Bundle files.** A directory is a bundle when three files exist. Correct: what
  is read was written by one complete build.
* **Migrations.** The lock is given up before the commit. Correct: each file is
  applied once, in order; nobody serves on a part of the schema; a worker comes up.
* **Scheduler.** Two workers tick; a channel disappears during a tick. Correct:
  each due channel is enqueued once per worker at most and none starves.
* **Chat.** The stream may fail, or the client may hang up; a source may be
  deleted during the turn. Correct: a billed call leaves a usage row, a failed
  one leaves no answer; no chat is left without sources by a delete.
* **Search, prompt, citations.** Numbers are given in one function and looked up
  in another, and older numbers are in the history. Correct: a receipt shows the
  chunk the model cited.
* **Persona and questions.** One JSON column, read seconds or minutes before it
  is written. Correct: an edit is not lost; nothing is billed twice.
* **UI session.** Widgets, URL and row each hold the scope. Correct: they agree;
  a refresh restores; no interaction empties a chat's scope.
* **Captions and chunks.** Correct: no word is lost or kept twice; the chunker ends.

`PROJECT.json` lists the components and, under "hazards", each of these at its
line with the properties that cover it.

## 2. How the models compose

`JobQueue` is the table under its most general client. `IngestPipeline` is its
real callers, takes the table's actions by INSTANCE, and is shown to implement
it. It takes the writing and reading of a bundle for one step each; `BundleFiles`
opens that step up and shows it implements `AtomicBundle`, which is that step.
`Scheduler` keeps of the job table what `JobQueue` shows there is, one active job
per channel, and takes from `IngestPipeline` that a job ends. `Chats` has any
client edit any scope; `Session` shows which scopes one browser session really
sends, and in what it differs from them. `Branding` is the part of a job after
its load, which `IngestPipeline` leaves out, beside the pages that write the same
column. `Grounding` extends `Transcript`: the chunks asked about are those made of
the captions. `Startup` is before all of them.

The two refinements, `ImplementsQueue` and `ImplementsAtomicBundle`, are proved as
well as model-checked, so what `JobQueueProofs` shows of the table and what
`AtomicBundle` promises hold of the system at any size.

What could be added: what `QuietMeansSearchable` becomes when something did raise or
die (which videos a later update repairs), and a bound on the runs of a job while
some processes are slower than their heartbeat.

## 3. JobQueue

One action is one store method, hence one transaction.

| Code | Model |
|---|---|
| row of ingest_jobs | `jobs[j]`; `j` is the created_at rank, `"none"` not inserted yet, `"gone"` removed with its channel |
| `payload->>'channel_input'`, `payload->>'kind'` | `input`, `kind` |
| `progress->>'attempts'` | `attempts` (the only key of progress that decides anything) |
| `heartbeat_at < now() - JOB_STALE_AFTER_S` | `stale`, set by `HeartbeatLapses`, cleared by every write that stamps the heartbeat |
| rows of table channels | `channels` |
| the two indexes of `0005_one_active_job.sql` | `SameKey`, `Collides` |
| `upsert_channel`, `create_job`, `claim_next_queued_job`, `update_job`, `retry_job`, `cancel_job`, `reclaim_stale_jobs`, `delete_channel` | the actions of the same names |

`starts` is a history variable: how often a job was started since it was inserted
or last retried by a user. A call the database refuses changes nothing and is not
a step. `update_job` may be called by anyone, with any status a caller of the code
passes, on a row in any status. `SKIP LOCKED` is not visible at this grain: it
lets two claims that overlap take two rows instead of waiting, which is the same
as one after the other.

Run **queue**: 2 rows, 2 channels, 2 inputs, `MAX_JOB_ATTEMPTS` as in the code (3).
Two rows are what a collision takes, two channels and inputs what distinguishes
the two indexes. Nothing else is bounded.

* `TypeOK` – here it also says that `attempts` never reaches the bound.
* `OneActiveJobPerKey` – the indexes' promise survives the writers that do not
  handle a violation (so claim, cancel and reclaim never raise one).
* `PoisonJobBounded` – a job is started at most `MaxAttempts` times between two
  user retries. Any interleaving of updates of workers given up for dead is
  included.
* `NoOrphanJob` – a deletion leaves no job of the channel.

### Proofs (JobQueueProofs)

`TypeCorrectness`, `OneActiveJob`, `NoOrphan` and `PoisonBound` prove the four
for every value of the constants, from the assumptions `MaxJobs \in Nat`,
`MaxAttempts \in Nat \ {0}`, `NoChannel \notin Channels`.

`PoisonJobBounded` is not inductive: the number of starts is bounded only because
each was paid for by a requeue that counted. The inductive invariant `IInv` adds
`StartsPaidFor`, which relates `starts` to `attempts` and the status, to the other
three. `OneActiveJobPerKey` is inductive together with `TypeOK`; the argument for
the writers without a check is that claim and reclaim move a row between the two
active statuses and keep its key (lemma `RewriteKeepsKeys`), and cancel makes it
inactive. One lemma per action, then `NextKeepsIInv`, then `Invariance` by PTL.

## 4. IngestPipeline

`Queue == INSTANCE JobQueue` shares the job table; every access of a process to
it is a `Queue!` action. Added state:

| Code | Model |
|---|---|
| a channel's row id | `gen[c]`: a channel deleted and inserted again has a new one; `SameChannelRow(p)` is "the id p holds still exists", i.e. whether a write with this foreign key is accepted |
| videos.status | `vstatus` ('fetched' is merged with 'pending', no query tells them apart) |
| chunks of a video and their embeddings | `chunks`: none, all embedded ("searchable"), or rows that process p inserted and has not embedded |
| `datasets/<slug>` and `_updates/<job id>` | `bundle` |
| between delete_channel and rmtree | `purging` |
| a process's program point and local variables | `proc[p]` |

The actions follow the code from top to bottom: the loop of `poll_and_run`
(`Reclaim`, `Claim`, `NothingToClaim`, `Fail`, `Log`), `run_update_job` and
`run_ingest_job` (`ReadKnown`, `List`, `Attach`, `NothingNew`), `build_dataset`
(`CheckBundle`, `FetchVideo`, `RecordVideo`, `WriteBundle`, `Finish`, `FailBuild`),
`load_bundle_into_store` (`OpenBundle`, `LoadVideo`, `EmbedChunks`,
`MarkEmbedded`, `LoadDone`), `GetJob`; `run_ingest_inline` (`InlineList`,
`InlineCreate`, `InlineRefused`, then the same pipeline); the job service
(`EnqueueIngest`, `EnqueueUpdate`, `RetryJob`, `CancelJob`); `run_delete_channel`
(`DeleteChannel`, `PurgeBundles`). `Caught` says where an exception ends up:
build_dataset's handler, then the daemon's, then nowhere.

A step groups transactions only where nothing in between is a state another
process or a restart could tell apart: the upserts of a listing (they add pending
rows), a video's statuses before its final one, a heartbeat before the write it
precedes. The pre-check `ensure_no_active_job` and the insert are one step, too:
when the pre-check is outdated by then, the unique index refuses the insert, and
the index is stricter than the pre-check.

The environment: `Crash` kills a process at any point and loses its local state
only; `Fault` is an exception at any point; `EmbedFault` one after a status was
already written; `HeartbeatLapses` lets JOB_STALE_AFTER_S pass for a job whose
process is dead, or is one of `Sluggish`, processes allowed to be slower than
that. Videos are processed in any order. Users act at any time.

### Runs

All have one channel, named by its handle `h` or by an alias `u` that
`default_bundle_dir` maps to the same directory, and one video unless said
otherwise. `Budget` bounds crashes, faults, retries and deletions; MaxAttempts is
2 (a requeue and a final failure both happen).

* **pipeline** (`Pipeline.cfg`): two workers and one inline run, two jobs, fetches
  that give captions or an error, one crash and one exception. Two jobs and three
  processes are the least that lets an ingest, an update and an inline run of one
  channel meet. Workers are interchangeable (symmetry).
  * `OneBuilderPerChannel` – no two processes ever build a bundle for one channel
    row, whatever was reclaimed, enqueued by alias, or started inline.
  * `BuilderOwnsRow` – while a process builds, its row is running (or deleted with
    its channel).
  * `CompletedRunIsSearchable` – a run that gets to its end has made every
    captioned video of its bundle searchable, unless another process is just
    replacing that video's chunks.
  * `QuietMeansSearchable` – with no crash and no exception, whenever nobody runs,
    'embedded' means that search finds the video, although builds write the status
    long before the chunks and loads of two jobs may overlap.
  * `ImplementsQueue` – every step is a step of `JobQueue` or leaves its variables
    alone, so what is proved there holds here.
* **zombie** (`Zombie.cfg`): two workers, one of them sluggish, one job, one each of
  crash, exception, retry and deletion. `CompletedRunIsSearchable` again,
  and `JobsSettle`: every queued or running job leaves these statuses in the end.
* **lost_load** (`LostLoad.cfg`) ends with a counterexample to "the job is requeued
  and resumes" (README.md:504): not when the worker dies during the load; the job
  stays done with nothing searchable.

Other statements of the repository that this model can be seen not to satisfy,
with no run of their own:

* README.md:496 "Only one job runs per channel at a time": a job is done before its
  bundle is loaded (`pipeline.py:315`), so another may start meanwhile. What still
  holds is `OneBuilderPerChannel`.
* `pipeline.py:488`: the update diff keeps a retry of a failed update from being a
  no-op. It is one when the worker died after fetching (`pipeline.py:253` writes the
  terminal status) and before the bundle was written.
* `daemon.py:11` "A database outage mid-loop is logged and retried": not when the
  failing job's status cannot be written (`daemon.py:140`); the daemon ends and is
  restarted. `JobsSettle` holds all the same.
* README.md:489 "hard delete": a job running at that moment inserts the channel
  again (`pipeline.py:84`, `:340`).

Bounds that hide something, on purpose: the pipeline run has no retry and no
deletion, since `OneBuilderPerChannel` is not true with them: after an exception
the job is marked failed twice (`pipeline.py:317`, `daemon.py:140`), and a user's
retry in between can be failed while it runs, which lets a third run start; and a
job claimed just before its channel is deleted builds under a row that another
job may share. And no process of that run is sluggish: a zombie does build beside
its successor, by design of a heartbeat timeout. The same bounds are hypotheses of
the theorems below.

One channel is a bound too. `default_bundle_dir` gives the handles `a.b` and `a-b`
one directory, and every handle without a Latin letter or digit the directory
`channel` (`bundle.py:37`); of two such channels the second finds the first one's
bundle, its job is done without building, and it loads the wrong channel. The model
allows it (`Slug` is any function); with two channels and one slug
`QuietMeansSearchable` fails.

### Proofs (IngestPipelineProofs)

The invariant comes in five layers. Each uses the ones before it, so that a step is
looked at once for each kind of fact it can break.

* `Shape` – types by program point (a process that loads has a channel, records and a
  job) and `JobQueue`'s own invariant of the table. It gives `TypeCorrectness`, and
  `ImplementsTable`: each action is shown to be one `Queue!` action, or none.
* `Loaded` – what a load has stored so far is searchable, or another process is
  storing it (`LoadedSoFar`), and the row id a process holds tells whether its
  channel is still the one it saw (`RowKnown`). It gives `CompletedRun`, with no
  hypothesis: zombies, retries and deletions are all included.
* `Book` – a run works on the input, the kind and the channel that its row says.
* `Owned` – no two processes run one job (`Alone`), and a row has the status that the
  process running it expects at its program point (`RowKept`, `Expected`), down to the
  handler that fails a row for the second time (`FailedTwice`). A build's row is linked
  to the channel it lists (`Attached`), so two builds of a channel are two active rows
  of it, which the table's `OneActiveJobPerKey` excludes.
* `Plan` – a video is recorded as embedded, in the table, in a bundle or in the memory
  of a build, only if it has chunks or some process is at a place from which it will
  store them (`WillEmbed`).

| Theorem | Hypotheses beyond the assumptions of the module |
|---|---|
| `TypeCorrectness`, `ImplementsTable`, `CompletedRun` | none |
| `OwnsRow`, `OneLive` | `Sluggish = {}`, `QuietRetries` |
| `OneBuilder` | these and no deletion |
| `QuietSearchable` | `Sluggish = {}`, `SlugsSeparate`, no deletion (the property itself excuses crashes and exceptions) |

`Sluggish = {}` says that a living process beats within `JOB_STALE_AFTER_S`; what the
code does otherwise, two runs of a job, is what a timeout must do. `QuietRetries`
(no retry, or no exception) is where the double failure above starts. A deletion
needs no such hypothesis, although it makes builds raise too: their row goes with the
channel, so there is nothing to retry. None of the hypotheses can be dropped: with a
sluggish worker, with an exception and a retry, with a deletion or with a shared slug,
respectively, TLC finds the property violated in a variant of `Pipeline.cfg` with that
in its constants (the last one with a second channel). `OneLive` is what is left of `OneBuilderPerChannel` when
channels are deleted: no two builds of a channel whose rows are both there. Crashes,
cancellations, lapsed heartbeats of dead processes and overlapping loads are
unrestricted in all of them.

The assumptions of the module: processes are not named like the states of a video's
chunks; an input resolves to one channel and a handle to its own; a video belongs to
one channel.

### Fairness

`JobsSettle` is checked under weak fairness of each worker's and each inline
process's next step (a live process keeps running; docker-compose.yml restarts a
worker that ended, `restart: unless-stopped`) and of time passing for a stale
job. Network calls return or raise (yt-dlp and the providers have timeouts and
bounded retries). Crashes, exceptions and users are not fair, so nothing relies
on them. All of it is a property of the system as deployed by compose: without a
worker nothing is claimed, and the UI says so.

## 5. Chats

| Code | Model |
|---|---|
| a row of chats with its chat_sources | `chats[k]`: status, sources (their order is not kept), voice (`NoChannel` is Neutral) |
| rows of messages | `messages[k]`: who spoke, and in which turn |
| rows of usage_events | `usage`, with `source_channel_ids` |
| a session inside `delete_channel` | `deleter[d]`: the channel, the chats looked up, the chats deleted and not committed |
| an `answer()` or `ask()` call with its generator | `turn[t]`: program point, the scope read, the voice resolved, the channel to charge |

Store calls are one step each but for `delete_channel`, whose lookup
(`CollectChats`), DELETE and sweep (`DeleteAndSweep`) and commit
(`CommitDelete`) see different data under READ COMMITTED. The DELETE and the sweep
are one step: another transaction that commits between them is one that commits
before both. Row locks are guards: `DeletedChannels` and `DeletedChats` are the
rows an open deletion has deleted, which whoever references or rewrites them
waits for. `RollBack` is a lost connection, or the deadlock of `set_chat_scope`
(chat row, then sources) with a deletion (sources, then chat row). A write a
foreign key refuses changes nothing and is not a step, except in a turn, which it
ends.

Scopes are those `build_scope` accepts; the sidebar's edits, which do not go
through it, keep to the same set (an empty selection is not persisted, the voice
is coerced), but a session may hold any of them, however old. A persona that is
disabled is the free choice of Neutral in `Prepare`. A turn can be refused
(`Refuse`), dropped before its first chunk (`Abandon`), broken by the provider
(`ProviderFails`), read to the end (`FinishStream`) or hung up on (`HangUp`).

Run **chats** (`Chats.cfg`): two channels, two chats, two deleting sessions, one
turn. Two deletions are what the write skew on one chat's sources takes; two chats
let one be swept and one spared in the same deletion. Turns do not read each
other's rows, so one is enough: it meets every order of edits and deletions.
The system may stop when its only turn is used and every channel deleted, so
deadlock is not checked.

* `VoiceIsASource` – voice and sources are two tables; edits and deletions keep
  them together.
* `SweepSparesOthers` – a chat and its messages go only with the chat's last source,
  although the sweep's candidates were looked up earlier and an edit may have
  widened the chat since.
* `UsageOutlivesDeletion` – a usage row and its scope are never lost.
* `FailedTurnLeavesNoReply` – the provider's exception leaves no reply.
* `UnmeteredOnlyByDeletion` – hang-ups included, a streamed turn has its usage row
  unless the channel to charge or the chat was deleted under it.
* **orphan_chat** (`OrphanChat.cfg`) ends with a counterexample to "a chat left with
  zero sources is meaningless — remove it too" (`pgvector_store.py:652`): not one that
  was created, or given this channel as its only source, after the lookup, nor one
  whose two sources are deleted at the same time.

The comment at `answer.py:344` wants the usage row written whatever happens; a
deletion of the channel to charge during the stream makes the foreign key refuse
it (`answer.py:301`), which is why `UnmeteredOnlyByDeletion` has its exception.

A process that dies during a stream leaves no usage row either; it takes no
further step here, and nothing in the code claims otherwise. The run has no
liveness property: a consumer may leave a generator suspended for ever.

### Proofs (ChatsProofs)

All six properties of the run, for any sets of channels, chats, turns and deleting
sessions, from `NoChannel \notin Channels` and `NoChat \notin Chats`. The
inductive invariant adds to the invariants above:

* `SweepStillHolds` – every chat an open deletion has swept is still there, with no
  source but the channel deleted. This is where the row locks are needed, and what
  makes `SweepSparesOthers` hold at the commit rather than at the sweep;
* `OneSweeper` – no chat is swept by two open deletions, or the first commit would
  break the second one's `SweepStillHolds`;
* `ChatWasThere` – the chat of a turn is live or gone, never an identifier that may
  still come to life, so "deleted" is for ever;
* `NoEarlyReply` – no reply is stored before the stream has ended.

One lemma per action or family of actions, `DeleterFrame` and `TurnFrame` for
those that change no chat, then `NextKeepsIInv` and `Invariant`.
`SweepSparesOthers` and `UsageOutlivesDeletion` are action properties: the first
follows from the invariant of the state a step starts in, the second from the step
alone.

## 6. BundleFiles and AtomicBundle

`AtomicBundle` is what the users of a directory count on: one whole bundle or
none, it appears at once, is never rewritten in place, and a reader gets the
bundle of one moment or an error; the promise to readers ends when somebody starts
to remove the directory (`disturbed`).

| Code | Model |
|---|---|
| the files of `datasets/<slug>` | `files`: absent, opened and not complete (`Torn`), or the build that wrote it |
| the channel's one active job | `active`, the process that runs it |
| `run_dataset_build` with and without `--force`, `run_dataset_load`, `run_ingest_inline` or the worker, `run_delete_channel` after its transaction | `Build`, `Load`, `Purge`: operations a process may be started with |
| `shutil.rmtree` | a listing, then `Unlink` name by name, then `Rmdir`; each fails as the system call does |
| `write_bundle` | `OpenFile` and `CloseFile` in the order of the code, embeddings only if there are any |
| `read_bundle`, `validate_bundle` | `ReadFile`, one file a step; `Valid` is what row counts and keys can tell |
| a process killed, its job requeued and run again | `Crash` |

Run **bundle** (`BundleFiles.cfg`): an ingest or build, a build that may force, and
a loader or purge, one of them killed. Three processes let a reader meet a writer
and a remover; one kill leaves a partial directory for the next build. A process
runs one command and stops, so deadlock is not checked.

* `ImplementsAtomicBundle` – refinement: `Published` is the bundle whose four files
  are one build's. `dataset build --force` and the purge are the only ones that may
  disturb a reader; a killed build, a second builder and an older embeddings file
  are not.
* `IngestReadsWholeBundle` – an ingest fails to read a bundle only if the directory
  was removed or a process was killed with the manifest open (or with vectors open
  that a later build had none of).

### Proofs (BundleFilesProofs)

`TypeCorrectness`, `IngestReads` and `ImplementsAtomic` prove the three for any number of
processes, builds and kills; the module's one assumption tells its sentinels apart.
The invariant has two layers. `Shape` is the types and who holds the job. `Quiet` is
what holds until somebody starts to remove the directory: a writer has written the
files before its place and opened the one at it (`Progress`); a manifest that can be
read makes the bundle whole, and nobody writes any more (`Complete`), because a bundle
that exists, even a broken one, stops every later build; what a reader has read so
far is what the files hold (`Follows`). The refinement then has one lemma per action:
closing the last file is the abstract step that publishes, the start of an `rmtree` the one
that disturbs, the last file read the one that reads, and all else is a stutter.

## 7. Startup

| Code | Model |
|---|---|
| the advisory lock | `holder` |
| committed rows of schema_migrations with the schema they stand for | `applied` |
| the transaction psycopg opened at `get_applied`, in which each file is a savepoint | `tx[p]` |
| `already_applied` | `known[p]` |
| `run_checks` for a role, then get_pool's own `apply_all` | `Boot`, `Conclude`, `using[p]` |
| what is wrong with the installation | `broken`, a set of checks |

The names that every specification has (`StartupSpec`, `StartupTypeOK`, …) carry the
module's here, so that one module can hold the proofs about it and about `Scheduler`.

One action is one statement of `apply_all`. Two sessions may have open
transactions at once, since the lock is given up (`migrate.py:90`) before the
commit in the next line; a file another session is about to commit is waited for
(its catalog rows are locked) and then refused. `ServerRefuses` is any statement
the server rejects, `Kill` a kill, `Restart` compose's `restart: unless-stopped` or
the next health check.

Run **startup** (`Startup.cfg`): a worker, the API and a health check on an empty
database with two files, one refusal and one kill, and four installations: sound,
one with a broken check that only the others run, one that concerns the worker,
one without a usable environment. Two files are what "in order" takes, three
processes that two overlap while a third waits.

* `AppliedInOrder` – committed files are the first ones, each applied once. With the
  early unlock a second session may start from the old table; the catalog, not
  the lock, then keeps it from applying a file twice, and it fails. The comment
  at `migrate.py:20` ("serializing concurrent migration attempts") is therefore not
  quite what the code does; the failing process starts again, and no promise of
  the comment but this is broken.
* `ServingOnFullSchema` – whoever uses the store has all files.
* `WorkersComeUp` – a worker whose own checks hold serves for good in the end, under
  weak fairness of each process's own steps and of its restart and strong fairness of
  taking the lock: Postgres grants an advisory lock to waiters in turn. Refusals
  and kills are bounded and not fair.

**Proofs (WorkerProofs, part 1).** The three safety properties for any number of
processes, files, refusals and deaths. The inductive invariant adds
`KnownIsApplied` (what a session read is still applied), `CommittedFirst` (committed files
are a prefix; the savepoints of one session extend it) and `LeavesNothing`: a session that comes to its
unlock without an error has found or applied every file. Only with the last does
`ServingOnFullSchema` survive the step of a process that begins to serve.

## 8. Scheduler

| Code | Model |
|---|---|
| `channels.auto_update`, the row itself | `auto`, `rows` |
| `last_checked_at`, against `now` | `age`, in units; `Jitter` is `jitter_for` |
| the active job of a channel | `job`: none, queued, or the worker that runs it |
| a tick: the channels found due, and where it is | `tick[w]`; `at` is the age of its `now` |

`StartTick` reads the channels; `Enqueue` and `Mark` are the two transactions per
channel; `TickFails` an exception; the rest of the loop is `ClaimNext`, `EndJob`,
`Die`. `UserEdits` toggles the option, asks for an update, or deletes a channel.
`scheduled` and `aborted` are history.

Run **scheduler** (`Scheduler.cfg`): two workers, two channels that become due at
different times, an interval of two units, one event out of edits, failures and
deaths (the theorem covers any number). Two channels are needed for one to be deleted ahead of the other in a
tick, two workers for the double enqueue.

* `ScheduledOncePerWorker` – from one due time to the next each worker enqueues a
  channel at most once, and once more for a tick that ended between enqueue and
  mark. Less is not true: a short job may end between the two workers' ticks,
  whose snapshot is the same. `TimePasses` assumes that a tick (SQL) is shorter
  than an interval (hours).
* `DueGetsChecked` – no due channel starves, although a deleted one ends the tick
  (`scheduler.py:63`). Fairness: strong for `StartTick` (each pass of the daemon's
  loop compares the clock first, and a running job ends), weak for a tick in
  progress and for a job's end, which is `JobsSettle`.

**Proofs (WorkerProofs, part 2).** The type invariant and `ScheduledOncePerWorker`, for
any number of workers, channels and events. The invariant counts: `Spent(c)` is the
set of workers that may have enqueued `c` since it became due. While `c` is due
these are the ones between its enqueue and its mark; once it is marked, all but those
whose older tick has still to come to it; each enqueue adds its worker to the
set, and only a tick cut off before its mark takes one out. `ShortTicks`, a tick
is younger than the interval, is what makes a channel not due after its mark.
`DueGetsChecked` is model-checked only.

## 9. Branding

| Code | Model |
|---|---|
| `branding["persona"]` | `persona`: which save its settings are from, whether it has a profile, the chunks counted then |
| `branding["suggested_questions"]` | `questions`: unset, empty (tried in vain), some |
| `count_channel_chunks` | `chunks`, in units of the staleness ratio |
| what a page, command or job holds between its read and its write | `proc[p]` |

`SetPersona` writes the whole persona and merges it into the column. A page, the
command, an ingest and an update each generate from a reading of their own;
`RefreshVoice` is where the two kinds of job differ: the update reads the row
again, the ingest goes by the channel it read when it began.

Run **branding** (`Branding.cfg`): two sessions, the command, one worker, one save, two
growth steps. One save suffices to be lost; the theorems cover every number.

* `OnlyIngestGoesBack` – settings saved before a generation began are not undone by
  it, unless an ingest job ran it. A save during a generation can be undone by
  any of them.
* `QuestionsStay` – no writer of the voice removes the questions.
* `ChipsBilledOnce` – at most one generation per session, however often a page is
  rendered and also when nothing usable came (`suggestions.py:91`). Two sessions that
  render at once both pay.

**Proofs (BrandingProofs).** All of these and the type invariant for any finite set
of sessions and any sets of commands and jobs. The inductive invariant adds
`PaidBySession` (what was billed plus the sessions now asking are no more than the
sessions there are; nobody was billed while the questions are unset) and
`ReadWhenBegun` (what a generation other than an ingest's read is no older than
its beginning).

## 10. Session

| Code | Model |
|---|---|
| `st.session_state`: sources, voice, chat_id | `ss`; `Absent` is a key that is not there |
| `st.query_params` | `url` |
| `channels_by_id` of the last run | `shown` |
| chats with chat_sources, channels | `chats`, `rows` |

An action is an interaction: the callback, with the channels of the page last
drawn, then the run of the whole script, which reads anew (`DrawHome`: restore, then the
sidebar's clamp). Streamlit's own part (external): widget keys are dropped by a run that
does not draw them, the query string by a change of page.

Run **session** (`Session.cfg`): three channels, one of them without a persona, and
two chats; every link, every edit, deletions here and elsewhere at any time.
Nothing else is bounded.

* `ChatsKeepASource` – an emptied selection is never written, by whatever detour.
* `ShownScopeIsUsed` – the open chat's row is what the sidebar shows, clamped to the
  channels there are. `refused` excuses one case: an edit the store refused leaves
  the widgets changed and the row not.
* `RefreshRestores` – a refresh gives back the chat or the draft. `navigated` excuses a
  change of page, after which the draft is not in the URL until something writes it.

**Proofs (SessionProofs).** The type invariant and the first two for any channels
and chats. The invariant adds `VoicesAreSources` and `WidgetsAtHome` (the Channels
page has no scope in its session).

`RefreshRestores` (theorem `RefreshGivesBack`) needs a second invariant, `UrlInv`, which says
what the URL is worth between two runs: it mirrors the session (`Mirrors`: the open chat, or,
for a draft, sources and voice as far as their channels are still there) unless the page was
changed; a draft's URL names no chat, or the refresh would open that one; and every voice in
the session or in a row has a persona, without which the refresh would coerce it away
(`coerce_voice` is applied to what comes out of the URL, not to what is in the row). A
deletion by another session keeps the mirror, since both sides lose the same channel.

Seen while modelling: clearing the sources of an open chat and selecting them again
writes Neutral over its voice, since the voice was coerced with the empty selection
(`state.py:82`: "re-select a source and the open chat is untouched"); the `state.clear()` of `channels.py:304` cannot run,
since the keys it looks at are gone on that page; the "Add … to Sources" button of
`chat.py:197` is wiped by the `st.rerun()` of line 208 before it can be clicked; the
health banner is up to 60 s old (`_common.py:22`).

## 11. Transcript and Grounding

| Code | Model |
|---|---|
| the talk the captions show | `said` (what the rolling track has shown) |
| `deduped`, `seen_words` as TimedWords | `timed` |
| the loop of `chunk_timed_words` | `start`, `chunks`; `TokenCount` is the tokenizer |
| rows of chunks | `library[c]`, how many |
| local variables of `_prepare_turn`, `answer` | `turn` |
| `[n]` in stored messages | `messages`, each mark with what its writer meant by it |
| `parse_citations` | `receipts` |

`ShowCue` is one cue of a track whose line is rolled from the line before;
`NextWindow` one window. A query ranks the chunks of a source in any order; `Fused`
is `rrf_fuse` exactly, with scores in units of a common denominator. `Answer` lets
the model copy any marker it was sent, out of the blocks or out of the history, or
make one up.

Run **grounding** (`Grounding.cfg`): talks of up to four words out of four (of one,
one, two and three tokens), windows of four tokens with an overlap of two, three channels with
0–3 chunks, two turns with up to three sources. Four words make three windows with
a word too long for the overlap among them; two turns are what a stale marker
takes. The talk may be over and the turns used up, so deadlock is not checked.
`RrfK`, `MinBlocksPerSource` are the code's; `TopK` and the candidates are scaled
down with the library.

* `RollingCaptionsCollapse` – of a talk that repeats no word every word is kept once,
  in order, and timed no later than said. With repetitions the algorithm may take
  a repeated word for overlap; nothing is claimed then. (The docstring of
  `cues_to_clean_text` says that words of an untimed cue are spread over its span;
  `dedupe_rolling_cues` hands it one-word cues only, so they all get the cue's start.)
* `ChunksCoverTalk` – the windows go forward, leave nothing out, and keep to target
  and overlap.
* `FusionRewardsAgreement` – what both queries found comes before what one found, and
  nothing overtakes what is ahead of it in both.
* `CitationHitsItsBlock` – every receipt shows the chunk that carried this number in
  this turn's prompt, whatever the history says; blocks stand under their own
  creator, and the voice speaks of its own blocks only. `prompt.py`'s blocks,
  ranges and flattening are three functions that must count alike.

### Proofs (GroundingProofs)

All four properties are proved for every value of the constants: talks of any length,
any number of tokens per word, any target with a smaller overlap, any number of
channels, chunks, candidates, sources and turns.

`TalkInv` is the inductive invariant of the ingest: `RollingCaptionsCollapse`,
`ChunksCoverTalk`, their types, and `WindowAhead`. The last is what `ChunksCoverTalk` lacks
to be inductive: between two windows, words are left, and `start` lies after the start of
the last window, no further back from its end than the overlap. Then a window that brings
no new word ends where the last one did, for up to there is no more than the overlap, and
the next word does not fit: the exception the property makes, and no other. For the
captions the step is that, in a talk without repetition, `Overlap` finds the words that
were shown again, neither fewer nor more (`RollsByWhatIsShownAgain`).

`GroundingInv` is the inductive invariant of the chat: `CitationHitsItsBlock` and
`TurnShape`, by which a turn has a source left to search until it probes, and its rankings
are of that source, without repetition and no longer than `RetrievalCandidates`.
`FusionRewardsAgreement` follows from `TurnShape` and arithmetic: shares of two ranks
differ by less than a factor of two (`Damping`), so two shares outweigh any one. That is
where `DampingAssumption` is needed, `RetrievalCandidates <= RrfK` (50 and 60 in
`constants.py`); with more than `RrfK + 1` candidates the property is not true. For the
receipts, `RangesAre`, `BlocksAre` and `VoiceNumbersAre` show that the three functions
that count blocks put the results of a group at the same numbers as `FlattenSeq`, with
groups that found nothing among them.

The operators compute with folds and choices, of which a proof knows nothing until the
equation they choose by is shown to have a solution. That takes induction over data. The
library's theorems for it take an operator as a parameter, which the installed provers cannot
instantiate, so it is done on sets instead: the numbers at which a statement fails would
have a least member (`LeastNumber`, from the well-foundedness of `<`), hence
`SetInduction` and, for finite sets, `EveryCount`. `FoldExists` builds the function inside
`FoldLeft`, `FoldPrefixes` gives each fold its values prefix by prefix, and `SortExists`
the permutation that `Fused` chooses.

## 12. Proved, checked, left out

Proved for all constants, from the named assumptions of the modules alone: the four
theorems of section 3 (`JobQueue`), three of section 4 (`IngestPipeline`), six of section 5
(`Chats`), three of section 6 (`BundleFiles`), three of section 7 (`Startup`), two of
section 8 (`Scheduler`), four of section 9 (`Branding`), four of section 10 (`Session`),
four of section 11 (`Transcript`, `Grounding`).
Four more theorems of section 4 have the hypotheses given there. So every invariant,
action property and refinement that a passing run checks is also proved.

Model-checked only: liveness (`JobsSettle`, `WorkersComeUp`, `DueGetsChecked`), since fairness
and ENABLED are beyond the proof system; and the two runs that end with a counterexample.

The proof system and TLC bind a prefix SUBSET or UNION differently when a set operator
follows without parentheses; the modules have them, so that both read the same formula.

The definitions whose comment starts with "Wrong variant of" are no part of the
specifications: each is a plausible mistake in the definition it precedes, and
the property it is paired with in `PROJECT.json` fails when it takes its place.

Not modelled:

* **Providers, persona prompt, wording of prompts, prices.** Adapters and texts
  without state; that a provider fails or hangs up is a step of the models that call it.
* **Registry and validation of single rows, option validation, configuration, CLI
  parsing, what a doctor check looks at.** Sequential and stateless; unit tests reach them.
* **HTTP handlers and the UI's rendering, search and compare pages.** Thin calls of core
  that keep no state; an SSE client that leaves is `HangUp` or `Abandon` in `Chats`.
* **yt-dlp's files and retries, the VTT syntax, tokenizer, vector index and text
  search.** Third-party code, taken for any outcome it may have.
* **Signals.** They end the daemon's loop between two jobs; less than `Crash` does.
* **A custom `--out` directory.** Two directories share nothing.
