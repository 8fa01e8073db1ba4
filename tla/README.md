# Verification of the Fine Art Archive

TLA+ models of the stateful parts of the archive's companion program, the TLC
configurations that check them, and TLAPS proofs about the core. Paths are
relative to the repository; `api/`, `eink/` and so on are under
`src/fine_art_archive/`.

The archive is a directory per work: a `master.<ext>` image and a `meta.json`
"sidecar" that is the record of the work. A FastAPI program serves it. Its
handlers are plain `def` functions, which FastAPI runs on a thread pool: any two
requests interleave at any statement, and share the module variables of
`api/main.py` and `api/store.py`. Beside it run scripts, some of them started by
the program itself, which read and write the same files. Almost everything that
is hard to test here comes from that: files and variables that several threads
and processes read, compute on and write back.

## Inventory

| Part | State | Operations | Meets | Hard behaviour | What makes it correct |
|---|---|---|---|---|---|
| Locked sidecar writers: `acquisition_review`, `subject_action` (`api/main.py`), `fixity.py`, `sidecar.py` | `meta.json`, its lock file, two audit logs | review, undo, five subject verdicts, verify and record fixity | each other by `flock`; the caches by invalidation | threads and a second process on one file; an append that fails after the write; crashes | no lost update; log and record agree; one review; proposals flagged |
| Unlocked sidecar writers: `scripts/vision_tag_works.py`, `scripts/promote_variant_upgrade.py` | a copy of `meta.json` | propose tags; record a new master | the locked writers through the file only | truncate and write; stale copies; killed by a timeout | verdicts survive; what can be read is sound; torn files heal |
| Master facts (`api/store.py`) | memo, its cache file, dirty flag; Pillow's pixel ceiling | decode, remember, save, load | resizing handlers through the ceiling | a variable of a library that several threads set and restore; reads that fail | no verdict that the file does not deserve |
| Ratings (`api/store.py`, `api/main.py`) | log; events, signature, index; scores | rate, list, count, score | another process that rates | three variables set one by one | a new rating is seen |
| Acquisition list, dossier ids, known artists, all sidecars (`api/store.py`, `api/main.py`) | signature and rows, or a pair of both | list, invalidate | every sidecar writer | a scan that takes long; two-step set and clear; torn sidecars passed over | current rows |
| Variant promotion (`scripts/promote_variant_upgrade.py`, `variants/upgrade_gates.py`, `display/crops.py`) | masters, sidecars, applied log | judge all rows, then swap one by one | the candidate directories, which may be works, and whatever files they hold | judged state that earlier swaps change; runs that end half-way | nothing lost, right painting, crops kept, swaps reversible |
| SD card export (`eink/sdcard.py`) | images, partial files, three manifests | export | the owner's files; a second export | a card pulled at any step; partial failures | one export per card, complete manifests, nothing deleted before its replacement is ready |
| Playlist store (`eink/feed.py`) | one JSON file, one temporary file | create, update, delete | threads among themselves | load, modify, write without a lock | a call makes its own change only |
| Review gates (`api/gates.py`) | two append-only decision logs; the frontier | decide on an artist or a work, list what is open | handlers, other programs | logs read one after another while they grow; half lines; reads that fail; the last line counts | nothing decided is asked again; a gate promises what its decision delivers |
| Research requests (`api/main.py`) | a JSONL log with expiry | request, compact | handlers, a lock of the process | compaction beside appends; waiting for the lock across an expiry; failed reads and writes | an accepted request stays until it expires |
| Image caches (`api/main.py`) | files by key | resize, fetch, tile, serve | each other by the names of the files | threads that make one file truncate, remove and rename it under each other | what is left in the cache is whole |
| Manifest cache (`api/store.py`) | rows and signature | load | `build_manifest.py`, which replaces the file | two variables set one after another | current rows |
| Agent dispatch (`scripts/runner_lib/core.py`, `.github/scripts/keepalive_authority_state.js`, `.github/workflows/agents-81-gate-followups.yml`) | marker comments on a pull request; a ledger file | reserve, complete, finalize, release, sweep, recover | attempts among themselves, over GitHub | reads and POSTs without a lock; lost answers; late POSTs; jobs that are killed or run again | one agent at a time, bounded retries, authority spent once, no latch |
| Work Q-IDs (`identity/work_qid_uniqueness.py`, `identity/variants.py`; `scripts/resolve_work_qids.py`, `backfill_work_qids_by_creator.py`, `fix_misresolved_work_qids.py`, `complete_holders.py`, `backfill_holders_by_creator.py`, `fix_title_artist_swap.py`) | in each sidecar the Q-ID, its provenance, the artist; in a pass the claims and exclusions it began with | walk all sidecars: search, assign, refuse, retire, clear | each other and every other writer through the sidecars only | in-place writes; claims read once; passes with different rules; verdicts of old search plans | one work per Q-ID, variants without one, refusals that can be adjudicated |
| Collection (`collect/`) | a run's candidates and stages | discover, verify, deduplicate, acquire | network sources | order of the cascade | not modelled, see the end |
| Resolvers, scores, rendering, conversions, backfill scripts, CI tooling | — | — | — | pure, floating point, I/O | not modelled; see the end |

## Modules

| Module | Models | Uses |
|---|---|---|
| `SidecarRecord` | the sidecar as its writers see it, and what each request makes of it | |
| `ReviewedRecord` | abstract: what the locked writers promise, without locks or copies | `SidecarRecord` |
| `SidecarStore` | the locked writers, statement by statement | `SidecarRecord`; refines `ReviewedRecord` |
| `SidecarStoreProofs`, `SidecarRefinement` | theorems | `SidecarStore` |
| `SidecarUnlocked`, `SidecarUnlockedProofs` | tagger and promoter beside the locked writers; theorems | `SidecarStore` |
| `MasterFacts` | listers and resizers around memo, cache file and ceiling | |
| `RatingsCache` | threads around the ratings log and its caches | |
| `ManifestCache` | threads around the manifest's rows | |
| `AcquisitionList` | listers and reviewers around the list cache, and around the pair of `_all_sidecars` | |
| `ApiCaches`, `ApiCachesProofs` | the process that has these four groups of caches; it implements the specification of each; theorems | the four |
| `VariantPromotion`, `VariantPromotionProofs` | runs of the promotion script; theorems | |
| `SdCard` | exports to one card | |
| `PlaylistStore` | threads around the saved playlists | |
| `ResearchRequests` | threads around the log of research requests | |
| `ImageCache` | threads that make a cached image | |
| `ReviewGates` | a request that lists what awaits a decision, beside decisions | |
| `ServerFiles`, `ServerFilesProofs` | the process that keeps these four groups of files, and the card; it implements the specification of each; theorems | the four, `SdCard` |
| `WorkQids`, `WorkQidsProofs` | passes that give works their Q-ID, or take it back; theorems | |
| `RunnerDispatch`, `RunnerDispatchProofs` | attempts to start an agent on a pull request, and the sweep; theorems | |
| `MC...` | the constants' sets and symmetry for TLC | each the module it is named for |

Common conventions. A process has a position in `pc`, one action is one
statement that touches shared state, and its guard is the code's condition.
Locals that are dead are reset, so that states that differ in nothing that
matters are one. Operators whose comment begins with `Mutant:` are the code with
a plausible mistake in it; nothing refers to them, and a property is kept only
if replacing the definition by such a one makes TLC find it violated.

### Sidecar

`file` is `meta.json` (or `Torn`), `master` the digest of the image, `lock` the
flock's owner, `snap[p]` the `original_sc` a handler has read, `subjectLog` and
`reviewLog` the two JSONL audit logs. Of the document the model keeps the tags
with their states, `needs_review`, how many notes it has, how many history
events of each op, the digest, and whether the rest passes the JSON schema. The
actions follow the handlers: `Start`, `Lock`, `Read`, `Hash` (fixity only),
`Refuse` (409 or validation), `Write` (temporary file and `os.replace`, one
step), then for a subject verdict `AppendSubject` or `Rollback` under the lock,
for a review `Release` and `Publish` after it. Appends and writes may fail, the
server or a checker may die anywhere; the kernel then drops the lock. `unlogged`
is a history variable: the tags whose verdict has lost its event to a crash or
to a failed undo, until the next one on that tag is logged.

`SidecarUnlocked` adds two scripts which read the file, edit a copy, truncate
the file (`Truncate`) and write it (`Dump`). `linked` tells whether the name
still points to the file a script has open: an `os.replace` in between unlinks
it, and the script's text is lost. Both overlap with the locked writers at every
step, and may be killed between any two.

### Master facts

A master has an identity (mtime and size) and is small, gigapixel or damaged.
`Opens` is Pillow's refusal to open what exceeds the ceiling. `Stat` to `Memoise`
are `_master_facts` and `_master_health`, with the saving, lifting and restoring of
the ceiling as three steps; `BeginFlush` to `RenameTmp` are `flush_master_facts`,
with the iteration that breaks when another thread has added a key meanwhile.
`Serve` is `_serve_resized`, which lifts the ceiling and leaves it so. The probe of
one byte may fail (`ProbeFails`, "unchecked"), and so may the read that follows it:
`Decode` then says "truncated" of a good file, as the code does of every exception,
and the verdict is kept and saved like any other. The cache file may fail to open as
well (`LoadMemo`). The dimensions that are kept beside the verdict are left out: no
property is about them. `overlap` and `misread` (the masters of which a read has
failed during the decode) are history variables for the properties.

### Caches of the API

The ratings log only grows, so its length is its state; a cached list is the
length it was read at; the manifest is the number of its build. `alone` marks a
request that nothing else has overlapped; `calm` that the last change was made,
and everything since has run, one at a time. The properties say what the code
can promise without a lock: where signature and value are separate variables,
races may leave a stale value behind, but the next undisturbed change outdates
it; where they are one pair (`main._cached_ratings`, `_all_sidecars`), races
leave nothing stale. A signature is taken in one step (the code walks the tree),
the comparison of cache and signature is one step, the read of the cached value
another, as in the code. A sidecar that is torn while it is scanned is passed
over, and so is a good one that cannot be opened just then; `skipped` remembers the
latter, until a sidecar changes: the list without it is kept for that long.
`invalidate_manifest_cache` is called by tests only and left out.

`ApiCaches` puts these three groups and the master facts into one process.

### Variant promotion

A file is a path and an image; an image shows a painting, has a size, may be cut
to a display's aspect, may exceed the display's 20 MB. A sidecar records these,
or lacks some. `Evaluate` judges a whole candidate list, as the script does, and
`MoveOut`, `MoveIn`, `Record`, `AppendLog` are `apply_swap` and the log. A row names
a file (`Row`): `evaluate` admits any one under the candidate roots, of which the archive
is one, so a candidate may be a master, an image beside it, or a master that an
earlier swap has superseded; `SamePath` says which files share a path. A list
is taken to hold only rows that pass, since a refused row has no effect. Digests
of different images are taken to differ in their first seven characters. `reused` remembers which
superseded masters have been moved in again, for `AppliedIsReversible`, which
promises nothing about those.

### SD card

`images` are the files that `OURS_RE` matches, one of which may be the owner's.
`existing` is listed at the start, removed one name at a time at the first
rendered work, the partial file renamed, the manifests truncated and written in
the code's order. `README.txt` is treated like the other manifests: as the list
of what was written. `by` is the export that wrote a file.

### Playlist store

`raw` is the copy a thread edits, `tmp` the one `.json.partial`. A descriptor
stays with its file when the name is renamed, so a slow writer may write into
the store itself (`open`). A store that is torn, or that cannot be opened this time,
reads as empty (`Reads`); a call that meets the latter saves its own playlist
alone.

### Research requests

`log` is the time stamp of each request in the log, or 0. A writer stamps its
record before it waits for the lock and takes its cutoff after; a reader takes
its cutoff before. A write replaces the whole log by what was read without the
expired records. `Fails` is the 503 of a log that could not be read or written;
`Restart` drops the lock. `made` and `accepted` remember what the property
speaks of.

### Image caches

One cached file, as the set of its parts. A resized image is opened under its
final name, a deep-zoom tile under a temporary one with the process id, which
all threads share. `open[t]` is the name of the file that a thread has open:
a rename takes it along, a removal by Pillow after a failed save makes it
`"gone"`. `Exists` to `Serve` are the handlers' statements.

### Review gates

A log is a sequence of lines, one of which may be `Half`: an append that broke
off, into which the next line disappears. A log that cannot be opened reads as an
empty one (`Take`), each of the three reads by itself: `unread` remembers which
of them have missed something in that way, and the properties promise nothing that
rests on these. The code's docstring tells of such an incident
(`api/gates.py:193`), and the answer now reports beside the lists whether the logs are
there. One request lists, by
`frontier_gates` or `works_awaiting_look`, and reads each log in a step of its
own; others decide in between. As listing changes nothing, one such request
stands for all. The frontier is any; other programs replace it as a whole and a
request reads it once.

`ServerFiles` puts playlists, requests, images, gates and the card into one process.

### Work Q-IDs

A record is what a sidecar says of the Q-ID: the Q-ID itself, whether the artist
has one, and the provenance `mark`, with the version of the search plan that left
it and the collision its note tells of. `shape` is what no pass changes: who is
derived, who fails the schema, whom `files.variants` of another sidecar lists.
There are seven kinds of pass. `resolve`, `retire` (the same script with
`--retire`) and `creator` are the searches; they seed `claims`
(`WorkQidClaims.from_sidecars`) and `barred` (`VariantLinks`) in `Scan`, and look
at the works one by one. `repair` loads all sidecars first. `holders`, `location`
and `swap` are the passes about holders and artists which assign a Q-ID on the
way and ask nobody. `Find`, `Refuse`, `GiveUp`, `Clear`, `CompleteHolder`,
`LocateHolder` and `UnswapTitle` are what each does to a record, including what
becomes of a record that does not validate, which each does differently;
`Truncate` and `Dump` are `sidecar.write`; `Unreadable` is the parse error that
ends a pass. `Kill` stands also for `--limit`. `Improve` is a release with a new
search plan, between passes. A search may find any Q-ID or none, a holder may be
known or not.

The two scans at the beginning of a search (`seen`, `linked`) each pass over what is
torn and whatever they fail to open, as the code does upon any exception
(`identity/work_qid_uniqueness.py:62`); a pass that has missed a good sidecar may give
its Q-ID away again. The scans of `Begin` are one step, and so is the load, search
and decision on one work. That matters for passes that overlap only, of which the
properties say nothing: `careless` remembers that two passes have overlapped, that
an unguarded one has assigned a Q-ID, or that a scan has missed a good sidecar;
`alone` marks a pass that no other has overlapped. Mirrors, logs of operations, dry
runs, and the tables of Q-IDs assigned by hand are left out.

### Agent dispatch

The state is one pull request's: the newest reservation marker, the receipts posted
after it, the ledger of the authority challenge, a POST that timed out and may yet
land. `ReadPrior` to `Recheck` are `should_dispatch` and `_reserve_dispatch`;
`ReadChallenged`, `Prepare`, `Reread`, `GiveBack`, `Reconcile` the path of an
attempt that carries a challenge; `Finalize`, `Readback`, `Cleanup`, `Void` are
`finalize_authority_challenge` and `release_authority_challenge`; `Report` and
`Record` are `record_completion`; `BeginChallenge`, `Recover`, `Confirm` the sweep's
and the reporter's commands on the ledger. `BeginChallenge` includes the reaping of
a preparation that has expired (`keepalive_authority_state.js:443`): the release and
the new generation are one step, since nobody can prepare a generation that has
expired, and the owner of the old one finds its receipt gone. Every answer of GitHub
may be lost, every job may be killed, a completion job may be run again. `quick` in
a record (immediate retries of completed runs), `runs`, `refunded`, `overlap` and
`landed` are read by properties only. Time is counted in ages of reservations and
completions, cut off past the window; the stale limit and the cooldown are both half
an hour. An id that nothing names any more stands for a new attempt.

Of retries `UnfinishedRetriesAreBounded` says what the code promises: a completed
run without work, or with work left, is retried at once a limited number of
times on one head. A run that ends in error is retried at once without limit
(`runner_lib/core.py:1503`, `:1703`); such runs may stand anywhere between the
others, and neither spend their allowance nor give it back. `ReplaysAreFree` says of
a second report of an attempt that it repeats both tallies and does not make the
completion younger, from which the cooldown is counted.

An attempt makes one call of `should_dispatch` in the model. In the workflow the job
`prepare` (`agents-81-gate-followups.yml:1580`, its call at `:2092`) has no `needs:` and
makes a second one, in parallel with that of `evaluate` and under the same attempt
id, so that the check of `record_completion` (`core.py:2011`) does not tell the two
apart. That is not modelled: `LoneRunner` (which excepts calls that overlap) and
`OwnReceiptOnly` are about attempts, not about jobs of one attempt.

## Runs

| Run | Instance | Shows |
|---|---|---|
| `SidecarStore` | 2 reviewers, 2 curators, 1 checker, 2 tags, 2 digests, 3 requests, failing appends and writes, crashes | `NoLostUpdate`, `SubjectLogExplainsTags`, `HistorySound`, `ProposalsAreFlagged`; the refinement `ImplementsReviewedRecord`; that `IInv` of the proofs is an invariant |
| `Unlocked` | 1 reviewer, curator, tagger, promoter, 1 tag, failing writes, crashes, fairness | `RecordStaysSound`: history and flag hold in whatever can be read; `VerdictsWereGiven`; `TornHeals`, `HandlersReturn` |
| `ApiCaches` | 2 threads, one that reviews, others that resize; all kinds of calls, 2 works, 2 changes to the files; 2 masters, gigapixel or damaged; restarts | `LonePairsAreCurrent`; `CalmRatingsFresh`, `CalmManifestIsCurrent`, `CalmListIsCurrent`; `MemoIsSound` always, `LoneVerdictIsFair` for scans that do not overlap |
| `ServerFiles` | 3 threads; 2 playlist ids, 3 calls; 2 requests with time; images of 2 parts, 4 calls; 2 works, 1 artist, 2 log lines; restarts, failing reads and writes; 2 exports of any playlist of 2 works to a card that is pulled anywhere | `LoneCallIsExact`, `AcceptedSurvives`, `SettledCacheIsWhole`, `DecidedIsNotAsked`, `GateKeepsItsWord`; of the card `OneExport`, `ManifestCoversCard`, `FinishedCard`, `KeptUntilReplaced`, and `ClearsWhatItFound` also when exports overlap |
| `VariantPromotion` | 2 works and 1 staging directory, 5 images of 2 paintings, 2 of them crops and one of these beside a master, any file as a candidate, 2 runs of up to 2 rows, killed anywhere | `AppliedIsReversible`, `RightPainting`, `CropStaysCrop`; `WorkKeepsMaster` for staged candidates and runs nobody kills |
| `RunnerDispatch` | 2 attempts, plain or challenged, 2 commits, 1 retry, a window of 1 tick, all faults | `LoneRunner`, `UnfinishedRetriesAreBounded`, `OwnReceiptOnly`, `ReplaysAreFree`, `AuthorityIsSpentOnce`, `RefundedIsClosed` |
| `RunnerDispatchLive` | 2 plain attempts, again and again, 1 commit, fairness | `NoLatch`: a head that is not done with gets another agent |
| `WorkQids` | 2 works, 2 Q-IDs, 3 passes of any kind, of which 2 may overlap, 2 releases, one irregular sidecar or pair, scans that miss one good sidecar, killed anywhere | `OneWorkPerQid`, `HoldingsStayBare`; `RefusalNamesAHolder` |
| `UnlockedVerdictLost` | 1 curator, 1 tagger | **violated**: `DecisionsSurvive` |
| `PromoteDeletes` | 1 work with two masters, 1 candidate | **violated**: `NothingDeleted` |
| `MasterMisjudged` | 2 listers, one gigapixel master | **violated**: `GoodIsNotTruncated` |
| `DecisionOverturned` | 1 pass over 2 works | **violated**: `DecisionsStand` |

Each module has one type invariant, `TypeOK`. They are proved, as part of the
inductive invariants, and no run checks them again. Each inductive invariant was
checked on the instance of its run before it was proved.

Bounds. `MaxRequests`, `MaxMasters`, `MaxChanges`, `MaxPlaylistCalls`,
`MaxImageCalls`, `MaxTime`, `MaxLines`, `MaxExports`, `MaxRuns`, `MaxCareless`,
`MaxPlan`, `MaxRows` cap what a behaviour may start, and `MaxMissed` the good
sidecars that the scans of one pass fail to open; all are in guards of the
actions that start something. Three requests are a verdict, its reset and a third
writer between; two changes make one list outdated and one not, or truncate a
sidecar and write it; three threads are one that makes a file, one that meets it and
one that fails; two exports are one to leave files and one to find them; two rows
may claim one file, or two works may exchange masters. Two decisions are the one a
gate has read and the one that comes in between; lists are computed work by work, so
one artist who has several works and two works, of which one may be hers alone, are
all the cases. Three passes are one that leaves something behind (a torn sidecar, a
refusal, a verdict of an old plan), one that meets it and one that repairs it; once
a pass was careless most of the properties ask nothing more, and two will do.
`RunnerDispatch` needs no bound on attempts: ids are used again when nothing names
them, and its counters are cut off by the code's own limits. `CHECK_DEADLOCK FALSE`
stands where all bounds may be used up with every process idle, which is a state in
which the system rests.

Composition. The parts of `ApiCaches` (master facts, ratings, manifest, lists), and
those of `ServerFiles` (playlists, requests, images, gates, card), share no file
and no variable. A step on one commutes with every step on another, and each
property speaks of one; so a behaviour violates it if and only if its steps on
that part alone do, and `about` chooses the part. The proofs do without that choice:
every step of the whole is a step or a stutter of each part (`FileSpecs`,
`CacheSpecs`). The parts that do
share something are one module: the two log caches share their threads, the
writers of a sidecar the file.

Symmetry is over interchangeable processes, tags, digests and works, and only
in runs without liveness properties. Three runs have a view: two states that
differ only in a local variable which its process will set before it reads it
again (`SidecarStore`, `Unlocked`), or in the age and the place of an attempt that
nothing refers to (`RunnerDispatch`), are one.

Fairness. `UFairSpec`: weak fairness of each handler's and each
script's steps (the operating system runs every thread; none waits for
anything but the lock), strong fairness of taking the lock (`flock` wakes its
waiters; the lock is repeatedly free, not always). Requests need not arrive, and
nothing in the code restarts a killed script. `RunnerDispatch!Spec`: the hourly
sweep starts an attempt again and again (`SF` of `Start`); GitHub's reads and
POSTs succeed again and again, though each may fail (`SF` of `ReadPrior` and
`Post`); jobs have timeouts (`WF` of `End`); time passes, and GitHub settles a
request that timed out (`WF` of `Tick` and `Land`). No agent need push, report
or do anything.

## Disagreements found

- **A verdict is overwritten** (`scripts/vision_tag_works.py:608`). The merge
  protects what humans decided before the script read the sidecar. It writes
  the copy back without the lock, and a verdict given in between is gone, though
  the audit log has it. Its docstring promises never to overwrite human state.
- **A master is deleted** (`scripts/promote_variant_upgrade.py:223`). Only the
  first master is superseded; a second one with the candidate's extension is
  replaced by the move. The docstring says that the swap never deletes.
- **A good master is reported damaged** (`api/store.py:379`). The pixel ceiling
  belongs to the process; one thread restores it while another decodes. The
  comment above it describes exactly that outcome as the one to prevent.

- **A decision is overturned** (`scripts/backfill_work_qids_by_creator.py:141`).
  `resolve_work_qids.py` passes over works of which somebody has decided that they
  have no Q-ID; the search by creator looks only at whether there is one, and
  assigns it.

Others were met while modelling or proving and are recorded without a run of their own:

- A candidate is judged by the sidecar of its directory, whichever file of the
  directory the row names (`scripts/promote_variant_upgrade.py:164`). Beside a
  crop that the sidecar describes, a second master that is a full view passes for
  a crop and may take a crop's place, which the gate is to prevent. An attempt to
  prove `CropStaysCrop` without the premise `CropsAreTold` failed at this case, and
  TLC gave the run.
- The history is called append-only; an undo removes events from it
  (`api/main.py:1492`, `:1510`).
- A photo called `2024_beach.jpg` counts as an earlier export and is unlinked
  with overwrite, where the message says that other files are never touched
  (`eink/sdcard.py:126`, `:180`).
- A store that cannot be parsed is called recoverable, and the next save
  replaces it (`eink/feed.py:102`).
- A fetch is to end by its deadline (comment at `api/main.py:1783`); the time
  left is computed before the wait for a slot (`:1802`).
- The decision logs are append-only so that nothing is lost; a line behind half
  a line is lost with it (`api/gates.py`, the two appends). `AppendLine` models
  that, and `GateKeepsItsWord` excepts it.
- The artists listed by `review_artists` (`api/main.py:2030`) are those of
  routed works, whatever was decided about the artists.
- An unreadable frontier counts as unmeasured in one list and as empty in the
  other (`api/gates.py:857`).
- One work per Q-ID is called enforced at the point of assignment
  (`identity/work_qid_uniqueness.py:1`); three passes assign without claims
  (`enrichment/holder.py:278`, `scripts/backfill_holders_by_creator.py:125`, which
  replaces a Q-ID the work has, and `scripts/fix_title_artist_swap.py:140`).
  `OneWorkPerQid` holds until one of them does.
- Every swap is called reversible (`scripts/promote_variant_upgrade.py:36`), because the
  replaced master is kept beside its work. `evaluate` accepts any file under the
  candidate roots (`:133`; `api/main.py:1901`), so the master that one run has superseded
  may be the candidate of the next, which moves it away. `AppliedIsReversible`
  excepts exactly those files; without the exception TLC finds the run.
- A transient read failure must not become a permanent verdict (comment at
  `api/store.py:458`). One that hits after the probe does: every exception of the decode
  means "truncated" (`:381`), which is memoised and saved. `GoodIsNotTruncated` excepts
  the masters that this has happened to.
- A list of acquisitions made while a sidecar could not be opened lacks that work and
  is kept until a sidecar changes (`api/store.py:563`).
- A decision log that cannot be opened reads as an empty one, which `api/gates.py:190`
  calls catastrophic as a report; the incident it tells of is answered by showing
  where the logs are, and the lists ask again all the same.
- A Q-ID that `fix_misresolved_work_qids.py` clears leaves the mark of a decision, so
  no later search plan looks for the right one.
- `resolve_work_qids.py` claims a Q-ID before it validates the sidecar, so that an
  invalid one keeps a valid one from getting it, which the comment in the search by
  creator says must not happen. `RefusalNamesAHolder` excepts it.
- One torn sidecar ends a whole pass, although the scans before it pass over it.
- A release is to happen only upon confirmed absence of the reservation
  (`runner_lib/core.py:1598`); a POST that timed out may land after the look. The
  theorems on refunds and on lone agents therefore except late landings
  (`landed`).

## Proofs

Every safety property of every passing run is a theorem: invariants, action
properties and the refinement. The theorems hold for any number of processes,
names, requests and limits, and for any combination of the faults. They assume
only what the modules' `ASSUME`s say: kinds of processes are disjoint, `NoOne`,
`NoTag`, `Torn` and the like are values apart, bounds are natural numbers, and
where a cache starts with something in the file, at least one build or line.

### The sidecar (`SidecarStoreProofs`, `SidecarRefinement`)

*Invariant* (`IInv`). None of the properties is inductive by itself. That no
update is lost needs that the copy a writer holds is the file (`CopyIsCurrent`),
which needs that nobody else is in the critical section (`LockHeld`), and that a
process is only at positions of its kind with a request of its kind
(`RequestsFit`). A rollback puts a copy back, so history and flag must be sound
in the copies as well. The lemmas `LoggedType`, `CuratedType`, `ApplyType` and
`ApplySound` say what a request makes of a document; the step lemmas go through
the actions. From it follow `TypeCorrect`, `ReviewedOnce`, `NoProposalHidden`
and the action property `NoUpdateLost`.

*Refinement.* `RecordView` takes a verdict as not given until its audit event is
appended: between the two writes the abstract record is the copy that a rollback
would restore, of which the lock permits one. `OwedView` is the event a
reviewer has yet to append. Lock, read and refusal are stutters; the append of a
verdict's event is the abstract verdict; a crash, or a failure of both append
and rollback, is `CurateUnlogged`. `Refinement` is
`Spec => ImplementsReviewedRecord`.

*Audit.* `SubjectLogExplainsTags` speaks of the states in which no verdict is
half done, so it is not inductive; `Explained` says the same of `RecordView` in
every state. A write of a verdict leaves that view alone, its append changes
view and log together, a rollback neither, and a crash puts the tag in
`unlogged`. `LogExplainsTags` is the theorem.

### Agent dispatch (`RunnerDispatchProofs`)

One invariant per promise, each over `TypeOK` and those before it.

- `OwnIds`: a receipt, and a record at hand, bear the id of the attempt that
  wrote it, and no reservation bears an id before its attempt has posted. Without
  it an attempt could complete another's reservation; with it follow
  `ReceiptsAreOwn` and, together with `Settled` (who repeats a receipt repeats its
  tallies) and `CompletionAges` (only the first report of an attempt sets the time of
  its completion), `ReplaysFree`.
- `AllPaid`: the immediate retries that led to a record are paid for by its
  tallies. Two tallies are kept by different rules, so `Tally` says for each kind
  of record which of them counts: a pending record, a failed run and a run
  without a measurement pay in different coin. From it
  follows `UnfinishedRetriesBounded`; a failed run is retried without touching either.
- `OneOwner`: agents are started by the owner of the ledger's receipt, which
  leaves its readback by doing so; hence `AuthoritySpentOnce`.
- `Refunds`: who is about to give back has closed its reservation, and only the
  attempt itself could open it again, unless a POST lands late;
  hence `RefundedClosed`.
- `OneHolder`: reservations do not run ahead of the branch (`NoneIsAhead`), an
  active attempt within its window holds the newest reservation of its head
  (`YoungOnesHold`), and one attempt decides at a time (`OneDecides`), as long as
  no two begin to decide together and nothing lands late; hence
  `OneAgentAtAHead`.

### Writers without the lock (`SidecarUnlockedProofs`)

What can be read is sound although a script tears the file and puts an old copy
back. So it is not enough that the file is sound: `UInv` says it of everything that
anybody may still write back, the copies of handlers and of scripts (`SnapsAreFine`,
`CopiesAreFine`), and that a script never has a torn text in its hands when it
opens the file (`NoTornCopyIsWritten`). No lock enters the argument; what is lost
without one is whether a verdict survives, which `UnlockedVerdictLost` refutes.
`Given` carries `VerdictsGiven`: a verdict in any copy was asked for, and requests
that were made stay made. The lemmas on `Apply` and on soundness are those of
`SidecarStoreProofs`.

### Files of the API (`ServerFilesProofs`)

- Playlists: `LoneIsOnItsWay` says what a call that overlaps nothing has done at
  each step. It needs that the others are idle, and `OpenWrites`, that an idle
  thread has no file open into which the rename could put the call's work.
- Requests: the holder of the lock is the only one inside (`Exclusive`), and what
  it has read is the log as far as it is open (`OpenIsKept`). A cutoff is never
  ahead of time (`OnTime`) and a stamp is the one that was made (`Stamped`), so
  what was not expired when it was read is kept.
- Images: a file that is not whole has a writer who has filled it up to where it
  is and will complete it (`FinalIsMade`, and `TmpIsMade` for the temporary
  name); a lone call that fails removes its own file (`LoneMakesIt`). Both are
  lost when the server ends, or a save fails beside another call: that is what
  `spoiled` says.
- Gates: lines are only appended, so what a log said of a work or an artist when it
  was read is overruled by a later line at most (`DecidedStands`). The logs are
  read one after another: whose decision stood when the request began is either
  among those read as allowed or will be among the refused (`StandingIsSeen`), and
  with nothing decided in between, what was read is what the logs say
  (`QuietIsCurrent`), which is what the promise of a gate compares. That the last
  readable line about someone exists is `GreatestExists`.
- The card: for each step of the only export `Phase` says what lies on the card: all
  as it was found, then what is left of that and no image of the export, then its
  own images and none else, then its manifests one by one. `WroteOf` and `OrderOf`
  say that what it has written is numbered from 1 without gaps and follows the
  playlist. While one export is at work the others rest (`Lone`), whichever of them
  was cut short. `ClearsWhatItFound` needs none of this and holds for exports that
  overlap.
- `FileSpecs`: a behaviour of `ServerFiles` is one of each of these five
  specifications, so their theorems hold for the whole.

### Caches of the API (`ApiCachesProofs`)

Three of the four caches race, and the properties promise something for calm spells
only. None of it is inductive: an invariant must say what a race may leave behind,
so that the next undisturbed change outdates it.

- Ratings and manifest: a signature that anyone holds, or that is stored, is of the
  file as it is or as it has been (`RatingsPast`, `ManifestPast`); so a change gives
  the file a signature that nobody holds, and whatever value the race has put
  beside an old one is not used again. From then on, one at a time, a current
  signature means current values, at each step of a call (`RatingsCalm`,
  `ManifestCalm`). `ScoreCall` says of the pair that it is never older than its
  signature, calm or not.
- Lists: versions of a sidecar only grow, but a scan reads one sidecar after
  another and passes torn ones over. `Known` says that a signature is the tree's as
  it is, or one that the tree will never have again, with `Counted` writes to come;
  `FoundTrue`, that what was found under a signature which the tree still has is
  what it shows. The pair of `_all_sidecars` needs `CacheIsTrue` only. All of it holds
  while no good sidecar is `skipped`, and again from the next change on.
- Master facts: `Tells` says of the memo, of the cache file and its temporary file,
  of the copy that a flush iterates over and of the facts at hand that they call no
  damaged master good, no good one damaged unless it is `misread`, and know nothing
  of a later master than they should. A lone lister has the ceiling as it needs it
  when it decodes (`LoneLister`).
- `CacheSpecs`: a behaviour of `ApiCaches` is one of each of the four.

### Variant promotion (`VariantPromotionProofs`)

- The right painting: a swap is judged by the Q-IDs of two sidecars and carried out
  later, when other rows have moved files. What carries over is not the files but
  what the sidecars claim, which no swap changes (`ClaimsStay`): all rows ahead stay
  agreed (`RowsAgreed`), and a sidecar names the painting in its directory or
  none (`QidTold`). A file that comes into a directory is thus of the painting there
  (`ComesRight`). `WorksKeepTheirPainting` is the theorem.
- Crops: the same, with `Measured`: a sidecar without dimensions records no aspect,
  so the gate passes on ignorance only where nothing tells of a crop.
- Reversible: a superseded file is only ever replaced by one of the same content
  (`EvidenceStays`), for what is in the log, in hand, and applied but not logged,
  and moved away only as a candidate, which puts it into `reused` (`Evidence`).
- A master in every work: undisturbed, the candidates of a run lie outside of the
  archive, are distinct, since each is claimed once, and all wait where they were
  found (`Outside`, `Distinct`, `Waiting`); so the second move never fails, and only
  between the two is a work without a master (`OthersKeep`).

### Work Q-IDs (`WorkQidsProofs`)

- One work per Q-ID: as long as passes are careful and their scans complete, one is
  at work (`OneAtWork`), its claims name the holder of whatever is held
  (`ClaimsHold`), and what it is about to write is held by nobody else and claimed
  (`CopyIsFree`). The scan names *a* first holder only if a set of works has a least
  element, which follows from the library's theorem on finite subsets
  (`FirstExists`). Each of the seven ways to a new record ends in `Propose` or in
  `Advance`, so `ProposeKeeps` and `MoveKeeps` carry the argument.
  `QidDenotesOneWork` is the theorem.
- The hollow stay bare: a sidecar that lists another is read by the scan of a search,
  unless it was torn before (`Alive`), and nothing torn comes to life again
  (`AliveBefore`); hence whoever is listed is barred, and a record is written only
  if it is `Justified`. `HollowStayBare` is the theorem.
- Refusals: the claims of a pass that is alone are held in the archive, but for the
  one that it is about to write (`ClaimsTrue`). It needs that a pass with claims
  never claims for a sidecar that it cannot write, which is why the property excepts
  invalid ones; that a pass stays alone until another begins (`Lone`); and that the
  work in hand holds nothing, so that whoever is named is another (`RefusalTrue`).
  `RefusalsNameHolders` is the theorem.

Only model-checked: liveness (`TornHeals`, `HandlersReturn`, `NoLatch`), since the
prover has no rules for fairness and `ENABLED`, and the four violations. No module
uses `RECURSIVE` operators.

## Not modelled

- *Within the modelled parts.* Argument checks before a request starts (400, 404);
  the memo's clearing at 4096 entries; `dry_run` of the export; caches of link
  states in the promotion script; collisions of digests; the two fetch slots and the
  deadline of a fetch; packed deep-zoom containers; the gate of variant upgrades and
  its CSV, cards and look-alikes; the frontier's memo for image URLs. Of the
  dispatch: legacy stores and markers, wording, the presence index; the second call
  of `should_dispatch` that the job `prepare` makes in parallel under the same
  attempt id (see above); the resumed release (`core.py:1788`), which one attempt
  cannot reach twice.
- *Collection.* Discovery, verification and acquisition are a sequential
  pipeline over network sources. What could be modelled is the deduplication
  cascade, as operators against a reference, and the stages with failing steps.
- *Resolvers and repairs.* Of the scripts that walk the archive and rewrite sidecars
  those about a work's Q-ID are modelled. The rest do the same to other fields, of
  which no field of another sidecar depends: the artists' Q-IDs and hand tables, the
  recovery of lenses, the migration of series, mirrors and backfills of provenance.
- *Left out for good.* Bodies of HTTP clients, wording and layout, colour and
  pixel arithmetic, floating-point scores (Bradley-Terry, Rocchio, lenses),
  document conversions (IIIF, crosswalk, parsers), the repository's reporting
  tools.

## Plan

Done, with proofs: the sidecar's writers, locked and not; the caches and files of the
API; the export; promotion; the dispatch of agents; the works' Q-IDs. Next, in order of
weight:

1. `DedupCascade` and the stages of `acquisition_flow`.
2. The fetch slots with their deadline.
3. Composition of the list cache with the sidecar's writers, so that an
   invalidation follows the write it stands for.
4. Proofs for what these add; the safety properties of today are all proved.
