# Disputatio: specification and proofs

Disputatio is a Tauri desktop application (Rust core, React window, Postgres
state store) that answers "what do I study now": it indexes an Obsidian vault,
builds a daily queue from it, logs study sessions and reviews flash cards with
FSRS scheduling. This directory holds TLA+ models of its core, the TLC
configurations that check them and TLAPS proofs of every safety property the
runs check. Source paths below are relative to `src-tauri/src/` unless they
name another directory.

## The system

One process. Every Tauri command is an async task over a pool of five Postgres
connections; a command awaits the database one to four times, and between two
awaits any other command may run. The window is not locked while a command
runs, so a second click, another screen or the start-up effect is enough to
have two commands in flight. Everything durable is in Postgres; the vault is
only read.

| Component | State | Operations | What is hard | What makes it correct |
|---|---|---|---|---|
| Study loop (`domain/session.rs`, `application/session.rs`, `infrastructure/session_pg.rs`, `presentation/session.rs`) | `sessions`, `session_stages`, `chunks.status/updated_at` | `start_session`, `stop_session`, `complete_chunk`, `get_active_session` | check-then-act across transactions, lost acknowledgements, restarts | stage and session rows agree, closed rows are final, done is final, overlap is bounded |
| Memoria review (`domain/review.rs`, `application/review.rs`, `infrastructure/card_pg.rs`, `presentation/review.rs`, `src/screens/Home.tsx`) | `cards`, `reviews`, the sitting on the screen | `list_due_cards`, `grade_card`, reveal, leave | read-schedule-write, retries, answers that arrive late | card state and review log agree; only kept cards; the sitting always has a card |
| FSRS scheduler (`infrastructure/fsrs.rs`) | none | `schedule`, `replay` | the state written must be the one the log replays to | reps, lapses and state follow the grades of the log |
| Daily queue (`domain/queue.rs`, `application/queue.rs`, `infrastructure/queue_pg.rs`, `presentation/queue.rs`) | none of its own; reads chunks, settings, cards | `get_queue` | three reads at three instants, of rows whose own instants commit in any order; inclusive 14-day boundary; overrides that stop pointing at an open chunk | no track starves, stale first, a started chunk is hidden only behind a fresher one and until it is stale, an answer misses no work, next moves forward |
| Vault indexer (`infrastructure/vault_fs.rs`, `infrastructure/index_repo.rs`, `application/index.rs`, `presentation/commands.rs`) | `sources`, `chunks` | `reindex` | folders come and go while rows stay; row-by-row unique constraint; races with study commands | idempotent, progress never regresses, course order distinct |
| Settings (`domain/settings.rs`, `application/settings.rs`, `infrastructure/settings_pg.rs`, `src/screens/Settings.tsx`) | `app_settings` | `get_settings`, `set_settings` | one statement per key without a transaction, a form that may never have loaded, crossing saves | whatever fails, a first part of the keys was written in order; only edited fields change |
| Home screen (`src/screens/Home.tsx`) | queue, active session, error, sitting | load, start, stop, complete, review | answers that arrive late or never, nothing disabled in flight | the way out of a session is on the screen, no session is shown that is not open |
| Startup (`lib.rs`, `infrastructure/pg.rs`) | the managed pool | connect, migrate, manage | best effort, in the background; the pool is managed also when a migration failed | a command finds no pool and is refused, or a database whose missing tables make it fail |

Interactions: the queue reads what the study loop, the indexer and the settings
write; the indexer and the study loop write the same chunk rows; the Home
screen drives the study loop and the review and shows the queue; grades change
the due count in the queue's header; every command goes through the pool that
startup hands over.

`PROJECT.json` lists, for every modelled definition, the source lines it
stands for; the hazards, with the line each bites at and the properties that
watch it; and what disagreed with the documentation.

## The modules

* **StudyRecord** - the abstract specification: a log of sittings and a set of
  finished chunks. Sittings begin only with unfinished chunks, end once and are
  never rewritten; at most `Overlap` are in progress together.
* **StudyLoop** - the commands. `calls` has a record per command slot: which
  command, how far it has come (`read`, `write`, `replied`), its argument, the
  instant its handler read, the session it read. `Invoke*` is the handler's
  entry; `StartRead`/`StartWrite` and `StopRead`/`StopWrite` are the two awaits
  of `start_session` and `stop_session`; `*Refused` are the zero-rows outcomes.
  A transaction is one step: each touches one chunk row or one session row under
  its lock. `Committed` lets the acknowledgement of a commit get lost, `Fail` is
  any await that fails with nothing written, `Crash` leaves only the tables.
  `IndexWrite` is a whole reindex as the study tables see it.
* **MemoriaReview** - `grade_card` is a read (`GradeRead`) and a transaction
  (`GradeWrite`) that writes the state computed from the card that was read;
  `GradeClash` is `UNIQUE (card_id, reviewed_at)`. `sitting` is the screen's
  review state and a call keeps the sitting its handler was rendered with, as a
  React closure does, so `Deliver` may set an old one. A review row keeps the
  grade and the state before it; `Replay` takes a card through the rows of a log
  instant by instant. `crossed` is a history variable: the
  cards for which two grades were in flight at once. FSRS is external:
  `Schedule` keeps its effect on state, reps and lapses and leaves the interval
  open. The order of `list_due_cards` among the due cards is left open too
  (`DueBatch`): no rule of the sitting reads it.
* **DailyQueue** - the selection rules as operators (`TrackItems`,
  `RotationOrder`, `BuildQueue`), and `get_queue` as clock, chunk read, settings
  read and due count, each a step. Of the study loop it has what is committed
  to chunk rows, and nothing of the session check: a start may write any row
  that is not done, a completion any row, in any order. The instant a command
  writes is the one its handler read at entry (`presentation/session.rs:69` and
  `107`), so `Touch` writes any instant up to now, also one older than the table
  or a query in flight already has. `past` in the query is a history variable:
  the chunks that were done when it was asked. That StudyLoop's commands, under
  the Home screen, write chunk rows like this and no other way is
  `RowsFollowDailyQueue` of HomeScreen. Its sorts and filters are those of **Enumeration**: the sort of a set under a
  strict order (`InOrder`, by how many elements come before) and the elements
  of a sequence that belong to a set (`Kept`).
* **Indexer** - the scan as operators (`CourseOrd`, `SeededStatus`,
  `ScannedSources`); the transaction as one `UpsertChunk` or `UpsertRefused` per
  found folder in scan order, `job.written` being rows only the transaction
  sees and whose locks hold study commands back; `Commit`. `now()` is the
  transaction's start. `indexed` is a history variable: the vault is as the
  last commit found it.
* **Startup** - the background task: connect or give up, migrations one
  transaction each, then the pool is managed whether or not they all went
  through. `schema` survives a restart, `pool` does not.
* **SettingsScreen** - extends Startup. `set_settings` is one `Put` per key it
  has to write, in the order of `Order` (the vault path, then the tracks as a
  `BTreeMap` has them), and a `Get` for the answer, each of which may fail;
  a command entered before the pool is managed is refused. `form` is the
  screen's state; a save carries the form as it was at the click. `typed` and
  `crossed` are history variables.
* **HomeScreen** - composes StudyLoop, whose variables and actions it takes as
  they are, with the rules of DailyQueue (`Rules == INSTANCE DailyQueue`), which
  say what a loaded queue lists. A click is an `Invoke*` of the study loop and a
  change of the screen in one step, `Deliver` a `Return` and what the handler
  does after its await. A start is clicked at an instant later than what the
  tables have, which earlier clicks read: instants are microseconds. A handler keeps in `views` the state it was
  rendered with. `ReviewEnds` stands for a review sitting, which ends by
  loading the queue anew; a completion does the same (`Reload`). `doubt` and
  `overlap` are history variables (see the runs).
* **StudyLoop_proofs, StudyRefinement_proofs, MemoriaReview_proofs,
  Enumeration_proofs, DailyQueue_proofs, Indexer_proofs, SettingsScreen_proofs,
  HomeScreen_proofs** - the theorems (below).
* **MCStudyLoop, MCMemoriaReview, MCDailyQueue, MCIndexer, MCSettingsScreen,
  MCHomeScreen** - the instances.

Operators marked *Mutant* are plausible bugs of the definition that follows
them; nothing refers to them. Each property was seen to fail with one of them
in place.

## The runs

| Run | Bounds | What it shows |
|---|---|---|
| `study_races` | 2 chunks, 2 commands in flight, 2 instants, 3 sessions | under every interleaving, failure and restart the tables keep the promises of StudyRecord |
| `study_serial` | 1 command at a time, 3 instants | then sessions follow one another and activity never goes back |
| `study_overlap` | as `study_races` | two starts in flight open two sessions (`domain/session.rs:110` says never) |
| `review_races` | 2 cards, 2 commands, 2 instants, grades again and easy | card and log agree; without crossing grades the card is the replay of its whole log; the sitting is never out of range |
| `review_retry` | 1 command, intervals up to 2 | a lost acknowledgement and a retry grade a card twice (`specs/memoria-slice/requirements.md:12` says not) |
| `queue_rules` | 3 chunks of a known track and 1 of an unknown one, stale after 2, instants 0 to 3, overrides to the middle of the track, to another track or none | the rules, on all reachable tables, and the separate reads of a query against study commands, whatever instants they write, and settings |
| `queue_vanish` | as `queue_rules` | a started chunk vanishes behind a fresher one (`domain/queue.rs:100` says never) |
| `queue_override` | as `queue_rules` | finishing the chunk an override names brings earlier ones back (`domain/queue.rs:106` says they are past) |
| `index_races` | 2 folders with one leading number, 1 video, 2 instants | reindexing covers the vault, is idempotent and keeps progress and its instants |
| `index_shift` | 3 folders and a video | adding a folder before an indexed one makes the reindex fail (`specs/queue-slice/requirements.md:14` says it completes) |
| `settings_saves` | 1 migration, the vault path, 1 known track and 1 row of a track not known any more, 1 text, 2 commands | a save that fails anywhere has written a first part of its keys; one answered "saved" wrote them all; only edited fields change |
| `home_session` | 2 chunks of one track, 2 commands, 1 queue load, 3 instants, stale after 1, 2 sessions | once all is answered the open session is on the screen with its Stop button, and no other; the screen never waits for nothing; the commands write chunk rows as DailyQueue has them written |

Why the bounds are enough. The races of the study loop and of the review are
between two commands on one row; a third slot repeats them, and a second chunk
or card shows independence. Two instants give "before" and "after" a write. In
the queue three chunks of a track give stale, frontier and next at once, and
with the boundary at two, instants 0 to 3 have a chunk just before it, at it
and past it, next to one touched later. In
the indexer two folders are enough to collide, and to shift an enumeration by
one. In the settings one text and the blank are what a key can be told apart by.
On the Home screen two commands are what an answer and a click need to cross,
and three instants make a chunk started first stale while the second is studied;
one load and two chunks of one track are what fits, and are too few for a load
to take a started chunk off the list (see below). These are arguments about the
instances; the theorems below need no bound.

Four runs restrict what they look at:

* `index_races` edits the vault only between commands: an edit changes nothing
  but what the next scan finds, and the scan is one step.
* `queue_rules` keeps one instant for the chunk that is alone in its track, and
  has a query in flight only over tables where one chunk's instants vary
  (`SmallTables`): a query writes nothing but its own answer, so no state of the
  tables is lost, and what its reads can straddle (a start, a completion older
  or newer than the query, an override set or lifted, the stale boundary) fits
  in them.
* `settings_saves` starts with the row of the unknown track there, wherever the
  table is (`LegacyStored`): nothing in the program writes such a row.
* `home_session` stops at a state of doubt (`Sure`), about which its properties
  say nothing. Doubt ends with the next mount; the tables that mount finds are
  also reached by leaving the screen right after the same commit.

Fairness. None is assumed and no liveness property is stated. A handler is a
fixed list of awaited statements with no loop, wait or retry of its own
(`try_state` refuses at once when there is no pool), so that it is answered
would be the fairness assumed of its awaits and nothing else. What can be left
waiting is the screen, and there the statement that matters is a safety
property: `LoadingIsUnderWay`, whenever the screen says Loading a load is on its
way.

Deadlock is checked in every run.

What the models found out that no run states:

* Completing the chunk being studied clears the active session on the screen
  while the session stays open (`src/screens/Home.tsx:81`). The chunk leaves the
  queue, so after a remount no Stop is offered and, the session being known
  again, every Start is disabled, although `presentation/session.rs:86` says
  the command is there so that the UI can offer resume or stop after a restart.
  `OpenSessionCanBeStopped` leaves this case out with `status # "done"`.
* The first render's question about the open session may be answered after a
  start and a stop: the screen then shows a session that is closed. Likewise a
  completion clears the session of its closure's render, also when a newer one
  was started since. These crossings are the `doubt` of HomeScreen.
* A queue read before a start and shown after it, or asked for while the start
  is in flight, may lack the chunk just started: the screen knows the session
  but has no row to put its Stop button in. This takes a chunk that is not on
  the list while its track has a frontier, hence three chunks, two of them
  started before, and came out of the proof of `OpenSessionCanBeStopped`, which
  the run's two chunks had let through. It is one of the crossings of `doubt`.
* The error screen has no retry: only a remount or the answer of a load still
  under way takes it away.
* `lib.rs:29` says the pool is managed only once the migrations succeed; the
  code prints their failure and manages it anyway. `SavesApplyInOrder` shows
  that a save answered "saved" found its table all the same.

## The proofs

The theorems hold for every value of the constants that meets the named
assumptions, however many chunks, cards, folders, commands or instants.

**Study loop** (`StudyLoop_proofs`; assumes finitely many command slots,
`CallsAssumption`, that "no chunk" is none, `ChunksAssumption`, and numbers as
bounds, `BoundsAssumption`).

* `TypeCorrect`, `StagesAgree`, `StudiedStaysStudied`, `AnswersAreTrue` - the
  state invariants;
* `FinishedForGood`, `RecordIsAppendOnly` - the action properties;
* `OverlapBounded` - open sessions plus starts past their check never outnumber
  the slots, and so `OneAtATime` - with one slot at most one session is open;
* `SerialSittings`, `SerialActivity` - with one slot sittings follow one another
  and activity never goes back.

`TablesInv` strengthens the type invariant with the pairing of `stages` and
`sessions` row by row and with what a call in its write step remembers (`stop`
has the id of an existing session). It is needed because
`StudiedChunkKeepsProgress` speaks of stage rows while the commands update
session rows, and because `StopWrite` applies to the session read earlier.
`TablesInvariant` is proved by one step per action; the others follow from it,
with a counting lemma per action for `OverlapBounded` (a start past its check
trades its slot for the session it opens) and a lemma per action for
`AnswersAreTrue` (an answer stays true until it is taken because no command
removes a session, moves its start or rewrites the end of a closed one). The
two serial theorems rest on `SerialInv`: nothing in the tables is later than the
clock, nor than the instant the one command in flight has read, and a start past
its check still finds nothing open.

**Refinement** (`StudyRefinement_proofs`). `TablesImplementRecord`: the tables,
read as a log of sittings (`Log`) and a set of finished chunks, are a
StudyRecord with `Overlap` the number of slots. `StartBegins`, `StopEnds`,
`CompletionFinishes` and `IndexSeeds` each map one transaction to a step of the
record, every other step leaves `Log` and `Finished` alone; `OverlapBound`
gives `Begin` its guard.

**Review** (`MemoriaReview_proofs`; `CardsAssumption`, `CallsAssumption`,
`GradesAssumption`, `BoundsAssumption`: a batch limit of 1 to 100 as the
service clamps it). `ReviewTypes`, `CardsReflectReviews`, `CurationGate`,
`SittingAlwaysShows`, `GradesAtomic`, `LogTellsAll`. `CardReflectsAReview` is
not inductive: a grade writes what an earlier read returned. `ReviewInv` adds
what a call carries: the card it read is kept and counts no more reviews than
the log; every batch, the one on the screen and those in closures and answers,
is in range and of kept cards. `LogTellsAll` says that the log of a card whose
grades never crossed replays to the card. Its invariant `UncrossedInv` adds
that such a card has one grade in flight at most, entered no earlier than its
last review, and that what the grade read still holds when it writes; `UNIQUE`
makes "no earlier" "later", so the new row is the last one (`ReplayOneMore`).
That a replay is settled by the rows before an instant (`ReplayAgrees`) and
rests where there are none (`ReplayRests`) is shown at the least instant where
it would fail.

**Daily queue** (`DailyQueue_proofs` over `Enumeration_proofs`; finitely many
chunks with a place in the course, `ChunksAssumption`, of distinct places
within a track, `UniqueOrd`, as `UNIQUE (source_id, ord)` has it; each
track once in the lists of tracks, `TracksAssumption`; overrides that name a
chunk or none, `OverridesAssumption`; a stale limit of at least one instant,
`TimeAssumption`). `QueueTypes`, `NoneStarves`, `StaleLead`, `HidesOnlyOlder`,
`AnswersKeepUp`, `NextNeverFallsBack`. A sorted set is an
enumeration by rank, so `InOrderSorts`, `KeptInPlace` and `KeptKeeps` follow
from counting what comes before an element. `TrackItems` is then three lists
joined (the stale, the frontier, the next), of which each rule is a statement.
`QueueInv` adds to the types what a query has in hand: a chunk that was done
when it was asked is done in the rows it read, and a chunk that is open now was
open in them, because no command reopens a finished row, whatever instant it
writes. `AnswersKeepUp` needs both: once the answer is made, only completions
can happen to the chunks it was made of.

**Indexer** (`Indexer_proofs`; `DirsAssumption`, `TimeAssumption`).
`IndexTypes`, `ScanOrds`, `IndexCovers`,
`ProgressKept`, `ActivityKept`, `RerunChangesNothing`. `ScanOrds` rests on a
counting argument: enumerated siblings have different numbers of siblings up to
them. `IndexInv` says of a running transaction that the rows it sees are
distinct by place, that the written ones are as the scan found them and agree
with the rows they lock, and of an index that is up to date that it covers the
vault. It is needed because the table is only ever replaced at `Commit`, by
rows written many steps earlier.

**Settings** (`SettingsScreen_proofs`; at least one migration,
`MigrationsAssumption`; tracks in a list that has the known ones,
`EntriesAssumption`; texts that are neither blank nor the mark of a missing
row, `TextsAssumption`; `SettingsCallsAssumption`). `SettingsTypes`,
`SavesInOrder`, `OnlyEditsChange`. `SettingsInv` says how far each save has
come and, until two commands cross, that screen, command and store differ in
what the user edited and in nothing else: the store is what it was before the
save with the first keys written. It is needed because a save writes the form
as it was at the click, many statements after the store was last read.

**Home screen** (`HomeScreen_proofs`; `LoadsAssumption`, those of StudyLoop,
and those of DailyQueue for the rules it lists by, `RulesAssumption`). Every
step of the composition is a step of StudyLoop (`HomeStepIsStudyStep`), so
`HomeKeepsTables` and `HomeKeepsStages` hold behind the screen;
`NeverLeftWaiting` proves `LoadingIsUnderWay`. `RowsFollow` proves
`RowsFollowDailyQueue`: with the commands' instants no later than the clock
(`EnteredByNow`) every step is one of DailyQueue's or leaves its variables
alone, so what is proved of the rules holds of the lists here. `HomeTypes`, `NoGhosts` and
`SessionCanBeStopped` follow from `HomeInv`, which says what is true while
answers are on their way: with no overlapping starts the session that is open
is the only one and its chunk the one touched last (`StartsApart`), hence on
every list the rules make of the tables (`DailyQueue_proofs`, instantiated);
and on a screen without doubt (`Oriented`), the session believed in is open or
a stop of it is about to be answered, the open one is believed in or an answer
that names it is coming, a completion clears only the session that is open, and
every list that is shown or on its way has its chunk. Each crossing that
`doubt` names is a step that would break one of these.

Only model-checked: the five documented promises the code does not keep, which
TLC refutes.

The library's induction over the naturals takes an operator as a parameter,
which no installed prover instantiates; where a proof needs induction it takes
the least counterexample instead (`LeastNumber`).

## Not modelled

* AnkiConnect (`domain/anki.rs`, `infrastructure/anki_connect.rs`): no command
  calls it since slice 0.2.
* `infrastructure/specta.rs` and `src/bindings.ts`: generated bindings.
* Titles and path formatting in `vault_fs.rs`: text no rule reads.
* FSRS memory parameters: floating point inside an external library.
* Two reindexes at once: no screen starts even one, and a transaction that
  Postgres aborts leaves nothing behind, which is `Fail`.
* The Home screen before or during a reindex and with position overrides:
  HomeScreen starts from an indexed vault with every chunk queued; Indexer and
  DailyQueue have the rest on their own.
* `scripts/`, tests, CI, documentation.

## Plan

1. Two reindexes in flight with row locks.
2. The queue's rules as one theorem about `BuildQueue` for any table, and the
   Home screen with position overrides.
3. A step per statement inside the transactions, with what other connections
   see meanwhile.
