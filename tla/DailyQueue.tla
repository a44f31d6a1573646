----------------------------- MODULE DailyQueue -----------------------------
(* The daily queue: the rules that pick, per track, the stale chunks, the    *)
(* chunk last studied and the next new one, and the get_queue command that   *)
(* applies them to three separate reads while the study loop and the         *)
(* settings screen keep writing.                                             *)
(*                                                                           *)
(* Of the study loop only its writes to the chunk rows appear here, one step *)
(* each, whatever commands overlap: StudyLoop has the commands behind them.  *)
EXTENDS Integers, Sequences, FiniteSets, Functions, Enumeration

CONSTANTS
    Chunks,         \* chunk ids
    Track,          \* the track of each chunk
    Ord,            \* its place in the course order
    Canonical,      \* TRACKS, the rotation order of the known tracks
    Alphabetical,   \* every track name in use, in alphabetical order
    Overrides,      \* the texts a user may store as a track's position
    StaleAfter,     \* STALE_AFTER_DAYS
    MaxTime         \* bound: the clock stops here

ASSUME ChunksAssumption ==
    /\ Chunks \subseteq Nat \ {0} /\ IsFiniteSet(Chunks)
    /\ Ord \in [Chunks -> Int] /\ DOMAIN Track = Chunks
    /\ \A k \in Chunks : Track[k] \in Range(Alphabetical)
ASSUME TracksAssumption ==
    /\ Canonical \in Seq(Range(Canonical)) /\ IsInjective(Canonical)
    /\ Alphabetical \in Seq(Range(Alphabetical)) /\ IsInjective(Alphabetical)
ASSUME OverridesAssumption == Overrides \subseteq Chunks \union {0}
ASSUME UniqueOrd ==
    \A j, k \in Chunks : Track[j] = Track[k] /\ Ord[j] = Ord[k] => j = k
ASSUME TimeAssumption == StaleAfter \in Nat \ {0} /\ MaxTime \in Nat

VARIABLES
    chunks,         \* table chunks: status and updated_at
    position,       \* table app_settings: the override of each track
    query,          \* the get_queue command in flight
    clock

queueVars == <<chunks, position, query, clock>>

Nowhere == 0        \* no override, or a vault path that is no chunk's

Tracks == {Track[k] : k \in Chunks}
Known == Range(Canonical)
Time == 0..MaxTime
Row == [status : {"queued", "in_progress", "done"}, updatedAt : Time]

-----------------------------------------------------------------------------
(* The rules. *)

(* ORDER BY c.ord, c.id within a track.                                      *)
Earlier(j, k) == Ord[j] < Ord[k] \/ (Ord[j] = Ord[k] /\ j < k)

Open(row) == row.status \in {"queued", "in_progress"}

(* Mutant: stale only after more than the 14 days. *)
IsStaleLate(row, now) ==
    row.status = "in_progress" /\ now - row.updatedAt > StaleAfter

IsStale(row, now) ==
    row.status = "in_progress" /\ now - row.updatedAt >= StaleAfter

Candidates(rows, t) == {k \in Chunks : Track[k] = t /\ Open(rows[k])}

(* At or after the override; an override that is no candidate is ignored.    *)
Eligible(cand, at) == {k \in cand : at \in cand => Ord[k] >= Ord[at]}

(* Mutant: stale chunks left in course order. *)
StaleInCourseOrder(rows, elig, now) ==
    LET stale == {k \in elig : IsStale(rows[k], now)}
    IN  InOrder(stale, {p \in stale \X stale : Earlier(p[1], p[2])})

(* Touched before, or at the same instant and before it in the course.       *)
OlderThan(rows, j, k) ==
    \/ rows[j].updatedAt < rows[k].updatedAt
    \/ rows[j].updatedAt = rows[k].updatedAt /\ Earlier(j, k)

(* Most neglected first; rows of one instant keep the course order.          *)
StaleItems(rows, elig, now) ==
    LET stale == {k \in elig : IsStale(rows[k], now)}
    IN  InOrder(stale, {p \in stale \X stale : OlderThan(rows, p[1], p[2])})

(* max_by_key: the freshest chunk in progress, the last of equals.           *)
CurrentItem(rows, elig, now) ==
    LET fresh == {k \in elig : rows[k].status = "in_progress"
                               /\ ~IsStale(rows[k], now)}
    IN  AtMostOne({k \in fresh : \A j \in fresh \ {k} : OlderThan(rows, j, k)})

(* Mutant: max_by_key for min_by_key. *)
NextLast(rows, elig) ==
    LET new == {k \in elig : rows[k].status = "queued"}
    IN  AtMostOne({k \in new : \A j \in new \ {k} : Earlier(j, k)})

(* min_by_key: the first new chunk in course order.                          *)
NextItem(rows, elig) ==
    LET new == {k \in elig : rows[k].status = "queued"}
    IN  AtMostOne({k \in new : \A j \in new \ {k} : Earlier(k, j)})

TrackItems(rows, t, at, now) ==
    LET elig == Eligible(Candidates(rows, t), at)
        flag(ks, stale) ==
            [i \in DOMAIN ks |-> [chunk |-> ks[i], stale |-> stale]]
    IN  flag(StaleItems(rows, elig, now), TRUE)
            \o flag(CurrentItem(rows, elig, now), FALSE)
            \o flag(NextItem(rows, elig), FALSE)

(* Mutant: only the tracks the code knows. *)
RotationOfKnown(seen) == Kept(Canonical, seen)

RotationOrder(seen) == Kept(Canonical, seen) \o Kept(Alphabetical, seen \ Known)

BuildQueue(rows, at, now) ==
    LET seen == {t \in Tracks : Candidates(rows, t) # {}}
        order == RotationOrder(seen)
        sections == [i \in DOMAIN order |->
            [track |-> order[i],
             items |-> TrackItems(rows, order[i], at[order[i]], now)]]
    IN  Kept(sections, {s \in Range(sections) : s.items # <<>>})

-----------------------------------------------------------------------------

(* past is a history: the chunks that were done when the command was entered.*)
NoQuery == [pc |-> "idle", now |-> 0, past |-> {}, rows |-> <<>>,
            answer |-> <<>>]

Init ==
    /\ chunks = [k \in Chunks |-> [status |-> "queued", updatedAt |-> 0]]
    /\ position = [t \in Tracks |-> Nowhere]
    /\ query = NoQuery
    /\ clock = 0

(* The statement of a study command commits.  The instant it writes was read *)
(* when the command was entered, so it may be older than what other commands *)
(* have written since, and than the instant of a query that has already      *)
(* read the row.                                                             *)
Touch(k, status) ==
    /\ \E at \in 0..clock :
          chunks' = [chunks EXCEPT ![k] = [status |-> status, updatedAt |-> at]]
    /\ UNCHANGED <<position, query, clock>>

(* start_session found no session open, at some moment before this one.      *)
Start(k) == chunks[k].status # "done" /\ Touch(k, "in_progress")

(* Mutant: a status the schema does not know. *)
CompleteMisnamed(k) == Touch(k, "completed")

Complete(k) == Touch(k, "done")

(* The settings screen stores or clears a track's override: any text, so     *)
(* possibly a chunk of another track or of none (Nowhere).  Tracks that are  *)
(* not TRACKS are refused.                                                   *)
SetPosition(t, at) ==
    /\ t \in Known
    /\ position' = [position EXCEPT ![t] = at]
    /\ UNCHANGED <<chunks, query, clock>>

-----------------------------------------------------------------------------
(* get_queue: the clock, the chunks, the settings, the due count. *)

GetQueue ==
    /\ query.pc = "idle"
    /\ query' = [NoQuery EXCEPT !.pc = "chunks", !.now = clock,
                    !.past = {k \in Chunks : chunks[k].status = "done"}]
    /\ UNCHANGED <<chunks, position, clock>>

(* Mutant: unwrap_or_default, a failed read taken for an empty list. *)
ReadChunksOrNone ==
    /\ query.pc = "chunks"
    /\ \E rows \in {chunks, [k \in Chunks |-> [chunks[k] EXCEPT !.status = "done"]]} :
          query' = [query EXCEPT !.pc = "settings", !.rows = rows]
    /\ UNCHANGED <<chunks, position, clock>>

ReadChunks ==
    /\ query.pc = "chunks"
    /\ query' = [query EXCEPT !.pc = "settings", !.rows = chunks]
    /\ UNCHANGED <<chunks, position, clock>>

(* The settings are the last thing the answer depends on.                    *)
ReadSettings ==
    /\ query.pc = "settings"
    /\ query' = [query EXCEPT !.pc = "due", !.rows = <<>>,
                    !.answer = BuildQueue(query.rows, position, query.now)]
    /\ UNCHANGED <<chunks, position, clock>>

ReadDue ==
    /\ query.pc = "due"
    /\ query' = [query EXCEPT !.pc = "answered"]
    /\ UNCHANGED <<chunks, position, clock>>

(* Any of the three reads may fail: then there is no answer at all.          *)
QueryFails ==
    /\ query.pc \in {"chunks", "settings", "due"}
    /\ query' = NoQuery
    /\ UNCHANGED <<chunks, position, clock>>

Deliver ==
    /\ query.pc = "answered"
    /\ query' = NoQuery
    /\ UNCHANGED <<chunks, position, clock>>

Tick ==
    /\ clock < MaxTime
    /\ clock' = clock + 1
    /\ UNCHANGED <<chunks, position, query>>

Next ==
    \/ \E k \in Chunks : Start(k) \/ Complete(k)
    \/ \E t \in Tracks, at \in Overrides : SetPosition(t, at)
    \/ GetQueue \/ ReadChunks \/ ReadSettings \/ ReadDue
    \/ QueryFails \/ Deliver
    \/ Tick

Spec == Init /\ [][Next]_queueVars

-----------------------------------------------------------------------------
(* Properties.  "The queue" below is the answer of the tables as they are.   *)

Items(t) == TrackItems(chunks, t, position[t], clock)
Shown(t) == LET items == Items(t) IN {items[i].chunk : i \in DOMAIN items}
InTrack(t) == {k \in Chunks : Track[k] = t}

(* A chunk of the track that the override does not put in the past.          *)
AtOrAfterPosition(k) ==
    LET at == position[Track[k]] IN
    at \in InTrack(Track[k]) /\ Open(chunks[at]) => Ord[at] <= Ord[k]

(* Every row, override and the query has its type.                           *)
TypeOK ==
    /\ chunks \in [Chunks -> Row]
    /\ position \in [Tracks -> Overrides \union {Nowhere}]
    /\ query.pc \in {"idle", "chunks", "settings", "due", "answered"}
    /\ query.now \in Time /\ query.past \subseteq Chunks
    /\ query.answer \in Seq([track : Tracks,
                             items : Seq([chunk : Chunks, stale : BOOLEAN])])
    /\ clock \in Time

(* No track starves: a track with an unfinished chunk at or after its        *)
(* override has exactly one section, and nothing else has one (domain/       *)
(* queue.rs rotation_order, build_queue).                                    *)
NoTrackStarves ==
    LET answer == BuildQueue(chunks, position, clock) IN
    \A t \in Tracks :
        Cardinality({i \in DOMAIN answer : answer[i].track = t}) =
            IF \E k \in InTrack(t) : Open(chunks[k]) /\ AtOrAfterPosition(k)
            THEN 1 ELSE 0

(* A section lists its stale chunks first, the most neglected first, then    *)
(* chunks that are not stale, none twice and none finished.                  *)
StaleComeFirst ==
    \A t \in Tracks :
        LET items == Items(t)
            updated(i) == chunks[items[i].chunk].updatedAt
        IN  \A i, j \in DOMAIN items : i < j =>
                /\ items[i].chunk # items[j].chunk
                /\ items[j].stale => items[i].stale /\ updated(i) <= updated(j)

(* A started chunk is hidden only behind one touched no earlier, and only    *)
(* until it is stale.                                                        *)
HiddenOnlyBehindFresher ==
    \A k \in Chunks :
        LET t == Track[k] IN
        chunks[k].status = "in_progress" /\ AtOrAfterPosition(k)
            /\ k \notin Shown(t)
        => /\ clock - chunks[k].updatedAt < StaleAfter
           /\ \E j \in Shown(t) :
                 /\ chunks[j].status = "in_progress"
                 /\ chunks[j].updatedAt >= chunks[k].updatedAt

NextNew(t) ==
    Range(NextItem(chunks, Eligible(Candidates(chunks, t), position[t])))

(* Studying moves a track forward: unless its override changes or comes to   *)
(* point at a finished chunk, the next new chunk never falls back.           *)
NextMovesForward ==
    [][\A t \in Tracks :
          LET at == position[t] IN
          position'[t] = at /\ (at \in InTrack(t) /\ Open(chunks[at])
                                   => Open(chunks'[at]))
          => \A j \in NextNew(t), k \in NextNew(t)' : Ord[j] <= Ord[k]
      ]_<<chunks, position>>

(* An answer put together from three reads, among commands that commit in    *)
(* any order, still misses no work and lists no old work: as long as it is   *)
(* on its way, every track that has an unfinished chunk has a section in it, *)
(* and nothing in it was finished when it was asked for (application/        *)
(* queue.rs build_daily_queue, which fails whole or not at all).             *)
AnswerMissesNoWork ==
    query.pc \in {"due", "answered"} =>
        LET sections == Range(query.answer) IN
        /\ \A t \in Tracks :
              Candidates(chunks, t) # {} => \E s \in sections : s.track = t
        /\ \A s \in sections : \A i \in DOMAIN s.items :
              s.items[i].chunk \notin query.past

(* The documented promise (domain/queue.rs:100): a started but unfinished    *)
(* chunk never vanishes from the answer.                                     *)
StartedNeverVanishes ==
    \A k \in Chunks :
        chunks[k].status = "in_progress" /\ AtOrAfterPosition(k)
        => k \in Shown(Track[k])

(* The documented promise (domain/queue.rs:105): everything strictly before  *)
(* the override is past even when its status says otherwise.                 *)
BeforePositionIsPast ==
    \A t \in Tracks :
        position[t] \in InTrack(t) =>
            \A k \in Shown(t) : Ord[k] >= Ord[position[t]]
=============================================================================
