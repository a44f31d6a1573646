----------------------------- MODULE StudyLoop -----------------------------
(* The study loop: the commands start_session, stop_session, complete_chunk, *)
(* get_active_session and reindex, running concurrently over the tables      *)
(* chunks, sessions and session_stages.                                      *)
(*                                                                           *)
(* Every Tauri command is an async task; it awaits the database one or two   *)
(* times, and between two awaits any other command may run.  A transaction   *)
(* is one atomic step: the transactions of the loop either touch one chunk   *)
(* row or one session row under its row lock, or (reindex) upsert chunk rows *)
(* independently of one another, so Postgres' READ COMMITTED serialises them *)
(* in commit order.                                                          *)
EXTENDS Integers, Sequences, FiniteSets

CONSTANTS
    Chunks,         \* the session directories and videos of the vault
    Calls,          \* command slots: how many commands may be in flight
    NoChunk,        \* the argument of a command that takes none
    MaxTime,        \* bound: the clock stops here
    MaxSessions     \* bound: starts are issued while fewer rows than this exist

ASSUME CallsAssumption == IsFiniteSet(Calls)
ASSUME ChunksAssumption == NoChunk \notin Chunks
ASSUME BoundsAssumption == MaxTime \in Nat /\ MaxSessions \in Nat

VARIABLES
    chunks,         \* table chunks: status and updated_at of each row
    sessions,       \* table sessions: the row with id i is sessions[i]
    stages,         \* table session_stages, in insertion order
    calls,          \* the command each slot is running
    clock           \* Utc::now(), and now() of the database on the same host

studyVars == <<chunks, sessions, stages, calls, clock>>

Null == -1          \* SQL NULL in an id or time column, None in the code

Time == 0..MaxTime
Status == {"absent", "queued", "in_progress", "done"}
Op == {"start", "stop", "complete", "active", "reindex"}
Reply == {"none", "ok", "invalid", "dberror"}

Session == [startedAt : Time, endedAt : Time \union {Null}]
Stage == [session : Nat, chunk : Chunks,
          startedAt : Time, endedAt : Time \union {Null}]
Call == [op : Op, pc : {"idle", "read", "write", "replied"},
         chunk : Chunks \union {NoChunk},   \* the argument
         at : Time,                         \* Utc::now() at the command's entry
         target : Nat \union {Null},        \* the session read, then answered
         reply : Reply]

Idle == [op |-> "active", pc |-> "idle", chunk |-> NoChunk, at |-> 0,
         target |-> Null, reply |-> "none"]

-----------------------------------------------------------------------------

Init ==
    /\ chunks = [k \in Chunks |-> [status |-> "absent", updatedAt |-> 0]]
    /\ sessions = <<>>
    /\ stages = <<>>
    /\ calls = [c \in Calls |-> Idle]
    /\ clock = 0

(* The result set of open_session before ORDER BY and LIMIT: session and     *)
(* open stage row, joined.                                                   *)
OpenRows ==
    {s \in DOMAIN sessions :
        /\ sessions[s].endedAt = Null
        /\ \E g \in DOMAIN stages :
              stages[g].session = s /\ stages[g].endedAt = Null}

(* ORDER BY s.id DESC LIMIT 1. *)
LatestOpen(s) == s \in OpenRows /\ \A t \in OpenRows : t <= s

At(c, op, pc) == calls[c].op = op /\ calls[c].pc = pc

StartsInFlight ==
    {c \in Calls : calls[c].op = "start" /\ calls[c].pc \in {"read", "write"}}

Answer(c, reply, s) ==
    calls' = [calls EXCEPT ![c] =
        [@ EXCEPT !.pc = "replied", !.reply = reply, !.target = s]]

(* The transaction committed; its acknowledgement may still be lost. *)
Committed(c, s) ==
    Answer(c, "ok", s) \/ Answer(c, "dberror", Null)

Tables == <<chunks, sessions, stages>>

-----------------------------------------------------------------------------
(* A command begins: the handler reads the clock, then calls the service. *)

Invoke(c, op, pc, k, at) ==
    /\ calls[c].pc = "idle"
    /\ calls' = [calls EXCEPT ![c] =
           [op |-> op, pc |-> pc, chunk |-> k, at |-> at,
            target |-> Null, reply |-> "none"]]
    /\ UNCHANGED <<Tables, clock>>

InvokeStart(c, k) ==
    /\ Len(sessions) + Cardinality(StartsInFlight) < MaxSessions
    /\ Invoke(c, "start", "read", k, clock)

InvokeStop(c) == Invoke(c, "stop", "read", NoChunk, clock)
(* Mutant: the handler forgets to read the clock. *)
InvokeCompleteUndated(c, k) == Invoke(c, "complete", "write", k, 0)

InvokeComplete(c, k) == Invoke(c, "complete", "write", k, clock)
InvokeActive(c) == Invoke(c, "active", "read", NoChunk, 0)
InvokeReindex(c) == Invoke(c, "reindex", "write", NoChunk, 0)

-----------------------------------------------------------------------------
(* start_session: one read, then one transaction. *)

(* Mutant: no check for an open session before the insert. *)
StartUnchecked(c) ==
    /\ At(c, "start", "read")
    /\ calls' = [calls EXCEPT ![c].pc = "write"]
    /\ UNCHANGED <<Tables, clock>>

StartRead(c) ==
    /\ At(c, "start", "read")
    /\ IF OpenRows # {}
       THEN Answer(c, "invalid", Null)
       ELSE calls' = [calls EXCEPT ![c].pc = "write"]
    /\ UNCHANGED <<Tables, clock>>

(* Mutant: the UPDATE without AND status <> 'done'. *)
StartableAnyRow(k) == chunks[k].status # "absent"

Startable(k) == chunks[k].status \notin {"absent", "done"}

StartRefused(c) ==
    /\ At(c, "start", "write")
    /\ ~Startable(calls[c].chunk)
    /\ Answer(c, "invalid", Null)
    /\ UNCHANGED <<Tables, clock>>

StartWrite(c) ==
    LET k == calls[c].chunk
        now == calls[c].at
        id == Len(sessions) + 1
    IN  /\ At(c, "start", "write")
        /\ Startable(k)
        /\ chunks' = [chunks EXCEPT ![k] =
                         [status |-> "in_progress", updatedAt |-> now]]
        /\ sessions' = Append(sessions, [startedAt |-> now, endedAt |-> Null])
        /\ stages' = Append(stages, [session |-> id, chunk |-> k,
                                     startedAt |-> now, endedAt |-> Null])
        /\ Committed(c, id)
        /\ UNCHANGED clock

-----------------------------------------------------------------------------
(* stop_session: one read, then one transaction. *)

StopRead(c) ==
    /\ At(c, "stop", "read")
    /\ \/ OpenRows = {} /\ Answer(c, "invalid", Null)
       \/ \E s \in OpenRows :
             /\ LatestOpen(s)
             /\ calls' = [calls EXCEPT ![c] =
                             [@ EXCEPT !.pc = "write", !.target = s]]
    /\ UNCHANGED <<Tables, clock>>

(* Mutant: the UPDATE without AND ended_at IS NULL. *)
ClosableAlways(s) == TRUE

(* WHERE id = $1 AND ended_at IS NULL *)
Closable(s) == sessions[s].endedAt = Null

StopRefused(c) ==
    /\ At(c, "stop", "write")
    /\ ~Closable(calls[c].target)
    /\ Answer(c, "invalid", Null)
    /\ UNCHANGED <<Tables, clock>>

(* Mutant: the session is closed, its stage row forgotten. *)
StagesLeftOpen(s, now) == stages

CloseStages(s, now) ==
    [g \in DOMAIN stages |->
        IF stages[g].session = s /\ stages[g].endedAt = Null
        THEN [stages[g] EXCEPT !.endedAt = now]
        ELSE stages[g]]

StopWrite(c) ==
    LET s == calls[c].target
        now == calls[c].at
    IN  /\ At(c, "stop", "write")
        /\ Closable(s)
        /\ sessions' = [sessions EXCEPT ![s].endedAt = now]
        /\ stages' = CloseStages(s, now)
        /\ Committed(c, s)
        /\ UNCHANGED <<chunks, clock>>

-----------------------------------------------------------------------------
(* complete_chunk: one statement; any existing row becomes done. *)

CompleteRefused(c) ==
    /\ At(c, "complete", "write")
    /\ chunks[calls[c].chunk].status = "absent"
    /\ Answer(c, "invalid", Null)
    /\ UNCHANGED <<Tables, clock>>

CompleteWrite(c) ==
    /\ At(c, "complete", "write")
    /\ chunks[calls[c].chunk].status # "absent"
    /\ chunks' = [chunks EXCEPT ![calls[c].chunk] =
                     [status |-> "done", updatedAt |-> calls[c].at]]
    /\ Committed(c, Null)
    /\ UNCHANGED <<sessions, stages, clock>>

-----------------------------------------------------------------------------
(* get_active_session: one read. *)

ActiveRead(c) ==
    /\ At(c, "active", "read")
    /\ \/ OpenRows = {} /\ Answer(c, "ok", Null)
       \/ \E s \in OpenRows : LatestOpen(s) /\ Answer(c, "ok", s)
    /\ UNCHANGED <<Tables, clock>>

-----------------------------------------------------------------------------
(* reindex: the scan found these session directories, and these of them have *)
(* a scope.md with every item checked; one transaction upserts them all.     *)

Seeded(k, finished) == IF k \in finished THEN "done" ELSE "queued"

(* Mutants of the upsert: the status always taken from the scan, ... *)
UpsertedAnyway(k, finished) ==
    [status |-> Seeded(k, finished), updatedAt |-> clock]

(* ... a started chunk advanced like a queued one, ... *)
UpsertedOverStarted(k, finished) ==
    IF chunks[k].status # "done" /\ (chunks[k].status = "absent" \/ k \in finished)
    THEN [status |-> Seeded(k, finished), updatedAt |-> clock]
    ELSE chunks[k]

(* ... a new row without the DEFAULT now(). *)
UpsertedUndated(k, finished) ==
    IF chunks[k].status = "absent"
    THEN [status |-> Seeded(k, finished), updatedAt |-> Null]
    ELSE chunks[k]

Upserted(k, finished) ==
    LET old == chunks[k] IN
    CASE old.status = "absent" ->
            [status |-> Seeded(k, finished), updatedAt |-> clock]
      [] old.status = "queued" /\ k \in finished ->
            [status |-> "done", updatedAt |-> clock]
      [] OTHER -> old

IndexWrite(c) ==
    /\ At(c, "reindex", "write")
    /\ \E found \in SUBSET Chunks : \E finished \in SUBSET found :
          chunks' = [k \in Chunks |->
                        IF k \in found THEN Upserted(k, finished)
                                       ELSE chunks[k]]
    /\ Committed(c, Null)
    /\ UNCHANGED <<sessions, stages, clock>>

-----------------------------------------------------------------------------

(* An await fails and leaves nothing behind: no connection within the        *)
(* acquire timeout, connection lost, or the transaction rolled back.         *)
Fail(c) ==
    /\ calls[c].pc \in {"read", "write"}
    /\ Answer(c, "dberror", Null)
    /\ UNCHANGED <<Tables, clock>>

(* The reply reaches the webview. *)
Return(c) ==
    /\ calls[c].pc = "replied"
    /\ calls' = [calls EXCEPT ![c] = Idle]
    /\ UNCHANGED <<Tables, clock>>

(* The app dies and is opened again: only the tables survive. *)
Crash ==
    /\ calls' = [c \in Calls |-> Idle]
    /\ UNCHANGED <<Tables, clock>>

Tick ==
    /\ clock < MaxTime
    /\ clock' = clock + 1
    /\ UNCHANGED <<Tables, calls>>

Work(c) ==
    \/ StartRead(c) \/ StartRefused(c) \/ StartWrite(c)
    \/ StopRead(c) \/ StopRefused(c) \/ StopWrite(c)
    \/ CompleteRefused(c) \/ CompleteWrite(c)
    \/ ActiveRead(c)
    \/ IndexWrite(c)

User(c) ==
    \/ \E k \in Chunks : InvokeStart(c, k) \/ InvokeComplete(c, k)
    \/ InvokeStop(c) \/ InvokeActive(c) \/ InvokeReindex(c)

Next ==
    \/ \E c \in Calls : User(c) \/ Work(c) \/ Fail(c) \/ Return(c)
    \/ Crash
    \/ Tick

Spec == Init /\ [][Next]_studyVars

-----------------------------------------------------------------------------
(* Properties. *)

(* Every table row, call record and the clock has its type.                  *)
TypeOK ==
    /\ chunks \in [Chunks -> [status : Status, updatedAt : Time]]
    /\ sessions \in Seq(Session)
    /\ stages \in Seq(Stage)
    /\ calls \in [Calls -> Call]
    /\ clock \in Time

OpenSessions == {s \in DOMAIN sessions : sessions[s].endedAt = Null}

(* The two tables tell one story: each session has exactly one stage row,    *)
(* opened and closed with it, so the JOIN of open_session hides no session   *)
(* whatever starts and stops raced (session_pg.rs insert_open_session,       *)
(* close_session, open_session).                                             *)
StagesMatchSessions ==
    /\ Len(stages) = Len(sessions)
    /\ \A s \in DOMAIN sessions :
          /\ stages[s].session = s
          /\ stages[s].startedAt = sessions[s].startedAt
          /\ stages[s].endedAt = sessions[s].endedAt

(* A chunk somebody has sat with is in progress or done: neither a re-index  *)
(* nor a command racing the start puts it back among the new ones, where the *)
(* queue would offer it as untouched (index_repo.rs upsert, session_pg.rs).  *)
StudiedChunkKeepsProgress ==
    \A g \in DOMAIN stages :
        chunks[stages[g].chunk].status \in {"in_progress", "done"}

StartsPastCheck == {c \in Calls : At(c, "start", "write")}

(* start_session checks and inserts in two steps.  What survives the races   *)
(* is this bound: sessions open and starts already past the check together   *)
(* never outnumber the commands in flight, so with one command at a time     *)
(* there is at most one open session (application/session.rs start_session). *)
OverlapBound ==
    Cardinality(OpenSessions) + Cardinality(StartsPastCheck)
        <= Cardinality(Calls)

(* A start or stop answered with success has happened, and the tables say so *)
(* when the answer is delivered: the session a start names is logged against *)
(* its chunk since that start's time, the session a stop names ended at that *)
(* stop's time, however many stops aimed at it.  Of the session an           *)
(* active-session answer names only its row is certain: it may have been     *)
(* closed since (application/session.rs start_session, stop_session).        *)
AnswersMatchTables ==
    \A c \in Calls :
        calls[c].pc = "replied" /\ calls[c].reply = "ok" /\ calls[c].target # Null
        => LET s == calls[c].target IN
           /\ s \in DOMAIN sessions
           /\ calls[c].op = "start" =>
                 /\ sessions[s].startedAt = calls[c].at
                 /\ stages[s].chunk = calls[c].chunk
           /\ calls[c].op = "stop" => sessions[s].endedAt = calls[c].at

(* A finished chunk stays finished: no start that read before the completion *)
(* and wrote after it, and no re-index, reopens it.                          *)
DoneIsFinal ==
    [][\A k \in Chunks :
          chunks[k].status = "done" => chunks'[k].status = "done"]_chunks

(* The record is append-only: no row disappears, a start never changes, and  *)
(* a session once closed keeps its end, also under a second stop that had    *)
(* read it while it was open (close_session's WHERE ended_at IS NULL).       *)
ClosedRowsFrozen ==
    [][\A s \in DOMAIN sessions :
          /\ s \in DOMAIN sessions'
          /\ sessions'[s].startedAt = sessions[s].startedAt
          /\ sessions[s].endedAt # Null
             => sessions'[s].endedAt = sessions[s].endedAt]_sessions

(* The study record of StudyRecord, read off the tables: as many sittings in *)
(* progress at once as there may be commands in flight, no more.             *)
Record == INSTANCE StudyRecord WITH
    Overlap <- Cardinality(Calls),
    log <- [s \in DOMAIN sessions |->
               [chunk |-> stages[s].chunk,
                from |-> sessions[s].startedAt,
                to |-> sessions[s].endedAt]],
    finished <- {k \in Chunks : chunks[k].status = "done"}

ImplementsRecord == Record!Spec

(* Commands one at a time leave a proper log: a session ends no earlier than *)
(* it starts, and the next starts only after it has ended, also when crashes *)
(* and lost acknowledgements made the user repeat a start or a stop.         *)
SittingsInOrder ==
    \A i \in DOMAIN sessions :
        /\ sessions[i].endedAt # Null
           => sessions[i].startedAt <= sessions[i].endedAt
        /\ \A j \in DOMAIN sessions : i < j =>
              /\ sessions[i].endedAt # Null
              /\ sessions[i].endedAt <= sessions[j].startedAt

(* Commands one at a time never turn a chunk's last activity back, which     *)
(* would make the queue call it stale too early (domain/queue.rs is_stale).  *)
UpdatedAtNeverRewinds ==
    [][\A k \in Chunks : chunks[k].updatedAt <= chunks'[k].updatedAt]_chunks

(* The documented promise (domain/session.rs:110): more than one open        *)
(* session is a state this slice never creates.                              *)
AtMostOneOpen == Cardinality(OpenSessions) <= 1
=============================================================================
