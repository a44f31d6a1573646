-------------------------- MODULE StudyLoop_proofs --------------------------
(* Proofs about StudyLoop, for every set of chunks, every finite set of      *)
(* command slots and every bound.                                            *)
EXTENDS StudyLoop, FiniteSetTheorems, TLAPS

(* What the type invariant leaves out and the handlers rely on: a start or a *)
(* completion carries a chunk, and a stop past its read names a logged       *)
(* session.                                                                  *)
CallsOK ==
    \A c \in Calls :
        /\ calls[c].op \in {"start", "complete"} => calls[c].chunk \in Chunks
        /\ At(c, "stop", "write") => calls[c].target \in DOMAIN sessions

(* The inductive invariant behind the safety theorems.  StagesMatchSessions  *)
(* alone is not inductive: a stop that named no logged session could close a *)
(* stage without its session; StudiedChunkKeepsProgress needs both.          *)
TablesInv ==
    /\ TypeOK
    /\ CallsOK
    /\ StagesMatchSessions
    /\ StudiedChunkKeepsProgress

(* Slot c has just been answered: nothing else about the calls has changed.  *)
Answered(c) ==
    /\ calls' \in [Calls -> Call]
    /\ calls'[c].pc = "replied"
    /\ calls'[c].op = calls[c].op
    /\ calls'[c].chunk = calls[c].chunk
    /\ calls'[c].at = calls[c].at
    /\ \A d \in Calls : d # c => calls'[d] = calls[d]

(* The rows of the two tables, one by one.                                   *)
LEMMA RowTypes ==
    ASSUME TypeOK
    PROVE  /\ Len(sessions) \in Nat /\ DOMAIN sessions = 1..Len(sessions)
           /\ sessions \in [1..Len(sessions) -> Session]
           /\ Len(stages) \in Nat /\ DOMAIN stages = 1..Len(stages)
           /\ \A g \in DOMAIN stages :
                 stages[g] \in Stage /\ stages[g].chunk \in Chunks
  <1>1. \A g \in DOMAIN stages : stages[g] \in Stage
    BY DEF TypeOK
  <1>2. \A g \in DOMAIN stages : stages[g].chunk \in Chunks
    BY <1>1 DEF Stage
  <1> QED
    BY <1>1, <1>2 DEF TypeOK

(* Answering a call changes only that call, and keeps it a call record.      *)
LEMMA AnswerAnswers ==
    ASSUME TypeOK, NEW c \in Calls, NEW r \in Reply,
           NEW s \in Nat \union {Null}, Answer(c, r, s)
    PROVE  Answered(c) /\ calls'[c].reply = r /\ calls'[c].target = s
  BY DEF TypeOK, Answer, Answered, Call

(* A command that has committed is answered, with or without its result.     *)
LEMMA CommittedAnswers ==
    ASSUME TypeOK, NEW c \in Calls, NEW s \in Nat \union {Null}, Committed(c, s)
    PROVE  /\ Answered(c)
           /\ calls'[c].reply = "ok" => calls'[c].target = s
  <1>1. CASE Answer(c, "ok", s)
    BY <1>1, AnswerAnswers DEF Reply
  <1>2. CASE Answer(c, "dberror", Null)
    BY <1>2, AnswerAnswers DEF Reply, Null
  <1> QED
    BY <1>1, <1>2 DEF Committed

(* The clock is always an instant a call may record.                         *)
LEMMA ZeroIsTime == 0 \in Time
  BY BoundsAssumption DEF Time

(* An answered call and a session table that only grows keep CallsOK.        *)
LEMMA AnsweredKeepsCallsOK ==
    ASSUME CallsOK, NEW c \in Calls, Answered(c),
           DOMAIN sessions \subseteq DOMAIN sessions'
    PROVE  CallsOK'
  BY DEF CallsOK, Answered, At

(* A step that leaves the tables alone keeps what is said about them.        *)
LEMMA QuietStep ==
    ASSUME TablesInv, UNCHANGED Tables, clock' \in Time,
           calls' \in [Calls -> Call], CallsOK'
    PROVE  TablesInv'
  BY DEF TablesInv, TypeOK, StagesMatchSessions, StudiedChunkKeepsProgress,
         Tables

(* A refusal or a failed await: the call is answered, the tables stay.       *)
LEMMA QuietAnswer ==
    ASSUME TablesInv, NEW c \in Calls, Answered(c), UNCHANGED <<Tables, clock>>
    PROVE  TablesInv'
  <1>1. CallsOK'
    BY AnsweredKeepsCallsOK DEF TablesInv, Tables
  <1> QED
    BY <1>1, QuietStep DEF TablesInv, TypeOK, Answered

(* The initial state has empty tables and idle calls.                        *)
LEMMA TablesInit == Init => TablesInv
  <1> SUFFICES ASSUME Init PROVE TablesInv
    OBVIOUS
  <1>1. Idle \in Call
    BY ZeroIsTime DEF Idle, Call, Op, Reply, Null
  <1>2. TypeOK
    BY <1>1, ZeroIsTime DEF Init, TypeOK, Status
  <1>3. CallsOK
    BY DEF Init, CallsOK, Idle, At
  <1>4. StagesMatchSessions /\ StudiedChunkKeepsProgress
    BY DEF Init, StagesMatchSessions, StudiedChunkKeepsProgress
  <1> QED
    BY <1>2, <1>3, <1>4 DEF TablesInv

(* Issuing a command touches its slot only.                                  *)
LEMMA TablesUser ==
    ASSUME TablesInv, NEW c \in Calls, User(c)
    PROVE  TablesInv'
  <1>1. ASSUME NEW op \in Op, NEW pc \in {"read", "write"},
               NEW k \in Chunks \union {NoChunk}, NEW at \in Time,
               op \in {"start", "complete"} => k \in Chunks,
               ~(op = "stop" /\ pc = "write"),
               Invoke(c, op, pc, k, at)
        PROVE  TablesInv'
    <2>1. calls' \in [Calls -> Call]
      BY <1>1 DEF Invoke, TablesInv, TypeOK, Call, Reply, Null
    <2>2. CallsOK'
      BY <1>1 DEF Invoke, TablesInv, TypeOK, CallsOK, At, Tables
    <2> QED
      BY <1>1, <2>1, <2>2, QuietStep DEF Invoke, TablesInv, TypeOK
  <1>2. clock \in Time
    BY DEF TablesInv, TypeOK
  <1>3. ASSUME NEW k \in Chunks, InvokeStart(c, k) PROVE TablesInv'
    BY <1>1, <1>2, <1>3 DEF InvokeStart, Op
  <1>4. ASSUME NEW k \in Chunks, InvokeComplete(c, k) PROVE TablesInv'
    BY <1>1, <1>2, <1>4 DEF InvokeComplete, Op
  <1>5. CASE InvokeStop(c)
    BY <1>1, <1>2, <1>5 DEF InvokeStop, Op
  <1>6. CASE InvokeActive(c)
    BY <1>1, ZeroIsTime, <1>6 DEF InvokeActive, Op
  <1>7. CASE InvokeReindex(c)
    BY <1>1, ZeroIsTime, <1>7 DEF InvokeReindex, Op
  <1> QED
    BY <1>3, <1>4, <1>5, <1>6, <1>7 DEF User

(* start_session: the read only moves the call on or answers it.             *)
LEMMA TablesStartRead ==
    ASSUME TablesInv, NEW c \in Calls, StartRead(c)
    PROVE  TablesInv'
  <1>1. CASE OpenRows # {}
    <2>1. Answered(c)
      BY <1>1, AnswerAnswers DEF StartRead, TablesInv, Reply, Null
    <2> QED
      BY <2>1, QuietAnswer DEF StartRead
  <1>2. CASE OpenRows = {}
    <2>1. calls' = [calls EXCEPT ![c].pc = "write"]
      BY <1>2 DEF StartRead
    <2>2. calls' \in [Calls -> Call] /\ CallsOK'
      BY <2>1 DEF StartRead, TablesInv, TypeOK, CallsOK, Call, At, Tables
    <2> QED
      BY <2>2, QuietStep DEF StartRead, TablesInv, TypeOK
  <1> QED
    BY <1>1, <1>2

(* start_session's transaction: one session, its one stage, and the chunk    *)
(* in progress, together.                                                    *)
LEMMA TablesStartWrite ==
    ASSUME TablesInv, NEW c \in Calls, StartWrite(c)
    PROVE  TablesInv'
  <1> DEFINE k == calls[c].chunk
             now == calls[c].at
             id == Len(sessions) + 1
             newSession == [startedAt |-> now, endedAt |-> Null]
             newStage == [session |-> id, chunk |-> k,
                          startedAt |-> now, endedAt |-> Null]
  <1>1. /\ k \in Chunks /\ now \in Time /\ id \in Nat
        /\ Len(sessions) \in Nat
    BY DEF StartWrite, At, TablesInv, TypeOK, CallsOK, Call
  <1>2. /\ chunks' = [chunks EXCEPT ![k] =
                         [status |-> "in_progress", updatedAt |-> now]]
        /\ sessions' = Append(sessions, newSession)
        /\ stages' = Append(stages, newStage)
        /\ clock' = clock
    BY DEF StartWrite
  <1>3. newSession \in Session /\ newStage \in Stage
    BY <1>1 DEF Session, Stage
  <1>4. Answered(c)
    BY <1>1, CommittedAnswers DEF StartWrite, TablesInv
  <1>5. chunks' \in [Chunks -> [status : Status, updatedAt : Time]]
    BY <1>1, <1>2 DEF TablesInv, TypeOK, Status
  <1>6. /\ sessions' \in Seq(Session)
        /\ Len(sessions') = Len(sessions) + 1
        /\ sessions'[Len(sessions) + 1] = newSession
        /\ \A s \in DOMAIN sessions :
              s \in DOMAIN sessions' /\ sessions'[s] = sessions[s]
    BY <1>2, <1>3 DEF TablesInv, TypeOK
  <1>7. /\ stages' \in Seq(Stage)
        /\ Len(stages') = Len(stages) + 1
        /\ stages'[Len(stages) + 1] = newStage
        /\ \A g \in DOMAIN stages :
              g \in DOMAIN stages' /\ stages'[g] = stages[g]
    BY <1>2, <1>3 DEF TablesInv, TypeOK
  <1>8. TypeOK'
    BY <1>2, <1>4, <1>5, <1>6, <1>7 DEF TypeOK, TablesInv, Answered
  <1>9. CallsOK'
    BY <1>4, <1>6, AnsweredKeepsCallsOK DEF TablesInv
  <1>10. StagesMatchSessions'
    <2> SUFFICES ASSUME NEW s \in DOMAIN sessions'
                 PROVE  /\ stages'[s].session = s
                        /\ stages'[s].startedAt = sessions'[s].startedAt
                        /\ stages'[s].endedAt = sessions'[s].endedAt
      BY <1>6, <1>7 DEF StagesMatchSessions, TablesInv
    <2>1. CASE s = Len(sessions) + 1
      BY <2>1, <1>6, <1>7 DEF StagesMatchSessions, TablesInv
    <2>2. CASE s \in DOMAIN sessions
      <3>1. s \in DOMAIN stages
        BY <2>2 DEF StagesMatchSessions, TablesInv, TypeOK
      <3> QED
        BY <2>2, <3>1, <1>6, <1>7 DEF StagesMatchSessions, TablesInv
    <2>3. s = Len(sessions) + 1 \/ s \in DOMAIN sessions
      BY <1>6, <1>1 DEF TablesInv, TypeOK
    <2> QED
      BY <2>1, <2>2, <2>3
  <1>11. StudiedChunkKeepsProgress'
    <2> SUFFICES ASSUME NEW g \in DOMAIN stages'
                 PROVE  chunks'[stages'[g].chunk].status
                            \in {"in_progress", "done"}
      BY DEF StudiedChunkKeepsProgress
    <2>1. CASE g = Len(stages) + 1
      BY <2>1, <1>1, <1>2, <1>7 DEF TablesInv, TypeOK
    <2>2. CASE g \in DOMAIN stages
      <3>1. stages[g].chunk \in Chunks
        BY <2>2, RowTypes DEF TablesInv
      <3>2. chunks[stages[g].chunk].status \in {"in_progress", "done"}
        BY <2>2 DEF TablesInv, StudiedChunkKeepsProgress
      <3> QED
        BY <2>2, <3>1, <3>2, <1>1, <1>2, <1>7 DEF TablesInv, TypeOK
    <2>3. g = Len(stages) + 1 \/ g \in DOMAIN stages
      BY <1>7 DEF TablesInv, TypeOK
    <2> QED
      BY <2>1, <2>2, <2>3
  <1> QED
    BY <1>8, <1>9, <1>10, <1>11 DEF TablesInv

(* stop_session: the read names a logged session or finds none open.         *)
LEMMA TablesStopRead ==
    ASSUME TablesInv, NEW c \in Calls, StopRead(c)
    PROVE  TablesInv'
  <1>1. CASE OpenRows = {} /\ Answer(c, "invalid", Null)
    <2>1. Answered(c)
      BY <1>1, AnswerAnswers DEF TablesInv, Reply, Null
    <2> QED
      BY <2>1, QuietAnswer DEF StopRead
  <1>2. ASSUME NEW s \in OpenRows,
               calls' = [calls EXCEPT ![c] =
                            [@ EXCEPT !.pc = "write", !.target = s]]
        PROVE  TablesInv'
    <2>1. s \in DOMAIN sessions /\ s \in Nat
      BY <1>2 DEF OpenRows, TablesInv, TypeOK
    <2>2. calls' \in [Calls -> Call]
      BY <1>2, <2>1 DEF TablesInv, TypeOK, Call
    <2>3. CallsOK'
      BY <1>2, <2>1 DEF StopRead, TablesInv, TypeOK, CallsOK, Call, At, Tables
    <2> QED
      BY <2>2, <2>3, QuietStep DEF StopRead, TablesInv, TypeOK
  <1> QED
    BY <1>1, <1>2 DEF StopRead

(* stop_session's transaction: the session and its stage close together.     *)
LEMMA TablesStopWrite ==
    ASSUME TablesInv, NEW c \in Calls, StopWrite(c)
    PROVE  TablesInv'
  <1> DEFINE s == calls[c].target
             now == calls[c].at
  <1>1. /\ s \in DOMAIN sessions /\ s \in Nat /\ now \in Time
        /\ sessions[s].endedAt = Null
    BY DEF StopWrite, Closable, At, TablesInv, TypeOK, CallsOK, Call
  <1>2. /\ sessions' = [sessions EXCEPT ![s].endedAt = now]
        /\ stages' = CloseStages(s, now)
        /\ chunks' = chunks /\ clock' = clock
    BY DEF StopWrite
  <1>3. Answered(c)
    BY <1>1, CommittedAnswers DEF StopWrite, TablesInv
  <1>4. /\ sessions' \in Seq(Session)
        /\ DOMAIN sessions' = DOMAIN sessions
        /\ Len(sessions') = Len(sessions)
    <2> DEFINE row == [sessions[s] EXCEPT !.endedAt = now]
    <2>1. DOMAIN sessions = 1..Len(sessions) /\ Len(sessions) \in Nat
      BY DEF TablesInv, TypeOK
    <2>2. sessions[s] \in Session
      BY <1>1 DEF TablesInv, TypeOK
    <2>3. row \in Session
      BY <2>2, <1>1 DEF Session
    <2>4. sessions' \in [1..Len(sessions) -> Session]
      <3> HIDE DEF row
      <3>1. sessions' = [sessions EXCEPT ![s] = row]
        BY <1>2 DEF row
      <3> QED
        BY <3>1, <2>3, RowTypes DEF TablesInv
    <2> QED
      BY <2>1, <2>4
  <1>5. \A g \in DOMAIN stages :
            /\ stages'[g] \in Stage
            /\ stages'[g].session = stages[g].session
            /\ stages'[g].chunk = stages[g].chunk
            /\ stages'[g].startedAt = stages[g].startedAt
            /\ stages'[g].endedAt =
                  IF stages[g].session = s /\ stages[g].endedAt = Null
                  THEN now ELSE stages[g].endedAt
    <2> TAKE g \in DOMAIN stages
    <2>1. stages[g] \in Stage
      BY DEF TablesInv, TypeOK
    <2>2. CASE stages[g].session = s /\ stages[g].endedAt = Null
      <3>1. stages'[g] = [stages[g] EXCEPT !.endedAt = now]
        BY <2>2, <1>2 DEF CloseStages
      <3> QED
        BY <3>1, <2>1, <2>2, <1>1 DEF Stage
    <2>3. CASE ~(stages[g].session = s /\ stages[g].endedAt = Null)
      <3>1. stages'[g] = stages[g]
        BY <2>3, <1>2 DEF CloseStages
      <3> QED
        BY <3>1, <2>1, <2>3
    <2> QED
      BY <2>2, <2>3
  <1>6. stages' \in Seq(Stage) /\ Len(stages') = Len(stages)
        /\ DOMAIN stages' = DOMAIN stages
    <2>1. DOMAIN stages = 1..Len(stages) /\ Len(stages) \in Nat
      BY DEF TablesInv, TypeOK
    <2>2. stages' \in [1..Len(stages) -> Stage]
      BY <1>2, <1>5, <2>1 DEF CloseStages
    <2> QED
      BY <2>1, <2>2
  <1>7. TypeOK'
    BY <1>2, <1>3, <1>4, <1>6 DEF TypeOK, TablesInv, Answered
  <1>8. CallsOK'
    BY <1>3, <1>4, AnsweredKeepsCallsOK DEF TablesInv
  <1>9. StagesMatchSessions'
    <2> SUFFICES ASSUME NEW t \in DOMAIN sessions
                 PROVE  /\ stages'[t].session = t
                        /\ stages'[t].startedAt = sessions'[t].startedAt
                        /\ stages'[t].endedAt = sessions'[t].endedAt
      BY <1>4, <1>6 DEF StagesMatchSessions, TablesInv
    <2>1. /\ t \in DOMAIN stages
          /\ stages[t].session = t
          /\ stages[t].startedAt = sessions[t].startedAt
          /\ stages[t].endedAt = sessions[t].endedAt
      BY DEF StagesMatchSessions, TablesInv, TypeOK
    <2>2. /\ sessions'[t].startedAt = sessions[t].startedAt
          /\ sessions'[t].endedAt =
                IF t = s THEN now ELSE sessions[t].endedAt
      BY <1>1, <1>2 DEF TablesInv, TypeOK, Session
    <2> QED
      BY <2>1, <2>2, <1>1, <1>5
  <1>10. StudiedChunkKeepsProgress'
    BY <1>2, <1>5, <1>6 DEF StudiedChunkKeepsProgress, TablesInv
  <1> QED
    BY <1>7, <1>8, <1>9, <1>10 DEF TablesInv

(* complete_chunk: an existing row becomes done, so no studied chunk is lost. *)
LEMMA TablesCompleteWrite ==
    ASSUME TablesInv, NEW c \in Calls, CompleteWrite(c)
    PROVE  TablesInv'
  <1> DEFINE k == calls[c].chunk
  <1>1. k \in Chunks /\ calls[c].at \in Time
    BY DEF CompleteWrite, At, TablesInv, TypeOK, CallsOK, Call
  <1>2. /\ chunks' = [chunks EXCEPT ![k] =
                         [status |-> "done", updatedAt |-> calls[c].at]]
        /\ sessions' = sessions /\ stages' = stages /\ clock' = clock
    BY DEF CompleteWrite
  <1>3. Answered(c)
    BY CommittedAnswers DEF CompleteWrite, TablesInv, Null
  <1>4. TypeOK'
    BY <1>1, <1>2, <1>3 DEF TypeOK, TablesInv, Answered, Status
  <1>5. CallsOK'
    BY <1>2, <1>3, AnsweredKeepsCallsOK DEF TablesInv
  <1>6. StagesMatchSessions'
    BY <1>2 DEF StagesMatchSessions, TablesInv
  <1>7. StudiedChunkKeepsProgress'
    <2> SUFFICES ASSUME NEW g \in DOMAIN stages
                 PROVE  chunks'[stages[g].chunk].status
                            \in {"in_progress", "done"}
      BY <1>2 DEF StudiedChunkKeepsProgress
    <2>1. stages[g].chunk \in Chunks
      BY RowTypes DEF TablesInv
    <2> QED
      BY <2>1, <1>1, <1>2 DEF TablesInv, TypeOK, StudiedChunkKeepsProgress
  <1> QED
    BY <1>4, <1>5, <1>6, <1>7 DEF TablesInv

(* The upsert of one chunk: a status other than queued is kept as it was.    *)
LEMMA UpsertKeepsProgress ==
    ASSUME TypeOK, NEW k \in Chunks, NEW finished
    PROVE  /\ Upserted(k, finished) \in [status : Status, updatedAt : Time]
           /\ chunks[k].status \in {"in_progress", "done"}
              => Upserted(k, finished) = chunks[k]
  <1>1. chunks[k] \in [status : Status, updatedAt : Time] /\ clock \in Time
    BY DEF TypeOK
  <1>2. Seeded(k, finished) \in Status
    BY DEF Seeded, Status
  <1>3. CASE chunks[k].status = "absent"
    BY <1>1, <1>2, <1>3 DEF Upserted, Status
  <1>4. CASE chunks[k].status = "queued" /\ k \in finished
    BY <1>1, <1>4 DEF Upserted, Status
  <1>5. CASE /\ chunks[k].status # "absent"
             /\ ~(chunks[k].status = "queued" /\ k \in finished)
    BY <1>1, <1>5 DEF Upserted
  <1> QED
    BY <1>3, <1>4, <1>5

(* reindex: the upsert keeps the progress of every chunk sat with.           *)
LEMMA TablesIndexWrite ==
    ASSUME TablesInv, NEW c \in Calls, IndexWrite(c)
    PROVE  TablesInv'
  <1>1. PICK found \in SUBSET Chunks, finished \in SUBSET Chunks :
            chunks' = [k \in Chunks |->
                          IF k \in found THEN Upserted(k, finished)
                                         ELSE chunks[k]]
    BY DEF IndexWrite
  <1>2. sessions' = sessions /\ stages' = stages /\ clock' = clock
    BY DEF IndexWrite
  <1>3. Answered(c)
    BY CommittedAnswers DEF IndexWrite, TablesInv, Null
  <1>4. \A k \in Chunks :
            /\ chunks'[k] \in [status : Status, updatedAt : Time]
            /\ chunks[k].status \in {"in_progress", "done"}
               => chunks'[k] = chunks[k]
    BY <1>1, UpsertKeepsProgress DEF TablesInv, TypeOK
  <1>5. chunks' \in [Chunks -> [status : Status, updatedAt : Time]]
    BY <1>1, <1>4
  <1>6. TypeOK'
    BY <1>2, <1>3, <1>5 DEF TypeOK, TablesInv, Answered
  <1>7. CallsOK'
    BY <1>2, <1>3, AnsweredKeepsCallsOK DEF TablesInv
  <1>8. StagesMatchSessions'
    BY <1>2 DEF StagesMatchSessions, TablesInv
  <1>9. StudiedChunkKeepsProgress'
    <2> SUFFICES ASSUME NEW g \in DOMAIN stages
                 PROVE  chunks'[stages[g].chunk].status
                            \in {"in_progress", "done"}
      BY <1>2 DEF StudiedChunkKeepsProgress
    <2>1. stages[g].chunk \in Chunks
      BY RowTypes DEF TablesInv
    <2> QED
      BY <2>1, <1>4 DEF TablesInv, StudiedChunkKeepsProgress
  <1> QED
    BY <1>6, <1>7, <1>8, <1>9 DEF TablesInv

(* get_active_session, refusals and failed awaits only answer.               *)
LEMMA TablesAnswerOnly ==
    ASSUME TablesInv, NEW c \in Calls,
           \/ StartRefused(c) \/ StopRefused(c) \/ CompleteRefused(c)
           \/ ActiveRead(c) \/ Fail(c)
    PROVE  TablesInv'
  <1>1. UNCHANGED <<Tables, clock>>
    BY DEF StartRefused, StopRefused, CompleteRefused, ActiveRead, Fail
  <1>2. PICK r \in Reply, s \in Nat \union {Null} : Answer(c, r, s)
    <2>1. \A s \in OpenRows : s \in Nat
      BY DEF OpenRows, TablesInv, TypeOK
    <2> QED
      BY <2>1 DEF StartRefused, StopRefused, CompleteRefused, ActiveRead, Fail,
                  Reply, Null
  <1> QED
    BY <1>1, <1>2, AnswerAnswers, QuietAnswer DEF TablesInv

(* Delivering an answer, a crash and the clock leave the tables alone.       *)
LEMMA TablesEnvironment ==
    ASSUME TablesInv, (\E c \in Calls : Return(c)) \/ Crash \/ Tick
    PROVE  TablesInv'
  <1>1. Idle \in Call
    BY ZeroIsTime DEF Idle, Call, Op, Reply, Null
  <1>2. ASSUME NEW c \in Calls, Return(c) PROVE TablesInv'
    <2>1. calls' \in [Calls -> Call] /\ CallsOK'
      BY <1>1, <1>2 DEF Return, TablesInv, TypeOK, CallsOK, At, Idle, Tables
    <2> QED
      BY <1>2, <2>1, QuietStep DEF Return, TablesInv, TypeOK
  <1>3. CASE Crash
    <2>1. calls' \in [Calls -> Call] /\ CallsOK'
      BY <1>1, <1>3 DEF Crash, CallsOK, At, Idle
    <2> QED
      BY <1>3, <2>1, QuietStep DEF Crash, TablesInv, TypeOK
  <1>4. CASE Tick
    <2>1. clock' \in Time
      BY <1>4, BoundsAssumption DEF Tick, TablesInv, TypeOK, Time
    <2>2. CallsOK'
      BY <1>4 DEF Tick, TablesInv, CallsOK, At, Tables
    <2> QED
      BY <1>4, <2>1, <2>2, QuietStep DEF Tick, TablesInv, TypeOK
  <1> QED
    BY <1>2, <1>3, <1>4

(* Every step keeps the invariant.                                           *)
LEMMA TablesNext == TablesInv /\ [Next]_studyVars => TablesInv'
  <1> SUFFICES ASSUME TablesInv, [Next]_studyVars PROVE TablesInv'
    OBVIOUS
  <1>1. ASSUME NEW c \in Calls, Work(c) PROVE TablesInv'
    BY <1>1, TablesStartRead, TablesStartWrite, TablesStopRead,
       TablesStopWrite, TablesCompleteWrite, TablesIndexWrite,
       TablesAnswerOnly
       DEF Work
  <1>2. ASSUME NEW c \in Calls, User(c) \/ Fail(c) \/ Return(c)
        PROVE  TablesInv'
    BY <1>2, TablesUser, TablesAnswerOnly, TablesEnvironment
  <1>3. CASE Crash \/ Tick
    BY <1>3, TablesEnvironment
  <1>4. CASE UNCHANGED studyVars
    BY <1>4 DEF studyVars, TablesInv, TypeOK, CallsOK, At,
                StagesMatchSessions, StudiedChunkKeepsProgress
  <1> QED
    BY <1>1, <1>2, <1>3, <1>4 DEF Next

(* The tables and calls keep their types, the session and stage tables agree *)
(* row by row, and no studied chunk returns to the new ones: whatever        *)
(* commands overlap, fail, lose their answer or die with the app.            *)
THEOREM TablesInvariant == Spec => []TablesInv
  BY TablesInit, TablesNext, PTL DEF Spec

(* Type correctness of the study loop.                                       *)
THEOREM TypeCorrect == Spec => []TypeOK
  <1>1. TablesInv => TypeOK
    BY DEF TablesInv
  <1> QED
    BY <1>1, TablesInvariant, PTL

(* Sessions and stages agree row by row (session_pg.rs).                     *)
THEOREM StagesAgree == Spec => []StagesMatchSessions
  <1>1. TablesInv => StagesMatchSessions
    BY DEF TablesInv
  <1> QED
    BY <1>1, TablesInvariant, PTL

(* A chunk somebody has sat with is never queued again.                      *)
THEOREM StudiedStaysStudied == Spec => []StudiedChunkKeepsProgress
  <1>1. TablesInv => StudiedChunkKeepsProgress
    BY DEF TablesInv
  <1> QED
    BY <1>1, TablesInvariant, PTL

-----------------------------------------------------------------------------
(* What a step may do to each table. *)

(* Only a start, a completion and a re-index write chunk rows.               *)
LEMMA ChunkWriters ==
    ASSUME [Next]_studyVars
    PROVE  \/ chunks' = chunks
           \/ \E c \in Calls :
                 StartWrite(c) \/ CompleteWrite(c) \/ IndexWrite(c)
  BY DEF Next, Work, User, Invoke, InvokeStart, InvokeStop, InvokeComplete,
         InvokeActive, InvokeReindex, StartRead, StartRefused, StopRead,
         StopRefused, StopWrite, CompleteRefused, ActiveRead, Fail, Return,
         Crash, Tick, Tables, studyVars

(* Only a start and a stop write session rows.                               *)
LEMMA SessionWriters ==
    ASSUME [Next]_studyVars
    PROVE  \/ sessions' = sessions /\ stages' = stages
           \/ \E c \in Calls : StartWrite(c) \/ StopWrite(c)
  BY DEF Next, Work, User, Invoke, InvokeStart, InvokeStop, InvokeComplete,
         InvokeActive, InvokeReindex, StartRead, StartRefused, StopRead,
         StopRefused, CompleteWrite, IndexWrite, CompleteRefused, ActiveRead,
         Fail, Return, Crash, Tick, Tables, studyVars

(* What a start's transaction leaves of the session rows, and adds to them.  *)
LEMMA StartAppends ==
    ASSUME TypeOK, NEW c \in Calls, StartWrite(c)
    PROVE  /\ Len(sessions') = Len(sessions) + 1
           /\ DOMAIN sessions' = DOMAIN sessions \union {Len(sessions) + 1}
           /\ \A s \in DOMAIN sessions : sessions'[s] = sessions[s]
           /\ sessions'[Len(sessions) + 1] =
                 [startedAt |-> calls[c].at, endedAt |-> Null]
  <1> DEFINE row == [startedAt |-> calls[c].at, endedAt |-> Null]
  <1>1. sessions' = Append(sessions, row) /\ row \in Session
    BY DEF StartWrite, TypeOK, Call, Session
  <1> QED
    BY <1>1 DEF TypeOK

(* What a stop's transaction leaves of the session rows.                     *)
LEMMA StopCloses ==
    ASSUME TablesInv, NEW c \in Calls, StopWrite(c)
    PROVE  /\ calls[c].target \in DOMAIN sessions
           /\ sessions[calls[c].target].endedAt = Null
           /\ calls[c].at \in Time
           /\ DOMAIN sessions' = DOMAIN sessions
           /\ \A s \in DOMAIN sessions :
                 /\ sessions'[s].startedAt = sessions[s].startedAt
                 /\ sessions'[s].endedAt =
                       IF s = calls[c].target THEN calls[c].at
                                              ELSE sessions[s].endedAt
  <1> DEFINE t == calls[c].target
  <1>1. /\ t \in DOMAIN sessions
        /\ sessions[t].endedAt = Null
        /\ calls[c].at \in Time
    BY DEF StopWrite, Closable, TablesInv, TypeOK, CallsOK, Call, At
  <1>2. sessions' = [sessions EXCEPT ![t].endedAt = calls[c].at]
    BY DEF StopWrite
  <1>3. \A s \in DOMAIN sessions : sessions[s] \in Session
    BY RowTypes DEF TablesInv
  <1>4. ASSUME NEW s \in DOMAIN sessions
        PROVE  /\ sessions'[s].startedAt = sessions[s].startedAt
               /\ sessions'[s].endedAt =
                     IF s = t THEN calls[c].at ELSE sessions[s].endedAt
    BY <1>1, <1>2, <1>3, <1>4 DEF Session
  <1> QED
    BY <1>1, <1>2, <1>4

-----------------------------------------------------------------------------
(* A finished chunk stays finished, whatever start or re-index raced the     *)
(* completion (session_pg.rs:46, index_repo.rs upsert).                      *)
THEOREM FinishedForGood == Spec => DoneIsFinal
  <1>1. TablesInv /\ [Next]_studyVars
        => [\A k \in Chunks :
               chunks[k].status = "done" => chunks'[k].status = "done"]_chunks
    <2> SUFFICES ASSUME TablesInv, [Next]_studyVars, NEW k \in Chunks,
                        chunks[k].status = "done", chunks' # chunks
                 PROVE  chunks'[k].status = "done"
      OBVIOUS
    <2>1. ASSUME NEW c \in Calls, StartWrite(c)
          PROVE  chunks'[k].status = "done"
      BY <2>1 DEF StartWrite, Startable, TablesInv, TypeOK
    <2>2. ASSUME NEW c \in Calls, CompleteWrite(c)
          PROVE  chunks'[k].status = "done"
      BY <2>2 DEF CompleteWrite, TablesInv, TypeOK
    <2>3. ASSUME NEW c \in Calls, IndexWrite(c)
          PROVE  chunks'[k].status = "done"
      BY <2>3, UpsertKeepsProgress DEF IndexWrite, TablesInv
    <2> QED
      BY <2>1, <2>2, <2>3, ChunkWriters
  <1> QED
    BY <1>1, TablesInvariant, PTL DEF Spec, DoneIsFinal

(* A closed session keeps its end and every session its start: a second stop *)
(* that read the session while it was open cannot close it again.            *)
THEOREM RecordIsAppendOnly == Spec => ClosedRowsFrozen
  <1>1. TablesInv /\ [Next]_studyVars
        => [\A s \in DOMAIN sessions :
               /\ s \in DOMAIN sessions'
               /\ sessions'[s].startedAt = sessions[s].startedAt
               /\ sessions[s].endedAt # Null
                  => sessions'[s].endedAt = sessions[s].endedAt]_sessions
    <2> SUFFICES ASSUME TablesInv, [Next]_studyVars,
                        NEW s \in DOMAIN sessions, sessions' # sessions
                 PROVE  /\ s \in DOMAIN sessions'
                        /\ sessions'[s].startedAt = sessions[s].startedAt
                        /\ sessions[s].endedAt # Null
                           => sessions'[s].endedAt = sessions[s].endedAt
      OBVIOUS
    <2>1. PICK c \in Calls : StartWrite(c) \/ StopWrite(c)
      BY SessionWriters
    <2>2. CASE StartWrite(c)
      BY <2>2, StartAppends DEF TablesInv
    <2>3. CASE StopWrite(c)
      BY <2>3, StopCloses
    <2> QED
      BY <2>1, <2>2, <2>3
  <1> QED
    BY <1>1, TablesInvariant, PTL DEF Spec, ClosedRowsFrozen

-----------------------------------------------------------------------------
(* How many sessions can be open. *)

(* Both counted sets are finite, so their cardinalities are numbers.         *)
LEMMA CountedSetsFinite ==
    ASSUME TypeOK
    PROVE  IsFiniteSet(OpenSessions) /\ IsFiniteSet(StartsPastCheck)
  <1>1. OpenSessions \subseteq 1..Len(sessions) /\ Len(sessions) \in Nat
    BY RowTypes DEF OpenSessions
  <1>2. IsFiniteSet(1..Len(sessions))
    BY <1>1, FS_Interval
  <1>3. StartsPastCheck \subseteq Calls
    BY DEF StartsPastCheck
  <1> QED
    BY <1>1, <1>2, <1>3, CallsAssumption, FS_Subset

(* The JOIN of open_session finds every open session.                        *)
LEMMA JoinFindsOpen ==
    ASSUME TablesInv
    PROVE  OpenRows = OpenSessions
  <1>1. \A s \in DOMAIN sessions :
            /\ s \in DOMAIN stages /\ stages[s].session = s
            /\ stages[s].endedAt = sessions[s].endedAt
    BY RowTypes DEF TablesInv, StagesMatchSessions
  <1> QED
    BY <1>1 DEF OpenRows, OpenSessions

(* With fewer of both, the bound is kept.                                    *)
LEMMA FewerKeepBound ==
    ASSUME TypeOK, OverlapBound, TypeOK',
           OpenSessions' \subseteq OpenSessions,
           StartsPastCheck' \subseteq StartsPastCheck
    PROVE  OverlapBound'
  <1>1. /\ Cardinality(OpenSessions') <= Cardinality(OpenSessions)
        /\ Cardinality(StartsPastCheck') <= Cardinality(StartsPastCheck)
    BY CountedSetsFinite, FS_Subset
  <1>2. /\ IsFiniteSet(OpenSessions') /\ IsFiniteSet(StartsPastCheck')
    BY CountedSetsFinite, FS_Subset
  <1>3. /\ Cardinality(OpenSessions) \in Nat
        /\ Cardinality(StartsPastCheck) \in Nat
        /\ Cardinality(OpenSessions') \in Nat
        /\ Cardinality(StartsPastCheck') \in Nat
        /\ Cardinality(Calls) \in Nat
    BY <1>2, CountedSetsFinite, CallsAssumption, FS_CardinalityType
  <1> QED
    BY <1>1, <1>3 DEF OverlapBound

(* A start passes its check only while no session is open.                   *)
LEMMA CheckKeepsBound ==
    ASSUME TablesInv, TablesInv', NEW c \in Calls, StartRead(c), OverlapBound
    PROVE  OverlapBound'
  <1>1. sessions' = sessions
    BY DEF StartRead, Tables
  <1>2. OpenSessions' = OpenSessions
    BY <1>1 DEF OpenSessions
  <1>3. CASE OpenRows # {}
    <2>1. Answered(c)
      BY <1>3, AnswerAnswers DEF StartRead, TablesInv, Reply, Null
    <2>2. StartsPastCheck' \subseteq StartsPastCheck
      BY <2>1 DEF StartsPastCheck, At, Answered
    <2> QED
      BY <1>2, <2>2, FewerKeepBound DEF TablesInv
  <1>4. CASE OpenRows = {}
    <2>1. Cardinality(OpenSessions') = 0
      BY <1>2, <1>4, JoinFindsOpen, FS_EmptySet
    <2>2. /\ Cardinality(StartsPastCheck') <= Cardinality(Calls)
          /\ Cardinality(StartsPastCheck') \in Nat
      <3>1. StartsPastCheck' \subseteq Calls
        BY DEF StartsPastCheck
      <3> QED
        BY <3>1, CallsAssumption, FS_Subset, FS_CardinalityType
    <2> QED
      BY <2>1, <2>2 DEF OverlapBound
  <1> QED
    BY <1>3, <1>4

(* A start that inserts trades a place past the check for an open session.   *)
LEMMA InsertKeepsBound ==
    ASSUME TablesInv, TablesInv', NEW c \in Calls, StartWrite(c), OverlapBound
    PROVE  OverlapBound'
  <1> DEFINE id == Len(sessions) + 1
  <1>1. Answered(c)
    <2>1. id \in Nat
      BY RowTypes DEF TablesInv
    <2> QED
      BY <2>1, CommittedAnswers DEF StartWrite, TablesInv
  <1>2. StartsPastCheck' = StartsPastCheck \ {c} /\ c \in StartsPastCheck
    BY <1>1 DEF StartWrite, StartsPastCheck, At, Answered
  <1>3. id \notin DOMAIN sessions
    BY RowTypes DEF TablesInv
  <1>4. OpenSessions' = OpenSessions \union {id} /\ id \notin OpenSessions
    <2>1. /\ DOMAIN sessions' = DOMAIN sessions \union {id}
          /\ \A s \in DOMAIN sessions : sessions'[s] = sessions[s]
          /\ sessions'[id] = [startedAt |-> calls[c].at, endedAt |-> Null]
      BY StartAppends DEF TablesInv
    <2>2. sessions'[id].endedAt = Null
      BY <2>1
    <2> HIDE DEF id
    <2> QED
      BY <2>1, <2>2, <1>3 DEF OpenSessions
  <1>5. Cardinality(StartsPastCheck') = Cardinality(StartsPastCheck) - 1
    BY <1>2, CountedSetsFinite, FS_RemoveElement DEF TablesInv
  <1>6. Cardinality(OpenSessions') = Cardinality(OpenSessions) + 1
    BY <1>4, CountedSetsFinite, FS_AddElement DEF TablesInv
  <1>7. /\ Cardinality(OpenSessions) \in Nat
        /\ Cardinality(StartsPastCheck) \in Nat
        /\ Cardinality(Calls) \in Nat
    BY CountedSetsFinite, CallsAssumption, FS_CardinalityType DEF TablesInv
  <1> QED
    BY <1>5, <1>6, <1>7 DEF OverlapBound

(* A stop only takes from the open sessions.                                 *)
LEMMA CloseKeepsBound ==
    ASSUME TablesInv, TablesInv', NEW c \in Calls, StopWrite(c), OverlapBound
    PROVE  OverlapBound'
  <1>1. OpenSessions' \subseteq OpenSessions
    BY StopCloses DEF OpenSessions
  <1>2. Answered(c)
    <2>1. calls[c].target \in Nat
      BY StopCloses, RowTypes DEF TablesInv
    <2> QED
      BY <2>1, CommittedAnswers DEF StopWrite, TablesInv
  <1>3. StartsPastCheck' \subseteq StartsPastCheck
    BY <1>2 DEF StartsPastCheck, At, Answered
  <1> QED
    BY <1>1, <1>3, FewerKeepBound DEF TablesInv

(* Every other step leaves the open sessions alone and lets no start past.   *)
LEMMA OthersKeepBound ==
    ASSUME TablesInv, TablesInv', [Next]_studyVars, OverlapBound,
           \A c \in Calls :
              ~(StartRead(c) \/ StartWrite(c) \/ StopWrite(c))
    PROVE  OverlapBound'
  <1>1. OpenSessions' = OpenSessions
    BY SessionWriters DEF OpenSessions
  <1>2. StartsPastCheck' \subseteq StartsPastCheck
    <2>1. ASSUME NEW c \in Calls, Answered(c)
          PROVE  StartsPastCheck' \subseteq StartsPastCheck
      BY <2>1 DEF StartsPastCheck, At, Answered
    <2>2. ASSUME NEW c \in Calls, User(c)
          PROVE  StartsPastCheck' \subseteq StartsPastCheck
      <3>1. PICK op, pc, k, at :
                /\ Invoke(c, op, pc, k, at)
                /\ ~(op = "start" /\ pc = "write")
        BY <2>2 DEF User, InvokeStart, InvokeStop, InvokeComplete,
                    InvokeActive, InvokeReindex
      <3>2. /\ \A d \in Calls : d # c => calls'[d] = calls[d]
            /\ calls'[c].op = op /\ calls'[c].pc = pc
        BY <3>1 DEF Invoke, TablesInv, TypeOK
      <3> QED
        BY <3>1, <3>2 DEF StartsPastCheck, At
    <2>3. ASSUME NEW c \in Calls, StopRead(c)
          PROVE  StartsPastCheck' \subseteq StartsPastCheck
      <3>1. calls[c].op = "stop" /\ calls[c] \in Call
        BY <2>3 DEF StopRead, At, TablesInv, TypeOK
      <3>2. ASSUME NEW s \in OpenRows,
                   calls' = [calls EXCEPT ![c] =
                                [@ EXCEPT !.pc = "write", !.target = s]]
            PROVE  StartsPastCheck' \subseteq StartsPastCheck
        <4>1. calls'[c].op = "stop"
          BY <3>1, <3>2 DEF TablesInv, TypeOK, Call
        <4>2. \A d \in Calls : d # c => calls'[d] = calls[d]
          BY <3>2 DEF TablesInv, TypeOK
        <4> QED
          BY <4>1, <4>2 DEF StartsPastCheck, At
      <3>3. CASE Answer(c, "invalid", Null)
        BY <2>1, <3>3, AnswerAnswers DEF TablesInv, Reply, Null
      <3> QED
        BY <2>3, <3>2, <3>3 DEF StopRead
    <2>4. ASSUME NEW c \in Calls,
                 \/ StartRefused(c) \/ StopRefused(c) \/ CompleteRefused(c)
                 \/ ActiveRead(c) \/ Fail(c)
          PROVE  Answered(c)
      <3>1. \A s \in OpenRows : s \in Nat
        BY RowTypes DEF OpenRows, TablesInv
      <3>2. PICK r \in Reply, s \in Nat \union {Null} : Answer(c, r, s)
        BY <3>1, <2>4 DEF StartRefused, StopRefused, CompleteRefused,
                          ActiveRead, Fail, Reply, Null
      <3> QED
        BY <3>2, AnswerAnswers DEF TablesInv
    <2>5. ASSUME NEW c \in Calls, CompleteWrite(c) \/ IndexWrite(c)
          PROVE  Answered(c)
      BY <2>5, CommittedAnswers DEF CompleteWrite, IndexWrite, TablesInv, Null
    <2>6. ASSUME NEW c \in Calls, Return(c)
          PROVE  StartsPastCheck' \subseteq StartsPastCheck
      BY <2>6 DEF Return, StartsPastCheck, At, Idle, TablesInv, TypeOK
    <2>7. CASE Crash
      BY <2>7 DEF Crash, StartsPastCheck, At, Idle
    <2>8. CASE Tick \/ UNCHANGED studyVars
      BY <2>8 DEF Tick, studyVars, StartsPastCheck, At
    <2> QED
      BY <2>1, <2>2, <2>3, <2>4, <2>5, <2>6, <2>7, <2>8 DEF Next, Work
  <1> QED
    BY <1>1, <1>2, FewerKeepBound DEF TablesInv

(* Open sessions and starts past their check never outnumber the command     *)
(* slots: each extra open session needs a command that overlapped another    *)
(* (application/session.rs start_session).                                   *)
THEOREM OverlapBounded == Spec => []OverlapBound
  <1>1. Init => OverlapBound
    <2> SUFFICES ASSUME Init PROVE OverlapBound
      OBVIOUS
    <2>1. OpenSessions = {} /\ StartsPastCheck = {}
      BY DEF Init, OpenSessions, StartsPastCheck, At, Idle
    <2>2. Cardinality(Calls) \in Nat
      BY CallsAssumption, FS_CardinalityType
    <2> QED
      BY <2>1, <2>2, FS_EmptySet DEF OverlapBound
  <1>2. TablesInv /\ TablesInv' /\ [Next]_studyVars /\ OverlapBound
        => OverlapBound'
    BY CheckKeepsBound, InsertKeepsBound, CloseKeepsBound, OthersKeepBound
  <1> QED
    BY <1>1, <1>2, TablesInvariant, PTL DEF Spec

(* With one command slot the documented promise holds: at most one session   *)
(* is open (domain/session.rs:110), through crashes and lost answers.        *)
THEOREM OneAtATime ==
    ASSUME Cardinality(Calls) = 1
    PROVE  Spec => []AtMostOneOpen
  <1>1. TablesInv /\ OverlapBound => AtMostOneOpen
    <2> SUFFICES ASSUME TablesInv, OverlapBound PROVE AtMostOneOpen
      OBVIOUS
    <2>1. /\ Cardinality(OpenSessions) \in Nat
          /\ Cardinality(StartsPastCheck) \in Nat
      BY CountedSetsFinite, FS_CardinalityType DEF TablesInv
    <2> QED
      BY <2>1 DEF OverlapBound, AtMostOneOpen
  <1> QED
    BY <1>1, TablesInvariant, OverlapBounded, PTL

-----------------------------------------------------------------------------
(* Answers. *)

Delivered(c) ==
    calls[c].pc = "replied" /\ calls[c].reply = "ok" /\ calls[c].target # Null

TrueToTables(c) ==
    LET s == calls[c].target IN
    /\ s \in DOMAIN sessions
    /\ calls[c].op = "start" =>
          /\ sessions[s].startedAt = calls[c].at
          /\ stages[s].chunk = calls[c].chunk
    /\ calls[c].op = "stop" => sessions[s].endedAt = calls[c].at

(* What an answer says of a session no later step unsays.                    *)
LEMMA RowsLast ==
    ASSUME TablesInv, TablesInv', [Next]_studyVars, NEW s \in DOMAIN sessions
    PROVE  /\ s \in DOMAIN sessions'
           /\ sessions'[s].startedAt = sessions[s].startedAt
           /\ sessions[s].endedAt # Null
              => sessions'[s].endedAt = sessions[s].endedAt
           /\ stages'[s].chunk = stages[s].chunk
  <1>1. ASSUME NEW c \in Calls, StartWrite(c)
        PROVE  stages'[s].chunk = stages[s].chunk
    <2>1. PICK row : stages' = Append(stages, row)
      BY <1>1 DEF StartWrite
    <2>2. stages \in Seq(Stage) /\ s \in 1..Len(stages)
      BY RowTypes DEF TablesInv, TypeOK, StagesMatchSessions
    <2> QED
      BY <2>1, <2>2
  <1>2. ASSUME NEW c \in Calls, StopWrite(c)
        PROVE  stages'[s].chunk = stages[s].chunk
    <2>1. s \in DOMAIN stages /\ stages[s] \in Stage
      BY RowTypes DEF TablesInv, StagesMatchSessions
    <2> QED
      BY <1>2, <2>1 DEF StopWrite, CloseStages, Stage
  <1>3. ASSUME NEW c \in Calls, StartWrite(c)
        PROVE  s \in DOMAIN sessions' /\ sessions'[s] = sessions[s]
    BY <1>3, StartAppends DEF TablesInv
  <1> QED
    BY <1>1, <1>2, <1>3, StopCloses, SessionWriters

(* Only three kinds of step give an answer that names a session.             *)
LEMMA FreshAnswers ==
    ASSUME TablesInv, [Next]_studyVars, NEW c \in Calls,
           calls'[c] # calls[c], Delivered(c)'
    PROVE  StartWrite(c) \/ StopWrite(c) \/ ActiveRead(c)
  <1>1. ASSUME NEW d \in Calls, Work(d)
        PROVE  StartWrite(c) \/ StopWrite(c) \/ ActiveRead(c)
    <2>1. d = c
      BY <1>1 DEF Work, StartRead, StartRefused, StartWrite, StopRead,
         StopRefused, StopWrite, CompleteRefused, CompleteWrite, ActiveRead,
         IndexWrite, Committed, Answer, TablesInv, TypeOK
    <2>2. calls \in [Calls -> Call]
      BY DEF TablesInv, TypeOK
    <2>3. ~(StartRefused(c) \/ StopRefused(c) \/ CompleteRefused(c))
      BY <2>2 DEF StartRefused, StopRefused, CompleteRefused, Answer,
                  Delivered, Call
    <2>4. ~(StartRead(c) \/ StopRead(c))
      <3>1. calls[c] \in Call
        BY <2>2
      <3>2. ASSUME NEW q, calls' = [calls EXCEPT ![c] = q],
                   q.pc = "write" \/ q.reply = "invalid"
            PROVE  FALSE
        BY <2>2, <3>2 DEF Delivered
      <3>3. ~StartRead(c)
        BY <3>1, <3>2 DEF StartRead, Answer, Call
      <3>4. ~StopRead(c)
        BY <3>1, <3>2 DEF StopRead, Answer, Call
      <3> QED
        BY <3>3, <3>4
    <2>5. ~(CompleteWrite(c) \/ IndexWrite(c))
      BY <2>2 DEF CompleteWrite, IndexWrite, Committed, Answer, Delivered, Call
    <2> QED
      BY <1>1, <2>1, <2>3, <2>4, <2>5 DEF Work
  <1>2. ASSUME NEW d \in Calls, User(d) PROVE FALSE
    <2>1. PICK op, pc, k, at : Invoke(d, op, pc, k, at)
      BY <1>2 DEF User, InvokeStart, InvokeStop, InvokeComplete,
                  InvokeActive, InvokeReindex
    <2> QED
      BY <2>1 DEF Invoke, Delivered, TablesInv, TypeOK
  <1>3. ASSUME NEW d \in Calls, Fail(d) \/ Return(d) PROVE FALSE
    <2>1. /\ calls[d] \in Call /\ calls'[d] \in Call
          /\ \A e \in Calls : e # d => calls'[e] = calls[e]
          /\ calls'[d] = Idle \/ calls'[d].reply = "dberror"
      <3>1. CASE Fail(d)
        <4>1. Answer(d, "dberror", Null)
          BY <3>1 DEF Fail
        <4> QED
          BY <4>1, AnswerAnswers DEF TablesInv, TypeOK, Answered, Reply, Null
      <3>2. CASE Return(d)
        BY <3>2, ZeroIsTime DEF Return, TablesInv, TypeOK, Idle, Call, Op, Reply, Null
      <3> QED
        BY <1>3, <3>1, <3>2
    <2> QED
      BY <2>1 DEF Delivered, Idle
  <1>4. ~Crash
    BY DEF Crash, Delivered, Idle
  <1>5. ~Tick /\ ~UNCHANGED studyVars
    BY DEF Tick, studyVars
  <1> QED
    BY <1>1, <1>2, <1>3, <1>4, <1>5 DEF Next

(* A fresh answer tells what its own transaction wrote, or its read found.   *)
LEMMA FreshAnswersTrue ==
    ASSUME TablesInv, TablesInv', NEW c \in Calls, Delivered(c)',
           StartWrite(c) \/ StopWrite(c) \/ ActiveRead(c)
    PROVE  TrueToTables(c)'
  <1>1. CASE StartWrite(c)
    <2> DEFINE n == Len(sessions)
    <2>1. n \in Nat /\ n + 1 \in Nat \union {Null}
      BY RowTypes DEF TablesInv
    <2>2. Committed(c, n + 1)
      BY <1>1 DEF StartWrite
    <2>3. Answered(c) /\ calls'[c].target = n + 1
      BY <2>1, <2>2, CommittedAnswers DEF TablesInv, Delivered
    <2>4. /\ n + 1 \in DOMAIN sessions'
          /\ sessions'[n + 1].startedAt = calls[c].at
      <3>1. /\ DOMAIN sessions' = DOMAIN sessions \union {n + 1}
            /\ sessions'[n + 1] = [startedAt |-> calls[c].at, endedAt |-> Null]
        BY <1>1, StartAppends DEF TablesInv
      <3> HIDE DEF n
      <3> QED
        BY <3>1
    <2>5. stages'[n + 1].chunk = calls[c].chunk
      <3>1. stages \in Seq(Stage) /\ Len(stages) = n
        BY DEF TablesInv, TypeOK, StagesMatchSessions
      <3> QED
        BY <1>1, <2>1, <3>1 DEF StartWrite
    <2>6. calls[c].op = "start"
      BY <1>1 DEF StartWrite, At
    <2> QED
      BY <2>3, <2>4, <2>5, <2>6 DEF TrueToTables, Answered
  <1>2. CASE StopWrite(c)
    <2> DEFINE s == calls[c].target
    <2>1. s \in Nat \union {Null} /\ Committed(c, s) /\ calls[c].op = "stop"
      BY <1>2 DEF StopWrite, At, TablesInv, TypeOK, Call
    <2>2. Answered(c) /\ calls'[c].target = s
      BY <2>1, CommittedAnswers DEF TablesInv, Delivered
    <2>3. s \in DOMAIN sessions' /\ sessions'[s].endedAt = calls[c].at
      BY <1>2, StopCloses
    <2> QED
      BY <2>1, <2>2, <2>3 DEF TrueToTables, Answered
  <1>3. CASE ActiveRead(c)
    <2>1. /\ calls[c].op = "active" /\ calls \in [Calls -> Call]
          /\ sessions' = sessions
      BY <1>3 DEF ActiveRead, At, TablesInv, TypeOK, Tables
    <2>2. PICK s \in OpenRows : Answer(c, "ok", s)
      BY <1>3, <2>1 DEF ActiveRead, Answer, Delivered, Call
    <2> QED
      BY <2>1, <2>2 DEF Answer, OpenRows, TrueToTables, Call
  <1> QED
    BY <1>1, <1>2, <1>3

(* Every step leaves the answers still to be delivered true.                 *)
LEMMA AnswersNext ==
    ASSUME TablesInv, TablesInv', [Next]_studyVars, AnswersMatchTables
    PROVE  AnswersMatchTables'
  <1> SUFFICES ASSUME NEW c \in Calls, Delivered(c)' PROVE TrueToTables(c)'
    BY DEF AnswersMatchTables, Delivered, TrueToTables
  <1>1. CASE calls'[c] = calls[c]
    <2>1. Delivered(c) /\ TrueToTables(c)
      BY <1>1 DEF AnswersMatchTables, Delivered, TrueToTables
    <2>2. calls[c].at # Null
      BY DEF TablesInv, TypeOK, Call, Time, Null
    <2> QED
      BY <1>1, <2>1, <2>2, RowsLast DEF TrueToTables
  <1>2. CASE calls'[c] # calls[c]
    BY <1>2, FreshAnswers, FreshAnswersTrue
  <1> QED
    BY <1>1, <1>2

(* When a start is answered with success its session is in the tables, its   *)
(* chunk and time as asked; when a stop is, the session it names ended at    *)
(* that stop's time and not at another's; whatever commands ran in between.  *)
(* Nothing is claimed of the session an active-session answer names but that *)
(* its row exists (application/session.rs start_session, stop_session,       *)
(* session_pg.rs insert_open_session, close_session).                        *)
THEOREM AnswersAreTrue == Spec => []AnswersMatchTables
  <1>1. Init => AnswersMatchTables
    BY DEF Init, AnswersMatchTables, Idle
  <1> QED
    BY <1>1, AnswersNext, TablesInvariant, PTL DEF Spec

-----------------------------------------------------------------------------
(* One command at a time. *)

(* One command at a time: no two slots differ.                               *)
OneSlot == \A c, d \in Calls : c = d

(* Nothing in the tables is later than t (an open end, Null, is below all).  *)
LoggedBy(t) ==
    /\ \A s \in DOMAIN sessions :
          sessions[s].startedAt <= t /\ sessions[s].endedAt <= t
    /\ \A k \in Chunks : chunks[k].updatedAt <= t

(* What a command has in hand: an instant none of the tables is ahead of, and *)
(* after a start's check the certainty that nothing is open.                 *)
InHand(c) ==
    /\ calls[c].at <= clock
    /\ calls[c].op \in {"start", "stop", "complete"}
          /\ calls[c].pc \in {"read", "write"} => LoggedBy(calls[c].at)
    /\ At(c, "start", "write") => OpenSessions = {}

(* SittingsInOrder is not inductive: a start or a stop writes the instant it *)
(* read when it was entered, and a start what it found before.               *)
SerialInv ==
    /\ SittingsInOrder
    /\ LoggedBy(clock)
    /\ \A c \in Calls : InHand(c)

(* Nothing is logged at first.                                               *)
LEMMA SerialInit == Init => SerialInv
  <1> SUFFICES ASSUME Init PROVE SerialInv
    OBVIOUS
  <1>1. SittingsInOrder /\ LoggedBy(clock)
    BY DEF Init, SittingsInOrder, LoggedBy
  <1>2. \A c \in Calls : InHand(c)
    BY DEF Init, InHand, Idle, At
  <1> QED
    BY <1>1, <1>2 DEF SerialInv

(* A step that leaves the tables alone.                                      *)
LEMMA SerialQuiet ==
    ASSUME SerialInv, UNCHANGED Tables, clock \in Nat, clock' \in Nat,
           clock <= clock', TypeOK, \A c \in Calls : InHand(c)'
    PROVE  SerialInv'
  <1>1. SittingsInOrder'
    BY DEF SerialInv, SittingsInOrder, Tables
  <1>2. ASSUME NEW s \in DOMAIN sessions
        PROVE  sessions'[s].startedAt <= clock' /\ sessions'[s].endedAt <= clock'
    <2>1. sessions[s].startedAt \in Int /\ sessions[s].endedAt \in Int
      BY RowTypes DEF Session, Time, Null
    <2> QED BY <2>1 DEF SerialInv, LoggedBy, Tables
  <1>3. ASSUME NEW k \in Chunks PROVE chunks'[k].updatedAt <= clock'
    <2>1. chunks[k].updatedAt \in Int
      BY DEF TypeOK, Time
    <2> QED BY <2>1 DEF SerialInv, LoggedBy, Tables
  <1>4. LoggedBy(clock)'
    BY <1>2, <1>3 DEF LoggedBy, Tables
  <1> QED
    BY <1>1, <1>4 DEF SerialInv

(* An answered call has nothing in hand.                                     *)
LEMMA AnsweredInHand ==
    ASSUME NEW c \in Calls, Answered(c), InHand(c), clock' = clock
    PROVE  InHand(c)'
  BY DEF Answered, InHand, At

(* A command takes in hand the present instant.                              *)
LEMMA SerialUser ==
    ASSUME TablesInv, SerialInv, OneSlot, NEW c \in Calls, User(c)
    PROVE  SerialInv'
  <1>1. UNCHANGED <<Tables, clock>> /\ clock \in Nat
    BY DEF User, InvokeStart, InvokeStop, InvokeComplete, InvokeActive,
           InvokeReindex, Invoke, TablesInv, TypeOK, Time
  <1>2. /\ calls'[c].at \in {0, clock}
        /\ calls'[c].op \in {"start", "stop", "complete"} => calls'[c].at = clock
        /\ ~At(c, "start", "write")'
    BY DEF User, InvokeStart, InvokeStop, InvokeComplete, InvokeActive,
           InvokeReindex, Invoke, TablesInv, TypeOK, At
  <1>3. LoggedBy(clock)' 
    BY <1>1 DEF SerialInv, LoggedBy, Tables
  <1>4. InHand(c)'
    BY <1>1, <1>2, <1>3 DEF InHand, LoggedBy
  <1> QED
    BY <1>1, <1>4, SerialQuiet DEF OneSlot, TablesInv

(* Answers heard, a restart and the clock leave the tables alone.            *)
LEMMA SerialEnvironment ==
    ASSUME TablesInv, SerialInv, (\E c \in Calls : Return(c)) \/ Crash \/ Tick
    PROVE  SerialInv'
  <1>1. UNCHANGED Tables /\ clock \in Nat /\ clock' \in Nat /\ clock <= clock'
    BY DEF Return, Crash, Tick, TablesInv, TypeOK, Time
  <1>2. ASSUME NEW c \in Calls PROVE InHand(c)'
    <2>1. CASE calls'[c] = Idle
      BY <2>1, <1>1 DEF InHand, Idle, At
    <2>2. CASE calls'[c] = calls[c]
      <3>1. InHand(c) /\ calls[c].at \in Nat
        BY DEF SerialInv, TablesInv, TypeOK, Call, Time
      <3>2. LoggedBy(calls[c].at) => LoggedBy(calls[c].at)'
        BY <2>2, <1>1 DEF LoggedBy, Tables
      <3>3. OpenSessions' = OpenSessions
        BY <1>1 DEF OpenSessions, Tables
      <3> QED BY <3>1, <3>2, <3>3, <2>2, <1>1 DEF InHand, At
    <2>3. calls'[c] \in {Idle, calls[c]}
      BY DEF Return, Crash, Tick, TablesInv, TypeOK
    <2> QED BY <2>1, <2>2, <2>3
  <1> QED
    BY <1>1, <1>2, SerialQuiet DEF TablesInv

(* A refusal, a failure or an answer that wrote nothing.                     *)
LEMMA SerialAnswered ==
    ASSUME TablesInv, SerialInv, OneSlot, NEW c \in Calls, Answered(c),
           UNCHANGED <<Tables, clock>>
    PROVE  SerialInv'
  <1>1. InHand(c)'
    BY AnsweredInHand DEF SerialInv
  <1> QED
    BY <1>1, SerialQuiet DEF OneSlot, TablesInv, TypeOK, Time

(* The reads: only a start's check takes something in hand.                  *)
LEMMA SerialRead ==
    ASSUME TablesInv, SerialInv, OneSlot, NEW c \in Calls,
           StartRead(c) \/ StopRead(c)
    PROVE  SerialInv'
  <1>1. UNCHANGED <<Tables, clock>>
    BY DEF StartRead, StopRead
  <1>2. CASE Answer(c, "invalid", Null)
    BY <1>1, <1>2, AnswerAnswers, SerialAnswered DEF TablesInv, Reply, Null
  <1>3. CASE ~Answer(c, "invalid", Null)
    <2>1. /\ calls'[c].pc = "write" /\ calls[c].pc = "read"
          /\ calls'[c].op = calls[c].op /\ calls'[c].at = calls[c].at
          /\ calls[c].op \in {"start", "stop"}
          /\ calls[c].op = "start" => OpenSessions = {}
      BY <1>3, JoinFindsOpen DEF StartRead, StopRead, TablesInv, TypeOK, Call, At
    <2>2. LoggedBy(calls[c].at)'
      BY <1>1, <2>1 DEF SerialInv, InHand, LoggedBy, Tables
    <2>3. OpenSessions' = OpenSessions
      BY <1>1 DEF OpenSessions, Tables
    <2>4. InHand(c)'
      BY <1>1, <2>1, <2>2, <2>3 DEF SerialInv, InHand, At, LoggedBy
    <2> QED
      BY <1>1, <2>4, SerialQuiet DEF OneSlot, TablesInv, TypeOK, Time
  <1> QED
    BY <1>2, <1>3

(* The insert of a start: nothing is open and nothing is logged after it.    *)
LEMMA SerialStartWrite ==
    ASSUME TablesInv, SerialInv, OneSlot, NEW c \in Calls, StartWrite(c)
    PROVE  SerialInv'
  <1> DEFINE n == Len(sessions)
             at == calls[c].at
  <1>1. /\ n \in Nat /\ DOMAIN sessions = 1..n /\ DOMAIN sessions' = 1..(n + 1)
        /\ \A s \in 1..n : sessions'[s] = sessions[s]
        /\ sessions'[n + 1] = [startedAt |-> at, endedAt |-> Null]
        /\ \A s \in 1..n : sessions[s] \in Session
    BY StartAppends, RowTypes DEF TablesInv
  <1>2. /\ at \in Nat /\ clock \in Nat /\ at <= clock /\ clock' = clock
        /\ LoggedBy(at) /\ OpenSessions = {} /\ calls[c].chunk \in Chunks
    BY DEF StartWrite, SerialInv, InHand, At, TablesInv, TypeOK, CallsOK, Call,
           Time
  <1>3. Answered(c)
    BY <1>1, CommittedAnswers DEF StartWrite, TablesInv
  <1>4. SittingsInOrder'
    <2>1. \A s \in 1..n : sessions[s].endedAt # Null /\ sessions[s].endedAt <= at
      BY <1>1, <1>2 DEF OpenSessions, LoggedBy
    <2> QED
      BY <1>1, <2>1 DEF SerialInv, SittingsInOrder
  <1>5. LoggedBy(clock)'
    <2>1. \A k \in Chunks : chunks'[k].updatedAt \in {chunks[k].updatedAt, at}
      BY <1>2 DEF StartWrite, TablesInv, TypeOK
    <2>2. \A s \in 1..n : sessions[s].startedAt \in Int /\ sessions[s].endedAt \in Int
      BY <1>1 DEF Session, Time, Null
    <2> QED
      BY <1>1, <1>2, <2>1, <2>2 DEF SerialInv, LoggedBy, Null
  <1>6. InHand(c)'
    BY <1>2, <1>3, AnsweredInHand DEF SerialInv
  <1> QED
    BY <1>4, <1>5, <1>6 DEF SerialInv, OneSlot

(* The update of a stop: only the last session can still be open.            *)
LEMMA SerialStopWrite ==
    ASSUME TablesInv, SerialInv, OneSlot, NEW c \in Calls, StopWrite(c)
    PROVE  SerialInv'
  <1> DEFINE s == calls[c].target
             at == calls[c].at
  <1>1. /\ s \in DOMAIN sessions /\ sessions[s].endedAt = Null
        /\ DOMAIN sessions' = DOMAIN sessions
        /\ DOMAIN sessions \subseteq Nat /\ s \in Nat
    BY StopCloses, RowTypes DEF TablesInv
  <1>2. /\ at \in Nat /\ clock \in Nat /\ at <= clock
        /\ clock' = clock /\ chunks' = chunks /\ LoggedBy(at)
    BY DEF StopWrite, SerialInv, InHand, At, TablesInv, TypeOK, Call, Time
  <1>3. Answered(c)
    BY <1>1, CommittedAnswers DEF StopWrite, TablesInv
  <1>4. /\ \A r \in DOMAIN sessions : sessions'[r].startedAt = sessions[r].startedAt
        /\ \A r \in DOMAIN sessions \ {s} :
              sessions'[r].endedAt = sessions[r].endedAt
        /\ sessions'[s].endedAt = at
    BY StopCloses
  <1>5. SittingsInOrder'
    <2>1. \A r \in DOMAIN sessions : ~(s < r)
      BY <1>1 DEF SerialInv, SittingsInOrder
    <2>2. sessions'[s].startedAt <= at
      BY <1>1, <1>2, <1>4 DEF LoggedBy
    <2> QED
      BY <1>1, <1>4, <2>1, <2>2 DEF SerialInv, SittingsInOrder
  <1>6. LoggedBy(clock)'
    BY <1>1, <1>2, <1>4 DEF SerialInv, LoggedBy
  <1>7. InHand(c)'
    BY <1>2, <1>3, AnsweredInHand DEF SerialInv
  <1> QED
    BY <1>5, <1>6, <1>7 DEF SerialInv, OneSlot

(* A completion or an index writes no activity later than the clock.         *)
LEMMA SerialChunkWrite ==
    ASSUME TablesInv, SerialInv, OneSlot, NEW c \in Calls,
           CompleteWrite(c) \/ IndexWrite(c)
    PROVE  SerialInv'
  <1>1. UNCHANGED <<sessions, stages, clock>> /\ Answered(c)
    BY CommittedAnswers DEF CompleteWrite, IndexWrite, TablesInv, Null
  <1>2. \A k \in Chunks : chunks'[k].updatedAt <= clock
    <2>1. ASSUME CompleteWrite(c), NEW k \in Chunks
          PROVE  chunks'[k].updatedAt \in {chunks[k].updatedAt, calls[c].at}
      BY <2>1 DEF CompleteWrite, TablesInv, TypeOK
    <2>2. ASSUME IndexWrite(c), NEW k \in Chunks
          PROVE  chunks'[k].updatedAt \in {chunks[k].updatedAt, clock}
      BY <2>2 DEF IndexWrite, Upserted
    <2>3. clock <= clock /\ calls[c].at <= clock
      BY DEF SerialInv, InHand, TablesInv, TypeOK, Time
    <2> QED
      BY <2>1, <2>2, <2>3 DEF SerialInv, LoggedBy
  <1>3. SittingsInOrder' /\ LoggedBy(clock)'
    BY <1>1, <1>2 DEF SerialInv, SittingsInOrder, LoggedBy
  <1>4. InHand(c)'
    BY <1>1, AnsweredInHand DEF SerialInv
  <1> QED
    BY <1>3, <1>4 DEF SerialInv, OneSlot

(* Every step keeps the serial invariant, if there is one slot.              *)
LEMMA SerialNext ==
    ASSUME TablesInv, SerialInv, OneSlot, [Next]_studyVars
    PROVE  SerialInv'
  <1>1. ASSUME NEW c \in Calls,
               \/ StartRefused(c) \/ StopRefused(c) \/ CompleteRefused(c)
               \/ ActiveRead(c) \/ Fail(c)
        PROVE  SerialInv'
    <2>1. UNCHANGED <<Tables, clock>>
      BY <1>1 DEF StartRefused, StopRefused, CompleteRefused, ActiveRead, Fail
    <2>2. Answered(c)
      <3>1. \A s \in OpenRows : s \in Nat
        BY RowTypes DEF OpenRows, TablesInv
      <3> QED
        BY <1>1, <3>1, AnswerAnswers
           DEF StartRefused, StopRefused, CompleteRefused, ActiveRead, Fail,
               TablesInv, Reply, Null
    <2> QED
      BY <2>1, <2>2, SerialAnswered
  <1>2. ASSUME NEW c \in Calls, Work(c) PROVE SerialInv'
    BY <1>1, <1>2, SerialRead, SerialStartWrite, SerialStopWrite,
       SerialChunkWrite DEF Work
  <1>3. CASE UNCHANGED studyVars
    <2>1. UNCHANGED <<Tables, clock, calls>>
      BY <1>3 DEF studyVars, Tables
    <2> QED
      BY <2>1 DEF SerialInv, SittingsInOrder, LoggedBy, InHand, At,
                  OpenSessions, Tables
  <1> QED
    BY <1>1, <1>2, <1>3, SerialUser, SerialEnvironment DEF Next

(* With one command at a time the log is a proper one: no session ends before *)
(* it starts or starts before the last one ended, whatever failed, was lost  *)
(* or was restarted in between (application/session.rs, session_pg.rs).      *)
THEOREM SerialSittings ==
    ASSUME Cardinality(Calls) = 1
    PROVE  Spec => []SittingsInOrder
  <1>1. OneSlot
    BY CallsAssumption, FS_Singleton DEF OneSlot
  <1>2. SerialInv => SittingsInOrder
    BY DEF SerialInv
  <1>3. TablesInv /\ SerialInv /\ [Next]_studyVars => SerialInv'
    BY <1>1, SerialNext
  <1> QED
    BY <1>2, <1>3, SerialInit, TablesInvariant, PTL DEF Spec

(* With one command at a time no write turns a chunk's last activity back.   *)
THEOREM SerialActivity ==
    ASSUME Cardinality(Calls) = 1
    PROVE  Spec => UpdatedAtNeverRewinds
  <1>1. OneSlot
    BY CallsAssumption, FS_Singleton DEF OneSlot
  <1>2. TablesInv /\ SerialInv /\ [Next]_studyVars
        => [\A k \in Chunks : chunks[k].updatedAt <= chunks'[k].updatedAt]_chunks
    <2> SUFFICES ASSUME TablesInv, SerialInv, [Next]_studyVars,
                        chunks' # chunks, NEW k \in Chunks
                 PROVE  chunks[k].updatedAt <= chunks'[k].updatedAt
      OBVIOUS
    <2>1. PICK c \in Calls : StartWrite(c) \/ CompleteWrite(c) \/ IndexWrite(c)
      BY ChunkWriters
    <2>2. /\ chunks[k].updatedAt \in Nat /\ chunks[k].updatedAt <= clock
          /\ StartWrite(c) \/ CompleteWrite(c)
             => chunks[k].updatedAt <= calls[c].at
      BY DEF SerialInv, InHand, LoggedBy, StartWrite, CompleteWrite, At,
             TablesInv, TypeOK, Time
    <2>3. ASSUME StartWrite(c)
          PROVE  chunks'[k].updatedAt \in {chunks[k].updatedAt, calls[c].at}
      BY <2>3 DEF StartWrite, TablesInv, TypeOK
    <2>4. ASSUME CompleteWrite(c)
          PROVE  chunks'[k].updatedAt \in {chunks[k].updatedAt, calls[c].at}
      BY <2>4 DEF CompleteWrite, TablesInv, TypeOK
    <2>5. ASSUME IndexWrite(c)
          PROVE  chunks'[k].updatedAt \in {chunks[k].updatedAt, clock}
      BY <2>5 DEF IndexWrite, Upserted
    <2> QED
      BY <2>1, <2>2, <2>3, <2>4, <2>5
  <1>3. TablesInv /\ SerialInv /\ [Next]_studyVars => SerialInv'
    BY <1>1, SerialNext
  <1> QED
    BY <1>2, <1>3, SerialInit, TablesInvariant, PTL
       DEF Spec, UpdatedAtNeverRewinds
=============================================================================
