----------------------- MODULE StudyRefinement_proofs -----------------------
(* StudyLoop implements StudyRecord, for any chunks, finitely many command   *)
(* slots and any bounds: the tables, read as a log of sittings, take only    *)
(* the steps StudyRecord allows.                                             *)
EXTENDS StudyLoop_proofs, SequenceTheorems

Sitting(s) == [chunk |-> stages[s].chunk,
               from |-> sessions[s].startedAt,
               to |-> sessions[s].endedAt]

Log == [s \in DOMAIN sessions |-> Sitting(s)]

Finished == {k \in Chunks : chunks[k].status = "done"}

SittingRow == [chunk : Chunks, from : Time, to : Time \union {Null}]

(* The log is as long as the tables, and typed like them.                    *)
LEMMA LogRows ==
    ASSUME TablesInv
    PROVE  /\ Log \in Seq(SittingRow) /\ Len(Log) = Len(sessions)
           /\ DOMAIN Log = 1..Len(sessions) /\ Len(sessions) \in Nat
           /\ \A s \in DOMAIN sessions :
                 s \in DOMAIN stages /\ sessions[s] \in Session
  <1>1. \A s \in DOMAIN sessions :
            /\ s \in DOMAIN stages
            /\ sessions[s] \in Session /\ stages[s].chunk \in Chunks
    BY RowTypes DEF TablesInv, StagesMatchSessions
  <1>2. \A s \in DOMAIN sessions : Sitting(s) \in SittingRow
    BY <1>1 DEF Sitting, SittingRow, Session
  <1>3. Log \in [1..Len(sessions) -> SittingRow] /\ Len(sessions) \in Nat
    BY <1>2, RowTypes DEF Log, TablesInv
  <1> QED
    BY <1>1, <1>3

(* StudyRecord counts as FiniteSets does.                                    *)
LEMMA SameCount == \A S : Record!Cardinality(S) = Cardinality(S)
  BY DEF Record!Cardinality, Cardinality

(* The sittings in progress are the open sessions.                           *)
LEMMA OngoingIsOpen == Record!InProgress = OpenSessions
  BY DEF Record!InProgress, Record!Ongoing, OpenSessions, Null

(* A start's transaction begins a sitting: the chunk is not finished, and    *)
(* the slot of the start leaves room for it under the overlap.               *)
LEMMA StartBegins ==
    ASSUME TablesInv, TablesInv', OverlapBound, NEW c \in Calls, StartWrite(c),
           NEW k, NEW at, k = calls[c].chunk, at = calls[c].at
    PROVE  k \in Chunks /\ at \in Time /\ Record!Begin(k, at)
  <1> DEFINE new == [chunk |-> k, from |-> at, to |-> Null]
  <1>1. k \in Chunks /\ at \in Time /\ new \in SittingRow
    BY DEF StartWrite, At, TablesInv, CallsOK, TypeOK, Call, SittingRow
  <1>2. k \notin Finished
    BY DEF StartWrite, Startable, Finished
  <1>3. Cardinality(OpenSessions) < Cardinality(Calls)
    <2>1. c \in StartsPastCheck
      BY DEF StartWrite, StartsPastCheck
    <2>2. Cardinality(StartsPastCheck) # 0
      BY <2>1, CountedSetsFinite, FS_EmptySet DEF TablesInv
    <2>3. /\ Cardinality(OpenSessions) \in Nat
          /\ Cardinality(StartsPastCheck) \in Nat
          /\ Cardinality(Calls) \in Nat
      BY CountedSetsFinite, CallsAssumption, FS_CardinalityType DEF TablesInv
    <2> QED
      BY <2>2, <2>3 DEF OverlapBound
  <1>4. Log' = Append(Log, new)
    <2> DEFINE n == Len(sessions)
    <2>1. /\ DOMAIN sessions' = 1..(n + 1) /\ n \in Nat
          /\ \A s \in 1..n : sessions'[s] = sessions[s]
          /\ sessions'[n + 1] = [startedAt |-> at, endedAt |-> Null]
      BY StartAppends, RowTypes DEF TablesInv
    <2>2. /\ \A s \in 1..n : stages'[s] = stages[s]
          /\ stages'[n + 1].chunk = k
      <3>1. stages \in Seq(Stage) /\ Len(stages) = n
        BY DEF TablesInv, TypeOK, StagesMatchSessions
      <3>2. [session |-> n + 1, chunk |-> k,
             startedAt |-> at, endedAt |-> Null] \in Stage
        BY <1>1, <2>1 DEF Stage
      <3> QED
        BY <3>1, <3>2 DEF StartWrite
    <2>3. \A s \in 1..n : Log'[s] = Log[s]
      BY <2>1, <2>2, RowTypes DEF Log, Sitting, TablesInv
    <2>4. Log'[n + 1] = new
      BY <2>1, <2>2 DEF Log, Sitting
    <2>5. DOMAIN Log' = 1..(n + 1) /\ Log' = [s \in 1..(n + 1) |-> Log'[s]]
      BY <2>1 DEF Log
    <2>6. Log \in Seq(SittingRow) /\ Len(Log) = n
      BY LogRows
    <2> HIDE DEF n, new
    <2>7. /\ Append(Log, new) \in Seq(SittingRow)
          /\ Len(Append(Log, new)) = n + 1
          /\ \A s \in 1..n : Append(Log, new)[s] = Log[s]
          /\ Append(Log, new)[n + 1] = new
      BY <2>6, <1>1, <2>1, AppendProperties
    <2>8. Append(Log, new) = [s \in 1..(n + 1) |-> Append(Log, new)[s]]
      <3> DEFINE longer == Append(Log, new)
      <3> HIDE DEF longer
      <3>1. longer \in Seq(SittingRow) /\ Len(longer) = n + 1
        BY <2>7 DEF longer
      <3>2. longer \in [1..(n + 1) -> SittingRow]
        BY <3>1, LenProperties
      <3>3. longer = [s \in 1..(n + 1) |-> longer[s]]
        BY <3>2
      <3> QED
        BY <3>3 DEF longer
    <2> QED
      BY <2>1, <2>3, <2>4, <2>5, <2>7, <2>8
  <1>5. Finished' = Finished
    BY <1>1, <1>2 DEF StartWrite, Finished, TablesInv, TypeOK
  <1>6. Record!Cardinality(Record!InProgress) < Cardinality(Calls)
    BY <1>3, OngoingIsOpen, SameCount
  <1>7. Log' = Append(Log, [chunk |-> k, from |-> at, to |-> Record!Ongoing])
    BY <1>4 DEF Record!Ongoing, Null
  <1> QED
    BY <1>1, <1>2, <1>5, <1>6, <1>7, Zenon DEF Record!Begin, Log, Sitting, Finished

(* A stop's transaction ends one sitting that was in progress.               *)
LEMMA StopEnds ==
    ASSUME TablesInv, TablesInv', NEW c \in Calls, StopWrite(c),
           NEW s, NEW at, s = calls[c].target, at = calls[c].at
    PROVE  s \in Record!InProgress /\ at \in Time /\ Record!End(s, at)
  <1>1. /\ s \in DOMAIN sessions
        /\ DOMAIN sessions' = DOMAIN sessions
        /\ \A t \in DOMAIN sessions :
              /\ sessions'[t].startedAt = sessions[t].startedAt
              /\ sessions'[t].endedAt =
                    IF t = s THEN at ELSE sessions[t].endedAt
    BY StopCloses
  <1>2. s \in Record!InProgress
    BY StopCloses, OngoingIsOpen DEF OpenSessions
  <1>0. at \in Time
    BY DEF StopWrite, At, TablesInv, CallsOK, TypeOK, Call
  <1>3. \A t \in DOMAIN sessions : stages'[t].chunk = stages[t].chunk
    <2> SUFFICES ASSUME NEW t \in DOMAIN sessions
                 PROVE  stages'[t].chunk = stages[t].chunk
      OBVIOUS
    <2>1. t \in DOMAIN stages /\ stages[t] \in Stage
      BY RowTypes, LogRows DEF TablesInv
    <2> QED
      BY <2>1 DEF StopWrite, CloseStages, Stage
  <1>4. \A t \in DOMAIN sessions :
           Sitting(t)' = IF t = s THEN [Sitting(t) EXCEPT !.to = at]
                                  ELSE Sitting(t)
    <2> SUFFICES ASSUME NEW t \in DOMAIN sessions
                 PROVE  Sitting(t)' = IF t = s
                                      THEN [Sitting(t) EXCEPT !.to = at]
                                      ELSE Sitting(t)
      OBVIOUS
    <2>1. CASE t = s
      BY <2>1, <1>1, <1>3 DEF Sitting
    <2>2. CASE t # s
      BY <2>2, <1>1, <1>3 DEF Sitting
    <2> QED
      BY <2>1, <2>2
  <1>5. Log' = [Log EXCEPT ![s].to = at]
    BY <1>1, <1>4 DEF Log
  <1>6. Finished' = Finished
    BY DEF StopWrite, Finished
  <1> QED
    BY <1>0, <1>2, <1>5, <1>6, Zenon DEF Record!End, Log, Sitting, Finished

(* A completion finishes its chunk.                                          *)
LEMMA CompletionFinishes ==
    ASSUME TablesInv, NEW c \in Calls, CompleteWrite(c),
           NEW k, k = calls[c].chunk
    PROVE  k \in Chunks /\ Record!Finish(k)
  <1>1. k \in Chunks
    BY DEF CompleteWrite, At, TablesInv, CallsOK
  <1>2. Finished' = Finished \union {k}
    BY <1>1 DEF CompleteWrite, Finished, TablesInv, TypeOK
  <1>3. Log' = Log
    BY DEF CompleteWrite, Log, Sitting
  <1> QED
    BY <1>1, <1>2, <1>3, Zenon DEF Record!Finish, Log, Sitting, Finished

(* A re-index seeds chunks nobody has sat with.                              *)
LEMMA IndexSeeds ==
    ASSUME TablesInv, NEW c \in Calls, IndexWrite(c)
    PROVE  \E S \in SUBSET Chunks : Record!Seed(S)
  <1>0. PICK S : S = Finished' \ Finished
    OBVIOUS
  <1>1. PICK found \in SUBSET Chunks, finished \in SUBSET Chunks :
            chunks' = [k \in Chunks |->
                          IF k \in found THEN Upserted(k, finished)
                                         ELSE chunks[k]]
    BY DEF IndexWrite
  <1>2. \A k \in Chunks :
           chunks[k].status \in {"in_progress", "done"}
           => chunks'[k] = chunks[k]
    BY <1>1, UpsertKeepsProgress DEF TablesInv
  <1>3. S \subseteq Chunks /\ Finished' = Finished \union S
    BY <1>0, <1>2 DEF Finished
  <1>4. S \intersect Record!SatWith = {}
    <2> SUFFICES ASSUME NEW k \in S, k \in Record!SatWith PROVE FALSE
      OBVIOUS
    <2>1. PICK s \in DOMAIN sessions : k = stages[s].chunk
      BY DEF Record!SatWith
    <2>2. chunks[k].status \in {"in_progress", "done"} /\ k \in Chunks
      BY <2>1, LogRows, RowTypes DEF TablesInv, StudiedChunkKeepsProgress
    <2> QED
      BY <2>2, <1>0, <1>2 DEF Finished
  <1>5. Log' = Log
    BY DEF IndexWrite, Log, Sitting
  <1>6. Record!Seed(S)
    BY <1>3, <1>4, <1>5, Zenon DEF Record!Seed, Log, Sitting, Finished
  <1> QED
    BY <1>3, <1>6

(* The tables implement the study record: every transaction is one of its    *)
(* steps and nothing else touches it (session_pg.rs, index_repo.rs).         *)
THEOREM TablesImplementRecord == Spec => ImplementsRecord
  <1>1. Init => Record!Init
    BY DEF Init, Record!Init
  <1>2. /\ TablesInv /\ TablesInv' /\ OverlapBound
        /\ [Next]_studyVars
        => [Record!Next]_(Record!recordVars)
    <2> SUFFICES ASSUME TablesInv, TablesInv', OverlapBound, [Next]_studyVars
                 PROVE  Record!Next \/ UNCHANGED Record!recordVars
      OBVIOUS
    <2>1. ASSUME NEW c \in Calls, StartWrite(c) PROVE Record!Next
      <3>1. PICK k, at : k = calls[c].chunk /\ at = calls[c].at
        OBVIOUS
      <3>2. k \in Chunks /\ at \in Time /\ Record!Begin(k, at)
        BY <3>1, <2>1, StartBegins
      <3> QED
        BY <3>2 DEF Record!Next
    <2>2. ASSUME NEW c \in Calls, StopWrite(c) PROVE Record!Next
      <3>1. PICK s, at : s = calls[c].target /\ at = calls[c].at
        OBVIOUS
      <3>2. s \in Record!InProgress /\ at \in Time /\ Record!End(s, at)
        BY <3>1, <2>2, StopEnds
      <3> QED
        BY <3>2 DEF Record!Next
    <2>3. ASSUME NEW c \in Calls, CompleteWrite(c) PROVE Record!Next
      <3>1. PICK k : k = calls[c].chunk
        OBVIOUS
      <3>2. k \in Chunks /\ Record!Finish(k)
        BY <3>1, <2>3, CompletionFinishes
      <3> QED
        BY <3>2 DEF Record!Next
    <2>4. ASSUME NEW c \in Calls, IndexWrite(c) PROVE Record!Next
      BY <2>4, IndexSeeds DEF Record!Next
    <2>5. CASE UNCHANGED Tables
      BY <2>5 DEF Tables, Record!recordVars
    <2> QED
      BY <2>1, <2>2, <2>3, <2>4, <2>5, ChunkWriters, SessionWriters DEF Tables
  <1> QED
    BY <1>1, <1>2, TablesInvariant, OverlapBounded, PTL
       DEF Spec, ImplementsRecord, Record!Spec
=============================================================================
