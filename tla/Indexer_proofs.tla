--------------------------- MODULE Indexer_proofs ---------------------------
(* Proofs about Indexer, for every finite vault, every naming of its folders *)
(* and every bound of the clock.                                             *)
EXTENDS Indexer, FiniteSetTheorems, TLAPS

Found == [ord : Int, status : {"queued", "done"}]
Tracks == {Track[d] : d \in Dirs}

Job == [pc : {"idle", "scan", "upsert"},
        scan : UNION {[D -> Found] : D \in SUBSET Dirs},
        todo : SUBSET Dirs,
        written : UNION {[D -> Row] : D \in SUBSET Dirs},
        began : Time]

TypesInv ==
    /\ vault \in [Dirs -> {"absent", "open", "studied"}]
    /\ chunks \in UNION {[D -> Row] : D \in SUBSET Dirs}
    /\ sources \in UNION {[T -> Nat] : T \in SUBSET Tracks}
    /\ job \in Job
    /\ indexed \in BOOLEAN
    /\ clock \in Time

OrdsDistinct(rows) ==
    \A d, e \in DOMAIN rows :
        Track[d] = Track[e] /\ rows[d].ord = rows[e].ord => d = e

(* The transaction has written what it has taken off its list, each row as   *)
(* the scan and the row found there make it; that row is locked since.  When *)
(* the vault was already indexed it has changed nothing.                     *)
WrittenOK ==
    /\ job.todo \subseteq DOMAIN job.scan
    /\ DOMAIN job.written = DOMAIN job.scan \ job.todo
    /\ job.pc # "upsert" => DOMAIN job.scan = {}
    /\ \A d \in DOMAIN job.written :
          /\ job.written[d].ord = job.scan[d].ord
          /\ job.scan[d].status = "done" => job.written[d].status # "queued"
          /\ d \in DOMAIN chunks /\ chunks[d].status # "queued" =>
                /\ job.written[d].status = chunks[d].status
                /\ job.written[d].updatedAt = chunks[d].updatedAt
          /\ indexed /\ job.scan = ScanResult =>
                d \in DOMAIN chunks /\ job.written[d] = chunks[d]

(* What an index that is up to date says.                                    *)
IndexedOK ==
    indexed => \A d \in Present :
        /\ d \in DOMAIN chunks
        /\ chunks[d].ord = CourseOrd(d)
        /\ SeededStatus(d) = "done" => chunks[d].status # "queued"
        /\ Track[d] \in DOMAIN sources
        /\ sources[Track[d]] = SourceOrd(ScanResult, Track[d])

(* The inductive invariant: the table keeps its orders distinct because the  *)
(* rows the transaction sees do, and progress because they are locked.       *)
IndexInv ==
    /\ TypesInv
    /\ OrdsDistinct(chunks)
    /\ OrdsDistinct(Seen)
    /\ WrittenOK
    /\ IndexedOK

-----------------------------------------------------------------------------
(* The walk. *)

(* The siblings up to a folder can be counted.                               *)
LEMMA PresentFinite ==
    ASSUME NEW d \in Dirs
    PROVE  /\ IsFiniteSet({e \in Siblings(d) : e <= d})
           /\ Cardinality({e \in Siblings(d) : e <= d}) \in Nat
  <1>1. {e \in Siblings(d) : e <= d} \subseteq Dirs
    BY DEF Siblings, Present
  <1> QED
    BY <1>1, DirsAssumption, FS_Subset, FS_CardinalityType

(* A place in the course is a number.                                        *)
LEMMA CourseOrdIsInt ==
    ASSUME NEW d \in Dirs PROVE CourseOrd(d) \in Int
  <1>1. Leading[d] \in Int
    BY DirsAssumption DEF NoNumber
  <1> QED
    BY <1>1, PresentFinite DEF CourseOrd

(* Counting the siblings up to a chunk tells siblings apart.                 *)
LEMMA EnumerationDistinct ==
    ASSUME NEW d \in Present, NEW e \in Present, Siblings(d) = Siblings(e),
           d \in Siblings(d), e \in Siblings(d), d < e
    PROVE  Cardinality({f \in Siblings(d) : f <= d})
              # Cardinality({f \in Siblings(e) : f <= e})
  <1> DEFINE low == {f \in Siblings(d) : f <= d}
             high == {f \in Siblings(e) : f <= e}
  <1>1. d \in Nat /\ e \in Nat /\ Siblings(d) \subseteq Nat
        /\ d \in Dirs /\ e \in Dirs
    BY DirsAssumption DEF Present, Siblings
  <1>2. low \subseteq high
    BY <1>1
  <1>3. e \in high /\ e \notin low
    BY <1>1
  <1>4. IsFiniteSet(high)
    BY <1>1, PresentFinite
  <1> QED
    BY <1>2, <1>3, <1>4, FS_Subset

(* Two siblings never get one place, numbered or enumerated.                 *)
LEMMA OrdsOfAScan ==
    ASSUME NEW d \in Present, NEW e \in Present,
           Track[d] = Track[e], CourseOrd(d) = CourseOrd(e)
    PROVE  d = e
  <1>1. /\ Siblings(d) = Siblings(e) /\ d \in Siblings(d) /\ e \in Siblings(d)
        /\ d \in Nat /\ e \in Nat
    BY DirsAssumption DEF Siblings, Present
  <1>2. CASE Track[d] # VideoTrack /\ Numbered(Siblings(d))
    BY <1>1, <1>2 DEF CourseOrd, Numbered
  <1>3. CASE ~(Track[d] # VideoTrack /\ Numbered(Siblings(d)))
    <2>1. Cardinality({f \in Siblings(d) : f <= d})
             = Cardinality({f \in Siblings(e) : f <= e})
      BY <1>1, <1>3 DEF CourseOrd
    <2>2. ~(d < e) /\ ~(e < d)
      BY <1>1, <2>1, EnumerationDistinct
    <2> QED
      BY <1>1, <2>2
  <1> QED
    BY <1>2, <1>3

(* A scan has a place and a seeded status for each folder on disk.           *)
LEMMA ScanIsTyped ==
    /\ ScanResult \in [Present -> Found]
    /\ Present \subseteq Dirs
    /\ ScanResult \in UNION {[D -> Found] : D \in SUBSET Dirs}
    /\ \A d \in Present :
          ScanResult[d].ord = CourseOrd(d) /\ ScanResult[d].status = SeededStatus(d)
  <1>1. Present \subseteq Dirs
    BY DEF Present
  <1>2. ASSUME NEW d \in Present
        PROVE  [ord |-> CourseOrd(d), status |-> SeededStatus(d)] \in Found
    <2>1. SeededStatus(d) \in {"queued", "done"}
      BY DEF SeededStatus
    <2> QED
      BY <1>1, <2>1, CourseOrdIsInt DEF Found
  <1>3. ScanResult \in [Present -> Found]
    BY <1>2 DEF ScanResult
  <1> QED
    BY <1>1, <1>3 DEF ScanResult

(* However the folders are named, a scan gives siblings distinct places      *)
(* (vault_fs.rs course_ords).                                                *)
THEOREM ScanOrds == Spec => []ScanOrdsDistinct
  <1>1. ScanOrdsDistinct
    BY OrdsOfAScan DEF ScanOrdsDistinct
  <1> QED
    BY <1>1, PTL

-----------------------------------------------------------------------------
(* The rows the transaction sees. *)

(* Empty tables are tables.                                                  *)
LEMMA EmptyIsTyped ==
    /\ DOMAIN Empty = {}
    /\ Empty \in UNION {[D -> Row] : D \in SUBSET Dirs}
    /\ Empty \in UNION {[D -> Found] : D \in SUBSET Dirs}
    /\ Empty \in UNION {[T -> Nat] : T \in SUBSET Tracks}
  <1>1. DOMAIN Empty = {}
    BY DEF Empty
  <1>2. \A S : Empty \in [{} -> S]
    BY DEF Empty
  <1> QED
    BY <1>1, <1>2

(* So are the jobs that begin and end.                                       *)
LEMMA NoJobIsTyped == NoJob \in Job /\ [NoJob EXCEPT !.pc = "scan"] \in Job
  <1>1. 0 \in Time
    BY TimeAssumption DEF Time
  <1> QED
    BY <1>1, EmptyIsTyped DEF NoJob, Job

(* The tables and the job, row by row.                                       *)
LEMMA TablesTyped ==
    ASSUME TypesInv
    PROVE  /\ DOMAIN chunks \subseteq Dirs /\ chunks = [d \in DOMAIN chunks |-> chunks[d]]
           /\ \A d \in DOMAIN chunks : chunks[d] \in Row
           /\ DOMAIN job.written \subseteq Dirs
           /\ job.written = [d \in DOMAIN job.written |-> job.written[d]]
           /\ \A d \in DOMAIN job.written : job.written[d] \in Row
           /\ DOMAIN job.scan \subseteq Dirs
           /\ \A d \in DOMAIN job.scan : job.scan[d] \in Found
           /\ DOMAIN sources \subseteq Tracks
           /\ \A t \in DOMAIN sources : sources[t] \in Nat
  <1>1. PICK D \in SUBSET Dirs : chunks \in [D -> Row]
    BY DEF TypesInv
  <1>2. PICK W \in SUBSET Dirs : job.written \in [W -> Row]
    BY DEF TypesInv, Job
  <1>3. PICK F \in SUBSET Dirs : job.scan \in [F -> Found]
    BY DEF TypesInv, Job
  <1>4. PICK T \in SUBSET Tracks : sources \in [T -> Nat]
    BY DEF TypesInv
  <1> QED
    BY <1>1, <1>2, <1>3, <1>4

(* The transaction sees its own rows over the committed ones.                *)
LEMMA SeenRows ==
    ASSUME TypesInv
    PROVE  /\ DOMAIN Seen = DOMAIN chunks \union DOMAIN job.written
           /\ \A d \in DOMAIN Seen :
                 /\ Seen[d] = IF d \in DOMAIN job.written THEN job.written[d]
                                                          ELSE chunks[d]
                 /\ Seen[d] \in Row
           /\ Seen \in UNION {[D -> Row] : D \in SUBSET Dirs}
  <1>1. /\ DOMAIN Seen = DOMAIN chunks \union DOMAIN job.written
        /\ \A d \in DOMAIN Seen :
              Seen[d] = IF d \in DOMAIN job.written THEN job.written[d]
                                                    ELSE chunks[d]
        /\ Seen = [d \in DOMAIN Seen |-> Seen[d]]
    BY DEF Seen, Extend
  <1>2. /\ \A d \in DOMAIN Seen : Seen[d] \in Row
        /\ DOMAIN Seen \subseteq Dirs
    BY <1>1, TablesTyped
  <1> QED
    BY <1>1, <1>2

(* A row stays, or is new; it keeps any progress it had.                     *)
LEMMA UpsertedRow ==
    ASSUME NEW rows, NEW d \in Dirs, NEW found \in Found, NEW now \in Time,
           d \in DOMAIN rows => rows[d] \in Row
    PROVE  LET row == Upserted(rows, d, found, now) IN
           /\ row \in Row
           /\ row.ord = found.ord
           /\ found.status = "done" => row.status # "queued"
           /\ d \in DOMAIN rows /\ rows[d].status # "queued" =>
                 row.status = rows[d].status /\ row.updatedAt = rows[d].updatedAt
           /\ /\ d \in DOMAIN rows /\ rows[d].ord = found.ord
              /\ found.status = "done" => rows[d].status # "queued"
              => row = rows[d]
  <1>1. found.ord \in Int /\ found.status \in {"queued", "done"}
    BY DEF Found
  <1>2. CASE d \notin DOMAIN rows
    BY <1>1, <1>2 DEF Upserted, Row, Progress
  <1>3. CASE d \in DOMAIN rows
    <2> DEFINE old == rows[d]
               status == IF old.status = "queued" THEN found.status
                                                  ELSE old.status
               at == IF status = old.status THEN old.updatedAt ELSE now
    <2>1. /\ old.status \in Progress /\ old.updatedAt \in Time
          /\ old = [ord |-> old.ord, status |-> old.status,
                    updatedAt |-> old.updatedAt]
      BY <1>3 DEF Row
    <2>2. Upserted(rows, d, found, now)
             = [ord |-> found.ord, status |-> status, updatedAt |-> at]
      BY <1>3 DEF Upserted
    <2>3. status \in Progress /\ at \in Time
      BY <1>1, <2>1 DEF Progress
    <2>4. /\ found.status = "done" => status # "queued"
          /\ old.status # "queued" => status = old.status /\ at = old.updatedAt
          /\ (found.status = "done" => old.status # "queued")
             => status = old.status /\ at = old.updatedAt
      BY <1>1
    <2> HIDE DEF status, at
    <2> QED
      BY <1>1, <2>1, <2>2, <2>3, <2>4 DEF Row
  <1> QED
    BY <1>2, <1>3

-----------------------------------------------------------------------------
(* The steps. *)

(* What a scan finds depends on the vault alone.                             *)
LEMMA WalkStays ==
    ASSUME vault' = vault
    PROVE  /\ Present' = Present /\ ScanResult' = ScanResult
           /\ \A d \in Dirs : /\ CourseOrd(d)' = CourseOrd(d)
                              /\ SeededStatus(d)' = SeededStatus(d)
  BY DEF Present, ScanResult, CourseOrd, Siblings, SeededStatus

(* An index up to date stays so while vault, orders, tracks and progress do. *)
LEMMA IndexedStays ==
    ASSUME IndexInv, UNCHANGED <<vault, sources, indexed>>,
           DOMAIN chunks \subseteq DOMAIN chunks',
           \A d \in DOMAIN chunks :
              /\ chunks'[d].ord = chunks[d].ord
              /\ chunks[d].status # "queued" => chunks'[d].status # "queued"
    PROVE  IndexedOK'
  <1>1. Present \subseteq Dirs
    BY DEF Present
  <1>2. SUFFICES ASSUME indexed, NEW d \in Present
                 PROVE  /\ d \in DOMAIN chunks'
                        /\ chunks'[d].ord = CourseOrd(d)
                        /\ SeededStatus(d) = "done" => chunks'[d].status # "queued"
                        /\ Track[d] \in DOMAIN sources
                        /\ sources[Track[d]] = SourceOrd(ScanResult, Track[d])
    BY <1>1, WalkStays DEF IndexedOK
  <1> QED
    BY <1>2 DEF IndexInv, IndexedOK

(* The initial state: nothing indexed, nothing running.                      *)
LEMMA IndexInit == Init => IndexInv
  <1> SUFFICES ASSUME Init PROVE IndexInv
    OBVIOUS
  <1>1. TypesInv
    <2>1. 0 \in Time
      BY TimeAssumption DEF Time
    <2> QED
      BY <2>1, EmptyIsTyped, NoJobIsTyped DEF Init, TypesInv
  <1>2. DOMAIN chunks = {} /\ DOMAIN job.written = {} /\ DOMAIN job.scan = {}
    BY EmptyIsTyped DEF Init, NoJob
  <1>3. DOMAIN Seen = {}
    BY <1>1, <1>2, SeenRows
  <1>4. WrittenOK
    BY <1>2 DEF Init, NoJob, WrittenOK
  <1> QED
    BY <1>1, <1>2, <1>3, <1>4 DEF Init, IndexInv, OrdsDistinct, IndexedOK

(* A job that begins, or ends without a commit, leaves nothing.              *)
LEMMA JobDropped ==
    ASSUME IndexInv, job' \in {NoJob, [NoJob EXCEPT !.pc = "scan"]},
           UNCHANGED <<vault, chunks, sources, indexed, clock>>
    PROVE  IndexInv'
  <1>1. TypesInv'
    BY NoJobIsTyped DEF IndexInv, TypesInv
  <1>2. /\ DOMAIN job'.written = {} /\ DOMAIN job'.scan = {} /\ job'.todo = {}
        /\ job'.pc # "upsert"
    BY EmptyIsTyped DEF NoJob
  <1>3. WrittenOK'
    BY <1>2 DEF WrittenOK
  <1>4. /\ DOMAIN Seen' = DOMAIN chunks
        /\ \A d \in DOMAIN chunks : Seen'[d] = chunks[d]
    BY <1>2 DEF Seen, Extend
  <1>5. OrdsDistinct(Seen)' /\ OrdsDistinct(chunks)'
    BY <1>4 DEF IndexInv, OrdsDistinct
  <1>6. IndexedOK'
    BY IndexedStays
  <1> QED
    BY <1>1, <1>3, <1>5, <1>6 DEF IndexInv

(* The clock, and steps that change nothing.                                 *)
LEMMA IndexTick ==
    ASSUME IndexInv, Tick \/ UNCHANGED indexVars
    PROVE  IndexInv'
  <1>1. UNCHANGED <<vault, chunks, sources, job, indexed>>
    BY DEF Tick, indexVars
  <1>2. clock' \in Time
    BY TimeAssumption DEF Tick, indexVars, IndexInv, TypesInv, Time
  <1>3. TypesInv'
    BY <1>1, <1>2 DEF IndexInv, TypesInv
  <1>4. OrdsDistinct(chunks)' /\ OrdsDistinct(Seen)'
    BY <1>1 DEF IndexInv, OrdsDistinct, Seen
  <1>5. WrittenOK'
    BY <1>1, WalkStays DEF IndexInv, WrittenOK
  <1>6. IndexedOK'
    BY <1>1, IndexedStays
  <1> QED
    BY <1>3, <1>4, <1>5, <1>6 DEF IndexInv

(* A finished scan has written nothing yet.                                  *)
LEMMA IndexScan ==
    ASSUME IndexInv, Scan
    PROVE  IndexInv'
  <1>1. job \in Job /\ clock \in Time /\ job.pc = "scan"
    BY DEF IndexInv, TypesInv, Scan
  <1>2. job' = [pc |-> "upsert", scan |-> ScanResult, todo |-> Present,
                written |-> job.written, began |-> clock]
    BY <1>1 DEF Scan, Job
  <1>3. TypesInv'
    <2>1. job' \in Job
      BY <1>1, <1>2, ScanIsTyped DEF Job
    <2> QED
      BY <2>1 DEF Scan, IndexInv, TypesInv
  <1>4. DOMAIN job.written = {}
    BY <1>1 DEF IndexInv, WrittenOK
  <1>5. WrittenOK'
    <2>1. DOMAIN ScanResult = Present
      BY DEF ScanResult
    <2> QED
      BY <1>2, <1>4, <2>1 DEF WrittenOK
  <1>6. OrdsDistinct(chunks)' /\ OrdsDistinct(Seen)'
    BY <1>2 DEF Scan, IndexInv, OrdsDistinct, Seen
  <1>7. IndexedOK'
    BY IndexedStays DEF Scan
  <1> QED
    BY <1>3, <1>5, <1>6, <1>7 DEF IndexInv

(* Writing one row that does not clash.                                      *)
LEMMA IndexUpsert ==
    ASSUME IndexInv, NEW d \in Dirs, UpsertChunk(d)
    PROVE  IndexInv'
  <1> DEFINE row == Upserted(chunks, d, job.scan[d], job.began)
             longer == [e \in DOMAIN job.written \union {d} |->
                           IF e = d THEN row ELSE job.written[e]]
  <1>1. /\ job \in Job /\ job.pc = "upsert" /\ TypesInv /\ WrittenOK
        /\ job.began \in Time
    BY DEF IndexInv, TypesInv, UpsertChunk, Job
  <1>2. d \in job.todo /\ d \in DOMAIN job.scan /\ d \notin DOMAIN job.written
    BY <1>1 DEF UpsertChunk, Turn, WrittenOK
  <1>3. job' = [pc |-> "upsert", scan |-> job.scan, todo |-> job.todo \ {d},
                written |-> longer, began |-> job.began]
    BY <1>1 DEF UpsertChunk, Job
  <1>4. /\ UNCHANGED <<vault, chunks, sources, indexed, clock>>
        /\ ~Clashes(d)
    BY DEF UpsertChunk
  <1>5. /\ row \in Row
        /\ row.ord = job.scan[d].ord
        /\ job.scan[d].status = "done" => row.status # "queued"
        /\ d \in DOMAIN chunks /\ chunks[d].status # "queued" =>
              row.status = chunks[d].status /\ row.updatedAt = chunks[d].updatedAt
        /\ /\ d \in DOMAIN chunks /\ chunks[d].ord = job.scan[d].ord
           /\ job.scan[d].status = "done" => chunks[d].status # "queued"
           => row = chunks[d]
    <2>1. /\ job.scan[d] \in Found
          /\ d \in DOMAIN chunks => chunks[d] \in Row
      BY <1>1, <1>2, TablesTyped
    <2> QED
      BY <1>1, <2>1, UpsertedRow
  <1> HIDE DEF row
  <1>6. /\ DOMAIN longer = DOMAIN job.written \union {d}
        /\ longer[d] = row
        /\ \A e \in DOMAIN job.written : longer[e] = job.written[e]
    BY <1>2
  <1>7. TypesInv'
    <2>1. longer \in UNION {[D -> Row] : D \in SUBSET Dirs}
      <3>1. longer \in [DOMAIN job.written \union {d} -> Row]
        BY <1>1, <1>5, TablesTyped
      <3>2. DOMAIN job.written \union {d} \in SUBSET Dirs
        BY <1>1, TablesTyped
      <3> HIDE DEF longer
      <3> QED
        BY <3>1, <3>2
    <2>2. job' \in Job
      <3> HIDE DEF longer
      <3> QED
        BY <1>1, <1>3, <2>1 DEF Job
    <2> QED
      BY <1>1, <1>4, <2>2 DEF TypesInv
  <1> HIDE DEF longer
  <1>8. WrittenOK'
    <2>1. /\ job'.todo \subseteq DOMAIN job'.scan
          /\ DOMAIN job'.written = DOMAIN job'.scan \ job'.todo
          /\ job'.pc = "upsert"
      BY <1>1, <1>2, <1>3, <1>6 DEF WrittenOK
    <2>2. ASSUME indexed, job.scan = ScanResult
          PROVE  d \in DOMAIN chunks /\ row = chunks[d]
      <3>1. d \in Present
        BY <1>2, <2>2 DEF ScanResult
      <3>2. /\ job.scan[d].ord = CourseOrd(d)
            /\ job.scan[d].status = SeededStatus(d)
        BY <2>2, <3>1, ScanIsTyped
      <3> QED
        BY <1>5, <2>2, <3>1, <3>2 DEF IndexInv, IndexedOK
    <2>3. ASSUME NEW e \in DOMAIN longer
          PROVE  /\ longer[e].ord = job.scan[e].ord
                 /\ job.scan[e].status = "done" => longer[e].status # "queued"
                 /\ e \in DOMAIN chunks /\ chunks[e].status # "queued" =>
                       /\ longer[e].status = chunks[e].status
                       /\ longer[e].updatedAt = chunks[e].updatedAt
                 /\ indexed /\ job.scan = ScanResult =>
                       e \in DOMAIN chunks /\ longer[e] = chunks[e]
      <3>1. CASE e = d
        BY <1>5, <1>6, <2>2, <3>1
      <3>2. CASE e # d
        BY <1>1, <1>6, <3>2 DEF WrittenOK
      <3> QED
        BY <3>1, <3>2
    <2> QED
      BY <1>3, <1>4, <2>1, <2>3, WalkStays DEF WrittenOK
  <1>9. OrdsDistinct(Seen)'
    <2>1. /\ DOMAIN Seen' = DOMAIN Seen \union {d}
          /\ Seen'[d].ord = job.scan[d].ord
          /\ \A e \in DOMAIN Seen \ {d} : Seen'[e] = Seen[e]
      BY <1>3, <1>4, <1>5, <1>6 DEF Seen, Extend
    <2>2. OrdsDistinct(Seen)
      BY DEF IndexInv
    <2> QED
      BY <1>4, <2>1, <2>2 DEF OrdsDistinct, Clashes
  <1>10. OrdsDistinct(chunks)'
    BY <1>4 DEF IndexInv, OrdsDistinct
  <1>11. IndexedOK'
    BY <1>4, IndexedStays
  <1> QED
    BY <1>7, <1>8, <1>9, <1>10, <1>11 DEF IndexInv

(* A scan finds finitely many tracks.                                        *)
LEMMA TracksFinite ==
    ASSUME NEW scan, DOMAIN scan \subseteq Dirs
    PROVE  IsFiniteSet({Track[d] : d \in DOMAIN scan})
  <1> DEFINE tracks == {Track[d] : d \in DOMAIN scan}
             track == [d \in DOMAIN scan |-> Track[d]]
  <1>1. IsFiniteSet(DOMAIN scan)
    BY DirsAssumption, FS_Subset
  <1>2. track \in Surjection(DOMAIN scan, tracks)
    <2>1. track \in [DOMAIN scan -> tracks]
      OBVIOUS
    <2>2. \A u \in tracks : \E d \in DOMAIN scan : track[d] = u
      OBVIOUS
    <2> QED
      BY <2>1, <2>2 DEF Surjection
  <1> HIDE DEF track, tracks
  <1>3. IsFiniteSet(tracks)
    BY <1>1, <1>2, FS_Surjection
  <1> QED
    BY <1>3 DEF tracks

(* A track's place in the walk is a number.                                  *)
LEMMA SourceOrdIsNat ==
    ASSUME NEW scan, DOMAIN scan \subseteq Dirs, NEW t
    PROVE  SourceOrd(scan, t) \in Nat
  <1> DEFINE tracks == {Track[d] : d \in DOMAIN scan}
             before == {u \in tracks \ {t} : \E d, e \in DOMAIN scan :
                           Track[d] = u /\ Track[e] = t /\ Before(d, e)}
  <1>1. IsFiniteSet(before)
    <2>1. IsFiniteSet(tracks)
      BY TracksFinite
    <2> QED
      BY <2>1, FS_Subset
  <1>2. SourceOrd(scan, t) = Cardinality(before)
    BY DEF SourceOrd
  <1> QED
    BY <1>1, <1>2, FS_CardinalityType

(* A commit publishes all rows at once.                                      *)
LEMMA IndexCommit ==
    ASSUME IndexInv, Commit
    PROVE  IndexInv'
  <1> DEFINE found == ScannedSources(job.scan)
  <1>1. /\ TypesInv /\ WrittenOK /\ job.todo = {} /\ job' = NoJob
        /\ chunks' = Seen /\ vault' = vault /\ clock' = clock
        /\ sources' = Extend(sources, found)
        /\ indexed' = (job.scan = ScanResult)
    BY DEF IndexInv, Commit
  <1>2. /\ DOMAIN found = {Track[d] : d \in DOMAIN job.scan}
        /\ \A d \in DOMAIN job.scan :
              found[Track[d]] = SourceOrd(job.scan, Track[d])
    BY DEF ScannedSources
  <1>3. /\ DOMAIN sources' = DOMAIN sources \union DOMAIN found
        /\ \A t \in DOMAIN sources' :
              sources'[t] = IF t \in DOMAIN found THEN found[t] ELSE sources[t]
        /\ sources' = [t \in DOMAIN sources' |-> sources'[t]]
    BY <1>1 DEF Extend
  <1>4. TypesInv'
    <2>1. /\ DOMAIN found \subseteq Tracks
          /\ \A t \in DOMAIN found : found[t] \in Nat
      <3>1. DOMAIN job.scan \subseteq Dirs
        BY <1>1, TablesTyped
      <3>2. \A t \in DOMAIN found : found[t] = SourceOrd(job.scan, t)
        BY DEF ScannedSources
      <3> QED
        BY <1>2, <3>1, <3>2, SourceOrdIsNat DEF Tracks
    <2>2. /\ DOMAIN sources' \subseteq Tracks
          /\ \A t \in DOMAIN sources' : sources'[t] \in Nat
      BY <1>1, <1>3, <2>1, TablesTyped
    <2>3. sources' \in UNION {[T -> Nat] : T \in SUBSET Tracks}
      BY <1>3, <2>2
    <2>4. chunks' \in UNION {[D -> Row] : D \in SUBSET Dirs}
      BY <1>1, SeenRows
    <2>5. indexed' \in BOOLEAN
      BY <1>1
    <2> QED
      BY <1>1, <2>3, <2>4, <2>5, NoJobIsTyped DEF TypesInv
  <1>5. /\ DOMAIN job'.written = {} /\ DOMAIN job'.scan = {} /\ job'.todo = {}
        /\ job'.pc # "upsert"
    BY <1>1, EmptyIsTyped DEF NoJob
  <1>6. WrittenOK'
    BY <1>5 DEF WrittenOK
  <1>7. OrdsDistinct(chunks)'
    BY <1>1 DEF IndexInv, OrdsDistinct
  <1>8. OrdsDistinct(Seen)'
    <2>1. DOMAIN Seen' = DOMAIN chunks' /\ \A d \in DOMAIN chunks' : Seen'[d] = chunks'[d]
      BY <1>5 DEF Seen, Extend
    <2> QED
      BY <1>7, <2>1 DEF OrdsDistinct
  <1>9. IndexedOK'
    <2> SUFFICES ASSUME job.scan = ScanResult, NEW d \in Present
                 PROVE  /\ d \in DOMAIN chunks'
                        /\ chunks'[d].ord = CourseOrd(d)
                        /\ SeededStatus(d) = "done" => chunks'[d].status # "queued"
                        /\ Track[d] \in DOMAIN sources'
                        /\ sources'[Track[d]] = SourceOrd(ScanResult, Track[d])
      BY <1>1, WalkStays, ScanIsTyped DEF IndexedOK
    <2>1. d \in DOMAIN job.scan /\ d \in DOMAIN job.written
      BY <1>1 DEF ScanResult, WrittenOK
    <2>2. d \in DOMAIN chunks' /\ chunks'[d] = job.written[d]
      BY <1>1, <2>1, SeenRows
    <2>3. /\ job.scan[d].ord = CourseOrd(d)
          /\ job.scan[d].status = SeededStatus(d)
      BY ScanIsTyped
    <2>4. /\ chunks'[d].ord = CourseOrd(d)
          /\ SeededStatus(d) = "done" => chunks'[d].status # "queued"
      BY <1>1, <2>1, <2>2, <2>3 DEF WrittenOK
    <2>5. /\ Track[d] \in DOMAIN sources'
          /\ sources'[Track[d]] = SourceOrd(job.scan, Track[d])
      BY <1>2, <1>3, <2>1
    <2> QED
      BY <2>2, <2>4, <2>5
  <1> QED
    BY <1>4, <1>6, <1>7, <1>8, <1>9 DEF IndexInv

(* An edit of the vault makes the index out of date, no more.                *)
LEMMA IndexEdit ==
    ASSUME IndexInv, NEW d \in Dirs, NEW scope \in {"absent", "open", "studied"},
           EditVault(d, scope)
    PROVE  IndexInv'
  <1>1. UNCHANGED <<chunks, sources, job, clock>> /\ indexed' = FALSE
        /\ vault' = [vault EXCEPT ![d] = scope]
    BY DEF EditVault
  <1>2. TypesInv'
    BY <1>1 DEF IndexInv, TypesInv
  <1>3. WrittenOK' /\ IndexedOK'
    BY <1>1 DEF IndexInv, WrittenOK, IndexedOK
  <1>4. OrdsDistinct(chunks)' /\ OrdsDistinct(Seen)'
    BY <1>1 DEF IndexInv, OrdsDistinct, Seen
  <1> QED
    BY <1>2, <1>3, <1>4 DEF IndexInv

(* A study command moves the progress of a row that is not locked.           *)
LEMMA IndexStudy ==
    ASSUME IndexInv, NEW d \in Dirs, NEW status \in {"in_progress", "done"},
           Study(d, status)
    PROVE  IndexInv'
  <1>0. PICK at \in 0..clock :
          chunks' = [chunks EXCEPT ![d].status = status, ![d].updatedAt = at]
    BY DEF Study
  <1>1. /\ d \in DOMAIN chunks /\ d \notin DOMAIN job.written
        /\ chunks' = [chunks EXCEPT ![d].status = status, ![d].updatedAt = at]
        /\ UNCHANGED <<vault, sources, job, indexed, clock>>
        /\ TypesInv /\ WrittenOK
    BY <1>0 DEF Study, IndexInv
  <1>2. /\ DOMAIN chunks' = DOMAIN chunks
        /\ chunks' = [e \in DOMAIN chunks |-> chunks'[e]]
        /\ \A e \in DOMAIN chunks : e # d => chunks'[e] = chunks[e]
    BY <1>1
  <1>3. chunks'[d] = [ord |-> chunks[d].ord, status |-> status, updatedAt |-> at]
    <2>1. chunks[d] \in Row
      BY <1>1, TablesTyped
    <2> QED
      BY <1>1, <2>1 DEF Row
  <1>4. \A e \in DOMAIN chunks : chunks'[e].ord = chunks[e].ord
    BY <1>2, <1>3
  <1>5. TypesInv'
    <2>1. chunks'[d] \in Row
      <3>1. chunks[d].ord \in Int /\ at \in Time /\ status \in Progress
        BY <1>1, TablesTyped, TimeAssumption DEF Row, TypesInv, Progress, Time
      <3> QED
        BY <1>3, <3>1 DEF Row
    <2>2. \A e \in DOMAIN chunks : chunks'[e] \in Row
      BY <1>1, <1>2, <2>1, TablesTyped
    <2>3. chunks' \in UNION {[D -> Row] : D \in SUBSET Dirs}
      BY <1>1, <1>2, <2>2, TablesTyped
    <2> QED
      BY <1>1, <2>3 DEF TypesInv
  <1>6. WrittenOK'
    BY <1>1, <1>2, WalkStays DEF WrittenOK
  <1>7. OrdsDistinct(chunks)'
    BY <1>2, <1>4 DEF IndexInv, OrdsDistinct
  <1>8. OrdsDistinct(Seen)'
    <2>1. /\ DOMAIN Seen' = DOMAIN Seen
          /\ \A e \in DOMAIN Seen : Seen'[e].ord = Seen[e].ord
      BY <1>1, <1>2, <1>4 DEF Seen, Extend
    <2> QED
      BY <2>1 DEF IndexInv, OrdsDistinct
  <1>9. IndexedOK'
    <2>1. chunks'[d].status # "queued"
      BY <1>3
    <2> QED
      BY <1>1, <1>2, <1>4, <2>1, IndexedStays
  <1> QED
    BY <1>5, <1>6, <1>7, <1>8, <1>9 DEF IndexInv

(* Every step keeps the invariant.                                           *)
LEMMA IndexNext == IndexInv /\ [Next]_indexVars => IndexInv'
  <1> SUFFICES ASSUME IndexInv, [Next]_indexVars PROVE IndexInv'
    OBVIOUS
  <1>1. CASE Reindex \/ Fail \/ \E d \in Dirs : UpsertRefused(d)
    BY <1>1, JobDropped DEF Reindex, Fail, UpsertRefused
  <1>2. CASE Tick \/ UNCHANGED indexVars
    BY <1>2, IndexTick
  <1> QED
    BY <1>1, <1>2, IndexScan, IndexUpsert, IndexCommit, IndexEdit, IndexStudy
       DEF Next, Index

(* The inductive invariant of the indexer.                                   *)
THEOREM IndexInvariant == Spec => []IndexInv
  BY IndexInit, IndexNext, PTL DEF Spec

(* Type correctness of the indexer.                                          *)
THEOREM IndexTypes == Spec => []TypeOK
  <1>1. IndexInv => TypeOK
    <2> SUFFICES ASSUME IndexInv PROVE TypeOK
      OBVIOUS
    <2>1. TypesInv /\ WrittenOK
      BY DEF IndexInv
    <2>2. job.pc \in {"idle", "scan", "upsert"} /\ job.began \in Time
      BY <2>1 DEF TypesInv, Job
    <2> QED
      BY <2>1, <2>2, TablesTyped DEF TypesInv, WrittenOK, TypeOK, Tracks
  <1> QED
    BY <1>1, IndexInvariant, PTL

(* An up-to-date index has the whole vault in course order (index_repo.rs    *)
(* upsert_scan).                                                             *)
THEOREM IndexCovers == Spec => []IndexCoversVault
  <1>1. IndexInv => IndexCoversVault
    BY DEF IndexInv, IndexedOK, IndexCoversVault
  <1> QED
    BY <1>1, IndexInvariant, PTL

-----------------------------------------------------------------------------
(* What a step may do. *)

(* Only a commit and a study command write chunk rows.                       *)
LEMMA RowWriters ==
    ASSUME [Next]_indexVars
    PROVE  \/ chunks' = chunks
           \/ Commit
           \/ \E d \in Dirs, status \in {"in_progress", "done"} : Study(d, status)
  BY DEF Next, Index, Reindex, Scan, UpsertChunk, UpsertRefused, Fail,
         EditVault, Tick, indexVars

(* A commit keeps every row, and any progress in it with its instant.        *)
LEMMA CommitKeepsProgress ==
    ASSUME IndexInv, Commit, NEW d \in DOMAIN chunks
    PROVE  /\ d \in DOMAIN chunks'
           /\ chunks[d] \in Row /\ chunks'[d] \in Row
           /\ chunks[d].status # "queued" =>
                 /\ chunks'[d].status = chunks[d].status
                 /\ chunks'[d].updatedAt = chunks[d].updatedAt
  <1>1. TypesInv /\ WrittenOK /\ chunks' = Seen
    BY DEF IndexInv, Commit
  <1>2. d \in DOMAIN Seen /\ Seen[d] \in Row /\ chunks[d] \in Row
    BY <1>1, SeenRows, TablesTyped
  <1>3. Seen[d] = IF d \in DOMAIN job.written THEN job.written[d] ELSE chunks[d]
    BY <1>1, <1>2, SeenRows
  <1> QED
    BY <1>1, <1>2, <1>3 DEF WrittenOK

(* No step takes progress back or forgets a chunk, however the scan and the  *)
(* study commands interleave (index_repo.rs upsert_scan).                    *)
THEOREM ProgressKept == Spec => ProgressNeverRegresses
  <1>1. IndexInv /\ [Next]_indexVars =>
           [\A d \in DOMAIN chunks :
              /\ d \in DOMAIN chunks'
              /\ Rank(chunks[d].status) <= Rank(chunks'[d].status)]_chunks
    <2> SUFFICES ASSUME IndexInv, [Next]_indexVars, chunks' # chunks,
                        NEW d \in DOMAIN chunks
                 PROVE  /\ d \in DOMAIN chunks'
                        /\ Rank(chunks[d].status) <= Rank(chunks'[d].status)
      OBVIOUS
    <2>1. chunks[d] \in Row /\ chunks[d].status \in Progress
      BY TablesTyped DEF IndexInv, Row
    <2>2. CASE Commit
      <3>1. /\ d \in DOMAIN chunks' /\ chunks'[d].status \in Progress
            /\ chunks[d].status # "queued" => chunks'[d].status = chunks[d].status
        BY <2>2, CommitKeepsProgress DEF Row
      <3> QED
        BY <2>1, <3>1 DEF Rank, Progress
    <2>3. ASSUME NEW e \in Dirs, NEW status \in {"in_progress", "done"},
                 Study(e, status)
          PROVE  /\ d \in DOMAIN chunks'
                 /\ Rank(chunks[d].status) <= Rank(chunks'[d].status)
      <3>0. PICK at \in 0..clock :
              chunks' = [chunks EXCEPT ![e].status = status, ![e].updatedAt = at]
        BY <2>3 DEF Study
      <3>1. /\ e \in DOMAIN chunks
            /\ chunks' = [chunks EXCEPT ![e].status = status, ![e].updatedAt = at]
        BY <2>3, <3>0 DEF Study
      <3>2. CASE d = e
        <4>1. d \in DOMAIN chunks' /\ chunks'[d].status = status
          BY <2>1, <3>1, <3>2 DEF Row
        <4>2. chunks[d].status = "done" => status = "done"
          BY <2>3, <3>2 DEF Study
        <4> QED
          BY <2>1, <4>1, <4>2 DEF Rank, Progress
      <3>3. CASE d # e
        <4>1. d \in DOMAIN chunks' /\ chunks'[d] = chunks[d]
          BY <3>1, <3>3
        <4> QED
          BY <2>1, <4>1 DEF Rank, Progress
      <3> QED
        BY <3>2, <3>3
    <2> QED
      BY <2>2, <2>3, RowWriters
  <1> QED
    BY <1>1, IndexInvariant, PTL DEF Spec, ProgressNeverRegresses

(* A commit, and a transaction that fails, leave the activity of a started   *)
(* chunk alone (index_repo.rs, updated_at = CASE ...).                       *)
THEOREM ActivityKept == Spec => CommitKeepsActivity
  <1>1. IndexInv /\ [Next]_indexVars =>
           [job.pc = "upsert" /\ job'.pc = "idle" =>
              \A d \in DOMAIN chunks :
                  chunks[d].status = "in_progress" => chunks'[d].status = "in_progress"
                      /\ chunks'[d].updatedAt = chunks[d].updatedAt]_indexVars
    <2> SUFFICES ASSUME IndexInv, [Next]_indexVars,
                        job.pc = "upsert", job'.pc = "idle",
                        NEW d \in DOMAIN chunks, chunks[d].status = "in_progress"
                 PROVE  /\ chunks'[d].status = "in_progress"
                        /\ chunks'[d].updatedAt = chunks[d].updatedAt
      OBVIOUS
    <2>1. ~ \E e \in Dirs, status \in {"in_progress", "done"} : Study(e, status)
      BY DEF Study
    <2> QED
      BY <2>1, RowWriters, CommitKeepsProgress
  <1> QED
    BY <1>1, IndexInvariant, PTL DEF Spec, CommitKeepsActivity

(* Indexing what is indexed is never refused and changes no row, with study  *)
(* commands before, between and during it.                                   *)
THEOREM RerunChangesNothing == Spec => RerunIsNoOp
  <1>1. IndexInv /\ [Next]_indexVars =>
           [indexed /\ job.scan = ScanResult
            => /\ \A d \in Dirs : ~UpsertRefused(d)
               /\ Commit => UNCHANGED <<chunks, sources>>]_indexVars
    <2> SUFFICES ASSUME IndexInv, indexed, job.scan = ScanResult
                 PROVE  /\ \A d \in Dirs : ~UpsertRefused(d)
                        /\ Commit => UNCHANGED <<chunks, sources>>
      OBVIOUS
    <2>1. /\ TypesInv /\ WrittenOK /\ IndexedOK /\ OrdsDistinct(chunks)
          /\ DOMAIN ScanResult = Present /\ DOMAIN job.scan = Present
      BY DEF IndexInv, ScanResult
    <2>2. \A e \in DOMAIN job.written :
             e \in DOMAIN chunks /\ job.written[e] = chunks[e]
      BY <2>1 DEF WrittenOK
    <2>3. DOMAIN Seen = DOMAIN chunks /\ \A e \in DOMAIN chunks : Seen[e] = chunks[e]
      BY <2>1, <2>2, SeenRows
    <2>4. ASSUME NEW d \in Dirs, UpsertRefused(d) PROVE FALSE
      <3>1. d \in Present
        BY <2>1, <2>4 DEF UpsertRefused, Turn, WrittenOK
      <3>2. d \in DOMAIN chunks /\ chunks[d].ord = job.scan[d].ord
        BY <2>1, <3>1, ScanIsTyped DEF IndexedOK
      <3>3. ~Clashes(d)
        BY <2>1, <2>3, <3>2 DEF Clashes, OrdsDistinct
      <3> QED
        BY <2>4, <3>3 DEF UpsertRefused
    <2>5. ASSUME Commit PROVE UNCHANGED <<chunks, sources>>
      <3>1. chunks' = chunks
        <4>1. Seen = [e \in DOMAIN Seen |-> Seen[e]]
          BY DEF Seen, Extend
        <4> QED
          BY <2>1, <2>3, <2>5, <4>1, TablesTyped DEF Commit
      <3>2. sources' = sources
        <4> DEFINE found == ScannedSources(job.scan)
        <4>1. sources' = Extend(sources, found)
          BY <2>5 DEF Commit
        <4>2. /\ DOMAIN found = {Track[d] : d \in Present}
              /\ \A t \in DOMAIN found : found[t] = SourceOrd(job.scan, t)
          BY <2>1 DEF ScannedSources
        <4>3. \A t \in DOMAIN found : t \in DOMAIN sources /\ found[t] = sources[t]
          BY <2>1, <4>2 DEF IndexedOK
        <4>4. sources = [t \in DOMAIN sources |-> sources[t]]
          BY <2>1 DEF TypesInv
        <4> HIDE DEF found
        <4>5. Extend(sources, found) = [t \in DOMAIN sources |-> sources[t]]
          BY <4>3 DEF Extend
        <4> QED
          BY <4>1, <4>4, <4>5
      <3> QED
        BY <3>1, <3>2
    <2> QED
      BY <2>4, <2>5
  <1> QED
    BY <1>1, IndexInvariant, PTL DEF Spec, RerunIsNoOp
=============================================================================
