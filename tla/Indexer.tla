------------------------------ MODULE Indexer ------------------------------
(* The vault index: the walk that turns the vault's folders into chunks in   *)
(* course order, and the transaction that upserts them while the user edits  *)
(* the vault and the study commands write the same rows.                     *)
EXTENDS Integers, FiniteSets

CONSTANTS
    Dirs,           \* class folders and video files: naturals in path order
    Track,          \* the track each belongs to
    VideoTrack,     \* the track of the video files
    Leading,        \* the leading number of a folder's name, or NoNumber
    MaxTime         \* bound: the clock stops here

NoNumber == -1      \* no digits in front, or too many for an i32

ASSUME DirsAssumption ==
    /\ Dirs \subseteq Nat \ {0} /\ IsFiniteSet(Dirs)
    /\ DOMAIN Track = Dirs
    /\ Leading \in [Dirs -> Nat \union {NoNumber}]
ASSUME TimeAssumption == MaxTime \in Nat

VARIABLES
    vault,          \* what is on disk: dir -> its scope.md, if it is there
    chunks,         \* table chunks: indexed dir -> row
    sources,        \* table sources: indexed track -> ord
    job,            \* the reindex command
    indexed,        \* history: the vault is as the last commit found it
    clock

indexVars == <<vault, chunks, sources, job, indexed, clock>>

Time == 0..MaxTime
Progress == {"queued", "in_progress", "done"}
Row == [ord : Int, status : Progress, updatedAt : Time]
Empty == <<>>       \* the function with no arguments

Extend(f, g) ==
    [d \in DOMAIN f \union DOMAIN g |-> IF d \in DOMAIN g THEN g[d] ELSE f[d]]

-----------------------------------------------------------------------------
(* The walk. *)

(* A folder's scope.md is absent or not all checked ("open"), or has a task  *)
(* list that is all checked ("studied").                                     *)
Present == {d \in Dirs : vault[d] # "absent"}
Siblings(d) == {e \in Present : Track[e] = Track[d]}

(* Mutant: present numbers are enough, distinct or not. *)
NumberedAlike(dirs) == \A d \in dirs : Leading[d] # NoNumber

Numbered(dirs) ==
    \A d, e \in dirs :
        Leading[d] # NoNumber /\ (Leading[d] = Leading[e] => d = e)

CourseOrd(d) ==
    IF Track[d] # VideoTrack /\ Numbered(Siblings(d))
    THEN Leading[d]
    ELSE Cardinality({e \in Siblings(d) : e <= d})

(* Mutant: the scope's own word for it. *)
SeededRaw(d) == vault[d]

SeededStatus(d) ==
    IF Track[d] # VideoTrack /\ vault[d] = "studied" THEN "done" ELSE "queued"

ScanResult ==
    [d \in Present |-> [ord |-> CourseOrd(d), status |-> SeededStatus(d)]]

(* Class tracks in path order, the videos last.                              *)
Before(d, e) ==
    IF (Track[d] = VideoTrack) = (Track[e] = VideoTrack)
    THEN d < e
    ELSE Track[e] = VideoTrack

SourceOrd(scan, t) ==
    LET tracks == {Track[d] : d \in DOMAIN scan} IN
    Cardinality({u \in tracks \ {t} :
        \E d, e \in DOMAIN scan : Track[d] = u /\ Track[e] = t /\ Before(d, e)})

ScannedSources(scan) ==
    [t \in {Track[d] : d \in DOMAIN scan} |-> SourceOrd(scan, t)]

-----------------------------------------------------------------------------
(* The transaction. *)

NoJob == [pc |-> "idle", scan |-> Empty, todo |-> {}, written |-> Empty,
          began |-> 0]

(* What the transaction sees: the committed rows under its own.              *)
Seen == Extend(chunks, job.written)

Init ==
    /\ vault \in [Dirs -> {"absent", "open"}]
    /\ chunks = Empty
    /\ sources = Empty
    /\ job = NoJob
    /\ indexed = FALSE
    /\ clock = 0

Reindex ==
    /\ job.pc = "idle"
    /\ job' = [NoJob EXCEPT !.pc = "scan"]
    /\ UNCHANGED <<vault, chunks, sources, indexed, clock>>

(* The scan is complete before the transaction begins; now() is its start.   *)
Scan ==
    /\ job.pc = "scan"
    /\ job' = [job EXCEPT !.pc = "upsert", !.scan = ScanResult,
                          !.todo = Present, !.began = clock]
    /\ UNCHANGED <<vault, chunks, sources, indexed, clock>>

(* No vault there, an unreadable folder, no transaction, a statement or a    *)
(* commit that fails, the end of the application: Postgres rolls back.       *)
Fail ==
    /\ job.pc # "idle"
    /\ job' = NoJob
    /\ UNCHANGED <<vault, chunks, sources, indexed, clock>>

(* Mutants of the upsert: the status always taken from the scan, ... *)
UpsertedAnyway(rows, d, found, now) ==
    [ord |-> found.ord, status |-> found.status, updatedAt |-> now]

(* ... updated_at moved by every upsert, ... *)
UpsertedAlwaysDated(rows, d, found, now) ==
    IF d \notin DOMAIN rows \/ rows[d].status = "queued"
    THEN [ord |-> found.ord, status |-> found.status, updatedAt |-> now]
    ELSE [rows[d] EXCEPT !.ord = found.ord, !.updatedAt = now]

(* ... an existing row left where it was in the course. *)
UpsertedInPlace(rows, d, found, now) ==
    IF d \notin DOMAIN rows
    THEN [ord |-> found.ord, status |-> found.status, updatedAt |-> now]
    ELSE rows[d]

(* Only a queued row takes its status from the scan; updated_at moves only   *)
(* with the status.                                                          *)
Upserted(rows, d, found, now) ==
    IF d \notin DOMAIN rows
    THEN [ord |-> found.ord, status |-> found.status, updatedAt |-> now]
    ELSE LET old == rows[d]
             status == IF old.status = "queued" THEN found.status
                                                ELSE old.status
         IN  [ord |-> found.ord, status |-> status,
              updatedAt |-> IF status = old.status THEN old.updatedAt ELSE now]

Turn(d) == d \in job.todo /\ \A e \in job.todo \ {d} : Before(d, e)

(* Mutant of the constraint: the row clashes with itself. *)
ClashesWithItself(d) ==
    \E e \in DOMAIN Seen : Track[e] = Track[d] /\ Seen[e].ord = job.scan[d].ord

(* UNIQUE (source_id, ord), checked row by row.                              *)
Clashes(d) ==
    \E e \in DOMAIN Seen \ {d} :
        Track[e] = Track[d] /\ Seen[e].ord = job.scan[d].ord

UpsertChunk(d) ==
    /\ job.pc = "upsert"
    /\ Turn(d)
    /\ ~Clashes(d)
    /\ job' = [job EXCEPT
           !.todo = @ \ {d},
           !.written = [e \in DOMAIN job.written \union {d} |->
               IF e = d THEN Upserted(chunks, d, job.scan[d], job.began)
                        ELSE job.written[e]]]
    /\ UNCHANGED <<vault, chunks, sources, indexed, clock>>

UpsertRefused(d) ==
    /\ job.pc = "upsert"
    /\ Turn(d)
    /\ Clashes(d)
    /\ job' = NoJob
    /\ UNCHANGED <<vault, chunks, sources, indexed, clock>>

(* The source rows go with the chunks; none is ever deleted.                 *)
Commit ==
    /\ job.pc = "upsert"
    /\ job.todo = {}
    /\ chunks' = Seen
    /\ sources' = Extend(sources, ScannedSources(job.scan))
    /\ indexed' = (job.scan = ScanResult)
    /\ job' = NoJob
    /\ UNCHANGED <<vault, clock>>

-----------------------------------------------------------------------------
(* The world around it. *)

(* The user adds, studies, reopens or removes a folder.                      *)
EditVault(d, scope) ==
    /\ vault[d] # scope
    /\ vault' = [vault EXCEPT ![d] = scope]
    /\ indexed' = FALSE
    /\ UNCHANGED <<chunks, sources, job, clock>>

(* start_session and complete_chunk, at the instant each was entered; a row  *)
(* the transaction wrote is locked.                                          *)
Study(d, status) ==
    /\ d \in DOMAIN chunks \ DOMAIN job.written
    /\ status = "in_progress" => chunks[d].status # "done"
    /\ \E at \in 0..clock :
          chunks' = [chunks EXCEPT ![d].status = status, ![d].updatedAt = at]
    /\ UNCHANGED <<vault, sources, job, indexed, clock>>

Tick ==
    /\ clock < MaxTime
    /\ clock' = clock + 1
    /\ UNCHANGED <<vault, chunks, sources, job, indexed>>

Index ==
    Scan \/ Commit \/ \E d \in Dirs : UpsertChunk(d) \/ UpsertRefused(d)

Next ==
    \/ Reindex \/ Index \/ Fail \/ Tick
    \/ \E d \in Dirs :
          \/ \E scope \in {"absent", "open", "studied"} : EditVault(d, scope)
          \/ \E status \in {"in_progress", "done"} : Study(d, status)

Spec == Init /\ [][Next]_indexVars

-----------------------------------------------------------------------------
(* Properties. *)

(* Every table and the command have their types.                             *)
TypeOK ==
    /\ vault \in [Dirs -> {"absent", "open", "studied"}]
    /\ DOMAIN chunks \subseteq Dirs
    /\ \A d \in DOMAIN chunks : chunks[d] \in Row
    /\ DOMAIN sources \subseteq {Track[d] : d \in Dirs}
    /\ \A t \in DOMAIN sources : sources[t] \in Nat
    /\ job.pc \in {"idle", "scan", "upsert"}
    /\ DOMAIN job.scan \subseteq Dirs
    /\ job.todo \subseteq DOMAIN job.scan
    /\ \A d \in DOMAIN job.written : job.written[d] \in Row
    /\ job.began \in Time
    /\ indexed \in BOOLEAN
    /\ clock \in Time

(* However the folders are named, two chunks of one track never get the same *)
(* place in a scan (vault_fs.rs course_ords).                                *)
ScanOrdsDistinct ==
    \A d, e \in Present :
        Track[d] = Track[e] /\ CourseOrd(d) = CourseOrd(e) => d = e

(* While the vault is as it was last indexed, all of it is in the tables, in *)
(* its course order, and nothing studied in it is still queued.              *)
IndexCoversVault ==
    indexed => \A d \in Present :
        /\ d \in DOMAIN chunks
        /\ chunks[d].ord = CourseOrd(d)
        /\ SeededStatus(d) = "done" => chunks[d].status # "queued"

Rank(status) == CASE status = "queued" -> 0
                  [] status = "in_progress" -> 1
                  [] status = "done" -> 2

(* Nothing takes progress back or forgets a chunk, whatever the scan says    *)
(* and however it interleaves with the study commands (index_repo.rs).       *)
ProgressNeverRegresses ==
    [][\A d \in DOMAIN chunks :
          /\ d \in DOMAIN chunks'
          /\ Rank(chunks[d].status) <= Rank(chunks'[d].status)]_chunks

(* A commit leaves the activity of a started chunk alone: the 14 days of the *)
(* stale rule run on.                                                        *)
CommitKeepsActivity ==
    [][job.pc = "upsert" /\ job'.pc = "idle" =>
          \A d \in DOMAIN chunks :
              chunks[d].status = "in_progress" => chunks'[d].status = "in_progress"
                  /\ chunks'[d].updatedAt = chunks[d].updatedAt]_indexVars

(* Indexing an unchanged vault again changes no row and is never refused,    *)
(* with any study commands before, between and during it.                    *)
RerunIsNoOp ==
    [][indexed /\ job.scan = ScanResult
       => /\ \A d \in Dirs : ~UpsertRefused(d)
          /\ Commit => UNCHANGED <<chunks, sources>>]_indexVars

(* The documented promise (specs/queue-slice/requirements.md:14, and the     *)
(* fallback of vault_fs.rs:140): a readable vault is indexed without errors. *)
NeverRefused == [][\A d \in Dirs : ~UpsertRefused(d)]_indexVars
=============================================================================
