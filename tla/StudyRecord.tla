---------------------------- MODULE StudyRecord ----------------------------
(* What the study loop promises: a log of sittings, each with one chunk, and *)
(* the set of finished chunks.  A sitting, once over, is never rewritten; a  *)
(* chunk, once finished, stays finished and is never sat with again; the     *)
(* indexer finishes only chunks nobody has sat with yet; and no more than    *)
(* Overlap sittings are ever in progress together.  With Overlap = 1 this is *)
(* "one session at a time" (src/src-tauri/src/application/session.rs:16).    *)
EXTENDS Integers, Sequences, FiniteSets

CONSTANTS Chunks, Time, Overlap

VARIABLES log, finished

recordVars == <<log, finished>>

Ongoing == -1      \* the end of a sitting that is not over

InProgress == {i \in DOMAIN log : log[i].to = Ongoing}

SatWith == {log[i].chunk : i \in DOMAIN log}

Init == log = <<>> /\ finished = {}

(* A sitting with k begins, as of time t. *)
Begin(k, t) ==
    /\ k \notin finished
    /\ Cardinality(InProgress) < Overlap
    /\ log' = Append(log, [chunk |-> k, from |-> t, to |-> Ongoing])
    /\ UNCHANGED finished

(* One sitting in progress is over, as of time t. *)
End(i, t) ==
    /\ log' = [log EXCEPT ![i].to = t]
    /\ UNCHANGED finished

Finish(k) ==
    /\ finished' = finished \union {k}
    /\ UNCHANGED log

(* The vault says these chunks were studied elsewhere. *)
Seed(S) ==
    /\ S \intersect SatWith = {}
    /\ finished' = finished \union S
    /\ UNCHANGED log

Next ==
    \/ \E k \in Chunks, t \in Time : Begin(k, t)
    \/ \E i \in InProgress, t \in Time : End(i, t)
    \/ \E k \in Chunks : Finish(k)
    \/ \E S \in SUBSET Chunks : Seed(S)

Spec == Init /\ [][Next]_recordVars
=============================================================================
