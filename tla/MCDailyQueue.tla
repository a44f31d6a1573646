---------------------------- MODULE MCDailyQueue ----------------------------
(* Small instances of DailyQueue for TLC: a known track of three chunks and  *)
(* one outside the rotation with one chunk.                                  *)
EXTENDS DailyQueue

MCTrack == [k \in Chunks |-> IF k = 4 THEN "algebra" ELSE "system-design"]
MCOrd == [k \in Chunks |-> IF k = 4 THEN 1 ELSE k]
MCCanonical == <<"fundamentos-enterprise", "system-design", "videos">>
MCAlphabetical == <<"algebra", "system-design">>

(* One chunk alone in its track: the instant is of no use to it.  A query    *)
(* races with the commands over tables where one chunk's instants vary: its  *)
(* effect is none but its answer, so no other state depends on where it is   *)
(* asked.                                                                    *)
SmallTables ==
    /\ chunks[4].updatedAt = 0
    /\ query.pc # "idle" =>
          /\ chunks[2].updatedAt = 0 /\ chunks[3].updatedAt = 0
          /\ chunks[3].status # "in_progress" /\ chunks[4].status = "queued"
          /\ \A t \in Tracks : position[t] \in {Nowhere, 2}
=============================================================================
