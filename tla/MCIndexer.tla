----------------------------- MODULE MCIndexer -----------------------------
(* A small vault for TLC: class folders of one track, two of which share a   *)
(* leading number as date names do, and one video.                           *)
EXTENDS Indexer

MCTrack == [d \in Dirs |-> IF d = 4 THEN "videos" ELSE "fundamentos"]
MCLeading == [d \in Dirs |-> IF d <= 2 THEN 2 ELSE NoNumber]

(* An edit changes only what the next scan finds, so it may as well come     *)
(* before that scan's command.                                               *)
EditsBetweenCommands == vault' # vault => job.pc = "idle"
=============================================================================
