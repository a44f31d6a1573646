---------------------------- MODULE MCHomeScreen ----------------------------
(* Small instances of HomeScreen for TLC: one track.                         *)
EXTENDS HomeScreen, TLC

CONSTANTS c1, c2

MCTrack == [k \in Chunks |-> "videos"]
MCOrd == [k \in Chunks |-> k]
MCTracks == <<"videos">>

(* The properties say nothing of a screen in doubt.  A first render ends the *)
(* doubt; the tables it then finds are those a navigation right after the    *)
(* same commit leaves behind.                                                *)
Sure == Certain

Symmetry == Permutations({c1, c2})
=============================================================================
