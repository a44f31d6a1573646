------------------------- MODULE MCSettingsScreen -------------------------
(* A small instance of SettingsScreen for TLC: the vault path, one known     *)
(* track, and before it the row of a track that is not known any more.       *)
EXTENDS SettingsScreen, TLC

CONSTANTS c1, c2

MCEntries == <<"legacy", "videos">>

(* The row is there from the start; nothing in the program writes it.        *)
LegacyStored == HasTable(SettingsTable) => stored["legacy"] # None

Symmetry == Permutations({c1, c2})
=============================================================================
