----------------------------- MODULE MCChannel -----------------------------
(***************************************************************************)
(* Channel for TLC: the values of the constants are in the .cfg files.     *)
(***************************************************************************)
EXTENDS Channel, TLC

\* Handles other than the first are interchangeable.
Symmetry == Permutations(Senders \ {FirstSender})

AllModes == {"edge", "level", "oneshot"}
EdgeMode == {"edge"}
EdgeLevel == {"edge", "level"}
LevelMode == {"level"}

=============================================================================
