----------------------------- MODULE MCSelectorId -----------------------------
(***************************************************************************)
(* SelectorId for TLC: the values of the constants that are not plain.     *)
(***************************************************************************)
EXTENDS SelectorId, TLC

CONSTANTS a, b

\* Two sockets with one Poll, or one socket between two Polls.
TwoPrograms ==
  {[polls |-> {1}, sockets |-> {a, b}, changes |-> 4]}
    \cup {[polls |-> {1, 2}, sockets |-> {s}, changes |-> 2] : s \in {a, b}}

Symmetry == Permutations({a, b})

LevelReadOrOneshot ==
  {[interest |-> {"readable"}, opts |-> {"level"}],
   [interest |-> {"readable", "writable", "hup"}, opts |-> {"edge", "oneshot"}]}

=============================================================================
