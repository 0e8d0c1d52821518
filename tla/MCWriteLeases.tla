--------------------------- MODULE MCWriteLeases ---------------------------
(* WriteLeases for TLC: a few files of one repository.                     *)
EXTENDS WriteLeases, TLC

CONSTANTS d1, d2

TwoDeletes == {d1, d2}
DeleteSymmetry == Permutations(TwoDeletes)

\* One job after one file of the repository.
OneJobDir == [j \in 1..1 |-> {"q4", "q5"}]
OneJobMay == [j \in 1..1 |-> {"q4"}]
=============================================================================
