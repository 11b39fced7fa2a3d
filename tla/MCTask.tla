------------------------------ MODULE MCTask -------------------------------
(* Small instances of Task for TLC. *)
EXTENDS Task, TLC

CONSTANTS t1, t2

NoTasks == {}
First == {t1}
Second == {t2}
Symmetry == Permutations(Msgs)
=============================================================================
