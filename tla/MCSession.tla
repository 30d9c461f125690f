----------------------------- MODULE MCSession ------------------------------
(* Session on a small instance: the processes are interchangeable. *)
EXTENDS Session, TLC

ProcSymmetry == Permutations(Procs)
=============================================================================
