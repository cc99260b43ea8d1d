------------------------------- MODULE MCWal -------------------------------
(* Model-checking instance of Wal: writers are interchangeable.            *)
EXTENDS Wal, TLC

WriterSymmetry == Permutations(Writer)
=============================================================================
