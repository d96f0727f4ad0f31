-------------------------- MODULE MCFileMutation --------------------------
(* Instances of FileMutation for TLC. *)
EXTENDS FileMutation, TLC

\* Requests are interchangeable; operations and files are not, because the
\* placeholders of the initial state name one of each.
RequestSymmetry == Permutations(Requests)
===========================================================================
