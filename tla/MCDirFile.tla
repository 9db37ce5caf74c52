---------------------------- MODULE MCDirFile ----------------------------
(* Instances of DirFile with a five-bit int (at most 15).                    *)
EXTENDS DirFile

\* Batch sizes that no offset takes over the end of an int, and any sizes.
SmallSizes == -1..8
AllSizes == {-16, -1, 0, 1, 2, 15}
=============================================================================
