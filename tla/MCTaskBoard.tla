---------------------------- MODULE MCTaskBoard -----------------------------
(* Instances of TaskBoard for TLC. *)
EXTENDS TaskBoard, TLC

MCSymmetry == Permutations(Clients)

=============================================================================
