---------------------------- MODULE MCSftpStore ----------------------------
(* Instances of SftpStore for TLC: the slots and keys are interchangeable. *)
EXTENDS SftpStore, TLC

StoreSymmetry == Permutations(Slots) \cup Permutations(Keys)
============================================================================
