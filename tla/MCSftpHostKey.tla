--------------------------- MODULE MCSftpHostKey ---------------------------
(* Instances of SftpHostKey for TLC: the slots and keys are interchangeable. *)
EXTENDS SftpHostKey, TLC

HostKeySymmetry == Permutations(Slots) \cup Permutations(Keys)
============================================================================
