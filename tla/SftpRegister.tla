---------------------------- MODULE SftpRegister ----------------------------
(***************************************************************************)
(* What a user of the SFTP configuration page relies on: the settings and  *)
(* the host key are two independent fields.  Saving replaces the settings, *)
(* regenerating replaces the key together with its fingerprint, and        *)
(* neither touches the other's field.                                      *)
(***************************************************************************)
CONSTANTS Keys, Settings, DefaultSettings, Absent

VARIABLE row

Pair(k) == [of |-> k, form |-> "padded"]

Init == row = Absent

Create(k) ==
  /\ row = Absent
  /\ row' = [settings |-> DefaultSettings, key |-> k, fingerprint |-> Pair(k)]

Save(st) ==
  /\ row # Absent
  /\ row' = [row EXCEPT !.settings = st]

Rotate(k) ==
  /\ row # Absent
  /\ row' = [row EXCEPT !.key = k, !.fingerprint = Pair(k)]

Next ==
  \/ \E k \in Keys : Create(k) \/ Rotate(k)
  \/ \E st \in Settings : Save(st)

Spec == Init /\ [][Next]_row
=============================================================================
