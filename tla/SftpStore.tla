----------------------------- MODULE SftpStore -----------------------------
(***************************************************************************)
(* The control plane's SFTP configuration: the single row of ac_sftp, the  *)
(* start-up that creates it, and the HTTP handlers that change it          *)
(* (internal/adaptercontrol, cmd/adapter-control).                         *)
(*                                                                         *)
(* Every SQL statement commits on its own, so a handler made of a SELECT   *)
(* and an upsert is two actions here and any other handler may run between *)
(* them.  A handler is a slot: net/http runs one goroutine per request.    *)
(***************************************************************************)
EXTENDS Naturals

CONSTANTS
  Slots,            \* concurrent request goroutines of the control plane
  Keys,             \* SSH private keys that can be generated
  Settings,         \* credentials + auth mode + public key, as one value
  DefaultSettings,  \* sftpuser / sftppass, auth mode "password"
  NoSettings,       \* the zero value of those fields
  NoKey,            \* the empty PEM
  Absent,           \* no row in ac_sftp
  DbMayFail         \* may a statement of a running handler fail?

ASSUME SettingsAssumption ==
  /\ DefaultSettings \in Settings
  /\ NoSettings \notin Settings
ASSUME KeyAssumption == NoKey \notin Keys
ASSUME DbAssumption == DbMayFail \in BOOLEAN

VARIABLES
  row,      \* the config column of ac_sftp 'default', or Absent
  plane,    \* the process: "down", "checked" (row seen missing) or "up"
  request,  \* per slot, the handler being executed
  used      \* keys generated so far: a generator never repeats one

storeVars == <<row, plane, request, used>>

(* A fingerprint names the key it was computed from and how it was written:
   the store keeps base64 padding, x/crypto/ssh leaves it out.             *)
NoFingerprint == [of |-> NoKey, form |-> "none"]
EmptyDigest(k) == [of |-> NoKey, form |-> "padded"]  \* slip: hash taken too early
Padded(k)     == [of |-> k, form |-> "padded"]
Raw(k)        == [of |-> k, form |-> "raw"]

Fingerprint == {NoFingerprint} \cup [of : Keys, form : {"padded", "raw"}]

Config == [settings    : Settings \cup {NoSettings},
           key         : Keys \cup {NoKey},
           fingerprint : Fingerprint]

ASSUME AbsentAssumption == Absent \notin Config

ZeroConfig == [settings |-> NoSettings, key |-> NoKey,
               fingerprint |-> NoFingerprint]

(* A handler in execution: "read" precedes its SELECT, "write" its upsert.
   "save" is a PUT of the page, "sync" a PUT of the SFTP adapter.          *)
Request == [op  : {"none", "save", "sync", "regenerate"},
            pc  : {"idle", "read", "write"},
            cfg : Config]
Idle    == [op |-> "none", pc |-> "idle", cfg |-> ZeroConfig]

StoreTypeOK ==
  /\ row \in Config \cup {Absent}
  /\ plane \in {"down", "checked", "up"}
  /\ request \in [Slots -> Request]
  /\ used \subseteq Keys

StoreInit ==
  /\ row = Absent
  /\ plane = "down"
  /\ request = [s \in Slots |-> Idle]
  /\ used = {}

----------------------------------------------------------------------------
(* Start-up                                                                *)

(* Slip: the server listens before InitSFTP has made the row.              *)
ListenAtOnce ==
  /\ plane = "down"
  /\ plane' \in {"checked", "up"}
  /\ UNCHANGED <<row, request, used>>

(* InitSFTP's SELECT COUNT: an existing row is left alone.                 *)
BootCheck ==
  /\ plane = "down"
  /\ plane' = IF row = Absent THEN "checked" ELSE "up"
  /\ UNCHANGED <<row, request, used>>

(* InitSFTP's INSERT ... ON CONFLICT DO NOTHING with a generated key.      *)
BootInsert ==
  /\ plane = "checked"
  /\ \E k \in Keys \ used :
       /\ used' = used \cup {k}
       /\ row' = IF row = Absent
                   THEN [settings |-> DefaultSettings, key |-> k,
                         fingerprint |-> Padded(k)]
                   ELSE row
  /\ plane' = "up"
  /\ UNCHANGED request

(* A failing InitSFTP is only logged: the server starts all the same.      *)
BootInsertFails ==
  /\ DbMayFail
  /\ plane \in {"down", "checked"}
  /\ plane' = "up"
  /\ UNCHANGED <<row, request, used>>

(* The process dies and every request it was executing dies with it.       *)
PlaneCrash ==
  /\ plane # "down"
  /\ plane' = "down"
  /\ request' = [s \in Slots |-> Idle]
  /\ UNCHANGED <<row, used>>

----------------------------------------------------------------------------
(* Handlers                                                                *)

(* What GetSFTP may return: the row, or the zero config when there is no
   row or the query fails.                                                 *)
GetSFTP == {IF row = Absent THEN ZeroConfig ELSE row}
             \cup (IF DbMayFail THEN {ZeroConfig} ELSE {})

(* The handler goroutine of slot s takes up a request.                     *)
Accept(s, op, pc, cfg) ==
  /\ plane = "up"
  /\ request[s] = Idle
  /\ request' = [request EXCEPT ![s] = [op |-> op, pc |-> pc, cfg |-> cfg]]

(* Slip: the upsert without the read that preserves the key.               *)
PutAsIs(s, op, cfg) == Accept(s, op, "write", cfg)

(* PUT /sftp: a config without a PEM goes through the read that preserves
   the stored key, any other config straight to the upsert.                *)
PutSFTP(s, op, cfg) ==
  Accept(s, op, IF cfg.key = NoKey THEN "read" ELSE "write", cfg)

(* The page's Save: the form's fields, never a host key.                   *)
UISave(s) ==
  /\ \E st \in Settings :
       PutSFTP(s, "save", [ZeroConfig EXCEPT !.settings = st])
  /\ UNCHANGED <<row, plane, used>>

(* POST /sftp/regenerate-key generates before it reads the config.         *)
Regenerate(s) ==
  /\ \E k \in Keys \ used :
       /\ Accept(s, "regenerate", "read",
                 [ZeroConfig EXCEPT !.key = k, !.fingerprint = Padded(k)])
       /\ used' = used \cup {k}
  /\ UNCHANGED <<row, plane>>

(* Slips: a save keeps the stored key but not its fingerprint; a
   regeneration forgets the stored settings.                               *)
MergeKeyOnly(req, existing) ==
  IF req.op = "regenerate"
    THEN [req.cfg EXCEPT !.settings = existing.settings]
    ELSE [req.cfg EXCEPT !.key = existing.key]
MergeKeyPair(req, existing) ==
  IF req.op = "regenerate"
    THEN req.cfg
    ELSE [req.cfg EXCEPT !.key = existing.key,
                         !.fingerprint = existing.fingerprint]

(* The config a handler writes, given the one it read: UpdateSFTP keeps the
   stored key and fingerprint, RegenerateHostKey everything but them.      *)
Merge(req, existing) ==
  IF req.op = "regenerate"
    THEN [req.cfg EXCEPT !.settings = existing.settings]
    ELSE [req.cfg EXCEPT !.key = existing.key,
                         !.fingerprint = existing.fingerprint]

Read(s) ==
  /\ request[s].pc = "read"
  /\ \E existing \in GetSFTP :
       request' = [request EXCEPT ![s] =
         [@ EXCEPT !.pc = "write", !.cfg = Merge(request[s], existing)]]
  /\ UNCHANGED <<row, plane, used>>

(* UpdateSFTP's upsert writes the whole row; its error is discarded and the
   handler answers success either way.                                     *)
Upsert(s) ==
  /\ request[s].pc = "write"
  /\ row' \in {request[s].cfg} \cup (IF DbMayFail THEN {row} ELSE {})
  /\ request' = [request EXCEPT ![s] = Idle]
  /\ UNCHANGED <<plane, used>>

StoreStep(s) == Read(s) \/ Upsert(s)

Boot == BootCheck \/ BootInsert \/ BootInsertFails

StoreNext ==
  \/ Boot
  \/ PlaneCrash
  \/ \E s \in Slots : UISave(s) \/ Regenerate(s) \/ StoreStep(s)

StoreSpec == StoreInit /\ [][StoreNext]_storeVars

----------------------------------------------------------------------------
(* Properties                                                              *)

(* store.go UpdateSFTP and RegenerateHostKey: the stored fingerprint is the
   fingerprint of the stored key, whatever saves, regenerations, failed
   statements and crashes interleave.                                      *)
KeyFingerprintAgree == row # Absent => row.fingerprint.of = row.key

(* main.go calls InitSFTP before ListenAndServe: while requests are served
   the row exists with a host key and credentials, so no read-modify-write
   ever starts from the zero config.  True when no statement fails.        *)
CompleteWhileServing ==
  plane = "up" => /\ row # Absent
                  /\ row.key # NoKey
                  /\ row.settings # NoSettings

(* store.go:359 "Preserve the host key if the caller didn't supply one": the
   write of a save from the page leaves the stored host key as it is.      *)
SaveKeepsKey ==
  [][\A s \in Slots :
       request[s].op = "save" /\ row # Absent /\ row' # row /\ Upsert(s)
         => row'.key = row.key]_storeVars

(* What the store promises when its handlers do not overlap: every step is a
   step of the two-field register of SftpRegister.                         *)
Register == INSTANCE SftpRegister
RegisterSpec == Register!Spec
============================================================================
