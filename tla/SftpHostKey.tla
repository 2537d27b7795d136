---------------------------- MODULE SftpHostKey ----------------------------
(***************************************************************************)
(* The life of the SFTP adapter's host key (adapters/sftp/main.go) next to *)
(* the control plane of SftpStore: boot with or without the control plane, *)
(* the key file, and the goroutine that pushes the active key back with a  *)
(* GET and a PUT of the whole configuration.                               *)
(***************************************************************************)
EXTENDS SftpStore

CONSTANTS NoFile,    \* no file at HOST_KEY_PATH
          Truncated  \* the file exists but its write was cut off

ASSUME FileAssumption == Keys \cap {NoFile, Truncated} = {}

VARIABLES
  adapter,  \* the process: pc, and the config fetched at boot
  hostKey,  \* the primary key of the listener, NoKey while not serving
  disk,     \* the file at HOST_KEY_PATH: outlives the process
  sync      \* the goroutine of syncHostKeyToControlPlane

adapterVars == <<adapter, hostKey, disk, sync>>
vars == <<row, plane, request, used, adapter, hostKey, disk, sync>>

Adapter == [pc : {"down", "choosing", "persisting", "starting", "serving"},
            cfg : Config]
Down == [pc |-> "down", cfg |-> ZeroConfig]

(* "read" precedes ReadFile, "get" the GET /sftp, "put" the PUT /sftp;
   pem is the file's contents, fingerprint main's argument.                *)
Sync == [pc : {"none", "read", "get", "put"}, cfg : Config]
NoSync == [pc |-> "none", cfg |-> ZeroConfig]

TypeOK ==
  /\ StoreTypeOK
  /\ adapter \in Adapter
  /\ hostKey \in Keys \cup {NoKey}
  /\ disk \in Keys \cup {NoFile, Truncated}
  /\ sync \in Sync

Init ==
  /\ StoreInit
  /\ adapter = Down
  /\ hostKey = NoKey
  /\ disk = NoFile
  /\ sync = NoSync

----------------------------------------------------------------------------
(* Boot                                                                    *)

(* main's fetchConfig: GET /adapter-config/sftp answers with the stored
   config; any error, or no answer in time, leaves the empty config.       *)
FetchConfig ==
  /\ adapter.pc = "down"
  /\ \E cfg \in {ZeroConfig} \cup (IF plane = "up" THEN GetSFTP ELSE {}) :
       adapter' = [pc |-> "choosing", cfg |-> cfg]
  /\ UNCHANGED <<storeVars, hostKey, disk, sync>>

(* A key file counts when its PEM parses.  Slip: when it exists.            *)
FileExists == disk # NoFile
FileHasKey == disk \in Keys

(* loadOrGenerateHostKey, first the PEM of the config, then the file.      *)
LoadKey ==
  /\ adapter.pc = "choosing"
  /\ IF adapter.cfg.key # NoKey
       THEN hostKey' = adapter.cfg.key
       ELSE FileHasKey /\ hostKey' = disk
  /\ adapter' = [adapter EXCEPT !.pc = "starting"]
  /\ UNCHANGED <<storeVars, disk, sync>>

(* Slip: the file is not looked at.                                        *)
NoKeyFetched == adapter.cfg.key = NoKey
NoKeyAnywhere == adapter.cfg.key = NoKey /\ ~FileHasKey

(* Neither: generate a key.  persistHostKey creates the file before it
   writes it; when it cannot (the error is only logged) the key lives in
   memory alone.                                                           *)
GenerateKey ==
  /\ adapter.pc = "choosing"
  /\ NoKeyAnywhere
  /\ \E k \in Keys \ used : used' = used \cup {k} /\ hostKey' = k
  /\ \/ /\ adapter' = [adapter EXCEPT !.pc = "persisting"]
        /\ disk' = Truncated
     \/ /\ adapter' = [adapter EXCEPT !.pc = "starting"]
        /\ disk' = disk
  /\ UNCHANGED <<row, plane, request, sync>>

(* WriteFile; it may fail after the file was created, which is only logged. *)
PersistKey ==
  /\ adapter.pc = "persisting"
  /\ disk' \in {hostKey, disk}
  /\ adapter' = [adapter EXCEPT !.pc = "starting"]
  /\ UNCHANGED <<storeVars, hostKey, sync>>

(* main compares the fetched fingerprint with that of the active key and
   starts the goroutine when they differ, then listens.                    *)
StartServing ==
  /\ adapter.pc = "starting"
  /\ adapter' = [adapter EXCEPT !.pc = "serving"]
  /\ sync' = IF adapter.cfg.fingerprint # Raw(hostKey)
               THEN [pc |-> "read",
                     cfg |-> [ZeroConfig EXCEPT !.fingerprint = Raw(hostKey)]]
               ELSE sync
  /\ UNCHANGED <<storeVars, hostKey, disk>>

(* The container dies or is restarted, the goroutine with it; a PUT already
   received by the control plane goes on there.                            *)
AdapterCrash ==
  /\ adapter.pc # "down"
  /\ adapter' = Down
  /\ hostKey' = NoKey
  /\ sync' = NoSync
  /\ UNCHANGED <<storeVars, disk>>

----------------------------------------------------------------------------
(* syncHostKeyToControlPlane                                               *)

(* ReadFile of the key file, whichever key is active: an empty file is an
   empty PEM, a missing one ends the goroutine.                            *)
SyncReadFile ==
  /\ sync.pc = "read"
  /\ sync' = IF disk = NoFile
               THEN NoSync
               ELSE [sync EXCEPT !.pc = "get",
                       !.cfg.key = IF FileHasKey THEN disk ELSE NoKey]
  /\ UNCHANGED <<storeVars, adapter, hostKey, disk>>

(* GET /sftp: the stored settings, to which the two key fields are added.  *)
SyncGet ==
  /\ sync.pc = "get" /\ plane = "up"
  /\ \E cfg \in GetSFTP :
       sync' = [sync EXCEPT !.pc = "put", !.cfg.settings = cfg.settings]
  /\ UNCHANGED <<storeVars, adapter, hostKey, disk>>

(* PUT /sftp; the goroutine ends whatever the answer.                      *)
SyncPut(s) ==
  /\ sync.pc = "put"
  /\ PutSFTP(s, "sync", sync.cfg)
  /\ sync' = NoSync
  /\ UNCHANGED <<row, plane, used, adapter, hostKey, disk>>

(* A file that cannot be read, a refused connection or a timeout: logged,
   never retried.                                                          *)
SyncFails ==
  /\ sync.pc \in {"read", "get", "put"}
  /\ sync' = NoSync
  /\ UNCHANGED <<storeVars, adapter, hostKey, disk>>

----------------------------------------------------------------------------
AdapterBoot == FetchConfig \/ LoadKey \/ GenerateKey \/ PersistKey \/ StartServing

SyncStep == SyncReadFile \/ SyncGet \/ SyncFails \/ \E s \in Slots : SyncPut(s)

Next ==
  \/ StoreNext /\ UNCHANGED adapterVars
  \/ AdapterBoot
  \/ AdapterCrash
  \/ SyncStep

Spec == Init /\ [][Next]_vars

----------------------------------------------------------------------------
(* Properties                                                              *)

(* The only way the two key fields of a stored config can disagree.        *)
SyncMismatch(cfg) ==
  /\ cfg.key = disk
  /\ cfg.fingerprint \in {Raw(k) : k \in used}

(* store.go UpdateSFTP, main.go syncHostKeyToControlPlane: a stored
   fingerprint that is not its key's comes from the goroutine's reading the
   key file while another key was active: then the stored PEM is the file's
   and the fingerprint one the adapter computed.                           *)
MismatchOnlyFromKeyFile ==
  row # Absent /\ row.fingerprint.of # row.key => SyncMismatch(row)

(* main.go:411 "Persist so the fingerprint survives restarts": once the key
   file holds a key no crash, restart or rotation replaces it.             *)
KeyFileKept == [][(disk \in Keys) => (disk' = disk)]_vars

(* main.go:207 "so the UI always shows the correct value": the fingerprint
   the page reads is that of the stored key.                               *)
FingerprintShown == row # Absent => row.fingerprint.of = row.key

(* main.go:552 "so we only overwrite the key fields": the write of the
   goroutine's PUT leaves the stored settings as they are.                 *)
SyncKeepsSettings ==
  [][\A s \in Slots :
       request[s].op = "sync" /\ row # Absent /\ row' # row /\ Upsert(s)
         => row'.settings = row.settings]_vars
============================================================================
