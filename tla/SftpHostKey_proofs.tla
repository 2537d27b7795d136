------------------------- MODULE SftpHostKey_proofs -------------------------
(* Proofs about SftpHostKey for any slots, keys and settings.              *)
EXTENDS SftpHostKey, SftpStore_proofs

Active == {"persisting", "starting", "serving"}

(* From the choice of a key on, the adapter has one.                       *)
Typed == TypeOK /\ (adapter.pc \in Active => hostKey \in Keys)

(* Key and fingerprint go together, or the pair was made by the goroutine:
   the PEM of the key file d with the fingerprint of a key of u.           *)
Paired(cfg, d, u) ==
  Agree(cfg) \/ /\ cfg.key \in Keys /\ cfg.key = d
                /\ cfg.fingerprint \in {Raw(k) : k \in u}

Known(cfg, u) == cfg.key \in u \cup {NoKey}

StoredAccounted == row # Absent => Paired(row, disk, used) /\ Known(row, used)

RequestsAccounted ==
  \A s \in Slots :
    /\ Known(request[s].cfg, used)
    /\ request[s].pc = "write" \/ request[s].op = "regenerate"
         => Paired(request[s].cfg, disk, used)

(* The adapter's own copies of keys.                                       *)
AdapterKnown ==
  /\ Known(adapter.cfg, used)
  /\ adapter.pc \in Active => hostKey \in used
  /\ adapter.pc = "persisting" => disk = Truncated
  /\ disk \in Keys => disk \in used

SyncAccounted ==
  sync.pc # "none" =>
    /\ sync.cfg.fingerprint \in {Raw(k) : k \in used}
    /\ sync.cfg.key = NoKey \/ (sync.cfg.key \in Keys /\ sync.cfg.key = disk)

HostKeyInv ==
  /\ Typed
  /\ StoredAccounted
  /\ RequestsAccounted
  /\ AdapterKnown
  /\ SyncAccounted

----------------------------------------------------------------------------
(* Types                                                                   *)

LEMMA TypeInit == Init => Typed
BY StoreTypeInit, ConfigTypes
DEF Init, TypeOK, Typed, Active, Down, NoSync, Adapter, Sync

LEMMA PutTypes ==
  ASSUME NEW s \in Slots, StoreTypeOK, NEW cfg \in Config, PutSFTP(s, "sync", cfg)
  PROVE  request' \in [Slots -> Request]
BY AcceptTypes DEF PutSFTP

LEMMA TypeStep == Typed /\ [Next]_vars => Typed'
<1> SUFFICES ASSUME Typed, [Next]_vars PROVE Typed'
  OBVIOUS
<1> USE DEF Typed, TypeOK, Active
<1>1. CASE StoreNext /\ UNCHANGED adapterVars
  BY <1>1, StoreTypeStep DEF adapterVars
<1>2. CASE FetchConfig
  <2>1. StoreTypeOK'
    BY <1>2 DEF FetchConfig, storeVars, StoreTypeOK
  <2>2. PICK cfg \in Config : adapter' = [pc |-> "choosing", cfg |-> cfg]
    BY <1>2, ConfigTypes, GetSFTPTypes DEF FetchConfig
  <2> QED BY <1>2, <2>1, <2>2 DEF FetchConfig, Adapter
<1>3. CASE LoadKey
  <2>1. hostKey' \in Keys
    BY <1>3 DEF LoadKey, FileHasKey, Adapter, Config
  <2> QED BY <1>3, <2>1 DEF LoadKey, storeVars, StoreTypeOK, Adapter
<1>4. CASE GenerateKey
  <2>1. hostKey' \in Keys /\ used' \subseteq Keys
    BY <1>4 DEF GenerateKey, StoreTypeOK
  <2>2. adapter' \in Adapter /\ disk' \in Keys \cup {NoFile, Truncated}
    BY <1>4 DEF GenerateKey, Adapter
  <2> QED BY <1>4, <2>1, <2>2 DEF GenerateKey, StoreTypeOK
<1>5. CASE PersistKey
  BY <1>5 DEF PersistKey, storeVars, StoreTypeOK, Adapter
<1>6. CASE StartServing
  <2>1. hostKey \in Keys /\ Raw(hostKey) \in Fingerprint
    BY <1>6, ConfigTypes DEF StartServing
  <2>2. [ZeroConfig EXCEPT !.fingerprint = Raw(hostKey)] \in Config
    BY <2>1, ConfigTypes DEF Config
  <2>3. sync' \in Sync
    BY <1>6, <2>2 DEF StartServing, Sync
  <2> QED BY <1>6, <2>1, <2>3 DEF StartServing, storeVars, StoreTypeOK, Adapter
<1>7. CASE AdapterCrash
  BY <1>7, ConfigTypes DEF AdapterCrash, storeVars, StoreTypeOK, Down, Adapter, NoSync, Sync
<1>8. CASE SyncReadFile
  BY <1>8, ConfigTypes
  DEF SyncReadFile, FileHasKey, storeVars, StoreTypeOK, NoSync, Sync, Config
<1>9. CASE SyncGet
  <2>1. StoreTypeOK'
    BY <1>9 DEF SyncGet, storeVars, StoreTypeOK
  <2>2. PICK cfg \in Config :
          sync' = [sync EXCEPT !.pc = "put", !.cfg.settings = cfg.settings]
    BY <1>9, GetSFTPTypes DEF SyncGet
  <2>3. sync' \in Sync
    BY <2>2 DEF Sync, Config
  <2> QED BY <1>9, <2>1, <2>3 DEF SyncGet
<1>10. ASSUME NEW s \in Slots, SyncPut(s) PROVE Typed'
  <2>1. request' \in [Slots -> Request]
    BY <1>10, PutTypes DEF SyncPut, Sync
  <2> QED BY <1>10, <2>1, ConfigTypes DEF SyncPut, StoreTypeOK, NoSync, Sync
<1>11. CASE SyncFails
  BY <1>11, ConfigTypes DEF SyncFails, storeVars, StoreTypeOK, NoSync, Sync
<1>12. CASE UNCHANGED vars
  BY <1>12 DEF vars, StoreTypeOK
<1> QED
  BY <1>1, <1>2, <1>3, <1>4, <1>5, <1>6, <1>7, <1>8, <1>9, <1>10, <1>11, <1>12
  DEF Next, AdapterBoot, SyncStep

----------------------------------------------------------------------------
(* The key file and the generated keys                                     *)

LEMMA FileKept == HostKeyInv /\ [Next]_vars => (disk \in Keys => disk' = disk)
<1> SUFFICES ASSUME HostKeyInv, [Next]_vars, disk \in Keys PROVE disk' = disk
  OBVIOUS
<1>1. ~GenerateKey
  BY DEF GenerateKey, NoKeyAnywhere, FileHasKey
<1>2. ~PersistKey
  BY FileAssumption DEF HostKeyInv, AdapterKnown, PersistKey
<1> QED
  BY <1>1, <1>2
  DEF Next, vars, adapterVars, AdapterBoot, FetchConfig, LoadKey, StartServing,
      AdapterCrash, SyncStep, SyncReadFile, SyncGet, SyncPut, SyncFails

LEMMA UsedGrows == [Next]_vars => used \subseteq used'
BY DEF Next, vars, StoreNext, Boot, BootCheck, BootInsert, BootInsertFails,
       PlaneCrash, UISave, Regenerate, StoreStep, Read, Upsert, storeVars,
       AdapterBoot, FetchConfig, LoadKey, GenerateKey, PersistKey, StartServing,
       AdapterCrash, SyncStep, SyncReadFile, SyncGet, SyncPut, SyncFails

(* A pair stays accounted for while keys are added and the file is kept.   *)
LEMMA PairedStable ==
  ASSUME NEW cfg, NEW d, NEW d1, NEW u, NEW u1, u \subseteq u1,
         d \in Keys => d1 = d, Paired(cfg, d, u)
  PROVE  Paired(cfg, d1, u1)
BY DEF Paired

LEMMA ZeroPaired ==
  ASSUME NEW d, NEW u
  PROVE  Paired(ZeroConfig, d, u) /\ Known(ZeroConfig, u)
BY ZeroAgrees DEF Paired, Known, ZeroConfig

LEMMA GetSFTPPaired ==
  ASSUME StoredAccounted, NEW cfg \in GetSFTP
  PROVE  Paired(cfg, disk, used) /\ Known(cfg, used)
BY ZeroPaired DEF StoredAccounted, GetSFTP

LEMMA MergePaired ==
  ASSUME NEW req \in Request, NEW existing \in Config, NEW d, NEW u,
         Paired(existing, d, u), Known(existing, u), Known(req.cfg, u),
         req.op = "regenerate" => Paired(req.cfg, d, u)
  PROVE  Paired(Merge(req, existing), d, u) /\ Known(Merge(req, existing), u)
<1> DEFINE m == Merge(req, existing)
<1>1. \/ m.key = req.cfg.key /\ m.fingerprint = req.cfg.fingerprint /\ req.op = "regenerate"
      \/ m.key = existing.key /\ m.fingerprint = existing.fingerprint
  BY DEF Merge, Request, Config
<1> QED BY <1>1 DEF Paired, Known, Agree

Stored == StoredAccounted /\ RequestsAccounted

(* The steps of the control plane alone.                                   *)
LEMMA StoreKeepsPaired ==
  ASSUME StoreTypeOK, Stored, StoreNext, disk' = disk, used \subseteq used'
  PROVE  Stored'
<1> USE DEF Stored
<1>a. ASSUME NEW cfg, Paired(cfg, disk, used), Known(cfg, used)
      PROVE  Paired(cfg, disk', used') /\ Known(cfg, used')
  BY <1>a, PairedStable DEF Known
<1>b. ASSUME row' = row PROVE StoredAccounted'
  BY <1>a, <1>b DEF StoredAccounted
<1>c. ASSUME NEW cfg, Known(cfg, used) PROVE Known(cfg, used')
  BY <1>c DEF Known
<1>d. ASSUME NEW t \in Slots, request'[t] = request[t]
      PROVE  /\ Known(request'[t].cfg, used')
             /\ request'[t].pc = "write" \/ request'[t].op = "regenerate"
                  => Paired(request'[t].cfg, disk', used')
  BY <1>a, <1>c, <1>d DEF RequestsAccounted
<1>e. ASSUME request' = request PROVE RequestsAccounted'
  BY <1>d, <1>e DEF RequestsAccounted
<1>1. CASE BootCheck
  BY <1>1, <1>b, <1>e DEF BootCheck
<1>2. CASE BootInsert
  <2>1. PICK k \in Keys \ used :
          /\ used' = used \cup {k}
          /\ row' = IF row = Absent
                      THEN [settings |-> DefaultSettings, key |-> k,
                            fingerprint |-> Padded(k)]
                      ELSE row
    BY <1>2 DEF BootInsert
  <2>2. ASSUME row = Absent PROVE StoredAccounted'
    BY <2>1, <2>2 DEF StoredAccounted, Paired, Known, Agree, Padded
  <2>3. ASSUME row # Absent PROVE StoredAccounted'
    BY <2>1, <2>3, <1>b
  <2> QED BY <1>2, <2>2, <2>3, <1>e DEF BootInsert
<1>3. CASE BootInsertFails
  BY <1>3, <1>b, <1>e DEF BootInsertFails
<1>4. CASE PlaneCrash
  BY <1>4, <1>b, ZeroPaired DEF PlaneCrash, RequestsAccounted, Idle
<1>5. ASSUME NEW s \in Slots, UISave(s) PROVE Stored'
  <2> DEFINE new(st) == [ZeroConfig EXCEPT !.settings = st]
  <2>1. PICK st \in Settings : Accept(s, "save", "read", new(st))
    BY <1>5 DEF UISave, PutSFTP, ZeroConfig
  <2>2. Known(new(st), used')
    BY DEF Known, ZeroConfig
  <2> HIDE DEF new
  <2>3. /\ \A t \in Slots : t # s => request'[t] = request[t]
        /\ request'[s].op = "save" /\ request'[s].pc = "read"
        /\ Known(request'[s].cfg, used')
    BY <2>1, <2>2, AcceptSlot
  <2>4. RequestsAccounted'
    BY <2>3, <1>d DEF RequestsAccounted
  <2> QED BY <1>5, <2>4, <1>b DEF UISave
<1>6. ASSUME NEW s \in Slots, Regenerate(s) PROVE Stored'
  <2> DEFINE new(k) == [ZeroConfig EXCEPT !.key = k, !.fingerprint = Padded(k)]
  <2>1. PICK k \in Keys : Accept(s, "regenerate", "read", new(k)) /\ k \in used'
    BY <1>6 DEF Regenerate
  <2>2. Paired(new(k), disk', used') /\ Known(new(k), used')
    BY <2>1 DEF Paired, Known, Agree, Padded, ZeroConfig
  <2> HIDE DEF new
  <2>3. /\ \A t \in Slots : t # s => request'[t] = request[t]
        /\ Paired(request'[s].cfg, disk', used') /\ Known(request'[s].cfg, used')
    BY <2>1, <2>2, AcceptSlot
  <2>4. RequestsAccounted'
    BY <2>3, <1>d DEF RequestsAccounted
  <2> QED BY <1>6, <2>4, <1>b DEF Regenerate
<1>7. ASSUME NEW s \in Slots, Read(s) PROVE Stored'
  <2>1. PICK existing \in GetSFTP : \A t \in Slots :
           /\ t # s => request'[t] = request[t]
           /\ request'[s].cfg = Merge(request[s], existing)
    BY <1>7, ReadSlot
  <2>2. /\ Paired(existing, disk, used) /\ Known(existing, used)
        /\ existing \in Config
    BY <2>1, GetSFTPPaired, GetSFTPTypes
  <2>3. /\ request[s] \in Request /\ Known(request[s].cfg, used)
        /\ request[s].op = "regenerate" => Paired(request[s].cfg, disk, used)
    BY DEF StoreTypeOK, RequestsAccounted
  <2>4. /\ Paired(Merge(request[s], existing), disk, used)
        /\ Known(Merge(request[s], existing), used)
    BY <2>2, <2>3, MergePaired
  <2>5. RequestsAccounted'
    BY <2>1, <2>4, <1>a, <1>d DEF RequestsAccounted
  <2> QED BY <1>7, <2>5, <1>b DEF Read
<1>8. ASSUME NEW s \in Slots, Upsert(s) PROVE Stored'
  <2>1. Paired(request[s].cfg, disk, used) /\ Known(request[s].cfg, used)
    BY <1>8 DEF Upsert, RequestsAccounted
  <2>2. StoredAccounted'
    BY <1>8, <2>1, <1>a, <1>b DEF Upsert, StoredAccounted
  <2>3. \A t \in Slots : request'[t] = IF t = s THEN Idle ELSE request[t]
    BY <1>8, IdleSlot
  <2>4. RequestsAccounted'
    BY <2>3, <1>d, ZeroPaired DEF RequestsAccounted, Idle
  <2> QED BY <2>2, <2>4
<1> QED
  BY <1>1, <1>2, <1>3, <1>4, <1>5, <1>6, <1>7, <1>8
  DEF StoreNext, Boot, StoreStep

(* The steps of the adapter; only the goroutine's PUT touches the plane.   *)
LEMMA HostKeyStep == HostKeyInv /\ [Next]_vars => HostKeyInv'
<1> SUFFICES ASSUME HostKeyInv, [Next]_vars
             PROVE  Stored' /\ AdapterKnown' /\ SyncAccounted'
  BY TypeStep DEF HostKeyInv, Stored
<1> DEFINE Good == Stored' /\ AdapterKnown' /\ SyncAccounted'
<1>a. Typed /\ Stored /\ AdapterKnown /\ SyncAccounted
  BY DEF HostKeyInv, Stored
<1>b. StoreTypeOK /\ adapter \in Adapter /\ sync \in Sync
  BY <1>a DEF Typed, TypeOK
<1>c. used \subseteq used' /\ (disk \in Keys => disk' = disk)
  BY UsedGrows, FileKept
<1>d. ASSUME NEW cfg, Paired(cfg, disk, used), Known(cfg, used)
      PROVE  Paired(cfg, disk', used') /\ Known(cfg, used')
  BY <1>c, <1>d, PairedStable DEF Known
<1>e. ASSUME row' = row, request' = request PROVE Stored'
  <2>1. StoredAccounted'
    BY <1>a, <1>d, <1>e DEF Stored, StoredAccounted
  <2>2. \A cfg : Known(cfg, used) => Known(cfg, used')
    BY <1>c DEF Known
  <2>3. RequestsAccounted'
    BY <1>a, <1>d, <1>e, <2>2 DEF Stored, RequestsAccounted
  <2> QED BY <2>1, <2>3 DEF Stored
<1>f. ASSUME sync' = sync PROVE SyncAccounted'
  BY <1>a, <1>c, <1>f DEF SyncAccounted
<1>1. CASE StoreNext /\ UNCHANGED adapterVars
  <2>1. Stored'
    BY <1>1, <1>a, <1>b, <1>c, StoreKeepsPaired DEF adapterVars
  <2>2. AdapterKnown'
    BY <1>1, <1>a, <1>c DEF adapterVars, AdapterKnown, Known
  <2> QED BY <1>1, <2>1, <2>2, <1>f DEF adapterVars
<1>2. CASE FetchConfig
  <2>1. PICK cfg \in {ZeroConfig} \cup GetSFTP : adapter' = [pc |-> "choosing", cfg |-> cfg]
    BY <1>2 DEF FetchConfig
  <2>2. Known(cfg, used)
    BY <1>a, ZeroPaired, GetSFTPPaired DEF Stored
  <2>3. AdapterKnown'
    BY <1>2, <1>a, <2>1, <2>2 DEF FetchConfig, AdapterKnown, Active, storeVars
  <2> QED BY <1>2, <2>3, <1>e, <1>f DEF FetchConfig, storeVars
<1>3. CASE LoadKey
  <2>1. hostKey' \in used
    BY <1>3, <1>a DEF LoadKey, FileHasKey, AdapterKnown, Known
  <2>2. AdapterKnown'
    BY <1>3, <1>a, <1>b, <2>1 DEF LoadKey, AdapterKnown, Known, storeVars, Adapter
  <2> QED BY <1>3, <2>2, <1>e, <1>f DEF LoadKey, storeVars
<1>4. CASE GenerateKey
  <2>1. hostKey' \in used'
    BY <1>4 DEF GenerateKey
  <2>2. adapter'.cfg = adapter.cfg /\ disk' \notin Keys
    BY <1>4, <1>b, FileAssumption DEF GenerateKey, NoKeyAnywhere, FileHasKey, Adapter
  <2>3. adapter'.pc = "persisting" => disk' = Truncated
    BY <1>4, <1>b DEF GenerateKey, Adapter
  <2>4. AdapterKnown'
    BY <1>a, <1>c, <2>1, <2>2, <2>3 DEF AdapterKnown, Known
  <2> QED BY <1>4, <2>4, <1>e, <1>f DEF GenerateKey
<1>5. CASE PersistKey
  <2>1. hostKey \in used
    BY <1>5, <1>a DEF PersistKey, AdapterKnown, Active
  <2>2. AdapterKnown'
    BY <1>5, <1>a, <1>b, <2>1 DEF PersistKey, AdapterKnown, Known, storeVars, Adapter
  <2> QED BY <1>5, <2>2, <1>e, <1>f DEF PersistKey, storeVars
<1>6. CASE StartServing
  <2>1. hostKey \in used
    BY <1>6, <1>a DEF StartServing, AdapterKnown, Active
  <2>2. AdapterKnown'
    BY <1>6, <1>a, <1>b, <2>1 DEF StartServing, AdapterKnown, Known, storeVars, Adapter
  <2> DEFINE new == [ZeroConfig EXCEPT !.fingerprint = Raw(hostKey)]
  <2>3. new.fingerprint = Raw(hostKey) /\ new.key = NoKey
    BY DEF ZeroConfig
  <2> HIDE DEF new
  <2>4. sync' = sync \/ sync'.cfg = new
    BY <1>6 DEF StartServing, new
  <2>5. SyncAccounted'
    BY <1>6, <1>f, <2>1, <2>3, <2>4 DEF StartServing, SyncAccounted, storeVars
  <2> QED BY <1>6, <2>2, <2>5, <1>e DEF StartServing, storeVars
<1>7. CASE AdapterCrash
  <2>1. AdapterKnown'
    BY <1>7, <1>a DEF AdapterCrash, AdapterKnown, Active, Down, ZeroConfig, Known, storeVars
  <2>2. SyncAccounted'
    BY <1>7 DEF AdapterCrash, SyncAccounted, NoSync
  <2> QED BY <1>7, <2>1, <2>2, <1>e DEF AdapterCrash, storeVars
<1>8. CASE SyncReadFile
  <2>1. AdapterKnown'
    BY <1>8, <1>a DEF SyncReadFile, AdapterKnown, storeVars
  <2>2. \/ sync' = NoSync
        \/ /\ sync'.cfg.fingerprint = sync.cfg.fingerprint
           /\ sync'.cfg.key = IF FileHasKey THEN disk ELSE NoKey
    BY <1>8, <1>b DEF SyncReadFile, Sync, Config
  <2>3. SyncAccounted'
    BY <1>8, <1>a, <2>2 DEF SyncReadFile, SyncAccounted, NoSync, FileHasKey, storeVars
  <2> QED BY <1>8, <2>1, <2>3, <1>e DEF SyncReadFile, storeVars
<1>9. CASE SyncGet
  <2>1. AdapterKnown'
    BY <1>9, <1>a DEF SyncGet, AdapterKnown, storeVars
  <2>2. PICK st : sync' = [sync EXCEPT !.pc = "put", !.cfg.settings = st]
    BY <1>9 DEF SyncGet
  <2>3. /\ sync'.cfg.fingerprint = sync.cfg.fingerprint
        /\ sync'.cfg.key = sync.cfg.key
    BY <1>b, <2>2 DEF Sync, Config
  <2>4. SyncAccounted'
    BY <1>9, <1>a, <2>3 DEF SyncGet, SyncAccounted, storeVars
  <2> QED BY <1>9, <2>1, <2>4, <1>e DEF SyncGet, storeVars
<1>10. ASSUME NEW s \in Slots, SyncPut(s) PROVE Good
  <2>1. AdapterKnown' /\ StoredAccounted'
    BY <1>10, <1>a DEF SyncPut, AdapterKnown, Stored, StoredAccounted
  <2>2. SyncAccounted'
    BY <1>10 DEF SyncPut, SyncAccounted, NoSync
  <2>3. PICK pc \in {"read", "write"} :
          /\ Accept(s, "sync", pc, sync.cfg)
          /\ pc = "write" => sync.cfg.key # NoKey
    BY <1>10 DEF SyncPut, PutSFTP
  <2>4. /\ \A t \in Slots : t # s => request'[t] = request[t]
        /\ request'[s].op = "sync" /\ request'[s].pc = pc
        /\ request'[s].cfg = sync.cfg
    BY <1>b, <2>3, AcceptSlot
  <2>5. /\ Known(sync.cfg, used)
        /\ pc = "write" => Paired(sync.cfg, disk, used)
    BY <1>10, <1>a, <2>3 DEF SyncPut, SyncAccounted, AdapterKnown, Known, Paired
  <2>6. RequestsAccounted'
    BY <1>10, <1>a, <2>4, <2>5 DEF SyncPut, Stored, RequestsAccounted
  <2> QED BY <2>1, <2>2, <2>6 DEF Stored
<1>11. CASE SyncFails
  <2>1. AdapterKnown'
    BY <1>11, <1>a DEF SyncFails, AdapterKnown, storeVars
  <2>2. SyncAccounted'
    BY <1>11 DEF SyncFails, SyncAccounted, NoSync
  <2> QED BY <1>11, <2>1, <2>2, <1>e DEF SyncFails, storeVars
<1>12. CASE UNCHANGED vars
  BY <1>12, <1>a, <1>e, <1>f DEF vars, AdapterKnown
<1> QED
  BY <1>1, <1>2, <1>3, <1>4, <1>5, <1>6, <1>7, <1>8, <1>9, <1>10, <1>11, <1>12
  DEF Next, AdapterBoot, SyncStep

LEMMA HostKeyInit == Init => HostKeyInv
BY TypeInit, ZeroPaired, FileAssumption
DEF Init, StoreInit, HostKeyInv, StoredAccounted, RequestsAccounted, AdapterKnown,
    SyncAccounted, Idle, Down, NoSync, Active, ZeroConfig

LEMMA HostKeyAlways == Spec => []HostKeyInv
<1>1. Init => HostKeyInv
  BY HostKeyInit
<1>2. HostKeyInv /\ [Next]_vars => HostKeyInv'
  BY HostKeyStep
<1> QED BY <1>1, <1>2, PTL DEF Spec

----------------------------------------------------------------------------
(* The adapter, its file and the goroutine hold values of their types.     *)
THEOREM TypeCorrect == Spec => []TypeOK
<1>1. HostKeyInv => TypeOK
  BY DEF HostKeyInv, Typed
<1> QED BY <1>1, HostKeyAlways, PTL

(* A stored fingerprint that is not its key's comes from the sync goroutine's
   reading the key file while another key was active, and from nowhere else
   (main.go syncHostKeyToControlPlane, store.go UpdateSFTP).               *)
THEOREM MismatchAccounted == Spec => []MismatchOnlyFromKeyFile
<1>1. HostKeyInv => MismatchOnlyFromKeyFile
  BY DEF HostKeyInv, StoredAccounted, Paired, Agree, MismatchOnlyFromKeyFile,
         SyncMismatch
<1> QED BY <1>1, HostKeyAlways, PTL

(* Once the key file holds a key no crash, restart or rotation replaces it
   (main.go persistHostKey, loadOrGenerateHostKey).                        *)
THEOREM FileNeverReplaced == Spec => KeyFileKept
<1>1. HostKeyInv /\ [Next]_vars => [(disk \in Keys) => (disk' = disk)]_vars
  BY FileKept
<1> QED BY <1>1, HostKeyAlways, PTL DEF Spec, KeyFileKept
=============================================================================
