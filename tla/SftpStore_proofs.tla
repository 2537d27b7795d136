-------------------------- MODULE SftpStore_proofs --------------------------
(* Proofs about SftpStore for any slots, keys and settings.                *)
EXTENDS SftpStore, TLAPS

(* A config in which key and fingerprint go together.                      *)
Agree(cfg) == cfg.fingerprint.of = cfg.key

(* What a handler is about to write, in either of its two steps.           *)
RequestsAgree ==
  \A s \in Slots :
    request[s].pc = "write" \/ request[s].op = "regenerate"
      => Agree(request[s].cfg)

AgreeInv == StoreTypeOK /\ KeyFingerprintAgree /\ RequestsAgree

----------------------------------------------------------------------------
LEMMA ConfigTypes ==
  /\ ZeroConfig \in Config
  /\ Idle \in Request
  /\ \A k \in Keys : Padded(k) \in Fingerprint /\ Raw(k) \in Fingerprint
  /\ DefaultSettings \in Settings
BY SettingsAssumption
   DEF ZeroConfig, Config, Idle, Request, Padded, Raw, Fingerprint, NoFingerprint

(* Merge never leaves the configurations.                                  *)
LEMMA MergeTypes ==
  ASSUME NEW req \in Request, NEW existing \in Config
  PROVE  Merge(req, existing) \in Config
BY DEF Merge, Request, Config

LEMMA GetSFTPTypes ==
  ASSUME StoreTypeOK
  PROVE  GetSFTP \subseteq Config
BY ConfigTypes DEF StoreTypeOK, GetSFTP

LEMMA AcceptTypes ==
  ASSUME NEW s \in Slots, StoreTypeOK,
         NEW op \in {"save", "sync", "regenerate"}, NEW pc \in {"read", "write"},
         NEW cfg \in Config, Accept(s, op, pc, cfg)
  PROVE  request' \in [Slots -> Request]
BY DEF StoreTypeOK, Accept, Request

(* Every step of the store keeps the types.                                *)
LEMMA StoreTypeStep == StoreTypeOK /\ [StoreNext]_storeVars => StoreTypeOK'
<1> SUFFICES ASSUME StoreTypeOK, [StoreNext]_storeVars PROVE StoreTypeOK'
  OBVIOUS
<1>1. CASE BootCheck
  BY <1>1 DEF BootCheck, StoreTypeOK
<1>2. CASE BootInsert
  <2>1. PICK k \in Keys \ used :
          /\ used' = used \cup {k}
          /\ row' = IF row = Absent
                      THEN [settings |-> DefaultSettings, key |-> k,
                            fingerprint |-> Padded(k)]
                      ELSE row
    BY <1>2 DEF BootInsert
  <2>2. [settings |-> DefaultSettings, key |-> k, fingerprint |-> Padded(k)] \in Config
    BY ConfigTypes DEF Config
  <2> QED BY <1>2, <2>1, <2>2 DEF BootInsert, StoreTypeOK
<1>3. CASE BootInsertFails
  BY <1>3 DEF BootInsertFails, StoreTypeOK
<1>4. CASE PlaneCrash
  BY <1>4, ConfigTypes DEF PlaneCrash, StoreTypeOK
<1>5. ASSUME NEW s \in Slots, UISave(s) PROVE StoreTypeOK'
  <2>1. PICK st \in Settings : PutSFTP(s, "save", [ZeroConfig EXCEPT !.settings = st])
    BY <1>5 DEF UISave
  <2>2. [ZeroConfig EXCEPT !.settings = st] \in Config
    BY ConfigTypes DEF Config
  <2>3. request' \in [Slots -> Request]
    BY <2>1, <2>2, AcceptTypes DEF PutSFTP
  <2> QED BY <1>5, <2>3 DEF UISave, StoreTypeOK
<1>6. ASSUME NEW s \in Slots, Regenerate(s) PROVE StoreTypeOK'
  <2>1. PICK k \in Keys \ used :
          /\ Accept(s, "regenerate", "read",
                    [ZeroConfig EXCEPT !.key = k, !.fingerprint = Padded(k)])
          /\ used' = used \cup {k}
    BY <1>6 DEF Regenerate
  <2>2. [ZeroConfig EXCEPT !.key = k, !.fingerprint = Padded(k)] \in Config
    BY ConfigTypes DEF Config
  <2>3. request' \in [Slots -> Request]
    BY <2>1, <2>2, AcceptTypes
  <2> QED BY <1>6, <2>1, <2>3 DEF Regenerate, StoreTypeOK
<1>7. ASSUME NEW s \in Slots, Read(s) PROVE StoreTypeOK'
  <2>1. PICK existing \in GetSFTP :
          request' = [request EXCEPT ![s] =
            [@ EXCEPT !.pc = "write", !.cfg = Merge(request[s], existing)]]
    BY <1>7 DEF Read
  <2>2. Merge(request[s], existing) \in Config
    BY <2>1, GetSFTPTypes, MergeTypes DEF StoreTypeOK
  <2>3. request' \in [Slots -> Request]
    BY <2>1, <2>2 DEF StoreTypeOK, Request
  <2> QED BY <1>7, <2>3 DEF Read, StoreTypeOK
<1>8. ASSUME NEW s \in Slots, Upsert(s) PROVE StoreTypeOK'
  <2>1. request[s].cfg \in Config
    BY DEF StoreTypeOK, Request
  <2>2. row' \in Config \cup {Absent}
    BY <1>8, <2>1 DEF Upsert, StoreTypeOK
  <2> QED BY <1>8, <2>2, ConfigTypes DEF Upsert, StoreTypeOK
<1>9. CASE UNCHANGED storeVars
  BY <1>9 DEF storeVars, StoreTypeOK
<1> QED
  BY <1>1, <1>2, <1>3, <1>4, <1>5, <1>6, <1>7, <1>8, <1>9
  DEF StoreNext, Boot, StoreStep

LEMMA StoreTypeInit == StoreInit => StoreTypeOK
BY ConfigTypes DEF StoreInit, StoreTypeOK

(* The tables and the handlers only ever hold values of their types.       *)
THEOREM StoreTypeCorrect == StoreSpec => []StoreTypeOK
<1>1. StoreInit => StoreTypeOK
  BY StoreTypeInit
<1>2. StoreTypeOK /\ [StoreNext]_storeVars => StoreTypeOK'
  BY StoreTypeStep
<1> QED BY <1>1, <1>2, PTL DEF StoreSpec

----------------------------------------------------------------------------
(* A step's effect on the handler of slot t.                               *)
LEMMA AcceptSlot ==
  ASSUME StoreTypeOK, NEW s \in Slots, NEW op, NEW pc, NEW cfg,
         Accept(s, op, pc, cfg)
  PROVE  /\ \A t \in Slots : t # s => request'[t] = request[t]
         /\ request'[s].op = op
         /\ request'[s].pc = pc
         /\ request'[s].cfg = cfg
BY DEF Accept, StoreTypeOK

LEMMA ReadSlot ==
  ASSUME StoreTypeOK, NEW s \in Slots, Read(s)
  PROVE  \E existing \in GetSFTP : \A t \in Slots :
           /\ t # s => request'[t] = request[t]
           /\ request'[s].pc = "write"
           /\ request'[s].op = request[s].op
           /\ request'[s].cfg = Merge(request[s], existing)
<1>1. PICK existing \in GetSFTP :
        request' = [request EXCEPT ![s] =
          [@ EXCEPT !.pc = "write", !.cfg = Merge(request[s], existing)]]
  BY DEF Read
<1>2. request[s] \in Request
  BY DEF StoreTypeOK
<1>3. \A t \in Slots : t # s => request'[t] = request[t]
  BY <1>1 DEF StoreTypeOK
<1>4. request'[s] = [request[s] EXCEPT !.pc = "write",
                                       !.cfg = Merge(request[s], existing)]
  BY <1>1 DEF StoreTypeOK
<1> QED BY <1>2, <1>3, <1>4 DEF Request

LEMMA IdleSlot ==
  ASSUME StoreTypeOK, NEW s \in Slots, Upsert(s), NEW t \in Slots
  PROVE  request'[t] = IF t = s THEN Idle ELSE request[t]
BY DEF Upsert, StoreTypeOK

LEMMA ZeroAgrees == Agree(ZeroConfig)
BY DEF Agree, ZeroConfig, NoFingerprint

(* What a handler reads is a pair if what is stored is one.                *)
LEMMA GetSFTPAgrees ==
  ASSUME KeyFingerprintAgree, NEW cfg \in GetSFTP
  PROVE  Agree(cfg)
BY ZeroAgrees DEF KeyFingerprintAgree, GetSFTP, Agree

(* Merging takes key and fingerprint from the same side.                   *)
LEMMA MergeAgrees ==
  ASSUME NEW req \in Request, NEW existing \in Config, Agree(existing),
         req.op = "regenerate" => Agree(req.cfg)
  PROVE  Agree(Merge(req, existing))
BY DEF Agree, Merge, Request, Config

LEMMA AgreeStep == AgreeInv /\ [StoreNext]_storeVars => AgreeInv'
<1> SUFFICES ASSUME AgreeInv, [StoreNext]_storeVars
             PROVE  KeyFingerprintAgree' /\ RequestsAgree'
  BY StoreTypeStep DEF AgreeInv
<1> USE DEF AgreeInv
<1>0. \A r \in Request : r.cfg \in Config
  BY DEF Request
<1>1. CASE BootCheck
  BY <1>1 DEF BootCheck, KeyFingerprintAgree, RequestsAgree
<1>2. CASE BootInsert
  BY <1>2 DEF BootInsert, Padded, KeyFingerprintAgree, RequestsAgree
<1>3. CASE BootInsertFails
  BY <1>3 DEF BootInsertFails, KeyFingerprintAgree, RequestsAgree
<1>4. CASE PlaneCrash
  BY <1>4, ZeroAgrees DEF PlaneCrash, Idle, KeyFingerprintAgree, RequestsAgree
<1>5. ASSUME NEW s \in Slots, UISave(s) PROVE KeyFingerprintAgree' /\ RequestsAgree'
  <2>1. PICK cfg : Accept(s, "save", "read", cfg)
    BY <1>5 DEF UISave, PutSFTP, ZeroConfig
  <2>2. \A t \in Slots : t # s => request'[t] = request[t]
    BY <2>1, AcceptSlot
  <2>3. request'[s].op = "save" /\ request'[s].pc = "read"
    BY <2>1, AcceptSlot
  <2> QED BY <1>5, <2>2, <2>3 DEF UISave, KeyFingerprintAgree, RequestsAgree
<1>6. ASSUME NEW s \in Slots, Regenerate(s) PROVE KeyFingerprintAgree' /\ RequestsAgree'
  <2> DEFINE new(k) == [ZeroConfig EXCEPT !.key = k, !.fingerprint = Padded(k)]
  <2>0. PICK k \in Keys : Accept(s, "regenerate", "read", new(k))
    BY <1>6 DEF Regenerate
  <2>a. Agree(new(k))
    BY DEF Agree, Padded, ZeroConfig
  <2> HIDE DEF new
  <2>1. PICK cfg : Accept(s, "regenerate", "read", cfg) /\ Agree(cfg)
    BY <2>0, <2>a
  <2>2. \A t \in Slots : t # s => request'[t] = request[t]
    BY <2>1, AcceptSlot
  <2>3. Agree(request'[s].cfg)
    BY <2>1, AcceptSlot
  <2> QED BY <1>6, <2>2, <2>3 DEF Regenerate, KeyFingerprintAgree, RequestsAgree
<1>7. ASSUME NEW s \in Slots, Read(s) PROVE KeyFingerprintAgree' /\ RequestsAgree'
  <2>1. PICK existing \in GetSFTP : \A t \in Slots :
           /\ t # s => request'[t] = request[t]
           /\ request'[s].cfg = Merge(request[s], existing)
    BY <1>7, ReadSlot
  <2>2. Agree(Merge(request[s], existing))
    BY GetSFTPAgrees, GetSFTPTypes, MergeAgrees DEF StoreTypeOK, RequestsAgree
  <2> QED BY <1>7, <2>1, <2>2 DEF Read, KeyFingerprintAgree, RequestsAgree
<1>8. ASSUME NEW s \in Slots, Upsert(s) PROVE KeyFingerprintAgree' /\ RequestsAgree'
  <2>1. Agree(request[s].cfg)
    BY <1>8 DEF Upsert, RequestsAgree
  <2>2. KeyFingerprintAgree'
    BY <1>8, <2>1 DEF Upsert, KeyFingerprintAgree, Agree
  <2>3. RequestsAgree'
    BY <1>8, IdleSlot, ZeroAgrees DEF RequestsAgree, Idle
  <2> QED BY <2>2, <2>3
<1>9. CASE UNCHANGED storeVars
  BY <1>9 DEF storeVars, KeyFingerprintAgree, RequestsAgree
<1> QED
  BY <1>1, <1>2, <1>3, <1>4, <1>5, <1>6, <1>7, <1>8, <1>9
  DEF StoreNext, Boot, StoreStep

(* The stored fingerprint is always the stored key's, whatever handlers,
   failures and crashes interleave (store.go UpdateSFTP, RegenerateHostKey). *)
THEOREM PairKept == StoreSpec => []KeyFingerprintAgree
<1>1. StoreInit => AgreeInv
  BY StoreTypeInit
  DEF AgreeInv, StoreInit, KeyFingerprintAgree, RequestsAgree, Idle
<1>2. AgreeInv /\ [StoreNext]_storeVars => AgreeInv'
  BY AgreeStep
<1>3. AgreeInv => KeyFingerprintAgree
  BY DEF AgreeInv
<1> QED BY <1>1, <1>2, <1>3, PTL DEF StoreSpec

----------------------------------------------------------------------------
(* A database that answers                                                 *)

Complete(cfg) == cfg.key # NoKey /\ cfg.settings # NoSettings

(* Handlers run only in a process that serves.                             *)
OnlyWhenUp == plane # "up" => \A s \in Slots : request[s].pc = "idle"

(* A handler has what its Merge will not take from the stored config.      *)
RequestsComplete ==
  \A s \in Slots :
    /\ request[s].pc = "write" => Complete(request[s].cfg)
    /\ request[s].pc = "read" =>
         IF request[s].op = "regenerate" THEN request[s].cfg.key # NoKey
                                         ELSE request[s].cfg.settings # NoSettings

ServingInv ==
  /\ StoreTypeOK
  /\ row # Absent => Complete(row)
  /\ plane = "up" => row # Absent
  /\ OnlyWhenUp
  /\ RequestsComplete

LEMMA ServingStep ==
  ASSUME ~DbMayFail, ServingInv, [StoreNext]_storeVars
  PROVE  ServingInv'
<1>0. StoreTypeOK'
  BY StoreTypeStep DEF ServingInv
<1> DEFINE Rest == /\ row # Absent => Complete(row)
                   /\ plane = "up" => row # Absent
                   /\ OnlyWhenUp
                   /\ RequestsComplete
<1> SUFFICES Rest'
  BY <1>0 DEF ServingInv
<1> USE DEF ServingInv
<1>1. CASE BootCheck
  BY <1>1 DEF BootCheck, OnlyWhenUp, RequestsComplete
<1>2. CASE BootInsert
  <2>1. PICK k \in Keys :
          row' = IF row = Absent
                   THEN [settings |-> DefaultSettings, key |-> k,
                         fingerprint |-> Padded(k)]
                   ELSE row
    BY <1>2 DEF BootInsert
  <2>2. row' # Absent
    BY <2>1, ConfigTypes, AbsentAssumption DEF Config
  <2>3. Complete(row')
    BY <2>1, SettingsAssumption, KeyAssumption DEF Complete
  <2> QED BY <1>2, <2>2, <2>3 DEF BootInsert, OnlyWhenUp, RequestsComplete
<1>3. CASE BootInsertFails
  BY <1>3 DEF BootInsertFails
<1>4. CASE PlaneCrash
  BY <1>4 DEF PlaneCrash, Idle, OnlyWhenUp, RequestsComplete
<1>5. ASSUME NEW s \in Slots, UISave(s) PROVE Rest'
  <2> DEFINE new(st) == [ZeroConfig EXCEPT !.settings = st]
  <2>1. PICK st \in Settings : Accept(s, "save", "read", new(st))
    BY <1>5 DEF UISave, PutSFTP, ZeroConfig
  <2>2. new(st).settings # NoSettings
    BY SettingsAssumption DEF ZeroConfig
  <2> HIDE DEF new
  <2>3. /\ \A t \in Slots : t # s => request'[t] = request[t]
        /\ request'[s].op = "save" /\ request'[s].pc = "read"
        /\ request'[s].cfg.settings # NoSettings
    BY <2>1, <2>2, AcceptSlot
  <2>4. plane = "up" /\ plane' = plane /\ row' = row
    BY <1>5, <2>1 DEF UISave, Accept
  <2> QED BY <2>3, <2>4 DEF OnlyWhenUp, RequestsComplete
<1>6. ASSUME NEW s \in Slots, Regenerate(s) PROVE Rest'
  <2> DEFINE new(k) == [ZeroConfig EXCEPT !.key = k, !.fingerprint = Padded(k)]
  <2>1. PICK k \in Keys : Accept(s, "regenerate", "read", new(k))
    BY <1>6 DEF Regenerate
  <2>2. new(k).key # NoKey
    BY KeyAssumption DEF ZeroConfig
  <2> HIDE DEF new
  <2>3. /\ \A t \in Slots : t # s => request'[t] = request[t]
        /\ request'[s].op = "regenerate" /\ request'[s].pc = "read"
        /\ request'[s].cfg.key # NoKey
    BY <2>1, <2>2, AcceptSlot
  <2>4. plane = "up" /\ plane' = plane /\ row' = row
    BY <1>6, <2>1 DEF Regenerate, Accept
  <2> QED BY <2>3, <2>4 DEF OnlyWhenUp, RequestsComplete
<1>7. ASSUME NEW s \in Slots, Read(s) PROVE Rest'
  <2>1. PICK existing \in GetSFTP : \A t \in Slots :
           /\ t # s => request'[t] = request[t]
           /\ request'[s].pc = "write"
           /\ request'[s].cfg = Merge(request[s], existing)
    BY <1>7, ReadSlot
  <2>2. plane = "up"
    BY <1>7 DEF Read, OnlyWhenUp
  <2>3. existing = row /\ row \in Config
    BY <2>2 DEF GetSFTP, StoreTypeOK
  <2>4. Complete(Merge(request[s], row))
    BY <1>7, <2>2, <2>3 DEF Read, Merge, Complete, RequestsComplete, StoreTypeOK,
                            Request, Config
  <2> QED BY <1>7, <2>1, <2>2, <2>3, <2>4 DEF Read, OnlyWhenUp, RequestsComplete
<1>8. ASSUME NEW s \in Slots, Upsert(s) PROVE Rest'
  <2>1. Complete(request[s].cfg) /\ request[s].cfg \in Config
    BY <1>8 DEF Upsert, RequestsComplete, StoreTypeOK, Request
  <2>2. row' = request[s].cfg /\ row' # Absent
    BY <1>8, <2>1, AbsentAssumption DEF Upsert
  <2>3. \A t \in Slots : request'[t] = IF t = s THEN Idle ELSE request[t]
    BY <1>8, IdleSlot
  <2>4. plane' = plane
    BY <1>8 DEF Upsert
  <2> QED BY <2>1, <2>2, <2>3, <2>4 DEF OnlyWhenUp, RequestsComplete, Idle
<1>9. CASE UNCHANGED storeVars
  BY <1>9 DEF storeVars, OnlyWhenUp, RequestsComplete
<1> QED
  BY <1>1, <1>2, <1>3, <1>4, <1>5, <1>6, <1>7, <1>8, <1>9
  DEF StoreNext, Boot, StoreStep

LEMMA ServingInit == StoreInit => ServingInv
BY StoreTypeInit
DEF ServingInv, StoreInit, OnlyWhenUp, RequestsComplete, Idle

(* main.go calls InitSFTP before ListenAndServe: over a database that answers,
   no request ever finds the row missing or without a key or credentials.  *)
THEOREM ServingComplete ==
  ASSUME ~DbMayFail
  PROVE  StoreSpec => []CompleteWhileServing
<1>1. StoreInit => ServingInv
  BY ServingInit
<1>2. ServingInv /\ [StoreNext]_storeVars => ServingInv'
  BY ServingStep
<1>3. ServingInv => CompleteWhileServing
  BY DEF ServingInv, Complete, CompleteWhileServing
<1> QED BY <1>1, <1>2, <1>3, PTL DEF StoreSpec

----------------------------------------------------------------------------
(* One handler at a time implements the register of SftpRegister           *)

SavesInto(cfg) ==
  \E st \in Settings : cfg = [row EXCEPT !.settings = st]
RotatesInto(cfg) ==
  \E k \in Keys : cfg = [row EXCEPT !.key = k, !.fingerprint = Padded(k)]

(* What the one handler of slot s is about to do to the stored row.        *)
Prepared(s) ==
  /\ request[s].op \in {"none", "save", "regenerate"}
  /\ request[s].op = "none" => request[s].pc = "idle"
  /\ request[s].pc = "read" =>
       IF request[s].op = "regenerate"
         THEN \E k \in Keys : /\ request[s].cfg.key = k
                              /\ request[s].cfg.fingerprint = Padded(k)
         ELSE request[s].cfg.settings \in Settings
  /\ request[s].pc = "write" =>
       SavesInto(request[s].cfg) \/ RotatesInto(request[s].cfg)

RegisterInv == ServingInv /\ \A s \in Slots : Prepared(s)

(* A merge of the row it read is a save of, or a rotation in, that row.    *)
LEMMA MergePrepares ==
  ASSUME NEW req \in Request, row \in Config,
         IF req.op = "regenerate"
           THEN \E k \in Keys : req.cfg.key = k /\ req.cfg.fingerprint = Padded(k)
           ELSE req.cfg.settings \in Settings
  PROVE  SavesInto(Merge(req, row)) \/ RotatesInto(Merge(req, row))
<1>0. req.cfg \in Config
  BY DEF Request
<1>1. CASE req.op = "regenerate"
  <2>1. PICK k \in Keys : req.cfg.key = k /\ req.cfg.fingerprint = Padded(k)
    BY <1>1
  <2>2. Merge(req, row) = [req.cfg EXCEPT !.settings = row.settings]
    BY <1>1 DEF Merge
  <2>3. [req.cfg EXCEPT !.settings = row.settings]
          = [row EXCEPT !.key = k, !.fingerprint = Padded(k)]
    BY <1>0, <2>1 DEF Config
  <2> QED BY <2>2, <2>3 DEF RotatesInto
<1>2. CASE req.op # "regenerate"
  <2>1. Merge(req, row) = [req.cfg EXCEPT !.key = row.key,
                                          !.fingerprint = row.fingerprint]
    BY <1>2 DEF Merge
  <2>2. [req.cfg EXCEPT !.key = row.key, !.fingerprint = row.fingerprint]
          = [row EXCEPT !.settings = req.cfg.settings]
    BY <1>0 DEF Config
  <2> QED BY <1>2, <2>1, <2>2 DEF SavesInto
<1> QED BY <1>1, <1>2

LEMMA RegisterStep ==
  ASSUME ~DbMayFail, NEW s0, Slots = {s0}, RegisterInv, [StoreNext]_storeVars
  PROVE  RegisterInv' /\ [Register!Next]_row
<1> USE DEF RegisterInv
<1>0. ServingInv'
  BY ServingStep
<1> SUFFICES (\A s \in Slots : Prepared(s))' /\ [Register!Next]_row
  BY <1>0
<1> DEFINE Good == (\A s \in Slots : Prepared(s))' /\ [Register!Next]_row
<1>a. StoreTypeOK /\ OnlyWhenUp
  BY DEF ServingInv
<1>1. CASE BootCheck
  BY <1>1 DEF BootCheck, Prepared, SavesInto, RotatesInto
<1>2. CASE BootInsert
  <2>1. \A s \in Slots : request[s].pc = "idle"
    BY <1>2, <1>a DEF BootInsert, OnlyWhenUp
  <2>2. [Register!Next]_row
    BY <1>2 DEF BootInsert, Padded, Register!Next, Register!Create, Register!Pair
  <2> QED BY <1>2, <2>1, <2>2 DEF BootInsert, Prepared
<1>3. CASE BootInsertFails
  BY <1>3 DEF BootInsertFails
<1>4. CASE PlaneCrash
  BY <1>4 DEF PlaneCrash, Idle, Prepared
<1>5. ASSUME NEW s \in Slots, UISave(s) PROVE Good
  <2> DEFINE new(st) == [ZeroConfig EXCEPT !.settings = st]
  <2>1. PICK st \in Settings : Accept(s, "save", "read", new(st))
    BY <1>5 DEF UISave, PutSFTP, ZeroConfig
  <2>2. new(st).settings \in Settings
    BY DEF ZeroConfig
  <2> HIDE DEF new
  <2>3. /\ request'[s].op = "save" /\ request'[s].pc = "read"
        /\ request'[s].cfg.settings \in Settings
    BY <2>1, <2>2, <1>a, AcceptSlot
  <2> QED BY <1>5, <2>3 DEF UISave, Prepared
<1>6. ASSUME NEW s \in Slots, Regenerate(s) PROVE Good
  <2> DEFINE new(k) == [ZeroConfig EXCEPT !.key = k, !.fingerprint = Padded(k)]
  <2>1. PICK k \in Keys : Accept(s, "regenerate", "read", new(k))
    BY <1>6 DEF Regenerate
  <2>2. new(k).key = k /\ new(k).fingerprint = Padded(k)
    BY DEF ZeroConfig
  <2> HIDE DEF new
  <2>3. /\ request'[s].op = "regenerate" /\ request'[s].pc = "read"
        /\ request'[s].cfg.key = k /\ request'[s].cfg.fingerprint = Padded(k)
    BY <2>1, <2>2, <1>a, AcceptSlot
  <2> QED BY <1>6, <2>3 DEF Regenerate, Prepared
<1>7. ASSUME NEW s \in Slots, Read(s) PROVE Good
  <2>1. PICK existing \in GetSFTP :
           /\ request'[s].pc = "write"
           /\ request'[s].op = request[s].op
           /\ request'[s].cfg = Merge(request[s], existing)
    BY <1>7, <1>a, ReadSlot
  <2>2. plane = "up"
    BY <1>7, <1>a DEF Read, OnlyWhenUp
  <2>3. existing = row /\ row \in Config
    BY <2>2, <1>a DEF ServingInv, GetSFTP, StoreTypeOK
  <2>4. request[s] \in Request /\ Prepared(s) /\ request[s].pc = "read"
    BY <1>7, <1>a DEF Read, StoreTypeOK
  <2>5. SavesInto(Merge(request[s], row)) \/ RotatesInto(Merge(request[s], row))
    BY <2>3, <2>4, MergePrepares DEF Prepared
  <2>6. row' = row
    BY <1>7 DEF Read
  <2>7. request'[s].op \in {"save", "regenerate"}
    BY <2>1, <2>4 DEF Prepared
  <2>8. SavesInto(request[s].cfg)' \/ RotatesInto(request[s].cfg)'
    BY <2>1, <2>3, <2>5, <2>6 DEF SavesInto, RotatesInto
  <2>9. Prepared(s)'
    BY <2>1, <2>7, <2>8 DEF Prepared
  <2> QED BY <2>6, <2>9
<1>8. ASSUME NEW s \in Slots, Upsert(s) PROVE Good
  <2>1. row # Absent
    BY <1>8, <1>a DEF Upsert, ServingInv, OnlyWhenUp
  <2>2. row' = request[s].cfg
    BY <1>8 DEF Upsert
  <2>3. SavesInto(request[s].cfg) \/ RotatesInto(request[s].cfg)
    BY <1>8 DEF Upsert, Prepared
  <2>4. Register!Next
    BY <2>1, <2>2, <2>3
    DEF SavesInto, RotatesInto, Padded, Register!Next, Register!Save,
        Register!Rotate, Register!Pair
  <2>5. request'[s] = Idle
    BY <1>8, <1>a, IdleSlot
  <2> QED BY <2>4, <2>5 DEF Prepared, Idle
<1>9. CASE UNCHANGED storeVars
  BY <1>9 DEF storeVars, Prepared, SavesInto, RotatesInto
<1> QED
  BY <1>1, <1>2, <1>3, <1>4, <1>5, <1>6, <1>7, <1>8, <1>9
  DEF StoreNext, Boot, StoreStep

(* With one handler at a time and a database that answers, the
   read-modify-write handlers are the register's atomic Save and Rotate.   *)
THEOREM RegisterRefined ==
  ASSUME ~DbMayFail, NEW s0, Slots = {s0}
  PROVE  StoreSpec => RegisterSpec
<1>1. StoreInit => RegisterInv /\ Register!Init
  BY ServingInit DEF RegisterInv, StoreInit, Prepared, Idle, Register!Init
<1>2. RegisterInv /\ [StoreNext]_storeVars => RegisterInv' /\ [Register!Next]_row
  BY RegisterStep
<1> QED BY <1>1, <1>2, PTL DEF StoreSpec, RegisterSpec, Register!Spec
=============================================================================
