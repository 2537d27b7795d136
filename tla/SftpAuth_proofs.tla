--------------------------- MODULE SftpAuth_proofs ---------------------------
(***************************************************************************)
(* Proofs about SftpAuth, for any clients, secrets and settings: types,    *)
(* and that over a database that answers a verdict is the verdict of a     *)
(* configuration stored during the attempt.                                *)
(***************************************************************************)
EXTENDS SftpAuth, SftpStore_proofs

LEMMA StoredTypes ==
  ASSUME StoreTypeOK PROVE Stored(row) \in Settings \cup {NoSettings}
BY DEF StoreTypeOK, Stored, Config

(* A step of the callback changes one client's attempt.                    *)
LEMMA LoginUpdate ==
  ASSUME login \in [Clients -> Login], NEW c \in Clients, NEW l \in Login,
         login' = [login EXCEPT ![c] = l]
  PROVE  /\ login' \in [Clients -> Login]
         /\ login'[c] = l
         /\ \A d \in Clients : d # c => login'[d] = login[d]
OBVIOUS

(* The steps of the callback, by what becomes of the attempt.              *)
LEMMA AttemptEffect ==
  ASSUME AuthTypeOK, NEW c \in Clients, Attempt(c)
  PROVE  \E l \in Login : l.pc = "fetching" /\ login' = [login EXCEPT ![c] = l]
<1>1. PICK m \in Methods, x \in Secrets :
        login' = [login EXCEPT ![c] =
          [@ EXCEPT !.pc = "fetching", !.method = m, !.secret = x]]
  BY DEF Attempt
<1> DEFINE l == [login[c] EXCEPT !.pc = "fetching", !.method = m, !.secret = x]
<1>2. login[c] \in Login
  BY DEF AuthTypeOK
<1>3. l \in Login /\ l.pc = "fetching"
  BY <1>2 DEF Login
<1>4. login' = [login EXCEPT ![c] = l]
  BY <1>1
<1> HIDE DEF l
<1> QED
  BY <1>3, <1>4

LEMMA FetchEffect ==
  ASSUME AuthTypeOK, NEW c \in Clients, FetchForAuth(c)
  PROVE  \E cfg \in GetSFTP, l \in Login :
           /\ l.pc = "deciding" /\ l.settings = cfg.settings
           /\ login' = [login EXCEPT ![c] = l]
<1>1. PICK cfg \in GetSFTP :
        login' = [login EXCEPT ![c] =
          [@ EXCEPT !.pc = "deciding", !.settings = cfg.settings]]
  BY DEF FetchForAuth
<1> DEFINE l == [login[c] EXCEPT !.pc = "deciding", !.settings = cfg.settings]
<1>2. login[c] \in Login /\ cfg \in Config
  BY GetSFTPTypes DEF AuthTypeOK
<1>3. l \in Login /\ l.pc = "deciding" /\ l.settings = cfg.settings
  BY <1>2 DEF Login, Config
<1>4. login' = [login EXCEPT ![c] = l]
  BY <1>1
<1> HIDE DEF l
<1> QED
  BY <1>3, <1>4

(* Decide and FetchFails only move the attempt on.                         *)
LEMMA VerdictEffect ==
  ASSUME AuthTypeOK, NEW c \in Clients,
         NEW pc \in {"accepted", "refused", "unavailable"},
         login' = [login EXCEPT ![c].pc = pc]
  PROVE  \E l \in Login :
           /\ l.pc = pc
           /\ l.method = login[c].method /\ l.secret = login[c].secret
           /\ login' = [login EXCEPT ![c] = l]
<1> DEFINE l == [login[c] EXCEPT !.pc = pc]
<1>1. login[c] \in Login
  BY DEF AuthTypeOK
<1>2. /\ l \in Login /\ l.pc = pc
      /\ l.method = login[c].method /\ l.secret = login[c].secret
  BY <1>1 DEF Login
<1>3. login' = [login EXCEPT ![c] = l]
  OBVIOUS
<1> HIDE DEF l
<1> QED
  BY <1>2, <1>3

----------------------------------------------------------------------------
(* Types                                                                   *)

LEMMA AuthTypeStep == AuthTypeOK /\ [AuthNext]_authVars => AuthTypeOK'
<1> SUFFICES ASSUME AuthTypeOK, [AuthNext]_authVars PROVE AuthTypeOK'
  OBVIOUS
<1> USE DEF AuthTypeOK
<1>1. CASE StoreMoves
  <2>1. StoreTypeOK'
    BY <1>1, StoreTypeStep DEF StoreMoves
  <2>2. Stored(row)' \in Settings \cup {NoSettings}
    BY <2>1 DEF StoreTypeOK, Stored, Config
  <2>3. window' \in [Clients -> SUBSET (Settings \cup {NoSettings})]
    BY <1>1, <2>2 DEF StoreMoves, Stored
  <2> QED
    BY <1>1, <2>1, <2>3 DEF StoreMoves
<1>2. ASSUME NEW c \in Clients, Attempt(c) PROVE AuthTypeOK'
  <2>1. login' \in [Clients -> Login]
    BY <1>2, AttemptEffect, LoginUpdate
  <2>2. window' \in [Clients -> SUBSET (Settings \cup {NoSettings})]
    BY <1>2, StoredTypes DEF Attempt
  <2> QED
    BY <1>2, <2>1, <2>2 DEF Attempt, storeVars, StoreTypeOK
<1>3. ASSUME NEW c \in Clients, FetchForAuth(c) PROVE AuthTypeOK'
  <2>1. login' \in [Clients -> Login]
    BY <1>3, FetchEffect, LoginUpdate
  <2> QED
    BY <1>3, <2>1 DEF FetchForAuth, storeVars, StoreTypeOK
<1>4. ASSUME NEW c \in Clients, FetchFails(c) PROVE AuthTypeOK'
  <2>1. login' \in [Clients -> Login]
    BY <1>4, VerdictEffect, LoginUpdate DEF FetchFails
  <2> QED
    BY <1>4, <2>1 DEF FetchFails, storeVars, StoreTypeOK
<1>5. ASSUME NEW c \in Clients, Decide(c) PROVE AuthTypeOK'
  <2>0. PICK pc \in {"accepted", "refused", "unavailable"} :
          login' = [login EXCEPT ![c].pc = pc]
    BY <1>5 DEF Decide
  <2>1. login' \in [Clients -> Login]
    BY <2>0, VerdictEffect, LoginUpdate
  <2> QED
    BY <1>5, <2>1 DEF Decide, storeVars, StoreTypeOK
<1>6. CASE UNCHANGED authVars
  BY <1>6 DEF authVars, StoreTypeOK
<1> QED
  BY <1>1, <1>2, <1>3, <1>4, <1>5, <1>6 DEF AuthNext, AuthStep

LEMMA AuthTypeInit == AuthInit => AuthTypeOK
BY StoreTypeInit DEF AuthInit, AuthTypeOK

(* The attempts of main.go's callbacks, and the settings seen meanwhile, are
   of their types, over any database.                                      *)
THEOREM AuthTyped == AuthSpec => []AuthTypeOK
BY AuthTypeInit, AuthTypeStep, PTL DEF AuthSpec

----------------------------------------------------------------------------
(* Verdicts                                                                *)

(* The verdict the settings st give on client c's attempt.                 *)
Supports(c, st) ==
  /\ st # NoSettings
  /\ Authorised(login[c].method, login[c].secret, st)
       <=> login[c].pc = "accepted"

(* While fetching, what the row holds has been seen; while deciding, what
   was fetched has been seen; after that, some seen settings support it.    *)
Witnessed(c) ==
  /\ login[c].pc = "fetching" => Stored(row) \in window[c]
  /\ login[c].pc = "deciding" =>
       login[c].settings # NoSettings /\ login[c].settings \in window[c]
  /\ login[c].pc \in {"accepted", "refused"} =>
       \E st \in window[c] : Supports(c, st)

VerdictInv == AuthTypeOK /\ ServingInv /\ \A c \in Clients : Witnessed(c)

(* Another client's step leaves an attempt witnessed.                      *)
LEMMA OthersWitnessed ==
  ASSUME NEW c \in Clients, Witnessed(c), row' = row,
         login'[c] = login[c], window'[c] = window[c]
  PROVE  Witnessed(c)'
BY DEF Witnessed, Supports, Stored

LEMMA VerdictStep ==
  ASSUME ~DbMayFail, VerdictInv, [AuthNext]_authVars
  PROVE  VerdictInv'
<1> SUFFICES ServingInv' /\ \A c \in Clients : Witnessed(c)'
  BY AuthTypeStep DEF VerdictInv
<1>a. AuthTypeOK /\ ServingInv /\ \A c \in Clients : Witnessed(c)
  BY DEF VerdictInv
<1>b. ASSUME UNCHANGED storeVars PROVE ServingInv'
  BY <1>a, <1>b, ServingStep
<1>1. CASE StoreMoves
  <2>1. ServingInv'
    BY <1>1, <1>a, ServingStep DEF StoreMoves
  <2>2. ASSUME NEW c \in Clients PROVE Witnessed(c)'
    <3>1. login' = login
      BY <1>1 DEF StoreMoves
    <3>2. login[c].pc \in {"fetching", "deciding"} =>
            window'[c] = window[c] \cup {Stored(row')}
      BY <1>1, <1>a DEF StoreMoves, AuthTypeOK
    <3>3. login[c].pc \notin {"fetching", "deciding"} => window'[c] = window[c]
      BY <1>1, <1>a DEF StoreMoves, AuthTypeOK
    <3>4. Stored(row)' = Stored(row')
      BY DEF Stored
    <3> QED
      BY <1>a, <3>1, <3>2, <3>3, <3>4 DEF Witnessed, Supports
  <2> QED
    BY <2>1, <2>2
<1>2. ASSUME NEW c \in Clients, Attempt(c)
      PROVE  ServingInv' /\ \A d \in Clients : Witnessed(d)'
  <2>1. UNCHANGED storeVars /\ row' = row
        /\ window' = [window EXCEPT ![c] = {Stored(row)}]
    BY <1>2 DEF Attempt, storeVars
  <2>2. PICK l \in Login : l.pc = "fetching" /\ login' = [login EXCEPT ![c] = l]
    BY <1>2, <1>a, AttemptEffect
  <2>3. login'[c] = l /\ \A d \in Clients : d # c => login'[d] = login[d]
    BY <2>2, <1>a, LoginUpdate DEF AuthTypeOK
  <2>4. window'[c] = {Stored(row)} /\ \A d \in Clients : d # c => window'[d] = window[d]
    BY <2>1, <1>a DEF AuthTypeOK
  <2>5. Witnessed(c)'
    BY <2>1, <2>2, <2>3, <2>4 DEF Witnessed, Stored
  <2> QED
    BY <1>a, <1>b, <2>1, <2>3, <2>4, <2>5, OthersWitnessed
<1>3. ASSUME NEW c \in Clients, FetchForAuth(c)
      PROVE  ServingInv' /\ \A d \in Clients : Witnessed(d)'
  <2>1. UNCHANGED storeVars /\ row' = row /\ window' = window
        /\ login[c].pc = "fetching" /\ plane = "up"
    BY <1>3 DEF FetchForAuth, storeVars
  <2>2. PICK cfg \in GetSFTP, l \in Login :
          /\ l.pc = "deciding" /\ l.settings = cfg.settings
          /\ login' = [login EXCEPT ![c] = l]
    BY <1>3, <1>a, FetchEffect
  <2>3. login'[c] = l /\ \A d \in Clients : d # c => login'[d] = login[d]
    BY <2>2, <1>a, LoginUpdate DEF AuthTypeOK
  <2>4. row # Absent /\ cfg = row /\ cfg.settings # NoSettings
    BY <2>1, <1>a DEF ServingInv, Complete, GetSFTP
  <2>5. cfg.settings \in window[c]
    BY <2>1, <2>4, <1>a DEF Witnessed, Stored
  <2>6. Witnessed(c)'
    BY <2>1, <2>2, <2>3, <2>4, <2>5 DEF Witnessed
  <2> QED
    BY <1>a, <1>b, <2>1, <2>3, <2>6, OthersWitnessed
<1>4. ASSUME NEW c \in Clients, FetchFails(c)
      PROVE  ServingInv' /\ \A d \in Clients : Witnessed(d)'
  <2>1. UNCHANGED storeVars /\ row' = row /\ window' = window
    BY <1>4 DEF FetchFails, storeVars
  <2>2. PICK l \in Login : l.pc = "unavailable" /\ login' = [login EXCEPT ![c] = l]
    BY <1>4, <1>a, VerdictEffect DEF FetchFails
  <2>3. login'[c] = l /\ \A d \in Clients : d # c => login'[d] = login[d]
    BY <2>2, <1>a, LoginUpdate DEF AuthTypeOK
  <2>4. Witnessed(c)'
    BY <2>2, <2>3 DEF Witnessed
  <2> QED
    BY <1>a, <1>b, <2>1, <2>3, <2>4, OthersWitnessed
<1>5. ASSUME NEW c \in Clients, Decide(c)
      PROVE  ServingInv' /\ \A d \in Clients : Witnessed(d)'
  <2>0. PICK st : st = login[c].settings
    OBVIOUS
  <2>1. UNCHANGED storeVars /\ row' = row /\ window' = window
    BY <1>5 DEF Decide, storeVars
  <2>2. st # NoSettings /\ st \in window[c]
    BY <1>5, <1>a, <2>0 DEF Decide, Witnessed
  <2>3. PICK pc \in {"accepted", "refused", "unavailable"} :
          /\ login' = [login EXCEPT ![c].pc = pc]
          /\ pc \in {"accepted", "refused"}
          /\ Authorised(login[c].method, login[c].secret, st) <=> pc = "accepted"
    BY <1>5, <2>0 DEF Decide, Authorised
  <2>4. PICK l \in Login :
          /\ l.pc = pc
          /\ l.method = login[c].method /\ l.secret = login[c].secret
          /\ login' = [login EXCEPT ![c] = l]
    BY <1>a, <2>3, VerdictEffect
  <2>5. login'[c] = l /\ \A d \in Clients : d # c => login'[d] = login[d]
    BY <2>4, <1>a, LoginUpdate DEF AuthTypeOK
  <2>6. Authorised(login'[c].method, login'[c].secret, st)
          <=> login'[c].pc = "accepted"
    BY <2>3, <2>4, <2>5
  <2>7. Supports(c, st)'
    BY <2>2, <2>6 DEF Supports, Authorised, PasswordAuth, PublicKeyAuth
  <2>8. Witnessed(c)'
    BY <2>1, <2>2, <2>3, <2>4, <2>5, <2>7 DEF Witnessed
  <2> QED
    BY <1>a, <1>b, <2>1, <2>5, <2>8, OthersWitnessed
<1>6. CASE UNCHANGED authVars
  BY <1>6, <1>a, <1>b, OthersWitnessed DEF authVars, storeVars
<1> QED
  BY <1>1, <1>2, <1>3, <1>4, <1>5, <1>6 DEF AuthNext, AuthStep

(* main.go PasswordCallback, PublicKeyCallback: over a database that answers,
   an attempt is accepted or refused as some settings stored while it ran
   say, for any number of clients and overlapping saves.                   *)
THEOREM VerdictsCurrent ==
  ASSUME ~DbMayFail
  PROVE  AuthSpec => []VerdictIsCurrent
<1>1. AuthInit => VerdictInv
  BY AuthTypeInit, ServingInit DEF AuthInit, VerdictInv, Witnessed
<1>2. VerdictInv /\ [AuthNext]_authVars => VerdictInv'
  BY VerdictStep
<1>3. VerdictInv => VerdictIsCurrent
  BY DEF VerdictInv, Witnessed, Supports, VerdictIsCurrent
<1> QED
  BY <1>1, <1>2, <1>3, PTL DEF AuthSpec
==============================================================================
