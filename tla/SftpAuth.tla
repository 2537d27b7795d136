------------------------------ MODULE SftpAuth ------------------------------
(***************************************************************************)
(* Authentication at the SFTP adapter while the configuration changes: the *)
(* callbacks of adapters/sftp/main.go fetch the config for every attempt   *)
(* and decide on the copy they got, with the control plane of SftpStore    *)
(* free to change the row, or to crash, between the two.                   *)
(***************************************************************************)
EXTENDS SftpStore

CONSTANTS
  Clients,       \* SSH clients, each making one attempt after another
  Secrets        \* passwords and public keys

(* The fields of Settings the callbacks look at; a password stands for the
   user name and the password, and a configured key may not parse.         *)
ASSUME SettingsShape ==
  Settings \subseteq [password  : Secrets,
                      mode      : {"password", "key", "any"},
                      publicKey : Secrets \cup {NoKey, "unparsable"}]

VARIABLES
  login,   \* per client, the attempt in progress
  window   \* observer: settings the row has held since the attempt began

authVars == <<row, plane, request, used, login, window>>

Methods == {"password", "publickey"}

Login == [pc       : {"idle", "fetching", "deciding", "accepted", "refused",
                      "unavailable"},
          method   : Methods,
          secret   : Secrets,
          settings : Settings \cup {NoSettings}]

Stored(r) == IF r = Absent THEN NoSettings ELSE r.settings

AuthTypeOK ==
  /\ StoreTypeOK
  /\ login \in [Clients -> Login]
  /\ window \in [Clients -> SUBSET (Settings \cup {NoSettings})]

AuthInit ==
  /\ StoreInit
  /\ login \in [Clients -> {l \in Login : l.pc = "idle" /\ l.settings = NoSettings}]
  /\ window = [c \in Clients |-> {}]

----------------------------------------------------------------------------
(* handlePasswordAuth.  The poll response of "sftp" always has behavior
   mode "success" and a non-nil Credentials.                               *)
PasswordAuth(st, secret) == st.mode # "key" /\ st.password = secret

(* handlePublicKeyAuth: with no configured key any key is welcome.         *)
PublicKeyAuth(st, secret) ==
  st.mode # "password" /\ st.publicKey \in {NoKey, secret}

Authorised(method, secret, st) ==
  IF method = "password" THEN PasswordAuth(st, secret)
                         ELSE PublicKeyAuth(st, secret)

(* Slip: a config fetched for an earlier attempt is used again.            *)
AttemptFromCache(c) ==
  /\ login[c].pc \in {"idle", "accepted", "refused", "unavailable"}
  /\ \E m \in Methods, x \in Secrets :
       login' = [login EXCEPT ![c] =
         [@ EXCEPT !.pc = IF login[c].settings = NoSettings
                           THEN "fetching" ELSE "deciding",
                   !.method = m, !.secret = x]]
  /\ window' = [window EXCEPT ![c] = {Stored(row)}]
  /\ UNCHANGED storeVars

(* A client offers a password or a key; the callback starts.               *)
Attempt(c) ==
  /\ login[c].pc \in {"idle", "accepted", "refused", "unavailable"}
  /\ \E m \in Methods, x \in Secrets :
       login' = [login EXCEPT ![c] =
         [@ EXCEPT !.pc = "fetching", !.method = m, !.secret = x]]
  /\ window' = [window EXCEPT ![c] = {Stored(row)}]
  /\ UNCHANGED storeVars

(* fetchConfig of this attempt, answered by the control plane.             *)
FetchForAuth(c) ==
  /\ login[c].pc = "fetching" /\ plane = "up"
  /\ \E cfg \in GetSFTP :
       login' = [login EXCEPT ![c] =
         [@ EXCEPT !.pc = "deciding", !.settings = cfg.settings]]
  /\ UNCHANGED <<storeVars, window>>

(* Slip: an HTTP client without a timeout waits for an error answer.       *)
FetchAnswersError(c) ==
  /\ login[c].pc = "fetching" /\ plane = "up"
  /\ login' = [login EXCEPT ![c].pc = "unavailable"]
  /\ UNCHANGED <<storeVars, window>>

(* "config unavailable": refused connection, timeout or error status.      *)
FetchFails(c) ==
  /\ login[c].pc = "fetching"
  /\ login' = [login EXCEPT ![c].pc = "unavailable"]
  /\ UNCHANGED <<storeVars, window>>

Decide(c) ==
  /\ login[c].pc = "deciding"
  /\ login' = [login EXCEPT ![c].pc =
       IF Authorised(login[c].method, login[c].secret, login[c].settings)
         THEN "accepted" ELSE "refused"]
  /\ UNCHANGED <<storeVars, window>>

(* The control plane moves; every attempt under way may see the new row.   *)
StoreMoves ==
  /\ StoreNext
  /\ window' = [c \in Clients |->
       IF login[c].pc \in {"fetching", "deciding"}
         THEN window[c] \cup {Stored(row')} ELSE window[c]]
  /\ UNCHANGED login

AuthStep(c) == FetchForAuth(c) \/ FetchFails(c) \/ Decide(c)

AuthNext == StoreMoves \/ \E c \in Clients : Attempt(c) \/ AuthStep(c)

AuthSpec == AuthInit /\ [][AuthNext]_authVars

(* The callback runs to its end: the fetch has a five second timeout.      *)
FairAuthSpec == AuthSpec /\ \A c \in Clients : WF_authVars(AuthStep(c))

----------------------------------------------------------------------------
(* Properties                                                              *)

(* main.go PasswordCallback, PublicKeyCallback: the verdict on an attempt is
   the one some configuration stored during the attempt gives; a password
   that was replaced before the attempt began is never accepted, nor a new
   one refused.  True when no statement fails.                             *)
VerdictIsCurrent ==
  \A c \in Clients :
    login[c].pc \in {"accepted", "refused"} =>
      \E st \in window[c] :
        /\ st # NoSettings
        /\ Authorised(login[c].method, login[c].secret, st)
             <=> login[c].pc = "accepted"

(* The control plane's absence delays nobody for ever: every attempt gets a
   verdict or is told that the configuration is unavailable.               *)
AttemptsEnd ==
  \A c \in Clients :
    login[c].pc = "fetching" ~>
      login[c].pc \in {"accepted", "refused", "unavailable"}
============================================================================
