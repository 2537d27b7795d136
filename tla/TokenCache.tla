----------------------------- MODULE TokenCache -----------------------------
(***************************************************************************)
(* OAuth tokens of the CPI API proxy (cmd/cpi-dev/cpi_api.go): the global  *)
(* token cache, keyed by instance id, next to the instances of the worker  *)
(* (cmd/worker/cpi_instances.go) that are edited and deleted meanwhile.    *)
(*                                                                         *)
(* Time is a clock in units of the 60 second safety margin; a job is a     *)
(* request goroutine of makeCPIAPIHandler.                                 *)
(***************************************************************************)
EXTENDS Naturals

CONSTANTS
  Jobs,         \* concurrent requests
  Instances,    \* rows of w_cpi_instances
  ApiKeys,      \* contents of api_key: tenant URL and OAuth client
  Types,        \* system types
  Lifetimes,    \* expires_in a token endpoint may answer, 0 when missing
  Margin,       \* 60 s in cpi_api.go set
  DefaultLife,  \* 3600 s in cpi_api.go set
  MaxTime,      \* bound on the clock
  None,         \* no row yet, no key, no token, nothing to do
  Deleted       \* the row is gone: its id, a name and a time, never comes back

ASSUME TimeAssumption ==
  /\ Margin \in Nat \ {0}
  /\ DefaultLife \in Nat /\ DefaultLife > Margin
  /\ MaxTime \in Nat
  /\ Lifetimes \subseteq Nat
ASSUME KeysAssumption == None \notin ApiKeys

VARIABLES
  instance,  \* w_cpi_instances: id -> row, None or Deleted
  cache,     \* globalTokenCache.tokens
  job,       \* per goroutine, the request being served
  now        \* the clock

tokenVars == <<instance, cache, job, now>>

InstanceRow == [type : Types, key : ApiKeys \cup {None}]

(* A token as its endpoint issued it: the key it was obtained with, the
   lifetime announced and the time it stops being valid.                   *)
Token == [key : ApiKeys, life : Nat, dies : Nat]

Entry == [token : Token, until : Nat]

(* "key" precedes the SELECT of api_key, "lookup" the cache, "token" the
   answer of the token endpoint, "set" the cache's set, "call" the API.    *)
Job == [pc    : {"key", "lookup", "token", "set", "call"},
        id    : Instances,
        key   : ApiKeys \cup {None},
        token : Token \cup {None},
        since : Nat]

TokenTypeOK ==
  /\ instance \in [Instances -> InstanceRow \cup {None, Deleted}]
  /\ cache \in [Instances -> Entry \cup {None}]
  /\ job \in [Jobs -> Job \cup {None}]
  /\ now \in Nat

TokenInit ==
  /\ instance = [i \in Instances |-> None]
  /\ cache = [i \in Instances |-> None]
  /\ job = [j \in Jobs |-> None]
  /\ now = 0

----------------------------------------------------------------------------
(* The worker's instances: create, an update that overwrites type and key
   together, delete.  None of them reaches cpi-dev's cache.                *)
CreateInstance(i) ==
  /\ instance[i] = None
  /\ \E t \in Types, k \in ApiKeys \cup {None} :
       instance' = [instance EXCEPT ![i] = [type |-> t, key |-> k]]
  /\ UNCHANGED <<cache, job, now>>

UpdateInstance(i) ==
  /\ instance[i] \notin {None, Deleted}
  /\ \E t \in Types, k \in ApiKeys \cup {None} :
       instance' = [instance EXCEPT ![i] = [type |-> t, key |-> k]]
  /\ UNCHANGED <<cache, job, now>>

DeleteInstance(i) ==
  /\ instance[i] \notin {None, Deleted}
  /\ instance' = [instance EXCEPT ![i] = Deleted]
  /\ UNCHANGED <<cache, job, now>>

----------------------------------------------------------------------------
(* The API handler                                                         *)

At(j, pc) == job[j] # None /\ job[j].pc = pc

End(j) == job' = [job EXCEPT ![j] = None]

Start(j) ==
  /\ job[j] = None
  /\ \E i \in Instances :
       job' = [job EXCEPT ![j] = [pc |-> "key", id |-> i, key |-> None,
                                  token |-> None, since |-> now]]
  /\ UNCHANGED <<instance, cache, now>>

(* SELECT api_key: no row or no key is a 404.                              *)
ReadKey(j) ==
  /\ At(j, "key")
  /\ LET row == instance[job[j].id] IN
       IF row \notin {None, Deleted} /\ row.key # None
         THEN job' = [job EXCEPT ![j].pc = "lookup", ![j].key = row.key]
         ELSE End(j)
  /\ UNCHANGED <<instance, cache, now>>

(* Slip: the expiry is not looked at.                                      *)
Present(entry) == entry # None

(* get: a hit is a token that has not expired, whoever obtained it.        *)
Valid(entry) == entry # None /\ now <= entry.until

Lookup(j) ==
  /\ At(j, "lookup")
  /\ LET entry == cache[job[j].id] IN
       job' = IF Valid(entry)
         THEN [job EXCEPT ![j].pc = "call", ![j].token = entry.token]
         ELSE [job EXCEPT ![j].pc = "token", ![j].since = now]
  /\ UNCHANGED <<instance, cache, now>>

(* The token endpoint issues a token for this key, or fails.               *)
Issue(j) ==
  /\ At(j, "token")
  /\ \/ \E l \in Lifetimes :
          job' = [job EXCEPT ![j].pc = "set", ![j].since = now,
                    ![j].token = [key |-> job[j].key, life |-> l, dies |-> now + l]]
     \/ End(j)
  /\ UNCHANGED <<instance, cache, now>>

(* Slips: no margin; no lifetime in place of one within the margin.        *)
FullLife(l) == IF l = 0 THEN DefaultLife ELSE l
LifeLessMargin(l) == l - Margin

(* set: a lifetime within the margin is taken for an hour.                 *)
CacheLife(l) == (IF l <= Margin THEN DefaultLife ELSE l) - Margin

SetToken(j) ==
  /\ At(j, "set")
  /\ cache' = [cache EXCEPT ![job[j].id] =
       [token |-> job[j].token, until |-> now + CacheLife(job[j].token.life)]]
  /\ job' = [job EXCEPT ![j].pc = "call"]
  /\ UNCHANGED <<instance, now>>

(* The GET with the bearer token, to the URL of the key that was read.     *)
Call(j) ==
  /\ At(j, "call")
  /\ End(j)
  /\ UNCHANGED <<instance, cache, now>>

(* Time passes, but not a whole unit while a token is on its way: the token
   client gives up after 15 seconds.                                       *)
Tick ==
  /\ now < MaxTime
  /\ \A j \in Jobs : At(j, "set") => now = job[j].since
  /\ now' = now + 1
  /\ UNCHANGED <<instance, cache, job>>

(* cpi-dev restarts with an empty cache.                                   *)
CpiDevRestart ==
  /\ cache' = [i \in Instances |-> None]
  /\ job' = [j \in Jobs |-> None]
  /\ UNCHANGED <<instance, now>>

----------------------------------------------------------------------------
InstanceStep ==
  \E i \in Instances : CreateInstance(i) \/ UpdateInstance(i) \/ DeleteInstance(i)

TokenStep(j) == ReadKey(j) \/ Lookup(j) \/ Issue(j) \/ SetToken(j)

TokenNext ==
  \/ InstanceStep
  \/ \E j \in Jobs : Start(j) \/ TokenStep(j) \/ Call(j)
  \/ Tick
  \/ CpiDevRestart

TokenSpec == TokenInit /\ [][TokenNext]_tokenVars

----------------------------------------------------------------------------
(* Properties                                                              *)

(* cpi_api.go set: an entry whose announced lifetime exceeds the margin is
   dropped no later than the token dies, even if the token arrived late.   *)
CachedWithinLife ==
  \A i \in Instances :
    cache[i] # None /\ cache[i].token.life > Margin
      => cache[i].until <= cache[i].token.dies

(* cpi_api.go getOAuthToken: a request is never sent off with a token that
   has already died, whether it found the token in the cache, was the one to
   fetch it, or took one another request cached.                           *)
LiveTokenHandedOut ==
  [][\A j \in Jobs :
       (At(j, "call") /\ job[j].token.life > Margin)'
         => At(j, "call") \/ now <= job'[j].token.dies]_tokenVars
=============================================================================
