-------------------------- MODULE TokenCache_proofs --------------------------
(***************************************************************************)
(* The token cache for any number of requests and instances, any lifetimes *)
(* and any margin and clock bound.                                         *)
(***************************************************************************)
EXTENDS TokenCache, TLAPS

(* A job between the token's issue and the cache: it holds the token, whose
   life began when the job's clock was taken, at most one unit ago.        *)
OnItsWay(j) ==
  /\ job[j].token \in Token
  /\ job[j].token.dies = job[j].since + job[j].token.life
  /\ now <= job[j].since + 1

JobInv ==
  \A j \in Jobs :
    /\ At(j, "lookup") \/ At(j, "token") \/ At(j, "set") => job[j].key \in ApiKeys
    /\ At(j, "set") => OnItsWay(j)

TokenInv == TokenTypeOK /\ JobInv /\ CachedWithinLife

Handler(j) == Start(j) \/ TokenStep(j) \/ Call(j)

LEMMA CacheLifeNat == \A l \in Nat : CacheLife(l) \in Nat
  BY TimeAssumption DEF CacheLife

(* A step of one job leaves every other job as it was.                     *)
LEMMA JobUpdate ==
  ASSUME TokenInv, NEW j \in Jobs, NEW new \in Job \cup {None}, UNCHANGED <<instance, cache, now>>,
         job' = [job EXCEPT ![j] = new],
         new # None /\ new.pc \in {"lookup", "token", "set"} => new.key \in ApiKeys,
         new # None /\ new.pc = "set" =>
           /\ new.token \in Token
           /\ new.token.dies = new.since + new.token.life
           /\ now <= new.since + 1
  PROVE  TokenInv'
<1>1. TokenTypeOK'
  BY DEF TokenInv, TokenTypeOK
<1>2. JobInv'
  BY DEF TokenInv, TokenTypeOK, JobInv, At, OnItsWay
<1> QED
  BY <1>1, <1>2 DEF TokenInv, CachedWithinLife

LEMMA HandlerKeeps == ASSUME TokenInv, NEW j \in Jobs, Handler(j) PROVE TokenInv'
<1>0. /\ job \in [Jobs -> Job \cup {None}] /\ cache \in [Instances -> Entry \cup {None}]
      /\ instance \in [Instances -> InstanceRow \cup {None, Deleted}] /\ now \in Nat
  BY DEF TokenInv, TokenTypeOK
<1>1. CASE UNCHANGED <<instance, cache, now>> /\ End(j)
  BY <1>1, JobUpdate DEF End
<1>2. CASE Start(j)
  <2>1. PICK i \in Instances :
          job' = [job EXCEPT ![j] = [pc |-> "key", id |-> i, key |-> None,
                                     token |-> None, since |-> now]]
    BY <1>2 DEF Start
  <2> DEFINE new == [pc |-> "key", id |-> i, key |-> None, token |-> None, since |-> now]
  <2>2. new \in Job /\ new.pc = "key"
    BY <1>0 DEF Job
  <2>3. job' = [job EXCEPT ![j] = new]
    BY <2>1
  <2> HIDE DEF new
  <2> QED
    BY <1>2, <2>2, <2>3, JobUpdate DEF Start
<1>3. CASE ReadKey(j)
  <2> DEFINE row == instance[job[j].id]
             new == [job[j] EXCEPT !.pc = "lookup", !.key = row.key]
  <2>0. job[j] \in Job
    BY <1>0, <1>3 DEF ReadKey, At
  <2>1. CASE row \notin {None, Deleted} /\ row.key # None
    <3>1. row.key \in ApiKeys
      BY <1>0, <2>0, <2>1 DEF Job, InstanceRow
    <3>2. new \in Job /\ new.pc = "lookup" /\ new.key \in ApiKeys
      BY <2>0, <3>1 DEF Job
    <3>3. job' = [job EXCEPT ![j] = new]
      BY <1>0, <1>3, <2>0, <2>1 DEF ReadKey, Job
    <3> HIDE DEF new
    <3> QED
      BY <1>3, <3>2, <3>3, JobUpdate DEF ReadKey
  <2> QED
    BY <1>1, <1>3, <2>1 DEF ReadKey
<1>4. CASE Lookup(j)
  <2> DEFINE entry == cache[job[j].id]
             hit == [job[j] EXCEPT !.pc = "call", !.token = entry.token]
             miss == [job[j] EXCEPT !.pc = "token", !.since = now]
  <2>0. job[j] \in Job /\ job[j].key \in ApiKeys
    BY <1>0, <1>4 DEF Lookup, At, TokenInv, JobInv
  <2>1. CASE Valid(entry)
    <3>1. entry.token \in Token
      BY <1>0, <2>0, <2>1 DEF Valid, Job, Entry
    <3>2. hit \in Job /\ hit.pc = "call"
      BY <2>0, <3>1 DEF Job
    <3>3. job' = [job EXCEPT ![j] = hit]
      BY <1>0, <1>4, <2>0, <2>1 DEF Lookup, Job
    <3> HIDE DEF hit
    <3> QED
      BY <1>4, <3>2, <3>3, JobUpdate DEF Lookup
  <2>2. CASE ~Valid(entry)
    <3>2. miss \in Job /\ miss.pc = "token" /\ miss.key \in ApiKeys
      BY <1>0, <2>0 DEF Job
    <3>3. job' = [job EXCEPT ![j] = miss]
      BY <1>0, <1>4, <2>0, <2>2 DEF Lookup, Job
    <3> HIDE DEF miss
    <3> QED
      BY <1>4, <3>2, <3>3, JobUpdate DEF Lookup
  <2> QED
    BY <2>1, <2>2
<1>5. CASE Issue(j)
  <2>0. job[j] \in Job /\ job[j].key \in ApiKeys
    BY <1>0, <1>5 DEF Issue, At, TokenInv, JobInv
  <2>1. ASSUME NEW l \in Lifetimes,
               job' = [job EXCEPT ![j].pc = "set", ![j].since = now,
                    ![j].token = [key |-> job[j].key, life |-> l, dies |-> now + l]]
        PROVE  TokenInv'
    <3> DEFINE tok == [key |-> job[j].key, life |-> l, dies |-> now + l]
               new == [job[j] EXCEPT !.pc = "set", !.since = now, !.token = tok]
    <3>1. tok \in Token /\ tok.dies = now + tok.life
      BY <1>0, <2>0, TimeAssumption DEF Token
    <3>2. job' = [job EXCEPT ![j] = new]
      BY <1>0, <2>0, <2>1 DEF Job
    <3> HIDE DEF tok
    <3>3. new \in Job /\ new.pc = "set" /\ new.key \in ApiKeys /\ new.token = tok
          /\ new.since = now
      BY <1>0, <2>0, <3>1 DEF Job
    <3>4. now <= now + 1
      BY <1>0
    <3> HIDE DEF new
    <3> QED
      BY <1>5, <3>1, <3>2, <3>3, <3>4, JobUpdate DEF Issue
  <2> QED
    BY <1>1, <1>5, <2>1 DEF Issue
<1>6. CASE SetToken(j)
  <2> DEFINE tok == job[j].token
             entry == [token |-> tok, until |-> now + CacheLife(tok.life)]
             new == [job[j] EXCEPT !.pc = "call"]
  <2>1. job[j] \in Job /\ OnItsWay(j)
    BY <1>0, <1>6 DEF SetToken, At, TokenInv, JobInv
  <2>2. tok \in Token /\ tok.life \in Nat /\ job[j].since \in Nat /\ job[j].id \in Instances
    BY <2>1 DEF OnItsWay, Token, Job
  <2>3. CacheLife(tok.life) \in Nat
    BY <2>2, CacheLifeNat
  <2>4. entry \in Entry
    BY <1>0, <2>2, <2>3 DEF Entry
  <2>5. tok.life > Margin => entry.until <= entry.token.dies
    BY <1>0, <2>1, <2>2, TimeAssumption DEF OnItsWay, CacheLife
  <2>6. cache' = [cache EXCEPT ![job[j].id] = entry]
    BY <1>6 DEF SetToken
  <2>7. new \in Job /\ new.pc = "call" /\ job' = [job EXCEPT ![j] = new]
    BY <1>0, <1>6, <2>1 DEF SetToken, Job
  <2> HIDE DEF entry, new
  <2>8. TokenTypeOK'
    <3>1. cache' \in [Instances -> Entry \cup {None}]
      BY <1>0, <2>4, <2>6
    <3>2. job' \in [Jobs -> Job \cup {None}]
      BY <1>0, <2>7
    <3> QED
      BY <1>0, <1>6, <3>1, <3>2 DEF SetToken, TokenTypeOK
  <2>9. JobInv'
    BY <1>0, <1>6, <2>7 DEF SetToken, JobInv, TokenInv, At, OnItsWay
  <2>10. CachedWithinLife'
    <3>1. entry.token = tok
      BY DEF entry
    <3> QED
      BY <1>0, <2>2, <2>5, <2>6, <3>1 DEF CachedWithinLife, TokenInv
  <2> QED
    BY <2>8, <2>9, <2>10 DEF TokenInv
<1>7. CASE Call(j)
  BY <1>1, <1>7 DEF Call
<1> QED
  BY <1>2, <1>3, <1>4, <1>5, <1>6, <1>7 DEF Handler, TokenStep

LEMMA InitHolds == TokenInit => TokenInv
  BY DEF TokenInit, TokenInv, TokenTypeOK, JobInv, CachedWithinLife, At

LEMMA NextHolds == TokenInv /\ [TokenNext]_tokenVars => TokenInv'
<1> SUFFICES ASSUME TokenInv, [TokenNext]_tokenVars PROVE TokenInv'
  OBVIOUS
<1>1. CASE InstanceStep
  BY <1>1 DEF InstanceStep, CreateInstance, UpdateInstance, DeleteInstance, InstanceRow,
    TokenInv, TokenTypeOK, JobInv, CachedWithinLife, At, OnItsWay
<1>2. ASSUME NEW j \in Jobs, Handler(j) PROVE TokenInv'
  BY <1>2, HandlerKeeps
<1>3. CASE Tick
  <2>1. TokenTypeOK'
    BY <1>3 DEF Tick, TokenInv, TokenTypeOK
  <2>2. JobInv'
    BY <1>3 DEF Tick, TokenInv, TokenTypeOK, JobInv, At, OnItsWay
  <2> QED
    BY <1>3, <2>1, <2>2 DEF Tick, TokenInv, CachedWithinLife
<1>4. CASE CpiDevRestart
  BY <1>4 DEF CpiDevRestart, TokenInv, TokenTypeOK, JobInv, CachedWithinLife, At
<1>5. CASE UNCHANGED tokenVars
  BY <1>5 DEF tokenVars, TokenInv, TokenTypeOK, JobInv, CachedWithinLife, At, OnItsWay
<1> QED
  BY <1>1, <1>2, <1>3, <1>4, <1>5 DEF TokenNext, Handler

(* TokenTypeOK: in particular a cached expiry is never before the clock's zero,
   whatever lifetime the endpoint announced.                               *)
THEOREM TokenTyped == TokenSpec => []TokenTypeOK
<1>1. TokenInv => TokenTypeOK
  BY DEF TokenInv
<1> QED
  BY InitHolds, NextHolds, <1>1, PTL DEF TokenSpec

(* CachedWithinLife: no entry outlives its token, for any margin, lifetimes
   and number of requests that miss the cache together.                    *)
THEOREM EntryWithinLife == TokenSpec => []CachedWithinLife
<1>1. TokenInv => CachedWithinLife
  BY DEF TokenInv
<1> QED
  BY InitHolds, NextHolds, <1>1, PTL DEF TokenSpec

(* LiveTokenHandedOut: a request never reaches its call with a token that has
   died, found in the cache or fetched, for the same generality.           *)
THEOREM LiveTokens == TokenSpec => LiveTokenHandedOut
<1> DEFINE Alive(j) == (At(j, "call") /\ job[j].token.life > Margin)'
                          => At(j, "call") \/ now <= job'[j].token.dies
<1>1. TokenInv /\ [TokenNext]_tokenVars => [\A j \in Jobs : Alive(j)]_tokenVars
  <2> SUFFICES ASSUME TokenInv, TokenNext, NEW j \in Jobs, At(j, "call")',
                      (job[j].token.life > Margin)', ~At(j, "call")
               PROVE  now <= job'[j].token.dies
    BY DEF tokenVars
  <2>0. /\ job \in [Jobs -> Job \cup {None}] /\ cache \in [Instances -> Entry \cup {None}]
        /\ now \in Nat
    BY DEF TokenInv, TokenTypeOK
  <2>1. job'[j] # job[j]
    BY DEF At
  <2>2. Handler(j)
    <3>1. ~InstanceStep /\ ~Tick
      BY <2>1 DEF InstanceStep, CreateInstance, UpdateInstance, DeleteInstance, Tick
    <3>2. ~CpiDevRestart
      BY DEF CpiDevRestart, At
    <3>3. ASSUME NEW k \in Jobs, k # j, Handler(k) PROVE FALSE
      BY <2>0, <2>1, <3>3 DEF Handler, Start, TokenStep, ReadKey, Lookup, Issue,
        SetToken, Call, End
    <3> QED
      BY <3>1, <3>2, <3>3 DEF TokenNext, Handler
  <2>3. CASE Start(j) \/ ReadKey(j) \/ Issue(j) \/ Call(j)
    BY <2>0, <2>3 DEF Start, ReadKey, Issue, Call, End, At, Job
  <2>4. CASE Lookup(j)
    <3> DEFINE entry == cache[job[j].id]
    <3>1. job[j] \in Job /\ job[j].id \in Instances
      BY <2>0, <2>4 DEF Lookup, At, Job
    <3>2. Valid(entry) /\ job'[j].token = entry.token
      BY <2>0, <2>4, <3>1 DEF Lookup, At, Job
    <3>3. entry \in Entry /\ entry.until \in Nat /\ entry.token.dies \in Nat
      BY <2>0, <3>1, <3>2 DEF Valid, Entry, Token
    <3> QED
      BY <2>0, <3>1, <3>2, <3>3 DEF Valid, TokenInv, CachedWithinLife
  <2>5. CASE SetToken(j)
    <3>1. job[j] \in Job /\ OnItsWay(j) /\ job'[j].token = job[j].token
      BY <2>0, <2>5 DEF SetToken, At, TokenInv, JobInv, Job
    <3>2. job[j].since \in Nat /\ job[j].token.life \in Nat
      BY <3>1 DEF OnItsWay, Token, Job
    <3> QED
      BY <2>0, <3>1, <3>2, TimeAssumption DEF OnItsWay
  <2> QED
    BY <2>2, <2>3, <2>4, <2>5 DEF Handler, TokenStep
<1> QED
  BY InitHolds, NextHolds, <1>1, PTL DEF TokenSpec, LiveTokenHandedOut
=============================================================================
