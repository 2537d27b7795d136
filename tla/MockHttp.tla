------------------------------ MODULE MockHttp ------------------------------
(***************************************************************************)
(* The mock HTTP adapter (adapters/mock-http/main.go) in front of the      *)
(* catalogue of AdapterStore: each request fetches the adapter's config,   *)
(* reports the activity on the side, and answers from the copy it got      *)
(* after a delay in which the catalogue may change.                        *)
(***************************************************************************)
EXTENDS AdapterStore

CONSTANTS
  Callers,        \* HTTP clients, one request at a time each
  Protected,      \* the Configs that come with credentials
  HealthId        \* "health": a route of the mock's own mux

ASSUME ProtectedAssumption == Protected \subseteq Configs

VARIABLES
  call,    \* per caller, the request in progress
  window,  \* observer: the rows the adapter had while the request ran
  posts,   \* adapters of which activity reports are on their way
  called,  \* observer: adapters with traffic since their row was made
  late     \* observer: adapters made while a report of their id was on its way

mockVars == <<scenario, adapter, handler, minted, reports,
              call, window, posts, called, late>>

(* GET /adapter-config/{id} shows the mock the behaviour, not the row.      *)
PollResponse == [mode : Modes, config : Configs]

ASSUME NoPollAssumption == None \notin PollResponse

(* First segments of a URL: an adapter's id, a reserved word, or both.  An
   adapter with a reserved id is not reached at its URL.                   *)
ReservedIds == {SftpId, HealthId}
Urls == AdapterIds \cup ReservedIds

RowOf(table, u) == IF u \in AdapterIds THEN table[u] ELSE None

Poll(row) == IF row = None THEN None ELSE [mode |-> row.mode, config |-> row.config]

Answer == {"none", "ok", "no content", "not found", "unauthorized", "unavailable", "sftp"}
            \cup Configs

Call == [pc     : {"idle", "fetching", "answering", "done"},
         id     : Urls,
         options: BOOLEAN,               \* is its method OPTIONS
         basic  : BOOLEAN,               \* does it carry the right credentials
         how    : {"nothing", "failed", "sftp", "row"},
         fetched: PollResponse \cup {None},
         answer : Answer]

MockTypeOK ==
  /\ TypeOK
  /\ call \in [Callers -> Call]
  /\ window \in [Callers -> SUBSET (PollResponse \cup {None})]
  /\ posts \subseteq Reported
  /\ called \subseteq AdapterIds /\ late \subseteq AdapterIds

MockInit ==
  /\ Init
  /\ call = [k \in Callers |-> [pc |-> "idle", id |-> HealthId, options |-> FALSE,
              basic |-> FALSE, how |-> "nothing", fetched |-> None, answer |-> "none"]]
  /\ window = [k \in Callers |-> {}]
  /\ posts = {}
  /\ called = {} /\ late = {}

----------------------------------------------------------------------------
(* What handle answers from a fetched config.                              *)
Respond(cfg, basic) ==
  IF cfg.config \in Protected /\ ~basic THEN "unauthorized"
  ELSE IF cfg.mode = "failure" THEN "unavailable"
  ELSE cfg.config

(* The SFTP server's poll response: its credentials, and mode "success".   *)
RespondSftp(basic) == IF basic THEN "sftp" ELSE "unauthorized"

(* What is answered at once: the mux answers /health, handle the method
   OPTIONS anywhere else, and that nothing is found below /health.         *)
AtOnce(a, options) ==
  (IF a = HealthId THEN {"ok"} ELSE {})
  \cup (IF options THEN {"no content"}
        ELSE IF a = HealthId THEN {"not found"} ELSE {})

(* A request arrives and is answered at once, or its adapter is looked up. *)
Request(k) ==
  /\ call[k].pc \in {"idle", "done"}
  /\ \E a \in Urls, o \in BOOLEAN, b \in BOOLEAN :
       LET new(pc, answer) ==
             [pc |-> pc, id |-> a, options |-> o, basic |-> b, how |-> "nothing",
              fetched |-> None, answer |-> answer]
       IN  /\ \/ \E answer \in AtOnce(a, o) :
                    call' = [call EXCEPT ![k] = new("done", answer)]
              \/ /\ AtOnce(a, o) = {}
                 /\ call' = [call EXCEPT ![k] = new("fetching", "none")]
           /\ window' = [window EXCEPT ![k] = {Poll(RowOf(adapter, a))}]
  /\ UNCHANGED <<vars, posts, called, late>>

(* fetchConfig finds the adapter: the activity report is started.  It counts
   as on its way from the moment the control plane reads the row.          *)
Fetch(k) ==
  /\ call[k].pc = "fetching"
  /\ LET a == call[k].id IN
        /\ \/ /\ a = SftpId
              /\ call' = [call EXCEPT ![k].pc = "answering", ![k].how = "sftp"]
           \/ /\ a # SftpId /\ RowOf(adapter, a) # None
              /\ call' = [call EXCEPT ![k].pc = "answering", ![k].how = "row",
                                      ![k].fetched = Poll(adapter[a])]
        /\ posts' = posts \cup {a}
        /\ called' = called \cup ({a} \cap AdapterIds)
  /\ UNCHANGED <<vars, window, late>>

(* A 404 of the control plane, but also any other error and a timeout, is
   answered "adapter not found".                                           *)
FetchFails(k) ==
  /\ call[k].pc = "fetching"
  /\ \E why \in {"failed"} \cup
         (IF call[k].id # SftpId /\ RowOf(adapter, call[k].id) = None
            THEN {"nothing"} ELSE {}) :
       call' = [call EXCEPT ![k].pc = "done", ![k].how = why,
                            ![k].answer = "not found"]
  /\ UNCHANGED <<vars, window, posts, called, late>>

(* Slip: failure mode before credentials.                                  *)
ReplyModeFirst(k) ==
  /\ call[k].pc = "answering" /\ call[k].how = "row"
  /\ call' = [call EXCEPT ![k].pc = "done", ![k].fetched = None,
       ![k].answer = IF call[k].fetched.mode = "failure" THEN "unavailable"
                     ELSE Respond(call[k].fetched, call[k].basic)]
  /\ UNCHANGED <<vars, posts, called, late, window>>

(* After the delay: credentials, failure mode, then the configured answer. *)
Reply(k) ==
  /\ call[k].pc = "answering"
  /\ call' = [call EXCEPT ![k].pc = "done", ![k].fetched = None,
       ![k].answer = IF call[k].how = "sftp" THEN RespondSftp(call[k].basic)
                     ELSE Respond(call[k].fetched, call[k].basic)]
  /\ UNCHANGED <<vars, window, posts, called, late>>

(* The SFTP adapter's handleConnection reports every connection; an adapter
   that has taken its id shares that traffic.                              *)
SftpConnection ==
  /\ posts' = posts \cup {SftpId}
  /\ called' = called \cup ({SftpId} \cap AdapterIds)
  /\ UNCHANGED <<vars, call, window, late>>

(* reportActivity: one is delivered or lost; others of the same adapter may
   still be on their way.                                                  *)
PostActivity(a) ==
  /\ a \in posts
  /\ posts' \in {posts, posts \ {a}}
  /\ ReceiveReport(a) \/ UNCHANGED vars
  /\ UNCHANGED <<call, window, called, late>>

(* Adapters whose row is inserted by the step.                             *)
Made == {a \in AdapterIds : adapter[a] = None /\ adapter'[a] # None}

(* The catalogue moves; the requests under way may see the new rows.       *)
CatalogueMoves ==
  /\ CatalogueStep
  /\ window' = [k \in Callers |->
       IF call[k].pc \in {"fetching", "answering"}
         THEN window[k] \cup {Poll(RowOf(adapter', call[k].id))} ELSE window[k]]
  /\ called' = called \ Made
  /\ late' = (late \ Made) \cup (Made \cap (posts \cup reports))
  /\ UNCHANGED <<call, posts>>

MockNext ==
  \/ CatalogueMoves
  \/ \E k \in Callers : Request(k) \/ Fetch(k) \/ FetchFails(k) \/ Reply(k)
  \/ SftpConnection
  \/ \E a \in Reported : PostActivity(a)

MockSpec == MockInit /\ [][MockNext]_mockVars

----------------------------------------------------------------------------
(* Properties                                                              *)

(* models.go:23 "IngressURL returns the localhost URL a client would call for
   this adapter": unless its method is OPTIONS, its id a reserved word or the
   control plane could not be reached, a request to an adapter's URL is
   answered the way some row the adapter had during the request says, and
   "not found" only if at some point it had none.                          *)
AnswerIsTheAdapters ==
  \A k \in Callers :
    /\ call[k].pc = "done" /\ call[k].how # "failed" /\ ~call[k].options
    /\ call[k].id \in AdapterIds \ ReservedIds
    => \E r \in window[k] :
         call[k].answer = IF r = None THEN "not found"
                          ELSE Respond(r, call[k].basic)

(* store.go RecordActivity: an adapter that shows activity has had traffic
   since its row was made, or was made while a report of an earlier adapter
   with its id was still on its way: the report names the id alone.  That is
   the only way for activity to show on an adapter that was not called,
   however late reports arrive, whoever else sends them and whatever restarts. *)
ActivityNeedsTraffic ==
  \A a \in AdapterIds :
    adapter[a] # None /\ adapter[a].active => a \in called \cup late
=============================================================================
