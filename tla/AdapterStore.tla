---------------------------- MODULE AdapterStore ----------------------------
(***************************************************************************)
(* The scenarios and mock adapters of the control plane: the tables        *)
(* ac_scenarios and ac_adapters and the handlers that change them          *)
(* (internal/adaptercontrol/store.go, db.go).                              *)
(*                                                                         *)
(* Handlers are slots, one statement is one action, and what a handler     *)
(* read in an earlier statement stays in its slot.  updated_at and         *)
(* created_at are left out; last_activity is whether it is set.            *)
(***************************************************************************)
CONSTANTS
  Slots,        \* concurrent request goroutines
  Scenarios,    \* scenario ids: slug of the name and the time in ms
  Unassigned,   \* the catch-all scenario made at start-up
  AdapterIds,   \* adapter ids: slugs chosen by the user, unique in the table
  SftpId,       \* "sftp", under which the SFTP adapter reports its activity
  Names, Modes, Configs,
  Keep,         \* an empty string in an update request
  None          \* no such row

ASSUME CatalogueAssumption ==
  /\ Unassigned \in Scenarios
  /\ Keep \notin Names \cup Modes
  /\ None \notin Names
  /\ Names # {}

VARIABLES
  scenario,  \* ac_scenarios: id -> name, or None
  adapter,   \* ac_adapters: id -> row, or None
  handler,   \* per slot, the request being executed
  minted,    \* scenario ids handed out so far
  reports    \* adapters with RecordActivity goroutines that have not run yet

vars == <<scenario, adapter, handler, minted, reports>>

Row == [scenario : Scenarios, name : Names, mode : Modes, config : Configs,
        active : BOOLEAN]

(* "check" and "insert" are CreateAdapter's two statements, "read" and
   "update" UpdateAdapter's.                                               *)
Handler == [pc       : {"check", "insert", "read", "update"},
            scenario : Scenarios,
            id       : AdapterIds,
            name     : Names \cup {Keep},
            mode     : Modes \cup {Keep},
            config   : Configs]

Reported == AdapterIds \cup {SftpId}

TypeOK ==
  /\ scenario \in [Scenarios -> Names \cup {None}]
  /\ adapter \in [AdapterIds -> Row \cup {None}]
  /\ handler \in [Slots -> Handler \cup {None}]
  /\ minted \subseteq Scenarios
  /\ reports \subseteq Reported

Init ==
  /\ scenario = [c \in Scenarios |-> None]
  /\ adapter = [a \in AdapterIds |-> None]
  /\ handler = [s \in Slots |-> None]
  /\ minted = {Unassigned}
  /\ reports = {}

----------------------------------------------------------------------------
(* Start-up and crash: the handlers and goroutines of the old process are
   gone, InitUnassigned makes the catch-all scenario if it is missing (or
   fails, which is only logged).                                           *)
Restart ==
  /\ handler' = [s \in Slots |-> None]
  /\ reports' = {}
  /\ \/ /\ scenario[Unassigned] = None
        /\ \E n \in Names : scenario' = [scenario EXCEPT ![Unassigned] = n]
     \/ scenario' = scenario
  /\ UNCHANGED <<adapter, minted>>

----------------------------------------------------------------------------
(* Scenarios: one statement each                                           *)

CreateScenario ==
  /\ \E c \in Scenarios \ minted, n \in Names :
       /\ scenario' = [scenario EXCEPT ![c] = n]
       /\ minted' = minted \cup {c}
  /\ UNCHANGED <<adapter, handler, reports>>

(* COALESCE(NULLIF($2,''), name): the old name is read by the statement
   itself.                                                                 *)
UpdateScenario ==
  /\ \E c \in Scenarios, n \in Names \cup {Keep} :
       /\ scenario[c] # None
       /\ scenario' = [scenario EXCEPT ![c] = IF n = Keep THEN @ ELSE n]
  /\ UNCHANGED <<adapter, handler, minted, reports>>

(* ON DELETE CASCADE: the scenario's adapters go in the same statement.    *)
Cascade(c) ==
  [a \in AdapterIds |->
     IF adapter[a] # None /\ adapter[a].scenario = c THEN None ELSE adapter[a]]

DeleteScenario ==
  /\ \E c \in Scenarios :
       /\ scenario[c] # None
       /\ scenario' = [scenario EXCEPT ![c] = None]
       /\ adapter' = Cascade(c)
  /\ UNCHANGED <<handler, minted, reports>>

----------------------------------------------------------------------------
(* Adapters                                                                *)

(* A goroutine takes up POST .../adapters or PUT .../adapters/{id}.        *)
CreateRequest ==
  [pc : {"check"}, scenario : Scenarios, id : AdapterIds, name : Names,
   mode : Modes, config : Configs]
UpdateRequest ==
  [pc : {"read"}, scenario : Scenarios, id : AdapterIds,
   name : Names \cup {Keep}, mode : Modes \cup {Keep}, config : Configs]

Receive(s) ==
  /\ handler[s] = None
  /\ \E req \in CreateRequest \cup UpdateRequest :
       handler' = [handler EXCEPT ![s] = req]
  /\ UNCHANGED <<scenario, adapter, minted, reports>>

Finish(s) == handler' = [handler EXCEPT ![s] = None]

At(s, pc) == handler[s] # None /\ handler[s].pc = pc

(* CreateAdapter's SELECT COUNT of the scenario.                           *)
CheckScenario(s) ==
  /\ At(s, "check")
  /\ IF scenario[handler[s].scenario] # None
       THEN handler' = [handler EXCEPT ![s].pc = "insert"]
       ELSE Finish(s)
  /\ UNCHANGED <<scenario, adapter, minted, reports>>

(* Slip: a table without the foreign key.                                  *)
PrimaryKeyAllows(h) == adapter[h.id] = None

(* Its INSERT: the primary key and the foreign key decide.                 *)
KeysAllow(h) == adapter[h.id] = None /\ scenario[h.scenario] # None

InsertAdapter(s) ==
  /\ At(s, "insert")
  /\ LET h == handler[s] IN
       adapter' = IF KeysAllow(h)
         THEN [adapter EXCEPT ![h.id] =
                 [scenario |-> h.scenario, name |-> h.name, mode |-> h.mode,
                  config |-> h.config, active |-> FALSE]]
         ELSE adapter
  /\ Finish(s)
  /\ UNCHANGED <<scenario, minted, reports>>

(* Slip: an empty name is not filled from the row.                         *)
ReadModeOnly(s) ==
  /\ At(s, "read")
  /\ LET h == handler[s]
         existing == adapter[h.id]
     IN IF existing # None /\ existing.scenario = h.scenario
          THEN handler' = [handler EXCEPT ![s] =
                 [h EXCEPT !.pc = "update",
                           !.mode = IF h.mode = Keep THEN existing.mode ELSE h.mode]]
          ELSE Finish(s)
  /\ UNCHANGED <<scenario, adapter, minted, reports>>

(* UpdateAdapter's GetAdapter: the id in this scenario, or not found; the
   fields the request leaves empty are filled from the row as it is now.   *)
ReadExisting(s) ==
  /\ At(s, "read")
  /\ LET h == handler[s]
         existing == adapter[h.id]
     IN IF existing # None /\ existing.scenario = h.scenario
          THEN handler' = [handler EXCEPT ![s] =
                 [h EXCEPT !.pc = "update",
                           !.name = IF h.name = Keep THEN existing.name ELSE h.name,
                           !.mode = IF h.mode = Keep THEN existing.mode ELSE h.mode]]
          ELSE Finish(s)
  /\ UNCHANGED <<scenario, adapter, minted, reports>>

(* Slip: the row as it was read is put back whole.                         *)
PutRowBack(s) ==
  /\ At(s, "update")
  /\ LET h == handler[s] IN
       adapter' = [adapter EXCEPT ![h.id] =
         [scenario |-> h.scenario, name |-> h.name, mode |-> h.mode,
          config |-> h.config, active |-> FALSE]]
  /\ Finish(s)
  /\ UNCHANGED <<scenario, minted, reports>>

(* Its UPDATE ... WHERE id = $1: no row, or a row made since, whichever
   scenario it is in.                                                      *)
UpdateAdapter(s) ==
  /\ At(s, "update")
  /\ LET h == handler[s] IN
       adapter' = IF adapter[h.id] = None THEN adapter
         ELSE [adapter EXCEPT ![h.id].name = h.name, ![h.id].mode = h.mode,
                              ![h.id].config = h.config]
  /\ Finish(s)
  /\ UNCHANGED <<scenario, minted, reports>>

(* DELETE ... WHERE id AND scenario_id.                                    *)
DeleteAdapter ==
  /\ \E c \in Scenarios, a \in AdapterIds :
       /\ adapter[a] # None /\ adapter[a].scenario = c
       /\ adapter' = [adapter EXCEPT ![a] = None]
  /\ UNCHANGED <<scenario, handler, minted, reports>>

(* POST /adapter-activity/{id} starts a goroutine and answers at once.     *)
ReceiveReport(a) ==
  /\ reports' = reports \cup {a}
  /\ UNCHANGED <<scenario, adapter, handler, minted>>

(* Slip: the UPDATE without its WHERE.                                     *)
RecordEverywhere(a) ==
  /\ a \in reports
  /\ reports' \in {reports, reports \ {a}}
  /\ adapter' = [b \in AdapterIds |->
       IF adapter[b] = None THEN None ELSE [adapter[b] EXCEPT !.active = TRUE]]
  /\ UNCHANGED <<scenario, handler, minted>>

(* A goroutine's UPDATE, or its two second timeout; there may be others for
   the same adapter.                                                       *)
RecordActivity(a) ==
  /\ a \in reports
  /\ reports' \in {reports, reports \ {a}}
  /\ adapter' \in {adapter, [b \in AdapterIds |->
                               IF b = a /\ adapter[b] # None
                                 THEN [adapter[b] EXCEPT !.active = TRUE]
                                 ELSE adapter[b]]}
  /\ UNCHANGED <<scenario, handler, minted>>

----------------------------------------------------------------------------
HandlerStep(s) ==
  CheckScenario(s) \/ InsertAdapter(s) \/ ReadExisting(s) \/ UpdateAdapter(s)

CatalogueStep ==
  \/ Restart
  \/ CreateScenario \/ UpdateScenario \/ DeleteScenario
  \/ DeleteAdapter
  \/ \E s \in Slots : Receive(s) \/ HandlerStep(s)
  \/ \E a \in Reported : RecordActivity(a)

Next == CatalogueStep \/ \E a \in Reported : ReceiveReport(a)

Spec == Init /\ [][Next]_vars

----------------------------------------------------------------------------
(* Properties                                                              *)

(* store.go CreateAdapter, DeleteScenario: the COUNT that a create starts
   with may be stale when it inserts, and still no adapter is ever left in
   a scenario that has been deleted.                                       *)
NoOrphan ==
  \A a \in AdapterIds :
    adapter[a] # None => scenario[adapter[a].scenario] # None

(* store.go, every handler: whatever a handler read in an earlier statement,
   each of its writes is one legal step of the catalogue.  No update brings a
   deleted adapter back or moves one, no insert overwrites, no delete leaves
   half a scenario behind.                                                 *)
Catalogue == INSTANCE AdapterCatalog
CatalogueSpec == Catalogue!Spec
=============================================================================
