------------------------- MODULE AdapterStore_proofs -------------------------
(***************************************************************************)
(* Proofs about AdapterStore and the mock in front of it, for any slots,   *)
(* scenarios, adapter ids, callers and values: types, no adapter without   *)
(* its scenario, that the statements of the handlers implement             *)
(* AdapterCatalog, and that the mock answers as the catalogue says.        *)
(***************************************************************************)
EXTENDS MockHttp, TLAPS

(* Only an update that has not read its row yet has fields left empty.     *)
Filled ==
  \A s \in Slots :
    handler[s] # None /\ handler[s].pc # "read" =>
      handler[s].name \in Names /\ handler[s].mode \in Modes

(* A scenario that is there has had its id handed out, and the catch-all
   scenario's is never handed out again.                                   *)
MintedIfThere ==
  /\ Unassigned \in minted
  /\ \A c \in Scenarios : scenario[c] # None => c \in minted

CatalogueInv == TypeOK /\ Filled /\ MintedIfThere

----------------------------------------------------------------------------
(* Slots                                                                   *)

(* Storing a request in a slot, or emptying it, keeps handlers typed and
   filled.                                                                 *)
LEMMA SlotUpdate ==
  ASSUME handler \in [Slots -> Handler \cup {None}], Filled,
         NEW s \in Slots, NEW h \in Handler \cup {None},
         h # None /\ h.pc # "read" => h.name \in Names /\ h.mode \in Modes,
         handler' = [handler EXCEPT ![s] = h]
  PROVE  handler' \in [Slots -> Handler \cup {None}] /\ Filled'
<1>1. handler' \in [Slots -> Handler \cup {None}]
  OBVIOUS
<1>2. ASSUME NEW t \in Slots, handler'[t] # None, handler'[t].pc # "read"
      PROVE  handler'[t].name \in Names /\ handler'[t].mode \in Modes
  <2>1. CASE t = s
    <3>1. handler'[t] = h
      BY <2>1
    <3> QED
      BY <3>1, <1>2
  <2>2. CASE t # s
    <3>1. handler'[t] = handler[t]
      BY <2>2
    <3> QED
      BY <3>1, <1>2 DEF Filled
  <2> QED
    BY <2>1, <2>2
<1> QED
  BY <1>1, <1>2 DEF Filled

(* A handler that finishes leaves its slot empty.                          *)
LEMMA SlotFreed ==
  ASSUME CatalogueInv, NEW s \in Slots, Finish(s)
  PROVE  handler' \in [Slots -> Handler \cup {None}] /\ Filled'
<1>1. handler' = [handler EXCEPT ![s] = None]
  BY DEF Finish
<1> QED
  BY <1>1, SlotUpdate DEF CatalogueInv, TypeOK

----------------------------------------------------------------------------
(* The invariant                                                           *)

LEMMA CatalogueInvInit == Init => CatalogueInv
BY CatalogueAssumption DEF Init, CatalogueInv, TypeOK, Filled, MintedIfThere

LEMMA RestartKeeps == CatalogueInv /\ Restart => CatalogueInv'
<1> SUFFICES ASSUME CatalogueInv, Restart PROVE CatalogueInv'
  OBVIOUS
<1>1. scenario' \in [Scenarios -> Names \cup {None}] /\ MintedIfThere'
  <2>1. CASE scenario' = scenario
    BY <2>1 DEF Restart, CatalogueInv, TypeOK, MintedIfThere
  <2>2. CASE \E n \in Names : scenario' = [scenario EXCEPT ![Unassigned] = n]
    BY <2>2, CatalogueAssumption DEF Restart, CatalogueInv, TypeOK, MintedIfThere
  <2> QED
    BY <2>1, <2>2 DEF Restart
<1>2. handler' \in [Slots -> Handler \cup {None}] /\ Filled'
  BY DEF Restart, Filled
<1>3. UNCHANGED <<adapter, minted>> /\ reports' = {}
  BY DEF Restart
<1> QED
  BY <1>1, <1>2, <1>3 DEF CatalogueInv, TypeOK

LEMMA CreateScenarioKeeps == CatalogueInv /\ CreateScenario => CatalogueInv'
<1> SUFFICES ASSUME CatalogueInv, CreateScenario PROVE CatalogueInv'
  OBVIOUS
<1>1. PICK c \in Scenarios \ minted, n \in Names :
        scenario' = [scenario EXCEPT ![c] = n] /\ minted' = minted \cup {c}
  BY DEF CreateScenario
<1>2. scenario' \in [Scenarios -> Names \cup {None}] /\ MintedIfThere'
      /\ minted' \subseteq Scenarios
  BY <1>1 DEF CatalogueInv, TypeOK, MintedIfThere
<1> QED
  BY <1>2 DEF CreateScenario, CatalogueInv, TypeOK, Filled

LEMMA UpdateScenarioKeeps == CatalogueInv /\ UpdateScenario => CatalogueInv'
<1> SUFFICES ASSUME CatalogueInv, UpdateScenario PROVE CatalogueInv'
  OBVIOUS
<1>1. PICK c \in Scenarios, n \in Names \cup {Keep} :
        /\ scenario[c] # None
        /\ scenario' = [scenario EXCEPT ![c] = IF n = Keep THEN @ ELSE n]
  BY DEF UpdateScenario
<1>2. scenario' \in [Scenarios -> Names \cup {None}] /\ MintedIfThere'
  BY <1>1 DEF UpdateScenario, CatalogueInv, TypeOK, MintedIfThere
<1> QED
  BY <1>2 DEF UpdateScenario, CatalogueInv, TypeOK, Filled

LEMMA DeleteScenarioKeeps == CatalogueInv /\ DeleteScenario => CatalogueInv'
<1> SUFFICES ASSUME CatalogueInv, DeleteScenario PROVE CatalogueInv'
  OBVIOUS
<1>1. PICK c \in Scenarios :
        scenario' = [scenario EXCEPT ![c] = None] /\ adapter' = Cascade(c)
  BY DEF DeleteScenario
<1>2. scenario' \in [Scenarios -> Names \cup {None}] /\ MintedIfThere'
  BY <1>1 DEF DeleteScenario, CatalogueInv, TypeOK, MintedIfThere
<1>3. adapter' \in [AdapterIds -> Row \cup {None}]
  BY <1>1 DEF Cascade, CatalogueInv, TypeOK
<1> QED
  BY <1>2, <1>3 DEF DeleteScenario, CatalogueInv, TypeOK, Filled

LEMMA DeleteAdapterKeeps == CatalogueInv /\ DeleteAdapter => CatalogueInv'
<1> SUFFICES ASSUME CatalogueInv, DeleteAdapter PROVE CatalogueInv'
  OBVIOUS
<1>1. adapter' \in [AdapterIds -> Row \cup {None}]
  BY DEF DeleteAdapter, CatalogueInv, TypeOK
<1> QED
  BY <1>1 DEF DeleteAdapter, CatalogueInv, TypeOK, Filled, MintedIfThere

(* A new request is typed; an update's has yet to read the row.            *)
LEMMA ReceiveKeeps ==
  ASSUME CatalogueInv, NEW s \in Slots, Receive(s) PROVE CatalogueInv'
<1>1. PICK req \in CreateRequest \cup UpdateRequest :
        handler' = [handler EXCEPT ![s] = req]
  BY DEF Receive
<1>2. req \in Handler
      /\ (req.pc # "read" => req.name \in Names /\ req.mode \in Modes)
  BY DEF CreateRequest, UpdateRequest, Handler
<1>3. handler' \in [Slots -> Handler \cup {None}] /\ Filled'
  BY <1>1, <1>2, SlotUpdate DEF CatalogueInv, TypeOK
<1> QED
  BY <1>3 DEF Receive, CatalogueInv, TypeOK, MintedIfThere

LEMMA CheckScenarioKeeps ==
  ASSUME CatalogueInv, NEW s \in Slots, CheckScenario(s) PROVE CatalogueInv'
<1>1. handler' \in [Slots -> Handler \cup {None}] /\ Filled'
  <2>1. CASE Finish(s)
    BY <2>1, SlotFreed
  <2>2. CASE ~Finish(s)
    <3> DEFINE h == [handler[s] EXCEPT !.pc = "insert"]
    <3>1. handler[s] \in Handler /\ handler[s].pc = "check"
      BY DEF CheckScenario, At, CatalogueInv, TypeOK
    <3>2. h \in Handler /\ h.name \in Names /\ h.mode \in Modes
      BY <3>1 DEF CheckScenario, At, CatalogueInv, Filled, Handler
    <3>3. handler' = [handler EXCEPT ![s] = h]
      BY <2>2 DEF CheckScenario
    <3> HIDE DEF h
    <3> QED
      BY <3>2, <3>3, SlotUpdate DEF CatalogueInv, TypeOK
  <2> QED
    BY <2>1, <2>2
<1> QED
  BY <1>1 DEF CheckScenario, CatalogueInv, TypeOK, MintedIfThere

LEMMA InsertAdapterKeeps ==
  ASSUME CatalogueInv, NEW s \in Slots, InsertAdapter(s) PROVE CatalogueInv'
<1> DEFINE h == handler[s]
<1>1. h \in Handler /\ h.name \in Names /\ h.mode \in Modes
  BY DEF InsertAdapter, At, CatalogueInv, TypeOK, Filled
<1> DEFINE row == [scenario |-> h.scenario, name |-> h.name, mode |-> h.mode,
                   config |-> h.config, active |-> FALSE]
<1>2. row \in Row /\ h.id \in AdapterIds
  BY <1>1 DEF Row, Handler
<1>3. adapter' = adapter \/ adapter' = [adapter EXCEPT ![h.id] = row]
  BY DEF InsertAdapter
<1> HIDE DEF row
<1>4. adapter' \in [AdapterIds -> Row \cup {None}]
  BY <1>2, <1>3 DEF CatalogueInv, TypeOK
<1>5. handler' \in [Slots -> Handler \cup {None}] /\ Filled'
  BY SlotFreed DEF InsertAdapter
<1> QED
  BY <1>4, <1>5 DEF InsertAdapter, CatalogueInv, TypeOK, MintedIfThere

(* The read fills every field the request left empty from a typed row.     *)
LEMMA ReadExistingKeeps ==
  ASSUME CatalogueInv, NEW s \in Slots, ReadExisting(s) PROVE CatalogueInv'
<1>1. handler' \in [Slots -> Handler \cup {None}] /\ Filled'
  <2>1. CASE Finish(s)
    BY <2>1, SlotFreed
  <2>2. CASE ~Finish(s)
    <3> DEFINE h        == handler[s]
               existing == adapter[h.id]
               n        == IF h.name = Keep THEN existing.name ELSE h.name
               m        == IF h.mode = Keep THEN existing.mode ELSE h.mode
               new      == [h EXCEPT !.pc = "update", !.name = n, !.mode = m]
    <3>1. h \in Handler
      BY DEF ReadExisting, At, CatalogueInv, TypeOK
    <3>2. existing \in Row
      BY <2>2, <3>1 DEF ReadExisting, CatalogueInv, TypeOK, Handler
    <3>3. n \in Names /\ m \in Modes
      BY <3>1, <3>2 DEF Handler, Row
    <3>4. handler' = [handler EXCEPT ![s] = new]
      BY <2>2 DEF ReadExisting
    <3> HIDE DEF n, m
    <3>5. new \in Handler /\ new.name = n /\ new.mode = m
      BY <3>1, <3>3 DEF Handler
    <3> HIDE DEF new
    <3> QED
      BY <3>3, <3>4, <3>5, SlotUpdate DEF CatalogueInv, TypeOK
  <2> QED
    BY <2>1, <2>2
<1> QED
  BY <1>1 DEF ReadExisting, CatalogueInv, TypeOK, MintedIfThere

LEMMA UpdateAdapterKeeps ==
  ASSUME CatalogueInv, NEW s \in Slots, UpdateAdapter(s) PROVE CatalogueInv'
<1> DEFINE h == handler[s]
<1>1. h \in Handler /\ h.name \in Names /\ h.mode \in Modes
  BY DEF UpdateAdapter, At, CatalogueInv, TypeOK, Filled
<1>2. adapter' \in [AdapterIds -> Row \cup {None}]
  <2>1. CASE adapter[h.id] = None
    BY <2>1 DEF UpdateAdapter, CatalogueInv, TypeOK
  <2>2. CASE adapter[h.id] # None
    <3> DEFINE row == [adapter[h.id] EXCEPT !.name = h.name, !.mode = h.mode,
                                            !.config = h.config]
    <3>1. h.id \in AdapterIds /\ h.config \in Configs
      BY <1>1 DEF Handler
    <3>2. adapter[h.id] \in Row
      BY <2>2, <3>1 DEF CatalogueInv, TypeOK
    <3>3. row \in Row
      BY <1>1, <3>1, <3>2 DEF Row
    <3>4. adapter' = [adapter EXCEPT ![h.id] = row]
      BY <2>2, <3>1 DEF UpdateAdapter, CatalogueInv, TypeOK
    <3> HIDE DEF row
    <3> QED
      BY <3>1, <3>3, <3>4 DEF CatalogueInv, TypeOK
  <2> QED
    BY <2>1, <2>2
<1>3. handler' \in [Slots -> Handler \cup {None}] /\ Filled'
  BY SlotFreed DEF UpdateAdapter
<1> QED
  BY <1>2, <1>3 DEF UpdateAdapter, CatalogueInv, TypeOK, MintedIfThere

(* What a report does to the table: nothing, or one row is marked.         *)
LEMMA ReportEffect ==
  ASSUME CatalogueInv, NEW a \in Reported, RecordActivity(a)
  PROVE  \/ adapter' = adapter
         \/ /\ a \in AdapterIds /\ adapter[a] # None
            /\ adapter' = [adapter EXCEPT ![a].active = TRUE]
<1> DEFINE marked == [b \in AdapterIds |->
                        IF b = a /\ adapter[b] # None
                          THEN [adapter[b] EXCEPT !.active = TRUE]
                          ELSE adapter[b]]
<1>1. adapter' = adapter \/ adapter' = marked
  BY DEF RecordActivity
<1>2. CASE a \in AdapterIds /\ adapter[a] # None
  <2>1. marked = [adapter EXCEPT ![a].active = TRUE]
    BY <1>2 DEF CatalogueInv, TypeOK
  <2> QED
    BY <1>1, <1>2, <2>1
<1>3. CASE ~(a \in AdapterIds /\ adapter[a] # None)
  <2>1. marked = adapter
    BY <1>3 DEF CatalogueInv, TypeOK
  <2> QED
    BY <1>1, <2>1
<1> QED
  BY <1>2, <1>3

LEMMA RecordActivityKeeps ==
  ASSUME CatalogueInv, NEW a \in Reported, RecordActivity(a)
  PROVE  CatalogueInv'
<1>1. adapter' \in [AdapterIds -> Row \cup {None}]
  <2>1. CASE adapter' = adapter
    BY <2>1 DEF CatalogueInv, TypeOK
  <2>2. CASE a \in AdapterIds /\ adapter[a] # None
             /\ adapter' = [adapter EXCEPT ![a].active = TRUE]
    <3> DEFINE row == [adapter[a] EXCEPT !.active = TRUE]
    <3>1. row \in Row
      BY <2>2 DEF CatalogueInv, TypeOK, Row
    <3>2. adapter' = [adapter EXCEPT ![a] = row]
      BY <2>2
    <3> HIDE DEF row
    <3> QED
      BY <2>2, <3>1, <3>2 DEF CatalogueInv, TypeOK
  <2> QED
    BY <2>1, <2>2, ReportEffect
<1> QED
  BY <1>1 DEF RecordActivity, CatalogueInv, TypeOK, Filled, MintedIfThere

LEMMA CatalogueInvNext == CatalogueInv /\ [Next]_vars => CatalogueInv'
<1> SUFFICES ASSUME CatalogueInv, [Next]_vars PROVE CatalogueInv'
  OBVIOUS
<1>1. CASE Restart
  BY <1>1, RestartKeeps
<1>2. CASE CreateScenario
  BY <1>2, CreateScenarioKeeps
<1>3. CASE UpdateScenario
  BY <1>3, UpdateScenarioKeeps
<1>4. CASE DeleteScenario
  BY <1>4, DeleteScenarioKeeps
<1>5. CASE DeleteAdapter
  BY <1>5, DeleteAdapterKeeps
<1>6. CASE \E s \in Slots : Receive(s)
  BY <1>6, ReceiveKeeps
<1>7. CASE \E s \in Slots : HandlerStep(s)
  BY <1>7, CheckScenarioKeeps, InsertAdapterKeeps, ReadExistingKeeps,
     UpdateAdapterKeeps DEF HandlerStep
<1>8. CASE \E a \in Reported : RecordActivity(a)
  BY <1>8, RecordActivityKeeps
<1>9. CASE \E a \in Reported : ReceiveReport(a)
  BY <1>9 DEF ReceiveReport, CatalogueInv, TypeOK, Filled, MintedIfThere
<1>10. CASE UNCHANGED vars
  BY <1>10 DEF vars, CatalogueInv, TypeOK, Filled, MintedIfThere
<1> QED
  BY <1>1, <1>2, <1>3, <1>4, <1>5, <1>6, <1>7, <1>8, <1>9, <1>10
     DEF Next, CatalogueStep

LEMMA CatalogueInvAlways == Spec => []CatalogueInv
BY CatalogueInvInit, CatalogueInvNext, PTL DEF Spec

(* The tables, the handlers and the pending reports hold values of their
   types at every step of the catalogue's handlers (store.go).             *)
THEOREM CatalogueTyped == Spec => []TypeOK
<1>1. CatalogueInv => TypeOK
  BY DEF CatalogueInv
<1> QED
  BY <1>1, CatalogueInvAlways, PTL

----------------------------------------------------------------------------
(* No adapter without its scenario                                         *)

(* Updates and reports change neither which adapters there are nor whose
   they are.                                                               *)
SameOwners ==
  \A a \in AdapterIds :
    adapter'[a] # None => adapter[a] # None /\ adapter'[a].scenario = adapter[a].scenario

LEMMA OwnersSuffice ==
  ASSUME NoOrphan, SameOwners, CatalogueInv,
         \A c \in Scenarios : scenario[c] # None => scenario'[c] # None
  PROVE  NoOrphan'
BY DEF NoOrphan, SameOwners, CatalogueInv, TypeOK, Row

LEMMA UpdateAdapterOwners ==
  ASSUME CatalogueInv, NEW s \in Slots, UpdateAdapter(s) PROVE SameOwners
<1> DEFINE h == handler[s]
           row == [adapter[h.id] EXCEPT !.name = h.name, !.mode = h.mode,
                                        !.config = h.config]
<1>1. h.id \in AdapterIds
  BY DEF UpdateAdapter, At, CatalogueInv, TypeOK, Handler
<1>2. CASE adapter[h.id] = None
  BY <1>2 DEF UpdateAdapter, SameOwners
<1>3. CASE adapter[h.id] # None
  <2>1. adapter[h.id] \in Row
    BY <1>1, <1>3 DEF CatalogueInv, TypeOK
  <2>2. row.scenario = adapter[h.id].scenario
    BY <2>1 DEF Row
  <2>3. adapter' = [adapter EXCEPT ![h.id] = row]
    BY <1>1, <1>3 DEF UpdateAdapter, CatalogueInv, TypeOK
  <2> HIDE DEF row
  <2> QED
    BY <1>1, <1>3, <2>2, <2>3 DEF SameOwners, CatalogueInv, TypeOK
<1> QED
  BY <1>2, <1>3

LEMMA RecordActivityOwners ==
  ASSUME CatalogueInv, NEW a \in Reported, RecordActivity(a) PROVE SameOwners
<1>1. CASE adapter' = adapter
  BY <1>1 DEF SameOwners
<1>2. CASE a \in AdapterIds /\ adapter[a] # None
           /\ adapter' = [adapter EXCEPT ![a].active = TRUE]
  <2> DEFINE row == [adapter[a] EXCEPT !.active = TRUE]
  <2>1. row.scenario = adapter[a].scenario
    BY <1>2 DEF CatalogueInv, TypeOK, Row
  <2>2. adapter' = [adapter EXCEPT ![a] = row]
    BY <1>2
  <2> HIDE DEF row
  <2> QED
    BY <1>2, <2>1, <2>2 DEF SameOwners, CatalogueInv, TypeOK
<1> QED
  BY <1>1, <1>2, ReportEffect

(* The insert's foreign key is checked by the statement that inserts.      *)
LEMMA InsertOwned ==
  ASSUME CatalogueInv, NoOrphan, NEW s \in Slots, InsertAdapter(s)
  PROVE  NoOrphan'
<1> DEFINE h == handler[s]
           row == [scenario |-> h.scenario, name |-> h.name, mode |-> h.mode,
                   config |-> h.config, active |-> FALSE]
<1>1. h.id \in AdapterIds /\ h.scenario \in Scenarios
  BY DEF InsertAdapter, At, CatalogueInv, TypeOK, Handler
<1>2. CASE ~KeysAllow(h)
  BY <1>2 DEF InsertAdapter, NoOrphan
<1>3. CASE KeysAllow(h)
  <2>1. adapter' = [adapter EXCEPT ![h.id] = row] /\ scenario' = scenario
    BY <1>3 DEF InsertAdapter
  <2>2. row.scenario = h.scenario /\ scenario[h.scenario] # None
    BY <1>3 DEF KeysAllow
  <2> HIDE DEF row
  <2> QED
    BY <1>1, <2>1, <2>2 DEF NoOrphan, CatalogueInv, TypeOK
<1> QED
  BY <1>2, <1>3

LEMMA NoOrphanNext == CatalogueInv /\ NoOrphan /\ [Next]_vars => NoOrphan'
<1> SUFFICES ASSUME CatalogueInv, NoOrphan, [Next]_vars PROVE NoOrphan'
  OBVIOUS
<1>1. CASE Restart
  <2>1. SameOwners
    BY <1>1 DEF Restart, SameOwners
  <2>2. \A c \in Scenarios : scenario[c] # None => scenario'[c] # None
    BY <1>1, CatalogueAssumption DEF Restart, CatalogueInv, TypeOK
  <2> QED
    BY <2>1, <2>2, OwnersSuffice
<1>2. CASE CreateScenario
  <2>1. SameOwners
    BY <1>2 DEF CreateScenario, SameOwners
  <2>2. \A c \in Scenarios : scenario[c] # None => scenario'[c] # None
    BY <1>2, CatalogueAssumption DEF CreateScenario, CatalogueInv, TypeOK
  <2> QED
    BY <2>1, <2>2, OwnersSuffice
<1>3. CASE UpdateScenario
  <2>1. SameOwners
    BY <1>3 DEF UpdateScenario, SameOwners
  <2>2. \A c \in Scenarios : scenario[c] # None => scenario'[c] # None
    <3>1. PICK c \in Scenarios, n \in Names \cup {Keep} :
            /\ scenario[c] # None
            /\ scenario' = [scenario EXCEPT ![c] = IF n = Keep THEN @ ELSE n]
      BY <1>3 DEF UpdateScenario
    <3> QED
      BY <3>1, CatalogueAssumption DEF CatalogueInv, TypeOK
  <2> QED
    BY <2>1, <2>2, OwnersSuffice
<1>4. CASE DeleteScenario
  <2>1. PICK c \in Scenarios :
          scenario' = [scenario EXCEPT ![c] = None] /\ adapter' = Cascade(c)
    BY <1>4 DEF DeleteScenario
  <2> QED
    BY <2>1 DEF Cascade, NoOrphan, CatalogueInv, TypeOK, Row
<1>5. CASE DeleteAdapter
  BY <1>5 DEF DeleteAdapter, NoOrphan, CatalogueInv, TypeOK
<1>6. CASE \E s \in Slots : Receive(s)
  BY <1>6 DEF Receive, NoOrphan
<1>7. CASE \E s \in Slots : HandlerStep(s)
  <2> PICK s \in Slots : HandlerStep(s)
    BY <1>7
  <2>1. CASE CheckScenario(s)
    BY <2>1 DEF CheckScenario, NoOrphan
  <2>2. CASE InsertAdapter(s)
    BY <2>2, InsertOwned
  <2>3. CASE ReadExisting(s)
    BY <2>3 DEF ReadExisting, NoOrphan
  <2>4. CASE UpdateAdapter(s)
    BY <2>4, UpdateAdapterOwners, OwnersSuffice DEF UpdateAdapter
  <2> QED
    BY <2>1, <2>2, <2>3, <2>4 DEF HandlerStep
<1>8. CASE \E a \in Reported : RecordActivity(a)
  BY <1>8, RecordActivityOwners, OwnersSuffice DEF RecordActivity
<1>9. CASE \E a \in Reported : ReceiveReport(a)
  BY <1>9 DEF ReceiveReport, NoOrphan
<1>10. CASE UNCHANGED vars
  BY <1>10 DEF vars, NoOrphan
<1> QED
  BY <1>1, <1>2, <1>3, <1>4, <1>5, <1>6, <1>7, <1>8, <1>9, <1>10
     DEF Next, CatalogueStep

(* store.go CreateAdapter, DeleteScenario: whatever was counted before, no
   adapter is ever left in a deleted scenario.                             *)
THEOREM Owned == Spec => []NoOrphan
<1>1. Init => NoOrphan
  BY DEF Init, NoOrphan
<1> QED
  BY <1>1, CatalogueInvAlways, NoOrphanNext, PTL DEF Spec

----------------------------------------------------------------------------
(* The handlers implement the catalogue                                    *)

LEMMA CatalogueQuiet ==
  UNCHANGED <<scenario, adapter>> => [Catalogue!Next]_Catalogue!vars
BY DEF Catalogue!vars

LEMMA ScenarioSteps ==
  ASSUME CatalogueInv,
         Restart \/ CreateScenario \/ UpdateScenario \/ DeleteScenario
  PROVE  [Catalogue!Next]_Catalogue!vars
<1>1. ASSUME NEW c \in Scenarios, NEW n \in Names, scenario[c] = None,
             scenario' = [scenario EXCEPT ![c] = n], UNCHANGED adapter
      PROVE  Catalogue!Next
  <2>1. Catalogue!AddScenario(c, n)
    BY <1>1 DEF Catalogue!AddScenario
  <2> QED
    BY <2>1 DEF Catalogue!Next
<1>2. CASE Restart
  BY <1>1, <1>2, CatalogueQuiet, CatalogueAssumption DEF Restart
<1>3. CASE CreateScenario
  BY <1>1, <1>3 DEF CreateScenario, CatalogueInv, MintedIfThere
<1>4. CASE UpdateScenario
  <2>1. PICK c \in Scenarios, n \in Names \cup {Keep} :
          /\ scenario[c] # None
          /\ scenario' = [scenario EXCEPT ![c] = IF n = Keep THEN @ ELSE n]
    BY <1>4 DEF UpdateScenario
  <2> DEFINE name == IF n = Keep THEN scenario[c] ELSE n
  <2>2. name \in Names
    BY <2>1 DEF CatalogueInv, TypeOK
  <2>3. scenario' = [scenario EXCEPT ![c] = name]
    BY <2>1
  <2> HIDE DEF name
  <2>4. Catalogue!RenameScenario(c, name)
    BY <1>4, <2>1, <2>3 DEF UpdateScenario, Catalogue!RenameScenario
  <2> QED
    BY <2>2, <2>4 DEF Catalogue!Next
<1>5. CASE DeleteScenario
  <2>1. PICK c \in Scenarios : Catalogue!DropScenario(c)
    BY <1>5 DEF DeleteScenario, Cascade, Catalogue!DropScenario
  <2> QED
    BY <2>1 DEF Catalogue!Next
<1> QED
  BY <1>2, <1>3, <1>4, <1>5

LEMMA AdapterSteps ==
  ASSUME CatalogueInv, NEW s \in Slots, InsertAdapter(s) \/ UpdateAdapter(s)
  PROVE  [Catalogue!Next]_Catalogue!vars
<1> DEFINE h == handler[s]
<1>1. /\ h.id \in AdapterIds /\ h.scenario \in Scenarios
      /\ h.name \in Names /\ h.mode \in Modes /\ h.config \in Configs
  BY DEF InsertAdapter, UpdateAdapter, At, CatalogueInv, TypeOK, Filled, Handler
<1>2. CASE InsertAdapter(s)
  <2>1. CASE ~KeysAllow(h)
    BY <1>2, <2>1, CatalogueQuiet DEF InsertAdapter
  <2>2. CASE KeysAllow(h)
    <3>1. Catalogue!AddAdapter(h.id, h.scenario, h.name, h.mode, h.config)
      BY <1>2, <2>2 DEF InsertAdapter, KeysAllow, Catalogue!AddAdapter
    <3> QED
      BY <1>1, <3>1 DEF Catalogue!Next
  <2> QED
    BY <2>1, <2>2
<1>3. CASE UpdateAdapter(s)
  <2>1. CASE adapter[h.id] = None
    BY <1>3, <2>1, CatalogueQuiet DEF UpdateAdapter
  <2>2. CASE adapter[h.id] # None
    <3>1. Catalogue!EditAdapter(h.id, h.name, h.mode, h.config)
      BY <1>3, <2>2 DEF UpdateAdapter, Catalogue!EditAdapter
    <3> QED
      BY <1>1, <3>1 DEF Catalogue!Next
  <2> QED
    BY <2>1, <2>2
<1> QED
  BY <1>2, <1>3

LEMMA RowSteps ==
  ASSUME CatalogueInv,
         DeleteAdapter \/ \E a \in Reported : RecordActivity(a)
  PROVE  [Catalogue!Next]_Catalogue!vars
<1>1. CASE DeleteAdapter
  <2>1. PICK a \in AdapterIds : Catalogue!DropAdapter(a)
    BY <1>1 DEF DeleteAdapter, Catalogue!DropAdapter
  <2> QED
    BY <2>1 DEF Catalogue!Next
<1>2. ASSUME NEW a \in Reported, RecordActivity(a)
      PROVE  [Catalogue!Next]_Catalogue!vars
  <2>1. scenario' = scenario
    BY <1>2 DEF RecordActivity
  <2>2. CASE adapter' = adapter
    BY <2>1, <2>2, CatalogueQuiet
  <2>3. CASE a \in AdapterIds /\ adapter[a] # None
             /\ adapter' = [adapter EXCEPT ![a].active = TRUE]
    <3>1. Catalogue!MarkActive(a)
      BY <2>1, <2>3 DEF Catalogue!MarkActive
    <3> QED
      BY <2>3, <3>1 DEF Catalogue!Next
  <2> QED
    BY <1>2, <2>2, <2>3, ReportEffect
<1> QED
  BY <1>1, <1>2

(* Every statement of the store's handlers is a legal step of the catalogue
   or changes nothing of it: the checks and reads that went before may be
   stale.                                                                  *)
THEOREM CatalogueRefined == Spec => CatalogueSpec
<1>1. Init => Catalogue!Init
  BY DEF Init, Catalogue!Init
<1>2. CatalogueInv /\ [Next]_vars => [Catalogue!Next]_Catalogue!vars
  <2> SUFFICES ASSUME CatalogueInv, [Next]_vars
               PROVE  [Catalogue!Next]_Catalogue!vars
    OBVIOUS
  <2>1. CASE Restart \/ CreateScenario \/ UpdateScenario \/ DeleteScenario
    BY <2>1, ScenarioSteps
  <2>2. CASE DeleteAdapter \/ \E a \in Reported : RecordActivity(a)
    BY <2>2, RowSteps
  <2>3. CASE \E s \in Slots : Receive(s)
    BY <2>3, CatalogueQuiet DEF Receive
  <2>4. CASE \E s \in Slots : HandlerStep(s)
    BY <2>4, AdapterSteps, CatalogueQuiet
       DEF HandlerStep, CheckScenario, ReadExisting
  <2>5. CASE \E a \in Reported : ReceiveReport(a)
    BY <2>5, CatalogueQuiet DEF ReceiveReport
  <2>6. CASE UNCHANGED vars
    BY <2>6, CatalogueQuiet DEF vars
  <2> QED
    BY <2>1, <2>2, <2>3, <2>4, <2>5, <2>6 DEF Next, CatalogueStep
<1> QED
  BY <1>1, <1>2, CatalogueInvAlways, PTL
     DEF Spec, CatalogueSpec, Catalogue!Spec

----------------------------------------------------------------------------
(* The mock in front of the catalogue                                      *)

(* A request that answers has found the SFTP server or a row.              *)
Found ==
  \A k \in Callers : call[k].pc = "answering" =>
    \/ call[k].how = "sftp" /\ call[k].id = SftpId
    \/ call[k].how = "row" /\ call[k].fetched \in PollResponse

CallInv ==
  /\ call \in [Callers -> Call]
  /\ window \in [Callers -> SUBSET (PollResponse \cup {None})]
  /\ Found

MockInv ==
  /\ CatalogueInv
  /\ CallInv
  /\ posts \subseteq Reported /\ called \subseteq AdapterIds /\ late \subseteq AdapterIds

(* The catalogue's steps are those of AdapterStore.                        *)
LEMMA CatalogueStepKeeps == CatalogueInv /\ CatalogueStep => CatalogueInv'
BY CatalogueInvNext DEF Next

(* What the mock can be told of a row is a poll response.                  *)
LEMMA PollTyped ==
  ASSUME CatalogueInv, NEW u \in Urls
  PROVE  Poll(RowOf(adapter, u)) \in PollResponse \cup {None}
BY DEF CatalogueInv, TypeOK, Row, RowOf, Poll, PollResponse

(* A call is replaced by another.                                          *)
LEMMA CallUpdate ==
  ASSUME call \in [Callers -> Call], Found, NEW k \in Callers, NEW c \in Call,
         c.pc = "answering" => \/ c.how = "sftp" /\ c.id = SftpId
                               \/ c.how = "row" /\ c.fetched \in PollResponse,
         call' = [call EXCEPT ![k] = c]
  PROVE  call' \in [Callers -> Call] /\ Found'
<1>1. call' \in [Callers -> Call]
  OBVIOUS
<1>2. ASSUME NEW j \in Callers, call'[j].pc = "answering"
      PROVE  \/ call'[j].how = "sftp" /\ call'[j].id = SftpId
             \/ call'[j].how = "row" /\ call'[j].fetched \in PollResponse
  <2>1. CASE j = k
    <3>1. call'[j] = c
      BY <2>1
    <3> QED
      BY <3>1, <1>2
  <2>2. CASE j # k
    <3>1. call'[j] = call[j]
      BY <2>2
    <3> QED
      BY <3>1, <1>2 DEF Found
  <2> QED
    BY <2>1, <2>2
<1> QED
  BY <1>1, <1>2 DEF Found

(* What is asked of the mock: answered at once, or looked up.              *)
LEMMA RequestMakes ==
  ASSUME NEW k \in Callers, Request(k)
  PROVE  \E c \in Call :
           /\ call' = [call EXCEPT ![k] = c]
           /\ window' = [window EXCEPT ![k] = {Poll(RowOf(adapter, c.id))}]
           /\ c.pc = "fetching" \/ (c.pc = "done" /\ AtOnce(c.id, c.options) # {})
<1>1. \A a \in Urls, o \in BOOLEAN : AtOnce(a, o) \subseteq Answer /\ "none" \in Answer
  BY DEF AtOnce, Answer
<1>2. PICK a \in Urls, o \in BOOLEAN, b \in BOOLEAN,
           pc \in {"fetching", "done"}, answer \in Answer :
        /\ call' = [call EXCEPT ![k] =
             [pc |-> pc, id |-> a, options |-> o, basic |-> b,
              how |-> "nothing", fetched |-> None, answer |-> answer]]
        /\ window' = [window EXCEPT ![k] = {Poll(RowOf(adapter, a))}]
        /\ pc = "fetching" \/ (pc = "done" /\ answer \in AtOnce(a, o))
  BY <1>1 DEF Request
<1> DEFINE c == [pc |-> pc, id |-> a, options |-> o, basic |-> b,
                 how |-> "nothing", fetched |-> None, answer |-> answer]
<1>3. /\ c \in Call /\ c.id = a /\ c.options = o /\ c.pc = pc
      /\ call' = [call EXCEPT ![k] = c]
      /\ window' = [window EXCEPT ![k] = {Poll(RowOf(adapter, c.id))}]
  BY <1>2 DEF Call
<1>4. c.pc = "fetching" \/ (c.pc = "done" /\ AtOnce(c.id, c.options) # {})
  BY <1>2, <1>3
<1> HIDE DEF c
<1> QED
  BY <1>3, <1>4

LEMMA RequestKeeps ==
  ASSUME MockInv, NEW k \in Callers, Request(k) PROVE MockInv'
<1>1. PICK c \in Call :
        /\ call' = [call EXCEPT ![k] = c] /\ c.pc # "answering"
        /\ window' = [window EXCEPT ![k] = {Poll(RowOf(adapter, c.id))}]
  BY RequestMakes
<1>2. call' \in [Callers -> Call] /\ Found'
  BY <1>1, CallUpdate DEF MockInv, CallInv
<1>3. c.id \in Urls
  BY DEF Call
<1>4. window' \in [Callers -> SUBSET (PollResponse \cup {None})]
  BY <1>1, <1>3, PollTyped DEF MockInv, CallInv
<1>5. UNCHANGED <<vars, posts, called, late>>
  BY DEF Request
<1>6. CatalogueInv'
  BY <1>5, CatalogueInvNext DEF MockInv
<1> QED
  BY <1>2, <1>4, <1>5, <1>6 DEF MockInv, CallInv

LEMMA FetchKeeps ==
  ASSUME MockInv, NEW k \in Callers, Fetch(k) PROVE MockInv'
<1> DEFINE a == call[k].id
<1>1. call[k] \in Call /\ a \in Urls
  BY DEF MockInv, CallInv, Call
<1>2. /\ UNCHANGED <<vars, window, late>>
      /\ posts' = posts \cup {a} /\ called' = called \cup ({a} \cap AdapterIds)
  BY DEF Fetch
<1>3. a = SftpId \/ a \in AdapterIds
  BY DEF Fetch, RowOf
<1>4. call' \in [Callers -> Call] /\ Found'
  <2>1. CASE a = SftpId
    <3> DEFINE c == [call[k] EXCEPT !.pc = "answering", !.how = "sftp"]
    <3>1. c \in Call /\ c.how = "sftp" /\ c.id = SftpId
      BY <1>1, <2>1 DEF Call
    <3>2. call' = [call EXCEPT ![k] = c]
      BY <2>1 DEF Fetch
    <3> HIDE DEF c
    <3> QED
      BY <3>1, <3>2, CallUpdate DEF MockInv, CallInv
  <2>2. CASE a # SftpId
    <3> DEFINE c == [call[k] EXCEPT !.pc = "answering", !.how = "row",
                                    !.fetched = Poll(adapter[a])]
    <3>1. a \in AdapterIds /\ RowOf(adapter, a) = adapter[a] /\ adapter[a] # None
      BY <1>3, <2>2 DEF Fetch, RowOf
    <3>2. Poll(adapter[a]) \in PollResponse
      BY <3>1 DEF MockInv, CatalogueInv, TypeOK, Row, Poll, PollResponse
    <3>3. c \in Call /\ c.how = "row" /\ c.fetched \in PollResponse
      BY <1>1, <3>2 DEF Call
    <3>4. call' = [call EXCEPT ![k] = c]
      BY <2>2 DEF Fetch
    <3> HIDE DEF c
    <3> QED
      BY <3>3, <3>4, CallUpdate DEF MockInv, CallInv
  <2> QED
    BY <2>1, <2>2
<1>5. CatalogueInv'
  BY <1>2, CatalogueInvNext DEF MockInv
<1> QED
  BY <1>2, <1>3, <1>4, <1>5 DEF MockInv, CallInv, Reported

LEMMA FetchFailsKeeps ==
  ASSUME MockInv, NEW k \in Callers, FetchFails(k) PROVE MockInv'
<1>1. PICK why \in {"failed", "nothing"} :
        call' = [call EXCEPT ![k].pc = "done", ![k].how = why, ![k].answer = "not found"]
  BY DEF FetchFails
<1> DEFINE c == [call[k] EXCEPT !.pc = "done", !.how = why, !.answer = "not found"]
<1>2. c \in Call /\ c.pc = "done"
  BY DEF MockInv, CallInv, Call, Answer
<1>3. call' = [call EXCEPT ![k] = c]
  BY <1>1
<1> HIDE DEF c
<1>4. call' \in [Callers -> Call] /\ Found'
  BY <1>2, <1>3, CallUpdate DEF MockInv, CallInv
<1>5. UNCHANGED <<vars, window, posts, called, late>>
  BY DEF FetchFails
<1>6. CatalogueInv'
  BY <1>5, CatalogueInvNext DEF MockInv
<1> QED
  BY <1>4, <1>5, <1>6 DEF MockInv, CallInv

(* What handle answers from a poll response is an answer.                  *)
LEMMA RespondTyped ==
  ASSUME NEW cfg \in PollResponse, NEW b \in BOOLEAN
  PROVE  Respond(cfg, b) \in Answer
BY DEF Respond, PollResponse, Answer

LEMMA ReplyKeeps ==
  ASSUME MockInv, NEW k \in Callers, Reply(k) PROVE MockInv'
<1> DEFINE answer == IF call[k].how = "sftp" THEN RespondSftp(call[k].basic)
                     ELSE Respond(call[k].fetched, call[k].basic)
           c == [call[k] EXCEPT !.pc = "done", !.fetched = None, !.answer = answer]
<1>1. call[k] \in Call /\ call[k].pc = "answering"
  BY DEF Reply, MockInv, CallInv
<1>2. answer \in Answer
  <2>1. CASE call[k].how = "sftp"
    BY <2>1 DEF RespondSftp, Answer
  <2>2. CASE call[k].how # "sftp"
    <3>1. call[k].fetched \in PollResponse /\ call[k].basic \in BOOLEAN
      BY <1>1, <2>2 DEF MockInv, CallInv, Found, Call
    <3> QED
      BY <2>2, <3>1, RespondTyped
  <2> QED
    BY <2>1, <2>2
<1>3. call' = [call EXCEPT ![k] = c]
  BY DEF Reply
<1> HIDE DEF answer
<1>4. c \in Call /\ c.pc = "done"
  BY <1>1, <1>2 DEF Call
<1> HIDE DEF c
<1>5. call' \in [Callers -> Call] /\ Found'
  BY <1>3, <1>4, CallUpdate DEF MockInv, CallInv
<1>6. UNCHANGED <<vars, window, posts, called, late>>
  BY DEF Reply
<1>7. CatalogueInv'
  BY <1>6, CatalogueInvNext DEF MockInv
<1> QED
  BY <1>5, <1>6, <1>7 DEF MockInv, CallInv

LEMMA CatalogueMovesKeeps == MockInv /\ CatalogueMoves => MockInv'
<1> SUFFICES ASSUME MockInv, CatalogueMoves PROVE MockInv'
  OBVIOUS
<1>1. CatalogueInv'
  BY CatalogueStepKeeps DEF MockInv, CatalogueMoves
<1>2. \A k \in Callers : Poll(RowOf(adapter', call[k].id)) \in PollResponse \cup {None}
  BY <1>1 DEF MockInv, CallInv, Call, CatalogueInv, TypeOK, Row, RowOf, Poll, PollResponse
<1>3. window' \in [Callers -> SUBSET (PollResponse \cup {None})]
  BY <1>2 DEF CatalogueMoves, MockInv, CallInv
<1>4. called' \subseteq AdapterIds /\ late' \subseteq AdapterIds
  BY DEF CatalogueMoves, MockInv, Made
<1> QED
  BY <1>1, <1>3, <1>4 DEF CatalogueMoves, MockInv, CallInv, Found

LEMMA PostActivityKeeps ==
  ASSUME MockInv, NEW a \in Reported, PostActivity(a) PROVE MockInv'
<1>1. [Next]_vars
  BY DEF PostActivity, Next
<1>2. CatalogueInv'
  BY <1>1, CatalogueInvNext DEF MockInv
<1> QED
  BY <1>2 DEF PostActivity, MockInv, CallInv, Found

LEMMA MockInvNext == MockInv /\ [MockNext]_mockVars => MockInv'
<1> SUFFICES ASSUME MockInv, [MockNext]_mockVars PROVE MockInv'
  OBVIOUS
<1>1. CASE \E k \in Callers : Request(k) \/ Fetch(k) \/ FetchFails(k) \/ Reply(k)
  BY <1>1, RequestKeeps, FetchKeeps, FetchFailsKeeps, ReplyKeeps
<1>2. CASE SftpConnection
  <2>1. CatalogueInv'
    BY <1>2, CatalogueInvNext DEF SftpConnection, MockInv
  <2> QED
    BY <1>2, <2>1 DEF SftpConnection, MockInv, CallInv, Found, Reported
<1>3. CASE \E a \in Reported : PostActivity(a)
  BY <1>3, PostActivityKeeps
<1>4. CASE UNCHANGED mockVars
  <2>1. CatalogueInv'
    BY <1>4, CatalogueInvNext DEF mockVars, vars, MockInv
  <2> QED
    BY <1>4, <2>1 DEF mockVars, MockInv, CallInv, Found
<1> QED
  BY <1>1, <1>2, <1>3, <1>4, CatalogueMovesKeeps DEF MockNext

LEMMA MockInvInit == MockInit => MockInv
<1> SUFFICES ASSUME MockInit PROVE MockInv
  OBVIOUS
<1>1. CatalogueInv
  BY CatalogueInvInit DEF MockInit
<1> QED
  BY <1>1 DEF MockInit, MockInv, CallInv, Found, Call, Urls, ReservedIds, Answer

LEMMA MockInvAlways == MockSpec => []MockInv
BY MockInvInit, MockInvNext, PTL DEF MockSpec

(* The requests, the rows they may have seen and the reports on their way
   hold values of their types (adapters/mock-http/main.go).                *)
THEOREM MockTyped == MockSpec => []MockTypeOK
<1>1. MockInv => MockTypeOK
  BY DEF MockInv, CallInv, CatalogueInv, MockTypeOK
<1> QED
  BY <1>1, MockInvAlways, PTL

----------------------------------------------------------------------------
(* Activity                                                                *)

(* An adapter shows activity after a step only if it did before, or if a
   report of it was being recorded.                                        *)
ActiveBefore ==
  \A a \in AdapterIds : adapter'[a] # None /\ adapter'[a].active =>
    a \in reports \/ (adapter[a] # None /\ adapter[a].active)

LEMMA InsertActivity ==
  ASSUME CatalogueInv, NEW s \in Slots, InsertAdapter(s) PROVE ActiveBefore
<1> DEFINE h == handler[s]
           row == [scenario |-> h.scenario, name |-> h.name, mode |-> h.mode,
                   config |-> h.config, active |-> FALSE]
<1>1. h.id \in AdapterIds /\ ~row.active
  BY DEF InsertAdapter, At, CatalogueInv, TypeOK, Handler
<1>2. adapter' = adapter \/ adapter' = [adapter EXCEPT ![h.id] = row]
  BY DEF InsertAdapter
<1> HIDE DEF row
<1> QED
  BY <1>1, <1>2 DEF ActiveBefore, CatalogueInv, TypeOK

LEMMA UpdateActivity ==
  ASSUME CatalogueInv, NEW s \in Slots, UpdateAdapter(s) PROVE ActiveBefore
<1> DEFINE h == handler[s]
           row == [adapter[h.id] EXCEPT !.name = h.name, !.mode = h.mode,
                                        !.config = h.config]
<1>1. h.id \in AdapterIds
  BY DEF UpdateAdapter, At, CatalogueInv, TypeOK, Handler
<1>2. CASE adapter[h.id] = None
  BY <1>2 DEF UpdateAdapter, ActiveBefore
<1>3. CASE adapter[h.id] # None
  <2>1. adapter[h.id] \in Row
    BY <1>1, <1>3 DEF CatalogueInv, TypeOK
  <2>2. row.active = adapter[h.id].active
    BY <2>1 DEF Row
  <2>3. adapter' = [adapter EXCEPT ![h.id] = row]
    BY <1>1, <1>3 DEF UpdateAdapter, CatalogueInv, TypeOK
  <2> HIDE DEF row
  <2> QED
    BY <1>1, <1>3, <2>2, <2>3 DEF ActiveBefore, CatalogueInv, TypeOK
<1> QED
  BY <1>2, <1>3

LEMMA RecordedActivity ==
  ASSUME CatalogueInv, NEW a \in Reported, RecordActivity(a)
  PROVE  ActiveBefore /\ reports' \subseteq reports
<1>1. a \in reports /\ reports' \subseteq reports
  BY DEF RecordActivity
<1>2. \A b \in AdapterIds : b # a => adapter'[b] = adapter[b]
  BY ReportEffect DEF CatalogueInv, TypeOK
<1> QED
  BY <1>1, <1>2 DEF ActiveBefore

LEMMA CatalogueStepActivity ==
  ASSUME CatalogueInv, CatalogueStep
  PROVE  ActiveBefore /\ reports' \subseteq reports
<1>1. CASE Restart \/ CreateScenario \/ UpdateScenario
  BY <1>1 DEF Restart, CreateScenario, UpdateScenario, ActiveBefore
<1>2. CASE DeleteScenario
  <2>1. PICK c \in Scenarios : adapter' = Cascade(c)
    BY <1>2 DEF DeleteScenario
  <2> QED
    BY <1>2, <2>1 DEF DeleteScenario, Cascade, ActiveBefore
<1>3. CASE DeleteAdapter
  BY <1>3 DEF DeleteAdapter, ActiveBefore, CatalogueInv, TypeOK
<1>4. CASE \E s \in Slots : Receive(s) \/ CheckScenario(s) \/ ReadExisting(s)
  BY <1>4 DEF Receive, CheckScenario, ReadExisting, ActiveBefore
<1>5. CASE \E s \in Slots : InsertAdapter(s) \/ UpdateAdapter(s)
  <2>1. ActiveBefore
    BY <1>5, InsertActivity, UpdateActivity
  <2> QED
    BY <1>5, <2>1 DEF InsertAdapter, UpdateAdapter
<1>6. CASE \E a \in Reported : RecordActivity(a)
  BY <1>6, RecordedActivity
<1> QED
  BY <1>1, <1>2, <1>3, <1>4, <1>5, <1>6 DEF CatalogueStep, HandlerStep

(* An adapter of which a report is on its way or being recorded has had traffic
   since its row was made, or was made while one was; so had one that shows
   activity.                                                               *)
TrafficInv ==
  /\ posts \cap AdapterIds \subseteq called \cup late
  /\ reports \cap AdapterIds \subseteq called \cup late
  /\ ActivityNeedsTraffic

(* A row that is made has no traffic of its own yet; what is still on its way
   makes it one of "late".                                                 *)
LEMMA CatalogueMovesTraffic ==
  ASSUME MockInv, TrafficInv, CatalogueMoves PROVE TrafficInv'
<1>1. /\ ActiveBefore /\ reports' \subseteq reports /\ posts' = posts
      /\ called' = called \ Made
      /\ late' = (late \ Made) \cup (Made \cap (posts \cup reports))
  BY CatalogueStepActivity DEF CatalogueMoves, MockInv
<1>2. ASSUME NEW a \in AdapterIds, a \in posts \cup reports
      PROVE  a \in called' \cup late'
  BY <1>1, <1>2 DEF TrafficInv
<1>3. ASSUME NEW a \in AdapterIds, adapter'[a] # None, adapter'[a].active
      PROVE  a \in called' \cup late'
  <2>1. CASE a \in reports
    BY <1>2, <2>1
  <2>2. CASE adapter[a] # None /\ adapter[a].active
    BY <1>1, <2>2 DEF TrafficInv, ActivityNeedsTraffic, Made
  <2> QED
    BY <1>1, <1>3, <2>1, <2>2 DEF ActiveBefore
<1> QED
  BY <1>1, <1>2, <1>3 DEF TrafficInv, ActivityNeedsTraffic

LEMMA TrafficNext ==
  ASSUME MockInv, TrafficInv, [MockNext]_mockVars
  PROVE  TrafficInv'
<1>1. CASE CatalogueMoves
  BY <1>1, CatalogueMovesTraffic
<1>2. CASE \E k \in Callers : Fetch(k)
  <2>1. PICK k \in Callers :
          /\ UNCHANGED <<vars, late>> /\ posts' = posts \cup {call[k].id}
          /\ called' = called \cup ({call[k].id} \cap AdapterIds)
    BY <1>2 DEF Fetch
  <2> QED
    BY <2>1 DEF vars, TrafficInv, ActivityNeedsTraffic
<1>3. CASE \E k \in Callers : Request(k) \/ FetchFails(k) \/ Reply(k)
  <2>1. UNCHANGED <<vars, posts, called, late>>
    BY <1>3 DEF Request, FetchFails, Reply
  <2> QED
    BY <2>1 DEF vars, TrafficInv, ActivityNeedsTraffic
<1>4. CASE SftpConnection
  BY <1>4 DEF SftpConnection, vars, TrafficInv, ActivityNeedsTraffic
<1>5. CASE \E a \in Reported : PostActivity(a)
  <2>1. PICK a \in posts :
          /\ posts' \subseteq posts /\ called' = called /\ late' = late
          /\ adapter' = adapter /\ reports' \subseteq reports \cup {a}
    BY <1>5 DEF PostActivity, ReceiveReport, vars
  <2> QED
    BY <2>1 DEF TrafficInv, ActivityNeedsTraffic
<1>6. CASE UNCHANGED mockVars
  BY <1>6 DEF mockVars, TrafficInv, ActivityNeedsTraffic
<1> QED
  BY <1>1, <1>2, <1>3, <1>4, <1>5, <1>6 DEF MockNext

(* RecordActivity (store.go): an adapter, whatever its id, shows activity only
   if it has had traffic since its row was made, or was made while a report of
   an earlier adapter with its id was still on its way.                    *)
THEOREM ActivityAccounted == MockSpec => []ActivityNeedsTraffic
<1>1. MockInit => TrafficInv
  BY DEF MockInit, Init, TrafficInv, ActivityNeedsTraffic
<1>2. MockInv /\ TrafficInv /\ [MockNext]_mockVars => TrafficInv'
  BY TrafficNext
<1>3. TrafficInv => ActivityNeedsTraffic
  BY DEF TrafficInv
<1> QED
  BY <1>1, <1>2, <1>3, MockInvAlways, PTL DEF MockSpec

----------------------------------------------------------------------------
(* Answers                                                                 *)

(* The answer a row gives.                                                 *)
AnswerOf(r, basic) == IF r = None THEN "not found" ELSE Respond(r, basic)

(* A request in progress has seen the row as it is, and what it fetched; one
   that is done has seen the row that accounts for its answer.             *)
AnswerInv ==
  \A k \in Callers : call[k].id \in AdapterIds \ ReservedIds /\ ~call[k].options =>
    /\ call[k].pc \in {"fetching", "answering"} =>
          Poll(RowOf(adapter, call[k].id)) \in window[k]
    /\ call[k].pc = "answering" =>
          call[k].how = "row" /\ call[k].fetched \in window[k]
    /\ call[k].pc = "done" /\ call[k].how # "failed" =>
          \E r \in window[k] : call[k].answer = AnswerOf(r, call[k].basic)

(* A caller's own step is all there is to look at.                         *)
LEMMA OthersKeepAnswers ==
  ASSUME MockInv, AnswerInv, NEW k \in Callers, NEW c \in Call, NEW w,
         call' = [call EXCEPT ![k] = c], window' = [window EXCEPT ![k] = w],
         adapter' = adapter,
         c.id \in AdapterIds \ ReservedIds /\ ~c.options =>
           /\ c.pc \in {"fetching", "answering"} => Poll(RowOf(adapter, c.id)) \in w
           /\ c.pc = "answering" => c.how = "row" /\ c.fetched \in w
           /\ c.pc = "done" /\ c.how # "failed" =>
                 \E r \in w : c.answer = AnswerOf(r, c.basic)
  PROVE  AnswerInv'
<1> SUFFICES ASSUME NEW j \in Callers, call'[j].id \in AdapterIds \ ReservedIds,
                    ~call'[j].options
             PROVE  /\ call'[j].pc \in {"fetching", "answering"} =>
                          Poll(RowOf(adapter', call'[j].id)) \in window'[j]
                    /\ call'[j].pc = "answering" =>
                          call'[j].how = "row" /\ call'[j].fetched \in window'[j]
                    /\ call'[j].pc = "done" /\ call'[j].how # "failed" =>
                          \E r \in window'[j] :
                             call'[j].answer = AnswerOf(r, call'[j].basic)
  BY DEF AnswerInv, AnswerOf, Respond
<1>1. CASE j = k
  <2>1. call'[j] = c /\ window'[j] = w
    BY <1>1 DEF MockInv, CallInv
  <2> QED
    BY <2>1
<1>2. CASE j # k
  <2>1. call'[j] = call[j] /\ window'[j] = window[j]
    BY <1>2 DEF MockInv, CallInv
  <2> QED
    BY <2>1 DEF AnswerInv
<1> QED
  BY <1>1, <1>2

LEMMA RequestAnswers ==
  ASSUME MockInv, AnswerInv, NEW k \in Callers, Request(k)
  PROVE  AnswerInv'
<1>1. PICK c \in Call :
        /\ call' = [call EXCEPT ![k] = c]
        /\ window' = [window EXCEPT ![k] = {Poll(RowOf(adapter, c.id))}]
        /\ c.pc = "fetching" \/ (c.pc = "done" /\ AtOnce(c.id, c.options) # {})
  BY RequestMakes
<1>2. c.id \notin ReservedIds /\ ~c.options => c.pc = "fetching"
  BY <1>1 DEF AtOnce, ReservedIds
<1>3. adapter' = adapter
  BY DEF Request, vars
<1> QED
  BY <1>1, <1>2, <1>3, OthersKeepAnswers

LEMMA FetchAnswers ==
  ASSUME MockInv, AnswerInv, NEW k \in Callers, Fetch(k)
  PROVE  AnswerInv'
<1> DEFINE a == call[k].id
<1>1. /\ call[k] \in Call /\ a \in Urls /\ call[k].pc = "fetching"
      /\ window \in [Callers -> SUBSET (PollResponse \cup {None})]
  BY DEF Fetch, MockInv, CallInv, Call
<1>2. adapter' = adapter /\ window' = [window EXCEPT ![k] = window[k]]
  BY <1>1 DEF Fetch, vars
<1>3. CASE a = SftpId
  <2> DEFINE c == [call[k] EXCEPT !.pc = "answering", !.how = "sftp"]
  <2>1. c \in Call /\ c.id \in ReservedIds
    BY <1>1, <1>3 DEF Call, ReservedIds
  <2>2. call' = [call EXCEPT ![k] = c]
    BY <1>3 DEF Fetch
  <2> HIDE DEF c
  <2> QED
    BY <1>2, <2>1, <2>2, OthersKeepAnswers
<1>4. CASE a # SftpId
  <2> DEFINE c == [call[k] EXCEPT !.pc = "answering", !.how = "row",
                                  !.fetched = Poll(adapter[a])]
  <2>1. a \in AdapterIds /\ RowOf(adapter, a) = adapter[a] /\ adapter[a] # None
    BY <1>4 DEF Fetch, RowOf
  <2>2. Poll(adapter[a]) \in PollResponse
    BY <2>1 DEF MockInv, CatalogueInv, TypeOK, Row, Poll, PollResponse
  <2>3. /\ c \in Call /\ c.id = a /\ c.options = call[k].options /\ c.pc = "answering"
        /\ c.how = "row" /\ c.fetched = Poll(adapter[a])
    BY <1>1, <2>2 DEF Call
  <2>4. call' = [call EXCEPT ![k] = c]
    BY <1>4 DEF Fetch
  <2>5. a \notin ReservedIds /\ ~c.options => Poll(adapter[a]) \in window[k]
    BY <1>1, <2>1, <2>3 DEF AnswerInv
  <2> HIDE DEF c
  <2> QED
    BY <1>2, <2>1, <2>3, <2>4, <2>5, OthersKeepAnswers
<1> QED
  BY <1>3, <1>4

LEMMA FetchFailsAnswers ==
  ASSUME MockInv, AnswerInv, NEW k \in Callers, FetchFails(k) PROVE AnswerInv'
<1>1. PICK why \in {"failed", "nothing"} :
        /\ call' = [call EXCEPT ![k].pc = "done", ![k].how = why, ![k].answer = "not found"]
        /\ why = "nothing" => RowOf(adapter, call[k].id) = None
  BY DEF FetchFails
<1> DEFINE c == [call[k] EXCEPT !.pc = "done", !.how = why, !.answer = "not found"]
<1>2. /\ call[k] \in Call /\ call[k].pc = "fetching"
      /\ window \in [Callers -> SUBSET (PollResponse \cup {None})]
  BY DEF FetchFails, MockInv, CallInv
<1>3. /\ c \in Call /\ c.id = call[k].id /\ c.options = call[k].options /\ c.pc = "done"
      /\ c.how = why /\ c.answer = "not found"
  BY <1>2 DEF Call, Answer
<1>4. call' = [call EXCEPT ![k] = c]
  BY <1>1
<1>5. adapter' = adapter /\ window' = [window EXCEPT ![k] = window[k]]
  BY <1>2 DEF FetchFails, vars
<1>6. c.id \in AdapterIds \ ReservedIds /\ ~c.options /\ why = "nothing" => None \in window[k]
  BY <1>1, <1>2, <1>3 DEF AnswerInv, Poll
<1> HIDE DEF c
<1>7. AnswerOf(None, c.basic) = "not found"
  BY DEF AnswerOf
<1> QED
  BY <1>3, <1>4, <1>5, <1>6, <1>7, OthersKeepAnswers

LEMMA ReplyAnswers ==
  ASSUME MockInv, AnswerInv, NEW k \in Callers, Reply(k) PROVE AnswerInv'
<1> DEFINE answer == IF call[k].how = "sftp" THEN RespondSftp(call[k].basic)
                     ELSE Respond(call[k].fetched, call[k].basic)
           c == [call[k] EXCEPT !.pc = "done", !.fetched = None, !.answer = answer]
<1>1. /\ call[k] \in Call /\ call[k].pc = "answering" /\ call[k].basic \in BOOLEAN
      /\ window \in [Callers -> SUBSET (PollResponse \cup {None})]
  BY DEF Reply, MockInv, CallInv, Call
<1>2. call[k].how # "sftp" =>
        call[k].fetched \in PollResponse /\ call[k].fetched # None
  BY <1>1, NoPollAssumption DEF MockInv, CallInv, Found
<1>3. answer \in Answer
  BY <1>1, <1>2, RespondTyped DEF RespondSftp, Answer
<1>4. call[k].id \in AdapterIds \ ReservedIds /\ ~call[k].options =>
        /\ call[k].fetched \in window[k]
        /\ answer = AnswerOf(call[k].fetched, call[k].basic)
  BY <1>1, <1>2 DEF AnswerInv, AnswerOf
<1>5. call' = [call EXCEPT ![k] = c]
  BY DEF Reply
<1>6. adapter' = adapter /\ window' = [window EXCEPT ![k] = window[k]]
  BY <1>1 DEF Reply, vars
<1> HIDE DEF answer
<1>7. /\ c \in Call /\ c.id = call[k].id /\ c.options = call[k].options /\ c.pc = "done"
      /\ c.basic = call[k].basic /\ c.answer = answer
  BY <1>1, <1>3 DEF Call
<1> HIDE DEF c
<1> QED
  BY <1>4, <1>5, <1>6, <1>7, OthersKeepAnswers

LEMMA CatalogueMovesAnswers ==
  ASSUME MockInv, AnswerInv, CatalogueMoves PROVE AnswerInv'
<1>1. call' = call /\ window' = [k \in Callers |->
        IF call[k].pc \in {"fetching", "answering"}
          THEN window[k] \cup {Poll(RowOf(adapter', call[k].id))} ELSE window[k]]
  BY DEF CatalogueMoves
<1> SUFFICES ASSUME NEW k \in Callers, call[k].id \in AdapterIds \ ReservedIds,
                    ~call[k].options
             PROVE  /\ call[k].pc \in {"fetching", "answering"} =>
                          Poll(RowOf(adapter', call[k].id)) \in window'[k]
                    /\ call[k].pc = "answering" =>
                          call[k].how = "row" /\ call[k].fetched \in window'[k]
                    /\ call[k].pc = "done" /\ call[k].how # "failed" =>
                          \E r \in window'[k] :
                             call[k].answer = AnswerOf(r, call[k].basic)
  BY <1>1 DEF AnswerInv, AnswerOf, Respond
<1> QED
  BY <1>1 DEF AnswerInv

LEMMA AnswersNext ==
  ASSUME MockInv, AnswerInv, [MockNext]_mockVars
  PROVE  AnswerInv'
<1>1. CASE \E k \in Callers : Request(k) \/ Fetch(k) \/ FetchFails(k) \/ Reply(k)
  BY <1>1, RequestAnswers, FetchAnswers, FetchFailsAnswers, ReplyAnswers
<1>2. CASE CatalogueMoves
  BY <1>2, CatalogueMovesAnswers
<1>3. CASE SftpConnection \/ (\E a \in Reported : PostActivity(a)) \/ UNCHANGED mockVars
  <2>1. UNCHANGED <<call, window, adapter>>
    BY <1>3 DEF SftpConnection, PostActivity, ReceiveReport, vars, mockVars
  <2> QED
    BY <2>1 DEF AnswerInv, AnswerOf, Respond
<1> QED
  BY <1>1, <1>2, <1>3 DEF MockNext

(* models.go:23, adapters/mock-http/main.go handle: unless its method is OPTIONS
   or its id a reserved word, a request to an adapter's URL is answered as a row
   says that the adapter had while the request ran.                        *)
THEOREM AnswersAccounted == MockSpec => []AnswerIsTheAdapters
<1>1. MockInit => AnswerInv
  BY DEF MockInit, AnswerInv
<1>2. MockInv /\ AnswerInv /\ [MockNext]_mockVars => AnswerInv'
  BY AnswersNext
<1>3. AnswerInv => AnswerIsTheAdapters
  BY DEF AnswerInv, AnswerIsTheAdapters, AnswerOf
<1> QED
  BY <1>1, <1>2, <1>3, MockInvAlways, PTL DEF MockSpec
============================================================================
