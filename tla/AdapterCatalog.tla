--------------------------- MODULE AdapterCatalog ---------------------------
(***************************************************************************)
(* The catalogue of mock adapters as its users understand it: scenarios    *)
(* own adapters, an adapter never leaves its scenario, an edit only ever   *)
(* touches an adapter that is there, and deleting a scenario takes all its *)
(* adapters with it in one go.                                             *)
(***************************************************************************)
CONSTANTS Scenarios, AdapterIds, Names, Modes, Configs, None

VARIABLES scenario, adapter

vars == <<scenario, adapter>>

Init ==
  /\ scenario = [c \in Scenarios |-> None]
  /\ adapter = [a \in AdapterIds |-> None]

AddScenario(c, n) ==
  /\ scenario[c] = None
  /\ scenario' = [scenario EXCEPT ![c] = n]
  /\ UNCHANGED adapter

RenameScenario(c, n) ==
  /\ scenario[c] # None
  /\ scenario' = [scenario EXCEPT ![c] = n]
  /\ UNCHANGED adapter

DropScenario(c) ==
  /\ scenario[c] # None
  /\ scenario' = [scenario EXCEPT ![c] = None]
  /\ adapter' = [a \in AdapterIds |->
       IF adapter[a] # None /\ adapter[a].scenario = c THEN None ELSE adapter[a]]

AddAdapter(a, c, n, m, g) ==
  /\ scenario[c] # None
  /\ adapter[a] = None
  /\ adapter' = [adapter EXCEPT ![a] = [scenario |-> c, name |-> n, mode |-> m,
                                        config |-> g, active |-> FALSE]]
  /\ UNCHANGED scenario

EditAdapter(a, n, m, g) ==
  /\ adapter[a] # None
  /\ adapter' = [adapter EXCEPT ![a].name = n, ![a].mode = m, ![a].config = g]
  /\ UNCHANGED scenario

MarkActive(a) ==
  /\ adapter[a] # None
  /\ adapter' = [adapter EXCEPT ![a].active = TRUE]
  /\ UNCHANGED scenario

DropAdapter(a) ==
  /\ adapter[a] # None
  /\ adapter' = [adapter EXCEPT ![a] = None]
  /\ UNCHANGED scenario

Next ==
  \/ \E c \in Scenarios :
       DropScenario(c) \/ \E n \in Names : AddScenario(c, n) \/ RenameScenario(c, n)
  \/ \E a \in AdapterIds :
       \/ DropAdapter(a) \/ MarkActive(a)
       \/ \E n \in Names, m \in Modes, g \in Configs :
            EditAdapter(a, n, m, g) \/ \E c \in Scenarios : AddAdapter(a, c, n, m, g)

Spec == Init /\ [][Next]_vars
=============================================================================
