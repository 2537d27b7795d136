------------------------------- MODULE RowForms -------------------------------
(* The pages that list rows the server keeps and have one form to add or to   *)
(* change a row: the dialog of the CPI instances, the mock endpoints, the     *)
(* lookup tables, the asset store, and the button that saves an asset.  A row *)
(* is its id; what the fields hold is the row they were filled from.  The     *)
(* dialog's check box "Logging" shares nothing with the instances but the     *)
(* opening, so it is a page of its own, whose row is the setting if it is on. *)
EXTENDS WebPage

CONSTANTS RowIds,       \* ids the server gives out
          MaxCalls      \* requests in flight

Logging == "logging"

ASSUME RowsAreNoNull == \A rows \in SUBSET (RowIds \cup {Logging}) : rows # Nothing

RowPages == {"settings", "switch", "mock", "tables", "assets", "button"}

TableOf(page) == IF page = "switch" THEN {Logging} ELSE RowIds

VARIABLE rf             \* the page, the server's rows, and the requests in flight

rowVars == <<rf>>

Unserved == Nothing     \* the answer of a request that has not been served

Call(op, to, from) == [op |-> op, to |-> to, from |-> from, got |-> Unserved]
Read == Call("read", Nothing, Nothing)

Calls == [op : {"read", "save", "scene", "delete", "on", "off"}, to : RowIds \cup {Nothing},
          from : RowIds \cup {Nothing}, got : (SUBSET (RowIds \cup {Logging})) \cup {Unserved}]

(* "clean" is history: requests were served and answered in the order they    *)
(* were sent, none failed, nobody else changed the rows, and the box was not  *)
(* used while it was read.                                                    *)
RowInit ==
    \E page \in RowPages : \E rows \in SUBSET TableOf(page) :
        rf = [page |-> page, open |-> page \notin {"settings", "switch"}, rows |-> rows, list |-> {},
              shown |-> FALSE, editing |-> Nothing, from |-> Nothing, saving |-> FALSE,
              loading |-> page = "mock", failed |-> FALSE, clean |-> TRUE,
              flight |-> IF page \in {"settings", "switch", "button"} THEN <<>> ELSE <<Read>>]

(* load: setLoading(true), setError('').  Only the page of the mocks shows    *)
(* nothing while it loads or has failed: the others' flags are left out.      *)
Reloading(p) == [p EXCEPT !.flight = Append(@, Read), !.loading = p.page = "mock", !.failed = FALSE]

CanCall(p) == Len(p.flight) < MaxCalls

Visible(p) == p.open /\ ~p.loading /\ ~p.failed

(* Where there is one view at a time, the list is hidden by the form.         *)
ListVisible(p) == Visible(p) /\ (p.page = "settings" => ~p.shown)

OpenSettings ==
    /\ ~rf.open /\ CanCall(rf)
    /\ rf' = [Reloading(rf) EXCEPT !.open = TRUE, !.shown = FALSE]

handleClose ==
    /\ rf.open
    /\ rf' = [rf EXCEPT !.open = FALSE, !.shown = FALSE]

(* The page of the assets is unmounted with its tab; what its requests under  *)
(* way still do on the server is a change by someone else.                    *)
Remount ==
    rf' = [rf EXCEPT !.list = {}, !.shown = FALSE, !.saving = FALSE, !.from = Nothing,
                     !.flight = <<Read>>]

Refresh == Visible(rf) /\ CanCall(rf) /\ rf' = Reloading(rf)

(* Slip: the row edited before stays the row of the form.                     *)
FieldsEmptied(p) == [p EXCEPT !.shown = TRUE, !.from = Nothing]

FormOpened(p) == [p EXCEPT !.shown = TRUE, !.editing = Nothing, !.from = Nothing]

openNew ==
    /\ Visible(rf)
    /\ rf.page # "mock" => ~rf.shown
    /\ rf' = FormOpened(rf)

openEdit ==
    /\ ListVisible(rf)
    /\ \E id \in rf.list :
         rf' = [rf EXCEPT !.shown = TRUE, !.editing = id, !.from = id]

cancel ==
    /\ rf.shown /\ Visible(rf)
    /\ rf' = [rf EXCEPT !.shown = FALSE, !.editing = IF rf.page = "mock" THEN Nothing ELSE @]

(* The save button is disabled while saving; Enter in the name of an asset is *)
(* not.  A form that is incomplete or invalid sends nothing.                  *)
CanSave(p) == p.shown /\ Visible(p) /\ (p.saving => p.page = "button")

save ==
    /\ CanSave(rf) /\ CanCall(rf)
    /\ rf' = [rf EXCEPT !.saving = TRUE, !.flight = Append(@, Call("save", rf.editing, rf.from))]

(* The form of a new scenario shares the flag of the mocks' form.             *)
createScenario ==
    /\ Visible(rf) /\ ~rf.saving /\ CanCall(rf)
    /\ rf' = [rf EXCEPT !.saving = TRUE, !.flight = Append(@, Call("scene", Nothing, Nothing))]

deleteRow ==
    /\ ListVisible(rf) /\ CanCall(rf)
    /\ \E id \in rf.list : rf' = [rf EXCEPT !.flight = Append(@, Call("delete", id, Nothing))]

ReadUnderWay == \E i \in DOMAIN rf.flight : rf.flight[i].op = "read"

(* A click on "Logging": the box moves at once, the setting is sent, and      *)
(* nobody looks at the answer.                                                *)
putSetting ==
    /\ rf.open /\ CanCall(rf)
    /\ LET on == rf.list = {} IN
       rf' = [rf EXCEPT !.list = IF on THEN {Logging} ELSE {}, !.clean = @ /\ ~ReadUnderWay,
                !.flight = Append(@, Call(IF on THEN "on" ELSE "off", Nothing, Nothing))]

SettingsDialog ==
    \/ rf.page = "switch" /\ (OpenSettings \/ handleClose \/ putSetting)
    \/ /\ rf.page = "settings"
       /\ OpenSettings \/ handleClose \/ openNew \/ openEdit \/ cancel \/ save \/ deleteRow

MockService ==
    /\ rf.page = "mock"
    /\ Refresh \/ openNew \/ openEdit \/ cancel \/ save \/ createScenario \/ deleteRow

LookupTables ==
    rf.page = "tables" /\ (Refresh \/ openNew \/ openEdit \/ cancel \/ save \/ deleteRow)

AssetStore ==
    rf.page = "assets" /\ (Remount \/ Refresh \/ openNew \/ cancel \/ save \/ deleteRow)

SaveToAssetsButton == rf.page = "button" /\ (openNew \/ cancel \/ save)

(* The row a save writes: the one it names, if it is there, or a new one.     *)
Written(rows, rq) == IF rq.to = Nothing THEN RowIds \ rows ELSE {rq.to} \cap rows

InOrder(p, i) == \A j \in 1 .. i - 1 : p.flight[j].got # Unserved

Served(p, i, rows, got) ==
    [p EXCEPT !.rows = rows, !.flight[i].got = got, !.clean = @ /\ InOrder(p, i)]

(* The server takes up a request.                                             *)
RowServe ==
    \E i \in DOMAIN rf.flight :
        LET rq == rf.flight[i] IN
        /\ rq.got = Unserved
        /\ \/ rq.op = "read" /\ rf' = Served(rf, i, rf.rows, rf.rows)
           \/ /\ rq.op \in {"save", "scene"}
              /\ \E id \in Written(rf.rows, rq) :
                    rf' = Served(rf, i, rf.rows \cup {id}, {id})
           \/ rq.op = "delete" /\ rf' = Served(rf, i, rf.rows \ {rq.to}, {})
           \/ rq.op = "on" /\ rf' = Served(rf, i, {Logging}, {})
           \/ rq.op = "off" /\ rf' = Served(rf, i, {}, {})

(* Someone else adds or deletes a row.                                        *)
RowsMove ==
    \E id \in TableOf(rf.page) :
        \E rows \in {rf.rows \cup {id}, rf.rows \ {id}} :
            rf' = [rf EXCEPT !.rows = rows, !.clean = FALSE]

(* Slip: a save closes the form and the page goes on with the list it has.    *)
WithoutReload(p, rq) == [p EXCEPT !.shown = FALSE, !.saving = FALSE]

(* What the answer of a save does: the dialog takes the row into its list,    *)
(* the pages read theirs again.  Whichever form is open by now is closed.     *)
SaveAnswered(p, rq) ==
    LET closed == [p EXCEPT !.shown = FALSE, !.saving = FALSE] IN
    CASE p.page = "settings" -> [closed EXCEPT !.list = IF rq.to = Nothing THEN @ \cup rq.got ELSE @]
      [] p.page = "mock" -> [Reloading(closed) EXCEPT !.from = Nothing,
                                !.editing = IF rq.to = Nothing THEN @ ELSE Nothing]
      [] p.page = "button" -> closed
      [] OTHER -> Reloading(closed)

RowAnswered(p, rq) ==
    CASE rq.op = "read" -> [p EXCEPT !.list = rq.got, !.loading = FALSE]
      [] rq.op = "save" -> SaveAnswered(p, rq)
      [] rq.op = "scene" -> Reloading([p EXCEPT !.saving = FALSE])
      [] rq.op = "delete" ->
            IF p.page = "settings" THEN [p EXCEPT !.list = @ \ {rq.to}] ELSE Reloading(p)
      [] OTHER -> p

RowFailed(p, rq) ==
    CASE rq.op = "read" -> [p EXCEPT !.loading = FALSE, !.failed = p.page = "mock", !.clean = FALSE]
      [] rq.op \in {"save", "scene"} -> [p EXCEPT !.saving = FALSE, !.clean = FALSE]
      [] OTHER -> [p EXCEPT !.clean = FALSE]

(* An answer, an error status or a lost connection, in any order; settings    *)
(* answered with an error status are taken for none.                          *)
RowSettles(i) ==
    /\ i \in DOMAIN rf.flight
    /\ LET rq == rf.flight[i]
           p == [rf EXCEPT !.flight = RemoveAt(@, i), !.clean = @ /\ i = 1]
       IN  \/ rq.got # Unserved /\ rf' = RowAnswered(p, rq)
           \/ rf' = RowFailed(p, rq)
           \/ rf.page = "switch" /\ rq.op = "read" /\ rf' = [RowFailed(p, rq) EXCEPT !.list = {}]

RowArrives == \E i \in DOMAIN rf.flight : RowSettles(i)

RowNext ==
    \/ SettingsDialog \/ MockService \/ LookupTables \/ AssetStore \/ SaveToAssetsButton
    \/ RowServe \/ RowsMove \/ RowArrives

(* A request is answered or fails, the oldest one too.                        *)
RowFairness == WF_rowVars(RowSettles(1))

RowSpec == RowInit /\ [][RowNext]_rowVars /\ RowFairness

RowTypeOK ==
    /\ rf.page \in RowPages
    /\ {rf.open, rf.shown, rf.saving, rf.loading, rf.failed, rf.clean} \subseteq BOOLEAN
    /\ {rf.editing, rf.from} \subseteq RowIds \cup {Nothing}
    /\ rf.rows \subseteq TableOf(rf.page) /\ rf.list \subseteq TableOf(rf.page)
    /\ \A i \in DOMAIN rf.flight : rf.flight[i] \in Calls

(* A form writes the row its fields were filled from, and an empty one adds a *)
(* row, however opening, cancelling, saving and the answers of earlier saves  *)
(* interleave: no row is overwritten with the values of another and none is   *)
(* doubled (SettingsDialog.tsx, MockService.tsx, LookupTables.tsx).           *)
FormsWriteTheirRow ==
    /\ rf.shown /\ rf.open => rf.editing = rf.from
    /\ \A i \in DOMAIN rf.flight : rf.flight[i].op = "save" => rf.flight[i].to = rf.flight[i].from

(* When nothing is in flight a page lists the server's rows, after whatever   *)
(* it has saved and deleted, unless requests overtook each other, one failed  *)
(* or someone else wrote.  The dialog keeps its list by hand, and its box     *)
(* shows the setting, unless it was used while the setting was read           *)
(* (SettingsDialog.tsx, MockService.tsx, LookupTables.tsx, AssetStore.tsx).   *)
ListAtRestIsTable ==
    rf.flight = <<>> /\ rf.clean /\ rf.open /\ rf.page # "button" => rf.list = rf.rows
===============================================================================
