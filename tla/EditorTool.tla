------------------------------ MODULE EditorTool ------------------------------
(* The four pages built on EditorPanel - the XML and JSON formatters, the XSD *)
(* generator and the converter - with the panel's button that loads an asset. *)
(* The button that saves one is among the forms of RowForms; the wording of   *)
(* errors is left out.                                                        *)
EXTENDS UseWorker

CONSTANTS Docs,         \* what an editor may hold
          Empty         \* the document that trims to nothing

ASSUME EditorDocs == Empty \in Docs

Converter == {"xml-to-json", "json-to-xml"}
Dirs == Converter \cup {"format-xml", "format-json", "xsd"}

InputType(dir) == IF dir \in {"json-to-xml", "format-json"} THEN "json" ELSE "xml"
OutputType(dir) == IF dir \in {"xml-to-json", "format-json"} THEN "json" ELSE "xml"

Conversions == [dir : Dirs, doc : Docs \ {Empty}]

ASSUME EditorRequests == Nothing \notin Conversions

VARIABLE ed             \* the page

edVars == <<ed>>

Shut == [open |-> FALSE, list |-> {}, asked |-> Nothing]

EditorInit ==
    \E dir \in Dirs \ {"json-to-xml"} :
        ed = [dir |-> dir, input |-> Empty, output |-> Nothing, warned |-> Nothing,
              worker |-> Idle, picker |-> Shut]

(* onInputChange: what is typed, a sample or a loaded asset.                  *)
WithInput(p, doc) == [p EXCEPT !.input = doc, !.output = Nothing, !.warned = Nothing]

EditInput == \E doc \in Docs : ed' = WithInput(ed, doc)

ClearEditor == ed' = WithInput(ed, Empty)

(* Slip: the direction changes under the output.                              *)
Relabelled(p, dir) == [p EXCEPT !.dir = dir, !.input = Empty]

Redirected(p, dir) == [WithInput(p, Empty) EXCEPT !.dir = dir]

ChooseDirection ==
    /\ ed.dir \in Converter
    /\ \E dir \in Converter : ed' = Redirected(ed, dir)

(* Slip: the emphasised button is not disabled while loading.                 *)
HasInput(p) == p.input # Empty

CanRun(p) == p.input # Empty /\ ~p.worker.loading

(* The old output stays until the answer comes; the warnings do not.          *)
Convert ==
    /\ CanRun(ed)
    /\ ed' = [ed EXCEPT !.worker = Posted(@, [dir |-> ed.dir, doc |-> ed.input]),
                        !.warned = Nothing]

(* The answer is shown whatever was typed or chosen since.                    *)
EditorArrives ==
    \E i \in DOMAIN ed.worker.flight, ok \in BOOLEAN :
        ed' = [ed EXCEPT !.worker = Ended(@, i, ok),
                         !.output = IF ok THEN ed.worker.flight[i] ELSE @,
                         !.warned = IF ok THEN ed.worker.flight[i] ELSE @]

(* LoadFromAssetButton                                                        *)
TogglePicker ==
    /\ ed.picker.asked = Nothing
    /\ ed' = [ed EXCEPT !.picker = IF @.open THEN [@ EXCEPT !.open = FALSE]
                                   ELSE [@ EXCEPT !.asked = InputType(ed.dir)]]

(* The assets of the type asked for, whichever there are; a failed request    *)
(* opens the old list under its error.                                        *)
PickerArrives ==
    /\ ed.picker.asked # Nothing
    /\ \E ok \in BOOLEAN, found \in SUBSET (Docs \ {Empty}) :
         ed' = [ed EXCEPT !.picker = [open |-> TRUE, asked |-> Nothing,
                  list |-> IF ok THEN found ELSE @.list]]

PickAsset ==
    /\ ed.picker.open
    /\ \E doc \in ed.picker.list : ed' = [WithInput(ed, doc) EXCEPT !.picker.open = FALSE]

ClosePicker ==
    /\ ed.picker.open
    /\ ed' = [ed EXCEPT !.picker.open = FALSE]

LoadButton == TogglePicker \/ PickerArrives \/ PickAsset \/ ClosePicker

EditorPanel == EditInput \/ ClearEditor \/ Convert \/ EditorArrives \/ LoadButton

EditorNext == EditorPanel \/ ChooseDirection

(* Every request is answered or fails.                                        *)
EditorFairness == WF_edVars(EditorArrives) /\ WF_edVars(PickerArrives)

EditorSpec == EditorInit /\ [][EditorNext]_edVars /\ EditorFairness

EditorTypeOK ==
    /\ ed.dir \in Dirs /\ ed.input \in Docs
    /\ {ed.output, ed.warned} \subseteq Conversions \cup {Nothing}
    /\ WorkerOf(ed.worker, Conversions)
    /\ ed.picker \in [open : BOOLEAN, list : SUBSET Docs,
                      asked : {"xml", "json", Nothing}]

(* The output is typed by the direction of now, not by that of its request.   *)
Mislabelled(p) == p.output # Nothing /\ OutputType(p.output.dir) # OutputType(p.dir)

Panel == INSTANCE LastAnswer WITH pending <- Awaited(ed.worker), shown <- ed.output,
                                  Keeps <- TRUE

(* The output is the answer to the last text submitted, whatever was typed,   *)
(* loaded, chosen or cleared while it was awaited (EditorPanel.tsx).          *)
EditorShowsLastAnswer == Panel!Spec

(* An output never gets the file name, the label and the asset type of the    *)
(* other format by a change of direction: only a conversion that was under    *)
(* way when the direction changed can come out mislabelled (Converter.tsx).   *)
ToggleNeverMislabels ==
    [][Mislabelled(ed') => Mislabelled(ed)
         \/ \E i \in DOMAIN ed.worker.flight :
               OutputType(ed.worker.flight[i].dir) # OutputType(ed.dir)]_ed
===============================================================================
