------------------------------- MODULE TestData -------------------------------
(* The page "Test Data": a sample XML or an XSD is analysed for its fields,   *)
(* the fields to vary are chosen, and documents are generated as a ZIP or     *)
(* saved as assets.  An XSD stands for the template made of it.  The lookup   *)
(* tables offered, the repeat points and what is said of a download or a      *)
(* saved batch that is done or failed are left out.                           *)
EXTENDS UseWorker, Integers, FiniteSets

CONSTANTS Schemas,      \* what the text area may hold
          NoSchema,     \* the text that trims to nothing
          PathsOf,      \* [Schemas -> SUBSET paths]: the fields an analysis finds
          MaxDocs,      \* rows or documents a CSV has
          MaxTasks      \* templates, ZIPs and batches in flight together

ASSUME TestDocs == NoSchema \in Schemas /\ DOMAIN PathsOf = Schemas
ASSUME TestCounts == MaxDocs \in 1 .. 1000 /\ MaxTasks \in Nat \ {0}

NotANumber == -1000000

(* What the field "Number of documents" may be read as.                       *)
TypedCounts == {NotANumber, -1, 0, 1, 1000, 1001}
MaxCount == 1000

Modes == {"xml", "xsd"}
Csvs == {"none", "bad", "flat", "nested"}
Settings == {"random", "other"}
Paths == UNION {PathsOf[d] : d \in Schemas}

VARIABLES td,           \* the page
          stale         \* history: the text changed while it was analysed

tdVars == <<td, stale>>

(* Card 4 with its own state; it is mounted while there are fields.           *)
Closed == [open |-> FALSE, saving |-> FALSE, batches |-> <<>>]

FirstForm(mode) ==
    [mode |-> mode, content |-> NoSchema, synth |-> Nothing, fields |-> {}, selected |-> {},
     configs |-> <<>>, csv |-> "none"]

TdInit ==
    /\ td = [form |-> FirstForm("xml"), analysis |-> Idle, zip |-> 0, template |-> FALSE,
             saves |-> Closed]
    /\ stale = FALSE

Pending == td.analysis.flight # <<>>

templateXML == IF td.form.mode = "xml" THEN td.form.content ELSE td.form.synth

csvActive == td.form.csv \in {"flat", "nested"}

(* The clear of the mode switch goes further than that of the button.         *)
switchMode ==
    /\ \E mode \in Modes :
          td' = [td EXCEPT !.form = FirstForm(mode), !.saves = Closed]
    /\ stale' = (stale \/ Pending)

ClearAll ==
    /\ td.form.fields # {}
    /\ td' = [td EXCEPT !.form = FirstForm(td.form.mode), !.saves = Closed]
    /\ stale' = (stale \/ Pending)

(* Typed or loaded from the assets: the fields go, what was chosen of them    *)
(* and the template stay.                                                     *)
EditContent ==
    /\ \E doc \in Schemas : td' = [td EXCEPT !.form.content = doc, !.form.fields = {},
                                          !.saves = Closed]
    /\ stale' = (stale \/ Pending)

(* Slip: an analysis keeps what was chosen of the old fields.                 *)
SelectionKept(f) == [f EXCEPT !.fields = {}, !.configs = <<>>, !.synth = Nothing]

ReadyForAnswer(f) ==
    [f EXCEPT !.fields = {}, !.selected = {}, !.configs = <<>>, !.synth = Nothing]

analyse ==
    /\ td.form.content # NoSchema /\ ~td.analysis.loading
    /\ td' = [td EXCEPT !.form = ReadyForAnswer(@),
                        !.analysis = Posted(@, [mode |-> td.form.mode, doc |-> td.form.content]),
                        !.saves = Closed]
    /\ stale' = FALSE

(* The answer fills the page whatever mode and text it has by now; only that  *)
(* to an XSD carries a template.                                              *)
Analysed(f, rq) ==
    [f EXCEPT !.fields = PathsOf[rq.doc], !.configs = [p \in PathsOf[rq.doc] |-> "random"],
              !.synth = IF rq.mode = "xsd" THEN rq.doc ELSE @]

AnalyseArrives ==
    /\ \E i \in DOMAIN td.analysis.flight, ok \in BOOLEAN :
          td' = [td EXCEPT !.analysis = Ended(@, i, ok),
                   !.form = IF ok THEN Analysed(@, td.analysis.flight[i]) ELSE @]
    /\ UNCHANGED stale

(* The text area of card 2, a file put into it, or "Clear CSV".               *)
onCsvChange ==
    /\ td.form.fields # {}
    /\ \E csv \in Csvs : td' = [td EXCEPT !.form.csv = csv]
    /\ UNCHANGED stale

toggleField ==
    /\ \E p \in td.form.fields :
          td' = [td EXCEPT !.form.selected = IF p \in @ THEN @ \ {p} ELSE @ \cup {p}]
    /\ UNCHANGED stale

(* A chosen field that a flat CSV does not cover shows its settings.          *)
updateConfig ==
    /\ \E p \in td.form.fields \cap td.form.selected, s \in Settings :
          td' = [td EXCEPT !.form.configs[p] = s]
    /\ UNCHANGED stale

FieldRow == toggleField \/ updateConfig

Under(task) == IF task = "zip" THEN td.zip # 0 ELSE td.template

(* Bounds what is in flight besides the analysis.                             *)
MayStart ==
    Len(td.saves.batches) + Cardinality({t \in {"zip", "template"} : Under(t)}) < MaxTasks

downloadCsvTemplate ==
    /\ td.form.fields # {} /\ ~td.template /\ MayStart
    /\ td' = [td EXCEPT !.template = TRUE]
    /\ UNCHANGED stale

(* Done or failed.                                                            *)
TemplateArrives ==
    /\ td.template
    /\ td' = [td EXCEPT !.template = FALSE]
    /\ UNCHANGED stale

(* parseInt || 10, then the limits: a typed 0 counts as nothing typed.        *)
Clamped(n) ==
    LET c == IF n \in {NotANumber, 0} THEN 10 ELSE n
    IN  IF c < 1 THEN 1 ELSE IF c > MaxCount THEN MaxCount ELSE c

(* A CSV decides on the number of documents; it has at least one row.         *)
DocCounts == IF csvActive THEN 1 .. MaxDocs ELSE {Clamped(n) : n \in TypedCounts}

generate ==
    /\ td.form.fields # {} /\ templateXML \notin {Nothing, NoSchema} /\ td.zip = 0 /\ MayStart
    /\ \E n \in DocCounts : td' = [td EXCEPT !.zip = n]
    /\ UNCHANGED stale

(* Done or failed.                                                            *)
ZipArrives ==
    /\ td.zip # 0
    /\ td' = [td EXCEPT !.zip = 0]
    /\ UNCHANGED stale

(* "Save to Assets" opens the field for the name, "Cancel" closes it.         *)
AskForName ==
    /\ td.form.fields # {} /\ templateXML \notin {Nothing, NoSchema}
    /\ td.saves.open \/ ~td.saves.saving
    /\ td' = [td EXCEPT !.saves.open = ~@]
    /\ UNCHANGED stale

(* The button is disabled while a batch is saved; the field's Enter is not.   *)
(* A batch in flight is 0 until its documents have come, then the number of   *)
(* those still to be saved.                                                   *)
doSave ==
    /\ td.saves.open /\ templateXML \notin {Nothing, NoSchema} /\ MayStart
    /\ td' = [td EXCEPT !.saves.batches = Append(@, 0), !.saves.saving = TRUE]
    /\ UNCHANGED stale

Over(sv, i) == [sv EXCEPT !.batches = RemoveAt(@, i), !.saving = FALSE]

BatchArrives ==
    /\ \E i \in DOMAIN td.saves.batches :
          /\ td.saves.batches[i] = 0
          /\ \/ \E n \in 1 .. MaxDocs : td' = [td EXCEPT !.saves.batches[i] = n]
             \/ td' = [td EXCEPT !.saves = Over(@, i)]
    /\ UNCHANGED stale

(* The documents are saved one by one; a failure leaves those before it.      *)
SaveArrives ==
    /\ \E i \in DOMAIN td.saves.batches :
          LET left == td.saves.batches[i] IN
          /\ left > 0
          /\ \/ left > 1 /\ td' = [td EXCEPT !.saves.batches[i] = left - 1]
             \/ left = 1 /\ td' = [td EXCEPT !.saves = [Over(@, i) EXCEPT !.open = FALSE]]
             \/ td' = [td EXCEPT !.saves = Over(@, i)]
    /\ UNCHANGED stale

SaveGeneratedToAssets == AskForName \/ doSave \/ BatchArrives \/ SaveArrives

TestDataNext ==
    \/ switchMode \/ ClearAll \/ EditContent \/ analyse \/ AnalyseArrives
    \/ onCsvChange \/ FieldRow \/ SaveGeneratedToAssets
    \/ downloadCsvTemplate \/ TemplateArrives \/ generate \/ ZipArrives

(* fetch settles: the analysis is answered or fails.                          *)
TestDataSpec == TdInit /\ [][TestDataNext]_tdVars /\ WF_tdVars(AnalyseArrives)

(* The form's and the workers' types; a ZIP of typed count has 1 to 1000      *)
(* documents.                                                                 *)
TestDataTypeOK ==
    /\ td.form.mode \in Modes /\ td.form.content \in Schemas
    /\ td.form.synth \in (Schemas \ {NoSchema}) \cup {Nothing}
    /\ {td.form.fields, td.form.selected, DOMAIN td.form.configs} \subseteq SUBSET Paths
    /\ \A p \in DOMAIN td.form.configs : td.form.configs[p] \in Settings
    /\ td.form.csv \in Csvs
    /\ WorkerOf(td.analysis, [mode : Modes, doc : Schemas \ {NoSchema}])
    /\ td.zip \in 0 .. MaxCount /\ td.template \in BOOLEAN
    /\ {td.saves.open, td.saves.saving} \subseteq BOOLEAN
    /\ \A i \in DOMAIN td.saves.batches : td.saves.batches[i] \in 0 .. MaxDocs
    /\ stale \in BOOLEAN

(* The fields on display are those of the template that documents will be     *)
(* made of, each has its settings, and what is chosen is chosen of them:      *)
(* whatever modes, texts, clears and late answers came before.  The one       *)
(* exception is a text that changed while it was analysed, in the mode in     *)
(* which the text is the template (TestDataGen.tsx, templateXML).             *)
FieldsFitTemplate ==
    td.form.fields # {} =>
        /\ td.form.selected \subseteq td.form.fields
        /\ DOMAIN td.form.configs = td.form.fields
        /\ ~stale \/ (td.form.synth # Nothing /\ td.form.mode = "xsd") =>
              td.form.fields = PathsOf[templateXML]
===============================================================================
