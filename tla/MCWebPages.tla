------------------------------ MODULE MCWebPages ------------------------------
(* The pages of the front end, for the model checker.  Pages share no state,  *)
(* so a behaviour exercises one of them, or one section of the key pages,     *)
(* while the others stand still in a first state of theirs.                   *)
EXTENDS ToolPanels, EditorTool, HttpClient, GroovyIde, InstanceContext, RowForms, Monitoring,
        SftpFiles, TestData, Diagram

CONSTANTS s1, s2, t1, t2, d1, d2, p1, p2

VARIABLE page           \* the page exercised

MCOwnerOf == [t \in {t1, t2} |-> IF t = t1 THEN s1 ELSE s2]
MCEntries == {<<"d">>, <<"f">>, <<"d", "f">>}
MCPathsOf == [d \in Schemas |-> IF d = d1 THEN {p1} ELSE IF d = d2 THEN {p2} ELSE {}]

Alone == Sections \ {"toXml"}                 \* sections exercised one at a time
Pages == Alone \cup {"edi", "ed", "hc", "ide", "ctx", "rows", "mon", "sftp", "td", "dia"}

WebInit ==
    /\ page \in Pages
    /\ PanelInit /\ EditorInit /\ HttpInit /\ IdeInit /\ ContextInit /\ RowInit /\ MonitorInit
    /\ FilesInit /\ TdInit /\ DiagramInit
    /\ page # "ed" => ed.dir = "xsd"
    /\ page # "ctx" => instances = {}
    /\ page # "rows" => rf.page = "button" /\ rf.rows = {}
    /\ page # "mon" => mon.system = s1
    /\ page # "sftp" => volume = {}
    /\ page # "dia" => edges = << >>

(* One page moves, the others stand.                                          *)
WebNext ==
    /\ \/ page = "pgp" /\ PGPSection
       \/ page = "ssh" /\ SSHSection
       \/ page = "cert" /\ CertGen
       \/ page = "parse" /\ Parse
       \/ page = "fromXml" /\ FromXml
       \/ page = "generate" /\ Section("generate")
       \/ page = "edi" /\ GenerateAndOpen
       \/ page \notin Alone \cup {"edi"} /\ UNCHANGED panelVars
    /\ IF page = "ed" THEN EditorNext ELSE UNCHANGED edVars
    /\ IF page = "hc" THEN HttpNext ELSE UNCHANGED httpVars
    /\ IF page = "ide" THEN IdeNext ELSE UNCHANGED ideVars
    /\ IF page = "ctx" THEN ContextNext ELSE UNCHANGED contextVars
    /\ IF page = "rows" THEN RowNext ELSE UNCHANGED rowVars
    /\ IF page = "mon" THEN MonitorNext ELSE UNCHANGED monVars
    /\ IF page = "sftp" THEN FilesNext ELSE UNCHANGED fileVars
    /\ IF page = "td" THEN TestDataNext ELSE UNCHANGED tdVars
    /\ IF page = "dia" THEN DiagramNext ELSE UNCHANGED diagramVars
    /\ UNCHANGED page

(* The section whose answers are waited for.                                  *)
InUse == IF page \in Alone THEN page ELSE "toXml"

(* What arrives on the page exercised; the others stand.                      *)
Settles ==
    /\ CASE page \in Alone \cup {"edi"} -> PanelArrives(InUse)
         [] page = "ed" -> EditorArrives
         [] page = "hc" -> HttpArrives
         [] page = "ide" -> RunArrives
         [] page = "ctx" -> HeaderSaved
         [] page = "rows" -> RowSettles(1)
         [] page = "mon" -> DashboardSettles(1) \/ DetailSettles(1)
         [] page = "td" -> AnalyseArrives
         [] OTHER -> FALSE
    /\ page \in Alone \cup {"edi"} \/ UNCHANGED panelVars
    /\ page = "ed" \/ UNCHANGED edVars
    /\ page = "hc" \/ UNCHANGED httpVars
    /\ page = "ide" \/ UNCHANGED ideVars
    /\ page = "ctx" \/ UNCHANGED contextVars
    /\ page = "rows" \/ UNCHANGED rowVars
    /\ page = "mon" \/ UNCHANGED monVars
    /\ page = "td" \/ UNCHANGED tdVars
    /\ UNCHANGED <<page, fileVars, diagramVars>>

webVars == <<page, panelVars, edVars, httpVars, ideVars, contextVars, rowVars, monVars, fileVars,
             tdVars, diagramVars>>

(* The fairness of each page, as one: the others stand.                       *)
WebSpec == WebInit /\ [][WebNext]_webVars /\ WF_webVars(Settles)

(* The page exercised is of its type.                                         *)
PagesTypeOK ==
    CASE page \in Alone \cup {"edi"} -> PanelTypeOK
      [] page = "ed" -> EditorTypeOK
      [] page = "hc" -> HttpTypeOK
      [] page = "ide" -> IdeTypeOK
      [] page = "ctx" -> ContextTypeOK
      [] page = "rows" -> RowTypeOK
      [] page = "mon" -> MonitorTypeOK
      [] page = "sftp" -> FilesTypeOK
      [] page = "td" -> TestDataTypeOK
      [] page = "dia" -> DiagramTypeOK

PanelInUse == INSTANCE LastAnswer WITH pending <- Awaited(panels[InUse].worker),
                                       shown <- panels[InUse].result, Keeps <- FALSE

(* What a section shows is the answer to its last form submitted, however     *)
(* answers and edits interleave: each section implements the panel that shows *)
(* its last answer (KeyGen.tsx, CertGen.tsx, EDITools.tsx).                   *)
PanelsShowLastAnswer == PanelInUse!Spec

Busy ==
    CASE page \in Alone \cup {"edi"} -> panels[InUse].worker.loading
      [] page = "ed" -> ed.worker.loading
      [] page = "hc" -> hc.worker.loading
      [] page = "ide" -> ide.worker.loading
      [] page = "ctx" -> auth.saving # Nothing
      [] page = "rows" -> rf.saving
      [] page = "mon" -> IF InDashboard THEN mon.adding ELSE mon.loading
      [] page = "td" -> td.analysis.loading
      [] OTHER -> FALSE

(* No button stays disabled: a page that converts, generates, sends, runs,    *)
(* saves, adds, loads or analyses stops doing so, whether its requests are    *)
(* answered or fail and whatever else is done in between (the finally blocks  *)
(* of the pages).                                                             *)
PagesSettle == Busy ~> ~Busy
===============================================================================
