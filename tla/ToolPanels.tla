------------------------------ MODULE ToolPanels ------------------------------
(* The pages "Key Generation", "Certificates" and "EDI Tools": sections with  *)
(* a form, a button, a hook useWorker of their own and a panel for the        *)
(* answer.  EDI Tools shows one of its sections at a time; which one is left  *)
(* out, for they can be changed at any time and keep their state.             *)
EXTENDS UseWorker, Integers

CONSTANTS Texts,        \* what a text field may hold
          Blank,        \* the text that trims to nothing
          NaN           \* a validity field that holds no number

ASSUME PanelTexts == Blank \in Texts

MaxDays == 90

(* What the validity field may be read as: the limits and both their sides.   *)
Typed == {NaN, -1, 0, 1, 2, MaxDays, MaxDays + 1}

(* Two message types per standard; the standard picks its first.              *)
MsgTypes == [EDIFACT |-> {"ORDERS", "INVOIC"}, X12 |-> {"850", "810"}]
EdiMessages == UNION {[standard : {s}, type : MsgTypes[s]] : s \in DOMAIN MsgTypes}

Forms == [pgp      |-> [who : Texts, bits : {2048, 4096}],
          ssh      |-> [type : {"rsa", "ed25519"}, bits : {2048, 4096}],
          cert     |-> [cn : Texts, days : Typed],
          parse    |-> [text : Texts],
          toXml    |-> [text : Texts, format : {"semantic", "technical"}],
          fromXml  |-> [text : Texts],
          generate |-> EdiMessages]

Sections == DOMAIN Forms

VARIABLE panels         \* each section's form, worker state and result

panelVars == <<panels>>

FirstForms(text) ==
    [pgp      |-> [who |-> Blank, bits |-> 2048],
     ssh      |-> [type |-> "rsa", bits |-> 4096],
     cert     |-> [cn |-> Blank, days |-> MaxDays],
     parse    |-> [text |-> text],
     toXml    |-> [text |-> text, format |-> "semantic"],
     fromXml  |-> [text |-> Blank],
     generate |-> [standard |-> "EDIFACT", type |-> "ORDERS"]]

(* Two sections start with a sample.                                          *)
PanelInit ==
    \E sample \in Texts \ {Blank} :
        panels = [s \in Sections |->
                    [form |-> FirstForms(sample)[s], worker |-> Idle, result |-> Nothing]]

(* Slip: only the upper limit is applied.                                     *)
UpperLimitOnly(d) == IF d \in {NaN, 0} \/ d > MaxDays THEN MaxDays ELSE d

(* parseInt || 90 takes a typed 0 for a field left empty.                     *)
ValidityNum(d) ==
    LET n == IF d \in {NaN, 0} THEN MaxDays ELSE d
    IN  IF n < 1 THEN 1 ELSE IF n > MaxDays THEN MaxDays ELSE n

(* The body of the request: the form, and for a certificate the clamped days. *)
RequestOf(s, f) == IF s = "cert" THEN [cn |-> f.cn, days |-> ValidityNum(f.days)] ELSE f

(* The strip of the page says of certificates "capped at 90 days".            *)
PanelRequests(s) == IF s = "cert" THEN [cn : Texts, days : 1 .. MaxDays] ELSE Forms[s]

ASSUME PanelQuestions == \A s \in Sections : Nothing \notin PanelRequests(s)

(* Whatever is done to the fields of the form; an EDI text that is typed,     *)
(* loaded from the assets or to be converted otherwise clears its result.     *)
EditForm(s) ==
    \E f \in Forms[s] :
        panels' = [panels EXCEPT ![s].form = f,
                     ![s].result = IF s \in {"parse", "toXml", "fromXml"} THEN Nothing ELSE @]

(* The texts a button needs.                                                  *)
Complete(s, f) ==
    /\ s = "cert" => f.cn # Blank
    /\ s \in {"parse", "toXml", "fromXml"} => f.text # Blank

(* Slip: the button stays enabled while a request is in flight.               *)
AlwaysEnabled(s) == Complete(s, panels[s].form)

CanGenerate(s) == Complete(s, panels[s].form) /\ ~panels[s].worker.loading

Generate(s) ==
    /\ CanGenerate(s)
    /\ panels' = [panels EXCEPT ![s].result = Nothing,
                                ![s].worker = Posted(@, RequestOf(s, panels[s].form))]

(* The answer becomes the result; a failed request leaves the panel as it is. *)
PanelArrives(s) ==
    \E i \in DOMAIN panels[s].worker.flight, ok \in BOOLEAN :
        panels' = [panels EXCEPT ![s].worker = Ended(@, i, ok),
                     ![s].result = IF ok THEN panels[s].worker.flight[i] ELSE @]

ClearResult(s) == panels' = [panels EXCEPT ![s].result = Nothing]

(* "Open in EDI -> XML": the text that was generated, whatever it is, goes    *)
(* into the form of the other section, under the result that is there.        *)
OpenInToXml ==
    /\ panels["generate"].result # Nothing
    /\ \E text \in Texts \ {Blank} : panels' = [panels EXCEPT !["toXml"].form.text = text]

Section(s) == EditForm(s) \/ Generate(s) \/ PanelArrives(s)

PGPSection == Section("pgp") \/ ClearResult("pgp")
SSHSection == Section("ssh") \/ ClearResult("ssh")
CertGen == Section("cert") \/ ClearResult("cert")
Parse == Section("parse")
FromXml == Section("fromXml")
GenerateAndOpen == Section("generate") \/ OpenInToXml \/ Section("toXml")

PanelNext == PGPSection \/ SSHSection \/ CertGen \/ Parse \/ FromXml \/ GenerateAndOpen

(* fetch settles: a request is answered or fails.                             *)
PanelFairness == \A s \in Sections : WF_panelVars(PanelArrives(s))

PanelSpec == PanelInit /\ [][PanelNext]_panelVars /\ PanelFairness

(* Certificates are asked for with 1 to 90 days, whatever was typed, and a    *)
(* message has a type of its standard.                                        *)
PanelTypeOK ==
    /\ DOMAIN panels = Sections
    /\ \A s \in Sections :
          /\ panels[s].form \in Forms[s]
          /\ WorkerOf(panels[s].worker, PanelRequests(s))
          /\ panels[s].result \in PanelRequests(s) \cup {Nothing}

(* The section s as the panel that shows the answer to its last form          *)
(* submitted.                                                                 *)
SectionPanel(s) == INSTANCE LastAnswer WITH pending <- Awaited(panels[s].worker),
                                            shown <- panels[s].result, Keeps <- FALSE
===============================================================================
