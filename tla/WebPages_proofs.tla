--------------------------- MODULE WebPages_proofs ----------------------------
(* What the pages of the front end promise, for any number of documents,      *)
(* texts, headers, instances and requests, one by one and together.  The      *)
(* argument of the tool pages is one: the button is disabled while loading,   *)
(* so at most one request is in flight and its answer is the one waited for.  *)
EXTENDS MCWebPages, PagesAtRest_proofs

(* At most one request is in flight, and the page is loading while it is.     *)
OneInFlight(w) ==
    /\ w = [flight |-> w.flight, loading |-> w.loading, error |-> w.error]
    /\ \/ w.flight = <<>> /\ w.loading = FALSE
       \/ w.loading = TRUE /\ \E rq : rq # Nothing /\ w.flight = <<rq>>

LEMMA IdleWorker == OneInFlight(Idle) /\ Awaited(Idle) = Nothing
BY DEF OneInFlight, Idle, Awaited

(* A request is sent when nothing is loading.                                 *)
LEMMA PostedWorker ==
    ASSUME NEW w, OneInFlight(w), ~w.loading, NEW rq, rq # Nothing
    PROVE  /\ OneInFlight(Posted(w, rq))
           /\ Awaited(w) = Nothing /\ Awaited(Posted(w, rq)) = rq
<1>1. w.flight = <<>>
  BY DEF OneInFlight
<1>2. Posted(w, rq) = [flight |-> <<rq>>, loading |-> TRUE, error |-> FALSE]
  BY <1>1 DEF Posted
<1>3. OneInFlight(Posted(w, rq))
  BY <1>2 DEF OneInFlight
<1>4. Awaited(Posted(w, rq)) = rq
  BY <1>2 DEF Awaited, Last
<1> QED BY <1>1, <1>3, <1>4 DEF Awaited

(* The request that ends is the one awaited.                                  *)
LEMMA EndedWorker ==
    ASSUME NEW w, OneInFlight(w), NEW i \in DOMAIN w.flight, NEW ok \in BOOLEAN
    PROVE  /\ OneInFlight(Ended(w, i, ok)) /\ Awaited(Ended(w, i, ok)) = Nothing
           /\ Awaited(w) = w.flight[i] /\ Awaited(w) # Nothing
<1>1. PICK rq : rq # Nothing /\ w.flight = <<rq>>
  BY DEF OneInFlight
<1>2. i = 1
  BY <1>1
<1>3. RemoveAt(w.flight, i) = <<>>
  BY <1>1, <1>2 DEF RemoveAt
<1>4. Ended(w, i, ok) = [flight |-> <<>>, loading |-> FALSE, error |-> ~ok]
  BY <1>3 DEF Ended
<1>5. OneInFlight(Ended(w, i, ok)) /\ Awaited(Ended(w, i, ok)) = Nothing
  BY <1>4 DEF OneInFlight, Awaited
<1>6. Awaited(w) = w.flight[i] /\ w.flight[i] # Nothing
  BY <1>1, <1>2 DEF Awaited, Last
<1> QED BY <1>5, <1>6

(* A worker is of its type when it starts, after a request and after the      *)
(* answer, and its error strip can be closed.                                 *)
LEMMA IdleTyped == ASSUME NEW Rq PROVE WorkerOf(Idle, Rq)
BY DEF WorkerOf, Idle

LEMMA PostedTyped ==
    ASSUME NEW Rq, NEW w, OneInFlight(w), ~w.loading, NEW rq \in Rq
    PROVE  WorkerOf(Posted(w, rq), Rq)
<1>1. w.flight = <<>>
  BY DEF OneInFlight
<1>2. Posted(w, rq) = [flight |-> <<rq>>, loading |-> TRUE, error |-> FALSE]
  BY <1>1 DEF Posted
<1> QED BY <1>2 DEF WorkerOf, Idle

LEMMA EndedTyped ==
    ASSUME NEW Rq, NEW w, OneInFlight(w), WorkerOf(w, Rq), NEW i \in DOMAIN w.flight,
           NEW ok \in BOOLEAN
    PROVE  WorkerOf(Ended(w, i, ok), Rq) /\ w.flight[i] \in Rq
<1>1. PICK rq : w.flight = <<rq>>
  BY DEF OneInFlight
<1>2. i = 1 /\ RemoveAt(w.flight, i) = <<>>
  BY <1>1 DEF RemoveAt
<1>3. Ended(w, i, ok) = [flight |-> <<>>, loading |-> FALSE, error |-> ~ok]
  BY <1>2 DEF Ended
<1> QED BY <1>3 DEF WorkerOf, Idle

-------------------------------------------------------------------------------
(* The Groovy IDE                                                             *)

IdeInv ==
    /\ ide = [script |-> ide.script, worker |-> ide.worker, result |-> ide.result,
              timer |-> ide.timer, lints |-> ide.lints, errorsOf |-> ide.errorsOf]
    /\ ide.script \in Scripts \cup {NoScript}
    /\ ide.timer \in Scripts \cup {NoScript, Nothing}
    /\ ide.errorsOf \in {Bad, Nothing} /\ ide.lints \in Seq(Scripts)
    /\ OneInFlight(ide.worker) /\ WorkerOf(ide.worker, Scripts)
    /\ ide.result \in Scripts \cup {Nothing}
    /\ inject.key \in Nat /\ inject \in Loads
    /\ filter \subseteq Library /\ picked \in Library \cup {Nothing}

(* Editing and linting leave the run and its result alone.                    *)
LEMMA LintKeeps ==
    ASSUME IdeInv, EditScript \/ runLint \/ LintArrives \/ SetFilter \/ UNCHANGED ideVars
    PROVE  IdeInv' /\ ide'.worker = ide.worker /\ ide'.result = ide.result
<1>1. CASE EditScript
  <2>1. PICK s \in Scripts \cup {NoScript} : ide' = [ide EXCEPT !.script = s, !.timer = s]
    BY <1>1 DEF EditScript
  <2>2. ide' = [script |-> s, worker |-> ide.worker, result |-> ide.result,
                timer |-> s, lints |-> ide.lints, errorsOf |-> ide.errorsOf]
    BY <2>1 DEF IdeInv
  <2> QED BY <1>1, <2>2 DEF IdeInv, EditScript
<1>2. CASE runLint
  <2>1. CASE ide.timer = NoScript
    <3>1. ide' = [script |-> ide.script, worker |-> ide.worker, result |-> ide.result,
                  timer |-> Nothing, lints |-> ide.lints, errorsOf |-> Nothing]
      BY <1>2, <2>1 DEF IdeInv, runLint
    <3>2. UNCHANGED <<inject, filter, picked>>
      BY <1>2 DEF runLint
    <3> QED BY <3>1, <3>2 DEF IdeInv
  <2>2. CASE ide.timer # NoScript
    <3>1. PICK l : l = Append(ide.lints, ide.timer)
      OBVIOUS
    <3>2. ide.timer \in Scripts
      BY <1>2, <2>2 DEF IdeInv, runLint
    <3>3. l \in Seq(Scripts)
      BY <3>1, <3>2, AppendProperties DEF IdeInv
    <3>4. ide' = [ide EXCEPT !.timer = Nothing, !.lints = l]
      BY <1>2, <2>2, <3>1 DEF runLint, IdeInv
    <3>5. ide' = [script |-> ide.script, worker |-> ide.worker, result |-> ide.result,
                  timer |-> Nothing, lints |-> l, errorsOf |-> ide.errorsOf]
      BY <3>4 DEF IdeInv
    <3>6. UNCHANGED <<inject, filter, picked>>
      BY <1>2 DEF runLint
    <3> QED BY <3>3, <3>5, <3>6 DEF IdeInv
  <2> QED BY <2>1, <2>2
<1>3. CASE LintArrives
  <2>1. PICK i \in DOMAIN ide.lints, e \in {ide.errorsOf, Bad, Nothing} :
          ide' = [ide EXCEPT !.lints = RemoveAt(ide.lints, i), !.errorsOf = e]
    BY <1>3 DEF LintArrives, IdeInv
  <2>2. PICK l : l = RemoveAt(ide.lints, i)
    OBVIOUS
  <2>3. l \in Seq(Scripts)
    BY <2>1, <2>2, Removed DEF IdeInv
  <2>4. ide' = [script |-> ide.script, worker |-> ide.worker, result |-> ide.result,
                timer |-> ide.timer, lints |-> l, errorsOf |-> e]
    BY <2>1, <2>2 DEF IdeInv
  <2>5. UNCHANGED <<inject, filter, picked>>
    BY <1>3 DEF LintArrives
  <2>6. e \in {Bad, Nothing}
    BY <2>1 DEF IdeInv
  <2> QED BY <2>3, <2>4, <2>5, <2>6 DEF IdeInv
<1>4. CASE SetFilter \/ UNCHANGED ideVars
  BY <1>4 DEF IdeInv, SetFilter, ideVars
<1> QED BY <1>1, <1>2, <1>3, <1>4

(* A script that is put into the editor clears the result.                    *)
LEMMA ReplacedKeeps ==
    ASSUME IdeInv, ResetToSample \/ loadInIDE
    PROVE  IdeInv' /\ ide'.worker = ide.worker /\ ide'.result \in {ide.result, Nothing}
<1>1. PICK s \in Library : /\ ide' \in {ide, Replaced(ide, s)}
                           /\ inject' \in Loads /\ inject'.key \in Nat /\ filter' = filter
                           /\ picked' \in Library \cup {Nothing}
  <2>1. CASE ResetToSample
    BY <2>1 DEF IdeInv, ResetToSample, Library
  <2>2. CASE loadInIDE
    <3>1. PICK s \in filter :
            /\ inject' = [body |-> s, key |-> NextKey(inject, s)]
            /\ ide' \in {ide, Replaced(ide, s)} /\ picked' = s
      BY <2>2 DEF loadInIDE
    <3>2. inject.key + 1 \in 0 .. MaxLoads /\ inject.key + 1 \in Nat
      BY <2>2, IdeLoads DEF IdeInv, loadInIDE
    <3>3. s \in Library /\ inject' \in Loads /\ inject'.key \in Nat
      BY <3>1, <3>2 DEF IdeInv, Loads, NextKey
    <3> QED BY <2>2, <3>1, <3>3 DEF loadInIDE
  <2> QED BY <2>1, <2>2
<1>2. CASE ide' = ide
  BY <1>1, <1>2 DEF IdeInv
<1>3. CASE ide' = Replaced(ide, s)
  <2>1. ide' = [script |-> s, worker |-> ide.worker, result |-> Nothing,
                timer |-> ide.timer, lints |-> ide.lints, errorsOf |-> Nothing]
    BY <1>3 DEF IdeInv, Replaced
  <2>2. s \in Scripts
    BY <1>1 DEF Library, Scripts
  <2> QED BY <1>1, <2>1, <2>2 DEF IdeInv
<1> QED BY <1>1, <1>2, <1>3

(* Every step of the IDE keeps one run in flight and is a step of the panel   *)
(* that shows its last answer.                                                *)
LEMMA IdeStep ==
    ASSUME IdeInv, [IdeNext]_ideVars
    PROVE  IdeInv' /\ [Output!Next]_<<Awaited(ide.worker), ide.result>>
<1>1. CASE run
  <2>1. ide.script \in Scripts /\ ide.script # Nothing /\ ~ide.worker.loading
    BY <1>1, IdeScripts DEF run, CanRunScript, IdeInv
  <2>2. PICK w : w = Posted(ide.worker, ide.script)
    OBVIOUS
  <2>3. Awaited(w) # Nothing /\ OneInFlight(w) /\ WorkerOf(w, Scripts)
    BY <2>1, <2>2, PostedWorker, PostedTyped DEF IdeInv
  <2>4. ide' = [ide EXCEPT !.worker = w, !.result = Nothing]
    BY <1>1, <2>2 DEF run
  <2>5. ide' = [script |-> ide.script, worker |-> w, result |-> Nothing,
                timer |-> ide.timer, lints |-> ide.lints, errorsOf |-> ide.errorsOf]
    BY <2>4 DEF IdeInv
  <2>6. IdeInv'
    <3>1. UNCHANGED <<inject, filter, picked>>
      BY <1>1 DEF run
    <3> QED BY <2>3, <2>5, <3>1 DEF IdeInv
  <2> QED BY <2>3, <2>5, <2>6 DEF Output!Next, Output!Ask
<1>2. CASE RunArrives
  <2>1. PICK i \in DOMAIN ide.worker.flight :
          ide' = [ide EXCEPT !.worker = Ended(ide.worker, i, TRUE), !.result = ide.worker.flight[i]]
    BY <1>2 DEF RunArrives
  <2>2. PICK w, r : w = Ended(ide.worker, i, TRUE) /\ r = ide.worker.flight[i]
    OBVIOUS
  <2>3. /\ Awaited(ide.worker) # Nothing /\ r = Awaited(ide.worker) /\ r \in Scripts
        /\ Awaited(w) = Nothing /\ OneInFlight(w) /\ WorkerOf(w, Scripts)
    BY <2>2, EndedWorker, EndedTyped DEF IdeInv
  <2>4. ide' = [ide EXCEPT !.worker = w, !.result = r]
    BY <2>1, <2>2
  <2>5. ide' = [script |-> ide.script, worker |-> w, result |-> r,
                timer |-> ide.timer, lints |-> ide.lints, errorsOf |-> ide.errorsOf]
    BY <2>4 DEF IdeInv
  <2>6. IdeInv'
    BY <1>2, <2>3, <2>5 DEF IdeInv, RunArrives
  <2> QED BY <2>3, <2>5, <2>6 DEF Output!Next, Output!Answer
<1>3. CASE EditScript \/ runLint \/ LintArrives \/ SetFilter \/ UNCHANGED ideVars
  BY <1>3, LintKeeps
<1>4. CASE ResetToSample \/ loadInIDE
  BY <1>4, ReplacedKeeps DEF Output!Next, Output!Clear
<1> QED BY <1>1, <1>2, <1>3, <1>4 DEF IdeNext, GroovyIDE, ScriptLibrary

LEMMA IdeStart == IdeInit => IdeInv /\ Output!Init
<1> SUFFICES ASSUME IdeInit PROVE IdeInv /\ Output!Init
  OBVIOUS
<1>1. PICK l : l = <<Sample>>
  OBVIOUS
<1>2. Sample \in Scripts /\ l \in Seq(Scripts)
  BY <1>1 DEF Scripts
<1>3. ide = [script |-> Sample, worker |-> Idle, result |-> Nothing,
             timer |-> Nothing, lints |-> l, errorsOf |-> Nothing]
  BY <1>1 DEF IdeInit
<1>4. inject \in Loads /\ inject.key \in Nat
  BY IdeLoads DEF IdeInit, Loads
<1>5. IdeInv
  BY <1>2, <1>3, <1>4, IdleWorker, IdleTyped DEF IdeInit, IdeInv
<1> QED BY <1>3, <1>5, IdleWorker DEF Output!Init

(* The output is that of the last script run, whatever is edited, reset and   *)
(* loaded from the library while it runs.                                     *)
THEOREM IdeShowsLastAnswer == IdeSpec => OutputIsLastAnswer
<1>1. IdeInv /\ [IdeNext]_ideVars => IdeInv' /\ [Output!Next]_<<Awaited(ide.worker), ide.result>>
  BY IdeStep
<1> QED BY <1>1, IdeStart, PTL DEF IdeSpec, OutputIsLastAnswer, Output!Spec

LEMMA IdeTyped == IdeInv => IdeTypeOK
BY DEF IdeInv, IdeTypeOK

(* What is linted, run and shown are scripts: the empty editor is not.        *)
THEOREM IdeTypes == IdeSpec => []IdeTypeOK
<1>1. IdeInv /\ [IdeNext]_ideVars => IdeInv'
  BY IdeStep
<1> QED BY <1>1, IdeTyped, IdeStart, PTL DEF IdeSpec

LEMMA PickedAtFirst == IdeInit => PickedIsInEditor
BY DEF IdeInit, PickedIsInEditor

LEMMA PickedStep ==
    ASSUME IdeInv, PickedIsInEditor, [IdeNext]_ideVars PROVE PickedIsInEditor'
<1>1. CASE loadInIDE
  <2>1. PICK s \in filter :
          /\ inject' = [body |-> s, key |-> NextKey(inject, s)]
          /\ ide' = IF inject'.key # inject.key THEN Replaced(ide, s) ELSE ide
          /\ picked' = s
    BY <1>1 DEF loadInIDE
  <2>2. inject'.key # inject.key
    BY <2>1 DEF NextKey, IdeInv
  <2>3. ide'.script = s
    BY <2>1, <2>2 DEF Replaced, IdeInv
  <2> QED BY <2>1, <2>3 DEF PickedIsInEditor
<1>2. CASE EditScript \/ ResetToSample
  BY <1>2 DEF EditScript, ResetToSample, PickedIsInEditor
<1>3. CASE runLint \/ LintArrives \/ run \/ RunArrives \/ SetFilter \/ UNCHANGED ideVars
  <2>1. ide'.script = ide.script /\ picked' = picked
    BY <1>3 DEF IdeInv, runLint, LintArrives, run, RunArrives, SetFilter, ideVars
  <2> QED BY <2>1 DEF PickedIsInEditor
<1> QED BY <1>1, <1>2, <1>3 DEF IdeNext, GroovyIDE, ScriptLibrary

(* A script loaded from the library stays in the editor until the editor is   *)
(* changed by hand, however often the same script is loaded.                  *)
THEOREM PickedLoaded == IdeSpec => []PickedIsInEditor
<1>1. IdeInv /\ PickedIsInEditor /\ [IdeNext]_ideVars => IdeInv' /\ PickedIsInEditor'
  BY IdeStep, PickedStep
<1> QED BY <1>1, IdeStart, PickedAtFirst, PTL DEF IdeSpec

-------------------------------------------------------------------------------
(* The formatters, the generator and the converter                            *)

Pickers == [open : BOOLEAN, list : SUBSET Docs, asked : {"xml", "json", Nothing}]

EdInv ==
    /\ ed = [dir |-> ed.dir, input |-> ed.input, output |-> ed.output, warned |-> ed.warned,
             worker |-> ed.worker, picker |-> ed.picker]
    /\ ed.dir \in Dirs /\ ed.input \in Docs /\ ed.picker \in Pickers
    /\ ed.output \in Conversions \cup {Nothing} /\ ed.warned \in Conversions \cup {Nothing}
    /\ OneInFlight(ed.worker) /\ WorkerOf(ed.worker, Conversions)

(* The page with other contents, its worker as it was.                        *)
LEMMA EditorKept ==
    ASSUME EdInv, NEW dir \in Dirs, NEW doc \in Docs, NEW out \in {ed.output, Nothing},
           NEW warned \in {ed.warned, Nothing}, NEW p \in Pickers,
           ed' = [dir |-> dir, input |-> doc, output |-> out, warned |-> warned,
                  worker |-> ed.worker, picker |-> p]
    PROVE  /\ EdInv' /\ [Panel!Next]_<<Awaited(ed.worker), ed.output>>
           /\ dir = ed.dir \/ out = Nothing => (Mislabelled(ed') => Mislabelled(ed))
<1>1. /\ ed'.dir = dir /\ ed'.input = doc /\ ed'.output = out /\ ed'.warned = warned
      /\ ed'.worker = ed.worker /\ ed'.picker = p
  OBVIOUS
<1>2. EdInv'
  BY <1>1 DEF EdInv
<1>3. [Panel!Next]_<<Awaited(ed.worker), ed.output>>
  BY <1>1 DEF Panel!Next, Panel!Clear
<1>4. dir = ed.dir \/ out = Nothing => (Mislabelled(ed') => Mislabelled(ed))
  BY <1>1 DEF Mislabelled
<1> QED BY <1>2, <1>3, <1>4

(* Whatever puts a document into the editor clears the output only.           *)
LEMMA InputStep ==
    ASSUME EdInv, NEW doc \in Docs, NEW new, new = WithInput(ed, doc)
    PROVE  new = [dir |-> ed.dir, input |-> doc, output |-> Nothing, warned |-> Nothing,
                  worker |-> ed.worker, picker |-> ed.picker]
BY DEF EdInv, WithInput

(* The window of the picker closes.                                           *)
LEMMA ShutStep ==
    ASSUME EdInv, NEW p, p = [ed.picker EXCEPT !.open = FALSE]
    PROVE  p \in Pickers
BY DEF EdInv, Pickers

(* The window of the picker opens, is filled or closes.                       *)
LEMMA PickerStep ==
    ASSUME EdInv, TogglePicker \/ PickerArrives \/ ClosePicker
    PROVE  \E p \in Pickers :
             ed' = [dir |-> ed.dir, input |-> ed.input, output |-> ed.output,
                    warned |-> ed.warned, worker |-> ed.worker, picker |-> p]
<1>1. PICK p \in Pickers : ed' = [ed EXCEPT !.picker = p]
  <2>1. CASE TogglePicker
    <3>1. PICK p : /\ p \in {[ed.picker EXCEPT !.open = FALSE],
                            [ed.picker EXCEPT !.asked = InputType(ed.dir)]}
                   /\ ed' = [ed EXCEPT !.picker = p]
      BY <2>1 DEF TogglePicker
    <3>2. InputType(ed.dir) \in {"xml", "json"}
      BY DEF InputType
    <3>3. p \in Pickers
      BY <3>1, <3>2, ShutStep DEF EdInv, Pickers
    <3> QED BY <3>1, <3>3
  <2>2. CASE PickerArrives
    <3>1. PICK found \in SUBSET Docs :
            ed' = [ed EXCEPT !.picker = [open |-> TRUE, asked |-> Nothing, list |-> found]]
      BY <2>2 DEF PickerArrives, EdInv, Pickers
    <3>2. [open |-> TRUE, asked |-> Nothing, list |-> found] \in Pickers
      BY DEF Pickers
    <3> QED BY <3>1, <3>2
  <2>3. CASE ClosePicker
    BY <2>3, ShutStep DEF ClosePicker
  <2> QED BY <2>1, <2>2, <2>3
<1> QED BY <1>1 DEF EdInv

(* A document is put into the editor.                                         *)
LEMMA DocumentStep ==
    ASSUME EdInv, EditInput \/ ClearEditor \/ PickAsset \/ ChooseDirection
    PROVE  \E dir \in Dirs, doc \in Docs, p \in Pickers :
             ed' = [dir |-> dir, input |-> doc, output |-> Nothing, warned |-> Nothing,
                    worker |-> ed.worker, picker |-> p]
<1>1. CASE EditInput \/ ClearEditor
  <2>1. PICK doc \in Docs : ed' = WithInput(ed, doc)
    BY <1>1, EditorDocs DEF EditInput, ClearEditor
  <2>2. ed' = [dir |-> ed.dir, input |-> doc, output |-> Nothing, warned |-> Nothing,
               worker |-> ed.worker, picker |-> ed.picker]
    BY <2>1, InputStep
  <2> QED BY <2>2 DEF EdInv
<1>2. CASE PickAsset
  <2>1. PICK doc \in Docs : ed' = [WithInput(ed, doc) EXCEPT !.picker.open = FALSE]
    BY <1>2 DEF PickAsset, EdInv, Pickers
  <2>2. PICK new, p : new = WithInput(ed, doc) /\ p = [ed.picker EXCEPT !.open = FALSE]
    OBVIOUS
  <2>3. /\ new = [dir |-> ed.dir, input |-> doc, output |-> Nothing, warned |-> Nothing,
                  worker |-> ed.worker, picker |-> ed.picker]
        /\ p \in Pickers
    BY <2>2, InputStep, ShutStep
  <2>4. ed' = [new EXCEPT !.picker = p]
    BY <2>1, <2>2, <2>3
  <2>5. ed' = [dir |-> ed.dir, input |-> doc, output |-> Nothing, warned |-> Nothing,
               worker |-> ed.worker, picker |-> p]
    BY <2>3, <2>4
  <2> QED BY <2>3, <2>5 DEF EdInv
<1>3. CASE ChooseDirection
  <2>1. PICK dir \in Converter : ed' = [WithInput(ed, Empty) EXCEPT !.dir = dir]
    BY <1>3 DEF ChooseDirection, Redirected
  <2>2. ed' = [dir |-> dir, input |-> Empty, output |-> Nothing, warned |-> Nothing,
               worker |-> ed.worker, picker |-> ed.picker]
    BY <2>1, InputStep, EditorDocs
  <2> QED BY <2>2, EditorDocs DEF EdInv, Dirs
<1> QED BY <1>1, <1>2, <1>3

(* Every step of a page keeps one request in flight, is a step of the panel   *)
(* that shows its last answer, and mislabels no output by itself.             *)
LEMMA EditorStep ==
    ASSUME EdInv, [EditorNext]_edVars
    PROVE  /\ EdInv'
           /\ [Panel!Next]_<<Awaited(ed.worker), ed.output>>
           /\ Mislabelled(ed') => Mislabelled(ed)
                 \/ \E i \in DOMAIN ed.worker.flight :
                       OutputType(ed.worker.flight[i].dir) # OutputType(ed.dir)
<1>1. CASE Convert
  <2>1. PICK rq : rq = [dir |-> ed.dir, doc |-> ed.input]
    OBVIOUS
  <2>2. rq \in Conversions /\ rq # Nothing /\ ~ed.worker.loading
    BY <1>1, <2>1, EditorRequests DEF Convert, CanRun, EdInv, Conversions
  <2>3. PICK w : w = Posted(ed.worker, rq)
    OBVIOUS
  <2>4. Awaited(w) # Nothing /\ OneInFlight(w) /\ WorkerOf(w, Conversions)
    BY <2>2, <2>3, PostedWorker, PostedTyped DEF EdInv
  <2>5. ed' = [ed EXCEPT !.worker = w, !.warned = Nothing]
    BY <1>1, <2>1, <2>3 DEF Convert
  <2>6. ed' = [dir |-> ed.dir, input |-> ed.input, output |-> ed.output, warned |-> Nothing,
               worker |-> w, picker |-> ed.picker]
    BY <2>5 DEF EdInv
  <2>7. EdInv'
    BY <2>4, <2>6 DEF EdInv
  <2> QED BY <2>4, <2>6, <2>7 DEF Panel!Next, Panel!Ask, Mislabelled
<1>2. CASE EditorArrives
  <2>1. PICK i \in DOMAIN ed.worker.flight, ok \in BOOLEAN :
          ed' = [ed EXCEPT !.worker = Ended(ed.worker, i, ok),
                           !.output = IF ok THEN ed.worker.flight[i] ELSE ed.output,
                           !.warned = IF ok THEN ed.worker.flight[i] ELSE ed.warned]
    BY <1>2 DEF EditorArrives
  <2>2. PICK w, out, warned :
          /\ w = Ended(ed.worker, i, ok)
          /\ out = IF ok THEN ed.worker.flight[i] ELSE ed.output
          /\ warned = IF ok THEN ed.worker.flight[i] ELSE ed.warned
    OBVIOUS
  <2>3. /\ Awaited(ed.worker) # Nothing /\ Awaited(ed.worker) = ed.worker.flight[i]
        /\ Awaited(w) = Nothing /\ OneInFlight(w)
        /\ WorkerOf(w, Conversions) /\ ed.worker.flight[i] \in Conversions
    BY <2>2, EndedWorker, EndedTyped DEF EdInv
  <2>4. ed' = [ed EXCEPT !.worker = w, !.output = out, !.warned = warned]
    BY <2>1, <2>2
  <2>5. ed' = [dir |-> ed.dir, input |-> ed.input, output |-> out, warned |-> warned,
               worker |-> w, picker |-> ed.picker]
    BY <2>4 DEF EdInv
  <2>6. {out, warned} \subseteq Conversions \cup {Nothing}
    BY <2>2, <2>3 DEF EdInv
  <2>7. EdInv'
    BY <2>3, <2>5, <2>6 DEF EdInv
  <2>8. [Panel!Next]_<<Awaited(ed.worker), ed.output>>
    BY <2>2, <2>3, <2>5 DEF Panel!Next, Panel!Answer
  <2> QED BY <2>2, <2>5, <2>7, <2>8 DEF Mislabelled
<1>3. CASE EditInput \/ ClearEditor \/ PickAsset \/ ChooseDirection
  BY <1>3, DocumentStep, EditorKept
<1>4. CASE TogglePicker \/ PickerArrives \/ ClosePicker
  <2>1. PICK p \in Pickers :
          ed' = [dir |-> ed.dir, input |-> ed.input, output |-> ed.output,
                 warned |-> ed.warned, worker |-> ed.worker, picker |-> p]
    BY <1>4, PickerStep
  <2>2. ed.dir \in Dirs /\ ed.input \in Docs
    BY DEF EdInv
  <2> QED BY <2>1, <2>2, EditorKept
<1>5. CASE UNCHANGED edVars
  BY <1>5 DEF EdInv, edVars
<1> QED BY <1>1, <1>2, <1>3, <1>4, <1>5 DEF EditorNext, EditorPanel, LoadButton

LEMMA EditorStart == EditorInit => EdInv /\ Panel!Init
<1> SUFFICES ASSUME EditorInit PROVE EdInv /\ Panel!Init
  OBVIOUS
<1>1. PICK dir \in Dirs : ed = [dir |-> dir, input |-> Empty, output |-> Nothing,
                               warned |-> Nothing, worker |-> Idle, picker |-> Shut]
  BY DEF EditorInit
<1>2. Shut \in Pickers
  BY DEF Shut, Pickers
<1>3. EdInv
  BY <1>1, <1>2, EditorDocs, IdleWorker, IdleTyped DEF EdInv
<1> QED BY <1>1, <1>3, IdleWorker DEF Panel!Init

(* The output of a formatter, of the generator or of the converter is the     *)
(* answer to the last text submitted, for any documents and whatever is done  *)
(* while it is awaited.                                                       *)
THEOREM EditorLastAnswer == EditorSpec => EditorShowsLastAnswer
<1>1. EdInv /\ [EditorNext]_edVars => EdInv' /\ [Panel!Next]_<<Awaited(ed.worker), ed.output>>
  BY EditorStep
<1> QED BY <1>1, EditorStart, PTL DEF EditorSpec, EditorShowsLastAnswer, Panel!Spec

(* Only a conversion under way when the direction changed can come out under  *)
(* the label of the other format.                                             *)
THEOREM ToggleSafe == EditorSpec => ToggleNeverMislabels
<1>1. EdInv /\ [EditorNext]_edVars =>
        EdInv' /\ (Mislabelled(ed') => Mislabelled(ed)
                     \/ \E i \in DOMAIN ed.worker.flight :
                           OutputType(ed.worker.flight[i].dir) # OutputType(ed.dir))
  BY EditorStep
<1> QED BY <1>1, EditorStart, PTL DEF EditorSpec, ToggleNeverMislabels

LEMMA EditorTyped == EdInv => EditorTypeOK
BY DEF EdInv, EditorTypeOK, Pickers

(* What is converted and shown are conversions of a text that is not empty.   *)
THEOREM EditorTypes == EditorSpec => []EditorTypeOK
<1>1. EdInv /\ [EditorNext]_edVars => EdInv'
  BY EditorStep
<1> QED BY <1>1, EditorTyped, EditorStart, PTL DEF EditorSpec

-------------------------------------------------------------------------------
(* The bar of instances                                                       *)

CtxInv ==
    /\ instances \in SUBSET Ids
    /\ ctx = [list |-> ctx.list, sel |-> ctx.sel, reads |-> ctx.reads]
    /\ ctx.list \in SUBSET Ids /\ ctx.sel \in Ids \cup {NoId}
    /\ ctx.reads \in Seq((SUBSET Ids) \cup {Unread})
    /\ auth \in [manual : BOOLEAN, typed : BOOLEAN, saving : Ids \cup {"typed", Nothing}]

(* The page "Auth Header" and the settings leave the bar alone.               *)
LEMMA AuthKeeps ==
    ASSUME CtxInv, InstancesMove \/ AuthHeaderGen \/ UNCHANGED contextVars
    PROVE  CtxInv' /\ ctx' = ctx
<1>1. CASE InstancesMove
  BY <1>1 DEF InstancesMove, CtxInv
<1>2. CASE AuthHeaderGen
  <2>1. Credentials \in Ids \cup {"typed", Nothing}
    BY DEF Credentials, CtxInv
  <2>2. ctx' = ctx /\ instances' = instances
    BY <1>2 DEF AuthHeaderGen, EditAuth, SaveHeader, HeaderSaved
  <2>3. auth' \in [manual : BOOLEAN, typed : BOOLEAN, saving : Ids \cup {"typed", Nothing}]
    BY <1>2, <2>1 DEF AuthHeaderGen, EditAuth, SaveHeader, HeaderSaved, CtxInv
  <2> QED BY <2>2, <2>3 DEF CtxInv
<1>3. CASE UNCHANGED contextVars
  BY <1>3 DEF contextVars, CtxInv
<1> QED BY <1>1, <1>2, <1>3

(* The bar with another list, selection and other requests under way.         *)
LEMMA BarKept ==
    ASSUME CtxInv, NEW list \in SUBSET Ids, NEW sel \in Ids \cup {NoId},
           NEW reads \in Seq((SUBSET Ids) \cup {Unread}),
           ctx' = [list |-> list, sel |-> sel, reads |-> reads], UNCHANGED <<instances, auth>>
    PROVE  CtxInv' /\ ctx'.list = list /\ ctx'.sel = sel /\ ctx'.reads = reads
BY DEF CtxInv

(* A step leaves the list and the selection, or a list arrives and selects,   *)
(* or the user chooses from the list.                                         *)
LEMMA ContextStep ==
    ASSUME CtxInv, [ContextNext]_contextVars
    PROVE  /\ CtxInv'
           /\ \/ ctx'.list = ctx.list /\ ctx'.sel = ctx.sel
              \/ Selects(ctx.sel, ctx'.list, ctx'.sel)
              \/ ctx'.list = ctx.list /\ ctx'.sel \in ctx.list /\ ctx'.reads = ctx.reads
<1> DEFINE IdSets == (SUBSET Ids) \cup {Unread}
<1>1. /\ ctx.list \in SUBSET Ids /\ ctx.sel \in Ids \cup {NoId}
      /\ ctx.reads \in Seq(IdSets) /\ instances \in IdSets /\ Unread \in IdSets
  BY DEF CtxInv
<1>2. CASE InstancesMove \/ AuthHeaderGen \/ UNCHANGED contextVars
  BY <1>2, AuthKeeps
<1>3. CASE refresh \/ ContextServed
  <2>1. PICK r \in Seq(IdSets) : ctx' = [ctx EXCEPT !.reads = r]
    <3>1. CASE refresh
      <4>1. Append(ctx.reads, Unread) \in Seq(IdSets)
        BY <1>1, AppendProperties
      <4> QED BY <3>1, <4>1 DEF refresh
    <3>2. CASE ContextServed
      <4>1. PICK i \in DOMAIN ctx.reads : ctx' = [ctx EXCEPT !.reads[i] = instances]
        BY <3>2 DEF ContextServed
      <4>2. [ctx.reads EXCEPT ![i] = instances] \in Seq(IdSets)
        BY <1>1
      <4> QED BY <4>1, <4>2 DEF CtxInv
    <3> QED BY <1>3, <3>1, <3>2
  <2>2. ctx' = [list |-> ctx.list, sel |-> ctx.sel, reads |-> r]
    BY <2>1 DEF CtxInv
  <2>3. UNCHANGED <<instances, auth>>
    BY <1>3 DEF refresh, ContextServed
  <2> QED BY <1>1, <2>1, <2>2, <2>3, BarKept
<1>4. CASE ContextArrives
  <2>1. UNCHANGED <<instances, auth>>
    BY <1>4 DEF ContextArrives
  <2>2. PICK i \in DOMAIN ctx.reads :
          \/ \E id \in Ids \cup {NoId} :
               /\ ctx.reads[i] # Unread /\ Selects(ctx.sel, ctx.reads[i], id)
               /\ ctx' = [list |-> ctx.reads[i], sel |-> id, reads |-> RemoveAt(ctx.reads, i)]
          \/ ctx' = [ctx EXCEPT !.reads = RemoveAt(ctx.reads, i)]
    BY <1>4 DEF ContextArrives
  <2>3. PICK r : r = RemoveAt(ctx.reads, i)
    OBVIOUS
  <2>4. r \in Seq(IdSets)
    BY <1>1, <2>3, Removed
  <2>5. CASE ctx' = [ctx EXCEPT !.reads = RemoveAt(ctx.reads, i)]
    <3>1. ctx' = [list |-> ctx.list, sel |-> ctx.sel, reads |-> r]
      BY <2>3, <2>5 DEF CtxInv
    <3> QED BY <1>1, <2>1, <2>4, <3>1, BarKept
  <2>6. ASSUME NEW id \in Ids \cup {NoId}, ctx.reads[i] # Unread, Selects(ctx.sel, ctx.reads[i], id),
               ctx' = [list |-> ctx.reads[i], sel |-> id, reads |-> RemoveAt(ctx.reads, i)]
        PROVE  CtxInv' /\ Selects(ctx.sel, ctx'.list, ctx'.sel)
    <3>1. ctx.reads[i] \in IdSets
      BY <1>1, <2>2
    <3>2. ctx.reads[i] \in SUBSET Ids
      BY <2>6, <3>1
    <3>3. ctx' = [list |-> ctx.reads[i], sel |-> id, reads |-> r]
      BY <2>3, <2>6
    <3>4. CtxInv' /\ ctx'.list = ctx.reads[i] /\ ctx'.sel = id
      BY <2>1, <2>4, <3>2, <3>3, BarKept
    <3> QED BY <2>6, <3>4
  <2> QED BY <2>2, <2>5, <2>6
<1>5. CASE ChooseInstance
  <2>1. PICK id \in ctx.list : ctx' = [ctx EXCEPT !.sel = id]
    BY <1>5 DEF ChooseInstance
  <2>2. ctx' = [list |-> ctx.list, sel |-> id, reads |-> ctx.reads] /\ id \in Ids \cup {NoId}
    BY <1>1, <2>1 DEF CtxInv
  <2>3. UNCHANGED <<instances, auth>>
    BY <1>5 DEF ChooseInstance
  <2> QED BY <1>1, <2>2, <2>3, BarKept
<1> QED BY <1>2, <1>3, <1>4, <1>5 DEF ContextNext, CPIInstanceProvider

LEMMA ContextStart == ContextInit => CtxInv /\ SelectionListed
<1> SUFFICES ASSUME ContextInit PROVE CtxInv /\ SelectionListed
  OBVIOUS
<1>1. PICK r : r = <<Unread>>
  OBVIOUS
<1>2. r \in Seq((SUBSET Ids) \cup {Unread})
  BY <1>1
<1>3. ctx = [list |-> {}, sel |-> NoId, reads |-> r]
  BY <1>1 DEF ContextInit
<1> QED BY <1>2, <1>3 DEF ContextInit, CtxInv, SelectionListed

LEMMA ListedStep ==
    ASSUME CtxInv, SelectionListed, [ContextNext]_contextVars PROVE SelectionListed'
<1>1. CASE Selects(ctx.sel, ctx'.list, ctx'.sel)
  BY <1>1 DEF Selects, SelectionListed
<1>2. CASE ctx'.list = ctx.list /\ (ctx'.sel = ctx.sel \/ ctx'.sel \in ctx.list)
  BY <1>2 DEF SelectionListed
<1> QED BY <1>1, <1>2, ContextStep

(* The selected instance is one of those listed, for any number of instances  *)
(* and of lists under way.                                                    *)
THEOREM SelectedListed == ContextSpec => []SelectionListed
<1>1. CtxInv /\ SelectionListed /\ [ContextNext]_contextVars => CtxInv' /\ SelectionListed'
  BY ContextStep, ListedStep
<1> QED BY <1>1, ContextStart, PTL DEF ContextSpec

(* No list turns the tools to another instance while the chosen one is in it. *)
THEOREM ChoiceKept == ContextSpec => SelectionSticks
<1>1. CtxInv /\ [ContextNext]_contextVars =>
        CtxInv' /\ (ctx'.sel # ctx.sel => ctx'.reads = ctx.reads \/ ctx.sel \notin ctx'.list)
  BY ContextStep DEF Selects
<1> QED BY <1>1, ContextStart, PTL DEF ContextSpec, SelectionSticks

LEMMA ContextTyped == CtxInv => ContextTypeOK
BY DEF CtxInv, ContextTypeOK

(* The list, the selection and the lists under way are of instances.          *)
THEOREM ContextTypes == ContextSpec => []ContextTypeOK
<1>1. CtxInv /\ [ContextNext]_contextVars => CtxInv'
  BY ContextStep
<1> QED BY <1>1, ContextTyped, ContextStart, PTL DEF ContextSpec

-------------------------------------------------------------------------------
(* The sections with a form, a button and a result                            *)

PanelOK(s, p) ==
    /\ p = [form |-> p.form, worker |-> p.worker, result |-> p.result]
    /\ p.form \in Forms[s]
    /\ OneInFlight(p.worker) /\ WorkerOf(p.worker, PanelRequests(s))
    /\ p.result \in PanelRequests(s) \cup {Nothing}

PanelsInv ==
    /\ panels = [s \in Sections |-> panels[s]]
    /\ \A s \in Sections : PanelOK(s, panels[s])

(* A step of the panel that shows its last answer.                            *)
PanelMoves(p, q) ==
    \/ q.worker = p.worker /\ q.result \in {p.result, Nothing}
    \/ Awaited(q.worker) # Nothing /\ q.result = Nothing
    \/ /\ Awaited(p.worker) # Nothing /\ Awaited(q.worker) = Nothing
       /\ q.result \in {p.result, Awaited(p.worker)}

(* What is asked for is a request: the days of a certificate are clamped.     *)
LEMMA AskedIsRequest ==
    ASSUME NEW s \in Sections, NEW f \in Forms[s]
    PROVE  RequestOf(s, f) \in PanelRequests(s) /\ RequestOf(s, f) # Nothing
<1>1. CASE s = "cert"
  <2>1. f.cn \in Texts /\ f.days \in Typed
    BY <1>1 DEF Forms
  <2>2. ValidityNum(f.days) \in 1 .. MaxDays
    BY <2>1 DEF ValidityNum, Typed, MaxDays
  <2>3. RequestOf(s, f) \in PanelRequests(s)
    BY <1>1, <2>1, <2>2 DEF RequestOf, PanelRequests
  <2> QED BY <2>3, PanelQuestions
<1>2. CASE s # "cert"
  BY <1>2, PanelQuestions DEF RequestOf, PanelRequests
<1> QED BY <1>1, <1>2

(* The section that moves.                                                    *)
LEMMA SectionStep ==
    ASSUME PanelsInv, NEW s \in Sections, Section(s) \/ ClearResult(s)
    PROVE  \E q : /\ PanelOK(s, q) /\ PanelMoves(panels[s], q)
                 /\ panels' = [panels EXCEPT ![s] = q]
<1>1. PanelOK(s, panels[s]) /\ panels = [t \in Sections |-> panels[t]]
  BY DEF PanelsInv
<1>2. CASE EditForm(s)
  <2>1. PICK f, r, q :
          /\ f \in Forms[s] /\ r \in {panels[s].result, Nothing}
          /\ q = [panels[s] EXCEPT !.form = f, !.result = r]
          /\ panels' = [panels EXCEPT ![s] = q]
    BY <1>1, <1>2 DEF EditForm, PanelOK
  <2>2. q.form = f /\ q.worker = panels[s].worker /\ q.result = r
    BY <1>1, <2>1 DEF PanelOK
  <2>3. q = [form |-> q.form, worker |-> q.worker, result |-> q.result]
    BY <1>1, <2>1 DEF PanelOK
  <2> QED BY <1>1, <2>1, <2>2, <2>3 DEF PanelOK, PanelMoves
<1>3. CASE Generate(s)
  <2>1. ~panels[s].worker.loading
    BY <1>3 DEF Generate, CanGenerate
  <2>2. PICK rq : rq = RequestOf(s, panels[s].form)
    OBVIOUS
  <2>3. PICK w : w = Posted(panels[s].worker, rq)
    OBVIOUS
  <2>4. rq \in PanelRequests(s) /\ rq # Nothing
    BY <1>1, <2>2, AskedIsRequest DEF PanelOK
  <2>5. OneInFlight(w) /\ Awaited(w) # Nothing
    BY <1>1, <2>1, <2>3, <2>4, PostedWorker DEF PanelOK
  <2>6. WorkerOf(w, PanelRequests(s))
    BY <1>1, <2>1, <2>3, <2>4, PostedTyped DEF PanelOK
  <2>7. PICK q : /\ q = [panels[s] EXCEPT !.result = Nothing, !.worker = w]
                 /\ panels' = [panels EXCEPT ![s] = q]
    BY <1>1, <1>3, <2>2, <2>3 DEF Generate, PanelOK
  <2>8. q.form = panels[s].form /\ q.worker = w /\ q.result = Nothing
    BY <1>1, <2>7 DEF PanelOK
  <2>9. q = [form |-> q.form, worker |-> q.worker, result |-> q.result]
    BY <1>1, <2>7 DEF PanelOK
  <2> QED BY <1>1, <2>7, <2>8, <2>9, <2>6, <2>5 DEF PanelOK, PanelMoves
<1>4. CASE PanelArrives(s)
  <2>1. PICK i \in DOMAIN panels[s].worker.flight, ok \in BOOLEAN :
          panels' = [panels EXCEPT ![s].worker = Ended(panels[s].worker, i, ok),
                       ![s].result = IF ok THEN panels[s].worker.flight[i] ELSE panels[s].result]
    BY <1>1, <1>4 DEF PanelArrives, PanelOK
  <2>2. PICK w : w = Ended(panels[s].worker, i, ok)
    OBVIOUS
  <2>3. /\ OneInFlight(w) /\ Awaited(w) = Nothing
        /\ Awaited(panels[s].worker) = panels[s].worker.flight[i]
        /\ Awaited(panels[s].worker) # Nothing
    BY <1>1, <2>2, EndedWorker DEF PanelOK
  <2>4. WorkerOf(w, PanelRequests(s)) /\ panels[s].worker.flight[i] \in PanelRequests(s)
    BY <1>1, <2>2, EndedTyped DEF PanelOK
  <2>5. PICK r \in {panels[s].result, panels[s].worker.flight[i]} :
          panels' = [panels EXCEPT ![s].worker = w, ![s].result = r]
    BY <2>1, <2>2
  <2>6. PICK q : /\ q = [panels[s] EXCEPT !.worker = w, !.result = r]
                 /\ panels' = [panels EXCEPT ![s] = q]
    BY <1>1, <2>5 DEF PanelOK
  <2>7. q.form = panels[s].form /\ q.worker = w /\ q.result = r
    BY <1>1, <2>6 DEF PanelOK
  <2>8. q = [form |-> q.form, worker |-> q.worker, result |-> q.result]
    BY <1>1, <2>6 DEF PanelOK
  <2> QED BY <1>1, <2>3, <2>5, <2>6, <2>7, <2>8, <2>4 DEF PanelOK, PanelMoves
<1>5. CASE ClearResult(s)
  <2>1. PICK q : /\ q = [panels[s] EXCEPT !.result = Nothing]
                 /\ panels' = [panels EXCEPT ![s] = q]
    BY <1>1, <1>5 DEF ClearResult
  <2>2. q.form = panels[s].form /\ q.worker = panels[s].worker /\ q.result = Nothing
    BY <1>1, <2>1 DEF PanelOK
  <2>3. q = [form |-> q.form, worker |-> q.worker, result |-> q.result]
    BY <1>1, <2>1 DEF PanelOK
  <2> QED BY <1>1, <2>1, <2>2, <2>3 DEF PanelOK, PanelMoves
<1> QED BY <1>2, <1>3, <1>4, <1>5 DEF Section

(* The text that was generated goes into the form of the other section.       *)
LEMMA OpenStep ==
    ASSUME PanelsInv, OpenInToXml
    PROVE  \E q : /\ PanelOK("toXml", q) /\ PanelMoves(panels["toXml"], q)
                 /\ panels' = [panels EXCEPT !["toXml"] = q]
<1>1. "toXml" \in Sections
  BY DEF Sections, Forms
<1>2. PanelOK("toXml", panels["toXml"]) /\ panels = [t \in Sections |-> panels[t]]
  BY <1>1 DEF PanelsInv
<1>3. PICK text \in Texts : panels' = [panels EXCEPT !["toXml"].form.text = text]
  BY DEF OpenInToXml
<1>4. PICK f : f = [panels["toXml"].form EXCEPT !.text = text]
  OBVIOUS
<1>5. f \in Forms["toXml"]
  BY <1>2, <1>4 DEF PanelOK, Forms
<1>6. PICK q : /\ q = [panels["toXml"] EXCEPT !.form = f]
               /\ panels' = [panels EXCEPT !["toXml"] = q]
  BY <1>1, <1>2, <1>3, <1>4 DEF PanelOK
<1>7. q.form = f /\ q.worker = panels["toXml"].worker /\ q.result = panels["toXml"].result
  BY <1>2, <1>6 DEF PanelOK
<1>8. q = [form |-> q.form, worker |-> q.worker, result |-> q.result]
  BY <1>2, <1>6 DEF PanelOK
<1> QED BY <1>2, <1>5, <1>6, <1>7, <1>8 DEF PanelOK, PanelMoves

(* Every step moves one section and is a step of every section's panel.       *)
LEMMA PanelsStep ==
    ASSUME PanelsInv, [PanelNext]_panelVars
    PROVE  PanelsInv' /\ \A s \in Sections : PanelMoves(panels[s], panels'[s])
<1>1. CASE UNCHANGED panelVars
  BY <1>1 DEF PanelsInv, PanelOK, PanelMoves, panelVars
<1>2. CASE PanelNext
  <2>1. PICK s, q : /\ s \in Sections /\ PanelOK(s, q) /\ PanelMoves(panels[s], q)
                    /\ panels' = [panels EXCEPT ![s] = q]
    <3>1. {"pgp", "ssh", "cert", "parse", "fromXml", "generate", "toXml"} \subseteq Sections
      BY DEF Sections, Forms
    <3>2. CASE \E s \in Sections : Section(s) \/ ClearResult(s)
      BY <3>2, SectionStep
    <3>3. CASE OpenInToXml
      BY <3>1, <3>3, OpenStep
    <3> QED BY <1>2, <3>1, <3>2, <3>3 DEF PanelNext, PGPSection, SSHSection, CertGen, Parse,
              FromXml, GenerateAndOpen
  <2>2. panels' = [t \in Sections |-> IF t = s THEN q ELSE panels[t]]
    BY <2>1 DEF PanelsInv
  <2>3. panels' = [t \in Sections |-> panels'[t]]
    BY <2>2
  <2>4. \A t \in Sections : panels'[t] = IF t = s THEN q ELSE panels[t]
    BY <2>2
  <2>5. \A t \in Sections : PanelOK(t, panels'[t]) /\ PanelMoves(panels[t], panels'[t])
    BY <2>1, <2>4 DEF PanelsInv, PanelMoves
  <2>6. PanelsInv'
    BY <2>3, <2>5 DEF PanelsInv, PanelOK
  <2> QED BY <2>5, <2>6
<1> QED BY <1>1, <1>2

(* The forms the sections start with.                                         *)
LEMMA FirstFormsTyped ==
    ASSUME NEW text \in Texts, NEW s \in Sections
    PROVE  FirstForms(text)[s] \in Forms[s]
<1>1. s \in {"pgp", "ssh", "cert", "parse", "toXml", "fromXml", "generate"}
  BY DEF Sections, Forms
<1>2. CASE s = "cert"
  <2>1. MaxDays \in Typed
    BY DEF Typed
  <2>2. FirstForms(text)["cert"] = [cn |-> Blank, days |-> MaxDays]
    BY DEF FirstForms
  <2>3. [cn |-> Blank, days |-> MaxDays] \in Forms["cert"]
    BY <2>1, PanelTexts DEF Forms
  <2> QED BY <1>2, <2>2, <2>3
<1>3. CASE s = "generate"
  <2>1. "EDIFACT" \in DOMAIN MsgTypes /\ "ORDERS" \in MsgTypes["EDIFACT"]
    BY DEF MsgTypes
  <2>2. [standard |-> "EDIFACT", type |-> "ORDERS"]
           \in [standard : {"EDIFACT"}, type : MsgTypes["EDIFACT"]]
    BY <2>1
  <2>3. [standard |-> "EDIFACT", type |-> "ORDERS"] \in EdiMessages
    BY <2>1, <2>2 DEF EdiMessages
  <2>4. /\ FirstForms(text)["generate"] = [standard |-> "EDIFACT", type |-> "ORDERS"]
        /\ EdiMessages = Forms["generate"]
    BY DEF FirstForms, Forms
  <2> QED BY <1>3, <2>3, <2>4
<1>4. CASE s = "pgp"
  <2>1. FirstForms(text)["pgp"] = [who |-> Blank, bits |-> 2048]
    BY DEF FirstForms
  <2>2. [who |-> Blank, bits |-> 2048] \in Forms["pgp"]
    BY PanelTexts DEF Forms
  <2> QED BY <1>4, <2>1, <2>2
<1>5. CASE s = "ssh"
  <2>1. FirstForms(text)["ssh"] = [type |-> "rsa", bits |-> 4096]
    BY DEF FirstForms
  <2>2. [type |-> "rsa", bits |-> 4096] \in Forms["ssh"]
    BY DEF Forms
  <2> QED BY <1>5, <2>1, <2>2
<1>6. CASE s = "toXml"
  <2>1. FirstForms(text)["toXml"] = [text |-> text, format |-> "semantic"]
    BY DEF FirstForms
  <2>2. [text |-> text, format |-> "semantic"] \in Forms["toXml"]
    BY DEF Forms
  <2> QED BY <1>6, <2>1, <2>2
<1>7. CASE s \in {"parse", "fromXml"}
  <2>1. FirstForms(text)["parse"] = [text |-> text] /\ FirstForms(text)["fromXml"] = [text |-> Blank]
    BY DEF FirstForms
  <2>2. [text |-> text] \in Forms["parse"] /\ [text |-> Blank] \in Forms["fromXml"]
    BY PanelTexts DEF Forms
  <2> QED BY <1>7, <2>1, <2>2
<1> QED BY <1>1, <1>2, <1>3, <1>4, <1>5, <1>6, <1>7

LEMMA PanelsStart == PanelInit => PanelsInv /\ \A s \in Sections : SectionPanel(s)!Init
<1> SUFFICES ASSUME PanelInit PROVE PanelsInv /\ \A s \in Sections : SectionPanel(s)!Init
  OBVIOUS
<1>1. PICK sample \in Texts :
        panels = [t \in Sections |->
                    [form |-> FirstForms(sample)[t], worker |-> Idle, result |-> Nothing]]
  BY DEF PanelInit
<1>2. \A t \in Sections : FirstForms(sample)[t] \in Forms[t]
  BY FirstFormsTyped
<1>3. \A t \in Sections : /\ panels[t].form \in Forms[t] /\ panels[t].worker = Idle
                          /\ panels[t].result = Nothing /\ PanelOK(t, panels[t])
  BY <1>1, <1>2, IdleWorker, IdleTyped DEF PanelOK
<1> QED BY <1>1, <1>3, IdleWorker DEF PanelsInv, SectionPanel!Init

(* What a step of a section is for the panel that shows its last answer.      *)
LEMMA PanelStep ==
    ASSUME PanelsInv, [PanelNext]_panelVars, NEW s \in Sections
    PROVE  [SectionPanel(s)!Next]_<<Awaited(panels[s].worker), panels[s].result>>
<1>1. PanelMoves(panels[s], panels'[s])
  BY PanelsStep
<1> QED BY <1>1 DEF PanelMoves, SectionPanel!Next, SectionPanel!Ask, SectionPanel!Answer,
          SectionPanel!Clear

(* Each section implements the panel that shows the answer to its last form   *)
(* submitted, for any texts and however the sections are used.                *)
THEOREM SectionShowsLastAnswer ==
    ASSUME NEW s \in Sections
    PROVE  PanelSpec => SectionPanel(s)!Spec
<1>1. PanelInit => PanelsInv /\ SectionPanel(s)!Init
  BY PanelsStart
<1>2. PanelsInv /\ [PanelNext]_panelVars =>
        PanelsInv' /\ [SectionPanel(s)!Next]_<<Awaited(panels[s].worker), panels[s].result>>
  BY PanelsStep, PanelStep
<1> QED BY <1>1, <1>2, PTL DEF PanelSpec, SectionPanel!Spec

LEMMA PanelsTyped == PanelsInv => PanelTypeOK
BY DEF PanelsInv, PanelOK, PanelTypeOK

(* Certificates are asked for with 1 to 90 days, whatever was typed, and EDI  *)
(* messages with a type of their standard (CertGen.tsx, EDITools.tsx).        *)
THEOREM PanelTypes == PanelSpec => []PanelTypeOK
<1>1. PanelsInv /\ [PanelNext]_panelVars => PanelsInv'
  BY PanelsStep
<1> QED BY <1>1, PanelsTyped, PanelsStart, PTL DEF PanelSpec

-------------------------------------------------------------------------------
(* The HTTP client                                                            *)

(* The recursive function that Held is made of exists, and gives rows.        *)
LEMMA HeldThere ==
    ASSUME NEW rows \in Seq(Row), NEW F,
           F = CHOOSE g : g = [n \in 0 .. Len(rows) |->
                    IF n = 0 THEN <<>>
                    ELSE IF rows[n] = EmptyRow THEN g[n - 1] ELSE Append(g[n - 1], rows[n])]
    PROVE  F[Len(rows)] \in Seq(Row)
<1> DEFINE N == Len(rows)
           Step(g, n) == IF n = 0 THEN <<>>
                         ELSE IF rows[n] = EmptyRow THEN g[n - 1] ELSE Append(g[n - 1], rows[n])
           Built(g, m) == g \in [0 .. m -> Seq(Row)] /\ \A n \in 0 .. m : g[n] = Step(g, n)
           T == {m \in 0 .. N : \E g : Built(g, m)}
           U == {n \in 0 .. N : F[n] \in Seq(Row)}
<1>1. N \in Nat /\ <<>> \in Seq(Row) /\ \A n \in 1 .. N : rows[n] \in Row
  OBVIOUS
<1> HIDE DEF N
<1>2. 0 \in T
  <2>1. Built([n \in 0 .. 0 |-> <<>>], 0)
    BY <1>1
  <2>2. 0 \in 0 .. N
    BY <1>1
  <2> HIDE DEF Built
  <2> QED BY <2>1, <2>2
<1>3. ASSUME NEW m \in 1 .. N, m - 1 \in T PROVE m \in T
  <2>1. PICK g : Built(g, m - 1)
    BY <1>3
  <2> DEFINE h == [n \in 0 .. m |-> IF n = m THEN Step(g, m) ELSE g[n]]
  <2>2. m - 1 \in 0 .. m - 1 /\ m # 0 /\ rows[m] \in Row /\ \A n \in 0 .. m : n = m \/ n \in 0 .. m - 1
    BY <1>1
  <2>3. g[m - 1] \in Seq(Row)
    BY <2>1, <2>2
  <2>4. Step(g, m) \in Seq(Row)
    BY <2>2, <2>3, AppendProperties
  <2>5. h \in [0 .. m -> Seq(Row)]
    BY <2>1, <2>2, <2>4
  <2>6. ASSUME NEW n \in 0 .. m PROVE h[n] = Step(h, n)
    <3>1. h[n] = Step(g, n)
      BY <2>1, <2>2
    <3>2. n # 0 => n - 1 \in 0 .. m /\ n - 1 # m
      BY <1>1
    <3>3. n # 0 => h[n - 1] = g[n - 1]
      BY <3>2
    <3> QED BY <3>1, <3>3
  <2>7. Built(h, m)
    BY <2>5, <2>6
  <2>8. m \in 0 .. N
    BY <1>1
  <2> HIDE DEF Built, h
  <2> QED BY <2>7, <2>8
<1>4. N \in T
  <2> HIDE DEF T
  <2>1. 0 .. N \subseteq T
    BY <1>1, <1>2, <1>3, UpTo
  <2> QED BY <1>1, <2>1
<1>5. PICK g : Built(g, N)
  BY <1>4
<1>6. g = [n \in 0 .. N |-> Step(g, n)]
  BY <1>5
<1>7. F = [n \in 0 .. N |-> Step(F, n)]
  BY <1>6 DEF N
<1>8. 0 \in U
  <2>1. 0 \in 0 .. N
    BY <1>1
  <2>2. F[0] = <<>>
    BY <1>7, <2>1
  <2> QED BY <1>1, <2>1, <2>2
<1>9. ASSUME NEW m \in 1 .. N, m - 1 \in U PROVE m \in U
  <2>1. m \in 0 .. N /\ m # 0 /\ rows[m] \in Row /\ F[m - 1] \in Seq(Row)
    BY <1>1, <1>9
  <2>2. F[m] = Step(F, m)
    BY <1>7, <2>1
  <2>3. F[m] \in {F[m - 1], Append(F[m - 1], rows[m])}
    BY <2>1, <2>2
  <2>4. \A a \in Seq(Row), b \in Row : Append(a, b) \in Seq(Row)
    BY AppendProperties
  <2>5. F[m] \in Seq(Row)
    BY <2>1, <2>3, <2>4, Zenon
  <2> QED BY <2>1, <2>5
<1>10. N \in U
  <2> HIDE DEF U
  <2>1. 0 .. N \subseteq U
    BY <1>1, <1>8, <1>9, UpTo
  <2> QED BY <1>1, <2>1
<1> QED BY <1>10 DEF N

LEMMA HeldIs == ASSUME NEW rows \in Seq(Row) PROVE Held(rows) \in Seq(Row)
BY HeldThere DEF Held

(* The forms of the header editor.                                            *)
LEMMA HeaderRows == \A s : s \in Rows <=> s \in Seq(Row) /\ Len(s) \in 1 .. MaxRows
<1>1. ASSUME NEW s \in Rows PROVE s \in Seq(Row) /\ Len(s) \in 1 .. MaxRows
  BY <1>1, HttpRows DEF Rows
<1>2. ASSUME NEW s \in Seq(Row), Len(s) \in 1 .. MaxRows PROVE s \in Rows
  <2>1. s \in [1 .. Len(s) -> Row]
    OBVIOUS
  <2> QED BY <1>2, <2>1 DEF Rows
<1> QED BY <1>1, <1>2

(* The rows with a name, and their names.                                     *)
NamedRows(rows) == {i \in DOMAIN rows : rows[i].key # ""}
NamesOf(rows) == {rows[i].key : i \in NamedRows(rows)}

LEMMA HeadersAre ==
    ASSUME NEW rows
    PROVE  HeadersOf(rows) = [k \in NamesOf(rows) |-> HeadersOf(rows)[k]]
<1>1. PICK h : h = HeadersOf(rows)
  OBVIOUS
<1>2. \E v : h = [k \in NamesOf(rows) |-> v[k]]
  <2> DEFINE v == [k \in NamesOf(rows) |->
                     rows[CHOOSE i \in NamedRows(rows) :
                            /\ rows[i].key = k
                            /\ \A j \in NamedRows(rows) : rows[j].key = k => j <= i].value]
  <2>1. h = v
    BY <1>1, Zenon DEF HeadersOf, NamesOf, NamedRows
  <2>2. v = [k \in NamesOf(rows) |-> v[k]]
    OBVIOUS
  <2> HIDE DEF v
  <2> QED BY <2>1, <2>2
<1>3. h = [k \in NamesOf(rows) |-> h[k]]
  BY <1>2
<1> QED BY <1>1, <1>3

(* Of the rows with a name, the last counts: there is one.                    *)
LEMMA LastNamed ==
    ASSUME NEW rows \in Seq(Row), NEW k \in NamesOf(rows)
    PROVE  \E i \in NamedRows(rows) : rows[i].key = k /\ HeadersOf(rows)[k] = rows[i].value
<1> DEFINE named == NamedRows(rows)
           T == {i \in named : rows[i].key = k}
<1>1. T # {}
  BY DEF NamesOf
<1>2. T \in SUBSET (1 .. Len(rows)) /\ Len(rows) \in Nat
  <2>1. DOMAIN rows = 1 .. Len(rows) /\ Len(rows) \in Nat
    OBVIOUS
  <2>2. \A i \in T : i \in 1 .. Len(rows)
    BY <2>1 DEF NamedRows
  <2> HIDE DEF T
  <2> QED BY <2>1, <2>2
<1>3. PICK i \in T : \A j \in T : j <= i
  <2> HIDE DEF T
  <2> QED BY <1>1, <1>2, GreatestOne
<1>4. PICK l : /\ l = CHOOSE i_1 \in named :
                        rows[i_1].key = k /\ \A j \in named : rows[j].key = k => j <= i_1
               /\ l \in named /\ rows[l].key = k
  <2>1. \E l \in named : rows[l].key = k /\ \A j \in named : rows[j].key = k => j <= l
    BY <1>3
  <2> QED BY <2>1
<1>5. HeadersOf(rows)[k] = rows[l].value
  BY <1>4 DEF HeadersOf, NamesOf, NamedRows
<1> QED BY <1>4, <1>5

(* Headers made of rows are an object.                                        *)
LEMMA HeadersTyped == ASSUME NEW rows \in Seq(Row) PROVE HeadersOf(rows) \in Objects
<1> DEFINE K == NamesOf(rows)
           f == [i \in NamedRows(rows) |-> rows[i].key]
<1>1. ASSUME NEW i \in DOMAIN rows
      PROVE  rows[i].key \in Keys \cup {""} /\ rows[i].value \in Values \cup {""}
  <2>1. rows[i] \in Row
    OBVIOUS
  <2> QED BY <2>1 DEF Row
<1>2. K \subseteq Keys
  BY <1>1 DEF NamesOf, NamedRows
<1>3. IsFiniteSet(NamedRows(rows))
  <2>1. DOMAIN rows = 1 .. Len(rows) /\ Len(rows) \in Nat
    OBVIOUS
  <2>2. IsFiniteSet(1 .. Len(rows))
    BY <2>1, FS_Interval
  <2>3. NamedRows(rows) \subseteq 1 .. Len(rows)
    BY <2>1 DEF NamedRows
  <2> QED BY <2>2, <2>3, FS_Subset
<1>4. IsFiniteSet(K)
  <2>1. f \in Surjection(NamedRows(rows), K)
    BY DEF Surjection, NamesOf
  <2> QED BY <1>3, <2>1, FS_Surjection
<1> HIDE DEF K
<1>5. HeadersOf(rows) = [k \in K |-> HeadersOf(rows)[k]]
  BY HeadersAre DEF K
<1>6. ASSUME NEW k \in K PROVE HeadersOf(rows)[k] \in Values \cup {""}
  <2>1. PICK i \in NamedRows(rows) : HeadersOf(rows)[k] = rows[i].value
    BY LastNamed DEF K
  <2> QED BY <1>1, <2>1 DEF NamedRows
<1>7. HeadersOf(rows) \in [K -> Values \cup {""}]
  BY <1>5, <1>6
<1> QED BY <1>2, <1>4, <1>7 DEF Objects

(* The rows of an object: its entries in some order, and an empty row.        *)
LEMMA RowsOfObject ==
    ASSUME NEW o \in Objects
    PROVE  /\ RowsOf(o) \in Seq(Row) /\ Len(RowsOf(o)) \in 1 .. Cardinality(DOMAIN o) + 1
           /\ Cardinality(DOMAIN o) \in Nat
           /\ \A i \in DOMAIN RowsOf(o) : /\ RowsOf(o)[i].key # "" =>
                                                 /\ RowsOf(o)[i].key \in DOMAIN o
                                                 /\ RowsOf(o)[i].value = o[RowsOf(o)[i].key]
           /\ \A k \in DOMAIN o : \E i \in DOMAIN RowsOf(o) : RowsOf(o)[i].key = k
<1>1. PICK K \in SUBSET Keys : IsFiniteSet(K) /\ o \in [K -> Values \cup {""}]
  BY DEF Objects
<1> DEFINE entry(k) == [key |-> k, value |-> o[k]]
           S == {entry(k) : k \in DOMAIN o}
           f == [k \in DOMAIN o |-> entry(k)]
<1>2. f \in Surjection(DOMAIN o, S) /\ DOMAIN o = K
  BY <1>1 DEF Surjection
<1>3. /\ IsFiniteSet(S) /\ Cardinality(S) <= Cardinality(DOMAIN o)
      /\ Cardinality(S) \in Nat /\ Cardinality(DOMAIN o) \in Nat
  BY <1>1, <1>2, FS_Surjection, FS_CardinalityType
<1>4. S \subseteq Row /\ EmptyRow \in Row
  <2>1. ASSUME NEW k \in DOMAIN o PROVE entry(k) \in Row
    <3>1. k \in Keys /\ o[k] \in Values \cup {""}
      BY <1>1
    <3> QED BY <3>1 DEF Row
  <2>2. EmptyRow \in Row
    BY DEF Row, EmptyRow
  <2> QED BY <2>1, <2>2
<1>5. PICK s : s = SetToSeq(S)
  OBVIOUS
<1>6. /\ s \in Seq(S) /\ Len(s) = Cardinality(S)
      /\ \A x \in S : \E i \in DOMAIN s : s[i] = x
  <2> HIDE DEF S
  <2> QED BY <1>3, <1>5, InSomeOrder
<1>7. RowsOf(o) = Append(s, EmptyRow)
  BY <1>5 DEF RowsOf
<1>8. s \in Seq(Row)
  <2> HIDE DEF S
  <2> QED BY <1>4, <1>6
<1>9. /\ RowsOf(o) \in Seq(Row) /\ Len(RowsOf(o)) = Len(s) + 1
      /\ \A i \in 1 .. Len(s) : RowsOf(o)[i] = s[i]
      /\ RowsOf(o)[Len(s) + 1] = EmptyRow
  BY <1>4, <1>7, <1>8, AppendProperties
<1>10. Len(RowsOf(o)) \in 1 .. Cardinality(DOMAIN o) + 1
  <2> HIDE DEF S
  <2> QED BY <1>3, <1>6, <1>9
<1>11. ASSUME NEW i \in DOMAIN RowsOf(o), RowsOf(o)[i].key # ""
       PROVE  RowsOf(o)[i].key \in DOMAIN o /\ RowsOf(o)[i].value = o[RowsOf(o)[i].key]
  <2>1. i \in 1 .. Len(s)
    <3>1. i \in 1 .. Len(s) + 1 /\ Len(s) \in Nat
      BY <1>8, <1>9
    <3>2. EmptyRow.key = ""
      BY DEF EmptyRow
    <3>3. i # Len(s) + 1
      BY <1>9, <1>11, <3>2
    <3> QED BY <3>1, <3>3
  <2>2. s[i] \in S
    <3> HIDE DEF S
    <3> QED BY <1>6, <2>1
  <2> QED BY <1>9, <2>1, <2>2
<1>12. ASSUME NEW k \in DOMAIN o PROVE \E i \in DOMAIN RowsOf(o) : RowsOf(o)[i].key = k
  <2>1. entry(k) \in S
    OBVIOUS
  <2>2. PICK i \in DOMAIN s : s[i] = entry(k)
    <3> HIDE DEF S
    <3> QED BY <1>6, <2>1
  <2>3. i \in 1 .. Len(s) /\ i \in DOMAIN RowsOf(o)
    BY <1>8, <1>9
  <2> QED BY <1>9, <2>2, <2>3
<1> QED BY <1>3, <1>9, <1>10, <1>11, <1>12

(* An object made into rows and read back is the object.                      *)
LEMMA ReadBack == ASSUME NEW o \in Objects PROVE HeadersOf(RowsOf(o)) = o
<1>1. PICK K \in SUBSET Keys : o \in [K -> Values \cup {""}]
  BY DEF Objects
<1>2. PICK rows : rows = RowsOf(o)
  OBVIOUS
<1>3. /\ rows \in Seq(Row)
      /\ \A i \in DOMAIN rows : rows[i].key # "" =>
            rows[i].key \in DOMAIN o /\ rows[i].value = o[rows[i].key]
      /\ \A k \in DOMAIN o : \E i \in DOMAIN rows : rows[i].key = k
  BY <1>2, RowsOfObject
<1>4. NamesOf(rows) = K
  <2>1. ASSUME NEW k \in K PROVE k \in NamesOf(rows)
    <3>1. PICK i \in DOMAIN rows : rows[i].key = k
      BY <1>1, <1>3
    <3>2. k # ""
      BY HttpNames
    <3> QED BY <3>1, <3>2 DEF NamesOf, NamedRows
  <2>2. ASSUME NEW i \in NamedRows(rows) PROVE rows[i].key \in K
    BY <1>1, <1>3 DEF NamedRows
  <2> QED BY <2>1, <2>2 DEF NamesOf
<1>5. HeadersOf(rows) = [k \in K |-> HeadersOf(rows)[k]]
  BY <1>4, HeadersAre
<1>6. ASSUME NEW k \in K PROVE HeadersOf(rows)[k] = o[k]
  <2>1. PICK i \in NamedRows(rows) : rows[i].key = k /\ HeadersOf(rows)[k] = rows[i].value
    BY <1>3, <1>4, LastNamed
  <2> QED BY <1>3, <2>1 DEF NamedRows
<1> QED BY <1>1, <1>2, <1>5, <1>6

HcInv ==
    /\ hc = [method |-> hc.method, url |-> hc.url, headers |-> hc.headers, body |-> hc.body,
             worker |-> hc.worker, response |-> hc.response]
    /\ hc.method \in Methods /\ hc.url \in UrlFields /\ hc.body \in BodyFields
    /\ hc.headers \in Seq(Row) /\ Len(hc.headers) \in 1 .. MaxRows
    /\ OneInFlight(hc.worker) /\ WorkerOf(hc.worker, HttpRequests)
    /\ hc.response \in HttpRequests \cup {Nothing}

(* What the form stands for is a request, also without the body of a GET.     *)
LEMMA FormIsRequest ==
    ASSUME HcInv PROVE requestAsJson(hc) \in HttpRequests /\ Sent(hc) \in HttpRequests
<1>1. HeadersOf(hc.headers) \in Objects
  BY HeadersTyped DEF HcInv
<1> QED BY <1>1 DEF HcInv, requestAsJson, Sent, HttpRequests, BodyFields

(* The form gets other contents.                                              *)
LEMMA FormChanged ==
    ASSUME HcInv, NEW m \in Methods, NEW u \in UrlFields, NEW h \in Seq(Row),
           Len(h) \in 1 .. MaxRows, NEW b \in BodyFields,
           hc' = [method |-> m, url |-> u, headers |-> h, body |-> b, worker |-> hc.worker,
                  response |-> hc.response]
    PROVE  HcInv' /\ hc'.worker = hc.worker /\ hc'.response = hc.response
<1>1. /\ hc'.method = m /\ hc'.url = u /\ hc'.headers = h /\ hc'.body = b
      /\ hc'.worker = hc.worker /\ hc'.response = hc.response
  OBVIOUS
<1>2. /\ OneInFlight(hc.worker) /\ WorkerOf(hc.worker, HttpRequests)
      /\ hc.response \in HttpRequests \cup {Nothing}
  BY DEF HcInv
<1> QED BY <1>1, <1>2 DEF HcInv

(* Header rows that are added keep the editor within its bounds.              *)
LEMMA RowsAdded ==
    ASSUME HcInv, LoadHeaders \/ UpdateHeader
    PROVE  \E h \in Seq(Row) : Len(h) \in 1 .. MaxRows /\ hc' = [hc EXCEPT !.headers = h]
<1>1. hc.headers \in Seq(Row) /\ Len(hc.headers) \in 1 .. MaxRows /\ MaxRows \in Nat
  BY HttpRows DEF HcInv
<1>2. EmptyRow \in Row
  BY DEF Row, EmptyRow
<1>3. CASE LoadHeaders
  <2>1. PICK rows \in Rows : LET new == Append(Held(hc.headers) \o rows, EmptyRow)
                             IN  Len(new) <= MaxRows /\ hc' = [hc EXCEPT !.headers = new]
    BY <1>3 DEF LoadHeaders
  <2>2. PICK k : k = Held(hc.headers)
    OBVIOUS
  <2>3. k \in Seq(Row) /\ rows \in Seq(Row)
    BY <1>1, <2>2, HeldIs, HeaderRows
  <2>4. PICK new : new = Append(k \o rows, EmptyRow)
    OBVIOUS
  <2>5. k \o rows \in Seq(Row)
    BY <2>3, ConcatProperties
  <2>6. new \in Seq(Row) /\ Len(new) = Len(k \o rows) + 1
    BY <1>2, <2>4, <2>5, AppendProperties
  <2>7. Len(new) <= MaxRows /\ hc' = [hc EXCEPT !.headers = new]
    BY <2>1, <2>2, <2>4
  <2>8. Len(new) \in 1 .. MaxRows
    BY <1>1, <2>5, <2>6, <2>7
  <2> QED BY <2>6, <2>7, <2>8
<1>4. CASE UpdateHeader
  <2>1. PICK i \in DOMAIN hc.headers, row \in Row :
          LET updated == [hc.headers EXCEPT ![i] = row]
              new == IF Last(updated) = EmptyRow THEN updated ELSE Append(updated, EmptyRow)
          IN  Len(new) <= MaxRows /\ hc' = [hc EXCEPT !.headers = new]
    BY <1>4 DEF UpdateHeader
  <2>2. PICK updated : updated = [hc.headers EXCEPT ![i] = row]
    OBVIOUS
  <2>3. updated \in Seq(Row) /\ Len(updated) = Len(hc.headers)
    BY <1>1, <2>2
  <2>4. PICK new : new = IF Last(updated) = EmptyRow THEN updated ELSE Append(updated, EmptyRow)
    OBVIOUS
  <2>5. new \in Seq(Row) /\ Len(new) \in {Len(updated), Len(updated) + 1}
    BY <1>2, <2>3, <2>4, AppendProperties
  <2>6. Len(new) <= MaxRows /\ hc' = [hc EXCEPT !.headers = new]
    BY <2>1, <2>2, <2>4
  <2>7. Len(new) \in 1 .. MaxRows
    BY <1>1, <2>3, <2>5, <2>6
  <2> QED BY <2>5, <2>6, <2>7
<1> QED BY <1>3, <1>4

(* Loading, typing, adding and removing rows keep the form's type.            *)
LEMMA HttpFormStep ==
    ASSUME HcInv, \/ loadRequestFromAsset \/ LoadBody \/ EditRequest \/ LoadHeaders
                  \/ HeadersEditor \/ UNCHANGED httpVars
    PROVE  HcInv' /\ hc'.worker = hc.worker /\ hc'.response = hc.response
<1>1. hc.headers \in Seq(Row) /\ Len(hc.headers) \in 1 .. MaxRows /\ MaxRows \in Nat
  BY HttpRows DEF HcInv
<1>2. hc.method \in Methods /\ hc.url \in UrlFields /\ hc.body \in BodyFields
  BY DEF HcInv
<1>3. CASE loadRequestFromAsset
  <2>1. PICK r \in HttpRequests : Cardinality(DOMAIN r.headers) < MaxRows /\ hc' = Loaded(hc, r)
    BY <1>3 DEF loadRequestFromAsset
  <2>2. r.headers \in Objects /\ r.method \in Methods /\ r.url \in UrlFields
        /\ r.body \in BodyFields
    BY DEF HttpRequests
  <2>3. PICK h : h = RowsOf(r.headers)
    OBVIOUS
  <2>4. h \in Seq(Row) /\ Len(h) \in 1 .. Cardinality(DOMAIN r.headers) + 1
        /\ Cardinality(DOMAIN r.headers) \in Nat
    BY <2>2, <2>3, RowsOfObject
  <2>5. Len(h) \in 1 .. MaxRows
    BY <1>1, <2>1, <2>4
  <2>6. PICK u \in UrlFields : u = IF r.url = "" THEN hc.url ELSE r.url
    BY <1>2, <2>2
  <2>7. hc' = [method |-> r.method, url |-> u, headers |-> h, body |-> r.body,
               worker |-> hc.worker, response |-> hc.response]
    BY <2>1, <2>3, <2>6 DEF Loaded, HcInv
  <2> QED BY <2>2, <2>4, <2>5, <2>7, FormChanged
<1>4. ASSUME NEW b \in BodyFields, hc' = [hc EXCEPT !.body = b]
      PROVE  HcInv' /\ hc'.worker = hc.worker /\ hc'.response = hc.response
  <2>1. hc' = [method |-> hc.method, url |-> hc.url, headers |-> hc.headers, body |-> b,
               worker |-> hc.worker, response |-> hc.response]
    BY <1>4 DEF HcInv
  <2> QED BY <1>1, <1>2, <2>1, FormChanged
<1>5. ASSUME NEW m \in Methods, hc' = [hc EXCEPT !.method = m]
      PROVE  HcInv' /\ hc'.worker = hc.worker /\ hc'.response = hc.response
  <2>1. hc' = [method |-> m, url |-> hc.url, headers |-> hc.headers, body |-> hc.body,
               worker |-> hc.worker, response |-> hc.response]
    BY <1>5 DEF HcInv
  <2> QED BY <1>1, <1>2, <2>1, FormChanged
<1>6. ASSUME NEW u \in UrlFields, hc' = [hc EXCEPT !.url = u]
      PROVE  HcInv' /\ hc'.worker = hc.worker /\ hc'.response = hc.response
  <2>1. hc' = [method |-> hc.method, url |-> u, headers |-> hc.headers, body |-> hc.body,
               worker |-> hc.worker, response |-> hc.response]
    BY <1>6 DEF HcInv
  <2> QED BY <1>1, <1>2, <2>1, FormChanged
<1>7. ASSUME NEW h \in Seq(Row), Len(h) \in 1 .. MaxRows, hc' = [hc EXCEPT !.headers = h]
      PROVE  HcInv' /\ hc'.worker = hc.worker /\ hc'.response = hc.response
  <2>1. hc' = [method |-> hc.method, url |-> hc.url, headers |-> h, body |-> hc.body,
               worker |-> hc.worker, response |-> hc.response]
    BY <1>7 DEF HcInv
  <2> QED BY <1>2, <1>7, <2>1, FormChanged
<1>8. CASE RemoveHeader
  <2>1. PICK i \in DOMAIN hc.headers : hc' = [hc EXCEPT !.headers = RemoveAt(hc.headers, i)]
    BY <1>8 DEF RemoveHeader
  <2>2. PICK h : h = RemoveAt(hc.headers, i)
    OBVIOUS
  <2>3. h \in Seq(Row) /\ Len(h) = Len(hc.headers) - 1
    BY <1>1, <2>2, Removed
  <2>4. Len(h) \in 1 .. MaxRows
    BY <1>1, <1>8, <2>3 DEF RemoveHeader
  <2> QED BY <1>7, <2>1, <2>2, <2>3, <2>4
<1>9. CASE LoadHeaders \/ UpdateHeader
  BY <1>7, <1>9, RowsAdded
<1>10. CASE UNCHANGED httpVars
  <2>1. hc' = hc
    BY <1>10 DEF httpVars
  <2> QED BY <2>1 DEF HcInv
<1> QED BY <1>3, <1>4, <1>5, <1>6, <1>8, <1>9, <1>10 DEF LoadBody, EditRequest, HeadersEditor

(* Every step of the page keeps its types and one request in flight, and is a *)
(* step of the panel that shows its last answer.                              *)
LEMMA HttpStep ==
    ASSUME HcInv, [HttpNext]_httpVars
    PROVE  HcInv' /\ [Response!Next]_<<Awaited(hc.worker), hc.response>>
<1>1. CASE sendRequest /\ hc.url # ""
  <2>1. PICK w : w = Posted(hc.worker, Sent(hc))
    OBVIOUS
  <2>2. hc' = [hc EXCEPT !.worker = w, !.response = Nothing]
    BY <1>1, <2>1 DEF sendRequest
  <2>3. Sent(hc) \in HttpRequests /\ Sent(hc) # Nothing /\ ~hc.worker.loading
    BY <1>1, FormIsRequest, HttpQuestions DEF sendRequest, CanSend
  <2>4. OneInFlight(w) /\ Awaited(w) # Nothing /\ WorkerOf(w, HttpRequests)
    <3>1. OneInFlight(hc.worker)
      BY DEF HcInv
    <3> QED BY <2>1, <2>3, <3>1, PostedWorker, PostedTyped
  <2>5. /\ hc' = [method |-> hc.method, url |-> hc.url, headers |-> hc.headers,
                  body |-> hc.body, worker |-> w, response |-> Nothing]
        /\ hc'.worker = w /\ hc'.response = Nothing
    BY <2>2 DEF HcInv
  <2>6. HcInv'
    BY <2>4, <2>5 DEF HcInv
  <2> QED BY <2>4, <2>5, <2>6 DEF Response!Next, Response!Ask
<1>2. CASE (sendRequest /\ hc.url = "") \/ CloseError
  <2>1. PICK b \in BOOLEAN : hc' = [hc EXCEPT !.worker.error = b]
    BY <1>2 DEF sendRequest, CloseError
  <2>2. PICK w : w = [hc.worker EXCEPT !.error = b]
    OBVIOUS
  <2>3. w = [flight |-> hc.worker.flight, loading |-> hc.worker.loading, error |-> b]
    BY <2>2 DEF HcInv, OneInFlight
  <2>4. w.flight = hc.worker.flight /\ OneInFlight(w)
    BY <2>3 DEF HcInv, OneInFlight
  <2>5. WorkerOf(w, HttpRequests)
    BY <2>3 DEF HcInv, WorkerOf, Idle
  <2>6. hc' = [hc EXCEPT !.worker = w]
    BY <2>1, <2>2 DEF HcInv
  <2>7. /\ hc' = [method |-> hc.method, url |-> hc.url, headers |-> hc.headers,
                  body |-> hc.body, worker |-> w, response |-> hc.response]
        /\ hc'.worker = w /\ hc'.response = hc.response
    BY <2>6 DEF HcInv
  <2>8. HcInv'
    BY <2>4, <2>5, <2>7 DEF HcInv
  <2> QED BY <2>4, <2>7, <2>8 DEF Awaited
<1>3. CASE HttpArrives
  <2>1. PICK i \in DOMAIN hc.worker.flight, ok \in BOOLEAN :
          hc' = [hc EXCEPT !.worker = Ended(hc.worker, i, ok),
                           !.response = IF ok THEN hc.worker.flight[i] ELSE hc.response]
    BY <1>3 DEF HttpArrives
  <2>2. PICK w : w = Ended(hc.worker, i, ok)
    OBVIOUS
  <2>3. /\ OneInFlight(w) /\ Awaited(w) = Nothing /\ WorkerOf(w, HttpRequests)
        /\ Awaited(hc.worker) = hc.worker.flight[i] /\ Awaited(hc.worker) # Nothing
        /\ hc.worker.flight[i] \in HttpRequests
    BY <2>2, EndedWorker, EndedTyped DEF HcInv
  <2>4. PICK r : r = IF ok THEN hc.worker.flight[i] ELSE hc.response
    OBVIOUS
  <2>5. hc' = [hc EXCEPT !.worker = w, !.response = r]
    BY <2>1, <2>2, <2>4
  <2>6. /\ hc' = [method |-> hc.method, url |-> hc.url, headers |-> hc.headers,
                  body |-> hc.body, worker |-> w, response |-> r]
        /\ hc'.worker = w /\ hc'.response = r
    BY <2>5 DEF HcInv
  <2>7. r \in HttpRequests \cup {Nothing}
    BY <2>3, <2>4 DEF HcInv
  <2>8. HcInv'
    BY <2>3, <2>6, <2>7 DEF HcInv
  <2> QED BY <2>3, <2>4, <2>6, <2>8 DEF Response!Next, Response!Answer
<1>4. CASE \/ loadRequestFromAsset \/ LoadBody \/ EditRequest \/ LoadHeaders \/ HeadersEditor
           \/ UNCHANGED httpVars
  BY <1>4, HttpFormStep
<1> QED BY <1>1, <1>2, <1>3, <1>4 DEF HttpNext

LEMMA HttpStart == HttpInit => HcInv /\ Response!Init
<1> SUFFICES ASSUME HttpInit PROVE HcInv /\ Response!Init
  OBVIOUS
<1>1. PICK h : h = <<EmptyRow>>
  OBVIOUS
<1>2. h \in Seq(Row) /\ Len(h) \in 1 .. MaxRows
  <2>1. EmptyRow \in Row
    BY DEF Row, EmptyRow
  <2>2. h \in Seq(Row) /\ Len(h) = 1
    BY <1>1, <2>1
  <2> QED BY <2>2, HttpRows
<1>3. hc = [method |-> "GET", url |-> "", headers |-> h, body |-> "", worker |-> Idle,
            response |-> Nothing]
  BY <1>1 DEF HttpInit
<1>4. /\ hc.method = "GET" /\ hc.url = "" /\ hc.headers = h /\ hc.body = ""
      /\ hc.worker = Idle /\ hc.response = Nothing
  BY <1>3
<1>5. HcInv
  BY <1>2, <1>3, <1>4, IdleWorker, IdleTyped DEF HcInv, Methods, UrlFields, BodyFields
<1> QED BY <1>4, <1>5, IdleWorker DEF Response!Init

(* The response on display is that of the last request sent, for any headers, *)
(* URLs and bodies.                                                           *)
THEOREM ResponseLastAnswer == HttpSpec => ResponseIsLastAnswer
<1>1. HcInv /\ [HttpNext]_httpVars => HcInv' /\ [Response!Next]_<<Awaited(hc.worker), hc.response>>
  BY HttpStep
<1> QED BY <1>1, HttpStart, PTL DEF HttpSpec, ResponseIsLastAnswer, Response!Spec

LEMMA HttpKept == HttpSpec => []HcInv
<1>1. HcInv /\ [HttpNext]_httpVars => HcInv'
  BY HttpStep
<1> QED BY <1>1, HttpStart, PTL DEF HttpSpec

LEMMA HttpTyped == HcInv => HttpTypeOK
BY HeaderRows DEF HcInv, HttpTypeOK

(* The page keeps its types: the editor has 1 to MaxRows rows, and what is    *)
(* sent and shown are requests (HttpClient.tsx).                              *)
THEOREM HttpTypes == HttpSpec => []HttpTypeOK
BY HttpTyped, HttpKept, PTL

LEMMA FormsMade ==
    \A f \in OtherForms : \E u \in UrlFields, row \in Row, b \in BodyFields : f = OtherForm(u, row, b)
BY DEF OtherForms

LEMMA SavedHolds == HcInv => SavedRequestComesBack
<1> SUFFICES ASSUME HcInv, requestAsJson(hc).url # "", NEW form \in OtherForms
             PROVE  requestAsJson(Loaded(form, requestAsJson(hc))) = requestAsJson(hc)
  BY DEF SavedRequestComesBack
<1>1. PICK r : r = requestAsJson(hc)
  OBVIOUS
<1>2. /\ r \in HttpRequests
      /\ r = [method |-> r.method, url |-> r.url, headers |-> r.headers, body |-> r.body]
  BY <1>1, FormIsRequest DEF HttpRequests
<1>3. HeadersOf(RowsOf(r.headers)) = r.headers
  BY <1>2, ReadBack DEF HttpRequests
<1>4. form = [method |-> form.method, url |-> form.url, headers |-> form.headers,
              body |-> form.body, worker |-> form.worker, response |-> form.response]
  <2>1. ASSUME NEW u, NEW row, NEW b, NEW f, f = OtherForm(u, row, b)
        PROVE  f = [method |-> f.method, url |-> f.url, headers |-> f.headers,
                    body |-> f.body, worker |-> f.worker, response |-> f.response]
    <3>1. PICK h : h = <<row, EmptyRow>>
      OBVIOUS
    <3>2. f = [hc EXCEPT !.method = "POST", !.url = u, !.headers = h, !.body = b]
      BY <2>1, <3>1 DEF OtherForm
    <3> QED BY <3>2 DEF HcInv
  <2>2. PICK u \in UrlFields, row \in Row, b \in BodyFields : form = OtherForm(u, row, b)
    BY FormsMade
  <2> QED BY <2>1, <2>2
<1>5. PICK h : h = RowsOf(r.headers)
  OBVIOUS
<1>6. r.url # ""
  BY <1>1
<1>7. PICK q : q = Loaded(form, r)
  OBVIOUS
<1>8. /\ q.method = r.method /\ q.url = r.url /\ q.headers = h /\ q.body = r.body
  BY <1>4, <1>5, <1>6, <1>7 DEF Loaded
<1>9. requestAsJson(q) = r
  BY <1>2, <1>3, <1>5, <1>8 DEF requestAsJson
<1> QED BY <1>1, <1>7, <1>9

(* A request saved as an asset and loaded again into any form is the request  *)
(* that was saved, for any number of headers and whatever rows without a name *)
(* or of repeated names the form holds (requestAsJson, HttpClient.tsx).       *)
THEOREM SavedComesBack == HttpSpec => []SavedRequestComesBack
BY SavedHolds, HttpKept, PTL

-------------------------------------------------------------------------------
(* The page of the test data                                                  *)

(* A form that is empty of fields, or whose fields are those of the template. *)
FormShape(f) ==
    /\ f = [mode |-> f.mode, content |-> f.content, synth |-> f.synth, fields |-> f.fields,
            selected |-> f.selected, configs |-> f.configs, csv |-> f.csv]
    /\ f.mode \in Modes

TemplateOf(f) == IF f.mode = "xml" THEN f.content ELSE f.synth

Fits(f, st) ==
    f.fields # {} =>
        /\ f.selected \subseteq f.fields /\ DOMAIN f.configs = f.fields
        /\ ~st \/ (f.synth # Nothing /\ f.mode = "xsd") => f.fields = PathsOf[TemplateOf(f)]

(* What the form is while it waits for the answer to rq.                      *)
Waits(f, st, rq) ==
    /\ f.fields = {} /\ f.selected = {} /\ f.synth = Nothing
    /\ ~st => rq.mode = f.mode /\ rq.doc = f.content

TdShape == td = [form |-> td.form, analysis |-> td.analysis, zip |-> td.zip,
                 template |-> td.template, saves |-> td.saves]

TdInv ==
    /\ TdShape /\ FormShape(td.form) /\ Fits(td.form, stale)
    /\ stale \in BOOLEAN
    /\ \/ td.analysis.flight = <<>>
       \/ td.analysis.loading = TRUE /\ \E rq : td.analysis.flight = <<rq>> /\ Waits(td.form, stale, rq)

(* The form gets other contents, and the analysis goes on.                    *)
LEMMA FormEmptied ==
    ASSUME TdInv, TdShape', FormShape(td'.form), td'.form.fields = {},
           td'.analysis = td.analysis, stale' = (stale \/ Pending),
           \/ td'.form.selected = {} /\ td'.form.synth = Nothing
           \/ td'.form.selected = td.form.selected /\ td'.form.synth = td.form.synth
    PROVE  TdInv'
BY DEF TdInv, Fits, Waits, Pending

LEMMA switchKeeps == ASSUME TdInv, switchMode \/ ClearAll PROVE TdInv'
<1>1. PICK mode \in Modes : td' = [td EXCEPT !.form = FirstForm(mode), !.saves = Closed]
  BY DEF switchMode, ClearAll, TdInv, FormShape
<1>2. TdShape' /\ td'.form = FirstForm(mode) /\ td'.analysis = td.analysis
  BY <1>1 DEF TdInv, TdShape
<1>3. /\ FormShape(FirstForm(mode)) /\ FirstForm(mode).fields = {}
      /\ FirstForm(mode).selected = {} /\ FirstForm(mode).synth = Nothing
  BY DEF FormShape, FirstForm
<1>4. stale' = (stale \/ Pending)
  BY DEF switchMode, ClearAll
<1> QED BY <1>2, <1>3, <1>4, FormEmptied

LEMMA EditKeeps == ASSUME TdInv, EditContent PROVE TdInv'
<1>1. PICK doc \in Schemas : td' = [td EXCEPT !.form.content = doc, !.form.fields = {}, !.saves = Closed]
  BY DEF EditContent
<1>2. PICK f : f = [td.form EXCEPT !.content = doc, !.fields = {}]
  OBVIOUS
<1>3. FormShape(f) /\ f.fields = {} /\ f.selected = td.form.selected /\ f.synth = td.form.synth
  BY <1>2 DEF TdInv, FormShape
<1>4. td' = [td EXCEPT !.form = f, !.saves = Closed]
  BY <1>1, <1>2 DEF TdInv, TdShape
<1>5. TdShape' /\ td'.form = f /\ td'.analysis = td.analysis
  BY <1>4 DEF TdInv, TdShape
<1>6. stale' = (stale \/ Pending)
  BY DEF EditContent
<1> QED BY <1>3, <1>5, <1>6, FormEmptied

LEMMA analyseKeeps == ASSUME TdInv, analyse PROVE TdInv'
<1> DEFINE rq == [mode |-> td.form.mode, doc |-> td.form.content]
<1>1. PICK f : f = ReadyForAnswer(td.form)
  OBVIOUS
<1>2. /\ FormShape(f) /\ f.fields = {} /\ f.selected = {} /\ f.synth = Nothing
      /\ f.mode = td.form.mode /\ f.content = td.form.content
  BY <1>1 DEF ReadyForAnswer, TdInv, FormShape
<1>3. td.analysis.flight = <<>>
  BY DEF analyse, TdInv
<1>4. PICK w : w = Posted(td.analysis, rq)
  OBVIOUS
<1>5. w.flight = <<rq>> /\ w.loading = TRUE
  BY <1>3, <1>4 DEF Posted
<1>6. td' = [td EXCEPT !.form = f, !.analysis = w, !.saves = Closed]
  BY <1>1, <1>4 DEF analyse
<1>7. TdShape' /\ td'.form = f /\ td'.analysis = w /\ stale' = FALSE
  BY <1>6 DEF TdInv, TdShape, analyse
<1>8. Waits(f, FALSE, rq) /\ Fits(f, FALSE)
  BY <1>2 DEF Waits, Fits
<1> QED BY <1>2, <1>5, <1>7, <1>8 DEF TdInv

(* The answer fills the form it was asked for; one that has become stale      *)
(* fills one whose template it is only if it carries the template.            *)
LEMMA AnswerKeeps == ASSUME TdInv, AnalyseArrives PROVE TdInv'
<1>1. PICK i \in DOMAIN td.analysis.flight, ok \in BOOLEAN :
        td' = [td EXCEPT !.analysis = Ended(td.analysis, i, ok),
                 !.form = IF ok THEN Analysed(td.form, td.analysis.flight[i]) ELSE td.form]
  BY DEF AnalyseArrives
<1>2. PICK rq : td.analysis.flight = <<rq>> /\ Waits(td.form, stale, rq)
  BY <1>1 DEF TdInv
<1>3. i = 1 /\ RemoveAt(td.analysis.flight, i) = <<>>
  BY <1>1, <1>2 DEF RemoveAt
<1>4. PICK w : w = Ended(td.analysis, i, ok)
  OBVIOUS
<1>5. w.flight = <<>>
  BY <1>3, <1>4 DEF Ended
<1>6. PICK f : f = IF ok THEN Analysed(td.form, rq) ELSE td.form
  OBVIOUS
<1>7. FormShape(f) /\ Fits(f, stale)
  <2>1. CASE ok
    <3>1. /\ FormShape(f) /\ f.fields = PathsOf[rq.doc] /\ f.selected = {}
          /\ f.configs = [p \in PathsOf[rq.doc] |-> "random"]
          /\ f.mode = td.form.mode /\ f.content = td.form.content
          /\ f.synth = IF rq.mode = "xsd" THEN rq.doc ELSE Nothing
      BY <1>2, <1>6, <2>1 DEF Analysed, TdInv, FormShape, Waits
    <3>2. ~stale \/ (f.synth # Nothing /\ f.mode = "xsd") => TemplateOf(f) = rq.doc
      BY <1>2, <3>1 DEF TemplateOf, Waits, FormShape, Modes
    <3> QED BY <3>1, <3>2 DEF Fits
  <2> QED BY <1>6, <2>1 DEF TdInv
<1>8. td' = [td EXCEPT !.analysis = w, !.form = f]
  BY <1>1, <1>2, <1>3, <1>4, <1>6
<1>9. TdShape' /\ td'.form = f /\ td'.analysis = w /\ stale' = stale
  BY <1>8 DEF TdInv, TdShape, AnalyseArrives
<1> QED BY <1>5, <1>7, <1>9 DEF TdInv

(* Fields are on display when nothing is awaited.                             *)
LEMMA FieldsChanged ==
    ASSUME TdInv, td.form.fields # {}, NEW f, FormShape(f), td' = [td EXCEPT !.form = f],
           stale' = stale, f.mode = td.form.mode, f.content = td.form.content,
           f.synth = td.form.synth, f.fields = td.form.fields, f.selected \subseteq f.fields,
           DOMAIN f.configs = DOMAIN td.form.configs
    PROVE  TdInv'
<1>1. TdShape' /\ td'.form = f /\ td'.analysis = td.analysis
  BY DEF TdInv, TdShape
<1>2. Fits(f, stale)
  BY DEF TdInv, Fits, TemplateOf
<1> QED BY <1>1, <1>2 DEF TdInv, Waits

LEMMA FieldsKeep == ASSUME TdInv, onCsvChange \/ FieldRow PROVE TdInv'
<1>1. CASE onCsvChange
  <2>1. PICK csv : td' = [td EXCEPT !.form.csv = csv]
    BY <1>1 DEF onCsvChange
  <2>2. PICK f : f = [td.form EXCEPT !.csv = csv]
    OBVIOUS
  <2>3. td' = [td EXCEPT !.form = f]
    BY <2>1, <2>2 DEF TdInv, TdShape
  <2>4. /\ FormShape(f) /\ f.mode = td.form.mode /\ f.content = td.form.content
        /\ f.synth = td.form.synth /\ f.fields = td.form.fields
        /\ f.selected = td.form.selected /\ f.configs = td.form.configs
    BY <2>2 DEF TdInv, FormShape
  <2>5. td.form.fields # {} /\ f.selected \subseteq f.fields /\ stale' = stale
    BY <1>1, <2>4 DEF onCsvChange, TdInv, Fits
  <2> QED BY <2>3, <2>4, <2>5, FieldsChanged
<1>2. CASE toggleField
  <2>1. PICK p \in td.form.fields :
          td' = [td EXCEPT !.form.selected = IF p \in @ THEN @ \ {p} ELSE @ \cup {p}]
    BY <1>2 DEF toggleField
  <2>2. PICK q : q = IF p \in td.form.selected THEN td.form.selected \ {p} ELSE td.form.selected \cup {p}
    OBVIOUS
  <2>3. PICK f : f = [td.form EXCEPT !.selected = q]
    OBVIOUS
  <2>4. td' = [td EXCEPT !.form = f]
    BY <2>1, <2>2, <2>3 DEF TdInv, TdShape
  <2>5. /\ FormShape(f) /\ f.mode = td.form.mode /\ f.content = td.form.content
        /\ f.synth = td.form.synth /\ f.fields = td.form.fields
        /\ f.selected = q /\ f.configs = td.form.configs
    BY <2>3 DEF TdInv, FormShape
  <2>6. td.form.fields # {} /\ q \subseteq td.form.fields /\ stale' = stale
    BY <1>2, <2>1, <2>2 DEF toggleField, TdInv, Fits
  <2> QED BY <2>4, <2>5, <2>6, FieldsChanged
<1>3. CASE updateConfig
  <2>1. PICK p \in td.form.fields, s \in Settings : td' = [td EXCEPT !.form.configs[p] = s]
    BY <1>3 DEF updateConfig
  <2>2. PICK c : c = [td.form.configs EXCEPT ![p] = s]
    OBVIOUS
  <2>3. PICK f : f = [td.form EXCEPT !.configs = c]
    OBVIOUS
  <2>4. td' = [td EXCEPT !.form = f]
    BY <2>1, <2>2, <2>3 DEF TdInv, TdShape
  <2>5. DOMAIN c = DOMAIN td.form.configs
    BY <2>2
  <2>6. /\ FormShape(f) /\ f.mode = td.form.mode /\ f.content = td.form.content
        /\ f.synth = td.form.synth /\ f.fields = td.form.fields
        /\ f.selected = td.form.selected /\ f.configs = c
    BY <2>3 DEF TdInv, FormShape
  <2>7. td.form.fields # {} /\ f.selected \subseteq f.fields /\ stale' = stale
    BY <1>3, <2>6 DEF updateConfig, TdInv, Fits
  <2> QED BY <2>4, <2>5, <2>6, <2>7, FieldsChanged
<1> QED BY <1>1, <1>2, <1>3 DEF FieldRow

LEMMA TasksKeep ==
    ASSUME TdInv,
           \/ SaveGeneratedToAssets \/ downloadCsvTemplate \/ TemplateArrives
           \/ generate \/ ZipArrives \/ UNCHANGED tdVars
    PROVE  TdInv'
<1>1. stale' = stale /\ TdShape' /\ td'.form = td.form /\ td'.analysis = td.analysis
  <2>1. CASE UNCHANGED tdVars
    BY <2>1 DEF tdVars, TdInv, TdShape
  <2>2. CASE SaveGeneratedToAssets
    <3>1. stale' = stale /\ \E saves : td' = [td EXCEPT !.saves = saves]
      <4>1. CASE AskForName
        BY <4>1 DEF AskForName
      <4>2. CASE doSave
        BY <4>2 DEF doSave
      <4>3. CASE BatchArrives
        BY <4>3 DEF BatchArrives
      <4>4. CASE SaveArrives
        BY <4>4 DEF SaveArrives
      <4> QED BY <2>2, <4>1, <4>2, <4>3, <4>4 DEF SaveGeneratedToAssets
    <3> QED BY <3>1 DEF TdInv, TdShape
  <2>3. CASE downloadCsvTemplate \/ TemplateArrives \/ generate \/ ZipArrives
    BY <2>3 DEF downloadCsvTemplate, TemplateArrives, generate, ZipArrives, TdInv, TdShape
  <2> QED BY <2>1, <2>2, <2>3
<1> QED BY <1>1 DEF TdInv

LEMMA TdStart == TdInit => TdInv
<1> SUFFICES ASSUME TdInit PROVE TdInv
  OBVIOUS
<1>1. TdShape /\ td.form = FirstForm("xml") /\ td.analysis = Idle /\ stale = FALSE
  BY DEF TdInit, TdShape
<1>2. FormShape(FirstForm("xml")) /\ FirstForm("xml").fields = {}
  BY DEF FormShape, FirstForm, Modes
<1>3. td.analysis.flight = <<>>
  BY <1>1 DEF Idle
<1>4. Fits(td.form, stale)
  BY <1>1, <1>2 DEF Fits
<1> QED BY <1>1, <1>2, <1>3, <1>4 DEF TdInv

LEMMA TdStep == ASSUME TdInv, [TestDataNext]_tdVars PROVE TdInv'
BY switchKeeps, EditKeeps, analyseKeeps, AnswerKeeps, FieldsKeep, TasksKeep DEF TestDataNext

LEMMA FieldsFit == TdInv => FieldsFitTemplate
BY DEF TdInv, Fits, TemplateOf, FieldsFitTemplate, templateXML

(* The fields on display are those of the template, for any texts and any     *)
(* order of edits, clears and answers, but for the exception stated.          *)
THEOREM FieldsAreOfTemplate == TestDataSpec => []FieldsFitTemplate
<1>1. TdInv /\ [TestDataNext]_tdVars => TdInv'
  BY TdStep
<1> QED BY <1>1, FieldsFit, TdStart, PTL DEF TestDataSpec

(* What the page is made of.                                                  *)
Analyses == [mode : Modes, doc : Schemas \ {NoSchema}]
Saves == [open : BOOLEAN, saving : BOOLEAN, batches : Seq(0 .. MaxDocs)]

FormTyped(f) ==
    /\ f.content \in Schemas /\ f.synth \in (Schemas \ {NoSchema}) \cup {Nothing}
    /\ f.fields \subseteq Paths /\ f.selected \subseteq Paths /\ DOMAIN f.configs \subseteq Paths
    /\ \A p \in DOMAIN f.configs : f.configs[p] \in Settings
    /\ f.csv \in Csvs

TdTyped ==
    /\ FormTyped(td.form) /\ WorkerOf(td.analysis, Analyses)
    /\ td.zip \in 0 .. MaxCount /\ td.template \in BOOLEAN /\ td.saves \in Saves

LEMMA TdChanged ==
    ASSUME NEW f, FormTyped(f), NEW w, WorkerOf(w, Analyses), NEW z \in 0 .. MaxCount,
           NEW t \in BOOLEAN, NEW sv \in Saves,
           td' = [form |-> f, analysis |-> w, zip |-> z, template |-> t, saves |-> sv]
    PROVE  TdTyped'
<1>1. td'.form = f /\ td'.analysis = w /\ td'.zip = z /\ td'.template = t /\ td'.saves = sv
  OBVIOUS
<1> QED BY <1>1 DEF TdTyped

LEMMA SeqAt == ASSUME NEW S, NEW s \in Seq(S), NEW i \in DOMAIN s PROVE s[i] \in S
OBVIOUS

LEMMA ClosedIs == Closed \in Saves
<1>1. PICK b : b = <<>>
  OBVIOUS
<1>2. b \in Seq(0 .. MaxDocs)
  BY <1>1
<1> QED BY <1>1, <1>2 DEF Closed, Saves

(* The form changes, and what was saved is closed.                            *)
LEMMA FormTypes ==
    ASSUME TdInv, TdTyped, switchMode \/ ClearAll \/ EditContent PROVE TdTyped'
<1>1. PICK f : td' = [td EXCEPT !.form = f, !.saves = Closed] /\ FormTyped(f)
  <2>1. CASE switchMode \/ ClearAll
    <3>1. PICK mode : td' = [td EXCEPT !.form = FirstForm(mode), !.saves = Closed]
      BY <2>1 DEF switchMode, ClearAll
    <3>2. FormTyped(FirstForm(mode))
      BY TestDocs DEF FormTyped, FirstForm, Csvs
    <3> QED BY <3>1, <3>2
  <2>2. CASE EditContent
    <3>1. PICK doc \in Schemas :
            td' = [td EXCEPT !.form.content = doc, !.form.fields = {}, !.saves = Closed]
      BY <2>2 DEF EditContent
    <3>2. PICK f : f = [td.form EXCEPT !.content = doc, !.fields = {}]
      OBVIOUS
    <3>3. FormTyped(f)
      BY <3>2 DEF TdInv, TdTyped, FormShape, FormTyped
    <3>4. td' = [td EXCEPT !.form = f, !.saves = Closed]
      BY <3>1, <3>2 DEF TdInv, TdShape
    <3> QED BY <3>3, <3>4
  <2> QED BY <2>1, <2>2
<1>2. td' = [form |-> f, analysis |-> td.analysis, zip |-> td.zip, template |-> td.template,
             saves |-> Closed]
  BY <1>1 DEF TdInv, TdShape
<1> QED BY <1>1, <1>2, ClosedIs, TdChanged DEF TdTyped

(* The analysis is asked for, and answered or not.                            *)
LEMMA AnalysisTypes == ASSUME TdInv, TdTyped, analyse \/ AnalyseArrives PROVE TdTyped'
<1>1. CASE analyse
  <2>1. PICK rq, f, w : /\ rq = [mode |-> td.form.mode, doc |-> td.form.content]
                        /\ f = ReadyForAnswer(td.form) /\ w = Posted(td.analysis, rq)
    OBVIOUS
  <2>2. rq \in Analyses
    BY <1>1, <2>1 DEF analyse, TdInv, TdTyped, FormShape, FormTyped, Analyses
  <2>3. td.analysis.flight = <<>>
    BY <1>1 DEF analyse, TdInv
  <2>4. w = [flight |-> <<rq>>, loading |-> TRUE, error |-> FALSE]
    BY <2>1, <2>3 DEF Posted
  <2>5. WorkerOf(w, Analyses)
    BY <2>2, <2>4 DEF WorkerOf, Idle
  <2>6. FormTyped(f)
    BY <2>1 DEF ReadyForAnswer, TdInv, TdTyped, FormShape, FormTyped
  <2>7. td' = [td EXCEPT !.form = f, !.analysis = w, !.saves = Closed]
    BY <1>1, <2>1 DEF analyse
  <2>8. td' = [form |-> f, analysis |-> w, zip |-> td.zip, template |-> td.template,
               saves |-> Closed]
    BY <2>7 DEF TdInv, TdShape
  <2> QED BY <2>5, <2>6, <2>8, ClosedIs, TdChanged DEF TdTyped
<1>2. CASE AnalyseArrives
  <2>1. PICK i \in DOMAIN td.analysis.flight, ok \in BOOLEAN :
          td' = [td EXCEPT !.analysis = Ended(td.analysis, i, ok),
                   !.form = IF ok THEN Analysed(td.form, td.analysis.flight[i]) ELSE td.form]
    BY <1>2 DEF AnalyseArrives
  <2>2. PICK rq : td.analysis.flight = <<rq>>
    BY <2>1 DEF TdInv
  <2>3. i = 1 /\ RemoveAt(td.analysis.flight, i) = <<>> /\ rq \in Analyses
    BY <2>1, <2>2 DEF RemoveAt, TdTyped, WorkerOf
  <2>4. PICK w, f : /\ w = Ended(td.analysis, i, ok)
                    /\ f = IF ok THEN Analysed(td.form, rq) ELSE td.form
    OBVIOUS
  <2>5. w = [flight |-> <<>>, loading |-> FALSE, error |-> ~ok]
    BY <2>3, <2>4 DEF Ended
  <2>6. WorkerOf(w, Analyses)
    BY <2>5 DEF WorkerOf, Idle
  <2>7. FormTyped(f)
    <3>1. CASE ok
      <4>1. PathsOf[rq.doc] \subseteq Paths /\ rq.doc \in Schemas \ {NoSchema}
        BY <2>3 DEF Analyses, Paths
      <4>2. /\ f.content = td.form.content /\ f.csv = td.form.csv /\ f.selected = td.form.selected
            /\ f.fields = PathsOf[rq.doc] /\ f.configs = [p \in PathsOf[rq.doc] |-> "random"]
            /\ f.synth \in {rq.doc, td.form.synth}
        BY <2>4, <3>1 DEF Analysed, TdInv, FormShape
      <4> QED BY <4>1, <4>2 DEF TdTyped, FormTyped, Settings
    <3> QED BY <2>4, <3>1 DEF TdTyped
  <2>8. td' = [td EXCEPT !.analysis = w, !.form = f]
    BY <2>1, <2>2, <2>3, <2>4
  <2>9. td' = [form |-> f, analysis |-> w, zip |-> td.zip, template |-> td.template,
               saves |-> td.saves]
    BY <2>8 DEF TdInv, TdShape
  <2> QED BY <2>6, <2>7, <2>9, TdChanged DEF TdTyped
<1> QED BY <1>1, <1>2

(* A field is chosen or set, or the CSV changes.                              *)
LEMMA FieldTypes == ASSUME TdInv, TdTyped, onCsvChange \/ FieldRow PROVE TdTyped'
<1>1. PICK f : td' = [td EXCEPT !.form = f] /\ FormTyped(f)
  <2>1. CASE onCsvChange
    <3>1. PICK csv \in Csvs : td' = [td EXCEPT !.form.csv = csv]
      BY <2>1 DEF onCsvChange
    <3>2. PICK f : f = [td.form EXCEPT !.csv = csv]
      OBVIOUS
    <3>3. td' = [td EXCEPT !.form = f]
      BY <3>1, <3>2 DEF TdInv, TdShape
    <3>4. FormTyped(f)
      BY <3>2 DEF TdInv, TdTyped, FormShape, FormTyped
    <3> QED BY <3>3, <3>4
  <2>2. CASE toggleField
    <3>1. PICK p \in td.form.fields :
            td' = [td EXCEPT !.form.selected = IF p \in @ THEN @ \ {p} ELSE @ \cup {p}]
      BY <2>2 DEF toggleField
    <3>2. PICK q : q = IF p \in td.form.selected THEN td.form.selected \ {p}
                       ELSE td.form.selected \cup {p}
      OBVIOUS
    <3>3. PICK f : f = [td.form EXCEPT !.selected = q]
      OBVIOUS
    <3>4. td' = [td EXCEPT !.form = f]
      BY <3>1, <3>2, <3>3 DEF TdInv, TdShape
    <3>5. q \subseteq Paths
      BY <3>1, <3>2 DEF TdTyped, FormTyped
    <3>6. FormTyped(f)
      BY <3>3, <3>5 DEF TdInv, TdTyped, FormShape, FormTyped
    <3> QED BY <3>4, <3>6
  <2>3. CASE updateConfig
    <3>1. PICK p \in td.form.fields, s \in Settings : td' = [td EXCEPT !.form.configs[p] = s]
      BY <2>3 DEF updateConfig
    <3>2. PICK c : c = [td.form.configs EXCEPT ![p] = s]
      OBVIOUS
    <3>3. PICK f : f = [td.form EXCEPT !.configs = c]
      OBVIOUS
    <3>4. td' = [td EXCEPT !.form = f]
      BY <3>1, <3>2, <3>3 DEF TdInv, TdShape
    <3>5. DOMAIN c = DOMAIN td.form.configs /\ \A x \in DOMAIN c : c[x] \in {s, td.form.configs[x]}
      BY <3>2
    <3>6. FormTyped(f)
      BY <3>1, <3>3, <3>5 DEF TdInv, TdTyped, FormShape, FormTyped
    <3> QED BY <3>4, <3>6
  <2> QED BY <2>1, <2>2, <2>3 DEF FieldRow
<1>2. td' = [form |-> f, analysis |-> td.analysis, zip |-> td.zip, template |-> td.template,
             saves |-> td.saves]
  BY <1>1 DEF TdInv, TdShape
<1> QED BY <1>1, <1>2, TdChanged DEF TdTyped

(* A ZIP has 1 to 1000 documents: the CSV's, or the number typed and clamped. *)
LEMMA CountsAre == DocCounts \subseteq 1 .. MaxCount
<1>1. ASSUME NEW n \in TypedCounts PROVE Clamped(n) \in 1 .. MaxCount
  BY DEF TypedCounts, Clamped, MaxCount, NotANumber
<1> QED BY <1>1, TestCounts DEF DocCounts, MaxCount

LEMMA TaskTypes ==
    ASSUME TdInv, TdTyped, downloadCsvTemplate \/ TemplateArrives \/ generate \/ ZipArrives
    PROVE  TdTyped'
<1>1. PICK z \in 0 .. MaxCount, t \in BOOLEAN : td' = [td EXCEPT !.zip = z, !.template = t]
  <2>1. CASE downloadCsvTemplate \/ TemplateArrives
    BY <2>1 DEF downloadCsvTemplate, TemplateArrives, TdInv, TdShape, TdTyped
  <2>2. CASE generate
    <3>1. PICK n \in DocCounts : td' = [td EXCEPT !.zip = n]
      BY <2>2 DEF generate
    <3>2. n \in 0 .. MaxCount
      BY CountsAre DEF MaxCount
    <3> QED BY <3>1, <3>2 DEF TdInv, TdShape, TdTyped
  <2>3. CASE ZipArrives
    <3>1. td' = [td EXCEPT !.zip = 0] /\ 0 \in 0 .. MaxCount /\ td.template \in BOOLEAN
      BY <2>3 DEF ZipArrives, TdTyped, MaxCount
    <3>2. td' = [td EXCEPT !.zip = 0, !.template = td.template]
      BY <3>1 DEF TdInv, TdShape
    <3> QED BY <3>1, <3>2
  <2> QED BY <2>1, <2>2, <2>3
<1>2. td' = [form |-> td.form, analysis |-> td.analysis, zip |-> z, template |-> t,
             saves |-> td.saves]
  BY <1>1 DEF TdInv, TdShape
<1> QED BY <1>2, TdChanged DEF TdTyped

(* A batch that is over.                                                      *)
LEMMA OverIs ==
    ASSUME NEW sv \in Saves, NEW i \in DOMAIN sv.batches
    PROVE  Over(sv, i) \in Saves /\ [Over(sv, i) EXCEPT !.open = FALSE] \in Saves
<1> DEFINE B == Seq(0 .. MaxDocs)
<1>1. PICK b : b = RemoveAt(sv.batches, i)
  OBVIOUS
<1>2. b \in B
  BY <1>1, Removed DEF Saves
<1>3. sv \in [open : BOOLEAN, saving : BOOLEAN, batches : B]
  BY DEF Saves
<1> HIDE DEF B
<1>4. PICK over : over = Over(sv, i)
  OBVIOUS
<1>5. over = [sv EXCEPT !.batches = b, !.saving = FALSE]
  BY <1>1, <1>4 DEF Over
<1>6. /\ over \in [open : BOOLEAN, saving : BOOLEAN, batches : B]
      /\ [over EXCEPT !.open = FALSE] \in [open : BOOLEAN, saving : BOOLEAN, batches : B]
  BY <1>2, <1>3, <1>5
<1> QED BY <1>4, <1>6 DEF B, Saves

(* A batch has between 0 and MaxDocs documents to be saved.                   *)
LEMMA BatchIs ==
    ASSUME NEW sv \in Saves, NEW i \in DOMAIN sv.batches, NEW n \in 0 .. MaxDocs
    PROVE  [sv EXCEPT !.batches[i] = n] \in Saves
<1> DEFINE B == Seq(0 .. MaxDocs)
<1>1. sv \in [open : BOOLEAN, saving : BOOLEAN, batches : B]
  BY DEF Saves
<1>2. [sv.batches EXCEPT ![i] = n] \in B
  BY <1>1
<1> HIDE DEF B
<1>3. [sv EXCEPT !.batches[i] = n] \in [open : BOOLEAN, saving : BOOLEAN, batches : B]
  BY <1>1, <1>2
<1> QED BY <1>3 DEF B, Saves

LEMMA SaveTypes == ASSUME TdInv, TdTyped, SaveGeneratedToAssets PROVE TdTyped'
<1>1. PICK sv \in Saves : td' = [td EXCEPT !.saves = sv]
  <2>1. td.saves \in Saves /\ td = [td EXCEPT !.saves = td.saves]
    BY DEF TdInv, TdShape, TdTyped
  <2>2. CASE AskForName
    <3>1. PICK sv : sv = [td.saves EXCEPT !.open = ~td.saves.open]
      OBVIOUS
    <3>2. sv \in Saves /\ td' = [td EXCEPT !.saves = sv]
      BY <2>1, <2>2, <3>1 DEF AskForName, Saves
    <3> QED BY <3>2
  <2>3. CASE doSave
    <3>1. PICK b : b = Append(td.saves.batches, 0)
      OBVIOUS
    <3>2. 0 \in 0 .. MaxDocs
      BY TestCounts
    <3>3. b \in Seq(0 .. MaxDocs)
      BY <2>1, <3>1, <3>2, AppendProperties DEF Saves
    <3>4. PICK sv : sv = [td.saves EXCEPT !.batches = b, !.saving = TRUE]
      OBVIOUS
    <3>5. sv \in Saves /\ td' = [td EXCEPT !.saves = sv]
      BY <2>1, <2>3, <3>1, <3>3, <3>4 DEF doSave, Saves
    <3> QED BY <3>5
  <2>4. CASE BatchArrives
    <3>1. PICK i \in DOMAIN td.saves.batches :
            \/ \E n \in 1 .. MaxDocs : td' = [td EXCEPT !.saves.batches[i] = n]
            \/ td' = [td EXCEPT !.saves = Over(td.saves, i)]
      BY <2>4 DEF BatchArrives
    <3>2. ASSUME NEW n \in 1 .. MaxDocs, td' = [td EXCEPT !.saves.batches[i] = n]
          PROVE  \E sv \in Saves : td' = [td EXCEPT !.saves = sv]
      <4>1. n \in 0 .. MaxDocs
        BY TestCounts
      <4> QED BY <2>1, <3>2, <4>1, BatchIs
    <3> QED BY <2>1, <3>1, <3>2, OverIs
  <2>5. CASE SaveArrives
    <3>1. PICK i \in DOMAIN td.saves.batches :
            /\ td.saves.batches[i] > 0
            /\ \/ td' = [td EXCEPT !.saves.batches[i] = td.saves.batches[i] - 1]
               \/ td' = [td EXCEPT !.saves = [Over(td.saves, i) EXCEPT !.open = FALSE]]
               \/ td' = [td EXCEPT !.saves = Over(td.saves, i)]
      BY <2>5 DEF SaveArrives
    <3>2. td.saves.batches \in Seq(0 .. MaxDocs)
      BY <2>1 DEF Saves
    <3>3. td.saves.batches[i] \in 0 .. MaxDocs
      <4>1. PICK b : b = td.saves.batches
        OBVIOUS
      <4>2. b \in Seq(0 .. MaxDocs) /\ i \in DOMAIN b
        BY <3>1, <3>2, <4>1
      <4>3. b[i] \in 0 .. MaxDocs
        BY <4>2, SeqAt
      <4> QED BY <4>1, <4>3
    <3>4. td.saves.batches[i] - 1 \in 0 .. MaxDocs
      BY <3>1, <3>3, TestCounts
    <3> QED BY <2>1, <3>1, <3>4, BatchIs, OverIs
  <2> QED BY <2>2, <2>3, <2>4, <2>5 DEF SaveGeneratedToAssets
<1>2. td' = [form |-> td.form, analysis |-> td.analysis, zip |-> td.zip,
             template |-> td.template, saves |-> sv]
  BY <1>1 DEF TdInv, TdShape
<1> QED BY <1>2, TdChanged DEF TdTyped

LEMMA TdTypedAtFirst == TdInit => TdTyped
<1> SUFFICES ASSUME TdInit PROVE TdTyped
  OBVIOUS
<1>1. FormTyped(FirstForm("xml"))
  BY TestDocs DEF FormTyped, FirstForm, Csvs
<1> QED BY <1>1, ClosedIs, IdleTyped DEF TdInit, TdTyped, MaxCount

LEMMA TdTypedStep == ASSUME TdInv, TdTyped, [TestDataNext]_tdVars PROVE TdTyped'
<1>1. CASE UNCHANGED tdVars
  BY <1>1 DEF tdVars, TdTyped
<1> QED BY <1>1, FormTypes, AnalysisTypes, FieldTypes, TaskTypes, SaveTypes DEF TestDataNext

LEMMA TdTypesOK == TdInv /\ TdTyped => TestDataTypeOK
<1>1. ASSUME TdTyped, NEW i \in DOMAIN td.saves.batches
      PROVE  td.saves.batches[i] \in 0 .. MaxDocs
  <2>1. td.saves.batches \in Seq(0 .. MaxDocs)
    BY <1>1 DEF TdTyped, Saves
  <2>2. PICK b : b = td.saves.batches
    OBVIOUS
  <2>3. b \in Seq(0 .. MaxDocs) /\ i \in DOMAIN b
    BY <1>1, <2>1, <2>2
  <2>4. b[i] \in 0 .. MaxDocs
    BY <2>3, SeqAt
  <2> QED BY <2>2, <2>4
<1>2. TdTyped => {td.saves.open, td.saves.saving} \subseteq BOOLEAN
  BY DEF TdTyped, Saves
<1> QED BY <1>1, <1>2 DEF TdInv, TdTyped, FormShape, FormTyped, Analyses, TestDataTypeOK

(* The page keeps its types: a ZIP has 1 to 1000 documents, and no batch more *)
(* documents to save than the CSV or the answer had (TestDataGen.tsx).        *)
THEOREM TestDataTypes == TestDataSpec => []TestDataTypeOK
<1>1. TdInv /\ TdTyped /\ [TestDataNext]_tdVars => TdInv' /\ TdTyped'
  BY TdStep, TdTypedStep
<1> QED BY <1>1, TdStart, TdTypedAtFirst, TdTypesOK, PTL DEF TestDataSpec

-------------------------------------------------------------------------------
(* The interface diagram                                                      *)

(* The panel is hidden, or a record with the fields of its kind.              *)
LEMMA PanelCases ==
    ASSUME DiagramTypeOK
    PROVE  \/ panel = Hidden
           \/ panel.kind = "node" /\ panel = NodePanel(panel.id, panel.look)
              /\ panel.id \in NodeIds /\ panel.look \in Looks
           \/ panel.kind = "edge" /\ panel = EdgePanel(panel.id, panel.look)
              /\ panel.id \in NodeIds \X NodeIds /\ panel.look \in Looks
BY DEF DiagramTypeOK, Panels, Hidden, NodePanel, EdgePanel

(* A panel of a box or of an arrow is one of Panels.                          *)
LEMMA PanelsHold ==
    /\ Hidden \in Panels
    /\ \A n \in NodeIds, look \in Looks : NodePanel(n, look) \in Panels
    /\ \A e \in NodeIds \X NodeIds, look \in Looks : EdgePanel(e, look) \in Panels
BY DEF Panels, Hidden, NodePanel, EdgePanel

(* What erasing boxes N and arrows E leaves.                                  *)
LEMMA Erased ==
    ASSUME DiagramTypeOK, NEW N, NEW E, Erase(N, E)
    PROVE  /\ DOMAIN nodes' = DOMAIN nodes \ N /\ DOMAIN edges' = DOMAIN edges \ E
           /\ \A n \in DOMAIN nodes' : nodes'[n] = nodes[n]
           /\ \A e \in DOMAIN edges' : edges'[e] = edges[e]
           /\ nodes' \in [DOMAIN nodes' -> Looks] /\ edges' \in [DOMAIN edges' -> Looks]
           /\ fresh' = fresh
BY DEF DiagramTypeOK, Erase, Restrict

(* Arrows still join boxes if the arrows of the boxes N went with them.       *)
LEMMA ErasedJoins ==
    ASSUME DiagramTypeOK, ArrowsJoinBoxes, NEW N, NEW E, Erase(N, E),
           \A e \in DOMAIN edges : Ends(e) \cap N # {} => e \in E
    PROVE  ArrowsJoinBoxes'
<1>1. DOMAIN nodes' = DOMAIN nodes \ N /\ DOMAIN edges' = DOMAIN edges \ E
  BY Erased
<1>2. SUFFICES ASSUME NEW e \in DOMAIN edges' PROVE {e[1], e[2]} \subseteq DOMAIN nodes'
  BY DEF ArrowsJoinBoxes, Ends
<1>3. e \in DOMAIN edges /\ e \notin E
  BY <1>1
<1>4. {e[1], e[2]} \subseteq DOMAIN nodes /\ {e[1], e[2]} \cap N = {}
  BY <1>3 DEF ArrowsJoinBoxes, Ends
<1> QED BY <1>1, <1>4

(* The first diagram is of its type, and the panel hidden.                    *)
LEMMA InitAgrees == DiagramInit => DiagramTypeOK /\ DiagramAgrees
<1> SUFFICES ASSUME DiagramInit PROVE DiagramTypeOK /\ DiagramAgrees
  OBVIOUS
<1>1. PICK first \in SUBSET (Drawn \X Drawn) : edges = [e \in first |-> Plain]
  BY DEF DiagramInit
<1>2. DiagramTypeOK
  BY <1>1, DiagramIds, DiagramLooks, PanelsHold DEF DiagramInit, DiagramTypeOK
<1>3. DiagramAgrees
  BY <1>1 DEF DiagramInit, DiagramAgrees, ArrowsJoinBoxes, PanelShowsCanvas, Ends, Hidden
<1> QED BY <1>2, <1>3

(* An arrow is drawn.                                                         *)
LEMMA ConnectAgrees ==
    ASSUME DiagramTypeOK, DiagramAgrees, onConnect PROVE DiagramTypeOK' /\ DiagramAgrees'
<1>1. PICK e \in (DOMAIN nodes) \X (DOMAIN nodes) :
        edges' = IF e \in DOMAIN edges THEN edges
                 ELSE [x \in DOMAIN edges \cup {e} |-> IF x = e THEN Plain ELSE edges[x]]
  BY DEF onConnect
<1>2. UNCHANGED <<nodes, panel, fresh, ghost>>
  BY DEF onConnect
<1>3. /\ DOMAIN edges' = DOMAIN edges \cup {e}
      /\ \A x \in DOMAIN edges : edges'[x] = edges[x]
      /\ edges' \in [DOMAIN edges' -> Looks]
  BY <1>1, DiagramLooks DEF DiagramTypeOK
<1>4. e \in NodeIds \X NodeIds
  BY DEF DiagramTypeOK
<1>5. DiagramTypeOK'
  BY <1>2, <1>3, <1>4 DEF DiagramTypeOK, Panels
<1>6. ArrowsJoinBoxes'
  BY <1>2, <1>3 DEF ArrowsJoinBoxes, DiagramAgrees, Ends
<1>7. PanelShowsCanvas'
  BY <1>2, <1>3 DEF PanelShowsCanvas, DiagramAgrees
<1> QED BY <1>5, <1>6, <1>7 DEF DiagramAgrees

(* A click shows what was clicked, or nothing.                                *)
LEMMA ClickAgrees ==
    ASSUME DiagramTypeOK, DiagramAgrees, onNodeClick \/ onEdgeClick \/ onPaneClick
    PROVE  DiagramTypeOK' /\ DiagramAgrees'
<1>1. /\ UNCHANGED <<nodes, edges, fresh>> /\ ghost' = FALSE
      /\ \/ panel' = Hidden
         \/ \E n \in DOMAIN nodes : panel' = NodePanel(n, nodes[n])
         \/ \E e \in DOMAIN edges : panel' = EdgePanel(e, edges[e])
  BY DEF onNodeClick, onEdgeClick, onPaneClick, Show
<1>2. panel' \in Panels
  BY <1>1, PanelsHold DEF DiagramTypeOK
<1>3. DiagramTypeOK'
  BY <1>1, <1>2 DEF DiagramTypeOK, Panels
<1>4. ArrowsJoinBoxes'
  BY <1>1 DEF ArrowsJoinBoxes, DiagramAgrees, Ends
<1>5. PanelShowsCanvas'
  BY <1>1 DEF PanelShowsCanvas, Hidden, NodePanel, EdgePanel
<1> QED BY <1>3, <1>4, <1>5 DEF DiagramAgrees

(* A new box.                                                                 *)
LEMMA AddAgrees ==
    ASSUME DiagramTypeOK, DiagramAgrees, addNode PROVE DiagramTypeOK' /\ DiagramAgrees'
<1>1. PICK n \in fresh :
        /\ nodes' = [x \in DOMAIN nodes \cup {n} |-> IF x = n THEN Plain ELSE nodes[x]]
        /\ fresh' = fresh \ {n}
        /\ panel' = NodePanel(n, Plain)
  BY DEF addNode
<1>2. UNCHANGED edges /\ ghost' = FALSE
  BY DEF addNode
<1>3. /\ DOMAIN nodes' = DOMAIN nodes \cup {n} /\ nodes'[n] = Plain
      /\ nodes' \in [DOMAIN nodes' -> Looks]
  BY <1>1, DiagramLooks DEF DiagramTypeOK
<1>4. panel' \in Panels
  BY <1>1, PanelsHold, DiagramLooks DEF DiagramTypeOK
<1>5. DiagramTypeOK'
  BY <1>1, <1>2, <1>3, <1>4 DEF DiagramTypeOK, Panels
<1>6. ArrowsJoinBoxes'
  BY <1>2, <1>3 DEF ArrowsJoinBoxes, DiagramAgrees, Ends
<1>7. PanelShowsCanvas'
  BY <1>1, <1>3 DEF PanelShowsCanvas, NodePanel
<1> QED BY <1>5, <1>6, <1>7 DEF DiagramAgrees

(* The panel's controls change a box: the box, if it is there, and the copy.  *)
LEMMA UpdateNodeAgrees ==
    ASSUME DiagramTypeOK, DiagramAgrees, updateNode PROVE DiagramTypeOK' /\ DiagramAgrees'
<1>1. PICK look \in Looks :
        /\ nodes' = [n \in DOMAIN nodes |-> IF n = panel.id THEN look ELSE nodes[n]]
        /\ panel' = [panel EXCEPT !.look = look]
  BY DEF updateNode
<1>2. panel.kind = "node" /\ UNCHANGED <<edges, fresh, ghost>>
  BY DEF updateNode
<1>3. panel = NodePanel(panel.id, panel.look) /\ panel.id \in NodeIds
  BY <1>2, PanelCases DEF Hidden
<1>4. panel' = NodePanel(panel.id, look)
  BY <1>1, <1>3 DEF NodePanel
<1>5. panel' \in Panels
  BY <1>3, <1>4, PanelsHold
<1>6. DOMAIN nodes' = DOMAIN nodes /\ nodes' \in [DOMAIN nodes' -> Looks]
  BY <1>1 DEF DiagramTypeOK
<1>7. DiagramTypeOK'
  BY <1>2, <1>5, <1>6 DEF DiagramTypeOK, Panels
<1>8. ArrowsJoinBoxes'
  BY <1>2, <1>6 DEF ArrowsJoinBoxes, DiagramAgrees, Ends
<1>9. PanelShowsCanvas'
  BY <1>1, <1>2, <1>4 DEF PanelShowsCanvas, DiagramAgrees, NodePanel
<1> QED BY <1>7, <1>8, <1>9 DEF DiagramAgrees

(* The same for an arrow.                                                     *)
LEMMA UpdateEdgeAgrees ==
    ASSUME DiagramTypeOK, DiagramAgrees, updateEdge PROVE DiagramTypeOK' /\ DiagramAgrees'
<1>1. PICK look \in Looks :
        /\ edges' = [e \in DOMAIN edges |-> IF e = panel.id THEN look ELSE edges[e]]
        /\ panel' = [panel EXCEPT !.look = look]
  BY DEF updateEdge
<1>2. panel.kind = "edge" /\ UNCHANGED <<nodes, fresh, ghost>>
  BY DEF updateEdge
<1>3. panel = EdgePanel(panel.id, panel.look) /\ panel.id \in NodeIds \X NodeIds
  BY <1>2, PanelCases DEF Hidden
<1>4. panel' = EdgePanel(panel.id, look)
  BY <1>1, <1>3 DEF EdgePanel
<1>5. panel' \in Panels
  BY <1>3, <1>4, PanelsHold
<1>6. DOMAIN edges' = DOMAIN edges /\ edges' \in [DOMAIN edges' -> Looks]
  BY <1>1 DEF DiagramTypeOK
<1>7. DiagramTypeOK'
  BY <1>2, <1>5, <1>6 DEF DiagramTypeOK, Panels
<1>8. ArrowsJoinBoxes'
  BY <1>2, <1>6 DEF ArrowsJoinBoxes, DiagramAgrees, Ends
<1>9. PanelShowsCanvas'
  BY <1>1, <1>2, <1>4 DEF PanelShowsCanvas, DiagramAgrees, EdgePanel
<1> QED BY <1>7, <1>8, <1>9 DEF DiagramAgrees

(* Boxes go with their arrows: deleting by the panel, which closes it.        *)
LEMMA DeleteAgrees ==
    ASSUME DiagramTypeOK, DiagramAgrees, deleteSelected PROVE DiagramTypeOK' /\ DiagramAgrees'
<1>1. panel' = Hidden /\ ghost' = FALSE
  BY DEF deleteSelected
<1>2. PICK N, E : Erase(N, E) /\ EdgesOf(N) \subseteq E
  <2>1. CASE panel.kind = "node" /\ Erase({panel.id}, EdgesOf({panel.id}))
    BY <2>1
  <2>2. CASE panel.kind = "edge" /\ Erase({}, {panel.id})
    <3>1. EdgesOf({}) \subseteq {panel.id}
      BY DEF EdgesOf
    <3> QED BY <2>2, <3>1
  <2> QED BY <2>1, <2>2 DEF deleteSelected
<1>3. DiagramTypeOK'
  BY <1>1, <1>2, Erased, PanelsHold DEF DiagramTypeOK, Panels
<1>4. ArrowsJoinBoxes'
  BY <1>2, ErasedJoins DEF DiagramAgrees, EdgesOf
<1>5. PanelShowsCanvas'
  BY <1>1 DEF PanelShowsCanvas, Hidden
<1> QED BY <1>3, <1>4, <1>5 DEF DiagramAgrees

(* The Delete key: the panel keeps its copy, and "ghost" records if what it   *)
(* shows is gone.                                                             *)
LEMMA KeyAgrees ==
    ASSUME DiagramTypeOK, DiagramAgrees, DeleteKey PROVE DiagramTypeOK' /\ DiagramAgrees'
<1>1. PICK N \in SUBSET DOMAIN nodes, E0 \in SUBSET DOMAIN edges :
        /\ Erase(N, E0 \cup {e \in DOMAIN edges : Ends(e) \cap N # {}})
        /\ ghost' = \/ ghost
                    \/ panel.kind = "node" /\ panel.id \notin DOMAIN nodes'
                    \/ panel.kind = "edge" /\ panel.id \notin DOMAIN edges'
  BY DEF DeleteKey
<1>2. PICK E : Erase(N, E) /\ {e \in DOMAIN edges : Ends(e) \cap N # {}} \subseteq E
  BY <1>1
<1>3. panel' = panel
  BY DEF DeleteKey
<1>4. ghost' \in BOOLEAN
  BY <1>1 DEF DiagramTypeOK
<1>5. DiagramTypeOK'
  BY <1>2, <1>3, <1>4, Erased DEF DiagramTypeOK, Panels
<1>6. ArrowsJoinBoxes'
  BY <1>2, ErasedJoins DEF DiagramAgrees
<1>7. PanelShowsCanvas'
  <2>1. ~ghost' => ~ghost
    BY <1>1
  <2>2. panel.kind = "node" /\ ~ghost' => panel.id \in DOMAIN nodes'
    BY <1>1
  <2>3. panel.kind = "edge" /\ ~ghost' => panel.id \in DOMAIN edges'
    BY <1>1
  <2> QED BY <1>2, <1>3, <2>1, <2>2, <2>3, Erased DEF PanelShowsCanvas, DiagramAgrees
<1> QED BY <1>5, <1>6, <1>7 DEF DiagramAgrees

LEMMA DiagramStep ==
    ASSUME DiagramTypeOK, DiagramAgrees, [DiagramNext]_diagramVars
    PROVE  DiagramTypeOK' /\ DiagramAgrees'
<1>1. CASE onConnect
  BY <1>1, ConnectAgrees
<1>2. CASE onNodeClick \/ onEdgeClick \/ onPaneClick
  BY <1>2, ClickAgrees
<1>3. CASE addNode
  BY <1>3, AddAgrees
<1>4. CASE updateNode
  BY <1>4, UpdateNodeAgrees
<1>5. CASE updateEdge
  BY <1>5, UpdateEdgeAgrees
<1>6. CASE deleteSelected
  BY <1>6, DeleteAgrees
<1>7. CASE DeleteKey
  BY <1>7, KeyAgrees
<1>8. CASE UNCHANGED diagramVars
  BY <1>8 DEF diagramVars, DiagramTypeOK, DiagramAgrees, ArrowsJoinBoxes, PanelShowsCanvas,
     Panels, Ends
<1> QED BY <1>1, <1>2, <1>3, <1>4, <1>5, <1>6, <1>7, <1>8 DEF DiagramNext, PropsPanel

(* Every arrow of the canvas joins two boxes of it, and the panel shows what  *)
(* is on the canvas as it is there, for any number of boxes and arrows and    *)
(* whatever is deleted by the panel or by the key.                            *)
THEOREM CanvasAgrees == DiagramSpec => []DiagramAgrees
<1>1. DiagramTypeOK /\ DiagramAgrees /\ [DiagramNext]_diagramVars => DiagramTypeOK' /\ DiagramAgrees'
  BY DiagramStep
<1> QED BY <1>1, InitAgrees, PTL DEF DiagramSpec

(* The panel is hidden or shows a box or an arrow with one of the looks, also *)
(* after what it showed is gone from the canvas.                              *)
THEOREM DiagramTypes == DiagramSpec => []DiagramTypeOK
<1>1. DiagramTypeOK /\ DiagramAgrees /\ [DiagramNext]_diagramVars => DiagramTypeOK' /\ DiagramAgrees'
  BY DiagramStep
<1> QED BY <1>1, InitAgrees, PTL DEF DiagramSpec

-------------------------------------------------------------------------------
(* The pages together                                                         *)

(* The pages share no state, so their invariants together are one.            *)
WebInv ==
    /\ page \in Pages
    /\ PanelsInv /\ EdInv /\ HcInv /\ IdeInv /\ PickedIsInEditor /\ CtxInv /\ SelectionListed
    /\ RowInv /\ MonitorInv /\ FilesInv /\ TdInv /\ TdTyped /\ DiagramTypeOK /\ DiagramAgrees

(* A step of the front end is a step of every page, or leaves it alone.       *)
LEMMA PagesStep ==
    ASSUME [WebNext]_webVars
    PROVE  /\ [PanelNext]_panelVars /\ [EditorNext]_edVars /\ [HttpNext]_httpVars
           /\ [IdeNext]_ideVars /\ [ContextNext]_contextVars /\ [RowNext]_rowVars
           /\ [MonitorNext]_monVars /\ [FilesNext]_fileVars /\ [TestDataNext]_tdVars
           /\ [DiagramNext]_diagramVars /\ UNCHANGED page
<1>1. CASE UNCHANGED webVars
  BY <1>1 DEF webVars
<1>2. CASE WebNext
  <2>1. [PanelNext]_panelVars
    BY <1>2 DEF WebNext, PanelNext, GenerateAndOpen
  <2> QED BY <1>2, <2>1 DEF WebNext
<1> QED BY <1>1, <1>2

LEMMA WebStep == ASSUME WebInv, [WebNext]_webVars PROVE WebInv'
<1>1. page' \in Pages
  BY PagesStep DEF WebInv
<1>2. PanelsInv'
  BY PagesStep, PanelsStep DEF WebInv
<1>3. EdInv' /\ HcInv'
  BY PagesStep, EditorStep, HttpStep DEF WebInv
<1>4. IdeInv' /\ PickedIsInEditor'
  BY PagesStep, IdeStep, PickedStep DEF WebInv
<1>5. CtxInv' /\ SelectionListed'
  BY PagesStep, ContextStep, ListedStep DEF WebInv
<1>6. RowInv' /\ MonitorInv' /\ FilesInv'
  BY PagesStep, RowStep, MonitorKeeps, FilesStep DEF WebInv
<1>7. TdInv' /\ TdTyped'
  BY PagesStep, TdStep, TdTypedStep DEF WebInv
<1>8. DiagramTypeOK' /\ DiagramAgrees'
  BY PagesStep, DiagramStep DEF WebInv
<1> QED BY <1>1, <1>2, <1>3, <1>4, <1>5, <1>6, <1>7, <1>8 DEF WebInv

LEMMA WebStart == WebInit => WebInv
<1> SUFFICES ASSUME WebInit PROVE WebInv
  OBVIOUS
<1>1. /\ page \in Pages
      /\ PanelInit /\ EditorInit /\ HttpInit /\ IdeInit /\ ContextInit /\ RowInit /\ MonitorInit
      /\ FilesInit /\ TdInit /\ DiagramInit
  BY DEF WebInit
<1>2. PanelsInv /\ EdInv /\ HcInv
  BY <1>1, PanelsStart, EditorStart, HttpStart
<1>3. IdeInv /\ PickedIsInEditor /\ CtxInv /\ SelectionListed
  BY <1>1, IdeStart, PickedAtFirst, ContextStart
<1>4. RowInv /\ MonitorInv /\ FilesInv
  BY <1>1, ListAtFirst, MonitorAtFirst, FilesAtFirst
<1>5. TdInv /\ TdTyped /\ DiagramTypeOK /\ DiagramAgrees
  BY <1>1, TdStart, TdTypedAtFirst, InitAgrees
<1> QED BY <1>1, <1>2, <1>3, <1>4, <1>5 DEF WebInv

LEMMA WebIs == WebSpec => []WebInv
<1>1. WebInv /\ [WebNext]_webVars => WebInv'
  BY WebStep
<1> QED BY <1>1, WebStart, PTL DEF WebSpec

(* Whatever page is used and however, it keeps its types, for any sets of     *)
(* texts, rows, tiles, folders, boxes and requests.                           *)
THEOREM PagesTypes == WebSpec => []PagesTypeOK
<1>1. WebInv => PagesTypeOK
  <2>1. WebInv => /\ PanelTypeOK /\ EditorTypeOK /\ HttpTypeOK /\ IdeTypeOK /\ ContextTypeOK
                  /\ RowTypeOK /\ MonitorTypeOK /\ FilesTypeOK /\ TestDataTypeOK /\ DiagramTypeOK
    BY PanelsTyped, EditorTyped, HttpTyped, IdeTyped, ContextTyped, RowsTyped, MonitorTyped,
       FilesTyped, TdTypesOK DEF WebInv
  <2>2. WebInv => page \in Alone \cup {"edi"} \/ page \in {"ed", "hc", "ide", "ctx", "rows", "mon", "sftp", "td", "dia"}
    BY DEF WebInv, Pages
  <2> QED BY <2>1, <2>2 DEF PagesTypeOK
<1> QED BY <1>1, WebIs, PTL

(* The pages together keep what each of them promises alone.                  *)
THEOREM PagesKeepPromises ==
    WebSpec => [](/\ SavedRequestComesBack /\ PickedIsInEditor /\ SelectionListed
                  /\ FormsWriteTheirRow /\ ListAtRestIsTable /\ ViewIsOfSelection
                  /\ RowsAreOfFolder /\ FieldsFitTemplate /\ DiagramAgrees)
<1> DEFINE Promises == /\ SavedRequestComesBack /\ PickedIsInEditor /\ SelectionListed
                       /\ FormsWriteTheirRow /\ ListAtRestIsTable /\ ViewIsOfSelection
                       /\ RowsAreOfFolder /\ FieldsFitTemplate /\ DiagramAgrees
<1>1. WebInv => Promises
  BY SavedHolds, FormsAreWritten, ListsAtRest, MonitorShows, RowsAtRest, FieldsFit
     DEF WebInv, RowInv
<1> QED BY <1>1, WebIs, PTL

(* On the section in use, and on every other page with one button, what is    *)
(* shown is the answer to what was asked last.                                *)
THEOREM PagesShowLastAnswers ==
    WebSpec => /\ PanelsShowLastAnswer /\ EditorShowsLastAnswer /\ ResponseIsLastAnswer
               /\ OutputIsLastAnswer
<1>1. WebInit => PanelInUse!Init /\ Panel!Init /\ Response!Init /\ Output!Init
  <2> SUFFICES ASSUME WebInit PROVE PanelInUse!Init /\ Panel!Init /\ Response!Init /\ Output!Init
    OBVIOUS
  <2>1. PanelInit /\ EditorInit /\ HttpInit /\ IdeInit /\ page \in Pages
    BY DEF WebInit
  <2>2. InUse \in Sections
    BY DEF InUse, Alone, Sections, Forms
  <2>3. SectionPanel(InUse)!Init
    BY <2>1, <2>2, PanelsStart
  <2> QED BY <2>1, <2>3, EditorStart, HttpStart, IdeStart DEF SectionPanel!Init, PanelInUse!Init
<1>2. WebInv /\ [WebNext]_webVars =>
        /\ WebInv'
        /\ [PanelInUse!Next]_<<Awaited(panels[InUse].worker), panels[InUse].result>>
        /\ [Panel!Next]_<<Awaited(ed.worker), ed.output>>
        /\ [Response!Next]_<<Awaited(hc.worker), hc.response>>
        /\ [Output!Next]_<<Awaited(ide.worker), ide.result>>
  <2> SUFFICES ASSUME WebInv, [WebNext]_webVars
               PROVE  /\ [PanelInUse!Next]_<<Awaited(panels[InUse].worker), panels[InUse].result>>
                      /\ [Panel!Next]_<<Awaited(ed.worker), ed.output>>
                      /\ [Response!Next]_<<Awaited(hc.worker), hc.response>>
                      /\ [Output!Next]_<<Awaited(ide.worker), ide.result>>
    BY WebStep
  <2>1. InUse \in Sections /\ InUse' = InUse
    BY PagesStep DEF InUse, Alone, Sections, Forms
  <2>2. PanelMoves(panels[InUse], panels'[InUse])
    BY <2>1, PagesStep, PanelsStep DEF WebInv
  <2>3. [PanelInUse!Next]_<<Awaited(panels[InUse].worker), panels[InUse].result>>
    BY <2>1, <2>2 DEF PanelMoves, PanelInUse!Next, PanelInUse!Ask, PanelInUse!Answer,
       PanelInUse!Clear
  <2> QED BY <2>3, PagesStep, EditorStep, HttpStep, IdeStep DEF WebInv
<1> QED BY <1>1, <1>2, WebStart, PTL
        DEF WebSpec, PanelsShowLastAnswer, EditorShowsLastAnswer, ResponseIsLastAnswer,
            OutputIsLastAnswer, PanelInUse!Spec, Panel!Spec, Response!Spec, Output!Spec

(* However the pages are used together, only a conversion under way when the  *)
(* direction changed comes out mislabelled, and no list turns the tools to    *)
(* another instance.                                                          *)
THEOREM PagesKeepChoices == WebSpec => ToggleNeverMislabels /\ SelectionSticks
<1>1. WebInv /\ [WebNext]_webVars =>
        /\ WebInv'
        /\ Mislabelled(ed') => Mislabelled(ed)
             \/ \E i \in DOMAIN ed.worker.flight :
                   OutputType(ed.worker.flight[i].dir) # OutputType(ed.dir)
        /\ ctx'.sel # ctx.sel => ctx'.reads = ctx.reads \/ ctx.sel \notin ctx'.list
  BY WebStep, PagesStep, EditorStep, ContextStep DEF WebInv, Selects
<1> QED BY <1>1, WebStart, PTL DEF WebSpec, ToggleNeverMislabels, SelectionSticks
===============================================================================
