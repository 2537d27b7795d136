------------------------------- MODULE GroovyIde -------------------------------
(* The pages "Groovy IDE" and "Script Library" and what App puts between them: *)
(* an editor that is linted in the background, one run at a time, and scripts *)
(* that the library loads into the editor.  A run's answer stands for the     *)
(* script that ran; its body, headers, properties and timeout are left out.   *)
EXTENDS UseWorker

CONSTANTS Sample, Other, Bad,  \* two scripts that lint clean, and one that does not
          NoScript,     \* the empty editor
          MaxLints,     \* lint requests in flight
          MaxLoads      \* scripts loaded from the library

Library == {Sample, Other}
Scripts == {Sample, Other, Bad}

ASSUME IdeScripts == Nothing \notin Scripts /\ NoScript \notin Scripts
ASSUME IdeLoads == MaxLoads \in Nat

VARIABLES ide,          \* the IDE
          inject,       \* App's ideInject: the script to load, and its key
          filter,       \* the scripts the library's level, tags and search let through
          picked        \* the script loaded last, until the editor is changed by hand

ideVars == <<ide, inject, filter, picked>>

Loads == [body : Library \cup {NoScript}, key : 0 .. MaxLoads]

(* onMount lints the sample.                                                  *)
IdeInit ==
    /\ ide = [script |-> Sample, worker |-> Idle, result |-> Nothing,
              timer |-> Nothing, lints |-> <<Sample>>, errorsOf |-> Nothing]
    /\ inject = [body |-> NoScript, key |-> 0]
    /\ filter = Library
    /\ picked = Nothing

(* onChange: the script changes, and the lint of the older text is put off.   *)
EditScript ==
    /\ \E s \in Scripts \cup {NoScript} : ide' = [ide EXCEPT !.script = s, !.timer = s]
    /\ picked' = Nothing
    /\ UNCHANGED <<inject, filter>>

(* The timer fires with the text it was set for; an empty one has no errors.  *)
runLint ==
    /\ ide.timer # Nothing
    /\ Len(ide.lints) < MaxLints
    /\ ide' = IF ide.timer = NoScript
                THEN [ide EXCEPT !.timer = Nothing, !.errorsOf = Nothing]
                ELSE [ide EXCEPT !.timer = Nothing, !.lints = Append(@, ide.timer)]
    /\ UNCHANGED <<inject, filter, picked>>

(* Answers are shown as they come, also those of older texts; a failed lint   *)
(* is silent.                                                                 *)
LintArrives ==
    /\ \E i \in DOMAIN ide.lints, ok \in BOOLEAN :
         ide' = [ide EXCEPT !.lints = RemoveAt(@, i),
                   !.errorsOf = IF ~ok THEN @ ELSE IF ide.lints[i] = Bad THEN Bad ELSE Nothing]
    /\ UNCHANGED <<inject, filter, picked>>

(* A script that is put into the editor clears result and errors; no lint is  *)
(* scheduled for it.                                                          *)
Replaced(p, s) == [p EXCEPT !.script = s, !.errorsOf = Nothing, !.result = Nothing]

ResetToSample ==
    /\ ide' = Replaced(ide, Sample)
    /\ picked' = Nothing
    /\ UNCHANGED <<inject, filter>>

(* Slip: Run stays enabled while a script runs.                               *)
HasScript(p) == p.script # NoScript

CanRunScript(p) == p.script # NoScript /\ ~p.worker.loading

run ==
    /\ CanRunScript(ide)
    /\ ide' = [ide EXCEPT !.worker = Posted(@, ide.script), !.result = Nothing]
    /\ UNCHANGED <<inject, filter, picked>>

(* A run always ends in a result: the answer, or the network error as one.    *)
RunArrives ==
    /\ \E i \in DOMAIN ide.worker.flight :
         ide' = [ide EXCEPT !.worker = Ended(@, i, TRUE), !.result = ide.worker.flight[i]]
    /\ UNCHANGED <<inject, filter, picked>>

GroovyIDE == EditScript \/ runLint \/ LintArrives \/ ResetToSample \/ run \/ RunArrives

(* Slip: the key follows the script.                                          *)
KeyOfScript(prev, s) == IF prev.body = s THEN prev.key ELSE prev.key + 1

NextKey(prev, s) == prev.key + 1

(* "Load in IDE": App hands the script on and the IDE's effect takes it when  *)
(* the key has changed.                                                       *)
loadInIDE ==
    /\ inject.key < MaxLoads
    /\ \E s \in filter :
         /\ inject' = [body |-> s, key |-> NextKey(inject, s)]
         /\ ide' = IF inject'.key # inject.key THEN Replaced(ide, s) ELSE ide
         /\ picked' = s
    /\ UNCHANGED filter

SetFilter == filter' \in SUBSET Library /\ UNCHANGED <<ide, inject, picked>>

ScriptLibrary == loadInIDE \/ SetFilter

IdeNext == GroovyIDE \/ ScriptLibrary

(* Timers fire; requests are answered or fail.                                *)
IdeFairness == WF_ideVars(runLint) /\ WF_ideVars(LintArrives) /\ WF_ideVars(RunArrives)

IdeSpec == IdeInit /\ [][IdeNext]_ideVars /\ IdeFairness

IdeTypeOK ==
    /\ ide.script \in Scripts \cup {NoScript}
    /\ ide.timer \in Scripts \cup {NoScript, Nothing}
    /\ ide.errorsOf \in {Bad, Nothing}
    /\ \A i \in DOMAIN ide.lints : ide.lints[i] \in Scripts
    /\ WorkerOf(ide.worker, Scripts) /\ ide.result \in Scripts \cup {Nothing}
    /\ inject \in Loads /\ filter \subseteq Library /\ picked \in Library \cup {Nothing}

Output == INSTANCE LastAnswer WITH pending <- Awaited(ide.worker), shown <- ide.result,
                                   Keeps <- FALSE

(* The output is that of the last script run; loading, resetting and editing  *)
(* scripts while it runs do not show an older one (GroovyIDE.tsx).            *)
OutputIsLastAnswer == Output!Spec

(* A script loaded from the library is in the editor until the editor is      *)
(* changed by hand, also when it was loaded before and edited since: "key     *)
(* increments each time so useEffect fires even for the same script content"  *)
(* (GroovyIDE.tsx:96).                                                        *)
PickedIsInEditor == picked # Nothing => ide.script = picked
===============================================================================
