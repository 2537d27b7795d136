---------------------------- MODULE InstanceContext ----------------------------
(* The "Working with" bar over the list of CPI instances (CPIInstanceContext, *)
(* App) and the page "Auth Header", which works on the selected instance.     *)
(* Instances are added and deleted in the settings dialog, here or in another *)
(* browser; closing the dialog refreshes the list.                            *)
EXTENDS WebPage

CONSTANTS Ids,          \* instance ids
          Keyed,        \* the instances with an API key
          NoId,         \* '': no instance is selected
          MaxReads      \* refreshes in flight

ASSUME ContextIds == Keyed \subseteq Ids /\ NoId \notin Ids

VARIABLES instances,    \* the worker's table
          ctx,          \* the context: list, selection, refreshes in flight
          auth          \* the page "Auth Header"

contextVars == <<instances, ctx, auth>>

Unread == Nothing       \* a refresh the worker has not reached

(* The provider refreshes when it is mounted.                                 *)
ContextInit ==
    /\ instances \in SUBSET Ids
    /\ ctx = [list |-> {}, sel |-> NoId, reads |-> <<Unread>>]
    /\ auth = [manual |-> FALSE, typed |-> FALSE, saving |-> Nothing]

(* The settings dialog's saves and deletes, of this browser or another.       *)
InstancesMove ==
    /\ \E id \in Ids : instances' \in {instances \cup {id}, instances \ {id}}
    /\ UNCHANGED <<ctx, auth>>

(* onClose of the settings dialog.                                            *)
refresh ==
    /\ Len(ctx.reads) < MaxReads
    /\ ctx' = [ctx EXCEPT !.reads = Append(@, Unread)]
    /\ UNCHANGED <<instances, auth>>

ContextServed ==
    /\ \E i \in DOMAIN ctx.reads :
         ctx.reads[i] = Unread /\ ctx' = [ctx EXCEPT !.reads[i] = instances]
    /\ UNCHANGED <<instances, auth>>

(* Slips: every list selects its first instance; the choice is kept whatever  *)
(* the list says.                                                             *)
FirstOf(sel, data, id) == IF data = {} THEN id = NoId ELSE id \in data
KeptOf(sel, data, id) == IF sel # NoId \/ data = {} THEN id = sel ELSE id \in data

(* What a list that arrives selects: the old choice if it is listed, else the *)
(* first instance of the list, whichever that is.                             *)
Selects(sel, data, id) ==
    IF sel \in data THEN id = sel ELSE IF data = {} THEN id = NoId ELSE id \in data

(* Answers arrive in any order; a failed refresh changes nothing.             *)
ContextArrives ==
    /\ \E i \in DOMAIN ctx.reads :
         \/ /\ ctx.reads[i] # Unread
            /\ \E id \in Ids \cup {NoId} :
                 /\ Selects(ctx.sel, ctx.reads[i], id)
                 /\ ctx' = [list |-> ctx.reads[i], sel |-> id, reads |-> RemoveAt(ctx.reads, i)]
         \/ ctx' = [ctx EXCEPT !.reads = RemoveAt(@, i)]
    /\ UNCHANGED <<instances, auth>>

(* The Select of the bar offers the instances of the list.                    *)
ChooseInstance ==
    /\ \E id \in ctx.list : ctx' = [ctx EXCEPT !.sel = id]
    /\ UNCHANGED <<instances, auth>>

CPIInstanceProvider == refresh \/ ContextServed \/ ContextArrives

(* Whose credentials the header is made of: typed ones, or those of the       *)
(* instance that is selected and found in the list.                           *)
Credentials ==
    IF auth.manual THEN IF auth.typed THEN "typed" ELSE Nothing
    ELSE IF ctx.sel \in ctx.list \cap Keyed THEN ctx.sel ELSE Nothing

EditAuth ==
    /\ \E m \in BOOLEAN, t \in BOOLEAN : auth' = [auth EXCEPT !.manual = m, !.typed = t]
    /\ UNCHANGED <<instances, ctx>>

SaveHeader ==
    /\ Credentials # Nothing /\ auth.saving = Nothing
    /\ auth' = [auth EXCEPT !.saving = Credentials]
    /\ UNCHANGED <<instances, ctx>>

HeaderSaved ==
    /\ auth.saving # Nothing
    /\ auth' = [auth EXCEPT !.saving = Nothing]
    /\ UNCHANGED <<instances, ctx>>

AuthHeaderGen == EditAuth \/ SaveHeader \/ HeaderSaved

ContextNext == InstancesMove \/ CPIInstanceProvider \/ ChooseInstance \/ AuthHeaderGen

(* Every refresh and every save is answered or fails.                         *)
ContextFairness == WF_contextVars(ContextArrives) /\ WF_contextVars(HeaderSaved)

ContextSpec == ContextInit /\ [][ContextNext]_contextVars /\ ContextFairness

ContextTypeOK ==
    /\ instances \subseteq Ids
    /\ ctx \in [list : SUBSET Ids, sel : Ids \cup {NoId}, reads : Seq((SUBSET Ids) \cup {Unread})]
    /\ auth \in [manual : BOOLEAN, typed : BOOLEAN, saving : Ids \cup {"typed", Nothing}]

(* The instance the tools work with is one of the list the bar shows, and     *)
(* there is none only when the list is empty, although lists arrive late, out *)
(* of order and after instances were deleted (CPIInstanceContext.tsx).        *)
SelectionListed == IF ctx.list = {} THEN ctx.sel = NoId ELSE ctx.sel \in ctx.list

(* The selection moves only by the user's choice among the instances shown,   *)
(* or because a list arrived without the instance selected: no refresh turns  *)
(* the tools to another system while the chosen one is listed.                *)
SelectionSticks ==
    [][ctx'.sel # ctx.sel => ctx'.reads = ctx.reads \/ ctx.sel \notin ctx'.list]_contextVars
===============================================================================
