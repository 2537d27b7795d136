--------------------------- MODULE ScaffoldUpload ---------------------------
(***************************************************************************)
(* Upload of a generated iFlow to a CPI tenant: the confirmation panel of  *)
(* web/src/pages/IFlowScaffold.tsx, the preflight and upload handlers of   *)
(* cmd/cpi-dev/scaffold_templates.go, and the tenant, where other people   *)
(* work too.  An instance row may be edited between any two statements.    *)
(*                                                                         *)
(* Every call to the tenant is one action; it may be refused, and its      *)
(* answer may be lost after it took effect.  Tokens are in TokenCache.     *)
(***************************************************************************)
CONSTANTS
  Users,       \* browsers with the scaffold page open
  Instances,   \* rows of w_cpi_instances
  Tenants,     \* what the api_key of a row may point to
  Restricted,  \* tenants that are not TRL, SBX or DEV systems
  Packages, IFlows, Designs,   \* ids, and what the form makes of them
  None         \* no row, no selection, no panel, no artifact

ASSUME RestrictedAssumption == Restricted \subseteq Tenants
ASSUME NoneAssumption ==
  None \notin UNION {Instances, Tenants, Packages, IFlows, Designs}

VARIABLES
  instance,   \* id -> row, or None once it is deleted: ids are not reused
  package,    \* per tenant, the ids of its packages
  artifact,   \* per tenant, iFlow id -> design or None
  page,       \* per user, the page's state
  request     \* per user, the goroutine of the last request

tenantVars == <<package, artifact>>
vars == <<instance, package, artifact, page, request>>

(* A row's system_type says truly whether its tenant is restricted, and the
   worker stores type and key in one statement: the tenant stands for both. *)
Row == [tenant : Tenants, keyed : BOOLEAN]

Form == [iflow : IFlows, package : Packages, design : Designs]

Panel == [iflow : IFlows, package : Packages,
          iflowExists : BOOLEAN, packageExists : BOOLEAN]

Answers == {"none", "created", "updated", "error"}

Page == [selected   : Instances \cup {None},
         restricted : BOOLEAN,              \* type in the copy of the list
         form       : Form,
         busy       : {"no", "checking", "uploading"},
         panel      : Panel \cup {None},
         message    : Answers]

Request == [pc     : {"idle", "type", "key", "seePackage", "seeIFlow", "csrf",
                      "ensure", "makePackage", "look", "put", "post"},
            upload : BOOLEAN,               \* or a preflight
            id     : Instances \cup {None},
            form   : Form,
            tenant : Tenants \cup {None},
            packageExists : BOOLEAN,
            lost   : BOOLEAN,     \* observer: a write's answer did not arrive
            moved  : BOOLEAN]     \* observer: row edited since the type check

TypeOK ==
  /\ instance \in [Instances -> Row \cup {None}]
  /\ package \in [Tenants -> SUBSET Packages]
  /\ artifact \in [Tenants -> [IFlows -> Designs \cup {None}]]
  /\ page \in [Users -> Page]
  /\ request \in [Users -> Request]

Fresh(f) == [pc |-> "idle", upload |-> FALSE, id |-> None, form |-> f,
             tenant |-> None, packageExists |-> FALSE, lost |-> FALSE,
             moved |-> FALSE]

Init ==
  /\ instance \in [Instances -> Row]
  /\ package \in [Tenants -> SUBSET Packages]
  /\ artifact = [t \in Tenants |-> [i \in IFlows |-> None]]
  /\ \E f \in Form :
       /\ page = [u \in Users |->
            [selected |-> None, restricted |-> FALSE, form |-> f, busy |-> "no",
             panel |-> None, message |-> "none"]]
       /\ request = [u \in Users |-> Fresh(f)]

----------------------------------------------------------------------------
(* Around the upload: the instance editor of the worker, and other people's
   work on a tenant.                                                       *)
RowMoves(i) ==
  request' = [u \in Users |-> IF request[u].id = i
                                THEN [request[u] EXCEPT !.moved = TRUE]
                                ELSE request[u]]

SaveInstance(i) ==
  /\ instance[i] # None
  /\ \E r \in Row : instance' = [instance EXCEPT ![i] = r]
  /\ RowMoves(i)
  /\ UNCHANGED <<tenantVars, page>>

DeleteInstance(i) ==
  /\ instance[i] # None
  /\ instance' = [instance EXCEPT ![i] = None]
  /\ RowMoves(i)
  /\ UNCHANGED <<tenantVars, page>>

TenantChanges(t) ==
  /\ \/ \E p \in SUBSET Packages : package' = [package EXCEPT ![t] = p]
        /\ UNCHANGED artifact
     \/ \E i \in IFlows, d \in Designs \cup {None} :
          artifact' = [artifact EXCEPT ![t][i] = d]
        /\ UNCHANGED package
  /\ UNCHANGED <<instance, page, request>>

----------------------------------------------------------------------------
(* The page                                                                *)

(* "Working with": the context's copy of the list decides on the overlay;
   the form below it, its panel included, stays as it was.                 *)
Select(u) ==
  /\ \E i \in Instances :
       /\ instance[i] # None
       /\ page' = [page EXCEPT ![u].selected = i,
                     ![u].restricted = instance[i].tenant \in Restricted]
  /\ UNCHANGED <<instance, tenantVars, request>>

Usable(u) == page[u].selected # None /\ ~page[u].restricted

EditForm(u) ==
  /\ Usable(u)
  /\ \E f \in Form : page' = [page EXCEPT ![u].form = f]
  /\ UNCHANGED <<instance, tenantVars, request>>

Cancel(u) ==
  /\ Usable(u) /\ page[u].panel # None /\ page[u].busy = "no"
  /\ page' = [page EXCEPT ![u].panel = None]
  /\ UNCHANGED <<instance, tenantVars, request>>

Send(u, isUpload) ==
  request' = [request EXCEPT ![u] =
    [Fresh(page[u].form) EXCEPT !.pc = IF isUpload THEN "type" ELSE "key",
                                !.upload = isUpload, !.id = page[u].selected]]

CheckBeforeUpload(u) ==
  /\ Usable(u) /\ page[u].panel = None /\ page[u].busy = "no"
  /\ page' = [page EXCEPT ![u].busy = "checking", ![u].message = "none"]
  /\ Send(u, FALSE)
  /\ UNCHANGED <<instance, tenantVars>>

ConfirmUpload(u) ==
  /\ Usable(u) /\ page[u].panel # None /\ page[u].busy = "no"
  /\ page' = [page EXCEPT ![u].busy = "uploading", ![u].message = "none"]
  /\ Send(u, TRUE)
  /\ UNCHANGED <<instance, tenantVars>>

----------------------------------------------------------------------------
(* Ends of a request.  The page shows what it is told; if the answer does
   not arrive it shows an error.                                           *)
At(u, pc) == request[u].pc = pc

Goto(u, pc) == request' = [request EXCEPT ![u].pc = pc] /\ UNCHANGED page

Fail(u) ==
  /\ request' = [request EXCEPT ![u].pc = "idle"]
  /\ page' = [page EXCEPT ![u].busy = "no", ![u].message = "error"]

(* Slip: the status of the tenant's answer is not looked at.               *)
RefusedButAnswered(u, what) ==
  /\ request' = [request EXCEPT ![u].pc = "idle"]
  /\ page' = [page EXCEPT ![u].busy = "no", ![u].message = what,
                          ![u].panel = None]

(* The tenant refuses the write, or it is never reached.                   *)
Refused(u, what) == Fail(u)

Landed(u, what) ==
  \/ /\ request' = [request EXCEPT ![u].pc = "idle"]
     /\ page' = [page EXCEPT ![u].busy = "no", ![u].message = what,
                             ![u].panel = None]
  \/ /\ request' = [request EXCEPT ![u].pc = "idle", ![u].lost = TRUE]
     /\ page' = [page EXCEPT ![u].busy = "no", ![u].message = "error"]

----------------------------------------------------------------------------
(* The handlers                                                            *)

(* Slip: only the instance's existence is checked.                         *)
AnyType(row) == TRUE

(* scaffoldAllowedTypes                                                    *)
AllowedType(row) == row.tenant \notin Restricted

CheckType(u) ==
  /\ At(u, "type")
  /\ LET row == instance[request[u].id] IN
       IF row # None /\ AllowedType(row)
         THEN /\ request' = [request EXCEPT ![u].pc = "key", ![u].moved = FALSE]
              /\ UNCHANGED page
         ELSE Fail(u)
  /\ UNCHANGED <<instance, tenantVars>>

(* SELECT api_key, a statement of its own in both handlers.                *)
ReadKey(u) ==
  /\ At(u, "key")
  /\ LET row == instance[request[u].id] IN
       IF row # None /\ row.keyed
         THEN /\ request' = [request EXCEPT
                   ![u].pc = IF request[u].upload THEN "csrf" ELSE "seePackage",
                   ![u].tenant = row.tenant]
              /\ UNCHANGED page
         ELSE Fail(u)
  /\ UNCHANGED <<instance, tenantVars>>

(* Preflight: any answer but 200 counts as absence.                        *)
SeePackage(u) ==
  /\ At(u, "seePackage")
  /\ \/ \E ok \in BOOLEAN :
          /\ request' = [request EXCEPT ![u].pc = "seeIFlow",
                                        ![u].packageExists =
               ok /\ request[u].form.package \in package[request[u].tenant]]
          /\ UNCHANGED page
     \/ Fail(u)
  /\ UNCHANGED <<instance, tenantVars>>

SeeIFlow(u) ==
  /\ At(u, "seeIFlow")
  /\ LET r == request[u] IN
     \/ \E ok \in BOOLEAN :
          /\ request' = [request EXCEPT ![u].pc = "idle"]
          /\ page' = [page EXCEPT ![u].busy = "no",
               ![u].panel = [iflow |-> r.form.iflow, package |-> r.form.package,
                             iflowExists |->
                               ok /\ artifact[r.tenant][r.form.iflow] # None,
                             packageExists |-> r.packageExists]]
     \/ Fail(u)
  /\ UNCHANGED <<instance, tenantVars>>

(* OAuth token, CSRF token, templates and ZIP: nothing but failures.       *)
FetchCSRF(u) ==
  /\ At(u, "csrf")
  /\ Goto(u, "ensure") \/ Fail(u)
  /\ UNCHANGED <<instance, tenantVars>>

EnsurePackage(u) ==
  /\ At(u, "ensure")
  /\ \/ /\ request[u].form.package \in package[request[u].tenant]
        /\ Goto(u, "look")
     \/ Goto(u, "makePackage")
     \/ Fail(u)
  /\ UNCHANGED <<instance, tenantVars>>

(* Slip: a package that cannot be created is looked up again, for ever.    *)
CreatePackageAgain(u) ==
  /\ At(u, "makePackage")
  /\ Goto(u, "ensure")
  /\ UNCHANGED <<instance, tenantVars>>

(* The tenant creates a package it does not have; the answer may be lost.  *)
CreatePackage(u) ==
  /\ At(u, "makePackage")
  /\ LET t == request[u].tenant  p == request[u].form.package IN
     \/ /\ p \notin package[t]
        /\ package' = [package EXCEPT ![t] = @ \cup {p}]
        /\ Goto(u, "look") \/ Fail(u)
     \/ Fail(u) /\ UNCHANGED package
  /\ UNCHANGED <<instance, artifact>>

LookForArtifact(u) ==
  /\ At(u, "look")
  /\ \/ /\ artifact[request[u].tenant][request[u].form.iflow] # None
        /\ Goto(u, "put")
     \/ Goto(u, "post")
     \/ Fail(u)
  /\ UNCHANGED <<instance, tenantVars>>

Write(u, what) ==
  LET r == request[u] IN
  /\ artifact' = [artifact EXCEPT ![r.tenant][r.form.iflow] = r.form.design]
  /\ Landed(u, what)

(* Slip: the tenant's 202 is passed on as an answer of its own.            *)
PutAccepted(u) ==
  /\ At(u, "put")
  /\ \/ /\ artifact[request[u].tenant][request[u].form.iflow] # None
        /\ Write(u, "accepted")
     \/ Refused(u, "updated") /\ UNCHANGED artifact
  /\ UNCHANGED <<instance, package>>

(* The tenant updates an artifact it has.                                  *)
PutArtifact(u) ==
  /\ At(u, "put")
  /\ \/ /\ artifact[request[u].tenant][request[u].form.iflow] # None
        /\ Write(u, "updated")
     \/ Refused(u, "updated") /\ UNCHANGED artifact
  /\ UNCHANGED <<instance, package>>

(* It creates one under an id it does not have, in a package it has.       *)
PostArtifact(u) ==
  /\ At(u, "post")
  /\ LET r == request[u] IN
     \/ /\ artifact[r.tenant][r.form.iflow] = None
        /\ r.form.package \in package[r.tenant]
        /\ Write(u, "created")
     \/ Refused(u, "created") /\ UNCHANGED artifact
  /\ UNCHANGED <<instance, package>>

----------------------------------------------------------------------------
HandlerStep(u) ==
  \/ CheckType(u) \/ ReadKey(u)
  \/ SeePackage(u) \/ SeeIFlow(u)
  \/ FetchCSRF(u) \/ EnsurePackage(u) \/ CreatePackage(u)
  \/ LookForArtifact(u) \/ PutArtifact(u) \/ PostArtifact(u)

PageStep(u) ==
  Select(u) \/ EditForm(u) \/ Cancel(u) \/ CheckBeforeUpload(u) \/ ConfirmUpload(u)

Next ==
  \/ \E i \in Instances : SaveInstance(i) \/ DeleteInstance(i)
  \/ \E t \in Tenants : TenantChanges(t)
  \/ \E u \in Users : PageStep(u) \/ HandlerStep(u)

Spec == Init /\ [][Next]_vars

(* A handler goes on until it has answered: each of its calls has a timeout. *)
FairSpec == Spec /\ \A u \in Users : WF_vars(HandlerStep(u))

----------------------------------------------------------------------------
(* Properties                                                              *)

Reaches(u) == request[u].upload /\ request[u].tenant \in Restricted

(* makeScaffoldUploadHandler: an upload only gets as far as a restricted
   system if its instance row was edited after the type check; a page with
   an old list or a panel confirmed for another row does not suffice.        *)
RestrictedOnlyByRace == \A u \in Users : Reaches(u) => request[u].moved

(* IFlowScaffold.tsx:89: "This tool must not be used with QAS, PPD, or PRD
   systems."  Type and key are read in two statements, so it can be.       *)
NeverOnRestricted == \A u \in Users : ~Reaches(u)

Ends(u) == request[u].upload /\ request[u].pc # "idle" /\ request'[u].pc = "idle"

(* upsertCPIArtifact, confirmUpload: the page says "created" only when there
   was no artifact and "updated" only when there was one, whoever made or
   removed it since the handler looked; an error it shows means that the
   upload left the artifact alone, unless the tenant's answer was lost.    *)
AnswerTellsTheTruth ==
  [][\A u \in Users : Ends(u) =>
       LET r   == request[u]
           was == artifact[r.tenant][r.form.iflow]
           is  == artifact'[r.tenant][r.form.iflow]
           msg == page'[u].message IN
       /\ msg = "created" => was = None /\ is = r.form.design
       /\ msg = "updated" => was # None /\ is = r.form.design
       /\ msg = "error" /\ ~request'[u].lost /\ r.tenant # None => is = was]_vars

(* confirmUpload, checkBeforeUpload: the page's buttons come back after every
   check and upload, whatever the tenant, the row and other people do.     *)
PageComesBack == \A u \in Users : page[u].busy # "no" ~> page[u].busy = "no"
=============================================================================
