------------------------ MODULE ScaffoldUpload_proofs ------------------------
(***************************************************************************)
(* Types, the race that alone leads to a restricted system, and what the   *)
(* page is told, for any users, instances, tenants and ids.                *)
(***************************************************************************)
EXTENDS ScaffoldUpload, TLAPS

(* A handler knows its instance from the start and its tenant from the key. *)
Underway ==
  \A u \in Users :
    /\ request[u].pc \in {"type", "key"} => request[u].id \in Instances
    /\ request[u].pc \notin {"idle", "type", "key"} => request[u].tenant \in Tenants

TypeInv == TypeOK /\ Underway

(* The worker's editor and the tenant's other users.                       *)
Around ==
  \/ \E i \in Instances : SaveInstance(i) \/ DeleteInstance(i)
  \/ \E t \in Tenants : TenantChanges(t)

(* What the actions write into a request keeps its type.                   *)
LEMMA Moved == ASSUME NEW r \in Request PROVE [r EXCEPT !.moved = TRUE] \in Request
  BY DEF Request

LEMMA PcAnd ==
  ASSUME NEW r \in Request, NEW b \in BOOLEAN, NEW t \in Tenants \cup {None},
         NEW pc \in {"key", "csrf", "seePackage", "seeIFlow"}
  PROVE  /\ [r EXCEPT !.pc = pc, !.moved = b] \in Request
         /\ [r EXCEPT !.pc = pc, !.packageExists = b] \in Request
         /\ [r EXCEPT !.pc = pc, !.tenant = t] \in Request
<1> DEFINE p == [r EXCEPT !.pc = pc]
<1>1. p \in Request
  BY DEF Request
<1>2. /\ [r EXCEPT !.pc = pc, !.moved = b] = [p EXCEPT !.moved = b]
      /\ [r EXCEPT !.pc = pc, !.packageExists = b] = [p EXCEPT !.packageExists = b]
      /\ [r EXCEPT !.pc = pc, !.tenant = t] = [p EXCEPT !.tenant = t]
  OBVIOUS
<1> HIDE DEF p
<1>3. [p EXCEPT !.moved = b] \in Request
  BY <1>1 DEF Request
<1>4. [p EXCEPT !.packageExists = b] \in Request
  BY <1>1 DEF Request
<1>5. [p EXCEPT !.tenant = t] \in Request
  BY <1>1 DEF Request
<1> QED
  BY <1>2, <1>3, <1>4, <1>5

LEMMA TwoFields ==
  ASSUME request \in [Users -> Request], NEW u \in Users,
         NEW pc \in {"key", "csrf", "seePackage", "seeIFlow"},
         NEW b \in BOOLEAN, NEW t \in Tenants \cup {None},
         \/ request' = [request EXCEPT ![u].pc = pc, ![u].moved = b]
         \/ request' = [request EXCEPT ![u].pc = pc, ![u].tenant = t]
         \/ request' = [request EXCEPT ![u].pc = pc, ![u].packageExists = b]
  PROVE  request' \in [Users -> Request]
<1> DEFINE r == request[u]
           r1 == [r EXCEPT !.pc = pc, !.moved = b]
           r2 == [r EXCEPT !.pc = pc, !.tenant = t]
           r3 == [r EXCEPT !.pc = pc, !.packageExists = b]
<1>1. r1 \in Request /\ r2 \in Request /\ r3 \in Request
  <2>1. r \in Request
    OBVIOUS
  <2> HIDE DEF r
  <2> QED
    BY <2>1, PcAnd
<1>2. \/ request' = [request EXCEPT ![u] = r1]
      \/ request' = [request EXCEPT ![u] = r2]
      \/ request' = [request EXCEPT ![u] = r3]
  BY DEF Request
<1> HIDE DEF r1, r2, r3
<1> QED
  BY <1>1, <1>2

(* What they write into a page, one kind of change each.                   *)
LEMMA PageSelects ==
  ASSUME page \in [Users -> Page], NEW u \in Users, NEW i \in Instances,
         NEW b \in BOOLEAN,
         page' = [page EXCEPT ![u].selected = i, ![u].restricted = b]
  PROVE  page' \in [Users -> Page]
  BY DEF Page

LEMMA PageEdits ==
  ASSUME page \in [Users -> Page], NEW u \in Users,
         \/ \E f \in Form : page' = [page EXCEPT ![u].form = f]
         \/ page' = [page EXCEPT ![u].panel = None]
  PROVE  page' \in [Users -> Page]
  BY DEF Page

LEMMA PageBusy ==
  ASSUME page \in [Users -> Page], NEW u \in Users,
         NEW b \in {"no", "checking", "uploading"}, NEW m \in Answers,
         page' = [page EXCEPT ![u].busy = b, ![u].message = m]
  PROVE  page' \in [Users -> Page]
  BY DEF Page

LEMMA PageTold ==
  ASSUME page \in [Users -> Page], NEW u \in Users, NEW m \in Answers,
         page' = [page EXCEPT ![u].busy = "no", ![u].message = m, ![u].panel = None]
  PROVE  page' \in [Users -> Page]
<1> DEFINE told == [page[u] EXCEPT !.busy = "no", !.message = m, !.panel = None]
<1>1. told \in Page
  BY DEF Page
<1>2. page' = [page EXCEPT ![u] = told]
  BY DEF Page
<1> HIDE DEF told
<1> QED
  BY <1>1, <1>2

LEMMA PageShows ==
  ASSUME page \in [Users -> Page], NEW u \in Users, NEW p \in Panel,
         page' = [page EXCEPT ![u].busy = "no", ![u].panel = p]
  PROVE  page' \in [Users -> Page]
  BY DEF Page

LEMMA InitTyped == Init => TypeInv
  BY SMT DEF Init, TypeInv, TypeOK, Underway, Fresh, Page, Request, Form, Panel,
    Answers, Row

LEMMA AroundTyped == TypeInv /\ Around => TypeInv'
<1> SUFFICES ASSUME TypeInv, Around PROVE TypeInv'
  OBVIOUS
<1> USE DEF TypeInv, TypeOK
<1>1. ASSUME NEW i \in Instances, SaveInstance(i) \/ DeleteInstance(i) PROVE TypeInv'
  <2>1. instance' \in [Instances -> Row \cup {None}]
    BY <1>1 DEF SaveInstance, DeleteInstance
  <2>2. request' \in [Users -> Request]
    BY <1>1, Moved DEF SaveInstance, DeleteInstance, RowMoves
  <2>3. \A u \in Users : /\ request'[u].pc = request[u].pc
                         /\ request'[u].id = request[u].id
                         /\ request'[u].tenant = request[u].tenant
    BY <1>1 DEF SaveInstance, DeleteInstance, RowMoves, Request
  <2> QED
    BY <1>1, <2>1, <2>2, <2>3 DEF SaveInstance, DeleteInstance, tenantVars, Underway
<1>2. ASSUME NEW t \in Tenants, TenantChanges(t) PROVE TypeInv'
  BY <1>2 DEF TenantChanges, Underway
<1> QED
  BY <1>1, <1>2 DEF Around

LEMMA PageTyped ==
  ASSUME TypeInv, NEW u \in Users, PageStep(u) PROVE TypeInv'
<1> USE DEF TypeInv, TypeOK
<1>1. CASE Select(u)
  <2>1. PICK i \in Instances :
          page' = [page EXCEPT ![u].selected = i,
                     ![u].restricted = instance[i].tenant \in Restricted]
    BY <1>1 DEF Select
  <2> DEFINE b == instance[i].tenant \in Restricted
  <2>2. b \in BOOLEAN
    OBVIOUS
  <2>3. page' = [page EXCEPT ![u].selected = i, ![u].restricted = b]
    BY <2>1
  <2> HIDE DEF b
  <2>4. page' \in [Users -> Page]
    BY <2>2, <2>3, PageSelects
  <2> QED
    BY <1>1, <2>4 DEF Select, tenantVars, Underway
<1>4. CASE EditForm(u) \/ Cancel(u)
  <2>1. page' \in [Users -> Page]
    BY <1>4, PageEdits DEF EditForm, Cancel
  <2> QED
    BY <1>4, <2>1 DEF EditForm, Cancel, tenantVars, Underway
<1>2. ASSUME NEW up \in BOOLEAN, Send(u, up), Usable(u), UNCHANGED <<instance, tenantVars>>,
             page' \in [Users -> Page]
      PROVE TypeInv'
  <2> DEFINE new == [Fresh(page[u].form) EXCEPT !.pc = IF up THEN "type" ELSE "key",
                       !.upload = up, !.id = page[u].selected]
  <2>1. page[u].selected \in Instances /\ page[u].form \in Form
    BY <1>2 DEF Usable, Page
  <2>2. new \in Request /\ new.pc \in {"type", "key"} /\ new.id \in Instances
    <3>1. CASE up
      BY <1>2, <2>1, <3>1 DEF Fresh, Request
    <3>2. CASE ~up
      BY <1>2, <2>1, <3>2 DEF Fresh, Request
    <3> QED
      BY <3>1, <3>2
  <2>3. request' = [request EXCEPT ![u] = new]
    BY <1>2 DEF Send
  <2> HIDE DEF new
  <2> QED
    BY <1>2, <2>2, <2>3 DEF Underway, tenantVars
<1>3. CASE CheckBeforeUpload(u) \/ ConfirmUpload(u)
  <2>1. page' \in [Users -> Page]
    <3>1. "none" \in Answers
      BY DEF Answers
    <3> QED
      BY <1>3, <3>1, PageBusy DEF CheckBeforeUpload, ConfirmUpload
  <2> QED
    BY <1>2, <1>3, <2>1 DEF CheckBeforeUpload, ConfirmUpload
<1> QED
  BY <1>1, <1>3, <1>4 DEF PageStep

(* Ends of a handler: what they leave of the request.                      *)
Untouched(u) ==
  /\ request'[u].upload = request[u].upload
  /\ request'[u].tenant = request[u].tenant
  /\ request'[u].form = request[u].form

LEMMA EndsTyped ==
  ASSUME TypeInv, NEW u \in Users, NEW what \in {"created", "updated"},
         Fail(u) \/ Landed(u, what)
  PROVE  /\ page' \in [Users -> Page] /\ request' \in [Users -> Request]
         /\ Underway'
<1>1. page \in [Users -> Page] /\ request \in [Users -> Request]
  BY DEF TypeInv, TypeOK
<1>2. what \in Answers /\ "error" \in Answers
  BY DEF Answers
<1>3. page' \in [Users -> Page]
  BY <1>1, <1>2, PageBusy, PageTold DEF Fail, Landed
<1>4. \/ request' = [request EXCEPT ![u].pc = "idle"]
      \/ request' = [request EXCEPT ![u].pc = "idle", ![u].lost = TRUE]
  BY DEF Fail, Landed
<1>5. request' \in [Users -> Request]
  BY <1>1, <1>4 DEF Request
<1>6. Underway'
  BY <1>1, <1>4, <1>5 DEF Underway, TypeInv, Request
<1> QED
  BY <1>3, <1>5, <1>6

LEMMA GotoTyped ==
  ASSUME TypeInv, NEW u \in Users, NEW pc, Goto(u, pc),
         request[u].tenant \in Tenants,
         pc \in {"ensure", "makePackage", "look", "put", "post"}
  PROVE  /\ page' \in [Users -> Page] /\ request' \in [Users -> Request]
         /\ Underway'
<1>1. page \in [Users -> Page] /\ request \in [Users -> Request]
  BY DEF TypeInv, TypeOK
<1>2. page' = page /\ request' = [request EXCEPT ![u].pc = pc]
  BY DEF Goto
<1>3. request' \in [Users -> Request]
  BY <1>1, <1>2 DEF Request
<1> QED
  BY <1>1, <1>2, <1>3 DEF Underway, TypeInv, Request

LEMMA HandlerTyped ==
  ASSUME TypeInv, NEW u \in Users, HandlerStep(u) PROVE TypeInv'
<1>0. /\ TypeOK /\ Underway
      /\ page \in [Users -> Page] /\ request \in [Users -> Request]
      /\ instance \in [Instances -> Row \cup {None}]
      /\ request[u].form \in Form
  BY DEF TypeInv, TypeOK, Request
<1>1. \A pc : At(u, pc) <=> request[u].pc = pc
  BY DEF At
<1>a. CASE Fail(u) /\ UNCHANGED <<instance, tenantVars>>
  BY <1>0, <1>a, EndsTyped DEF TypeInv, TypeOK, tenantVars
<1>2. CASE CheckType(u)
  <2>1. CASE request' = [request EXCEPT ![u].pc = "key", ![u].moved = FALSE]
             /\ UNCHANGED page
    <3>1. request[u].id \in Instances
      BY <1>0, <1>2 DEF CheckType, At, Underway
    <3>2. request' \in [Users -> Request]
      BY <1>0, <2>1, TwoFields
    <3> QED
      BY <1>0, <1>2, <2>1, <3>1, <3>2
      DEF CheckType, TypeInv, TypeOK, Underway, tenantVars, Request
  <2> QED
    BY <1>2, <1>a, <2>1 DEF CheckType
<1>3. CASE ReadKey(u)
  <2>1. request[u].id \in Instances
    BY <1>0, <1>3 DEF ReadKey, At, Underway
  <2> DEFINE t == instance[request[u].id].tenant
             pc == IF request[u].upload THEN "csrf" ELSE "seePackage"
  <2>2. CASE /\ instance[request[u].id] # None
             /\ request' = [request EXCEPT ![u].pc = pc, ![u].tenant = t]
             /\ UNCHANGED page
    <3>1. t \in Tenants
      BY <1>0, <2>1, <2>2 DEF Row
    <3>2. pc \in {"csrf", "seePackage"}
      OBVIOUS
    <3> HIDE DEF t, pc
    <3>3. request' \in [Users -> Request]
      BY <1>0, <2>2, <3>1, <3>2, TwoFields
    <3>4. Underway'
      BY <1>0, <2>2, <3>1, <3>2, <3>3 DEF Underway, Request
    <3> QED
      BY <1>0, <1>3, <2>2, <3>3, <3>4 DEF ReadKey, TypeInv, TypeOK, tenantVars
  <2> QED
    BY <1>3, <1>a, <2>2 DEF ReadKey
<1>4. CASE SeePackage(u)
  <2>1. request[u].tenant \in Tenants
    BY <1>0, <1>4 DEF SeePackage, At, Underway
  <2>2. ASSUME NEW b \in BOOLEAN, UNCHANGED page,
               request' = [request EXCEPT ![u].pc = "seeIFlow",
                                          ![u].packageExists = b]
        PROVE  TypeInv'
    <3>1. request' \in [Users -> Request]
      BY <1>0, <2>1, <2>2, TwoFields
    <3>2. Underway'
      BY <1>0, <2>1, <2>2, <3>1 DEF Underway, Request
    <3> QED
      BY <1>0, <1>4, <2>2, <3>1, <3>2 DEF SeePackage, TypeInv, TypeOK, tenantVars
  <2>3. \A ok \in BOOLEAN :
          (ok /\ request[u].form.package \in package[request[u].tenant]) \in BOOLEAN
    OBVIOUS
  <2> QED
    BY <1>4, <1>a, <2>2, <2>3 DEF SeePackage
<1>5. CASE SeeIFlow(u)
  <2>1. ASSUME NEW b \in BOOLEAN,
               request' = [request EXCEPT ![u].pc = "idle"],
               page' = [page EXCEPT ![u].busy = "no",
                 ![u].panel = [iflow |-> request[u].form.iflow,
                               package |-> request[u].form.package,
                               iflowExists |-> b,
                               packageExists |-> request[u].packageExists]]
        PROVE  TypeInv'
    <3>1. [iflow |-> request[u].form.iflow, package |-> request[u].form.package,
           iflowExists |-> b, packageExists |-> request[u].packageExists] \in Panel
      BY <1>0, <2>1 DEF Panel, Form, Request
    <3>2. page' \in [Users -> Page]
      BY <1>0, <2>1, <3>1, PageShows
    <3>3. request' \in [Users -> Request]
      BY <1>0, <2>1 DEF Request
    <3>4. Underway'
      BY <1>0, <2>1, <3>3 DEF Underway, Request
    <3> QED
      BY <1>0, <1>5, <3>2, <3>3, <3>4 DEF SeeIFlow, TypeInv, TypeOK, tenantVars
  <2> QED
    BY <1>5, <1>a, <2>1 DEF SeeIFlow
<1>6. CASE FetchCSRF(u) \/ EnsurePackage(u) \/ LookForArtifact(u)
  <2>1. request[u].tenant \in Tenants
    BY <1>0, <1>6 DEF FetchCSRF, EnsurePackage, LookForArtifact, At, Underway
  <2>2. CASE \E pc \in {"ensure", "makePackage", "look", "put", "post"} : Goto(u, pc)
    BY <1>0, <1>6, <2>1, <2>2, GotoTyped
    DEF FetchCSRF, EnsurePackage, LookForArtifact, TypeInv, TypeOK, tenantVars
  <2> QED
    BY <1>6, <1>a, <2>2 DEF FetchCSRF, EnsurePackage, LookForArtifact
<1>7. CASE CreatePackage(u)
  <2>1. request[u].tenant \in Tenants /\ request[u].form.package \in Packages
    BY <1>0, <1>7 DEF CreatePackage, At, Underway, Form
  <2>2. package' \in [Tenants -> SUBSET Packages]
    BY <1>0, <1>7, <2>1 DEF CreatePackage, TypeOK
  <2>3. page' \in [Users -> Page] /\ request' \in [Users -> Request] /\ Underway'
    BY <1>0, <1>7, <2>1, EndsTyped, GotoTyped DEF CreatePackage
  <2> QED
    BY <1>0, <1>7, <2>2, <2>3 DEF CreatePackage, TypeInv, TypeOK
<1>8. CASE PutArtifact(u) \/ PostArtifact(u)
  <2>1. /\ request[u].tenant \in Tenants
        /\ request[u].form.iflow \in IFlows /\ request[u].form.design \in Designs
    BY <1>0, <1>8 DEF PutArtifact, PostArtifact, At, Underway, Form
  <2>2. artifact' \in [Tenants -> [IFlows -> Designs \cup {None}]]
    BY <1>0, <1>8, <2>1 DEF PutArtifact, PostArtifact, Write, TypeOK
  <2>3. page' \in [Users -> Page] /\ request' \in [Users -> Request] /\ Underway'
    BY <1>8, EndsTyped DEF PutArtifact, PostArtifact, Write, Refused
  <2> QED
    BY <1>0, <1>8, <2>2, <2>3 DEF PutArtifact, PostArtifact, TypeInv, TypeOK
<1> QED
  BY <1>2, <1>3, <1>4, <1>5, <1>6, <1>7, <1>8 DEF HandlerStep

LEMMA StutterTyped == TypeInv /\ UNCHANGED vars => TypeInv'
  BY DEF TypeInv, TypeOK, Underway, vars, tenantVars

LEMMA NextTyped == TypeInv /\ [Next]_vars => TypeInv'
<1> SUFFICES ASSUME TypeInv, [Next]_vars PROVE TypeInv'
  OBVIOUS
<1> QED
  BY AroundTyped, PageTyped, HandlerTyped, StutterTyped DEF Next, Around

(* TypeOK holds of every reachable state: the rows, the tenants, the pages
   and the handlers have their types.                                      *)
THEOREM UploadTyped == Spec => []TypeOK
<1>1. Init => TypeInv
  BY InitTyped
<1>2. TypeInv /\ [Next]_vars => TypeInv'
  BY NextTyped
<1>3. TypeInv => TypeOK
  BY DEF TypeInv
<1> QED
  BY <1>1, <1>2, <1>3, PTL DEF Spec

----------------------------------------------------------------------------
(* What an upload carries from its two reads: until the key is read it has no
   tenant; when the type check is behind it, the row is still of an allowed
   type unless it moved; and it never is where a preflight is.             *)
RaceInv ==
  \A u \in Users : request[u].upload =>
    /\ request[u].pc \in {"type", "key"} => request[u].tenant = None
    /\ request[u].pc = "key" /\ ~request[u].moved =>
         /\ instance[request[u].id] # None
         /\ instance[request[u].id].tenant \notin Restricted
    /\ request[u].tenant \in Restricted => request[u].moved
    /\ request[u].pc \notin {"seePackage", "seeIFlow"}

LEMMA NoneIsNoTenant == None \notin Restricted
  BY NoneAssumption, RestrictedAssumption

LEMMA InitRace == Init => RaceInv
  BY DEF Init, RaceInv, Fresh

LEMMA NextRace == TypeInv /\ RaceInv /\ [Next]_vars => RaceInv'
<1> SUFFICES ASSUME TypeInv, RaceInv, [Next]_vars PROVE RaceInv'
  OBVIOUS
<1>0. request \in [Users -> Request] /\ instance \in [Instances -> Row \cup {None}]
  BY DEF TypeInv, TypeOK
<1>1. ASSUME NEW i \in Instances, SaveInstance(i) \/ DeleteInstance(i) PROVE RaceInv'
  <2>1. \A u \in Users :
          /\ request'[u].pc = request[u].pc /\ request'[u].id = request[u].id
          /\ request'[u].tenant = request[u].tenant
          /\ request'[u].upload = request[u].upload
          /\ request[u].id = i => request'[u].moved = TRUE
          /\ request[u].id # i => request'[u].moved = request[u].moved
    <3> SUFFICES ASSUME NEW u \in Users
                 PROVE  /\ request'[u].pc = request[u].pc /\ request'[u].id = request[u].id
                        /\ request'[u].tenant = request[u].tenant
                        /\ request'[u].upload = request[u].upload
                        /\ request[u].id = i => request'[u].moved = TRUE
                        /\ request[u].id # i => request'[u].moved = request[u].moved
      OBVIOUS
    <3>1. request'[u] = IF request[u].id = i THEN [request[u] EXCEPT !.moved = TRUE]
                                             ELSE request[u]
      BY <1>1 DEF SaveInstance, DeleteInstance, RowMoves
    <3> QED
      BY <1>0, <3>1 DEF Request
  <2>2. \A j \in Instances : j # i => instance'[j] = instance[j]
    BY <1>0, <1>1 DEF SaveInstance, DeleteInstance
  <2>3. \A u \in Users : request[u].pc = "key" => request[u].id \in Instances
    BY DEF TypeInv, Underway
  <2> SUFFICES ASSUME NEW u \in Users, request'[u].upload
               PROVE  /\ request'[u].pc \in {"type", "key"} => request'[u].tenant = None
                      /\ request'[u].pc = "key" /\ ~request'[u].moved =>
                           /\ instance'[request'[u].id] # None
                           /\ instance'[request'[u].id].tenant \notin Restricted
                      /\ request'[u].tenant \in Restricted => request'[u].moved
                      /\ request'[u].pc \notin {"seePackage", "seeIFlow"}
    BY DEF RaceInv
  <2>4. CASE request[u].id = i
    BY <2>1, <2>4 DEF RaceInv
  <2>5. CASE request[u].id # i
    BY <2>1, <2>2, <2>3, <2>5 DEF RaceInv
  <2> QED
    BY <2>4, <2>5
<1>2. ASSUME NEW t \in Tenants, TenantChanges(t) PROVE RaceInv'
  BY <1>2 DEF TenantChanges, RaceInv
<1>3. ASSUME NEW u \in Users, PageStep(u) PROVE RaceInv'
  <2>1. CASE Select(u) \/ EditForm(u) \/ Cancel(u)
    BY <2>1 DEF Select, EditForm, Cancel, RaceInv
  <2>2. CASE CheckBeforeUpload(u) \/ ConfirmUpload(u)
    <3>1. PICK up \in BOOLEAN : Send(u, up)
      BY <2>2 DEF CheckBeforeUpload, ConfirmUpload
    <3>2. /\ request'[u].upload = up /\ request'[u].tenant = None
          /\ request'[u].pc = IF up THEN "type" ELSE "key"
          /\ \A w \in Users : w # u => request'[w] = request[w]
      BY <1>0, <3>1 DEF Send, Fresh
    <3>3. UNCHANGED instance
      BY <2>2 DEF CheckBeforeUpload, ConfirmUpload
    <3> QED
      BY <3>2, <3>3, NoneIsNoTenant DEF RaceInv
  <2> QED
    BY <1>3, <2>1, <2>2 DEF PageStep
<1>4. ASSUME NEW u \in Users, HandlerStep(u) PROVE RaceInv'
  <2>0. UNCHANGED instance
    BY <1>4 DEF HandlerStep, CheckType, ReadKey, SeePackage, SeeIFlow, FetchCSRF,
      EnsurePackage, CreatePackage, LookForArtifact, PutArtifact, PostArtifact
  <2>1. CASE \/ request' = [request EXCEPT ![u].pc = "idle"]
             \/ request' = [request EXCEPT ![u].pc = "idle", ![u].lost = TRUE]
             \/ \E pc \in {"ensure", "makePackage", "look", "put", "post"} :
                  request' = [request EXCEPT ![u].pc = pc]
    <3>1. \A w \in Users :
            /\ request'[w].pc = request[w].pc
                 \/ request'[w].pc \in {"idle", "ensure", "makePackage", "look",
                                        "put", "post"}
            /\ request'[w].id = request[w].id
            /\ request'[w].tenant = request[w].tenant
            /\ request'[w].upload = request[w].upload
            /\ request'[w].moved = request[w].moved
      BY <1>0, <2>1 DEF Request
    <3> QED
      BY <2>0, <3>1 DEF RaceInv
  <2>2. CASE /\ request[u].pc = "type"
             /\ instance[request[u].id] # None
             /\ AllowedType(instance[request[u].id])
             /\ request' = [request EXCEPT ![u].pc = "key", ![u].moved = FALSE]
    <3>1. /\ request'[u].pc = "key" /\ request'[u].id = request[u].id
          /\ request'[u].tenant = request[u].tenant
          /\ request'[u].upload = request[u].upload
          /\ \A w \in Users : w # u => request'[w] = request[w]
      BY <1>0, <2>2 DEF Request
    <3>2. request[u].upload => request[u].tenant = None
      BY <2>2 DEF RaceInv
    <3>3. instance[request[u].id].tenant \notin Restricted
      BY <2>2 DEF AllowedType
    <3>4. request'[u].tenant \in Restricted => ~request[u].upload
      BY <3>1, <3>2, NoneIsNoTenant
    <3> QED
      BY <2>0, <2>2, <3>1, <3>2, <3>3, <3>4 DEF RaceInv
  <2>3. CASE /\ At(u, "key")
             /\ instance[request[u].id] # None
             /\ request' = [request EXCEPT
                  ![u].pc = IF request[u].upload THEN "csrf" ELSE "seePackage",
                  ![u].tenant = instance[request[u].id].tenant]
    <3>0. /\ request[u].pc = "key"
          /\ request' = [request EXCEPT
               ![u].pc = IF request[u].upload THEN "csrf" ELSE "seePackage",
               ![u].tenant = instance[request[u].id].tenant]
      BY <2>3 DEF At
    <3>1. /\ request'[u].pc = IF request[u].upload THEN "csrf" ELSE "seePackage"
          /\ request'[u].id = request[u].id
          /\ request'[u].tenant = instance[request[u].id].tenant
          /\ request'[u].upload = request[u].upload
          /\ request'[u].moved = request[u].moved
          /\ \A w \in Users : w # u => request'[w] = request[w]
      BY <1>0, <3>0 DEF Request
    <3> QED
      <4>1. request[u].upload => /\ request'[u].pc = "csrf"
                                 /\ request'[u].tenant \in Restricted => request'[u].moved
        BY <3>0, <3>1 DEF RaceInv
      <4>2. ASSUME NEW w \in Users, w # u
            PROVE  request'[w] = request[w] /\ instance' = instance
        BY <2>0, <3>1, <4>2
      <4> SUFFICES ASSUME NEW w \in Users, request'[w].upload
                   PROVE  /\ request'[w].pc \in {"type", "key"} =>
                               request'[w].tenant = None
                          /\ request'[w].pc = "key" /\ ~request'[w].moved =>
                               /\ instance'[request'[w].id] # None
                               /\ instance'[request'[w].id].tenant \notin Restricted
                          /\ request'[w].tenant \in Restricted => request'[w].moved
                          /\ request'[w].pc \notin {"seePackage", "seeIFlow"}
        BY DEF RaceInv
      <4>3. CASE w = u
        BY <3>1, <4>1, <4>3
      <4>4. CASE w # u
        BY <4>2, <4>4 DEF RaceInv
      <4> QED
        BY <4>3, <4>4
  <2>4. CASE /\ At(u, "seePackage")
             /\ \E ok \in BOOLEAN :
                  request' = [request EXCEPT ![u].pc = "seeIFlow",
                    ![u].packageExists =
                      ok /\ request[u].form.package \in package[request[u].tenant]]
    <3>1. request[u].upload = FALSE
      BY <1>0, <2>4 DEF RaceInv, At, Request
    <3>2. /\ request'[u].upload = FALSE
          /\ \A w \in Users : w # u => request'[w] = request[w]
      BY <1>0, <2>4, <3>1 DEF Request
    <3> QED
      BY <2>0, <3>2 DEF RaceInv
  <2> QED
    BY <1>4, <2>1, <2>2, <2>3, <2>4
    DEF HandlerStep, CheckType, ReadKey, SeePackage, SeeIFlow, FetchCSRF,
      EnsurePackage, CreatePackage, LookForArtifact, PutArtifact, PostArtifact,
      Write, Refused, Landed, Fail, Goto, At
<1>5. CASE UNCHANGED vars
  BY <1>5 DEF vars, RaceInv
<1> QED
  BY <1>1, <1>2, <1>3, <1>4, <1>5 DEF Next

(* RestrictedOnlyByRace: whatever users, handlers and editors do, an upload
   gets to a restricted system only if its row moved after the type check. *)
THEOREM OnlyByRace == Spec => []RestrictedOnlyByRace
<1>1. Init => TypeInv /\ RaceInv
  BY InitTyped, InitRace
<1>2. TypeInv /\ RaceInv /\ [Next]_vars => (TypeInv /\ RaceInv)'
  BY NextTyped, NextRace
<1>3. RaceInv => RestrictedOnlyByRace
  BY DEF RaceInv, RestrictedOnlyByRace, Reaches
<1> QED
  BY <1>1, <1>2, <1>3, PTL DEF Spec

----------------------------------------------------------------------------
LEMMA HandlerTells ==
  ASSUME TypeInv, RaceInv, NEW v \in Users, HandlerStep(v), NEW u \in Users, Ends(u),
         NEW t, t = request[u].tenant, NEW i, i = request[u].form.iflow
  PROVE  /\ page'[u].message = "created" =>
              artifact[t][i] = None /\ artifact'[t][i] = request[u].form.design
         /\ page'[u].message = "updated" =>
              artifact[t][i] # None /\ artifact'[t][i] = request[u].form.design
         /\ page'[u].message = "error" /\ ~request'[u].lost => artifact' = artifact
<1>0. /\ request \in [Users -> Request] /\ page \in [Users -> Page]
      /\ request[u].upload /\ request[u].pc # "idle" /\ request'[u].pc = "idle"
  BY DEF TypeInv, TypeOK, Ends
<1>1. \A pc : At(v, pc) => request[v].pc = pc
  BY DEF At
<1>2. v = u
  <2> SUFFICES ASSUME v # u PROVE request'[u] = request[u]
    BY <1>0
  <2> QED
    BY <1>0 DEF HandlerStep, CheckType, ReadKey, SeePackage, SeeIFlow, FetchCSRF,
      EnsurePackage, CreatePackage, LookForArtifact, PutArtifact, PostArtifact,
      Write, Refused, Landed, Fail, Goto
<1>3. ASSUME Fail(u) PROVE page'[u].message = "error"
  BY <1>0, <1>3 DEF Fail, Page
<1>4. ASSUME NEW what \in {"created", "updated"}, Landed(u, what)
      PROVE  \/ page'[u].message = what
             \/ page'[u].message = "error" /\ request'[u].lost
  BY <1>0, <1>4 DEF Landed, Page, Request
<1>5. CASE Fail(u) /\ UNCHANGED artifact
  BY <1>3, <1>5
<1>6. ASSUME Write(u, "created") \/ Write(u, "updated"),
             request[u].pc \in {"put", "post"}
      PROVE  artifact'[t][i] = request[u].form.design
  <2>1. t \in Tenants /\ i \in IFlows
    BY <1>0, <1>6 DEF TypeInv, Underway, Request, Form
  <2> QED
    BY <1>6, <2>1 DEF Write, TypeInv, TypeOK
<1>7. CASE PutArtifact(u) \/ PostArtifact(u)
  BY <1>0, <1>3, <1>4, <1>6, <1>7 DEF PutArtifact, PostArtifact, Write, Refused, At
<1>8. CASE SeePackage(u) \/ SeeIFlow(u)
  BY <1>0, <1>8 DEF SeePackage, SeeIFlow, At, RaceInv
<1> QED
  BY <1>0, <1>2, <1>5, <1>7, <1>8 DEF HandlerStep, CheckType, ReadKey, FetchCSRF,
    EnsurePackage, CreatePackage, LookForArtifact, Goto, tenantVars, Request

LEMMA OnlyHandlersEnd ==
  ASSUME TypeInv, [Next]_vars, NEW u \in Users, Ends(u)
  PROVE  \E v \in Users : HandlerStep(v)
<1>0. request \in [Users -> Request] /\ request[u].pc # "idle" /\ request'[u].pc = "idle"
  BY DEF TypeInv, TypeOK, Ends
<1>1. ASSUME NEW i \in Instances, SaveInstance(i) \/ DeleteInstance(i) PROVE FALSE
  BY <1>0, <1>1 DEF SaveInstance, DeleteInstance, RowMoves, Request
<1>2. ASSUME NEW t \in Tenants, TenantChanges(t) PROVE FALSE
  BY <1>0, <1>2 DEF TenantChanges
<1>3. ASSUME NEW v \in Users, PageStep(v) PROVE FALSE
  BY <1>0, <1>3 DEF PageStep, Select, EditForm, Cancel, CheckBeforeUpload,
    ConfirmUpload, Send, Fresh
<1> QED
  BY <1>0, <1>1, <1>2, <1>3 DEF Next, vars

(* AnswerTellsTheTruth: "created" and "updated" are told only of what the
   tenant did at that moment, an error only of an artifact left alone or of a
   lost answer, however many users work on the tenant.                     *)
THEOREM TruthTold == Spec => AnswerTellsTheTruth
<1>1. Init => TypeInv /\ RaceInv
  BY InitTyped, InitRace
<1>2. TypeInv /\ RaceInv /\ [Next]_vars => (TypeInv /\ RaceInv)'
  BY NextTyped, NextRace
<1> DEFINE Told == \A u \in Users : Ends(u) =>
       LET r   == request[u]
           was == artifact[r.tenant][r.form.iflow]
           is  == artifact'[r.tenant][r.form.iflow]
           msg == page'[u].message IN
       /\ msg = "created" => was = None /\ is = r.form.design
       /\ msg = "updated" => was # None /\ is = r.form.design
       /\ msg = "error" /\ ~request'[u].lost /\ r.tenant # None => is = was
<1>3. TypeInv /\ RaceInv /\ [Next]_vars => [Told]_vars
  BY HandlerTells, OnlyHandlersEnd
<1> QED
  BY <1>1, <1>2, <1>3, PTL DEF Spec, AnswerTellsTheTruth
=============================================================================
