------------------------ MODULE PagesAtRest_proofs ----------------------------
(* What the pages show once they have settled, for any rows, folders, tiles,  *)
(* messages and number of requests under way: each page keeps the invariant   *)
(* that the newest request is for what its controls show.                     *)
EXTENDS RowForms, Monitoring, SftpFiles, SequenceTheorems, FiniteSetTheorems,
        WellFoundedInduction, TLAPS

-------------------------------------------------------------------------------
(* Sequences, finite sets and naturals                                        *)

(* What is left when one of a sequence is taken out.                          *)
LEMMA Removed ==
    ASSUME NEW S, NEW f \in Seq(S), NEW i \in DOMAIN f
    PROVE  /\ RemoveAt(f, i) \in Seq(S)
           /\ Len(RemoveAt(f, i)) = Len(f) - 1
           /\ \A j \in 1 .. Len(f) - 1 : RemoveAt(f, i)[j] = IF j < i THEN f[j] ELSE f[j + 1]
<1>1. i \in 1 .. Len(f) /\ Len(f) \in Nat
  OBVIOUS
<1>2. PICK s : s = SubSeq(f, 1, i - 1)
  OBVIOUS
<1>3. PICK t : t = SubSeq(f, i + 1, Len(f))
  OBVIOUS
<1>4. /\ s \in Seq(S) /\ Len(s) = i - 1
      /\ \A j \in 1 .. i - 1 : s[j] = f[j]
  BY <1>1, <1>2, SubSeqProperties
<1>5. /\ t \in Seq(S) /\ Len(t) = Len(f) - i
      /\ \A j \in 1 .. Len(f) - i : t[j] = f[j + i]
  BY <1>1, <1>3, SubSeqProperties
<1>6. /\ s \o t \in Seq(S) /\ Len(s \o t) = Len(s) + Len(t)
      /\ \A j \in 1 .. Len(s) + Len(t) : (s \o t)[j] = IF j <= Len(s) THEN s[j] ELSE t[j - Len(s)]
  BY <1>4, <1>5, ConcatProperties
<1>7. Len(s) + Len(t) = Len(f) - 1
  BY <1>1, <1>4, <1>5
<1>8. ASSUME NEW j \in 1 .. Len(f) - 1
      PROVE  (s \o t)[j] = IF j < i THEN f[j] ELSE f[j + 1]
  <2>1. CASE j < i
    BY <1>1, <1>4, <1>6, <1>7, <2>1
  <2>2. CASE ~(j < i)
    <3>1. (s \o t)[j] = t[j - (i - 1)]
      BY <1>1, <1>4, <1>6, <1>7, <2>2
    <3>2. j - (i - 1) \in 1 .. Len(f) - i /\ (j - (i - 1)) + i = j + 1
      BY <1>1, <2>2
    <3> QED BY <1>5, <2>2, <3>1, <3>2
  <2> QED BY <2>1, <2>2
<1> QED BY <1>2, <1>3, <1>6, <1>7, <1>8 DEF RemoveAt

(* The elements of a finite set in some order.                                *)
LEMMA InSomeOrder ==
    ASSUME NEW S, IsFiniteSet(S)
    PROVE  /\ SetToSeq(S) \in Seq(S) /\ Len(SetToSeq(S)) = Cardinality(S)
           /\ \A x \in S : \E i \in DOMAIN SetToSeq(S) : SetToSeq(S)[i] = x
           /\ \A i, j \in DOMAIN SetToSeq(S) : SetToSeq(S)[i] = SetToSeq(S)[j] => i = j
<1> DEFINE N == Cardinality(S)
<1>1. N \in Nat /\ ExistsBijection(1 .. N, S)
  BY FS_CardinalityType
<1>2. \E f : f \in [1 .. N -> S] /\ IsInjective(f)
  BY <1>1 DEF ExistsBijection, Bijection, Injection
<1>3. SetToSeq(S) \in [1 .. N -> S] /\ IsInjective(SetToSeq(S))
  BY <1>2 DEF SetToSeq
<1>4. SetToSeq(S) \in Injection(1 .. N, S)
  BY <1>3 DEF Injection
<1>5. IsFiniteSet(1 .. N) /\ Cardinality(1 .. N) = N
  BY <1>1, FS_Interval
<1>6. SetToSeq(S) \in Surjection(1 .. N, S)
  BY <1>1, <1>4, <1>5, FS_Injection
<1>7. DOMAIN SetToSeq(S) = 1 .. N
  BY <1>3
<1>8. \A x \in S : \E i \in 1 .. N : SetToSeq(S)[i] = x
  BY <1>6 DEF Surjection
<1>9. SetToSeq(S) \in Seq(S) /\ Len(SetToSeq(S)) = N
  BY <1>1, <1>3, <1>7
<1> QED BY <1>1, <1>3, <1>7, <1>8, <1>9 DEF IsInjective

LEMMA FiniteImage ==
    ASSUME NEW S, IsFiniteSet(S), NEW f
    PROVE  IsFiniteSet({f[x] : x \in S})
<1> DEFINE T == {f[x] : x \in S}
           g == [x \in S |-> f[x]]
<1>1. g \in Surjection(S, T)
  BY DEF Surjection
<1> QED BY <1>1, FS_Surjection

LEMMA OneOrMore == \A n \in Nat \ {0} : n = 1 \/ n > 1
OBVIOUS

(* The answer to the oldest request leaves the newest where it is.            *)
LEMMA OldestOut ==
    ASSUME NEW S, NEW f \in Seq(S), f # <<>>
    PROVE  /\ RemoveAt(f, 1) \in Seq(S)
           /\ Len(f) = 1 => RemoveAt(f, 1) = <<>> /\ Last(f) = f[1]
           /\ Len(f) > 1 => RemoveAt(f, 1) # <<>> /\ Last(RemoveAt(f, 1)) = Last(f)
<1>1. 1 \in DOMAIN f /\ Len(f) \in Nat \ {0}
  OBVIOUS
<1> DEFINE r == RemoveAt(f, 1)
<1>2. /\ r \in Seq(S) /\ Len(r) = Len(f) - 1
      /\ \A j \in 1 .. Len(f) - 1 : r[j] = f[j + 1]
  BY <1>1, Removed
<1> HIDE DEF r
<1>3. Len(f) = 1 => r = <<>>
  BY <1>2
<1>4. Len(f) > 1 => r # <<>> /\ r[Len(r)] = f[Len(f)]
  BY <1>1, <1>2
<1> QED BY <1>2, <1>3, <1>4 DEF r, Last

LEMMA NewestLast ==
    ASSUME NEW S, NEW f \in Seq(S), NEW e \in S
    PROVE  Append(f, e) \in Seq(S) /\ Append(f, e) # <<>> /\ Last(Append(f, e)) = e
BY AppendProperties DEF Last

(* Less than, as a relation.                                                  *)
LessThan == {r \in Nat \X Nat : r[1] < r[2]}

LEMMA BelowDescends == IsWellFoundedOn(LessThan, Nat)
<1>1. OpToRel(<, Nat) = LessThan
  BY Zenon DEF OpToRel, LessThan
<1> QED BY <1>1, NatLessThanWellFounded, Zenon

(* A set of naturals has a least one.                                         *)
LEMMA LeastOne == ASSUME NEW T \in SUBSET Nat, T # {} PROVE \E x \in T : \A y \in T : x <= y
<1>1. PICK x \in T : \A y \in T : ~ (<<y, x>> \in LessThan)
  BY BelowDescends, WFMin
<1>2. \A y \in T : y \in Nat /\ x \in Nat /\ ~(y < x)
  BY <1>1 DEF LessThan
<1>3. \A y \in T : x <= y
  BY <1>2
<1> QED BY <1>3

(* Induction over 0 .. n, with a set for the formula.                         *)
LEMMA UpTo ==
    ASSUME NEW n \in Nat, NEW S, 0 \in S, \A m \in 1 .. n : m - 1 \in S => m \in S
    PROVE  0 .. n \subseteq S
<1> DEFINE T == {m \in 0 .. n : m \notin S}
<1>1. T \in SUBSET Nat
  OBVIOUS
<1>2. ASSUME NEW m \in T, \A y \in T : m <= y PROVE FALSE
  <2>1. m \in 1 .. n /\ m \notin S /\ m - 1 \in 0 .. n /\ ~(m <= m - 1)
    BY <1>2
  <2>2. m - 1 \in S
    BY <1>2, <2>1
  <2> QED BY <2>1, <2>2
<1>3. T = {}
  BY <1>1, <1>2, LeastOne
<1> QED BY <1>3

(* A set of naturals up to n has a greatest one.                              *)
LEMMA GreatestOne ==
    ASSUME NEW n \in Nat, NEW T \in SUBSET (1 .. n), T # {}
    PROVE  \E x \in T : \A y \in T : y <= x
<1> DEFINE U == {n - x : x \in T}
<1>1. \A x \in T : n - x \in Nat
  OBVIOUS
<1>2. U \in SUBSET Nat /\ U # {}
  BY <1>1
<1>3. PICK u \in U : \A y \in U : u <= y
  BY <1>2, LeastOne
<1>4. PICK x \in T : u = n - x
  OBVIOUS
<1>5. \A y \in T : n - x <= n - y
  BY <1>3, <1>4
<1> QED BY <1>5

-------------------------------------------------------------------------------
(* The pages of rows                                                          *)

(* What a page is, its requests, and its list.                                *)
RowNames == RowIds \cup {Nothing}

OpsOf(page) ==
    CASE page = "switch" -> {"read", "on", "off"}
      [] page = "settings" -> {"read", "save", "delete"}
      [] OTHER -> {"read", "save", "scene", "delete"}

FormCalls(page) ==
    {c \in [op : OpsOf(page), to : RowNames, from : RowNames,
            got : (SUBSET TableOf(page)) \cup {Unserved}] : c.op = "save" => c.to = c.from}

RowStates(page) ==
    [page : {page}, open : BOOLEAN, rows : SUBSET TableOf(page), list : SUBSET TableOf(page),
     shown : BOOLEAN, editing : RowNames, from : RowNames, saving : BOOLEAN, loading : BOOLEAN,
     failed : BOOLEAN, clean : BOOLEAN, flight : Seq(FormCalls(page))]

(* A form on display writes the row it was filled from, and so do the saves   *)
(* under way.                                                                 *)
FormOK(p) ==
    /\ p.page \in RowPages /\ p \in RowStates(p.page)
    /\ p.shown /\ p.open => p.editing = p.from

LEMMA ReadIsCall == ASSUME NEW page \in RowPages PROVE Read \in FormCalls(page)
BY DEF Read, Call, FormCalls, RowNames, OpsOf

(* One more request under way.                                                *)
LEMMA CallAdded ==
    ASSUME NEW p, FormOK(p), NEW c \in FormCalls(p.page)
    PROVE  FormOK([p EXCEPT !.flight = Append(@, c)])
<1>1. p.flight \in Seq(FormCalls(p.page))
  BY DEF FormOK, RowStates
<1>2. PICK f : f = Append(p.flight, c) /\ f \in Seq(FormCalls(p.page))
  BY <1>1, AppendProperties
<1>3. FormOK([p EXCEPT !.flight = f])
  BY <1>2 DEF FormOK, RowStates
<1> QED BY <1>2, <1>3

LEMMA ReloadOK ==
    ASSUME NEW p, FormOK(p) PROVE FormOK(Reloading(p)) /\ Reloading(p).shown = p.shown
<1> DEFINE q == [p EXCEPT !.flight = Append(@, Read)]
<1>1. FormOK(q)
  BY ReadIsCall, CallAdded DEF FormOK
<1>2. Reloading(p) = [q EXCEPT !.loading = p.page = "mock", !.failed = FALSE]
  BY DEF Reloading
<1>3. q.shown = p.shown
  BY DEF FormOK, RowStates
<1> HIDE DEF q
<1>4. FormOK([q EXCEPT !.loading = p.page = "mock", !.failed = FALSE])
  BY <1>1 DEF FormOK, RowStates
<1>5. [q EXCEPT !.loading = p.page = "mock", !.failed = FALSE].shown = q.shown
  BY <1>1 DEF FormOK, RowStates
<1> QED BY <1>2, <1>3, <1>4, <1>5

Handlers == SettingsDialog \/ MockService \/ LookupTables \/ AssetStore \/ SaveToAssetsButton

(* The handlers of the page.                                                  *)
LEMMA HandlersKeepForm == ASSUME FormOK(rf), Handlers PROVE FormOK(rf')
<1>1. CASE OpenSettings
  <2>1. FormOK(Reloading(rf))
    BY ReloadOK
  <2> DEFINE q == Reloading(rf)
  <2>2. FormOK(q) /\ rf' = [q EXCEPT !.open = TRUE, !.shown = FALSE]
    BY <1>1, <2>1 DEF OpenSettings
  <2> HIDE DEF q
  <2> QED BY <2>2 DEF FormOK, RowStates
<1>2. CASE handleClose \/ cancel
  BY <1>2 DEF handleClose, cancel, FormOK, RowStates, RowNames
<1>3. CASE Remount
  <2>1. <<Read>> \in Seq(FormCalls(rf.page))
    BY ReadIsCall DEF FormOK
  <2> QED BY <1>3, <2>1 DEF Remount, FormOK, RowStates, RowNames
<1>4. CASE Refresh
  BY <1>4, ReloadOK DEF Refresh
<1>5. CASE openNew
  BY <1>5 DEF openNew, FormOpened, FormOK, RowStates, RowNames
<1>6. CASE rf.page # "switch" /\ openEdit
  <2>1. rf.list \subseteq RowIds
    BY <1>6 DEF FormOK, RowStates, TableOf
  <2> QED BY <1>6, <2>1 DEF openEdit, FormOK, RowStates, RowNames
<1>7. CASE rf.page # "switch" /\ save
  <2> DEFINE c == Call("save", rf.editing, rf.from)
             q == [rf EXCEPT !.flight = Append(@, c)]
  <2>1. c \in FormCalls(rf.page)
    BY <1>7 DEF save, CanSave, Visible, Call, FormCalls, FormOK, RowStates, OpsOf
  <2>2. FormOK(q) /\ rf' = [q EXCEPT !.saving = TRUE]
    BY <1>7, <2>1, CallAdded DEF save
  <2> HIDE DEF q
  <2> QED BY <2>2 DEF FormOK, RowStates
<1>8. CASE rf.page = "mock" /\ createScenario
  <2> DEFINE c == Call("scene", Nothing, Nothing)
             q == [rf EXCEPT !.flight = Append(@, c)]
  <2>1. c \in FormCalls(rf.page)
    BY <1>8 DEF Call, FormCalls, RowNames, OpsOf
  <2>2. FormOK(q) /\ rf' = [q EXCEPT !.saving = TRUE]
    BY <1>8, <2>1, CallAdded DEF createScenario
  <2> HIDE DEF q
  <2> QED BY <2>2 DEF FormOK, RowStates
<1>9. CASE rf.page # "switch" /\ deleteRow
  <2>1. PICK id \in rf.list : rf' = [rf EXCEPT !.flight = Append(@, Call("delete", id, Nothing))]
    BY <1>9 DEF deleteRow
  <2>2. Call("delete", id, Nothing) \in FormCalls(rf.page)
    BY <1>9 DEF Call, FormCalls, RowNames, FormOK, RowStates, OpsOf, TableOf
  <2> QED BY <2>1, <2>2, CallAdded
<1>10. CASE rf.page = "switch" /\ putSetting
  <2>1. PICK list \in SUBSET {Logging}, clean \in BOOLEAN, op \in {"on", "off"} :
          rf' = [rf EXCEPT !.list = list, !.clean = clean,
                           !.flight = Append(@, Call(op, Nothing, Nothing))]
    BY <1>10 DEF putSetting, FormOK, RowStates
  <2> DEFINE c == Call(op, Nothing, Nothing)
             q == [rf EXCEPT !.flight = Append(@, c)]
  <2>2. c \in FormCalls(rf.page)
    BY <1>10 DEF Call, FormCalls, RowNames, OpsOf
  <2>3. FormOK(q) /\ q.page = "switch" /\ rf' = [q EXCEPT !.list = list, !.clean = clean]
    BY <1>10, <2>1, <2>2, CallAdded DEF FormOK, RowStates
  <2> HIDE DEF q
  <2> QED BY <2>3 DEF FormOK, RowStates, TableOf
<1> QED BY <1>1, <1>2, <1>3, <1>4, <1>5, <1>6, <1>7, <1>8, <1>9, <1>10
        DEF Handlers, SettingsDialog, MockService, LookupTables, AssetStore, SaveToAssetsButton

(* What the server does with the i-th request.                                *)
ServedCall(i, rows, got) ==
    LET rq == rf.flight[i] IN
    /\ rq.got = Unserved /\ rf' = Served(rf, i, rows, got)
    /\ \/ rq.op = "read" /\ rows = rf.rows /\ got = rf.rows
       \/ /\ rq.op \in {"save", "scene"}
          /\ \E id \in Written(rf.rows, rq) : rows = rf.rows \cup {id} /\ got = {id}
       \/ rq.op = "delete" /\ rows = rf.rows \ {rq.to} /\ got = {}
       \/ rq.op = "on" /\ rows = {Logging} /\ got = {}
       \/ rq.op = "off" /\ rows = {} /\ got = {}

LEMMA ServeServes ==
    ASSUME FormOK(rf), RowServe
    PROVE  \E i \in DOMAIN rf.flight, rows \in SUBSET TableOf(rf.page), got \in SUBSET TableOf(rf.page) :
              ServedCall(i, rows, got)
<1>1. PICK i \in DOMAIN rf.flight :
        LET rq == rf.flight[i] IN
        /\ rq.got = Unserved
        /\ \/ rq.op = "read" /\ rf' = Served(rf, i, rf.rows, rf.rows)
           \/ /\ rq.op \in {"save", "scene"}
              /\ \E id \in Written(rf.rows, rq) :
                    rf' = Served(rf, i, rf.rows \cup {id}, {id})
           \/ rq.op = "delete" /\ rf' = Served(rf, i, rf.rows \ {rq.to}, {})
           \/ rq.op = "on" /\ rf' = Served(rf, i, {Logging}, {})
           \/ rq.op = "off" /\ rf' = Served(rf, i, {}, {})
  BY DEF RowServe
<1> DEFINE rq == rf.flight[i]
<1>2. rq \in FormCalls(rf.page) /\ rf.rows \subseteq TableOf(rf.page)
  BY DEF FormOK, RowStates
<1>3. rq.op \in OpsOf(rf.page)
  BY <1>2 DEF FormCalls
<1> HIDE DEF rq
<1>4. CASE rq.op = "read"
  BY <1>1, <1>2, <1>4 DEF ServedCall, rq
<1>5. CASE rq.op \in {"save", "scene"}
  <2>1. PICK id \in Written(rf.rows, rq) : rf' = Served(rf, i, rf.rows \cup {id}, {id})
    BY <1>1, <1>5 DEF rq
  <2>2. id \in TableOf(rf.page)
    BY <1>2, <1>3, <1>5, <2>1 DEF Written, OpsOf, TableOf
  <2>3. ServedCall(i, rf.rows \cup {id}, {id})
    BY <1>1, <1>5, <2>1 DEF ServedCall, rq
  <2> QED BY <1>2, <2>2, <2>3
<1>6. CASE rq.op \in {"delete", "off"}
  BY <1>1, <1>2, <1>6 DEF ServedCall, rq
<1>7. CASE rq.op = "on"
  <2>1. {Logging} \in SUBSET TableOf(rf.page)
    BY <1>3, <1>7 DEF OpsOf, TableOf, FormOK
  <2> QED BY <1>1, <1>7, <2>1 DEF ServedCall, rq
<1> QED BY <1>1, <1>4, <1>5, <1>6, <1>7 DEF rq

(* The server takes up a request, or someone else changes a row.              *)
LEMMA ServedForm ==
    ASSUME FormOK(rf), NEW i \in DOMAIN rf.flight, NEW rows \in SUBSET TableOf(rf.page),
           NEW got \in SUBSET TableOf(rf.page), rf' = Served(rf, i, rows, got)
    PROVE  /\ FormOK(rf')
           /\ rf'.page = rf.page /\ rf'.open = rf.open /\ rf'.list = rf.list /\ rf'.rows = rows
           /\ rf'.clean = (rf.clean /\ InOrder(rf, i))
           /\ rf'.flight \in Seq(FormCalls(rf.page)) /\ Len(rf'.flight) = Len(rf.flight)
           /\ rf'.flight[i] = [rf.flight[i] EXCEPT !.got = got]
           /\ \A j \in 1 .. Len(rf.flight) : j # i => rf'.flight[j] = rf.flight[j]
<1> DEFINE c == [rf.flight[i] EXCEPT !.got = got]
           f == [rf.flight EXCEPT ![i] = c]
<1>1. rf.flight[i] \in FormCalls(rf.page) /\ rf.flight \in Seq(FormCalls(rf.page))
  BY DEF FormOK, RowStates
<1>2. c \in FormCalls(rf.page)
  BY <1>1 DEF FormCalls
<1>3. rf' = [rf EXCEPT !.rows = rows, !.flight = f, !.clean = @ /\ InOrder(rf, i)]
  BY DEF Served, FormOK, RowStates
<1> HIDE DEF c
<1>4. /\ f \in Seq(FormCalls(rf.page)) /\ Len(f) = Len(rf.flight) /\ f[i] = c
      /\ \A j \in 1 .. Len(rf.flight) : j # i => f[j] = rf.flight[j]
  BY <1>1, <1>2, ExceptSeq
<1> HIDE DEF f
<1>5. InOrder(rf, i) \in BOOLEAN
  BY DEF InOrder
<1>6. PICK clean \in BOOLEAN : clean = (rf.clean /\ InOrder(rf, i))
  BY <1>5 DEF FormOK, RowStates
<1>7. rf' = [rf EXCEPT !.rows = rows, !.flight = f, !.clean = clean]
  BY <1>3, <1>6 DEF FormOK, RowStates
<1>8. FormOK(rf') /\ rf'.page = rf.page /\ rf'.open = rf.open /\ rf'.list = rf.list
      /\ rf'.rows = rows /\ rf'.clean = clean /\ rf'.flight = f
  BY <1>4, <1>7 DEF FormOK, RowStates
<1> QED BY <1>4, <1>6, <1>8 DEF c

LEMMA ServerKeepsForm == ASSUME FormOK(rf), RowServe \/ RowsMove PROVE FormOK(rf')
<1>1. CASE RowServe
  BY <1>1, ServeServes, ServedForm DEF ServedCall
<1>2. CASE RowsMove
  <2>1. PICK rows \in SUBSET TableOf(rf.page) : rf' = [rf EXCEPT !.rows = rows, !.clean = FALSE]
    BY <1>2 DEF RowsMove, FormOK, RowStates
  <2> QED BY <2>1 DEF FormOK, RowStates
<1> QED BY <1>1, <1>2

(* The page and the requests when the i-th is settled.                        *)
Arrived(i) == [rf EXCEPT !.flight = RemoveAt(@, i), !.clean = @ /\ i = 1]

LEMMA ArrivedForm ==
    ASSUME FormOK(rf), NEW i \in DOMAIN rf.flight
    PROVE  LET p == Arrived(i) IN
           /\ FormOK(p) /\ p.page = rf.page /\ p.open = rf.open /\ p.list = rf.list
           /\ p.rows = rf.rows /\ p.clean = (rf.clean /\ i = 1)
           /\ Len(p.flight) = Len(rf.flight) - 1 /\ p.flight \in Seq(FormCalls(rf.page))
           /\ \A j \in 1 .. Len(p.flight) : i = 1 => p.flight[j] = rf.flight[j + 1]
           /\ rf.flight[i] \in FormCalls(rf.page) /\ Len(rf.flight) \in Nat \ {0}
<1> DEFINE f == RemoveAt(rf.flight, i)
           p == Arrived(i)
<1>1. rf.flight \in Seq(FormCalls(rf.page)) /\ rf.flight[i] \in FormCalls(rf.page)
  BY DEF FormOK, RowStates
<1>2. /\ f \in Seq(FormCalls(rf.page)) /\ Len(f) = Len(rf.flight) - 1
      /\ \A j \in 1 .. Len(rf.flight) - 1 : f[j] = IF j < i THEN rf.flight[j] ELSE rf.flight[j + 1]
  BY <1>1, Removed
<1>3. p = [rf EXCEPT !.flight = f, !.clean = rf.clean /\ i = 1]
  BY DEF Arrived
<1>4. Len(rf.flight) \in Nat \ {0} /\ i \in 1 .. Len(rf.flight)
  BY <1>1
<1> HIDE DEF f
<1>5. PICK clean \in BOOLEAN : clean = (rf.clean /\ i = 1)
  BY DEF FormOK, RowStates
<1>6. p = [rf EXCEPT !.flight = f, !.clean = clean]
  BY <1>3, <1>5
<1> HIDE DEF p
<1>7. FormOK(p) /\ p.page = rf.page /\ p.open = rf.open /\ p.list = rf.list
      /\ p.rows = rf.rows /\ p.clean = clean /\ p.flight = f
  BY <1>2, <1>6 DEF FormOK, RowStates
<1>8. \A j \in 1 .. Len(f) : i = 1 => f[j] = rf.flight[j + 1]
  BY <1>2, <1>4
<1> QED BY <1>1, <1>2, <1>4, <1>5, <1>7, <1>8 DEF p

(* What an answer does to the list and to the requests under way.             *)
ListAnswered(p, rq, q) ==
    /\ q.page = p.page /\ q.open = p.open /\ q.rows = p.rows /\ q.clean = p.clean
    /\ q.list = IF rq.op = "read" THEN rq.got
                ELSE IF p.page # "settings" THEN p.list
                ELSE IF rq.op = "delete" THEN p.list \ {rq.to}
                ELSE IF rq.to = Nothing THEN p.list \cup rq.got ELSE p.list
    /\ q.flight = IF p.page \in {"mock", "tables", "assets"} /\ rq.op # "read"
                  THEN Append(p.flight, Read) ELSE p.flight

LEMMA SaveAnswers ==
    ASSUME NEW p, FormOK(p), p.page # "switch", NEW rq \in FormCalls(p.page), rq.got # Unserved,
           rq.op = "save"
    PROVE  FormOK(SaveAnswered(p, rq)) /\ (p.page # "button" => ListAnswered(p, rq, SaveAnswered(p, rq)))
<1> DEFINE closed == [p EXCEPT !.shown = FALSE, !.saving = FALSE]
           list == IF rq.to = Nothing THEN p.list \cup rq.got ELSE p.list
           q == Reloading(closed)
<1>1. rq.got \in SUBSET TableOf(p.page) /\ list \in SUBSET TableOf(p.page)
  BY DEF FormCalls, FormOK, RowStates
<1>2. FormOK(closed) /\ ~closed.shown /\ closed.page = p.page /\ closed.open = p.open
      /\ closed.rows = p.rows /\ closed.clean = p.clean /\ closed.list = p.list
      /\ closed.flight = p.flight
  BY DEF FormOK, RowStates
<1>3. CASE p.page = "settings"
  <2>1. SaveAnswered(p, rq) = [closed EXCEPT !.list = list]
    BY <1>2, <1>3 DEF SaveAnswered
  <2> HIDE DEF closed, list
  <2>2. FormOK([closed EXCEPT !.list = list])
    BY <1>1, <1>2 DEF FormOK, RowStates
  <2>3. ListAnswered(p, rq, [closed EXCEPT !.list = list])
    BY <1>1, <1>2, <1>3 DEF ListAnswered, FormOK, RowStates, list
  <2> QED BY <2>1, <2>2, <2>3
<1>4. /\ FormOK(q) /\ ~q.shown
      /\ p.page \in {"mock", "tables", "assets"} => ListAnswered(p, rq, q)
  <2>1. FormOK(q) /\ ~q.shown
    BY <1>2, ReloadOK
  <2> HIDE DEF closed
  <2>2. p.page \in {"mock", "tables", "assets"} => ListAnswered(p, rq, q)
    BY <1>2 DEF Reloading, ListAnswered, FormOK, RowStates
  <2> QED BY <2>1, <2>2
<1>5. CASE p.page = "mock"
  <2> DEFINE editing == IF rq.to = Nothing THEN q.editing ELSE Nothing
             z == [q EXCEPT !.from = Nothing, !.editing = editing]
  <2>1. SaveAnswered(p, rq) = z
    BY <1>5 DEF SaveAnswered
  <2> HIDE DEF q
  <2>2. FormOK(z)
    BY <1>4 DEF FormOK, RowStates, RowNames
  <2>3. ListAnswered(p, rq, z)
    BY <1>4, <1>5 DEF ListAnswered, FormOK, RowStates
  <2> QED BY <2>1, <2>2, <2>3
<1>6. CASE p.page \in {"tables", "assets"}
  <2>1. SaveAnswered(p, rq) = q
    BY <1>6 DEF SaveAnswered
  <2> QED BY <1>4, <1>6, <2>1
<1>7. CASE p.page = "button"
  <2>1. SaveAnswered(p, rq) = closed
    BY <1>7 DEF SaveAnswered
  <2> QED BY <1>2, <1>7, <2>1
<1> QED BY <1>3, <1>5, <1>6, <1>7 DEF FormOK, RowPages

LEMMA AnswerOK ==
    ASSUME NEW p, FormOK(p), NEW rq \in FormCalls(p.page), rq.got # Unserved
    PROVE  /\ FormOK(RowAnswered(p, rq))
           /\ p.page # "button" => ListAnswered(p, rq, RowAnswered(p, rq))
<1>1. rq.got \in SUBSET TableOf(p.page) /\ rq.op \in OpsOf(p.page)
  BY DEF FormCalls
<1>2. CASE rq.op = "read"
  BY <1>1, <1>2 DEF RowAnswered, FormOK, RowStates, ListAnswered
<1>3. CASE rq.op = "save"
  BY <1>1, <1>3, SaveAnswers DEF RowAnswered, OpsOf
<1>4. CASE rq.op = "scene"
  <2> DEFINE z == [p EXCEPT !.saving = FALSE]
             q == Reloading(z)
  <2>1. FormOK(z) /\ z.page = p.page /\ z.open = p.open /\ z.rows = p.rows /\ z.clean = p.clean
        /\ z.list = p.list /\ z.flight = p.flight
    BY DEF FormOK, RowStates
  <2>2. p.page # "settings" /\ p.page # "switch"
    BY <1>1, <1>4 DEF OpsOf
  <2> HIDE DEF z
  <2>3. FormOK(q)
    BY <2>1, ReloadOK
  <2>4. p.page # "button" => ListAnswered(p, rq, q)
    BY <1>4, <2>1, <2>2 DEF Reloading, ListAnswered, FormOK, RowStates, RowPages
  <2> QED BY <1>4, <2>3, <2>4 DEF RowAnswered, z
<1>5. CASE rq.op = "delete" /\ p.page = "settings"
  BY <1>5 DEF RowAnswered, FormOK, RowStates, ListAnswered
<1>6. CASE rq.op = "delete" /\ p.page # "settings"
  <2>1. FormOK(Reloading(p)) /\ p.page # "switch"
    BY <1>1, <1>6, ReloadOK DEF OpsOf
  <2>2. p.page # "button" => ListAnswered(p, rq, Reloading(p))
    BY <1>6, <2>1 DEF Reloading, ListAnswered, FormOK, RowStates, RowPages
  <2> QED BY <1>6, <2>1, <2>2 DEF RowAnswered
<1>7. CASE rq.op \in {"on", "off"}
  <2>1. p.page = "switch"
    BY <1>1, <1>7 DEF OpsOf
  <2> QED BY <1>7, <2>1 DEF RowAnswered, ListAnswered
<1> QED BY <1>1, <1>2, <1>3, <1>4, <1>5, <1>6, <1>7 DEF OpsOf

(* An answer closes the form that is open, and may have the list read again;  *)
(* after a failure nothing is claimed of the list.                            *)
LEMMA ArrivesHow ==
    ASSUME FormOK(rf), NEW i \in DOMAIN rf.flight, RowSettles(i)
    PROVE  /\ FormOK(rf')
           /\ \/ ~rf'.clean
              \/ rf.flight[i].got # Unserved /\ rf' = RowAnswered(Arrived(i), rf.flight[i])
<1> DEFINE rq == rf.flight[i]
           p == Arrived(i)
<1>1. FormOK(p) /\ p.page = rf.page /\ rq \in FormCalls(rf.page)
  BY ArrivedForm
<1>2. \/ rq.got # Unserved /\ rf' = RowAnswered(p, rq)
      \/ rf' = RowFailed(p, rq)
      \/ rf' = [RowFailed(p, rq) EXCEPT !.list = {}]
  BY DEF RowSettles, Arrived
<1> HIDE DEF p, rq
<1>3. FormOK(RowFailed(p, rq)) /\ ~RowFailed(p, rq).clean
  BY <1>1 DEF RowFailed, FormOK, RowStates
<1>4. FormOK([RowFailed(p, rq) EXCEPT !.list = {}]) /\ ~[RowFailed(p, rq) EXCEPT !.list = {}].clean
  <2> DEFINE q == RowFailed(p, rq)
  <2>1. FormOK(q) /\ ~q.clean
    BY <1>3
  <2> HIDE DEF q
  <2>2. FormOK([q EXCEPT !.list = {}]) /\ ~[q EXCEPT !.list = {}].clean
    BY <2>1 DEF FormOK, RowStates
  <2> QED BY <2>2 DEF q
<1>5. rq.got # Unserved => FormOK(RowAnswered(p, rq))
  BY <1>1, AnswerOK
<1> QED BY <1>2, <1>3, <1>4, <1>5 DEF p, rq

LEMMA FormAtFirst == RowInit => FormOK(rf)
<1> SUFFICES ASSUME RowInit PROVE FormOK(rf)
  OBVIOUS
<1>1. PICK page \in RowPages : \E rows \in SUBSET TableOf(page) :
        rf = [page |-> page, open |-> page \notin {"settings", "switch"}, rows |-> rows, list |-> {},
              shown |-> FALSE, editing |-> Nothing, from |-> Nothing, saving |-> FALSE,
              loading |-> page = "mock", failed |-> FALSE, clean |-> TRUE,
              flight |-> IF page \in {"settings", "switch", "button"} THEN <<>> ELSE <<Read>>]
  BY DEF RowInit
<1>2. <<>> \in Seq(FormCalls(page)) /\ <<Read>> \in Seq(FormCalls(page))
  BY ReadIsCall
<1> QED BY <1>1, <1>2 DEF FormOK, RowStates, RowNames

LEMMA FormStep == ASSUME FormOK(rf), [RowNext]_rowVars PROVE FormOK(rf')
BY HandlersKeepForm, ServerKeepsForm, ArrivesHow DEF RowNext, rowVars, Handlers, RowArrives

LEMMA FormIs == RowSpec => []FormOK(rf)
<1>1. FormOK(rf) /\ [RowNext]_rowVars => FormOK(rf)'
  BY FormStep DEF FormOK
<1> QED BY <1>1, FormAtFirst, PTL DEF RowSpec

-------------------------------------------------------------------------------
(* The list                                                                   *)

(* Requests are served in the order they were sent.                           *)
InTurn(f) == \A i, j \in DOMAIN f : i < j /\ f[j].got # Unserved => f[i].got # Unserved

(* A page that reads its rows again: its last request leads to another one,   *)
(* or reads the rows there are.                                               *)
WillRead(p) ==
    IF p.flight = <<>> THEN p.list = p.rows
    ELSE Last(p.flight).op # "read" \/ Last(p.flight).got \in {Unserved, p.rows}

Setting(op) == IF op = "on" THEN {Logging} ELSE {}

(* The box is read before it is used, and shows what was sent last.           *)
BoxOK(p) ==
    /\ \A i, j \in DOMAIN p.flight : i < j /\ p.flight[i].op = "read" => p.flight[j].op = "read"
    /\ p.open =>
         IF p.flight = <<>> THEN p.list = p.rows
         ELSE LET c == Last(p.flight) IN
              IF c.op = "read" THEN c.got \in {Unserved, p.rows}
              ELSE p.list = Setting(c.op) /\ (c.got # Unserved => p.list = p.rows)

(* A served request that says whether a row is there, and what it says.       *)
Touches(c, x) ==
    /\ c.got # Unserved
    /\ c.op = "read" \/ (c.op = "save" /\ c.to = Nothing /\ x \in c.got) \/ (c.op = "delete" /\ c.to = x)

SaysIn(c, x) == IF c.op = "read" THEN x \in c.got ELSE c.op = "save"

(* The dialog will have heard of every row what the server has of it.         *)
RowTold(p, x) ==
    /\ \A i \in DOMAIN p.flight :
          /\ Touches(p.flight[i], x)
          /\ \A j \in DOMAIN p.flight : i < j => ~Touches(p.flight[j], x)
          => (SaysIn(p.flight[i], x) <=> x \in p.rows)
    /\ (\A i \in DOMAIN p.flight : ~Touches(p.flight[i], x)) => (x \in p.list <=> x \in p.rows)

ReadAsked(p) == \E i \in DOMAIN p.flight : p.flight[i].op = "read" /\ p.flight[i].got = Unserved

DialogOK(p) == p.open => ReadAsked(p) \/ \A x \in RowIds : RowTold(p, x)

ListOK(p) ==
    p.clean =>
        /\ InTurn(p.flight)
        /\ p.page \in {"mock", "tables", "assets"} => WillRead(p)
        /\ p.page = "switch" => BoxOK(p)
        /\ p.page = "settings" => DialogOK(p)

(* What a handler does to the list and the requests: nothing, send a request, *)
(* start over, or send what the box shows.                                    *)
Quiet ==
    /\ rf'.clean = rf.clean /\ rf'.list = rf.list /\ rf'.flight = rf.flight
    /\ rf'.open => rf.open

Sends(c) ==
    /\ c \in FormCalls(rf.page) /\ c.got = Unserved /\ rf'.flight = Append(rf.flight, c)

AsksFor(c) ==
    /\ Sends(c) /\ rf'.clean = rf.clean /\ rf'.list = rf.list
    /\ rf'.open /\ ~rf.open => c.op = "read"
    /\ rf.page = "switch" => c.op = "read"

StartsOver ==
    rf.page = "assets" /\ rf'.flight = <<Read>> /\ rf'.clean = rf.clean

Switches(c) ==
    /\ rf.page = "switch" /\ Sends(c) /\ c.op # "read" /\ rf'.list = Setting(c.op)
    /\ rf'.clean = (rf.clean /\ ~ReadUnderWay)

LEMMA HandlerDoes ==
    ASSUME FormOK(rf), Handlers
    PROVE  /\ rf'.page = rf.page /\ rf'.rows = rf.rows
           /\ Quiet \/ StartsOver \/ \E c \in FormCalls(rf.page) : AsksFor(c) \/ Switches(c)
<1>1. CASE OpenSettings
  <2>1. Read \in FormCalls(rf.page) /\ Read.op = "read" /\ Read.got = Unserved
    BY ReadIsCall DEF Read, Call, FormOK
  <2>2. /\ rf'.page = rf.page /\ rf'.rows = rf.rows /\ rf'.list = rf.list /\ rf'.clean = rf.clean
        /\ rf'.flight = Append(rf.flight, Read)
    BY <1>1 DEF OpenSettings, Reloading, FormOK, RowStates
  <2> QED BY <2>1, <2>2 DEF AsksFor, Sends
<1>2. CASE handleClose \/ cancel
  BY <1>2 DEF handleClose, cancel, FormOK, RowStates, Quiet
<1>3. CASE rf.page = "assets" /\ Remount
  BY <1>3 DEF Remount, FormOK, RowStates, StartsOver
<1>4. CASE rf.page \notin {"switch", "settings"} /\ Refresh
  <2>1. Read \in FormCalls(rf.page) /\ Read.op = "read" /\ Read.got = Unserved
    BY ReadIsCall DEF Read, Call, FormOK
  <2>2. /\ rf'.page = rf.page /\ rf'.rows = rf.rows /\ rf'.list = rf.list /\ rf'.clean = rf.clean
        /\ rf'.flight = Append(rf.flight, Read)
    BY <1>4 DEF Refresh, Reloading, FormOK, RowStates
  <2> QED BY <2>1, <2>2 DEF AsksFor, Sends
<1>5. CASE openNew \/ openEdit
  BY <1>5 DEF openNew, FormOpened, openEdit, FormOK, RowStates, Quiet
<1>6. CASE rf.page # "switch" /\ (save \/ (rf.page = "mock" /\ createScenario))
  <2>1. PICK c \in {Call("save", rf.editing, rf.from), Call("scene", Nothing, Nothing)} :
          /\ c.op = "scene" => rf.page = "mock"
          /\ c.op = "save" => rf.editing = rf.from
          /\ rf' = [rf EXCEPT !.saving = TRUE, !.flight = Append(@, c)]
    BY <1>6 DEF save, CanSave, Visible, createScenario, Call, FormOK
  <2>2. c \in FormCalls(rf.page) /\ c.got = Unserved
    BY <1>6, <2>1 DEF Call, FormCalls, FormOK, RowStates, RowNames, OpsOf
  <2> HIDE DEF Sends
  <2>3. Sends(c) /\ rf'.page = rf.page /\ rf'.rows = rf.rows /\ rf'.list = rf.list
        /\ rf'.clean = rf.clean /\ rf'.open = rf.open
    BY <2>1, <2>2 DEF Sends, FormOK, RowStates
  <2>4. AsksFor(c)
    BY <1>6, <2>3 DEF AsksFor
  <2> QED BY <2>2, <2>3, <2>4
<1>7. CASE rf.page # "switch" /\ deleteRow
  <2>1. PICK id \in rf.list : rf' = [rf EXCEPT !.flight = Append(@, Call("delete", id, Nothing))]
    BY <1>7 DEF deleteRow
  <2> DEFINE c == Call("delete", id, Nothing)
  <2>2. c \in FormCalls(rf.page) /\ c.got = Unserved
    BY <1>7 DEF Call, FormCalls, RowNames, FormOK, RowStates, OpsOf, TableOf
  <2> HIDE DEF c
  <2>3. Sends(c) /\ rf'.page = rf.page /\ rf'.rows = rf.rows /\ rf'.list = rf.list
        /\ rf'.clean = rf.clean /\ rf'.open = rf.open
    BY <2>1, <2>2 DEF Sends, FormOK, RowStates, c
  <2>4. AsksFor(c)
    BY <1>7, <2>3 DEF AsksFor
  <2> QED BY <2>2, <2>3, <2>4
<1>8. CASE rf.page = "switch" /\ putSetting
  <2> DEFINE op == IF rf.list = {} THEN "on" ELSE "off"
             c == Call(op, Nothing, Nothing)
  <2>1. c \in FormCalls(rf.page) /\ c.got = Unserved /\ c.op = op
    BY <1>8 DEF Call, FormCalls, RowNames, OpsOf
  <2>2. rf' = [rf EXCEPT !.list = Setting(op), !.clean = @ /\ ~ReadUnderWay, !.flight = Append(@, c)]
    BY <1>8 DEF putSetting, Setting
  <2> HIDE DEF c
  <2>3. Sends(c) /\ rf'.page = rf.page /\ rf'.rows = rf.rows /\ rf'.list = Setting(op)
        /\ rf'.clean = (rf.clean /\ ~ReadUnderWay)
    BY <2>1, <2>2 DEF Sends, FormOK, RowStates
  <2>4. Switches(c)
    BY <1>8, <2>1, <2>3 DEF Switches
  <2> QED BY <2>1, <2>3, <2>4
<1> QED BY <1>1, <1>2, <1>3, <1>4, <1>5, <1>6, <1>7, <1>8
        DEF Handlers, SettingsDialog, MockService, LookupTables, AssetStore, SaveToAssetsButton

(* One more request in the list's way.                                        *)
LEMMA ListSent ==
    ASSUME FormOK(rf), FormOK(rf'), ListOK(rf), rf'.page = rf.page, rf'.rows = rf.rows,
           NEW c, AsksFor(c) \/ Switches(c)
    PROVE  ListOK(rf')
<1> DEFINE f == rf.flight
           g == rf'.flight
           n == Len(rf.flight)
<1>1. f \in Seq(FormCalls(rf.page)) /\ c \in FormCalls(rf.page) /\ c.got = Unserved /\ g = Append(f, c)
  BY DEF FormOK, RowStates, AsksFor, Switches, Sends
<1>2. /\ g \in Seq(FormCalls(rf.page)) /\ Len(g) = n + 1 /\ n \in Nat /\ g[n + 1] = c
      /\ \A j \in 1 .. n : g[j] = f[j]
  BY <1>1, AppendProperties
<1>3. Last(g) = c /\ g # <<>>
  BY <1>1, NewestLast
<1>4. DOMAIN f = 1 .. n /\ DOMAIN g = 1 .. n + 1
  BY <1>1, <1>2
<1>5. rf'.clean => rf.clean
  BY DEF AsksFor, Switches
<1> SUFFICES ASSUME rf'.clean PROVE ListOK(rf')
  BY DEF ListOK
<1>6. InTurn(f)
  BY <1>5 DEF ListOK
<1> HIDE DEF f, g, n
<1>7. InTurn(g)
  <2> SUFFICES ASSUME NEW i \in DOMAIN g, NEW j \in DOMAIN g, i < j, g[j].got # Unserved
               PROVE  g[i].got # Unserved
    BY DEF InTurn
  <2>1. i \in 1 .. n /\ j \in 1 .. n
    BY <1>1, <1>2, <1>4
  <2> QED BY <1>2, <1>4, <1>6, <2>1 DEF InTurn
<1>8. rf.page \in {"mock", "tables", "assets"} => WillRead(rf')
  BY <1>1, <1>3 DEF WillRead, g
<1>9. CASE rf.page = "switch"
  <2>1. BoxOK(rf)
    BY <1>5, <1>9 DEF ListOK
  <2>2. c.op # "read" => \A i \in 1 .. n : f[i].op # "read"
    <3> SUFFICES ASSUME c.op # "read" PROVE \A i \in 1 .. n : f[i].op # "read"
      OBVIOUS
    <3>1. rf'.clean = (rf.clean /\ ~ReadUnderWay)
      BY <1>9 DEF AsksFor, Switches
    <3>2. ~ReadUnderWay
      BY <3>1
    <3> QED BY <1>4, <3>2 DEF ReadUnderWay, f
  <2>3. \A i, j \in DOMAIN g : i < j /\ g[i].op = "read" => g[j].op = "read"
    <3> SUFFICES ASSUME NEW i \in DOMAIN g, NEW j \in DOMAIN g, i < j, g[i].op = "read"
                 PROVE  g[j].op = "read"
      OBVIOUS
    <3>1. i \in 1 .. n /\ f[i].op = "read"
      BY <1>2, <1>4
    <3>2. CASE j = n + 1
      BY <1>2, <2>2, <3>1, <3>2
    <3>3. CASE j \in 1 .. n
      BY <1>2, <1>4, <2>1, <3>1, <3>3 DEF BoxOK, f
    <3> QED BY <1>2, <1>4, <3>2, <3>3
  <2>4. c.op # "read" => rf'.list = Setting(c.op)
    BY <1>9 DEF AsksFor, Switches
  <2>5. BoxOK(rf')
    BY <1>1, <1>3, <2>3, <2>4 DEF BoxOK, g
  <2> QED BY <1>7, <1>9, <2>5 DEF ListOK, g
<1>10. CASE rf.page = "settings"
  <2>1. AsksFor(c) /\ rf'.list = rf.list /\ (rf'.open /\ ~rf.open => c.op = "read") /\ DialogOK(rf)
    BY <1>5, <1>10 DEF AsksFor, Switches, ListOK
  <2>2. CASE c.op = "read"
    <3>1. n + 1 \in DOMAIN g /\ g[n + 1].op = "read" /\ g[n + 1].got = Unserved
      BY <1>1, <1>2, <1>4, <2>2
    <3> QED BY <1>7, <1>10, <3>1 DEF ListOK, DialogOK, ReadAsked, g
  <2>3. CASE c.op # "read"
    <3>1. ReadAsked(rf) => ReadAsked(rf')
      <4> SUFFICES ASSUME NEW i \in DOMAIN f, f[i].op = "read", f[i].got = Unserved
                   PROVE  ReadAsked(rf')
        BY DEF ReadAsked, f
      <4>1. i \in DOMAIN g /\ g[i] = f[i]
        BY <1>2, <1>4
      <4> QED BY <4>1 DEF ReadAsked, g
    <3>2. ASSUME NEW x \in RowIds, RowTold(rf, x) PROVE RowTold(rf', x)
      <4>1. ~Touches(g[n + 1], x)
        BY <1>1, <1>2 DEF Touches
      <4>2. \A i \in DOMAIN g : Touches(g[i], x) => i \in DOMAIN f /\ Touches(f[i], x)
        BY <1>2, <1>4, <4>1
      <4>3. \A i \in DOMAIN f : i \in DOMAIN g /\ g[i] = f[i]
        BY <1>2, <1>4
      <4> QED BY <2>1, <3>2, <4>2, <4>3 DEF RowTold, f, g
    <3>3. DialogOK(rf')
      BY <2>1, <2>3, <3>1, <3>2 DEF DialogOK
    <3> QED BY <1>7, <1>10, <3>3 DEF ListOK, g
  <2> QED BY <2>2, <2>3
<1> QED BY <1>7, <1>8, <1>9, <1>10 DEF ListOK, g

LEMMA ListStarted ==
    ASSUME FormOK(rf), ListOK(rf), rf'.page = rf.page, StartsOver PROVE ListOK(rf')
<1>1. Len(<<Read>>) = 1 /\ DOMAIN <<Read>> = {1} /\ Last(<<Read>>) = Read /\ <<Read>> # <<>>
  BY DEF Last
<1>2. InTurn(<<Read>>) /\ Read.got = Unserved
  BY <1>1 DEF InTurn, Read, Call
<1> QED BY <1>1, <1>2 DEF ListOK, StartsOver, WillRead

LEMMA ListQuiet ==
    ASSUME FormOK(rf), ListOK(rf), rf'.page = rf.page, rf'.rows = rf.rows, Quiet PROVE ListOK(rf')
<1>1. /\ rf.page \in {"mock", "tables", "assets"} /\ WillRead(rf) => WillRead(rf')
      /\ rf.page = "switch" /\ BoxOK(rf) => BoxOK(rf')
  BY DEF WillRead, BoxOK, Quiet
<1>2. DialogOK(rf) => DialogOK(rf')
  <2>1. \A x : RowTold(rf, x) => RowTold(rf', x)
    BY DEF RowTold, Quiet
  <2>2. ReadAsked(rf) => ReadAsked(rf')
    BY DEF ReadAsked, Quiet
  <2> QED BY <2>1, <2>2 DEF DialogOK, Quiet
<1> QED BY <1>1, <1>2 DEF ListOK, Quiet

(* The server serves the requests in turn: those after this one are unserved. *)
LEMMA ListServed ==
    ASSUME FormOK(rf), ListOK(rf), NEW i \in DOMAIN rf.flight, NEW rows \in SUBSET TableOf(rf.page),
           NEW got \in SUBSET TableOf(rf.page), ServedCall(i, rows, got)
    PROVE  ListOK(rf')
<1> DEFINE f == rf.flight
           g == rf'.flight
           n == Len(rf.flight)
<1>1. /\ rf'.page = rf.page /\ rf'.open = rf.open /\ rf'.list = rf.list /\ rf'.rows = rows
      /\ rf'.clean = (rf.clean /\ InOrder(rf, i))
      /\ g \in Seq(FormCalls(rf.page)) /\ Len(g) = Len(f)
      /\ g[i] = [f[i] EXCEPT !.got = got]
      /\ \A j \in 1 .. n : j # i => g[j] = f[j]
  BY ServedForm DEF ServedCall
<1>2. f \in Seq(FormCalls(rf.page)) /\ f[i] \in FormCalls(rf.page)
  BY DEF FormOK, RowStates
<1>3. DOMAIN f = 1 .. n /\ DOMAIN g = 1 .. n /\ n \in Nat /\ i \in 1 .. n
  BY <1>1, <1>2
<1>4. g[i].op = f[i].op /\ g[i].to = f[i].to /\ g[i].got = got /\ f[i].op \in OpsOf(rf.page)
  BY <1>1, <1>2 DEF FormCalls
<1>5. got # Unserved
  <2>1. got \in SUBSET (RowIds \cup {Logging})
    BY DEF TableOf
  <2> QED BY <2>1, RowsAreNoNull DEF Unserved
<1> SUFFICES ASSUME rf'.clean PROVE ListOK(rf')
  BY DEF ListOK
<1>6. InTurn(f) /\ f[i].got = Unserved /\ \A j \in 1 .. i - 1 : f[j].got # Unserved
  BY <1>1 DEF ListOK, ServedCall, InOrder
<1>7. \A j \in 1 .. n : j > i => g[j] = f[j] /\ g[j].got = Unserved
  BY <1>1, <1>3, <1>6 DEF InTurn
<1> HIDE DEF f, g, n
<1>8. InTurn(g)
  <2> SUFFICES ASSUME NEW j \in 1 .. n, NEW k \in 1 .. n, j < k, g[k].got # Unserved
               PROVE  g[j].got # Unserved
    BY <1>3 DEF InTurn
  <2>1. k <= i
    BY <1>3, <1>7
  <2>2. j \in 1 .. i - 1
    BY <1>3, <2>1
  <2> QED BY <1>1, <1>3, <1>6, <2>2 DEF g, n
<1>9. g # <<>> /\ f # <<>> /\ Last(g) = g[n] /\ Last(f) = f[n] /\ n \in 1 .. n
  BY <1>1, <1>2, <1>3 DEF Last, f, g, n
<1>10. /\ i = n => Last(g).op = f[i].op /\ Last(g).got = got
       /\ i # n => Last(g) = Last(f) /\ Last(g).got = Unserved
  <2>1. i # n => n > i
    BY <1>3
  <2>2. i # n => g[n] = f[n] /\ g[n].got = Unserved
    BY <1>7, <1>9, <2>1
  <2> QED BY <1>4, <1>9, <2>2
<1>11. rf.page \in {"mock", "tables", "assets"} => WillRead(rf')
  <2>1. f[i].op = "read" => got = rows
    BY DEF ServedCall, f
  <2>2. CASE i = n
    BY <1>1, <1>4, <1>9, <1>10, <2>1, <2>2 DEF WillRead, g
  <2>3. CASE i # n
    BY <1>9, <1>10, <2>3 DEF WillRead, g
  <2> QED BY <2>2, <2>3
<1>12. rf.page = "switch" => BoxOK(rf')
  <2> SUFFICES ASSUME rf.page = "switch" PROVE BoxOK(rf')
    OBVIOUS
  <2>1. BoxOK(rf)
    BY <1>1 DEF ListOK
  <2>2. \A j \in 1 .. n : g[j].op = f[j].op
    BY <1>1, <1>4 DEF f, g, n
  <2>3. \A j, k \in DOMAIN g : j < k /\ g[j].op = "read" => g[k].op = "read"
    BY <1>3, <2>1, <2>2 DEF BoxOK, f
  <2>4. f[i].op \in {"read", "on", "off"}
    BY <1>4 DEF OpsOf
  <2>5. (f[i].op = "read" => got = rows) /\ (f[i].op # "read" => rows = Setting(f[i].op))
    BY <2>4 DEF ServedCall, Setting, f
  <2>6. CASE i = n
    BY <1>1, <1>4, <1>9, <1>10, <2>1, <2>3, <2>5, <2>6 DEF BoxOK, f, g
  <2>7. CASE i # n
    BY <1>1, <1>9, <1>10, <2>1, <2>3, <2>7 DEF BoxOK, f, g
  <2> QED BY <2>6, <2>7
<1>13. rf.page = "settings" => DialogOK(rf')
  <2> SUFFICES ASSUME rf.page = "settings", rf.open PROVE DialogOK(rf')
    BY <1>1 DEF DialogOK
  <2>1. ReadAsked(rf) \/ \A x \in RowIds : RowTold(rf, x)
    BY <1>1 DEF ListOK, DialogOK
  <2>2. ASSUME NEW x, NEW j \in 1 .. n, j > i PROVE ~Touches(g[j], x)
    BY <1>7, <2>2 DEF Touches
  <2>3. f[i].op \in {"read", "save", "delete"}
    BY <1>4 DEF OpsOf
  <2>4. CASE f[i].op = "read"
    <3>1. got = rows
      BY <2>4 DEF ServedCall, f
    <3>2. ASSUME NEW x \in RowIds PROVE RowTold(rf', x)
      <4>1. Touches(g[i], x) /\ (SaysIn(g[i], x) <=> x \in rows)
        BY <1>4, <1>5, <2>4, <3>1 DEF Touches, SaysIn
      <4>2. ASSUME NEW j \in 1 .. n, Touches(g[j], x), \A k \in 1 .. n : j < k => ~Touches(g[k], x)
            PROVE  j = i
        BY <1>3, <2>2, <4>1, <4>2
      <4> QED BY <1>1, <1>3, <4>1, <4>2 DEF RowTold, g
    <3> QED BY <3>2 DEF DialogOK
  <2>5. CASE ReadAsked(rf) /\ f[i].op # "read"
    <3>1. PICK j \in 1 .. n : f[j].op = "read" /\ f[j].got = Unserved
      BY <1>3, <2>5 DEF ReadAsked, f
    <3>2. g[j] = f[j]
      BY <1>1, <2>5, <3>1 DEF f, g, n
    <3> QED BY <1>3, <3>1, <3>2 DEF DialogOK, ReadAsked, g
  <2>6. ASSUME f[i].op # "read", NEW x \in RowIds, RowTold(rf, x) PROVE RowTold(rf', x)
    <3>1. \A j \in 1 .. n : j < i => g[j] = f[j]
      BY <1>1, <1>3 DEF f, g, n
    <3>2. CASE Touches(g[i], x)
      <4>1. SaysIn(g[i], x) <=> x \in rows
        <5>1. CASE f[i].op = "save"
          <6>1. PICK id \in Written(rf.rows, f[i]) : rows = rf.rows \cup {id} /\ got = {id}
            BY <5>1 DEF ServedCall, f
          <6> QED BY <1>4, <3>2, <5>1, <6>1 DEF Touches, SaysIn
        <5>2. CASE f[i].op = "delete"
          <6>1. rows = rf.rows \ {f[i].to}
            BY <5>2 DEF ServedCall, f
          <6> QED BY <1>4, <3>2, <5>2, <6>1 DEF Touches, SaysIn
        <5> QED BY <2>3, <2>6, <5>1, <5>2
      <4>2. ASSUME NEW j \in 1 .. n, Touches(g[j], x), \A k \in 1 .. n : j < k => ~Touches(g[k], x)
            PROVE  j = i
        BY <1>3, <2>2, <3>2, <4>2
      <4> QED BY <1>1, <1>3, <3>2, <4>1, <4>2 DEF RowTold, g
    <3>3. CASE ~Touches(g[i], x)
      <4>1. x \in rows <=> x \in rf.rows
        <5>1. CASE f[i].op = "save"
          <6>1. PICK id \in Written(rf.rows, f[i]) : rows = rf.rows \cup {id} /\ got = {id}
            BY <5>1 DEF ServedCall, f
          <6> QED BY <1>4, <1>5, <3>3, <5>1, <6>1 DEF Touches, Written
        <5>2. CASE f[i].op = "delete"
          <6>1. rows = rf.rows \ {f[i].to}
            BY <5>2 DEF ServedCall, f
          <6> QED BY <1>4, <1>5, <3>3, <5>2, <6>1 DEF Touches
        <5> QED BY <2>3, <2>6, <5>1, <5>2
      <4>2. ~Touches(f[i], x)
        BY <1>6 DEF Touches
      <4>3. \A j \in 1 .. n : Touches(g[j], x) <=> Touches(f[j], x)
        BY <1>1, <3>3, <4>2 DEF f, g, n
      <4>4. \A j \in 1 .. n : Touches(g[j], x) => g[j] = f[j]
        BY <1>1, <3>3 DEF f, g, n
      <4> QED BY <1>1, <1>3, <2>6, <4>1, <4>3, <4>4 DEF RowTold, f, g
    <3> QED BY <3>2, <3>3
  <2> QED BY <2>1, <2>4, <2>5, <2>6 DEF DialogOK
<1> QED BY <1>1, <1>8, <1>11, <1>12, <1>13 DEF ListOK, g

(* The answer of the oldest request.                                          *)
LEMMA ListArrived ==
    ASSUME FormOK(rf), ListOK(rf), rf.page # "button", NEW i \in DOMAIN rf.flight, RowSettles(i)
    PROVE  ListOK(rf')
<1> DEFINE f == rf.flight
           n == Len(rf.flight)
           p == Arrived(i)
           rq == rf.flight[i]
           h == p.flight
           g == rf'.flight
<1> SUFFICES ASSUME rf'.clean PROVE ListOK(rf')
  BY DEF ListOK
<1>1. rq.got # Unserved /\ rf' = RowAnswered(p, rq)
  BY ArrivesHow
<1>2. /\ FormOK(p) /\ p.page = rf.page /\ p.open = rf.open /\ p.list = rf.list
      /\ p.rows = rf.rows /\ p.clean = (rf.clean /\ i = 1)
      /\ Len(h) = n - 1 /\ h \in Seq(FormCalls(rf.page))
      /\ \A j \in 1 .. Len(h) : i = 1 => h[j] = f[j + 1]
      /\ rq \in FormCalls(rf.page) /\ n \in Nat \ {0}
  BY ArrivedForm
<1>3. ListAnswered(p, rq, rf')
  BY <1>1, <1>2, AnswerOK
<1>4. /\ rf'.page = rf.page /\ rf'.open = rf.open /\ rf'.rows = rf.rows /\ rf.clean /\ i = 1
      /\ g = IF rf.page \in {"mock", "tables", "assets"} /\ rq.op # "read" THEN Append(h, Read) ELSE h
  BY <1>2, <1>3 DEF ListAnswered
<1>5. f \in Seq(FormCalls(rf.page)) /\ f # <<>> /\ rq = f[1] /\ rq.op \in OpsOf(rf.page)
  BY <1>2, <1>4 DEF FormOK, RowStates, FormCalls
<1>6. DOMAIN f = 1 .. n /\ DOMAIN h = 1 .. n - 1 /\ n \in Nat
  BY <1>2, <1>5
<1>7. InTurn(f)
  BY <1>4 DEF ListOK
<1>8. /\ n = 1 => h = <<>> /\ Last(f) = rq
      /\ n > 1 => h # <<>> /\ Last(h) = Last(f)
  <2>1. h = RemoveAt(f, 1)
    BY <1>4 DEF Arrived, FormOK, RowStates
  <2> QED BY <1>5, <2>1, OldestOut
<1>9. n = 1 \/ n > 1
  BY <1>2, OneOrMore, Zenon
<1> HIDE DEF f, n, p, rq, h, g
<1>10. InTurn(h)
  <2> SUFFICES ASSUME NEW j \in 1 .. n - 1, NEW k \in 1 .. n - 1, j < k, h[k].got # Unserved
               PROVE  h[j].got # Unserved
    BY <1>6 DEF InTurn
  <2>1. j + 1 \in 1 .. n /\ k + 1 \in 1 .. n /\ j + 1 < k + 1
    BY <1>6
  <2>2. h[j] = f[j + 1] /\ h[k] = f[k + 1]
    BY <1>2, <1>4
  <2> QED BY <1>6, <1>7, <2>1, <2>2 DEF InTurn
<1>11. CASE rf.page \in {"mock", "tables", "assets"}
  <2>1. CASE rq.op = "read"
    <3>1. g = h /\ rf'.list = rq.got
      BY <1>2, <1>3, <1>4, <2>1 DEF ListAnswered
    <3>2. WillRead(rf)
      BY <1>4, <1>11 DEF ListOK
    <3>3. n = 1 => WillRead(rf')
      BY <1>1, <1>4, <1>5, <1>8, <2>1, <3>1, <3>2 DEF WillRead, g, f
    <3>4. n > 1 => WillRead(rf')
      BY <1>4, <1>5, <1>8, <3>1, <3>2 DEF WillRead, g, f
    <3>5. WillRead(rf')
      BY <1>9, <3>3, <3>4
    <3> QED BY <1>4, <1>10, <1>11, <3>1, <3>5 DEF ListOK, g
  <2>2. CASE rq.op # "read"
    <3>1. g = Append(h, Read) /\ Read \in FormCalls(rf.page) /\ Read.got = Unserved
      BY <1>4, <1>11, <2>2, ReadIsCall DEF Read, Call, FormOK
    <3>2. /\ Len(g) = Len(h) + 1 /\ g[Len(h) + 1] = Read /\ g \in Seq(FormCalls(rf.page))
          /\ \A j \in 1 .. Len(h) : g[j] = h[j]
      BY <1>2, <3>1, AppendProperties
    <3>3. Last(g) = Read /\ g # <<>>
      BY <1>2, <3>1, NewestLast
    <3>4. InTurn(g)
      <4> SUFFICES ASSUME NEW j \in 1 .. n, NEW k \in 1 .. n, j < k, g[k].got # Unserved
                   PROVE  g[j].got # Unserved
        BY <1>2, <3>2 DEF InTurn
      <4>1. j \in 1 .. n - 1 /\ k \in 1 .. n - 1
        BY <1>2, <3>1, <3>2
      <4> QED BY <1>2, <1>6, <1>10, <3>2, <4>1 DEF InTurn
    <3>5. WillRead(rf')
      BY <3>1, <3>3 DEF WillRead, g
    <3> QED BY <1>4, <1>11, <3>4, <3>5 DEF ListOK, g
  <2> QED BY <2>1, <2>2
<1>12. CASE rf.page = "switch"
  <2>1. BoxOK(rf) /\ g = h /\ rq.op \in {"read", "on", "off"}
    BY <1>4, <1>5, <1>12 DEF ListOK, OpsOf
  <2>2. rf'.list = IF rq.op = "read" THEN rq.got ELSE rf.list
    BY <1>2, <1>3, <1>12 DEF ListAnswered
  <2>3. \A j, k \in DOMAIN h : j < k /\ h[j].op = "read" => h[k].op = "read"
    <3> SUFFICES ASSUME NEW j \in 1 .. n - 1, NEW k \in 1 .. n - 1, j < k, h[j].op = "read"
                 PROVE  h[k].op = "read"
      BY <1>6
    <3>1. j + 1 \in 1 .. n /\ k + 1 \in 1 .. n /\ j + 1 < k + 1
      BY <1>6
    <3>2. h[j] = f[j + 1] /\ h[k] = f[k + 1]
      BY <1>2, <1>4
    <3> QED BY <1>6, <2>1, <3>1, <3>2 DEF BoxOK, f
  <2>4. BoxOK(rf')
    <3>1. CASE n = 1
      <4>1. rf.open => rf'.list = rf.rows
        BY <1>1, <1>5, <1>8, <2>1, <2>2, <3>1 DEF BoxOK, f
      <4> QED BY <1>4, <1>8, <2>1, <2>3, <3>1, <4>1 DEF BoxOK, g
    <3>2. CASE n > 1
      <4>1. Last(h) = Last(f) /\ h # <<>> /\ Last(f) = f[n] /\ n \in 1 .. n /\ 1 \in 1 .. n
        BY <1>2, <1>8, <3>2 DEF Last, f, n
      <4>2. rq.op = "read" => Last(f).op = "read"
        BY <1>5, <1>6, <2>1, <3>2, <4>1 DEF BoxOK, f
      <4> QED BY <1>4, <1>5, <2>1, <2>2, <2>3, <4>1, <4>2 DEF BoxOK, f, g
    <3> QED BY <1>9, <3>1, <3>2
  <2> QED BY <1>4, <1>10, <1>12, <2>1, <2>4 DEF ListOK, g
<1>13. CASE rf.page = "settings"
  <2>1. DialogOK(rf) /\ g = h /\ rq.op \in {"read", "save", "delete"}
    BY <1>4, <1>5, <1>13 DEF ListOK, OpsOf
  <2>2. \A j \in 1 .. n - 1 : h[j] = f[j + 1] /\ j + 1 \in 1 .. n /\ j + 1 # 1
    BY <1>2, <1>4
  <2>3. \A j \in 1 .. n : j # 1 => j - 1 \in 1 .. n - 1 /\ h[j - 1] = f[j]
    <3> SUFFICES ASSUME NEW j \in 1 .. n, j # 1 PROVE j - 1 \in 1 .. n - 1 /\ h[j - 1] = f[j]
      OBVIOUS
    <3>1. j - 1 \in 1 .. n - 1 /\ (j - 1) + 1 = j
      BY <1>6
    <3> QED BY <2>2, <3>1
  <2>4. ReadAsked(rf) => ReadAsked(rf')
    <3> SUFFICES ASSUME NEW j \in 1 .. n, f[j].op = "read", f[j].got = Unserved PROVE ReadAsked(rf')
      BY <1>6 DEF ReadAsked, f
    <3>1. j # 1
      BY <1>1, <1>5
    <3>2. j - 1 \in 1 .. n - 1 /\ h[j - 1] = f[j]
      BY <2>3, <3>1
    <3> QED BY <1>6, <2>1, <3>2 DEF ReadAsked, g
  <2>5. ASSUME NEW x \in RowIds, RowTold(rf, x) PROVE RowTold(rf', x)
    <3>1. ASSUME NEW j \in 1 .. n - 1, Touches(h[j], x), \A k \in 1 .. n - 1 : j < k => ~Touches(h[k], x)
          PROVE  SaysIn(h[j], x) <=> x \in rf.rows
      <4>1. h[j] = f[j + 1] /\ j + 1 \in 1 .. n
        BY <2>2
      <4>2. ASSUME NEW k \in 1 .. n, j + 1 < k PROVE ~Touches(f[k], x)
        <5>1. k # 1 /\ j < k - 1
          BY <1>6, <4>2
        <5>2. k - 1 \in 1 .. n - 1 /\ h[k - 1] = f[k]
          BY <2>3, <5>1
        <5> QED BY <3>1, <5>1, <5>2
      <4> QED BY <1>6, <2>5, <3>1, <4>1, <4>2 DEF RowTold, f
    <3>2. ASSUME \A j \in 1 .. n - 1 : ~Touches(h[j], x) PROVE x \in rf'.list <=> x \in rf.rows
      <4>1. \A j \in 1 .. n : j # 1 => ~Touches(f[j], x)
        BY <2>3, <3>2
      <4>2. 1 \in 1 .. n /\ f[1] = rq
        BY <1>5, <1>9, <1>6
      <4>3. CASE Touches(rq, x)
        <5>1. SaysIn(rq, x) <=> x \in rf.rows
          BY <1>6, <2>5, <4>1, <4>2, <4>3 DEF RowTold, f
        <5>2. SaysIn(rq, x) <=> x \in rf'.list
          BY <1>2, <1>3, <1>13, <2>1, <4>3 DEF Touches, SaysIn, ListAnswered
        <5> QED BY <5>1, <5>2
      <4>4. CASE ~Touches(rq, x)
        <5>1. x \in rf.list <=> x \in rf.rows
          BY <1>6, <2>5, <4>1, <4>2, <4>4 DEF RowTold, f
        <5>2. x \in rf'.list <=> x \in rf.list
          <6>1. CASE rq.op = "read"
            BY <1>1, <4>4, <6>1 DEF Touches
          <6>2. CASE rq.op = "delete"
            BY <1>1, <1>2, <1>3, <1>13, <4>4, <6>2 DEF Touches, ListAnswered
          <6>3. CASE rq.op = "save"
            BY <1>1, <1>2, <1>3, <1>13, <4>4, <6>3 DEF Touches, ListAnswered
          <6> QED BY <2>1, <6>1, <6>2, <6>3
        <5> QED BY <5>1, <5>2
      <4> QED BY <4>3, <4>4
    <3> QED BY <1>4, <1>6, <2>1, <3>1, <3>2 DEF RowTold, g
  <2>6. DialogOK(rf')
    BY <1>4, <2>1, <2>4, <2>5 DEF DialogOK
  <2> QED BY <1>4, <1>10, <1>13, <2>1, <2>6 DEF ListOK, g
<1> QED BY <1>11, <1>12, <1>13 DEF FormOK, RowPages

RowInv == FormOK(rf) /\ (rf.page # "button" => ListOK(rf))

LEMMA RowStep == ASSUME RowInv, [RowNext]_rowVars PROVE RowInv'
<1>1. FormOK(rf) /\ FormOK(rf')
  BY FormStep DEF RowInv
<1>2. CASE Handlers
  <2>1. /\ rf'.page = rf.page /\ rf'.rows = rf.rows
        /\ Quiet \/ StartsOver \/ \E c \in FormCalls(rf.page) : AsksFor(c) \/ Switches(c)
    BY <1>1, <1>2, HandlerDoes
  <2>2. rf.page # "button" => ListOK(rf')
    BY <1>1, <2>1, ListQuiet, ListStarted, ListSent DEF RowInv
  <2> QED BY <1>1, <2>1, <2>2 DEF RowInv
<1>3. CASE RowServe
  <2>1. PICK i \in DOMAIN rf.flight, rows \in SUBSET TableOf(rf.page), got \in SUBSET TableOf(rf.page) :
          ServedCall(i, rows, got)
    BY <1>1, <1>3, ServeServes
  <2>2. rf'.page = rf.page
    BY <1>1, <2>1, ServedForm DEF ServedCall
  <2>3. rf.page # "button" => ListOK(rf')
    BY <1>1, <2>1, ListServed DEF RowInv
  <2> QED BY <1>1, <2>2, <2>3 DEF RowInv
<1>4. CASE RowsMove
  <2>1. ~rf'.clean
    BY <1>1, <1>4 DEF RowsMove, FormOK, RowStates
  <2> QED BY <1>1, <2>1 DEF RowInv, ListOK
<1>5. CASE RowArrives
  <2>1. PICK i \in DOMAIN rf.flight : RowSettles(i)
    BY <1>5 DEF RowArrives
  <2>2. rf.page # "button" => ListOK(rf')
    BY <1>1, <2>1, ListArrived DEF RowInv
  <2>3. rf'.page = rf.page
    <3>1. FormOK(Arrived(i)) /\ Arrived(i).page = rf.page
      BY <1>1, <2>1, ArrivedForm
    <3> DEFINE p == Arrived(i)
               rq == rf.flight[i]
    <3>2. rq \in FormCalls(rf.page)
      BY <1>1 DEF FormOK, RowStates
    <3>3. \/ rq.got # Unserved /\ rf' = RowAnswered(p, rq)
          \/ rf' = RowFailed(p, rq)
          \/ rf' = [RowFailed(p, rq) EXCEPT !.list = {}]
      BY <2>1 DEF RowSettles, Arrived
    <3> HIDE DEF p, rq
    <3>4. RowAnswered(p, rq).page = p.page /\ RowFailed(p, rq).page = p.page
          /\ [RowFailed(p, rq) EXCEPT !.list = {}].page = p.page
      BY <3>1 DEF p, RowAnswered, RowFailed, SaveAnswered, Reloading, FormOK, RowStates
    <3> QED BY <3>1, <3>3, <3>4 DEF p
  <2> QED BY <1>1, <2>2, <2>3 DEF RowInv
<1>6. CASE UNCHANGED rowVars
  BY <1>6 DEF RowInv, rowVars
<1> QED BY <1>2, <1>3, <1>4, <1>5, <1>6 DEF RowNext, Handlers

LEMMA ListAtFirst == RowInit => RowInv
<1> SUFFICES ASSUME RowInit PROVE RowInv
  OBVIOUS
<1>1. PICK page \in RowPages : \E rows \in SUBSET TableOf(page) :
        rf = [page |-> page, open |-> page \notin {"settings", "switch"}, rows |-> rows, list |-> {},
              shown |-> FALSE, editing |-> Nothing, from |-> Nothing, saving |-> FALSE,
              loading |-> page = "mock", failed |-> FALSE, clean |-> TRUE,
              flight |-> IF page \in {"settings", "switch", "button"} THEN <<>> ELSE <<Read>>]
  BY DEF RowInit
<1>2. /\ Len(<<Read>>) = 1 /\ DOMAIN <<Read>> = {1} /\ <<Read>> # <<>> /\ Last(<<Read>>) = Read
      /\ Read.got = Unserved
  BY DEF Last, Read, Call
<1>3. InTurn(<<Read>>) /\ InTurn(<<>>)
  BY <1>2 DEF InTurn
<1>4. ListOK(rf)
  <2>1. CASE page \in {"settings", "switch", "button"}
    <3>1. rf.page = page /\ rf.flight = <<>>
      BY <1>1, <2>1
    <3>2. page # "button" => ~rf.open
      <4>1. rf.open = (page \notin {"settings", "switch"})
        BY <1>1
      <4> QED BY <2>1, <4>1
    <3>3. DOMAIN <<>> = {}
      OBVIOUS
    <3> QED BY <1>3, <2>1, <3>1, <3>2, <3>3 DEF ListOK, BoxOK, DialogOK
  <2>2. CASE page \in {"mock", "tables", "assets"}
    <3>1. rf.page = page /\ rf.flight = <<Read>>
      BY <1>1, <2>2
    <3>2. WillRead(rf)
      BY <1>2, <3>1 DEF WillRead
    <3> QED BY <1>3, <2>2, <3>1, <3>2 DEF ListOK
  <2> QED BY <2>1, <2>2 DEF RowPages
<1> QED BY <1>4, FormAtFirst DEF RowInv

LEMMA RowsAre == RowSpec => []RowInv
<1>1. RowInv /\ [RowNext]_rowVars => RowInv'
  BY RowStep
<1> QED BY <1>1, ListAtFirst, PTL DEF RowSpec

LEMMA RowsTyped == RowInv => RowTypeOK
<1> SUFFICES ASSUME RowInv PROVE RowTypeOK
  OBVIOUS
<1>1. rf.page \in RowPages /\ rf \in RowStates(rf.page)
  BY DEF RowInv, FormOK
<1>2. FormCalls(rf.page) \subseteq Calls
  BY DEF FormCalls, Calls, OpsOf, RowNames, TableOf
<1>3. \A i \in DOMAIN rf.flight : rf.flight[i] \in Calls
  BY <1>1, <1>2 DEF RowStates
<1> QED BY <1>1, <1>3 DEF RowTypeOK, RowStates, RowNames

(* What a page of rows holds is of its type, whichever page it is: its rows   *)
(* and its list of its table, its requests those it can send                  *)
(* (SettingsDialog.tsx, MockService.tsx, LookupTables.tsx, AssetStore.tsx).   *)
THEOREM RowTypes == RowSpec => []RowTypeOK
BY RowsTyped, RowsAre, PTL

LEMMA FormsAreWritten == FormOK(rf) => FormsWriteTheirRow
BY DEF FormOK, RowStates, FormCalls, FormsWriteTheirRow

(* A form writes the row its fields were filled from, for any rows, answers   *)
(* and number of requests under way.                                          *)
THEOREM OwnRowWritten == RowSpec => []FormsWriteTheirRow
BY FormsAreWritten, FormIs, PTL

LEMMA ListsAtRest == RowInv => ListAtRestIsTable
<1> SUFFICES ASSUME RowInv, rf.flight = <<>>, rf.clean, rf.open, rf.page # "button"
             PROVE  rf.list = rf.rows
  BY DEF ListAtRestIsTable
<1>1. ListOK(rf) /\ rf.page \in RowPages
  BY DEF RowInv, FormOK
<1>2. CASE rf.page \in {"mock", "tables", "assets"}
  BY <1>1, <1>2 DEF ListOK, WillRead
<1>3. CASE rf.page = "switch"
  BY <1>1, <1>3 DEF ListOK, BoxOK
<1>4. CASE rf.page = "settings"
  <2>1. \A x \in RowIds : x \in rf.list <=> x \in rf.rows
    BY <1>1, <1>4 DEF ListOK, DialogOK, ReadAsked, RowTold
  <2>2. rf.list \subseteq RowIds /\ rf.rows \subseteq RowIds
    BY <1>4 DEF RowInv, FormOK, RowStates, TableOf
  <2> QED BY <2>1, <2>2
<1> QED BY <1>1, <1>2, <1>3, <1>4 DEF RowPages

(* At rest a page lists the rows the server has, whatever it saved, deleted   *)
(* and read meanwhile, for any rows and number of requests under way; the     *)
(* dialog too, which keeps its list by hand, and the box of a setting         *)
(* (SettingsDialog.tsx, MockService.tsx, LookupTables.tsx, AssetStore.tsx).   *)
THEOREM ListsShowTables == RowSpec => []ListAtRestIsTable
BY ListsAtRest, RowsAre, PTL

-------------------------------------------------------------------------------
(* The page "Monitoring"                                                      *)

Dashboards ==
    [system : Systems, view : {"dashboard"}, tiles : SUBSET Tiles,
     counts : [Tiles -> Systems \cup {Nothing}], adding : BOOLEAN, clean : BOOLEAN, flight : Seq(Asks)]

DetailViews ==
    [system : Systems, view : {"detail"}, filter : FilterIds, page : 1 .. MaxPages,
     total : 1 .. MaxPages, shown : Messages \cup {Nothing}, clean : BOOLEAN, loading : BOOLEAN,
     flight : Seq(Messages)]

(* From the k-th on, requests are about the selected instance.                *)
OursFrom(p, k) == \A j \in k .. Len(p.flight) : p.flight[j].system = p.system

TilesAreOurs(p) ==
    /\ p.tiles \subseteq TilesOf(p.system) /\ \A t \in p.tiles : p.counts[t] \in {p.system, Nothing}
    /\ OursFrom(p, 1)

(* The tiles of the selected instance are asked for, and nothing that is of   *)
(* another comes after them.                                                  *)
TilesAsked(p) ==
    \E i \in DOMAIN p.flight :
        p.flight[i].op = "tiles" /\ p.flight[i].system = p.system /\ OursFrom(p, i)

DashboardOK(p) == p \in Dashboards /\ (p.clean => TilesAreOurs(p) \/ TilesAsked(p))

Current(p) == [system |-> p.system, filter |-> p.filter, page |-> p.page]

(* The newest request is for what the controls show.                          *)
DetailOK(p) ==
    /\ p \in DetailViews
    /\ p.clean => IF p.flight = <<>> THEN p.shown = Current(p) ELSE Last(p.flight) = Current(p)

LEMMA DashboardFirst == ASSUME NEW s \in Systems PROVE DashboardOK(Dashboard(s))
<1> DEFINE rq == Ask("tiles", s, Nothing)
<1>1. rq \in Asks /\ rq.op = "tiles" /\ rq.system = s
  BY DEF Ask, Asks
<1> HIDE DEF rq
<1>2. <<rq>> \in Seq(Asks) /\ Len(<<rq>>) = 1 /\ <<rq>>[1] = rq
  BY <1>1
<1>3. Dashboard(s) = [system |-> s, view |-> "dashboard", tiles |-> {},
                      counts |-> [t \in Tiles |-> Nothing], adding |-> FALSE, clean |-> TRUE,
                      flight |-> <<rq>>]
  BY DEF Dashboard, rq
<1>4. Dashboard(s) \in Dashboards
  BY <1>2, <1>3 DEF Dashboards
<1>5. TilesAsked(Dashboard(s))
  BY <1>1, <1>2, <1>3 DEF TilesAsked, OursFrom
<1> QED BY <1>4, <1>5 DEF DashboardOK

(* Asking for the counts adds requests of the selected instance.              *)
LEMMA CountsShape ==
    ASSUME NEW p \in Dashboards
    PROVE  LET q == CountsAsked(p) IN
           /\ q \in Dashboards
           /\ q.system = p.system /\ q.tiles = p.tiles /\ q.clean = p.clean
           /\ Len(q.flight) >= Len(p.flight)
           /\ \A j \in 1 .. Len(p.flight) : q.flight[j] = p.flight[j]
           /\ OursFrom(q, Len(p.flight) + 1)
           /\ \A t \in p.tiles : q.counts[t] = Nothing
<1>1. CASE p.tiles = {}
  BY <1>1 DEF CountsAsked, Dashboards, OursFrom
<1>2. CASE p.tiles # {}
  <2> DEFINE new == {Ask("count", p.system, t) : t \in p.tiles}
             asks == SetToSeq(new)
             none == [t \in Tiles |-> Nothing]
  <2>1. p.flight \in Seq(Asks) /\ p.tiles \subseteq Tiles /\ p.system \in Systems
    BY DEF Dashboards
  <2>2. IsFiniteSet(new)
    <3>1. IsFiniteSet(p.tiles)
      BY <2>1, MonitorTiles, FS_Subset
    <3>2. PICK ask : ask = [t \in p.tiles |-> Ask("count", p.system, t)]
      OBVIOUS
    <3>3. IsFiniteSet({ask[t] : t \in p.tiles})
      BY <3>1, FiniteImage
    <3>4. new = {ask[t] : t \in p.tiles}
      BY <3>2
    <3> QED BY <3>3, <3>4
  <2>3. asks \in Seq(new)
    BY <2>2, InSomeOrder
  <2>4. \A a \in new : a \in Asks /\ a.system = p.system
    BY <2>1 DEF Ask, Asks
  <2>5. asks \in Seq(Asks) /\ \A j \in 1 .. Len(asks) : asks[j].system = p.system
    <3>1. new \subseteq Asks /\ asks \in Seq(Asks)
      BY <2>3, <2>4, SeqMonotonic
    <3>2. \A j \in 1 .. Len(asks) : asks[j] \in new
      BY <2>3, ElementOfSeq
    <3> QED BY <2>4, <3>1, <3>2
  <2> HIDE DEF new, asks
  <2> DEFINE f == p.flight \o asks
  <2>6. /\ f \in Seq(Asks) /\ Len(f) = Len(p.flight) + Len(asks)
        /\ \A j \in 1 .. Len(f) : f[j] = IF j <= Len(p.flight) THEN p.flight[j]
                                         ELSE asks[j - Len(p.flight)]
    BY <2>1, <2>5, ConcatProperties
  <2>7. CountsAsked(p) = [p EXCEPT !.counts = none, !.flight = f]
    BY <1>2 DEF CountsAsked, asks, new
  <2> HIDE DEF f
  <2>8. /\ \A j \in 1 .. Len(p.flight) : f[j] = p.flight[j]
        /\ \A j \in Len(p.flight) + 1 .. Len(f) : f[j].system = p.system
        /\ Len(f) >= Len(p.flight)
    <3>1. Len(p.flight) \in Nat /\ Len(asks) \in Nat
      BY <2>1, <2>5
    <3>2. ASSUME NEW j \in Len(p.flight) + 1 .. Len(f) PROVE f[j].system = p.system
      <4>1. f[j] = asks[j - Len(p.flight)] /\ j - Len(p.flight) \in 1 .. Len(asks)
        BY <2>6, <3>1
      <4> QED BY <2>5, <4>1
    <3> QED BY <2>6, <3>1, <3>2
  <2>9. /\ none \in [Tiles -> Systems \cup {Nothing}]
        /\ \A t \in p.tiles : none[t] = Nothing
    BY <2>1
  <2> HIDE DEF none
  <2> QED BY <2>6, <2>7, <2>8, <2>9 DEF Dashboards, OursFrom
<1> QED BY <1>1, <1>2

(* Then the counts are those of the selected instance, or will be.            *)
LEMMA CountsKeep ==
    ASSUME NEW p \in Dashboards, NEW k \in Nat \ {0}, OursFrom(p, k)
    PROVE  OursFrom(CountsAsked(p), k)
<1> DEFINE q == CountsAsked(p)
<1>1. /\ q.system = p.system
      /\ \A j \in 1 .. Len(p.flight) : q.flight[j] = p.flight[j]
      /\ OursFrom(q, Len(p.flight) + 1) /\ q.flight \in Seq(Asks) /\ p.flight \in Seq(Asks)
  BY CountsShape DEF Dashboards
<1> HIDE DEF q
<1> QED BY <1>1 DEF OursFrom, q

LEMMA CountsOK ==
    ASSUME NEW p \in Dashboards,
           p.clean => (p.tiles \subseteq TilesOf(p.system) /\ OursFrom(p, 1)) \/ TilesAsked(p)
    PROVE  DashboardOK(CountsAsked(p))
<1> DEFINE q == CountsAsked(p)
<1>1. /\ q \in Dashboards /\ q.system = p.system /\ q.tiles = p.tiles /\ q.clean = p.clean
      /\ \A j \in 1 .. Len(p.flight) : q.flight[j] = p.flight[j]
      /\ Len(q.flight) >= Len(p.flight) /\ \A t \in p.tiles : q.counts[t] = Nothing
      /\ q.flight \in Seq(Asks) /\ p.flight \in Seq(Asks)
  BY CountsShape DEF Dashboards
<1>2. CASE p.clean /\ p.tiles \subseteq TilesOf(p.system) /\ OursFrom(p, 1)
  <2>1. OursFrom(q, 1)
    BY <1>2, CountsKeep
  <2> QED BY <1>1, <1>2, <2>1 DEF DashboardOK, TilesAreOurs
<1>3. CASE p.clean /\ TilesAsked(p)
  <2>1. PICK i \in DOMAIN p.flight :
          p.flight[i].op = "tiles" /\ p.flight[i].system = p.system /\ OursFrom(p, i)
    BY <1>3 DEF TilesAsked
  <2>2. OursFrom(q, i) /\ i \in DOMAIN q.flight /\ q.flight[i] = p.flight[i]
    BY <1>1, <2>1, CountsKeep
  <2> QED BY <1>1, <2>1, <2>2 DEF DashboardOK, TilesAsked
<1> QED BY <1>1, <1>2, <1>3 DEF DashboardOK

MonitorInv == DashboardOK(mon) \/ DetailOK(mon)

(* One answered: the newest request, and those from the k-th on.              *)
LEMMA DashboardAsk ==
    ASSUME DashboardOK(mon), NEW rq \in Asks, rq.system = mon.system, NEW busy \in BOOLEAN
    PROVE  DashboardOK([mon EXCEPT !.adding = busy, !.flight = Append(@, rq)])
<1> DEFINE f == Append(mon.flight, rq)
           q == [mon EXCEPT !.adding = busy, !.flight = f]
<1>1. mon \in Dashboards /\ mon.flight \in Seq(Asks)
  BY DEF DashboardOK, Dashboards
<1>2. /\ f \in Seq(Asks) /\ Len(f) = Len(mon.flight) + 1 /\ f[Len(mon.flight) + 1] = rq
      /\ \A j \in 1 .. Len(mon.flight) : f[j] = mon.flight[j]
  BY <1>1, AppendProperties
<1> HIDE DEF f
<1>3. q \in Dashboards
  BY <1>1, <1>2 DEF Dashboards
<1>4. q.system = mon.system /\ q.flight = f /\ q.clean = mon.clean /\ q.tiles = mon.tiles
      /\ q.counts = mon.counts
  BY <1>1 DEF Dashboards
<1> HIDE DEF q
<1>5. ASSUME NEW k \in 1 .. Len(f), OursFrom(mon, k) PROVE OursFrom(q, k)
  BY <1>1, <1>2, <1>4, <1>5 DEF OursFrom
<1>6. TilesAreOurs(mon) => TilesAreOurs(q)
  BY <1>1, <1>2, <1>4, <1>5 DEF TilesAreOurs
<1>7. TilesAsked(mon) => TilesAsked(q)
  <2> SUFFICES ASSUME NEW i \in DOMAIN mon.flight, mon.flight[i].op = "tiles",
                      mon.flight[i].system = mon.system, OursFrom(mon, i)
               PROVE  TilesAsked(q)
    BY DEF TilesAsked
  <2>1. i \in 1 .. Len(f) /\ i \in DOMAIN f /\ f[i] = mon.flight[i]
    BY <1>1, <1>2
  <2> QED BY <1>4, <1>5, <2>1 DEF TilesAsked
<1> QED BY <1>3, <1>4, <1>6, <1>7 DEF DashboardOK, q, f

LEMMA SystemAsks ==
    ASSUME mon \in Dashboards, NEW s \in Systems
    PROVE  DashboardOK(SystemChanged(mon, s))
<1> DEFINE rq == Ask("tiles", s, Nothing)
           f == Append(mon.flight, rq)
           q == [mon EXCEPT !.system = s, !.flight = f]
<1>1. mon.flight \in Seq(Asks)
  BY DEF Dashboards
<1>2. rq \in Asks /\ rq.op = "tiles" /\ rq.system = s
  BY DEF Ask, Asks
<1> HIDE DEF rq
<1>3. f \in Seq(Asks) /\ Len(f) = Len(mon.flight) + 1 /\ f[Len(mon.flight) + 1] = rq
  BY <1>1, <1>2, AppendProperties
<1>4. Len(mon.flight) \in Nat
  BY <1>1
<1> HIDE DEF f
<1>5. q \in Dashboards /\ q.system = s /\ q.flight = f
  BY <1>3 DEF Dashboards
<1> HIDE DEF q
<1>6. TilesAsked(q)
  <2>1. OursFrom(q, Len(mon.flight) + 1)
    BY <1>2, <1>3, <1>4, <1>5 DEF OursFrom
  <2>2. Len(mon.flight) + 1 \in DOMAIN q.flight
    BY <1>3, <1>4, <1>5
  <2> QED BY <1>2, <1>3, <1>5, <2>1, <2>2 DEF TilesAsked
<1> QED BY <1>5, <1>6, CountsOK DEF SystemChanged, q, f, rq

(* What answers leave: the requests after the one answered are no fewer of    *)
(* the selected instance.                                                     *)
LEMMA DashboardLeft ==
    ASSUME DashboardOK(mon), NEW i \in DOMAIN mon.flight
    PROVE  LET q == Settled(i)
               rq == mon.flight[i] IN
           /\ q \in Dashboards /\ rq \in Asks
           /\ q.system = mon.system /\ q.tiles = mon.tiles /\ q.counts = mon.counts
           /\ q.clean => \/ TilesAreOurs(q) /\ rq.system = q.system
                         \/ TilesAsked(q)
                         \/ rq.op = "tiles" /\ rq.system = q.system /\ OursFrom(q, 1)
<1> DEFINE f == RemoveAt(mon.flight, i)
           q == Settled(i)
           rq == mon.flight[i]
<1>1. mon \in Dashboards /\ mon.flight \in Seq(Asks)
  BY DEF DashboardOK, Dashboards
<1>2. /\ f \in Seq(Asks) /\ Len(f) = Len(mon.flight) - 1 /\ Len(mon.flight) \in Nat \ {0}
      /\ \A j \in 1 .. Len(mon.flight) - 1 : f[j] = IF j < i THEN mon.flight[j] ELSE mon.flight[j + 1]
  <2>1. Len(mon.flight) \in Nat \ {0}
    BY <1>1
  <2> QED BY <1>1, <2>1, Removed
<1>3. rq \in Asks
  BY <1>1
<1>4. q = [mon EXCEPT !.flight = f, !.clean = mon.clean /\ i = 1]
  BY DEF Settled
<1> HIDE DEF f
<1>5. /\ q \in Dashboards /\ q.flight = f /\ q.clean = (mon.clean /\ i = 1)
      /\ q.system = mon.system /\ q.tiles = mon.tiles /\ q.counts = mon.counts
  BY <1>1, <1>2, <1>4 DEF Dashboards
<1> HIDE DEF q
<1>6. SUFFICES ASSUME mon.clean, i = 1
               PROVE  \/ TilesAreOurs(q) /\ rq.system = q.system
                      \/ TilesAsked(q)
                      \/ rq.op = "tiles" /\ rq.system = q.system /\ OursFrom(q, 1)
  BY <1>3, <1>5 DEF q
<1>7. CASE TilesAreOurs(mon)
  <2>1. OursFrom(q, 1) /\ rq.system = mon.system
    BY <1>1, <1>2, <1>5, <1>6, <1>7 DEF TilesAreOurs, OursFrom
  <2> QED BY <1>5, <1>7, <2>1 DEF TilesAreOurs
<1>8. CASE TilesAsked(mon)
  <2>1. PICK k \in DOMAIN mon.flight :
          mon.flight[k].op = "tiles" /\ mon.flight[k].system = mon.system /\ OursFrom(mon, k)
    BY <1>8 DEF TilesAsked
  <2>2. CASE k = 1
    <3>1. OursFrom(q, 1)
      BY <1>1, <1>2, <1>5, <1>6, <2>1, <2>2 DEF OursFrom
    <3> QED BY <1>5, <1>6, <2>1, <2>2, <3>1
  <2>3. CASE k # 1
    <3>1. k - 1 \in 1 .. Len(f) /\ f[k - 1] = mon.flight[k] /\ k - 1 \in DOMAIN f
      BY <1>1, <1>2, <1>6, <2>1, <2>3
    <3>2. OursFrom(q, k - 1)
      <4> SUFFICES ASSUME NEW j \in k - 1 .. Len(f) PROVE f[j].system = mon.system
        BY <1>5 DEF OursFrom
      <4>1. f[j] = mon.flight[j + 1] /\ j + 1 \in k .. Len(mon.flight)
        BY <1>1, <1>2, <1>6, <3>1, <2>1
      <4> QED BY <2>1, <4>1 DEF OursFrom
    <3> QED BY <1>5, <2>1, <3>1, <3>2 DEF TilesAsked
  <2> QED BY <2>2, <2>3
<1> QED BY <1>6, <1>7, <1>8 DEF DashboardOK

LEMMA DashboardAnswers ==
    ASSUME DashboardOK(mon), NEW i \in DOMAIN mon.flight,
           mon' \in DashboardAnswered(Settled(i), mon.flight[i])
           \/ mon' \in DashboardFailed(Settled(i), mon.flight[i])
    PROVE  DashboardOK(mon')
<1> DEFINE q == Settled(i)
           rq == mon.flight[i]
<1>1. /\ q \in Dashboards /\ rq \in Asks
      /\ q.system = mon.system /\ q.tiles = mon.tiles /\ q.counts = mon.counts
      /\ q.clean => \/ TilesAreOurs(q) /\ rq.system = q.system
                    \/ TilesAsked(q)
                    \/ rq.op = "tiles" /\ rq.system = q.system /\ OursFrom(q, 1)
  BY DashboardLeft
<1>2. rq.op \in {"tiles", "count", "add", "delete"} /\ rq.system \in Systems
      /\ rq.tile \in Tiles \cup {Nothing}
  BY <1>1 DEF Asks
<1>3. mon' \in DashboardAnswered(q, rq) \/ mon' \in DashboardFailed(q, rq)
  OBVIOUS
<1> HIDE DEF q, rq
<1>4. CASE mon' \in DashboardAnswered(q, rq) /\ rq.op = "tiles"
  <2>1. PICK T \in SUBSET TilesOf(rq.system) : mon' = CountsAsked([q EXCEPT !.tiles = T])
    BY <1>4 DEF DashboardAnswered
  <2> DEFINE z == [q EXCEPT !.tiles = T]
  <2>2. z \in Dashboards /\ z.system = q.system /\ z.tiles = T /\ z.flight = q.flight
        /\ z.clean = q.clean
    BY <1>1, <2>1 DEF Dashboards, TilesOf
  <2> HIDE DEF z
  <2>3. /\ OursFrom(q, 1) => OursFrom(z, 1)
        /\ TilesAsked(q) => TilesAsked(z)
    BY <2>2 DEF OursFrom, TilesAsked
  <2>4. z.clean => (z.tiles \subseteq TilesOf(z.system) /\ OursFrom(z, 1)) \/ TilesAsked(z)
    BY <1>1, <2>1, <2>2, <2>3 DEF TilesAreOurs
  <2> QED BY <2>1, <2>2, <2>4, CountsOK DEF z
<1>5. CASE rq.op = "tiles" /\ mon' \in DashboardFailed(q, rq)
  BY <1>1, <1>5 DEF DashboardFailed, Dashboards, DashboardOK
<1>6. CASE rq.op = "count"
  <2>1. PICK c \in {rq.system, Nothing} : mon' = [q EXCEPT !.counts[rq.tile] = c]
    BY <1>3, <1>6 DEF DashboardAnswered, DashboardFailed
  <2>2. /\ mon' \in Dashboards /\ mon'.system = q.system /\ mon'.tiles = q.tiles
        /\ mon'.flight = q.flight /\ mon'.clean = q.clean
        /\ \A t \in Tiles : mon'.counts[t] = IF t = rq.tile THEN c ELSE q.counts[t]
    BY <1>1, <1>2, <2>1 DEF Dashboards
  <2>3. TilesAreOurs(q) /\ rq.system = q.system => TilesAreOurs(mon')
    <3>1. q.tiles \subseteq Tiles
      BY <1>1 DEF Dashboards
    <3> QED BY <2>1, <2>2, <3>1 DEF TilesAreOurs, OursFrom
  <2>4. TilesAsked(q) => TilesAsked(mon')
    BY <2>2 DEF TilesAsked, OursFrom
  <2> QED BY <1>1, <1>6, <2>2, <2>3, <2>4 DEF DashboardOK
<1>7. CASE mon' \in DashboardAnswered(q, rq) /\ rq.op = "add"
  <2>1. PICK t \in TilesOf(rq.system) :
          mon' = CountsAsked([q EXCEPT !.tiles = @ \cup {t}, !.adding = FALSE])
    BY <1>7 DEF DashboardAnswered
  <2> DEFINE z == [q EXCEPT !.tiles = @ \cup {t}, !.adding = FALSE]
  <2>2. z \in Dashboards /\ z.system = q.system /\ z.tiles = q.tiles \cup {t}
        /\ z.flight = q.flight /\ z.clean = q.clean
    BY <1>1, <2>1 DEF Dashboards, TilesOf
  <2> HIDE DEF z
  <2>3. /\ OursFrom(q, 1) => OursFrom(z, 1)
        /\ TilesAsked(q) => TilesAsked(z)
    BY <2>2 DEF OursFrom, TilesAsked
  <2>4. z.clean => (z.tiles \subseteq TilesOf(z.system) /\ OursFrom(z, 1)) \/ TilesAsked(z)
    BY <1>1, <1>7, <2>1, <2>2, <2>3 DEF TilesAreOurs
  <2> QED BY <2>1, <2>2, <2>4, CountsOK DEF z
<1>8. CASE rq.op = "add" /\ mon' \in DashboardFailed(q, rq)
  <2>1. mon' = [q EXCEPT !.adding = FALSE]
    BY <1>8 DEF DashboardFailed
  <2>2. /\ mon' \in Dashboards /\ mon'.system = q.system /\ mon'.tiles = q.tiles
        /\ mon'.flight = q.flight /\ mon'.clean = q.clean /\ mon'.counts = q.counts
    BY <1>1, <2>1 DEF Dashboards
  <2>3. /\ TilesAreOurs(q) => TilesAreOurs(mon')
        /\ TilesAsked(q) => TilesAsked(mon')
    BY <2>2 DEF TilesAreOurs, TilesAsked, OursFrom
  <2> QED BY <1>1, <1>8, <2>2, <2>3 DEF DashboardOK
<1>9. CASE rq.op = "delete"
  <2> DEFINE z == [q EXCEPT !.tiles = @ \ {rq.tile}, !.counts[rq.tile] = Nothing]
  <2>1. mon' = CountsAsked(z)
    BY <1>3, <1>9 DEF DashboardAnswered, DashboardFailed
  <2>2. z \in Dashboards /\ z.system = q.system /\ z.tiles \subseteq q.tiles
        /\ z.flight = q.flight /\ z.clean = q.clean
    BY <1>1, <1>2 DEF Dashboards
  <2> HIDE DEF z
  <2>3. /\ OursFrom(q, 1) => OursFrom(z, 1)
        /\ TilesAsked(q) => TilesAsked(z)
    BY <2>2 DEF OursFrom, TilesAsked
  <2>4. z.clean => (z.tiles \subseteq TilesOf(z.system) /\ OursFrom(z, 1)) \/ TilesAsked(z)
    BY <1>1, <1>9, <2>2, <2>3 DEF TilesAreOurs
  <2> QED BY <2>1, <2>2, <2>4, CountsOK
<1> QED BY <1>2, <1>3, <1>4, <1>5, <1>6, <1>7, <1>8, <1>9

(* The controls put a request last.                                           *)
LEMMA DetailFirst ==
    ASSUME NEW s \in Systems, NEW f \in FilterIds PROVE DetailOK(DetailView(s, f))
<1> DEFINE rq == [system |-> s, filter |-> f, page |-> 1]
           q == DetailView(s, f)
<1>1. rq \in Messages /\ 1 \in 1 .. MaxPages
  BY MonitorPages DEF Messages
<1>2. q = [system |-> s, view |-> "detail", filter |-> f, page |-> 1, total |-> 1,
           shown |-> Nothing, clean |-> TRUE, loading |-> TRUE, flight |-> <<rq>>]
  BY DEF DetailView
<1>3. Current(q) = rq
  BY <1>2 DEF Current
<1> HIDE DEF rq
<1>4. <<rq>> \in Seq(Messages) /\ <<rq>> # <<>> /\ Last(<<rq>>) = rq
  BY <1>1 DEF Last
<1>5. q \in DetailViews
  BY <1>1, <1>2, <1>4 DEF DetailViews
<1> QED BY <1>2, <1>3, <1>4, <1>5 DEF DetailOK

LEMMA PageAsked ==
    ASSUME NEW p \in DetailViews, NEW n \in 1 .. MaxPages
    PROVE  DetailOK(Loading(p, n))
<1> DEFINE rq == [system |-> p.system, filter |-> p.filter, page |-> n]
           f == Append(p.flight, rq)
           q == Loading(p, n)
<1>1. rq \in Messages /\ p.flight \in Seq(Messages)
  BY DEF Messages, DetailViews
<1>2. q = [p EXCEPT !.page = n, !.loading = TRUE, !.flight = f]
  BY DEF Loading
<1>3. Current(q) = rq
  BY <1>2 DEF Current, DetailViews
<1> HIDE DEF rq
<1>4. f \in Seq(Messages) /\ f # <<>> /\ Last(f) = rq
  BY <1>1, NewestLast
<1> HIDE DEF f
<1>5. q \in DetailViews /\ q.flight = f
  BY <1>2, <1>4 DEF DetailViews
<1> QED BY <1>3, <1>4, <1>5 DEF DetailOK

LEMMA DetailAnswers ==
    ASSUME DetailOK(mon), NEW i \in DOMAIN mon.flight, DetailSettles(i)
    PROVE  DetailOK(mon')
<1> DEFINE f == RemoveAt(mon.flight, i)
           rq == mon.flight[i]
<1>1. mon \in DetailViews /\ mon.flight \in Seq(Messages) /\ rq \in Messages /\ mon.flight # <<>>
  BY DEF DetailOK, DetailViews
<1>2. f \in Seq(Messages)
  BY <1>1, Removed
<1>3. i = 1 => /\ Len(mon.flight) = 1 => f = <<>> /\ Last(mon.flight) = rq
               /\ Len(mon.flight) > 1 => f # <<>> /\ Last(f) = Last(mon.flight)
  BY <1>1, OldestOut
<1>4. Len(mon.flight) = 1 \/ Len(mon.flight) > 1
  <2>1. Len(mon.flight) \in Nat \ {0}
    BY <1>1
  <2>2. \A n \in Nat \ {0} : n = 1 \/ n > 1
    OBVIOUS
  <2> QED BY <2>1, <2>2, Zenon
<1>5. Settled(i) = [mon EXCEPT !.flight = f, !.clean = @ /\ i = 1]
  BY <1>1 DEF Settled
<1> HIDE DEF f, rq
<1>6. CASE mon' = [Settled(i) EXCEPT !.loading = FALSE, !.clean = FALSE]
  BY <1>1, <1>2, <1>5, <1>6 DEF DetailOK, DetailViews
<1>7. ASSUME NEW total \in 1 .. MaxPages,
             mon' = [Settled(i) EXCEPT !.shown = rq, !.total = total, !.loading = FALSE]
      PROVE  DetailOK(mon')
  <2>1. /\ mon' \in DetailViews /\ mon'.flight = f /\ mon'.shown = rq
        /\ mon'.clean = (mon.clean /\ i = 1) /\ Current(mon') = Current(mon)
    BY <1>1, <1>2, <1>5, <1>7 DEF DetailViews, Current
  <2>2. CASE mon'.clean
    <3>1. i = 1 /\ Last(mon.flight) = Current(mon)
      BY <1>1, <2>1, <2>2 DEF DetailOK
    <3>2. CASE Len(mon.flight) = 1
      BY <1>3, <2>1, <3>1, <3>2 DEF DetailOK
    <3>3. CASE Len(mon.flight) > 1
      BY <1>3, <2>1, <3>1, <3>3 DEF DetailOK
    <3> QED BY <1>4, <3>2, <3>3
  <2> QED BY <2>1, <2>2 DEF DetailOK
<1> QED BY <1>6, <1>7 DEF DetailSettles, rq

LEMMA MonitorStep == ASSUME MonitorInv, MonitorNext PROVE MonitorInv'
<1> USE DEF MonitorInv
<1>1. /\ InDashboard => DashboardOK(mon) /\ mon \in Dashboards /\ mon.system \in Systems
                        /\ mon.adding \in BOOLEAN /\ mon.tiles \subseteq Tiles
      /\ InDetail => DetailOK(mon) /\ mon \in DetailViews /\ mon.system \in Systems
                     /\ mon.filter \in FilterIds /\ {mon.page, mon.total} \subseteq 1 .. MaxPages
      /\ ~InDashboard => InDetail
  BY DEF DashboardOK, DetailOK, Dashboards, DetailViews, InDashboard, InDetail
<1>2. CASE refreshCounts
  <2>1. mon.clean => (mon.tiles \subseteq TilesOf(mon.system) /\ OursFrom(mon, 1))
                      \/ TilesAsked(mon)
    BY <1>1, <1>2 DEF refreshCounts, DashboardOK, TilesAreOurs
  <2> QED BY <1>1, <1>2, <2>1, CountsOK DEF refreshCounts
<1>3. CASE addTile
  <2> DEFINE rq == Ask("add", mon.system, Nothing)
  <2>1. rq \in Asks /\ rq.system = mon.system /\ DashboardOK(mon)
    BY <1>1, <1>3 DEF addTile, Ask, Asks
  <2> HIDE DEF rq
  <2>2. mon' = [mon EXCEPT !.adding = TRUE, !.flight = Append(@, rq)]
    BY <1>3 DEF addTile, rq
  <2> QED BY <2>1, <2>2, DashboardAsk
<1>4. CASE deleteTile
  <2>1. PICK t \in mon.tiles : mon' = [mon EXCEPT !.flight = Append(@, Ask("delete", mon.system, t))]
    BY <1>4 DEF deleteTile
  <2> DEFINE rq == Ask("delete", mon.system, t)
  <2>2. rq \in Asks /\ rq.system = mon.system /\ DashboardOK(mon)
    BY <1>1, <1>4, <2>1 DEF deleteTile, Ask, Asks
  <2> HIDE DEF rq
  <2>3. mon' = [mon EXCEPT !.adding = mon.adding, !.flight = Append(@, rq)]
    BY <1>1, <1>4, <2>1 DEF deleteTile, rq, Dashboards
  <2> QED BY <1>1, <1>4, <2>2, <2>3, DashboardAsk DEF deleteTile
<1>5. CASE goToDetail
  BY <1>1, <1>5, DetailFirst DEF goToDetail
<1>6. CASE onBack
  BY <1>1, <1>6, DashboardFirst DEF onBack
<1>7. CASE setFilter
  <2>1. PICK f \in FilterIds : mon' = Loading([mon EXCEPT !.filter = f], 1)
    BY <1>7 DEF setFilter, FirstPage
  <2>2. [mon EXCEPT !.filter = f] \in DetailViews /\ 1 \in 1 .. MaxPages
    BY <1>1, <1>7, MonitorPages DEF setFilter, DetailViews
  <2> QED BY <2>1, <2>2, PageAsked
<1>8. CASE RefreshMessages
  BY <1>1, <1>8, PageAsked DEF RefreshMessages
<1>9. CASE TurnPage
  <2>1. PICK n \in {1, mon.page - 1, mon.page + 1, mon.total} :
          mon' = Loading(mon, n) /\ (n = mon.page - 1 => mon.page > 1)
          /\ (n = mon.page + 1 => mon.page < mon.total)
    <3>1. mon.page \in Int
      BY <1>1, <1>9 DEF TurnPage
    <3>2. CASE mon.page > 1 /\ \E n \in {1, mon.page - 1} : mon' = Loading(mon, n)
      <4>1. PICK n \in {1, mon.page - 1} : mon' = Loading(mon, n)
        BY <3>2
      <4> QED BY <3>1, <3>2, <4>1
    <3>3. CASE mon.page < mon.total /\ \E n \in {mon.page + 1, mon.total} : mon' = Loading(mon, n)
      <4>1. PICK n \in {mon.page + 1, mon.total} : mon' = Loading(mon, n)
        BY <3>3
      <4> QED BY <1>1, <1>9, <3>1, <3>3, <4>1 DEF TurnPage
    <3> QED BY <1>9, <3>2, <3>3 DEF TurnPage
  <2>2. n \in 1 .. MaxPages /\ mon \in DetailViews
    BY <1>1, <1>9, <2>1, MonitorPages DEF TurnPage
  <2> QED BY <2>1, <2>2, PageAsked
<1>10. CASE SelectSystem
  <2>1. PICK s \in Systems : \/ InDashboard /\ mon' = SystemChanged(mon, s)
                             \/ InDetail /\ mon' = Loading([mon EXCEPT !.system = s], 1)
    BY <1>10 DEF SelectSystem, FirstPage
  <2>2. CASE InDashboard /\ mon' = SystemChanged(mon, s)
    BY <1>1, <2>2, SystemAsks
  <2>3. CASE InDetail /\ mon' = Loading([mon EXCEPT !.system = s], 1)
    <3>1. [mon EXCEPT !.system = s] \in DetailViews /\ 1 \in 1 .. MaxPages
      BY <1>1, <2>3, MonitorPages DEF DetailViews
    <3> QED BY <2>3, <3>1, PageAsked
  <2> QED BY <2>1, <2>2, <2>3
<1>11. CASE SystemWithoutKey
  BY <1>1, <1>11, DashboardFirst, DetailFirst DEF SystemWithoutKey
<1>12. ASSUME NEW i \in DOMAIN mon.flight, DashboardSettles(i) PROVE MonitorInv'
  BY <1>1, <1>12, DashboardAnswers DEF DashboardSettles
<1>13. ASSUME NEW i \in DOMAIN mon.flight, DetailSettles(i) PROVE MonitorInv'
  BY <1>1, <1>13, DetailAnswers DEF DetailSettles
<1> QED BY <1>2, <1>3, <1>4, <1>5, <1>6, <1>7, <1>8, <1>9, <1>10, <1>11, <1>12, <1>13
         DEF MonitorNext, OnDashboard, OnDetail

LEMMA MonitorAtFirst == MonitorInit => MonitorInv
BY DashboardFirst DEF MonitorInit, MonitorInv

LEMMA MonitorKeeps == ASSUME MonitorInv, [MonitorNext]_monVars PROVE MonitorInv'
<1>1. CASE UNCHANGED monVars
  <2>1. mon' = mon
    BY <1>1 DEF monVars
  <2> QED BY <2>1 DEF MonitorInv
<1> QED BY <1>1, MonitorStep

LEMMA MonitorIs == MonitorSpec => []MonitorInv
<1>1. MonitorInv /\ [MonitorNext]_monVars => MonitorInv'
  BY MonitorKeeps
<1> QED BY <1>1, MonitorAtFirst, PTL DEF MonitorSpec

LEMMA MonitorTyped == MonitorInv => MonitorTypeOK
<1>1. mon \in Dashboards => MonitorTypeOK
  BY DEF Dashboards, MonitorTypeOK, InDashboard, InDetail
<1>2. mon \in DetailViews => MonitorTypeOK
  BY DEF DetailViews, MonitorTypeOK, InDashboard, InDetail
<1> QED BY <1>1, <1>2 DEF MonitorInv, DashboardOK, DetailOK

(* Whatever the tiles, the instances and the answers, what the page holds is  *)
(* of its type: a view is a dashboard or a detail view, its page within the   *)
(* pages of the result, its requests of its own kind (Monitoring.tsx).        *)
THEOREM MonitorTypes == MonitorSpec => []MonitorTypeOK
BY MonitorTyped, MonitorIs, PTL

LEMMA MonitorShows == MonitorInv => ViewIsOfSelection
<1>1. DashboardOK(mon) => ViewIsOfSelection
  <2> SUFFICES ASSUME DashboardOK(mon), mon.flight = <<>>, mon.clean PROVE ViewIsOfSelection
    BY DEF ViewIsOfSelection
  <2>1. TilesAreOurs(mon) /\ InDashboard /\ ~InDetail
    BY DEF DashboardOK, TilesAsked, Dashboards, InDashboard, InDetail
  <2> QED BY <2>1 DEF TilesAreOurs, ViewIsOfSelection
<1>2. DetailOK(mon) => ViewIsOfSelection
  BY DEF DetailOK, DetailViews, ViewIsOfSelection, InDashboard, InDetail, Current
<1> QED BY <1>1, <1>2 DEF MonitorInv

(* For every set of instances, tiles and filters: at rest, unless an answer   *)
(* overtook another or a request failed, the dashboard holds tiles of the     *)
(* selected instance with counts asked of it, and the detail view the messages *)
(* its controls select (Monitoring.tsx:192, 392).                             *)
THEOREM MonitoringShowsSelection == MonitorSpec => []ViewIsOfSelection
BY MonitorShows, MonitorIs, PTL

-------------------------------------------------------------------------------
(* The page "SFTP server"                                                     *)

(* Sequences that begin alike, and those without their last element.          *)
LEMMA BeginsWith ==
    ASSUME NEW S, NEW s \in Seq(S), NEW t \in Seq(S)
    PROVE  IsPrefix(s, t) <=> Len(s) <= Len(t) /\ \A i \in 1 .. Len(s) : s[i] = t[i]
<1>1. Len(s) \in Nat /\ Len(t) \in Nat
  OBVIOUS
<1>2. SUFFICES ASSUME Len(s) <= Len(t)
               PROVE  SubSeq(s, 1, Len(s)) = SubSeq(t, 1, Len(s)) <=> \A i \in 1 .. Len(s) : s[i] = t[i]
  BY DEF IsPrefix
<1> DEFINE u == SubSeq(s, 1, Len(s))
           v == SubSeq(t, 1, Len(s))
<1>3. /\ u \in Seq(S) /\ Len(u) = Len(s) /\ \A i \in 1 .. Len(s) : u[i] = s[i]
      /\ v \in Seq(S) /\ Len(v) = Len(s) /\ \A i \in 1 .. Len(s) : v[i] = t[i]
  <2>1. \A i \in 1 .. Len(s) : s[i] \in S /\ t[i] \in S /\ 1 + i - 1 = i
    BY <1>1, <1>2
  <2>2. (IF 1 <= Len(s) THEN Len(s) - 1 + 1 ELSE 0) = Len(s) /\ Len(s) - 1 + 1 = Len(s)
    BY <1>1
  <2>3. 1 \in Int /\ Len(s) \in Int
    BY <1>1
  <2>4. u \in Seq(S) /\ Len(u) = Len(s) /\ \A i \in 1 .. Len(s) : u[i] = s[i]
    BY <2>1, <2>2, <2>3, SubSeqProperties
  <2>5. v \in Seq(S) /\ Len(v) = Len(s) /\ \A i \in 1 .. Len(s) : v[i] = t[i]
    BY <2>1, <2>2, <2>3, SubSeqProperties
  <2> QED BY <2>4, <2>5
<1> HIDE DEF u, v
<1>4. (\A i \in 1 .. Len(s) : s[i] = t[i]) => u = v
  BY <1>3, SeqEqual
<1> QED BY <1>3, <1>4 DEF u, v

LEMMA WithoutLast ==
    ASSUME NEW S, NEW s \in Seq(S), s # <<>>
    PROVE  /\ Front(s) \in Seq(S) /\ Len(Front(s)) = Len(s) - 1 /\ Last(s) \in S
           /\ \A i \in 1 .. Len(s) - 1 : Front(s)[i] = s[i]
<1>1. Len(s) \in Nat /\ Len(s) # 0
  OBVIOUS
<1>2. \A i \in 1 .. Len(s) - 1 : s[i] \in S /\ 1 + i - 1 = i
  <2>1. \A i \in 1 .. Len(s) - 1 : i \in 1 .. Len(s) /\ 1 + i - 1 = i
    BY <1>1
  <2> QED BY <2>1
<1>3. 1 \in Int /\ Len(s) - 1 \in Int /\ Len(s) - 1 - 1 + 1 = Len(s) - 1
      /\ (IF 1 <= Len(s) - 1 THEN Len(s) - 1 - 1 + 1 ELSE 0) = Len(s) - 1
  <2>1. \A n \in Nat : n # 0 =>
          /\ n - 1 \in Int /\ n - 1 - 1 + 1 = n - 1
          /\ (IF 1 <= n - 1 THEN n - 1 - 1 + 1 ELSE 0) = n - 1
    OBVIOUS
  <2>2. 1 \in Int
    OBVIOUS
  <2> QED BY <1>1, <2>1, <2>2, Zenon
<1>4. Last(s) \in S
  BY <1>1 DEF Last
<1> QED BY <1>2, <1>3, <1>4, SubSeqProperties DEF Front

(* A folder is above what is in it, and what is below a path is below what is *)
(* above that path.                                                           *)
LEMMA FolderAbove ==
    ASSUME NEW S, NEW p \in Seq(S), NEW d \in Seq(S), p # <<>>, IsPrefix(p, d)
    PROVE  IsPrefix(Front(p), d)
<1>1. /\ Front(p) \in Seq(S) /\ Len(Front(p)) = Len(p) - 1
      /\ \A i \in 1 .. Len(p) - 1 : Front(p)[i] = p[i]
  BY WithoutLast
<1>2. Len(p) <= Len(d) /\ \A i \in 1 .. Len(p) : p[i] = d[i]
  BY BeginsWith
<1>3. Len(p) \in Nat /\ Len(d) \in Nat
  OBVIOUS
<1>4. Len(Front(p)) <= Len(d) /\ \A i \in 1 .. Len(Front(p)) : Front(p)[i] = d[i]
  BY <1>1, <1>2, <1>3
<1> QED BY <1>1, <1>4, BeginsWith

LEMMA BelowFolder ==
    ASSUME NEW S, NEW q \in Seq(S), NEW p \in Seq(S), p # <<>>
    PROVE  /\ IsPrefix(q, Front(p)) => IsPrefix(q, p)
           /\ IsPrefix(q, p) /\ q # p => IsPrefix(q, Front(p)) /\ Len(q) < Len(p)
<1>1. /\ Front(p) \in Seq(S) /\ Len(Front(p)) = Len(p) - 1
      /\ \A i \in 1 .. Len(p) - 1 : Front(p)[i] = p[i]
  BY WithoutLast
<1>2. Len(p) \in Nat /\ Len(q) \in Nat
  OBVIOUS
<1>3. /\ IsPrefix(q, p) <=> Len(q) <= Len(p) /\ \A i \in 1 .. Len(q) : q[i] = p[i]
      /\ IsPrefix(q, Front(p)) <=>
            Len(q) <= Len(p) - 1 /\ \A i \in 1 .. Len(q) : q[i] = Front(p)[i]
  BY <1>1, BeginsWith
<1>4. Len(q) <= Len(p) - 1 => \A i \in 1 .. Len(q) : Front(p)[i] = p[i]
  BY <1>1, <1>2
<1>5. IsPrefix(q, Front(p)) => IsPrefix(q, p)
  BY <1>2, <1>3, <1>4
<1>6. IsPrefix(q, p) /\ q # p => Len(q) <= Len(p) - 1
  <2>1. IsPrefix(q, p) /\ Len(q) = Len(p) => q = p
    BY <1>3, SeqEqual
  <2> QED BY <1>2, <1>3, <2>1
<1> QED BY <1>2, <1>3, <1>4, <1>5, <1>6

LEMMA BelowItself == ASSUME NEW S, NEW p \in Seq(S) PROVE IsPrefix(p, p)
BY BeginsWith

(* What is below a path that is moved hangs below where it is moved to.       *)
LEMMA Rehung ==
    ASSUME NEW from \in Seq(STRING), NEW to \in Seq(STRING), NEW p \in Seq(STRING), p # <<>>,
           IsPrefix(from, p), p # from
    PROVE  Front(to \o SubSeq(p, Len(from) + 1, Len(p)))
             = to \o SubSeq(Front(p), Len(from) + 1, Len(Front(p)))
<1> DEFINE S == STRING
           Rest(x) == to \o SubSeq(x, Len(from) + 1, Len(x))
           n == Len(from)
           u == SubSeq(p, n + 1, Len(p))
<1>1. n \in Nat /\ Len(p) \in Nat \ {0} /\ Len(to) \in Nat
  OBVIOUS
<1>2. Front(Rest(p)) = Rest(Front(p))
  <2> DEFINE q == Front(p)
             v == SubSeq(q, n + 1, Len(q))
  <2>1. q \in Seq(S) /\ Len(q) = Len(p) - 1 /\ \A i \in 1 .. Len(p) - 1 : q[i] = p[i]
    BY WithoutLast
  <2>2. n < Len(p)
    BY BelowFolder
  <2>3. u \in Seq(S) /\ Len(u) = Len(p) - n /\ \A i \in 1 .. Len(p) - n : u[i] = p[n + i]
    <3>1. \A i \in n + 1 .. Len(p) : p[i] \in S
      BY <1>1
    <3>2. n + 1 \in Int /\ Len(p) \in Int /\ Len(p) - (n + 1) + 1 = Len(p) - n
          /\ (IF n + 1 <= Len(p) THEN Len(p) - (n + 1) + 1 ELSE 0) = Len(p) - n
      BY <1>1, <2>2
    <3>3. \A i \in 1 .. Len(p) - n : n + 1 + i - 1 = n + i
      BY <1>1
    <3> QED BY <3>1, <3>2, <3>3, SubSeqProperties
  <2>4. v \in Seq(S) /\ Len(v) = Len(p) - 1 - n /\ \A i \in 1 .. Len(p) - 1 - n : v[i] = p[n + i]
    <3>1. \A i \in n + 1 .. Len(q) : q[i] \in S
      BY <1>1, <2>1
    <3>2. n + 1 \in Int /\ Len(q) \in Int /\ Len(q) - (n + 1) + 1 = Len(p) - 1 - n
          /\ (IF n + 1 <= Len(q) THEN Len(q) - (n + 1) + 1 ELSE 0) = Len(p) - 1 - n
      BY <1>1, <2>1, <2>2
    <3>3. v \in Seq(S) /\ Len(v) = Len(p) - 1 - n /\ \A i \in 1 .. Len(p) - 1 - n : v[i] = q[n + 1 + i - 1]
      BY <3>1, <3>2, SubSeqProperties
    <3>4. \A i \in 1 .. Len(p) - 1 - n : n + 1 + i - 1 = n + i /\ q[n + i] = p[n + i]
      BY <1>1, <2>1
    <3> QED BY <3>3, <3>4
  <2> HIDE DEF u, v, q
  <2> DEFINE a == to \o u
             b == to \o v
  <2>5. /\ a \in Seq(S) /\ Len(a) = Len(to) + (Len(p) - n)
        /\ \A i \in 1 .. Len(to) + (Len(p) - n) : a[i] = IF i <= Len(to) THEN to[i] ELSE u[i - Len(to)]
    <3>1. /\ a \in Seq(S) /\ Len(a) = Len(to) + Len(u)
          /\ \A i \in 1 .. Len(to) + Len(u) : a[i] = IF i <= Len(to) THEN to[i] ELSE u[i - Len(to)]
      BY <2>3, ConcatProperties
    <3> QED BY <2>3, <3>1
  <2>6. /\ b \in Seq(S) /\ Len(b) = Len(to) + (Len(p) - 1 - n)
        /\ \A i \in 1 .. Len(to) + (Len(p) - 1 - n) : b[i] = IF i <= Len(to) THEN to[i] ELSE v[i - Len(to)]
    <3>1. /\ b \in Seq(S) /\ Len(b) = Len(to) + Len(v)
          /\ \A i \in 1 .. Len(to) + Len(v) : b[i] = IF i <= Len(to) THEN to[i] ELSE v[i - Len(to)]
      BY <2>4, ConcatProperties
    <3> QED BY <2>4, <3>1
  <2> HIDE DEF a, b
  <2>7. a # <<>>
    BY <1>1, <2>2, <2>5
  <2>8. /\ Front(a) \in Seq(S) /\ Len(Front(a)) = Len(a) - 1
        /\ \A i \in 1 .. Len(a) - 1 : Front(a)[i] = a[i]
    BY <2>5, <2>7, WithoutLast
  <2>9. Len(Front(a)) = Len(b)
    BY <1>1, <2>5, <2>6, <2>8
  <2>10. ASSUME NEW i \in 1 .. Len(b) PROVE Front(a)[i] = b[i]
    <3>1. Front(a)[i] = a[i] /\ i \in 1 .. Len(to) + (Len(p) - n)
      BY <1>1, <2>5, <2>6, <2>8
    <3>2. CASE i <= Len(to)
      BY <2>5, <2>6, <3>1, <3>2
    <3>3. CASE ~(i <= Len(to))
      <4>1. i - Len(to) \in 1 .. Len(p) - 1 - n /\ i - Len(to) \in 1 .. Len(p) - n
        BY <1>1, <2>6, <3>3
      <4>2. u[i - Len(to)] = v[i - Len(to)]
        BY <2>3, <2>4, <4>1
      <4> QED BY <2>5, <2>6, <3>1, <3>3, <4>2
    <3> QED BY <3>2, <3>3
  <2>11. Front(a) = b
    BY <2>6, <2>8, <2>9, <2>10, SeqEqual
  <2> QED BY <2>7, <2>11 DEF a, b, u, v, q
<1> QED BY <1>2

-------------------------------------------------------------------------------
(* The volume                                                                 *)

LEMMA PathsAre ==
    /\ Entries \subseteq Seq(STRING) /\ Folders \subseteq Seq(STRING) /\ <<>> \in Folders
    /\ Folders \subseteq Entries \cup {<<>>} /\ Files \subseteq Entries /\ Entries \ Files \subseteq Folders
    /\ \A p \in Entries : p # <<>> /\ Front(p) \in Folders
<1>1. <<>> \in Seq(STRING)
  OBVIOUS
<1>2. Folders \subseteq Entries \cup {<<>>} /\ <<>> \in Folders
  BY DEF Folders
<1>3. Entries \ Files \subseteq Folders /\ Files \subseteq Entries
  BY DEF Folders, Files
<1> QED BY <1>1, <1>2, <1>3, EntriesOfFolders

(* A set of entries with the folder of each.                                  *)
LEMMA VolumeHas ==
    ASSUME NEW V \in Volumes
    PROVE  /\ V \subseteq Entries
           /\ \A p \in V : p \in Seq(STRING) /\ p # <<>> /\ (Front(p) = <<>> \/ Front(p) \in V)
BY PathsAre DEF Volumes

(* os.MkdirAll leaves a volume that has the folder.                           *)
LEMMA FolderMade ==
    ASSUME NEW V \in Volumes, NEW d \in Folders
    PROVE  MkdirAll(V, d) \in Volumes /\ V \subseteq MkdirAll(V, d) /\ (d = <<>> \/ d \in MkdirAll(V, d))
<1> DEFINE W == MkdirAll(V, d)
<1>1. W = V \cup {p \in Folders \ {<<>>} : IsPrefix(p, d)}
  BY DEF MkdirAll
<1>2. d \in Seq(STRING)
  BY PathsAre
<1>3. W \subseteq Entries
  BY <1>1, VolumeHas, PathsAre
<1>4. ASSUME NEW p \in W PROVE Front(p) = <<>> \/ Front(p) \in W
  <2>1. CASE p \in V
    BY <1>1, <2>1, VolumeHas
  <2>2. CASE p \in Folders \ {<<>>} /\ IsPrefix(p, d)
    <3>1. p \in Seq(STRING) /\ p # <<>> /\ Front(p) \in Folders
      BY <1>3, <2>2, PathsAre
    <3>2. IsPrefix(Front(p), d)
      BY <1>2, <2>2, <3>1, FolderAbove
    <3> QED BY <1>1, <3>1, <3>2
  <2> QED BY <1>1, <2>1, <2>2
<1>5. d = <<>> \/ d \in W
  BY <1>1, <1>2, BelowItself
<1> QED BY <1>1, <1>3, <1>4, <1>5 DEF Volumes

(* An entry is put into a folder that is made for it.                         *)
LEMMA EntryPut ==
    ASSUME NEW V \in Volumes, NEW p \in Entries
    PROVE  MkdirAll(V, Front(p)) \cup {p} \in Volumes /\ MkdirAll(V, Front(p)) \in Volumes
<1> DEFINE W == MkdirAll(V, Front(p))
<1>1. Front(p) \in Folders
  BY PathsAre
<1>2. W \in Volumes /\ (Front(p) = <<>> \/ Front(p) \in W)
  BY <1>1, FolderMade
<1> HIDE DEF W
<1>3. W \cup {p} \subseteq Entries
  BY <1>2, VolumeHas
<1>4. \A q \in W \cup {p} : Front(q) = <<>> \/ Front(q) \in W \cup {p}
  BY <1>2, VolumeHas
<1> QED BY <1>2, <1>3, <1>4 DEF Volumes, W

(* What is taken out goes with all that is below it.                          *)
LEMMA TakenOut ==
    ASSUME NEW V \in Volumes, NEW p \in Seq(STRING)
    PROVE  V \ Below(V, p) \in Volumes
<1>1. ASSUME NEW q \in V \ Below(V, p), Front(q) # <<>> PROVE Front(q) \in V \ Below(V, p)
  <2>1. q \in Seq(STRING) /\ q # <<>> /\ Front(q) \in V /\ ~IsPrefix(p, q)
    BY <1>1, VolumeHas DEF Below
  <2>2. ~IsPrefix(p, Front(q))
    BY <2>1, BelowFolder
  <2> QED BY <2>1, <2>2 DEF Below
<1>2. V \ Below(V, p) \subseteq Entries
  BY VolumeHas
<1> QED BY <1>1, <1>2 DEF Volumes

(* A path that is renamed takes what is below it along.                       *)
LEMMA RenamedVolume ==
    ASSUME NEW V \in Volumes, NEW from \in V, NEW to \in Seq(STRING), to # <<>>,
           ~IsPrefix(from, to), Front(to) = <<>> \/ Front(to) \in V,
           Renamed(V, from, to) \subseteq Entries
    PROVE  Renamed(V, from, to) \in Volumes
<1> DEFINE Rest(x) == to \o SubSeq(x, Len(from) + 1, Len(x))
           W == Renamed(V, from, to)
<1>1. W = (V \ Below(V, from)) \cup {Rest(p) : p \in Below(V, from)}
  BY DEF Renamed
<1>2. from \in Seq(STRING) /\ from # <<>>
  BY VolumeHas
<1>3. ASSUME NEW q \in V \ Below(V, from) PROVE Front(q) = <<>> \/ Front(q) \in W
  <2>1. V \ Below(V, from) \in Volumes
    BY <1>2, TakenOut
  <2> QED BY <1>1, <2>1, VolumeHas
<1>4. ASSUME NEW p \in Below(V, from) PROVE Front(Rest(p)) = <<>> \/ Front(Rest(p)) \in W
  <2>1. p \in Seq(STRING) /\ p # <<>> /\ IsPrefix(from, p) /\ p \in V
    BY VolumeHas DEF Below
  <2>2. /\ p = from => Rest(p) = to
        /\ p # from => Front(Rest(p)) = Rest(Front(p))
    <3>1. ASSUME p = from PROVE to \o SubSeq(p, Len(from) + 1, Len(p)) = to
      <4>1. Len(from) \in Nat /\ Len(from) + 1 \in Int /\ Len(p) \in Int /\ Len(p) < Len(from) + 1
        BY <1>2, <3>1
      <4>2. SubSeq(p, Len(from) + 1, Len(p)) = <<>>
        BY <4>1, SubSeqEmpty
      <4> QED BY <4>2, ConcatEmptySeq
    <3>2. ASSUME p # from
          PROVE  Front(to \o SubSeq(p, Len(from) + 1, Len(p)))
                   = to \o SubSeq(Front(p), Len(from) + 1, Len(Front(p)))
      BY <1>2, <2>1, <3>2, Rehung
    <3> QED BY <3>1, <3>2
  <2>3. CASE p = from
    <3>1. ~IsPrefix(from, Front(to))
      BY <1>2, BelowFolder
    <3>2. Rest(p) = to
      BY <2>2, <2>3
    <3>3. Front(to) = <<>> \/ Front(to) \in V \ Below(V, from)
      BY <3>1 DEF Below
    <3> HIDE DEF Rest, W
    <3> QED BY <1>1, <3>2, <3>3
  <2>4. CASE p # from
    <3>1. IsPrefix(from, Front(p)) /\ Len(from) < Len(p)
      BY <1>2, <2>1, <2>4, BelowFolder
    <3>2. Front(p) # <<>>
      <4>1. Front(p) \in Seq(STRING) /\ Len(from) <= Len(Front(p))
        BY <3>1, <2>1, WithoutLast DEF IsPrefix
      <4>2. Len(from) \in Nat /\ Len(from) # 0
        BY <1>2
      <4> QED BY <4>1, <4>2
    <3>3. Front(p) \in Below(V, from)
      BY <2>1, <3>1, <3>2, VolumeHas DEF Below
    <3>4. Front(Rest(p)) = Rest(Front(p))
      BY <2>2, <2>4
    <3> HIDE DEF Rest, W
    <3> QED BY <1>1, <3>3, <3>4
  <2> QED BY <2>3, <2>4
<1>5. \A q \in W : Front(q) = <<>> \/ Front(q) \in W
  <2> HIDE DEF Rest, W
  <2> QED BY <1>1, <1>3, <1>4
<1> QED BY <1>5 DEF Volumes

(* A file has nothing below it.                                               *)
LEMMA FileRemoved == ASSUME NEW V \in Volumes, NEW f \in Files PROVE V \ {f} \in Volumes
<1>1. f # <<>> /\ f \notin Folders
  BY PathsAre DEF Files, Folders
<1>2. \A q \in V : Front(q) # f
  BY <1>1, VolumeHas, PathsAre
<1> QED BY <1>2, VolumeHas DEF Volumes

-------------------------------------------------------------------------------
(* The page                                                                   *)

Targets == {t \in Seq(STRING) : t # <<>> /\ Front(t) \in Folders}

FileOrders ==
    {o \in [op : {"list", "listHere", "view", "create", "upload", "delete", "move", "moveHere"},
            path : Entries \cup Folders, to : Targets \cup {Nothing}, at : Folders \cup {Nothing},
            got : (SUBSET Entries) \cup Files \cup {Nothing, Failure, "done"}] :
        /\ o.op \in {"list", "listHere"} =>
             o.at = Nothing /\ o.path \in Folders /\ o.got \in (SUBSET Entries) \cup {Nothing}
        /\ o.op = "view" =>
             o.at = Nothing /\ o.path \in Files /\ o.got \in Files \cup {Nothing, Failure}
        /\ o.op \in {"create", "upload", "delete", "move", "moveHere"} =>
             o.at \in Folders /\ o.path \in Entries
        /\ o.op \in {"move", "moveHere"} => o.to \in Targets}

Browses == [path : Folders, got : (SUBSET Entries) \cup {Nothing}]

Previews ==
    [kind : {"preview"}, file : Files, content : Files \cup {Nothing, Failure}, loading : BOOLEAN]

MoveDialogs ==
    [kind : {"move"}, entry : Entries, browse : Folders, folders : SUBSET Folders, asked : Seq(Browses)]

Modals == {NoModal} \cup Previews \cup MoveDialogs

Browsers ==
    [cur : Folders, items : SUBSET Entries, modal : Modals, clean : BOOLEAN, flight : Seq(FileOrders)]

FilesOK == volume \in Volumes /\ browser \in Browsers

LEMMA ModalKinds ==
    ASSUME NEW m \in Modals
    PROVE  /\ m.kind = "preview" => m \in Previews
           /\ m.kind = "move" => m \in MoveDialogs
           /\ DialogShut(m) \in Modals
BY DEF Modals, NoModal, Previews, MoveDialogs, DialogShut

LEMMA ListOrder ==
    ASSUME NEW op \in {"list", "listHere"}, NEW d \in Folders
    PROVE  Order(op, d, Nothing, Nothing) \in FileOrders
BY DEF Order, FileOrders

LEMMA ChangeOrder ==
    ASSUME NEW op \in {"create", "upload", "delete"}, NEW p \in Entries, NEW d \in Folders
    PROVE  Order(op, p, Nothing, d) \in FileOrders
BY DEF Order, FileOrders

LEMMA MoveOrderOK ==
    ASSUME FilesOK, NEW op \in {"move", "moveHere"}, NEW e \in Entries, NEW dest \in Folders
    PROVE  MoveOrder(op, e, dest) \in FileOrders /\ MoveOrder(op, e, dest).at = browser.cur
<1> DEFINE to == Append(dest, Last(e))
<1>1. e \in Seq(STRING) /\ e # <<>> /\ dest \in Seq(STRING) /\ browser.cur \in Folders
  BY PathsAre DEF FilesOK, Browsers
<1>2. Last(e) \in STRING
  BY <1>1, WithoutLast
<1>3. to \in Seq(STRING) /\ Len(to) = Len(dest) + 1 /\ \A i \in 1 .. Len(dest) : to[i] = dest[i]
  BY <1>1, <1>2, AppendProperties
<1> HIDE DEF to
<1>4. to # <<>> /\ Len(dest) \in Nat
  BY <1>1, <1>3
<1>5. Front(to) \in Seq(STRING) /\ Len(Front(to)) = Len(to) - 1
      /\ \A i \in 1 .. Len(to) - 1 : Front(to)[i] = to[i]
  BY <1>3, <1>4, WithoutLast
<1>6. Len(Front(to)) = Len(dest) /\ \A i \in 1 .. Len(dest) : Front(to)[i] = dest[i]
  BY <1>3, <1>4, <1>5
<1>7. Front(to) = dest
  BY <1>1, <1>5, <1>6, SeqEqual
<1>8. to \in Targets
  BY <1>3, <1>4, <1>7 DEF Targets
<1> QED BY <1>1, <1>8 DEF MoveOrder, Order, FileOrders, to

-------------------------------------------------------------------------------
(* The rows                                                                   *)

Lists(o) == o.op \in {"list", "listHere"}

(* No change is under way.                                                    *)
NoChange(p) == \A i \in DOMAIN p.flight : p.flight[i].at = Nothing

(* The last list asked for is of the folder shown and of what it holds; when  *)
(* none is, the rows are.                                                     *)
Listed(p, V) ==
    /\ \A i \in DOMAIN p.flight :
          Lists(p.flight[i]) /\ (\A j \in DOMAIN p.flight : i < j => ~Lists(p.flight[j])) =>
             p.flight[i].path = p.cur /\ p.flight[i].got \in {Nothing, Children(V, p.cur)}
    /\ (\A i \in DOMAIN p.flight : ~Lists(p.flight[i])) => p.items = Children(V, p.cur)

(* The changes under way were made in the folder shown, which is loaded when  *)
(* they are done; before, nothing is claimed of the rows.                     *)
FolderOK(p, V) ==
    p.clean => /\ \A i \in DOMAIN p.flight : p.flight[i].at \in {Nothing, p.cur}
               /\ NoChange(p) => Listed(p, V)

LEMMA OneMore ==
    ASSUME NEW p \in Browsers, NEW o \in FileOrders
    PROVE  LET q == [p EXCEPT !.flight = Append(@, o)] IN
           /\ q \in Browsers /\ q.cur = p.cur /\ q.items = p.items /\ q.clean = p.clean /\ q.modal = p.modal
           /\ Len(p.flight) \in Nat /\ DOMAIN p.flight = 1 .. Len(p.flight)
           /\ DOMAIN q.flight = 1 .. Len(p.flight) + 1 /\ q.flight[Len(p.flight) + 1] = o
           /\ \A i \in 1 .. Len(p.flight) : q.flight[i] = p.flight[i]
<1> DEFINE f == Append(p.flight, o)
           q == [p EXCEPT !.flight = f]
<1>1. p.flight \in Seq(FileOrders)
  BY DEF Browsers
<1>2. /\ f \in Seq(FileOrders) /\ Len(f) = Len(p.flight) + 1 /\ f[Len(p.flight) + 1] = o
      /\ \A i \in 1 .. Len(p.flight) : f[i] = p.flight[i]
  BY <1>1, AppendProperties
<1> HIDE DEF f
<1>3. /\ q \in Browsers /\ q.cur = p.cur /\ q.items = p.items /\ q.clean = p.clean /\ q.modal = p.modal
      /\ q.flight = f
  BY <1>2 DEF Browsers
<1>4. DOMAIN f = 1 .. Len(p.flight) + 1 /\ DOMAIN p.flight = 1 .. Len(p.flight) /\ Len(p.flight) \in Nat
  BY <1>1, <1>2
<1> QED BY <1>2, <1>3, <1>4 DEF f

(* A list of the folder shown is asked for.                                   *)
LEMMA ListAsked ==
    ASSUME NEW p \in Browsers, NEW V, NEW o \in FileOrders, Lists(o), o.path = p.cur, o.got = Nothing,
           p.clean => \A i \in DOMAIN p.flight : p.flight[i].at \in {Nothing, p.cur}
    PROVE  [p EXCEPT !.flight = Append(@, o)] \in Browsers /\ FolderOK([p EXCEPT !.flight = Append(@, o)], V)
<1> DEFINE q == [p EXCEPT !.flight = Append(@, o)]
           n == Len(p.flight)
<1>1. /\ q \in Browsers /\ q.cur = p.cur /\ q.items = p.items /\ q.clean = p.clean /\ q.modal = p.modal
      /\ n \in Nat /\ DOMAIN p.flight = 1 .. n
      /\ DOMAIN q.flight = 1 .. n + 1 /\ q.flight[n + 1] = o
      /\ \A i \in 1 .. n : q.flight[i] = p.flight[i]
  BY OneMore
<1> HIDE DEF q, n
<1>2. o.at = Nothing
  BY DEF FileOrders, Lists
<1>3. ASSUME p.clean, NEW i \in DOMAIN q.flight PROVE q.flight[i].at \in {Nothing, p.cur}
  <2>1. i = n + 1 \/ i \in 1 .. n
    BY <1>1
  <2> QED BY <1>1, <1>2, <1>3, <2>1
<1>4. Listed(q, V)
  <2>1. n + 1 \in DOMAIN q.flight /\ Lists(q.flight[n + 1])
    BY <1>1
  <2>2. ASSUME NEW i \in DOMAIN q.flight, \A j \in DOMAIN q.flight : i < j => ~Lists(q.flight[j])
        PROVE  i = n + 1
    BY <1>1, <2>1, <2>2
  <2> QED BY <1>1, <2>1, <2>2 DEF Listed
<1> QED BY <1>1, <1>3, <1>4 DEF FolderOK, q

(* A change in the folder shown, or a preview, is asked for.                  *)
LEMMA OrderAsked ==
    ASSUME NEW p \in Browsers, NEW V, FolderOK(p, V), NEW o \in FileOrders,
           o.op = "view" \/ (o.at = p.cur /\ o.op # "list" /\ o.op # "listHere")
    PROVE  [p EXCEPT !.flight = Append(@, o)] \in Browsers /\ FolderOK([p EXCEPT !.flight = Append(@, o)], V)
<1> DEFINE q == [p EXCEPT !.flight = Append(@, o)]
           n == Len(p.flight)
<1>1. /\ q \in Browsers /\ q.cur = p.cur /\ q.items = p.items /\ q.clean = p.clean /\ q.modal = p.modal
      /\ n \in Nat /\ DOMAIN p.flight = 1 .. n
      /\ DOMAIN q.flight = 1 .. n + 1 /\ q.flight[n + 1] = o
      /\ \A i \in 1 .. n : q.flight[i] = p.flight[i]
  BY OneMore
<1> HIDE DEF q, n
<1>2. o.op = "view" => o.at = Nothing
  BY DEF FileOrders
<1>3. ASSUME p.clean, NEW i \in DOMAIN q.flight PROVE q.flight[i].at \in {Nothing, p.cur}
  <2>1. i = n + 1 \/ i \in 1 .. n
    BY <1>1
  <2> QED BY <1>1, <1>2, <1>3, <2>1 DEF FolderOK
<1>4. \A i \in DOMAIN q.flight : i \in 1 .. n \/ i = n + 1
  BY <1>1
<1>5. ASSUME p.clean, NoChange(q) PROVE Listed(q, V)
  <2>1. n + 1 \in DOMAIN q.flight /\ \A i \in 1 .. n : i \in DOMAIN q.flight
    BY <1>1
  <2>2. o.at = Nothing /\ NoChange(p)
    BY <1>1, <1>5, <2>1 DEF NoChange
  <2>3. Listed(p, V)
    BY <1>5, <2>2 DEF FolderOK
  <2>4. p.cur # Nothing
    BY EntriesOfFolders DEF Browsers
  <2>5. ~Lists(q.flight[n + 1])
    BY <1>1, <2>2, <2>4 DEF Lists
  <2>6. \A i \in 1 .. n : Lists(q.flight[i]) <=> Lists(p.flight[i])
    BY <1>1
  <2> QED BY <1>1, <1>4, <2>1, <2>3, <2>5, <2>6 DEF Listed
<1> QED BY <1>1, <1>3, <1>5 DEF FolderOK, q

(* Nothing but the dialog or the preview is touched.                          *)
LEMMA ModalOnly ==
    ASSUME NEW p \in Browsers, NEW V, FolderOK(p, V), NEW m \in Modals
    PROVE  [p EXCEPT !.modal = m] \in Browsers /\ FolderOK([p EXCEPT !.modal = m], V)
<1> DEFINE q == [p EXCEPT !.modal = m]
<1>1. /\ q \in Browsers /\ q.cur = p.cur /\ q.items = p.items /\ q.clean = p.clean /\ q.flight = p.flight
  BY DEF Browsers
<1> HIDE DEF q
<1>2. NoChange(q) => NoChange(p)
  BY <1>1 DEF NoChange
<1>3. Listed(p, V) => Listed(q, V)
  BY <1>1 DEF Listed
<1> QED BY <1>1, <1>2, <1>3 DEF FolderOK, q

FilesInv == FilesOK /\ FolderOK(browser, volume)

LEMMA FilesAtFirst == FilesInit => FilesInv
<1> SUFFICES ASSUME FilesInit PROVE FilesInv
  OBVIOUS
<1> DEFINE o == List(<<>>)
<1>1. o \in FileOrders /\ Lists(o) /\ o.path = <<>> /\ o.got = Nothing /\ o.at = Nothing
  BY ListOrder, PathsAre DEF List, Order, Lists
<1>2. browser = [cur |-> <<>>, items |-> {}, modal |-> NoModal, clean |-> TRUE, flight |-> <<o>>]
  BY DEF FilesInit
<1> HIDE DEF o
<1>3. <<o>> \in Seq(FileOrders) /\ DOMAIN <<o>> = {1} /\ <<o>>[1] = o
  BY <1>1
<1>4. browser \in Browsers
  BY <1>2, <1>3, PathsAre DEF Browsers, Modals
<1>5. browser.cur = <<>> /\ browser.flight = <<o>>
  BY <1>2
<1>6. FolderOK(browser, volume)
  BY <1>1, <1>3, <1>5 DEF FolderOK, Listed
<1> QED BY <1>4, <1>6 DEF FilesInit, FilesInv, FilesOK

(* What is known of the page before a step.                                   *)
LEMMA FilesKnown ==
    ASSUME FilesInv
    PROVE  /\ browser \in Browsers /\ volume \in Volumes /\ FolderOK(browser, volume)
           /\ browser.cur \in Folders /\ browser.items \subseteq Entries /\ browser.modal \in Modals
           /\ browser.clean \in BOOLEAN /\ browser.flight \in Seq(FileOrders)
           /\ \A p \in browser.items : ~IsFile(p) => p \in Folders
           /\ \A p \in browser.items \ Files : p \in Folders
<1>1. browser \in Browsers /\ browser.items \subseteq Entries
  BY DEF FilesInv, FilesOK, Browsers
<1> QED BY <1>1, PathsAre DEF FilesInv, FilesOK, Browsers, Files

(* The folder opened is listed anew.                                          *)
LEMMA Navigates == ASSUME FilesInv, navigate PROVE FilesInv'
<1>1. PICK dir \in Folders :
        browser' = [browser EXCEPT !.cur = dir, !.clean = @ /\ ~ChangeUnderWay,
                      !.flight = IF dir = browser.cur THEN @ ELSE Append(@, List(dir))]
  BY FilesKnown DEF navigate
<1>2. UNCHANGED volume
  BY DEF navigate
<1>3. PICK clean \in BOOLEAN : clean = (browser.clean /\ ~ChangeUnderWay)
  BY FilesKnown DEF ChangeUnderWay
<1> DEFINE p == [browser EXCEPT !.cur = dir, !.clean = clean]
<1>4. /\ p \in Browsers /\ p.cur = dir /\ p.clean = clean /\ p.flight = browser.flight
      /\ p.items = browser.items
  BY <1>1, FilesKnown DEF Browsers
<1>5. browser' = [p EXCEPT !.flight = IF dir = browser.cur THEN @ ELSE Append(@, List(dir))]
  BY <1>1, <1>3
<1> HIDE DEF p
<1>6. p.clean => browser.clean /\ \A i \in DOMAIN p.flight : p.flight[i].at = Nothing
  BY <1>3, <1>4 DEF ChangeUnderWay
<1>7. CASE dir = browser.cur
  <2>1. browser' = p
    BY <1>4, <1>5, <1>7 DEF Browsers
  <2>2. Listed(browser, volume) => Listed(p, volume)
    BY <1>4, <1>7 DEF Listed
  <2>3. NoChange(p) => NoChange(browser)
    BY <1>4 DEF NoChange
  <2>4. FolderOK(p, volume)
    BY <1>6, <2>2, <2>3, FilesKnown DEF FolderOK
  <2> QED BY <1>2, <1>4, <2>1, <2>4, FilesKnown DEF FilesInv, FilesOK
<1>8. CASE dir # browser.cur
  <2> DEFINE o == List(dir)
  <2>1. o \in FileOrders /\ Lists(o) /\ o.path = dir /\ o.got = Nothing
    BY <1>1, ListOrder DEF List, Order, Lists
  <2> HIDE DEF o
  <2>2. browser' = [p EXCEPT !.flight = Append(@, o)]
    BY <1>5, <1>8 DEF o
  <2>3. browser' \in Browsers /\ FolderOK(browser', volume)
    BY <1>4, <1>6, <2>1, <2>2, ListAsked
  <2> QED BY <1>2, <2>3, FilesKnown DEF FilesInv, FilesOK
<1> QED BY <1>7, <1>8

(* The other orders of the page.                                              *)
LEMMA OrdersKeep ==
    ASSUME FilesInv, UNCHANGED volume, NEW o \in FileOrders, Ordered(o),
           o.op = "view" \/ (o.at = browser.cur /\ o.op # "list" /\ o.op # "listHere")
    PROVE  FilesInv'
<1>1. browser' \in Browsers /\ FolderOK(browser', volume)
  BY OrderAsked, FilesKnown DEF Ordered
<1> QED BY <1>1, FilesKnown DEF FilesInv, FilesOK

LEMMA ModalsKeep ==
    ASSUME FilesInv, UNCHANGED volume, NEW m \in Modals, browser' = [browser EXCEPT !.modal = m]
    PROVE  FilesInv'
<1>1. browser' \in Browsers /\ FolderOK(browser', volume)
  BY ModalOnly, FilesKnown
<1> QED BY <1>1, FilesKnown DEF FilesInv, FilesOK

LEMMA PageKeeps == ASSUME FilesInv, SFTPServer PROVE FilesInv'
<1>1. CASE navigate
  BY <1>1, Navigates
<1>2. CASE RefreshFolder
  <2> DEFINE o == List(browser.cur)
  <2>1. o \in FileOrders /\ Lists(o) /\ o.path = browser.cur /\ o.got = Nothing
    BY FilesKnown, ListOrder DEF List, Order, Lists
  <2>2. browser' = [browser EXCEPT !.flight = Append(@, o)] /\ UNCHANGED volume
    BY <1>2 DEF RefreshFolder, Ordered
  <2> HIDE DEF o
  <2>3. browser.clean => \A i \in DOMAIN browser.flight : browser.flight[i].at \in {Nothing, browser.cur}
    BY FilesKnown DEF FolderOK
  <2>4. browser' \in Browsers /\ FolderOK(browser', volume)
    BY <2>1, <2>2, <2>3, FilesKnown, ListAsked
  <2> QED BY <2>2, <2>4, FilesKnown DEF FilesInv, FilesOK
<1>3. CASE Create \/ Upload \/ deleteEntry
  <2>1. PICK op \in {"create", "upload", "delete"}, p \in Entries :
          Ordered(Order(op, p, Nothing, browser.cur))
    <3>1. CASE Create
      <4>1. PICK p \in Children(Entries, browser.cur) : Ordered(Order("create", p, Nothing, browser.cur))
        BY <3>1 DEF Create
      <4> QED BY <4>1 DEF Children
    <3>2. CASE Upload
      <4>1. PICK dir \in {browser.cur} \cup (browser.items \ Files) :
              \E p \in Children(Files, dir) : Ordered(Order("upload", p, Nothing, browser.cur))
        BY <3>2 DEF Upload
      <4> QED BY <4>1, PathsAre DEF Children
    <3>3. CASE deleteEntry
      <4>1. PICK e \in browser.items : Ordered(Order("delete", e, Nothing, browser.cur))
        BY <3>3 DEF deleteEntry
      <4> QED BY <4>1, FilesKnown
    <3> QED BY <1>3, <3>1, <3>2, <3>3
  <2> DEFINE o == Order(op, p, Nothing, browser.cur)
  <2>2. o \in FileOrders /\ o.at = browser.cur /\ o.op # "list" /\ o.op # "listHere"
    BY FilesKnown, ChangeOrder DEF Order
  <2>3. UNCHANGED volume
    BY <1>3 DEF Create, Upload, deleteEntry
  <2> HIDE DEF o
  <2> QED BY <2>1, <2>2, <2>3, OrdersKeep DEF o
<1>4. CASE DropEntry \/ MoveHere
  <2>1. PICK op \in {"move", "moveHere"}, e \in Entries, dest \in Folders : Ordered(MoveOrder(op, e, dest))
    <3>1. CASE DropEntry
      <4>1. PICK e \in browser.items,
                 dest \in {p \in browser.items : ~IsFile(p)} \cup {p \in Folders : IsStrictPrefix(p, browser.cur)} :
              Ordered(MoveOrder("move", e, dest))
        BY <3>1 DEF DropEntry
      <4> QED BY <4>1, FilesKnown
    <3>2. CASE MoveHere
      <4>1. browser.modal \in MoveDialogs
        BY <3>2, FilesKnown, ModalKinds DEF MoveHere
      <4> QED BY <3>2, <4>1 DEF MoveHere, MoveDialogs
    <3> QED BY <1>4, <3>1, <3>2
  <2> DEFINE o == MoveOrder(op, e, dest)
  <2>2. o \in FileOrders /\ o.at = browser.cur /\ o.op # "list" /\ o.op # "listHere"
    <3>1. o \in FileOrders /\ o.at = browser.cur
      BY MoveOrderOK DEF FilesInv
    <3> QED BY <3>1 DEF MoveOrder, Order
  <2>3. UNCHANGED volume
    BY <1>4 DEF DropEntry, MoveHere
  <2> HIDE DEF o
  <2> QED BY <2>1, <2>2, <2>3, OrdersKeep DEF o
<1>5. CASE OpenMoveDialog
  <2>1. PICK e \in browser.items : browser' = [browser EXCEPT !.modal = MoveDialog(e)]
    BY <1>5 DEF OpenMoveDialog
  <2>2. Browse(<<>>) \in Browses
    BY PathsAre DEF Browse, Browses
  <2>3. <<Browse(<<>>)>> \in Seq(Browses)
    BY <2>2
  <2>4. MoveDialog(e) \in Modals
    BY <2>1, <2>3, FilesKnown, PathsAre DEF MoveDialog, Modals, MoveDialogs
  <2> QED BY <1>5, <2>1, <2>4, ModalsKeep DEF OpenMoveDialog
<1>6. CASE BrowseFolder
  <2>1. browser.modal \in MoveDialogs
    BY <1>6, FilesKnown, ModalKinds DEF BrowseFolder
  <2>2. PICK dir \in Folders :
          browser' = [browser EXCEPT !.modal.browse = dir,
                        !.modal.asked = IF dir = browser.modal.browse THEN @ ELSE Append(@, Browse(dir))]
    BY <1>6, <2>1 DEF BrowseFolder, MoveDialogs
  <2>3. Browse(dir) \in Browses /\ browser.modal.asked \in Seq(Browses)
    BY <2>1 DEF Browse, Browses, MoveDialogs
  <2>4. Append(browser.modal.asked, Browse(dir)) \in Seq(Browses)
    BY <2>3, AppendProperties
  <2>5. PICK asked \in Seq(Browses) :
          asked = IF dir = browser.modal.browse THEN browser.modal.asked
                  ELSE Append(browser.modal.asked, Browse(dir))
    BY <2>3, <2>4
  <2> DEFINE m == [browser.modal EXCEPT !.browse = dir, !.asked = asked]
  <2>6. m \in Modals
    BY <2>1, <2>5 DEF Modals, MoveDialogs
  <2>7. browser' = [browser EXCEPT !.modal = m]
    BY <2>1, <2>2, <2>5, FilesKnown DEF Browsers, MoveDialogs
  <2> HIDE DEF m
  <2> QED BY <1>6, <2>6, <2>7, ModalsKeep DEF BrowseFolder
<1>7. CASE openPreview
  <2>1. PICK f \in Files :
          browser' = [browser EXCEPT !.modal = Preview(f),
                        !.flight = Append(@, Order("view", f, Nothing, Nothing))]
    BY <1>7 DEF openPreview
  <2> DEFINE o == Order("view", f, Nothing, Nothing)
             p == [browser EXCEPT !.modal = Preview(f)]
  <2>2. o \in FileOrders /\ o.op = "view"
    BY PathsAre DEF Order, FileOrders
  <2>3. Preview(f) \in Modals
    BY DEF Preview, Modals, Previews
  <2>4. p \in Browsers /\ FolderOK(p, volume)
    BY <2>3, FilesKnown, ModalOnly
  <2>5. browser' = [p EXCEPT !.flight = Append(@, o)]
    BY <2>1, FilesKnown DEF Browsers
  <2> HIDE DEF o, p
  <2>6. browser' \in Browsers /\ FolderOK(browser', volume)
    BY <2>2, <2>4, <2>5, OrderAsked
  <2>7. UNCHANGED volume
    BY <1>7 DEF openPreview
  <2> QED BY <2>6, <2>7, FilesKnown DEF FilesInv, FilesOK
<1>8. CASE CloseModal
  <2>1. NoModal \in Modals
    BY DEF Modals
  <2> QED BY <1>8, <2>1, ModalsKeep DEF CloseModal
<1> QED BY <1>1, <1>2, <1>3, <1>4, <1>5, <1>6, <1>7, <1>8 DEF SFTPServer

(* An answer is given; only a change touches the volume, and a list is of     *)
(* what the volume holds.                                                     *)
LEMMA AnswerGiven ==
    ASSUME FilesInv, NEW i \in DOMAIN browser.flight, NEW g, Answered(i, g),
           [browser.flight[i] EXCEPT !.got = g] \in FileOrders, volume' \in Volumes,
           browser.flight[i].at = Nothing =>
              volume' = volume /\ (Lists(browser.flight[i]) => g = Children(volume, browser.flight[i].path))
    PROVE  FilesInv'
<1> DEFINE f == browser.flight
           c == [browser.flight[i] EXCEPT !.got = g]
           h == [browser.flight EXCEPT ![i] = c]
<1>1. f \in Seq(FileOrders) /\ f[i] \in FileOrders /\ c \in FileOrders
  BY FilesKnown
<1>2. c.op = f[i].op /\ c.at = f[i].at /\ c.path = f[i].path /\ c.got = g
  BY <1>1 DEF FileOrders
<1>3. browser' = [browser EXCEPT !.flight = h]
  BY FilesKnown DEF Answered, Browsers
<1> HIDE DEF c
<1>4. /\ h \in Seq(FileOrders) /\ DOMAIN h = DOMAIN f /\ h[i] = c
      /\ \A j \in DOMAIN f : j # i => h[j] = f[j]
  BY <1>1, ExceptSeq
<1> HIDE DEF h
<1>5. browser' \in Browsers /\ browser'.flight = h /\ browser'.cur = browser.cur
      /\ browser'.items = browser.items /\ browser'.clean = browser.clean
  BY <1>3, <1>4, FilesKnown DEF Browsers
<1> HIDE DEF f
<1>6. \A j \in DOMAIN f : h[j].op = f[j].op /\ h[j].at = f[j].at /\ h[j].path = f[j].path
  BY <1>2, <1>4
<1>7. ASSUME browser.clean, NoChange(browser') PROVE Listed(browser', volume')
  <2>1. NoChange(browser) /\ f[i].at = Nothing
    BY <1>4, <1>5, <1>6, <1>7 DEF NoChange, f
  <2>2. Listed(browser, volume) /\ volume' = volume
    BY <1>7, <2>1, FilesKnown DEF FolderOK, f
  <2>3. Lists(f[i]) => g = Children(volume, f[i].path)
    BY <2>1 DEF f
  <2>4. \A j \in DOMAIN f : Lists(h[j]) <=> Lists(f[j])
    BY <1>6 DEF Lists
  <2>5. ASSUME NEW j \in DOMAIN f, Lists(h[j]), \A k \in DOMAIN f : j < k => ~Lists(h[k])
        PROVE  h[j].path = browser.cur /\ h[j].got \in {Nothing, Children(volume, browser.cur)}
    <3>1. f[j].path = browser.cur /\ f[j].got \in {Nothing, Children(volume, browser.cur)}
      BY <2>2, <2>4, <2>5 DEF Listed, f
    <3>2. CASE j = i
      BY <1>2, <1>4, <2>3, <2>4, <2>5, <3>1, <3>2
    <3>3. CASE j # i
      BY <1>4, <3>1, <3>3
    <3> QED BY <3>2, <3>3
  <2>6. (\A j \in DOMAIN f : ~Lists(h[j])) => browser.items = Children(volume, browser.cur)
    BY <2>2, <2>4 DEF Listed, f
  <2> QED BY <1>4, <1>5, <2>2, <2>5, <2>6 DEF Listed
<1>8. ASSUME browser.clean, NEW j \in DOMAIN f PROVE h[j].at \in {Nothing, browser.cur}
  BY <1>6, <1>8, FilesKnown DEF FolderOK, f
<1>9. FolderOK(browser', volume')
  BY <1>4, <1>5, <1>7, <1>8 DEF FolderOK
<1> QED BY <1>5, <1>9 DEF FilesInv, FilesOK

LEMMA ServeKeeps == ASSUME FilesInv, FilesServe PROVE FilesInv'
<1>1. PICK i \in DOMAIN browser.flight :
        LET o == browser.flight[i] IN
        /\ o.got = Nothing
        /\ \/ o.op \in {"list", "listHere"} /\ ServeList(i, o)
           \/ o.op = "view" /\ ServeRead(i, o)
           \/ o.op = "create" /\ ServeWrite(i, o)
           \/ o.op = "upload" /\ ServeUpload(i, o)
           \/ o.op = "delete" /\ ServeDelete(i, o)
           \/ o.op \in {"move", "moveHere"} /\ ServeMove(i, o)
  BY DEF FilesServe
<1> DEFINE o == browser.flight[i]
<1>2. o \in FileOrders /\ volume \in Volumes /\ volume \subseteq Entries
  BY FilesKnown, VolumeHas
<1>3. o.op \in {"list", "listHere", "view", "create", "upload", "delete", "move", "moveHere"}
      /\ Nothing \notin Folders
  BY <1>2, EntriesOfFolders DEF FileOrders
<1>4. CASE o.op \in {"list", "listHere"} /\ ServeList(i, o)
  <2>1. Children(volume, o.path) \in SUBSET Entries
    BY <1>2 DEF Children
  <2>2. [o EXCEPT !.got = Children(volume, o.path)] \in FileOrders
    BY <1>2, <1>4, <2>1 DEF FileOrders
  <2> QED BY <1>2, <1>4, <2>2, AnswerGiven DEF ServeList
<1>5. CASE o.op = "view" /\ ServeRead(i, o)
  <2> DEFINE g == IF o.path \in volume THEN o.path ELSE Failure
  <2>1. [o EXCEPT !.got = g] \in FileOrders
    BY <1>2, <1>5 DEF FileOrders
  <2>2. Answered(i, g) /\ UNCHANGED volume /\ ~Lists(o)
    BY <1>5 DEF ServeRead, Lists
  <2> HIDE DEF g
  <2> QED BY <1>2, <2>1, <2>2, AnswerGiven
<1>6. CASE o.op \in {"create", "upload", "delete", "move", "moveHere"}
  <2>1. o.at # Nothing /\ o.path \in Entries /\ o.path \in Seq(STRING)
    BY <1>2, <1>3, <1>6, PathsAre DEF FileOrders
  <2>2. ASSUME NEW g \in {"done", Failure} PROVE [o EXCEPT !.got = g] \in FileOrders
    BY <1>2, <1>6 DEF FileOrders
  <2>3. ASSUME NEW g \in {"done", Failure}, Answered(i, g), volume' \in Volumes PROVE FilesInv'
    BY <2>1, <2>2, <2>3, AnswerGiven
  <2>4. CASE o.op = "create" /\ ServeWrite(i, o)
    BY <1>2, <2>1, <2>3, <2>4, EntryPut DEF ServeWrite
  <2>5. CASE o.op = "upload" /\ ServeUpload(i, o)
    BY <1>2, <2>1, <2>3, <2>5, EntryPut DEF ServeUpload
  <2>6. CASE o.op = "delete" /\ ServeDelete(i, o)
    BY <1>2, <2>1, <2>3, <2>6, TakenOut DEF ServeDelete
  <2>7. CASE o.op \in {"move", "moveHere"} /\ ServeMove(i, o)
    <3>1. o.to \in Seq(STRING) /\ o.to # <<>> /\ Front(o.to) \in Folders
      BY <1>2, <2>7 DEF FileOrders, Targets
    <3>2. CASE IsPrefix(o.path, o.to)
      BY <1>2, <2>3, <2>7, <3>2 DEF ServeMove
    <3>3. CASE ~IsPrefix(o.path, o.to)
      <4> DEFINE made == MkdirAll(volume, Front(o.to))
      <4>1. made \in Volumes /\ (Front(o.to) = <<>> \/ Front(o.to) \in made)
        BY <1>2, <3>1, FolderMade
      <4>2. CASE CanRename(made, o.path, o.to)
        <5>1. volume' = Renamed(made, o.path, o.to) /\ Answered(i, "done") /\ volume' \subseteq Entries
          BY <2>7, <3>3, <4>2 DEF ServeMove
        <5>2. o.path \in made
          BY <4>2 DEF CanRename
        <5> HIDE DEF made
        <5>3. volume' \in Volumes
          BY <3>1, <3>3, <4>1, <5>1, <5>2, RenamedVolume
        <5> QED BY <2>3, <5>1, <5>3
      <4>3. CASE ~CanRename(made, o.path, o.to)
        <5>1. volume' = made /\ Answered(i, Failure)
          BY <2>7, <3>3, <4>3 DEF ServeMove
        <5> QED BY <2>3, <4>1, <5>1
      <4> QED BY <4>2, <4>3
    <3> QED BY <3>2, <3>3
  <2> QED BY <1>1, <1>6, <2>4, <2>5, <2>6, <2>7
<1> QED BY <1>1, <1>3, <1>4, <1>5, <1>6

LEMMA ClientKeeps == ASSUME FilesInv, ClientWrites PROVE FilesInv'
<1>1. PICK f \in Files : volume' \in {MkdirAll(volume, Front(f)) \cup {f}, volume \ {f}}
  BY DEF ClientWrites
<1>2. volume' \in Volumes
  BY <1>1, FilesKnown, PathsAre, EntryPut, FileRemoved
<1>3. browser' \in Browsers /\ ~browser'.clean
  BY FilesKnown DEF ClientWrites, Browsers
<1> QED BY <1>2, <1>3 DEF FilesInv, FilesOK, FolderOK

(* The picker's requests stay with the dialog.                                *)
LEMMA PickerKeeps == ASSUME FilesInv, ServePicker \/ PickerSettles PROVE FilesInv'
<1>1. browser.modal \in MoveDialogs /\ UNCHANGED volume
  BY FilesKnown, ModalKinds DEF ServePicker, PickerSettles
<1> DEFINE asked == browser.modal.asked
<1>2. asked \in Seq(Browses)
  BY <1>1 DEF MoveDialogs
<1>3. CASE ServePicker
  <2>1. PICK i \in DOMAIN asked :
          browser' = [browser EXCEPT !.modal.asked[i].got = Children(volume, browser.modal.asked[i].path)]
    BY <1>3 DEF ServePicker
  <2> DEFINE c == [asked[i] EXCEPT !.got = Children(volume, asked[i].path)]
             a == [asked EXCEPT ![i] = c]
  <2>2. Children(volume, asked[i].path) \in SUBSET Entries /\ asked[i] \in Browses
    BY <1>2, <2>1, FilesKnown, VolumeHas DEF Children
  <2>3. c \in Browses
    BY <2>2 DEF Browses
  <2>4. a \in Seq(Browses)
    BY <1>2, <2>1, <2>3, ExceptSeq
  <2>5. browser' = [browser EXCEPT !.modal = [browser.modal EXCEPT !.asked = a]]
    BY <1>1, <1>2, <2>1, <2>2, FilesKnown DEF Browsers, MoveDialogs
  <2> HIDE DEF a
  <2>6. [browser.modal EXCEPT !.asked = a] \in Modals
    BY <1>1, <2>4 DEF Modals, MoveDialogs
  <2> QED BY <1>1, <2>5, <2>6, ModalsKeep
<1>4. CASE PickerSettles
  <2>1. PICK i \in DOMAIN asked :
          LET got == browser.modal.asked[i].got
              p == [browser EXCEPT !.modal.asked = RemoveAt(@, i)]
          IN  browser' = p \/ (got # Nothing /\ browser' = [p EXCEPT !.modal.folders = got \ Files])
    BY <1>4 DEF PickerSettles
  <2> DEFINE a == RemoveAt(asked, i)
             got == asked[i].got
             m == [browser.modal EXCEPT !.asked = a]
             d == [m EXCEPT !.folders = got \ Files]
  <2>2. a \in Seq(Browses) /\ asked[i] \in Browses
    BY <1>2, <2>1, Removed
  <2>3. got # Nothing => got \ Files \subseteq Folders
    BY <2>2, PathsAre DEF Browses
  <2> HIDE DEF a
  <2>4. m \in Modals /\ (got # Nothing => d \in Modals)
    BY <1>1, <2>2, <2>3 DEF Modals, MoveDialogs
  <2>5. browser' = [browser EXCEPT !.modal = m] \/ (got # Nothing /\ browser' = [browser EXCEPT !.modal = d])
    BY <1>1, <2>1, FilesKnown DEF Browsers, MoveDialogs, a
  <2> HIDE DEF m, d, got
  <2> QED BY <1>1, <2>4, <2>5, ModalsKeep
<1> QED BY <1>3, <1>4

(* The page when the i-th order is settled.                                   *)
Gone(i) == [browser EXCEPT !.flight = RemoveAt(@, i), !.clean = @ /\ i = 1]

LEMMA OrderGone ==
    ASSUME FilesInv, NEW i \in DOMAIN browser.flight
    PROVE  LET p == Gone(i) IN
           /\ p \in Browsers /\ p.cur = browser.cur /\ p.items = browser.items /\ p.modal = browser.modal
           /\ p.clean = (browser.clean /\ i = 1) /\ browser.flight[i] \in FileOrders
           /\ Len(browser.flight) \in Nat /\ DOMAIN browser.flight = 1 .. Len(browser.flight)
           /\ DOMAIN p.flight = 1 .. Len(browser.flight) - 1
           /\ i = 1 => \A j \in 1 .. Len(browser.flight) - 1 : p.flight[j] = browser.flight[j + 1]
<1> DEFINE f == RemoveAt(browser.flight, i)
           n == Len(browser.flight)
           p == Gone(i)
<1>1. browser.flight \in Seq(FileOrders) /\ browser.flight[i] \in FileOrders
  BY FilesKnown
<1>2. n \in Nat /\ DOMAIN browser.flight = 1 .. n /\ i \in 1 .. n
  BY <1>1
<1>3. /\ f \in Seq(FileOrders) /\ Len(f) = n - 1
      /\ \A j \in 1 .. n - 1 : f[j] = IF j < i THEN browser.flight[j] ELSE browser.flight[j + 1]
  BY <1>1, Removed
<1>4. PICK clean \in BOOLEAN : clean = (browser.clean /\ i = 1)
  BY FilesKnown
<1>5. p = [browser EXCEPT !.flight = f, !.clean = clean]
  BY <1>4 DEF Gone
<1> HIDE DEF f, p, n
<1>6. /\ p \in Browsers /\ p.cur = browser.cur /\ p.items = browser.items /\ p.modal = browser.modal
      /\ p.clean = clean /\ p.flight = f
  BY <1>3, <1>5, FilesKnown DEF Browsers
<1>7. DOMAIN f = 1 .. n - 1
  BY <1>2, <1>3
<1>8. ASSUME i = 1, NEW j \in 1 .. n - 1 PROVE f[j] = browser.flight[j + 1]
  BY <1>2, <1>3, <1>8
<1> QED BY <1>1, <1>2, <1>4, <1>6, <1>7, <1>8 DEF n, p

(* What is left of the claim when the oldest order is gone: the changes are   *)
(* of the folder shown, and the rows are, or will be, what it holds, unless   *)
(* the order was one that touches them.                                       *)
LEMMA LeftOver ==
    ASSUME FilesInv, 1 \in DOMAIN browser.flight, browser.clean
    PROVE  LET p == Gone(1)
               o == browser.flight[1] IN
           /\ \A j \in DOMAIN p.flight : p.flight[j].at \in {Nothing, p.cur}
           /\ o.at \in {Nothing, p.cur}
           /\ NoChange(p) /\ o.at = Nothing /\ ~Lists(o) => Listed(p, volume)
           /\ NoChange(p) /\ Lists(o) /\ o.got # Nothing => Listed([p EXCEPT !.items = o.got], volume)
<1> DEFINE f == browser.flight
           n == Len(browser.flight)
           p == Gone(1)
           h == p.flight
           o == f[1]
<1>1. /\ p \in Browsers /\ p.cur = browser.cur /\ p.items = browser.items
      /\ f[1] \in FileOrders /\ n \in Nat /\ DOMAIN f = 1 .. n /\ DOMAIN h = 1 .. n - 1
      /\ \A j \in 1 .. n - 1 : h[j] = f[j + 1]
  BY OrderGone
<1>2. FolderOK(browser, volume)
  BY FilesKnown
<1> HIDE DEF f, n, p, h, o
<1>3. \A j \in 1 .. n - 1 : j + 1 \in 1 .. n /\ j + 1 # 1
  BY <1>1
<1>4. \A j \in 1 .. n : j = 1 \/ (j - 1 \in 1 .. n - 1 /\ h[j - 1] = f[j] /\ f[j] = f[(j - 1) + 1])
  <2> SUFFICES ASSUME NEW j \in 1 .. n, j # 1
               PROVE  j - 1 \in 1 .. n - 1 /\ h[j - 1] = f[j] /\ f[j] = f[(j - 1) + 1]
    OBVIOUS
  <2>1. j - 1 \in 1 .. n - 1 /\ (j - 1) + 1 = j
    BY <1>1
  <2> QED BY <1>1, <2>1
<1>5. 1 \in 1 .. n
  BY <1>1 DEF f
<1>6. \A j \in 1 .. n : f[j].at \in {Nothing, browser.cur}
  BY <1>1, <1>2 DEF FolderOK, f
<1>7. ASSUME NoChange(p), o.at = Nothing PROVE Listed(browser, volume)
  <2>1. ASSUME NEW j \in 1 .. n PROVE f[j].at = Nothing
    <3>1. CASE j = 1
      BY <1>7, <3>1 DEF o
    <3>2. CASE j # 1
      <4>1. j - 1 \in DOMAIN p.flight /\ p.flight[j - 1] = f[j]
        BY <1>1, <1>4, <3>2 DEF h
      <4> QED BY <1>7, <4>1 DEF NoChange
    <3> QED BY <3>1, <3>2
  <2>2. NoChange(browser)
    BY <1>1, <2>1 DEF NoChange, f
  <2> QED BY <1>2, <2>2 DEF FolderOK
<1>8. ASSUME Listed(browser, volume), NEW j \in 1 .. n - 1, Lists(h[j]),
             \A k \in 1 .. n - 1 : j < k => ~Lists(h[k])
      PROVE  h[j].path = browser.cur /\ h[j].got \in {Nothing, Children(volume, browser.cur)}
  <2>1. h[j] = f[j + 1] /\ j + 1 \in 1 .. n
    BY <1>1, <1>3
  <2>2. ASSUME NEW k \in 1 .. n, j + 1 < k PROVE ~Lists(f[k])
    <3>1. k # 1 /\ j < k - 1
      BY <1>1, <2>2
    <3>2. k - 1 \in 1 .. n - 1 /\ h[k - 1] = f[k]
      BY <1>4, <3>1
    <3> QED BY <1>8, <3>1, <3>2
  <2> QED BY <1>1, <1>8, <2>1, <2>2 DEF Listed, f
<1>9. ASSUME \A j \in 1 .. n - 1 : ~Lists(h[j]) PROVE \A j \in 1 .. n : j # 1 => ~Lists(f[j])
  BY <1>4, <1>9
<1>10. ASSUME NoChange(p), o.at = Nothing, ~Lists(o) PROVE Listed(p, volume)
  <2>1. (\A j \in 1 .. n - 1 : ~Lists(h[j])) => browser.items = Children(volume, browser.cur)
    <3> SUFFICES ASSUME \A j \in 1 .. n - 1 : ~Lists(h[j])
                 PROVE  browser.items = Children(volume, browser.cur)
      OBVIOUS
    <3>1. \A j \in 1 .. n : ~Lists(f[j])
      BY <1>9, <1>10 DEF o
    <3> QED BY <1>1, <1>7, <1>10, <3>1 DEF Listed, f
  <2>2. Listed(browser, volume)
    BY <1>7, <1>10
  <2> QED BY <1>1, <1>8, <2>1, <2>2 DEF Listed, h
<1>11. ASSUME NoChange(p), Lists(o), o.got # Nothing PROVE Listed([p EXCEPT !.items = o.got], volume)
  <2> DEFINE q == [p EXCEPT !.items = o.got]
  <2>1. q.flight = h /\ q.cur = browser.cur /\ q.items = o.got
    BY <1>1 DEF Browsers, h
  <2> HIDE DEF q
  <2>2. o.at = Nothing
    BY <1>1, <1>11 DEF FileOrders, Lists, o
  <2>3. Listed(browser, volume)
    BY <1>7, <1>11, <2>2
  <2>4. ASSUME \A j \in 1 .. n - 1 : ~Lists(h[j]) PROVE o.got = Children(volume, browser.cur)
    <3>1. \A j \in 1 .. n : 1 < j => ~Lists(f[j])
      BY <1>1, <1>9, <2>4
    <3> QED BY <1>1, <1>5, <1>11, <2>3, <3>1 DEF Listed, f, o
  <2> QED BY <1>1, <1>8, <2>1, <2>3, <2>4 DEF Listed, q
<1> QED BY <1>1, <1>3, <1>5, <1>6, <1>10, <1>11 DEF f, o, h, p

LEMMA SettleKeeps == ASSUME FilesInv, NEW i \in DOMAIN browser.flight, OrderSettles(i) PROVE FilesInv'
<1> DEFINE o == browser.flight[i]
           p == Gone(i)
<1>1. UNCHANGED volume /\ ((o.got \notin {Nothing, Failure} /\ browser' = Done(p, o))
                           \/ browser' = [NotDone(p, o) EXCEPT !.clean = FALSE])
  BY DEF OrderSettles, Gone
<1>2. /\ p \in Browsers /\ p.cur = browser.cur /\ p.items = browser.items /\ p.modal = browser.modal
      /\ p.clean = (browser.clean /\ i = 1) /\ o \in FileOrders
  BY OrderGone
<1>3. p.clean => /\ \A j \in DOMAIN p.flight : p.flight[j].at \in {Nothing, p.cur}
                 /\ o.at \in {Nothing, p.cur}
                 /\ NoChange(p) /\ o.at = Nothing /\ ~Lists(o) => Listed(p, volume)
                 /\ NoChange(p) /\ Lists(o) /\ o.got # Nothing => Listed([p EXCEPT !.items = o.got], volume)
  BY <1>2, LeftOver
<1>4. SUFFICES browser' \in Browsers /\ FolderOK(browser', volume)
  BY <1>1, FilesKnown DEF FilesInv, FilesOK
<1> HIDE DEF p, o
<1>5. p.modal \in Modals /\ p.cur \in Folders
  BY <1>2 DEF Browsers
<1>6. o.op = "view" => FolderOK(p, volume)
  <2>1. o.op = "view" => o.at = Nothing /\ ~Lists(o)
    BY <1>2 DEF FileOrders, Lists
  <2> QED BY <1>3, <2>1 DEF FolderOK
<1>7. ASSUME p.modal.kind = "preview", NEW content \in Files \cup {Nothing, Failure}
      PROVE  [p.modal EXCEPT !.content = content, !.loading = FALSE] \in Modals
  <2>1. p.modal \in Previews
    BY <1>5, <1>7, ModalKinds
  <2> QED BY <2>1 DEF Modals, Previews
<1>8. CASE browser' = [NotDone(p, o) EXCEPT !.clean = FALSE]
  <2>1. PICK m \in Modals : NotDone(p, o) = [p EXCEPT !.modal = m]
    <3>1. CASE o.op = "view" /\ p.modal.kind = "preview"
      <4> DEFINE m == [p.modal EXCEPT !.content = Failure, !.loading = FALSE]
      <4>1. m \in Modals
        BY <1>7, <3>1
      <4>2. NotDone(p, o) = [p EXCEPT !.modal = m]
        BY <1>2, <3>1 DEF NotDone, Browsers
      <4> QED BY <4>1, <4>2
    <3>2. CASE o.op \in {"moveHere", "listHere"}
      BY <1>5, <3>2, ModalKinds DEF NotDone
    <3>3. CASE ~(o.op = "view" /\ p.modal.kind = "preview") /\ o.op \notin {"moveHere", "listHere"}
      <4>1. NotDone(p, o) = p /\ p = [p EXCEPT !.modal = p.modal]
        BY <1>2, <3>3 DEF NotDone, Browsers
      <4> QED BY <1>5, <4>1
    <3> QED BY <3>1, <3>2, <3>3
  <2>2. browser' \in Browsers /\ ~browser'.clean
    BY <1>2, <1>8, <2>1 DEF Browsers
  <2> QED BY <2>2 DEF FolderOK
<1>9. CASE o.got \notin {Nothing, Failure} /\ browser' = Done(p, o)
  <2>1. CASE o.op \in {"list", "listHere"}
    <3> DEFINE q == [p EXCEPT !.items = o.got]
    <3>1. o.got \in SUBSET Entries /\ Lists(o) /\ o.got # Nothing
      BY <1>2, <1>9, <2>1 DEF FileOrders, Lists
    <3>2. /\ q \in Browsers /\ q.cur = p.cur /\ q.flight = p.flight /\ q.clean = p.clean
          /\ q.modal = p.modal
      BY <1>2, <3>1 DEF Browsers
    <3>3. FolderOK(q, volume)
      <4>1. NoChange(q) => NoChange(p)
        BY <3>2 DEF NoChange
      <4> HIDE DEF q
      <4>2. q = [p EXCEPT !.items = o.got]
        BY DEF q
      <4> QED BY <1>3, <3>1, <3>2, <4>1, <4>2 DEF FolderOK
    <3>4. DialogShut(q.modal) \in Modals
      BY <1>5, <3>2, ModalKinds
    <3>5. browser' = q \/ browser' = [q EXCEPT !.modal = DialogShut(q.modal)]
      BY <1>2, <1>9, <2>1, <3>2 DEF Done, Browsers
    <3> HIDE DEF q
    <3> QED BY <3>2, <3>3, <3>4, <3>5, ModalOnly
  <2>2. CASE o.op = "view"
    <3>1. CASE p.modal.kind = "preview"
      <4> DEFINE m == [p.modal EXCEPT !.content = o.got, !.loading = FALSE]
      <4>1. o.got \in Files
        BY <1>2, <1>9, <2>2 DEF FileOrders
      <4>2. m \in Modals
        BY <1>7, <3>1, <4>1
      <4>3. browser' = [p EXCEPT !.modal = m]
        BY <1>2, <1>9, <2>2, <3>1 DEF Done, Browsers
      <4> HIDE DEF m
      <4> QED BY <1>2, <1>6, <2>2, <4>2, <4>3, ModalOnly
    <3>2. CASE p.modal.kind # "preview"
      BY <1>2, <1>6, <1>9, <2>2, <3>2 DEF Done
    <3> QED BY <3>1, <3>2
  <2>3. CASE o.op \notin {"list", "listHere", "view"}
    <3> DEFINE op == IF o.op = "moveHere" THEN "listHere" ELSE "list"
               d == Order(op, o.at, Nothing, Nothing)
    <3>1. browser' = [p EXCEPT !.flight = Append(@, d)]
      BY <1>9, <2>3 DEF Done, Reloaded
    <3>2. o.at \in Folders /\ o.at # Nothing
      BY <1>2, <2>3, EntriesOfFolders DEF FileOrders
    <3>3. d \in FileOrders /\ Lists(d) /\ d.path = o.at /\ d.got = Nothing /\ d.at = Nothing
      BY <3>2, ListOrder DEF Order, Lists
    <3> HIDE DEF d
    <3>4. CASE p.clean
      <4>1. d.path = p.cur
        BY <1>3, <3>2, <3>3, <3>4
      <4> QED BY <1>2, <1>3, <3>1, <3>3, <3>4, <4>1, ListAsked
    <3>5. CASE ~p.clean
      <4>1. browser' \in Browsers /\ browser'.clean = p.clean
        BY <1>2, <3>1, <3>3, OneMore
      <4> QED BY <3>5, <4>1 DEF FolderOK
    <3> QED BY <3>4, <3>5
  <2> QED BY <2>1, <2>2, <2>3
<1> QED BY <1>1, <1>8, <1>9

LEMMA FilesStep == ASSUME FilesInv, [FilesNext]_fileVars PROVE FilesInv'
<1>1. CASE UNCHANGED fileVars
  BY <1>1 DEF FilesInv, FilesOK, fileVars
<1> QED BY <1>1, PageKeeps, ServeKeeps, ClientKeeps, PickerKeeps, SettleKeeps DEF FilesNext

LEMMA FilesAre == FilesSpec => []FilesInv
<1>1. FilesInv /\ [FilesNext]_fileVars => FilesInv'
  BY FilesStep
<1> QED BY <1>1, FilesAtFirst, PTL DEF FilesSpec

LEMMA FilesTyped == FilesInv => FilesTypeOK
<1> SUFFICES ASSUME FilesInv PROVE FilesTypeOK
  OBVIOUS
<1>1. browser.modal.kind = "preview" => browser.modal \in Previews
  BY FilesKnown, ModalKinds
<1>2. browser.modal.kind = "move" => browser.modal \in MoveDialogs
  BY FilesKnown, ModalKinds
<1>3. ASSUME browser.modal \in MoveDialogs, NEW i \in DOMAIN browser.modal.asked
      PROVE  browser.modal.asked[i].path \in Folders
  <2>1. browser.modal.asked \in Seq(Browses)
    BY <1>3 DEF MoveDialogs
  <2>2. browser.modal.asked[i] \in Browses
    BY <1>3, <2>1
  <2> QED BY <2>2 DEF Browses
<1> QED BY <1>1, <1>2, <1>3, FilesKnown DEF FilesTypeOK, Previews, MoveDialogs

(* Whatever the page and the clients of the server do, every entry on the     *)
(* volume has its folder, and the page's folder, rows and dialogs are of the  *)
(* paths there may be (files.go of adapter-control, SFTPServer.tsx).          *)
THEOREM FilesTypes == FilesSpec => []FilesTypeOK
BY FilesTyped, FilesAre, PTL

LEMMA RowsAtRest == FilesInv => RowsAreOfFolder
<1> SUFFICES ASSUME FilesInv, browser.flight = <<>>, browser.clean
             PROVE  browser.items = Children(volume, browser.cur)
  BY DEF RowsAreOfFolder
<1>1. DOMAIN browser.flight = {}
  OBVIOUS
<1> QED BY <1>1, FilesKnown DEF FolderOK, NoChange, Listed

(* For any volume and any number of requests under way: at rest the rows are  *)
(* what the volume has in the folder shown, unless an answer overtook         *)
(* another, a request failed, a client wrote or a folder was opened while a   *)
(* change was under way (SFTPServer.tsx, loadPath).                           *)
THEOREM RowsShowFolder == FilesSpec => []RowsAreOfFolder
BY RowsAtRest, FilesAre, PTL
===============================================================================
