------------------------------ MODULE HttpClient ------------------------------
(* The page "HTTP Client": a request put together by hand or from assets, one *)
(* request in flight, one response.  Header names and values, URLs and bodies *)
(* are members of small sets, "" the empty one; the dialogs that pick and     *)
(* name an asset are part of the step that uses the asset.                    *)
EXTENDS UseWorker, FiniteSets

CONSTANTS Keys, Values, \* header names and values besides ""
          Urls, Bodies, \* URLs and bodies besides ""
          MaxRows       \* rows of the header editor

ASSUME HttpRows == MaxRows \in Nat \ {0}
ASSUME HttpNames == "" \notin Keys

Methods == {"GET", "POST"}      \* one that takes no body, one that does

Row == [key : Keys \cup {""}, value : Values \cup {""}]
EmptyRow == [key |-> "", value |-> ""]
Rows == UNION {[1 .. n -> Row] : n \in 1 .. MaxRows}

UrlFields == Urls \cup {""}
BodyFields == Bodies \cup {""}

(* A JSON object of headers: of two rows with one name the later wins.        *)
Objects == UNION {[K -> Values \cup {""}] : K \in {K \in SUBSET Keys : IsFiniteSet(K)}}

HeadersOf(rows) ==
    LET named == {i \in DOMAIN rows : rows[i].key # ""}
        last(k) == CHOOSE i \in named :
                     rows[i].key = k /\ \A j \in named : rows[j].key = k => j <= i
    IN  [k \in {rows[i].key : i \in named} |-> rows[last(k)].value]

VARIABLE hc

httpVars == <<hc>>

HttpInit == hc = [method |-> "GET", url |-> "", headers |-> <<EmptyRow>>, body |-> "",
                  worker |-> Idle, response |-> Nothing]

HttpRequests == [method : Methods, url : UrlFields, headers : Objects, body : BodyFields]

ASSUME HttpQuestions == Nothing \notin HttpRequests

requestAsJson(p) == [method |-> p.method, url |-> p.url, headers |-> HeadersOf(p.headers),
                     body |-> p.body]

(* The entries of an object as rows, in some order, and an empty row.         *)
RowsOf(object) ==
    LET entry(k) == [key |-> k, value |-> object[k]]
    IN  Append(SetToSeq({entry(k) : k \in DOMAIN object}), EmptyRow)

(* Slip: the rows of the asset join those of the page.                        *)
LoadedBeside(p, r) ==
    [p EXCEPT !.method = r.method, !.url = IF r.url = "" THEN @ ELSE r.url,
              !.headers = SelectSeq(@, LAMBDA row : row.key # "") \o RowsOf(r.headers),
              !.body = r.body]

(* A request asset replaces the form, but an empty URL in it replaces nothing. *)
Loaded(p, r) ==
    [p EXCEPT !.method = r.method, !.url = IF r.url = "" THEN @ ELSE r.url,
              !.headers = RowsOf(r.headers), !.body = r.body]

loadRequestFromAsset ==
    \E r \in HttpRequests : Cardinality(DOMAIN r.headers) < MaxRows /\ hc' = Loaded(hc, r)

(* An asset of type "req" may also hold a saved body or response: if it is no *)
(* JSON object, nothing is loaded.  Here it is a body.                        *)
LoadBody == \E b \in BodyFields : hc' = [hc EXCEPT !.body = b]

EditRequest ==
    \/ \E m \in Methods : hc' = [hc EXCEPT !.method = m]
    \/ \E u \in UrlFields : hc' = [hc EXCEPT !.url = u]

(* The rows that hold something, in their order.                              *)
Held(rows) ==
    LET of[n \in 0 .. Len(rows)] ==
            IF n = 0 THEN <<>>
            ELSE IF rows[n] = EmptyRow THEN of[n - 1] ELSE Append(of[n - 1], rows[n])
    IN  of[Len(rows)]

(* Header assets are added after the rows that hold something.                *)
LoadHeaders ==
    \E rows \in Rows :
        /\ \A i \in DOMAIN rows : rows[i].key # ""
        /\ LET new == Append(Held(hc.headers) \o rows, EmptyRow)
           IN  Len(new) <= MaxRows /\ hc' = [hc EXCEPT !.headers = new]

(* Typing into the last row appends an empty one.                             *)
UpdateHeader ==
    \E i \in DOMAIN hc.headers, row \in Row :
        LET updated == [hc.headers EXCEPT ![i] = row]
            new == IF Last(updated) = EmptyRow THEN updated ELSE Append(updated, EmptyRow)
        IN  /\ row.key = hc.headers[i].key \/ row.value = hc.headers[i].value
            /\ Len(new) <= MaxRows
            /\ hc' = [hc EXCEPT !.headers = new]

RemoveHeader ==
    /\ Len(hc.headers) > 1
    /\ \E i \in DOMAIN hc.headers : hc' = [hc EXCEPT !.headers = RemoveAt(@, i)]

HeadersEditor == UpdateHeader \/ RemoveHeader

(* What the worker is asked to send: no body with a GET.                      *)
Sent(p) == [method |-> p.method, url |-> p.url, headers |-> HeadersOf(p.headers),
            body |-> IF p.method = "GET" THEN "" ELSE p.body]

(* Slip: the Send button is not disabled while sending.                       *)
AnyTime(p) == TRUE

CanSend(p) == ~p.worker.loading

sendRequest ==
    /\ CanSend(hc)
    /\ hc' = IF hc.url = "" THEN [hc EXCEPT !.worker.error = TRUE]
             ELSE [hc EXCEPT !.worker = Posted(@, Sent(hc)), !.response = Nothing]

HttpArrives ==
    \E i \in DOMAIN hc.worker.flight, ok \in BOOLEAN :
        hc' = [hc EXCEPT !.worker = Ended(@, i, ok),
                         !.response = IF ok THEN hc.worker.flight[i] ELSE @]

CloseError == hc.worker.error /\ hc' = [hc EXCEPT !.worker.error = FALSE]

HttpNext ==
    \/ loadRequestFromAsset \/ LoadBody \/ EditRequest \/ LoadHeaders \/ HeadersEditor
    \/ sendRequest \/ HttpArrives \/ CloseError

HttpFairness == WF_httpVars(HttpArrives)

HttpSpec == HttpInit /\ [][HttpNext]_httpVars /\ HttpFairness

HttpTypeOK ==
    /\ hc.headers \in Rows /\ hc.method \in Methods
    /\ hc.url \in UrlFields /\ hc.body \in BodyFields
    /\ WorkerOf(hc.worker, HttpRequests)
    /\ hc.response \in HttpRequests \cup {Nothing}

(* Some other form the page may hold when an asset is loaded.                 *)
OtherForm(u, row, b) ==
    [hc EXCEPT !.method = "POST", !.url = u, !.headers = <<row, EmptyRow>>, !.body = b]
OtherForms ==
    {OtherForm(u, row, b) : u \in UrlFields, row \in Row, b \in BodyFields}

(* A request with a URL that is saved as an asset and loaded again, into      *)
(* whatever form, is the request that was saved: method, headers and body,    *)
(* with rows without a name and of repeated names in the form (requestAsJson  *)
(* and loadRequestFromAsset, HttpClient.tsx).                                 *)
SavedRequestComesBack ==
    LET r == requestAsJson(hc) IN
    r.url # "" => \A form \in OtherForms : requestAsJson(Loaded(form, r)) = r

Response == INSTANCE LastAnswer WITH pending <- Awaited(hc.worker), shown <- hc.response,
                                     Keeps <- FALSE

(* The response on display is that of the last request sent, and none while   *)
(* one is awaited or after it failed (HttpClient.tsx).                        *)
ResponseIsLastAnswer == Response!Spec
===============================================================================
