------------------------------- MODULE UseWorker -------------------------------
(* The hook useWorker, and the state the other pages keep by hand in its      *)
(* image: the requests a page has in flight in the order they were sent, its  *)
(* loading flag and its error strip.  An answer may be that of any request in *)
(* flight; only the button the page disables keeps the requests apart.  A     *)
(* request stands for the answer it gets.                                     *)
EXTENDS WebPage

Idle == [flight |-> <<>>, loading |-> FALSE, error |-> FALSE]

(* What the hook's state may be, with requests of Rq.                         *)
WorkerOf(w, Rq) ==
    /\ DOMAIN w = DOMAIN Idle
    /\ \A i \in DOMAIN w.flight : w.flight[i] \in Rq
    /\ {w.loading, w.error} \subseteq BOOLEAN

(* post: the old error goes, the request is sent.                             *)
Posted(w, rq) == [flight |-> Append(w.flight, rq), loading |-> TRUE, error |-> FALSE]

(* Slip: a failed request leaves the page loading.                            *)
LoadingOn(w, i, ok) == [flight |-> RemoveAt(w.flight, i), loading |-> ~ok, error |-> ~ok]

(* The i-th request ends: with an answer, with an error status or because the *)
(* worker was not reached.                                                    *)
Ended(w, i, ok) == [flight |-> RemoveAt(w.flight, i), loading |-> FALSE, error |-> ~ok]

(* The request whose answer the page is waiting for.                          *)
Awaited(w) == IF w.flight = <<>> THEN Nothing ELSE Last(w.flight)
===============================================================================
