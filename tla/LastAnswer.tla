------------------------------ MODULE LastAnswer ------------------------------
(* What a tool page with one button and one result promises its user: the     *)
(* result on display is the answer to the last question asked, or there is no *)
(* result.  Questions stand for their answers.                                *)

CONSTANTS Nothing,      \* no question, or no result
          Keeps         \* TRUE: an older result stays until the answer comes

VARIABLES pending,      \* the last question, while its answer is awaited
          shown         \* the question whose answer is on display

Init == pending = Nothing /\ shown = Nothing

Ask ==
    /\ pending' # Nothing
    /\ shown' = IF Keeps THEN shown ELSE Nothing

(* The answer arrives, or the request failed and the panel shows an error.    *)
Answer ==
    /\ pending # Nothing
    /\ pending' = Nothing
    /\ shown' \in {pending, shown}

Clear == shown' = Nothing /\ UNCHANGED pending

Next == Ask \/ Answer \/ Clear

Spec == Init /\ [][Next]_<<pending, shown>>
===============================================================================
