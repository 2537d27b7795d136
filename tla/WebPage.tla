-------------------------------- MODULE WebPage --------------------------------
(* What the models of the pages of the web front end share.  A page is one    *)
(* thread: a handler runs to its first await, and what follows runs when its  *)
(* answer arrives.                                                            *)
EXTENDS Naturals, Sequences, SequencesExt

CONSTANT Nothing        \* null: no request, no result, no selection
===============================================================================
