----------------------------- MODULE MCMockHttp -----------------------------
(* Instances of MockHttp for TLC.                                          *)
EXTENDS MockHttp
=============================================================================
