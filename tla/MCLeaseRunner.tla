---------------------------- MODULE MCLeaseRunner ----------------------------
(* A job and a singleton app, or either alone, over one lease.             *)
EXTENDS LeaseRunner

\* The runs.
CONSTANTS h1, h2
=============================================================================
