---------------------------- MODULE MCThreadPool ----------------------------
(* Instances of ThreadPool for the model checker. *)
EXTENDS ThreadPool

CONSTANTS j1, j2, j3

MCJobs == {j1, j2, j3}
=============================================================================
