---------------------------- MODULE MCAsyncJobs ----------------------------
(* Two jobs that compete for one worker, each with its polling client.     *)
EXTENDS AsyncJobs, TLC

CONSTANTS j1, j2

MCJobs == {j1, j2}
=============================================================================
