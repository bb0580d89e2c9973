----------------------------- MODULE JobLedger -----------------------------
(***************************************************************************)
(* What the scoring API promises of a ticket, and nothing of how: a job    *)
(* that was accepted ends once, or is lost with its worker; it is revoked  *)
(* only if somebody withdrew it; a failure is kept where it can be         *)
(* inspected; and who asks for the result is told how the job ended, never *)
(* anything else (app.py:72-101, task_queue.py:49-52).                      *)
(***************************************************************************)
CONSTANT Jobs

VARIABLES
    state,              \* per job: "none", "accepted", an end, or "lost"
    withdrawn,          \* jobs that somebody withdrew
    dead_letters,       \* failures kept for inspection
    told                \* per job: the end its client was told, or "nothing"

vars == <<state, withdrawn, dead_letters, told>>

Ends == {"SUCCESS", "FAILURE", "REVOKED"}

Init ==
    /\ state = [j \in Jobs |-> "none"]
    /\ withdrawn = {} /\ dead_letters = {}
    /\ told = [j \in Jobs |-> "nothing"]

Accept(j) ==
    /\ state[j] = "none"
    /\ state' = [state EXCEPT ![j] = "accepted"]
    /\ UNCHANGED <<withdrawn, dead_letters, told>>

\* Also of a job that is over: a withdrawal promises nothing.
Withdraw(j) ==
    /\ state[j] # "none"
    /\ withdrawn' = withdrawn \cup {j}
    /\ UNCHANGED <<state, dead_letters, told>>

End(j, how) ==
    /\ state[j] = "accepted"
    /\ how = "REVOKED" => j \in withdrawn
    /\ state' = [state EXCEPT ![j] = how]
    /\ dead_letters' = IF how = "FAILURE" THEN dead_letters \cup {j} ELSE dead_letters
    /\ UNCHANGED <<withdrawn, told>>

Lose(j) ==
    /\ state[j] = "accepted"
    /\ state' = [state EXCEPT ![j] = "lost"]
    /\ UNCHANGED <<withdrawn, dead_letters, told>>

Tell(j) ==
    /\ state[j] \in Ends /\ told[j] = "nothing"
    /\ told' = [told EXCEPT ![j] = state[j]]
    /\ UNCHANGED <<state, withdrawn, dead_letters>>

Next == \E j \in Jobs : \/ Accept(j) \/ Withdraw(j) \/ Lose(j) \/ Tell(j)
                        \/ \E how \in Ends : End(j, how)

Spec == Init /\ [][Next]_vars
=============================================================================
