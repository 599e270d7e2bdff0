---------------------------- MODULE JobContract -----------------------------
(***************************************************************************)
(* What the execution scheduler promises about the attempts of a job: they *)
(* are numbered without gaps up to the limit of the manifest, at most the  *)
(* last one is open, and an attempt that has an outcome keeps it.          *)
(***************************************************************************)
EXTENDS Integers

CONSTANTS Jobs, Limit, Outcomes

VARIABLES last,     \* number of attempts of each job
          outcome   \* "none" (no such attempt), "open", or an outcome

Closed(j) == last[j] = 0 \/ outcome[j][last[j]] \in Outcomes

Init == /\ last = [j \in Jobs |-> 0]
        /\ outcome = [j \in Jobs |-> [n \in 1..Limit |-> "none"]]

Open(j) ==
    /\ Closed(j) /\ last[j] < Limit
    /\ last' = [last EXCEPT ![j] = @ + 1]
    /\ outcome' = [outcome EXCEPT ![j][last[j] + 1] = "open"]

Close(j, r) ==
    /\ ~Closed(j)
    /\ outcome' = [outcome EXCEPT ![j][last[j]] = r]
    /\ UNCHANGED last

\* Recovery closes an attempt and opens the next one in one transaction.
Reopen(j, r) ==
    /\ ~Closed(j) /\ last[j] < Limit
    /\ last' = [last EXCEPT ![j] = @ + 1]
    /\ outcome' = [outcome EXCEPT ![j][last[j]] = r, ![j][last[j] + 1] = "open"]

Next == \E j \in Jobs : \/ Open(j)
                        \/ \E r \in Outcomes : Close(j, r) \/ Reopen(j, r)

Spec == Init /\ [][Next]_<<last, outcome>>
=============================================================================
