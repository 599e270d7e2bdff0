---------------------------- MODULE ExecdProofs -----------------------------
(***************************************************************************)
(* Proofs about the scheduler and its daemon, for every set of jobs, every *)
(* set of sessions and every retry limit.                                  *)
(***************************************************************************)
EXTENDS Execd, TLAPS

\* The attempts 1..last[j] exist, only the last one can be open, and a queued
\* one was not assigned yet.
Rows ==
    \A j \in Jobs, n \in Numbers :
        /\ state[j][n] = "none" <=> n > last[j]
        /\ n > last[j] => token[j][n] = 0 /\ receipt[j][n] = NoReceipt
        /\ state[j][n] = "queued" => token[j][n] = 0
        /\ state[j][n] \notin Terminal => n >= last[j]

\* t is MAX(fencing_token) + 1 over the attempts of job j.
Successor(j, t) ==
    /\ \A n \in Numbers : token[j][n] < t
    /\ t = 1 \/ \E n \in Numbers : token[j][n] = t - 1

\* Tokens grow with the number of the attempt.
TokenOrder ==
    \A j \in Jobs :
        /\ \A m, n \in Numbers : m < n /\ token[j][n] # 0 => token[j][m] < token[j][n]
        /\ \A n \in Numbers : token[j][n] <= n
        /\ \E t \in 1..(Limit + 1) : Successor(j, t)

\* The lease of a job is for the attempt that was assigned last, and that
\* attempt has no receipt.
LeaseIsNewest ==
    \A j \in Jobs :
        /\ lease[j].number = 0 => ~lease[j].live
        /\ lease[j].number # 0 =>
              /\ lease[j].token # 0 /\ token[j][lease[j].number] = lease[j].token
              /\ \A n \in Numbers : n > lease[j].number => token[j][n] = 0
              /\ receipt[j][lease[j].number] = NoReceipt

Receipts ==
    /\ ReceiptMatches
    /\ \A j \in Jobs, n \in Numbers : receipt[j][n] # NoReceipt => state[j][n] \in Terminal

TableInv == TablesOK /\ Rows /\ TokenOrder /\ LeaseIsNewest /\ Receipts

\* What a worker remembers of its lease is what the attempt was given.
HoldsIssued(h) == h # NoHold => token[h.job][h.number] = h.token

Holders == HoldsIssued(held) /\ \A s \in Sessions : HoldsIssued(session[s])

\* Startup is the only one that recovers, and only expired leases.
Recovering == /\ recovering # {} => daemon = "starting"
              /\ \A j \in recovering : Expired(j)

Decided == pc = "finish" => verdict \in Terminal

IInv == TypeOK /\ TableInv /\ Holders /\ NoSharedFence /\ Recovering /\ Decided

-----------------------------------------------------------------------------
\* The limit is positive, so every job has an attempt number 1.
LEMMA LimitPositive == Limit \in Nat /\ Limit >= 1
BY AttemptsAssumption DEF Limit

\* Attempt numbers are integers from 1 to the limit of the manifest.
LEMMA NumbersRange == \A n \in Numbers : n \in Int /\ n \in 0..Limit /\ n >= 1 /\ n <= Limit
BY LimitPositive DEF Numbers

\* The number in a lease is that of an attempt.
LEMMA LeaseRange ==
    ASSUME TablesOK, NEW j \in Jobs, lease[j].number # 0
    PROVE  lease[j].number \in Numbers
<1>1. lease[j].number \in 0..Limit
  BY DEF TablesOK
<1>2. QED
  BY <1>1, LimitPositive DEF Numbers

\* NextToken exceeds every token of the job and skips none.
LEMMA TokenFresh ==
    ASSUME TableInv, NEW j \in Jobs
    PROVE  NextToken(j) \in 1..(Limit + 1) /\ Successor(j, NextToken(j))
<1>1. \E t \in 1..(Limit + 1) : Successor(j, t)
  BY DEF TableInv, TokenOrder
<1>2. QED
  BY <1>1 DEF NextToken, Successor

\* submit, retry and resume insert the next attempt of a job that has no open one.
LEMMA QueueKeeps ==
    ASSUME TableInv, NEW j \in Jobs, last[j] < Limit,
           \A n \in Numbers : state[j][n] \in Terminal \cup {"none"},
           Queue(j, last[j] + 1), UNCHANGED <<receipt, artifact, checkpoint, lease>>
    PROVE  TableInv'
<1> DEFINE k == last[j] + 1
<1>0. k \in Numbers /\ last[j] \in 0..Limit /\ k > last[j] /\ k \in Int
  BY LimitPositive DEF TableInv, TablesOK, Numbers
<1>1. TablesOK'
  BY <1>0, LimitPositive DEF TableInv, TablesOK, Queue, States
<1>2. /\ \A i \in Jobs : last'[i] = IF i = j THEN k ELSE last[i]
      /\ \A i \in Jobs, n \in Numbers :
            /\ state'[i][n] = IF i = j /\ n = k THEN "queued" ELSE state[i][n]
            /\ token'[i][n] = token[i][n]
  BY <1>0 DEF TableInv, TablesOK, Queue, Rows
<1>3. Rows'
  <2> SUFFICES ASSUME NEW i \in Jobs, NEW m \in Numbers
               PROVE  /\ state'[i][m] = "none" <=> m > last'[i]
                      /\ m > last'[i] => token'[i][m] = 0 /\ receipt'[i][m] = NoReceipt
                      /\ state'[i][m] = "queued" => token'[i][m] = 0
                      /\ state'[i][m] \notin Terminal => m >= last'[i]
    BY DEF Rows
  <2>1. CASE i # j
    BY <2>1, <1>2 DEF TableInv, Rows
  <2>2. CASE i = j /\ m = k
    BY <2>2, <1>0, <1>2 DEF TableInv, Rows, Terminal
  <2>3. CASE i = j /\ m # k
    <3>1. m \in Int /\ (m > last[j] <=> m > k)
      BY <2>3, <1>0, NumbersRange
    <3>2. /\ state[j][m] = "none" <=> m > last[j]
          /\ m > last[j] => token[j][m] = 0 /\ receipt[j][m] = NoReceipt
          /\ state[j][m] \in Terminal \cup {"none"}
      BY DEF TableInv, Rows
    <3>3. state'[j][m] = state[j][m] /\ token'[j][m] = token[j][m] /\ last'[j] = k
          /\ receipt' = receipt
      BY <2>3, <1>2
    <3>4. m > k => m >= k
      BY <3>1, <1>0
    <3>5. QED
      BY <2>3, <3>1, <3>2, <3>3, <3>4 DEF Terminal
  <2>4. QED
    BY <2>1, <2>2, <2>3
<1>4. TokenOrder'
  BY <1>2 DEF TableInv, TokenOrder, Successor
<1>5. LeaseIsNewest'
  BY <1>2, LeaseRange DEF TableInv, LeaseIsNewest
<1>6. Receipts'
  BY <1>0, <1>2 DEF TableInv, Rows, Receipts, ReceiptMatches
<1>7. QED
  BY <1>1, <1>3, <1>4, <1>5, <1>6 DEF TableInv

\* acquire assigns the queued attempt under a fresh token.
LEMMA AcquireKeeps ==
    ASSUME TableInv, NEW j \in Jobs, NEW n \in Numbers, Acquire(j, n)
    PROVE  TableInv'
<1>a. PICK t : t = NextToken(j)
  OBVIOUS
<1>0. t \in 1..(Limit + 1) /\ Successor(j, t) /\ t \in Nat
  BY <1>a, TokenFresh, LimitPositive
<1>1. n = last[j] /\ n \in Int /\ t <= n /\ token[j][n] = 0 /\ receipt[j][n] = NoReceipt
  <2>0. state[j][n] = "queued" /\ n \in Int /\ last[j] \in Int
    BY NumbersRange, LimitPositive DEF TableInv, TablesOK, Acquire
  <2>1. state[j][n] = "queued" /\ n = last[j] /\ n \in Int /\ token[j][n] = 0
    BY <2>0 DEF TableInv, Rows, Terminal
  <2>2. \A m \in Numbers : m > n => token[j][m] = 0
    BY <2>1 DEF TableInv, Rows
  <2>3. \A m \in Numbers : token[j][m] <= m /\ token[j][m] \in Nat
    BY DEF TableInv, TablesOK, TokenOrder
  <2>4. \A m \in Numbers : m = n \/ m > n \/ (m \in Int /\ m <= n - 1)
    BY <2>1, LimitPositive DEF Numbers
  <2>5. \A m \in Numbers : token[j][m] <= n - 1
    BY <2>1, <2>2, <2>3, <2>4, LimitPositive DEF Numbers
  <2>6. t <= n
    BY <1>0, <2>1, <2>5, LimitPositive DEF Successor, Numbers
  <2>7. receipt[j][n] = NoReceipt
    BY <2>1 DEF TableInv, Receipts, Terminal
  <2>8. QED
    BY <2>1, <2>6, <2>7
<1>2. TablesOK'
  <2>1. [number |-> n, token |-> t, live |-> TRUE]
            \in [number : 0..Limit, token : Nat, live : BOOLEAN]
    BY <1>0, NumbersRange
  <2>2. lease' \in [Jobs -> [number : 0..Limit, token : Nat, live : BOOLEAN]]
    BY <1>a, <2>1 DEF TableInv, TablesOK, Acquire
  <2>3. QED
    BY <1>a, <1>0, <2>2 DEF TableInv, TablesOK, Acquire, States
<1>3. /\ \A i \in Jobs, m \in Numbers :
            /\ state'[i][m] = IF i = j /\ m = n THEN "assigned" ELSE state[i][m]
            /\ token'[i][m] = IF i = j /\ m = n THEN t ELSE token[i][m]
      /\ \A i \in Jobs : lease'[i] = IF i = j THEN [number |-> n, token |-> t, live |-> TRUE]
                                     ELSE lease[i]
      /\ UNCHANGED <<last, receipt, artifact, checkpoint>>
  BY <1>a DEF TableInv, TablesOK, Acquire
<1>4. Rows'
  <2>1. ~(n > last[j]) /\ n >= last[j]
    BY <1>1
  <2>2. \A i \in Jobs, m \in Numbers : \/ i = j /\ m = n
                                       \/ state'[i][m] = state[i][m] /\ token'[i][m] = token[i][m]
    BY <1>3
  <2>3. state'[j][n] = "assigned"
    BY <1>3
  <2>4. QED
    BY <1>3, <2>1, <2>2, <2>3 DEF TableInv, Rows, Terminal
<1>5. TokenOrder'
  <2>1. \A m \in Numbers : token[j][m] < t /\ m \in Int /\ token[j][m] \in Nat
    <3>1. \A m \in Numbers : token[j][m] < t
      BY <1>0 DEF Successor
    <3>2. \A m \in Numbers : token[j][m] \in Nat
      BY DEF TableInv, TablesOK
    <3>3. QED
      BY <3>1, <3>2, NumbersRange
  <2>2. ASSUME NEW i \in Jobs, NEW m \in Numbers, NEW k \in Numbers,
               m < k, token'[i][k] # 0
        PROVE  token'[i][m] < token'[i][k]
    <3>1. CASE i = j /\ k = n
      <4>1. m # n
        BY <3>1, <2>2, NumbersRange
      <4>2. token'[i][m] = token[i][m] /\ token'[i][k] = t
        BY <3>1, <4>1, <1>3
      <4>3. QED
        BY <3>1, <4>2, <2>1
    <3>2. CASE i = j /\ m = n
      <4>1. k > last[j]
        BY <3>2, <2>2, <1>1
      <4>2. QED
        BY <3>2, <2>2, <4>1, <1>1, <1>3 DEF TableInv, Rows
    <3>3. CASE ~(i = j /\ k = n) /\ ~(i = j /\ m = n)
      BY <3>3, <2>2, <1>3 DEF TableInv, TokenOrder
    <3>4. QED
      BY <3>1, <3>2, <3>3
  <2>3. \A i \in Jobs, m \in Numbers : token'[i][m] <= m
    BY <1>1, <1>3 DEF TableInv, TokenOrder
  <2>4. t + 1 \in 1..(Limit + 1)
    BY <1>0, <1>1, LimitPositive DEF Numbers
  <2>5. \A i \in Jobs : \E u \in 1..(Limit + 1) : Successor(i, u)'
    <3>1. Successor(j, t + 1)'
      <4>1. \A m \in Numbers : token'[j][m] < t + 1
        BY <2>1, <1>0, <1>3
      <4>2. token'[j][n] = (t + 1) - 1
        BY <1>0, <1>3
      <4>3. QED
        BY <4>1, <4>2 DEF Successor
    <3>2. ASSUME NEW i \in Jobs, i # j PROVE \E u \in 1..(Limit + 1) : Successor(i, u)'
      <4>1. PICK u \in 1..(Limit + 1) : Successor(i, u)
        BY DEF TableInv, TokenOrder
      <4>2. Successor(i, u)'
        BY <4>1, <3>2, <1>3 DEF Successor
      <4>3. QED
        BY <4>2
    <3>3. QED
      BY <3>1, <3>2, <2>4
  <2>6. QED
    BY <2>2, <2>3, <2>5 DEF TokenOrder
<1>6. LeaseIsNewest'
  <2>1. \A m \in Numbers : m > n => token[j][m] = 0
    BY <1>1 DEF TableInv, Rows
  <2>2. \A m \in Numbers : m > n => m # n
    BY <1>1
  <2>3. ASSUME NEW i \in Jobs, i # j, lease[i].number # 0
        PROVE  lease[i].number \in Numbers
    BY <2>3, LeaseRange DEF TableInv
  <2>4. lease'[j].number = n /\ lease'[j].token = t /\ t # 0 /\ n # 0 /\ lease'[j].live
    BY <1>0, <1>3, NumbersRange
  <2>5. ASSUME NEW i \in Jobs
        PROVE  /\ lease'[i].number = 0 => ~lease'[i].live
               /\ lease'[i].number # 0 =>
                     /\ lease'[i].token # 0 /\ token'[i][lease'[i].number] = lease'[i].token
                     /\ \A m \in Numbers : m > lease'[i].number => token'[i][m] = 0
                     /\ receipt'[i][lease'[i].number] = NoReceipt
    <3>1. CASE i = j
      BY <3>1, <1>1, <1>3, <2>1, <2>2, <2>4
    <3>2. CASE i # j
      <4>1. lease'[i] = lease[i] /\ receipt' = receipt
            /\ \A m \in Numbers : token'[i][m] = token[i][m]
        BY <3>2, <1>3
      <4>2. QED
        BY <3>2, <4>1, <2>3 DEF TableInv, LeaseIsNewest
    <3>3. QED
      BY <3>1, <3>2
  <2>6. QED
    BY <2>5 DEF LeaseIsNewest
<1>7. Receipts'
  BY <1>1, <1>3 DEF TableInv, Receipts, ReceiptMatches
<1>8. QED
  BY <1>2, <1>4, <1>5, <1>6, <1>7 DEF TableInv

\* transition moves an open attempt.
LEMMA TransitionKeeps ==
    ASSUME TableInv, NEW j \in Jobs, NEW n \in Numbers, NEW r, NEW to \in States,
           to \notin {"none", "queued"}, Transition(j, n, r, to)
    PROVE  TableInv'
<1>1. state[j][n] \notin Terminal \cup {"none"}
  BY DEF Transition, CanTransition, ValidTransition, Terminal
<1>2. n = last[j] /\ receipt[j][n] = NoReceipt
  <2>1. n \in Int /\ last[j] \in Int
    BY NumbersRange, LimitPositive DEF TableInv, TablesOK
  <2>2. QED
    BY <1>1, <2>1 DEF TableInv, Rows, Receipts
<1>3. \A i \in Jobs, m \in Numbers :
        state'[i][m] = IF i = j /\ m = n THEN to ELSE state[i][m]
  BY DEF TableInv, TablesOK, Transition
<1>4. TablesOK' /\ UNCHANGED <<last, token, receipt, artifact, checkpoint, lease>>
  BY DEF TableInv, TablesOK, Transition
<1>5. Rows'
  <2>1. n >= last[j] /\ ~(n > last[j])
    BY <1>2, NumbersRange
  <2>2. QED
    BY <1>1, <1>3, <1>4, <2>1 DEF TableInv, Rows
<1>6. TokenOrder' /\ LeaseIsNewest'
  BY <1>4 DEF TableInv, TokenOrder, Successor, LeaseIsNewest
<1>7. Receipts'
  BY <1>2, <1>3, <1>4 DEF TableInv, Receipts, ReceiptMatches
<1>8. QED
  BY <1>4, <1>5, <1>6, <1>7 DEF TableInv

\* Whoever passes the fence holds the newest token, and its attempt has no
\* receipt yet.
LEMMA FenceMeansNewest ==
    ASSUME TableInv, NEW j \in Jobs, NEW n \in Numbers, NEW t, Fenced(j, n, t)
    PROVE  /\ lease[j].live /\ lease[j].number = n /\ n # 0
           /\ token[j][n] = t /\ t # 0
           /\ \A m \in Numbers : token[j][m] <= token[j][n]
           /\ receipt[j][n] = NoReceipt
           /\ state[j][n] \notin {"none", "queued"}
<1>1. lease[j].live /\ lease[j].number = n /\ n # 0 /\ lease[j].token = t
  BY LimitPositive DEF Fenced, Numbers
<1>2. /\ token[j][n] = t /\ t # 0 /\ receipt[j][n] = NoReceipt
      /\ \A m \in Numbers : m > n => token[j][m] = 0
  BY <1>1 DEF TableInv, LeaseIsNewest
<1>3. \A m \in Numbers : token[j][m] \in Nat /\ (m < n \/ m = n \/ m > n)
  BY LimitPositive DEF TableInv, TablesOK, Numbers
<1>4. \A m \in Numbers : token[j][m] <= token[j][n]
  BY <1>2, <1>3 DEF TableInv, TokenOrder
<1>5. state[j][n] \notin {"none", "queued"}
  BY <1>2 DEF TableInv, Rows
<1>6. QED
  BY <1>1, <1>2, <1>4, <1>5

\* checkpoint and commit_artifact write only for an attempt without receipt.
LEMMA PublishKeeps ==
    ASSUME TableInv, NEW j \in Jobs, NEW n \in Numbers, NEW t,
           Checkpoint(j, n, t) \/ CommitArtifact(j, n, t)
    PROVE  TableInv'
<1>1. Fenced(j, n, t) /\ UNCHANGED <<last, state, revision, token, receipt, lease>>
  BY DEF Checkpoint, CommitArtifact
<1>2. receipt[j][n] = NoReceipt
  BY <1>1, FenceMeansNewest
<1>3. TablesOK'
  <2>1. CASE Checkpoint(j, n, t)
    BY <2>1, NumbersRange DEF TableInv, TablesOK, Checkpoint
  <2>2. CASE CommitArtifact(j, n, t)
    BY <2>2, NumbersRange DEF TableInv, TablesOK, CommitArtifact
  <2>3. QED
    BY <2>1, <2>2
<1>4. Rows' /\ TokenOrder' /\ LeaseIsNewest'
  BY <1>1 DEF TableInv, Rows, TokenOrder, Successor, LeaseIsNewest
<1>5. \A i \in Jobs, m \in Numbers : receipt[i][m] # NoReceipt =>
        /\ (artifact'[i] = m) <=> (artifact[i] = m)
        /\ (checkpoint'[i] = m) <=> (checkpoint[i] = m)
  BY <1>2, NumbersRange DEF TableInv, TablesOK, Checkpoint, CommitArtifact
<1>6. Receipts'
  <2> SUFFICES ASSUME NEW i \in Jobs, NEW m \in Numbers, receipt'[i][m] # NoReceipt
               PROVE  /\ state'[i][m] \in Terminal
                      /\ receipt'[i][m] = [state      |-> state'[i][m],
                                           artifact   |-> artifact'[i] = m,
                                           checkpoint |-> checkpoint'[i] = m]
    BY DEF Receipts, ReceiptMatches
  <2>1. receipt[i][m] # NoReceipt /\ receipt'[i][m] = receipt[i][m] /\ state'[i][m] = state[i][m]
    BY <1>1
  <2>2. (artifact'[i] = m) = (artifact[i] = m) /\ (checkpoint'[i] = m) = (checkpoint[i] = m)
    BY <1>5, <2>1
  <2>3. QED
    BY <2>1, <2>2 DEF TableInv, Receipts, ReceiptMatches
<1>7. QED
  BY <1>3, <1>4, <1>6 DEF TableInv

\* complete gives the attempt its outcome and receipt and removes the lease.
LEMMA CompleteKeeps ==
    ASSUME TableInv, NEW j \in Jobs, NEW n \in Numbers, NEW t, NEW to \in Terminal,
           Complete(j, n, t, to)
    PROVE  TableInv'
<1>1. Fenced(j, n, t)
  BY DEF Complete, CanComplete
<1>2. receipt[j][n] = NoReceipt /\ state[j][n] # "none"
  BY <1>1, FenceMeansNewest
<1>3. TablesOK'
  BY LimitPositive DEF TableInv, TablesOK, Complete, States, NoLease
<1>4. /\ \A i \in Jobs, m \in Numbers :
           /\ state'[i][m] = IF i = j /\ m = n THEN to ELSE state[i][m]
           /\ receipt'[i][m] = IF i = j /\ m = n
                               THEN [state |-> to, artifact |-> artifact[j] = n,
                                     checkpoint |-> checkpoint[j] = n]
                               ELSE receipt[i][m]
      /\ \A i \in Jobs : lease'[i] = IF i = j THEN NoLease ELSE lease[i]
      /\ UNCHANGED <<last, token, artifact, checkpoint>>
  BY <1>2 DEF TableInv, TablesOK, Complete
<1>5. ~(n > last[j])
  BY <1>2 DEF TableInv, Rows
<1>6. Rows'
  BY <1>4, <1>5 DEF TableInv, Rows, Terminal
<1>7. TokenOrder'
  BY <1>4 DEF TableInv, TokenOrder, Successor
<1>8. LeaseIsNewest'
  <2>1. ASSUME NEW i \in Jobs, i # j, lease[i].number # 0
        PROVE  lease[i].number \in Numbers
    BY <2>1, LeaseRange DEF TableInv
  <2>2. QED
    BY <1>4, <2>1 DEF TableInv, LeaseIsNewest, NoLease
<1>9. Receipts'
  BY <1>4 DEF TableInv, Receipts, ReceiptMatches
<1>10. QED
  BY <1>3, <1>6, <1>7, <1>8, <1>9 DEF TableInv

\* recover_expired interrupts an abandoned attempt and queues the next one.
LEMMA RecoverKeeps ==
    ASSUME TableInv, NEW j \in Jobs, Expired(j), Recover(j)
    PROVE  TableInv'
<1> DEFINE n == lease[j].number
           k == last'[j]
<1>1. n \in Numbers /\ n \in Int /\ last[j] \in 0..Limit
      /\ state[j][n] \notin {"none", "queued"} /\ receipt[j][n] = NoReceipt
      /\ n <= last[j]
  <2>1. n \in Numbers /\ n \in Int /\ last[j] \in 0..Limit
    BY LimitPositive DEF TableInv, TablesOK, Expired, Numbers
  <2>2. token[j][n] # 0 /\ receipt[j][n] = NoReceipt
    BY DEF TableInv, LeaseIsNewest, Expired
  <2>3. QED
    BY <2>1, <2>2 DEF TableInv, Rows
<1>2. /\ n < Limit => last[j] = n /\ k = n + 1
      /\ ~(n < Limit) => last[j] = n /\ k = n
  BY <1>1, LimitPositive DEF Recover, CanRecover, TableInv, TablesOK, Numbers
<1>3. /\ \A i \in Jobs : last'[i] = IF i = j THEN k ELSE last[i]
      /\ \A i \in Jobs, m \in Numbers :
           /\ state'[i][m] = IF i = j /\ m = n THEN Interrupted(state[j][n])
                             ELSE IF i = j /\ m > n /\ m = k THEN "queued"
                             ELSE state[i][m]
           /\ token'[i][m] = token[i][m]
      /\ \A i \in Jobs : lease'[i] = IF i = j THEN NoLease ELSE lease[i]
      /\ UNCHANGED <<receipt, artifact, checkpoint>>
  <2>1. CASE n < Limit
    <3>1. n + 1 \in Numbers /\ token[j][n + 1] = 0 /\ n + 1 # n /\ n + 1 > n
      BY <1>1, <1>2, <2>1, LimitPositive DEF TableInv, Rows, Numbers
    <3>2. QED
      BY <1>1, <1>2, <2>1, <3>1 DEF Recover, TableInv, TablesOK
  <2>2. CASE ~(n < Limit)
    BY <1>1, <1>2, <2>2 DEF Recover, TableInv, TablesOK
  <2>3. QED
    BY <2>1, <2>2
<1>4. Interrupted(state[j][n]) \in Terminal
  BY DEF Interrupted, Terminal
<1>5. TablesOK'
  <2>1. /\ revision' \in [Jobs -> [Numbers -> Nat]] /\ token' \in [Jobs -> [Numbers -> Nat]]
        /\ state' \in [Jobs -> [Numbers -> States]]
    <3>0. /\ Interrupted(state[j][n]) \in States /\ "queued" \in States
          /\ (IF state[j][n] \in Terminal THEN revision[j][n] ELSE revision[j][n] + 1) \in Nat
      BY <1>1, <1>4 DEF States, TableInv, TablesOK
    <3>1. CASE n < Limit
      <4>1. state' = [state EXCEPT ![j][n] = Interrupted(state[j][n]), ![j][n + 1] = "queued"]
        BY <3>1 DEF Recover
      <4>2. revision' = [revision EXCEPT
                ![j][n] = IF state[j][n] \in Terminal THEN revision[j][n] ELSE revision[j][n] + 1,
                ![j][n + 1] = 0]
        BY <3>1 DEF Recover
      <4>3. token' = [token EXCEPT ![j][n + 1] = 0]
        BY <3>1 DEF Recover
      <4>4. QED
        BY <3>0, <4>1, <4>2, <4>3 DEF TableInv, TablesOK
    <3>2. CASE ~(n < Limit)
      <4>1. state' = [state EXCEPT ![j][n] = Interrupted(state[j][n])]
        BY <3>2 DEF Recover
      <4>2. revision' = [revision EXCEPT
                ![j][n] = IF state[j][n] \in Terminal THEN revision[j][n] ELSE revision[j][n] + 1]
        BY <3>2 DEF Recover
      <4>3. token' = token
        BY <3>2 DEF Recover
      <4>4. QED
        BY <3>0, <4>1, <4>2, <4>3 DEF TableInv, TablesOK
    <3>3. QED
      BY <3>1, <3>2
  <2>2. k \in 0..Limit
    BY <1>1, <1>2, LimitPositive DEF Numbers
  <2>3. last' \in [Jobs -> 0..Limit]
    BY <2>2, <1>1 DEF Recover, TableInv, TablesOK
  <2>4. lease' \in [Jobs -> [number : 0..Limit, token : Nat, live : BOOLEAN]]
    BY LimitPositive DEF Recover, TableInv, TablesOK, NoLease
  <2>5. QED
    BY <2>1, <2>3, <2>4 DEF Recover, TableInv, TablesOK
<1>6. Rows'
  <2> SUFFICES ASSUME NEW i \in Jobs, NEW m \in Numbers
               PROVE  /\ state'[i][m] = "none" <=> m > last'[i]
                      /\ m > last'[i] => token'[i][m] = 0 /\ receipt'[i][m] = NoReceipt
                      /\ state'[i][m] = "queued" => token'[i][m] = 0
                      /\ state'[i][m] \notin Terminal => m >= last'[i]
    BY DEF Rows
  <2>1. CASE i # j
    BY <2>1, <1>3 DEF TableInv, Rows
  <2>2. CASE i = j /\ m = n
    BY <2>2, <1>1, <1>2, <1>3, <1>4 DEF Terminal
  <2>3. CASE i = j /\ m > n /\ m = k
    BY <2>3, <1>1, <1>2, <1>3 DEF TableInv, Rows, Terminal, Numbers
  <2>4. CASE i = j /\ m # n /\ ~(m > n /\ m = k)
    <3>1. m \in Int /\ (m < n \/ m > k) /\ k >= n
      BY <2>4, <1>1, <1>2, LimitPositive DEF Numbers
    <3>2. CASE m < n
      <4>1. state[j][m] \in Terminal
        BY <3>1, <3>2, <1>1, <1>2 DEF TableInv, Rows
      <4>2. QED
        BY <2>4, <3>1, <3>2, <4>1, <1>1, <1>2, <1>3 DEF Terminal
    <3>3. CASE m > k
      <4>1. m > last[j]
        BY <3>1, <3>3, <1>1, <1>2
      <4>2. QED
        BY <2>4, <3>1, <3>3, <4>1, <1>1, <1>2, <1>3 DEF TableInv, Rows
    <3>4. QED
      BY <3>1, <3>2, <3>3
  <2>5. QED
    BY <2>1, <2>2, <2>3, <2>4
<1>7. TokenOrder'
  BY <1>3 DEF TableInv, TokenOrder, Successor
<1>8. LeaseIsNewest'
  <2>1. ASSUME NEW i \in Jobs, i # j, lease[i].number # 0
        PROVE  lease[i].number \in Numbers
    BY <2>1, LeaseRange DEF TableInv
  <2>2. QED
    BY <1>3, <2>1 DEF TableInv, LeaseIsNewest, NoLease
<1>9. Receipts'
  <2>1. \A m \in Numbers : m > n => receipt[j][m] = NoReceipt
    BY <1>1, <1>2 DEF TableInv, Rows
  <2>2. QED
    BY <1>1, <1>3, <2>1 DEF TableInv, Receipts, ReceiptMatches
<1>10. QED
  BY <1>5, <1>6, <1>7, <1>8, <1>9 DEF TableInv

\* The passing of time only makes a lease stale.
LEMMA ExpireKeeps ==
    ASSUME TableInv, NEW j \in Jobs, Expire(j)
    PROVE  TableInv'
<1>1. /\ \A i \in Jobs : lease'[i].number = lease[i].number /\ lease'[i].token = lease[i].token
                         /\ (lease'[i].live => lease[i].live)
      /\ UNCHANGED <<last, state, revision, token, receipt, artifact, checkpoint>>
  BY DEF Expire, TableInv, TablesOK
<1>2. TablesOK'
  BY DEF Expire, TableInv, TablesOK
<1>3. Rows' /\ TokenOrder' /\ Receipts'
  BY <1>1 DEF TableInv, Rows, TokenOrder, Successor, Receipts, ReceiptMatches
<1>4. LeaseIsNewest'
  BY <1>1 DEF TableInv, LeaseIsNewest
<1>5. QED
  BY <1>2, <1>3, <1>4 DEF TableInv

\* A call that is refused leaves the tables as they are.
LEMMA TablesUnchanged == ASSUME TableInv, UNCHANGED tables PROVE TableInv'
BY DEF tables, TableInv, TablesOK, Rows, TokenOrder, Successor, LeaseIsNewest,
   Receipts, ReceiptMatches

-----------------------------------------------------------------------------
\* A token that was issued stays with its attempt.
TokensKept == \A i \in Jobs, m \in Numbers :
                  token[i][m] # 0 => token'[i][m] = token[i][m]

\* A new attempt has no token; those of the others stay (queue_followup).
LEMMA QueueKeepsTokens ==
    ASSUME TableInv, NEW j \in Jobs, Queue(j, last[j] + 1)
    PROVE  TokensKept
<1>1. last[j] \in Int
  BY LimitPositive DEF TableInv, TablesOK
<1>2. \A m \in Numbers : m = last[j] + 1 => token[j][m] = 0
  BY <1>1 DEF TableInv, Rows
<1>3. QED
  BY <1>2 DEF TableInv, TablesOK, Queue, TokensKept

\* acquire gives a token only to the attempt that had none.
LEMMA AcquireKeepsTokens ==
    ASSUME TableInv, NEW j \in Jobs, NEW n \in Numbers, Acquire(j, n)
    PROVE  TokensKept /\ token'[j][n] = NextToken(j)
<1>1. token[j][n] = 0
  BY DEF TableInv, Rows, Acquire
<1>2. QED
  BY <1>1 DEF TableInv, TablesOK, Acquire, TokensKept

\* recover_expired gives out and takes away no token.
LEMMA RecoverKeepsTokens ==
    ASSUME TableInv, NEW j \in Jobs, Expired(j), Recover(j)
    PROVE  TokensKept
<1> DEFINE n == lease[j].number
<1>1. n \in Numbers /\ n \in Int
  BY LeaseRange, NumbersRange DEF Expired, TableInv
<1>2. \A m \in Numbers : m = n + 1 => token[j][m] = 0
  BY <1>1 DEF Expired, TableInv, LeaseIsNewest
<1>3. CASE n < Limit
  <2>1. token' = [token EXCEPT ![j][n + 1] = 0]
    BY <1>3 DEF Recover
  <2>2. QED
    BY <1>2, <2>1 DEF TableInv, TablesOK, TokensKept
<1>4. CASE ~(n < Limit)
  BY <1>4 DEF Recover, TokensKept
<1>5. QED
  BY <1>3, <1>4

\* The rows of a job whose last attempt is terminal, or which has none.
LEMMA AllClosed ==
    ASSUME TableInv, NEW j \in Jobs,
           last[j] = 0 \/ state[j][last[j]] \in Terminal
    PROVE  \A n \in Numbers : state[j][n] \in Terminal \cup {"none"}
<1>1. \A n \in Numbers : n \in Int /\ last[j] \in Int /\ n >= 1
  BY NumbersRange, LimitPositive DEF TableInv, TablesOK
<1>2. QED
  BY <1>1 DEF TableInv, Rows

\* A worker that is not idle has a lease of some attempt.
LEMMA HeldTyped ==
    ASSUME TypeOK, pc # "idle"
    PROVE  held \in Holds /\ held.job \in Jobs /\ held.number \in Numbers
           /\ held.token # 0 /\ held # NoHold
BY DEF TypeOK, Holds

\* What a session holds is a lease of an attempt of a job.
LEMMA SessionTyped ==
    ASSUME TypeOK, NEW s \in Sessions, session[s] # NoHold
    PROVE  session[s] \in Holds /\ session[s].job \in Jobs
           /\ session[s].number \in Numbers /\ session[s].token # 0
BY DEF TypeOK, Holds

\* The steps of the embedded worker that call the scheduler.
LEMMA WorkerTables ==
    ASSUME IInv, WorkerNext
    PROVE  TableInv' /\ TokensKept
<1> USE DEF IInv
<1>1. ASSUME NEW j \in Jobs, NEW n \in Numbers, WorkerAcquire(j, n)
      PROVE  TableInv' /\ TokensKept
  BY <1>1, AcquireKeeps, AcquireKeepsTokens DEF WorkerAcquire
<1>2. ASSUME NEW to \in Terminal, pc # "idle", WorkerComplete(to)
      PROVE  TableInv' /\ TokensKept
  <2>1. CASE Complete(held.job, held.number, held.token, to)
    <3>1. TableInv'
      BY <1>2, <2>1, HeldTyped, CompleteKeeps
    <3>2. QED
      BY <3>1, <2>1 DEF Complete, TokensKept
  <2>2. CASE UNCHANGED tables
    BY <2>2, TablesUnchanged DEF tables, TokensKept
  <2>3. QED
    BY <1>2, <2>1, <2>2 DEF WorkerComplete
<1>3. ASSUME NEW from \in Stages, NEW to \in {"preparing", "running"}, from # "idle",
             WorkerTransition(from, to)
      PROVE  TableInv' /\ TokensKept
  <2>1. pc # "idle" /\ to \in States /\ to \notin {"none", "queued"}
    BY <1>3 DEF WorkerTransition, At, States
  <2>2. CASE Transition(held.job, held.number, seen, to)
    <3>1. TableInv'
      BY <2>1, <2>2, HeldTyped, TransitionKeeps
    <3>2. QED
      BY <3>1, <2>2 DEF Transition, TokensKept
  <2>3. CASE UNCHANGED tables
    BY <2>3, TablesUnchanged DEF tables, TokensKept
  <2>4. QED
    BY <1>3, <2>2, <2>3 DEF WorkerTransition
<1>4. CASE WorkerDenied \/ FailEnforcement \/ WorkerFinish
  <2>1. pc # "idle" /\ "failed" \in Terminal
    BY <1>4 DEF WorkerDenied, FailEnforcement, WorkerFinish, At, Terminal
  <2>2. WorkerFinish => verdict \in Terminal
    BY DEF WorkerFinish, At, Decided
  <2>3. QED
    BY <1>4, <1>2, <2>1, <2>2 DEF WorkerDenied, FailEnforcement, WorkerFinish
<1>5. CASE WorkerPrepare \/ WorkerRun
  BY <1>5, <1>3 DEF WorkerPrepare, WorkerRun, Stages
<1>6. CASE WorkerPublish
  <2>1. CASE CommitArtifact(held.job, held.number, held.token)
    <3>1. pc # "idle"
      BY <1>6 DEF WorkerPublish, At
    <3>2. TableInv'
      BY <3>1, <2>1, HeldTyped, PublishKeeps
    <3>3. QED
      BY <3>2, <2>1 DEF CommitArtifact, TokensKept
  <2>2. CASE UNCHANGED tables
    BY <2>2, TablesUnchanged DEF tables, TokensKept
  <2>3. QED
    BY <1>6, <2>1, <2>2 DEF WorkerPublish
<1>7. CASE WorkerSnapshot \/ WorkerReap \/ WorkerPoll \/ WorkerRenew \/ WorkerIOError
           \/ WorkerDecide
  <2>1. UNCHANGED tables
    BY <1>7 DEF WorkerSnapshot, WorkerReap, WorkerPoll, WorkerRenew, WorkerIOError,
       WorkerDecide
  <2>2. QED
    BY <2>1, TablesUnchanged DEF tables, TokensKept
<1>8. QED
  BY <1>1, <1>4, <1>5, <1>6, <1>7 DEF WorkerNext, WorkerWork

\* The requests of clients.
LEMMA ClientTables ==
    ASSUME IInv, ClientNext
    PROVE  TableInv' /\ TokensKept
<1> USE DEF IInv
<1>1. PICK j \in Jobs : Submit(j) \/ Cancel(j) \/ Retry(j) \/ Resume(j)
  BY DEF ClientNext
<1>2. last[j] \in 0..Limit
  BY DEF TableInv, TablesOK
<1>3. CASE Submit(j)
  <2>1. last[j] = 0 /\ last[j] < Limit /\ Queue(j, last[j] + 1)
        /\ UNCHANGED <<receipt, artifact, checkpoint, lease>>
    BY <1>3, LimitPositive DEF Submit
  <2>2. QED
    BY <2>1, AllClosed, QueueKeeps, QueueKeepsTokens
<1>4. CASE Retry(j) \/ Resume(j)
  <2>1. last[j] < Limit /\ Queue(j, last[j] + 1) /\ state[j][last[j]] \in Terminal
        /\ UNCHANGED <<receipt, artifact, checkpoint, lease>>
    BY <1>4 DEF Retry, Resume, QueueFollowup
  <2>2. QED
    BY <2>1, AllClosed, QueueKeeps, QueueKeepsTokens
<1>5. CASE Cancel(j)
  <2>1. last[j] \in Numbers
    BY <1>2, <1>5, LimitPositive DEF Cancel, Numbers
  <2>2. "canceled" \in States /\ "canceled" \notin {"none", "queued"}
    BY DEF States, Terminal
  <2>3. Transition(j, last[j], revision[j][last[j]], "canceled")
    BY <1>5 DEF Cancel
  <2>4. TableInv'
    BY <2>1, <2>2, <2>3, TransitionKeeps
  <2>5. QED
    BY <2>3, <2>4 DEF Transition, TokensKept
<1>6. QED
  BY <1>1, <1>3, <1>4, <1>5

\* The requests of sessions.
LEMMA SessionTables ==
    ASSUME IInv, SessionNext
    PROVE  TableInv' /\ TokensKept
<1> USE DEF IInv
<1>1. PICK s \in Sessions :
        \/ \E j \in Jobs, n \in Numbers : SessionAcquire(s, j, n)
        \/ SessionCheckpoint(s) \/ SessionForget(s)
        \/ \E to \in Terminal : SessionComplete(s, to)
  BY DEF SessionNext
<1>2. ASSUME NEW j \in Jobs, NEW n \in Numbers, SessionAcquire(s, j, n)
      PROVE  TableInv' /\ TokensKept
  BY <1>2, AcquireKeeps, AcquireKeepsTokens DEF SessionAcquire
<1>3. CASE SessionCheckpoint(s)
  <2>1. TableInv'
    BY <1>3, SessionTyped, PublishKeeps DEF SessionCheckpoint
  <2>2. QED
    BY <1>3, <2>1 DEF SessionCheckpoint, Checkpoint, TokensKept
<1>4. ASSUME NEW to \in Terminal, SessionComplete(s, to)
      PROVE  TableInv' /\ TokensKept
  <2>1. TableInv'
    BY <1>4, SessionTyped, CompleteKeeps DEF SessionComplete
  <2>2. QED
    BY <1>4, <2>1 DEF SessionComplete, Complete, TokensKept
<1>5. CASE SessionForget(s)
  BY <1>5, TablesUnchanged DEF SessionForget, tables, TokensKept
<1>6. QED
  BY <1>1, <1>2, <1>3, <1>4, <1>5

\* Every step keeps the invariant of the tables, and every issued token.
LEMMA TablesStep ==
    ASSUME IInv, [Next]_vars
    PROVE  TableInv' /\ TokensKept
<1> USE DEF IInv
<1>1. CASE StartupNext
  <2>1. ASSUME NEW j \in Jobs, StartupRecover(j), Recover(j)
        PROVE  TableInv' /\ TokensKept
    <3>1. Expired(j)
      BY <2>1 DEF StartupRecover, Recovering
    <3>2. QED
      BY <2>1, <3>1, RecoverKeeps, RecoverKeepsTokens
  <2>2. CASE UNCHANGED tables
    BY <2>2, TablesUnchanged DEF tables, TokensKept
  <2>3. QED
    BY <1>1, <2>1, <2>2 DEF StartupNext, Start, Serve, StartupRecover
<1>2. CASE TimePasses
  <2>1. PICK j \in Jobs : Expire(j)
    BY <1>2 DEF TimePasses
  <2>2. QED
    BY <2>1, ExpireKeeps DEF Expire, TokensKept
<1>3. CASE Crash \/ ProcessExit \/ UNCHANGED vars
  BY <1>3, TablesUnchanged DEF Crash, ProcessExit, vars, tables, TokensKept
<1>4. QED
  BY <1>1, <1>2, <1>3, WorkerTables, ClientTables, SessionTables DEF Next

-----------------------------------------------------------------------------
\* Everything the worker, the sessions and the daemon keep has its type.
WorkerOK ==
    /\ pc \in Stages
    /\ held \in Holds \cup {NoHold} /\ (held = NoHold <=> pc = "idle")
    /\ seen \in Nat /\ exited \in BOOLEAN
    /\ verdict \in {"none"} \cup Terminal
    /\ Decided

\* The lease that acquire returns is well formed.
LEMMA NewHold ==
    ASSUME TableInv, NEW j \in Jobs, NEW n \in Numbers
    PROVE  /\ [job |-> j, number |-> n, token |-> NextToken(j)] \in Holds
           /\ [job |-> j, number |-> n, token |-> NextToken(j)] # NoHold
<1>1. NextToken(j) \in Nat \ {0}
  BY TokenFresh, LimitPositive
<1>2. n # 0
  BY NumbersRange
<1>3. QED
  BY <1>1, <1>2 DEF Holds, NoHold

\* Every step keeps the locals of run_once well typed.
LEMMA WorkerStep ==
    ASSUME IInv, [Next]_vars
    PROVE  WorkerOK'
<1> USE DEF IInv
<1>0. WorkerOK
  BY DEF WorkerOK, TypeOK
<1>1. ASSUME Idle PROVE WorkerOK'
  <2>1. pc' = "idle" /\ held' = NoHold /\ seen' = 0 /\ exited' = FALSE /\ verdict' = "none"
    BY <1>1 DEF Idle
  <2>2. Decided'
    BY <2>1 DEF Decided
  <2>3. QED
    BY <2>1, <2>2 DEF WorkerOK, Stages
<1>2. UNCHANGED workerVars => WorkerOK'
  BY <1>0 DEF workerVars, WorkerOK, Decided
<1>3. ASSUME NEW j \in Jobs, NEW n \in Numbers, WorkerAcquire(j, n)
      PROVE  WorkerOK'
  BY <1>0, <1>3, NewHold DEF WorkerAcquire, Goto, WorkerOK, Stages, Decided
<1>4. CASE WorkerSnapshot
  <2>1. held.job \in Jobs /\ held.number \in Numbers /\ pc = "leased"
    BY <1>4, HeldTyped DEF WorkerSnapshot, At
  <2>2. held # NoHold /\ token[held.job][held.number] # 0 /\ last[held.job] \in 0..Limit
    BY <2>1, HeldTyped DEF Holders, HoldsIssued, TableInv, TablesOK
  <2>3. last[held.job] # 0
    BY <2>1, <2>2, NumbersRange DEF TableInv, Rows
  <2>4. last[held.job] \in Numbers
    BY <2>2, <2>3, LimitPositive DEF Numbers
  <2>5. seen' \in Nat
    BY <1>4, <2>1, <2>4 DEF WorkerSnapshot, TableInv, TablesOK
  <2>6. QED
    BY <1>0, <1>4, <2>5 DEF WorkerSnapshot, At, Goto, WorkerOK, Stages, Decided
<1>5. CASE WorkerPrepare \/ WorkerRun
  BY <1>0, <1>1, <1>5 DEF WorkerPrepare, WorkerRun, WorkerTransition, At, Goto,
     WorkerOK, Stages, Decided
<1>6. CASE WorkerReap \/ WorkerPoll \/ WorkerDecide \/ ProcessExit
  BY <1>0, <1>6 DEF WorkerReap, WorkerPoll, WorkerDecide, ProcessExit, At, Goto,
     WorkerOK, Stages, Decided, Terminal
<1>7. CASE WorkerRenew \/ WorkerPublish
  BY <1>0, <1>1, <1>7 DEF WorkerRenew, WorkerPublish, At, Goto, WorkerOK, Stages, Decided
<1>8. CASE WorkerDenied \/ FailEnforcement \/ WorkerFinish \/ WorkerIOError \/ Crash
  BY <1>1, <1>8 DEF WorkerDenied, FailEnforcement, WorkerFinish, WorkerIOError, Crash,
     WorkerComplete
<1>9. CASE ClientNext \/ SessionNext \/ StartupNext \/ TimePasses \/ UNCHANGED vars
  BY <1>2, <1>9 DEF ClientNext, SessionNext, StartupNext, TimePasses, Serving,
     SessionAcquire, SessionCheckpoint, SessionComplete, SessionForget, Start, Serve,
     StartupRecover, vars
<1>10. QED
  BY <1>3, <1>4, <1>5, <1>6, <1>7, <1>8, <1>9 DEF Next, WorkerNext, WorkerWork

\* How a step changes what the workers remember: one of them gets a lease, or
\* all keep or forget theirs.
LEMMA HoldCases ==
    ASSUME IInv, [Next]_vars
    PROVE  \/ \E j \in Jobs, n \in Numbers : WorkerAcquire(j, n)
           \/ \E s \in Sessions, j \in Jobs, n \in Numbers : SessionAcquire(s, j, n)
           \/ \E s \in Sessions : SessionForget(s)
           \/ held' \in {held, NoHold} /\ session' = session
<1>1. CASE WorkerNext
  <2>1. CASE \E j \in Jobs, n \in Numbers : WorkerAcquire(j, n)
    BY <2>1
  <2>2. CASE WorkerSnapshot \/ WorkerDenied \/ WorkerPrepare \/ WorkerRun \/ WorkerReap
             \/ WorkerPoll \/ WorkerRenew \/ WorkerDecide \/ WorkerFinish
    BY <2>2 DEF WorkerSnapshot, WorkerDenied, WorkerPrepare, WorkerRun, WorkerReap,
       WorkerPoll, WorkerRenew, WorkerDecide, WorkerFinish, WorkerTransition,
       WorkerComplete, At, Idle
  <2>3. CASE FailEnforcement \/ WorkerIOError \/ WorkerPublish
    BY <2>3 DEF FailEnforcement, WorkerIOError, WorkerPublish, WorkerComplete, At, Idle
  <2>4. QED
    BY <1>1, <2>1, <2>2, <2>3 DEF WorkerNext, WorkerWork
<1>2. CASE SessionNext
  BY <1>2 DEF SessionNext, SessionCheckpoint, SessionComplete, Serving, workerVars
<1>3. CASE ClientNext \/ StartupNext \/ Crash \/ TimePasses \/ ProcessExit \/ UNCHANGED vars
  BY <1>3 DEF ClientNext, StartupNext, Crash, TimePasses, ProcessExit, Serving, Start,
     Serve, StartupRecover, Idle, vars, workerVars
<1>4. QED
  BY <1>1, <1>2, <1>3 DEF Next

\* A lease that is remembered was issued, and no two are the same.
LEMMA HoldStep ==
    ASSUME IInv, [Next]_vars, TokensKept, TableInv'
    PROVE  /\ Holders' /\ NoSharedFence'
           /\ session' \in [Sessions -> Holds \cup {NoHold}]
<1> USE DEF IInv
<1>0. /\ held \in Holds \cup {NoHold} /\ session \in [Sessions -> Holds \cup {NoHold}]
      /\ \A h \in Holds : h.job \in Jobs /\ h.number \in Numbers /\ h.token # 0 /\ h # NoHold
  BY NumbersRange DEF TypeOK, Holds, NoHold
<1>1. \A h \in Holds \cup {NoHold} : HoldsIssued(h) =>
          (h # NoHold => token'[h.job][h.number] = h.token)
  BY <1>0 DEF HoldsIssued, TokensKept
<1>2. \A h \in Holds : HoldsIssued(h) => h.token < NextToken(h.job)
  BY <1>0, TokenFresh DEF HoldsIssued, Successor
<1>3. \A h \in Holds : h.token \in Nat
  BY DEF Holds
<1>4. ASSUME NEW j \in Jobs, NEW n \in Numbers, WorkerAcquire(j, n)
      PROVE  /\ Holders' /\ NoSharedFence'
             /\ session' \in [Sessions -> Holds \cup {NoHold}]
  <2>1. PICK h : h = [job |-> j, number |-> n, token |-> NextToken(j)]
    OBVIOUS
  <2>2. held' = h /\ session' = session /\ h \in Holds /\ h # NoHold
        /\ token'[j][n] = NextToken(j)
    BY <1>4, <2>1, NewHold, AcquireKeepsTokens DEF WorkerAcquire, At
  <2>3. Holders'
    BY <1>0, <1>1, <2>1, <2>2 DEF Holders, HoldsIssued
  <2>4. \A s \in Sessions : ~(session[s].job = h.job /\ session[s].token = h.token)
    <3> SUFFICES ASSUME NEW s \in Sessions, session[s].job = h.job, session[s].token = h.token
                 PROVE  FALSE
      OBVIOUS
    <3>1. session[s] \in Holds
      BY <1>0, <2>1, NoJobAssumption DEF NoHold
    <3>2. session[s].token < NextToken(j) /\ session[s].token \in Nat
      BY <1>2, <1>3, <2>1, <3>1 DEF Holders
    <3>3. QED
      BY <2>1, <3>2
  <2>5. QED
    BY <1>0, <2>2, <2>3, <2>4 DEF NoSharedFence
<1>5. ASSUME NEW r \in Sessions, NEW j \in Jobs, NEW n \in Numbers, SessionAcquire(r, j, n)
      PROVE  /\ Holders' /\ NoSharedFence'
             /\ session' \in [Sessions -> Holds \cup {NoHold}]
  <2>1. PICK h : h = [job |-> j, number |-> n, token |-> NextToken(j)]
    OBVIOUS
  <2>2. /\ held' = held /\ h \in Holds /\ h # NoHold /\ token'[j][n] = NextToken(j)
        /\ session' = [session EXCEPT ![r] = h]
    BY <1>5, <2>1, NewHold, AcquireKeepsTokens DEF SessionAcquire, Serving, workerVars
  <2>3. session' \in [Sessions -> Holds \cup {NoHold}]
        /\ \A s \in Sessions : session'[s] = IF s = r THEN h ELSE session[s]
    BY <1>0, <2>2
  <2>4. Holders'
    BY <1>0, <1>1, <2>1, <2>2, <2>3 DEF Holders, HoldsIssued
  <2>5. ASSUME NEW g \in Holds \cup {NoHold}, HoldsIssued(g), g.job = h.job, g.token = h.token
        PROVE  FALSE
    <3>1. g \in Holds
      BY <2>1, <2>5, NoJobAssumption DEF NoHold
    <3>2. g.token < NextToken(j) /\ g.token \in Nat
      BY <1>2, <1>3, <2>1, <2>5, <3>1
    <3>3. QED
      BY <2>1, <2>5, <3>2
  <2>6. QED
    BY <1>0, <2>2, <2>3, <2>4, <2>5 DEF NoSharedFence, Holders
<1>6. CASE \/ \E s \in Sessions : SessionForget(s)
           \/ held' \in {held, NoHold} /\ session' = session
  <2>1. /\ held' \in {held, NoHold}
        /\ session' \in [Sessions -> Holds \cup {NoHold}]
        /\ \A s \in Sessions : session'[s] \in {session[s], NoHold}
    BY <1>0, <1>6 DEF SessionForget, workerVars
  <2>2. Holders'
    BY <1>0, <1>1, <2>1 DEF Holders, HoldsIssued
  <2>3. NoSharedFence'
    <3>1. \A h \in Holds \cup {NoHold} : h # NoHold => h.job # NoHold.job
      BY <1>0, NoJobAssumption DEF NoHold
    <3>2. QED
      BY <1>0, <2>1, <3>1 DEF NoSharedFence
  <2>4. QED
    BY <2>1, <2>2, <2>3
<1>7. QED
  BY <1>4, <1>5, <1>6, HoldCases

\* Only startup has leases to recover, and they stay expired until it does.
LEMMA DaemonStep ==
    ASSUME IInv, [Next]_vars
    PROVE  daemon' \in {"down", "starting", "up"} /\ recovering' \subseteq Jobs /\ Recovering'
<1> USE DEF IInv
<1>0. daemon \in {"down", "starting", "up"} /\ recovering \subseteq Jobs
  BY DEF TypeOK
<1>1. daemon = "up" => recovering = {}
  BY DEF Recovering
<1>2. CASE daemon = "up" /\ UNCHANGED <<daemon, recovering>>
  BY <1>0, <1>1, <1>2 DEF Recovering
<1>3. CASE WorkerNext
  BY <1>2, <1>3 DEF WorkerNext, WorkerWork, WorkerAcquire, WorkerSnapshot, WorkerDenied,
     WorkerPrepare, WorkerRun, WorkerTransition, FailEnforcement, WorkerReap, WorkerPoll,
     WorkerRenew, WorkerIOError, WorkerPublish, WorkerDecide, WorkerFinish, At
<1>4. CASE ClientNext
  BY <1>2, <1>4 DEF ClientNext, Serving
<1>5. CASE SessionNext
  <2>1. CASE \E s \in Sessions : SessionForget(s)
    BY <2>1, <1>0 DEF SessionForget, Recovering, Expired, tables
  <2>2. QED
    BY <1>2, <1>5, <2>1 DEF SessionNext, SessionAcquire, SessionCheckpoint,
       SessionComplete, Serving
<1>6. CASE Start \/ Serve \/ Crash
  BY <1>0, <1>6 DEF Start, Serve, Crash, Recovering, Expired, tables
<1>7. ASSUME NEW j \in Jobs, StartupRecover(j)
      PROVE  daemon' \in {"down", "starting", "up"} /\ recovering' \subseteq Jobs /\ Recovering'
  BY <1>0, <1>7 DEF StartupRecover, Recover, Recovering, Expired, TableInv, TablesOK
<1>8. CASE TimePasses
  BY <1>0, <1>8 DEF TimePasses, Expire, Recovering, Expired, TableInv, TablesOK
<1>9. CASE ProcessExit \/ UNCHANGED vars
  BY <1>0, <1>9 DEF ProcessExit, vars, Recovering, Expired, tables
<1>10. QED
  BY <1>3, <1>4, <1>5, <1>6, <1>7, <1>8, <1>9 DEF Next, StartupNext

\* The empty database and the idle daemon satisfy the invariant.
LEMMA InitIInv == Init => IInv
<1> SUFFICES ASSUME Init PROVE IInv
  OBVIOUS
<1>1. TablesOK
  BY LimitPositive DEF Init, SchedulerInit, TablesOK, States, NoLease, NoReceipt
<1>2. Rows /\ LeaseIsNewest /\ Receipts
  BY NumbersRange DEF Init, SchedulerInit, Rows, LeaseIsNewest, Receipts, ReceiptMatches, NoLease
<1>3. TokenOrder
  <2>1. \A j \in Jobs, n \in Numbers : token[j][n] = 0 /\ n >= 0 /\ n \in Int
    BY NumbersRange DEF Init, SchedulerInit
  <2>2. 1 \in 1..(Limit + 1)
    BY LimitPositive
  <2>3. \A j \in Jobs : Successor(j, 1)
    <3>1. \A j \in Jobs, n \in Numbers : token[j][n] < 1
      BY <2>1
    <3>2. QED
      BY <3>1, Zenon DEF Successor
  <2>4. QED
    BY <2>1, <2>2, <2>3 DEF TokenOrder
<1>4. TypeOK /\ Holders /\ NoSharedFence /\ Recovering /\ Decided
  BY <1>1 DEF Init, TypeOK, Stages, Holders, HoldsIssued, NoSharedFence, Recovering, Decided
<1>5. QED
  BY <1>1, <1>2, <1>3, <1>4 DEF IInv, TableInv

\* Every step of the daemon, its workers and its clients keeps the invariant.
LEMMA NextIInv == IInv /\ [Next]_vars => IInv'
<1> SUFFICES ASSUME IInv, [Next]_vars PROVE IInv'
  OBVIOUS
<1>1. TableInv' /\ TokensKept
  BY TablesStep
<1>2. WorkerOK'
  BY WorkerStep
<1>3. Holders' /\ NoSharedFence' /\ session' \in [Sessions -> Holds \cup {NoHold}]
  BY <1>1, HoldStep
<1>4. daemon' \in {"down", "starting", "up"} /\ recovering' \subseteq Jobs /\ Recovering'
  BY DaemonStep
<1>5. TypeOK'
  BY <1>1, <1>2, <1>3, <1>4 DEF TypeOK, TableInv, WorkerOK
<1>6. QED
  BY <1>1, <1>2, <1>3, <1>4, <1>5 DEF IInv, WorkerOK

\* The inductive invariant of scheduler and daemon holds in every behaviour.
THEOREM ExecdInvariant == Spec => []IInv
BY InitIInv, NextIInv, PTL DEF Spec

\* The tables, the worker, the sessions and the daemon always have their types.
THEOREM ExecdTypeCorrect == Spec => []TypeOK
<1>1. IInv => TypeOK
  BY DEF IInv
<1>2. QED
  BY <1>1, ExecdInvariant, PTL

\* No two workers ever hold the same fencing token of a job: acquire takes a
\* token above all that were issued, and stale leases keep the one they had.
THEOREM FencesDistinct == Spec => []NoSharedFence
<1>1. IInv => NoSharedFence
  BY DEF IInv
<1>2. QED
  BY <1>1, ExecdInvariant, PTL

\* A receipt stays true of its attempt: complete deletes the lease, so that no
\* artifact, checkpoint or other outcome can follow.
THEOREM ReceiptsTrue == Spec => []ReceiptMatches
<1>1. IInv => ReceiptMatches
  BY DEF IInv, TableInv, Receipts
<1>2. QED
  BY <1>1, ExecdInvariant, PTL

-----------------------------------------------------------------------------
\* The transactions behind the fence write for the newest live lease only.
LEMMA FencedCall ==
    ASSUME TableInv, NEW j \in Jobs, NEW n \in Numbers, NEW t, NEW to,
           Checkpoint(j, n, t) \/ CommitArtifact(j, n, t) \/ Complete(j, n, t, to)
    PROVE  FencedWrite
<1>1. Fenced(j, n, t)
  BY DEF Checkpoint, CommitArtifact, Complete, CanComplete
<1>2. /\ lease[j].live /\ lease[j].number = n
      /\ \A m \in Numbers : token[j][m] <= token[j][n]
  BY <1>1, FenceMeansNewest
<1>3. \A i \in Jobs, m \in Numbers :
        \/ artifact'[i] = m /\ artifact[i] # m
        \/ checkpoint'[i] = m /\ checkpoint[i] # m
        \/ receipt'[i][m] # receipt[i][m]
        => i = j /\ m = n
  BY DEF Checkpoint, CommitArtifact, Complete, TableInv, TablesOK
<1>4. QED
  BY <1>2, <1>3 DEF FencedWrite

\* Every step that publishes anything is fenced (assert_fence).
LEMMA FencedStep == ASSUME IInv, [Next]_vars PROVE FencedWrite
<1> USE DEF IInv
<1>1. UNCHANGED <<receipt, artifact, checkpoint>> => FencedWrite
  BY DEF FencedWrite
<1>2. UNCHANGED tables => FencedWrite
  BY <1>1 DEF tables
<1>3. ASSUME NEW to, pc # "idle", WorkerComplete(to) PROVE FencedWrite
  BY <1>2, <1>3, HeldTyped, FencedCall DEF WorkerComplete
<1>4. CASE WorkerDenied \/ FailEnforcement \/ WorkerFinish
  BY <1>3, <1>4 DEF WorkerDenied, FailEnforcement, WorkerFinish, At
<1>5. CASE WorkerPublish
  <2>1. pc # "idle"
    BY <1>5 DEF WorkerPublish, At
  <2>2. QED
    BY <1>2, <1>5, <2>1, HeldTyped, FencedCall DEF WorkerPublish
<1>6. CASE \E j \in Jobs, n \in Numbers : WorkerAcquire(j, n)
  BY <1>1, <1>6 DEF WorkerAcquire, Acquire
<1>7. CASE WorkerPrepare \/ WorkerRun
  BY <1>1, <1>2, <1>7 DEF WorkerPrepare, WorkerRun, WorkerTransition, Transition
<1>8. CASE WorkerSnapshot \/ WorkerReap \/ WorkerPoll \/ WorkerRenew \/ WorkerIOError
           \/ WorkerDecide \/ ProcessExit \/ Crash \/ UNCHANGED vars
  BY <1>2, <1>8 DEF WorkerSnapshot, WorkerReap, WorkerPoll, WorkerRenew, WorkerIOError,
     WorkerDecide, ProcessExit, Crash, vars
<1>9. CASE ClientNext
  BY <1>1, <1>9 DEF ClientNext, Submit, Cancel, Retry, Resume, QueueFollowup, Transition
<1>10. CASE SessionNext
  <2>1. ASSUME NEW s \in Sessions, SessionCheckpoint(s) PROVE FencedWrite
    BY <2>1, SessionTyped, FencedCall DEF SessionCheckpoint
  <2>2. ASSUME NEW s \in Sessions, NEW to, SessionComplete(s, to) PROVE FencedWrite
    BY <2>2, SessionTyped, FencedCall DEF SessionComplete
  <2>3. CASE \E s \in Sessions, j \in Jobs, n \in Numbers : SessionAcquire(s, j, n)
    BY <1>1, <2>3 DEF SessionAcquire, Acquire
  <2>4. CASE \E s \in Sessions : SessionForget(s)
    BY <1>2, <2>4 DEF SessionForget
  <2>5. QED
    BY <1>10, <2>1, <2>2, <2>3, <2>4 DEF SessionNext
<1>11. CASE StartupNext \/ TimePasses
  BY <1>1, <1>2, <1>11 DEF StartupNext, Start, Serve, StartupRecover, Recover, TimePasses, Expire
<1>12. QED
  BY <1>4, <1>5, <1>6, <1>7, <1>8, <1>9, <1>10, <1>11 DEF Next, WorkerNext, WorkerWork

\* Expired or stale workers cannot checkpoint, publish artifacts, or complete.
THEOREM StaleCannotWrite == Spec => FencedWrites
<1>1. IInv /\ [Next]_vars => [FencedWrite]_vars
  BY FencedStep
<1>2. QED
  BY <1>1, ExecdInvariant, PTL DEF Spec, FencedWrites

-----------------------------------------------------------------------------
\* The refinement of JobContract.
LEMMA OutcomeValue ==
    \A j \in Jobs, n \in Numbers :
        Outcome[j][n] = IF state[j][n] \in Terminal \cup {"none"} THEN state[j][n] ELSE "open"
BY DEF Outcome

\* An update of a table is known by its entries.
LEMMA TableUpdate ==
    ASSUME NEW J, NEW N, NEW f, NEW g,
           f = [i \in J |-> [m \in N |-> f[i][m]]], g = [i \in J |-> [m \in N |-> g[i][m]]],
           NEW j \in J, NEW n \in N, NEW v,
           \A i \in J, m \in N : g[i][m] = IF i = j /\ m = n THEN v ELSE f[i][m]
    PROVE  g = [f EXCEPT ![j][n] = v]
<1>1. g[j] = [f[j] EXCEPT ![n] = v]
  <2>1. g[j] = [m \in N |-> g[j][m]] /\ f[j] = [m \in N |-> f[j][m]]
    OBVIOUS
  <2>2. \A m \in N : g[j][m] = IF m = n THEN v ELSE f[j][m]
    OBVIOUS
  <2>3. QED
    BY <2>1, <2>2
<1>2. \A i \in J : i # j => g[i] = f[i]
  <2> SUFFICES ASSUME NEW i \in J, i # j PROVE g[i] = f[i]
    OBVIOUS
  <2>1. g[i] = [m \in N |-> g[i][m]] /\ f[i] = [m \in N |-> f[i][m]]
    OBVIOUS
  <2>2. \A m \in N : g[i][m] = f[i][m]
    OBVIOUS
  <2>3. QED
    BY <2>1, <2>2
<1>3. g = [i \in J |-> g[i]] /\ f = [i \in J |-> f[i]]
  OBVIOUS
<1>4. QED
  BY <1>1, <1>2, <1>3

\* Outcome is a table over jobs and attempt numbers.
LEMMA OutcomeTable ==
    /\ Outcome = [i \in Jobs |-> [m \in Numbers |-> Outcome[i][m]]]
    /\ Outcome' = [i \in Jobs |-> [m \in Numbers |-> Outcome'[i][m]]]
BY DEF Outcome

\* Outcome is unchanged when each entry is.
LEMMA OutcomeSame ==
    ASSUME \A i \in Jobs, m \in Numbers : Outcome'[i][m] = Outcome[i][m]
    PROVE  Outcome' = Outcome
BY DEF Outcome

\* Outcome changes in one entry: an attempt is queued, moves on or ends.
LEMMA OutcomeUpdate ==
    ASSUME NEW j \in Jobs, NEW n \in Numbers, NEW v,
           \A i \in Jobs, m \in Numbers :
               Outcome'[i][m] = IF i = j /\ m = n THEN v ELSE Outcome[i][m]
    PROVE  Outcome' = [Outcome EXCEPT ![j][n] = v]
BY OutcomeTable, TableUpdate

\* Outcome changes in two entries: recover_expired ends one attempt and queues one.
LEMMA OutcomeUpdate2 ==
    ASSUME NEW j \in Jobs, NEW n \in Numbers, NEW k \in Numbers, k # n, NEW v, NEW w,
           Outcome'[j][n] = v, Outcome'[j][k] = w,
           \A m \in Numbers : m # n /\ m # k => Outcome'[j][m] = Outcome[j][m],
           \A i \in Jobs, m \in Numbers : i # j => Outcome'[i][m] = Outcome[i][m]
    PROVE  Outcome' = [Outcome EXCEPT ![j][n] = v, ![j][k] = w]
<1>1. Outcome'[j] = [Outcome[j] EXCEPT ![n] = v, ![k] = w]
  <2>1. /\ Outcome'[j] = [m \in Numbers |-> Outcome'[j][m]]
        /\ Outcome[j] = [m \in Numbers |-> Outcome[j][m]]
    BY OutcomeTable
  <2>2. QED
    BY <2>1
<1>2. \A i \in Jobs : i # j => Outcome'[i] = Outcome[i]
  <2> SUFFICES ASSUME NEW i \in Jobs, i # j PROVE Outcome'[i] = Outcome[i]
    OBVIOUS
  <2>1. /\ Outcome'[i] = [m \in Numbers |-> Outcome'[i][m]]
        /\ Outcome[i] = [m \in Numbers |-> Outcome[i][m]]
    BY OutcomeTable
  <2>2. QED
    BY <2>1
<1>3. /\ Outcome' = [i \in Jobs |-> Outcome'[i]]
      /\ Outcome = [i \in Jobs |-> Outcome[i]]
  BY OutcomeTable
<1>4. QED
  BY <1>1, <1>2, <1>3

\* Outcome depends on the states of the attempts only.
LEMMA StateSame == ASSUME state' = state PROVE Outcome' = Outcome
BY DEF Outcome

\* The steps of the contract.
ContractStep == [Contract!Next]_<<last, Outcome>>

\* A step that leaves the attempts alone is a stutter of the contract.
LEMMA QuietContract ==
    ASSUME UNCHANGED <<last, state>>
    PROVE  ContractStep
BY StateSame DEF ContractStep

\* submit, retry and resume open an attempt.
LEMMA QueueContract ==
    ASSUME TableInv, NEW j \in Jobs, last[j] < Limit,
           last[j] = 0 \/ state[j][last[j]] \in Terminal, Queue(j, last[j] + 1)
    PROVE  ContractStep
<1>1. last[j] \in 0..Limit /\ last[j] + 1 \in Numbers
  BY LimitPositive DEF TableInv, TablesOK, Numbers
<1>2. last[j] # 0 => last[j] \in Numbers
  BY <1>1, LimitPositive DEF Numbers
<1>3. \A i \in Jobs, m \in Numbers :
        state'[i][m] = IF i = j /\ m = last[j] + 1 THEN "queued" ELSE state[i][m]
  BY <1>1 DEF Queue, TableInv, TablesOK
<1>4. \A i \in Jobs, m \in Numbers :
        Outcome'[i][m] = IF i = j /\ m = last[j] + 1 THEN "open" ELSE Outcome[i][m]
  BY <1>3 DEF Outcome, Terminal
<1>5. PICK k \in Numbers : k = last[j] + 1
  BY <1>1
<1>6. Outcome' = [Outcome EXCEPT ![j][k] = "open"]
  BY <1>4, <1>5, OutcomeUpdate
<1>7. last[j] # 0 => Outcome[j][last[j]] \in Terminal
  BY <1>2, OutcomeValue
<1>8. last' = [last EXCEPT ![j] = last[j] + 1]
  BY DEF Queue
<1>9. Contract!Open(j)
  BY <1>5, <1>6, <1>7, <1>8 DEF Contract!Open, Contract!Closed
<1>10. QED
  BY <1>9 DEF ContractStep, Contract!Next

\* An attempt moves on, or gets its outcome.
LEMMA MoveContract ==
    ASSUME TableInv, NEW j \in Jobs, NEW n \in Numbers, NEW to \in States \ {"none"},
           state[j][n] \notin {"none"}, state[j][n] \in Terminal => to = state[j][n],
           state' = [state EXCEPT ![j][n] = to], UNCHANGED last
    PROVE  ContractStep
<1>1. \A i \in Jobs, m \in Numbers :
        state'[i][m] = IF i = j /\ m = n THEN to ELSE state[i][m]
  BY DEF TableInv, TablesOK
<1>2. CASE state[j][n] \in Terminal \/ to \notin Terminal
  <2>1. \A i \in Jobs, m \in Numbers : Outcome'[i][m] = Outcome[i][m]
    BY <1>1, <1>2 DEF Outcome
  <2>2. QED
    BY <2>1, OutcomeSame DEF ContractStep
<1>3. CASE state[j][n] \notin Terminal /\ to \in Terminal
  <2>1. n = last[j]
    <3>1. n \in Int /\ last[j] \in Int
      BY NumbersRange, LimitPositive DEF TableInv, TablesOK
    <3>2. QED
      BY <1>3, <3>1 DEF TableInv, Rows
  <2>2. \A i \in Jobs, m \in Numbers :
          Outcome'[i][m] = IF i = j /\ m = n THEN to ELSE Outcome[i][m]
    BY <1>1, <1>3 DEF Outcome
  <2>3. Outcome' = [Outcome EXCEPT ![j][n] = to]
    BY <2>2, OutcomeUpdate
  <2>4. Outcome[j][n] = "open" /\ "open" \notin Terminal /\ n # 0
    BY <1>3, OutcomeValue, NumbersRange DEF Terminal
  <2>5. Contract!Close(j, to)
    BY <2>1, <2>3, <2>4 DEF Contract!Close, Contract!Closed
  <2>6. QED
    BY <1>3, <2>5 DEF ContractStep, Contract!Next
<1>4. QED
  BY <1>2, <1>3

\* recover_expired closes an attempt, opens one, or does both at once.
LEMMA RecoverContract ==
    ASSUME TableInv, NEW j \in Jobs, Expired(j), Recover(j)
    PROVE  ContractStep
<1>1. PICK n : n = lease[j].number
  OBVIOUS
<1>2. n \in Numbers /\ n \in Int /\ n # 0 /\ n >= 1
  BY <1>1, LeaseRange, NumbersRange DEF Expired, TableInv
<1>3. token[j][n] # 0 /\ state[j][n] # "none"
  BY <1>1, <1>2 DEF Expired, TableInv, LeaseIsNewest, Rows
<1>4. PICK v : v = Interrupted(state[j][n])
  OBVIOUS
<1>5. v \in Terminal /\ v \in States \ {"none"} /\ (state[j][n] \in Terminal => v = state[j][n])
  BY <1>4 DEF Interrupted, Terminal, States
<1>6. CASE ~(n < Limit)
  <2>1. state' = [state EXCEPT ![j][n] = v] /\ UNCHANGED last
    BY <1>1, <1>4, <1>6 DEF Recover
  <2>2. QED
    BY <1>2, <1>3, <1>5, <2>1, MoveContract
<1>7. CASE n < Limit
  <2>1. PICK k \in Numbers : k = n + 1 /\ k # n
    BY <1>2, <1>7, LimitPositive DEF Numbers
  <2>2. /\ last[j] = n /\ last' = [last EXCEPT ![j] = k]
        /\ state' = [state EXCEPT ![j][n] = v, ![j][k] = "queued"]
    BY <1>1, <1>4, <1>7, <2>1 DEF Recover, CanRecover
  <2>3. \A i \in Jobs, m \in Numbers :
          state'[i][m] = IF i = j /\ m = n THEN v
                         ELSE IF i = j /\ m = k THEN "queued" ELSE state[i][m]
    BY <1>2, <2>1, <2>2 DEF TableInv, TablesOK
  <2>4. \A i \in Jobs, m \in Numbers :
          Outcome'[i][m] = IF i = j /\ m = n THEN v
                           ELSE IF i = j /\ m = k THEN "open" ELSE Outcome[i][m]
    BY <1>5, <2>3 DEF Outcome, Terminal
  <2>5. last' = [last EXCEPT ![j] = last[j] + 1] /\ last[j] < Limit
    BY <1>7, <2>1, <2>2
  <2>6. CASE state[j][n] \in Terminal
    <3>1. Outcome[j][n] = v
      BY <1>2, <1>5, <2>6, OutcomeValue
    <3>2. \A i \in Jobs, m \in Numbers :
            Outcome'[i][m] = IF i = j /\ m = k THEN "open" ELSE Outcome[i][m]
      BY <2>1, <2>4, <3>1
    <3>3. Outcome' = [Outcome EXCEPT ![j][k] = "open"]
      BY <3>2, OutcomeUpdate
    <3>4. Contract!Open(j)
      BY <1>5, <2>1, <2>2, <2>5, <3>1, <3>3 DEF Contract!Open, Contract!Closed
    <3>5. QED
      BY <3>4 DEF ContractStep, Contract!Next
  <2>7. CASE state[j][n] \notin Terminal
    <3>1. Outcome[j][n] = "open" /\ "open" \notin Terminal
      BY <1>2, <1>3, <2>7, OutcomeValue DEF Terminal
    <3>2. Outcome' = [Outcome EXCEPT ![j][n] = v, ![j][k] = "open"]
      <4>1. Outcome'[j][n] = v /\ Outcome'[j][k] = "open"
        BY <1>2, <2>1, <2>4
      <4>2. \A m \in Numbers : m # n /\ m # k => Outcome'[j][m] = Outcome[j][m]
        BY <2>4
      <4>3. \A i \in Jobs, m \in Numbers : i # j => Outcome'[i][m] = Outcome[i][m]
        BY <2>4
      <4>4. QED
        BY <1>2, <2>1, <4>1, <4>2, <4>3, OutcomeUpdate2
    <3>3. Outcome' = [Outcome EXCEPT ![j][last[j]] = v, ![j][last[j] + 1] = "open"]
      BY <2>1, <2>2, <3>2
    <3>4. ~Contract!Closed(j)
      BY <1>2, <2>2, <3>1 DEF Contract!Closed
    <3>5. Contract!Reopen(j, v)
      BY <2>5, <3>3, <3>4 DEF Contract!Reopen
    <3>6. QED
      BY <1>5, <3>5 DEF ContractStep, Contract!Next
  <2>8. QED
    BY <2>6, <2>7
<1>8. QED
  BY <1>6, <1>7

\* acquire is a stutter of the contract: the attempt stays open.
LEMMA AcquireContract ==
    ASSUME TableInv, NEW j \in Jobs, NEW n \in Numbers, Acquire(j, n)
    PROVE  ContractStep
<1>1. "assigned" \in States \ {"none"} /\ state[j][n] \notin {"none"}
      /\ state[j][n] \notin Terminal
  BY DEF Acquire, States, Terminal
<1>2. state' = [state EXCEPT ![j][n] = "assigned"] /\ UNCHANGED last
  BY DEF Acquire
<1>3. QED
  BY <1>1, <1>2, MoveContract

\* transition is a stutter of the contract, or closes the attempt.
LEMMA TransitionContract ==
    ASSUME TableInv, NEW j \in Jobs, NEW n \in Numbers, NEW r, NEW to \in States \ {"none"},
           Transition(j, n, r, to)
    PROVE  ContractStep
<1>1. state[j][n] \notin {"none"} /\ state[j][n] \notin Terminal
  BY DEF Transition, CanTransition, ValidTransition, Terminal
<1>2. state' = [state EXCEPT ![j][n] = to] /\ UNCHANGED last
  BY DEF Transition
<1>3. QED
  BY <1>1, <1>2, MoveContract

\* complete closes the attempt, or repeats the outcome it has.
LEMMA CompleteContract ==
    ASSUME TableInv, NEW j \in Jobs, NEW n \in Numbers, NEW t, NEW to \in Terminal,
           Complete(j, n, t, to)
    PROVE  ContractStep
<1>1. state[j][n] \notin {"none"} /\ (state[j][n] \in Terminal => to = state[j][n])
  BY FenceMeansNewest DEF Complete, CanComplete
<1>2. to \in States \ {"none"}
  BY DEF States, Terminal
<1>3. state' = [state EXCEPT ![j][n] = to] /\ UNCHANGED last
  BY DEF Complete
<1>4. QED
  BY <1>1, <1>2, <1>3, MoveContract

\* Every step of the daemon is a step of the contract or a stutter.
LEMMA ContractNext == ASSUME IInv, [Next]_vars PROVE ContractStep
<1> USE DEF IInv
<1>1. UNCHANGED tables => ContractStep
  BY QuietContract DEF tables
<1>2. ASSUME NEW to \in Terminal, pc # "idle", WorkerComplete(to) PROVE ContractStep
  BY <1>1, <1>2, HeldTyped, CompleteContract DEF WorkerComplete
<1>3. CASE WorkerDenied \/ FailEnforcement \/ WorkerFinish
  <2>1. pc # "idle" /\ "failed" \in Terminal
    BY <1>3 DEF WorkerDenied, FailEnforcement, WorkerFinish, At, Terminal
  <2>2. WorkerFinish => verdict \in Terminal
    BY DEF WorkerFinish, At, Decided
  <2>3. QED
    BY <1>2, <1>3, <2>1, <2>2 DEF WorkerDenied, FailEnforcement, WorkerFinish
<1>4. CASE WorkerPrepare \/ WorkerRun
  <2>1. pc # "idle" /\ {"preparing", "running"} \subseteq States \ {"none"}
    BY <1>4 DEF WorkerPrepare, WorkerRun, WorkerTransition, At, States
  <2>2. PICK to \in {"preparing", "running"} :
            UNCHANGED tables \/ Transition(held.job, held.number, seen, to)
    BY <1>4 DEF WorkerPrepare, WorkerRun, WorkerTransition
  <2>3. QED
    BY <1>1, <2>1, <2>2, HeldTyped, TransitionContract
<1>5. CASE WorkerSnapshot \/ WorkerReap \/ WorkerPoll \/ WorkerRenew \/ WorkerIOError
           \/ WorkerPublish \/ WorkerDecide \/ ProcessExit \/ Crash \/ TimePasses
           \/ UNCHANGED vars
  <2>1. UNCHANGED <<last, state>>
    BY <1>5 DEF WorkerSnapshot, WorkerReap, WorkerPoll, WorkerRenew, WorkerIOError,
       WorkerPublish, CommitArtifact, WorkerDecide, ProcessExit, Crash, TimePasses, Expire,
       vars, tables
  <2>2. QED
    BY <2>1, QuietContract
<1>6. CASE \E j \in Jobs, n \in Numbers : WorkerAcquire(j, n)
  BY <1>6, AcquireContract DEF WorkerAcquire
<1>7. CASE ClientNext
  <2>1. PICK j \in Jobs : Submit(j) \/ Cancel(j) \/ Retry(j) \/ Resume(j)
    BY <1>7 DEF ClientNext
  <2>2. last[j] \in 0..Limit
    BY DEF TableInv, TablesOK
  <2>3. CASE Submit(j) \/ Retry(j) \/ Resume(j)
    <3>1. /\ last[j] < Limit /\ Queue(j, last[j] + 1)
          /\ last[j] = 0 \/ state[j][last[j]] \in Terminal
      BY <2>3, LimitPositive DEF Submit, Retry, Resume, QueueFollowup
    <3>2. QED
      BY <3>1, QueueContract
  <2>4. CASE Cancel(j)
    <3>1. last[j] \in Numbers
      BY <2>2, <2>4, LimitPositive DEF Cancel, Numbers
    <3>2. "canceled" \in States \ {"none"}
      BY DEF States, Terminal
    <3>3. QED
      BY <2>4, <3>1, <3>2, TransitionContract DEF Cancel
  <2>5. QED
    BY <2>1, <2>3, <2>4
<1>8. CASE SessionNext
  <2>1. ASSUME NEW s \in Sessions, NEW to \in Terminal, SessionComplete(s, to)
        PROVE  ContractStep
    BY <2>1, SessionTyped, CompleteContract DEF SessionComplete
  <2>2. CASE \E s \in Sessions, j \in Jobs, n \in Numbers : SessionAcquire(s, j, n)
    BY <2>2, AcquireContract DEF SessionAcquire
  <2>3. CASE \E s \in Sessions : SessionCheckpoint(s) \/ SessionForget(s)
    <3>1. UNCHANGED <<last, state>>
      BY <2>3 DEF SessionCheckpoint, Checkpoint, SessionForget, tables
    <3>2. QED
      BY <3>1, QuietContract
  <2>4. QED
    BY <1>8, <2>1, <2>2, <2>3 DEF SessionNext
<1>9. CASE StartupNext
  <2>1. ASSUME NEW j \in Jobs, StartupRecover(j), Recover(j) PROVE ContractStep
    <3>1. Expired(j)
      BY <2>1 DEF StartupRecover, Recovering
    <3>2. QED
      BY <2>1, <3>1, RecoverContract
  <2>2. QED
    BY <1>1, <1>9, <2>1 DEF StartupNext, Start, Serve, StartupRecover
<1>10. QED
  BY <1>3, <1>4, <1>5, <1>6, <1>7, <1>8, <1>9 DEF Next, WorkerNext, WorkerWork

\* The scheduler, driven by late workers, clients, sessions and restarts,
\* implements the contract of its attempts: no gap in their numbers, at most
\* the last one open, no outcome changed (transition, complete, cancel, retry,
\* resume and recover_expired).
THEOREM ContractImplemented == Spec => ImplementsContract
<1>1. Init => Contract!Init
  BY LimitPositive DEF Init, SchedulerInit, Contract!Init, Outcome, Numbers, Terminal
<1>2. IInv /\ [Next]_vars => [Contract!Next]_<<last, Outcome>>
  BY ContractNext DEF ContractStep
<1>3. QED
  BY <1>1, <1>2, ExecdInvariant, PTL DEF Spec, ImplementsContract, Contract!Spec
-----------------------------------------------------------------------------
(* run_once waits for nothing but its process.                             *)

\* How far run_once is from its return; it polls while the process lives.
Rank ==
    IF pc = "idle" THEN 0
    ELSE IF pc = "finish" THEN 1
    ELSE IF pc = "published" THEN 2
    ELSE IF pc = "publish" THEN 3
    ELSE IF pc = "running" /\ exited THEN 4
    ELSE IF pc = "polled" /\ exited THEN 5
    ELSE IF pc \in {"running", "polled"} THEN 6
    ELSE IF pc = "preparing" THEN 7
    ELSE IF pc = "checked" THEN 8
    ELSE 9

\* The poll loop goes round: the process has not ended, the job not been
\* canceled when it looked, and the lease not been lost.
Polls == ~exited /\ ~exited' /\ \/ pc = "running" /\ pc' = "polled"
                                \/ pc = "polled" /\ pc' = "running"

\* A step of run_once brings it nearer to its return or round the poll loop;
\* no step of a client, a session, the clock or startup takes it back.
Nearer == /\ WorkerNext => Rank' < Rank \/ Polls
          /\ ~WorkerNext => Rank' < Rank \/ UNCHANGED workerVars
WaitsOnlyForProcess == [][pc # "idle" => Nearer]_vars

\* What run_once does after an answer of the scheduler: go on or return.
LEMMA WorkerNearer ==
    ASSUME TypeOK, WorkerNext, pc # "idle" PROVE Rank' < Rank \/ Polls
<1> USE DEF At, Goto, Idle, Rank, Polls
<1>1. CASE WorkerDenied \/ FailEnforcement \/ WorkerIOError
  BY <1>1 DEF WorkerDenied, FailEnforcement, WorkerIOError, WorkerComplete
<1>2. CASE WorkerSnapshot \/ WorkerReap \/ WorkerPublish \/ WorkerDecide
  BY <1>2 DEF WorkerSnapshot, WorkerReap, WorkerPublish, WorkerDecide
<1>3. CASE WorkerPrepare \/ WorkerRun
  BY <1>3 DEF WorkerPrepare, WorkerRun, WorkerTransition
<1>4. CASE WorkerPoll
  BY <1>4 DEF WorkerPoll
<1>5. CASE WorkerRenew
  BY <1>5 DEF WorkerRenew
<1>6. CASE WorkerFinish
  BY <1>6 DEF WorkerFinish, WorkerComplete
<1>7. QED
  BY <1>1, <1>2, <1>3, <1>4, <1>5, <1>6 DEF WorkerNext, WorkerWork, WorkerAcquire

\* For every number of jobs, sessions and attempts, run_once goes through its
\* steps once and repeats none but the poll of a process that is still there,
\* whatever is canceled, retried, expired or taken over meanwhile.
THEOREM RunOnceAdvances == Spec => WaitsOnlyForProcess
<1>1. ASSUME TypeOK, Next, pc # "idle" PROVE Nearer
  <2>1. CASE WorkerNext
    BY <1>1, <2>1, WorkerNearer DEF Nearer
  <2>2. CASE ClientNext \/ TimePasses
    BY <1>1, <2>2, WorkerNearer DEF ClientNext, Serving, TimePasses, Nearer
  <2>3. CASE SessionNext
    <3>1. UNCHANGED workerVars
      BY <2>3 DEF SessionNext, SessionAcquire, SessionCheckpoint, SessionComplete,
         SessionForget, Serving
    <3>2. QED
      BY <1>1, <3>1, WorkerNearer DEF Nearer
  <2>4. CASE StartupNext
    <3>1. UNCHANGED workerVars
      BY <2>4 DEF StartupNext, Start, Serve, StartupRecover
    <3>2. QED
      BY <1>1, <3>1, WorkerNearer DEF Nearer
  <2>5. CASE Crash
    <3>1. Rank' < Rank
      BY <1>1, <2>5 DEF Crash, Idle, Rank
    <3>2. QED
      BY <1>1, <3>1, WorkerNearer DEF Nearer
  <2>6. CASE ProcessExit
    <3>1. Rank' < Rank
      BY <2>6 DEF ProcessExit, Rank
    <3>2. QED
      BY <1>1, <3>1, WorkerNearer DEF Nearer
  <2>7. QED
    BY <1>1, <2>1, <2>2, <2>3, <2>4, <2>5, <2>6 DEF Next
<1>2. TypeOK /\ [Next]_vars => [pc # "idle" => Nearer]_vars
  BY <1>1
<1>3. QED
  BY <1>2, ExecdTypeCorrect, PTL DEF Spec, WaitsOnlyForProcess
=============================================================================
