--------------------------- MODULE MCReceiptStore ---------------------------
EXTENDS ReceiptStore, TLC

CONSTANTS w1, w2, w3, s1, s2, s3, a, b, done, back

\* The daemon's executor: all calls share one ReceiptStore value.
SharedStore == [w \in Writers |-> s1]

\* rollback opens a store for each request (production_domains.rs:4363).
OwnStore == (w1 :> s1) @@ (w2 :> s2) @@ (w3 :> s3)
=============================================================================
