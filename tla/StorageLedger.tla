--------------------------- MODULE StorageLedger ---------------------------
(***************************************************************************)
(* What the storage layer promises the owners of stored results, with the  *)
(* requests, locks, files and faults left out: a ledger of results, where  *)
(* a result enters whole and within its owner's quota, and leaves whole,   *)
(* alone, with others, or with its owner's account.                        *)
(***************************************************************************)
EXTENDS Integers, FiniteSets

CONSTANTS Users, Rows, Sizes, Limit, None

VARIABLES
  accounts,  \* who may own results
  ledger     \* owner and length of each stored result, else None

vars == <<accounts, ledger>>

Entry == [owner : Users, size : Sizes]

OwnedBy(u) == {h \in Rows : ledger[h] # None /\ ledger[h].owner = u}
Total(u)   == Cardinality(UNION {{h} \X (1 .. ledger[h].size) : h \in OwnedBy(u)})

Without(S) == [h \in Rows |-> IF h \in S THEN None ELSE ledger[h]]

Init == accounts = Users /\ ledger = [h \in Rows |-> None]

\* A new result of n bytes is committed while its owner has n bytes free.
Deposit(u, h, n) ==
  /\ u \in accounts
  /\ ledger[h] = None
  /\ n <= Limit - Total(u)
  /\ ledger' = [ledger EXCEPT ![h] = [owner |-> u, size |-> n]]
  /\ UNCHANGED accounts

\* Results leave: deleted by their owner, rolled back or expired.
Withdraw(S) == ledger' = Without(S) /\ UNCHANGED accounts

\* An account leaves in one step with everything it owns.
Close(u) ==
  /\ u \in accounts
  /\ accounts' = accounts \ {u}
  /\ ledger' = Without(OwnedBy(u))

Next ==
  \/ \E u \in Users, h \in Rows, n \in Sizes : Deposit(u, h, n)
  \/ \E S \in SUBSET Rows : Withdraw(S)
  \/ \E u \in Users : Close(u)

Spec == Init /\ [][Next]_vars

=============================================================================
