--------------------------- MODULE LastKnownState ---------------------------
(***************************************************************************)
(* What the context layer promises about one domain, seen from outside: for *)
(* every customer the source commits revision after revision, and what is   *)
(* known of it only moves forward, to a revision that was committed.        *)
(* Revisions may be skipped: only the last-known state counts.              *)
(***************************************************************************)
EXTENDS Naturals

CONSTANT Customers

VARIABLES committed,  \* committed[c]: the source's latest revision
          known       \* known[c]: the revision the cache serves (0: none yet)

Init == /\ committed \in [Customers -> Nat \ {0}]
        /\ known = [c \in Customers |-> 0]

Commit(c) == /\ committed' = [committed EXCEPT ![c] = @ + 1]
             /\ UNCHANGED known

Learn(c) == /\ \E rev \in known[c] + 1 .. committed[c] : known' = [known EXCEPT ![c] = rev]
            /\ UNCHANGED committed

Next == \E c \in Customers : Commit(c) \/ Learn(c)

Spec == Init /\ [][Next]_<<committed, known>>
=============================================================================
