----------------------------- MODULE SingleEntry -----------------------------
(***************************************************************************)
(* What the payment, ticket and admission services promise together: a     *)
(* purchase that was paid for yields at most one pass, and a pass lets one *)
(* scan through, once.  Nothing else is said about how or when.            *)
(***************************************************************************)
CONSTANTS Purchases, Entrances, Nobody

VARIABLES
    paid,     \* purchases whose funds are confirmed
    pass,     \* "none", "valid" or "spent", by purchase
    spender   \* the scan that spent the pass

vars == <<paid, pass, spender>>

Init ==
    /\ paid = {}
    /\ pass = [p \in Purchases |-> "none"]
    /\ spender = [p \in Purchases |-> Nobody]

Pay(p) ==
    /\ paid' = paid \cup {p}
    /\ UNCHANGED <<pass, spender>>

Issue(p) ==
    /\ p \in paid
    /\ pass[p] = "none"
    /\ pass' = [pass EXCEPT ![p] = "valid"]
    /\ UNCHANGED <<paid, spender>>

Enter(p, s) ==
    /\ pass[p] = "valid"
    /\ pass' = [pass EXCEPT ![p] = "spent"]
    /\ spender' = [spender EXCEPT ![p] = s]
    /\ UNCHANGED paid

Next == \E p \in Purchases : Pay(p) \/ Issue(p) \/ \E s \in Entrances : Enter(p, s)

Spec == Init /\ [][Next]_vars
=============================================================================
