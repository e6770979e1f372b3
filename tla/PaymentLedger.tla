--------------------------- MODULE PaymentLedger ---------------------------
(***************************************************************************)
(* What payment-service promises about money, without gateways, requests   *)
(* or keys: an account is opened empty or with money taken; money is taken *)
(* at most once; it goes back in parts, never more than is left; and an    *)
(* account that has given everything back is closed for good.              *)
(***************************************************************************)
EXTENDS Integers

CONSTANTS Accounts, Amounts

VARIABLES
    taken,    \* taken[a]: the amount captured from the guest
    returned  \* returned[a]: the part of it given back

vars == <<taken, returned>>

Init ==
    /\ taken = [a \in Accounts |-> 0]
    /\ returned = [a \in Accounts |-> 0]

Take(a) ==
    /\ taken[a] = 0
    /\ \E n \in Amounts : taken' = [taken EXCEPT ![a] = n]
    /\ UNCHANGED returned

Return(a) ==
    /\ \E n \in Amounts :
          /\ returned[a] + n <= taken[a]
          /\ returned' = [returned EXCEPT ![a] = @ + n]
    /\ UNCHANGED taken

Next == \E a \in Accounts : Take(a) \/ Return(a)

Spec == Init /\ [][Next]_vars
=============================================================================
