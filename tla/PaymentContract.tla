-------------------------- MODULE PaymentContract --------------------------
(***************************************************************************)
(* What the payments service promises, without calls, queues or crons: a   *)
(* payment is asked for, paid or dropped, and what was paid is settled and *)
(* activated once.  PaymentFlow implements it.                             *)
(***************************************************************************)
EXTENDS Naturals

CONSTANTS Payments, Targets, None

VARIABLES
    state,      \* none, open, paid (settled) or void
    target,     \* what the payment is for
    paid,       \* did the buyer pay?
    grants      \* activations so far

contract == <<state, target, paid, grants>>

Init ==
    /\ state = [x \in Payments |-> "none"]
    /\ target = [x \in Payments |-> None]
    /\ paid = [x \in Payments |-> FALSE]
    /\ grants = [x \in Payments |-> 0]

\* A payment is asked for where none of that target is open.
Ask(x, t) ==
    /\ state[x] = "none"
    /\ \A y \in Payments : target[y] = t => state[y] # "open"
    /\ state' = [state EXCEPT ![x] = "open"]
    /\ target' = [target EXCEPT ![x] = t]
    /\ UNCHANGED <<paid, grants>>

\* The buyer pays, and only what is open.
Pay(x) ==
    /\ state[x] = "open" /\ ~paid[x]
    /\ paid' = [paid EXCEPT ![x] = TRUE]
    /\ UNCHANGED <<state, target, grants>>

\* The service takes note of the money ...
Settle(x) ==
    /\ state[x] = "open" /\ paid[x]
    /\ state' = [state EXCEPT ![x] = "paid"]
    /\ UNCHANGED <<target, paid, grants>>

\* ... activates what it bought ...
Grant(x) ==
    /\ state[x] = "paid" /\ grants[x] = 0
    /\ grants' = [grants EXCEPT ![x] = 1]
    /\ UNCHANGED <<state, target, paid>>

\* ... or drops a payment nobody paid, which is final.
Void(x) ==
    /\ state[x] = "open" /\ ~paid[x]
    /\ state' = [state EXCEPT ![x] = "void"]
    /\ UNCHANGED <<target, paid, grants>>

Next ==
    \/ \E x \in Payments, t \in Targets : Ask(x, t)
    \/ \E x \in Payments : Pay(x) \/ Settle(x) \/ Grant(x) \/ Void(x)

Spec == Init /\ [][Next]_contract
=============================================================================
