---------------------------- MODULE DeliveryContract ----------------------------
(***************************************************************************)
(* What the outbox promises for each entry, whatever clients, workers and  *)
(* crashes do: once accepted it is delivered, withdrawn, or given up after *)
(* exactly MaxTries failed attempts; it is withdrawn only while it waits;  *)
(* an attempt ends with exactly one verdict, and a success is the last.    *)
(***************************************************************************)
EXTENDS Integers, Sequences

CONSTANTS Entry, MaxTries

VARIABLES
    phase,    \* where the entry is
    tries,    \* attempts started
    verdicts  \* outcomes recorded

vars == <<phase, tries, verdicts>>

Phase == {"none", "waiting", "trying", "delivered", "given_up", "withdrawn"}

Init == /\ phase = [e \in Entry |-> "none"]
        /\ tries = [e \in Entry |-> 0]
        /\ verdicts = [e \in Entry |-> << >>]

Accept(e) ==
    /\ phase[e] = "none"
    /\ phase' = [phase EXCEPT ![e] = "waiting"]
    /\ UNCHANGED <<tries, verdicts>>

\* A worker starts an attempt for all the entries of a batch at once.
Attempt(S) ==
    /\ \A e \in S : phase[e] = "waiting" /\ tries[e] < MaxTries
    /\ phase' = [e \in Entry |-> IF e \in S THEN "trying" ELSE phase[e]]
    /\ tries' = [e \in Entry |-> IF e \in S THEN tries[e] + 1 ELSE tries[e]]
    /\ UNCHANGED verdicts

Succeed(e) ==
    /\ phase[e] = "trying"
    /\ phase' = [phase EXCEPT ![e] = "delivered"]
    /\ verdicts' = [verdicts EXCEPT ![e] = Append(@, "SUCCESS")]
    /\ UNCHANGED tries

Fail(e) ==
    /\ phase[e] = "trying"
    /\ phase' = [phase EXCEPT ![e] = IF tries[e] < MaxTries THEN "waiting" ELSE "given_up"]
    /\ verdicts' = [verdicts EXCEPT ![e] = Append(@, "FAILED")]
    /\ UNCHANGED tries

Withdraw(e) ==
    /\ phase[e] = "waiting"
    /\ phase' = [phase EXCEPT ![e] = "withdrawn"]
    /\ UNCHANGED <<tries, verdicts>>

Next == \/ \E e \in Entry : Accept(e) \/ Succeed(e) \/ Fail(e) \/ Withdraw(e)
        \/ \E S \in SUBSET Entry : Attempt(S)

Spec == Init /\ [][Next]_vars
=============================================================================
