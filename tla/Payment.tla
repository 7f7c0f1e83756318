------------------------------- MODULE Payment -------------------------------
(***************************************************************************)
(* What the account promises its caller, without coins, servers or         *)
(* signatures.  A payment is due for a fixed sum once the account has      *)
(* committed to its amount and fee; it is paid at most once and debits     *)
(* exactly that sum; a call returns only what was paid, and one refused    *)
(* by the account itself is never paid.  A failure of the provider leaves  *)
(* the caller not knowing.  The same payment may be sent again, then or    *)
(* after it returned.                                                      *)
(***************************************************************************)
EXTENDS Integers

CONSTANTS Calls, Nothing

VARIABLES
    balance,    \* what the account owns
    due,        \* the sum each call has committed to pay
    paid,       \* the calls that have been paid
    outcome     \* "open", "returned", "refused" or "unknown"

vars == <<balance, due, paid, outcome>>

\* The account opens with any balance.
Init ==
    /\ balance \in Nat
    /\ due = [c \in Calls |-> Nothing]
    /\ paid = {}
    /\ outcome = [c \in Calls |-> "open"]

Commit(c) ==
    /\ outcome[c] = "open" /\ due[c] = Nothing
    /\ due'[c] \in Nat /\ due' = [due EXCEPT ![c] = due'[c]]
    /\ UNCHANGED <<balance, paid, outcome>>

\* The one step that moves money; its answer may be lost.
Pay(c) ==
    /\ outcome[c] = "open" /\ due[c] # Nothing /\ c \notin paid
    /\ balance' = balance - due[c]
    /\ paid' = paid \cup {c}
    /\ \/ UNCHANGED outcome
       \/ outcome' = [outcome EXCEPT ![c] = "unknown"]
    /\ UNCHANGED due

Return(c) ==
    /\ outcome[c] = "open" /\ c \in paid
    /\ outcome' = [outcome EXCEPT ![c] = "returned"]
    /\ UNCHANGED <<balance, due, paid>>

Refuse(c) ==
    /\ outcome[c] = "open" /\ c \notin paid
    /\ outcome' = [outcome EXCEPT ![c] = "refused"]
    /\ UNCHANGED <<balance, due, paid>>

Fail(c) ==
    /\ outcome[c] = "open"
    /\ outcome' = [outcome EXCEPT ![c] = "unknown"]
    /\ UNCHANGED <<balance, due, paid>>

Retry(c) ==
    /\ outcome[c] \in {"unknown", "returned"} /\ due[c] # Nothing
    /\ outcome' = [outcome EXCEPT ![c] = "open"]
    /\ UNCHANGED <<balance, due, paid>>

Next == \E c \in Calls :
    Commit(c) \/ Pay(c) \/ Return(c) \/ Refuse(c) \/ Fail(c) \/ Retry(c)

Spec == Init /\ [][Next]_vars
=============================================================================
