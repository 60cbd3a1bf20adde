----------------------------- MODULE RpcPromise ------------------------------
(***************************************************************************)
(* What a Client promises of Call and CallAsync, whatever the write mode    *)
(* and whatever breaks: a call has at most one outcome, it keeps it, and    *)
(* the outcome is a response only if the peer answered that very call.      *)
(***************************************************************************)
CONSTANT Calls

VARIABLES
    outcome,   \* outcome[c]: "none", "pending", "response" or "failed"
    answered   \* the calls the peer has answered

Init ==
    /\ outcome = [c \in Calls |-> "none"]
    /\ answered = {}

Begin(c) ==
    /\ outcome[c] = "none"
    /\ outcome' = [outcome EXCEPT ![c] = "pending"]
    /\ UNCHANGED answered

\* The peer may answer a call that has already failed here.
Answer(c) ==
    /\ outcome[c] \in {"pending", "failed"}
    /\ answered' = answered \cup {c}
    /\ UNCHANGED outcome

Respond(c) ==
    /\ outcome[c] = "pending"
    /\ c \in answered
    /\ outcome' = [outcome EXCEPT ![c] = "response"]
    /\ UNCHANGED answered

Fail(c) ==
    /\ outcome[c] = "pending"
    /\ outcome' = [outcome EXCEPT ![c] = "failed"]
    /\ UNCHANGED answered

Next == \E c \in Calls : Begin(c) \/ Answer(c) \/ Respond(c) \/ Fail(c)

Spec == Init /\ [][Next]_<<outcome, answered>>

=============================================================================
