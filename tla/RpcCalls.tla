------------------------------ MODULE RpcCalls ------------------------------
(***************************************************************************)
(* What a remote procedure call promises to its caller, whatever the       *)
(* network and the two communicators do: a call is settled at most once    *)
(* and never changes its outcome; the peer runs its handler at most once;  *)
(* a request succeeds only if the handler ran, and a notification only if  *)
(* it was sent.                                                            *)
(***************************************************************************)
CONSTANTS Call, Notification

VARIABLES outcome, sent, executed

Init ==
    /\ outcome = [c \in Call |-> "none"]
    /\ sent = {} /\ executed = {}

Open(c) ==
    /\ outcome[c] = "none"
    /\ outcome' = [outcome EXCEPT ![c] = "pending"]
    /\ UNCHANGED <<sent, executed>>

Send(c) ==
    /\ outcome[c] # "none" /\ c \notin sent
    /\ sent' = sent \cup {c}
    /\ UNCHANGED <<outcome, executed>>

Execute(c) ==
    /\ c \in sent \ executed
    /\ executed' = executed \cup {c}
    /\ UNCHANGED <<outcome, sent>>

(* Several calls may settle at once, when a peer disconnects or the        *)
(* communicator stops; they fail then.                                     *)
Succeed(c) ==
    /\ outcome[c] = "pending"
    /\ IF c \in Notification THEN c \in sent ELSE c \in executed
    /\ outcome' = [outcome EXCEPT ![c] = "ok"]
    /\ UNCHANGED <<sent, executed>>

Fail(C) ==
    /\ \A c \in C : outcome[c] = "pending"
    /\ outcome' = [c \in Call |-> IF c \in C THEN "failed" ELSE outcome[c]]
    /\ UNCHANGED <<sent, executed>>

Next ==
    \/ \E c \in Call : Open(c) \/ Send(c) \/ Execute(c) \/ Succeed(c)
    \/ \E C \in SUBSET Call : Fail(C)

Spec == Init /\ [][Next]_<<outcome, sent, executed>>
=============================================================================
