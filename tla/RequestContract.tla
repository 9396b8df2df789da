-------------------------- MODULE RequestContract --------------------------
(***************************************************************************)
(* What a connection of the server promises about each request, apart from *)
(* what the reply says: requests are read in order, and each one has       *)
(* exactly one fate.  It is answered once; or it is withdrawn without a    *)
(* reply, which only a request named by a Tflush can be; or its reply is   *)
(* lost with the connection.                                               *)
(***************************************************************************)
EXTENDS Naturals

CONSTANT MaxReqs

VARIABLES
    st,       \* the fate of each request
    flushed,  \* the requests (and 0, for none) some Tflush names
    open      \* whether the connection still works

vars == <<st, flushed, open>>

Ids == 1..MaxReqs

Init ==
    /\ st = [r \in Ids |-> "unread"]
    /\ flushed = {}
    /\ open = TRUE

\* The next message arrives; if it is a Tflush it names an earlier request.
Arrive(r) ==
    /\ st[r] = "unread"
    /\ \A q \in 1..(r - 1) : st[q] # "unread"
    /\ st' = [st EXCEPT ![r] = "pending"]
    /\ \E q \in 0..(r - 1) : flushed' \in {flushed, flushed \cup {q}}
    /\ UNCHANGED open

\* The first message is answered, or refused, as it is read.
Greet ==
    /\ \A r \in Ids : st[r] = "unread"
    /\ \E fate \in {"answered", "lost"} : st' = [st EXCEPT ![1] = fate]
    /\ flushed' \in {{}, {0}}
    /\ open' \in BOOLEAN
    /\ st'[1] = "lost" => ~open'

Answer(r) ==
    /\ st[r] = "pending"
    /\ st' = [st EXCEPT ![r] = "answered"]
    /\ UNCHANGED <<flushed, open>>

Withdraw(r) ==
    /\ st[r] = "pending"
    /\ r \in flushed
    /\ st' = [st EXCEPT ![r] = "withdrawn"]
    /\ UNCHANGED <<flushed, open>>

Lose(r) ==
    /\ st[r] = "pending"
    /\ st' = [st EXCEPT ![r] = "lost"]
    /\ open' = FALSE
    /\ UNCHANGED flushed

Close ==
    /\ open
    /\ open' = FALSE
    /\ UNCHANGED <<st, flushed>>

Next ==
    \/ Greet \/ Close
    \/ \E r \in Ids : Arrive(r) \/ Answer(r) \/ Withdraw(r) \/ Lose(r)

Spec == Init /\ [][Next]_vars
=============================================================================
