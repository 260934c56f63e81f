----------------------------- MODULE RemoteCall -----------------------------
(***************************************************************************)
(* What nc_mobile and its server promise a program: it makes one call at a *)
(* time, the server answers each call once at most, perhaps after the      *)
(* program has given it up, and a call that succeeds has been answered.    *)
(***************************************************************************)
EXTENDS Naturals

CONSTANTS Clients, MaxCalls

Calls == UNION {{c} \X (1..MaxCalls[c]) : c \in Clients}

VARIABLES
    begun,      \* per client: the calls it has begun
    pending,    \* the clients whose last call is under way
    answers,    \* per call: the answers the server has given to it
    succeeded   \* the clients whose last call was a success

Init ==
    /\ begun = [c \in Clients |-> 0]
    /\ pending = {} /\ succeeded = {}
    /\ answers = [k \in Calls |-> 0]

Begin(c) ==
    /\ c \notin pending /\ begun[c] < MaxCalls[c]
    /\ begun' = [begun EXCEPT ![c] = @ + 1]
    /\ pending' = pending \cup {c} /\ succeeded' = succeeded \ {c}
    /\ UNCHANGED answers

(* A call that is not even begun fails. *)
Refuse(c) ==
    /\ c \notin pending /\ succeeded' = succeeded \ {c}
    /\ UNCHANGED <<begun, pending, answers>>

Answer(k) ==
    /\ k[2] <= begun[k[1]] /\ answers[k] = 0
    /\ answers' = [answers EXCEPT ![k] = 1]
    /\ UNCHANGED <<begun, pending, succeeded>>

Succeed(c) ==
    /\ c \in pending /\ answers[<<c, begun[c]>>] = 1
    /\ pending' = pending \ {c} /\ succeeded' = succeeded \cup {c}
    /\ UNCHANGED <<begun, answers>>

Fail(c) ==
    /\ c \in pending
    /\ pending' = pending \ {c} /\ succeeded' = succeeded \ {c}
    /\ UNCHANGED <<begun, answers>>

Next ==
    \/ \E c \in Clients : Begin(c) \/ Refuse(c) \/ Succeed(c) \/ Fail(c)
    \/ \E k \in Calls : Answer(k)

Spec == Init /\ [][Next]_<<begun, pending, answers, succeeded>>
=============================================================================
