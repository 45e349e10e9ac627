---------------------------- MODULE AttRequests ----------------------------
(***************************************************************************)
(* What the ATT bearer promises to those who make requests with            *)
(* bt_att_send(): each request is heard of once, in the order in which     *)
(* they were made; a request may be withdrawn; when the bearer is lost all *)
(* that are left fail together, when it is dropped they are forgotten.     *)
(***************************************************************************)
EXTENDS Sequences, SequencesExt

CONSTANT Id     \* what requests are known by

VARIABLES
    reqs,       \* the requests that wait for an answer
    heard       \* for every request ever made, what its owner heard

vars == <<reqs, heard>>

Answers == {"own", "other", "error"}

Init == reqs = <<>> /\ heard = [id \in {} |-> "none"]

(* Some request ends in one of the answers *)
Hear(ids, what) ==
    heard' = [id \in DOMAIN heard |-> IF id \in ids THEN what ELSE heard[id]]

(* bt_att_send() *)
Issue ==
    \E id \in Id \ DOMAIN heard :
        /\ reqs' = Append(reqs, id)
        /\ heard' = [i \in DOMAIN heard \cup {id} |->
                        IF i = id THEN "none" ELSE heard[i]]

(* The callback of the oldest request *)
Answer ==
    /\ reqs # <<>>
    /\ reqs' = Tail(reqs)
    /\ \E what \in Answers : Hear({Head(reqs)}, what)

(* bt_att_cancel() *)
Withdraw ==
    \E i \in DOMAIN reqs :
        reqs' = RemoveAt(reqs, i) /\ Hear({reqs[i]}, "withdrawn")

(* disconnect_cb(), bt_att_unref() *)
Lost ==
    /\ reqs' = <<>>
    /\ \E what \in {"error", "withdrawn"} : Hear(ToSet(reqs), what)

Next == Issue \/ Answer \/ Withdraw \/ Lost

Spec == Init /\ [][Next]_vars
=============================================================================
