----------------------------- MODULE Reflector -----------------------------
(***************************************************************************)
(* What a TWAMP-light reflector promises its clients, whatever is inside:  *)
(* the requests are taken in the order they arrived; each is answered once *)
(* or not at all; an answer repeats what the request said and carries two  *)
(* times that enclose the request's stay; and a reflector that has closed  *)
(* sends nothing more.  Server implements it.                              *)
(***************************************************************************)
EXTENDS Integers, Sequences

VARIABLES
    inbox,    \* the requests, in the order they arrived
    handled,  \* how many of them were answered or given up
    replies,  \* the answers, in the order they were sent
    open,     \* the reflector serves requests
    now       \* its clock

vars == <<inbox, handled, replies, open, now>>

Init ==
    /\ inbox = <<>> /\ handled = 0 /\ replies = <<>>
    /\ open = TRUE
    /\ now \in Nat

Extends(new, old) ==
    Len(new) = Len(old) + 1 /\ \A i \in 1..Len(old) : new[i] = old[i]

(* Reply r answers request q: the receive time is that of the arrival if    *)
(* the request was stamped on arrival, and not an earlier one otherwise.    *)
Reflects(r, q) ==
    /\ r.to = q.from /\ r.seq_number = q.seq_number
    /\ r.length = q.length /\ r.sender_timestamp = q.timestamp
    /\ IF q.stamped THEN r.receive_timestamp = q.arrived
                    ELSE q.arrived <= r.receive_timestamp
    /\ r.receive_timestamp <= r.timestamp
    /\ r.timestamp <= now

Accept ==
    /\ open
    /\ Extends(inbox', inbox)
    /\ inbox'[Len(inbox')].arrived = now
    /\ UNCHANGED <<handled, replies, open, now>>

Answer ==
    /\ open /\ handled < Len(inbox)
    /\ handled' = handled + 1
    /\ Extends(replies', replies)
    /\ Reflects(replies'[Len(replies')], inbox[handled + 1])
    /\ UNCHANGED <<inbox, open, now>>

(* A request is given up, and the reflector may end over it.                *)
GiveUp ==
    /\ open /\ handled < Len(inbox)
    /\ handled' = handled + 1
    /\ open' \in BOOLEAN
    /\ UNCHANGED <<inbox, replies, now>>

Close == open /\ open' = FALSE /\ UNCHANGED <<inbox, handled, replies, now>>

Pass == now' > now /\ UNCHANGED <<inbox, handled, replies, open>>

Next == Accept \/ Answer \/ GiveUp \/ Close \/ Pass

Spec == Init /\ [][Next]_vars
=============================================================================
