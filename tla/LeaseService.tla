---------------------------- MODULE LeaseService ----------------------------
(***************************************************************************)
(* What pkg/distlock promises to the users of one resource: the lease is   *)
(* held by at most one acquisition at a time, and an acquisition that has  *)
(* stopped holding it never holds it again.                                *)
(***************************************************************************)
CONSTANTS Token, NoToken

VARIABLES
    holder,  \* the acquisition that holds the lease, or NoToken
    past     \* the acquisitions that hold or have held it

Init == holder = NoToken /\ past = {}

Grant(t) ==
    /\ holder = NoToken
    /\ t \notin past
    /\ holder' = t
    /\ past' = past \cup {t}

\* The holder releases the lease or loses it.
End ==
    /\ holder # NoToken
    /\ holder' = NoToken
    /\ UNCHANGED past

Next == End \/ \E t \in Token : Grant(t)

Spec == Init /\ [][Next]_<<holder, past>>
=============================================================================
