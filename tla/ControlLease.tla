---------------------------- MODULE ControlLease ----------------------------
(***************************************************************************)
(* What the session server promises about control of the radar view: one   *)
(* holder at a time, for a lease of bounded length that the holder may     *)
(* renew; control passes to another client only after it was given up or   *)
(* taken away, or after the lease has run out.                             *)
(***************************************************************************)
EXTENDS Integers

CONSTANTS Ids, NoId, Lease, Floor

VARIABLES holder,   \* who has control, or NoId
          left      \* ticks of the lease left; negative once it has run out

\* A lease handed out is never longer than Lease.
Term == Floor..Lease

Init == holder = NoId /\ left = Floor

Grant(c) ==
    /\ holder \in {NoId, c} \/ left < 0
    /\ holder' = c
    /\ left' \in Term

Renew == holder # NoId /\ left' \in Term /\ UNCHANGED holder

\* Given up, revoked or expired.
End == holder # NoId /\ holder' = NoId /\ left' = Floor

Tick == left > Floor /\ left' = left - 1 /\ UNCHANGED holder

Next == (\E c \in Ids : Grant(c)) \/ Renew \/ End \/ Tick

Spec == Init /\ [][Next]_<<holder, left>>
=============================================================================
