---------------------------- MODULE CancelService ----------------------------
(***************************************************************************)
(* What the daemon's session registry promises its clients, with no        *)
(* registry in sight: sessions open and close, and a cancel request        *)
(* is answered in one instant.  "flagged" means that exactly one session,  *)
(* open at that instant, was told to stop; "nothing" means that no session *)
(* was touched (it does not promise that none was open: see                *)
(* AuthControl!NoActiveAnswerIsTrue).                                      *)
(***************************************************************************)
CONSTANTS Ids,           \* session ids
          Cancellers     \* the cancel requests that can be outstanding at once

VARIABLES opened,        \* ids of the sessions ever opened
          active,        \* ids of the sessions open now
          flagged,       \* ids of the sessions told to stop
          reply          \* the last answer each canceller was given

vars == <<opened, active, flagged, reply>>

Init ==
    /\ opened = {}
    /\ active = {}
    /\ flagged = {}
    /\ reply = [c \in Cancellers |-> "none"]

\* A session opens under an id no session had before.
Open ==
    \E id \in Ids \ opened :
        /\ opened' = opened \cup {id}
        /\ active' = active \cup {id}
        /\ UNCHANGED <<flagged, reply>>

Close ==
    \E id \in active :
        /\ active' = active \ {id}
        /\ UNCHANGED <<opened, flagged, reply>>

\* The answer "flagged" and the flag are one step, on one open session.
Flag(c) ==
    \E id \in active :
        /\ flagged' = flagged \cup {id}
        /\ reply' = [reply EXCEPT ![c] = "flagged"]
        /\ UNCHANGED <<opened, active>>

Refuse(c) ==
    /\ reply' = [reply EXCEPT ![c] = "nothing"]
    /\ UNCHANGED <<opened, active, flagged>>

Next == Open \/ Close \/ \E c \in Cancellers : Flag(c) \/ Refuse(c)

Spec == Init /\ [][Next]_vars
=============================================================================
