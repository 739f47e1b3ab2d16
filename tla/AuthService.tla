----------------------------- MODULE AuthService -----------------------------
(***************************************************************************)
(* What FacePass promises a program that asks it to authenticate a user,   *)
(* with no daemon in sight: a request is decided at most once, and the     *)
(* caller is told the decision on its own request or learns nothing.       *)
(* Learning nothing ("error") makes PAM go on to the next module.          *)
(***************************************************************************)
CONSTANTS Callers

VARIABLES asked,         \* callers that have asked
          decided,       \* the decision on each request
          result         \* what each caller has been told

vars == <<asked, decided, result>>

Init ==
    /\ asked = {}
    /\ decided = [c \in Callers |-> "none"]
    /\ result = [c \in Callers |-> "none"]

Ask(c) ==
    /\ c \notin asked
    /\ asked' = asked \cup {c}
    /\ UNCHANGED <<decided, result>>

\* The face decides; the caller may have left by then.
Decide(c) ==
    /\ c \in asked /\ decided[c] = "none"
    /\ \E verdict \in {"success", "failure"} :
          decided' = [decided EXCEPT ![c] = verdict]
    /\ UNCHANGED <<asked, result>>

Tell(c) ==
    /\ result[c] = "none" /\ decided[c] # "none"
    /\ result' = [result EXCEPT ![c] =
                     IF decided[c] = "success" THEN "accepted" ELSE "refused"]
    /\ UNCHANGED <<asked, decided>>

\* No daemon, no answer in time, or an answer that is not one
LearnNothing(c) ==
    /\ result[c] = "none"
    /\ asked' = asked \cup {c}
    /\ result' = [result EXCEPT ![c] = "error"]
    /\ UNCHANGED decided

Next == \E c \in Callers : Ask(c) \/ Decide(c) \/ Tell(c) \/ LearnNothing(c)

Spec == Init /\ [][Next]_vars
=============================================================================
