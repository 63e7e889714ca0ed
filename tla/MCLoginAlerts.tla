--------------------------- MODULE MCLoginAlerts ---------------------------
(* Instances of LoginAlerts for TLC.                                       *)
EXTENDS LoginAlerts, TLC

CONSTANTS s0, p2

\* Every login in the instance announces session s0.
MCNewSession == [m \in Logins |-> s0]

OtherSessions == Permutations(Sessions \ {s0})

\* A row is published a second time only while it is the only row.
RepublishAlone == place[p2] = "unsent" \/ row[2] = "absent"
=============================================================================
