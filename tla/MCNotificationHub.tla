-------------------------- MODULE MCNotificationHub --------------------------
(* Instances of NotificationHub for TLC.                                   *)
EXTENDS NotificationHub, TLC

CONSTANTS s1, s2, s3, t1, t2, t3, i1, i2

\* Three streams on one instance, or two on one instance each.
MCPlacements ==
    { (s1 :> i1) @@ (s2 :> i1) @@ (s3 :> i1),
      (s1 :> i1) @@ (s2 :> NoInstance) @@ (s3 :> i2) }

\* Two of the requests may carry the same ticket.
MCShows == {<<s1, t1>>, <<s2, t2>>, <<s3, t1>>, <<s3, t3>>}
=============================================================================
