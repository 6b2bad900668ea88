-------------------------- MODULE MCRequestServer ---------------------------
EXTENDS RequestServer, TLC

CONSTANTS hover, link, q1, q2, q3

\* Two requests for one service, which close() leaves out, and one for another.
Services == {hover, link}
ServiceTable == q1 :> link @@ q2 :> link @@ q3 :> hover
PriorityTable == q1 :> 255 @@ q2 :> 255 @@ q3 :> 5
Threads == Services \X (0..MaxRestarts)
=============================================================================
