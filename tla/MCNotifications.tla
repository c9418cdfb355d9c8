--------------------------- MODULE MCNotifications ---------------------------
(* Notifications on small instances.  The enrollments are of one student.      *)
(* In the first deployment two commands race over one event that affects both  *)
(* enrollments.  In the others one command handles a backlog: event 1 affects  *)
(* enrollment 1 and may be retired or superseded, so that its request fails    *)
(* for ever in front of the two of the later event.  The e-mails of event 3,   *)
(* which go before those of event 1, are refused for ever.  Two rows fit into  *)
(* a pass of w1, and one into a pass of w2.                                    *)
EXTENDS Notifications, TLC

CONSTANTS ana, w1, w2

SameOwner == [n \in Enrollments |-> ana]
Limits == [w \in Workers |-> IF w = w1 THEN 2 ELSE 1]

RacingCommands == [workers |-> {w1, w2}, events |-> {2}]
Backlog(w, events) == [workers |-> {w}, events |-> events]
SmallDeployments ==
    {RacingCommands, Backlog(w1, {1, 2}), Backlog(w2, {1, 2}), Backlog(w1, {1, 3})}

FirstThenBoth == [e \in Events |-> IF e = 1 THEN {{1}} ELSE {{1, 2}}]
AllOrNothing == {[inApp |-> b, email |-> b] : b \in BOOLEAN}
RefusedEmails == {3} \X Users
=============================================================================
