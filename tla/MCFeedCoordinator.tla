--------------------------- MODULE MCFeedCoordinator ---------------------------
(* Instances of FeedCoordinator for TLC. *)
EXTENDS FeedCoordinator

CONSTANTS f1, f2, a, b

\* Item a is listed by both feeds, item b by the second.
MCFeedItems == [f \in Feeds |-> IF f = f1 THEN {a} ELSE Items]
===============================================================================
