--------------------------- MODULE MCPostProcessor ---------------------------
(* Instances of PostProcessor for TLC. *)
EXTENDS PostProcessor

CONSTANTS g1, g2

\* One queue-script, for files and for complete and deleted downloads.
MCScripts == <<{"FileDownloaded", "NzbDownloaded", "NzbDeleted"}>>

\* Either one group beside a complete download of the history, or two damaged groups with one
\* volume each still to come, which compete for the stages and the par-checker.
MCInit ==
  /\ Init
  /\ \/ place[g1] = "queue" /\ place[g2] = "history" /\ health[g2] = "full"
     \/ \A g \in Groups : place[g] = "queue" /\ health[g] = "damaged" /\ files[g] = {"vol2"}

\* Nobody interferes with the two groups.
MCNext == Next /\ (health[g2] = "damaged" => edits' = edits)

MCSpec == MCInit /\ [][MCNext]_vars /\ Fairness
==============================================================================
