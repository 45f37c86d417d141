------------------------- MODULE MCQueueCoordinator -------------------------
(***************************************************************************)
(* Small queues for the model checker.                                     *)
(***************************************************************************)
EXTENDS QueueCoordinator

MCFiles == {"rar", "par", "txt"}
MCNoNzb == "no nzb"
MCNoFile == "no file"

\* one group with a data file and a par-volume, one with a single file
TwoGroups == [f \in MCFiles |-> IF f = "txt" THEN "B" ELSE "A"]
OneGroup == [f \in MCFiles |-> "A"]

OneEach == [f \in MCFiles |-> 1]
TwoInRar == [f \in MCFiles |-> IF f = "rar" THEN 2 ELSE 1]
NoneMissed == [f \in MCFiles |-> 0]
OneMissedInTxt == [f \in MCFiles |-> IF f = "txt" THEN 1 ELSE 0]

Workers == Permutations(Downloaders)
=============================================================================
