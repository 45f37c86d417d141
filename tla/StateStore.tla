----------------------------- MODULE StateStore -----------------------------
(***************************************************************************)
(* What one state file of NZBGet promises, seen by a program that might be *)
(* started at any moment: "stored" is what it would read then, "wanted" is *)
(* what the running program means the file to hold.  As long as the        *)
(* promise stands, "stored" changes only by becoming "wanted" in one step; *)
(* a file that does not exist yet may be found torn.  An interrupted or    *)
(* failed write suspends the promise until the file is whole again.        *)
(***************************************************************************)
CONSTANTS
    Absent,     \* no file
    Torn        \* a file whose writing was not finished

VARIABLES stored, wanted, promised

vars == <<stored, wanted, promised>>

Init == stored = Absent /\ wanted = Absent /\ promised = TRUE

\* The program changes its mind, starts, stops, or loses the promise.
Change == stored' = stored /\ promised' \in BOOLEAN

\* The new content takes the place of the old one.
Commit == promised /\ stored' = wanted /\ UNCHANGED <<wanted, promised>>

\* The first copy of a file is being written.
Tear == promised /\ stored = Absent /\ stored' = Torn /\ UNCHANGED <<wanted, promised>>

\* Nothing is promised after an interrupted or failed write.
Unreliable == ~promised /\ promised' \in BOOLEAN

Next == Change \/ Commit \/ Tear \/ Unreliable

Spec == Init /\ [][Next]_vars
=============================================================================
