------------------------------- MODULE Selection -------------------------------
(***************************************************************************)
(* Picking from a list in its order, as the loops over the lists of the    *)
(* queue, the history and the queue-scripts do.                            *)
(***************************************************************************)
EXTENDS Naturals, Sequences

\* SelectSeq, with a set for its test so that lemmas can be stated about it: the members of
\* seq that are in S, in order.
Selected(seq, S) ==
  LET upTo[n \in 0..Len(seq)] == IF n = 0 THEN <<>>
                                 ELSE IF seq[n] \in S THEN Append(upTo[n - 1], seq[n])
                                 ELSE upTo[n - 1]
  IN upTo[Len(seq)]
===============================================================================
