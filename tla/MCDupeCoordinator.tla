--------------------------- MODULE MCDupeCoordinator ---------------------------
(* Instances of DupeCoordinator for TLC. *)
EXTENDS DupeCoordinator

CONSTANTS a, b, c

Nzb(name, key, score, mode, contents, feed) ==
  [name |-> name, key |-> key, score |-> score, mode |-> mode, contents |-> contents, feed |-> feed]

\* Two duplicates by key, and a third, from a feed, that takes key and score from
\* one of them or comes first without any, and may be a copy of the first.
MCAttr == (a :> Nzb("x", "k", 10, "score", {1}, FALSE)) @@ (b :> Nzb("x", "k", 20, "score", {2}, FALSE))
       @@ (c :> Nzb("x", "", 0, "score", {1, 3}, TRUE))
================================================================================
