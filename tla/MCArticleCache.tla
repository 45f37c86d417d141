--------------------------- MODULE MCArticleCache ---------------------------
(* The article cache for TLC. *)
EXTENDS ArticleCache

CONSTANTS f1, a1, a2

\* One file of two articles.
MCFileOf == [a \in Articles |-> f1]
=============================================================================
