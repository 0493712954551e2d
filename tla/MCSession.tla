----------------------------- MODULE MCSession -----------------------------
EXTENDS Session

\* An empty session, one of a page and one of two.
MCSize == [v \in Values |-> CASE v = "empty" -> 0 [] v = "short" -> 1 [] OTHER -> 2]

=============================================================================
