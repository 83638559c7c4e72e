------------------------------ MODULE MCRouter ------------------------------
(* Instances of Router for TLC. *)
EXTENDS Router, TLC

\* Filters with a common prefix, one of them ending on it; one with a + in front.
TreeFilters == {<<"a">>, <<"a", "#">>, <<"+", "b">>}
Own == {<<"+", "b">>}
Group == {<<"a", "#">>}
\* Every topic name of at most two levels.
ShortNames ==
  LET First == Normal \cup Metadata \cup {Blank}
      Later == Normal \cup {Blank}
  IN  {<<l>> : l \in First} \cup {<<l, m>> : l \in First, m \in Later}

Symmetric == Permutations(Clients) \cup Permutations(Tasks)
=============================================================================
