---------------------------------- MODULE Sums ----------------------------------
(***************************************************************************)
(* Sums of units, points and money over the rows of a table.               *)
(***************************************************************************)
EXTENDS FiniteSetsExt

\* The sum of f over its domain
Sum(f) == MapThenSumSet(LAMBDA x : f[x], DOMAIN f)

\* ... over the part of it that is in S
Part(f, S) == Sum([x \in DOMAIN f |-> IF x \in S THEN f[x] ELSE 0])
=============================================================================
