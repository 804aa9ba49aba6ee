--------------------------- MODULE MCConflictDetector ---------------------------
(* Instances of ConflictDetector for TLC: the terminals of one tenant.      *)
EXTENDS ConflictDetector, TLC

\* Terminals are alike, and so are requests
Alike == Permutations(Terminal) \cup Permutations(Request)
=============================================================================
