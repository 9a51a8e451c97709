-------------------------------- MODULE Log --------------------------------
(* A history is a sequence of lines.  The lines of one kind are the set of *)
(* their positions in it.                                                  *)
EXTENDS Naturals

(* Of these lines, j is the one that comes after i.                        *)
Follows(lines, i, j) ==
  /\ i \in lines /\ j \in lines
  /\ i < j
  /\ \A k \in lines : k <= i \/ j <= k

IsLast(lines, i) == i \in lines /\ \A k \in lines : k <= i

=============================================================================
