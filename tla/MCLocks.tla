------------------------------ MODULE MCLocks ------------------------------
EXTENDS Locks

CONSTANTS u1, u2, p1, p2, c1, c2, r1

\* Two people, one of them an admin, at one file; and one of them at two files
\* while somebody lists all locks.
MCScenes == {
  [users |-> {u1, u2}, paths |-> {p1}, calls |-> {c1, c2}, readers |-> {},
   locks |-> 2, attempts |-> 2, force |-> BOOLEAN],
  [users |-> {u1}, paths |-> {p1, p2}, calls |-> {c1}, readers |-> {r1},
   locks |-> 3, attempts |-> 1, force |-> {FALSE}]}
=============================================================================
