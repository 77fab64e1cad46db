------------------------------- MODULE MCRbTree -------------------------------
(* Eight keys: removals that move the shortage to the root, past red and    *)
(* black siblings, and insertions whose conflict moves up.                  *)
EXTENDS RbTree

MCKeys == 1 .. 8
===============================================================================
