-------------------------------- MODULE Powers --------------------------------
(* Powers, as shifts and repeated products make them. *)
EXTENDS Integers

Power(b) == LET f[n \in Nat] == IF n = 0 THEN 1 ELSE b * f[n - 1]
            IN  f
===============================================================================
