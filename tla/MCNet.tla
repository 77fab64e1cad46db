--------------------------------- MODULE MCNet ---------------------------------
(* Two records and two descriptors, a send buffer of three bytes. *)
EXTENDS Net
===============================================================================
