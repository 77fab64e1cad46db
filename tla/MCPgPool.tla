------------------------------- MODULE MCPgPool -------------------------------
(* A chunk of seven pages in nodes of up to four: a node of four and one of *)
(* three after creation, requests of one page up to one more than fits.     *)
EXTENDS PgPool

MCRequests == {1, 2, 3, 4, 5}
===============================================================================
