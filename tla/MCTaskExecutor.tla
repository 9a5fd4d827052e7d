-------------------------- MODULE MCTaskExecutor --------------------------
(* A pool of workers, a queue shorter than the number of works, and two      *)
(* clients; jobs submit, stop and join as well as the clients do.            *)
EXTENDS TaskExecutor

CONSTANTS c1, c2, w1, w2, w3

MCRejectable == {w1, w2}
=============================================================================
