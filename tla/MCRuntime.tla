------------------------------ MODULE MCRuntime ------------------------------
(* The follower, which retries, and NetworkPropagation, which blocks, with *)
(* one worker for the follower and the connection.                         *)
EXTENDS Runtime

CONSTANTS chain, propagation

MCProducers == {chain, propagation}
MCBlocking == {propagation}
=============================================================================
