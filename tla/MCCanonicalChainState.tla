----------------------- MODULE MCCanonicalChainState -----------------------
(* The bodies of blocks for the runs of CanonicalChainState.               *)
EXTENDS CanonicalChainState

CONSTANTS t, u      \* two transactions

MCTxs == {t, u}

Body(proposals, commits, n, known, skew) ==
    [proposals |-> proposals, commits |-> commits, uncles |-> n, known |-> known,
     skew |-> skew]

(* Reorganisations and crashes: every block has an uncle the node knows.   *)
UncledBodies == {Body({}, <<>>, 1, 1, 0)}

(* Blocks with and without an uncle.                                       *)
UncleBodies == {Body({}, <<>>, 0, 0, 0), Body({}, <<>>, 1, 0, 0)}

(* Restarts: clocks ahead by more than a block, proposals that are         *)
(* repeated, uncles in the blocks that propose and commit.                 *)
RestartBodies ==
    {Body({}, <<>>, 0, 0, 0), Body({t}, <<>>, 1, 1, 3), Body({}, <<t>>, 1, 1, 0)}

(* Proposals that are repeated, alone and together, two transactions       *)
(* committed in the other order by blocks with clocks ahead, uncles.       *)
FullBodies ==
    {Body(p, <<>>, 0, 0, 0) : p \in {{}, {t, u}}}
        \cup {Body({}, c, 1, 0, 3) : c \in {<<t>>, <<u, t>>}}
        \cup {Body({t}, <<>>, 2, 1, 0)}
=============================================================================
