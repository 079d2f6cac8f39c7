------------------------------- MODULE CkbNode -------------------------------
(***************************************************************************)
(* The ckb full node as its JSON-RPC shows it to ckb-analyzer: a main      *)
(* chain that is extended at its end and reorganised near it.  External:   *)
(* the node is not part of the repository; what is assumed of it is what   *)
(* src/ckb-suite-rpc/src/rpc.rs and the topics that call it rely on.       *)
(***************************************************************************)
EXTENDS Integers, Sequences, SequencesExt

CONSTANTS Txs,            \* transactions
          Bodies,         \* the contents a block can have
          WindowClose,    \* a transaction is committed WindowClose blocks
          WindowFar,      \* after its proposal at the earliest, WindowFar
                          \* at the latest: (2, 10), PROPOSAL_WINDOW
          InitialTip,     \* height of the chain at the beginning
          MaxReorg,       \* deepest reorganisation, in detached blocks
          MaxTip,         \* bound: height of the chain
          MaxForks        \* bound: reorganisations

(* A body has the proposals of the block and its uncles, the transactions  *)
(* it commits (the cellbase apart), the number of its uncles, how many of  *)
(* those the node has the blocks of, and how far the miner's clock is off. *)
BodyType == [proposals : SUBSET Txs, commits : Seq(Txs), uncles : Nat,
             known : Nat, skew : Int]

(* The genesis block proposes nothing and has no uncles.                   *)
Genesis == [proposals |-> {}, commits |-> <<>>, uncles |-> 0, known |-> 0, skew |-> 0]

ASSUME NodeAssumption ==
    /\ Bodies \subseteq {b \in BodyType : b.known <= b.uncles}
    /\ WindowClose \in Nat \ {0} /\ WindowFar \in Nat /\ WindowClose <= WindowFar
    /\ InitialTip \in Nat /\ MaxReorg \in Nat
    /\ MaxTip \in Nat /\ InitialTip <= MaxTip /\ MaxForks \in Nat

VARIABLES chain,    \* the main chain, a function on the heights 0..top
          top,      \* height of its last block
          fork      \* reorganisations so far

nodeVars == <<chain, top, fork>>

(* A block is known by its height and the branch it was mined on: its      *)
(* hash.                                                                   *)
Block == [fork : 0..MaxForks, body : Bodies \cup {Genesis}]

(* Heights of the blocks that propose tx where a block at height n may     *)
(* still commit it.                                                        *)
ProposalsOf(c, tx, n) ==
    {m \in 1..n : /\ n <= m + WindowFar /\ m + WindowClose <= n
                  /\ tx \in c[m].body.proposals}

(* Consensus: a block commits what was proposed in time, and nothing is    *)
(* committed twice.                                                        *)
ValidChain(c) ==
    \A n \in DOMAIN c :
        /\ IsInjective(c[n].body.commits)
        /\ \A tx \in ToSet(c[n].body.commits) :
               /\ ProposalsOf(c, tx, n) # {}
               /\ \A m \in DOMAIN c : m # n => tx \notin ToSet(c[m].body.commits)

NodeTypeOK ==
    /\ top \in 0..MaxTip
    /\ chain \in [0..top -> Block]
    /\ fork \in 0..MaxForks

NodeInit ==
    /\ top = InitialTip
    /\ \E bodies \in [1..InitialTip -> Bodies] :
           chain = [h \in 0..InitialTip |->
                        [fork |-> 0, body |-> IF h = 0 THEN Genesis ELSE bodies[h]]]
    /\ ValidChain(chain)
    /\ fork = 0

(* The main chain with its blocks above height keep replaced by a branch.  *)
Branch(keep, height, id, bodies) ==
    [h \in 0..height |-> IF h <= keep THEN chain[h]
                                      ELSE [fork |-> id, body |-> bodies[h]]]

(* A block is attached to the tip.                                         *)
Extend ==
    /\ top < MaxTip
    /\ top' = top + 1
    /\ \E body \in Bodies :
           chain' = Branch(top, top + 1, fork, [h \in {top + 1} |-> body])
    /\ ValidChain(chain')
    /\ UNCHANGED fork

(* A heavier branch replaces the last blocks.  It is not lower here; ckb   *)
(* compares total difficulties, and a lower branch may be the heavier one. *)
Reorganize(detached) ==
    /\ fork < MaxForks /\ detached <= top
    /\ fork' = fork + 1
    /\ top' \in top..MaxTip
    /\ \E bodies \in [top - detached + 1..top' -> Bodies] :
           chain' = Branch(top - detached, top', fork + 1, bodies)
    /\ ValidChain(chain')

NodeNext == Extend \/ \E detached \in 1..MaxReorg : Reorganize(detached)
-----------------------------------------------------------------------------
(* The calls of Jsonrpc that CanonicalChainState makes.  Each is one       *)
(* request, under the mutex of the client, and answers for the moment.     *)
GetTipBlockNumber == top

(* Otherwise the answer is None.                                           *)
Reached(n) == n <= top

GetBlockByNumber(n) == chain[n]
GetHeaderByNumber(n) == chain[n]
=============================================================================
