--------------------------- MODULE Reorganization ---------------------------
(***************************************************************************)
(* The topic Reorganization (src/src/topic/reorganization.rs): it compares *)
(* each new tip the node announces with the tip before, walks down from    *)
(* both to their common ancestor and reports the reorganisation.  Every    *)
(* step of the walk asks the node, up to twice, while the node's chain     *)
(* moves on.                                                               *)
(*                                                                         *)
(* Headers come through a Pipe, which Subscription is shown to implement.  *)
(***************************************************************************)
EXTENDS Naturals, Sequences, SequencesExt, FiniteSets

CONSTANTS Branches,     \* what tells the children of a block apart
          CacheSize,    \* of the headers_cache of Jsonrpc: 1000 in the code
          InitialHeight,    \* height of the node's chain when the topic starts
          MaxHeight,    \* bound: height of the tree
          MaxBlocks     \* bound: blocks besides genesis

ASSUME ReorganizationAssumption ==
    /\ Branches # {} /\ CacheSize \in Nat \ {0}
    /\ MaxHeight \in Nat /\ MaxBlocks \in Nat /\ InitialHeight \in 0..MaxHeight

VARIABLES
    blocks,             \* the blocks the node has
    top,                \* its tip
    pending, taken, open,   \* the subscription, see Pipe
    pc,                 \* what the task does next
    mainTip,            \* main_tip_hash and main_tip_number
    old, new,           \* old_tip and new_tip of locate_ancestor
    side,               \* which of them, or the old tip itself, is fetched
    asked,              \* the hash get_header is called with
    cache,              \* headers_cache, the latest used last
    rows                \* the reorganisations reported

node == <<blocks, top>>
pipe == <<pending, taken, open>>
vars == <<node, pipe, pc, mainTip, old, new, side, asked, cache, rows>>

(* A hash stands for a block and all its ancestors: a block is the path to *)
(* it from genesis, its height the length of the path.                     *)
Genesis == <<>>
Blocks == UNION {[1..h -> Branches] : h \in 0..MaxHeight}
Parent(b) == Front(b)
Number(b) == Len(b)

Headers == INSTANCE Pipe WITH Message <- Blocks

(* get_header and get_fork_block of the node: blocks of the main chain and *)
(* all others.                                                             *)
MainChain == {b \in blocks : IsPrefix(b, top)}
ForkBlocks == blocks \ MainChain

Init ==
    /\ top \in [1..InitialHeight -> Branches]
    /\ blocks = {SubSeq(top, 1, h) : h \in 0..InitialHeight}
    /\ Headers!Init
    /\ pc = "polling" /\ mainTip = Genesis
    /\ old = Genesis /\ new = Genesis /\ side = "tip" /\ asked = Genesis
    /\ cache = <<>> /\ rows = <<>>
-----------------------------------------------------------------------------
(* A block arrives at the node.  The highest one becomes the tip and is    *)
(* announced; the first of equals stays.  So each tip announced is one     *)
(* higher than the one before, and the walk starts with one step of the    *)
(* new tip (reorganization.rs:107-110).                                    *)
NodeMoves ==
    /\ Cardinality(blocks) <= MaxBlocks
    /\ \E b \in Blocks \ blocks :
           /\ b # Genesis /\ Parent(b) \in blocks
           /\ blocks' = blocks \cup {b}
           /\ IF Number(b) > Number(top)
              THEN top' = b /\ (Headers!Put(b) \/ (~open /\ UNCHANGED pipe))
              ELSE UNCHANGED <<top, pipe>>
    /\ UNCHANGED <<pc, mainTip, old, new, side, asked, cache, rows>>

Disconnect ==
    /\ open /\ Headers!Cut
    /\ UNCHANGED <<node, pc, mainTip, old, new, side, asked, cache, rows>>
-----------------------------------------------------------------------------
(* The header of a child of the last tip.                                  *)
Extend ==
    /\ pc = "polling" /\ Headers!Take
    /\ Parent(Head(pending)) = mainTip \/ Number(mainTip) = 0
    /\ mainTip' = Head(pending)
    /\ UNCHANGED <<node, pc, old, new, side, asked, cache, rows>>

(* Any other header: fetch the old tip first.                              *)
Reorganize ==
    /\ pc = "polling" /\ Headers!Take
    /\ ~(Parent(Head(pending)) = mainTip \/ Number(mainTip) = 0)
    /\ pc' = "get_header"
    /\ new' = Head(pending)
    /\ side' = "tip" /\ asked' = mainTip
    /\ UNCHANGED <<node, mainTip, old, cache, rows>>

(* try_recv finds the subscription ended.                                  *)
End ==
    /\ pc = "polling" /\ pending = <<>> /\ ~open
    /\ pc' = "ended"
    /\ UNCHANGED <<node, pipe, mainTip, old, new, side, asked, cache, rows>>

(* The two tips of the walk when the header asked for arrives.             *)
OldSide == IF side = "new" THEN old ELSE asked
NewSide == IF side = "new" THEN asked ELSE new

(* Mutant of Found: the two are only brought to the same height.           *)
FoundAtHeight == Number(OldSide) = Number(NewSide)

Found == OldSide = NewSide

(* Mutant of Ask: the header is fetched once more.                         *)
AskAgain ==
    IF Number(OldSide) >= Number(NewSide)
    THEN side' = "old" /\ asked' = OldSide
    ELSE side' = "new" /\ asked' = NewSide

(* locate_ancestor: the parent of the higher of the two; both, the old     *)
(* side first, when they are equally high.                                 *)
Ask ==
    IF Number(OldSide) >= Number(NewSide)
    THEN side' = "old" /\ asked' = Parent(OldSide)
    ELSE side' = "new" /\ asked' = Parent(NewSide)

Walk ==
    /\ old' = OldSide /\ new' = NewSide
    /\ \/ Found /\ pc' = "report" /\ UNCHANGED <<side, asked>>
       \/ ~Found /\ pc' = "get_header" /\ Ask

(* Mutant of Used: nothing leaves the cache.                               *)
UsedKeeps(b) == Append(RemoveFirst(cache, b), b)

(* LruCache::get and put: the latest used is the last, the oldest leaves.  *)
Used(b) ==
    LET others == RemoveFirst(cache, b)
    IN  Append(IF Len(others) = CacheSize THEN Tail(others) ELSE others, b)

(* get_header of Jsonrpc: the cache, then the main chain of the node.      *)
GetHeader ==
    /\ pc = "get_header"
    /\ IF asked \in ToSet(cache) \cup MainChain
       THEN cache' = Used(asked) /\ Walk
       ELSE pc' = "get_fork_block" /\ UNCHANGED <<old, new, side, asked, cache>>
    /\ UNCHANGED <<node, pipe, mainTip, rows>>

(* The block is not on the main chain (any more): ask for a fork block.    *)
GetForkBlock ==
    /\ pc = "get_fork_block" /\ asked \in ForkBlocks
    /\ Walk
    /\ UNCHANGED <<node, pipe, mainTip, cache, rows>>

(* Neither: unreachable!().                                                *)
Unreachable ==
    /\ pc = "get_fork_block" /\ asked \notin ForkBlocks
    /\ pc' = "dead"
    /\ UNCHANGED <<node, pipe, mainTip, old, new, side, asked, cache, rows>>

Row(o, n, ancestor) ==
    [old_tip |-> o, new_tip |-> n, ancestor |-> ancestor,
     attached_length |-> Number(n) - Number(ancestor)]

(* Mutant of Report: the last tip is kept.                                 *)
ReportKeepsTip ==
    /\ pc = "report"
    /\ pc' = "polling"
    /\ rows' = Append(rows, Row(mainTip, Last(taken), old))
    /\ UNCHANGED <<node, pipe, mainTip, old, new, side, asked, cache>>

(* retry_send of the row, and the new tip becomes the last one.            *)
Report ==
    /\ pc = "report"
    /\ pc' = "polling"
    /\ rows' = Append(rows, Row(mainTip, Last(taken), old))
    /\ mainTip' = Last(taken)
    /\ UNCHANGED <<node, pipe, old, new, side, asked, cache>>

Next ==
    \/ NodeMoves \/ Disconnect
    \/ Extend \/ Reorganize \/ End
    \/ GetHeader \/ GetForkBlock \/ Unreachable \/ Report

Spec == Init /\ [][Next]_vars

(* The task is scheduled and its calls of the node return.                 *)
FairSpec ==
    /\ Spec
    /\ WF_vars(Extend \/ Reorganize \/ End \/ GetHeader \/ GetForkBlock \/ Unreachable
                   \/ Report)
-----------------------------------------------------------------------------
TypeOK ==
    /\ blocks \subseteq Blocks /\ top \in blocks
    /\ pending \in Seq(blocks) /\ taken \in Seq(blocks) /\ open \in BOOLEAN
    /\ pc \in {"polling", "get_header", "get_fork_block", "report", "dead", "ended"}
    /\ {mainTip, old, new, asked} \subseteq blocks
    /\ side \in {"tip", "old", "new"}
    /\ cache \in Seq(blocks) /\ Len(cache) <= CacheSize

(* The lowest common ancestor of two blocks.                               *)
Ancestor(a, b) ==
    CHOOSE c \in Blocks :
        /\ IsPrefix(c, a) /\ IsPrefix(c, b)
        /\ \A d \in Blocks : IsPrefix(d, a) /\ IsPrefix(d, b) => IsPrefix(d, c)

(* The headers handled, the one in work apart.                             *)
Handled == IF pc \in {"polling", "ended"} THEN taken ELSE Front(taken)

(* Between the tips, one after the other, that do not extend the one       *)
(* before, there is one row each, in their order, with the lowest common   *)
(* ancestor of the two and the number of blocks attached; whatever the     *)
(* node's chain does during the walk, and from wherever a header comes.    *)
RowsExact ==
    LET steps == {i \in 2..Len(Handled) : Parent(Handled[i]) # Handled[i - 1]}
    IN  /\ Len(rows) = Cardinality(steps)
        /\ \A i \in steps :
               LET k == Cardinality({j \in steps : j <= i})
               IN  rows[k] = Row(Handled[i - 1], Handled[i],
                                 Ancestor(Handled[i - 1], Handled[i]))

(* Blocks were detached by what is reported: a row is never about a tip    *)
(* that has just grown by several blocks.  It depends on the Pipe, which   *)
(* loses no header in between.                                             *)
RowsDetach == \A i \in DOMAIN rows : rows[i].old_tip # rows[i].ancestor

(* The walk ends, however the chain moves meanwhile, or the task panics.   *)
WalkEnds == pc \in {"get_header", "get_fork_block"} ~> pc \in {"polling", "dead"}

(* reorganization.rs:163, unreachable!(): a block the node has announced   *)
(* is on its main chain or a fork block.                                   *)
NeverUnreachable == pc # "dead"
=============================================================================
