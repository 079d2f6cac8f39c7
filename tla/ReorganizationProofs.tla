------------------------ MODULE ReorganizationProofs ------------------------
(***************************************************************************)
(* Theorems about Reorganization, for any tree of blocks, any order in     *)
(* which it grows and any cache: whatever the chain does during the walk,  *)
(* the row of a change of branch has the lowest common ancestor.           *)
(***************************************************************************)
EXTENDS Reorganization, SequenceTheorems, FiniteSetTheorems, WellFoundedInduction, TLAPS

(***************************************************************************)
(* Sequences.                                                              *)
(***************************************************************************)

LEMMA Least ==
    ASSUME NEW T, T \subseteq Nat, T # {}
    PROVE  \E x \in T : \A y \in T : x <= y
<1>1. PICK x \in T : \A y \in T : ~(<<y, x>> \in OpToRel(<, Nat))
      BY NatLessThanWellFounded, WFMin
<1>2. ASSUME NEW y \in T PROVE x <= y
  <2>1. <<y, x>> \in Nat \X Nat /\ ~(<<y, x>> \in OpToRel(<, Nat))
        BY <1>1
  <2>2. ~(y < x)
        BY <2>1 DEF OpToRel
  <2>3. QED BY <2>2
<1>3. QED BY <1>2

(* A part of a sequence.                                                   *)
LEMMA PartIs ==
    ASSUME NEW S, NEW s \in Seq(S), NEW m \in Nat \ {0}, NEW n \in Nat,
           m <= n + 1, n <= Len(s)
    PROVE  /\ SubSeq(s, m, n) \in Seq(S) /\ Len(SubSeq(s, m, n)) = n - m + 1
           /\ \A i \in 1..n - m + 1 : SubSeq(s, m, n)[i] = s[m + i - 1]
<1>1. Len(s) \in Nat
      BY LenProperties
<1>2. m \in Int /\ n \in Int /\ \A i \in m..n : s[i] \in S
      BY <1>1, ElementOfSeq
<1> DEFINE z == SubSeq(s, m, n)
<1>3. /\ z \in Seq(S) /\ Len(z) = IF m <= n THEN n - m + 1 ELSE 0
      /\ \A i \in 1..n - m + 1 : z[i] = s[m + i - 1]
      BY <1>2, SubSeqProperties
<1> HIDE DEF z
<1>4. Len(z) = n - m + 1
      BY <1>3
<1>5. QED BY <1>3, <1>4 DEF z

LEMMA FrontIs ==
    ASSUME NEW S, NEW s \in Seq(S), s # <<>>
    PROVE  /\ Front(s) \in Seq(S) /\ Len(Front(s)) = Len(s) - 1 /\ Len(s) \in Nat \ {0}
           /\ Last(s) \in S /\ \A i \in 1..Len(s) - 1 : Front(s)[i] = s[i]
<1> DEFINE n == Len(s) - 1
<1>1. Len(s) \in Nat \ {0}
      BY EmptySeq, LenProperties
<1>2. s[Len(s)] \in S
      BY <1>1, ElementOfSeq
<1>3. n \in Nat /\ 1 \in Nat \ {0} /\ 1 <= n + 1 /\ n <= Len(s) /\ n - 1 + 1 = n
      BY <1>1
<1> HIDE DEF n
<1>4. /\ SubSeq(s, 1, n) \in Seq(S) /\ Len(SubSeq(s, 1, n)) = n - 1 + 1
      /\ \A i \in 1..n - 1 + 1 : SubSeq(s, 1, n)[i] = s[1 + i - 1]
      BY <1>3, PartIs
<1>5. \A i \in 1..n : 1 + i - 1 = i
      BY <1>3
<1>6. Len(SubSeq(s, 1, n)) = n /\ \A i \in 1..n : SubSeq(s, 1, n)[i] = s[i]
      BY <1>3, <1>4, <1>5
<1>7. QED BY <1>1, <1>2, <1>4, <1>6 DEF Front, Last, n

(* RemoveFirst leaves a sequence of at most the same length; it is shorter *)
(* if the element was there.                                               *)
LEMMA RemovedIs ==
    ASSUME NEW S, NEW s \in Seq(S), NEW e
    PROVE  RemoveFirst(s, e) \in Seq(S) /\ Len(RemoveFirst(s, e)) <= Len(s)
<1>1. Len(s) \in Nat
      BY LenProperties
<1>2. CASE \E i \in 1..Len(s) : s[i] = e
  <2> DEFINE I == {i \in 1..Len(s) : s[i] = e}
             k == SelectInSeq(s, LAMBDA v : v = e)
  <2>1. I \subseteq Nat /\ I # {}
        BY <1>1, <1>2
  <2>2. k = CHOOSE x \in I : \A y \in I : x <= y
        BY <2>1 DEF SelectInSeq, Min
  <2>3. k \in I
    <3> HIDE DEF I, k
    <3> QED BY <2>1, <2>2, Least
  <2>4. k \in 1..Len(s)
        BY <2>3
  <2>5. RemoveFirst(s, e) = SubSeq(s, 1, k - 1) \o SubSeq(s, k + 1, Len(s))
        BY <1>2 DEF RemoveFirst, RemoveAt
  <2> HIDE DEF k
  <2> DEFINE a == SubSeq(s, 1, k - 1)
             b == SubSeq(s, k + 1, Len(s))
  <2>6. a \in Seq(S) /\ Len(a) = k - 1 - 1 + 1
    <3>1. k - 1 \in Nat /\ 1 \in Nat \ {0} /\ 1 <= k - 1 + 1 /\ k - 1 <= Len(s)
          BY <1>1, <2>4
    <3>2. QED BY <3>1, PartIs
  <2>7. b \in Seq(S) /\ Len(b) = Len(s) - (k + 1) + 1
    <3>1. k + 1 \in Nat \ {0} /\ k + 1 <= Len(s) + 1 /\ Len(s) <= Len(s)
          BY <1>1, <2>4
    <3>2. QED BY <1>1, <3>1, PartIs
  <2> HIDE DEF a, b
  <2>8. a \o b \in Seq(S) /\ Len(a \o b) = Len(a) + Len(b)
        BY <2>6, <2>7, ConcatProperties
  <2>9. Len(a \o b) <= Len(s)
        BY <1>1, <2>4, <2>6, <2>7, <2>8
  <2>10. QED BY <2>5, <2>8, <2>9 DEF a, b
<1>3. CASE ~(\E i \in 1..Len(s) : s[i] = e)
  <2>1. RemoveFirst(s, e) = s
        BY <1>3 DEF RemoveFirst
  <2>2. QED BY <1>1, <2>1
<1>4. QED BY <1>2, <1>3
-----------------------------------------------------------------------------
(***************************************************************************)
(* Blocks as paths.                                                        *)
(***************************************************************************)

LEMMA BlockIs ==
    \A b : b \in Blocks <=> b \in Seq(Branches) /\ Number(b) <= MaxHeight
<1> USE ReorganizationAssumption
<1>1. ASSUME NEW b \in Blocks PROVE b \in Seq(Branches) /\ Number(b) <= MaxHeight
  <2>1. PICK h \in 0..MaxHeight : b \in [1..h -> Branches]
        BY DEF Blocks
  <2>2. h \in Nat
        OBVIOUS
  <2>3. b \in Seq(Branches)
        BY <2>1, <2>2, SeqDef
  <2>4. DOMAIN b = 1..h /\ DOMAIN b = 1..Len(b) /\ Len(b) \in Nat
        BY <2>1, <2>3, LenProperties
  <2>5. Len(b) = h
        BY <2>2, <2>4
  <2>6. QED BY <2>3, <2>5 DEF Number
<1>2. ASSUME NEW b \in Seq(Branches), Number(b) <= MaxHeight PROVE b \in Blocks
  <2>1. Len(b) \in 0..MaxHeight /\ b \in [1..Len(b) -> Branches]
        BY <1>2, LenProperties DEF Number
  <2>2. QED BY <2>1 DEF Blocks
<1>3. QED BY <1>1, <1>2

LEMMA NumberType == \A b \in Blocks : Number(b) \in Nat /\ (Number(b) = 0 <=> b = Genesis)
<1> SUFFICES ASSUME NEW b \in Blocks PROVE Number(b) \in Nat /\ (Number(b) = 0 <=> b = Genesis)
    OBVIOUS
<1>1. b \in Seq(Branches)
      BY BlockIs
<1>2. QED BY <1>1, LenProperties, EmptySeq DEF Number, Genesis

LEMMA GenesisIsBlock == Genesis \in Blocks /\ Number(Genesis) = 0
<1>1. Genesis \in Seq(Branches) /\ Number(Genesis) = 0
      BY EmptySeq DEF Genesis, Number
<1>2. QED BY <1>1, BlockIs, ReorganizationAssumption

(* Two blocks are equal if their paths are.                                *)
LEMMA SamePath ==
    ASSUME NEW a \in Blocks, NEW b \in Blocks, Number(a) = Number(b),
           \A i \in 1..Number(a) : a[i] = b[i]
    PROVE  a = b
<1>1. a \in Seq(Branches) /\ b \in Seq(Branches)
      BY BlockIs
<1>2. QED BY <1>1, SeqEqual DEF Number

(* An ancestor, or the block itself, is a prefix.                          *)
LEMMA PrefixIs ==
    ASSUME NEW a \in Blocks, NEW b \in Blocks
    PROVE  IsPrefix(a, b) <=> /\ Number(a) <= Number(b)
                              /\ \A i \in 1..Number(a) : a[i] = b[i]
<1>1. a \in Seq(Branches) /\ b \in Seq(Branches)
      BY BlockIs
<1> DEFINE n == Len(a)
<1>2. n \in Nat /\ Len(b) \in Nat /\ SubSeq(a, 1, n) = a
      BY <1>1, LenProperties, SubSeqFull
<1>3. CASE n <= Len(b)
  <2> DEFINE z == SubSeq(b, 1, n)
  <2>1. 1 \in Nat \ {0} /\ 1 <= n + 1 /\ n - 1 + 1 = n /\ \A i \in 1..n : 1 + i - 1 = i
        BY <1>2
  <2> HIDE DEF n
  <2>2. /\ z \in Seq(Branches) /\ Len(z) = n - 1 + 1
        /\ \A i \in 1..n - 1 + 1 : z[i] = b[1 + i - 1]
        BY <1>1, <1>2, <1>3, <2>1, PartIs
  <2> HIDE DEF z
  <2>3. Len(z) = n /\ \A i \in 1..n : z[i] = b[i]
        BY <2>1, <2>2
  <2>4. a = z <=> \A i \in 1..n : a[i] = z[i]
        BY <1>1, <2>2, <2>3, SeqEqual DEF n
  <2>5. IsPrefix(a, b) <=> n <= Len(b) /\ a = z
        BY <1>2 DEF IsPrefix, n, z
  <2>6. QED BY <1>3, <2>3, <2>4, <2>5 DEF Number, n
<1>4. CASE ~(n <= Len(b))
      BY <1>4 DEF IsPrefix, Number
<1>5. QED BY <1>3, <1>4

LEMMA PrefixOrder ==
    /\ \A a \in Blocks : IsPrefix(a, a)
    /\ \A a, b \in Blocks : IsPrefix(a, b) /\ IsPrefix(b, a) => a = b
    /\ \A a, b, c \in Blocks : IsPrefix(a, b) /\ IsPrefix(b, c) => IsPrefix(a, c)
    /\ \A a, b, c \in Blocks :
           IsPrefix(a, c) /\ IsPrefix(b, c) /\ Number(a) <= Number(b) => IsPrefix(a, b)
<1>1. \A a \in Blocks : IsPrefix(a, a)
      BY PrefixIs, NumberType
<1>2. ASSUME NEW a \in Blocks, NEW b \in Blocks, IsPrefix(a, b), IsPrefix(b, a)
      PROVE  a = b
  <2>1. Number(a) = Number(b)
        BY <1>2, PrefixIs, NumberType
  <2>2. QED BY <1>2, <2>1, PrefixIs, SamePath
<1>3. ASSUME NEW a \in Blocks, NEW b \in Blocks, NEW c \in Blocks,
             IsPrefix(a, b), IsPrefix(b, c)
      PROVE  IsPrefix(a, c)
  <2>1. /\ Number(a) \in Nat /\ Number(b) \in Nat /\ Number(c) \in Nat
        /\ Number(a) <= Number(b) /\ Number(b) <= Number(c)
        /\ \A i \in 1..Number(a) : a[i] = b[i]
        /\ \A i \in 1..Number(b) : b[i] = c[i]
        BY <1>3, PrefixIs, NumberType
  <2>2. QED BY <2>1, PrefixIs
<1>4. ASSUME NEW a \in Blocks, NEW b \in Blocks, NEW c \in Blocks,
             IsPrefix(a, c), IsPrefix(b, c), Number(a) <= Number(b)
      PROVE  IsPrefix(a, b)
  <2>1. /\ Number(a) \in Nat /\ Number(b) \in Nat
        /\ \A i \in 1..Number(a) : a[i] = c[i]
        /\ \A i \in 1..Number(b) : b[i] = c[i]
        BY <1>4, PrefixIs, NumberType
  <2>2. QED BY <1>4, <2>1, PrefixIs
<1>5. QED BY <1>1, <1>2, <1>3, <1>4

(* The parent is the greatest of the other ancestors.                      *)
LEMMA ParentIs ==
    ASSUME NEW b \in Blocks, b # Genesis
    PROVE  /\ Parent(b) \in Blocks /\ Number(Parent(b)) = Number(b) - 1 /\ Number(b) \in Nat \ {0}
           /\ IsPrefix(Parent(b), b)
           /\ \A a \in Blocks : IsPrefix(a, b) /\ a # b => IsPrefix(a, Parent(b))
<1>1. b \in Seq(Branches) /\ b # <<>> /\ Number(b) <= MaxHeight
      BY BlockIs DEF Genesis
<1>2. /\ Parent(b) \in Seq(Branches) /\ Number(Parent(b)) = Number(b) - 1
      /\ Number(b) \in Nat \ {0} /\ \A i \in 1..Number(b) - 1 : Parent(b)[i] = b[i]
      BY <1>1, FrontIs DEF Parent, Number
<1>3. Number(Parent(b)) <= MaxHeight
      BY <1>1, <1>2, ReorganizationAssumption
<1>4. Parent(b) \in Blocks
      BY <1>2, <1>3, BlockIs
<1>5. IsPrefix(Parent(b), b)
      BY <1>2, <1>4, PrefixIs
<1>6. ASSUME NEW a \in Blocks, IsPrefix(a, b), a # b PROVE IsPrefix(a, Parent(b))
  <2>1. Number(a) \in Nat /\ Number(a) <= Number(b)
        BY <1>6, PrefixIs, NumberType
  <2>2. Number(a) # Number(b)
        BY <1>6, PrefixIs, SamePath
  <2>3. Number(a) <= Number(Parent(b))
        BY <1>2, <2>1, <2>2
  <2>4. QED BY <1>4, <1>5, <1>6, <2>3, PrefixOrder
<1>7. QED BY <1>2, <1>4, <1>5, <1>6
-----------------------------------------------------------------------------
(***************************************************************************)
(* Types.                                                                  *)
(***************************************************************************)

(* The node has all ancestors of its blocks, and none higher than its tip. *)
Tree ==
    /\ Genesis \in blocks
    /\ \A b \in blocks : b # Genesis => Parent(b) \in blocks
    /\ \A b \in blocks : Number(b) <= Number(top)

(* A header has been taken by who works on one.                            *)
Working == pc \notin {"polling", "ended"}

Typed == TypeOK /\ Tree /\ (Working => taken # <<>>)

(* The two tips of the walk are blocks of the node.                        *)
LEMMA SidesAreBlocks ==
    Typed => OldSide \in blocks /\ NewSide \in blocks /\ blocks \subseteq Blocks
BY DEF Typed, TypeOK, OldSide, NewSide

(* The higher side of a walk that goes on is not the genesis block.        *)
LEMMA HigherHasParent ==
    ASSUME Typed, ~Found
    PROVE  IF Number(OldSide) >= Number(NewSide) THEN OldSide # Genesis ELSE NewSide # Genesis
<1>1. /\ OldSide \in Blocks /\ NewSide \in Blocks
      /\ Number(OldSide) \in Nat /\ Number(NewSide) \in Nat
      /\ Number(OldSide) = 0 <=> OldSide = Genesis
      /\ Number(NewSide) = 0 <=> NewSide = Genesis
      BY SidesAreBlocks, NumberType
<1>2. OldSide # NewSide
      BY DEF Found
<1>3. QED BY <1>1, <1>2

LEMMA UsedIs ==
    ASSUME Typed, NEW b \in blocks
    PROVE  Used(b) \in Seq(blocks) /\ Len(Used(b)) <= CacheSize
<1> DEFINE others == RemoveFirst(cache, b)
           rest == IF Len(others) = CacheSize THEN Tail(others) ELSE others
<1>1. cache \in Seq(blocks) /\ Len(cache) <= CacheSize /\ Len(cache) \in Nat
      BY LenProperties DEF Typed, TypeOK
<1>2. CacheSize \in Nat \ {0}
      BY ReorganizationAssumption
<1>3. others \in Seq(blocks) /\ Len(others) <= Len(cache) /\ Len(others) \in Nat
      BY <1>1, RemovedIs, LenProperties
<1>4. Used(b) = Append(rest, b)
      BY DEF Used
<1> HIDE DEF others
<1>5. rest \in Seq(blocks) /\ Len(rest) \in Nat /\ Len(rest) < CacheSize
  <2>1. CASE Len(others) = CacheSize
    <3>1. others # <<>>
          BY <1>2, <2>1, EmptySeq
    <3>2. Tail(others) \in Seq(blocks) /\ Len(Tail(others)) = Len(others) - 1
          BY <1>3, <3>1, HeadTailProperties
    <3>3. QED BY <1>2, <2>1, <3>2
  <2>2. CASE Len(others) # CacheSize
        BY <1>1, <1>2, <1>3, <2>2
  <2>3. QED BY <2>1, <2>2
<1> HIDE DEF rest
<1>6. Append(rest, b) \in Seq(blocks) /\ Len(Append(rest, b)) = Len(rest) + 1
      BY <1>5, AppendProperties
<1>7. QED BY <1>2, <1>4, <1>5, <1>6

(* What stays typed when the tree does not change.                         *)
LEMMA TreeKept ==
    ASSUME Typed, UNCHANGED node
    PROVE  Tree' /\ blocks' \subseteq Blocks /\ top' \in blocks' /\ blocks' = blocks
BY DEF Typed, TypeOK, Tree, node

LEMMA TypedInit == Init => Typed
<1> SUFFICES ASSUME Init PROVE Typed
    OBVIOUS
<1> USE ReorganizationAssumption
<1>1. InitialHeight \in Nat /\ top \in [1..InitialHeight -> Branches] /\ InitialHeight <= MaxHeight
      BY DEF Init
<1>2. top \in Seq(Branches)
      BY <1>1, SeqDef
<1>3. Len(top) = InitialHeight
  <2>1. DOMAIN top = 1..InitialHeight /\ DOMAIN top = 1..Len(top) /\ Len(top) \in Nat
        BY <1>1, <1>2, LenProperties
  <2>2. QED BY <1>1, <2>1
<1>4. top \in Blocks
      BY <1>1, <1>2, <1>3, BlockIs DEF Number
<1>5. ASSUME NEW h \in 0..InitialHeight
      PROVE  /\ SubSeq(top, 1, h) \in Blocks /\ Number(SubSeq(top, 1, h)) = h
             /\ \A i \in 1..h : SubSeq(top, 1, h)[i] = top[i]
  <2>1. 1 \in Nat \ {0} /\ h \in Nat /\ 1 <= h + 1 /\ h <= Len(top) /\ h - 1 + 1 = h
        BY <1>1, <1>3
  <2>2. /\ SubSeq(top, 1, h) \in Seq(Branches) /\ Len(SubSeq(top, 1, h)) = h - 1 + 1
        /\ \A i \in 1..h - 1 + 1 : SubSeq(top, 1, h)[i] = top[1 + i - 1]
        BY <1>2, <2>1, PartIs
  <2>3. \A i \in 1..h : SubSeq(top, 1, h)[i] = top[i]
    <3>1. \A i \in 1..h : 1 + i - 1 = i
          OBVIOUS
    <3>2. QED BY <2>1, <2>2, <3>1
  <2>4. Len(SubSeq(top, 1, h)) = h /\ h <= MaxHeight
        BY <1>1, <2>1, <2>2
  <2>5. QED BY <2>2, <2>3, <2>4, BlockIs DEF Number
<1>6. blocks = {SubSeq(top, 1, h) : h \in 0..InitialHeight}
      BY DEF Init
<1>7. blocks \subseteq Blocks /\ top \in blocks
  <2>1. SubSeq(top, 1, InitialHeight) = top /\ InitialHeight \in 0..InitialHeight
        BY <1>1, <1>2, <1>3, SubSeqFull
  <2>2. QED BY <1>5, <1>6, <2>1
<1>8. Genesis \in blocks
  <2>1. 0 \in 0..InitialHeight /\ Number(SubSeq(top, 1, 0)) = 0 /\ SubSeq(top, 1, 0) \in Blocks
        BY <1>1, <1>5
  <2>2. SubSeq(top, 1, 0) = Genesis
        BY <2>1, NumberType
  <2>3. QED BY <1>6, <2>1, <2>2
<1>9. ASSUME NEW b \in blocks, b # Genesis PROVE Parent(b) \in blocks
  <2>1. PICK h \in 0..InitialHeight : b = SubSeq(top, 1, h)
        BY <1>6
  <2>2. Parent(b) \in Blocks /\ Number(Parent(b)) = h - 1 /\ h \in Nat \ {0} /\ Number(b) = h
        BY <1>5, <1>7, <1>9, <2>1, ParentIs
  <2>3. h - 1 \in 0..InitialHeight
        BY <2>2
  <2>4. /\ SubSeq(top, 1, h - 1) \in Blocks /\ Number(SubSeq(top, 1, h - 1)) = h - 1
        /\ \A i \in 1..h - 1 : SubSeq(top, 1, h - 1)[i] = top[i]
        BY <1>5, <2>3
  <2>5. \A i \in 1..h - 1 : Parent(b)[i] = b[i]
        BY <1>7, <1>9, <2>2, ParentIs, PrefixIs
  <2>6. \A i \in 1..h - 1 : b[i] = top[i]
    <3>1. \A i \in 1..h - 1 : i \in 1..h
          BY <2>2
    <3>2. QED BY <1>5, <2>1, <3>1
  <2>7. Parent(b) = SubSeq(top, 1, h - 1)
        BY <2>2, <2>4, <2>5, <2>6, SamePath
  <2>8. QED BY <1>6, <2>3, <2>7
<1>10. \A b \in blocks : Number(b) <= Number(top)
      BY <1>3, <1>5, <1>6 DEF Number
<1>11. TypeOK
  <2>1. <<>> \in Seq(blocks) /\ Len(<<>>) = 0
        BY EmptySeq
  <2>2. pending = <<>> /\ taken = <<>> /\ open = TRUE
        BY DEF Init, Headers!Init
  <2>3. QED BY <1>7, <1>8, <2>1, <2>2 DEF Init, TypeOK
<1>12. QED BY <1>8, <1>9, <1>10, <1>11 DEF Typed, Tree, Working, Init

(* A step of the task that asks for blocks of the node.                    *)
LEMMA TypedWalk ==
    ASSUME Typed, Working, Walk, UNCHANGED <<node, pipe, mainTip>>,
           cache' \in Seq(blocks), Len(cache') <= CacheSize
    PROVE  Typed'
<1>1. OldSide \in blocks /\ NewSide \in blocks
      BY SidesAreBlocks
<1>2. old' \in blocks /\ new' \in blocks
      BY <1>1 DEF Walk
<1>3. /\ asked' \in blocks /\ side' \in {"tip", "old", "new"}
      /\ pc' \in {"report", "get_header"}
  <2>1. CASE Found
        BY <2>1 DEF Walk, Typed, TypeOK
  <2>2. CASE ~Found
    <3>1. /\ Number(OldSide) >= Number(NewSide) => Parent(OldSide) \in blocks
          /\ ~(Number(OldSide) >= Number(NewSide)) => Parent(NewSide) \in blocks
          BY <1>1, <2>2, HigherHasParent DEF Typed, Tree
    <3>2. Ask /\ pc' = "get_header"
          BY <2>2 DEF Walk
    <3>3. QED BY <3>1, <3>2 DEF Ask
  <2>3. QED BY <2>1, <2>2
<1>4. UNCHANGED <<blocks, top, pending, taken, open, mainTip>>
      BY DEF node, pipe
<1>5. QED BY <1>2, <1>3, <1>4, TreeKept DEF Typed, TypeOK, node, Working

LEMMA TypedNode ==
    ASSUME Typed, NodeMoves
    PROVE  Typed'
<1>1. PICK b \in Blocks \ blocks :
          /\ b # Genesis /\ Parent(b) \in blocks
          /\ blocks' = blocks \cup {b}
          /\ IF Number(b) > Number(top)
             THEN top' = b /\ (Headers!Put(b) \/ (~open /\ UNCHANGED pipe))
             ELSE UNCHANGED <<top, pipe>>
      BY DEF NodeMoves
<1>2. /\ blocks \subseteq Blocks /\ top \in blocks /\ Genesis \in blocks
      /\ \A c \in blocks : Number(c) \in Nat /\ Number(c) <= Number(top)
      BY NumberType DEF Typed, TypeOK, Tree
<1>3. Number(b) \in Nat /\ Number(top) \in Nat
      BY <1>2, NumberType
<1>4. blocks' \subseteq Blocks /\ top' \in blocks'
      BY <1>1, <1>2
<1>5. Tree'
  <2>1. Genesis \in blocks' /\ \A c \in blocks' : c # Genesis => Parent(c) \in blocks'
        BY <1>1, <1>2 DEF Typed, Tree
  <2>2. \A c \in blocks' : Number(c) <= Number(top')
        BY <1>1, <1>2, <1>3
  <2>3. QED BY <2>1, <2>2 DEF Tree
<1>6. pending' \in Seq(blocks') /\ taken' \in Seq(blocks') /\ open' \in BOOLEAN
  <2>1. pending \in Seq(blocks') /\ taken \in Seq(blocks') /\ open \in BOOLEAN
        BY <1>1, SeqMonotonic DEF Typed, TypeOK
  <2>2. Append(pending, b) \in Seq(blocks')
        BY <1>1, <2>1, AppendProperties
  <2>3. QED BY <1>1, <2>1, <2>2 DEF Headers!Put, pipe
<1>7. cache' \in Seq(blocks') /\ Len(cache') <= CacheSize
      BY <1>1, SeqMonotonic DEF NodeMoves, Typed, TypeOK
<1>8. taken' = taken
      BY <1>1 DEF Headers!Put, pipe
<1>9. QED BY <1>1, <1>4, <1>5, <1>6, <1>7, <1>8 DEF Typed, TypeOK, NodeMoves, Working

(* The first header that waits is taken.                                   *)
LEMMA TakeIs ==
    ASSUME Typed, Headers!Take
    PROVE  /\ Head(pending) \in blocks /\ taken' = Append(taken, Head(pending))
           /\ pending' = Tail(pending) /\ open' = open
           /\ pending' \in Seq(blocks) /\ taken' \in Seq(blocks)
           /\ Len(taken') = Len(taken) + 1 /\ Len(pending') = Len(pending) - 1
           /\ Len(taken) \in Nat /\ Len(pending) \in Nat \ {0}
           /\ \A i \in 1..Len(taken) : taken'[i] = taken[i]
           /\ taken'[Len(taken) + 1] = Head(pending) /\ Head(pending) = pending[1]
           /\ \A i \in 1..Len(pending) - 1 : pending'[i] = pending[i + 1]
<1>1. pending \in Seq(blocks) /\ taken \in Seq(blocks) /\ pending # <<>>
      BY DEF Typed, TypeOK, Headers!Take
<1>2. /\ Head(pending) \in blocks /\ Tail(pending) \in Seq(blocks)
      /\ Len(Tail(pending)) = Len(pending) - 1
      /\ \A i \in 1..Len(pending) - 1 : Tail(pending)[i] = pending[i + 1]
      BY <1>1, HeadTailProperties
<1>3. Len(taken) \in Nat /\ Len(pending) \in Nat \ {0} /\ Head(pending) = pending[1]
      BY <1>1, LenProperties, EmptySeq
<1>4. /\ Append(taken, Head(pending)) \in Seq(blocks)
      /\ Len(Append(taken, Head(pending))) = Len(taken) + 1
      /\ \A i \in 1..Len(taken) : Append(taken, Head(pending))[i] = taken[i]
      /\ Append(taken, Head(pending))[Len(taken) + 1] = Head(pending)
      BY <1>1, <1>2, AppendProperties
<1>5. QED BY <1>2, <1>3, <1>4 DEF Headers!Take

LEMMA TypedStep == Typed /\ [Next]_vars => Typed'
<1> SUFFICES ASSUME Typed, [Next]_vars PROVE Typed'
    OBVIOUS
<1>1. CASE NodeMoves
      BY <1>1, TypedNode
<1>2. CASE Disconnect
  <2>1. PICK n \in 0..Len(pending) : pending' = SubSeq(pending, 1, n)
        BY <1>2 DEF Disconnect, Headers!Cut
  <2>2. pending' \in Seq(blocks)
    <3>1. pending \in Seq(blocks) /\ Len(pending) \in Nat
          BY LenProperties DEF Typed, TypeOK
    <3>2. 1 \in Nat \ {0} /\ n \in Nat /\ 1 <= n + 1 /\ n <= Len(pending)
          BY <3>1
    <3>3. QED BY <2>1, <3>1, <3>2, PartIs
  <2>3. QED BY <1>2, <2>2, TreeKept DEF Disconnect, Headers!Cut, Typed, TypeOK, node, Working
<1>3. CASE Extend \/ Reorganize
  <2>1. Headers!Take
        BY <1>3 DEF Extend, Reorganize
  <2>2. taken' # <<>>
        BY <2>1, TakeIs, EmptySeq
  <2>3. QED BY <1>3, <2>1, <2>2, TakeIs, TreeKept DEF Extend, Reorganize, Typed, TypeOK, node, Working
<1>4. CASE End \/ Unreachable
      BY <1>4, TreeKept DEF End, Unreachable, Typed, TypeOK, node, Working, pipe
<1>5. CASE GetHeader
  <2>1. CASE asked \in ToSet(cache) \cup MainChain
    <3>1. cache' \in Seq(blocks) /\ Len(cache') <= CacheSize
          BY <1>5, <2>1, UsedIs DEF GetHeader, Typed, TypeOK
    <3>2. QED BY <1>5, <2>1, <3>1, TypedWalk DEF GetHeader, Working
  <2>2. CASE asked \notin ToSet(cache) \cup MainChain
        BY <1>5, <2>2, TreeKept DEF GetHeader, Typed, TypeOK, node, Working, pipe
  <2>3. QED BY <2>1, <2>2
<1>6. CASE GetForkBlock
      BY <1>6, TypedWalk DEF GetForkBlock, Typed, TypeOK, Working
<1>7. CASE Report
  <2>1. Last(taken) \in blocks
        BY <1>7, FrontIs DEF Report, Typed, TypeOK, Working
  <2>2. QED BY <1>7, <2>1, TreeKept DEF Report, Typed, TypeOK, node, pipe, Working
<1>8. CASE UNCHANGED vars
      BY <1>8, TreeKept DEF vars, Typed, TypeOK, node, pipe, Working
<1>9. QED BY <1>1, <1>2, <1>3, <1>4, <1>5, <1>6, <1>7, <1>8 DEF Next

(* The topic and the cache hold blocks of the node only, and the walk      *)
(* never asks for a parent that the genesis block does not have            *)
(* (reorganization.rs:115).                                                *)
THEOREM ReorganizationTypeCorrect == Spec => []TypeOK
<1>1. Typed => TypeOK
      BY DEF Typed
<1>2. QED BY <1>1, TypedInit, TypedStep, PTL DEF Spec

LEMMA TypedHolds == Spec => []Typed
BY TypedInit, TypedStep, PTL DEF Spec
-----------------------------------------------------------------------------
(***************************************************************************)
(* The announcements.                                                      *)
(***************************************************************************)

(* The tips that are announced are each one higher than the one before:    *)
(* the Pipe loses none in between.                                         *)
Announced ==
    /\ \A i \in 1..Len(taken) : Number(taken[i]) = InitialHeight + i
    /\ \A i \in 1..Len(pending) : Number(pending[i]) = InitialHeight + Len(taken) + i
    /\ open => Number(top) = InitialHeight + Len(taken) + Len(pending)

LEMMA Lengths ==
    Typed => /\ pending \in Seq(blocks) /\ taken \in Seq(blocks)
             /\ Len(taken) \in Nat /\ Len(pending) \in Nat
             /\ Number(top) \in Nat /\ InitialHeight \in Nat
             /\ \A i \in 1..Len(taken) : taken[i] \in Blocks /\ Number(taken[i]) \in Nat
BY LenProperties, ElementOfSeq, NumberType, ReorganizationAssumption DEF Typed, TypeOK

LEMMA AnnouncedInit == Init => Announced
<1> SUFFICES ASSUME Init PROVE Announced
    OBVIOUS
<1>1. Len(pending) = 0 /\ Len(taken) = 0
      BY EmptySeq DEF Init, Headers!Init
<1>2. Len(top) = InitialHeight
  <2>1. InitialHeight \in Nat /\ top \in [1..InitialHeight -> Branches]
        BY ReorganizationAssumption DEF Init
  <2>2. top \in Seq(Branches)
        BY <2>1, SeqDef
  <2>3. DOMAIN top = 1..InitialHeight /\ DOMAIN top = 1..Len(top) /\ Len(top) \in Nat
        BY <2>1, <2>2, LenProperties
  <2>4. QED BY <2>1, <2>3
<1>3. QED BY <1>1, <1>2, ReorganizationAssumption DEF Announced, Number

LEMMA AnnouncedNode ==
    ASSUME Typed, Announced, NodeMoves
    PROVE  Announced'
<1>1. PICK b \in Blocks \ blocks :
          /\ b # Genesis /\ Parent(b) \in blocks
          /\ blocks' = blocks \cup {b}
          /\ IF Number(b) > Number(top)
             THEN top' = b /\ (Headers!Put(b) \/ (~open /\ UNCHANGED pipe))
             ELSE UNCHANGED <<top, pipe>>
      BY DEF NodeMoves
<1>2. CASE Number(b) > Number(top) /\ Headers!Put(b)
  <2>1. Number(b) \in Nat /\ Number(Parent(b)) = Number(b) - 1
        BY <1>1, ParentIs
  <2>2. Number(Parent(b)) <= Number(top)
        BY <1>1 DEF Typed, Tree
  <2>3. Number(b) = Number(top) + 1
        BY <1>2, <2>1, <2>2, Lengths
  <2>4. top' = b /\ taken' = taken /\ open /\ pending' = Append(pending, b)
        BY <1>1, <1>2 DEF Headers!Put
  <2>5. pending \in Seq(blocks')
        BY <1>1, Lengths, SeqMonotonic
  <2>6. /\ Len(pending') = Len(pending) + 1 /\ pending'[Len(pending) + 1] = b
        /\ \A i \in 1..Len(pending) : pending'[i] = pending[i]
        BY <1>1, <2>4, <2>5, AppendProperties
  <2>7. Number(b) = InitialHeight + Len(taken) + Len(pending) + 1
        BY <2>3, <2>4, Lengths DEF Announced
  <2>8. Number(top') = InitialHeight + Len(taken') + Len(pending')
        BY <2>4, <2>6, <2>7, Lengths
  <2>9. ASSUME NEW i \in 1..Len(pending')
        PROVE  Number(pending'[i]) = InitialHeight + Len(taken') + i
    <3>1. i \in 1..Len(pending) \/ i = Len(pending) + 1
          BY <2>6, Lengths
    <3>2. CASE i \in 1..Len(pending)
          BY <2>4, <2>6, <3>2 DEF Announced
    <3>3. CASE i = Len(pending) + 1
          BY <2>4, <2>6, <2>7, <3>3, Lengths
    <3>4. QED BY <3>1, <3>2, <3>3
  <2>10. QED BY <2>4, <2>8, <2>9 DEF Announced
<1>3. CASE ~(Number(b) > Number(top) /\ Headers!Put(b))
      BY <1>1, <1>3 DEF Announced, pipe
<1>4. QED BY <1>2, <1>3

LEMMA AnnouncedTake ==
    ASSUME Typed, Announced, Headers!Take, UNCHANGED node
    PROVE  Announced'
<1>1. ASSUME NEW i \in 1..Len(taken') PROVE Number(taken'[i]) = InitialHeight + i
  <2>1. i \in 1..Len(taken) \/ i = Len(taken) + 1
        BY <1>1, TakeIs
  <2>2. CASE i \in 1..Len(taken)
        BY <2>2, TakeIs DEF Announced
  <2>3. CASE i = Len(taken) + 1
    <3>1. taken'[i] = pending[1] /\ 1 \in 1..Len(pending)
          BY <2>3, TakeIs
    <3>2. QED BY <2>3, <3>1, Lengths DEF Announced
  <2>4. QED BY <2>1, <2>2, <2>3
<1>3. /\ Len(taken') = Len(taken) + 1 /\ Len(pending') = Len(pending) - 1
      /\ Len(taken) \in Nat /\ Len(pending) \in Nat /\ InitialHeight \in Nat
      BY TakeIs, Lengths
<1>2. ASSUME NEW i \in 1..Len(pending')
      PROVE  Number(pending'[i]) = InitialHeight + Len(taken') + i
  <2>1. pending'[i] = pending[i + 1] /\ i + 1 \in 1..Len(pending)
        BY TakeIs
  <2>2. Number(pending[i + 1]) = InitialHeight + Len(taken) + (i + 1)
        BY <2>1 DEF Announced
  <2>3. InitialHeight + Len(taken) + (i + 1) = InitialHeight + (Len(taken) + 1) + i
        BY <1>3
  <2>4. QED BY <1>3, <2>1, <2>2, <2>3
<1>4. open' => Number(top') = InitialHeight + Len(taken') + Len(pending')
  <2>1. UNCHANGED <<open, top>>
        BY TakeIs DEF node
  <2>2. open => Number(top) = InitialHeight + (Len(taken) + 1) + (Len(pending) - 1)
        BY <1>3 DEF Announced
  <2>3. QED BY <1>3, <2>1, <2>2
<1>5. QED BY <1>1, <1>2, <1>4 DEF Announced

LEMMA AnnouncedStep == Typed /\ Announced /\ [Next]_vars => Announced'
<1> SUFFICES ASSUME Typed, Announced, [Next]_vars PROVE Announced'
    OBVIOUS
<1>1. CASE NodeMoves
      BY <1>1, AnnouncedNode
<1>2. CASE Disconnect
  <2>1. /\ UNCHANGED <<top, taken>> /\ open' = FALSE
        /\ \E n \in 0..Len(pending) : pending' = SubSeq(pending, 1, n)
        BY <1>2 DEF Disconnect, Headers!Cut, node
  <2>2. PICK n \in 0..Len(pending) : pending' = SubSeq(pending, 1, n)
        BY <2>1
  <2>3. 1 \in Nat \ {0} /\ n \in Nat /\ 1 <= n + 1 /\ n <= Len(pending) /\ n - 1 + 1 = n
            /\ \A i \in 1..n : 1 + i - 1 = i
        BY Lengths
  <2>4. Len(pending') = n - 1 + 1 /\ \A i \in 1..n - 1 + 1 : pending'[i] = pending[1 + i - 1]
        BY <2>2, <2>3, Lengths, PartIs
  <2>5. Len(pending') <= Len(pending) /\ \A i \in 1..Len(pending') : pending'[i] = pending[i]
        BY <2>3, <2>4
  <2>6. \A i \in 1..Len(pending') : i \in 1..Len(pending)
        BY <2>3, <2>4
  <2>7. QED BY <2>1, <2>5, <2>6 DEF Announced
<1>3. CASE Extend \/ Reorganize
      BY <1>3, AnnouncedTake DEF Extend, Reorganize, node
<1>4. CASE UNCHANGED <<node, pipe>>
      BY <1>4 DEF Announced, node, pipe
<1>5. QED BY <1>1, <1>2, <1>3, <1>4 DEF Next, vars, End, GetHeader, GetForkBlock, Unreachable,
         Report
-----------------------------------------------------------------------------
(***************************************************************************)
(* The walk.                                                               *)
(***************************************************************************)

(* The tip before and the tip of the reorganisation in work.               *)
Before == taken[Len(taken) - 1]
After == taken[Len(taken)]

Tips ==
    /\ ~Working => mainTip = IF Len(taken) = 0 THEN Genesis ELSE After
    /\ Working => Len(taken) >= 2 /\ mainTip = Before /\ Parent(After) # Before

(* All common ancestors of the two tips are ancestors of both sides.       *)
Between(o, n) ==
    /\ IsPrefix(o, Before) /\ IsPrefix(n, After)
    /\ \A d \in Blocks : IsPrefix(d, Before) /\ IsPrefix(d, After)
                             => IsPrefix(d, o) /\ IsPrefix(d, n)

Descends ==
    /\ pc \in {"get_header", "get_fork_block"} => Between(OldSide, NewSide)
    /\ pc = "report" => old = Ancestor(Before, After) /\ IsPrefix(old, After)

(* The two sides meet at the lowest common ancestor.                       *)
LEMMA MeetAtAncestor ==
    ASSUME NEW a \in Blocks, NEW b \in Blocks, NEW c \in Blocks,
           IsPrefix(c, a), IsPrefix(c, b),
           \A d \in Blocks : IsPrefix(d, a) /\ IsPrefix(d, b) => IsPrefix(d, c)
    PROVE  Ancestor(a, b) = c
<1> DEFINE Lowest(x) == /\ IsPrefix(x, a) /\ IsPrefix(x, b)
                        /\ \A d \in Blocks : IsPrefix(d, a) /\ IsPrefix(d, b) => IsPrefix(d, x)
<1>1. Lowest(c)
      OBVIOUS
<1>2. Ancestor(a, b) = CHOOSE x \in Blocks : Lowest(x)
      BY DEF Ancestor
<1>3. Ancestor(a, b) \in Blocks /\ Lowest(Ancestor(a, b))
  <2> HIDE DEF Lowest
  <2> QED BY <1>1, <1>2
<1>4. IsPrefix(c, Ancestor(a, b)) /\ IsPrefix(Ancestor(a, b), c)
      BY <1>3
<1>5. QED BY <1>3, <1>4, PrefixOrder

(* The higher side can be left for its parent unless the sides are equal.  *)
LEMMA WalkDescends ==
    ASSUME Typed, Len(taken) >= 2, Between(OldSide, NewSide), Walk, UNCHANGED pipe
    PROVE  Descends'
<1>1. /\ OldSide \in Blocks /\ NewSide \in Blocks
      /\ Number(OldSide) \in Nat /\ Number(NewSide) \in Nat
      BY SidesAreBlocks, NumberType
<1>2. Before \in Blocks /\ After \in Blocks
  <2>1. Len(taken) \in 1..Len(taken) /\ Len(taken) - 1 \in 1..Len(taken)
        BY Lengths
  <2>2. QED BY <2>1, Lengths DEF Before, After
<1>3. Before' = Before /\ After' = After
      BY DEF Before, After, pipe
<1>4. CASE Found
  <2>1. OldSide = NewSide /\ old' = OldSide /\ pc' = "report"
        BY <1>4 DEF Found, Walk
  <2>2. Ancestor(Before, After) = OldSide
        BY <1>1, <1>2, <2>1, MeetAtAncestor DEF Between
  <2>3. IsPrefix(old', After)
        BY <2>1 DEF Between
  <2>4. QED BY <1>3, <2>1, <2>2, <2>3 DEF Descends, Ancestor
<1>5. CASE ~Found
  <2>1. /\ old' = OldSide /\ new' = NewSide /\ pc' = "get_header" /\ Ask
        BY <1>5 DEF Walk
  <2>2. OldSide # NewSide
        BY <1>5 DEF Found
  <2>3. CASE Number(OldSide) >= Number(NewSide)
    <3>1. OldSide' = Parent(OldSide) /\ NewSide' = NewSide
          BY <2>1, <2>3 DEF Ask, OldSide, NewSide
    <3>2. /\ OldSide # Genesis /\ Parent(OldSide) \in Blocks /\ IsPrefix(Parent(OldSide), OldSide)
          /\ \A a \in Blocks : IsPrefix(a, OldSide) /\ a # OldSide => IsPrefix(a, Parent(OldSide))
          BY <1>1, <1>5, <2>3, HigherHasParent, ParentIs
    <3>3. IsPrefix(Parent(OldSide), Before)
          BY <1>1, <1>2, <3>2, PrefixOrder DEF Between
    <3>4. ASSUME NEW d \in Blocks, IsPrefix(d, Before), IsPrefix(d, After)
          PROVE  IsPrefix(d, Parent(OldSide)) /\ IsPrefix(d, NewSide)
      <4>1. IsPrefix(d, OldSide) /\ IsPrefix(d, NewSide)
            BY <3>4 DEF Between
      <4>2. d # OldSide
        <5>1. SUFFICES ASSUME d = OldSide PROVE FALSE
              OBVIOUS
        <5>2. Number(OldSide) <= Number(NewSide) /\ \A i \in 1..Number(OldSide) : OldSide[i] = NewSide[i]
              BY <1>1, <4>1, <5>1, PrefixIs
        <5>3. Number(OldSide) = Number(NewSide)
              BY <1>1, <2>3, <5>2
        <5>4. QED BY <1>1, <2>2, <5>2, <5>3, SamePath
      <4>3. QED BY <3>2, <4>1, <4>2
    <3>5. Between(Parent(OldSide), NewSide)
          BY <3>3, <3>4 DEF Between
    <3>6. Between(OldSide, NewSide)'
          BY <1>3, <3>1, <3>5 DEF Between
    <3>7. QED BY <2>1, <3>6 DEF Descends
  <2>4. CASE ~(Number(OldSide) >= Number(NewSide))
    <3>1. OldSide' = OldSide /\ NewSide' = Parent(NewSide)
          BY <2>1, <2>4 DEF Ask, OldSide, NewSide
    <3>2. /\ NewSide # Genesis /\ Parent(NewSide) \in Blocks /\ IsPrefix(Parent(NewSide), NewSide)
          /\ \A a \in Blocks : IsPrefix(a, NewSide) /\ a # NewSide => IsPrefix(a, Parent(NewSide))
          BY <1>1, <1>5, <2>4, HigherHasParent, ParentIs
    <3>3. IsPrefix(Parent(NewSide), After)
          BY <1>1, <1>2, <3>2, PrefixOrder DEF Between
    <3>4. ASSUME NEW d \in Blocks, IsPrefix(d, Before), IsPrefix(d, After)
          PROVE  IsPrefix(d, OldSide) /\ IsPrefix(d, Parent(NewSide))
      <4>1. IsPrefix(d, OldSide) /\ IsPrefix(d, NewSide)
            BY <3>4 DEF Between
      <4>2. d # NewSide
            BY <1>1, <2>4, <4>1, PrefixIs
      <4>3. QED BY <3>2, <4>1, <4>2
    <3>5. Between(OldSide, Parent(NewSide))
          BY <3>3, <3>4 DEF Between
    <3>6. Between(OldSide, NewSide)'
          BY <1>3, <3>1, <3>5 DEF Between
    <3>7. QED BY <2>1, <3>6 DEF Descends
  <2>5. QED BY <2>3, <2>4
<1>6. QED BY <1>4, <1>5

Walks == Typed /\ Announced /\ Tips /\ Descends

LEMMA WalksInit == Init => Walks
<1> SUFFICES ASSUME Init PROVE Walks
    OBVIOUS
<1>1. Len(taken) = 0
      BY EmptySeq DEF Init, Headers!Init
<1>2. QED BY <1>1, TypedInit, AnnouncedInit DEF Init, Walks, Tips, Descends, Working

(* A new header: it extends the last tip, it is the first, or else its     *)
(* parent is another block.                                                *)
LEMMA WalksTake ==
    ASSUME Walks, Extend \/ Reorganize
    PROVE  /\ Tips' /\ Descends'
           /\ Extend => Len(taken) = 0 \/ Parent(After') = After
<1>1. /\ Headers!Take /\ pc = "polling"
      /\ Extend => Parent(Head(pending)) = mainTip \/ Number(mainTip) = 0
      /\ Reorganize => Parent(Head(pending)) # mainTip /\ Number(mainTip) # 0
      BY DEF Extend, Reorganize
<1>2. /\ Len(taken') = Len(taken) + 1 /\ Len(taken) \in Nat
      /\ After' = Head(pending) /\ Head(pending) \in Blocks
      BY <1>1, TakeIs DEF Walks, Typed, TypeOK, After
<1>3. Len(taken) # 0 => Before' = After
  <2>1. SUFFICES ASSUME Len(taken) # 0 PROVE Before' = After
        OBVIOUS
  <2>2. Len(taken') - 1 = Len(taken) /\ Len(taken) \in 1..Len(taken)
        BY <1>2, <2>1
  <2>3. taken'[Len(taken)] = taken[Len(taken)]
        BY <1>1, <2>2, TakeIs DEF Walks
  <2>4. Before' = taken'[Len(taken') - 1]
        BY DEF Before
  <2>5. QED BY <2>2, <2>3, <2>4 DEF After
<1>4. mainTip = IF Len(taken) = 0 THEN Genesis ELSE After
      BY <1>1 DEF Walks, Tips, Working
<1>5. Len(taken) # 0 => After \in Blocks /\ Number(After) # 0
  <2>1. SUFFICES ASSUME Len(taken) # 0 PROVE After \in Blocks /\ Number(After) # 0
        OBVIOUS
  <2>2. Len(taken) \in 1..Len(taken)
        BY <1>2, <2>1
  <2>3. Number(After) = InitialHeight + Len(taken) /\ InitialHeight \in Nat /\ After \in Blocks
        BY <2>2, Lengths DEF Walks, Announced, After
  <2>4. QED BY <1>2, <2>1, <2>3
<1>6. Number(Genesis) = 0
      BY GenesisIsBlock
<1>7. CASE Extend
  <2>1. Len(taken) = 0 \/ Parent(After') = After
        BY <1>1, <1>2, <1>4, <1>5, <1>7
  <2>2. pc' = "polling" /\ mainTip' = Head(pending)
        BY <1>1, <1>7 DEF Extend
  <2>3. QED BY <1>2, <2>1, <2>2 DEF Tips, Descends, Working
<1>8. CASE Reorganize
  <2>1. Len(taken) # 0 /\ mainTip = After /\ Parent(After') # After
        BY <1>1, <1>2, <1>4, <1>6, <1>8
  <2>2. /\ pc' = "get_header" /\ new' = Head(pending) /\ side' = "tip" /\ asked' = mainTip
        /\ mainTip' = mainTip
        BY <1>8 DEF Reorganize
  <2>3. Tips'
        BY <1>2, <1>3, <2>1, <2>2 DEF Tips, Working
  <2>4. OldSide' = Before' /\ NewSide' = After'
        BY <1>2, <1>3, <2>1, <2>2 DEF OldSide, NewSide
  <2>5. Before' \in Blocks /\ After' \in Blocks
        BY <1>2, <1>3, <1>5, <2>1
  <2>6. IsPrefix(Before', Before') /\ IsPrefix(After', After')
        BY <2>5, PrefixOrder
  <2>7. Between(OldSide, NewSide)'
        BY <2>4, <2>6 DEF Between
  <2>8. Descends'
        BY <2>2, <2>7 DEF Descends
  <2>9. Extend => Len(taken) = 0 \/ Parent(After') = After
        BY <2>2 DEF Extend
  <2>10. QED BY <2>3, <2>8, <2>9
<1>9. QED BY <1>7, <1>8

LEMMA WalksStep == Walks /\ [Next]_vars => Walks'
<1> SUFFICES ASSUME Walks, [Next]_vars PROVE Tips' /\ Descends'
    BY TypedStep, AnnouncedStep DEF Walks
<1>1. CASE UNCHANGED <<taken, pc, mainTip, old, new, side, asked>>
  <2>1. UNCHANGED <<Before, After, OldSide, NewSide, Working>>
        BY <1>1 DEF Before, After, OldSide, NewSide, Working
  <2>2. QED BY <1>1, <2>1 DEF Walks, Tips, Descends, Between, Ancestor
<1>2. CASE Extend \/ Reorganize
      BY <1>2, WalksTake
<1>3. CASE End
      BY <1>3 DEF End, pipe, Walks, Tips, Descends, Working, Before, After
<1>4. ASSUME Walk, UNCHANGED <<pipe, mainTip>>, pc \in {"get_header", "get_fork_block"}
      PROVE  Tips' /\ Descends'
  <2>1. pc' \in {"report", "get_header"}
        BY <1>4 DEF Walk
  <2>2. Len(taken) >= 2 /\ Between(OldSide, NewSide)
        BY <1>4 DEF Walks, Tips, Descends, Working
  <2>3. Descends'
        BY <1>4, <2>2, WalkDescends DEF Walks
  <2>4. Tips'
        BY <1>4, <2>1 DEF Walks, Tips, Working, Before, After, pipe
  <2>5. QED BY <2>3, <2>4
<1>5. CASE GetHeader
  <2>1. CASE asked \in ToSet(cache) \cup MainChain
        BY <1>4, <1>5, <2>1 DEF GetHeader
  <2>2. CASE asked \notin ToSet(cache) \cup MainChain
    <3>1. /\ pc = "get_header" /\ pc' = "get_fork_block"
          /\ UNCHANGED <<taken, mainTip, old, new, side, asked>>
          BY <1>5, <2>2 DEF GetHeader, pipe
    <3>2. UNCHANGED <<Before, After, OldSide, NewSide, Working>>
          BY <3>1 DEF Before, After, OldSide, NewSide, Working
    <3>3. QED BY <3>1, <3>2 DEF Walks, Tips, Descends, Between
  <2>3. QED BY <2>1, <2>2
<1>6. CASE GetForkBlock
      BY <1>4, <1>6 DEF GetForkBlock
<1>7. CASE Unreachable
      BY <1>7 DEF Unreachable, pipe, Walks, Tips, Descends, Working, Before, After
<1>8. CASE Report
  <2>1. pc = "report" /\ pc' = "polling" /\ mainTip' = Last(taken) /\ taken' = taken
        BY <1>8 DEF Report, pipe
  <2>2. Len(taken) \in Nat /\ Len(taken) >= 2
        BY <2>1, Lengths DEF Walks, Tips, Working
  <2>3. QED BY <2>1, <2>2 DEF Tips, Descends, Working, After, Last
<1>9. QED BY <1>1, <1>2, <1>3, <1>5, <1>6, <1>7, <1>8 DEF Next, vars, NodeMoves, Disconnect,
         Headers!Put, Headers!Cut, pipe
-----------------------------------------------------------------------------
(***************************************************************************)
(* The rows.                                                               *)
(***************************************************************************)

(* Where the tips of h change the branch, and how many times up to i.      *)
Steps(h) == {i \in 2..Len(h) : Parent(h[i]) # h[i - 1]}
CountOf(h, i) == Cardinality({j \in Steps(h) : j <= i})

Exact(rs, h) ==
    /\ Len(rs) = Cardinality(Steps(h))
    /\ \A i \in Steps(h) :
           rs[CountOf(h, i)] = Row(h[i - 1], h[i], Ancestor(h[i - 1], h[i]))

LEMMA StepsAreFinite ==
    ASSUME NEW h \in Seq(Blocks)
    PROVE  /\ IsFiniteSet(Steps(h)) /\ Cardinality(Steps(h)) \in Nat
           /\ \A i \in Steps(h) : CountOf(h, i) \in 1..Cardinality(Steps(h))
<1>1. Len(h) \in Nat
      BY LenProperties
<1>2. IsFiniteSet(2..Len(h)) /\ Steps(h) \subseteq 2..Len(h)
      BY <1>1, FS_Interval DEF Steps
<1>3. IsFiniteSet(Steps(h)) /\ Cardinality(Steps(h)) \in Nat
      BY <1>2, FS_Subset, FS_CardinalityType
<1>4. ASSUME NEW i \in Steps(h) PROVE CountOf(h, i) \in 1..Cardinality(Steps(h))
  <2> DEFINE S == {j \in Steps(h) : j <= i}
  <2>1. S \subseteq Steps(h) /\ i \in S
        BY <1>1 DEF Steps
  <2> HIDE DEF S
  <2>2. IsFiniteSet(S) /\ Cardinality(S) <= Cardinality(Steps(h)) /\ Cardinality(S) \in Nat
        BY <1>3, <2>1, FS_Subset, FS_CardinalityType
  <2>3. Cardinality(S) # 0
        BY <2>1, <2>2, FS_EmptySet
  <2>4. QED BY <1>3, <2>2, <2>3 DEF CountOf, S
<1>5. QED BY <1>3, <1>4

(* One more tip.                                                           *)
LEMMA OneMore ==
    ASSUME NEW h \in Seq(Blocks), NEW b \in Blocks
    PROVE  LET n == Len(h)  g == Append(h, b)
               changes == n > 0 /\ Parent(b) # h[n]
           IN  /\ g \in Seq(Blocks) /\ Len(g) = n + 1 /\ n \in Nat /\ g[n + 1] = b
               /\ \A i \in 1..n : g[i] = h[i]
               /\ Steps(g) = IF changes THEN Steps(h) \cup {n + 1} ELSE Steps(h)
               /\ \A i \in Steps(h) : CountOf(g, i) = CountOf(h, i)
               /\ changes => CountOf(g, n + 1) = Cardinality(Steps(h)) + 1
                             /\ Cardinality(Steps(g)) = Cardinality(Steps(h)) + 1
<1> DEFINE n == Len(h)
           g == Append(h, b)
           changes == n > 0 /\ Parent(b) # h[n]
<1>1. /\ g \in Seq(Blocks) /\ Len(g) = n + 1 /\ n \in Nat /\ g[n + 1] = b
      /\ \A i \in 1..n : g[i] = h[i]
      BY AppendProperties, LenProperties
<1> HIDE DEF g, n
<1>2. Steps(h) = {i \in 2..n : Parent(h[i]) # h[i - 1]}
      BY DEF Steps, n
<1>3. Steps(g) = {i \in 2..n + 1 : Parent(g[i]) # g[i - 1]}
      BY <1>1 DEF Steps
<1>4. \A i \in 2..n : g[i] = h[i] /\ g[i - 1] = h[i - 1]
      BY <1>1
<1>5. changes <=> n + 1 \in Steps(g)
      BY <1>1, <1>3
<1>6. \A i \in 2..n : i \in Steps(g) <=> i \in Steps(h)
      BY <1>1, <1>2, <1>3, <1>4
<1>7. Steps(h) \subseteq 2..n /\ Steps(g) \subseteq 2..n + 1 /\ 2..n + 1 \subseteq 2..n \cup {n + 1}
      BY <1>1, <1>2, <1>3
<1>8. Steps(g) = IF changes THEN Steps(h) \cup {n + 1} ELSE Steps(h)
  <2> HIDE DEF changes
  <2> DEFINE A == Steps(g)
             B == Steps(h)
             m == n + 1
  <2>1. /\ \A i \in 2..n : i \in A <=> i \in B
        /\ B \subseteq 2..n /\ A \subseteq 2..n \cup {m} /\ (changes <=> m \in A)
        BY <1>5, <1>6, <1>7
  <2> HIDE DEF A, B, m
  <2>2. A = IF changes THEN B \cup {m} ELSE B
    <3>1. \A x \in A : x \in B \/ x = m
          BY <2>1
    <3>2. \A x \in B : x \in A
          BY <2>1
    <3>3. CASE changes
          BY <2>1, <3>1, <3>2, <3>3
    <3>4. CASE ~changes
      <4>1. m \notin A
            BY <2>1, <3>4
      <4>2. \A x : x \in A <=> x \in B
            BY <3>1, <3>2, <4>1
      <4>3. A = B
            BY <4>2
      <4>4. QED BY <3>4, <4>3
    <3>5. QED BY <3>3, <3>4
  <2>3. QED BY <2>2 DEF A, B, m
<1>9. ASSUME NEW i \in Steps(h) PROVE CountOf(g, i) = CountOf(h, i)
  <2>1. i \in 2..n /\ ~(n + 1 <= i)
        BY <1>1, <1>7
  <2>2. {j \in Steps(g) : j <= i} = {j \in Steps(h) : j <= i}
        BY <1>8, <2>1
  <2>3. QED BY <2>2 DEF CountOf
<1>10. n + 1 \notin Steps(h) /\ IsFiniteSet(Steps(h))
      BY <1>1, <1>7, StepsAreFinite
<1>11. changes => Cardinality(Steps(g)) = Cardinality(Steps(h)) + 1
      BY <1>8, <1>10, FS_AddElement
<1>12. {j \in Steps(g) : j <= n + 1} = Steps(g)
      BY <1>1, <1>7
<1>13. changes => CountOf(g, n + 1) = Cardinality(Steps(h)) + 1
      BY <1>11, <1>12 DEF CountOf
<1>14. QED BY <1>1, <1>8, <1>9, <1>11, <1>13 DEF g, n

LEMMA ExactExtends ==
    ASSUME NEW h \in Seq(Blocks), NEW b \in Blocks, NEW rs, Exact(rs, h),
           Len(h) = 0 \/ Parent(b) = h[Len(h)]
    PROVE  Exact(rs, Append(h, b))
<1> DEFINE n == Len(h)
           g == Append(h, b)
<1>1. /\ g \in Seq(Blocks) /\ Len(g) = n + 1 /\ n \in Nat /\ Steps(g) = Steps(h)
      /\ \A i \in 1..n : g[i] = h[i]
      /\ \A i \in Steps(h) : CountOf(g, i) = CountOf(h, i)
      BY OneMore
<1> HIDE DEF g
<1>2. \A i \in Steps(h) : i \in 1..n /\ i - 1 \in 1..n
      BY <1>1 DEF Steps
<1>3. \A i \in Steps(g) : g[i] = h[i] /\ g[i - 1] = h[i - 1] /\ CountOf(g, i) = CountOf(h, i)
      BY <1>1, <1>2
<1>4. QED BY <1>1, <1>3 DEF Exact, g

LEMMA ExactReports ==
    ASSUME NEW h \in Seq(Blocks), NEW b \in Blocks, NEW R, NEW rs \in Seq(R), Exact(rs, h),
           Len(h) > 0, Parent(b) # h[Len(h)],
           NEW row \in R, row = Row(h[Len(h)], b, Ancestor(h[Len(h)], b))
    PROVE  Exact(Append(rs, row), Append(h, b))
<1> DEFINE n == Len(h)
           g == Append(h, b)
           ss == Append(rs, row)
           c == Cardinality(Steps(h))
<1>1. /\ g \in Seq(Blocks) /\ Len(g) = n + 1 /\ n \in Nat /\ g[n + 1] = b
      /\ Steps(g) = Steps(h) \cup {n + 1}
      /\ \A i \in 1..n : g[i] = h[i]
      /\ \A i \in Steps(h) : CountOf(g, i) = CountOf(h, i)
      /\ CountOf(g, n + 1) = c + 1 /\ Cardinality(Steps(g)) = c + 1
      BY OneMore
<1> HIDE DEF g
<1>2. Len(rs) = c
      BY DEF Exact
<1>3. Len(ss) = c + 1 /\ ss[c + 1] = row /\ \A i \in 1..c : ss[i] = rs[i]
      BY <1>2, AppendProperties
<1> HIDE DEF ss, c
<1>4. ASSUME NEW i \in Steps(h)
      PROVE  ss[CountOf(g, i)] = Row(g[i - 1], g[i], Ancestor(g[i - 1], g[i]))
  <2>1. i \in 1..n /\ i - 1 \in 1..n
        BY <1>1 DEF Steps
  <2>2. CountOf(h, i) \in 1..c
        BY StepsAreFinite DEF c
  <2>3. ss[CountOf(g, i)] = rs[CountOf(h, i)]
        BY <1>1, <1>3, <2>2
  <2>4. rs[CountOf(h, i)] = Row(h[i - 1], h[i], Ancestor(h[i - 1], h[i]))
        BY DEF Exact
  <2>5. g[i] = h[i] /\ g[i - 1] = h[i - 1]
        BY <1>1, <2>1
  <2>6. QED BY <2>3, <2>4, <2>5
<1>5. ss[CountOf(g, n + 1)] = Row(g[n + 1 - 1], g[n + 1], Ancestor(g[n + 1 - 1], g[n + 1]))
  <2>1. n + 1 - 1 = n /\ n \in 1..n
        BY <1>1
  <2>2. g[n + 1 - 1] = h[n]
        BY <1>1, <2>1
  <2>3. QED BY <1>1, <1>3, <2>2
<1>6. ASSUME NEW i \in Steps(g)
      PROVE  ss[CountOf(g, i)] = Row(g[i - 1], g[i], Ancestor(g[i - 1], g[i]))
  <2>1. CASE i = n + 1
        BY <1>5, <2>1
  <2>2. QED BY <1>1, <1>4, <2>1
<1>7. Exact(ss, g)
      BY <1>1, <1>3, <1>6 DEF Exact
<1>8. QED BY <1>7 DEF g, ss

(* The rows are those of the headers handled, and each detaches blocks.    *)
Reports ==
    /\ rows \in Seq([old_tip : Blocks, new_tip : Blocks, ancestor : Blocks,
                     attached_length : Int])
    /\ Exact(rows, Handled)
    /\ RowsDetach

LEMMA HandledIs ==
    ASSUME Walks
    PROVE  /\ Handled \in Seq(Blocks)
           /\ Working => /\ taken = Append(Handled, After) /\ Len(Handled) > 0
                         /\ Handled[Len(Handled)] = Before /\ After \in Blocks /\ Before \in Blocks
<1>1. taken \in Seq(Blocks) /\ Len(taken) \in Nat
      BY Lengths, SeqMonotonic DEF Walks, Typed, TypeOK
<1>2. CASE ~Working
      BY <1>1, <1>2 DEF Handled, Working
<1>3. CASE Working
  <2>1. Handled = Front(taken) /\ Len(taken) >= 2 /\ taken # <<>>
        BY <1>1, <1>3, EmptySeq DEF Handled, Working, Walks, Tips
  <2>2. /\ Handled \in Seq(Blocks) /\ Len(Handled) = Len(taken) - 1
        /\ \A i \in 1..Len(taken) - 1 : Handled[i] = taken[i]
        BY <1>1, <2>1, FrontIs
  <2>3. Len(taken) - 1 \in 1..Len(taken) - 1 /\ Len(taken) \in 1..Len(taken) /\ Len(Handled) > 0
        BY <1>1, <2>1, <2>2
  <2>4. Handled[Len(Handled)] = Before /\ After \in Blocks /\ Before \in Blocks
        BY <1>1, <2>2, <2>3, ElementOfSeq DEF Before, After
  <2> DEFINE z == Append(Handled, After)
  <2>5. /\ z \in Seq(Blocks) /\ Len(z) = Len(Handled) + 1 /\ z[Len(Handled) + 1] = After
        /\ \A i \in 1..Len(Handled) : z[i] = Handled[i]
        BY <2>2, <2>4, AppendProperties
  <2> HIDE DEF z
  <2>6. Len(z) = Len(taken)
        BY <1>1, <2>2, <2>5
  <2>7. ASSUME NEW i \in 1..Len(taken) PROVE taken[i] = z[i]
    <3>1. i \in 1..Len(taken) - 1 \/ i = Len(taken)
          BY <1>1
    <3>2. CASE i \in 1..Len(taken) - 1
          BY <2>2, <2>5, <3>2
    <3>3. CASE i = Len(taken)
          BY <1>1, <2>2, <2>5, <3>3 DEF After
    <3>4. QED BY <3>1, <3>2, <3>3
  <2>8. taken = z
        BY <1>1, <2>5, <2>6, <2>7, SeqEqual
  <2>9. QED BY <2>2, <2>3, <2>4, <2>8 DEF z
<1>4. QED BY <1>2, <1>3

LEMMA ReportsInit == Init => Reports
<1> SUFFICES ASSUME Init PROVE Reports
    OBVIOUS
<1>1. taken = <<>> /\ rows = <<>> /\ pc = "polling"
      BY DEF Init, Headers!Init
<1>2. Handled = <<>> /\ Len(<<>>) = 0
      BY <1>1, EmptySeq DEF Handled
<1>3. Steps(Handled) = {}
      BY <1>2 DEF Steps
<1>4. Exact(rows, Handled)
      BY <1>1, <1>2, <1>3, FS_EmptySet DEF Exact
<1>5. RowsDetach
  <2>1. DOMAIN rows = 1..0
        BY <1>1, <1>2, EmptySeq, LenProperties
  <2>2. QED BY <2>1 DEF RowsDetach
<1>6. QED BY <1>1, <1>4, <1>5, EmptySeq DEF Reports

LEMMA ReportsStep == Walks /\ Reports /\ [Next]_vars => Reports'
<1> SUFFICES ASSUME Walks, Reports, [Next]_vars PROVE Reports'
    OBVIOUS
<1> DEFINE R == [old_tip : Blocks, new_tip : Blocks, ancestor : Blocks, attached_length : Int]
<1>1. ASSUME rows' = rows, Exact(rows, Handled') PROVE Reports'
      BY <1>1 DEF Reports, RowsDetach
<1>2. ASSUME UNCHANGED rows, Handled' = Handled PROVE Reports'
      BY <1>1, <1>2 DEF Reports
<1>3. CASE Extend
  <2>1. /\ pc = "polling" /\ pc' = "polling" /\ rows' = rows /\ Headers!Take
        BY <1>3 DEF Extend
  <2>2. Handled = taken /\ Handled' = Append(taken, Head(pending)) /\ Head(pending) \in Blocks
            /\ After' = Head(pending)
        BY <2>1, TakeIs DEF Handled, Walks, Typed, TypeOK, After
  <2>3. Len(taken) = 0 \/ Parent(Head(pending)) = taken[Len(taken)]
        BY <1>3, <2>2, WalksTake DEF After
  <2>4. Exact(rows, Handled')
        BY <2>2, <2>3, HandledIs, ExactExtends DEF Reports
  <2>5. QED BY <1>1, <2>1, <2>4
<1>4. CASE Reorganize
  <2>1. pc = "polling" /\ pc' = "get_header" /\ rows' = rows /\ Headers!Take
        BY <1>4 DEF Reorganize
  <2>2. Handled = taken /\ Handled' = Front(taken') /\ taken' \in Seq(blocks) /\ taken \in Seq(blocks)
        BY <2>1, TakeIs, Lengths DEF Handled, Walks
  <2>3. Len(taken') = Len(taken) + 1 /\ Len(taken) \in Nat /\ taken' # <<>>
            /\ \A i \in 1..Len(taken) : taken'[i] = taken[i]
        BY <2>1, <2>2, TakeIs, EmptySeq DEF Walks
  <2>4. /\ Front(taken') \in Seq(blocks) /\ Len(Front(taken')) = Len(taken') - 1
        /\ \A i \in 1..Len(taken') - 1 : Front(taken')[i] = taken'[i]
        BY <2>2, <2>3, FrontIs
  <2>5. Len(taken') - 1 = Len(taken)
        BY <2>3
  <2>6. Front(taken') = taken
        BY <2>2, <2>3, <2>4, <2>5, SeqEqual
  <2>7. QED BY <1>2, <2>1, <2>2, <2>6
<1>5. CASE Report
  <2>1. /\ pc = "report" /\ pc' = "polling" /\ taken' = taken
        /\ rows' = Append(rows, Row(mainTip, Last(taken), old))
        BY <1>5 DEF Report, pipe
  <2>2. /\ mainTip = Before /\ Last(taken) = After /\ old = Ancestor(Before, After)
        /\ Parent(After) # Before /\ Len(taken) >= 2
        BY <2>1 DEF Walks, Tips, Descends, Working, Last, After
  <2>3. /\ Handled \in Seq(Blocks) /\ taken = Append(Handled, After) /\ Len(Handled) > 0
        /\ Handled[Len(Handled)] = Before /\ After \in Blocks /\ Before \in Blocks
        BY <2>1, HandledIs DEF Working
  <2>4. Handled' = Append(Handled, After)
        BY <2>1, <2>3 DEF Handled
  <2>5. old \in Blocks
        BY DEF Walks, Typed, TypeOK
  <2> DEFINE row == Row(Before, After, Ancestor(Before, After))
  <2>6. row \in R
        BY <2>2, <2>3, <2>5, NumberType DEF Row
  <2>7. row.old_tip = Before /\ row.ancestor = old
        BY <2>2 DEF Row
  <2> HIDE DEF row
  <2>8. /\ rows \in Seq(R) /\ rows' = Append(rows, row) /\ rows' \in Seq(R)
        /\ Len(rows') = Len(rows) + 1 /\ Len(rows) \in Nat /\ rows'[Len(rows) + 1] = row
        /\ \A i \in 1..Len(rows) : rows'[i] = rows[i]
        BY <2>1, <2>2, <2>6, AppendProperties, LenProperties DEF Reports, row
  <2>9. Exact(rows', Handled')
        BY <2>2, <2>3, <2>4, <2>6, <2>8, ExactReports DEF Reports, row
  <2>10. old # Before
    <3>1. SUFFICES ASSUME old = Before PROVE FALSE
          OBVIOUS
    <3>2. Len(taken) \in 1..Len(taken) /\ Len(taken) - 1 \in 1..Len(taken) /\ Len(taken) \in Nat
          BY <2>2, Lengths DEF Walks
    <3>3. /\ Number(Before) = InitialHeight + (Len(taken) - 1)
          /\ Number(After) = InitialHeight + Len(taken) /\ InitialHeight \in Nat
          BY <3>2, Lengths DEF Walks, Announced, Before, After
    <3>4. Number(After) = Number(Before) + 1 /\ Number(After) # 0 /\ Number(Before) \in Nat
          BY <3>2, <3>3
    <3>5. After # Genesis
          BY <3>4, GenesisIsBlock
    <3>6. /\ Parent(After) \in Blocks /\ Number(Parent(After)) = Number(Before)
          /\ \A i \in 1..Number(Parent(After)) : Parent(After)[i] = After[i]
          BY <2>3, <3>4, <3>5, ParentIs, PrefixIs
    <3>7. IsPrefix(Before, After)
          BY <2>1, <3>1 DEF Walks, Descends
    <3>8. \A i \in 1..Number(Before) : Before[i] = After[i]
          BY <2>3, <3>7, PrefixIs
    <3>9. Parent(After) = Before
          BY <2>3, <3>6, <3>8, SamePath
    <3>10. QED BY <2>2, <3>9
  <2>11. RowsDetach'
    <3>1. DOMAIN rows = 1..Len(rows) /\ DOMAIN rows' = 1..Len(rows) + 1
          BY <2>8, LenProperties
    <3>2. ASSUME NEW i \in DOMAIN rows' PROVE rows'[i].old_tip # rows'[i].ancestor
      <4>1. i \in 1..Len(rows) \/ i = Len(rows) + 1
            BY <2>8, <3>1
      <4>2. CASE i \in 1..Len(rows)
            BY <2>8, <3>1, <4>2 DEF Reports, RowsDetach
      <4>3. CASE i = Len(rows) + 1
            BY <2>7, <2>8, <2>10, <4>3
      <4>4. QED BY <4>1, <4>2, <4>3
    <3>3. QED BY <3>2 DEF RowsDetach
  <2>12. QED BY <2>8, <2>9, <2>11 DEF Reports
<1>6. CASE Walk /\ UNCHANGED <<pipe, rows>> /\ pc \in {"get_header", "get_fork_block"}
      BY <1>2, <1>6 DEF Walk, Handled, pipe
<1>7. CASE UNCHANGED <<taken, pc, rows>>
      BY <1>2, <1>7 DEF Handled
<1>8. CASE End \/ Unreachable
      BY <1>2, <1>8 DEF End, Unreachable, Handled, pipe
<1>9. CASE GetHeader \/ GetForkBlock
  <2>1. CASE pc = "get_header" /\ pc' = "get_fork_block" /\ UNCHANGED <<pipe, rows>>
        BY <1>2, <2>1 DEF Handled, pipe
  <2>2. QED BY <1>6, <1>9, <2>1 DEF GetHeader, GetForkBlock
<1>10. QED BY <1>3, <1>4, <1>5, <1>7, <1>8, <1>9 DEF Next, vars, NodeMoves, Disconnect,
         Headers!Put, Headers!Cut, pipe

LEMMA ReportsHold == Spec => [](Walks /\ Reports)
BY WalksInit, WalksStep, ReportsInit, ReportsStep, PTL DEF Spec

(* Whatever the chain does during the walks, which header comes from the   *)
(* cache, the main chain or a fork, there is one row for each change of    *)
(* branch, with the lowest common ancestor (reorganization.rs:93-119).     *)
THEOREM EveryChangeIsReported == Spec => []RowsExact
<1>1. Reports => RowsExact
      BY DEF Reports, Exact, Steps, CountOf, RowsExact
<1>2. QED BY <1>1, ReportsHold, PTL

(* A row is never about a tip that only grew (reorganization.rs:75).       *)
THEOREM EveryRowDetaches == Spec => []RowsDetach
<1>1. Reports => RowsDetach
      BY DEF Reports
<1>2. QED BY <1>1, ReportsHold, PTL
=============================================================================
