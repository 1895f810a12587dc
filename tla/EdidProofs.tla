----------------------------- MODULE EdidProofs -----------------------------
(***************************************************************************)
(* Proofs about Edid, for every EDID and any size of block: the walk stays *)
(* inside the bytes it was given, visits every data block, moves forward   *)
(* with each, and its visitors report what the EDID says.                  *)
(***************************************************************************)
EXTENDS Edid, FiniteSetTheorems, WellFoundedInduction, TLAPS

\* A visited data block lies in a whole CTA extension, before its timings.
Inside(x, p, len) ==
  /\ BlockStart(x) + p + len < Len(edid)
  /\ p + len < Dtd(x) /\ Dtd(x) < BlockSize

\* Between extensions pos is 0; inside one, the extension was found to be
\* complete and to have a collection.
Located ==
  /\ edid \in Seq(Byte)
  /\ ext \in Nat /\ pos \in Nat
  /\ pos > 0 => There(ext) /\ IsCta(ext)
  /\ \A b \in visited : Inside(b.ext, b.at, b.len)

LEMMA ByteAt ==
  ASSUME edid \in Seq(Byte), NEW i \in Nat
  PROVE  At(i) \in Byte
<1>1. CASE i < Len(edid)
  <2>1. i + 1 \in 1 .. Len(edid)  BY <1>1
  <2>2. edid[i + 1] \in Byte  BY <2>1
  <2>. QED BY <1>1, <2>2 DEF At
<1>2. CASE ~(i < Len(edid))  BY <1>2 DEF At, Byte
<1>. QED BY <1>1, <1>2

LEMMA ByteRemainder == \A b \in Byte : b % 32 \in Nat
BY DEF Byte

LEMMA PlacesInBlock ==
  ASSUME edid \in Seq(Byte), NEW x \in Nat, NEW p \in Nat
  PROVE  /\ BlockStart(x) \in Nat /\ Dtd(x) \in Nat
         /\ LengthAt(x, p) \in Nat
<1>1. BlockSize \in Nat  BY EdidAssumption
<1>2. BlockStart(x) \in Nat  BY <1>1 DEF BlockStart
<1>3. Dtd(x) \in Byte  BY <1>2, ByteAt DEF Dtd, DtdOffsetIndex
<1>4. At(BlockStart(x) + p) \in Byte  BY <1>2, ByteAt
<1>5. LengthAt(x, p) \in Nat  BY <1>4, ByteRemainder DEF LengthAt
<1>6. Byte \subseteq Nat  BY DEF Byte
<1>. QED BY <1>2, <1>3, <1>5, <1>6

LEMMA LocatedInit == Init => Located
BY EdidAssumption DEF Init, Located

\* The header at pos and the len bytes behind it end before the timings.
LEMMA LocatedDataBlock ==
  ASSUME Located, DataBlock
  PROVE  Located'
<1>. DEFINE len == LengthAt(ext, pos)
<1>1. /\ edid' = edid
      /\ InCollection(ext, pos) /\ pos > 0
      /\ visited' = visited \cup {[ext |-> ext, at |-> pos, len |-> len]}
  BY DEF DataBlock
<1>2. /\ BlockStart(ext) \in Nat /\ Dtd(ext) \in Nat /\ len \in Nat
      /\ BlockSize \in Nat
  <2>1. edid \in Seq(Byte) /\ ext \in Nat /\ pos \in Nat  BY DEF Located
  <2>2. BlockSize \in Nat  BY EdidAssumption
  <2>. QED BY <2>1, <2>2, PlacesInBlock
<1>3. pos + 1 + len <= Dtd(ext)
  BY <1>1 DEF InCollection, Within, DataEnd
<1>4. /\ BlockStart(ext) + BlockSize - 1 < Len(edid)
      /\ Dtd(ext) <= BlockSize - 1
  BY <1>1 DEF Located, There, IsCta, MaxOffset
<1>5. Len(edid) \in Nat /\ pos \in Nat  BY DEF Located
<1>6. Inside(ext, pos, len)
  BY <1>2, <1>3, <1>4, <1>5 DEF Inside
<1>7. \A b \in visited' : Inside(b.ext, b.at, b.len)'
  BY <1>1, <1>6 DEF Located, Inside, Dtd, BlockStart, At
<1>8. \/ ext' = 0 /\ pos' = 0
      \/ ext' = ext /\ pos' = pos + 1 + len
  BY DEF DataBlock, End, DataEnd
<1>9. (pos > 0 => There(ext) /\ IsCta(ext))'
  BY <1>1, <1>8 DEF Located, There, IsCta, Dtd, BlockStart, At
<1>. QED BY <1>1, <1>2, <1>5, <1>7, <1>8, <1>9 DEF Located

LEMMA LocatedElsewhere ==
  ASSUME Located,
         (\E q \in Queries : Begin(q)) \/ Finish \/ Extension \/ LeaveExtension
  PROVE  Located'
<1>. USE DEF Located, Inside, There, IsCta, Dtd, BlockStart, At
<1>1. ASSUME NEW q \in Queries, Begin(q) PROVE Located'  BY <1>1 DEF Begin
<1>2. CASE Finish  BY <1>2 DEF Finish, End
<1>3. CASE Extension  BY <1>3 DEF Extension, DataStart
<1>4. CASE LeaveExtension  BY <1>4 DEF LeaveExtension
<1>. QED BY <1>1, <1>2, <1>3, <1>4

LEMMA LocatedNext == Located /\ [Next]_vars => Located'
<1>. SUFFICES ASSUME Located, [Next]_vars PROVE Located'
  OBVIOUS
<1>1. CASE UNCHANGED vars
  BY <1>1 DEF Located, Inside, There, IsCta, Dtd, BlockStart, At, vars
<1>2. CASE Next
  BY <1>2, LocatedDataBlock, LocatedElsewhere DEF Next, Walk
<1>. QED BY <1>1, <1>2

\* However wrong the lengths and offsets in an EDID are, a visitor of
\* dshalEdidVisitCtaDataBlocks is given bytes of the EDID only, inside one
\* extension block and before its detailed timings.
THEOREM StaysInside == Spec => []InBounds
<1>1. Located => InBounds  BY DEF Located, Inside, InBounds
<1>2. Init => Located  BY LocatedInit
<1>3. Located /\ [Next]_vars => Located'  BY LocatedNext
<1>. QED BY <1>1, <1>2, <1>3, PTL DEF Spec

\* What IsHead(x) says of p, when h says it of the places before p.
FollowsHead(x, h, p) ==
  \/ p = DataStart
  \/ \E q \in DataStart .. p - 1 : h[q] /\ q + 1 + LengthAt(x, q) = p

\* h says which places up to n are heads.
HeadsTo(x, n, h) ==
  h = [p \in DataStart .. n |-> FollowsHead(x, h, p)]

LEMMA LeastNumber ==
  ASSUME NEW I \in SUBSET Nat, I # {}
  PROVE  \E m \in I : \A j \in I : m <= j
<1>1. PICK m \in I : \A j \in I : ~(<<j, m>> \in OpToRel(<, Nat))
  BY NatLessThanWellFounded, WFMin
<1>2. \A j \in I : ~(j < m)
  BY <1>1 DEF OpToRel
<1>. QED BY <1>2

LEMMA HeadsExist ==
  ASSUME NEW x, NEW n \in Nat
  PROVE  \E h : HeadsTo(x, n, h)
<1>. DEFINE T == {m \in Nat : ~ \E h : HeadsTo(x, m, h)}
<1>1. SUFFICES ASSUME T # {} PROVE FALSE
  OBVIOUS
<1>2. PICK m \in T : \A k \in T : m <= k
  <2>1. T \in SUBSET Nat  OBVIOUS
  <2>. HIDE DEF T
  <2>. QED BY <1>1, <2>1, LeastNumber
<1>3. CASE m < DataStart
  <2>1. DataStart .. m = {}  BY <1>3 DEF DataStart
  <2>. DEFINE h == [p \in {} |-> TRUE]
  <2>2. h = [p \in DataStart .. m |-> FollowsHead(x, h, p)]
    BY <2>1
  <2>. QED BY <1>2, <2>2 DEF HeadsTo
<1>4. CASE m >= DataStart
  <2>1. m - 1 \in Nat /\ m - 1 \notin T  BY <1>2, <1>4 DEF DataStart
  <2>2. PICK h : HeadsTo(x, m - 1, h)  BY <2>1
  <2>. DEFINE g == [p \in DataStart .. m |-> FollowsHead(x, h, p)]
  <2>3. \A p \in DataStart .. m - 1 : g[p] = h[p]
    BY <2>2 DEF HeadsTo, DataStart
  <2>4. \A p \in DataStart .. m : FollowsHead(x, g, p) = FollowsHead(x, h, p)
    <3>. TAKE p \in DataStart .. m
    <3>2. \A q \in DataStart .. p - 1 : q \in DataStart .. m - 1
      BY <1>2 DEF DataStart
    <3>3. \A q \in DataStart .. p - 1 : g[q] = h[q]
      BY <2>3, <3>2
    <3>. HIDE DEF g
    <3>. QED BY <3>3 DEF FollowsHead
  <2>5. g = [p \in DataStart .. m |-> FollowsHead(x, g, p)]
    BY <2>4
  <2>6. HeadsTo(x, m, g)
    <3>. HIDE DEF g
    <3>. QED BY <2>5 DEF HeadsTo
  <2>. QED BY <1>2, <2>6
<1>. QED BY <1>2, <1>3, <1>4 DEF DataStart

LEMMA HeadFunction ==
  ASSUME NEW x
  PROVE  IsHead(x) = [p \in DataStart .. MaxOffset |-> FollowsHead(x, IsHead(x), p)]
<1>1. MaxOffset \in Nat  BY EdidAssumption DEF MaxOffset
<1>2. PICK h : HeadsTo(x, MaxOffset, h)  BY <1>1, HeadsExist
<1>. DEFINE c == CHOOSE f : HeadsTo(x, MaxOffset, f)
<1>3. HeadsTo(x, MaxOffset, c)  BY <1>2
<1>4. IsHead(x) = c
  BY DEF IsHead, HeadsTo, FollowsHead
<1>. QED BY <1>3, <1>4 DEF HeadsTo

LEMMA HeadRule ==
  ASSUME NEW x, NEW p \in DataStart .. MaxOffset
  PROVE  IsHead(x)[p] <=> FollowsHead(x, IsHead(x), p)
<1>. DEFINE h == IsHead(x)
<1>1. h = [r \in DataStart .. MaxOffset |-> FollowsHead(x, h, r)]
  BY HeadFunction
<1>. HIDE DEF h
<1>2. h[p] = FollowsHead(x, h, p)
  BY <1>1
<1>. QED BY <1>2 DEF h

LEMMA EndOfData ==
  ASSUME edid \in Seq(Byte), NEW x \in Nat, NEW p \in Nat
  PROVE  DataEnd(x, p) \in Nat /\ DataEnd(x, p) = p + 1 + LengthAt(x, p)
<1>1. LengthAt(x, p) \in Nat  BY PlacesInBlock
<1>. QED BY <1>1 DEF DataEnd

\* Between a head and the next there is room for its block.
LEMMA HeadsApart ==
  ASSUME edid \in Seq(Byte), NEW x \in Nat,
         NEW p \in DataStart .. MaxOffset, NEW q \in DataStart .. MaxOffset,
         IsHead(x)[p], IsHead(x)[q], q < p
  PROVE  DataEnd(x, q) <= p
<1>. DEFINE HeadAt(r) == r \in DataStart .. MaxOffset /\ IsHead(x)[r]
            Cut(r) == HeadAt(r) /\ \E s \in Nat : HeadAt(s) /\ s < r /\ ~(DataEnd(x, s) <= r)
            I == {r \in Nat : Cut(r)}
<1>1. MaxOffset \in Nat /\ DataStart = 4
  BY EdidAssumption DEF MaxOffset, DataStart
<1>2. \A r \in Nat : DataEnd(x, r) \in Nat /\ DataEnd(x, r) = r + 1 + LengthAt(x, r)
  BY EndOfData
<1>3. \A r : HeadAt(r) => r \in Nat
  BY <1>1
<1>4. \A r : HeadAt(r) => r = DataStart \/ \E s \in Nat : HeadAt(s) /\ s < r /\ DataEnd(x, s) = r
  <2>1. SUFFICES ASSUME NEW r, HeadAt(r), r # DataStart
                 PROVE  \E s \in Nat : HeadAt(s) /\ s < r /\ DataEnd(x, s) = r
    OBVIOUS
  <2>2. PICK s \in DataStart .. r - 1 : IsHead(x)[s] /\ s + 1 + LengthAt(x, s) = r
    BY <2>1, HeadRule DEF FollowsHead
  <2>3. s \in Nat /\ s < r /\ s \in DataStart .. MaxOffset
    BY <1>1, <2>1, <2>2
  <2>. QED BY <1>2, <2>2, <2>3
<1>5. ASSUME I # {} PROVE FALSE
  <2>1. PICK m \in I : \A r \in I : m <= r
    <3>1. I \in SUBSET Nat  OBVIOUS
    <3>. HIDE DEF I
    <3>. QED BY <1>5, <3>1, LeastNumber
  <2>2. PICK s \in Nat : HeadAt(s) /\ s < m /\ ~(DataEnd(x, s) <= m)
    BY <2>1
  <2>3. HeadAt(m) /\ m \in Nat  BY <2>1
  <2>4. \A r \in Nat : r < m => ~Cut(r)  BY <2>1
  <2>. HIDE DEF I, HeadAt
  <2>5. m # DataStart  BY <1>1, <2>2 DEF HeadAt
  <2>6. PICK t \in Nat : HeadAt(t) /\ t < m /\ DataEnd(x, t) = m
    BY <1>4, <2>3, <2>5
  <2>7. CASE s < t
    <3>1. DataEnd(x, s) <= t  BY <2>2, <2>4, <2>6, <2>7
    <3>2. DataEnd(x, s) \in Nat  BY <1>2
    <3>. QED BY <2>2, <2>6, <3>1, <3>2, <2>3
  <2>8. CASE t < s
    <3>1. DataEnd(x, t) <= s  BY <2>2, <2>4, <2>6, <2>8
    <3>. QED BY <2>2, <2>3, <2>6, <3>1
  <2>9. CASE s = t  BY <1>2, <2>2, <2>6, <2>9
  <2>. QED BY <2>2, <2>6, <2>7, <2>8, <2>9
<1>6. p \in Nat /\ q \in Nat /\ HeadAt(p) /\ HeadAt(q)
  BY <1>1
<1>. HIDE DEF HeadAt
<1>7. ~Cut(p)  BY <1>5, <1>6
<1>8. DataEnd(x, q) <= p  BY <1>6, <1>7
<1>. QED BY <1>8

\* The EDID does not change while it is read.
LEMMA SameBytes ==
  ASSUME edid' = edid
  PROVE  /\ \A x : IsHead(x)' = IsHead(x)
         /\ \A x : Heads(x)' = Heads(x)
         /\ Extensions' = Extensions
         /\ Blocks' = Blocks
<1>1. ASSUME NEW x PROVE IsHead(x)' = IsHead(x)
  BY DEF IsHead, LengthAt, At, BlockStart
<1>2. ASSUME NEW x PROVE Heads(x)' = Heads(x)
  BY <1>1 DEF Heads, LengthAt, At, BlockStart, Dtd
<1>3. Extensions' = Extensions
  BY DEF Extensions, IsCta, Dtd, NumExtensions, At, BlockStart
<1>4. Blocks' = Blocks
  BY <1>2, <1>3 DEF Blocks, LengthAt, At, BlockStart
<1>. QED BY <1>1, <1>2, <1>3, <1>4

(***************************************************************************)
(* Every data block                                                        *)
(***************************************************************************)

\* The data blocks before the place the walk has reached.
Reached(x, p) == x < ext \/ (x = ext /\ p < pos)
BlockAt(x, p) == [ext |-> x, at |-> p, len |-> LengthAt(x, p)]
VisitedReached ==
  \A b : b \in visited <=>
          \E x \in Extensions : \E p \in Heads(x) : Reached(x, p) /\ b = BlockAt(x, p)

\* Inside an extension the walk stands at a head, or at the end of the
\* collection; it has visited all heads before.
Walked ==
  /\ Located
  /\ surround \in BOOLEAN
  /\ pos > 0 => /\ ext \in Extensions
                /\ pos \in DataStart .. Dtd(ext) /\ IsHead(ext)[pos]
  /\ query # "none" => VisitedReached
  /\ EveryBlock

LEMMA ExtensionFacts ==
  ASSUME edid \in Seq(Byte), NEW x \in Extensions
  PROVE  /\ x \in Nat /\ There(x) /\ IsCta(x)
         /\ Dtd(x) \in DataStart .. MaxOffset /\ Dtd(x) \in Nat
         /\ MaxOffset = BlockSize - 1 /\ BlockSize \in 8 .. 128
<1>1. NumExtensions \in Nat
  <2>1. BlockSize - 2 \in Nat  BY EdidAssumption
  <2>2. NumExtensions \in Byte  BY <2>1, ByteAt DEF NumExtensions, NumExtensionsOffset
  <2>. QED BY <2>2 DEF Byte
<1>2. x \in Nat /\ IsCta(x) /\ Len(edid) >= (x + 2) * BlockSize
  BY <1>1 DEF Extensions
<1>3. BlockSize \in 8 .. 128 /\ MaxOffset = BlockSize - 1
  BY EdidAssumption DEF MaxOffset
<1>4. There(x)
  <2>1. (x + 1) * BlockSize + BlockSize = (x + 2) * BlockSize
    BY <1>2, <1>3
  <2>2. (x + 1) * BlockSize \in Nat
    BY <1>2, <1>3
  <2>3. Len(edid) \in Nat
    OBVIOUS
  <2>. QED BY <1>2, <1>3, <2>1, <2>2, <2>3 DEF There, BlockStart
<1>5. Dtd(x) \in DataStart .. MaxOffset  BY <1>2 DEF IsCta
<1>. QED BY <1>2, <1>3, <1>4, <1>5 DEF DataStart

\* A place is a head whose block fits exactly when the walk takes it for one.
LEMMA HeadsTaken ==
  ASSUME edid \in Seq(Byte), NEW x \in Extensions, NEW p \in Nat, p >= DataStart
  PROVE  p \in Heads(x) <=> InCollection(x, p) /\ IsHead(x)[p]
<1>1. /\ x \in Nat
      /\ Dtd(x) \in DataStart .. MaxOffset /\ Dtd(x) \in Nat
      /\ MaxOffset = BlockSize - 1 /\ BlockSize \in 8 .. 128
  BY ExtensionFacts
<1>2. DataEnd(x, p) \in Nat /\ DataEnd(x, p) = p + 1 + LengthAt(x, p)
      /\ LengthAt(x, p) \in Nat
  BY <1>1, EndOfData, PlacesInBlock
<1>3. InCollection(x, p) <=> p < Dtd(x) /\ DataEnd(x, p) <= Dtd(x)
  BY <1>1, <1>2 DEF InCollection, Within
<1>4. p \in Heads(x) <=> p \in DataStart .. Dtd(x) - 1 /\ IsHead(x)[p]
                         /\ p + 1 + LengthAt(x, p) <= Dtd(x)
  BY DEF Heads
<1>5. p \in DataStart .. Dtd(x) - 1 <=> p < Dtd(x)
  BY <1>1 DEF DataStart
<1>. QED BY <1>2, <1>3, <1>4, <1>5

LEMMA HeadsInRange ==
  ASSUME edid \in Seq(Byte), NEW x \in Extensions, NEW p \in Heads(x)
  PROVE  /\ p \in Nat /\ p \in DataStart .. MaxOffset /\ p < Dtd(x)
         /\ IsHead(x)[p] /\ InCollection(x, p)
<1>1. /\ x \in Nat
      /\ Dtd(x) \in DataStart .. MaxOffset /\ Dtd(x) \in Nat
      /\ MaxOffset = BlockSize - 1 /\ BlockSize \in 8 .. 128
  BY ExtensionFacts
<1>2. p \in DataStart .. Dtd(x) - 1 /\ IsHead(x)[p]
  BY DEF Heads
<1>3. p \in Nat /\ p \in DataStart .. MaxOffset /\ p < Dtd(x)
  BY <1>1, <1>2 DEF DataStart
<1>. QED BY <1>2, <1>3, HeadsTaken DEF DataStart

\* From one head there is none before the end of its block.
LEMMA NoneBetween ==
  ASSUME edid \in Seq(Byte), NEW x \in Extensions,
         NEW q \in DataStart .. Dtd(x), IsHead(x)[q],
         NEW p \in Heads(x), q < p
  PROVE  InCollection(x, q) /\ DataEnd(x, q) <= p
<1>1. /\ x \in Nat
      /\ Dtd(x) \in DataStart .. MaxOffset /\ Dtd(x) \in Nat
      /\ MaxOffset = BlockSize - 1 /\ BlockSize \in 8 .. 128
  BY ExtensionFacts
<1>2. p \in DataStart .. MaxOffset /\ p < Dtd(x) /\ IsHead(x)[p] /\ p \in Nat
  BY HeadsInRange
<1>3. q \in DataStart .. MaxOffset /\ q \in Nat
  BY <1>1 DEF DataStart
<1>4. DataEnd(x, q) <= p
  BY <1>1, <1>2, <1>3, HeadsApart
<1>5. DataEnd(x, q) \in Nat
  BY <1>1, <1>3, EndOfData
<1>6. InCollection(x, q)
  BY <1>1, <1>2, <1>3, <1>4, <1>5 DEF InCollection, Within
<1>. QED BY <1>4, <1>6

LEMMA SamePlaces ==
  ASSUME edid' = edid
  PROVE  /\ \A x : Dtd(x)' = Dtd(x)
         /\ \A x, p : BlockAt(x, p)' = BlockAt(x, p)
         /\ \A x, p : DataEnd(x, p)' = DataEnd(x, p)
<1>1. \A i : At(i)' = At(i)  BY DEF At
<1>. QED BY <1>1 DEF Dtd, BlockAt, DataEnd, LengthAt, BlockStart

\* What a step may do to the place that the walk has reached.
LEMMA VisitedNext ==
  ASSUME VisitedReached, edid' = edid, visited' = visited,
         \A x \in Extensions : \A p \in Heads(x) : Reached(x, p)' <=> Reached(x, p)
  PROVE  VisitedReached'
<1>1. Extensions' = Extensions /\ \A x : Heads(x)' = Heads(x)
  BY SameBytes
<1>2. \A x, p : BlockAt(x, p)' = BlockAt(x, p)
  BY SamePlaces
<1>3. \A b : b \in visited <=>
         \E x \in Extensions : \E p \in Heads(x) : Reached(x, p) /\ b = BlockAt(x, p)
  BY DEF VisitedReached
<1>4. \A b : b \in visited' <=>
         \E x \in Extensions' : \E p \in Heads(x)' : Reached(x, p)' /\ b = BlockAt(x, p)'
  BY <1>1, <1>2, <1>3
<1>. QED BY <1>4 DEF VisitedReached

\* When the place is behind all extensions everything is visited.
LEMMA VisitedAll ==
  ASSUME VisitedReached, \A x \in Extensions : x < ext
  PROVE  visited = Blocks
<1>1. \A b : b \in Blocks <=> \E x \in Extensions : \E p \in Heads(x) : b = BlockAt(x, p)
  BY DEF Blocks, BlockAt
<1>2. \A b : b \in visited <=> b \in Blocks
  BY <1>1 DEF VisitedReached, Reached
<1>. QED BY <1>2

LEMMA WalkedBegin ==
  ASSUME Walked, NEW q \in Queries, Begin(q)
  PROVE  Walked'
<1>1. Located'  BY LocatedElsewhere DEF Walked
<1>2. edid' = edid /\ ext' = 0 /\ pos' = 0 /\ visited' = {} /\ query' = q
      /\ surround' = surround
  BY DEF Begin
<1>3. q # "none"  BY DEF Queries
<1>4. \A x \in Extensions : ~(x < 0)
  BY ExtensionFacts DEF Walked, Located
<1>5. VisitedReached'
  <2>1. Extensions' = Extensions /\ \A x : Heads(x)' = Heads(x)
    BY <1>2, SameBytes
  <2>2. \A x \in Extensions : \A p \in Heads(x) : ~Reached(x, p)'
    <3>1. \A x \in Extensions : \A p \in Heads(x) : p \in Nat
      BY HeadsInRange DEF Walked, Located
    <3>. QED BY <1>2, <1>4, <3>1 DEF Reached
  <2>. QED BY <1>2, <2>1, <2>2 DEF VisitedReached
<1>. QED BY <1>1, <1>2, <1>3, <1>5 DEF Walked, EveryBlock

\* A walk that ends by itself has visited everything.
LEMMA FinishVisitsAll ==
  ASSUME Walked, Finish
  PROVE  visited = Blocks
<1>1. \A x \in Extensions : x < ext
  <2>1. SUFFICES ASSUME NEW x \in Extensions, ~(x < ext) PROVE FALSE
    OBVIOUS
  <2>2. x \in Nat /\ There(x) /\ BlockSize \in 8 .. 128
    BY ExtensionFacts DEF Walked, Located
  <2>3. ext \in Nat /\ edid \in Seq(Byte) /\ Len(edid) \in Nat
    BY DEF Walked, Located
  <2>4. (x + 1) * BlockSize + BlockSize - 1 < Len(edid)
    BY <2>2 DEF There, BlockStart
  <2>5. (ext + 1) * BlockSize <= (x + 1) * BlockSize
    <3>1. (x - ext) * BlockSize >= 0  BY <2>1, <2>2, <2>3
    <3>. QED BY <2>2, <2>3, <3>1
  <2>6. There(ext)
    <3>1. (ext + 1) * BlockSize \in Nat /\ (x + 1) * BlockSize \in Nat
      BY <2>2, <2>3
    <3>. QED BY <2>2, <2>3, <2>4, <2>5, <3>1 DEF There, BlockStart
  <2>7. Len(edid) >= BlockSize
    <3>1. x * BlockSize >= 0 /\ (x + 1) * BlockSize = x * BlockSize + BlockSize
      BY <2>2
    <3>. QED BY <2>2, <2>3, <2>4, <3>1
  <2>8. ext = NumExtensions  BY <2>2, <2>3, <2>6, <2>7 DEF Finish
  <2>9. x < NumExtensions
    <3>1. NumExtensions \in Nat  BY <2>3, <2>8
    <3>. QED BY <3>1 DEF Extensions
  <2>. QED BY <2>1, <2>8, <2>9
<1>2. query # "none"  BY DEF Finish
<1>. QED BY <1>1, <1>2, VisitedAll DEF Walked

LEMMA WalkedFinish ==
  ASSUME Walked, Finish
  PROVE  Walked'
<1>1. Located'  BY LocatedElsewhere DEF Walked
<1>2. /\ edid' = edid /\ pos' = 0 /\ visited' = visited
      /\ query' = "none" /\ surround' = surround
  BY DEF Finish, End
<1>3. visited = Blocks  BY FinishVisitsAll
<1>4. EveryBlock'  BY <1>2, <1>3, SameBytes DEF EveryBlock
<1>. QED BY <1>1, <1>2, <1>4 DEF Walked

LEMMA WalkedExtension ==
  ASSUME Walked, Extension
  PROVE  Walked'
<1>1. Located'  BY LocatedElsewhere DEF Walked
<1>2. /\ edid' = edid /\ visited' = visited /\ answered' = answered
      /\ query # "none" /\ query' = query /\ surround' = surround
      /\ pos = 0 /\ ext < NumExtensions /\ There(ext)
  BY DEF Extension, results
<1>3. edid \in Seq(Byte) /\ ext \in Nat /\ Len(edid) \in Nat
  BY DEF Walked, Located
<1>4. NumExtensions \in Nat /\ BlockSize \in 8 .. 128
  <2>1. BlockSize \in 8 .. 128 /\ BlockSize - 2 \in Nat  BY EdidAssumption
  <2>2. NumExtensions \in Byte
    BY <1>3, <2>1, ByteAt DEF NumExtensions, NumExtensionsOffset
  <2>. QED BY <2>1, <2>2 DEF Byte
<1>5. Extensions' = Extensions /\ \A x : Dtd(x)' = Dtd(x) /\ IsHead(x)' = IsHead(x)
  BY <1>2, SameBytes, SamePlaces
<1>6. \A x \in Extensions : x \in Nat /\ \A p \in Heads(x) : p \in Nat /\ p >= DataStart
  <2>1. TAKE x \in Extensions
  <2>2. x \in Nat /\ Dtd(x) \in Nat  BY <1>3, ExtensionFacts
  <2>. QED BY <2>2 DEF Heads, DataStart
<1>7. CASE IsCta(ext)
  <2>1. pos' = DataStart /\ ext' = ext  BY <1>7 DEF Extension
  <2>2. ext \in Extensions
    <3>1. (ext + 1) * BlockSize \in Nat
          /\ (ext + 2) * BlockSize = (ext + 1) * BlockSize + BlockSize
      BY <1>3, <1>4
    <3>2. Len(edid) >= (ext + 2) * BlockSize
      BY <1>2, <1>3, <1>4, <3>1 DEF There, BlockStart
    <3>. QED BY <1>2, <1>3, <1>4, <1>7, <3>2 DEF Extensions
  <2>3. DataStart \in DataStart .. Dtd(ext) /\ DataStart \in DataStart .. MaxOffset
    <3>1. Dtd(ext) \in DataStart .. MaxOffset /\ Dtd(ext) \in Nat /\ MaxOffset \in Nat
      BY <1>3, <2>2, ExtensionFacts, EdidAssumption DEF MaxOffset
    <3>. QED BY <3>1 DEF DataStart
  <2>4. IsHead(ext)[DataStart]
    BY <2>3, HeadRule DEF FollowsHead
  <2>5. VisitedReached'
    <3>1. \A x \in Extensions : \A p \in Heads(x) : Reached(x, p)' <=> Reached(x, p)
      BY <1>2, <1>6, <2>1 DEF Reached, DataStart
    <3>. QED BY <1>2, <3>1, VisitedNext DEF Walked
  <2>. QED BY <1>1, <1>2, <1>5, <2>1, <2>2, <2>3, <2>4, <2>5 DEF Walked, EveryBlock
<1>8. CASE ~IsCta(ext)
  <2>1. ext' = ext + 1 /\ pos' = 0  BY <1>2, <1>8 DEF Extension
  <2>2. ext \notin Extensions  BY <1>8 DEF Extensions
  <2>3. VisitedReached'
    <3>1. \A x \in Extensions : \A p \in Heads(x) : Reached(x, p)' <=> Reached(x, p)
      BY <1>2, <1>3, <1>6, <2>1, <2>2 DEF Reached, DataStart
    <3>. QED BY <1>2, <3>1, VisitedNext DEF Walked
  <2>. QED BY <1>1, <1>2, <2>1, <2>3 DEF Walked, EveryBlock
<1>. QED BY <1>7, <1>8

LEMMA WalkedLeave ==
  ASSUME Walked, LeaveExtension
  PROVE  Walked'
<1>1. Located'  BY LocatedElsewhere DEF Walked
<1>2. /\ edid' = edid /\ visited' = visited
      /\ query # "none" /\ query' = query /\ surround' = surround
      /\ pos > 0 /\ ~InCollection(ext, pos) /\ ext' = ext + 1 /\ pos' = 0
  BY DEF LeaveExtension, results
<1>3. edid \in Seq(Byte) /\ ext \in Nat /\ ext \in Extensions
      /\ pos \in DataStart .. Dtd(ext) /\ IsHead(ext)[pos] /\ pos \in Nat
  BY <1>2 DEF Walked, Located
<1>4. \A p \in Heads(ext) : p < pos
  <2>1. SUFFICES ASSUME NEW p \in Heads(ext), ~(p < pos) PROVE FALSE
    OBVIOUS
  <2>2. p \in Nat /\ InCollection(ext, p)  BY <1>3, HeadsInRange
  <2>3. CASE p = pos  BY <1>2, <2>2, <2>3
  <2>4. CASE pos < p  BY <1>2, <1>3, <2>4, NoneBetween
  <2>. QED BY <1>3, <2>1, <2>2, <2>3, <2>4
<1>5. \A x \in Extensions : x \in Nat /\ \A p \in Heads(x) : p \in Nat
  BY <1>3, ExtensionFacts, HeadsInRange
<1>6. \A x \in Extensions : \A p \in Heads(x) : Reached(x, p)' <=> Reached(x, p)
  BY <1>2, <1>3, <1>4, <1>5 DEF Reached
<1>7. VisitedReached'  BY <1>2, <1>6, VisitedNext DEF Walked
<1>. QED BY <1>1, <1>2, <1>7 DEF Walked, EveryBlock

\* The block at the place of the walk is the next of the data blocks.
LEMMA WalkedDataBlock ==
  ASSUME Walked, DataBlock
  PROVE  Walked'
<1>1. Located'  BY LocatedDataBlock DEF Walked
<1>2. /\ edid' = edid /\ query # "none" /\ pos > 0 /\ InCollection(ext, pos)
      /\ visited' = visited \cup {BlockAt(ext, pos)}
  BY DEF DataBlock, BlockAt
<1>3. edid \in Seq(Byte) /\ ext \in Nat /\ ext \in Extensions
      /\ pos \in DataStart .. Dtd(ext) /\ IsHead(ext)[pos] /\ pos \in Nat
  BY <1>2 DEF Walked, Located
<1>4. surround' \in BOOLEAN
  BY DEF DataBlock, Visit, VisitSurround, Walked
<1>5. CASE query = "surround" /\ surround'
  <2>1. query' = "none" /\ pos' = 0 /\ ext' = 0  BY <1>5 DEF DataBlock, End
  <2>. QED BY <1>1, <1>4, <1>5, <2>1 DEF Walked, EveryBlock
<1>6. CASE ~(query = "surround" /\ surround')
  <2>1. pos' = DataEnd(ext, pos) /\ ext' = ext /\ query' = query
    BY <1>6 DEF DataBlock
  <2>2. DataEnd(ext, pos) \in Nat /\ DataEnd(ext, pos) = pos + 1 + LengthAt(ext, pos)
        /\ LengthAt(ext, pos) \in Nat
    BY <1>3, EndOfData, PlacesInBlock
  <2>3. Dtd(ext) \in DataStart .. MaxOffset /\ Dtd(ext) \in Nat /\ MaxOffset \in Nat
    BY <1>3, ExtensionFacts, EdidAssumption DEF MaxOffset
  <2>4. pos' \in DataStart .. Dtd(ext) /\ pos' \in DataStart .. MaxOffset
    BY <1>2, <1>3, <2>1, <2>2, <2>3 DEF InCollection, Within, DataStart
  <2>5. IsHead(ext)[DataEnd(ext, pos)]
    <3>1. pos \in DataStart .. DataEnd(ext, pos) - 1
      BY <1>3, <2>2, <2>3 DEF DataStart
    <3>. QED BY <1>3, <2>1, <2>2, <2>4, <3>1, HeadRule DEF FollowsHead
  <2>6. pos \in Heads(ext)
    BY <1>2, <1>3, <2>3, HeadsTaken DEF DataStart
  <2>7. \A x \in Extensions : \A p \in Heads(x) :
          Reached(x, p)' <=> Reached(x, p) \/ (x = ext /\ p = pos)
    <3>1. TAKE x \in Extensions
    <3>2. TAKE p \in Heads(x)
    <3>3. x \in Nat /\ p \in Nat  BY <1>3, ExtensionFacts, HeadsInRange
    <3>4. x = ext /\ pos < p => DataEnd(ext, pos) <= p
      BY <1>3, NoneBetween
    <3>. QED BY <1>3, <2>1, <2>2, <3>3, <3>4 DEF Reached
  <2>8. VisitedReached'
    <3>1. Extensions' = Extensions /\ \A x : Heads(x)' = Heads(x)
      BY <1>2, SameBytes
    <3>2. \A x, p : BlockAt(x, p)' = BlockAt(x, p)
      BY <1>2, SamePlaces
    <3>3. \A b : b \in visited <=>
             \E x \in Extensions : \E p \in Heads(x) : Reached(x, p) /\ b = BlockAt(x, p)
      BY <1>2 DEF Walked, VisitedReached
    <3>4. \A b : b \in visited' <=>
             \E x \in Extensions : \E p \in Heads(x) : Reached(x, p)' /\ b = BlockAt(x, p)
      BY <1>2, <1>3, <2>6, <2>7, <3>3
    <3>. QED BY <3>1, <3>2, <3>4 DEF VisitedReached
  <2>9. Extensions' = Extensions /\ \A x : Dtd(x)' = Dtd(x) /\ IsHead(x)' = IsHead(x)
    BY <1>2, SameBytes, SamePlaces
  <2>. QED BY <1>1, <1>2, <1>3, <1>4, <2>1, <2>4, <2>5, <2>8, <2>9 DEF Walked, EveryBlock
<1>. QED BY <1>5, <1>6

LEMMA WalkedNext == Walked /\ [Next]_vars => Walked'
<1>. SUFFICES ASSUME Walked, [Next]_vars PROVE Walked'
  OBVIOUS
<1>1. CASE UNCHANGED vars
  <2>1. UNCHANGED <<edid, query, answered, ext, pos, surround, visited>>
    BY <1>1 DEF vars, results
  <2>2. Located'  BY LocatedNext DEF Walked
  <2>3. Extensions' = Extensions /\ Blocks' = Blocks
        /\ \A x : Dtd(x)' = Dtd(x) /\ IsHead(x)' = IsHead(x)
    BY <2>1, SameBytes, SamePlaces
  <2>4. query # "none" => VisitedReached'
    <3>1. \A x \in Extensions : \A p \in Heads(x) : Reached(x, p)' <=> Reached(x, p)
      BY <2>1 DEF Reached
    <3>. QED BY <2>1, <3>1, VisitedNext DEF Walked
  <2>. QED BY <2>1, <2>2, <2>3, <2>4 DEF Walked, EveryBlock
<1>2. CASE Next
  BY <1>2, WalkedBegin, WalkedFinish, WalkedExtension, WalkedDataBlock, WalkedLeave
     DEF Next, Walk
<1>. QED BY <1>1, <1>2

LEMMA WalkedAlways == Spec => []Walked
<1>1. Init => Walked
  <2>. SUFFICES ASSUME Init PROVE Walked
    OBVIOUS
  <2>1. Located /\ surround = FALSE /\ pos = 0 /\ query = "none" /\ answered = {}
    BY LocatedInit DEF Init
  <2>2. surround \in BOOLEAN /\ ~(pos > 0)
    <3>1. pos = 0  BY <2>1
    <3>2. surround \in BOOLEAN  BY <2>1, Zenon
    <3>. QED BY <3>1, <3>2
  <2>3. EveryBlock  BY <2>1 DEF EveryBlock
  <2>. QED BY <2>1, <2>2, <2>3 DEF Walked
<1>. QED BY <1>1, WalkedNext, PTL DEF Spec

\* A walk of dshalEdidVisitCtaDataBlocks that ends by itself has given the
\* visitor exactly the data blocks of the EDID, each inside its extension,
\* whatever the bytes of the EDID are.
THEOREM VisitsExactly == Spec => []WalkExact
<1>1. Walked => WalkExact
  BY DEF Walked, WalkExact, Located, Inside, InBounds
<1>. QED BY <1>1, WalkedAlways, PTL

(***************************************************************************)
(* What the visitors collect                                               *)
(***************************************************************************)

\* What a data block adds to each answer.
TagOf(b) == TagAt(b.ext, b.at)
MaskOf(b) == IF TagOf(b) = VideoTag THEN TvOf(Content(b)) ELSE {}
HdrIn(b) == HdrOf(TagOf(b), Content(b))
SurroundIn(b) ==
  TagOf(b) = AudioTag /\ \E i \in 1 .. Len(Content(b)) :
                          Descriptor(Content(b), i) /\ (Content(b)[i] % 8) + 1 > 2

MaskSays(S) == \A tv : tv \in mask <=> \E b \in S : tv \in MaskOf(b)
HdrSays(S) == \A s : s \in hdr <=> s = "SDR" \/ \E b \in S : s \in HdrIn(b)
SurroundSays(S) == surround <=> \E b \in S : SurroundIn(b)

\* An answer says what the blocks say: those visited while its walk goes on,
\* and all of them afterwards.
Collected ==
  /\ query \in Queries \cup {"none"}
  /\ answered \subseteq Queries /\ query \notin answered
  /\ "mask" \in answered => MaskSays(Blocks)
  /\ query = "mask" => MaskSays(visited)
  /\ query # "mask" /\ "mask" \notin answered => mask = {}
  /\ "hdr" \in answered => HdrSays(Blocks)
  /\ query = "hdr" => HdrSays(visited)
  /\ "surround" \in answered => SurroundSays(Blocks)
  /\ query = "surround" => ~surround /\ SurroundSays(visited)
  /\ query # "surround" /\ "surround" \notin answered => ~surround

LEMMA SaysTheSame ==
  ASSUME edid' = edid
  PROVE  /\ \A b : MaskOf(b)' = MaskOf(b)
         /\ \A b : HdrIn(b)' = HdrIn(b)
         /\ \A b : SurroundIn(b)' <=> SurroundIn(b)
         /\ Blocks' = Blocks
<1>1. \A i : At(i)' = At(i)  BY DEF At
<1>2. \A x, p : TagAt(x, p)' = TagAt(x, p) /\ Data(x, p)' = Data(x, p)
  BY <1>1 DEF TagAt, Data, LengthAt, BlockStart
<1>3. \A b : TagOf(b)' = TagOf(b) /\ Content(b)' = Content(b)
  BY <1>2 DEF TagOf, Content
<1>4. \A b : MaskOf(b)' = MaskOf(b) /\ HdrIn(b)' = HdrIn(b)
  BY <1>3 DEF MaskOf, HdrIn
<1>5. \A b : SurroundIn(b)' <=> SurroundIn(b)
  BY <1>3 DEF SurroundIn
<1>. QED BY <1>4, <1>5, SameBytes

\* A step that reads nothing changes no answer.
LEMMA CollectedStill ==
  ASSUME Collected,
         UNCHANGED <<edid, query, answered, mask, hdr, surround, visited>>
  PROVE  Collected'
<1>1. edid' = edid  OBVIOUS
<1>. QED BY <1>1, SaysTheSame DEF Collected, MaskSays, HdrSays, SurroundSays

LEMMA CollectedBegin ==
  ASSUME Collected, NEW q \in Queries, Begin(q)
  PROVE  Collected'
<1>1. /\ edid' = edid /\ answered' = answered /\ mask' = mask /\ surround' = surround
      /\ query = "none" /\ query' = q /\ visited' = {} /\ q \notin answered
      /\ hdr' = IF q = "hdr" THEN {"SDR"} ELSE hdr
  BY DEF Begin
<1>. QED BY <1>1, SaysTheSame DEF Collected, MaskSays, HdrSays, SurroundSays, Queries

LEMMA CollectedFinish ==
  ASSUME Walked, Collected, Finish
  PROVE  Collected'
<1>1. /\ edid' = edid /\ mask' = mask /\ hdr' = hdr /\ surround' = surround
      /\ query # "none" /\ query' = "none" /\ answered' = answered \cup {query}
  BY DEF Finish, End
<1>2. visited = Blocks  BY FinishVisitsAll
<1>3. query \in Queries /\ "none" \notin Queries
  BY <1>1 DEF Collected, Queries
<1>. QED BY <1>1, <1>2, <1>3, SaysTheSame DEF Collected, MaskSays, HdrSays, SurroundSays

\* What the visitor of a data block does to the answers.
LEMMA Visiting ==
  ASSUME DataBlock
  PROVE  LET b == BlockAt(ext, pos)
         IN  /\ mask' = IF query = "mask" THEN mask \cup MaskOf(b) ELSE mask
             /\ hdr' = IF query = "hdr" THEN hdr \cup HdrIn(b) ELSE hdr
             /\ query = "surround" => (surround' <=> surround \/ SurroundIn(b))
             /\ query # "surround" => surround' = surround
             /\ visited' = visited \cup {b}
<1>. DEFINE b == BlockAt(ext, pos)
<1>1. TagOf(b) = TagAt(ext, pos) /\ Content(b) = Data(ext, pos)
  BY DEF BlockAt, TagOf, Content
<1>2. visited' = visited \cup {b}  BY DEF DataBlock, BlockAt
<1>3. Visit(TagOf(b), Content(b))  BY <1>1 DEF DataBlock
<1>. HIDE DEF b
<1>4. mask' = IF query = "mask" THEN mask \cup MaskOf(b) ELSE mask
  BY <1>3 DEF Visit, VisitMask, MaskOf
<1>5. hdr' = IF query = "hdr" THEN hdr \cup HdrIn(b) ELSE hdr
  BY <1>3 DEF Visit, VisitHdr, HdrIn
<1>6. query = "surround" => (surround' <=> surround \/ SurroundIn(b))
  BY <1>3 DEF Visit, VisitSurround, SurroundIn
<1>7. query # "surround" => surround' = surround
  BY <1>3 DEF Visit
<1>. QED BY <1>2, <1>4, <1>5, <1>6, <1>7 DEF b

LEMMA CollectedDataBlock ==
  ASSUME Walked, Collected, DataBlock
  PROVE  Collected'
<1>. DEFINE b == BlockAt(ext, pos)
<1>1. /\ edid' = edid /\ query # "none" /\ query \in Queries /\ query \notin answered
      /\ ext \in Extensions /\ pos \in Heads(ext)
  <2>1. edid' = edid /\ query # "none" /\ pos > 0 /\ InCollection(ext, pos)
    BY DEF DataBlock
  <2>2. edid \in Seq(Byte) /\ ext \in Extensions /\ pos \in DataStart .. Dtd(ext)
        /\ IsHead(ext)[pos] /\ pos \in Nat
    BY <2>1 DEF Walked, Located
  <2>3. Dtd(ext) \in Nat  BY <2>2, ExtensionFacts
  <2>4. pos \in Heads(ext)  BY <2>1, <2>2, <2>3, HeadsTaken DEF DataStart
  <2>. QED BY <2>1, <2>2, <2>4 DEF Collected
<1>2. b \in Blocks  BY <1>1 DEF Blocks, BlockAt
<1>3. /\ mask' = IF query = "mask" THEN mask \cup MaskOf(b) ELSE mask
      /\ hdr' = IF query = "hdr" THEN hdr \cup HdrIn(b) ELSE hdr
      /\ query = "surround" => (surround' <=> surround \/ SurroundIn(b))
      /\ query # "surround" => surround' = surround
      /\ visited' = visited \cup {b}
  BY Visiting
<1>4. \/ query' = query /\ answered' = answered
      \/ /\ query = "surround" /\ surround' /\ query' = "none"
         /\ answered' = answered \cup {"surround"}
  BY DEF DataBlock, End
<1>5. "none" \notin Queries  BY DEF Queries
<1>. HIDE DEF b
<1>6. /\ Blocks' = Blocks
      /\ \A c : MaskOf(c)' = MaskOf(c)
      /\ \A c : HdrIn(c)' = HdrIn(c)
      /\ \A c : SurroundIn(c)' <=> SurroundIn(c)
  BY <1>1, SaysTheSame
<1>7. /\ "mask" \in answered' => MaskSays(Blocks)'
      /\ query' = "mask" => MaskSays(visited)'
      /\ query' # "mask" /\ "mask" \notin answered' => mask' = {}
  <2>1. CASE query = "mask"
    <3>1. MaskSays(visited) /\ "mask" \notin answered  BY <1>1, <2>1 DEF Collected
    <3>2. MaskSays(visited)'  BY <1>3, <1>6, <2>1, <3>1 DEF MaskSays
    <3>. QED BY <1>4, <2>1, <3>1, <3>2
  <2>2. CASE query # "mask"
    <3>1. mask' = mask /\ query' # "mask" /\ ("mask" \in answered' <=> "mask" \in answered)
      BY <1>3, <1>4, <2>2
    <3>2. MaskSays(Blocks)' <=> MaskSays(Blocks)  BY <1>6, <3>1 DEF MaskSays
    <3>. QED BY <2>2, <3>1, <3>2 DEF Collected
  <2>. QED BY <2>1, <2>2
<1>8. /\ "hdr" \in answered' => HdrSays(Blocks)'
      /\ query' = "hdr" => HdrSays(visited)'
  <2>1. CASE query = "hdr"
    <3>1. HdrSays(visited) /\ "hdr" \notin answered  BY <1>1, <2>1 DEF Collected
    <3>2. HdrSays(visited)'  BY <1>3, <1>6, <2>1, <3>1 DEF HdrSays
    <3>. QED BY <1>4, <2>1, <3>1, <3>2
  <2>2. CASE query # "hdr"
    <3>1. hdr' = hdr /\ query' # "hdr" /\ ("hdr" \in answered' <=> "hdr" \in answered)
      BY <1>3, <1>4, <2>2
    <3>2. HdrSays(Blocks)' <=> HdrSays(Blocks)  BY <1>6, <3>1 DEF HdrSays
    <3>. QED BY <2>2, <3>1, <3>2 DEF Collected
  <2>. QED BY <2>1, <2>2
<1>9. /\ "surround" \in answered' => SurroundSays(Blocks)'
      /\ query' = "surround" => ~surround' /\ SurroundSays(visited)'
      /\ query' # "surround" /\ "surround" \notin answered' => ~surround'
  <2>1. CASE query = "surround"
    <3>1. /\ SurroundSays(visited) /\ ~surround /\ "surround" \notin answered
          /\ surround' <=> SurroundIn(b)
      BY <1>1, <1>3, <2>1 DEF Collected
    <3>2. CASE ~surround'
      <4>1. SurroundSays(visited)'  BY <1>3, <1>6, <3>1, <3>2 DEF SurroundSays
      <4>. QED BY <1>4, <2>1, <3>1, <3>2, <4>1
    <3>3. CASE surround'
      <4>1. SurroundSays(Blocks)'  BY <1>2, <1>6, <3>1, <3>3 DEF SurroundSays
      <4>2. query' = "none"  BY <2>1, <3>3 DEF DataBlock, End
      <4>3. "surround" \in answered'  BY <1>4, <2>1, <4>2
      <4>. QED BY <3>3, <4>1, <4>2, <4>3
    <3>. QED BY <3>2, <3>3
  <2>2. CASE query # "surround"
    <3>1. /\ surround' = surround /\ query' # "surround"
          /\ "surround" \in answered' <=> "surround" \in answered
      BY <1>3, <1>4, <2>2
    <3>2. SurroundSays(Blocks)' <=> SurroundSays(Blocks)
      BY <1>6, <3>1 DEF SurroundSays
    <3>. QED BY <2>2, <3>1, <3>2 DEF Collected
  <2>. QED BY <2>1, <2>2
<1>10. /\ query' \in Queries \cup {"none"}
       /\ answered' \subseteq Queries /\ query' \notin answered'
  <2>1. answered \subseteq Queries  BY DEF Collected
  <2>2. "surround" \in Queries  BY DEF Queries
  <2>. QED BY <1>1, <1>4, <1>5, <2>1, <2>2
<1>. QED BY <1>7, <1>8, <1>9, <1>10 DEF Collected

LEMMA CollectedNext == Walked /\ Collected /\ [Next]_vars => Collected'
<1>. SUFFICES ASSUME Walked, Collected, [Next]_vars PROVE Collected'
  OBVIOUS
<1>1. CASE UNCHANGED vars \/ Extension \/ LeaveExtension
  BY <1>1, CollectedStill DEF vars, results, Extension, LeaveExtension
<1>2. CASE \E q \in Queries : Begin(q)  BY <1>2, CollectedBegin
<1>3. CASE Finish  BY <1>3, CollectedFinish
<1>4. CASE DataBlock  BY <1>4, CollectedDataBlock
<1>. QED BY <1>1, <1>2, <1>3, <1>4 DEF Next, Walk

LEMMA CollectedAlways == Spec => []Collected
<1>1. Init => Collected
  BY DEF Init, Collected, Queries
<1>. QED BY <1>1, CollectedNext, WalkedAlways, PTL DEF Spec

\* dsSupportedTvResolutions reports the resolutions of the VICs that the video
\* data blocks of the EDID have, and no others.
MaskExact ==
  "mask" \in answered =>
    mask = UNION {TvOf(Content(b)) : b \in BlocksOf(VideoTag)}

\* dsSupportedTvResolutions answers for the whole EDID, however many extensions
\* and video data blocks it has.
THEOREM MaskReported == Spec => []MaskExact
<1>1. ASSUME Collected PROVE MaskExact
  <2>1. ASSUME "mask" \in answered
        PROVE  mask = UNION {TvOf(Content(b)) : b \in BlocksOf(VideoTag)}
    <3>1. \A tv : tv \in mask <=> \E b \in Blocks : tv \in MaskOf(b)
      BY <1>1, <2>1 DEF Collected, MaskSays
    <3>2. \A tv : tv \in mask
                 <=> \E b \in BlocksOf(VideoTag) : tv \in TvOf(Content(b))
      BY <3>1 DEF MaskOf, TagOf, BlocksOf
    <3>. QED BY <3>2
  <2>. QED BY <2>1 DEF MaskExact
<1>. QED BY <1>1, CollectedAlways, PTL

\* The bytes of a data block.
LEMMA ContentFacts ==
  ASSUME edid \in Seq(Byte), NEW b \in Blocks
  PROVE  /\ b.len \in Nat /\ Len(Content(b)) = b.len
         /\ Content(b) \in Seq(Byte)
         /\ \A i \in 1 .. b.len : Content(b)[i] \in Byte
<1>1. PICK x \in Extensions : \E p \in Heads(x) : b = BlockAt(x, p)
  BY DEF Blocks, BlockAt
<1>2. PICK p \in Heads(x) : b = BlockAt(x, p)
  BY <1>1
<1>3. x \in Nat /\ p \in Nat
  BY ExtensionFacts, HeadsInRange
<1>4. b.ext = x /\ b.at = p /\ b.len = LengthAt(x, p) /\ Content(b) = Data(x, p)
  BY <1>2 DEF BlockAt, Content
<1>5. LengthAt(x, p) \in Nat /\ BlockStart(x) \in Nat
  BY <1>3, PlacesInBlock
<1>6. \A i \in 1 .. LengthAt(x, p) : At(BlockStart(x) + p + i) \in Byte
  <2>1. TAKE i \in 1 .. LengthAt(x, p)
  <2>2. BlockStart(x) + p + i \in Nat  BY <1>3, <1>5
  <2>. QED BY <2>2, ByteAt
<1>7. Data(x, p) \in Seq(Byte) /\ Len(Data(x, p)) = LengthAt(x, p)
      /\ \A i \in 1 .. LengthAt(x, p) : Data(x, p)[i] \in Byte
  BY <1>5, <1>6 DEF Data
<1>. QED BY <1>4, <1>5, <1>7

\* What the visitor of dsGetTVHDRCapabilities takes from one data block.
LEMMA HdrFacts ==
  ASSUME NEW tag, NEW data \in Seq(Byte)
  PROVE  /\ "HDR10" \in HdrOf(tag, data) <=>
               tag = ExtendedTag /\ Len(data) >= 2 /\ data[1] = 6
               /\ (data[2] \div 4) % 2 = 1
         /\ "DolbyVision" \in HdrOf(tag, data) <=>
               tag = VendorTag /\ Len(data) >= 3
               /\ \A i \in 1 .. 3 : data[i] = DolbyOui[i]
<1>1. ExtendedTag # VendorTag  BY DEF ExtendedTag, VendorTag
<1>2. \A f : /\ "HDR10" \in Eotf(f) <=> (f \div 4) % 2 = 1
             /\ "DolbyVision" \notin Eotf(f)
  BY DEF Eotf
<1>3. \A oui : /\ "HDR10" \notin Vendor(oui)
               /\ "DolbyVision" \in Vendor(oui) <=> oui = DolbyOui
  BY DEF Vendor
<1>4. CASE tag = ExtendedTag /\ Len(data) >= 2
  <2>1. HdrOf(tag, data) = IF data[1] = HdrStaticMetadata THEN Eotf(data[2]) ELSE {}
    BY <1>1, <1>4 DEF HdrOf
  <2>. QED BY <1>1, <1>2, <1>4, <2>1 DEF HdrStaticMetadata
<1>5. CASE tag = VendorTag /\ Len(data) >= 3
  <2>1. HdrOf(tag, data) = Vendor(SubSeq(data, 1, 3))
    BY <1>1, <1>5 DEF HdrOf
  <2>2. /\ SubSeq(data, 1, 3) \in Seq(Byte) /\ Len(SubSeq(data, 1, 3)) = 3
        /\ \A i \in 1 .. 3 : SubSeq(data, 1, 3)[i] = data[i]
    BY <1>5
  <2>3. DolbyOui \in Seq(Nat) /\ Len(DolbyOui) = 3  BY DEF DolbyOui
  <2>4. SubSeq(data, 1, 3) = DolbyOui <=> \A i \in 1 .. 3 : data[i] = DolbyOui[i]
    BY <2>2, <2>3
  <2>. QED BY <1>1, <1>3, <1>5, <2>1, <2>4
<1>6. CASE ~(tag = ExtendedTag /\ Len(data) >= 2) /\ ~(tag = VendorTag /\ Len(data) >= 3)
  <2>1. HdrOf(tag, data) = {}  BY <1>6 DEF HdrOf
  <2>. QED BY <1>6, <2>1
<1>. QED BY <1>4, <1>5, <1>6

\* dsGetTVHDRCapabilities reports HDR10 and Dolby Vision when and only when a
\* data block of the EDID says so.
THEOREM HdrReported == Spec => []HdrExact
<1>1. ASSUME Walked, Collected, "hdr" \in answered PROVE HdrExact
  <2>1. \A s : s \in hdr <=> s = "SDR" \/ \E b \in Blocks : s \in HdrIn(b)
    BY <1>1 DEF Collected, HdrSays
  <2>2. edid \in Seq(Byte)  BY <1>1 DEF Walked, Located
  <2>3. \A b \in Blocks : Content(b) \in Seq(Byte) /\ Len(Content(b)) = b.len
    BY <2>2, ContentFacts
  <2>4. "SDR" \in hdr  BY <2>1
  <2>5. "HDR10" \in hdr <=>
          \E b \in BlocksOf(ExtendedTag) :
            b.len >= 2 /\ Content(b)[1] = 6 /\ (Content(b)[2] \div 4) % 2 = 1
    BY <2>1, <2>3, HdrFacts DEF HdrIn, TagOf, BlocksOf
  <2>6. "DolbyVision" \in hdr <=>
          \E b \in BlocksOf(VendorTag) :
            b.len >= 3 /\ \A i \in 1 .. 3 : Content(b)[i] = DolbyOui[i]
    BY <2>1, <2>3, HdrFacts DEF HdrIn, TagOf, BlocksOf
  <2>. QED BY <2>4, <2>5, <2>6 DEF HdrExact
<1>2. Walked /\ Collected => HdrExact
  BY <1>1 DEF HdrExact
<1>. QED BY <1>2, WalkedAlways, CollectedAlways, PTL

\* dsIsDisplaySurround finds a descriptor of more than two channels wherever it
\* is in the EDID, and takes no other byte for one.
THEOREM SurroundFound == Spec => []SurroundExact
<1>1. ASSUME Walked, Collected, "surround" \in answered PROVE SurroundExact
  <2>1. surround <=> \E b \in Blocks : SurroundIn(b)
    BY <1>1 DEF Collected, SurroundSays
  <2>2. edid \in Seq(Byte)  BY <1>1 DEF Walked, Located
  <2>3. ASSUME NEW b \in Blocks
        PROVE  (\E i \in 1 .. Len(Content(b)) :
                  Descriptor(Content(b), i) /\ (Content(b)[i] % 8) + 1 > 2)
               <=> (\E k \in 0 .. b.len \div 3 - 1 : Content(b)[3 * k + 1] % 8 >= 2)
    <3>1. b.len \in Nat /\ Len(Content(b)) = b.len
          /\ \A i \in 1 .. b.len : Content(b)[i] \in 0 .. 255
      BY <2>2, <2>3, ContentFacts DEF Byte
    <3>2. \A i \in 1 .. b.len :
            Descriptor(Content(b), i) <=> i + 2 <= b.len /\ i % 3 = 1
      BY <3>1 DEF Descriptor, DescriptorLen
    <3>3. \A k \in 0 .. b.len \div 3 - 1 :
            3 * k + 1 \in 1 .. b.len /\ (3 * k + 1) % 3 = 1 /\ 3 * k + 3 <= b.len
      BY <3>1
    <3>4. \A i \in 1 .. b.len : i + 2 <= b.len /\ i % 3 = 1 =>
            \E k \in 0 .. b.len \div 3 - 1 : i = 3 * k + 1
      <4>1. TAKE i \in 1 .. b.len
      <4>2. HAVE i + 2 <= b.len /\ i % 3 = 1
      <4>3. i \div 3 \in 0 .. b.len \div 3 - 1 /\ i = 3 * (i \div 3) + 1
        BY <3>1, <4>2
      <4>. QED BY <4>3
    <3>5. \A i \in 1 .. b.len :
            (Content(b)[i] % 8) + 1 > 2 <=> Content(b)[i] % 8 >= 2
      <4>1. \A v \in 0 .. 255 : (v % 8) + 1 > 2 <=> v % 8 >= 2  OBVIOUS
      <4>. QED BY <3>1, <4>1
    <3>6. ASSUME NEW i \in 1 .. Len(Content(b)), Descriptor(Content(b), i),
                 (Content(b)[i] % 8) + 1 > 2
          PROVE  \E k \in 0 .. b.len \div 3 - 1 : Content(b)[3 * k + 1] % 8 >= 2
      <4>1. i \in 1 .. b.len  BY <3>1
      <4>2. PICK k \in 0 .. b.len \div 3 - 1 : i = 3 * k + 1
        BY <3>2, <3>4, <3>6, <4>1
      <4>3. Content(b)[i] % 8 >= 2  BY <3>5, <3>6, <4>1
      <4>. QED BY <4>2, <4>3
    <3>7. ASSUME NEW k \in 0 .. b.len \div 3 - 1, Content(b)[3 * k + 1] % 8 >= 2
          PROVE  \E i \in 1 .. Len(Content(b)) :
                   Descriptor(Content(b), i) /\ (Content(b)[i] % 8) + 1 > 2
      <4>. DEFINE i == 3 * k + 1
      <4>1. i \in 1 .. b.len /\ i % 3 = 1 /\ i + 2 <= b.len
        BY <3>1, <3>3
      <4>2. Content(b)[i] % 8 >= 2  BY <3>7
      <4>. HIDE DEF i
      <4>3. Descriptor(Content(b), i)  BY <3>2, <4>1
      <4>4. (Content(b)[i] % 8) + 1 > 2  BY <3>5, <4>1, <4>2
      <4>. QED BY <3>1, <4>1, <4>3, <4>4
    <3>. QED BY <3>6, <3>7
  <2>4. surround <=> \E b \in BlocksOf(AudioTag) : \E k \in 0 .. b.len \div 3 - 1 :
                        Content(b)[3 * k + 1] % 8 >= 2
    BY <2>1, <2>3 DEF SurroundIn, TagOf, BlocksOf
  <2>. QED BY <2>4 DEF SurroundExact
<1>2. Walked /\ Collected => SurroundExact
  BY <1>1 DEF SurroundExact
<1>. QED BY <1>2, WalkedAlways, CollectedAlways, PTL

(***************************************************************************)
(* The tables                                                              *)
(***************************************************************************)

LEMMA TableSizes ==
  Len(Settings) = 18 /\ Len(ResolutionMap) = 21 /\ Len(VicMapTable) = 19
BY DEF Settings, ResolutionMap, VicMapTable

\* dsgetResolutionInfo returns the first row that the name is the beginning of.
LEMMA FirstSetting ==
  ASSUME NEW name, NEW r \in 1 .. 18, StartsWith(Settings[r], name),
         \A j \in 1 .. r - 1 : ~StartsWith(Settings[j], name)
  PROVE  ResolutionInfo(name) = Settings[r]
<1>. DEFINE First(i) == /\ StartsWith(Settings[i], name)
                        /\ \A j \in 1 .. i - 1 : ~StartsWith(Settings[j], name)
<1>1. r = CHOOSE i \in 1 .. Len(Settings) : First(i)
  <2>1. \A i \in 1 .. Len(Settings) : First(i) => i = r  BY TableSizes
  <2>. QED BY <2>1, TableSizes
<1>2. FirstRow(Settings, LAMBDA text : StartsWith(text, name)) = r
  BY <1>1, TableSizes DEF FirstRow
<1>. QED BY <1>2 DEF ResolutionInfo

\* A VIC has the name and the TV resolution of the first row that it is in.
LEMMA FirstName ==
  ASSUME NEW vic, NEW r \in 1 .. 21, vic \in ResolutionMap[r].vics,
         \A j \in 1 .. r - 1 : vic \notin ResolutionMap[j].vics
  PROVE  NameOf(vic) = ResolutionMap[r].name
<1>. DEFINE First(i) == /\ vic \in ResolutionMap[i].vics
                        /\ \A j \in 1 .. i - 1 : ~(vic \in ResolutionMap[j].vics)
<1>1. r = CHOOSE i \in 1 .. Len(ResolutionMap) : First(i)
  <2>1. \A i \in 1 .. Len(ResolutionMap) : First(i) => i = r  BY TableSizes
  <2>. QED BY <2>1, TableSizes
<1>2. FirstRow(ResolutionMap, LAMBDA entry : vic \in entry.vics) = r
  BY <1>1, TableSizes DEF FirstRow
<1>. QED BY <1>2 DEF NameOf

LEMMA NoName ==
  ASSUME NEW vic, \A j \in 1 .. 21 : vic \notin ResolutionMap[j].vics
  PROVE  NameOf(vic) = None
<1>1. FirstRow(ResolutionMap, LAMBDA entry : vic \in entry.vics) = 0
  BY TableSizes DEF FirstRow
<1>. QED BY <1>1 DEF NameOf

LEMMA FirstTv ==
  ASSUME NEW vic, NEW r \in 1 .. 19, vic \in VicMapTable[r].vics,
         \A j \in 1 .. r - 1 : vic \notin VicMapTable[j].vics
  PROVE  getResolutionFromVic(vic) = VicMapTable[r].tv
<1>. DEFINE First(i) == /\ vic \in VicMapTable[i].vics
                        /\ \A j \in 1 .. i - 1 : ~(vic \in VicMapTable[j].vics)
<1>1. r = CHOOSE i \in 1 .. Len(VicMapTable) : First(i)
  <2>1. \A i \in 1 .. Len(VicMapTable) : First(i) => i = r  BY TableSizes
  <2>. QED BY <2>1, TableSizes
<1>2. FirstRow(VicMapTable, LAMBDA entry : vic \in entry.vics) = r
  BY <1>1, TableSizes DEF FirstRow
<1>. QED BY <1>2 DEF getResolutionFromVic

LEMMA NoTv ==
  ASSUME NEW vic, \A j \in 1 .. 19 : vic \notin VicMapTable[j].vics
  PROVE  getResolutionFromVic(vic) = None
<1>1. FirstRow(VicMapTable, LAMBDA entry : vic \in entry.vics) = 0
  BY TableSizes DEF FirstRow
<1>. QED BY <1>1 DEF getResolutionFromVic

\* No name is found by a shorter one before its own row is reached.
LEMMA SettingsOrdered ==
  \A i \in 1 .. 18 : /\ StartsWith(Settings[i], Settings[i])
                     /\ \A j \in 1 .. i - 1 : ~StartsWith(Settings[j], Settings[i])
BY DEF Settings, Name, StartsWith

LEMMA SettingFound ==
  /\ SettingNames = {Settings[i] : i \in 1 .. 18}
  /\ \A name \in SettingNames : ResolutionInfo(name) = name /\ name # None
<1>1. SettingNames = {Settings[i] : i \in 1 .. 18}
  BY TableSizes DEF SettingNames
<1>2. \A i \in 1 .. 18 : Settings[i] # None
  BY DEF Settings, None, Name
<1>3. \A i \in 1 .. 18 : ResolutionInfo(Settings[i]) = Settings[i]
  BY SettingsOrdered, FirstSetting
<1>. QED BY <1>1, <1>2, <1>3

LEMMA NoneNotFound == ResolutionInfo(None) = None
<1>1. \A i \in 1 .. 18 : ~StartsWith(Settings[i], None)
  BY DEF Settings, Name, None, StartsWith
<1>2. FirstRow(Settings, LAMBDA text : StartsWith(text, None)) = 0
  BY <1>1, TableSizes DEF FirstRow
<1>. QED BY <1>2 DEF ResolutionInfo

\* resolutionMap has the names of the settings, each for some VIC, and none else.
LEMMA MapNames ==
  {ResolutionMap[j].name : j \in 1 .. 21} = SettingNames
<1>1. \A j \in 1 .. 21 : \E i \in 1 .. 18 : ResolutionMap[j].name = Settings[i]
  BY SMTT(60) DEF Settings, ResolutionMap
<1>2. \A i \in 1 .. 18 : \E j \in 1 .. 21 : ResolutionMap[j].name = Settings[i]
  BY SMTT(60) DEF Settings, ResolutionMap
<1>. DEFINE N == {ResolutionMap[j].name : j \in 1 .. 21}
<1>3. \A name : name \in N <=> \E j \in 1 .. 21 : name = ResolutionMap[j].name
  OBVIOUS
<1>. HIDE DEF N
<1>4. \A name \in SettingNames : name \in N
  <2>. TAKE name \in SettingNames
  <2>1. PICK i \in 1 .. 18 : name = Settings[i]  BY SettingFound
  <2>2. PICK j \in 1 .. 21 : ResolutionMap[j].name = Settings[i]  BY <1>2
  <2>. QED BY <1>3, <2>1, <2>2
<1>5. \A name \in N : name \in SettingNames
  <2>. TAKE name \in N
  <2>1. PICK j \in 1 .. 21 : name = ResolutionMap[j].name  BY <1>3
  <2>2. PICK i \in 1 .. 18 : ResolutionMap[j].name = Settings[i]  BY <1>1
  <2>. QED BY <2>1, <2>2, SettingFound
<1>. QED BY <1>4, <1>5 DEF N

\* No VIC is in two rows of resolutionMap.
LEMMA OneRow ==
  \A j \in 1 .. 21 : \A k \in 1 .. j - 1 :
    ResolutionMap[j].vics \cap ResolutionMap[k].vics = {}
BY SMTT(60) DEF ResolutionMap

LEMMA NameTyped == \A vic : NameOf(vic) \in SettingNames \cup {None}
<1>. SUFFICES ASSUME NEW vic PROVE NameOf(vic) \in SettingNames \cup {None}
  OBVIOUS
<1>1. CASE \A j \in 1 .. 21 : vic \notin ResolutionMap[j].vics
  BY <1>1, NoName
<1>2. CASE \E j \in 1 .. 21 : vic \in ResolutionMap[j].vics
  <2>1. PICK j \in 1 .. 21 : vic \in ResolutionMap[j].vics  BY <1>2
  <2>2. \A k \in 1 .. j - 1 : vic \notin ResolutionMap[k].vics  BY <2>1, OneRow
  <2>. QED BY <2>1, <2>2, FirstName, MapNames
<1>. QED BY <1>1, <1>2

(***************************************************************************)
(* The list of dsGetEDID                                                   *)
(***************************************************************************)

NamesIn(s) == {s[i] : i \in 1 .. Len(s)}
Once(s) == \A i, j \in 1 .. Len(s) : s[i] = s[j] => i = j
Lists == Seq(SettingNames)

\* What is appended to the list is in it then, and is there once.
LEMMA AppendedOne ==
  ASSUME NEW s \in Lists, NEW name \in SettingNames \cup {None}
  PROVE  /\ Append1[name][s] \in Lists
         /\ Once(s) => Once(Append1[name][s])
         /\ NamesIn(Append1[name][s]) = NamesIn(s) \cup ({name} \ {None})
<1>. DEFINE t == Append1[name][s]
<1>1. t = IF name = None \/ \E i \in 1 .. Len(s) : s[i] = name
          THEN s ELSE Append(s, name)
  BY DEF Append1, Lists
<1>2. CASE name = None \/ \E i \in 1 .. Len(s) : s[i] = name
  <2>1. t = s  BY <1>1, <1>2
  <2>. HIDE DEF t
  <2>. QED BY <1>2, <2>1 DEF NamesIn, t
<1>3. CASE name # None /\ \A i \in 1 .. Len(s) : s[i] # name
  <2>1. t = Append(s, name) /\ name \in SettingNames  BY <1>1, <1>3
  <2>2. /\ t \in Lists /\ Len(t) = Len(s) + 1 /\ Len(s) \in Nat
        /\ \A i \in 1 .. Len(s) : t[i] = s[i]
        /\ t[Len(s) + 1] = name
    BY <2>1 DEF Lists
  <2>. HIDE DEF t
  <2>3. NamesIn(t) = NamesIn(s) \cup {name}
    BY <2>2 DEF NamesIn
  <2>4. Once(s) => Once(t)
    <3>. SUFFICES ASSUME Once(s), NEW i \in 1 .. Len(t), NEW j \in 1 .. Len(t), t[i] = t[j]
                  PROVE  i = j
      BY DEF Once
    <3>1. i \in 1 .. Len(s) \/ i = Len(s) + 1  BY <2>2
    <3>2. j \in 1 .. Len(s) \/ j = Len(s) + 1  BY <2>2
    <3>. QED BY <1>3, <2>2, <3>1, <3>2 DEF Once
  <2>. QED BY <1>3, <2>2, <2>3, <2>4 DEF t
<1>. QED BY <1>2, <1>3

\* A function on 0 .. n can be defined step by step.
LEMMA Recursion ==
  ASSUME NEW S, NEW base \in S, NEW n \in Nat, NEW step \in [1 .. n -> [S -> S]]
  PROVE  \E f \in [0 .. n -> S] :
           f = [i \in 0 .. n |-> IF i = 0 THEN base ELSE step[i][f[i - 1]]]
<1>. DEFINE Steps(m, f) ==
              f = [i \in 0 .. m |-> IF i = 0 THEN base ELSE step[i][f[i - 1]]]
            T == {m \in 0 .. n : ~ \E f \in [0 .. m -> S] : Steps(m, f)}
<1>1. SUFFICES ASSUME T # {} PROVE FALSE
  OBVIOUS
<1>2. PICK m \in T : \A k \in T : m <= k
  <2>1. T \in SUBSET Nat  OBVIOUS
  <2>. HIDE DEF T
  <2>. QED BY <1>1, <2>1, LeastNumber
<1>3. m # 0
  <2>. DEFINE f == [i \in 0 .. 0 |-> base]
  <2>1. f \in [0 .. 0 -> S] /\ Steps(0, f)  OBVIOUS
  <2>. QED BY <1>2, <2>1
<1>4. m \in 1 .. n /\ m - 1 \in 0 .. n /\ m - 1 \notin T
  <2>1. m \in 0 .. n  BY <1>2
  <2>2. m - 1 \notin T
    <3>. HIDE DEF T
    <3>. QED BY <1>2, <2>1
  <2>. QED BY <1>3, <2>1, <2>2
<1>5. PICK f \in [0 .. m - 1 -> S] : Steps(m - 1, f)  BY <1>4
<1>. DEFINE g == [i \in 0 .. m |-> IF i = m THEN step[m][f[m - 1]] ELSE f[i]]
<1>6. f[m - 1] \in S /\ step[m] \in [S -> S]  BY <1>4
<1>7. g \in [0 .. m -> S]  BY <1>4, <1>6
<1>8. \A i \in 0 .. m : g[i] = IF i = 0 THEN base ELSE step[i][g[i - 1]]
  <2>. TAKE i \in 0 .. m
  <2>1. CASE i = m
    <3>1. g[i - 1] = f[m - 1]  BY <1>4, <2>1
    <3>. QED BY <1>4, <2>1, <3>1
  <2>2. CASE i # m
    <3>1. i \in 0 .. m - 1 /\ g[i] = f[i]  BY <1>4, <2>2
    <3>2. f[i] = IF i = 0 THEN base ELSE step[i][f[i - 1]]  BY <1>5, <3>1
    <3>3. i # 0 => g[i - 1] = f[i - 1]  BY <1>4, <2>2
    <3>. QED BY <3>1, <3>2, <3>3
  <2>. QED BY <2>1, <2>2
<1>9. Steps(m, g)  BY <1>7, <1>8
<1>. HIDE DEF g, Steps
<1>. QED BY <1>2, <1>7, <1>9

\* AppendAll appends every name that is one of the table, each once.
LEMMA AllAppended ==
  ASSUME NEW s \in Lists, Once(s), NEW more, Len(more) \in Nat,
         \A i \in 1 .. Len(more) : more[i] \in SettingNames \cup {None}
  PROVE  LET r == AppendAll(s, more)
         IN  /\ r \in Lists /\ Once(r)
             /\ \A name : name \in NamesIn(r) <=>
                  \/ name \in NamesIn(s)
                  \/ name # None /\ \E i \in 1 .. Len(more) : name = more[i]
<1>. DEFINE n == Len(more)
            step == [i \in 1 .. n |-> Append1[more[i]]]
            c == CHOOSE g : g = [i \in 0 .. n |->
                                   IF i = 0 THEN s
                                   ELSE Append1[ResolutionInfo(more[i])][g[i - 1]]]
<1>1. \A i \in 1 .. n : more[i] \in SettingNames \cup {None} /\ ResolutionInfo(more[i]) = more[i]
  BY SettingFound, NoneNotFound
<1>2. \A name \in SettingNames \cup {None} : Append1[name] \in [Lists -> Lists]
  <2>. TAKE name \in SettingNames \cup {None}
  <2>1. Append1[name] = [t \in Lists |-> Append1[name][t]]
    BY DEF Append1, Lists
  <2>2. \A t \in Lists : Append1[name][t] \in Lists  BY AppendedOne
  <2>. QED BY <2>1, <2>2
<1>3. step \in [1 .. n -> [Lists -> Lists]]
  BY <1>1, <1>2
<1>4. \E f \in [0 .. n -> Lists] :
        f = [i \in 0 .. n |-> IF i = 0 THEN s ELSE step[i][f[i - 1]]]
  <2>1. n \in Nat /\ s \in Lists  OBVIOUS
  <2>. HIDE DEF step, n, c
  <2>2. \A base \in Lists : \A m \in Nat : \A g \in [1 .. m -> [Lists -> Lists]] :
          \E f \in [0 .. m -> Lists] :
            f = [i \in 0 .. m |-> IF i = 0 THEN base ELSE g[i][f[i - 1]]]
    BY Recursion
  <2>3. \A m \in Nat : \A g \in [1 .. m -> [Lists -> Lists]] :
          \E f \in [0 .. m -> Lists] :
            f = [i \in 0 .. m |-> IF i = 0 THEN s ELSE g[i][f[i - 1]]]
    BY <2>1, <2>2, Zenon
  <2>. QED BY <1>3, <2>1, <2>3, Zenon
<1>5. PICK f \in [0 .. n -> Lists] :
        f = [i \in 0 .. n |-> IF i = 0 THEN s ELSE step[i][f[i - 1]]]
  BY <1>4
<1>6. f = [i \in 0 .. n |-> IF i = 0 THEN s
                            ELSE Append1[ResolutionInfo(more[i])][f[i - 1]]]
  <2>1. \A i \in 0 .. n : i # 0 => i \in 1 .. n /\ step[i] = Append1[ResolutionInfo(more[i])]
    BY <1>1
  <2>. HIDE DEF step
  <2>. QED BY <1>5, <2>1
<1>7. c = [i \in 0 .. n |-> IF i = 0 THEN s
                            ELSE Append1[ResolutionInfo(more[i])][c[i - 1]]]
  <2>. HIDE DEF n
  <2>. QED BY <1>6
<1>8. AppendAll(s, more) = c[n]
  BY DEF AppendAll
<1>. HIDE DEF c, step
<1>9. c[0] = s /\ \A i \in 1 .. n : c[i] = Append1[more[i]][c[i - 1]]
  <2>1. 0 \in 0 .. n /\ \A i \in 1 .. n : i \in 0 .. n /\ i # 0
    OBVIOUS
  <2>2. c[0] = s  BY <1>7, <2>1
  <2>3. ASSUME NEW i \in 1 .. n PROVE c[i] = Append1[more[i]][c[i - 1]]
    <3>1. c[i] = Append1[ResolutionInfo(more[i])][c[i - 1]]
      <4>1. i \in 0 .. n /\ i # 0  BY <2>1
      <4>. HIDE DEF n
      <4>. QED BY <1>7, <4>1
    <3>. QED BY <1>1, <3>1
  <2>. QED BY <2>2, <2>3
<1>. DEFINE Sound(i) ==
              /\ c[i] \in Lists /\ Once(c[i])
              /\ \A name : name \in NamesIn(c[i]) <=>
                   \/ name \in NamesIn(s)
                   \/ name # None /\ \E j \in 1 .. i : name = more[j]
            T == {i \in 0 .. n : ~Sound(i)}
<1>10. Sound(0)
  BY <1>9
<1>11. ASSUME NEW i \in 1 .. n, Sound(i - 1) PROVE Sound(i)
  <2>1. c[i] = Append1[more[i]][c[i - 1]]  BY <1>9
  <2>2. c[i - 1] \in Lists /\ Once(c[i - 1])  BY <1>11
  <2>3. more[i] \in SettingNames \cup {None}  BY <1>1
  <2>4. /\ c[i] \in Lists /\ Once(c[i])
        /\ NamesIn(c[i]) = NamesIn(c[i - 1]) \cup ({more[i]} \ {None})
    BY <2>1, <2>2, <2>3, AppendedOne
  <2>5. \A name : (\E j \in 1 .. i : name = more[j]) <=>
                    (\E j \in 1 .. i - 1 : name = more[j]) \/ name = more[i]
    BY <1>11
  <2>6. \A name : name \in NamesIn(c[i - 1]) <=>
                   \/ name \in NamesIn(s)
                   \/ name # None /\ \E j \in 1 .. i - 1 : name = more[j]
    BY <1>11
  <2>7. \A name : name \in NamesIn(c[i]) <=>
                    name \in NamesIn(c[i - 1]) \/ (name = more[i] /\ name # None)
    BY <2>4
  <2>8. \A name : name \in NamesIn(c[i]) <=>
                   \/ name \in NamesIn(s)
                   \/ name # None /\ \E j \in 1 .. i : name = more[j]
    BY <2>5, <2>6, <2>7
  <2>. QED BY <2>4, <2>8
<1>12. T = {}
  <2>1. SUFFICES ASSUME T # {} PROVE FALSE
    OBVIOUS
  <2>2. T \in SUBSET Nat  OBVIOUS
  <2>3. PICK m \in T : \A k \in T : m <= k
    <3>. HIDE DEF T
    <3>. QED BY <2>1, <2>2, LeastNumber
  <2>4. m \in 0 .. n /\ ~Sound(m)
    <3>. HIDE DEF Sound
    <3>. QED BY <2>3
  <2>5. m - 1 \notin T
    <3>. HIDE DEF T
    <3>. QED BY <2>3, <2>4
  <2>. HIDE DEF Sound
  <2>6. m # 0  BY <1>10, <2>4
  <2>7. m \in 1 .. n /\ m - 1 \in 0 .. n  BY <2>4, <2>6
  <2>8. Sound(m - 1)  BY <2>5, <2>7
  <2>. QED BY <1>11, <2>4, <2>7, <2>8
<1>13. Sound(n)
  <2>. HIDE DEF Sound
  <2>. QED BY <1>12
<1>. QED BY <1>8, <1>13

\* The names that a data block adds to the list.
NamesFrom(b) ==
  IF TagOf(b) = VideoTag
  THEN {NameOf(Content(b)[i] % 128) : i \in 1 .. Len(Content(b))} \ {None} ELSE {}
ListSays(S) == \A name : name \in NamesIn(list) <=> \E b \in S : name \in NamesFrom(b)

\* The list has what the blocks say, as the other answers do, each name once,
\* and the whole table when they say nothing.
Listing ==
  /\ list \in Lists /\ Once(list)
  /\ query = "list" => ListSays(visited)
  /\ query # "list" /\ "list" \notin answered => list = << >>
  /\ "list" \in answered => NamesIn(list) = IF Advertised = {} THEN SettingNames ELSE Advertised

LEMMA NamesTheSame ==
  ASSUME edid' = edid
  PROVE  /\ \A b : NamesFrom(b)' = NamesFrom(b)
         /\ Advertised' = Advertised
<1>1. \A i : At(i)' = At(i)  BY DEF At
<1>2. \A x, p : TagAt(x, p)' = TagAt(x, p) /\ Data(x, p)' = Data(x, p)
  BY <1>1 DEF TagAt, Data, LengthAt, BlockStart
<1>3. \A b : TagOf(b)' = TagOf(b) /\ Content(b)' = Content(b) /\ TagAt(b.ext, b.at)' = TagAt(b.ext, b.at)
  BY <1>2 DEF TagOf, Content
<1>4. Blocks' = Blocks  BY SameBytes
<1>5. BlocksOf(VideoTag)' = BlocksOf(VideoTag)  BY <1>3, <1>4 DEF BlocksOf
<1>6. Vics' = Vics  BY <1>3, <1>5 DEF Vics
<1>7. Advertised' = Advertised  BY <1>6 DEF Advertised
<1>8. \A b : NamesFrom(b)' = NamesFrom(b)  BY <1>3 DEF NamesFrom
<1>. QED BY <1>7, <1>8

\* What the blocks of the EDID say is what is advertised.
LEMMA AdvertisedInBlocks ==
  ASSUME edid \in Seq(Byte)
  PROVE  \A name : name \in Advertised <=> \E b \in Blocks : name \in NamesFrom(b)
<1>1. \A b \in Blocks : Len(Content(b)) = b.len  BY ContentFacts
<1>2. \A v : v \in Vics <=> \E b \in Blocks : TagOf(b) = VideoTag
                                  /\ \E i \in 1 .. b.len : v = Content(b)[i] % 128
  BY DEF Vics, BlocksOf, TagOf
<1>3. \A name : name \in Advertised <=> name # None /\ \E v \in Vics : name = NameOf(v)
  BY DEF Advertised
<1>4. \A name, b : name \in NamesFrom(b) <=>
         TagOf(b) = VideoTag /\ name # None
         /\ \E i \in 1 .. Len(Content(b)) : name = NameOf(Content(b)[i] % 128)
  BY DEF NamesFrom
<1>. QED BY <1>1, <1>2, <1>3, <1>4

LEMMA EmptyList == << >> \in Lists /\ Once(<< >>) /\ NamesIn(<< >>) = {}
BY DEF Lists, Once, NamesIn

LEMMA ListingBegin ==
  ASSUME Collected, Listing, NEW q \in Queries, Begin(q)
  PROVE  Listing'
<1>1. /\ edid' = edid /\ answered' = answered /\ list' = list
      /\ query = "none" /\ query' = q /\ visited' = {} /\ q \notin answered
  BY DEF Begin
<1>2. Advertised' = Advertised  BY <1>1, NamesTheSame
<1>3. q = "list" => list = << >>  BY <1>1 DEF Listing
<1>4. q = "list" => ListSays(visited)'
  BY <1>1, <1>3, EmptyList DEF ListSays
<1>. QED BY <1>1, <1>2, <1>4 DEF Listing

\* Without a name from the EDID every setting is listed.
LEMMA StaticList == Static \in Lists /\ Once(Static) /\ NamesIn(Static) = SettingNames
<1>. DEFINE more == [j \in 1 .. Len(ResolutionMap) |-> ResolutionMap[j].name]
<1>1. Len(more) = 21 /\ \A j \in 1 .. 21 : more[j] = ResolutionMap[j].name
  BY TableSizes
<1>2. \A j \in 1 .. 21 : more[j] \in SettingNames /\ more[j] # None
  BY <1>1, MapNames, SettingFound
<1>3. Static = AppendAll(<< >>, more)  BY DEF Static
<1>. HIDE DEF more
<1>4. /\ Static \in Lists /\ Once(Static)
      /\ \A name : name \in NamesIn(Static) <=>
           \/ name \in NamesIn(<< >>)
           \/ name # None /\ \E i \in 1 .. Len(more) : name = more[i]
  <2>1. Len(more) \in Nat
        /\ \A i \in 1 .. Len(more) : more[i] \in SettingNames \cup {None}
    BY <1>1, <1>2
  <2>2. << >> \in Lists /\ Once(<< >>)  BY EmptyList
  <2>. DEFINE r == AppendAll(<< >>, more)
  <2>3. /\ r \in Lists /\ Once(r)
        /\ \A name : name \in NamesIn(r) <=>
             \/ name \in NamesIn(<< >>)
             \/ name # None /\ \E i \in 1 .. Len(more) : name = more[i]
    BY <2>1, <2>2, AllAppended
  <2>. HIDE DEF r
  <2>4. Static = r  BY <1>3 DEF r
  <2>. QED BY <2>3, <2>4
<1>5. \A name : name \in NamesIn(Static) <=> \E i \in 1 .. 21 : name = ResolutionMap[i].name
  <2>1. \A name : name \notin NamesIn(<< >>)  BY EmptyList
  <2>2. \A i \in 1 .. Len(more) : more[i] = ResolutionMap[i].name /\ more[i] # None
    BY <1>1, <1>2
  <2>3. Len(more) = 21  BY <1>1
  <2>. QED BY <1>4, <2>1, <2>2, <2>3
<1>6. \A name : name \in SettingNames <=> \E i \in 1 .. 21 : name = ResolutionMap[i].name
  <2>. DEFINE N == {ResolutionMap[j].name : j \in 1 .. 21}
  <2>1. \A name : name \in N <=> \E i \in 1 .. 21 : name = ResolutionMap[i].name
    OBVIOUS
  <2>. HIDE DEF N
  <2>2. N = SettingNames  BY MapNames DEF N
  <2>. QED BY <2>1, <2>2
<1>. QED BY <1>4, <1>5, <1>6

LEMMA ListingFinish ==
  ASSUME Walked, Collected, Listing, Finish
  PROVE  Listing'
<1>1. /\ edid' = edid
      /\ query # "none" /\ query' = "none" /\ answered' = answered \cup {query}
      /\ IF query = "list" THEN list' = IF list = << >> THEN Static ELSE list
         ELSE list' = list
  BY DEF Finish, End, Fallback
<1>2. Advertised' = Advertised  BY <1>1, NamesTheSame
<1>3. CASE query # "list"
  BY <1>1, <1>2, <1>3 DEF Listing
<1>4. CASE query = "list"
  <2>1. visited = Blocks /\ edid \in Seq(Byte)
    BY FinishVisitsAll DEF Walked, Located
  <2>2. NamesIn(list) = Advertised
    BY <1>4, <2>1, AdvertisedInBlocks DEF Listing, ListSays
  <2>3. list \in Lists /\ Once(list)  BY DEF Listing
  <2>4. list = << >> <=> NamesIn(list) = {}
    <3>1. list # << >> => Len(list) \in Nat /\ Len(list) # 0
      BY <2>3 DEF Lists
    <3>2. list # << >> => list[1] \in NamesIn(list)
      BY <3>1 DEF NamesIn
    <3>. QED BY <3>2, EmptyList
  <2>5. list' \in Lists /\ Once(list')
        /\ NamesIn(list') = IF Advertised = {} THEN SettingNames ELSE Advertised
    BY <1>1, <1>4, <2>2, <2>3, <2>4, StaticList
  <2>. QED BY <1>1, <1>2, <1>4, <2>5 DEF Listing
<1>. QED BY <1>3, <1>4

LEMMA ListingDataBlock ==
  ASSUME Walked, Collected, Listing, DataBlock
  PROVE  Listing'
<1>. DEFINE b == BlockAt(ext, pos)
            more == [i \in 1 .. Len(Content(b)) |-> NameOf(Content(b)[i] % 128)]
<1>1. TagOf(b) = TagAt(ext, pos) /\ Content(b) = Data(ext, pos)
  BY DEF BlockAt, TagOf, Content
<1>2. edid' = edid /\ visited' = visited \cup {b} /\ query # "none"
  BY DEF DataBlock, BlockAt
<1>3. Visit(TagOf(b), Content(b))  BY <1>1 DEF DataBlock
<1>4. \/ query' = query /\ answered' = answered
      \/ /\ query = "surround" /\ query' = "none"
         /\ answered' = answered \cup {"surround"}
  BY DEF DataBlock, End
<1>5. Len(Content(b)) \in Nat
  <2>1. ext \in Nat /\ pos \in Nat /\ edid \in Seq(Byte)  BY DEF Walked, Located
  <2>2. LengthAt(ext, pos) \in Nat  BY <2>1, PlacesInBlock
  <2>. QED BY <1>1, <2>2 DEF Data
<1>6. Advertised' = Advertised /\ \A c : NamesFrom(c)' = NamesFrom(c)
  BY <1>2, NamesTheSame
<1>. HIDE DEF b
<1>7. CASE query # "list"
  <2>1. list' = list  BY <1>3, <1>7 DEF Visit
  <2>. QED BY <1>2, <1>4, <1>6, <1>7, <2>1 DEF Listing
<1>8. CASE query = "list"
  <2>1. list \in Lists /\ Once(list) /\ ListSays(visited)  BY <1>8 DEF Listing
  <2>2. query' = query /\ answered' = answered /\ "list" \notin answered
    BY <1>4, <1>8 DEF Collected
  <2>3. list' = IF TagOf(b) = VideoTag THEN AppendAll(list, more) ELSE list
    BY <1>3, <1>8 DEF Visit, VisitList
  <2>4. /\ list' \in Lists /\ Once(list')
        /\ \A name : name \in NamesIn(list') <=>
             name \in NamesIn(list) \/ name \in NamesFrom(b)
    <3>1. CASE TagOf(b) # VideoTag
      BY <2>1, <2>3, <3>1 DEF NamesFrom
    <3>2. CASE TagOf(b) = VideoTag
      <4>1. Len(more) = Len(Content(b))
            /\ \A i \in 1 .. Len(more) : more[i] = NameOf(Content(b)[i] % 128)
        BY <1>5
      <4>2. \A i \in 1 .. Len(more) : more[i] \in SettingNames \cup {None}
        BY <4>1, NameTyped
      <4>3. \A name : name \in NamesFrom(b) <=>
              name # None /\ \E i \in 1 .. Len(more) : name = more[i]
        <5>1. \A name : name \in NamesFrom(b) <=>
                name # None /\ \E i \in 1 .. Len(Content(b)) :
                                 name = NameOf(Content(b)[i] % 128)
          BY <3>2 DEF NamesFrom
        <5>. HIDE DEF more
        <5>. QED BY <4>1, <5>1
      <4>. HIDE DEF more
      <4>4. list' = AppendAll(list, more)  BY <2>3, <3>2
      <4>. QED BY <1>5, <2>1, <4>1, <4>2, <4>3, <4>4, AllAppended
    <3>. QED BY <3>1, <3>2
  <2>5. ListSays(visited)'
    BY <1>2, <1>6, <2>1, <2>4 DEF ListSays
  <2>. QED BY <1>8, <2>2, <2>4, <2>5 DEF Listing
<1>. QED BY <1>7, <1>8

LEMMA ListingNext ==
  Walked /\ Collected /\ Listing /\ [Next]_vars => Listing'
<1>. SUFFICES ASSUME Walked, Collected, Listing, [Next]_vars PROVE Listing'
  OBVIOUS
<1>1. CASE UNCHANGED vars \/ Extension \/ LeaveExtension
  <2>1. UNCHANGED <<edid, query, answered, list, visited>>
    BY <1>1 DEF vars, results, Extension, LeaveExtension
  <2>. QED BY <2>1, NamesTheSame DEF Listing, ListSays
<1>2. CASE \E q \in Queries : Begin(q)  BY <1>2, ListingBegin
<1>3. CASE Finish  BY <1>3, ListingFinish
<1>4. CASE DataBlock  BY <1>4, ListingDataBlock
<1>. QED BY <1>1, <1>2, <1>3, <1>4 DEF Next, Walk

LEMMA ListingAlways == Spec => []Listing
<1>1. Init => Listing
  BY EmptyList DEF Init, Listing
<1>. QED BY <1>1, ListingNext, WalkedAlways, CollectedAlways, PTL DEF Spec

\* A list without repetitions is no longer than the table of the settings.
LEMMA ShortList ==
  ASSUME NEW s \in Lists, Once(s)
  PROVE  Len(s) <= 18
<1>. DEFINE n == Len(s)
            row == [i \in 1 .. n |-> CHOOSE r \in 1 .. 18 : Settings[r] = s[i]]
<1>1. SUFFICES ASSUME n > 18 PROVE FALSE
  BY DEF Lists
<1>2. n \in Nat  BY DEF Lists
<1>3. \A i \in 1 .. n : row[i] \in 1 .. 18 /\ Settings[row[i]] = s[i]
  <2>. TAKE i \in 1 .. n
  <2>1. s[i] \in SettingNames  BY DEF Lists
  <2>2. \E r \in 1 .. 18 : Settings[r] = s[i]  BY <2>1, SettingFound
  <2>. QED BY <2>2
<1>4. row \in [1 .. n -> 1 .. 18]  BY <1>3
<1>5. /\ IsFiniteSet(1 .. n) /\ Cardinality(1 .. n) = n
      /\ IsFiniteSet(1 .. 18) /\ Cardinality(1 .. 18) = 18
  <2>1. \A m \in Nat : m # 0 => IsFiniteSet(1 .. m) /\ Cardinality(1 .. m) = m
    BY FS_Interval
  <2>2. 18 \in Nat /\ 18 # 0 /\ n # 0  BY <1>1, <1>2
  <2>. HIDE DEF n
  <2>. QED BY <1>2, <2>1, <2>2, Zenon
<1>. HIDE DEF row, n
<1>6. Cardinality(1 .. 18) < Cardinality(1 .. n)  BY <1>1, <1>2, <1>5
<1>7. \E i, j \in 1 .. n : i # j /\ row[i] = row[j]
  <2>. DEFINE A == 1 .. n
              B == 1 .. 18
  <2>1. IsFiniteSet(A) /\ IsFiniteSet(B) /\ Cardinality(B) < Cardinality(A)
        /\ row \in [A -> B]
    BY <1>4, <1>5, <1>6
  <2>. HIDE DEF A, B
  <2>2. \E i, j \in A : i # j /\ row[i] = row[j]
    BY <2>1, FS_PigeonHole
  <2>. QED BY <2>2 DEF A
<1>8. PICK i \in 1 .. n, j \in 1 .. n : i # j /\ row[i] = row[j]
  BY <1>7
<1>9. s[i] = s[j]  BY <1>3, <1>8
<1>. QED BY <1>8, <1>9 DEF Once, n

\* dsGetEDID lists what the EDID of the display advertises, once each and
\* nothing else, or the whole table; and HdmiSupportedResolution has room for it.
THEOREM ListReported == Spec => []ListExact
<1>1. ASSUME Listing PROVE ListExact
  <2>1. ASSUME "list" \in answered
        PROVE  /\ Listed = IF Advertised = {} THEN SettingNames ELSE Advertised
               /\ \A i, j \in 1 .. Len(list) : list[i] = list[j] => i = j
               /\ Len(list) <= noOfItemsInResolutionMap
    <3>1. NamesIn(list) = IF Advertised = {} THEN SettingNames ELSE Advertised
      BY <1>1, <2>1 DEF Listing
    <3>2. Once(list) /\ list \in Lists /\ Len(list) \in Nat
      BY <1>1 DEF Listing, Lists
    <3>3. Len(list) <= noOfItemsInResolutionMap
      BY <3>2, ShortList DEF noOfItemsInResolutionMap
    <3>. QED BY <3>1, <3>2, <3>3 DEF Listed, NamesIn, Once
  <2>. QED BY <2>1 DEF ListExact
<1>. QED BY <1>1, ListingAlways, PTL

\* The VIC of a name has a TV resolution of the same lines, scan and rate.
SameMode(tv, name) ==
  tv.lines = name.lines /\ tv.scan = name.scan /\ Rate(tv) = Rate(name)
Row(vic, r) ==
  vic \in VicMapTable[r].vics /\ \A j \in 1 .. r - 1 : vic \notin VicMapTable[j].vics
\* The row of VicMapTable in which the VICs of a row of resolutionMap are first.
TvRow == <<2, 1, 4, 3, 5, 6, 7, 8, 11, 12, 13, 10, 9, 15, 16, 17, 15, 16, 17, 18, 19>>

LEMMA TablesAgree ==
  ASSUME NEW vic, NameOf(vic) # None
  PROVE  getResolutionFromVic(vic) # None /\ SameMode(getResolutionFromVic(vic), NameOf(vic))
<1>1. PICK j \in 1 .. 21 : vic \in ResolutionMap[j].vics
  BY NoName
<1>2. NameOf(vic) = ResolutionMap[j].name
  BY <1>1, OneRow, FirstName
<1>3. \A r \in 1 .. 19 : Row(vic, r) => getResolutionFromVic(vic) = VicMapTable[r].tv
  BY FirstTv DEF Row
<1>4. \A r \in 1 .. 19 : VicMapTable[r].tv # None
  BY SMTT(60) DEF VicMapTable, None, Name
<1>5. \A i \in 1 .. 21 : /\ TvRow[i] \in 1 .. 19
                         /\ \A v \in ResolutionMap[i].vics : Row(v, TvRow[i])
  <2>1. /\ \A v \in {2, 3} : Row(v, 2)    /\ \A u \in {6, 7} : Row(u, 1)
        /\ \A v \in {17, 18} : Row(v, 4)  /\ \A u \in {21, 22} : Row(u, 3)
        /\ Row(4, 5) /\ Row(19, 6) /\ Row(5, 7) /\ Row(20, 8) /\ Row(16, 9)
    BY SMTT(60) DEF VicMapTable, Row
  <2>2. Row(31, 10) /\ Row(32, 11) /\ Row(33, 12) /\ Row(34, 13)
    BY SMTT(60) DEF VicMapTable, Row
  <2>3. /\ Row(93, 15) /\ Row(98, 15) /\ Row(94, 16) /\ Row(99, 16)
        /\ Row(95, 17) /\ Row(100, 17) /\ Row(101, 18) /\ Row(102, 19)
    BY SMTT(60) DEF VicMapTable, Row
  <2>4. \A i \in 1 .. 21 : TvRow[i] \in 1 .. 19
    BY DEF TvRow
  <2>5. \A i \in 1 .. 21 : \A v \in ResolutionMap[i].vics : Row(v, TvRow[i])
    BY <2>1, <2>2, <2>3, SMTT(60) DEF ResolutionMap, TvRow
  <2>. QED BY <2>4, <2>5
<1>6. \A i \in 1 .. 21 : SameMode(VicMapTable[TvRow[i]].tv, ResolutionMap[i].name)
  BY SMTT(60) DEF ResolutionMap, VicMapTable, SameMode, Rate, Name, TvRow
<1>. QED BY <1>1, <1>2, <1>3, <1>4, <1>5, <1>6

\* The list of dsGetEDID and the mask of dsSupportedTvResolutions, which look
\* VICs up in two tables in two files, agree on the resolution of every VIC.
THEOREM TwoTablesAgree == Spec => []ListAgreesMask
<1>1. ASSUME Walked, Collected, Listing, {"list", "mask"} \subseteq answered,
             Advertised # {}, NEW i \in 1 .. Len(list)
      PROVE  \E tv \in mask : SameMode(tv, list[i])
  <2>1. NamesIn(list) = Advertised  BY <1>1 DEF Listing
  <2>2. list[i] \in Advertised  BY <2>1 DEF NamesIn
  <2>3. edid \in Seq(Byte)  BY <1>1 DEF Walked, Located
  <2>4. PICK b \in Blocks : list[i] \in NamesFrom(b)
    BY <2>2, <2>3, AdvertisedInBlocks
  <2>5. TagOf(b) = VideoTag  BY <2>4 DEF NamesFrom
  <2>6. PICK k \in 1 .. Len(Content(b)) :
          list[i] = NameOf(Content(b)[k] % 128) /\ list[i] # None
    BY <2>4, <2>5 DEF NamesFrom
  <2>. DEFINE tv == getResolutionFromVic(Content(b)[k] % 128)
  <2>7. tv # None /\ SameMode(tv, list[i])  BY <2>6, TablesAgree
  <2>8. tv \in TvOf(Content(b))  BY <2>6, <2>7 DEF TvOf, TvVic
  <2>. HIDE DEF tv
  <2>9. tv \in MaskOf(b)  BY <2>5, <2>8 DEF MaskOf
  <2>10. MaskSays(Blocks)  BY <1>1 DEF Collected
  <2>11. tv \in mask  BY <2>9, <2>10 DEF MaskSays
  <2>. QED BY <2>7, <2>11
<1>2. Walked /\ Collected /\ Listing => ListAgreesMask
  BY <1>1 DEF ListAgreesMask, SameMode
<1>. QED BY <1>2, WalkedAlways, CollectedAlways, ListingAlways, PTL

\* Each of the four calls answers what the EDID says as a whole, however its
\* data blocks are cut, repeated, too long or missing.
THEOREM AnswersTrue == Spec => []AnswersExact
BY ListReported, TwoTablesAgree, HdrReported, SurroundFound, PTL DEF AnswersExact

\* The type of each variable: no TV resolution, setting or standard is
\* reported that is not one, and the walk counts within a byte.
LEMMA TvTyped == \A vic : getResolutionFromVic(vic) \in TvNames \cup {None}
<1>. SUFFICES ASSUME NEW vic PROVE getResolutionFromVic(vic) \in TvNames \cup {None}
  OBVIOUS
<1>1. getResolutionFromVic(vic) = None
      \/ \E r \in 1 .. 19 : getResolutionFromVic(vic) = VicMapTable[r].tv
  <2>. DEFINE row == FirstRow(VicMapTable, LAMBDA entry : vic \in entry.vics)
  <2>1. row = 0 \/ row \in 1 .. 19
    BY TableSizes DEF FirstRow
  <2>2. getResolutionFromVic(vic) = IF row = 0 THEN None ELSE VicMapTable[row].tv
    BY DEF getResolutionFromVic
  <2>. HIDE DEF row
  <2>. QED BY <2>1, <2>2
<1>2. TvNames = {VicMapTable[r].tv : r \in 1 .. 19}  BY TableSizes DEF TvNames
<1>. QED BY <1>1, <1>2

LEMMA TypeStep ==
  ASSUME Walked, Walked', Collected', Listing', TypeOK, [Next]_vars
  PROVE  TypeOK'
<1>1. query' \in Queries \cup {"none"} /\ answered' \subseteq Queries
  BY DEF Collected
<1>2. list' \in Seq(SettingNames)  BY DEF Listing, Lists
<1>3. surround' \in BOOLEAN  BY DEF Walked
<1>4. edid' \in Edids
  BY DEF TypeOK, Next, Begin, Walk, Finish, Extension, DataBlock, LeaveExtension, vars
<1>5. edid \in Seq(Byte) /\ ext \in Nat /\ pos \in Nat /\ NumExtensions \in Byte
      /\ BlockSize \in 8 .. 128
  <2>1. edid \in Seq(Byte) /\ ext \in Nat /\ pos \in Nat  BY DEF Walked, Located
  <2>2. BlockSize - 2 \in Nat /\ BlockSize \in 8 .. 128  BY EdidAssumption
  <2>. QED BY <2>1, <2>2, ByteAt DEF NumExtensions, NumExtensionsOffset
<1>6. pos > 0 => ext \in Extensions /\ ext < NumExtensions /\ pos < BlockSize
                 /\ Dtd(ext) < BlockSize /\ Dtd(ext) \in Nat
  <2>1. SUFFICES ASSUME pos > 0
                 PROVE  ext \in Extensions /\ ext < NumExtensions /\ pos < BlockSize
                        /\ Dtd(ext) < BlockSize /\ Dtd(ext) \in Nat
    OBVIOUS
  <2>2. ext \in Extensions /\ pos \in DataStart .. Dtd(ext)  BY <2>1 DEF Walked
  <2>3. Dtd(ext) \in DataStart .. MaxOffset /\ MaxOffset = BlockSize - 1 /\ Dtd(ext) \in Nat
    BY <1>5, <2>2, ExtensionFacts
  <2>4. ext \in 0 .. NumExtensions - 1  BY <2>2 DEF Extensions
  <2>5. ext < NumExtensions  BY <1>5, <2>4 DEF Byte
  <2>. QED BY <1>5, <2>2, <2>3, <2>5 DEF DataStart
<1>7. ext' \in Byte /\ pos' \in 0 .. BlockSize
  <2>0. ext \in 0 .. 255 /\ pos \in 0 .. BlockSize /\ NumExtensions \in 0 .. 255
    BY <1>5 DEF TypeOK, Byte
  <2>1. CASE UNCHANGED vars  BY <2>0, <2>1 DEF Byte, vars
  <2>2. CASE (\E q \in Queries : Begin(q)) \/ Finish
    BY <1>5, <2>2 DEF Begin, Finish, End, Byte
  <2>3. CASE Extension
    <3>1. ext < NumExtensions /\ ((pos' = 4 /\ ext' = ext) \/ (ext' = ext + 1 /\ pos' = pos))
      BY <2>3, Zenon DEF Extension, DataStart
    <3>2. ext + 1 \in 0 .. 255 /\ 4 \in 0 .. BlockSize  BY <1>5, <2>0, <3>1
    <3>. QED BY <2>0, <3>1, <3>2, Zenon DEF Byte
  <2>4. CASE LeaveExtension
    <3>1. pos > 0 /\ ext' = ext + 1 /\ pos' = 0  BY <2>4 DEF LeaveExtension
    <3>. QED BY <1>5, <1>6, <3>1 DEF Byte
  <2>5. CASE DataBlock
    <3>1. pos > 0 /\ Within(ext, pos)  BY <2>5 DEF DataBlock, InCollection
    <3>2. (ext' = 0 /\ pos' = 0) \/ (ext' = ext /\ pos' = DataEnd(ext, pos))
      BY <2>5 DEF DataBlock, End
    <3>3. DataEnd(ext, pos) <= BlockSize  BY <3>1 DEF Within
    <3>4. DataEnd(ext, pos) \in Nat
      <4>1. LengthAt(ext, pos) \in Nat  BY <1>5, PlacesInBlock
      <4>. QED BY <1>5, <4>1 DEF DataEnd
    <3>5. DataEnd(ext, pos) \in 0 .. BlockSize  BY <1>5, <3>3, <3>4
    <3>6. 0 \in 0 .. 255 /\ 0 \in 0 .. BlockSize  BY <1>5
    <3>. QED BY <2>0, <3>2, <3>5, <3>6, Zenon DEF Byte
  <2>. QED BY <2>1, <2>2, <2>3, <2>4, <2>5 DEF Next, Walk
<1>8. mask' \subseteq TvNames
  <2>1. \A b : MaskOf(b) \subseteq TvNames  BY TvTyped DEF MaskOf, TvOf
  <2>2. CASE DataBlock
    <3>. DEFINE b == BlockAt(ext, pos)
    <3>1. mask' = IF query = "mask" THEN mask \cup MaskOf(b) ELSE mask
      BY <2>2, Visiting
    <3>. HIDE DEF b
    <3>. QED BY <2>1, <3>1 DEF TypeOK
  <2>3. CASE ~DataBlock
    BY <2>3 DEF TypeOK, Next, Begin, Walk, Finish, Extension, LeaveExtension, vars, results
  <2>. QED BY <2>2, <2>3
<1>9. hdr' \subseteq HdrStandards
  <2>1. \A b : HdrIn(b) \subseteq HdrStandards
    BY DEF HdrIn, HdrOf, Eotf, Vendor, HdrStandards
  <2>2. CASE DataBlock
    <3>. DEFINE b == BlockAt(ext, pos)
    <3>1. hdr' = IF query = "hdr" THEN hdr \cup HdrIn(b) ELSE hdr
      BY <2>2, Visiting
    <3>. HIDE DEF b
    <3>. QED BY <2>1, <3>1 DEF TypeOK
  <2>3. CASE ~DataBlock
    BY <2>3 DEF TypeOK, Next, Begin, Walk, Finish, Extension, LeaveExtension, vars, results,
                HdrStandards
  <2>. QED BY <2>2, <2>3
<1>10. visited' \subseteq [ext : Byte, at : 0 .. BlockSize, len : 0 .. 31]
  <2>1. CASE DataBlock
    <3>1. pos > 0 /\ visited' = visited \cup {[ext |-> ext, at |-> pos, len |-> LengthAt(ext, pos)]}
      BY <2>1 DEF DataBlock
    <3>2. At(BlockStart(ext) + pos) \in Byte
      <4>1. BlockStart(ext) \in Nat  BY <1>5, PlacesInBlock
      <4>. QED BY <1>5, <4>1, ByteAt
    <3>3. LengthAt(ext, pos) \in 0 .. 31  BY <3>2 DEF LengthAt, Byte
    <3>4. ext \in Byte /\ pos \in 0 .. BlockSize  BY DEF TypeOK
    <3>. QED BY <3>1, <3>3, <3>4 DEF TypeOK
  <2>2. CASE ~DataBlock
    BY <2>2 DEF TypeOK, Next, Begin, Walk, Finish, Extension, LeaveExtension, vars, results
  <2>. QED BY <2>1, <2>2
<1>. QED BY <1>1, <1>2, <1>3, <1>4, <1>7, <1>8, <1>9, <1>10 DEF TypeOK

\* Every variable keeps its type: what is reported is a TV resolution, a
\* setting or an HDR standard, and the walk stays within 255 extensions and the
\* length of a block.
THEOREM WellTyped == Spec => []TypeOK
<1>1. Init => TypeOK
  <2>1. 0 \in Byte /\ 0 \in 0 .. BlockSize  BY EdidAssumption DEF Byte
  <2>2. << >> \in Seq(SettingNames)  BY EmptyList DEF Lists
  <2>3. \A S : {} \subseteq S  OBVIOUS
  <2>4. "none" \in Queries \cup {"none"} /\ FALSE \in BOOLEAN  OBVIOUS
  <2>. QED BY <2>1, <2>2, <2>3, <2>4, Zenon DEF Init, TypeOK
<1>2. Walked /\ Walked' /\ Collected' /\ Listing' /\ TypeOK /\ [Next]_vars => TypeOK'
  BY TypeStep
<1>. QED BY <1>1, <1>2, WalkedAlways, CollectedAlways, ListingAlways, PTL DEF Spec

\* A step of a walk that goes on leaves an extension or moves on inside one.
Advances ==
  [][query # "none" /\ query' = query =>
       ext' > ext \/ (ext' = ext /\ pos' > pos)]_vars

\* dshalEdidForEachCtaDataBlock moves forward with each data block, even one of
\* length 0, and so comes to an end: there are at most 255 extensions of at most
\* 128 bytes (WellTyped).
THEOREM WalkAdvances == Spec => Advances
<1>1. ASSUME Walked, [Next]_vars, ~UNCHANGED vars, query # "none", query' = query
      PROVE  ext' > ext \/ (ext' = ext /\ pos' > pos)
  <2>1. ext \in Nat /\ pos \in Nat /\ edid \in Seq(Byte)  BY <1>1 DEF Walked, Located
  <2>2. CASE Extension  BY <2>1, <2>2 DEF Extension, DataStart
  <2>3. CASE LeaveExtension  BY <2>1, <2>3 DEF LeaveExtension
  <2>4. CASE DataBlock
    <3>1. pos' = DataEnd(ext, pos) /\ ext' = ext
      BY <1>1, <2>4 DEF DataBlock, End
    <3>2. LengthAt(ext, pos) \in Nat  BY <2>1, PlacesInBlock
    <3>. QED BY <2>1, <3>1, <3>2 DEF DataEnd
  <2>5. ~Finish /\ \A q \in Queries : ~Begin(q)
    BY <1>1 DEF Finish, End, Begin
  <2>6. Extension \/ LeaveExtension \/ DataBlock  BY <1>1, <2>5 DEF Next, Walk
  <2>. QED BY <2>2, <2>3, <2>4, <2>6
<1>2. Walked /\ [Next]_vars =>
        [query # "none" /\ query' = query =>
           ext' > ext \/ (ext' = ext /\ pos' > pos)]_vars
  BY <1>1
<1>. QED BY <1>2, WalkedAlways, PTL DEF Spec, Advances
=============================================================================
