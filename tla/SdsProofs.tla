----------------------------- MODULE SdsProofs -----------------------------
(***************************************************************************)
(* The blocks of an sds string, for every bound and every width of the     *)
(* counters; then, for every text, sdsSplitLen, and for every line         *)
(* sdsSplitArgs.                                                           *)
(***************************************************************************)
EXTENDS SdsSplit, SdsArgs, NaturalFacts, SequenceTheorems, FiniteSetTheorems

\* Every block has a size, so that no block looks like the NULL pointer.
LEMMA UsableOK ==
  ASSUME NEW n \in Int
  PROVE  Usable(n) \in Int /\ Usable(n) > 0
<1>1. CASE n <= 8
  BY <1>1, SMT DEF Usable
<1>2. CASE n > 8
  <2> DEFINE k == (n + 7) \div 8
  <2>1. k \in Int /\ k > 0
    BY <1>2, SMT
  <2>2. Usable(n) = 8 * k
    BY <1>2, SMT DEF Usable
  <2> HIDE DEF k
  <2> QED
    BY <2>1, <2>2, SMT
<1> QED
  BY <1>1, <1>2, SMT

LEMMA BlockOK ==
  ASSUME NEW size \in Int
  PROVE  BlockOf(size) \in Int /\ BlockOf(size) > 0
<1>1. size + PREFIX_SIZE \in Int
  BY SMT DEF PREFIX_SIZE
<1> QED
  BY <1>1, UsableOK DEF BlockOf

-----------------------------------------------------------------------------
(* One string.                                                             *)

Str      == [len : Int, free : Int, block : Int]
Printing == [size : Int, heap : BOOLEAN, n : Nat]

\* The blocks there are, by what points to them.
Blocks(s, printf) == (IF s = Null THEN 0 ELSE 1) + (IF printf.heap THEN 1 ELSE 0)

\* A string has a block; a call of sdsCatVPrintf has a string to append to.
IInv == /\ sds \in Str /\ printing \in Printing
        /\ sds = Null \/ sds.block > 0
        /\ printing = NotPrinting \/ sds # Null
        /\ mem.live = Blocks(sds, printing)

LEMMA InUIntInt == ASSUME NEW x \in Int PROVE InUInt(x) \in Int
BY SdsAssumption, SMT DEF InUInt

LEMMA InSizeTInt == ASSUME NEW x \in Int PROVE InSizeT(x) \in Int
BY SizeTAssumption, SMT DEF InSizeT

LEMMA NewLenInt ==
  ASSUME NEW s \in Str, NEW add \in Int
  PROVE  NewLen(s, add) \in Int
<1>1. s.len + add \in Int
  BY SMT DEF Str
<1>2. InSizeT(s.len + add) \in Int
  BY <1>1, InSizeTInt
<1> QED
  BY <1>2, SdsAssumption, SMT DEF NewLen

\* A string with a block.
LEMMA HasBlock ==
  ASSUME NEW len \in Int, NEW free \in Int, NEW block \in Int, block > 0
  PROVE  LET s == [len |-> len, free |-> free, block |-> block]
         IN  s \in Str /\ s # Null /\ s.block > 0
BY SMT DEF Str, Null

\* Making room moves a string from one block to another.
LEMMA RoomForOK ==
  ASSUME NEW s \in Str, s.block > 0, NEW add \in Int
  PROVE  RoomFor(s, add) \in Str /\ RoomFor(s, add).block > 0
<1> DEFINE b == ReBlockOf(HDR + NewLen(s, add) + 1)
<1>1. HDR + NewLen(s, add) + 1 \in Int
  BY NewLenInt, SMT DEF HDR
<1>2. b \in Int /\ b > 0
  BY <1>1, UsableOK DEF ReBlockOf
<1>3. RoomFor(s, add) = IF Grows(s, add) THEN [s EXCEPT !.block = b] ELSE s
  BY DEF RoomFor, Roomier
<1> HIDE DEF b
<1> QED
  BY <1>2, <1>3, SMT DEF Str

LEMMA ReallocOK ==
  ASSUME NEW m, NEW block, block # 0, NEW size
  PROVE  zre_alloc(m, block, size).live = m.live
BY DEF zre_alloc, Released

LEMMA MemForOK ==
  ASSUME NEW m, NEW s \in Str, s.block > 0, NEW add
  PROVE  MemFor(m, s, add).live = m.live
<1>1. s.block # 0
  BY SMT DEF Str
<1> QED
  BY <1>1, ReallocOK DEF MemFor

\* What any call that appends or replaces does.
LEMMA RewriteOK ==
  ASSUME IInv, sds # Null, NEW add \in Int, NEW len \in Int, NEW free \in Int, NEW end \in Int,
         Rewrite(add, len, free, end)
  PROVE  /\ sds' \in Str /\ sds' # Null /\ sds'.block > 0
         /\ MemFor(mem, sds, add).live = mem.live
<1>1. RoomFor(sds, add).block \in Int /\ RoomFor(sds, add).block > 0
  BY RoomForOK DEF IInv, Str
<1>2. sds' = [len |-> len, free |-> free, block |-> RoomFor(sds, add).block]
  BY DEF Rewrite
<1> QED
  BY <1>1, <1>2, HasBlock, MemForOK DEF IInv

\* The same, of a call that is one step of the string.
LEMMA WriteOK ==
  ASSUME IInv, Alive, NEW add \in Int, NEW len \in Int, NEW free \in Int, NEW end \in Int,
         Write(add, len, free, end)
  PROVE  IInv'
<1>1. Rewrite(add, len, free, end) /\ mem' = MemFor(mem, sds, add) /\ printing' = printing
  BY DEF Write
<1>2. sds # Null
  BY DEF Alive
<1>3. /\ sds' \in Str /\ sds' # Null /\ sds'.block > 0
      /\ mem'.live = mem.live
  BY <1>1, <1>2, RewriteOK
<1> QED
  BY <1>1, <1>2, <1>3 DEF IInv, Blocks

\* And of one that leaves the block alone.
LEMMA InPlace ==
  ASSUME IInv, Alive, NEW len \in Int, NEW free \in Int,
         sds' = [len |-> len, free |-> free, block |-> sds.block],
         UNCHANGED <<mem, printing>>
  PROVE  IInv'
<1>1. sds # Null /\ sds.block \in Int /\ sds.block > 0
  BY DEF Alive, IInv, Str
<1>2. sds' \in Str /\ sds' # Null /\ sds'.block > 0
  BY <1>1, HasBlock
<1> QED
  BY <1>1, <1>2 DEF IInv, Blocks

\* A number has at most MaxDigits digits and a sign.
LEMMA NumLenOK ==
  ASSUME NEW v \in Int
  PROVE  NumLen(v) \in 0..MaxLen
<1> DEFINE size == IF v < 0 THEN -v ELSE v
           K    == {k \in 1..MaxDigits - 1 : size >= 10^k}
<1>1. /\ IsFiniteSet(1..MaxDigits - 1)
      /\ Cardinality(1..MaxDigits - 1) = MaxDigits - 1
  BY FS_Interval, SdsAssumption, SMT
<1>2. Cardinality(K) <= MaxDigits - 1 /\ IsFiniteSet(K)
  BY <1>1, FS_Subset, K \subseteq 1..MaxDigits - 1
<1>3. Cardinality(K) \in Nat
  BY <1>2, FS_CardinalityType
<1>4. NumLen(v) = IF v < 0 THEN 1 + (1 + Cardinality(K)) ELSE 1 + Cardinality(K)
  BY DEF NumLen
<1> HIDE DEF K
<1> QED
  BY <1>2, <1>3, <1>4, SdsAssumption, SMT

-----------------------------------------------------------------------------
(* One lemma per operation.                                                *)

LEMMA LengthsOK == Lengths \subseteq Nat
BY SdsAssumption, SMT DEF Lengths

LEMMA NewLenOK ==
  ASSUME IInv, NEW n \in Lengths, sdsNewLen(n)
  PROVE  IInv'
<1>1. HDR + n + 1 \in Int /\ n \in Int
  BY LengthsOK, SMT DEF HDR
<1>2. BlockOf(HDR + n + 1) \in Int /\ BlockOf(HDR + n + 1) > 0
  BY <1>1, BlockOK
<1>3. sds' \in Str /\ sds' # Null /\ sds'.block > 0
  BY <1>1, <1>2, HasBlock DEF sdsNewLen
<1>4. /\ printing' = printing /\ printing = NotPrinting /\ sds = Null
      /\ mem'.live = mem.live + 1
  BY DEF sdsNewLen, IInv, zmalloc
<1> QED
  BY <1>3, <1>4, SMT DEF IInv, Blocks, NotPrinting

LEMMA FromLongLongOK ==
  ASSUME IInv, NEW v \in Int, sdsFromLongLong(v)
  PROVE  IInv'
BY NumLenOK, NewLenOK DEF sdsFromLongLong, Lengths

LEMMA FreeOK == ASSUME IInv, sdsFree PROVE IInv'
<1>1. /\ printing' = printing /\ printing = NotPrinting /\ sds # Null /\ sds' = Null
      /\ mem'.live = mem.live - 1
  BY DEF sdsFree, Alive, zfree, Released
<1>2. Null \in Str
  BY SMT DEF Null, Str
<1> QED
  BY <1>1, <1>2, SMT DEF IInv, Blocks, NotPrinting

LEMMA RemoveFreeSpaceOK == ASSUME IInv, sdsRemoveFreeSpace PROVE IInv'
<1>1. sds # Null /\ sds.block # 0 /\ sds.len \in Int
  BY SMT DEF sdsRemoveFreeSpace, Alive, IInv, Str
<1>2. HDR + sds.len \in Int
  BY <1>1, SMT DEF HDR
<1>3. ReBlockOf(HDR + sds.len) \in Int /\ ReBlockOf(HDR + sds.len) > 0
  BY <1>2, UsableOK DEF ReBlockOf
<1>4. sds' \in Str /\ sds' # Null /\ sds'.block > 0
  BY <1>1, <1>3, HasBlock DEF sdsRemoveFreeSpace
<1>5. mem'.live = mem.live /\ printing' = printing
  BY <1>1, ReallocOK DEF sdsRemoveFreeSpace
<1> QED
  BY <1>1, <1>4, <1>5 DEF IInv, Blocks

LEMMA CatLenOK == ASSUME IInv, NEW n \in Lengths, sdsCatLen(n) PROVE IInv'
<1>1. n \in Int /\ sds.len \in Int /\ sds.free \in Int
  BY LengthsOK, SMT DEF IInv, Str
<1>2. sds.len + n \in Int /\ sds.free - n \in Int
  BY <1>1, SMT
<1> QED
  BY <1>1, <1>2, InUIntInt, WriteOK DEF sdsCatLen

LEMMA PrintfBeginsOK ==
  ASSUME IInv, NEW f \in {1, STATIC_BUF}, NEW n \in Lengths, PrintfBegins(f, n)
  PROVE  IInv'
<1>1. 2 * f \in Int /\ STATIC_BUF \in Int /\ n \in Nat
  BY LengthsOK, SdsAssumption, SMT
<1>2. UNCHANGED sds /\ sds # Null /\ printing = NotPrinting
  BY DEF PrintfBegins, Alive
<1>3. CASE 2 * f > STATIC_BUF
  <2>1. printing' = [size |-> 2 * f, heap |-> TRUE, n |-> n] /\ mem'.live = mem.live + 1
    BY <1>3 DEF PrintfBegins, zmalloc
  <2>2. printing' \in Printing /\ printing'.heap = TRUE
    BY <1>1, <2>1 DEF Printing
  <2> QED
    BY <1>2, <2>1, <2>2, SMT DEF IInv, Blocks, NotPrinting
<1>4. CASE ~(2 * f > STATIC_BUF)
  <2>1. printing' = [size |-> STATIC_BUF, heap |-> FALSE, n |-> n] /\ mem' = mem
    BY <1>4 DEF PrintfBegins
  <2>2. printing' \in Printing /\ printing'.heap = FALSE
    BY <1>1, <2>1 DEF Printing
  <2> QED
    BY <1>2, <2>1, <2>2, SMT DEF IInv, Blocks, NotPrinting
<1> QED
  BY <1>3, <1>4

\* The buffer on the heap is one block.
LEMMA BufFreedOK ==
  ASSUME NEW m, m.live \in Int
  PROVE  BufFreed(m).live = m.live - (IF printing.heap THEN 1 ELSE 0)
BY SMT DEF BufFreed, zfree, Released

LEMMA PrintfGrowsOK == ASSUME IInv, PrintfGrows PROVE IInv'
<1>1. /\ printing.size \in Int /\ printing.n \in Nat /\ mem.live \in Int /\ sds # Null
      /\ printing.heap \in BOOLEAN
  BY SMT DEF IInv, Printing, Blocks, PrintfGrows
<1>2. 2 * printing.size \in Int
  BY <1>1, SMT
<1>3. printing' = [size |-> 2 * printing.size, heap |-> TRUE, n |-> printing.n] /\ UNCHANGED sds
  BY DEF PrintfGrows
<1>4. printing' \in Printing /\ printing'.heap = TRUE
  BY <1>1, <1>2, <1>3 DEF Printing
<1>5. mem'.live = (mem.live - (IF printing.heap THEN 1 ELSE 0)) + 1
  BY <1>1, BufFreedOK DEF PrintfGrows, zmalloc
<1> QED
  BY <1>1, <1>3, <1>4, <1>5, SMT DEF IInv, Blocks

LEMMA PrintfEndsOK == ASSUME IInv, PrintfEnds PROVE IInv'
<1> DEFINE n == printing.n
<1>1. /\ n \in Int /\ sds.len \in Int /\ sds.free \in Int /\ sds # Null /\ mem.live \in Int
      /\ printing.heap \in BOOLEAN
  BY SMT DEF IInv, Str, Printing, PrintfEnds, Blocks
<1>2. sds.len + n \in Int /\ sds.free - n \in Int
  BY <1>1, SMT
<1>3. Rewrite(n, InUInt(sds.len + n), InUInt(sds.free - n), sds.len + n)
  BY DEF PrintfEnds
<1>4. /\ sds' \in Str /\ sds' # Null /\ sds'.block > 0
      /\ MemFor(mem, sds, n).live = mem.live
  BY <1>1, <1>2, <1>3, InUIntInt, RewriteOK
<1>5. mem'.live = mem.live - (IF printing.heap THEN 1 ELSE 0)
  BY <1>1, <1>4, BufFreedOK DEF PrintfEnds
<1>6. printing' = NotPrinting /\ NotPrinting \in Printing /\ NotPrinting.heap = FALSE
  BY SMT DEF PrintfEnds, NotPrinting, Printing
<1> QED
  BY <1>1, <1>4, <1>5, <1>6, SMT DEF IInv, Blocks

LEMMA CopyLenOK == ASSUME IInv, NEW n \in Lengths, sdsCopyLen(n) PROVE IInv'
<1>1. n \in Int /\ sds.len \in Int /\ sds.free \in Int
  BY LengthsOK, SMT DEF IInv, Str
<1>2. Total(sds) \in Int
  BY <1>1, InUIntInt, SMT DEF Total
<1>3. Total(sds) - n \in Int /\ n - sds.len \in Int
  BY <1>1, <1>2, SMT
<1>4. InUInt(Total(sds) - n) \in Int /\ CopyRoom(n) \in Int
  BY <1>3, InUIntInt, InSizeTInt, SMT DEF CopyRoom
<1> QED
  BY <1>1, <1>4, WriteOK DEF sdsCopyLen

LEMMA GrowZeroOK == ASSUME IInv, NEW n \in Lengths, sdsGrowZero(n) PROVE IInv'
<1>1. n \in Int /\ sds.len \in Int /\ sds.free \in Int
  BY LengthsOK, SMT DEF IInv, Str
<1>2. Total(sds) \in Int
  BY <1>1, InUIntInt, SMT DEF Total
<1>3. Total(sds) - n \in Int /\ n - sds.len \in Int
  BY <1>1, <1>2, SMT
<1> QED
  BY <1>1, <1>3, InUIntInt, WriteOK DEF sdsGrowZero

\* Two rooms may be made, one after the other.
LEMMA CatFmtOK ==
  ASSUME IInv, NEW d \in Directive, NEW l \in Lengths, sdsCatFmt(d, l)
  PROVE  IInv'
<1> DEFINE one  == IF sds.free = 0 THEN 1 ELSE 0
           s    == RoomFor(sds, one)
           w    == Wanted(d, s, l)
           t    == RoomFor(s, w)
           free == IF d \in {"%s", "%i"} THEN t.free + l ELSE t.free - l
<1>1. /\ l \in Int /\ sds \in Str /\ sds # Null /\ sds.block > 0
      /\ printing = NotPrinting
  BY LengthsOK, SMT DEF IInv, sdsCatFmt, Alive
<1>2. /\ mem' = MemFor(MemFor(mem, sds, one), s, w) /\ printing' = printing
      /\ sds' = [len |-> InUInt(t.len + l), free |-> InUInt(free), block |-> t.block]
  BY Zenon DEF sdsCatFmt
<1>3. one \in Int
  OBVIOUS
<1> HIDE DEF one
<1>4. s \in Str /\ s.block > 0 /\ MemFor(mem, sds, one).live = mem.live
  BY <1>1, <1>3, RoomForOK, MemForOK
<1> HIDE DEF s
<1>5. w \in Int
  BY <1>1, SMT DEF Wanted
<1> HIDE DEF w
<1>6. t \in Str /\ t.block > 0 /\ mem'.live = mem.live
  BY <1>2, <1>4, <1>5, RoomForOK, MemForOK
<1> HIDE DEF t
<1>7. t.len + l \in Int /\ free \in Int /\ t.block \in Int
  BY <1>1, <1>6, SMT DEF Str
<1> HIDE DEF free
<1>8. sds' \in Str /\ sds' # Null /\ sds'.block > 0
  BY <1>2, <1>6, <1>7, InUIntInt, HasBlock
<1> QED
  BY <1>1, <1>2, <1>6, <1>8 DEF IInv, Blocks

\* A cut leaves n of the characters.
LEMMA CutOK ==
  ASSUME IInv, Alive, NEW n \in Int,
         sds' = [len |-> n, free |-> InUInt(sds.free + InUInt(sds.len - n)), block |-> sds.block],
         UNCHANGED <<mem, printing>>
  PROVE  IInv'
<1>1. sds.len - n \in Int /\ sds.free \in Int
  BY SMT DEF IInv, Str
<1>2. sds.free + InUInt(sds.len - n) \in Int
  BY <1>1, InUIntInt, SMT
<1> QED
  BY <1>2, InUIntInt, InPlace

LEMMA IncrLenOK ==
  ASSUME IInv, NEW incr \in Int, sdsIncrLen(incr)
  PROVE  IInv'
<1>1. sds.len + incr \in Int /\ sds.free - incr \in Int
  BY SMT DEF IInv, Str
<1> QED
  BY <1>1, InUIntInt, InPlace DEF sdsIncrLen, Put

LEMMA RangeOK ==
  ASSUME IInv, NEW first \in Int, NEW end \in Int, sdsRange(first, end)
  PROVE  IInv'
<1>1. Kept(FromEnd(first), FromEnd(end)) \in Int
  BY SMT DEF IInv, Str, FromEnd, Kept
<1> QED
  BY <1>1, CutOK DEF sdsRange, Cut, Put

LEMMA ShorterOK ==
  ASSUME IInv, NEW n \in Lengths, sdsTrim(n) \/ sdsUpdateLen(n) \/ sdsClear
  PROVE  IInv'
<1>1. n \in Int /\ 0 \in Int
  BY LengthsOK
<1> QED
  BY <1>1, CutOK DEF sdsTrim, sdsUpdateLen, sdsClear, Cut, Put

-----------------------------------------------------------------------------
(* Every step of a string.                                                 *)

LEMMA InitOK == ASSUME MemInit, SdsInit PROVE IInv
<1>1. Null \in Str /\ NotPrinting \in Printing
  BY SMT DEF Null, Str, NotPrinting, Printing
<1> QED
  BY <1>1, SMT DEF MemInit, SdsInit, IInv, Blocks, NotPrinting

LEMMA NextOK == ASSUME IInv, [SdsNext]_svars PROVE IInv'
<1>1. CASE UNCHANGED svars
  BY <1>1 DEF svars, IInv, Blocks
<1>2. ASSUME NEW n \in Lengths, sdsNewLen(n) \/ sdsCatLen(n) \/ sdsCopyLen(n) \/ sdsGrowZero(n)
      PROVE  IInv'
  BY <1>2, NewLenOK, CatLenOK, CopyLenOK, GrowZeroOK
<1>3. ASSUME NEW n \in Lengths, sdsTrim(n) \/ sdsUpdateLen(n) PROVE IInv'
  BY <1>3, ShorterOK
<1>4. CASE sdsClear
  <2>1. 0 \in Lengths
    BY SdsAssumption, SMT DEF Lengths
  <2> QED
    BY <1>4, <2>1, ShorterOK
<1>5. ASSUME NEW f \in {1, STATIC_BUF}, NEW n \in Lengths, PrintfBegins(f, n) PROVE IInv'
  BY <1>5, PrintfBeginsOK
<1>6. ASSUME NEW v \in {-10, -9, 9, 10}, sdsFromLongLong(v) PROVE IInv'
  <2>1. v \in Int
    BY SMT
  <2> QED
    BY <1>6, <2>1, FromLongLongOK
<1>7. ASSUME NEW n \in -MaxLen..MaxLen, sdsIncrLen(n) PROVE IInv'
  <2>1. n \in Int
    BY SdsAssumption, SMT
  <2> QED
    BY <1>7, <2>1, IncrLenOK
<1>8. ASSUME NEW first \in -MaxLen..MaxLen, NEW end \in -MaxLen..MaxLen, sdsRange(first, end)
      PROVE  IInv'
  <2>1. first \in Int /\ end \in Int
    BY SdsAssumption, SMT
  <2> QED
    BY <1>8, <2>1, RangeOK
<1>9. ASSUME NEW d \in Directive, NEW l \in Lengths, sdsCatFmt(d, l) PROVE IInv'
  BY <1>9, CatFmtOK
<1> QED
  BY <1>1, <1>2, <1>3, <1>4, <1>5, <1>6, <1>7, <1>8, <1>9, PrintfGrowsOK, PrintfEndsOK,
     FreeOK, RemoveFreeSpaceOK DEF SdsNext

\* Whatever is done to a string, of whatever length and with whatever header, the
\* allocator's blocks are the string and the buffer of a running sdsCatVPrintf:
\* no other is left behind (BlocksAccounted).
THEOREM BlocksAccountedAlways == SdsSpec => []BlocksAccounted
<1>1. MemInit /\ SdsInit => IInv
  BY InitOK
<1>2. IInv /\ [SdsNext]_svars => IInv'
  BY NextOK
<1>3. IInv => BlocksAccounted
  BY DEF IInv, Blocks, BlocksAccounted
<1> QED
  BY <1>1, <1>2, <1>3, PTL DEF SdsSpec

-----------------------------------------------------------------------------
(* The tokens of sdsSplitLen.                                              *)

\* k is how the sum of s comes about, step by step.
Sums(k, s) == /\ TokenTotal(s) = k[Len(s)] /\ k[0] = 0
              /\ \A n \in 1..Len(s) : k[n] = k[n - 1] + s[n]
              /\ \A n \in 0..Len(s) : k[n] \in Int

LEMMA SumSteps ==
  ASSUME NEW s \in Seq(Int)
  PROVE  \E k : Sums(k, s)
<1> DEFINE N == Len(s)
           G == [v \in Int \X Nat |-> IF v[2] \in 1..N THEN v[1] + s[v[2]] ELSE v[1]]
           sum[n \in 0..N] == IF n = 0 THEN 0 ELSE sum[n - 1] + s[n]
<1>1. N \in Nat /\ \A n \in 1..N : s[n] \in Int
  BY LenProperties, ElementOfSeq
<1>2. 0 \in Int /\ G \in [Int \X Nat -> Int]
  <2>1. \A v \in Int \X Nat : v[1] \in Int
    OBVIOUS
  <2>2. \A v \in Int \X Nat : v[2] \in 1..N => v[1] + s[v[2]] \in Int
    BY <1>1, <2>1
  <2> QED
    BY <2>1, <2>2
<1>3. PICK f \in [0..N -> Int] : Recursive(f, N, 0, G)
  <2> HIDE DEF G, N
  <2> QED
    BY <1>1, <1>2, RecursionExists
<1>4. \A n \in 0..N : f[n] = IF n = 0 THEN 0 ELSE f[n - 1] + s[n]
  <2>1. ASSUME NEW n \in 0..N, n # 0 PROVE f[n] = f[n - 1] + s[n]
    <3>1. n \in 1..N /\ n \in Nat /\ n - 1 \in 0..N
      BY <1>1, <2>1
    <3>2. f[n - 1] \in Int /\ f[n] = G[<<f[n - 1], n>>]
      BY <1>3, <3>1 DEF Recursive
    <3> HIDE DEF N
    <3> QED
      BY <3>1, <3>2
  <2> HIDE DEF G, N
  <2> QED
    BY <1>3, <2>1 DEF Recursive
<1>5. f = [n \in 0..N |-> IF n = 0 THEN 0 ELSE f[n - 1] + s[n]]
  <2> HIDE DEF G, N
  <2>1. f = [n \in 0..N |-> f[n]]
    OBVIOUS
  <2> QED
    BY <1>4, <2>1
<1>6. sum = [n \in 0..N |-> IF n = 0 THEN 0 ELSE sum[n - 1] + s[n]]
  <2> HIDE DEF G, N
  <2> QED
    BY <1>5
<1>7. TokenTotal(s) = sum[Len(s)]
  BY DEF TokenTotal
<1> HIDE DEF G, sum
<1>8. sum[0] = 0 /\ \A n \in 1..N : sum[n] = sum[n - 1] + s[n]
  <2>1. 0 \in 0..N /\ \A n \in 1..N : n \in 0..N /\ n # 0
    BY <1>1
  <2> HIDE DEF N
  <2> QED
    BY <1>6, <2>1
<1>9. \A n \in 0..N : sum[n] \in Int
  <2>1. ASSUME NEW n \in 1..N, sum[n - 1] \in Int PROVE sum[n] \in Int
    <3>1. s[n] \in Int
      BY <1>1
    <3>2. sum[n] = sum[n - 1] + s[n]
      BY <1>8
    <3> HIDE DEF N
    <3> QED
      BY <2>1, <3>1, <3>2
  <2>2. sum[0] \in Int
    BY <1>8
  <2> HIDE DEF N
  <2> QED
    BY <1>1, <2>1, <2>2, RecursionStays, Zenon
<1>10. Sums(sum, s)
  BY <1>7, <1>8, <1>9 DEF Sums
<1> QED
  BY <1>10

LEMMA TotalNone == TokenTotal(<<>>) = 0
<1>1. <<>> \in Seq(Int)
  BY EmptySeq
<1>2. PICK k : Sums(k, <<>>)
  BY <1>1, SumSteps, Zenon
<1> QED
  BY <1>2, EmptySeq DEF Sums

\* One token more.
LEMMA TotalAppend ==
  ASSUME NEW s \in Seq(Int), NEW x \in Int
  PROVE  TokenTotal(s) \in Int /\ TokenTotal(Append(s, x)) = TokenTotal(s) + x
<1> DEFINE u == Append(s, x)
           N == Len(s)
<1>1. /\ u \in Seq(Int) /\ Len(u) = N + 1 /\ N \in Nat /\ u[N + 1] = x
      /\ \A n \in 1..N : u[n] = s[n]
  BY AppendProperties, LenProperties
<1> HIDE DEF u
<1>2. PICK k : Sums(k, s)
  BY SumSteps, Zenon
<1>3. PICK l : Sums(l, u)
  BY <1>1, SumSteps, Zenon
<1>4. \A n \in 0..N : l[n] = k[n]
  <2> DEFINE T == { n \in 0..N : l[n] = k[n] }
  <2>1. 0 \in T
    BY <1>1, <1>2, <1>3 DEF Sums
  <2>2. ASSUME NEW n \in 0..N - 1, n \in T PROVE n + 1 \in T
    <3>1. n + 1 \in 1..N /\ n + 1 \in 1..N + 1 /\ (n + 1) - 1 = n /\ n + 1 \in 0..N
      BY <1>1
    <3> HIDE DEF N
    <3>2. k[n + 1] = k[n] + s[n + 1]
      BY <1>2, <3>1 DEF N, Sums
    <3>3. l[n + 1] = l[n] + u[n + 1]
      BY <1>1, <1>3, <3>1 DEF Sums
    <3>4. u[n + 1] = s[n + 1]
      BY <1>1, <3>1
    <3> QED
      BY <2>2, <3>1, <3>2, <3>3, <3>4
  <2> HIDE DEF T, N
  <2>3. 0..N \subseteq T
    BY <1>1, <2>1, <2>2, InductTo
  <2> QED
    BY <2>3 DEF T
<1>5. l[N + 1] = l[N] + x
  <2>1. N + 1 \in 1..N + 1 /\ (N + 1) - 1 = N
    BY <1>1
  <2> HIDE DEF N
  <2> QED
    BY <1>1, <1>3, <2>1 DEF Sums
<1>6. l[N] = k[N] /\ k[N] \in Int
  BY <1>1, <1>2, <1>4 DEF Sums
<1> QED
  BY <1>1, <1>2, <1>3, <1>5, <1>6 DEF Sums, u

\* What a text consists of, the separators that are written into it included.
Letter == STRING \cup {"sep"}

LEMMA TextIsText == Seq(STRING) \subseteq Seq(Letter)
<1> SUFFICES ASSUME NEW s \in Seq(STRING) PROVE s \in Seq(Letter)
  OBVIOUS
<1>1. s \in [1..Len(s) -> STRING] /\ Len(s) \in Nat
  OBVIOUS
<1>2. s \in [1..Len(s) -> Letter]
  BY <1>1 DEF Letter
<1> QED
  BY <1>1, <1>2

\* In the loop there is room for one token more, and the tokens and their
\* separators reach up to start.
SplitInv ==
  /\ text \in Seq(Letter) /\ sp_len \in Nat \ {0} /\ j \in Int /\ start \in Int
  /\ tokens \in Seq(Int) /\ slots \in Nat /\ blocks \in Int
  /\ at \in {"enter", "loop", "end", "null", "wild"}
  /\ Len(tokens) <= slots
  /\ at = "enter" => tokens = <<>> /\ start = 0
  /\ at = "loop" => /\ Len(tokens) + 1 <= slots /\ blocks = Len(tokens) + 1
                    /\ TokenTotal(tokens) + Len(tokens) * sp_len = start
  /\ at = "end" /\ tokens # <<>> => /\ TokenTotal(tokens) + (Len(tokens) - 1) * sp_len = Len(text)
                                    /\ blocks = Len(tokens) + 1
  /\ at = "null" => blocks = 0

LEMMA SplitStarts == SplitInit => SplitInv
BY SplitAssumption, EmptySeq, TextIsText DEF SplitInit, SplitInv

LEMMA SplitNone == Len(<<>>) = 0 /\ \A n \in Int : TokenTotal(<<>>) + Len(<<>>) * n = 0
BY EmptySeq, TotalNone

\* A token that is put into the vector.
LEMMA TokenCounts ==
  ASSUME SplitInv, NEW k \in Int, Token(k)
  PROVE  /\ tokens' \in Seq(Int) /\ Len(tokens') = Len(tokens) + 1 /\ Len(tokens) \in Nat
         /\ tokens' # <<>> /\ blocks' = blocks + 1 /\ blocks' \in Int
         /\ TokenTotal(tokens') = TokenTotal(tokens) + (k - start) /\ TokenTotal(tokens) \in Int
<1> DEFINE x == k - start
<1>1. tokens \in Seq(Int) /\ x \in Int /\ tokens' = Append(tokens, x)
      /\ blocks' = blocks + 1 /\ blocks \in Int
  BY DEF SplitInv, Token
<1> HIDE DEF x
<1>2. TokenTotal(tokens) \in Int /\ TokenTotal(tokens') = TokenTotal(tokens) + x
  BY <1>1, TotalAppend
<1>3. Len(tokens) \in Nat /\ Len(tokens') = Len(tokens) + 1 /\ tokens' \in Seq(Int) /\ tokens' # <<>>
  BY <1>1, AppendProperties, LenProperties
<1> QED
  BY <1>1, <1>2, <1>3 DEF x

LEMMA CleanupOK == SplitInv /\ at = "loop" /\ Cleanup => SplitInv'
BY EmptySeq, LenProperties DEF SplitInv, Cleanup

LEMMA SplitSteps == SplitInv /\ [SplitNext]_tvars => SplitInv'
<1> SUFFICES ASSUME SplitInv, [SplitNext]_tvars PROVE SplitInv'
  OBVIOUS
<1>1. CASE SplitBegins
  <2>1. j' \in Int
    <3>1. Len(text) \in Nat
      BY LenProperties DEF SplitInv
    <3> QED
      BY <1>1, <3>1 DEF SplitBegins, SplitInv
  <2>2. FirstSlots \in Nat /\ FirstSlots >= 2
    BY SplitAssumption
  <2> QED
    BY <1>1, <2>1, <2>2, SplitNone DEF SplitBegins, SplitInv
<1>2. CASE SplitOnce
  <2>1. CASE j < 0 /\ at' = "wild" /\ UNCHANGED <<text, sp_len, j, start, tokens, slots, blocks>>
    BY <2>1 DEF SplitInv
  <2>2. CASE Cleanup
    BY <1>2, <2>2, CleanupOK DEF SplitOnce
  <2>3. CASE /\ j >= 0 /\ slots' = Widened
             /\ sp_len = 1 /\ text[j + 1] = "sep" /\ Token(j)
             /\ start' = j + sp_len /\ j' = j + sp_len /\ UNCHANGED <<text, sp_len, at>>
    <3>1. /\ tokens' \in Seq(Int) /\ Len(tokens') = Len(tokens) + 1 /\ Len(tokens) \in Nat
          /\ blocks' = blocks + 1 /\ blocks' \in Int
          /\ TokenTotal(tokens') = TokenTotal(tokens) + (j - start) /\ TokenTotal(tokens) \in Int
      BY <2>3, TokenCounts DEF SplitInv
    <3>2. /\ at = "loop" /\ Len(tokens) + 1 <= slots /\ blocks = Len(tokens) + 1
          /\ TokenTotal(tokens) + Len(tokens) * sp_len = start /\ slots \in Nat
          /\ j \in Int /\ start \in Int
      BY <1>2 DEF SplitOnce, SplitInv
    <3>3. slots' \in Nat /\ Len(tokens') + 1 <= slots'
      BY <2>3, <3>1, <3>2 DEF Widened
    <3>4. TokenTotal(tokens') + Len(tokens') * sp_len' = start'
      BY <2>3, <3>1, <3>2
    <3> QED
      BY <2>3, <3>1, <3>2, <3>3, <3>4 DEF SplitInv
  <2>4. CASE /\ slots' = Widened
             /\ text' = [i \in DOMAIN text |-> IF i - 1 \in j..j + sp_len - 1 THEN "sep" ELSE text[i]]
             /\ j' = j + 1 /\ UNCHANGED <<start, tokens, blocks, sp_len, at>>
    <3>1. text' \in Seq(Letter)
      <4>1. text \in [1..Len(text) -> Letter] /\ Len(text) \in Nat
        BY LenProperties DEF SplitInv
      <4>2. text' \in [1..Len(text) -> Letter]
        <5> DEFINE E(i) == IF i - 1 \in j..j + sp_len - 1 THEN "sep" ELSE text[i]
        <5>1. text' = [i \in 1..Len(text) |-> E(i)]
          BY <2>4, <4>1
        <5>2. ASSUME NEW i \in 1..Len(text) PROVE E(i) \in Letter
          <6>1. text[i] \in Letter /\ "sep" \in Letter
            BY <4>1 DEF Letter
          <6> QED
            BY <6>1, Zenon
        <5> HIDE DEF E
        <5> QED
          BY <5>1, <5>2
      <4> QED
        BY <4>1, <4>2
    <3>2. Len(tokens) \in Nat
      BY LenProperties DEF SplitInv
    <3>3. at = "loop"
      BY <1>2 DEF SplitOnce
    <3>4. slots' \in Nat /\ Len(tokens) + 1 <= slots'
      BY <2>4, <3>2, <3>3 DEF SplitInv, Widened
    <3> QED
      BY <2>4, <3>1, <3>2, <3>3, <3>4 DEF SplitInv
  <2> QED
    BY <1>2, <2>1, <2>2, <2>3, <2>4 DEF SplitOnce
<1>3. CASE SplitLast
  <2>1. CASE Cleanup
    BY <1>3, <2>1, CleanupOK DEF SplitLast
  <2>2. CASE Token(Len(text)) /\ at' = "end" /\ UNCHANGED <<text, sp_len, j, start, slots>>
    <3>1. Len(text) \in Nat
      BY LenProperties DEF SplitInv
    <3>2. /\ tokens' \in Seq(Int) /\ Len(tokens') = Len(tokens) + 1 /\ Len(tokens) \in Nat
          /\ blocks' = blocks + 1 /\ blocks' \in Int
          /\ TokenTotal(tokens') = TokenTotal(tokens) + (Len(text) - start) /\ TokenTotal(tokens) \in Int
      BY <2>2, <3>1, TokenCounts
    <3>3. /\ Len(tokens) + 1 <= slots /\ blocks = Len(tokens) + 1
          /\ TokenTotal(tokens) + Len(tokens) * sp_len = start /\ start \in Int /\ sp_len \in Int
      BY <1>3 DEF SplitLast, SplitInv
    <3>4. TokenTotal(tokens') + (Len(tokens') - 1) * sp_len' = Len(text')
      <4>1. Len(tokens') - 1 = Len(tokens) /\ Len(text') = Len(text) /\ sp_len' = sp_len
        BY <2>2, <3>2
      <4> DEFINE m == Len(tokens) * sp_len
      <4>2. m \in Int
        BY <3>2, <3>3
      <4>3. TokenTotal(tokens) + m = start
        BY <3>3
      <4> HIDE DEF m
      <4>4. TokenTotal(tokens') + m = Len(text)
        BY <3>1, <3>2, <3>3, <4>2, <4>3
      <4> QED
        BY <4>1, <4>4 DEF m
    <3> QED
      BY <2>2, <3>2, <3>3, <3>4 DEF SplitInv
  <2> QED
    BY <1>3, <2>1, <2>2 DEF SplitLast
<1>4. CASE UNCHANGED tvars
  BY <1>4 DEF tvars, SplitInv
<1> QED
  BY <1>1, <1>2, <1>3, <1>4 DEF SplitNext

\* sdsSplitLen writes no token beyond its vector, and its tokens and separators
\* make up the string, wherever the index began and for every separator.
THEOREM TokensFitAlways == SplitSpec => []TokensFit
<1>1. SplitInv => TokensFit
  BY DEF SplitInv, TokensFit
<1> QED
  BY <1>1, SplitStarts, SplitSteps, PTL DEF SplitSpec

-----------------------------------------------------------------------------
(* The arguments of sdsSplitArgs.                                          *)

\* What is in a line or an argument, that which sdsCatRepr and the escapes
\* write included.
Written == Char \cup {"bs", "dq", "sq", "n", "t", "a", "x", "0", "1", "nl", "tab", "bel", "ctl", "byte"}

LEMMA WrittenIsNoMark == "nul" \notin Written /\ "none" \notin Written
BY DEF Written, Char

LEMMA CharIsWritten == Seq(Char) \subseteq Seq(Written)
<1> SUFFICES ASSUME NEW s \in Seq(Char) PROVE s \in Seq(Written)
  OBVIOUS
<1>1. s \in [1..Len(s) -> Char] /\ Len(s) \in Nat
  OBVIOUS
<1>2. s \in [1..Len(s) -> Written]
  BY <1>1 DEF Written
<1> QED
  BY <1>1, <1>2

LEMMA NoneIsNoArgument == None \notin Seq(Written)
<1>1. None[1] = "none" /\ 1 \in 1..Len(None)
  BY DEF None
<1> QED
  BY <1>1, WrittenIsNoMark, ElementOfSeq

LEMMA ReprIsWritten ==
  ASSUME NEW c \in Char PROVE ReprOf(c) \in Seq(Written)
<1>1. c \in Written /\ {"bs", "dq", "n", "t", "a", "x", "0", "1"} \subseteq Written
  BY DEF Written
<1> QED
  BY <1>1 DEF ReprOf

\* The steps of sdsCatRepr: u[n] is what is written before the character n + 1.
Writes(u, s) == /\ sdsCatRepr(s) = Append(u[Len(s)], "dq") /\ u[0] = <<"dq">>
                /\ \A n \in 1..Len(s) : u[n] = u[n - 1] \o ReprOf(s[n])
                /\ \A n \in 0..Len(s) : u[n] \in Seq(Written)

LEMMA WriteSteps ==
  ASSUME NEW s \in Seq(Char)
  PROVE  \E u : Writes(u, s)
<1> DEFINE N == Len(s)
           W == Seq(Written)
           G == [v \in W \X Nat |-> IF v[2] \in 1..N THEN v[1] \o ReprOf(s[v[2]]) ELSE v[1]]
           upTo[i \in 0..N] == IF i = 0 THEN <<"dq">> ELSE upTo[i - 1] \o ReprOf(s[i])
<1>1. N \in Nat /\ \A n \in 1..N : ReprOf(s[n]) \in W
  BY LenProperties, ElementOfSeq, ReprIsWritten
<1>2. <<"dq">> \in W /\ G \in [W \X Nat -> W]
  <2>1. "dq" \in Written
    BY DEF Written
  <2>2. ASSUME NEW v \in W \X Nat PROVE G[v] \in W
    <3>1. v[1] \in W
      OBVIOUS
    <3>2. v[2] \in 1..N => v[1] \o ReprOf(s[v[2]]) \in W
      BY <1>1, <3>1, ConcatProperties
    <3> QED
      BY <3>1, <3>2
  <2>3. <<"dq">> \in W
    BY <2>1
  <2> HIDE DEF W
  <2> QED
    BY <2>2, <2>3
<1>3. PICK f \in [0..N -> W] : Recursive(f, N, <<"dq">>, G)
  <2> HIDE DEF G, N, W
  <2> QED
    BY <1>1, <1>2, RecursionExists
<1>4. \A n \in 0..N : f[n] = IF n = 0 THEN <<"dq">> ELSE f[n - 1] \o ReprOf(s[n])
  <2>1. ASSUME NEW n \in 0..N, n # 0 PROVE f[n] = f[n - 1] \o ReprOf(s[n])
    <3>1. n \in 1..N /\ n \in Nat /\ n - 1 \in 0..N
      BY <1>1, <2>1
    <3>2. f[n - 1] \in W /\ f[n] = G[<<f[n - 1], n>>]
      BY <1>3, <3>1 DEF Recursive
    <3> HIDE DEF N, W
    <3> QED
      BY <3>1, <3>2
  <2> HIDE DEF G, N, W
  <2> QED
    BY <1>3, <2>1 DEF Recursive
<1>5. f = [n \in 0..N |-> IF n = 0 THEN <<"dq">> ELSE f[n - 1] \o ReprOf(s[n])]
  <2> HIDE DEF G, N, W
  <2>1. f = [n \in 0..N |-> f[n]]
    OBVIOUS
  <2> QED
    BY <1>4, <2>1
<1>6. upTo = [n \in 0..N |-> IF n = 0 THEN <<"dq">> ELSE upTo[n - 1] \o ReprOf(s[n])]
  <2> HIDE DEF G, N, W
  <2> QED
    BY <1>5
<1>7. sdsCatRepr(s) = Append(upTo[Len(s)], "dq")
  BY DEF sdsCatRepr
<1> HIDE DEF G, upTo
<1>8. upTo[0] = <<"dq">> /\ \A n \in 1..N : upTo[n] = upTo[n - 1] \o ReprOf(s[n])
  <2>1. 0 \in 0..N /\ \A n \in 1..N : n \in 0..N /\ n # 0
    BY <1>1
  <2> HIDE DEF N
  <2> QED
    BY <1>6, <2>1
<1>9. \A n \in 0..N : upTo[n] \in W
  <2>1. ASSUME NEW n \in 1..N, upTo[n - 1] \in W PROVE upTo[n] \in W
    <3>1. ReprOf(s[n]) \in W /\ upTo[n] = upTo[n - 1] \o ReprOf(s[n])
      BY <1>1, <1>8
    <3> QED
      BY <2>1, <3>1, ConcatProperties
  <2>2. upTo[0] \in W
    BY <1>2, <1>8
  <2> HIDE DEF N, W
  <2> QED
    BY <1>1, <2>1, <2>2, RecursionStays, Zenon
<1>10. Writes(upTo, s)
  BY <1>7, <1>8, <1>9 DEF Writes
<1> QED
  BY <1>10

\* What is written before a character stays as it is.
LEMMA WrittenStays ==
  ASSUME NEW s \in Seq(Char), NEW u, Writes(u, s), NEW i \in 0..Len(s)
  PROVE  /\ Len(u[i]) <= Len(u[Len(s)])
         /\ \A k \in 1..Len(u[i]) : u[Len(s)][k] = u[i][k]
<1> DEFINE N == Len(s)
           T == { d \in 0..N : /\ Len(u[N - d]) <= Len(u[N])
                               /\ \A k \in 1..Len(u[N - d]) : u[N][k] = u[N - d][k] }
<1>1. N \in Nat /\ \A n \in 0..N : u[n] \in Seq(Written) /\ Len(u[n]) \in Nat
  BY LenProperties DEF Writes
<1>2. 0 \in T
  <2>1. N - 0 = N /\ 0 \in 0..N /\ N \in 0..N
    BY <1>1
  <2> HIDE DEF N
  <2> QED
    BY <1>1, <2>1
<1>3. ASSUME NEW d \in 0..N - 1, d \in T PROVE d + 1 \in T
  <2>1. N - d \in 1..N /\ (N - d) - 1 = N - (d + 1) /\ N - (d + 1) \in 0..N /\ d + 1 \in 0..N
    BY <1>1
  <2> DEFINE a == u[N - (d + 1)]
             b == u[N - d]
             r == ReprOf(s[N - d])
  <2>2. b = a \o r /\ a \in Seq(Written) /\ r \in Seq(Written)
    BY <1>1, <2>1, ElementOfSeq, ReprIsWritten DEF Writes
  <2>3. Len(b) = Len(a) + Len(r) /\ Len(r) \in Nat /\ Len(a) \in Nat
        /\ \A k \in 1..Len(a) : b[k] = a[k]
    <3> HIDE DEF a, b, r
    <3> QED
      BY <2>2, ConcatProperties, LenProperties
  <2>4. Len(b) <= Len(u[N]) /\ \A k \in 1..Len(b) : u[N][k] = b[k]
    BY <1>3
  <2>5. Len(u[N]) \in Nat
    BY <1>1
  <2>6. Len(a) <= Len(u[N]) /\ \A k \in 1..Len(a) : u[N][k] = a[k]
    <3> HIDE DEF a, b, r, N
    <3> QED
      BY <2>3, <2>4, <2>5
  <2> QED
    BY <2>1, <2>6
<1> HIDE DEF T
<1>4. 0..N \subseteq T
  BY <1>1, <1>2, <1>3, InductTo
<1>5. N - i \in 0..N /\ N - (N - i) = i
  BY <1>1
<1>6. N - i \in T
  BY <1>4, <1>5
<1> QED
  BY <1>5, <1>6 DEF T

\* Where in the line a character of the string is written, and how it ends.
LEMMA WrittenAt ==
  ASSUME NEW s \in Seq(Char), NEW u, Writes(u, s), line = sdsCatRepr(s)
  PROVE  /\ Len(u[0]) = 1 /\ At(1) = "dq"
         /\ \A i \in 1..Len(s) :
              /\ Len(u[i]) = Len(u[i - 1]) + Len(ReprOf(s[i])) /\ Len(u[i - 1]) \in Nat
              /\ \A k \in 1..Len(ReprOf(s[i])) : At(Len(u[i - 1]) + k) = ReprOf(s[i])[k]
         /\ Len(u[Len(s)]) \in Nat /\ Len(line) = Len(u[Len(s)]) + 1
         /\ At(Len(line)) = "dq" /\ At(Len(line) + 1) = "nul"
         /\ line \in Seq(Written)
<1> DEFINE N == Len(s)
           w == u[N]
<1>1. N \in Nat /\ N \in 0..N /\ 0 \in 0..N /\ \A n \in 0..N : u[n] \in Seq(Written) /\ Len(u[n]) \in Nat
  BY LenProperties DEF Writes
<1>2. "dq" \in Written /\ w \in Seq(Written) /\ line = Append(w, "dq") /\ Len(w) \in Nat
  BY <1>1 DEF Written, Writes
<1> HIDE DEF w
<1>3. /\ line \in Seq(Written) /\ Len(line) = Len(w) + 1 /\ line[Len(w) + 1] = "dq"
      /\ \A k \in 1..Len(w) : line[k] = w[k]
  BY <1>2, AppendProperties
<1>4. Len(line) \in Nat /\ At(Len(line) + 1) = "nul" /\ \A k \in 1..Len(line) : At(k) = line[k]
  BY <1>2, <1>3 DEF At
<1>5. At(Len(line)) = "dq" /\ \A k \in 1..Len(w) : At(k) = w[k]
  BY <1>2, <1>3, <1>4
<1>6. Len(u[0]) = 1 /\ At(1) = "dq"
  <2>1. u[0] = <<"dq">> /\ Len(u[0]) = 1 /\ u[0][1] = "dq" /\ 1 \in 1..Len(u[0])
    BY DEF Writes
  <2>2. Len(u[0]) <= Len(w) /\ \A k \in 1..Len(u[0]) : w[k] = u[0][k]
    BY <1>1, WrittenStays DEF w
  <2>3. w[1] = u[0][1] /\ 1 \in 1..Len(w)
    BY <1>2, <2>1, <2>2
  <2> QED
    BY <1>5, <2>1, <2>3
<1>7. ASSUME NEW i \in 1..N
      PROVE  /\ Len(u[i]) = Len(u[i - 1]) + Len(ReprOf(s[i])) /\ Len(u[i - 1]) \in Nat
             /\ \A k \in 1..Len(ReprOf(s[i])) : At(Len(u[i - 1]) + k) = ReprOf(s[i])[k]
  <2> DEFINE a == u[i - 1]
             r == ReprOf(s[i])
  <2>1. i \in 0..N /\ i - 1 \in 0..N /\ s[i] \in Char
    BY <1>1, ElementOfSeq
  <2>2. u[i] = a \o r /\ a \in Seq(Written) /\ r \in Seq(Written) /\ Len(a) \in Nat /\ Len(r) \in Nat
    BY <1>1, <2>1, ReprIsWritten, LenProperties DEF Writes
  <2>3. Len(u[i]) <= Len(w) /\ \A k \in 1..Len(u[i]) : w[k] = u[i][k]
    BY <1>1, <2>1, WrittenStays DEF w
  <2> HIDE DEF a, r
  <2>4. Len(u[i]) = Len(a) + Len(r)
        /\ \A k \in 1..Len(a) + Len(r) : u[i][k] = IF k <= Len(a) THEN a[k] ELSE r[k - Len(a)]
    BY <2>2, ConcatProperties
  <2>5. ASSUME NEW k \in 1..Len(r) PROVE At(Len(a) + k) = r[k]
    <3>1. /\ Len(a) + k \in 1..Len(a) + Len(r) /\ ~(Len(a) + k <= Len(a))
          /\ (Len(a) + k) - Len(a) = k
      BY <2>2
    <3>2. Len(a) + k \in 1..Len(u[i]) /\ Len(a) + k \in 1..Len(w)
      BY <1>2, <2>2, <2>3, <2>4
    <3> QED
      BY <1>5, <2>3, <2>4, <3>1, <3>2
  <2> QED
    BY <2>2, <2>4, <2>5 DEF a, r
<1> QED
  BY <1>2, <1>3, <1>4, <1>5, <1>6, <1>7 DEF w

-----------------------------------------------------------------------------
\* Room is a number.
LEMMA RoomInt == Room \in Int
<1> DEFINE empty == [len |-> 0, free |-> 0, block |-> BlockOf(HDR + 1)]
<1>1. HDR + 1 \in Int
  BY SMT DEF HDR
<1>2. empty \in Str /\ empty.block > 0
  BY <1>1, BlockOK DEF Str
<1> HIDE DEF empty
<1>3. RoomFor(empty, 1).block \in Int
  BY <1>2, RoomForOK DEF Str
<1>4. Room = RoomFor(empty, 1).block - HDR - 1
  BY DEF Room, empty
<1> QED
  BY <1>3, <1>4, SMT DEF HDR

\* The vector, its arguments and the one being read are the live blocks, and
\* what is read is in the line.
ArgsInv ==
  /\ line \in Seq(Written) /\ p \in 1..Len(line) + 1
  /\ mode \in {"space", "plain", "inq", "insq", "end", "err", "wild"}
  /\ vector \in Seq(Seq(Written))
  /\ current \in Seq(Written) \cup {None}
  /\ mode \in {"plain", "inq", "insq"} => current \in Seq(Written)
  /\ mode \in {"space", "end", "err"} => current = None
  /\ live = IF mode = "err" THEN 0
            ELSE Len(vector) + (IF vector = <<>> THEN 0 ELSE 1) + (IF current = None THEN 0 ELSE 1)

LEMMA NoArguments == <<>> \in Seq(Seq(Written)) /\ Len(<<>>) = 0 /\ <<>> \in Seq(Written)
BY EmptySeq

LEMMA ArgsStarts == ArgsInit => ArgsInv
<1> SUFFICES ASSUME ArgsInit PROVE ArgsInv
  OBVIOUS
<1>1. line \in Seq(Written)
  <2>1. CASE line \in Lines
    BY <2>1, ArgsAssumption, CharIsWritten
  <2>2. CASE content \in Contents /\ line = sdsCatRepr(content)
    <3>1. content \in Seq(Char)
      BY <2>2, ArgsAssumption
    <3>2. PICK u : Writes(u, content)
      BY <3>1, WriteSteps, Zenon
    <3> QED
      BY <2>2, <3>1, <3>2, WrittenAt
  <2> QED
    BY <2>1, <2>2 DEF ArgsInit
<1>2. Len(line) \in Nat
  BY <1>1, LenProperties
<1> QED
  BY <1>1, <1>2, NoArguments DEF ArgsInit, ArgsInv

\* What is read is a character of the line, or the NUL behind it.
LEMMA AtIs ==
  ASSUME line \in Seq(Written), NEW i \in 1..Len(line) + 1
  PROVE  /\ At(i) \in Written \cup {"nul"} /\ Len(line) \in Nat
         /\ At(i) # "nul" => i \in 1..Len(line) /\ i + 1 \in 1..Len(line) + 1 /\ At(i) \in Written
<1>1. Len(line) \in Nat
  BY LenProperties
<1>2. i \in 1..Len(line) => At(i) = line[i] /\ line[i] \in Written
  BY <1>1 DEF At
<1>3. i = Len(line) + 1 => At(i) = "nul"
  BY <1>1 DEF At
<1>4. i \in 1..Len(line) \/ i = Len(line) + 1
  BY <1>1
<1> QED
  BY <1>1, <1>2, <1>3, <1>4

\* An argument that goes on.
LEMMA TakeOK ==
  ASSUME ArgsInv, mode \in {"plain", "inq", "insq"},
         NEW c \in Written, NEW width \in Nat, p + width \in 1..Len(line) + 1, Take(c, width)
  PROVE  ArgsInv'
<1>1. current \in Seq(Written) /\ current' \in Seq(Written)
  <2>1. current \in Seq(Written)
    BY DEF ArgsInv
  <2>2. current' = Append(current, c) \/ current' = current
    BY DEF Take
  <2> QED
    BY <2>1, <2>2, AppendProperties
<1>2. current # None /\ current' # None
  BY <1>1, NoneIsNoArgument
<1>3. CASE mode' = "wild" /\ UNCHANGED <<line, content, p, current, vector, live>>
  BY <1>1, <1>2, <1>3 DEF ArgsInv
<1>4. CASE p' = p + width /\ UNCHANGED <<line, content, mode, vector, live>>
  BY <1>1, <1>2, <1>4 DEF ArgsInv
<1> QED
  BY <1>3, <1>4 DEF Take

LEMMA DoneOK ==
  ASSUME ArgsInv, mode \in {"plain", "inq", "insq"}, Done
  PROVE  ArgsInv'
<1>1. current \in Seq(Written) /\ current # None /\ vector \in Seq(Seq(Written))
  BY NoneIsNoArgument DEF ArgsInv
<1>2. /\ vector' \in Seq(Seq(Written)) /\ Len(vector') = Len(vector) + 1 /\ vector' # <<>>
      /\ Len(vector) \in Nat
  <2>1. vector' = Append(vector, current)
    BY DEF Done
  <2> DEFINE A == Seq(Written)
  <2> HIDE DEF A
  <2> QED
    BY <1>1, <2>1, AppendProperties, LenProperties DEF A
<1>3. vector = <<>> => Len(vector) = 0
  BY EmptySeq
<1>4. p' \in 1..Len(line) + 1
  <2>1. p \in 1..Len(line) + 1 /\ line \in Seq(Written)
    BY DEF ArgsInv
  <2>2. At(p) # "nul" => p + 1 \in 1..Len(line) + 1
    BY <2>1, AtIs
  <2> QED
    BY <2>1, <2>2 DEF Done
<1> QED
  BY <1>1, <1>2, <1>3, <1>4 DEF ArgsInv, Done

LEMMA ErrOK ==
  ASSUME ArgsInv, mode \in {"plain", "inq", "insq"}, Err
  PROVE  ArgsInv'
<1>1. current # None /\ Len(vector) \in Nat
  BY NoneIsNoArgument, LenProperties DEF ArgsInv
<1>2. live' = 0
  BY <1>1 DEF ArgsInv, Err
<1> QED
  BY <1>2, NoArguments DEF ArgsInv, Err

LEMMA EnterOK ==
  ASSUME ArgsInv, mode \in {"plain", "inq", "insq"}, At(p) # "nul",
         NEW quotes \in {"inq", "insq"}, Enter(quotes)
  PROVE  ArgsInv'
<1>1. p + 1 \in 1..Len(line) + 1
  BY AtIs DEF ArgsInv
<1> QED
  BY <1>1 DEF ArgsInv, Enter

LEMMA ArgsSteps == ArgsInv /\ [ArgsNext]_avars => ArgsInv'
<1> SUFFICES ASSUME ArgsInv, [ArgsNext]_avars PROVE ArgsInv'
  OBVIOUS
<1>1. /\ line \in Seq(Written) /\ p \in 1..Len(line) + 1
      /\ \A i \in 1..Len(line) + 1 :
           /\ At(i) \in Written \cup {"nul"} /\ Len(line) \in Nat
           /\ At(i) # "nul" => i \in 1..Len(line) /\ i + 1 \in 1..Len(line) + 1 /\ At(i) \in Written
  BY AtIs DEF ArgsInv
<1>2. {"nl", "tab", "bel", "ctl", "byte", "bs", "sq"} \subseteq Written
  BY DEF Written
<1>3. CASE Skip
  BY <1>1, <1>3, WrittenIsNoMark DEF Skip, IsSpace, ArgsInv
<1>4. CASE Start
  <2>1. current' = <<>> /\ current' \in Seq(Written) /\ current' # None /\ current = None
    BY <1>4, NoArguments, NoneIsNoArgument DEF Start, ArgsInv
  <2>2. Len(vector) \in Nat
    BY LenProperties DEF ArgsInv
  <2>3. mode = "space" /\ mode' = "plain" /\ live' = live + 1 /\ UNCHANGED <<line, content, p, vector>>
    BY <1>4 DEF Start
  <2> QED
    BY <2>1, <2>2, <2>3 DEF ArgsInv
<1>5. CASE Return
  BY <1>5 DEF Return, ArgsInv
<1>6. CASE Plain
  <2> USE <1>6 DEF Plain
  <2>1. CASE IsSpace(At(p)) \/ At(p) = "nul"
    BY <2>1, DoneOK DEF IsSpace
  <2>2. CASE At(p) = "dq"
    BY <2>2, EnterOK DEF IsSpace
  <2>3. CASE At(p) = "sq"
    BY <2>3, EnterOK DEF IsSpace
  <2>4. CASE ~(IsSpace(At(p)) \/ At(p) = "nul") /\ At(p) # "dq" /\ At(p) # "sq"
    BY <1>1, <2>4, TakeOK
  <2> QED
    BY <2>1, <2>2, <2>3, <2>4
<1>7. ASSUME Close, mode \in {"inq", "insq"} PROVE ArgsInv'
  BY <1>7, DoneOK, ErrOK DEF Close
<1>8. CASE InDouble
  <2>0. mode = "inq"
    BY <1>8 DEF InDouble
  <2>1. CASE InHex
    <3>1. Take(Byte(At(p + 2), At(p + 3)), 4)
      BY <1>8, <2>1 DEF InDouble, InHex
    <3>2. p + 1 \in 1..Len(line) + 1
      BY <1>1, <2>1 DEF InHex
    <3>3. p + 2 \in 1..Len(line) + 1
      <4>1. (p + 1) + 1 \in 1..Len(line) + 1
        BY <1>1, <2>1, <3>2 DEF InHex
      <4> QED
        BY <1>1, <4>1
    <3>4. p + 3 \in 1..Len(line) + 1
      <4>1. (p + 2) + 1 \in 1..Len(line) + 1
        BY <1>1, <2>1, <3>3 DEF InHex, IsHex
      <4> QED
        BY <1>1, <4>1
    <3>5. p + 4 \in 1..Len(line) + 1
      <4>1. (p + 3) + 1 \in 1..Len(line) + 1
        BY <1>1, <2>1, <3>4 DEF InHex, IsHex
      <4> QED
        BY <1>1, <4>1
    <3>6. Byte(At(p + 2), At(p + 3)) \in Written
      BY <1>2 DEF Byte
    <3> QED
      BY <2>0, <3>1, <3>5, <3>6, TakeOK
  <2>2. CASE At(p) = "bs" /\ ~InHex /\ At(p + 1) # "nul"
    <3>1. Take(Escaped(At(p + 1)), 2)
      BY <1>8, <2>2 DEF InDouble
    <3>2. p + 1 \in 1..Len(line) + 1
      BY <1>1, <2>2
    <3>3. p + 2 \in 1..Len(line) + 1 /\ At(p + 1) \in Written
      <4>1. (p + 1) + 1 \in 1..Len(line) + 1 /\ At(p + 1) \in Written
        BY <1>1, <2>2, <3>2
      <4> QED
        BY <1>1, <4>1
    <3>4. Escaped(At(p + 1)) \in Written
      BY <1>2, <3>3 DEF Escaped
    <3> QED
      BY <2>0, <3>1, <3>3, <3>4, TakeOK
  <2>3. CASE At(p) = "bs" /\ At(p + 1) = "nul"
    <3>1. Take("bs", 1) /\ p + 1 \in 1..Len(line) + 1 /\ "bs" \in Written
      BY <1>1, <1>2, <1>8, <2>3 DEF InDouble, InHex
    <3> QED
      BY <2>0, <3>1, TakeOK
  <2>4. CASE At(p) = "dq"
    BY <1>7, <1>8, <2>4 DEF InDouble, InHex
  <2>5. CASE At(p) = "nul"
    BY <1>8, <2>5, ErrOK DEF InDouble, InHex
  <2>6. CASE At(p) \notin {"bs", "dq", "nul"}
    <3>1. Take(At(p), 1)
      BY <1>8, <2>6 DEF InDouble, InHex
    <3>2. p + 1 \in 1..Len(line) + 1 /\ At(p) \in Written
      BY <1>1, <2>6
    <3> QED
      BY <2>0, <3>1, <3>2, TakeOK
  <2> QED
    BY <2>1, <2>2, <2>3, <2>4, <2>5, <2>6
<1>9. CASE InSingle
  <2>0. mode = "insq"
    BY <1>9 DEF InSingle
  <2>1. CASE At(p) = "bs" /\ At(p + 1) = "sq"
    <3>1. Take("sq", 2) /\ "sq" \in Written
      BY <1>2, <1>9, <2>1 DEF InSingle
    <3>2. p + 1 \in 1..Len(line) + 1
      BY <1>1, <2>1
    <3>3. p + 2 \in 1..Len(line) + 1
      <4>1. (p + 1) + 1 \in 1..Len(line) + 1
        BY <1>1, <2>1, <3>2
      <4> QED
        BY <1>1, <4>1
    <3> QED
      BY <2>0, <3>1, <3>3, TakeOK
  <2>2. CASE At(p) = "sq"
    BY <1>7, <1>9, <2>2 DEF InSingle
  <2>3. CASE At(p) = "nul"
    BY <1>9, <2>3, ErrOK DEF InSingle
  <2>4. CASE At(p) \notin {"sq", "nul"} /\ ~(At(p) = "bs" /\ At(p + 1) = "sq")
    <3>1. Take(At(p), 1)
      BY <1>9, <2>4 DEF InSingle
    <3>2. p + 1 \in 1..Len(line) + 1 /\ At(p) \in Written
      BY <1>1, <2>4
    <3> QED
      BY <2>0, <3>1, <3>2, TakeOK
  <2> QED
    BY <2>1, <2>2, <2>3, <2>4
<1>10. CASE UNCHANGED avars
  BY <1>10 DEF avars, ArgsInv
<1> QED
  BY <1>3, <1>4, <1>5, <1>6, <1>8, <1>9, <1>10 DEF ArgsNext

\* sdsSplitArgs frees every block on its error path and keeps only the vector
\* and its arguments on the other, for every line.
THEOREM NothingLeaksAlways == ArgsSpec => []NothingLeaks
<1>1. ArgsInv => NothingLeaks
  <2> SUFFICES ASSUME ArgsInv PROVE NothingLeaks
    OBVIOUS
  <2>1. Len(vector) \in Nat /\ (vector = <<>> => Len(vector) = 0)
    BY LenProperties, EmptySeq DEF ArgsInv
  <2>2. mode = "err" => live = 0
    BY DEF ArgsInv
  <2>3. mode = "end" => current = None
    BY DEF ArgsInv
  <2>4. mode = "end" => live = IF vector = <<>> THEN 0 ELSE Len(vector) + 1
    BY <2>1, <2>3 DEF ArgsInv
  <2> QED
    BY <2>2, <2>4 DEF NothingLeaks
<1> QED
  BY <1>1, ArgsStarts, ArgsSteps, PTL DEF ArgsSpec
-----------------------------------------------------------------------------
\* Where sdsSplitArgs is in a line that sdsCatRepr has written by the steps u:
\* before the quote, behind the first i characters of the string, or done.
InArgument(u, i) == /\ p = Len(u[i]) + 1 /\ i < Len(u[i]) /\ current \in Seq(Written) /\ Len(current) = i
                    /\ \A k \in 1..i : current[k] = content[k]

Reading(u) ==
  \/ mode = "space" /\ p = 1 /\ vector = <<>>
  \/ mode = "plain" /\ p = 1 /\ vector = <<>> /\ current = <<>>
  \/ mode = "inq" /\ vector = <<>> /\ \E i \in 0..Len(content) : InArgument(u, i)
  \/ mode = "space" /\ p = Len(line) + 1 /\ vector = <<content>>
  \/ mode = "end" /\ vector = <<content>>

Rewritten(u) == content \in Seq(Char) /\ Writes(u, content) /\ line = sdsCatRepr(content)

\* A character more is read with the width that it was written with.
LEMMA ReadsOn ==
  ASSUME NEW u, Rewritten(u), NEW i \in 1..Len(content), InArgument(u, i - 1),
         Len(current) < Room, Take(content[i], Len(ReprOf(content[i])))
  PROVE  InArgument(u, i)'
<1> DEFINE c == content[i]
<1>1. /\ c \in Char /\ c \in Written /\ Len(content) \in Nat /\ i \in Nat
      /\ Len(u[i]) = Len(u[i - 1]) + Len(ReprOf(c)) /\ Len(u[i - 1]) \in Nat
      /\ Len(ReprOf(c)) \in Nat /\ Len(ReprOf(c)) > 0
  <2>1. content \in Seq(Char) /\ Len(content) \in Nat /\ i \in Nat /\ c \in Char
    BY ElementOfSeq, LenProperties DEF Rewritten
  <2>2. Len(u[i]) = Len(u[i - 1]) + Len(ReprOf(c)) /\ Len(u[i - 1]) \in Nat
    BY WrittenAt DEF Rewritten
  <2>3. c \in Written
    BY <2>1 DEF Written
  <2>4. Len(ReprOf(c)) \in Nat
    BY <2>1, ReprIsWritten, LenProperties
  <2>5. Len(ReprOf(c)) > 0
    BY DEF ReprOf
  <2> QED
    BY <2>1, <2>2, <2>3, <2>4, <2>5
<1>2. current' = Append(current, c) /\ p' = p + Len(ReprOf(c)) /\ content' = content
  <2>1. ~(Len(current) >= Room)
    BY RoomInt, LenProperties DEF InArgument
  <2> QED
    BY <2>1 DEF Take
<1>3. current \in Seq(Written) /\ Len(current) = i - 1 /\ p = Len(u[i - 1]) + 1
      /\ i - 1 < Len(u[i - 1])
      /\ \A k \in 1..i - 1 : current[k] = content[k]
  BY DEF InArgument
<1> HIDE DEF c
<1>4. /\ current' \in Seq(Written) /\ Len(current') = i /\ current'[i] = c
      /\ \A k \in 1..i - 1 : current'[k] = current[k]
  BY <1>1, <1>2, <1>3, AppendProperties
<1>5. p' = Len(u[i]) + 1 /\ i < Len(u[i])
  BY <1>1, <1>2, <1>3
<1>6. \A k \in 1..i : current'[k] = content'[k]
  <2>1. ASSUME NEW k \in 1..i PROVE current'[k] = content[k]
    <3>1. k \in 1..i - 1 \/ k = i
      BY <1>1
    <3> QED
      BY <1>3, <1>4, <3>1 DEF c
  <2> QED
    BY <1>2, <2>1
<1> QED
  BY <1>4, <1>5, <1>6 DEF InArgument

\* Between the quotes.
LEMMA InDoubleReads ==
  ASSUME NEW u, Rewritten(u), Len(line) <= Room, ArgsInv, InDouble, vector = <<>>,
         NEW i \in 0..Len(content), InArgument(u, i)
  PROVE  Reading(u)'
<1>1. /\ Len(u[Len(content)]) \in Nat /\ Len(line) = Len(u[Len(content)]) + 1
      /\ At(Len(line)) = "dq" /\ At(Len(line) + 1) = "nul"
      /\ Len(content) \in Nat /\ mode = "inq" /\ content' = content /\ line' = line
  <2>1. content' = content /\ line' = line /\ mode = "inq"
    BY DEF InDouble, Take, Close, Done, Err
  <2> QED
    BY <2>1, WrittenAt, LenProperties DEF Rewritten
<1>2. CASE i = Len(content)
  <2>1. p = Len(line) /\ At(p) = "dq" /\ At(p + 1) = "nul" /\ Len(line) \in Nat
    BY <1>1, <1>2 DEF InArgument
  <2>2. Done
    BY <2>1 DEF InDouble, InHex, Close
  <2>3. current = content
    <3>1. current \in Seq(Written) /\ content \in Seq(Char) /\ Len(current) = Len(content)
          /\ \A k \in 1..Len(content) : current[k] = content[k]
      BY <1>2 DEF InArgument, Rewritten
    <3>2. current = [k \in 1..Len(content) |-> current[k]] /\ content = [k \in 1..Len(content) |-> content[k]]
      BY <3>1
    <3> QED
      BY <3>1, <3>2
  <2>4. vector' = <<content'>>
    BY <1>1, <2>2, <2>3 DEF Done
  <2>5. mode' = "space" /\ p' = Len(line') + 1
    BY <1>1, <2>1, <2>2 DEF Done
  <2> QED
    BY <2>4, <2>5 DEF Reading
<1>3. CASE i # Len(content)
  <2> DEFINE n == i + 1
             c == content[n]
             r == ReprOf(c)
  <2>1. n \in 1..Len(content) /\ n - 1 = i /\ i \in Nat
    BY <1>1, <1>3
  <2>2. c \in Char
    BY <2>1, ElementOfSeq DEF Rewritten
  <2>3. p = Len(u[i]) + 1 /\ p \in Nat /\ \A k \in 1..Len(r) : At(Len(u[i]) + k) = r[k]
    <3> HIDE DEF n
    <3>1. Len(u[n - 1]) \in Nat /\ \A k \in 1..Len(r) : At(Len(u[n - 1]) + k) = r[k]
      BY <2>1, WrittenAt DEF Rewritten
    <3> QED
      BY <2>1, <3>1 DEF InArgument
  <2> HIDE DEF n, c
  <2>5. Take(c, Len(r))
    <3>1. CASE c \in {"bs", "dq", "nl", "tab", "bel"}
      <4>1. PICK d \in {"bs", "dq", "n", "t", "a"} : r = <<"bs", d>> /\ Escaped(d) = c /\ d \notin {"x", "nul"}
        BY <3>1 DEF ReprOf, Escaped
      <4>2. Len(r) = 2 /\ r[1] = "bs" /\ r[2] = d
        BY <4>1
      <4>3. At(p) = "bs" /\ At(p + 1) = d
        <5>1. At(Len(u[i]) + 1) = "bs" /\ At(Len(u[i]) + 2) = d
          BY <2>3, <4>2
        <5>2. Len(u[i]) + 1 = p /\ Len(u[i]) + 2 = p + 1
          BY <2>3
        <5> QED
          BY <5>1, <5>2
      <4>4. ~InHex /\ At(p + 1) # "nul"
        BY <4>1, <4>3 DEF InHex
      <4> QED
        BY <4>1, <4>2, <4>3, <4>4 DEF InDouble
    <3>2. CASE c = "ctl"
      <4>1. r = <<"bs", "x", "0", "1">>
        BY <3>2 DEF ReprOf
      <4>2. Len(r) = 4 /\ r[1] = "bs" /\ r[2] = "x" /\ r[3] = "0" /\ r[4] = "1"
        BY <4>1
      <4>3. At(p) = "bs" /\ At(p + 1) = "x" /\ At(p + 2) = "0" /\ At(p + 3) = "1"
        <5>1. /\ At(Len(u[i]) + 1) = "bs" /\ At(Len(u[i]) + 2) = "x"
              /\ At(Len(u[i]) + 3) = "0" /\ At(Len(u[i]) + 4) = "1"
          BY <2>3, <4>2
        <5>2. /\ Len(u[i]) + 1 = p /\ Len(u[i]) + 2 = p + 1
              /\ Len(u[i]) + 3 = p + 2 /\ Len(u[i]) + 4 = p + 3
          BY <2>3
        <5> QED
          BY <5>1, <5>2
      <4>4. InHex /\ Byte(At(p + 2), At(p + 3)) = "ctl"
        BY <4>3 DEF InHex, IsHex, Byte
      <4> QED
        BY <3>2, <4>2, <4>3, <4>4 DEF InDouble
    <3>3. CASE c \notin {"bs", "dq", "nl", "tab", "bel", "ctl"}
      <4>1. r = <<c>> /\ Len(r) = 1 /\ r[1] = c
        BY <3>3 DEF ReprOf
      <4>2. At(p) = c
        BY <2>3, <4>1
      <4>3. c # "nul"
        BY <2>2 DEF Char
      <4> QED
        BY <3>3, <4>1, <4>2, <4>3 DEF InDouble, InHex
    <3> QED
      BY <3>1, <3>2, <3>3
  <2>6. Len(current) < Room /\ ~(Len(current) >= Room)
    <3>1. /\ p \in 1..Len(line) + 1 /\ p = Len(u[i]) + 1 /\ i < Len(u[i]) /\ Len(current) = i
      BY DEF ArgsInv, InArgument
    <3>2. Len(u[i]) \in Nat /\ Len(u[i]) <= Len(u[Len(content)])
      BY <1>1, WrittenStays, LenProperties DEF Rewritten, Writes
    <3> QED
      BY <1>1, <2>1, <3>1, <3>2, RoomInt
  <2>7. InArgument(u, n)'
    <3>1. Take(content[n], Len(ReprOf(content[n]))) /\ InArgument(u, n - 1)
      BY <2>1, <2>5 DEF c
    <3> QED
      BY <2>1, <2>6, <3>1, ReadsOn
  <2>8. mode' = "inq" /\ vector' = <<>>
    BY <1>1, <2>5, <2>6 DEF Take
  <2>9. n \in 0..Len(content')
    BY <1>1, <2>1
  <2> QED
    BY <2>7, <2>8, <2>9 DEF Reading
<1> QED
  BY <1>2, <1>3

LEMMA ReadingSteps ==
  ASSUME NEW u, Rewritten(u), Len(line) <= Room, ArgsInv, Reading(u), [ArgsNext]_avars
  PROVE  Reading(u)' /\ Rewritten(u)'
<1>1. /\ Len(u[0]) = 1 /\ At(1) = "dq" /\ At(Len(line) + 1) = "nul"
      /\ Len(content) \in Nat /\ Len(line) \in Nat
  BY WrittenAt, LenProperties DEF Rewritten
<1>2. UNCHANGED <<line, content>>
  BY DEF ArgsNext, avars, Skip, Start, Return, Plain, Take, Enter, Close, Done, Err, InDouble, InSingle
<1>3. Rewritten(u)'
  BY <1>2 DEF Rewritten
<1> SUFFICES Reading(u)'
  BY <1>3
<1>4. CASE UNCHANGED avars
  BY <1>4 DEF avars, Reading, InArgument
<1>5. CASE ArgsNext /\ mode = "space" /\ p = 1 /\ vector = <<>>
  <2>1. Start
    BY <1>1, <1>5 DEF ArgsNext, Skip, Return, Plain, InDouble, InSingle, IsSpace
  <2> QED
    BY <1>5, <2>1 DEF Start, Reading
<1>6. CASE ArgsNext /\ mode = "plain" /\ p = 1 /\ vector = <<>> /\ current = <<>>
  <2>1. Enter("inq")
    BY <1>1, <1>6 DEF ArgsNext, Skip, Start, Return, Plain, InDouble, InSingle, IsSpace
  <2>2. mode' = "inq" /\ p' = Len(u[0]) + 1 /\ vector' = <<>> /\ current' = <<>> /\ content' = content
    BY <1>1, <1>6, <2>1 DEF Enter
  <2>3. InArgument(u, 0)'
    BY <1>1, <2>2, NoArguments DEF InArgument
  <2>4. 0 \in 0..Len(content')
    BY <1>1, <2>2
  <2> QED
    BY <2>2, <2>3, <2>4 DEF Reading
<1>7. CASE /\ ArgsNext /\ mode = "inq" /\ vector = <<>>
           /\ \E i \in 0..Len(content) : InArgument(u, i)
  <2>1. InDouble
    BY <1>7 DEF ArgsNext, Skip, Start, Return, Plain, InSingle
  <2> QED
    BY <1>7, <2>1, InDoubleReads
<1>8. CASE ArgsNext /\ mode = "space" /\ p = Len(line) + 1 /\ vector = <<content>>
  <2>1. Return
    BY <1>1, <1>8 DEF ArgsNext, Skip, Start, Plain, InDouble, InSingle, IsSpace
  <2> QED
    BY <1>8, <2>1 DEF Return, Reading
<1>9. CASE ArgsNext /\ mode = "end"
  BY <1>9 DEF ArgsNext, Skip, Start, Return, Plain, InDouble, InSingle
<1> QED
  BY <1>4, <1>5, <1>6, <1>7, <1>8, <1>9 DEF Reading

RoundInv == content # None /\ Len(line) <= Room => \E u : Rewritten(u) /\ Reading(u)

LEMMA RoundStarts == ArgsInit => RoundInv
<1> SUFFICES ASSUME ArgsInit, content # None, Len(line) <= Room PROVE \E u : Rewritten(u) /\ Reading(u)
  BY DEF RoundInv
<1>1. content \in Seq(Char) /\ line = sdsCatRepr(content)
  BY ArgsAssumption DEF ArgsInit
<1>2. PICK u : Writes(u, content)
  BY <1>1, WriteSteps, Zenon
<1>3. Rewritten(u) /\ Reading(u)
  BY <1>1, <1>2 DEF Rewritten, Reading, ArgsInit
<1> QED
  BY <1>3

LEMMA RoundSteps == ArgsInv /\ RoundInv /\ [ArgsNext]_avars => RoundInv'
<1> SUFFICES ASSUME ArgsInv, RoundInv, [ArgsNext]_avars, content' # None, Len(line') <= Room
             PROVE  (\E u : Rewritten(u) /\ Reading(u))'
  BY DEF RoundInv
<1>1. content' = content /\ line' = line
  BY DEF ArgsNext, avars, Skip, Start, Return, Plain, Take, Enter, Close, Done, Err, InDouble, InSingle
<1>2. Len(line) <= Room
  BY <1>1
<1>3. PICK u : Rewritten(u) /\ Reading(u)
  BY <1>1, <1>2 DEF RoundInv
<1>4. (Rewritten(u) /\ Reading(u))'
  BY <1>2, <1>3, ReadingSteps
<1> QED
  BY <1>4

\* Whatever sdsCatRepr writes within its block, of any characters,
\* sdsSplitArgs reads back, within the blocks of its own, as one argument that
\* is that string.
THEOREM RoundTripAlways == ArgsSpec => []RoundTrip
<1>1. RoundInv => RoundTrip
  BY DEF RoundInv, Reading, RoundTrip
<1> QED
  BY <1>1, ArgsStarts, ArgsSteps, RoundStarts, RoundSteps, PTL DEF ArgsSpec
=============================================================================
