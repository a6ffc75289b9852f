-------------------------------- MODULE Sds --------------------------------
(***************************************************************************)
(* The dynamic strings of src/src/sds.c: one string, its header (len and   *)
(* free, unsigned ints) against the block it lives in. What the bytes are  *)
(* is left out; how many are moved, and where the last one lands, is not.  *)
(***************************************************************************)
EXTENDS Zmalloc, FiniteSets

CONSTANTS UInt,              \* the number of values of an unsigned int
          SDS_MAX_PRE_ALLOC,
          STATIC_BUF,        \* 1024, the buffer of sdsCatVPrintf on the stack
          MaxLen,            \* bound: the longest string that an action asks for
          MaxDigits          \* bound: the digits of a number made into a string

ASSUME SdsAssumption == /\ UInt \in Nat /\ SDS_MAX_PRE_ALLOC \in Nat
                        /\ STATIC_BUF \in Nat \ {0, 1}
                        /\ MaxLen \in Nat /\ 2 * MaxLen < UInt /\ MaxLen < SizeT
                        /\ MaxDigits \in Nat \ {0} /\ MaxDigits + 1 <= MaxLen

VARIABLES sds,      \* the string: len, free, and the usable size of its block
          stale,    \* history: the header does not describe the block any more
          corrupt,  \* a write went beyond a block; nothing is known after that
          printing  \* the call of sdsCatVPrintf under way, or NotPrinting

svars == <<mem, sds, stale, corrupt, printing>>

HDR  == 8           \* sizeof(struct Sdshdr)
Null == [len |-> 0, free |-> 0, block |-> 0]

\* Arithmetic of unsigned ints on operands that are at most one word off.
InUInt(x) == IF x < 0 THEN x + UInt ELSE IF x >= UInt THEN x - UInt ELSE x

\* What len and free add up to, as the code computes it.
Total(s) == InUInt(s.len + s.free)

\* Does a string whose last byte, the NUL, is buf[end] fit its block?
Fits(s, end) == HDR + end + 1 <= s.block

NotPrinting == [size |-> 0, heap |-> FALSE, n |-> 0]

SdsInit == /\ sds = Null /\ stale = FALSE /\ corrupt = FALSE
           /\ printing = NotPrinting

Alive == ~corrupt /\ sds # Null /\ printing = NotPrinting

-----------------------------------------------------------------------------
(* Space.                                                                  *)

\* sdsMakeRoomFor moves the string and does not touch its header.
Roomier(s, block) == [s EXCEPT !.block = block]

\* Mutant: one byte more than is free is taken to fit.
Grows_OneShort(s, add) == s.free + 1 < add

Grows(s, add) == s.free < add

NewLen(s, add) == LET n == InSizeT(s.len + add)
                  IN  IF n < SDS_MAX_PRE_ALLOC THEN n * 2 ELSE n + SDS_MAX_PRE_ALLOC

RoomFor(s, add) ==
  IF Grows(s, add) THEN Roomier(s, ReBlockOf(HDR + NewLen(s, add) + 1)) ELSE s

MemFor(m, s, add) ==
  IF Grows(s, add) THEN zre_alloc(m, s.block, HDR + NewLen(s, add) + 1) ELSE m

\* The string after a call that makes room for add bytes, leaves its header with
\* len and free, and writes its NUL at buf[end].
Rewrite(add, len, free, end) ==
  /\ sds' = [len |-> len, free |-> free, block |-> RoomFor(sds, add).block]
  /\ stale' = (stale \/ Grows(sds, add))
  /\ corrupt' = ~Fits(RoomFor(sds, add), end)

\* Such a call.
Write(add, len, free, end) == /\ Rewrite(add, len, free, end)
                              /\ mem' = MemFor(mem, sds, add)
                              /\ UNCHANGED printing

\* The same without a change of the block.
Put(len, free, end) == /\ sds' = [len |-> len, free |-> free, block |-> sds.block]
                       /\ corrupt' = ~Fits(sds, end)
                       /\ UNCHANGED <<mem, stale, printing>>

-----------------------------------------------------------------------------
(* Making and freeing. sdsNew, sdsEmpty and sdsDup are sdsNewLen of the    *)
(* length of what they are given.                                          *)

\* The characters of sds112str: the digits of v and the sign.
NumLen(v) ==
  LET size   == IF v < 0 THEN -v ELSE v
      digits == 1 + Cardinality({k \in 1..MaxDigits - 1 : size >= 10^k})
  IN  IF v < 0 THEN 1 + digits ELSE digits

sdsNewLen(n) ==
  /\ ~corrupt /\ sds = Null
  /\ sds' = [len |-> n, free |-> 0, block |-> BlockOf(HDR + n + 1)]
  /\ mem' = zmalloc(mem, HDR + n + 1)
  /\ stale' = FALSE /\ corrupt' = FALSE
  /\ UNCHANGED printing

sdsFromLongLong(v) == sdsNewLen(NumLen(v))

sdsFree == /\ Alive
           /\ mem' = zfree(mem, sds.block)
           /\ sds' = Null /\ stale' = FALSE
           /\ UNCHANGED <<corrupt, printing>>

\* The block is cut to the header and len bytes: the NUL is not counted.
sdsRemoveFreeSpace ==
  /\ Alive
  /\ mem' = zre_alloc(mem, sds.block, HDR + sds.len)
  /\ sds' = [len |-> sds.len, free |-> 0, block |-> ReBlockOf(HDR + sds.len)]
  /\ stale' = TRUE
  /\ UNCHANGED <<corrupt, printing>>

-----------------------------------------------------------------------------
(* Appending and replacing. sdsCat, sdsCatSds, sdsCatRepr and sdsJoin      *)
(* append with sdsCatLen.                                                  *)

sdsCatLen(n) ==
  Alive /\ Write(n, InUInt(sds.len + n), InUInt(sds.free - n), sds.len + n)

\* sdsCatVPrintf of n characters with a format of f, an iteration of its loop at
\* a time. Its buffer is on the stack or, if that is too small for twice the
\* format, on the heap, and is replaced by one of twice its size until they fit.
PrintfBegins(f, n) ==
  /\ Alive
  /\ IF 2 * f > STATIC_BUF
     THEN /\ printing' = [size |-> 2 * f, heap |-> TRUE, n |-> n]
          /\ mem' = zmalloc(mem, 2 * f)
     ELSE /\ printing' = [size |-> STATIC_BUF, heap |-> FALSE, n |-> n]
          /\ UNCHANGED mem
  /\ UNCHANGED <<sds, stale, corrupt>>

\* Mutant: the buffer that was too small is not freed.
BufFreed_Keeps(m) == m

BufFreed(m) == IF printing.heap THEN zfree(m, BlockOf(printing.size)) ELSE m

PrintfGrows ==
  /\ printing # NotPrinting /\ printing.n > printing.size - 2
  /\ printing' = [size |-> 2 * printing.size, heap |-> TRUE, n |-> printing.n]
  /\ mem' = zmalloc(BufFreed(mem), 2 * printing.size)
  /\ UNCHANGED <<sds, stale, corrupt>>

PrintfEnds ==
  /\ printing # NotPrinting /\ printing.n <= printing.size - 2
  /\ Rewrite(printing.n, InUInt(sds.len + printing.n), InUInt(sds.free - printing.n),
             sds.len + printing.n)
  /\ mem' = BufFreed(MemFor(mem, sds, printing.n))
  /\ printing' = NotPrinting

\* What sdsCopyLen asks for, a difference of a size_t and an unsigned int.
CopyRoom(n) == IF Total(sds) < n THEN InSizeT(n - sds.len) ELSE 0

sdsCopyLen(n) ==
  Alive /\ Write(CopyRoom(n), n, InUInt(Total(sds) - n), n)

sdsGrowZero(n) ==
  Alive /\ n >= sds.len /\ Write(n - sds.len, n, InUInt(Total(sds) - n), n)

\* One directive of sdsCatFmt: a room for one byte before it; then a literal
\* character, or l characters for %s (which is given room only when there is
\* none), for %i or for %u. The first two count what they wrote as free.
Directive == {"literal", "%s", "%i", "%u"}

Wanted(d, s, l) == CASE d = "literal" -> 0
                     [] d = "%s"      -> IF s.free < 1 THEN l ELSE 0
                     [] OTHER         -> l

sdsCatFmt(d, l) ==
  LET one  == IF sds.free = 0 THEN 1 ELSE 0
      s    == RoomFor(sds, one)
      t    == RoomFor(s, Wanted(d, s, l))
      free == IF d \in {"%s", "%i"} THEN t.free + l ELSE t.free - l
  IN  /\ Alive
      /\ d = "literal" => l = 1
      /\ d \in {"%i", "%u"} => l > 0
      /\ mem' = MemFor(MemFor(mem, sds, one), s, Wanted(d, s, l))
      /\ sds' = [len |-> InUInt(t.len + l), free |-> InUInt(free), block |-> t.block]
      /\ stale' = \/ stale \/ Grows(sds, one) \/ Grows(s, Wanted(d, s, l))
                  \/ d \in {"%s", "%i"} /\ l > 0
      /\ corrupt' = ~Fits(t, sds.len + l)
  /\ UNCHANGED printing

-----------------------------------------------------------------------------
(* Cutting, in place.                                                      *)

Cut(n) == Put(n, InUInt(sds.free + InUInt(sds.len - n)), n)

\* The caller has written at the end, or takes bytes back: both asserted.
sdsIncrLen(incr) ==
  /\ Alive
  /\ IF incr >= 0 THEN sds.free >= incr ELSE sds.len >= -incr
  /\ Put(InUInt(sds.len + incr), InUInt(sds.free - incr), InUInt(sds.len + incr))

FromEnd(i) == IF i >= 0 THEN i ELSE IF sds.len + i < 0 THEN 0 ELSE sds.len + i

\* The length of the range that sdsRange keeps.
Kept(start, end) ==
  LET last == IF end >= sds.len THEN sds.len - 1 ELSE end
  IN  IF start > last THEN 0 ELSE last - start + 1

sdsRange(start, end) == Alive /\ sds.len # 0 /\ Cut(Kept(FromEnd(start), FromEnd(end)))

\* sdsTrim leaves what is between the first and the last character that is not
\* in its set; sdsUpdateLen what is before the first NUL: n of the characters.
sdsTrim(n)      == Alive /\ n <= sds.len /\ Cut(n)
sdsUpdateLen(n) == /\ Alive /\ n <= sds.len
                   /\ sds' = [len |-> n, free |-> InUInt(sds.free + InUInt(sds.len - n)),
                               block |-> sds.block]
                   /\ UNCHANGED <<mem, stale, corrupt, printing>>
sdsClear        == Alive /\ Cut(0)

-----------------------------------------------------------------------------
Lengths == 0..MaxLen

SdsNext ==
  \/ \E n \in Lengths : \/ sdsNewLen(n)
                        \/ sds.len + n <= MaxLen /\ sdsCatLen(n)
                        \/ sdsCopyLen(n) \/ sdsGrowZero(n)
                        \/ sdsTrim(n) \/ sdsUpdateLen(n)
  \/ \E f \in {1, STATIC_BUF}, n \in Lengths :
       sds.len + n <= MaxLen /\ PrintfBegins(f, n)
  \/ PrintfGrows \/ PrintfEnds
  \/ \E v \in {-10, -9, 9, 10} : sdsFromLongLong(v)
  \/ \E n \in -MaxLen..MaxLen : sds.len + n <= MaxLen /\ sdsIncrLen(n)
  \/ \E start, end \in -MaxLen..MaxLen : sdsRange(start, end)
  \/ \E d \in Directive, l \in Lengths : sds.len + l <= MaxLen /\ sdsCatFmt(d, l)
  \/ sdsFree \/ sdsRemoveFreeSpace \/ sdsClear

SdsSpec == MemInit /\ SdsInit /\ [][SdsNext]_svars

-----------------------------------------------------------------------------
(* Properties.                                                             *)

\* A string that was never moved, never given back its free space and never
\* met %s or %i in a format is described by its header: len and free, and the
\* NUL, fit its block, and no call has written beyond it.
BufferSafe == ~stale => /\ ~corrupt
                        /\ sds # Null => Fits(sds, sds.len + sds.free)

\* The string and, while sdsCatVPrintf runs, its buffer on the heap are the only
\* blocks there are: moving the string, cutting it, and every buffer that was
\* too small leave none behind.
BlocksAccounted ==
  corrupt \/ mem.live = (IF sds = Null THEN 0 ELSE 1) + (IF printing.heap THEN 1 ELSE 0)

\* What zmalloc_used_memory reports is the bytes of those blocks: cacheCron logs
\* it as the `bytes in use' (cache.c:697), and keeps its highest value.
UsedIsInUse ==
  LET buffer == IF printing.heap THEN BlockOf(printing.size) ELSE 0
  IN  corrupt \/ mem.used = (sds.block + buffer) % SizeT
=============================================================================
