------------------------------ MODULE Zmalloc ------------------------------
(***************************************************************************)
(* The allocator of src/src/zmalloc.c: malloc with a running count of the  *)
(* memory in use. A caller composes the operators on the record mem; a     *)
(* block is known by its usable size.                                      *)
(***************************************************************************)
EXTENDS Integers

CONSTANT SizeT   \* the number of values of a size_t

ASSUME SizeTAssumption == SizeT \in Nat /\ SizeT > 0

VARIABLE mem     \* used: used_memory; live: history, the blocks in use

\* Arithmetic of size_t on operands that are at most one word off.
InSizeT(x) == IF x < 0 THEN x + SizeT ELSE IF x >= SizeT THEN x - SizeT ELSE x

PREFIX_SIZE == 8

\* je_malloc_usable_size of a block asked for with n bytes.
Usable(n) == IF n <= 8 THEN 8 ELSE 8 * ((n + 7) \div 8)

\* _n += sizeof(long) - (_n & (sizeof(long) - 1))
RoundUp(n) == IF n % 8 = 0 THEN n ELSE n + 8 - (n % 8)

\* update_zmalloc_stat_alloc: only a size that had to be rounded up is added.
StatAlloc(used, n) == IF n % 8 = 0 THEN used ELSE InSizeT(used + (RoundUp(n) % SizeT))

\* update_zmalloc_stat_free: every size is subtracted.
StatFree(used, n) == InSizeT(used - (RoundUp(n) % SizeT))

MemInit == mem = [used |-> 0, live |-> 0]

\* The usable size of the block that zmalloc(size) and zcalloc(size) return,
\* and of the one zre_alloc(ptr, size) returns: only the first two ask for the
\* prefix.
BlockOf(size)    == Usable(size + PREFIX_SIZE)
ReBlockOf(size)  == Usable(size)

zmalloc(m, size) == [used |-> StatAlloc(m.used, BlockOf(size)), live |-> m.live + 1]

Released(m, block) == [used |-> StatFree(m.used, block), live |-> m.live]

\* zre_alloc of a block of the given usable size; 0 is the NULL pointer.
zre_alloc(m, block, size) ==
  IF block = 0 THEN zmalloc(m, size)
  ELSE LET n == Released(m, block)
       IN  [n EXCEPT !.used = StatAlloc(@, ReBlockOf(size))]

zfree(m, block) == [Released(m, block) EXCEPT !.live = @ - 1]
=============================================================================
