------------------------------- MODULE IntSet -------------------------------
(***************************************************************************)
(* The integer set of src/src/intset.c, the binary search one iteration at *)
(* a time. intsetAdd searches for the width of its value instead of the    *)
(* value, and an upgrade is handed the width, too.                         *)
(***************************************************************************)
EXTENDS Integers

CONSTANTS INT16_MAX, INT32_MAX,
          Values,  \* the values that are added, removed and looked for
          MaxSet   \* bound: how many the set holds

\* The widths are values of the narrowest one.
ASSUME IntSetAssumption == /\ INT16_MAX \in Nat /\ INT32_MAX \in Nat
                           /\ 8 <= INT16_MAX /\ INT16_MAX < INT32_MAX
                           /\ Values \subseteq Int /\ MaxSet \in Nat

VARIABLES enc, length,
          contents,  \* the values, by position
          room,      \* the bytes that the block has for them
          calling    \* the call under way, with the state of its search

ivars == <<enc, length, contents, room, calling>>

Idle == [pc |-> "idle", op |-> "none", value |-> 0, key |-> 0,
         min |-> 0, max |-> 0, pos |-> 0, found |-> FALSE]

_intsetValueEncoding(v) ==
  IF v < -INT32_MAX - 1 \/ v > INT32_MAX THEN 8
  ELSE IF v < -INT16_MAX - 1 \/ v > INT16_MAX THEN 4 ELSE 2

\* What _intsetSet stores of a value at width 2: its low half.
Stored(v) == IF enc = 2 /\ _intsetValueEncoding(v) > 2
             THEN ((v + INT16_MAX + 1) % (2 * INT16_MAX + 2)) - INT16_MAX - 1 ELSE v

intsetNew == enc = 2 /\ length = 0 /\ contents = <<>> /\ room = 0 /\ calling = Idle

\* intsetMoveTail and _intsetSet: v at pos, what was there and behind moves up.
Inserted(pos, v) ==
  [i \in 0..length |-> IF i < pos THEN contents[i] ELSE IF i = pos THEN v
                       ELSE contents[i - 1]]

\* intsetMoveTail: what is behind pos moves down.
Without(pos) == [i \in 0..length - 2 |-> IF i < pos THEN contents[i] ELSE contents[i + 1]]

-----------------------------------------------------------------------------
(* intsetSearch.                                                           *)

Result(c, found, pos) ==
  [pc |-> "found", op |-> c.op, value |-> c.value, key |-> c.key,
   min |-> c.min, max |-> c.max, pos |-> pos, found |-> found]

\* Up to the loop: a key beyond an end is not looked for.
Search(op, v, key) ==
  LET c == [pc |-> "search", op |-> op, value |-> v, key |-> key,
            min |-> 0, max |-> length - 1, pos |-> 0, found |-> FALSE]
  IN  /\ calling' = IF length = 0 THEN Result(c, FALSE, 0)
                 ELSE IF key > contents[length - 1] THEN Result(c, FALSE, length)
                 ELSE IF key < contents[0] THEN Result(c, FALSE, 0)
                 ELSE c
      /\ UNCHANGED <<enc, length, contents, room>>

\* Mutant: the half that is searched on keeps its middle out on the wrong side.
Halve_Skips ==
  LET mid == (calling.min + calling.max) \div 2
  IN  IF calling.key > contents[mid] THEN [calling EXCEPT !.min = mid + 2]
      ELSE IF calling.key < contents[mid] THEN [calling EXCEPT !.max = mid - 1]
      ELSE Result(calling, TRUE, mid)

Halve ==
  LET mid == (calling.min + calling.max) \div 2
  IN  IF calling.key > contents[mid] THEN [calling EXCEPT !.min = mid + 1]
      ELSE IF calling.key < contents[mid] THEN [calling EXCEPT !.max = mid - 1]
      ELSE Result(calling, TRUE, mid)

Iterate == /\ calling.pc = "search"
           /\ calling' = IF calling.max >= calling.min THEN Halve ELSE Result(calling, FALSE, calling.min)
           /\ UNCHANGED <<enc, length, contents, room>>

-----------------------------------------------------------------------------
(* The calls.                                                              *)

\* intsetUpgradeAndAdd(is, value), value being the width of what is added: it
\* is below zero for none, and goes to the end.
intsetUpgradeAndAdd(value) ==
  /\ enc' = _intsetValueEncoding(value)
  /\ room' = (length + 1) * enc'
  /\ contents' = Inserted(length, value)
  /\ length' = length + 1
  /\ UNCHANGED calling

intsetAdd(v) ==
  /\ calling.pc = "idle" /\ length < MaxSet
  /\ LET va == _intsetValueEncoding(v)
     IN  IF va > enc THEN intsetUpgradeAndAdd(va) ELSE Search("add", v, va)

\* insertFind is the same with op "find".
intsetRemove(op, v) ==
  /\ calling.pc = "idle" /\ _intsetValueEncoding(v) <= enc
  /\ Search(op, v, v)

\* What each call does with the result; a key that is there is not added.
AddFound == /\ calling.pc = "found" /\ calling.op = "add"
            /\ IF calling.found THEN UNCHANGED <<length, contents, room>>
               ELSE /\ room' = (length + 1) * enc
                    /\ contents' = Inserted(calling.pos, Stored(calling.value))
                    /\ length' = length + 1
            /\ calling' = Idle /\ UNCHANGED enc

RemoveFound == /\ calling.pc = "found" /\ calling.op = "remove"
               /\ IF calling.found
                  THEN /\ contents' = Without(calling.pos)
                       /\ room' = (length - 1) * enc
                       /\ length' = length - 1
                  ELSE UNCHANGED <<length, contents, room>>
               /\ calling' = Idle /\ UNCHANGED enc

FindFound == /\ calling.pc = "found" /\ calling.op = "find"
             /\ calling' = Idle /\ UNCHANGED <<enc, length, contents, room>>

IntSetNext == \/ \E v \in Values : \/ intsetAdd(v)
                                   \/ \E op \in {"remove", "find"} : intsetRemove(op, v)
              \/ Iterate \/ AddFound \/ RemoveFound \/ FindFound

IntSetSpec == intsetNew /\ [][IntSetNext]_ivars

-----------------------------------------------------------------------------
(* Properties.                                                             *)

\* What a search has found is there; and of an add, whose search is for 2, the
\* answer is exact: a narrow value is refused if and only if 2 is in the set. The
\* set is not sorted, but 2 parts it: what is below comes first and what is above
\* comes last, since no upgrade is ever made and a width is appended.
SearchExact ==
  calling.pc = "found" =>
    /\ calling.found => /\ calling.pos \in 0..length - 1 /\ contents[calling.pos] = calling.key
    /\ calling.op = "add" =>
         (calling.found <=> \E i \in 0..length - 1 : contents[i] = 2)
=============================================================================
