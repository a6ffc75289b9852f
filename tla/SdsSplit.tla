------------------------------ MODULE SdsSplit ------------------------------
(***************************************************************************)
(* sdsSplitLen of src/src/sds.c, an iteration of its loop at a time. Its   *)
(* index starts with what was on the stack, and its second comparison is a *)
(* memcpy: what is not a separator is overwritten by one, and a separator  *)
(* of several characters is never found.                                   *)
(***************************************************************************)
EXTENDS Integers, Sequences

CONSTANTS Texts,      \* the strings to split, of "sep" and other characters
          SepLens,    \* the lengths of the separator
          FirstSlots  \* 5, the tokens there is room for at first

ASSUME SplitAssumption == /\ Texts \subseteq Seq(STRING)
                          /\ SepLens \subseteq Nat \ {0}
                          /\ FirstSlots \in Nat \ {0, 1}

VARIABLES text,      \* the string, which the loop changes
          sp_len,
          j, start,
          tokens,    \* the length of each token
          slots,     \* how many tokens the vector has room for
          blocks,    \* the blocks allocated
          at         \* "enter", "loop", "last"; "end", "null", "wild" at last

tvars == <<text, sp_len, j, start, tokens, slots, blocks, at>>

SplitInit == /\ text \in Texts /\ sp_len \in SepLens /\ at = "enter"
             /\ j = 0 /\ start = 0 /\ tokens = <<>> /\ slots = 0 /\ blocks = 0

\* The vector is made; without a character there is no token. j is whatever it is.
SplitBegins ==
  /\ at = "enter"
  /\ slots' = FirstSlots /\ blocks' = 1
  /\ IF text = <<>> THEN at' = "end" /\ UNCHANGED j
                    ELSE at' = "loop" /\ j' \in -1..Len(text) + 1
  /\ UNCHANGED <<text, sp_len, start, tokens>>

\* cleanup: the allocator has an out-of-memory handler that returns.
Cleanup == /\ blocks' = blocks - Len(tokens) - 1 /\ tokens' = <<>> /\ at' = "null"
           /\ UNCHANGED <<text, sp_len, j, start, slots>>

\* Mutant: the last token, behind the loop, is not thought of.
Widened_OneShort == IF slots < Len(tokens) + 1 THEN 2 * slots ELSE slots

Widened == IF slots < Len(tokens) + 2 THEN 2 * slots ELSE slots

\* A token up to the character at index k of C.
Token(k) == /\ tokens' = Append(tokens, k - start) /\ blocks' = blocks + 1

\* In the loop the string is read, and written, at j: before its begin nothing
\* is known of that, and the process.
SplitOnce ==
  /\ at = "loop" /\ j < Len(text) - (sp_len - 1)
  /\ \/ j < 0 /\ at' = "wild" /\ UNCHANGED <<text, sp_len, j, start, tokens, slots, blocks>>
     \/ j >= 0 /\ Cleanup
     \/ /\ j >= 0 /\ slots' = Widened
        /\ IF sp_len = 1 /\ text[j + 1] = "sep"
           THEN /\ Token(j)
                /\ start' = j + sp_len /\ j' = j + sp_len
                /\ UNCHANGED text
           ELSE /\ text' = [i \in DOMAIN text |->
                              IF i - 1 \in j..j + sp_len - 1 THEN "sep" ELSE text[i]]
                /\ j' = j + 1
                /\ UNCHANGED <<start, tokens, blocks>>
        /\ UNCHANGED <<sp_len, at>>

SplitLast ==
  /\ at = "loop" /\ j >= Len(text) - (sp_len - 1)
  /\ \/ Cleanup
     \/ /\ Token(Len(text)) /\ at' = "end"
        /\ UNCHANGED <<text, sp_len, j, start, slots>>

SplitNext == SplitBegins \/ SplitOnce \/ SplitLast

SplitSpec == SplitInit /\ [][SplitNext]_tvars

-----------------------------------------------------------------------------
(* Properties.                                                             *)

TokenTotal(lengths) ==
  LET sum[n \in 0..Len(lengths)] == IF n = 0 THEN 0 ELSE sum[n - 1] + lengths[n]
  IN  sum[Len(lengths)]

\* The vector has room for every token that is put into it, the one behind the
\* loop included, and the tokens with the separators between them are as long
\* as the string, wherever the index began; a failure leaves no block behind.
TokensFit ==
  /\ Len(tokens) <= slots
  /\ at = "end" /\ tokens # <<>> =>
       /\ TokenTotal(tokens) + (Len(tokens) - 1) * sp_len = Len(text)
       /\ blocks = Len(tokens) + 1
  /\ at = "null" => blocks = 0
=============================================================================
