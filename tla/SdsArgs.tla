------------------------------ MODULE SdsArgs ------------------------------
(***************************************************************************)
(* sdsSplitArgs of src/src/sds.c, an iteration of its loops at a time, and *)
(* sdsCatRepr, which writes what it reads. A line is a sequence of         *)
(* characters without its NUL. Both append to an empty string with         *)
(* sdsCatLen, which gives it room only once (see Sds).                     *)
(***************************************************************************)
EXTENDS Sds, Sequences

CONSTANTS Lines,    \* the lines to split
          Contents  \* the strings to write with sdsCatRepr, and split

\* A character; "nul" ends a line, and "none" stands for no argument.
Char == STRING \ {"nul", "none"}

ASSUME ArgsAssumption == Lines \subseteq Seq(Char) /\ Contents \subseteq Seq(Char)

VARIABLES line,
          content,  \* what sdsCatRepr wrote as the line, or None
          p,        \* the next character
          mode,     \* "space", "plain", "inq", "insq"; "end", "err" or "wild" at last
          current,  \* the argument being read, or None
          vector,   \* those that are complete
          live      \* the blocks that are allocated

avars == <<line, content, p, mode, current, vector, live>>

None == <<"none">>

IsSpace(c) == c \in {"sp", "nl", "tab"}
IsHex(c)   == c \in {"0", "1", "a", "b"}

\* The byte of \xHH, of those that the lines can spell: one that is not
\* printable, for which sdsCatRepr needs the form, and any other.
Byte(h, l) == IF h = "0" /\ l = "1" THEN "ctl" ELSE "byte"

\* What a character means behind a backslash between double quotes.
Escaped(c) == CASE c = "n" -> "nl" [] c = "t" -> "tab" [] c = "a" -> "bel" [] OTHER -> c

\* The most characters that appends to an empty string write within its block.
\* The first one moves it, and leaves its header as it was: free, 0 until then,
\* wraps around to nearly UInt, and the block is never enlarged again.
Room == LET empty == [len |-> 0, free |-> 0, block |-> BlockOf(HDR + 1)]
        IN  RoomFor(empty, 1).block - HDR - 1

\* Mutant: a backslash is written as it is.
ReprOf_Backslash(c) == CASE c = "dq" -> <<"bs", "dq">> [] c = "nl" -> <<"bs", "n">>
                         [] c = "ctl" -> <<"bs", "x", "0", "1">> [] OTHER -> <<c>>

\* What sdsCatRepr appends for a character.
ReprOf(c) ==
  CASE c \in {"bs", "dq"} -> <<"bs", c>>
    [] c = "nl"  -> <<"bs", "n">>
    [] c = "tab" -> <<"bs", "t">>
    [] c = "bel" -> <<"bs", "a">>
    [] c = "ctl" -> <<"bs", "x", "0", "1">>
    [] OTHER     -> <<c>>

sdsCatRepr(s) ==
  LET upTo[i \in 0..Len(s)] == IF i = 0 THEN <<"dq">> ELSE upTo[i - 1] \o ReprOf(s[i])
  IN  Append(upTo[Len(s)], "dq")

\* The characters at p and behind it, up to the NUL; a read beyond has no value.
At(i) == Append(line, "nul")[i]

\* Once a write has gone beyond its block, nothing is known of the process.
ArgsInit == /\ \/ content = None /\ line \in Lines /\ mode = "space"
               \/ /\ content \in Contents /\ line = sdsCatRepr(content)
                  /\ mode = IF Len(line) <= Room THEN "space" ELSE "wild"
            /\ p = 1 /\ current = None /\ vector = <<>> /\ live = 0

-----------------------------------------------------------------------------
(* Between arguments.                                                      *)

Skip == /\ mode = "space" /\ IsSpace(At(p))
        /\ p' = p + 1
        /\ UNCHANGED <<line, content, mode, current, vector, live>>

Start == /\ mode = "space" /\ At(p) # "nul" /\ ~IsSpace(At(p))
         /\ mode' = "plain" /\ current' = <<>> /\ live' = live + 1
         /\ UNCHANGED <<line, content, p, vector>>

\* The whole line is read: the vector is returned, NULL when it is empty.
Return == /\ mode = "space" /\ At(p) = "nul"
          /\ mode' = "end"
          /\ UNCHANGED <<line, content, p, current, vector, live>>

-----------------------------------------------------------------------------
(* Within an argument.                                                     *)

\* sdsCatLen of one character.
Take(c, width) ==
  \/ /\ Len(current) < Room
     /\ current' = Append(current, c) /\ p' = p + width
     /\ UNCHANGED <<line, content, mode, vector, live>>
  \/ /\ Len(current) >= Room
     /\ mode' = "wild"
     /\ UNCHANGED <<line, content, p, current, vector, live>>

\* The argument is complete: the vector grows by it, from NULL the first time.
Done == /\ vector' = Append(vector, current) /\ current' = None
        /\ live' = IF vector = <<>> THEN live + 1 ELSE live
        /\ p' = IF At(p) = "nul" THEN p ELSE p + 1
        /\ mode' = "space"
        /\ UNCHANGED <<line, content>>

\* Mutant: the argument that is being read is forgotten.
Err_Forgets == /\ live' = live - Len(vector) - (IF vector = <<>> THEN 0 ELSE 1)
               /\ mode' = "err" /\ current' = None /\ vector' = <<>>
               /\ UNCHANGED <<line, content, p>>

\* err: the arguments, the vector, if there is one, and the current argument
\* are freed.
Err == /\ live' = live - Len(vector) - (IF vector = <<>> THEN 0 ELSE 1)
                       - (IF current = None THEN 0 ELSE 1)
       /\ mode' = "err" /\ current' = None /\ vector' = <<>>
       /\ UNCHANGED <<line, content, p>>

\* The closing quote must be followed by a space or nothing.
Close == IF At(p + 1) # "nul" /\ ~IsSpace(At(p + 1)) THEN Err ELSE Done

Enter(quotes) == /\ mode' = quotes /\ p' = p + 1
                 /\ UNCHANGED <<line, content, current, vector, live>>

Plain == /\ mode = "plain"
         /\ CASE IsSpace(At(p)) \/ At(p) = "nul" -> Done
              [] At(p) = "dq" -> Enter("inq")
              [] At(p) = "sq" -> Enter("insq")
              [] OTHER        -> Take(At(p), 1)

InHex == At(p) = "bs" /\ At(p + 1) = "x" /\ IsHex(At(p + 2)) /\ IsHex(At(p + 3))

InDouble == /\ mode = "inq"
            /\ CASE InHex -> Take(Byte(At(p + 2), At(p + 3)), 4)
                 [] At(p) = "bs" /\ ~InHex /\ At(p + 1) # "nul" -> Take(Escaped(At(p + 1)), 2)
                 [] At(p) = "bs" /\ At(p + 1) = "nul" -> Take("bs", 1)
                 [] At(p) = "dq"  -> Close
                 [] At(p) = "nul" -> Err
                 [] OTHER         -> Take(At(p), 1)

InSingle == /\ mode = "insq"
            /\ CASE At(p) = "bs" /\ At(p + 1) = "sq" -> Take("sq", 2)
                 [] At(p) = "sq"  -> Close
                 [] At(p) = "nul" -> Err
                 [] OTHER         -> Take(At(p), 1)

ArgsNext == Skip \/ Start \/ Return \/ Plain \/ InDouble \/ InSingle

ArgsSpec == ArgsInit /\ [][ArgsNext]_avars

-----------------------------------------------------------------------------
(* Properties.                                                             *)

\* A string that sdsCatRepr has written within its block comes back from
\* sdsSplitArgs, within the blocks of that, as the one argument it was, whatever
\* quotes, backslashes, spaces and bytes it holds.
RoundTrip ==
  content # None /\ Len(line) <= Room =>
    /\ mode \notin {"err", "wild"}
    /\ mode = "end" => vector = <<content>>

\* A line that cannot be split leaves no block behind, whichever argument was
\* being read; one that can leaves its arguments and the vector.
NothingLeaks ==
  /\ mode = "err" => live = 0
  /\ mode = "end" => live = IF vector = <<>> THEN 0 ELSE Len(vector) + 1
=============================================================================
