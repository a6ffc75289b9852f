------------------------------ MODULE MCParts ------------------------------
(***************************************************************************)
(* The parts of the cache server that no schedule drives: a string, the    *)
(* splitting of a line, that of a text, a list, an integer set, the gates  *)
(* in front of a command, the propagation behind it. They share no state   *)
(* (the execution of commands, which would join the last two, is not in    *)
(* the repository), and a run uses one of them.                            *)
(*                                                                         *)
(* The lines are all those of up to four characters, those of quotes and   *)
(* one letter that reach beyond the room of an argument (7 characters),    *)
(* and what sdsCatRepr makes of up to three.                               *)
(***************************************************************************)
EXTENDS SdsArgs, SdsSplit, AdList, IntSet, Commands, Propagation

CONSTANTS MaxLine, MaxWord, MaxContent, MaxText

SeqUpTo(S, n) == UNION { [1..k -> S] : k \in 0..n }

MCLines    == SeqUpTo({"a", "x", "sp", "dq", "sq", "bs"}, MaxLine)
              \cup SeqUpTo({"a", "dq"}, MaxWord)
MCContents == SeqUpTo({"a", "x", "n", "sp", "dq", "sq", "bs", "nl", "tab", "bel", "ctl"},
                      MaxContent)
MCTexts    == SeqUpTo({"sep", "x"}, MaxText)

\* Values of each width, on both sides of 2, which the set looks for.
MCValues == {-10, -1, 1, 2, 3, 4, 10, 20}

-----------------------------------------------------------------------------
\* Each part as it is while another one is used.
NoString      == sds = Null /\ mem.used = 0
NoArgs        == line = <<>> /\ content = None /\ mode = "space"
NoSplit       == text = <<>> /\ at = "enter" /\ \A n \in SepLens : sp_len <= n
NoList        == /\ linked \cup lost = {} /\ iter = NoIter /\ len = 0
                 /\ uncounted = 0 /\ hasFree /\ ~crashed
NoSet         == length = 0 /\ calling = Idle /\ enc = 2
NoGates       == srv = {} /\ flags = {} /\ let = {}
NoPropagation == /\ ~scripted /\ aof_on /\ calls + given = 0
                 /\ \A c \in Client : force[c] = {}

Data     == NoList /\ NoSet
Texts0   == NoArgs /\ NoSplit
Requests == NoGates /\ NoPropagation

Init == /\ MemInit /\ SdsInit /\ intsetNew
        /\ GatesInit /\ PropagationInit /\ (NoGates \/ NoPropagation)
        /\ ListInit  /\ (NoList \/ Requests)
        /\ SplitInit /\ (NoSplit \/ (Data /\ Requests))
        /\ \/ NoArgs /\ ArgsInit
           \/ NoSplit /\ Data /\ Requests /\ ArgsInit

Next ==
  \/ /\ Data /\ Requests
     /\ UNCHANGED <<lvars, ivars, gvars, pvars>>
     /\ \/ SdsNext /\ Texts0 /\ UNCHANGED <<avars, tvars>>
        \/ ArgsNext /\ NoString /\ NoSplit /\ UNCHANGED <<svars, tvars>>
        \/ SplitNext /\ NoString /\ NoArgs /\ UNCHANGED <<svars, avars>>
  \/ /\ NoString /\ Texts0
     /\ UNCHANGED <<svars, avars, tvars>>
     /\ \/ ListNext /\ NoSet /\ Requests /\ UNCHANGED <<ivars, gvars, pvars>>
        \/ IntSetNext /\ NoList /\ Requests /\ UNCHANGED <<lvars, gvars, pvars>>
        \/ GatesNext /\ Data /\ NoPropagation /\ UNCHANGED <<lvars, ivars, pvars>>
        \/ PropagationNext /\ Data /\ NoGates /\ UNCHANGED <<lvars, ivars, gvars>>

vars == <<svars, avars, tvars, lvars, ivars, gvars, pvars>>

PartsSpec == Init /\ [][Next]_vars
=============================================================================
