------------------------- MODULE StatusPatchProofs -------------------------
(***************************************************************************)
(* The optimistic lock of set_status makes it an atomic merge, for any     *)
(* number of writers and any fields.                                       *)
(***************************************************************************)
EXTENDS StatusPatch, TLAPS

\* Merging a dict into a status gives a status.
LEMMA MergeType ==
  ASSUME NEW s \in [Field -> Value], NEW u \in Update
  PROVE  Merge(s, u) \in [Field -> Value]
BY StatusAssumption DEF Merge, Store!Merge

\* What the server stores for a whole copy is the copy.
LEMMA MergeWhole ==
  ASSUME NEW s, NEW t \in [Field -> Value], NEW u \in Update
  PROVE  Merge(s, Merge(t, u)) = Merge(t, u)
BY DEF Merge, Store!Merge

Inv == TypeOK /\ FreshIsCurrent

LEMMA InitInv == Init => Inv
BY StatusAssumption DEF Init, Inv, TypeOK, FreshIsCurrent

LEMMA StepInv == Inv /\ [Next]_vars => Inv'
<1> SUFFICES ASSUME Inv, [Next]_vars PROVE Inv'
  OBVIOUS
<1> USE DEF Inv, TypeOK, FreshIsCurrent
<1>1. ASSUME NEW w \in Writer, Get(w) PROVE Inv'
  BY <1>1 DEF Get
<1>2. ASSUME NEW w \in Writer, Refuse(w) PROVE Inv'
  BY <1>2 DEF Refuse
<1>3. ASSUME NEW w \in Writer, NEW u \in Update, Patch(w, u) PROVE Inv'
  <2>1. obj[w] \in [Field -> Value]
    BY <1>3 DEF Patch
  <2>2. status' \in [Field -> Value]
    BY <1>3, <2>1, MergeType, MergeWhole DEF Patch
  <2>3. QED
    BY <1>3, <2>2 DEF Patch
<1>4. ASSUME Touch PROVE Inv'
  BY <1>4 DEF Touch
<1>5. CASE UNCHANGED vars
  BY <1>5 DEF vars
<1>6. QED
  BY <1>1, <1>2, <1>3, <1>4, <1>5 DEF Next

\* The inductive invariant: the types, and copies that are current where the API
\* server would accept them.
THEOREM Invariance == Spec => []Inv
BY InitInv, StepInv, PTL DEF Spec

\* A copy that the API server would accept is the status it stores
\* (FreshIsCurrent).
THEOREM FreshCopies == Spec => []FreshIsCurrent
<1>1. Inv => FreshIsCurrent
  BY DEF Inv
<1>2. QED
  BY <1>1, Invariance, PTL

\* set_status merges its fields atomically, whoever else writes the object
\* between its GET and its PATCH (AtomicMerge).
THEOREM SetStatusAtomic == Spec => AtomicMerge
<1>1. Init => Store!Init
  BY DEF Init, Store!Init
<1>2. Inv /\ [Next]_vars => [Store!Next]_status
  <2> SUFFICES ASSUME Inv, [Next]_vars PROVE [Store!Next]_status
    OBVIOUS
  <2>1. ASSUME NEW w \in Writer, NEW u \in Update, Patch(w, u) PROVE Store!Next
    <3>1. obj[w] = status /\ status \in [Field -> Value]
      BY <2>1 DEF Inv, TypeOK, FreshIsCurrent, Patch
    <3>2. status' = Merge(status, u)
      BY <2>1, <3>1, MergeWhole DEF Patch
    <3>3. QED
      BY <3>2 DEF Store!Next, Merge
  <2>2. QED
    BY <2>1 DEF Next, Get, Refuse, Touch, vars
<1>3. QED
  BY <1>1, <1>2, Invariance, PTL DEF Spec, AtomicMerge, Store!Spec
=============================================================================
