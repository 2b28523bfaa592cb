--------------------------- MODULE FatWriteProofs ---------------------------
(***************************************************************************)
(* Proofs about FatWrite, for every size of volume, list and request: the  *)
(* types, and that the reserved entries of the FAT survive.                *)
(*                                                                         *)
(* Neither is inductive: that a write never touches entry 0 or a bad       *)
(* cluster depends on what the lists, the cache and the cursors hold in    *)
(* the middle of a call.  IInv says it.                                    *)
(***************************************************************************)
EXTENDS FatWrite, FiniteSetTheorems, SequenceTheorems, WellFoundedInduction, TLAPS

Usable == Cluster \ BadClusters
RunT   == [base : FatEntry, adj : Nat]

\* TypeOK, in parts that a step can be shown to keep one at a time.
ChainType == /\ fat \in [FatEntry -> FatEntry \cup {BadMark, EndMark}]
             /\ first \in [Files -> FatEntry] /\ size \in [Files -> Nat]
CursorType == from \in [Files -> Nat] /\ last \in [Files -> FatEntry]
WroteType == wrote \in [Files -> Seq(Cluster)]
FreeType == /\ cache \subseteq Scanned /\ scanFrom \in {0} \cup Scanned /\ curMin \in Nat
            /\ count \in Nat /\ flag \in {"UNKNOWN", "GUESSED", "KNOWN"}
PcType == pc \in PCs /\ file \in Files \cup {None} /\ (pc \in {"mount", "idle"} <=> file = None)
CallType == /\ todo \in Nat /\ done \in Nat /\ need \in Int /\ more \in BOOLEAN
            /\ pos \in FatEntry /\ freed \in Nat
ListType == lst \in Seq(RunT)
HistType == /\ res \in {"OK", "FAILED", "NOMORE"} /\ calls \in Nat /\ faults \in Nat
            /\ owner \in [Cluster -> SUBSET Files] /\ straddled \in BOOLEAN /\ torn \in BOOLEAN

\* Between calls a caller's cursor is a place in a chain or asks for allocation.
FromPlace ==
  \A f \in Files : \/ from[f] \in FatEntry \cup {ALLOC}
                   \/ f = file /\ pc \in {"take", "hand", "writeNew"}
OldFrom == pc \in {"walk", "writeOld"} => from[file] \in FatEntry

\* The cluster a new segment is linked to is not a bad one.
LastUsable == \A f \in Files : last[f] \notin BadClusters

\* Following a chain, only the cluster looked at next can turn out to be bad.
WalkAtEnd ==
  pc = "walk" =>
    /\ lst # <<>> /\ lst[Len(lst)].base + lst[Len(lst)].adj = pos
    /\ \A i \in 1 .. Len(lst) : RunSet(lst[i]) \ {pos} \subseteq Usable

\* The runs to be written are clusters of the data area and none is bad.
RunsUsable ==
  pc \in {"writeOld", "take", "hand", "writeNew"} =>
    \A i \in 1 .. Len(lst) : RunSet(lst[i]) \subseteq Usable
CacheUsable == cache \subseteq Usable

\* The runs handed out fit in what is to be written: h[i] clusters are still to
\* be written after the i-th run, and need of them are still to be found.
RunsFit ==
  pc \in {"take", "hand", "writeNew"} =>
    \E h \in [0 .. Len(lst) -> 0 .. MaxWrite] :
      /\ h[0] = todo
      /\ \A i \in 1 .. Len(lst) : h[i] = h[i - 1] - (lst[i].adj + 1)
      /\ pc # "writeNew" => h[Len(lst)] = IF need > 0 THEN need ELSE 0
TodoBound == todo <= MaxWrite

IInv == /\ TypeOK /\ ReservedKept
        /\ FromPlace /\ OldFrom /\ LastUsable /\ WalkAtEnd /\ RunsUsable /\ CacheUsable
        /\ RunsFit /\ TodoBound

\* TypeOK is the conjunction of its parts, before a step and after it.
LEMMA TypeParts ==
  /\ TypeOK <=> /\ ChainType /\ CursorType /\ WroteType /\ FreeType
                /\ PcType /\ CallType /\ ListType /\ HistType
  /\ TypeOK' <=> /\ ChainType' /\ CursorType' /\ WroteType' /\ FreeType'
                 /\ PcType' /\ CallType' /\ ListType' /\ HistType'
BY DEF TypeOK, ChainType, CursorType, WroteType, FreeType, PcType, CallType, ListType, HistType, RunT

-----------------------------------------------------------------------------
(* Sets of numbers                                                         *)

\* MinOf picks the least member of any set of naturals that has one.
LEMMA MinExists ==
  ASSUME NEW S \in SUBSET Nat, S # {}
  PROVE  MinOf(S) \in S /\ \A d \in S : MinOf(S) <= d
<1>1. PICK x \in S : \A y \in S : ~ (<<y, x>> \in OpToRel(<, Nat))
  BY NatLessThanWellFounded, WFMin
<1>2. \A y \in S : ~ (y < x)
  BY <1>1 DEF OpToRel
<1>3. \E c \in S : \A d \in S : c <= d
  BY <1>2
<1> QED BY <1>3 DEF MinOf

\* The largest member is the smallest upper bound.
LEMMA MaxExists ==
  ASSUME NEW n \in Nat, NEW S \in SUBSET (0 .. n), S # {}
  PROVE  MaxOf(S) \in S /\ \A d \in S : d <= MaxOf(S)
<1> DEFINE T == {k \in Nat : \A d \in S : d <= k}
<1>1. n \in T
  OBVIOUS
<1>2. T \in SUBSET Nat /\ T # {}
  BY <1>1
<1> DEFINE m == MinOf(T)
<1>3. m \in T /\ \A d \in T : m <= d
  BY <1>2, MinExists
<1>4. m \in S
  <2> SUFFICES ASSUME m \notin S PROVE FALSE
    OBVIOUS
  <2>1. \A d \in S : d <= m /\ d # m
    BY <1>3
  <2>2. PICK d \in S : TRUE
    OBVIOUS
  <2>3. d \in Nat /\ d < m
    BY <2>1, <2>2, <1>3
  <2>4. m - 1 \in Nat /\ \A e \in S : e <= m - 1
    BY <2>1, <2>3, <1>3
  <2> QED BY <2>4, <1>3
<1>5. \E c \in S : \A d \in S : d <= c
  BY <1>4, <1>3
<1> QED BY <1>5 DEF MaxOf

\* Clusters, the free entry, the end mark and the bad mark are all different.
LEMMA Marks ==
  /\ Cluster \subseteq Nat /\ Scanned \subseteq Cluster /\ Usable \subseteq Cluster
  /\ 0 \notin Cluster /\ FatEntry \subseteq Nat
  /\ EndMark \in Nat /\ BadMark \in Nat /\ EndMark \notin FatEntry /\ BadMark \notin FatEntry
  /\ EndMark # BadMark /\ Free \notin Cluster /\ Free # EndMark /\ Free # BadMark
  /\ Scanned \subseteq 0 .. CntDataClus
  /\ BadClusters \subseteq Cluster /\ Free = 0
BY ConstAssumption DEF Cluster, Scanned, Usable, FatEntry, EndMark, BadMark, Free

\* Sets of clusters the scan looks at have a cardinality.
LEMMA ScannedFinite ==
  ASSUME NEW S \in SUBSET Scanned
  PROVE  IsFiniteSet(S) /\ Cardinality(S) \in Nat
<1>1. IsFiniteSet(Scanned)
  BY FS_Interval, ConstAssumption DEF Scanned
<1>2. IsFiniteSet(S)
  BY <1>1, FS_Subset
<1> QED BY <1>2, FS_CardinalityType

-----------------------------------------------------------------------------
(* Runs                                                                    *)

\* The first run of a set is an interval that starts at the smallest member.
LEMMA FirstRunFacts ==
  ASSUME NEW S \in SUBSET Scanned, S # {}
  PROVE  /\ MinOf(S) \in S /\ FirstRun(S) \subseteq S
         /\ Cardinality(FirstRun(S)) \in Nat \ {0}
         /\ FirstRun(S) = MinOf(S) .. (MinOf(S) + Cardinality(FirstRun(S)) - 1)
<1> DEFINE m == MinOf(S)
           R == FirstRun(S)
<1>1. m \in S /\ \A d \in S : m <= d
  BY MinExists, Marks
<1>2. S \subseteq Nat /\ S \subseteq 0 .. CntDataClus /\ m \in Nat
  BY <1>1, Marks
<1>3. R \subseteq S /\ m \in R
  BY <1>1, <1>2 DEF FirstRun
<1> DEFINE M == MaxOf(R)
<1>4. M \in R /\ \A d \in R : d <= M
  <2>1. R \in SUBSET (0 .. CntDataClus) /\ R # {} /\ CntDataClus \in Nat
    BY <1>2, <1>3, ConstAssumption
  <2> QED BY <2>1, MaxExists
<1>5. M \in Nat /\ m .. M \subseteq S
  BY <1>2, <1>3, <1>4 DEF FirstRun
<1> HIDE DEF m, M
<1>6. R = m .. M
  <2>1. ASSUME NEW c \in R PROVE c \in m .. M
    BY <1>1, <1>2, <1>3, <1>4, <1>5
  <2>2. ASSUME NEW c \in m .. M PROVE c \in R
    <3>1. c \in S
      BY <1>5
    <3>2. \A d \in m .. c : d \in m .. M
      BY <1>2, <1>5
    <3>3. m .. c \subseteq S
      BY <1>5, <3>2
    <3> QED BY <3>1, <3>3 DEF FirstRun, m
  <2> QED BY <2>1, <2>2
<1>7. m <= M
  BY <1>3, <1>4, <1>1
<1>8. Cardinality(R) = M - m + 1
  BY <1>2, <1>5, <1>6, <1>7, FS_Interval
<1>9. Cardinality(R) \in Nat \ {0} /\ m + Cardinality(R) - 1 = M
  BY <1>2, <1>5, <1>7, <1>8
<1> QED BY <1>1, <1>3, <1>6, <1>9 DEF m

\* What the scan keeps is free space it has seen, at least one cluster for each
\* run; with the list full there is a run left to resume from.
LEMMA KeptFacts ==
  ASSUME NEW S \in SUBSET Scanned, S # {}, NEW minAdj \in Nat, NEW sz \in Nat \ {0}
  PROVE  /\ Kept(S, minAdj, sz) \subseteq S
         /\ Cardinality(Kept(S, minAdj, sz)) - Cardinality(KeptStarts(S, minAdj, sz)) \in Nat
         /\ Cardinality(KeptStarts(S, minAdj, sz)) \in Nat
         /\ ListFull(S, minAdj, sz) => Resume(S, minAdj, sz) \in Scanned
<1> DEFINE B == BigStarts(S, minAdj)
           K == KeptStarts(S, minAdj, sz)
           top == MaxOf(Starts(S))
<1>1. S \subseteq 0 .. CntDataClus /\ CntDataClus \in Nat /\ S \subseteq Nat
  BY Marks, ConstAssumption
<1>2. Starts(S) \subseteq S /\ Starts(S) # {}
  <2>1. MinOf(S) \in S /\ \A d \in S : MinOf(S) <= d
    BY <1>1, MinExists
  <2> DEFINE m == MinOf(S)
  <2> HIDE DEF m
  <2>2. m \in Nat /\ m \in S /\ \A d \in S : m <= d
    BY <1>1, <2>1 DEF m
  <2>3. m - 1 \notin S
    <3> SUFFICES ASSUME m - 1 \in S PROVE FALSE
      OBVIOUS
    <3>1. m <= m - 1
      BY <2>2
    <3> QED BY <2>2, <3>1
  <2> QED BY <2>2, <2>3 DEF Starts
<1>3. top \in Starts(S) /\ \A b \in Starts(S) : b <= top
  <2>1. Starts(S) \in SUBSET (0 .. CntDataClus)
    BY <1>1, <1>2
  <2> QED BY <1>1, <1>2, <2>1, MaxExists
<1>4. B \subseteq Starts(S) /\ \A b \in B : b # top
  BY DEF BigStarts
<1>5. K \subseteq Starts(S)
  BY <1>3, <1>4 DEF KeptStarts
<1>6. ASSUME NEW b \in S PROVE b \in RunAt(S, b) /\ RunAt(S, b) \subseteq S
  <2> DEFINE T == {c \in S : c >= b}
  <2>0. b \in Nat
    BY <1>1
  <2>1. b \in T /\ T \subseteq Nat /\ \A d \in T : b <= d
    <3>1. S \subseteq Nat
      BY <1>1
    <3>2. b \in T
      BY <2>0
    <3>3. T \subseteq Nat
      BY <3>1
    <3>4. \A d \in T : b <= d
      BY <3>3
    <3> QED BY <3>2, <3>3, <3>4
  <2>2. MinOf(T) \in T /\ \A d \in T : MinOf(T) <= d
    BY <2>1, MinExists
  <2>3. MinOf(T) = b
    BY <2>1, <2>2
  <2>4. b .. b = {b} /\ {b} \subseteq T
    BY <1>1, <2>1
  <2> QED BY <2>1, <2>3, <2>4 DEF RunAt, FirstRun
<1>7. Kept(S, minAdj, sz) \subseteq S
  BY <1>2, <1>5, <1>6 DEF Kept
<1>8. K \subseteq Kept(S, minAdj, sz)
  BY <1>2, <1>5, <1>6 DEF Kept
<1>9. Cardinality(Kept(S, minAdj, sz)) - Cardinality(K) \in Nat /\ Cardinality(K) \in Nat
  <2>1. Kept(S, minAdj, sz) \in SUBSET Scanned /\ K \in SUBSET Scanned
    BY <1>7, <1>8
  <2>2. /\ IsFiniteSet(Kept(S, minAdj, sz))
        /\ Cardinality(Kept(S, minAdj, sz)) \in Nat /\ Cardinality(K) \in Nat
    BY <2>1, ScannedFinite
  <2>3. Cardinality(K) <= Cardinality(Kept(S, minAdj, sz))
    BY <1>8, <2>2, FS_Subset
  <2> QED BY <2>2, <2>3
<1>10. ASSUME ListFull(S, minAdj, sz) PROVE Resume(S, minAdj, sz) \in Scanned
  <2>1. B # {}
    <3> SUFFICES ASSUME B = {} PROVE FALSE
      OBVIOUS
    <3>1. Cardinality(B) = 0
      BY FS_EmptySet
    <3> QED BY <3>1, <1>10 DEF ListFull
  <2>2. B \in SUBSET Nat
    BY <1>1, <1>2, <1>4
  <2>3. MinOf(B) \in B /\ \A a \in B : MinOf(B) <= a
    BY <2>1, <2>2, MinExists
  <2>4. {a \in B : a < MinOf(B)} = {}
    BY <2>2, <2>3
  <2>5. MinOf(B) \in K
    <3>1. Cardinality({a \in B : a < MinOf(B)}) < sz
      BY <2>4, FS_EmptySet
    <3> QED BY <3>1, <2>3, <1>10 DEF KeptStarts
  <2>6. K \subseteq B
    BY <1>10 DEF KeptStarts
  <2>7. K \in SUBSET (0 .. CntDataClus)
    BY <1>1, <1>2, <1>5
  <2>8. MaxOf(K) \in K
    BY <1>1, <2>5, <2>7, MaxExists
  <2>9. MaxOf(K) < top
    <3>1. top \in Nat /\ MaxOf(K) \in Nat
      BY <1>1, <1>2, <1>3, <1>5, <2>8
    <3>2. MaxOf(K) \in Starts(S) /\ MaxOf(K) # top
      BY <1>4, <2>6, <2>8
    <3>3. MaxOf(K) <= top
      BY <1>3, <3>2
    <3> HIDE DEF K, top
    <3> QED BY <3>1, <3>2, <3>3
  <2> DEFINE R == {b \in Starts(S) : b > MaxOf(K)}
  <2>10. R \in SUBSET Nat /\ R # {}
    BY <1>1, <1>2, <1>3, <2>9
  <2>11. MinOf(R) \in R
    BY <2>10, MinExists
  <2> QED BY <2>11, <1>2 DEF Resume
<1> QED BY <1>7, <1>9, <1>10

-----------------------------------------------------------------------------
(* Chains and the FAT                                                      *)

\* A segment linked after a cluster that is not bad keeps the FAT a table and
\* entry 0 and the bad marks as they are, also when the linking is cut short.
LEMMA LinkKeeps ==
  ASSUME IInv, NEW f \in Files, NEW s \in Usable, NEW e \in Usable, s <= e, s .. e \subseteq Usable,
         NEW m \in s - 1 .. e, fat' = SetEntries(fat, last[f], s, e, m)
  PROVE  fat' \in [FatEntry -> FatEntry \cup {BadMark, EndMark}] /\ ReservedKept'
<1>1. /\ s \in Nat /\ e \in Nat /\ m \in Int /\ Usable \subseteq FatEntry
      /\ last[f] # 0 => last[f] \in Usable
  <2>1. s \in Cluster /\ e \in Cluster /\ s \in Nat /\ e \in Nat
    BY Marks
  <2>2. last[f] \in FatEntry /\ last[f] \notin BadClusters
    BY DEF IInv, TypeOK, LastUsable
  <2> QED BY <2>1, <2>2 DEF Usable, FatEntry
<1>2. fat \in [FatEntry -> FatEntry \cup {BadMark, EndMark}]
  BY DEF IInv, TypeOK
<1>3. ASSUME NEW c \in s .. m PROVE c \in Usable /\ (c # e => c + 1 \in Usable)
  <2>1. c \in s .. e /\ (c # e => c + 1 \in s .. e)
    BY <1>1, <1>3
  <2> QED BY <2>1
<1>4. fat' \in [FatEntry -> FatEntry \cup {BadMark, EndMark}]
  <2>1. ASSUME NEW c \in FatEntry
        PROVE  (IF c \in s .. m THEN (IF c = e THEN EndMark ELSE c + 1)
                ELSE IF last[f] # 0 /\ c = last[f] THEN s ELSE fat[c])
                 \in FatEntry \cup {BadMark, EndMark}
    BY <1>1, <1>2, <1>3
  <2> QED BY <1>2, <2>1 DEF SetEntries
<1>5. ASSUME NEW c \in FatEntry \ Usable PROVE fat'[c] = fat[c]
  <2>1. c \notin s .. m /\ ~(last[f] # 0 /\ c = last[f])
    BY <1>1, <1>3
  <2> QED BY <1>2, <2>1 DEF SetEntries
<1>6. 0 \in FatEntry \ Usable /\ BadClusters \subseteq FatEntry \ Usable
  BY Marks DEF FatEntry, Usable
<1> QED BY <1>4, <1>5, <1>6 DEF IInv, ReservedKept

-----------------------------------------------------------------------------
(* The free list                                                           *)

\* A scan fills the cache with clusters that a file may be given.
LEMMA RescanFacts ==
  ASSUME IInv, NEW S \in SUBSET Visible, Rescan(S)
  PROVE  /\ cache' \subseteq Scanned /\ cache' \subseteq Usable
         /\ scanFrom' \in {0} \cup Scanned /\ curMin' \in Nat
         /\ count' \in Nat /\ flag' \in {"UNKNOWN", "GUESSED", "KNOWN"}
<1>1. S \in SUBSET Scanned /\ S \subseteq Usable
  BY Marks DEF Visible, FreeSet, Usable, IInv, ReservedKept
<1>2. MinForScan \in Nat
  BY DEF MinForScan, IInv, TypeOK
<1>3. FreeClSize \in Nat \ {0}
  BY ConstAssumption
<1>4. CASE S = {}
  BY <1>2, <1>4 DEF Rescan, IInv, TypeOK
<1>5. CASE S # {}
  <2>1. /\ Kept(S, MinForScan, FreeClSize) \subseteq S
        /\ Cardinality(Kept(S, MinForScan, FreeClSize)) -
             Cardinality(KeptStarts(S, MinForScan, FreeClSize)) \in Nat
        /\ ListFull(S, MinForScan, FreeClSize) => Resume(S, MinForScan, FreeClSize) \in Scanned
    BY <1>1, <1>2, <1>3, <1>5, KeptFacts
  <2>2. ScanStart \in Scanned
    <3>1. PICK c \in S : c \in Scanned
      BY <1>1, <1>5
    <3>2. CntDataClus \in Nat
      BY ConstAssumption
    <3>3. 2 \in Scanned
      BY <3>1, <3>2 DEF Scanned
    <3> QED BY <3>3 DEF ScanStart, IInv, TypeOK, Scanned
  <2>3. cache' = Kept(S, MinForScan, FreeClSize) /\ curMin' = MinForScan
    BY <1>5 DEF Rescan
  <2>4. scanFrom' \in Scanned
    BY <1>5, <2>1, <2>2 DEF Rescan
  <2>5. GuessFreeClusters(Cardinality(Kept(S, MinForScan, FreeClSize)) -
                          Cardinality(KeptStarts(S, MinForScan, FreeClSize)))
    BY <1>5, <2>3 DEF Rescan
  <2>6. count' \in Nat /\ flag' \in {"UNKNOWN", "GUESSED", "KNOWN"}
    BY <2>1, <2>5 DEF GuessFreeClusters, IInv, TypeOK
  <2> QED BY <1>1, <1>2, <2>1, <2>3, <2>4, <2>6
<1> QED BY <1>4, <1>5

-----------------------------------------------------------------------------
(* The actions                                                             *)

\* Between calls no list is under way.
LEMMA ReturnIInv ==
  ASSUME TypeOK', ReservedKept', LastUsable', CacheUsable', TodoBound', pc' = "idle",
         \A f \in Files : from'[f] \in FatEntry \cup {ALLOC}
  PROVE  IInv'
BY DEF IInv, FromPlace, OldFrom, WalkAtEnd, RunsUsable, RunsFit

\* A call that gives up forgets the cursor of its file.
LEMMA FailIInv ==
  ASSUME IInv, NEW r \in {"FAILED", "NOMORE"}, Fail(r), pc \notin {"mount", "idle"},
         UNCHANGED <<chainVars, freeVars, straddled, torn, calls, owner>>, faults' \in Nat
  PROVE  IInv'
<1>3. file \in Files
  BY DEF IInv, TypeOK
<1>0. ChainType /\ CursorType /\ WroteType /\ FreeType /\ PcType /\ CallType /\ ListType /\ HistType
  BY TypeParts DEF IInv
<1>1. TypeOK'
  <2>1. ChainType' /\ FreeType'
    BY <1>0 DEF ChainType, FreeType, chainVars, freeVars
  <2>2. CursorType'
    BY <1>0, <1>3 DEF CursorType, Fail, ForgetCursor, FatEntry
  <2>3. WroteType'
    BY <1>0, EmptySeq DEF WroteType, Fail, ForgetCursor
  <2>4. PcType'
    BY DEF PcType, Fail, Return, PCs
  <2>7. CallType'
    <3>1. todo' \in Nat /\ done' \in Nat /\ need' \in Int /\ pos' \in FatEntry /\ freed' \in Nat
      BY <1>0 DEF CallType, FatEntry, Fail, Return
    <3>2. more' \in BOOLEAN
      BY DEF Fail, Return
    <3> QED BY <3>1, <3>2 DEF CallType
  <2>5. ListType'
    BY EmptySeq DEF ListType, Fail, Return
  <2>6. HistType'
    BY <1>0 DEF HistType, Fail, Return
  <2> QED BY <2>1, <2>2, <2>3, <2>4, <2>5, <2>6, <2>7, TypeParts
<1>2. ReservedKept' /\ CacheUsable' /\ TodoBound'
  BY DEF IInv, ReservedKept, CacheUsable, TodoBound, Fail, chainVars, freeVars
<1>4. LastUsable'
  BY <1>3, Marks DEF IInv, LastUsable, TypeOK, Fail, ForgetCursor
<1>5. \A f \in Files : from'[f] \in FatEntry \cup {ALLOC}
  BY <1>3 DEF IInv, FromPlace, TypeOK, Fail, ForgetCursor, FatEntry
<1> QED BY <1>1, <1>2, <1>4, <1>5, ReturnIInv DEF Fail, Return

-----------------------------------------------------------------------------
(* What a step leaves alone                                                *)

\* What the invariant says of types, part by part; a running call has a file.
LEMMA InvParts ==
  ASSUME IInv
  PROVE  /\ ChainType /\ CursorType /\ WroteType /\ FreeType
         /\ PcType /\ CallType /\ ListType /\ HistType
         /\ pc \notin {"mount", "idle"} => file \in Files
<1>1. TypeOK
  BY DEF IInv
<1>2. pc \notin {"mount", "idle"} => file \in Files
  BY <1>1 DEF TypeOK
<1> QED BY <1>1, <1>2, TypeParts

\* A step that leaves the FAT and the files alone keeps what is said of them ...
LEMMA SameChains ==
  ASSUME IInv, UNCHANGED chainVars
  PROVE  ChainType' /\ ReservedKept'
BY InvParts DEF IInv, ChainType, ReservedKept, chainVars

\* ... and likewise the free list and the counter ...
LEMMA SameFree ==
  ASSUME IInv, UNCHANGED freeVars
  PROVE  FreeType' /\ CacheUsable'
BY InvParts DEF IInv, FreeType, CacheUsable, freeVars

\* ... the callers' cursors ...
LEMMA SameCursors ==
  ASSUME IInv, UNCHANGED curVars
  PROVE  CursorType' /\ LastUsable' /\ WroteType'
BY InvParts DEF IInv, CursorType, LastUsable, WroteType, curVars

\* ... and the histories.
LEMMA SameHist ==
  ASSUME IInv, UNCHANGED histVars, UNCHANGED res, faults' \in Nat
  PROVE  HistType'
BY InvParts DEF HistType, histVars

\* The parts of the invariant that a step keeps make up the invariant.
LEMMA Together ==
  ASSUME ChainType', CursorType', WroteType', FreeType', PcType', CallType', ListType', HistType',
         ReservedKept', FromPlace', OldFrom', LastUsable', WalkAtEnd', RunsUsable', CacheUsable',
         RunsFit', TodoBound'
  PROVE  IInv'
BY TypeParts DEF IInv

\* A scan counts at most one failure.
LEMMA SeenFaults ==
  ASSUME IInv, NEW S, Seen(S)
  PROVE  faults' \in Nat
BY InvParts DEF Seen, Fault, HistType

\* fatfs_getopti_freecluslist is entered with nothing handed out yet.
LEMMA AskForFits ==
  ASSUME IInv, NEW n \in 0 .. MaxWrite, AskFor(n), todo' = n
  PROVE  ListType' /\ RunsUsable' /\ RunsFit' /\ TodoBound' /\ need' \in Int /\ pc' \in {"take", "hand"}
<1>1. lst' = <<>> /\ need' = n /\ pc' \in {"take", "hand"} /\ n \in Nat /\ n <= MaxWrite
  BY ConstAssumption DEF AskFor
<1>2. Len(lst') = 0
  BY <1>1
<1> DEFINE h == [i \in 0 .. 0 |-> n]
<1>3. h \in [0 .. Len(lst') -> 0 .. MaxWrite] /\ h[0] = n
  BY <1>2
<1>4. \A i \in 1 .. Len(lst') : FALSE
  BY <1>2
<1>5. h[Len(lst')] = IF need' > 0 THEN need' ELSE 0
  BY <1>1, <1>2, <1>3
<1> HIDE DEF h
<1>6. RunsFit'
  BY <1>3, <1>4, <1>5 DEF RunsFit
<1>7. RunsUsable'
  BY <1>4 DEF RunsUsable
<1> QED BY <1>1, <1>6, <1>7, EmptySeq DEF ListType, TodoBound

-----------------------------------------------------------------------------
(* Mounting, and taking free clusters                                      *)

\* The first scan of a mount keeps the invariant.
LEMMA MountIInv == IInv /\ Mount => IInv'
<1> SUFFICES ASSUME IInv, Mount PROVE IInv'
  OBVIOUS
<1>1. UNCHANGED <<chainVars, curVars, callVars, histVars, res>> /\ pc = "mount" /\ pc' = "idle"
  BY DEF Mount
<1>2. FreeType' /\ CacheUsable' /\ faults' \in Nat
  <2>1. CASE UNCHANGED <<freeVars, faults>>
    BY <2>1, SameFree, InvParts DEF HistType
  <2>2. CASE \E S \in SUBSET Visible : Seen(S) /\ Rescan(S)
    BY <2>2, RescanFacts, SeenFaults DEF FreeType, CacheUsable
  <2> QED BY <2>1, <2>2 DEF Mount
<1>3. ChainType' /\ ReservedKept' /\ CursorType' /\ LastUsable' /\ WroteType' /\ HistType'
  BY <1>1, <1>2, SameChains, SameCursors, SameHist
<1>4. PcType' /\ CallType' /\ ListType' /\ TodoBound'
  BY <1>1, InvParts DEF PcType, CallType, ListType, TodoBound, IInv, callVars, PCs
<1>5. \A f \in Files : from'[f] \in FatEntry \cup {ALLOC}
  BY <1>1 DEF IInv, FromPlace, curVars
<1>6. TypeOK'
  BY <1>2, <1>3, <1>4, TypeParts
<1> QED BY <1>1, <1>2, <1>3, <1>4, <1>5, <1>6, ReturnIInv

\* Giving up for want of free clusters keeps it.
LEMMA TakeNothingLeftIInv == IInv /\ TakeNothingLeft => IInv'
<1> SUFFICES ASSUME IInv, TakeNothingLeft PROVE IInv'
  OBVIOUS
<1>1. Fail("NOMORE") /\ pc = "take" /\ UNCHANGED <<chainVars, freeVars, histVars, faults>>
  BY DEF TakeNothingLeft
<1>2. faults' \in Nat
  BY <1>1, InvParts DEF HistType
<1> QED BY <1>1, <1>2, FailIInv DEF histVars

\* A repeated scan keeps what was handed out before it.
LEMMA TakeRescanIInv == IInv /\ TakeRescan => IInv'
<1> SUFFICES ASSUME IInv, TakeRescan PROVE IInv'
  OBVIOUS
<1>1. /\ pc = "take" /\ pc' \in {"take", "hand"}
      /\ UNCHANGED <<chainVars, curVars, callVars, owner, torn, calls, res>>
  BY DEF TakeRescan
<1>2. PICK S \in SUBSET Visible : Seen(S) /\ Rescan(S)
  BY DEF TakeRescan
<1>3. FreeType' /\ CacheUsable' /\ faults' \in Nat
  BY <1>2, RescanFacts, SeenFaults DEF FreeType, CacheUsable
<1>4. ChainType' /\ ReservedKept' /\ CursorType' /\ LastUsable' /\ WroteType'
  BY <1>1, SameChains, SameCursors
<1>5. CallType' /\ ListType' /\ TodoBound'
  BY <1>1, InvParts DEF CallType, ListType, TodoBound, IInv, callVars
<1>6. PcType'
  BY <1>1, InvParts DEF PcType, PCs, callVars
<1>7. HistType'
  <2>1. straddled' \in BOOLEAN
    BY DEF TakeRescan
  <2> QED BY <1>1, <1>3, <2>1, InvParts DEF HistType
<1>8. FromPlace' /\ OldFrom' /\ WalkAtEnd'
  BY <1>1 DEF IInv, FromPlace, OldFrom, WalkAtEnd, curVars, callVars
<1>9. RunsUsable' /\ RunsFit'
  BY <1>1 DEF IInv, RunsUsable, RunsFit, callVars
<1> QED BY <1>3, <1>4, <1>5, <1>6, <1>7, <1>8, <1>9, Together

\* Moving a run from the cache to the list: it is cut to what is asked for,
\* so the runs still fit in what is to be written.
LEMMA HandRunIInv == IInv /\ HandRun => IInv'
<1> SUFFICES ASSUME IInv, HandRun PROVE IInv'
  OBVIOUS
<1> DEFINE run == FirstRun(cache)
           card == Cardinality(run)
           got == IF card <= need THEN card ELSE need
           m == MinOf(cache)
           r == Run(m, got - 1)
<1>1. /\ pc = "hand" /\ pc' \in {"take", "hand"} /\ need > 0 /\ cache # {}
      /\ lst' = Append(lst, r) /\ cache' = KeepRest(got) /\ need' = need - card
      /\ UNCHANGED <<chainVars, scanFrom, curMin, count, flag, curVars, file, todo,
                     done, more, pos, freed, histVars, res, faults>>
  BY DEF HandRun
<1>2. need \in Int /\ cache \in SUBSET Scanned /\ cache \subseteq Usable
  BY InvParts DEF CallType, FreeType, IInv, CacheUsable
<1>3. /\ m \in cache /\ run \subseteq cache /\ card \in Nat \ {0} /\ run = m .. (m + card - 1)
  BY <1>1, <1>2, FirstRunFacts
<1>4. m \in Cluster /\ m \in Nat
  BY <1>2, <1>3, Marks
<1> HIDE DEF m, card, run
<1>5. got \in Nat \ {0} /\ got <= card /\ got <= need
  BY <1>1, <1>2, <1>3
<1>6. r \in RunT /\ r.base = m /\ r.adj = got - 1
  BY <1>4, <1>5 DEF Run, RunT, FatEntry
<1>7. RunSet(r) \subseteq Usable
  <2>1. RunSet(r) = m .. (m + (got - 1))
    BY <1>6 DEF RunSet
  <2>2. m .. (m + (got - 1)) \subseteq m .. (m + card - 1)
    BY <1>3, <1>4, <1>5
  <2> QED BY <1>2, <1>3, <2>1, <2>2
<1> HIDE DEF r
<1>8. lst \in Seq(RunT) /\ Len(lst) \in Nat
  BY InvParts, LenProperties DEF ListType
<1>9. /\ lst' \in Seq(RunT) /\ Len(lst') = Len(lst) + 1
      /\ \A i \in 1 .. Len(lst) : lst'[i] = lst[i]
      /\ lst'[Len(lst) + 1] = r
  BY <1>1, <1>6, <1>8, AppendProperties
<1>10. RunsUsable'
  <2>1. ASSUME NEW i \in 1 .. Len(lst') PROVE RunSet(lst'[i]) \subseteq Usable
    <3>1. CASE i = Len(lst) + 1
      BY <1>7, <1>9, <3>1
    <3>2. CASE i # Len(lst) + 1
      <4>1. i \in 1 .. Len(lst)
        BY <1>8, <1>9, <3>2
      <4> QED BY <1>1, <1>9, <4>1 DEF IInv, RunsUsable
    <3> QED BY <3>1, <3>2
  <2> QED BY <2>1 DEF RunsUsable, RunSet
<1>11. RunsFit'
  <2>1. PICK h \in [0 .. Len(lst) -> 0 .. MaxWrite] :
          /\ h[0] = todo
          /\ \A i \in 1 .. Len(lst) : h[i] = h[i - 1] - (lst[i].adj + 1)
          /\ h[Len(lst)] = IF need > 0 THEN need ELSE 0
    BY <1>1 DEF IInv, RunsFit
  <2>2. h[Len(lst)] = need /\ need <= MaxWrite
    <3>1. Len(lst) \in 0 .. Len(lst)
      BY <1>8
    <3>2. MaxWrite \in Nat
      BY ConstAssumption
    <3> QED BY <1>1, <2>1, <3>1, <3>2
  <2> DEFINE g == [i \in 0 .. Len(lst') |-> IF i = Len(lst') THEN need - got ELSE h[i]]
  <2>3. need - got \in 0 .. MaxWrite /\ need - got = IF need' > 0 THEN need' ELSE 0
    <3>1. MaxWrite \in Nat
      BY ConstAssumption
    <3> QED BY <1>1, <1>2, <1>3, <1>5, <2>2, <3>1
  <2> HIDE DEF got
  <2>4. g \in [0 .. Len(lst') -> 0 .. MaxWrite] /\ g[0] = todo /\ g[Len(lst')] = need - got
    <3>1. ASSUME NEW i \in 0 .. Len(lst') PROVE g[i] \in 0 .. MaxWrite
      <4>1. i # Len(lst') => i \in 0 .. Len(lst)
        BY <1>8, <1>9
      <4> QED BY <2>1, <2>3, <4>1
    <3>2. 0 \in 0 .. Len(lst') /\ 0 # Len(lst') /\ Len(lst') \in 0 .. Len(lst')
      BY <1>8, <1>9
    <3> QED BY <2>1, <3>1, <3>2
  <2>5. ASSUME NEW i \in 1 .. Len(lst') PROVE g[i] = g[i - 1] - (lst'[i].adj + 1)
    <3>0. i \in 0 .. Len(lst') /\ i - 1 \in 0 .. Len(lst') /\ i - 1 # Len(lst')
      BY <1>8, <1>9
    <3>1. CASE i = Len(lst')
      <4>1. g[i] = need - got /\ g[i - 1] = h[i - 1] /\ i - 1 = Len(lst)
        BY <1>8, <1>9, <3>0, <3>1
      <4>2. got \in Nat /\ lst'[i].adj = got - 1
        BY <1>5, <1>6, <1>9, <3>1
      <4> QED BY <1>2, <2>2, <4>1, <4>2
    <3>2. CASE i # Len(lst')
      <4>1. i \in 1 .. Len(lst) /\ g[i] = h[i] /\ g[i - 1] = h[i - 1]
        BY <1>8, <1>9, <3>0, <3>2
      <4> QED BY <1>9, <2>1, <4>1
    <3> QED BY <3>1, <3>2
  <2> HIDE DEF g
  <2> QED BY <1>1, <2>3, <2>4, <2>5 DEF RunsFit
<1>12. FreeType' /\ CacheUsable'
  <2>1. cache' \subseteq cache
    BY <1>1 DEF KeepRest
  <2>2. FreeType'
    BY <1>1, <2>1, InvParts DEF FreeType
  <2> QED BY <1>2, <2>1, <2>2 DEF CacheUsable
<1>13. ChainType' /\ ReservedKept' /\ CursorType' /\ LastUsable' /\ WroteType' /\ HistType'
  BY <1>1, InvParts, SameChains, SameCursors, SameHist DEF HistType
<1>14. PcType' /\ ListType'
  BY <1>1, <1>9, InvParts DEF PcType, ListType, PCs
<1>15. CallType' /\ TodoBound'
  <2>1. need' \in Int
    BY <1>1, <1>2, <1>3
  <2> QED BY <1>1, <2>1, InvParts DEF CallType, TodoBound, IInv
<1>16. FromPlace' /\ OldFrom' /\ WalkAtEnd'
  BY <1>1 DEF IInv, FromPlace, OldFrom, WalkAtEnd, curVars
<1> QED BY <1>10, <1>11, <1>12, <1>13, <1>14, <1>15, <1>16, Together

\* Returning the list handed out keeps it.
LEMMA HandReturnIInv == IInv /\ HandReturn => IInv'
<1> SUFFICES ASSUME IInv, HandReturn PROVE IInv'
  OBVIOUS
<1>1. /\ pc = "hand" /\ pc' = "writeNew"
      /\ UNCHANGED <<chainVars, freeVars, curVars, file, todo, done, need, lst, pos, freed,
                     histVars, res, faults>>
  BY DEF HandReturn
<1>2. more' \in BOOLEAN
  BY DEF HandReturn
<1>3. ChainType' /\ ReservedKept' /\ CursorType' /\ LastUsable' /\ WroteType' /\ HistType'
  BY <1>1, InvParts, SameChains, SameCursors, SameHist DEF HistType
<1>4. FreeType' /\ CacheUsable'
  BY <1>1, SameFree
<1>5. PcType' /\ ListType' /\ TodoBound'
  BY <1>1, InvParts DEF PcType, ListType, PCs, TodoBound, IInv
<1>6. CallType'
  BY <1>1, <1>2, InvParts DEF CallType
<1>7. FromPlace' /\ OldFrom' /\ WalkAtEnd'
  BY <1>1 DEF IInv, FromPlace, OldFrom, WalkAtEnd, curVars
<1>8. RunsUsable' /\ RunsFit'
  BY <1>1 DEF IInv, RunsUsable, RunsFit
<1> QED BY <1>3, <1>4, <1>5, <1>6, <1>7, <1>8, Together

-----------------------------------------------------------------------------
(* Writing over the clusters a file has                                    *)

\* A write begins at a cluster of a chain, at entry 0 or with an allocation.
LEMMA StoreBeginIInv ==
  ASSUME IInv, NEW f \in Files, NEW n \in 1 .. MaxWrite, StoreBegin(f, n)
  PROVE  IInv'
<1>1. /\ pc = "idle" /\ calls' = calls + 1
      /\ file' = f /\ todo' = n /\ done' = 0 /\ more' = FALSE
      /\ UNCHANGED <<chainVars, freeVars, last, wrote, freed, owner, straddled, torn, res, faults>>
  BY DEF StoreBegin
<1>2. ChainType' /\ ReservedKept' /\ FreeType' /\ CacheUsable' /\ LastUsable' /\ WroteType'
  BY <1>1, SameChains, SameFree, InvParts DEF LastUsable, WroteType, IInv
<1>3. HistType'
  BY <1>1, InvParts DEF HistType
<1>4. \A g \in Files : from[g] \in FatEntry \cup {ALLOC}
  BY <1>1 DEF IInv, FromPlace
<1>5. n \in 0 .. MaxWrite /\ n \in Nat /\ n <= MaxWrite
  BY ConstAssumption
<1>6. more' \in BOOLEAN
  BY <1>1
<1>7. CASE from[f] = ALLOC
  <2>1. from' = [from EXCEPT ![f] = 0] /\ AskFor(n) /\ pos' = pos
    BY <1>7 DEF StoreBegin
  <2>2. /\ ListType' /\ RunsUsable' /\ RunsFit' /\ TodoBound' /\ need' \in Int
        /\ pc' \in {"take", "hand"}
    BY <1>1, <1>5, <2>1, AskForFits
  <2>3. CursorType'
    BY <1>1, <2>1, InvParts DEF CursorType
  <2>4. PcType'
    BY <1>1, <2>2, ConstAssumption DEF PcType, PCs
  <2>5. CallType'
    BY <1>1, <1>5, <1>6, <2>1, <2>2, InvParts DEF CallType
  <2>6. FromPlace' /\ OldFrom' /\ WalkAtEnd'
    BY <1>1, <1>4, <2>1, <2>2, InvParts DEF FromPlace, OldFrom, WalkAtEnd, CursorType
  <2> QED BY <1>2, <1>3, <2>2, <2>3, <2>4, <2>5, <2>6, Together
<1>8. CASE from[f] # ALLOC
  <2> DEFINE start == IF from[f] = 0 THEN first[f] ELSE from[f]
  <2>1. /\ pc' = "walk" /\ pos' = start /\ lst' = <<Run(start, 0)>>
        /\ UNCHANGED <<from, need>>
    BY <1>8 DEF StoreBegin
  <2>2. start \in FatEntry
    BY <1>4, <1>8, InvParts DEF ChainType
  <2> HIDE DEF start
  <2>3. Run(start, 0) \in RunT /\ RunSet(Run(start, 0)) = {start}
    BY <2>2, Marks DEF RunT, Run, RunSet
  <2>4. ListType' /\ Len(lst') = 1 /\ lst'[1] = Run(start, 0) /\ lst' # <<>>
    BY <2>1, <2>3 DEF ListType
  <2>5. WalkAtEnd'
    <3>1. lst'[Len(lst')].base + lst'[Len(lst')].adj = pos'
      BY <2>1, <2>2, <2>4, Marks DEF Run
    <3>2. \A i \in 1 .. Len(lst') : RunSet(lst'[i]) = {pos'}
      BY <2>1, <2>3, <2>4 DEF RunSet
    <3> QED BY <2>4, <3>1, <3>2 DEF WalkAtEnd, RunSet
  <2>6. CursorType'
    BY <1>1, <2>1, InvParts DEF CursorType
  <2>7. PcType'
    BY <1>1, <2>1, ConstAssumption DEF PcType, PCs
  <2>8. CallType'
    BY <1>1, <1>5, <1>6, <2>1, <2>2, InvParts DEF CallType
  <2>9. FromPlace' /\ OldFrom'
    BY <1>1, <1>4, <1>8, <2>1 DEF FromPlace, OldFrom
  <2>10. RunsUsable' /\ RunsFit' /\ TodoBound'
    BY <1>1, <1>5, <2>1 DEF RunsUsable, RunsFit, TodoBound
  <2> QED BY <1>2, <1>3, <2>4, <2>5, <2>6, <2>7, <2>8, <2>9, <2>10, Together
<1> QED BY <1>7, <1>8

\* A cluster whose entry is neither a bad mark nor that of entry 0 is usable.
LEMMA PosUsable ==
  ASSUME IInv, fat[pos] # BadMark, pos # 0
  PROVE  pos \in Usable
BY InvParts, Marks DEF IInv, ReservedKept, CallType, FatEntry, Usable

\* Following a chain by one entry: the cluster left behind is not a bad one.
LEMMA WalkNextIInv == IInv /\ WalkNext => IInv'
<1> SUFFICES ASSUME IInv, WalkNext PROVE IInv'
  OBVIOUS
<1>1. /\ pc = "walk" /\ fat[pos] \in Cluster
      /\ UNCHANGED <<chainVars, freeVars, last, wrote, file, todo, done, need, freed,
                     histVars, res, faults>>
  BY DEF WalkNext
<1>2. pos \in Usable /\ pos \in Nat /\ fat[pos] \in FatEntry /\ file \in Files
  <2>1. fat[pos] # BadMark /\ pos # 0
    BY <1>1, Marks DEF IInv, ReservedKept, FatEntry
  <2> QED BY <1>1, <2>1, PosUsable, InvParts, Marks DEF FatEntry, Usable
<1>3. ChainType' /\ ReservedKept' /\ FreeType' /\ CacheUsable' /\ LastUsable' /\ WroteType' /\ HistType'
  BY <1>1, SameChains, SameFree, SameHist, InvParts DEF LastUsable, WroteType, IInv, HistType
<1>4. lst \in Seq(RunT) /\ Len(lst) \in Nat /\ lst # <<>> /\ Len(lst) \in 1 .. Len(lst)
  <2>1. lst \in Seq(RunT) /\ lst # <<>>
    BY <1>1, InvParts DEF ListType, IInv, WalkAtEnd
  <2>2. Len(lst) \in Nat /\ Len(lst) # 0
    BY <2>1, EmptySeq, LenProperties
  <2> QED BY <2>1, <2>2
<1>5. \A i \in 1 .. Len(lst) : RunSet(lst[i]) \subseteq Usable /\ lst[i] \in RunT
  <2>1. ASSUME NEW i \in 1 .. Len(lst) PROVE RunSet(lst[i]) \subseteq Usable
    <3>1. RunSet(lst[i]) \ {pos} \subseteq Usable
      BY <1>1 DEF IInv, WalkAtEnd
    <3> QED BY <1>2, <3>1
  <2> QED BY <1>4, <2>1, ElementOfSeq
<1>6. lst[Len(lst)].base + lst[Len(lst)].adj = pos
  BY <1>1 DEF IInv, WalkAtEnd
<1>7. TodoBound'
  BY <1>1 DEF IInv, TodoBound
<1>8. CASE SameRun
  <2>1. /\ lst' = [lst EXCEPT ![Len(lst)].adj = @ + 1] /\ pos' = pos + 1
        /\ UNCHANGED <<pc, more, from>> /\ pos' \in FatEntry
    BY <1>2, <1>8 DEF WalkNext, SameRun
  <2> DEFINE r == [lst[Len(lst)] EXCEPT !.adj = @ + 1]
  <2>2. r \in RunT /\ r.base = lst[Len(lst)].base /\ r.adj = lst[Len(lst)].adj + 1
    BY <1>4, <1>5 DEF RunT
  <2>3. lst' = [lst EXCEPT ![Len(lst)] = r]
    BY <1>4, <2>1
  <2> HIDE DEF r
  <2>4. /\ lst' \in Seq(RunT) /\ Len(lst') = Len(lst) /\ lst' # <<>> /\ lst'[Len(lst)] = r
        /\ \A i \in 1 .. Len(lst) : i # Len(lst) => lst'[i] = lst[i]
    <3>1. /\ lst' \in Seq(RunT) /\ Len(lst') = Len(lst)
          /\ \A i \in 1 .. Len(lst) : lst'[i] = IF i = Len(lst) THEN r ELSE lst[i]
      BY <1>4, <2>2, <2>3, ExceptSeq
    <3>2. lst' # <<>>
      BY <1>4, <3>1, EmptySeq
    <3> QED BY <1>4, <3>1, <3>2
  <2>5. WalkAtEnd'
    <3>1. lst'[Len(lst')].base + lst'[Len(lst')].adj = pos'
      BY <1>2, <1>4, <1>5, <1>6, <2>1, <2>2, <2>4, Marks DEF RunT
    <3>2. ASSUME NEW i \in 1 .. Len(lst') PROVE RunSet(lst'[i]) \ {pos'} \subseteq Usable
      <4>1. CASE i # Len(lst)
        BY <1>5, <2>4, <4>1
      <4>2. CASE i = Len(lst)
        <5>1. RunSet(lst'[i]) \ {pos'} \subseteq RunSet(lst[Len(lst)])
          <6>1. lst[Len(lst)].base \in Nat /\ lst[Len(lst)].adj \in Nat
            BY <1>4, <1>5, Marks DEF RunT
          <6> QED BY <1>2, <1>6, <2>1, <2>2, <2>4, <4>2, <6>1 DEF RunSet
        <5> QED BY <1>4, <1>5, <5>1
      <4> QED BY <4>1, <4>2
    <3> QED BY <2>4, <3>1, <3>2 DEF WalkAtEnd, RunSet
  <2>6. CursorType' /\ PcType' /\ ListType'
    BY <1>1, <2>1, <2>4, InvParts DEF CursorType, PcType, ListType
  <2>7. CallType'
    BY <1>1, <2>1, InvParts DEF CallType
  <2>8. FromPlace' /\ OldFrom'
    BY <1>1, <2>1 DEF IInv, FromPlace, OldFrom
  <2>9. RunsUsable' /\ RunsFit'
    BY <1>1, <2>1 DEF RunsUsable, RunsFit
  <2> QED BY <1>3, <1>7, <2>5, <2>6, <2>7, <2>8, <2>9, Together
<1>9. CASE ~SameRun /\ Len(lst) < ListSize
  <2>1. /\ lst' = Append(lst, Run(fat[pos], 0)) /\ pos' = fat[pos]
        /\ UNCHANGED <<pc, more, from>>
    BY <1>9 DEF WalkNext
  <2> DEFINE r == Run(fat[pos], 0)
  <2>2. r \in RunT /\ RunSet(r) = {pos'} /\ r.base + r.adj = pos'
    <3>1. r.base = fat[pos] /\ r.adj = 0 /\ fat[pos] \in Nat
      BY <1>2, Marks DEF Run
    <3>2. r \in RunT
      BY <1>2 DEF Run, RunT
    <3> QED BY <2>1, <3>1, <3>2 DEF RunSet
  <2>a. lst' = Append(lst, r)
    BY <2>1
  <2> HIDE DEF r
  <2>4. /\ lst' \in Seq(RunT) /\ Len(lst') = Len(lst) + 1 /\ lst'[Len(lst) + 1] = r
        /\ \A i \in 1 .. Len(lst) : lst'[i] = lst[i]
    BY <1>4, <2>2, <2>a, AppendProperties
  <2>5. WalkAtEnd'
    <3>1. lst'[Len(lst')].base + lst'[Len(lst')].adj = pos' /\ lst' # <<>>
      BY <1>4, <2>2, <2>4, EmptySeq
    <3>2. ASSUME NEW i \in 1 .. Len(lst') PROVE RunSet(lst'[i]) \ {pos'} \subseteq Usable
      <4>1. CASE i = Len(lst) + 1
        BY <2>2, <2>4, <4>1
      <4>2. CASE i # Len(lst) + 1
        <5>1. i \in 1 .. Len(lst)
          BY <1>4, <2>4, <4>2
        <5> QED BY <1>5, <2>4, <5>1
      <4> QED BY <4>1, <4>2
    <3> QED BY <3>1, <3>2 DEF WalkAtEnd, RunSet
  <2>6. CursorType' /\ PcType' /\ ListType'
    BY <1>1, <2>1, <2>4, InvParts DEF CursorType, PcType, ListType
  <2>7. CallType'
    BY <1>1, <1>2, <2>1, InvParts DEF CallType
  <2>8. FromPlace' /\ OldFrom'
    BY <1>1, <2>1 DEF IInv, FromPlace, OldFrom
  <2>9. RunsUsable' /\ RunsFit'
    BY <1>1, <2>1 DEF RunsUsable, RunsFit
  <2> QED BY <1>3, <1>7, <2>5, <2>6, <2>7, <2>8, <2>9, Together
<1>10. CASE ~SameRun /\ ~(Len(lst) < ListSize)
  <2>1. /\ more' = TRUE /\ from' = [from EXCEPT ![file] = fat[pos]]
        /\ pc' = "writeOld" /\ UNCHANGED <<lst, pos>>
    BY <1>10 DEF WalkNext
  <2>2. CursorType'
    BY <1>1, <1>2, <2>1, InvParts, Marks DEF CursorType
  <2>3. PcType' /\ ListType'
    BY <1>1, <2>1, InvParts DEF PcType, ListType, PCs
  <2>4. more' \in BOOLEAN
    BY <2>1
  <2>5. CallType'
    BY <1>1, <2>1, <2>4, InvParts DEF CallType
  <2>6. FromPlace' /\ OldFrom' /\ WalkAtEnd' /\ RunsFit'
    BY <1>1, <1>2, <2>1, InvParts DEF IInv, FromPlace, OldFrom, WalkAtEnd, RunsFit, CursorType
  <2>7. RunsUsable'
    BY <1>5, <2>1 DEF RunsUsable
  <2> QED BY <1>3, <1>7, <2>2, <2>3, <2>5, <2>6, <2>7, Together
<1> QED BY <1>8, <1>9, <1>10

\* At the end of the chain every cluster of the list is usable.
LEMMA WalkEndIInv == IInv /\ WalkEnd => IInv'
<1> SUFFICES ASSUME IInv, WalkEnd PROVE IInv'
  OBVIOUS
<1>1. /\ pc = "walk" /\ fat[pos] = EndMark /\ pc' = "writeOld" /\ more' = FALSE
      /\ lst' = IF pos = 0 THEN <<>> ELSE lst
      /\ UNCHANGED <<chainVars, freeVars, curVars, file, todo, done, need, pos, freed,
                     histVars, res, faults>>
  BY DEF WalkEnd
<1>2. ChainType' /\ ReservedKept' /\ CursorType' /\ LastUsable' /\ WroteType' /\ HistType'
  BY <1>1, InvParts, SameChains, SameCursors, SameHist DEF HistType
<1>3. FreeType' /\ CacheUsable'
  BY <1>1, SameFree
<1>4. more' \in BOOLEAN
  BY <1>1
<1>5. PcType' /\ TodoBound'
  BY <1>1, InvParts DEF PcType, PCs, TodoBound, IInv
<1>6. CallType'
  BY <1>1, <1>4, InvParts DEF CallType
<1>7. ListType'
  BY <1>1, InvParts, EmptySeq DEF ListType
<1>8. RunsUsable'
  <2>1. CASE pos = 0
    <3>1. \A i \in 1 .. Len(lst') : FALSE
      BY <1>1, <2>1
    <3> QED BY <3>1 DEF RunsUsable
  <2>2. CASE pos # 0
    <3>1. pos \in Usable
      BY <1>1, <2>2, PosUsable, Marks
    <3>2. lst' = lst
      BY <1>1, <2>2
    <3>3. \A i \in 1 .. Len(lst) : RunSet(lst[i]) \ {pos} \subseteq Usable
      BY <1>1 DEF IInv, WalkAtEnd
    <3>4. \A i \in 1 .. Len(lst) : RunSet(lst[i]) \subseteq Usable
      BY <3>1, <3>3
    <3> QED BY <3>2, <3>4 DEF RunsUsable
  <2> QED BY <2>1, <2>2
<1>9. FromPlace' /\ OldFrom' /\ WalkAtEnd' /\ RunsFit'
  BY <1>1 DEF IInv, FromPlace, OldFrom, WalkAtEnd, curVars, RunsFit
<1> QED BY <1>2, <1>3, <1>5, <1>6, <1>7, <1>8, <1>9, Together

\* A chain that cannot be followed ends the call.
LEMMA WalkFailIInv == IInv /\ WalkFail => IInv'
<1> SUFFICES ASSUME IInv, WalkFail PROVE IInv'
  OBVIOUS
<1>1. Fail("FAILED") /\ pc = "walk" /\ UNCHANGED <<chainVars, freeVars, histVars>>
  BY DEF WalkFail
<1>2. faults' \in Nat
  BY InvParts DEF WalkFail, HistType, Fault
<1> QED BY <1>1, <1>2, FailIInv DEF histVars

\* A failed transfer of data ends the call.
LEMMA PutFailIInv == IInv /\ PutFail => IInv'
<1> SUFFICES ASSUME IInv, PutFail PROVE IInv'
  OBVIOUS
<1>1. /\ Fail("FAILED") /\ pc \in {"writeOld", "writeNew"}
      /\ UNCHANGED <<chainVars, freeVars, histVars>> /\ Fault
  BY DEF PutFail
<1>2. faults' \in Nat
  BY <1>1, InvParts DEF HistType, Fault
<1> QED BY <1>1, <1>2, FailIInv DEF histVars

\* The first run of a list, the list without it, and the clusters of both.
LEMMA HeadFacts ==
  ASSUME IInv, pc \in {"writeOld", "writeNew"}, lst # <<>>
  PROVE  /\ Head(lst) = lst[1] /\ 1 \in 1 .. Len(lst) /\ Len(lst) \in Nat
         /\ Head(lst) \in RunT /\ RunSet(Head(lst)) \subseteq Usable
         /\ Tail(lst) \in Seq(RunT) /\ Len(Tail(lst)) = Len(lst) - 1
         /\ \A i \in 1 .. Len(Tail(lst)) : /\ i + 1 \in 1 .. Len(lst)
                                           /\ Tail(lst)[i] = lst[i + 1]
                                           /\ RunSet(Tail(lst)[i]) \subseteq Usable
<1>1. lst \in Seq(RunT)
  BY InvParts DEF ListType
<1>2. /\ Head(lst) = lst[1] /\ Head(lst) \in RunT
      /\ Tail(lst) \in Seq(RunT) /\ Len(Tail(lst)) = Len(lst) - 1
      /\ \A i \in 1 .. Len(Tail(lst)) : Tail(lst)[i] = lst[i + 1]
  BY <1>1, HeadTailProperties
<1>3. Len(lst) \in Nat /\ Len(lst) # 0
  BY <1>1, EmptySeq, LenProperties
<1>4. \A i \in 1 .. Len(lst) : RunSet(lst[i]) \subseteq Usable
  BY DEF IInv, RunsUsable
<1>5. 1 \in 1 .. Len(lst)
  BY <1>3
<1>6. \A i \in 1 .. Len(Tail(lst)) : i + 1 \in 1 .. Len(lst)
  BY <1>2, <1>3
<1> QED BY <1>2, <1>3, <1>4, <1>5, <1>6

\* Data put in clusters of the data area.
LEMMA PutDataFacts ==
  ASSUME IInv, file \in Files, NEW b \in Nat, NEW n \in Nat, PutData(b, n),
         b .. (b + n - 1) \subseteq Cluster
  PROVE  WroteType' /\ owner' \in [Cluster -> SUBSET Files]
<1>1. owner' \in [Cluster -> SUBSET Files]
  BY InvParts DEF HistType, PutData
<1> DEFINE B == [i \in 1 .. n |-> b + i - 1]
<1>2. B \in Seq(Cluster)
  <2>1. \A i \in 1 .. n : b + i - 1 \in b .. (b + n - 1)
    OBVIOUS
  <2>2. B \in [1 .. n -> Cluster]
    BY <2>1
  <2> HIDE DEF B
  <2> QED BY <2>2, SeqDef
<1>3. wrote' = [wrote EXCEPT ![file] = @ \o B]
  BY DEF PutData
<1> HIDE DEF B
<1>4. wrote[file] \o B \in Seq(Cluster)
  BY <1>2, InvParts, ConcatProperties DEF WroteType
<1>5. WroteType'
  BY <1>3, <1>4, InvParts DEF WroteType
<1> QED BY <1>1, <1>5

\* Writing over a run leaves both cursors on clusters of that run.
LEMMA WriteOldIInv == IInv /\ WriteOld => IInv'
<1> SUFFICES ASSUME IInv, WriteOld PROVE IInv'
  OBVIOUS
<1> DEFINE r == Head(lst)
           n == IF todo >= r.adj + 1 THEN r.adj + 1 ELSE todo
<1>1. /\ pc = "writeOld" /\ lst # <<>> /\ PutData(r.base, n)
      /\ last' = IF n = 0 THEN last ELSE [last EXCEPT ![file] = r.base + n - 1]
      /\ todo' = todo - n
      /\ UNCHANGED <<chainVars, freeVars, straddled, torn, calls, faults>>
  BY DEF WriteOld
<1>2. file \in Files /\ todo \in Nat /\ done \in Nat
  BY <1>1, InvParts DEF CallType
<1>3. r \in RunT /\ RunSet(r) \subseteq Usable
  BY <1>1, HeadFacts
<1>4. r.base \in Nat /\ r.adj \in Nat /\ n \in Nat /\ n <= todo /\ n <= r.adj + 1
  <2> HIDE DEF r
  <2>1. r.base \in Nat /\ r.adj \in Nat
    BY <1>3, Marks DEF RunT
  <2> QED BY <1>2, <2>1
<1>5. \A i \in 0 .. r.adj : r.base + i \in Usable
  BY <1>3, <1>4 DEF RunSet
<1>6. n # 0 => r.base + n - 1 \in Usable
  <2>1. n # 0 => n - 1 \in 0 .. r.adj /\ r.base + n - 1 = r.base + (n - 1)
    BY <1>4
  <2> QED BY <1>5, <2>1
<1>7. r.base .. (r.base + n - 1) \subseteq Cluster
  <2>1. ASSUME NEW c \in r.base .. (r.base + n - 1) PROVE c \in RunSet(r)
    BY <1>4 DEF RunSet
  <2> QED BY <1>3, <2>1, Marks
<1>8. todo < r.adj + 1 => r.base + n \in Usable
  <2>1. todo < r.adj + 1 => n \in 0 .. r.adj
    BY <1>2, <1>4
  <2> QED BY <1>5, <2>1
<1>9. WroteType' /\ owner' \in [Cluster -> SUBSET Files]
  BY <1>1, <1>2, <1>4, <1>7, PutDataFacts
<1>a. /\ todo < r.adj + 1 => from' = [from EXCEPT ![file] = r.base + n] /\ Return("OK")
      /\ ~(todo < r.adj + 1) => /\ lst' = Tail(lst) /\ done' = done + n
                                /\ UNCHANGED <<from, pc, res, file, more, pos, need, freed>>
  BY DEF WriteOld, GoOnFrom
<1> HIDE DEF r, n
<1>10. ChainType' /\ ReservedKept' /\ FreeType' /\ CacheUsable'
  BY <1>1, SameChains, SameFree
<1>11. todo' \in Nat /\ todo' <= todo /\ TodoBound'
  <2>1. todo <= MaxWrite /\ MaxWrite \in Nat
    BY ConstAssumption DEF IInv, TodoBound
  <2> QED BY <1>1, <1>2, <1>4, <2>1 DEF TodoBound
<1>12. last' \in [Files -> FatEntry] /\ LastUsable'
  BY <1>1, <1>2, <1>6, InvParts, Marks DEF IInv, LastUsable, CursorType, Usable, FatEntry
<1>13. \A f \in Files : from[f] \in FatEntry \cup {ALLOC}
  BY <1>1 DEF IInv, FromPlace
<1>14. CASE todo < r.adj + 1
  <2>1. from' = [from EXCEPT ![file] = r.base + n] /\ Return("OK")
    BY <1>14, <1>a
  <2>2. r.base + n \in Usable /\ r.base + n \in FatEntry /\ r.base + n \in Nat
    BY <1>8, <1>14, Marks DEF FatEntry
  <2>3. CursorType'
    BY <1>12, <2>1, <2>2, InvParts DEF CursorType
  <2>4. PcType'
    BY <2>1 DEF PcType, PCs, Return
  <2>5. CallType'
    <3>1. done' \in Nat /\ need' \in Int /\ pos' \in FatEntry /\ freed' \in Nat
      BY <2>1 DEF Return, FatEntry
    <3>2. more' \in BOOLEAN
      BY <2>1 DEF Return
    <3> QED BY <1>11, <3>1, <3>2 DEF CallType
  <2>6. ListType'
    BY <2>1, EmptySeq DEF ListType, Return
  <2>7. HistType'
    BY <1>1, <1>9, <2>1, InvParts DEF HistType, Return
  <2>8. TypeOK'
    BY <1>9, <1>10, <2>3, <2>4, <2>5, <2>6, <2>7, TypeParts
  <2>9. \A f \in Files : from'[f] \in FatEntry \cup {ALLOC}
    BY <1>13, <2>1, <2>2, InvParts DEF CursorType
  <2> QED BY <1>10, <1>11, <1>12, <2>1, <2>8, <2>9, ReturnIInv DEF Return
<1>15. CASE ~(todo < r.adj + 1)
  <2>1. /\ lst' = Tail(lst) /\ done' = done + n
        /\ UNCHANGED <<from, pc, res, file, more, pos, need, freed>>
    BY <1>15, <1>a
  <2>2. CursorType' /\ PcType'
    BY <1>12, <2>1, InvParts DEF CursorType, PcType
  <2>3. CallType'
    BY <1>2, <1>4, <1>11, <2>1, InvParts DEF CallType
  <2>4. HistType'
    BY <1>1, <1>9, <2>1, InvParts DEF HistType
  <2>5. ListType' /\ RunsUsable'
    BY <1>1, <2>1, HeadFacts DEF ListType, RunsUsable, RunSet
  <2>6. FromPlace' /\ OldFrom' /\ WalkAtEnd' /\ RunsFit'
    BY <1>1, <2>1 DEF IInv, FromPlace, OldFrom, WalkAtEnd, RunsFit
  <2> QED BY <1>9, <1>10, <1>11, <1>12, <2>2, <2>3, <2>4, <2>5, <2>6, Together
<1> QED BY <1>14, <1>15

\* Going on with the next list of a long chain.
LEMMA WriteOldMoreIInv == IInv /\ WriteOldMore => IInv'
<1> SUFFICES ASSUME IInv, WriteOldMore PROVE IInv'
  OBVIOUS
<1>1. /\ pc = "writeOld" /\ pc' = "walk" /\ pos' = from[file] /\ more' = FALSE
      /\ lst' = <<Run(from[file], 0)>>
      /\ UNCHANGED <<chainVars, freeVars, curVars, file, todo, done, need, freed, histVars, res, faults>>
  BY DEF WriteOldMore
<1>2. from[file] \in FatEntry /\ from[file] \in Nat
  BY <1>1, Marks DEF IInv, OldFrom
<1>3. ChainType' /\ ReservedKept' /\ CursorType' /\ LastUsable' /\ WroteType' /\ HistType'
  BY <1>1, InvParts, SameChains, SameCursors, SameHist DEF HistType
<1>4. FreeType' /\ CacheUsable'
  BY <1>1, SameFree
<1>5. more' \in BOOLEAN
  BY <1>1
<1>6. PcType' /\ TodoBound'
  BY <1>1, InvParts DEF PcType, PCs, TodoBound, IInv
<1>7. CallType'
  BY <1>1, <1>2, <1>5, InvParts DEF CallType
<1>8. Run(from[file], 0) \in RunT /\ RunSet(Run(from[file], 0)) = {from[file]}
  BY <1>2 DEF RunT, Run, RunSet
<1>9. ListType' /\ Len(lst') = 1 /\ lst'[1] = Run(from[file], 0) /\ lst' # <<>>
  BY <1>1, <1>8 DEF ListType
<1>10. WalkAtEnd'
  <2>1. lst'[Len(lst')].base + lst'[Len(lst')].adj = pos'
    BY <1>1, <1>2, <1>9 DEF Run
  <2>2. \A i \in 1 .. Len(lst') : RunSet(lst'[i]) = {pos'}
    BY <1>1, <1>8, <1>9 DEF RunSet
  <2> QED BY <1>9, <2>1, <2>2 DEF WalkAtEnd, RunSet
<1>11. FromPlace' /\ OldFrom' /\ RunsUsable' /\ RunsFit'
  BY <1>1, <1>2 DEF IInv, FromPlace, OldFrom, curVars, RunsUsable, RunsFit
<1> QED BY <1>3, <1>4, <1>6, <1>7, <1>9, <1>10, <1>11, Together

\* At the end of the chain allocation is asked for the rest.
LEMMA WriteOldDoneIInv == IInv /\ WriteOldDone => IInv'
<1> SUFFICES ASSUME IInv, WriteOldDone PROVE IInv'
  OBVIOUS
<1>1. /\ pc = "writeOld" /\ size' = [size EXCEPT ![file] = GrownSize]
      /\ from' = [from EXCEPT ![file] = 0] /\ AskFor(todo) /\ pos' = 0
      /\ UNCHANGED <<fat, first, freeVars, last, wrote, file, todo, done, more, freed,
                     histVars, res, faults>>
  BY DEF WriteOldDone
<1>2. file \in Files /\ todo \in 0 .. MaxWrite
  BY <1>1, InvParts, ConstAssumption DEF CallType, IInv, TodoBound
<1>3. /\ ListType' /\ RunsUsable' /\ RunsFit' /\ TodoBound' /\ need' \in Int
      /\ pc' \in {"take", "hand"}
  BY <1>1, <1>2, AskForFits
<1>4. ChainType'
  <2>1. GrownSize \in Nat
    BY <1>2, InvParts DEF GrownSize, ChainType, CallType
  <2> QED BY <1>1, <2>1, InvParts DEF ChainType
<1>5. ReservedKept' /\ FreeType' /\ CacheUsable' /\ HistType'
  BY <1>1, SameFree, SameHist, InvParts DEF HistType, IInv, ReservedKept
<1>6. CursorType' /\ LastUsable' /\ WroteType'
  BY <1>1, InvParts DEF CursorType, LastUsable, WroteType, IInv
<1>7. PcType'
  BY <1>1, <1>2, <1>3, ConstAssumption DEF PcType, PCs
<1>8. CallType'
  <2>1. todo' \in Nat /\ done' \in Nat /\ need' \in Int /\ pos' \in FatEntry /\ freed' \in Nat
    BY <1>1, <1>3, InvParts DEF CallType, FatEntry
  <2>2. more' \in BOOLEAN
    BY <1>1, InvParts DEF CallType
  <2> QED BY <2>1, <2>2 DEF CallType
<1>9. FromPlace' /\ OldFrom' /\ WalkAtEnd'
  BY <1>1, <1>2, <1>3, InvParts DEF IInv, FromPlace, OldFrom, WalkAtEnd, CursorType
<1> QED BY <1>3, <1>4, <1>5, <1>6, <1>7, <1>8, <1>9, Together

-----------------------------------------------------------------------------
(* Writing new clusters                                                    *)

\* A run handed out is written whole: it was cut to what is to be written.
LEMMA NewRunFacts ==
  ASSUME IInv, pc = "writeNew", lst # <<>>,
         NEW s, NEW e, s = NewRun.base, e = NewRun.base + NewRun.adj
  PROVE  /\ s \in Usable /\ e \in Usable /\ s <= e /\ s .. e \subseteq Usable
         /\ s \in Nat /\ e \in Nat /\ e - s + 1 = Head(lst).adj + 1 /\ e - s + 1 <= todo
<1> DEFINE r == Head(lst)
<1>1. /\ r = lst[1] /\ 1 \in 1 .. Len(lst) /\ Len(lst) \in Nat
      /\ r \in RunT /\ RunSet(r) \subseteq Usable
  BY HeadFacts
<1> HIDE DEF r
<1>2. r.base \in Nat /\ r.adj \in Nat
  BY <1>1, Marks DEF RunT
<1>3. PICK h \in [0 .. Len(lst) -> 0 .. MaxWrite] :
        /\ h[0] = todo
        /\ \A i \in 1 .. Len(lst) : h[i] = h[i - 1] - (lst[i].adj + 1)
  BY DEF IInv, RunsFit
<1>4. h[1] = todo - (r.adj + 1) /\ h[1] \in 0 .. MaxWrite
  <2>1. 1 \in 0 .. Len(lst)
    BY <1>1
  <2>2. 1 - 1 = 0
    OBVIOUS
  <2>3. h[1] = h[1 - 1] - (lst[1].adj + 1)
    BY <1>1, <1>3
  <2> QED BY <1>1, <1>3, <2>1, <2>2, <2>3
<1>5. todo \in Nat
  BY InvParts DEF CallType
<1>6. r.adj + 1 <= todo
  BY <1>2, <1>4, <1>5
<1>7. NewRun.base = r.base /\ NewRun.adj = r.adj
  BY <1>2, <1>5, <1>6 DEF NewRun, Run, r
<1>8. s = r.base /\ e = r.base + r.adj /\ s .. e = RunSet(r)
  BY <1>7 DEF RunSet
<1>9. s \in s .. e /\ e \in s .. e /\ s <= e /\ s \in Nat /\ e \in Nat /\ e - s + 1 = r.adj + 1
  BY <1>2, <1>8
<1> QED BY <1>1, <1>6, <1>8, <1>9 DEF r

\* Writing and linking a new run sets entries of usable clusters only.
LEMMA WriteNewIInv == IInv /\ WriteNew => IInv'
<1> SUFFICES ASSUME IInv, WriteNew PROVE IInv'
  OBVIOUS
<1> DEFINE s == NewRun.base
           e == NewRun.base + NewRun.adj
<1>1. /\ pc = "writeNew" /\ lst # <<>>
      /\ PutData(s, e - s + 1)
      /\ fat' = SetEntries(fat, last[file], s, e, e)
      /\ first' = IF last[file] = 0 THEN [first EXCEPT ![file] = s] ELSE first
      /\ size' = [size EXCEPT ![file] = @ + (e - s + 1)]
      /\ from' = [from EXCEPT ![file] = e + 1]
      /\ last' = [last EXCEPT ![file] = e]
      /\ todo' = todo - (e - s + 1) /\ done' = done + (e - s + 1)
      /\ SubFromFreeClusters(e - s + 1)
      /\ lst' = Tail(lst)
      /\ UNCHANGED <<pc, file, need, more, pos, freed, straddled, torn, calls, res, faults>>
  BY DEF WriteNew
<1>2. /\ s \in Usable /\ e \in Usable /\ s <= e /\ s .. e \subseteq Usable
      /\ s \in Nat /\ e \in Nat /\ e - s + 1 = Head(lst).adj + 1 /\ e - s + 1 <= todo
  BY <1>1, NewRunFacts
<1> HIDE DEF s, e
<1>3. file \in Files /\ todo \in Nat /\ done \in Nat
  BY <1>1, InvParts DEF CallType
<1>4. e - s + 1 \in Nat \ {0} /\ Usable \subseteq Cluster /\ Usable \subseteq FatEntry
  BY <1>2 DEF Usable, FatEntry
<1>5. WroteType' /\ owner' \in [Cluster -> SUBSET Files]
  <2>1. s + (e - s + 1) - 1 = e
    BY <1>2
  <2>2. s .. (s + (e - s + 1) - 1) \subseteq Cluster
    BY <1>2, <1>4, <2>1
  <2>3. e - s + 1 \in Nat
    BY <1>4
  <2> QED BY <1>1, <1>2, <1>3, <2>2, <2>3, PutDataFacts
<1>6. fat' \in [FatEntry -> FatEntry \cup {BadMark, EndMark}] /\ ReservedKept'
  <2>1. e \in s - 1 .. e
    BY <1>2
  <2> QED BY <1>1, <1>2, <1>3, <2>1, LinkKeeps
<1>7. ChainType'
  <2>1. first' \in [Files -> FatEntry]
    BY <1>1, <1>2, <1>4, InvParts DEF ChainType
  <2>2. size' \in [Files -> Nat]
    BY <1>1, <1>3, <1>4, InvParts DEF ChainType
  <2> QED BY <1>6, <2>1, <2>2 DEF ChainType
<1>8. CursorType' /\ LastUsable'
  <2>1. from' \in [Files -> Nat]
    BY <1>1, <1>2, InvParts DEF CursorType
  <2>2. last' \in [Files -> FatEntry]
    BY <1>1, <1>2, <1>4, InvParts DEF CursorType
  <2>3. LastUsable'
    BY <1>1, <1>2, <2>2, InvParts DEF LastUsable, IInv, CursorType, Usable
  <2> QED BY <2>1, <2>2, <2>3 DEF CursorType
<1>9. FreeType' /\ CacheUsable'
  <2>1. UNCHANGED <<flag, cache, scanFrom, curMin>>
    BY <1>1 DEF SubFromFreeClusters
  <2>2. count' \in Nat
    <3>1. Decreased(e - s + 1) \in Nat
      BY <1>4, InvParts DEF Decreased, FreeType
    <3> QED BY <1>1, <3>1, InvParts DEF SubFromFreeClusters, FreeType
  <2> QED BY <2>1, <2>2, InvParts DEF FreeType, CacheUsable, IInv
<1>10. PcType' /\ OldFrom' /\ WalkAtEnd'
  BY <1>1, InvParts DEF PcType, OldFrom, WalkAtEnd
<1>11. todo' \in Nat /\ done' \in Nat /\ TodoBound'
  <2>1. todo <= MaxWrite /\ MaxWrite \in Nat
    BY ConstAssumption DEF IInv, TodoBound
  <2> QED BY <1>1, <1>2, <1>3, <1>4, <2>1 DEF TodoBound
<1>12. CallType'
  BY <1>1, <1>11, InvParts DEF CallType
<1>13. ListType' /\ RunsUsable'
  BY <1>1, HeadFacts DEF ListType, RunsUsable, RunSet
<1>14. HistType'
  BY <1>1, <1>5, InvParts DEF HistType
<1>15. FromPlace'
  BY <1>1, <1>3, InvParts DEF FromPlace, IInv, CursorType
<1>16. RunsFit'
  <2>1. PICK h \in [0 .. Len(lst) -> 0 .. MaxWrite] :
          /\ h[0] = todo
          /\ \A i \in 1 .. Len(lst) : h[i] = h[i - 1] - (lst[i].adj + 1)
    BY <1>1 DEF IInv, RunsFit
  <2>2. /\ Len(lst') = Len(lst) - 1 /\ Len(lst) \in Nat /\ 1 \in 1 .. Len(lst) /\ Head(lst) = lst[1]
        /\ \A i \in 1 .. Len(lst') : i + 1 \in 1 .. Len(lst) /\ lst'[i] = lst[i + 1]
    BY <1>1, HeadFacts
  <2> DEFINE g == [i \in 0 .. Len(lst') |-> h[i + 1]]
  <2>3. g \in [0 .. Len(lst') -> 0 .. MaxWrite]
    <3>1. \A i \in 0 .. Len(lst') : i + 1 \in 0 .. Len(lst)
      BY <2>2
    <3> QED BY <2>1, <3>1
  <2>4. g[0] = todo'
    <3>1. 0 \in 0 .. Len(lst') /\ 0 + 1 = 1 /\ 1 - 1 = 0
      BY <2>2
    <3>2. h[1] = h[1 - 1] - (lst[1].adj + 1)
      BY <2>1, <2>2
    <3>3. g[0] = todo - (lst[1].adj + 1)
      BY <2>1, <3>1, <3>2
    <3> QED BY <1>1, <1>2, <2>2, <3>3
  <2>5. ASSUME NEW i \in 1 .. Len(lst') PROVE g[i] = g[i - 1] - (lst'[i].adj + 1)
    <3>1. i \in 0 .. Len(lst') /\ i - 1 \in 0 .. Len(lst') /\ (i - 1) + 1 = i /\ (i + 1) - 1 = i
      BY <2>2
    <3>2. h[i + 1] = h[(i + 1) - 1] - (lst[i + 1].adj + 1)
      BY <2>1, <2>2
    <3> QED BY <2>2, <3>1, <3>2
  <2> HIDE DEF g
  <2> QED BY <1>1, <2>3, <2>4, <2>5 DEF RunsFit
<1> QED BY <1>5, <1>6, <1>7, <1>8, <1>9, <1>10, <1>11, <1>12, <1>13, <1>14, <1>15, <1>16, Together

\* A failure after the data is written ends the call, and changes no more than
\* entries of the FAT and the start of the file.
LEMMA LinkFailIInv ==
  ASSUME IInv, pc = "writeNew", lst # <<>>, PutNew, Fault, Fail("FAILED"),
         ChainType', ReservedKept', torn' \in BOOLEAN, UNCHANGED <<freeVars, straddled, calls>>
  PROVE  IInv'
<1>1. file \in Files /\ RunSet(NewRun) \subseteq Usable
  BY InvParts, NewRunFacts DEF RunSet
<1>2. FreeType' /\ CacheUsable'
  BY SameFree
<1>3. CursorType' /\ LastUsable' /\ WroteType'
  <2>1. /\ from' = [from EXCEPT ![file] = 0] /\ last' = [last EXCEPT ![file] = 0]
        /\ wrote' = [wrote EXCEPT ![file] = <<>>]
    BY DEF Fail, ForgetCursor
  <2>2. CursorType'
    BY <2>1, InvParts DEF CursorType, FatEntry
  <2>3. LastUsable'
    BY <2>1, InvParts, Marks DEF LastUsable, IInv, CursorType
  <2>4. WroteType'
    BY <2>1, InvParts, EmptySeq DEF WroteType
  <2> QED BY <2>2, <2>3, <2>4
<1>4. PcType'
  BY DEF PcType, PCs, Fail, Return
<1>5. CallType'
  <2>1. todo' \in Nat /\ done' \in Nat /\ need' \in Int /\ pos' \in FatEntry /\ freed' \in Nat
    BY InvParts DEF CallType, FatEntry, Fail, Return
  <2>2. more' \in BOOLEAN
    BY DEF Fail, Return
  <2> QED BY <2>1, <2>2 DEF CallType
<1>6. ListType'
  BY EmptySeq DEF ListType, Fail, Return
<1>7. HistType'
  <2>1. owner' \in [Cluster -> SUBSET Files]
    BY <1>1, InvParts DEF HistType, PutNew
  <2>2. faults' \in Nat /\ res' \in {"OK", "FAILED", "NOMORE"}
    BY InvParts DEF HistType, Fault, Fail, Return
  <2> QED BY <2>1, <2>2, InvParts DEF HistType
<1>8. \A f \in Files : from'[f] \in FatEntry \cup {ALLOC}
  BY <1>1, InvParts DEF IInv, FromPlace, Fail, ForgetCursor, FatEntry, CursorType
<1>9. TodoBound' /\ pc' = "idle"
  BY DEF IInv, TodoBound, Fail, Return
<1>10. TypeOK'
  BY <1>2, <1>3, <1>4, <1>5, <1>6, <1>7, TypeParts
<1> QED BY <1>2, <1>3, <1>8, <1>9, <1>10, ReturnIInv

\* So does a failure before the first entry is set.
LEMMA LinkFailsIInv == IInv /\ LinkFails => IInv'
<1> SUFFICES ASSUME IInv, LinkFails PROVE IInv'
  OBVIOUS
<1>1. /\ pc = "writeNew" /\ lst # <<>> /\ PutNew /\ Fault /\ Fail("FAILED")
      /\ UNCHANGED <<chainVars, freeVars, straddled, torn, calls>>
  BY DEF LinkFails
<1>2. ChainType' /\ ReservedKept'
  BY <1>1, SameChains
<1>3. torn' \in BOOLEAN
  BY <1>1, InvParts DEF HistType
<1> QED BY <1>1, <1>2, <1>3, LinkFailIInv

\* So does linking that is cut short by a failure.
LEMMA LinkTornIInv == IInv /\ LinkTorn => IInv'
<1> SUFFICES ASSUME IInv, LinkTorn PROVE IInv'
  OBVIOUS
<1> DEFINE s == NewRun.base
           e == NewRun.base + NewRun.adj
<1>1. /\ pc = "writeNew" /\ lst # <<>> /\ PutNew /\ Fault /\ Fail("FAILED")
      /\ \E m \in s - 1 .. e - 1 : fat' = SetEntries(fat, last[file], s, e, m)
      /\ first' = IF last[file] = 0 THEN [first EXCEPT ![file] = s] ELSE first
      /\ torn' = TRUE
      /\ UNCHANGED <<size, freeVars, straddled, calls>>
  BY DEF LinkTorn
<1>2. s \in Usable /\ e \in Usable /\ s <= e /\ s .. e \subseteq Usable /\ s \in Nat /\ e \in Nat
  BY <1>1, NewRunFacts
<1> HIDE DEF s, e
<1>3. file \in Files
  BY <1>1, InvParts
<1>4. fat' \in [FatEntry -> FatEntry \cup {BadMark, EndMark}] /\ ReservedKept'
  <2>1. PICK m \in s - 1 .. e - 1 : fat' = SetEntries(fat, last[file], s, e, m)
    BY <1>1
  <2>2. m \in s - 1 .. e
    BY <1>2, <2>1
  <2> QED BY <1>2, <1>3, <2>1, <2>2, LinkKeeps
<1>5. ChainType'
  <2>1. first' \in [Files -> FatEntry]
    BY <1>1, <1>2, InvParts DEF ChainType, Usable, FatEntry
  <2> QED BY <1>1, <1>4, <2>1, InvParts DEF ChainType
<1> QED BY <1>1, <1>4, <1>5, LinkFailIInv

\* The next list of new runs is asked for.
LEMMA WriteNewMoreIInv == IInv /\ WriteNewMore => IInv'
<1> SUFFICES ASSUME IInv, WriteNewMore PROVE IInv'
  OBVIOUS
<1>1. /\ pc = "writeNew" /\ AskFor(todo) /\ more' = FALSE
      /\ UNCHANGED <<chainVars, freeVars, curVars, file, todo, done, pos, freed, histVars, res, faults>>
  BY DEF WriteNewMore
<1>2. file \in Files /\ todo \in 0 .. MaxWrite
  BY <1>1, InvParts, ConstAssumption DEF CallType, IInv, TodoBound
<1>3. /\ ListType' /\ RunsUsable' /\ RunsFit' /\ TodoBound' /\ need' \in Int
      /\ pc' \in {"take", "hand"}
  BY <1>1, <1>2, AskForFits
<1>4. ChainType' /\ ReservedKept' /\ CursorType' /\ LastUsable' /\ WroteType' /\ HistType'
  BY <1>1, InvParts, SameChains, SameCursors, SameHist DEF HistType
<1>5. FreeType' /\ CacheUsable'
  BY <1>1, SameFree
<1>6. PcType'
  BY <1>1, <1>2, <1>3, ConstAssumption DEF PcType, PCs
<1>7. CallType'
  <2>1. todo' \in Nat /\ done' \in Nat /\ need' \in Int /\ pos' \in FatEntry /\ freed' \in Nat
    BY <1>1, <1>3, InvParts DEF CallType
  <2>2. more' \in BOOLEAN
    BY <1>1
  <2> QED BY <2>1, <2>2 DEF CallType
<1>8. FromPlace' /\ OldFrom' /\ WalkAtEnd'
  BY <1>1, <1>3 DEF IInv, FromPlace, OldFrom, WalkAtEnd, curVars
<1> QED BY <1>3, <1>4, <1>5, <1>6, <1>7, <1>8, Together

\* A call that returns without giving its cursor up.
LEMMA ReturnTypes ==
  ASSUME IInv, NEW r \in {"OK", "FAILED", "NOMORE"}, Return(r), todo' = todo
  PROVE  PcType' /\ CallType' /\ ListType' /\ TodoBound' /\ pc' = "idle"
<1>1. PcType' /\ pc' = "idle"
  BY DEF PcType, PCs, Return
<1>2. CallType'
  <2>1. todo' \in Nat /\ done' \in Nat /\ need' \in Int /\ pos' \in FatEntry /\ freed' \in Nat
    BY InvParts DEF CallType, FatEntry, Return
  <2>2. more' \in BOOLEAN
    BY DEF Return
  <2> QED BY <2>1, <2>2 DEF CallType
<1>3. ListType'
  BY EmptySeq DEF ListType, Return
<1>4. TodoBound'
  BY DEF IInv, TodoBound
<1> QED BY <1>1, <1>2, <1>3, <1>4

\* A write that is done leaves a cursor that asks for allocation.
LEMMA WriteNewDoneIInv == IInv /\ WriteNewDone => IInv'
<1> SUFFICES ASSUME IInv, WriteNewDone PROVE IInv'
  OBVIOUS
<1>1. /\ pc = "writeNew" /\ from' = [from EXCEPT ![file] = ALLOC] /\ Return("OK")
      /\ UNCHANGED <<chainVars, freeVars, last, wrote, todo, histVars, faults>>
  BY DEF WriteNewDone
<1>2. ChainType' /\ ReservedKept' /\ FreeType' /\ CacheUsable'
  BY <1>1, SameChains, SameFree
<1>3. PcType' /\ CallType' /\ ListType' /\ TodoBound' /\ pc' = "idle"
  BY <1>1, ReturnTypes
<1>4. CursorType' /\ LastUsable' /\ WroteType'
  BY <1>1, InvParts, Marks DEF CursorType, LastUsable, WroteType, IInv, ALLOC
<1>5. HistType'
  BY <1>1, InvParts DEF HistType, Return, histVars
<1>6. \A f \in Files : from'[f] \in FatEntry \cup {ALLOC}
  BY <1>1, InvParts DEF IInv, FromPlace, CursorType
<1>7. TypeOK'
  BY <1>2, <1>3, <1>4, <1>5, TypeParts
<1> QED BY <1>2, <1>3, <1>4, <1>6, <1>7, ReturnIInv

-----------------------------------------------------------------------------
(* Deleting, and the calls between                                         *)

\* A deletion starts at the first cluster of the file.
LEMMA DeleteBeginIInv ==
  ASSUME IInv, NEW f \in Files, DeleteBegin(f)
  PROVE  IInv'
<1>1. /\ pc = "idle" /\ pc' = "free" /\ calls' = calls + 1
      /\ file' = f /\ pos' = first[f] /\ freed' = 0 /\ todo' = 0 /\ done' = 0
      /\ from' = [from EXCEPT ![f] = 0] /\ last' = [last EXCEPT ![f] = 0]
      /\ wrote' = [wrote EXCEPT ![f] = <<>>]
      /\ UNCHANGED <<chainVars, freeVars, need, lst, more, owner, straddled, torn, res, faults>>
  BY DEF DeleteBegin, ForgetCursor
<1>2. ChainType' /\ ReservedKept' /\ FreeType' /\ CacheUsable'
  BY <1>1, SameChains, SameFree
<1>3. CursorType'
  BY <1>1, InvParts DEF CursorType, FatEntry
<1>4. LastUsable'
  BY <1>1, InvParts, Marks DEF LastUsable, IInv, CursorType
<1>5. WroteType'
  BY <1>1, InvParts, EmptySeq DEF WroteType
<1>6. PcType'
  BY <1>1, ConstAssumption DEF PcType, PCs
<1>7. CallType'
  BY <1>1, InvParts DEF CallType, ChainType
<1>8. ListType' /\ HistType'
  BY <1>1, InvParts DEF ListType, HistType
<1>9. TodoBound'
  BY <1>1, ConstAssumption DEF TodoBound
<1>10. FromPlace' /\ OldFrom' /\ WalkAtEnd' /\ RunsUsable' /\ RunsFit'
  BY <1>1, InvParts DEF IInv, FromPlace, OldFrom, WalkAtEnd, RunsUsable, RunsFit, FatEntry, CursorType
<1> QED BY <1>2, <1>3, <1>4, <1>5, <1>6, <1>7, <1>8, <1>9, <1>10, Together

\* Freeing an entry: one that leads to a cluster is no reserved entry.
LEMMA FreeNextIInv == IInv /\ FreeNext => IInv'
<1> SUFFICES ASSUME IInv, FreeNext PROVE IInv'
  OBVIOUS
<1>1. /\ pc = "free" /\ fat[pos] \in Cluster
      /\ fat' = [fat EXCEPT ![pos] = Free]
      /\ freed' = freed + 1 /\ pos' = fat[pos]
      /\ UNCHANGED <<first, size, freeVars, curVars, file, todo, done, need, lst, more,
                     histVars, pc, res, faults>>
  BY DEF FreeNext
<1>2. pos \in Usable /\ pos \in FatEntry
  <2>1. fat[pos] # BadMark /\ pos # 0
    BY <1>1, Marks DEF IInv, ReservedKept, FatEntry
  <2> QED BY <2>1, PosUsable DEF FatEntry, Usable
<1>3. ChainType'
  BY <1>1, InvParts DEF ChainType, Free, FatEntry
<1>4. ReservedKept'
  BY <1>1, <1>2, InvParts, Marks DEF IInv, ReservedKept, ChainType, FatEntry, Usable
<1>5. CursorType' /\ LastUsable' /\ WroteType' /\ FreeType' /\ CacheUsable' /\ HistType'
  BY <1>1, InvParts, SameCursors, SameFree, SameHist DEF HistType
<1>6. PcType' /\ ListType' /\ TodoBound'
  BY <1>1, InvParts DEF PcType, ListType, TodoBound, IInv
<1>7. CallType'
  BY <1>1, InvParts DEF CallType, FatEntry
<1>8. FromPlace' /\ OldFrom' /\ WalkAtEnd' /\ RunsUsable' /\ RunsFit'
  BY <1>1 DEF IInv, FromPlace, OldFrom, WalkAtEnd, RunsUsable, RunsFit, curVars
<1> QED BY <1>3, <1>4, <1>5, <1>6, <1>7, <1>8, Together

\* Freeing the last entry: entry 0 of an empty file stays.
LEMMA FreeEndIInv == IInv /\ FreeEnd => IInv'
<1> SUFFICES ASSUME IInv, FreeEnd PROVE IInv'
  OBVIOUS
<1>1. /\ pc = "free" /\ fat[pos] = EndMark
      /\ AddToFreeClusters(freed) /\ fat' = FreeLast
      /\ first' = [first EXCEPT ![file] = 0] /\ size' = [size EXCEPT ![file] = 0]
      /\ Return("OK")
      /\ UNCHANGED <<curVars, todo, histVars, faults>>
  BY DEF FreeEnd, Counted
<1>2. pos = 0 \/ (pos \in Usable /\ pos \in FatEntry)
  BY <1>1, PosUsable, Marks DEF FatEntry, Usable
<1>3. fat' \in [FatEntry -> FatEntry \cup {BadMark, EndMark}] /\ ReservedKept'
  <2>1. CASE pos = 0
    BY <1>1, <2>1, InvParts DEF FreeLast, ChainType, IInv, ReservedKept
  <2>2. CASE pos # 0
    <3>1. fat' = [fat EXCEPT ![pos] = Free] /\ fat \in [FatEntry -> FatEntry \cup {BadMark, EndMark}]
      BY <1>1, <2>2, InvParts DEF FreeLast, ChainType
    <3>2. fat' \in [FatEntry -> FatEntry \cup {BadMark, EndMark}]
      BY <3>1 DEF Free, FatEntry
    <3>3. ReservedKept'
      BY <1>2, <2>2, <3>1, Marks DEF IInv, ReservedKept, FatEntry, Usable
    <3> QED BY <3>2, <3>3
  <2> QED BY <2>1, <2>2
<1>4. ChainType'
  BY <1>1, <1>3, InvParts DEF ChainType, FatEntry
<1>5. CursorType' /\ LastUsable' /\ WroteType'
  BY <1>1, SameCursors
<1>6. FreeType' /\ CacheUsable'
  <2>1. UNCHANGED <<flag, cache, scanFrom>>
    BY <1>1 DEF AddToFreeClusters
  <2>2. count' \in Nat
    BY <1>1, InvParts DEF AddToFreeClusters, FreeType, CallType
  <2>3. curMin' \in Nat
    BY <1>1, InvParts, ConstAssumption DEF AddToFreeClusters, FreeType
  <2> QED BY <2>1, <2>2, <2>3, InvParts DEF FreeType, CacheUsable, IInv
<1>7. PcType' /\ CallType' /\ ListType' /\ TodoBound' /\ pc' = "idle"
  BY <1>1, ReturnTypes
<1>8. HistType'
  BY <1>1, InvParts DEF HistType, Return, histVars
<1>9. \A f \in Files : from'[f] \in FatEntry \cup {ALLOC}
  BY <1>1 DEF IInv, FromPlace, curVars
<1>10. TypeOK'
  BY <1>4, <1>5, <1>6, <1>7, <1>8, TypeParts
<1> QED BY <1>3, <1>5, <1>6, <1>7, <1>9, <1>10, ReturnIInv

\* A deletion that cannot go on ends the call.
LEMMA FreeFailIInv == IInv /\ FreeFail => IInv'
<1> SUFFICES ASSUME IInv, FreeFail PROVE IInv'
  OBVIOUS
<1>1. /\ pc = "free" /\ torn' = TRUE /\ Return("FAILED")
      /\ UNCHANGED <<chainVars, freeVars, curVars, todo, owner, straddled, calls>>
  BY DEF FreeFail
<1>2. ChainType' /\ ReservedKept' /\ FreeType' /\ CacheUsable'
  BY <1>1, SameChains, SameFree
<1>3. CursorType' /\ LastUsable' /\ WroteType'
  BY <1>1, SameCursors
<1>4. PcType' /\ CallType' /\ ListType' /\ TodoBound' /\ pc' = "idle"
  BY <1>1, ReturnTypes
<1>5. HistType'
  <2>1. torn' \in BOOLEAN
    BY <1>1
  <2>2. faults' \in Nat
    BY InvParts DEF FreeFail, HistType, Fault
  <2> QED BY <1>1, <2>1, <2>2, InvParts DEF HistType, Return
<1>6. \A f \in Files : from'[f] \in FatEntry \cup {ALLOC}
  BY <1>1 DEF IInv, FromPlace, curVars
<1>7. TypeOK'
  BY <1>2, <1>3, <1>4, <1>5, TypeParts
<1> QED BY <1>2, <1>3, <1>4, <1>6, <1>7, ReturnIInv

\* Closing a file forgets its cursor.
LEMMA CloseFileIInv ==
  ASSUME IInv, NEW f \in Files, CloseFile(f)
  PROVE  IInv'
<1>1. /\ pc = "idle"
      /\ from' = [from EXCEPT ![f] = 0] /\ last' = [last EXCEPT ![f] = 0]
      /\ wrote' = [wrote EXCEPT ![f] = <<>>]
      /\ UNCHANGED <<chainVars, freeVars, callVars, histVars, pc, res, faults>>
  BY DEF CloseFile, ForgetCursor
<1>2. ChainType' /\ ReservedKept' /\ FreeType' /\ CacheUsable' /\ HistType'
  BY <1>1, SameChains, SameFree, SameHist, InvParts DEF HistType
<1>3. CursorType'
  BY <1>1, InvParts DEF CursorType, FatEntry
<1>4. LastUsable'
  BY <1>1, InvParts, Marks DEF LastUsable, IInv, CursorType
<1>5. WroteType'
  BY <1>1, InvParts, EmptySeq DEF WroteType
<1>6. PcType' /\ CallType' /\ ListType' /\ TodoBound'
  BY <1>1, InvParts DEF PcType, CallType, ListType, TodoBound, IInv, callVars
<1>7. \A g \in Files : from'[g] \in FatEntry \cup {ALLOC}
  BY <1>1, InvParts DEF IInv, FromPlace, CursorType, FatEntry
<1>8. TypeOK'
  BY <1>2, <1>3, <1>5, <1>6, TypeParts
<1> QED BY <1>1, <1>2, <1>4, <1>6, <1>7, <1>8, ReturnIInv

\* Counting the free clusters changes the counter only.
LEMMA UpdateFreeClustersIInv == IInv /\ UpdateFreeClusters => IInv'
<1> SUFFICES ASSUME IInv, UpdateFreeClusters PROVE IInv'
  OBVIOUS
<1>0. PICK S \in SUBSET (FreeSet \cap Scanned) :
        /\ UNCHANGED faults \/ Fault
        /\ \/ res' = "FAILED" /\ UNCHANGED <<count, flag>>
           \/ res' = "OK" /\ count' = Cardinality(S) /\ flag' = "KNOWN"
  BY DEF UpdateFreeClusters
<1>1. /\ pc = "idle" /\ todo' = 0
      /\ UNCHANGED <<chainVars, cache, scanFrom, curMin, curVars, file, done, need, lst, more,
                     pos, freed, histVars, pc>>
  BY DEF UpdateFreeClusters
<1>2. Cardinality(S) \in Nat
  BY ScannedFinite
<1>3. ChainType' /\ ReservedKept' /\ CursorType' /\ LastUsable' /\ WroteType'
  BY <1>1, SameChains, SameCursors
<1>4. FreeType' /\ CacheUsable'
  BY <1>0, <1>1, <1>2, InvParts DEF FreeType, CacheUsable, IInv
<1>5. PcType' /\ ListType'
  BY <1>1, InvParts DEF PcType, ListType
<1>6. CallType' /\ TodoBound'
  BY <1>1, InvParts, ConstAssumption DEF CallType, TodoBound
<1>7. HistType'
  BY <1>0, <1>1, InvParts DEF HistType, histVars, Fault
<1>8. \A f \in Files : from'[f] \in FatEntry \cup {ALLOC}
  BY <1>1 DEF IInv, FromPlace, curVars
<1>9. TypeOK'
  BY <1>3, <1>4, <1>5, <1>6, <1>7, TypeParts
<1> QED BY <1>1, <1>3, <1>4, <1>6, <1>8, <1>9, ReturnIInv

-----------------------------------------------------------------------------
(* The specification                                                       *)

\* Every step keeps the invariant.
LEMMA NextIInv == IInv /\ [Next]_vars => IInv'
<1> SUFFICES ASSUME IInv, [Next]_vars PROVE IInv'
  OBVIOUS
<1>1. ASSUME NEW f \in Files, DeleteBegin(f) \/ CloseFile(f) \/ \E n \in 1 .. MaxWrite : StoreBegin(f, n)
      PROVE  IInv'
  BY <1>1, DeleteBeginIInv, CloseFileIInv, StoreBeginIInv
<1>2. CASE Begin
  BY <1>1, <1>2, UpdateFreeClustersIInv DEF Begin
<1>3. CASE Continue
  <2>1. CASE Mount \/ TakeNothingLeft \/ TakeRescan \/ HandRun \/ HandReturn
    BY <2>1, MountIInv, TakeNothingLeftIInv, TakeRescanIInv, HandRunIInv, HandReturnIInv
  <2>2. CASE WalkNext \/ WalkEnd \/ WalkFail \/ WriteOld \/ WriteOldMore \/ WriteOldDone \/ PutFail
    BY <2>2, WalkNextIInv, WalkEndIInv, WalkFailIInv, WriteOldIInv, WriteOldMoreIInv,
       WriteOldDoneIInv, PutFailIInv
  <2>3. CASE WriteNew \/ LinkFails \/ LinkTorn \/ WriteNewMore \/ WriteNewDone
    BY <2>3, WriteNewIInv, LinkFailsIInv, LinkTornIInv, WriteNewMoreIInv,
       WriteNewDoneIInv
  <2>4. CASE FreeNext \/ FreeEnd \/ FreeFail
    BY <2>4, FreeNextIInv, FreeEndIInv, FreeFailIInv
  <2> QED BY <1>3, <2>1, <2>2, <2>3, <2>4 DEF Continue
<1>4. CASE UNCHANGED vars
  <2>1. UNCHANGED <<chainVars, freeVars, curVars, callVars, histVars, pc, res, faults>>
    BY <1>4 DEF vars
  <2>2. ChainType' /\ ReservedKept' /\ FreeType' /\ CacheUsable'
    BY <2>1, SameChains, SameFree
  <2>3. CursorType' /\ LastUsable' /\ WroteType' /\ HistType'
    BY <2>1, SameCursors, SameHist, InvParts DEF HistType
  <2>4. PcType' /\ CallType' /\ ListType' /\ TodoBound'
    BY <2>1, InvParts DEF PcType, CallType, ListType, TodoBound, IInv, callVars
  <2>5. FromPlace' /\ OldFrom' /\ WalkAtEnd' /\ RunsUsable' /\ RunsFit'
    BY <2>1 DEF IInv, FromPlace, OldFrom, WalkAtEnd, RunsUsable, RunsFit, curVars, callVars
  <2> QED BY <2>2, <2>3, <2>4, <2>5, Together
<1> QED BY <1>2, <1>3, <1>4 DEF Next

\* A volume in good order satisfies it when it is mounted.
LEMMA InitIInv == Init => IInv
<1> SUFFICES ASSUME Init PROVE IInv
  OBVIOUS
<1>1. PICK ch \in Preload :
       LET links == UNION {Links(ch, f) : f \in Files}
           at(c) == IF \E l \in links : l[1] = c
                      THEN (CHOOSE l \in links : l[1] = c)[2]
                      ELSE IF c \in BadClusters THEN BadMark ELSE Free
       IN /\ fat = [c \in FatEntry |-> IF c = 0 THEN EndMark ELSE at(c)]
          /\ first = [f \in Files |-> IF ch[f] = <<>> THEN 0 ELSE ch[f][1]]
          /\ size = [f \in Files |-> Len(ch[f])]
          /\ owner = [c \in Cluster |-> {f \in Files : \E i \in DOMAIN ch[f] : ch[f][i] = c}]
  BY DEF Init
<1> DEFINE links == UNION {Links(ch, f) : f \in Files}
           at(c) == IF \E l \in links : l[1] = c
                      THEN (CHOOSE l \in links : l[1] = c)[2]
                      ELSE IF c \in BadClusters THEN BadMark ELSE Free
<1>2. \A f \in Files : ch[f] \in Seq(Usable)
  BY ConstAssumption DEF ValidChains, Usable
<1>3. \A l \in links : l[1] \in Usable /\ l[2] \in Cluster \cup {EndMark}
  <2>1. ASSUME NEW f \in Files, NEW l \in Links(ch, f)
        PROVE  l[1] \in Usable /\ l[2] \in Cluster \cup {EndMark}
    <3>1. PICK i \in DOMAIN ch[f] :
            l = <<ch[f][i], IF i = Len(ch[f]) THEN EndMark ELSE ch[f][i + 1]>>
      BY DEF Links
    <3>2. DOMAIN ch[f] = 1 .. Len(ch[f]) /\ Len(ch[f]) \in Nat
      BY <1>2, LenProperties
    <3>3. \A j \in 1 .. Len(ch[f]) : ch[f][j] \in Usable
      BY <1>2, ElementOfSeq
    <3>4. i # Len(ch[f]) => i + 1 \in 1 .. Len(ch[f])
      BY <3>1, <3>2
    <3> QED BY <3>1, <3>2, <3>3, <3>4, Marks
  <2> QED BY <2>1
<1> HIDE DEF links
<1>4. \A c \in FatEntry : at(c) \in FatEntry \cup {BadMark, EndMark}
  <2>1. ASSUME NEW c \in FatEntry, \E l \in links : l[1] = c
        PROVE  (CHOOSE l \in links : l[1] = c)[2] \in FatEntry \cup {BadMark, EndMark}
    BY <1>3, <2>1 DEF FatEntry
  <2> QED BY <2>1 DEF Free, FatEntry
<1>5. \A c \in BadClusters : at(c) = BadMark
  BY <1>3 DEF Usable
<1>6. fat = [c \in FatEntry |-> IF c = 0 THEN EndMark ELSE at(c)]
  BY <1>1 DEF links
<1> HIDE DEF at
<1>7. fat \in [FatEntry -> FatEntry \cup {BadMark, EndMark}] /\ ReservedKept
  <2>1. 0 \in FatEntry /\ BadClusters \subseteq FatEntry /\ 0 \notin BadClusters
    BY Marks DEF FatEntry
  <2> QED BY <1>4, <1>5, <1>6, <2>1 DEF ReservedKept
<1>8. first \in [Files -> FatEntry]
  <2>1. ASSUME NEW f \in Files, ch[f] # <<>> PROVE ch[f][1] \in FatEntry
    <3>1. 1 \in 1 .. Len(ch[f])
      BY <1>2, <2>1, EmptySeq, LenProperties
    <3> QED BY <1>2, <3>1, ElementOfSeq DEF Usable, FatEntry
  <2>2. first = [f \in Files |-> IF ch[f] = <<>> THEN 0 ELSE ch[f][1]]
    BY <1>1
  <2> QED BY <2>1, <2>2 DEF FatEntry
<1>9. size \in [Files -> Nat]
  BY <1>1, <1>2, LenProperties
<1>10. owner \in [Cluster -> SUBSET Files]
  BY <1>1
<1>11. /\ from = [f \in Files |-> 0] /\ last = [f \in Files |-> 0]
       /\ wrote = [f \in Files |-> <<>>]
       /\ cache = {} /\ scanFrom = 0 /\ curMin = MinAdj0 /\ count = 0 /\ flag = "UNKNOWN"
       /\ pc = "mount" /\ file = None
       /\ todo = 0 /\ done = 0 /\ need = 0 /\ lst = <<>> /\ more = FALSE /\ pos = 0 /\ freed = 0
       /\ res = "OK" /\ calls = 0 /\ faults = 0 /\ straddled = FALSE /\ torn = FALSE
  BY DEF Init
<1>12. ChainType /\ CursorType /\ WroteType
  BY <1>7, <1>8, <1>9, <1>11, EmptySeq DEF ChainType, CursorType, WroteType, FatEntry
<1>13. FreeType /\ PcType /\ ListType
  BY <1>11, ConstAssumption, EmptySeq DEF FreeType, PcType, PCs, ListType
<1>14. CallType /\ HistType
  <2>1. more \in BOOLEAN /\ straddled \in BOOLEAN /\ torn \in BOOLEAN
    BY <1>11
  <2>2. todo \in Nat /\ done \in Nat /\ need \in Int /\ pos \in FatEntry /\ freed \in Nat
    BY <1>11 DEF FatEntry
  <2>3. res \in {"OK", "FAILED", "NOMORE"} /\ calls \in Nat /\ faults \in Nat
    BY <1>11
  <2> QED BY <1>10, <2>1, <2>2, <2>3 DEF CallType, HistType
<1>15. FromPlace /\ OldFrom /\ WalkAtEnd /\ RunsUsable /\ RunsFit
  BY <1>11 DEF FromPlace, OldFrom, WalkAtEnd, RunsUsable, RunsFit, FatEntry
<1>16. LastUsable /\ CacheUsable /\ TodoBound
  BY <1>11, Marks, ConstAssumption DEF LastUsable, CacheUsable, TodoBound
<1> QED BY <1>7, <1>12, <1>13, <1>14, <1>15, <1>16, TypeParts DEF IInv

\* The strengthened invariant of writing, allocation and deletion.
THEOREM InvariantHolds == Spec => []IInv
<1> QED BY InitIInv, NextIInv, PTL DEF Spec

\* Every variable keeps its type: no list, cursor or counter of a call takes a
\* value its C variable has no meaning for, for any size of volume and list.
THEOREM WriteTypeCorrect == Spec => []TypeOK
<1>1. IInv => TypeOK
  BY DEF IInv
<1> QED BY <1>1, InvariantHolds, PTL

\* No write, allocation or deletion, cut short by a failure or not, overwrites
\* FAT entry 0 or the mark of a bad cluster.
THEOREM ReservedAlwaysKept == Spec => []ReservedKept
<1>1. IInv => ReservedKept
  BY DEF IInv
<1> QED BY <1>1, InvariantHolds, PTL
=============================================================================
