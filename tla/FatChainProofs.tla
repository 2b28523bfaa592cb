--------------------------- MODULE FatChainProofs ---------------------------
(***************************************************************************)
(* Proofs about FatWrite, for every size of volume, list and request: as   *)
(* long as no failure has torn a chain and no request was served twice     *)
(* (Orderly), chains do not meet, lose no cluster, keep their data and are *)
(* as long as their files, and what is handed out is free.                 *)
(*                                                                         *)
(* The invariant says that there are sequences of clusters, one for each   *)
(* file, of which the FAT, the directory entries, the callers' cursors and *)
(* the lists of the call under way are all pictures.                       *)
(***************************************************************************)
EXTENDS FatWriteProofs

\* The sequences: no cluster twice, and none in two files.
Separate(ch) ==
  /\ ch \in [Files -> Seq(Usable)]
  /\ \A f, g \in Files : \A i \in 1 .. Len(ch[f]), j \in 1 .. Len(ch[g]) :
       ch[f][i] = ch[g][j] => f = g /\ i = j
InChain(ch, c) == \E f \in Files : \E i \in 1 .. Len(ch[f]) : c = ch[f][i]

\* The FAT and the directory entries.  A deletion has freed the first clusters
\* of its chain.
Gone(f) == IF pc = "free" /\ f = file THEN freed ELSE 0
FirstIs(ch) == \A f \in Files : first[f] = IF ch[f] = <<>> THEN 0 ELSE ch[f][1]
LinksAre(ch) ==
  \A f \in Files : \A i \in 1 .. Len(ch[f]) :
    fat[ch[f][i]] = IF i <= Gone(f) THEN Free
                    ELSE IF i = Len(ch[f]) THEN EndMark ELSE ch[f][i + 1]
RestUnused(ch) == \A c \in Cluster : fat[c] \in {Free, BadMark} \/ InChain(ch, c)
SizeIs(ch) == \A f \in Files : size[f] = Len(ch[f])
OwnerIs(ch) == \A f \in Files : \A i \in 1 .. Len(ch[f]) : owner[ch[f][i]] = {f}
FreeingAt(ch) ==
  pc = "free" => /\ from[file] = 0 /\ wrote[file] = <<>>
                 /\ IF ch[file] = <<>> THEN pos = 0 /\ freed = 0
                    ELSE freed < Len(ch[file]) /\ pos = ch[file][freed + 1]

\* What was written is the beginning of the chain, and the caller's cursor is
\* behind it.
WroteIs(ch) ==
  \A f \in Files : /\ Len(wrote[f]) <= Len(ch[f])
                   /\ \A i \in 1 .. Len(wrote[f]) : wrote[f][i] = ch[f][i]
LastIs == \A f \in Files : last[f] = IF wrote[f] = <<>> THEN 0 ELSE wrote[f][Len(wrote[f])]
Writing(f) == f = file /\ pc \in {"walk", "writeOld", "take", "hand", "writeNew"}
CursorIs(ch) ==
  \A f \in Files :
    \/ Writing(f)
    \/ from[f] = 0 /\ wrote[f] = <<>>
    \/ from[f] = ALLOC /\ Len(wrote[f]) = Len(ch[f])
    \/ Len(wrote[f]) < Len(ch[f]) /\ from[f] = ch[f][Len(wrote[f]) + 1]

\* The runs of the list l lie along the chain q, behind its first w clusters:
\* h[i] clusters of the chain lie before the end of the i-th run.
Along(q, l, w, h) ==
  /\ h[0] = w
  /\ \A i \in 1 .. Len(l) :
       /\ h[i] = h[i - 1] + (l[i].adj + 1)
       /\ \A d \in 0 .. l[i].adj : q[h[i - 1] + 1 + d] = l[i].base + d

\* The runs found are the part of the chain behind what was written.
ListIs(ch) ==
  pc \in {"walk", "writeOld"} =>
    /\ ch[file] = <<>> => IF pc = "walk" THEN pos = 0 ELSE lst = <<>> /\ ~more
    /\ ch[file] # <<>> =>
         \E h \in [0 .. Len(lst) -> 0 .. Len(ch[file])] :
           /\ Along(ch[file], lst, Len(wrote[file]), h)
           /\ pc = "walk" => pos = ch[file][h[Len(lst)]]
           /\ pc = "writeOld" =>
                IF more THEN h[Len(lst)] < Len(ch[file]) /\ from[file] = ch[file][h[Len(lst)] + 1]
                        ELSE h[Len(lst)] = Len(ch[file])
DoneIs == pc \in {"walk", "writeOld"} => done <= Len(wrote[file])
AtEnd(ch) == pc \in {"take", "hand", "writeNew"} => Len(wrote[file]) = Len(ch[file])

Pictured(ch) ==
  /\ Separate(ch) /\ FirstIs(ch) /\ LinksAre(ch) /\ RestUnused(ch) /\ SizeIs(ch) /\ OwnerIs(ch)
  /\ FreeingAt(ch) /\ WroteIs(ch) /\ LastIs /\ CursorIs(ch) /\ ListIs(ch) /\ DoneIs /\ AtEnd(ch)

\* What is offered and what is handed out is free, and counted at most once.
ListFree ==
  pc \in {"take", "hand", "writeNew"} =>
    /\ \A i \in 1 .. Len(lst) : RunSet(lst[i]) \subseteq FreeSet \ cache
    /\ \A i, j \in 1 .. Len(lst) : i # j => RunSet(lst[i]) \cap RunSet(lst[j]) = {}
CacheFree == cache \subseteq FreeSet
CountFits ==
  flag # "UNKNOWN" => count + (IF pc = "free" THEN freed ELSE 0) <= Cardinality(FreeSet)

Pictures == \E ch : Pictured(ch)
Sound == Pictures /\ ListFree /\ CacheFree /\ CountFits
OInv == IInv /\ (Orderly => Sound)

-----------------------------------------------------------------------------
(* What a step leaves alone                                                *)

Volume(ch) == /\ Separate(ch) /\ FirstIs(ch) /\ LinksAre(ch) /\ RestUnused(ch)
              /\ SizeIs(ch) /\ OwnerIs(ch)

LEMMA PicturedParts ==
  /\ \A ch : Pictured(ch) <=> /\ Volume(ch) /\ FreeingAt(ch) /\ WroteIs(ch) /\ LastIs
                              /\ CursorIs(ch) /\ ListIs(ch) /\ DoneIs /\ AtEnd(ch)
  /\ \A ch : Pictured(ch)' <=> /\ Volume(ch)' /\ FreeingAt(ch)' /\ WroteIs(ch)' /\ LastIs'
                               /\ CursorIs(ch)' /\ ListIs(ch)' /\ DoneIs' /\ AtEnd(ch)'
  BY DEF Pictured, Volume

\* The volume is as it was.
LEMMA SameVolume ==
  ASSUME NEW ch, Volume(ch), UNCHANGED chainVars, owner' = owner,
         \A f \in Files : Gone(f)' = Gone(f)
  PROVE  Volume(ch)'
<1>1. fat' = fat /\ first' = first /\ size' = size
  BY DEF chainVars
<1>2. Separate(ch)' /\ FirstIs(ch)' /\ SizeIs(ch)' /\ OwnerIs(ch)' /\ RestUnused(ch)'
  BY <1>1 DEF Volume, Separate, FirstIs, SizeIs, OwnerIs, RestUnused, InChain, Usable
<1>3. LinksAre(ch)'
  BY <1>1 DEF Volume, LinksAre
<1> QED BY <1>2, <1>3 DEF Volume

LEMMA NoneGone ==
  /\ pc # "free" => \A f \in Files : Gone(f) = 0
  /\ pc' # "free" => \A f \in Files : Gone(f)' = 0
  BY DEF Gone

LEMMA SameWrote ==
  ASSUME NEW ch, WroteIs(ch), LastIs, wrote' = wrote, last' = last
  PROVE  WroteIs(ch)' /\ LastIs'
  BY DEF WroteIs, LastIs

\* Between calls only the volume and the cursors matter.
LEMMA IdlePictured ==
  ASSUME NEW ch, Volume(ch)', WroteIs(ch)', LastIs', CursorIs(ch)', pc' \in {"mount", "idle"}
  PROVE  Pictures'
<1>1. FreeingAt(ch)' /\ ListIs(ch)' /\ DoneIs' /\ AtEnd(ch)'
  BY DEF FreeingAt, ListIs, DoneIs, AtEnd
<1> QED BY <1>1, PicturedParts DEF Pictures

LEMMA IdleSpace ==
  ASSUME OInv, Orderly, pc # "free", pc' \in {"mount", "idle"}, UNCHANGED <<fat, cache, count, flag>>
  PROVE  ListFree' /\ CacheFree' /\ CountFits'
  BY DEF OInv, Sound, ListFree, CacheFree, CountFits, FreeSet

\* The cursor of one file.
AtCursor(ch, f) ==
  /\ Len(wrote[f]) <= Len(ch[f])
  /\ \A i \in 1 .. Len(wrote[f]) : wrote[f][i] = ch[f][i]
  /\ last[f] = IF wrote[f] = <<>> THEN 0 ELSE wrote[f][Len(wrote[f])]
  /\ \/ Writing(f)
     \/ from[f] = 0 /\ wrote[f] = <<>>
     \/ from[f] = ALLOC /\ Len(wrote[f]) = Len(ch[f])
     \/ Len(wrote[f]) < Len(ch[f]) /\ from[f] = ch[f][Len(wrote[f]) + 1]

\* A step that leaves the cursors of the other files alone.
LEMMA OtherCursors ==
  ASSUME NEW ch, NEW d, WroteIs(ch), LastIs, CursorIs(ch), NEW g \in Files, AtCursor(d, g)',
         \A f \in Files \ {g} : /\ wrote'[f] = wrote[f] /\ last'[f] = last[f] /\ from'[f] = from[f]
                                 /\ d[f] = ch[f] /\ ~Writing(f)
  PROVE  WroteIs(d)' /\ LastIs' /\ CursorIs(d)'
<1>1. ASSUME NEW f \in Files PROVE AtCursor(d, f)'
  <2>1. CASE f = g
    BY <2>1
  <2>2. CASE f # g
    BY <2>2 DEF WroteIs, LastIs, CursorIs, AtCursor
  <2> QED BY <2>1, <2>2
<1> QED BY <1>1 DEF WroteIs, LastIs, CursorIs, AtCursor

\* A forgotten cursor.
LEMMA ForgotCursor ==
  ASSUME CursorType, WroteType, NEW ch, NEW g \in Files, ForgetCursor(g), ch[g] \in Seq(Usable)
  PROVE  /\ AtCursor(ch, g)'
         /\ \A f \in Files \ {g} : wrote'[f] = wrote[f] /\ last'[f] = last[f] /\ from'[f] = from[f]
<1>1. wrote'[g] = <<>> /\ last'[g] = 0 /\ from'[g] = 0
  BY DEF ForgetCursor, CursorType, WroteType
<1>2. Len(wrote'[g]) = 0 /\ Len(ch[g]) \in Nat
  BY <1>1, LenProperties
<1>3. AtCursor(ch, g)'
  BY <1>1, <1>2 DEF AtCursor
<1> QED BY <1>3 DEF ForgetCursor, CursorType, WroteType

\* Data is put in free clusters only: the files hold what they held.
LEMMA DataBesideChains ==
  ASSUME NEW ch, Volume(ch), UNCHANGED chainVars, pc # "free", pc' # "free",
         \A c \in Cluster : c \notin FreeSet => owner'[c] = owner[c]
  PROVE  Volume(ch)'
<1>1. fat' = fat /\ first' = first /\ size' = size
  BY DEF chainVars
<1>2. Separate(ch)' /\ FirstIs(ch)' /\ SizeIs(ch)' /\ RestUnused(ch)'
  BY <1>1 DEF Volume, Separate, FirstIs, SizeIs, RestUnused, InChain, Usable
<1>3. LinksAre(ch)'
  BY <1>1, NoneGone DEF Volume, LinksAre
<1>4. OwnerIs(ch)'
  <2>1. ASSUME NEW f \in Files, NEW i \in 1 .. Len(ch[f]) PROVE owner'[ch[f][i]] = {f}
    <3>1. ch[f] \in Seq(Usable) /\ ch[f][i] \in Cluster /\ Len(ch[f]) \in Nat
      BY Marks, ElementOfSeq, LenProperties DEF Volume, Separate
    <3>2. fat[ch[f][i]] # Free
      <4>1. fat[ch[f][i]] = IF i = Len(ch[f]) THEN EndMark ELSE ch[f][i + 1]
        BY <3>1, NoneGone DEF Volume, LinksAre
      <4>2. i # Len(ch[f]) => ch[f][i + 1] \in Cluster
        <5>1. i # Len(ch[f]) => i + 1 \in 1 .. Len(ch[f])
          BY <3>1
        <5> QED BY <3>1, <5>1, Marks, ElementOfSeq
      <4> QED BY <4>1, <4>2, Marks
    <3>3. ch[f][i] \notin FreeSet
      BY <3>2 DEF FreeSet
    <3> QED BY <3>1, <3>3 DEF Volume, OwnerIs
  <2> QED BY <2>1 DEF OwnerIs
<1> QED BY <1>2, <1>3, <1>4 DEF Volume

\* A call gives up: the cursor of its file is forgotten.
LEMMA FailPictured ==
  ASSUME OInv, Orderly, NEW r, Fail(r), pc \notin {"mount", "idle", "free"},
         UNCHANGED <<chainVars, freeVars>>,
         \A c \in Cluster : c \notin FreeSet => owner'[c] = owner[c]
  PROVE  Sound'
<1>1. PICK ch : Pictured(ch)
  BY DEF OInv, Sound, Pictures
<1>2. pc' = "idle" /\ ForgetCursor(file)
  BY DEF Fail, Return
<1>3. CursorType /\ WroteType /\ file \in Files
  BY InvParts DEF OInv
<1>0. PICK g \in Files : g = file
  BY <1>3
<1>4. Volume(ch)'
  BY <1>1, <1>2, DataBesideChains, PicturedParts
<1>5. AtCursor(ch, g)' /\ \A f \in Files \ {g} :
         wrote'[f] = wrote[f] /\ last'[f] = last[f] /\ from'[f] = from[f]
  <2>1. ch[g] \in Seq(Usable) /\ ForgetCursor(g)
    BY <1>0, <1>1, <1>2 DEF Pictured, Separate
  <2> QED BY <1>3, <2>1, ForgotCursor
<1>6. WroteIs(ch)' /\ LastIs' /\ CursorIs(ch)'
  <2>1. \A f \in Files \ {g} : ~Writing(f)
    BY <1>0 DEF Writing
  <2> QED BY <1>1, <1>5, <2>1, OtherCursors DEF Pictured
<1>7. ListFree' /\ CacheFree' /\ CountFits'
  BY <1>2, IdleSpace DEF chainVars, freeVars
<1> QED BY <1>2, <1>4, <1>6, <1>7, IdlePictured DEF Sound

\* The beginning of a failed or finished call, and of the step before.
LEMMA SoundParts ==
  /\ OInv /\ Orderly => IInv /\ Pictures /\ ListFree /\ CacheFree /\ CountFits
  /\ Pictures' /\ ListFree' /\ CacheFree' /\ CountFits' => Sound'
  BY DEF OInv, Sound

LEMMA ClustersFinite ==
  ASSUME NEW S \in SUBSET Cluster
  PROVE  IsFiniteSet(S) /\ Cardinality(S) \in Nat
<1>1. IsFiniteSet(Cluster)
  BY FS_Interval, ConstAssumption DEF Cluster
<1> QED BY <1>1, FS_Subset, FS_CardinalityType

-----------------------------------------------------------------------------
(* Mounting, and taking free clusters                                      *)

\* A scan offers free clusters from where it started, and its guess is not
\* more than it found.
LEMMA RescanSpace ==
  ASSUME OInv, Orderly, NEW S \in SUBSET Visible, Rescan(S), fat' = fat,
         pc # "free", pc' # "free"
  PROVE  CacheFree' /\ CountFits' /\ \A c \in cache' : c >= ScanStart
<1>1. S \in SUBSET Scanned /\ S \subseteq FreeSet /\ FreeSet' = FreeSet /\ \A c \in S : c >= ScanStart
  BY DEF Visible, FreeSet
<1>2. CASE S = {}
  <2>1. cache' = {} /\ UNCHANGED <<count, flag>>
    BY <1>2 DEF Rescan
  <2> QED BY <1>1, <2>1, SoundParts DEF CacheFree, CountFits
<1>3. CASE S # {}
  <2> DEFINE K == Kept(S, MinForScan, FreeClSize)
             n == Cardinality(K) - Cardinality(KeptStarts(S, MinForScan, FreeClSize))
  <2>1. MinForScan \in Nat /\ FreeClSize \in Nat \ {0}
    BY ConstAssumption, SoundParts DEF MinForScan, IInv, TypeOK
  <2>2. K \subseteq S /\ n \in Nat /\ Cardinality(KeptStarts(S, MinForScan, FreeClSize)) \in Nat
    BY <1>1, <1>3, <2>1, KeptFacts
  <2>3. cache' = K /\ GuessFreeClusters(n)
    BY <1>3 DEF Rescan
  <2>4. n <= Cardinality(FreeSet) /\ Cardinality(FreeSet) \in Nat
    <3>1. FreeSet \in SUBSET Cluster /\ K \in SUBSET FreeSet
      BY <1>1, <2>2 DEF FreeSet
    <3>2. IsFiniteSet(FreeSet) /\ Cardinality(FreeSet) \in Nat
      BY <3>1, ClustersFinite
    <3>3. Cardinality(K) \in Nat /\ Cardinality(K) <= Cardinality(FreeSet)
      BY <3>1, <3>2, FS_Subset, FS_CardinalityType
    <3> QED BY <2>2, <3>2, <3>3
  <2> HIDE DEF n
  <2>5. CountFits'
    <3>1. flag # "UNKNOWN" => count + 0 <= Cardinality(FreeSet)
      BY SoundParts DEF CountFits
    <3>2. count \in Nat
      BY SoundParts DEF IInv, TypeOK
    <3> QED BY <1>1, <2>2, <2>3, <2>4, <3>1, <3>2 DEF CountFits, GuessFreeClusters
  <2> QED BY <1>1, <2>2, <2>3, <2>5 DEF CacheFree
<1> QED BY <1>2, <1>3

\* The cursors of all files are as they were.
LEMMA SameCursorPictures ==
  ASSUME NEW ch, WroteIs(ch), LastIs, CursorIs(ch), UNCHANGED curVars,
         \A f \in Files : Writing(f) => Writing(f)'
  PROVE  WroteIs(ch)' /\ LastIs' /\ CursorIs(ch)'
  BY DEF WroteIs, LastIs, CursorIs, curVars

LEMMA MountSound ==
  ASSUME OInv, Orderly, Mount
  PROVE  Sound'
<1>1. /\ pc = "mount" /\ pc' = "idle"
      /\ UNCHANGED <<chainVars, curVars, callVars, histVars>>
  BY DEF Mount
<1>2. PICK ch : Pictured(ch)
  BY SoundParts DEF Pictures
<1>3. Volume(ch)'
  BY <1>1, <1>2, NoneGone, SameVolume, PicturedParts DEF histVars
<1>4. WroteIs(ch)' /\ LastIs' /\ CursorIs(ch)'
  <2>1. \A f \in Files : ~Writing(f)
    BY <1>1 DEF Writing
  <2> QED BY <1>1, <1>2, <2>1, SameCursorPictures DEF Pictured
<1>5. Pictures'
  BY <1>1, <1>3, <1>4, IdlePictured
<1>6. CacheFree' /\ CountFits'
  <2>1. CASE UNCHANGED freeVars
    BY <1>1, <2>1, IdleSpace DEF freeVars, chainVars
  <2>2. CASE \E S \in SUBSET Visible : Rescan(S)
    BY <1>1, <2>2, RescanSpace DEF chainVars
  <2> QED BY <2>1, <2>2 DEF Mount
<1>7. ListFree'
  BY <1>1 DEF ListFree
<1> QED BY <1>5, <1>6, <1>7, SoundParts

LEMMA TakeNothingLeftSound ==
  ASSUME OInv, Orderly, TakeNothingLeft
  PROVE  Sound'
<1>1. pc = "take" /\ Fail("NOMORE") /\ UNCHANGED <<chainVars, freeVars, histVars>>
  BY DEF TakeNothingLeft
<1> QED BY <1>1, FailPictured DEF histVars

LEMMA WalkFailSound ==
  ASSUME OInv, Orderly, WalkFail
  PROVE  Sound'
<1>1. pc = "walk" /\ Fail("FAILED") /\ UNCHANGED <<chainVars, freeVars, histVars>>
  BY DEF WalkFail
<1> QED BY <1>1, FailPictured DEF histVars

LEMMA PutFailSound ==
  ASSUME OInv, Orderly, PutFail
  PROVE  Sound'
<1>1. pc \in {"writeOld", "writeNew"} /\ Fail("FAILED") /\ UNCHANGED <<chainVars, freeVars, histVars>>
  BY DEF PutFail
<1> QED BY <1>1, FailPictured DEF histVars

\* While clusters are taken from the free list the files are as they were.
LEMMA TakingPictured ==
  ASSUME OInv, Orderly, UNCHANGED <<chainVars, curVars, owner, file>>,
         pc \in {"take", "hand", "writeNew"}, pc' \in {"take", "hand", "writeNew"}
  PROVE  Pictures'
<1>1. PICK ch : Pictured(ch)
  BY SoundParts DEF Pictures
<1>2. Volume(ch)'
  BY <1>1, NoneGone, SameVolume, PicturedParts
<1>3. WroteIs(ch)' /\ LastIs' /\ CursorIs(ch)'
  <2>1. \A f \in Files : Writing(f) => Writing(f)'
    BY DEF Writing
  <2> QED BY <1>1, <2>1, SameCursorPictures DEF Pictured
<1>4. FreeingAt(ch)' /\ ListIs(ch)' /\ DoneIs' /\ AtEnd(ch)'
  BY <1>1 DEF FreeingAt, ListIs, DoneIs, AtEnd, Pictured, curVars
<1> QED BY <1>2, <1>3, <1>4, PicturedParts DEF Pictures

\* A second scan: it finds nothing that was handed out, or the request is no
\* longer an orderly one.
LEMMA TakeRescanSound ==
  ASSUME OInv, Orderly, Orderly', TakeRescan
  PROVE  Sound'
<1>1. /\ pc = "take" /\ pc' \in {"take", "hand"}
      /\ UNCHANGED <<chainVars, curVars, callVars, owner>>
      /\ straddled' = (straddled \/ \E c \in Handed : c >= ScanStart)
  BY DEF TakeRescan
<1>2. PICK S \in SUBSET Visible : Rescan(S)
  BY DEF TakeRescan
<1>3. Pictures'
  BY <1>1, TakingPictured DEF callVars
<1>4. CacheFree' /\ CountFits' /\ \A c \in cache' : c >= ScanStart
  BY <1>1, <1>2, RescanSpace DEF chainVars
<1>5. ListFree'
  <2>1. \A c \in Handed : ~(c >= ScanStart)
    BY <1>1 DEF Orderly
  <2>2. /\ \A i \in 1 .. Len(lst) : RunSet(lst[i]) \subseteq FreeSet
        /\ \A i, j \in 1 .. Len(lst) : i # j => RunSet(lst[i]) \cap RunSet(lst[j]) = {}
    BY <1>1, SoundParts DEF ListFree
  <2>3. DOMAIN lst = 1 .. Len(lst)
    BY SoundParts, InvParts, LenProperties DEF ListType
  <2>4. \A i \in 1 .. Len(lst) : RunSet(lst[i]) \subseteq Handed
    BY <2>3 DEF Handed
  <2>5. \A i \in 1 .. Len(lst) : RunSet(lst[i]) \subseteq FreeSet \ cache'
    BY <1>4, <2>1, <2>2, <2>4
  <2>6. FreeSet' = FreeSet /\ lst' = lst
    BY <1>1 DEF FreeSet, chainVars, callVars
  <2> QED BY <2>2, <2>5, <2>6 DEF ListFree, RunSet
<1> QED BY <1>3, <1>4, <1>5, SoundParts

\* A run of the cache becomes one of the list.
LEMMA HandRunSound ==
  ASSUME OInv, Orderly, HandRun
  PROVE  Sound'
<1> DEFINE run == FirstRun(cache)
           card == Cardinality(run)
           got == IF card <= need THEN card ELSE need
           m == MinOf(cache)
           r == Run(m, got - 1)
<1>1. /\ pc = "hand" /\ pc' \in {"take", "hand"} /\ need > 0 /\ cache # {}
      /\ lst' = Append(lst, r) /\ cache' = cache \ RunSet(r)
      /\ UNCHANGED <<chainVars, scanFrom, curMin, count, flag, curVars, file, histVars>>
  BY DEF HandRun, KeepRest
<1>2. need \in Int /\ cache \in SUBSET Scanned /\ lst \in Seq(RunT)
  BY SoundParts, InvParts DEF CallType, FreeType, ListType
<1>3. /\ m \in cache /\ run \subseteq cache /\ card \in Nat \ {0} /\ run = m .. (m + card - 1)
  BY <1>1, <1>2, FirstRunFacts
<1>4. m \in Cluster /\ m \in Nat
  BY <1>2, <1>3, Marks
<1> HIDE DEF m, card, run
<1>5. got \in Nat \ {0} /\ got <= card
  BY <1>1, <1>2, <1>3
<1>6. r \in RunT /\ r.base = m /\ r.adj = got - 1
  BY <1>4, <1>5 DEF Run, RunT, FatEntry
<1>7. RunSet(r) \subseteq cache
  <2>1. RunSet(r) = m .. (m + (got - 1))
    BY <1>6 DEF RunSet
  <2>2. m .. (m + (got - 1)) \subseteq m .. (m + card - 1)
    BY <1>3, <1>4, <1>5
  <2> QED BY <1>3, <2>1, <2>2
<1> HIDE DEF r
<1>8. Len(lst) \in Nat
  BY <1>2, LenProperties
<1>9. /\ Len(lst') = Len(lst) + 1 /\ \A i \in 1 .. Len(lst) : lst'[i] = lst[i]
      /\ lst'[Len(lst) + 1] = r
  BY <1>1, <1>2, <1>6, AppendProperties
<1>10. FreeSet' = FreeSet /\ cache \subseteq FreeSet
  BY <1>1, SoundParts DEF FreeSet, chainVars, CacheFree
<1>11. Pictures'
  BY <1>1, TakingPictured DEF histVars
<1>12. CacheFree'
  BY <1>1, <1>10 DEF CacheFree
<1>13. CountFits'
  BY <1>1, <1>10, SoundParts DEF CountFits
<1>14. ListFree'
  <2>1. \A i \in 1 .. Len(lst') : i = Len(lst) + 1 \/ i \in 1 .. Len(lst)
    BY <1>8, <1>9
  <2>2. \A i \in 1 .. Len(lst) : RunSet(lst[i]) \subseteq FreeSet \ cache
    BY <1>1, SoundParts DEF ListFree
  <2>3. \A i, j \in 1 .. Len(lst) : i # j => RunSet(lst[i]) \cap RunSet(lst[j]) = {}
    BY <1>1, SoundParts DEF ListFree
  <2>4. \A i \in 1 .. Len(lst') : RunSet(lst'[i]) \subseteq FreeSet \ cache'
    BY <1>1, <1>7, <1>9, <1>10, <2>1, <2>2
  <2>5. ASSUME NEW i \in 1 .. Len(lst'), NEW j \in 1 .. Len(lst'), i # j
        PROVE  RunSet(lst'[i]) \cap RunSet(lst'[j]) = {}
    <3>1. CASE i \in 1 .. Len(lst) /\ j \in 1 .. Len(lst)
      BY <1>9, <2>3, <2>5, <3>1
    <3>2. CASE i = Len(lst) + 1
      <4>1. j \in 1 .. Len(lst)
        BY <2>1, <2>5, <3>2
      <4>2. RunSet(lst'[i]) \subseteq cache /\ RunSet(lst'[j]) \subseteq FreeSet \ cache
        BY <1>7, <1>9, <2>2, <3>2, <4>1
      <4> QED BY <4>2
    <3>3. CASE j = Len(lst) + 1
      <4>1. i \in 1 .. Len(lst)
        BY <2>1, <2>5, <3>3
      <4>2. RunSet(lst'[j]) \subseteq cache /\ RunSet(lst'[i]) \subseteq FreeSet \ cache
        BY <1>7, <1>9, <2>2, <3>3, <4>1
      <4> QED BY <4>2
    <3> QED BY <2>1, <3>1, <3>2, <3>3
  <2> QED BY <1>10, <2>4, <2>5 DEF ListFree, RunSet
<1> QED BY <1>11, <1>12, <1>13, <1>14, SoundParts

LEMMA HandReturnSound ==
  ASSUME OInv, Orderly, HandReturn
  PROVE  Sound'
<1>1. /\ pc = "hand" /\ pc' = "writeNew"
      /\ UNCHANGED <<chainVars, freeVars, curVars, file, lst, histVars>>
  BY DEF HandReturn
<1>2. Pictures'
  BY <1>1, TakingPictured DEF histVars
<1>3. ListFree' /\ CacheFree' /\ CountFits'
  BY <1>1, SoundParts DEF ListFree, CacheFree, CountFits, FreeSet, RunSet, chainVars, freeVars
<1> QED BY <1>2, <1>3, SoundParts

\* Asking for clusters, with the chain at its end.
LEMMA AskForSpace ==
  ASSUME OInv, Orderly, NEW n, AskFor(n), UNCHANGED <<fat, freeVars>>, pc # "free"
  PROVE  ListFree' /\ CacheFree' /\ CountFits'
<1>1. lst' = <<>> /\ pc' \in {"take", "hand"}
  BY DEF AskFor
<1>2. \A i \in 1 .. Len(lst') : FALSE
  BY <1>1
<1> QED BY <1>1, <1>2, SoundParts DEF ListFree, CacheFree, CountFits, FreeSet, freeVars

LEMMA WriteNewMoreSound ==
  ASSUME OInv, Orderly, WriteNewMore
  PROVE  Sound'
<1>1. /\ pc = "writeNew" /\ AskFor(todo)
      /\ UNCHANGED <<chainVars, freeVars, curVars, file, histVars>>
  BY DEF WriteNewMore
<1>2. pc' \in {"take", "hand"}
  BY <1>1 DEF AskFor
<1>3. Pictures'
  BY <1>1, <1>2, TakingPictured DEF histVars
<1>4. ListFree' /\ CacheFree' /\ CountFits'
  BY <1>1, AskForSpace DEF chainVars
<1> QED BY <1>3, <1>4, SoundParts

\* A write that is done: its cursor asks for allocation at the end of the chain.
LEMMA WriteNewDoneSound ==
  ASSUME OInv, Orderly, WriteNewDone
  PROVE  Sound'
<1>1. /\ pc = "writeNew" /\ pc' = "idle" /\ from' = [from EXCEPT ![file] = ALLOC]
      /\ UNCHANGED <<chainVars, freeVars, last, wrote, histVars>>
  BY DEF WriteNewDone, Return
<1>2. PICK ch : Pictured(ch)
  BY SoundParts DEF Pictures
<1>3. CursorType /\ WroteType /\ file \in Files
  BY <1>1, SoundParts, InvParts
<1>0. PICK g \in Files : g = file
  BY <1>3
<1>4. Volume(ch)'
  BY <1>1, <1>2, NoneGone, SameVolume, PicturedParts DEF histVars
<1>5. AtCursor(ch, g)'
  <2>1. from'[g] = ALLOC /\ Len(wrote'[g]) = Len(ch[g])
    BY <1>0, <1>1, <1>2, <1>3 DEF CursorType, Pictured, AtEnd
  <2>2. /\ Len(wrote'[g]) <= Len(ch[g])
        /\ \A i \in 1 .. Len(wrote'[g]) : wrote'[g][i] = ch[g][i]
        /\ last'[g] = IF wrote'[g] = <<>> THEN 0 ELSE wrote'[g][Len(wrote'[g])]
    BY <1>1, <1>2 DEF Pictured, WroteIs, LastIs
  <2> QED BY <2>1, <2>2 DEF AtCursor
<1>6. WroteIs(ch)' /\ LastIs' /\ CursorIs(ch)'
  <2>1. \A f \in Files \ {g} : wrote'[f] = wrote[f] /\ last'[f] = last[f] /\ from'[f] = from[f]
    BY <1>0, <1>1, <1>3 DEF CursorType
  <2>2. \A f \in Files \ {g} : ~Writing(f)
    BY <1>0 DEF Writing
  <2> QED BY <1>2, <1>5, <2>1, <2>2, OtherCursors DEF Pictured
<1>7. ListFree' /\ CacheFree' /\ CountFits'
  BY <1>1, IdleSpace DEF chainVars, freeVars
<1> QED BY <1>1, <1>4, <1>6, <1>7, IdlePictured, SoundParts

-----------------------------------------------------------------------------
(* Deleting, and the calls between                                         *)

LEMMA CloseFileSound ==
  ASSUME OInv, Orderly, NEW f \in Files, CloseFile(f)
  PROVE  Sound'
<1>1. /\ pc = "idle" /\ pc' = "idle" /\ ForgetCursor(f)
      /\ UNCHANGED <<chainVars, freeVars, histVars>>
  BY DEF CloseFile
<1>2. PICK ch : Pictured(ch)
  BY SoundParts DEF Pictures
<1>3. CursorType /\ WroteType
  BY SoundParts, InvParts
<1>4. Volume(ch)'
  BY <1>1, <1>2, NoneGone, SameVolume, PicturedParts DEF histVars
<1>5. WroteIs(ch)' /\ LastIs' /\ CursorIs(ch)'
  <2>1. ch[f] \in Seq(Usable)
    BY <1>2 DEF Pictured, Separate
  <2>2. AtCursor(ch, f)' /\ \A g \in Files \ {f} :
          wrote'[g] = wrote[g] /\ last'[g] = last[g] /\ from'[g] = from[g]
    BY <1>1, <1>3, <2>1, ForgotCursor
  <2>3. \A g \in Files \ {f} : ~Writing(g)
    BY <1>1 DEF Writing
  <2> QED BY <1>2, <2>2, <2>3, OtherCursors DEF Pictured
<1>6. ListFree' /\ CacheFree' /\ CountFits'
  BY <1>1, IdleSpace DEF chainVars, freeVars
<1> QED BY <1>1, <1>4, <1>5, <1>6, IdlePictured, SoundParts

\* Counting looks at a part of the FAT only.
LEMMA UpdateFreeClustersSound ==
  ASSUME OInv, Orderly, UpdateFreeClusters
  PROVE  Sound'
<1>0. PICK S \in SUBSET (FreeSet \cap Scanned) :
         \/ UNCHANGED <<count, flag>>
         \/ count' = Cardinality(S)
  BY DEF UpdateFreeClusters
<1>1. /\ pc = "idle" /\ pc' = "idle"
      /\ UNCHANGED <<chainVars, cache, curVars, file, histVars>>
  BY DEF UpdateFreeClusters
<1>2. PICK ch : Pictured(ch)
  BY SoundParts DEF Pictures
<1>3. Volume(ch)'
  BY <1>1, <1>2, NoneGone, SameVolume, PicturedParts DEF histVars
<1>4. WroteIs(ch)' /\ LastIs' /\ CursorIs(ch)'
  <2>1. \A f \in Files : ~Writing(f)
    BY <1>1 DEF Writing
  <2> QED BY <1>1, <1>2, <2>1, SameCursorPictures DEF Pictured
<1>5. FreeSet' = FreeSet
  BY <1>1 DEF FreeSet, chainVars
<1>6. CountFits'
  <2>1. FreeSet \in SUBSET Cluster /\ S \in SUBSET FreeSet
    BY DEF FreeSet
  <2>2. IsFiniteSet(FreeSet) /\ Cardinality(FreeSet) \in Nat
    BY <2>1, ClustersFinite
  <2>3. Cardinality(S) \in Nat /\ Cardinality(S) <= Cardinality(FreeSet)
    BY <2>1, <2>2, FS_Subset, FS_CardinalityType
  <2> QED BY <1>0, <1>1, <1>5, <2>2, <2>3, SoundParts DEF CountFits
<1>7. CacheFree' /\ ListFree'
  BY <1>1, <1>5, SoundParts DEF CacheFree, ListFree
<1> QED BY <1>1, <1>3, <1>4, <1>6, <1>7, IdlePictured, SoundParts

LEMMA DeleteBeginSound ==
  ASSUME OInv, Orderly, NEW f \in Files, DeleteBegin(f)
  PROVE  Sound'
<1>1. /\ pc = "idle" /\ pc' = "free" /\ file' = f /\ pos' = first[f] /\ freed' = 0
      /\ ForgetCursor(f) /\ UNCHANGED <<chainVars, freeVars, owner>>
  BY DEF DeleteBegin
<1>2. PICK ch : Pictured(ch)
  BY SoundParts DEF Pictures
<1>3. CursorType /\ WroteType
  BY SoundParts, InvParts
<1>4. Volume(ch)'
  <2>1. \A g \in Files : Gone(g) = 0 /\ Gone(g)' = 0
    BY <1>1 DEF Gone
  <2> QED BY <1>1, <1>2, <2>1, SameVolume, PicturedParts
<1>5. WroteIs(ch)' /\ LastIs' /\ CursorIs(ch)'
  <2>1. ch[f] \in Seq(Usable)
    BY <1>2 DEF Pictured, Separate
  <2>2. AtCursor(ch, f)' /\ \A g \in Files \ {f} :
          wrote'[g] = wrote[g] /\ last'[g] = last[g] /\ from'[g] = from[g]
    BY <1>1, <1>3, <2>1, ForgotCursor
  <2>3. \A g \in Files \ {f} : ~Writing(g)
    BY <1>1 DEF Writing
  <2> QED BY <1>2, <2>2, <2>3, OtherCursors DEF Pictured
<1>6. FreeingAt(ch)'
  <2>1. first[f] = IF ch[f] = <<>> THEN 0 ELSE ch[f][1]
    BY <1>2 DEF Pictured, FirstIs
  <2>2. ch[f] # <<>> => 0 < Len(ch[f])
    <3>1. ch[f] \in Seq(Usable)
      BY <1>2 DEF Pictured, Separate
    <3> QED BY <3>1, EmptySeq, LenProperties
  <2>3. 0 + 1 = 1
    OBVIOUS
  <2>4. from'[f] = 0 /\ wrote'[f] = <<>>
    BY <1>1, <1>3 DEF ForgetCursor, CursorType, WroteType
  <2> QED BY <1>1, <2>1, <2>2, <2>3, <2>4 DEF FreeingAt
<1>7. ListIs(ch)' /\ DoneIs' /\ AtEnd(ch)' /\ ListFree'
  BY <1>1 DEF ListIs, DoneIs, AtEnd, ListFree
<1>8. CacheFree' /\ CountFits'
  BY <1>1, SoundParts DEF CacheFree, CountFits, FreeSet, chainVars, freeVars
<1> QED BY <1>4, <1>5, <1>6, <1>7, <1>8, PicturedParts, SoundParts DEF Pictures

\* Freeing a cluster makes it free, and leaves every other as it was.
LEMMA FreedSpace ==
  ASSUME ChainType, NEW p \in Cluster, fat' = [fat EXCEPT ![p] = Free]
  PROVE  /\ FreeSet' = FreeSet \cup {p}
         /\ fat'[p] = Free /\ \A c \in Cluster \ {p} : fat'[c] = fat[c]
         /\ Cardinality(FreeSet) \in Nat /\ Cardinality(FreeSet') \in Nat
         /\ Cardinality(FreeSet) <= Cardinality(FreeSet')
         /\ fat[p] # Free => Cardinality(FreeSet') = Cardinality(FreeSet) + 1
<1>1. p \in FatEntry /\ Cluster \subseteq FatEntry
  BY DEF FatEntry
<1>2. fat'[p] = Free /\ \A c \in Cluster \ {p} : fat'[c] = fat[c]
  BY <1>1 DEF ChainType
<1>3. FreeSet' = FreeSet \cup {p}
  BY <1>2 DEF FreeSet
<1>4. FreeSet \in SUBSET Cluster /\ FreeSet' \in SUBSET Cluster
  BY <1>3 DEF FreeSet
<1>5. /\ IsFiniteSet(FreeSet) /\ Cardinality(FreeSet) \in Nat
      /\ IsFiniteSet(FreeSet') /\ Cardinality(FreeSet') \in Nat
  BY <1>4, ClustersFinite
<1>6. Cardinality(FreeSet) <= Cardinality(FreeSet')
  BY <1>3, <1>5, FS_Subset
<1>7. fat[p] # Free => Cardinality(FreeSet') = Cardinality(FreeSet) + 1
  BY <1>3, <1>5, FS_AddElement DEF FreeSet
<1> QED BY <1>2, <1>3, <1>5, <1>6, <1>7

\* The cluster a deletion looks at.
LEMMA FreeingFacts ==
  ASSUME NEW ch, Pictured(ch), IInv, pc = "free"
  PROVE  /\ file \in Files /\ ch[file] \in Seq(Usable) /\ Len(ch[file]) \in Nat /\ freed \in Nat
         /\ \A f \in Files : Gone(f) = IF f = file THEN freed ELSE 0
         /\ ch[file] = <<>> => pos = 0 /\ freed = 0 /\ fat[pos] = EndMark
         /\ ch[file] # <<>> => /\ freed + 1 \in 1 .. Len(ch[file]) /\ pos = ch[file][freed + 1]
                               /\ pos \in Cluster /\ pos \in FatEntry
                               /\ fat[pos] = IF freed + 1 = Len(ch[file]) THEN EndMark
                                             ELSE ch[file][freed + 2]
                               /\ fat[pos] # Free
<1>1. file \in Files /\ freed \in Nat
  BY InvParts DEF CallType
<1>2. ch[file] \in Seq(Usable)
  BY <1>1 DEF Pictured, Separate
<1>3. Len(ch[file]) \in Nat /\ \A i \in 1 .. Len(ch[file]) : ch[file][i] \in Usable
  BY <1>2, LenProperties, ElementOfSeq
<1>4. \A f \in Files : Gone(f) = IF f = file THEN freed ELSE 0
  BY DEF Gone
<1>5. ASSUME ch[file] = <<>> PROVE pos = 0 /\ freed = 0 /\ fat[pos] = EndMark
  BY <1>5 DEF Pictured, FreeingAt, IInv, ReservedKept
<1>6. ASSUME ch[file] # <<>>
      PROVE  /\ freed + 1 \in 1 .. Len(ch[file]) /\ pos = ch[file][freed + 1]
             /\ pos \in Cluster /\ pos \in FatEntry
             /\ fat[pos] = IF freed + 1 = Len(ch[file]) THEN EndMark ELSE ch[file][freed + 2]
             /\ fat[pos] # Free
  <2>1. freed < Len(ch[file]) /\ pos = ch[file][freed + 1]
    BY <1>6 DEF Pictured, FreeingAt
  <2>2. freed + 1 \in 1 .. Len(ch[file]) /\ ~(freed + 1 <= freed)
    BY <1>1, <1>3, <2>1
  <2>3. pos \in Usable
    BY <1>3, <2>1, <2>2
  <2>4. fat[pos] = IF freed + 1 = Len(ch[file]) THEN EndMark ELSE ch[file][(freed + 1) + 1]
    BY <1>1, <1>4, <2>1, <2>2 DEF Pictured, LinksAre
  <2>5. (freed + 1) + 1 = freed + 2
    BY <1>1
  <2>6. freed + 1 # Len(ch[file]) => ch[file][freed + 2] \in Usable
    <3>1. freed + 1 # Len(ch[file]) => freed + 2 \in 1 .. Len(ch[file])
      BY <1>1, <1>3, <2>2
    <3> QED BY <1>3, <3>1
  <2> QED BY <2>1, <2>2, <2>3, <2>4, <2>5, <2>6, Marks DEF FatEntry
<1> QED BY <1>1, <1>2, <1>3, <1>4, <1>5, <1>6

\* The next cluster of the chain is freed.
LEMMA FreeNextSound ==
  ASSUME OInv, Orderly, FreeNext
  PROVE  Sound'
<1>1. /\ pc = "free" /\ pc' = "free" /\ fat[pos] \in Cluster /\ fat' = [fat EXCEPT ![pos] = Free]
      /\ freed' = freed + 1 /\ pos' = fat[pos]
      /\ UNCHANGED <<first, size, freeVars, curVars, file, histVars>>
  BY DEF FreeNext
<1>2. PICK ch : Pictured(ch)
  BY SoundParts DEF Pictures
<1>3. ch[file] # <<>>
  <2>1. fat[pos] # EndMark
    BY <1>1, Marks DEF FatEntry
  <2> QED BY <1>1, <1>2, <2>1, FreeingFacts, SoundParts
<1>4. /\ file \in Files /\ Len(ch[file]) \in Nat /\ freed \in Nat
      /\ \A f \in Files : Gone(f) = IF f = file THEN freed ELSE 0
      /\ freed + 1 \in 1 .. Len(ch[file]) /\ pos = ch[file][freed + 1]
      /\ pos \in Cluster /\ fat[pos] # Free
      /\ freed + 1 # Len(ch[file]) /\ pos' = ch[file][freed + 2]
  <2>1. fat[pos] # EndMark
    BY <1>1, Marks DEF FatEntry
  <2> QED BY <1>1, <1>2, <1>3, <2>1, FreeingFacts, SoundParts
<1>5. PICK p \in Cluster : p = pos
  BY <1>4
<1>6. /\ FreeSet' = FreeSet \cup {p}
      /\ fat'[p] = Free /\ \A c \in Cluster \ {p} : fat'[c] = fat[c]
      /\ Cardinality(FreeSet) \in Nat /\ Cardinality(FreeSet') = Cardinality(FreeSet) + 1
  BY <1>1, <1>4, <1>5, FreedSpace, SoundParts, InvParts
<1>7. Separate(ch)
  BY <1>2 DEF Pictured
<1>8. LinksAre(ch)'
  <2>1. \A f \in Files : Gone(f)' = IF f = file THEN freed + 1 ELSE 0
    BY <1>1 DEF Gone
  <2>2. ASSUME NEW f \in Files, NEW i \in 1 .. Len(ch[f])
        PROVE  fat'[ch[f][i]] = IF i <= Gone(f)' THEN Free
                                ELSE IF i = Len(ch[f]) THEN EndMark ELSE ch[f][i + 1]
    <3>0. ch[f] \in Seq(Usable) /\ Len(ch[f]) \in Nat
      BY <1>7, LenProperties DEF Separate
    <3>1. ch[f][i] \in Cluster
      BY <3>0, ElementOfSeq, Marks
    <3>2. CASE ch[f][i] = p
      <4>1. f = file /\ i = freed + 1
        BY <1>4, <1>5, <1>7, <3>2 DEF Separate
      <4> QED BY <1>4, <1>6, <2>1, <3>2, <4>1
    <3>3. CASE ch[f][i] # p
      <4>1. fat'[ch[f][i]] = fat[ch[f][i]]
        BY <1>6, <3>1, <3>3
      <4>2. f = file => i # freed + 1
        BY <1>4, <1>5, <3>3
      <4>3. i <= Gone(f)' <=> i <= Gone(f)
        BY <1>4, <2>1, <3>0, <4>2
      <4> QED BY <1>2, <4>1, <4>3 DEF Pictured, LinksAre
    <3> QED BY <3>2, <3>3
  <2> QED BY <2>2 DEF LinksAre
<1>9. Volume(ch)'
  <2>1. RestUnused(ch)'
    <3>1. \A c \in Cluster : fat'[c] \in {Free, BadMark} \/ InChain(ch, c)
      BY <1>2, <1>6 DEF Pictured, RestUnused
    <3> QED BY <3>1 DEF RestUnused, InChain
  <2>2. Separate(ch)' /\ FirstIs(ch)' /\ SizeIs(ch)' /\ OwnerIs(ch)'
    BY <1>1, <1>2 DEF Pictured, Separate, Usable, FirstIs, SizeIs, OwnerIs, histVars
  <2> QED BY <1>8, <2>1, <2>2 DEF Volume
<1>10. FreeingAt(ch)'
  <2>1. freed' < Len(ch[file]) /\ pos' = ch[file][freed' + 1]
    BY <1>1, <1>4
  <2> QED BY <1>1, <1>2, <1>3, <2>1 DEF FreeingAt, Pictured, curVars
<1>11. WroteIs(ch)' /\ LastIs' /\ CursorIs(ch)'
  <2>1. \A f \in Files : ~Writing(f)
    BY <1>1 DEF Writing
  <2> QED BY <1>1, <1>2, <2>1, SameCursorPictures DEF Pictured
<1>12. ListIs(ch)' /\ DoneIs' /\ AtEnd(ch)' /\ ListFree'
  BY <1>1 DEF ListIs, DoneIs, AtEnd, ListFree
<1>13. CacheFree' /\ CountFits'
  <2>1. flag # "UNKNOWN" => count + freed <= Cardinality(FreeSet)
    BY <1>1, SoundParts DEF CountFits
  <2>2. count \in Nat
    BY SoundParts, InvParts DEF FreeType
  <2>3. flag' # "UNKNOWN" => count' + freed' <= Cardinality(FreeSet')
    BY <1>1, <1>4, <1>6, <2>1, <2>2 DEF freeVars
  <2>4. CacheFree'
    BY <1>1, <1>6, SoundParts DEF CacheFree, freeVars
  <2> QED BY <1>1, <2>3, <2>4 DEF CountFits
<1> QED BY <1>9, <1>10, <1>11, <1>12, <1>13, PicturedParts, SoundParts DEF Pictures

\* The last cluster is freed, and the file has none any more.
LEMMA FreeEndSound ==
  ASSUME OInv, Orderly, FreeEnd
  PROVE  Sound'
<1>1. /\ pc = "free" /\ pc' = "idle" /\ fat[pos] = EndMark
      /\ AddToFreeClusters(freed) /\ fat' = FreeLast
      /\ first' = [first EXCEPT ![file] = 0] /\ size' = [size EXCEPT ![file] = 0]
      /\ UNCHANGED <<curVars, histVars>>
  BY DEF FreeEnd, Counted, Return
<1>2. PICK ch : Pictured(ch)
  BY SoundParts DEF Pictures
<1>3. /\ file \in Files /\ freed \in Nat
      /\ \A f \in Files : Gone(f) = IF f = file THEN freed ELSE 0
      /\ ch[file] = <<>> => pos = 0 /\ freed = 0
      /\ ch[file] # <<>> => /\ freed + 1 = Len(ch[file]) /\ pos = ch[file][freed + 1]
                            /\ pos \in Cluster /\ fat[pos] # Free
  <2>1. ch[file] # <<>> => freed + 1 = Len(ch[file])
    <3>1. ASSUME ch[file] # <<>>, freed + 1 # Len(ch[file]) PROVE FALSE
      <4>1. fat[pos] = ch[file][freed + 2] /\ freed + 1 \in 1 .. Len(ch[file])
        BY <1>1, <1>2, <3>1, FreeingFacts, SoundParts
      <4>2. freed \in Nat /\ Len(ch[file]) \in Nat /\ ch[file] \in Seq(Usable)
        BY <1>1, <1>2, FreeingFacts, SoundParts
      <4>3. freed + 2 \in 1 .. Len(ch[file])
        BY <3>1, <4>1, <4>2
      <4>4. ch[file][freed + 2] \in Usable
        BY <4>2, <4>3, ElementOfSeq
      <4> QED BY <1>1, <4>1, <4>4, Marks DEF FatEntry
    <3> QED BY <3>1
  <2> QED BY <1>1, <1>2, <2>1, FreeingFacts, SoundParts
<1>4. PICK g \in Files : g = file
  BY <1>3
<1>5. ChainType /\ CursorType /\ WroteType /\ FreeType
  BY SoundParts, InvParts
<1>6. Separate(ch) /\ \A f \in Files : ch[f] \in Seq(Usable) /\ Len(ch[f]) \in Nat
  BY <1>2, LenProperties DEF Pictured, Separate
<1> DEFINE d == [ch EXCEPT ![g] = <<>>]
<1>7. /\ d \in [Files -> Seq(Usable)] /\ d[g] = <<>> /\ Len(d[g]) = 0
      /\ \A f \in Files \ {g} : d[f] = ch[f]
  BY <1>6, EmptySeq DEF Separate
<1> HIDE DEF d
<1>8. \A f \in Files : \A i \in 1 .. Len(d[f]) : f # g /\ d[f] = ch[f]
  BY <1>7
<1>9. /\ \A c \in Cluster : fat'[c] = IF c = pos THEN Free ELSE fat[c]
      /\ Cardinality(FreeSet) \in Nat /\ Cardinality(FreeSet') \in Nat
      /\ Cardinality(FreeSet) <= Cardinality(FreeSet') /\ FreeSet \subseteq FreeSet'
  <2>1. CASE ch[file] = <<>>
    <3>1. fat' = fat /\ pos = 0 /\ FreeSet' = FreeSet
      BY <1>1, <1>3, <2>1 DEF FreeLast, FreeSet
    <3>2. FreeSet \in SUBSET Cluster
      BY DEF FreeSet
    <3>3. Cardinality(FreeSet) \in Nat
      BY <3>2, ClustersFinite
    <3> QED BY <3>1, <3>3, Marks
  <2>2. CASE ch[file] # <<>>
    <3>1. PICK p \in Cluster : p = pos
      BY <1>3, <2>2
    <3>2. fat' = [fat EXCEPT ![p] = Free]
      BY <1>1, <3>1, Marks DEF FreeLast
    <3>3. /\ FreeSet' = FreeSet \cup {p}
          /\ fat'[p] = Free /\ \A c \in Cluster \ {p} : fat'[c] = fat[c]
          /\ Cardinality(FreeSet) \in Nat /\ Cardinality(FreeSet') \in Nat
          /\ Cardinality(FreeSet) <= Cardinality(FreeSet')
      BY <1>5, <3>2, FreedSpace
    <3> QED BY <3>1, <3>3
  <2> QED BY <2>1, <2>2
<1>10. Separate(d)'
  <2>1. \A f, k \in Files : \A i \in 1 .. Len(d[f]), j \in 1 .. Len(d[k]) :
          d[f][i] = d[k][j] => f = k /\ i = j
    BY <1>6, <1>8 DEF Separate
  <2> QED BY <1>7, <2>1 DEF Separate, Usable
<1>11. FirstIs(d)' /\ SizeIs(d)'
  <2>1. ASSUME NEW f \in Files
        PROVE  first'[f] = (IF d[f] = <<>> THEN 0 ELSE d[f][1]) /\ size'[f] = Len(d[f])
    <3>1. CASE f = g
      BY <1>1, <1>4, <1>5, <1>7, <3>1 DEF ChainType
    <3>2. CASE f # g
      BY <1>1, <1>2, <1>4, <1>5, <1>7, <3>2 DEF ChainType, Pictured, FirstIs, SizeIs
    <3> QED BY <3>1, <3>2
  <2> QED BY <2>1 DEF FirstIs, SizeIs
<1>12. LinksAre(d)'
  <2>1. \A f \in Files : Gone(f)' = 0
    BY <1>1 DEF Gone
  <2>2. ASSUME NEW f \in Files, NEW i \in 1 .. Len(d[f])
        PROVE  fat'[d[f][i]] = IF i <= Gone(f)' THEN Free
                               ELSE IF i = Len(d[f]) THEN EndMark ELSE d[f][i + 1]
    <3>1. f # g /\ d[f] = ch[f]
      BY <1>8
    <3>2. ch[f][i] \in Cluster /\ i \in 1 .. Len(ch[f])
      BY <1>6, <3>1, ElementOfSeq, Marks
    <3>3. ch[f][i] # pos
      <4>1. CASE ch[file] = <<>>
        BY <1>3, <3>2, <4>1, Marks
      <4>2. CASE ch[file] # <<>>
        <5>1. freed + 1 \in 1 .. Len(ch[g]) /\ pos = ch[g][freed + 1]
          BY <1>3, <1>4, <1>6, <4>2
        <5> QED BY <1>6, <3>1, <3>2, <5>1 DEF Separate
      <4> QED BY <4>1, <4>2
    <3>4. fat'[ch[f][i]] = fat[ch[f][i]]
      BY <1>9, <3>2, <3>3
    <3>5. Gone(f) = 0 /\ Gone(f)' = 0
      BY <1>3, <1>4, <2>1, <3>1
    <3> QED BY <1>2, <3>1, <3>2, <3>4, <3>5 DEF Pictured, LinksAre
  <2> QED BY <2>2 DEF LinksAre
<1>13. RestUnused(d)'
  <2>1. ASSUME NEW c \in Cluster, fat'[c] \notin {Free, BadMark} PROVE InChain(d, c)
    <3>1. c # pos /\ fat'[c] = fat[c]
      BY <1>9, <2>1
    <3>0. PICK f \in Files : \E i \in 1 .. Len(ch[f]) : c = ch[f][i]
      BY <1>2, <2>1, <3>1 DEF Pictured, RestUnused, InChain
    <3>2. PICK i \in 1 .. Len(ch[f]) : c = ch[f][i]
      BY <3>0
    <3>3. CASE f = g
      <4>1. ch[file] # <<>> /\ freed + 1 = Len(ch[g]) /\ pos = ch[g][freed + 1]
        BY <1>3, <1>4, <1>6, <3>2, <3>3
      <4>2. i <= freed
        BY <1>3, <1>6, <3>1, <3>2, <3>3, <4>1
      <4>3. fat[c] = Free
        BY <1>2, <1>3, <1>4, <3>2, <3>3, <4>2 DEF Pictured, LinksAre
      <4> QED BY <2>1, <3>1, <4>3
    <3>4. CASE f # g
      BY <1>7, <3>2, <3>4 DEF InChain
    <3> QED BY <3>3, <3>4
  <2> QED BY <2>1 DEF RestUnused, InChain
<1>14. OwnerIs(d)'
  BY <1>1, <1>2, <1>8 DEF Pictured, OwnerIs, histVars
<1>15. WroteIs(d)' /\ LastIs' /\ CursorIs(d)'
  <2>1. from'[g] = 0 /\ wrote'[g] = <<>> /\ Len(wrote'[g]) = 0
    BY <1>1, <1>2, <1>4 DEF Pictured, FreeingAt, curVars
  <2>2. last'[g] = 0
    BY <1>1, <1>2, <2>1 DEF Pictured, LastIs, curVars
  <2>3. AtCursor(d, g)'
    BY <1>7, <2>1, <2>2 DEF AtCursor
  <2>4. \A f \in Files \ {g} : wrote'[f] = wrote[f] /\ last'[f] = last[f] /\ from'[f] = from[f]
                                /\ d[f] = ch[f] /\ ~Writing(f)
    BY <1>1, <1>7 DEF Writing, curVars
  <2> QED BY <1>2, <2>3, <2>4, OtherCursors DEF Pictured
<1>16. Pictures'
  BY <1>1, <1>10, <1>11, <1>12, <1>13, <1>14, <1>15, IdlePictured DEF Volume
<1>17. CacheFree' /\ CountFits' /\ ListFree'
  <2>1. flag # "UNKNOWN" => count + freed <= Cardinality(FreeSet)
    BY <1>1, SoundParts DEF CountFits
  <2>2. count \in Nat
    BY <1>5 DEF FreeType
  <2>3. flag' # "UNKNOWN" => count' + 0 <= Cardinality(FreeSet')
    BY <1>1, <1>3, <1>9, <2>1, <2>2 DEF AddToFreeClusters
  <2>4. CacheFree'
    BY <1>1, <1>9, SoundParts DEF CacheFree, AddToFreeClusters
  <2> QED BY <1>1, <2>3, <2>4 DEF CountFits, ListFree
<1> QED BY <1>16, <1>17, SoundParts

-----------------------------------------------------------------------------
(* Lists of runs along a chain                                             *)

\* The n clusters of q behind the first w are the run that starts at b.
OnRun(q, w, b, n) == \A d \in 0 .. (n - 1) : q[w + 1 + d] = b + d

LEMMA OnRunPart ==
  ASSUME NEW q, NEW w \in Nat, NEW b, NEW m \in Nat, NEW n \in Nat, n <= m, OnRun(q, w, b, m)
  PROVE  OnRun(q, w, b, n)
<1>1. \A d \in 0 .. (n - 1) : d \in 0 .. (m - 1)
  OBVIOUS
<1> QED BY <1>1 DEF OnRun

\* The list of one cluster.
LEMMA AlongOne ==
  ASSUME NEW q \in Seq(Usable), NEW w \in Nat, w < Len(q), NEW l, l = <<Run(q[w + 1], 0)>>
  PROVE  \E h \in [0 .. Len(l) -> 0 .. Len(q)] : Along(q, l, w, h) /\ h[Len(l)] = w + 1
<1> DEFINE h == [i \in 0 .. 1 |-> w + i]
<1>1. Len(l) = 1 /\ l[1].base = q[w + 1] /\ l[1].adj = 0
  BY DEF Run
<1>2. Len(q) \in Nat
  BY LenProperties
<1>3. h \in [0 .. Len(l) -> 0 .. Len(q)]
  BY <1>1, <1>2
<1>4. h[0] = w /\ h[1] = w + 1
  OBVIOUS
<1> HIDE DEF h
<1>5. \A d \in 0 .. 0 : q[w + 1 + d] = q[w + 1] + d
  <2>1. q[w + 1] \in Nat
    <3>1. w + 1 \in 1 .. Len(q)
      BY <1>2
    <3> QED BY <3>1, ElementOfSeq, Marks
  <2> QED BY <2>1
<1>6. Along(q, l, w, h)
  <2>1. \A i \in 1 .. Len(l) : i = 1 /\ i - 1 = 0
    BY <1>1
  <2>2. h[1] = h[0] + (l[1].adj + 1)
    BY <1>1, <1>4
  <2>3. \A d \in 0 .. l[1].adj : q[h[0] + 1 + d] = l[1].base + d
    BY <1>1, <1>4, <1>5
  <2> QED BY <1>4, <2>1, <2>2, <2>3 DEF Along
<1> QED BY <1>1, <1>3, <1>4, <1>6

\* The chain goes on with a run of its own ...
LEMMA AlongAppend ==
  ASSUME NEW q \in Seq(Usable), NEW w \in Nat, NEW l \in Seq(RunT),
         NEW h \in [0 .. Len(l) -> 0 .. Len(q)], Along(q, l, w, h), h[Len(l)] < Len(q),
         NEW m, m = Append(l, Run(q[h[Len(l)] + 1], 0))
  PROVE  \E g \in [0 .. Len(m) -> 0 .. Len(q)] : Along(q, m, w, g) /\ g[Len(m)] = h[Len(l)] + 1
<1>1. Len(q) \in Nat /\ Len(l) \in Nat
  BY LenProperties
<1>2. Len(l) \in 0 .. Len(l) /\ h[Len(l)] \in Nat
  BY <1>1
<1> DEFINE k == h[Len(l)]
           r == Run(q[k + 1], 0)
<1>3. q[k + 1] \in Usable /\ q[k + 1] \in Nat /\ k \in Nat /\ k < Len(q)
  <2>1. k + 1 \in 1 .. Len(q)
    BY <1>1, <1>2
  <2> QED BY <1>2, <2>1, ElementOfSeq, Marks
<1>4. r \in RunT /\ r.base = q[k + 1] /\ r.adj = 0
  BY <1>3, Marks DEF Run, RunT, FatEntry
<1>5. m = Append(l, r)
  OBVIOUS
<1> HIDE DEF r, k
<1>6. /\ Len(m) = Len(l) + 1 /\ \A i \in 1 .. Len(l) : m[i] = l[i]
      /\ m[Len(l) + 1] = r
  BY <1>4, <1>5, AppendProperties
<1> DEFINE g == [i \in 0 .. Len(m) |-> IF i = Len(m) THEN k + 1 ELSE h[i]]
<1>7. g \in [0 .. Len(m) -> 0 .. Len(q)]
  <2>1. \A i \in 0 .. Len(m) : i # Len(m) => i \in 0 .. Len(l)
    BY <1>1, <1>6
  <2>2. k + 1 \in 0 .. Len(q)
    BY <1>1, <1>3
  <2> QED BY <2>1, <2>2
<1>8. /\ g[Len(m)] = k + 1 /\ \A i \in 0 .. Len(l) : g[i] = h[i]
  <2>1. \A i \in 0 .. Len(l) : i \in 0 .. Len(m) /\ i # Len(m)
    BY <1>1, <1>6
  <2>2. Len(m) \in 0 .. Len(m)
    BY <1>1, <1>6
  <2> QED BY <2>1, <2>2
<1> HIDE DEF g
<1>9. Along(q, m, w, g)
  <2>1. g[0] = w
    <3>1. 0 \in 0 .. Len(l)
      BY <1>1
    <3> QED BY <1>8, <3>1 DEF Along
  <2>2. ASSUME NEW i \in 1 .. Len(m)
        PROVE  /\ g[i] = g[i - 1] + (m[i].adj + 1)
               /\ \A d \in 0 .. m[i].adj : q[g[i - 1] + 1 + d] = m[i].base + d
    <3>1. CASE i = Len(m)
      <4>1. i - 1 = Len(l) /\ g[i - 1] = k /\ g[i] = k + 1 /\ m[i] = r
        BY <1>1, <1>2, <1>6, <1>8, <3>1 DEF k
      <4>2. \A d \in 0 .. 0 : q[k + 1 + d] = q[k + 1] + d
        BY <1>3
      <4> QED BY <1>3, <1>4, <4>1, <4>2
    <3>2. CASE i # Len(m)
      <4>1. i \in 1 .. Len(l) /\ i \in 0 .. Len(l) /\ i - 1 \in 0 .. Len(l)
        BY <1>1, <1>6, <3>2
      <4>2. g[i] = h[i] /\ g[i - 1] = h[i - 1] /\ m[i] = l[i]
        BY <1>6, <1>8, <4>1
      <4> QED BY <4>1, <4>2 DEF Along
    <3> QED BY <3>1, <3>2
  <2> QED BY <2>1, <2>2 DEF Along
<1> QED BY <1>7, <1>8, <1>9 DEF k

\* A run of one more cluster is a run.
LEMMA RunLonger ==
  ASSUME NEW x \in RunT
  PROVE  /\ [x EXCEPT !.adj = @ + 1] \in RunT
         /\ [x EXCEPT !.adj = @ + 1].base = x.base
         /\ [x EXCEPT !.adj = @ + 1].adj = x.adj + 1
<1>1. x.base \in FatEntry /\ x.adj \in Nat /\ x.adj + 1 \in Nat
  BY DEF RunT
<1>2. x = [base |-> x.base, adj |-> x.adj]
  BY DEF RunT
<1>3. [x EXCEPT !.adj = @ + 1] = [base |-> x.base, adj |-> x.adj + 1]
  BY <1>2
<1> QED BY <1>1, <1>3 DEF RunT

\* ... or makes the last run longer ...
LEMMA AlongGrow ==
  ASSUME NEW q \in Seq(Usable), NEW w \in Nat, NEW l \in Seq(RunT), l # <<>>,
         NEW h \in [0 .. Len(l) -> 0 .. Len(q)], Along(q, l, w, h), h[Len(l)] < Len(q),
         q[h[Len(l)] + 1] = l[Len(l)].base + l[Len(l)].adj + 1,
         NEW r \in RunT, r.base = l[Len(l)].base, r.adj = l[Len(l)].adj + 1,
         NEW m, Len(m) = Len(l), \A i \in 1 .. Len(l) : m[i] = IF i = Len(l) THEN r ELSE l[i]
  PROVE  \E g \in [0 .. Len(m) -> 0 .. Len(q)] : Along(q, m, w, g) /\ g[Len(m)] = h[Len(l)] + 1
<1>1. Len(q) \in Nat /\ Len(l) \in Nat \ {0}
  BY EmptySeq, LenProperties
<1>n. PICK n \in Nat \ {0} : n = Len(l)
  BY <1>1
<1> DEFINE k == h[n]
           a == l[n].adj
           b == l[n].base
<1>2. n \in 1 .. n /\ n \in 0 .. n /\ n - 1 \in 0 .. n
  OBVIOUS
<1>h. h[n] \in Nat /\ h[n - 1] \in Nat
  <2>1. h \in [0 .. n -> 0 .. Len(q)]
    BY <1>n
  <2>2. h[n] \in 0 .. Len(q) /\ h[n - 1] \in 0 .. Len(q)
    BY <1>2, <2>1
  <2> QED BY <1>1, <2>2
<1>x. l[n] \in RunT
  BY <1>2, <1>n, ElementOfSeq
<1>3. a \in Nat /\ b \in Nat /\ r \in RunT /\ r.base = b /\ r.adj = a + 1
  <2>1. a \in Nat /\ b \in FatEntry
    BY <1>x DEF RunT
  <2> QED BY <1>n, <2>1, Marks
<1>5. k = h[n - 1] + (a + 1) /\ \A d \in 0 .. a : q[h[n - 1] + 1 + d] = b + d
  BY <1>2, <1>n DEF Along
<1>6. q[k + 1] = b + a + 1 /\ k < Len(q) /\ k \in Nat
  BY <1>2, <1>h, <1>n
<1>t. PICK u \in Nat : u = h[n - 1]
  BY <1>h
<1>y. a \in Nat /\ b \in Nat /\ k = u + (a + 1)
  BY <1>3, <1>5, <1>t
<1> HIDE DEF k, a, b
<1>7. Len(m) = n /\ \A i \in 1 .. n : m[i] = IF i = n THEN r ELSE l[i]
  BY <1>n
<1> DEFINE g == [i \in 0 .. n |-> IF i = n THEN k + 1 ELSE h[i]]
<1>8. g \in [0 .. Len(m) -> 0 .. Len(q)]
  <2>1. k + 1 \in 0 .. Len(q)
    BY <1>1, <1>6
  <2> QED BY <1>7, <2>1
<1>9. g[n] = k + 1 /\ \A i \in 0 .. n : i # n => g[i] = h[i]
  BY <1>2
<1> HIDE DEF g
<1>10. Along(q, m, w, g)
  <2>1. g[0] = w
    <3>1. 0 \in 0 .. n /\ 0 # n
      BY <1>1
    <3>2. h[0] = w
      BY DEF Along
    <3> QED BY <1>9, <3>1, <3>2
  <2>2. ASSUME NEW i \in 1 .. Len(m)
        PROVE  /\ g[i] = g[i - 1] + (m[i].adj + 1)
               /\ \A d \in 0 .. m[i].adj : q[g[i - 1] + 1 + d] = m[i].base + d
    <3>1. CASE i = n
      <4>1. g[i] = k + 1 /\ g[i - 1] = h[n - 1] /\ m[i] = r
        BY <1>2, <1>7, <1>9, <2>2, <3>1
      <4>2. ASSUME NEW d \in 0 .. (a + 1) PROVE q[h[n - 1] + 1 + d] = b + d
        <5>1. CASE d = a + 1
          <6>1. h[n - 1] + 1 + d = k + 1 /\ b + d = b + a + 1
            BY <1>t, <1>y, <5>1
          <6> QED BY <1>6, <6>1
        <5>2. CASE d # a + 1
          <6>1. d \in 0 .. a
            BY <1>3, <5>2
          <6> QED BY <1>5, <6>1
        <5> QED BY <5>1, <5>2
      <4>3. k + 1 = u + ((a + 1) + 1)
        BY <1>y
      <4>4. g[i] = g[i - 1] + (m[i].adj + 1)
        BY <1>3, <1>t, <4>1, <4>3
      <4> QED BY <1>3, <4>1, <4>2, <4>4
    <3>2. CASE i # n
      <4>1. i \in 1 .. n /\ i \in 0 .. n /\ i - 1 \in 0 .. n /\ i - 1 # n
        BY <1>7, <2>2, <3>2
      <4>2. g[i] = h[i] /\ g[i - 1] = h[i - 1] /\ m[i] = l[i]
        BY <1>7, <1>9, <3>2, <4>1
      <4> QED BY <1>n, <4>1, <4>2 DEF Along
    <3> QED BY <3>1, <3>2
  <2> QED BY <2>1, <2>2 DEF Along
<1> QED BY <1>7, <1>8, <1>9, <1>10, <1>n DEF k

\* The runs of l lead from place w of the chain q to place e.
ListLeads(q, l, w, e) ==
  \E g \in [0 .. Len(l) -> 0 .. Len(q)] : Along(q, l, w, g) /\ g[Len(l)] = e

\* ... and the first run leaves the list when it is written.
LEMMA AlongTail ==
  ASSUME NEW q \in Seq(Usable), NEW w \in Nat, NEW l \in Seq(RunT), l # <<>>,
         NEW h \in [0 .. Len(l) -> 0 .. Len(q)], Along(q, l, w, h),
         NEW x, x = Head(l), NEW m, m = Tail(l)
  PROVE  /\ x \in RunT /\ x.base \in Nat /\ x.adj \in Nat
         /\ w + x.adj + 1 <= Len(q)
         /\ OnRun(q, w, x.base, x.adj + 1)
         /\ ListLeads(q, m, w + x.adj + 1, h[Len(l)])
<1>1. Len(q) \in Nat /\ Len(l) \in Nat \ {0}
  BY EmptySeq, LenProperties
<1>2. /\ x = l[1] /\ Len(m) = Len(l) - 1
      /\ \A i \in 1 .. Len(m) : m[i] = l[i + 1]
  BY HeadTailProperties
<1>3. 1 \in 1 .. Len(l) /\ 1 \in 0 .. Len(l) /\ 1 - 1 = 0
  BY <1>1
<1>4. l[1] \in RunT /\ l[1].base \in Nat /\ l[1].adj \in Nat
  <2>1. l[1] \in RunT
    BY <1>3, ElementOfSeq
  <2> QED BY <2>1, Marks DEF RunT
<1>5. h[0] = w /\ h[1] = w + (l[1].adj + 1) /\ \A d \in 0 .. l[1].adj : q[w + 1 + d] = l[1].base + d
  <2>1. /\ h[1] = h[1 - 1] + (l[1].adj + 1)
        /\ \A d \in 0 .. l[1].adj : q[h[1 - 1] + 1 + d] = l[1].base + d
    BY <1>3 DEF Along
  <2> QED BY <1>3, <2>1 DEF Along
<1>6. h[1] = w + l[1].adj + 1 /\ h[1] <= Len(q)
  BY <1>1, <1>3, <1>4, <1>5
<1> DEFINE g == [i \in 0 .. Len(m) |-> h[i + 1]]
<1>7. g \in [0 .. Len(m) -> 0 .. Len(q)]
  <2>1. \A i \in 0 .. Len(m) : i + 1 \in 0 .. Len(l)
    BY <1>1, <1>2
  <2> QED BY <2>1
<1>8. g[0] = h[1] /\ g[Len(m)] = h[Len(l)] /\ \A i \in 0 .. Len(m) : g[i] = h[i + 1]
  <2>1. 0 \in 0 .. Len(m) /\ Len(m) \in 0 .. Len(m) /\ Len(m) + 1 = Len(l) /\ 0 + 1 = 1
    BY <1>1, <1>2
  <2>2. \A i \in 0 .. Len(m) : g[i] = h[i + 1]
    OBVIOUS
  <2> QED BY <2>1, <2>2
<1> HIDE DEF g
<1>9. Along(q, m, h[1], g)
  <2>1. ASSUME NEW i \in 1 .. Len(m)
        PROVE  /\ g[i] = g[i - 1] + (m[i].adj + 1)
               /\ \A d \in 0 .. m[i].adj : q[g[i - 1] + 1 + d] = m[i].base + d
    <3>1. i \in 0 .. Len(m) /\ i - 1 \in 0 .. Len(m) /\ i + 1 \in 1 .. Len(l) /\ (i - 1) + 1 = i
          /\ (i + 1) - 1 = i
      BY <1>1, <1>2
    <3>2. g[i] = h[i + 1] /\ g[i - 1] = h[i] /\ m[i] = l[i + 1]
      BY <1>2, <1>8, <3>1
    <3>3. /\ h[i + 1] = h[(i + 1) - 1] + (l[i + 1].adj + 1)
          /\ \A d \in 0 .. l[i + 1].adj : q[h[(i + 1) - 1] + 1 + d] = l[i + 1].base + d
      BY <3>1 DEF Along
    <3> QED BY <3>1, <3>2, <3>3
  <2> QED BY <1>8, <2>1 DEF Along
<1>10. w + l[1].adj + 1 <= Len(q)
  BY <1>6
<1>11. OnRun(q, w, x.base, x.adj + 1)
  <2>1. (x.adj + 1) - 1 = x.adj
    BY <1>2, <1>4
  <2> QED BY <1>2, <1>5, <2>1 DEF OnRun
<1>12. w + x.adj + 1 = h[1]
  BY <1>2, <1>6
<1>13. ListLeads(q, m, w + x.adj + 1, h[Len(l)])
  BY <1>7, <1>8, <1>9, <1>12 DEF ListLeads
<1>14. x \in RunT /\ x.base \in Nat /\ x.adj \in Nat /\ w + x.adj + 1 <= Len(q)
  BY <1>2, <1>4, <1>10
<1> QED BY <1>11, <1>13, <1>14

-----------------------------------------------------------------------------
(* Writing over the clusters a file has                                    *)

\* While a chain is followed the files are as they were.
LEMMA WalkingSound ==
  ASSUME OInv, Orderly, NEW ch, Pictured(ch), ListIs(ch)',
         UNCHANGED <<chainVars, freeVars, owner, file, last, wrote, done>>,
         pc \in {"walk", "writeOld"}, pc' \in {"walk", "writeOld"},
         \A f \in Files \ {file} : from'[f] = from[f]
  PROVE  Sound'
<1>1. Volume(ch)'
  BY NoneGone, SameVolume, PicturedParts
<1>2. WroteIs(ch)' /\ LastIs'
  BY SameWrote DEF Pictured
<1>3. CursorIs(ch)'
  <2>1. ASSUME NEW f \in Files
        PROVE  \/ Writing(f)'
               \/ from'[f] = 0 /\ wrote'[f] = <<>>
               \/ from'[f] = ALLOC /\ Len(wrote'[f]) = Len(ch[f])
               \/ Len(wrote'[f]) < Len(ch[f]) /\ from'[f] = ch[f][Len(wrote'[f]) + 1]
    <3>1. CASE f = file
      BY <3>1 DEF Writing
    <3>2. CASE f # file
      BY <3>2 DEF Pictured, CursorIs, Writing
    <3> QED BY <3>1, <3>2
  <2> QED BY <2>1 DEF CursorIs
<1>4. FreeingAt(ch)' /\ AtEnd(ch)' /\ DoneIs'
  BY DEF FreeingAt, AtEnd, DoneIs, Pictured
<1>5. ListFree' /\ CacheFree' /\ CountFits'
  BY SoundParts DEF ListFree, CacheFree, CountFits, FreeSet, chainVars, freeVars
<1> QED BY <1>1, <1>2, <1>3, <1>4, <1>5, PicturedParts, SoundParts DEF Pictures

\* Where a write over a chain stands.
LEMMA WalkFacts ==
  ASSUME NEW ch, Pictured(ch), IInv, pc \in {"walk", "writeOld"}
  PROVE  /\ file \in Files /\ ch[file] \in Seq(Usable) /\ Len(ch[file]) \in Nat
         /\ wrote[file] \in Seq(Cluster) /\ Len(wrote[file]) \in Nat /\ Len(wrote[file]) <= Len(ch[file])
         /\ lst \in Seq(RunT) /\ Len(lst) \in Nat
         /\ \A i \in 1 .. Len(ch[file]) :
              /\ ch[file][i] \in Usable /\ ch[file][i] # 0
              /\ fat[ch[file][i]] = IF i = Len(ch[file]) THEN EndMark ELSE ch[file][i + 1]
<1>1. file \in Files
  BY InvParts
<1>2. ch[file] \in Seq(Usable)
  BY <1>1 DEF Pictured, Separate
<1>3. Len(ch[file]) \in Nat /\ \A i \in 1 .. Len(ch[file]) : ch[file][i] \in Usable
  BY <1>2, LenProperties, ElementOfSeq
<1>4. wrote[file] \in Seq(Cluster) /\ Len(wrote[file]) \in Nat
  BY <1>1, InvParts, LenProperties DEF WroteType
<1>5. Len(wrote[file]) <= Len(ch[file])
  BY <1>1 DEF Pictured, WroteIs
<1>6. lst \in Seq(RunT) /\ Len(lst) \in Nat
  BY InvParts, LenProperties DEF ListType
<1>7. ASSUME NEW i \in 1 .. Len(ch[file])
      PROVE  fat[ch[file][i]] = IF i = Len(ch[file]) THEN EndMark ELSE ch[file][i + 1]
  <2>1. Gone(file) = 0 /\ ~(i <= 0)
    BY <1>3 DEF Gone
  <2> QED BY <1>1, <2>1 DEF Pictured, LinksAre
<1> QED BY <1>1, <1>2, <1>3, <1>4, <1>5, <1>6, <1>7, Marks

\* What the walk stands at is a cluster of the chain.
LEMMA WalkPlace ==
  ASSUME NEW ch, Pictured(ch), IInv, pc = "walk", ch[file] # <<>>
  PROVE  \E h \in [0 .. Len(lst) -> 0 .. Len(ch[file])] :
           /\ Along(ch[file], lst, Len(wrote[file]), h)
           /\ h[Len(lst)] \in 1 .. Len(ch[file]) /\ pos = ch[file][h[Len(lst)]]
<1>1. PICK h \in [0 .. Len(lst) -> 0 .. Len(ch[file])] :
        Along(ch[file], lst, Len(wrote[file]), h) /\ pos = ch[file][h[Len(lst)]]
  BY DEF Pictured, ListIs
<1>2. lst \in Seq(RunT) /\ lst # <<>> /\ Len(lst) \in Nat /\ Len(ch[file]) \in Nat
  BY WalkFacts DEF IInv, WalkAtEnd
<1>3. PICK n \in Nat \ {0} : n = Len(lst)
  BY <1>2, EmptySeq, LenProperties
<1>4. n \in 1 .. n /\ n - 1 \in 0 .. n /\ n \in 0 .. n
  OBVIOUS
<1>5. h[n] = h[n - 1] + (lst[n].adj + 1) /\ h[n - 1] \in 0 .. Len(ch[file]) /\ h[n] \in 0 .. Len(ch[file])
  BY <1>1, <1>3, <1>4 DEF Along
<1>6. lst[n].adj \in Nat
  <2>1. lst[n] \in RunT
    BY <1>2, <1>3, <1>4, ElementOfSeq
  <2> QED BY <2>1 DEF RunT
<1>7. h[n] \in 1 .. Len(ch[file])
  BY <1>2, <1>5, <1>6
<1> QED BY <1>1, <1>3, <1>7

\* A write starts behind what was written before it.
LEMMA StoreBeginSound ==
  ASSUME OInv, Orderly, NEW f \in Files, NEW n \in 1 .. MaxWrite, StoreBegin(f, n)
  PROVE  Sound'
<1>1. /\ pc = "idle" /\ file' = f /\ done' = 0
      /\ UNCHANGED <<chainVars, freeVars, last, wrote, owner>>
  BY DEF StoreBegin
<1>2. PICK ch : Pictured(ch)
  BY SoundParts DEF Pictures
<1>3. CursorType /\ WroteType /\ FromPlace
  BY SoundParts, InvParts DEF IInv
<1>4. ch[f] \in Seq(Usable) /\ Len(ch[f]) \in Nat /\ \A i \in 1 .. Len(ch[f]) : ch[f][i] \in Usable
  BY <1>2, LenProperties, ElementOfSeq DEF Pictured, Separate
<1>5. Len(wrote[f]) \in Nat /\ Len(wrote[f]) <= Len(ch[f])
  BY <1>2, <1>3, LenProperties DEF WroteType, Pictured, WroteIs
<1>6. \/ from[f] = 0 /\ wrote[f] = <<>>
      \/ from[f] = ALLOC /\ Len(wrote[f]) = Len(ch[f])
      \/ Len(wrote[f]) < Len(ch[f]) /\ from[f] = ch[f][Len(wrote[f]) + 1]
  BY <1>1, <1>2 DEF Pictured, CursorIs, Writing
<1>7. Len(wrote[f]) < Len(ch[f]) => ch[f][Len(wrote[f]) + 1] \in Usable
  <2>1. Len(wrote[f]) < Len(ch[f]) => Len(wrote[f]) + 1 \in 1 .. Len(ch[f])
    BY <1>4, <1>5
  <2> QED BY <1>4, <2>1
<1>8. /\ pc' \in {"walk", "take", "hand"} /\ \A g \in Files \ {f} : from'[g] = from[g]
  <2>1. CASE from[f] = ALLOC
    BY <1>3, <2>1 DEF StoreBegin, AskFor, CursorType
  <2>2. CASE from[f] # ALLOC
    BY <2>2 DEF StoreBegin
  <2> QED BY <2>1, <2>2
<1>9. Volume(ch)'
  BY <1>1, <1>2, <1>8, NoneGone, SameVolume, PicturedParts
<1>10. WroteIs(ch)' /\ LastIs'
  BY <1>1, <1>2, SameWrote DEF Pictured
<1>11. CursorIs(ch)'
  <2>1. ASSUME NEW g \in Files
        PROVE  \/ Writing(g)'
               \/ from'[g] = 0 /\ wrote'[g] = <<>>
               \/ from'[g] = ALLOC /\ Len(wrote'[g]) = Len(ch[g])
               \/ Len(wrote'[g]) < Len(ch[g]) /\ from'[g] = ch[g][Len(wrote'[g]) + 1]
    <3>1. CASE g = f
      BY <1>1, <1>8, <3>1 DEF Writing
    <3>2. CASE g # f
      BY <1>1, <1>2, <1>8, <3>2 DEF Pictured, CursorIs, Writing
    <3> QED BY <3>1, <3>2
  <2> QED BY <2>1 DEF CursorIs
<1>12. FreeingAt(ch)' /\ DoneIs' /\ CacheFree' /\ CountFits'
  <2>1. FreeingAt(ch)'
    BY <1>8 DEF FreeingAt
  <2>2. DoneIs'
    BY <1>1, <1>5 DEF DoneIs
  <2> QED BY <1>1, <1>8, <2>1, <2>2, SoundParts DEF CacheFree, CountFits, FreeSet, chainVars, freeVars
<1>13. CASE from[f] = ALLOC
  <2>1. AskFor(n)
    BY <1>13 DEF StoreBegin
  <2>2. Len(wrote[f]) = Len(ch[f])
    <3>1. ALLOC # 0 /\ ALLOC \notin Usable
      BY Marks DEF ALLOC, FatEntry
    <3> QED BY <1>6, <1>7, <1>13, <3>1
  <2>3. pc' \in {"take", "hand"}
    BY <2>1 DEF AskFor
  <2>4. AtEnd(ch)' /\ ListIs(ch)'
    BY <1>1, <2>2, <2>3 DEF AtEnd, ListIs
  <2>5. ListFree'
    BY <1>1, <2>1, AskForSpace DEF chainVars
  <2> QED BY <1>9, <1>10, <1>11, <1>12, <2>4, <2>5, PicturedParts, SoundParts DEF Pictures
<1>14. CASE from[f] # ALLOC
  <2> DEFINE start == IF from[f] = 0 THEN first[f] ELSE from[f]
  <2>1. pc' = "walk" /\ pos' = start /\ lst' = <<Run(start, 0)>>
    BY <1>14 DEF StoreBegin
  <2>2. first[f] = IF ch[f] = <<>> THEN 0 ELSE ch[f][1]
    BY <1>2 DEF Pictured, FirstIs
  <2>3. ASSUME ch[f] = <<>> PROVE start = 0
    <3>1. Len(ch[f]) = 0
      BY <2>3
    <3>2. ~(Len(wrote[f]) < Len(ch[f]))
      BY <1>5, <3>1
    <3> QED BY <1>6, <1>14, <2>2, <2>3, <3>2
  <2>4. ASSUME ch[f] # <<>>
        PROVE  Len(wrote[f]) < Len(ch[f]) /\ start = ch[f][Len(wrote[f]) + 1]
    <3>1. 0 < Len(ch[f])
      BY <1>4, <2>4, EmptySeq
    <3>2. CASE from[f] = 0 /\ wrote[f] = <<>>
      <4>1. Len(wrote[f]) = 0 /\ 0 + 1 = 1
        BY <3>2
      <4>2. start = ch[f][1]
        BY <2>2, <2>4, <3>2
      <4> QED BY <3>1, <4>1, <4>2
    <3>3. CASE Len(wrote[f]) < Len(ch[f]) /\ from[f] = ch[f][Len(wrote[f]) + 1]
      <4>1. from[f] # 0
        BY <1>7, <3>3, Marks
      <4> QED BY <3>3, <4>1
    <3> QED BY <1>6, <1>14, <3>2, <3>3
  <2> HIDE DEF start
  <2>5. ListIs(ch)'
    <3>1. CASE ch[f] = <<>>
      BY <1>1, <2>1, <2>3, <3>1 DEF ListIs
    <3>2. CASE ch[f] # <<>>
      <4>1. \E h \in [0 .. Len(lst') -> 0 .. Len(ch[f])] :
              Along(ch[f], lst', Len(wrote[f]), h) /\ h[Len(lst')] = Len(wrote[f]) + 1
        BY <1>4, <1>5, <2>1, <2>4, <3>2, AlongOne
      <4>2. PICK h \in [0 .. Len(lst') -> 0 .. Len(ch[f])] :
              Along(ch[f], lst', Len(wrote[f]), h) /\ h[Len(lst')] = Len(wrote[f]) + 1
        BY <4>1
      <4>3. pos' = ch[f][h[Len(lst')]]
        BY <2>1, <2>4, <3>2, <4>2
      <4> QED BY <1>1, <2>1, <3>2, <4>2, <4>3 DEF ListIs, Along
    <3> QED BY <3>1, <3>2
  <2>6. AtEnd(ch)' /\ ListFree'
    BY <2>1 DEF AtEnd, ListFree
  <2> QED BY <1>9, <1>10, <1>11, <1>12, <2>5, <2>6, PicturedParts, SoundParts DEF Pictures
<1> QED BY <1>13, <1>14

\* The walk goes on to the next cluster of the chain.
LEMMA WalkNextSound ==
  ASSUME OInv, Orderly, WalkNext
  PROVE  Sound'
<1>1. /\ pc = "walk" /\ fat[pos] \in Cluster
      /\ UNCHANGED <<chainVars, freeVars, last, wrote, file, done, histVars>>
  BY DEF WalkNext
<1>2. PICK ch : Pictured(ch)
  BY SoundParts DEF Pictures
<1>3. /\ file \in Files /\ ch[file] \in Seq(Usable) /\ Len(ch[file]) \in Nat
      /\ Len(wrote[file]) \in Nat /\ lst \in Seq(RunT) /\ Len(lst) \in Nat
      /\ \A i \in 1 .. Len(ch[file]) :
           fat[ch[file][i]] = IF i = Len(ch[file]) THEN EndMark ELSE ch[file][i + 1]
  BY <1>1, <1>2, WalkFacts, SoundParts
<1>4. fat[pos] # EndMark /\ fat[pos] # 0 /\ pos # 0
  BY <1>1, Marks, SoundParts DEF IInv, ReservedKept, FatEntry
<1>5. ch[file] # <<>>
  BY <1>1, <1>2, <1>4 DEF Pictured, ListIs
<1>6. PICK h \in [0 .. Len(lst) -> 0 .. Len(ch[file])] :
        /\ Along(ch[file], lst, Len(wrote[file]), h)
        /\ h[Len(lst)] \in 1 .. Len(ch[file]) /\ pos = ch[file][h[Len(lst)]]
  BY <1>1, <1>2, <1>5, WalkPlace, SoundParts
<1>7. h[Len(lst)] < Len(ch[file]) /\ fat[pos] = ch[file][h[Len(lst)] + 1]
  BY <1>3, <1>4, <1>6
<1>8. lst # <<>> /\ lst[Len(lst)].base + lst[Len(lst)].adj = pos
  BY <1>1, SoundParts DEF IInv, WalkAtEnd
<1>q. PICK q : q = ch[file] /\ q \in Seq(Usable)
  BY <1>3
<1>w. PICK w \in Nat : w = Len(wrote[file])
  BY <1>3
<1>k. PICK l \in Seq(RunT) : l = lst
  BY <1>3
<1>l. PICK k \in [0 .. Len(l) -> 0 .. Len(q)] :
        k = h /\ l = lst /\ Along(q, l, w, k) /\ k[Len(l)] < Len(q)
  BY <1>6, <1>7, <1>k, <1>q, <1>w
<1>9. ListIs(ch)' /\ pc' \in {"walk", "writeOld"} /\ \A f \in Files \ {file} : from'[f] = from[f]
  <2>1. CASE SameRun
    <3>1. /\ lst' = [lst EXCEPT ![Len(lst)].adj = @ + 1] /\ pos' = fat[pos]
          /\ UNCHANGED <<pc, more, from>>
      BY <2>1 DEF WalkNext
    <3>2. Len(lst) \in 1 .. Len(lst)
      BY <1>3, <1>8, EmptySeq
    <3>3. PICK x \in RunT : x = lst[Len(lst)]
      BY <1>3, <3>2, ElementOfSeq
    <3> DEFINE r == [x EXCEPT !.adj = @ + 1]
    <3>r. r \in RunT /\ r.base = x.base /\ r.adj = x.adj + 1
      BY RunLonger
    <3>4. r \in RunT /\ r.base = lst[Len(lst)].base /\ r.adj = lst[Len(lst)].adj + 1
      BY <3>3, <3>r
    <3>5. lst' = [lst EXCEPT ![Len(lst)] = r]
      BY <1>3, <3>1, <3>2, <3>3
    <3> HIDE DEF r
    <3>6. q[h[Len(lst)] + 1] = lst[Len(lst)].base + lst[Len(lst)].adj + 1
      BY <1>7, <1>8, <1>q, <2>1 DEF SameRun
    <3>7. \E g \in [0 .. Len(lst') -> 0 .. Len(q)] :
            Along(q, lst', w, g) /\ g[Len(lst')] = h[Len(lst)] + 1
      <4>1. PICK m : m = lst'
        OBVIOUS
      <4>2. PICK y \in RunT : y = r
        BY <3>4
      <4>3. y.base = l[Len(l)].base /\ y.adj = l[Len(l)].adj + 1
        BY <1>l, <3>4, <4>2
      <4>6. Len(m) = Len(l) /\ \A i \in 1 .. Len(l) : m[i] = IF i = Len(l) THEN y ELSE l[i]
        BY <1>3, <1>l, <3>2, <3>4, <3>5, <4>1, <4>2, ExceptSeq
      <4>4. q[k[Len(l)] + 1] = l[Len(l)].base + l[Len(l)].adj + 1 /\ l # <<>>
        BY <1>l, <1>8, <3>6
      <4>5. \E g \in [0 .. Len(m) -> 0 .. Len(q)] : Along(q, m, w, g) /\ g[Len(m)] = k[Len(l)] + 1
        BY <1>k, <1>l, <1>q, <1>w, <4>2, <4>3, <4>4, <4>6, AlongGrow
      <4> QED BY <1>l, <4>1, <4>5
    <3>8. PICK g \in [0 .. Len(lst') -> 0 .. Len(q)] :
            Along(q, lst', w, g) /\ g[Len(lst')] = h[Len(lst)] + 1
      BY <3>7
    <3>9. pos' = q[g[Len(lst')]]
      BY <1>7, <1>q, <3>1, <3>8
    <3>10. ListIs(ch)'
      BY <1>1, <1>5, <1>q, <1>w, <3>1, <3>8, <3>9, ZenonT(60) DEF ListIs, Along
    <3> QED BY <1>1, <3>1, <3>10
  <2>2. CASE ~SameRun /\ Len(lst) < ListSize
    <3>1. /\ lst' = Append(lst, Run(fat[pos], 0)) /\ pos' = fat[pos]
          /\ UNCHANGED <<pc, more, from>>
      BY <2>2 DEF WalkNext
    <3>2. lst' = Append(lst, Run(q[h[Len(lst)] + 1], 0))
      BY <1>7, <1>q, <3>1
    <3>7. \E g \in [0 .. Len(lst') -> 0 .. Len(q)] :
            Along(q, lst', w, g) /\ g[Len(lst')] = h[Len(lst)] + 1
      <4>1. PICK m : m = lst'
        OBVIOUS
      <4>2. m = Append(l, Run(q[k[Len(l)] + 1], 0))
        BY <1>l, <3>2, <4>1
      <4>3. \E g \in [0 .. Len(m) -> 0 .. Len(q)] : Along(q, m, w, g) /\ g[Len(m)] = k[Len(l)] + 1
        BY <1>k, <1>l, <1>q, <1>w, <4>2, AlongAppend, SMTT(30)
      <4> QED BY <1>l, <4>1, <4>3
    <3>8. PICK g \in [0 .. Len(lst') -> 0 .. Len(q)] :
            Along(q, lst', w, g) /\ g[Len(lst')] = h[Len(lst)] + 1
      BY <3>7
    <3>9. pos' = q[g[Len(lst')]]
      BY <1>7, <1>q, <3>1, <3>8
    <3>10. ListIs(ch)'
      BY <1>1, <1>5, <1>q, <1>w, <3>1, <3>8, <3>9, ZenonT(60) DEF ListIs, Along
    <3> QED BY <1>1, <3>1, <3>10
  <2>3. CASE ~SameRun /\ ~(Len(lst) < ListSize)
    <3>1. /\ more' = TRUE /\ from' = [from EXCEPT ![file] = fat[pos]]
          /\ pc' = "writeOld" /\ UNCHANGED <<lst, pos>>
      BY <2>3 DEF WalkNext
    <3>2. from'[file] = fat[pos] /\ \A f \in Files \ {file} : from'[f] = from[f]
      BY <1>3, <3>1, SoundParts, InvParts DEF CursorType
    <3>3. ListIs(ch)'
      BY <1>1, <1>5, <1>6, <1>7, <3>1, <3>2 DEF ListIs, Along
    <3> QED BY <3>1, <3>2, <3>3
  <2> QED BY <2>1, <2>2, <2>3
<1> QED BY <1>1, <1>2, <1>9, WalkingSound DEF histVars

\* The walk is at the end of the chain.
LEMMA WalkEndSound ==
  ASSUME OInv, Orderly, WalkEnd
  PROVE  Sound'
<1>1. /\ pc = "walk" /\ fat[pos] = EndMark /\ pc' = "writeOld" /\ more' = FALSE
      /\ lst' = IF pos = 0 THEN <<>> ELSE lst
      /\ UNCHANGED <<chainVars, freeVars, curVars, file, done, histVars>>
  BY DEF WalkEnd
<1>2. PICK ch : Pictured(ch)
  BY SoundParts DEF Pictures
<1>3. /\ ch[file] \in Seq(Usable) /\ Len(ch[file]) \in Nat
      /\ \A i \in 1 .. Len(ch[file]) :
           /\ ch[file][i] \in Usable /\ ch[file][i] # 0
           /\ fat[ch[file][i]] = IF i = Len(ch[file]) THEN EndMark ELSE ch[file][i + 1]
  BY <1>1, <1>2, WalkFacts, SoundParts
<1>4. ListIs(ch)'
  <2>1. CASE ch[file] = <<>>
    <3>1. pos = 0
      BY <1>1, <1>2, <2>1 DEF Pictured, ListIs
    <3> QED BY <1>1, <2>1, <3>1 DEF ListIs
  <2>2. CASE ch[file] # <<>>
    <3>1. PICK h \in [0 .. Len(lst) -> 0 .. Len(ch[file])] :
            /\ Along(ch[file], lst, Len(wrote[file]), h)
            /\ h[Len(lst)] \in 1 .. Len(ch[file]) /\ pos = ch[file][h[Len(lst)]]
      BY <1>1, <1>2, <2>2, WalkPlace, SoundParts
    <3>2. h[Len(lst)] = Len(ch[file])
      <4>1. ASSUME h[Len(lst)] # Len(ch[file]) PROVE FALSE
        <5>1. h[Len(lst)] + 1 \in 1 .. Len(ch[file])
          BY <1>3, <3>1, <4>1
        <5>2. fat[pos] = ch[file][h[Len(lst)] + 1]
          BY <1>3, <3>1, <4>1
        <5> QED BY <1>1, <1>3, <5>1, <5>2, Marks DEF FatEntry
      <4> QED BY <4>1
    <3>3. lst' = lst
      BY <1>1, <1>3, <3>1
    <3> QED BY <1>1, <2>2, <3>1, <3>2, <3>3 DEF ListIs, Along, curVars
  <2> QED BY <2>1, <2>2
<1> QED BY <1>1, <1>2, <1>4, WalkingSound DEF histVars, curVars

\* The walk goes on where the list was full.
LEMMA WriteOldMoreSound ==
  ASSUME OInv, Orderly, WriteOldMore
  PROVE  Sound'
<1>1. /\ pc = "writeOld" /\ lst = <<>> /\ more /\ pc' = "walk" /\ pos' = from[file]
      /\ lst' = <<Run(from[file], 0)>>
      /\ UNCHANGED <<chainVars, freeVars, curVars, file, done, histVars>>
  BY DEF WriteOldMore
<1>2. PICK ch : Pictured(ch)
  BY SoundParts DEF Pictures
<1>3. /\ ch[file] \in Seq(Usable) /\ Len(wrote[file]) \in Nat
  BY <1>1, <1>2, WalkFacts, SoundParts
<1>4. ch[file] # <<>>
  BY <1>1, <1>2 DEF Pictured, ListIs
<1>5. Len(wrote[file]) < Len(ch[file]) /\ from[file] = ch[file][Len(wrote[file]) + 1]
  <2>1. PICK h \in [0 .. Len(lst) -> 0 .. Len(ch[file])] :
          /\ Along(ch[file], lst, Len(wrote[file]), h)
          /\ h[Len(lst)] < Len(ch[file]) /\ from[file] = ch[file][h[Len(lst)] + 1]
    BY <1>1, <1>2, <1>4 DEF Pictured, ListIs
  <2>2. h[Len(lst)] = Len(wrote[file])
    BY <1>1, <2>1 DEF Along
  <2> QED BY <2>1, <2>2
<1>q. PICK q : q = ch[file] /\ q \in Seq(Usable)
  BY <1>3
<1>w. PICK w \in Nat : w = Len(wrote[file])
  BY <1>3
<1>6. \E h \in [0 .. Len(lst') -> 0 .. Len(q)] : Along(q, lst', w, h) /\ h[Len(lst')] = w + 1
  BY <1>1, <1>5, <1>q, <1>w, AlongOne
<1>7. PICK h \in [0 .. Len(lst') -> 0 .. Len(q)] : Along(q, lst', w, h) /\ h[Len(lst')] = w + 1
  BY <1>6
<1>8. ListIs(ch)'
  BY <1>1, <1>4, <1>5, <1>q, <1>w, <1>7 DEF ListIs, Along, curVars
<1> QED BY <1>1, <1>2, <1>8, WalkingSound DEF histVars, curVars

\* The whole chain is written over: its size is right already.
LEMMA WriteOldDoneSound ==
  ASSUME OInv, Orderly, WriteOldDone
  PROVE  Sound'
<1>1. /\ pc = "writeOld" /\ lst = <<>> /\ ~more
      /\ size' = [size EXCEPT ![file] = GrownSize]
      /\ from' = [from EXCEPT ![file] = 0] /\ AskFor(todo)
      /\ UNCHANGED <<fat, first, freeVars, last, wrote, file, histVars>>
  BY DEF WriteOldDone
<1>2. PICK ch : Pictured(ch)
  BY SoundParts DEF Pictures
<1>3. /\ file \in Files /\ ch[file] \in Seq(Usable) /\ Len(ch[file]) \in Nat
      /\ Len(wrote[file]) \in Nat /\ Len(wrote[file]) <= Len(ch[file])
  BY <1>1, <1>2, WalkFacts, SoundParts
<1>4. ChainType /\ CursorType /\ done \in Nat
  BY SoundParts, InvParts DEF CallType
<1>5. Len(wrote[file]) = Len(ch[file])
  <2>1. CASE ch[file] = <<>>
    <3>1. Len(ch[file]) = 0
      BY <2>1
    <3> QED BY <1>3, <3>1
  <2>2. CASE ch[file] # <<>>
    <3>1. PICK h \in [0 .. Len(lst) -> 0 .. Len(ch[file])] :
            Along(ch[file], lst, Len(wrote[file]), h) /\ h[Len(lst)] = Len(ch[file])
      BY <1>1, <1>2, <2>2 DEF Pictured, ListIs
    <3> QED BY <1>1, <3>1 DEF Along
  <2> QED BY <2>1, <2>2
<1>6. size' = size
  <2>1. done <= Len(wrote[file]) /\ size[file] = Len(ch[file])
    BY <1>1, <1>2, <1>3 DEF Pictured, DoneIs, SizeIs
  <2>2. GrownSize = size[file]
    BY <1>3, <1>4, <2>1 DEF GrownSize
  <2> QED BY <1>1, <1>4, <2>2 DEF ChainType
<1>7. pc' \in {"take", "hand"}
  BY <1>1 DEF AskFor
<1>8. Volume(ch)'
  BY <1>1, <1>2, <1>6, <1>7, NoneGone, SameVolume, PicturedParts DEF chainVars, histVars
<1>9. WroteIs(ch)' /\ LastIs'
  BY <1>1, <1>2, SameWrote DEF Pictured
<1>10. CursorIs(ch)'
  <2>1. ASSUME NEW f \in Files
        PROVE  \/ Writing(f)'
               \/ from'[f] = 0 /\ wrote'[f] = <<>>
               \/ from'[f] = ALLOC /\ Len(wrote'[f]) = Len(ch[f])
               \/ Len(wrote'[f]) < Len(ch[f]) /\ from'[f] = ch[f][Len(wrote'[f]) + 1]
    <3>1. CASE f = file
      BY <1>1, <1>7, <3>1 DEF Writing
    <3>2. CASE f # file
      BY <1>1, <1>2, <1>4, <3>2 DEF Pictured, CursorIs, Writing, CursorType
    <3> QED BY <3>1, <3>2
  <2> QED BY <2>1 DEF CursorIs
<1>11. FreeingAt(ch)' /\ ListIs(ch)' /\ DoneIs' /\ AtEnd(ch)'
  BY <1>1, <1>5, <1>7 DEF FreeingAt, ListIs, DoneIs, AtEnd
<1>12. ListFree' /\ CacheFree' /\ CountFits'
  BY <1>1, AskForSpace
<1> QED BY <1>8, <1>9, <1>10, <1>11, <1>12, PicturedParts, SoundParts DEF Pictures

LEMMA SameEnd ==
  ASSUME NEW m \in Nat, NEW n \in Nat, 1 .. m = 1 .. n
  PROVE  m = n
<1>1. m \in 1 .. m \/ m = 0
  OBVIOUS
<1>2. n \in 1 .. n \/ n = 0
  OBVIOUS
<1> QED BY <1>1, <1>2

\* The sequence u is s, of w elements, and then t, of n.
Joined(u, s, t, w, n) ==
  Len(u) = w + n /\ \A i \in 1 .. (w + n) : u[i] = IF i <= w THEN s[i] ELSE t[i - w]

LEMMA ConcatJoins ==
  ASSUME NEW S, NEW s \in Seq(S), NEW t \in Seq(S)
  PROVE  Joined(s \o t, s, t, Len(s), Len(t))
  BY ConcatProperties DEF Joined

\* The sequence s is the beginning of q; its last element, or 0, is l.
Begins(s, q) == \A i \in 1 .. Len(s) : s[i] = q[i]
EndsAt(s, l) == l = IF s = <<>> THEN 0 ELSE s[Len(s)]

\* Clusters that continue a chain are written: what was written still is the
\* beginning of the chain.
LEMMA WroteOn ==
  ASSUME WroteType, NEW g \in Files, g = file, NEW b \in Nat, NEW n \in Nat, PutData(b, n),
         NEW p \in Seq(Usable), NEW w \in Nat, w = Len(wrote[g]), w + n <= Len(p),
         Begins(wrote[g], p), OnRun(p, w, b, n), EndsAt(wrote[g], last[g]),
         last'[g] = IF n = 0 THEN last[g] ELSE b + n - 1
  PROVE  /\ Len(wrote'[g]) = w + n /\ Begins(wrote'[g], p) /\ EndsAt(wrote'[g], last'[g])
         /\ \A f \in Files \ {g} : wrote'[f] = wrote[f]
<1> DEFINE B == [i \in 1 .. n |-> b + i - 1]
<1>1. Len(p) \in Nat /\ \A i \in 1 .. Len(p) : p[i] \in Usable
  BY LenProperties, ElementOfSeq
<1>2. B \in Seq(Cluster) /\ Len(B) = n
  <2>1. ASSUME NEW i \in 1 .. n PROVE b + i - 1 \in Cluster
    <3>1. i - 1 \in 0 .. (n - 1) /\ w + 1 + (i - 1) \in 1 .. Len(p)
      BY <1>1
    <3>2. p[w + 1 + (i - 1)] = b + (i - 1)
      BY <3>1 DEF OnRun
    <3>3. b + (i - 1) \in Cluster
      BY <1>1, <3>1, <3>2, Marks
    <3>4. b + (i - 1) = b + i - 1
      OBVIOUS
    <3> QED BY <3>3, <3>4
  <2>2. B \in [1 .. n -> Cluster]
    BY <2>1
  <2> HIDE DEF B
  <2>3. B \in Seq(Cluster)
    BY <2>2, SeqDef
  <2>4. Len(B) \in Nat /\ DOMAIN B = 1 .. Len(B)
    BY <2>3, LenProperties
  <2>5. 1 .. Len(B) = 1 .. n
    BY <2>2, <2>4
  <2>6. Len(B) = n
    BY <2>4, <2>5, SameEnd
  <2> QED BY <2>3, <2>6
<1>3. wrote'[g] = wrote[g] \o B /\ \A f \in Files \ {g} : wrote'[f] = wrote[f]
  BY DEF PutData, WroteType
<1>4. wrote[g] \in Seq(Cluster)
  BY DEF WroteType
<1>5. \A i \in 1 .. n : B[i] = b + i - 1
  OBVIOUS
<1> HIDE DEF B
<1>6. /\ Len(wrote'[g]) = w + n
      /\ \A i \in 1 .. (w + n) : wrote'[g][i] = IF i <= w THEN wrote[g][i] ELSE B[i - w]
  <2>1. PICK s \in Seq(Cluster) : s = wrote[g]
    BY <1>4
  <2>2. PICK u : u = wrote'[g]
    OBVIOUS
  <2>3. u = s \o B /\ w = Len(s) /\ n = Len(B)
    BY <1>2, <1>3, <2>1, <2>2
  <2>4. Joined(u, s, B, w, n)
    BY <1>2, <2>1, <2>3, ConcatJoins
  <2> QED BY <2>1, <2>2, <2>4 DEF Joined
<1>7. ASSUME NEW i \in 1 .. Len(wrote'[g]) PROVE wrote'[g][i] = p[i]
  <2>1. CASE i <= w
    <3>1. i \in 1 .. w /\ i \in 1 .. (w + n)
      BY <1>6, <2>1
    <3> QED BY <1>6, <2>1, <3>1 DEF Begins
  <2>2. CASE ~(i <= w)
    <3>0. i \in Nat /\ i <= w + n /\ i > w
      BY <1>6, <2>2
    <3>1. /\ i - w \in 1 .. n /\ i \in 1 .. (w + n) /\ (i - w) - 1 \in 0 .. (n - 1)
          /\ w + 1 + ((i - w) - 1) = i /\ b + (i - w) - 1 = b + ((i - w) - 1)
      <4>1. PICK k \in Nat \ {0} : i = w + k
        <5>1. i - w \in Nat \ {0} /\ i = w + (i - w)
          BY <3>0
        <5> QED BY <5>1
      <4>2. i - w = k /\ k <= n
        BY <3>0, <4>1
      <4>3. k \in 1 .. n /\ k - 1 \in 0 .. (n - 1) /\ w + 1 + (k - 1) = w + k
        BY <4>2
      <4>4. b + k - 1 = b + (k - 1)
        OBVIOUS
      <4>5. i \in 1 .. (w + n)
        BY <3>0
      <4> QED BY <4>1, <4>2, <4>3, <4>4, <4>5
    <3>2. wrote'[g][i] = b + (i - w) - 1
      BY <1>5, <1>6, <2>2, <3>1
    <3>3. p[w + 1 + ((i - w) - 1)] = b + ((i - w) - 1)
      BY <3>1 DEF OnRun
    <3> QED BY <3>1, <3>2, <3>3
  <2> QED BY <2>1, <2>2
<1>8. last'[g] = IF wrote'[g] = <<>> THEN 0 ELSE wrote'[g][Len(wrote'[g])]
  <2>1. CASE n = 0
    <3>1. B = <<>>
      BY <1>2, <2>1, EmptySeq
    <3>2. wrote'[g] = wrote[g] /\ Len(wrote'[g]) = w
      BY <1>3, <1>4, <1>6, <2>1, <3>1, ConcatEmptySeq
    <3> QED BY <2>1, <3>2 DEF EndsAt
  <2>2. CASE n # 0
    <3>1. /\ w + n \in 1 .. (w + n) /\ w + n > 0 /\ ~(w + n <= w) /\ (w + n) - w = n
          /\ n \in 1 .. n
      BY <2>2
    <3>2. wrote'[g][w + n] = b + n - 1
      BY <1>5, <1>6, <3>1
    <3>3. wrote'[g] # <<>>
      <4>1. Len(<<>>) = 0
        OBVIOUS
      <4> QED BY <1>6, <3>1, <4>1
    <3> QED BY <1>6, <2>2, <3>2, <3>3
  <2> QED BY <2>1, <2>2
<1> QED BY <1>3, <1>6, <1>7, <1>8 DEF Begins, EndsAt

\* The data put in the clusters of a chain belongs to the file of the chain.
LEMMA OwnedOn ==
  ASSUME HistType, NEW b \in Nat, NEW n \in Nat, PutData(b, n), file \in Files
  PROVE  \A c \in Cluster : owner'[c] = IF c \in b .. (b + n - 1) THEN {file} ELSE owner[c]
  BY DEF PutData, HistType

\* A run of the chain is written over.
LEMMA WriteOldSound ==
  ASSUME OInv, Orderly, WriteOld
  PROVE  Sound'
<1> DEFINE r == Head(lst)
           n0 == IF todo >= r.adj + 1 THEN r.adj + 1 ELSE todo
<1>1. /\ pc = "writeOld" /\ lst # <<>> /\ PutData(r.base, n0)
      /\ last' = IF n0 = 0 THEN last ELSE [last EXCEPT ![file] = r.base + n0 - 1]
      /\ UNCHANGED <<chainVars, freeVars>>
      /\ todo < r.adj + 1 => from' = [from EXCEPT ![file] = r.base + n0] /\ Return("OK")
      /\ ~(todo < r.adj + 1) => /\ lst' = Tail(lst) /\ done' = done + n0
                                /\ UNCHANGED <<from, pc, file, more>>
  BY DEF WriteOld, GoOnFrom
<1>2. PICK ch : Pictured(ch)
  BY SoundParts DEF Pictures
<1>3. CursorType /\ WroteType /\ HistType /\ todo \in Nat /\ done \in Nat
  BY SoundParts, InvParts DEF CallType
<1>4. /\ file \in Files /\ ch[file] \in Seq(Usable) /\ Len(ch[file]) \in Nat
      /\ Len(wrote[file]) \in Nat /\ Len(wrote[file]) <= Len(ch[file])
      /\ lst \in Seq(RunT)
  BY <1>1, <1>2, WalkFacts, SoundParts
<1>5. ch[file] # <<>>
  BY <1>1, <1>2 DEF Pictured, ListIs
<1>6. PICK h \in [0 .. Len(lst) -> 0 .. Len(ch[file])] :
        /\ Along(ch[file], lst, Len(wrote[file]), h)
        /\ IF more THEN h[Len(lst)] < Len(ch[file]) /\ from[file] = ch[file][h[Len(lst)] + 1]
                   ELSE h[Len(lst)] = Len(ch[file])
  BY <1>1, <1>2, <1>5 DEF Pictured, ListIs
<1>7. PICK g \in Files : g = file
  BY <1>4
<1>8. PICK w \in Nat : w = Len(wrote[g])
  BY <1>4, <1>7
<1>9. PICK l \in Seq(RunT) : l = lst
  BY <1>4
<1>10. PICK k \in [0 .. Len(l) -> 0 .. Len(ch[g])] : k = h /\ Along(ch[g], l, w, k)
  BY <1>6, <1>7, <1>8, <1>9
<1>x. PICK x : x = r
  OBVIOUS
<1>t. PICK tl : tl = Tail(lst)
  OBVIOUS
<1>11. /\ x.base \in Nat /\ x.adj \in Nat
       /\ w + x.adj + 1 <= Len(ch[g])
       /\ OnRun(ch[g], w, x.base, x.adj + 1)
       /\ ListLeads(ch[g], tl, w + x.adj + 1, k[Len(l)])
  <2>1. PICK p \in Seq(Usable) : p = ch[g]
    BY <1>4, <1>7
  <2>2. l # <<>>
    BY <1>1, <1>9
  <2>3. k \in [0 .. Len(l) -> 0 .. Len(p)] /\ Along(p, l, w, k)
    BY <1>10, <2>1
  <2>4. x = Head(l) /\ tl = Tail(l)
    BY <1>9, <1>x, <1>t
  <2> HIDE DEF r
  <2>5. /\ x.base \in Nat /\ x.adj \in Nat
        /\ w + x.adj + 1 <= Len(p)
        /\ OnRun(p, w, x.base, x.adj + 1)
        /\ ListLeads(p, tl, w + x.adj + 1, k[Len(l)])
    <3>1. x.base \in Nat /\ x.adj \in Nat
      BY <1>8, <1>9, <2>1, <2>2, <2>3, <2>4, AlongTail
    <3>2. w + x.adj + 1 <= Len(p)
      BY <1>8, <1>9, <2>1, <2>2, <2>3, <2>4, AlongTail
    <3>3. OnRun(p, w, x.base, x.adj + 1)
      BY <1>8, <1>9, <2>1, <2>2, <2>3, <2>4, AlongTail
    <3>4. ListLeads(p, tl, w + x.adj + 1, k[Len(l)])
      BY <1>8, <1>9, <2>1, <2>2, <2>3, <2>4, AlongTail
    <3> QED BY <3>1, <3>2, <3>3, <3>4
  <2> QED BY <2>1, <2>5
<1>12. PICK a \in Nat, b \in Nat : a = r.adj /\ b = r.base
  BY <1>x, <1>11
<1> HIDE DEF r
<1>13. PICK n \in Nat : n = n0 /\ n <= a + 1 /\ (todo < a + 1 => n < a + 1 /\ n = todo)
                                 /\ (~(todo < a + 1) => n = a + 1)
  BY <1>3, <1>12
<1> HIDE DEF n0
<1>14. /\ PutData(b, n)
       /\ last'[g] = (IF n = 0 THEN last[g] ELSE b + n - 1)
       /\ \A f \in Files \ {g} : last'[f] = last[f]
  BY <1>1, <1>3, <1>7, <1>12, <1>13 DEF CursorType
<1>15. w + a + 1 <= Len(ch[g]) /\ OnRun(ch[g], w, b, a + 1)
  BY <1>x, <1>11, <1>12
<1>16. Len(ch[g]) \in Nat /\ w + n <= Len(ch[g]) /\ OnRun(ch[g], w, b, n)
  <2>1. PICK m \in Nat : m = Len(ch[g])
    BY <1>4, <1>7
  <2>2. w + a + 1 <= m /\ n <= a + 1
    BY <1>13, <1>15, <2>1
  <2>3. w + n <= m /\ a + 1 \in Nat
    BY <2>2
  <2> QED BY <1>13, <1>15, <2>1, <2>3, OnRunPart
<1>17. /\ Len(wrote'[g]) = w + n
       /\ \A i \in 1 .. Len(wrote'[g]) : wrote'[g][i] = ch[g][i]
       /\ last'[g] = IF wrote'[g] = <<>> THEN 0 ELSE wrote'[g][Len(wrote'[g])]
       /\ \A f \in Files \ {g} : wrote'[f] = wrote[f]
  <2>1. PICK p \in Seq(Usable) : p = ch[g]
    BY <1>4, <1>7
  <2>2. Begins(wrote[g], p)
    BY <1>2, <1>8, <2>1 DEF Pictured, WroteIs, Begins
  <2>3. EndsAt(wrote[g], last[g])
    BY <1>2, <1>8 DEF Pictured, LastIs, EndsAt
  <2>4. w + n <= Len(p) /\ OnRun(p, w, b, n)
    BY <1>16, <2>1
  <2>5. g = file /\ PutData(b, n) /\ last'[g] = (IF n = 0 THEN last[g] ELSE b + n - 1)
    BY <1>7, <1>14
  <2>6. /\ WroteType /\ g \in Files /\ w = Len(wrote[g])
        /\ b \in Nat /\ n \in Nat /\ w \in Nat /\ p \in Seq(Usable)
    BY <1>3, <1>7, <1>8, <1>12, <1>13, <2>1
  <2>7. Len(wrote'[g]) = w + n
    BY <2>2, <2>3, <2>4, <2>5, <2>6, WroteOn
  <2>8. Begins(wrote'[g], p)
    BY <2>2, <2>3, <2>4, <2>5, <2>6, WroteOn
  <2>9. EndsAt(wrote'[g], last'[g])
    BY <2>2, <2>3, <2>4, <2>5, <2>6, WroteOn
  <2>10. \A f \in Files \ {g} : wrote'[f] = wrote[f]
    BY <2>2, <2>3, <2>4, <2>5, <2>6, WroteOn
  <2>11. \A i \in 1 .. Len(wrote'[g]) : wrote'[g][i] = ch[g][i]
    BY <2>1, <2>8 DEF Begins
  <2>12. last'[g] = IF wrote'[g] = <<>> THEN 0 ELSE wrote'[g][Len(wrote'[g])]
    BY <2>9 DEF EndsAt
  <2> QED BY <2>7, <2>10, <2>11, <2>12
<1>18. OwnerIs(ch)'
  <2>1. \A c \in Cluster : owner'[c] = IF c \in b .. (b + n - 1) THEN {g} ELSE owner[c]
    <3>1. PutData(b, n)
      BY <1>14
    <3> QED BY <1>3, <1>7, <3>1, OwnedOn
  <2>2. ASSUME NEW f \in Files, NEW i \in 1 .. Len(ch[f]) PROVE owner'[ch[f][i]] = {f}
    <3>1. Separate(ch) /\ owner[ch[f][i]] = {f}
      BY <1>2 DEF Pictured, OwnerIs
    <3>2. ch[f][i] \in Cluster
      <4>1. ch[f] \in Seq(Usable)
        BY <3>1 DEF Separate
      <4> QED BY <4>1, ElementOfSeq, Marks
    <3>3. CASE ch[f][i] \in b .. (b + n - 1)
      <4>1. PICK d \in 0 .. (n - 1) : ch[f][i] = b + d
        <5>1. ch[f][i] - b \in 0 .. (n - 1) /\ ch[f][i] = b + (ch[f][i] - b)
          BY <3>3
        <5> QED BY <5>1
      <4>2. ch[f][i] = ch[g][w + 1 + d]
        BY <1>16, <4>1 DEF OnRun
      <4>3. w + 1 + d \in 1 .. Len(ch[g])
        BY <1>16
      <4>4. f = g
        BY <3>1, <4>2, <4>3 DEF Separate
      <4> QED BY <2>1, <3>2, <3>3, <4>4
    <3>4. CASE ch[f][i] \notin b .. (b + n - 1)
      BY <2>1, <3>1, <3>2, <3>4
    <3> QED BY <3>3, <3>4
  <2> QED BY <2>2 DEF OwnerIs
<1>19. pc' # "free" => Volume(ch)'
  <2>1. Separate(ch)' /\ FirstIs(ch)' /\ SizeIs(ch)' /\ RestUnused(ch)'
    BY <1>1, <1>2 DEF Pictured, Separate, FirstIs, SizeIs, RestUnused, InChain, Usable, chainVars
  <2>2. ASSUME pc' # "free" PROVE LinksAre(ch)'
    <3>1. \A f \in Files : Gone(f) = 0 /\ Gone(f)' = 0
      BY <1>1, <2>2 DEF Gone
    <3> QED BY <1>1, <1>2, <3>1 DEF Pictured, LinksAre, chainVars
  <2> QED BY <1>18, <2>1, <2>2 DEF Volume
<1>20. \A f \in Files \ {g} : ~Writing(f)
  BY <1>7 DEF Writing
<1>21. CASE todo < r.adj + 1
  <2>1. /\ from'[g] = b + n /\ \A f \in Files \ {g} : from'[f] = from[f]
        /\ pc' = "idle"
    BY <1>1, <1>3, <1>7, <1>12, <1>13, <1>21 DEF CursorType, Return
  <2>2. n \in 0 .. a /\ w + n < Len(ch[g]) /\ w + n + 1 = w + 1 + n
    <3>1. n < a + 1
      BY <1>12, <1>13, <1>21
    <3>2. PICK m \in Nat : m = Len(ch[g])
      BY <1>16
    <3>3. w + a + 1 <= m /\ w \in Nat /\ a \in Nat
      BY <1>8, <1>12, <1>15, <3>2
    <3>4. n \in 0 .. a /\ w + n < m /\ w + n + 1 = w + 1 + n
      BY <1>13, <3>1, <3>3
    <3> QED BY <3>2, <3>4
  <2>3. from'[g] = ch[g][Len(wrote'[g]) + 1]
    <3>1. n \in 0 .. ((a + 1) - 1)
      BY <2>2
    <3>2. ch[g][w + 1 + n] = b + n
      BY <1>15, <3>1 DEF OnRun
    <3> QED BY <1>17, <2>1, <2>2, <3>2
  <2>4. AtCursor(ch, g)'
    BY <1>16, <1>17, <2>2, <2>3 DEF AtCursor
  <2>5. WroteIs(ch)' /\ LastIs' /\ CursorIs(ch)'
    BY <1>2, <1>14, <1>17, <1>20, <2>1, <2>4, OtherCursors DEF Pictured
  <2>6. ListFree' /\ CacheFree' /\ CountFits'
    BY <1>1, <2>1, IdleSpace DEF chainVars, freeVars
  <2> QED BY <1>19, <2>1, <2>5, <2>6, IdlePictured, SoundParts
<1>22. CASE ~(todo < r.adj + 1)
  <2>1. lst' = Tail(lst) /\ done' = done + n /\ UNCHANGED <<from, pc, file, more>> /\ n = a + 1
    BY <1>1, <1>12, <1>13, <1>22
  <2>2. AtCursor(ch, g)'
    <3>1. Writing(g)'
      BY <1>1, <1>7, <2>1 DEF Writing
    <3> QED BY <1>16, <1>17, <3>1 DEF AtCursor
  <2>3. WroteIs(ch)' /\ LastIs' /\ CursorIs(ch)'
    BY <1>2, <1>14, <1>17, <1>20, <2>1, <2>2, OtherCursors DEF Pictured
  <2>4. DoneIs'
    <3>1. done <= w
      BY <1>1, <1>2, <1>7, <1>8 DEF Pictured, DoneIs
    <3>2. done' <= w + n
      BY <1>3, <2>1, <3>1
    <3> QED BY <1>7, <1>17, <2>1, <3>2 DEF DoneIs
  <2>5. ListIs(ch)'
    <3>1. PICK t \in [0 .. Len(tl) -> 0 .. Len(ch[g])] :
            Along(ch[g], tl, w + x.adj + 1, t) /\ t[Len(tl)] = k[Len(l)]
      BY <1>11 DEF ListLeads
    <3>2. w + x.adj + 1 = Len(wrote'[g])
      BY <1>x, <1>12, <1>17, <2>1
    <3>3. Along(ch[g], lst', Len(wrote'[g]), t) /\ t[Len(lst')] = h[Len(lst)]
      BY <1>9, <1>10, <1>t, <2>1, <3>1, <3>2
    <3>4. t \in [0 .. Len(lst') -> 0 .. Len(ch[g])]
      BY <1>t, <2>1, <3>1
    <3>5. pc' = "writeOld" /\ file' = g /\ ch[g] # <<>>
      BY <1>1, <1>5, <1>7, <2>1
    <3>6. IF more' THEN t[Len(lst')] < Len(ch[g]) /\ from'[g] = ch[g][t[Len(lst')] + 1]
                   ELSE t[Len(lst')] = Len(ch[g])
      BY <1>6, <1>7, <2>1, <3>3
    <3>7. \E u \in [0 .. Len(lst') -> 0 .. Len(ch[g])] :
            /\ Along(ch[g], lst', Len(wrote'[g]), u)
            /\ IF more' THEN u[Len(lst')] < Len(ch[g]) /\ from'[g] = ch[g][u[Len(lst')] + 1]
                        ELSE u[Len(lst')] = Len(ch[g])
      BY <3>3, <3>4, <3>6
    <3> QED BY <3>5, <3>7 DEF ListIs, Along
  <2>6. FreeingAt(ch)' /\ AtEnd(ch)'
    BY <1>1, <2>1 DEF FreeingAt, AtEnd
  <2>7. Volume(ch)'
    BY <1>1, <1>19, <2>1
  <2>8. ListFree' /\ CacheFree' /\ CountFits'
    BY <1>1, <2>1, SoundParts DEF ListFree, CacheFree, CountFits, FreeSet, chainVars, freeVars
  <2> QED BY <2>3, <2>4, <2>5, <2>6, <2>7, <2>8, PicturedParts, SoundParts DEF Pictures
<1> QED BY <1>21, <1>22

-----------------------------------------------------------------------------
(* Writing new clusters                                                    *)

\* The FAT after a segment is linked.
LinkedTo(l, s, e) ==
  /\ \A c \in s .. e : fat'[c] = IF c = e THEN EndMark ELSE c + 1
  /\ l # 0 => fat'[l] = s
  /\ \A c \in Cluster : c \notin s .. e /\ c # l => fat'[c] = fat[c]

LEMMA LinkedFat ==
  ASSUME ChainType, NEW l \in FatEntry, NEW s \in Nat, NEW e \in Nat, s <= e, s .. e \subseteq Cluster,
         l \notin s .. e, fat' = SetEntries(fat, l, s, e, e)
  PROVE  LinkedTo(l, s, e)
<1>1. DOMAIN fat = FatEntry /\ Cluster \subseteq FatEntry
  BY DEF ChainType, FatEntry
<1> QED BY <1>1 DEF SetEntries, LinkedTo

\* The chain u is the chain q, of m clusters, and the n clusters from s on.
Longer(u, q, m, s, n) ==
  /\ Len(q) = m /\ Len(u) = m + n
  /\ \A i \in 1 .. m : u[i] = q[i]
  /\ \A i \in (m + 1) .. (m + n) : u[i] = s + (i - m) - 1

LEMMA LongerExists ==
  ASSUME NEW q \in Seq(Usable), NEW m \in Nat, m = Len(q), NEW s \in Nat, NEW n \in Nat,
         s .. (s + n - 1) \subseteq Usable
  PROVE  \E u \in Seq(Usable) : Longer(u, q, m, s, n)
<1> DEFINE B == [i \in 1 .. n |-> s + i - 1]
<1>1. B \in [1 .. n -> Usable]
  <2>1. \A i \in 1 .. n : s + i - 1 \in s .. (s + n - 1)
    OBVIOUS
  <2> QED BY <2>1
<1>2. \A i \in 1 .. n : B[i] = s + i - 1
  OBVIOUS
<1> HIDE DEF B
<1>3. B \in Seq(Usable) /\ Len(B) = n
  <2>1. B \in Seq(Usable)
    BY <1>1, SeqDef
  <2>2. Len(B) \in Nat /\ DOMAIN B = 1 .. Len(B)
    BY <2>1, LenProperties
  <2>3. 1 .. Len(B) = 1 .. n
    BY <1>1, <2>2
  <2> QED BY <2>1, <2>2, <2>3, SameEnd
<1>u. PICK u : u = q \o B
  OBVIOUS
<1>4. u \in Seq(Usable) /\ Joined(u, q, B, m, n)
  BY <1>3, <1>u, ConcatProperties, ConcatJoins
<1>5. ASSUME NEW i \in 1 .. m PROVE u[i] = q[i]
  <2>1. i \in 1 .. (m + n) /\ i <= m
    OBVIOUS
  <2> QED BY <1>4, <2>1 DEF Joined
<1>6. ASSUME NEW i \in (m + 1) .. (m + n) PROVE u[i] = s + (i - m) - 1
  <2>1. i \in 1 .. (m + n) /\ ~(i <= m) /\ i - m \in 1 .. n
    OBVIOUS
  <2>2. u[i] = B[i - m]
    BY <1>4, <2>1 DEF Joined
  <2> QED BY <1>2, <2>1, <2>2
<1> QED BY <1>4, <1>5, <1>6 DEF Joined, Longer

\* The chains d are the chains ch with that of g made longer.
Grown(ch, d, g, m, s, n) ==
  /\ d \in [Files -> Seq(Usable)] /\ \A f \in Files \ {g} : d[f] = ch[f]
  /\ Longer(d[g], ch[g], m, s, n)

LEMMA GrownExists ==
  ASSUME NEW ch \in [Files -> Seq(Usable)], NEW g \in Files, NEW m \in Nat, m = Len(ch[g]),
         NEW s \in Nat, NEW n \in Nat, s .. (s + n - 1) \subseteq Usable
  PROVE  \E d : Grown(ch, d, g, m, s, n)
<1>1. PICK q \in Seq(Usable) : q = ch[g]
  OBVIOUS
<1>2. \E u \in Seq(Usable) : Longer(u, q, m, s, n)
  BY <1>1, LongerExists
<1>3. PICK u \in Seq(Usable) : Longer(u, q, m, s, n)
  BY <1>2
<1>4. PICK d : d = [ch EXCEPT ![g] = u]
  OBVIOUS
<1>5. d \in [Files -> Seq(Usable)] /\ d[g] = u /\ \A f \in Files \ {g} : d[f] = ch[f]
  BY <1>4
<1> QED BY <1>1, <1>3, <1>5 DEF Grown

\* A place in the longer chains is one of before or one in the segment.
PlaceOf(ch, d, g, m, s, n, f, i) ==
  \/ i \in 1 .. Len(ch[f]) /\ d[f][i] = ch[f][i]
  \/ f = g /\ i \in (m + 1) .. (m + n) /\ d[f][i] = s + (i - m) - 1
           /\ d[f][i] \in s .. (s + n - 1)

LEMMA GrownPlace ==
  ASSUME NEW ch, NEW d, NEW g \in Files, NEW m \in Nat, NEW s \in Nat, NEW n \in Nat,
         Grown(ch, d, g, m, s, n), NEW f \in Files, NEW i \in 1 .. Len(d[f])
  PROVE  PlaceOf(ch, d, g, m, s, n, f, i)
<1>1. CASE f # g
  BY <1>1 DEF Grown, PlaceOf
<1>2. CASE f = g
  <2>1. Len(d[g]) = m + n /\ Len(ch[g]) = m
    BY DEF Grown, Longer
  <2>2. CASE i \in 1 .. m
    BY <1>2, <2>1, <2>2 DEF Grown, Longer, PlaceOf
  <2>3. CASE i \notin 1 .. m
    <3>1. i \in (m + 1) .. (m + n)
      BY <1>2, <2>1, <2>3
    <3>2. d[f][i] = s + (i - m) - 1
      BY <1>2, <3>1 DEF Grown, Longer
    <3>3. s + (i - m) - 1 \in s .. (s + n - 1)
      BY <3>1
    <3> QED BY <1>2, <3>1, <3>2, <3>3 DEF PlaceOf
  <2> QED BY <2>2, <2>3
<1> QED BY <1>1, <1>2

\* What was in a chain still is, and so is the segment.
LEMMA GrownHolds ==
  ASSUME NEW ch, NEW d, NEW g \in Files, NEW m \in Nat, NEW s \in Nat, NEW n \in Nat,
         Grown(ch, d, g, m, s, n), NEW c, InChain(ch, c) \/ c \in s .. (s + n - 1)
  PROVE  InChain(d, c)
<1>1. CASE InChain(ch, c)
  <2>1. PICK f \in Files : \E i \in 1 .. Len(ch[f]) : c = ch[f][i]
    BY <1>1 DEF InChain
  <2>2. PICK i \in 1 .. Len(ch[f]) : c = ch[f][i]
    BY <2>1
  <2>3. i \in 1 .. Len(d[f]) /\ d[f][i] = ch[f][i]
    <3>1. CASE f # g
      BY <3>1 DEF Grown
    <3>2. CASE f = g
      <4>1. Len(d[g]) = m + n /\ Len(ch[g]) = m
        BY DEF Grown, Longer
      <4>2. i \in 1 .. m /\ i \in 1 .. (m + n)
        BY <3>2, <4>1
      <4> QED BY <3>2, <4>1, <4>2 DEF Grown, Longer
    <3> QED BY <3>1, <3>2
  <2> QED BY <2>2, <2>3 DEF InChain
<1>2. CASE c \in s .. (s + n - 1)
  <2>1. PICK i : i = m + (c - s) + 1
    OBVIOUS
  <2>2. i \in (m + 1) .. (m + n) /\ i \in 1 .. (m + n) /\ s + (i - m) - 1 = c
    BY <1>2, <2>1
  <2>3. Len(d[g]) = m + n /\ d[g][i] = c
    BY <2>2 DEF Grown, Longer
  <2> QED BY <2>2, <2>3 DEF InChain
<1> QED BY <1>1, <1>2

LEMMA GrownSeparate ==
  ASSUME NEW ch, NEW d, NEW g \in Files, NEW m \in Nat, NEW s \in Nat, NEW n \in Nat,
         Grown(ch, d, g, m, s, n), Separate(ch),
         \A f \in Files : \A i \in 1 .. Len(ch[f]) : ch[f][i] \notin s .. (s + n - 1)
  PROVE  Separate(d)
<1>1. ASSUME NEW f \in Files, NEW h \in Files, NEW i \in 1 .. Len(d[f]), NEW j \in 1 .. Len(d[h]),
             d[f][i] = d[h][j]
      PROVE  f = h /\ i = j
  <2>1. PlaceOf(ch, d, g, m, s, n, f, i)
    BY GrownPlace
  <2>2. PlaceOf(ch, d, g, m, s, n, h, j)
    BY GrownPlace
  <2>3. CASE d[f][i] \in s .. (s + n - 1)
    <3>1. /\ f = g /\ i \in (m + 1) .. (m + n) /\ d[f][i] = s + (i - m) - 1
          /\ h = g /\ j \in (m + 1) .. (m + n) /\ d[h][j] = s + (j - m) - 1
      BY <1>1, <2>1, <2>2, <2>3 DEF PlaceOf
    <3>2. s + (i - m) - 1 = s + (j - m) - 1
      BY <1>1, <3>1
    <3> QED BY <3>1, <3>2
  <2>4. CASE d[f][i] \notin s .. (s + n - 1)
    <3>1. i \in 1 .. Len(ch[f]) /\ j \in 1 .. Len(ch[h]) /\ ch[f][i] = ch[h][j]
      BY <1>1, <2>1, <2>2, <2>4 DEF PlaceOf
    <3> QED BY <3>1 DEF Separate
  <2> QED BY <2>3, <2>4
<1> QED BY <1>1 DEF Separate, Grown

\* What is free is in no chain.
LEMMA FreeInNoChain ==
  ASSUME NEW ch, Volume(ch), \A f \in Files : Gone(f) = 0, NEW f \in Files, NEW i \in 1 .. Len(ch[f])
  PROVE  ch[f][i] \in Usable /\ ch[f][i] \in Cluster /\ ch[f][i] \notin FreeSet
<1>1. ch[f] \in Seq(Usable) /\ Len(ch[f]) \in Nat
  BY LenProperties DEF Volume, Separate
<1>2. \A k \in 1 .. Len(ch[f]) : ch[f][k] \in Usable
  BY <1>1, ElementOfSeq
<1>3. fat[ch[f][i]] = IF i <= 0 THEN Free ELSE IF i = Len(ch[f]) THEN EndMark ELSE ch[f][i + 1]
  BY DEF Volume, LinksAre
<1>4. fat[ch[f][i]] # Free
  <2>1. CASE i = Len(ch[f])
    BY <1>1, <1>3, <2>1, Marks
  <2>2. CASE i # Len(ch[f])
    <3>1. i + 1 \in 1 .. Len(ch[f]) /\ ~(i <= 0)
      BY <1>1, <2>2
    <3>2. ch[f][i + 1] \in Usable
      BY <1>2, <3>1
    <3> QED BY <1>3, <2>2, <3>1, <3>2, Marks
  <2> QED BY <2>1, <2>2
<1> QED BY <1>2, <1>4, Marks DEF FreeSet

\* The new segment is linked at the end of the chain of g.
Linked(ch, g, m, s, e) ==
  /\ \A c \in s .. e : fat'[c] = IF c = e THEN EndMark ELSE c + 1
  /\ m # 0 => fat'[ch[g][m]] = s
  /\ \A c \in Cluster : c \notin s .. e /\ (m = 0 \/ c # ch[g][m]) => fat'[c] = fat[c]

LEMMA InSegment ==
  ASSUME NEW m \in Nat, NEW s \in Nat, NEW n \in Nat, NEW i \in (m + 1) .. (m + n), i # m + n,
         NEW c, c = s + (i - m) - 1, NEW e, e = s + n - 1
  PROVE  c # e /\ i + 1 \in (m + 1) .. (m + n) /\ s + ((i + 1) - m) - 1 = c + 1
  OBVIOUS

LEMMA GrownLinks ==
  ASSUME NEW ch, NEW d, NEW g \in Files, NEW m \in Nat, NEW s \in Nat, NEW n \in Nat, n # 0,
         NEW e, e = s + n - 1, Volume(ch), Grown(ch, d, g, m, s, n), s .. e \subseteq FreeSet,
         \A f \in Files : Gone(f) = 0 /\ Gone(f)' = 0, Linked(ch, g, m, s, e)
  PROVE  LinksAre(d)'
<1>1. ASSUME NEW f \in Files, NEW i \in 1 .. Len(d[f])
      PROVE  fat'[d[f][i]] = IF i = Len(d[f]) THEN EndMark ELSE d[f][i + 1]
  <2>1. PlaceOf(ch, d, g, m, s, n, f, i)
    BY GrownPlace
  <2>2. Len(d[g]) = m + n /\ Len(ch[g]) = m /\ (f # g => d[f] = ch[f])
    BY DEF Grown, Longer
  <2>3. CASE i \in 1 .. Len(ch[f]) /\ d[f][i] = ch[f][i]
    <3>1. PICK c \in Cluster : c = ch[f][i] /\ c \notin s .. e
      BY <2>3, FreeInNoChain
    <3>2. fat[c] = IF i = Len(ch[f]) THEN EndMark ELSE ch[f][i + 1]
      <4>1. fat[c] = IF i <= 0 THEN Free ELSE IF i = Len(ch[f]) THEN EndMark ELSE ch[f][i + 1]
        BY <2>3, <3>1 DEF Volume, LinksAre
      <4>2. ~(i <= 0)
        BY <2>3
      <4> QED BY <4>1, <4>2
    <3>3. CASE f = g /\ i = m
      <4>1. fat'[c] = s
        BY <2>3, <3>1, <3>3 DEF Linked
      <4>2. m + 1 \in (m + 1) .. (m + n) /\ m # m + n /\ s + ((m + 1) - m) - 1 = s
        OBVIOUS
      <4>3. d[g][m + 1] = s
        BY <4>2 DEF Grown, Longer
      <4> QED BY <2>2, <2>3, <3>1, <3>3, <4>1, <4>2, <4>3
    <3>4. CASE ~(f = g /\ i = m)
      <4>1. m = 0 \/ c # ch[g][m]
        <5>1. ASSUME m # 0, c = ch[g][m] PROVE FALSE
          <6>1. m \in 1 .. Len(ch[g]) /\ ch[f][i] = ch[g][m]
            BY <2>2, <3>1, <5>1
          <6>2. f = g /\ i = m
            BY <2>3, <6>1 DEF Volume, Separate
          <6> QED BY <3>4, <6>2
        <5> QED BY <5>1
      <4>2. fat'[c] = fat[c]
        BY <3>1, <4>1 DEF Linked
      <4>3. CASE f # g
        BY <2>2, <2>3, <3>1, <3>2, <4>2, <4>3
      <4>4. CASE f = g
        <5>1. i \in 1 .. m /\ i # m /\ i + 1 \in 1 .. m /\ i # m + n
          <6>1. i \in 1 .. m /\ i # m
            BY <2>2, <2>3, <3>4, <4>4
          <6> QED BY <6>1
        <5>2. d[g][i + 1] = ch[g][i + 1]
          BY <5>1 DEF Grown, Longer
        <5> QED BY <2>2, <2>3, <3>1, <3>2, <4>2, <4>4, <5>1, <5>2
      <4> QED BY <4>3, <4>4
    <3> QED BY <3>3, <3>4
  <2>4. CASE f = g /\ i \in (m + 1) .. (m + n) /\ d[f][i] = s + (i - m) - 1
             /\ d[f][i] \in s .. (s + n - 1)
    <3>1. PICK c \in s .. e : c = d[f][i] /\ c = s + (i - m) - 1
      BY <2>4
    <3>2. fat'[c] = IF c = e THEN EndMark ELSE c + 1
      BY DEF Linked
    <3>3. CASE i = m + n
      <4>1. c = e
        BY <3>1, <3>3
      <4> QED BY <2>2, <2>4, <3>1, <3>2, <3>3, <4>1
    <3>4. CASE i # m + n
      <4>1. c # e /\ i + 1 \in (m + 1) .. (m + n) /\ s + ((i + 1) - m) - 1 = c + 1
        <5>1. i \in (m + 1) .. (m + n) /\ c = s + (i - m) - 1 /\ e = s + n - 1
          BY <2>4, <3>1
        <5> QED BY <3>4, <5>1, InSegment
      <4>2. d[g][i + 1] = c + 1
        BY <4>1 DEF Grown, Longer
      <4> QED BY <2>2, <2>4, <3>1, <3>2, <3>4, <4>1, <4>2
    <3> QED BY <3>3, <3>4
  <2> QED BY <2>1, <2>3, <2>4 DEF PlaceOf
<1>2. \A f \in Files : \A i \in 1 .. Len(d[f]) : ~(i <= 0)
  OBVIOUS
<1> QED BY <1>1, <1>2 DEF LinksAre

\* The files after the segment is linked.
Stored(g, m, s, n, e) ==
  /\ first' = (IF m = 0 THEN [first EXCEPT ![g] = s] ELSE first)
  /\ size' = [size EXCEPT ![g] = @ + n]
  /\ \A c \in Cluster : owner'[c] = IF c \in s .. e THEN {g} ELSE owner[c]

LEMMA GrownVolume ==
  ASSUME NEW ch, NEW d, NEW g \in Files, NEW m \in Nat, NEW s \in Nat, NEW n \in Nat, n # 0,
         NEW e, e = s + n - 1, Volume(ch), Grown(ch, d, g, m, s, n), s .. e \subseteq FreeSet,
         \A f \in Files : Gone(f) = 0 /\ Gone(f)' = 0, Linked(ch, g, m, s, e),
         Stored(g, m, s, n, e), ChainType
  PROVE  Volume(d)'
<1>0. /\ first' = (IF m = 0 THEN [first EXCEPT ![g] = s] ELSE first)
      /\ size' = [size EXCEPT ![g] = @ + n]
      /\ \A c \in Cluster : owner'[c] = IF c \in s .. e THEN {g} ELSE owner[c]
  BY DEF Stored
<1>1. LinksAre(d)'
  BY GrownLinks
<1>2. Separate(d)'
  <2>1. \A f \in Files : \A i \in 1 .. Len(ch[f]) : ch[f][i] \notin s .. (s + n - 1)
    BY FreeInNoChain
  <2>2. Separate(ch)
    BY DEF Volume
  <2>3. Separate(d)
    BY <2>1, <2>2, GrownSeparate
  <2> QED BY <2>3 DEF Separate, Usable
<1>3. /\ Len(d[g]) = m + n /\ Len(ch[g]) = m /\ d[g] \in Seq(Usable)
      /\ \A f \in Files \ {g} : d[f] = ch[f]
  BY DEF Grown, Longer
<1>4. SizeIs(d)'
  <2>1. size[g] = m /\ \A f \in Files : size[f] = Len(ch[f])
    BY <1>3 DEF Volume, SizeIs
  <2>2. size'[g] = size[g] + n /\ \A f \in Files \ {g} : size'[f] = size[f]
    BY <1>0 DEF ChainType
  <2> QED BY <1>3, <2>1, <2>2 DEF SizeIs
<1>5. FirstIs(d)'
  <2>1. \A f \in Files : first[f] = IF ch[f] = <<>> THEN 0 ELSE ch[f][1]
    BY DEF Volume, FirstIs
  <2>2. d[g] # <<>>
    <3>1. Len(<<>>) = 0 /\ m + n # 0
      OBVIOUS
    <3> QED BY <1>3, <3>1
  <2>3. CASE m = 0
    <3>1. 1 \in (m + 1) .. (m + n) /\ s + (1 - m) - 1 = s
      BY <2>3
    <3>2. d[g][1] = s
      BY <3>1 DEF Grown, Longer
    <3>3. first'[g] = s /\ \A f \in Files \ {g} : first'[f] = first[f]
      BY <1>0, <2>3 DEF ChainType
    <3> QED BY <1>3, <2>1, <2>2, <3>2, <3>3 DEF FirstIs
  <2>4. CASE m # 0
    <3>1. 1 \in 1 .. m /\ ch[g] # <<>>
      <4>1. Len(<<>>) = 0
        OBVIOUS
      <4> QED BY <1>3, <2>4, <4>1
    <3>2. d[g][1] = ch[g][1]
      BY <3>1 DEF Grown, Longer
    <3>3. first' = first
      BY <1>0, <2>4
    <3> QED BY <1>3, <2>1, <2>2, <3>1, <3>2, <3>3 DEF FirstIs
  <2> QED BY <2>3, <2>4
<1>6. RestUnused(d)'
  <2>1. ASSUME NEW c \in Cluster PROVE fat'[c] \in {Free, BadMark} \/ InChain(d, c)
    <3>1. CASE c \in s .. e
      BY <3>1, GrownHolds
    <3>2. CASE m # 0 /\ c = ch[g][m]
      <4>1. m \in 1 .. Len(ch[g])
        BY <1>3, <3>2
      <4>2. InChain(ch, c)
        BY <3>2, <4>1 DEF InChain
      <4> QED BY <4>2, GrownHolds
    <3>3. CASE c \notin s .. e /\ ~(m # 0 /\ c = ch[g][m])
      <4>1. fat'[c] = fat[c]
        BY <3>3 DEF Linked
      <4>2. fat[c] \in {Free, BadMark} \/ InChain(ch, c)
        BY DEF Volume, RestUnused
      <4>3. InChain(ch, c) => InChain(d, c)
        BY GrownHolds
      <4> QED BY <4>1, <4>2, <4>3
    <3> QED BY <3>1, <3>2, <3>3
  <2> QED BY <2>1 DEF RestUnused, InChain
<1>7. OwnerIs(d)'
  <2>1. ASSUME NEW f \in Files, NEW i \in 1 .. Len(d[f]) PROVE owner'[d[f][i]] = {f}
    <3>1. PlaceOf(ch, d, g, m, s, n, f, i)
      BY GrownPlace
    <3>2. CASE i \in 1 .. Len(ch[f]) /\ d[f][i] = ch[f][i]
      <4>1. ch[f][i] \in Cluster /\ ch[f][i] \notin s .. e
        BY <3>2, FreeInNoChain
      <4>2. owner[ch[f][i]] = {f}
        BY <3>2 DEF Volume, OwnerIs
      <4> QED BY <1>0, <3>2, <4>1, <4>2
    <3>3. CASE f = g /\ d[f][i] \in s .. (s + n - 1)
      <4>1. d[f][i] \in s .. e /\ d[f][i] \in Cluster
        BY <3>3 DEF FreeSet
      <4> QED BY <1>0, <3>3, <4>1
    <3> QED BY <3>1, <3>2, <3>3 DEF PlaceOf
  <2> QED BY <2>1 DEF OwnerIs
<1> QED BY <1>1, <1>2, <1>4, <1>5, <1>6, <1>7 DEF Volume

\* The end of the chain a segment is linked to.
LEMMA EndOfChain ==
  ASSUME NEW ch, Pictured(ch), IInv, pc = "writeNew", NEW g \in Files, g = file,
         NEW m, m = Len(ch[g])
  PROVE  /\ m \in Nat /\ m = Len(wrote[g])
         /\ last[g] = IF m = 0 THEN 0 ELSE ch[g][m]
         /\ m # 0 => last[g] # 0
         /\ last[g] \in FatEntry /\ last[g] \notin FreeSet
<1>1. ch[g] \in Seq(Usable) /\ m \in Nat
  BY LenProperties DEF Pictured, Separate
<1>2. m = Len(wrote[g])
  BY DEF Pictured, AtEnd
<1>3. wrote[g] \in Seq(Cluster)
  BY InvParts DEF WroteType
<1>4. CASE m = 0
  <2>1. wrote[g] = <<>>
    BY <1>2, <1>3, <1>4, EmptySeq
  <2>2. last[g] = 0
    BY <2>1 DEF Pictured, LastIs
  <2> QED BY <1>1, <1>2, <1>4, <2>2, Marks DEF FatEntry, FreeSet
<1>5. CASE m # 0
  <2>1. m \in 1 .. m /\ wrote[g] # <<>>
    <3>1. Len(<<>>) = 0
      OBVIOUS
    <3> QED BY <1>1, <1>2, <1>5, <3>1
  <2>2. last[g] = wrote[g][m] /\ wrote[g][m] = ch[g][m]
    BY <1>2, <2>1 DEF Pictured, LastIs, WroteIs
  <2>3. \A f \in Files : Gone(f) = 0
    BY NoneGone
  <2>4. ch[g][m] \in Cluster /\ ch[g][m] \notin FreeSet
    <3>1. Volume(ch) /\ m \in 1 .. Len(ch[g])
      BY <2>1, PicturedParts
    <3> QED BY <2>3, <3>1, FreeInNoChain
  <2> QED BY <1>1, <1>2, <1>5, <2>2, <2>4, Marks DEF FatEntry
<1> QED BY <1>4, <1>5

\* A segment of free clusters that is used leaves as many fewer.
LEMMA UsedSpace ==
  ASSUME NEW s \in Nat, NEW e \in Nat, s <= e, s .. e \subseteq FreeSet, FreeSet' = FreeSet \ (s .. e)
  PROVE  /\ Cardinality(FreeSet) \in Nat
         /\ Cardinality(FreeSet') = Cardinality(FreeSet) - (e - s + 1)
         /\ e - s + 1 <= Cardinality(FreeSet)
<1>1. IsFiniteSet(FreeSet) /\ Cardinality(FreeSet) \in Nat
  <2>1. FreeSet \in SUBSET Cluster
    BY DEF FreeSet
  <2> QED BY <2>1, ClustersFinite
<1>2. IsFiniteSet(s .. e) /\ Cardinality(s .. e) = e - s + 1
  BY FS_Interval
<1>3. FreeSet \cap (s .. e) = s .. e
  OBVIOUS
<1>4. Cardinality(FreeSet') = Cardinality(FreeSet) - Cardinality(s .. e)
  <2>1. PICK D : D = s .. e
    OBVIOUS
  <2>2. /\ IsFiniteSet(FreeSet \ D)
        /\ Cardinality(FreeSet \ D) = Cardinality(FreeSet) - Cardinality(FreeSet \cap D)
    BY <1>1, FS_Difference
  <2>3. FreeSet' = FreeSet \ D /\ FreeSet \cap D = D
    BY <1>3, <2>1
  <2> QED BY <2>1, <2>2, <2>3
<1>5. Cardinality(s .. e) <= Cardinality(FreeSet)
  <2>1. s .. e \in SUBSET FreeSet
    OBVIOUS
  <2> QED BY <1>1, <2>1, FS_Subset
<1> QED BY <1>1, <1>2, <1>4, <1>5

\* The first run of the list is the segment, and the others stay clear of it.
LEMMA RunsBehind ==
  ASSUME IInv, ListFree, pc = "writeNew", lst # <<>>, lst' = Tail(lst), cache' = cache,
         NEW S, S = RunSet(Head(lst)), FreeSet' = FreeSet \ S
  PROVE  S \subseteq FreeSet \ cache /\ ListFree'
<1>1. /\ Head(lst) = lst[1] /\ 1 \in 1 .. Len(lst) /\ Len(lst) \in Nat
      /\ Len(lst') = Len(lst) - 1
      /\ \A i \in 1 .. Len(lst') : i + 1 \in 1 .. Len(lst) /\ lst'[i] = lst[i + 1]
  BY HeadFacts
<1>2. /\ \A i \in 1 .. Len(lst) : RunSet(lst[i]) \subseteq FreeSet \ cache
      /\ \A i, j \in 1 .. Len(lst) : i # j => RunSet(lst[i]) \cap RunSet(lst[j]) = {}
  BY DEF ListFree
<1>3. S \subseteq FreeSet \ cache
  BY <1>1, <1>2
<1>4. \A i \in 1 .. Len(lst') : RunSet(lst'[i]) \subseteq FreeSet' \ cache'
  <2>1. ASSUME NEW i \in 1 .. Len(lst') PROVE RunSet(lst'[i]) \subseteq FreeSet' \ cache'
    <3>1. i + 1 \in 1 .. Len(lst) /\ lst'[i] = lst[i + 1] /\ i + 1 # 1
      BY <1>1
    <3>2. RunSet(lst'[i]) \cap S = {} /\ RunSet(lst'[i]) \subseteq FreeSet \ cache
      BY <1>1, <1>2, <3>1
    <3> QED BY <3>2
  <2> QED BY <2>1
<1>5. \A i, j \in 1 .. Len(lst') : i # j => RunSet(lst'[i]) \cap RunSet(lst'[j]) = {}
  <2>1. ASSUME NEW i \in 1 .. Len(lst'), NEW j \in 1 .. Len(lst'), i # j
        PROVE  RunSet(lst'[i]) \cap RunSet(lst'[j]) = {}
    <3>1. /\ i + 1 \in 1 .. Len(lst) /\ lst'[i] = lst[i + 1]
          /\ j + 1 \in 1 .. Len(lst) /\ lst'[j] = lst[j + 1] /\ i + 1 # j + 1
      BY <1>1, <2>1
    <3> QED BY <1>2, <3>1
  <2> QED BY <2>1
<1> QED BY <1>3, <1>4, <1>5 DEF ListFree, RunSet

\* A run of free clusters is written and linked at the end of the chain.
LEMMA WriteNewSound ==
  ASSUME OInv, Orderly, WriteNew
  PROVE  Sound'
<1>0. PICK s0, e0 : s0 = NewRun.base /\ e0 = NewRun.base + NewRun.adj
  OBVIOUS
<1>1. /\ pc = "writeNew" /\ lst # <<>> /\ PutData(s0, e0 - s0 + 1)
      /\ fat' = SetEntries(fat, last[file], s0, e0, e0)
      /\ first' = IF last[file] = 0 THEN [first EXCEPT ![file] = s0] ELSE first
      /\ size' = [size EXCEPT ![file] = @ + (e0 - s0 + 1)]
      /\ last' = [last EXCEPT ![file] = e0] /\ from' = [from EXCEPT ![file] = e0 + 1]
      /\ SubFromFreeClusters(e0 - s0 + 1) /\ lst' = Tail(lst) /\ UNCHANGED <<pc, file>>
  BY <1>0 DEF WriteNew
<1>2. IInv /\ ListFree /\ CacheFree /\ CountFits /\ ChainType /\ CursorType /\ WroteType /\ HistType
      /\ FreeType /\ file \in Files
  BY <1>1, SoundParts, InvParts
<1>3. /\ s0 \in Usable /\ e0 \in Usable /\ s0 <= e0 /\ s0 .. e0 \subseteq Usable
      /\ s0 \in Nat /\ e0 \in Nat /\ e0 - s0 + 1 = Head(lst).adj + 1
  BY <1>0, <1>1, <1>2, NewRunFacts
<1>s. PICK s \in Nat : s = s0
  BY <1>3
<1>e. PICK e \in Nat : e = e0
  BY <1>3
<1>n. PICK n \in Nat : n = e0 - s0 + 1 /\ n # 0 /\ e = s + n - 1 /\ s <= e /\ n = e - s + 1
  BY <1>3, <1>s, <1>e
<1>g. PICK g \in Files : g = file
  BY <1>2
<1>4. s .. e \subseteq Usable /\ s .. e \subseteq Cluster /\ RunSet(Head(lst)) = s .. e
  <2>1. s .. e = s0 .. e0
    BY <1>s, <1>e
  <2>2. Head(lst).base = s0 /\ Head(lst) \in RunT
    BY <1>0, <1>1, <1>2, HeadFacts DEF NewRun, Run
  <2>3. s0 + Head(lst).adj = e0
    <3>1. Head(lst).adj \in Nat
      BY <2>2 DEF RunT
    <3> QED BY <1>3, <3>1
  <2>4. RunSet(Head(lst)) = s0 .. e0
    BY <2>2, <2>3 DEF RunSet
  <2> QED BY <1>3, <2>1, <2>4, Marks
<1>5. PICK ch : Pictured(ch)
  BY SoundParts DEF Pictures
<1>6. Volume(ch) /\ WroteIs(ch) /\ LastIs /\ CursorIs(ch)
  BY <1>5, PicturedParts
<1>7. ch \in [Files -> Seq(Usable)]
  BY <1>6 DEF Volume, Separate
<1>m. PICK m \in Nat : /\ m = Len(ch[g]) /\ m = Len(wrote[g])
                       /\ last[g] = IF m = 0 THEN 0 ELSE ch[g][m]
                       /\ m # 0 => last[g] # 0
                       /\ last[g] \in FatEntry /\ last[g] \notin FreeSet
  BY <1>1, <1>2, <1>5, <1>g, EndOfChain
<1>8. s .. e \subseteq FreeSet \ cache
  <2>1. 1 \in 1 .. Len(lst) /\ Head(lst) = lst[1]
    BY <1>1, <1>2, HeadFacts
  <2> QED BY <1>1, <1>2, <1>4, <2>1 DEF ListFree
<1>9. LinkedTo(last[g], s, e)
  <2>1. last[g] \notin s .. e
    BY <1>8, <1>m
  <2>2. fat' = SetEntries(fat, last[g], s, e, e)
    BY <1>1, <1>s, <1>e, <1>g
  <2>3. PICK l \in FatEntry : l = last[g]
    BY <1>m
  <2>4. l \notin s .. e /\ fat' = SetEntries(fat, l, s, e, e)
    BY <2>1, <2>2, <2>3
  <2>5. LinkedTo(l, s, e)
    BY <1>2, <1>4, <1>n, <2>3, <2>4, LinkedFat
  <2> QED BY <2>3, <2>5
<1>10. Linked(ch, g, m, s, e)
  BY <1>9, <1>m, Marks DEF Linked, LinkedTo
<1>11. PICK d : Grown(ch, d, g, m, s, n)
  <2>1. s .. (s + n - 1) \subseteq Usable
    BY <1>4, <1>n
  <2> QED BY <1>7, <1>m, <2>1, GrownExists
<1>12. Volume(d)'
  <2>1. \A f \in Files : Gone(f) = 0 /\ Gone(f)' = 0
    BY <1>1, NoneGone
  <2>2. first' = (IF m = 0 THEN [first EXCEPT ![g] = s] ELSE first)
    BY <1>1, <1>g, <1>m, <1>s
  <2>3. size' = [size EXCEPT ![g] = @ + n]
    BY <1>1, <1>g, <1>n
  <2>4. \A c \in Cluster : owner'[c] = IF c \in s .. e THEN {g} ELSE owner[c]
    <3>1. \A c \in Cluster : owner'[c] = IF c \in s .. (s + n - 1) THEN {g} ELSE owner[c]
      <4>1. PutData(s, n)
        BY <1>1, <1>s, <1>n
      <4> QED BY <1>2, <1>g, <4>1, OwnedOn
    <3> QED BY <1>n, <3>1
  <2>5. s .. e \subseteq FreeSet
    BY <1>8
  <2>6. Stored(g, m, s, n, e)
    BY <2>2, <2>3, <2>4 DEF Stored
  <2>7. ChainType /\ n # 0 /\ e = s + n - 1
    BY <1>2, <1>n
  <2> QED BY <1>6, <1>10, <1>11, <2>1, <2>5, <2>6, <2>7, GrownVolume
<1>13. /\ Len(d[g]) = m + n /\ d[g] \in Seq(Usable) /\ OnRun(d[g], m, s, n)
       /\ \A f \in Files \ {g} : d[f] = ch[f]
       /\ \A i \in 1 .. m : d[g][i] = ch[g][i]
  <2>1. ASSUME NEW i \in 0 .. (n - 1) PROVE d[g][m + 1 + i] = s + i
    <3>1. m + 1 + i \in (m + 1) .. (m + n) /\ s + ((m + 1 + i) - m) - 1 = s + i
      OBVIOUS
    <3> QED BY <1>11, <3>1 DEF Grown, Longer
  <2> QED BY <1>11, <2>1 DEF Grown, Longer, OnRun
<1>14. /\ Len(wrote'[g]) = m + n /\ Begins(wrote'[g], d[g]) /\ EndsAt(wrote'[g], last'[g])
       /\ \A f \in Files \ {g} : wrote'[f] = wrote[f]
  <2>1. PICK p \in Seq(Usable) : p = d[g]
    BY <1>13
  <2>2. Begins(wrote[g], p)
    BY <1>6, <1>13, <1>m, <2>1 DEF WroteIs, Begins
  <2>3. EndsAt(wrote[g], last[g])
    BY <1>6 DEF LastIs, EndsAt
  <2>4. m + n <= Len(p) /\ OnRun(p, m, s, n)
    BY <1>13, <2>1
  <2>5. g = file /\ PutData(s, n) /\ last'[g] = (IF n = 0 THEN last[g] ELSE s + n - 1)
    BY <1>1, <1>2, <1>s, <1>e, <1>n, <1>g DEF CursorType
  <2>6. WroteType /\ m = Len(wrote[g])
    BY <1>2, <1>m
  <2>7. Len(wrote'[g]) = m + n
    BY <2>1, <2>2, <2>3, <2>4, <2>5, <2>6, WroteOn
  <2>8. Begins(wrote'[g], p)
    BY <2>1, <2>2, <2>3, <2>4, <2>5, <2>6, WroteOn
  <2>9. EndsAt(wrote'[g], last'[g])
    BY <2>1, <2>2, <2>3, <2>4, <2>5, <2>6, WroteOn
  <2>10. \A f \in Files \ {g} : wrote'[f] = wrote[f]
    BY <2>1, <2>2, <2>3, <2>4, <2>5, <2>6, WroteOn
  <2> QED BY <2>1, <2>7, <2>8, <2>9, <2>10
<1>15. WroteIs(d)' /\ LastIs' /\ CursorIs(d)'
  <2>1. AtCursor(d, g)'
    <3>1. Writing(g)'
      BY <1>1, <1>g DEF Writing
    <3> QED BY <1>13, <1>14, <3>1 DEF AtCursor, Begins, EndsAt
  <2>2. \A f \in Files \ {g} : last'[f] = last[f] /\ from'[f] = from[f] /\ ~Writing(f)
    BY <1>1, <1>2, <1>g DEF CursorType, Writing
  <2> QED BY <1>6, <1>13, <1>14, <2>1, <2>2, OtherCursors
<1>16. Pictured(d)'
  <2>1. FreeingAt(d)' /\ ListIs(d)' /\ DoneIs'
    BY <1>1 DEF FreeingAt, ListIs, DoneIs
  <2>2. AtEnd(d)'
    BY <1>1, <1>13, <1>14, <1>g DEF AtEnd
  <2> QED BY <1>12, <1>15, <2>1, <2>2, PicturedParts
<1>17. FreeSet' = FreeSet \ (s .. e)
  <2>1. \A c \in s .. e : fat'[c] # Free
    BY <1>9, Marks DEF LinkedTo
  <2>2. ASSUME NEW c \in Cluster, c \notin s .. e PROVE fat'[c] = Free <=> fat[c] = Free
    <3>1. CASE c = last[g]
      <4>1. last[g] # 0 /\ s # Free
        <5>1. last[g] # 0
          BY <3>1, Marks
        <5>2. s \in s .. e
          BY <1>n
        <5>3. s \in Cluster
          BY <1>4, <5>2
        <5> QED BY <5>1, <5>3, Marks
      <4>2. fat[c] # Free /\ fat'[c] = s
        BY <1>9, <1>m, <3>1, <4>1 DEF FreeSet, LinkedTo
      <4> QED BY <4>1, <4>2
    <3>2. CASE c # last[g]
      BY <1>9, <2>2, <3>2 DEF LinkedTo
    <3> QED BY <3>1, <3>2
  <2> QED BY <1>8, <2>1, <2>2 DEF FreeSet
<1>18. UNCHANGED <<flag, cache>> /\ count' = IF flag = "UNKNOWN" THEN count ELSE Decreased(n)
  BY <1>1, <1>n DEF SubFromFreeClusters
<1>19. ListFree'
  <2>1. FreeSet' = FreeSet \ RunSet(Head(lst))
    BY <1>4, <1>17
  <2> QED BY <1>1, <1>2, <1>18, <2>1, RunsBehind
<1>20. CacheFree'
  BY <1>2, <1>8, <1>17, <1>18 DEF CacheFree
<1>21. CountFits'
  <2>1. /\ Cardinality(FreeSet) \in Nat
        /\ Cardinality(FreeSet') = Cardinality(FreeSet) - (e - s + 1)
        /\ e - s + 1 <= Cardinality(FreeSet)
    <3>1. s .. e \subseteq FreeSet
      BY <1>8
    <3> QED BY <1>17, <1>n, <3>1, UsedSpace
  <2>2. count \in Nat /\ (flag # "UNKNOWN" => count + 0 <= Cardinality(FreeSet))
    BY <1>1, <1>2 DEF CountFits, FreeType
  <2>3. flag # "UNKNOWN" => count' <= Cardinality(FreeSet') /\ count' \in Nat
    <3>1. PICK k, k1 : k = Cardinality(FreeSet) /\ k1 = Cardinality(FreeSet')
      OBVIOUS
    <3>2. k \in Nat /\ k1 = k - n /\ n <= k
      BY <1>n, <2>1, <3>1
    <3>3. flag # "UNKNOWN" => count <= k
      BY <2>2, <3>1
    <3> QED BY <1>18, <2>2, <3>1, <3>2, <3>3 DEF Decreased
  <2> QED BY <1>1, <1>18, <2>3 DEF CountFits
<1> QED BY <1>16, <1>19, <1>20, <1>21, SoundParts DEF Pictures

\* The data is written to clusters that stay free.
LEMMA LinkFailsSound ==
  ASSUME OInv, Orderly, LinkFails
  PROVE  Sound'
<1>1. /\ pc = "writeNew" /\ lst # <<>> /\ PutNew /\ Fail("FAILED")
      /\ UNCHANGED <<chainVars, freeVars>>
  BY DEF LinkFails
<1>2. RunSet(NewRun) \subseteq FreeSet
  <2>1. IInv /\ ListFree /\ file \in Files
    BY <1>1, SoundParts, InvParts
  <2>2. /\ NewRun.base = Head(lst).base /\ NewRun.base \in Nat
        /\ NewRun.adj \in Int /\ NewRun.adj <= Head(lst).adj /\ Head(lst).adj \in Nat
    <3>1. Head(lst) \in RunT /\ todo \in Nat
      BY <1>1, <2>1, HeadFacts, InvParts DEF CallType
    <3>2. Head(lst).base \in Nat /\ Head(lst).adj \in Nat
      BY <3>1, Marks DEF RunT
    <3> QED BY <3>1, <3>2 DEF NewRun, Run
  <2>3. RunSet(NewRun) \subseteq RunSet(Head(lst))
    BY <2>2 DEF RunSet
  <2>4. 1 \in 1 .. Len(lst) /\ Head(lst) = lst[1]
    BY <1>1, <2>1, HeadFacts
  <2> QED BY <1>1, <2>1, <2>3, <2>4 DEF ListFree
<1>3. \A c \in Cluster : c \notin FreeSet => owner'[c] = owner[c]
  BY <1>1, <1>2 DEF PutNew
<1> QED BY <1>1, <1>3, FailPictured

-----------------------------------------------------------------------------
(* The specification                                                       *)

\* A history that was not orderly does not become so again.
LEMMA OrderlyBefore ==
  ASSUME IInv, [Next]_vars, Orderly'
  PROVE  Orderly
<1>1. straddled \in BOOLEAN /\ torn \in BOOLEAN
  BY InvParts DEF HistType
<1>2. CASE UNCHANGED vars
  BY <1>2 DEF vars, histVars, Orderly
<1>3. CASE Begin
  BY <1>3 DEF Begin, DeleteBegin, CloseFile, StoreBegin, UpdateFreeClusters, histVars, Orderly
<1>4. CASE Continue
  <2>1. CASE Mount \/ TakeNothingLeft \/ HandRun \/ HandReturn
    BY <2>1 DEF Mount, TakeNothingLeft, HandRun, HandReturn, histVars, Orderly
  <2>2. CASE TakeRescan
    <3>1. straddled' = (straddled \/ \E c \in Handed : c >= ScanStart) /\ torn' = torn
      BY <2>2 DEF TakeRescan
    <3> QED BY <1>1, <3>1 DEF Orderly
  <2>3. CASE WalkNext \/ WalkEnd \/ WalkFail \/ WriteOld \/ WriteOldMore \/ WriteOldDone \/ PutFail
    BY <2>3 DEF WalkNext, WalkEnd, WalkFail, WriteOld, WriteOldMore, WriteOldDone, PutFail,
                histVars, Orderly
  <2>4. CASE WriteNew \/ LinkFails \/ LinkTorn \/ WriteNewMore \/ WriteNewDone
    BY <2>4 DEF WriteNew, LinkFails, LinkTorn, WriteNewMore, WriteNewDone, histVars, Orderly
  <2>5. CASE FreeNext \/ FreeEnd \/ FreeFail
    BY <2>5 DEF FreeNext, FreeEnd, FreeFail, histVars, Orderly
  <2> QED BY <1>4, <2>1, <2>2, <2>3, <2>4, <2>5 DEF Continue
<1> QED BY <1>2, <1>3, <1>4 DEF Next

\* Every step keeps the pictures and the counts.
LEMMA NextSound ==
  ASSUME OInv, Orderly, Orderly', [Next]_vars
  PROVE  Sound'
<1>1. ASSUME NEW f \in Files, DeleteBegin(f) \/ CloseFile(f) \/ \E n \in 1 .. MaxWrite : StoreBegin(f, n)
      PROVE  Sound'
  BY <1>1, DeleteBeginSound, CloseFileSound, StoreBeginSound
<1>2. CASE Begin
  BY <1>1, <1>2, UpdateFreeClustersSound DEF Begin
<1>3. CASE Continue
  <2>1. CASE Mount \/ TakeNothingLeft \/ TakeRescan \/ HandRun \/ HandReturn
    BY <2>1, MountSound, TakeNothingLeftSound, TakeRescanSound, HandRunSound, HandReturnSound
  <2>2. CASE WalkNext \/ WalkEnd \/ WalkFail \/ WriteOld \/ WriteOldMore \/ WriteOldDone \/ PutFail
    BY <2>2, WalkNextSound, WalkEndSound, WalkFailSound, WriteOldSound, WriteOldMoreSound,
       WriteOldDoneSound, PutFailSound
  <2>3. CASE WriteNew \/ LinkFails \/ WriteNewMore \/ WriteNewDone
    BY <2>3, WriteNewSound, LinkFailsSound, WriteNewMoreSound, WriteNewDoneSound
  <2>4. CASE FreeNext \/ FreeEnd
    BY <2>4, FreeNextSound, FreeEndSound
  <2>5. CASE LinkTorn \/ FreeFail
    BY <2>5 DEF LinkTorn, FreeFail, Orderly
  <2> QED BY <1>3, <2>1, <2>2, <2>3, <2>4, <2>5 DEF Continue
<1>4. CASE UNCHANGED vars
  <2>1. UNCHANGED <<chainVars, freeVars, curVars, callVars, histVars, pc, res, faults>>
    BY <1>4 DEF vars
  <2>2. PICK ch : Pictured(ch)
    BY SoundParts DEF Pictures
  <2>3. Volume(ch)'
    BY <2>1, <2>2, SameVolume, PicturedParts DEF Gone, callVars, histVars
  <2>4. WroteIs(ch)' /\ LastIs' /\ CursorIs(ch)'
    BY <2>1, <2>2, SameCursorPictures DEF Pictured, Writing, callVars
  <2>5. FreeingAt(ch)' /\ DoneIs' /\ AtEnd(ch)'
    BY <2>1, <2>2 DEF Pictured, FreeingAt, DoneIs, AtEnd, callVars, curVars
  <2>6. ListIs(ch)'
    BY <2>1, <2>2 DEF Pictured, ListIs, Along, callVars, curVars
  <2>7. ListFree' /\ CacheFree' /\ CountFits'
    BY <2>1, SoundParts DEF ListFree, CacheFree, CountFits, FreeSet, RunSet, callVars, chainVars, freeVars
  <2> QED BY <2>3, <2>4, <2>5, <2>6, <2>7, PicturedParts, SoundParts DEF Pictures
<1> QED BY <1>2, <1>3, <1>4 DEF Next

LEMMA NextOInv == OInv /\ [Next]_vars => OInv'
<1> SUFFICES ASSUME OInv, [Next]_vars PROVE OInv'
  OBVIOUS
<1>1. IInv /\ IInv'
  BY NextIInv DEF OInv
<1>2. ASSUME Orderly' PROVE Sound'
  <2>1. Orderly
    BY <1>1, <1>2, OrderlyBefore
  <2> QED BY <1>2, <2>1, NextSound
<1> QED BY <1>1, <1>2 DEF OInv

\* A volume in good order has the chains it was filled with.
LEMMA InitOInv == Init => OInv
<1> SUFFICES ASSUME Init PROVE OInv
  OBVIOUS
<1>1. IInv
  BY InitIInv
<1>2. PICK ch \in Preload :
       LET links == UNION {Links(ch, f) : f \in Files}
           at(c) == IF \E l \in links : l[1] = c
                      THEN (CHOOSE l \in links : l[1] = c)[2]
                      ELSE IF c \in BadClusters THEN BadMark ELSE Free
       IN /\ fat = [c \in FatEntry |-> IF c = 0 THEN EndMark ELSE at(c)]
          /\ first = [f \in Files |-> IF ch[f] = <<>> THEN 0 ELSE ch[f][1]]
          /\ size = [f \in Files |-> Len(ch[f])]
          /\ owner = [c \in Cluster |-> {f \in Files : \E i \in DOMAIN ch[f] : ch[f][i] = c}]
  BY DEF Init
<1> DEFINE links == UNION {Links(ch, f) : f \in Files}
           at(c) == IF \E l \in links : l[1] = c
                      THEN (CHOOSE l \in links : l[1] = c)[2]
                      ELSE IF c \in BadClusters THEN BadMark ELSE Free
           d == [f \in Files |-> ch[f]]
<1>3. \A f \in Files : ch[f] \in Seq(Usable)
  BY ConstAssumption DEF ValidChains, Usable
<1>4. ASSUME NEW f \in Files
      PROVE  /\ DOMAIN ch[f] = 1 .. Len(ch[f]) /\ Len(ch[f]) \in Nat
             /\ \A i \in 1 .. Len(ch[f]) : ch[f][i] \in Usable /\ ch[f][i] \in Cluster
  BY <1>3, LenProperties, ElementOfSeq, Marks
<1>5. \A f, g \in Files : \A i \in 1 .. Len(ch[f]), j \in 1 .. Len(ch[g]) :
        ch[f][i] = ch[g][j] => f = g /\ i = j
  <2>1. ValidChains(ch)
    BY ConstAssumption
  <2> QED BY <1>4, <2>1 DEF ValidChains
<1>6. /\ first = [f \in Files |-> IF ch[f] = <<>> THEN 0 ELSE ch[f][1]]
      /\ size = [f \in Files |-> Len(ch[f])]
      /\ owner = [c \in Cluster |-> {f \in Files : \E i \in DOMAIN ch[f] : ch[f][i] = c}]
      /\ fat = [c \in FatEntry |-> IF c = 0 THEN EndMark ELSE at(c)]
  BY <1>2 DEF links
<1>7. ASSUME NEW l \in links
      PROVE  \E f \in Files : \E i \in 1 .. Len(ch[f]) :
               l[1] = ch[f][i] /\ l[2] = IF i = Len(ch[f]) THEN EndMark ELSE ch[f][i + 1]
  <2>1. PICK f \in Files : l \in Links(ch, f)
    OBVIOUS
  <2> HIDE DEF links
  <2>2. PICK i \in DOMAIN ch[f] : l = <<ch[f][i], IF i = Len(ch[f]) THEN EndMark ELSE ch[f][i + 1]>>
    BY <2>1 DEF Links
  <2>3. i \in 1 .. Len(ch[f])
    BY <1>4, <2>2
  <2>4. l[1] = ch[f][i] /\ l[2] = IF i = Len(ch[f]) THEN EndMark ELSE ch[f][i + 1]
    BY <2>2
  <2> QED BY <2>3, <2>4
<1>8. \A f \in Files : \A i \in 1 .. Len(ch[f]) : \E l \in links : l[1] = ch[f][i]
  <2>1. ASSUME NEW f \in Files, NEW i \in 1 .. Len(ch[f]) PROVE \E l \in links : l[1] = ch[f][i]
    <3>1. PICK l : l = <<ch[f][i], IF i = Len(ch[f]) THEN EndMark ELSE ch[f][i + 1]>>
      OBVIOUS
    <3>2. l \in Links(ch, f)
      BY <1>4, <3>1 DEF Links
    <3>3. l[1] = ch[f][i] /\ l \in links
      BY <3>1, <3>2
    <3> QED BY <3>3
  <2> QED BY <2>1
<1> HIDE DEF links
<1>9. d \in [Files -> Seq(Usable)] /\ \A f \in Files : d[f] = ch[f]
  BY <1>3
<1> HIDE DEF d
<1>10. Separate(d)
  BY <1>5, <1>9 DEF Separate
<1>11. \A c \in Cluster : fat[c] = at(c)
  BY <1>6, Marks DEF FatEntry
<1>12. /\ pc = "mount" /\ cache = {} /\ flag = "UNKNOWN" /\ from = [f \in Files |-> 0]
       /\ last = [f \in Files |-> 0] /\ wrote = [f \in Files |-> <<>>]
  BY DEF Init
<1>13. LinksAre(d)
  <2>1. ASSUME NEW f \in Files, NEW i \in 1 .. Len(ch[f])
        PROVE  fat[ch[f][i]] = IF i = Len(ch[f]) THEN EndMark ELSE ch[f][i + 1]
    <3>1. PICK c \in Cluster : c = ch[f][i]
      BY <1>4
    <3> DEFINE k == CHOOSE l \in links : l[1] = c
    <3>2. k \in links /\ k[1] = c
      BY <1>8, <3>1
    <3>3. fat[c] = k[2]
      BY <1>8, <1>11, <3>1
    <3> HIDE DEF k
    <3>4. PICK g \in Files : \E j \in 1 .. Len(ch[g]) :
            k[1] = ch[g][j] /\ k[2] = IF j = Len(ch[g]) THEN EndMark ELSE ch[g][j + 1]
      BY <1>7, <3>2
    <3>5. PICK j \in 1 .. Len(ch[g]) :
            k[1] = ch[g][j] /\ k[2] = IF j = Len(ch[g]) THEN EndMark ELSE ch[g][j + 1]
      BY <3>4
    <3>6. g = f /\ j = i
      <4>1. ch[f][i] = ch[g][j] /\ j \in 1 .. Len(ch[g])
        BY <3>1, <3>2, <3>5
      <4> QED BY <1>5, <4>1
    <3> QED BY <3>1, <3>3, <3>5, <3>6
  <2>2. \A f \in Files : Gone(f) = 0
    BY <1>12 DEF Gone
  <2>3. \A f \in Files : \A i \in 1 .. Len(ch[f]) : ~(i <= 0)
    OBVIOUS
  <2> QED BY <1>9, <2>1, <2>2, <2>3 DEF LinksAre
<1>14. RestUnused(d)
  <2>1. ASSUME NEW c \in Cluster, ~InChain(d, c) PROVE fat[c] \in {Free, BadMark}
    <3>1. ~ \E l \in links : l[1] = c
      BY <1>7, <1>9, <2>1 DEF InChain
    <3> QED BY <1>11, <3>1
  <2> QED BY <2>1 DEF RestUnused
<1>15. FirstIs(d) /\ SizeIs(d)
  BY <1>6, <1>9 DEF FirstIs, SizeIs
<1>16. OwnerIs(d)
  <2>1. ASSUME NEW f \in Files, NEW i \in 1 .. Len(ch[f]) PROVE owner[ch[f][i]] = {f}
    <3>1. PICK c \in Cluster : c = ch[f][i]
      BY <1>4
    <3>2. owner[c] = {g \in Files : \E j \in DOMAIN ch[g] : ch[g][j] = c}
      BY <1>6
    <3>3. \A g \in Files : (\E j \in DOMAIN ch[g] : ch[g][j] = c) <=> g = f
      BY <1>4, <1>5, <3>1
    <3> QED BY <3>1, <3>2, <3>3
  <2> QED BY <1>9, <2>1 DEF OwnerIs
<1>17. FreeingAt(d) /\ ListIs(d) /\ DoneIs /\ AtEnd(d)
  BY <1>12 DEF FreeingAt, ListIs, DoneIs, AtEnd
<1>18. WroteIs(d) /\ LastIs /\ CursorIs(d)
  <2>1. ASSUME NEW f \in Files
        PROVE  wrote[f] = <<>> /\ Len(wrote[f]) = 0 /\ last[f] = 0 /\ from[f] = 0 /\ Len(d[f]) \in Nat
    BY <1>4, <1>9, <1>12
  <2> QED BY <2>1 DEF WroteIs, LastIs, CursorIs
<1>19. ListFree /\ CacheFree /\ CountFits
  BY <1>12 DEF ListFree, CacheFree, CountFits
<1> QED BY <1>1, <1>10, <1>13, <1>14, <1>15, <1>16, <1>17, <1>18, <1>19
        DEF OInv, Sound, Pictures, Pictured

\* The chains of an orderly history are sequences of which the FAT, the entries,
\* the cursors and the lists are pictures.
THEOREM ChainsPictured == Spec => []OInv
<1> QED BY InitOInv, NextOInv, PTL DEF Spec

\* The clusters of the lists and of the cache.
LEMMA HandedIs ==
  ASSUME ListType
  PROVE  DOMAIN lst = 1 .. Len(lst) /\ Handed = UNION {RunSet(lst[i]) : i \in 1 .. Len(lst)}
<1>1. DOMAIN lst = 1 .. Len(lst)
  BY LenProperties DEF ListType
<1> QED BY <1>1 DEF Handed

\* No cluster that a file uses is offered by the free list or held by a request
\* to be written, and none is held twice, for any size of volume and of list.
THEOREM CacheAlwaysFree == Spec => []CacheIsFree
<1>1. OInv => CacheIsFree
  <2> SUFFICES ASSUME OInv, Orderly
               PROVE  /\ cache \subseteq FreeSet
                      /\ pc \in {"take", "hand", "writeNew"} =>
                           /\ Handed \subseteq FreeSet /\ Handed \cap cache = {}
                           /\ \A i, j \in DOMAIN lst : i # j => RunSet(lst[i]) \cap RunSet(lst[j]) = {}
    BY DEF CacheIsFree
  <2>1. ListFree /\ CacheFree /\ ListType
    BY SoundParts, InvParts
  <2>2. DOMAIN lst = 1 .. Len(lst) /\ Handed = UNION {RunSet(lst[i]) : i \in 1 .. Len(lst)}
    BY <2>1, HandedIs
  <2> QED BY <2>1, <2>2 DEF ListFree, CacheFree
<1> QED BY <1>1, ChainsPictured, PTL

\* The counter of free clusters promises no more than there are.
THEOREM CountAlwaysSafe == Spec => []CountIsSafe
<1>1. OInv => CountIsSafe
  <2> SUFFICES ASSUME OInv, Orderly, flag # "UNKNOWN" PROVE count <= Cardinality(FreeSet)
    BY DEF CountIsSafe
  <2>1. CountFits /\ count \in Nat /\ freed \in Nat
    BY SoundParts, InvParts DEF FreeType, CallType
  <2>2. Cardinality(FreeSet) \in Nat
    BY ClustersFinite DEF FreeSet
  <2>3. count <= count + (IF pc = "free" THEN freed ELSE 0)
    BY <2>1
  <2> QED BY <2>1, <2>2, <2>3 DEF CountFits
<1> QED BY <1>1, ChainsPictured, PTL

\* A cluster that the FAT leads on from is in a chain, and leads to the next.
LEMMA LeadsOn ==
  ASSUME NEW ch, Volume(ch), NEW c \in Cluster, fat[c] \in Cluster
  PROVE  \E f \in Files : \E i \in 1 .. Len(ch[f]) :
           /\ c = ch[f][i] /\ i + 1 \in 1 .. Len(ch[f]) /\ fat[c] = ch[f][i + 1] /\ ~(i <= Gone(f))
<1>1. fat[c] # Free /\ fat[c] # BadMark /\ fat[c] # EndMark
  BY Marks DEF FatEntry
<1>2. InChain(ch, c)
  BY <1>1 DEF Volume, RestUnused
<1>3. PICK f \in Files : \E i \in 1 .. Len(ch[f]) : c = ch[f][i]
  BY <1>2 DEF InChain
<1>4. PICK i \in 1 .. Len(ch[f]) : c = ch[f][i]
  BY <1>3
<1>5. fat[c] = IF i <= Gone(f) THEN Free ELSE IF i = Len(ch[f]) THEN EndMark ELSE ch[f][i + 1]
  BY <1>4 DEF Volume, LinksAre
<1>6. ~(i <= Gone(f)) /\ i # Len(ch[f]) /\ fat[c] = ch[f][i + 1]
  BY <1>1, <1>5
<1>7. Len(ch[f]) \in Nat
  BY LenProperties DEF Volume, Separate
<1>8. i + 1 \in 1 .. Len(ch[f])
  BY <1>6, <1>7
<1> QED BY <1>4, <1>6, <1>8

\* The first cluster of a file is that of its chain.
LEMMA FirstPlace ==
  ASSUME NEW ch, Volume(ch), NEW f \in Files, first[f] # 0
  PROVE  1 \in 1 .. Len(ch[f]) /\ first[f] = ch[f][1]
<1>1. ch[f] # <<>> /\ first[f] = ch[f][1]
  BY DEF Volume, FirstIs
<1>2. ch[f] \in Seq(Usable) /\ Len(ch[f]) \in Nat
  BY LenProperties DEF Volume, Separate
<1>3. Len(ch[f]) # 0
  BY <1>1, <1>2, EmptySeq
<1> QED BY <1>1, <1>2, <1>3

\* Chains never meet: no cluster is led to from two others, none is the first of
\* two files, and none that is a file's first is led to.
THEOREM ChainsNeverMeet == Spec => []NoCrossLink
<1>1. OInv => NoCrossLink
  <2> SUFFICES ASSUME OInv, Orderly
               PROVE  /\ \A c, e \in Cluster : fat[c] \in Cluster /\ fat[c] = fat[e] => c = e
                      /\ \A f, g \in Files : first[f] # 0 /\ first[f] = first[g] => f = g
                      /\ \A f \in Files, c \in Cluster : first[f] # 0 => fat[c] # first[f]
    BY DEF NoCrossLink
  <2>1. PICK ch : Volume(ch)
    BY SoundParts, PicturedParts DEF Pictures
  <2>2. \A f, g \in Files : \A i \in 1 .. Len(ch[f]), j \in 1 .. Len(ch[g]) :
          ch[f][i] = ch[g][j] => f = g /\ i = j
    BY <2>1 DEF Volume, Separate
  <2>3. ASSUME NEW c \in Cluster, NEW e \in Cluster, fat[c] \in Cluster, fat[c] = fat[e]
        PROVE  c = e
    <3>1. PICK f \in Files : \E i \in 1 .. Len(ch[f]) :
            c = ch[f][i] /\ i + 1 \in 1 .. Len(ch[f]) /\ fat[c] = ch[f][i + 1]
      BY <2>1, <2>3, LeadsOn
    <3>2. PICK i \in 1 .. Len(ch[f]) :
            c = ch[f][i] /\ i + 1 \in 1 .. Len(ch[f]) /\ fat[c] = ch[f][i + 1]
      BY <3>1
    <3>3. PICK g \in Files : \E j \in 1 .. Len(ch[g]) :
            e = ch[g][j] /\ j + 1 \in 1 .. Len(ch[g]) /\ fat[e] = ch[g][j + 1]
      BY <2>1, <2>3, LeadsOn
    <3>4. PICK j \in 1 .. Len(ch[g]) :
            e = ch[g][j] /\ j + 1 \in 1 .. Len(ch[g]) /\ fat[e] = ch[g][j + 1]
      BY <3>3
    <3>5. ch[f][i + 1] = ch[g][j + 1]
      BY <2>3, <3>2, <3>4
    <3>6. f = g /\ i + 1 = j + 1
      BY <2>2, <3>2, <3>4, <3>5
    <3>7. i = j
      BY <3>6
    <3> QED BY <3>2, <3>4, <3>6, <3>7
  <2>4. ASSUME NEW f \in Files, NEW g \in Files, first[f] # 0, first[f] = first[g]
        PROVE  f = g
    <3>1. /\ 1 \in 1 .. Len(ch[f]) /\ first[f] = ch[f][1]
          /\ 1 \in 1 .. Len(ch[g]) /\ first[g] = ch[g][1]
      BY <2>1, <2>4, FirstPlace
    <3> QED BY <2>2, <2>4, <3>1
  <2>5. ASSUME NEW f \in Files, NEW c \in Cluster, first[f] # 0, fat[c] = first[f]
        PROVE  FALSE
    <3>1. 1 \in 1 .. Len(ch[f]) /\ first[f] = ch[f][1]
      BY <2>1, <2>5, FirstPlace
    <3>2. fat[c] \in Cluster
      <4>1. ch[f] \in Seq(Usable)
        BY <2>1 DEF Volume, Separate
      <4> QED BY <2>5, <3>1, <4>1, ElementOfSeq, Marks
    <3>3. PICK g \in Files : \E j \in 1 .. Len(ch[g]) :
            c = ch[g][j] /\ j + 1 \in 1 .. Len(ch[g]) /\ fat[c] = ch[g][j + 1]
      BY <2>1, <3>2, LeadsOn
    <3>4. PICK j \in 1 .. Len(ch[g]) : j + 1 \in 1 .. Len(ch[g]) /\ fat[c] = ch[g][j + 1]
      BY <3>3
    <3>5. 1 = j + 1
      BY <2>2, <2>5, <3>1, <3>4
    <3> QED BY <3>5
  <2> QED BY <2>3, <2>4, <2>5
<1> QED BY <1>1, ChainsPictured, PTL

\* No chain leads to a free or a bad cluster, and no file that is not being
\* deleted starts at one.
THEOREM ChainsNeverDangle == Spec => []NoDangling
<1>1. OInv => NoDangling
  <2> SUFFICES ASSUME OInv, Orderly
               PROVE  /\ \A c \in Cluster : fat[c] \in Cluster => fat[fat[c]] \notin {Free, BadMark}
                      /\ \A f \in Files : first[f] # 0 /\ ~(pc = "free" /\ file = f) =>
                                            fat[first[f]] \notin {Free, BadMark}
    BY DEF NoDangling
  <2>1. PICK ch : Volume(ch)
    BY SoundParts, PicturedParts DEF Pictures
  <2>2. ASSUME NEW f \in Files, NEW i \in 1 .. Len(ch[f]), ~(i <= Gone(f))
        PROVE  fat[ch[f][i]] \notin {Free, BadMark}
    <3>1. ch[f] \in Seq(Usable) /\ Len(ch[f]) \in Nat
      BY <2>1, LenProperties DEF Volume, Separate
    <3>2. fat[ch[f][i]] = IF i = Len(ch[f]) THEN EndMark ELSE ch[f][i + 1]
      BY <2>1, <2>2 DEF Volume, LinksAre
    <3>3. i # Len(ch[f]) => ch[f][i + 1] \in Usable
      <4>1. i # Len(ch[f]) => i + 1 \in 1 .. Len(ch[f])
        BY <3>1
      <4> QED BY <3>1, <4>1, ElementOfSeq
    <3> QED BY <3>2, <3>3, Marks DEF FatEntry
  <2>3. Gone(file) \in Nat /\ \A f \in Files : Gone(f) \in Nat
    BY SoundParts, InvParts DEF Gone, CallType
  <2>4. ASSUME NEW c \in Cluster, fat[c] \in Cluster PROVE fat[fat[c]] \notin {Free, BadMark}
    <3>1. PICK f \in Files : \E i \in 1 .. Len(ch[f]) :
            i + 1 \in 1 .. Len(ch[f]) /\ fat[c] = ch[f][i + 1] /\ ~(i <= Gone(f))
      BY <2>1, <2>4, LeadsOn
    <3>2. PICK i \in 1 .. Len(ch[f]) :
            i + 1 \in 1 .. Len(ch[f]) /\ fat[c] = ch[f][i + 1] /\ ~(i <= Gone(f))
      BY <3>1
    <3>3. ~(i + 1 <= Gone(f))
      BY <2>3, <3>2
    <3> QED BY <2>2, <3>2, <3>3
  <2>5. ASSUME NEW f \in Files, first[f] # 0, ~(pc = "free" /\ file = f)
        PROVE  fat[first[f]] \notin {Free, BadMark}
    <3>1. 1 \in 1 .. Len(ch[f]) /\ first[f] = ch[f][1]
      BY <2>1, <2>5, FirstPlace
    <3>2. ~(1 <= Gone(f))
      BY <2>5 DEF Gone
    <3> QED BY <2>2, <3>1, <3>2
  <2> QED BY <2>4, <2>5
<1> QED BY <1>1, ChainsPictured, PTL

-----------------------------------------------------------------------------
(* The chain that is followed from the directory entry                     *)

\* The first n clusters of the chain q.
Upto(q, n) == [i \in 1 .. n |-> q[i]]

LEMMA UptoFacts ==
  ASSUME NEW q \in Seq(Usable), NEW n \in 0 .. Len(q)
  PROVE  /\ Upto(q, n) \in Seq(Usable) /\ Len(Upto(q, n)) = n
         /\ \A i \in 1 .. n : Upto(q, n)[i] = q[i]
<1>1. Len(q) \in Nat /\ n \in Nat
  BY LenProperties
<1>2. Upto(q, n) \in [1 .. n -> Usable]
  <2>1. \A i \in 1 .. n : i \in 1 .. Len(q)
    BY <1>1
  <2>2. \A i \in 1 .. n : q[i] \in Usable
    BY <2>1, ElementOfSeq
  <2> QED BY <2>2 DEF Upto
<1>3. Upto(q, n) \in Seq(Usable)
  BY <1>1, <1>2, SeqDef
<1>4. Len(Upto(q, n)) \in Nat /\ DOMAIN Upto(q, n) = 1 .. Len(Upto(q, n))
  BY <1>3, LenProperties
<1>5. 1 .. Len(Upto(q, n)) = 1 .. n
  BY <1>2, <1>4
<1>6. Len(Upto(q, n)) = n
  BY <1>1, <1>4, <1>5, SameEnd
<1>7. \A i \in 1 .. n : Upto(q, n)[i] = q[i]
  BY DEF Upto
<1> QED BY <1>3, <1>6, <1>7

\* The whole chain is the chain, and one more cluster is the next.
LEMMA UptoAll ==
  ASSUME NEW q \in Seq(Usable)
  PROVE  Upto(q, Len(q)) = q
<1>1. Len(q) \in Nat /\ Len(q) \in 0 .. Len(q)
  BY LenProperties
<1>2. Upto(q, Len(q)) \in Seq(Usable) /\ Len(Upto(q, Len(q))) = Len(q)
      /\ \A i \in 1 .. Len(q) : Upto(q, Len(q))[i] = q[i]
  BY <1>1, UptoFacts
<1> QED BY <1>2, SeqEqual

LEMMA UptoNext ==
  ASSUME NEW q \in Seq(Usable), NEW n \in Nat, n + 1 <= Len(q)
  PROVE  Append(Upto(q, n), q[n + 1]) = Upto(q, n + 1)
<1>1. Len(q) \in Nat
  BY LenProperties
<1>2. n \in 0 .. Len(q) /\ n + 1 \in 0 .. Len(q) /\ n + 1 \in 1 .. Len(q)
  BY <1>1
<1>3. /\ Upto(q, n) \in Seq(Usable) /\ Len(Upto(q, n)) = n
      /\ \A i \in 1 .. n : Upto(q, n)[i] = q[i]
  BY <1>2, UptoFacts
<1>4. /\ Upto(q, n + 1) \in Seq(Usable) /\ Len(Upto(q, n + 1)) = n + 1
      /\ \A i \in 1 .. (n + 1) : Upto(q, n + 1)[i] = q[i]
  BY <1>2, UptoFacts
<1>5. q[n + 1] \in Usable
  BY <1>2, ElementOfSeq
<1>6. PICK u, v, x : u = Upto(q, n) /\ v = Append(u, x) /\ x = q[n + 1]
  OBVIOUS
<1>7. /\ v \in Seq(Usable) /\ Len(v) = n + 1
      /\ \A i \in 1 .. n : v[i] = u[i]
      /\ v[n + 1] = x
  BY <1>3, <1>5, <1>6, AppendProperties
<1>8. \A i \in 1 .. (n + 1) : i \in 1 .. n \/ i = n + 1
  OBVIOUS
<1>9. \A i \in 1 .. (n + 1) : v[i] = Upto(q, n + 1)[i]
  BY <1>3, <1>4, <1>6, <1>7, <1>8
<1>10. v = Upto(q, n + 1)
  BY <1>4, <1>7, <1>9, SeqEqual
<1> QED BY <1>6, <1>10

\* The function that Chain follows the links with: w[k] are the clusters found
\* after k links.
NextOf(s) == IF s # <<>> /\ fat[s[Len(s)]] \in Cluster THEN Append(s, fat[s[Len(s)]]) ELSE s
Walk(w, f) ==
  w = [k \in 0 .. Cardinality(Cluster) |->
         IF k = 0 THEN IF first[f] = 0 THEN <<>> ELSE <<first[f]>> ELSE NextOf(w[k - 1])]

LEMMA ChainWalk ==
  ASSUME NEW f
  PROVE  Chain(f) = (CHOOSE w : Walk(w, f))[Cardinality(Cluster)]
  BY DEF Chain, Walk, NextOf

\* The first m clusters of q are what the FAT links from the first cluster of f.
Follows(q, m, f) ==
  /\ q \in Seq(Usable) /\ m \in 0 .. Len(q)
  /\ first[f] = IF m = 0 THEN 0 ELSE q[1]
  /\ \A i \in 1 .. m : fat[q[i]] = q[i + 1] \/ i = m
  /\ m # 0 => fat[q[m]] \notin Cluster

\* How much of them is found after k links.
Found(k, m) == IF k < m THEN k + 1 ELSE m

LEMMA FoundNext ==
  ASSUME NEW q, NEW f, NEW m \in Nat, Follows(q, m, f), NEW k \in Nat, k # 0
  PROVE  NextOf(Upto(q, Found(k - 1, m))) = Upto(q, Found(k, m))
<1>1. q \in Seq(Usable) /\ Len(q) \in Nat /\ m <= Len(q)
  BY LenProperties DEF Follows
<1>2. PICK n \in Nat : n = Found(k - 1, m) /\ n <= m
  BY DEF Found
<1>3. PICK s : s = Upto(q, n)
  OBVIOUS
<1>4. s \in Seq(Usable) /\ Len(s) = n /\ \A i \in 1 .. n : s[i] = q[i]
  <2>1. n \in 0 .. Len(q)
    BY <1>1, <1>2
  <2> QED BY <1>1, <1>3, <2>1, UptoFacts
<1>5. CASE n = m
  <2>1. Found(k, m) = m
    BY <1>2, <1>5 DEF Found
  <2>2. ASSUME s # <<>> PROVE fat[s[Len(s)]] \notin Cluster
    <3>1. m # 0 /\ m \in 1 .. m
      BY <1>4, <1>5, <2>2, EmptySeq
    <3> QED BY <1>4, <1>5, <3>1 DEF Follows
  <2>3. NextOf(s) = s
    BY <2>2 DEF NextOf
  <2> QED BY <1>2, <1>3, <1>5, <2>1, <2>3
<1>6. CASE n # m
  <2>1. n = k /\ k < m /\ Found(k, m) = n + 1 /\ n # 0
    BY <1>2, <1>6 DEF Found
  <2>2. n \in 1 .. m /\ n \in 1 .. n /\ n + 1 \in 1 .. Len(q) /\ n + 1 <= Len(q)
    BY <1>1, <2>1
  <2>3. s # <<>>
    BY <1>4, <2>1, EmptySeq
  <2>4. s[Len(s)] = q[n] /\ fat[q[n]] = q[n + 1]
    BY <1>4, <1>6, <2>2 DEF Follows
  <2>5. q[n + 1] \in Cluster
    BY <1>1, <2>2, ElementOfSeq, Marks
  <2>6. NextOf(s) = Append(s, q[n + 1])
    BY <2>3, <2>4, <2>5 DEF NextOf
  <2>7. Append(s, q[n + 1]) = Upto(q, n + 1)
    BY <1>1, <1>3, <2>2, UptoNext
  <2> QED BY <1>2, <1>3, <2>1, <2>6, <2>7
<1> QED BY <1>5, <1>6

\* Following the links finds the clusters of the chain.
LEMMA ChainFound ==
  ASSUME NEW q, NEW f, NEW m \in Nat, Follows(q, m, f), m <= Cardinality(Cluster)
  PROVE  Chain(f) = Upto(q, m)
<1> DEFINE N == Cardinality(Cluster)
           g == [k \in 0 .. N |-> Upto(q, Found(k, m))]
           w == CHOOSE v : Walk(v, f)
<1>1. N \in Nat
  BY ClustersFinite
<1>2. q \in Seq(Usable) /\ Len(q) \in Nat /\ m \in 0 .. Len(q)
  BY LenProperties DEF Follows
<1>3. Upto(q, Found(0, m)) = IF first[f] = 0 THEN <<>> ELSE <<first[f]>>
  <2>1. CASE m = 0
    <3>1. Found(0, m) = 0 /\ first[f] = 0
      BY <2>1 DEF Found, Follows
    <3>2. Upto(q, 0) \in Seq(Usable) /\ Len(Upto(q, 0)) = 0
      BY <1>2, <2>1, UptoFacts
    <3>3. Upto(q, 0) = <<>>
      BY <3>2, EmptySeq
    <3> QED BY <3>1, <3>3
  <2>2. CASE m # 0
    <3>1. Found(0, m) = 1 /\ first[f] = q[1] /\ 1 \in 1 .. Len(q) /\ 1 \in 0 .. Len(q)
      BY <1>2, <2>2 DEF Found, Follows
    <3>2. q[1] \in Usable /\ q[1] # 0
      BY <1>2, <3>1, ElementOfSeq, Marks
    <3>3. Upto(q, 1) \in Seq(Usable) /\ Len(Upto(q, 1)) = 1 /\ Upto(q, 1)[1] = q[1]
      <4>1. 1 \in 1 .. 1
        OBVIOUS
      <4> QED BY <1>2, <3>1, <4>1, UptoFacts
    <3>4. Upto(q, 1) = <<q[1]>>
      <4>1. PICK u, x : u = Upto(q, 1) /\ x = q[1]
        OBVIOUS
      <4>2. u \in Seq(Usable) /\ <<x>> \in Seq(Usable) /\ Len(u) = Len(<<x>>)
            /\ \A i \in 1 .. Len(u) : u[i] = <<x>>[i]
        BY <3>2, <3>3, <4>1
      <4>3. u = <<x>>
        BY <4>2, SeqEqual
      <4> QED BY <4>1, <4>3
    <3> QED BY <3>1, <3>2, <3>4
  <2> QED BY <2>1, <2>2
<1>4. \A k \in 0 .. N : g[k] = Upto(q, Found(k, m))
  OBVIOUS
<1>5. Walk(g, f)
  <2>1. ASSUME NEW k \in 0 .. N
        PROVE  Upto(q, Found(k, m)) = IF k = 0 THEN IF first[f] = 0 THEN <<>> ELSE <<first[f]>>
                                      ELSE NextOf(g[k - 1])
    <3>1. CASE k = 0
      BY <1>3, <3>1
    <3>2. CASE k # 0
      <4>1. k - 1 \in 0 .. N /\ k \in Nat
        BY <1>1, <3>2
      <4>2. NextOf(Upto(q, Found(k - 1, m))) = Upto(q, Found(k, m))
        BY <3>2, <4>1, FoundNext
      <4> HIDE DEF g
      <4> QED BY <1>4, <3>2, <4>1, <4>2
    <3> QED BY <3>1, <3>2
  <2> QED BY <2>1 DEF Walk
<1>6. Walk(w, f)
  BY <1>5
<1> HIDE DEF w, g
<1>7. \A k \in 0 .. N : w[k] = IF k = 0 THEN IF first[f] = 0 THEN <<>> ELSE <<first[f]>>
                               ELSE NextOf(w[k - 1])
  BY <1>6 DEF Walk
<1>8. ASSUME NEW k \in 0 .. N, w[k] # Upto(q, Found(k, m)) PROVE FALSE
  <2> DEFINE S == {j \in 0 .. N : w[j] # Upto(q, Found(j, m))}
             j == MinOf(S)
  <2>1. S \in SUBSET Nat /\ S # {}
    BY <1>1, <1>8
  <2>2. j \in S /\ \A i \in S : j <= i
    BY <2>1, MinExists
  <2> HIDE DEF j
  <2>3. j \in 0 .. N /\ w[j] # Upto(q, Found(j, m))
    BY <2>2
  <2>4. CASE j = 0
    BY <1>3, <1>7, <2>3, <2>4
  <2>5. CASE j # 0
    <3>1. j - 1 \in 0 .. N /\ j \in Nat /\ ~(j <= j - 1)
      BY <1>1, <2>3, <2>5
    <3>2. w[j - 1] = Upto(q, Found(j - 1, m))
      BY <2>2, <3>1
    <3>3. w[j] = NextOf(w[j - 1])
      BY <1>7, <2>3, <2>5
    <3>4. NextOf(Upto(q, Found(j - 1, m))) = Upto(q, Found(j, m))
      BY <2>5, <3>1, FoundNext
    <3> QED BY <2>3, <3>2, <3>3, <3>4
  <2> QED BY <2>4, <2>5
<1>9. w[N] = Upto(q, Found(N, m)) /\ Found(N, m) = m
  <2>1. N \in 0 .. N
    BY <1>1
  <2> QED BY <1>1, <1>8, <2>1 DEF Found
<1> QED BY <1>9, ChainWalk DEF w

\* A chain is not longer than the volume.
LEMMA ChainFits ==
  ASSUME NEW ch, Separate(ch), NEW f \in Files
  PROVE  Len(ch[f]) <= Cardinality(Cluster)
<1>1. PICK q \in Seq(Usable) : q = ch[f]
  BY DEF Separate
<1>2. Len(q) \in Nat /\ q \in [1 .. Len(q) -> Usable]
  BY <1>1, LenProperties
<1>3. \A i, j \in 1 .. Len(q) : q[i] = q[j] => i = j
  BY <1>1 DEF Separate
<1>4. IsFiniteSet(Cluster) /\ Cardinality(Cluster) \in Nat
  BY ClustersFinite
<1>5. IsFiniteSet(1 .. Len(q)) /\ Cardinality(1 .. Len(q)) = Len(q)
  <2>1. IsFiniteSet(1 .. Len(q)) /\ Cardinality(1 .. Len(q)) = IF 1 > Len(q) THEN 0 ELSE Len(q) - 1 + 1
    BY <1>2, FS_Interval
  <2> QED BY <1>2, <2>1
<1>6. ASSUME Cardinality(Cluster) < Len(q) PROVE FALSE
  <2>1. q \in [1 .. Len(q) -> Cluster]
    BY <1>2, Marks
  <2>2. \E i, j \in 1 .. Len(q) : i # j /\ q[i] = q[j]
    BY <1>4, <1>5, <1>6, <2>1, FS_PigeonHole
  <2> QED BY <1>3, <2>2
<1> QED BY <1>1, <1>2, <1>4, <1>6

\* The chain followed from the directory entry is that of the picture, or, with
\* its beginning freed by a deletion, its first cluster.
LEMMA ChainOf ==
  ASSUME NEW ch, Volume(ch), NEW f \in Files, Gone(f) = 0
  PROVE  Chain(f) = ch[f]
<1>1. PICK q \in Seq(Usable) : q = ch[f]
  BY DEF Volume, Separate
<1>m. PICK m \in Nat : m = Len(q)
  BY <1>1, LenProperties
<1>2. \A i \in 1 .. m : fat[q[i]] = IF i = m THEN EndMark ELSE q[i + 1]
  <2>1. \A i \in 1 .. m : fat[q[i]] = IF i <= 0 THEN Free ELSE IF i = m THEN EndMark ELSE q[i + 1]
    BY <1>1, <1>m DEF Volume, LinksAre
  <2>2. \A i \in 1 .. m : ~(i <= 0)
    OBVIOUS
  <2> QED BY <2>1, <2>2
<1>3. q = <<>> <=> m = 0
  BY <1>1, <1>m, EmptySeq
<1>4. first[f] = IF m = 0 THEN 0 ELSE q[1]
  BY <1>1, <1>3 DEF Volume, FirstIs
<1>5. m # 0 => fat[q[m]] \notin Cluster
  <2>1. m # 0 => m \in 1 .. m
    OBVIOUS
  <2> QED BY <1>2, <2>1, Marks DEF FatEntry
<1>6. Follows(q, m, f)
  BY <1>1, <1>m, <1>2, <1>4, <1>5 DEF Follows
<1>7. m <= Cardinality(Cluster)
  BY <1>1, <1>m, ChainFits DEF Volume
<1>8. Chain(f) = Upto(q, m)
  BY <1>6, <1>7, ChainFound
<1> QED BY <1>1, <1>m, <1>8, UptoAll

LEMMA ChainFreed ==
  ASSUME NEW ch, Volume(ch), NEW f \in Files, Gone(f) \in Nat \ {0}, Gone(f) < Len(ch[f])
  PROVE  Chain(f) = <<ch[f][1]>>
<1>1. PICK q \in Seq(Usable) : q = ch[f]
  BY DEF Volume, Separate
<1>2. Len(q) \in Nat /\ 1 \in 0 .. Len(q) /\ 1 \in 1 .. Len(q) /\ 1 <= Gone(f)
  BY <1>1, LenProperties
<1>3. first[f] = q[1]
  BY <1>1, <1>2, EmptySeq DEF Volume, FirstIs
<1>4. fat[q[1]] = Free
  BY <1>1, <1>2 DEF Volume, LinksAre
<1>5. \A i \in 1 .. 1 : i = 1
  OBVIOUS
<1>6. Follows(q, 1, f)
  BY <1>1, <1>2, <1>3, <1>4, <1>5, Marks DEF Follows
<1>7. 1 <= Cardinality(Cluster)
  <2>1. Len(q) <= Cardinality(Cluster) /\ Cardinality(Cluster) \in Nat
    BY <1>1, ChainFits, ClustersFinite DEF Volume
  <2> QED BY <1>2, <2>1
<1>8. Chain(f) = Upto(q, 1)
  BY <1>6, <1>7, ChainFound
<1>9. Upto(q, 1) \in Seq(Usable) /\ Len(Upto(q, 1)) = 1 /\ Upto(q, 1)[1] = q[1] /\ q[1] \in Usable
  <2>1. 1 \in 1 .. 1
    OBVIOUS
  <2> QED BY <1>2, <2>1, UptoFacts, ElementOfSeq
<1>10. PICK u, x : u = Upto(q, 1) /\ x = q[1]
  OBVIOUS
<1>11. u \in Seq(Usable) /\ <<x>> \in Seq(Usable) /\ Len(u) = Len(<<x>>)
       /\ \A i \in 1 .. Len(u) : u[i] = <<x>>[i]
  BY <1>9, <1>10
<1>12. u = <<x>>
  BY <1>11, SeqEqual
<1> QED BY <1>1, <1>8, <1>10, <1>12

\* Between calls the chains followed are the pictures.
LEMMA IdleChains ==
  ASSUME OInv, Orderly, pc = "idle"
  PROVE  \E ch : Pictured(ch) /\ Volume(ch) /\ \A f \in Files : Chain(f) = ch[f]
<1>1. PICK ch : Pictured(ch) /\ Volume(ch)
  BY SoundParts, PicturedParts DEF Pictures
<1>2. \A f \in Files : Chain(f) = ch[f]
  BY <1>1, NoneGone, ChainOf
<1> QED BY <1>1, <1>2

\* Between calls every cluster in use is in the chain of a file.
THEOREM NothingLeaks == Spec => []NoLeak
<1>1. OInv => NoLeak
  <2> SUFFICES ASSUME OInv, Orderly, pc = "idle", NEW c \in Cluster, fat[c] \notin {Free, BadMark}
               PROVE  \E f \in Files : c \in ChainSet(f)
    BY DEF NoLeak
  <2>1. PICK ch : Volume(ch) /\ \A f \in Files : Chain(f) = ch[f]
    BY IdleChains
  <2>2. InChain(ch, c)
    BY <2>1 DEF Volume, RestUnused
  <2>3. PICK f \in Files : \E i \in 1 .. Len(ch[f]) : c = ch[f][i]
    BY <2>2 DEF InChain
  <2>4. ch[f] \in Seq(Usable)
    BY <2>1 DEF Volume, Separate
  <2>5. DOMAIN ch[f] = 1 .. Len(ch[f])
    BY <2>4, LenProperties
  <2>6. c \in ChainSet(f)
    BY <2>1, <2>3, <2>5 DEF ChainSet
  <2> QED BY <2>6
<1> QED BY <1>1, ChainsPictured, PTL

\* Between calls the size of a file is the length of its chain.
THEOREM SizeAlwaysChain == Spec => []SizeIsChain
<1>1. OInv => SizeIsChain
  <2> SUFFICES ASSUME OInv, Orderly, pc = "idle", NEW f \in Files
               PROVE  size[f] = Len(Chain(f))
    BY DEF SizeIsChain
  <2>1. PICK ch : Volume(ch) /\ \A g \in Files : Chain(g) = ch[g]
    BY IdleChains
  <2> QED BY <2>1 DEF Volume, SizeIs
<1> QED BY <1>1, ChainsPictured, PTL

\* What a caller wrote in several calls is the beginning of the chain, in the
\* order in which it was written.
THEOREM AlwaysInOrder == Spec => []WrittenInOrder
<1>1. OInv => WrittenInOrder
  <2> SUFFICES ASSUME OInv, Orderly, pc = "idle", NEW f \in Files
               PROVE  /\ Len(wrote[f]) <= Len(Chain(f))
                      /\ \A i \in DOMAIN wrote[f] : wrote[f][i] = Chain(f)[i]
    BY DEF WrittenInOrder
  <2>1. PICK ch : Pictured(ch) /\ \A g \in Files : Chain(g) = ch[g]
    BY IdleChains
  <2>2. wrote[f] \in Seq(Cluster)
    BY SoundParts, InvParts DEF WroteType
  <2>3. DOMAIN wrote[f] = 1 .. Len(wrote[f])
    BY <2>2, LenProperties
  <2> QED BY <2>1, <2>3 DEF Pictured, WroteIs
<1> QED BY <1>1, ChainsPictured, PTL

\* The clusters of a file hold its own data, also while it is being deleted.
THEOREM DataAlwaysKept == Spec => []DataKept
<1>1. OInv => DataKept
  <2> SUFFICES ASSUME OInv, Orderly, NEW f \in Files, NEW c \in ChainSet(f)
               PROVE  owner[c] = {f}
    BY DEF DataKept
  <2>1. PICK ch : Pictured(ch) /\ Volume(ch)
    BY SoundParts, PicturedParts DEF Pictures
  <2>2. ch[f] \in Seq(Usable) /\ Len(ch[f]) \in Nat /\ DOMAIN ch[f] = 1 .. Len(ch[f])
    BY <2>1, LenProperties DEF Volume, Separate
  <2>3. \A i \in 1 .. Len(ch[f]) : owner[ch[f][i]] = {f}
    BY <2>1 DEF Volume, OwnerIs
  <2>4. Gone(f) \in Nat
    BY SoundParts, InvParts DEF Gone, CallType
  <2>5. CASE Gone(f) = 0
    <3>1. Chain(f) = ch[f]
      BY <2>1, <2>5, ChainOf
    <3> QED BY <2>2, <2>3, <3>1 DEF ChainSet
  <2>6. CASE Gone(f) # 0
    <3>1. pc = "free" /\ f = file /\ Gone(f) = freed
      BY <2>6 DEF Gone
    <3>2. Gone(f) < Len(ch[f])
      BY <2>1, <2>6, <3>1 DEF Pictured, FreeingAt
    <3>3. Chain(f) = <<ch[f][1]>>
      BY <2>1, <2>4, <2>6, <3>2, ChainFreed
    <3>4. c = ch[f][1]
      <4>1. DOMAIN <<ch[f][1]>> = 1 .. 1 /\ \A i \in 1 .. 1 : i = 1
        OBVIOUS
      <4>2. <<ch[f][1]>>[1] = ch[f][1]
        OBVIOUS
      <4> QED BY <3>3, <4>1, <4>2 DEF ChainSet
    <3>5. 1 \in 1 .. Len(ch[f])
      BY <2>2, <2>4, <2>6, <3>2
    <3> QED BY <2>3, <3>4, <3>5
  <2> QED BY <2>5, <2>6
<1> QED BY <1>1, ChainsPictured, PTL
=============================================================================
