---------------------------- MODULE DirBufsProofs ----------------------------
(***************************************************************************)
(* Proofs about DirBufs, for any number of handles, of entries and of      *)
(* names, any volume, any paths, and any number of calls and failures.     *)
(***************************************************************************)
EXTENDS DirBufs, SequenceTheorems, WellFoundedInduction, TLAPS

-----------------------------------------------------------------------------
(* Slots of a directory                                                    *)

LEMMA Constants ==
  /\ NumFiles \in Nat /\ NumFiles > 0 /\ NumSlots \in Nat /\ NumSlots > 0
  /\ PerFile \in Nat \ {0} /\ LfnSlots \in Nat \ {0} /\ MaxTries \in Nat
  /\ MaxCalls \in Nat /\ MaxFaults \in Nat
  BY ConstAssumption

LEMMA NameFacts ==
  /\ "END" \notin Names /\ "FREE" \notin Names /\ "LFN" \notin Names /\ UP \notin Names
  /\ Sought \subseteq Names /\ NewNames \subseteq Names \cup {"END"}
  /\ TildeNames \subseteq Names /\ \A n \in TildeNames : NextName[n] \in Names
  BY ConstAssumption DEF UP

LEMMA ClusFacts ==
  /\ Root = 0 /\ Root \in Clus /\ Chains \subseteq Clus /\ Chains \subseteq Nat
  /\ \A c \in Clus : c # Root => c \in Chains
  /\ \A c \in Chains : c # Root /\ c # -1
  BY ConstAssumption DEF Clus, Root

\* The code's searches stop at the first entry that fits.
LEMMA FirstFacts ==
  ASSUME NEW S, S \subseteq Nat, S # {}
  PROVE  FirstOf(S) \in S /\ \A j \in S : FirstOf(S) <= j
<1>1. PICK x \in S : \A y \in S : ~(<<y, x>> \in OpToRel(<, Nat))
  BY NatLessThanWellFounded, WFMin
<1>2. \A y \in S : ~(y < x)
  BY <1>1 DEF OpToRel
<1>3. \E i \in S : \A j \in S : i <= j
  BY <1>2
<1> QED BY <1>3 DEF FirstOf

LEMMA SlotFacts ==
  /\ Slot \subseteq Nat /\ \A i \in Slot : i \in Nat /\ i >= 1 /\ i <= NumSlots
  /\ \A i \in Int : i >= 1 /\ i <= NumSlots => i \in Slot
  BY Constants DEF Slot

LEMMA AtFacts ==
  ASSUME NEW d, NEW n, At(d, n) # {}
  PROVE  /\ FirstOf(At(d, n)) \in At(d, n) /\ FirstOf(At(d, n)) \in Slot
         /\ FirstOf(At(d, n)) \in Live(d) /\ FirstOf(At(d, n)) \in Seen(d)
         /\ d.ent[FirstOf(At(d, n))].name = n
<1>1. At(d, n) \subseteq Nat
  BY SlotFacts DEF At, Live, Seen
<1>2. FirstOf(At(d, n)) \in At(d, n)
  BY <1>1, FirstFacts
<1> QED BY <1>2 DEF At, Live, Seen

\* In a tidy directory the parts LfnStart finds are those of the entry.
LEMMA LfnTypes ==
  ASSUME NEW d, NEW i \in Slot
  PROVE  LfnStart(d, i) \in 1 .. i
<1> DEFINE parts == {j \in 1 .. i : /\ d.ent[j].name = "LFN"
                                    /\ \A k \in Live(d) : k < i => k < j}
<1>1. i \in Nat /\ i >= 1
  BY SlotFacts
<1>2. parts \subseteq 1 .. i /\ parts \subseteq Nat
  BY <1>1
<1>3. LfnStart(d, i) = IF parts = {} THEN i ELSE FirstOf(parts)
  BY DEF LfnStart
<1> HIDE DEF parts
<1>4. parts # {} => FirstOf(parts) \in 1 .. i
  BY <1>2, FirstFacts
<1> QED BY <1>1, <1>3, <1>4

LEMMA LfnFacts ==
  ASSUME NEW d, Tidy(d), NEW i \in Live(d)
  PROVE  /\ \A j \in LfnStart(d, i) .. (i - 1) : d.ent[j].name = "LFN"
         /\ LfnStart(d, i) - 1 \in Slot => d.ent[LfnStart(d, i) - 1].name # "LFN"
<1> DEFINE parts == {j \in 1 .. i : /\ d.ent[j].name = "LFN"
                                    /\ \A k \in Live(d) : k < i => k < j}
           m == LfnStart(d, i)
<1>0. i \in Slot /\ i \in Nat /\ i >= 1 /\ i <= NumSlots
  BY SlotFacts DEF Live, Seen
<1>1. m = IF parts = {} THEN i ELSE FirstOf(parts)
  BY DEF LfnStart
<1>2. \A j : j \in parts <=> (j \in 1 .. i /\ d.ent[j].name = "LFN" /\ \A k \in Live(d) : k < i => k < j)
  OBVIOUS
<1>3. m \in 1 .. i
  BY <1>0, LfnTypes
<1> HIDE DEF parts, m
<1>4. ASSUME parts # {} PROVE m \in parts /\ \A j \in parts : m <= j
  <2>1. parts \subseteq Nat
    BY <1>0, <1>2
  <2>2. m = FirstOf(parts)
    BY <1>1, <1>4
  <2>3. FirstOf(parts) \in parts /\ \A j \in parts : FirstOf(parts) <= j
    BY <2>1, <1>4, FirstFacts
  <2> QED BY <2>2, <2>3
<1>5. \A k \in Live(d) : d.ent[k].name # "LFN" /\ k \in Nat
  BY SlotFacts DEF Live, Seen
<1>6. ASSUME NEW j \in 1 .. i
      PROVE  j \in Seen(d) /\ j \in Slot
  <2>1. j \in Slot /\ \A q \in 1 .. j : q \in 1 .. i
    BY <1>0, SlotFacts, Constants
  <2>2. \A q \in 1 .. i : d.ent[q].name # "END"
    BY DEF Live, Seen
  <2> QED BY <2>1, <2>2 DEF Seen
<1>7. ASSUME NEW j \in m .. (i - 1)
      PROVE  d.ent[j].name = "LFN"
  <2>1. m < i /\ parts # {} /\ m \in parts
    BY <1>0, <1>1, <1>3, <1>4
  <2>2. SUFFICES ASSUME d.ent[j].name # "LFN" PROVE FALSE
    OBVIOUS
  <2> DEFINE S == {q \in m .. (i - 1) : d.ent[q].name # "LFN"}
             q == FirstOf(S)
  <2>3. j \in S /\ S \subseteq Nat
    BY <1>3, <2>2
  <2>4. q \in S /\ \A x \in S : q <= x
    BY <2>3, FirstFacts
  <2>5. q \in m .. (i - 1) /\ d.ent[q].name # "LFN" /\ q # m
    BY <2>1, <2>4, <1>2
  <2>6. q - 1 \in m .. (i - 1) /\ q - 1 \notin S
    <3> HIDE DEF q
    <3>1. q - 1 \in m .. (i - 1)
      BY <1>0, <1>3, <2>5
    <3>2. ~(q <= q - 1)
      BY <1>0, <1>3, <2>5
    <3> QED BY <3>1, <3>2, <2>4
  <2>7. d.ent[q - 1].name = "LFN"
    BY <2>6
  <2> HIDE DEF q, S
  <2>8. q - 1 \in Slot /\ q \in Slot /\ q \in Seen(d) /\ (q - 1) + 1 = q
    BY <1>0, <1>3, <1>6, <2>5, <2>6, SlotFacts
  <2>9. d.ent[q].name \notin {"END", "FREE", "LFN"}
    BY <2>5, <2>7, <2>8 DEF Tidy
  <2>10. q \in Live(d)
    BY <2>8, <2>9 DEF Live
  <2>11. q < i => q < m
    BY <2>1, <2>10, <1>2
  <2> QED BY <2>11, <2>5, <1>0, <1>3
<1>8. ASSUME m - 1 \in Slot, d.ent[m - 1].name = "LFN"
      PROVE  FALSE
  <2>1. m - 1 \in 1 .. i /\ m - 1 < i /\ m - 1 < m
    BY <1>0, <1>3, <1>8, SlotFacts
  <2>2. ASSUME NEW k \in Live(d), k < i
        PROVE  k < m - 1
    <3>1. k \in Nat /\ k # m - 1
      BY <1>5, <1>8
    <3>2. CASE parts = {}
      BY <3>1, <3>2, <1>1, <1>3, <2>2
    <3>3. CASE parts # {}
      BY <3>1, <3>3, <1>2, <1>3, <1>4, <2>2
    <3> QED BY <3>2, <3>3
  <2>3. m - 1 \in parts
    BY <2>1, <2>2, <1>2, <1>8
  <2> QED BY <2>1, <2>3, <1>4, <1>3
<1> QED BY <1>7, <1>8 DEF m

\* Where a new entry goes: free slots in a row, or those behind the end.
LEMMA FreeTypes ==
  ASSUME NEW d, NEW k \in Nat \ {0}, FreeEntry(d, k) # {}
  PROVE  /\ FirstOf(FreeEntry(d, k)) \in Slot
         /\ FirstOf(FreeEntry(d, k)) + k - 1 \in Slot
         /\ FirstOf(FreeEntry(d, k)) \in FreeRun(d, k) \cup FirstEnd(d)
<1> DEFINE i == FirstOf(FreeEntry(d, k))
<1>1. CASE FreeRun(d, k) # {}
  <2>1. FreeRun(d, k) \subseteq Nat
    BY SlotFacts DEF FreeRun, Seen
  <2>2. FirstOf(FreeRun(d, k)) \in FreeRun(d, k)
    BY <1>1, <2>1, FirstFacts
  <2>3. FreeEntry(d, k) = {FirstOf(FreeRun(d, k))}
    BY <1>1 DEF FreeEntry
  <2>4. i = FirstOf(FreeRun(d, k))
    <3>1. FreeEntry(d, k) \subseteq Nat
      BY <2>1, <2>2, <2>3
    <3>2. i \in FreeEntry(d, k)
      BY <3>1, FirstFacts
    <3> QED BY <3>2, <2>3
  <2> QED BY <2>2, <2>4 DEF FreeRun, Seen
<1>2. CASE FreeRun(d, k) = {}
  <2>1. FreeEntry(d, k) = {x \in FirstEnd(d) : x + k - 1 \in Slot}
    BY <1>2 DEF FreeEntry
  <2>2. FreeEntry(d, k) \subseteq Nat
    BY <2>1, SlotFacts DEF FirstEnd
  <2>3. i \in FreeEntry(d, k)
    BY <2>2, FirstFacts
  <2> QED BY <2>1, <2>3 DEF FirstEnd
<1> QED BY <1>1, <1>2

LEMMA FreeFacts ==
  ASSUME NEW d, Tidy(d), NEW k \in Nat \ {0}, NEW i \in Slot, i + k - 1 \in Slot,
         i \in FreeRun(d, k) \cup FirstEnd(d)
  PROVE  /\ \A j \in i .. (i + k - 1) : d.ent[j].name \in {"FREE", "END"}
         /\ i - 1 \in Slot => d.ent[i - 1].name \notin {"LFN", "END"}
         /\ (\E j \in i .. (i + k - 1) : d.ent[j].name = "END")
              => \A j \in i .. NumSlots : d.ent[j].name = "END"
<1>0. i \in Nat /\ i >= 1 /\ i <= NumSlots /\ NumSlots \in Nat
  BY SlotFacts, Constants
<1>1. CASE i \in FreeRun(d, k)
  <2>1. \A j \in i .. (i + k - 1) : d.ent[j].name = "FREE"
    BY <1>1 DEF FreeRun
  <2>2. d.ent[i].name = "FREE" /\ i \in Seen(d)
    BY <1>0, <1>1, <2>1 DEF FreeRun
  <2>3. ASSUME i - 1 \in Slot
        PROVE  d.ent[i - 1].name \notin {"LFN", "END"}
    <3>1. (i - 1) + 1 = i /\ i - 1 \in 1 .. i
      BY <1>0, <2>3, SlotFacts
    <3>2. d.ent[i - 1].name # "LFN"
      BY <2>2, <2>3, <3>1 DEF Tidy
    <3>3. d.ent[i - 1].name # "END"
      BY <2>2, <3>1 DEF Seen
    <3> QED BY <3>2, <3>3
  <2> QED BY <2>1, <2>3
<1>2. CASE i \in FirstEnd(d)
  <2>1. i \notin Seen(d) /\ (i = 1 \/ i - 1 \in Seen(d))
    BY <1>2 DEF FirstEnd
  <2>2. PICK q \in 1 .. i : d.ent[q].name = "END"
    BY <2>1 DEF Seen
  <2>3. q \in Slot /\ i \in q .. NumSlots
    BY <1>0, SlotFacts
  <2>4. d.ent[i].name = "END"
    BY <2>2, <2>3 DEF Tidy
  <2>5. \A j \in i .. NumSlots : d.ent[j].name = "END"
    BY <2>4 DEF Tidy
  <2>6. \A j \in i .. (i + k - 1) : d.ent[j].name = "END"
    BY <1>0, <2>5, SlotFacts
  <2>7. ASSUME i - 1 \in Slot
        PROVE  d.ent[i - 1].name \notin {"LFN", "END"}
    <3>1. (i - 1) + 1 = i /\ i - 1 \in 1 .. (i - 1) /\ i # 1
      BY <1>0, <2>7, SlotFacts
    <3>2. d.ent[i - 1].name # "LFN"
      BY <2>4, <2>7, <3>1 DEF Tidy
    <3>3. d.ent[i - 1].name # "END"
      BY <2>1, <3>1 DEF Seen
    <3> QED BY <3>2, <3>3
  <2> QED BY <2>5, <2>6, <2>7
<1> QED BY <1>1, <1>2

-----------------------------------------------------------------------------
(* Types                                                                   *)

Flags == {"ALL", "CLUS", "SIZE"}
Bufs == {"b1", "b2"}
BufName == Bufs \cup {"RD"}
AtType == [buf : BufName, clus : Clus]
TempType == [buf : BufName, clus : Clus, full : BOOLEAN]
FileType == [used : BOOLEAN, name : Names \cup {"END"}, attr : {"", "ARCHIVE", "DIR"},
             clus : Clus, size : {0, 1}, fpos : 0 .. NumSlots, lpos : 0 .. NumSlots,
             upd : SUBSET Flags, dclus : Clus]
Placed(f) == f.fpos <= f.lpos /\ (f.fpos = 0 => f.lpos = 0)
Searches == {"info", "open", "mkdir", "move"}
Results == {"OK", "NOTFOUND", "FAILED", "NOMORE", "INVALID", "NOTSUPPORTED", "HANDLES", "UNKNOWN",
            "INSUFFICIENT"}
OpType ==
  [call : {"none", "chdir", "delete", "close"} \cup Searches, h : 0 .. NumFiles,
   src : 0 .. NumFiles, at : AtType, toks : Seq(Names \cup {UP}), plain : BOOLEAN,
   name : Names \cup {"END"}, create : BOOLEAN, slots : Nat \ {0}, dest : Paths,
   to : Names \cup {"END"}, tries : 0 .. MaxTries, closing : Seq(Handle), out : Results,
   was : TempType]
PcType == {"idle", "walk", "find", "mkdir", "dots", "remove", "dest", "name", "closing"}
HeldType == {"cur", "temp", "no", "dead"}

DiskTypes ==
  /\ rd \in DirType /\ rdUpdated \in BOOLEAN /\ disk \in [Clus -> DirType]
  /\ used \subseteq Chains /\ buf \in [Bufs -> DirType]
BufTypes == cur \in AtType /\ temp \in TempType
FileTypes ==
  /\ files \in [Handle -> FileType] /\ (\A h \in Handle : Placed(files[h]))
  /\ held \in [Handle -> HeldType]
OpTypes == pc \in PcType /\ op \in OpType /\ calls \in Nat /\ faults \in Nat

\* What a call has at each of its places.
Places ==
  /\ op.create => op.call \in {"open", "mkdir", "move"}
  /\ op.call \in Searches => op.name \in Names
  /\ pc \in {"walk", "find"} => op.call \in Searches \cup {"chdir"}
  /\ pc = "find" => op.call # "chdir"
  /\ pc \in {"walk", "find"} /\ op.call \in {"open", "mkdir", "move"} => op.h \in Handle
  /\ pc \in {"walk", "find"} /\ op.call \in {"chdir", "info"} => op.h = 0
  /\ pc \in {"mkdir", "dots", "remove", "name"} => op.h \in Handle
  /\ pc \in {"dest", "name"} => op.src \in Handle /\ op.call = "move"
  /\ pc = "remove" => op.call \in {"delete", "move"}
  /\ pc = "remove" /\ op.call = "move" => files[op.h].name \in Names

TInv == DiskTypes /\ BufTypes /\ FileTypes /\ OpTypes /\ Places
TFacts == TInv /\ spoilt \in BOOLEAN

LEMMA HandleFacts ==
  /\ \A h \in Handle : h \in 0 .. NumFiles /\ h # 0 /\ h \in Nat
  /\ \A h \in 0 .. NumFiles : h # 0 => h \in Handle
  /\ 0 \in 0 .. NumFiles
  BY Constants DEF Handle

LEMMA MarkTypes ==
  ASSUME NEW n \in {"END", "FREE", "LFN"}
  PROVE  Mark(n) \in EntryType /\ Mark(n).name = n
  BY ClusFacts DEF Mark, Entry, EntryType

LEMMA ZerosType ==
  Zeros \in DirType /\ \A i \in Slot : Zeros.ent[i].name = "END"
  BY MarkTypes DEF Zeros, Dir, DirType

LEMMA NoFileType ==
  NoFile \in FileType /\ Placed(NoFile)
  BY ClusFacts, Constants DEF NoFile, FileType, Placed

LEMMA NoCallType ==
  NoCall \in OpType
<1>1. NoCall.at \in AtType /\ NoCall.was \in TempType
  BY ClusFacts DEF NoCall, AtType, TempType, BufName, Bufs
<1>2. NoCall.dest \in Paths /\ NoCall.slots \in Nat \ {0} /\ NoCall.tries \in 0 .. MaxTries
  BY ConstAssumption DEF NoCall
<1>3. NoCall.toks \in Seq(Names \cup {UP}) /\ NoCall.closing \in Seq(Handle)
  BY DEF NoCall
<1>4. NoCall.h \in 0 .. NumFiles /\ NoCall.src \in 0 .. NumFiles
  BY HandleFacts DEF NoCall
<1>5. /\ NoCall.call = "none" /\ NoCall.name = "END" /\ NoCall.to = "END" /\ NoCall.out = "OK"
  BY DEF NoCall
<1>8. /\ NoCall.call \in {"none", "chdir", "delete", "close"} \cup Searches
      /\ NoCall.name \in Names \cup {"END"} /\ NoCall.to \in Names \cup {"END"}
  BY <1>5
<1>9. NoCall.out \in Results
  BY <1>5 DEF Results
<1>7. NoCall.plain \in BOOLEAN /\ NoCall.create \in BOOLEAN
  BY DEF NoCall
<1>6. NoCall = [call |-> NoCall.call, h |-> NoCall.h, src |-> NoCall.src, at |-> NoCall.at,
                toks |-> NoCall.toks, plain |-> NoCall.plain, name |-> NoCall.name,
                create |-> NoCall.create, slots |-> NoCall.slots, dest |-> NoCall.dest,
                to |-> NoCall.to, tries |-> NoCall.tries, closing |-> NoCall.closing,
                out |-> NoCall.out, was |-> NoCall.was]
  BY DEF NoCall
<1> QED
  <2> PICK n : n = NoCall
    OBVIOUS
  <2>1. /\ n.call \in {"none", "chdir", "delete", "close"} \cup Searches
        /\ n.h \in 0 .. NumFiles /\ n.src \in 0 .. NumFiles /\ n.at \in AtType
        /\ n.toks \in Seq(Names \cup {UP}) /\ n.plain \in BOOLEAN
        /\ n.name \in Names \cup {"END"} /\ n.create \in BOOLEAN /\ n.slots \in Nat \ {0}
        /\ n.dest \in Paths /\ n.to \in Names \cup {"END"} /\ n.tries \in 0 .. MaxTries
        /\ n.closing \in Seq(Handle) /\ n.out \in Results /\ n.was \in TempType
    BY <1>1, <1>2, <1>3, <1>4, <1>7, <1>8, <1>9
  <2>2. n = [call |-> n.call, h |-> n.h, src |-> n.src, at |-> n.at, toks |-> n.toks,
             plain |-> n.plain, name |-> n.name, create |-> n.create, slots |-> n.slots,
             dest |-> n.dest, to |-> n.to, tries |-> n.tries, closing |-> n.closing,
             out |-> n.out, was |-> n.was]
    BY <1>6
  <2>3. n \in OpType
    BY <2>1, <2>2 DEF OpType
  <2> QED BY <2>3
LEMMA MemType ==
  ASSUME DiskTypes, NEW b \in BufName
  PROVE  Mem(b) \in DirType
  BY DEF DiskTypes, BufName, Bufs, Mem

LEMMA SetMemType ==
  ASSUME DiskTypes, NEW b \in BufName, NEW d \in DirType, SetMem(b, d)
  PROVE  rd' \in DirType /\ buf' \in [Bufs -> DirType]
  BY DEF DiskTypes, BufName, Bufs, SetMem

LEMMA DirBufTypes ==
  ASSUME BufTypes, NEW h, NEW b \in DirBufOf(h)
  PROVE  b.buf \in BufName /\ b.full \in BOOLEAN
<1>1. \/ b = DirBuf(cur.buf, TRUE) \/ b = DirBuf(temp.buf, temp.full) \/ b = DirBuf("RD", TRUE)
  BY DEF DirBufOf
<1>2. cur.buf \in BufName /\ temp.buf \in BufName /\ temp.full \in BOOLEAN /\ "RD" \in BufName
  BY DEF BufTypes, AtType, TempType, BufName
<1>3. \A x, y : DirBuf(x, y).buf = x /\ DirBuf(x, y).full = y
  BY DEF DirBuf
<1>4. CASE b = DirBuf(cur.buf, TRUE)
  BY <1>2, <1>3, <1>4
<1>5. CASE b = DirBuf(temp.buf, temp.full)
  BY <1>2, <1>3, <1>5
<1>6. CASE b = DirBuf("RD", TRUE)
  BY <1>2, <1>3, <1>6
<1> QED BY <1>1, <1>4, <1>5, <1>6

LEMMA DirOf ==
  ASSUME NEW d \in DirType
  PROVE  /\ d.ent \in [Slot -> EntryType] /\ d.self \in Clus \cup {-1} /\ d.up \in Clus \cup {-1}
         /\ \A f \in [Slot -> EntryType] : [d EXCEPT !.ent = f] \in DirType
         /\ \A f : [d EXCEPT !.ent = f].ent = f
  BY DEF DirType

LEMMA SaveOkTypes ==
  ASSUME DiskTypes, NEW h, NEW b, NEW d \in DirType, SaveOk(h, b, d)
  PROVE  disk' \in [Clus -> DirType] /\ rdUpdated' \in BOOLEAN
  BY DEF DiskTypes, SaveOk

LEMMA SaveFailsTypes ==
  ASSUME DiskTypes, OpTypes, NEW h, NEW b, NEW d \in DirType, SaveFails(h, b, d)
  PROVE  disk' \in [Clus -> DirType] /\ rdUpdated' \in BOOLEAN /\ faults' \in Nat
<1>1. UNCHANGED rdUpdated /\ faults' = faults + 1
  BY DEF SaveFails, Fault
<1>2. disk' = disk \/ disk' = [disk EXCEPT ![files[h].dclus] = d]
  BY DEF SaveFails
<1> QED BY <1>1, <1>2 DEF DiskTypes, OpTypes

\* Between calls and while files are closed, nothing is asked of op.
LEMMA ReturnTypes ==
  ASSUME TInv, Return
  PROVE  pc' \in PcType /\ op' \in OpType /\ Places'
  BY NoCallType DEF Return, NoCall, Places, PcType, Searches

LEMMA CloseTypes ==
  ASSUME TInv, NEW hs \in Seq(Handle), NEW r \in Results, Close(hs, r)
  PROVE  pc' \in PcType /\ op' \in OpType /\ Places'
<1>1. op' = [op EXCEPT !.closing = hs, !.out = r] /\ pc' = "closing"
  BY DEF Close
<1>2. op \in OpType
  BY DEF TInv, OpTypes
<1>3. op' \in OpType /\ op'.call = op.call /\ op'.name = op.name /\ op'.create = op.create
  BY <1>1, <1>2 DEF OpType
<1> QED BY <1>1, <1>3 DEF TInv, Places, PcType

LEMMA CloseOne ==
  ASSUME TInv, NEW h \in Handle, NEW r \in Results, Close(<<h>>, r)
  PROVE  pc' \in PcType /\ op' \in OpType /\ Places'
<1>1. <<h>> \in Seq(Handle)
  OBVIOUS
<1> QED BY <1>1, CloseTypes

LEMMA GiveUpTypes ==
  ASSUME TInv, NEW r \in Results, GiveUpCall(r)
  PROVE  pc' \in PcType /\ op' \in OpType /\ Places'
<1> DEFINE a == IF op.h = 0 THEN <<>> ELSE <<op.h>>
           b == IF op.src = 0 THEN <<>> ELSE <<op.src>>
<1>1. op.h \in 0 .. NumFiles /\ op.src \in 0 .. NumFiles
  BY DEF TInv, OpTypes, OpType
<1>2. a \in Seq(Handle) /\ b \in Seq(Handle)
  BY <1>1, HandleFacts
<1>3. Return \/ Close(a \o b, r)
  BY DEF GiveUpCall
<1> HIDE DEF a, b
<1>4. a \o b \in Seq(Handle)
  BY <1>2
<1> QED BY <1>3, <1>4, ReturnTypes, CloseTypes

LEMMA GiveUpWays ==
  ASSUME FileTypes, NEW ways, GiveUp(ways)
  PROVE  held' \in [Handle -> HeldType]
  BY DEF FileTypes, GiveUp, HeldType

LEMMA ResetTypes ==
  ASSUME BufTypes, NEW c, ResetTemp(c)
  PROVE  temp' \in TempType
  BY DEF BufTypes, ResetTemp, TempType, Other, BufName, Bufs

LEMMA LookUpTypes ==
  ASSUME BufTypes, FileTypes, NEW p \in Paths, NEW o \in OpType, LookUp(p, o)
  PROVE  /\ temp' \in TempType /\ held' \in [Handle -> HeldType]
         /\ pc' = IF p = Here THEN "find" ELSE "walk"
         /\ op' \in OpType /\ op'.call = o.call /\ op'.h = o.h /\ op'.src = o.src
         /\ op'.name = o.name /\ op'.create = o.create
         /\ UNCHANGED <<diskVars, buf, cur, faults>>
<1>1. p.dirs \in Seq(Names \cup {UP})
  BY ConstAssumption DEF PathType
<1>2. cur \in AtType /\ [buf |-> "RD", clus |-> Root] \in AtType
  BY ClusFacts DEF BufTypes, AtType, BufName
<1>3. UNCHANGED <<diskVars, buf, cur, faults>>
  BY DEF LookUp
<1>4. CASE p = Here
  <2>1. pc' = "find" /\ UNCHANGED <<temp, held>> /\ op' = [o EXCEPT !.plain = TRUE, !.at = cur]
    BY <1>4 DEF LookUp
  <2>2. op' \in OpType /\ op'.call = o.call /\ op'.h = o.h /\ op'.src = o.src /\ op'.name = o.name
        /\ op'.create = o.create
    BY <1>2, <2>1 DEF OpType
  <2> QED BY <1>3, <1>4, <2>1, <2>2 DEF BufTypes, FileTypes
<1>5. CASE p # Here
  <2> DEFINE a == IF p.abs THEN [buf |-> "RD", clus |-> Root] ELSE cur
  <2>1. /\ pc' = "walk" /\ ResetTemp(cur) /\ GiveUp({"temp"})
        /\ op' = [o EXCEPT !.plain = FALSE, !.toks = p.dirs, !.at = a]
    BY <1>5 DEF LookUp
  <2>2. a \in AtType
    BY <1>2
  <2> HIDE DEF a
  <2>3. op' \in OpType /\ op'.call = o.call /\ op'.h = o.h /\ op'.src = o.src /\ op'.name = o.name
        /\ op'.create = o.create
    BY <1>1, <2>1, <2>2 DEF OpType
  <2> QED BY <1>3, <1>5, <2>1, <2>3, ResetTypes, GiveUpWays
<1> QED BY <1>4, <1>5

LEMMA ClaimTypes ==
  ASSUME TInv, NEW p \in Paths, NEW o \in OpType, FreeHandles # {}, Claim(p, o)
  PROVE  /\ temp' \in TempType /\ FileTypes' /\ op' \in OpType
         /\ pc' = IF p = Here THEN "find" ELSE "walk"
         /\ op'.call = o.call /\ op'.h \in Handle /\ op'.src = o.src /\ op'.name = o.name
         /\ op'.create = o.create
         /\ UNCHANGED <<diskVars, buf, cur, faults>>
         /\ ~files[op'.h].used /\ files' = [files EXCEPT ![op'.h].used = TRUE]
         /\ LookUp(p, [o EXCEPT !.h = op'.h])
<1> DEFINE h == FirstOf(FreeHandles)
<1>1. FreeHandles \subseteq Nat /\ FreeHandles \subseteq Handle
  BY HandleFacts DEF FreeHandles
<1>2. h \in FreeHandles /\ h \in Handle /\ ~files[h].used
  BY <1>1, FirstFacts DEF FreeHandles
<1>3. files' = [files EXCEPT ![h].used = TRUE] /\ LookUp(p, [o EXCEPT !.h = h])
  BY DEF Claim
<1> HIDE DEF h
<1> PICK a : a = [o EXCEPT !.h = h]
  OBVIOUS
<1>4. a \in OpType /\ a.call = o.call /\ a.h = h /\ a.src = o.src /\ a.name = o.name
      /\ a.create = o.create
  BY <1>2, HandleFacts DEF OpType
<1>5. LookUp(p, a)
  BY <1>3
<1>6. /\ temp' \in TempType /\ held' \in [Handle -> HeldType]
      /\ pc' = IF p = Here THEN "find" ELSE "walk"
      /\ op' \in OpType /\ op'.call = a.call /\ op'.h = a.h /\ op'.src = a.src
      /\ op'.name = a.name /\ op'.create = a.create
      /\ UNCHANGED <<diskVars, buf, cur, faults>>
  BY <1>4, <1>5, LookUpTypes DEF TInv
<1>7. files' \in [Handle -> FileType] /\ \A g \in Handle : Placed(files'[g])
  <2>1. files \in [Handle -> FileType] /\ \A g \in Handle : Placed(files[g])
    BY DEF TInv, FileTypes
  <2>2. PICK f : f = [files[h] EXCEPT !.used = TRUE]
    OBVIOUS
  <2>3. f \in FileType /\ f.fpos = files[h].fpos /\ f.lpos = files[h].lpos
    BY <1>2, <2>1, <2>2 DEF FileType
  <2>4. files' = [files EXCEPT ![h] = f]
    BY <1>3, <2>2
  <2> QED BY <1>2, <2>1, <2>3, <2>4 DEF Placed
<1> QED BY <1>2, <1>3, <1>4, <1>6, <1>7 DEF FileTypes

\* A step that only moves on to the search of a name.
LEMMA SearchPlaces ==
  ASSUME TInv, pc' \in {"walk", "find"}, op'.call \in Searches \cup {"chdir"},
         op'.call \in Searches => op'.name \in Names,
         op'.create => op'.call \in {"open", "mkdir", "move"},
         op'.call \in {"open", "mkdir", "move"} => op'.h \in Handle,
         op'.call \in {"chdir", "info"} => op'.h = 0,
         op'.call = "chdir" => pc' = "walk"
  PROVE  Places' /\ pc' \in PcType
  BY DEF Places, PcType

LEMMA ChdirTypes ==
  ASSUME TInv, NEW p \in Paths, Chdir(p)
  PROVE  TInv'
<1> PICK o : o = [NoCall EXCEPT !.call = "chdir", !.was = temp]
  OBVIOUS
<1>1. p # Here /\ LookUp(p, o) /\ UNCHANGED files /\ calls' = calls + 1
  BY DEF Chdir, Call
<1>2. NoCall.h = 0 /\ NoCall.create = FALSE
  BY DEF NoCall
<1>3. o \in OpType /\ o.call = "chdir" /\ o.h = 0 /\ o.create = FALSE
  BY <1>2, NoCallType DEF OpType, TInv, BufTypes
<1>4. /\ temp' \in TempType /\ held' \in [Handle -> HeldType]
      /\ pc' = "walk" /\ op' \in OpType /\ op'.call = "chdir" /\ op'.h = 0 /\ op'.create = FALSE
      /\ UNCHANGED <<diskVars, buf, cur, faults>>
  BY <1>1, <1>3, LookUpTypes DEF TInv, Searches
<1>5. Places' /\ pc' \in PcType
  BY <1>4, SearchPlaces DEF Searches
<1>6. DiskTypes'
  BY <1>4 DEF TInv, DiskTypes, diskVars
<1>7. BufTypes' /\ FileTypes'
  BY <1>1, <1>4 DEF TInv, BufTypes, FileTypes
<1>8. OpTypes'
  BY <1>1, <1>4, <1>5 DEF TInv, OpTypes
<1> QED BY <1>5, <1>6, <1>7, <1>8 DEF TInv

LEMMA InfoTypes ==
  ASSUME TInv, NEW p \in Paths, NEW n \in Sought, Getfileinfo(p, n)
  PROVE  TInv'
<1> PICK o : o = [NoCall EXCEPT !.call = "info", !.name = n]
  OBVIOUS
<1>1. LookUp(p, o) /\ UNCHANGED files /\ calls' = calls + 1
  BY DEF Getfileinfo, Call
<1>2. NoCall.h = 0 /\ NoCall.create = FALSE /\ n \in Names
  BY NameFacts DEF NoCall
<1>3. o \in OpType /\ o.call = "info" /\ o.h = 0 /\ o.create = FALSE /\ o.name = n
  BY <1>2, NoCallType DEF OpType, Searches
<1>4. /\ temp' \in TempType /\ held' \in [Handle -> HeldType]
      /\ pc' \in {"walk", "find"} /\ op' \in OpType /\ op'.call = "info" /\ op'.h = 0 /\ op'.create = FALSE
      /\ op'.name = n /\ UNCHANGED <<diskVars, buf, cur, faults>>
  BY <1>1, <1>3, LookUpTypes DEF TInv, Searches
<1>5. Places' /\ pc' \in PcType
  BY <1>2, <1>4, SearchPlaces DEF Searches
<1>6. DiskTypes'
  BY <1>4 DEF TInv, DiskTypes, diskVars
<1>7. BufTypes' /\ FileTypes'
  BY <1>1, <1>4 DEF TInv, BufTypes, FileTypes
<1>8. OpTypes'
  BY <1>1, <1>4, <1>5 DEF TInv, OpTypes
<1> QED BY <1>5, <1>6, <1>7, <1>8 DEF TInv

\* fatuc_fopen, fatuc_mkdir and fatuc_move_dentry begin alike.
LEMMA BeginTypes ==
  ASSUME TInv, NEW p \in Paths, NEW o \in OpType, Begin(p, o),
         o.call \in {"open", "mkdir", "move"}, o.name \in Names
  PROVE  TInv'
<1>1. calls' = calls + 1
  BY DEF Begin, Call
<1>2. CASE FreeHandles # {}
  <2>1. Claim(p, o)
    BY <1>2 DEF Begin
  <2>2. /\ temp' \in TempType /\ FileTypes' /\ op' \in OpType
        /\ pc' \in {"walk", "find"} /\ op'.call = o.call /\ op'.h \in Handle /\ op'.name = o.name
        /\ UNCHANGED <<diskVars, buf, cur, faults>>
    BY <1>2, <2>1, ClaimTypes
  <2>3. Places' /\ pc' \in PcType
    BY <2>2, SearchPlaces DEF Searches
  <2>4. DiskTypes'
    BY <2>2 DEF TInv, DiskTypes, diskVars
  <2>5. BufTypes' /\ OpTypes'
    BY <1>1, <2>2, <2>3 DEF TInv, BufTypes, OpTypes
  <2> QED BY <2>2, <2>3, <2>4, <2>5 DEF TInv
<1>3. CASE FreeHandles = {}
  <2>1. Return /\ UNCHANGED <<diskVars, bufVars, files, faults, held>>
    BY <1>3 DEF Begin
  <2>2. pc' \in PcType /\ op' \in OpType /\ Places'
    BY <2>1, ReturnTypes
  <2>3. DiskTypes' /\ BufTypes' /\ FileTypes'
    BY <2>1 DEF TInv, DiskTypes, diskVars, bufVars, BufTypes, FileTypes
  <2> QED BY <1>1, <2>1, <2>2, <2>3 DEF TInv, OpTypes
<1> QED BY <1>2, <1>3

LEMMA OpenTypes ==
  ASSUME TInv, NEW p \in Paths, NEW n \in Sought, NEW create \in BOOLEAN, Open(p, n, create)
  PROVE  TInv'
<1> PICK o : o = [NoCall EXCEPT !.call = "open", !.name = n, !.create = create]
  OBVIOUS
<1>1. o \in OpType /\ o.call = "open" /\ o.name = n /\ n \in Names
  BY NoCallType, NameFacts DEF OpType, Searches
<1> QED BY <1>1, BeginTypes DEF Open

LEMMA MkdirTypes ==
  ASSUME TInv, NEW p \in Paths, NEW n \in Sought, Mkdir(p, n)
  PROVE  TInv'
<1> PICK o : o = [NoCall EXCEPT !.call = "mkdir", !.name = n, !.create = TRUE]
  OBVIOUS
<1>1. o \in OpType /\ o.call = "mkdir" /\ o.name = n /\ n \in Names
  BY NoCallType, NameFacts DEF OpType, Searches
<1> QED BY <1>1, BeginTypes DEF Mkdir

LEMMA MoveTypes ==
  ASSUME TInv, NEW p \in Paths, NEW n \in Sought, NEW dest \in Dests, NEW to \in NewNames,
         Move(p, n, dest, to)
  PROVE  TInv'
<1> PICK o : o = [NoCall EXCEPT !.call = "move", !.name = n, !.dest = dest, !.to = to]
  OBVIOUS
<1>1. o \in OpType /\ o.call = "move" /\ o.name = n /\ n \in Names
  BY NoCallType, NameFacts, ConstAssumption DEF OpType, Searches
<1> QED BY <1>1, BeginTypes DEF Move

LEMMA StepsToTypes ==
  ASSUME TInv, op.toks # <<>>
  PROVE  StepsTo \subseteq Clus
<1> DEFINE d == Mem(op.at.buf)
           i == FirstOf(At(d, Head(op.toks)))
<1>1. d \in DirType
  BY MemType DEF TInv, OpTypes, OpType, AtType
<1>2. d.up \in Clus \cup {-1} /\ d.ent \in [Slot -> EntryType]
  BY <1>1, DirOf
<1>3. CASE IsUp
  BY <1>2, <1>3 DEF StepsTo
<1>4. CASE ~IsUp /\ At(d, Head(op.toks)) # {}
  <2>1. i \in Slot
    BY <1>4, AtFacts
  <2>2. d.ent[i].clus \in Clus
    BY <1>2, <2>1 DEF EntryType
  <2>3. StepsTo \subseteq {d.ent[i].clus}
    BY <1>4 DEF StepsTo
  <2> QED BY <2>2, <2>3
<1>5. CASE ~IsUp /\ At(d, Head(op.toks)) = {}
  BY <1>5 DEF StepsTo
<1> QED BY <1>3, <1>4, <1>5

LEMMA WalkToRootTypes ==
  ASSUME TInv, WalkToRoot
  PROVE  TInv'
<1>1. pc = "walk" /\ op.toks # <<>> /\ UNCHANGED <<diskVars, bufVars, files, pc, calls, faults, held>>
  BY DEF WalkToRoot
<1> PICK a : a = [buf |-> "RD", clus |-> Root]
  OBVIOUS
<1>2. op' = [op EXCEPT !.at = a, !.toks = Tail(op.toks)]
  BY DEF WalkToRoot
<1>3. op \in OpType /\ a \in AtType
  BY ClusFacts DEF TInv, OpTypes, AtType, BufName
<1>4. Tail(op.toks) \in Seq(Names \cup {UP})
  BY <1>1, <1>3 DEF OpType
<1>5. op' \in OpType /\ op'.call = op.call /\ op'.h = op.h /\ op'.name = op.name
      /\ op'.create = op.create
  BY <1>2, <1>3, <1>4 DEF OpType
<1>6. Places'
  BY <1>1, <1>5 DEF TInv, Places
<1> QED
  BY <1>1, <1>5, <1>6 DEF TInv, DiskTypes, diskVars, bufVars, BufTypes, FileTypes, OpTypes

LEMMA LoadTypes ==
  ASSUME TInv, NEW c \in Clus, NEW b \in BufName
  PROVE  [buf EXCEPT ![b] = disk[c]] \in [Bufs -> DirType]
  BY DEF TInv, DiskTypes

LEMMA WalkIntoTypes ==
  ASSUME TInv, WalkInto
  PROVE  TInv'
<1>1. pc = "walk" /\ op.toks # <<>> /\ UNCHANGED <<diskVars, cur, temp, files, pc, calls, faults, held>>
  BY DEF WalkInto
<1>2. PICK c \in StepsTo \ {Root} :
        /\ buf' = [buf EXCEPT ![temp.buf] = disk[c]]
        /\ op' = [op EXCEPT !.at = [buf |-> temp.buf, clus |-> c], !.toks = Tail(@)]
  BY DEF WalkInto
<1> PICK a : a = [buf |-> temp.buf, clus |-> c]
  OBVIOUS
<1>3. c \in Clus /\ temp.buf \in BufName
  BY <1>1, StepsToTypes DEF TInv, BufTypes, TempType
<1>4. op \in OpType /\ a \in AtType
  BY <1>3 DEF TInv, OpTypes, AtType
<1>5. Tail(op.toks) \in Seq(Names \cup {UP})
  BY <1>1, <1>4 DEF OpType
<1>6. op' = [op EXCEPT !.at = a, !.toks = Tail(op.toks)]
  BY <1>2
<1>7. op' \in OpType /\ op'.call = op.call /\ op'.h = op.h /\ op'.name = op.name
      /\ op'.create = op.create
  BY <1>4, <1>5, <1>6 DEF OpType
<1>8. Places'
  BY <1>1, <1>7 DEF TInv, Places
<1>9. buf' \in [Bufs -> DirType]
  BY <1>2, <1>3, LoadTypes
<1>10. DiskTypes'
  BY <1>1, <1>9 DEF TInv, DiskTypes, diskVars
<1> QED BY <1>1, <1>7, <1>8, <1>10 DEF TInv, BufTypes, FileTypes, OpTypes

LEMMA WalkStopTypes ==
  ASSUME TInv, WalkStop
  PROVE  TInv'
<1>1. op.toks # <<>> /\ UNCHANGED <<diskVars, cur, temp, files, calls, held>>
  BY DEF WalkStop
<1>2. buf' \in [Bufs -> DirType] /\ faults' \in Nat /\ (GiveUpCall("NOTFOUND") \/ GiveUpCall("FAILED"))
  <2>1. CASE StepsTo = {} /\ GiveUpCall("NOTFOUND") /\ UNCHANGED <<buf, faults>>
    BY <2>1 DEF TInv, DiskTypes, OpTypes
  <2>2. CASE \E c \in StepsTo \ {Root} :
               /\ Fault /\ GiveUpCall("FAILED")
               /\ buf' \in {buf, [buf EXCEPT ![temp.buf] = disk[c]]}
    <3> PICK c \in StepsTo \ {Root} :
               /\ Fault /\ GiveUpCall("FAILED")
               /\ buf' \in {buf, [buf EXCEPT ![temp.buf] = disk[c]]}
      BY <2>2
    <3>1. c \in Clus /\ temp.buf \in BufName
      BY <1>1, StepsToTypes DEF TInv, BufTypes, TempType
    <3>2. buf' \in [Bufs -> DirType]
      BY <3>1, LoadTypes DEF TInv, DiskTypes
    <3> QED BY <3>2 DEF Fault, TInv, OpTypes
  <2> QED BY <2>1, <2>2 DEF WalkStop
<1>3. pc' \in PcType /\ op' \in OpType /\ Places'
  BY <1>2, GiveUpTypes DEF Results
<1>4. DiskTypes'
  BY <1>1, <1>2 DEF TInv, DiskTypes, diskVars
<1> QED BY <1>1, <1>2, <1>3, <1>4 DEF TInv, BufTypes, FileTypes, OpTypes

LEMMA WalkEndTypes ==
  ASSUME TInv, WalkEnd
  PROVE  TInv'
<1>1. pc = "walk" /\ UNCHANGED <<diskVars, buf, files, calls, faults>>
  BY DEF WalkEnd
<1>2. DiskTypes'
  BY <1>1 DEF TInv, DiskTypes, diskVars
<1>3. op.at \in AtType
  BY DEF TInv, OpTypes, OpType
<1>4. CASE op.call = "chdir"
  <2>1. cur' = op.at /\ ResetTemp(cur') /\ GiveUp({"cur", "temp"}) /\ Return
    BY <1>4 DEF WalkEnd
  <2>2. temp' \in TempType
    BY <2>1, ResetTypes DEF TInv
  <2>3. held' \in [Handle -> HeldType]
    BY <2>1, GiveUpWays DEF TInv
  <2>4. pc' \in PcType /\ op' \in OpType /\ Places'
    BY <2>1, ReturnTypes
  <2> QED BY <1>1, <1>2, <1>3, <2>1, <2>2, <2>3, <2>4 DEF TInv, BufTypes, FileTypes, OpTypes
<1>5. CASE op.call # "chdir"
  <2>1. /\ temp' = [buf |-> op.at.buf, clus |-> op.at.clus, full |-> TRUE]
        /\ pc' = "find" /\ UNCHANGED <<cur, op, held>>
    BY <1>5 DEF WalkEnd
  <2>2. temp' \in TempType
    BY <1>3, <2>1 DEF AtType, TempType
  <2>3. Places' /\ pc' \in PcType
    BY <1>1, <1>5, <2>1 DEF TInv, Places, PcType
  <2> QED BY <1>1, <1>2, <2>1, <2>2, <2>3 DEF TInv, BufTypes, FileTypes, OpTypes
<1> QED BY <1>4, <1>5

LEMMA OpenedTypes ==
  ASSUME TInv, pc = "find", op.call # "info", NEW f \in FileType, Placed(f), f.name \in Names,
         OpenedWith(f)
  PROVE  FileTypes' /\ OpTypes' /\ Places'
<1>1. op.h \in Handle /\ op.call \in {"open", "mkdir", "move"} /\ op \in OpType
  BY DEF TInv, Places, Searches, OpTypes
<1>2. files' = [files EXCEPT ![op.h] = f] /\ held' = [held EXCEPT ![op.h] = HeldAs]
      /\ UNCHANGED <<calls, faults>>
  BY DEF OpenedWith
<1>3. HeldAs \in HeldType
  BY DEF HeldAs, HeldType
<1>4. FileTypes'
  BY <1>1, <1>2, <1>3 DEF TInv, FileTypes
<1>5. CASE Opened = "idle"
  <2>1. Return
    BY <1>5 DEF OpenedWith
  <2>2. pc' \in PcType /\ op' \in OpType /\ Places'
    BY <2>1, ReturnTypes
  <2> QED BY <1>2, <1>4, <2>2 DEF TInv, OpTypes
<1>6. CASE Opened # "idle"
  <2>1. pc' = Opened /\ UNCHANGED op
    BY <1>6 DEF OpenedWith
  <2>2. Opened \in {"remove", "name", "mkdir"}
        /\ (Opened = "name" => op.src # 0 /\ op.call = "move")
        /\ (Opened = "remove" => op.call = "move")
    BY <1>6 DEF Opened
  <2>3. files'[op.h].name \in Names
    BY <1>1, <1>2 DEF TInv, FileTypes
  <2>4. op.src \in 0 .. NumFiles
    BY <1>1 DEF OpType
  <2>5. Places' /\ pc' \in PcType
    BY <1>1, <2>1, <2>2, <2>3, <2>4, HandleFacts DEF TInv, Places, PcType
  <2> QED BY <1>2, <1>4, <2>1, <2>5 DEF TInv, OpTypes
<1> QED BY <1>5, <1>6

LEMMA FindTypes ==
  ASSUME TInv, Find
  PROVE  TInv'
<1> DEFINE d == Mem(op.at.buf)
           i == FirstOf(Found(d))
           e == d.ent[i]
           f == [used |-> TRUE, name |-> e.name, attr |-> e.attr, clus |-> e.clus,
                 size |-> e.size, fpos |-> LfnStart(d, i), lpos |-> i, upd |-> {},
                 dclus |-> op.at.clus]
<1>1. /\ pc = "find" /\ Found(d) # {} /\ op.call # "info" /\ OpenedWith(f)
      /\ UNCHANGED <<diskVars, bufVars>>
  BY DEF Find
<1>2. d \in DirType /\ op.at.clus \in Clus
  BY MemType DEF TInv, OpTypes, OpType, AtType
<1>3. i \in Slot /\ e.name = op.name
  BY <1>1, AtFacts DEF Found
<1>4. e \in EntryType
  BY <1>2, <1>3, DirOf
<1>5. op.name \in Names
  BY <1>1 DEF TInv, Places, Searches
<1>6. LfnStart(d, i) \in 1 .. i
  BY <1>3, LfnTypes
<1> HIDE DEF d, i, e
<1>7. i \in Nat /\ i >= 1 /\ i <= NumSlots /\ NumSlots \in Nat
  BY <1>3, SlotFacts, Constants
<1>8. e.attr \in {"", "ARCHIVE", "DIR"} /\ e.clus \in Clus /\ e.size \in {0, 1}
  BY <1>4 DEF EntryType
<1>9. LfnStart(d, i) \in 0 .. NumSlots /\ i \in 0 .. NumSlots /\ LfnStart(d, i) <= i
      /\ LfnStart(d, i) # 0
  BY <1>6, <1>7
<1>10. f \in FileType /\ Placed(f) /\ f.name \in Names
  BY <1>2, <1>3, <1>5, <1>8, <1>9 DEF FileType, Placed, Flags
<1> HIDE DEF f
<1>11. FileTypes' /\ OpTypes' /\ Places'
  BY <1>1, <1>10, OpenedTypes
<1> QED BY <1>1, <1>11 DEF TInv, DiskTypes, BufTypes, diskVars, bufVars

LEMMA FindInfoTypes ==
  ASSUME TInv, FindInfo
  PROVE  TInv'
<1>1. Return /\ UNCHANGED <<diskVars, bufVars, files, calls, faults, held>>
  BY DEF FindInfo
<1>2. pc' \in PcType /\ op' \in OpType /\ Places'
  BY <1>1, ReturnTypes
<1> QED BY <1>1, <1>2 DEF TInv, DiskTypes, diskVars, bufVars, BufTypes, FileTypes, OpTypes

\* One file's description changes, the others keep theirs.
LEMMA OneFile ==
  ASSUME FileTypes, NEW h \in Handle, NEW f \in FileType, Placed(f),
         files' = [files EXCEPT ![h] = f]
  PROVE  files' \in [Handle -> FileType] /\ \A g \in Handle : Placed(files'[g])
  BY DEF FileTypes

LEMMA OneHeld ==
  ASSUME FileTypes, NEW h, NEW w \in HeldType, held' = [held EXCEPT ![h] = w]
  PROVE  held' \in [Handle -> HeldType]
  BY DEF FileTypes

LEMMA FindNoneTypes ==
  ASSUME TInv, FindNone
  PROVE  TInv'
<1>1. /\ pc = "find" /\ op.call # "info" /\ GiveUpCall("NOTFOUND")
      /\ files' = [files EXCEPT ![op.h] = Searched(files[op.h])]
      /\ UNCHANGED <<diskVars, bufVars, calls, faults, held>>
  BY DEF FindNone
<1>2. op.h \in Handle /\ op.at.clus \in Clus
  BY <1>1 DEF TInv, Places, Searches, OpTypes, OpType, AtType
<1> PICK f : f = files[op.h]
  OBVIOUS
<1>3. f \in FileType /\ Placed(f)
  BY <1>2 DEF TInv, FileTypes
<1>4. [f EXCEPT !.dclus = op.at.clus] \in FileType /\ Placed([f EXCEPT !.dclus = op.at.clus])
  BY <1>2, <1>3 DEF FileType, Placed
<1>5. [NoFile EXCEPT !.used = TRUE, !.dclus = op.at.clus] \in FileType
      /\ Placed([NoFile EXCEPT !.used = TRUE, !.dclus = op.at.clus])
  BY <1>2, NoFileType DEF FileType, Placed
<1>6. Searched(f) \in FileType /\ Placed(Searched(f))
  BY <1>4, <1>5 DEF Searched
<1>7. files' \in [Handle -> FileType] /\ \A g \in Handle : Placed(files'[g])
  BY <1>1, <1>2, <1>6, OneFile DEF TInv
<1>8. pc' \in PcType /\ op' \in OpType /\ Places'
  BY <1>1, GiveUpTypes DEF Results
<1> QED BY <1>1, <1>7, <1>8 DEF TInv, DiskTypes, diskVars, bufVars, BufTypes, FileTypes, OpTypes

LEMMA PutEntryType ==
  ASSUME NEW d \in DirType, NEW i, NEW k, op.name \in Names
  PROVE  PutEntry(d, i, k) \in DirType
<1> DEFINE g == [j \in Slot |-> IF j \in i .. (i + k - 2) THEN Mark("FREE")
                                ELSE IF j = i + k - 1 THEN Entry(op.name, "ARCHIVE", 0, 0)
                                ELSE d.ent[j]]
<1>1. Entry(op.name, "ARCHIVE", 0, 0) \in EntryType
  BY ClusFacts DEF Entry, EntryType
<1>2. Mark("FREE") \in EntryType
  BY MarkTypes
<1>3. \A j \in Slot : d.ent[j] \in EntryType
  BY DirOf
<1>4. g \in [Slot -> EntryType]
  BY <1>1, <1>2, <1>3
<1> HIDE DEF g
<1>5. [d EXCEPT !.ent = g] \in DirType
  BY <1>4, DirOf
<1> QED BY <1>5 DEF PutEntry, g

LEMMA CreateTypes ==
  ASSUME TInv, Create
  PROVE  TInv'
<1> DEFINE d == Mem(op.at.buf)
           k == op.slots
           i == FirstOf(FreeEntry(d, k))
<1>1. pc = "find" /\ op.create
  BY DEF Create
<1>2. d \in DirType /\ op.at.clus \in Clus /\ op.at.buf \in BufName /\ k \in Nat \ {0}
  BY MemType DEF TInv, OpTypes, OpType, AtType
<1>3. CASE FreeEntry(d, k) = {}
  <2> PICK f : f = [NoFile EXCEPT !.used = TRUE, !.dclus = op.at.clus]
    OBVIOUS
  <2>1. files' = [files EXCEPT ![op.h] = f]
        /\ GiveUpCall("NOMORE") /\ UNCHANGED <<diskVars, bufVars, calls, faults, held>>
    BY <1>3 DEF Create
  <2>2. f \in FileType /\ Placed(f)
    BY <1>2, NoFileType DEF FileType, Placed
  <2>3. files' \in [Handle -> FileType] /\ \A g \in Handle : Placed(files'[g])
    <3>1. CASE op.h \in Handle
      BY <2>1, <2>2, <3>1, OneFile DEF TInv
    <3>2. CASE op.h \notin Handle
      BY <2>1, <3>2 DEF TInv, FileTypes
    <3> QED BY <3>1, <3>2
  <2>4. pc' \in PcType /\ op' \in OpType /\ Places'
    BY <2>1, GiveUpTypes DEF Results
  <2> QED BY <2>1, <2>3, <2>4 DEF TInv, DiskTypes, diskVars, bufVars, BufTypes, FileTypes, OpTypes
<1>4. CASE FreeEntry(d, k) # {}
  <2> DEFINE f == [used |-> TRUE, name |-> op.name, attr |-> "ARCHIVE", clus |-> 0,
                   size |-> 0, fpos |-> i + k - 1, lpos |-> i + k - 1,
                   upd |-> {"ALL"}, dclus |-> op.at.clus]
  <2>1. /\ SetMem(op.at.buf, PutEntry(d, i, k)) /\ OpenedWith(f)
        /\ UNCHANGED <<rdUpdated, disk, used, cur, temp>>
    BY <1>4 DEF Create
  <2>2. i + k - 1 \in Slot
    BY <1>2, <1>4, FreeTypes
  <2>4. op.name \in Names /\ op.call # "info"
    BY <1>1 DEF TInv, Places, Searches
  <2> HIDE DEF d, k, i
  <2>5. PutEntry(d, i, k) \in DirType
    BY <1>2, <2>4, PutEntryType
  <2>6. rd' \in DirType /\ buf' \in [Bufs -> DirType]
    BY <1>2, <2>1, <2>5, SetMemType DEF TInv
  <2>7. DiskTypes' /\ BufTypes'
    BY <2>1, <2>6 DEF TInv, DiskTypes, BufTypes
  <2>8. f \in FileType /\ Placed(f) /\ f.name \in Names
    <3> PICK l : l = i + k - 1
      OBVIOUS
    <3>1. l \in Nat /\ l >= 1 /\ l <= NumSlots /\ NumSlots \in Nat
      BY <2>2, SlotFacts, Constants
    <3>2. l \in 0 .. NumSlots /\ l <= l /\ l # 0
      BY <3>1
    <3> QED BY <1>2, <2>4, <3>2, ClusFacts DEF FileType, Placed, Flags
  <2> HIDE DEF f
  <2>9. FileTypes' /\ OpTypes' /\ Places'
    BY <1>1, <2>1, <2>4, <2>8, OpenedTypes
  <2> QED BY <2>7, <2>9 DEF TInv
<1> QED BY <1>3, <1>4

LEMMA WrittenType ==
  ASSUME NEW f \in FileType, Placed(f), NEW c \in Clus, NEW s \in {0, 1}, NEW grown \in BOOLEAN,
         NEW w, w = Written(f, c, s, grown)
  PROVE  /\ w \in FileType /\ Placed(w)
         /\ w.name = f.name /\ w.dclus = f.dclus /\ w.attr = f.attr
         /\ w.fpos = f.fpos /\ w.lpos = f.lpos /\ w.used = f.used
<1> DEFINE u == f.upd \cup (IF f.clus # c THEN {"CLUS"} ELSE {})
                      \cup (IF f.size # s \/ grown THEN {"SIZE"} ELSE {})
<1>1. u \in SUBSET Flags
  BY DEF FileType, Flags
<1>2. w = [f EXCEPT !.clus = c, !.size = s, !.upd = u]
  BY DEF Written, FileType
<1> HIDE DEF u
<1> QED BY <1>1, <1>2 DEF FileType, Placed

\* Either kind of write leaves a written file behind.
LEMMA WriteShape ==
  ASSUME NEW h \in Handle, files[h] \in FileType, WriteFile(h) \/ WriteNothing(h)
  PROVE  \E c \in Clus, s \in {0, 1}, grown \in BOOLEAN :
           files' = [files EXCEPT ![h] = Written(files[h], c, s, grown)]
<1>1. files[h].clus \in Clus /\ files[h].size \in {0, 1} /\ 0 \in Clus /\ Chains \subseteq Clus
  BY ClusFacts DEF FileType, Root
<1>2. CASE WriteFile(h)
  <2>1. PICK c \in IF files[h].clus = 0 THEN Chains \ used ELSE {files[h].clus} :
          \E s \in {1, files[h].size}, grown \in BOOLEAN :
            files' = [files EXCEPT ![h] = Written(@, c, s, grown)]
    BY <1>2 DEF WriteFile
  <2>2. c \in Clus
    BY <1>1
  <2> QED BY <1>1, <2>1, <2>2
<1>3. CASE WriteNothing(h)
  BY <1>1, <1>3 DEF WriteNothing
<1> QED BY <1>2, <1>3

LEMMA WriteFileTypes ==
  ASSUME TInv, NEW h \in Handle, WriteFile(h)
  PROVE  TInv'
<1>1. calls' = calls + 1 /\ pc = "idle" /\ UNCHANGED <<rd, rdUpdated, bufVars, pc, op, held>>
  BY DEF WriteFile, Writable, Call
<1> DEFINE C == IF files[h].clus = 0 THEN Chains \ used ELSE {files[h].clus}
<1>2. PICK c \in C : \E s \in {1, files[h].size}, grown \in BOOLEAN :
         /\ IF s = 1 THEN UNCHANGED faults ELSE Fault
         /\ files' = [files EXCEPT ![h] = Written(@, c, s, grown)]
         /\ used' = used \cup {c}
         /\ disk' = [disk EXCEPT ![c] = Zeros]
  BY DEF WriteFile
<1>3. PICK s \in {1, files[h].size}, grown \in BOOLEAN :
         /\ IF s = 1 THEN UNCHANGED faults ELSE Fault
         /\ files' = [files EXCEPT ![h] = Written(files[h], c, s, grown)]
         /\ used' = used \cup {c}
         /\ disk' = [disk EXCEPT ![c] = Zeros]
  BY <1>2
<1>4. files[h] \in FileType /\ Placed(files[h])
  BY DEF TInv, FileTypes
<1>5. files[h].clus \in Clus /\ s \in {0, 1}
  BY <1>4 DEF FileType
<1>6. c \in Chains
  BY <1>5, ClusFacts DEF Root
<1> HIDE DEF C
<1>7. files' \in [Handle -> FileType] /\ \A g \in Handle : Placed(files'[g])
  <2> PICK f : f = Written(files[h], c, s, grown)
    OBVIOUS
  <2>1. f \in FileType /\ Placed(f)
    BY <1>4, <1>5, <1>6, WrittenType, ClusFacts
  <2> QED BY <2>1, <1>3, OneFile DEF TInv
<1>8. DiskTypes'
  BY <1>1, <1>3, <1>6, ZerosType, ClusFacts DEF TInv, DiskTypes, bufVars
<1>9. faults' \in Nat
  BY <1>3 DEF Fault, TInv, OpTypes
<1>10. Places'
  BY <1>1 DEF TInv, Places
<1> QED BY <1>1, <1>7, <1>8, <1>9, <1>10 DEF TInv, BufTypes, FileTypes, OpTypes, bufVars

LEMMA WriteNothingTypes ==
  ASSUME TInv, NEW h \in Handle, WriteNothing(h)
  PROVE  TInv'
<1>1. /\ calls' = calls + 1 /\ NoCluster
      /\ UNCHANGED <<rd, rdUpdated, disk, used, bufVars, pc, op, held>>
  BY DEF WriteNothing, Writable, Call
<1>2. files[h] \in FileType /\ Placed(files[h])
  BY DEF TInv, FileTypes
<1> PICK f : f = Written(files[h], 0, files[h].size, TRUE)
  OBVIOUS
<1>3. files' = [files EXCEPT ![h] = f]
  BY DEF WriteNothing
<1>4. f \in FileType /\ Placed(f)
  <2>1. 0 \in Clus /\ files[h].size \in {0, 1}
    BY <1>2, ClusFacts DEF FileType, Root
  <2> QED BY <1>2, <2>1, WrittenType
<1>5. files' \in [Handle -> FileType] /\ \A g \in Handle : Placed(files'[g])
  BY <1>3, <1>4, OneFile DEF TInv
<1>6. faults' \in Nat
  BY <1>1 DEF NoCluster, Fault, TInv, OpTypes
<1>7. Places'
  BY <1>1 DEF WriteNothing, Writable, Call, TInv, Places
<1> QED BY <1>1, <1>5, <1>6, <1>7 DEF TInv, DiskTypes, BufTypes, FileTypes, OpTypes, bufVars

LEMMA MkdirExistsTypes ==
  ASSUME TInv, MkdirExists
  PROVE  TInv'
<1>1. pc = "mkdir" /\ Close(<<op.h>>, "INVALID")
      /\ UNCHANGED <<diskVars, bufVars, files, calls, faults, held>>
  BY DEF MkdirExists
<1>2. op.h \in Handle
  BY <1>1 DEF TInv, Places
<1>3. pc' \in PcType /\ op' \in OpType /\ Places'
  BY <1>1, <1>2, CloseOne DEF Results
<1> QED BY <1>1, <1>3 DEF TInv, DiskTypes, diskVars, bufVars, BufTypes, FileTypes, OpTypes

\* The file of a new directory, with a chain or without.
LEMMA MkdirShape ==
  ASSUME op.h \in Handle, files[op.h] \in FileType, Placed(files[op.h]), MkdirClear
  PROVE  \E v \in FileType :
           /\ files' = [files EXCEPT ![op.h] = v] /\ Placed(v)
           /\ v.name = files[op.h].name /\ v.dclus = files[op.h].dclus /\ v.used = files[op.h].used
           /\ v.fpos = files[op.h].fpos /\ v.lpos = files[op.h].lpos
<1> PICK f : f = files[op.h]
  OBVIOUS
<1>1. f \in FileType /\ Placed(f) /\ f.size \in {0, 1} /\ 0 \in Clus /\ Chains \subseteq Clus
  BY ClusFacts DEF FileType, Root
<1>2. PICK c \in Clus, s \in {0, 1}, grown \in BOOLEAN :
        files' = [files EXCEPT ![op.h] = [Written(f, c, s, grown) EXCEPT !.attr = "DIR"]]
  <2>1. CASE \E c \in Chains \ used, s \in {0, 1} :
               files' = [files EXCEPT ![op.h] = [Written(@, c, s, TRUE) EXCEPT !.attr = "DIR"]]
    BY <1>1, <2>1
  <2>2. CASE files' = [files EXCEPT ![op.h] = [Written(@, 0, @.size, TRUE) EXCEPT !.attr = "DIR"]]
    BY <1>1, <2>2
  <2> QED BY <2>1, <2>2 DEF MkdirClear
<1> PICK w : w = Written(f, c, s, grown)
  OBVIOUS
<1>3. files' = [files EXCEPT ![op.h] = [w EXCEPT !.attr = "DIR"]]
  BY <1>2
<1>4. /\ w \in FileType /\ Placed(w) /\ w.name = f.name /\ w.dclus = f.dclus /\ w.attr = f.attr
      /\ w.fpos = f.fpos /\ w.lpos = f.lpos /\ w.used = f.used
  BY ONLY <1>1, c \in Clus, s \in {0, 1}, grown \in BOOLEAN, w = Written(f, c, s, grown), WrittenType
<1> PICK v : v = [w EXCEPT !.attr = "DIR"]
  OBVIOUS
<1>5. /\ v \in FileType /\ Placed(v) /\ v.name = f.name /\ v.dclus = f.dclus
      /\ v.fpos = f.fpos /\ v.lpos = f.lpos /\ v.used = f.used
  BY <1>4 DEF FileType, Placed
<1> QED BY <1>3, <1>5

LEMMA MkdirClearTypes ==
  ASSUME TInv, MkdirClear
  PROVE  TInv'
<1>1. pc = "mkdir" /\ UNCHANGED <<rd, rdUpdated, bufVars, calls, held>>
  BY DEF MkdirClear
<1>2. op.h \in Handle
  BY <1>1 DEF TInv, Places
<1>3. files[op.h] \in FileType /\ Placed(files[op.h])
  BY <1>2 DEF TInv, FileTypes
<1>4. ASSUME NEW r \in Results, Close(<<op.h>>, r)
      PROVE  pc' \in PcType /\ op' \in OpType /\ Places'
  BY <1>2, <1>4, CloseOne
<1>5. files' \in [Handle -> FileType] /\ \A g \in Handle : Placed(files'[g])
  <2>1. PICK v \in FileType : files' = [files EXCEPT ![op.h] = v] /\ Placed(v)
    BY <1>2, <1>3, MkdirShape
  <2> QED BY <1>2, <2>1, OneFile DEF TInv
<1>6. DiskTypes'
  <2>1. \/ UNCHANGED <<used, disk>>
        \/ \E c \in Chains : used' = used \cup {c} /\ disk' = [disk EXCEPT ![c] = Zeros]
    BY DEF MkdirClear
  <2>2. CASE UNCHANGED <<used, disk>>
    BY <1>1, <2>2 DEF TInv, DiskTypes, bufVars
  <2>3. CASE \E c \in Chains : used' = used \cup {c} /\ disk' = [disk EXCEPT ![c] = Zeros]
    BY <1>1, <2>3, ZerosType, ClusFacts DEF TInv, DiskTypes, bufVars
  <2> QED BY <2>1, <2>2, <2>3
<1>7. pc' \in PcType /\ op' \in OpType /\ Places' /\ faults' \in Nat
  <2>1. \/ pc' = "dots" /\ UNCHANGED <<op, faults>>
        \/ Fault /\ Close(<<op.h>>, "FAILED")
        \/ Close(<<op.h>>, "NOMORE") /\ UNCHANGED faults
    BY DEF MkdirClear
  <2>2. CASE pc' = "dots" /\ UNCHANGED <<op, faults>>
    <3>1. Places'
      BY <1>1, <1>2, <2>2 DEF TInv, Places
    <3> QED BY <2>2, <3>1 DEF TInv, OpTypes, PcType
  <2>3. CASE Fault /\ Close(<<op.h>>, "FAILED")
    BY <1>4, <2>3 DEF TInv, OpTypes, Results, Fault
  <2>4. CASE Close(<<op.h>>, "NOMORE") /\ UNCHANGED faults
    BY <1>4, <2>4 DEF TInv, OpTypes, Results
  <2> QED BY <2>1, <2>2, <2>3, <2>4
<1> QED BY <1>1, <1>5, <1>6, <1>7 DEF TInv, BufTypes, FileTypes, OpTypes, bufVars

LEMMA DotsType ==
  ASSUME NEW f \in FileType
  PROVE  Dots(f) \in DirType /\ Dots(f).ent = Zeros.ent
  BY ZerosType DEF Dots, Dir, DirType, FileType

LEMMA MkdirDotsTypes ==
  ASSUME TInv, MkdirDots
  PROVE  TInv'
<1> DEFINE f == files[op.h]
           onDisk == [disk EXCEPT ![f.clus] = Dots(f)]
<1>1. pc = "dots" /\ UNCHANGED <<rd, rdUpdated, used, bufVars, calls, held>>
  BY DEF MkdirDots
<1>2. op.h \in Handle
  BY <1>1 DEF TInv, Places
<1>3. f \in FileType /\ Placed(f)
  BY <1>2 DEF TInv, FileTypes
<1>4. onDisk \in [Clus -> DirType]
  BY <1>3, DotsType DEF TInv, DiskTypes
<1>5. ASSUME NEW r \in Results, Close(<<op.h>>, r)
      PROVE  pc' \in PcType /\ op' \in OpType /\ Places'
  BY <1>2, <1>5, CloseOne
<1>6. \/ /\ disk' = onDisk /\ files' = [files EXCEPT ![op.h].size = 0]
         /\ Close(<<op.h>>, "OK") /\ UNCHANGED faults
      \/ /\ Fault /\ disk' \in {disk, onDisk}
         /\ Close(<<op.h>>, "FAILED") /\ UNCHANGED files
  BY DEF MkdirDots
<1> HIDE DEF onDisk
<1>7. disk' \in [Clus -> DirType]
  BY <1>4, <1>6 DEF TInv, DiskTypes
<1>8. pc' \in PcType /\ op' \in OpType /\ Places' /\ faults' \in Nat
  BY <1>5, <1>6 DEF TInv, OpTypes, Results, Fault
<1>9. files' \in [Handle -> FileType] /\ \A g \in Handle : Placed(files'[g])
  <2> PICK v : v = [f EXCEPT !.size = 0]
    OBVIOUS
  <2>1. v \in FileType /\ Placed(v)
    BY <1>3 DEF FileType, Placed
  <2>2. CASE files' = [files EXCEPT ![op.h].size = 0]
    BY <1>2, <2>1, <2>2, OneFile DEF TInv
  <2>3. CASE files' = files
    BY <2>3 DEF TInv, FileTypes
  <2> QED BY <1>6, <2>2, <2>3
<1> QED BY <1>1, <1>7, <1>8, <1>9 DEF TInv, DiskTypes, bufVars, BufTypes, FileTypes, OpTypes

LEMMA DeleteTypes ==
  ASSUME TInv, NEW h \in Handle, Delete(h)
  PROVE  TInv'
<1>1. /\ calls' = calls + 1 /\ pc = "idle"
      /\ UNCHANGED <<rd, rdUpdated, disk, bufVars, files>>
  BY DEF Delete, Call
<1>2. CASE /\ used' = used \ {files[h].clus}
           /\ pc' = "remove" /\ op' = [NoCall EXCEPT !.call = "delete", !.h = h]
           /\ UNCHANGED <<faults, held>>
  <2>1. NoCall.create = FALSE
    BY DEF NoCall
  <2>2. op' \in OpType /\ op'.call = "delete" /\ op'.h = h /\ op'.create = FALSE
    BY <1>2, <2>1, NoCallType, HandleFacts DEF OpType
  <2>3. Places' /\ pc' \in PcType
    BY <1>2, <2>2 DEF Places, PcType, Searches
  <2> QED BY <1>1, <1>2, <2>2, <2>3
       DEF TInv, DiskTypes, bufVars, BufTypes, FileTypes, OpTypes
<1>3. CASE /\ Fault /\ UNCHANGED <<used, pc, op>>
           /\ held' = [held EXCEPT ![h] = "dead"]
  <2>1. held' \in [Handle -> HeldType]
    BY <1>3, OneHeld DEF TInv, HeldType
  <2>2. Places'
    BY <1>1, <1>3 DEF TInv, Places
  <2> QED BY <1>1, <1>3, <2>1, <2>2
       DEF TInv, DiskTypes, bufVars, BufTypes, FileTypes, OpTypes, Fault
<1> QED BY <1>2, <1>3 DEF Delete

LEMMA WithoutType ==
  ASSUME NEW d \in DirType, NEW f
  PROVE  Without(d, f) \in DirType
<1> DEFINE g == [i \in Slot |-> IF i \in f.fpos .. f.lpos THEN Mark("FREE") ELSE d.ent[i]]
<1>1. Mark("FREE") \in EntryType /\ \A i \in Slot : d.ent[i] \in EntryType
  BY MarkTypes, DirOf
<1>2. g \in [Slot -> EntryType]
  BY <1>1
<1> HIDE DEF g
<1>3. [d EXCEPT !.ent = g] \in DirType
  BY <1>2, DirOf
<1> QED BY <1>3 DEF Without, g

LEMMA SlotsForType ==
  ASSUME NEW to, NEW f \in FileType, Placed(f)
  PROVE  SlotsFor(to, f) \in Nat \ {0}
<1>1. f.fpos \in Nat /\ f.lpos \in Nat
  <2>1. f.fpos \in 0 .. NumSlots /\ f.lpos \in 0 .. NumSlots
    BY DEF FileType
  <2> QED BY <2>1
<1>2. f.fpos <= f.lpos
  BY DEF Placed
<1> QED BY <1>1, <1>2, Constants DEF SlotsFor

LEMMA RemoveTypes ==
  ASSUME TInv, Remove
  PROVE  TInv'
<1>1. /\ pc = "remove" /\ held' = [held EXCEPT ![op.h] = "dead"]
      /\ UNCHANGED <<used, cur, temp, calls>>
  BY DEF Remove
<1>2. op.h \in Handle /\ op \in OpType
  BY <1>1 DEF TInv, Places, OpTypes
<1> PICK f : f = files[op.h]
  OBVIOUS
<1>3. f \in FileType /\ Placed(f)
  BY <1>2 DEF TInv, FileTypes
<1> DEFINE D(b) == Without(Mem(b.buf), f)
<1>4. PICK b \in DirBufOf(op.h) :
         /\ SetMem(b.buf, D(b))
         /\ \/ /\ SaveOk(op.h, b, D(b))
               /\ files' = [files EXCEPT ![op.h].upd = {}]
               /\ UNCHANGED faults
               /\ IF op.call = "delete" THEN Return
                  ELSE /\ pc' = "dest"
                       /\ op' = [op EXCEPT !.src = op.h, !.h = 0, !.create = TRUE,
                                   !.name = IF op.to = "END" THEN f.name ELSE op.to,
                                   !.slots = SlotsFor(op.to, f)]
            \/ SaveFails(op.h, b, D(b)) /\ RemoveStops("FAILED") /\ UNCHANGED files
  BY DEF Remove
<1> PICK d : d = D(b)
  OBVIOUS
<1>5. b.buf \in BufName /\ b.full \in BOOLEAN
  BY DirBufTypes DEF TInv
<1>6. d \in DirType
  BY <1>5, MemType, WithoutType DEF TInv
<1>7. SetMem(b.buf, d)
  BY <1>4
<1>8. rd' \in DirType /\ buf' \in [Bufs -> DirType]
  BY <1>5, <1>6, <1>7, SetMemType DEF TInv
<1>9. held' \in [Handle -> HeldType]
  BY <1>1, OneHeld DEF TInv, HeldType
<1>10. CASE /\ SaveOk(op.h, b, d)
            /\ files' = [files EXCEPT ![op.h].upd = {}]
            /\ UNCHANGED faults
            /\ IF op.call = "delete" THEN Return
               ELSE /\ pc' = "dest"
                    /\ op' = [op EXCEPT !.src = op.h, !.h = 0, !.create = TRUE,
                                !.name = IF op.to = "END" THEN f.name ELSE op.to,
                                !.slots = SlotsFor(op.to, f)]
  <2>1. disk' \in [Clus -> DirType] /\ rdUpdated' \in BOOLEAN
    BY <1>6, <1>10, SaveOkTypes DEF TInv
  <2>2. files' \in [Handle -> FileType] /\ \A g \in Handle : Placed(files'[g])
    <3> PICK v : v = [f EXCEPT !.upd = {}]
      OBVIOUS
    <3>1. v \in FileType /\ Placed(v)
      BY <1>3 DEF FileType, Placed
    <3> QED BY <1>2, <1>10, <3>1, OneFile DEF TInv
  <2>3. pc' \in PcType /\ op' \in OpType /\ Places'
    <3>1. CASE op.call = "delete"
      BY <1>10, <3>1, ReturnTypes
    <3>2. CASE op.call # "delete"
      <4> PICK n : n = IF op.to = "END" THEN f.name ELSE op.to
        OBVIOUS
      <4> PICK k : k = SlotsFor(op.to, f)
        OBVIOUS
      <4>1. pc' = "dest" /\ op' = [op EXCEPT !.src = op.h, !.h = 0, !.create = TRUE,
                                     !.name = n, !.slots = k]
        BY <1>10, <3>2
      <4>2. op.call = "move" /\ f.name \in Names
        BY <1>1, <3>2 DEF TInv, Places
      <4>3. n \in Names
        BY <1>2, <4>2 DEF OpType
      <4>4. k \in Nat \ {0}
        BY <1>3, SlotsForType
      <4>5. op' \in OpType /\ op'.call = "move" /\ op'.src = op.h /\ op'.name = n
        BY <1>2, <4>1, <4>2, <4>3, <4>4, HandleFacts DEF OpType
      <4>6. Places' /\ pc' \in PcType
        BY <1>2, <4>1, <4>3, <4>5 DEF Places, PcType
      <4> QED BY <4>5, <4>6
    <3> QED BY <3>1, <3>2
  <2> QED BY <1>1, <1>8, <1>9, <1>10, <2>1, <2>2, <2>3
       DEF TInv, DiskTypes, BufTypes, FileTypes, OpTypes
<1>11. CASE SaveFails(op.h, b, d) /\ RemoveStops("FAILED") /\ UNCHANGED files
  <2>1. disk' \in [Clus -> DirType] /\ rdUpdated' \in BOOLEAN /\ faults' \in Nat
    BY <1>6, <1>11, SaveFailsTypes DEF TInv
  <2>2. Return \/ Close(<<op.h>>, "FAILED")
    BY <1>11 DEF RemoveStops
  <2>3. pc' \in PcType /\ op' \in OpType /\ Places'
    BY <1>2, <2>2, ReturnTypes, CloseOne DEF Results
  <2> QED BY <1>1, <1>8, <1>9, <1>11, <2>1, <2>3
       DEF TInv, DiskTypes, BufTypes, FileTypes, OpTypes
<1> QED BY <1>4, <1>10, <1>11

LEMMA RemoveNowhereTypes ==
  ASSUME TInv, RemoveNowhere
  PROVE  TInv'
<1>1. /\ pc = "remove" /\ RemoveStops("NOTSUPPORTED") /\ held' = [held EXCEPT ![op.h] = "dead"]
      /\ UNCHANGED <<diskVars, bufVars, files, calls, faults>>
  BY DEF RemoveNowhere
<1>2. op.h \in Handle
  BY <1>1 DEF TInv, Places
<1>3. Return \/ Close(<<op.h>>, "NOTSUPPORTED")
  BY <1>1 DEF RemoveStops
<1>4. "NOTSUPPORTED" \in Results
  BY DEF Results
<1>6. pc' \in PcType /\ op' \in OpType /\ Places'
  BY <1>2, <1>3, <1>4, ReturnTypes, CloseOne
<1>7. held' \in [Handle -> HeldType]
  BY <1>1, OneHeld DEF TInv, HeldType
<1> QED BY <1>1, <1>6, <1>7
     DEF TInv, DiskTypes, diskVars, bufVars, BufTypes, FileTypes, OpTypes

LEMMA MoveDestTypes ==
  ASSUME TInv, MoveDest
  PROVE  TInv'
<1>1. pc = "dest" /\ UNCHANGED calls /\ op.src \in Handle /\ op.call = "move" /\ op \in OpType
  BY DEF MoveDest, TInv, Places, OpTypes
<1>2. op.dest \in Paths /\ op.name \in Names
  BY <1>1 DEF OpType, TInv, Places, Searches
<1>3. CASE FreeHandles # {}
  <2>1. Claim(op.dest, op)
    BY <1>3 DEF MoveDest
  <2>2. /\ temp' \in TempType /\ FileTypes' /\ op' \in OpType
        /\ pc' \in {"walk", "find"} /\ op'.call = op.call /\ op'.h \in Handle /\ op'.name = op.name
        /\ UNCHANGED <<diskVars, buf, cur, faults>>
    BY <1>1, <1>2, <1>3, <2>1, ClaimTypes
  <2>3. Places' /\ pc' \in PcType
    BY <1>1, <1>2, <2>2, SearchPlaces DEF Searches
  <2>4. DiskTypes'
    BY <2>2 DEF TInv, DiskTypes, diskVars
  <2>5. BufTypes' /\ OpTypes'
    BY <1>1, <2>2, <2>3 DEF TInv, BufTypes, OpTypes
  <2> QED BY <2>2, <2>3, <2>4, <2>5 DEF TInv
<1>4. CASE FreeHandles = {}
  <2>1. Close(<<op.src>>, "HANDLES") /\ UNCHANGED <<diskVars, bufVars, files, faults, held>>
    BY <1>4 DEF MoveDest
  <2>2. pc' \in PcType /\ op' \in OpType /\ Places'
    BY <1>1, <2>1, CloseOne DEF Results
  <2> QED BY <1>1, <2>1, <2>2
       DEF TInv, DiskTypes, diskVars, bufVars, BufTypes, FileTypes, OpTypes
<1> QED BY <1>3, <1>4

LEMMA MoveTooLongTypes ==
  ASSUME TInv, MoveTooLong
  PROVE  TInv'
<1>1. /\ pc = "dest" /\ op.src \in Handle /\ Close(<<op.src>>, "INSUFFICIENT")
      /\ UNCHANGED <<diskVars, bufVars, files, calls, faults, held>>
  BY DEF MoveTooLong, TInv, Places
<1>2. pc' \in PcType /\ op' \in OpType /\ Places'
  BY <1>1, CloseOne DEF Results
<1> QED BY <1>1, <1>2 DEF TInv, DiskTypes, diskVars, bufVars, BufTypes, FileTypes, OpTypes

LEMMA CloseTwo ==
  ASSUME TInv, NEW g \in Handle, NEW h \in Handle, NEW r \in Results, Close(<<g, h>>, r)
  PROVE  pc' \in PcType /\ op' \in OpType /\ Places'
<1>1. <<g, h>> \in Seq(Handle)
  OBVIOUS
<1> QED BY <1>1, CloseTypes

LEMMA MoveClashTypes ==
  ASSUME TInv, MoveClash
  PROVE  TInv'
<1>1. pc = "name" /\ UNCHANGED <<diskVars, bufVars, calls, faults>>
  BY DEF MoveClash
<1>2. op.h \in Handle /\ op.src \in Handle /\ op.call = "move" /\ op \in OpType
  BY <1>1 DEF TInv, Places, OpTypes
<1> DEFINE again == op.name \in TildeNames /\ op.slots > 1 /\ op.tries < MaxTries
<1>3. CASE again
  <2>1. /\ files' = [files EXCEPT ![op.h] = NoFile] /\ held' = [held EXCEPT ![op.h] = "no"]
        /\ pc' = "dest"
        /\ op' = [op EXCEPT !.h = 0, !.name = NextName[@], !.tries = @ + 1]
    BY <1>3 DEF MoveClash
  <2> PICK n : n = NextName[op.name]
    OBVIOUS
  <2> PICK t : t = op.tries + 1
    OBVIOUS
  <2>2. n \in Names
    BY <1>3, NameFacts
  <2>3. t \in 0 .. MaxTries
    <3>1. op.tries \in 0 .. MaxTries
      BY <1>2 DEF OpType
    <3> QED BY <1>3, <3>1, Constants
  <2>4. op' = [op EXCEPT !.h = 0, !.name = n, !.tries = t]
    BY <2>1
  <2>5. op' \in OpType /\ op'.call = op.call /\ op'.src = op.src /\ op'.name = n
        /\ op'.create = op.create
    BY <1>2, <2>2, <2>3, <2>4, HandleFacts DEF OpType
  <2>6. Places' /\ pc' \in PcType
    BY <1>2, <2>1, <2>2, <2>5 DEF TInv, Places, PcType
  <2>7. files' \in [Handle -> FileType] /\ \A g \in Handle : Placed(files'[g])
    BY <1>2, <2>1, NoFileType, OneFile DEF TInv
  <2>8. held' \in [Handle -> HeldType]
    BY <2>1, OneHeld DEF TInv, HeldType
  <2> QED BY <1>1, <2>5, <2>6, <2>7, <2>8
       DEF TInv, DiskTypes, diskVars, bufVars, BufTypes, FileTypes, OpTypes
<1>4. CASE ~again
  <2>1. Close(<<op.src, op.h>>, "INVALID") /\ UNCHANGED <<files, held>>
    BY <1>4 DEF MoveClash
  <2>2. pc' \in PcType /\ op' \in OpType /\ Places'
    BY <1>2, <2>1, CloseTwo DEF Results
  <2> QED BY <1>1, <2>1, <2>2
       DEF TInv, DiskTypes, diskVars, bufVars, BufTypes, FileTypes, OpTypes
<1> QED BY <1>3, <1>4

LEMMA NamePartsType ==
  ASSUME NEW d \in DirType, NEW i, NEW k
  PROVE  NameParts(d, i, k) \in DirType
<1> DEFINE g == [j \in Slot |-> IF j \in (i - k + 1) .. (i - 1) THEN Mark("LFN") ELSE d.ent[j]]
<1>1. Mark("LFN") \in EntryType /\ \A j \in Slot : d.ent[j] \in EntryType
  BY MarkTypes, DirOf
<1>2. g \in [Slot -> EntryType]
  BY <1>1
<1> HIDE DEF g
<1>3. [d EXCEPT !.ent = g] \in DirType
  BY <1>2, DirOf
<1> QED BY <1>3 DEF NameParts, g

LEMMA MovedType ==
  ASSUME NEW f \in FileType, Placed(f), NEW src \in FileType
  PROVE  /\ Moved(f, src) \in FileType /\ Placed(Moved(f, src))
         /\ Moved(f, src).name = f.name /\ Moved(f, src).dclus = f.dclus
         /\ Moved(f, src).fpos = f.fpos /\ Moved(f, src).lpos = f.lpos
         /\ Moved(f, src).used = f.used /\ Moved(f, src).upd = f.upd
  BY DEF Moved, FileType, Placed

LEMMA MoveFillTypes ==
  ASSUME TInv, MoveFill
  PROVE  TInv'
<1> PICK f : f = Moved(files[op.h], files[op.src])
  OBVIOUS
<1> PICK k : k = op.slots
  OBVIOUS
<1>1. pc = "name" /\ UNCHANGED <<rdUpdated, disk, used, cur, temp, calls, faults, held>>
  BY DEF MoveFill
<1>2. op.h \in Handle /\ op.src \in Handle /\ op \in OpType
  BY <1>1 DEF TInv, Places, OpTypes
<1>3. f \in FileType /\ Placed(f)
  <2>1. files[op.h] \in FileType /\ Placed(files[op.h]) /\ files[op.src] \in FileType
    BY <1>2 DEF TInv, FileTypes
  <2> QED BY <2>1, MovedType
<1>4. ASSUME NEW r \in Results, Close(<<op.src, op.h>>, r)
      PROVE  pc' \in PcType /\ op' \in OpType /\ Places'
  BY <1>2, <1>4, CloseTwo
<1>5. "OK" \in Results /\ "UNKNOWN" \in Results
  BY DEF Results
<1>6. SUFFICES /\ rd' \in DirType /\ buf' \in [Bufs -> DirType]
               /\ files' \in [Handle -> FileType] /\ \A g \in Handle : Placed(files'[g])
               /\ pc' \in PcType /\ op' \in OpType /\ Places'
  BY <1>1, <1>6 DEF TInv, DiskTypes, BufTypes, FileTypes, OpTypes
<1>7. CASE /\ k = 1 /\ files' = [files EXCEPT ![op.h] = f]
           /\ Close(<<op.src, op.h>>, "OK") /\ UNCHANGED <<rd, buf>>
  <2>1. files' \in [Handle -> FileType] /\ \A g \in Handle : Placed(files'[g])
    BY <1>2, <1>3, <1>7, OneFile DEF TInv
  <2>2. pc' \in PcType /\ op' \in OpType /\ Places'
    BY <1>4, <1>5, <1>7
  <2> QED BY <1>7, <2>1, <2>2 DEF TInv, DiskTypes
<1>8. CASE /\ k > 1
           /\ \E b \in DirBufOf(op.h) :
                LET d == Mem(b.buf)
                IN IF RoomFor(d, f.lpos, k)
                     THEN /\ SetMem(b.buf, NameParts(d, f.lpos, k))
                          /\ files' = [files EXCEPT ![op.h] = [f EXCEPT !.fpos = f.lpos - k + 1]]
                          /\ Close(<<op.src, op.h>>, "OK")
                     ELSE /\ files' = [files EXCEPT ![op.h] = f]
                          /\ Close(<<op.src, op.h>>, "UNKNOWN") /\ UNCHANGED <<rd, buf>>
  <2> PICK b \in DirBufOf(op.h) :
                LET d == Mem(b.buf)
                IN IF RoomFor(d, f.lpos, k)
                     THEN /\ SetMem(b.buf, NameParts(d, f.lpos, k))
                          /\ files' = [files EXCEPT ![op.h] = [f EXCEPT !.fpos = f.lpos - k + 1]]
                          /\ Close(<<op.src, op.h>>, "OK")
                     ELSE /\ files' = [files EXCEPT ![op.h] = f]
                          /\ Close(<<op.src, op.h>>, "UNKNOWN") /\ UNCHANGED <<rd, buf>>
    BY <1>8
  <2> DEFINE d == Mem(b.buf)
  <2>1. b.buf \in BufName
    BY DirBufTypes DEF TInv
  <2>2. d \in DirType
    BY <2>1, MemType DEF TInv
  <2>3. CASE RoomFor(d, f.lpos, k)
    <3>1. /\ SetMem(b.buf, NameParts(d, f.lpos, k))
          /\ files' = [files EXCEPT ![op.h] = [f EXCEPT !.fpos = f.lpos - k + 1]]
          /\ Close(<<op.src, op.h>>, "OK")
      BY <2>3
    <3> HIDE DEF d
    <3> PICK e : e = NameParts(d, f.lpos, k)
      OBVIOUS
    <3>2. e \in DirType
      BY <2>2, NamePartsType
    <3>3. SetMem(b.buf, e)
      BY <3>1
    <3>4. rd' \in DirType /\ buf' \in [Bufs -> DirType]
      BY <2>1, <3>2, <3>3, SetMemType DEF TInv
    <3> PICK p : p = f.lpos - k + 1
      OBVIOUS
    <3>5. f.lpos \in 0 .. NumSlots /\ k \in Nat /\ k > 1 /\ NumSlots \in Nat
      BY <1>2, <1>3, <1>8, Constants DEF FileType, OpType
    <3>6. (f.lpos - k + 1) \in Slot
      <4>1. (f.lpos - k + 1) \in (f.lpos - k + 1) .. (f.lpos - 1)
        BY <3>5
      <4> QED BY <2>3, <4>1 DEF RoomFor
    <3>7. p \in Nat /\ p >= 1 /\ p <= NumSlots
      BY <3>6, SlotFacts
    <3>8. p \in 0 .. NumSlots /\ p <= f.lpos /\ p # 0
      BY <3>5, <3>7
    <3> PICK v : v = [f EXCEPT !.fpos = p]
      OBVIOUS
    <3>9. v \in FileType /\ Placed(v)
      BY <1>3, <3>8 DEF FileType, Placed
    <3>10. files' = [files EXCEPT ![op.h] = v]
      BY <3>1
    <3>11. files' \in [Handle -> FileType] /\ \A g \in Handle : Placed(files'[g])
      BY <1>2, <3>9, <3>10, OneFile DEF TInv
    <3> QED BY <1>4, <1>5, <3>1, <3>4, <3>11
  <2>4. CASE ~RoomFor(d, f.lpos, k)
    <3>1. /\ files' = [files EXCEPT ![op.h] = f]
          /\ Close(<<op.src, op.h>>, "UNKNOWN") /\ UNCHANGED <<rd, buf>>
      BY <2>4
    <3>2. files' \in [Handle -> FileType] /\ \A g \in Handle : Placed(files'[g])
      BY <1>2, <1>3, <3>1, OneFile DEF TInv
    <3> QED BY <1>4, <1>5, <3>1, <3>2 DEF TInv, DiskTypes
  <2> QED BY <2>3, <2>4
<1> QED BY <1>7, <1>8 DEF MoveFill

LEMMA UserCloseTypes ==
  ASSUME TInv, NEW h \in Handle, UserClose(h)
  PROVE  TInv'
<1>1. /\ pc' = "closing" /\ op' = [NoCall EXCEPT !.call = "close", !.closing = <<h>>]
      /\ UNCHANGED <<diskVars, bufVars, files, calls, faults, held>>
  BY DEF UserClose
<1>2. <<h>> \in Seq(Handle) /\ NoCall.create = FALSE
  BY DEF NoCall
<1>3. op' \in OpType /\ op'.call = "close" /\ op'.create = FALSE
  BY <1>1, <1>2, NoCallType DEF OpType
<1>4. Places' /\ pc' \in PcType
  BY <1>1, <1>3 DEF Places, PcType, Searches
<1> QED BY <1>1, <1>3, <1>4
     DEF TInv, DiskTypes, diskVars, bufVars, BufTypes, FileTypes, OpTypes

LEMMA ReleaseTypes ==
  ASSUME TInv, NEW h \in Handle, Closing(h), NEW f \in FileType, Placed(f), Release(h, f)
  PROVE  FileTypes' /\ pc' \in PcType /\ op' \in OpType /\ Places' /\ UNCHANGED calls
<1>1. pc = "closing" /\ op.closing # <<>> /\ op \in OpType /\ pc \in PcType
  BY DEF Closing, TInv, OpTypes
<1> PICK v : v = IF f.upd = {} THEN NoFile ELSE [f EXCEPT !.used = FALSE]
  OBVIOUS
<1>2. /\ files' = [files EXCEPT ![h] = v] /\ held' = [held EXCEPT ![h] = "no"]
      /\ op' = [op EXCEPT !.closing = Tail(op.closing)] /\ UNCHANGED <<pc, calls>>
  BY DEF Release
<1>3. v \in FileType /\ Placed(v)
  BY NoFileType DEF FileType, Placed
<1>4. files' \in [Handle -> FileType] /\ \A g \in Handle : Placed(files'[g])
  BY <1>2, <1>3, OneFile DEF TInv
<1>5. held' \in [Handle -> HeldType]
  BY <1>2, OneHeld DEF TInv, HeldType
<1>6. Tail(op.closing) \in Seq(Handle)
  BY <1>1 DEF OpType
<1>7. op' \in OpType /\ op'.call = op.call /\ op'.name = op.name /\ op'.create = op.create
  BY <1>1, <1>2, <1>6 DEF OpType
<1>8. Places'
  BY <1>1, <1>2, <1>7 DEF TInv, Places
<1> QED BY <1>1, <1>2, <1>4, <1>5, <1>7, <1>8 DEF FileTypes

LEMMA CloseUnchangedTypes ==
  ASSUME TInv, NEW h \in Handle, CloseUnchanged(h)
  PROVE  TInv'
<1>1. Closing(h) /\ Release(h, files[h]) /\ UNCHANGED <<diskVars, bufVars, faults>>
  BY DEF CloseUnchanged
<1>2. files[h] \in FileType /\ Placed(files[h])
  BY DEF TInv, FileTypes
<1>3. FileTypes' /\ pc' \in PcType /\ op' \in OpType /\ Places' /\ UNCHANGED calls
  BY <1>1, <1>2, ReleaseTypes
<1> QED BY <1>1, <1>3 DEF TInv, DiskTypes, diskVars, bufVars, BufTypes, OpTypes

LEMMA CloseLostTypes ==
  ASSUME TInv, NEW h \in Handle, CloseLost(h)
  PROVE  TInv'
<1>1. Closing(h) /\ Release(h, files[h]) /\ UNCHANGED <<diskVars, bufVars, faults>>
  BY DEF CloseLost
<1>2. files[h] \in FileType /\ Placed(files[h])
  BY DEF TInv, FileTypes
<1>3. FileTypes' /\ pc' \in PcType /\ op' \in OpType /\ Places' /\ UNCHANGED calls
  BY <1>1, <1>2, ReleaseTypes
<1> QED BY <1>1, <1>3 DEF TInv, DiskTypes, diskVars, bufVars, BufTypes, OpTypes

\* The buffer CloseChanged takes, and the place of the entry in it.
LEMMA EntryOfFacts ==
  ASSUME NEW h, EntryOf(h) # {}
  PROVE  /\ (CHOOSE x \in EntryOf(h) : TRUE)[1] \in DirBufOf(h)
         /\ (CHOOSE x \in EntryOf(h) : TRUE)[1].full
         /\ At(Mem((CHOOSE x \in EntryOf(h) : TRUE)[1].buf), files[h].name) # {}
<1> PICK x : x = CHOOSE y \in EntryOf(h) : TRUE
  OBVIOUS
<1>1. x \in EntryOf(h)
  OBVIOUS
<1>2. x[1] \in DirBufOf(h) /\ x[1].full /\ x[2] \in At(Mem(x[1].buf), files[h].name)
  BY <1>1 DEF EntryOf
<1> QED BY <1>2

LEMMA UpdatedType ==
  ASSUME NEW e \in EntryType, NEW f \in FileType
  PROVE  UpdatedEntry(e, f) \in EntryType /\ UpdatedEntry(e, f).name = e.name
<1> DEFINE s == IF f.upd \cap {"SIZE", "ALL"} # {} THEN f.size ELSE e.size
           c == IF f.upd \cap {"CLUS", "ALL"} # {} THEN f.clus ELSE e.clus
           a == IF "ALL" \in f.upd THEN f.attr ELSE e.attr
<1>1. UpdatedEntry(e, f) = [e EXCEPT !.size = s, !.clus = c, !.attr = a]
  BY DEF UpdatedEntry, EntryType
<1>2. s \in {0, 1} /\ c \in Clus /\ a \in {"", "ARCHIVE", "DIR"}
  BY DEF EntryType, FileType
<1> HIDE DEF s, c, a
<1> QED BY <1>1, <1>2 DEF EntryType

LEMMA EntryPut ==
  ASSUME NEW d \in DirType, NEW i \in Slot, NEW e \in EntryType
  PROVE  /\ [d EXCEPT !.ent[i] = e] \in DirType
         /\ \A j \in Slot : [d EXCEPT !.ent[i] = e].ent[j] = IF j = i THEN e ELSE d.ent[j]
  BY DEF DirType

LEMMA CloseChangedTypes ==
  ASSUME TInv, NEW h \in Handle, CloseChanged(h)
  PROVE  TInv'
<1> PICK b : b = (CHOOSE x \in EntryOf(h) : TRUE)[1]
  OBVIOUS
<1> PICK i : i = FirstOf(At(Mem(b.buf), files[h].name))
  OBVIOUS
<1> PICK d : d = [Mem(b.buf) EXCEPT !.ent[i] = UpdatedEntry(@, files[h])]
  OBVIOUS
<1>1. Closing(h) /\ EntryOf(h) # {} /\ SetMem(b.buf, d) /\ UNCHANGED <<used, cur, temp>>
  BY DEF CloseChanged
<1>2. \/ SaveOk(h, b, d) /\ Release(h, [files[h] EXCEPT !.upd = {}]) /\ UNCHANGED faults
      \/ SaveFails(h, b, d) /\ Release(h, files[h])
  BY DEF CloseChanged
<1>3. files[h] \in FileType /\ Placed(files[h])
  BY DEF TInv, FileTypes
<1>4. b.buf \in BufName /\ i \in Slot
  BY <1>1, EntryOfFacts, DirBufTypes, AtFacts DEF TInv
<1>5. d \in DirType
  <2> PICK m : m = Mem(b.buf)
    OBVIOUS
  <2>1. m \in DirType
    BY <1>4, MemType DEF TInv
  <2>2. m.ent[i] \in EntryType
    BY <1>4, <2>1, DirOf
  <2> PICK e : e = UpdatedEntry(m.ent[i], files[h])
    OBVIOUS
  <2>3. e \in EntryType
    BY <1>3, <2>2, UpdatedType
  <2>4. d = [m EXCEPT !.ent[i] = e]
    BY <2>1 DEF DirType
  <2> QED BY <1>4, <2>1, <2>3, <2>4, EntryPut
<1>6. rd' \in DirType /\ buf' \in [Bufs -> DirType]
  BY <1>1, <1>4, <1>5, SetMemType DEF TInv
<1>7. CASE SaveOk(h, b, d) /\ Release(h, [files[h] EXCEPT !.upd = {}]) /\ UNCHANGED faults
  <2> PICK f : f = [files[h] EXCEPT !.upd = {}]
    OBVIOUS
  <2>1. f \in FileType /\ Placed(f)
    BY <1>3 DEF FileType, Placed
  <2>2. FileTypes' /\ pc' \in PcType /\ op' \in OpType /\ Places' /\ UNCHANGED calls
    BY <1>1, <1>7, <2>1, ReleaseTypes
  <2>3. disk' \in [Clus -> DirType] /\ rdUpdated' \in BOOLEAN
    BY <1>5, <1>7, SaveOkTypes DEF TInv
  <2> QED BY <1>1, <1>6, <1>7, <2>2, <2>3 DEF TInv, DiskTypes, BufTypes, OpTypes
<1>8. CASE SaveFails(h, b, d) /\ Release(h, files[h])
  <2>1. FileTypes' /\ pc' \in PcType /\ op' \in OpType /\ Places' /\ UNCHANGED calls
    BY <1>1, <1>3, <1>8, ReleaseTypes
  <2>2. disk' \in [Clus -> DirType] /\ rdUpdated' \in BOOLEAN /\ faults' \in Nat
    BY <1>5, <1>8, SaveFailsTypes DEF TInv
  <2> QED BY <1>1, <1>6, <2>1, <2>2 DEF TInv, DiskTypes, BufTypes, OpTypes
<1> QED BY <1>2, <1>7, <1>8

LEMMA CallEndsTypes ==
  ASSUME TInv, CallEnds
  PROVE  TInv'
<1>1. Return /\ UNCHANGED <<diskVars, bufVars, files, calls, faults, held>>
  BY DEF CallEnds
<1>2. pc' \in PcType /\ op' \in OpType /\ Places'
  BY <1>1, ReturnTypes
<1> QED BY <1>1, <1>2 DEF TInv, DiskTypes, diskVars, bufVars, BufTypes, FileTypes, OpTypes

LEMMA InitTypes ==
  ASSUME Init
  PROVE  TFacts
<1>1. disk \in [Clus -> DirType] /\ rd = disk[Root] /\ rdUpdated = FALSE
  BY ConstAssumption DEF Init
<1>2. used \subseteq Chains /\ buf = [b \in {"b1", "b2"} |-> Zeros]
  BY DEF Init
<1>3. DiskTypes
  BY <1>1, <1>2, ZerosType, ClusFacts DEF DiskTypes, Bufs
<1>4. cur = [buf |-> "RD", clus |-> Root] /\ temp = [buf |-> "b1", clus |-> Root, full |-> FALSE]
  BY DEF Init
<1>5. BufTypes
  BY <1>4, ClusFacts DEF BufTypes, AtType, TempType, BufName, Bufs
<1>6. files = [h \in Handle |-> NoFile] /\ held = [h \in Handle |-> "no"]
  BY DEF Init
<1>7. FileTypes
  BY <1>6, NoFileType DEF FileTypes, HeldType
<1>8. pc = "idle" /\ op = NoCall /\ calls = 0 /\ faults = 0 /\ spoilt = FALSE
  BY DEF Init
<1>9. OpTypes
  BY <1>8, NoCallType DEF OpTypes, PcType
<1>10. NoCall.call = "none" /\ NoCall.create = FALSE
  BY DEF NoCall
<1>11. Places
  BY <1>8, <1>10 DEF Places, Searches
<1> QED BY <1>3, <1>5, <1>7, <1>8, <1>9, <1>11 DEF TInv, TFacts

LEMMA NextTypes ==
  ASSUME TFacts, [Next]_vars
  PROVE  TFacts'
<1>1. CASE UNCHANGED vars
  BY <1>1 DEF TFacts, TInv, vars, diskVars, bufVars, DiskTypes, BufTypes, FileTypes, OpTypes, Places
<1>2. CASE Ask
  <2>1. Marks
    BY <1>2 DEF Ask
  <2>2. spoilt' \in BOOLEAN
    BY <2>1 DEF Marks
  <2> USE DEF TFacts
  <2>3. CASE \E p \in Paths : Chdir(p)
    BY <2>2, <2>3, ChdirTypes
  <2>4. CASE \E p \in Paths, n \in Sought : Getfileinfo(p, n)
    BY <2>2, <2>4, InfoTypes
  <2>5. CASE \E p \in Paths, n \in Sought : Mkdir(p, n)
    BY <2>2, <2>5, MkdirTypes
  <2>6. CASE \E p \in Paths, n \in Sought, create \in BOOLEAN : Open(p, n, create)
    BY <2>2, <2>6, OpenTypes
  <2>7. CASE \E p \in Paths, n \in Sought, dest \in Dests, to \in NewNames : Move(p, n, dest, to)
    BY <2>2, <2>7, MoveTypes
  <2>8. CASE \E h \in Handle : WriteFile(h)
    BY <2>2, <2>8, WriteFileTypes
  <2>11. CASE \E h \in Handle : WriteNothing(h)
    BY <2>2, <2>11, WriteNothingTypes
  <2>9. CASE \E h \in Handle : Delete(h)
    BY <2>2, <2>9, DeleteTypes
  <2>10. CASE \E h \in Handle : UserClose(h)
    BY <2>2, <2>10, UserCloseTypes
  <2> QED BY <1>2, <2>3, <2>4, <2>5, <2>6, <2>7, <2>8, <2>9, <2>10, <2>11 DEF Ask
<1>3. CASE Continue
  <2>1. Marks
    BY <1>3 DEF Continue
  <2>2. spoilt' \in BOOLEAN
    BY <2>1 DEF Marks
  <2>3. TInv
    BY DEF TFacts
  <2>4. TInv'
    <3>1. CASE WalkToRoot \/ WalkInto \/ WalkStop \/ WalkEnd
      BY <2>3, <3>1, WalkToRootTypes, WalkIntoTypes, WalkStopTypes, WalkEndTypes
    <3>2. CASE Find \/ FindInfo \/ FindNone \/ Create
      BY <2>3, <3>2, FindTypes, FindInfoTypes, FindNoneTypes, CreateTypes
    <3>3. CASE MkdirExists \/ MkdirClear \/ MkdirDots
      BY <2>3, <3>3, MkdirExistsTypes, MkdirClearTypes, MkdirDotsTypes
    <3>4. CASE Remove \/ RemoveNowhere
      BY <2>3, <3>4, RemoveTypes, RemoveNowhereTypes
    <3>5. CASE MoveDest \/ MoveTooLong \/ MoveClash \/ MoveFill
      BY <2>3, <3>5, MoveDestTypes, MoveTooLongTypes, MoveClashTypes, MoveFillTypes
    <3>6. CASE \E h \in Handle : CloseUnchanged(h) \/ CloseChanged(h) \/ CloseLost(h)
      BY <2>3, <3>6, CloseUnchangedTypes, CloseChangedTypes, CloseLostTypes
    <3>7. CASE CallEnds
      BY <2>3, <3>7, CallEndsTypes
    <3> QED BY <1>3, <3>1, <3>2, <3>3, <3>4, <3>5, <3>6, <3>7 DEF Continue
  <2> QED BY <2>2, <2>4 DEF TFacts
<1> QED BY <1>1, <1>2, <1>3 DEF Next

LEMMA TypesImplied ==
  ASSUME TFacts
  PROVE  TypeOK
<1>1. \A h \in Handle : /\ files[h].upd \subseteq Flags /\ files[h].dclus \in Clus
                        /\ files[h].lpos \in 0 .. NumSlots /\ files[h].fpos \in 0 .. files[h].lpos
                        /\ files[h].fpos = 0 => files[h].lpos = 0
  <2> TAKE h \in Handle
  <2>1. files[h] \in FileType /\ Placed(files[h])
    BY DEF TFacts, TInv, FileTypes
  <2>2. files[h].lpos \in 0 .. NumSlots /\ files[h].fpos \in 0 .. NumSlots
    BY <2>1 DEF FileType
  <2>3. files[h].fpos <= files[h].lpos /\ (files[h].fpos = 0 => files[h].lpos = 0)
    BY <2>1 DEF Placed
  <2>4. files[h].fpos \in 0 .. files[h].lpos
    BY <2>2, <2>3, Constants
  <2> QED BY <2>1, <2>2, <2>3, <2>4 DEF FileType
<1>2. op.h \in 0 .. NumFiles /\ op.src \in 0 .. NumFiles /\ op.at.clus \in Clus
      /\ op.tries \in 0 .. MaxTries
  BY DEF TFacts, TInv, OpTypes, OpType, AtType
<1>3. /\ cur.buf \in BufName /\ cur.clus \in Clus
      /\ temp.buf \in BufName /\ temp.clus \in Clus /\ temp.full \in BOOLEAN
  BY DEF TFacts, TInv, BufTypes, AtType, TempType
<1>4. pc \in PcType /\ held \in [Handle -> HeldType] /\ spoilt \in BOOLEAN
  BY DEF TFacts, TInv, OpTypes, FileTypes
<1> QED
  BY <1>1, <1>2, <1>3, <1>4 DEF TypeOK, TFacts, TInv, DiskTypes, Bufs, BufName, PcType, HeldType, Flags

\* Every step of every call keeps the types: the places an open file remembers
\* are in its directory, a walk ends in a directory or fails, and no handle,
\* buffer or cluster is named that is none (fatfs.c, struct TFatFsUserContext).
THEOREM TypesCorrect == Spec => []TypeOK
<1>1. Init => TFacts
  BY InitTypes
<1>2. TFacts /\ [Next]_vars => TFacts'
  BY NextTypes
<1>3. TFacts => TypeOK
  BY TypesImplied
<1> QED BY <1>1, <1>2, <1>3, PTL DEF Spec

-----------------------------------------------------------------------------
(* Which directory is in which buffer                                      *)

Proper(a) == a.buf = "RD" <=> a.clus = Root

\* A walk reads into the temporary buffer, never into the current one; what it
\* has come to is the root's buffer, the temporary one or, before its first step,
\* the current directory.
WalkAt ==
  /\ temp.buf # "RD" /\ ~op.plain /\ Proper(op.at) /\ op.at.buf \in {"RD", cur.buf, temp.buf}
  /\ op.toks = <<>> => op.at.buf \in {"RD", temp.buf}
  /\ op.at.buf = cur.buf => op.at.clus = cur.clus
FindAt ==
  IF op.plain THEN op.at = cur
  ELSE temp = [buf |-> op.at.buf, clus |-> op.at.clus, full |-> TRUE]
BInv ==
  /\ Proper(cur)
  /\ temp.full => Proper(temp) /\ pc # "walk"
  /\ temp.buf = cur.buf => temp.full /\ temp.buf = "RD"
  /\ pc = "walk" => WalkAt
  /\ pc = "find" => FindAt

HeldRight(h) ==
  /\ ~files[h].used => held[h] = "no"
  /\ held[h] = "cur" => files[h].dclus = cur.clus
  /\ held[h] = "temp" => /\ temp.full /\ files[h].dclus = temp.clus
                         /\ temp.clus = cur.clus => temp.buf = cur.buf
\* The handle a call works with.
Pending ==
  /\ pc \in {"walk", "find"} /\ op.h \in Handle => held[op.h] = "no"
  /\ pc = "remove" => files[op.h].used
  /\ pc \in {"mkdir", "dots", "name"} => held[op.h] # "dead"
HInv == (\A h \in Handle : HeldRight(h)) /\ Pending

\* What a step that leaves the buffers in place does to a handle.
Keeps(h) ==
  \/ held'[h] = "no"
  \/ /\ files'[h].used = files[h].used /\ files'[h].dclus = files[h].dclus
     /\ held'[h] = held[h] \/ (held'[h] = "dead" /\ files[h].used)

LEMMA Steady ==
  ASSUME BInv, HInv, UNCHANGED <<cur, temp>>, \A h \in Handle : Keeps(h),
         pc' \notin {"walk", "find"}, pc' = "remove" => files'[op'.h].used,
         pc' \in {"mkdir", "dots", "name"} => held'[op'.h] # "dead"
  PROVE  BInv' /\ HInv'
<1>1. BInv'
  BY DEF BInv, Proper
<1>2. ASSUME NEW h \in Handle PROVE HeldRight(h)'
  <2>1. HeldRight(h) /\ Keeps(h)
    BY DEF HInv
  <2>2. CASE held'[h] = "no"
    BY <2>2 DEF HeldRight
  <2>3. CASE held'[h] # "no"
    BY <2>1, <2>3 DEF HeldRight, Keeps
  <2> QED BY <2>2, <2>3
<1>3. Pending'
  BY DEF Pending
<1> QED BY <1>1, <1>2, <1>3 DEF HInv

\* The same, when nothing is said of any handle.
LEMMA Calm ==
  ASSUME BInv, HInv, UNCHANGED <<cur, temp, files, held>>, pc' \in {"idle", "closing"}
  PROVE  BInv' /\ HInv'
<1>1. \A h \in Handle : Keeps(h)
  BY DEF Keeps
<1> QED BY <1>1, Steady

\* One file's description changes, but not where it is.
LEMMA KeepsOne ==
  ASSUME TInv, NEW h \in Handle, NEW f, files' = [files EXCEPT ![h] = f],
         f.used = files[h].used, f.dclus = files[h].dclus, UNCHANGED held
  PROVE  \A g \in Handle : Keeps(g)
  BY DEF TInv, FileTypes, Keeps

\* A file that is not held is described anew.
LEMMA KeepsFresh ==
  ASSUME TInv, NEW h \in Handle, NEW f, files' = [files EXCEPT ![h] = f], held[h] = "no",
         UNCHANGED held
  PROVE  \A g \in Handle : Keeps(g)
  BY DEF TInv, FileTypes, Keeps

LEMMA GoesOn ==
  ASSUME NEW hs, NEW r, Return \/ Close(hs, r)
  PROVE  pc' \in {"idle", "closing"}
  BY DEF Return, Close

LEMMA GivesUp ==
  ASSUME NEW r, GiveUpCall(r)
  PROVE  pc' \in {"idle", "closing"}
  BY DEF GiveUpCall, Return, Close

LEMMA OtherFacts ==
  ASSUME NEW b \in BufName
  PROVE  Other(b) # b /\ Other(b) # "RD" /\ Other(b) \in Bufs
  BY DEF Other, BufName, Bufs

LEMMA LookUpBufs ==
  ASSUME TInv, BInv, \A h \in Handle : HeldRight(h), NEW p \in Paths, NEW o \in OpType,
         LookUp(p, o), o.h \in Handle => held[o.h] = "no",
         \A h \in Handle : files'[h].dclus = files[h].dclus /\ (files'[h].used \/ ~files[h].used)
  PROVE  BInv' /\ HInv'
<1>0. UNCHANGED cur
  BY DEF LookUp
<1>1. cur \in AtType /\ held \in [Handle -> HeldType] /\ temp \in TempType
  BY DEF TInv, BufTypes, FileTypes
<1>2. CASE p = Here
  <2>1. pc' = "find" /\ UNCHANGED <<temp, held>> /\ op' = [o EXCEPT !.plain = TRUE, !.at = cur]
    BY <1>2 DEF LookUp
  <2>2. op'.h = o.h /\ op'.plain = TRUE /\ op'.at = cur
    BY <2>1 DEF OpType
  <2>3. BInv'
    BY <1>0, <2>1, <2>2 DEF BInv, Proper, FindAt
  <2>4. \A h \in Handle : HeldRight(h)'
    BY <1>0, <2>1 DEF HeldRight
  <2>5. Pending'
    BY <2>1, <2>2 DEF Pending
  <2> QED BY <2>3, <2>4, <2>5 DEF HInv
<1>3. CASE p # Here
  <2> PICK a : a = IF p.abs THEN [buf |-> "RD", clus |-> Root] ELSE cur
    OBVIOUS
  <2>1. /\ pc' = "walk" /\ ResetTemp(cur) /\ GiveUp({"temp"})
        /\ op' = [o EXCEPT !.plain = FALSE, !.toks = p.dirs, !.at = a]
    BY <1>3 DEF LookUp
  <2>2. op'.h = o.h /\ op'.plain = FALSE /\ op'.at = a /\ op'.toks = p.dirs
    BY <2>1 DEF OpType
  <2>3. temp' = [buf |-> Other(cur.buf), clus |-> temp.clus, full |-> FALSE]
    BY <2>1 DEF ResetTemp
  <2>4. Other(cur.buf) # cur.buf /\ Other(cur.buf) # "RD"
    BY <1>1, OtherFacts DEF AtType
  <2>5. temp'.buf # cur.buf /\ temp'.buf # "RD" /\ temp'.full = FALSE
    BY <2>3, <2>4
  <2>6. p.dirs = <<>> => p.abs
    <3>1. p \in PathType
      BY ConstAssumption
    <3>2. p.abs \in BOOLEAN /\ p = [abs |-> p.abs, dirs |-> p.dirs]
      BY <3>1 DEF PathType
    <3>3. ~p.abs => p.abs = FALSE
      BY <3>2
    <3> QED BY <1>3, <3>2, <3>3 DEF Here, Path
  <2>7. Proper(a) /\ a.buf \in {"RD", cur.buf} /\ (p.abs => a.buf = "RD")
        /\ (a.buf = cur.buf => a.clus = cur.clus)
    BY DEF BInv, Proper
  <2>8. WalkAt'
    BY <1>0, <2>2, <2>5, <2>6, <2>7 DEF WalkAt, Proper
  <2>9. BInv'
    BY <1>0, <2>1, <2>5, <2>8 DEF BInv, Proper
  <2>10. \A h \in Handle : held'[h] = IF held[h] = "temp" THEN "no" ELSE held[h]
    BY <1>1, <2>1 DEF GiveUp
  <2>11. \A h \in Handle : HeldRight(h)'
    <3> TAKE h \in Handle
    <3>1. HeldRight(h) /\ held'[h] # "temp" /\ held'[h] \in {held[h], "no"}
      BY <2>10
    <3>2. ~files'[h].used => held'[h] = "no"
      BY <3>1 DEF HeldRight
    <3>3. held'[h] = "cur" => files'[h].dclus = cur'.clus
      BY <1>0, <3>1 DEF HeldRight
    <3> QED BY <3>1, <3>2, <3>3 DEF HeldRight
  <2>12. Pending'
    BY <2>1, <2>2, <2>10 DEF Pending
  <2> QED BY <2>9, <2>11, <2>12 DEF HInv
<1> QED BY <1>2, <1>3

LEMMA ClaimBufs ==
  ASSUME TInv, BInv, HInv, NEW p \in Paths, NEW o \in OpType, FreeHandles # {}, Claim(p, o)
  PROVE  BInv' /\ HInv'
<1>1. /\ op'.h \in Handle /\ ~files[op'.h].used /\ files' = [files EXCEPT ![op'.h].used = TRUE]
      /\ LookUp(p, [o EXCEPT !.h = op'.h])
  BY ClaimTypes
<1> PICK g : g = op'.h
  OBVIOUS
<1> PICK a : a = [o EXCEPT !.h = g]
  OBVIOUS
<1>2. a \in OpType /\ a.h = g /\ LookUp(p, a) /\ g \in Handle
  BY <1>1, HandleFacts DEF OpType
<1>3. held[g] = "no"
  BY <1>1, <1>2 DEF HInv, HeldRight
<1>4. \A h \in Handle : files'[h].dclus = files[h].dclus /\ (files'[h].used \/ ~files[h].used)
  <2> TAKE h \in Handle
  <2>1. files[h] \in FileType /\ files \in [Handle -> FileType]
    BY DEF TInv, FileTypes
  <2>2. CASE h = g
    <3> PICK f : f = [files[g] EXCEPT !.used = TRUE]
      OBVIOUS
    <3>1. f.dclus = files[h].dclus /\ f.used
      BY <2>1, <2>2 DEF FileType
    <3>2. files'[h] = f
      BY <1>1, <2>1, <2>2
    <3> QED BY <3>1, <3>2
  <2>3. CASE h # g
    BY <1>1, <2>1, <2>3
  <2> QED BY <2>2, <2>3
<1> QED BY <1>2, <1>3, <1>4, LookUpBufs DEF HInv

LEMMA BeginBufs ==
  ASSUME TInv, BInv, HInv, NEW p \in Paths, NEW o \in OpType, Begin(p, o)
  PROVE  BInv' /\ HInv'
<1>1. CASE FreeHandles # {}
  BY <1>1, ClaimBufs DEF Begin
<1>2. CASE FreeHandles = {}
  BY <1>2, Calm DEF Begin, Return, bufVars
<1> QED BY <1>1, <1>2

LEMMA AskBufs ==
  ASSUME TInv, BInv, HInv, Ask
  PROVE  BInv' /\ HInv'
<1>1. CASE \E p \in Paths : Chdir(p)
  <2> PICK p \in Paths : Chdir(p)
    BY <1>1
  <2> PICK o : o = [NoCall EXCEPT !.call = "chdir", !.was = temp]
    OBVIOUS
  <2>1. o \in OpType /\ o.h = 0
    <3>1. NoCall.h = 0
      BY DEF NoCall
    <3> QED BY <3>1, NoCallType DEF OpType, TInv, BufTypes
  <2>2. LookUp(p, o) /\ files' = files
    BY DEF Chdir
  <2> QED BY <2>1, <2>2, HandleFacts, LookUpBufs DEF HInv
<1>2. CASE \E p \in Paths, n \in Sought : Getfileinfo(p, n)
  <2> PICK p \in Paths, n \in Sought : Getfileinfo(p, n)
    BY <1>2
  <2> PICK o : o = [NoCall EXCEPT !.call = "info", !.name = n]
    OBVIOUS
  <2>1. o \in OpType /\ o.h = 0
    <3>1. NoCall.h = 0 /\ n \in Names
      BY NameFacts DEF NoCall
    <3> QED BY <3>1, NoCallType DEF OpType, Searches
  <2>2. LookUp(p, o) /\ files' = files
    BY DEF Getfileinfo
  <2> QED BY <2>1, <2>2, HandleFacts, LookUpBufs DEF HInv
<1>3. CASE \E p \in Paths, n \in Sought : Mkdir(p, n)
  <2> PICK p \in Paths, n \in Sought : Mkdir(p, n)
    BY <1>3
  <2> PICK o : o = [NoCall EXCEPT !.call = "mkdir", !.name = n, !.create = TRUE]
    OBVIOUS
  <2>1. o \in OpType
    BY NoCallType, NameFacts DEF OpType, Searches
  <2> QED BY <2>1, BeginBufs DEF Mkdir
<1>4. CASE \E p \in Paths, n \in Sought, create \in BOOLEAN : Open(p, n, create)
  <2> PICK p \in Paths, n \in Sought, create \in BOOLEAN : Open(p, n, create)
    BY <1>4
  <2> PICK o : o = [NoCall EXCEPT !.call = "open", !.name = n, !.create = create]
    OBVIOUS
  <2>1. o \in OpType
    BY NoCallType, NameFacts DEF OpType, Searches
  <2> QED BY <2>1, BeginBufs DEF Open
<1>5. CASE \E p \in Paths, n \in Sought, dest \in Dests, to \in NewNames : Move(p, n, dest, to)
  <2> PICK p \in Paths, n \in Sought, dest \in Dests, to \in NewNames : Move(p, n, dest, to)
    BY <1>5
  <2> PICK o : o = [NoCall EXCEPT !.call = "move", !.name = n, !.dest = dest, !.to = to]
    OBVIOUS
  <2>1. o \in OpType
    BY NoCallType, NameFacts, ConstAssumption DEF OpType, Searches
  <2> QED BY <2>1, BeginBufs DEF Move
<1>6. CASE \E h \in Handle : WriteFile(h) \/ WriteNothing(h)
  <2> PICK h \in Handle : WriteFile(h) \/ WriteNothing(h)
    BY <1>6
  <2>1. pc = "idle" /\ UNCHANGED <<cur, temp, pc, held>>
    BY DEF WriteFile, WriteNothing, Writable, Call, bufVars
  <2>2. files[h] \in FileType /\ Placed(files[h])
    BY DEF TInv, FileTypes
  <2>3. PICK c \in Clus, s \in {0, 1}, grown \in BOOLEAN :
          files' = [files EXCEPT ![h] = Written(files[h], c, s, grown)]
    BY <2>2, WriteShape
  <2> PICK f : f = Written(files[h], c, s, grown)
    OBVIOUS
  <2>4. f.used = files[h].used /\ f.dclus = files[h].dclus
    BY <2>2, WrittenType
  <2>5. \A g \in Handle : Keeps(g)
    BY <2>1, <2>3, <2>4, KeepsOne
  <2> QED BY <2>1, <2>5, Steady
<1>7. CASE \E h \in Handle : Delete(h)
  <2> PICK h \in Handle : Delete(h)
    BY <1>7
  <2>1. files[h].used /\ held[h] # "dead" /\ pc = "idle" /\ UNCHANGED <<cur, temp, files>>
    BY DEF Delete, bufVars, Call
  <2>2. CASE pc' = "remove" /\ op' = [NoCall EXCEPT !.call = "delete", !.h = h] /\ UNCHANGED held
    <3>1. op'.h = h
      BY <2>2, NoCallType DEF OpType
    <3>2. \A g \in Handle : Keeps(g)
      BY <2>1, <2>2 DEF Keeps
    <3> QED BY <2>1, <2>2, <3>1, <3>2, Steady
  <2>3. CASE UNCHANGED <<pc, op>> /\ held' = [held EXCEPT ![h] = "dead"]
    <3>1. held \in [Handle -> HeldType]
      BY DEF TInv, FileTypes
    <3>2. \A g \in Handle : Keeps(g)
      BY <2>1, <2>3, <3>1 DEF Keeps
    <3> QED BY <2>1, <2>3, <3>2, Steady
  <2> QED BY <2>2, <2>3 DEF Delete
<1>8. CASE \E h \in Handle : UserClose(h)
  BY <1>8, Calm DEF UserClose, bufVars
<1> QED BY <1>1, <1>2, <1>3, <1>4, <1>5, <1>6, <1>7, <1>8 DEF Ask

LEMMA WalkToRootBufs ==
  ASSUME TInv, BInv, HInv, WalkToRoot
  PROVE  BInv' /\ HInv'
<1>1. pc = "walk" /\ pc' = "walk" /\ UNCHANGED <<cur, temp, files, held>>
  BY DEF WalkToRoot, bufVars
<1> PICK a : a = [buf |-> "RD", clus |-> Root]
  OBVIOUS
<1>2. op' = [op EXCEPT !.at = a, !.toks = Tail(op.toks)]
  BY DEF WalkToRoot
<1>3. op'.at = a /\ op'.h = op.h /\ op'.plain = op.plain
  BY <1>2 DEF TInv, OpTypes, OpType
<1>4. WalkAt /\ Proper(cur)
  BY <1>1 DEF BInv
<1>5. WalkAt'
  BY <1>1, <1>3, <1>4 DEF WalkAt, Proper
<1>6. BInv'
  BY <1>1, <1>5 DEF BInv, Proper
<1>7. HInv'
  BY <1>1, <1>3 DEF HInv, HeldRight, Pending
<1> QED BY <1>6, <1>7

LEMMA WalkIntoBufs ==
  ASSUME TInv, BInv, HInv, WalkInto
  PROVE  BInv' /\ HInv'
<1>1. pc = "walk" /\ pc' = "walk" /\ UNCHANGED <<cur, temp, files, held>>
  BY DEF WalkInto
<1>2. PICK c \in StepsTo \ {Root} :
        op' = [op EXCEPT !.at = [buf |-> temp.buf, clus |-> c], !.toks = Tail(@)]
  BY DEF WalkInto
<1> PICK a : a = [buf |-> temp.buf, clus |-> c]
  OBVIOUS
<1>3. op' = [op EXCEPT !.at = a, !.toks = Tail(op.toks)]
  BY <1>2
<1>4. op'.at = a /\ op'.h = op.h /\ op'.plain = op.plain
  BY <1>3 DEF TInv, OpTypes, OpType
<1>5. WalkAt /\ Proper(cur) /\ temp.buf # cur.buf
  BY <1>1 DEF BInv
<1>6. WalkAt'
  BY <1>1, <1>4, <1>5 DEF WalkAt, Proper
<1>7. BInv'
  BY <1>1, <1>6 DEF BInv, Proper
<1>8. HInv'
  BY <1>1, <1>4 DEF HInv, HeldRight, Pending
<1> QED BY <1>7, <1>8

LEMMA WalkStopBufs ==
  ASSUME TInv, BInv, HInv, WalkStop
  PROVE  BInv' /\ HInv'
<1>1. UNCHANGED <<cur, temp, files, held>> /\ (GiveUpCall("NOTFOUND") \/ GiveUpCall("FAILED"))
  BY DEF WalkStop
<1>2. pc' \in {"idle", "closing"}
  BY <1>1, GivesUp
<1> QED BY <1>1, <1>2, Calm

LEMMA WalkEndBufs ==
  ASSUME TInv, BInv, HInv, WalkEnd
  PROVE  BInv' /\ HInv'
<1>1. pc = "walk" /\ op.toks = <<>> /\ UNCHANGED files
  BY DEF WalkEnd
<1>2. op.at \in AtType /\ held \in [Handle -> HeldType]
  BY DEF TInv, OpTypes, OpType, FileTypes
<1>3. WalkAt /\ Proper(cur) /\ temp.buf # cur.buf /\ ~temp.full
  BY <1>1 DEF BInv
<1>4. CASE op.call = "chdir"
  <2>1. cur' = op.at /\ ResetTemp(cur') /\ GiveUp({"cur", "temp"}) /\ Return
    BY <1>4 DEF WalkEnd
  <2>2. temp' = [buf |-> Other(op.at.buf), clus |-> temp.clus, full |-> FALSE]
    BY <2>1 DEF ResetTemp
  <2>3. Other(op.at.buf) # op.at.buf
    BY <1>2, OtherFacts DEF AtType
  <2>4. BInv'
    BY <1>3, <2>1, <2>2, <2>3 DEF BInv, Proper, WalkAt, Return
  <2>5. \A h \in Handle : held'[h] = "no" \/ (held'[h] = "dead" /\ held[h] = "dead")
    <3>1. \A h \in Handle : held'[h] = IF held[h] \in {"cur", "temp"} THEN "no" ELSE held[h]
      BY <1>2, <2>1 DEF GiveUp
    <3> TAKE h \in Handle
    <3>2. held[h] \in {"cur", "temp", "no", "dead"}
      BY <1>2 DEF HeldType
    <3>3. CASE held[h] \in {"cur", "temp"}
      BY <3>1, <3>3
    <3>4. CASE held[h] = "no"
      BY <3>1, <3>4
    <3>5. CASE held[h] = "dead"
      BY <3>1, <3>5
    <3> QED BY <3>2, <3>3, <3>4, <3>5
  <2>6. \A h \in Handle : HeldRight(h)'
    BY <1>1, <2>5 DEF HInv, HeldRight
  <2>7. Pending'
    BY <2>1 DEF Pending, Return
  <2> QED BY <2>4, <2>6, <2>7 DEF HInv
<1>5. CASE op.call # "chdir"
  <2>1. /\ temp' = [buf |-> op.at.buf, clus |-> op.at.clus, full |-> TRUE]
        /\ pc' = "find" /\ UNCHANGED <<cur, op, held>>
    BY <1>5 DEF WalkEnd
  <2>2. temp'.buf = op.at.buf /\ temp'.clus = op.at.clus /\ temp'.full
    BY <2>1
  <2>3. FindAt'
    BY <1>3, <2>1 DEF WalkAt, FindAt
  <2>4. BInv'
    BY <1>1, <1>3, <2>1, <2>2, <2>3 DEF BInv, Proper, WalkAt
  <2>5. \A h \in Handle : HeldRight(h)'
    BY <1>1, <1>3, <2>1 DEF HInv, HeldRight
  <2>6. Pending'
    BY <1>1, <2>1 DEF HInv, Pending
  <2> QED BY <2>4, <2>5, <2>6 DEF HInv
<1> QED BY <1>4, <1>5

LEMMA OpenedBufs ==
  ASSUME TInv, BInv, HInv, pc = "find", op.call # "info", NEW f \in FileType, f.used,
         f.dclus = op.at.clus, OpenedWith(f), UNCHANGED <<cur, temp>>
  PROVE  BInv' /\ HInv'
<1>1. op.h \in Handle /\ files \in [Handle -> FileType] /\ held \in [Handle -> HeldType]
  BY DEF TInv, Places, Searches, FileTypes
<1>2. files' = [files EXCEPT ![op.h] = f] /\ held' = [held EXCEPT ![op.h] = HeldAs]
  BY DEF OpenedWith
<1>3. pc' \in {"idle", "mkdir", "name", "remove"} /\ (pc' # "idle" => op' = op)
  BY DEF OpenedWith, Opened, Return
<1>4. BInv'
  BY <1>3 DEF BInv, Proper
<1>5. FindAt
  BY DEF BInv
<1> PICK g : g = op.h
  OBVIOUS
<1>6. HeldRight(g)'
  <2> PICK w : w = HeldAs
    OBVIOUS
  <2>1. files'[g] = f /\ held'[g] = w
    BY <1>1, <1>2
  <2>2. w = "cur" => op.plain
    BY DEF HeldAs
  <2>3. w = "temp" => ~op.plain /\ (op.at.clus = cur.clus => op.at.buf = cur.buf)
    BY DEF HeldAs
  <2>4. w = "cur" => f.dclus = cur'.clus
    BY <1>5, <2>2 DEF FindAt
  <2>5. w = "temp" => temp = [buf |-> op.at.buf, clus |-> op.at.clus, full |-> TRUE]
    BY <1>5, <2>3 DEF FindAt
  <2>6. w = "temp" => temp.full /\ f.dclus = temp.clus /\ temp.buf = op.at.buf
    BY <2>5
  <2>7. w = "temp" => temp'.full /\ f.dclus = temp'.clus /\ (temp'.clus = cur'.clus => temp'.buf = cur'.buf)
    BY <2>3, <2>6
  <2> QED BY <2>1, <2>4, <2>7 DEF HeldRight
<1>7. \A h \in Handle : HeldRight(h)'
  <2> TAKE h \in Handle
  <2>1. CASE h # g
    BY <1>1, <1>2, <2>1 DEF HInv, HeldRight
  <2>2. CASE h = g
    BY <1>6, <2>2
  <2> QED BY <2>1, <2>2
<1>8. Pending'
  <2>1. HeldAs # "dead"
    BY DEF HeldAs
  <2> QED BY <1>1, <1>2, <1>3, <2>1 DEF Pending
<1> QED BY <1>4, <1>7, <1>8 DEF HInv

LEMMA FindBufs ==
  ASSUME TInv, BInv, HInv, Find
  PROVE  BInv' /\ HInv'
<1> DEFINE d == Mem(op.at.buf)
           i == FirstOf(Found(d))
           e == d.ent[i]
<1>1. PICK f : /\ f = [used |-> TRUE, name |-> e.name, attr |-> e.attr, clus |-> e.clus,
                       size |-> e.size, fpos |-> LfnStart(d, i), lpos |-> i, upd |-> {},
                       dclus |-> op.at.clus]
               /\ OpenedWith(f)
  BY DEF Find
<1>2. pc = "find" /\ op.call # "info" /\ UNCHANGED <<cur, temp>>
  BY DEF Find, bufVars
<1>3. TInv' /\ files' = [files EXCEPT ![op.h] = f]
  BY <1>1, FindTypes DEF OpenedWith
<1>4. f \in FileType
  <2>1. op.h \in Handle /\ files' \in [Handle -> FileType] /\ files \in [Handle -> FileType]
    BY <1>2, <1>3 DEF TInv, Places, Searches, FileTypes
  <2>2. files'[op.h] = f
    BY <1>3, <2>1
  <2> QED BY <2>1, <2>2
<1>5. f.used /\ f.dclus = op.at.clus
  BY <1>1
<1> QED BY <1>1, <1>2, <1>4, <1>5, OpenedBufs

LEMMA CreateBufs ==
  ASSUME TInv, BInv, HInv, Create
  PROVE  BInv' /\ HInv'
<1> DEFINE d == Mem(op.at.buf)
           k == op.slots
           i == FirstOf(FreeEntry(d, k))
<1>1. pc = "find" /\ op.create /\ op.call # "info" /\ op.h \in Handle
  BY DEF Create, TInv, Places, Searches
<1>2. CASE FreeEntry(d, k) = {}
  <2>1. PICK f : files' = [files EXCEPT ![op.h] = f]
    BY <1>2 DEF Create
  <2>2. GiveUpCall("NOMORE") /\ UNCHANGED <<cur, temp, held>>
    BY <1>2 DEF Create, bufVars
  <2>3. held[op.h] = "no"
    BY <1>1 DEF HInv, Pending
  <2>4. \A g \in Handle : Keeps(g)
    BY <1>1, <2>1, <2>2, <2>3, KeepsFresh
  <2>5. pc' \in {"idle", "closing"}
    BY <2>2, GivesUp
  <2> QED BY <2>2, <2>4, <2>5, Steady
<1>3. CASE FreeEntry(d, k) # {}
  <2>1. PICK f : /\ f = [used |-> TRUE, name |-> op.name, attr |-> "ARCHIVE", clus |-> 0,
                         size |-> 0, fpos |-> i + k - 1, lpos |-> i + k - 1,
                         upd |-> {"ALL"}, dclus |-> op.at.clus]
                 /\ OpenedWith(f)
    BY <1>3 DEF Create
  <2>2. UNCHANGED <<cur, temp>>
    BY <1>3 DEF Create
  <2>3. TInv' /\ files' = [files EXCEPT ![op.h] = f]
    BY <2>1, CreateTypes DEF OpenedWith
  <2>4. f \in FileType
    <3>1. files' \in [Handle -> FileType] /\ files \in [Handle -> FileType]
      BY <2>3 DEF TInv, FileTypes
    <3>2. files'[op.h] = f
      BY <1>1, <2>3, <3>1
    <3> QED BY <1>1, <3>1, <3>2
  <2>5. f.used /\ f.dclus = op.at.clus
    BY <2>1
  <2> QED BY <1>1, <2>1, <2>2, <2>4, <2>5, OpenedBufs
<1> QED BY <1>2, <1>3

LEMMA FindNoneBufs ==
  ASSUME TInv, BInv, HInv, FindNone
  PROVE  BInv' /\ HInv'
<1>1. /\ pc = "find" /\ op.call # "info" /\ GiveUpCall("NOTFOUND")
      /\ UNCHANGED <<cur, temp, held>>
  BY DEF FindNone, bufVars
<1>2. PICK f : files' = [files EXCEPT ![op.h] = f]
  BY DEF FindNone
<1>3. op.h \in Handle
  BY <1>1 DEF TInv, Places, Searches
<1>4. held[op.h] = "no"
  BY <1>1, <1>3 DEF HInv, Pending
<1>5. \A g \in Handle : Keeps(g)
  BY <1>1, <1>2, <1>3, <1>4, KeepsFresh
<1>6. pc' \in {"idle", "closing"}
  BY <1>1, GivesUp
<1> QED BY <1>1, <1>5, <1>6, Steady

LEMMA MkdirClearBufs ==
  ASSUME TInv, BInv, HInv, MkdirClear
  PROVE  BInv' /\ HInv'
<1>1. pc = "mkdir" /\ UNCHANGED <<cur, temp, held>>
  BY DEF MkdirClear, bufVars
<1>2. op.h \in Handle
  BY <1>1 DEF TInv, Places
<1>3. files[op.h] \in FileType /\ Placed(files[op.h])
  BY <1>2 DEF TInv, FileTypes
<1>4. PICK v : files' = [files EXCEPT ![op.h] = v] /\ v.used = files[op.h].used
               /\ v.dclus = files[op.h].dclus
  BY <1>2, <1>3, MkdirShape
<1>5. \A g \in Handle : Keeps(g)
  BY <1>1, <1>2, <1>4, KeepsOne
<1>6. pc' \in {"dots", "closing"} /\ (pc' = "dots" => op' = op)
  BY DEF MkdirClear, Close
<1> QED BY <1>1, <1>5, <1>6, Steady DEF HInv, Pending

LEMMA MkdirDotsBufs ==
  ASSUME TInv, BInv, HInv, MkdirDots
  PROVE  BInv' /\ HInv'
<1>1. pc = "dots" /\ UNCHANGED <<cur, temp, held>> /\ pc' = "closing"
  BY DEF MkdirDots, bufVars, Close
<1>2. op.h \in Handle
  BY <1>1 DEF TInv, Places
<1>3. files[op.h] \in FileType
  BY <1>2 DEF TInv, FileTypes
<1>4. \A g \in Handle : Keeps(g)
  <2>1. CASE files' = files
    BY <1>1, <2>1 DEF Keeps
  <2>2. CASE files' = [files EXCEPT ![op.h].size = 0]
    <3> PICK v : v = [files[op.h] EXCEPT !.size = 0]
      OBVIOUS
    <3>1. v.used = files[op.h].used /\ v.dclus = files[op.h].dclus
      BY <1>3 DEF FileType
    <3> QED BY <1>1, <1>2, <2>2, <3>1, KeepsOne
  <2> QED BY <2>1, <2>2 DEF MkdirDots
<1> QED BY <1>1, <1>4, Steady

LEMMA RemoveBufs ==
  ASSUME TInv, BInv, HInv, Remove
  PROVE  BInv' /\ HInv'
<1>1. /\ pc = "remove" /\ held' = [held EXCEPT ![op.h] = "dead"] /\ UNCHANGED <<cur, temp>>
  BY DEF Remove
<1>2. op.h \in Handle /\ files[op.h].used
  BY <1>1 DEF TInv, Places, HInv, Pending
<1>3. files \in [Handle -> FileType] /\ held \in [Handle -> HeldType]
  BY DEF TInv, FileTypes
<1>4. files' = files \/ files' = [files EXCEPT ![op.h].upd = {}]
  BY DEF Remove
<1>5. pc' \in {"idle", "closing", "dest"}
  BY DEF Remove, RemoveStops, Return, Close
<1>6. \A g \in Handle : files'[g].used = files[g].used /\ files'[g].dclus = files[g].dclus
  <2>1. CASE files' = [files EXCEPT ![op.h].upd = {}]
    <3> PICK v : v = [files[op.h] EXCEPT !.upd = {}]
      OBVIOUS
    <3>1. v.used = files[op.h].used /\ v.dclus = files[op.h].dclus
      BY <1>2, <1>3 DEF FileType
    <3>2. files' = [files EXCEPT ![op.h] = v]
      BY <2>1
    <3> QED BY <1>2, <1>3, <3>1, <3>2
  <2> QED BY <1>4, <2>1
<1>7. \A g \in Handle : Keeps(g)
  BY <1>1, <1>2, <1>3, <1>6 DEF Keeps
<1> QED BY <1>1, <1>5, <1>7, Steady

LEMMA RemoveNowhereBufs ==
  ASSUME TInv, BInv, HInv, RemoveNowhere
  PROVE  BInv' /\ HInv'
<1>1. /\ pc = "remove" /\ held' = [held EXCEPT ![op.h] = "dead"] /\ UNCHANGED <<cur, temp, files>>
  BY DEF RemoveNowhere, bufVars
<1>2. op.h \in Handle /\ files[op.h].used
  BY <1>1 DEF TInv, Places, HInv, Pending
<1>3. held \in [Handle -> HeldType]
  BY DEF TInv, FileTypes
<1>4. pc' \in {"idle", "closing"}
  BY DEF RemoveNowhere, RemoveStops, Return, Close
<1>5. \A g \in Handle : Keeps(g)
  BY <1>1, <1>2, <1>3 DEF Keeps
<1> QED BY <1>1, <1>4, <1>5, Steady

LEMMA MoveDestBufs ==
  ASSUME TInv, BInv, HInv, MoveDest
  PROVE  BInv' /\ HInv'
<1>1. CASE FreeHandles # {}
  <2>1. op \in OpType /\ op.dest \in Paths /\ Claim(op.dest, op)
    BY <1>1 DEF MoveDest, TInv, OpTypes, OpType
  <2> QED BY <1>1, <2>1, ClaimBufs
<1>2. CASE FreeHandles = {}
  BY <1>2, Calm DEF MoveDest, Close, bufVars
<1> QED BY <1>1, <1>2

LEMMA MoveTooLongBufs ==
  ASSUME TInv, BInv, HInv, MoveTooLong
  PROVE  BInv' /\ HInv'
  BY Calm DEF MoveTooLong, Close, bufVars

LEMMA MoveClashBufs ==
  ASSUME TInv, BInv, HInv, MoveClash
  PROVE  BInv' /\ HInv'
<1>1. pc = "name" /\ op.h \in Handle /\ UNCHANGED <<cur, temp>>
  BY DEF MoveClash, TInv, Places, bufVars
<1>2. CASE /\ files' = [files EXCEPT ![op.h] = NoFile] /\ held' = [held EXCEPT ![op.h] = "no"]
           /\ pc' = "dest"
  <2>1. files \in [Handle -> FileType] /\ held \in [Handle -> HeldType]
    BY DEF TInv, FileTypes
  <2>2. \A g \in Handle : Keeps(g)
    BY <1>1, <1>2, <2>1 DEF Keeps
  <2> QED BY <1>1, <1>2, <2>2, Steady
<1>3. CASE Close(<<op.src, op.h>>, "INVALID") /\ UNCHANGED <<files, held>>
  BY <1>1, <1>3, Calm DEF Close
<1> QED BY <1>2, <1>3 DEF MoveClash

LEMMA MoveFillBufs ==
  ASSUME TInv, BInv, HInv, MoveFill
  PROVE  BInv' /\ HInv'
<1> PICK f : f = Moved(files[op.h], files[op.src])
  OBVIOUS
<1>1. pc = "name" /\ UNCHANGED <<cur, temp, held>> /\ pc' = "closing"
  BY DEF MoveFill, Close
<1>2. op.h \in Handle /\ op.src \in Handle
  BY <1>1 DEF TInv, Places
<1>3. files[op.h] \in FileType /\ Placed(files[op.h]) /\ files[op.src] \in FileType
  BY <1>2 DEF TInv, FileTypes
<1>4. f \in FileType /\ f.used = files[op.h].used /\ f.dclus = files[op.h].dclus
  BY <1>3, MovedType
<1>5. \A g \in Handle : Keeps(g)
  <2>1. CASE files' = [files EXCEPT ![op.h] = f]
    BY <1>1, <1>2, <1>4, <2>1, KeepsOne
  <2>2. CASE \E p : files' = [files EXCEPT ![op.h] = [f EXCEPT !.fpos = p]]
    <3>1. PICK p : files' = [files EXCEPT ![op.h] = [f EXCEPT !.fpos = p]]
      BY <2>2
    <3> PICK v : v = [f EXCEPT !.fpos = p]
      OBVIOUS
    <3>2. v.used = files[op.h].used /\ v.dclus = files[op.h].dclus
      BY <1>4 DEF FileType
    <3> QED BY <1>1, <1>2, <3>1, <3>2, KeepsOne
  <2> QED BY <2>1, <2>2 DEF MoveFill
<1> QED BY <1>1, <1>5, Steady

LEMMA ReleaseBufs ==
  ASSUME TInv, BInv, HInv, NEW h \in Handle, Closing(h), NEW f, Release(h, f),
         UNCHANGED <<cur, temp>>
  PROVE  BInv' /\ HInv'
<1>1. pc' = "closing" /\ held' = [held EXCEPT ![h] = "no"]
  BY DEF Closing, Release
<1>2. PICK v : files' = [files EXCEPT ![h] = v]
  BY DEF Release
<1>3. files \in [Handle -> FileType] /\ held \in [Handle -> HeldType]
  BY DEF TInv, FileTypes
<1>4. \A g \in Handle : Keeps(g)
  BY <1>1, <1>2, <1>3 DEF Keeps
<1> QED BY <1>1, <1>4, Steady

LEMMA ContinueBufs ==
  ASSUME TInv, BInv, HInv, Continue
  PROVE  BInv' /\ HInv'
<1>1. CASE WalkToRoot \/ WalkInto \/ WalkStop \/ WalkEnd
  BY <1>1, WalkToRootBufs, WalkIntoBufs, WalkStopBufs, WalkEndBufs
<1>2. CASE Find \/ FindNone \/ Create
  BY <1>2, FindBufs, FindNoneBufs, CreateBufs
<1>3. CASE FindInfo \/ CallEnds
  BY <1>3, Calm DEF FindInfo, CallEnds, Return, bufVars
<1>4. CASE MkdirExists
  BY <1>4, Calm DEF MkdirExists, Close, bufVars
<1>5. CASE MkdirClear \/ MkdirDots
  BY <1>5, MkdirClearBufs, MkdirDotsBufs
<1>6. CASE Remove \/ RemoveNowhere
  BY <1>6, RemoveBufs, RemoveNowhereBufs
<1>7. CASE MoveDest \/ MoveTooLong \/ MoveClash \/ MoveFill
  BY <1>7, MoveDestBufs, MoveTooLongBufs, MoveClashBufs, MoveFillBufs
<1>8. CASE \E h \in Handle : CloseUnchanged(h) \/ CloseLost(h)
  BY <1>8, ReleaseBufs DEF CloseUnchanged, CloseLost, bufVars
<1>9. CASE \E h \in Handle : CloseChanged(h)
  <2> PICK h \in Handle : CloseChanged(h)
    BY <1>9
  <2>1. PICK f : Release(h, f)
    BY DEF CloseChanged
  <2>2. Closing(h) /\ UNCHANGED <<cur, temp>>
    BY DEF CloseChanged
  <2> QED BY <2>1, <2>2, ReleaseBufs
<1> QED BY <1>1, <1>2, <1>3, <1>4, <1>5, <1>6, <1>7, <1>8, <1>9 DEF Continue

LEMMA NextBufs ==
  ASSUME TInv, BInv, HInv, [Next]_vars
  PROVE  BInv' /\ HInv'
<1>1. CASE UNCHANGED vars
  BY <1>1 DEF vars, bufVars, BInv, HInv, Proper, WalkAt, FindAt, HeldRight, Pending
<1> QED BY <1>1, AskBufs, ContinueBufs DEF Next

-----------------------------------------------------------------------------
(* Entries stay where the open files remember them                         *)

\* The entry of f and the parts of its long name in the directory d.
Stands(f, d) ==
  /\ f.name \in Names /\ f.fpos # 0 /\ d.ent[f.lpos].name = f.name
  /\ \A j \in f.fpos .. (f.lpos - 1) : d.ent[j].name = "LFN"
  /\ f.fpos - 1 \in Slot => d.ent[f.fpos - 1].name # "LFN"

LEMMA StandsFacts ==
  ASSUME NEW f \in FileType, Placed(f), NEW d, Stands(f, d)
  PROVE  /\ f.fpos \in Slot /\ f.lpos \in Slot /\ f.fpos \in Nat /\ f.lpos \in Nat
         /\ f.fpos >= 1 /\ f.fpos <= f.lpos
         /\ d.ent[f.lpos].name = f.name /\ f.name \in Names
         /\ \A j \in f.fpos .. f.lpos : j # f.lpos => d.ent[j].name = "LFN"
<1>1. f.fpos \in 0 .. NumSlots /\ f.lpos \in 0 .. NumSlots /\ f.fpos <= f.lpos /\ f.fpos # 0
  BY DEF FileType, Placed, Stands
<1>2. f.fpos \in Nat /\ f.lpos \in Nat /\ f.fpos >= 1 /\ f.fpos <= NumSlots /\ f.lpos <= NumSlots
  BY <1>1, Constants
<1>3. f.fpos \in Slot /\ f.lpos \in Slot
  BY <1>1, <1>2, SlotFacts
<1>4. ASSUME NEW j \in f.fpos .. f.lpos, j # f.lpos
      PROVE  d.ent[j].name = "LFN"
  <2>1. j \in f.fpos .. (f.lpos - 1)
    BY <1>2, <1>4
  <2> QED BY <2>1 DEF Stands
<1> QED BY <1>1, <1>2, <1>3, <1>4 DEF Stands

\* Only names matter, and only those of the entry, its parts and the entry before.
LEMMA StandsIn ==
  ASSUME NEW f \in FileType, Placed(f), NEW d, NEW e, Stands(f, d),
         \A j \in Slot : j \in f.fpos .. f.lpos => e.ent[j].name = d.ent[j].name,
         f.fpos - 1 \in Slot => e.ent[f.fpos - 1].name # "LFN"
  PROVE  Stands(f, e)
<1>1. /\ f.fpos \in Slot /\ f.lpos \in Slot /\ f.fpos \in Nat /\ f.lpos \in Nat
      /\ f.fpos <= f.lpos
  BY StandsFacts
<1>2. e.ent[f.lpos].name = f.name
  <2>1. f.lpos \in f.fpos .. f.lpos
    BY <1>1
  <2> QED BY <1>1, <2>1 DEF Stands
<1>3. ASSUME NEW j \in f.fpos .. (f.lpos - 1)
      PROVE  e.ent[j].name = "LFN"
  <2>1. j \in f.fpos .. f.lpos /\ j \in Int /\ j >= f.fpos /\ j <= f.lpos
    BY <1>1
  <2>2. f.fpos >= 1 /\ f.lpos <= NumSlots
    BY <1>1, SlotFacts
  <2>3. j \in Slot
    BY <1>1, <2>1, <2>2, Constants DEF Slot
  <2> QED BY <2>1, <2>3 DEF Stands
<1> QED BY <1>2, <1>3 DEF Stands

\* The slots of two files in one directory are apart.
LEMMA Apart ==
  ASSUME NEW f \in FileType, Placed(f), NEW g \in FileType, Placed(g), NEW d,
         Stands(f, d), Stands(g, d), f.name # g.name, NEW j \in f.fpos .. f.lpos
  PROVE  j \notin g.fpos .. g.lpos
<1>1. SUFFICES ASSUME j \in g.fpos .. g.lpos PROVE FALSE
  OBVIOUS
<1>2. /\ f.fpos \in Nat /\ f.lpos \in Nat /\ d.ent[f.lpos].name = f.name /\ f.name \in Names
      /\ \A k \in f.fpos .. f.lpos : k # f.lpos => d.ent[k].name = "LFN"
  BY StandsFacts
<1>3. /\ g.fpos \in Nat /\ g.lpos \in Nat /\ d.ent[g.lpos].name = g.name /\ g.name \in Names
      /\ \A k \in g.fpos .. g.lpos : k # g.lpos => d.ent[k].name = "LFN"
  BY StandsFacts
<1>4. CASE f.lpos <= g.lpos
  <2>1. f.lpos \in g.fpos .. g.lpos
    BY <1>1, <1>2, <1>3, <1>4
  <2> QED BY <1>2, <1>3, <2>1, NameFacts
<1>5. CASE g.lpos <= f.lpos
  <2>1. g.lpos \in f.fpos .. f.lpos
    BY <1>1, <1>2, <1>3, <1>5
  <2> QED BY <1>2, <1>3, <2>1, NameFacts
<1> QED BY <1>2, <1>3, <1>4, <1>5

LEMMA TidyFrom ==
  ASSUME NEW d,
         \A i \in Slot : d.ent[i].name = "LFN" => i + 1 \in Slot /\ d.ent[i + 1].name \notin {"END", "FREE"},
         \A i \in Slot : d.ent[i].name = "END" => \A j \in i .. NumSlots : d.ent[j].name = "END"
  PROVE  Tidy(d)
  BY DEF Tidy

LEMMA TidyFacts ==
  ASSUME NEW d, Tidy(d), NEW i \in Slot
  PROVE  /\ d.ent[i].name = "LFN" => i + 1 \in Slot /\ d.ent[i + 1].name \notin {"END", "FREE"}
         /\ d.ent[i].name = "END" => \A j \in i .. NumSlots : d.ent[j].name = "END"
  BY DEF Tidy

\* A directory with the names of a tidy one is tidy.
SameNames(d, e) == \A j \in Slot : e.ent[j].name = d.ent[j].name

LEMMA SameTidy ==
  ASSUME NEW d, NEW e, Tidy(d), SameNames(d, e)
  PROVE  Tidy(e)
<1>1. ASSUME NEW i \in Slot, e.ent[i].name = "LFN"
      PROVE  i + 1 \in Slot /\ e.ent[i + 1].name \notin {"END", "FREE"}
  BY <1>1, TidyFacts DEF SameNames
<1>2. ASSUME NEW i \in Slot, e.ent[i].name = "END", NEW j \in i .. NumSlots
      PROVE  e.ent[j].name = "END"
  <2>1. d.ent[j].name = "END"
    BY <1>2, TidyFacts DEF SameNames
  <2>2. j \in Slot
    BY Constants DEF Slot
  <2> QED BY <2>1, <2>2 DEF SameNames
<1> QED BY <1>1, <1>2, TidyFrom

LEMMA SameStands ==
  ASSUME NEW f \in FileType, Placed(f), NEW d, NEW e, Stands(f, d), SameNames(d, e)
  PROVE  Stands(f, e)
<1>1. f.fpos - 1 \in Slot => e.ent[f.fpos - 1].name # "LFN"
  BY DEF Stands, SameNames
<1> QED BY <1>1, StandsIn DEF SameNames

LEMMA EmptyTidy ==
  ASSUME NEW d, d.ent = Zeros.ent
  PROVE  Tidy(d)
<1>1. \A i \in Slot : d.ent[i].name = "END"
  BY ZerosType
<1>2. \A i \in Slot : \A j \in i .. NumSlots : j \in Slot
  BY Constants DEF Slot
<1> QED BY <1>1, <1>2, TidyFrom

-----------------------------------------------------------------------------
(* What the changes do to a directory                                      *)

LEMMA WithoutNames ==
  ASSUME NEW d \in DirType, NEW f
  PROVE  \A j \in Slot : Without(d, f).ent[j].name =
                           IF j \in f.fpos .. f.lpos THEN "FREE" ELSE d.ent[j].name
<1> PICK g : g = [i \in Slot |-> IF i \in f.fpos .. f.lpos THEN Mark("FREE") ELSE d.ent[i]]
  OBVIOUS
<1>1. Without(d, f).ent = g
  BY DirOf DEF Without
<1>2. \A j \in Slot : g[j] = IF j \in f.fpos .. f.lpos THEN Mark("FREE") ELSE d.ent[j]
  OBVIOUS
<1> QED BY <1>1, <1>2, MarkTypes

LEMMA PutEntryNames ==
  ASSUME NEW d \in DirType, NEW i \in Slot, NEW k \in Nat \ {0}
  PROVE  \A j \in Slot : PutEntry(d, i, k).ent[j].name =
                           IF j \in i .. (i + k - 2) THEN "FREE"
                           ELSE IF j = i + k - 1 THEN op.name ELSE d.ent[j].name
<1> PICK g : g = [j \in Slot |-> IF j \in i .. (i + k - 2) THEN Mark("FREE")
                                 ELSE IF j = i + k - 1 THEN Entry(op.name, "ARCHIVE", 0, 0)
                                 ELSE d.ent[j]]
  OBVIOUS
<1>1. PutEntry(d, i, k).ent = g
  BY DirOf DEF PutEntry
<1>2. \A j \in Slot : g[j] = IF j \in i .. (i + k - 2) THEN Mark("FREE")
                             ELSE IF j = i + k - 1 THEN Entry(op.name, "ARCHIVE", 0, 0)
                             ELSE d.ent[j]
  OBVIOUS
<1>3. Entry(op.name, "ARCHIVE", 0, 0).name = op.name
  BY DEF Entry
<1> QED BY <1>1, <1>2, <1>3, MarkTypes

LEMMA NamePartsNames ==
  ASSUME NEW d \in DirType, NEW i, NEW k
  PROVE  \A j \in Slot : NameParts(d, i, k).ent[j].name =
                           IF j \in (i - k + 1) .. (i - 1) THEN "LFN" ELSE d.ent[j].name
<1> PICK g : g = [j \in Slot |-> IF j \in (i - k + 1) .. (i - 1) THEN Mark("LFN") ELSE d.ent[j]]
  OBVIOUS
<1>1. NameParts(d, i, k).ent = g
  BY DirOf DEF NameParts
<1>2. \A j \in Slot : g[j] = IF j \in (i - k + 1) .. (i - 1) THEN Mark("LFN") ELSE d.ent[j]
  OBVIOUS
<1> QED BY <1>1, <1>2, MarkTypes

LEMMA UpdateNames ==
  ASSUME NEW d \in DirType, NEW i \in Slot, NEW f \in FileType
  PROVE  SameNames(d, [d EXCEPT !.ent[i] = UpdatedEntry(d.ent[i], f)])
<1> PICK e : e = UpdatedEntry(d.ent[i], f)
  OBVIOUS
<1>1. d.ent[i] \in EntryType
  BY DirOf
<1>2. e \in EntryType /\ e.name = d.ent[i].name
  BY <1>1, UpdatedType
<1>3. \A j \in Slot : [d EXCEPT !.ent[i] = e].ent[j] = IF j = i THEN e ELSE d.ent[j]
  BY <1>2, EntryPut
<1> QED BY <1>2, <1>3 DEF SameNames

LEMMA WithoutTidy ==
  ASSUME NEW d \in DirType, Tidy(d), NEW f \in FileType, Placed(f), Stands(f, d)
  PROVE  Tidy(Without(d, f))
<1> PICK w : w = Without(d, f)
  OBVIOUS
<1>1. \A j \in Slot : w.ent[j].name = IF j \in f.fpos .. f.lpos THEN "FREE" ELSE d.ent[j].name
  BY WithoutNames
<1>2. /\ f.fpos \in Nat /\ f.lpos \in Nat /\ f.fpos <= f.lpos
      /\ d.ent[f.lpos].name = f.name /\ f.name \in Names
      /\ \A j \in f.fpos .. f.lpos : j # f.lpos => d.ent[j].name = "LFN"
  BY StandsFacts
<1>3. ASSUME NEW i \in Slot, w.ent[i].name = "LFN"
      PROVE  i + 1 \in Slot /\ w.ent[i + 1].name \notin {"END", "FREE"}
  <2>1. i \notin f.fpos .. f.lpos /\ d.ent[i].name = "LFN"
    BY <1>1, <1>3
  <2>2. i + 1 \in Slot /\ d.ent[i + 1].name \notin {"END", "FREE"}
    BY <2>1, TidyFacts
  <2>3. ASSUME i + 1 \in f.fpos .. f.lpos PROVE FALSE
    <3>1. i = f.fpos - 1
      BY <1>2, <2>1, <2>3, SlotFacts
    <3> QED BY <2>1, <3>1 DEF Stands
  <2> QED BY <1>1, <2>2, <2>3
<1>4. ASSUME NEW i \in Slot, w.ent[i].name = "END", NEW j \in i .. NumSlots
      PROVE  w.ent[j].name = "END"
  <2>1. d.ent[i].name = "END"
    BY <1>1, <1>4
  <2>2. d.ent[j].name = "END" /\ j \in Slot
    BY <2>1, TidyFacts, Constants DEF Slot
  <2>3. j \notin f.fpos .. f.lpos
    BY <1>2, <2>2, NameFacts
  <2> QED BY <1>1, <2>2, <2>3
<1> QED BY <1>3, <1>4, TidyFrom

LEMMA WithoutStands ==
  ASSUME NEW d \in DirType, NEW f \in FileType, Placed(f), Stands(f, d),
         NEW g \in FileType, Placed(g), Stands(g, d), f.name # g.name
  PROVE  Stands(g, Without(d, f))
<1> PICK w : w = Without(d, f)
  OBVIOUS
<1>1. \A j \in Slot : w.ent[j].name = IF j \in f.fpos .. f.lpos THEN "FREE" ELSE d.ent[j].name
  BY WithoutNames
<1>2. \A j \in Slot : j \in g.fpos .. g.lpos => w.ent[j].name = d.ent[j].name
  BY <1>1, Apart
<1>3. g.fpos - 1 \in Slot => w.ent[g.fpos - 1].name # "LFN"
  BY <1>1 DEF Stands
<1> QED BY <1>2, <1>3, StandsIn

\* A new entry takes slots that are free or behind the end.
LEMMA PutEntryTidy ==
  ASSUME NEW d \in DirType, Tidy(d), NEW k \in Nat \ {0}, NEW i \in Slot, i + k - 1 \in Slot,
         i \in FreeRun(d, k) \cup FirstEnd(d), op.name \in Names
  PROVE  Tidy(PutEntry(d, i, k))
<1> PICK w : w = PutEntry(d, i, k)
  OBVIOUS
<1>1. \A j \in Slot : w.ent[j].name = IF j \in i .. (i + k - 2) THEN "FREE"
                                      ELSE IF j = i + k - 1 THEN op.name ELSE d.ent[j].name
  BY PutEntryNames
<1>2. /\ \A j \in i .. (i + k - 1) : d.ent[j].name \in {"FREE", "END"}
      /\ i - 1 \in Slot => d.ent[i - 1].name \notin {"LFN", "END"}
      /\ (\E j \in i .. (i + k - 1) : d.ent[j].name = "END")
           => \A j \in i .. NumSlots : d.ent[j].name = "END"
  BY FreeFacts
<1>3. i \in Nat /\ k \in Nat /\ k >= 1 /\ i + k - 1 \in Nat
  BY SlotFacts
<1>4. ASSUME NEW j \in Slot, w.ent[j].name = "LFN"
      PROVE  j + 1 \in Slot /\ w.ent[j + 1].name \notin {"END", "FREE"}
  <2>1. j \notin i .. (i + k - 2) /\ j # i + k - 1 /\ d.ent[j].name = "LFN"
    BY <1>1, <1>4, NameFacts
  <2>2. j + 1 \in Slot /\ d.ent[j + 1].name \notin {"END", "FREE"}
    BY <2>1, TidyFacts
  <2>3. j + 1 \notin i .. (i + k - 1)
    BY <1>2, <2>2
  <2>4. j + 1 \notin i .. (i + k - 2) /\ j + 1 # i + k - 1
    BY <1>3, <2>3, SlotFacts
  <2> QED BY <1>1, <2>2, <2>4
<1>5. ASSUME NEW j \in Slot, w.ent[j].name = "END", NEW q \in j .. NumSlots
      PROVE  w.ent[q].name = "END"
  <2>1. j \notin i .. (i + k - 2) /\ j # i + k - 1 /\ d.ent[j].name = "END"
    BY <1>1, <1>5, NameFacts
  <2>2. d.ent[q].name = "END" /\ q \in Slot /\ j <= q /\ q \in Nat /\ j \in Nat
    BY <2>1, TidyFacts, Constants DEF Slot
  <2>3. j > i + k - 1
    <3>1. SUFFICES ASSUME j < i PROVE FALSE
      BY <1>3, <2>1, <2>2
    <3>2. i - 1 \in Slot /\ i - 1 \in j .. NumSlots
      BY <1>3, <2>2, <3>1, SlotFacts, Constants DEF Slot
    <3>3. d.ent[i - 1].name = "END"
      BY <2>1, <3>2, TidyFacts
    <3> QED BY <1>2, <3>2, <3>3
  <2>4. q \notin i .. (i + k - 2) /\ q # i + k - 1
    BY <1>3, <2>2, <2>3
  <2> QED BY <1>1, <2>2, <2>4
<1> QED BY <1>4, <1>5, TidyFrom

LEMMA PutEntryStands ==
  ASSUME NEW d \in DirType, Tidy(d), NEW k \in Nat \ {0}, NEW i \in Slot, i + k - 1 \in Slot,
         i \in FreeRun(d, k) \cup FirstEnd(d), op.name \in Names,
         NEW g \in FileType, Placed(g), Stands(g, d)
  PROVE  Stands(g, PutEntry(d, i, k))
<1> PICK w : w = PutEntry(d, i, k)
  OBVIOUS
<1>1. \A j \in Slot : w.ent[j].name = IF j \in i .. (i + k - 2) THEN "FREE"
                                      ELSE IF j = i + k - 1 THEN op.name ELSE d.ent[j].name
  BY PutEntryNames
<1>2. \A j \in i .. (i + k - 1) : d.ent[j].name \in {"FREE", "END"}
  BY FreeFacts
<1>3. i \in Nat /\ k \in Nat /\ k >= 1
  BY SlotFacts
<1>4. /\ d.ent[g.lpos].name = g.name /\ g.name \in Names
      /\ \A j \in g.fpos .. g.lpos : j # g.lpos => d.ent[j].name = "LFN"
  BY StandsFacts
<1>5. ASSUME NEW j \in Slot, j \in g.fpos .. g.lpos
      PROVE  w.ent[j].name = d.ent[j].name
  <2>1. d.ent[j].name \notin {"FREE", "END"}
    BY <1>4, <1>5, NameFacts
  <2>2. j \notin i .. (i + k - 1)
    BY <1>2, <2>1
  <2>3. j \notin i .. (i + k - 2) /\ j # i + k - 1
    BY <1>3, <2>2, SlotFacts
  <2> QED BY <1>1, <2>3
<1>6. g.fpos - 1 \in Slot => w.ent[g.fpos - 1].name # "LFN"
  BY <1>1, NameFacts DEF Stands
<1> QED BY <1>5, <1>6, StandsIn

\* The new entry itself stands, its long name still to come.
LEMMA NewEntryStands ==
  ASSUME NEW d \in DirType, Tidy(d), NEW k \in Nat \ {0}, NEW i \in Slot, i + k - 1 \in Slot,
         i \in FreeRun(d, k) \cup FirstEnd(d), op.name \in Names,
         NEW g, g.name = op.name, g.fpos = i + k - 1, g.lpos = i + k - 1
  PROVE  Stands(g, PutEntry(d, i, k))
<1> PICK w : w = PutEntry(d, i, k)
  OBVIOUS
<1>1. \A j \in Slot : w.ent[j].name = IF j \in i .. (i + k - 2) THEN "FREE"
                                      ELSE IF j = i + k - 1 THEN op.name ELSE d.ent[j].name
  BY PutEntryNames
<1>2. i - 1 \in Slot => d.ent[i - 1].name # "LFN"
  BY FreeFacts
<1>3. i \in Nat /\ k \in Nat /\ i >= 1 /\ k >= 1
  BY SlotFacts
<1>4. g.fpos # 0 /\ ~(\E j \in g.fpos .. (g.lpos - 1) : TRUE)
  BY <1>3
<1>5. w.ent[g.lpos].name = g.name
  <2>1. i + k - 1 \notin i .. (i + k - 2)
    BY <1>3
  <2> QED BY <1>1, <2>1
<1>6. ASSUME g.fpos - 1 \in Slot PROVE w.ent[g.fpos - 1].name # "LFN"
  <2>1. CASE k = 1
    <3>1. g.fpos - 1 = i - 1 /\ i - 1 \notin i .. (i + k - 2) /\ i - 1 # i + k - 1
      BY <1>3, <2>1
    <3> QED BY <1>1, <1>2, <1>6, <3>1
  <2>2. CASE k # 1
    <3>1. g.fpos - 1 \in i .. (i + k - 2)
      BY <1>3, <2>2
    <3> QED BY <1>1, <1>6, <3>1
  <2> QED BY <2>1, <2>2
<1> QED BY <1>4, <1>5, <1>6 DEF Stands

\* The parts of a long name take free slots right before its entry.
LEMMA NamePartsTidy ==
  ASSUME NEW d \in DirType, Tidy(d), NEW k \in Nat, k > 1, NEW i \in Slot,
         d.ent[i].name \in Names, RoomFor(d, i, k)
  PROVE  Tidy(NameParts(d, i, k))
<1> PICK w : w = NameParts(d, i, k)
  OBVIOUS
<1>1. \A j \in Slot : w.ent[j].name =
                        IF j \in (i - k + 1) .. (i - 1) THEN "LFN" ELSE d.ent[j].name
  BY NamePartsNames
<1>2. \A j \in (i - k + 1) .. (i - 1) : j \in Slot /\ d.ent[j].name = "FREE"
  BY DEF RoomFor
<1>3. i \in Nat /\ k \in Nat
  BY SlotFacts
<1>4. ASSUME NEW j \in Slot, w.ent[j].name = "LFN"
      PROVE  j + 1 \in Slot /\ w.ent[j + 1].name \notin {"END", "FREE"}
  <2>1. CASE j \in (i - k + 1) .. (i - 1)
    <3>1. j + 1 \in (i - k + 1) .. (i - 1) \/ j + 1 = i
      BY <1>3, <2>1
    <3>2. CASE j + 1 \in (i - k + 1) .. (i - 1)
      BY <1>1, <1>2, <3>2
    <3>3. CASE j + 1 = i
      <4>1. w.ent[i].name = d.ent[i].name
        <5>1. i \notin (i - k + 1) .. (i - 1)
          BY <1>3
        <5> QED BY <1>1, <5>1
      <4> QED BY <3>3, <4>1, NameFacts
    <3> QED BY <3>1, <3>2, <3>3
  <2>2. CASE j \notin (i - k + 1) .. (i - 1)
    <3>1. d.ent[j].name = "LFN"
      BY <1>1, <1>4, <2>2
    <3>2. j + 1 \in Slot /\ d.ent[j + 1].name \notin {"END", "FREE"}
      BY <3>1, TidyFacts
    <3> QED BY <1>1, <3>2
  <2> QED BY <2>1, <2>2
<1>5. ASSUME NEW j \in Slot, w.ent[j].name = "END", NEW q \in j .. NumSlots
      PROVE  w.ent[q].name = "END"
  <2>1. j \notin (i - k + 1) .. (i - 1) /\ d.ent[j].name = "END"
    BY <1>1, <1>5
  <2>2. d.ent[q].name = "END" /\ q \in Slot
    BY <2>1, TidyFacts, Constants DEF Slot
  <2>3. q \notin (i - k + 1) .. (i - 1)
    BY <1>2, <2>2
  <2> QED BY <1>1, <2>2, <2>3
<1> QED BY <1>4, <1>5, TidyFrom

LEMMA NamePartsStands ==
  ASSUME NEW d \in DirType, NEW k \in Nat, k > 1, NEW i \in Slot, RoomFor(d, i, k),
         NEW g \in FileType, Placed(g), Stands(g, d), d.ent[i].name \in Names, d.ent[i].name # g.name
  PROVE  Stands(g, NameParts(d, i, k))
<1> PICK w : w = NameParts(d, i, k)
  OBVIOUS
<1>1. \A j \in Slot : w.ent[j].name =
                        IF j \in (i - k + 1) .. (i - 1) THEN "LFN" ELSE d.ent[j].name
  BY NamePartsNames
<1>2. \A j \in (i - k + 1) .. (i - 1) : d.ent[j].name = "FREE"
  BY DEF RoomFor
<1>3. i \in Nat /\ k \in Nat
  BY SlotFacts
<1>4. /\ d.ent[g.lpos].name = g.name /\ g.name \in Names /\ g.fpos \in Nat /\ g.lpos \in Nat
      /\ g.fpos <= g.lpos /\ \A j \in g.fpos .. g.lpos : j # g.lpos => d.ent[j].name = "LFN"
  BY StandsFacts
<1>5. \A j \in g.fpos .. g.lpos : d.ent[j].name # "FREE" /\ j # i
  BY <1>4, NameFacts
<1>6. \A j \in Slot : j \in g.fpos .. g.lpos => w.ent[j].name = d.ent[j].name
  BY <1>1, <1>2, <1>5
<1>7. ASSUME g.fpos - 1 \in Slot PROVE w.ent[g.fpos - 1].name # "LFN"
  <2>1. g.fpos - 1 \notin (i - k + 1) .. (i - 1)
    <3>1. SUFFICES ASSUME g.fpos - 1 \in (i - k + 1) .. (i - 1) PROVE FALSE
      OBVIOUS
    <3>2. g.fpos \in (i - k + 1) .. (i - 1) \/ g.fpos = i
      BY <1>3, <1>4, <3>1
    <3>3. g.fpos \in g.fpos .. g.lpos
      BY <1>4
    <3> QED BY <1>2, <1>5, <3>2, <3>3
  <2> QED BY <1>1, <1>7, <2>1 DEF Stands
<1> QED BY <1>6, <1>7, StandsIn

LEMMA NamedStands ==
  ASSUME NEW d \in DirType, Tidy(d), NEW k \in Nat, k > 1, NEW i \in Slot, RoomFor(d, i, k),
         NEW g, g.name \in Names, d.ent[i].name = g.name, g.lpos = i, g.fpos = i - k + 1
  PROVE  Stands(g, NameParts(d, i, k))
<1> PICK w : w = NameParts(d, i, k)
  OBVIOUS
<1>1. \A j \in Slot : w.ent[j].name =
                        IF j \in (i - k + 1) .. (i - 1) THEN "LFN" ELSE d.ent[j].name
  BY NamePartsNames
<1>2. \A j \in (i - k + 1) .. (i - 1) : j \in Slot /\ d.ent[j].name = "FREE"
  BY DEF RoomFor
<1>3. i \in Nat /\ k \in Nat
  BY SlotFacts
<1>4. g.fpos \in Slot /\ d.ent[g.fpos].name = "FREE"
  <2>1. g.fpos \in (i - k + 1) .. (i - 1)
    BY <1>3
  <2> QED BY <1>2, <2>1
<1>5. g.fpos # 0
  BY <1>4, SlotFacts
<1>6. w.ent[g.lpos].name = g.name
  <2>1. i \notin (i - k + 1) .. (i - 1)
    BY <1>3
  <2> QED BY <1>1, <2>1
<1>7. \A j \in g.fpos .. (g.lpos - 1) : w.ent[j].name = "LFN"
  BY <1>1, <1>2
<1>8. ASSUME g.fpos - 1 \in Slot PROVE w.ent[g.fpos - 1].name # "LFN"
  <2>1. g.fpos - 1 \notin (i - k + 1) .. (i - 1) /\ (g.fpos - 1) + 1 = g.fpos
    BY <1>3
  <2>2. d.ent[g.fpos - 1].name # "LFN"
    BY <1>4, <1>8, <2>1, TidyFacts
  <2> QED BY <1>1, <1>8, <2>1, <2>2
<1> QED BY <1>5, <1>6, <1>7, <1>8 DEF Stands

-----------------------------------------------------------------------------
(* The entries of the open files in the directories in memory              *)

Holds(h) == held[h] \in {"cur", "temp"}
BufOf(h) == IF held[h] = "cur" THEN cur.buf ELSE temp.buf
Standing(h) == Holds(h) => Stands(files[h], Mem(BufOf(h)))
Twice(g, h) == files[g].name = files[h].name /\ files[g].dclus = files[h].dclus

AllTidy == (\A c \in Clus : Tidy(disk[c])) /\ Tidy(rd) /\ Tidy(buf["b1"]) /\ Tidy(buf["b2"])
AllStand == \A h \in Handle : Standing(h)
NotTwice == \A g, h \in Handle : Holds(g) /\ Holds(h) /\ g # h => ~Twice(g, h)
DeadSynced == \A h \in Handle : held[h] = "dead" => files[h].upd = {}
FInv == AllTidy /\ AllStand /\ NotTwice /\ DeadSynced

\* fatuc__getdirbufoffile finds the buffer of a file that is held.
LEMMA HeldFacts ==
  ASSUME TInv, BInv, HInv, NEW h \in Handle, Holds(h)
  PROVE  /\ BufOf(h) \in BufName /\ DirBufOf(h) = {DirBuf(BufOf(h), TRUE)}
         /\ files[h].used /\ files[h].dclus \in Clus
<1>1. cur.buf \in BufName /\ temp.buf \in BufName
  BY DEF TInv, BufTypes, AtType, TempType
<1>2. HeldRight(h)
  BY DEF HInv
<1>3. files[h].used /\ files[h] \in FileType
  BY <1>2 DEF HeldRight, Holds, TInv, FileTypes
<1>4. CASE held[h] = "cur"
  BY <1>1, <1>2, <1>3, <1>4 DEF HeldRight, BufOf, DirBufOf, FileType
<1>5. CASE held[h] = "temp"
  <2>1. temp.full /\ files[h].dclus = temp.clus /\ (temp.clus = cur.clus => temp.buf = cur.buf)
    BY <1>2, <1>5 DEF HeldRight
  <2>2. BufOf(h) = temp.buf
    BY <1>5 DEF BufOf
  <2>3. temp.full = TRUE
    BY <2>1 DEF TInv, BufTypes, TempType
  <2>4. DirBufOf(h) = {DirBuf(temp.buf, TRUE)}
    BY <2>1, <2>3 DEF DirBufOf
  <2> QED BY <1>1, <1>3, <2>2, <2>4 DEF FileType
<1> QED BY <1>4, <1>5 DEF Holds

\* Two directories are never in one buffer.
LEMMA OneBuffer ==
  ASSUME TInv, BInv, HInv, NEW g \in Handle, NEW h \in Handle, Holds(g), Holds(h),
         BufOf(g) = BufOf(h)
  PROVE  files[g].dclus = files[h].dclus
<1>1. HeldRight(g) /\ HeldRight(h)
  BY DEF HInv
<1>2. temp.full /\ temp.buf = cur.buf => temp.clus = cur.clus
  BY DEF BInv, Proper
<1>3. /\ held[g] = "cur" => files[g].dclus = cur.clus /\ BufOf(g) = cur.buf
      /\ held[g] = "temp" => files[g].dclus = temp.clus /\ BufOf(g) = temp.buf /\ temp.full
  BY <1>1 DEF HeldRight, BufOf
<1>4. /\ held[h] = "cur" => files[h].dclus = cur.clus /\ BufOf(h) = cur.buf
      /\ held[h] = "temp" => files[h].dclus = temp.clus /\ BufOf(h) = temp.buf /\ temp.full
  BY <1>1 DEF HeldRight, BufOf
<1> QED BY <1>2, <1>3, <1>4 DEF Holds

LEMMA MemAfter ==
  ASSUME DiskTypes, NEW b \in BufName, NEW d, SetMem(b, d)
  PROVE  \A x \in BufName : Mem(x)' = IF x = b THEN d ELSE Mem(x)
  BY DEF DiskTypes, BufName, Bufs, SetMem, Mem

LEMMA MemTidy ==
  ASSUME AllTidy, NEW b \in BufName
  PROVE  Tidy(Mem(b))
  BY DEF AllTidy, BufName, Bufs, Mem

LEMMA TidyAfter ==
  ASSUME DiskTypes, AllTidy, NEW b \in BufName, NEW d, Tidy(d), SetMem(b, d), NEW c \in Clus,
         disk' = disk \/ disk' = [disk EXCEPT ![c] = d]
  PROVE  AllTidy'
<1>1. \A x \in Clus : disk'[x] = disk[x] \/ disk'[x] = d
  BY DEF DiskTypes
<1>2. \A x \in Clus : Tidy(disk'[x])
  BY <1>1 DEF AllTidy
<1>3. \A x \in BufName : Mem(x)' = d \/ Mem(x)' = Mem(x)
  BY MemAfter
<1>4. ASSUME NEW x \in BufName PROVE Tidy(Mem(x)')
  BY <1>3, MemTidy
<1>5. Mem("RD")' = rd' /\ Mem("b1")' = buf'["b1"] /\ Mem("b2")' = buf'["b2"]
  BY DEF Mem
<1>6. "RD" \in BufName /\ "b1" \in BufName /\ "b2" \in BufName
  BY DEF BufName, Bufs
<1> QED BY <1>2, <1>4, <1>5, <1>6 DEF AllTidy

\* One chain is written over.
LEMMA TidyDisk ==
  ASSUME DiskTypes, AllTidy, UNCHANGED <<rd, buf>>, NEW c, NEW d, Tidy(d),
         disk' = disk \/ disk' = [disk EXCEPT ![c] = d]
  PROVE  AllTidy'
<1>1. \A x \in Clus : disk'[x] = disk[x] \/ disk'[x] = d
  BY DEF DiskTypes
<1> QED BY <1>1 DEF AllTidy

\* One buffer is read into.
LEMMA TidyRead ==
  ASSUME DiskTypes, AllTidy, UNCHANGED <<disk, rd>>, NEW c \in Clus, NEW b,
         buf' = buf \/ buf' = [buf EXCEPT ![b] = disk[c]]
  PROVE  AllTidy'
<1>1. \A x \in Bufs : buf'[x] = buf[x] \/ buf'[x] = disk[c]
  BY DEF DiskTypes
<1>2. "b1" \in Bufs /\ "b2" \in Bufs
  BY DEF Bufs
<1> QED BY <1>1, <1>2 DEF AllTidy

\* What a step does to a file it is not about, and to its entry.
SameEntry(h) ==
  /\ files'[h].name = files[h].name /\ files'[h].dclus = files[h].dclus
  /\ files'[h].fpos = files[h].fpos /\ files'[h].lpos = files[h].lpos
Kept(h) ==
  \/ held'[h] = "no"
  \/ held'[h] = "dead" /\ files'[h].upd = {}
  \/ /\ SameEntry(h) /\ held'[h] = held[h]
     /\ held[h] = "dead" => files'[h].upd = files[h].upd
Stays(h) == Holds(h) /\ held'[h] = held[h] => Stands(files[h], Mem(BufOf(h))')

LEMMA StandsLike ==
  ASSUME NEW f, NEW g, NEW d, Stands(f, d), g.name = f.name, g.fpos = f.fpos, g.lpos = f.lpos
  PROVE  Stands(g, d)
  BY DEF Stands

LEMMA KeptStands ==
  ASSUME AllStand, DeadSynced, NEW h \in Handle, Kept(h), Stays(h)
  PROVE  /\ Standing(h)' /\ (held'[h] = "dead" => files'[h].upd = {})
         /\ Holds(h)' => Holds(h) /\ SameEntry(h)
<1>1. CASE held'[h] = "no" \/ (held'[h] = "dead" /\ files'[h].upd = {})
  BY <1>1 DEF Standing, Holds
<1>2. CASE /\ SameEntry(h) /\ held'[h] = held[h]
           /\ held[h] = "dead" => files'[h].upd = files[h].upd
  <2>1. held'[h] = "dead" => files'[h].upd = {}
    BY <1>2 DEF DeadSynced
  <2>2. Holds(h)' => Holds(h)
    BY <1>2 DEF Holds
  <2>3. ASSUME Holds(h)' PROVE Stands(files'[h], Mem(BufOf(h))')
    <3>1. Stands(files[h], Mem(BufOf(h))')
      BY <1>2, <2>2, <2>3 DEF Stays
    <3> QED BY <1>2, <3>1, StandsLike DEF SameEntry
  <2> QED BY <1>2, <2>1, <2>2, <2>3 DEF Standing
<1> QED BY <1>1, <1>2 DEF Kept

LEMMA KeptAll ==
  ASSUME FInv, AllTidy', \A h \in Handle : Kept(h), \A h \in Handle : Stays(h)
  PROVE  FInv'
<1>1. ASSUME NEW h \in Handle
      PROVE  /\ Standing(h)' /\ (held'[h] = "dead" => files'[h].upd = {})
             /\ Holds(h)' => Holds(h) /\ SameEntry(h)
  BY KeptStands DEF FInv
<1>2. NotTwice'
  <2> SUFFICES ASSUME NEW g \in Handle, NEW h \in Handle, Holds(g)', Holds(h)', g # h
               PROVE  ~Twice(g, h)'
    BY DEF NotTwice
  <2>1. Holds(g) /\ Holds(h) /\ SameEntry(g) /\ SameEntry(h)
    BY <1>1
  <2>2. ~Twice(g, h)
    BY <2>1 DEF FInv, NotTwice
  <2> QED BY <2>1, <2>2 DEF Twice, SameEntry
<1> QED BY <1>1, <1>2 DEF FInv, AllStand, DeadSynced

LEMMA KeptNew ==
  ASSUME FInv, AllTidy', NEW g \in Handle, \A h \in Handle : h # g => Kept(h) /\ Stays(h),
         held'[g] # "dead", Standing(g)',
         \A h \in Handle : h # g /\ Holds(h)' => ~Twice(g, h)'
  PROVE  FInv'
<1>1. ASSUME NEW h \in Handle, h # g
      PROVE  /\ Standing(h)' /\ (held'[h] = "dead" => files'[h].upd = {})
             /\ Holds(h)' => Holds(h) /\ SameEntry(h)
  BY <1>1, KeptStands DEF FInv
<1>2. NotTwice'
  <2> SUFFICES ASSUME NEW x \in Handle, NEW y \in Handle, Holds(x)', Holds(y)', x # y
               PROVE  ~Twice(x, y)'
    BY DEF NotTwice
  <2>1. CASE x = g
    BY <2>1
  <2>2. CASE y = g
    <3>1. ~Twice(g, x)'
      BY <2>2
    <3> QED BY <2>2, <3>1 DEF Twice
  <2>3. CASE x # g /\ y # g
    <3>1. Holds(x) /\ Holds(y) /\ SameEntry(x) /\ SameEntry(y)
      BY <1>1, <2>3
    <3>2. ~Twice(x, y)
      BY <3>1 DEF FInv, NotTwice
    <3> QED BY <3>1, <3>2 DEF Twice, SameEntry
  <2> QED BY <2>1, <2>2, <2>3
<1> QED BY <1>1, <1>2 DEF FInv, AllStand, DeadSynced

\* The buffers stay as they are.
LEMMA StaysSame ==
  ASSUME FInv, UNCHANGED <<rd, buf, cur, temp>>, NEW h \in Handle
  PROVE  Stays(h)
<1>1. SUFFICES ASSUME Holds(h), held'[h] = held[h] PROVE Stands(files[h], Mem(BufOf(h))')
  BY DEF Stays
<1>2. Mem(BufOf(h))' = Mem(BufOf(h))
  BY <1>1 DEF Mem, BufOf
<1> QED BY <1>1, <1>2 DEF FInv, AllStand, Standing

\* One buffer changes, and the entries in it stay.
LEMMA StaysAfter ==
  ASSUME TInv, FInv, NEW b \in BufName, NEW d, SetMem(b, d), UNCHANGED <<cur, temp>>,
         NEW h \in Handle,
         Holds(h) /\ BufOf(h) = b /\ Stands(files[h], Mem(b)) => Stands(files[h], d)
  PROVE  Stays(h)
<1>1. SUFFICES ASSUME Holds(h), held'[h] = held[h] PROVE Stands(files[h], Mem(BufOf(h))')
  BY DEF Stays
<1> PICK x : x = BufOf(h)
  OBVIOUS
<1>2. x \in BufName
  BY DEF BufOf, TInv, BufTypes, AtType, TempType
<1>3. BufOf(h)' = x
  BY <1>1 DEF BufOf
<1>4. Mem(BufOf(h))' = Mem(x)'
  BY <1>3 DEF Mem
<1>5. Mem(x)' = IF x = b THEN d ELSE Mem(x)
  BY <1>2, MemAfter DEF TInv
<1>6. Stands(files[h], Mem(x))
  BY <1>1 DEF FInv, AllStand, Standing
<1>7. CASE x = b
  BY <1>1, <1>4, <1>5, <1>6, <1>7
<1>8. CASE x # b
  BY <1>4, <1>5, <1>6, <1>8
<1> QED BY <1>7, <1>8

-----------------------------------------------------------------------------
(* No step of a call moves the entry of an open file                       *)

LEMMA Untouched ==
  ASSUME FInv, AllTidy', UNCHANGED <<rd, buf, cur, temp>>, \A h \in Handle : Kept(h)
  PROVE  FInv'
  BY StaysSame, KeptAll

LEMMA AsBefore ==
  ASSUME FInv, UNCHANGED <<rd, buf, disk, cur, temp, files, held>>
  PROVE  FInv'
<1>1. AllTidy'
  BY DEF FInv, AllTidy
<1>2. \A h \in Handle : Kept(h)
  BY DEF Kept, SameEntry
<1> QED BY <1>1, <1>2, Untouched

LEMMA StaysCur ==
  ASSUME FInv, UNCHANGED cur, NEW h \in Handle, NEW x, x = cur.buf,
         Holds(h) /\ held'[h] = held[h] => held[h] = "cur" /\ Mem(x)' = Mem(x)
  PROVE  Stays(h)
<1>1. SUFFICES ASSUME Holds(h), held'[h] = held[h] PROVE Stands(files[h], Mem(BufOf(h))')
  BY DEF Stays
<1>2. BufOf(h) = x /\ BufOf(h)' = x
  BY <1>1 DEF BufOf
<1>3. Mem(BufOf(h))' = Mem(x)'
  BY <1>2 DEF Mem
<1>4. Stands(files[h], Mem(x))
  BY <1>1, <1>2 DEF FInv, AllStand, Standing
<1> QED BY <1>1, <1>3, <1>4

LEMMA LookUpFound ==
  ASSUME TInv, FInv, NEW p, NEW o, LookUp(p, o),
         \A h \in Handle : held[h] # "no" => files'[h] = files[h]
  PROVE  FInv'
<1>1. UNCHANGED <<rd, buf, disk, cur>>
  BY DEF LookUp, diskVars
<1>2. AllTidy'
  BY <1>1 DEF FInv, AllTidy
<1>3. held \in [Handle -> HeldType]
  BY DEF TInv, FileTypes
<1>4. CASE p = Here
  <2>1. UNCHANGED <<temp, held>>
    BY <1>4 DEF LookUp
  <2>2. \A h \in Handle : Kept(h)
    BY <2>1 DEF Kept, SameEntry
  <2> QED BY <1>1, <1>2, <2>1, <2>2, Untouched
<1>5. CASE p # Here
  <2>1. \A h \in Handle : held'[h] = IF held[h] \in {"temp"} THEN "no" ELSE held[h]
    BY <1>5 DEF LookUp, GiveUp
  <2>2. \A h \in Handle : Kept(h)
    BY <2>1 DEF Kept, SameEntry
  <2>3. ASSUME NEW h \in Handle PROVE Stays(h)
    <3> PICK x : x = cur.buf
      OBVIOUS
    <3>1. Mem(x)' = Mem(x)
      BY <1>1 DEF Mem
    <3>2. Holds(h) /\ held'[h] = held[h] => held[h] = "cur"
      BY <2>1 DEF Holds
    <3> QED BY <1>1, <3>1, <3>2, StaysCur
  <2> QED BY <1>2, <2>2, <2>3, KeptAll
<1> QED BY <1>4, <1>5

LEMMA ClaimFound ==
  ASSUME TInv, HInv, FInv, NEW p \in Paths, NEW o \in OpType, FreeHandles # {}, Claim(p, o)
  PROVE  FInv'
<1>1. /\ op'.h \in Handle /\ ~files[op'.h].used /\ files' = [files EXCEPT ![op'.h].used = TRUE]
      /\ LookUp(p, [o EXCEPT !.h = op'.h])
  BY ClaimTypes
<1> PICK g : g = op'.h
  OBVIOUS
<1>2. held[g] = "no"
  BY <1>1 DEF HInv, HeldRight
<1>3. \A h \in Handle : h # g => files'[h] = files[h]
  BY <1>1 DEF TInv, FileTypes
<1> QED BY <1>1, <1>2, <1>3, LookUpFound

LEMMA BeginFound ==
  ASSUME TInv, HInv, FInv, NEW p \in Paths, NEW o \in OpType, Begin(p, o)
  PROVE  FInv'
<1>1. CASE FreeHandles # {}
  BY <1>1, ClaimFound DEF Begin
<1>2. CASE FreeHandles = {}
  BY <1>2, AsBefore DEF Begin, bufVars, diskVars
<1> QED BY <1>1, <1>2

LEMMA WrittenFound ==
  ASSUME TInv, FInv, UNCHANGED <<rd, buf, cur, temp, held>>, AllTidy', NEW h \in Handle,
         held[h] # "dead", NEW f, files' = [files EXCEPT ![h] = f], f.name = files[h].name,
         f.dclus = files[h].dclus, f.fpos = files[h].fpos, f.lpos = files[h].lpos
  PROVE  FInv'
<1>1. \A g \in Handle : Kept(g)
  <2> TAKE g \in Handle
  <2>1. CASE g = h
    <3>1. files'[g] = f
      BY <2>1 DEF TInv, FileTypes
    <3> QED BY <2>1, <3>1 DEF Kept, SameEntry
  <2>2. CASE g # h
    <3>1. files'[g] = files[g]
      BY <2>2 DEF TInv, FileTypes
    <3> QED BY <3>1 DEF Kept, SameEntry
  <2> QED BY <2>1, <2>2
<1> QED BY <1>1, Untouched

LEMMA WriteFileFound ==
  ASSUME TInv, FInv, NEW h \in Handle, WriteFile(h) \/ WriteNothing(h)
  PROVE  FInv'
<1>1. UNCHANGED <<rd, buf, cur, temp, held>> /\ held[h] # "dead"
  BY DEF WriteFile, WriteNothing, Writable, bufVars
<1>2. files[h] \in FileType /\ Placed(files[h])
  BY DEF TInv, FileTypes
<1>3. PICK c \in Clus, s \in {0, 1}, grown \in BOOLEAN :
        files' = [files EXCEPT ![h] = Written(files[h], c, s, grown)]
  BY <1>2, WriteShape
<1> PICK f : f = Written(files[h], c, s, grown)
  OBVIOUS
<1>4. f.name = files[h].name /\ f.dclus = files[h].dclus /\ f.fpos = files[h].fpos /\ f.lpos = files[h].lpos
  BY <1>2, WrittenType
<1>5. AllTidy'
  <2>1. Tidy(Zeros)
    BY EmptyTidy
  <2>2. UNCHANGED disk \/ \E k : disk' = [disk EXCEPT ![k] = Zeros]
    BY DEF WriteFile, WriteNothing
  <2> QED BY <1>1, <2>1, <2>2, TidyDisk DEF TInv, FInv
<1> QED BY <1>1, <1>3, <1>4, <1>5, WrittenFound

LEMMA AskFound ==
  ASSUME TInv, HInv, FInv, Ask, ~Spoils
  PROVE  FInv'
<1>1. CASE \E p \in Paths : Chdir(p)
  BY <1>1, LookUpFound DEF Chdir
<1>2. CASE \E p \in Paths, n \in Sought : Getfileinfo(p, n)
  BY <1>2, LookUpFound DEF Getfileinfo
<1>3. CASE \E p \in Paths, n \in Sought : Mkdir(p, n)
  <2> PICK p \in Paths, n \in Sought : Mkdir(p, n)
    BY <1>3
  <2> PICK o : o = [NoCall EXCEPT !.call = "mkdir", !.name = n, !.create = TRUE]
    OBVIOUS
  <2>1. o \in OpType
    BY NoCallType, NameFacts DEF OpType, Searches
  <2> QED BY <2>1, BeginFound DEF Mkdir
<1>4. CASE \E p \in Paths, n \in Sought, create \in BOOLEAN : Open(p, n, create)
  <2> PICK p \in Paths, n \in Sought, create \in BOOLEAN : Open(p, n, create)
    BY <1>4
  <2> PICK o : o = [NoCall EXCEPT !.call = "open", !.name = n, !.create = create]
    OBVIOUS
  <2>1. o \in OpType
    BY NoCallType, NameFacts DEF OpType, Searches
  <2> QED BY <2>1, BeginFound DEF Open
<1>5. CASE \E p \in Paths, n \in Sought, dest \in Dests, to \in NewNames : Move(p, n, dest, to)
  <2> PICK p \in Paths, n \in Sought, dest \in Dests, to \in NewNames : Move(p, n, dest, to)
    BY <1>5
  <2> PICK o : o = [NoCall EXCEPT !.call = "move", !.name = n, !.dest = dest, !.to = to]
    OBVIOUS
  <2>1. o \in OpType
    BY NoCallType, NameFacts, ConstAssumption DEF OpType, Searches
  <2> QED BY <2>1, BeginFound DEF Move
<1>6. CASE \E h \in Handle : WriteFile(h) \/ WriteNothing(h)
  BY <1>6, WriteFileFound
<1>7. CASE \E h \in Handle : Delete(h)
  <2> PICK h \in Handle : Delete(h)
    BY <1>7
  <2>1. UNCHANGED <<rd, buf, disk, cur, temp, files>> /\ pc = "idle" /\ held[h] # "dead"
    BY DEF Delete, bufVars, Call
  <2>2. held' = held \/ held' = [held EXCEPT ![h] = "dead"]
    BY DEF Delete
  <2>3. held' = held
    <3>1. SUFFICES ASSUME held' = [held EXCEPT ![h] = "dead"] PROVE FALSE
      BY <2>2
    <3>2. held'[h] = "dead"
      BY <3>1 DEF TInv, FileTypes
    <3> QED BY <2>1, <3>2 DEF Spoils
  <2> QED BY <2>1, <2>3, AsBefore
<1>8. CASE \E h \in Handle : UserClose(h)
  BY <1>8, AsBefore DEF UserClose, bufVars, diskVars
<1> QED BY <1>1, <1>2, <1>3, <1>4, <1>5, <1>6, <1>7, <1>8 DEF Ask

LEMMA WalkReads ==
  ASSUME TInv, BInv, FInv, pc = "walk", UNCHANGED <<rd, disk, cur, files, held>>, NEW c \in Clus,
         buf' = buf \/ buf' = [buf EXCEPT ![temp.buf] = disk[c]],
         \A h \in Handle : held[h] # "temp"
  PROVE  FInv'
<1>1. AllTidy'
  BY TidyRead DEF TInv, FInv
<1>2. \A h \in Handle : Kept(h)
  BY DEF Kept, SameEntry
<1>3. temp.buf # cur.buf
  BY DEF BInv
<1> PICK x : x = cur.buf
  OBVIOUS
<1>4. Mem(x)' = Mem(x)
  <2>1. x \in BufName
    BY DEF TInv, BufTypes, AtType
  <2>2. CASE x = "RD"
    BY <2>2 DEF Mem
  <2>3. CASE x # "RD"
    <3>1. x \in Bufs /\ buf \in [Bufs -> DirType]
      BY <2>1, <2>3 DEF BufName, TInv, DiskTypes
    <3>2. buf'[x] = buf[x]
      BY <1>3, <3>1
    <3> QED BY <2>3, <3>2 DEF Mem
  <2> QED BY <2>2, <2>3
<1>5. \A h \in Handle : Stays(h)
  BY <1>4, StaysCur DEF Holds
<1> QED BY <1>1, <1>2, <1>5, KeptAll

LEMMA NoTemp ==
  ASSUME BInv, HInv, pc = "walk"
  PROVE  \A h \in Handle : held[h] # "temp"
  BY DEF BInv, HInv, HeldRight

LEMMA WalkFound ==
  ASSUME TInv, BInv, HInv, FInv, WalkToRoot \/ WalkInto \/ WalkStop \/ WalkEnd
  PROVE  FInv'
<1>0. pc = "walk" /\ \A h \in Handle : held[h] # "temp"
  BY NoTemp DEF WalkToRoot, WalkInto, WalkStop, WalkEnd
<1>1. CASE WalkToRoot
  BY <1>1, AsBefore DEF WalkToRoot, bufVars, diskVars
<1>2. CASE WalkInto
  <2>1. PICK c \in StepsTo \ {Root} : buf' = [buf EXCEPT ![temp.buf] = disk[c]]
    BY <1>2 DEF WalkInto
  <2>2. c \in Clus /\ UNCHANGED <<rd, disk, cur, files, held>>
    BY <1>2, StepsToTypes DEF WalkInto, diskVars
  <2> QED BY <1>0, <2>1, <2>2, WalkReads
<1>3. CASE WalkStop
  <2>1. UNCHANGED <<rd, disk, cur, files, held>> /\ op.toks # <<>>
    BY <1>3 DEF WalkStop, diskVars
  <2>2. CASE UNCHANGED buf
    BY <1>0, <2>1, <2>2, ClusFacts, WalkReads
  <2>3. CASE \E c \in StepsTo \ {Root} : buf' \in {buf, [buf EXCEPT ![temp.buf] = disk[c]]}
    <3> PICK c \in StepsTo \ {Root} : buf' \in {buf, [buf EXCEPT ![temp.buf] = disk[c]]}
      BY <2>3
    <3>1. c \in Clus
      BY <2>1, StepsToTypes
    <3> QED BY <1>0, <2>1, <3>1, WalkReads
  <2> QED BY <1>3, <2>2, <2>3 DEF WalkStop
<1>4. CASE WalkEnd
  <2>1. UNCHANGED <<rd, disk, buf, files>>
    BY <1>4 DEF WalkEnd, diskVars
  <2>2. AllTidy'
    BY <2>1 DEF FInv, AllTidy
  <2>3. CASE op.call = "chdir"
    <3>1. \A h \in Handle : held'[h] = IF held[h] \in {"cur", "temp"} THEN "no" ELSE held[h]
      BY <1>4, <2>3 DEF WalkEnd, GiveUp
    <3>2. \A h \in Handle : Kept(h) /\ Stays(h)
      BY <2>1, <3>1 DEF Kept, SameEntry, Stays, Holds
    <3> QED BY <2>2, <3>2, KeptAll
  <2>4. CASE op.call # "chdir"
    <3>1. UNCHANGED <<cur, held>>
      BY <1>4, <2>4 DEF WalkEnd
    <3> QED BY <1>0, <2>1, <3>1, ClusFacts, WalkReads
  <2> QED BY <2>3, <2>4
<1> QED BY <1>1, <1>2, <1>3, <1>4

LEMMA OpenedFound ==
  ASSUME TInv, BInv, HInv, FInv, pc = "find", op.call # "info", NEW f \in FileType, f.used,
         f.dclus = op.at.clus, OpenedWith(f), UNCHANGED <<cur, temp>>, ~Spoils, AllTidy',
         \A h \in Handle : Stays(h), NEW b, b = op.at.buf, Stands(f, Mem(b)')
  PROVE  FInv'
<1>1. op.h \in Handle /\ op.h # 0 /\ files \in [Handle -> FileType] /\ held \in [Handle -> HeldType]
  BY HandleFacts DEF TInv, Places, Searches, FileTypes
<1> PICK g : g = op.h
  OBVIOUS
<1>2. files' = [files EXCEPT ![g] = f] /\ held' = [held EXCEPT ![g] = HeldAs]
  BY DEF OpenedWith
<1>3. files'[g] = f /\ held'[g] = HeldAs
  BY <1>1, <1>2
<1>4. \A h \in Handle : h # g => files'[h] = files[h] /\ held'[h] = held[h]
  BY <1>1, <1>2
<1>5. \A h \in Handle : h # g => Kept(h)
  BY <1>4 DEF Kept, SameEntry
<1>6. held'[g] # "dead"
  BY <1>3 DEF HeldAs
<1>7. Standing(g)'
  <2>1. SUFFICES ASSUME Holds(g)' PROVE Stands(files'[g], Mem(BufOf(g))')
    BY DEF Standing
  <2>2. BufOf(g)' = b
    <3>1. FindAt
      BY DEF BInv
    <3>2. CASE op.plain
      BY <1>3, <3>1, <3>2 DEF FindAt, HeldAs, BufOf
    <3>3. CASE ~op.plain
      <4>1. temp.buf = b
        BY <3>1, <3>3 DEF FindAt
      <4>2. held'[g] # "cur"
        BY <1>3, <3>3 DEF HeldAs
      <4> QED BY <4>1, <4>2 DEF BufOf
    <3> QED BY <3>2, <3>3
  <2>3. Mem(BufOf(g))' = Mem(b)'
    BY <2>2 DEF Mem
  <2> QED BY <1>3, <2>3
<1>8. ASSUME NEW h \in Handle, h # g, Holds(h)'
      PROVE  ~Twice(g, h)'
  <2>1. files[h].used
    BY <1>4, <1>8 DEF HInv, HeldRight, Holds
  <2>2. files'[h].used /\ files'[g].used
    BY <1>3, <1>4, <1>8, <2>1
  <2>3. ~OpenTwice(g)
    BY <1>1 DEF Spoils
  <2> QED BY <1>8, <2>2, <2>3 DEF OpenTwice, Twice
<1> QED BY <1>1, <1>5, <1>6, <1>7, <1>8, KeptNew

LEMMA FindFound ==
  ASSUME TInv, BInv, HInv, FInv, Find, ~Spoils
  PROVE  FInv'
<1> PICK d : d = Mem(op.at.buf)
  OBVIOUS
<1> PICK i : i = FirstOf(Found(d))
  OBVIOUS
<1> PICK b : b = op.at.buf
  OBVIOUS
<1>1. PICK f : /\ f = [used |-> TRUE, name |-> d.ent[i].name, attr |-> d.ent[i].attr,
                       clus |-> d.ent[i].clus, size |-> d.ent[i].size,
                       fpos |-> LfnStart(d, i), lpos |-> i, upd |-> {}, dclus |-> op.at.clus]
               /\ OpenedWith(f)
  BY DEF Find
<1>2. pc = "find" /\ op.call # "info" /\ UNCHANGED <<rd, buf, disk, cur, temp>> /\ Found(d) # {}
  BY DEF Find, bufVars, diskVars
<1>3. f \in FileType
  <2>1. TInv' /\ files' = [files EXCEPT ![op.h] = f]
    BY <1>1, FindTypes DEF OpenedWith
  <2>2. op.h \in Handle /\ files' \in [Handle -> FileType] /\ files \in [Handle -> FileType]
    BY <1>2, <2>1 DEF TInv, Places, Searches, FileTypes
  <2>3. files'[op.h] = f
    BY <2>1, <2>2
  <2> QED BY <2>2, <2>3
<1>4. f.used /\ f.dclus = op.at.clus /\ f.name = d.ent[i].name /\ f.fpos = LfnStart(d, i) /\ f.lpos = i
  BY <1>1
<1>5. b \in BufName
  BY DEF TInv, OpTypes, OpType, AtType
<1>6. Tidy(d)
  BY <1>5, MemTidy DEF FInv
<1>7. i \in Live(d) /\ i \in Slot /\ d.ent[i].name = op.name
  BY <1>2, AtFacts DEF Found
<1>8. op.name \in Names
  BY <1>2 DEF TInv, Places, Searches
<1>9. Stands(f, d)
  <2>1. /\ \A j \in LfnStart(d, i) .. (i - 1) : d.ent[j].name = "LFN"
        /\ LfnStart(d, i) - 1 \in Slot => d.ent[LfnStart(d, i) - 1].name # "LFN"
    BY <1>6, <1>7, LfnFacts
  <2>2. LfnStart(d, i) # 0
    BY <1>7, LfnTypes
  <2> QED BY <1>4, <1>7, <1>8, <2>1, <2>2 DEF Stands
<1>10. Mem(b)' = d
  BY <1>2 DEF Mem
<1>11. AllTidy' /\ \A h \in Handle : Stays(h)
  BY <1>2, StaysSame DEF FInv, AllTidy
<1> QED BY <1>1, <1>2, <1>3, <1>4, <1>9, <1>10, <1>11, OpenedFound

LEMMA CreateFound ==
  ASSUME TInv, BInv, HInv, FInv, Create, ~Spoils
  PROVE  FInv'
<1> PICK b : b = op.at.buf
  OBVIOUS
<1> PICK d : d = Mem(op.at.buf)
  OBVIOUS
<1> PICK k : k = op.slots
  OBVIOUS
<1> PICK i : i = FirstOf(FreeEntry(d, k))
  OBVIOUS
<1>1. /\ pc = "find" /\ op.create /\ op.call # "info" /\ op.h \in Handle
      /\ op.name \in Names /\ k \in Nat \ {0}
  BY DEF Create, TInv, Places, Searches, OpTypes, OpType
<1>2. CASE FreeEntry(d, k) = {}
  <2>1. PICK f : files' = [files EXCEPT ![op.h] = f]
    BY <1>2 DEF Create
  <2>2. UNCHANGED <<rd, buf, disk, cur, temp, held>>
    BY <1>2 DEF Create, bufVars, diskVars
  <2>3. held[op.h] = "no"
    BY <1>1 DEF HInv, Pending
  <2>4. \A g \in Handle : Kept(g)
    BY <1>1, <2>1, <2>2, <2>3 DEF Kept, SameEntry, TInv, FileTypes
  <2>5. AllTidy'
    BY <2>2 DEF FInv, AllTidy
  <2> QED BY <2>2, <2>4, <2>5, Untouched
<1>3. CASE FreeEntry(d, k) # {}
  <2>1. PICK f : /\ f = [used |-> TRUE, name |-> op.name, attr |-> "ARCHIVE", clus |-> 0,
                         size |-> 0, fpos |-> i + k - 1, lpos |-> i + k - 1,
                         upd |-> {"ALL"}, dclus |-> op.at.clus]
                 /\ OpenedWith(f) /\ SetMem(b, PutEntry(d, i, k))
    BY <1>3 DEF Create
  <2>2. UNCHANGED <<disk, cur, temp>>
    BY <1>3 DEF Create
  <2>3. TInv' /\ files' = [files EXCEPT ![op.h] = f]
    BY <2>1, CreateTypes DEF OpenedWith
  <2>4. f \in FileType
    <3>1. files' \in [Handle -> FileType] /\ files \in [Handle -> FileType]
      BY <2>3 DEF TInv, FileTypes
    <3>2. files'[op.h] = f
      BY <1>1, <2>3, <3>1
    <3> QED BY <1>1, <3>1, <3>2
  <2>5. f.used /\ f.dclus = op.at.clus /\ f.name = op.name /\ f.fpos = i + k - 1 /\ f.lpos = i + k - 1
    BY <2>1
  <2>6. b \in BufName /\ d = Mem(b)
    BY DEF TInv, OpTypes, OpType, AtType
  <2>7. d \in DirType /\ Tidy(d)
    BY <2>6, MemType, MemTidy DEF FInv, TInv
  <2>8. i \in Slot /\ i + k - 1 \in Slot /\ i \in FreeRun(d, k) \cup FirstEnd(d)
    BY <1>1, <1>3, FreeTypes
  <2> PICK w : w = PutEntry(d, i, k)
    OBVIOUS
  <2>9. Tidy(w)
    BY <1>1, <2>7, <2>8, PutEntryTidy
  <2>10. AllTidy'
    BY <2>1, <2>2, <2>6, <2>9, ClusFacts, TidyAfter DEF TInv, FInv
  <2>11. ASSUME NEW h \in Handle PROVE Stays(h)
    <3>1. files[h] \in FileType /\ Placed(files[h])
      BY DEF TInv, FileTypes
    <3>2. Stands(files[h], d) => Stands(files[h], w)
      BY <1>1, <2>7, <2>8, <3>1, PutEntryStands
    <3> QED BY <2>1, <2>2, <2>6, <3>2, StaysAfter
  <2>12. Stands(f, w)
    BY <1>1, <2>5, <2>7, <2>8, NewEntryStands
  <2>13. Mem(b)' = w
    BY <2>1, <2>6, MemAfter DEF TInv
  <2> QED BY <1>1, <2>1, <2>2, <2>4, <2>5, <2>10, <2>11, <2>12, <2>13, OpenedFound
<1> QED BY <1>2, <1>3

LEMMA FindNoneFound ==
  ASSUME TInv, HInv, FInv, FindNone
  PROVE  FInv'
<1>1. pc = "find" /\ op.call # "info" /\ UNCHANGED <<rd, buf, disk, cur, temp, held>>
  BY DEF FindNone, bufVars, diskVars
<1>2. PICK f : files' = [files EXCEPT ![op.h] = f]
  BY DEF FindNone
<1>3. op.h \in Handle
  BY <1>1 DEF TInv, Places, Searches
<1>4. held[op.h] = "no"
  BY <1>1, <1>3 DEF HInv, Pending
<1>5. \A g \in Handle : Kept(g)
  BY <1>1, <1>2, <1>3, <1>4 DEF Kept, SameEntry, TInv, FileTypes
<1>6. AllTidy'
  BY <1>1 DEF FInv, AllTidy
<1> QED BY <1>1, <1>5, <1>6, Untouched

LEMMA MkdirClearFound ==
  ASSUME TInv, HInv, FInv, MkdirClear
  PROVE  FInv'
<1>1. pc = "mkdir" /\ UNCHANGED <<rd, buf, cur, temp, held>>
  BY DEF MkdirClear, bufVars
<1>2. op.h \in Handle
  BY <1>1 DEF TInv, Places
<1>3. files[op.h] \in FileType /\ Placed(files[op.h]) /\ held[op.h] # "dead"
  BY <1>1, <1>2 DEF TInv, FileTypes, HInv, Pending
<1>4. PICK v : /\ files' = [files EXCEPT ![op.h] = v]
               /\ v.name = files[op.h].name /\ v.dclus = files[op.h].dclus
               /\ v.fpos = files[op.h].fpos /\ v.lpos = files[op.h].lpos
  BY <1>2, <1>3, MkdirShape
<1>5. AllTidy'
  <2>1. Tidy(Zeros)
    BY EmptyTidy
  <2>2. UNCHANGED disk \/ \E c : disk' = [disk EXCEPT ![c] = Zeros]
    BY DEF MkdirClear
  <2> QED BY <1>1, <2>1, <2>2, TidyDisk DEF TInv, FInv
<1> QED BY <1>1, <1>2, <1>3, <1>4, <1>5, WrittenFound

LEMMA MkdirDotsFound ==
  ASSUME TInv, HInv, FInv, MkdirDots
  PROVE  FInv'
<1>1. pc = "dots" /\ UNCHANGED <<rd, buf, cur, temp, held>>
  BY DEF MkdirDots, bufVars
<1>2. op.h \in Handle
  BY <1>1 DEF TInv, Places
<1>3. files[op.h] \in FileType /\ held[op.h] # "dead"
  BY <1>1, <1>2 DEF TInv, FileTypes, HInv, Pending
<1>4. AllTidy'
  <2>1. Tidy(Dots(files[op.h]))
    BY <1>3, DotsType, EmptyTidy
  <2>2. disk' = disk \/ disk' = [disk EXCEPT ![files[op.h].clus] = Dots(files[op.h])]
    BY DEF MkdirDots
  <2> QED BY <1>1, <2>1, <2>2, TidyDisk DEF TInv, FInv
<1>5. CASE files' = files
  BY <1>1, <1>4, <1>5, Untouched DEF Kept, SameEntry
<1>6. CASE files' = [files EXCEPT ![op.h].size = 0]
  <2> PICK v : v = [files[op.h] EXCEPT !.size = 0]
    OBVIOUS
  <2>1. /\ v.name = files[op.h].name /\ v.dclus = files[op.h].dclus
        /\ v.fpos = files[op.h].fpos /\ v.lpos = files[op.h].lpos
    BY <1>3 DEF FileType
  <2> QED BY <1>1, <1>2, <1>3, <1>4, <1>6, <2>1, WrittenFound
<1> QED BY <1>5, <1>6 DEF MkdirDots

LEMMA RemoveFound ==
  ASSUME TInv, BInv, HInv, FInv, Remove, ~Spoils
  PROVE  FInv'
<1> PICK g : g = op.h
  OBVIOUS
<1> PICK f : f = files[g]
  OBVIOUS
<1>1. pc = "remove" /\ g \in Handle /\ held' = [held EXCEPT ![g] = "dead"] /\ UNCHANGED <<cur, temp>>
  BY DEF Remove, TInv, Places
<1>2. Holds(g)
  BY <1>1 DEF Spoils, Holds
<1>3. files \in [Handle -> FileType] /\ held \in [Handle -> HeldType] /\ faults \in Nat
  BY DEF TInv, FileTypes, OpTypes
<1>4. f \in FileType /\ Placed(f)
  BY <1>1 DEF TInv, FileTypes
<1>5. PICK b \in DirBufOf(g) :
        /\ SetMem(b.buf, Without(Mem(b.buf), f))
        /\ \/ /\ SaveOk(g, b, Without(Mem(b.buf), f))
              /\ files' = [files EXCEPT ![g].upd = {}]
           \/ SaveFails(g, b, Without(Mem(b.buf), f))
  BY DEF Remove
<1> PICK x : x = BufOf(g)
  OBVIOUS
<1>6. b = DirBuf(x, TRUE) /\ x \in BufName /\ f.dclus \in Clus
  BY <1>1, <1>2, <1>5, HeldFacts
<1>7. b.buf = x
  BY <1>6 DEF DirBuf
<1> PICK d : d = Mem(x)
  OBVIOUS
<1> PICK w : w = Without(d, f)
  OBVIOUS
<1>8. SetMem(x, w) /\ SaveOk(g, b, w) /\ files' = [files EXCEPT ![g].upd = {}]
  <2>1. ~SaveFails(g, b, w)
    BY <1>1, <1>3 DEF SaveFails, Fault, Spoils
  <2> QED BY <1>5, <1>7, <2>1
<1>9. d \in DirType /\ Tidy(d) /\ Stands(f, d)
  BY <1>1, <1>2, <1>6, MemType, MemTidy DEF TInv, FInv, AllStand, Standing
<1>10. AllTidy'
  <2>1. Tidy(w)
    BY <1>4, <1>9, WithoutTidy
  <2>2. disk' = disk \/ disk' = [disk EXCEPT ![f.dclus] = w]
    BY <1>8 DEF SaveOk
  <2> QED BY <1>6, <1>8, <2>1, <2>2, TidyAfter DEF TInv, FInv
<1>11. ASSUME NEW h \in Handle
       PROVE  Kept(h) /\ Stays(h)
  <2>1. CASE h = g
    <3> PICK v : v = [f EXCEPT !.upd = {}]
      OBVIOUS
    <3>1. v.upd = {}
      BY <1>4 DEF FileType
    <3>2. files'[h] = v /\ held'[h] = "dead"
      BY <1>1, <1>3, <1>8, <2>1
    <3>3. Kept(h)
      BY <3>1, <3>2 DEF Kept
    <3>4. Stays(h)
      BY <1>2, <2>1, <3>2 DEF Stays, Holds
    <3> QED BY <3>3, <3>4
  <2>2. CASE h # g
    <3>1. files'[h] = files[h] /\ held'[h] = held[h]
      BY <1>1, <1>3, <1>8, <2>2
    <3>2. Kept(h)
      BY <3>1 DEF Kept, SameEntry
    <3>3. ASSUME Holds(h), BufOf(h) = x, Stands(files[h], d)
          PROVE  Stands(files[h], w)
      <4>1. files[h].dclus = f.dclus
        BY <1>1, <1>2, <3>3, OneBuffer
      <4>2. f.name # files[h].name
        BY <1>1, <1>2, <2>2, <3>3, <4>1 DEF FInv, NotTwice, Twice
      <4>3. files[h] \in FileType /\ Placed(files[h])
        BY DEF TInv, FileTypes
      <4> QED BY <1>4, <1>9, <3>3, <4>2, <4>3, WithoutStands
    <3>4. Stays(h)
      BY <1>1, <1>6, <1>8, <3>3, StaysAfter
    <3> QED BY <3>2, <3>4
  <2> QED BY <2>1, <2>2
<1> QED BY <1>10, <1>11, KeptAll

\* A file that is held is never removed in vain.
LEMMA RemoveNowhereFound ==
  ASSUME TInv, BInv, HInv, RemoveNowhere, ~Spoils
  PROVE  FALSE
<1>1. pc = "remove" /\ op.h \in Handle /\ DirBufOf(op.h) = {}
  BY DEF RemoveNowhere, TInv, Places
<1>2. Holds(op.h)
  BY <1>1 DEF Spoils, Holds
<1> QED BY <1>1, <1>2, HeldFacts

LEMMA MoveDestFound ==
  ASSUME TInv, HInv, FInv, MoveDest
  PROVE  FInv'
<1>1. CASE FreeHandles # {}
  <2>1. op \in OpType /\ op.dest \in Paths /\ Claim(op.dest, op)
    BY <1>1 DEF MoveDest, TInv, OpTypes, OpType
  <2> QED BY <1>1, <2>1, ClaimFound
<1>2. CASE FreeHandles = {}
  BY <1>2, AsBefore DEF MoveDest, bufVars, diskVars
<1> QED BY <1>1, <1>2

LEMMA MoveTooLongFound ==
  ASSUME TInv, FInv, MoveTooLong
  PROVE  FInv'
  BY AsBefore DEF MoveTooLong, bufVars, diskVars

LEMMA MoveClashFound ==
  ASSUME TInv, FInv, MoveClash
  PROVE  FInv'
<1>1. op.h \in Handle /\ UNCHANGED <<rd, buf, disk, cur, temp>>
  BY DEF MoveClash, TInv, Places, bufVars, diskVars
<1>2. CASE files' = [files EXCEPT ![op.h] = NoFile] /\ held' = [held EXCEPT ![op.h] = "no"]
  <2>1. files \in [Handle -> FileType] /\ held \in [Handle -> HeldType]
    BY DEF TInv, FileTypes
  <2>2. \A g \in Handle : Kept(g)
    BY <1>1, <1>2, <2>1 DEF Kept, SameEntry
  <2>3. AllTidy'
    BY <1>1 DEF FInv, AllTidy
  <2> QED BY <1>1, <2>2, <2>3, Untouched
<1>3. CASE UNCHANGED <<files, held>>
  BY <1>1, <1>3, AsBefore
<1> QED BY <1>2, <1>3 DEF MoveClash

LEMMA MoveFillFound ==
  ASSUME TInv, BInv, HInv, FInv, MoveFill, ~Spoils
  PROVE  FInv'
<1> PICK g : g = op.h
  OBVIOUS
<1> PICK f : f = Moved(files[g], files[op.src])
  OBVIOUS
<1> PICK k : k = op.slots
  OBVIOUS
<1>1. /\ pc = "name" /\ pc' = "closing" /\ UNCHANGED <<rdUpdated, disk, cur, temp, held>>
      /\ g \in Handle /\ op.src \in Handle /\ op.src # 0
  BY HandleFacts DEF MoveFill, Close, TInv, Places
<1>2. files[g] \in FileType /\ Placed(files[g]) /\ files[op.src] \in FileType /\ k \in Nat \ {0}
  BY <1>1 DEF TInv, FileTypes, OpTypes, OpType
<1>3. /\ f \in FileType /\ f.name = files[g].name /\ f.dclus = files[g].dclus
      /\ f.fpos = files[g].fpos /\ f.lpos = files[g].lpos
  BY <1>2, MovedType
<1>4. Holds(g)
  BY <1>1 DEF Spoils, Holds
<1>5. held[g] # "dead"
  BY <1>4 DEF Holds
<1>6. CASE files' = [files EXCEPT ![g] = f] /\ UNCHANGED <<rd, buf>>
  <2>1. AllTidy'
    BY <1>1, <1>6 DEF FInv, AllTidy
  <2> QED BY <1>1, <1>3, <1>5, <1>6, <2>1, WrittenFound
<1>7. CASE \E b \in DirBufOf(g) :
             /\ k > 1 /\ RoomFor(Mem(b.buf), f.lpos, k)
             /\ SetMem(b.buf, NameParts(Mem(b.buf), f.lpos, k))
             /\ files' = [files EXCEPT ![g] = [f EXCEPT !.fpos = f.lpos - k + 1]]
  <2>1. PICK b \in DirBufOf(g) :
             /\ k > 1 /\ RoomFor(Mem(b.buf), f.lpos, k)
             /\ SetMem(b.buf, NameParts(Mem(b.buf), f.lpos, k))
             /\ files' = [files EXCEPT ![g] = [f EXCEPT !.fpos = f.lpos - k + 1]]
    BY <1>7
  <2> PICK x : x = BufOf(g)
    OBVIOUS
  <2> PICK d : d = Mem(x)
    OBVIOUS
  <2> PICK i : i = f.lpos
    OBVIOUS
  <2> PICK w : w = NameParts(d, i, k)
    OBVIOUS
  <2> PICK v : v = [f EXCEPT !.fpos = i - k + 1]
    OBVIOUS
  <2>2. x \in BufName /\ b.buf = x
    BY <1>1, <1>4, HeldFacts DEF DirBuf
  <2>3. d \in DirType /\ Tidy(d) /\ Stands(files[g], d)
    BY <1>1, <1>4, <2>2, MemType, MemTidy DEF TInv, FInv, AllStand, Standing
  <2>4. SetMem(x, w) /\ RoomFor(d, i, k) /\ k > 1 /\ files' = [files EXCEPT ![g] = v]
    BY <2>1, <2>2
  <2>5. v.name = f.name /\ v.dclus = f.dclus /\ v.fpos = i - k + 1 /\ v.lpos = i
    BY <1>3 DEF FileType
  <2>6. i \in Slot /\ d.ent[i].name = f.name /\ f.name \in Names
    BY <1>2, <1>3, <2>3, StandsFacts
  <2>7. files'[g] = v /\ \A h \in Handle : h # g => files'[h] = files[h]
    BY <1>1, <2>4 DEF TInv, FileTypes
  <2>8. AllTidy'
    <3>1. Tidy(w)
      BY <1>2, <2>3, <2>4, <2>6, NamePartsTidy
    <3> QED BY <1>1, <2>2, <2>4, <3>1, ClusFacts, TidyAfter DEF TInv, FInv
  <2>9. ASSUME NEW h \in Handle, h # g
        PROVE  Kept(h) /\ Stays(h)
    <3>1. Kept(h)
      BY <1>1, <2>7, <2>9 DEF Kept, SameEntry
    <3>2. ASSUME Holds(h), BufOf(h) = x, Stands(files[h], d)
          PROVE  Stands(files[h], w)
      <4>1. files[h].dclus = files[g].dclus
        BY <1>1, <1>4, <3>2, OneBuffer
      <4>2. files[g].name # files[h].name
        BY <1>1, <1>4, <2>9, <3>2, <4>1 DEF FInv, NotTwice, Twice
      <4>3. files[h] \in FileType /\ Placed(files[h])
        BY DEF TInv, FileTypes
      <4> QED BY <1>2, <1>3, <2>3, <2>4, <2>6, <3>2, <4>2, <4>3, NamePartsStands
    <3>3. Stays(h)
      BY <1>1, <2>2, <2>4, <3>2, StaysAfter
    <3> QED BY <3>1, <3>3
  <2>10. Standing(g)'
    <3>1. Stands(v, w)
      BY <1>2, <2>3, <2>4, <2>5, <2>6, NamedStands
    <3>2. BufOf(g)' = x
      BY <1>1 DEF BufOf
    <3>3. Mem(BufOf(g))' = Mem(x)'
      BY <3>2 DEF Mem
    <3>4. Mem(x)' = w
      BY <2>2, <2>4, MemAfter DEF TInv
    <3> QED BY <2>7, <3>1, <3>3, <3>4 DEF Standing
  <2>11. ASSUME NEW h \in Handle, h # g, Holds(h)'
         PROVE  ~Twice(g, h)'
    <3>1. Holds(h)
      BY <1>1, <2>11 DEF Holds
    <3>2. ~Twice(g, h)
      BY <1>1, <1>4, <2>11, <3>1 DEF FInv, NotTwice
    <3> QED BY <1>3, <2>5, <2>7, <2>11, <3>2 DEF Twice
  <2> QED BY <1>1, <1>5, <2>8, <2>9, <2>10, <2>11, KeptNew
<1> QED
  <2>1. ~Close(<<op.src, g>>, "UNKNOWN")
    <3>1. SUFFICES ASSUME Close(<<op.src, g>>, "UNKNOWN") PROVE FALSE
      OBVIOUS
    <3>2. op'.out = "UNKNOWN"
      BY <3>1 DEF Close, TInv, OpTypes, OpType
    <3> QED BY <1>1, <3>2 DEF Spoils
  <2>2. CASE k = 1
    BY <1>6, <2>2 DEF MoveFill
  <2>3. CASE k > 1
    BY <1>7, <2>1, <2>3 DEF MoveFill
  <2> QED BY <2>2, <2>3 DEF MoveFill

\* The entry of a file that is held is among those the directory shows.
LEMMA StandsAt ==
  ASSUME NEW f \in FileType, Placed(f), NEW d, Tidy(d), Stands(f, d)
  PROVE  f.lpos \in At(d, f.name)
<1>1. f.lpos \in Slot /\ d.ent[f.lpos].name = f.name /\ f.name \in Names
  BY StandsFacts
<1>2. ASSUME NEW j \in 1 .. f.lpos
      PROVE  d.ent[j].name # "END"
  <2>1. f.lpos \in Nat /\ f.lpos <= NumSlots
    BY <1>1, SlotFacts
  <2>2. j \in Slot /\ f.lpos \in j .. NumSlots
    BY <2>1, Constants DEF Slot
  <2> QED BY <1>1, <2>2, NameFacts, TidyFacts
<1>3. f.lpos \in Seen(d)
  BY <1>1, <1>2 DEF Seen
<1> QED BY <1>1, <1>3, NameFacts DEF At, Live

LEMMA HeldEntry ==
  ASSUME TInv, BInv, HInv, FInv, NEW h \in Handle, Holds(h)
  PROVE  EntryOf(h) # {}
<1> PICK x : x = BufOf(h)
  OBVIOUS
<1>1. x \in BufName /\ DirBufOf(h) = {DirBuf(x, TRUE)}
  BY HeldFacts
<1>2. Tidy(Mem(x)) /\ Stands(files[h], Mem(x))
  BY <1>1, MemTidy DEF FInv, AllStand, Standing
<1>3. files[h] \in FileType /\ Placed(files[h])
  BY DEF TInv, FileTypes
<1>4. files[h].lpos \in At(Mem(x), files[h].name)
  BY <1>2, <1>3, StandsAt
<1>5. files[h].lpos \in Slot
  BY <1>4 DEF At, Live, Seen
<1> PICK b : b = DirBuf(x, TRUE)
  OBVIOUS
<1>6. b \in DirBufOf(h) /\ b.full /\ b.buf = x
  BY <1>1 DEF DirBuf
<1> PICK y : y = <<b, files[h].lpos>>
  OBVIOUS
<1>7. y \in DirBufOf(h) \X Slot /\ y[1] = b /\ y[2] = files[h].lpos
  BY <1>5, <1>6
<1>8. y \in EntryOf(h)
  BY <1>4, <1>6, <1>7 DEF EntryOf
<1> QED BY <1>8

\* A change is lost only where its buffer has been taken away.
LEMMA LostFacts ==
  ASSUME TInv, BInv, HInv, FInv, NEW h \in Handle, CloseLost(h)
  PROVE  held[h] = "no"
<1>1. files[h].upd # {} /\ EntryOf(h) = {}
  BY DEF CloseLost
<1>2. ~Holds(h)
  BY <1>1, HeldEntry
<1>3. held[h] # "dead"
  BY <1>1 DEF FInv, DeadSynced
<1>4. held[h] \in {"cur", "temp", "no", "dead"}
  BY DEF TInv, FileTypes, HeldType
<1> QED BY <1>2, <1>3, <1>4 DEF Holds

LEMMA ReleaseKept ==
  ASSUME TInv, NEW h \in Handle, NEW f, Release(h, f)
  PROVE  \A g \in Handle : Kept(g)
<1>1. held' = [held EXCEPT ![h] = "no"] /\ \E v : files' = [files EXCEPT ![h] = v]
  BY DEF Release
<1>2. files \in [Handle -> FileType] /\ held \in [Handle -> HeldType]
  BY DEF TInv, FileTypes
<1> QED BY <1>1, <1>2 DEF Kept, SameEntry

LEMMA CloseChangedFound ==
  ASSUME TInv, FInv, NEW h \in Handle, CloseChanged(h)
  PROVE  FInv'
<1> PICK y : y = (CHOOSE x \in EntryOf(h) : TRUE)[1]
  OBVIOUS
<1> PICK d : d = Mem(y.buf)
  OBVIOUS
<1> PICK i : i = FirstOf(At(d, files[h].name))
  OBVIOUS
<1> PICK w : w = [d EXCEPT !.ent[i] = UpdatedEntry(@, files[h])]
  OBVIOUS
<1>1. EntryOf(h) # {} /\ SetMem(y.buf, w) /\ UNCHANGED <<cur, temp>>
  BY DEF CloseChanged
<1>2. SaveOk(h, y, w) \/ SaveFails(h, y, w)
  BY DEF CloseChanged
<1>3. \E f : Release(h, f)
  BY DEF CloseChanged
<1>4. y \in DirBufOf(h) /\ At(d, files[h].name) # {}
  BY <1>1, EntryOfFacts
<1>5. y.buf \in BufName
  BY <1>4, DirBufTypes DEF TInv
<1>6. d \in DirType /\ Tidy(d)
  BY <1>5, MemType, MemTidy DEF TInv, FInv
<1>7. i \in Slot
  BY <1>4, AtFacts
<1>8. files[h] \in FileType
  BY DEF TInv, FileTypes
<1>9. SameNames(d, w)
  BY <1>6, <1>7, <1>8, UpdateNames
<1>10. AllTidy'
  <2>1. Tidy(w)
    BY <1>6, <1>9, SameTidy
  <2>2. disk' = disk \/ disk' = [disk EXCEPT ![files[h].dclus] = w]
    BY <1>2 DEF SaveOk, SaveFails
  <2>3. files[h].dclus \in Clus
    BY <1>8 DEF FileType
  <2> QED BY <1>1, <1>5, <2>1, <2>2, <2>3, TidyAfter DEF TInv, FInv
<1>11. ASSUME NEW g \in Handle PROVE Stays(g)
  <2>1. files[g] \in FileType /\ Placed(files[g])
    BY DEF TInv, FileTypes
  <2>2. Stands(files[g], d) => Stands(files[g], w)
    BY <1>9, <2>1, SameStands
  <2> QED BY <1>1, <1>5, <2>2, StaysAfter
<1>12. \A g \in Handle : Kept(g)
  BY <1>3, ReleaseKept
<1> QED BY <1>10, <1>11, <1>12, KeptAll

LEMMA CloseFound ==
  ASSUME TInv, FInv, NEW h \in Handle, CloseUnchanged(h) \/ CloseLost(h)
  PROVE  FInv'
<1>1. UNCHANGED <<rd, buf, disk, cur, temp>> /\ \E f : Release(h, f)
  BY DEF CloseUnchanged, CloseLost, bufVars, diskVars
<1>2. AllTidy'
  BY <1>1 DEF FInv, AllTidy
<1>3. \A g \in Handle : Kept(g)
  BY <1>1, ReleaseKept
<1> QED BY <1>1, <1>2, <1>3, Untouched

LEMMA ContinueFound ==
  ASSUME TInv, BInv, HInv, FInv, Continue, ~Spoils
  PROVE  FInv'
<1>1. CASE WalkToRoot \/ WalkInto \/ WalkStop \/ WalkEnd
  BY <1>1, WalkFound
<1>2. CASE Find \/ FindNone \/ Create
  BY <1>2, FindFound, FindNoneFound, CreateFound
<1>3. CASE FindInfo \/ CallEnds \/ MkdirExists
  BY <1>3, AsBefore DEF FindInfo, CallEnds, MkdirExists, bufVars, diskVars
<1>4. CASE MkdirClear \/ MkdirDots
  BY <1>4, MkdirClearFound, MkdirDotsFound
<1>5. CASE Remove \/ RemoveNowhere
  BY <1>5, RemoveFound, RemoveNowhereFound
<1>6. CASE MoveDest \/ MoveTooLong \/ MoveClash \/ MoveFill
  BY <1>6, MoveDestFound, MoveTooLongFound, MoveClashFound, MoveFillFound
<1>7. CASE \E h \in Handle : CloseUnchanged(h) \/ CloseChanged(h) \/ CloseLost(h)
  BY <1>7, CloseFound, CloseChangedFound
<1> QED BY <1>1, <1>2, <1>3, <1>4, <1>5, <1>6, <1>7 DEF Continue

-----------------------------------------------------------------------------
(* The inductive invariant and what it shows                               *)

IInv == TFacts /\ BInv /\ HInv /\ (~spoilt => FInv)

LEMMA InitHolds ==
  ASSUME Init
  PROVE  IInv
<1>1. TFacts
  BY InitTypes
<1>2. /\ cur = [buf |-> "RD", clus |-> Root] /\ temp = [buf |-> "b1", clus |-> Root, full |-> FALSE]
      /\ held = [h \in Handle |-> "no"] /\ pc = "idle" /\ spoilt = FALSE
      /\ buf = [b \in {"b1", "b2"} |-> Zeros] /\ disk \in Volumes /\ rd = disk[Root]
  BY DEF Init
<1>3. BInv
  BY <1>2 DEF BInv, Proper
<1>4. \A h \in Handle : held[h] = "no"
  BY <1>2
<1>5. HInv
  BY <1>2, <1>4 DEF HInv, HeldRight, Pending
<1>6. AllTidy
  <2>1. Tidy(Zeros)
    BY EmptyTidy
  <2>2. \A c \in Clus : Tidy(disk[c])
    BY <1>2, ConstAssumption
  <2> QED BY <1>2, <2>1, <2>2, ClusFacts DEF AllTidy
<1>7. FInv
  BY <1>4, <1>6 DEF FInv, AllStand, Standing, NotTwice, DeadSynced, Holds
<1> QED BY <1>1, <1>3, <1>5, <1>7 DEF IInv

LEMMA NextHolds ==
  ASSUME IInv, [Next]_vars
  PROVE  IInv'
<1>1. TInv /\ BInv /\ HInv
  BY DEF IInv, TFacts
<1>2. TFacts' /\ BInv' /\ HInv'
  BY <1>1, NextTypes, NextBufs DEF IInv
<1>3. CASE UNCHANGED vars
  <2>1. UNCHANGED <<rd, buf, disk, cur, temp, files, held, spoilt>>
    BY <1>3 DEF vars, bufVars, diskVars
  <2> QED BY <1>2, <2>1, AsBefore DEF IInv
<1>4. CASE Next
  <2>1. SUFFICES ASSUME ~spoilt' PROVE FInv'
    BY <1>2 DEF IInv
  <2>2. Marks
    BY <1>4 DEF Next, Ask, Continue
  <2>3. ~spoilt /\ ~Spoils
    BY <2>1, <2>2 DEF Marks
  <2>4. FInv
    BY <2>3 DEF IInv
  <2> QED BY <1>1, <1>4, <2>3, <2>4, AskFound, ContinueFound DEF Next
<1> QED BY <1>3, <1>4

LEMMA HeldFoundImplied ==
  ASSUME IInv
  PROVE  HeldFound
<1>1. TInv /\ BInv /\ HInv
  BY DEF IInv, TFacts
<1>2. SUFFICES ASSUME NEW h \in Handle, files[h].used, held[h] \in {"cur", "temp"}
      PROVE  /\ DirBufOf(h) = {IF held[h] = "cur" THEN DirBuf(cur.buf, TRUE) ELSE DirBuf(temp.buf, TRUE)}
             /\ spoilt \/ \E b \in DirBufOf(h) : Mem(b.buf).ent[files[h].lpos].name = files[h].name
  BY DEF HeldFound
<1> PICK x : x = BufOf(h)
  OBVIOUS
<1>3. Holds(h) /\ DirBufOf(h) = {DirBuf(x, TRUE)}
  BY <1>1, <1>2, HeldFacts DEF Holds
<1>4. DirBuf(x, TRUE) = IF held[h] = "cur" THEN DirBuf(cur.buf, TRUE) ELSE DirBuf(temp.buf, TRUE)
  BY DEF BufOf
<1>5. ASSUME ~spoilt
      PROVE  \E b \in DirBufOf(h) : Mem(b.buf).ent[files[h].lpos].name = files[h].name
  <2>1. Stands(files[h], Mem(x))
    BY <1>3, <1>5 DEF IInv, FInv, AllStand, Standing
  <2>2. DirBuf(x, TRUE) \in DirBufOf(h) /\ DirBuf(x, TRUE).buf = x
    BY <1>3 DEF DirBuf
  <2>3. Mem(DirBuf(x, TRUE).buf).ent[files[h].lpos].name = files[h].name
    BY <2>1, <2>2 DEF Stands
  <2> QED BY <2>2, <2>3
<1> QED BY <1>3, <1>4, <1>5

\* While no later call has taken its buffer away, fatuc__getdirbufoffile finds the
\* directory of an open file, filled, and the file's entry is there at the place
\* the open remembered, however many files are created, renamed, removed and saved
\* in it meanwhile (fatuc__fopen, fatuc__remove_dentry, fatuc_move_dentry).
THEOREM HeldAlwaysFound == Spec => []HeldFound
<1>1. Init => IInv
  BY InitHolds
<1>2. IInv /\ [Next]_vars => IInv'
  BY NextHolds
<1>3. IInv => HeldFound
  BY HeldFoundImplied
<1> QED BY <1>1, <1>2, <1>3, PTL DEF Spec

\* A close that finds no entry to put its changes into (fatuc__syncfileinfo) is
\* one of a file whose buffer a change of directory or a path has taken: never of
\* one whose buffer is still there, and never of one that was removed.
THEOREM SyncAlwaysSucceeds == Spec => SyncSucceeds
<1>1. Init => IInv
  BY InitHolds
<1>2. IInv /\ [Next]_vars => IInv'
  BY NextHolds
<1>3. IInv /\ [Next]_vars => [\A h \in Handle : CloseLost(h) /\ ~spoilt => held[h] = "no"]_vars
  BY LostFacts DEF IInv, TFacts
<1> QED BY <1>1, <1>2, <1>3, PTL DEF Spec, SyncSucceeds
=============================================================================
