-------------------------- MODULE FatWindowProofs --------------------------
(***************************************************************************)
(* Proofs about FatWindow, for every size of sector, window and FAT.       *)
(***************************************************************************)
EXTENDS FatWindow, TLAPS

-----------------------------------------------------------------------------
(* Arithmetic of sectors                                                   *)

\* Multiples of the entries of a sector are ordered as their factors are.
LEMMA MulMono ==
  ASSUME NEW p \in Int, NEW q \in Int, p <= q
  PROVE  p * EntriesPerSec <= q * EntriesPerSec
<1>1. (q - p) \in Nat /\ EntriesPerSec \in Nat
  BY ConstAssumption
<1>2. (q - p) * EntriesPerSec >= 0
  BY <1>1
<1>3. (q - p) * EntriesPerSec = q * EntriesPerSec - p * EntriesPerSec
  BY <1>1
<1> QED BY <1>1, <1>2, <1>3

\* What rounding down to a sector does: the start of the sector that holds n.
LEMMA AlignFacts ==
  ASSUME NEW n \in Nat
  PROVE  /\ n \div EntriesPerSec \in Nat
         /\ AlignDown(n) \in Nat
         /\ AlignDown(n) <= n
         /\ n < AlignDown(n) + EntriesPerSec
  BY ConstAssumption DEF AlignDown

\* The sizes of the FAT and of the window, with their products kept closed.
LEMMA Sizes ==
  /\ EntriesPerSec \in Nat /\ EntriesPerSec >= 1
  /\ MaxFatEntry \in Nat /\ FatSecs * EntriesPerSec = MaxFatEntry + 1
  /\ MaxFatEntry + 1 >= EntriesPerSec
  /\ WinEntries \in Nat /\ WinEntries >= 2 * EntriesPerSec
<1>1. EntriesPerSec \in Nat /\ EntriesPerSec >= 1
  BY ConstAssumption
<1>2. 1 * EntriesPerSec <= FatSecs * EntriesPerSec
  BY MulMono, ConstAssumption
<1>3. 2 * EntriesPerSec <= WinSecs * EntriesPerSec
  BY MulMono, ConstAssumption
<1>4. FatSecs * EntriesPerSec \in Nat /\ WinSecs * EntriesPerSec \in Nat
  BY ConstAssumption
<1> QED BY <1>1, <1>2, <1>3, <1>4 DEF MaxFatEntry, WinEntries

\* The first entry of a sector lies in the FAT with its whole sector, and
\* rounding it down leaves it as it is.
LEMMA SecStartFacts ==
  ASSUME NEW s \in SecStart
  PROVE  s \in Entry /\ s + EntriesPerSec <= MaxFatEntry + 1 /\ AlignDown(s) = s
<1>1. PICK q \in 0 .. (FatSecs - 1) : s = q * EntriesPerSec
  BY DEF SecStart
<1>2. q \in Nat /\ s \in Nat /\ s + EntriesPerSec = (q + 1) * EntriesPerSec
  BY <1>1, ConstAssumption
<1>3. (q + 1) * EntriesPerSec <= FatSecs * EntriesPerSec
  BY <1>1, MulMono, ConstAssumption
<1>4. s \in Entry /\ s + EntriesPerSec <= MaxFatEntry + 1
  BY <1>2, <1>3, Sizes DEF Entry
<1>5. AlignDown(s) = s
  <2> DEFINE r == s \div EntriesPerSec
  <2>1. r \in Nat /\ r * EntriesPerSec <= s /\ s < r * EntriesPerSec + EntriesPerSec
    BY <1>2, AlignFacts DEF AlignDown
  <2>2. r * EntriesPerSec + EntriesPerSec = (r + 1) * EntriesPerSec
    BY <2>1, ConstAssumption
  <2>3. CASE r < q
    <3>1. (r + 1) * EntriesPerSec <= q * EntriesPerSec
      BY <2>1, <2>3, <1>2, MulMono
    <3> QED BY <3>1, <2>1, <2>2, <1>1, <1>2, Sizes
  <2>4. CASE q < r
    <3>1. (q + 1) * EntriesPerSec <= r * EntriesPerSec
      BY <2>1, <2>4, <1>2, MulMono
    <3> QED BY <3>1, <2>1, <1>1, <1>2, Sizes
  <2>5. CASE q = r
    BY <2>5, <1>1 DEF AlignDown
  <2> QED BY <2>1, <2>3, <2>4, <2>5, <1>2
<1> QED BY <1>4, <1>5

\* Rounding an entry of the FAT down gives the first entry of a sector of it.
LEMMA AlignInFat ==
  ASSUME NEW n \in Entry
  PROVE  AlignDown(n) \in SecStart
<1> DEFINE q == n \div EntriesPerSec
<1>1. n \in Nat /\ n < FatSecs * EntriesPerSec
  BY Sizes DEF Entry
<1>2. q \in Nat /\ q * EntriesPerSec <= n
  BY <1>1, AlignFacts DEF AlignDown
<1>3. q < FatSecs
  <2>1. SUFFICES ASSUME FatSecs <= q PROVE FALSE
    BY <1>2, ConstAssumption
  <2>2. FatSecs * EntriesPerSec <= q * EntriesPerSec
    BY <2>1, <1>2, MulMono, ConstAssumption
  <2> QED BY <2>2, <1>1, <1>2, Sizes
<1> QED BY <1>2, <1>3, ConstAssumption DEF AlignDown, SecStart

\* A window asked for at n starts at a sector of the FAT, at n or before it,
\* with less than a sector between.
LEMMA LoadStartFacts ==
  ASSUME NEW n \in Int, n <= MaxFatEntry
  PROVE  /\ LoadStart(n) \in SecStart /\ n < LoadStart(n) + EntriesPerSec
         /\ LoadStart(n) <= n \/ LoadStart(n) = 0
<1>1. CASE n < 0
  <2>1. 0 \in SecStart
    <3>1. 0 = 0 * EntriesPerSec /\ 0 \in 0 .. (FatSecs - 1)
      BY ConstAssumption
    <3> QED BY <3>1 DEF SecStart
  <2> QED BY <1>1, <2>1, Sizes DEF LoadStart
<1>2. CASE ~(n < 0)
  <2>1. n \in Entry /\ n \in Nat
    BY <1>2, Sizes DEF Entry
  <2> QED BY <1>2, <2>1, AlignInFat, AlignFacts DEF LoadStart
<1> QED BY <1>1, <1>2

\* The end of a window lies in the FAT, at most a window from its start.
LEMMA LoadEndFacts ==
  ASSUME NEW s \in SecStart
  PROVE  /\ LoadEnd(s) \in Entry /\ s <= LoadEnd(s) /\ LoadEnd(s) - s < WinEntries
         /\ \A i \in Entry : i < s + WinEntries => i <= LoadEnd(s)
  BY SecStartFacts, Sizes DEF LoadEnd, Smaller, Entry

\* A transfer of a whole window that starts at a sector of the FAT stays on the disk.
LEMMA ReadAtFacts ==
  ASSUME NEW s \in SecStart, NEW d \in [DiskEntry -> Value]
  PROVE  /\ ReadAt(d, s) \in [Slot -> Value]
         /\ \A k \in Slot : s + k \in DiskEntry /\ ReadAt(d, s)[k] = d[s + k]
  BY SecStartFacts, Sizes DEF ReadAt, Slot, DiskEntry, Entry

-----------------------------------------------------------------------------
(* The invariant                                                           *)

\* The type invariant is not inductive alone: that a move of the window stays
\* inside the FAT rests on the end that Coherent ties to the start.
IInv == TypeOK /\ Coherent

\* The window never spans more than its size, whatever moved it.
LEMMA SpanFacts ==
  ASSUME IInv
  PROVE  start \in Nat /\ end \in Nat /\ start <= end /\ end - start < WinEntries
  BY SecStartFacts, LoadEndFacts, Sizes DEF IInv, TypeOK, Coherent, Entry

\* The access patterns place the wanted start at most half a window before the
\* entry.
LEMMA WantedFacts ==
  ASSUME IInv, NEW i \in Entry
  PROVE  Wanted(i) \in Int /\ Wanted(i) <= i /\ 2 * (i - Wanted(i)) < WinEntries
<1>1. i \in Nat /\ pattern \in Patterns
  BY DEF IInv, TypeOK, Entry
<1> DEFINE span == end - start
<1>2. span \in Nat /\ span < WinEntries
  BY SpanFacts
<1>3. /\ span \div 2 \in Nat /\ 2 * (span \div 2) <= span
      /\ span \div 4 \in Nat /\ 2 * (span \div 4) <= span
  BY <1>2
<1>4. CASE pattern = "BALANCED"
  BY <1>1, <1>2, <1>3, <1>4, Sizes DEF Wanted
<1>5. CASE pattern = "MOSTLYFORWARD"
  BY <1>1, <1>2, <1>3, <1>5, Sizes DEF Wanted
<1>6. CASE pattern = "ONLYFORWARD"
  BY <1>1, <1>2, <1>6, Sizes DEF Wanted
<1> QED BY <1>1, <1>4, <1>5, <1>6 DEF Patterns

\* A window loaded for entry i starts at a sector of the FAT and holds i.
LEMMA MoveFacts ==
  ASSUME IInv, NEW i \in Entry
  PROVE  LET s == LoadStart(Wanted(i))
         IN s \in SecStart /\ s <= i /\ i <= LoadEnd(s) /\ i - s \in Slot
<1> DEFINE s == LoadStart(Wanted(i))
<1>1. Wanted(i) \in Int /\ Wanted(i) <= i /\ 2 * (i - Wanted(i)) < WinEntries
  BY WantedFacts
<1>2. i \in Nat /\ i <= MaxFatEntry
  BY Sizes DEF Entry
<1>3. s \in SecStart /\ Wanted(i) < s + EntriesPerSec /\ (s <= Wanted(i) \/ s = 0)
  BY <1>1, <1>2, LoadStartFacts, Sizes
<1>4. s \in Nat /\ s <= i /\ i < s + WinEntries
  BY <1>1, <1>2, <1>3, SecStartFacts, Sizes DEF Entry
<1>5. i <= LoadEnd(s)
  BY <1>3, <1>4, LoadEndFacts
<1>6. i - s \in Slot
  BY <1>2, <1>4, Sizes DEF Slot
<1> QED BY <1>3, <1>4, <1>5, <1>6

\* Storing the window up to sector n changes entries of the FAT only.
LEMMA StoredFacts ==
  ASSUME IInv, NEW n \in Int, n <= StoreEnd
  PROVE  /\ StoredTo(n) \in [DiskEntry -> Value]
         /\ \A e \in Beyond : StoredTo(n)[e] = disk[e]
<1>1. /\ disk \in [DiskEntry -> Value] /\ buf \in [Slot -> Value]
      /\ partStart \in SecStart /\ partStart \in Nat
  BY SecStartFacts DEF IInv, TypeOK, Entry
<1>2. n <= partStart + WinEntries /\ n <= MaxFatEntry + 1
  BY <1>1, Sizes DEF StoreEnd, Smaller
<1>3. \A e \in DiskEntry : e \in partStart .. (n - 1) => e - partStart \in Slot /\ e \notin Beyond
  BY <1>1, <1>2, Sizes DEF Slot, DiskEntry, Beyond, Entry
<1>4. CASE updated
  BY <1>1, <1>3, <1>4 DEF StoredTo, Beyond
<1>5. CASE ~updated
  BY <1>1, <1>5 DEF StoredTo, Beyond
<1> QED BY <1>4, <1>5

\* StoreEnd is a place a store can reach.
LEMMA StoreEndFacts ==
  ASSUME IInv
  PROVE  StoreEnd \in Nat /\ StoreEnd <= StoreEnd
  BY SecStartFacts, Sizes DEF IInv, TypeOK, StoreEnd, Smaller, Entry


\* The mounted volume satisfies the invariant.
LEMMA InitIInv == Init => IInv
<1> SUFFICES ASSUME Init PROVE IInv
  OBVIOUS
<1>1. 0 \in SecStart
  <2>1. 0 = 0 * EntriesPerSec /\ 0 \in 0 .. (FatSecs - 1)
    BY ConstAssumption
  <2> QED BY <2>1 DEF SecStart
<1>2. LoadEnd(0) \in Entry
  BY <1>1, LoadEndFacts
<1>3. /\ ReadAt(disk, 0) \in [Slot -> Value]
      /\ \A k \in Slot : ReadAt(disk, 0)[k] = disk[0 + k]
  BY <1>1, ReadAtFacts DEF Init
<1>4. TypeOK
  BY <1>1, <1>2, <1>3 DEF Init, TypeOK, Patterns
<1>5. Coherent
  BY <1>1, <1>3 DEF Init, Coherent
<1> QED BY <1>4, <1>5 DEF IInv

\* A successful move of the window to a sector s of the FAT.
LEMMA LoadIInv ==
  ASSUME IInv, NEW s \in SecStart, Load(s), ok' = ok, pattern' = pattern, got' \in Value
  PROVE  IInv' /\ buf' \in [Slot -> Value]
<1>1. disk' \in [DiskEntry -> Value]
  BY StoredFacts, StoreEndFacts DEF Load, StoreBeforeLoad
<1>2. /\ buf' \in [Slot -> Value]
      /\ \A k \in Slot : buf'[k] = disk'[s + k]
  BY <1>1, ReadAtFacts DEF Load
<1>3. AlignDown(s) = s /\ LoadEnd(s) \in Entry
  BY SecStartFacts, LoadEndFacts
<1>4. TypeOK'
  BY <1>1, <1>2, <1>3 DEF Load, IInv, TypeOK
<1>5. Coherent'
  BY <1>2, <1>3 DEF Load, Coherent
<1> QED BY <1>2, <1>4, <1>5 DEF IInv

\* The value read after a move is one the disk held.
LEMMA GetLoadingIInv ==
  ASSUME IInv, NEW i \in Entry, GetLoading(i)
  PROVE  IInv'
<1> DEFINE s == LoadStart(Wanted(i))
<1>1. s \in SecStart /\ i - s \in Slot
  BY MoveFacts
<1>2. disk' \in [DiskEntry -> Value]
  BY StoredFacts, StoreEndFacts DEF GetLoading, Load, StoreBeforeLoad
<1>3. buf' \in [Slot -> Value] /\ start' = s
  BY <1>1, <1>2, ReadAtFacts DEF GetLoading, Load
<1>4. got' \in Value
  BY <1>1, <1>3 DEF GetLoading
<1> QED BY <1>1, <1>4, LoadIInv DEF GetLoading

\* A move followed by the change of the entry asked for.
LEMMA SetLoadingIInv ==
  ASSUME IInv, NEW i \in Entry, NEW v \in Value, SetLoading(i, v)
  PROVE  IInv'
<1> DEFINE s == LoadStart(Wanted(i))
<1>1. s \in SecStart /\ i - s \in Slot
  BY MoveFacts
<1>2. disk' \in [DiskEntry -> Value]
  BY StoredFacts, StoreEndFacts DEF SetLoading, StoreBeforeLoad
<1>3. buf' \in [Slot -> Value]
  BY <1>1, <1>2, ReadAtFacts DEF SetLoading
<1>4. AlignDown(s) = s /\ LoadEnd(s) \in Entry
  BY <1>1, SecStartFacts, LoadEndFacts
<1>5. start' = s /\ end' = LoadEnd(s) /\ partStart' = s /\ updated' = TRUE
  BY <1>4 DEF SetLoading
<1>6. TypeOK'
  BY <1>1, <1>2, <1>3, <1>4, <1>5 DEF SetLoading, IInv, TypeOK
<1>7. Coherent'
  BY <1>5 DEF Coherent
<1> QED BY <1>6, <1>7 DEF IInv

\* After a failed move the bounds still name a window of the FAT.
LEMMA MoveFailsIInv ==
  ASSUME IInv, NEW i \in Entry, MoveFails(i)
  PROVE  IInv'
<1> DEFINE s == LoadStart(Wanted(i))
<1>1. s \in SecStart /\ LoadEnd(s) \in Entry
  BY MoveFacts, LoadEndFacts
<1>2. start' = s /\ end' = LoadEnd(s) /\ ok' = FALSE
  BY DEF MoveFails, LoadFails
<1>3. UNCHANGED <<partStart, pattern, got>>
  BY DEF MoveFails, LoadFails
<1>4. disk' \in [DiskEntry -> Value] /\ buf' \in [Slot -> Value] /\ updated' \in BOOLEAN
  <2>1. CASE /\ updated /\ UNCHANGED <<buf, updated>>
             /\ \E n \in partStart .. StoreEnd : disk' = StoredTo(n)
    <3>1. PICK n \in partStart .. StoreEnd : disk' = StoredTo(n)
      BY <2>1
    <3>2. n \in Int /\ n <= StoreEnd
      BY SecStartFacts, StoreEndFacts DEF IInv, TypeOK, Entry
    <3> QED BY <2>1, <3>1, <3>2, StoredFacts DEF IInv, TypeOK
  <2>2. CASE /\ disk' = StoreBeforeLoad /\ updated' = FALSE
             /\ \E n \in 0 .. WinEntries :
                  buf' = [k \in Slot |-> IF k < n THEN ReadAt(disk', s)[k] ELSE buf[k]]
    <3>1. disk' \in [DiskEntry -> Value]
      BY <2>2, StoredFacts, StoreEndFacts DEF StoreBeforeLoad
    <3>2. ReadAt(disk', s) \in [Slot -> Value]
      BY <1>1, <3>1, ReadAtFacts
    <3> QED BY <2>2, <3>1, <3>2 DEF IInv, TypeOK
  <2> QED BY <2>1, <2>2 DEF MoveFails, LoadFails
<1>5. TypeOK'
  BY <1>1, <1>2, <1>3, <1>4 DEF IInv, TypeOK
<1>6. Coherent'
  BY <1>2 DEF Coherent
<1> QED BY <1>5, <1>6 DEF IInv

\* A whole store leaves the disk in step with the buffer.
LEMMA StoreFatIInv ==
  ASSUME IInv, StoreFat
  PROVE  IInv'
<1>1. disk' \in [DiskEntry -> Value]
  BY StoredFacts, StoreEndFacts DEF StoreFat
<1>2. TypeOK'
  BY <1>1 DEF StoreFat, IInv, TypeOK
<1>3. Coherent'
  <2> SUFFICES ASSUME ok, NEW k \in Slot, start + k \in Entry
               PROVE  buf[k] = disk'[start + k]
    BY DEF StoreFat, IInv, Coherent
  <2>1. partStart = start /\ start \in Nat /\ k \in Nat /\ k < WinEntries
    BY SecStartFacts, Sizes DEF IInv, TypeOK, Coherent, Entry, Slot
  <2>2. start + k \in partStart .. (StoreEnd - 1) /\ start + k \in DiskEntry
    BY <2>1, Sizes DEF StoreEnd, Smaller, Entry, DiskEntry
  <2>3. (start + k) - partStart = k
    BY <2>1
  <2>4. CASE updated
    BY <2>2, <2>3, <2>4 DEF StoreFat, StoredTo
  <2>5. CASE ~updated
    BY <2>5 DEF StoreFat, StoredTo, IInv, Coherent
  <2> QED BY <2>4, <2>5
<1> QED BY <1>2, <1>3 DEF IInv

\* A store that fails half way leaves the window marked for storing.
LEMMA StoreFatFailsIInv ==
  ASSUME IInv, StoreFatFails
  PROVE  IInv'
<1>1. PICK n \in partStart .. StoreEnd : disk' = StoredTo(n)
  BY DEF StoreFatFails
<1>2. n \in Int /\ n <= StoreEnd
  BY SecStartFacts, StoreEndFacts DEF IInv, TypeOK, Entry
<1>3. disk' \in [DiskEntry -> Value]
  BY <1>1, <1>2, StoredFacts
<1> QED BY <1>3 DEF StoreFatFails, IInv, TypeOK, Coherent

\* Mounting reads the first window.
LEMMA MountIInv ==
  ASSUME IInv, Mount
  PROVE  IInv'
<1>1. 0 \in SecStart
  <2>1. 0 = 0 * EntriesPerSec /\ 0 \in 0 .. (FatSecs - 1)
    BY ConstAssumption
  <2> QED BY <2>1 DEF SecStart
<1>2. /\ LoadEnd(0) \in Entry /\ ReadAt(disk, 0) \in [Slot -> Value]
      /\ \A k \in Slot : ReadAt(disk, 0)[k] = disk[0 + k]
  BY <1>1, LoadEndFacts, ReadAtFacts DEF IInv, TypeOK
<1>3. TypeOK'
  BY <1>1, <1>2 DEF Mount, IInv, TypeOK, Patterns
<1>4. Coherent'
  BY <1>2 DEF Mount, Coherent
<1> QED BY <1>3, <1>4 DEF IInv

\* Every step keeps the invariant.
LEMMA NextIInv == IInv /\ [Next]_vars => IInv'
<1> SUFFICES ASSUME IInv, [Next]_vars PROVE IInv'
  OBVIOUS
<1>1. CASE \E i \in Entry : GetMapped(i)
  <2>1. PICK i \in Entry : GetMapped(i)
    BY <1>1
  <2>2. i - start \in Slot
    BY <2>1, SpanFacts, Sizes DEF GetMapped, InWindow, Slot, Entry
  <2> QED BY <2>1, <2>2 DEF GetMapped, IInv, TypeOK, Coherent
<1>2. CASE \E i \in Entry : GetLoading(i)
  BY <1>2, GetLoadingIInv
<1>3. CASE \E i \in Entry : MoveFails(i)
  BY <1>3, MoveFailsIInv
<1>4. CASE \E i \in Entry, v \in Value : SetMapped(i, v)
  <2>1. PICK i \in Entry, v \in Value : SetMapped(i, v)
    BY <1>4
  <2>2. buf' \in [Slot -> Value]
    BY <2>1 DEF SetMapped, IInv, TypeOK
  <2>3. TypeOK' /\ end' = LoadEnd(start') /\ (ok' => partStart' = start') /\ updated' = TRUE
    BY <2>1, <2>2 DEF SetMapped, IInv, TypeOK, Coherent
  <2> QED BY <2>3 DEF IInv, Coherent
<1>5. CASE \E i \in Entry, v \in Value : SetLoading(i, v)
  BY <1>5, SetLoadingIInv
<1>6. CASE StoreFat
  BY <1>6, StoreFatIInv
<1>7. CASE StoreFatFails
  BY <1>7, StoreFatFailsIInv
<1>8. CASE \E p \in {"BALANCED", "ONLYFORWARD"} : SetPattern(p)
  BY <1>8 DEF SetPattern, IInv, TypeOK, Coherent, Patterns
<1>9. CASE Mount
  BY <1>9, MountIInv
<1>10. CASE \E e \in Beyond, v \in Value : OthersWrite(e, v)
  <2>1. PICK e \in Beyond, v \in Value : OthersWrite(e, v)
    BY <1>10
  <2>2. \A x \in Entry : disk'[x] = disk[x]
    BY <2>1, Sizes DEF OthersWrite, IInv, TypeOK, Beyond, Entry, DiskEntry
  <2> QED BY <2>1, <2>2 DEF OthersWrite, IInv, TypeOK, Coherent
<1>11. CASE UNCHANGED vars
  BY <1>11 DEF vars, IInv, TypeOK, Coherent
<1> QED BY <1>1, <1>2, <1>3, <1>4, <1>5, <1>6, <1>7, <1>8, <1>9, <1>10, <1>11 DEF Next

\* Type correctness, and with it that every window and every stored part lies in
\* the FAT, for all sizes.
THEOREM TypeCorrect == Spec => []TypeOK
<1>1. IInv => TypeOK
  BY DEF IInv
<1> QED BY <1>1, InitIInv, NextIInv, PTL DEF Spec

\* The window always agrees with its bounds and, when it is not marked for
\* storing, with the disk, as long as no move of it failed.
THEOREM WindowCoherent == Spec => []Coherent
<1>1. IInv => Coherent
  BY DEF IInv
<1> QED BY <1>1, InitIInv, NextIInv, PTL DEF Spec

\* A window moved for an entry holds that entry, for all windows of at least two
\* sectors and every access pattern.
THEOREM WindowAlwaysCovers == Spec => []WindowCovers
<1>1. IInv => WindowCovers
  BY MoveFacts DEF WindowCovers
<1> QED BY <1>1, InitIInv, NextIInv, PTL DEF Spec

\* No step of the FAT routines writes behind the FAT.
THEOREM BeyondAlwaysKept == Spec => BeyondKept
<1>1. IInv /\ [Next]_vars =>
        [\/ \E e \in Beyond, v \in Value : OthersWrite(e, v)
         \/ \A e \in Beyond : disk'[e] = disk[e]]_vars
  <2> SUFFICES ASSUME IInv, Next
               PROVE  \/ \E e \in Beyond, v \in Value : OthersWrite(e, v)
                      \/ \A e \in Beyond : disk'[e] = disk[e]
    OBVIOUS
  <2>1. StoreBeforeLoad = StoredTo(StoreEnd)
    BY DEF StoreBeforeLoad
  <2>2. \A n \in partStart .. StoreEnd : n \in Int /\ n <= StoreEnd
    BY SecStartFacts, StoreEndFacts DEF IInv, TypeOK, Entry
  <2>3. ASSUME NEW i \in Entry, GetMapped(i) \/ GetLoading(i) \/ MoveFails(i)
        PROVE  \A e \in Beyond : disk'[e] = disk[e]
    BY <2>1, <2>2, <2>3, StoredFacts, StoreEndFacts
       DEF GetMapped, GetLoading, Load, MoveFails, LoadFails
  <2>4. ASSUME NEW i \in Entry, NEW v \in Value, SetMapped(i, v) \/ SetLoading(i, v)
        PROVE  \A e \in Beyond : disk'[e] = disk[e]
    BY <2>1, <2>4, StoredFacts, StoreEndFacts DEF SetMapped, SetLoading
  <2>5. CASE StoreFat \/ StoreFatFails
    BY <2>2, <2>5, StoredFacts, StoreEndFacts DEF StoreFat, StoreFatFails
  <2>6. CASE Mount \/ \E p \in {"BALANCED", "ONLYFORWARD"} : SetPattern(p)
    BY <2>6 DEF Mount, SetPattern
  <2> QED BY <2>3, <2>4, <2>5, <2>6 DEF Next
<1> QED BY <1>1, InitIInv, NextIInv, PTL DEF Spec, BeyondKept

-----------------------------------------------------------------------------
(* The window implements the table                                         *)

\* The entries a caller finds, whether they are in the window or on the disk.
Table == [e \in Entry |-> IF InWindow(e) THEN buf[e - start] ELSE disk[e]]
OnDisk == [e \in Entry |-> disk[e]]

\* Storing part of the window brings entries of the table to the disk, storing
\* all of it the whole table.
LEMMA StoredTable ==
  ASSUME IInv, ok, NEW n \in Int, n <= StoreEnd, NEW e \in Entry
  PROVE  /\ StoredTo(n)[e] \in {disk[e], Table[e]}
         /\ n = StoreEnd => StoredTo(n)[e] = Table[e]
<1>1. e \in Nat /\ e <= MaxFatEntry /\ e \in DiskEntry
  BY Sizes DEF Entry, DiskEntry
<1>2. /\ partStart = start /\ start \in Nat /\ end = LoadEnd(start)
  BY SecStartFacts DEF IInv, TypeOK, Coherent, Entry
<1>3. /\ end = Smaller(start + WinEntries - 1, MaxFatEntry)
      /\ StoreEnd = Smaller(start + WinEntries, MaxFatEntry + 1)
  BY <1>2, Sizes DEF LoadEnd, StoreEnd
<1>4. StoreEnd = end + 1 /\ end \in Nat
  BY <1>2, <1>3, Sizes DEF Smaller
<1>5. /\ e \in partStart .. (n - 1) => InWindow(e)
      /\ n = StoreEnd => (InWindow(e) <=> e \in partStart .. (n - 1))
  BY <1>1, <1>2, <1>4 DEF InWindow
<1>6. CASE updated
  BY <1>1, <1>2, <1>5, <1>6 DEF StoredTo, Table
<1>7. CASE ~updated
  <2>1. StoredTo(n) = disk
    BY <1>7 DEF StoredTo
  <2>2. ASSUME InWindow(e) PROVE buf[e - start] = disk[e]
    <3>1. e - start \in Slot /\ start + (e - start) = e
      BY <1>1, <1>2, <1>3, <2>2, Sizes DEF InWindow, Slot, Smaller
    <3> QED BY <1>7, <3>1 DEF IInv, Coherent
  <2> QED BY <2>1, <2>2 DEF Table
<1> QED BY <1>6, <1>7

\* Right after a window has been read the table is what the disk holds.
LEMMA ReadTable ==
  ASSUME NEW s \in SecStart, NEW d \in [DiskEntry -> Value], NEW e \in Entry,
         s <= e, e <= LoadEnd(s)
  PROVE  e - s \in Slot /\ ReadAt(d, s)[e - s] = d[e]
<1>1. e \in Nat /\ s \in Nat /\ e - s \in Slot /\ s + (e - s) = e
  BY SecStartFacts, LoadEndFacts, Sizes DEF Entry, Slot
<1> QED BY <1>1, ReadAtFacts

\* Moving the window leaves the table as it is and brings all of it to the disk.
LEMMA LoadKeepsTable ==
  ASSUME IInv, ok, NEW s \in SecStart, Load(s)
  PROVE  /\ Table' = Table /\ OnDisk' = Table
         /\ \A e \in Entry : InWindow(e)' => buf'[e - s] = Table[e]
<1>1. disk' \in [DiskEntry -> Value]
  BY StoredFacts, StoreEndFacts DEF Load, StoreBeforeLoad
<1>2. \A e \in Entry : disk'[e] = Table[e]
  BY StoredTable, StoreEndFacts DEF Load, StoreBeforeLoad
<1>3. ASSUME NEW e \in Entry, InWindow(e)'
      PROVE  buf'[e - s] = disk'[e]
  <2>1. s <= e /\ e <= LoadEnd(s)
    BY <1>3 DEF InWindow, Load
  <2> QED BY <1>1, <2>1, ReadTable DEF Load
<1>4. OnDisk' = Table
  BY <1>2 DEF OnDisk, Table
<1>5. Table' = Table
  <2>1. Table' = [e \in Entry |-> IF InWindow(e)' THEN buf'[e - s] ELSE disk'[e]]
    BY DEF Table, Load
  <2>2. \A e \in Entry : Table'[e] = Table[e]
    BY <2>1, <1>2, <1>3
  <2> QED BY <2>1, <2>2 DEF Table
<1> QED BY <1>2, <1>3, <1>4, <1>5

\* What an operation of FatTable lets happen to the disk.
LEMMA StoredIsSomeStored ==
  ASSUME IInv, ok, NEW n \in Int, n <= StoreEnd, disk' = StoredTo(n) \/ disk' = disk
  PROVE  \A e \in Entry : OnDisk'[e] \in {OnDisk[e], Table[e]}
  BY StoredTable DEF OnDisk

\* Reading an entry in the window or out of it is reading the table.
LEMMA GetSim ==
  ASSUME IInv, ok, NEW i \in Entry, GetMapped(i) \/ GetLoading(i)
  PROVE  got' = Table[i] /\ Table' = Table /\ ok' = ok
         /\ \A e \in Entry : OnDisk'[e] \in {OnDisk[e], Table[e]}
<1>1. CASE GetMapped(i)
  BY <1>1 DEF GetMapped, Table, OnDisk, InWindow
<1>2. CASE GetLoading(i)
  <2> DEFINE s == LoadStart(Wanted(i))
  <2>1. s \in SecStart /\ s <= i /\ i <= LoadEnd(s)
    BY MoveFacts
  <2>2. Load(s) /\ got' = buf'[i - s] /\ ok' = ok /\ start' = s /\ end' = LoadEnd(s)
    BY <1>2 DEF GetLoading, Load
  <2>3. InWindow(i)'
    BY <2>1, <2>2 DEF InWindow
  <2> HIDE DEF s
  <2> QED BY <2>1, <2>2, <2>3, LoadKeepsTable
<1> QED BY <1>1, <1>2

\* Writing an entry in the window or out of it is writing the table.
LEMMA SetSim ==
  ASSUME IInv, ok, NEW i \in Entry, NEW v \in Value, SetMapped(i, v) \/ SetLoading(i, v)
  PROVE  Table' = [Table EXCEPT ![i] = v] /\ got' = got /\ ok' = ok
         /\ \A e \in Entry : OnDisk'[e] \in {OnDisk[e], Table[e]}
<1>1. CASE SetMapped(i, v)
  <2>1. buf \in [Slot -> Value] /\ start \in Nat /\ i \in Nat
    BY SecStartFacts DEF IInv, TypeOK, Entry
  <2>2. \A e \in Entry : InWindow(e) => e - start \in Slot
    BY SpanFacts, Sizes DEF InWindow, Slot, Entry
  <2>3. \A e \in Entry : e # i => e - start # i - start
    BY <2>1 DEF Entry
  <2>4. \A e \in Entry : Table'[e] = IF e = i THEN v ELSE Table[e]
    BY <1>1, <2>1, <2>2, <2>3 DEF SetMapped, Table, InWindow
  <2> QED BY <1>1, <2>4 DEF SetMapped, Table, OnDisk
<1>2. CASE SetLoading(i, v)
  <2> DEFINE s == LoadStart(Wanted(i))
             d == StoredTo(StoreEnd)
  <2>1. s \in SecStart /\ s <= i /\ i <= LoadEnd(s) /\ s \in Nat /\ i - s \in Slot
    BY MoveFacts, SecStartFacts DEF Entry
  <2>2. /\ start' = s /\ end' = LoadEnd(s) /\ disk' = d
        /\ buf' = [ReadAt(d, s) EXCEPT ![i - s] = v] /\ got' = got /\ ok' = ok
    BY <1>2 DEF SetLoading, StoreBeforeLoad
  <2>3. d \in [DiskEntry -> Value] /\ \A e \in Entry : d[e] = Table[e]
    BY StoredFacts, StoredTable, StoreEndFacts
  <2> HIDE DEF s, d
  <2>4. \A e \in Entry : s <= e /\ e <= LoadEnd(s) =>
           e - s \in Slot /\ ReadAt(d, s)[e - s] = d[e] /\ (e # i => e - s # i - s)
    BY <2>1, <2>3, ReadTable DEF Entry
  <2>5. ReadAt(d, s) \in [Slot -> Value]
    BY <2>1, <2>3, ReadAtFacts
  <2>6. \A e \in Entry : Table'[e] = IF e = i THEN v ELSE Table[e]
    BY <2>1, <2>2, <2>3, <2>4, <2>5 DEF Table, InWindow
  <2>7. Table' = [Table EXCEPT ![i] = v]
    BY <2>6 DEF Table
  <2>8. \A e \in Entry : OnDisk'[e] = Table[e]
    BY <2>2, <2>3 DEF OnDisk
  <2> QED BY <2>2, <2>7, <2>8
<1> QED BY <1>1, <1>2

\* A mounted window is the table on the disk.
LEMMA MountSim ==
  ASSUME IInv, Mount
  PROVE  Table' = OnDisk' /\ OnDisk' = OnDisk /\ got' = got /\ ok' = TRUE
<1> SUFFICES Table' = OnDisk' /\ OnDisk' = OnDisk
  BY DEF Mount
<1>1. disk' = disk /\ start' = 0 /\ end' = LoadEnd(0) /\ buf' = ReadAt(disk, 0)
  BY DEF Mount
<1>2. 0 \in SecStart /\ disk \in [DiskEntry -> Value]
  <2>1. 0 = 0 * EntriesPerSec /\ 0 \in 0 .. (FatSecs - 1)
    BY ConstAssumption
  <2> QED BY <2>1 DEF SecStart, IInv, TypeOK
<1>3. \A e \in Entry : 0 <= e /\ e <= LoadEnd(0) => buf'[e - 0] = disk[e]
  BY <1>1, <1>2, ReadTable
<1>4. \A e \in Entry : Table'[e] = disk[e]
  BY <1>1, <1>3 DEF Table, InWindow
<1> QED BY <1>1, <1>4 DEF Table, OnDisk

\* The window starts as a table does.
LEMMA InitSim == Init => Abs!Init
<1> SUFFICES ASSUME Init PROVE Abs!Init
  OBVIOUS
<1>1. IInv
  BY InitIInv
<1>2. 0 \in SecStart /\ disk \in [DiskEntry -> Value] /\ Entry \subseteq DiskEntry
  <2>1. 0 = 0 * EntriesPerSec /\ 0 \in 0 .. (FatSecs - 1)
    BY ConstAssumption
  <2>2. 0 \in SecStart
    BY <2>1 DEF SecStart
  <2>3. disk \in [DiskEntry -> Value]
    BY <1>1 DEF IInv, TypeOK
  <2>4. Entry \subseteq DiskEntry
    BY Sizes DEF Entry, DiskEntry
  <2> QED BY <2>2, <2>3, <2>4
<1>3. \A e \in Entry : 0 <= e /\ e <= LoadEnd(0) => buf[e - 0] = disk[e]
  BY <1>2, ReadTable DEF Init
<1>4. \A e \in Entry : Table[e] = disk[e]
  BY <1>3 DEF Table, InWindow, Init
<1>5. Table = OnDisk /\ OnDisk \in [Entry -> Value]
  BY <1>2, <1>4 DEF Table, OnDisk
<1> QED BY <1>5 DEF Abs!Init, Table, OnDisk, Init

\* Every step of the window is a step of the table or leaves it alone.
LEMMA NextSim == IInv /\ [Next]_vars => [Abs!Next]_(Abs!vars)
<1> SUFFICES ASSUME IInv, [Next]_vars
             PROVE  Abs!Next \/ UNCHANGED <<Table, OnDisk, got, ok>>
  BY DEF Abs!vars, Table, OnDisk
<1>0. ASSUME ok' = FALSE PROVE Abs!Next
  BY <1>0 DEF Abs!Next, Abs!LoseTrack
<1>1. ASSUME ok, NEW i \in Entry, GetMapped(i) \/ GetLoading(i) PROVE Abs!Next
  BY <1>1, GetSim DEF Abs!Next, Abs!Get, Abs!SomeStored, Table, OnDisk
<1>2. ASSUME NEW i \in Entry, MoveFails(i) PROVE Abs!Next
  BY <1>0, <1>2 DEF MoveFails, LoadFails
<1>3. ASSUME ok, NEW i \in Entry, NEW v \in Value, SetMapped(i, v) \/ SetLoading(i, v)
      PROVE  Abs!Next
  <2>1. Abs!Set(i, v)
    BY <1>3, SetSim DEF Abs!Set, Abs!SomeStored, Table, OnDisk
  <2> QED BY <1>3, <2>1 DEF Abs!Next
<1>4. ASSUME ok, StoreFat PROVE Abs!Next
  <2>1. \A e \in Entry : disk'[e] = Table[e]
    BY <1>4, StoredTable, StoreEndFacts DEF StoreFat
  <2>2. Table' = [e \in Entry |-> IF InWindow(e) THEN buf[e - start] ELSE disk'[e]]
    BY <1>4 DEF StoreFat, Table, InWindow
  <2>3. Table' = Table
    BY <2>1, <2>2 DEF Table
  <2>4. OnDisk' = Table
    BY <2>1 DEF OnDisk, Table
  <2>5. Abs!Store
    BY <1>4, <2>3, <2>4 DEF StoreFat, Abs!Store, Table, OnDisk
  <2> QED BY <1>4, <2>5 DEF Abs!Next
<1>5. ASSUME ok, StoreFatFails PROVE Abs!Next
  <2>1. PICK n \in partStart .. StoreEnd : disk' = StoredTo(n)
    BY <1>5 DEF StoreFatFails
  <2>2. n \in Int /\ n <= StoreEnd
    BY SecStartFacts, StoreEndFacts DEF IInv, TypeOK, Entry
  <2>3. \A e \in Entry : disk'[e] \in {disk[e], Table[e]}
    BY <1>5, <2>1, <2>2, StoredTable
  <2>4. Table' = [e \in Entry |-> IF InWindow(e) THEN buf[e - start] ELSE disk'[e]]
    BY <1>5 DEF StoreFatFails, Table, InWindow
  <2>5. Table' = Table
    BY <2>3, <2>4 DEF Table
  <2>6. \A e \in Entry : OnDisk'[e] \in {OnDisk[e], Table[e]}
    BY <2>3 DEF OnDisk
  <2>7. Abs!StoreInterrupted
    BY <1>5, <2>5, <2>6
       DEF StoreFatFails, Abs!StoreInterrupted, Abs!SomeStored, Table, OnDisk
  <2> QED BY <1>5, <2>7 DEF Abs!Next
<1>6. ASSUME NEW p, SetPattern(p) PROVE UNCHANGED <<Table, OnDisk, got, ok>>
  BY <1>6 DEF SetPattern, Table, OnDisk, InWindow
<1>7. ASSUME Mount PROVE Abs!Next
  <2>1. Abs!Restart
    BY <1>7, MountSim DEF Abs!Restart, Table, OnDisk
  <2> QED BY <2>1 DEF Abs!Next
<1>8. ASSUME NEW e \in Beyond, NEW v \in Value, OthersWrite(e, v)
      PROVE  UNCHANGED <<Table, OnDisk, got, ok>>
  <2>1. \A x \in Entry : disk'[x] = disk[x]
    BY <1>8, Sizes DEF OthersWrite, IInv, TypeOK, Beyond, Entry, DiskEntry
  <2> QED BY <1>8, <2>1 DEF OthersWrite, Table, OnDisk, InWindow
<1>9. CASE UNCHANGED vars
  BY <1>9 DEF vars, Table, OnDisk, InWindow
<1>10. CASE Next /\ ok
  BY <1>1, <1>2, <1>3, <1>4, <1>5, <1>6, <1>7, <1>8, <1>10 DEF Next
<1>11. CASE Next /\ ~ok
  <2>1. ok' = FALSE \/ Mount
    BY <1>11 DEF Next, IInv, TypeOK, GetMapped, GetLoading, MoveFails, LoadFails, SetMapped,
       SetLoading, StoreFat, StoreFatFails, SetPattern, OthersWrite
  <2> QED BY <2>1, <1>0, <1>7
<1> QED BY <1>9, <1>10, <1>11

\* The partly mapped FAT is a table of entries for its callers: whatever the
\* sizes, no write is lost or undone as long as no transfer fails, and a crash
\* finds of every entry its value or an earlier one.
THEOREM WindowImplementsTable == Spec => ImplementsTable
<1> QED BY InitIInv, NextIInv, InitSim, NextSim, PTL DEF Spec, ImplementsTable, Abs!Spec
=============================================================================
