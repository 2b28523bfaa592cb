----------------------------- MODULE FatWindow -----------------------------
(***************************************************************************)
(* The partly mapped FAT of fatfs.c: FBuf holds a window of the FAT;       *)
(* fatfs_partlymappedfat_handle moves the window to the entry asked for    *)
(* (fatfs_loadfat), storing it first when it was changed (fatfs_storefat). *)
(* It implements FatTable as long as no transfer fails.                    *)
(*                                                                         *)
(* Sectors are counted from the start of the FAT copy in use (curFatNo),   *)
(* the only copy the code writes.                                          *)
(***************************************************************************)
EXTENDS Integers

CONSTANTS
  EntriesPerSec,  \* bs.bytPerSec divided by the 2 or 4 bytes of an entry
  FatSecs,        \* bs.fatSz
  WinSecs,        \* FATFAT_MAXSIZE/bs.bytPerSec
  Value           \* what an entry can hold

ASSUME ConstAssumption ==
  /\ EntriesPerSec \in Nat \ {0} /\ FatSecs \in Nat \ {0}
  /\ WinSecs \in Nat /\ WinSecs >= 2      \* 1 MB and sectors of at most 4 KB: 256 or more
  /\ Value # {}

MaxFatEntry == FatSecs * EntriesPerSec - 1    \* fat->maxFatEntry
WinEntries  == WinSecs * EntriesPerSec        \* nEntries of fatfs_loadfat
Entry       == 0 .. MaxFatEntry
Slot        == 0 .. (WinEntries - 1)
\* A window near the end of the FAT also reads what follows the FAT on the disk.
DiskEntry   == 0 .. (MaxFatEntry + WinEntries - EntriesPerSec)
Beyond      == DiskEntry \ Entry
SecStart    == {q * EntriesPerSec : q \in 0 .. (FatSecs - 1)}   \* first entries of sectors
Patterns    == {"BALANCED", "MOSTLYFORWARD", "ONLYFORWARD"}

VARIABLES
  disk,      \* the entries on the disk, from the first of this FAT on
  buf,       \* fat->FBuf
  start,     \* fat->curFatStartEntry
  end,       \* fat->curFatEndEntry
  partStart, \* fat->curFatPartStartSecAbs, as the number of its first entry
  updated,   \* fat->fatUpdated
  pattern,   \* fat->accessPattern
  got,       \* the value the last getfatentry found
  ok         \* history: no transfer failed while the window was moved

vars == <<disk, buf, start, end, partStart, updated, pattern, got, ok>>

-----------------------------------------------------------------------------
AlignDown(n) == (n \div EntriesPerSec) * EntriesPerSec
Smaller(a, b) == IF a <= b THEN a ELSE b

\* fatfs_storefat writes the window, but nothing past the last sector of the FAT.
StoreEndUncut == partStart + WinEntries           \* mutant: the FAT's end is forgotten
StoreEnd == Smaller(partStart + WinEntries, FatSecs * EntriesPerSec)
StoredTo(n) == IF updated
                 THEN [e \in DiskEntry |-> IF e \in partStart .. (n - 1) THEN buf[e - partStart]
                                                                        ELSE disk[e]]
                 ELSE disk

\* fatfs_partlymappedfat_handle: where the new window is asked to start.
WantedFullBack(i) == i - (end - start)    \* mutant: the window ends before the entry
Wanted(i) == CASE pattern = "BALANCED"      -> i - (end - start) \div 2
               [] pattern = "MOSTLYFORWARD" -> i - (end - start) \div 4
               [] pattern = "ONLYFORWARD"   -> i
\* fatfs_loadfat: where it does start.
LoadStartInside(n) == IF n < 0 THEN 0 ELSE n      \* mutant: not the start of the sector
LoadStart(n) == IF n < 0 THEN 0 ELSE AlignDown(n)
LoadEndUncut(s) == s + WinEntries - 1             \* mutant: the FAT's end is forgotten
LoadEnd(s)   == Smaller(s + WinEntries - 1, MaxFatEntry)
\* get_sectors from the sector of entry s on.
ReadAt(d, s) == [k \in Slot |-> d[AlignDown(s) + k]]

InWindow(i) == start <= i /\ i <= end

-----------------------------------------------------------------------------
Init ==
  /\ disk \in [DiskEntry -> Value]
  /\ start = 0 /\ end = LoadEnd(0) /\ partStart = 0 /\ buf = ReadAt(disk, 0)
  /\ updated = FALSE /\ pattern = "BALANCED" /\ got \in Value /\ ok = TRUE

\* fatfs_loadfat moves the window so that it starts at s.
StoreBeforeLoadNot == disk     \* mutant: a changed window is dropped
StoreBeforeLoad == StoredTo(StoreEnd)
Load(s) ==
  /\ start' = s /\ end' = LoadEnd(s) /\ partStart' = AlignDown(s)
  /\ disk' = StoreBeforeLoad
  /\ buf' = ReadAt(disk', s)
  /\ updated' = FALSE

\* The window's bounds are set before the transfers: when one of them fails
\* they describe a window that is not in the buffer.  Sectors before the
\* failing one have been transferred.
LoadFails(s) ==
  /\ start' = s /\ end' = LoadEnd(s) /\ ok' = FALSE
  /\ \/ /\ updated
        /\ \E n \in partStart .. StoreEnd : disk' = StoredTo(n)
        /\ UNCHANGED <<buf, updated>>
     \/ /\ disk' = StoreBeforeLoad /\ updated' = FALSE
        /\ \E n \in 0 .. WinEntries : buf' = [k \in Slot |-> IF k < n THEN ReadAt(disk', s)[k] ELSE buf[k]]
  /\ UNCHANGED <<partStart, pattern, got>>

\* fatfs16_getfatentry, fatfs32_getfatentry.  For an entry beyond maxFatEntry they,
\* and the two that set one, return -ERROR_INVALID and do nothing: a stutter.
GetMapped(i) ==
  /\ InWindow(i) /\ got' = buf[i - start]
  /\ UNCHANGED <<disk, buf, start, end, partStart, updated, pattern, ok>>
GetLoading(i) ==
  /\ ~InWindow(i) /\ Load(LoadStart(Wanted(i))) /\ got' = buf'[i - start']
  /\ UNCHANGED <<pattern, ok>>

\* fatfs16_setfatentry, fatfs32_setfatentry
SetMapped(i, v) ==
  /\ InWindow(i) /\ buf' = [buf EXCEPT ![i - start] = v] /\ updated' = TRUE
  /\ UNCHANGED <<disk, start, end, partStart, pattern, got, ok>>
SetLoading(i, v) ==
  /\ ~InWindow(i)
  /\ LET s == LoadStart(Wanted(i))
     IN /\ start' = s /\ end' = LoadEnd(s) /\ partStart' = AlignDown(s)
        /\ disk' = StoreBeforeLoad
        /\ buf' = [ReadAt(disk', s) EXCEPT ![i - s] = v]
        /\ updated' = TRUE
  /\ UNCHANGED <<pattern, got, ok>>
\* Either routine returns -ERROR_FAILED.
MoveFails(i) == ~InWindow(i) /\ LoadFails(LoadStart(Wanted(i)))

\* fatfs_storefat called by fatfs_cleanup, and its failure.
StoreFat ==
  /\ disk' = StoredTo(StoreEnd) /\ updated' = FALSE
  /\ UNCHANGED <<buf, start, end, partStart, pattern, got, ok>>
StoreFatFails ==
  /\ updated /\ \E n \in partStart .. StoreEnd : disk' = StoredTo(n)
  /\ UNCHANGED <<buf, start, end, partStart, updated, pattern, got, ok>>

\* fatfs_update_freecluslist and fatfs_update_freeclusters read the whole FAT
\* forward and then set the pattern back.
SetPattern(p) ==
  /\ pattern # p /\ pattern' = p
  /\ UNCHANGED <<disk, buf, start, end, partStart, updated, got, ok>>

\* fatfs_init, after an unmount or a crash: all that was in memory is gone.
Mount ==
  /\ start' = 0 /\ end' = LoadEnd(0) /\ partStart' = 0 /\ buf' = ReadAt(disk, 0)
  /\ updated' = FALSE /\ pattern' = "BALANCED" /\ ok' = TRUE
  /\ UNCHANGED <<disk, got>>

\* put_sectors for a directory or a file that lies behind the FAT.
OthersWrite(e, v) ==
  /\ disk' = [disk EXCEPT ![e] = v]
  /\ UNCHANGED <<buf, start, end, partStart, updated, pattern, got, ok>>

Next ==
  \/ \E i \in Entry : GetMapped(i) \/ GetLoading(i) \/ MoveFails(i)
  \/ \E i \in Entry, v \in Value : SetMapped(i, v) \/ SetLoading(i, v)
  \/ StoreFat \/ StoreFatFails
  \/ \E p \in {"BALANCED", "ONLYFORWARD"} : SetPattern(p)
  \/ Mount
  \/ \E e \in Beyond, v \in Value : OthersWrite(e, v)

Spec == Init /\ [][Next]_vars
-----------------------------------------------------------------------------
(* Properties                                                              *)

TypeOK ==
  /\ disk \in [DiskEntry -> Value] /\ buf \in [Slot -> Value]
  /\ start \in SecStart /\ end \in Entry /\ partStart \in SecStart
  /\ updated \in BOOLEAN /\ pattern \in Patterns /\ got \in Value /\ ok \in BOOLEAN

\* Wherever the window is and whatever the access pattern, the entry asked for
\* lies in the window that is then loaded: the start is rounded down to a
\* sector and cut at 0, the end is cut at the last entry of the FAT.
WindowCovers ==
  \A i \in Entry :
    LET s == LoadStart(Wanted(i))
    IN ~InWindow(i) => s <= i /\ i <= LoadEnd(s)

\* The buffer holds the part of the FAT that the bounds say, and what it holds
\* differs from the disk only when it is marked for storing.
Coherent ==
  /\ end = LoadEnd(start)
  /\ ok => /\ partStart = start
           /\ \A k \in Slot : start + k \in Entry /\ ~updated => buf[k] = disk[start + k]

\* Storing the window never writes behind the FAT, where other parts of the
\* volume may have changed since the window was read.
BeyondKept ==
  [][\/ \E e \in Beyond, v \in Value : OthersWrite(e, v)
     \/ \A e \in Beyond : disk'[e] = disk[e]]_vars

\* The window and the disk together are the table that callers of getfatentry
\* and setfatentry see: no write is lost, no old value comes back, and a crash
\* leaves of each entry an old or the newest value.
Abs == INSTANCE FatTable
         WITH table <- [e \in Entry |-> IF InWindow(e) THEN buf[e - start] ELSE disk[e]],
              durable <- [e \in Entry |-> disk[e]]
ImplementsTable == Abs!Spec
=============================================================================
