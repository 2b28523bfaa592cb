------------------------------ MODULE FileRead ------------------------------
(***************************************************************************)
(* The read cursor of an open file of fatfs.c: fatuc_fseek and fatuc_fread *)
(* keep, beside the position fPos, the cluster (fromClus) and the offset   *)
(* in it (offInFromClus) from which the next read starts, so that a read   *)
(* need not follow the chain from its beginning.                           *)
(*                                                                         *)
(* Files do not share a cursor, so one open file is enough.  A byte is     *)
(* named by its cluster and its offset there.                              *)
(***************************************************************************)
EXTENDS Integers, Sequences, FiniteSets

CONSTANTS
  ClusSize,      \* bytes in a cluster
  FileSizes,     \* sizes in bytes of the files to be read
  Chains,        \* the clusters of the files, in order
  ListSize,      \* cl[16] of fatfs__loadfileclus_usefileinfo
  SeekListSize,  \* FATUC_TEMP_CLSIZE
  BufLen,        \* bufLen of the caller's buffer
  MaxRead,       \* bound: bytesToRead of one call
  MaxFaults      \* bound: reads of a FAT entry or of sectors that fail

\* The chain of a file has as many clusters as its size needs.
Fits(ch, sz) == Len(ch) = (sz + ClusSize - 1) \div ClusSize

ASSUME ConstAssumption ==
  /\ ClusSize \in Nat \ {0} /\ FileSizes \subseteq Nat
  /\ ListSize \in Nat \ {0} /\ SeekListSize \in Nat \ {0}
  /\ BufLen \in Nat /\ MaxRead \in Nat /\ MaxFaults \in Nat
  /\ \A ch \in Chains :
       /\ ch \in Seq(Nat \ {0, 1})
       /\ \A i, j \in DOMAIN ch : ch[i] = ch[j] => i = j
  /\ \E ch \in Chains, sz \in FileSizes : Fits(ch, sz)

VARIABLES
  chain,    \* the file's clusters, from fInfo.firstClus along the FAT
  fileSize, \* fInfo.fileSize
  fPos,     \* files[fId].fPos
  from,     \* files[fId].fromClus (0: the beginning of the chain)
  off,      \* files[fId].offInFromClus
  res,      \* what the last call returned
  out,      \* the bytes the last fatuc_fread delivered: *atBuf, *bytesRead
  faults,   \* failures so far
  astray    \* history: which part of the cursor an event has left behind fPos

file == <<chain, fileSize>>
cursor == <<fPos, from, off>>
vars == <<file, cursor, res, out, faults, astray>>

-----------------------------------------------------------------------------
(* The chain, and the lists of runs in which the code follows it           *)

ClusNo(p)  == p \div ClusSize + 1      \* note starts with 1
Place(c)   == IF c = 0 THEN 1 ELSE CHOOSE i \in DOMAIN chain : chain[i] = c
OffsetWhole(p) == p                    \* mutant: the modulo is forgotten
OffsetIn(p) == p % ClusSize
FileByte(p) == <<chain[ClusNo(p)], p % ClusSize>>

\* The places from k on at which a run of adjacent clusters ends.
RunEnds(k) ==
  {i \in k .. Len(chain) : i < Len(chain) => chain[i + 1] # chain[i] + 1}

\* Following the chain from place k in lists of sz runs, the places at which a
\* list starts: the values *fromClus goes through.
ListStarts(k, sz) ==
  {k} \cup {i + 1 : i \in {e \in RunEnds(k) : /\ e < Len(chain)
                                              /\ Cardinality({d \in RunEnds(k) : d <= e}) % sz = 0}}
LastListStart(k, sz) ==
  CHOOSE i \in ListStarts(k, sz) : \A j \in ListStarts(k, sz) : j <= i
\* *fromClus is not set as long as the first list has not been left.
FromAt(k, i) == IF i = k THEN from ELSE chain[i]

-----------------------------------------------------------------------------
Init ==
  /\ chain \in Chains /\ fileSize \in FileSizes /\ Fits(chain, fileSize)
  /\ fPos = 0 /\ from = 0 /\ off = 0
  /\ res = "OK" /\ out = <<>> /\ faults = 0 /\ astray = {}

Fault == faults < MaxFaults /\ faults' = faults + 1

\* fatuc_fclose and fatuc_fopen
Reopen ==
  /\ fPos' = 0 /\ from' = 0 /\ off' = 0 /\ res' = "OK" /\ out' = <<>> /\ astray' = {}
  /\ UNCHANGED <<file, faults>>

-----------------------------------------------------------------------------
(* fatuc_fseek and fatuc__fposChangedUpdate                                *)

\* The chain is followed from fromClus on, or from its beginning to go back.
WalkPlaceKept(back) == Place(from)   \* mutant: fromClus is not reset to go back
WalkPlace(back) == IF back THEN 1 ELSE Place(from)

Seek(p) ==
  LET new == ClusNo(p)
      cur == ClusNo(fPos)
      back == new < cur
      k == WalkPlace(back)
      at == k + new - (IF back THEN 1 ELSE cur)     \* the place wanted
      walkFrom == IF back THEN 0 ELSE from
  IN /\ fPos' = p /\ off' = OffsetIn(p) /\ out' = <<>> /\ UNCHANGED file
     /\ \/ /\ new = cur /\ res' = "OK" /\ UNCHANGED <<from, faults>>
           /\ astray' = astray \ {"offset"}
        \/ /\ new # cur /\ at <= Len(chain) /\ UNCHANGED faults
           /\ from' = chain[at] /\ res' = "OK"
           /\ astray' = astray \ (IF back THEN {"offset", "cluster"} ELSE {"offset"})
        \/ /\ new # cur /\ at > Len(chain) /\ UNCHANGED faults
           /\ LET i == LastListStart(k, SeekListSize)
              IN from' = IF i = k THEN walkFrom ELSE chain[i]
           /\ res' = "NOMORE"
           /\ astray' = astray \ (IF back THEN {"offset", "cluster"} ELSE {"offset"})
        \/ \* a FAT entry cannot be read
           /\ new # cur /\ Fault /\ res' = "FAILED"
           /\ \E i \in ListStarts(k, SeekListSize) :
                /\ i <= at
                /\ from' = IF i = k THEN walkFrom ELSE chain[i]
           /\ astray' = (astray \cup {"cluster"}) \ {"offset"}

-----------------------------------------------------------------------------
(* fatuc_fread and fatfs__loadfileclus_usefileinfo                         *)

\* Clusters to transfer for n bytes (bytAl).
NeedFromStart(n) == (n - 1 + ClusSize) \div ClusSize    \* mutant: the offset is forgotten
Need(n) == (n - 1 + off + ClusSize) \div ClusSize
Wanted(n) == fPos < fileSize /\ Need(n) * ClusSize <= BufLen

\* The clusters transferred, and *fromClus after the transfer: the next one of
\* the chain or, at its end, whatever the last list started from.
Loaded(n) == LET k == Place(from)
             IN SubSeq(chain, k, IF k + Need(n) - 1 <= Len(chain) THEN k + Need(n) - 1 ELSE Len(chain))
NextFrom(n) == LET k == Place(from)
               IN IF k + Need(n) <= Len(chain) THEN chain[k + Need(n)]
                                               ELSE FromAt(k, LastListStart(k, ListSize))
Usable(n) == Len(Loaded(n)) * ClusSize - off    \* *bytesRead before it is cut
DeliveredAtBuf(n, m) ==       \* mutant: atBuf is the buffer itself
  [i \in 1 .. m |-> <<Loaded(n)[(i - 1) \div ClusSize + 1], (i - 1) % ClusSize>>]
Delivered(n, m) ==
  [i \in 1 .. m |-> <<Loaded(n)[(off + i - 1) \div ClusSize + 1], (off + i - 1) % ClusSize>>]

AtEof ==
  /\ fPos >= fileSize
  /\ res' = "EOF" /\ out' = <<>>
  /\ UNCHANGED <<file, cursor, faults, astray>>

BufferTooSmall(n) ==
  /\ fPos < fileSize /\ Need(n) * ClusSize > BufLen
  /\ res' = "INSUFFICIENTRESOURCE" /\ out' = <<>>
  /\ UNCHANGED <<file, cursor, faults, astray>>

\* With a wrong offset a read takes clusters that are not those of its bytes.
Slipped == IF "offset" \in astray THEN {"cluster"} ELSE {}
LastAgainNot(n) == NextFrom(n)       \* mutant: the cluster is not read again
LastAgain(n) == IF Loaded(n) = <<>> THEN from ELSE Loaded(n)[Len(Loaded(n))]
\* All the bytes asked for are there.  When the new position is inside a
\* cluster that cluster has to be read again.
FreadFull(n) ==
  LET pos == fPos + n
  IN /\ Wanted(n) /\ Usable(n) >= n
     /\ out' = Delivered(n, n) /\ fPos' = pos /\ res' = "OK"
     /\ IF pos % ClusSize # 0
          THEN /\ from' = LastAgain(n) /\ off' = OffsetIn(pos)
               /\ astray' = (astray \cup Slipped) \ {"offset"}
          ELSE /\ from' = NextFrom(n) /\ UNCHANGED off
               /\ astray' = astray \cup Slipped \cup IF off # 0 THEN {"offset"} ELSE {}
     /\ UNCHANGED <<file, faults>>

\* The chain ends before n bytes: what the file still has is delivered.
FreadRest(n) ==
  /\ Wanted(n) /\ Usable(n) < n /\ fPos + Usable(n) >= fileSize
  /\ out' = Delivered(n, fileSize - fPos) /\ fPos' = fileSize /\ res' = "OK"
  /\ from' = NextFrom(n)
  /\ astray' = IF fileSize % ClusSize # 0 THEN astray \cup {"cluster"} ELSE astray
  /\ UNCHANGED <<file, off, faults>>

\* "bytesRead<bytesToRead CANT OCCUR"
FreadUnknown(n) ==
  /\ Wanted(n) /\ Usable(n) < n /\ fPos + Usable(n) < fileSize
  /\ res' = "UNKNOWN" /\ out' = <<>> /\ from' = NextFrom(n)
  /\ astray' = astray \cup {"cluster"}
  /\ UNCHANGED <<file, fPos, off, faults>>

\* A FAT entry or a run of clusters cannot be read; *fromClus may have moved on.
FreadFails(n) ==
  LET k == Place(from)
  IN /\ Wanted(n) /\ Fault /\ res' = "FAILED" /\ out' = <<>>
     /\ \/ from' = NextFrom(n)
        \/ \E i \in ListStarts(k, ListSize) : i < k + Need(n) /\ from' = FromAt(k, i)
     /\ astray' = astray \cup {"cluster"}
     /\ UNCHANGED <<file, fPos, off>>

-----------------------------------------------------------------------------
Next ==
  \/ Reopen
  \/ \E p \in 0 .. (fileSize + ClusSize) : Seek(p)
  \/ AtEof
  \/ \E n \in 0 .. MaxRead :
       BufferTooSmall(n) \/ FreadFull(n) \/ FreadRest(n) \/ FreadUnknown(n) \/ FreadFails(n)

Spec == Init /\ [][Next]_vars

-----------------------------------------------------------------------------
(* Properties                                                              *)

TypeOK ==
  /\ chain \in Chains /\ fileSize \in FileSizes /\ Fits(chain, fileSize)
  /\ fPos \in Nat /\ from \in {0} \cup {chain[i] : i \in DOMAIN chain}
  /\ off \in 0 .. (ClusSize - 1)
  /\ res \in {"OK", "NOMORE", "FAILED", "EOF", "INSUFFICIENTRESOURCE", "UNKNOWN"}
  /\ \A i \in DOMAIN out : out[i][1] \in {chain[j] : j \in DOMAIN chain}
  /\ faults \in 0 .. MaxFaults /\ astray \subseteq {"offset", "cluster"}

\* fromClus and offInFromClus are the place of fPos in the chain, after any
\* sequence of reads and seeks in which no event left them behind.
CursorFollows ==
  fPos < fileSize =>
    /\ "offset" \notin astray => off = fPos % ClusSize
    /\ "cluster" \notin astray => Place(from) = ClusNo(fPos)

\* A read delivers the bytes of the file from fPos on, in order.
ReadIsFile ==
  [][\A n \in 0 .. MaxRead :
       astray = {} /\ (FreadFull(n) \/ FreadRest(n)) =>
         /\ fPos' = fPos + Len(out')
         /\ \A i \in DOMAIN out' : fPos + i <= fileSize => out'[i] = FileByte(fPos + i - 1)]_vars

\* A seek to a byte of the file finds its cluster.
SeekFinds ==
  [][\A p \in 0 .. (fileSize - 1) :
       Seek(p) /\ "cluster" \notin astray => res' \in {"OK", "FAILED"}]_vars

\* A cursor in step never reads too few clusters.
EnoughIsRead == [][astray = {} => res' # "UNKNOWN"]_vars

-----------------------------------------------------------------------------
(* Statements of the source and the documentation that the code does not   *)
(* keep                                                                    *)

\* fatfs.c:2157, "bytesRead<bytesToRead CANT OCCUR" (here: without a failure).
CantOccur == faults = 0 => res # "UNKNOWN"

\* docs/Changelog:443-446: bytesRead holds only bytes of the file, not the
\* padding at the end of its last cluster.
NoPadding == [][\A n \in 0 .. MaxRead : FreadFull(n) => fPos' <= fileSize]_vars
=============================================================================
