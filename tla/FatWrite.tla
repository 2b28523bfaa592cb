------------------------------ MODULE FatWrite ------------------------------
(***************************************************************************)
(* Cluster allocation, file writing and file deletion of fatfs.c:          *)
(* fatfs__storefileclus_usefileinfo and fatfs__freefilefatentries_...,     *)
(* with the cache of free cluster runs (fat->freeCl) and the counter of    *)
(* free clusters (fat->freeClusters) that they share.                      *)
(*                                                                         *)
(* One action is one pass of a loop of the code, so every call that can    *)
(* fail (a FAT entry read or written, a put_sectors) is a step of its own. *)
(* Sizes are counted in clusters.  The FAT is the table that getfatentry   *)
(* and setfatentry show; FatWindow models how they come by it.             *)
(***************************************************************************)
EXTENDS Integers, Sequences, FiniteSets

CONSTANTS
  Files,          \* files the callers create, write and delete
  None,           \* no file: no call is running
  CntDataClus,    \* fat->cntDataClus
  MinAdj0,        \* first fat->freeCl.curMinAdjClusCnt (cntDataClus/8 in the code)
  FreeClSize,     \* FATFS_FREECLUSLIST_SIZE
  ListSize,       \* FATFS_SFC_CLSIZE = FATFS_SFC_OFCL_CLSIZE
  TempListSize,   \* FATFS_TEMP_CLUSLIST_SIZE
  ReviveAt,       \* the 16 of fatfs__addto_freeclusters
  RevivedMin,     \* the 4 of fatfs__addto_freeclusters
  Preload,        \* chains a volume may hold when it is mounted: [Files -> Seq(Cluster)]
  BadClusters,    \* clusters marked bad on the volume
  MaxWrite,       \* bound: clusters of one write request
  MaxCalls,       \* bound: writes and deletions
  MaxFaults       \* bound: block device or FAT window failures

Cluster  == 2 .. (CntDataClus + 1)   \* the clusters of the data area
Scanned  == 2 .. (CntDataClus - 1)   \* those the free cluster scan looks at
Free     == 0                        \* FATFS_FREECLUSTER
BadMark  == CntDataClus + 2          \* FATFS_BADCLUSTER
EndMark  == CntDataClus + 3          \* FATFS_EOF
ALLOC    == EndMark                  \* FATFS__STOREFILECLUS_FROMCLUS_ALLOC
FatEntry == {0} \cup Cluster

\* The clusters of a chain are distinct, and no two files share one.
ValidChains(ch) ==
  /\ \A f \in Files : ch[f] \in Seq(Cluster \ BadClusters)
  /\ \A f, g \in Files : \A i \in DOMAIN ch[f], j \in DOMAIN ch[g] :
        ch[f][i] = ch[g][j] => f = g /\ i = j

ASSUME ConstAssumption ==
  /\ CntDataClus \in Nat \ {0} /\ MinAdj0 \in Nat
  /\ FreeClSize \in Nat \ {0} /\ ListSize \in Nat \ {0} /\ TempListSize \in Nat \ {0}
  /\ ReviveAt \in Nat /\ RevivedMin \in Nat
  /\ MaxWrite \in Nat \ {0} /\ MaxCalls \in Nat /\ MaxFaults \in Nat
  /\ None \notin Files
  /\ BadClusters \subseteq Cluster
  /\ \A ch \in Preload : DOMAIN ch = Files /\ ValidChains(ch)

VARIABLES
  fat,       \* the file allocation table
  first,     \* fInfo->firstClus of each file (0: the file has no cluster)
  size,      \* fInfo->newFileSize of each file, in clusters
  from,      \* the caller's *fromClus for each file it is writing
  last,      \* the caller's *lastClusWriten for each file it is writing
  cache,     \* fat->freeCl.cl[clIndex..clSize-1]: the clusters of the unused runs
  scanFrom,  \* fat->freeCl.fromClus
  curMin,    \* fat->freeCl.curMinAdjClusCnt
  count,     \* value of fat->freeClusters
  flag,      \* flag of fat->freeClusters
  pc,        \* the loop the current call is in
  file,      \* the file the current call works on
  todo,      \* totalPosClus2Write: clusters the call has still to write
  done,      \* *totalClusWriten: clusters the call has written
  need,      \* clusRequired of fatfs_getopti_freecluslist
  lst,       \* cl[]: the runs found but not written yet
  more,      \* resOCL = -ERROR_TRYAGAIN
  pos,       \* iPrevClus of the loop that follows a chain
  freed,     \* clusFreed of fatfs__freefilefatentries_usefileinfo
  res,       \* what the last call returned
  calls,     \* writes and deletions so far
  faults,    \* failures so far
  wrote,     \* history: clusters written for each file since its cursor was set
  owner,     \* history: the file whose data was last written to each cluster
  straddled, \* history: a request was served from two scans, the second going
             \* back over clusters that the first had already given it
  torn       \* history: a failure cut the linking or the freeing of a chain short

chainVars == <<fat, first, size>>
freeVars  == <<cache, scanFrom, curMin, count, flag>>
curVars   == <<from, last, wrote>>
callVars  == <<file, todo, done, need, lst, more, pos, freed>>
histVars  == <<owner, straddled, torn, calls>>
vars == <<chainVars, freeVars, curVars, callVars, histVars, pc, res, faults>>

-----------------------------------------------------------------------------
(* Runs of clusters                                                        *)

Run(b, a)  == [base |-> b, adj |-> a]             \* struct TClusList
RunSet(r)  == r.base .. (r.base + r.adj)
RunType    == [base : Cluster, adj : Nat]
Handed     == UNION {RunSet(lst[i]) : i \in DOMAIN lst}
FreeSet    == {c \in Cluster : fat[c] = Free}

MinOf(S) == CHOOSE c \in S : \A d \in S : c <= d
MaxOf(S) == CHOOSE c \in S : \A d \in S : d <= c

\* The cache holds whole runs in ascending order, and a run of it is a maximal
\* interval of its clusters: the scan ends a run only at a cluster in use.
FirstRun(S)  == {c \in S : MinOf(S) .. c \subseteq S}
RunAt(S, b)  == FirstRun({c \in S : c >= b})
Starts(S)    == {c \in S : c - 1 \notin S}

\* Every run of S but the last that has minAdjClusCnt clusters after its first.
BigStarts(S, minAdj) ==
  {b \in Starts(S) : b # MaxOf(Starts(S)) /\ Cardinality(RunAt(S, b)) > minAdj}

\* fatfs__getoptifreecluslist over the free clusters S it finds: a slot of the
\* list is overwritten by the next run when its own run is too short, so the
\* runs kept are the big ones and, whatever its length, the last.  With the
\* list full and a run to spare the scan stops there (-ERROR_TRYAGAIN).
ListFull(S, minAdj, sz) == Cardinality(BigStarts(S, minAdj)) >= sz
KeptStarts(S, minAdj, sz) ==
  IF ListFull(S, minAdj, sz)
    THEN {b \in BigStarts(S, minAdj) :
             Cardinality({a \in BigStarts(S, minAdj) : a < b}) < sz}
    ELSE BigStarts(S, minAdj) \cup {MaxOf(Starts(S))}
Kept(S, minAdj, sz) == UNION {RunAt(S, b) : b \in KeptStarts(S, minAdj, sz)}
Resume(S, minAdj, sz) ==
  MinOf({b \in Starts(S) : b > MaxOf(KeptStarts(S, minAdj, sz))})

-----------------------------------------------------------------------------
(* The counter of free clusters                                            *)

\* fatfs__addto_freeclusters: also lets short runs be searched for again.
AddToFreeClusters(n) ==
  /\ count' = IF flag = "UNKNOWN" THEN count ELSE count + n
  /\ curMin' = IF curMin = 0 /\ n > ReviveAt THEN RevivedMin ELSE curMin
  /\ UNCHANGED <<flag, cache, scanFrom>>

\* fatfs__subfrom_freeclusters: a guessed count can be too small to subtract from.
DecreasedTooFar(n) == count - n      \* mutant: no lower bound
Decreased(n) == IF count > n THEN count - n ELSE 0
SubFromFreeClusters(n) ==
  /\ count' = IF flag = "UNKNOWN" THEN count ELSE Decreased(n)
  /\ UNCHANGED <<flag, cache, scanFrom, curMin>>

\* fatfs__update_freeclusters with FATFS_FREECLUSTERS_GUESSED
GuessFreeClusters(n) ==
  IF flag = "UNKNOWN" \/ (flag = "GUESSED" /\ n > count)
    THEN count' = n /\ flag' = "GUESSED"
    ELSE UNCHANGED <<count, flag>>

-----------------------------------------------------------------------------
Links(ch, f) == {<<ch[f][i], IF i = Len(ch[f]) THEN EndMark ELSE ch[f][i + 1]>> :
                   i \in DOMAIN ch[f]}

\* A volume found in good order by fatfs_init, its free list not built yet.
Init ==
  /\ \E ch \in Preload :
       LET links == UNION {Links(ch, f) : f \in Files}
           at(c) == IF \E l \in links : l[1] = c
                      THEN (CHOOSE l \in links : l[1] = c)[2]
                      ELSE IF c \in BadClusters THEN BadMark ELSE Free
       IN /\ fat = [c \in FatEntry |-> IF c = 0 THEN EndMark ELSE at(c)]
          /\ first = [f \in Files |-> IF ch[f] = <<>> THEN 0 ELSE ch[f][1]]
          /\ size = [f \in Files |-> Len(ch[f])]
          /\ owner = [c \in Cluster |-> {f \in Files : \E i \in DOMAIN ch[f] : ch[f][i] = c}]
  /\ from = [f \in Files |-> 0] /\ last = [f \in Files |-> 0]
  /\ wrote = [f \in Files |-> <<>>]
  /\ cache = {} /\ scanFrom = 0 /\ curMin = MinAdj0 /\ count = 0 /\ flag = "UNKNOWN"
  /\ pc = "mount" /\ file = None
  /\ todo = 0 /\ done = 0 /\ need = 0 /\ lst = <<>> /\ more = FALSE /\ pos = 0 /\ freed = 0
  /\ res = "OK" /\ calls = 0 /\ faults = 0 /\ straddled = FALSE /\ torn = FALSE

Fault == faults < MaxFaults /\ faults' = faults + 1

\* The call returns r.  After a failure every caller of the code gives the
\* write up: testfatuc_fileextract2fatfs breaks out of its loop and closes the
\* file, fatuc__savedirbuf and fatuc_mkdir return.
Return(r) ==
  /\ pc' = "idle" /\ res' = r
  /\ lst' = <<>> /\ more' = FALSE /\ pos' = 0 /\ need' = 0 /\ freed' = 0 /\ done' = 0
  /\ file' = None

ForgetCursor(f) ==
  /\ from' = [from EXCEPT ![f] = 0] /\ last' = [last EXCEPT ![f] = 0]
  /\ wrote' = [wrote EXCEPT ![f] = <<>>]

Fail(r) == Return(r) /\ ForgetCursor(file) /\ UNCHANGED todo

-----------------------------------------------------------------------------
(* fatfs_update_freecluslist                                               *)

MinForScanKept == curMin   \* mutant: shorter runs are never looked for
MinForScan == IF scanFrom = 0 THEN curMin \div 4 ELSE curMin
ScanStart  == IF scanFrom < 2 THEN 2 ELSE scanFrom
\* An entry that cannot be read is skipped as if it were in use.
\* mutant: the end of a chain is taken for a free cluster
VisibleEnds == {c \in Scanned : fat[c] \in {Free, EndMark} /\ c >= ScanStart}
Visible == {c \in FreeSet \cap Scanned : c >= ScanStart}
Seen(S) == \/ S = Visible /\ UNCHANGED faults
           \/ S # Visible /\ Fault

\* The scan refills an empty cache; not called with scanFrom = curMin = 0.
Rescan(S) ==
  /\ curMin' = MinForScan
  /\ IF S = {}
       THEN cache' = {} /\ scanFrom' = 0 /\ UNCHANGED <<count, flag>>
       ELSE /\ cache' = Kept(S, MinForScan, FreeClSize)
            /\ scanFrom' = IF ListFull(S, MinForScan, FreeClSize)
                             THEN Resume(S, MinForScan, FreeClSize) ELSE ScanStart
            /\ GuessFreeClusters(Cardinality(cache') -
                                 Cardinality(KeptStarts(S, MinForScan, FreeClSize)))

NothingLeft == scanFrom = 0 /\ curMin = 0    \* -ERROR_NOMORE without a scan

\* The end of fatfs_init: its result is not looked at.
Mount ==
  /\ pc = "mount" /\ pc' = "idle"
  /\ \/ NothingLeft /\ UNCHANGED <<freeVars, faults>>
     \/ ~NothingLeft /\ \E S \in SUBSET Visible : Seen(S) /\ Rescan(S)
  /\ UNCHANGED <<chainVars, curVars, callVars, histVars, res>>

-----------------------------------------------------------------------------
(* fatfs_getopti_freecluslist: moves runs of the cache to lst until they   *)
(* make up the need clusters asked for                                     *)

\* Entering the loop, with n clusters asked for.
AskFor(n) == need' = n /\ lst' = <<>> /\ pc' = IF cache = {} THEN "take" ELSE "hand"

TakeNothingLeft ==
  /\ pc = "take" /\ NothingLeft
  /\ Fail("NOMORE")
  /\ UNCHANGED <<chainVars, freeVars, histVars, faults>>

TakeRescan ==
  /\ pc = "take" /\ ~NothingLeft
  /\ \E S \in SUBSET Visible : Seen(S) /\ Rescan(S)
  /\ straddled' = (straddled \/ \E c \in Handed : c >= ScanStart)
  /\ pc' = IF cache' = {} /\ need > 0 THEN "take" ELSE "hand"
  /\ UNCHANGED <<chainVars, curVars, callVars, owner, torn, calls, res>>

\* The whole first run is used up, or the rest of it stays the first run.
KeepOneMore(got) == cache \ RunSet(Run(MinOf(cache), got - 2))   \* mutant: off by one
KeepRest(got) == cache \ RunSet(Run(MinOf(cache), got - 1))
HandRun ==
  /\ pc = "hand" /\ need > 0 /\ cache # {} /\ Len(lst) < ListSize
  /\ LET run == FirstRun(cache)
         got == IF Cardinality(run) <= need THEN Cardinality(run) ELSE need
     IN /\ lst' = Append(lst, Run(MinOf(cache), got - 1))
        /\ cache' = KeepRest(got)
        /\ need' = need - Cardinality(run)
  /\ pc' = IF cache' = {} /\ need' > 0 THEN "take" ELSE "hand"
  /\ UNCHANGED <<chainVars, scanFrom, curMin, count, flag, curVars, file, todo,
                 done, more, pos, freed, histVars, res, faults>>

\* Either lst is full and there is more to get, or all that was asked for is got.
HandReturn ==
  /\ pc = "hand" /\ pc' = "writeNew"
  /\ \/ need > 0 /\ cache # {} /\ Len(lst) = ListSize /\ more' = TRUE
     \/ need <= 0 /\ more' = FALSE
  /\ UNCHANGED <<chainVars, freeVars, curVars, file, todo, done, need, lst, pos, freed,
                 histVars, res, faults>>

-----------------------------------------------------------------------------
(* fatfs__storefileclus_usefileinfo                                        *)

\* The caller writes the next n clusters of data of f.
StoreBegin(f, n) ==
  /\ pc = "idle" /\ calls < MaxCalls /\ calls' = calls + 1
  /\ file' = f /\ todo' = n /\ done' = 0 /\ more' = FALSE
  /\ IF from[f] = ALLOC
       THEN from' = [from EXCEPT ![f] = 0] /\ AskFor(n) /\ UNCHANGED pos
       ELSE LET start == IF from[f] = 0 THEN first[f] ELSE from[f]
            IN /\ pc' = "walk" /\ pos' = start /\ lst' = <<Run(start, 0)>>
               /\ UNCHANGED <<from, need>>
  /\ UNCHANGED <<chainVars, freeVars, last, wrote, freed, owner, straddled, torn, res, faults>>

\* fatfs_getopticluslist_usefileinfo, one FAT entry: the chain goes on ...
SameRunAnyGap == fat[pos] > pos     \* mutant: a gap does not end the run
SameRun == fat[pos] = pos + 1
WalkNext ==
  /\ pc = "walk" /\ fat[pos] \in Cluster
  /\ IF SameRun
       THEN /\ lst' = [lst EXCEPT ![Len(lst)].adj = @ + 1]
            /\ pos' = fat[pos] /\ UNCHANGED <<pc, more, from>>
       ELSE IF Len(lst) < ListSize
       THEN /\ lst' = Append(lst, Run(fat[pos], 0))
            /\ pos' = fat[pos] /\ UNCHANGED <<pc, more, from>>
       ELSE /\ more' = TRUE /\ from' = [from EXCEPT ![file] = fat[pos]]
            /\ pc' = "writeOld" /\ UNCHANGED <<lst, pos>>
  /\ UNCHANGED <<chainVars, freeVars, last, wrote, file, todo, done, need, freed,
                 histVars, res, faults>>

\* ... or ends; entry 0 stands for the chain of an empty file, and ends at once ...
WalkEnd ==
  /\ pc = "walk" /\ fat[pos] = EndMark
  /\ lst' = IF pos = 0 THEN <<>> ELSE lst
  /\ more' = FALSE /\ pc' = "writeOld"
  /\ UNCHANGED <<chainVars, freeVars, curVars, file, todo, done, need, pos, freed,
                 histVars, res, faults>>

\* ... or leads to a free or bad cluster, or the entry cannot be read.
WalkFail ==
  /\ pc = "walk"
  /\ \/ fat[pos] \in {Free, BadMark} /\ UNCHANGED faults
     \/ Fault
  /\ Fail("FAILED")
  /\ UNCHANGED <<chainVars, freeVars, histVars>>

\* put_sectors of n clusters from b on, for the file of the call.
PutData(b, n) ==
  /\ owner' = [c \in Cluster |-> IF c \in b .. (b + n - 1) THEN {file} ELSE owner[c]]
  /\ wrote' = [wrote EXCEPT ![file] = @ \o [i \in 1 .. n |-> b + i - 1]]

GoOnFromLast(r, n) == r.base + n - 1   \* mutant: off by one
GoOnFrom(r, n) == r.base + n
\* A run of the existing chain is written; in the middle of the chain the call
\* is then done and *fromClus is the cluster to go on from.
WriteOld ==
  /\ pc = "writeOld" /\ lst # <<>>
  /\ LET r == Head(lst)
         n == IF todo >= r.adj + 1 THEN r.adj + 1 ELSE todo
     IN /\ PutData(r.base, n)
        /\ last' = IF n = 0 THEN last ELSE [last EXCEPT ![file] = r.base + n - 1]
        /\ todo' = todo - n
        /\ IF todo < r.adj + 1
             THEN from' = [from EXCEPT ![file] = GoOnFrom(r, n)] /\ Return("OK")
             ELSE lst' = Tail(lst) /\ done' = done + n
                  /\ UNCHANGED <<from, pc, res, file, more, pos, need, freed>>
  /\ UNCHANGED <<chainVars, freeVars, straddled, torn, calls, faults>>

\* The chain has more runs than one list holds.
WriteOldMore ==
  /\ pc = "writeOld" /\ lst = <<>> /\ more
  /\ pc' = "walk" /\ pos' = from[file] /\ lst' = <<Run(from[file], 0)>> /\ more' = FALSE
  /\ UNCHANGED <<chainVars, freeVars, curVars, file, todo, done, need, freed, histVars, res, faults>>

\* The end of the chain is reached: clusters are allocated for the rest, and
\* also when there is no rest.
GrownSizeSet == done   \* mutant: the size becomes that of this call
GrownSize == IF size[file] < done THEN done ELSE size[file]
WriteOldDone ==
  /\ pc = "writeOld" /\ lst = <<>> /\ ~more
  /\ size' = [size EXCEPT ![file] = GrownSize]
  /\ from' = [from EXCEPT ![file] = 0]
  /\ AskFor(todo) /\ pos' = 0
  /\ UNCHANGED <<fat, first, freeVars, last, wrote, file, todo, done, more, freed,
                 histVars, res, faults>>

PutFail ==
  /\ pc \in {"writeOld", "writeNew"} /\ lst # <<>>
  /\ Fault /\ Fail("FAILED")
  /\ UNCHANGED <<chainVars, freeVars, histVars>>

\* fatfs__linknewsegment_usefileinfo, the entries as far as that of m: first
\* the entry of l, the last cluster of the file (0: the file is empty), then
\* those of the segment s..e in ascending order.  An entry set twice keeps its
\* second value.
\* mutant: the segment is not terminated
SetEntriesOpen(t, l, s, e, m) ==
  [c \in DOMAIN t |-> IF c \in s .. m /\ c # e THEN c + 1 ELSE IF l # 0 /\ c = l THEN s ELSE t[c]]
SetEntries(t, l, s, e, m) ==
  [c \in DOMAIN t |-> IF c \in s .. m THEN (IF c = e THEN EndMark ELSE c + 1)
                      ELSE IF l # 0 /\ c = l THEN s ELSE t[c]]

\* A new run is written and, when n clusters of it hold data, linked.
NewRun == LET r == Head(lst) IN Run(r.base, (IF todo >= r.adj + 1 THEN r.adj + 1 ELSE todo) - 1)
WriteNew ==
  /\ pc = "writeNew" /\ lst # <<>>
  /\ LET s == NewRun.base
         e == NewRun.base + NewRun.adj
     IN /\ PutData(s, e - s + 1)
        /\ fat' = SetEntries(fat, last[file], s, e, e)
        /\ first' = IF last[file] = 0 THEN [first EXCEPT ![file] = s] ELSE first
        /\ size' = [size EXCEPT ![file] = @ + (e - s + 1)]
        /\ from' = [from EXCEPT ![file] = e + 1]
        /\ last' = [last EXCEPT ![file] = e]
        /\ todo' = todo - (e - s + 1) /\ done' = done + (e - s + 1)
        /\ SubFromFreeClusters(e - s + 1)
  /\ lst' = Tail(lst)
  /\ UNCHANGED <<pc, file, need, more, pos, freed, straddled, torn, calls, res, faults>>

\* The data is written.
PutNew == owner' = [c \in Cluster |-> IF c \in RunSet(NewRun) THEN {file} ELSE owner[c]]

\* The end of the chain cannot be found or extended: no entry is set.
LinkFails ==
  /\ pc = "writeNew" /\ lst # <<>> /\ PutNew
  /\ Fault /\ Fail("FAILED")
  /\ UNCHANGED <<chainVars, freeVars, straddled, torn, calls>>

\* An entry of the new segment cannot be set: those before it are.
LinkTorn ==
  /\ pc = "writeNew" /\ lst # <<>> /\ PutNew
  /\ LET s == NewRun.base
         e == NewRun.base + NewRun.adj
     IN /\ \E m \in s - 1 .. e - 1 : fat' = SetEntries(fat, last[file], s, e, m)
        /\ first' = IF last[file] = 0 THEN [first EXCEPT ![file] = s] ELSE first
  /\ torn' = TRUE /\ Fault /\ Fail("FAILED")
  /\ UNCHANGED <<size, freeVars, straddled, calls>>

\* The runs of one list are written: go on with the next list, or return.
WriteNewMore ==
  /\ pc = "writeNew" /\ lst = <<>> /\ more
  /\ AskFor(todo) /\ more' = FALSE
  /\ UNCHANGED <<chainVars, freeVars, curVars, file, todo, done, pos, freed, histVars, res, faults>>

WriteNewDone ==
  /\ pc = "writeNew" /\ lst = <<>> /\ ~more
  /\ from' = [from EXCEPT ![file] = ALLOC]
  /\ Return("OK")
  /\ UNCHANGED <<chainVars, freeVars, last, wrote, todo, histVars, faults>>

-----------------------------------------------------------------------------
(* fatuc__deletefile: fatfs__freefilefatentries_usefileinfo, one entry a   *)
(* step, then the directory entry goes                                     *)

DeleteBegin(f) ==
  /\ pc = "idle" /\ pc' = "free" /\ calls < MaxCalls /\ calls' = calls + 1
  /\ file' = f /\ pos' = first[f] /\ freed' = 0 /\ todo' = 0 /\ done' = 0
  /\ ForgetCursor(f)
  /\ UNCHANGED <<chainVars, freeVars, need, lst, more, owner, straddled, torn, res, faults>>

FreeNext ==
  /\ pc = "free" /\ fat[pos] \in Cluster
  /\ fat' = [fat EXCEPT ![pos] = Free]
  /\ freed' = freed + 1 /\ pos' = fat[pos]
  /\ UNCHANGED <<first, size, freeVars, curVars, file, todo, done, need, lst, more,
                 histVars, pc, res, faults>>

\* The last cluster is freed but not counted (FIXME in the code); entry 0 stays.
CountedLast == freed + 1        \* mutant: the FIXME mended without a guard for an empty file
FreeLastUnguarded == [fat EXCEPT ![pos] = Free]   \* mutant: entry 0 is freed too
FreeLastKept == fat             \* mutant: the last cluster is forgotten
Counted  == freed
FreeLast == IF pos = 0 THEN fat ELSE [fat EXCEPT ![pos] = Free]
FreeEnd ==
  /\ pc = "free" /\ fat[pos] = EndMark
  /\ AddToFreeClusters(Counted) /\ fat' = FreeLast
  /\ first' = [first EXCEPT ![file] = 0] /\ size' = [size EXCEPT ![file] = 0]
  /\ Return("OK")
  /\ UNCHANGED <<curVars, todo, histVars, faults>>

\* The directory entry stays and names clusters that are free by now.
FreeFail ==
  /\ pc = "free"
  /\ \/ fat[pos] \in {Free, BadMark} /\ UNCHANGED faults
     \/ Fault
  /\ torn' = TRUE /\ Return("FAILED")
  /\ UNCHANGED <<chainVars, freeVars, curVars, todo, owner, straddled, calls>>

-----------------------------------------------------------------------------
\* The caller closes the file it wrote: a later write starts at its beginning.
CloseFile(f) ==
  /\ pc = "idle" /\ from[f] # 0 /\ ForgetCursor(f)
  /\ UNCHANGED <<chainVars, freeVars, callVars, histVars, pc, res, faults>>

\* fatfs_update_freeclusters: only a scan that ends with a single list counts.
\* An entry that cannot be read is not counted.
UpdateFreeClusters ==
  /\ pc = "idle"
  /\ \E S \in SUBSET (FreeSet \cap Scanned) :
       /\ \/ S = FreeSet \cap Scanned /\ UNCHANGED faults
          \/ S # FreeSet \cap Scanned /\ Fault
       /\ IF S = {} \/ ListFull(S, 0, TempListSize)
            THEN res' = "FAILED" /\ UNCHANGED <<count, flag>>
            ELSE res' = "OK" /\ count' = Cardinality(S) /\ flag' = "KNOWN"
  /\ todo' = 0
  /\ UNCHANGED <<chainVars, cache, scanFrom, curMin, curVars, file, done, need, lst, more,
                 pos, freed, histVars, pc>>

Begin ==
  \/ \E f \in Files : DeleteBegin(f) \/ CloseFile(f) \/ \E n \in 1 .. MaxWrite : StoreBegin(f, n)
  \/ UpdateFreeClusters

\* The rest of a call once it has begun.
Continue ==
  \/ Mount \/ TakeNothingLeft \/ TakeRescan \/ HandRun \/ HandReturn
  \/ WalkNext \/ WalkEnd \/ WalkFail \/ WriteOld \/ WriteOldMore \/ WriteOldDone \/ PutFail
  \/ WriteNew \/ LinkFails \/ LinkTorn \/ WriteNewMore \/ WriteNewDone
  \/ FreeNext \/ FreeEnd \/ FreeFail

Next == Begin \/ Continue

\* A call runs to its end: the code is sequential and never waits.
Spec == Init /\ [][Next]_vars /\ WF_vars(Continue)
-----------------------------------------------------------------------------
(* Properties                                                              *)

PCs == {"mount", "idle", "walk", "writeOld", "take", "hand", "writeNew", "free"}

TypeOK ==
  /\ fat \in [FatEntry -> FatEntry \cup {BadMark, EndMark}]
  /\ first \in [Files -> FatEntry] /\ size \in [Files -> Nat]
  /\ from \in [Files -> Nat] /\ last \in [Files -> FatEntry]
  /\ wrote \in [Files -> Seq(Cluster)]
  /\ cache \subseteq Scanned /\ scanFrom \in {0} \cup Scanned /\ curMin \in Nat
  /\ count \in Nat /\ flag \in {"UNKNOWN", "GUESSED", "KNOWN"}
  /\ pc \in PCs /\ file \in Files \cup {None} /\ (pc \in {"mount", "idle"} <=> file = None)
  /\ todo \in Nat /\ done \in Nat /\ need \in Int /\ more \in BOOLEAN
  /\ lst \in Seq([base : FatEntry, adj : Nat]) /\ pos \in FatEntry /\ freed \in Nat
  /\ res \in {"OK", "FAILED", "NOMORE"} /\ calls \in Nat /\ faults \in Nat
  /\ owner \in [Cluster -> SUBSET Files] /\ straddled \in BOOLEAN /\ torn \in BOOLEAN

\* The clusters of f in the order in which its chain is followed.
Chain(f) ==
  LET walk[k \in 0 .. Cardinality(Cluster)] ==
        IF k = 0 THEN IF first[f] = 0 THEN <<>> ELSE <<first[f]>>
        ELSE LET s == walk[k - 1]
             IN IF s # <<>> /\ fat[s[Len(s)]] \in Cluster THEN Append(s, fat[s[Len(s)]]) ELSE s
  IN walk[Cardinality(Cluster)]
ChainSet(f) == {Chain(f)[i] : i \in DOMAIN Chain(f)}

\* The history in which the volume is promised to stay sound: no failure left
\* a chain half changed, and no request was given a cluster twice by going back
\* over clusters with a second scan (see OverwriteOnlyWhenFull).
Orderly == ~straddled /\ ~torn

\* FAT entry 0 and the marks of bad clusters survive every write and deletion:
\* the chain of an empty file ends at entry 0, so an unguarded deletion or link
\* would overwrite it and the volume could not be mounted again.
ReservedKept == fat[0] = EndMark /\ \A c \in BadClusters : fat[c] = BadMark

\* The free list never offers, and a request never holds, a cluster that a file
\* uses; no cluster is offered or held twice.
CacheIsFree ==
  Orderly =>
    /\ cache \subseteq FreeSet
    /\ pc \in {"take", "hand", "writeNew"} =>
         /\ Handed \subseteq FreeSet /\ Handed \cap cache = {}
         /\ \A i, j \in DOMAIN lst : i # j => RunSet(lst[i]) \cap RunSet(lst[j]) = {}

\* No two chains meet: an entry of the FAT has one predecessor at most, and the
\* first cluster of a file has none and belongs to no other file.
NoCrossLink ==
  Orderly =>
    /\ \A c, d \in Cluster : fat[c] \in Cluster /\ fat[c] = fat[d] => c = d
    /\ \A f, g \in Files : first[f] # 0 /\ first[f] = first[g] => f = g
    /\ \A f \in Files, c \in Cluster : first[f] # 0 => fat[c] # first[f]

\* No chain leads to a free or bad cluster, and no file but the one being
\* deleted starts at one: nothing a file holds can be allocated again.
NoDangling ==
  Orderly =>
    /\ \A c \in Cluster : fat[c] \in Cluster => fat[fat[c]] \notin {Free, BadMark}
    /\ \A f \in Files : first[f] # 0 /\ ~(pc = "free" /\ file = f) =>
                          fat[first[f]] \notin {Free, BadMark}

\* Between calls every cluster in use belongs to the chain of a file: writing
\* past the end of a chain and deleting lose no cluster.
NoLeak ==
  Orderly /\ pc = "idle" =>
    \A c \in Cluster : fat[c] \notin {Free, BadMark} => \E f \in Files : c \in ChainSet(f)

\* Between calls the size of a file is the length of its chain: a reader that
\* trusts the size does not run off the chain.
SizeIsChain == Orderly /\ pc = "idle" => \A f \in Files : size[f] = Len(Chain(f))

\* What a caller wrote in several calls lies in the file in that order: the
\* k-th cluster of data is in the k-th cluster of the chain.
WrittenInOrder ==
  Orderly /\ pc = "idle" =>
    \A f \in Files : /\ Len(wrote[f]) <= Len(Chain(f))
                     /\ \A i \in DOMAIN wrote[f] : wrote[f][i] = Chain(f)[i]

\* A file's clusters hold its own data, whatever is written to other files.
DataKept == Orderly => \A f \in Files : \A c \in ChainSet(f) : owner[c] = {f}

\* In an orderly history the counter never promises more free clusters than
\* there are (it may promise fewer: a deletion does not count the last cluster
\* it frees).  Files that share clusters can make it promise more: a deletion
\* then frees the cluster that another writer links behind, so that a link
\* takes one more cluster than it subtracts.
CountIsSafe == Orderly /\ flag # "UNKNOWN" => count <= Cardinality(FreeSet)

\* Every call returns, unless chains have been cross-linked into a loop.
CallsReturn == pc # "idle" ~> pc = "idle" \/ straddled

-----------------------------------------------------------------------------
(* Statements of the documentation that the code does not keep             *)

\* docs/Changelog:46-54: a write damages other files only when the disk runs
\* out of space.  So: data goes to a cluster in use only when none is free.
OverwriteOnlyWhenFull ==
  [][WriteNew /\ ~torn => RunSet(NewRun) \subseteq FreeSet \/ FreeSet \cap Scanned = {}]_vars

\* docs/Changelog:150-158: a write that has put all its data on the disk does
\* not report an error.
WrittenMeansSuccess == pc = "idle" /\ res = "NOMORE" => todo > 0

\* docs/Changelog:30-33: fatfs_update_freeclusters establishes the KNOWN value
\* (here: when it has free clusters to count and every entry can be read).
UpdateMakesKnown ==
  [][UpdateFreeClusters /\ faults' = faults /\ FreeSet \cap Scanned # {} => flag' = "KNOWN"]_vars
=============================================================================
