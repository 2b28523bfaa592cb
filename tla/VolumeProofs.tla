---------------------------- MODULE VolumeProofs ----------------------------
(***************************************************************************)
(* Proofs about Volume, for every disk, partition table and boot sector.   *)
(***************************************************************************)
EXTENDS Volume, TLAPS

-----------------------------------------------------------------------------
(* The inductive invariant                                                 *)

\* The unmount is of a mounted volume.
StoringUp == pc \in {"storeroot", "storefat", "cleanup"} => up

\* A call that goes on has the device open.
OpenInCall == pc # "idle" => bd = "open"

\* The boot sector in use has passed the checks of fatfs_loadbootsector.
BootChecked ==
  up \/ pc \in {"fat", "root"} => baseSec \in Sec /\ Usable(Boot, totSecs)

\* The buffers hold the FAT and the root directory of that boot sector.
FatLoaded  == up \/ pc = "root" => DOMAIN fBuf = FatSecs(Boot)
RootLoaded == up => DOMAIN rdBuf = RootSecs(Boot)

\* What is not marked as changed is as on the disk, and there is nothing marked
\* behind the step of the unmount that stores it.
FatSame  == (up \/ pc = "root") /\ ~fatUpdated => \A s \in DOMAIN fBuf : fBuf[s] = disk[s]
RootSame == up /\ ~RDUpdated => \A s \in DOMAIN rdBuf : rdBuf[s] = disk[s]
FatFresh == pc = "root" => ~fatUpdated
StoredFirst == /\ pc \in {"storefat", "cleanup"} => ~RDUpdated
               /\ pc = "cleanup" => ~fatUpdated

IInv == TypeOK /\ StoringUp /\ OpenInCall /\ BootChecked
SInv == IInv /\ FatLoaded /\ RootLoaded /\ FatSame /\ RootSame /\ FatFresh /\ StoredFirst

-----------------------------------------------------------------------------
(* Types                                                                   *)

\* What an image holds has the types of its fields.
LEMMA ImageFacts ==
  ASSUME image \in Images
  PROVE  /\ \A s \in Sec : image.boot[s] \in BootType /\ image.boot[s].secPerClus > 0
         /\ \A p \in Part : image.first[p] \in Nat /\ image.num[p] \in Nat
<1>1. image \in ImageType /\ \A s \in Sec : image.boot[s].secPerClus > 0
  BY ConstAssumption
<1> QED BY <1>1 DEF ImageType

\* Stores keep the disk a disk.
LEMMA PutType ==
  ASSUME disk \in [Sec -> Value], NEW b, b \in [DOMAIN b -> Value]
  PROVE  /\ Put(b) => disk' \in [Sec -> Value]
         /\ PutSome(b) => disk' \in [Sec -> Value]
  BY DEF Put, PutSome

LEMMA InitInv == Init => IInv
<1> SUFFICES ASSUME Init PROVE IInv
  OBVIOUS
<1>1. DOMAIN fBuf = {} /\ DOMAIN rdBuf = {}
  BY DEF Init, Nothing
<1>2. fBuf \in [DOMAIN fBuf -> Value] /\ rdBuf \in [DOMAIN rdBuf -> Value]
  BY <1>1 DEF Init, Nothing
<1>3. 1 \in Part /\ 0 \in 0 .. MaxMounts /\ 0 \in 0 .. MaxFaults
  BY ConstAssumption DEF Part
<1>4. TypeOK
  BY <1>1, <1>2, <1>3, ConstAssumption DEF Init, TypeOK
<1>5. StoringUp /\ OpenInCall /\ BootChecked
  BY DEF Init, StoringUp, OpenInCall, BootChecked
<1> QED BY <1>4, <1>5 DEF IInv

\* Every step keeps the types and what the steps of a call rely on.
LEMMA StepInv == IInv /\ [Next]_vars => IInv'
<1> SUFFICES ASSUME IInv, [Next]_vars PROVE IInv'
  OBVIOUS
<1> USE DEF IInv
<1> DEFINE Good == TypeOK' /\ StoringUp' /\ OpenInCall' /\ BootChecked'
<1>1. ASSUME NEW p \in Part, NEW f \in BOOLEAN, Mount(p, f) PROVE Good
  BY <1>1, ConstAssumption
     DEF Mount, memory, Fault, TypeOK, StoringUp, OpenInCall, BootChecked, Boot, Usable
<1>2. ASSUME Partition PROVE Good
  <2>1. baseSec' \in Nat /\ totSecs' \in Nat
    BY <1>2, ImageFacts, ConstAssumption DEF Partition, TypeOK
  <2> QED BY <1>2, <2>1 DEF Partition, TypeOK, StoringUp, OpenInCall, BootChecked
<1>3. ASSUME PartitionFails PROVE Good
  BY <1>3, ConstAssumption
     DEF PartitionFails, memory, Fault, TypeOK, StoringUp, OpenInCall, BootChecked, Boot, Usable
<1>4. ASSUME LoadBoot PROVE Good
  BY <1>4 DEF LoadBoot, memory, TypeOK, StoringUp, OpenInCall, BootChecked, Boot, Usable
<1>5. ASSUME LoadBootFails \/ LoadFatFails \/ LoadRootFails PROVE Good
  <2>1. faults' \in 0 .. MaxFaults
    BY <1>5, ConstAssumption DEF LoadBootFails, LoadFatFails, LoadRootFails, Fault, TypeOK
  <2>2. pc' = "idle" /\ bd' = "closed" /\ up' = up /\ ~up
    BY <1>5 DEF LoadBootFails, LoadFatFails, LoadRootFails, GiveUp, TypeOK
  <2>3. TypeOK'
    BY <1>5, <2>1, <2>2 DEF LoadBootFails, LoadFatFails, LoadRootFails, memory, TypeOK
  <2> QED BY <2>2, <2>3 DEF StoringUp, OpenInCall, BootChecked
<1>6. ASSUME LoadFat PROVE Good
  BY <1>6 DEF LoadFat, TypeOK, StoringUp, OpenInCall, BootChecked, Boot, Usable
<1>7. ASSUME LoadRoot PROVE Good
  BY <1>7 DEF LoadRoot, TypeOK, StoringUp, OpenInCall, BootChecked, Boot, Usable
<1>8. ASSUME NEW s \in Sec, NEW v \in Value, ChangeFat(s, v) \/ ChangeRoot(s, v) PROVE Good
  BY <1>8 DEF ChangeFat, ChangeRoot, TypeOK, StoringUp, OpenInCall, BootChecked, Boot, Usable
<1>9. ASSUME Umount PROVE Good
  BY <1>9 DEF Umount, memory, TypeOK, StoringUp, OpenInCall, BootChecked, Boot, Usable
<1>10. ASSUME StoreRoot \/ StoreRootNoMore \/ StoreFat \/ StoreFails PROVE Good
  <2>1. disk' \in [Sec -> Value]
    BY <1>10, PutType DEF StoreRoot, StoreRootNoMore, StoreFat, StoreFails, TypeOK
  <2>2. up /\ up' = up /\ faults' \in 0 .. MaxFaults
    BY <1>10, ConstAssumption
      DEF StoreRoot, StoreRootNoMore, StoreFat, StoreFails, Fault, StoringUp, TypeOK
  <2> QED BY <1>10, <2>1, <2>2
      DEF StoreRoot, StoreRootNoMore, StoreFat, StoreFails, StillUpdated, TypeOK, StoringUp, OpenInCall,
          BootChecked, Boot, Usable
<1>11. ASSUME Cleanup PROVE Good
  <2>1. faults' \in 0 .. MaxFaults
    BY <1>11, ConstAssumption DEF Cleanup, Fault, TypeOK
  <2>2. TypeOK' /\ StoringUp' /\ OpenInCall'
    BY <1>11, <2>1 DEF Cleanup, memory, TypeOK, StoringUp, OpenInCall
  <2>3. BootChecked'
    <3>1. up' \/ pc' \in {"fat", "root"} => up
      BY <1>11 DEF Cleanup, StoringUp
    <3>2. baseSec' = baseSec /\ totSecs' = totSecs /\ Boot' = Boot
      BY <1>11 DEF Cleanup, memory, Boot
    <3> QED BY <3>1, <3>2 DEF BootChecked, Usable
  <2> QED BY <2>2, <2>3
<1>12. ASSUME Crash PROVE Good
  <2>1. disk' \in [Sec -> Value]
    BY <1>12, PutType DEF Crash, TypeOK
  <2>2. /\ DOMAIN fBuf' = {} /\ DOMAIN rdBuf' = {}
        /\ fBuf' \in [DOMAIN fBuf' -> Value] /\ rdBuf' \in [DOMAIN rdBuf' -> Value]
    BY <1>12 DEF Crash, Nothing
  <2>3. crashed' \in BOOLEAN /\ force' \in BOOLEAN
    BY <1>12 DEF Crash, TypeOK
  <2>4. partNo' \in Part
    BY <1>12 DEF Crash, Part
  <2>5. TypeOK'
    BY <1>12, <2>1, <2>2, <2>3, <2>4 DEF Crash, TypeOK
  <2> QED BY <1>12, <2>5 DEF Crash, StoringUp, OpenInCall, BootChecked
<1>13. ASSUME UNCHANGED vars PROVE Good
  BY <1>13 DEF vars, TypeOK, StoringUp, OpenInCall, BootChecked, Boot, Usable
<1> QED BY <1>1, <1>2, <1>3, <1>4, <1>5, <1>6, <1>7, <1>8, <1>9, <1>10, <1>11, <1>12, <1>13
     DEF Next

\* Every reachable state has its types and keeps IInv.
THEOREM InvHolds == Spec => []IInv
  BY InitInv, StepInv, PTL DEF Spec

\* The variables of mounting and unmounting have their types, and a mounted
\* volume is on an open device.
THEOREM VolumeTypeCorrect == Spec => []TypeOK
  BY InvHolds, PTL DEF IInv

-----------------------------------------------------------------------------
(* Where the FAT and the root directory lie                                *)

\* Products are ordered as their factors are.
LEMMA MulMono ==
  ASSUME NEW p \in Nat, NEW q \in Nat, NEW n \in Nat, p <= q
  PROVE  p * n \in Nat /\ q * n \in Nat /\ p * n <= q * n
<1>1. (q - p) \in Nat /\ (q - p) * n >= 0 /\ p * n \in Nat /\ q * n \in Nat
  OBVIOUS
<1>2. (q - p) * n = q * n - p * n
  OBVIOUS
<1> QED BY <1>1, <1>2

\* A cluster that a data area of d sectors has ends within them.
LEMMA ClusterFits ==
  ASSUME NEW d \in Nat, NEW c \in Nat, c > 0, NEW r \in Nat, r >= 2,
         r <= (d % UInt32) \div c + 1
  PROVE  (r - 2) * c \in Nat /\ (r - 2) * c + c <= d
<1> DEFINE m == d % UInt32
           q == m \div c
<1>1. m \in Nat /\ m <= d
  <2>1. UInt32 \in Nat /\ UInt32 > 0
    BY ConstAssumption
  <2>2. m \in Nat /\ m < UInt32
    BY <2>1
  <2>3. CASE d < UInt32
    BY <2>1, <2>3
  <2>4. CASE d >= UInt32
    BY <2>1, <2>2, <2>4
  <2> QED BY <2>1, <2>2, <2>3, <2>4
<1>2. q \in Nat /\ q * c <= m
  <2> HIDE DEF m
  <2> QED BY <1>1
<1>3. (r - 1) \in Nat /\ (r - 1) <= q /\ (r - 2) \in Nat
  <2>1. r <= q + 1
    OBVIOUS
  <2> HIDE DEF q
  <2> QED BY <1>2, <2>1
<1>4. (r - 1) * c <= q * c /\ (r - 1) * c \in Nat /\ (r - 2) * c \in Nat
  <2> HIDE DEF q
  <2> QED BY <1>2, <1>3, MulMono
<1>5. (r - 1) * c = (r - 2) * c + c
  OBVIOUS
<1> HIDE DEF m, q
<1> QED BY <1>1, <1>2, <1>4, <1>5

\* The areas of a boot sector: the FAT in use, behind it the root directory, and,
\* when the sizes are consistent, both within the size of the volume.
LEMMA Areas ==
  ASSUME NEW b \in BootType, b.secPerClus > 0, InOrder(b), baseSec \in Nat
  PROVE  /\ FatStart(b) \in Nat /\ RootStart(b) \in Int /\ RootLen(b) \in Nat
         /\ baseSec + b.rsvdSecCnt <= FatStart(b) /\ FatStart(b) + b.fatSz <= RootStart(b)
         /\ Consistent(b) => RootStart(b) + RootLen(b) <= baseSec + b.totSec
<1> DEFINE fats == b.numFats * b.fatSz
<1>1. /\ b.rsvdSecCnt \in Nat /\ b.numFats \in Nat /\ b.fatSz \in Nat /\ b.rootDirSecs \in Nat
      /\ b.totSec \in Nat /\ b.active \in Nat /\ b.secPerClus \in Nat /\ b.rootClus \in Nat
  BY DEF BootType
<1>2. fats \in Nat
  BY <1>1
<1>3. b.numFats > 0 /\ FirstDataSec(b) = b.rsvdSecCnt + fats + b.rootDirSecs
  BY DEF InOrder, FirstDataSec
<1>4. CASE FatType(b) = 32
  <2> DEFINE a == b.active * b.fatSz
             r == (b.rootClus - 2) * b.secPerClus
  <2>1. FatStart(b) = baseSec + b.rsvdSecCnt + a
    BY <1>4 DEF FatStart
  <2>2. a \in Nat /\ a + b.fatSz <= fats
    <3>1. b.active + 1 <= b.numFats /\ (b.active + 1) \in Nat
      BY <1>1, <1>4 DEF InOrder
    <3>2. (b.active + 1) * b.fatSz <= fats
      BY <1>1, <3>1, MulMono
    <3>3. (b.active + 1) * b.fatSz = a + b.fatSz /\ a \in Nat
      BY <1>1
    <3> QED BY <3>2, <3>3
  <2>3. RootStart(b) = baseSec + FirstDataSec(b) + r /\ RootLen(b) = b.secPerClus
    BY <1>4 DEF RootStart, RootLen
  <2>4. r \in Nat
    <3>1. (b.rootClus - 2) \in Nat
      BY <1>1, <1>4 DEF InOrder
    <3> QED BY <1>1, <3>1, MulMono
  <2>5. ASSUME Consistent(b) PROVE r + b.secPerClus <= b.totSec - FirstDataSec(b)
    <3>1. b.totSec - FirstDataSec(b) \in Nat
      <4> HIDE DEF fats
      <4> QED BY <1>1, <1>2, <1>3, <2>5 DEF Consistent
    <3>2. b.rootClus >= 2
          /\ b.rootClus <= ((b.totSec - FirstDataSec(b)) % UInt32) \div b.secPerClus + 1
      BY <1>4, <2>5 DEF Consistent, InOrder, CntDataClus
    <3> QED BY <1>1, <3>1, <3>2, ClusterFits
  <2> HIDE DEF fats, a, r
  <2> QED BY <1>1, <1>2, <1>3, <2>1, <2>2, <2>3, <2>4, <2>5
<1>5. CASE FatType(b) # 32
  <2>1. FatStart(b) = baseSec + b.rsvdSecCnt
    BY <1>1, <1>5 DEF FatStart
  <2>2. RootStart(b) = baseSec + b.rsvdSecCnt + fats /\ RootLen(b) = b.rootDirSecs
    BY <1>5 DEF RootStart, RootLen
  <2>3. 1 * b.fatSz <= fats
    BY <1>1, <1>3, MulMono
  <2>4. b.fatSz <= fats
    BY <1>1, <2>3
  <2>5. Consistent(b) => FirstDataSec(b) <= b.totSec
    BY DEF Consistent
  <2> HIDE DEF fats
  <2> QED BY <1>1, <1>2, <1>3, <2>1, <2>2, <2>4, <2>5
<1> QED BY <1>4, <1>5

\* A mounted volume whose boot sector is consistent keeps its FAT and its root
\* directory inside the partition, behind the boot sector and apart: whatever
\* partition table, sizes and type of FAT (partk.c, fatfs__loadbootsector).
THEOREM AreasAlwaysInside == Spec => []AreasInside
<1>1. IInv => AreasInside
  <2> SUFFICES ASSUME IInv, up, Consistent(Boot)
               PROVE  /\ FatSecs(Boot) \cup RootSecs(Boot) \subseteq (baseSec + 1) .. (baseSec + totSecs - 1)
                      /\ FatSecs(Boot) \cap RootSecs(Boot) = {}
    BY DEF AreasInside
  <2>1. Boot \in BootType /\ Boot.secPerClus > 0 /\ Boot.totSec <= totSecs
    BY ImageFacts DEF IInv, TypeOK, BootChecked, Boot, Usable
  <2>2. baseSec \in Nat /\ totSecs \in Nat /\ Boot.fatSz \in Nat /\ Boot.totSec \in Nat
    BY <2>1 DEF IInv, TypeOK, BootType
  <2> HIDE DEF Boot
  <2>3. InOrder(Boot) /\ Boot.rsvdSecCnt > 0 /\ Boot.rsvdSecCnt \in Nat
    BY <2>1 DEF Consistent, BootType
  <2>4. /\ FatStart(Boot) \in Nat /\ RootStart(Boot) \in Int /\ RootLen(Boot) \in Nat
        /\ baseSec + Boot.rsvdSecCnt <= FatStart(Boot)
        /\ FatStart(Boot) + Boot.fatSz <= RootStart(Boot)
        /\ RootStart(Boot) + RootLen(Boot) <= baseSec + Boot.totSec
    BY <2>1, <2>2, <2>3, Areas
  <2> QED BY <2>1, <2>2, <2>3, <2>4 DEF FatSecs, RootSecs
<1> QED BY <1>1, InvHolds, PTL

-----------------------------------------------------------------------------
(* The device                                                              *)

\* Every way out of a mount that has failed, and an unmount that has succeeded,
\* closes the device (fatfs_init's returns, fsutils_umount), but for the one of
\* a partition table that cannot be read.
THEOREM DeviceAlwaysFreed == Spec => DeviceFreed
<1> DEFINE Freed == pc # "idle" /\ pc' = "idle" /\ ~up' => bd' = "closed" \/ PartitionFails
<1>1. IInv /\ [Next]_vars => [Freed]_vars
  <2> SUFFICES ASSUME IInv, Next, pc # "idle", pc' = "idle", ~up'
               PROVE  bd' = "closed" \/ PartitionFails
    OBVIOUS
  <2> USE DEF IInv, StoringUp
  <2>1. ASSUME NEW p \in Part, NEW f \in BOOLEAN, Mount(p, f) PROVE FALSE
    BY <2>1 DEF Mount
  <2>2. ASSUME Partition \/ LoadBoot \/ LoadFat \/ LoadRoot PROVE FALSE
    BY <2>2 DEF Partition, LoadBoot, LoadFat, LoadRoot
  <2>3. ASSUME LoadBootFails \/ LoadFatFails \/ LoadRootFails PROVE bd' = "closed"
    BY <2>3 DEF LoadBootFails, LoadFatFails, LoadRootFails, GiveUp
  <2>4. ASSUME NEW s \in Sec, NEW v \in Value, ChangeFat(s, v) \/ ChangeRoot(s, v) PROVE FALSE
    BY <2>4 DEF ChangeFat, ChangeRoot
  <2>5. ASSUME Umount \/ StoreRoot \/ StoreRootNoMore \/ StoreFat \/ StoreFails PROVE FALSE
    BY <2>5 DEF Umount, StoreRoot, StoreRootNoMore, StoreFat, StoreFails, IInv, StoringUp
  <2>6. ASSUME Cleanup PROVE bd' = "closed"
    BY <2>6 DEF Cleanup
  <2>7. ASSUME Crash PROVE bd' = "closed"
    BY <2>7 DEF Crash
  <2> QED BY <2>1, <2>2, <2>3, <2>4, <2>5, <2>6, <2>7 DEF Next
<1> QED BY <1>1, InvHolds, PTL DEF Spec, DeviceFreed

-----------------------------------------------------------------------------
(* What users see is what the disk gets                                    *)

\* The areas do not move while the boot sector in use is the same.
LEMMA SameAreas ==
  ASSUME image' = image, baseSec' = baseSec
  PROVE  FatSecs(Boot)' = FatSecs(Boot) /\ RootSecs(Boot)' = RootSecs(Boot)
<1>1. Boot' = Boot
  BY DEF Boot
<1> QED BY <1>1 DEF FatSecs, RootSecs, FatStart, RootStart, RootLen, FatType, CntDataClus,
                    FirstDataSec

\* The buffers of a mounted volume have no sector in common.
LEMMA BuffersApart ==
  ASSUME ImagesInOrder, SInv, up
  PROVE  DOMAIN fBuf \cap DOMAIN rdBuf = {}
<1>1. baseSec \in Sec /\ image \in Images /\ Usable(Boot, totSecs)
  BY DEF SInv, IInv, BootChecked, TypeOK
<1>2. Boot \in BootType /\ Boot.secPerClus > 0 /\ baseSec \in Nat
  BY <1>1, ImageFacts DEF Boot, Sec
<1>3. InOrder(Boot)
  BY <1>1 DEF ImagesInOrder, Boot, Usable
<1>4. Boot.fatSz \in Nat /\ Boot.rsvdSecCnt \in Nat
  BY <1>2 DEF BootType
<1> HIDE DEF Boot
<1>5. /\ FatStart(Boot) \in Nat /\ RootStart(Boot) \in Int /\ RootLen(Boot) \in Nat
      /\ FatStart(Boot) + Boot.fatSz <= RootStart(Boot)
  BY <1>2, <1>3, Areas
<1>6. FatSecs(Boot) \cap RootSecs(Boot) = {}
  BY <1>4, <1>5 DEF FatSecs, RootSecs
<1> QED BY <1>6 DEF SInv, FatLoaded, RootLoaded

\* What a store, whole or in part, does to a sector.
LEMMA PutFacts ==
  ASSUME disk \in [Sec -> Value], NEW b, DOMAIN b \subseteq Sec, NEW s \in Sec
  PROVE  /\ Put(b) => disk'[s] = IF s \in DOMAIN b THEN b[s] ELSE disk[s]
         /\ PutSome(b) => disk'[s] = disk[s] \/ (s \in DOMAIN b /\ disk'[s] = b[s])
         /\ (Put(b) \/ PutSome(b)) /\ s \notin DOMAIN b => disk'[s] = disk[s]
  BY DEF Put, PutSome

LEMMA InitSInv == Init => SInv
  BY InitInv DEF Init, SInv, FatLoaded, RootLoaded, FatSame, RootSame, FatFresh, StoredFirst

\* Every step keeps the buffers loaded and what is not marked as on the disk.
LEMMA StepSInv == ASSUME ImagesInOrder PROVE SInv /\ [Next]_vars => SInv'
<1> SUFFICES ASSUME SInv, [Next]_vars PROVE SInv'
  OBVIOUS
<1>0. IInv /\ IInv'
  BY StepInv DEF SInv
<1> DEFINE Loaded == FatLoaded' /\ RootLoaded'
           Same == FatSame' /\ RootSame' /\ FatFresh' /\ StoredFirst'
<1>1. ASSUME ~up', pc' \notin {"root", "storefat", "cleanup"} PROVE Loaded /\ Same
  BY <1>1 DEF FatLoaded, RootLoaded, FatSame, RootSame, FatFresh, StoredFirst
<1>2. ASSUME \/ \E p \in Part, f \in BOOLEAN : Mount(p, f)
             \/ Partition \/ PartitionFails \/ LoadBoot
             \/ LoadBootFails \/ LoadFatFails \/ LoadRootFails \/ Crash
      PROVE  Loaded /\ Same
  <2>1. ~up' /\ pc' \notin {"root", "storefat", "cleanup"}
    BY <1>0, <1>2 DEF IInv, TypeOK, Mount, Partition, PartitionFails, LoadBoot, LoadBootFails,
                      LoadFatFails, LoadRootFails, Crash, GiveUp
  <2> QED BY <1>1, <2>1
<1>3. ASSUME LoadFat PROVE Loaded /\ Same
  <2>1. /\ DOMAIN fBuf' = FatSecs(Boot) /\ FatSecs(Boot)' = FatSecs(Boot)
        /\ \A s \in DOMAIN fBuf' : fBuf'[s] = disk'[s]
    BY <1>3, SameAreas DEF LoadFat
  <2>2. ~up' /\ pc' = "root" /\ ~fatUpdated'
    BY <1>0, <1>3 DEF IInv, TypeOK, LoadFat
  <2> QED BY <2>1, <2>2 DEF FatLoaded, RootLoaded, FatSame, RootSame, FatFresh, StoredFirst
<1>4. ASSUME LoadRoot PROVE Loaded /\ Same
  <2>1. /\ DOMAIN rdBuf' = RootSecs(Boot) /\ RootSecs(Boot)' = RootSecs(Boot)
        /\ FatSecs(Boot)' = FatSecs(Boot)
        /\ \A s \in DOMAIN rdBuf' : rdBuf'[s] = disk'[s]
    BY <1>4, SameAreas DEF LoadRoot
  <2>2. /\ pc = "root" /\ pc' = "idle" /\ fBuf' = fBuf /\ disk' = disk
        /\ fatUpdated' = fatUpdated
    BY <1>4 DEF LoadRoot
  <2> QED BY <2>1, <2>2
      DEF SInv, FatLoaded, RootLoaded, FatSame, RootSame, FatFresh, StoredFirst
<1>5. ASSUME NEW s \in Sec, NEW v \in Value, ChangeFat(s, v) PROVE Loaded /\ Same
  <2>1. /\ DOMAIN fBuf' = DOMAIN fBuf /\ rdBuf' = rdBuf /\ disk' = disk
        /\ fatUpdated' /\ RDUpdated' = RDUpdated /\ up /\ pc' = "idle"
        /\ FatSecs(Boot)' = FatSecs(Boot) /\ RootSecs(Boot)' = RootSecs(Boot)
    BY <1>5, SameAreas DEF ChangeFat
  <2> QED BY <2>1
      DEF SInv, FatLoaded, RootLoaded, FatSame, RootSame, FatFresh, StoredFirst
<1>6. ASSUME NEW s \in Sec, NEW v \in Value, ChangeRoot(s, v) PROVE Loaded /\ Same
  <2>1. /\ DOMAIN rdBuf' = DOMAIN rdBuf /\ fBuf' = fBuf /\ disk' = disk
        /\ RDUpdated' /\ fatUpdated' = fatUpdated /\ up /\ pc' = "idle"
        /\ FatSecs(Boot)' = FatSecs(Boot) /\ RootSecs(Boot)' = RootSecs(Boot)
    BY <1>6, SameAreas DEF ChangeRoot
  <2> QED BY <2>1
      DEF SInv, FatLoaded, RootLoaded, FatSame, RootSame, FatFresh, StoredFirst
<1>7. ASSUME Umount \/ Cleanup \/ UNCHANGED vars PROVE Loaded /\ Same
  <2>1. /\ fBuf' = fBuf /\ rdBuf' = rdBuf /\ disk' = disk
        /\ fatUpdated' = fatUpdated /\ RDUpdated' = RDUpdated /\ (up' => up)
        /\ image' = image /\ baseSec' = baseSec
        /\ (pc' = pc /\ up' = up) \/ pc' \in {"idle", "storeroot"}
    BY <1>0, <1>7 DEF IInv, TypeOK, Umount, Cleanup, vars, memory
  <2>2. FatSecs(Boot)' = FatSecs(Boot) /\ RootSecs(Boot)' = RootSecs(Boot)
    BY <2>1, SameAreas
  <2> QED BY <2>1, <2>2
      DEF SInv, FatLoaded, RootLoaded, FatSame, RootSame, FatFresh, StoredFirst
<1>8. ASSUME StoreRoot \/ StoreRootNoMore \/ StoreFat \/ StoreFails PROVE Loaded /\ Same
  <2>1. /\ fBuf' = fBuf /\ rdBuf' = rdBuf /\ up /\ up' = up
        /\ pc' \in {"idle", "storefat", "cleanup"}
        /\ image' = image /\ baseSec' = baseSec
    BY <1>0, <1>8 DEF IInv, StoringUp, StoreRoot, StoreRootNoMore, StoreFat, StoreFails
  <2>2. FatSecs(Boot)' = FatSecs(Boot) /\ RootSecs(Boot)' = RootSecs(Boot)
    BY <2>1, SameAreas
  <2>3. DOMAIN fBuf \cap DOMAIN rdBuf = {}
    BY <2>1, BuffersApart
  <2>4. /\ disk \in [Sec -> Value] /\ DOMAIN fBuf \subseteq Sec /\ DOMAIN rdBuf \subseteq Sec
        /\ fatUpdated \in BOOLEAN /\ RDUpdated \in BOOLEAN
    BY <1>0 DEF IInv, TypeOK
  <2>5. Loaded
    BY <2>1, <2>2 DEF SInv, FatLoaded, RootLoaded
  <2>6. CASE StoreRoot
    <3>1. /\ pc' = "storefat" /\ ~RDUpdated' /\ fatUpdated' = fatUpdated
          /\ IF RDUpdated THEN Put(rdBuf) ELSE disk' = disk
      BY <2>6 DEF StoreRoot
    <3>2. \A s \in DOMAIN rdBuf : rdBuf[s] = disk'[s]
      BY <2>1, <2>4, <3>1, PutFacts DEF SInv, RootSame
    <3>3. \A s \in DOMAIN fBuf : disk'[s] = disk[s]
      BY <2>3, <2>4, <3>1, PutFacts
    <3> QED BY <2>1, <2>5, <3>1, <3>2, <3>3 DEF SInv, FatSame, RootSame, FatFresh, StoredFirst
  <2>7. CASE StoreFat
    <3>1. /\ pc' = "cleanup" /\ ~fatUpdated' /\ RDUpdated' = RDUpdated /\ ~RDUpdated
          /\ IF fatUpdated THEN Put(fBuf) ELSE disk' = disk
      BY <2>7 DEF StoreFat, SInv, StoredFirst
    <3>2. \A s \in DOMAIN fBuf : fBuf[s] = disk'[s]
      BY <2>1, <2>4, <3>1, PutFacts DEF SInv, FatSame
    <3>3. \A s \in DOMAIN rdBuf : disk'[s] = disk[s]
      BY <2>3, <2>4, <3>1, PutFacts
    <3> QED BY <2>1, <2>5, <3>1, <3>2, <3>3 DEF SInv, FatSame, RootSame, FatFresh, StoredFirst
  <2>8. CASE StoreFails
    <3>1. /\ pc' = "idle" /\ fatUpdated' = fatUpdated /\ RDUpdated' = RDUpdated
          /\ (RDUpdated /\ PutSome(rdBuf)) \/ (fatUpdated /\ PutSome(fBuf))
      BY <2>8 DEF StoreFails, StillUpdated
    <3>2. ASSUME RDUpdated, PutSome(rdBuf) PROVE \A s \in DOMAIN fBuf : disk'[s] = disk[s]
      BY <2>3, <2>4, <3>2, PutFacts
    <3>3. ASSUME fatUpdated, PutSome(fBuf) PROVE \A s \in DOMAIN rdBuf : disk'[s] = disk[s]
      BY <2>3, <2>4, <3>3, PutFacts
    <3> QED BY <2>1, <2>5, <3>1, <3>2, <3>3 DEF SInv, FatSame, RootSame, FatFresh, StoredFirst
  <2>9. CASE StoreRootNoMore
    <3>1. pc' = "idle" /\ UNCHANGED <<fatUpdated, RDUpdated>> /\ RDUpdated /\ Put(rdBuf)
      BY <2>9 DEF StoreRootNoMore
    <3>2. \A s \in DOMAIN fBuf : disk'[s] = disk[s]
      BY <2>3, <2>4, <3>1, PutFacts
    <3> QED BY <2>1, <2>5, <3>1, <3>2 DEF SInv, FatSame, RootSame, FatFresh, StoredFirst
  <2> QED BY <1>8, <2>5, <2>6, <2>7, <2>8, <2>9
<1> QED BY <1>0, <1>2, <1>3, <1>4, <1>5, <1>6, <1>7, <1>8 DEF Next, SInv

-----------------------------------------------------------------------------
(* Volume implements MountedDisk                                           *)

\* What the users see, sector by sector.
LEMMA ContentAt ==
  /\ content = [s \in Sec |-> content[s]]
  /\ \A s \in Sec :
       /\ ~up => content[s] = disk[s]
       /\ up /\ s \in DOMAIN rdBuf => content[s] = rdBuf[s]
       /\ up /\ s \notin DOMAIN rdBuf /\ s \in DOMAIN fBuf => content[s] = fBuf[s]
       /\ up /\ s \notin DOMAIN rdBuf /\ s \notin DOMAIN fBuf => content[s] = disk[s]
  BY DEF content

\* While nothing is mounted users would see the disk.
LEMMA Unmounted == ASSUME disk \in [Sec -> Value], ~up PROVE content = disk
  BY DEF content

LEMMA InitRefines == Init => Abs!Init
<1> SUFFICES ASSUME Init PROVE Abs!Init
  OBVIOUS
<1>1. disk \in [Sec -> Value] /\ ~up /\ ~crashed
  BY ConstAssumption DEF Init
<1>2. content = disk
  BY <1>1, Unmounted
<1> QED BY <1>1, <1>2 DEF Init, Abs!Init

\* Each step of Volume is one of MountedDisk, or none.
LEMMA StepRefines ==
  ASSUME ImagesInOrder, SInv, SInv', [Next]_vars
  PROVE  [Abs!Next]_(Abs!vars)
<1>1. /\ disk \in [Sec -> Value] /\ disk' \in [Sec -> Value]
      /\ DOMAIN fBuf \subseteq Sec /\ DOMAIN rdBuf \subseteq Sec
      /\ up \in BOOLEAN /\ up' \in BOOLEAN /\ crashed \in BOOLEAN
  BY DEF SInv, IInv, TypeOK
<1> DEFINE Stutter == content' = content /\ disk' = disk /\ up' = up /\ crashed' = crashed
<1>2. ASSUME disk' = disk, up' = up, crashed' = crashed,
             up => fBuf' = fBuf /\ rdBuf' = rdBuf
      PROVE  Stutter
  BY <1>2 DEF content
<1>3. Stutter => [Abs!Next]_(Abs!vars)
  BY DEF Abs!vars
<1>4. ASSUME \/ \E p \in Part, f \in BOOLEAN : Mount(p, f)
             \/ Partition \/ PartitionFails \/ LoadBoot \/ LoadBootFails
             \/ LoadFat \/ LoadFatFails \/ LoadRootFails
      PROVE  Stutter
  <2>1. disk' = disk /\ up' = up /\ crashed' = crashed /\ ~up
    BY <1>4 DEF SInv, IInv, TypeOK, Mount, Partition, PartitionFails, LoadBoot, LoadBootFails,
                LoadFat, LoadFatFails, LoadRootFails
  <2> QED BY <2>1, <1>2
<1>5. ASSUME LoadRoot PROVE Abs!Mount
  <2>1. /\ disk' = disk /\ fBuf' = fBuf /\ pc = "root" /\ ~up /\ up' = TRUE /\ crashed' = FALSE
        /\ \A s \in DOMAIN rdBuf' : rdBuf'[s] = disk[s]
    BY <1>5 DEF LoadRoot, SInv, IInv, TypeOK
  <2>2. \A s \in DOMAIN fBuf : fBuf[s] = disk[s]
    BY <2>1 DEF SInv, FatSame, FatFresh
  <2>3. content' = [s \in Sec |-> disk[s]]
    BY <2>1, <2>2 DEF content
  <2>4. content = disk
    BY <1>1, <2>1, Unmounted
  <2> QED BY <1>1, <2>1, <2>3, <2>4 DEF Abs!Mount
<1>6. ASSUME NEW s \in Sec, NEW v \in Value, ChangeFat(s, v) PROVE Abs!Change(s, v)
  <2>1. /\ up /\ up' = up /\ disk' = disk /\ crashed' = crashed /\ rdBuf' = rdBuf
        /\ fBuf' = [fBuf EXCEPT ![s] = v] /\ s \in DOMAIN fBuf
    BY <1>6 DEF ChangeFat, SInv, FatLoaded
  <2>2. s \notin DOMAIN rdBuf
    BY <2>1, BuffersApart
  <2>3. content' = [content EXCEPT ![s] = v]
    BY <2>1, <2>2 DEF content
  <2> QED BY <2>1, <2>3 DEF Abs!Change
<1>7. ASSUME NEW s \in Sec, NEW v \in Value, ChangeRoot(s, v) PROVE Abs!Change(s, v)
  <2>1. /\ up /\ up' = up /\ disk' = disk /\ crashed' = crashed /\ fBuf' = fBuf
        /\ rdBuf' = [rdBuf EXCEPT ![s] = v] /\ s \in DOMAIN rdBuf
    BY <1>7 DEF ChangeRoot, SInv, RootLoaded
  <2>2. content' = [content EXCEPT ![s] = v]
    BY <2>1 DEF content
  <2> QED BY <2>1, <2>2 DEF Abs!Change
<1>8. ASSUME Umount \/ UNCHANGED vars PROVE Stutter
  BY <1>2, <1>8 DEF Umount, vars, memory
<1>9. ASSUME up, disk' = disk \/ Put(rdBuf) \/ PutSome(rdBuf) \/ Put(fBuf) \/ PutSome(fBuf)
      PROVE  Abs!SomeStored
  <2>1. DOMAIN fBuf \cap DOMAIN rdBuf = {}
    BY <1>9, BuffersApart
  <2>2. SUFFICES ASSUME NEW s \in Sec PROVE disk'[s] \in {disk[s], content[s]}
    BY DEF Abs!SomeStored
  <2>3. ASSUME Put(rdBuf) \/ PutSome(rdBuf) PROVE disk'[s] \in {disk[s], content[s]}
    BY <1>1, <1>9, <2>3, PutFacts, ContentAt
  <2>4. ASSUME Put(fBuf) \/ PutSome(fBuf) PROVE disk'[s] \in {disk[s], content[s]}
    BY <1>1, <1>9, <2>1, <2>4, PutFacts, ContentAt
  <2> QED BY <1>9, <2>3, <2>4
<1>10. ASSUME StoreRoot \/ StoreRootNoMore \/ StoreFat \/ StoreFails PROVE Abs!Flush
  <2>1. /\ up /\ up' = up /\ crashed' = crashed /\ fBuf' = fBuf /\ rdBuf' = rdBuf
        /\ disk' = disk \/ Put(rdBuf) \/ PutSome(rdBuf) \/ Put(fBuf) \/ PutSome(fBuf)
    BY <1>10 DEF StoreRoot, StoreRootNoMore, StoreFat, StoreFails, SInv, IInv, StoringUp
  <2>2. Abs!SomeStored
    BY <1>9, <2>1
  <2>3. \A s \in Sec : s \notin DOMAIN rdBuf /\ s \notin DOMAIN fBuf => disk'[s] = disk[s]
    BY <1>1, <2>1, PutFacts
  <2>4. content' = content
    BY <2>1, <2>3 DEF content
  <2> QED BY <2>1, <2>2, <2>4 DEF Abs!Flush
<1>11. ASSUME Cleanup PROVE Stutter \/ Abs!Unmount
  <2>1. /\ up /\ disk' = disk /\ crashed' = crashed /\ fBuf' = fBuf /\ rdBuf' = rdBuf
        /\ ~fatUpdated /\ ~RDUpdated /\ (up' = up \/ ~up')
    BY <1>11 DEF Cleanup, memory, SInv, IInv, StoringUp, StoredFirst
  <2>2. CASE up' = up
    BY <1>2, <2>1, <2>2
  <2>3. CASE ~up'
    <3>1. content = [s \in Sec |-> disk[s]]
      BY <2>1 DEF content, SInv, FatSame, RootSame
    <3>2. content' = [s \in Sec |-> disk[s]]
      BY <2>1, <2>3 DEF content
    <3> QED BY <1>1, <2>1, <2>3, <3>1, <3>2 DEF Abs!Unmount
  <2> QED BY <2>1, <2>2, <2>3
<1>12. ASSUME Crash PROVE Stutter \/ Abs!Crash
  <2>1. /\ ~up' /\ crashed' = (crashed \/ up)
        /\ disk' = disk \/ (up /\ (PutSome(rdBuf) \/ PutSome(fBuf)))
    BY <1>12 DEF Crash, SInv, IInv, StoringUp
  <2>2. content' = disk'
    BY <1>1, <2>1 DEF content
  <2>3. CASE up
    <3>1. Abs!SomeStored
      BY <1>9, <2>1, <2>3
    <3>2. crashed' = TRUE
      BY <2>1, <2>3
    <3>3. up' = FALSE
      BY <1>1, <2>1
    <3> QED BY <2>2, <2>3, <3>1, <3>2, <3>3 DEF Abs!Crash
  <2>4. CASE ~up
    <3>1. content = disk
      BY <1>1, <2>4, Unmounted
    <3>2. crashed' = crashed
      BY <1>1, <2>1, <2>4
    <3>3. up' = up
      BY <1>1, <2>1, <2>4
    <3> QED BY <2>1, <2>2, <2>4, <3>1, <3>2, <3>3
  <2> QED BY <2>3, <2>4
<1> QED BY <1>3, <1>4, <1>5, <1>6, <1>7, <1>8, <1>10, <1>11, <1>12 DEF Next, Abs!Next

\* Mounting and unmounting keep MountedDisk's promise on every disk whose boot
\* sectors have their root directories behind their FATs: after an unmount that
\* has succeeded the disk holds what the users saw, whatever failed before, and
\* a crash leaves of each sector the old or the new value.
THEOREM VolumeImplements == ASSUME ImagesInOrder PROVE Spec => Implements
<1>1. SInv /\ [Next]_vars => SInv'
  BY StepSInv
<1>2. SInv /\ SInv' /\ [Next]_vars => [Abs!Next]_(Abs!vars)
  BY StepRefines
<1> QED BY <1>1, <1>2, InitSInv, InitRefines, PTL DEF Spec, Implements, Abs!Spec
=============================================================================
