------------------------------- MODULE Volume -------------------------------
(***************************************************************************)
(* Mounting and unmounting: fsutils_mount and fsutils_umount, partk_get,   *)
(* fatfs_init with the boot sector, the first part of the FAT and the root *)
(* directory, and fatfs_cleanup, on a block device whose transfers may     *)
(* fail, and with crashes between any two transfers.                       *)
(*                                                                         *)
(* The FAT is short enough to be in the buffer as a whole (FatWindow is    *)
(* about those that are not), a FAT32 root directory is one cluster.       *)
(***************************************************************************)
EXTENDS Integers

CONSTANTS
  NumSecs,     \* bd->totSecs
  UInt32,      \* 2^32
  Fat12Limit,  \* 4085
  Fat16Limit,  \* 65525
  MaxRootSecs, \* FATROOTDIR_MAXSIZE in sectors
  Value,       \* contents of a sector of a FAT or a root directory
  Disks,       \* FATs and root directories disks start with
  Images,      \* what they hold otherwise
  MaxMounts,   \* bound: mounts
  MaxFaults    \* bound: block device failures

Sec == 0 .. NumSecs - 1
Part == 1 .. 4

\* What the code reads in a boot sector: the marks at its ends, the parameters,
\* and, of the FAT it describes, entries 0 and 1 with their flag bits.
BootType == [mark : BOOLEAN, jump : BOOLEAN, secPerClus : Nat, rsvdSecCnt : Nat,
             numFats : Nat, rootDirSecs : Nat, fatSz : Nat, totSec : Nat,
             active : Nat, rootClus : Nat, clean : BOOLEAN, noHardErr : BOOLEAN,
             entry0 : BOOLEAN]
\* parts: fLSec and nLSec of the partition table, as read from sector 0.
ImageType == [boot : [Sec -> BootType], first : [Part -> Nat], num : [Part -> Nat]]

ASSUME ConstAssumption ==
  /\ NumSecs \in Nat \ {0} /\ UInt32 \in Nat \ {0} /\ MaxRootSecs \in Nat
  /\ Fat12Limit \in Nat /\ Fat16Limit \in Nat /\ MaxMounts \in Nat /\ MaxFaults \in Nat
  /\ Disks \subseteq [Sec -> Value]
  /\ \A m \in Images : m \in ImageType /\ \A s \in Sec : m.boot[s].secPerClus > 0

VARIABLES
  image,    \* what the disk holds besides FATs and root directories; never written
  disk,     \* FATs and root directories
  bd,       \* the device: "closed" or "open"
  pc,       \* where the current call is
  partNo,   \* argument of the mount
  force,    \* argument of the mount: forceMbr
  baseSec,  \* fat->baseSec
  totSecs,  \* fat->totSecs
  fBuf,     \* fat->FBuf
  rdBuf,    \* fat->RDBuf
  fatUpdated, RDUpdated,
  up,       \* the mount has succeeded
  crashed,  \* history: the last successful mount has ended in a crash
  mounts, faults

vars == <<image, disk, bd, pc, partNo, force, baseSec, totSecs, fBuf, rdBuf,
          fatUpdated, RDUpdated, up, crashed, mounts, faults>>

-----------------------------------------------------------------------------
(* The boot sector                                                         *)

Nothing == [s \in {} |-> 0]
Boot == image.boot[baseSec]

\* bs.firstDataSec, bs.dataSec, cntDataClus; dataSec is unsigned.
FirstDataSec(b) == b.rsvdSecCnt + b.numFats * b.fatSz + b.rootDirSecs
CntDataClus(b) == ((b.totSec - FirstDataSec(b)) % UInt32) \div b.secPerClus
FatType(b) ==
  IF b.rootDirSecs = 0 THEN 32
  ELSE IF CntDataClus(b) < Fat12Limit THEN 12
  ELSE IF CntDataClus(b) < Fat16Limit THEN 16 ELSE 32

\* The sectors of the FAT in use, and of the root directory: behind the FATs, or
\* (FAT32) in a cluster.
FatStart(b) == baseSec + b.rsvdSecCnt + (IF FatType(b) = 32 THEN b.active ELSE 0) * b.fatSz
FatSecs(b) == FatStart(b) .. (FatStart(b) + b.fatSz - 1)
RootStart(b) ==
  IF FatType(b) = 32 THEN baseSec + FirstDataSec(b) + (b.rootClus - 2) * b.secPerClus
  ELSE baseSec + b.rsvdSecCnt + b.numFats * b.fatSz
RootLen(b) == IF FatType(b) = 32 THEN b.secPerClus ELSE b.rootDirSecs
RootSecs(b) == RootStart(b) .. (RootStart(b) + RootLen(b) - 1)

-----------------------------------------------------------------------------
Init ==
  /\ image \in Images /\ disk \in Disks
  /\ bd = "closed" /\ pc = "idle" /\ partNo = 1 /\ force = FALSE
  /\ baseSec = 0 /\ totSecs = 0 /\ fBuf = Nothing /\ rdBuf = Nothing
  /\ fatUpdated = FALSE /\ RDUpdated = FALSE /\ up = FALSE /\ crashed = FALSE  \* struct TFat is static
  /\ mounts = 0 /\ faults = 0

memory == <<baseSec, totSecs, fBuf, rdBuf, fatUpdated, RDUpdated>>
Fault == faults < MaxFaults /\ faults' = faults + 1

(* fsutils_mount                                                           *)

Mount(p, f) ==
  /\ pc = "idle" /\ ~up /\ mounts < MaxMounts /\ mounts' = mounts + 1
  /\ partNo' = p /\ force' = f
  /\ \/ bd' = "open" /\ pc' = "partk" /\ UNCHANGED faults
     \/ Fault /\ UNCHANGED <<bd, pc>>
  /\ UNCHANGED <<image, disk, memory, up, crashed>>

\* partk_get: without a partition table the volume is the whole disk.
NoMbr == ~force /\ (~image.boot[0].mark \/ image.boot[0].jump)
Partition ==
  /\ pc = "partk" /\ pc' = "boot"
  /\ IF NoMbr THEN baseSec' = 0 /\ totSecs' = NumSecs
     ELSE baseSec' = image.first[partNo] /\ totSecs' = image.num[partNo]
  /\ UNCHANGED <<image, disk, bd, partNo, force, fBuf, rdBuf, fatUpdated, RDUpdated,
                 up, crashed, mounts, faults>>
\* Sector 0 cannot be read: the device stays open.
PartitionFails ==
  /\ pc = "partk" /\ pc' = "idle" /\ Fault
  /\ UNCHANGED <<image, disk, bd, partNo, force, memory, up, crashed, mounts>>

\* fatfs_init has failed.
LeaveOpen == pc' = "idle" /\ UNCHANGED bd          \* mutant: without bd->cleanup
GiveUp == pc' = "idle" /\ bd' = "closed"

\* fatfs_loadbootsector and the checks behind it.  (A boot sector that the disk
\* does not have cannot be read.)
NoLimit(b, tot) == b.mark /\ b.jump /\ FatType(b) # 12       \* mutant: totSecs is not looked at
Usable(b, tot) == b.mark /\ b.jump /\ FatType(b) # 12 /\ b.totSec <= tot
LoadBoot ==
  /\ pc = "boot" /\ baseSec \in Sec /\ Usable(Boot, totSecs)
  /\ pc' = "fat"
  /\ UNCHANGED <<image, disk, bd, partNo, force, memory, up, crashed, mounts, faults>>
LoadBootFails ==
  /\ pc = "boot" /\ GiveUp
  /\ \/ ~(baseSec \in Sec /\ Usable(Boot, totSecs)) /\ UNCHANGED faults
     \/ Fault
  /\ UNCHANGED <<image, disk, partNo, force, memory, up, crashed, mounts>>

\* fatfs_loadfat, with fatUpdated reset before.  Entries 0 and 1 are looked at
\* (fatfs_checkfatbeginok) when the FAT is there.
LoadFat ==
  /\ pc = "fat" /\ FatSecs(Boot) \subseteq Sec
  /\ Boot.clean /\ Boot.noHardErr /\ Boot.entry0
  /\ fBuf' = [s \in FatSecs(Boot) |-> disk[s]] /\ fatUpdated' = FALSE /\ pc' = "root"
  /\ UNCHANGED <<image, disk, bd, partNo, force, baseSec, totSecs, rdBuf, RDUpdated,
                 up, crashed, mounts, faults>>
LoadFatFails ==
  /\ pc = "fat" /\ GiveUp /\ fatUpdated' = FALSE
  /\ \/ /\ ~(FatSecs(Boot) \subseteq Sec /\ Boot.clean /\ Boot.noHardErr /\ Boot.entry0)
        /\ UNCHANGED faults
     \/ Fault
  /\ UNCHANGED <<image, disk, partNo, force, baseSec, totSecs, fBuf, rdBuf, RDUpdated, up, crashed, mounts>>

\* fatfs16_loadrootdir, fatfs32_loadrootdir: the root has to fit into its buffer.
LoadRoot ==
  /\ pc = "root" /\ RootSecs(Boot) \subseteq Sec /\ RootLen(Boot) <= MaxRootSecs
  /\ rdBuf' = [s \in RootSecs(Boot) |-> disk[s]] /\ RDUpdated' = FALSE
  /\ up' = TRUE /\ pc' = "idle" /\ crashed' = FALSE
  /\ UNCHANGED <<image, disk, bd, partNo, force, baseSec, totSecs, fBuf, fatUpdated, mounts, faults>>
LoadRootFails ==
  /\ pc = "root" /\ GiveUp
  /\ \/ ~(RootSecs(Boot) \subseteq Sec /\ RootLen(Boot) <= MaxRootSecs) /\ UNCHANGED faults
     \/ Fault
  /\ UNCHANGED <<image, disk, partNo, force, memory, up, crashed, mounts>>

-----------------------------------------------------------------------------
(* What the rest of the library does to the buffers                        *)

ChangeFat(s, v) ==
  /\ pc = "idle" /\ up /\ s \in FatSecs(Boot)
  /\ fBuf' = [fBuf EXCEPT ![s] = v] /\ fatUpdated' = TRUE
  /\ UNCHANGED <<image, disk, bd, pc, partNo, force, baseSec, totSecs, rdBuf, RDUpdated,
                 up, crashed, mounts, faults>>
ChangeRoot(s, v) ==
  /\ pc = "idle" /\ up /\ s \in RootSecs(Boot)
  /\ rdBuf' = [rdBuf EXCEPT ![s] = v] /\ RDUpdated' = TRUE
  /\ UNCHANGED <<image, disk, bd, pc, partNo, force, baseSec, totSecs, fBuf, fatUpdated,
                 up, crashed, mounts, faults>>

-----------------------------------------------------------------------------
(* fsutils_umount: the root directory, the FAT, the device                 *)

Umount ==
  /\ pc = "idle" /\ up /\ pc' = "storeroot"
  /\ UNCHANGED <<image, disk, bd, partNo, force, memory, up, crashed, mounts, faults>>

Put(b) == disk' = [s \in Sec |-> IF s \in DOMAIN b THEN b[s] ELSE disk[s]]
\* A transfer that fails has written some of its first sectors.
PutSome(b) ==
  \E n \in Sec : disk' = [s \in Sec |-> IF s \in DOMAIN b /\ s < n THEN b[s] ELSE disk[s]]

\* fatfs_storerootdir and fatfs_storefat.
StoreRoot ==
  /\ pc = "storeroot" /\ pc' = "storefat" /\ RDUpdated' = FALSE
  /\ IF RDUpdated THEN Put(rdBuf) ELSE UNCHANGED disk
  /\ UNCHANGED <<image, bd, partNo, force, baseSec, totSecs, fBuf, rdBuf, fatUpdated,
                 up, crashed, mounts, faults>>
StoreFat ==
  /\ pc = "storefat" /\ pc' = "cleanup" /\ fatUpdated' = FALSE
  /\ IF fatUpdated THEN Put(fBuf) ELSE UNCHANGED disk
  /\ UNCHANGED <<image, bd, partNo, force, baseSec, totSecs, fBuf, rdBuf, RDUpdated,
                 up, crashed, mounts, faults>>
\* The unmount returns at the first failure; it can be asked for again.
AllCleared == fatUpdated' = FALSE /\ RDUpdated' = FALSE   \* mutant: reset before the transfer
StillUpdated == UNCHANGED <<fatUpdated, RDUpdated>>
StoreFails ==
  /\ \/ pc = "storeroot" /\ RDUpdated /\ PutSome(rdBuf)
     \/ pc = "storefat" /\ fatUpdated /\ PutSome(fBuf)
  /\ pc' = "idle" /\ Fault /\ StillUpdated
  /\ UNCHANGED <<image, bd, partNo, force, baseSec, totSecs, fBuf, rdBuf, up, crashed, mounts>>
\* The root directory of FAT32 is stored like a file: at the end of its chain the
\* store asks for free clusters, none, and reports that there are no more on a
\* full disk.  All is written, and the unmount fails until something is deleted.
StoreRootNoMore ==
  /\ pc = "storeroot" /\ RDUpdated /\ FatType(Boot) = 32
  /\ Put(rdBuf) /\ pc' = "idle"
  /\ UNCHANGED <<image, bd, partNo, force, baseSec, totSecs, fBuf, rdBuf, fatUpdated, RDUpdated,
                 up, crashed, mounts, faults>>

\* bd->cleanup
CloseAnyway ==      \* mutant: a failed cleanup leaves the device closed
  /\ pc = "cleanup" /\ pc' = "idle" /\ bd' = "closed"
  /\ \/ up' = FALSE /\ UNCHANGED faults
     \/ Fault /\ UNCHANGED up
  /\ UNCHANGED <<image, disk, partNo, force, memory, crashed, mounts>>
Cleanup ==
  /\ pc = "cleanup" /\ pc' = "idle"
  /\ \/ bd' = "closed" /\ up' = FALSE /\ UNCHANGED faults
     \/ Fault /\ UNCHANGED <<bd, up>>
  /\ UNCHANGED <<image, disk, partNo, force, memory, crashed, mounts>>

-----------------------------------------------------------------------------
\* The program ends at any point; a transfer under way has done some of its work.
Crash ==
  /\ \/ pc = "storeroot" /\ RDUpdated /\ PutSome(rdBuf)
     \/ pc = "storefat" /\ fatUpdated /\ PutSome(fBuf)
     \/ UNCHANGED disk
  /\ bd' = "closed" /\ pc' = "idle" /\ up' = FALSE /\ crashed' = (crashed \/ up)
  /\ partNo' = 1 /\ force' = FALSE
  /\ baseSec' = 0 /\ totSecs' = 0 /\ fBuf' = Nothing /\ rdBuf' = Nothing
  /\ fatUpdated' = FALSE /\ RDUpdated' = FALSE
  /\ UNCHANGED <<image, mounts, faults>>

Next ==
  \/ \E p \in Part, f \in BOOLEAN : Mount(p, f)
  \/ Partition \/ PartitionFails \/ LoadBoot \/ LoadBootFails \/ LoadFat \/ LoadFatFails
  \/ LoadRoot \/ LoadRootFails
  \/ \E s \in Sec, v \in Value : ChangeFat(s, v)
  \/ \E s \in Sec, v \in Value : ChangeRoot(s, v)
  \/ Umount \/ StoreRoot \/ StoreRootNoMore \/ StoreFat \/ StoreFails \/ Cleanup
  \/ Crash

\* The program may stop at any time.
Spec == Init /\ [][Next]_vars

-----------------------------------------------------------------------------
(* Properties                                                              *)

\* A mounted volume is on an open device, and no mount is under way then.
TypeOK ==
  /\ image \in Images /\ disk \in [Sec -> Value] /\ bd \in {"closed", "open"}
  /\ pc \in {"idle", "partk", "boot", "fat", "root", "storeroot", "storefat", "cleanup"}
  /\ partNo \in Part /\ force \in BOOLEAN /\ baseSec \in Nat /\ totSecs \in Nat
  /\ fBuf \in [DOMAIN fBuf -> Value] /\ DOMAIN fBuf \subseteq Sec
  /\ rdBuf \in [DOMAIN rdBuf -> Value] /\ DOMAIN rdBuf \subseteq Sec
  /\ fatUpdated \in BOOLEAN /\ RDUpdated \in BOOLEAN
  /\ up \in BOOLEAN /\ crashed \in BOOLEAN
  /\ mounts \in 0 .. MaxMounts /\ faults \in 0 .. MaxFaults
  /\ up => bd = "open" /\ pc \notin {"partk", "boot", "fat", "root"}

\* A volume is used only inside its partition: the FAT in use and the root
\* directory lie there, apart from each other and from the boot sector, provided
\* that the boot sector has a FAT and its areas fit into the size it states (the
\* code does not check that: dataSec wraps around).
InOrder(b) == b.numFats > 0 /\ (FatType(b) = 32 => b.active < b.numFats /\ b.rootClus >= 2)
Consistent(b) ==
  /\ InOrder(b) /\ b.rsvdSecCnt > 0 /\ FirstDataSec(b) <= b.totSec
  /\ FatType(b) = 32 => b.rootClus <= CntDataClus(b) + 1
AreasInside ==
  up /\ Consistent(Boot) =>
    /\ FatSecs(Boot) \cup RootSecs(Boot) \subseteq (baseSec + 1) .. (baseSec + totSecs - 1)
    /\ FatSecs(Boot) \cap RootSecs(Boot) = {}

\* A mount that fails leaves the device closed, unless it is sector 0 that could
\* not be read.
DeviceFreed ==
  [][pc # "idle" /\ pc' = "idle" /\ ~up' => bd' = "closed" \/ PartitionFails]_vars

\* Mounting and unmounting implement MountedDisk: the users' changes are on the
\* disk once the unmount has succeeded, at the first attempt or later, nothing
\* else of the disk has changed, and a crash leaves the old or the new value.
content ==
  [s \in Sec |-> IF ~up THEN disk[s] ELSE IF s \in DOMAIN rdBuf THEN rdBuf[s]
                 ELSE IF s \in DOMAIN fBuf THEN fBuf[s] ELSE disk[s]]
Abs == INSTANCE MountedDisk WITH Sector <- Sec, durable <- disk, mounted <- up
Implements == Abs!Spec

\* It does so on disks where, in every boot sector, the root directory is behind
\* the FATs; the code does not check the number of the FAT in use.
ImagesInOrder ==
  \A m \in Images, s \in Sec : m.boot[s].mark /\ m.boot[s].jump => InOrder(m.boot[s])
=============================================================================
