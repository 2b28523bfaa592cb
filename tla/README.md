# Verification of the FAT file system library

TLA+ models of `fatfs.c` and what surrounds it, TLC configurations that check
them on small instances, and proofs checked by TLAPS.

## The system

The library is sequential C code for boot loaders and small systems: one user
context calls it, nothing runs concurrently, and every call runs to its end.
What makes it hard is failure (each block transfer can fail, power can go),
caches (a window of the FAT, a list of free runs, a counter, two directory
buffers, a read cursor), and state that callers carry from call to call.

| Component | State it keeps | Operations | Interacts with | Correct when |
|---|---|---|---|---|
| FAT window (`fatfs_loadfat`, `fatfs_storefat`, `fatfs*_getfatentry`, `fatfs*_setfatentry`) | buffer, bounds, place on the disk, changed flag, access pattern | read or set an entry, move the window, store it | block device; called by everything that follows or changes a chain | a reader finds what was last set; nothing behind the FAT is overwritten |
| Allocation, writing, deletion (`fatfs__storefileclus_usefileinfo`, `fatfs_getopti_freecluslist`, `fatfs__freefilefatentries_usefileinfo`) | cached list of free runs, where its scan goes on, minimum run length; per file: first cluster, size; per caller: `fromClus`, `lastClusWriten` | rewrite, extend, delete | FAT entries, block device, counter | no cluster in two chains, no chain into free clusters, no lost cluster, data in order |
| Counter of free clusters | value and flag (UNKNOWN, GUESSED, KNOWN) | add, subtract, guess, count | allocation, deletion | never promises more than there is |
| Read cursor (`fatuc_fseek`, `fatuc_fread`) | `fPos`, `fromClus`, `offInFromClus` | seek, read, open, close | FAT entries, block device | delivers the bytes of the file from the position on |
| User context (`fatuc_*`) | current and temporary directory buffers, open files and the directory each is in | chdir, open, create, mkdir, close, delete, move | allocation (saving a directory), read path, root directory buffer | no directory entry lost; entry and chain agree; an open file finds its directory again |
| Mount and unmount (`fatfs_init`, `fatfs_cleanup`, `fsutils.c`, `partk.c`) | boot sector, place of the partition, FAT and root directory buffers and their changed flags | mount, unmount | block device; all of the above | everything changed reaches the disk, and nothing beside the partition; a failed mount leaves nothing open |
| Block drivers (`bdhdd.c`, `bdh8b16.c`) | address and status registers, multiple mode, single sector functions | init, get, put, reset, cleanup | two drives on one set of registers | the right sectors of the right drive, all of them; no call hangs; no failure outlives its call |
| Block device on a file (`bdfile.c`) | file offset | init, get, put, reset, cleanup | the operating system's read, write, lseek | the same |
| Board support, porting layer, test programs | - | - | - | see "Not modelled" |

`PROJECT.json` lists the hazards of the code line by line, with the properties
that watch each of them.

## Modules

### FatWindow and FatTable

`FatWindow` is the default build's partly mapped FAT. Entries of the FAT and
positions on the disk are counted from the first entry of the FAT copy in use;
sectors are groups of `EntriesPerSec` entries, so the model covers FAT16 and
FAT32. `start`, `end`, `partStart`, `updated` are `curFatStartEntry`,
`curFatEndEntry`, `curFatPartStartSecAbs` and `fatUpdated`. `GetMapped` and
`GetLoading` are one call of `getfatentry` with the entry inside and outside
the window, `SetMapped` and `SetLoading` one of `setfatentry`; `MoveFails` is
either with a transfer that fails, at any sector of the store or the load.
An entry beyond `maxFatEntry` is refused (fatfs.c:684, 730) before anything is
done; that call is no step of the model.
`StoreFat` is the store at the unmount; `Mount` follows an unmount or a crash;
`OthersWrite` is a write of the volume behind the FAT, where the window's read
overlaps it.

`FatTable` is what the callers may rely on: a table of entries, each of which
reaches the disk on its own at some time after it was set. `FatWindow`
implements it under a refinement mapping (`Abs`): the table is the buffer where
the window is, and the disk elsewhere.

After a failed move the bounds describe a window that is not in the buffer
(fatfs.c:316-328 sets them first). Nothing is promised then (`ok = FALSE`)
until the volume is mounted again.

### FatWrite

The FAT, the free list, the counter and the write path on top of the table.
Sizes are counted in clusters. One action is one pass of a loop of the code, so
that any FAT access or transfer can fail between two of them. `pc` names the
loop: `walk` follows the chain and fills `lst` (`cl[]`), `writeOld` writes the
runs found, `take` and `hand` are `fatfs_getopti_freecluslist` (a rescan, and
runs moved from the cache to `lst`), `writeNew` writes and links new runs,
`free` frees a chain entry by entry.

`cache` is the unused part of `fat->freeCl`. It is a set of clusters, not a
list: its runs are in ascending order and maximal, because the scan ends a run
only at a cluster in use, so the set determines the list. `Kept` is the effect
of the scan's loop: a short run is overwritten by the next one, except the
last, and a full list stops the scan (`Resume`).

`from`, `last` and the history variable `wrote` are the caller's cursor.
Callers of the code give a write up after an error (`testfatuc.c:98-102`,
`fatuc__savedirbuf`, `fatuc_mkdir`), so `Fail` forgets the cursor.

History variables: `owner` (whose data is in a cluster), `torn` (a failure cut
the linking or the freeing of a chain short; one that comes before the first
entry is set, `LinkFails`, leaves data in free clusters and nothing else) and `straddled` (one request was
served from two scans, the second of which went over clusters already given).
Most properties are stated for `Orderly` histories, those with neither. Both
exclusions are real behaviours of the code: the first is what it leaves after
a failure, the second is the defect that `fat_write_overwrite` shows.

What the code cannot do, and the model therefore has no action for: the
`bAllWriten` branch of the allocation phase (a hand-out never exceeds what was
asked for); `fatfs__getlastclus_usefileinfo` over a chain (it is only called
for an empty file); a failing `setfatentry` right after the `getfatentry` of
the same entry (the window is there). A file FAT access that fails is taken to
leave the table alone, which `FatWindow` promises only until `ok` is FALSE:
composing the two is left to a later module.

### FileRead

One open file with its chain and cursor. A byte is a cluster and an offset, so
that a property can say which bytes a read delivers. `FreadFull`, `FreadRest`,
`FreadUnknown`, `FreadFails`, `BufferTooSmall` and `AtEof` are the ways
`fatuc_fread` returns; `Seek` has the four ways of `fatuc__fposChangedUpdate`.
The chain is followed in lists of `ListSize` (reads) or `SeekListSize` (seeks)
runs, as far as that matters to `*fromClus`.

The history variable `astray` records which part of the cursor an event has
left behind the position: the offset after a read that began inside a cluster
and ended on a boundary (fatfs.c:2162), the cluster after a read up to an
unaligned end of file, a failed read or a failed seek. It is cleared by what
sets that part again. `CursorFollows` says that these events are the only ones.
Seeks before the beginning of the file are left out: what they do depends on
the width of `long`.

### DirBufs

The user context: `rd` and `rdUpdated` are the root directory buffer, `buf` the
two buffers of the context, `cur` and `temp` say which buffer (or the root's)
the current and the temporary directory are in and by which first cluster they
are known. `temp.full` is `tempDirBufLen # 0`. `files` is `uc->files[]`: name,
attribute, first cluster, size, the places of the entry and of the first part of
its long name, the flags of what is to be saved, and the first cluster of the
directory. A directory is its `.` and `..` and a sequence of entries; the END
and FREE marks and the parts of a long name are entries of their own, because
the code's search, its allocation of entries and its removal go over them.

| Actions | Code |
|---|---|
| `Chdir`, `LookUp`, `WalkToRoot`, `WalkInto`, `WalkStop`, `WalkEnd` | `fatuc_chdir`, `fatuc__changedir`: one name of the path a step, the directories read into the temporary buffer one over the other |
| `Open`, `Claim`, `Find`, `FindNone`, `Create`, `Getfileinfo`, `FindInfo` | `fatuc_fopen`, `fatuc_getfileinfo` |
| `Mkdir`, `MkdirExists`, `MkdirClear`, `MkdirDots` | `fatuc_mkdir`: the cluster, its `.` and `..`, the close |
| `Delete`, `Remove`, `RemoveNowhere` | `fatuc_deletefile`, `fatuc__remove_dentry` |
| `WriteFile`, `WriteNothing` | a write to an open file, and one that gets no cluster for an empty file |
| `Move`, `MoveDest`, `MoveTooLong`, `MoveClash`, `MoveFill` | `fatuc_move_dentry`: the source's entry removed, the destination opened (again with the next `~n` when the name is taken), its entry filled; a buffer or a path of a wrong length is only found out after the removal |
| `UserClose`, `CloseUnchanged`, `CloseChanged`, `CloseLost`, `CallEnds` | `fatuc_fclose`, `fatuc__syncfileinfo`, also on behalf of the other calls |

What a save of a buffer does (`SaveOk`, `SaveFails`) is the write of one chain:
for the root's own buffer only a flag is set. A chain is a value here;
`FatWrite` models how it comes about.

The callers open a file once at a time, write to and delete files only, and ask
for nothing more once something has happened that the code does not put right.
`Spoils` lists these: a save or a deletion that failed, a change that was lost
because its directory had left the buffers, a directory that got no cluster, a
move that failed after its source was gone, a move of an empty file or to the
current directory by its path, and the `..` of a directory that has been moved
(a ToDo of the Changelog). Each is a behaviour of the code, and an entry of the
hazards. `held` is a history variable: the buffer an open file's entry is in,
unless a later call has taken the buffer away.

Volumes are assumed to be tidy (`Tidy`): the parts of a long name stand together
right before their entry, and nothing stands behind the end of a directory. The
code keeps them so. On others it goes wrong: the search skips free entries
without forgetting the parts it has collected (fatfs.c:577), so that parts left
without their entry are taken for those of the next one, with the free entries
in between. A file made there while the later one is open is freed with it. TLC
shows it, as a violation of `HeldFound`, when the assumption is dropped. They are
also assumed to be sound (`Sound`): no chain has two entries, no directory two
entries of a name, and every subdirectory knows itself and its parent. The code
checks nothing of the kind when it mounts; what is claimed is that it keeps a
sound volume sound. `Volumes` of the instance satisfies both assumptions, which
TLC evaluates on every run of `MCDirBufs`.

### Volume and MountedDisk

`Volume` is the mount from the partition table on, and the unmount. `image` is
what the disk holds apart from FATs and root directories: boot sectors with the
parameters the code reads, and a partition table. `Mount`, `Partition`,
`LoadBoot`, `LoadFat` and `LoadRoot` are the steps of `fsutils_mount`,
`partk_get` and `fatfs_init`, each with its failures (`...Fails`); `GiveUp` is
the cleanup of the device on the way out, `PartitionFails` the one return
without it (fsutils.c:19). `ChangeFat` and `ChangeRoot` are what everything else
does to the buffers, with the marks; `DirBufs` keeps a change of the root
directory and the save that marks it (`fatuc__savedirbuf`) apart. `StoreRoot`, `StoreFat`, `StoreFails` and `Cleanup` are
`fsutils_umount`: a transfer that fails has written some of its sectors, the
flags stay, and the unmount can be asked for again. `StoreRootNoMore` is the
store of a FAT32 root directory on a full disk: it writes the whole chain, asks
for free clusters behind its end (fatfs.c:1489) and fails, each time until
something is deleted. That root directory is one cluster at the place the boot
sector names; how a chain is stored is `FatWrite`. `Crash` ends the program at
any point, in the middle of a transfer too.

`MountedDisk` is what users of a volume may rely on: a content, changes that
reach the disk at any time and have all reached it after an unmount, and a crash
that loses some of them. `Volume` implements it; `content` of the abstract
module is the buffers over the disk. The FAT is short enough here to be in the
buffer as a whole, `FatWindow` is about those that are not. Both places of the
window's contract that others rely on (store at the unmount, load at the mount)
are actions there.

The flag in entry 1 of the FAT that says the volume was unmounted properly is
looked at by the mount; nothing in the code ever writes it, so a crash is not
noticed by the next mount.

### BlockDev

The devices behind `bdk.h`, chosen by `kind`: `bdhdd.c`, `bdh8b16.c`, and
`bdfile.c` with offsets of 32 and of 64 bits. `ata` is the registers two drives
share with what each of them is doing (`ata.st`; the status register shows the
drive that is selected), `media` the sectors, `bd` the `bdkT` of each device,
`at` the locals of the call under way (`sec`, `count`, `iCurSecs`, `iSec`,
`iErrRep`, and what is left of `iLoops`). A block is what is moved between two looks at
the status. `Ready`, `ReadyByReset`, `StillNotOk`, `SuddenlyBusy` are
`readyforcmd`: DRQ and ERR are tested of the drive that was selected before, and
of the drive of the call only BSY and DRDY (`Proceed`); `Send` is the registers and the command; `RepOnError` and
`StatusBad` the checks that follow, with the retries of `bdh8b16_get`;
`GetBlock` and `PutBlock` the loops over sectors and commands (`Advance`);
`Identified` and `MultipleSet` the rest of an init; `Seek`, `ReadSome`,
`ReadNothing`, `WriteSome` and `MoveFails` `bdfile.c`.

The drives are the environment. A drive at work comes with its next block, or
shows an error, stays busy until it is reset, or is done without data
(docs/Changelog:565-570 is about one that does); it may store only the first
sectors of the block it has taken, or none (a sector is written whole or not at
all, which is an assumption about drives); one or both may not come back from a
reset, whose result `readyforcmd` does not look at; a reset may end the
multiple mode. One bit stands for the four upper
address bits of the device register, so sectors below and above 2^24 differ in
it.

Exclusions of the properties, each a behaviour of the code: the upper address
bits are or-ed into the device register and go only with a reset (`mixed`,
bdhdd.c:182); a 32 bit offset wraps (`Wrapped`, bdfile.c:55); the status after
the last block of a write is not looked at (`InLastBlock`, bdhdd.c:657); the
multiple mode lost by a reset is not set again (bdh8b16.c:212); drive 1 that has
not come back from a reset makes the later calls for it fail, because the reset
waits for drive 0 only (bdhdd.c:197); the single
sector functions stay with a device once asked for (bdhdd.c:449), cannot write,
and return an uninitialised value for no sectors (bdhdd.c:468); a read past the
end of an image file never ends (`PastEnd`, bdfile.c:64).

## Runs

| Run | Question | Instance |
|---|---|---|
| `fat_write` | Do chains, sizes, data, free list and counter agree after any calls with a failure between them? Does every call return? | 2 files, 7 data clusters (2 to 8), one of them bad, 5 of them scanned (2 to 6), 4 preloaded volumes, 3 calls of up to 3 clusters, 1 failure, lists of 2 runs |
| `fat_write_overwrite` | Changelog: a file is damaged only when the disk is full | refuted with 2 files and no failure |
| `fat_write_success` | Changelog: a write that wrote everything succeeds | refuted |
| `fat_write_known` | Changelog: counting gives the KNOWN value | refuted |
| `fat_window` | Is the window a table? | 3 sectors of 2 entries, window of 2 sectors, 2 values |
| `file_read` | Does the cursor follow the position? | clusters of 3 bytes, 4 chains (none, one run, three, backwards), sizes 0, 5, 6, 11 and 12, a buffer of 9 bytes, reads of up to 8, 2 failures |
| `file_read_unknown` | A comment of the code: "CANT OCCUR" | refuted |
| `file_read_padding` | Changelog: no padding is delivered | refuted |
| `dir_bufs` | Is the tree of directories sound between calls, does an open file find its directory, are saves free of older copies? | 2 handles, 4 chains, directories of 5 entries, long names of 2 entries, two trees (long names, an empty file), 4 calls over 4 paths, 1 failure |
| `dir_bufs_wrong_path` | A note in `fatfs.h`: a wrong path does not affect the context | refuted |
| `volume` | Does mounting give what `MountedDisk` promises, inside the partition, with failures and crashes? | 10 sectors; a FAT16 and a FAT32 partition, an empty entry and one beyond the disk; volumes that do not fit or are not clean; a disk without a table; 3 mounts, 2 failures |
| `block_dev` | Do the drivers move the right sectors, whatever the drives do? Does every call return? | 4 drivers, 4 drives, commands of up to 4 sectors in blocks of 2, transfers of 5, 3 and no sectors, in one half of the address space or across both, 4 calls, 2 failures |

The bounds are small, but every limit of the code is reached: the lists hold
two runs, so that chains, free space and requests need more than one list; the
minimum run length starts above what the volume has, so that scans come back
empty and are repeated; the window is shorter than the FAT and longer than the
rest of it; chains run forwards, backwards and in pieces; directories are full
after two entries more, so that creating and moving meet NOMORE; a transfer
needs two commands and its commands two blocks, the second of them short;
`UInt32` in `volume` is small enough for the size of a data area to wrap.
`MaxCalls`, `MaxMounts`, `MaxWrite`, `MaxRead` and `MaxFaults` bound what the
environment does and nothing the code does; runs whose calls are bounded this
way may stop, so they do not check for deadlock.

The scan of the code looks at clusters 2 to `cntDataClus` - 1 only (the FIXMAYBE
of fatfs.c:825): the last two clusters are never allocated. The model keeps
that (`Scanned`).

### Fairness

`FatWrite`, `DirBufs` and `BlockDev` have weak fairness of `Continue`, the rest
of a call that has begun: the code is sequential, and where the drivers wait for
a drive they count (`BDHDD_WAIT_CMDTIME` and its like), so that a wait ends with
or without the drive. Nothing is assumed about which calls are made, or that a
drive answers. `FatWindow` and `FileRead` need no fairness. `Volume` states
none: the program may end at any time, and its properties are safety only.

## What is proved

TLAPS checks the proofs for every value of the constants that satisfies the
assumptions of the module (`ConstAssumption`, and where it is named below
`ImagesInOrder` or `VolumesAssumption`).

`FatWindowProofs`, for every sector size, FAT size and window:

- `TypeCorrect`: the types.
- `WindowCoherent`: while no transfer has failed, the buffer is the part of the
  FAT its bounds say, and equals the disk unless it is marked for storing.
- `WindowAlwaysCovers`: the window moved for an entry contains it, in every
  access pattern.
- `BeyondAlwaysKept`: no sector behind the FAT is changed by a store.
- `WindowImplementsTable`: the window implements `FatTable`.

The assumption that matters is that the window holds at least two sectors. The
code has a window of 1 MB and sectors of at most 4 KB. With one sector the
windows of the forward and the random pattern would be empty of the entry that
is asked for. The invariant is `TypeOK /\ Coherent`. Coherence has to be part
of it because what a store writes, and where, is right only if the bounds, the
place on the disk and the buffer agree before it. The proof goes from
arithmetic on sector boundaries (`AlignFacts`, `LoadStartFacts`,
`LoadEndFacts`, `SpanFacts`) to one lemma for each action, and from there to
one simulation lemma for each action.

`FatWriteProofs`, for every volume, list size, request and number of failures:

- `WriteTypeCorrect`: the types. Among them, data is only put in clusters of
  the data area, and the FAT holds only clusters and marks.
- `ReservedAlwaysKept`: entry 0 and the marks of bad clusters survive
  everything, failures and double allocation included.

Neither is inductive. That a link or a deletion leaves the reserved entries
alone depends on what the call holds by then, so `IInv` adds: cursors are
places in the FAT or ask for allocation (`FromPlace`, `OldFrom`), the cluster
to link to is not bad (`LastUsable`), the runs found so far are usable up to
the cluster looked at next (`WalkAtEnd`), the runs to be written and the cache
are usable (`RunsUsable`, `CacheUsable`), and the runs handed out fit in what
is left to write (`RunsFit`). The last is why a new segment is never empty and
`todo` never negative: there is a function from the runs to the clusters left
after each. `KeptFacts` and `FirstRunFacts` say what the scan and the cache
give. Preloaded volumes are assumed to be in good order (`ValidChains`).

`FatChainProofs`, under the same assumptions, for `Orderly` histories:

- `ChainsPictured`: the invariant `OInv`, from which the others follow.
- `CacheAlwaysFree`, `ChainsNeverMeet`, `ChainsNeverDangle`, `NothingLeaks`,
  `SizeAlwaysChain`, `AlwaysInOrder`, `DataAlwaysKept`, `CountAlwaysSafe`: all
  the safety properties that the run `fat_write` checks.

`NoCrossLink` is not inductive, nor are all these properties together: in the
middle of a call they do not tell which clusters belong to which file. `OInv`
says that there is a sequence of clusters for each file (`Separate`: none twice,
none in two files) of which everything else is a picture: the FAT (`LinksAre`,
without the first clusters while a deletion frees them, and `RestUnused`), the
entries (`FirstIs`, `SizeIs`), the data (`OwnerIs`), the callers' cursors
(`WroteIs`, `CursorIs`), the runs of the call under way (`ListIs`, and `Along`
for a chain that is still being followed) and the free list. Each action is
shown to keep some such family of sequences: the same one, one with a chain that
is longer by the runs written, or one without the chain deleted.

`Chain(f)`, what a reader of the FAT collects, is a recursive function. It is
shown to be the sequence of `f` without induction over data (`ChainFound`,
`ChainOf`): if the two differed there would be a first place where they do, and
the chain has no more clusters than the volume (`ChainFits`), so that the
reader's bound is not reached before its end.

Looking for this invariant showed that `CountIsSafe` holds in orderly histories
only. With two bad clusters and five calls TLC finds the counter above the
number of free clusters without any failure: a request served from two scans
leaves two files with a cluster in common, the deletion of one frees the cluster
that the other's writer links behind, and the link then uses one cluster more
than it subtracts.

`FileReadProofs`, for clusters, files, chains, lists and reads of every size:

- `ReadTypeCorrect`: the types.
- `CursorAlwaysFollows`, `SeekAlwaysFinds`: the cursor is at the place of the
  position, and a seek to a byte of the file finds its cluster.
- `ReadAlwaysIsFile`: a read delivers the bytes of the file from its position on
  and moves it by as many.
- `EnoughAlwaysRead`: with a cursor in step no read is short of clusters, so the
  error the source says "CANT OCCUR" needs an event that left the cursor behind.

`CursorFollows` says nothing of positions behind the end of the file, and a seek
may go there and come back. The invariant `Follows` therefore holds the cluster
to the position as long as the chain has a cluster for it. The rest is
arithmetic: `StepFacts` (the cluster and the offset reached from those of the
cursor), `CeilFacts` (the clusters a read needs) and `ReadFacts` (what the
transfer finds of them). That the lists of runs have a last one (`ListFacts`)
is by the well-foundedness of the naturals.

`VolumeProofs`, for every disk, partition table and boot sector:

- `VolumeTypeCorrect`: the types; no transfer goes beyond the device.
- `AreasAlwaysInside`: an accepted volume has its areas in order and inside the
  partition, with the arithmetic of the code in its width.
- `DeviceAlwaysFreed`: a mount that fails gives the device back, whichever
  transfer failed, unless the partition was not found.
- `VolumeImplements`: `Volume` implements `MountedDisk`. This one assumes
  `ImagesInOrder`: the FAT in use is one of those the volume has, and the root
  cluster is not below 2. The code checks neither. TLC checks on every run
  of `MCVolume` that the instance satisfies it.

`IInv` adds to the types that a store belongs to an unmount of a mounted volume
(`StoringUp`), that the device is open while a call uses it (`OpenInCall`) and
that the boot sector has been checked from there on (`BootChecked`). The
refinement needs `SInv` besides: the buffers are the FAT and the root directory
of that boot sector (`FatLoaded`, `RootLoaded`), what is not marked as changed is
as on the disk (`FatSame`, `RootSame`, `FatFresh`), and a step of the unmount
leaves nothing marked behind it (`StoredFirst`).

`BlockDevProofs`, for drives and files of every size, commands of every length
and any failures:

- `DevTypeCorrect`: the registers keep their widths, and no block is moved that
  is not there.
- `AlwaysSendsToIdle`: a command goes to an idle drive that shows no error, and
  the other drive is not in the middle of one.
- `PutAlwaysConfined`: a put changes the sectors it was asked to, each to its
  part of the buffer, and nothing else changes a sector.
- `GetAlwaysDelivers`: a get that reports success has filled its buffer with the
  sectors asked for.
- `PutAlwaysStored`: a put that reports success has stored its sectors, but for
  the last block of a command.
- `AlwaysForCause`: a call fails only by a failure of its own time, for what it
  asks for, or by a named fault of the code.

`IInv` relates the place of the call to the registers: which calls can be at
which place (`CallPlace`), what is done and what is left adds up to the request
(`Progress`, `FileProgress`), the drive is where the driver believes it to be
(`Working`, `Command`), it is the drive of the call (`Selected`), and the upper
address bits are those of the sector unless they were mixed (`UpperBits`).
`SendsToIdle` is about a drive whose DRQ and ERR the code does not test: it holds
because of `Aside`, an invariant over calls. A drive is left only after it was
seen ready, or reset, so the drive that is not selected is idle, or is drive 1
busy since a reset, which the test of BSY finds. `CallsReturn` and the transfers
need that the counted loop and the remaining count agree (`LoopFacts`).
`GetDelivers` needs `DInv` in addition: the part of the buffer filled so far is
right. `PutStored` needs `PInv`: the sectors before the place of the call are
stored, as long as the drive is at work (`PutSoFar`; after a failure in the
middle of a command it is not, and the next look at the status ends the call),
and the commands and their blocks are full but for the last, so that
`InLastBlock` means the end of a command (`PutCounts`, `LastBlock`).
`FailsForCause` needs `Clean`: without a failure in this call the drive is at
work on the command, or has refused it for its multiple mode. Both need
`DevKnown`, what an init leaves behind: a block size that is not zero, and the
multiple mode set unless a reset ends it.

`DirBufsProofs`, for any number of handles, entries and names, any tidy volume,
any paths, calls and failures:

- `TypesCorrect`: the types. Among them, the places an open file remembers are
  slots of a directory, and a call has what each of its steps needs (`Places`).
- `HeldAlwaysFound`: until a call takes its buffer away, the directory of an open
  file is found by its first cluster in the buffer it was opened from, with the
  file's entry where the open found it.
- `SyncAlwaysSucceeds`: a close loses changes only where the buffer has been
  taken away.

That the search by first cluster (`fatuc__getdirbufoffile`) finds the right buffer
rests on `BInv` and `HInv`: a buffer other than the root's holds one directory,
the two descriptions share a buffer only when both are the root's, a walk never
reads over the current directory (`WalkAt`), and a file held in the temporary
buffer is in the current directory only if the two are the same buffer
(`HeldRight`). They hold after failures as well. That the entry is still there needs
`FInv`, which promises nothing once something has gone wrong (`spoilt`): all
directories are tidy, each held file has its entry and exactly its parts in front
of it (`Stands`), and no two held files are the same entry (`NotTwice`). It is the
last two that the calls depend on: a removal frees all from the first part to the
entry, so the slots of two files have to be apart (`Apart`), and a new entry
takes free slots that must be nobody's parts (`FreeFacts`). `LfnFacts` shows that
in a tidy directory the search collects the parts of the entry and no others.

`DirTreeProofs`, for the same and any volumes that are sound as well
(`VolumesAssumption`):

- `TreeAlwaysSound`: between calls each chain in use has one owner, an entry or an
  open file, no directory has two entries of a name, and every subdirectory knows
  itself and its parent.
- `EntriesAlwaysKept`: a save loses no entry but that of the file which is being
  removed or closed.

Neither is inductive. `TreeSound` speaks of what is seen between calls, and in the
middle of a call an entry may be gone from the disk and its chain only be known to
a file (the source of a move, a file that has grown), or a chain be free whose
entry still stands (a deletion). The invariant `TreeOK` says who owns a chain at
every step, and what the buffers may differ in:

- `Owners`: a chain in use is named by one entry or carried by one file
  (`Carries`: one with changes not saved, or the source of a move), never by both;
  only a deletion under way has an entry whose chain is free (`Going`).
- `Dotted`: a subdirectory, one that is being made or moved included (`IsDir`),
  has its `.` and `..`, and nothing else bears entries. So a chain that a file is
  given, which no one owns, is no directory, and storing data in it replaces no
  entry.
- `Known` and `OpenOnce`: an open file without changes is as its entry says, and
  an entry belongs to one open file.
- `BufsFresh` and `RootFresh`: a buffer holds what the disk holds, with the entries
  of files that were created and not closed yet in addition (`Added`). This is why
  writing a whole buffer back loses nothing, and what `EntriesAlwaysKept` rests on.
- `AllClean`, `Rooted` and `Stages`: names are unique in a directory, the calls are
  in directories that exist, and each call has at its place what its next step
  takes for granted.

The entry a step changes is found by `FInv`: `Stands` for a removal, `HeldRight`
for the buffer. The steps of `Spoils` break `TreeOK`, and the invariant promises
nothing after them. For a save of an entry that is changed or removed the lemmas go
through one description (`Saved`, `SavedTree`), with a lemma each for who owns the
chain afterwards (`OwnersTake` for a move, `OwnersDrop` for a deletion, `OwnersPut`
for a close).

Liveness (`CallsReturn` of `FatWrite` and `BlockDev`) is checked by TLC only; the
prover does not treat fairness or ENABLED. The refuted properties are TLC's, too.
Every other property that a run checks is the statement of a theorem.

## What the runs refute

- One request can be given the same cluster twice while others are free
  (fatfs.c:1363): the scan is repeated before the clusters handed out are
  linked. The chain of the file is then a loop or two files share clusters.
- A rewrite that ends at the end of the chain fails on a full disk
  (fatfs.c:1489). Saving a directory always writes like that, and
  `fatfs_cleanup` then returns before it stores the FAT.
- `fatfs_update_freeclusters` fails when the free clusters are in more runs
  than its list holds (fatfs.c:1299, `||` for `&&`).
- A read that begins inside a cluster and ends on a boundary leaves the offset
  behind (fatfs.c:2162); the next read delivers wrong bytes or UNKNOWN.
- A read past the end of the file delivers padding (fatfs.c:2148).
- A path that is wrong costs the temporary directory its buffer
  (`fatuc__changedir`): files opened there lose what they have not saved.

## Not modelled

- The board of the DM270 (`dm270utils.c`, `dm270devs.c`): register settings and
  bus timing, without a protocol of their own; and the choice of registers per
  device group in the drivers.
- The SETFEATURES option of the drivers, and `dev_set`, which nothing calls.
- `bdhdd_benchmark.c`: the driver compiled again for timing, with transfers that
  overwrite one sector of the buffer on purpose.
- The porting layer (`utilsporta.c`, `rwporta.c`, `linuxutils.c`, `rand.c`):
  functions on data that the models abstract to values.
- The interactive commands of the test programs. What `testfatuc.c` does with a
  write that is cut into parts is in `FatWrite`.
- Positions before the beginning of a file (fatfs.c:2044): what they do depends
  on the width of `long`.
- The contents of entries other than name, attribute, first cluster and size.

## Plan

What a continuation would take up, in this order:

1. `DirBufs` over `FatWrite`, so that a save of a directory is a write of its chain
   with the failures of one.
2. `FatWrite` over `FatWindow` instead of a table, for accesses of the FAT that
   fail while a call is under way.
