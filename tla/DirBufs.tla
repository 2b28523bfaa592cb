------------------------------- MODULE DirBufs -------------------------------
(***************************************************************************)
(* The user context of fatfs.c (struct TFatFsUserContext): the current and *)
(* the temporary directory buffer, the root directory buffer they may      *)
(* point to instead, the open files, and the calls that look names up in   *)
(* the buffers, change entries there and save them: chdir, getfileinfo,    *)
(* fopen, mkdir, deletefile, move_dentry, fclose.                          *)
(*                                                                         *)
(* One action is one pass of a loop of the code or one step of a call that *)
(* can fail.  A directory and a file are each one chain of clusters, named *)
(* by its first cluster; FatWrite models how chains come about.            *)
(***************************************************************************)
EXTENDS Integers, Sequences, FiniteSets

CONSTANTS
  NumFiles,    \* FATFSUSERCONTEXT_NUMFILES
  Names,       \* names of files and directories, as 8.3 names
  Chains,      \* first clusters of the chains the volume has room for
  NumSlots,    \* entries a directory has room for
  PerFile,     \* FATUC_FOPEN_CREATE_DENTRIESPERFILE
  LfnSlots,    \* entries a name given to move_dentry takes
  TildeNames,  \* names util_prep8d3_fromLFN makes, with ~1, and those with ~2 ..
  NextName,    \* the name with the next number
  MaxTries,    \* the 9 of fatuc_move_dentry
  Volumes,     \* directories a volume may hold: [{0} \cup Chains -> Dir]
  Paths,       \* paths the callers use
  Dests,       \* those they move files to
  Sought,      \* names the callers look for
  NewNames,    \* names they give to move_dentry ("END": none)
  MaxCalls,    \* bound: calls
  MaxFaults    \* bound: block device failures

Handle == 1 .. NumFiles
Slot   == 1 .. NumSlots
Root   == 0                  \* first cluster of the root directory, as entries give it
Clus   == {Root} \cup Chains
UP     == ".."

\* A directory entry, and what stands for one: struct TFileInfo as far as it is
\* in the entry.  END: name[0] = 0; FREE: FATFS_FREEDENTRY; LFN: FATATTR_LONGNAME.
Entry(n, a, c, s) == [name |-> n, attr |-> a, clus |-> c, size |-> s]
Mark(n) == Entry(n, "", 0, 0)
EntryType == [name : Names \cup {"END", "FREE", "LFN"}, attr : {"", "ARCHIVE", "DIR"},
              clus : Clus, size : {0, 1}]

\* A directory: its "." and ".." entries (-1: it has none) and the others.
Dir(self, up, ent) == [self |-> self, up |-> up, ent |-> ent]
DirType == [self : Clus \cup {-1}, up : Clus \cup {-1}, ent : [Slot -> EntryType]]
Zeros == Dir(-1, -1, [i \in Slot |-> Mark("END")])

\* The parts of a long name stand together right before their entry, and nothing
\* stands behind the end.  LfnStart takes any parts since the last entry for those
\* of the next: with a gap behind them, a file made there would be freed with it.
Tidy(d) ==
  \A i \in Slot :
    /\ d.ent[i].name = "LFN" => i + 1 \in Slot /\ d.ent[i + 1].name \notin {"END", "FREE"}
    /\ d.ent[i].name = "END" => \A j \in i .. NumSlots : d.ent[j].name = "END"

\* A sound volume: no two entries have one chain, or one name in one directory,
\* what bears entries is the root or a directory, whose "." and ".." are itself and
\* the directory its entry is in, and the marks stand for nothing else.  The code
\* checks none of it; TreeSound is about its keeping what it is given.
Sound(v) ==
  LET at(c, i) == v[c].ent[i]
  IN /\ v[Root].up = -1
     /\ \A c \in Clus, i \in Slot : at(c, i).name \notin Names => at(c, i) = Mark(at(c, i).name)
     /\ \A c, d \in Clus, i, j \in Slot :
          at(c, i).clus # 0 /\ at(c, i).clus = at(d, j).clus => c = d /\ i = j
     /\ \A c \in Clus, i, j \in Slot :
          at(c, i).name \in Names /\ at(c, i).name = at(c, j).name => i = j
     /\ \A c \in Clus, i \in Slot : at(c, i).attr = "DIR" =>
          LET k == at(c, i).clus IN k # Root /\ v[k].self = k /\ v[k].up = c
     /\ \A c \in Chains, i \in Slot : at(c, i).name \in Names =>
          \E d \in Clus, j \in Slot : at(d, j).attr = "DIR" /\ at(d, j).clus = c

Path(abs, dirs) == [abs |-> abs, dirs |-> dirs]
PathType == [abs : BOOLEAN, dirs : Seq(Names \cup {UP})]
Here == Path(FALSE, <<>>)    \* a plain name, or one after ".\"

ASSUME ConstAssumption ==
  /\ NumFiles \in Nat \ {0} /\ NumSlots \in Nat \ {0}
  /\ PerFile \in Nat \ {0} /\ LfnSlots \in Nat \ {0} /\ MaxTries \in Nat
  /\ Sought \subseteq Names /\ NewNames \subseteq Names \cup {"END"} /\ MaxCalls \in Nat /\ MaxFaults \in Nat
  /\ Chains \subseteq Nat \ {0} /\ {"END", "FREE", "LFN", UP} \cap Names = {}
  /\ TildeNames \subseteq Names /\ NextName \in [TildeNames -> Names]
  /\ Volumes \subseteq [Clus -> DirType] /\ \A v \in Volumes, c \in Clus : Tidy(v[c])
  /\ Paths \subseteq PathType /\ Here \in Paths /\ Dests \subseteq Paths
ASSUME VolumesAssumption ==
  \A v \in Volumes : Sound(v)

VARIABLES
  rd,         \* fat->RDBuf
  rdUpdated,  \* fat->RDUpdated
  disk,       \* the directory each chain holds on the disk, the root's at Root
  used,       \* chains that are allocated
  buf,        \* uc->dirBuf1 and uc->dirBuf2
  cur,        \* uc->curDirBuf, uc->curDirInfo.firstClus
  temp,       \* uc->tempDirBuf, uc->tempDirInfo.firstClus, uc->tempDirBufLen # 0
  files,      \* uc->files[]
  pc,         \* where the current call is
  op,         \* its arguments and local variables
  calls,      \* calls so far
  faults,     \* failures so far
  held,       \* history: the buffer the entry of an open file is in ("cur", "temp"),
              \* unless it has been given up since ("no") or the file deleted ("dead")
  spoilt      \* history: something went wrong that the code does not put right

diskVars == <<rd, rdUpdated, disk, used>>
bufVars  == <<buf, cur, temp>>
vars == <<diskVars, bufVars, files, pc, op, calls, faults, held, spoilt>>

NoFile == [used |-> FALSE, name |-> "END", attr |-> "", clus |-> 0, size |-> 0,
           fpos |-> 0, lpos |-> 0, upd |-> {}, dclus |-> 0]
NoCall == [call |-> "none", h |-> 0, src |-> 0, at |-> [buf |-> "RD", clus |-> Root],
           toks |-> <<>>, plain |-> TRUE, name |-> "END", create |-> FALSE, slots |-> PerFile,
           dest |-> Here, to |-> "END", tries |-> 0, closing |-> <<>>, out |-> "OK",
           was |-> [buf |-> "b1", clus |-> Root, full |-> FALSE]]

-----------------------------------------------------------------------------
(* Directories in memory                                                   *)

Mem(b) == IF b = "RD" THEN rd ELSE buf[b]
SetMem(b, d) ==
  IF b = "RD" THEN rd' = d /\ UNCHANGED buf
              ELSE buf' = [buf EXCEPT ![b] = d] /\ UNCHANGED rd

\* The entries fatfs_getfileinfo_fromdir reads: those before the first END.
Seen(d) == {i \in Slot : \A j \in 1 .. i : d.ent[j].name # "END"}
Live(d) == {i \in Seen(d) : d.ent[i].name \notin {"FREE", "LFN"}}
At(d, n) == {i \in Live(d) : d.ent[i].name = n}
FirstOf(S) == CHOOSE i \in S : \A j \in S : i <= j

\* fInfo->fDEntryPos: the first long name part since the entry before.
StartOfLong(d, i) ==                           \* mutant: not set for a short name
  LET parts == {j \in 1 .. i : /\ d.ent[j].name = "LFN"
                               /\ \A k \in Live(d) : k < i => k < j}
  IN IF parts = {} THEN 0 ELSE FirstOf(parts)
LfnStart(d, i) ==
  LET parts == {j \in 1 .. i : /\ d.ent[j].name = "LFN"
                               /\ \A k \in Live(d) : k < i => k < j}
  IN IF parts = {} THEN i ELSE FirstOf(parts)

\* fatfs_getfreedentry_indirbuf: k free entries in a row, or the unused end.
FreeRun(d, k) ==
  {i \in Seen(d) : i + k - 1 \in Seen(d) /\ \A j \in i .. (i + k - 1) : d.ent[j].name = "FREE"}
FirstEnd(d) == {i \in Slot : i \notin Seen(d) /\ (i = 1 \/ i - 1 \in Seen(d))}
FreeEntry(d, k) ==
  IF FreeRun(d, k) # {} THEN {FirstOf(FreeRun(d, k))}
  ELSE {i \in FirstEnd(d) : i + k - 1 \in Slot}

Other(b) == IF b = "b1" THEN "b2" ELSE "b1"

-----------------------------------------------------------------------------
\* fatuc_init on a mounted volume; the structure is static and starts as zeros.
Init ==
  /\ disk \in Volumes /\ rd = disk[Root] /\ rdUpdated = FALSE
  /\ used = {c \in Chains : \E d \in Clus, i \in Slot : disk[d].ent[i].clus = c}
  /\ buf = [b \in {"b1", "b2"} |-> Zeros]
  /\ cur = [buf |-> "RD", clus |-> Root]
  /\ temp = [buf |-> "b1", clus |-> Root, full |-> FALSE]
  /\ files = [h \in Handle |-> NoFile]
  /\ pc = "idle" /\ op = NoCall /\ calls = 0 /\ faults = 0
  /\ held = [h \in Handle |-> "no"] /\ spoilt = FALSE

Fault == faults < MaxFaults /\ faults' = faults + 1
\* Callers ask for nothing more after what the code does not put right (Spoils).
Call == pc = "idle" /\ ~spoilt /\ calls < MaxCalls /\ calls' = calls + 1

\* A call returns, or closes files first and then returns out.
Return == pc' = "idle" /\ op' = NoCall
Close(hs, out) == pc' = "closing" /\ op' = [op EXCEPT !.closing = hs, !.out = out]

\* fatuc_updatetempdirbufinfo
KeepTemp(c) == temp' = [temp EXCEPT !.full = FALSE]  \* mutant: the buffers do not change over
ResetTemp(c) == temp' = [buf |-> Other(c.buf), clus |-> temp.clus, full |-> FALSE]
GiveUp(ways) == held' = [h \in Handle |-> IF held[h] \in ways THEN "no" ELSE held[h]]

\* The beginning of fatuc__changedir, or of fatuc__getfileinfo for a plain name,
\* on behalf of the call o.
LookUp(p, o) ==
  /\ IF p = Here
       THEN /\ pc' = "find" /\ UNCHANGED <<temp, held>>
            /\ op' = [o EXCEPT !.plain = TRUE, !.at = cur]
       ELSE /\ pc' = "walk" /\ ResetTemp(cur) /\ GiveUp({"temp"})
            /\ op' = [o EXCEPT !.plain = FALSE, !.toks = p.dirs,
                               !.at = IF p.abs THEN [buf |-> "RD", clus |-> Root] ELSE cur]
  /\ UNCHANGED <<diskVars, buf, cur, faults>>

Chdir(p) ==
  /\ p # Here /\ Call
  /\ LookUp(p, [NoCall EXCEPT !.call = "chdir", !.was = temp])
  /\ UNCHANGED files

Getfileinfo(p, n) ==
  /\ Call /\ LookUp(p, [NoCall EXCEPT !.call = "info", !.name = n])
  /\ UNCHANGED files

\* fatuc__fopen takes the first handle that is free, and keeps what it held.
FreeHandles == {h \in Handle : ~files[h].used}
Claim(p, o) ==
  LET h == FirstOf(FreeHandles)
  IN /\ files' = [files EXCEPT ![h].used = TRUE]
     /\ LookUp(p, [o EXCEPT !.h = h])

Begin(p, o) ==
  /\ Call
  /\ IF FreeHandles # {} THEN Claim(p, o)
     ELSE Return /\ UNCHANGED <<diskVars, bufVars, files, faults, held>>

Open(p, n, create) ==
  Begin(p, [NoCall EXCEPT !.call = "open", !.name = n, !.create = create])

\* fatuc_mkdir and fatuc_move_dentry begin by opening a file, too.  A move without
\* a new name (END) keeps the source's name and the number of its entries.
Mkdir(p, n) == Begin(p, [NoCall EXCEPT !.call = "mkdir", !.name = n, !.create = TRUE])
Move(p, n, dest, to) ==
  Begin(p, [NoCall EXCEPT !.call = "move", !.name = n, !.dest = dest, !.to = to])

-----------------------------------------------------------------------------
(* fatuc__changedir: one directory of the path a step                      *)

\* What the next name of the path is in the directory at hand.
IsUp == Head(op.toks) = UP
StepsTo ==
  LET d == Mem(op.at.buf)
  IN IF IsUp THEN {c \in {d.up} : c # -1}
     ELSE IF At(d, Head(op.toks)) = {} THEN {}
     ELSE LET e == d.ent[FirstOf(At(d, Head(op.toks)))]
          IN IF e.attr = "DIR" THEN {e.clus} ELSE {}

\* "..", in a directory of the root, leads back to the root's own buffer.
WalkToRoot ==
  /\ pc = "walk" /\ op.toks # <<>> /\ Root \in StepsTo
  /\ op' = [op EXCEPT !.at = [buf |-> "RD", clus |-> Root], !.toks = Tail(@)]
  /\ UNCHANGED <<diskVars, bufVars, files, pc, calls, faults, held>>

\* Every other directory is read into the temporary buffer, over the one before.
WalkInto ==
  /\ pc = "walk" /\ op.toks # <<>>
  /\ \E c \in StepsTo \ {Root} :
       /\ buf' = [buf EXCEPT ![temp.buf] = disk[c]]
       /\ op' = [op EXCEPT !.at = [buf |-> temp.buf, clus |-> c], !.toks = Tail(@)]
  /\ UNCHANGED <<diskVars, cur, temp, files, pc, calls, faults, held>>

\* The call has failed before it had anything to save: a handle it has claimed
\* is closed again (error_cleanup of fatuc__fopen), and the source of a move.
GiveUpCall(r) ==
  LET hs == (IF op.h = 0 THEN <<>> ELSE <<op.h>>)
  IN IF op.call \in {"chdir", "info"} THEN Return
     ELSE Close(hs \o (IF op.src = 0 THEN <<>> ELSE <<op.src>>), r)

\* There is no such directory, or it cannot be read.
WalkStop ==
  /\ pc = "walk" /\ op.toks # <<>>
  /\ \/ StepsTo = {} /\ GiveUpCall("NOTFOUND") /\ UNCHANGED <<buf, faults>>
     \/ \E c \in StepsTo \ {Root} :
          /\ Fault /\ GiveUpCall("FAILED")
          /\ buf' \in {buf, [buf EXCEPT ![temp.buf] = disk[c]]}
  /\ UNCHANGED <<diskVars, cur, temp, files, calls, held>>

\* The path is walked to its end: chdir makes the last directory the current
\* one, the other calls look their file up in it.
WalkEnd ==
  /\ pc = "walk" /\ op.toks = <<>>
  /\ IF op.call = "chdir"
       THEN /\ cur' = op.at /\ ResetTemp(cur') /\ GiveUp({"cur", "temp"}) /\ Return
       ELSE /\ temp' = [buf |-> op.at.buf, clus |-> op.at.clus, full |-> TRUE]
            /\ pc' = "find" /\ UNCHANGED <<cur, op, held>>
  /\ UNCHANGED <<diskVars, buf, files, calls, faults>>

-----------------------------------------------------------------------------
(* fatuc__fopen and fatuc_getfileinfo: the file in its directory           *)

Found(d) == At(d, op.name)
\* Naming the current directory by its path reads it a second time.
HeldAs == IF op.plain THEN "cur"
          ELSE IF op.at.buf # cur.buf /\ op.at.clus = cur.clus THEN "no" ELSE "temp"

Opened ==
  CASE op.call = "move" /\ op.src = 0 -> "remove"
    [] op.call = "move" /\ op.src # 0 -> "name"
    [] op.call = "mkdir" -> "mkdir"
    [] OTHER -> "idle"
OpenedWith(f) ==
  /\ files' = [files EXCEPT ![op.h] = f]
  /\ held' = [held EXCEPT ![op.h] = HeldAs]
  /\ IF Opened = "idle" THEN Return ELSE pc' = Opened /\ UNCHANGED op
  /\ UNCHANGED <<calls, faults>>

Find ==
  LET d == Mem(op.at.buf)
      i == FirstOf(Found(d))
      e == d.ent[i]
  IN /\ pc = "find" /\ Found(d) # {} /\ op.call # "info"
     /\ OpenedWith([used |-> TRUE, name |-> e.name, attr |-> e.attr, clus |-> e.clus,
                    size |-> e.size, fpos |-> LfnStart(d, i), lpos |-> i, upd |-> {},
                    dclus |-> op.at.clus])
     /\ UNCHANGED <<diskVars, bufVars>>

\* fatuc_getfileinfo only looks.
FindInfo ==
  /\ pc = "find" /\ op.call = "info"
  /\ Return
  /\ UNCHANGED <<diskVars, bufVars, files, calls, faults, held>>

\* The search has read every entry into fInfo, and only an empty directory
\* leaves there what the handle held before.
Searched(f) ==
  IF Live(Mem(op.at.buf)) = {} /\ Mem(op.at.buf).self = -1 THEN [f EXCEPT !.dclus = op.at.clus]
  ELSE [NoFile EXCEPT !.used = TRUE, !.dclus = op.at.clus]
FindNone ==
  /\ pc = "find" /\ op.call # "info" /\ Found(Mem(op.at.buf)) = {} /\ ~op.create
  /\ files' = [files EXCEPT ![op.h] = Searched(@)]
  /\ GiveUpCall("NOTFOUND")
  /\ UNCHANGED <<diskVars, bufVars, calls, faults, held>>

\* fatfs__allocatedentry_indirbuf: the entry goes behind free ones, which may
\* take its long name.  It reaches the disk when the file is closed.
PutEntry(d, i, k) ==
  [d EXCEPT !.ent = [j \in Slot |-> IF j \in i .. (i + k - 2) THEN Mark("FREE")
                                    ELSE IF j = i + k - 1 THEN Entry(op.name, "ARCHIVE", 0, 0)
                                    ELSE d.ent[j]]]
Create ==
  LET d == Mem(op.at.buf)
      k == op.slots
  IN /\ pc = "find" /\ op.create /\ Found(d) = {}
     /\ IF FreeEntry(d, k) = {}
          THEN /\ files' = [files EXCEPT ![op.h] = [NoFile EXCEPT !.used = TRUE, !.dclus = op.at.clus]]
               /\ GiveUpCall("NOMORE") /\ UNCHANGED <<diskVars, bufVars, calls, faults, held>>
          ELSE LET i == FirstOf(FreeEntry(d, k))
               IN /\ SetMem(op.at.buf, PutEntry(d, i, k))
                  /\ OpenedWith([used |-> TRUE, name |-> op.name, attr |-> "ARCHIVE", clus |-> 0,
                                 size |-> 0, fpos |-> i + k - 1, lpos |-> i + k - 1,
                                 upd |-> {"ALL"}, dclus |-> op.at.clus])
                  /\ UNCHANGED <<rdUpdated, disk, used, cur, temp>>

-----------------------------------------------------------------------------
(* The directory of an open file                                           *)

\* fatuc__getdirbufoffile: the buffers that may hold it (at most one), and
\* whether their length says that they hold anything.
DirBuf(b, full) == [buf |-> b, full |-> full]
TempFirst(h) ==       \* mutant: the temporary buffer is asked before the current one
  IF files[h].dclus = temp.clus THEN {DirBuf(temp.buf, temp.full)}
  ELSE IF files[h].dclus = cur.clus THEN {DirBuf(cur.buf, TRUE)}
  ELSE IF files[h].dclus = Root THEN {DirBuf("RD", TRUE)}
  ELSE {}
AnyBuf(h) ==          \* mutant: the temporary buffer is taken for want of another
  IF files[h].dclus = cur.clus THEN {DirBuf(cur.buf, TRUE)}
  ELSE {DirBuf(temp.buf, temp.full)}
DirBufOf(h) ==
  IF files[h].dclus = cur.clus THEN {DirBuf(cur.buf, TRUE)}
  ELSE IF files[h].dclus = temp.clus THEN {DirBuf(temp.buf, temp.full)}
  ELSE IF files[h].dclus = Root THEN {DirBuf("RD", TRUE)}
  ELSE {}                                  \* -ERROR_NOTSUPPORTED

\* fatuc__savedirbuf of the buffer b with contents d: the root is saved at the
\* unmount, and a buffer of length 0 leaves the disk alone.
SaveOk(h, b, d) ==
  IF files[h].dclus = Root
    THEN rdUpdated' = TRUE /\ UNCHANGED disk
    ELSE /\ disk' = IF b.full THEN [disk EXCEPT ![files[h].dclus] = d] ELSE disk
         /\ UNCHANGED rdUpdated
SaveFails(h, b, d) ==
  /\ files[h].dclus # Root /\ Fault
  /\ disk' \in {disk, IF b.full THEN [disk EXCEPT ![files[h].dclus] = d] ELSE disk}
  /\ UNCHANGED rdUpdated

-----------------------------------------------------------------------------
(* Writing to an open file, and fatuc_mkdir                                *)

\* fatfs__storefileclus_usefileinfo for a file the caller holds open.  Its size is
\* marked as updated when it changes, and also when the store only comes to the
\* end of its chain (grown), which is where a file without clusters starts.
Written(f, c, s, grown) ==
  [f EXCEPT !.clus = c, !.size = s,
            !.upd = @ \cup (IF f.clus # c THEN {"CLUS"} ELSE {})
                      \cup (IF f.size # s \/ grown THEN {"SIZE"} ELSE {})]
Writable(h) == files[h].used /\ files[h].attr = "ARCHIVE" /\ held[h] # "dead" /\ Call

\* The file gets its chain and its size, or a failure comes first.
WriteFile(h) ==
  /\ Writable(h)
  /\ \E c \in IF files[h].clus = 0 THEN Chains \ used ELSE {files[h].clus} :
       \E s \in {1, files[h].size}, grown \in BOOLEAN :
         /\ IF s = 1 THEN UNCHANGED faults ELSE Fault
         /\ files' = [files EXCEPT ![h] = Written(@, c, s, grown)]
         /\ used' = used \cup {c}
         /\ disk' = [disk EXCEPT ![c] = Zeros]
  /\ UNCHANGED <<rd, rdUpdated, bufVars, pc, op, held>>

\* An empty file that gets no cluster: the disk is full, or the FAT fails.
NoCluster == Fault \/ (Chains \subseteq used /\ UNCHANGED faults)
WriteNothing(h) ==
  /\ Writable(h) /\ files[h].clus = 0 /\ NoCluster
  /\ files' = [files EXCEPT ![h] = Written(@, 0, @.size, TRUE)]
  /\ UNCHANGED <<rd, rdUpdated, disk, used, bufVars, pc, op, held>>

\* A name that has clusters is in use; one that has none is taken over.
MkdirExists ==
  /\ pc = "mkdir" /\ files[op.h].clus # 0
  /\ Close(<<op.h>>, "INVALID")
  /\ UNCHANGED <<diskVars, bufVars, files, calls, faults, held>>

\* The first store gives the directory its chain, filled with zeros.
MkdirClear ==
  /\ pc = "mkdir" /\ files[op.h].clus = 0
  /\ \/ \E c \in Chains \ used, s \in {0, 1} :
          /\ files' = [files EXCEPT ![op.h] = [Written(@, c, s, TRUE) EXCEPT !.attr = "DIR"]]
          /\ used' = used \cup {c} /\ disk' = [disk EXCEPT ![c] = Zeros]
          /\ IF s = 1 THEN pc' = "dots" /\ UNCHANGED <<op, faults>>
                      ELSE Fault /\ Close(<<op.h>>, "FAILED")
     \/ /\ \/ Chains \subseteq used /\ Close(<<op.h>>, "NOMORE") /\ UNCHANGED faults
           \/ Fault /\ Close(<<op.h>>, "FAILED")
        /\ files' = [files EXCEPT ![op.h] = [Written(@, 0, @.size, TRUE) EXCEPT !.attr = "DIR"]]
        /\ UNCHANGED <<used, disk>>
  /\ UNCHANGED <<rd, rdUpdated, bufVars, calls, held>>

\* The second puts "." and ".." there.
Dots(f) == Dir(f.clus, f.dclus, Zeros.ent)
MkdirDots ==
  LET f == files[op.h]
  IN /\ pc = "dots"
     /\ \/ /\ disk' = [disk EXCEPT ![f.clus] = Dots(f)]
           /\ files' = [files EXCEPT ![op.h].size = 0]
           /\ Close(<<op.h>>, "OK") /\ UNCHANGED faults
        \/ /\ Fault /\ disk' \in {disk, [disk EXCEPT ![f.clus] = Dots(f)]}
           /\ Close(<<op.h>>, "FAILED") /\ UNCHANGED files
     /\ UNCHANGED <<rd, rdUpdated, used, bufVars, calls, held>>

-----------------------------------------------------------------------------
(* fatuc__deletefile and fatuc_move_dentry                                 *)

\* The chain is freed first.
Delete(h) ==
  /\ files[h].used /\ files[h].attr = "ARCHIVE" /\ held[h] # "dead" /\ Call
  /\ \/ /\ used' = used \ {files[h].clus}
        /\ pc' = "remove" /\ op' = [NoCall EXCEPT !.call = "delete", !.h = h]
        /\ UNCHANGED <<faults, held>>
     \/ /\ Fault /\ UNCHANGED <<used, pc, op>>
        /\ held' = [held EXCEPT ![h] = "dead"]
  /\ UNCHANGED <<rd, rdUpdated, disk, bufVars, files>>

\* fatuc__remove_dentry: the entry goes from the buffer, then from the disk; a
\* deletion then returns, a move goes on to its destination.
Without(d, f) ==
  [d EXCEPT !.ent = [i \in Slot |-> IF i \in f.fpos .. f.lpos THEN Mark("FREE") ELSE d.ent[i]]]
\* totContDEntries
SlotsFor(to, f) == IF to = "END" THEN f.lpos - f.fpos + 1 ELSE LfnSlots
RemoveStops(r) ==
  IF op.call = "delete" THEN Return ELSE Close(<<op.h>>, r)
Remove ==
  /\ pc = "remove"
  /\ \E b \in DirBufOf(op.h) :
       LET d == Without(Mem(b.buf), files[op.h])
       IN /\ SetMem(b.buf, d)
          /\ \/ /\ SaveOk(op.h, b, d)
                /\ files' = [files EXCEPT ![op.h].upd = {}]
                /\ UNCHANGED faults
                /\ IF op.call = "delete" THEN Return
                   ELSE /\ pc' = "dest"
                        /\ op' = [op EXCEPT !.src = op.h, !.h = 0, !.create = TRUE,
                                    !.name = IF op.to = "END" THEN files[op.h].name ELSE op.to,
                                    !.slots = SlotsFor(op.to, files[op.h])]
             \/ SaveFails(op.h, b, d) /\ RemoveStops("FAILED") /\ UNCHANGED files
  /\ held' = [held EXCEPT ![op.h] = "dead"]
  /\ UNCHANGED <<used, cur, temp, calls>>

RemoveNowhere ==
  /\ pc = "remove" /\ DirBufOf(op.h) = {} /\ RemoveStops("NOTSUPPORTED")
  /\ held' = [held EXCEPT ![op.h] = "dead"]
  /\ UNCHANGED <<diskVars, bufVars, files, calls, faults>>

\* The destination is opened or created; the source has no entry any more.
MoveDest ==
  /\ pc = "dest"
  /\ IF FreeHandles # {} THEN Claim(op.dest, op)
     ELSE Close(<<op.src>>, "HANDLES") /\ UNCHANGED <<diskVars, bufVars, files, faults, held>>
  /\ UNCHANGED calls

\* Only now are the caller's buffer, the destination's path and the name measured.
MoveTooLong ==
  /\ pc = "dest" /\ op.tries = 0
  /\ Close(<<op.src>>, "INSUFFICIENT")
  /\ UNCHANGED <<diskVars, bufVars, files, calls, faults, held>>

\* The name is taken: a derived name gets the next number.
MoveClash ==
  /\ pc = "name" /\ files[op.h].clus # 0
  /\ IF op.name \in TildeNames /\ op.slots > 1 /\ op.tries < MaxTries
       THEN /\ files' = [files EXCEPT ![op.h] = NoFile] /\ held' = [held EXCEPT ![op.h] = "no"]
            /\ pc' = "dest"
            /\ op' = [op EXCEPT !.h = 0, !.name = NextName[@], !.tries = @ + 1]
       ELSE Close(<<op.src, op.h>>, "INVALID") /\ UNCHANGED <<files, held>>
  /\ UNCHANGED <<diskVars, bufVars, calls, faults>>

\* The destination gets the source's chain and the parts of its long name.
KeepChain(f, src) == [f EXCEPT !.attr = src.attr, !.size = src.size]   \* mutant: no firstClus
Moved(f, src) == [f EXCEPT !.attr = src.attr, !.clus = src.clus, !.size = src.size]
NameParts(d, i, k) == [d EXCEPT !.ent = [j \in Slot |-> IF j \in (i - k + 1) .. (i - 1)
                                                         THEN Mark("LFN") ELSE d.ent[j]]]
RoomFor(d, i, k) == \A j \in (i - k + 1) .. (i - 1) : j \in Slot /\ d.ent[j].name = "FREE"
\* The directory has just been opened, so it is in a buffer; an entry that is not
\* there counts as not free (before the first one the code reads other memory).
MoveFill ==
  LET f == Moved(files[op.h], files[op.src])
      k == op.slots
  IN /\ pc = "name" /\ files[op.h].clus = 0
     /\ \/ /\ k = 1 /\ files' = [files EXCEPT ![op.h] = f]
           /\ Close(<<op.src, op.h>>, "OK") /\ UNCHANGED <<rd, buf>>
        \/ /\ k > 1
           /\ \E b \in DirBufOf(op.h) :
                LET d == Mem(b.buf)
                IN IF RoomFor(d, f.lpos, k)
                     THEN /\ SetMem(b.buf, NameParts(d, f.lpos, k))
                          /\ files' = [files EXCEPT ![op.h] = [f EXCEPT !.fpos = f.lpos - k + 1]]
                          /\ Close(<<op.src, op.h>>, "OK")
                     ELSE /\ files' = [files EXCEPT ![op.h] = f]
                          /\ Close(<<op.src, op.h>>, "UNKNOWN") /\ UNCHANGED <<rd, buf>>
     /\ UNCHANGED <<rdUpdated, disk, used, cur, temp, calls, faults, held>>

-----------------------------------------------------------------------------
(* fatuc_fclose, and fatuc__syncfileinfo for a file that was changed       *)

UserClose(h) ==
  /\ pc = "idle" /\ files[h].used
  /\ pc' = "closing" /\ op' = [NoCall EXCEPT !.call = "close", !.closing = <<h>>]
  /\ UNCHANGED <<diskVars, bufVars, files, calls, faults, held>>

Closing(h) == pc = "closing" /\ op.closing # <<>> /\ h = Head(op.closing)
\* The handle is free again; what it held stays, which matters if it has not
\* been saved.
Release(h, f) ==
  /\ files' = [files EXCEPT ![h] = IF f.upd = {} THEN NoFile ELSE [f EXCEPT !.used = FALSE]]
  /\ op' = [op EXCEPT !.closing = Tail(@)] /\ held' = [held EXCEPT ![h] = "no"]
  /\ UNCHANGED <<pc, calls>>

CloseUnchanged(h) ==
  /\ Closing(h) /\ (files[h].upd = {} \/ ~files[h].used)
  /\ Release(h, files[h])
  /\ UNCHANGED <<diskVars, bufVars, faults>>

\* fatfs_updatefileinfo_indirbuf
UpdatedEntry(e, f) ==
  [e EXCEPT !.size = IF f.upd \cap {"SIZE", "ALL"} # {} THEN f.size ELSE @,
            !.clus = IF f.upd \cap {"CLUS", "ALL"} # {} THEN f.clus ELSE @,
            !.attr = IF "ALL" \in f.upd THEN f.attr ELSE @]
EntryOf(h) == {x \in DirBufOf(h) \X Slot : x[1].full /\ x[2] \in At(Mem(x[1].buf), files[h].name)}

CloseChanged(h) ==
  /\ Closing(h) /\ files[h].upd # {} /\ files[h].used
  /\ EntryOf(h) # {}
  /\ LET b == (CHOOSE x \in EntryOf(h) : TRUE)[1]
         i == FirstOf(At(Mem(b.buf), files[h].name))
         d == [Mem(b.buf) EXCEPT !.ent[i] = UpdatedEntry(@, files[h])]
     IN /\ SetMem(b.buf, d)
        /\ \/ SaveOk(h, b, d) /\ Release(h, [files[h] EXCEPT !.upd = {}]) /\ UNCHANGED faults
           \/ SaveFails(h, b, d) /\ Release(h, files[h])
  /\ UNCHANGED <<used, cur, temp>>

\* The directory is in no buffer, or its entry is not there: the change is
\* lost, and the close does not say so.
CloseLost(h) ==
  /\ Closing(h) /\ files[h].upd # {} /\ files[h].used
  /\ EntryOf(h) = {}
  /\ Release(h, files[h])
  /\ UNCHANGED <<diskVars, bufVars, faults>>

CallEnds ==
  /\ pc = "closing" /\ op.closing = <<>> /\ Return
  /\ UNCHANGED <<diskVars, bufVars, files, calls, faults, held>>

-----------------------------------------------------------------------------
(* The specification                                                       *)

\* What the code leaves behind broken: after a failed save or deletion, a change
\* that was lost, a directory that got no cluster, a removal whose buffer was
\* given up, a move that failed after the source was gone, that found an empty
\* file or that names the current directory by its path, and two things it leaves
\* to its callers: a file opened twice, and the ".." of a directory that moves
\* (ToDo of the Changelog).
OpenTwice(h) == \E g \in Handle \ {h} : /\ files'[g].used /\ files'[h].used
                                        /\ files'[g].name = files'[h].name
                                        /\ files'[g].dclus = files'[h].dclus
Spoils ==
  \/ faults' # faults /\ pc \in {"mkdir", "dots", "remove", "closing"}
  \/ pc = "idle" /\ \E h \in Handle : held[h] # "dead" /\ held'[h] = "dead"
  \/ \E h \in Handle : Closing(h) /\ files[h].used /\ files[h].upd # {} /\ EntryOf(h) = {}
  \/ pc = "remove" /\ held[op.h] \notin {"cur", "temp"}
  \/ pc = "mkdir" /\ pc' = "closing" /\ op'.out = "NOMORE"
  \/ op.src # 0 /\ pc # "closing" /\ op'.out # "OK"
  \/ pc = "name" /\ pc' # "dest" /\ (files[op.h].upd = {} \/ held[op.h] \notin {"cur", "temp"})
  \/ pc = "name" /\ pc' # "dest" /\ files[op.src].attr = "DIR"
                  /\ files[op.src].dclus # files[op.h].dclus
  \/ pc = "find" /\ op.h # 0 /\ OpenTwice(op.h)
Marks == spoilt' = (spoilt \/ Spoils)

\* What the callers ask for.  They write to files and delete them, never
\* directories, and read nothing here.
Ask ==
  \/ \E p \in Paths : Chdir(p) /\ Marks
  \/ \E p \in Paths, n \in Sought : Getfileinfo(p, n) /\ Marks
  \/ \E p \in Paths, n \in Sought : Mkdir(p, n) /\ Marks
  \/ \E p \in Paths, n \in Sought, create \in BOOLEAN : Open(p, n, create) /\ Marks
  \/ \E p \in Paths, n \in Sought, dest \in Dests, to \in NewNames : Move(p, n, dest, to) /\ Marks
  \/ \E h \in Handle : WriteFile(h) /\ Marks
  \/ \E h \in Handle : WriteNothing(h) /\ Marks
  \/ \E h \in Handle : Delete(h) /\ Marks
  \/ \E h \in Handle : UserClose(h) /\ Marks

\* What the code does on their behalf.
Continue ==
  \/ WalkToRoot /\ Marks
  \/ WalkInto /\ Marks
  \/ WalkStop /\ Marks
  \/ WalkEnd /\ Marks
  \/ Find /\ Marks
  \/ FindInfo /\ Marks
  \/ FindNone /\ Marks
  \/ Create /\ Marks
  \/ MkdirExists /\ Marks
  \/ MkdirClear /\ Marks
  \/ MkdirDots /\ Marks
  \/ Remove /\ Marks
  \/ RemoveNowhere /\ Marks
  \/ MoveDest /\ Marks
  \/ MoveTooLong /\ Marks
  \/ MoveClash /\ Marks
  \/ MoveFill /\ Marks
  \/ \E h \in Handle : CloseUnchanged(h) /\ Marks
  \/ \E h \in Handle : CloseChanged(h) /\ Marks
  \/ \E h \in Handle : CloseLost(h) /\ Marks
  \/ CallEnds /\ Marks

Next == Ask \/ Continue

\* The code runs to the end of a call; the callers may stop at any time.
Spec == Init /\ [][Next]_vars /\ WF_vars(Continue)

-----------------------------------------------------------------------------
(* Properties                                                              *)

TypeOK ==
  /\ rd \in DirType /\ rdUpdated \in BOOLEAN /\ disk \in [Clus -> DirType] /\ used \subseteq Chains
  /\ buf \in [{"b1", "b2"} -> DirType]
  /\ cur.buf \in {"b1", "b2", "RD"} /\ cur.clus \in Clus
  /\ temp.buf \in {"b1", "b2", "RD"} /\ temp.clus \in Clus /\ temp.full \in BOOLEAN
  /\ \A h \in Handle : /\ files[h].upd \subseteq {"ALL", "CLUS", "SIZE"} /\ files[h].dclus \in Clus
                       /\ files[h].lpos \in 0 .. NumSlots /\ files[h].fpos \in 0 .. files[h].lpos
                       /\ files[h].fpos = 0 => files[h].lpos = 0
  /\ pc \in {"idle", "walk", "find", "mkdir", "dots", "remove", "dest", "name", "closing"}
  /\ op.h \in 0 .. NumFiles /\ op.src \in 0 .. NumFiles /\ op.at.clus \in Clus
  /\ op.tries \in 0 .. MaxTries
  /\ held \in [Handle -> {"cur", "temp", "no", "dead"}] /\ spoilt \in BOOLEAN

\* While no later call has taken its buffer away, the directory of an open file
\* is found by its first cluster (fatuc__getdirbufoffile) in the buffer it was
\* opened from, filled, with the file's entry where the open found it: a stale
\* length, cluster or pointer left by a change of directory would name another.
HeldFound ==
  \A h \in Handle :
    files[h].used /\ held[h] \in {"cur", "temp"} =>
      /\ DirBufOf(h) = {IF held[h] = "cur" THEN DirBuf(cur.buf, TRUE) ELSE DirBuf(temp.buf, TRUE)}
      /\ spoilt \/ \E b \in DirBufOf(h) : Mem(b.buf).ent[files[h].lpos].name = files[h].name

\* A close loses the changes of a file only if a change of directory or a path
\* has taken its directory's buffer since it was opened (Changelog of 01Mar2005;
\* FIXME in fatuc__getdirbufoffile): never one whose buffer is still there.
SyncSucceeds ==
  [][\A h \in Handle : CloseLost(h) /\ ~spoilt => held[h] = "no"]_vars

\* The directories as the next mount would find them.
View(c) == IF c # Root THEN disk[c] ELSE IF rdUpdated THEN rd ELSE disk[Root]
Entries == {x \in Clus \X Slot : x[2] \in Live(View(x[1])) /\ (x[1] = Root \/ View(x[1]).self # -1)}
EntryAt(x) == View(x[1]).ent[x[2]]
HasChain == {x \in Entries : EntryAt(x).clus # 0}

\* Unless something went wrong that the code does not put right, the tree is
\* sound between calls: no two entries name one chain, a named chain is
\* allocated and an allocated one named (or its file still open), names are
\* unique, and a directory's "." and ".." are itself and its parent.
TreeSound ==
  pc = "idle" /\ ~spoilt =>
    /\ \A x, y \in HasChain : EntryAt(x).clus = EntryAt(y).clus => x = y
    /\ {EntryAt(x).clus : x \in HasChain} \subseteq used
    /\ used \subseteq {EntryAt(x).clus : x \in HasChain}
                    \cup {files[h].clus : h \in {g \in Handle : files[g].used}}
    /\ \A x, y \in Entries : x[1] = y[1] /\ EntryAt(x).name = EntryAt(y).name => x = y
    /\ \A x \in Entries : EntryAt(x).attr = "DIR" =>
         LET c == EntryAt(x).clus IN c # 0 /\ disk[c].self = c /\ disk[c].up = x[1]

\* A step takes away or redirects an entry on the disk only if the call is about
\* that file: saving a directory buffer never writes an older copy over the
\* entries of other files.
About(c, n) == \E h \in Handle : /\ files[h].dclus = c /\ files[h].name = n
                                /\ (h = op.h \/ (op.closing # <<>> /\ h = Head(op.closing)))
EntriesKept ==
  [][~spoilt' => \A c \in Chains, i \in Slot :
       LET e == disk[c].ent[i]
       IN i \in Live(disk[c]) /\ e.clus # 0 /\ disk'[c].ent[i] # e
            => About(c, e.name) \/ disk[c].self = -1]_vars

\* fatfs.h: "ch[ange]dir: user giving wrong path won't affect the uc".
WrongPathHarmless == [][WalkStop /\ op.call = "chdir" => temp' = op.was /\ buf' = buf /\ cur' = cur]_vars

=============================================================================
