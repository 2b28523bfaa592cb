---------------------------- MODULE DirTreeProofs ----------------------------
(***************************************************************************)
(* The tree of directories keeps its shape whatever the calls do to it.    *)
(* The invariant TreeOK relates the entries on the disk and in memory, the *)
(* chains in use, the open files that carry a chain no entry names yet,    *)
(* and the buffers the calls work in; every step that does not itself go   *)
(* wrong (Spoils) keeps it.                                                *)
(***************************************************************************)
EXTENDS DirBufsProofs

-----------------------------------------------------------------------------
(* The tree of directories, between the calls and within them              *)

\* A directory as the calls know it: the root is in memory, the others are on
\* the disk, and files and subdirectories are there by their entries.
Dirs(c) == IF c = Root THEN rd ELSE disk[c]
E(c, i) == Dirs(c).ent[i]

\* An open file the program may still change; one whose chain or entry is not in
\* its directory yet; the source of a move, which is in none.
Active(h) == files[h].used /\ files[h].name \in Names /\ held[h] # "dead"
Dirty(h) == Active(h) /\ files[h].upd \cap {"CLUS", "ALL"} # {}
New(h) == Active(h) /\ "ALL" \in files[h].upd
Source(h) == h = op.src /\ pc # "closing"
Carries(h) == (Source(h) \/ Dirty(h)) /\ files[h].clus # 0
CarriesDir(h) == (Source(h) \/ New(h)) /\ files[h].attr = "DIR"

\* The chain of a file that is being deleted is free before its entry is.
Going(c) == pc = "remove" /\ op.call = "delete" /\ c = files[op.h].clus

\* Directories have an entry, or are being made or moved.
DirEntry(c) == \E d \in Clus, j \in Slot : E(d, j).attr = "DIR" /\ E(d, j).clus = c
DirFile(c) == \E h \in Handle : CarriesDir(h) /\ files[h].clus = c
IsDir(c) == c = Root \/ DirEntry(c) \/ DirFile(c)

\* Every chain in use has one owner: an entry or a file that carries it.
EntriesApart ==
  \A c, d \in Clus, i, j \in Slot : E(c, i).clus # 0 /\ E(c, i).clus = E(d, j).clus => c = d /\ i = j
CarriedApart ==
  /\ \A h \in Handle : Carries(h) => \A c \in Clus, i \in Slot : E(c, i).clus # files[h].clus
  /\ \A g, h \in Handle : Carries(g) /\ Carries(h) /\ files[g].clus = files[h].clus => g = h
OwnedUsed ==
  /\ \A c \in Clus, i \in Slot : E(c, i).clus # 0 => E(c, i).clus \in used \/ Going(E(c, i).clus)
  /\ \A h \in Handle : Carries(h) => files[h].clus \in used \/ Going(files[h].clus)
UsedOwned ==
  \A k \in used : \/ \E c \in Clus, i \in Slot : E(c, i).clus = k
                  \/ \E h \in Handle : Carries(h) /\ files[h].clus = k
Owners == EntriesApart /\ CarriedApart /\ OwnedUsed /\ UsedOwned

\* A directory knows itself and its parent, and nothing else bears entries.
EntryDots ==
  \A c \in Clus, i \in Slot : E(c, i).attr = "DIR" =>
    LET k == E(c, i).clus IN k # Root /\ disk[k].self = k /\ disk[k].up = c
FileDots ==
  \A h \in Handle : CarriesDir(h) =>
    LET k == files[h].clus
    IN /\ k # Root
       /\ ~(pc = "dots" /\ h = op.h) => disk[k].self = k /\ disk[k].up = files[h].dclus
NamesInDirs == \A c \in Chains, i \in Slot : E(c, i).name \in Names => IsDir(c)
Dotted == EntryDots /\ FileDots /\ NamesInDirs /\ rd.up = -1

\* Where the calls are, and where the files are they work with.
Rooted ==
  /\ IsDir(cur.clus) /\ (temp.full => IsDir(temp.clus))
  /\ pc \in {"walk", "find"} => IsDir(op.at.clus)
  /\ \A h \in Handle : Active(h) \/ Source(h) => IsDir(files[h].dclus)

\* An open file and its entry agree, as far as the file has not been changed.
Known(h) ==
  IF Dirty(h)
    THEN \A i \in Slot : E(files[h].dclus, i).name = files[h].name => E(files[h].dclus, i).clus = 0
    ELSE \E i \in Slot : LET e == E(files[h].dclus, i)
                         IN e.name = files[h].name /\ e.clus = files[h].clus /\ e.attr = files[h].attr
AllKnown == \A h \in Handle : Active(h) => Known(h)
OpenOnce ==
  \A g, h \in Handle : files[g].used /\ files[h].used /\ files[g].name \in Names /\ Twice(g, h) => g = h

\* A buffer is its directory, with the entries of the new files in addition.
Added(e, c) ==
  /\ e.clus = 0 /\ e.attr = "ARCHIVE"
  /\ \E h \in Handle : New(h) /\ files[h].name = e.name /\ files[h].dclus = c
Fresh(d, c) ==
  /\ d.self = Dirs(c).self /\ d.up = Dirs(c).up
  /\ \A i \in Slot : /\ E(c, i).name \in Names => d.ent[i] = E(c, i)
                     /\ d.ent[i].name \in Names /\ d.ent[i] # E(c, i) => Added(d.ent[i], c)
BufsFresh ==
  /\ Fresh(Mem(cur.buf), cur.clus)
  /\ temp.full /\ temp.clus # cur.clus => Fresh(Mem(temp.buf), temp.clus)
  /\ pc \in {"walk", "find"} /\ op.at.buf = temp.buf => Mem(op.at.buf) = Dirs(op.at.clus)
RootFresh ==
  ~rdUpdated => \A i \in Slot : /\ disk[Root].ent[i].name \in Names => rd.ent[i] = disk[Root].ent[i]
                                /\ rd.ent[i].clus # 0 => rd.ent[i] = disk[Root].ent[i]
\* Names are unique, and what has no name has nothing else.
Clean(d) ==
  /\ \A i \in Slot : d.ent[i].name \notin Names => d.ent[i] = Mark(d.ent[i].name)
  /\ \A i, j \in Slot : d.ent[i].name \in Names /\ d.ent[i].name = d.ent[j].name => i = j
AllClean == (\A c \in Clus : Clean(disk[c])) /\ \A b \in BufName : Clean(Mem(b))

\* What the calls have at their places.
Blank(f) == f.name \notin Names => f.attr = "" /\ f.clus = 0 /\ f.upd = {}
Blanks == \A h \in Handle : Blank(files[h]) /\ (~files[h].used => files[h] = NoFile)
SourceAt ==
  /\ pc = "idle" => op = NoCall
  /\ (pc \in {"mkdir", "dots", "remove"} \/ op.call # "move") => op.src = 0
  /\ op.src # 0 /\ pc # "closing" =>
       /\ files[op.src].used /\ held[op.src] = "dead" /\ files[op.src].upd = {} /\ op.h # op.src
       /\ files[op.src].name \in Names
FileAt ==
  /\ pc \in {"mkdir", "dots", "name", "remove"} => Active(op.h)
  /\ pc \in {"mkdir", "name"} =>
       \/ files[op.h].upd = {}
       \/ files[op.h].upd = {"ALL"} /\ files[op.h].clus = 0 /\ files[op.h].attr = "ARCHIVE"
  /\ pc = "dots" =>
       LET f == files[op.h]
       IN /\ f.attr = "DIR" /\ f.clus # 0 /\ "CLUS" \in f.upd /\ disk[f.clus] = Zeros
          /\ cur.clus # f.clus /\ (temp.full => temp.clus # f.clus)
  /\ pc = "remove" /\ op.call = "move" => files[op.h].upd = {}
  /\ pc = "remove" /\ op.call = "delete" =>
       files[op.h].attr = "ARCHIVE" /\ files[op.h].clus \notin used
  /\ pc \in {"walk", "find"} /\ op.call = "move" /\ op.src = 0 => ~op.create
  /\ pc \in {"walk", "find"} /\ op.h # 0 => files[op.h] = [NoFile EXCEPT !.used = TRUE]
Stages == Blanks /\ SourceAt /\ FileAt

TreeOK ==
  /\ Owners /\ Dotted /\ Rooted /\ AllKnown /\ OpenOnce
  /\ BufsFresh /\ RootFresh /\ AllClean /\ Stages

-----------------------------------------------------------------------------
(* What the entries are                                                    *)

LEMMA DirsType ==
  ASSUME DiskTypes, NEW c \in Clus
  PROVE  Dirs(c) \in DirType
  BY DEF DiskTypes, Dirs

LEMMA EntryTypes ==
  ASSUME NEW d \in DirType, NEW i \in Slot
  PROVE  /\ d.ent[i] \in EntryType /\ d.ent[i].clus \in Clus
         /\ d.ent[i].attr \in {"", "ARCHIVE", "DIR"}
         /\ d.ent[i].name \in Names \cup {"END", "FREE", "LFN"}
<1>1. d.ent \in [Slot -> EntryType]
  BY DirOf
<1>2. d.ent[i] \in EntryType
  BY <1>1
<1> QED BY <1>2 DEF EntryType

LEMMA EType ==
  ASSUME DiskTypes, NEW c \in Clus, NEW i \in Slot
  PROVE  /\ E(c, i) \in EntryType /\ E(c, i).clus \in Clus
         /\ E(c, i).attr \in {"", "ARCHIVE", "DIR"}
  BY DirsType, EntryTypes DEF E

\* What has no name has no chain, either, and is no directory.
LEMMA NoName ==
  ASSUME NEW d \in DirType, Clean(d), NEW i \in Slot, d.ent[i].name \notin Names
  PROVE  d.ent[i].clus = 0 /\ d.ent[i].attr = "" /\ d.ent[i] = Mark(d.ent[i].name)
<1> PICK n : n = d.ent[i].name
  OBVIOUS
<1>1. d.ent[i] = Mark(n)
  BY DEF Clean
<1>2. Mark(n).clus = 0 /\ Mark(n).attr = ""
  BY DEF Mark, Entry
<1> QED BY <1>1, <1>2

LEMMA DirsClean ==
  ASSUME AllClean, NEW c \in Clus
  PROVE  Clean(Dirs(c))
<1>1. CASE c = Root
  <2>1. "RD" \in BufName /\ Mem("RD") = rd
    BY DEF BufName, Mem
  <2> QED BY <1>1, <2>1 DEF AllClean, Dirs
<1>2. CASE c # Root
  BY <1>2 DEF AllClean, Dirs
<1> QED BY <1>1, <1>2

LEMMA Unnamed ==
  ASSUME DiskTypes, AllClean, NEW c \in Clus, NEW i \in Slot, E(c, i).name \notin Names
  PROVE  E(c, i).clus = 0 /\ E(c, i).attr = "" /\ E(c, i) = Mark(E(c, i).name)
  BY DirsType, DirsClean, NoName DEF E

\* The directories are there, the chain of one has no other owner.
LEMMA DirEntryNot ==
  ASSUME EntryDots, NEW c \in Clus, NEW i \in Slot, E(c, i).attr = "DIR"
  PROVE  IsDir(E(c, i).clus) /\ E(c, i).clus # 0
  BY DEF EntryDots, IsDir, DirEntry, Root

LEMMA EntryNotDir ==
  ASSUME Owners, Dotted, NEW c \in Clus, NEW i \in Slot, E(c, i).clus # 0, E(c, i).attr # "DIR"
  PROVE  ~IsDir(E(c, i).clus)
<1> PICK k : k = E(c, i).clus
  OBVIOUS
<1>1. ~DirEntry(k)
  BY DEF DirEntry, Owners, EntriesApart
<1>2. ~DirFile(k)
  BY DEF DirFile, Owners, CarriedApart, Carries, CarriesDir, New, Dirty
<1> QED BY <1>1, <1>2 DEF IsDir, Root

LEMMA CarriedNotDir ==
  ASSUME Owners, Dotted, NEW h \in Handle, Carries(h), ~CarriesDir(h)
  PROVE  ~IsDir(files[h].clus)
<1> PICK k : k = files[h].clus
  OBVIOUS
<1>1. k # 0
  BY DEF Carries
<1>2. ~DirEntry(k)
  BY DEF DirEntry, Owners, CarriedApart
<1>3. ~DirFile(k)
  <2>1. SUFFICES ASSUME NEW g \in Handle, CarriesDir(g), files[g].clus = k PROVE FALSE
    BY DEF DirFile
  <2>2. Carries(g)
    BY <1>1, <2>1 DEF Carries, CarriesDir, New, Dirty
  <2>3. g = h
    BY <2>1, <2>2 DEF Owners, CarriedApart
  <2> QED BY <2>1, <2>3
<1> QED BY <1>1, <1>2, <1>3 DEF IsDir, Root

LEMMA UnusedNotDir ==
  ASSUME Owners, Dotted, NEW k, k # 0, k \notin used, ~Going(k)
  PROVE  ~IsDir(k)
<1>1. ~DirEntry(k)
  BY DEF DirEntry, Owners, OwnedUsed
<1>2. ~DirFile(k)
  <2>1. SUFFICES ASSUME NEW g \in Handle, CarriesDir(g), files[g].clus = k PROVE FALSE
    BY DEF DirFile
  <2>2. Carries(g)
    BY <2>1 DEF Carries, CarriesDir, New, Dirty
  <2> QED BY <2>1, <2>2 DEF Owners, OwnedUsed
<1> QED BY <1>1, <1>2 DEF IsDir, Root

\* What is no directory has no entries.
LEMMA NothingIn ==
  ASSUME TInv, AllClean, Dotted, NEW k \in Chains, ~IsDir(k), NEW i \in Slot
  PROVE  /\ E(k, i).name \notin Names /\ E(k, i).clus = 0 /\ E(k, i).attr = ""
         /\ E(k, i) = disk[k].ent[i]
<1>1. E(k, i).name \notin Names
  BY DEF Dotted, NamesInDirs
<1>2. k \in Clus /\ k # Root
  BY ClusFacts
<1> QED BY <1>1, <1>2, Unnamed DEF E, Dirs, TInv

-----------------------------------------------------------------------------
(* Steps that leave the chains with their owners                           *)

SameChains ==
  \A c \in Clus, i \in Slot : /\ E(c, i)'.clus = E(c, i).clus
                              /\ E(c, i)'.attr = "DIR" <=> E(c, i).attr = "DIR"
SameCarries(h) ==
  /\ Carries(h)' <=> Carries(h)
  /\ Carries(h) => files'[h].clus = files[h].clus
  /\ CarriesDir(h)' <=> CarriesDir(h)
  /\ CarriesDir(h) => files'[h].clus = files[h].clus /\ files'[h].dclus = files[h].dclus
SameDots == \A k \in Clus : IsDir(k) => disk'[k].self = disk[k].self /\ disk'[k].up = disk[k].up
NoneGoing == (pc = "remove" => op.call # "delete") /\ (pc' = "remove" => op'.call # "delete")

\* A file a step leaves as it is, or that has nothing to lose.
FileStays(h) ==
  \/ files'[h] = files[h] /\ (Active(h)' <=> Active(h)) /\ (Source(h)' <=> Source(h))
  \/ ~Dirty(h) /\ ~Source(h) /\ ~Dirty(h)' /\ ~Source(h)'

LEMMA StaysCarries ==
  ASSUME NEW h \in Handle, FileStays(h)
  PROVE  SameCarries(h) /\ (New(h)' <=> New(h)) /\ (New(h) => files'[h] = files[h])
<1>1. CASE files'[h] = files[h] /\ (Active(h)' <=> Active(h)) /\ (Source(h)' <=> Source(h))
  BY <1>1 DEF SameCarries, Carries, CarriesDir, Dirty, New
<1>2. CASE ~Dirty(h) /\ ~Source(h) /\ ~Dirty(h)' /\ ~Source(h)'
  BY <1>2 DEF SameCarries, Carries, CarriesDir, Dirty, New
<1> QED BY <1>1, <1>2 DEF FileStays

LEMMA OwnersSame ==
  ASSUME Owners, SameChains, \A h \in Handle : SameCarries(h), UNCHANGED used, NoneGoing
  PROVE  Owners'
<1>1. \A k : ~Going(k) /\ ~Going(k)'
  BY DEF Going, NoneGoing
<1>2. EntriesApart'
  BY DEF Owners, EntriesApart, SameChains
<1>3. CarriedApart'
  <2>1. ASSUME NEW h \in Handle, Carries(h)', NEW c \in Clus, NEW i \in Slot
        PROVE  E(c, i)'.clus # files'[h].clus
    BY <2>1 DEF Owners, CarriedApart, SameChains, SameCarries
  <2>2. ASSUME NEW g \in Handle, NEW h \in Handle, Carries(g)', Carries(h)', files'[g].clus = files'[h].clus
        PROVE  g = h
    BY <2>2 DEF Owners, CarriedApart, SameCarries
  <2> QED BY <2>1, <2>2 DEF CarriedApart
<1>4. OwnedUsed'
  <2>1. ASSUME NEW c \in Clus, NEW i \in Slot, E(c, i)'.clus # 0
        PROVE  E(c, i)'.clus \in used'
    BY <1>1, <2>1 DEF Owners, OwnedUsed, SameChains
  <2>2. ASSUME NEW h \in Handle, Carries(h)'
        PROVE  files'[h].clus \in used'
    BY <1>1, <2>2 DEF Owners, OwnedUsed, SameCarries
  <2> QED BY <2>1, <2>2 DEF OwnedUsed
<1>5. UsedOwned'
  <2>1. SUFFICES ASSUME NEW k \in used
                 PROVE  \/ \E c \in Clus, i \in Slot : E(c, i)'.clus = k
                        \/ \E h \in Handle : Carries(h)' /\ files'[h].clus = k
    BY DEF UsedOwned
  <2>2. CASE \E c \in Clus, i \in Slot : E(c, i).clus = k
    BY <2>2 DEF SameChains
  <2>3. CASE \E h \in Handle : Carries(h) /\ files[h].clus = k
    BY <2>3 DEF SameCarries
  <2> QED BY <2>2, <2>3 DEF Owners, UsedOwned
<1> QED BY <1>2, <1>3, <1>4, <1>5 DEF Owners

LEMMA DirsSame ==
  ASSUME SameChains, \A h \in Handle : SameCarries(h), NEW k
  PROVE  IsDir(k)' <=> IsDir(k)
<1>1. DirEntry(k)' <=> DirEntry(k)
  BY DEF DirEntry, SameChains
<1>2. DirFile(k)' <=> DirFile(k)
  BY DEF DirFile, SameCarries
<1> QED BY <1>1, <1>2 DEF IsDir

LEMMA EntryDotsSame ==
  ASSUME TInv, EntryDots, SameChains, SameDots
  PROVE  EntryDots'
<1>1. SUFFICES ASSUME NEW c \in Clus, NEW i \in Slot, E(c, i)'.attr = "DIR"
               PROVE  LET k == E(c, i)'.clus IN k # Root /\ disk'[k].self = k /\ disk'[k].up = c
  BY DEF EntryDots
<1>2. E(c, i).attr = "DIR" /\ E(c, i)'.clus = E(c, i).clus
  BY <1>1 DEF SameChains
<1>3. E(c, i).clus \in Clus
  BY EType DEF TInv
<1>4. IsDir(E(c, i).clus)
  BY <1>2, DirEntryNot
<1> QED BY <1>2, <1>3, <1>4 DEF EntryDots, SameDots

LEMMA FileDotsSame ==
  ASSUME TInv, FileDots, \A h \in Handle : SameCarries(h), SameDots, pc # "dots"
  PROVE  FileDots'
<1>1. SUFFICES ASSUME NEW h \in Handle, CarriesDir(h)'
               PROVE  LET k == files'[h].clus
                      IN /\ k # Root
                         /\ disk'[k].self = k /\ disk'[k].up = files'[h].dclus
  BY DEF FileDots
<1>2. CarriesDir(h) /\ files'[h].clus = files[h].clus /\ files'[h].dclus = files[h].dclus
  BY <1>1 DEF SameCarries
<1>3. files[h].clus \in Clus
  BY DEF TInv, FileTypes, FileType
<1>4. IsDir(files[h].clus)
  BY <1>2 DEF IsDir, DirFile
<1> QED BY <1>2, <1>3, <1>4 DEF FileDots, SameDots

-----------------------------------------------------------------------------
(* Steps that leave the directories alone                                  *)

Quiet ==
  /\ UNCHANGED <<rd, rdUpdated, disk, used>> /\ NoneGoing /\ pc # "dots" /\ pc' # "dots"
  /\ \A h \in Handle : FileStays(h)
SameFile(h) == files'[h] = files[h] /\ (Active(h)' <=> Active(h)) /\ (Source(h)' <=> Source(h))
NewStays == \A h \in Handle : New(h) => New(h)' /\ files'[h].name = files[h].name
                                        /\ files'[h].dclus = files[h].dclus

LEMMA QuietDirs ==
  ASSUME UNCHANGED <<rd, disk>>
  PROVE  /\ \A c : Dirs(c)' = Dirs(c)
         /\ \A c, i : E(c, i)' = E(c, i)
         /\ SameChains
<1>1. \A c : Dirs(c)' = Dirs(c)
  BY DEF Dirs
<1>2. \A c, i : E(c, i)' = E(c, i)
  BY <1>1 DEF E
<1> QED BY <1>1, <1>2 DEF SameChains

LEMMA QuietTree ==
  ASSUME TInv, TreeOK, Quiet
  PROVE  /\ Owners' /\ Dotted' /\ RootFresh' /\ NewStays
         /\ \A k : IsDir(k)' <=> IsDir(k)
<1>1. SameChains /\ (\A c, i : E(c, i)' = E(c, i))
  BY QuietDirs DEF Quiet
<1>2. \A h \in Handle : SameCarries(h)
  BY StaysCarries DEF Quiet
<1>3. SameDots
  BY DEF Quiet, SameDots
<1>4. Owners'
  BY <1>1, <1>2, OwnersSame DEF TreeOK, Quiet
<1>5. \A k : IsDir(k)' <=> IsDir(k)
  BY <1>1, <1>2, DirsSame
<1>6. EntryDots'
  BY <1>1, <1>3, EntryDotsSame DEF TreeOK, Dotted
<1>7. FileDots'
  BY <1>2, <1>3, FileDotsSame DEF TreeOK, Dotted, Quiet
<1>8. NamesInDirs'
  BY <1>1, <1>5 DEF TreeOK, Dotted, NamesInDirs
<1>9. Dotted'
  BY <1>6, <1>7, <1>8 DEF TreeOK, Dotted, Quiet
<1>10. RootFresh'
  BY DEF TreeOK, RootFresh, Quiet
<1>11. NewStays
  BY StaysCarries DEF Quiet, NewStays
<1> QED BY <1>4, <1>5, <1>9, <1>10, <1>11

LEMMA KnownSame ==
  ASSUME AllKnown, UNCHANGED <<rd, disk>>, NEW h \in Handle, SameFile(h), Active(h)'
  PROVE  Known(h)'
<1>1. \A c, i : E(c, i)' = E(c, i)
  BY QuietDirs
<1>2. Known(h) /\ files'[h] = files[h] /\ (Dirty(h)' <=> Dirty(h))
  BY DEF AllKnown, SameFile, Dirty
<1> QED BY <1>1, <1>2 DEF Known

\* No file is opened.
LEMMA OnceSame ==
  ASSUME OpenOnce,
         \A h \in Handle : files'[h].used /\ files'[h].name \in Names =>
           files[h].used /\ files'[h].name = files[h].name /\ files'[h].dclus = files[h].dclus
  PROVE  OpenOnce'
<1>1. SUFFICES ASSUME NEW g \in Handle, NEW h \in Handle, files'[g].used, files'[h].used,
                      files'[g].name \in Names, Twice(g, h)'
               PROVE  g = h
  BY DEF OpenOnce
<1>2. files'[g].name = files'[h].name /\ files'[g].dclus = files'[h].dclus
  BY <1>1 DEF Twice
<1> QED BY <1>1, <1>2 DEF OpenOnce, Twice

\* One file is opened, and the step does not open it twice.
LEMMA OnceNew ==
  ASSUME TInv, OpenOnce, NEW g \in Handle, NEW f, files' = [files EXCEPT ![g] = f], ~OpenTwice(g)
  PROVE  OpenOnce'
<1>1. SUFFICES ASSUME NEW x \in Handle, NEW h \in Handle, files'[x].used, files'[h].used,
                      files'[x].name \in Names, Twice(x, h)', x # h
               PROVE  FALSE
  BY DEF OpenOnce
<1>2. files'[x].name = files'[h].name /\ files'[x].dclus = files'[h].dclus
  BY <1>1 DEF Twice
<1>3. x # g /\ h # g
  BY <1>1, <1>2 DEF OpenTwice
<1>4. files'[x] = files[x] /\ files'[h] = files[h]
  BY <1>3 DEF TInv, FileTypes
<1> QED BY <1>1, <1>2, <1>4 DEF OpenOnce, Twice

LEMMA RootedAfter ==
  ASSUME NEW x, x = cur'.clus, IsDir(x)',
         NEW y, y = temp'.clus, temp'.full => IsDir(y)',
         NEW z, z = op'.at.clus, pc' \in {"walk", "find"} => IsDir(z)',
         \A k : \A h \in Handle : (Active(h)' \/ Source(h)') /\ k = files'[h].dclus => IsDir(k)'
  PROVE  Rooted'
<1>1. IsDir(cur.clus)'
  BY DEF IsDir, DirEntry, DirFile
<1>2. temp'.full => IsDir(temp.clus)'
  BY DEF IsDir, DirEntry, DirFile
<1>3. pc' \in {"walk", "find"} => IsDir(op.at.clus)'
  BY DEF IsDir, DirEntry, DirFile
<1>4. ASSUME NEW h \in Handle, Active(h)' \/ Source(h)'
      PROVE  IsDir(files[h].dclus)'
  <2> PICK k : k = files'[h].dclus
    OBVIOUS
  <2>1. IsDir(k)'
    BY <1>4
  <2> QED BY <2>1 DEF IsDir, DirEntry, DirFile
<1> QED BY <1>1, <1>2, <1>3, <1>4 DEF Rooted

LEMMA FreshItself ==
  ASSUME NEW c
  PROVE  Fresh(Dirs(c), c)
  BY DEF Fresh, E

LEMMA FreshSame ==
  ASSUME UNCHANGED <<rd, disk>>, NewStays, NEW d, NEW c, Fresh(d, c)
  PROVE  Fresh(d, c)'
<1>1. Dirs(c)' = Dirs(c) /\ \A i : E(c, i)' = E(c, i)
  BY QuietDirs
<1>2. \A i \in Slot : Added(d.ent[i], c) => Added(d.ent[i], c)'
  BY DEF Added, NewStays
<1> QED BY <1>1, <1>2 DEF Fresh

-----------------------------------------------------------------------------
(* What a step has to show                                                 *)

LEMMA FreshBufs ==
  ASSUME NEW m, m = Mem(cur.buf)', NEW c, c = cur'.clus, Fresh(m, c)',
         NEW n, n = Mem(temp.buf)', NEW t, t = temp'.clus, temp'.full /\ t # c => Fresh(n, t)',
         NEW a, a = Mem(op.at.buf)', NEW z, z = op'.at.clus,
         pc' \in {"walk", "find"} /\ op'.at.buf = temp'.buf => a = Dirs(z)'
  PROVE  BufsFresh'
<1>1. Fresh(Mem(cur.buf), cur.clus)'
  BY DEF Fresh, Added, E, Dirs
<1>2. temp'.full /\ temp'.clus # cur'.clus => Fresh(Mem(temp.buf), temp.clus)'
  BY DEF Fresh, Added, E, Dirs
<1>3. pc' \in {"walk", "find"} /\ op'.at.buf = temp'.buf => Mem(op.at.buf)' = Dirs(op.at.clus)'
  BY DEF Dirs
<1> QED BY <1>1, <1>2, <1>3 DEF BufsFresh

LEMMA CleanRead ==
  ASSUME DiskTypes, AllClean, UNCHANGED <<disk, rd>>, NEW c \in Clus, NEW b,
         buf' = buf \/ buf' = [buf EXCEPT ![b] = disk[c]]
  PROVE  AllClean'
<1>1. \A x \in BufName : Mem(x)' = Mem(x) \/ Mem(x)' = disk[c]
  BY DEF DiskTypes, BufName, Bufs, Mem
<1>2. ASSUME NEW x \in BufName PROVE Clean(Mem(x))'
  <2> PICK m : m = Mem(x)'
    OBVIOUS
  <2>1. Clean(m)
    BY <1>1 DEF AllClean
  <2> QED BY <2>1 DEF Clean
<1>3. \A x \in Clus : Clean(disk[x])'
  BY DEF AllClean, Clean
<1> QED BY <1>2, <1>3 DEF AllClean

LEMMA QuietWhole ==
  ASSUME TInv, TreeOK, Quiet, OpenOnce', BufsFresh', AllClean', Stages',
         \A h \in Handle : \/ SameFile(h) \/ ~Active(h)'
                           \/ Known(h)' /\ IsDir(op.at.clus) /\ files'[h].dclus = op.at.clus,
         NEW x, x = cur'.clus, IsDir(x),
         NEW y, y = temp'.clus, temp'.full => IsDir(y),
         NEW z, z = op'.at.clus, pc' \in {"walk", "find"} => IsDir(z)
  PROVE  TreeOK'
<1>1. Owners' /\ Dotted' /\ RootFresh' /\ (\A k : IsDir(k)' <=> IsDir(k))
  BY QuietTree
<1>2. AllKnown'
  <2>1. SUFFICES ASSUME NEW h \in Handle, Active(h)' PROVE Known(h)'
    BY DEF AllKnown
  <2> QED BY <2>1, KnownSame DEF TreeOK, Quiet
<1>3. ASSUME NEW h \in Handle, NEW k, Active(h)' \/ Source(h)', k = files'[h].dclus
      PROVE  IsDir(k)'
  <2>1. CASE SameFile(h)
    BY <1>1, <1>3, <2>1 DEF SameFile, TreeOK, Rooted
  <2>2. CASE ~SameFile(h)
    <3>1. ~Source(h)'
      BY <2>2 DEF Quiet, FileStays, SameFile
    <3> QED BY <1>1, <1>3, <2>2, <3>1
  <2> QED BY <2>1, <2>2
<1>4. Rooted'
  <2>1. IsDir(x)' /\ (temp'.full => IsDir(y)') /\ (pc' \in {"walk", "find"} => IsDir(z)')
    BY <1>1
  <2> QED BY <1>3, <2>1, RootedAfter
<1> QED BY <1>1, <1>2, <1>4 DEF TreeOK

\* A step that reads no directory.
LEMMA FreshStill ==
  ASSUME BufsFresh, UNCHANGED <<rd, buf, disk, cur, temp>>, NewStays,
         pc' \in {"walk", "find"} => pc \in {"walk", "find"} /\ op'.at = op.at
  PROVE  BufsFresh'
<1> PICK m : m = Mem(cur.buf)
  OBVIOUS
<1> PICK c : c = cur.clus
  OBVIOUS
<1> PICK n : n = Mem(temp.buf)
  OBVIOUS
<1> PICK t : t = temp.clus
  OBVIOUS
<1> PICK a : a = Mem(op.at.buf)'
  OBVIOUS
<1> PICK z : z = op'.at.clus
  OBVIOUS
<1>1. m = Mem(cur.buf)' /\ n = Mem(temp.buf)' /\ c = cur'.clus /\ t = temp'.clus
  BY DEF Mem
<1>2. Fresh(m, c)' /\ (temp'.full /\ t # c => Fresh(n, t)')
  BY FreshSame DEF BufsFresh
<1>3. pc' \in {"walk", "find"} /\ op'.at.buf = temp'.buf => a = Dirs(z)'
  <2>1. SUFFICES ASSUME pc' \in {"walk", "find"}, op'.at.buf = temp'.buf PROVE a = Dirs(z)'
    OBVIOUS
  <2>2. a = Mem(op.at.buf) /\ z = op.at.clus
    BY <2>1 DEF Mem
  <2>3. a = Dirs(z)
    BY <2>1, <2>2 DEF BufsFresh
  <2> QED BY <2>3, QuietDirs
<1> QED BY <1>1, <1>2, <1>3, FreshBufs

LEMMA CleanStill ==
  ASSUME DiskTypes, AllClean, UNCHANGED <<rd, buf, disk>>
  PROVE  AllClean'
  BY CleanRead, ClusFacts

\* Where a walk has come to and where a search is, the directory is at hand.
LEMMA RootAtHand == Mem("RD") = Dirs(Root)
  BY DEF Mem, Dirs

LEMMA AtFresh ==
  ASSUME TInv, BInv, BufsFresh, pc \in {"walk", "find"},
         NEW m, m = Mem(op.at.buf), NEW z, z = op.at.clus
  PROVE  Fresh(m, z)
<1>1. CASE op.at = cur
  BY <1>1 DEF BufsFresh
<1>2. CASE op.at.buf = temp.buf
  <2>1. m = Dirs(z)
    BY <1>2 DEF BufsFresh
  <2> QED BY <2>1, FreshItself
<1>3. CASE op.at.buf = "RD"
  <2>1. z = Root \/ op.at = cur \/ op.at.buf = temp.buf
    BY <1>3 DEF BInv, WalkAt, FindAt, Proper
  <2>2. CASE z = Root
    <3>1. m = Dirs(z)
      BY <1>3, <2>2, RootAtHand
    <3> QED BY <3>1, FreshItself
  <2> QED BY <1>1, <1>2, <2>1, <2>2
<1>4. CASE op.at.buf = cur.buf /\ op.at.clus = cur.clus
  BY <1>4 DEF BufsFresh
<1> QED BY <1>1, <1>2, <1>3, <1>4 DEF BInv, WalkAt, FindAt

-----------------------------------------------------------------------------
(* The calls begin, and look their directories up                          *)

LEMMA DeadStays ==
  ASSUME TInv, NEW ways \in SUBSET {"cur", "temp"}, GiveUp(ways)
  PROVE  \A h \in Handle : held'[h] = "dead" <=> held[h] = "dead"
  BY DEF GiveUp

LEMMA LookUpDead ==
  ASSUME TInv, NEW p, NEW o, LookUp(p, o)
  PROVE  \A h \in Handle : held'[h] = "dead" <=> held[h] = "dead"
<1>1. UNCHANGED held \/ GiveUp({"temp"})
  BY DEF LookUp
<1> QED BY <1>1, DeadStays

\* Where a lookup begins.
LEMMA LookUpAt ==
  ASSUME TInv, BInv, NEW p \in Paths, NEW o \in OpType, LookUp(p, o)
  PROVE  /\ UNCHANGED <<rd, rdUpdated, disk, used, buf, cur>>
         /\ op'.at = cur \/ op'.at = [buf |-> "RD", clus |-> Root]
         /\ temp' = temp \/ (temp'.full = FALSE /\ temp'.buf # "RD" /\ temp'.buf # cur.buf)
         /\ temp' = temp => op'.at = cur \/ temp.buf # "RD"
<1>0. UNCHANGED <<rd, rdUpdated, disk, used, buf, cur>>
  BY DEF LookUp, diskVars
<1>1. CASE p = Here
  <2>1. temp' = temp /\ op' = [o EXCEPT !.plain = TRUE, !.at = cur]
    BY <1>1 DEF LookUp
  <2>2. op'.at = cur
    BY <2>1 DEF OpType
  <2> QED BY <1>0, <2>1, <2>2
<1>2. CASE p # Here
  <2> PICK a : a = IF p.abs THEN [buf |-> "RD", clus |-> Root] ELSE cur
    OBVIOUS
  <2>1. ResetTemp(cur) /\ op' = [o EXCEPT !.plain = FALSE, !.toks = p.dirs, !.at = a]
    BY <1>2 DEF LookUp
  <2>2. op'.at = a
    BY <2>1 DEF OpType
  <2>3. Other(cur.buf) # cur.buf /\ Other(cur.buf) # "RD"
    BY OtherFacts DEF TInv, BufTypes, AtType
  <2>4. temp'.full = FALSE /\ temp'.buf # "RD" /\ temp'.buf # cur.buf
    BY <2>1, <2>3 DEF ResetTemp
  <2> QED BY <1>0, <2>2, <2>4
<1> QED BY <1>1, <1>2

LEMMA LookUpFresh ==
  ASSUME TInv, BInv, BufsFresh, NewStays, NEW p \in Paths, NEW o \in OpType, LookUp(p, o)
  PROVE  BufsFresh'
<1> PICK m : m = Mem(cur.buf)
  OBVIOUS
<1> PICK c : c = cur.clus
  OBVIOUS
<1> PICK n : n = Mem(temp.buf)'
  OBVIOUS
<1> PICK t : t = temp'.clus
  OBVIOUS
<1> PICK a : a = Mem(op.at.buf)'
  OBVIOUS
<1> PICK z : z = op'.at.clus
  OBVIOUS
<1>0. /\ UNCHANGED <<rd, disk, buf, cur>>
      /\ op'.at = cur \/ op'.at = [buf |-> "RD", clus |-> Root]
      /\ temp' = temp \/ (temp'.full = FALSE /\ temp'.buf # "RD" /\ temp'.buf # cur.buf)
  BY LookUpAt
<1>1. m = Mem(cur.buf)' /\ c = cur'.clus
  BY <1>0 DEF Mem
<1>2. Fresh(m, c)'
  BY <1>0, FreshSame DEF BufsFresh
<1>3. temp'.full /\ t # c => Fresh(n, t)'
  <2>1. SUFFICES ASSUME temp'.full, t # c PROVE Fresh(n, t)'
    OBVIOUS
  <2>2. temp' = temp /\ n = Mem(temp.buf)
    BY <1>0, <2>1 DEF Mem
  <2>3. Fresh(n, t)
    BY <2>1, <2>2 DEF BufsFresh
  <2> QED BY <1>0, <2>3, FreshSame
<1>4. pc' \in {"walk", "find"} /\ op'.at.buf = temp'.buf => a = Dirs(z)'
  <2>1. SUFFICES ASSUME op'.at.buf = temp'.buf PROVE a = Dirs(z)'
    OBVIOUS
  <2>2. op'.at.buf = "RD" /\ z = Root
    BY <1>0, <2>1 DEF BInv, Proper
  <2> QED BY <2>2 DEF Mem, Dirs
<1> QED BY <1>1, <1>2, <1>3, <1>4, FreshBufs

LEMMA LookUpTree ==
  ASSUME TInv, BInv, TreeOK, NEW p \in Paths, NEW o \in OpType, LookUp(p, o), pc \in {"idle", "dest"},
         o.src = op.src, o.call # "move" => o.src = 0, o.call = "move" /\ o.src = 0 => ~o.create,
         \/ o.h = 0 /\ UNCHANGED files
         \/ o.h \in Handle /\ ~files[o.h].used /\ files' = [files EXCEPT ![o.h].used = TRUE]
  PROVE  TreeOK'
<1> PICK g : g = o.h
  OBVIOUS
<1>1. /\ pc' \in {"walk", "find"} /\ op'.call = o.call /\ op'.h = g /\ op'.src = o.src
      /\ op'.create = o.create
  BY LookUpTypes DEF TInv
<1>2. /\ UNCHANGED <<rd, rdUpdated, disk, used, buf, cur>>
      /\ op'.at = cur \/ op'.at = [buf |-> "RD", clus |-> Root]
      /\ temp' = temp \/ temp'.full = FALSE
  BY LookUpAt
<1>3. \A h \in Handle : held'[h] = "dead" <=> held[h] = "dead"
  BY LookUpDead
<1>4. files \in [Handle -> FileType]
  BY DEF TInv, FileTypes
<1>5. \A h \in Handle : h # g => files'[h] = files[h]
  BY <1>4
<1>6. g # 0 => /\ g \in Handle /\ files[g] = NoFile /\ ~files[g].used
               /\ files'[g] = [NoFile EXCEPT !.used = TRUE]
  <2>1. SUFFICES ASSUME g # 0 PROVE /\ g \in Handle /\ files[g] = NoFile /\ ~files[g].used
                                    /\ files'[g] = [NoFile EXCEPT !.used = TRUE]
    OBVIOUS
  <2>2. g \in Handle /\ ~files[g].used /\ files' = [files EXCEPT ![g].used = TRUE]
    BY <2>1
  <2>3. files[g] = NoFile
    BY <2>2 DEF TreeOK, Stages, Blanks
  <2> QED BY <1>4, <2>2, <2>3
<1>7. g # 0 => files[g].name = "END" /\ files'[g].name = "END" /\ files'[g].upd = {} /\ files'[g].used
               /\ files'[g].attr = "" /\ files'[g].clus = 0
  BY <1>6 DEF NoFile
<1>8. op.src # 0 => op.src # g /\ files[op.src].name \in Names
  BY <1>1, <1>6 DEF TreeOK, Stages, SourceAt
<1>9. \A h \in Handle : Source(h)' <=> Source(h)
  BY <1>1 DEF Source
<1>10. \A h \in Handle : h # g => SameFile(h)
  BY <1>3, <1>5, <1>9 DEF SameFile, Active
<1>11. g # 0 => ~Active(g) /\ ~Active(g)' /\ ~Source(g) /\ ~Source(g)'
  BY <1>1, <1>7, <1>8, NameFacts DEF Active, Source
<1>12. Quiet
  <2>1. \A h \in Handle : FileStays(h)
    BY <1>10, <1>11, HandleFacts DEF FileStays, SameFile, Dirty
  <2> QED BY <1>1, <1>2, <2>1 DEF Quiet, NoneGoing
<1>13. OpenOnce'
  <2>1. ASSUME NEW h \in Handle, files'[h].used, files'[h].name \in Names
        PROVE  files[h].used /\ files'[h].name = files[h].name /\ files'[h].dclus = files[h].dclus
    BY <1>5, <1>7, <2>1, NameFacts, HandleFacts
  <2> QED BY <2>1, OnceSame DEF TreeOK
<1>14. BufsFresh'
  BY <1>12, QuietTree, LookUpFresh DEF TreeOK
<1>15. AllClean'
  BY <1>2, CleanStill DEF TreeOK, TInv
<1>16. Stages'
  <2>1. Blanks'
    <3>1. SUFFICES ASSUME NEW h \in Handle PROVE Blank(files[h])' /\ (~files'[h].used => files'[h] = NoFile)
      BY DEF Blanks, NoFile
    <3>2. CASE h = g
      BY <1>7, <3>2, HandleFacts DEF Blank
    <3>3. CASE h # g
      BY <1>5, <3>3 DEF TreeOK, Stages, Blanks, Blank
    <3> QED BY <3>2, <3>3
  <2>2. SourceAt'
    <3>1. op'.src # 0 => op'.src \in Handle
      BY <1>1, HandleFacts DEF TInv, OpTypes, OpType
    <3>2. op'.src # 0 /\ pc' # "closing" =>
            /\ files'[op'.src].used /\ held'[op'.src] = "dead" /\ files'[op'.src].upd = {}
            /\ op'.h # op'.src /\ files'[op'.src].name \in Names
      BY <1>1, <1>3, <1>5, <1>8, <3>1 DEF TreeOK, Stages, SourceAt
    <3> QED BY <1>1, <3>2 DEF SourceAt
  <2>3. FileAt'
    BY <1>1, <1>6, HandleFacts DEF FileAt, NoFile
  <2> QED BY <2>1, <2>2, <2>3 DEF Stages
<1>17. \A h \in Handle : SameFile(h) \/ ~Active(h)'
  BY <1>10, <1>11, HandleFacts
<1> PICK x : x = cur'.clus
  OBVIOUS
<1> PICK y : y = temp'.clus
  OBVIOUS
<1> PICK z : z = op'.at.clus
  OBVIOUS
<1>18. IsDir(x) /\ (temp'.full => IsDir(y)) /\ IsDir(z)
  BY <1>2 DEF TreeOK, Rooted, IsDir
<1> QED BY <1>12, <1>13, <1>14, <1>15, <1>16, <1>17, <1>18, QuietWhole

\* A step that ends a call, or turns to the files it closes.
LEMMA EndPlace ==
  ASSUME TInv, SourceAt, Return \/ \E hs, r : Close(hs, r)
  PROVE  /\ SourceAt' /\ FileAt' /\ pc' \in {"idle", "closing"}
         /\ \A h \in Handle : ~Source(h)'
<1>1. CASE Return
  <2>1. pc' = "idle" /\ op' = NoCall /\ op'.src = 0
    BY <1>1 DEF Return, NoCall
  <2> QED BY <2>1, HandleFacts DEF SourceAt, FileAt, Source
<1>2. CASE \E hs, r : Close(hs, r)
  <2>1. pc' = "closing" /\ op'.src = op.src /\ op'.call = op.call
    BY <1>2 DEF Close, TInv, OpTypes, OpType
  <2> QED BY <2>1 DEF SourceAt, FileAt, Source
<1> QED BY <1>1, <1>2

\* A step that changes nothing but the place in the call and, perhaps, a buffer.
LEMMA PlaceTree ==
  ASSUME TInv, TreeOK, UNCHANGED <<rd, rdUpdated, disk, used, cur, temp, files, held>>,
         NoneGoing, pc # "dots", pc' # "dots", \A h \in Handle : Source(h)' <=> Source(h),
         NEW c \in Clus, NEW b, buf' = buf \/ buf' = [buf EXCEPT ![b] = disk[c]],
         BufsFresh', SourceAt', FileAt',
         NEW z, z = op'.at.clus, pc' \in {"walk", "find"} => IsDir(z)
  PROVE  TreeOK'
<1>1. \A h \in Handle : SameFile(h)
  BY DEF SameFile, Active
<1>2. Quiet
  BY <1>1 DEF Quiet, FileStays, SameFile
<1>3. OpenOnce'
  BY DEF TreeOK, OpenOnce, Twice
<1>4. AllClean'
  BY CleanRead DEF TreeOK, TInv
<1>5. Blanks'
  BY DEF TreeOK, Stages, Blanks, Blank
<1>6. Stages'
  BY <1>5 DEF Stages
<1> PICK x : x = cur'.clus
  OBVIOUS
<1> PICK y : y = temp'.clus
  OBVIOUS
<1>7. IsDir(x) /\ (temp'.full => IsDir(y))
  BY DEF TreeOK, Rooted
<1> QED BY <1>1, <1>2, <1>3, <1>4, <1>6, <1>7, QuietWhole

LEMMA EndTree ==
  ASSUME TInv, TreeOK, UNCHANGED <<rd, rdUpdated, disk, used, buf, cur, temp, files, held>>,
         pc \notin {"dots", "remove"}, \A h \in Handle : ~Source(h),
         Return \/ \E hs, r : Close(hs, r)
  PROVE  TreeOK'
<1>1. SourceAt' /\ FileAt' /\ pc' \in {"idle", "closing"} /\ \A h \in Handle : ~Source(h)'
  BY EndPlace DEF TreeOK, Stages
<1>2. NewStays
  BY DEF NewStays, New, Active
<1>3. BufsFresh'
  BY <1>1, <1>2, FreshStill DEF TreeOK
<1>4. NoneGoing /\ pc' # "dots"
  BY <1>1 DEF NoneGoing
<1> PICK z : z = op'.at.clus
  OBVIOUS
<1>5. pc' \in {"walk", "find"} => IsDir(z)
  BY <1>1
<1> QED BY <1>1, <1>3, <1>4, <1>5, ClusFacts, PlaceTree

\* Nothing happens.
LEMMA StillTree ==
  ASSUME TInv, TreeOK, UNCHANGED <<diskVars, bufVars, files, pc, op, held>>
  PROVE  TreeOK'
<1>1. /\ \A c : Dirs(c)' = Dirs(c)
      /\ \A c, i : E(c, i)' = E(c, i)
      /\ UNCHANGED <<rd, rdUpdated, disk, used, buf, cur, temp, files, held>>
  BY QuietDirs DEF diskVars, bufVars
<1>2. \A h : /\ Active(h)' = Active(h) /\ Dirty(h)' = Dirty(h) /\ New(h)' = New(h) /\ Source(h)' = Source(h)
             /\ Carries(h)' = Carries(h) /\ CarriesDir(h)' = CarriesDir(h)
  BY <1>1 DEF Active, Dirty, New, Source, Carries, CarriesDir
<1>3. \A k : Going(k)' = Going(k) /\ IsDir(k)' = IsDir(k)
  BY <1>1, <1>2 DEF Going, IsDir, DirEntry, DirFile
<1>4. Owners'
  BY <1>1, <1>2, <1>3 DEF TreeOK, Owners, EntriesApart, CarriedApart, OwnedUsed, UsedOwned
<1>5. Dotted'
  BY <1>1, <1>2, <1>3 DEF TreeOK, Dotted, EntryDots, FileDots, NamesInDirs
<1>6. Rooted'
  BY <1>1, <1>2 DEF TreeOK, Rooted, IsDir, DirEntry, DirFile
<1>7. AllKnown' /\ OpenOnce'
  BY <1>1, <1>2 DEF TreeOK, AllKnown, Known, OpenOnce, Twice
<1>8. BufsFresh'
  <2>1. NewStays
    BY <1>1, <1>2 DEF NewStays
  <2> QED BY <1>1, <2>1, FreshStill DEF TreeOK
<1>9. RootFresh' /\ AllClean'
  BY <1>1, CleanStill DEF TreeOK, RootFresh, TInv
<1>10. Stages'
  BY <1>1, <1>2 DEF TreeOK, Stages, Blanks, Blank, SourceAt, FileAt
<1> QED BY <1>4, <1>5, <1>6, <1>7, <1>8, <1>9, <1>10 DEF TreeOK

LEMMA BeginTree ==
  ASSUME TInv, BInv, TreeOK, NEW p \in Paths, NEW o \in OpType, Begin(p, o),
         o.call \in {"open", "mkdir", "move"}, o.src = 0, o.call = "move" => ~o.create
  PROVE  TreeOK'
<1>1. pc = "idle" /\ op = NoCall /\ op.src = 0
  BY DEF Begin, Call, TreeOK, Stages, SourceAt, NoCall
<1>2. CASE FreeHandles # {}
  <2>1. Claim(p, o)
    BY <1>2 DEF Begin
  <2>2. /\ op'.h \in Handle /\ ~files[op'.h].used /\ files' = [files EXCEPT ![op'.h].used = TRUE]
        /\ LookUp(p, [o EXCEPT !.h = op'.h])
    BY <1>2, <2>1, ClaimTypes
  <2> PICK g : g = op'.h
    OBVIOUS
  <2> PICK a : a = [o EXCEPT !.h = g]
    OBVIOUS
  <2>3. a \in OpType /\ a.h = g /\ a.src = 0 /\ a.call = o.call /\ a.create = o.create
    BY <2>2, HandleFacts DEF OpType
  <2> QED BY <1>1, <2>2, <2>3, LookUpTree
<1>3. CASE FreeHandles = {}
  <2>1. Return /\ UNCHANGED <<diskVars, bufVars, files, held>>
    BY <1>3 DEF Begin
  <2> QED BY <1>1, <2>1, StillTree DEF Return
<1> QED BY <1>2, <1>3

LEMMA BeginsTree ==
  ASSUME TInv, BInv, TreeOK,
         \/ \E p \in Paths : Chdir(p)
         \/ \E p \in Paths, n \in Sought : Getfileinfo(p, n)
         \/ \E p \in Paths, n \in Sought : Mkdir(p, n)
         \/ \E p \in Paths, n \in Sought, create \in BOOLEAN : Open(p, n, create)
         \/ \E p \in Paths, n \in Sought, dest \in Dests, to \in NewNames : Move(p, n, dest, to)
  PROVE  TreeOK'
<1>0. NoCall.h = 0 /\ NoCall.src = 0 /\ NoCall.create = FALSE /\ NoCall \in OpType
  BY NoCallType DEF NoCall
<1>1. CASE \E p \in Paths : Chdir(p)
  <2> PICK p \in Paths : Chdir(p)
    BY <1>1
  <2> PICK o : o = [NoCall EXCEPT !.call = "chdir", !.was = temp]
    OBVIOUS
  <2>1. o \in OpType /\ o.h = 0 /\ o.src = 0 /\ o.call = "chdir"
    BY <1>0 DEF OpType, TInv, BufTypes
  <2>2. LookUp(p, o) /\ files' = files /\ pc = "idle" /\ op = NoCall
    BY DEF Chdir, Call, TreeOK, Stages, SourceAt
  <2> QED BY <1>0, <2>1, <2>2, LookUpTree
<1>2. CASE \E p \in Paths, n \in Sought : Getfileinfo(p, n)
  <2> PICK p \in Paths, n \in Sought : Getfileinfo(p, n)
    BY <1>2
  <2> PICK o : o = [NoCall EXCEPT !.call = "info", !.name = n]
    OBVIOUS
  <2>1. o \in OpType /\ o.h = 0 /\ o.src = 0 /\ o.call = "info"
    BY <1>0, NameFacts DEF OpType, Searches
  <2>2. LookUp(p, o) /\ files' = files /\ pc = "idle" /\ op = NoCall
    BY DEF Getfileinfo, Call, TreeOK, Stages, SourceAt
  <2> QED BY <1>0, <2>1, <2>2, LookUpTree
<1>3. CASE \E p \in Paths, n \in Sought : Mkdir(p, n)
  <2> PICK p \in Paths, n \in Sought : Mkdir(p, n)
    BY <1>3
  <2> PICK o : o = [NoCall EXCEPT !.call = "mkdir", !.name = n, !.create = TRUE]
    OBVIOUS
  <2>1. o \in OpType /\ o.call = "mkdir" /\ o.src = 0
    BY <1>0, NameFacts DEF OpType, Searches
  <2> QED BY <2>1, BeginTree DEF Mkdir
<1>4. CASE \E p \in Paths, n \in Sought, create \in BOOLEAN : Open(p, n, create)
  <2> PICK p \in Paths, n \in Sought, create \in BOOLEAN : Open(p, n, create)
    BY <1>4
  <2> PICK o : o = [NoCall EXCEPT !.call = "open", !.name = n, !.create = create]
    OBVIOUS
  <2>1. o \in OpType /\ o.call = "open" /\ o.src = 0
    BY <1>0, NameFacts DEF OpType, Searches
  <2> QED BY <2>1, BeginTree DEF Open
<1>5. CASE \E p \in Paths, n \in Sought, dest \in Dests, to \in NewNames : Move(p, n, dest, to)
  <2> PICK p \in Paths, n \in Sought, dest \in Dests, to \in NewNames : Move(p, n, dest, to)
    BY <1>5
  <2> PICK o : o = [NoCall EXCEPT !.call = "move", !.name = n, !.dest = dest, !.to = to]
    OBVIOUS
  <2>1. o \in OpType /\ o.call = "move" /\ o.src = 0 /\ ~o.create
    BY <1>0, NameFacts, ConstAssumption DEF OpType, Searches
  <2> QED BY <2>1, BeginTree DEF Move
<1> QED BY <1>1, <1>2, <1>3, <1>4, <1>5

\* fatuc_fclose begins.
LEMMA UserCloseTree ==
  ASSUME TInv, TreeOK, NEW g \in Handle, UserClose(g)
  PROVE  TreeOK'
<1>1. /\ pc = "idle" /\ pc' = "closing" /\ op' = [NoCall EXCEPT !.call = "close", !.closing = <<g>>]
      /\ UNCHANGED <<rd, rdUpdated, disk, used, buf, cur, temp, files, held>>
  BY DEF UserClose, diskVars, bufVars
<1>2. op'.src = 0 /\ op.src = 0
  BY <1>1 DEF NoCall, TreeOK, Stages, SourceAt
<1>3. \A h \in Handle : ~Source(h) /\ ~Source(h)'
  BY <1>2, HandleFacts DEF Source
<1>4. SourceAt' /\ FileAt' /\ NoneGoing
  BY <1>1, <1>2 DEF SourceAt, FileAt, NoneGoing
<1>5. BufsFresh'
  <2>1. NewStays
    BY <1>1 DEF NewStays, New, Active
  <2> QED BY <1>1, <2>1, FreshStill DEF TreeOK
<1> PICK z : z = op'.at.clus
  OBVIOUS
<1>6. pc' \in {"walk", "find"} => IsDir(z)
  BY <1>1
<1> QED BY <1>1, <1>3, <1>4, <1>5, <1>6, ClusFacts, PlaceTree

-----------------------------------------------------------------------------
(* A path is walked                                                        *)

LEMMA LiveNames ==
  ASSUME NEW d \in DirType, NEW i \in Live(d)
  PROVE  i \in Slot /\ d.ent[i].name \in Names
<1>1. i \in Slot /\ i \in Seen(d) /\ d.ent[i].name \notin {"FREE", "LFN"}
  BY DEF Live, Seen
<1>2. d.ent[i].name # "END"
  <2>1. i \in Nat /\ i >= 1
    BY <1>1, SlotFacts
  <2>2. i \in 1 .. i
    BY <2>1
  <2> QED BY <1>1, <2>2 DEF Seen
<1> QED BY <1>1, <1>2, EntryTypes

\* The directory a directory is in.
LEMMA UpIsDir ==
  ASSUME TInv, TreeOK, NEW k \in Clus, IsDir(k), Dirs(k).up # -1, pc # "dots"
  PROVE  IsDir(Dirs(k).up)
<1>1. k # Root /\ Dirs(k).up = disk[k].up
  BY DEF Dirs, TreeOK, Dotted
<1>2. CASE DirEntry(k)
  <2>1. PICK c \in Clus, j \in Slot : E(c, j).attr = "DIR" /\ E(c, j).clus = k
    BY <1>2 DEF DirEntry
  <2>2. disk[k].up = c
    BY <2>1 DEF TreeOK, Dotted, EntryDots
  <2>3. E(c, j).name \in Names
    BY <2>1, Unnamed DEF TreeOK, TInv
  <2>4. IsDir(c)
    <3>1. CASE c = Root
      BY <3>1 DEF IsDir
    <3>2. CASE c # Root
      BY <2>3, <3>2, ClusFacts DEF TreeOK, Dotted, NamesInDirs
    <3> QED BY <3>1, <3>2
  <2> QED BY <1>1, <2>2, <2>4
<1>3. CASE DirFile(k)
  <2>1. PICK h \in Handle : CarriesDir(h) /\ files[h].clus = k
    BY <1>3 DEF DirFile
  <2>2. disk[k].up = files[h].dclus
    BY <2>1 DEF TreeOK, Dotted, FileDots
  <2>3. IsDir(files[h].dclus)
    BY <2>1 DEF TreeOK, Rooted, CarriesDir, New
  <2> QED BY <1>1, <2>2, <2>3
<1> QED BY <1>1, <1>2, <1>3 DEF IsDir

\* A step of a path leads to a directory.
LEMMA StepIsDir ==
  ASSUME TInv, BInv, TreeOK, pc = "walk", op.toks # <<>>, NEW c \in StepsTo
  PROVE  IsDir(c)
<1> PICK d : d = Mem(op.at.buf)
  OBVIOUS
<1> PICK z : z = op.at.clus
  OBVIOUS
<1>1. Fresh(d, z) /\ IsDir(z) /\ z \in Clus
  BY AtFresh DEF TreeOK, Rooted, TInv, OpTypes, OpType, AtType
<1>2. d \in DirType
  BY MemType DEF TInv, OpTypes, OpType, AtType
<1>3. CASE IsUp
  <2>1. c = d.up /\ c # -1
    BY <1>3 DEF StepsTo
  <2>2. d.up = Dirs(z).up
    BY <1>1 DEF Fresh
  <2> QED BY <1>1, <2>1, <2>2, UpIsDir
<1>4. CASE ~IsUp
  <2> PICK i : i = FirstOf(At(d, Head(op.toks)))
    OBVIOUS
  <2>1. At(d, Head(op.toks)) # {} /\ d.ent[i].attr = "DIR" /\ c = d.ent[i].clus
    <3>1. At(d, Head(op.toks)) # {}
      BY <1>4 DEF StepsTo
    <3>2. c \in IF d.ent[i].attr = "DIR" THEN {d.ent[i].clus} ELSE {}
      BY <1>4, <3>1 DEF StepsTo
    <3> QED BY <3>1, <3>2
  <2>2. i \in Live(d)
    BY <2>1, AtFacts
  <2>3. i \in Slot /\ d.ent[i].name \in Names
    BY <1>2, <2>2, LiveNames
  <2>4. d.ent[i] = E(z, i)
    BY <1>1, <2>1, <2>3 DEF Fresh, Added
  <2> QED BY <1>1, <2>1, <2>3, <2>4 DEF IsDir, DirEntry
<1> QED BY <1>3, <1>4

LEMMA SourceSame ==
  ASSUME op'.src = op.src, pc # "closing", pc' # "closing"
  PROVE  \A h : Source(h)' <=> Source(h)
  BY DEF Source

LEMMA WalkToRootTree ==
  ASSUME TInv, BInv, TreeOK, WalkToRoot
  PROVE  TreeOK'
<1> PICK a : a = [buf |-> "RD", clus |-> Root]
  OBVIOUS
<1>1. /\ pc = "walk" /\ pc' = "walk" /\ op' = [op EXCEPT !.at = a, !.toks = Tail(@)]
      /\ UNCHANGED <<rd, rdUpdated, disk, used, buf, cur, temp, files, held>>
  BY DEF WalkToRoot, diskVars, bufVars
<1>2. /\ op'.at = a /\ op'.src = op.src /\ op'.call = op.call /\ op'.h = op.h /\ op'.create = op.create
  BY <1>1 DEF TInv, OpTypes, OpType
<1>3. NewStays
  BY <1>1 DEF NewStays, New, Active
<1>4. SourceAt'
  BY <1>1, <1>2 DEF TreeOK, Stages, SourceAt
<1>5. FileAt'
  BY <1>1, <1>2 DEF TreeOK, Stages, FileAt
<1>6. BufsFresh'
  <2> PICK m : m = Mem(cur.buf)
    OBVIOUS
  <2> PICK c : c = cur.clus
    OBVIOUS
  <2> PICK n : n = Mem(temp.buf)
    OBVIOUS
  <2> PICK t : t = temp.clus
    OBVIOUS
  <2> PICK z : z = op'.at.clus
    OBVIOUS
  <2> PICK r : r = Mem(op.at.buf)'
    OBVIOUS
  <2>1. m = Mem(cur.buf)' /\ n = Mem(temp.buf)' /\ c = cur'.clus /\ t = temp'.clus
    BY <1>1 DEF Mem
  <2>2. Fresh(m, c)' /\ (temp'.full /\ t # c => Fresh(n, t)')
    BY <1>1, <1>3, FreshSame DEF TreeOK, BufsFresh
  <2>3. r = Dirs(z)'
    BY <1>1, <1>2 DEF Mem, Dirs
  <2> QED BY <2>1, <2>2, <2>3, FreshBufs
<1> PICK z : z = op'.at.clus
  OBVIOUS
<1>7. IsDir(z)
  BY <1>2 DEF IsDir
<1>8. \A h \in Handle : Source(h)' <=> Source(h)
  BY <1>1, <1>2, SourceSame
<1> QED BY <1>1, <1>4, <1>5, <1>6, <1>7, <1>8, ClusFacts, PlaceTree DEF NoneGoing

\* What a walk reads into the temporary buffer, the current one keeps.
LEMMA ReadFresh ==
  ASSUME TInv, BInv, BufsFresh, NewStays, pc = "walk", NEW c \in Clus,
         UNCHANGED <<rd, disk, cur, temp>>, buf' = buf \/ buf' = [buf EXCEPT ![temp.buf] = disk[c]],
         NEW a, a = Mem(op.at.buf)', NEW z, z = op'.at.clus,
         pc' \in {"walk", "find"} /\ op'.at.buf = temp'.buf => a = Dirs(z)'
  PROVE  BufsFresh'
<1>1. temp.buf # cur.buf /\ ~temp.full
  BY DEF BInv, WalkAt
<1>2. cur.buf \in BufName /\ buf \in [Bufs -> DirType]
  BY DEF TInv, BufTypes, AtType, DiskTypes
<1> PICK m : m = Mem(cur.buf)
  OBVIOUS
<1> PICK k : k = cur.clus
  OBVIOUS
<1> PICK n : n = Mem(temp.buf)'
  OBVIOUS
<1> PICK t : t = temp'.clus
  OBVIOUS
<1>3. m = Mem(cur.buf)' /\ k = cur'.clus
  BY <1>1, <1>2 DEF Mem, BufName
<1>4. Fresh(m, k)'
  BY FreshSame DEF BufsFresh
<1> QED BY <1>1, <1>3, <1>4, FreshBufs

LEMMA WalkIntoTree ==
  ASSUME TInv, BInv, TreeOK, WalkInto
  PROVE  TreeOK'
<1>1. /\ pc = "walk" /\ pc' = "walk" /\ op.toks # <<>>
      /\ UNCHANGED <<rd, rdUpdated, disk, used, cur, temp, files, held>>
  BY DEF WalkInto, diskVars
<1>2. PICK c \in StepsTo : /\ c # Root /\ buf' = [buf EXCEPT ![temp.buf] = disk[c]]
                           /\ op' = [op EXCEPT !.at = [buf |-> temp.buf, clus |-> c], !.toks = Tail(@)]
  BY DEF WalkInto
<1>3. c \in Clus /\ IsDir(c)
  BY <1>1, StepsToTypes, StepIsDir
<1>4. /\ op'.at.buf = temp.buf /\ op'.at.clus = c
      /\ op'.src = op.src /\ op'.call = op.call /\ op'.h = op.h /\ op'.create = op.create
  BY <1>2 DEF TInv, OpTypes, OpType
<1>5. SourceAt'
  BY <1>1, <1>4 DEF TreeOK, Stages, SourceAt
<1>6. FileAt'
  BY <1>1, <1>4 DEF TreeOK, Stages, FileAt
<1>7. BufsFresh'
  <2>1. NewStays
    BY <1>1 DEF NewStays, New, Active
  <2> PICK a : a = Mem(op.at.buf)'
    OBVIOUS
  <2>2. a = Dirs(c)'
    <3>1. temp.buf \in Bufs /\ temp.buf # "RD"
      BY <1>1 DEF BInv, WalkAt, TInv, BufTypes, TempType, BufName
    <3>2. buf'[temp.buf] = disk[c]
      BY <1>2, <3>1 DEF TInv, DiskTypes
    <3> QED BY <1>1, <1>2, <1>4, <3>1, <3>2 DEF Mem, Dirs
  <2> QED BY <1>1, <1>2, <1>3, <1>4, <2>1, <2>2, ReadFresh DEF TreeOK
<1>8. \A h \in Handle : Source(h)' <=> Source(h)
  BY <1>1, <1>4, SourceSame
<1> QED BY <1>1, <1>2, <1>3, <1>4, <1>5, <1>6, <1>7, <1>8, PlaceTree DEF NoneGoing

\* A call that fails like this leaves no source of a move behind.
LEMMA GiveUpEnds ==
  ASSUME TInv, TreeOK, NEW r \in Results, r # "OK", GiveUpCall(r), pc # "closing", ~Spoils
  PROVE  /\ Return \/ \E hs, x : Close(hs, x)
         /\ \A h \in Handle : ~Source(h)
<1>1. CASE op.call \in {"chdir", "info"}
  <2>1. op.src = 0 /\ Return
    BY <1>1 DEF GiveUpCall, TreeOK, Stages, SourceAt
  <2> QED BY <2>1, HandleFacts DEF Source
<1>2. CASE op.call \notin {"chdir", "info"}
  <2>1. PICK hs : Close(hs, r)
    BY <1>2 DEF GiveUpCall
  <2>2. op'.out = r
    BY <2>1 DEF Close, TInv, OpTypes, OpType
  <2>3. op.src = 0
    BY <2>2 DEF Spoils
  <2> QED BY <2>1, <2>3, HandleFacts DEF Source
<1> QED BY <1>1, <1>2

LEMMA WalkStopTree ==
  ASSUME TInv, BInv, TreeOK, WalkStop, ~Spoils
  PROVE  TreeOK'
<1>1. /\ pc = "walk" /\ op.toks # <<>> /\ UNCHANGED <<rd, rdUpdated, disk, used, cur, temp, files, held>>
  BY DEF WalkStop, diskVars
<1>2. PICK r \in {"NOTFOUND", "FAILED"} : GiveUpCall(r)
  BY DEF WalkStop
<1>3. PICK c \in Clus : buf' = buf \/ buf' = [buf EXCEPT ![temp.buf] = disk[c]]
  BY <1>1, StepsToTypes, ClusFacts DEF WalkStop
<1>4. (Return \/ \E hs, x : Close(hs, x)) /\ \A h \in Handle : ~Source(h)
  BY <1>1, <1>2, GiveUpEnds DEF Results
<1>5. SourceAt' /\ FileAt' /\ pc' \in {"idle", "closing"} /\ \A h \in Handle : ~Source(h)'
  BY <1>4, EndPlace DEF TreeOK, Stages
<1> PICK z : z = op'.at.clus
  OBVIOUS
<1>6. BufsFresh'
  <2>1. NewStays
    BY <1>1 DEF NewStays, New, Active
  <2> PICK a : a = Mem(op.at.buf)'
    OBVIOUS
  <2>2. pc' \in {"walk", "find"} /\ op'.at.buf = temp'.buf => a = Dirs(z)'
    BY <1>5
  <2> QED BY <1>1, <1>3, <2>1, <2>2, ReadFresh DEF TreeOK
<1>7. pc' \in {"walk", "find"} => IsDir(z)
  BY <1>5
<1> QED BY <1>1, <1>3, <1>4, <1>5, <1>6, <1>7, PlaceTree DEF NoneGoing

\* The path has been walked: its last directory is at hand, and becomes the
\* current one or the temporary one.
LEMMA WalkEndTree ==
  ASSUME TInv, BInv, TreeOK, WalkEnd
  PROVE  TreeOK'
<1> PICK k : k = op.at.clus
  OBVIOUS
<1> PICK m : m = Mem(op.at.buf)
  OBVIOUS
<1>1. /\ pc = "walk" /\ UNCHANGED <<rd, rdUpdated, disk, used, buf, files>>
  BY DEF WalkEnd, diskVars
<1>2. Fresh(m, k) /\ IsDir(k)
  BY <1>1, AtFresh DEF TreeOK, Rooted
<1>3. \A h \in Handle : held'[h] = "dead" <=> held[h] = "dead"
  <2>1. UNCHANGED held \/ GiveUp({"cur", "temp"})
    BY DEF WalkEnd
  <2> QED BY <2>1, DeadStays
<1>4. /\ pc' \in {"idle", "find"} /\ SourceAt' /\ FileAt' /\ (\A h \in Handle : Source(h)' <=> Source(h))
      /\ (pc' = "find" => op'.at = op.at)
  <2>1. CASE op.call = "chdir"
    <3>1. Return
      BY <2>1 DEF WalkEnd
    <3>2. op.src = 0
      BY <2>1 DEF TreeOK, Stages, SourceAt
    <3>3. SourceAt' /\ FileAt' /\ \A h \in Handle : ~Source(h)'
      BY <3>1, EndPlace DEF TreeOK, Stages
    <3> QED BY <3>1, <3>2, <3>3, HandleFacts DEF Source, Return
  <2>2. CASE op.call # "chdir"
    <3>1. pc' = "find" /\ op' = op /\ UNCHANGED held
      BY <2>2 DEF WalkEnd
    <3>2. SourceAt' /\ FileAt'
      BY <1>1, <3>1 DEF TreeOK, Stages, SourceAt, FileAt
    <3> QED BY <1>1, <3>1, <3>2, SourceSame
  <2> QED BY <2>1, <2>2
<1>5. \A h \in Handle : SameFile(h)
  BY <1>1, <1>3, <1>4 DEF SameFile, Active
<1>6. Quiet
  BY <1>1, <1>4, <1>5 DEF Quiet, NoneGoing, FileStays, SameFile
<1>7. NewStays
  BY <1>6, QuietTree
<1>8. OpenOnce' /\ Blanks'
  BY <1>1 DEF TreeOK, Stages, OpenOnce, Twice, Blanks, Blank
<1>9. AllClean'
  BY <1>1, CleanStill DEF TreeOK, TInv
<1>10. Stages'
  BY <1>4, <1>8 DEF Stages
<1>11. /\ \/ cur' = op.at /\ temp'.full = FALSE /\ pc' = "idle"
          \/ cur' = cur /\ pc' = "find" /\ temp' = [buf |-> op.at.buf, clus |-> op.at.clus, full |-> TRUE]
  BY DEF WalkEnd, Return, ResetTemp
<1>12. BufsFresh'
  <2> PICK x : x = Mem(cur.buf)'
    OBVIOUS
  <2> PICK c : c = cur'.clus
    OBVIOUS
  <2> PICK n : n = Mem(temp.buf)'
    OBVIOUS
  <2> PICK t : t = temp'.clus
    OBVIOUS
  <2> PICK z : z = op'.at.clus
    OBVIOUS
  <2> PICK r : r = Mem(op.at.buf)'
    OBVIOUS
  <2>1. m = Mem(op.at.buf) /\ Fresh(m, k)'
    BY <1>1, <1>2, <1>7, FreshSame
  <2>2. Fresh(x, c)'
    <3>1. CASE cur' = op.at
      <4>1. x = m /\ c = k
        BY <1>1, <3>1 DEF Mem
      <4> QED BY <2>1, <4>1
    <3>2. CASE cur' = cur
      <4>1. x = Mem(cur.buf) /\ c = cur.clus
        BY <1>1, <3>2 DEF Mem
      <4>2. Fresh(x, c)
        BY <4>1 DEF TreeOK, BufsFresh
      <4> QED BY <1>1, <1>7, <4>2, FreshSame
    <3> QED BY <1>11, <3>1, <3>2
  <2>3. temp'.full /\ t # c => Fresh(n, t)'
    <3>1. SUFFICES ASSUME temp'.full PROVE Fresh(n, t)'
      OBVIOUS
    <3>2. temp'.buf = op.at.buf /\ temp'.clus = op.at.clus
      BY <1>11, <3>1
    <3>3. n = m /\ t = k
      BY <1>1, <3>2 DEF Mem
    <3> QED BY <2>1, <3>3
  <2>4. pc' \in {"walk", "find"} /\ op'.at.buf = temp'.buf => r = Dirs(z)'
    <3>1. SUFFICES ASSUME pc' = "find" PROVE r = Dirs(z)'
      BY <1>4
    <3>2. op'.at = op.at /\ r = m /\ z = k
      BY <1>1, <1>4, <3>1 DEF Mem
    <3>3. m = Dirs(k)
      <4>1. CASE op.at.buf = "RD"
        BY <1>1, <4>1, RootAtHand DEF BInv, WalkAt, Proper
      <4>2. CASE op.at.buf = temp.buf
        BY <1>1, <4>2 DEF TreeOK, BufsFresh
      <4>3. op.call # "chdir"
        BY <3>1 DEF WalkEnd, Return
      <4>4. op.toks = <<>>
        BY DEF WalkEnd
      <4> QED BY <1>1, <4>1, <4>2, <4>4 DEF BInv, WalkAt
    <3> QED BY <1>1, <3>2, <3>3, QuietDirs
  <2> QED BY <2>2, <2>3, <2>4, FreshBufs
<1> PICK x : x = cur'.clus
  OBVIOUS
<1> PICK y : y = temp'.clus
  OBVIOUS
<1> PICK z : z = op'.at.clus
  OBVIOUS
<1>13. IsDir(x) /\ (temp'.full => IsDir(y)) /\ (pc' \in {"walk", "find"} => IsDir(z))
  BY <1>2, <1>4, <1>11 DEF TreeOK, Rooted
<1> QED BY <1>5, <1>6, <1>8, <1>9, <1>10, <1>12, <1>13, QuietWhole

-----------------------------------------------------------------------------
(* Calls end and fail                                                      *)

LEMMA FindInfoTree ==
  ASSUME TInv, TreeOK, FindInfo
  PROVE  TreeOK'
<1>1. /\ pc = "find" /\ op.call = "info" /\ Return
      /\ UNCHANGED <<rd, rdUpdated, disk, used, buf, cur, temp, files, held>>
  BY DEF FindInfo, diskVars, bufVars
<1>2. \A h \in Handle : ~Source(h)
  BY <1>1, HandleFacts DEF Source, TreeOK, Stages, SourceAt
<1> QED BY <1>1, <1>2, EndTree

LEMMA CallEndsTree ==
  ASSUME TInv, TreeOK, CallEnds
  PROVE  TreeOK'
<1>1. /\ pc = "closing" /\ Return
      /\ UNCHANGED <<rd, rdUpdated, disk, used, buf, cur, temp, files, held>>
  BY DEF CallEnds, diskVars, bufVars
<1>2. \A h \in Handle : ~Source(h)
  BY <1>1 DEF Source
<1> QED BY <1>1, <1>2, EndTree

LEMMA MkdirExistsTree ==
  ASSUME TInv, TreeOK, MkdirExists
  PROVE  TreeOK'
<1>1. /\ pc = "mkdir" /\ Close(<<op.h>>, "INVALID")
      /\ UNCHANGED <<rd, rdUpdated, disk, used, buf, cur, temp, files, held>>
  BY DEF MkdirExists, diskVars, bufVars
<1>2. \A h \in Handle : ~Source(h)
  BY <1>1, HandleFacts DEF Source, TreeOK, Stages, SourceAt
<1> QED BY <1>1, <1>2, EndTree

\* A step that describes one file anew, which has nothing to lose.
LEMMA OneFileTree ==
  ASSUME TInv, TreeOK, UNCHANGED <<rd, rdUpdated, disk, used, buf, cur, temp>>,
         NEW g \in Handle, NEW f, files' = [files EXCEPT ![g] = f], f.name \notin Names,
         ~Dirty(g), ~Source(g), \A h \in Handle : h # g => (Source(h)' <=> Source(h)),
         ~Source(g)', \A h \in Handle : h # g => (held'[h] = "dead" <=> held[h] = "dead"),
         f.attr = "" /\ f.clus = 0 /\ f.upd = {}, f = NoFile \/ f.used,
         NoneGoing, pc # "dots", pc' # "dots", pc' \notin {"walk", "find"}, SourceAt', FileAt'
  PROVE  TreeOK'
<1>1. files \in [Handle -> FileType]
  BY DEF TInv, FileTypes
<1>2. files'[g] = f /\ \A h \in Handle : h # g => files'[h] = files[h]
  BY <1>1
<1>3. ~Active(g)'
  BY <1>2 DEF Active
<1>4. \A h \in Handle : h # g => SameFile(h)
  BY <1>2 DEF SameFile, Active
<1>5. Quiet
  BY <1>3, <1>4 DEF Quiet, FileStays, SameFile, Dirty
<1>6. NewStays
  BY <1>5, QuietTree
<1>7. OpenOnce'
  <2>1. ASSUME NEW h \in Handle, files'[h].used, files'[h].name \in Names
        PROVE  files[h].used /\ files'[h].name = files[h].name /\ files'[h].dclus = files[h].dclus
    BY <1>2, <2>1
  <2> QED BY <2>1, OnceSame DEF TreeOK
<1>8. BufsFresh'
  BY <1>6, FreshStill DEF TreeOK
<1>9. AllClean'
  BY CleanStill DEF TreeOK, TInv
<1>10. Blanks'
  <2>1. SUFFICES ASSUME NEW h \in Handle PROVE Blank(files[h])' /\ (~files'[h].used => files'[h] = NoFile)
    BY DEF Blanks, NoFile
  <2>2. CASE h = g
    BY <1>2, <2>2 DEF Blank
  <2>3. CASE h # g
    <3>1. files'[h] = files[h]
      BY <1>2, <2>3
    <3> QED BY <3>1 DEF TreeOK, Stages, Blanks, Blank
  <2> QED BY <2>2, <2>3
<1>11. Stages'
  BY <1>10 DEF Stages
<1> PICK x : x = cur'.clus
  OBVIOUS
<1> PICK y : y = temp'.clus
  OBVIOUS
<1> PICK z : z = op'.at.clus
  OBVIOUS
<1>12. IsDir(x) /\ (temp'.full => IsDir(y))
  BY DEF TreeOK, Rooted
<1>13. \A h \in Handle : SameFile(h) \/ ~Active(h)'
  BY <1>3, <1>4
<1> QED BY <1>5, <1>7, <1>8, <1>9, <1>11, <1>12, <1>13, QuietWhole

LEMMA FindNoneTree ==
  ASSUME TInv, BInv, TreeOK, FindNone, ~Spoils
  PROVE  TreeOK'
<1> PICK g : g = op.h
  OBVIOUS
<1> PICK f : f = Searched(files[g])
  OBVIOUS
<1>1. /\ pc = "find" /\ op.call # "info" /\ files' = [files EXCEPT ![g] = f]
      /\ UNCHANGED <<rd, rdUpdated, disk, used, buf, cur, temp, held>> /\ GiveUpCall("NOTFOUND")
  BY DEF FindNone, diskVars, bufVars
<1>2. g \in Handle
  BY <1>1 DEF TInv, Places, Searches
<1>3. files[g] = [NoFile EXCEPT !.used = TRUE]
  BY <1>1, <1>2, HandleFacts DEF TreeOK, Stages, FileAt
<1>4. f = [NoFile EXCEPT !.used = TRUE, !.dclus = op.at.clus]
  BY <1>3 DEF Searched, NoFile
<1>5. f.name \notin Names /\ f.attr = "" /\ f.clus = 0 /\ f.upd = {} /\ f.used
  BY <1>4, NameFacts DEF NoFile
<1>6. ~Dirty(g)
  BY <1>3, NameFacts DEF Dirty, Active, NoFile
<1>7. (Return \/ \E hs, x : Close(hs, x)) /\ \A h \in Handle : ~Source(h)
  BY <1>1, GiveUpEnds DEF Results
<1>8. SourceAt' /\ FileAt' /\ pc' \in {"idle", "closing"} /\ \A h \in Handle : ~Source(h)'
  BY <1>7, EndPlace DEF TreeOK, Stages
<1> QED BY <1>1, <1>2, <1>5, <1>6, <1>7, <1>8, OneFileTree DEF NoneGoing

LEMMA CloseUnchangedTree ==
  ASSUME TInv, TreeOK, NEW g \in Handle, CloseUnchanged(g)
  PROVE  TreeOK'
<1>0. files[g].upd = {}
  <2>1. CASE ~files[g].used
    <3>1. files[g] = NoFile
      BY <2>1 DEF TreeOK, Stages, Blanks
    <3>2. NoFile.upd = {}
      BY DEF NoFile
    <3> QED BY <3>1, <3>2
  <2> QED BY <2>1 DEF CloseUnchanged
<1>1. /\ pc = "closing" /\ pc' = "closing" /\ files[g].upd = {}
      /\ UNCHANGED <<rd, rdUpdated, disk, used, buf, cur, temp>> /\ Release(g, files[g])
  BY <1>0 DEF CloseUnchanged, Closing, Release, diskVars, bufVars
<1>2. /\ files' = [files EXCEPT ![g] = NoFile] /\ op' = [op EXCEPT !.closing = Tail(@)]
      /\ held' = [held EXCEPT ![g] = "no"]
  BY <1>1 DEF Release
<1>3. NoFile.name \notin Names /\ NoFile.attr = "" /\ NoFile.clus = 0 /\ NoFile.upd = {}
  BY NameFacts DEF NoFile
<1>4. \A h \in Handle : h # g => held'[h] = held[h]
  BY <1>2 DEF TInv, FileTypes
<1>5. ~Dirty(g) /\ \A h \in Handle : ~Source(h) /\ ~Source(h)'
  BY <1>1 DEF Dirty, Source
<1>6. op'.src = op.src /\ op'.call = op.call
  BY <1>2 DEF TInv, OpTypes, OpType
<1>7. SourceAt' /\ FileAt'
  BY <1>1, <1>6 DEF TreeOK, Stages, SourceAt, FileAt
<1> QED BY <1>1, <1>2, <1>3, <1>4, <1>5, <1>7, OneFileTree DEF NoneGoing

LEMMA MoveDestTree ==
  ASSUME TInv, BInv, TreeOK, MoveDest, ~Spoils
  PROVE  TreeOK'
<1>1. pc = "dest" /\ op.src # 0 /\ op.call = "move" /\ op \in OpType
  BY HandleFacts DEF MoveDest, TInv, Places, OpTypes
<1>2. op.dest \in Paths
  BY <1>1 DEF OpType
<1>3. FreeHandles # {} /\ Claim(op.dest, op)
  <2>1. ASSUME FreeHandles = {} PROVE FALSE
    <3>1. Close(<<op.src>>, "HANDLES")
      BY <2>1 DEF MoveDest
    <3>2. op'.out = "HANDLES"
      BY <1>1, <3>1 DEF Close, OpType
    <3> QED BY <1>1, <3>2 DEF Spoils
  <2> QED BY <2>1 DEF MoveDest
<1>4. /\ op'.h \in Handle /\ ~files[op'.h].used /\ files' = [files EXCEPT ![op'.h].used = TRUE]
      /\ LookUp(op.dest, [op EXCEPT !.h = op'.h])
  BY <1>1, <1>2, <1>3, ClaimTypes
<1> PICK g : g = op'.h
  OBVIOUS
<1> PICK a : a = [op EXCEPT !.h = g]
  OBVIOUS
<1> PICK p \in Paths : p = op.dest
  BY <1>2
<1>5. a \in OpType /\ a.h = g /\ a.src = op.src /\ a.call = op.call /\ a.create = op.create
  BY <1>1, <1>4, HandleFacts DEF OpType
<1>6. LookUp(p, a)
  BY <1>4
<1> QED BY <1>1, <1>4, <1>5, <1>6, LookUpTree

\* The next name is tried; the file that has the first is let go.
\* Giving the move up leaves the source without an entry.
LEMMA MoveTooLongTree ==
  ASSUME TInv, MoveTooLong, ~Spoils
  PROVE  FALSE
<1>1. /\ pc = "dest" /\ op.src # 0 /\ op \in OpType /\ Close(<<op.src>>, "INSUFFICIENT")
  BY HandleFacts DEF MoveTooLong, TInv, Places, OpTypes
<1>2. op'.out = "INSUFFICIENT"
  BY <1>1 DEF Close, OpType
<1> QED BY <1>1, <1>2 DEF Spoils

LEMMA MoveClashTree ==
  ASSUME TInv, BInv, TreeOK, MoveClash, ~Spoils
  PROVE  TreeOK'
<1> PICK g : g = op.h
  OBVIOUS
<1>1. /\ pc = "name" /\ files[g].clus # 0 /\ g \in Handle /\ op.src \in Handle /\ op \in OpType
      /\ op.call = "move" /\ UNCHANGED <<rd, rdUpdated, disk, used, buf, cur, temp>>
  BY DEF MoveClash, TInv, Places, OpTypes, diskVars, bufVars
<1>2. op.src # 0
  BY <1>1, HandleFacts
<1>3. /\ files' = [files EXCEPT ![g] = NoFile] /\ held' = [held EXCEPT ![g] = "no"] /\ pc' = "dest"
      /\ op' = [op EXCEPT !.h = 0, !.name = NextName[@], !.tries = @ + 1]
  <2>1. ASSUME \E hs : Close(hs, "INVALID") PROVE FALSE
    <3>1. op'.out = "INVALID"
      BY <1>1, <2>1 DEF Close, OpType
    <3> QED BY <1>1, <1>2, <3>1 DEF Spoils
  <2> QED BY <2>1 DEF MoveClash
<1>4. NoFile.name \notin Names /\ NoFile.attr = "" /\ NoFile.clus = 0 /\ NoFile.upd = {}
  BY NameFacts DEF NoFile
<1>5. files[g].upd = {} /\ g # op.src
  BY <1>1, <1>2 DEF TreeOK, Stages, FileAt, SourceAt
<1>6. ~Dirty(g) /\ ~Source(g)
  BY <1>5 DEF Dirty, Source
<1>7. \A h \in Handle : h # g => held'[h] = held[h]
  BY <1>3 DEF TInv, FileTypes
<1>8. op'.src = op.src /\ op'.call = op.call /\ op'.h = 0
  BY <1>1, <1>3 DEF OpType
<1>9. \A h \in Handle : Source(h)' <=> Source(h)
  BY <1>1, <1>3, <1>8, SourceSame
<1>10. SourceAt'
  <2>1. files'[op.src] = files[op.src] /\ held'[op.src] = held[op.src]
    BY <1>1, <1>3, <1>5, <1>7 DEF TInv, FileTypes
  <2> QED BY <1>1, <1>2, <1>3, <1>8, <2>1 DEF TreeOK, Stages, SourceAt
<1>11. FileAt'
  BY <1>3 DEF FileAt
<1> QED BY <1>1, <1>3, <1>4, <1>6, <1>7, <1>9, <1>10, <1>11, OneFileTree DEF NoneGoing

-----------------------------------------------------------------------------
(* A file is found                                                         *)

\* What the call goes on with.
LEMMA OpenedPlace ==
  ASSUME TInv, NEW f, OpenedWith(f), op.call # "info", pc = "find", TreeOK,
         op.call = "move" /\ op.src = 0 => f.upd = {}, f.used, f.name \in Names,
         f.upd = {} \/ (f.upd = {"ALL"} /\ f.clus = 0 /\ f.attr = "ARCHIVE"), ~Spoils
  PROVE  /\ SourceAt' /\ FileAt' /\ pc' \notin {"walk", "find", "dots"} /\ NoneGoing
         /\ \A h \in Handle : Source(h)' <=> Source(h)
         /\ op.h \in Handle /\ files' = [files EXCEPT ![op.h] = f] /\ files'[op.h] = f
         /\ held' = [held EXCEPT ![op.h] = HeldAs] /\ held'[op.h] # "dead"
<1>1. /\ files' = [files EXCEPT ![op.h] = f] /\ held' = [held EXCEPT ![op.h] = HeldAs]
      /\ IF Opened = "idle" THEN Return ELSE pc' = Opened /\ UNCHANGED op
  BY DEF OpenedWith
<1>2. op.h \in Handle
  BY DEF TInv, Places, Searches
<1>3. files'[op.h] = f /\ held'[op.h] # "dead"
  BY <1>1, <1>2 DEF TInv, FileTypes, HeldAs
<1> PICK g : g = op.h
  OBVIOUS
<1>4. Active(g)'
  BY <1>3 DEF Active
<1>5. CASE Opened = "idle"
  <2>1. Return /\ op.call # "move"
    BY <1>1, <1>5 DEF Opened
  <2>2. op.src = 0
    BY <2>1 DEF TreeOK, Stages, SourceAt
  <2>3. SourceAt' /\ FileAt' /\ pc' = "idle" /\ \A h \in Handle : ~Source(h)'
    BY <2>1, EndPlace DEF TreeOK, Stages, Return
  <2> QED BY <1>1, <1>2, <1>3, <2>2, <2>3, HandleFacts DEF Source, NoneGoing
<1>6. CASE Opened # "idle"
  <2>1. pc' = Opened /\ op' = op
    BY <1>1, <1>6
  <2>2. /\ pc' \in {"mkdir", "name", "remove"} /\ (pc' = "remove" => op.call = "move" /\ op.src = 0)
        /\ (pc' = "name" => op.call = "move" /\ op.src # 0)
        /\ (pc' = "mkdir" => op.call = "mkdir")
    BY <1>6, <2>1 DEF Opened
  <2>3. Active(g)' /\ op'.h = g
    BY <1>4, <2>1
  <2>4. FileAt'
    BY <1>3, <2>1, <2>2, <2>3 DEF FileAt, Active
  <2>5. \A h \in Handle : Source(h)' <=> Source(h)
    BY <2>1, <2>2, SourceSame
  <2>6. SourceAt'
    <3>1. op.src # 0 => op.src \in Handle /\ op.src # op.h
      BY HandleFacts DEF TInv, OpTypes, OpType, TreeOK, Stages, SourceAt
    <3>2. op.src # 0 => files'[op.src] = files[op.src] /\ held'[op.src] = held[op.src]
      BY <1>1, <3>1 DEF TInv, FileTypes
    <3> QED BY <2>1, <2>2, <3>1, <3>2 DEF TreeOK, Stages, SourceAt
  <2> QED BY <1>1, <1>2, <1>3, <2>1, <2>2, <2>4, <2>5, <2>6 DEF NoneGoing
<1> QED BY <1>5, <1>6

LEMMA FindTree ==
  ASSUME TInv, BInv, TreeOK, Find, ~Spoils
  PROVE  TreeOK'
<1> PICK g : g = op.h
  OBVIOUS
<1> PICK z : z = op.at.clus
  OBVIOUS
<1> PICK d : d = Mem(op.at.buf)
  OBVIOUS
<1> PICK i : i = FirstOf(Found(d))
  OBVIOUS
<1> PICK e : e = d.ent[i]
  OBVIOUS
<1>1. /\ pc = "find" /\ Found(d) # {} /\ op.call # "info"
      /\ UNCHANGED <<rd, rdUpdated, disk, used, buf, cur, temp>>
  BY DEF Find, diskVars, bufVars
<1>2. PICK f : /\ f.used /\ f.name = e.name /\ f.attr = e.attr /\ f.clus = e.clus /\ f.upd = {}
               /\ f.dclus = z /\ OpenedWith(f)
  <2> PICK f : f = [used |-> TRUE, name |-> e.name, attr |-> e.attr, clus |-> e.clus,
                    size |-> e.size, fpos |-> LfnStart(d, i), lpos |-> i, upd |-> {},
                    dclus |-> op.at.clus]
    OBVIOUS
  <2>1. OpenedWith(f)
    BY DEF Find
  <2> QED BY <2>1
<1>3. i \in Slot /\ e.name = op.name /\ op.name \in Names
  BY <1>1, AtFacts DEF Found, TInv, Places, Searches
<1>4. /\ SourceAt' /\ FileAt' /\ pc' \notin {"walk", "find", "dots"} /\ NoneGoing
      /\ \A h \in Handle : Source(h)' <=> Source(h)
      /\ g \in Handle /\ files' = [files EXCEPT ![g] = f] /\ files'[g] = f
      /\ held' = [held EXCEPT ![g] = HeldAs] /\ held'[g] # "dead"
  <2>1. f.name \in Names /\ (f.upd = {} \/ (f.upd = {"ALL"} /\ f.clus = 0 /\ f.attr = "ARCHIVE"))
    BY <1>2, <1>3
  <2>2. /\ SourceAt' /\ FileAt' /\ pc' \notin {"walk", "find", "dots"} /\ NoneGoing
        /\ \A h \in Handle : Source(h)' <=> Source(h)
        /\ op.h \in Handle /\ files' = [files EXCEPT ![op.h] = f] /\ files'[op.h] = f
        /\ held' = [held EXCEPT ![op.h] = HeldAs] /\ held'[op.h] # "dead"
    BY <1>1, <1>2, <2>1, OpenedPlace
  <2> QED BY <2>2
<1>5. files[g] = [NoFile EXCEPT !.used = TRUE]
  BY <1>1, <1>4, HandleFacts DEF TreeOK, Stages, FileAt
<1>6. files[g].name \notin Names
  BY <1>5, NameFacts DEF NoFile
<1>7. ~Active(g) /\ ~Source(g) /\ ~Dirty(g) /\ ~Dirty(g)'
  BY <1>1, <1>2, <1>4, <1>6, HandleFacts DEF Active, Source, Dirty, TreeOK, Stages, SourceAt
<1>8. \A h \in Handle : h # g => files'[h] = files[h] /\ SameFile(h)
  BY <1>4 DEF SameFile, Active, TInv, FileTypes
<1>9. Quiet
  BY <1>1, <1>4, <1>7, <1>8 DEF Quiet, FileStays, SameFile
<1>10. NewStays
  BY <1>9, QuietTree
<1>11. ~OpenTwice(g)
  BY <1>1, <1>4, HandleFacts DEF Spoils
<1>12. OpenOnce'
  BY <1>4, <1>11, OnceNew DEF TreeOK
<1>13. BufsFresh'
  BY <1>1, <1>4, <1>10, FreshStill DEF TreeOK
<1>14. AllClean'
  BY <1>1, CleanStill DEF TreeOK, TInv
<1>15. Blanks'
  <2>1. SUFFICES ASSUME NEW h \in Handle PROVE Blank(files[h])' /\ (~files'[h].used => files'[h] = NoFile)
    BY DEF Blanks, NoFile
  <2>2. CASE h = g
    BY <1>2, <1>3, <1>4, <2>2 DEF Blank
  <2>3. CASE h # g
    <3>1. files'[h] = files[h]
      BY <1>8, <2>3
    <3> QED BY <3>1 DEF TreeOK, Stages, Blanks, Blank
  <2> QED BY <2>2, <2>3
<1>16. Stages'
  BY <1>4, <1>15 DEF Stages
<1>17. Known(g)'
  <2>1. Fresh(d, z)
    BY <1>1, AtFresh DEF TreeOK
  <2>2. ~Added(e, z)
    <3>1. SUFFICES ASSUME NEW h \in Handle, New(h), files[h].name = e.name, files[h].dclus = z
                   PROVE  FALSE
      BY DEF Added
    <3>2. h # g /\ files[h].used
      BY <1>7, <3>1 DEF New, Active
    <3>3. files'[h] = files[h]
      BY <1>8, <3>2
    <3> QED BY <1>2, <1>4, <1>11, <3>1, <3>2, <3>3 DEF OpenTwice
  <2>3. E(z, i) = e
    BY <1>3, <2>1, <2>2 DEF Fresh
  <2>4. E(z, i)' = e
    BY <1>1, <2>3, QuietDirs
  <2>5. ~Dirty(g)' /\ E(files[g].dclus, i)' = e
    BY <1>2, <1>4, <1>7, <2>4 DEF E, Dirs
  <2> QED BY <1>2, <1>3, <1>4, <2>5 DEF Known
<1>18. \A h \in Handle : SameFile(h) \/ (Known(h)' /\ IsDir(op.at.clus) /\ files'[h].dclus = op.at.clus)
  BY <1>1, <1>2, <1>4, <1>8, <1>17 DEF TreeOK, Rooted
<1> PICK x : x = cur'.clus
  OBVIOUS
<1> PICK y : y = temp'.clus
  OBVIOUS
<1> PICK v : v = op'.at.clus
  OBVIOUS
<1>19. IsDir(x) /\ (temp'.full => IsDir(y)) /\ (pc' \in {"walk", "find"} => IsDir(v))
  BY <1>1, <1>4 DEF TreeOK, Rooted
<1> QED BY <1>9, <1>12, <1>13, <1>14, <1>16, <1>18, <1>19, QuietWhole

-----------------------------------------------------------------------------
(* Changes of one directory                                                *)

\* Entries with names stay, but for the one at p; the others have none before
\* and after.
Alike(d, w, p) ==
  /\ w.self = d.self /\ w.up = d.up
  /\ \A j \in Slot : j # p => \/ w.ent[j] = d.ent[j]
                              \/ /\ d.ent[j].name \notin Names /\ w.ent[j].name \notin Names
                                 /\ w.ent[j] = Mark(w.ent[j].name)

LEMMA NamedLive ==
  ASSUME NEW d, Tidy(d), NEW j \in Slot, d.ent[j].name \in Names
  PROVE  j \in Live(d)
<1>1. j \in Nat /\ j <= NumSlots /\ NumSlots \in Nat
  BY SlotFacts, Constants
<1>2. ASSUME NEW k \in 1 .. j PROVE d.ent[k].name # "END"
  <2>1. k \in Slot /\ j \in k .. NumSlots
    BY <1>1, SlotFacts
  <2> QED BY <2>1, TidyFacts, NameFacts
<1> QED BY <1>2, NameFacts DEF Live, Seen

LEMMA NotFound ==
  ASSUME NEW d, Tidy(d), NEW n \in Names, At(d, n) = {}, NEW j \in Slot
  PROVE  d.ent[j].name # n
  BY NamedLive DEF At

LEMMA AlikeClean ==
  ASSUME NEW d \in DirType, Clean(d), NEW w, NEW p, Alike(d, w, p),
         p \in Slot => \/ w.ent[p].name \notin Names /\ w.ent[p] = Mark(w.ent[p].name)
                       \/ \A j \in Slot : j # p => d.ent[j].name # w.ent[p].name
  PROVE  (\A i \in Slot : i # p /\ w.ent[i].name \notin Names => w.ent[i] = Mark(w.ent[i].name))
         /\ \A i, j \in Slot : w.ent[i].name \in Names /\ w.ent[i].name = w.ent[j].name => i = j
<1>1. ASSUME NEW i \in Slot, i # p, w.ent[i].name \notin Names
      PROVE  w.ent[i] = Mark(w.ent[i].name)
  BY <1>1 DEF Alike, Clean
<1>2. ASSUME NEW i \in Slot, NEW j \in Slot, w.ent[i].name \in Names, w.ent[i].name = w.ent[j].name, i # j
      PROVE  FALSE
  <2>1. \A k \in Slot : k # p /\ w.ent[k].name \in Names => d.ent[k].name = w.ent[k].name
    BY DEF Alike
  <2>2. CASE i = p
    BY <1>2, <2>1, <2>2
  <2>3. CASE j = p
    BY <1>2, <2>1, <2>3
  <2>4. CASE i # p /\ j # p
    BY <1>2, <2>1, <2>4 DEF Clean
  <2> QED BY <2>2, <2>3, <2>4
<1> QED BY <1>1, <1>2

LEMMA CleanAfter ==
  ASSUME DiskTypes, AllClean, NEW b \in BufName, NEW w, Clean(w), SetMem(b, w), NEW c \in Clus,
         disk' = disk \/ disk' = [disk EXCEPT ![c] = w]
  PROVE  AllClean'
<1>1. \A x \in Clus : disk'[x] = disk[x] \/ disk'[x] = w
  BY DEF DiskTypes
<1>2. \A x \in BufName : Mem(x)' = w \/ Mem(x)' = Mem(x)
  BY MemAfter
<1>3. ASSUME NEW x \in Clus PROVE Clean(disk[x])'
  <2> PICK m : m = disk'[x]
    OBVIOUS
  <2>1. Clean(m)
    BY <1>1 DEF AllClean
  <2> QED BY <2>1 DEF Clean
<1>4. ASSUME NEW x \in BufName PROVE Clean(Mem(x))'
  <2> PICK m : m = Mem(x)'
    OBVIOUS
  <2>1. Clean(m)
    BY <1>2 DEF AllClean
  <2> QED BY <2>1 DEF Clean
<1> QED BY <1>3, <1>4 DEF AllClean

-----------------------------------------------------------------------------
(* Changes that stay in memory                                             *)

\* A new entry, or the parts of a name, in a buffer: on the disk nothing changes.
InMemory(b, d, w, p) ==
  /\ b \in BufName /\ d = Mem(b) /\ Alike(d, w, p) /\ SetMem(b, w) /\ UNCHANGED <<rdUpdated, disk>>
  /\ p \in Slot => d.ent[p].name \notin Names /\ w.ent[p].clus = 0 /\ w.ent[p].attr # "DIR"

LEMMA MemDirs ==
  ASSUME NEW b, NEW d, NEW w, NEW p, InMemory(b, d, w, p)
  PROVE  \A c \in Clus : \/ Dirs(c)' = Dirs(c)
                         \/ c = Root /\ b = "RD" /\ Dirs(c) = d /\ Dirs(c)' = w
  BY DEF InMemory, SetMem, Dirs, Mem

LEMMA MemEntries ==
  ASSUME TInv, AllClean, NEW b, NEW d, NEW w, NEW p, InMemory(b, d, w, p)
  PROVE  /\ \A c \in Clus, i \in Slot : E(c, i).name \in Names => E(c, i)' = E(c, i)
         /\ \A c \in Clus, i \in Slot : E(c, i)'.name \in Names =>
              E(c, i)' = E(c, i) \/ (c = Root /\ b = "RD" /\ i = p /\ E(c, i)' = w.ent[p])
         /\ SameChains
<1>1. ASSUME NEW c \in Clus, NEW i \in Slot
      PROVE  /\ E(c, i).name \in Names => E(c, i)' = E(c, i)
             /\ E(c, i)'.name \in Names =>
                  E(c, i)' = E(c, i) \/ (c = Root /\ b = "RD" /\ i = p /\ E(c, i)' = w.ent[p])
             /\ E(c, i)'.clus = E(c, i).clus
             /\ E(c, i)'.attr = "DIR" <=> E(c, i).attr = "DIR"
  <2>1. CASE Dirs(c)' = Dirs(c)
    BY <2>1 DEF E
  <2>2. CASE c = Root /\ b = "RD" /\ Dirs(c) = d /\ Dirs(c)' = w
    <3>1. E(c, i) = d.ent[i] /\ E(c, i)' = w.ent[i]
      BY <2>2 DEF E
    <3>2. d.ent[i].name \notin Names => d.ent[i].clus = 0 /\ d.ent[i].attr = ""
      BY <3>1, Unnamed DEF TInv
    <3>3. CASE i = p
      BY <2>2, <3>1, <3>2, <3>3 DEF InMemory
    <3>4. CASE i # p /\ w.ent[i] = d.ent[i]
      BY <3>1, <3>4
    <3>5. CASE d.ent[i].name \notin Names /\ w.ent[i].name \notin Names /\ w.ent[i] = Mark(w.ent[i].name)
      <4> PICK n : n = w.ent[i].name
        OBVIOUS
      <4>1. w.ent[i].clus = 0 /\ w.ent[i].attr = ""
        <5>1. w.ent[i] = Mark(n)
          BY <3>5
        <5>2. Mark(n).clus = 0 /\ Mark(n).attr = ""
          BY DEF Mark, Entry
        <5> QED BY <5>1, <5>2
      <4> QED BY <3>1, <3>2, <3>5, <4>1
    <3> QED BY <3>3, <3>4, <3>5 DEF InMemory, Alike
  <2> QED BY <2>1, <2>2, MemDirs
<1> QED BY <1>1 DEF SameChains

LEMMA MemRoot ==
  ASSUME TInv, AllClean, RootFresh, NEW b, NEW d, NEW w, NEW p, InMemory(b, d, w, p)
  PROVE  RootFresh'
<1>1. SUFFICES ASSUME ~rdUpdated, NEW i \in Slot
               PROVE  /\ disk[Root].ent[i].name \in Names => rd'.ent[i] = disk[Root].ent[i]
                      /\ rd'.ent[i].clus # 0 => rd'.ent[i] = disk[Root].ent[i]
  BY DEF RootFresh, InMemory
<1>2. E(Root, i) = rd.ent[i] /\ E(Root, i)' = rd'.ent[i] /\ Root \in Clus
  BY ClusFacts DEF E, Dirs
<1>3. rd.ent[i].name \in Names => rd'.ent[i] = rd.ent[i]
  BY <1>2, MemEntries
<1>4. rd'.ent[i].clus = rd.ent[i].clus
  BY <1>2, MemEntries DEF SameChains
<1>5. rd.ent[i].clus # 0 => rd.ent[i].name \in Names
  BY <1>2, Unnamed DEF TInv
<1> QED BY <1>1, <1>3, <1>4, <1>5 DEF RootFresh

LEMMA MemFresh ==
  ASSUME TInv, AllClean, NewStays, NEW b, NEW d, NEW w, NEW p, InMemory(b, d, w, p),
         NEW x \in BufName, NEW c \in Clus, x = "RD" <=> c = Root, NEW m, m = Mem(x), NEW n, n = Mem(x)',
         Fresh(m, c), x = b /\ p \in Slot => Added(w.ent[p], c)'
  PROVE  Fresh(n, c)'
<1>1. CASE x = "RD" /\ c = Root
  BY <1>1 DEF Fresh, E, Dirs, Mem
<1>2. CASE x # "RD" /\ c # Root
  <2>1. Dirs(c)' = Dirs(c) /\ \A i : E(c, i)' = E(c, i)
    BY <1>2 DEF InMemory, Dirs, E
  <2>2. n = IF x = b THEN w ELSE m
    BY MemAfter DEF InMemory, TInv
  <2>3. \A i \in Slot : Added(m.ent[i], c) => Added(m.ent[i], c)'
    BY DEF Added, NewStays
  <2>4. CASE x # b
    BY <2>1, <2>2, <2>3, <2>4 DEF Fresh
  <2>5. CASE x = b
    <3>1. n = w /\ m = d /\ n.self = m.self /\ n.up = m.up
      BY <2>2, <2>5 DEF InMemory, Alike
    <3>2. ASSUME NEW i \in Slot, E(c, i).name \in Names PROVE n.ent[i] = E(c, i)
      BY <2>5, <3>1, <3>2 DEF Fresh, InMemory, Alike
    <3>3. ASSUME NEW i \in Slot, n.ent[i].name \in Names, n.ent[i] # E(c, i) PROVE Added(n.ent[i], c)'
      <4>1. CASE i = p
        BY <2>5, <3>1, <3>3, <4>1
      <4>2. CASE i # p
        <5>1. n.ent[i] = m.ent[i]
          BY <3>1, <3>3, <4>2 DEF InMemory, Alike
        <5> QED BY <2>3, <3>3, <5>1 DEF Fresh
      <4> QED BY <4>1, <4>2
    <3> QED BY <2>1, <3>1, <3>2, <3>3 DEF Fresh
  <2> QED BY <2>4, <2>5
<1> QED BY <1>1, <1>2

LEMMA MemBufs ==
  ASSUME TInv, BInv, AllClean, BufsFresh, NewStays, NEW b, NEW d, NEW w, NEW p, InMemory(b, d, w, p),
         UNCHANGED <<cur, temp>>, pc' \notin {"walk", "find"},
         NEW z \in Clus, p \in Slot => Added(w.ent[p], z)',
         cur.buf = b => cur.clus = z, temp.full /\ temp.buf = b => temp.clus = z
  PROVE  BufsFresh'
<1> PICK m : m = Mem(cur.buf)
  OBVIOUS
<1> PICK m1 : m1 = Mem(cur.buf)'
  OBVIOUS
<1> PICK c : c = cur.clus
  OBVIOUS
<1> PICK n : n = Mem(temp.buf)
  OBVIOUS
<1> PICK n1 : n1 = Mem(temp.buf)'
  OBVIOUS
<1> PICK t : t = temp.clus
  OBVIOUS
<1> PICK x : x = cur.buf
  OBVIOUS
<1> PICK y : y = temp.buf
  OBVIOUS
<1>1. x \in BufName /\ y \in BufName /\ c \in Clus /\ t \in Clus
  BY DEF TInv, BufTypes, AtType, TempType
<1>2. (x = "RD" <=> c = Root) /\ (temp.full => (y = "RD" <=> t = Root))
  BY DEF BInv, Proper
<1>3. m = Mem(x) /\ m1 = Mem(x)' /\ n = Mem(y) /\ n1 = Mem(y)'
  BY DEF Mem
<1>4. Fresh(m1, c)'
  <2>1. Fresh(m, c)
    BY DEF BufsFresh
  <2> QED BY <1>1, <1>2, <1>3, <2>1, MemFresh
<1>5. temp.full /\ t # c => Fresh(n1, t)'
  <2>1. SUFFICES ASSUME temp.full, t # c PROVE Fresh(n1, t)'
    OBVIOUS
  <2>2. Fresh(n, t)
    BY <2>1 DEF BufsFresh
  <2> QED BY <1>1, <1>2, <1>3, <2>1, <2>2, MemFresh
<1> PICK a : a = Mem(op.at.buf)'
  OBVIOUS
<1> PICK v : v = op'.at.clus
  OBVIOUS
<1>6. c = cur'.clus /\ t = temp'.clus /\ (temp'.full <=> temp.full)
  OBVIOUS
<1> QED BY <1>4, <1>5, <1>6, FreshBufs

\* What the files know of their entries they still know.
LEMMA MemKnown ==
  ASSUME TInv, AllClean, AllKnown, NEW b, NEW d, NEW w, NEW p, InMemory(b, d, w, p),
         NEW h \in Handle, Active(h), files'[h].name = files[h].name, files'[h].dclus = files[h].dclus,
         Dirty(h)' <=> Dirty(h),
         ~Dirty(h) => files'[h].clus = files[h].clus /\ files'[h].attr = files[h].attr
  PROVE  Known(h)'
<1>1. files[h].dclus \in Clus /\ files[h].name \in Names
  BY DEF Active, TInv, FileTypes, FileType
<1> PICK c : c = files[h].dclus
  OBVIOUS
<1> PICK n : n = files[h].name
  OBVIOUS
<1>2. \A i : E(files[h].dclus, i)' = E(c, i)'
  BY DEF E, Dirs
<1>3. CASE Dirty(h)
  <2>1. SUFFICES ASSUME NEW i \in Slot, E(c, i)'.name = n PROVE E(c, i)'.clus = 0
    BY <1>2, <1>3 DEF Known
  <2>2. E(c, i)' = E(c, i) \/ (i = p /\ E(c, i)' = w.ent[p])
    BY <1>1, <2>1, MemEntries
  <2>3. CASE E(c, i)' = E(c, i)
    BY <1>3, <2>1, <2>3 DEF AllKnown, Known
  <2>4. CASE i = p /\ E(c, i)' = w.ent[p]
    BY <2>4 DEF InMemory
  <2> QED BY <2>2, <2>3, <2>4
<1>4. CASE ~Dirty(h)
  <2>1. PICK i \in Slot : E(c, i).name = n /\ E(c, i).clus = files[h].clus /\ E(c, i).attr = files[h].attr
    BY <1>4 DEF AllKnown, Known
  <2>2. E(c, i)' = E(c, i)
    BY <1>1, <2>1, MemEntries
  <2> QED BY <1>2, <1>4, <2>1, <2>2 DEF Known
<1> QED BY <1>3, <1>4

\* The dots, and which directories have entries.
LEMMA MemDots ==
  ASSUME TInv, AllClean, NamesInDirs, rd.up = -1, NEW b, NEW d, NEW w, NEW p, InMemory(b, d, w, p),
         \A c \in Clus : IsDir(c) => IsDir(c)'
  PROVE  NamesInDirs' /\ rd'.up = -1 /\ SameDots
<1>1. NamesInDirs'
  <2>1. SUFFICES ASSUME NEW c \in Chains, NEW i \in Slot, E(c, i)'.name \in Names PROVE IsDir(c)'
    BY DEF NamesInDirs
  <2>2. c \in Clus /\ c # Root
    BY ClusFacts
  <2>3. E(c, i)' = E(c, i)
    BY <2>1, <2>2, MemEntries
  <2> QED BY <2>1, <2>2, <2>3 DEF NamesInDirs
<1>2. rd'.up = -1
  <2>1. Root \in Clus /\ Dirs(Root) = rd /\ Dirs(Root)' = rd'
    BY ClusFacts DEF Dirs
  <2>2. rd' = rd \/ (rd = d /\ rd' = w)
    BY <2>1, MemDirs
  <2> QED BY <2>2 DEF InMemory, Alike
<1>3. SameDots
  BY DEF SameDots, InMemory
<1> QED BY <1>1, <1>2, <1>3

LEMMA PutEntryAlike ==
  ASSUME TInv, NEW d \in DirType, Tidy(d), Clean(d), NEW k \in Nat \ {0}, NEW i \in Slot, i + k - 1 \in Slot,
         i \in FreeRun(d, k) \cup FirstEnd(d), op.name \in Names, At(d, op.name) = {},
         NEW w, w = PutEntry(d, i, k), NEW p, p = i + k - 1
  PROVE  /\ Alike(d, w, p) /\ w.ent[p] = Entry(op.name, "ARCHIVE", 0, 0) /\ d.ent[p].name \notin Names
         /\ Clean(w)
<1>1. /\ w.self = d.self /\ w.up = d.up
      /\ \A j \in Slot : w.ent[j] = IF j \in i .. (i + k - 2) THEN Mark("FREE")
                                    ELSE IF j = i + k - 1 THEN Entry(op.name, "ARCHIVE", 0, 0)
                                    ELSE d.ent[j]
  BY DEF PutEntry, DirType
<1>2. i \in Nat /\ k \in Nat /\ k >= 1
  BY SlotFacts
<1>3. \A j \in i .. (i + k - 1) : d.ent[j].name \notin Names
  BY FreeFacts, NameFacts
<1>4. p \in i .. (i + k - 1) /\ p \notin i .. (i + k - 2) /\ i .. (i + k - 2) \subseteq i .. (i + k - 1)
  BY <1>2
<1>5. w.ent[p] = Entry(op.name, "ARCHIVE", 0, 0) /\ d.ent[p].name \notin Names
  BY <1>1, <1>3, <1>4
<1>6. Mark("FREE").name = "FREE" /\ "FREE" \notin Names
  BY NameFacts DEF Mark, Entry
<1>7. Alike(d, w, p)
  BY <1>1, <1>3, <1>4, <1>6 DEF Alike
<1>8. w.ent[p].name = op.name
  BY <1>5 DEF Entry
<1>9. \A j \in Slot : d.ent[j].name # op.name
  BY NotFound
<1>10. Clean(w)
  BY <1>7, <1>8, <1>9, AlikeClean DEF Clean
<1> QED BY <1>5, <1>7, <1>10

\* Where a search is, is the directory it is in.
LEMMA FindBuf ==
  ASSUME TInv, BInv, pc = "find"
  PROVE  /\ cur.buf = op.at.buf => cur.clus = op.at.clus
         /\ temp.full /\ temp.buf = op.at.buf => temp.clus = op.at.clus
         /\ op.at \in AtType /\ op.at.buf \in BufName /\ op.at.clus \in Clus
  BY DEF BInv, FindAt, Proper, TInv, OpTypes, OpType, AtType

LEMMA CreateNoneTree ==
  ASSUME TInv, BInv, TreeOK, Create, ~Spoils, FreeEntry(Mem(op.at.buf), op.slots) = {}
  PROVE  TreeOK'
<1> PICK g : g = op.h
  OBVIOUS
<1> PICK f : f = [NoFile EXCEPT !.used = TRUE, !.dclus = op.at.clus]
  OBVIOUS
<1>1. /\ pc = "find" /\ op.create /\ files' = [files EXCEPT ![g] = f]
      /\ UNCHANGED <<rd, rdUpdated, disk, used, buf, cur, temp, held>> /\ GiveUpCall("NOMORE")
  BY DEF Create, diskVars, bufVars
<1>2. g \in Handle
  BY <1>1 DEF TInv, Places
<1>3. files[g] = [NoFile EXCEPT !.used = TRUE]
  BY <1>1, <1>2, HandleFacts DEF TreeOK, Stages, FileAt
<1>4. f.name \notin Names /\ f.attr = "" /\ f.clus = 0 /\ f.upd = {} /\ f.used
  BY NameFacts DEF NoFile
<1>5. ~Dirty(g)
  BY <1>3, NameFacts DEF Dirty, Active, NoFile
<1>6. (Return \/ \E hs, x : Close(hs, x)) /\ \A h \in Handle : ~Source(h)
  BY <1>1, GiveUpEnds DEF Results
<1>7. SourceAt' /\ FileAt' /\ pc' \in {"idle", "closing"} /\ \A h \in Handle : ~Source(h)'
  BY <1>6, EndPlace DEF TreeOK, Stages
<1> QED BY <1>1, <1>2, <1>4, <1>5, <1>6, <1>7, OneFileTree DEF NoneGoing

\* A new file: its entry is in memory only, and it has no chain.
LEMMA CreateNewTree ==
  ASSUME TInv, BInv, FInv, TreeOK, Create, ~Spoils, FreeEntry(Mem(op.at.buf), op.slots) # {}
  PROVE  TreeOK'
<1> PICK g : g = op.h
  OBVIOUS
<1> PICK z : z = op.at.clus
  OBVIOUS
<1> PICK b : b = op.at.buf
  OBVIOUS
<1> PICK d : d = Mem(op.at.buf)
  OBVIOUS
<1> PICK k : k = op.slots
  OBVIOUS
<1> PICK i : i = FirstOf(FreeEntry(d, k))
  OBVIOUS
<1> PICK p : p = i + k - 1
  OBVIOUS
<1> PICK w : w = PutEntry(d, i, k)
  OBVIOUS
<1>1. /\ pc = "find" /\ op.create /\ op.call # "info" /\ g \in Handle /\ At(d, op.name) = {}
      /\ op.name \in Names /\ k \in Nat \ {0} /\ UNCHANGED <<rdUpdated, disk, used, cur, temp>>
      /\ SetMem(b, w)
  BY DEF Create, TInv, Places, Searches, OpTypes, OpType, Found
<1>2. PICK f : /\ f.used /\ f.name = op.name /\ f.attr = "ARCHIVE" /\ f.clus = 0 /\ f.upd = {"ALL"}
               /\ f.dclus = z /\ OpenedWith(f)
  <2> PICK f : f = [used |-> TRUE, name |-> op.name, attr |-> "ARCHIVE", clus |-> 0,
                    size |-> 0, fpos |-> i + k - 1, lpos |-> i + k - 1,
                    upd |-> {"ALL"}, dclus |-> op.at.clus]
    OBVIOUS
  <2>1. OpenedWith(f)
    BY DEF Create
  <2> QED BY <2>1
<1>3. /\ b \in BufName /\ d = Mem(b) /\ d \in DirType /\ Tidy(d) /\ Clean(d)
      /\ z \in Clus /\ Fresh(d, z)
  <2>1. b \in BufName /\ z \in Clus
    BY <1>1, FindBuf
  <2> QED BY <1>1, <2>1, MemType, MemTidy, AtFresh DEF TInv, FInv, TreeOK, AllClean
<1>4. i \in Slot /\ p \in Slot /\ i \in FreeRun(d, k) \cup FirstEnd(d)
  BY <1>1, FreeTypes
<1>5. Alike(d, w, p) /\ w.ent[p] = Entry(op.name, "ARCHIVE", 0, 0) /\ d.ent[p].name \notin Names /\ Clean(w)
  BY <1>1, <1>3, <1>4, PutEntryAlike
<1>6. w.ent[p].name = op.name /\ w.ent[p].clus = 0 /\ w.ent[p].attr = "ARCHIVE"
  BY <1>5 DEF Entry
<1>7. InMemory(b, d, w, p)
  BY <1>1, <1>3, <1>5, <1>6 DEF InMemory
<1>8. ~(op.call = "move" /\ op.src = 0)
  BY <1>1 DEF TreeOK, Stages, FileAt
<1>9. /\ SourceAt' /\ FileAt' /\ pc' \notin {"walk", "find", "dots"} /\ NoneGoing
      /\ \A h \in Handle : Source(h)' <=> Source(h)
      /\ files' = [files EXCEPT ![g] = f] /\ files'[g] = f
      /\ held' = [held EXCEPT ![g] = HeldAs] /\ held'[g] # "dead"
  BY <1>1, <1>2, <1>8, OpenedPlace
<1>10. files[g] = [NoFile EXCEPT !.used = TRUE]
  BY <1>1, HandleFacts DEF TreeOK, Stages, FileAt
<1>11. files[g].name \notin Names /\ files[g].clus = 0
  BY <1>10, NameFacts DEF NoFile
<1>12. ~Active(g) /\ ~Source(g) /\ ~Source(g)'
  BY <1>1, <1>9, <1>11, HandleFacts DEF Active, Source, TreeOK, Stages, SourceAt
<1>13. New(g)' /\ Dirty(g)'
  BY <1>1, <1>2, <1>9 DEF New, Dirty, Active
<1>14. \A h \in Handle : h # g => files'[h] = files[h] /\ SameFile(h)
  BY <1>9 DEF SameFile, Active, TInv, FileTypes
<1>15. ASSUME NEW h \in Handle PROVE SameCarries(h)
  <2>1. CASE h = g
    BY <1>2, <1>9, <1>12, <2>1 DEF SameCarries, Carries, CarriesDir, Dirty, New
  <2>2. CASE h # g
    BY <1>14, <2>2, StaysCarries DEF FileStays, SameFile
  <2> QED BY <2>1, <2>2
<1>16. NewStays
  BY <1>12, <1>14, StaysCarries DEF NewStays, FileStays, SameFile, New
<1>17. SameChains
  BY <1>7, MemEntries DEF TreeOK
<1>18. Owners'
  BY <1>1, <1>9, <1>15, <1>17, OwnersSame DEF TreeOK
<1>19. \A c : IsDir(c)' <=> IsDir(c)
  BY <1>15, <1>17, DirsSame
<1>20. NamesInDirs' /\ rd'.up = -1 /\ SameDots
  BY <1>7, <1>19, MemDots DEF TreeOK, Dotted
<1>21. Dotted'
  BY <1>1, <1>15, <1>17, <1>20, EntryDotsSame, FileDotsSame DEF TreeOK, Dotted
<1>22. ASSUME NEW h \in Handle, NEW c, Active(h)' \/ Source(h)', c = files'[h].dclus
       PROVE  IsDir(c)'
  <2>1. CASE h = g
    BY <1>1, <1>2, <1>9, <1>19, <1>22, <2>1 DEF TreeOK, Rooted
  <2>2. CASE h # g
    BY <1>14, <1>19, <1>22, <2>2 DEF TreeOK, Rooted, SameFile
  <2> QED BY <2>1, <2>2
<1>23. Rooted'
  <2> PICK x : x = cur'.clus
    OBVIOUS
  <2> PICK y : y = temp'.clus
    OBVIOUS
  <2> PICK v : v = op'.at.clus
    OBVIOUS
  <2>1. IsDir(x)' /\ (temp'.full => IsDir(y)') /\ (pc' \in {"walk", "find"} => IsDir(v)')
    BY <1>1, <1>9, <1>19 DEF TreeOK, Rooted
  <2> QED BY <1>22, <2>1, RootedAfter
<1>24. Known(g)'
  <2>1. SUFFICES ASSUME NEW j \in Slot, E(z, j)'.name = op.name PROVE E(z, j)'.clus = 0
    BY <1>2, <1>9, <1>13 DEF Known, E, Dirs
  <2>2. E(z, j).name # op.name
    BY <1>1, <1>3, NotFound DEF Fresh
  <2>3. E(z, j)' = w.ent[p]
    BY <1>1, <1>3, <1>7, <2>1, <2>2, MemEntries DEF TreeOK
  <2> QED BY <1>6, <2>3
<1>25. AllKnown'
  <2>1. SUFFICES ASSUME NEW h \in Handle, Active(h)', h # g PROVE Known(h)'
    BY <1>24 DEF AllKnown
  <2>2. Active(h) /\ files'[h] = files[h] /\ (Dirty(h)' <=> Dirty(h))
    BY <1>14, <2>1 DEF SameFile, Dirty
  <2> QED BY <1>7, <2>2, MemKnown DEF TreeOK
<1>26. ~OpenTwice(g)
  BY <1>1, HandleFacts DEF Spoils
<1>27. OpenOnce'
  BY <1>1, <1>9, <1>26, OnceNew DEF TreeOK
<1>28. BufsFresh'
  <2>1. Added(w.ent[p], z)'
    BY <1>1, <1>2, <1>6, <1>9, <1>13 DEF Added
  <2> QED BY <1>1, <1>3, <1>7, <1>9, <1>16, <2>1, FindBuf, MemBufs DEF TreeOK
<1>29. RootFresh'
  BY <1>7, MemRoot DEF TreeOK
<1>30. AllClean'
  BY <1>1, <1>3, <1>5, CleanAfter DEF TreeOK, TInv
<1>31. Blanks'
  <2>1. SUFFICES ASSUME NEW h \in Handle PROVE Blank(files[h])' /\ (~files'[h].used => files'[h] = NoFile)
    BY DEF Blanks, NoFile
  <2>2. CASE h = g
    BY <1>1, <1>2, <1>9, <2>2 DEF Blank
  <2>3. CASE h # g
    BY <1>14, <2>3 DEF TreeOK, Stages, Blanks, Blank
  <2> QED BY <2>2, <2>3
<1>32. Stages'
  BY <1>9, <1>31 DEF Stages
<1> QED BY <1>18, <1>21, <1>23, <1>25, <1>27, <1>28, <1>29, <1>30, <1>32 DEF TreeOK

LEMMA CreateTree ==
  ASSUME TInv, BInv, FInv, TreeOK, Create, ~Spoils
  PROVE  TreeOK'
  BY CreateNoneTree, CreateNewTree

-----------------------------------------------------------------------------
(* A move fills its destination in                                         *)

\* fatuc__getdirbufoffile: the buffer is the directory, and no other one is.
LEMMA DirBufFacts ==
  ASSUME TInv, BInv, BufsFresh, NEW h \in Handle, NEW b \in DirBufOf(h), b.full,
         NEW x, x = b.buf, NEW z, z = files[h].dclus, NEW m, m = Mem(b.buf)
  PROVE  /\ x \in BufName /\ z \in Clus /\ (x = "RD" <=> z = Root) /\ Fresh(m, z) /\ m \in DirType
         /\ cur.buf = x <=> cur.clus = z
         /\ temp.full /\ temp.buf = x => temp.clus = z
         /\ temp.full /\ temp.clus # cur.clus /\ temp.clus = z => temp.buf = x
<1>1. x \in BufName /\ z \in Clus
  BY DirBufTypes DEF TInv, FileTypes, FileType
<1>2. m \in DirType
  BY <1>1, MemType DEF TInv
<1>3. CASE z = cur.clus
  <2>1. b = DirBuf(cur.buf, TRUE)
    BY <1>3 DEF DirBufOf
  <2>2. x = cur.buf
    BY <2>1 DEF DirBuf
  <2>3. Fresh(m, z)
    BY <1>3, <2>2 DEF BufsFresh
  <2> QED BY <1>1, <1>2, <1>3, <2>2, <2>3 DEF BInv, Proper
<1>4. CASE z # cur.clus /\ z = temp.clus
  <2>1. b = DirBuf(temp.buf, temp.full)
    BY <1>4 DEF DirBufOf
  <2>2. x = temp.buf /\ temp.full
    BY <2>1 DEF DirBuf
  <2>3. Fresh(m, z)
    BY <1>4, <2>2 DEF BufsFresh
  <2> QED BY <1>1, <1>2, <1>4, <2>2, <2>3 DEF BInv, Proper
<1>5. CASE z # cur.clus /\ z # temp.clus
  <2>1. b = DirBuf("RD", TRUE) /\ z = Root
    BY <1>5 DEF DirBufOf
  <2>2. x = "RD"
    BY <2>1 DEF DirBuf
  <2>3. m = Dirs(z)
    BY <2>1, <2>2, RootAtHand
  <2>4. Fresh(m, z)
    BY <2>3, FreshItself
  <2> QED BY <1>1, <1>2, <1>5, <2>1, <2>2, <2>4 DEF BInv, Proper
<1> QED BY <1>3, <1>4, <1>5

LEMMA OwnersPass ==
  ASSUME Owners, SameChains, UNCHANGED used, NoneGoing, NEW g \in Handle, NEW s \in Handle, g # s,
         \A h \in Handle : h # g /\ h # s => SameCarries(h), ~Carries(g), ~Carries(s)',
         Carries(g)' <=> Carries(s), Carries(s) => files'[g].clus = files[s].clus
  PROVE  Owners'
<1>1. \A k : ~Going(k) /\ ~Going(k)'
  BY DEF Going, NoneGoing
<1>2. EntriesApart'
  BY DEF Owners, EntriesApart, SameChains
<1>3. \A h \in Handle : Carries(h)' => \/ h = g /\ Carries(s) /\ files'[h].clus = files[s].clus
                                       \/ h # g /\ h # s /\ Carries(h) /\ files'[h].clus = files[h].clus
  BY DEF SameCarries
<1>4. CarriedApart'
  <2>1. ASSUME NEW h \in Handle, Carries(h)', NEW c \in Clus, NEW i \in Slot
        PROVE  E(c, i)'.clus # files'[h].clus
    BY <1>3, <2>1 DEF Owners, CarriedApart, SameChains
  <2>2. ASSUME NEW x \in Handle, NEW h \in Handle, Carries(x)', Carries(h)', files'[x].clus = files'[h].clus
        PROVE  x = h
    BY <1>3, <2>2 DEF Owners, CarriedApart
  <2> QED BY <2>1, <2>2 DEF CarriedApart
<1>5. OwnedUsed'
  <2>1. ASSUME NEW c \in Clus, NEW i \in Slot, E(c, i)'.clus # 0
        PROVE  E(c, i)'.clus \in used'
    BY <1>1, <2>1 DEF Owners, OwnedUsed, SameChains
  <2>2. ASSUME NEW h \in Handle, Carries(h)'
        PROVE  files'[h].clus \in used'
    BY <1>1, <1>3, <2>2 DEF Owners, OwnedUsed
  <2> QED BY <2>1, <2>2 DEF OwnedUsed
<1>6. UsedOwned'
  <2>1. SUFFICES ASSUME NEW k \in used
                 PROVE  \/ \E c \in Clus, i \in Slot : E(c, i)'.clus = k
                        \/ \E h \in Handle : Carries(h)' /\ files'[h].clus = k
    BY DEF UsedOwned
  <2>2. CASE \E c \in Clus, i \in Slot : E(c, i).clus = k
    BY <2>2 DEF SameChains
  <2>3. CASE \E h \in Handle : Carries(h) /\ files[h].clus = k
    <3>1. PICK h \in Handle : Carries(h) /\ files[h].clus = k
      BY <2>3
    <3>2. CASE h = s
      BY <3>1, <3>2
    <3>3. CASE h # s
      BY <3>1, <3>3 DEF SameCarries
    <3> QED BY <3>2, <3>3
  <2> QED BY <2>2, <2>3 DEF Owners, UsedOwned
<1> QED BY <1>2, <1>4, <1>5, <1>6 DEF Owners

LEMMA NamePartsAlike ==
  ASSUME NEW d \in DirType, Clean(d), NEW i, NEW k, RoomFor(d, i, k), NEW w, w = NameParts(d, i, k)
  PROVE  Alike(d, w, 0) /\ Clean(w)
<1>1. /\ w.self = d.self /\ w.up = d.up
      /\ \A j \in Slot : w.ent[j] = IF j \in (i - k + 1) .. (i - 1) THEN Mark("LFN") ELSE d.ent[j]
  BY DEF NameParts, DirType
<1>2. \A j \in (i - k + 1) .. (i - 1) : d.ent[j].name \notin Names
  BY NameFacts DEF RoomFor
<1>3. Mark("LFN").name = "LFN" /\ "LFN" \notin Names
  BY NameFacts DEF Mark, Entry
<1>4. Alike(d, w, 0)
  BY <1>1, <1>2, <1>3 DEF Alike
<1>5. 0 \notin Slot
  BY SlotFacts
<1>6. Clean(w)
  BY <1>4, <1>5, AlikeClean DEF Clean
<1> QED BY <1>4, <1>6

\* What a move that is not spoilt does here.
LEMMA FillFacts ==
  ASSUME TInv, BInv, HInv, TreeOK, MoveFill, ~Spoils, NEW g, g = op.h, NEW s, s = op.src
  PROVE  /\ pc = "name" /\ g \in Handle /\ s \in Handle /\ g # s /\ files[g].clus = 0 /\ Holds(g)
         /\ UNCHANGED <<rdUpdated, disk, used, cur, temp, held>>
         /\ files[g].upd = {"ALL"} /\ files[g].attr = "ARCHIVE" /\ Active(g) /\ Source(s)
         /\ files[s].upd = {} /\ files[s].used /\ (files[s].attr = "DIR" => files[s].dclus = files[g].dclus)
         /\ pc' = "closing"
<1>1. /\ pc = "name" /\ files[g].clus = 0 /\ pc' = "closing"
      /\ UNCHANGED <<rdUpdated, disk, used, cur, temp, held>>
  BY DEF MoveFill, Close
<1>2. g \in Handle /\ s \in Handle /\ s # 0
  BY <1>1, HandleFacts DEF TInv, Places
<1>3. /\ files[s].used /\ files[s].upd = {} /\ g # s
      /\ Source(s) /\ Active(g)
  BY <1>1, <1>2 DEF TreeOK, Stages, SourceAt, FileAt, Source
<1>4. Holds(g) /\ files[g].upd # {} /\ (files[s].attr = "DIR" => files[s].dclus = files[g].dclus)
  BY <1>1 DEF Spoils, Holds
<1>5. files[g].upd = {"ALL"} /\ files[g].attr = "ARCHIVE"
  BY <1>1, <1>4 DEF TreeOK, Stages, FileAt
<1> QED BY <1>1, <1>2, <1>3, <1>4, <1>5

LEMMA FillStep ==
  ASSUME TInv, BInv, HInv, TreeOK, MoveFill, ~Spoils, NEW g, g = op.h, NEW s, s = op.src
  PROVE  /\ \E hs, r : Close(hs, r)
         /\ \E f : /\ files' = [files EXCEPT ![g] = f] /\ f.used = files[g].used /\ f.name = files[g].name
                   /\ f.dclus = files[g].dclus /\ f.upd = files[g].upd
                   /\ f.clus = files[s].clus /\ f.attr = files[s].attr
         /\ \/ UNCHANGED <<rd, buf>>
            \/ \E b \in DirBufOf(g) : \E i, k : /\ RoomFor(Mem(b.buf), i, k)
                                            /\ SetMem(b.buf, NameParts(Mem(b.buf), i, k))
<1> PICK f : f = Moved(files[g], files[s])
  OBVIOUS
<1> PICK k : k = op.slots
  OBVIOUS
<1>1. pc = "name" /\ g \in Handle /\ s \in Handle /\ op.src # 0 /\ pc' = "closing"
  BY FillFacts, HandleFacts
<1>2. files[g] \in FileType /\ files[s] \in FileType
  BY <1>1 DEF TInv, FileTypes
<1>3. /\ f \in FileType /\ f.used = files[g].used /\ f.name = files[g].name /\ f.dclus = files[g].dclus
      /\ f.upd = files[g].upd /\ f.clus = files[s].clus /\ f.attr = files[s].attr
  BY <1>2 DEF Moved, FileType
<1>4. CASE k = 1 /\ files' = [files EXCEPT ![g] = f] /\ Close(<<s, g>>, "OK") /\ UNCHANGED <<rd, buf>>
  BY <1>3, <1>4
<1>5. CASE \E b \in DirBufOf(g) :
             /\ RoomFor(Mem(b.buf), f.lpos, k)
             /\ SetMem(b.buf, NameParts(Mem(b.buf), f.lpos, k))
             /\ files' = [files EXCEPT ![g] = [f EXCEPT !.fpos = f.lpos - k + 1]]
             /\ Close(<<s, g>>, "OK")
  <2> PICK v : v = [f EXCEPT !.fpos = f.lpos - k + 1]
    OBVIOUS
  <2>1. /\ v.used = f.used /\ v.name = f.name /\ v.dclus = f.dclus
        /\ v.upd = f.upd /\ v.clus = f.clus /\ v.attr = f.attr
    BY <1>3 DEF FileType
  <2>2. files' = [files EXCEPT ![g] = v] /\ Close(<<s, g>>, "OK")
    BY <1>5
  <2>3. \E b \in DirBufOf(g) : \E i, n : /\ RoomFor(Mem(b.buf), i, n)
                                     /\ SetMem(b.buf, NameParts(Mem(b.buf), i, n))
    BY <1>5
  <2>4. /\ v.used = files[g].used /\ v.name = files[g].name /\ v.dclus = files[g].dclus
        /\ v.upd = files[g].upd /\ v.clus = files[s].clus /\ v.attr = files[s].attr
    BY <1>3, <2>1
  <2>5. \E u : /\ files' = [files EXCEPT ![g] = u] /\ u.used = files[g].used /\ u.name = files[g].name
               /\ u.dclus = files[g].dclus /\ u.upd = files[g].upd
               /\ u.clus = files[s].clus /\ u.attr = files[s].attr
    BY <2>2, <2>4
  <2>6. \E hs, r : Close(hs, r)
    BY <2>2
  <2> QED BY <2>3, <2>5, <2>6
<1>6. ~Close(<<s, g>>, "UNKNOWN")
  <2>1. SUFFICES ASSUME Close(<<s, g>>, "UNKNOWN") PROVE FALSE
    OBVIOUS
  <2>2. op'.out = "UNKNOWN"
    BY <2>1 DEF Close, TInv, OpTypes, OpType
  <2> QED BY <1>1, <2>2 DEF Spoils
<1> QED BY <1>4, <1>5, <1>6 DEF MoveFill

LEMMA FillMemory ==
  ASSUME TInv, BInv, HInv, TreeOK, MoveFill, ~Spoils
  PROVE  \E z \in Clus : \E b, d, w :
           /\ InMemory(b, d, w, 0) /\ Clean(w)
           /\ cur.buf = b => cur.clus = z
           /\ temp.full /\ temp.buf = b => temp.clus = z
<1> PICK g : g = op.h
  OBVIOUS
<1>1. UNCHANGED <<rdUpdated, disk>> /\ g \in Handle /\ Holds(g) /\ 0 \notin Slot
  BY FillFacts, SlotFacts
<1>2. CASE UNCHANGED <<rd, buf>>
  <2> PICK d : d = rd
    OBVIOUS
  <2>1. "RD" \in BufName /\ d = Mem("RD") /\ SetMem("RD", d)
    BY <1>2 DEF BufName, Mem, SetMem
  <2>2. Alike(d, d, 0)
    BY DEF Alike
  <2>3. Clean(d)
    BY <2>1 DEF TreeOK, AllClean
  <2>4. InMemory("RD", d, d, 0)
    BY <1>1, <2>1, <2>2 DEF InMemory
  <2>5. (cur.buf = "RD" => cur.clus = Root) /\ (temp.full /\ temp.buf = "RD" => temp.clus = Root)
    BY DEF BInv, Proper
  <2> QED BY <2>3, <2>4, <2>5, ClusFacts
<1>3. CASE \E b \in DirBufOf(g) : \E i, k : /\ RoomFor(Mem(b.buf), i, k)
                                            /\ SetMem(b.buf, NameParts(Mem(b.buf), i, k))
  <2>1. PICK b \in DirBufOf(g) : \E i, k : /\ RoomFor(Mem(b.buf), i, k)
                                           /\ SetMem(b.buf, NameParts(Mem(b.buf), i, k))
    BY <1>3
  <2>2. PICK i, k : RoomFor(Mem(b.buf), i, k) /\ SetMem(b.buf, NameParts(Mem(b.buf), i, k))
    BY <2>1
  <2> PICK x : x = b.buf
    OBVIOUS
  <2> PICK d : d = Mem(x)
    OBVIOUS
  <2> PICK w : w = NameParts(d, i, k)
    OBVIOUS
  <2> PICK z : z = files[g].dclus
    OBVIOUS
  <2>3. b.full
    BY <1>1, HeldFacts DEF DirBuf
  <2>4. /\ x \in BufName /\ z \in Clus /\ d \in DirType /\ (cur.buf = x => cur.clus = z)
        /\ (temp.full /\ temp.buf = x => temp.clus = z)
    BY <1>1, <2>3, DirBufFacts DEF TreeOK
  <2>5. Alike(d, w, 0) /\ Clean(w)
    BY <2>2, <2>4, NamePartsAlike DEF TreeOK, AllClean
  <2>6. InMemory(x, d, w, 0)
    BY <1>1, <2>2, <2>4, <2>5 DEF InMemory
  <2> QED BY <2>4, <2>5, <2>6
<1> QED BY <1>2, <1>3, FillStep

LEMMA MoveFillTree ==
  ASSUME TInv, BInv, HInv, TreeOK, MoveFill, ~Spoils
  PROVE  TreeOK'
<1> PICK g : g = op.h
  OBVIOUS
<1> PICK s : s = op.src
  OBVIOUS
<1>1. /\ pc = "name" /\ g \in Handle /\ s \in Handle /\ g # s /\ files[g].clus = 0
      /\ UNCHANGED <<rdUpdated, disk, used, cur, temp, held>>
      /\ files[g].upd = {"ALL"} /\ files[g].attr = "ARCHIVE" /\ Active(g) /\ Source(s)
      /\ files[s].upd = {} /\ files[s].used /\ (files[s].attr = "DIR" => files[s].dclus = files[g].dclus)
      /\ pc' = "closing"
  BY FillFacts
<1>2. (\E hs, r : Close(hs, r)) /\ NoneGoing
  BY <1>1, FillStep DEF NoneGoing
<1>3. PICK f : /\ files' = [files EXCEPT ![g] = f] /\ f.used = files[g].used /\ f.name = files[g].name
               /\ f.dclus = files[g].dclus /\ f.upd = files[g].upd
               /\ f.clus = files[s].clus /\ f.attr = files[s].attr
  BY FillStep
<1>4. PICK z \in Clus : \E b, d, w :
           /\ InMemory(b, d, w, 0) /\ Clean(w)
           /\ cur.buf = b => cur.clus = z
           /\ temp.full /\ temp.buf = b => temp.clus = z
  BY FillMemory
<1>5. PICK b, d, w : /\ InMemory(b, d, w, 0) /\ Clean(w)
                     /\ cur.buf = b => cur.clus = z
                     /\ temp.full /\ temp.buf = b => temp.clus = z
  BY <1>4
<1>6. 0 \notin Slot
  BY SlotFacts
<1>7. files'[g] = f /\ \A h \in Handle : h # g => files'[h] = files[h]
  BY <1>1, <1>3 DEF TInv, FileTypes
<1>8. SourceAt' /\ FileAt' /\ \A h \in Handle : ~Source(h)'
  BY <1>2, EndPlace DEF TreeOK, Stages
<1>9. \A h \in Handle : Active(h)' <=> Active(h)
  <2>1. \A h \in Handle : files'[h].used = files[h].used /\ files'[h].name = files[h].name
    BY <1>3, <1>7
  <2> QED BY <1>1, <2>1 DEF Active
<1>10. \A h \in Handle : (Dirty(h)' <=> Dirty(h)) /\ (New(h)' <=> New(h))
  BY <1>1, <1>3, <1>7, <1>9 DEF Dirty, New
<1>11. \A h \in Handle : Source(h) <=> h = s
  BY <1>1 DEF Source
<1>12. Dirty(g) /\ New(g) /\ ~Dirty(s) /\ ~New(s)
  BY <1>1 DEF Dirty, New
<1>13. \A h \in Handle : h # g /\ h # s => SameCarries(h)
  BY <1>7, <1>8, <1>10, <1>11 DEF SameCarries, Carries, CarriesDir
<1>14. /\ ~Carries(g) /\ ~Carries(s)' /\ (Carries(g)' <=> Carries(s)) /\ (Carries(s) => files'[g].clus = files[s].clus)
  BY <1>1, <1>3, <1>7, <1>8, <1>10, <1>11, <1>12 DEF Carries
<1>15. /\ ~CarriesDir(g) /\ ~CarriesDir(s)' /\ (CarriesDir(g)' <=> CarriesDir(s))
       /\ CarriesDir(s) => files'[g].clus = files[s].clus /\ files'[g].dclus = files[s].dclus
  BY <1>1, <1>3, <1>7, <1>8, <1>10, <1>11, <1>12 DEF CarriesDir
<1>16. SameChains
  BY <1>5, MemEntries DEF TreeOK
<1>17. Owners'
  BY <1>1, <1>2, <1>13, <1>14, <1>16, OwnersPass DEF TreeOK
<1>18. \A c : IsDir(c)' <=> IsDir(c)
  <2>1. ASSUME NEW c PROVE DirEntry(c)' <=> DirEntry(c)
    BY <1>16 DEF DirEntry, SameChains
  <2>2. ASSUME NEW c PROVE DirFile(c)' <=> DirFile(c)
    <3>1. ASSUME DirFile(c) PROVE DirFile(c)'
      <4>1. PICK h \in Handle : CarriesDir(h) /\ files[h].clus = c
        BY <3>1 DEF DirFile
      <4>2. CASE h = s
        BY <1>1, <1>15, <4>1, <4>2 DEF DirFile
      <4>3. CASE h # s
        BY <1>13, <1>15, <4>1, <4>3 DEF DirFile, SameCarries
      <4> QED BY <4>2, <4>3
    <3>2. ASSUME DirFile(c)' PROVE DirFile(c)
      <4>1. PICK h \in Handle : CarriesDir(h)' /\ files'[h].clus = c
        BY <3>2 DEF DirFile
      <4>2. CASE h = g
        BY <1>1, <1>15, <4>1, <4>2 DEF DirFile
      <4>3. CASE h # g
        BY <1>13, <1>15, <4>1, <4>3 DEF DirFile, SameCarries
      <4> QED BY <4>2, <4>3
    <3> QED BY <3>1, <3>2
  <2> QED BY <2>1, <2>2 DEF IsDir
<1>19. NamesInDirs' /\ rd'.up = -1 /\ SameDots
  BY <1>5, <1>18, MemDots DEF TreeOK, Dotted
<1>20. EntryDots'
  BY <1>16, <1>19, EntryDotsSame DEF TreeOK, Dotted
<1>21. FileDots'
  <2>1. SUFFICES ASSUME NEW h \in Handle, CarriesDir(h)'
                 PROVE  LET k == files'[h].clus
                        IN k # Root /\ disk'[k].self = k /\ disk'[k].up = files'[h].dclus
    BY DEF FileDots
  <2>2. disk' = disk
    BY <1>1
  <2>3. CASE h = g
    BY <1>1, <1>15, <2>1, <2>2, <2>3 DEF TreeOK, Dotted, FileDots
  <2>4. CASE h # g
    BY <1>1, <1>13, <1>15, <2>1, <2>2, <2>4 DEF TreeOK, Dotted, FileDots, SameCarries
  <2> QED BY <2>3, <2>4
<1>22. Dotted'
  BY <1>19, <1>20, <1>21 DEF Dotted
<1>23. Rooted'
  <2>1. ASSUME NEW h \in Handle, NEW c, Active(h)' \/ Source(h)', c = files'[h].dclus
        PROVE  IsDir(c)'
    <3>1. Active(h) /\ c = files[h].dclus
      BY <1>3, <1>7, <1>8, <1>9, <2>1
    <3> QED BY <1>18, <3>1 DEF TreeOK, Rooted
  <2> PICK x : x = cur'.clus
    OBVIOUS
  <2> PICK y : y = temp'.clus
    OBVIOUS
  <2> PICK v : v = op'.at.clus
    OBVIOUS
  <2>2. IsDir(x)' /\ (temp'.full => IsDir(y)') /\ (pc' \in {"walk", "find"} => IsDir(v)')
    BY <1>1, <1>18 DEF TreeOK, Rooted
  <2> QED BY <2>1, <2>2, RootedAfter
<1>24. AllKnown'
  <2>1. SUFFICES ASSUME NEW h \in Handle, Active(h)' PROVE Known(h)'
    BY DEF AllKnown
  <2>2. /\ Active(h) /\ files'[h].name = files[h].name /\ files'[h].dclus = files[h].dclus
        /\ (Dirty(h)' <=> Dirty(h))
        /\ (~Dirty(h) => files'[h].clus = files[h].clus /\ files'[h].attr = files[h].attr)
    BY <1>3, <1>7, <1>9, <1>10, <1>12, <2>1
  <2> QED BY <1>5, <2>2, MemKnown DEF TreeOK
<1>25. OpenOnce'
  <2>1. ASSUME NEW h \in Handle, files'[h].used, files'[h].name \in Names
        PROVE  files[h].used /\ files'[h].name = files[h].name /\ files'[h].dclus = files[h].dclus
    BY <1>3, <1>7, <2>1
  <2> QED BY <2>1, OnceSame DEF TreeOK
<1>26. NewStays
  BY <1>3, <1>7, <1>10 DEF NewStays
<1>27. BufsFresh'
  BY <1>1, <1>5, <1>6, <1>26, MemBufs DEF TreeOK
<1>28. RootFresh'
  BY <1>5, MemRoot DEF TreeOK
<1>29. AllClean'
  BY <1>1, <1>4, <1>5, CleanAfter DEF TreeOK, TInv, InMemory
<1>30. Blanks'
  <2>1. SUFFICES ASSUME NEW h \in Handle PROVE Blank(files[h])' /\ (~files'[h].used => files'[h] = NoFile)
    BY DEF Blanks, NoFile
  <2>2. CASE h = g
    <3>1. files'[h].name \in Names /\ files'[h].used
      <4>1. f.name \in Names /\ f.used
        BY <1>1, <1>3 DEF Active
      <4> QED BY <1>7, <2>2, <4>1
    <3> QED BY <3>1 DEF Blank
  <2>3. CASE h # g
    <3>1. files'[h] = files[h]
      BY <1>7, <2>3
    <3> QED BY <3>1 DEF TreeOK, Stages, Blanks, Blank
  <2> QED BY <2>2, <2>3
<1>31. Stages'
  BY <1>8, <1>30 DEF Stages
<1> QED BY <1>17, <1>22, <1>23, <1>24, <1>25, <1>27, <1>28, <1>29, <1>31 DEF TreeOK

-----------------------------------------------------------------------------
(* Chains come and go                                                      *)

\* A file gets a chain that was free.
LEMMA OwnersNew ==
  ASSUME Owners, SameChains, NoneGoing, NEW c, c \notin used, c # 0, used' = used \cup {c},
         NEW g \in Handle, ~Carries(g), Carries(g)', files'[g].clus = c,
         \A h \in Handle : h # g => SameCarries(h)
  PROVE  Owners'
<1>1. \A k : ~Going(k) /\ ~Going(k)'
  BY DEF Going, NoneGoing
<1>2. EntriesApart'
  BY DEF Owners, EntriesApart, SameChains
<1>3. \A x \in Clus, i \in Slot : E(x, i)'.clus # c
  BY <1>1 DEF Owners, OwnedUsed, SameChains
<1>4. \A h \in Handle : Carries(h)' /\ h # g => Carries(h) /\ files'[h].clus = files[h].clus /\ files'[h].clus \in used
  BY <1>1 DEF Owners, OwnedUsed, SameCarries
<1>5. CarriedApart'
  <2>1. ASSUME NEW h \in Handle, Carries(h)', NEW x \in Clus, NEW i \in Slot
        PROVE  E(x, i)'.clus # files'[h].clus
    BY <1>3, <1>4, <2>1 DEF Owners, CarriedApart, SameChains
  <2>2. ASSUME NEW x \in Handle, NEW h \in Handle, Carries(x)', Carries(h)', files'[x].clus = files'[h].clus
        PROVE  x = h
    BY <1>4, <2>2 DEF Owners, CarriedApart
  <2> QED BY <2>1, <2>2 DEF CarriedApart
<1>6. OwnedUsed'
  <2>1. ASSUME NEW x \in Clus, NEW i \in Slot, E(x, i)'.clus # 0
        PROVE  E(x, i)'.clus \in used'
    BY <1>1, <2>1 DEF Owners, OwnedUsed, SameChains
  <2>2. ASSUME NEW h \in Handle, Carries(h)'
        PROVE  files'[h].clus \in used'
    BY <1>4, <2>2
  <2> QED BY <2>1, <2>2 DEF OwnedUsed
<1>7. UsedOwned'
  <2>1. SUFFICES ASSUME NEW k \in used, k # c
                 PROVE  \/ \E x \in Clus, i \in Slot : E(x, i)'.clus = k
                        \/ \E h \in Handle : Carries(h)' /\ files'[h].clus = k
    BY DEF UsedOwned
  <2>2. CASE \E x \in Clus, i \in Slot : E(x, i).clus = k
    BY <2>2 DEF SameChains
  <2>3. CASE \E h \in Handle : Carries(h) /\ files[h].clus = k
    BY <2>3 DEF SameCarries
  <2> QED BY <2>2, <2>3 DEF Owners, UsedOwned
<1> QED BY <1>2, <1>5, <1>6, <1>7 DEF Owners

\* The chain of a file is freed, and its entry is still there.
LEMMA OwnersFree ==
  ASSUME Owners, SameChains, \A h \in Handle : SameCarries(h), \A k : ~Going(k),
         NEW c, used' = used \ {c}, Going(c)'
  PROVE  Owners'
<1>1. EntriesApart'
  BY DEF Owners, EntriesApart, SameChains
<1>2. CarriedApart'
  <2>1. ASSUME NEW h \in Handle, Carries(h)', NEW x \in Clus, NEW i \in Slot
        PROVE  E(x, i)'.clus # files'[h].clus
    BY <2>1 DEF Owners, CarriedApart, SameChains, SameCarries
  <2>2. ASSUME NEW g \in Handle, NEW h \in Handle, Carries(g)', Carries(h)', files'[g].clus = files'[h].clus
        PROVE  g = h
    BY <2>2 DEF Owners, CarriedApart, SameCarries
  <2> QED BY <2>1, <2>2 DEF CarriedApart
<1>3. \A k \in used : k \in used' \/ Going(k)'
  OBVIOUS
<1>4. OwnedUsed'
  <2>1. ASSUME NEW x \in Clus, NEW i \in Slot, NEW k, k = E(x, i)'.clus, k # 0
        PROVE  k \in used' \/ Going(k)'
    <3>1. k \in used
      BY <2>1 DEF Owners, OwnedUsed, SameChains
    <3> QED BY <1>3, <3>1
  <2>2. ASSUME NEW h \in Handle, Carries(h)', NEW k, k = files'[h].clus
        PROVE  k \in used' \/ Going(k)'
    <3>1. k \in used
      BY <2>2 DEF Owners, OwnedUsed, SameCarries
    <3> QED BY <1>3, <3>1
  <2> QED BY <2>1, <2>2 DEF OwnedUsed, Going
<1>5. UsedOwned'
  <2>1. SUFFICES ASSUME NEW k \in used
                 PROVE  \/ \E x \in Clus, i \in Slot : E(x, i)'.clus = k
                        \/ \E h \in Handle : Carries(h)' /\ files'[h].clus = k
    BY DEF UsedOwned
  <2>2. CASE \E x \in Clus, i \in Slot : E(x, i).clus = k
    BY <2>2 DEF SameChains
  <2>3. CASE \E h \in Handle : Carries(h) /\ files[h].clus = k
    BY <2>3 DEF SameCarries
  <2> QED BY <2>2, <2>3 DEF Owners, UsedOwned
<1> QED BY <1>1, <1>2, <1>4, <1>5 DEF Owners

\* A chain is written over where no names were.
SameNamed ==
  \A k \in Clus, i \in Slot : E(k, i).name \in Names \/ E(k, i)'.name \in Names => E(k, i)' = E(k, i)

LEMMA DataDirs ==
  ASSUME TInv, AllClean, UNCHANGED <<rd, buf>>, NEW c \in Chains, NEW w, w.ent = Zeros.ent,
         disk' = [disk EXCEPT ![c] = w], \A i \in Slot : E(c, i).name \notin Names
  PROVE  /\ \A k \in Clus : k # c => Dirs(k)' = Dirs(k) /\ disk'[k] = disk[k]
         /\ SameChains /\ SameNamed /\ AllClean' /\ disk'[c] = w
<1>1. c \in Clus /\ c # Root /\ disk \in [Clus -> DirType] /\ "END" \notin Names
  BY ClusFacts, NameFacts DEF TInv, DiskTypes
<1>2. \A k \in Clus : k # c => Dirs(k)' = Dirs(k) /\ disk'[k] = disk[k]
  BY <1>1 DEF Dirs
<1>3. disk'[c] = w /\ Dirs(c)' = w
  BY <1>1 DEF Dirs
<1>4. \A i \in Slot : w.ent[i] = Mark("END")
  BY DEF Zeros, Dir
<1>5. Mark("END").clus = 0 /\ Mark("END").attr = "" /\ Mark("END").name = "END"
  BY DEF Mark, Entry
<1>6. \A i \in Slot : E(c, i)'.clus = 0 /\ E(c, i)'.attr = "" /\ E(c, i)'.name = "END"
  BY <1>3, <1>4, <1>5 DEF E
<1>7. \A i \in Slot : E(c, i).clus = 0 /\ E(c, i).attr = "" /\ E(c, i).name \notin Names
  BY <1>1, Unnamed DEF TInv
<1>8. \A k \in Clus, i \in Slot : k # c => E(k, i)' = E(k, i)
  BY <1>2 DEF E
<1>9. SameChains
  BY <1>6, <1>7, <1>8 DEF SameChains
<1>10. SameNamed
  BY <1>1, <1>6, <1>7, <1>8 DEF SameNamed
<1>11. Clean(w)
  BY <1>1, <1>4, <1>5 DEF Clean
<1>12. AllClean'
  <2>1. \A x \in BufName : Mem(x)' = Mem(x)
    BY DEF Mem
  <2>2. \A x \in BufName : Clean(Mem(x))'
    BY <2>1 DEF AllClean, Clean
  <2>3. ASSUME NEW k \in Clus PROVE Clean(disk[k])'
    <3> PICK m : m = disk'[k]
      OBVIOUS
    <3>1. Clean(m)
      BY <1>2, <1>3, <1>11 DEF AllClean
    <3> QED BY <3>1 DEF Clean
  <2> QED BY <2>2, <2>3 DEF AllClean
<1> QED BY <1>2, <1>3, <1>9, <1>10, <1>12

LEMMA FreshKept ==
  ASSUME NewStays, NEW d, NEW c, Dirs(c)' = Dirs(c), Fresh(d, c)
  PROVE  Fresh(d, c)'
<1>1. \A i : E(c, i)' = E(c, i)
  BY DEF E
<1>2. \A i \in Slot : Added(d.ent[i], c) => Added(d.ent[i], c)'
  BY DEF Added, NewStays
<1> QED BY <1>1, <1>2 DEF Fresh

LEMMA FreshThere ==
  ASSUME BufsFresh, UNCHANGED <<rd, buf, cur, temp>>, NewStays, pc' \notin {"walk", "find"},
         NEW c, c = cur.clus, Dirs(c)' = Dirs(c),
         NEW t, t = temp.clus, temp.full => Dirs(t)' = Dirs(t)
  PROVE  BufsFresh'
<1> PICK m : m = Mem(cur.buf)
  OBVIOUS
<1> PICK n : n = Mem(temp.buf)
  OBVIOUS
<1> PICK a : a = Mem(op.at.buf)'
  OBVIOUS
<1> PICK z : z = op'.at.clus
  OBVIOUS
<1>1. m = Mem(cur.buf)' /\ n = Mem(temp.buf)' /\ c = cur'.clus /\ t = temp'.clus
  BY DEF Mem
<1>2. Fresh(m, c)'
  BY FreshKept DEF BufsFresh
<1>3. temp'.full /\ t # c => Fresh(n, t)'
  <2>1. SUFFICES ASSUME temp.full, t # c PROVE Fresh(n, t)'
    OBVIOUS
  <2>2. Fresh(n, t)
    BY <2>1 DEF BufsFresh
  <2> QED BY <2>1, <2>2, FreshKept
<1> QED BY <1>1, <1>2, <1>3, FreshBufs

\* A file whose chain is written: it may have got it just now.
LEMMA KnownStored ==
  ASSUME TInv, AllClean, AllKnown, SameNamed, NEW h \in Handle, Active(h),
         files'[h].name = files[h].name, files'[h].dclus = files[h].dclus,
         \/ /\ Dirty(h)' <=> Dirty(h)
            /\ ~Dirty(h) => files'[h].clus = files[h].clus /\ files'[h].attr = files[h].attr
         \/ Dirty(h)' /\ files[h].clus = 0
  PROVE  Known(h)'
<1>1. files[h].dclus \in Clus /\ files[h].name \in Names
  BY DEF Active, TInv, FileTypes, FileType
<1> PICK c : c = files[h].dclus
  OBVIOUS
<1> PICK n : n = files[h].name
  OBVIOUS
<1>2. \A i : E(files[h].dclus, i)' = E(c, i)'
  BY DEF E, Dirs
<1>3. \A i \in Slot : E(c, i)'.name = n \/ E(c, i).name = n => E(c, i)' = E(c, i)
  BY <1>1 DEF SameNamed
<1>4. CASE Dirty(h)'
  <2>1. SUFFICES ASSUME NEW i \in Slot, E(c, i).name = n PROVE E(c, i).clus = 0
    BY <1>2, <1>3, <1>4 DEF Known
  <2>2. CASE Dirty(h)
    BY <2>1, <2>2 DEF AllKnown, Known
  <2>3. CASE ~Dirty(h)
    <3>1. files[h].clus = 0
      BY <1>4, <2>3
    <3>2. PICK j \in Slot : E(c, j).name = n /\ E(c, j).clus = 0
      BY <2>3, <3>1 DEF AllKnown, Known
    <3>3. i = j
      BY <1>1, <2>1, <3>2, DirsClean DEF Clean, E
    <3> QED BY <3>2, <3>3
  <2> QED BY <2>2, <2>3
<1>5. CASE ~Dirty(h)'
  BY <1>1, <1>2, <1>3, <1>5 DEF AllKnown, Known
<1> QED BY <1>4, <1>5

\* The directories there are stay, and their dots.
LEMMA DirsKept ==
  ASSUME SameChains, \A h \in Handle : CarriesDir(h) => CarriesDir(h)' /\ files'[h].clus = files[h].clus, NEW k
  PROVE  IsDir(k) => IsDir(k)'
<1>1. DirEntry(k) => DirEntry(k)'
  BY DEF DirEntry, SameChains
<1>2. DirFile(k) => DirFile(k)'
  BY DEF DirFile
<1> QED BY <1>1, <1>2 DEF IsDir

-----------------------------------------------------------------------------
(* Files are written to, and directories made                              *)

\* A file is given a chain, or the one it has is written again.
LEMMA StoreTree ==
  ASSUME TInv, TreeOK, NEW g \in Handle, Active(g), files[g].attr # "DIR",
         UNCHANGED <<rd, rdUpdated, buf, cur, temp, held>>,
         NEW c \in Chains, ~IsDir(c), disk' = [disk EXCEPT ![c] = Zeros],
         NEW f, files' = [files EXCEPT ![g] = f], f.used, f.name = files[g].name,
         f.dclus = files[g].dclus, f.clus = c, "ALL" \in f.upd <=> "ALL" \in files[g].upd,
         \/ c \notin used /\ used' = used \cup {c} /\ files[g].clus = 0 /\ "CLUS" \in f.upd
         \/ /\ used' = used /\ c = files[g].clus /\ f.attr = files[g].attr
            /\ "CLUS" \in f.upd <=> "CLUS" \in files[g].upd,
         f.attr = "DIR" => pc' = "dots" /\ op'.h = g,
         \A h \in Handle : ~Source(h) /\ ~Source(h)', NoneGoing, pc # "dots",
         pc' \notin {"walk", "find"}, pc' = "dots" => op'.h = g, SourceAt', FileAt'
  PROVE  TreeOK'
<1>1. files \in [Handle -> FileType]
  BY DEF TInv, FileTypes
<1>2. files'[g] = f /\ \A h \in Handle : h # g => files'[h] = files[h]
  BY <1>1
<1>3. \A h \in Handle : Active(h)' <=> Active(h)
  BY <1>2 DEF Active
<1>4. \A h \in Handle : New(h)' <=> New(h)
  BY <1>2, <1>3 DEF New
<1>5. \A h \in Handle : h # g => (Dirty(h)' <=> Dirty(h))
  BY <1>2, <1>3 DEF Dirty
<1>6. \A h \in Handle : h # g => SameCarries(h)
  BY <1>2, <1>4, <1>5 DEF SameCarries, Carries, CarriesDir
<1>7. c # 0 /\ c \in Clus
  BY ClusFacts
<1>8. \A i \in Slot : E(c, i).name \notin Names
  BY DEF TreeOK, Dotted, NamesInDirs
<1>9. /\ \A k \in Clus : k # c => Dirs(k)' = Dirs(k) /\ disk'[k] = disk[k]
      /\ SameChains /\ SameNamed /\ AllClean'
  <2> PICK w : w = Zeros
    OBVIOUS
  <2>1. w.ent = Zeros.ent /\ disk' = [disk EXCEPT ![c] = w]
    OBVIOUS
  <2>2. AllClean
    BY DEF TreeOK
  <2>3. UNCHANGED <<rd, buf>>
    OBVIOUS
  <2>4. /\ \A k \in Clus : k # c => Dirs(k)' = Dirs(k) /\ disk'[k] = disk[k]
        /\ SameChains /\ SameNamed /\ AllClean' /\ disk'[c] = w
    BY ONLY TInv, c \in Chains, <1>8, <2>1, <2>2, <2>3, DataDirs
  <2> QED BY <2>4
<1>10. ~CarriesDir(g)
  BY DEF CarriesDir
<1>11. \A h \in Handle : CarriesDir(h) => CarriesDir(h)' /\ files'[h].clus = files[h].clus
  BY <1>6, <1>10 DEF SameCarries
<1>12. \A k : IsDir(k) => IsDir(k)'
  BY <1>9, <1>11, DirsKept
<1>13. Owners'
  <2>1. CASE c \notin used /\ used' = used \cup {c} /\ files[g].clus = 0 /\ "CLUS" \in f.upd
    <3>1. ~Carries(g) /\ Carries(g)'
      BY <1>2, <1>3, <1>7, <2>1 DEF Carries, Dirty
    <3> QED BY <1>2, <1>6, <1>7, <1>9, <2>1, <3>1, OwnersNew DEF TreeOK
  <2>2. CASE used' = used /\ c = files[g].clus /\ f.attr = files[g].attr /\ ("CLUS" \in f.upd <=> "CLUS" \in files[g].upd)
    <3>1. Dirty(g)' <=> Dirty(g)
      BY <1>2, <1>3, <2>2 DEF Dirty
    <3>2. SameCarries(g)
      BY <1>2, <1>4, <1>10, <2>2, <3>1 DEF SameCarries, Carries, CarriesDir
    <3> QED BY <1>6, <1>9, <2>2, <3>2, OwnersSame DEF TreeOK
  <2> QED BY <2>1, <2>2
<1>14. \A k \in Clus : IsDir(k) => k # c
  OBVIOUS
<1>15. SameDots
  BY <1>9, <1>14 DEF SameDots
<1>16. EntryDots'
  BY <1>9, <1>15, EntryDotsSame DEF TreeOK, Dotted
<1>17. FileDots'
  <2>1. SUFFICES ASSUME NEW h \in Handle, CarriesDir(h)', NEW k, k = files'[h].clus
                 PROVE  /\ k # Root
                        /\ ~(pc' = "dots" /\ h = op'.h) => disk'[k].self = k /\ disk'[k].up = files'[h].dclus
    BY DEF FileDots
  <2>2. CASE h = g
    BY <1>2, <1>7, <2>1, <2>2 DEF CarriesDir, Root
  <2>3. CASE h # g
    <3>1. CarriesDir(h) /\ files'[h] = files[h]
      BY <1>2, <1>6, <2>1, <2>3 DEF SameCarries
    <3>2. k \in Clus /\ IsDir(k)
      BY <1>1, <2>1, <3>1 DEF FileType, IsDir, DirFile
    <3> QED BY <1>15, <2>1, <3>1, <3>2 DEF SameDots, TreeOK, Dotted, FileDots
  <2> QED BY <2>2, <2>3
<1>18. NamesInDirs'
  <2>1. SUFFICES ASSUME NEW k \in Chains, NEW i \in Slot, E(k, i)'.name \in Names PROVE IsDir(k)'
    BY DEF NamesInDirs
  <2>2. E(k, i)' = E(k, i)
    BY <1>9, <2>1, ClusFacts DEF SameNamed
  <2> QED BY <1>12, <2>1, <2>2 DEF TreeOK, Dotted, NamesInDirs
<1>19. Dotted'
  BY <1>16, <1>17, <1>18 DEF TreeOK, Dotted
<1>20. Rooted'
  <2>1. ASSUME NEW h \in Handle, NEW k, Active(h)' \/ Source(h)', k = files'[h].dclus
        PROVE  IsDir(k)'
    <3>1. Active(h) /\ k = files[h].dclus
      BY <1>2, <1>3, <2>1
    <3> QED BY <1>12, <3>1 DEF TreeOK, Rooted
  <2> PICK x : x = cur'.clus
    OBVIOUS
  <2> PICK y : y = temp'.clus
    OBVIOUS
  <2> PICK v : v = op'.at.clus
    OBVIOUS
  <2>2. IsDir(x)' /\ (temp'.full => IsDir(y)') /\ (pc' \in {"walk", "find"} => IsDir(v)')
    BY <1>12 DEF TreeOK, Rooted
  <2> QED BY <2>1, <2>2, RootedAfter
<1>21. AllKnown'
  <2>1. SUFFICES ASSUME NEW h \in Handle, Active(h)' PROVE Known(h)'
    BY DEF AllKnown
  <2>2. Active(h) /\ files'[h].name = files[h].name /\ files'[h].dclus = files[h].dclus
    BY <1>2, <1>3, <2>1
  <2>3. \/ /\ Dirty(h)' <=> Dirty(h)
           /\ ~Dirty(h) => files'[h].clus = files[h].clus /\ files'[h].attr = files[h].attr
        \/ Dirty(h)' /\ files[h].clus = 0
    BY <1>2, <1>3, <1>5, <2>1 DEF Dirty
  <2> QED BY <1>9, <2>2, <2>3, KnownStored DEF TreeOK
<1>22. OpenOnce'
  <2>1. ASSUME NEW h \in Handle, files'[h].used, files'[h].name \in Names
        PROVE  files[h].used /\ files'[h].name = files[h].name /\ files'[h].dclus = files[h].dclus
    BY <1>2, <2>1 DEF Active
  <2> QED BY <2>1, OnceSame DEF TreeOK
<1>23. NewStays
  BY <1>2, <1>4 DEF NewStays
<1>24. BufsFresh'
  <2> PICK x : x = cur.clus
    OBVIOUS
  <2> PICK y : y = temp.clus
    OBVIOUS
  <2>1. x \in Clus /\ y \in Clus
    BY DEF TInv, BufTypes, AtType, TempType
  <2>2. IsDir(x) /\ (temp.full => IsDir(y))
    BY DEF TreeOK, Rooted
  <2>3. Dirs(x)' = Dirs(x) /\ (temp.full => Dirs(y)' = Dirs(y))
    BY <1>9, <2>1, <2>2
  <2> QED BY <1>23, <2>3, FreshThere DEF TreeOK
<1>25. RootFresh'
  <2>1. disk'[Root] = disk[Root]
    BY <1>9, ClusFacts
  <2> QED BY <2>1 DEF TreeOK, RootFresh
<1>26. Blanks'
  <2>1. SUFFICES ASSUME NEW h \in Handle PROVE Blank(files[h])' /\ (~files'[h].used => files'[h] = NoFile)
    BY DEF Blanks, NoFile
  <2>2. CASE h = g
    <3>1. files'[h].name \in Names /\ files'[h].used
      BY <1>2, <2>2 DEF Active
    <3> QED BY <3>1 DEF Blank
  <2>3. CASE h # g
    <3>1. files'[h] = files[h]
      BY <1>2, <2>3
    <3> QED BY <3>1 DEF TreeOK, Stages, Blanks, Blank
  <2> QED BY <2>2, <2>3
<1>27. Stages'
  BY <1>26 DEF Stages
<1> QED BY <1>9, <1>13, <1>19, <1>20, <1>21, <1>22, <1>24, <1>25, <1>27 DEF TreeOK

\* The chain of a file the callers write to or delete bears no directory.
LEMMA FileNotDir ==
  ASSUME TInv, TreeOK, NEW g \in Handle, Active(g), files[g].attr # "DIR", files[g].clus # 0, pc # "remove"
  PROVE  ~IsDir(files[g].clus) /\ files[g].clus \in used
<1>1. ~Going(files[g].clus)
  BY DEF Going
<1>2. CASE Dirty(g)
  <2>1. Carries(g) /\ ~CarriesDir(g)
    BY <1>2 DEF Carries, CarriesDir
  <2> QED BY <1>1, <2>1, CarriedNotDir DEF TreeOK, Owners, OwnedUsed
<1>3. CASE ~Dirty(g)
  <2> PICK z : z = files[g].dclus
    OBVIOUS
  <2>1. z \in Clus
    BY DEF TInv, FileTypes, FileType
  <2>2. PICK i \in Slot : E(z, i).clus = files[g].clus /\ E(z, i).attr = files[g].attr
    BY <1>3 DEF TreeOK, AllKnown, Known
  <2>3. E(z, i).clus # 0 /\ E(z, i).attr # "DIR"
    BY <2>2
  <2>4. ~IsDir(E(z, i).clus)
    BY <2>1, <2>3, EntryNotDir DEF TreeOK
  <2>5. E(z, i).clus \in used
    BY <1>1, <2>1, <2>2, <2>3 DEF TreeOK, Owners, OwnedUsed
  <2> QED BY <2>2, <2>4, <2>5
<1> QED BY <1>2, <1>3

\* A file with attributes is one the callers opened.
LEMMA AttrActive ==
  ASSUME TInv, TreeOK, NEW g \in Handle, files[g].used, files[g].attr # "", held[g] # "dead"
  PROVE  Active(g)
  BY DEF Active, TreeOK, Stages, Blanks, Blank

LEMMA WriteFileTree ==
  ASSUME TInv, TreeOK, NEW g \in Handle, WriteFile(g)
  PROVE  TreeOK'
<1>1. /\ files[g].used /\ files[g].attr = "ARCHIVE" /\ held[g] # "dead" /\ pc = "idle"
      /\ UNCHANGED <<rd, rdUpdated, buf, cur, temp, pc, op, held>>
  BY DEF WriteFile, Writable, Call, bufVars
<1>2. PICK c \in IF files[g].clus = 0 THEN Chains \ used ELSE {files[g].clus}, s \in {1, files[g].size},
           grown \in BOOLEAN :
        /\ files' = [files EXCEPT ![g] = Written(@, c, s, grown)]
        /\ used' = used \cup {c}
        /\ disk' = [disk EXCEPT ![c] = Zeros]
  BY DEF WriteFile
<1>3. files \in [Handle -> FileType] /\ files[g] \in FileType
  BY DEF TInv, FileTypes
<1>4. Active(g) /\ files[g].attr # "DIR"
  BY <1>1, AttrActive
<1>5. op = NoCall /\ op.src = 0
  BY <1>1 DEF TreeOK, Stages, SourceAt, NoCall
<1>6. \A h \in Handle : ~Source(h) /\ ~Source(h)'
  BY <1>1, <1>5, HandleFacts DEF Source
<1>7. /\ c \in Chains /\ ~IsDir(c) /\ (files[g].clus = 0 => c \notin used)
      /\ files[g].clus # 0 => c = files[g].clus /\ c \in used
  <2>1. CASE files[g].clus = 0
    <3>1. c \in Chains /\ c \notin used /\ c # 0
      BY <1>2, <2>1, ClusFacts
    <3>2. ~Going(c)
      BY <1>1 DEF Going
    <3> QED BY <2>1, <3>1, <3>2, UnusedNotDir DEF TreeOK
  <2>2. CASE files[g].clus # 0
    <3>1. c = files[g].clus
      BY <1>2, <2>2
    <3>2. c \in Chains
      BY <1>3, <2>2, <3>1, ClusFacts DEF FileType
    <3> QED BY <1>1, <1>4, <2>2, <3>1, <3>2, FileNotDir
  <2> QED BY <2>1, <2>2
<1> PICK f : f = Written(files[g], c, s, grown)
  OBVIOUS
<1>8. files' = [files EXCEPT ![g] = f]
  BY <1>2
<1>9. /\ f.used = files[g].used /\ f.name = files[g].name /\ f.dclus = files[g].dclus /\ f.attr = files[g].attr
      /\ f.clus = c
      /\ f.upd = files[g].upd \cup (IF files[g].clus # c THEN {"CLUS"} ELSE {})
                              \cup (IF files[g].size # s \/ grown THEN {"SIZE"} ELSE {})
  BY <1>3 DEF Written, FileType
<1>10. "ALL" \in f.upd <=> "ALL" \in files[g].upd
  BY <1>9
<1>11. \/ c \notin used /\ used' = used \cup {c} /\ files[g].clus = 0 /\ "CLUS" \in f.upd
       \/ /\ used' = used /\ c = files[g].clus /\ f.attr = files[g].attr
          /\ "CLUS" \in f.upd <=> "CLUS" \in files[g].upd
  <2>1. CASE files[g].clus = 0
    <3>1. c # 0
      BY <1>7, ClusFacts
    <3> QED BY <1>2, <1>7, <1>9, <2>1, <3>1
  <2>2. CASE files[g].clus # 0
    <3>1. used \cup {c} = used
      BY <1>7, <2>2
    <3> QED BY <1>2, <1>7, <1>9, <2>2, <3>1
  <2> QED BY <2>1, <2>2
<1>12. NoneGoing /\ pc' = "idle"
  BY <1>1 DEF NoneGoing
<1>13. SourceAt' /\ FileAt'
  BY <1>1, <1>5 DEF SourceAt, FileAt
<1>14. /\ f.used /\ f.attr # "DIR" /\ c \in Chains /\ ~IsDir(c) /\ disk' = [disk EXCEPT ![c] = Zeros]
       /\ UNCHANGED <<rd, rdUpdated, buf, cur, temp, held>> /\ pc # "dots" /\ pc' \notin {"walk", "find", "dots"}
  BY <1>1, <1>2, <1>7, <1>9, <1>12
<1> QED BY <1>4, <1>6, <1>8, <1>9, <1>10, <1>11, <1>12, <1>13, <1>14, StoreTree

\* A write that gives the file nothing: only its size is marked.
LEMMA WriteNothingTree ==
  ASSUME TInv, TreeOK, NEW g \in Handle, WriteNothing(g)
  PROVE  TreeOK'
<1>1. pc = "idle" /\ UNCHANGED <<rd, rdUpdated, disk, used, buf, cur, temp, pc, op, held>>
  BY DEF WriteNothing, Writable, Call, bufVars
<1> PICK f : f = Written(files[g], 0, files[g].size, TRUE)
  OBVIOUS
<1>2. files' = [files EXCEPT ![g] = f] /\ files[g].clus = 0 /\ files[g].used /\ files[g].attr = "ARCHIVE"
  BY DEF WriteNothing, Writable
<1>3. files \in [Handle -> FileType] /\ files[g] \in FileType
  BY DEF TInv, FileTypes
<1>4. /\ f.used = files[g].used /\ f.name = files[g].name /\ f.dclus = files[g].dclus
      /\ f.attr = files[g].attr /\ f.clus = files[g].clus /\ f.upd = files[g].upd \cup {"SIZE"}
  BY <1>2, <1>3 DEF Written, FileType
<1>5. \A h \in Handle :
        /\ files'[h].used = files[h].used /\ files'[h].name = files[h].name
        /\ files'[h].dclus = files[h].dclus /\ files'[h].attr = files[h].attr
        /\ files'[h].clus = files[h].clus
        /\ "ALL" \in files'[h].upd <=> "ALL" \in files[h].upd
        /\ "CLUS" \in files'[h].upd <=> "CLUS" \in files[h].upd
        /\ h # g => files'[h] = files[h]
  <2>1. SUFFICES ASSUME NEW h \in Handle
                 PROVE  /\ files'[h].used = files[h].used /\ files'[h].name = files[h].name
                        /\ files'[h].dclus = files[h].dclus /\ files'[h].attr = files[h].attr
                        /\ files'[h].clus = files[h].clus
                        /\ "ALL" \in files'[h].upd <=> "ALL" \in files[h].upd
                        /\ "CLUS" \in files'[h].upd <=> "CLUS" \in files[h].upd
                        /\ h # g => files'[h] = files[h]
    OBVIOUS
  <2>2. CASE h = g
    <3>1. files'[h] = f
      BY <1>2, <1>3, <2>2
    <3>2. ("ALL" \in f.upd <=> "ALL" \in files[g].upd) /\ ("CLUS" \in f.upd <=> "CLUS" \in files[g].upd)
      BY <1>4
    <3> QED BY <1>4, <2>2, <3>1, <3>2
  <2>3. CASE h # g
    <3>1. files'[h] = files[h]
      BY <1>2, <1>3, <2>3
    <3> QED BY <2>3, <3>1
  <2> QED BY <2>2, <2>3
<1>6. /\ \A c : Dirs(c)' = Dirs(c)
      /\ \A c, i : E(c, i)' = E(c, i)
  BY <1>1, QuietDirs
<1>7. \A h \in Handle : /\ Active(h)' <=> Active(h)
                        /\ Dirty(h)' <=> Dirty(h)
                        /\ New(h)' <=> New(h)
                        /\ Source(h)' <=> Source(h)
  BY <1>1, <1>5 DEF Active, Dirty, New, Source
<1>8. \A h \in Handle : (Carries(h)' <=> Carries(h)) /\ (CarriesDir(h)' <=> CarriesDir(h))
  BY <1>5, <1>7 DEF Carries, CarriesDir
<1>9. \A k : (Going(k)' <=> Going(k)) /\ (IsDir(k)' <=> IsDir(k))
  BY <1>1, <1>5, <1>6, <1>8 DEF Going, IsDir, DirEntry, DirFile
<1>10. Owners'
  BY <1>1, <1>5, <1>6, <1>8, <1>9 DEF TreeOK, Owners, EntriesApart, CarriedApart, OwnedUsed, UsedOwned
<1>11. Dotted'
  BY <1>1, <1>5, <1>6, <1>8, <1>9 DEF TreeOK, Dotted, EntryDots, FileDots, NamesInDirs
<1>12. Rooted'
  BY <1>1, <1>5, <1>7, <1>9 DEF TreeOK, Rooted
<1>13. AllKnown'
  BY <1>5, <1>6, <1>7 DEF TreeOK, AllKnown, Known
<1>14. OpenOnce'
  BY <1>5, OnceSame DEF TreeOK
<1>15. BufsFresh'
  <2>1. NewStays
    BY <1>5, <1>7 DEF NewStays
  <2> QED BY <1>1, <2>1, FreshStill DEF TreeOK
<1>16. RootFresh' /\ AllClean'
  BY <1>1, CleanStill DEF TreeOK, RootFresh, TInv
<1>17. Stages'
  <2>1. Blanks'
    <3>1. SUFFICES ASSUME NEW h \in Handle PROVE Blank(files[h])' /\ (~files'[h].used => files'[h] = NoFile)
      BY DEF Blanks
    <3>2. CASE h = g
      <4>1. files[h].name \in Names
        BY <1>2, <3>2 DEF TreeOK, Stages, Blanks, Blank
      <4> QED BY <1>2, <1>5, <3>2, <4>1 DEF Blank
    <3>3. CASE h # g
      BY <1>5, <3>3 DEF TreeOK, Stages, Blanks, Blank
    <3> QED BY <3>2, <3>3
  <2>2. SourceAt' /\ FileAt'
    BY <1>1 DEF TreeOK, Stages, SourceAt, FileAt, NoCall
  <2> QED BY <2>1, <2>2 DEF Stages
<1> QED BY <1>10, <1>11, <1>12, <1>13, <1>14, <1>15, <1>16, <1>17 DEF TreeOK

LEMMA MkdirClearTree ==
  ASSUME TInv, TreeOK, MkdirClear, ~Spoils
  PROVE  TreeOK'
<1> PICK g : g = op.h
  OBVIOUS
<1>1. /\ pc = "mkdir" /\ files[g].clus = 0 /\ g \in Handle /\ op \in OpType /\ faults \in Nat
      /\ UNCHANGED <<rd, rdUpdated, buf, cur, temp, held>>
  BY DEF MkdirClear, TInv, Places, OpTypes, bufVars
<1>2. faults' = faults
  BY <1>1 DEF Spoils
<1>3. ~Fault
  BY <1>1, <1>2 DEF Fault
<1>4. ~Close(<<g>>, "NOMORE")
  <2>1. SUFFICES ASSUME Close(<<g>>, "NOMORE") PROVE FALSE
    OBVIOUS
  <2>2. pc' = "closing" /\ op'.out = "NOMORE"
    BY <1>1, <2>1 DEF Close, OpType
  <2> QED BY <1>1, <2>2 DEF Spoils
<1>5. PICK c \in Chains \ used, s \in {0, 1} :
        /\ files' = [files EXCEPT ![g] = [Written(@, c, s, TRUE) EXCEPT !.attr = "DIR"]]
        /\ used' = used \cup {c} /\ disk' = [disk EXCEPT ![c] = Zeros]
        /\ pc' = "dots" /\ op' = op
  BY <1>3, <1>4 DEF MkdirClear
<1>6. files \in [Handle -> FileType] /\ files[g] \in FileType
  BY <1>1 DEF TInv, FileTypes
<1>7. Active(g) /\ (files[g].upd = {} \/ files[g].attr = "ARCHIVE")
  BY <1>1 DEF TreeOK, Stages, FileAt
<1>8. files[g].attr # "DIR"
  <2>1. SUFFICES ASSUME files[g].upd = {}, files[g].attr = "DIR" PROVE FALSE
    BY <1>7
  <2> PICK z : z = files[g].dclus
    OBVIOUS
  <2>2. ~Dirty(g) /\ z \in Clus
    BY <1>6, <2>1 DEF Dirty, FileType
  <2>3. \E i \in Slot : E(z, i).clus = 0 /\ E(z, i).attr = "DIR"
    BY <1>1, <1>7, <2>1, <2>2 DEF TreeOK, AllKnown, Known
  <2> QED BY <2>2, <2>3 DEF TreeOK, Dotted, EntryDots, Root
<1>9. op.src = 0
  BY <1>1 DEF TreeOK, Stages, SourceAt
<1>10. \A h \in Handle : ~Source(h) /\ ~Source(h)'
  BY <1>5, <1>9, HandleFacts DEF Source
<1>11. c \in Chains /\ c \notin used /\ c # 0 /\ c \in Clus
  BY <1>5, ClusFacts
<1>12. ~IsDir(c)
  <2>1. ~Going(c)
    BY <1>1 DEF Going
  <2> QED BY <1>11, <2>1, UnusedNotDir DEF TreeOK
<1> PICK f : f = [Written(files[g], c, s, TRUE) EXCEPT !.attr = "DIR"]
  OBVIOUS
<1>13. files' = [files EXCEPT ![g] = f] /\ files'[g] = f
  BY <1>1, <1>5, <1>6
<1>14. /\ f.used = files[g].used /\ f.name = files[g].name /\ f.dclus = files[g].dclus /\ f.attr = "DIR"
       /\ f.clus = c
       /\ f.upd = files[g].upd \cup (IF files[g].clus # c THEN {"CLUS"} ELSE {})
                               \cup {"SIZE"}
  BY <1>6 DEF Written, FileType
<1>15. ("ALL" \in f.upd <=> "ALL" \in files[g].upd) /\ "CLUS" \in f.upd
  BY <1>1, <1>11, <1>14
<1>16. NoneGoing
  BY <1>1, <1>5 DEF NoneGoing
<1>17. SourceAt'
  BY <1>5, <1>9 DEF SourceAt
<1>18. FileAt'
  <2>1. Active(g)'
    BY <1>1, <1>7, <1>13, <1>14 DEF Active
  <2>2. disk'[c] = Zeros
    BY <1>5, <1>11 DEF TInv, DiskTypes
  <2>3. cur'.clus # c /\ (temp'.full => temp'.clus # c)
    BY <1>1, <1>12 DEF TreeOK, Rooted
  <2> QED BY <1>5, <1>11, <1>13, <1>14, <1>15, <2>1, <2>2, <2>3 DEF FileAt, Active
<1>19. f.used
  BY <1>7, <1>14 DEF Active
<1> QED BY <1>1, <1>5, <1>7, <1>8, <1>10, <1>11, <1>12, <1>13, <1>14, <1>15, <1>16, <1>17, <1>18, <1>19, StoreTree

\* A new directory gets its dots.
LEMMA MkdirDotsTree ==
  ASSUME TInv, TreeOK, MkdirDots, ~Spoils
  PROVE  TreeOK'
<1> PICK g : g = op.h
  OBVIOUS
<1> PICK f : f = files[g]
  OBVIOUS
<1> PICK c : c = f.clus
  OBVIOUS
<1> PICK w : w = Dots(f)
  OBVIOUS
<1>1. /\ pc = "dots" /\ g \in Handle /\ faults \in Nat
      /\ UNCHANGED <<rd, rdUpdated, used, buf, cur, temp, held>>
  BY DEF MkdirDots, TInv, Places, OpTypes, bufVars
<1>2. ~Fault
  BY <1>1 DEF Spoils, Fault
<1>3. /\ disk' = [disk EXCEPT ![c] = w] /\ files' = [files EXCEPT ![g].size = 0] /\ Close(<<g>>, "OK")
  BY <1>2 DEF MkdirDots
<1>4. files \in [Handle -> FileType] /\ f \in FileType
  BY <1>1 DEF TInv, FileTypes
<1>5. /\ Active(g) /\ f.attr = "DIR" /\ c # 0 /\ "CLUS" \in f.upd /\ disk[c] = Zeros
      /\ cur.clus # c /\ (temp.full => temp.clus # c)
  BY <1>1 DEF TreeOK, Stages, FileAt
<1>6. c \in Chains /\ c \in Clus
  BY <1>4, <1>5, ClusFacts DEF FileType
<1>7. SourceAt' /\ FileAt' /\ pc' = "closing" /\ \A h \in Handle : ~Source(h)'
  BY <1>3, EndPlace DEF TreeOK, Stages, Close
<1>8. op.src = 0 /\ \A h \in Handle : ~Source(h)
  BY <1>1, HandleFacts DEF TreeOK, Stages, SourceAt, Source
<1>9. \A h \in Handle : /\ files'[h].used = files[h].used /\ files'[h].name = files[h].name
                        /\ files'[h].attr = files[h].attr /\ files'[h].clus = files[h].clus
                        /\ files'[h].upd = files[h].upd /\ files'[h].dclus = files[h].dclus
                        /\ (h # g => files'[h] = files[h])
  <2> PICK v : v = [f EXCEPT !.size = 0]
    OBVIOUS
  <2>1. /\ v.used = f.used /\ v.name = f.name /\ v.attr = f.attr /\ v.clus = f.clus
        /\ v.upd = f.upd /\ v.dclus = f.dclus
    BY <1>4 DEF FileType
  <2>2. files'[g] = v /\ \A h \in Handle : h # g => files'[h] = files[h]
    BY <1>1, <1>3, <1>4
  <2> QED BY <2>1, <2>2
<1>10. \A h \in Handle : (Active(h)' <=> Active(h)) /\ (Source(h)' <=> Source(h))
  BY <1>1, <1>7, <1>8, <1>9 DEF Active
<1>11. \A h \in Handle : (Dirty(h)' <=> Dirty(h)) /\ (New(h)' <=> New(h))
  BY <1>9, <1>10 DEF Dirty, New
<1>12. \A h \in Handle : SameCarries(h)
  BY <1>9, <1>10, <1>11 DEF SameCarries, Carries, CarriesDir
<1>13. NoneGoing
  BY <1>1, <1>7 DEF NoneGoing
<1>14. \A i \in Slot : E(c, i).name \notin Names
  BY <1>5, <1>6, ZerosType, ClusFacts, NameFacts DEF E, Dirs, Root
<1>15. w.ent = Zeros.ent /\ w.self = c /\ w.up = f.dclus
  BY DEF Dots, Dir
<1>16. /\ \A k \in Clus : k # c => Dirs(k)' = Dirs(k) /\ disk'[k] = disk[k]
       /\ SameChains /\ SameNamed /\ AllClean' /\ disk'[c] = w
  BY <1>1, <1>3, <1>6, <1>14, <1>15, DataDirs DEF TreeOK
<1>17. Owners'
  BY <1>1, <1>12, <1>13, <1>16, OwnersSame DEF TreeOK
<1>18. \A k : IsDir(k)' <=> IsDir(k)
  BY <1>12, <1>16, DirsSame
<1>19. Carries(g)
  BY <1>5 DEF Carries, Dirty
<1>20. EntryDots'
  <2>1. SUFFICES ASSUME NEW z \in Clus, NEW i \in Slot, E(z, i)'.attr = "DIR", NEW k, k = E(z, i)'.clus
                 PROVE  k # Root /\ disk'[k].self = k /\ disk'[k].up = z
    BY DEF EntryDots
  <2>2. E(z, i).attr = "DIR" /\ k = E(z, i).clus
    BY <1>16, <2>1 DEF SameChains
  <2>3. k # c
    BY <1>1, <1>19, <2>1, <2>2 DEF TreeOK, Owners, CarriedApart
  <2>4. k \in Clus
    BY <2>2, EType DEF TInv
  <2> QED BY <1>16, <2>2, <2>3, <2>4 DEF TreeOK, Dotted, EntryDots
<1>21. FileDots'
  <2>1. SUFFICES ASSUME NEW h \in Handle, CarriesDir(h)', NEW k, k = files'[h].clus
                 PROVE  k # Root /\ disk'[k].self = k /\ disk'[k].up = files'[h].dclus
    BY DEF FileDots
  <2>2. CarriesDir(h) /\ k = files[h].clus /\ files'[h].dclus = files[h].dclus
    BY <1>9, <1>12, <2>1 DEF SameCarries
  <2>3. k # Root /\ (h # g => disk[k].self = k /\ disk[k].up = files[h].dclus)
    BY <1>1, <2>2 DEF TreeOK, Dotted, FileDots
  <2>4. CASE h = g
    BY <1>15, <1>16, <2>2, <2>3, <2>4
  <2>5. CASE h # g
    <3>1. Carries(h)
      BY <2>2, <2>3 DEF Carries, CarriesDir, New, Dirty, Root
    <3>2. k # c
      BY <1>1, <1>19, <2>2, <2>5, <3>1 DEF TreeOK, Owners, CarriedApart
    <3>3. k \in Clus
      BY <1>4, <2>2 DEF FileType
    <3> QED BY <1>16, <2>2, <2>3, <2>5, <3>2, <3>3
  <2> QED BY <2>4, <2>5
<1>22. NamesInDirs'
  <2>1. SUFFICES ASSUME NEW k \in Chains, NEW i \in Slot, E(k, i)'.name \in Names PROVE IsDir(k)'
    BY DEF NamesInDirs
  <2>2. E(k, i)' = E(k, i)
    BY <1>16, <2>1, ClusFacts DEF SameNamed
  <2> QED BY <1>18, <2>1, <2>2 DEF TreeOK, Dotted, NamesInDirs
<1>23. Dotted'
  BY <1>1, <1>20, <1>21, <1>22 DEF TreeOK, Dotted
<1>24. Rooted'
  <2>1. ASSUME NEW h \in Handle, NEW k, Active(h)' \/ Source(h)', k = files'[h].dclus
        PROVE  IsDir(k)'
    <3>1. Active(h) /\ k = files[h].dclus
      BY <1>7, <1>9, <1>10, <2>1
    <3> QED BY <1>18, <3>1 DEF TreeOK, Rooted
  <2> PICK x : x = cur'.clus
    OBVIOUS
  <2> PICK y : y = temp'.clus
    OBVIOUS
  <2> PICK v : v = op'.at.clus
    OBVIOUS
  <2>2. IsDir(x)' /\ (temp'.full => IsDir(y)') /\ (pc' \in {"walk", "find"} => IsDir(v)')
    BY <1>1, <1>7, <1>18 DEF TreeOK, Rooted
  <2> QED BY <2>1, <2>2, RootedAfter
<1>25. AllKnown'
  <2>1. SUFFICES ASSUME NEW h \in Handle, Active(h)' PROVE Known(h)'
    BY DEF AllKnown
  <2> QED BY <1>9, <1>10, <1>11, <1>16, <2>1, KnownStored DEF TreeOK
<1>26. OpenOnce'
  BY <1>9, OnceSame DEF TreeOK
<1>27. NewStays
  BY <1>9, <1>11 DEF NewStays
<1>28. BufsFresh'
  <2> PICK x : x = cur.clus
    OBVIOUS
  <2> PICK y : y = temp.clus
    OBVIOUS
  <2>1. x \in Clus /\ y \in Clus
    BY DEF TInv, BufTypes, AtType, TempType
  <2>2. Dirs(x)' = Dirs(x) /\ (temp.full => Dirs(y)' = Dirs(y))
    BY <1>5, <1>16, <2>1
  <2> QED BY <1>1, <1>7, <1>27, <2>2, FreshThere DEF TreeOK
<1>29. RootFresh'
  <2>1. disk'[Root] = disk[Root]
    BY <1>5, <1>16, ClusFacts DEF Root
  <2> QED BY <1>1, <2>1 DEF TreeOK, RootFresh
<1>30. Blanks'
  <2>1. SUFFICES ASSUME NEW h \in Handle PROVE Blank(files[h])' /\ (~files'[h].used => files'[h] = NoFile)
    BY DEF Blanks, NoFile
  <2>2. CASE h = g
    BY <1>5, <1>9, <2>2 DEF Blank, Active
  <2>3. CASE h # g
    <3>1. files'[h] = files[h]
      BY <1>9, <2>3
    <3> QED BY <3>1 DEF TreeOK, Stages, Blanks, Blank
  <2> QED BY <2>2, <2>3
<1>31. Stages'
  BY <1>7, <1>30 DEF Stages
<1> QED BY <1>16, <1>17, <1>23, <1>24, <1>25, <1>26, <1>28, <1>29, <1>31 DEF TreeOK

\* The chain of a file is freed first.
LEMMA DeleteTree ==
  ASSUME TInv, TreeOK, NEW g \in Handle, Delete(g), ~Spoils
  PROVE  TreeOK'
<1>1. /\ files[g].used /\ files[g].attr = "ARCHIVE" /\ held[g] # "dead" /\ pc = "idle"
      /\ UNCHANGED <<rd, rdUpdated, disk, buf, cur, temp, files>>
  BY DEF Delete, Call, bufVars
<1>2. /\ used' = used \ {files[g].clus} /\ held' = held
      /\ pc' = "remove" /\ op' = [NoCall EXCEPT !.call = "delete", !.h = g]
  <2>1. ~(held' = [held EXCEPT ![g] = "dead"])
    <3>1. SUFFICES ASSUME held' = [held EXCEPT ![g] = "dead"] PROVE FALSE
      OBVIOUS
    <3>2. held'[g] = "dead"
      BY <3>1 DEF TInv, FileTypes
    <3> QED BY <1>1, <3>2 DEF Spoils
  <2> QED BY <2>1 DEF Delete
<1>3. Active(g)
  BY <1>1, AttrActive
<1>4. op.src = 0 /\ op'.src = 0 /\ op'.h = g /\ op'.call = "delete"
  BY <1>1, <1>2 DEF TreeOK, Stages, SourceAt, NoCall
<1>5. \A h \in Handle : SameFile(h) /\ ~Source(h) /\ ~Source(h)'
  BY <1>1, <1>2, <1>4, HandleFacts DEF SameFile, Source, Active
<1>6. \A h \in Handle : SameCarries(h) /\ (New(h)' <=> New(h)) /\ (New(h) => files'[h] = files[h])
  BY <1>5, StaysCarries DEF SameFile, FileStays
<1>7. SameChains /\ \A c, i : E(c, i)' = E(c, i)
  BY <1>1, QuietDirs
<1> PICK c : c = files[g].clus
  OBVIOUS
<1>8. Going(c)' /\ \A k : ~Going(k)
  BY <1>1, <1>2, <1>4 DEF Going
<1>9. Owners'
  BY <1>2, <1>6, <1>7, <1>8, OwnersFree DEF TreeOK
<1>10. \A k : IsDir(k)' <=> IsDir(k)
  BY <1>6, <1>7, DirsSame
<1>11. SameDots
  BY <1>1 DEF SameDots
<1>12. NamesInDirs'
  BY <1>7, <1>10 DEF TreeOK, Dotted, NamesInDirs
<1>13. Dotted'
  BY <1>1, <1>6, <1>7, <1>11, <1>12, EntryDotsSame, FileDotsSame DEF TreeOK, Dotted
<1>14. Rooted'
  <2>1. ASSUME NEW h \in Handle, NEW k, Active(h)' \/ Source(h)', k = files'[h].dclus
        PROVE  IsDir(k)'
    <3>1. Active(h) /\ k = files[h].dclus
      BY <1>1, <1>5, <2>1 DEF SameFile
    <3> QED BY <1>10, <3>1 DEF TreeOK, Rooted
  <2> PICK x : x = cur'.clus
    OBVIOUS
  <2> PICK y : y = temp'.clus
    OBVIOUS
  <2> PICK v : v = op'.at.clus
    OBVIOUS
  <2>2. IsDir(x)' /\ (temp'.full => IsDir(y)') /\ (pc' \in {"walk", "find"} => IsDir(v)')
    BY <1>1, <1>2, <1>10 DEF TreeOK, Rooted
  <2> QED BY <2>1, <2>2, RootedAfter
<1>15. AllKnown'
  <2>1. SUFFICES ASSUME NEW h \in Handle, Active(h)' PROVE Known(h)'
    BY DEF AllKnown
  <2> QED BY <1>1, <1>5, <2>1, KnownSame DEF TreeOK
<1>16. OpenOnce'
  BY <1>1, OnceSame DEF TreeOK
<1>17. BufsFresh'
  <2>1. NewStays
    BY <1>6 DEF NewStays
  <2> QED BY <1>1, <1>2, <2>1, FreshStill DEF TreeOK
<1>18. RootFresh' /\ AllClean'
  BY <1>1, CleanStill DEF TreeOK, RootFresh, TInv
<1>19. Blanks'
  BY <1>1 DEF TreeOK, Stages, Blanks, Blank
<1>20. SourceAt'
  BY <1>2, <1>4 DEF SourceAt
<1>21. FileAt'
  BY <1>1, <1>2, <1>3, <1>4 DEF FileAt, Active
<1>22. Stages'
  BY <1>19, <1>20, <1>21 DEF Stages
<1> QED BY <1>9, <1>13, <1>14, <1>15, <1>16, <1>17, <1>18, <1>22 DEF TreeOK

-----------------------------------------------------------------------------
(* A directory buffer is changed at the entry of a file and saved          *)

Saved(g, x, z, m, d, p) ==
  /\ g \in Handle /\ x \in BufName /\ z \in Clus /\ p \in Slot /\ m \in DirType
  /\ x = "RD" <=> z = Root
  /\ m = Mem(x) /\ Fresh(m, z) /\ Alike(m, d, p) /\ Clean(d) /\ SetMem(x, d)
  /\ IF z = Root THEN rdUpdated' = TRUE /\ UNCHANGED disk
                 ELSE disk' = [disk EXCEPT ![z] = d] /\ UNCHANGED rdUpdated
  /\ cur.buf = x <=> cur.clus = z
  /\ temp.full /\ temp.buf = x => temp.clus = z
  /\ temp.full /\ temp.clus # cur.clus /\ temp.clus = z => temp.buf = x
  /\ z = files[g].dclus /\ Active(g) /\ m.ent[p].name = files[g].name
  /\ d.ent[p].name \in Names => d.ent[p].name = files[g].name

LEMMA SavedDirs ==
  ASSUME TInv, NEW g, NEW x, NEW z, NEW m, NEW d, NEW p, Saved(g, x, z, m, d, p)
  PROVE  /\ Dirs(z)' = d /\ \A j : E(z, j)' = d.ent[j]
         /\ \A c \in Clus : c # z => Dirs(c)' = Dirs(c) /\ disk'[c] = disk[c] /\ \A j : E(c, j)' = E(c, j)
         /\ \A c \in Clus : disk'[c].self = disk[c].self /\ disk'[c].up = disk[c].up
         /\ rd'.up = rd.up
<1>1. CASE z = Root
  <2>1. rd' = d /\ disk' = disk /\ rd = m /\ m = Dirs(z)
    BY <1>1 DEF Saved, SetMem, Mem, Dirs
  <2>2. \A c : c # z => Dirs(c)' = Dirs(c)
    BY <1>1, <2>1 DEF Dirs
  <2>3. Dirs(z)' = d
    BY <1>1, <2>1 DEF Dirs
  <2> QED BY <2>1, <2>2, <2>3 DEF Saved, Alike, E
<1>2. CASE z # Root
  <2>1. rd' = rd /\ disk' = [disk EXCEPT ![z] = d] /\ z \in Clus
    BY <1>2 DEF Saved, SetMem
  <2>2. disk'[z] = d /\ \A c \in Clus : c # z => disk'[c] = disk[c]
    BY <2>1 DEF TInv, DiskTypes
  <2>3. \A c \in Clus : c # z => Dirs(c)' = Dirs(c)
    BY <2>1, <2>2 DEF Dirs
  <2>4. Dirs(z)' = d /\ Dirs(z) = disk[z]
    BY <1>2, <2>2 DEF Dirs
  <2>5. d.self = disk[z].self /\ d.up = disk[z].up
    BY <2>4 DEF Saved, Alike, Fresh
  <2> QED BY <2>1, <2>2, <2>3, <2>4, <2>5 DEF E
<1> QED BY <1>1, <1>2

\* The other entries stay; those of new files come to the disk with them.
LEMMA SavedEntries ==
  ASSUME TInv, AllClean, NEW g, NEW x, NEW z, NEW m, NEW d, NEW p, Saved(g, x, z, m, d, p),
         NEW c \in Clus, NEW j \in Slot, c # z \/ j # p
  PROVE  /\ E(c, j)'.clus = E(c, j).clus /\ (E(c, j)'.attr = "DIR" <=> E(c, j).attr = "DIR")
         /\ E(c, j).name \in Names => E(c, j)' = E(c, j)
         /\ E(c, j)'.name \in Names => E(c, j)' = E(c, j) \/ E(c, j)'.clus = 0
<1>1. CASE c # z
  BY <1>1, SavedDirs
<1>2. CASE c = z
  <2>1. j # p /\ E(c, j)' = d.ent[j] /\ z \in Clus
    <3>1. E(z, j)' = d.ent[j]
      BY SavedDirs
    <3>2. E(c, j)' = E(z, j)'
      BY <1>2 DEF E, Dirs
    <3> QED BY <1>2, <3>1, <3>2 DEF Saved
  <2>2. \/ d.ent[j] = m.ent[j]
        \/ m.ent[j].name \notin Names /\ d.ent[j].name \notin Names /\ d.ent[j] = Mark(d.ent[j].name)
    BY <2>1 DEF Saved, Alike
  <2>3. E(z, j).name \in Names => m.ent[j] = E(z, j)
    BY DEF Saved, Fresh
  <2>4. CASE E(z, j).name \in Names
    BY <1>2, <2>1, <2>2, <2>3, <2>4
  <2>5. CASE E(z, j).name \notin Names
    <3>1. E(z, j).clus = 0 /\ E(z, j).attr = ""
      BY <2>1, <2>5, Unnamed DEF TInv
    <3>2. CASE d.ent[j].name \notin Names
      <4> PICK n : n = d.ent[j].name
        OBVIOUS
      <4>1. d.ent[j] = Mark(n)
        BY <3>2 DEF Saved, Clean
      <4>2. Mark(n).clus = 0 /\ Mark(n).attr = ""
        BY DEF Mark, Entry
      <4> QED BY <1>2, <2>1, <2>5, <3>1, <3>2, <4>1, <4>2
    <3>3. CASE d.ent[j].name \in Names
      <4>1. d.ent[j] = m.ent[j]
        BY <2>2, <3>3
      <4>2. Added(m.ent[j], z)
        BY <2>5, <3>3, <4>1 DEF Saved, Fresh
      <4>3. d.ent[j].clus = 0 /\ d.ent[j].attr = "ARCHIVE"
        BY <4>1, <4>2 DEF Added
      <4> QED BY <1>2, <2>1, <2>5, <3>1, <4>3
    <3> QED BY <3>2, <3>3
  <2> QED BY <2>4, <2>5
<1> QED BY <1>1, <1>2

\* Buffers of other directories are not concerned.
LEMMA FreshElse ==
  ASSUME NEW d, NEW c, Dirs(c)' = Dirs(c), Fresh(d, c),
         \A h \in Handle : New(h) /\ files[h].dclus = c =>
           New(h)' /\ files'[h].name = files[h].name /\ files'[h].dclus = files[h].dclus
  PROVE  Fresh(d, c)'
<1>1. \A i : E(c, i)' = E(c, i)
  BY DEF E
<1>2. \A i \in Slot : Added(d.ent[i], c) => Added(d.ent[i], c)'
  BY DEF Added
<1> QED BY <1>1, <1>2 DEF Fresh

LEMMA SavedFresh ==
  ASSUME TInv, BufsFresh, NEW g, NEW x, NEW z, NEW m, NEW d, NEW p, Saved(g, x, z, m, d, p),
         UNCHANGED <<cur, temp>>, pc' \notin {"walk", "find"},
         \A h \in Handle : h # g => files'[h] = files[h] /\ (New(h)' <=> New(h))
  PROVE  BufsFresh'
<1> PICK m1 : m1 = Mem(cur.buf)'
  OBVIOUS
<1> PICK c : c = cur.clus
  OBVIOUS
<1> PICK n1 : n1 = Mem(temp.buf)'
  OBVIOUS
<1> PICK t : t = temp.clus
  OBVIOUS
<1> PICK a : a = Mem(op.at.buf)'
  OBVIOUS
<1> PICK v : v = op'.at.clus
  OBVIOUS
<1> PICK u : u = cur.buf
  OBVIOUS
<1> PICK y : y = temp.buf
  OBVIOUS
<1>1. /\ u \in BufName /\ y \in BufName /\ c \in Clus /\ t \in Clus
      /\ m1 = Mem(u)' /\ n1 = Mem(y)'
  BY DEF TInv, BufTypes, AtType, TempType, Mem
<1>2. \A b \in BufName : Mem(b)' = IF b = x THEN d ELSE Mem(b)
  BY MemAfter DEF Saved, TInv
<1>3. \A k : k # z => \A h \in Handle : New(h) /\ files[h].dclus = k =>
           New(h)' /\ files'[h].name = files[h].name /\ files'[h].dclus = files[h].dclus
  BY DEF Saved
<1>4. Fresh(d, z)'
  <2>1. Dirs(z)' = d
    BY SavedDirs
  <2> QED BY <2>1 DEF Fresh, E
<1>5. Fresh(m1, c)'
  <2>1. CASE c = z
    BY <1>1, <1>2, <1>4, <2>1 DEF Saved
  <2>2. CASE c # z
    <3>1. m1 = Mem(cur.buf)
      BY <1>1, <1>2, <2>2 DEF Saved, Mem
    <3>2. Fresh(m1, c)
      BY <3>1 DEF BufsFresh
    <3>3. Dirs(c)' = Dirs(c)
      BY <1>1, <2>2, SavedDirs
    <3> QED BY <1>3, <2>2, <3>2, <3>3, FreshElse
  <2> QED BY <2>1, <2>2
<1>6. ASSUME temp.full, t # c PROVE Fresh(n1, t)'
  <2>1. CASE t = z
    BY <1>1, <1>2, <1>4, <1>6, <2>1 DEF Saved
  <2>2. CASE t # z
    <3>1. n1 = Mem(temp.buf)
      BY <1>1, <1>2, <1>6, <2>2 DEF Saved, Mem
    <3>2. Fresh(n1, t)
      BY <1>6, <3>1 DEF BufsFresh
    <3>3. Dirs(t)' = Dirs(t)
      BY <1>1, <2>2, SavedDirs
    <3> QED BY <1>3, <2>2, <3>2, <3>3, FreshElse
  <2> QED BY <2>1, <2>2
<1>7. c = cur'.clus /\ t = temp'.clus /\ (temp'.full <=> temp.full)
  OBVIOUS
<1> QED BY <1>5, <1>6, <1>7, FreshBufs

LEMMA SavedKnown ==
  ASSUME TInv, AllClean, AllKnown, OpenOnce, NEW g, NEW x, NEW z, NEW m, NEW d, NEW p,
         Saved(g, x, z, m, d, p), NEW h \in Handle, h # g, Active(h), files'[h] = files[h], Dirty(h)' <=> Dirty(h)
  PROVE  Known(h)'
<1>1. files[h].dclus \in Clus /\ files[h].name \in Names
  BY DEF Active, TInv, FileTypes, FileType
<1> PICK c : c = files[h].dclus
  OBVIOUS
<1> PICK n : n = files[h].name
  OBVIOUS
<1>2. \A i : E(files[h].dclus, i)' = E(c, i)'
  BY DEF E, Dirs
<1>3. c = z => n # files[g].name
  BY DEF OpenOnce, Twice, Saved, Active
<1>4. CASE Dirty(h)
  <2>1. SUFFICES ASSUME NEW i \in Slot, E(c, i)'.name = n PROVE E(c, i)'.clus = 0
    BY <1>2, <1>4 DEF Known
  <2>2. c # z \/ i # p
    <3>1. SUFFICES ASSUME c = z, i = p PROVE FALSE
      OBVIOUS
    <3>2. d.ent[p].name = n
      BY <2>1, <3>1, SavedDirs
    <3> QED BY <1>1, <1>3, <3>1, <3>2 DEF Saved
  <2>3. E(c, i)' = E(c, i) \/ E(c, i)'.clus = 0
    BY <1>1, <2>1, <2>2, SavedEntries
  <2> QED BY <1>4, <2>1, <2>3 DEF AllKnown, Known
<1>5. CASE ~Dirty(h)
  <2>1. PICK i \in Slot : E(c, i).name = n /\ E(c, i).clus = files[h].clus /\ E(c, i).attr = files[h].attr
    BY <1>5 DEF AllKnown, Known
  <2>2. c # z \/ i # p
    <3>1. SUFFICES ASSUME c = z, i = p PROVE FALSE
      OBVIOUS
    <3>2. m.ent[p].name = n
      BY <1>1, <2>1, <3>1 DEF Saved, Fresh
    <3> QED BY <1>3, <3>1, <3>2 DEF Saved
  <2>3. E(c, i)' = E(c, i)
    BY <1>1, <2>1, <2>2, SavedEntries
  <2> QED BY <1>2, <1>5, <2>1, <2>3 DEF Known
<1> QED BY <1>4, <1>5

LEMMA SavedTree ==
  ASSUME TInv, TreeOK, NEW g, NEW x, NEW z, NEW m, NEW d, NEW p, Saved(g, x, z, m, d, p),
         UNCHANGED <<cur, temp>>, pc' \notin {"walk", "find"}, ~Active(g)', Source(g)' => files'[g].dclus = z,
         \A h \in Handle : h # g => files'[h] = files[h] /\ (Active(h)' <=> Active(h)) /\ ~Source(h)',
         \A k : IsDir(k) => IsDir(k)', Owners', EntryDots', FileDots', OpenOnce', Blanks', SourceAt', FileAt'
  PROVE  TreeOK'
<1>1. \A h \in Handle : h # g => (Dirty(h)' <=> Dirty(h)) /\ (New(h)' <=> New(h))
  BY DEF Dirty, New
<1>2. g \in Handle /\ z \in Clus /\ IsDir(z)
  BY DEF Saved, TreeOK, Rooted
<1>3. NamesInDirs'
  <2>1. SUFFICES ASSUME NEW c \in Chains, NEW i \in Slot, E(c, i)'.name \in Names PROVE IsDir(c)'
    BY DEF NamesInDirs
  <2>2. CASE c = z
    BY <1>2, <2>2
  <2>3. CASE c # z
    <3>1. E(c, i)' = E(c, i)
      BY <2>3, SavedDirs, ClusFacts
    <3> QED BY <2>1, <3>1 DEF TreeOK, Dotted, NamesInDirs
  <2> QED BY <2>2, <2>3
<1>4. Dotted'
  BY <1>3, SavedDirs DEF TreeOK, Dotted
<1>5. Rooted'
  <2>1. ASSUME NEW h \in Handle, NEW k, Active(h)' \/ Source(h)', k = files'[h].dclus
        PROVE  IsDir(k)'
    <3>1. CASE h = g
      BY <1>2, <2>1, <3>1
    <3>2. CASE h # g
      BY <2>1, <3>2 DEF TreeOK, Rooted
    <3> QED BY <3>1, <3>2
  <2> PICK u : u = cur'.clus
    OBVIOUS
  <2> PICK y : y = temp'.clus
    OBVIOUS
  <2> PICK v : v = op'.at.clus
    OBVIOUS
  <2>2. IsDir(u)' /\ (temp'.full => IsDir(y)') /\ (pc' \in {"walk", "find"} => IsDir(v)')
    BY DEF TreeOK, Rooted
  <2> QED BY <2>1, <2>2, RootedAfter
<1>6. AllKnown'
  <2>1. SUFFICES ASSUME NEW h \in Handle, Active(h)' PROVE Known(h)'
    BY DEF AllKnown
  <2>2. h # g /\ Active(h) /\ files'[h] = files[h] /\ (Dirty(h)' <=> Dirty(h))
    BY <1>1, <2>1
  <2> QED BY <2>2, SavedKnown DEF TreeOK
<1>7. BufsFresh'
  BY <1>1, SavedFresh DEF TreeOK
<1>8. RootFresh'
  <2>1. CASE z = Root
    BY <2>1 DEF Saved, RootFresh
  <2>2. CASE z # Root
    <3>1. disk'[Root] = disk[Root] /\ rd' = rd /\ rdUpdated' = rdUpdated
      <4>1. disk'[Root] = disk[Root]
        BY <2>2, SavedDirs, ClusFacts
      <4>2. x # "RD" /\ rdUpdated' = rdUpdated /\ SetMem(x, d)
        BY <2>2 DEF Saved
      <4> QED BY <4>1, <4>2 DEF SetMem
    <3> QED BY <3>1 DEF TreeOK, RootFresh
  <2> QED BY <2>1, <2>2
<1>9. AllClean'
  BY CleanAfter DEF Saved, TreeOK, TInv
<1> QED BY <1>4, <1>5, <1>6, <1>7, <1>8, <1>9 DEF TreeOK, Stages

\* What the entry of the file is on the disk and in the buffer.
LEMMA SavedEntry ==
  ASSUME TInv, TreeOK, NEW g, NEW x, NEW z, NEW m, NEW d, NEW p, Saved(g, x, z, m, d, p)
  PROVE  /\ Dirty(g) => /\ E(z, p).clus = 0 /\ E(z, p).attr # "DIR"
                        /\ m.ent[p].clus = 0 /\ m.ent[p].attr # "DIR"
         /\ ~Dirty(g) => /\ m.ent[p] = E(z, p) /\ E(z, p).name = files[g].name
                         /\ E(z, p).clus = files[g].clus /\ E(z, p).attr = files[g].attr
<1> PICK n : n = files[g].name
  OBVIOUS
<1>1. /\ n \in Names /\ Known(g) /\ z = files[g].dclus /\ z \in Clus /\ p \in Slot
      /\ m.ent[p].name = n /\ Fresh(m, z) /\ m = Mem(x) /\ x \in BufName
  BY DEF Saved, Active, TreeOK, AllKnown
<1>2. Clean(m)
  BY <1>1 DEF TreeOK, AllClean
<1>3. \A i \in Slot : E(z, i).name \in Names => m.ent[i] = E(z, i)
  BY <1>1 DEF Fresh
<1>4. CASE Dirty(g)
  <2>1. \A i \in Slot : E(z, i).name = n => E(z, i).clus = 0
    BY <1>1, <1>4 DEF Known
  <2>2. E(z, p).name \in Names => E(z, p).clus = 0
    BY <1>1, <1>3, <2>1
  <2>3. E(z, p).clus = 0
    BY <1>1, <2>2, Unnamed DEF TreeOK, TInv
  <2>4. E(z, p).attr # "DIR"
    BY <1>1, <2>3 DEF TreeOK, Dotted, EntryDots, Root
  <2>5. m.ent[p].clus = 0 /\ m.ent[p].attr # "DIR"
    <3>1. CASE m.ent[p] = E(z, p)
      BY <2>3, <2>4, <3>1
    <3>2. CASE m.ent[p] # E(z, p)
      <4>1. Added(m.ent[p], z)
        BY <1>1, <3>2 DEF Fresh
      <4> QED BY <4>1 DEF Added
    <3> QED BY <3>1, <3>2
  <2> QED BY <1>4, <2>3, <2>4, <2>5
<1>5. CASE ~Dirty(g)
  <2>1. PICK i \in Slot : E(z, i).name = n /\ E(z, i).clus = files[g].clus /\ E(z, i).attr = files[g].attr
    BY <1>1, <1>5 DEF Known
  <2>2. m.ent[i] = E(z, i)
    BY <1>1, <1>3, <2>1
  <2>3. i = p
    BY <1>1, <1>2, <2>1, <2>2 DEF Clean
  <2> QED BY <1>1, <1>5, <2>1, <2>2, <2>3
<1> QED BY <1>4, <1>5

-----------------------------------------------------------------------------
(* An entry is removed                                                     *)

LEMMA WithoutIs ==
  ASSUME NEW m \in DirType, NEW f
  PROVE  /\ Without(m, f).self = m.self /\ Without(m, f).up = m.up
         /\ \A j \in Slot : Without(m, f).ent[j] = IF j \in f.fpos .. f.lpos THEN Mark("FREE") ELSE m.ent[j]
<1> PICK e : e = [i \in Slot |-> IF i \in f.fpos .. f.lpos THEN Mark("FREE") ELSE m.ent[i]]
  OBVIOUS
<1>1. Without(m, f) = [m EXCEPT !.ent = e]
  BY DEF Without
<1> QED BY <1>1 DEF DirType

LEMMA RemoveFacts ==
  ASSUME TInv, BInv, HInv, FInv, TreeOK, Remove, ~Spoils, NEW g, g = op.h, NEW x, x = BufOf(g),
         NEW z, z = files[g].dclus, NEW m, m = Mem(x), NEW d, d = Without(m, files[g]), NEW p, p = files[g].lpos
  PROVE  /\ Saved(g, x, z, m, d, p) /\ d.ent[p] = Mark("FREE")
         /\ pc = "remove" /\ g \in Handle /\ op.src = 0 /\ Active(g)
         /\ files' = [files EXCEPT ![g].upd = {}] /\ held' = [held EXCEPT ![g] = "dead"]
         /\ UNCHANGED <<used, cur, temp>>
         /\ \/ op.call = "delete" /\ Return
            \/ /\ op.call = "move" /\ pc' = "dest"
               /\ op'.src = g /\ op'.h = 0 /\ op'.call = "move"
<1>1. pc = "remove" /\ g \in Handle /\ held' = [held EXCEPT ![g] = "dead"] /\ UNCHANGED <<used, cur, temp>>
  BY DEF Remove, TInv, Places
<1>2. Active(g) /\ op.src = 0 /\ Holds(g)
  BY <1>1 DEF TreeOK, Stages, FileAt, SourceAt, Spoils, Holds
<1>3. files \in [Handle -> FileType] /\ files[g] \in FileType /\ Placed(files[g]) /\ op \in OpType /\ faults \in Nat
  BY <1>1 DEF TInv, FileTypes, OpTypes
<1>4. PICK b \in DirBufOf(g) :
        /\ SetMem(b.buf, Without(Mem(b.buf), files[g]))
        /\ \/ /\ SaveOk(g, b, Without(Mem(b.buf), files[g]))
              /\ files' = [files EXCEPT ![g].upd = {}]
              /\ IF op.call = "delete" THEN Return
                 ELSE /\ pc' = "dest"
                      /\ op' = [op EXCEPT !.src = g, !.h = 0, !.create = TRUE,
                                  !.name = IF op.to = "END" THEN files[g].name ELSE op.to,
                                  !.slots = SlotsFor(op.to, files[g])]
           \/ SaveFails(g, b, Without(Mem(b.buf), files[g]))
  BY DEF Remove
<1>5. b = DirBuf(x, TRUE) /\ x \in BufName
  BY <1>1, <1>2, <1>4, HeldFacts
<1>6. b.buf = x /\ b.full
  BY <1>5 DEF DirBuf
<1>7. ~SaveFails(g, b, d)
  BY <1>1, <1>3 DEF SaveFails, Fault, Spoils
<1>8. SetMem(x, d) /\ SaveOk(g, b, d) /\ files' = [files EXCEPT ![g].upd = {}]
  BY <1>4, <1>6, <1>7
<1>9. op.call = "delete" \/ op.call = "move"
  BY <1>1 DEF TInv, Places
<1>10. \/ op.call = "delete" /\ Return
       \/ op.call = "move" /\ pc' = "dest" /\ op'.src = g /\ op'.h = 0 /\ op'.call = "move"
  <2>1. CASE op.call = "delete"
    BY <1>4, <1>6, <1>7, <2>1
  <2>2. CASE op.call = "move"
    <3> PICK n : n = IF op.to = "END" THEN files[g].name ELSE op.to
      OBVIOUS
    <3> PICK k : k = SlotsFor(op.to, files[g])
      OBVIOUS
    <3>0. op' = [op EXCEPT !.src = g, !.h = 0, !.create = TRUE, !.name = n, !.slots = k]
      BY <1>4, <1>6, <1>7, <2>2
    <3>1. op'.src = g /\ op'.h = 0 /\ op'.call = "move"
      BY <1>3, <2>2, <3>0 DEF OpType
    <3>2. pc' = "dest"
      BY <1>4, <1>6, <1>7, <2>2
    <3> QED BY <2>2, <3>1, <3>2
  <2> QED BY <1>9, <2>1, <2>2
<1>11. /\ z \in Clus /\ (x = "RD" <=> z = Root) /\ Fresh(m, z) /\ m \in DirType
       /\ cur.buf = x <=> cur.clus = z
       /\ temp.full /\ temp.buf = x => temp.clus = z
       /\ temp.full /\ temp.clus # cur.clus /\ temp.clus = z => temp.buf = x
  BY <1>1, <1>6, DirBufFacts DEF TreeOK
<1>12. Stands(files[g], m)
  BY <1>1, <1>2 DEF FInv, AllStand, Standing
<1>13. /\ p \in Slot /\ m.ent[p].name = files[g].name /\ p \in files[g].fpos .. files[g].lpos
       /\ \A j \in files[g].fpos .. files[g].lpos : j # p => m.ent[j].name = "LFN"
  BY <1>3, <1>12, StandsFacts
<1>14. /\ d.self = m.self /\ d.up = m.up
       /\ \A j \in Slot : d.ent[j] = IF j \in files[g].fpos .. files[g].lpos THEN Mark("FREE") ELSE m.ent[j]
  BY <1>11, WithoutIs
<1>15. d.ent[p] = Mark("FREE") /\ Mark("FREE").name = "FREE" /\ "FREE" \notin Names /\ "LFN" \notin Names
  BY <1>13, <1>14, NameFacts DEF Mark, Entry
<1>16. Alike(m, d, p)
  <2>1. ASSUME NEW j \in Slot, j # p
        PROVE  d.ent[j] = m.ent[j] \/ (m.ent[j].name = "LFN" /\ d.ent[j] = Mark("FREE"))
    BY <1>13, <1>14, <2>1
  <2> QED BY <1>14, <1>15, <2>1 DEF Alike
<1>17. Clean(m)
  BY <1>5 DEF TreeOK, AllClean
<1>18. Clean(d)
  BY <1>11, <1>15, <1>16, <1>17, AlikeClean DEF Clean
<1>19. IF z = Root THEN rdUpdated' = TRUE /\ UNCHANGED disk
                   ELSE disk' = [disk EXCEPT ![z] = d] /\ UNCHANGED rdUpdated
  BY <1>6, <1>8 DEF SaveOk
<1>20. Saved(g, x, z, m, d, p)
  BY <1>1, <1>2, <1>5, <1>8, <1>11, <1>13, <1>15, <1>16, <1>18, <1>19 DEF Saved
<1> QED BY <1>1, <1>2, <1>8, <1>10, <1>15, <1>20

\* An entry goes, and the file takes its chain with it.
LEMMA OwnersTake ==
  ASSUME Owners, UNCHANGED used, NoneGoing, NEW g \in Handle, NEW z \in Clus, NEW p \in Slot,
         \A c \in Clus, j \in Slot : c # z \/ j # p => E(c, j)'.clus = E(c, j).clus,
         E(z, p).clus = files[g].clus, E(z, p)'.clus = 0, files'[g].clus = files[g].clus,
         Carries(g)' <=> files[g].clus # 0, \A h \in Handle : h # g => SameCarries(h), ~Carries(g)
  PROVE  Owners'
<1>1. \A k : ~Going(k) /\ ~Going(k)'
  BY DEF Going, NoneGoing
<1>2. \A c \in Clus, j \in Slot : E(c, j)'.clus # 0 => (c # z \/ j # p) /\ E(c, j)'.clus = E(c, j).clus
  OBVIOUS
<1>3. EntriesApart'
  BY <1>2 DEF Owners, EntriesApart
<1>4. CarriedApart'
  <2>1. ASSUME NEW h \in Handle, Carries(h)', NEW c \in Clus, NEW i \in Slot, E(c, i)'.clus = files'[h].clus
        PROVE  FALSE
    <3>1. files'[h].clus # 0
      BY <2>1 DEF Carries
    <3>2. E(c, i).clus = files[h].clus /\ (c # z \/ i # p) /\ files[h].clus # 0
      BY <1>2, <2>1, <3>1 DEF SameCarries
    <3>3. CASE h = g
      BY <3>2, <3>3 DEF Owners, EntriesApart
    <3>4. CASE h # g
      BY <2>1, <3>2, <3>4 DEF Owners, CarriedApart, SameCarries
    <3> QED BY <3>3, <3>4
  <2>2. ASSUME NEW h \in Handle, Carries(h)', Carries(g)', files'[g].clus = files'[h].clus
        PROVE  g = h
    BY <2>2 DEF Owners, CarriedApart, SameCarries
  <2>3. ASSUME NEW e \in Handle, NEW h \in Handle, Carries(e)', Carries(h)', files'[e].clus = files'[h].clus
        PROVE  e = h
    <3>1. CASE e = g \/ h = g
      BY <2>2, <2>3, <3>1
    <3>2. CASE e # g /\ h # g
      BY <2>3, <3>2 DEF Owners, CarriedApart, SameCarries
    <3> QED BY <3>1, <3>2
  <2> QED BY <2>1, <2>3 DEF CarriedApart
<1>5. OwnedUsed'
  <2>1. ASSUME NEW c \in Clus, NEW i \in Slot, E(c, i)'.clus # 0
        PROVE  E(c, i)'.clus \in used'
    BY <1>1, <1>2, <2>1 DEF Owners, OwnedUsed
  <2>2. ASSUME NEW h \in Handle, Carries(h)'
        PROVE  files'[h].clus \in used'
    BY <1>1, <2>2 DEF Owners, OwnedUsed, SameCarries
  <2> QED BY <2>1, <2>2 DEF OwnedUsed
<1>6. UsedOwned'
  <2>1. SUFFICES ASSUME NEW k \in used
                 PROVE  \/ \E c \in Clus, i \in Slot : E(c, i)'.clus = k
                        \/ \E h \in Handle : Carries(h)' /\ files'[h].clus = k
    BY DEF UsedOwned
  <2>2. CASE \E c \in Clus, i \in Slot : E(c, i).clus = k
    <3>1. PICK c \in Clus, i \in Slot : E(c, i).clus = k
      BY <2>2
    <3>2. CASE c = z /\ i = p
      <4>1. files[g].clus = k
        BY <3>1, <3>2
      <4>2. CASE k = 0
        BY <3>2, <4>2
      <4>3. CASE k # 0
        BY <4>1, <4>3
      <4> QED BY <4>2, <4>3
    <3>3. CASE c # z \/ i # p
      BY <3>1, <3>3
    <3> QED BY <3>2, <3>3
  <2>3. CASE \E h \in Handle : Carries(h) /\ files[h].clus = k
    BY <2>3 DEF SameCarries
  <2> QED BY <2>2, <2>3 DEF Owners, UsedOwned
<1> QED BY <1>3, <1>4, <1>5, <1>6 DEF Owners

\* The entry of a file that was deleted goes, and with it the last that names the chain.
LEMMA OwnersDrop ==
  ASSUME Owners, UNCHANGED used, NEW g \in Handle, NEW z \in Clus, NEW p \in Slot,
         \A k : Going(k) => k = files[g].clus, \A k : ~Going(k)', files[g].clus \notin used,
         \A c \in Clus, j \in Slot : c # z \/ j # p => E(c, j)'.clus = E(c, j).clus,
         E(z, p)'.clus = 0, ~Carries(g)', \A h \in Handle : h # g => SameCarries(h),
         \/ E(z, p).clus = files[g].clus
         \/ E(z, p).clus = 0 /\ (files[g].clus # 0 => Carries(g))
  PROVE  Owners'
<1>1. \A c \in Clus, j \in Slot : E(c, j)'.clus # 0 => (c # z \/ j # p) /\ E(c, j)'.clus = E(c, j).clus
  OBVIOUS
<1>2. \A h \in Handle : Carries(h)' => h # g /\ Carries(h) /\ files'[h].clus = files[h].clus
  BY DEF SameCarries
<1>3. EntriesApart'
  BY <1>1 DEF Owners, EntriesApart
<1>4. CarriedApart'
  <2>1. ASSUME NEW h \in Handle, Carries(h)', NEW c \in Clus, NEW i \in Slot, E(c, i)'.clus = files'[h].clus
        PROVE  FALSE
    <3>1. files'[h].clus # 0
      BY <2>1 DEF Carries
    <3> QED BY <1>1, <1>2, <2>1, <3>1 DEF Owners, CarriedApart
  <2>2. ASSUME NEW e \in Handle, NEW h \in Handle, Carries(e)', Carries(h)', files'[e].clus = files'[h].clus
        PROVE  e = h
    BY <1>2, <2>2 DEF Owners, CarriedApart
  <2> QED BY <2>1, <2>2 DEF CarriedApart
<1>5. OwnedUsed'
  <2>1. ASSUME NEW c \in Clus, NEW i \in Slot, NEW k, k = E(c, i)'.clus, k # 0
        PROVE  k \in used
    <3>1. E(c, i).clus = k /\ (c # z \/ i # p)
      BY <1>1, <2>1
    <3>2. k # files[g].clus
      BY <2>1, <3>1 DEF Owners, EntriesApart, CarriedApart
    <3>3. ~Going(k)
      BY <3>2
    <3> QED BY <2>1, <3>1, <3>3 DEF Owners, OwnedUsed
  <2>2. ASSUME NEW h \in Handle, Carries(h)', NEW k, k = files'[h].clus
        PROVE  k \in used
    <3>1. Carries(h) /\ h # g /\ files[h].clus = k /\ k # 0
      BY <1>2, <2>2 DEF Carries
    <3>2. k # files[g].clus
      BY <3>1 DEF Owners, CarriedApart
    <3>3. ~Going(k)
      BY <3>2
    <3> QED BY <3>1, <3>3 DEF Owners, OwnedUsed
  <2> QED BY <2>1, <2>2 DEF OwnedUsed
<1>6. UsedOwned'
  <2>1. SUFFICES ASSUME NEW k \in used, k # 0
                 PROVE  \/ \E c \in Clus, i \in Slot : E(c, i)'.clus = k
                        \/ \E h \in Handle : Carries(h)' /\ files'[h].clus = k
    BY DEF UsedOwned
  <2>2. CASE \E c \in Clus, i \in Slot : E(c, i).clus = k
    <3>1. PICK c \in Clus, i \in Slot : E(c, i).clus = k
      BY <2>2
    <3>2. c # z \/ i # p
      BY <2>1, <3>1
    <3> QED BY <3>1, <3>2
  <2>3. CASE \E h \in Handle : Carries(h) /\ files[h].clus = k
    <3>1. PICK h \in Handle : Carries(h) /\ files[h].clus = k
      BY <2>3
    <3>2. h # g
      BY <3>1
    <3> QED BY <3>1, <3>2 DEF SameCarries
  <2> QED BY <2>2, <2>3 DEF Owners, UsedOwned
<1> QED BY <1>3, <1>4, <1>5, <1>6 DEF Owners

LEMMA RemoveOthers ==
  ASSUME TInv, NEW g \in Handle, op.src = 0, files' = [files EXCEPT ![g].upd = {}],
         held' = [held EXCEPT ![g] = "dead"],
         \A h \in Handle : h # g => ~Source(h)'
  PROVE  /\ \A h \in Handle : /\ files'[h].used = files[h].used /\ files'[h].name = files[h].name
                              /\ files'[h].attr = files[h].attr /\ files'[h].clus = files[h].clus
                              /\ files'[h].dclus = files[h].dclus
         /\ \A h \in Handle : h # g =>
              files'[h] = files[h] /\ (Active(h)' <=> Active(h)) /\ ~Source(h)' /\ SameCarries(h)
         /\ files'[g].upd = {} /\ held'[g] = "dead" /\ ~Active(g)' /\ ~Source(g)
<1>1. /\ files \in [Handle -> FileType] /\ files[g] \in FileType /\ held'[g] = "dead"
      /\ \A h \in Handle : h # g => held'[h] = held[h]
  BY DEF TInv, FileTypes
<1>2. \A h \in Handle : ~Source(h)
  BY HandleFacts DEF Source
<1>3. \A h \in Handle : h # g => files'[h] = files[h]
  BY <1>1
<1>4. files'[g] = [files[g] EXCEPT !.upd = {}]
  BY <1>1
<1>5. /\ files'[g].upd = {} /\ files'[g].used = files[g].used /\ files'[g].name = files[g].name
      /\ files'[g].attr = files[g].attr /\ files'[g].clus = files[g].clus /\ files'[g].dclus = files[g].dclus
  BY <1>1, <1>4 DEF FileType
<1>6. ~Active(g)'
  BY <1>1 DEF Active
<1>7. \A h \in Handle : h # g => FileStays(h) /\ (Active(h)' <=> Active(h))
  BY <1>1, <1>2, <1>3 DEF FileStays, Active
<1>8. \A h \in Handle : h # g => SameCarries(h)
  BY <1>7, StaysCarries
<1> QED BY <1>1, <1>2, <1>3, <1>5, <1>6, <1>7, <1>8

LEMMA RemoveMoveTree ==
  ASSUME TInv, BInv, HInv, FInv, TreeOK, Remove, ~Spoils, op.call = "move"
  PROVE  TreeOK'
<1> PICK g : g = op.h
  OBVIOUS
<1> PICK x : x = BufOf(g)
  OBVIOUS
<1> PICK z : z = files[g].dclus
  OBVIOUS
<1> PICK m : m = Mem(x)
  OBVIOUS
<1> PICK d : d = Without(m, files[g])
  OBVIOUS
<1> PICK p : p = files[g].lpos
  OBVIOUS
<1> PICK k0 : k0 = files[g].clus
  OBVIOUS
<1>1. /\ Saved(g, x, z, m, d, p) /\ d.ent[p] = Mark("FREE")
      /\ pc = "remove" /\ g \in Handle /\ op.src = 0 /\ Active(g)
      /\ files' = [files EXCEPT ![g].upd = {}] /\ held' = [held EXCEPT ![g] = "dead"]
      /\ UNCHANGED <<used, cur, temp>>
      /\ pc' = "dest" /\ op'.src = g /\ op'.h = 0 /\ op'.call = "move"
  BY RemoveFacts
<1>2. files[g].upd = {} /\ files[g].used /\ files[g].name \in Names
  BY <1>1 DEF TreeOK, Stages, FileAt, Active
<1>3. z \in Clus /\ p \in Slot /\ g # 0
  BY <1>1, HandleFacts DEF Saved
<1>4. \A h \in Handle : h # g => ~Source(h)'
  BY <1>1 DEF Source
<1>5. /\ \A h \in Handle : /\ files'[h].used = files[h].used /\ files'[h].name = files[h].name
                           /\ files'[h].attr = files[h].attr /\ files'[h].clus = files[h].clus
                           /\ files'[h].dclus = files[h].dclus
      /\ \A h \in Handle : h # g =>
           files'[h] = files[h] /\ (Active(h)' <=> Active(h)) /\ ~Source(h)' /\ SameCarries(h)
      /\ files'[g].upd = {} /\ held'[g] = "dead" /\ ~Active(g)' /\ ~Source(g)
  BY <1>1, <1>4, RemoveOthers
<1>6. ~Dirty(g) /\ ~Carries(g) /\ ~CarriesDir(g)
  BY <1>2, <1>5 DEF Dirty, New, Carries, CarriesDir
<1>7. E(z, p).clus = k0 /\ E(z, p).attr = files[g].attr
  BY <1>1, <1>6, SavedEntry
<1>8. E(z, p)'.clus = 0 /\ E(z, p)'.attr = ""
  <2>1. E(z, p)' = Mark("FREE")
    BY <1>1, SavedDirs
  <2>2. Mark("FREE").clus = 0 /\ Mark("FREE").attr = ""
    BY DEF Mark, Entry
  <2> QED BY <2>1, <2>2
<1>9. \A c \in Clus, j \in Slot : c # z \/ j # p =>
        E(c, j)'.clus = E(c, j).clus /\ (E(c, j)'.attr = "DIR" <=> E(c, j).attr = "DIR")
  BY <1>1, SavedEntries DEF TreeOK
<1>10. Source(g)' /\ (Carries(g)' <=> k0 # 0) /\ (CarriesDir(g)' <=> files[g].attr = "DIR")
  <2>1. Source(g)'
    BY <1>1 DEF Source
  <2> QED BY <1>1, <1>5, <2>1 DEF Carries, CarriesDir
<1>11. NoneGoing
  BY <1>1 DEF NoneGoing
<1>12. Owners'
  <2>1. /\ \A c \in Clus, j \in Slot : c # z \/ j # p => E(c, j)'.clus = E(c, j).clus
        /\ E(z, p).clus = files[g].clus /\ E(z, p)'.clus = 0 /\ files'[g].clus = files[g].clus
        /\ (Carries(g)' <=> files[g].clus # 0) /\ \A h \in Handle : h # g => SameCarries(h)
    BY <1>1, <1>5, <1>7, <1>8, <1>9, <1>10
  <2>2. Owners /\ used' = used /\ NoneGoing /\ ~Carries(g) /\ g \in Handle /\ z \in Clus /\ p \in Slot
    BY <1>1, <1>3, <1>6, <1>11 DEF TreeOK
  <2> QED BY <2>1, <2>2, OwnersTake
<1>13. \A k : IsDir(k) => IsDir(k)'
  <2>1. SUFFICES ASSUME NEW k, IsDir(k) PROVE IsDir(k)'
    OBVIOUS
  <2>2. CASE k = Root
    BY <2>2 DEF IsDir
  <2>3. CASE DirEntry(k)
    <3>1. PICK c \in Clus, j \in Slot : E(c, j).attr = "DIR" /\ E(c, j).clus = k
      BY <2>3 DEF DirEntry
    <3>2. CASE c = z /\ j = p
      <4>1. files[g].attr = "DIR" /\ k0 = k
        BY <1>7, <3>1, <3>2
      <4>2. CarriesDir(g)' /\ files'[g].clus = k
        BY <1>1, <1>5, <1>10, <4>1
      <4> QED BY <1>1, <4>2 DEF IsDir, DirFile
    <3>3. CASE c # z \/ j # p
      BY <1>9, <3>1, <3>3 DEF IsDir, DirEntry
    <3> QED BY <3>2, <3>3
  <2>4. CASE DirFile(k)
    <3>1. PICK h \in Handle : CarriesDir(h) /\ files[h].clus = k
      BY <2>4 DEF DirFile
    <3>2. h # g
      BY <1>6, <3>1
    <3> QED BY <1>5, <3>1, <3>2 DEF IsDir, DirFile, SameCarries
  <2> QED BY <2>1, <2>2, <2>3, <2>4 DEF IsDir
<1>14. EntryDots'
  <2>1. SUFFICES ASSUME NEW c \in Clus, NEW i \in Slot, NEW k, k = E(c, i)'.clus, E(c, i)'.attr = "DIR"
                 PROVE  k # Root /\ disk'[k].self = k /\ disk'[k].up = c
    BY DEF EntryDots
  <2>2. c # z \/ i # p
    BY <1>8, <2>1
  <2>3. k = E(c, i).clus /\ E(c, i).attr = "DIR"
    BY <1>9, <2>1, <2>2
  <2>4. k \in Clus /\ k # Root /\ disk[k].self = k /\ disk[k].up = c
    BY <2>3, EType DEF TInv, TreeOK, Dotted, EntryDots
  <2> QED BY <1>1, <2>4, SavedDirs
<1>15. FileDots'
  <2>1. ASSUME NEW h \in Handle, CarriesDir(h)', NEW k, k = files'[h].clus
        PROVE  k # Root /\ disk'[k].self = k /\ disk'[k].up = files'[h].dclus
    <3>1. CASE h = g
      <4>1. E(z, p).attr = "DIR" /\ E(z, p).clus = k
        BY <1>5, <1>7, <1>10, <2>1, <3>1
      <4>2. k \in Clus /\ k # Root /\ disk[k].self = k /\ disk[k].up = z
        BY <1>3, <4>1, EType DEF TInv, TreeOK, Dotted, EntryDots
      <4> QED BY <1>1, <1>5, <3>1, <4>2, SavedDirs
    <3>2. CASE h # g
      <4>1. CarriesDir(h) /\ files'[h] = files[h]
        BY <1>5, <2>1, <3>2 DEF SameCarries
      <4>2. k # Root /\ disk[k].self = k /\ disk[k].up = files[h].dclus
        BY <1>1, <2>1, <4>1 DEF TreeOK, Dotted, FileDots
      <4>3. k \in Clus
        BY <2>1, <4>1 DEF TInv, FileTypes, FileType
      <4> QED BY <1>1, <4>1, <4>2, <4>3, SavedDirs
    <3> QED BY <3>1, <3>2
  <2> QED BY <2>1 DEF FileDots
<1>16. OpenOnce'
  BY <1>5, OnceSame DEF TreeOK
<1>17. Blanks'
  <2>1. SUFFICES ASSUME NEW h \in Handle PROVE Blank(files[h])' /\ (~files'[h].used => files'[h] = NoFile)
    BY DEF Blanks
  <2>2. CASE h = g
    BY <1>2, <1>5, <2>2 DEF Blank
  <2>3. CASE h # g
    <3>1. files'[h] = files[h]
      BY <1>5, <2>3
    <3> QED BY <3>1 DEF TreeOK, Stages, Blanks, Blank
  <2> QED BY <2>2, <2>3
<1>18. SourceAt'
  BY <1>1, <1>2, <1>3, <1>5 DEF SourceAt
<1>19. FileAt'
  BY <1>1 DEF FileAt
<1>20. Source(g)' => files'[g].dclus = z
  BY <1>1, <1>5
<1>21. /\ UNCHANGED <<cur, temp>> /\ pc' \notin {"walk", "find"} /\ ~Active(g)'
       /\ \A h \in Handle : h # g => files'[h] = files[h] /\ (Active(h)' <=> Active(h)) /\ ~Source(h)'
  BY <1>1, <1>5
<1> QED BY <1>1, <1>12, <1>13, <1>14, <1>15, <1>16, <1>17, <1>18, <1>19, <1>20, <1>21, SavedTree

LEMMA RemoveDeleteTree ==
  ASSUME TInv, BInv, HInv, FInv, TreeOK, Remove, ~Spoils, op.call = "delete"
  PROVE  TreeOK'
<1> PICK g : g = op.h
  OBVIOUS
<1> PICK x : x = BufOf(g)
  OBVIOUS
<1> PICK z : z = files[g].dclus
  OBVIOUS
<1> PICK m : m = Mem(x)
  OBVIOUS
<1> PICK d : d = Without(m, files[g])
  OBVIOUS
<1> PICK p : p = files[g].lpos
  OBVIOUS
<1> PICK k0 : k0 = files[g].clus
  OBVIOUS
<1>1. /\ Saved(g, x, z, m, d, p) /\ d.ent[p] = Mark("FREE")
      /\ pc = "remove" /\ g \in Handle /\ op.src = 0 /\ Active(g)
      /\ files' = [files EXCEPT ![g].upd = {}] /\ held' = [held EXCEPT ![g] = "dead"]
      /\ UNCHANGED <<used, cur, temp>>
      /\ Return
  BY RemoveFacts
<1>2. files[g].attr = "ARCHIVE" /\ k0 \notin used /\ files[g].used /\ files[g].name \in Names
  BY <1>1 DEF TreeOK, Stages, FileAt, Active
<1>3. z \in Clus /\ p \in Slot /\ g # 0
  BY <1>1, HandleFacts DEF Saved
<1>4. SourceAt' /\ FileAt' /\ pc' = "idle" /\ \A h \in Handle : ~Source(h)'
  BY <1>1, EndPlace DEF TreeOK, Stages, Return
<1>5. /\ \A h \in Handle : /\ files'[h].used = files[h].used /\ files'[h].name = files[h].name
                           /\ files'[h].attr = files[h].attr /\ files'[h].clus = files[h].clus
                           /\ files'[h].dclus = files[h].dclus
      /\ \A h \in Handle : h # g =>
           files'[h] = files[h] /\ (Active(h)' <=> Active(h)) /\ ~Source(h)' /\ SameCarries(h)
      /\ files'[g].upd = {} /\ held'[g] = "dead" /\ ~Active(g)' /\ ~Source(g)
  BY <1>1, <1>4, RemoveOthers
<1>6. ~CarriesDir(g) /\ ~CarriesDir(g)' /\ ~Carries(g)' /\ (Dirty(g) /\ k0 # 0 => Carries(g))
  BY <1>1, <1>2, <1>4, <1>5 DEF Dirty, New, Carries, CarriesDir
<1>7. /\ E(z, p).clus = k0 \/ (E(z, p).clus = 0 /\ (k0 # 0 => Carries(g)))
      /\ E(z, p).attr # "DIR"
  BY <1>1, <1>2, <1>6, SavedEntry
<1>8. E(z, p)'.clus = 0 /\ E(z, p)'.attr = ""
  <2>1. E(z, p)' = Mark("FREE")
    BY <1>1, SavedDirs
  <2>2. Mark("FREE").clus = 0 /\ Mark("FREE").attr = ""
    BY DEF Mark, Entry
  <2> QED BY <2>1, <2>2
<1>9. \A c \in Clus, j \in Slot : c # z \/ j # p =>
        E(c, j)'.clus = E(c, j).clus /\ (E(c, j)'.attr = "DIR" <=> E(c, j).attr = "DIR")
  BY <1>1, SavedEntries DEF TreeOK
<1>10. (\A k : Going(k) => k = k0) /\ \A k : ~Going(k)'
  BY <1>1, <1>4 DEF Going
<1>12. Owners'
  <2>1. /\ \A c \in Clus, j \in Slot : c # z \/ j # p => E(c, j)'.clus = E(c, j).clus
        /\ \A h \in Handle : h # g => SameCarries(h)
        /\ E(z, p).clus = files[g].clus \/ (E(z, p).clus = 0 /\ (files[g].clus # 0 => Carries(g)))
    BY <1>5, <1>7, <1>9
  <2>2. Owners /\ used' = used /\ ~Carries(g)' /\ g \in Handle /\ z \in Clus /\ p \in Slot
        /\ E(z, p)'.clus = 0 /\ files[g].clus \notin used
    BY <1>1, <1>2, <1>3, <1>6, <1>8 DEF TreeOK
  <2>3. \A k : Going(k) => k = files[g].clus
    BY <1>10
  <2> QED BY <1>10, <2>1, <2>2, <2>3, OwnersDrop
<1>13. \A k : IsDir(k) => IsDir(k)'
  <2>1. SUFFICES ASSUME NEW k, IsDir(k) PROVE IsDir(k)'
    OBVIOUS
  <2>2. CASE k = Root
    BY <2>2 DEF IsDir
  <2>3. CASE DirEntry(k)
    <3>1. PICK c \in Clus, j \in Slot : E(c, j).attr = "DIR" /\ E(c, j).clus = k
      BY <2>3 DEF DirEntry
    <3>2. c # z \/ j # p
      BY <1>7, <3>1
    <3> QED BY <1>9, <3>1, <3>2 DEF IsDir, DirEntry
  <2>4. CASE DirFile(k)
    <3>1. PICK h \in Handle : CarriesDir(h) /\ files[h].clus = k
      BY <2>4 DEF DirFile
    <3>2. h # g
      BY <1>6, <3>1
    <3> QED BY <1>5, <3>1, <3>2 DEF IsDir, DirFile, SameCarries
  <2> QED BY <2>1, <2>2, <2>3, <2>4 DEF IsDir
<1>14. EntryDots'
  <2>1. SUFFICES ASSUME NEW c \in Clus, NEW i \in Slot, NEW k, k = E(c, i)'.clus, E(c, i)'.attr = "DIR"
                 PROVE  k # Root /\ disk'[k].self = k /\ disk'[k].up = c
    BY DEF EntryDots
  <2>2. c # z \/ i # p
    BY <1>8, <2>1
  <2>3. k = E(c, i).clus /\ E(c, i).attr = "DIR"
    BY <1>9, <2>1, <2>2
  <2>4. k \in Clus /\ k # Root /\ disk[k].self = k /\ disk[k].up = c
    BY <2>3, EType DEF TInv, TreeOK, Dotted, EntryDots
  <2> QED BY <1>1, <2>4, SavedDirs
<1>15. FileDots'
  <2>1. SUFFICES ASSUME NEW h \in Handle, CarriesDir(h)', NEW k, k = files'[h].clus
                 PROVE  k # Root /\ disk'[k].self = k /\ disk'[k].up = files'[h].dclus
    BY DEF FileDots
  <2>2. h # g
    BY <1>6, <2>1
  <2>3. CarriesDir(h) /\ files'[h] = files[h]
    BY <1>5, <2>1, <2>2 DEF SameCarries
  <2>4. k # Root /\ disk[k].self = k /\ disk[k].up = files[h].dclus
    BY <1>1, <2>1, <2>3 DEF TreeOK, Dotted, FileDots
  <2>5. k \in Clus
    BY <2>1, <2>3 DEF TInv, FileTypes, FileType
  <2> QED BY <1>1, <2>3, <2>4, <2>5, SavedDirs
<1>16. OpenOnce'
  BY <1>5, OnceSame DEF TreeOK
<1>17. Blanks'
  <2>1. SUFFICES ASSUME NEW h \in Handle PROVE Blank(files[h])' /\ (~files'[h].used => files'[h] = NoFile)
    BY DEF Blanks
  <2>2. CASE h = g
    BY <1>2, <1>5, <2>2 DEF Blank
  <2>3. CASE h # g
    <3>1. files'[h] = files[h]
      BY <1>5, <2>3
    <3> QED BY <3>1 DEF TreeOK, Stages, Blanks, Blank
  <2> QED BY <2>2, <2>3
<1>18. /\ UNCHANGED <<cur, temp>> /\ pc' \notin {"walk", "find"} /\ ~Active(g)' /\ ~Source(g)'
       /\ \A h \in Handle : h # g => files'[h] = files[h] /\ (Active(h)' <=> Active(h)) /\ ~Source(h)'
  BY <1>1, <1>4, <1>5
<1> QED BY <1>1, <1>4, <1>12, <1>13, <1>14, <1>15, <1>16, <1>17, <1>18, SavedTree

LEMMA RemoveTree ==
  ASSUME TInv, BInv, HInv, FInv, TreeOK, Remove, ~Spoils
  PROVE  TreeOK'
<1>1. op.call = "delete" \/ op.call = "move"
  BY DEF Remove, TInv, Places
<1> QED BY <1>1, RemoveMoveTree, RemoveDeleteTree

-----------------------------------------------------------------------------
(* The entry of a changed file is brought up to date                       *)

\* The chain the file carried is its entry's now.
LEMMA OwnersPut ==
  ASSUME TInv, Owners, UNCHANGED used, NoneGoing, NEW g \in Handle, NEW z \in Clus, NEW p \in Slot,
         \A c \in Clus, j \in Slot : c # z \/ j # p => E(c, j)'.clus = E(c, j).clus,
         E(z, p)'.clus = files[g].clus, ~Carries(g)', \A h \in Handle : h # g => SameCarries(h),
         \/ E(z, p).clus = files[g].clus /\ ~Carries(g)
         \/ E(z, p).clus = 0 /\ (Carries(g) <=> files[g].clus # 0)
  PROVE  Owners'
<1>1. \A k : ~Going(k) /\ ~Going(k)'
  BY DEF Going, NoneGoing
<1>2. \A h \in Handle : Carries(h)' => h # g /\ Carries(h) /\ files'[h].clus = files[h].clus
  BY DEF SameCarries
<1> PICK k0 : k0 = files[g].clus
  OBVIOUS
<1>3. \A c \in Clus, j \in Slot : (c # z \/ j # p) /\ k0 # 0 => E(c, j).clus # k0
  BY DEF Owners, EntriesApart, CarriedApart
<1>4. EntriesApart'
  <2>1. SUFFICES ASSUME NEW c \in Clus, NEW d \in Clus, NEW i \in Slot, NEW j \in Slot,
                        E(c, i)'.clus # 0, E(c, i)'.clus = E(d, j)'.clus
                 PROVE  c = d /\ i = j
    BY DEF EntriesApart
  <2>2. CASE c = z /\ i = p
    <3>1. E(c, i)'.clus = k0
      BY <2>2
    <3>2. d = z /\ j = p
      BY <1>3, <2>1, <3>1
    <3> QED BY <2>2, <3>2
  <2>3. CASE d = z /\ j = p
    <3>1. E(d, j)'.clus = k0
      BY <2>3
    <3>2. c = z /\ i = p
      BY <1>3, <2>1, <3>1
    <3> QED BY <2>3, <3>2
  <2>4. CASE ~(c = z /\ i = p) /\ ~(d = z /\ j = p)
    BY <2>1, <2>4 DEF Owners, EntriesApart
  <2> QED BY <2>2, <2>3, <2>4
<1>5. CarriedApart'
  <2>1. ASSUME NEW h \in Handle, Carries(h)', NEW c \in Clus, NEW i \in Slot, E(c, i)'.clus = files'[h].clus
        PROVE  FALSE
    <3>1. h # g /\ Carries(h) /\ files'[h].clus = files[h].clus /\ files[h].clus # 0
      BY <1>2, <2>1 DEF Carries
    <3>2. CASE c = z /\ i = p
      <4>1. files[h].clus = k0
        BY <2>1, <3>1, <3>2
      <4>2. CASE E(z, p).clus = k0
        BY <3>1, <4>1, <4>2 DEF Owners, CarriedApart
      <4>3. CASE Carries(g)
        BY <3>1, <4>1, <4>3 DEF Owners, CarriedApart
      <4> QED BY <3>1, <4>1, <4>2, <4>3
    <3>3. CASE c # z \/ i # p
      BY <2>1, <3>1, <3>3 DEF Owners, CarriedApart
    <3> QED BY <3>2, <3>3
  <2>2. ASSUME NEW e \in Handle, NEW h \in Handle, Carries(e)', Carries(h)', files'[e].clus = files'[h].clus
        PROVE  e = h
    BY <1>2, <2>2 DEF Owners, CarriedApart
  <2> QED BY <2>1, <2>2 DEF CarriedApart
<1>6. OwnedUsed'
  <2>1. ASSUME NEW c \in Clus, NEW i \in Slot, NEW k, k = E(c, i)'.clus, k # 0
        PROVE  k \in used
    <3>1. CASE c = z /\ i = p
      <4>1. k = k0
        BY <2>1, <3>1
      <4>2. E(z, p).clus = k \/ Carries(g)
        BY <2>1, <4>1
      <4> QED BY <1>1, <2>1, <4>1, <4>2 DEF Owners, OwnedUsed
    <3>2. CASE c # z \/ i # p
      BY <1>1, <2>1, <3>2 DEF Owners, OwnedUsed
    <3> QED BY <3>1, <3>2
  <2>2. ASSUME NEW h \in Handle, Carries(h)'
        PROVE  files'[h].clus \in used
    BY <1>1, <1>2, <2>2 DEF Owners, OwnedUsed
  <2> QED BY <2>1, <2>2 DEF OwnedUsed
<1>7. UsedOwned'
  <2>1. SUFFICES ASSUME NEW k \in used
                 PROVE  \/ \E c \in Clus, i \in Slot : E(c, i)'.clus = k
                        \/ \E h \in Handle : Carries(h)' /\ files'[h].clus = k
    BY DEF UsedOwned
  <2>2. CASE k = k0
    BY <2>2
  <2>3. CASE k # k0
    <3>1. CASE \E c \in Clus, i \in Slot : E(c, i).clus = k
      <4>1. PICK c \in Clus, i \in Slot : E(c, i).clus = k
        BY <3>1
      <4>2. CASE c # z \/ i # p
        BY <4>1, <4>2
      <4>3. CASE c = z /\ i = p
        <5>1. k = 0
          BY <2>3, <4>1, <4>3
        <5>2. 0 \notin used
          BY ClusFacts DEF TInv, DiskTypes
        <5> QED BY <5>1, <5>2
      <4> QED BY <4>2, <4>3
    <3>2. CASE \E h \in Handle : Carries(h) /\ files[h].clus = k
      <4>1. PICK h \in Handle : Carries(h) /\ files[h].clus = k
        BY <3>2
      <4>2. h # g
        BY <2>3, <4>1
      <4> QED BY <4>1, <4>2 DEF SameCarries
    <3> QED BY <3>1, <3>2 DEF Owners, UsedOwned
  <2> QED BY <2>2, <2>3
<1> QED BY <1>4, <1>5, <1>6, <1>7 DEF Owners

LEMMA PutAlike ==
  ASSUME NEW m \in DirType, Clean(m), NEW p \in Slot, m.ent[p].name \in Names, NEW d,
         d.self = m.self /\ d.up = m.up, \A j \in Slot : j # p => d.ent[j] = m.ent[j],
         d.ent[p].name = m.ent[p].name
  PROVE  Alike(m, d, p) /\ Clean(d)
<1>1. Alike(m, d, p)
  BY DEF Alike
<1>2. \A j \in Slot : j # p => m.ent[j].name # m.ent[p].name
  BY DEF Clean
<1>3. \A j \in Slot : j # p => m.ent[j].name # d.ent[p].name
  BY <1>2
<1>4. /\ \A i \in Slot : i # p /\ d.ent[i].name \notin Names => d.ent[i] = Mark(d.ent[i].name)
      /\ \A i, j \in Slot : d.ent[i].name \in Names /\ d.ent[i].name = d.ent[j].name => i = j
  BY <1>1, <1>3, AlikeClean
<1> QED BY <1>1, <1>4 DEF Clean

LEMMA PutNamed ==
  ASSUME NEW m \in DirType, Clean(m), NEW p \in Slot, m.ent[p].name \in Names,
         NEW e \in EntryType, e.name = m.ent[p].name, NEW d, d = [m EXCEPT !.ent[p] = e]
  PROVE  Alike(m, d, p) /\ Clean(d) /\ d.ent[p] = e
<1> PICK w : w = d
  OBVIOUS
<1>1. /\ w.ent[p] = e /\ w.self = m.self /\ w.up = m.up
      /\ \A j \in Slot : j # p => w.ent[j] = m.ent[j]
  BY DEF DirType
<1>2. w.ent[p].name = m.ent[p].name
  BY <1>1
<1>3. Alike(m, w, p) /\ Clean(w)
  BY <1>1, <1>2, PutAlike
<1> QED BY <1>1, <1>3

LEMMA CloseChangedFacts ==
  ASSUME TInv, BInv, FInv, TreeOK, NEW g \in Handle, CloseChanged(g), ~Spoils
  PROVE  /\ \E x, z, m, d, p : Saved(g, x, z, m, d, p) /\ d.ent[p] = UpdatedEntry(m.ent[p], files[g])
         /\ pc = "closing" /\ pc' = pc /\ UNCHANGED <<used, cur, temp>>
         /\ files' = [files EXCEPT ![g] = NoFile] /\ held' = [held EXCEPT ![g] = "no"]
         /\ op' = [op EXCEPT !.closing = Tail(op.closing)]
<1> PICK b : b = (CHOOSE y \in EntryOf(g) : TRUE)[1]
  OBVIOUS
<1> PICK x : x = b.buf
  OBVIOUS
<1> PICK z : z = files[g].dclus
  OBVIOUS
<1> PICK m : m = Mem(x)
  OBVIOUS
<1> PICK p : p = FirstOf(At(m, files[g].name))
  OBVIOUS
<1> PICK e : e = UpdatedEntry(m.ent[p], files[g])
  OBVIOUS
<1> PICK d : d = [m EXCEPT !.ent[p] = e]
  OBVIOUS
<1>1. /\ pc = "closing" /\ EntryOf(g) # {} /\ files[g].used /\ files[g].upd # {}
      /\ UNCHANGED <<used, cur, temp>>
  BY DEF CloseChanged, Closing
<1>2. files \in [Handle -> FileType] /\ files[g] \in FileType /\ op \in OpType /\ faults \in Nat
  BY DEF TInv, FileTypes, OpTypes
<1>3. b \in DirBufOf(g) /\ b.full /\ At(m, files[g].name) # {}
  BY <1>1, EntryOfFacts
<1>4. /\ x \in BufName /\ z \in Clus /\ (x = "RD" <=> z = Root) /\ Fresh(m, z) /\ m \in DirType
      /\ cur.buf = x <=> cur.clus = z
      /\ temp.full /\ temp.buf = x => temp.clus = z
      /\ temp.full /\ temp.clus # cur.clus /\ temp.clus = z => temp.buf = x
  BY <1>3, DirBufFacts DEF TreeOK
<1>5. p \in Slot /\ m.ent[p].name = files[g].name
  BY <1>3, AtFacts
<1>6. Active(g)
  <2>1. files[g].name \in Names
    BY <1>1 DEF TreeOK, Stages, Blanks, Blank
  <2>2. held[g] # "dead"
    BY <1>1 DEF FInv, DeadSynced
  <2> QED BY <1>1, <2>1, <2>2 DEF Active
<1>7. m.ent[p] \in EntryType
  BY <1>4, <1>5, EntryTypes
<1>8. e \in EntryType /\ e.name = files[g].name
  BY <1>2, <1>5, <1>7, UpdatedType
<1>9. /\ d.ent[p] = e /\ d.self = m.self /\ d.up = m.up
      /\ \A j \in Slot : j # p => d.ent[j] = m.ent[j]
  BY <1>4, <1>5, <1>8 DEF DirType
<1>11. Clean(m)
  BY <1>4 DEF TreeOK, AllClean
<1>12. Alike(m, d, p) /\ Clean(d)
  <2>1. m.ent[p].name \in Names /\ e.name = m.ent[p].name
    BY <1>5, <1>6, <1>8 DEF Active
  <2>2. m \in DirType /\ p \in Slot /\ e \in EntryType /\ d = [m EXCEPT !.ent[p] = e]
    BY <1>4, <1>5, <1>8
  <2> QED BY ONLY <1>11, <2>1, <2>2, PutNamed
<1>13. d = [Mem(b.buf) EXCEPT !.ent[p] = UpdatedEntry(@, files[g])]
  BY <1>4 DEF DirType
<1>14. SetMem(x, d) /\ SaveOk(g, b, d) /\ Release(g, [files[g] EXCEPT !.upd = {}])
  <2>1. SetMem(x, d) /\ \/ SaveOk(g, b, d) /\ Release(g, [files[g] EXCEPT !.upd = {}])
                        \/ SaveFails(g, b, d)
    BY <1>13 DEF CloseChanged
  <2>2. ~SaveFails(g, b, d)
    BY <1>1, <1>2 DEF SaveFails, Fault, Spoils
  <2> QED BY <2>1, <2>2
<1>15. /\ files' = [files EXCEPT ![g] = NoFile] /\ held' = [held EXCEPT ![g] = "no"]
       /\ op' = [op EXCEPT !.closing = Tail(op.closing)] /\ pc' = pc
  <2> PICK f : f = [files[g] EXCEPT !.upd = {}]
    OBVIOUS
  <2>1. f.upd = {}
    BY <1>2 DEF FileType
  <2> QED BY <1>14, <2>1 DEF Release
<1>16. IF z = Root THEN rdUpdated' = TRUE /\ UNCHANGED disk
                   ELSE disk' = [disk EXCEPT ![z] = d] /\ UNCHANGED rdUpdated
  BY <1>3, <1>14 DEF SaveOk
<1>17. d.ent[p].name \in Names => d.ent[p].name = files[g].name
  BY <1>8, <1>9
<1>18. Saved(g, x, z, m, d, p)
  BY <1>4, <1>5, <1>6, <1>12, <1>14, <1>16, <1>17 DEF Saved
<1>19. \E y, c, w, v, i : Saved(g, y, c, w, v, i) /\ v.ent[i] = UpdatedEntry(w.ent[i], files[g])
  <2>1. d.ent[p] = UpdatedEntry(m.ent[p], files[g])
    BY <1>9
  <2>2. \E v, i : Saved(g, x, z, m, v, i) /\ v.ent[i] = UpdatedEntry(m.ent[i], files[g])
    BY <1>18, <2>1, Zenon
  <2> QED BY <2>2, Zenon
<1> QED BY <1>1, <1>15, <1>19

\* What the entry is afterwards.
LEMMA UpdatedFacts ==
  ASSUME NEW e0 \in EntryType, NEW f \in FileType, NEW e, e = UpdatedEntry(e0, f)
  PROVE  /\ e.clus = IF f.upd \cap {"CLUS", "ALL"} # {} THEN f.clus ELSE e0.clus
         /\ e.attr = IF "ALL" \in f.upd THEN f.attr ELSE e0.attr
<1> PICK s : s = IF f.upd \cap {"SIZE", "ALL"} # {} THEN f.size ELSE e0.size
  OBVIOUS
<1> PICK c : c = IF f.upd \cap {"CLUS", "ALL"} # {} THEN f.clus ELSE e0.clus
  OBVIOUS
<1> PICK a : a = IF "ALL" \in f.upd THEN f.attr ELSE e0.attr
  OBVIOUS
<1>1. e = [e0 EXCEPT !.size = s, !.clus = c, !.attr = a]
  BY DEF UpdatedEntry, EntryType
<1> QED BY <1>1 DEF EntryType

LEMMA PutEntryFacts ==
  ASSUME TInv, TreeOK, NEW g, NEW x, NEW z, NEW m, NEW d, NEW p, Saved(g, x, z, m, d, p),
         pc = "closing", d.ent[p] = UpdatedEntry(m.ent[p], files[g])
  PROVE  /\ E(z, p)'.clus = files[g].clus
         /\ \/ E(z, p).clus = files[g].clus /\ ~Carries(g)
            \/ E(z, p).clus = 0 /\ (Carries(g) <=> files[g].clus # 0)
         /\ E(z, p)'.attr = "DIR" <=> E(z, p).attr = "DIR" \/ CarriesDir(g)
         /\ E(z, p).attr = "DIR" => E(z, p).clus = files[g].clus
<1> PICK e : e = d.ent[p]
  OBVIOUS
<1> PICK e0 : e0 = m.ent[p]
  OBVIOUS
<1> PICK f : f = files[g]
  OBVIOUS
<1>1. E(z, p)' = e
  BY SavedDirs
<1>2. e0 \in EntryType /\ f \in FileType /\ Active(g) /\ ~Source(g)
  BY EntryTypes DEF Saved, TInv, FileTypes, Source
<1>3. /\ e.clus = IF f.upd \cap {"CLUS", "ALL"} # {} THEN f.clus ELSE e0.clus
      /\ e.attr = IF "ALL" \in f.upd THEN f.attr ELSE e0.attr
  BY <1>2, UpdatedFacts
<1>4. /\ Dirty(g) <=> f.upd \cap {"CLUS", "ALL"} # {}
      /\ New(g) <=> "ALL" \in f.upd
      /\ Carries(g) <=> Dirty(g) /\ f.clus # 0
      /\ CarriesDir(g) <=> New(g) /\ f.attr = "DIR"
      /\ New(g) => Dirty(g)
  BY <1>2 DEF Dirty, New, Carries, CarriesDir
<1>5. CASE Dirty(g)
  <2>1. E(z, p).clus = 0 /\ E(z, p).attr # "DIR" /\ e0.attr # "DIR"
    BY <1>5, SavedEntry
  <2>2. e.clus = f.clus /\ (e.attr = "DIR" <=> New(g) /\ f.attr = "DIR")
    BY <1>3, <1>4, <1>5, <2>1
  <2> QED BY <1>1, <1>4, <1>5, <2>1, <2>2
<1>6. CASE ~Dirty(g)
  <2>1. e0 = E(z, p) /\ E(z, p).clus = f.clus
    BY <1>6, SavedEntry
  <2>2. e.clus = e0.clus /\ e.attr = e0.attr
    BY <1>3, <1>4, <1>6
  <2> QED BY <1>1, <1>4, <1>6, <2>1, <2>2
<1> QED BY <1>5, <1>6

LEMMA CloseOthers ==
  ASSUME TInv, pc = "closing", pc' = pc, NEW g \in Handle, files' = [files EXCEPT ![g] = NoFile],
         held' = [held EXCEPT ![g] = "no"]
  PROVE  /\ files'[g] = NoFile /\ ~Active(g)' /\ \A h : ~Source(h) /\ ~Source(h)'
         /\ \A h \in Handle : h # g => files'[h] = files[h] /\ (Active(h)' <=> Active(h)) /\ SameCarries(h)
<1>1. /\ files'[g] = NoFile /\ \A h \in Handle : h # g => files'[h] = files[h] /\ held'[h] = held[h]
  BY DEF TInv, FileTypes
<1>2. \A h : ~Source(h) /\ ~Source(h)'
  BY DEF Source
<1>3. NoFile.used = FALSE
  BY DEF NoFile
<1>4. ~Active(g)'
  BY <1>1, <1>3 DEF Active
<1>5. \A h \in Handle : h # g => FileStays(h) /\ (Active(h)' <=> Active(h))
  BY <1>1, <1>2 DEF FileStays, Active
<1>6. \A h \in Handle : h # g => SameCarries(h)
  BY <1>5, StaysCarries
<1> QED BY <1>1, <1>2, <1>4, <1>5, <1>6

LEMMA CloseChangedTree ==
  ASSUME TInv, BInv, FInv, TreeOK, NEW g \in Handle, CloseChanged(g), ~Spoils
  PROVE  TreeOK'
<1>0. PICK x, z, m, d, p : Saved(g, x, z, m, d, p) /\ d.ent[p] = UpdatedEntry(m.ent[p], files[g])
  BY CloseChangedFacts
<1> PICK k0 : k0 = files[g].clus
  OBVIOUS
<1>1. /\ Saved(g, x, z, m, d, p) /\ pc = "closing" /\ pc' = pc /\ UNCHANGED <<used, cur, temp>>
      /\ files' = [files EXCEPT ![g] = NoFile] /\ held' = [held EXCEPT ![g] = "no"]
      /\ op' = [op EXCEPT !.closing = Tail(op.closing)]
  BY <1>0, CloseChangedFacts
<1>2. op'.src = op.src /\ op'.call = op.call
  BY <1>1 DEF TInv, OpTypes, OpType
<1>3. z \in Clus /\ p \in Slot
  BY <1>1 DEF Saved
<1>4. /\ files'[g] = NoFile /\ ~Active(g)' /\ \A h : ~Source(h) /\ ~Source(h)'
      /\ \A h \in Handle : h # g => files'[h] = files[h] /\ (Active(h)' <=> Active(h)) /\ SameCarries(h)
  BY <1>1, CloseOthers
<1>5. /\ E(z, p)'.clus = k0
      /\ \/ E(z, p).clus = k0 /\ ~Carries(g)
         \/ E(z, p).clus = 0 /\ (Carries(g) <=> k0 # 0)
      /\ E(z, p)'.attr = "DIR" <=> E(z, p).attr = "DIR" \/ CarriesDir(g)
      /\ E(z, p).attr = "DIR" => E(z, p).clus = k0
  BY <1>0, <1>1, PutEntryFacts
<1>6. ~Carries(g)' /\ ~CarriesDir(g)'
  BY <1>4 DEF Dirty, New, Carries, CarriesDir
<1>7. \A c \in Clus, j \in Slot : c # z \/ j # p =>
        E(c, j)'.clus = E(c, j).clus /\ (E(c, j)'.attr = "DIR" <=> E(c, j).attr = "DIR")
  BY <1>1, SavedEntries DEF TreeOK
<1>8. NoneGoing
  BY <1>1 DEF NoneGoing
<1>9. Owners'
  <2>1. /\ \A c \in Clus, j \in Slot : c # z \/ j # p => E(c, j)'.clus = E(c, j).clus
        /\ E(z, p)'.clus = files[g].clus
        /\ \/ E(z, p).clus = files[g].clus /\ ~Carries(g)
           \/ E(z, p).clus = 0 /\ (Carries(g) <=> files[g].clus # 0)
    BY <1>5, <1>7
  <2>2. Owners /\ used' = used /\ \A h \in Handle : h # g => SameCarries(h)
    BY <1>1, <1>4 DEF TreeOK
  <2> QED BY <1>3, <1>6, <1>8, <2>1, <2>2, OwnersPut
<1>10. \A k : IsDir(k) => IsDir(k)'
  <2>1. SUFFICES ASSUME NEW k, IsDir(k) PROVE IsDir(k)'
    OBVIOUS
  <2>2. CASE k = Root
    BY <2>2 DEF IsDir
  <2>3. CASE DirEntry(k)
    <3>1. PICK c \in Clus, j \in Slot : E(c, j).attr = "DIR" /\ E(c, j).clus = k
      BY <2>3 DEF DirEntry
    <3>2. CASE c = z /\ j = p
      <4>1. E(z, p)'.attr = "DIR" /\ E(z, p)'.clus = k
        BY <1>5, <3>1, <3>2
      <4> QED BY <1>3, <4>1 DEF IsDir, DirEntry
    <3>3. CASE c # z \/ j # p
      BY <1>7, <3>1, <3>3 DEF IsDir, DirEntry
    <3> QED BY <3>2, <3>3
  <2>4. CASE DirFile(k)
    <3>1. PICK h \in Handle : CarriesDir(h) /\ files[h].clus = k
      BY <2>4 DEF DirFile
    <3>2. CASE h = g
      <4>1. E(z, p)'.attr = "DIR" /\ E(z, p)'.clus = k
        BY <1>5, <3>1, <3>2
      <4> QED BY <1>3, <4>1 DEF IsDir, DirEntry
    <3>3. CASE h # g
      BY <1>4, <3>1, <3>3 DEF IsDir, DirFile, SameCarries
    <3> QED BY <3>2, <3>3
  <2> QED BY <2>1, <2>2, <2>3, <2>4 DEF IsDir
<1>11. EntryDots'
  <2>1. SUFFICES ASSUME NEW c \in Clus, NEW i \in Slot, NEW k, k = E(c, i)'.clus, E(c, i)'.attr = "DIR"
                 PROVE  k # Root /\ disk'[k].self = k /\ disk'[k].up = c
    BY DEF EntryDots
  <2>2. CASE E(c, i).attr = "DIR"
    <3>1. k = E(c, i).clus
      <4>1. CASE c = z /\ i = p
        BY <1>5, <2>1, <2>2, <4>1
      <4>2. CASE c # z \/ i # p
        BY <1>7, <2>1, <4>2
      <4> QED BY <4>1, <4>2
    <3>2. k \in Clus /\ k # Root /\ disk[k].self = k /\ disk[k].up = c
      BY <2>2, <3>1, EType DEF TInv, TreeOK, Dotted, EntryDots
    <3> QED BY <1>1, <3>2, SavedDirs
  <2>3. CASE E(c, i).attr # "DIR"
    <3>1. c = z /\ i = p
      BY <1>7, <2>1, <2>3
    <3>2. CarriesDir(g) /\ k = k0
      BY <1>5, <2>1, <2>3, <3>1
    <3>3. z = files[g].dclus
      BY <1>1 DEF Saved
    <3>4. k # Root /\ disk[k].self = k /\ disk[k].up = c
      BY <1>1, <3>1, <3>2, <3>3 DEF TreeOK, Dotted, FileDots
    <3>5. k \in Clus
      BY <3>2 DEF TInv, FileTypes, FileType
    <3> QED BY <1>1, <3>4, <3>5, SavedDirs
  <2> QED BY <2>2, <2>3
<1>12. FileDots'
  <2>1. SUFFICES ASSUME NEW h \in Handle, CarriesDir(h)', NEW k, k = files'[h].clus
                 PROVE  k # Root /\ disk'[k].self = k /\ disk'[k].up = files'[h].dclus
    BY DEF FileDots
  <2>2. h # g
    BY <1>6, <2>1
  <2>3. CarriesDir(h) /\ files'[h] = files[h]
    BY <1>4, <2>1, <2>2 DEF SameCarries
  <2>4. k # Root /\ disk[k].self = k /\ disk[k].up = files[h].dclus
    BY <1>1, <2>1, <2>3 DEF TreeOK, Dotted, FileDots
  <2>5. k \in Clus
    BY <2>1, <2>3 DEF TInv, FileTypes, FileType
  <2> QED BY <1>1, <2>3, <2>4, <2>5, SavedDirs
<1>13. NoFile.used = FALSE /\ NoFile.attr = "" /\ NoFile.clus = 0 /\ NoFile.upd = {}
  BY DEF NoFile
<1>14. OpenOnce'
  <2>1. \A h \in Handle : files'[h].used => files'[h] = files[h]
    BY <1>4, <1>13
  <2> QED BY <2>1, OnceSame DEF TreeOK
<1>15. Blanks'
  <2>1. SUFFICES ASSUME NEW h \in Handle PROVE Blank(files[h])' /\ (~files'[h].used => files'[h] = NoFile)
    BY DEF Blanks
  <2>2. CASE h = g
    BY <1>4, <1>13, <2>2 DEF Blank
  <2>3. CASE h # g
    <3>1. files'[h] = files[h]
      BY <1>4, <2>3
    <3> QED BY <3>1 DEF TreeOK, Stages, Blanks, Blank
  <2> QED BY <2>2, <2>3
<1>16. SourceAt' /\ FileAt'
  BY <1>1, <1>2 DEF TreeOK, Stages, SourceAt, FileAt
<1>17. /\ UNCHANGED <<cur, temp>> /\ pc' \notin {"walk", "find"} /\ ~Active(g)' /\ ~Source(g)'
       /\ \A h \in Handle : h # g => files'[h] = files[h] /\ (Active(h)' <=> Active(h)) /\ ~Source(h)'
  BY <1>1, <1>4
<1> QED BY <1>1, <1>9, <1>10, <1>11, <1>12, <1>14, <1>15, <1>16, <1>17, SavedTree

-----------------------------------------------------------------------------
(* The inductive invariant and what it shows                               *)

TreeInv == IInv /\ (~spoilt => TreeOK)

\* The volume a run begins with is sound.
LEMMA InitTree ==
  ASSUME Init, TInv
  PROVE  TreeOK
<1>1. /\ disk \in Volumes /\ rd = disk[Root] /\ rdUpdated = FALSE
      /\ used = {c \in Chains : \E d \in Clus, i \in Slot : disk[d].ent[i].clus = c}
      /\ buf = [b \in {"b1", "b2"} |-> Zeros]
      /\ cur = [buf |-> "RD", clus |-> Root] /\ temp = [buf |-> "b1", clus |-> Root, full |-> FALSE]
      /\ files = [h \in Handle |-> NoFile] /\ pc = "idle" /\ op = NoCall
  BY DEF Init
<1>2. Sound(disk)
  BY <1>1, VolumesAssumption
<1>3. \A c : Dirs(c) = disk[c] /\ \A i : E(c, i) = disk[c].ent[i]
  BY <1>1 DEF Dirs, E
<1>4. NoFile.used = FALSE /\ NoFile.attr = "" /\ NoFile.clus = 0 /\ NoFile.upd = {}
  BY DEF NoFile
<1>5. \A h \in Handle : ~Active(h) /\ ~Source(h) /\ files[h] = NoFile
  <2>1. op.src = 0
    BY <1>1 DEF NoCall
  <2> QED BY <1>1, <1>4, <2>1, HandleFacts DEF Active, Source
<1>6. \A h \in Handle : ~Carries(h) /\ ~CarriesDir(h)
  BY <1>5 DEF Carries, CarriesDir, Dirty, New
<1>7. Owners
  <2>1. EntriesApart
    BY <1>2, <1>3 DEF Sound, EntriesApart
  <2>2. CarriedApart
    BY <1>6 DEF CarriedApart
  <2>3. OwnedUsed
    <3>1. SUFFICES ASSUME NEW c \in Clus, NEW i \in Slot, E(c, i).clus # 0 PROVE E(c, i).clus \in used
      BY <1>6 DEF OwnedUsed
    <3>2. E(c, i).clus \in Chains
      BY <3>1, EType, ClusFacts DEF TInv
    <3> QED BY <1>1, <1>3, <3>2
  <2>4. UsedOwned
    BY <1>1, <1>3 DEF UsedOwned
  <2> QED BY <2>1, <2>2, <2>3, <2>4 DEF Owners
<1>8. Dotted
  <2>1. EntryDots
    BY <1>2, <1>3 DEF Sound, EntryDots
  <2>2. FileDots
    BY <1>6 DEF FileDots
  <2>3. NamesInDirs
    BY <1>2, <1>3 DEF Sound, NamesInDirs, IsDir, DirEntry
  <2>4. rd.up = -1
    BY <1>1, <1>2 DEF Sound
  <2> QED BY <2>1, <2>2, <2>3, <2>4 DEF Dotted
<1>9. Rooted
  BY <1>1, <1>5 DEF Rooted, IsDir
<1>10. AllKnown
  BY <1>5 DEF AllKnown
<1>11. OpenOnce
  BY <1>4, <1>5 DEF OpenOnce
<1>12. BufsFresh
  <2>1. Mem(cur.buf) = Dirs(cur.clus)
    BY <1>1 DEF Mem, Dirs
  <2> QED BY <1>1, <2>1, FreshItself DEF BufsFresh
<1>13. RootFresh
  BY <1>1 DEF RootFresh
<1>14. AllClean
  <2>1. Clean(Zeros)
    <3>1. \A i \in Slot : Zeros.ent[i] = Mark("END")
      BY DEF Zeros, Dir
    <3>2. Mark("END").name = "END" /\ "END" \notin Names
      BY NameFacts DEF Mark, Entry
    <3> QED BY <3>1, <3>2 DEF Clean
  <2>2. \A c \in Clus : Clean(disk[c])
    BY <1>2 DEF Sound, Clean
  <2>3. \A b \in BufName : Mem(b) = Zeros \/ Mem(b) = disk[Root]
    BY <1>1 DEF BufName, Bufs, Mem
  <2> QED BY <2>1, <2>2, <2>3, ClusFacts DEF AllClean
<1>15. Stages
  <2>1. Blanks
    BY <1>4, <1>5 DEF Blanks, Blank
  <2>2. SourceAt
    BY <1>1 DEF SourceAt, NoCall
  <2>3. FileAt
    BY <1>1 DEF FileAt
  <2> QED BY <2>1, <2>2, <2>3 DEF Stages
<1> QED BY <1>7, <1>8, <1>9, <1>10, <1>11, <1>12, <1>13, <1>14, <1>15 DEF TreeOK

LEMMA AskTree ==
  ASSUME TInv, BInv, TreeOK, Ask, ~Spoils
  PROVE  TreeOK'
<1>1. CASE \/ \E p \in Paths : Chdir(p)
           \/ \E p \in Paths, n \in Sought : Getfileinfo(p, n)
           \/ \E p \in Paths, n \in Sought : Mkdir(p, n)
           \/ \E p \in Paths, n \in Sought, create \in BOOLEAN : Open(p, n, create)
           \/ \E p \in Paths, n \in Sought, dest \in Dests, to \in NewNames : Move(p, n, dest, to)
  BY <1>1, BeginsTree
<1>2. CASE \E h \in Handle : WriteFile(h) \/ WriteNothing(h)
  BY <1>2, WriteFileTree, WriteNothingTree
<1>3. CASE \E h \in Handle : Delete(h)
  BY <1>3, DeleteTree
<1>4. CASE \E h \in Handle : UserClose(h)
  BY <1>4, UserCloseTree
<1> QED BY <1>1, <1>2, <1>3, <1>4 DEF Ask

LEMMA ContinueTree ==
  ASSUME TInv, BInv, HInv, FInv, TreeOK, Continue, ~Spoils
  PROVE  TreeOK'
<1>1. CASE WalkToRoot \/ WalkInto \/ WalkStop \/ WalkEnd
  BY <1>1, WalkToRootTree, WalkIntoTree, WalkStopTree, WalkEndTree
<1>2. CASE Find \/ FindInfo \/ FindNone \/ Create
  BY <1>2, FindTree, FindInfoTree, FindNoneTree, CreateTree
<1>3. CASE MkdirExists \/ MkdirClear \/ MkdirDots
  BY <1>3, MkdirExistsTree, MkdirClearTree, MkdirDotsTree
<1>4. CASE Remove
  BY <1>4, RemoveTree
<1>5. CASE RemoveNowhere
  <2>1. pc = "remove" /\ op.h \in Handle /\ DirBufOf(op.h) = {}
    BY <1>5 DEF RemoveNowhere, TInv, Places
  <2>2. Holds(op.h)
    BY <2>1 DEF Spoils, Holds
  <2> QED BY <2>1, <2>2, HeldFacts
<1>6. CASE MoveDest \/ MoveTooLong \/ MoveClash \/ MoveFill
  BY <1>6, MoveDestTree, MoveTooLongTree, MoveClashTree, MoveFillTree
<1>7. CASE \E h \in Handle : CloseUnchanged(h)
  BY <1>7, CloseUnchangedTree
<1>8. CASE \E h \in Handle : CloseChanged(h)
  BY <1>8, CloseChangedTree
<1>9. CASE \E h \in Handle : CloseLost(h)
  BY <1>9 DEF CloseLost, Spoils
<1>10. CASE CallEnds
  BY <1>10, CallEndsTree
<1> QED BY <1>1, <1>2, <1>3, <1>4, <1>5, <1>6, <1>7, <1>8, <1>9, <1>10 DEF Continue

LEMMA InitTreeInv ==
  ASSUME Init
  PROVE  TreeInv
<1>1. IInv
  BY InitHolds
<1> QED BY <1>1, InitTree DEF TreeInv, IInv, TFacts

\* The steps of a run in which nothing has gone wrong.
LEMMA GoodStep ==
  ASSUME TreeInv, Next, ~spoilt'
  PROVE  ~Spoils /\ TInv /\ BInv /\ HInv /\ FInv /\ TreeOK
<1>1. Marks
  BY DEF Next, Ask, Continue
<1>2. ~spoilt /\ ~Spoils
  BY <1>1 DEF Marks
<1> QED BY <1>2 DEF TreeInv, IInv, TFacts

LEMMA TreeHolds ==
  ASSUME TreeInv, [Next]_vars
  PROVE  TreeInv'
<1>1. IInv'
  BY NextHolds DEF TreeInv
<1>2. SUFFICES ASSUME ~spoilt' PROVE TreeOK'
  BY <1>1 DEF TreeInv
<1>3. CASE UNCHANGED vars
  <2>1. UNCHANGED <<diskVars, bufVars, files, pc, op, held, spoilt>>
    BY <1>3 DEF vars
  <2>2. TInv /\ TreeOK
    BY <1>2, <2>1 DEF TreeInv, IInv, TFacts
  <2> QED BY <2>1, <2>2, StillTree
<1>4. CASE Next
  BY <1>2, <1>4, GoodStep, AskTree, ContinueTree DEF Next
<1> QED BY <1>3, <1>4

LEMMA EntrySeen ==
  ASSUME TInv, RootFresh, NEW x \in Entries
  PROVE  /\ x[1] \in Clus /\ x[2] \in Slot /\ x = <<x[1], x[2]>>
         /\ EntryAt(x) = E(x[1], x[2]) /\ E(x[1], x[2]).name \in Names
<1> PICK c : c = x[1]
  OBVIOUS
<1> PICK i : i = x[2]
  OBVIOUS
<1>1. c \in Clus /\ i \in Slot /\ x = <<c, i>> /\ i \in Live(View(c))
  BY DEF Entries
<1> PICK v : v = View(c)
  OBVIOUS
<1>2. v \in DirType
  BY <1>1, ClusFacts DEF View, TInv, DiskTypes
<1>3. v.ent[i].name \in Names
  BY <1>1, <1>2, LiveNames
<1>4. v.ent[i] = E(c, i)
  BY <1>1, <1>3 DEF View, RootFresh, E, Dirs
<1> QED BY <1>1, <1>3, <1>4 DEF EntryAt

\* A chain that an entry names is seen there.
LEMMA ChainSeen ==
  ASSUME TInv, FInv, TreeOK, pc = "idle", NEW c \in Clus, NEW i \in Slot, E(c, i).clus # 0
  PROVE  <<c, i>> \in HasChain /\ EntryAt(<<c, i>>).clus = E(c, i).clus
<1> PICK v : v = View(c)
  OBVIOUS
<1> PICK x : x = <<c, i>>
  OBVIOUS
<1>1. x \in Clus \X Slot /\ x[1] = c /\ x[2] = i
  OBVIOUS
<1>2. E(c, i).name \in Names
  BY Unnamed DEF TInv, TreeOK
<1>3. v.ent[i] = E(c, i)
  BY DEF View, TreeOK, RootFresh, E, Dirs
<1>4. Tidy(v)
  BY ClusFacts DEF View, FInv, AllTidy
<1>5. i \in Live(v)
  BY <1>2, <1>3, <1>4, NamedLive
<1>6. c # Root => v.self # -1
  <2>1. SUFFICES ASSUME c # Root PROVE disk[c].self = c
    BY ClusFacts DEF View
  <2>2. c \in Chains /\ IsDir(c)
    BY <1>2, <2>1, ClusFacts DEF TreeOK, Dotted, NamesInDirs
  <2>3. CASE DirEntry(c)
    BY <2>3 DEF DirEntry, TreeOK, Dotted, EntryDots
  <2>4. CASE DirFile(c)
    BY <2>4 DEF DirFile, TreeOK, Dotted, FileDots
  <2> QED BY <2>1, <2>2, <2>3, <2>4 DEF IsDir
<1>7. x \in Entries
  BY <1>1, <1>5, <1>6 DEF Entries
<1>8. EntryAt(x) = E(c, i)
  BY <1>1, <1>3 DEF EntryAt
<1> QED BY <1>7, <1>8 DEF HasChain

LEMMA TreeSoundImplied ==
  ASSUME TreeInv
  PROVE  TreeSound
<1>1. SUFFICES ASSUME pc = "idle", ~spoilt
      PROVE  /\ \A x, y \in HasChain : EntryAt(x).clus = EntryAt(y).clus => x = y
             /\ {EntryAt(x).clus : x \in HasChain} \subseteq used
             /\ used \subseteq {EntryAt(x).clus : x \in HasChain}
                             \cup {files[h].clus : h \in {g \in Handle : files[g].used}}
             /\ \A x, y \in Entries : x[1] = y[1] /\ EntryAt(x).name = EntryAt(y).name => x = y
             /\ \A x \in Entries : EntryAt(x).attr = "DIR" =>
                  LET c == EntryAt(x).clus IN c # 0 /\ disk[c].self = c /\ disk[c].up = x[1]
  BY DEF TreeSound
<1>2. TInv /\ FInv /\ TreeOK
  BY <1>1 DEF TreeInv, IInv, TFacts
<1>3. \A x \in Entries : /\ x[1] \in Clus /\ x[2] \in Slot /\ x = <<x[1], x[2]>>
                         /\ EntryAt(x) = E(x[1], x[2]) /\ E(x[1], x[2]).name \in Names
  BY <1>2, EntrySeen DEF TreeOK
<1>4. \A x \in HasChain : x \in Entries /\ EntryAt(x).clus # 0
  BY DEF HasChain
<1>5. \A k : ~Going(k)
  BY <1>1 DEF Going
<1>6. ASSUME NEW x \in HasChain, NEW y \in HasChain, EntryAt(x).clus = EntryAt(y).clus
      PROVE  x = y
  <2>1. x[1] = y[1] /\ x[2] = y[2]
    BY <1>2, <1>3, <1>4, <1>6 DEF TreeOK, Owners, EntriesApart
  <2> QED BY <1>3, <1>4, <2>1
<1>7. ASSUME NEW x \in HasChain PROVE EntryAt(x).clus \in used
  BY <1>2, <1>3, <1>4, <1>5 DEF TreeOK, Owners, OwnedUsed
<1>8. ASSUME NEW k \in used
      PROVE  k \in {EntryAt(x).clus : x \in HasChain} \cup {files[h].clus : h \in {g \in Handle : files[g].used}}
  <2>1. k # 0
    BY <1>2, ClusFacts DEF TInv, DiskTypes
  <2>2. CASE \E c \in Clus, i \in Slot : E(c, i).clus = k
    <3>1. PICK c \in Clus, i \in Slot : E(c, i).clus = k
      BY <2>2
    <3>2. <<c, i>> \in HasChain /\ EntryAt(<<c, i>>).clus = k
      BY <1>1, <1>2, <2>1, <3>1, ChainSeen
    <3> QED BY <3>2
  <2>3. CASE \E h \in Handle : Carries(h) /\ files[h].clus = k
    <3>1. PICK h \in Handle : Carries(h) /\ files[h].clus = k
      BY <2>3
    <3>2. ~Source(h)
      BY <1>1, <1>2, HandleFacts DEF TreeOK, Stages, SourceAt, NoCall, Source
    <3>3. files[h].used
      BY <3>1, <3>2 DEF Carries, Dirty, Active
    <3> QED BY <3>1, <3>3
  <2> QED BY <1>2, <2>2, <2>3 DEF TreeOK, Owners, UsedOwned
<1>9. ASSUME NEW x \in Entries, NEW y \in Entries, x[1] = y[1], EntryAt(x).name = EntryAt(y).name
      PROVE  x = y
  <2> PICK c : c = x[1]
    OBVIOUS
  <2>1. c \in Clus /\ c = y[1]
    BY <1>3, <1>9
  <2>2. Clean(Dirs(c))
    BY <1>2, <2>1, DirsClean DEF TreeOK
  <2>3. E(c, x[2]).name \in Names /\ E(c, x[2]).name = E(c, y[2]).name
    BY <1>3, <1>9
  <2>4. x[2] = y[2]
    BY <1>3, <2>2, <2>3 DEF Clean, E
  <2> QED BY <1>3, <1>9, <2>4
<1>10. ASSUME NEW x \in Entries, EntryAt(x).attr = "DIR", NEW c, c = EntryAt(x).clus
       PROVE  c # 0 /\ disk[c].self = c /\ disk[c].up = x[1]
  BY <1>2, <1>3, <1>10 DEF TreeOK, Dotted, EntryDots, Root
<1> QED BY <1>6, <1>7, <1>8, <1>9, <1>10

-----------------------------------------------------------------------------
(* What a step may do to an entry on the disk                              *)

LEMMA SavedKept ==
  ASSUME TInv, TreeOK, NEW g, NEW x, NEW z, NEW m, NEW d, NEW p, Saved(g, x, z, m, d, p),
         g = op.h \/ (op.closing # <<>> /\ g = Head(op.closing)),
         NEW c \in Chains, NEW i \in Slot, disk[c].ent[i].name \in Names, disk'[c].ent[i] # disk[c].ent[i]
  PROVE  About(c, disk[c].ent[i].name)
<1>1. c \in Clus /\ c # Root
  BY ClusFacts
<1>2. \A j : E(c, j) = disk[c].ent[j]
  BY <1>1 DEF E, Dirs
<1>3. \A j : E(c, j)' = disk'[c].ent[j]
  BY <1>1 DEF E, Dirs
<1>4. c = z /\ i = p
  BY <1>1, <1>2, <1>3, SavedEntries DEF TreeOK
<1>5. m.ent[p] = E(z, p)
  BY <1>2, <1>4 DEF Saved, Fresh
<1>6. g \in Handle /\ files[g].dclus = c /\ files[g].name = disk[c].ent[i].name
  BY <1>2, <1>4, <1>5 DEF Saved
<1> QED BY <1>6 DEF About

\* What is stored in a chain replaces no entry.
LEMMA StoreKept ==
  ASSUME TInv, TreeOK, NEW k \in Chains, ~IsDir(k), NEW w, disk' = [disk EXCEPT ![k] = w],
         NEW c \in Chains, NEW i \in Slot, disk[c].ent[i].name \in Names
  PROVE  disk'[c].ent[i] = disk[c].ent[i]
<1>1. c # k
  BY NothingIn DEF TreeOK
<1>2. disk \in [Clus -> DirType] /\ c \in Clus
  BY ClusFacts DEF TInv, DiskTypes
<1> QED BY <1>1, <1>2

LEMMA FreeNotDir ==
  ASSUME TInv, TreeOK, pc # "remove", NEW k \in Chains \ used
  PROVE  ~IsDir(k)
<1>1. ~Going(k) /\ k # 0
  BY ClusFacts DEF Going, Root
<1> QED BY <1>1, UnusedNotDir DEF TreeOK

\* The steps that write nothing to the disk.
LEMMA DiskStays ==
  ASSUME Next, ~(\E h \in Handle : WriteFile(h)), ~MkdirClear, ~MkdirDots, ~Remove,
         ~(\E h \in Handle : CloseChanged(h))
  PROVE  disk' = disk
<1>1. CASE Ask
  BY <1>1 DEF Ask, Chdir, Getfileinfo, Mkdir, Open, Move, Begin, Claim, LookUp, WriteNothing, Delete,
              UserClose, diskVars
<1>2. CASE WalkToRoot \/ WalkInto \/ WalkStop \/ WalkEnd
  BY <1>2 DEF WalkToRoot, WalkInto, WalkStop, WalkEnd, diskVars
<1>3. CASE Find \/ FindInfo \/ FindNone \/ Create
  BY <1>3 DEF Find, FindInfo, FindNone, Create, diskVars
<1>4. CASE MkdirExists \/ RemoveNowhere \/ MoveDest \/ MoveTooLong \/ MoveClash \/ MoveFill
  BY <1>4 DEF MkdirExists, RemoveNowhere, MoveDest, MoveTooLong, Claim, LookUp, MoveClash, MoveFill, diskVars
<1>5. CASE CallEnds \/ \E h \in Handle : CloseUnchanged(h) \/ CloseLost(h)
  BY <1>5 DEF CallEnds, CloseUnchanged, CloseLost, diskVars
<1> QED BY <1>1, <1>2, <1>3, <1>4, <1>5 DEF Next, Continue

LEMMA KeptFacts ==
  ASSUME TreeInv, Next, ~spoilt', NEW c \in Chains, NEW i \in Live(disk[c]),
         disk'[c].ent[i] # disk[c].ent[i]
  PROVE  About(c, disk[c].ent[i].name)
<1>1. ~Spoils /\ TInv /\ BInv /\ HInv /\ FInv /\ TreeOK
  BY GoodStep
<1>2. disk[c] \in DirType /\ disk \in [Clus -> DirType] /\ c \in Clus
  BY <1>1, ClusFacts DEF TInv, DiskTypes
<1>3. i \in Slot /\ disk[c].ent[i].name \in Names
  BY <1>2, LiveNames
<1>4. CASE \E h \in Handle : WriteFile(h)
  <2>1. PICK h \in Handle : WriteFile(h)
    BY <1>4
  <2>2. /\ files[h].used /\ files[h].attr = "ARCHIVE" /\ held[h] # "dead" /\ pc = "idle"
        /\ \E k \in IF files[h].clus = 0 THEN Chains \ used ELSE {files[h].clus} :
             disk' = [disk EXCEPT ![k] = Zeros]
    BY <2>1 DEF WriteFile, Writable, Call
  <2>3. PICK k \in IF files[h].clus = 0 THEN Chains \ used ELSE {files[h].clus} :
               disk' = [disk EXCEPT ![k] = Zeros]
    BY <2>2
  <2>4. k \in Chains /\ ~IsDir(k)
    <3>1. CASE files[h].clus = 0
      BY <1>1, <2>2, <2>3, <3>1, FreeNotDir
    <3>2. CASE files[h].clus # 0
      <4>1. Active(h) /\ k = files[h].clus
        BY <1>1, <2>2, <2>3, <3>2, AttrActive
      <4>2. ~IsDir(k) /\ k \in used
        BY <1>1, <2>2, <3>2, <4>1, FileNotDir
      <4> QED BY <1>1, <4>2 DEF TInv, DiskTypes
    <3> QED BY <3>1, <3>2
  <2> QED BY <1>1, <1>3, <2>3, <2>4, StoreKept
<1>5. CASE MkdirClear
  <2>1. pc = "mkdir"
    BY <1>5 DEF MkdirClear
  <2>2. disk' = disk \/ \E k \in Chains \ used : disk' = [disk EXCEPT ![k] = Zeros]
    BY <1>5 DEF MkdirClear
  <2>3. PICK k \in Chains \ used : disk' = [disk EXCEPT ![k] = Zeros]
    BY <2>2
  <2>4. ~IsDir(k)
    BY <1>1, <2>1, <2>3, FreeNotDir
  <2> QED BY <1>1, <1>3, <2>3, <2>4, StoreKept
<1>6. CASE MkdirDots
  <2> PICK k : k = files[op.h].clus
    OBVIOUS
  <2> PICK w : w = Dots(files[op.h])
    OBVIOUS
  <2>1. pc = "dots" /\ (disk' = disk \/ disk' = [disk EXCEPT ![k] = w])
    BY <1>6 DEF MkdirDots
  <2>2. disk[k] = Zeros
    BY <1>1, <2>1 DEF TreeOK, Stages, FileAt
  <2>3. c # k
    <3>1. Zeros.ent[i] = Mark("END")
      BY <1>3 DEF Zeros, Dir
    <3>2. Mark("END").name \notin Names
      BY NameFacts DEF Mark, Entry
    <3> QED BY <1>3, <2>2, <3>1, <3>2
  <2> QED BY <1>2, <2>1, <2>3
<1>7. CASE Remove
  <2> PICK g : g = op.h
    OBVIOUS
  <2> PICK x : x = BufOf(g)
    OBVIOUS
  <2> PICK z : z = files[g].dclus
    OBVIOUS
  <2> PICK m : m = Mem(x)
    OBVIOUS
  <2> PICK d : d = Without(m, files[g])
    OBVIOUS
  <2> PICK p : p = files[g].lpos
    OBVIOUS
  <2>1. Saved(g, x, z, m, d, p)
    BY <1>1, <1>7, RemoveFacts
  <2> QED BY <1>1, <1>3, <2>1, SavedKept
<1>8. CASE \E h \in Handle : CloseChanged(h)
  <2>1. PICK g \in Handle : CloseChanged(g)
    BY <1>8
  <2>2. PICK x, z, m, d, p : Saved(g, x, z, m, d, p)
    BY <1>1, <2>1, CloseChangedFacts
  <2>3. op.closing # <<>> /\ g = Head(op.closing)
    BY <2>1 DEF CloseChanged, Closing
  <2> QED BY <1>1, <1>3, <2>2, <2>3, SavedKept
<1> QED BY <1>4, <1>5, <1>6, <1>7, <1>8, DiskStays

\* Between the calls of a run in which nothing has gone wrong, every chain in use
\* is named by one entry or belongs to an open file, no two entries share one, no
\* directory has two entries of a name, and every subdirectory knows itself and
\* its parent: whatever files and directories the calls have created, extended,
\* moved and deleted in buffers that differ from the disk (fatuc_mkdir,
\* fatuc__fopen, fatuc__deletefile, fatuc_move_dentry, fatuc__syncfileinfo).
THEOREM TreeAlwaysSound == Spec => []TreeSound
<1>1. Init => TreeInv
  BY InitTreeInv
<1>2. TreeInv /\ [Next]_vars => TreeInv'
  BY TreeHolds
<1>3. TreeInv => TreeSound
  BY TreeSoundImplied
<1> QED BY <1>1, <1>2, <1>3, PTL DEF Spec

\* Saving a directory buffer (fatuc__savedirbuf) writes the whole of it over the
\* directory on the disk; in a run in which nothing has gone wrong it loses no
\* entry there but the one of the file the call removes or closes.
THEOREM EntriesAlwaysKept == Spec => EntriesKept
<1>1. Init => TreeInv
  BY InitTreeInv
<1>2. TreeInv /\ [Next]_vars => TreeInv'
  BY TreeHolds
<1>3. TreeInv /\ [Next]_vars =>
        [~spoilt' => \A c \in Chains, i \in Slot :
           LET e == disk[c].ent[i]
           IN i \in Live(disk[c]) /\ e.clus # 0 /\ disk'[c].ent[i] # e
                => About(c, e.name) \/ disk[c].self = -1]_vars
  BY KeptFacts
<1> QED BY <1>1, <1>2, <1>3, PTL DEF Spec, EntriesKept
=============================================================================
