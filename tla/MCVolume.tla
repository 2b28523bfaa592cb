------------------------------ MODULE MCVolume ------------------------------
\* A small instance of Volume: a disk of ten sectors.
EXTENDS Volume

B(rsvd, fats, fatSz, rootSecs, tot, active) ==
  [mark |-> TRUE, jump |-> TRUE, secPerClus |-> 1, rsvdSecCnt |-> rsvd, numFats |-> fats,
   rootDirSecs |-> rootSecs, fatSz |-> fatSz, totSec |-> tot, active |-> active,
   rootClus |-> 2, clean |-> TRUE, noHardErr |-> TRUE, entry0 |-> TRUE]
NoBoot == [B(0, 0, 0, 0, 0, 0) EXCEPT !.mark = FALSE, !.jump = FALSE]
Mbr == [NoBoot EXCEPT !.mark = TRUE]

Fat16 == B(1, 1, 1, 1, 4, 0)          \* boot sector, FAT, root directory, one cluster
Fat32 == B(1, 2, 1, 0, 5, 1)          \* boot sector, two FATs, the second in use, two clusters
Image(boots, first, num) ==
  [boot |-> [s \in 0 .. 9 |-> IF s \in DOMAIN boots THEN boots[s] ELSE NoBoot],
   first |-> first, num |-> num]
At(a, x, b, y, c, z) == [s \in {a, b, c} |-> IF s = a THEN x ELSE IF s = b THEN y ELSE z]

\* A partition table with a FAT16 and a FAT32 partition, an empty entry and one
\* beyond the disk; the same with volumes that do not fit (the second with a
\* data area of negative size) or are not clean; and a disk without a table.
MCImages ==
  LET first == <<1, 5, 0, 12>>  num == <<4, 5, 0, 3>>
  IN {Image(At(0, Mbr, 1, Fat16, 5, Fat32), first, num),
      Image(At(0, Mbr, 1, [Fat16 EXCEPT !.totSec = 6], 5, [Fat32 EXCEPT !.totSec = 2]), first, num),
      Image(At(0, Mbr, 1, [Fat16 EXCEPT !.clean = FALSE], 5, [Fat32 EXCEPT !.fatSz = 2, !.totSec = 3]), first, num),
      Image(At(0, B(1, 2, 1, 2, 6, 0), 1, NoBoot, 2, NoBoot), first, num)}
MCDisks == {[s \in Sec |-> 0]}

\* What VolumeImplements assumes.
ASSUME MCImagesInOrder == ImagesInOrder
=============================================================================
