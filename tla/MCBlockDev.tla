----------------------------- MODULE MCBlockDev -----------------------------
\* A small instance of BlockDev: commands of at most four sectors, blocks of
\* two, drives of twelve sectors, and an image file of four.
EXTENDS BlockDev

D(lba, multi, reverts) == [lba |-> lba, multi |-> multi, reverts |-> reverts]
MCDrives == {D(TRUE, 2, FALSE), D(TRUE, 2, TRUE), D(TRUE, 0, FALSE), D(FALSE, 2, FALSE)}
\* More than one command, a part of the upper half, across the halves, nothing.
MCAsked == {<<0, 5>>, <<8, 3>>, <<4, 3>>, <<1, 0>>}
=============================================================================
