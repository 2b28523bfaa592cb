------------------------------ MODULE MCDirBufs ------------------------------
\* A small instance of DirBufs.
EXTENDS DirBufs

MCPaths == {Here, Path(TRUE, <<>>), Path(TRUE, <<"d">>), Path(FALSE, <<UP>>)}
MCDests == {Here, Path(TRUE, <<"d">>)}
MCNames == {"d", "f", "n1", "n2"}
MCNextName == [n \in {"n1"} |-> "n2"]

\* A root directory with a directory d and a file f, and a file f in d with a
\* long name, or with n1 and n2 there, too.
Slots(es) == [i \in Slot |-> IF i <= Len(es) THEN es[i] ELSE Mark("END")]
Tree(root, d) ==
  [c \in Clus |-> CASE c = Root -> Dir(-1, -1, Slots(root))
                    [] c = 1 -> Dir(1, Root, Slots(d))
                    [] OTHER -> Zeros]
D == Entry("d", "DIR", 1, 0)
F(n, c) == Entry(n, "ARCHIVE", c, 1)
MCVolumes ==
  {Tree(<<D, Mark("LFN"), F("f", 2)>>, <<F("n1", 3)>>),
   Tree(<<Mark("LFN"), D>>, <<Mark("LFN"), F("f", 2), F("n2", 0)>>)}
=============================================================================
