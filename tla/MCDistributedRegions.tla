------------------------ MODULE MCDistributedRegions ------------------------
EXTENDS DistributedRegions

MCSize == <<3, 2>>
Region(x1, x2, y1, y2) == {c \in Cells : c[1] \in x1 .. x2 /\ c[2] \in y1 .. y2}
Row == Region(0, 2, 0, 0)
Middle == Region(1, 1, 0, 1)
Regions == {Region(1, 2, 0, 1), Row, Cells}
\* The bounding box of the ends of the row is the row; that of the corners is
\* everything.
Ends == {<<0, 0>>, <<2, 0>>}
Corners == {<<0, 1>>, <<2, 0>>}

Reads(cells) == [reads |-> cells, to |-> {}]
Writes(cells) == [reads |-> {}, to |-> cells]
Updates(cells) == [reads |-> cells, to |-> cells]
Readers == {Reads(r) : r \in Regions \union {Ends}}
Writers == {Writes(r) : r \in Regions} \union {Updates(r) : r \in Regions}

\* Read, write, read again; and two writers that run at once, one of which has
\* what the other writes in its box.
MCPrograms ==
  {<<a, b, c>> : a \in Readers, b \in Writers, c \in Readers}
  \union {<<[reads |-> {<<0, 1>>}, to |-> {<<2, 0>>}], Writes(Middle), c>> :
            c \in Readers \union Writers}
MCLayouts == {Whole(1), NBySlice(2, 1), NByBlock(2, 2, 1), NByBlock(3, 1, 2)}
=============================================================================
