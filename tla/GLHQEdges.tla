------------------------------ MODULE GLHQEdges -------------------------------
(***************************************************************************)
(* The edge texture of the OpenGL hq scaler (src/src/video/GLHQScaler.cc,  *)
(* calcInitialEdges and uploadBlock).  For every source pixel the texture  *)
(* holds a 16-bit word whose bits say which pairs of pixels in its 3x3     *)
(* neighbourhood differ ("edge").  The code computes the words row by row  *)
(* and column by column, carrying bits from the previous column by         *)
(* shifting the pattern 6 places and from the row above through the        *)
(* previous row of the edge buffer.                                        *)
(*                                                                         *)
(* A word is modelled as the set of its set bits, so "p >> 6" is Shr,      *)
(* "& mask" an intersection and "|=" a union.  A line is Width pixels      *)
(* (320 in the code); a frame is Height lines.  The neighbourhood is       *)
(* named as in the hq scalers:  c1 c2 c3 / c4 c5 c6 / c7 c8 c9, c5 the     *)
(* pixel itself.  Positions are 0-based as in the code.                    *)
(***************************************************************************)
EXTENDS Integers, Sequences

CONSTANTS
    Width,    \* lineWidth, the texture stride (320)
    Height,   \* lines in the frame
    Pixels    \* pixel values

None == <<>>   \* a texture row not uploaded yet

VARIABLES
    frame,    \* frame[y+1][x+1]: the pixel at (x, y) of the paint frame
    tex       \* tex[y]: the edge-texture row y, a sequence of words

vars == <<frame, tex>>

(* HQCommon's edge(c1, c2): the two colours differ noticeably.  Only its    *)
(* symmetry and edge(c, c) = false matter here.                           *)
Edge(a, b) == a # b

(* FrameSource::getLinePtr clamps the line number into the frame, so the   *)
(* line above line 0 (srcStartY - 1) and the line below the last one are   *)
(* the border lines repeated.                                              *)
Line(y) == frame[IF y < 0 THEN 1 ELSE IF y >= Height THEN Height ELSE y + 1]

Shr(p, n)      == {b - n : b \in {c \in p : c >= n}}
BitsIf(cond, S) == IF cond THEN S ELSE {}

\* Fault: "1 << (5 + 4)": the last column loses its replicated diagonals.
LastInitialEdgeNoDiag(pattern, c1, c2) ==
    Shr(pattern, 6) \cup BitsIf(Edge(c1, c2), {9})

\* calcInitialEdges' last column, where n1 = c1 and n2 = c2.
LastInitialEdge(pattern, c1, c2) ==
    Shr(pattern, 6) \cup BitsIf(Edge(c1, c2), {9, 10, 11})

(* calcInitialEdges' loop from column x on, c1 = srcPrev[x] and           *)
(* c2 = srcCurr[x], then the last column.                                 *)
RECURSIVE InitialEdgesFrom(_, _, _, _, _)
InitialEdgesFrom(prev, curr, x, pattern, buf) ==
    LET c1 == prev[x + 1]
        c2 == curr[x + 1]
    IN  IF x < Width - 1
        THEN LET n1 == prev[x + 2]
                 n2 == curr[x + 2]
                 p  == Shr(pattern, 6) \cup BitsIf(Edge(c1, c2), {9})
                         \cup BitsIf(Edge(c1, n2), {10}) \cup BitsIf(Edge(c2, n1), {11})
             IN  InitialEdgesFrom(prev, curr, x + 1, p, Append(buf, p))
        ELSE Append(buf, LastInitialEdge(pattern, c1, c2))

CalcInitialEdges(prev, curr) ==
    InitialEdgesFrom(prev, curr, 0, BitsIf(Edge(prev[1], curr[1]), {10, 11}), <<>>)

\* Fault: "(edges[x] & (7 << 9)) << 6" moves bits 10, 11 past the word.
FromAboveWide(w) == {b + 6 : b \in w \cap {9, 10, 11}}

\* The bits taken from the row above: 9 -> 15, 10 -> 13, 11 -> 14.
FromAbove(w) == {b + 6 : b \in w \cap {9}} \cup {b + 3 : b \in w \cap {10, 11}}

\* Fault: the carry mask 0x000F << 4 drops bit 8.
KeptNarrow(pattern) == Shr(pattern, 6) \cap 4..7

\* "(pattern >> 6) & (0x001F << 4)": the previous column's bits 10..14.
Kept(pattern) == Shr(pattern, 6) \cap 4..8

(* One row of uploadBlock's loop from column x on, c5 = curr[x] and        *)
(* c8 = next[x]; edges is the edge-buffer row of the line above.          *)
RECURSIVE RowFrom(_, _, _, _, _, _)
RowFrom(curr, next, edges, x, pattern, buf) ==
    LET c5 == curr[x + 1]
        c8 == next[x + 1]
    IN  IF x < Width - 1
        THEN LET c6 == curr[x + 2]
                 c9 == next[x + 2]
                 p  == Kept(pattern) \cup BitsIf(Edge(c5, c8), {9})
                         \cup BitsIf(Edge(c5, c9), {10}) \cup BitsIf(Edge(c6, c8), {11})
                         \cup BitsIf(Edge(c5, c6), {12}) \cup FromAbove(edges[x + 1])
             IN  RowFrom(curr, next, edges, x + 1, p, Append(buf, p \cup {3}))
        ELSE Append(buf, Kept(pattern) \cup BitsIf(Edge(c5, c8), {9, 10, 11})
                           \cup FromAbove(edges[x + 1]) \cup {3})

UploadRow(curr, next, edges) ==
    RowFrom(curr, next, edges, 0,
            BitsIf(Edge(curr[1], next[1]), {10, 11}) \cup BitsIf(4 \in edges[1], {13, 14}),
            <<>>)

(* The for loop over y: row y of the texture from lines y and y + 1 and    *)
(* the edge-buffer row computed for line y - 1.                           *)
RECURSIVE BlockRows(_, _, _, _)
BlockRows(y, srcEndY, edges, t) ==
    IF y >= srcEndY THEN t
    ELSE LET row == UploadRow(Line(y), Line(y + 1), edges)
         IN  BlockRows(y + 1, srcEndY, row, [t EXCEPT ![y] = row])

Init ==
    /\ frame \in [1..Height -> [1..Width -> Pixels]]
    /\ tex = [y \in 0..Height - 1 |-> None]

(* uploadBlock(srcStartY, srcEndY, lineWidth): nothing unless the line is  *)
(* 320 pixels wide; else the initial edges of lines srcStartY - 1 and      *)
(* srcStartY, then one texture row per line of the block.                 *)
UploadBlock(srcStartY, srcEndY, lineWidth) ==
    /\ tex' = IF lineWidth # Width THEN tex
              ELSE BlockRows(srcStartY, srcEndY,
                             CalcInitialEdges(Line(srcStartY - 1), Line(srcStartY)), tex)
    /\ UNCHANGED frame

Next ==
    \E s, e \in 0..Height, w \in {Width, Width + 1} : s <= e /\ UploadBlock(s, e, w)

Spec == Init /\ [][Next]_vars

-----------------------------------------------------------------------------
Words == SUBSET (0..15)

TypeOK ==
    /\ frame \in [1..Height -> [1..Width -> Pixels]]
    /\ tex \in [0..Height - 1 -> [1..Width -> Words] \cup {None}]

\* The neighbour (dx, dy) of (x, y), clamped into the frame like the code.
Px(x, y, dx, dy) ==
    LET cx == x + dx
    IN  Line(y + dy)[IF cx < 0 THEN 1 ELSE IF cx >= Width THEN Width ELSE cx + 1]

\* The cells of the neighbourhood as offsets, and the pair each bit tests.
Cell == [c1 |-> <<-1, -1>>, c2 |-> <<0, -1>>, c3 |-> <<1, -1>>,
         c4 |-> <<-1, 0>>,  c5 |-> <<0, 0>>,  c6 |-> <<1, 0>>,
         c7 |-> <<-1, 1>>,  c8 |-> <<0, 1>>,  c9 |-> <<1, 1>>]
BitPair == [b \in 4..15 |->
              CASE b = 4  -> <<"c4", "c8">> [] b = 5  -> <<"c5", "c7">>
                [] b = 6  -> <<"c4", "c5">> [] b = 7  -> <<"c1", "c5">>
                [] b = 8  -> <<"c4", "c2">> [] b = 9  -> <<"c5", "c8">>
                [] b = 10 -> <<"c5", "c9">> [] b = 11 -> <<"c6", "c8">>
                [] b = 12 -> <<"c5", "c6">> [] b = 13 -> <<"c2", "c6">>
                [] b = 14 -> <<"c5", "c3">> [] b = 15 -> <<"c2", "c5">>]

\* The word the hq shader expects for pixel (x, y): bit 3 set, and bit b
\* set exactly when the two pixels BitPair[b] of the neighbourhood differ.
Reference(x, y) ==
    {3} \cup {b \in 4..15 :
                 LET p == Cell[BitPair[b][1]]
                     q == Cell[BitPair[b][2]]
                 IN  Edge(Px(x, y, p[1], p[2]), Px(x, y, q[1], q[2]))}

(* Every uploaded texture row holds, in every column, the edge word of    *)
(* that pixel's neighbourhood: the bits carried between columns by the    *)
(* shift and mask, from the row above through the edge buffer, and the    *)
(* replicated border columns and lines all land on the right pair.        *)
EdgeTextureCorrect ==
    \A y \in 0..Height - 1 :
        tex[y] # None => \A x \in 0..Width - 1 : tex[y][x + 1] = Reference(x, y)
==============================================================================
