------------------------------- MODULE GHSym -------------------------------
(***************************************************************************)
(* The symmetric two-dimensional histogram (libraries/GROOT/GHSym.cxx): it *)
(* stores one half of the matrix, folds every fill into it, and may keep   *)
(* the first fills in a buffer, from which it is filled when it is read    *)
(* and filled again when the buffer grows.                                 *)
(*                                                                         *)
(* A value on an axis is the number of its bin, 0 the underflow and        *)
(* nbins + 1 the overflow; FindBin is ROOT's.  Of the sums for the         *)
(* statistics the number of entries is kept.  Cells are integers: GHSymF's *)
(* are floats, which stop counting at 2^24.  The automatic choice and      *)
(* extension of the axes, errors, labels, cuts, the drawing and the under- *)
(* and overflow of a rebinned histogram are left out.                      *)
(***************************************************************************)
EXTENDS Integers, Sequences, FiniteSets

CONSTANTS
    NBins,          \* bins of an axis
    BufferSizes,    \* of fBuffer, in numbers; 0 is no buffer
    Points, Weights,    \* what Fill is called with
    FillBound       \* calls of Fill in a behaviour

VARIABLES
    hist,           \* the object
    fills,          \* what it was filled with since the last Reset
    shown           \* how many of the fills had come when fMatrix was made

histVars == <<hist, fills, shown>>

NoMatrix == <<>>

Axis(nbins) == 0 .. nbins + 1

\* The position of the cell (binx, biny) in the array, whatever the order of
\* the two; the array has one position for each pair.
Fold(binx, biny, nbins) == binx + (biny * (2 * nbins - biny + 3)) \div 2
GetBin(binx, biny, nbins) ==
    IF biny <= binx THEN Fold(binx, biny, nbins) ELSE Fold(biny, binx, nbins)
Cells(nbins) == 0 .. ((nbins + 2) * (nbins + 3)) \div 2 - 1

ASSUME HistAssumption ==
    /\ NBins \subseteq Nat \ {0}
    /\ BufferSizes \subseteq Nat
    /\ \A n \in NBins : Points \subseteq Axis(n) \X Axis(n)
    /\ Weights \subseteq Int
    /\ FillBound \in Nat

\* The sum f[first] + ... + f[last].
Total(f, first, last) ==
    LET sum[j \in first - 1 .. last] == IF j < first THEN 0 ELSE sum[j - 1] + f[j]
    IN  sum[last]

-----------------------------------------------------------------------------
(* Filling.  count is fBuffer[0]: negative once the histogram holds what   *)
(* the buffer holds.                                                       *)

\* The cached matrix goes too.
Reset(h) == [h EXCEPT !.array = [c \in Cells(h.nbins) |-> 0], !.fEntries = 0,
                      !.matrix = NoMatrix]

FillCell(h, x, y, w) ==
    LET binx == IF y <= x THEN x ELSE y
        biny == IF y <= x THEN y ELSE x
    IN  [h EXCEPT !.array[Fold(binx, biny, h.nbins)] = @ + w, !.fEntries = @ + 1]

Magnitude(i) == IF i < 0 THEN -i ELSE i

BufferEmpty(h, action) ==
    IF h.size = 0 \/ h.count = 0 \/ (h.count < 0 /\ action = 0) THEN h
    ELSE
        LET n == Magnitude(h.count)
            from == IF h.count < 0 THEN Reset(h) ELSE h
            filled[i \in 0 .. n] ==
                IF i = 0 THEN from
                ELSE FillCell(filled[i - 1], h.buffer[i][1], h.buffer[i][2], h.buffer[i][3])
        IN  IF action > 0
            THEN [filled[n] EXCEPT !.size = 0, !.buffer = <<>>, !.count = 0]
            ELSE [filled[n] EXCEPT !.count = IF n = filled[n].fEntries THEN -n ELSE 0]

\* Faulty: the histogram keeps what it was already filled with.
BufferFillAgain(h, x, y, w) ==
    LET n == Magnitude(h.count) IN
    IF 3 * n + 3 >= h.size
    THEN FillCell(BufferEmpty([h EXCEPT !.count = n], 1), x, y, w)
    ELSE [h EXCEPT !.count = n + 1,
                   !.buffer = Append(SubSeq(@, 1, n), <<x, y, w>>)]

BufferFill(h, x, y, w) ==
    LET n == Magnitude(h.count)
        ready == IF h.count < 0 /\ h.fEntries > 0 THEN Reset(h) ELSE h
    IN  IF 3 * n + 3 >= h.size
        THEN FillCell(BufferEmpty([ready EXCEPT !.count = n], 1), x, y, w)
        ELSE [ready EXCEPT !.count = n + 1,
                           !.buffer = Append(SubSeq(@, 1, n), <<x, y, w>>)]

\* Fill(x, y, w): a weight does not go into the buffer.
Fill(h, x, y, w) ==
    IF h.size = 0 THEN FillCell(h, x, y, w) ELSE BufferFill(h, x, y, 1)
-----------------------------------------------------------------------------
(* Reading, from a histogram whose buffer was emptied                      *)

GetBinContent(h, binx, biny) == h.array[GetBin(binx, biny, h.nbins)]

\* The content of one bin of the projection of all bins.
Projection(h, x) ==
    Total([y \in Axis(h.nbins) |-> GetBinContent(h, x, y)], 0, h.nbins + 1)

\* The full matrix is made once, unless it is forced.
GetMatrix(h, force) ==
    IF h.matrix # NoMatrix /\ ~force THEN h
    ELSE LET read == BufferEmpty(h, 0) IN
         [read EXCEPT !.matrix = [b \in Axis(h.nbins) \X Axis(h.nbins) |->
                                     GetBinContent(read, b[1], b[2])]]

\* Faulty: both halves of the matrix are located alike.
OldCellUnfolded(c, h, axisbins) == h.array[Fold(c[1], c[2], axisbins)]

\* A cell of the saved array, where this->fXaxis has axisbins bins.
OldCell(c, h, axisbins) == h.array[GetBin(c[1], c[2], axisbins)]
First(b, ngroup) == (b - 1) * ngroup + 1
Block(b, ngroup) == First(b, ngroup) .. b * ngroup
\* The cells within the axes of the rebinned histogram: one half is computed,
\* cell by cell of the old matrix, and SetBinContent folds.  Without a new
\* name (the default) hnew is this, and SetBins has changed this->fXaxis
\* before the old cells are located.
Rebin2D(h, ngroup, newname) ==
    LET newbins == h.nbins \div ngroup
        axisbins == IF newname = "" THEN newbins ELSE h.nbins
    IN  [b \in {b \in (1 .. newbins) \X (1 .. newbins) : b[2] <= b[1]} |->
            Total([x \in Block(b[1], ngroup) |->
                      Total([y \in Block(b[2], ngroup) |-> OldCell(<<x, y>>, h, axisbins)],
                            First(b[2], ngroup), b[2] * ngroup)],
                  First(b[1], ngroup), b[1] * ngroup)]
-----------------------------------------------------------------------------
(* The histogram in use                                                    *)

HistInit ==
    /\ hist \in {[nbins |-> n, array |-> [c \in Cells(n) |-> 0], fEntries |-> 0,
                  size |-> s, buffer |-> <<>>, count |-> 0, matrix |-> NoMatrix] :
                     n \in NBins, s \in BufferSizes}
    /\ fills = <<>>
    /\ shown = 0

\* What the histogram keeps of a weight.
Kept(h, w) == IF h.size = 0 THEN w ELSE 1

KeepShown == shown' = IF hist'.matrix = NoMatrix THEN 0 ELSE shown

FillHist(x, y, w) ==
    /\ Len(fills) < FillBound
    /\ hist' = Fill(hist, x, y, w)
    /\ fills' = Append(fills, <<x, y, Kept(hist, w)>>)
    /\ KeepShown

\* GetBinContent and GetStats empty the buffer first; THistPainter empties
\* it with -1, which fills the histogram anew.
ReadHist ==
    /\ \E action \in {-1, 0} : hist' = BufferEmpty(hist, action)
    /\ UNCHANGED fills
    /\ KeepShown

\* Draw and the users of the matrix.
DrawHist(force) ==
    /\ hist' = GetMatrix(hist, force)
    /\ shown' = IF hist.matrix = NoMatrix \/ force THEN Len(fills) ELSE shown
    /\ UNCHANGED fills

\* Reset by the user: the buffer is reset, not deleted.
ResetHist ==
    /\ hist' = [Reset(hist) EXCEPT !.count = 0]
    /\ fills' = <<>>
    /\ KeepShown

HistNext ==
    \/ \E p \in Points, w \in Weights : FillHist(p[1], p[2], w)
    \/ ReadHist
    \/ \E force \in BOOLEAN : DrawHist(force)
    \/ ResetHist

HistSpec == HistInit /\ [][HistNext]_histVars
-----------------------------------------------------------------------------
(* What must hold                                                          *)

Read == BufferEmpty(hist, 0)
WeightIn(some, pairs) ==
    Total([i \in DOMAIN some |->
              IF {some[i][1], some[i][2]} \in pairs THEN some[i][3] ELSE 0],
          1, Len(some))

\* Whenever it is read, and however often it was read, filled again from its
\* buffer or reset before, each cell of the matrix and each bin of the full
\* projection holds the fills with its two values in either order, every one
\* once.  A weight that was given while there was a buffer counts as 1.  The
\* cached matrix holds those that had come when it was made, as they are now:
\* it does not outlive a Reset (GHSym.cxx:2538, 2781).
EveryFillOnce ==
    /\ Read.fEntries = Len(fills)
    /\ \A x, y \in Axis(hist.nbins) :
           GetBinContent(Read, x, y) = WeightIn(fills, {{x, y}})
    /\ \A x \in Axis(hist.nbins) :
           Projection(Read, x) =
               WeightIn(fills, {{x, y} : y \in Axis(hist.nbins)})
    /\ hist.matrix # NoMatrix =>
           shown <= Len(fills) /\ \A x, y \in Axis(hist.nbins) :
               hist.matrix[x, y] = WeightIn(SubSeq(fills, 1, shown), {{x, y}})

\* The cells of new are the sums of the blocks of g by g cells of the full
\* matrix: each holds the fills with one value in each of its two groups of
\* bins.  Where the two groups are the same, a fill of two different bins has
\* two cells of the full matrix in the block and counts twice.
MergesFills(new, g) ==
    \A b \in DOMAIN new :
        new[b] = Total([i \in DOMAIN fills |-> fills[i][3] * Cardinality(
                           {<<fills[i][1], fills[i][2]>>, <<fills[i][2], fills[i][1]>>}
                               \cap (Block(b[1], g) \X Block(b[2], g)))],
                       1, Len(fills))

\* A new histogram made by Rebin2D has merged the cells of the old one within
\* the axes, whatever was buffered, read or reset before, for any group.
RebinnedCopyIsFills ==
    \A g \in 1 .. hist.nbins : MergesFills(Rebin2D(Read, g, "hnew"), g)

\* And so has a histogram that is rebinned itself: "merges two bins along the
\* xaxis and yaxis in one in hpxpy" (GHSym.cxx:2226).  It is violated: the
\* old cells are located with the new number of bins (2322, 2343).
RebinnedInPlaceIsFills ==
    \A g \in 1 .. hist.nbins : MergesFills(Rebin2D(Read, g, ""), g)
=============================================================================
