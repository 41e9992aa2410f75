----------------------------- MODULE SonarImage -----------------------------
(***************************************************************************)
(* Sonar_Image_Processing.c: a square image, kept row by row in one array, *)
(* is rotated by a quarter turn and smoothed, both in place.  A step does  *)
(* one row.  Rows and columns count from 0, as in the code.                *)
(***************************************************************************)
EXTENDS Integers, Sequences, FiniteSets, Functions

CONSTANT Images  \* arrays of n * n pixels that rand() may fill, n >= 2

VARIABLES
  phase,               \* "start", "transpose", "reverse", "smooth" or "end"
  rowIndex,
  sonarImageSize,
  sonarImage,
  originalPreviousRow, \* uninitialised in the first row, and not read there
  original             \* history: the image before the rotation

sonarVars == <<phase, rowIndex, sonarImageSize, sonarImage, originalPreviousRow, original>>

Init ==
  /\ phase = "start"
  /\ rowIndex = 0
  /\ sonarImageSize = 0
  /\ sonarImage = <<>>
  /\ originalPreviousRow = <<>>
  /\ original = <<>>

Indices  == 0 .. sonarImageSize - 1
At(r, c) == r * sonarImageSize + c + 1

Row(k)    == (k - 1) \div sonarImageSize
Column(k) == (k - 1) % sonarImageSize

\* The next row of this phase, or the first one of the next phase.
NextRow(next) ==
  /\ rowIndex' = (rowIndex + 1) % sonarImageSize
  /\ phase' = IF rowIndex + 1 = sonarImageSize THEN next ELSE phase

\* main: the size, and random values.
initializeWithRandomValues(image, n) ==
  /\ phase = "start"
  /\ Len(image) = n * n
  /\ phase' = "transpose"
  /\ sonarImageSize' = n
  /\ sonarImage' = image
  /\ original' = image
  /\ UNCHANGED <<rowIndex, originalPreviousRow>>

SwappedInRow(k) ==
  \/ Row(k) = rowIndex /\ Column(k) > rowIndex
  \/ Column(k) = rowIndex /\ Row(k) > rowIndex

\* Swaps the row, right of the diagonal, with the column below it.
transposeMatrix ==
  /\ phase = "transpose"
  /\ sonarImage' = [k \in DOMAIN sonarImage |->
                      IF SwappedInRow(k) THEN sonarImage[At(Column(k), Row(k))]
                      ELSE sonarImage[k]]
  /\ NextRow("reverse")
  /\ UNCHANGED <<sonarImageSize, originalPreviousRow, original>>

\* Two pointers swap their pixels from the ends of the row to its middle.
rotateSonarImageClockwise ==
  /\ phase = "reverse"
  /\ sonarImage' = [k \in DOMAIN sonarImage |->
                      IF Row(k) = rowIndex
                      THEN sonarImage[At(rowIndex, sonarImageSize - 1 - Column(k))]
                      ELSE sonarImage[k]]
  /\ NextRow("smooth")
  /\ UNCHANGED <<sonarImageSize, originalPreviousRow, original>>

OriginalCurrentRow == [c \in Indices |-> sonarImage[At(rowIndex, c)]]

\* Mutant: the row above is read after it was smoothed.
NeighbourSmoothed(r, c) == sonarImage[At(r, c)]

\* The three rows the filter reads: the saved row above, the saved row, and the
\* row below, which still has its values.
Neighbour(r, c) ==
  IF r = rowIndex - 1 THEN originalPreviousRow[c] ELSE sonarImage[At(r, c)]

Around(r, c) ==
  {p \in Indices \X Indices : p[1] \in r - 1 .. r + 1 /\ p[2] \in c - 1 .. c + 1}

\* The average of the pixels of a part of an image.
Average(pixels) == SumFunction(pixels) \div Cardinality(DOMAIN pixels)

applySmoothingFilter ==
  /\ phase = "smooth"
  /\ sonarImage' = [k \in DOMAIN sonarImage |->
       IF Row(k) = rowIndex
       THEN Average([p \in Around(rowIndex, Column(k)) |-> Neighbour(p[1], p[2])])
       ELSE sonarImage[k]]
  /\ originalPreviousRow' = OriginalCurrentRow
  /\ NextRow("end")
  /\ UNCHANGED <<sonarImageSize, original>>

Next ==
  \/ \E image \in Images, n \in 2 .. 10 : initializeWithRandomValues(image, n)
  \/ transposeMatrix
  \/ rotateSonarImageClockwise
  \/ applySmoothingFilter

Spec == Init /\ [][Next]_sonarVars

(***************************************************************************)
(* Properties.                                                             *)
(***************************************************************************)
\* The first row becomes the last column.
Rotated(r, c) == original[At(sonarImageSize - 1 - c, r)]

Smoothed(r, c) == Average([p \in Around(r, c) |-> Rotated(p[1], p[2])])

\* The image is the original turned by a quarter, clockwise, and then every pixel
\* the average of its neighbours in the turned image, of none that the filter,
\* which works in place, has already overwritten.
ImageRight ==
  /\ phase = "smooth" /\ rowIndex = 0 =>
       \A r, c \in Indices : sonarImage[At(r, c)] = Rotated(r, c)
  /\ phase = "end" =>
       \A r, c \in Indices : sonarImage[At(r, c)] = Smoothed(r, c)
=============================================================================
