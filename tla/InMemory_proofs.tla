-------------------------- MODULE InMemory_proofs --------------------------
(***************************************************************************)
(* Theorems about programs that keep what they work on in memory and run   *)
(* alone: the dynamic inventory, for every set of texts, all bounds and    *)
(* every sequence of answers to its questions; the sonar image, the        *)
(* students, the players and the calculator, for all their inputs.         *)
(***************************************************************************)
EXTENDS InMemory, ProofLemmas

(***************************************************************************)
(* Each of the programs runs as if there were no others.                   *)
(***************************************************************************)
\* What a program does among the others is what it does alone: a step of another
\* program leaves its variables as they are.
LEMMA EachRunsAlone ==
  InMemorySpec => Spec /\ Calc!Spec /\ Sonar!Spec /\ Pupils!Spec /\ Icc!Spec
<1>1. InMemoryInit => Init /\ Calc!Init /\ Sonar!Init /\ Pupils!Init /\ Icc!Init
  BY DEF InMemoryInit
<1>2. [InMemoryNext]_inMemoryVars => [Next]_vars
  BY DEF InMemoryNext, inMemoryVars
<1>3. [InMemoryNext]_inMemoryVars => [Calc!Next]_Calc!calcVars
  BY DEF InMemoryNext, inMemoryVars, calculator, Calc!calcVars
<1>4. [InMemoryNext]_inMemoryVars => [Sonar!Next]_Sonar!sonarVars
  BY DEF InMemoryNext, inMemoryVars, sonar, Sonar!sonarVars
<1>5. [InMemoryNext]_inMemoryVars => [Pupils!Next]_Pupils!studentVars
  BY DEF InMemoryNext, inMemoryVars, students, Pupils!studentVars
<1>6. [InMemoryNext]_inMemoryVars => [Icc!Next]_Icc!playerVars
  BY DEF InMemoryNext, inMemoryVars, analyzer, Icc!playerVars
<1> QED
  BY <1>1, <1>2, <1>3, <1>4, <1>5, <1>6, PTL
     DEF InMemorySpec, Spec, Calc!Spec, Sonar!Spec, Pupils!Spec, Icc!Spec

(***************************************************************************)
(* The sonar image, of any size and any pixels.                            *)
(***************************************************************************)
\* Rows and columns of the places in an array of n rows.
LEMMA Places ==
  ASSUME NEW n \in 2 .. 10
  PROVE  /\ \A r, c \in 0 .. n - 1 :
              /\ r * n + c + 1 \in 1 .. n * n
              /\ (r * n + c + 1 - 1) \div n = r
              /\ (r * n + c + 1 - 1) % n = c
         /\ \A k \in 1 .. n * n : (k - 1) \div n \in 0 .. n - 1 /\ (k - 1) % n \in 0 .. n - 1
<1>1. CASE n = 2
  BY <1>1
<1>2. CASE n = 3
  BY <1>2
<1>3. CASE n = 4
  BY <1>3
<1>4. CASE n = 5
  BY <1>4
<1>5. CASE n = 6
  BY <1>5
<1>6. CASE n = 7
  BY <1>6
<1>7. CASE n = 8
  BY <1>7
<1>8. CASE n = 9
  BY <1>8
<1>9. CASE n = 10
  BY <1>9
<1> QED
  BY <1>1, <1>2, <1>3, <1>4, <1>5, <1>6, <1>7, <1>8, <1>9

(***************************************************************************)
(* The image o of n rows, worked on: what each pixel is in the rows of the *)
(* phase before row i, and in the others.                                  *)
(***************************************************************************)
Pixel(o, n, r, c) == o[r * n + c + 1]

Turned(o, n, r, c) == Pixel(o, n, n - 1 - c, r)

Near(n, r, c) ==
  {p \in (0 .. n - 1) \X (0 .. n - 1) : p[1] \in r - 1 .. r + 1 /\ p[2] \in c - 1 .. c + 1}

Averaged(o, n, r, c) == Sonar!Average([p \in Near(n, r, c) |-> Turned(o, n, p[1], p[2])])

TransposedTo(i, image, o, n) ==
  \A r, c \in 0 .. n - 1 : Pixel(image, n, r, c) =
    IF r < i \/ c < i THEN Pixel(o, n, c, r) ELSE Pixel(o, n, r, c)

ReversedTo(i, image, o, n) ==
  \A r, c \in 0 .. n - 1 : Pixel(image, n, r, c) =
    IF r < i THEN Turned(o, n, r, c) ELSE Pixel(o, n, c, r)

SmoothedTo(i, image, o, n) ==
  \A r, c \in 0 .. n - 1 : Pixel(image, n, r, c) =
    IF r < i THEN Averaged(o, n, r, c) ELSE Turned(o, n, r, c)

\* The row that the filter saved is the turned row above.
RowSaved(i, saved, o, n) ==
  i > 0 => \A c \in 0 .. n - 1 : saved[c] = Turned(o, n, i - 1, c)

SonarInv ==
  /\ phase \in {"start", "transpose", "reverse", "smooth", "end"}
  /\ phase = "start" => rowIndex = 0
  /\ phase # "start" =>
       /\ sonarImageSize \in 2 .. 10 /\ rowIndex \in 0 .. sonarImageSize - 1
       /\ DOMAIN sonarImage = 1 .. sonarImageSize * sonarImageSize
  /\ phase = "transpose" => TransposedTo(rowIndex, sonarImage, original, sonarImageSize)
  /\ phase = "reverse" => ReversedTo(rowIndex, sonarImage, original, sonarImageSize)
  /\ phase = "smooth" =>
       /\ SmoothedTo(rowIndex, sonarImage, original, sonarImageSize)
       /\ RowSaved(rowIndex, originalPreviousRow, original, sonarImageSize)
  /\ phase = "end" => SmoothedTo(sonarImageSize, sonarImage, original, sonarImageSize)

\* The module's terms.
LEMMA SonarTerms ==
  /\ \A r, c : /\ sonarImage[Sonar!At(r, c)] = Pixel(sonarImage, sonarImageSize, r, c)
              /\ Sonar!Rotated(r, c) = Turned(original, sonarImageSize, r, c)
              /\ Sonar!Around(r, c) = Near(sonarImageSize, r, c)
              /\ Sonar!Smoothed(r, c) = Averaged(original, sonarImageSize, r, c)
  /\ Sonar!Indices = 0 .. sonarImageSize - 1
BY DEF Sonar!At, Sonar!Rotated, Sonar!Around, Sonar!Smoothed, Sonar!Indices, Pixel, Turned,
       Near, Averaged

\* The places of the pixels.
LEMMA PixelPlaces ==
  ASSUME sonarImageSize \in 2 .. 10
  PROVE  \A r, c \in 0 .. sonarImageSize - 1 :
           /\ Sonar!At(r, c) \in 1 .. sonarImageSize * sonarImageSize
           /\ Sonar!Row(Sonar!At(r, c)) = r /\ Sonar!Column(Sonar!At(r, c)) = c
           /\ \A image : Pixel(image, sonarImageSize, r, c) = image[Sonar!At(r, c)]
BY Places DEF Sonar!At, Sonar!Row, Sonar!Column, Pixel

\* How the loops of a phase go on.
LEMMA RowsGoOn ==
  ASSUME sonarImageSize \in 2 .. 10, rowIndex \in 0 .. sonarImageSize - 1,
         NEW next, Sonar!NextRow(next)
  PROVE  \/ /\ rowIndex + 1 < sonarImageSize
            /\ rowIndex' = rowIndex + 1 /\ phase' = phase
         \/ /\ rowIndex + 1 = sonarImageSize
            /\ rowIndex' = 0 /\ phase' = next
<1>1. rowIndex' = (rowIndex + 1) % sonarImageSize
  BY DEF Sonar!NextRow
<1>2. CASE rowIndex + 1 < sonarImageSize
  <2>1. rowIndex + 1 \in 0 .. sonarImageSize - 1 /\ sonarImageSize \in Nat \ {0}
    BY <1>2
  <2>2. (rowIndex + 1) % sonarImageSize = rowIndex + 1
    BY ONLY <2>1
  <2> QED
    BY <1>1, <1>2, <2>2 DEF Sonar!NextRow
<1>3. CASE rowIndex + 1 = sonarImageSize
  <2>1. sonarImageSize \in Nat \ {0}
    OBVIOUS
  <2>2. sonarImageSize % sonarImageSize = 0
    BY ONLY <2>1
  <2> QED
    BY <1>1, <1>3, <2>2 DEF Sonar!NextRow
<1> QED
  BY <1>2, <1>3

\* The image is made.
LEMMA SonarFirst ==
  ASSUME Images \subseteq Seq(0 .. 255), SonarInv, NEW image \in Images, NEW n \in 2 .. 10,
         Sonar!initializeWithRandomValues(image, n)
  PROVE  SonarInv'
<1>1. /\ phase = "start" /\ phase' = "transpose" /\ rowIndex = 0 /\ rowIndex' = 0
      /\ sonarImageSize' = n /\ sonarImage' = image /\ original' = image
      /\ Len(image) = n * n
  BY DEF SonarInv, Sonar!initializeWithRandomValues
<1>2. DOMAIN image = 1 .. n * n
  BY <1>1
<1>3. 0 \in 0 .. n - 1 /\ \A r \in 0 .. n - 1 : ~(r < 0)
  OBVIOUS
<1>4. TransposedTo(0, image, image, n)
  BY <1>3 DEF TransposedTo
<1> QED
  BY <1>1, <1>2, <1>3, <1>4 DEF SonarInv

\* A row is swapped with a column.
LEMMA SonarTransposes ==
  ASSUME SonarInv, Sonar!transposeMatrix
  PROVE  SonarInv'
<1> DEFINE n == sonarImageSize
           i == rowIndex
<1>1. /\ phase = "transpose" /\ n \in 2 .. 10 /\ i \in 0 .. n - 1
      /\ DOMAIN sonarImage = 1 .. n * n
      /\ TransposedTo(i, sonarImage, original, n)
      /\ Sonar!NextRow("reverse") /\ sonarImageSize' = n /\ original' = original
  BY DEF SonarInv, Sonar!transposeMatrix
<1>2. /\ DOMAIN sonarImage' = 1 .. n * n
      /\ \A k \in 1 .. n * n : sonarImage'[k] =
           IF Sonar!SwappedInRow(k) THEN sonarImage[Sonar!At(Sonar!Column(k), Sonar!Row(k))]
           ELSE sonarImage[k]
  BY <1>1 DEF Sonar!transposeMatrix
<1>3. TransposedTo(i + 1, sonarImage', original, n)
  <2>1. SUFFICES ASSUME NEW r \in 0 .. n - 1, NEW c \in 0 .. n - 1
        PROVE  Pixel(sonarImage', n, r, c) =
                 IF r < i + 1 \/ c < i + 1 THEN Pixel(original, n, c, r)
                 ELSE Pixel(original, n, r, c)
    BY DEF TransposedTo
  <2>2. Pixel(sonarImage', n, r, c) =
          IF (r = i /\ c > i) \/ (c = i /\ r > i) THEN Pixel(sonarImage, n, c, r)
          ELSE Pixel(sonarImage, n, r, c)
    <3>1. /\ Sonar!At(r, c) \in 1 .. n * n
          /\ Sonar!Row(Sonar!At(r, c)) = r /\ Sonar!Column(Sonar!At(r, c)) = c
          /\ Pixel(sonarImage', n, r, c) = sonarImage'[Sonar!At(r, c)]
          /\ Pixel(sonarImage, n, r, c) = sonarImage[Sonar!At(r, c)]
      BY <1>1, PixelPlaces
    <3>2. Pixel(sonarImage, n, c, r) = sonarImage[Sonar!At(c, r)]
      BY <1>1, PixelPlaces
    <3> QED
      BY <1>1, <1>2, <3>1, <3>2 DEF Sonar!SwappedInRow
  <2>3. /\ Pixel(sonarImage, n, r, c) =
             IF r < i \/ c < i THEN Pixel(original, n, c, r) ELSE Pixel(original, n, r, c)
        /\ Pixel(sonarImage, n, c, r) =
             IF r < i \/ c < i THEN Pixel(original, n, r, c) ELSE Pixel(original, n, c, r)
    BY <1>1 DEF TransposedTo
  <2> QED
    BY <1>1, <2>2, <2>3
<1>4. CASE i + 1 < n /\ rowIndex' = i + 1 /\ phase' = "transpose"
  BY <1>1, <1>2, <1>3, <1>4 DEF SonarInv
<1>5. CASE i + 1 = n /\ rowIndex' = 0 /\ phase' = "reverse"
  <2>1. 0 \in 0 .. n - 1 /\ \A r \in 0 .. n - 1 : r < i + 1 /\ ~(r < 0)
    BY <1>1, <1>5
  <2>2. ReversedTo(0, sonarImage', original, n)
    BY <1>3, <2>1 DEF TransposedTo, ReversedTo
  <2> QED
    BY <1>1, <1>2, <1>5, <2>1, <2>2 DEF SonarInv
<1> QED
  BY <1>1, <1>4, <1>5, RowsGoOn

\* A row is reversed.
LEMMA SonarReverses ==
  ASSUME SonarInv, Sonar!rotateSonarImageClockwise
  PROVE  SonarInv'
<1> DEFINE n == sonarImageSize
           i == rowIndex
<1>1. /\ phase = "reverse" /\ n \in 2 .. 10 /\ i \in 0 .. n - 1
      /\ DOMAIN sonarImage = 1 .. n * n
      /\ ReversedTo(i, sonarImage, original, n)
      /\ Sonar!NextRow("smooth") /\ sonarImageSize' = n /\ original' = original
  BY DEF SonarInv, Sonar!rotateSonarImageClockwise
<1>2. /\ DOMAIN sonarImage' = 1 .. n * n
      /\ \A k \in 1 .. n * n : sonarImage'[k] =
           IF Sonar!Row(k) = i THEN sonarImage[Sonar!At(i, n - 1 - Sonar!Column(k))]
           ELSE sonarImage[k]
  BY <1>1 DEF Sonar!rotateSonarImageClockwise
<1>3. ReversedTo(i + 1, sonarImage', original, n)
  <2>1. SUFFICES ASSUME NEW r \in 0 .. n - 1, NEW c \in 0 .. n - 1
        PROVE  Pixel(sonarImage', n, r, c) =
                 IF r < i + 1 THEN Turned(original, n, r, c) ELSE Pixel(original, n, c, r)
    BY DEF ReversedTo
  <2>2. n - 1 - c \in 0 .. n - 1
    BY <1>1
  <2>3. Pixel(sonarImage', n, r, c) =
          IF r = i THEN Pixel(sonarImage, n, i, n - 1 - c) ELSE Pixel(sonarImage, n, r, c)
    <3>1. /\ Sonar!At(r, c) \in 1 .. n * n
          /\ Sonar!Row(Sonar!At(r, c)) = r /\ Sonar!Column(Sonar!At(r, c)) = c
          /\ Pixel(sonarImage', n, r, c) = sonarImage'[Sonar!At(r, c)]
          /\ Pixel(sonarImage, n, r, c) = sonarImage[Sonar!At(r, c)]
      BY <1>1, PixelPlaces
    <3>2. Pixel(sonarImage, n, i, n - 1 - c) = sonarImage[Sonar!At(i, n - 1 - c)]
      BY <1>1, <2>2, PixelPlaces
    <3> QED
      BY <1>1, <1>2, <3>1, <3>2
  <2>4. /\ Pixel(sonarImage, n, r, c) =
             IF r < i THEN Turned(original, n, r, c) ELSE Pixel(original, n, c, r)
        /\ ~(i < i) /\ Pixel(sonarImage, n, i, n - 1 - c) = Pixel(original, n, n - 1 - c, i)
    BY <1>1, <2>2 DEF ReversedTo
  <2> QED
    BY <1>1, <2>3, <2>4 DEF Turned
<1>4. CASE i + 1 < n /\ rowIndex' = i + 1 /\ phase' = "reverse"
  BY <1>1, <1>2, <1>3, <1>4 DEF SonarInv
<1>5. CASE i + 1 = n /\ rowIndex' = 0 /\ phase' = "smooth"
  <2>1. 0 \in 0 .. n - 1 /\ \A r \in 0 .. n - 1 : r < i + 1 /\ ~(r < 0)
    BY <1>1, <1>5
  <2>2. SmoothedTo(0, sonarImage', original, n)
    BY <1>3, <2>1 DEF ReversedTo, SmoothedTo
  <2>3. RowSaved(0, originalPreviousRow', original, n)
    BY DEF RowSaved
  <2> QED
    BY <1>1, <1>2, <1>5, <2>1, <2>2, <2>3 DEF SonarInv
<1> QED
  BY <1>1, <1>4, <1>5, RowsGoOn

\* A row is smoothed: the filter reads the saved row above, and rows below that no
\* step has smoothed.
LEMMA SonarSmooths ==
  ASSUME SonarInv, Sonar!applySmoothingFilter
  PROVE  SonarInv'
<1> DEFINE n == sonarImageSize
           i == rowIndex
           read(c) == [p \in Near(n, i, c) |-> Sonar!Neighbour(p[1], p[2])]
<1>1. /\ phase = "smooth" /\ n \in 2 .. 10 /\ i \in 0 .. n - 1
      /\ DOMAIN sonarImage = 1 .. n * n
      /\ SmoothedTo(i, sonarImage, original, n)
      /\ RowSaved(i, originalPreviousRow, original, n)
      /\ Sonar!NextRow("end") /\ sonarImageSize' = n /\ original' = original
  BY DEF SonarInv, Sonar!applySmoothingFilter
<1>2. /\ DOMAIN sonarImage' = 1 .. n * n
      /\ \A k \in 1 .. n * n : sonarImage'[k] =
           IF Sonar!Row(k) = i THEN Sonar!Average(read(Sonar!Column(k))) ELSE sonarImage[k]
  BY <1>1, SonarTerms DEF Sonar!applySmoothingFilter
<1>3. ASSUME NEW c \in 0 .. n - 1
      PROVE  read(c) = [p \in Near(n, i, c) |-> Turned(original, n, p[1], p[2])]
  <2>1. ASSUME NEW p \in Near(n, i, c)
        PROVE  Sonar!Neighbour(p[1], p[2]) = Turned(original, n, p[1], p[2])
    <3>1. p[1] \in 0 .. n - 1 /\ p[2] \in 0 .. n - 1 /\ p[1] \in i - 1 .. i + 1
      BY DEF Near
    <3>2. CASE p[1] = i - 1
      <4>1. i > 0
        BY <1>1, <3>1, <3>2
      <4> QED
        BY <1>1, <3>1, <3>2, <4>1 DEF Sonar!Neighbour, RowSaved
    <3>3. CASE p[1] # i - 1
      <4>1. ~(p[1] < i)
        BY <1>1, <3>1, <3>3
      <4>2. Sonar!Neighbour(p[1], p[2]) = Pixel(sonarImage, n, p[1], p[2])
        BY <3>3, SonarTerms DEF Sonar!Neighbour
      <4> QED
        BY <1>1, <3>1, <4>1, <4>2 DEF SmoothedTo
    <3> QED
      BY <3>2, <3>3
  <2> QED
    BY <2>1
<1>4. SmoothedTo(i + 1, sonarImage', original, n)
  <2>1. SUFFICES ASSUME NEW r \in 0 .. n - 1, NEW c \in 0 .. n - 1
        PROVE  Pixel(sonarImage', n, r, c) =
                 IF r < i + 1 THEN Averaged(original, n, r, c) ELSE Turned(original, n, r, c)
    BY DEF SmoothedTo
  <2>2. Pixel(sonarImage', n, r, c) =
          IF r = i THEN Sonar!Average(read(c)) ELSE Pixel(sonarImage, n, r, c)
    <3> HIDE DEF read
    <3>1. /\ Sonar!At(r, c) \in 1 .. n * n
          /\ Sonar!Row(Sonar!At(r, c)) = r /\ Sonar!Column(Sonar!At(r, c)) = c
          /\ Pixel(sonarImage', n, r, c) = sonarImage'[Sonar!At(r, c)]
          /\ Pixel(sonarImage, n, r, c) = sonarImage[Sonar!At(r, c)]
      BY <1>1, PixelPlaces
    <3> QED
      BY <1>1, <1>2, <3>1
  <2>3. Sonar!Average(read(c)) = Averaged(original, n, i, c)
    BY <1>3 DEF Averaged
  <2>4. Pixel(sonarImage, n, r, c) =
          IF r < i THEN Averaged(original, n, r, c) ELSE Turned(original, n, r, c)
    BY <1>1 DEF SmoothedTo
  <2> QED
    BY <1>1, <2>2, <2>3, <2>4
<1>5. RowSaved(i + 1, originalPreviousRow', original, n)
  <2>1. ~(i < i) /\ i + 1 - 1 = i /\ \A c \in 0 .. n - 1 :
          Pixel(sonarImage, n, i, c) = Turned(original, n, i, c)
    BY <1>1 DEF SmoothedTo
  <2>2. \A c \in 0 .. n - 1 : originalPreviousRow'[c] = Pixel(sonarImage, n, i, c)
    BY SonarTerms DEF Sonar!applySmoothingFilter, Sonar!OriginalCurrentRow
  <2> QED
    BY <1>1, <2>1, <2>2 DEF RowSaved, Turned, Pixel
<1>6. CASE i + 1 < n /\ rowIndex' = i + 1 /\ phase' = "smooth"
  BY <1>1, <1>2, <1>4, <1>5, <1>6 DEF SonarInv
<1>7. CASE i + 1 = n /\ rowIndex' = 0 /\ phase' = "end"
  BY <1>1, <1>2, <1>4, <1>7 DEF SonarInv
<1> QED
  BY <1>1, <1>6, <1>7, RowsGoOn

\* Sonar image: whatever its size and its pixels, the image is first the original
\* turned by a quarter and at last the average of the turned neighbours of each pixel.
THEOREM ImageIsRight == InMemorySpec => []ImageRight
<1>1. Sonar!Init => SonarInv
  BY DEF Sonar!Init, SonarInv
<1>2. SonarInv /\ [Sonar!Next]_Sonar!sonarVars => SonarInv'
  <2>1. CASE Sonar!Next
    BY <2>1, ImagesAssumption, SonarFirst, SonarTransposes, SonarReverses, SonarSmooths DEF Sonar!Next
  <2>2. CASE UNCHANGED Sonar!sonarVars
    BY <2>2 DEF Sonar!sonarVars, SonarInv
  <2> QED
    BY <2>1, <2>2
<1>3. SonarInv => ImageRight
  <2> SUFFICES ASSUME SonarInv PROVE Sonar!ImageRight
    BY DEF ImageRight
  <2>1. ASSUME phase = "smooth", rowIndex = 0
        PROVE  \A r, c \in Sonar!Indices : sonarImage[Sonar!At(r, c)] = Sonar!Rotated(r, c)
    <3>1. SmoothedTo(0, sonarImage, original, sonarImageSize)
      BY <2>1 DEF SonarInv
    <3>2. \A r \in 0 .. sonarImageSize - 1 : ~(r < 0)
      OBVIOUS
    <3> QED
      BY <3>1, <3>2, SonarTerms DEF SmoothedTo
  <2>2. ASSUME phase = "end"
        PROVE  \A r, c \in Sonar!Indices : sonarImage[Sonar!At(r, c)] = Sonar!Smoothed(r, c)
    <3>1. SmoothedTo(sonarImageSize, sonarImage, original, sonarImageSize)
      BY <2>2 DEF SonarInv
    <3>2. sonarImageSize \in 2 .. 10
      BY <2>2 DEF SonarInv
    <3>3. \A r \in 0 .. sonarImageSize - 1 : r < sonarImageSize
      BY <3>2
    <3> QED
      BY <3>1, <3>3, SonarTerms DEF SmoothedTo
  <2> QED
    BY <2>1, <2>2 DEF Sonar!ImageRight
<1> QED
  BY <1>1, <1>2, <1>3, EachRunsAlone, PTL DEF Sonar!Spec

(***************************************************************************)
(* The students, of any number and any lines.                              *)
(***************************************************************************)
\* A set of numbers up to n has a greatest one, and Max is that.
LEMMA GreatestChosen ==
  ASSUME NEW n \in Nat, NEW S, S \subseteq 0 .. n, S # {}
  PROVE  Pupils!Max(S) \in S /\ \A m \in S : m <= Pupils!Max(S)
<1> DEFINE T == {n - m : m \in S}
<1>1. PICK t \in T : \A u \in T : t <= u
  <2>1. \A m \in S : m \in 0 .. n /\ n - m \in Nat
    OBVIOUS
  <2>2. T \subseteq Nat
    BY <2>1
  <2>3. T # {}
    OBVIOUS
  <2> HIDE DEF T
  <2> QED
    BY <2>2, <2>3, NatMin
<1>2. PICK m \in S : t = n - m
  OBVIOUS
<1>3. \A k \in S : m >= k
  <2> TAKE k \in S
  <2>1. n - k \in T /\ k \in 0 .. n /\ m \in 0 .. n
    OBVIOUS
  <2> QED
    BY <1>1, <1>2, <2>1
<1>4. Pupils!Max(S) \in S /\ \A k \in S : Pupils!Max(S) >= k
  BY <1>3 DEF Pupils!Max
<1> QED
  BY <1>4

\* The last of the first k lines that reached a field.
Latest(ls, k, field) == Pupils!Max({0} \cup {m \in 1 .. k : ls[m].read >= field})

LEMMA LatestStep ==
  ASSUME NEW k \in Nat, k > 0, NEW ls, NEW field
  PROVE  /\ Latest(ls, k, field) \in 0 .. k
         /\ ls[k].read >= field => Latest(ls, k, field) = k
         /\ ~(ls[k].read >= field) => Latest(ls, k, field) = Latest(ls, k - 1, field)
<1> DEFINE S(j) == {0} \cup {m \in 1 .. j : ls[m].read >= field}
<1>1. S(k) \subseteq 0 .. k /\ S(k) # {}
  OBVIOUS
<1>2. Pupils!Max(S(k)) \in S(k) /\ \A m \in S(k) : m <= Pupils!Max(S(k))
  BY <1>1, GreatestChosen
<1>3. Latest(ls, k, field) = Pupils!Max(S(k)) /\ Latest(ls, k - 1, field) = Pupils!Max(S(k - 1))
  BY DEF Latest
<1>4. ASSUME ls[k].read >= field PROVE Latest(ls, k, field) = k
  <2>1. k \in S(k)
    BY <1>4
  <2> HIDE DEF S
  <2> QED
    BY <1>1, <1>2, <1>3, <2>1
<1>5. ASSUME ~(ls[k].read >= field) PROVE S(k) = S(k - 1)
  <2>1. \A m : m \in 1 .. k <=> m \in 1 .. k - 1 \/ m = k
    OBVIOUS
  <2> QED
    BY <1>5, <2>1
<1> HIDE DEF S
<1> QED
  BY <1>1, <1>2, <1>3, <1>4, <1>5

\* Later lines do not matter.
LEMMA LatestOfPrefix ==
  ASSUME NEW k \in Nat, NEW ls, NEW longer, \A m \in 1 .. k : longer[m] = ls[m]
  PROVE  \A field : Latest(longer, k, field) = Latest(ls, k, field)
<1> TAKE field
<1>1. {m \in 1 .. k : longer[m].read >= field} = {m \in 1 .. k : ls[m].read >= field}
  OBVIOUS
<1> QED
  BY <1>1 DEF Latest

(***************************************************************************)
(* Student k has the data that the first k lines supplied.                 *)
(***************************************************************************)
RecordOK(k, details, ls) ==
  /\ Pupils!isValidMarks(details[k].marks)
  /\ k > 1 => ls[k].read >= 1
  /\ ls[k].read >= 1 => details[k].roll = ls[k].roll
  /\ Latest(ls, k, 2) > 0 => details[k].name = ls[Latest(ls, k, 2)].name
  /\ \A i \in 1 .. 3 : Latest(ls, k, i + 2) > 0 =>
       details[k].marks[i] = ls[Latest(ls, k, i + 2)].marks[i]

Students ==
  [roll  : {x.roll : x \in Lines \cup Garbage}, name : {x.name : x \in Lines \cup Garbage},
   marks : [1 .. 3 -> 0 .. 100]]

PupilsInv ==
  /\ step \in {"start", "read", "refused", "printed"}
  /\ studentDetails \in Seq(Students) /\ lines \in Seq(Lines)
  /\ Len(lines) = Len(studentDetails)
  /\ step = "start" => studentDetails = <<>>
  /\ step = "read" =>
       /\ local.roll \in {x.roll : x \in Lines \cup Garbage}
       /\ local.name \in {x.name : x \in Lines \cup Garbage}
       /\ studentDetails # <<>> => local = studentDetails[Len(studentDetails)]
  /\ \A j, k \in DOMAIN studentDetails :
       studentDetails[j].roll = studentDetails[k].roll => j = k
  /\ \A k \in DOMAIN studentDetails : RecordOK(k, studentDetails, lines)
  /\ step = "printed" =>
       /\ Len(printed) = totalStudents
       /\ \A j, k \in DOMAIN printed :
            printed[j].total >= printed[k].total => printed[j].stars >= printed[k].stars

\* A line that is accepted: the student is new, and its record is right.
LEMMA AcceptedIsRight ==
  ASSUME PupilsInv, step = "read", NEW line \in Lines, NEW s, s = Pupils!Scanned(line),
         ~Pupils!isRollNumberExist(s.roll), Pupils!isValidMarks(s.marks)
  PROVE  /\ s \in Students
         /\ \A k \in DOMAIN studentDetails : studentDetails[k].roll # s.roll
         /\ RecordOK(Len(studentDetails) + 1, Append(studentDetails, s), Append(lines, line))
<1> DEFINE n == Len(studentDetails)
           details == Append(studentDetails, s)
           ls == Append(lines, line)
<1>1. /\ studentDetails \in Seq(Students) /\ lines \in Seq(Lines) /\ n \in Nat
      /\ Len(lines) = n /\ DOMAIN studentDetails = 1 .. n
      /\ local.roll \in {x.roll : x \in Lines \cup Garbage}
      /\ local.name \in {x.name : x \in Lines \cup Garbage}
      /\ n # 0 => local = studentDetails[n]
      /\ \A k \in 1 .. n : RecordOK(k, studentDetails, lines)
  BY DEF PupilsInv
<1>2. s \in Students
  <2>1. s.marks \in [1 .. 3 -> 0 .. 100]
    BY DEF Pupils!isValidMarks, Pupils!Scanned
  <2>2. /\ s.roll \in {x.roll : x \in Lines \cup Garbage}
        /\ s.name \in {x.name : x \in Lines \cup Garbage}
    BY <1>1 DEF Pupils!Scanned
  <2>3. s = [roll |-> s.roll, name |-> s.name, marks |-> s.marks]
    BY DEF Pupils!Scanned
  <2> QED
    BY <2>1, <2>2, <2>3 DEF Students
<1>3. \A k \in DOMAIN studentDetails : studentDetails[k].roll # s.roll
  BY DEF Pupils!isRollNumberExist
<1>4. /\ details[n + 1] = s /\ ls[n + 1] = line
      /\ \A k \in 1 .. n : ls[k] = lines[k]
  BY <1>1, <1>2
<1> HIDE DEF details, ls
<1>5. n > 0 => line.read >= 1
  <2> SUFFICES ASSUME n > 0, ~(line.read >= 1) PROVE FALSE
    OBVIOUS
  <2>1. s.roll = studentDetails[n].roll
    BY <1>1 DEF Pupils!Scanned
  <2> QED
    BY <1>1, <1>3, <2>1
<1>6. line.read >= 1 => s.roll = line.roll
  BY DEF Pupils!Scanned
<1>7. ASSUME NEW field
      PROVE  /\ line.read >= field => Latest(ls, n + 1, field) = n + 1
             /\ ~(line.read >= field) => Latest(ls, n + 1, field) = Latest(lines, n, field)
  <2>1. n + 1 \in Nat /\ n + 1 > 0 /\ n + 1 - 1 = n
    BY <1>1
  <2>2. Latest(ls, n, field) = Latest(lines, n, field)
    <3>1. n \in Nat /\ \A m \in 1 .. n : ls[m] = lines[m]
      BY <1>1, <1>4
    <3> HIDE DEF n
    <3> QED
      BY ONLY <3>1, LatestOfPrefix
  <2> QED
    BY <1>4, <2>1, <2>2, LatestStep
<1>8. ASSUME NEW field
      PROVE  /\ Latest(lines, n, field) \in 0 .. n
             /\ n = 0 => Latest(lines, n, field) = 0
             /\ Latest(lines, n, field) > 0 =>
                  ls[Latest(lines, n, field)] = lines[Latest(lines, n, field)]
  <2>1. CASE n = 0
    <3>1. {0} \cup {m \in 1 .. 0 : lines[m].read >= field} \subseteq 0 .. 0
      OBVIOUS
    <3>2. Latest(lines, 0, field) \in {0} \cup {m \in 1 .. 0 : lines[m].read >= field}
      BY <3>1, GreatestChosen DEF Latest
    <3>3. Latest(lines, 0, field) = 0
      BY <3>1, <3>2
    <3> QED
      BY <2>1, <3>3
  <2>2. CASE n > 0
    <3>1. Latest(lines, n, field) \in 0 .. n
      BY <1>1, <2>2, LatestStep
    <3> QED
      BY <1>4, <2>2, <3>1
  <2> QED
    BY <1>1, <2>1, <2>2
<1>9. Latest(ls, n + 1, 2) > 0 => s.name = ls[Latest(ls, n + 1, 2)].name
  <2>1. CASE line.read >= 2
    BY <1>4, <1>7, <2>1 DEF Pupils!Scanned
  <2>2. CASE ~(line.read >= 2) /\ Latest(ls, n + 1, 2) > 0
    <3>1. Latest(ls, n + 1, 2) = Latest(lines, n, 2)
      BY <1>7, <2>2
    <3>2. n \in 1 .. n /\ n # 0
      BY <1>1, <1>8, <2>2, <3>1
    <3>3. studentDetails[n].name = lines[Latest(lines, n, 2)].name
      BY <1>1, <2>2, <3>1, <3>2 DEF RecordOK
    <3>4. s.name = studentDetails[n].name
      BY <1>1, <2>2, <3>2 DEF Pupils!Scanned
    <3> QED
      BY <1>8, <2>2, <3>1, <3>3, <3>4
  <2> QED
    BY <2>1, <2>2
<1>10. ASSUME NEW i \in 1 .. 3, Latest(ls, n + 1, i + 2) > 0
       PROVE  s.marks[i] = ls[Latest(ls, n + 1, i + 2)].marks[i]
  <2>1. CASE line.read >= i + 2
    BY <1>4, <1>7, <2>1 DEF Pupils!Scanned
  <2>2. CASE ~(line.read >= i + 2)
    <3>1. Latest(ls, n + 1, i + 2) = Latest(lines, n, i + 2)
      BY <1>7, <2>2
    <3>2. n \in 1 .. n /\ n # 0
      BY <1>1, <1>8, <1>10, <3>1
    <3>3. studentDetails[n].marks[i] = lines[Latest(lines, n, i + 2)].marks[i]
      BY <1>1, <1>10, <3>1, <3>2 DEF RecordOK
    <3>4. s.marks[i] = studentDetails[n].marks[i]
      BY <1>1, <2>2, <3>2 DEF Pupils!Scanned
    <3> QED
      BY <1>8, <1>10, <3>1, <3>3, <3>4
  <2> QED
    BY <2>1, <2>2
<1>11. RecordOK(n + 1, details, ls)
  <2>1. n + 1 > 1 => n > 0
    BY <1>1
  <2> QED
    BY <1>4, <1>5, <1>6, <1>9, <1>10, <2>1 DEF RecordOK
<1> QED
  BY <1>2, <1>3, <1>11 DEF details, ls

\* A student more keeps the records of the others.
LEMMA RecordsStay ==
  ASSUME NEW n \in Nat, NEW k \in 1 .. n, NEW details, NEW ls, NEW details2, NEW ls2,
         \A m \in 1 .. n : details2[m] = details[m] /\ ls2[m] = ls[m],
         RecordOK(k, details, ls)
  PROVE  RecordOK(k, details2, ls2)
<1>1. \A field : Latest(ls2, k, field) = Latest(ls, k, field)
  BY LatestOfPrefix
<1>2. \A field : Latest(ls, k, field) \in 0 .. k
  BY LatestStep
<1>3. \A field : Latest(ls, k, field) > 0 => ls2[Latest(ls, k, field)] = ls[Latest(ls, k, field)]
  BY <1>2
<1> QED
  BY <1>1, <1>3 DEF RecordOK

\* A line is read.
LEMMA PupilsRead ==
  ASSUME PupilsInv, NEW line \in Lines, Pupils!readStudent(line)
  PROVE  PupilsInv'
<1> DEFINE s == Pupils!Scanned(line)
           n == Len(studentDetails)
<1>1. /\ step = "read" /\ local' = s /\ totalStudents' = totalStudents /\ printed' = printed
      /\ studentDetails \in Seq(Students) /\ lines \in Seq(Lines) /\ n \in Nat
      /\ Len(lines) = n /\ DOMAIN studentDetails = 1 .. n
      /\ \A j, k \in 1 .. n : studentDetails[j].roll = studentDetails[k].roll => j = k
      /\ \A k \in 1 .. n : RecordOK(k, studentDetails, lines)
  BY DEF PupilsInv, Pupils!readStudent
<1>2. CASE step' = "refused" /\ UNCHANGED <<studentDetails, lines>>
  BY <1>1, <1>2 DEF PupilsInv
<1>3. CASE /\ ~Pupils!isRollNumberExist(s.roll) /\ Pupils!isValidMarks(s.marks)
           /\ studentDetails' = Append(studentDetails, s) /\ lines' = Append(lines, line)
           /\ step' = step
  <2> HIDE DEF s
  <2>1. /\ s \in Students
        /\ \A k \in 1 .. n : studentDetails[k].roll # s.roll
        /\ RecordOK(n + 1, studentDetails', lines')
    BY <1>1, <1>3, AcceptedIsRight DEF s
  <2>2. /\ studentDetails' \in Seq(Students) /\ lines' \in Seq(Lines)
        /\ Len(studentDetails') = n + 1 /\ Len(lines') = n + 1
        /\ DOMAIN studentDetails' = 1 .. n + 1 /\ studentDetails'[n + 1] = s
        /\ \A m \in 1 .. n : studentDetails'[m] = studentDetails[m] /\ lines'[m] = lines[m]
    BY <1>1, <1>3, <2>1
  <2>3. \A k \in 1 .. n + 1 : RecordOK(k, studentDetails', lines')
    <3> TAKE k \in 1 .. n + 1
    <3>1. CASE k = n + 1
      BY <2>1, <3>1
    <3>2. CASE k \in 1 .. n
      BY <1>1, <2>2, <3>2, RecordsStay
    <3> QED
      BY <1>1, <3>1, <3>2
  <2>4. \A j, k \in 1 .. n + 1 : studentDetails'[j].roll = studentDetails'[k].roll => j = k
    BY <1>1, <2>1, <2>2
  <2>5. /\ local'.roll \in {x.roll : x \in Lines \cup Garbage}
        /\ local'.name \in {x.name : x \in Lines \cup Garbage}
    BY <1>1, <2>1 DEF Students
  <2> QED
    BY <1>1, <1>3, <2>2, <2>3, <2>4, <2>5 DEF PupilsInv
<1> QED
  BY <1>2, <1>3 DEF Pupils!readStudent

\* More marks never give fewer stars.
LEMMA StarsRise ==
  ASSUME NEW t \in Nat, NEW u \in Nat, t >= u
  PROVE  Pupils!calculatePerformance(Pupils!calculateGrade(t)) >=
         Pupils!calculatePerformance(Pupils!calculateGrade(u))
<1>1. ASSUME NEW v \in Nat
      PROVE  Pupils!calculatePerformance(Pupils!calculateGrade(v)) =
               IF v >= 255 THEN 5 ELSE IF v >= 210 THEN 4 ELSE IF v >= 150 THEN 3
               ELSE IF v >= 105 THEN 2 ELSE 0
  <2>1. CASE v >= 255
    BY <2>1, Z3 DEF Pupils!calculatePerformance, Pupils!calculateGrade
  <2>2. CASE v >= 210 /\ v < 255
    BY <2>2, Z3 DEF Pupils!calculatePerformance, Pupils!calculateGrade
  <2>3. CASE v >= 150 /\ v < 210
    BY <2>3, Z3 DEF Pupils!calculatePerformance, Pupils!calculateGrade
  <2>4. CASE v >= 105 /\ v < 150
    BY <2>4, Z3 DEF Pupils!calculatePerformance, Pupils!calculateGrade
  <2>5. CASE v < 105
    BY <2>5, Z3 DEF Pupils!calculatePerformance, Pupils!calculateGrade
  <2> QED
    BY <2>1, <2>2, <2>3, <2>4, <2>5
<1> QED
  BY <1>1

\* The table is printed.
LEMMA PupilsPrinted ==
  ASSUME PupilsInv, Pupils!printStudentDetails
  PROVE  PupilsInv'
<1> DEFINE points(k) == Pupils!calculateTotalMarks(studentDetails[k])
<1>1. /\ step = "read" /\ step' = "printed" /\ totalStudents = Len(studentDetails)
      /\ UNCHANGED <<totalStudents, local, studentDetails, lines>>
      /\ studentDetails \in Seq(Students)
  BY DEF PupilsInv, Pupils!printStudentDetails
<1>2. \A k \in 1 .. totalStudents : points(k) \in Nat
  <2> TAKE k \in 1 .. totalStudents
  <2>1. studentDetails[k] \in Students
    BY <1>1
  <2>2. /\ studentDetails[k].marks[1] \in 0 .. 100 /\ studentDetails[k].marks[2] \in 0 .. 100
        /\ studentDetails[k].marks[3] \in 0 .. 100
    <3>1. studentDetails[k].marks \in [1 .. 3 -> 0 .. 100]
      BY ONLY <2>1 DEF Students
    <3>2. 1 \in 1 .. 3 /\ 2 \in 1 .. 3 /\ 3 \in 1 .. 3
      OBVIOUS
    <3> QED
      BY <3>1, <3>2, Zenon
  <2>3. \A i, j, m \in 0 .. 100 : i + j + m \in Nat
    OBVIOUS
  <2>4. Pupils!calculateTotalMarks(studentDetails[k]) \in Nat
    BY ONLY <2>2, <2>3 DEF Pupils!calculateTotalMarks
  <2> QED
    BY <2>4
<1>3. /\ DOMAIN printed' = 1 .. totalStudents
      /\ \A k \in 1 .. totalStudents :
           /\ printed'[k].total = points(k)
           /\ printed'[k].stars = Pupils!calculatePerformance(Pupils!calculateGrade(points(k)))
  BY DEF Pupils!printStudentDetails
<1>4. Len(printed') = totalStudents
  BY <1>1, <1>3
<1> HIDE DEF points
<1>5. \A j, k \in DOMAIN printed' :
        printed'[j].total >= printed'[k].total => printed'[j].stars >= printed'[k].stars
  BY <1>2, <1>3, StarsRise
<1> QED
  BY <1>1, <1>4, <1>5 DEF PupilsInv

\* Students: whatever the lines and what the stack held before, roll numbers differ,
\* marks are valid, each student has its own data as far as its line was converted,
\* and more marks never get fewer stars.
THEOREM RecordsAreRight == InMemorySpec => []RecordsRight
<1>1. Pupils!Init => PupilsInv
  BY DEF Pupils!Init, PupilsInv
<1>2. PupilsInv /\ [Pupils!Next]_Pupils!studentVars => PupilsInv'
  <2> SUFFICES ASSUME PupilsInv, [Pupils!Next]_Pupils!studentVars PROVE PupilsInv'
    OBVIOUS
  <2>1. ASSUME NEW n \in 0 .. MaxStudents + 1, Pupils!inputTotalStudents(n) PROVE PupilsInv'
    <3>1. /\ studentDetails = <<>> /\ lines = <<>>
          /\ studentDetails' = <<>> /\ lines' = <<>> /\ local' \in Garbage
          /\ step' \in {"read", "refused"}
      BY <2>1 DEF PupilsInv, Pupils!inputTotalStudents
    <3> QED
      BY <3>1 DEF PupilsInv
  <2>2. CASE UNCHANGED Pupils!studentVars
    BY <2>2 DEF Pupils!studentVars, PupilsInv
  <2> QED
    BY <2>1, <2>2, PupilsRead, PupilsPrinted DEF Pupils!Next
<1>3. PupilsInv => RecordsRight
  BY DEF PupilsInv, RecordOK, Latest, RecordsRight, Pupils!RecordsRight, Pupils!Origin
<1> QED
  BY <1>1, <1>2, <1>3, EachRunsAlone, PTL DEF Pupils!Spec

(***************************************************************************)
(* The calculator's two stacks, for any expressions and any width of int.  *)
(***************************************************************************)
\* What the operands are does not matter here.
Stacked(s) == \E S : s \in Seq(S)

LEMMA PushPop ==
  ASSUME NEW s, Stacked(s)
  PROVE  /\ Len(s) \in Nat /\ s = <<>> <=> Len(s) = 0
         /\ \A x : Stacked(Append(s, x)) /\ Len(Append(s, x)) = Len(s) + 1
         /\ \A m \in 0 .. Len(s) : Stacked(SubSeq(s, 1, m)) /\ Len(SubSeq(s, 1, m)) = m
<1>1. PICK S : s \in Seq(S)
  BY DEF Stacked
<1>2. Len(s) \in Nat /\ s = <<>> <=> Len(s) = 0
  BY <1>1
<1>3. ASSUME NEW x PROVE Stacked(Append(s, x)) /\ Len(Append(s, x)) = Len(s) + 1
  <2>1. s \in Seq(S \cup {x}) /\ x \in S \cup {x}
    BY <1>1
  <2>2. Append(s, x) \in Seq(S \cup {x}) /\ Len(Append(s, x)) = Len(s) + 1
    BY <2>1
  <2> QED
    BY <2>2 DEF Stacked
<1>4. ASSUME NEW m \in 0 .. Len(s) PROVE Stacked(SubSeq(s, 1, m)) /\ Len(SubSeq(s, 1, m)) = m
  <2>1. SubSeq(s, 1, m) \in Seq(S) /\ Len(SubSeq(s, 1, m)) = m
    BY <1>1, <1>2, SubSeqProperties
  <2> QED
    BY <2>1 DEF Stacked
<1> QED
  BY <1>2, <1>3, <1>4

\* The operators that wait get stronger towards the top.
Stronger(ops) ==
  \A k \in 1 .. Len(ops) - 1 : Calc!getPrecedence(ops[k]) < Calc!getPrecedence(ops[k + 1])

CalcInv ==
  /\ cpc \in {"idle", "scan", "drain", "done", "error", "trap"}
  /\ Stacked(operandStack) /\ operatorStack \in Seq(Calc!Operators)
  /\ expectedChar \in BOOLEAN
  /\ cpc = "idle" => operandStack = <<>> /\ operatorStack = <<>> /\ expectedChar = TRUE
  /\ cpc \in {"scan", "drain"} =>
       Len(operandStack) = Len(operatorStack) + (IF expectedChar THEN 0 ELSE 1)
  /\ Stronger(operatorStack)
  /\ cpc = "done" => operandStack = <<>> /\ operatorStack = <<>>

LEMMA CalcStops ==
  ASSUME CalcInv, NEW how \in {"drain", "error", "trap"}, Calc!Stop(how),
         how = "drain" => cpc = "scan"
  PROVE  CalcInv'
BY DEF CalcInv, Calc!Stop

\* An operator is applied to the operands on top.
LEMMA CalcEvaluates ==
  ASSUME CalcInv, cpc \in {"scan", "drain"}, operatorStack # <<>>, Calc!evaluateTopOperations
  PROVE  CalcInv'
<1> DEFINE n == Len(operandStack)
           m == Len(operatorStack)
<1>1. CASE Calc!Stop("error") \/ Calc!Stop("trap")
  BY <1>1, CalcStops
<1>2. CASE /\ ~(n < 2)
           /\ \E v : operandStack' = Append(SubSeq(operandStack, 1, n - 2), v)
           /\ operatorStack' = Calc!Front(operatorStack)
           /\ cpc' = cpc /\ expectedChar' = expectedChar
  <2>1. /\ n \in Nat /\ m \in Nat /\ m # 0 /\ n - 2 \in 0 .. n
        /\ n = m + (IF expectedChar THEN 0 ELSE 1)
    BY <1>2, PushPop DEF CalcInv
  <2>2. Stacked(operandStack') /\ Len(operandStack') = n - 1
    <3>1. PICK v : operandStack' = Append(SubSeq(operandStack, 1, n - 2), v)
      BY <1>2
    <3>2. Stacked(SubSeq(operandStack, 1, n - 2)) /\ Len(SubSeq(operandStack, 1, n - 2)) = n - 2
      BY <2>1, PushPop DEF CalcInv
    <3>3. Stacked(operandStack') /\ Len(operandStack') = n - 2 + 1
      BY <3>1, <3>2, PushPop
    <3> QED
      BY <2>1, <3>3
  <2>3. /\ operatorStack' \in Seq(Calc!Operators) /\ Len(operatorStack') = m - 1
        /\ \A k \in 1 .. m - 1 : operatorStack'[k] = operatorStack[k]
    <3>1. operatorStack \in Seq(Calc!Operators) /\ operatorStack' = SubSeq(operatorStack, 1, m - 1)
      BY <1>2 DEF CalcInv, Calc!Front
    <3>2. /\ m - 1 \in 0 .. m /\ 1 \in 1 .. m /\ m \in Nat
          /\ m - 1 + 1 - 1 = m - 1 /\ m - 1 - 1 + 1 = m - 1
      BY <2>1
    <3>3. ASSUME NEW s \in Seq(Calc!Operators), Len(s) = m
          PROVE  /\ SubSeq(s, 1, m - 1) \in Seq(Calc!Operators) /\ Len(SubSeq(s, 1, m - 1)) = m - 1
                 /\ \A k \in 1 .. m - 1 : SubSeq(s, 1, m - 1)[k] = s[k]
      <4> HIDE DEF m
      <4> QED
        BY ONLY <3>2, <3>3
    <3> QED
      BY ONLY <3>1, <3>3
  <2>4. Stronger(operatorStack')
    BY <2>1, <2>3 DEF CalcInv, Stronger
  <2>5. Len(operandStack') = Len(operatorStack') + (IF expectedChar THEN 0 ELSE 1)
    BY <2>1, <2>2, <2>3
  <2> QED
    BY <1>2, <2>2, <2>3, <2>4, <2>5 DEF CalcInv
<1> QED
  BY <1>1, <1>2 DEF Calc!evaluateTopOperations

\* A number is read, or its signs.
LEMMA CalcReadsNumber ==
  ASSUME CalcInv, Calc!readNumber
  PROVE  CalcInv'
<1>1. CASE Calc!Stop("error")
  BY <1>1, CalcStops
<1>2. CASE UNCHANGED <<cpc, operandStack, operatorStack, expectedChar>>
  BY <1>2 DEF CalcInv
<1>3. CASE /\ cpc = "scan" /\ expectedChar
           /\ \E v : operandStack' = Append(operandStack, v)
           /\ expectedChar' = FALSE /\ UNCHANGED <<cpc, operatorStack>>
  <2>1. PICK v : operandStack' = Append(operandStack, v)
    BY <1>3
  <2>2. Stacked(operandStack') /\ Len(operandStack') = Len(operandStack) + 1
    BY <2>1, PushPop DEF CalcInv
  <2>3. Len(operandStack) = Len(operatorStack) /\ Len(operatorStack) \in Nat
    BY <1>3 DEF CalcInv
  <2> QED
    BY <1>3, <2>2, <2>3 DEF CalcInv
<1> QED
  BY <1>1, <1>2, <1>3 DEF Calc!readNumber, Calc!Scanning

\* An operator that is not weaker than the one on top is put there.
LEMMA CalcReadsOperator ==
  ASSUME CalcInv, Calc!readOperator
  PROVE  CalcInv'
<1> DEFINE m == Len(operatorStack)
<1>1. CASE Calc!Stop("error")
  BY <1>1, CalcStops
<1>2. CASE /\ cpc = "scan" /\ ~expectedChar /\ Calc!Char \in Calc!Operators /\ ~Calc!BindsFirst
           /\ operatorStack' = Append(operatorStack, Calc!Char)
           /\ expectedChar' = TRUE /\ UNCHANGED <<cpc, operandStack>>
  <2> HIDE DEF Calc!Char
  <2>1. operatorStack \in Seq(Calc!Operators) /\ m \in Nat
    BY DEF CalcInv
  <2>2. /\ operatorStack' \in Seq(Calc!Operators) /\ Len(operatorStack') = m + 1
        /\ operatorStack'[m + 1] = Calc!Char
        /\ \A k \in 1 .. m : operatorStack'[k] = operatorStack[k]
    BY <1>2, <2>1, AppendProperties
  <2>3. m > 0 => Calc!getPrecedence(operatorStack[m]) < Calc!getPrecedence(Calc!Char)
    BY <1>2, <2>1 DEF Calc!BindsFirst, Calc!Last, Calc!getPrecedence
  <2>4. Stronger(operatorStack')
    <3>1. SUFFICES ASSUME NEW k \in 1 .. m
          PROVE  Calc!getPrecedence(operatorStack'[k]) < Calc!getPrecedence(operatorStack'[k + 1])
      BY <2>1, <2>2 DEF Stronger
    <3>2. CASE k = m
      BY <2>1, <2>2, <2>3, <3>2
    <3>3. CASE k \in 1 .. m - 1
      BY <2>1, <2>2, <3>3 DEF CalcInv, Stronger
    <3> QED
      BY <2>1, <3>2, <3>3
  <2> QED
    BY <1>2, <2>1, <2>2, <2>4 DEF CalcInv
<1> QED
  BY <1>1, <1>2 DEF Calc!readOperator, Calc!Scanning

\* Calculator: whatever the expression, the operands and the operators that wait fit
\* each other, the operators get stronger towards the top, and nothing is left on the
\* stacks when the result is out.
THEOREM StacksFit == InMemorySpec => []Calc!StacksOK
<1>1. Calc!Init => CalcInv
  <2>1. Stacked(<<>>) /\ <<>> \in Seq(Calc!Operators) /\ Stronger(<<>>) /\ Len(<<>>) = 0
    BY DEF Stacked, Stronger
  <2> QED
    BY <2>1 DEF Calc!Init, CalcInv
<1>2. CalcInv /\ [Calc!Next]_Calc!calcVars => CalcInv'
  <2> SUFFICES ASSUME CalcInv, [Calc!Next]_Calc!calcVars PROVE CalcInv'
    OBVIOUS
  <2>1. CASE Calc!readExpression
    BY <2>1 DEF CalcInv, Calc!readExpression
  <2>2. CASE Calc!reduce
    BY <2>2, CalcEvaluates DEF Calc!reduce, Calc!Scanning, Calc!BindsFirst
  <2>3. CASE Calc!drain
    BY <2>3, CalcEvaluates DEF Calc!drain
  <2>4. CASE Calc!endOfExpression
    BY <2>4, CalcStops DEF Calc!endOfExpression
  <2>5. CASE Calc!popResult
    <3>1. CASE Calc!Stop("error")
      BY <3>1, CalcStops
    <3>2. CASE /\ cpc = "drain" /\ operatorStack = <<>> /\ operandStack # <<>>
               /\ operandStack' = SubSeq(operandStack, 1, Len(operandStack) - 1)
               /\ cpc' = "done" /\ UNCHANGED <<operatorStack, expectedChar>>
      <4>1. /\ Stacked(operandStack) /\ Len(operandStack) \in {0, 1}
            /\ Len(operandStack) \in Nat /\ Len(operandStack) # 0
        BY <3>2, PushPop DEF CalcInv
      <4>2. Stacked(operandStack') /\ Len(operandStack') = 0
        BY <3>2, <4>1, PushPop
      <4>3. operandStack' = <<>>
        BY <4>2, PushPop
      <4> QED
        BY <3>2, <4>2, <4>3 DEF CalcInv
    <3> QED
      BY <2>5, <3>1, <3>2 DEF Calc!popResult, Calc!Front
  <2>6. CASE UNCHANGED Calc!calcVars
    BY <2>6 DEF Calc!calcVars, CalcInv
  <2> QED
    BY <2>1, <2>2, <2>3, <2>4, <2>5, <2>6, CalcReadsNumber, CalcReadsOperator DEF Calc!Next
<1>3. CalcInv => Calc!StacksOK
  BY DEF CalcInv, Stronger, Calc!StacksOK
<1> QED
  BY <1>1, <1>2, <1>3, EachRunsAlone, PTL DEF Calc!Spec
(***************************************************************************)
(* The players: the binary search for a team.                              *)
(***************************************************************************)
\* What is left of the teams after i turns: all teams of the name, and one place
\* less with every turn, or the team alone.
LeftAfter(i, name, x) ==
  /\ x \in Int \X Int
  /\ 1 <= x[1] /\ x[2] <= Len(Teams)
  /\ \A t \in 1 .. Len(Teams) : Teams[t] = name => t \in x[1] .. x[2]
  /\ x[1] <= x[2] => \/ x[1] = x[2] /\ Teams[x[1]] = name
                     \/ x[2] - x[1] < Len(Teams) - i

LEMMA TeamsInOrder ==
  /\ Len(Teams) \in Nat /\ Icc!TeamIds = 1 .. Len(Teams)
  /\ \A t \in 1 .. Len(Teams) : Teams[t] \in Int
  /\ \A t, u \in 1 .. Len(Teams) : t < u => Teams[t] < Teams[u]
  /\ \A t, u \in 1 .. Len(Teams) : Teams[t] = Teams[u] => t = u
<1>1. /\ Len(Teams) \in Nat /\ DOMAIN Teams = 1 .. Len(Teams)
      /\ \A t \in 1 .. Len(Teams) : Teams[t] \in Int
  BY TeamsAssumption
<1>2. \A t, u \in 1 .. Len(Teams) : t < u => Teams[t] < Teams[u]
  BY <1>1, TeamsAssumption
<1>3. ASSUME NEW t \in 1 .. Len(Teams), NEW u \in 1 .. Len(Teams), Teams[t] = Teams[u] PROVE t = u
  <2>1. Teams[t] \in Int /\ Teams[u] \in Int /\ ~(Teams[t] < Teams[u]) /\ ~(Teams[u] < Teams[t])
    BY <1>1, <1>3
  <2>2. ~(t < u) /\ ~(u < t)
    BY <1>2, <2>1
  <2> QED
    BY <1>1, <2>2
<1> QED
  BY <1>1, <1>2, <1>3 DEF Icc!TeamIds

LEMMA NarrowedPair ==
  ASSUME NEW name, NEW x \in Int \X Int
  PROVE  Icc!Narrowed(x, name) \in Int \X Int
<1>1. x[1] \in Int /\ x[2] \in Int /\ x[1] + (x[2] - x[1]) \div 2 \in Int
  OBVIOUS
<1> QED
  BY <1>1 DEF Icc!Narrowed

LEMMA NarrowedLeft ==
  ASSUME NEW name \in Int, NEW i \in Nat, NEW x, LeftAfter(i, name, x)
  PROVE  LeftAfter(i + 1, name, Icc!Narrowed(x, name))
<1> DEFINE n   == Len(Teams)
           lo  == x[1]
           hi  == x[2]
           mid == lo + (hi - lo) \div 2
<1>1. /\ x \in Int \X Int /\ lo \in Int /\ hi \in Int /\ n \in Nat
      /\ 1 <= lo /\ hi <= n
      /\ \A t \in 1 .. n : Teams[t] = name => t \in lo .. hi
      /\ lo <= hi => (lo = hi /\ Teams[lo] = name) \/ hi - lo < n - i
  BY TeamsInOrder DEF LeftAfter
<1>a. Icc!Narrowed(x, name) =
        IF lo > hi THEN x
        ELSE IF Teams[mid] = name THEN <<mid, mid>>
        ELSE IF Teams[mid] > name THEN <<lo, mid - 1>>
        ELSE <<mid + 1, hi>>
  BY DEF Icc!Narrowed
<1>2. CASE lo > hi
  <2>1. Icc!Narrowed(x, name) = x
    BY <1>2, <1>a
  <2> QED
    BY <1>1, <1>2, <2>1 DEF LeftAfter
<1>3. CASE lo <= hi
  <2>1. mid \in lo .. hi /\ mid \in 1 .. n
    BY <1>1, <1>3
  <2>2. Teams[mid] \in Int
    BY <2>1, TeamsInOrder
  <2> HIDE DEF mid
  <2>a. ~(lo > hi)
    BY <1>1, <1>3
  <2>3. CASE Teams[mid] = name
    <3>1. Icc!Narrowed(x, name) = <<mid, mid>>
      BY ONLY <1>a, <2>a, <2>3
    <3>2. \A t \in 1 .. n : Teams[t] = name => t = mid
      BY <2>1, <2>3, TeamsInOrder
    <3> QED
      BY <2>1, <2>3, <3>1, <3>2 DEF LeftAfter
  <2>4. CASE Teams[mid] > name
    <3>1. Icc!Narrowed(x, name) = <<lo, mid - 1>>
      <4>1. Teams[mid] # name
        BY ONLY <2>2, <2>4, name \in Int
      <4> QED
        BY ONLY <1>a, <2>a, <2>4, <4>1
    <3>2. ASSUME NEW t \in 1 .. n, Teams[t] = name PROVE t \in lo .. mid - 1
      <4>1. t \in lo .. hi /\ Teams[t] < Teams[mid]
        BY <1>1, <2>4, <3>2
      <4>2. ~(mid < t) /\ t # mid
        BY <2>1, <2>2, <2>4, <3>2, TeamsInOrder
      <4> QED
        BY <2>1, <4>1, <4>2
    <3>3. lo <= mid - 1 => mid - 1 - lo < n - (i + 1)
      <4>1. lo # hi => hi - lo < n - i
        BY <1>1, <1>3
      <4> QED
        BY <1>1, <2>1, <4>1
    <3> QED
      BY <1>1, <2>1, <3>1, <3>2, <3>3 DEF LeftAfter
  <2>5. CASE Teams[mid] < name
    <3>1. Icc!Narrowed(x, name) = <<mid + 1, hi>>
      <4>1. Teams[mid] # name /\ ~(Teams[mid] > name)
        BY ONLY <2>2, <2>5, name \in Int
      <4> QED
        BY ONLY <1>a, <2>a, <4>1
    <3>2. ASSUME NEW t \in 1 .. n, Teams[t] = name PROVE t \in mid + 1 .. hi
      <4>1. t \in lo .. hi /\ Teams[mid] < Teams[t]
        BY <1>1, <2>5, <3>2
      <4>2. ~(t < mid) /\ t # mid
        BY <2>1, <2>2, <2>5, <3>2, TeamsInOrder
      <4> QED
        BY <2>1, <4>1, <4>2
    <3>3. mid + 1 <= hi => hi - (mid + 1) < n - (i + 1)
      <4>1. lo # hi => hi - lo < n - i
        BY <1>1, <1>3
      <4> QED
        BY <1>1, <2>1, <4>1
    <3> QED
      BY <1>1, <2>1, <3>1, <3>2, <3>3 DEF LeftAfter
  <2> QED
    BY <2>2, <2>3, <2>4, <2>5
<1> QED
  BY <1>1, <1>2, <1>3

\* findTeamIndex finds the team of the name, or none if there is none.
LEMMA FindsTeam ==
  ASSUME NEW name \in Int
  PROVE  /\ Icc!findTeamIndex(name) \in 0 .. Len(Teams)
         /\ Icc!findTeamIndex(name) # 0 => Teams[Icc!findTeamIndex(name)] = name
         /\ \A u \in 1 .. Len(Teams) : Teams[u] = name => Icc!findTeamIndex(name) = u
<1> DEFINE n == Len(Teams)
           R(f) == f = [i \in 0 .. n |-> IF i = 0 THEN <<1, n>> ELSE Icc!Narrowed(f[i - 1], name)]
           g == CHOOSE f : R(f)
           V == Int \X Int
           v == <<1, n>>
           turn == [i \in 1 .. n |-> [x \in V |-> Icc!Narrowed(x, name)]]
<1>1. n \in Nat
  BY TeamsInOrder
<1>2. Icc!findTeamIndex(name) = IF g[n][1] <= g[n][2] THEN g[n][1] ELSE 0
  BY DEF Icc!findTeamIndex, Icc!teamCount
<1> HIDE DEF n
<1>3. PICK f : Computes(f, V, v, n, turn)
  <2>1. \A x \in V : Icc!Narrowed(x, name) \in V
    BY NarrowedPair
  <2>2. v \in V
    BY <1>1
  <2>3. \A i \in 1 .. n : turn[i] \in [V -> V]
    BY <2>1
  <2> HIDE DEF turn, V, v
  <2>4. Steps(V, v, n, turn)
    BY <1>1, <2>2, <2>3 DEF Steps
  <2> QED
    BY <2>4, RecursionExists
<1>4. R(f)
  <2>1. f \in [0 .. n -> V] /\ f[0] = v /\ \A i \in 1 .. n : f[i] = turn[i][f[i - 1]]
    BY <1>3 DEF Computes
  <2>2. \A i \in 1 .. n : f[i - 1] \in V
    BY <1>1, <2>1
  <2>3. \A i \in 1 .. n : f[i] = Icc!Narrowed(f[i - 1], name)
    BY <2>1, <2>2
  <2>4. \A i \in 0 .. n : i = 0 \/ (i # 0 /\ i \in 1 .. n)
    BY <1>1
  <2>5. \A i \in 0 .. n : f[i] = IF i = 0 THEN <<1, n>> ELSE Icc!Narrowed(f[i - 1], name)
    BY Zenon, <2>1, <2>3, <2>4
  <2>6. f = [i \in 0 .. n |-> f[i]]
    BY <2>1
  <2> QED
    BY Zenon, <2>5, <2>6
<1>5. R(g)
  <2> HIDE DEF R
  <2> QED
    BY <1>4
<1> HIDE DEF g
<1>6. g[0] = <<1, n>> /\ \A i \in 1 .. n : g[i] = Icc!Narrowed(g[i - 1], name)
  <2> DEFINE b(i) == IF i = 0 THEN <<1, n>> ELSE Icc!Narrowed(g[i - 1], name)
  <2>1. g = [i \in 0 .. n |-> b(i)]
    BY <1>5
  <2> HIDE DEF b
  <2>2. \A i \in 0 .. n : g[i] = b(i)
    BY Zenon, <2>1
  <2>3. 0 \in 0 .. n /\ \A i \in 1 .. n : i \in 0 .. n /\ i # 0
    BY <1>1
  <2> QED
    BY Zenon, <2>2, <2>3 DEF b
<1> DEFINE U == {i \in 0 .. n : LeftAfter(i, name, g[i])}
<1>7. 0 \in U
  <2>1. LeftAfter(0, name, <<1, n>>)
    BY <1>1 DEF LeftAfter, n
  <2> QED
    BY <1>1, <1>6, <2>1
<1>8. \A i \in 1 .. n : i - 1 \in U => i \in U
  <2> SUFFICES ASSUME NEW i \in 1 .. n, i - 1 \in U PROVE i \in U
    OBVIOUS
  <2>1. i - 1 \in Nat /\ LeftAfter(i - 1, name, g[i - 1]) /\ (i - 1) + 1 = i /\ i \in 0 .. n
    BY <1>1
  <2>2. LeftAfter((i - 1) + 1, name, g[i])
    BY <1>6, <2>1, NarrowedLeft
  <2> QED
    BY <2>1, <2>2
<1>9. LeftAfter(n, name, g[n])
  <2> HIDE DEF U
  <2>1. 0 .. n \subseteq U
    BY <1>1, <1>7, <1>8, UpTo
  <2> QED
    BY <1>1, <2>1 DEF U
<1>10. /\ g[n][1] \in Int /\ g[n][2] \in Int /\ 1 <= g[n][1] /\ g[n][2] <= n
       /\ \A t \in 1 .. n : Teams[t] = name => t \in g[n][1] .. g[n][2]
       /\ g[n][1] <= g[n][2] => g[n][1] = g[n][2] /\ Teams[g[n][1]] = name
  BY <1>1, <1>9 DEF LeftAfter, n
<1> DEFINE a == g[n][1]
           c == g[n][2]
<1> HIDE DEF a, c
<1>11. /\ Icc!findTeamIndex(name) = IF a <= c THEN a ELSE 0
       /\ a \in Int /\ c \in Int /\ 1 <= a /\ c <= n
       /\ \A t \in 1 .. n : Teams[t] = name => t \in a .. c
       /\ a <= c => a = c /\ Teams[a] = name
  BY <1>2, <1>10 DEF a, c
<1> QED
  BY ONLY <1>1, <1>11 DEF n

(***************************************************************************)
(* The players: the lists.                                                 *)
(***************************************************************************)
Players == [id : Int, team : Int, role : Icc!Roles, index : Int, strike : Int]

Ordered(l) == \A j, k \in 1 .. Len(l) : j < k => l[j].index >= l[k].index

\* u is s with a new member e at place i.
IsInserted(u, S, s, e, i) ==
  /\ u \in Seq(S) /\ Len(u) = Len(s) + 1
  /\ \A k \in 1 .. Len(s) + 1 :
       u[k] = IF k < i THEN s[k] ELSE IF k = i THEN e ELSE s[k - 1]

LEMMA Inserted ==
  ASSUME NEW S, NEW s \in Seq(S), NEW e \in S, NEW i \in 1 .. Len(s) + 1
  PROVE  IsInserted(SubSeq(s, 1, i - 1) \o <<e>> \o SubSeq(s, i, Len(s)), S, s, e, i)
<1> DEFINE n == Len(s)
           a == SubSeq(s, 1, i - 1)
           b == <<e>>
           c == SubSeq(s, i, Len(s))
           u == a \o b \o c
<1>0. u = a \o b \o c
  OBVIOUS
<1>1. n \in Nat /\ i \in 1 .. n + 1
  OBVIOUS
<1>2. a \in Seq(S) /\ Len(a) = i - 1 /\ \A k \in 1 .. i - 1 : a[k] = s[k]
  BY <1>1, SubSeqProperties
<1>3. b \in Seq(S) /\ Len(b) = 1 /\ b[1] = e
  OBVIOUS
<1>4. c \in Seq(S) /\ Len(c) = n - i + 1 /\ \A k \in 1 .. n - i + 1 : c[k] = s[i + k - 1]
  BY <1>1, SubSeqProperties
<1> HIDE DEF a, b, c, n
<1>5. /\ a \o b \in Seq(S) /\ Len(a \o b) = i
      /\ \A k \in 1 .. i : (a \o b)[k] = IF k < i THEN s[k] ELSE e
  <2>a. a \in Seq(S) /\ b \in Seq(S)
    BY <1>2, <1>3
  <2>b. /\ a \o b \in Seq(S) /\ Len(a \o b) = Len(a) + Len(b)
        /\ \A k \in 1 .. Len(a) + Len(b) :
             (a \o b)[k] = IF k <= Len(a) THEN a[k] ELSE b[k - Len(a)]
    BY ONLY <2>a, ConcatProperties
  <2>c. Len(a) + Len(b) = i /\ Len(a) = i - 1
    BY ONLY <1>1, <1>2, <1>3
  <2>1. a \o b \in Seq(S) /\ Len(a \o b) = i
    BY ONLY <2>b, <2>c
  <2>2. \A k \in 1 .. i : (a \o b)[k] = IF k <= i - 1 THEN a[k] ELSE b[k - (i - 1)]
    BY ONLY <2>b, <2>c, Zenon
  <2>3. ASSUME NEW k \in 1 .. i PROVE (a \o b)[k] = IF k < i THEN s[k] ELSE e
    <3>1. CASE k < i
      <4>1. k <= i - 1 /\ k \in 1 .. i - 1
        BY <1>1, <3>1
      <4> QED
        BY <1>2, <2>2, <3>1, <4>1
    <3>2. CASE ~(k < i)
      <4>1. ~(k <= i - 1) /\ k - (i - 1) = 1
        BY <1>1, <3>2
      <4> QED
        BY <1>3, <2>2, <3>2, <4>1
    <3> QED
      BY <3>1, <3>2
  <2> QED
    BY <2>1, <2>3
<1>6. /\ u \in Seq(S) /\ Len(u) = n + 1
      /\ \A k \in 1 .. n + 1 : u[k] = IF k <= i THEN (a \o b)[k] ELSE c[k - i]
  <2>1. u \in Seq(S) /\ Len(u) = Len(a \o b) + Len(c)
    BY <1>0, <1>4, <1>5, ConcatProperties
  <2>2. \A k \in 1 .. Len(a \o b) + Len(c) :
          u[k] = IF k <= Len(a \o b) THEN (a \o b)[k] ELSE c[k - Len(a \o b)]
    <3>1. a \o b \in Seq(S) /\ c \in Seq(S)
      BY <1>4, <1>5
    <3>2. \A k \in 1 .. Len(a \o b) + Len(c) :
            ((a \o b) \o c)[k] = IF k <= Len(a \o b) THEN (a \o b)[k] ELSE c[k - Len(a \o b)]
      BY ONLY <3>1, ConcatProperties
    <3> QED
      BY Zenon, <1>0, <3>2
  <2>3. Len(a \o b) + Len(c) = n + 1
    BY <1>1, <1>4, <1>5
  <2> QED
    BY <1>5, <2>1, <2>2, <2>3
<1> HIDE DEF u
<1>7. ASSUME NEW k \in 1 .. n + 1
      PROVE  u[k] = IF k < i THEN s[k] ELSE IF k = i THEN e ELSE s[k - 1]
  <2>1. CASE k <= i
    <3>1. k \in 1 .. i /\ (~(k < i) => k = i)
      BY <1>1, <2>1
    <3> QED
      BY <1>5, <1>6, <2>1, <3>1
  <2>2. CASE ~(k <= i)
    <3>1. k - i \in 1 .. n - i + 1 /\ i + (k - i) - 1 = k - 1 /\ ~(k < i) /\ k # i
      BY <1>1, <2>2
    <3> QED
      BY <1>4, <1>6, <2>2, <3>1
  <2> QED
    BY <2>1, <2>2
<1> QED
  BY <1>6, <1>7 DEF u, n, a, b, c, IsInserted

\* What an insertion at place i makes of a list: one more, and the members it had.
LEMMA InsertedMembers ==
  ASSUME NEW S, NEW s \in Seq(S), NEW e \in S, NEW i \in 1 .. Len(s) + 1, NEW u,
         IsInserted(u, S, s, e, i)
  PROVE  ToSet(u) = ToSet(s) \cup {e}
<1> DEFINE n == Len(s)
<1>1. /\ n \in Nat /\ DOMAIN s = 1 .. n /\ DOMAIN u = 1 .. n + 1
      /\ \A x : x \in ToSet(s) <=> \E k \in 1 .. n : s[k] = x
      /\ \A x : x \in ToSet(u) <=> \E k \in 1 .. n + 1 : u[k] = x
  BY DEF ToSet, IsInserted
<1>2. /\ i \in 1 .. n + 1
      /\ \A k \in 1 .. n + 1 : u[k] = IF k < i THEN s[k] ELSE IF k = i THEN e ELSE s[k - 1]
  BY DEF IsInserted
<1> HIDE DEF n
<1>3. ASSUME NEW x, x \in ToSet(u) PROVE x \in ToSet(s) \cup {e}
  <2>1. PICK k \in 1 .. n + 1 : u[k] = x
    BY <1>1, <1>3
  <2>2. CASE k < i
    <3>1. k \in 1 .. n
      BY <1>1, <1>2, <2>2
    <3> QED
      BY <1>1, <1>2, <2>1, <2>2, <3>1
  <2>3. CASE k = i
    BY <1>2, <2>1, <2>3
  <2>4. CASE ~(k < i) /\ k # i
    <3>1. k - 1 \in 1 .. n
      BY <1>1, <1>2, <2>4
    <3> QED
      BY <1>1, <1>2, <2>1, <2>4, <3>1
  <2> QED
    BY <2>2, <2>3, <2>4
<1>4. ASSUME NEW x, x \in ToSet(s) PROVE x \in ToSet(u)
  <2>1. PICK k \in 1 .. n : s[k] = x
    BY <1>1, <1>4
  <2>2. CASE k < i
    <3>1. k \in 1 .. n + 1
      BY <1>1
    <3> QED
      BY <1>1, <1>2, <2>1, <2>2, <3>1
  <2>3. CASE ~(k < i)
    <3>1. k + 1 \in 1 .. n + 1 /\ ~(k + 1 < i) /\ k + 1 # i /\ (k + 1) - 1 = k
      BY <1>1, <1>2, <2>3
    <3>2. u[k + 1] = x
      BY <1>2, <2>1, <3>1
    <3> QED
      BY <1>1, <3>1, <3>2
  <2> QED
    BY <2>2, <2>3
<1>5. e \in ToSet(u)
  BY <1>1, <1>2
<1> QED
  BY <1>3, <1>4, <1>5

\* A player is inserted where the list stays in order.
LEMMA InsertPlace ==
  ASSUME NEW l \in Seq(Players), Ordered(l), NEW p \in Players
  PROVE  \E i \in 1 .. Len(l) + 1 :
           /\ Icc!insertPlayersSortedByPerformanceIndex(l, p) =
                SubSeq(l, 1, i - 1) \o <<p>> \o SubSeq(l, i, Len(l))
           /\ \A k \in 1 .. i - 1 : l[k].index >= p.index
           /\ \A k \in i .. Len(l) : l[k].index <= p.index
<1> DEFINE u == Icc!insertPlayersSortedByPerformanceIndex(l, p)
           n == Len(l)
<1>1. \A q \in Players : q.index \in Int
  BY DEF Players
<1> HIDE DEF Players
<1>2. n \in Nat /\ DOMAIN l = 1 .. n /\ \A k \in 1 .. n : l[k] \in Players
  OBVIOUS
<1>3. p.index \in Int /\ \A k \in 1 .. n : l[k].index \in Int
  BY <1>1, <1>2
<1>4. \A j, k \in 1 .. n : j < k => l[j].index >= l[k].index
  BY DEF Ordered
<1>5. l # <<>> => n > 0 /\ Head(l) = l[1]
  OBVIOUS
<1>6. l = <<>> => n = 0
  OBVIOUS
<1>7. CASE l = <<>> \/ Head(l).index < p.index
  <2>1. u = <<p>> \o l
    BY <1>7 DEF Icc!insertPlayersSortedByPerformanceIndex
  <2>2. SubSeq(l, 1, 1 - 1) = <<>> /\ SubSeq(l, 1, n) = l
    OBVIOUS
  <2>3. <<>> \o <<p>> = <<p>>
    OBVIOUS
  <2> HIDE DEF u, n
  <2>4. u = SubSeq(l, 1, 1 - 1) \o <<p>> \o SubSeq(l, 1, n)
    BY ONLY <2>1, <2>2, <2>3, Zenon
  <2>5. ASSUME NEW k \in 1 .. n PROVE l[k].index <= p.index
    <3>1. n > 0 /\ 1 \in 1 .. n /\ (k = 1 \/ 1 < k)
      BY ONLY <1>2, k \in 1 .. n
    <3>2. l[1].index < p.index
      <4>1. l # <<>>
        BY ONLY <1>6, <3>1
      <4> QED
        BY ONLY <1>5, <1>7, <4>1
    <3>3. l[k].index <= l[1].index
      BY ONLY <1>3, <1>4, <3>1, k \in 1 .. n
    <3> QED
      BY ONLY <1>3, <3>1, <3>2, <3>3, k \in 1 .. n
  <2>6. 1 \in 1 .. n + 1 /\ 1 .. 1 - 1 = {}
    BY ONLY <1>2
  <2> QED
    BY ONLY <2>4, <2>5, <2>6 DEF u, n
<1>8. CASE ~(l = <<>> \/ Head(l).index < p.index)
  <2> DEFINE Q(k) == /\ k = Len(l) \/ l[k + 1].index <= p.index
                     /\ \A m \in 2 .. k : l[m].index > p.index
             W == {k \in 1 .. n : k = n \/ l[k + 1].index <= p.index}
             b == CHOOSE k \in DOMAIN l : Q(k)
  <2>1. l # <<>> /\ n > 0 /\ ~(l[1].index < p.index)
    BY <1>5, <1>8
  <2>2. u = Icc!InsertAt(l, b + 1, p)
    BY <1>8 DEF Icc!insertPlayersSortedByPerformanceIndex
  <2> HIDE DEF u, n
  <2>3. PICK w \in W : \A k \in W : w <= k
    <3>1. n \in W /\ W \subseteq Nat
      BY ONLY <1>2, <2>1 DEF W
    <3> HIDE DEF W
    <3> QED
      BY ONLY <3>1, NatMin
  <2>4. ASSUME NEW m \in 2 .. w PROVE l[m].index > p.index
    <3>0. w \in 1 .. n
      BY ONLY w \in W DEF W
    <3>1. m - 1 \in 1 .. n /\ ~(w <= m - 1) /\ m - 1 # n /\ (m - 1) + 1 = m /\ m \in 1 .. n
      BY ONLY <1>2, <3>0, m \in 2 .. w
    <3>2. m - 1 \notin W
      BY ONLY <2>3, <3>1, Zenon
    <3>3. ~(l[m].index <= p.index)
      BY ONLY <3>1, <3>2 DEF W
    <3> QED
      BY ONLY <1>3, <3>1, <3>3
  <2>5. w \in DOMAIN l /\ Q(w)
    BY ONLY <1>2, <2>4, w \in W DEF W, n
  <2>6. b \in DOMAIN l /\ Q(b)
    <3> HIDE DEF Q
    <3> QED
      BY ONLY <2>5
  <2> HIDE DEF b
  <2>7. /\ b \in 1 .. n /\ b + 1 \in 1 .. n + 1 /\ (b + 1) - 1 = b
        /\ b = n \/ l[b + 1].index <= p.index
        /\ \A m \in 2 .. b : l[m].index > p.index
    <3>1. b \in 1 .. n
      BY ONLY <1>2, <2>6
    <3>2. /\ b = n \/ l[b + 1].index <= p.index
          /\ \A m \in 2 .. b : l[m].index > p.index
      BY ONLY <2>6 DEF n
    <3>3. b + 1 \in 1 .. n + 1 /\ (b + 1) - 1 = b
      BY ONLY <1>2, <3>1
    <3> QED
      BY ONLY <3>1, <3>2, <3>3, Zenon
  <2> HIDE DEF Q, W
  <2>8. u = SubSeq(l, 1, (b + 1) - 1) \o <<p>> \o SubSeq(l, b + 1, n)
    BY ONLY <2>2 DEF Icc!InsertAt, n
  <2>9. ASSUME NEW k \in 1 .. (b + 1) - 1 PROVE l[k].index >= p.index
    <3>1. k \in 1 .. n /\ (k = 1 \/ k \in 2 .. b)
      BY ONLY <1>2, <2>7, k \in 1 .. (b + 1) - 1
    <3>2. l[k].index \in Int
      BY ONLY <1>3, <3>1, Zenon
    <3>3. CASE k = 1
      BY ONLY <1>3, <2>1, <3>2, <3>3
    <3>4. CASE k \in 2 .. b
      BY ONLY <1>3, <2>7, <3>2, <3>4
    <3> QED
      BY ONLY <3>1, <3>3, <3>4
  <2>10. ASSUME NEW k \in b + 1 .. n PROVE l[k].index <= p.index
    <3>1. b # n /\ b + 1 \in 1 .. n /\ k \in 1 .. n /\ (k = b + 1 \/ b + 1 < k)
      BY ONLY <1>2, <2>7, k \in b + 1 .. n
    <3>2. l[b + 1].index <= p.index
      BY ONLY <2>7, <3>1
    <3>3. k # b + 1 => l[b + 1].index >= l[k].index
      BY ONLY <1>4, <3>1
    <3> QED
      BY ONLY <1>3, <3>1, <3>2, <3>3
  <2> QED
    BY ONLY <2>7, <2>8, <2>9, <2>10 DEF u, n
<1> QED
  BY <1>7, <1>8

LEMMA InsertKeepsOrder ==
  ASSUME NEW l \in Seq(Players), Ordered(l), NEW p \in Players
  PROVE  LET u == Icc!insertPlayersSortedByPerformanceIndex(l, p)
         IN  /\ u \in Seq(Players) /\ Len(u) = Len(l) + 1
             /\ ToSet(u) = ToSet(l) \cup {p}
             /\ Ordered(u)
<1> DEFINE u == Icc!insertPlayersSortedByPerformanceIndex(l, p)
           n == Len(l)
<1>1. \A q \in Players : q.index \in Int
  BY DEF Players
<1> HIDE DEF Players
<1>2. PICK i \in 1 .. n + 1 :
        /\ u = SubSeq(l, 1, i - 1) \o <<p>> \o SubSeq(l, i, n)
        /\ \A k \in 1 .. i - 1 : l[k].index >= p.index
        /\ \A k \in i .. n : l[k].index <= p.index
  BY InsertPlace
<1>3. n \in Nat /\ \A k \in 1 .. n : l[k] \in Players
  OBVIOUS
<1>4. \A j, k \in 1 .. n : j < k => l[j].index >= l[k].index
  BY DEF Ordered
<1> HIDE DEF u
<1>5. /\ u \in Seq(Players) /\ Len(u) = n + 1
      /\ \A k \in 1 .. n + 1 : u[k] = IF k < i THEN l[k] ELSE IF k = i THEN p ELSE l[k - 1]
  <2>1. IsInserted(u, Players, l, p, i)
    BY <1>2, Inserted
  <2> QED
    BY <2>1 DEF IsInserted
<1>6. ToSet(u) = ToSet(l) \cup {p}
  <2>1. IsInserted(u, Players, l, p, i)
    BY <1>2, Inserted
  <2> QED
    BY <2>1, InsertedMembers
<1> HIDE DEF n
<1>7. p.index \in Int /\ \A k \in 1 .. n : l[k].index \in Int
  BY <1>1, <1>3
<1>8. ASSUME NEW j \in 1 .. n + 1, NEW k \in 1 .. n + 1, j < k
      PROVE  u[j].index >= u[k].index
  <2>1. CASE k < i
    <3>1. j \in 1 .. n /\ k \in 1 .. n /\ j < i
      BY ONLY <1>3, <1>8, <2>1, i \in 1 .. n + 1
    <3>2. u[j] = l[j] /\ u[k] = l[k]
      BY ONLY <1>5, <2>1, <3>1, j \in 1 .. n + 1, k \in 1 .. n + 1
    <3> QED
      BY ONLY <1>4, <1>8, <3>1, <3>2
  <2>2. CASE k = i
    <3>1. j \in 1 .. i - 1 /\ j \in 1 .. n /\ j < i
      BY ONLY <1>3, <1>8, <2>2
    <3>2. u[j] = l[j] /\ u[k] = p
      BY ONLY <1>5, <2>2, <3>1, j \in 1 .. n + 1, k \in 1 .. n + 1, k < i <=> FALSE
    <3> QED
      BY ONLY <1>2, <3>1, <3>2
  <2>3. CASE k > i
    <3>1. k - 1 \in i .. n /\ k - 1 \in 1 .. n /\ ~(k < i) /\ k # i
      BY ONLY <1>3, <1>8, <2>3, i \in 1 .. n + 1
    <3>2. u[k] = l[k - 1]
      BY ONLY <1>5, <3>1, k \in 1 .. n + 1
    <3>3. l[k - 1].index <= p.index /\ l[k - 1].index \in Int
      BY ONLY <1>2, <1>7, <3>1
    <3>4. CASE j < i
      <4>1. j \in 1 .. n /\ j < k - 1
        BY ONLY <1>3, <1>8, <2>3, <3>4, i \in 1 .. n + 1, k \in 1 .. n + 1
      <4>2. u[j] = l[j]
        BY ONLY <1>5, <3>4, j \in 1 .. n + 1
      <4> QED
        BY ONLY <1>4, <3>1, <3>2, <4>1, <4>2
    <3>5. CASE j = i
      <4>1. u[j] = p
        BY ONLY <1>5, <3>5, j \in 1 .. n + 1, i < i <=> FALSE
      <4> QED
        BY ONLY <1>7, <3>2, <3>3, <4>1
    <3>6. CASE j > i
      <4>1. j - 1 \in 1 .. n /\ j - 1 < k - 1 /\ ~(j < i) /\ j # i
        BY ONLY <1>3, <1>8, <3>6, i \in 1 .. n + 1, k \in 1 .. n + 1
      <4>2. u[j] = l[j - 1]
        BY ONLY <1>5, <4>1, j \in 1 .. n + 1
      <4> QED
        BY ONLY <1>4, <3>1, <3>2, <4>1, <4>2
    <3> QED
      BY ONLY <1>3, <1>8, <3>4, <3>5, <3>6, i \in 1 .. n + 1
  <2> QED
    BY ONLY <1>3, <1>8, <2>1, <2>2, <2>3, i \in 1 .. n + 1
<1> QED
  BY ONLY <1>5, <1>6, <1>8 DEF Ordered, u, n

(***************************************************************************)
(* The players: counts and sums.                                           *)
(***************************************************************************)
\* The first n players of team t with a role in S.
InTeam(ps, n, t, S) == {k \in 1 .. n : ps[k].team = Teams[t] /\ ps[k].role \in S}

\* The strike rates of those of the first n players that are in S, added.
SumOf(ps, S, n) ==
  LET sum[k \in 0 .. n] == IF k = 0 THEN 0 ELSE sum[k - 1] + (IF k \in S THEN ps[k].strike ELSE 0)
  IN  sum[n]

SumFun(ps, S, n) ==
  CHOOSE f : f = [k \in 0 .. n |-> IF k = 0 THEN 0
                                   ELSE f[k - 1] + (IF k \in S THEN ps[k].strike ELSE 0)]

LEMMA SumFacts ==
  ASSUME NEW ps \in Seq(Players), NEW S, NEW n \in 0 .. Len(ps)
  PROVE  /\ SumOf(ps, S, n) = SumFun(ps, S, n)[n]
         /\ SumFun(ps, S, n)[0] = 0
         /\ \A k \in 0 .. n : SumFun(ps, S, n)[k] \in Int
         /\ \A k \in 1 .. n : SumFun(ps, S, n)[k] =
              SumFun(ps, S, n)[k - 1] + (IF k \in S THEN ps[k].strike ELSE 0)
<1> DEFINE d(k) == IF k \in S THEN ps[k].strike ELSE 0
           R(f) == f = [k \in 0 .. n |-> IF k = 0 THEN 0 ELSE f[k - 1] + d(k)]
           g == CHOOSE f : R(f)
           stepOf == [k \in 1 .. n |-> [x \in Int |-> x + d(k)]]
<1>1. n \in Nat
  OBVIOUS
<1>2. \A k \in 1 .. n : d(k) \in Int
  <2>1. \A q \in Players : q.strike \in Int
    BY DEF Players
  <2>2. \A k \in 1 .. n : ps[k] \in Players
    <3> HIDE DEF Players
    <3> QED
      OBVIOUS
  <2> QED
    BY <2>1, <2>2
<1>3. SumFun(ps, S, n) = g /\ SumOf(ps, S, n) = g[n]
  BY DEF SumFun, SumOf
<1> HIDE DEF d
<1>4. PICK f : Computes(f, Int, 0, n, stepOf)
  <2>1. \A k \in 1 .. n : stepOf[k] \in [Int -> Int]
    BY <1>2
  <2> HIDE DEF stepOf
  <2>2. Steps(Int, 0, n, stepOf)
    BY <1>1, <2>1 DEF Steps
  <2> QED
    BY <2>2, RecursionExists
<1>5. R(f)
  <2>1. f \in [0 .. n -> Int] /\ f[0] = 0 /\ \A k \in 1 .. n : f[k] = stepOf[k][f[k - 1]]
    BY <1>4 DEF Computes
  <2>2. \A k \in 1 .. n : f[k - 1] \in Int
    BY <1>1, <2>1
  <2>3. \A k \in 1 .. n : f[k] = f[k - 1] + d(k)
    BY <2>1, <2>2
  <2>4. \A k \in 0 .. n : k = 0 \/ (k # 0 /\ k \in 1 .. n)
    BY <1>1
  <2>5. \A k \in 0 .. n : f[k] = IF k = 0 THEN 0 ELSE f[k - 1] + d(k)
    BY Zenon, <2>1, <2>3, <2>4
  <2>6. f = [k \in 0 .. n |-> f[k]]
    BY <2>1
  <2> QED
    BY Zenon, <2>5, <2>6
<1>6. R(g)
  <2> HIDE DEF R
  <2> QED
    BY <1>5
<1> HIDE DEF g
<1>7. g[0] = 0 /\ \A k \in 1 .. n : g[k] = g[k - 1] + d(k)
  <2> DEFINE b(k) == IF k = 0 THEN 0 ELSE g[k - 1] + d(k)
  <2>1. g = [k \in 0 .. n |-> b(k)]
    BY <1>6
  <2> HIDE DEF b
  <2>2. \A k \in 0 .. n : g[k] = b(k)
    BY Zenon, <2>1
  <2>3. 0 \in 0 .. n /\ \A k \in 1 .. n : k \in 0 .. n /\ k # 0
    BY <1>1
  <2> QED
    BY Zenon, <2>2, <2>3 DEF b
<1>8. \A k \in 0 .. n : g[k] \in Int
  <2> DEFINE U == {k \in 0 .. n : g[k] \in Int}
  <2>1. 0 \in U
    BY <1>1, <1>7
  <2>2. \A k \in 1 .. n : k - 1 \in U => k \in U
    BY <1>1, <1>2, <1>7
  <2> HIDE DEF U
  <2>3. 0 .. n \subseteq U
    BY <1>1, <2>1, <2>2, UpTo
  <2> QED
    BY <2>3 DEF U
<1> QED
  BY <1>3, <1>7, <1>8 DEF d

\* The sum of the first m depends on the first m alone.
LEMMA SumAgrees ==
  ASSUME NEW ps \in Seq(Players), NEW n \in 0 .. Len(ps), NEW m \in 0 .. n, NEW S, NEW T,
         \A k \in 1 .. m : k \in S <=> k \in T
  PROVE  SumFun(ps, S, n)[m] = SumOf(ps, T, m)
<1> DEFINE f == SumFun(ps, S, n)
           g == SumFun(ps, T, m)
           U == {k \in 0 .. m : f[k] = g[k]}
<1>1. n \in Nat /\ m \in Nat /\ m <= n /\ m \in 0 .. Len(ps)
  OBVIOUS
<1>2. /\ f[0] = 0
      /\ \A k \in 1 .. n : f[k] = f[k - 1] + (IF k \in S THEN ps[k].strike ELSE 0)
  BY SumFacts
<1>3. /\ g[0] = 0 /\ SumOf(ps, T, m) = g[m]
      /\ \A k \in 1 .. m : g[k] = g[k - 1] + (IF k \in T THEN ps[k].strike ELSE 0)
  BY <1>1, SumFacts
<1> HIDE DEF f, g
<1>4. 0 \in U
  BY <1>1, <1>2, <1>3
<1>5. \A k \in 1 .. m : k - 1 \in U => k \in U
  <2> SUFFICES ASSUME NEW k \in 1 .. m, k - 1 \in U PROVE k \in U
    OBVIOUS
  <2>1. k \in 1 .. n /\ k \in 0 .. m /\ f[k - 1] = g[k - 1] /\ (k \in S <=> k \in T)
    BY <1>1
  <2>2. f[k] = f[k - 1] + (IF k \in S THEN ps[k].strike ELSE 0)
    BY <1>2, <2>1
  <2>3. g[k] = g[k - 1] + (IF k \in T THEN ps[k].strike ELSE 0)
    BY <1>3
  <2> QED
    BY <2>1, <2>2, <2>3
<1> HIDE DEF U
<1>6. 0 .. m \subseteq U
  BY <1>1, <1>4, <1>5, UpTo
<1>7. m \in 0 .. m
  BY <1>1
<1> QED
  BY <1>3, <1>6, <1>7 DEF U, f

\* The sum with one player more.
LEMMA SumOneMore ==
  ASSUME NEW ps \in Seq(Players), NEW n \in Nat, n + 1 <= Len(ps), NEW S, NEW T,
         \A k \in 1 .. n : k \in S <=> k \in T
  PROVE  /\ SumOf(ps, S, n) \in Int
         /\ SumOf(ps, T, n + 1) = SumOf(ps, S, n) + (IF n + 1 \in T THEN ps[n + 1].strike ELSE 0)
<1>1. /\ n + 1 \in 0 .. Len(ps) /\ n \in 0 .. n + 1 /\ n \in 0 .. Len(ps) /\ n \in 0 .. n
      /\ n + 1 \in 1 .. n + 1 /\ (n + 1) - 1 = n
  OBVIOUS
<1>2. SumFun(ps, T, n + 1)[n] = SumOf(ps, S, n)
  BY <1>1, SumAgrees
<1>3. SumOf(ps, T, n + 1) = SumFun(ps, T, n + 1)[n + 1]
  BY <1>1, SumFacts
<1>4. SumFun(ps, T, n + 1)[n + 1] =
        SumFun(ps, T, n + 1)[(n + 1) - 1] + (IF n + 1 \in T THEN ps[n + 1].strike ELSE 0)
  BY <1>1, SumFacts
<1>5. SumOf(ps, S, n) \in Int
  <2>1. SumOf(ps, S, n) = SumFun(ps, S, n)[n]
    BY <1>1, SumFacts
  <2>2. SumFun(ps, S, n)[n] \in Int
    BY <1>1, SumFacts
  <2> QED
    BY <2>1, <2>2
<1> QED
  BY <1>1, <1>2, <1>3, <1>4, <1>5

LEMMA SumOfNone ==
  ASSUME NEW ps \in Seq(Players), NEW S
  PROVE  SumOf(ps, S, 0) = 0
<1>1. 0 \in 0 .. Len(ps)
  OBVIOUS
<1> QED
  BY <1>1, SumFacts

\* With one player more, a team has this player more, or the same.
LEMMA InTeamOneMore ==
  ASSUME NEW ps, NEW n \in Nat, NEW t, NEW S
  PROVE  /\ InTeam(ps, n + 1, t, S) =
              InTeam(ps, n, t, S) \cup
                (IF ps[n + 1].team = Teams[t] /\ ps[n + 1].role \in S THEN {n + 1} ELSE {})
         /\ n + 1 \notin InTeam(ps, n, t, S)
<1>1. \A k : k \in 1 .. n + 1 <=> k \in 1 .. n \/ k = n + 1
  OBVIOUS
<1>2. n + 1 \notin 1 .. n
  OBVIOUS
<1> QED
  BY <1>1, <1>2 DEF InTeam

LEMMA InTeamCount ==
  ASSUME NEW ps, NEW n \in Nat, NEW t, NEW S
  PROVE  /\ IsFiniteSet(InTeam(ps, n, t, S))
         /\ Cardinality(InTeam(ps, n, t, S)) \in Nat
         /\ Cardinality(InTeam(ps, n, t, S)) = 0 <=> InTeam(ps, n, t, S) = {}
         /\ Cardinality(InTeam(ps, n + 1, t, S)) =
              Cardinality(InTeam(ps, n, t, S)) +
                (IF ps[n + 1].team = Teams[t] /\ ps[n + 1].role \in S THEN 1 ELSE 0)
<1> DEFINE A == InTeam(ps, n, t, S)
           B == InTeam(ps, n + 1, t, S)
<1>1. IsFiniteSet(A)
  <2>1. IsFiniteSet(1 .. n)
    BY FS_Interval
  <2>2. A \subseteq 1 .. n
    BY DEF InTeam
  <2> HIDE DEF A
  <2> QED
    BY <2>1, <2>2, FS_Subset
<1>2. Cardinality(A) \in Nat /\ (Cardinality(A) = 0 <=> A = {})
  <2> HIDE DEF A
  <2> QED
    BY <1>1, FS_CardinalityType, FS_EmptySet
<1>3. CASE ps[n + 1].team = Teams[t] /\ ps[n + 1].role \in S
  <2>1. B = A \cup {n + 1} /\ n + 1 \notin A
    BY <1>3, InTeamOneMore
  <2> HIDE DEF A, B
  <2>2. Cardinality(B) = Cardinality(A) + 1
    BY <1>1, <2>1, FS_AddElement
  <2> QED
    BY <1>1, <1>2, <1>3, <2>2 DEF A, B
<1>4. CASE ~(ps[n + 1].team = Teams[t] /\ ps[n + 1].role \in S)
  <2>0. B = A \cup {}
    <3>1. B = A \cup (IF ps[n + 1].team = Teams[t] /\ ps[n + 1].role \in S THEN {n + 1} ELSE {})
      BY InTeamOneMore
    <3> HIDE DEF A, B
    <3> QED
      BY <1>4, <3>1
  <2> HIDE DEF A, B
  <2>1. B = A
    BY <2>0
  <2>2. Cardinality(B) = Cardinality(A) + 0
    BY <1>2, <2>1
  <2> QED
    BY <1>1, <1>2, <1>4, <2>2 DEF A, B
<1> QED
  BY <1>3, <1>4

(***************************************************************************)
(* The players: the tables.                                                *)
(***************************************************************************)
Bats == {"Batsman", "All-rounder"}

\* The list l is that of team t and role r after n players.
ListRight(ps, n, t, r, l) ==
  /\ l \in Seq(Players)
  /\ ToSet(l) = {ps[k] : k \in InTeam(ps, n, t, {r})}
  /\ Len(l) = Cardinality(InTeam(ps, n, t, {r}))
  /\ Ordered(l)

\* The totals m are those of team t after n players.
TotalsRight(ps, n, t, m) ==
  /\ m.strike = SumOf(ps, InTeam(ps, n, t, Bats), n)
  /\ m.batsmen \in Nat /\ m.allRounders \in Nat
  /\ m.batsmen + m.allRounders = Cardinality(InTeam(ps, n, t, Bats))
  /\ m.players = Cardinality(InTeam(ps, n, t, Icc!Roles))
  /\ m.average = IF InTeam(ps, n, t, Bats) = {} THEN <<0, 1>>
                 ELSE <<SumOf(ps, InTeam(ps, n, t, Bats), n),
                        Cardinality(InTeam(ps, n, t, Bats))>>

LEMMA NoPlayers ==
  ASSUME NEW ps, NEW t, NEW S
  PROVE  InTeam(ps, 0, t, S) = {} /\ Cardinality(InTeam(ps, 0, t, S)) = 0
<1>1. InTeam(ps, 0, t, S) = {}
  BY DEF InTeam
<1> QED
  BY <1>1, FS_EmptySet

\* Before the first player lists are empty and totals those of a new team.
LEMMA FirstTables ==
  ASSUME NEW ps \in Seq(Players), NEW t
  PROVE  /\ \A r : ListRight(ps, 0, t, r, <<>>)
         /\ TotalsRight(ps, 0, t, Icc!NewTeam)
<1>1. ASSUME NEW r PROVE ListRight(ps, 0, t, r, <<>>)
  <2>1. InTeam(ps, 0, t, {r}) = {} /\ Cardinality(InTeam(ps, 0, t, {r})) = 0
    BY NoPlayers
  <2>2. <<>> \in Seq(Players) /\ Len(<<>>) = 0 /\ ToSet(<<>>) = {} /\ Ordered(<<>>)
    BY DEF ToSet, Ordered
  <2> QED
    BY <2>1, <2>2 DEF ListRight
<1>2. TotalsRight(ps, 0, t, Icc!NewTeam)
  <2>1. /\ InTeam(ps, 0, t, Bats) = {} /\ Cardinality(InTeam(ps, 0, t, Bats)) = 0
        /\ Cardinality(InTeam(ps, 0, t, Icc!Roles)) = 0
    BY NoPlayers
  <2>2. SumOf(ps, InTeam(ps, 0, t, Bats), 0) = 0
    BY SumOfNone
  <2> QED
    BY <2>1, <2>2 DEF TotalsRight, Icc!NewTeam
<1> QED
  BY <1>1, <1>2

\* The list of the next player, with the player.
LEMMA ListWithNext ==
  ASSUME NEW ps \in Seq(Players), NEW n \in Nat, n + 1 <= Len(ps), NEW t, NEW r, NEW l,
         ListRight(ps, n, t, r, l), ps[n + 1].team = Teams[t], ps[n + 1].role = r
  PROVE  ListRight(ps, n + 1, t, r, Icc!insertPlayersSortedByPerformanceIndex(l, ps[n + 1]))
<1> DEFINE p == ps[n + 1]
           u == Icc!insertPlayersSortedByPerformanceIndex(l, p)
           A == InTeam(ps, n, t, {r})
           B == InTeam(ps, n + 1, t, {r})
<1> HIDE DEF Players
<1>1. p \in Players
  <2>1. n + 1 \in 1 .. Len(ps)
    OBVIOUS
  <2> QED
    BY <2>1
<1>2. /\ l \in Seq(Players) /\ Ordered(l)
      /\ ToSet(l) = {ps[k] : k \in A} /\ Len(l) = Cardinality(A)
  BY DEF ListRight
<1>3. B = A \cup {n + 1} /\ Cardinality(B) = Cardinality(A) + 1
  <2>1. r \in {r}
    OBVIOUS
  <2>2. B = A \cup {n + 1}
    BY <2>1, InTeamOneMore
  <2>3. Cardinality(B) = Cardinality(A) + 1
    BY <2>1, InTeamCount
  <2> QED
    BY <2>2, <2>3
<1> HIDE DEF A, B
<1>4. /\ u \in Seq(Players) /\ Len(u) = Len(l) + 1
      /\ ToSet(u) = ToSet(l) \cup {p} /\ Ordered(u)
  <2> HIDE DEF p
  <2> QED
    BY <1>1, <1>2, InsertKeepsOrder
<1> HIDE DEF u
<1>5. ToSet(u) = {ps[k] : k \in B}
  BY <1>2, <1>3, <1>4
<1>6. Len(u) = Cardinality(B)
  BY <1>2, <1>3, <1>4
<1> QED
  BY <1>4, <1>5, <1>6 DEF ListRight, B, u

\* The other lists are as before.
LEMMA ListWithoutNext ==
  ASSUME NEW ps, NEW n \in Nat, NEW t, NEW r, NEW l, ListRight(ps, n, t, r, l),
         ~(ps[n + 1].team = Teams[t] /\ ps[n + 1].role = r)
  PROVE  ListRight(ps, n + 1, t, r, l)
<1>1. InTeam(ps, n + 1, t, {r}) =
        InTeam(ps, n, t, {r}) \cup
          (IF ps[n + 1].team = Teams[t] /\ ps[n + 1].role \in {r} THEN {n + 1} ELSE {})
  BY InTeamOneMore
<1>2. InTeam(ps, n + 1, t, {r}) = InTeam(ps, n, t, {r})
  BY <1>1
<1> QED
  BY <1>2 DEF ListRight

\* The totals of the next player's team, with the player.
LEMMA TotalsWithNext ==
  ASSUME NEW ps \in Seq(Players), NEW n \in Nat, n + 1 <= Len(ps), NEW t, NEW m,
         TotalsRight(ps, n, t, m), ps[n + 1].team = Teams[t]
  PROVE  TotalsRight(ps, n + 1, t, Icc!Totals(m, ps[n + 1]))
<1> DEFINE p == ps[n + 1]
           A == InTeam(ps, n, t, Bats)
           B == InTeam(ps, n + 1, t, Bats)
           w == Icc!Totals(m, p)
           one == IF p.role # "Bowler" THEN 1 ELSE 0
           rate == IF p.role # "Bowler" THEN p.strike ELSE 0
           oneB == IF p.role = "Batsman" THEN 1 ELSE 0
           oneA == IF p.role = "All-rounder" THEN 1 ELSE 0
<1>1. p.role \in Icc!Roles /\ p.strike \in Int
  <2>1. n + 1 \in 1 .. Len(ps)
    OBVIOUS
  <2>2. \A q \in Players : q.role \in Icc!Roles /\ q.strike \in Int
    BY DEF Players
  <2> HIDE DEF Players
  <2>3. p \in Players
    BY <2>1
  <2> QED
    BY <2>2, <2>3
<1>2. p.role \in Bats <=> p.role # "Bowler"
  BY <1>1 DEF Icc!Roles, Bats
<1>3. oneB + oneA = one /\ one \in Nat /\ oneA \in Nat /\ oneB \in Nat /\ rate \in Int
  BY <1>1 DEF Icc!Roles
<1>4. /\ m.strike = SumOf(ps, A, n)
      /\ m.batsmen \in Nat /\ m.allRounders \in Nat
      /\ m.batsmen + m.allRounders = Cardinality(A)
      /\ m.players = Cardinality(InTeam(ps, n, t, Icc!Roles))
      /\ m.average = IF A = {} THEN <<0, 1>> ELSE <<SumOf(ps, A, n), Cardinality(A)>>
  BY DEF TotalsRight
<1>5. /\ w.strike = m.strike + rate
      /\ w.batsmen = m.batsmen + oneB
      /\ w.allRounders = m.allRounders + oneA
      /\ w.players = m.players + 1
      /\ w.average = IF (m.allRounders + oneA) + (m.batsmen + oneB) > 0
                     THEN <<m.strike + rate, (m.allRounders + oneA) + (m.batsmen + oneB)>>
                     ELSE m.average
  BY DEF Icc!Totals
<1>6. /\ B = A \cup (IF p.role # "Bowler" THEN {n + 1} ELSE {})
      /\ n + 1 \notin A
  BY <1>2, InTeamOneMore
<1>7. /\ Cardinality(B) = Cardinality(A) + one /\ Cardinality(A) \in Nat
      /\ Cardinality(B) \in Nat /\ (Cardinality(B) = 0 <=> B = {})
      /\ (Cardinality(A) = 0 <=> A = {})
  <2>1. /\ Cardinality(B) = Cardinality(A) + one /\ Cardinality(A) \in Nat
        /\ (Cardinality(A) = 0 <=> A = {})
    BY <1>2, InTeamCount
  <2>2. Cardinality(B) \in Nat /\ (Cardinality(B) = 0 <=> B = {})
    <3>1. n + 1 \in Nat
      OBVIOUS
    <3> QED
      BY <3>1, InTeamCount
  <2> QED
    BY <2>1, <2>2
<1>8. Cardinality(InTeam(ps, n + 1, t, Icc!Roles)) = Cardinality(InTeam(ps, n, t, Icc!Roles)) + 1
  BY <1>1, InTeamCount
<1>9. /\ SumOf(ps, B, n + 1) = SumOf(ps, A, n) + rate
      /\ SumOf(ps, A, n) \in Int
  <2>1. \A k \in 1 .. n : k \in A <=> k \in B
    <3>1. \A k \in 1 .. n : k # n + 1
      OBVIOUS
    <3> HIDE DEF A, B
    <3> QED
      BY <1>6, <3>1
  <2>2. n + 1 \in B <=> p.role # "Bowler"
    <3> HIDE DEF A, B
    <3> QED
      BY <1>6
  <2> HIDE DEF A, B
  <2>3. /\ SumOf(ps, A, n) \in Int
        /\ SumOf(ps, B, n + 1) = SumOf(ps, A, n) + (IF n + 1 \in B THEN ps[n + 1].strike ELSE 0)
    BY <2>1, SumOneMore
  <2> QED
    BY <2>2, <2>3
<1> HIDE DEF A, B, w, one, rate, oneA, oneB
<1>10. (m.allRounders + oneA) + (m.batsmen + oneB) = Cardinality(B)
  <2>1. /\ m.batsmen \in Nat /\ m.allRounders \in Nat
        /\ m.batsmen + m.allRounders = Cardinality(A)
    BY <1>4
  <2>2. ASSUME NEW a \in Nat, NEW b \in Nat, NEW x \in Nat, NEW y \in Nat
        PROVE  (a + x) + (b + y) = (b + a) + (y + x)
    OBVIOUS
  <2>3. (m.allRounders + oneA) + (m.batsmen + oneB) =
          (m.batsmen + m.allRounders) + (oneB + oneA)
    BY ONLY <1>3, <2>1, <2>2
  <2> QED
    BY ONLY <1>3, <1>7, <2>1, <2>3, Zenon
<1>11. w.average = IF B = {} THEN <<0, 1>> ELSE <<SumOf(ps, B, n + 1), Cardinality(B)>>
  <2>1. CASE B = {}
    <3>1. ~(Cardinality(B) > 0) /\ Cardinality(A) = 0
      BY ONLY <1>3, <1>7, <2>1
    <3>2. A = {}
      BY <1>7, <3>1
    <3>3. w.average = m.average
      BY <1>5, <1>10, <3>1
    <3> QED
      BY <1>4, <2>1, <3>2, <3>3
  <2>2. CASE B # {}
    <3>1. Cardinality(B) > 0
      BY ONLY <1>7, <2>2
    <3>2. w.average = <<m.strike + rate, (m.allRounders + oneA) + (m.batsmen + oneB)>>
      BY <1>5, <1>10, <3>1
    <3>3. m.strike + rate = SumOf(ps, B, n + 1)
      BY ONLY <1>4, <1>9
    <3> QED
      BY <1>10, <2>2, <3>2, <3>3
  <2> QED
    BY <2>1, <2>2
<1>12. w.strike = SumOf(ps, B, n + 1)
  BY ONLY <1>4, <1>5, <1>9
<1>13. w.batsmen \in Nat /\ w.allRounders \in Nat /\ w.batsmen + w.allRounders = Cardinality(B)
  <2>1. m.batsmen \in Nat /\ m.allRounders \in Nat
    BY <1>4
  <2>2. w.batsmen = m.batsmen + oneB /\ w.allRounders = m.allRounders + oneA
    BY <1>5
  <2>3. w.batsmen \in Nat /\ w.allRounders \in Nat
    BY ONLY <1>3, <2>1, <2>2
  <2>4. w.batsmen + w.allRounders = (m.allRounders + oneA) + (m.batsmen + oneB)
    BY ONLY <1>3, <2>1, <2>2
  <2> QED
    BY ONLY <1>10, <2>3, <2>4
<1>14. w.players = Cardinality(InTeam(ps, n + 1, t, Icc!Roles))
  BY ONLY <1>4, <1>5, <1>8
<1> QED
  BY ONLY <1>11, <1>12, <1>13, <1>14 DEF TotalsRight, w, B, p

\* The totals of the other teams are as before.
LEMMA TotalsWithoutNext ==
  ASSUME NEW ps \in Seq(Players), NEW n \in Nat, n + 1 <= Len(ps), NEW t, NEW m,
         TotalsRight(ps, n, t, m), ps[n + 1].team # Teams[t]
  PROVE  TotalsRight(ps, n + 1, t, m)
<1>1. ASSUME NEW S PROVE InTeam(ps, n + 1, t, S) = InTeam(ps, n, t, S)
  <2>1. InTeam(ps, n + 1, t, S) =
          InTeam(ps, n, t, S) \cup
            (IF ps[n + 1].team = Teams[t] /\ ps[n + 1].role \in S THEN {n + 1} ELSE {})
    BY InTeamOneMore
  <2> QED
    BY <2>1
<1>2. n + 1 \notin InTeam(ps, n, t, Bats)
  BY InTeamOneMore
<1> DEFINE A == InTeam(ps, n, t, Bats)
<1> HIDE DEF A
<1>3. /\ SumOf(ps, A, n) \in Int
      /\ SumOf(ps, A, n + 1) = SumOf(ps, A, n) + (IF n + 1 \in A THEN ps[n + 1].strike ELSE 0)
  BY SumOneMore
<1>4. SumOf(ps, A, n + 1) = SumOf(ps, A, n)
  BY <1>2, <1>3 DEF A
<1> QED
  BY <1>1, <1>4 DEF TotalsRight, A

\* The lists and the totals after n players.
TablesRight(ps, n, ls, tm) ==
  /\ ls \in [Icc!TeamIds -> [Icc!Roles -> Seq(Players)]]
  /\ tm = [t \in Icc!TeamIds |-> tm[t]]
  /\ \A t \in Icc!TeamIds, r \in Icc!Roles : ListRight(ps, n, t, r, ls[t][r])
  /\ \A t \in Icc!TeamIds :
       /\ TotalsRight(ps, n, t, tm[t])
       /\ tm[t].players =
            Len(ls[t]["Batsman"]) + Len(ls[t]["Bowler"]) + Len(ls[t]["All-rounder"])

\* A player of a team that is not in the table changes neither.
LEMMA TablesUnknown ==
  ASSUME NEW ps \in Seq(Players), NEW n \in Nat, n + 1 <= Len(ps), NEW ls, NEW tm,
         TablesRight(ps, n, ls, tm), \A t \in Icc!TeamIds : ps[n + 1].team # Teams[t]
  PROVE  TablesRight(ps, n + 1, ls, tm)
<1>1. ASSUME NEW t \in Icc!TeamIds, NEW r \in Icc!Roles PROVE ListRight(ps, n + 1, t, r, ls[t][r])
  <2>1. ListRight(ps, n, t, r, ls[t][r]) /\ ps[n + 1].team # Teams[t]
    BY DEF TablesRight
  <2> QED
    BY <2>1, ListWithoutNext
<1>2. ASSUME NEW t \in Icc!TeamIds PROVE TotalsRight(ps, n + 1, t, tm[t])
  <2>1. TotalsRight(ps, n, t, tm[t]) /\ ps[n + 1].team # Teams[t]
    BY DEF TablesRight
  <2> QED
    BY <2>1, TotalsWithoutNext
<1> QED
  BY <1>1, <1>2 DEF TablesRight

\* A player of team t is put into a list and the totals of this team.
LEMMA TablesKnown ==
  ASSUME NEW ps \in Seq(Players), NEW n \in Nat, n + 1 <= Len(ps), NEW ls, NEW tm,
         TablesRight(ps, n, ls, tm), NEW t \in Icc!TeamIds, ps[n + 1].team = Teams[t]
  PROVE  TablesRight(ps, n + 1,
           [ls EXCEPT ![t][ps[n + 1].role] =
              Icc!insertPlayersSortedByPerformanceIndex(@, ps[n + 1])],
           [tm EXCEPT ![t] = Icc!Totals(@, ps[n + 1])])
<1> DEFINE p == ps[n + 1]
           q == p.role
           new == Icc!insertPlayersSortedByPerformanceIndex(ls[t][q], p)
           tot == Icc!Totals(tm[t], p)
           ls2 == [ls EXCEPT ![t][q] = Icc!insertPlayersSortedByPerformanceIndex(@, p)]
           tm2 == [tm EXCEPT ![t] = Icc!Totals(@, p)]
<1>1. q \in Icc!Roles /\ p \in Players
  <2>1. \A x \in Players : x.role \in Icc!Roles
    BY DEF Players
  <2> HIDE DEF Players
  <2>2. n + 1 \in 1 .. Len(ps)
    OBVIOUS
  <2>3. p \in Players
    BY <2>2
  <2> QED
    BY <2>1, <2>3
<1> HIDE DEF Players
<1>2. /\ ls \in [Icc!TeamIds -> [Icc!Roles -> Seq(Players)]]
      /\ tm = [u \in Icc!TeamIds |-> tm[u]]
      /\ \A u \in Icc!TeamIds, r \in Icc!Roles : ListRight(ps, n, u, r, ls[u][r])
      /\ \A u \in Icc!TeamIds : TotalsRight(ps, n, u, tm[u])
  BY DEF TablesRight
<1>3. \A u \in Icc!TeamIds : tm[u].players =
        Len(ls[u]["Batsman"]) + Len(ls[u]["Bowler"]) + Len(ls[u]["All-rounder"])
  BY DEF TablesRight
<1>4. ListRight(ps, n + 1, t, q, new)
  BY <1>1, <1>2, ListWithNext
<1>5. TotalsRight(ps, n + 1, t, tot)
  BY <1>2, TotalsWithNext
<1>6. new \in Seq(Players) /\ Len(new) = Len(ls[t][q]) + 1
  <2>1. ls[t][q] \in Seq(Players) /\ Ordered(ls[t][q])
    BY <1>1, <1>2 DEF ListRight
  <2> QED
    BY <1>1, <2>1, InsertKeepsOrder
<1>7. tot.players = tm[t].players + 1
  BY DEF Icc!Totals
<1>8. ls2 = [ls EXCEPT ![t] = [ls[t] EXCEPT ![q] = new]]
  OBVIOUS
<1>9. tm2 = [tm EXCEPT ![t] = tot]
  OBVIOUS
<1> HIDE DEF new, tot, ls2, tm2, q
<1>10. ls[t] \in [Icc!Roles -> Seq(Players)]
  BY <1>2
<1> DEFINE row == [ls[t] EXCEPT ![q] = new]
<1>11. /\ row \in [Icc!Roles -> Seq(Players)]
       /\ row[q] = new /\ \A r \in Icc!Roles : r # q => row[r] = ls[t][r]
  BY <1>1, <1>6, <1>10
<1> HIDE DEF row
<1>12. /\ ls2 \in [Icc!TeamIds -> [Icc!Roles -> Seq(Players)]]
       /\ ls2[t] = row /\ \A u \in Icc!TeamIds : u # t => ls2[u] = ls[u]
  BY <1>2, <1>8, <1>11 DEF row
<1>13. /\ tm2 = [u \in Icc!TeamIds |-> tm2[u]]
       /\ tm2[t] = tot /\ \A u \in Icc!TeamIds : u # t => tm2[u] = tm[u]
  BY ONLY <1>2, <1>9, t \in Icc!TeamIds
<1>14. \A u \in Icc!TeamIds : u # t => Teams[u] # Teams[t]
  BY TeamsInOrder
<1>15. ASSUME NEW u \in Icc!TeamIds, NEW r \in Icc!Roles PROVE ListRight(ps, n + 1, u, r, ls2[u][r])
  <2>1. CASE u = t /\ r = q
    BY <1>4, <1>11, <1>12, <2>1
  <2>2. CASE ~(u = t /\ r = q)
    <3>1. ls2[u][r] = ls[u][r]
      BY <1>11, <1>12, <2>2
    <3>2. ListRight(ps, n, u, r, ls[u][r])
      BY <1>2
    <3>3. ~(ps[n + 1].team = Teams[u] /\ ps[n + 1].role = r)
      BY <1>14, <2>2 DEF q
    <3> QED
      BY <3>1, <3>2, <3>3, ListWithoutNext
  <2> QED
    BY <2>1, <2>2
<1>16. ASSUME NEW u \in Icc!TeamIds
       PROVE  /\ TotalsRight(ps, n + 1, u, tm2[u])
              /\ tm2[u].players =
                   Len(ls2[u]["Batsman"]) + Len(ls2[u]["Bowler"]) + Len(ls2[u]["All-rounder"])
  <2>1. CASE u = t
    <3>1. ASSUME NEW r \in Icc!Roles
          PROVE  /\ Len(ls[t][r]) \in Nat
                 /\ Len(row[r]) = Len(ls[t][r]) + (IF q = r THEN 1 ELSE 0)
      <4>1. ls[t][r] \in Seq(Players)
        BY <1>10
      <4>2. Len(ls[t][r]) \in Nat
        BY <4>1
      <4>3. CASE q = r
        BY <1>6, <1>11, <4>2, <4>3
      <4>4. CASE q # r
        <5>1. row[r] = ls[t][r]
          BY <1>11, <4>4
        <5> QED
          BY <4>2, <4>4, <5>1
      <4> QED
        BY <4>2, <4>3, <4>4
    <3>2. "Batsman" \in Icc!Roles /\ "Bowler" \in Icc!Roles /\ "All-rounder" \in Icc!Roles
      BY DEF Icc!Roles
    <3> DEFINE a == Len(ls[t]["Batsman"])
               b == Len(ls[t]["Bowler"])
               c == Len(ls[t]["All-rounder"])
               a2 == Len(row["Batsman"])
               b2 == Len(row["Bowler"])
               c2 == Len(row["All-rounder"])
    <3>3. a \in Nat /\ a2 = a + (IF q = "Batsman" THEN 1 ELSE 0)
      BY <3>1, <3>2
    <3>4. b \in Nat /\ b2 = b + (IF q = "Bowler" THEN 1 ELSE 0)
      BY <3>1, <3>2
    <3>5. c \in Nat /\ c2 = c + (IF q = "All-rounder" THEN 1 ELSE 0)
      BY <3>1, <3>2
    <3>6. a2 + b2 + c2 = a + b + c + 1
      <4>1. q = "Batsman" \/ q = "Bowler" \/ q = "All-rounder"
        BY <1>1 DEF Icc!Roles
      <4> HIDE DEF a, b, c, a2, b2, c2
      <4>2. CASE q = "Batsman"
        <5>1. a2 = a + 1 /\ b2 = b + 0 /\ c2 = c + 0
          BY ONLY <3>3, <3>4, <3>5, <4>2
        <5> QED
          BY ONLY <3>3, <3>4, <3>5, <5>1
      <4>3. CASE q = "Bowler"
        <5>1. a2 = a + 0 /\ b2 = b + 1 /\ c2 = c + 0
          BY ONLY <3>3, <3>4, <3>5, <4>3
        <5> QED
          BY ONLY <3>3, <3>4, <3>5, <5>1
      <4>4. CASE q = "All-rounder"
        <5>1. a2 = a + 0 /\ b2 = b + 0 /\ c2 = c + 1
          BY ONLY <3>3, <3>4, <3>5, <4>4
        <5> QED
          BY ONLY <3>3, <3>4, <3>5, <5>1
      <4> QED
        BY <4>1, <4>2, <4>3, <4>4
    <3>7. Len(row["Batsman"]) + Len(row["Bowler"]) + Len(row["All-rounder"]) =
            Len(ls[t]["Batsman"]) + Len(ls[t]["Bowler"]) + Len(ls[t]["All-rounder"]) + 1
      BY <3>6
    <3> QED
      BY <1>3, <1>5, <1>7, <1>12, <1>13, <2>1, <3>7
  <2>2. CASE u # t
    <3>1. tm2[u] = tm[u] /\ ls2[u] = ls[u]
      BY <1>12, <1>13, <2>2
    <3>2. TotalsRight(ps, n + 1, u, tm[u])
      BY <1>2, <1>14, <2>2, TotalsWithoutNext
    <3> QED
      BY <1>3, <3>1, <3>2
  <2> QED
    BY <2>1, <2>2
<1>17. TablesRight(ps, n + 1, ls2, tm2)
  BY <1>12, <1>13, <1>15, <1>16 DEF TablesRight
<1> QED
  BY <1>17 DEF ls2, tm2, q

(***************************************************************************)
(* The players: the players of a role.                                     *)
(***************************************************************************)
\* The lists of role r of all teams, one behind the other.
Joined(ls, r) ==
  LET taken[t \in 0 .. Len(Teams)] == IF t = 0 THEN <<>> ELSE taken[t - 1] \o ls[t][r]
  IN  taken[Len(Teams)]

\* The first n players of the first i teams in role r.
InTeams(ps, n, i, r) == UNION {InTeam(ps, n, t, {r}) : t \in 1 .. i}

LEMMA ConcatMembers ==
  ASSUME NEW S, NEW s \in Seq(S), NEW q \in Seq(S)
  PROVE  s \o q \in Seq(S) /\ Len(s \o q) = Len(s) + Len(q) /\ ToSet(s \o q) = ToSet(s) \cup ToSet(q)
<1> DEFINE m == Len(s)
           n == Len(q)
           u == s \o q
<1>1. m \in Nat /\ n \in Nat
  OBVIOUS
<1>2. /\ u \in Seq(S) /\ Len(u) = m + n
      /\ \A k \in 1 .. m + n : u[k] = IF k <= m THEN s[k] ELSE q[k - m]
  BY ConcatProperties
<1>3. /\ \A x : x \in ToSet(s) <=> \E k \in 1 .. m : s[k] = x
      /\ \A x : x \in ToSet(q) <=> \E k \in 1 .. n : q[k] = x
      /\ \A x : x \in ToSet(u) <=> \E k \in 1 .. m + n : u[k] = x
  <2>1. DOMAIN s = 1 .. m /\ DOMAIN q = 1 .. n
    OBVIOUS
  <2>2. DOMAIN u = 1 .. m + n
    <3> HIDE DEF u
    <3> QED
      BY <1>2
  <2> HIDE DEF u, m, n
  <2> QED
    BY <2>1, <2>2 DEF ToSet
<1> HIDE DEF m, n, u
<1>4. ASSUME NEW x, x \in ToSet(u) PROVE x \in ToSet(s) \cup ToSet(q)
  <2>1. PICK k \in 1 .. m + n : u[k] = x
    BY <1>3, <1>4
  <2>2. CASE k <= m
    <3>1. k \in 1 .. m
      BY <1>1, <2>2
    <3> QED
      BY <1>2, <1>3, <2>1, <2>2, <3>1
  <2>3. CASE ~(k <= m)
    <3>1. k - m \in 1 .. n
      BY <1>1, <2>3
    <3>2. q[k - m] = x
      BY <1>2, <2>1, <2>3
    <3> QED
      BY <1>3, <3>1, <3>2
  <2> QED
    BY <2>2, <2>3
<1>5. ASSUME NEW x, x \in ToSet(s) PROVE x \in ToSet(u)
  <2>1. PICK k \in 1 .. m : s[k] = x
    BY <1>3, <1>5
  <2>2. k \in 1 .. m + n /\ k <= m
    BY <1>1
  <2> QED
    BY <1>2, <1>3, <2>1, <2>2
<1>6. ASSUME NEW x, x \in ToSet(q) PROVE x \in ToSet(u)
  <2>1. PICK k \in 1 .. n : q[k] = x
    BY <1>3, <1>6
  <2>2. k + m \in 1 .. m + n /\ ~(k + m <= m) /\ (k + m) - m = k
    BY <1>1
  <2>3. u[k + m] = x
    BY <1>2, <2>1, <2>2
  <2> QED
    BY <1>3, <2>2, <2>3
<1>7. ToSet(u) = ToSet(s) \cup ToSet(q)
  BY <1>4, <1>5, <1>6
<1> QED
  BY <1>2, <1>7 DEF u, m, n

\* All players of the first i teams in role r, each once.
JoinedUpTo(ps, n, i, r, s) ==
  /\ s \in Seq(Players)
  /\ ToSet(s) = {ps[k] : k \in InTeams(ps, n, i, r)}
  /\ IsFiniteSet(InTeams(ps, n, i, r))
  /\ Len(s) = Cardinality(InTeams(ps, n, i, r))

LEMMA JoinNext ==
  ASSUME NEW ps, NEW n \in Nat, NEW i \in 1 .. Len(Teams), NEW r, NEW s, NEW l,
         JoinedUpTo(ps, n, i - 1, r, s), ListRight(ps, n, i, r, l)
  PROVE  JoinedUpTo(ps, n, i, r, s \o l)
<1> DEFINE A == InTeams(ps, n, i - 1, r)
           B == InTeam(ps, n, i, {r})
           C == InTeams(ps, n, i, r)
<1> HIDE DEF Players
<1>1. C = A \cup B
  <2>1. Len(Teams) \in Nat
    BY TeamsInOrder
  <2>2. \A t : t \in 1 .. i <=> t \in 1 .. i - 1 \/ t = i
    BY <2>1
  <2> QED
    BY <2>2 DEF InTeams
<1>2. A \cap B = {}
  <2> SUFFICES ASSUME NEW k, k \in A, k \in B PROVE FALSE
    OBVIOUS
  <2>1. PICK t \in 1 .. i - 1 : k \in InTeam(ps, n, t, {r})
    BY DEF InTeams
  <2>2. ps[k].team = Teams[t] /\ ps[k].team = Teams[i]
    BY <2>1 DEF InTeam
  <2>3. t \in 1 .. Len(Teams) /\ t # i
    BY TeamsInOrder
  <2> QED
    BY <2>2, <2>3, TeamsInOrder
<1>3. IsFiniteSet(B) /\ Cardinality(B) \in Nat
  BY InTeamCount
<1>4. /\ s \in Seq(Players) /\ ToSet(s) = {ps[k] : k \in A}
      /\ IsFiniteSet(A) /\ Len(s) = Cardinality(A)
      /\ l \in Seq(Players) /\ ToSet(l) = {ps[k] : k \in B} /\ Len(l) = Cardinality(B)
  BY DEF JoinedUpTo, ListRight
<1> HIDE DEF A, B, C
<1>5. /\ s \o l \in Seq(Players) /\ Len(s \o l) = Len(s) + Len(l)
      /\ ToSet(s \o l) = ToSet(s) \cup ToSet(l)
  BY <1>4, ConcatMembers
<1>6. IsFiniteSet(C) /\ Cardinality(C) = Cardinality(A) + Cardinality(B)
  <2>1. IsFiniteSet(A \cup B)
        /\ Cardinality(A \cup B) = Cardinality(A) + Cardinality(B) - Cardinality(A \cap B)
    BY <1>3, <1>4, FS_Union
  <2>2. Cardinality(A \cap B) = 0 /\ Cardinality(A) \in Nat
    BY <1>2, <1>4, FS_EmptySet, FS_CardinalityType
  <2> QED
    BY <1>1, <1>3, <2>1, <2>2
<1>7. ToSet(s \o l) = {ps[k] : k \in C}
  BY <1>1, <1>4, <1>5
<1>8. Len(s \o l) = Cardinality(C)
  BY <1>4, <1>5, <1>6
<1> QED
  BY <1>5, <1>6, <1>7, <1>8 DEF JoinedUpTo, C

\* What stands in allRolePlayers: the players of the role in any team, each once.
LEMMA JoinedFacts ==
  ASSUME NEW ps, NEW n \in Nat, NEW ls, NEW tm, TablesRight(ps, n, ls, tm), NEW r \in Icc!Roles
  PROVE  JoinedUpTo(ps, n, Len(Teams), r, Joined(ls, r))
<1> DEFINE N == Len(Teams)
           R(f) == f = [t \in 0 .. N |-> IF t = 0 THEN <<>> ELSE f[t - 1] \o ls[t][r]]
           g == CHOOSE f : R(f)
           V == Seq(Players)
           stepOf == [t \in 1 .. N |-> [x \in V |-> x \o ls[t][r]]]
<1> HIDE DEF Players
<1>1. N \in Nat /\ Icc!TeamIds = 1 .. N
  BY TeamsInOrder
<1>2. Joined(ls, r) = g[N]
  BY DEF Joined
<1>3. \A t \in 1 .. N : ls[t][r] \in V /\ ListRight(ps, n, t, r, ls[t][r])
  BY <1>1 DEF TablesRight
<1> HIDE DEF N
<1>4. PICK f : Computes(f, V, <<>>, N, stepOf)
  <2>1. ASSUME NEW t \in 1 .. N PROVE stepOf[t] \in [V -> V]
    <3>1. \A x \in V : x \o ls[t][r] \in V
      BY <1>3, ConcatProperties
    <3> QED
      BY <3>1
  <2>2. <<>> \in V
    OBVIOUS
  <2> HIDE DEF stepOf, V
  <2>3. Steps(V, <<>>, N, stepOf)
    BY <1>1, <2>1, <2>2 DEF Steps
  <2> QED
    BY <2>3, RecursionExists
<1>5. R(f)
  <2> HIDE DEF V
  <2>1. f \in [0 .. N -> V] /\ f[0] = <<>> /\ \A t \in 1 .. N : f[t] = stepOf[t][f[t - 1]]
    BY <1>4 DEF Computes
  <2>2. \A t \in 1 .. N : f[t - 1] \in V
    BY <1>1, <2>1
  <2>3. \A t \in 1 .. N : f[t] = f[t - 1] \o ls[t][r]
    BY <2>1, <2>2
  <2>4. \A t \in 0 .. N : t = 0 \/ (t # 0 /\ t \in 1 .. N)
    BY <1>1
  <2>5. \A t \in 0 .. N : f[t] = IF t = 0 THEN <<>> ELSE f[t - 1] \o ls[t][r]
    BY Zenon, <2>1, <2>3, <2>4
  <2>6. f = [t \in 0 .. N |-> f[t]]
    BY <2>1
  <2> QED
    BY Zenon, <2>5, <2>6
<1>6. R(g)
  <2> HIDE DEF R
  <2> QED
    BY <1>5
<1> HIDE DEF g
<1>7. g[0] = <<>> /\ \A t \in 1 .. N : g[t] = g[t - 1] \o ls[t][r]
  <2> DEFINE b(t) == IF t = 0 THEN <<>> ELSE g[t - 1] \o ls[t][r]
  <2>1. g = [t \in 0 .. N |-> b(t)]
    BY <1>6
  <2> HIDE DEF b
  <2>2. \A t \in 0 .. N : g[t] = b(t)
    BY Zenon, <2>1
  <2>3. 0 \in 0 .. N /\ \A t \in 1 .. N : t \in 0 .. N /\ t # 0
    BY <1>1
  <2> QED
    BY Zenon, <2>2, <2>3 DEF b
<1> DEFINE U == {t \in 0 .. N : JoinedUpTo(ps, n, t, r, g[t])}
<1>8. 0 \in U
  <2>1. InTeams(ps, n, 0, r) = {}
    BY DEF InTeams
  <2>2. JoinedUpTo(ps, n, 0, r, <<>>)
    <3>1. <<>> \in Seq(Players) /\ Len(<<>>) = 0 /\ ToSet(<<>>) = {}
      BY DEF ToSet
    <3>2. IsFiniteSet({}) /\ Cardinality({}) = 0
      BY FS_EmptySet
    <3> QED
      BY <2>1, <3>1, <3>2 DEF JoinedUpTo
  <2> QED
    BY <1>1, <1>7, <2>2
<1>9. \A t \in 1 .. N : t - 1 \in U => t \in U
  <2> SUFFICES ASSUME NEW t \in 1 .. N, t - 1 \in U PROVE t \in U
    OBVIOUS
  <2>1. JoinedUpTo(ps, n, t - 1, r, g[t - 1]) /\ t \in 0 .. N
    BY <1>1
  <2>2. JoinedUpTo(ps, n, t, r, g[t - 1] \o ls[t][r])
    <3>1. t \in 1 .. Len(Teams)
      BY DEF N
    <3> QED
      BY <1>3, <2>1, <3>1, JoinNext
  <2> QED
    BY <1>7, <2>1, <2>2
<1> HIDE DEF U
<1>10. 0 .. N \subseteq U
  BY <1>1, <1>8, <1>9, UpTo
<1>11. N \in 0 .. N
  BY <1>1
<1> QED
  BY <1>2, <1>10, <1>11 DEF U, N

(***************************************************************************)
(* The players: the quicksort.                                             *)
(***************************************************************************)
Rows == [id : Int, key : Int \X (Nat \ {0})]

\* A fraction with a positive denominator is greater than another.
LEMMA Scaled ==
  \A a, b \in Int, c \in Nat \ {0} : (a <= b => a * c <= b * c) /\ (a < b => a * c < b * c)
OBVIOUS

LEMMA FractionsInOrder ==
  ASSUME NEW x1 \in Int, NEW y1 \in Int, NEW z1 \in Int,
         NEW x2 \in Nat \ {0}, NEW y2 \in Nat \ {0}, NEW z2 \in Nat \ {0},
         x1 * y2 > y1 * x2, y1 * z2 > z1 * y2
  PROVE  x1 * z2 > z1 * x2
<1>1. (z1 * y2) * x2 < (y1 * z2) * x2
  <2>1. z1 * y2 \in Int /\ y1 * z2 \in Int
    OBVIOUS
  <2> QED
    BY <2>1, Scaled
<1>2. (y1 * x2) * z2 < (x1 * y2) * z2
  <2>1. y1 * x2 \in Int /\ x1 * y2 \in Int
    OBVIOUS
  <2> QED
    BY <2>1, Scaled
<1>3. (y1 * z2) * x2 = (y1 * x2) * z2
  OBVIOUS
<1>4. (z1 * y2) * x2 = (z1 * x2) * y2 /\ (x1 * y2) * z2 = (x1 * z2) * y2
  OBVIOUS
<1>5. /\ (z1 * x2) * y2 \in Int /\ (x1 * z2) * y2 \in Int
      /\ (y1 * z2) * x2 \in Int /\ (y1 * x2) * z2 \in Int
  OBVIOUS
<1>6. (z1 * x2) * y2 < (x1 * z2) * y2
  BY ONLY <1>1, <1>2, <1>3, <1>4, <1>5
<1>7. ASSUME ~(x1 * z2 > z1 * x2) PROVE FALSE
  <2>1. x1 * z2 \in Int /\ z1 * x2 \in Int
    OBVIOUS
  <2>2. x1 * z2 <= z1 * x2
    BY ONLY <1>7, <2>1
  <2>3. (x1 * z2) * y2 <= (z1 * x2) * y2
    BY <2>1, <2>2, Scaled
  <2> QED
    BY ONLY <1>5, <1>6, <2>3
<1> QED
  BY <1>7

\* No row is greater than one that is greater than it, and what is greater than
\* a greater row is greater.
LEMMA GreaterOrder ==
  ASSUME NEW x \in Rows, NEW y \in Rows, NEW z \in Rows, Icc!Greater(x, y)
  PROVE  ~Icc!Greater(y, x) /\ (Icc!Greater(y, z) => Icc!Greater(x, z))
<1>1. /\ x.key[1] \in Int /\ y.key[1] \in Int /\ z.key[1] \in Int
      /\ x.key[2] \in Nat \ {0} /\ y.key[2] \in Nat \ {0} /\ z.key[2] \in Nat \ {0}
  BY DEF Rows
<1>2. x.key[1] * y.key[2] > y.key[1] * x.key[2]
  BY DEF Icc!Greater
<1>3. ~Icc!Greater(y, x)
  <2>1. x.key[1] * y.key[2] \in Int /\ y.key[1] * x.key[2] \in Int
    BY <1>1
  <2> QED
    BY <1>2, <2>1 DEF Icc!Greater
<1>4. ASSUME Icc!Greater(y, z) PROVE Icc!Greater(x, z)
  <2>1. y.key[1] * z.key[2] > z.key[1] * y.key[2]
    BY <1>4 DEF Icc!Greater
  <2>2. x.key[1] * z.key[2] > z.key[1] * x.key[2]
    BY ONLY <1>1, <1>2, <2>1, FractionsInOrder
  <2> QED
    BY <2>2 DEF Icc!Greater
<1> QED
  BY <1>3, <1>4

\* u is s with the members at i and j exchanged.
IsExchanged(u, S, s, i, j) ==
  /\ u \in Seq(S) /\ Len(u) = Len(s)
  /\ u[i] = s[j] /\ u[j] = s[i]
  /\ \A k \in 1 .. Len(s) : k # i /\ k # j => u[k] = s[k]
  /\ ToSet(u) = ToSet(s)

LEMMA ExchangedFacts ==
  ASSUME NEW S, NEW s \in Seq(S), NEW i \in 1 .. Len(s), NEW j \in 1 .. Len(s)
  PROVE  IsExchanged(Icc!Exchanged(s, i, j), S, s, i, j)
<1> DEFINE u == Icc!Exchanged(s, i, j)
           n == Len(s)
<1>1. n \in Nat /\ s \in [1 .. n -> S] /\ DOMAIN s = 1 .. n
  OBVIOUS
<1>2. u = [s EXCEPT ![i] = s[j], ![j] = s[i]]
  BY DEF Icc!Exchanged
<1>3. i \in 1 .. n /\ j \in 1 .. n
  OBVIOUS
<1> HIDE DEF u, n
<1>4. /\ u \in [1 .. n -> S]
      /\ u[i] = s[j] /\ u[j] = s[i] /\ \A k \in 1 .. n : k # i /\ k # j => u[k] = s[k]
  BY ONLY <1>1, <1>2, <1>3
<1>5. u \in Seq(S) /\ Len(u) = n /\ DOMAIN u = 1 .. n
  BY ONLY <1>1, <1>4
<1>6. ToSet(u) = ToSet(s)
  <2>1. ASSUME NEW x, x \in ToSet(u) PROVE x \in ToSet(s)
    <3>1. PICK k \in 1 .. n : u[k] = x
      BY <1>5, <2>1 DEF ToSet
    <3>2. \E m \in 1 .. n : s[m] = x
      BY <1>3, <1>4, <3>1
    <3> QED
      BY <1>1, <3>2 DEF ToSet
  <2>2. ASSUME NEW x, x \in ToSet(s) PROVE x \in ToSet(u)
    <3>1. PICK k \in 1 .. n : s[k] = x
      BY <1>1, <2>2 DEF ToSet
    <3>2. \E m \in 1 .. n : u[m] = x
      BY <1>3, <1>4, <3>1
    <3> QED
      BY <1>5, <3>2 DEF ToSet
  <2> QED
    BY <2>1, <2>2
<1> QED
  BY <1>4, <1>5, <1>6 DEF IsExchanged, u, n

\* After n turns of partition on s, lo and hi: the rows greater than the pivot
\* stand at lo .. index, the other ones seen behind them.
MovedRight(s, lo, hi, n, x) ==
  /\ x.rows \in Seq(Rows) /\ Len(x.rows) = Len(s)
  /\ x.index \in lo - 1 .. lo + n - 1
  /\ \A k \in 1 .. Len(s) : k \notin lo .. hi - 1 => x.rows[k] = s[k]
  /\ \A k \in lo .. hi - 1 : \E m \in lo .. hi - 1 : x.rows[k] = s[m]
  /\ ToSet(x.rows) = ToSet(s)
  /\ \A k \in lo .. x.index : Icc!Greater(x.rows[k], s[hi])
  /\ \A k \in x.index + 1 .. lo + n - 1 : ~Icc!Greater(x.rows[k], s[hi])

LEMMA MovedNext ==
  ASSUME NEW s \in Seq(Rows), NEW lo \in 1 .. Len(s), NEW hi \in 1 .. Len(s), lo < hi,
         NEW n \in 1 .. hi - lo, NEW x, x = [rows |-> x.rows, index |-> x.index],
         MovedRight(s, lo, hi, n - 1, x)
  PROVE  LET y == Icc!Moved(x, lo + n - 1, s[hi])
         IN  y = [rows |-> y.rows, index |-> y.index] /\ MovedRight(s, lo, hi, n, y)
<1> DEFINE N == Len(s)
           R == x.rows
           a == x.index
           c == lo + n - 1
           pivot == s[hi]
           y == Icc!Moved(x, c, pivot)
<1> HIDE DEF Rows
<1>1. /\ N \in Nat /\ lo \in 1 .. N /\ hi \in 1 .. N /\ n \in 1 .. hi - lo
      /\ R \in Seq(Rows) /\ Len(R) = N
      /\ a \in lo - 1 .. lo + (n - 1) - 1
      /\ \A k \in 1 .. N : k \notin lo .. hi - 1 => R[k] = s[k]
      /\ \A k \in lo .. hi - 1 : \E m \in lo .. hi - 1 : R[k] = s[m]
      /\ ToSet(R) = ToSet(s)
      /\ \A k \in lo .. a : Icc!Greater(R[k], pivot)
      /\ \A k \in a + 1 .. lo + (n - 1) - 1 : ~Icc!Greater(R[k], pivot)
  <2>1. N \in Nat /\ lo \in 1 .. N /\ hi \in 1 .. N /\ n \in 1 .. hi - lo
    OBVIOUS
  <2>2. /\ R \in Seq(Rows) /\ Len(R) = N
        /\ a \in lo - 1 .. lo + (n - 1) - 1
        /\ \A k \in 1 .. N : k \notin lo .. hi - 1 => R[k] = s[k]
        /\ \A k \in lo .. hi - 1 : \E m \in lo .. hi - 1 : R[k] = s[m]
        /\ ToSet(R) = ToSet(s)
        /\ \A k \in lo .. a : Icc!Greater(R[k], pivot)
        /\ \A k \in a + 1 .. lo + (n - 1) - 1 : ~Icc!Greater(R[k], pivot)
    BY ONLY MovedRight(s, lo, hi, n - 1, x), Zenon DEF MovedRight
  <2> QED
    BY ONLY <2>1, <2>2, Zenon
<1>2. y = IF Icc!Greater(R[c], pivot)
          THEN [rows |-> Icc!Exchanged(R, c, a + 1), index |-> a + 1] ELSE x
  BY DEF Icc!Moved
<1>3. c \in lo .. hi - 1 /\ c \in 1 .. N /\ c = lo + n - 1 /\ lo + (n - 1) - 1 = c - 1
  BY ONLY <1>1 DEF c
<1> HIDE DEF N, R, a, c, pivot, y
<1>4. CASE ~Icc!Greater(R[c], pivot)
  <2>1. y = x
    BY <1>2, <1>4
  <2>2. a \in lo - 1 .. c
    BY ONLY <1>1, <1>3
  <2>3. \A k \in a + 1 .. c : ~Icc!Greater(R[k], pivot)
    <3> SUFFICES ASSUME NEW k \in a + 1 .. c PROVE ~Icc!Greater(R[k], pivot)
      OBVIOUS
    <3>1. k = c \/ k \in a + 1 .. lo + (n - 1) - 1
      BY ONLY <1>1, <1>3, k \in a + 1 .. c
    <3> QED
      BY <1>1, <1>4, <3>1
  <2>4. MovedRight(s, lo, hi, n, x)
    BY ONLY <1>1, <1>3, <2>2, <2>3 DEF MovedRight, N, R, a, c, pivot
  <2> QED
    BY <2>1, <2>4 DEF y, c, pivot
<1>5. CASE Icc!Greater(R[c], pivot)
  <2> DEFINE e == a + 1
             Q == Icc!Exchanged(R, c, e)
  <2>1. y = [rows |-> Q, index |-> e]
    BY <1>2, <1>5
  <2>2. e \in lo .. c /\ e \in lo .. hi - 1 /\ e \in 1 .. N /\ a = e - 1
    BY ONLY <1>1, <1>3 DEF e
  <2>3. c \in 1 .. Len(R) /\ e \in 1 .. Len(R)
    BY <1>1, <1>3, <2>2
  <2> HIDE DEF e
  <2>4. /\ Q \in Seq(Rows) /\ Len(Q) = N
        /\ Q[c] = R[e] /\ Q[e] = R[c]
        /\ \A k \in 1 .. N : k # c /\ k # e => Q[k] = R[k]
        /\ ToSet(Q) = ToSet(R)
    <3>1. R \in Seq(Rows) /\ Len(R) = N
      BY <1>1
    <3>2. IsExchanged(Q, Rows, R, c, e)
      BY ONLY <2>3, <3>1, ExchangedFacts DEF Q
    <3> HIDE DEF Q
    <3> QED
      BY ONLY <3>1, <3>2 DEF IsExchanged
  <2> HIDE DEF Q
  <2>5. \A k \in 1 .. N : k \notin lo .. hi - 1 => Q[k] = s[k]
    BY <1>1, <1>3, <2>2, <2>4
  <2>6. ASSUME NEW k \in lo .. hi - 1 PROVE \E m \in lo .. hi - 1 : Q[k] = s[m]
    <3>1. \E j \in lo .. hi - 1 : Q[k] = R[j]
      <4>1. k \in 1 .. N
        BY ONLY <1>1, k \in lo .. hi - 1
      <4> QED
        BY <1>3, <2>2, <2>4, <4>1
    <3> QED
      BY <1>1, <3>1
  <2>7. ASSUME NEW k \in lo .. e PROVE Icc!Greater(Q[k], pivot)
    <3>1. CASE k = e
      BY <1>5, <2>4, <3>1
    <3>2. CASE k # e
      <4>1. k \in lo .. a /\ k # c /\ k \in 1 .. N
        BY ONLY <1>1, <1>3, <2>2, <3>2, k \in lo .. e
      <4> QED
        BY <1>1, <2>4, <3>2, <4>1
    <3> QED
      BY <3>1, <3>2
  <2>8. ASSUME NEW k \in e + 1 .. c PROVE ~Icc!Greater(Q[k], pivot)
    <3>1. CASE k = c
      <4>1. e \in a + 1 .. lo + (n - 1) - 1
        BY ONLY <1>1, <1>3, <2>2, <3>1, k \in e + 1 .. c
      <4> QED
        BY <1>1, <2>4, <3>1, <4>1
    <3>2. CASE k # c
      <4>1. k \in a + 1 .. lo + (n - 1) - 1 /\ k # e /\ k \in 1 .. N
        BY ONLY <1>1, <1>3, <2>2, <3>2, k \in e + 1 .. c
      <4> QED
        BY <1>1, <2>4, <3>2, <4>1
    <3> QED
      BY <3>1, <3>2
  <2>9. e \in lo - 1 .. c
    BY ONLY <1>1, <1>3, <2>2
  <2>10. y.rows = Q /\ y.index = e /\ y = [rows |-> y.rows, index |-> y.index]
    BY ONLY <2>1
  <2>11. MovedRight(s, lo, hi, n, y)
    <3>1. y.rows \in Seq(Rows) /\ Len(y.rows) = Len(s) /\ ToSet(y.rows) = ToSet(s)
      BY ONLY <1>1, <2>4, <2>10 DEF N
    <3>2. y.index \in lo - 1 .. lo + n - 1
      BY ONLY <1>3, <2>9, <2>10
    <3>3. \A k \in 1 .. Len(s) : k \notin lo .. hi - 1 => y.rows[k] = s[k]
      BY ONLY <2>5, <2>10 DEF N
    <3>4. \A k \in lo .. hi - 1 : \E m \in lo .. hi - 1 : y.rows[k] = s[m]
      BY ONLY <2>6, <2>10
    <3>5. \A k \in lo .. y.index : Icc!Greater(y.rows[k], s[hi])
      BY ONLY <2>7, <2>10 DEF pivot
    <3>6. \A k \in y.index + 1 .. lo + n - 1 : ~Icc!Greater(y.rows[k], s[hi])
      BY ONLY <1>3, <2>8, <2>10 DEF pivot
    <3> QED
      BY ONLY <3>1, <3>2, <3>3, <3>4, <3>5, <3>6 DEF MovedRight
  <2> QED
    BY <2>10, <2>11 DEF y, c, pivot
<1> QED
  BY <1>4, <1>5

\* What partition makes of lo .. hi: the rows greater than the pivot, the pivot,
\* the rest; the rows elsewhere stay.
Partitioned(s, lo, hi, x) ==
  /\ x.rows \in Seq(Rows) /\ Len(x.rows) = Len(s)
  /\ x.index \in lo .. hi
  /\ \A k \in 1 .. Len(s) : k \notin lo .. hi => x.rows[k] = s[k]
  /\ \A k \in lo .. hi : \E m \in lo .. hi : x.rows[k] = s[m]
  /\ ToSet(x.rows) = ToSet(s)
  /\ \A k \in lo .. x.index - 1 : Icc!Greater(x.rows[k], s[hi])
  /\ x.rows[x.index] = s[hi]
  /\ \A k \in x.index + 1 .. hi : ~Icc!Greater(x.rows[k], s[hi])

LEMMA PivotLast ==
  ASSUME NEW s \in Seq(Rows), NEW lo \in 1 .. Len(s), NEW hi \in 1 .. Len(s), lo < hi,
         NEW x, MovedRight(s, lo, hi, hi - lo, x)
  PROVE  Partitioned(s, lo, hi,
           [rows |-> Icc!Exchanged(x.rows, x.index + 1, hi), index |-> x.index + 1])
<1> DEFINE N == Len(s)
           R == x.rows
           a == x.index
           p == a + 1
           pivot == s[hi]
           Q == Icc!Exchanged(R, p, hi)
           y == [rows |-> Q, index |-> p]
<1> HIDE DEF Rows
<1>1. /\ N \in Nat /\ lo \in 1 .. N /\ hi \in 1 .. N /\ lo < hi
      /\ R \in Seq(Rows) /\ Len(R) = N
      /\ a \in lo - 1 .. lo + (hi - lo) - 1
      /\ \A k \in 1 .. N : k \notin lo .. hi - 1 => R[k] = s[k]
      /\ \A k \in lo .. hi - 1 : \E m \in lo .. hi - 1 : R[k] = s[m]
      /\ ToSet(R) = ToSet(s)
      /\ \A k \in lo .. a : Icc!Greater(R[k], pivot)
      /\ \A k \in a + 1 .. lo + (hi - lo) - 1 : ~Icc!Greater(R[k], pivot)
  <2>1. N \in Nat /\ lo \in 1 .. N /\ hi \in 1 .. N /\ lo < hi
    OBVIOUS
  <2>2. /\ R \in Seq(Rows) /\ Len(R) = N
        /\ a \in lo - 1 .. lo + (hi - lo) - 1
        /\ \A k \in 1 .. N : k \notin lo .. hi - 1 => R[k] = s[k]
        /\ \A k \in lo .. hi - 1 : \E m \in lo .. hi - 1 : R[k] = s[m]
        /\ ToSet(R) = ToSet(s)
        /\ \A k \in lo .. a : Icc!Greater(R[k], pivot)
        /\ \A k \in a + 1 .. lo + (hi - lo) - 1 : ~Icc!Greater(R[k], pivot)
    BY ONLY MovedRight(s, lo, hi, hi - lo, x), Zenon DEF MovedRight
  <2> QED
    BY ONLY <2>1, <2>2, Zenon
<1> HIDE DEF N, R, a, pivot
<1>2. /\ p \in lo .. hi /\ p \in 1 .. N /\ a = p - 1 /\ lo + (hi - lo) - 1 = hi - 1
      /\ hi \in lo .. hi
  BY ONLY <1>1 DEF p
<1>3. R[hi] = pivot
  <2>1. hi \notin lo .. hi - 1
    BY ONLY <1>1
  <2> QED
    BY <1>1, <2>1 DEF pivot
<1> HIDE DEF p
<1>4. /\ Q \in Seq(Rows) /\ Len(Q) = N /\ ToSet(Q) = ToSet(R)
      /\ Q[p] = pivot /\ Q[hi] = R[p]
      /\ \A k \in 1 .. N : k # p /\ k # hi => Q[k] = R[k]
  <2>1. R \in Seq(Rows) /\ Len(R) = N /\ p \in 1 .. Len(R) /\ hi \in 1 .. Len(R)
    BY <1>1, <1>2
  <2>2. IsExchanged(Q, Rows, R, p, hi)
    BY ONLY <2>1, ExchangedFacts DEF Q
  <2> HIDE DEF Q
  <2> QED
    BY ONLY <1>3, <2>1, <2>2 DEF IsExchanged
<1> HIDE DEF Q
<1>5. \A k \in lo .. hi : \E m \in lo .. hi : R[k] = s[m]
  <2> SUFFICES ASSUME NEW k \in lo .. hi PROVE \E m \in lo .. hi : R[k] = s[m]
    OBVIOUS
  <2>1. CASE k = hi
    BY <1>2, <1>3, <2>1 DEF pivot
  <2>2. CASE k # hi
    <3>1. k \in lo .. hi - 1
      BY ONLY <1>1, <2>2, k \in lo .. hi
    <3>2. PICK m \in lo .. hi - 1 : R[k] = s[m]
      BY <1>1, <3>1
    <3>3. m \in lo .. hi
      BY ONLY <1>1, m \in lo .. hi - 1
    <3> QED
      BY <3>2, <3>3
  <2> QED
    BY <2>1, <2>2
<1>6. ASSUME NEW k \in lo .. hi PROVE \E m \in lo .. hi : Q[k] = s[m]
  <2>1. \E j \in lo .. hi : Q[k] = R[j]
    <3>1. k \in 1 .. N
      BY ONLY <1>1, k \in lo .. hi
    <3>2. Q[p] = R[hi]
      BY <1>3, <1>4
    <3> QED
      BY <1>2, <1>4, <3>1, <3>2
  <2> QED
    BY <1>5, <2>1
<1>7. ASSUME NEW k \in 1 .. N, k \notin lo .. hi PROVE Q[k] = s[k]
  <2>1. k # p /\ k # hi /\ k \notin lo .. hi - 1
    BY ONLY <1>1, <1>2, <1>7
  <2> QED
    BY <1>1, <1>4, <2>1
<1>8. ASSUME NEW k \in lo .. p - 1 PROVE Icc!Greater(Q[k], pivot)
  <2>1. k \in lo .. a /\ k # p /\ k # hi /\ k \in 1 .. N
    BY ONLY <1>1, <1>2, k \in lo .. p - 1
  <2> QED
    BY <1>1, <1>4, <2>1
<1>9. ASSUME NEW k \in p + 1 .. hi PROVE ~Icc!Greater(Q[k], pivot)
  <2>1. CASE k = hi
    <3>1. p \in a + 1 .. lo + (hi - lo) - 1
      BY ONLY <1>1, <1>2, <2>1, k \in p + 1 .. hi
    <3> QED
      BY <1>1, <1>4, <2>1, <3>1
  <2>2. CASE k # hi
    <3>1. k \in a + 1 .. lo + (hi - lo) - 1 /\ k # p /\ k \in 1 .. N
      BY ONLY <1>1, <1>2, <2>2, k \in p + 1 .. hi
    <3> QED
      BY <1>1, <1>4, <2>2, <3>1
  <2> QED
    BY <2>1, <2>2
<1>10. y.rows = Q /\ y.index = p
  OBVIOUS
<1> HIDE DEF y
<1>11. Partitioned(s, lo, hi, y)
  <2>1. y.rows \in Seq(Rows) /\ Len(y.rows) = Len(s) /\ ToSet(y.rows) = ToSet(s)
    BY ONLY <1>1, <1>4, <1>10 DEF N
  <2>2. y.index \in lo .. hi
    BY ONLY <1>2, <1>10
  <2>3. \A k \in 1 .. Len(s) : k \notin lo .. hi => y.rows[k] = s[k]
    BY ONLY <1>7, <1>10 DEF N
  <2>4. \A k \in lo .. hi : \E m \in lo .. hi : y.rows[k] = s[m]
    BY ONLY <1>6, <1>10
  <2>5. \A k \in lo .. y.index - 1 : Icc!Greater(y.rows[k], s[hi])
    BY ONLY <1>8, <1>10 DEF pivot
  <2>6. y.rows[y.index] = s[hi]
    BY ONLY <1>4, <1>10 DEF pivot
  <2>7. \A k \in y.index + 1 .. hi : ~Icc!Greater(y.rows[k], s[hi])
    BY ONLY <1>9, <1>10 DEF pivot
  <2> QED
    BY ONLY <2>1, <2>2, <2>3, <2>4, <2>5, <2>6, <2>7 DEF Partitioned
<1> QED
  BY <1>11 DEF y, Q, p, R, a

LEMMA PartitionRight ==
  ASSUME NEW s \in Seq(Rows), NEW lo \in 1 .. Len(s), NEW hi \in 1 .. Len(s), lo < hi
  PROVE  Partitioned(s, lo, hi, Icc!partition(s, lo, hi))
<1> DEFINE M == hi - lo
           v == [rows |-> s, index |-> lo - 1]
           V == [rows : Seq(Rows), index : Int]
           R(f) == f = [n \in 0 .. M |-> IF n = 0 THEN v
                                         ELSE Icc!Moved(f[n - 1], lo + n - 1, s[hi])]
           g == CHOOSE f : R(f)
           G == [n \in 1 .. M |-> {x \in V : MovedRight(s, lo, hi, n - 1, x)}]
           stepOf == [n \in 1 .. M |->
                       [x \in V |-> IF x \in G[n] THEN Icc!Moved(x, lo + n - 1, s[hi]) ELSE x]]
<1> HIDE DEF Rows
<1>1. M \in Nat
  OBVIOUS
<1>2. Icc!partition(s, lo, hi) =
        [rows |-> Icc!Exchanged(g[M].rows, g[M].index + 1, hi), index |-> g[M].index + 1]
  BY DEF Icc!partition
<1>3. MovedRight(s, lo, hi, 0, v) /\ v \in V
  <2>1. v.rows = s /\ v.index = lo - 1
    OBVIOUS
  <2>2. lo - 1 \in lo - 1 .. lo + 0 - 1 /\ lo .. lo - 1 = {} /\ (lo - 1) + 1 .. lo + 0 - 1 = {}
    OBVIOUS
  <2>3. v \in V
    OBVIOUS
  <2>4. \A k \in lo .. hi - 1 : \E m \in lo .. hi - 1 : s[k] = s[m]
    OBVIOUS
  <2> HIDE DEF v, V
  <2> QED
    BY <2>1, <2>2, <2>3, <2>4 DEF MovedRight
<1>4. ASSUME NEW n \in 1 .. M, NEW x \in V, MovedRight(s, lo, hi, n - 1, x)
      PROVE  /\ Icc!Moved(x, lo + n - 1, s[hi]) \in V
             /\ MovedRight(s, lo, hi, n, Icc!Moved(x, lo + n - 1, s[hi]))
  <2> DEFINE y == Icc!Moved(x, lo + n - 1, s[hi])
  <2>1. x = [rows |-> x.rows, index |-> x.index]
    BY DEF V
  <2>2. y = [rows |-> y.rows, index |-> y.index] /\ MovedRight(s, lo, hi, n, y)
    BY <1>4, <2>1, MovedNext
  <2> HIDE DEF y
  <2>3. y.rows \in Seq(Rows) /\ y.index \in Int
    BY <2>2 DEF MovedRight
  <2>4. y \in V
    BY <2>2, <2>3
  <2> QED
    BY <2>2, <2>4 DEF y
<1> HIDE DEF M, v, V
<1>5. PICK f : Computes(f, V, v, M, stepOf)
  <2>1. ASSUME NEW n \in 1 .. M PROVE stepOf[n] \in [V -> V]
    <3>1. \A x \in V : (IF x \in G[n] THEN Icc!Moved(x, lo + n - 1, s[hi]) ELSE x) \in V
      BY <1>4
    <3> HIDE DEF G
    <3> QED
      BY <3>1
  <2> HIDE DEF stepOf
  <2>2. Steps(V, v, M, stepOf)
    BY <1>1, <1>3, <2>1 DEF Steps
  <2> QED
    BY <2>2, RecursionExists
<1>6. f \in [0 .. M -> V] /\ f[0] = v /\ \A n \in 1 .. M : f[n] = stepOf[n][f[n - 1]]
  BY <1>5 DEF Computes
<1>7. \A n \in 1 .. M : f[n - 1] \in V /\ n - 1 \in 0 .. M /\ n \in 0 .. M
  BY <1>1, <1>6
<1>8. ASSUME NEW n \in 1 .. M, MovedRight(s, lo, hi, n - 1, f[n - 1])
      PROVE  f[n] = Icc!Moved(f[n - 1], lo + n - 1, s[hi])
  <2>1. f[n - 1] \in G[n]
    BY <1>7, <1>8
  <2> HIDE DEF G
  <2> QED
    BY <1>6, <1>7, <2>1
<1> HIDE DEF stepOf
<1>9. \A n \in 0 .. M : MovedRight(s, lo, hi, n, f[n])
  <2> DEFINE U == {n \in 0 .. M : MovedRight(s, lo, hi, n, f[n])}
  <2>1. 0 \in U
    BY <1>1, <1>3, <1>6
  <2>2. \A n \in 1 .. M : n - 1 \in U => n \in U
    BY <1>4, <1>7, <1>8
  <2> HIDE DEF U
  <2>3. 0 .. M \subseteq U
    BY <1>1, <2>1, <2>2, UpTo
  <2> QED
    BY <2>3 DEF U
<1>10. R(f)
  <2>1. \A n \in 1 .. M : f[n] = Icc!Moved(f[n - 1], lo + n - 1, s[hi])
    BY <1>7, <1>8, <1>9
  <2>2. \A n \in 0 .. M : n = 0 \/ (n # 0 /\ n \in 1 .. M)
    BY <1>1
  <2>3. \A n \in 0 .. M : f[n] = IF n = 0 THEN v ELSE Icc!Moved(f[n - 1], lo + n - 1, s[hi])
    BY Zenon, <1>6, <2>1, <2>2
  <2>4. f = [n \in 0 .. M |-> f[n]]
    BY <1>6
  <2> QED
    BY Zenon, <2>3, <2>4
<1>11. R(g)
  <2> HIDE DEF R
  <2> QED
    BY <1>10
<1> HIDE DEF g, G
<1>12. g[0] = v /\ \A n \in 1 .. M : g[n] = Icc!Moved(g[n - 1], lo + n - 1, s[hi])
  <2> DEFINE b(n) == IF n = 0 THEN v ELSE Icc!Moved(g[n - 1], lo + n - 1, s[hi])
  <2>1. g = [n \in 0 .. M |-> b(n)]
    BY <1>11
  <2> HIDE DEF b
  <2>2. \A n \in 0 .. M : g[n] = b(n)
    BY Zenon, <2>1
  <2>3. 0 \in 0 .. M /\ \A n \in 1 .. M : n \in 0 .. M /\ n # 0
    BY <1>1
  <2> QED
    BY Zenon, <2>2, <2>3 DEF b
<1>13. \A n \in 0 .. M : g[n] \in V /\ MovedRight(s, lo, hi, n, g[n])
  <2> DEFINE U == {n \in 0 .. M : g[n] \in V /\ MovedRight(s, lo, hi, n, g[n])}
  <2>1. 0 \in U
    BY <1>1, <1>3, <1>12
  <2>2. \A n \in 1 .. M : n - 1 \in U => n \in U
    BY <1>4, <1>7, <1>12
  <2> HIDE DEF U
  <2>3. 0 .. M \subseteq U
    BY <1>1, <2>1, <2>2, UpTo
  <2> QED
    BY <2>3 DEF U
<1>14. MovedRight(s, lo, hi, hi - lo, g[M])
  <2>1. M \in 0 .. M
    BY <1>1
  <2> QED
    BY <1>13, <2>1 DEF M
<1> QED
  BY <1>2, <1>14, PivotLast

\* The places a call of the quicksort sorts.
Span(x) == x[1] .. x[2]

\* Of two rows in the wrong order one call to come sorts both; no two calls sort
\* the same row.
Sorting(s, calls) ==
  /\ s \in Seq(Rows) /\ calls \in Seq(Int \X Int)
  /\ \A a \in 1 .. Len(calls) : 1 <= calls[a][1] /\ calls[a][2] <= Len(s)
  /\ \A a, b \in 1 .. Len(calls), k \in Int : k \in Span(calls[a]) /\ k \in Span(calls[b]) => a = b
  /\ \A j, k \in 1 .. Len(s) : j < k /\ Icc!Greater(s[k], s[j]) =>
       \E a \in 1 .. Len(calls) : j \in Span(calls[a]) /\ k \in Span(calls[a])

LEMMA FrontLast ==
  ASSUME NEW S, NEW s \in Seq(S), s # <<>>
  PROVE  /\ Len(s) \in Nat /\ Len(s) > 0
         /\ Icc!Last(s) = s[Len(s)] /\ s[Len(s)] \in S
         /\ Icc!Front(s) \in Seq(S) /\ Len(Icc!Front(s)) = Len(s) - 1
         /\ \A k \in 1 .. Len(s) - 1 : Icc!Front(s)[k] = s[k]
<1>1. Len(s) \in Nat /\ Len(s) > 0 /\ Len(s) \in 1 .. Len(s)
  OBVIOUS
<1>2. Icc!Last(s) = s[Len(s)] /\ Icc!Front(s) = SubSeq(s, 1, Len(s) - 1)
  BY DEF Icc!Last, Icc!Front
<1> DEFINE n == Len(s) - 1
           u == SubSeq(s, 1, n)
<1>3. u \in Seq(S) /\ Len(u) = n /\ \A k \in 1 .. n : u[k] = s[k]
  <2>1. /\ n \in Nat /\ 1 \in Int /\ n \in Int /\ n - 1 + 1 = n
        /\ \A i \in 1 .. n : s[i] \in S /\ 1 + i - 1 = i
    BY <1>1
  <2> HIDE DEF n
  <2>2. /\ u \in Seq(S)
        /\ Len(u) = IF 1 <= n THEN n - 1 + 1 ELSE 0
        /\ \A i \in 1 .. n - 1 + 1 : u[i] = s[1 + i - 1]
    BY ONLY <2>1, SubSeqProperties DEF u
  <2> HIDE DEF u
  <2> QED
    BY <2>1, <2>2
<1> HIDE DEF u
<1>4. Icc!Front(s) = u
  BY <1>2 DEF u
<1> QED
  BY <1>1, <1>2, <1>3, <1>4 DEF n

\* A call for one place or none has nothing to sort.
LEMMA NothingToSort ==
  ASSUME NEW s, NEW calls, Sorting(s, calls), calls # <<>>,
         Icc!Last(calls)[1] >= Icc!Last(calls)[2]
  PROVE  Sorting(s, Icc!Front(calls))
<1> DEFINE m == Len(calls)
           w == Icc!Front(calls)
<1> HIDE DEF Rows
<1>1. /\ s \in Seq(Rows) /\ calls \in Seq(Int \X Int)
      /\ \A a \in 1 .. m : 1 <= calls[a][1] /\ calls[a][2] <= Len(s)
      /\ \A a, b \in 1 .. m, k \in Int : k \in Span(calls[a]) /\ k \in Span(calls[b]) => a = b
      /\ \A j, k \in 1 .. Len(s) : j < k /\ Icc!Greater(s[k], s[j]) =>
           \E a \in 1 .. m : j \in Span(calls[a]) /\ k \in Span(calls[a])
  BY DEF Sorting
<1>2. /\ m \in Nat /\ m > 0 /\ Icc!Last(calls) = calls[m] /\ calls[m] \in Int \X Int
      /\ w \in Seq(Int \X Int) /\ Len(w) = m - 1
      /\ \A a \in 1 .. m - 1 : w[a] = calls[a]
  BY <1>1, FrontLast
<1> HIDE DEF m, w
<1>3. \A j, k \in Int : j < k => ~(j \in Span(calls[m]) /\ k \in Span(calls[m]))
  <2>1. calls[m][1] \in Int /\ calls[m][2] \in Int /\ calls[m][1] >= calls[m][2]
    BY <1>2
  <2> QED
    BY <2>1 DEF Span
<1>4. \A a \in 1 .. m - 1 : a \in 1 .. m
  BY ONLY <1>2
<1>5. \A a \in 1 .. m : a = m \/ a \in 1 .. m - 1
  BY ONLY <1>2
<1>6. ASSUME NEW j \in 1 .. Len(s), NEW k \in 1 .. Len(s), j < k, Icc!Greater(s[k], s[j])
      PROVE  \E a \in 1 .. m - 1 : j \in Span(w[a]) /\ k \in Span(w[a])
  <2>1. PICK a \in 1 .. m : j \in Span(calls[a]) /\ k \in Span(calls[a])
    BY <1>1, <1>6
  <2>2. a # m
    BY <1>3, <1>6, <2>1
  <2>3. a \in 1 .. m - 1
    BY <1>5, <2>2
  <2> QED
    BY <1>2, <2>1, <2>3
<1>7. \A a \in 1 .. m - 1 : 1 <= w[a][1] /\ w[a][2] <= Len(s)
  BY <1>1, <1>2, <1>4
<1>8. \A a, b \in 1 .. m - 1, k \in Int : k \in Span(w[a]) /\ k \in Span(w[b]) => a = b
  BY <1>1, <1>2, <1>4
<1>9. Len(w) = m - 1 /\ w \in Seq(Int \X Int) /\ s \in Seq(Rows)
  BY <1>1, <1>2
<1>10. Sorting(s, w)
  BY ONLY <1>6, <1>7, <1>8, <1>9 DEF Sorting
<1> QED
  BY <1>10 DEF w

\* A call splits its places: what is behind the pivot, what is in front of it.
LEMMA SplitInOrder ==
  ASSUME NEW s, NEW calls, Sorting(s, calls), calls # <<>>,
         NEW lo, NEW hi, Icc!Last(calls) = <<lo, hi>>, lo < hi,
         NEW x, Partitioned(s, lo, hi, x),
         NEW w \in Seq(Int \X Int), Len(w) = Len(calls) + 1,
         \A a \in 1 .. Len(calls) - 1 : w[a] = calls[a],
         w[Len(calls)] = <<x.index + 1, hi>>, w[Len(calls) + 1] = <<lo, x.index - 1>>
  PROVE  Sorting(x.rows, w)
<1> DEFINE m == Len(calls)
           N == Len(s)
           Q == x.rows
           p == x.index
<1> HIDE DEF Rows
<1>1. /\ s \in Seq(Rows) /\ calls \in Seq(Int \X Int)
      /\ \A a \in 1 .. m : 1 <= calls[a][1] /\ calls[a][2] <= N
      /\ \A a, b \in 1 .. m, k \in Int : k \in Span(calls[a]) /\ k \in Span(calls[b]) => a = b
      /\ \A j, k \in 1 .. N : j < k /\ Icc!Greater(s[k], s[j]) =>
           \E a \in 1 .. m : j \in Span(calls[a]) /\ k \in Span(calls[a])
  BY DEF Sorting
<1>2. /\ m \in Nat /\ m > 0 /\ calls[m] = <<lo, hi>> /\ calls[m] \in Int \X Int
  BY <1>1, FrontLast
<1>3. /\ lo \in Int /\ hi \in Int /\ 1 <= lo /\ lo < hi /\ hi <= N /\ N \in Nat
      /\ Span(calls[m]) = lo .. hi
  <2>1. calls[m][1] = lo /\ calls[m][2] = hi /\ m \in 1 .. m
    BY <1>2
  <2>2. lo \in Int /\ hi \in Int /\ N \in Nat
    BY <1>1, <1>2
  <2> QED
    BY <1>1, <2>1, <2>2 DEF Span
<1>4. /\ Q \in Seq(Rows) /\ Len(Q) = N
      /\ p \in lo .. hi
      /\ \A k \in 1 .. N : k \notin lo .. hi => Q[k] = s[k]
      /\ \A k \in lo .. hi : \E i \in lo .. hi : Q[k] = s[i]
      /\ \A k \in lo .. p - 1 : Icc!Greater(Q[k], s[hi])
      /\ Q[p] = s[hi]
      /\ \A k \in p + 1 .. hi : ~Icc!Greater(Q[k], s[hi])
  BY DEF Partitioned
<1>5. /\ w \in Seq(Int \X Int) /\ Len(w) = m + 1
      /\ \A a \in 1 .. m - 1 : w[a] = calls[a]
      /\ w[m] = <<p + 1, hi>> /\ w[m + 1] = <<lo, p - 1>>
  OBVIOUS
<1> HIDE DEF m, N, Q, p
<1>6. /\ Span(w[m]) = p + 1 .. hi /\ Span(w[m + 1]) = lo .. p - 1
      /\ \A a \in 1 .. m - 1 : Span(w[a]) = Span(calls[a])
  BY <1>5 DEF Span
<1>7. /\ \A a \in 1 .. m + 1 : a \in 1 .. m - 1 \/ a = m \/ a = m + 1
      /\ \A a \in 1 .. m - 1 : a \in 1 .. m /\ a \in 1 .. m + 1 /\ a # m
      /\ m \in 1 .. m /\ m \in 1 .. m + 1 /\ m + 1 \in 1 .. m + 1
  <2>1. m \in Nat /\ m > 0
    BY <1>2
  <2>2. \A a \in 1 .. m + 1 : a \in 1 .. m - 1 \/ a = m \/ a = m + 1
    BY ONLY <2>1
  <2>3. \A a \in 1 .. m - 1 : a \in 1 .. m /\ a \in 1 .. m + 1 /\ a # m
    BY ONLY <2>1
  <2>4. m \in 1 .. m /\ m \in 1 .. m + 1 /\ m + 1 \in 1 .. m + 1
    BY ONLY <2>1
  <2> QED
    BY ONLY <2>2, <2>3, <2>4
<1>8. \A a \in 1 .. m - 1, k \in Int : k \in Span(calls[a]) => k \notin lo .. hi
  BY <1>1, <1>3, <1>7
<1>9. \A k \in Int : /\ k \in p + 1 .. hi => k \in lo .. hi /\ k \notin lo .. p - 1
                     /\ k \in lo .. p - 1 => k \in lo .. hi /\ k \notin p + 1 .. hi
  <2>1. lo \in Int /\ hi \in Int /\ p \in Int /\ lo <= p /\ p <= hi
    BY <1>3, <1>4
  <2> QED
    BY ONLY <2>1
<1>10. ASSUME NEW a \in 1 .. m + 1 PROVE 1 <= w[a][1] /\ w[a][2] <= N
  <2>1. CASE a \in 1 .. m - 1
    BY <1>1, <1>5, <1>7, <2>1
  <2>2. CASE a = m
    <3>1. w[a][1] = p + 1 /\ w[a][2] = hi
      BY <1>5, <2>2
    <3> QED
      BY ONLY <1>3, <1>4, <3>1
  <2>3. CASE a = m + 1
    <3>1. w[a][1] = lo /\ w[a][2] = p - 1
      BY <1>5, <2>3
    <3> QED
      BY ONLY <1>3, <1>4, <3>1
  <2> QED
    BY <1>7, <2>1, <2>2, <2>3
<1>11. ASSUME NEW a \in 1 .. m + 1, NEW b \in 1 .. m + 1, NEW k \in Int,
              k \in Span(w[a]), k \in Span(w[b])
       PROVE  a = b
  <2>1. CASE a \in 1 .. m - 1 /\ b \in 1 .. m - 1
    <3>1. a \in 1 .. m /\ b \in 1 .. m /\ k \in Span(calls[a]) /\ k \in Span(calls[b])
      BY <1>6, <1>7, <1>11, <2>1
    <3> QED
      BY <1>1, <3>1
  <2>2. CASE a \in 1 .. m - 1 /\ b \notin 1 .. m - 1
    <3>1. k \notin lo .. hi
      BY <1>6, <1>8, <1>11, <2>2
    <3>2. b = m \/ b = m + 1
      BY <1>7, <2>2
    <3> QED
      BY <1>6, <1>9, <1>11, <3>1, <3>2
  <2>3. CASE a \notin 1 .. m - 1 /\ b \in 1 .. m - 1
    <3>1. k \notin lo .. hi
      BY <1>6, <1>8, <1>11, <2>3
    <3>2. a = m \/ a = m + 1
      BY <1>7, <2>3
    <3> QED
      BY <1>6, <1>9, <1>11, <3>1, <3>2
  <2>4. CASE a \notin 1 .. m - 1 /\ b \notin 1 .. m - 1
    <3>1. (a = m \/ a = m + 1) /\ (b = m \/ b = m + 1)
      BY <1>7, <2>4
    <3> QED
      <4>1. CASE a = m /\ b = m + 1
        <5>1. k \in p + 1 .. hi /\ k \in lo .. p - 1
          BY <1>6, <1>11, <4>1
        <5> QED
          BY <1>9, <5>1
      <4>2. CASE a = m + 1 /\ b = m
        <5>1. k \in p + 1 .. hi /\ k \in lo .. p - 1
          BY <1>6, <1>11, <4>2
        <5> QED
          BY <1>9, <5>1
      <4> QED
        BY <3>1, <4>1, <4>2
  <2> QED
    BY <2>1, <2>2, <2>3, <2>4
<1>12. ASSUME NEW j \in 1 .. N, NEW k \in 1 .. N, j < k, Icc!Greater(Q[k], Q[j])
       PROVE  \E a \in 1 .. m + 1 : j \in Span(w[a]) /\ k \in Span(w[a])
  <2>1. CASE j \notin lo .. hi /\ k \notin lo .. hi
    <3>1. Q[j] = s[j] /\ Q[k] = s[k]
      BY <1>4, <2>1
    <3>2. PICK a \in 1 .. m : j \in Span(calls[a]) /\ k \in Span(calls[a])
      BY <1>1, <1>12, <3>1
    <3>3. a # m
      BY <1>3, <2>1, <3>2
    <3>4. a \in 1 .. m - 1 /\ a \in 1 .. m + 1
      BY ONLY <1>2, <3>3, a \in 1 .. m
    <3> QED
      BY <1>6, <3>2, <3>4
  <2>2. CASE j \notin lo .. hi /\ k \in lo .. hi
    <3>1. PICK i \in lo .. hi : Q[k] = s[i]
      BY <1>4, <2>2
    <3>2. i \in 1 .. N /\ j < i
      BY ONLY <1>3, <1>12, <2>2, i \in lo .. hi, j \in 1 .. N
    <3>3. Icc!Greater(s[i], s[j])
      BY <1>4, <1>12, <2>2, <3>1
    <3>4. PICK a \in 1 .. m : j \in Span(calls[a]) /\ i \in Span(calls[a])
      BY <1>1, <3>2, <3>3
    <3>5. a = m
      <4>1. i \in Int /\ i \in Span(calls[m]) /\ i \in Span(calls[a])
        BY <1>3, <3>4
      <4>2. m \in 1 .. m
        BY <1>7
      <4> QED
        BY <1>1, <4>1, <4>2
    <3> QED
      BY <1>3, <2>2, <3>4, <3>5
  <2>3. CASE j \in lo .. hi /\ k \notin lo .. hi
    <3>1. PICK i \in lo .. hi : Q[j] = s[i]
      BY <1>4, <2>3
    <3>2. i \in 1 .. N /\ i < k
      BY ONLY <1>3, <1>12, <2>3, i \in lo .. hi, k \in 1 .. N
    <3>3. Icc!Greater(s[k], s[i])
      BY <1>4, <1>12, <2>3, <3>1
    <3>4. PICK a \in 1 .. m : i \in Span(calls[a]) /\ k \in Span(calls[a])
      BY <1>1, <3>2, <3>3
    <3>5. a = m
      <4>1. i \in Int /\ i \in Span(calls[m]) /\ i \in Span(calls[a])
        BY <1>3, <3>4
      <4>2. m \in 1 .. m
        BY <1>7
      <4> QED
        BY <1>1, <4>1, <4>2
    <3> QED
      BY <1>3, <2>3, <3>4, <3>5
  <2>4. CASE j \in lo .. hi /\ k \in lo .. hi
    <3>1. Q[j] \in Rows /\ Q[k] \in Rows /\ s[hi] \in Rows
      <4>1. hi \in 1 .. N
        BY ONLY <1>3
      <4>2. j \in 1 .. Len(Q) /\ k \in 1 .. Len(Q) /\ hi \in 1 .. Len(s)
        BY <1>4, <4>1 DEF N
      <4> QED
        BY <1>1, <1>4, <4>2
    <3>2. CASE j \in p + 1 .. hi
      <4>1. k \in p + 1 .. hi
        BY ONLY <1>3, <1>4, <1>12, <2>4, <3>2
      <4> QED
        BY <1>6, <1>7, <3>2, <4>1
    <3>3. CASE k \in lo .. p - 1
      <4>1. j \in lo .. p - 1
        BY ONLY <1>3, <1>4, <1>12, <2>4, <3>3
      <4> QED
        BY <1>6, <1>7, <3>3, <4>1
    <3>4. CASE j \notin p + 1 .. hi /\ k \notin lo .. p - 1
      <4>1. (j = p /\ k \in p + 1 .. hi) \/ (j \in lo .. p - 1 /\ k = p)
            \/ (j \in lo .. p - 1 /\ k \in p + 1 .. hi)
        <5>1. /\ lo \in Int /\ hi \in Int /\ p \in Int /\ j \in Int /\ k \in Int
              /\ lo <= j /\ j < k /\ k <= hi
          BY <1>3, <1>4, <1>12, <2>4
        <5>2. j <= p /\ k >= p
          BY ONLY <3>4, <5>1
        <5> QED
          BY ONLY <5>1, <5>2
      <4>2. CASE j = p /\ k \in p + 1 .. hi
        BY <1>4, <1>12, <4>2
      <4>3. CASE j \in lo .. p - 1 /\ k = p
        <5>1. Icc!Greater(Q[j], s[hi]) /\ Icc!Greater(s[hi], Q[j])
          BY <1>4, <1>12, <4>3
        <5> QED
          BY <3>1, <5>1, GreaterOrder
      <4>4. CASE j \in lo .. p - 1 /\ k \in p + 1 .. hi
        <5>1. Icc!Greater(Q[k], Q[j]) /\ Icc!Greater(Q[j], s[hi]) /\ ~Icc!Greater(Q[k], s[hi])
          BY <1>4, <1>12, <4>4
        <5> QED
          BY <3>1, <5>1, GreaterOrder
      <4> QED
        BY <4>1, <4>2, <4>3, <4>4
    <3> QED
      BY <3>2, <3>3, <3>4
  <2> QED
    BY <2>1, <2>2, <2>3, <2>4
<1>13. Sorting(Q, w)
  BY ONLY <1>4, <1>5, <1>10, <1>11, <1>12 DEF Sorting
<1> QED
  BY <1>13 DEF Q

Called(s, calls, lo, hi) ==
  /\ lo >= hi => Sorting(s, Icc!Front(calls))
  /\ ~(lo >= hi) =>
       LET x == Icc!partition(s, lo, hi)
       IN  /\ Sorting(x.rows, Icc!Front(calls) \o <<<<x.index + 1, hi>>, <<lo, x.index - 1>>>>)
           /\ Len(x.rows) = Len(s) /\ ToSet(x.rows) = ToSet(s)

\* A call of quickSort: the rows stay, and what is in the wrong order is still to
\* be sorted.
LEMMA CallSorts ==
  ASSUME NEW s, NEW calls, Sorting(s, calls), calls # <<>>,
         NEW lo, NEW hi, lo = Icc!Last(calls)[1], hi = Icc!Last(calls)[2]
  PROVE  Called(s, calls, lo, hi)
<1> HIDE DEF Rows
<1>1. /\ s \in Seq(Rows) /\ calls \in Seq(Int \X Int)
      /\ \A a \in 1 .. Len(calls) : 1 <= calls[a][1] /\ calls[a][2] <= Len(s)
  BY DEF Sorting
<1> DEFINE m == Len(calls)
           front == Icc!Front(calls)
<1>2. /\ m \in Nat /\ m > 0 /\ Icc!Last(calls) = calls[m] /\ calls[m] \in Int \X Int
      /\ front \in Seq(Int \X Int) /\ Len(front) = m - 1
      /\ \A k \in 1 .. m - 1 : front[k] = calls[k]
  BY <1>1, FrontLast
<1>3. /\ lo \in Int /\ hi \in Int /\ Icc!Last(calls) = <<lo, hi>>
      /\ 1 <= lo /\ hi <= Len(s)
  <2>1. m \in 1 .. m
    BY <1>2
  <2>2. \A c \in Int \X Int : c = <<c[1], c[2]>> /\ c[1] \in Int /\ c[2] \in Int
    OBVIOUS
  <2>3. lo = calls[m][1] /\ hi = calls[m][2]
    BY <1>2
  <2>4. lo \in Int /\ hi \in Int /\ calls[m] = <<lo, hi>>
    BY <1>2, <2>2, <2>3
  <2> QED
    BY <1>1, <1>2, <2>1, <2>3, <2>4
<1>4. ASSUME lo >= hi PROVE Sorting(s, Icc!Front(calls))
  BY <1>4, NothingToSort
<1>5. ASSUME ~(lo >= hi)
      PROVE  LET x == Icc!partition(s, lo, hi)
             IN  /\ Sorting(x.rows, Icc!Front(calls) \o <<<<x.index + 1, hi>>, <<lo, x.index - 1>>>>)
                 /\ Len(x.rows) = Len(s) /\ ToSet(x.rows) = ToSet(s)
  <2> DEFINE x == Icc!partition(s, lo, hi)
             one == <<x.index + 1, hi>>
             two == <<lo, x.index - 1>>
             last == <<one, two>>
             w == front \o last
  <2>1. lo < hi /\ lo \in 1 .. Len(s) /\ hi \in 1 .. Len(s)
    <3>1. Len(s) \in Nat
      BY <1>1
    <3> QED
      BY ONLY <1>3, <1>5, <3>1
  <2>2. Partitioned(s, lo, hi, x)
    BY <1>1, <2>1, PartitionRight
  <2> HIDE DEF x
  <2>3. x.index \in Int /\ Len(x.rows) = Len(s) /\ ToSet(x.rows) = ToSet(s)
    BY <1>3, <2>2 DEF Partitioned
  <2>4. last \in Seq(Int \X Int) /\ Len(last) = 2 /\ last[1] = one /\ last[2] = two
    <3>1. one \in Int \X Int /\ two \in Int \X Int
      BY <1>3, <2>3
    <3> HIDE DEF one, two
    <3> QED
      BY <3>1
  <2> HIDE DEF front, last
  <2>5. /\ w \in Seq(Int \X Int) /\ Len(w) = Len(front) + Len(last)
        /\ \A k \in 1 .. Len(front) + Len(last) :
             w[k] = IF k <= Len(front) THEN front[k] ELSE last[k - Len(front)]
    BY ONLY <1>2, <2>4, ConcatProperties DEF w
  <2> HIDE DEF w, one, two
  <2>6. Len(w) = m + 1
    BY ONLY <1>2, <2>4, <2>5
  <2>7. \A k \in 1 .. m + 1 : w[k] = IF k <= m - 1 THEN front[k] ELSE last[k - (m - 1)]
    <3>1. Len(front) + Len(last) = m + 1 /\ Len(front) = m - 1
      BY ONLY <1>2, <2>4
    <3> QED
      BY <2>5, <3>1
  <2>8. \A k \in 1 .. m - 1 : w[k] = calls[k]
    <3>1. \A k \in 1 .. m - 1 : k \in 1 .. m + 1 /\ k <= m - 1
      BY <1>2
    <3> QED
      BY <1>2, <2>7, <3>1
  <2>9. w[m] = one /\ w[m + 1] = two
    <3>1. /\ m \in 1 .. m + 1 /\ m + 1 \in 1 .. m + 1
          /\ ~(m <= m - 1) /\ ~(m + 1 <= m - 1)
          /\ m - (m - 1) = 1 /\ (m + 1) - (m - 1) = 2
      BY <1>2
    <3> QED
      BY <2>4, <2>7, <3>1
  <2>10. Sorting(x.rows, w)
    <3>1. /\ Len(w) = Len(calls) + 1 /\ w \in Seq(Int \X Int)
          /\ \A k \in 1 .. Len(calls) - 1 : w[k] = calls[k]
      BY <2>5, <2>6, <2>8
    <3>2. w[Len(calls)] = <<x.index + 1, hi>> /\ w[Len(calls) + 1] = <<lo, x.index - 1>>
      BY <2>9 DEF one, two
    <3> QED
      BY ONLY <1>3, <2>1, <2>2, <3>1, <3>2, Sorting(s, calls), calls # <<>>, SplitInOrder
  <2> QED
    BY <2>3, <2>10 DEF w, x, one, two, last, front
<1> QED
  BY <1>4, <1>5 DEF Called

\* The first call sorts everything.
LEMMA FirstCall ==
  ASSUME NEW s \in Seq(Rows)
  PROVE  Sorting(s, <<<<1, Len(s)>>>>)
<1> DEFINE n == Len(s)
           one == <<1, n>>
           calls == <<one>>
<1> HIDE DEF Rows
<1>1. n \in Nat /\ one \in Int \X Int /\ one[1] = 1 /\ one[2] = n
  OBVIOUS
<1>2. Span(one) = 1 .. n
  BY DEF Span
<1> HIDE DEF one, n
<1>3. calls \in Seq(Int \X Int) /\ Len(calls) = 1 /\ calls[1] = one
  BY <1>1
<1>4. \A a \in 1 .. Len(calls) : a = 1 /\ calls[a] = one
  BY <1>3
<1>5. 1 \in 1 .. Len(calls)
  BY <1>3
<1> HIDE DEF calls
<1>6. \A a \in 1 .. Len(calls) : 1 <= calls[a][1] /\ calls[a][2] <= n
  BY <1>1, <1>4
<1>7. \A j, k \in 1 .. n : \E a \in 1 .. Len(calls) : j \in Span(calls[a]) /\ k \in Span(calls[a])
  BY <1>2, <1>4, <1>5
<1> QED
  BY <1>3, <1>4, <1>6, <1>7 DEF Sorting, n, calls, one

\* With no call to come the rows are sorted.
LEMMA LastCall ==
  ASSUME NEW s, Sorting(s, <<>>)
  PROVE  Icc!Descending(s)
<1> HIDE DEF Rows
<1>1. /\ s \in Seq(Rows) /\ Len(<<>>) = 0
      /\ \A j, k \in 1 .. Len(s) : ~(j < k /\ Icc!Greater(s[k], s[j]))
  BY DEF Sorting
<1>2. DOMAIN s = 1 .. Len(s)
  BY <1>1
<1> QED
  BY <1>1, <1>2 DEF Icc!Descending

LEMMA SameIds ==
  ASSUME NEW s \in Seq(Rows), NEW u \in Seq(Rows), ToSet(u) = ToSet(s)
  PROVE  Icc!Ids(u) = Icc!Ids(s)
<1> HIDE DEF Rows
<1>1. ASSUME NEW z \in Seq(Rows) PROVE Icc!Ids(z) = {x.id : x \in ToSet(z)}
  BY DEF Icc!Ids, ToSet
<1> QED
  BY <1>1

(***************************************************************************)
(* The players: what is shown.                                             *)
(***************************************************************************)
\* What the answer s to a request shows, with the tables after n players.
AllShown(ps, n, request, s) ==
  /\ request.what = "teams" => Icc!Ids(s) = Icc!TeamIds /\ Len(s) = Len(Teams)
  /\ request.what = "role" =>
       LET all == InTeams(ps, n, Len(Teams), request.role)
       IN  Icc!Ids(s) = {ps[k].id : k \in all} /\ Len(s) = Cardinality(all)

TopShown(ps, n, request, s) ==
  LET all == InTeam(ps, n, request.team, {request.role})
  IN  /\ Len(s) = IF request.k < Cardinality(all) THEN request.k ELSE Cardinality(all)
      /\ Icc!Ids(s) \subseteq {ps[k].id : k \in all}
      /\ \A k \in all, j \in DOMAIN s :
           ps[k].id \in Icc!Ids(s) \/ s[j].index >= ps[k].index

TeamShown(t, ls, tm) ==
  Len(ls[t]["Batsman"] \o ls[t]["Bowler"] \o ls[t]["All-rounder"]) = tm[t].players

LEMMA TeamIsShown ==
  ASSUME NEW ps, NEW n, NEW ls, NEW tm, TablesRight(ps, n, ls, tm), NEW t \in Icc!TeamIds
  PROVE  TeamShown(t, ls, tm)
<1> HIDE DEF Players
<1> DEFINE a == ls[t]["Batsman"]
           b == ls[t]["Bowler"]
           c == ls[t]["All-rounder"]
<1>1. tm[t].players = Len(a) + Len(b) + Len(c)
  BY DEF TablesRight
<1>2. a \in Seq(Players) /\ b \in Seq(Players) /\ c \in Seq(Players)
  BY DEF TablesRight, Icc!Roles
<1> HIDE DEF a, b, c
<1>3. a \o b \in Seq(Players) /\ Len(a \o b) = Len(a) + Len(b)
  BY <1>2, ConcatMembers
<1>4. Len((a \o b) \o c) = Len(a \o b) + Len(c)
  BY <1>2, <1>3, ConcatMembers
<1> QED
  BY <1>1, <1>3, <1>4 DEF TeamShown, a, b, c

LEMMA TopIsShown ==
  ASSUME NEW ps, NEW n, NEW ls, NEW tm, TablesRight(ps, n, ls, tm),
         NEW t \in Icc!TeamIds, NEW r \in Icc!Roles, NEW k \in Nat \ {0}
  PROVE  TopShown(ps, n, [what |-> "top", team |-> t, role |-> r, k |-> k],
                  Icc!First(ls[t][r], k))
<1> DEFINE l == ls[t][r]
           all == InTeam(ps, n, t, {r})
           m == IF k < Len(l) THEN k ELSE Len(l)
           s == SubSeq(l, 1, m)
           request == [what |-> "top", team |-> t, role |-> r, k |-> k]
<1>1. \A q \in Players : q.index \in Int
  BY DEF Players
<1> HIDE DEF Players
<1>2. /\ l \in Seq(Players) /\ ToSet(l) = {ps[i] : i \in all} /\ Len(l) = Cardinality(all)
      /\ \A i, j \in 1 .. Len(l) : i < j => l[i].index >= l[j].index
  BY DEF TablesRight, ListRight, Ordered
<1>3. Icc!First(l, k) = s
  BY DEF Icc!First
<1> HIDE DEF l, all
<1>4. Len(l) \in Nat /\ m \in Nat /\ m <= Len(l) /\ m <= k
  BY <1>2
<1>5. /\ DOMAIN l = 1 .. Len(l) /\ \A i \in 1 .. Len(l) : l[i] \in Players
      /\ \A x : x \in ToSet(l) <=> \E i \in 1 .. Len(l) : l[i] = x
  BY <1>2 DEF ToSet
<1>6. s \in Seq(Players) /\ Len(s) = m /\ \A i \in 1 .. m : s[i] = l[i]
  <2>1. /\ 1 \in Int /\ m \in Int /\ m - 1 + 1 = m
        /\ \A i \in 1 .. m : l[i] \in Players /\ 1 + i - 1 = i
    BY <1>4, <1>5
  <2>2. m \in Nat
    BY <1>4
  <2> HIDE DEF m
  <2>3. /\ s \in Seq(Players)
        /\ Len(s) = IF 1 <= m THEN m - 1 + 1 ELSE 0
        /\ \A i \in 1 .. m - 1 + 1 : s[i] = l[1 + i - 1]
    BY ONLY <2>1, SubSeqProperties DEF s
  <2> HIDE DEF s
  <2> QED
    BY <2>1, <2>2, <2>3
<1> HIDE DEF s
<1>7. DOMAIN s = 1 .. m
  BY <1>6
<1>8. Icc!Ids(s) = {l[i].id : i \in 1 .. m}
  BY <1>6, <1>7 DEF Icc!Ids
<1>9. Len(s) = IF k < Cardinality(all) THEN k ELSE Cardinality(all)
  BY <1>2, <1>6
<1>10. Icc!Ids(s) \subseteq {ps[i].id : i \in all}
  <2> SUFFICES ASSUME NEW i \in 1 .. m PROVE \E j \in all : l[i].id = ps[j].id
    BY <1>8
  <2>1. i \in 1 .. Len(l)
    BY <1>4
  <2>2. l[i] \in ToSet(l)
    BY <1>5, <2>1
  <2> QED
    BY <1>2, <2>2
<1>11. ASSUME NEW i \in all, NEW j \in DOMAIN s
       PROVE  ps[i].id \in Icc!Ids(s) \/ s[j].index >= ps[i].index
  <2>1. PICK h \in 1 .. Len(l) : l[h] = ps[i]
    BY <1>2, <1>5
  <2>2. j \in 1 .. m /\ j \in 1 .. Len(l) /\ s[j] = l[j]
    BY <1>4, <1>6, <1>7
  <2>3. CASE h \in 1 .. m
    BY <1>8, <2>1, <2>3
  <2>4. CASE h \notin 1 .. m
    <3>1. j < h
      BY <1>4, <2>2, <2>4
    <3> QED
      BY <1>2, <2>1, <2>2, <3>1
  <2> QED
    BY <2>3, <2>4
<1>12. request.team = t /\ request.role = r /\ request.k = k
  OBVIOUS
<1> HIDE DEF request, m
<1>13. TopShown(ps, n, request, s)
  BY <1>9, <1>10, <1>11, <1>12 DEF TopShown, all
<1> QED
  BY <1>3, <1>13 DEF request, l

\* temporaryTeams, as it is sorted.
LEMMA TeamsToSort ==
  ASSUME NEW ps \in Seq(Players), NEW n \in 0 .. Len(ps), NEW ls, NEW tm,
         TablesRight(ps, n, ls, tm),
         NEW s, s = [t \in Icc!TeamIds |-> [id |-> t, key |-> tm[t].average]]
  PROVE  /\ s \in Seq(Rows) /\ Len(s) = Len(Teams)
         /\ Icc!Ids(s) = Icc!TeamIds
<1> HIDE DEF Players
<1>1. Len(Teams) \in Nat /\ Icc!TeamIds = 1 .. Len(Teams)
  BY TeamsInOrder
<1>2. ASSUME NEW t \in Icc!TeamIds PROVE [id |-> t, key |-> tm[t].average] \in Rows
  <2> DEFINE A == InTeam(ps, n, t, Bats)
             q == tm[t].average
  <2>1. q = IF A = {} THEN <<0, 1>> ELSE <<SumOf(ps, A, n), Cardinality(A)>>
    BY DEF TablesRight, TotalsRight
  <2>2. Cardinality(A) \in Nat /\ (A # {} => Cardinality(A) # 0)
    <3>1. n \in Nat
      OBVIOUS
    <3> QED
      BY <3>1, InTeamCount
  <2> HIDE DEF A
  <2>3. SumOf(ps, A, n) \in Int
    <3>1. n \in 0 .. n
      OBVIOUS
    <3> QED
      BY <3>1, SumFacts
  <2> HIDE DEF q
  <2>4. q \in Int \X (Nat \ {0})
    BY <2>1, <2>2, <2>3
  <2>5. t \in Int
    BY <1>1
  <2> QED
    BY <2>4, <2>5 DEF Rows, q
<1>3. \A t \in Icc!TeamIds : s[t] \in Rows /\ s[t].id = t
  BY <1>2
<1> HIDE DEF Rows
<1>4. s \in Seq(Rows) /\ Len(s) = Len(Teams) /\ DOMAIN s = Icc!TeamIds
  BY <1>1, <1>3
<1>5. Icc!Ids(s) = Icc!TeamIds
  BY <1>3, <1>4 DEF Icc!Ids
<1> QED
  BY <1>4, <1>5

\* The rows s are made of the players q of role r.
RoleRows(ps, n, r, q, s) ==
  LET all == InTeams(ps, n, Len(Teams), r)
  IN  /\ s \in Seq(Rows) /\ Len(s) = Cardinality(all)
      /\ Icc!Ids(s) = {ps[k].id : k \in all}
      /\ Len(q) = Len(s)

\* allRolePlayers, as it is sorted.
LEMMA RoleToSort ==
  ASSUME NEW ps, NEW n \in Nat, NEW ls, NEW tm, TablesRight(ps, n, ls, tm), NEW r \in Icc!Roles,
         NEW q, q = Joined(ls, r),
         NEW s, s = [k \in DOMAIN q |-> [id |-> q[k].id, key |-> <<q[k].index, 1>>]]
  PROVE  RoleRows(ps, n, r, q, s)
<1> DEFINE all == InTeams(ps, n, Len(Teams), r)
<1>1. \A x \in Players : [id |-> x.id, key |-> <<x.index, 1>>] \in Rows
  BY DEF Players, Rows
<1> HIDE DEF Players, Rows
<1>2. q \in Seq(Players) /\ ToSet(q) = {ps[k] : k \in all} /\ Len(q) = Cardinality(all)
  BY JoinedFacts DEF JoinedUpTo
<1> HIDE DEF all
<1>3. DOMAIN q = 1 .. Len(q) /\ Len(q) \in Nat /\ \A k \in 1 .. Len(q) : q[k] \in Players
  BY <1>2
<1>4. \A k \in 1 .. Len(q) : s[k] \in Rows /\ s[k].id = q[k].id
  BY <1>1, <1>3
<1>5. s = [k \in 1 .. Len(q) |-> s[k]]
  BY <1>3
<1>6. s \in Seq(Rows) /\ Len(s) = Len(q) /\ DOMAIN s = 1 .. Len(q)
  BY <1>3, <1>4, <1>5
<1>7. Icc!Ids(s) = {q[k].id : k \in 1 .. Len(q)}
  BY <1>4, <1>6 DEF Icc!Ids
<1>8. ToSet(q) = {q[k] : k \in 1 .. Len(q)}
  BY <1>3 DEF ToSet
<1>9. Icc!Ids(s) = {x.id : x \in ToSet(q)}
  <2> DEFINE m == Len(q)
  <2> HIDE DEF m
  <2>1. \A y : y \in {q[k].id : k \in 1 .. m} <=> \E k \in 1 .. m : y = q[k].id
    OBVIOUS
  <2>2. \A y : y \in {x.id : x \in {q[k] : k \in 1 .. m}} <=> \E k \in 1 .. m : y = q[k].id
    BY Zenon
  <2>3. {q[k].id : k \in 1 .. m} = {x.id : x \in {q[k] : k \in 1 .. m}}
    BY Zenon, <2>1, <2>2
  <2> QED
    BY <1>7, <1>8, <2>3 DEF m
<1>10. Icc!Ids(s) = {ps[k].id : k \in all}
  BY <1>2, <1>9
<1> QED
  BY <1>2, <1>6, <1>10 DEF RoleRows, all

(***************************************************************************)
(* The players: the invariant.                                             *)
(***************************************************************************)
\* Lists and totals are those of the players so far, who are in memory till the
\* exit, which frees those in a list.
PlayersInv ==
  /\ at \in {"start", "load", "menu", "sort", "exit"}
  /\ players \in Seq(Players) /\ playerIndex \in 1 .. Len(players) + 1
  /\ at = "start" => playerIndex = 1
  /\ TablesRight(players, playerIndex - 1, list, team)
  /\ playerHeap \subseteq {players[k] : k \in 1 .. playerIndex - 1}
  /\ at = "exit" => playerHeap \cap Icc!Listed = {}

\* What the menu shows is the answer to what was asked; till then it is sorted.
AnswersInv ==
  /\ at \in {"start", "load"} => asked = Icc!Nothing
  /\ asked = Icc!Nothing => displayed = <<>>
  /\ at = "sort" => /\ asked.what \in {"teams", "role"}
                    /\ Sorting(rows, ranges)
                    /\ AllShown(players, playerIndex - 1, asked, rows)
  /\ at = "menu" =>
       /\ asked.what \in {"teams", "role"} =>
            AllShown(players, playerIndex - 1, asked, displayed) /\ Icc!Descending(displayed)
       /\ asked.what = "top" => TopShown(players, playerIndex - 1, asked, displayed)
       /\ asked.what = "team" => Len(displayed) = team[asked.team].players

LEMMA PlayersInit ==
  Icc!Init => PlayersInv /\ AnswersInv
<1> SUFFICES ASSUME Icc!Init PROVE PlayersInv /\ AnswersInv
  OBVIOUS
<1>1. /\ at = "start" /\ players = <<>> /\ playerIndex = 1
      /\ list = [t \in Icc!TeamIds |-> [r \in Icc!Roles |-> <<>>]]
      /\ team = [t \in Icc!TeamIds |-> Icc!NewTeam]
      /\ playerHeap = {} /\ displayed = <<>> /\ asked = Icc!Nothing
  BY DEF Icc!Init
<1> HIDE DEF Players
<1>2. <<>> \in Seq(Players)
  OBVIOUS
<1>3. TablesRight(<<>>, 0, list, team)
  <2>1. list \in [Icc!TeamIds -> [Icc!Roles -> Seq(Players)]]
    BY <1>1, <1>2
  <2>2. team = [t \in Icc!TeamIds |-> team[t]]
    BY <1>1
  <2>3. ASSUME NEW t \in Icc!TeamIds, NEW r \in Icc!Roles
        PROVE  list[t][r] = <<>> /\ ListRight(<<>>, 0, t, r, list[t][r])
    BY <1>1, <1>2, FirstTables
  <2>4. ASSUME NEW t \in Icc!TeamIds
        PROVE  /\ TotalsRight(<<>>, 0, t, team[t])
               /\ team[t].players =
                    Len(list[t]["Batsman"]) + Len(list[t]["Bowler"]) + Len(list[t]["All-rounder"])
    <3>1. TotalsRight(<<>>, 0, t, team[t])
      BY <1>1, <1>2, FirstTables
    <3>2. team[t].players = 0
      BY <1>1 DEF Icc!NewTeam
    <3>3. Len(list[t]["Batsman"]) = 0 /\ Len(list[t]["Bowler"]) = 0 /\ Len(list[t]["All-rounder"]) = 0
      BY <2>3 DEF Icc!Roles
    <3> QED
      BY <3>1, <3>2, <3>3
  <2> QED
    BY <2>1, <2>2, <2>3, <2>4 DEF TablesRight
<1>4. PlayersInv
  BY <1>1, <1>2, <1>3 DEF PlayersInv
<1>5. AnswersInv
  BY <1>1 DEF AnswersInv
<1> QED
  BY <1>4, <1>5

LEMMA PlayersStart ==
  PlayersInv /\ AnswersInv /\ Icc!start => PlayersInv' /\ AnswersInv'
<1> SUFFICES ASSUME PlayersInv, AnswersInv, Icc!start PROVE PlayersInv' /\ AnswersInv'
  OBVIOUS
<1>1. /\ at = "start" /\ at' = "load" /\ players' \in Rosters
      /\ playerIndex' = playerIndex /\ list' = list /\ team' = team /\ playerHeap' = playerHeap
      /\ asked' = asked /\ displayed' = displayed
  BY DEF Icc!start
<1>2. players' \in Seq(Players)
  BY <1>1, RostersAssumption DEF Players
<1> HIDE DEF Players
<1>3. /\ playerIndex = 1 /\ players \in Seq(Players)
      /\ TablesRight(players, 0, list, team)
      /\ playerHeap = {}
  BY <1>1 DEF PlayersInv
<1>4. TablesRight(players', 0, list, team)
  <2>1. ASSUME NEW t, NEW S PROVE InTeam(players', 0, t, S) = InTeam(players, 0, t, S)
    BY NoPlayers
  <2>2. ASSUME NEW S PROVE SumOf(players', S, 0) = SumOf(players, S, 0)
    BY <1>2, <1>3, SumOfNone
  <2>3. ASSUME NEW t, NEW r, NEW l, ListRight(players, 0, t, r, l)
        PROVE  ListRight(players', 0, t, r, l)
    <3>1. l \in Seq(Players) /\ Ordered(l) /\ ToSet(l) = {} /\ Len(l) = 0
      BY <2>3, NoPlayers DEF ListRight
    <3> QED
      BY <3>1, NoPlayers DEF ListRight
  <2>4. ASSUME NEW t, NEW m, TotalsRight(players, 0, t, m)
        PROVE  TotalsRight(players', 0, t, m)
    BY <2>1, <2>2, <2>4 DEF TotalsRight
  <2> QED
    BY <1>3, <2>3, <2>4 DEF TablesRight
<1>5. PlayersInv'
  <2>1. playerIndex' \in 1 .. Len(players') + 1
    BY <1>1, <1>2, <1>3
  <2>2. playerIndex' - 1 = 0
    BY <1>1, <1>3
  <2> QED
    BY <1>1, <1>2, <1>3, <1>4, <2>1, <2>2 DEF PlayersInv
<1>6. AnswersInv'
  BY <1>1 DEF AnswersInv
<1> QED
  BY <1>5, <1>6

LEMMA PlayersAdd ==
  PlayersInv /\ AnswersInv /\ Icc!addPlayerToTeam => PlayersInv' /\ AnswersInv'
<1> SUFFICES ASSUME PlayersInv, AnswersInv, Icc!addPlayerToTeam PROVE PlayersInv' /\ AnswersInv'
  OBVIOUS
<1> DEFINE n == playerIndex - 1
           p == players[playerIndex]
           u == Icc!findTeamIndex(p.team)
<1>1. /\ at = "load" /\ at' = "load" /\ playerIndex <= Len(players)
      /\ playerIndex' = playerIndex + 1 /\ players' = players
      /\ playerHeap' = playerHeap \cup {p}
      /\ asked' = asked /\ displayed' = displayed
  BY DEF Icc!addPlayerToTeam
<1>2. u = 0 => list' = list /\ team' = team
  BY DEF Icc!addPlayerToTeam
<1>3. u # 0 =>
        /\ list' = [list EXCEPT ![u][p.role] = Icc!insertPlayersSortedByPerformanceIndex(@, p)]
        /\ team' = [team EXCEPT ![u] = Icc!Totals(@, p)]
  BY DEF Icc!addPlayerToTeam
<1>4. \A x \in Players : x.team \in Int
  BY DEF Players
<1> HIDE DEF Players
<1>5. /\ players \in Seq(Players) /\ playerIndex \in 1 .. Len(players) + 1
      /\ TablesRight(players, n, list, team)
      /\ playerHeap \subseteq {players[k] : k \in 1 .. n}
  BY DEF PlayersInv
<1>6. /\ n \in Nat /\ n + 1 = playerIndex /\ n + 1 <= Len(players) /\ playerIndex' - 1 = n + 1
      /\ playerIndex' \in 1 .. Len(players) + 1
  BY <1>1, <1>5
<1>7. p \in Players
  <2>1. playerIndex \in 1 .. Len(players)
    BY <1>1, <1>5
  <2> QED
    BY <1>5, <2>1
<1>8. p = players[n + 1]
  BY <1>6
<1> HIDE DEF n, p, u
<1>9. /\ u \in 0 .. Len(Teams)
      /\ u # 0 => Teams[u] = p.team
      /\ \A t \in 1 .. Len(Teams) : Teams[t] = p.team => u = t
  BY <1>4, <1>7, FindsTeam DEF u
<1>10. Len(Teams) \in Nat /\ Icc!TeamIds = 1 .. Len(Teams)
  BY TeamsInOrder
<1>11. TablesRight(players, n + 1, list', team')
  <2>1. CASE u = 0
    <3>1. \A t \in Icc!TeamIds : players[n + 1].team # Teams[t]
      BY <1>8, <1>9, <1>10, <2>1
    <3> QED
      BY <1>2, <1>5, <1>6, <2>1, <3>1, TablesUnknown
  <2>2. CASE u # 0
    <3>1. u \in Icc!TeamIds /\ players[n + 1].team = Teams[u]
      BY <1>8, <1>9, <1>10, <2>2
    <3>2. TablesRight(players, n + 1,
            [list EXCEPT ![u][players[n + 1].role] =
               Icc!insertPlayersSortedByPerformanceIndex(@, players[n + 1])],
            [team EXCEPT ![u] = Icc!Totals(@, players[n + 1])])
      BY <1>5, <1>6, <3>1, TablesKnown
    <3>3. /\ list' = [list EXCEPT ![u][players[n + 1].role] =
                        Icc!insertPlayersSortedByPerformanceIndex(@, players[n + 1])]
          /\ team' = [team EXCEPT ![u] = Icc!Totals(@, players[n + 1])]
      BY <1>3, <1>8, <2>2
    <3> QED
      BY Zenon, <3>2, <3>3
  <2> QED
    BY <2>1, <2>2
<1>12. playerHeap' \subseteq {players[k] : k \in 1 .. n + 1}
  <2>1. \A k \in 1 .. n : k \in 1 .. n + 1
    BY <1>6
  <2>2. n + 1 \in 1 .. n + 1
    BY <1>6
  <2> QED
    BY <1>1, <1>5, <1>8, <2>1, <2>2
<1>13. PlayersInv'
  BY <1>1, <1>5, <1>6, <1>11, <1>12 DEF PlayersInv
<1>14. AnswersInv'
  BY <1>1 DEF AnswersInv
<1> QED
  BY <1>13, <1>14

LEMMA TablesStay ==
  PlayersInv /\ UNCHANGED Icc!tables /\ at' \in {"load", "menu", "sort"} => PlayersInv'
<1> SUFFICES ASSUME PlayersInv, UNCHANGED Icc!tables, at' \in {"load", "menu", "sort"}
    PROVE PlayersInv'
  OBVIOUS
<1>1. /\ players' = players /\ playerIndex' = playerIndex
      /\ list' = list /\ team' = team /\ playerHeap' = playerHeap
  BY DEF Icc!tables
<1>2. at' # "start" /\ at' # "exit" /\ at' \in {"start", "load", "menu", "sort", "exit"}
  OBVIOUS
<1> HIDE DEF Players
<1> QED
  BY <1>1, <1>2 DEF PlayersInv

LEMMA PlayersLoaded ==
  PlayersInv /\ AnswersInv /\ Icc!loaded => PlayersInv' /\ AnswersInv'
<1> SUFFICES ASSUME PlayersInv, AnswersInv, Icc!loaded PROVE PlayersInv' /\ AnswersInv'
  OBVIOUS
<1>1. /\ at = "load" /\ at' = "menu" /\ UNCHANGED Icc!tables
      /\ asked' = asked /\ displayed' = displayed
  BY DEF Icc!loaded
<1>2. PlayersInv'
  BY <1>1, TablesStay
<1>3. asked' = Icc!Nothing /\ displayed' = <<>> /\ asked'.what = "nothing"
  BY <1>1 DEF AnswersInv, Icc!Nothing
<1>4. AnswersInv'
  BY <1>1, <1>3 DEF AnswersInv
<1> QED
  BY <1>2, <1>4

LEMMA PlayersTeam ==
  ASSUME NEW t \in Icc!TeamIds
  PROVE  PlayersInv /\ AnswersInv /\ Icc!displayPlayersOfSpecificTeam(t) => PlayersInv' /\ AnswersInv'
<1> SUFFICES ASSUME PlayersInv, AnswersInv, Icc!displayPlayersOfSpecificTeam(t)
    PROVE PlayersInv' /\ AnswersInv'
  OBVIOUS
<1>1. /\ at = "menu" /\ at' = "menu" /\ UNCHANGED Icc!tables
      /\ asked' = [what |-> "team", team |-> t]
      /\ displayed' = list[t]["Batsman"] \o list[t]["Bowler"] \o list[t]["All-rounder"]
  BY DEF Icc!displayPlayersOfSpecificTeam, Icc!Ask
<1>2. PlayersInv'
  BY <1>1, TablesStay
<1>3. TablesRight(players, playerIndex - 1, list, team) /\ team' = team
  BY <1>1 DEF PlayersInv, Icc!tables
<1>4. Len(displayed') = team'[t].players
  <2>1. Len(list[t]["Batsman"] \o list[t]["Bowler"] \o list[t]["All-rounder"]) = team[t].players
    <3>1. TeamShown(t, list, team)
      BY <1>3, TeamIsShown
    <3> QED
      BY <3>1 DEF TeamShown
  <2> QED
    BY <1>1, <1>3, <2>1
<1>5. asked'.what = "team" /\ asked'.team = t /\ asked' # Icc!Nothing
  BY <1>1 DEF Icc!Nothing
<1>6. AnswersInv'
  BY <1>1, <1>4, <1>5 DEF AnswersInv
<1> QED
  BY <1>2, <1>6

LEMMA PlayersTop ==
  ASSUME NEW t \in Icc!TeamIds, NEW r \in Icc!Roles, NEW k \in 1 .. Len(players) + 1
  PROVE  PlayersInv /\ AnswersInv /\ Icc!displayTopKPlayersOfSpecificTeamByRole(t, r, k) =>
           PlayersInv' /\ AnswersInv'
<1> SUFFICES ASSUME PlayersInv, AnswersInv, Icc!displayTopKPlayersOfSpecificTeamByRole(t, r, k)
    PROVE PlayersInv' /\ AnswersInv'
  OBVIOUS
<1>1. /\ at = "menu" /\ at' = "menu" /\ UNCHANGED Icc!tables
      /\ asked' = [what |-> "top", team |-> t, role |-> r, k |-> k]
      /\ displayed' = Icc!First(list[t][r], k)
  BY DEF Icc!displayTopKPlayersOfSpecificTeamByRole, Icc!Ask
<1>2. PlayersInv'
  BY <1>1, TablesStay
<1>3. /\ TablesRight(players, playerIndex - 1, list, team)
      /\ players' = players /\ playerIndex' = playerIndex
  BY <1>1 DEF PlayersInv, Icc!tables
<1>4. k \in Nat \ {0}
  OBVIOUS
<1>5. TopShown(players, playerIndex - 1, [what |-> "top", team |-> t, role |-> r, k |-> k],
               Icc!First(list[t][r], k))
  BY <1>3, <1>4, TopIsShown
<1>6. TopShown(players', playerIndex' - 1, asked', displayed')
  BY Zenon, <1>1, <1>3, <1>5
<1>7. asked'.what = "top" /\ asked' # Icc!Nothing
  BY <1>1 DEF Icc!Nothing
<1>8. AnswersInv'
  BY <1>1, <1>6, <1>7 DEF AnswersInv
<1> QED
  BY <1>2, <1>8

LEMMA PlayersTeams ==
  PlayersInv /\ AnswersInv /\ Icc!displayTeamsByAverageBattingStrikeRate =>
    PlayersInv' /\ AnswersInv'
<1> SUFFICES ASSUME PlayersInv, AnswersInv, Icc!displayTeamsByAverageBattingStrikeRate
    PROVE PlayersInv' /\ AnswersInv'
  OBVIOUS
<1> DEFINE s == [t \in Icc!TeamIds |-> [id |-> t, key |-> team[t].average]]
<1>1. /\ at' = "sort" /\ UNCHANGED Icc!tables
      /\ asked' = [what |-> "teams"]
      /\ rows' = s /\ ranges' = <<<<1, Len(s)>>>>
  BY DEF Icc!displayTeamsByAverageBattingStrikeRate, Icc!Sort
<1>2. PlayersInv'
  BY <1>1, TablesStay
<1> HIDE DEF Players
<1>3. /\ TablesRight(players, playerIndex - 1, list, team)
      /\ players \in Seq(Players) /\ playerIndex - 1 \in 0 .. Len(players)
  BY DEF PlayersInv
<1>4. s \in Seq(Rows) /\ Len(s) = Len(Teams) /\ Icc!Ids(s) = Icc!TeamIds
  <2>1. s = [t \in Icc!TeamIds |-> [id |-> t, key |-> team[t].average]]
    OBVIOUS
  <2> HIDE DEF s
  <2> QED
    BY <1>3, <2>1, TeamsToSort
<1> HIDE DEF s
<1>5. Sorting(s, <<<<1, Len(s)>>>>)
  BY <1>4, FirstCall
<1>6. asked'.what = "teams" /\ asked' # Icc!Nothing
  BY <1>1 DEF Icc!Nothing
<1>7. AllShown(players', playerIndex' - 1, asked', rows')
  BY <1>1, <1>4, <1>6 DEF AllShown
<1>8. Sorting(rows', ranges')
  BY Zenon, <1>1, <1>5
<1>9. AnswersInv'
  BY <1>1, <1>6, <1>7, <1>8 DEF AnswersInv
<1> QED
  BY <1>2, <1>9

LEMMA PlayersRole ==
  ASSUME NEW r \in Icc!Roles
  PROVE  PlayersInv /\ AnswersInv
         /\ Icc!displayPlayersOfAllTeamsFilterByRoleAndPerformanceIndex(r) =>
           PlayersInv' /\ AnswersInv'
<1> SUFFICES ASSUME PlayersInv, AnswersInv,
                    Icc!displayPlayersOfAllTeamsFilterByRoleAndPerformanceIndex(r)
    PROVE PlayersInv' /\ AnswersInv'
  OBVIOUS
<1> DEFINE q == Icc!RolePlayers(r)
           s == [k \in DOMAIN q |-> [id |-> q[k].id, key |-> <<q[k].index, 1>>]]
           n == playerIndex - 1
           all == InTeams(players, n, Len(Teams), r)
<1>1. /\ at = "menu" /\ UNCHANGED Icc!tables
      /\ asked = Icc!Nothing /\ asked' = [what |-> "role", role |-> r]
      /\ displayed' = displayed
      /\ q = <<>> => at' = at
      /\ q # <<>> => at' = "sort" /\ rows' = s /\ ranges' = <<<<1, Len(s)>>>>
  BY DEF Icc!displayPlayersOfAllTeamsFilterByRoleAndPerformanceIndex, Icc!Sort
<1>2. PlayersInv'
  <2>1. at' \in {"load", "menu", "sort"}
    BY <1>1
  <2> QED
    BY <1>1, <2>1, TablesStay
<1> HIDE DEF Players
<1>3. /\ TablesRight(players, n, list, team) /\ n \in Nat
      /\ players' = players /\ playerIndex' = playerIndex
  BY <1>1 DEF PlayersInv, Icc!tables
<1>4. q = Joined(list, r)
  BY DEF Icc!RolePlayers, Joined, Icc!teamCount
<1> HIDE DEF q
<1>5. /\ s \in Seq(Rows) /\ Len(s) = Cardinality(all)
      /\ Icc!Ids(s) = {players[k].id : k \in all}
      /\ Len(q) = Len(s)
  <2>1. s = [k \in DOMAIN q |-> [id |-> q[k].id, key |-> <<q[k].index, 1>>]]
    OBVIOUS
  <2> HIDE DEF s, n
  <2> QED
    <3>1. RoleRows(players, n, r, q, s)
      BY <1>3, <1>4, <2>1, RoleToSort
    <3> QED
      BY <3>1 DEF RoleRows
<1>6. asked'.what = "role" /\ asked'.role = r /\ asked' # Icc!Nothing
  BY <1>1 DEF Icc!Nothing
<1>7. CASE q = <<>>
  <2>1. s = <<>>
    BY <1>7
  <2>2. displayed' = s
    BY <1>1, <2>1 DEF AnswersInv
  <2> HIDE DEF s
  <2>3. AllShown(players', playerIndex' - 1, asked', displayed')
    BY <1>3, <1>5, <1>6, <2>2 DEF AllShown, n, all
  <2>4. Icc!Descending(displayed')
    BY <2>1, <2>2 DEF Icc!Descending
  <2>5. AnswersInv'
    BY <1>1, <1>6, <1>7, <2>3, <2>4 DEF AnswersInv
  <2> QED
    BY <1>2, <2>5
<1>8. CASE q # <<>>
  <2> HIDE DEF s
  <2>1. Sorting(s, <<<<1, Len(s)>>>>)
    BY <1>5, FirstCall
  <2>2. rows' = s /\ ranges' = <<<<1, Len(s)>>>> /\ at' = "sort"
    BY <1>1, <1>8
  <2>3. Sorting(rows', ranges')
    BY Zenon, <2>1, <2>2
  <2>4. AllShown(players', playerIndex' - 1, asked', rows')
    BY <1>3, <1>5, <1>6, <2>2 DEF AllShown, n, all
  <2>5. AnswersInv'
    BY <1>6, <2>2, <2>3, <2>4 DEF AnswersInv
  <2> QED
    BY <1>2, <2>5
<1> QED
  BY <1>7, <1>8

LEMMA PlayersSort ==
  PlayersInv /\ AnswersInv /\ Icc!quickSort => PlayersInv' /\ AnswersInv'
<1> SUFFICES ASSUME PlayersInv, AnswersInv, Icc!quickSort PROVE PlayersInv' /\ AnswersInv'
  OBVIOUS
<1> DEFINE lo == Icc!Last(ranges)[1]
           hi == Icc!Last(ranges)[2]
           x == Icc!partition(rows, lo, hi)
<1>1. /\ at = "sort" /\ at' = "sort" /\ ranges # <<>> /\ UNCHANGED Icc!tables
      /\ asked' = asked /\ displayed' = displayed
      /\ lo >= hi => ranges' = Icc!Front(ranges) /\ rows' = rows
      /\ ~(lo >= hi) =>
           /\ rows' = x.rows
           /\ ranges' = Icc!Front(ranges) \o <<<<x.index + 1, hi>>, <<lo, x.index - 1>>>>
  BY DEF Icc!quickSort
<1>2. PlayersInv'
  BY <1>1, TablesStay
<1>3. /\ Sorting(rows, ranges) /\ asked.what \in {"teams", "role"}
      /\ asked # Icc!Nothing \/ displayed = <<>>
      /\ AllShown(players, playerIndex - 1, asked, rows)
  BY <1>1 DEF AnswersInv
<1>4. /\ lo >= hi => Sorting(rows, Icc!Front(ranges))
      /\ ~(lo >= hi) =>
           /\ Sorting(x.rows, Icc!Front(ranges) \o <<<<x.index + 1, hi>>, <<lo, x.index - 1>>>>)
           /\ Len(x.rows) = Len(rows) /\ ToSet(x.rows) = ToSet(rows)
  <2>1. lo = Icc!Last(ranges)[1] /\ hi = Icc!Last(ranges)[2]
    OBVIOUS
  <2>2. x = Icc!partition(rows, lo, hi)
    OBVIOUS
  <2> HIDE DEF lo, hi, x
  <2>3. Called(rows, ranges, lo, hi)
    BY <1>1, <1>3, <2>1, CallSorts
  <2> QED
    BY <2>2, <2>3 DEF Called
<1> HIDE DEF lo, hi, x
<1>5. Sorting(rows', ranges') /\ Len(rows') = Len(rows) /\ ToSet(rows') = ToSet(rows)
  <2>1. CASE lo >= hi
    BY <1>1, <1>3, <1>4, <2>1
  <2>2. CASE ~(lo >= hi)
    BY Zenon, <1>1, <1>4, <2>2
  <2> QED
    BY <2>1, <2>2
<1>6. Icc!Ids(rows') = Icc!Ids(rows)
  <2>1. rows \in Seq(Rows) /\ rows' \in Seq(Rows)
    BY <1>3, <1>5 DEF Sorting
  <2> QED
    BY <1>5, <2>1, SameIds
<1>7. players' = players /\ playerIndex' = playerIndex
  BY <1>1 DEF Icc!tables
<1>8. AllShown(players', playerIndex' - 1, asked', rows')
  BY <1>1, <1>3, <1>5, <1>6, <1>7 DEF AllShown
<1>9. AnswersInv'
  BY <1>1, <1>3, <1>5, <1>8 DEF AnswersInv
<1> QED
  BY <1>2, <1>9

LEMMA PlayersSorted ==
  PlayersInv /\ AnswersInv /\ Icc!displaySorted => PlayersInv' /\ AnswersInv'
<1> SUFFICES ASSUME PlayersInv, AnswersInv, Icc!displaySorted PROVE PlayersInv' /\ AnswersInv'
  OBVIOUS
<1>1. /\ at = "sort" /\ ranges = <<>> /\ at' = "menu" /\ displayed' = rows
      /\ asked' = asked /\ UNCHANGED Icc!tables
  BY DEF Icc!displaySorted
<1>2. PlayersInv'
  BY <1>1, TablesStay
<1>3. /\ Sorting(rows, <<>>) /\ asked.what \in {"teams", "role"}
      /\ AllShown(players, playerIndex - 1, asked, rows)
  BY <1>1 DEF AnswersInv
<1>4. Icc!Descending(displayed')
  BY <1>1, <1>3, LastCall
<1>5. AllShown(players', playerIndex' - 1, asked', displayed')
  <2>1. players' = players /\ playerIndex' = playerIndex
    BY <1>1 DEF Icc!tables
  <2> QED
    BY Zenon, <1>1, <1>3, <2>1
<1>6. asked' # Icc!Nothing /\ asked'.what # "top" /\ asked'.what # "team"
  BY <1>1, <1>3 DEF Icc!Nothing
<1>7. AnswersInv'
  BY <1>1, <1>4, <1>5, <1>6 DEF AnswersInv
<1> QED
  BY <1>2, <1>7

LEMMA PlayersNext ==
  PlayersInv /\ AnswersInv /\ Icc!nextChoice => PlayersInv' /\ AnswersInv'
<1> SUFFICES ASSUME PlayersInv, AnswersInv, Icc!nextChoice PROVE PlayersInv' /\ AnswersInv'
  OBVIOUS
<1>1. /\ at = "menu" /\ at' = "menu" /\ UNCHANGED Icc!tables
      /\ asked' = Icc!Nothing /\ displayed' = <<>>
  BY DEF Icc!nextChoice
<1>2. PlayersInv'
  BY <1>1, TablesStay
<1>3. asked'.what = "nothing"
  BY <1>1 DEF Icc!Nothing
<1>4. AnswersInv'
  BY <1>1, <1>3 DEF AnswersInv
<1> QED
  BY <1>2, <1>4

LEMMA PlayersExit ==
  PlayersInv /\ AnswersInv /\ Icc!exitMenu => PlayersInv' /\ AnswersInv'
<1> SUFFICES ASSUME PlayersInv, AnswersInv, Icc!exitMenu PROVE PlayersInv' /\ AnswersInv'
  OBVIOUS
<1>1. /\ at = "menu" /\ at' = "exit" /\ playerHeap' = playerHeap \ Icc!Listed
      /\ players' = players /\ playerIndex' = playerIndex /\ list' = list /\ team' = team
      /\ asked' = asked /\ displayed' = displayed
  BY DEF Icc!exitMenu
<1>2. Icc!Listed' = Icc!Listed
  BY <1>1 DEF Icc!Listed
<1> HIDE DEF Players
<1>3. PlayersInv'
  BY <1>1, <1>2 DEF PlayersInv
<1>4. AnswersInv'
  BY <1>1 DEF AnswersInv
<1> QED
  BY <1>3, <1>4

LEMMA PlayersStutter ==
  PlayersInv /\ AnswersInv /\ UNCHANGED Icc!playerVars => PlayersInv' /\ AnswersInv'
<1> SUFFICES ASSUME PlayersInv, AnswersInv, UNCHANGED Icc!playerVars
    PROVE PlayersInv' /\ AnswersInv'
  OBVIOUS
<1>1. /\ at' = at /\ players' = players /\ playerIndex' = playerIndex /\ list' = list
      /\ team' = team /\ playerHeap' = playerHeap /\ rows' = rows /\ ranges' = ranges
      /\ asked' = asked /\ displayed' = displayed
  BY DEF Icc!playerVars
<1>2. Icc!Listed' = Icc!Listed
  BY <1>1 DEF Icc!Listed
<1> HIDE DEF Players
<1>3. PlayersInv'
  BY <1>1, <1>2 DEF PlayersInv
<1>4. AnswersInv'
  BY <1>1 DEF AnswersInv
<1> QED
  BY <1>3, <1>4

LEMMA SameCardinality ==
  \A S : Icc!Cardinality(S) = Cardinality(S)
BY DEF Icc!Cardinality, Cardinality

LEMMA LoadedIsInTeam ==
  /\ \A t, S : Icc!Loaded(t, S) = InTeam(players, playerIndex - 1, t, S)
  /\ \A S : Icc!Strike(S) = SumOf(players, S, playerIndex - 1)
BY DEF Icc!Loaded, InTeam, Icc!Strike, SumOf

LEMMA ListsAreRight ==
  PlayersInv => Icc!ListsRight
<1> SUFFICES ASSUME PlayersInv PROVE Icc!ListsRight
  OBVIOUS
<1> DEFINE n == playerIndex - 1
<1>1. \A x \in Players : x.role \in Icc!Roles
  BY DEF Players
<1> HIDE DEF Players
<1>2. /\ players \in Seq(Players) /\ n \in 0 .. Len(players)
      /\ TablesRight(players, n, list, team)
      /\ playerHeap \subseteq {players[k] : k \in 1 .. n}
      /\ at = "exit" => playerHeap \cap Icc!Listed = {}
  BY DEF PlayersInv
<1>3. \A t, S : Icc!Loaded(t, S) = InTeam(players, n, t, S)
  BY LoadedIsInTeam
<1>4. \A S : Icc!Strike(S) = SumOf(players, S, n)
  BY LoadedIsInTeam
<1> HIDE DEF n
<1>5. ASSUME NEW t \in Icc!TeamIds, NEW r \in Icc!Roles
      PROVE  /\ Icc!Range(list[t][r]) = {players[k] : k \in Icc!Loaded(t, {r})}
             /\ Len(list[t][r]) = Icc!Cardinality(Icc!Loaded(t, {r}))
             /\ \A j, k \in DOMAIN list[t][r] : j < k => list[t][r][j].index >= list[t][r][k].index
  <2> DEFINE l == list[t][r]
  <2>1. /\ l \in Seq(Players) /\ ToSet(l) = {players[k] : k \in InTeam(players, n, t, {r})}
        /\ Len(l) = Cardinality(InTeam(players, n, t, {r}))
        /\ \A j, k \in 1 .. Len(l) : j < k => l[j].index >= l[k].index
    BY <1>2 DEF TablesRight, ListRight, Ordered
  <2> HIDE DEF l
  <2>2. DOMAIN l = 1 .. Len(l) /\ Icc!Range(l) = ToSet(l)
    BY <2>1 DEF Icc!Range, ToSet
  <2> QED
    BY <1>3, <2>1, <2>2, SameCardinality DEF l
<1>6. ASSUME NEW t \in Icc!TeamIds
      PROVE  LET bats == Icc!Loaded(t, {"Batsman", "All-rounder"})
             IN  /\ team[t].players = Icc!Cardinality(Icc!Loaded(t, Icc!Roles))
                 /\ bats # {} => team[t].average = <<Icc!Strike(bats), Icc!Cardinality(bats)>>
  <2>1. /\ team[t].players = Cardinality(InTeam(players, n, t, Icc!Roles))
        /\ team[t].average =
             IF InTeam(players, n, t, Bats) = {} THEN <<0, 1>>
             ELSE <<SumOf(players, InTeam(players, n, t, Bats), n),
                    Cardinality(InTeam(players, n, t, Bats))>>
    BY <1>2 DEF TablesRight, TotalsRight
  <2> QED
    BY <1>3, <1>4, <2>1, SameCardinality DEF Bats
<1>7. ASSUME at = "exit", NEW p \in playerHeap, NEW t \in Icc!TeamIds, p.team = Teams[t]
      PROVE  FALSE
  <2>1. PICK k \in 1 .. n : p = players[k]
    BY <1>2
  <2>2. p.role \in Icc!Roles
    <3>1. k \in 1 .. Len(players)
      BY <1>2
    <3>2. p \in Players
      BY <1>2, <2>1, <3>1
    <3> QED
      BY <1>1, <3>2
  <2>3. k \in InTeam(players, n, t, {p.role})
    BY <1>7, <2>1 DEF InTeam
  <2>4. p \in Icc!Range(list[t][p.role])
    <3>1. Icc!Range(list[t][p.role]) = {players[i] : i \in InTeam(players, n, t, {p.role})}
      BY <1>3, <1>5, <2>2
    <3> QED
      BY <2>1, <2>3, <3>1
  <2>5. p \in Icc!Listed
    BY <2>2, <2>4 DEF Icc!Listed
  <2> QED
    BY <1>2, <1>7, <2>5
<1> QED
  BY <1>5, <1>6, <1>7 DEF Icc!ListsRight

\* Players: whatever the roster, the lists hold the players of known teams in order and
\* the totals are theirs; the teams by average and the players of a role are sorted and
\* complete, of a list the best k are shown, and of a team all players.
THEOREM DisplaysAreRight == InMemorySpec => []DisplaysRight
<1>1. Icc!Init => PlayersInv /\ AnswersInv
  BY PlayersInit
<1>2. PlayersInv /\ AnswersInv /\ [Icc!Next]_Icc!playerVars => PlayersInv' /\ AnswersInv'
  <2> SUFFICES ASSUME PlayersInv, AnswersInv, [Icc!Next]_Icc!playerVars
      PROVE PlayersInv' /\ AnswersInv'
    OBVIOUS
  <2>1. CASE Icc!start \/ Icc!addPlayerToTeam \/ Icc!loaded
    BY <2>1, PlayersStart, PlayersAdd, PlayersLoaded
  <2>2. ASSUME NEW t \in Icc!TeamIds, Icc!displayPlayersOfSpecificTeam(t)
        PROVE  PlayersInv' /\ AnswersInv'
    BY <2>2, PlayersTeam
  <2>3. ASSUME NEW t \in Icc!TeamIds, NEW r \in Icc!Roles, NEW k \in 1 .. Len(players) + 1,
               Icc!displayTopKPlayersOfSpecificTeamByRole(t, r, k)
        PROVE  PlayersInv' /\ AnswersInv'
    BY <2>3, PlayersTop
  <2>4. CASE Icc!displayTeamsByAverageBattingStrikeRate
    BY <2>4, PlayersTeams
  <2>5. ASSUME NEW r \in Icc!Roles,
               Icc!displayPlayersOfAllTeamsFilterByRoleAndPerformanceIndex(r)
        PROVE  PlayersInv' /\ AnswersInv'
    BY <2>5, PlayersRole
  <2>6. CASE Icc!quickSort \/ Icc!displaySorted
    BY <2>6, PlayersSort, PlayersSorted
  <2>7. CASE Icc!nextChoice \/ Icc!exitMenu
    BY <2>7, PlayersNext, PlayersExit
  <2>8. CASE UNCHANGED Icc!playerVars
    BY <2>8, PlayersStutter
  <2> QED
    BY <2>1, <2>2, <2>3, <2>4, <2>5, <2>6, <2>7, <2>8 DEF Icc!Next
<1>3. PlayersInv /\ AnswersInv => DisplaysRight
  <2> SUFFICES ASSUME PlayersInv, AnswersInv PROVE DisplaysRight
    OBVIOUS
  <2>1. Icc!ListsRight
    BY ListsAreRight
  <2>2. \A t, S : Icc!Loaded(t, S) = InTeam(players, playerIndex - 1, t, S)
    BY LoadedIsInTeam
  <2>3. \A r : UNION {Icc!Loaded(t, {r}) : t \in Icc!TeamIds} =
                 InTeams(players, playerIndex - 1, Len(Teams), r)
    BY <2>2, TeamsInOrder DEF InTeams
  <2>4. Icc!teamCount = Len(Teams)
    BY DEF Icc!teamCount
  <2>5. at = "menu" /\ asked.what = "teams" =>
          /\ Icc!Ids(displayed) = Icc!TeamIds /\ Len(displayed) = Icc!teamCount
          /\ Icc!Descending(displayed)
    BY <2>4 DEF AnswersInv, AllShown
  <2>6. at = "menu" /\ asked.what = "role" =>
          LET all == UNION {Icc!Loaded(t, {asked.role}) : t \in Icc!TeamIds}
          IN  /\ Icc!Ids(displayed) = {players[k].id : k \in all}
              /\ Len(displayed) = Icc!Cardinality(all)
              /\ Icc!Descending(displayed)
    BY <2>3, SameCardinality DEF AnswersInv, AllShown
  <2>7. at = "menu" /\ asked.what = "top" =>
          LET all == Icc!Loaded(asked.team, {asked.role})
          IN  /\ Len(displayed) = IF asked.k < Icc!Cardinality(all) THEN asked.k
                                  ELSE Icc!Cardinality(all)
              /\ Icc!Ids(displayed) \subseteq {players[k].id : k \in all}
              /\ \A k \in all, j \in DOMAIN displayed :
                   players[k].id \in Icc!Ids(displayed) \/ displayed[j].index >= players[k].index
    BY <2>2, SameCardinality DEF AnswersInv, TopShown
  <2>8. at = "menu" /\ asked.what = "team" => Len(displayed) = team[asked.team].players
    BY DEF AnswersInv
  <2> QED
    BY <2>1, <2>5, <2>6, <2>7, <2>8 DEF DisplaysRight, Icc!DisplaysRight
<1> QED
  BY <1>1, <1>2, <1>3, EachRunsAlone, PTL DEF Icc!Spec

(***************************************************************************)
(* The inventory.                                                          *)
(***************************************************************************)
USE TextsAssumption, BoundsAssumption, MemoryAssumption

(***************************************************************************)
(* The inductive invariant.                                                *)
(***************************************************************************)
\* What the fields of a product, or of the cell of one not entered yet, hold.
Cell == [id : Nat, name : Texts \cup {<<>>}, price : Nat, quantity : Nat]

Shape ==
  /\ products \in Seq(Cell)
  /\ got \in Cell
  /\ total = Len(products)
  /\ cells \in Nat /\ total <= cells
  /\ stage = "count" => task = "initialize" /\ total = 0 /\ entered = 0

\* While initializeInventory asks, the cells behind the entered ones are zero.
Filling ==
  task = "initialize" /\ stage # "count" =>
    /\ entered \in 0 .. total - 1
    /\ \A k \in 1 .. entered : products[k] \in Product
    /\ \A k \in entered + 1 .. total : products[k] = Zero

\* What the fields asked for so far hold: no other product has the id.
Asked ==
  AsksForProduct =>
    /\ stage \in {"name", "price", "quantity"} =>
         got.id \in 1 .. MaxId /\ ~isDuplicateId(got.id)
    /\ stage \in {"price", "quantity"} => got.name \in Texts
    /\ stage = "quantity" => got.price \in 1 .. MaxPrice

IInv == Shape /\ Filling /\ Asked /\ InventoryOK

\* The number in a text that InRange accepts.
LEMMA InRangeValue ==
  ASSUME NEW t, NEW max \in Nat, InRange(t, max)
  PROVE  atoi(t) \in 1 .. max /\ atoi(t) \in Nat
<1>1. atoi(t) \in 1 .. max
  BY DEF InRange
<1> QED
  BY <1>1

\* What the menu does: it stays, ends, or starts an operation.
LEMMA MenuGoes ==
  ASSUME NEW t, displayInventoryMenu(t)
  PROVE  /\ task = "menu"
         /\ UNCHANGED <<got, entered, heap>>
         /\ \/ task' = "menu" /\ stage' = stage
            \/ task' \in {"add", "update", "search", "delete"} /\ stage' \in {"id", "key", "minimum"}
            \/ task' = "ended" /\ stage' = stage
<1>1. task = "menu" /\ UNCHANGED <<got, entered, heap>>
  BY DEF displayInventoryMenu
<1>2. \/ task' = "add" /\ stage' = "id"
      \/ task' = "update" /\ stage' = "id"
      \/ task' = "search" /\ stage' = "key"
      \/ task' = "search" /\ stage' = "minimum"
      \/ task' = "delete" /\ stage' = "id"
      \/ task' = "ended" /\ stage' = stage
      \/ task' = task /\ stage' = stage
  BY Zenon DEF displayInventoryMenu
<1> QED
  BY <1>1, <1>2

\* The initial state satisfies the invariant.
LEMMA InitIInv == Init => IInv
<1> SUFFICES ASSUME Init PROVE IInv
  OBVIOUS
<1>1. products \in Seq(Cell) /\ Len(products) = 0 /\ got \in Cell
  BY DEF Init, Cell, Zero
<1>2. Shape /\ Filling
  BY <1>1 DEF Init, Shape, Filling
<1>3. Asked
  BY DEF Init, Asked
<1>4. InventoryOK
  BY <1>1 DEF Init, InventoryOK, Idle
<1> QED
  BY <1>2, <1>3, <1>4 DEF IInv

\* An operation that ends without a change of the products.
LEMMA ReturnStep ==
  ASSUME IInv, Return, UNCHANGED heap, task = "initialize" \/ Idle
  PROVE  IInv'
<1>1. /\ stage' = "none" /\ got' = Zero /\ Zero \in Cell
      /\ task = "initialize" => task' = "ended"
      /\ task # "initialize" => task' = "menu"
      /\ products' = products /\ cells' = cells /\ total' = total
  BY DEF Return, heap, Zero, Cell
<1>2. Shape'
  BY <1>1 DEF Shape, IInv
<1>3. Filling' /\ Asked'
  BY <1>1 DEF Filling, Asked, AsksForProduct
<1>4. InventoryOK'
  BY <1>1 DEF InventoryOK, IInv, Idle
<1> QED
  BY <1>2, <1>3, <1>4 DEF IInv

\* A question that is answered and followed by the next one.
LEMMA NextQuestion ==
  ASSUME IInv, UNCHANGED <<task, entered, heap>>, got' \in Cell,
         stage # "count", stage' # "count", Asked'
  PROVE  IInv'
<1>1. Shape'
  BY DEF Shape, IInv, heap
<1>2. Filling'
  BY DEF Filling, IInv, heap
<1>3. InventoryOK'
  BY DEF InventoryOK, IInv, heap, Idle
<1> QED
  BY <1>1, <1>2, <1>3 DEF IInv

\* The product that the last answer completes.
LEMMA Completed ==
  ASSUME IInv, AsksForProduct, stage = "quantity", NEW t, InRange(t, MaxQuantity)
  PROVE  /\ [got EXCEPT !.quantity = atoi(t)] \in Product
         /\ [got EXCEPT !.quantity = atoi(t)] \in Cell
         /\ [got EXCEPT !.quantity = atoi(t)].id = got.id
         /\ got.id # 0
         /\ \A k \in 1 .. total : products[k].id # got.id
<1>1. atoi(t) \in 1 .. MaxQuantity /\ atoi(t) \in Nat
  BY InRangeValue
<1>2. /\ got \in Cell /\ got.id \in 1 .. MaxId /\ got.name \in Texts /\ got.price \in 1 .. MaxPrice
      /\ ~isDuplicateId(got.id)
  BY DEF IInv, Asked, Shape
<1>3. [got EXCEPT !.quantity = atoi(t)] =
        [id |-> got.id, name |-> got.name, price |-> got.price, quantity |-> atoi(t)]
  BY <1>2 DEF Cell
<1>4. \A k \in 1 .. total : products[k].id # got.id
  BY <1>2 DEF isDuplicateId
<1> QED
  BY <1>1, <1>2, <1>3, <1>4 DEF Product, Cell

\* initializeInventory makes room for the number of products entered.
LEMMA CountStep ==
  ASSUME IInv, NEW t \in Texts, initializeInventory(t)
  PROVE  IInv'
<1>1. task = "initialize" /\ total = 0 /\ entered = 0 /\ entered' = 0 /\ stage = "count"
  BY DEF initializeInventory, IInv, Shape
<1>2. CASE Return /\ UNCHANGED heap
  BY <1>1, <1>2, ReturnStep
<1>3. CASE /\ InRange(t, MaxInitial)
           /\ total' = atoi(t)
           /\ products' = [k \in 1 .. atoi(t) |-> Zero]
           /\ cells' = atoi(t)
           /\ stage' = "id"
           /\ UNCHANGED <<task, got>>
  <2> DEFINE n == atoi(t)
  <2>1. n \in 1 .. MaxInitial /\ n \in Nat
    BY <1>3, InRangeValue
  <2>2. products' = [k \in 1 .. n |-> Zero] /\ total' = n /\ cells' = n
    BY <1>3
  <2> HIDE DEF n
  <2>3. Zero \in Cell /\ Zero.id = 0
    BY DEF Zero, Cell
  <2>4. products' \in Seq(Cell) /\ Len(products') = n /\ \A k \in 1 .. n : products'[k] = Zero
    BY <2>1, <2>2, <2>3
  <2>5. Shape'
    BY <1>3, <2>1, <2>2, <2>4 DEF Shape, IInv
  <2>6. Filling'
    BY <1>1, <2>1, <2>2, <2>4 DEF Filling
  <2>7. Asked'
    BY <1>3 DEF Asked
  <2>8. InventoryOK'
    BY <1>1, <1>3, <2>1, <2>2, <2>3, <2>4 DEF InventoryOK, Idle
  <2> QED
    BY <2>5, <2>6, <2>7, <2>8 DEF IInv
<1> QED
  BY <1>2, <1>3 DEF initializeInventory

\* The questions for the id, the name and the price of a product.
LEMMA DetailSteps ==
  ASSUME IInv, NEW t \in Texts, getProductId(t) \/ getProductName(t) \/ getProductPrice(t)
  PROVE  IInv'
<1>1. AsksForProduct /\ UNCHANGED <<entered, heap>> /\ got \in Cell
  BY DEF getProductId, getProductName, getProductPrice, IInv, Shape
<1>2. CASE Return
  BY <1>1, <1>2, ReturnStep DEF AsksForProduct, Idle
<1>3. CASE ~Return /\ getProductId(t)
  <2>1. /\ InRange(t, MaxId) /\ ~isDuplicateId(atoi(t)) /\ stage = "id"
        /\ got' = [got EXCEPT !.id = atoi(t)] /\ stage' = "name" /\ task' = task
    BY <1>3 DEF getProductId
  <2> DEFINE n == atoi(t)
  <2>2. n \in 1 .. MaxId /\ n \in Nat
    BY <2>1, InRangeValue
  <2>3. ~isDuplicateId(n) /\ UNCHANGED <<total, products>> /\ got' = [got EXCEPT !.id = n]
    BY <1>1, <2>1 DEF heap
  <2> HIDE DEF n
  <2>4. got' \in Cell /\ got'.id = n
    BY <1>1, <2>2, <2>3 DEF Cell
  <2>5. ~isDuplicateId(got.id)'
    BY <2>3, <2>4 DEF isDuplicateId
  <2>6. Asked'
    BY <2>1, <2>2, <2>4, <2>5 DEF Asked
  <2> QED
    BY <1>1, <2>1, <2>4, <2>6, NextQuestion
<1>4. CASE ~Return /\ getProductName(t)
  <2>1. /\ stage = "name" /\ got' = [got EXCEPT !.name = t] /\ stage' = "price" /\ task' = task
    BY <1>4 DEF getProductName
  <2>2. got' \in Cell /\ got'.id = got.id /\ got'.name = t
    BY <1>1, <2>1 DEF Cell
  <2>3. Asked'
    BY <1>1, <2>1, <2>2 DEF Asked, AsksForProduct, IInv, isDuplicateId, heap
  <2> QED
    BY <1>1, <2>1, <2>2, <2>3, NextQuestion
<1>5. CASE ~Return /\ getProductPrice(t)
  <2>1. /\ stage = "price" /\ InRange(t, MaxPrice)
        /\ got' = [got EXCEPT !.price = atoi(t)] /\ stage' = "quantity" /\ task' = task
    BY <1>5 DEF getProductPrice
  <2> DEFINE n == atoi(t)
  <2>2. n \in 1 .. MaxPrice /\ n \in Nat /\ got' = [got EXCEPT !.price = n]
    BY <2>1, InRangeValue
  <2> HIDE DEF n
  <2>3. got' \in Cell /\ got'.id = got.id /\ got'.name = got.name /\ got'.price = n
    BY <1>1, <2>2 DEF Cell
  <2>4. Asked'
    BY <1>1, <2>1, <2>2, <2>3 DEF Asked, AsksForProduct, IInv, isDuplicateId, heap
  <2> QED
    BY <1>1, <2>1, <2>3, <2>4, NextQuestion
<1> QED
  BY <1>2, <1>3, <1>4, <1>5

\* The last field of a product that initializeInventory stores in the next cell.
LEMMA StoreStep ==
  ASSUME IInv, NEW t \in Texts, initializeProduct(t)
  PROVE  IInv'
<1>1. task = "initialize" /\ stage = "quantity" /\ AsksForProduct /\ UNCHANGED <<cells, total>>
  BY DEF initializeProduct, AsksForProduct
<1>2. CASE ~InRange(t, MaxQuantity)
  <2>1. Return /\ UNCHANGED heap
    BY <1>1, <1>2 DEF initializeProduct, heap
  <2> QED
    BY <1>1, <2>1, ReturnStep
<1>3. CASE InRange(t, MaxQuantity)
  <2> DEFINE p == [got EXCEPT !.quantity = atoi(t)]
  <2>1. /\ p \in Product /\ p \in Cell /\ p.id = got.id /\ got.id # 0
        /\ \A k \in 1 .. total : products[k].id # got.id
    BY <1>1, <1>3, Completed
  <2>2. /\ products' = [products EXCEPT ![entered + 1] = p]
        /\ entered' = entered + 1 /\ got' = Zero
        /\ IF entered + 1 = total THEN task' = "menu" /\ stage' = "none"
           ELSE stage' = "id" /\ task' = task
    BY <1>3 DEF initializeProduct
  <2> HIDE DEF p
  <2>3. /\ products \in Seq(Cell) /\ total = Len(products) /\ total \in Nat
        /\ entered \in 0 .. total - 1 /\ entered + 1 \in 1 .. total
        /\ \A k \in 1 .. entered : products[k] \in Product
        /\ \A k \in entered + 1 .. total : products[k] = Zero
    BY <1>1 DEF IInv, Shape, Filling
  <2>4. /\ products' \in Seq(Cell) /\ Len(products') = total
        /\ products'[entered + 1] = p
        /\ \A k \in 1 .. total : k # entered + 1 => products'[k] = products[k]
    BY <2>1, <2>2, <2>3
  <2>5. Zero \in Cell
    BY DEF Zero, Cell
  <2>6. Shape'
    BY <1>1, <2>2, <2>4, <2>5 DEF Shape, IInv
  <2>7. \A k \in 1 .. entered + 1 : products'[k] \in Product
    <3>1. \A k \in 1 .. entered + 1 :
            k \in 1 .. total /\ (k = entered + 1 \/ (k \in 1 .. entered /\ k # entered + 1))
      <4>1. total \in Nat /\ entered \in 0 .. total - 1
        BY ONLY <2>3
      <4> QED
        BY ONLY <4>1
    <3> QED
      BY ONLY <2>1, <2>3, <2>4, <3>1
  <2>8. Filling'
    BY <1>1, <2>2, <2>3, <2>4, <2>7 DEF Filling
  <2>9. Asked'
    BY <2>2 DEF Asked, AsksForProduct
  <2>10. \A j, k \in 1 .. total :
           products'[j].id = products'[k].id => j = k \/ products'[j].id = 0
    <3>1. \A j, k \in 1 .. total : products[j].id = products[k].id => j = k \/ products[j].id = 0
      BY DEF IInv, InventoryOK
    <3> QED
      BY <2>1, <2>3, <2>4, <3>1
  <2>11. InventoryOK'
    BY <1>1, <2>2, <2>3, <2>4, <2>7, <2>10 DEF InventoryOK, Idle, IInv
  <2> QED
    BY <2>6, <2>8, <2>9, <2>11 DEF IInv
<1> QED
  BY <1>2, <1>3

\* addNewProduct puts the product behind the others.
LEMMA AddStep ==
  ASSUME IInv, NEW t \in Texts, addNewProduct(t)
  PROVE  /\ IInv'
         /\ products' = products \/ \E p \in Product : products' = Append(products, p)
<1>1. task = "add" /\ stage = "quantity" /\ AsksForProduct /\ Return /\ task # "initialize" /\ Idle
  BY DEF addNewProduct, AsksForProduct, Idle
<1>2. CASE UNCHANGED heap
  BY <1>1, <1>2, ReturnStep DEF heap
<1>3. CASE /\ InRange(t, MaxQuantity)
           /\ products' = Append(products, [got EXCEPT !.quantity = atoi(t)])
           /\ cells' = total + 1
           /\ total' = total + 1
  <2> DEFINE p == [got EXCEPT !.quantity = atoi(t)]
  <2>1. /\ p \in Product /\ p \in Cell /\ p.id = got.id /\ got.id # 0
        /\ \A k \in 1 .. total : products[k].id # got.id
    BY <1>1, <1>3, Completed
  <2>2. products' = Append(products, p)
    BY <1>3
  <2> HIDE DEF p
  <2>3. products \in Seq(Cell) /\ total = Len(products) /\ total \in Nat
    BY DEF IInv, Shape
  <2>4. /\ products' \in Seq(Cell) /\ Len(products') = total + 1
        /\ products'[total + 1] = p
        /\ \A k \in 1 .. total : products'[k] = products[k]
    BY <2>1, <2>2, <2>3, AppendProperties
  <2>5. stage' = "none" /\ task' = "menu" /\ got' = Zero /\ Zero \in Cell
    BY <1>1 DEF Return, Zero, Cell
  <2>6. Shape'
    BY <1>3, <2>3, <2>4, <2>5 DEF Shape
  <2>7. Filling' /\ Asked'
    BY <2>5 DEF Filling, Asked, AsksForProduct
  <2>8. \A k \in 1 .. total + 1 : products'[k] \in Product
    <3>1. \A k \in 1 .. total : products[k] \in Product
      BY <1>1 DEF IInv, InventoryOK
    <3> TAKE k \in 1 .. total + 1
    <3>2. k \in 1 .. total \/ k = total + 1
      BY <2>3
    <3> QED
      BY ONLY <2>1, <2>4, <3>1, <3>2
  <2>9. \A j, k \in 1 .. total + 1 :
          products'[j].id = products'[k].id => j = k \/ products'[j].id = 0
    <3>1. \A j, k \in 1 .. total : products[j].id = products[k].id => j = k \/ products[j].id = 0
      BY DEF IInv, InventoryOK
    <3> SUFFICES ASSUME NEW j \in 1 .. total + 1, NEW k \in 1 .. total + 1,
                        products'[j].id = products'[k].id
                 PROVE  j = k \/ products'[j].id = 0
      OBVIOUS
    <3>2. CASE j \in 1 .. total /\ k \in 1 .. total
      BY <2>4, <3>1, <3>2
    <3>3. CASE j = total + 1 /\ k \in 1 .. total
      BY <2>1, <2>4, <3>3
    <3>4. CASE j \in 1 .. total /\ k = total + 1
      BY <2>1, <2>4, <3>4
    <3>5. CASE j = total + 1 /\ k = total + 1
      BY <3>5
    <3> QED
      BY <2>3, <3>2, <3>3, <3>4, <3>5
  <2>10. InventoryOK'
    <3>1. total' = total + 1 /\ total' = Len(products') /\ total' <= cells'
      BY <1>3, <2>3, <2>4
    <3>2. task' # "aborted"
      BY <2>5
    <3> QED
      BY <2>8, <2>9, <3>1, <3>2 DEF InventoryOK
  <2> QED
    BY <2>1, <2>2, <2>6, <2>7, <2>10 DEF IInv
<1> QED
  BY <1>2, <1>3 DEF addNewProduct

\* updateProductQuantity changes the quantity of the product with the id.
LEMMA UpdateStep ==
  ASSUME IInv, NEW t \in Texts, updateQuantity(t)
  PROVE  /\ IInv'
         /\ \/ products' = products
            \/ \E k \in 1 .. total, q \in 1 .. MaxQuantity :
                 products[k].id = got.id /\ products' = [products EXCEPT ![k].quantity = q]
<1>1. /\ task = "update" /\ Return /\ task # "initialize" /\ Idle
      /\ UNCHANGED <<entered, cells, total>>
  BY DEF updateQuantity, Idle
<1>2. /\ products \in Seq(Cell) /\ total = Len(products) /\ total \in Nat
      /\ \A k \in 1 .. total : products[k] \in Product
      /\ \A j, k \in 1 .. total : products[j].id = products[k].id => j = k \/ products[j].id = 0
      /\ DOMAIN products = 1 .. total
  BY <1>1 DEF IInv, Shape, InventoryOK
<1>3. CASE products' = products
  BY <1>1, <1>3, ReturnStep DEF heap
<1>4. CASE products' # products
  <2> DEFINE q == atoi(t)
  <2>1. /\ InRange(t, MaxQuantity)
        /\ products' = [k \in DOMAIN products |->
                          IF k \in Found(got.id) THEN [products[k] EXCEPT !.quantity = q]
                          ELSE products[k]]
    BY <1>4 DEF updateQuantity
  <2>2. q \in 1 .. MaxQuantity /\ q \in Nat
    BY <2>1, InRangeValue
  <2> HIDE DEF q
  <2>3. PICK f : f \in Found(got.id)
    <3> SUFFICES ASSUME Found(got.id) = {} PROVE FALSE
      OBVIOUS
    <3>1. products' = [k \in DOMAIN products |-> products[k]]
      BY <2>1
    <3> QED
      BY <1>2, <1>4, <3>1
  <2>4. f \in 1 .. total /\ products[f].id = got.id
    BY <2>3 DEF Found
  <2>5. Found(got.id) = {f}
    <3>1. products[f].id # 0
      BY <1>2, <2>4 DEF Product
    <3>2. \A g \in Found(got.id) : g \in 1 .. total /\ products[g].id = products[f].id
      BY <2>4 DEF Found
    <3>3. \A g \in Found(got.id) : g = f
      BY <1>2, <2>4, <3>1, <3>2
    <3> QED
      BY <2>3, <3>3
  <2> DEFINE p == [products[f] EXCEPT !.quantity = q]
  <2>6. /\ p = [id |-> products[f].id, name |-> products[f].name,
                price |-> products[f].price, quantity |-> q]
        /\ p \in Product /\ p.id = products[f].id
    <3>1. products[f] \in Product
      BY <1>2, <2>4
    <3>2. p = [id |-> products[f].id, name |-> products[f].name,
               price |-> products[f].price, quantity |-> q]
      BY <3>1 DEF Product
    <3> QED
      BY <2>2, <3>1, <3>2 DEF Product
  <2>7. products' = [products EXCEPT ![f] = p]
    BY <1>2, <2>1, <2>4, <2>5
  <2>8. products' = [products EXCEPT ![f].quantity = q]
    BY <2>7
  <2> HIDE DEF p
  <2>9. Product \subseteq Cell
    BY DEF Product, Cell
  <2>10. /\ products' \in Seq(Cell) /\ Len(products') = total /\ products'[f] = p
         /\ \A k \in 1 .. total : k # f => products'[k] = products[k]
    BY <1>2, <2>4, <2>6, <2>7, <2>9
  <2>11. stage' = "none" /\ task' = "menu" /\ got' = Zero /\ Zero \in Cell
    BY <1>1 DEF Return, Zero, Cell
  <2>12. Shape'
    BY <1>1, <1>2, <2>10, <2>11 DEF Shape, IInv
  <2>13. Filling' /\ Asked'
    BY <2>11 DEF Filling, Asked, AsksForProduct
  <2>14. \A k \in 1 .. total : products'[k] \in Product /\ products'[k].id = products[k].id
    BY <1>2, <2>4, <2>6, <2>10
  <2>15. InventoryOK'
    BY <1>1, <1>2, <2>10, <2>11, <2>14 DEF InventoryOK, IInv
  <2> QED
    BY <2>2, <2>4, <2>8, <2>12, <2>13, <2>15 DEF IInv
<1> QED
  BY <1>3, <1>4

\* deleteProduct takes one product out and keeps the order of the others.
LEMMA DeleteStep ==
  ASSUME IInv, NEW t \in Texts, deleteProduct(t)
  PROVE  /\ IInv'
         /\ products' = products \/ \E k \in 1 .. total : products' = RemoveAt(products, k)
<1>1. task = "delete" /\ task # "initialize" /\ Idle
  BY DEF deleteProduct, Idle
<1>2. /\ products \in Seq(Cell) /\ total = Len(products) /\ total \in Nat
      /\ cells \in Nat /\ total <= cells
      /\ \A k \in 1 .. total : products[k] \in Product
      /\ \A j, k \in 1 .. total : products[j].id = products[k].id => j = k \/ products[j].id = 0
      /\ DOMAIN products = 1 .. total
  BY <1>1 DEF IInv, Shape, InventoryOK
<1>3. CASE Return /\ UNCHANGED heap
  BY <1>1, <1>3, ReturnStep DEF heap
<1>4. CASE /\ total' = total - 1
           /\ \E i \in Found(atoi(t)) : products' = Shifted(i)
           /\ cells' \in {total - 1} \cup (IF MemoryMayFail /\ total > 1 THEN {cells} ELSE {})
           /\ \/ Return
              \/ total = 1 /\ task' = "aborted" /\ stage' = "none" /\ got' = Zero
  <2>1. PICK i \in 1 .. total : products' = Shifted(i)
    BY <1>4 DEF Found
  <2> DEFINE Old(k) == IF k < i THEN k ELSE k + 1
  <2>2. \A k \in 1 .. total - 1 : Old(k) \in 1 .. total
    BY <1>2
  <2>3. products' = [k \in 1 .. total - 1 |-> products[Old(k)]]
    <3>1. \A k \in 1 .. total - 1 :
            (IF k \in i .. total - 1 THEN products[k + 1] ELSE products[k]) = products[Old(k)]
      BY <1>2
    <3> QED
      BY <2>1, <3>1 DEF Shifted
  <2>4. \A j, k \in 1 .. total - 1 : Old(j) = Old(k) => j = k
    BY <1>2
  <2>5. /\ RemoveAt(products, i) \in Seq(Cell) /\ Len(RemoveAt(products, i)) = total - 1
        /\ \A k \in 1 .. total - 1 : RemoveAt(products, i)[k] = products[Old(k)]
    <3>1. products \in Seq(Cell) /\ i \in DOMAIN products /\ Len(products) = total
      BY <1>2
    <3>2. /\ RemoveAt(products, i) \in Seq(Cell) /\ Len(RemoveAt(products, i)) = Len(products) - 1
          /\ \A k \in 1 .. Len(products) - 1 :
               RemoveAt(products, i)[k] = (IF k < i THEN products[k] ELSE products[k + 1])
      BY ONLY <3>1, RemoveAtFacts
    <3> QED
      BY <1>2, <3>2
  <2> HIDE DEF Old
  <2>6. /\ products' \in Seq(Cell) /\ Len(products') = total - 1
        /\ \A k \in 1 .. total - 1 : products'[k] = products[Old(k)]
    BY <1>2, <2>2, <2>3
  <2>7. products' = RemoveAt(products, i)
    <3>1. /\ Len(products') = Len(RemoveAt(products, i))
          /\ \A k \in 1 .. Len(products') : products'[k] = RemoveAt(products, i)[k]
      BY <2>5, <2>6
    <3> QED
      BY <2>5, <2>6, <3>1, SeqEqual
  <2>8. /\ stage' = "none" /\ got' = Zero /\ Zero \in Cell
        /\ task' = "menu" \/ (task' = "aborted" /\ total' = 0)
    BY <1>1, <1>4 DEF Return, Zero, Cell
  <2>9. cells' \in Nat /\ total' <= cells'
    BY <1>2, <1>4, <2>1
  <2>10. Shape'
    BY <1>4, <2>6, <2>8, <2>9 DEF Shape
  <2>11. Filling' /\ Asked'
    BY <2>8 DEF Filling, Asked, AsksForProduct
  <2>12. \A k \in 1 .. total - 1 : products'[k] \in Product
    BY <1>2, <2>2, <2>6
  <2>13. \A j, k \in 1 .. total - 1 :
           products'[j].id = products'[k].id => j = k \/ products'[j].id = 0
    <3> SUFFICES ASSUME NEW j \in 1 .. total - 1, NEW k \in 1 .. total - 1,
                        products'[j].id = products'[k].id
                 PROVE  j = k \/ products'[j].id = 0
      OBVIOUS
    <3>1. products'[j] = products[Old(j)] /\ products'[k] = products[Old(k)]
      BY <2>6
    <3>2. Old(j) = Old(k) \/ products[Old(j)].id = 0
      BY <1>2, <2>2, <3>1
    <3> QED
      BY <2>4, <3>1, <3>2
  <2>14. InventoryOK'
    BY <1>4, <2>6, <2>8, <2>9, <2>12, <2>13 DEF InventoryOK
  <2> QED
    BY <2>7, <2>10, <2>11, <2>14 DEF IInv
<1> QED
  BY <1>3, <1>4 DEF deleteProduct
\* The questions of an update and of a search.
LEMMA AskSteps ==
  ASSUME IInv, NEW t \in Texts, updateId(t) \/ search(t)
  PROVE  IInv' /\ products' = products
<1>1. /\ Idle /\ ~AsksForProduct /\ UNCHANGED <<entered, heap>> /\ got \in Cell
      /\ stage # "count"
  BY DEF updateId, search, Idle, AsksForProduct, IInv, Shape
<1>2. CASE Return
  BY <1>1, <1>2, ReturnStep DEF heap
<1>3. CASE ~Return /\ updateId(t)
  <2>1. InRange(t, MaxId) /\ got' = [got EXCEPT !.id = atoi(t)] /\ stage' = "quantity" /\ task' = task
    BY <1>3 DEF updateId
  <2> DEFINE n == atoi(t)
  <2>2. n \in Nat /\ got' = [got EXCEPT !.id = n]
    BY <2>1, InRangeValue
  <2> HIDE DEF n
  <2>3. got' \in Cell
    BY <1>1, <2>2 DEF Cell
  <2>4. Asked'
    BY <1>1, <2>1 DEF Asked, AsksForProduct
  <2> QED
    BY <1>1, <2>1, <2>3, <2>4, NextQuestion DEF heap
<1>4. CASE ~Return /\ search(t)
  <2>1. stage' = "maximum" /\ task' = task /\ got' = got
    BY <1>4 DEF search
  <2>2. Asked'
    BY <1>1, <2>1 DEF Asked, AsksForProduct
  <2> QED
    BY <1>1, <2>1, <2>2, NextQuestion DEF heap
<1> QED
  BY <1>2, <1>3, <1>4

\* The choice from the menu.
LEMMA MenuStep ==
  ASSUME IInv, NEW t, displayInventoryMenu(t)
  PROVE  IInv' /\ products' = products
<1>1. /\ task = "menu"
      /\ products' = products /\ cells' = cells /\ total' = total /\ got' = got /\ entered' = entered
      /\ \/ task' = "menu" /\ stage' = stage
         \/ task' \in {"add", "update", "search", "delete"} /\ stage' \in {"id", "key", "minimum"}
         \/ task' = "ended" /\ stage' = stage
  BY MenuGoes DEF heap
<1>2. Shape'
  BY <1>1 DEF Shape, IInv
<1>3. Filling' /\ Asked'
  BY <1>1 DEF Filling, Asked, AsksForProduct
<1>4. InventoryOK'
  BY <1>1 DEF InventoryOK, IInv, Idle
<1> QED
  BY <1>1, <1>2, <1>3, <1>4 DEF IInv

\* Every step preserves the invariant.
LEMMA NextIInv == IInv /\ [Next]_vars => IInv'
<1> SUFFICES ASSUME IInv, [Next]_vars PROVE IInv'
  OBVIOUS
<1>1. CASE UNCHANGED vars
  BY <1>1 DEF vars, heap, IInv, Shape, Filling, Asked, AsksForProduct, isDuplicateId,
             InventoryOK, Idle
<1>2. CASE \E t \in Texts \cup MenuTexts : displayInventoryMenu(t)
  BY <1>2, MenuStep
<1>3. ASSUME NEW t \in Texts,
             \/ initializeInventory(t)
             \/ getProductId(t) \/ getProductName(t) \/ getProductPrice(t)
             \/ initializeProduct(t) \/ addNewProduct(t)
             \/ updateId(t) \/ updateQuantity(t)
             \/ search(t)
             \/ deleteProduct(t)
      PROVE  IInv'
  BY <1>3, CountStep, DetailSteps, StoreStep, AddStep, UpdateStep, DeleteStep, AskSteps
<1> QED
  BY <1>1, <1>2, <1>3 DEF Next

\* The inductive invariant holds in every reachable state.
THEOREM Invariant == Spec => []IInv
BY InitIInv, NextIInv, PTL DEF Spec

(***************************************************************************)
(* The theorems.                                                           *)
(***************************************************************************)
\* Whatever lines the user enters and whichever calls for memory fail, the
\* inventory holds valid products with different ids in cells the block has.
THEOREM InventoryIsValid == Spec => []InventoryOK
<1>1. IInv => InventoryOK
  BY DEF IInv
<1> QED
  BY <1>1, Invariant, PTL

\* No operation of the menu touches another product than the one it is about.
THEOREM OthersStayUntouched == Spec => OthersUntouched
<1> DEFINE Touches ==
      task # "initialize" =>
        \/ products' = products
        \/ \E p \in Product : products' = Append(products, p)
        \/ \E k \in 1 .. total : products' = RemoveAt(products, k)
        \/ \E k \in 1 .. total, q \in 1 .. MaxQuantity :
             products[k].id = got.id /\ products' = [products EXCEPT ![k].quantity = q]
<1>1. IInv /\ [Next]_vars => [Touches]_vars
  <2> SUFFICES ASSUME IInv, [Next]_vars, task # "initialize" PROVE Touches
    OBVIOUS
  <2>1. CASE UNCHANGED vars
    BY <2>1 DEF vars, heap
  <2>2. CASE \E t \in Texts \cup MenuTexts : displayInventoryMenu(t)
    BY <2>2, MenuStep
  <2>3. ASSUME NEW t \in Texts,
               initializeInventory(t) \/ initializeProduct(t)
        PROVE  FALSE
    BY <2>3 DEF initializeInventory, initializeProduct, IInv, Shape
  <2>4. ASSUME NEW t \in Texts,
               getProductId(t) \/ getProductName(t) \/ getProductPrice(t)
        PROVE  products' = products
    BY <2>4 DEF getProductId, getProductName, getProductPrice, heap
  <2>5. ASSUME NEW t \in Texts, updateId(t) \/ search(t)
        PROVE  products' = products
    BY <2>5, AskSteps
  <2>6. ASSUME NEW t \in Texts, addNewProduct(t)
        PROVE  products' = products \/ \E p \in Product : products' = Append(products, p)
    BY <2>6, AddStep
  <2>7. ASSUME NEW t \in Texts, updateQuantity(t)
        PROVE  \/ products' = products
               \/ \E k \in 1 .. total, q \in 1 .. MaxQuantity :
                    products[k].id = got.id /\ products' = [products EXCEPT ![k].quantity = q]
    BY <2>7, UpdateStep
  <2>8. ASSUME NEW t \in Texts, deleteProduct(t)
        PROVE  products' = products \/ \E k \in 1 .. total : products' = RemoveAt(products, k)
    BY <2>8, DeleteStep
  <2>9. ASSUME NEW t \in Texts,
             \/ initializeInventory(t)
             \/ getProductId(t) \/ getProductName(t) \/ getProductPrice(t)
             \/ initializeProduct(t) \/ addNewProduct(t)
             \/ updateId(t) \/ updateQuantity(t)
             \/ search(t)
             \/ deleteProduct(t)
        PROVE  Touches
    BY <2>3, <2>4, <2>5, <2>6, <2>7, <2>8, <2>9
  <2> QED
    BY <2>1, <2>2, <2>9 DEF Next
<1> QED
  BY <1>1, Invariant, PTL DEF Spec, OthersUntouched
(***************************************************************************)
(* The search by name.                                                     *)
(***************************************************************************)
\* The inner loop goes on at n: neither text is at its end, the characters agree.
GoesOn(name, text, p, n) ==
  p + n <= Len(name) /\ n + 1 <= Len(text) /\ name[p + n] = text[n + 1]

\* The first character from n on at which the inner loop stops.
Stop(name, text, p, n) ==
  CHOOSE m \in Nat : /\ m >= n /\ ~GoesOn(name, text, p, m)
                     /\ \A k \in n .. m - 1 : GoesOn(name, text, p, k)

\* The inner loop stops somewhere, and where it stops is what the recursion says.
LEMMA StopRecursion ==
  ASSUME NEW name, NEW text, NEW p \in Nat, Len(text) \in Nat
  PROVE  \A n \in Nat :
           Stop(name, text, p, n) =
             IF GoesOn(name, text, p, n) THEN Stop(name, text, p, n + 1) ELSE n
<1> DEFINE G(n) == GoesOn(name, text, p, n)
           S(n, m) == m >= n /\ ~G(m) /\ \A k \in n .. m - 1 : G(k)
<1>1. \A m \in Nat : m >= Len(text) => ~G(m)
  BY DEF GoesOn
<1> HIDE DEF G
<1>2. \A n \in Nat : \E m \in Nat : S(n, m)
  <2> SUFFICES ASSUME NEW n \in Nat PROVE \E m \in Nat : S(n, m)
    OBVIOUS
  <2> DEFINE T == {m \in Nat : m >= n /\ ~G(m)}
  <2>1. n + Len(text) \in T
    BY <1>1
  <2>2. PICK m \in T : \A k \in T : m <= k
    BY <2>1, NatMin
  <2>3. \A k \in n .. m - 1 : G(k)
    BY <2>2
  <2> QED
    BY <2>2, <2>3
<1>3. \A n, m1, m2 \in Nat : S(n, m1) /\ S(n, m2) => m1 = m2
  OBVIOUS
<1>4. \A n, m \in Nat : G(n) => (S(n, m) <=> S(n + 1, m))
  OBVIOUS
<1>5. \A n \in Nat : ~G(n) => S(n, n)
  OBVIOUS
<1>6. \A n \in Nat : Stop(name, text, p, n) = CHOOSE m \in Nat : S(n, m)
  BY DEF Stop, G
<1>7. \A n \in Nat : Stop(name, text, p, n) \in Nat /\ S(n, Stop(name, text, p, n))
  <2> SUFFICES ASSUME NEW n \in Nat
               PROVE  Stop(name, text, p, n) \in Nat /\ S(n, Stop(name, text, p, n))
    OBVIOUS
  <2> HIDE DEF S
  <2>1. PICK m \in Nat : S(n, m)
    BY <1>2
  <2> QED
    BY <1>6, <2>1
<1> HIDE DEF S
<1> SUFFICES ASSUME NEW n \in Nat
             PROVE  Stop(name, text, p, n) = IF G(n) THEN Stop(name, text, p, n + 1) ELSE n
  BY DEF G
<1> n + 1 \in Nat
  OBVIOUS
<1>8. CASE G(n)
  BY <1>3, <1>4, <1>7, <1>8
<1>9. CASE ~G(n)
  BY <1>3, <1>5, <1>7, <1>9
<1> QED
  BY <1>8, <1>9

\* The inner loop reaches the end of the text when all its characters agree.
LEMMA AgreeAll ==
  ASSUME NEW name, NEW text, NEW p \in Nat, Len(text) \in Nat
  PROVE  Agree(name, text, p) = Len(text) <=>
           \A m \in 0 .. Len(text) - 1 : GoesOn(name, text, p, m)
<1> DEFINE G(n) == GoesOn(name, text, p, n)
           L == Len(text)
           R(f) == f = [n \in Nat |-> IF G(n) THEN f[n + 1] ELSE n]
           f0 == [n \in Nat |-> Stop(name, text, p, n)]
           g == CHOOSE f : R(f)
<1>1. R(f0)
  <2>1. \A n \in Nat : n + 1 \in Nat
    OBVIOUS
  <2> QED
    BY <2>1, StopRecursion
<1>2. Agree(name, text, p) = g[0]
  BY DEF Agree, GoesOn
<1>3. R(g)
  <2> HIDE DEF R, f0
  <2> QED
    BY <1>1
<1> HIDE DEF g
<1>4. \A n \in Nat : g[n] = IF G(n) THEN g[n + 1] ELSE n
  BY <1>3
<1>5. ~G(L)
  BY DEF GoesOn
<1> HIDE DEF G, L
<1>6. L \in Nat
  BY DEF L
<1> DEFINE All(n) == \A m \in n .. L - 1 : G(m)
           T == {i \in 0 .. L : g[L - i] = L <=> All(L - i)}
<1>7. 0 \in T
  <2>1. L - 0 = L /\ 0 \in 0 .. L /\ L .. L - 1 = {}
    BY ONLY <1>6
  <2>2. g[L] = L /\ All(L)
    BY <1>4, <1>5, <1>6, <2>1
  <2> QED
    BY <2>1, <2>2
<1>8. \A i \in 1 .. L : i - 1 \in T => i \in T
  <2> SUFFICES ASSUME NEW i \in 1 .. L, i - 1 \in T PROVE i \in T
    OBVIOUS
  <2> DEFINE n == L - i
  <2>1. n \in Nat /\ n + 1 = L - (i - 1) /\ n # L /\ n < L
    BY <1>6
  <2>2. g[n + 1] = L <=> All(n + 1)
    BY <2>1
  <2>3. g[n] = IF G(n) THEN g[n + 1] ELSE n
    BY <1>4, <2>1
  <2> HIDE DEF n
  <2>4. All(n) <=> G(n) /\ All(n + 1)
    <3>1. n \in n .. L - 1 /\ \A m \in n + 1 .. L - 1 : m \in n .. L - 1
      BY ONLY <1>6, <2>1
    <3>2. \A m \in n .. L - 1 : m = n \/ m \in n + 1 .. L - 1
      BY ONLY <1>6, <2>1
    <3> QED
      BY ONLY <3>1, <3>2
  <2>5. g[n] = L <=> All(n)
    BY <2>1, <2>2, <2>3, <2>4
  <2>6. i \in 0 .. L
    BY ONLY <1>6
  <2> QED
    BY <2>5, <2>6 DEF n
<1>9. L \in T
  <2> HIDE DEF T
  <2>1. 0 .. L \subseteq T
    BY <1>6, <1>7, <1>8, UpTo
  <2> QED
    BY <1>6, <2>1
<1>10. g[0] = L <=> All(0)
  BY <1>6, <1>9
<1> QED
  BY <1>2, <1>10 DEF G, L

\* Laying the text on the name at p makes all characters agree when the text is
\* the part of the name that starts there.
LEMMA AgreeIsPart ==
  ASSUME NEW name \in Seq(-1 .. 9), NEW text \in Seq(-1 .. 9), text # <<>>, NEW p \in Nat \ {0}
  PROVE  Agree(name, text, p) = Len(text) <=>
           /\ p \in 1 .. Len(name) - Len(text) + 1
           /\ SubSeq(name, p, p + Len(text) - 1) = text
<1> DEFINE L == Len(text)
           N == Len(name)
<1>1. L \in Nat /\ L > 0 /\ N \in Nat /\ p \in Nat /\ p > 0
  BY EmptySeq
<1>2. Agree(name, text, p) = L <=> \A m \in 0 .. L - 1 : GoesOn(name, text, p, m)
  BY <1>1, AgreeAll
<1>3. (\A m \in 0 .. L - 1 : GoesOn(name, text, p, m)) <=>
        p + L - 1 <= N /\ \A m \in 0 .. L - 1 : name[p + m] = text[m + 1]
  <2>1. \A m \in 0 .. L - 1 :
          GoesOn(name, text, p, m) <=> p + m <= N /\ name[p + m] = text[m + 1]
    BY <1>1 DEF GoesOn
  <2> HIDE DEF L, N
  <2>2. L - 1 \in 0 .. L - 1 /\ p + (L - 1) = p + L - 1
    BY <1>1
  <2>3. ASSUME \A m \in 0 .. L - 1 : GoesOn(name, text, p, m)
        PROVE  p + L - 1 <= N /\ \A m \in 0 .. L - 1 : name[p + m] = text[m + 1]
    BY <2>1, <2>2, <2>3
  <2>4. ASSUME p + L - 1 <= N, \A m \in 0 .. L - 1 : name[p + m] = text[m + 1]
        PROVE  \A m \in 0 .. L - 1 : GoesOn(name, text, p, m)
    <3>1. \A m \in 0 .. L - 1 : p + m <= N
      BY <1>1, <2>4
    <3> QED
      BY <2>1, <2>4, <3>1
  <2> QED
    BY <2>3, <2>4
<1>4. ASSUME p + L - 1 <= N
      PROVE  (\A m \in 0 .. L - 1 : name[p + m] = text[m + 1]) <=>
               SubSeq(name, p, p + L - 1) = text
  <2> DEFINE s == SubSeq(name, p, p + L - 1)
  <2>1. s \in Seq(-1 .. 9) /\ Len(s) = L /\ \A k \in 1 .. L : s[k] = name[p + k - 1]
    <3> HIDE DEF L, N
    <3>1. p \in Int /\ p + L - 1 \in Int /\ p <= p + L - 1 /\ (p + L - 1) - p + 1 = L
      BY ONLY <1>1
    <3>2. \A i \in p .. p + L - 1 : name[i] \in -1 .. 9
      <4>1. \A i \in p .. p + L - 1 : i \in 1 .. N
        BY <1>1, <1>4
      <4>2. \A i \in 1 .. N : name[i] \in -1 .. 9
        BY ONLY name \in Seq(-1 .. 9) DEF N
      <4> QED
        BY ONLY <4>1, <4>2
    <3>3. /\ s \in Seq(-1 .. 9)
          /\ Len(s) = IF p <= p + L - 1 THEN (p + L - 1) - p + 1 ELSE 0
          /\ \A k \in 1 .. (p + L - 1) - p + 1 : s[k] = name[p + k - 1]
      <4> DEFINE e == p + L - 1
      <4>1. p \in Int /\ e \in Int /\ \A i \in p .. e : name[i] \in -1 .. 9
        BY <3>1, <3>2
      <4> HIDE DEF e
      <4>2. /\ SubSeq(name, p, e) \in Seq(-1 .. 9)
            /\ Len(SubSeq(name, p, e)) = IF p <= e THEN e - p + 1 ELSE 0
            /\ \A k \in 1 .. e - p + 1 : SubSeq(name, p, e)[k] = name[p + k - 1]
        BY ONLY <4>1, SubSeqProperties
      <4> QED
        BY <4>2 DEF e, s
    <3> QED
      BY <3>1, <3>3
  <2> HIDE DEF s
  <2>2. s = text <=> \A k \in 1 .. L : s[k] = text[k]
    BY <2>1, SeqEqual
  <2>3. (\A m \in 0 .. L - 1 : name[p + m] = text[m + 1]) <=> \A k \in 1 .. L : s[k] = text[k]
    <3> HIDE DEF L
    <3>1. ASSUME \A m \in 0 .. L - 1 : name[p + m] = text[m + 1], NEW k \in 1 .. L
          PROVE  s[k] = text[k]
      <4>1. k - 1 \in 0 .. L - 1 /\ p + (k - 1) = p + k - 1 /\ (k - 1) + 1 = k
        BY <1>1
      <4> QED
        BY <2>1, <3>1, <4>1
    <3>2. ASSUME \A k \in 1 .. L : s[k] = text[k], NEW m \in 0 .. L - 1
          PROVE  name[p + m] = text[m + 1]
      <4>1. m + 1 \in 1 .. L /\ p + (m + 1) - 1 = p + m
        BY <1>1
      <4> QED
        BY <2>1, <3>2, <4>1
    <3> QED
      BY <3>1, <3>2
  <2> QED
    BY <2>2, <2>3 DEF s
<1>5. p + L - 1 <= N <=> p \in 1 .. N - L + 1
  BY <1>1
<1> QED
  BY <1>2, <1>3, <1>4, <1>5

\* The outer loop finds a place where all characters agree, if there is one.
LEMMA MatchesIsPart ==
  ASSUME NEW name \in Seq(-1 .. 9), NEW text \in Seq(-1 .. 9), text # <<>>
  PROVE  Matches(name, text) <=>
           \E p \in 1 .. Len(name) - Len(text) + 1 :
             SubSeq(name, p, p + Len(text) - 1) = text
<1> DEFINE N == Len(name)
           A(p) == Agree(name, text, p) = Len(text)
           R(f) == f = [p \in Nat |-> IF p > N THEN FALSE ELSE A(p) \/ f[p + 1]]
           f0 == [p \in Nat |-> \E q \in p .. N : A(q)]
           g == CHOOSE f : R(f)
<1>1. N \in Nat
  OBVIOUS
<1>2. Matches(name, text) = g[1]
  BY DEF Matches
<1> HIDE DEF A, N
<1>3. R(f0)
  <2>1. ASSUME NEW p \in Nat
        PROVE  (\E q \in p .. N : A(q)) <=>
                 (IF p > N THEN FALSE ELSE A(p) \/ (\E q \in p + 1 .. N : A(q)))
    BY <1>1
  <2>2. \A p \in Nat : p + 1 \in Nat
    OBVIOUS
  <2>3. \A p \in Nat : f0[p + 1] = (\E q \in p + 1 .. N : A(q))
    BY <2>2
  <2>4. \A p \in Nat : f0[p] = (IF p > N THEN FALSE ELSE A(p) \/ f0[p + 1])
    <3> SUFFICES ASSUME NEW p \in Nat
                 PROVE  f0[p] = (IF p > N THEN FALSE ELSE A(p) \/ f0[p + 1])
      OBVIOUS
    <3>1. f0[p] = (\E q \in p .. N : A(q))
      OBVIOUS
    <3>2. f0[p + 1] = (\E q \in p + 1 .. N : A(q))
      BY <2>3
    <3> QED
      BY Zenon, <2>1, <3>1, <3>2
  <2>5. f0 = [p \in Nat |-> f0[p]]
    OBVIOUS
  <2> HIDE DEF f0
  <2> QED
    BY Zenon, <2>4, <2>5
<1>4. R(g)
  <2> HIDE DEF R, f0
  <2> QED
    BY <1>3
<1> HIDE DEF g
<1>5. \A p \in Nat : g[p] = IF p > N THEN FALSE ELSE A(p) \/ g[p + 1]
  BY <1>4
<1> DEFINE Some(p) == \E q \in p .. N : A(q)
           T == {i \in 0 .. N : g[N + 1 - i] <=> Some(N + 1 - i)}
<1>6. 0 \in T
  <2>1. N + 1 - 0 = N + 1 /\ N + 1 \in Nat /\ N + 1 > N
    BY <1>1
  <2>2. ~g[N + 1]
    BY <1>5, <2>1
  <2>3. ~Some(N + 1)
    BY <1>1
  <2> QED
    BY <1>1, <2>1, <2>2, <2>3
<1>7. \A i \in 1 .. N : i - 1 \in T => i \in T
  <2> SUFFICES ASSUME NEW i \in 1 .. N, i - 1 \in T PROVE i \in T
    OBVIOUS
  <2> DEFINE p == N + 1 - i
  <2>1. p \in Nat /\ p + 1 = N + 1 - (i - 1) /\ ~(p > N) /\ i \in 0 .. N
    BY <1>1
  <2>2. g[p + 1] <=> Some(p + 1)
    BY <2>1
  <2>3. g[p] = (A(p) \/ g[p + 1])
    BY <1>5, <2>1
  <2> HIDE DEF p
  <2>4. Some(p) <=> A(p) \/ Some(p + 1)
    <3>1. p .. N = {p} \cup (p + 1 .. N)
      BY ONLY <1>1, <2>1
    <3> QED
      BY Zenon, <3>1
  <2>5. g[p] <=> Some(p)
    BY Zenon, <2>2, <2>3, <2>4
  <2> QED
    BY <2>1, <2>5 DEF p
<1>8. N \in T
  <2> HIDE DEF T
  <2>1. 0 .. N \subseteq T
    BY <1>1, <1>6, <1>7, UpTo
  <2> QED
    BY <1>1, <2>1
<1>9. N + 1 - N = 1
  BY <1>1
<1>10. g[1] <=> Some(1)
  BY <1>8, <1>9
<1>11. Some(1) <=> \E p \in 1 .. Len(name) - Len(text) + 1 :
                     SubSeq(name, p, p + Len(text) - 1) = text
  <2>1. Len(text) \in Nat /\ Len(text) > 0
    BY EmptySeq
  <2>2. \A p \in 1 .. N : p \in Nat \ {0}
    BY <1>1
  <2>3. \A p \in 1 .. Len(name) - Len(text) + 1 : p \in 1 .. N
    BY <1>1, <2>1 DEF N
  <2>4. \A p \in 1 .. N :
          A(p) <=> /\ p \in 1 .. Len(name) - Len(text) + 1
                   /\ SubSeq(name, p, p + Len(text) - 1) = text
    BY <2>2, AgreeIsPart DEF A
  <2> QED
    BY <2>3, <2>4
<1> QED
  BY <1>2, <1>10, <1>11

\* What a search by name finds are the products whose name contains the text,
\* for every text and every inventory.
THEOREM SearchFindsParts == Spec => []SearchFinds
<1>1. IInv => SearchFinds
  <2> SUFFICES ASSUME IInv, task = "menu", NEW text \in Texts \ {<<>>}
               PROVE  searchProductByName(text) =
                        {k \in 1 .. total :
                           \E p \in 1 .. Len(products[k].name) - Len(text) + 1 :
                             SubSeq(products[k].name, p, p + Len(text) - 1) = text}
    BY DEF SearchFinds
  <2>1. \A k \in 1 .. total : products[k] \in Product
    BY DEF IInv, InventoryOK, Idle
  <2>2. \A k \in 1 .. total : products[k].name \in Seq(-1 .. 9)
    BY <2>1 DEF Product
  <2>3. \A k \in 1 .. total :
          Matches(products[k].name, text) <=>
            \E p \in 1 .. Len(products[k].name) - Len(text) + 1 :
              SubSeq(products[k].name, p, p + Len(text) - 1) = text
    BY <2>2, MatchesIsPart
  <2> QED
    BY <2>3 DEF searchProductByName
<1> QED
  BY <1>1, Invariant, PTL
============================================================================
