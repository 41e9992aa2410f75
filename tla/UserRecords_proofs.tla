--------------------------- MODULE UserRecords_proofs ---------------------------
(***************************************************************************)
(* Proofs about UserRecords: wherever the program is killed and whatever   *)
(* call fails, no record is lost, and ids stay unique while a file can     *)
(* still be opened to look for them.                                       *)
(***************************************************************************)
EXTENDS UserRecords, ProofLemmas

(***************************************************************************)
(* The copy loop.                                                          *)
(***************************************************************************)
\* An update or a delete under way, with new data for the lines it may change.
JobOf(records) ==
  \/ job \in [kind : {"delete"}, id : Ids]
  \/ job \in [kind : {"update"}, id : Ids, new : [DOMAIN records -> Data]]

\* What the copy loop writes for each line is no line or one record.
LEMMA LineForFacts ==
  ASSUME userFile \in Seq(Records), JobOf(userFile), NEW k \in 1 .. Len(userFile)
  PROVE  /\ LineFor(k) \in Seq(Records)
         /\ job.kind = "delete" =>
              LineFor(k) = IF userFile[k] \in {r \in Records : r.id # job.id}
                           THEN <<userFile[k]>> ELSE <<>>
         /\ job.kind # "delete" =>
              LineFor(k) = <<IF userFile[k].id = job.id
                             THEN [id |-> job.id, data |-> job.new[k]] ELSE userFile[k]>>
<1> DEFINE r == userFile[k]
<1>1. r \in Records /\ k \in DOMAIN userFile
  OBVIOUS
<1> HIDE DEF r
<1>2. LineFor(k) = IF r.id # job.id THEN <<r>>
                   ELSE IF job.kind = "delete" THEN <<>>
                   ELSE <<[r EXCEPT !.data = job.new[k]]>>
  BY Zenon DEF LineFor, r
<1>3. job.kind # "delete" => job.new[k] \in Data
  BY <1>1 DEF JobOf
<1>4. [r EXCEPT !.data = job.new[k]] = [id |-> r.id, data |-> job.new[k]]
  BY <1>1 DEF Records
<1>5. job.kind # "delete" => [id |-> r.id, data |-> job.new[k]] \in Records
  BY <1>1, <1>3 DEF Records
<1>6. CASE r.id # job.id
  <2>1. LineFor(k) = <<r>>
    BY <1>2, <1>6
  <2>2. r \in {q \in Records : q.id # job.id}
    BY <1>1, <1>6
  <2> QED
    BY <1>1, <1>6, <2>1, <2>2 DEF r
<1>7. CASE r.id = job.id
  <2>1. CASE job.kind = "delete"
    <3>1. LineFor(k) = <<>>
      BY <1>2, <1>7, <2>1
    <3>2. r \notin {q \in Records : q.id # job.id}
      BY <1>7
    <3> QED
      BY <2>1, <3>1, <3>2 DEF r
  <2>2. CASE job.kind # "delete"
    <3>1. LineFor(k) = <<[id |-> r.id, data |-> job.new[k]]>>
      BY <1>2, <1>4, <1>7, <2>2
    <3> QED
      BY <1>5, <1>7, <2>2, <3>1 DEF r
  <2> QED
    BY <2>1, <2>2
<1> QED
  BY <1>6, <1>7

\* The copy loop, line by line.
Copies(out) ==
  /\ out \in [0 .. Len(userFile) -> Seq(Records)]
  /\ out[0] = <<>>
  /\ \A k \in 1 .. Len(userFile) : out[k] = out[k - 1] \o LineFor(k)
  /\ Copy = out[Len(userFile)]

\* The recursive function of Copy is this loop.
LEMMA CopyLoop ==
  ASSUME userFile \in Seq(Records), JobOf(userFile)
  PROVE  \E out : Copies(out)
<1> DEFINE n == Len(userFile)
           V == Seq(Records)
           R(f) == f = [k \in 0 .. n |-> IF k = 0 THEN <<>> ELSE f[k - 1] \o LineFor(k)]
           g == CHOOSE f : R(f)
           step == [k \in 1 .. n |-> [v \in V |-> v \o LineFor(k)]]
           none == <<>>
<1>1. n \in Nat
  OBVIOUS
<1>2. Copy = g[n]
  BY DEF Copy
<1>3. \A k \in 1 .. n : LineFor(k) \in V
  BY LineForFacts
<1> HIDE DEF n, LineFor
<1>4. \A k \in 1 .. n : step[k] \in [V -> V]
  BY <1>3
<1>5. none \in V
  OBVIOUS
<1> HIDE DEF V, none
<1>6. Steps(V, none, n, step)
  BY <1>1, <1>4, <1>5 DEF Steps
<1>7. PICK f : Computes(f, V, none, n, step)
  BY <1>6, RecursionExists
<1>8. /\ f \in [0 .. n -> V] /\ f[0] = none
      /\ \A k \in 1 .. n : f[k] = f[k - 1] \o LineFor(k)
  <2>1. f \in [0 .. n -> V] /\ f[0] = none /\ \A k \in 1 .. n : f[k] = step[k][f[k - 1]]
    BY <1>7 DEF Computes
  <2>2. \A k \in 1 .. n : f[k - 1] \in V
    BY <1>1, <2>1
  <2> QED
    BY <2>1, <2>2
<1> HIDE DEF step
<1>9. \A k \in 0 .. n : k = 0 \/ (k # 0 /\ k \in 1 .. n)
  BY <1>1
<1>10. R(f)
  <2>1. \A k \in 0 .. n : f[k] = IF k = 0 THEN <<>> ELSE f[k - 1] \o LineFor(k)
    BY Zenon, <1>8, <1>9 DEF none
  <2>2. f = [k \in 0 .. n |-> f[k]]
    BY <1>8
  <2> QED
    BY Zenon, <2>1, <2>2
<1>11. R(g)
  <2> HIDE DEF R
  <2> QED
    BY <1>10
<1> HIDE DEF g
<1>12. g[0] = none /\ \A k \in 1 .. n : g[k] = g[k - 1] \o LineFor(k)
  <2> DEFINE b(k) == IF k = 0 THEN <<>> ELSE g[k - 1] \o LineFor(k)
  <2>1. g = [k \in 0 .. n |-> b(k)]
    BY <1>11
  <2> HIDE DEF b
  <2>2. \A k \in 0 .. n : g[k] = b(k)
    BY Zenon, <2>1
  <2>3. 0 \in 0 .. n /\ \A k \in 1 .. n : k \in 0 .. n /\ k # 0
    BY <1>1
  <2> QED
    BY Zenon, <2>2, <2>3 DEF b, none
<1> DEFINE U == {k \in 0 .. n : g[k] = f[k]}
<1>13. 0 \in U
  BY <1>1, <1>8, <1>12
<1>14. \A k \in 1 .. n : k - 1 \in U => k \in U
  <2> SUFFICES ASSUME NEW k \in 1 .. n, k - 1 \in U PROVE k \in U
    OBVIOUS
  <2>1. g[k - 1] = f[k - 1] /\ k \in 0 .. n
    BY <1>1
  <2>2. g[k] = f[k]
    BY Zenon, <1>8, <1>12, <2>1
  <2> QED
    BY <2>1, <2>2
<1>15. n \in U
  <2> HIDE DEF U
  <2>1. 0 .. n \subseteq U
    BY <1>1, <1>13, <1>14, UpTo
  <2> QED
    BY <1>1, <2>1
<1>16. Copy = f[n]
  BY <1>2, <1>15
<1> QED
  BY <1>8, <1>16 DEF n, V, none, Copies

\* The copy loop writes what the operation means for the records, whether they
\* are walked through line by line or not.
LEMMA CopyIsAfter ==
  ASSUME userFile \in Seq(Records), JobOf(userFile)
  PROVE  Copy = After(userFile) /\ After(userFile) \in Seq(Records)
<1> DEFINE n == Len(userFile)
           T == {r \in Records : r.id # job.id}
<1>1. n \in Nat /\ \A k \in 1 .. n : userFile[k] \in Records
  OBVIOUS
<1>2. PICK out : Copies(out)
  BY CopyLoop
<1>3. /\ out \in [0 .. n -> Seq(Records)]
      /\ out[0] = <<>>
      /\ \A k \in 1 .. n : out[k] = out[k - 1] \o LineFor(k)
      /\ Copy = out[n]
  BY <1>2 DEF Copies
<1>4. CASE job.kind = "delete"
  <2>1. After(userFile) = Select(userFile, T)
    BY <1>4, Zenon DEF After
  <2>2. After(userFile) \in Seq(Records)
    BY <2>1, SelectFacts
  <2>3. PICK kept : Keeps(kept, Records, userFile, T)
    BY SelectLoop
  <2>4. /\ kept \in [0 .. n -> Seq(Records)]
        /\ kept[0] = <<>>
        /\ \A k \in 1 .. n :
             kept[k] = IF userFile[k] \in T THEN Append(kept[k - 1], userFile[k]) ELSE kept[k - 1]
        /\ Select(userFile, T) = kept[n]
    BY <2>3 DEF Keeps
  <2>5. \A k \in 1 .. n : LineFor(k) = IF userFile[k] \in T THEN <<userFile[k]>> ELSE <<>>
    BY <1>4, LineForFacts
  <2> DEFINE U == {k \in 0 .. n : out[k] = kept[k]}
  <2> HIDE DEF n, T
  <2>6. 0 \in U
    BY <1>1, <1>3, <2>4
  <2>7. \A k \in 1 .. n : k - 1 \in U => k \in U
    <3> SUFFICES ASSUME NEW k \in 1 .. n, k - 1 \in U PROVE k \in U
      OBVIOUS
    <3> DEFINE v == kept[k - 1]
    <3>1. k \in 0 .. n /\ k - 1 \in 0 .. n /\ out[k - 1] = v /\ v \in Seq(Records)
      BY <1>1, <2>4
    <3>2. out[k] = v \o LineFor(k)
      BY <1>3, <3>1
    <3> HIDE DEF v
    <3>3. CASE userFile[k] \in T
      <4>1. LineFor(k) = <<userFile[k]>> /\ kept[k] = Append(v, userFile[k])
        BY <2>4, <2>5, <3>3 DEF v
      <4>2. v \o <<userFile[k]>> = Append(v, userFile[k])
        BY <1>1, <3>1, AppendIsConcat
      <4> QED
        BY <3>1, <3>2, <4>1, <4>2
    <3>4. CASE userFile[k] \notin T
      <4>1. LineFor(k) = <<>> /\ kept[k] = v
        BY <2>4, <2>5, <3>4 DEF v
      <4>2. v \o <<>> = v
        BY <3>1
      <4> QED
        BY <3>1, <3>2, <4>1, <4>2
    <3> QED
      BY <3>3, <3>4
  <2>8. n \in U
    <3> HIDE DEF U
    <3>1. 0 .. n \subseteq U
      BY <1>1, <2>6, <2>7, UpTo
    <3> QED
      BY <1>1, <3>1
  <2> QED
    BY <1>3, <2>1, <2>2, <2>4, <2>8
<1>5. CASE job.kind # "delete"
  <2> DEFINE w(k) == IF userFile[k].id = job.id THEN [id |-> job.id, data |-> job.new[k]]
                     ELSE userFile[k]
             a == [k \in 1 .. n |-> w(k)]
  <2>1. After(userFile) = a
    BY <1>5 DEF After
  <2>2. \A k \in 1 .. n : w(k) \in Records
    <3> SUFFICES ASSUME NEW k \in 1 .. n PROVE w(k) \in Records
      OBVIOUS
    <3>1. job.id \in Ids /\ job.new[k] \in Data
      BY <1>5 DEF JobOf
    <3> QED
      BY <1>1, <3>1 DEF Records
  <2>3. \A k \in 1 .. n : LineFor(k) = <<w(k)>>
    BY <1>5, LineForFacts
  <2> HIDE DEF n, w
  <2>4. a \in Seq(Records) /\ Len(a) = n /\ \A k \in 1 .. n : a[k] = w(k)
    BY <1>1, <2>2
  <2> DEFINE p(k) == SubSeq(a, 1, k)
  <2>5. /\ p(0) = <<>> /\ p(n) = a
        /\ \A k \in 0 .. n : p(k) \in Seq(Records)
        /\ \A k \in 1 .. n : p(k) = Append(p(k - 1), a[k])
    <3> HIDE DEF a
    <3> QED
      BY <2>4, PrefixByPrefix
  <2> HIDE DEF p, a
  <2> DEFINE U == {k \in 0 .. n : out[k] = p(k)}
  <2>6. 0 \in U
    BY <1>1, <1>3, <2>5
  <2>7. \A k \in 1 .. n : k - 1 \in U => k \in U
    <3> SUFFICES ASSUME NEW k \in 1 .. n, k - 1 \in U PROVE k \in U
      OBVIOUS
    <3>1. k \in 0 .. n /\ k - 1 \in 0 .. n /\ p(k - 1) \in Seq(Records)
      BY <1>1, <2>5
    <3>2. out[k] = p(k - 1) \o <<w(k)>>
      BY <1>3, <2>3, <3>1
    <3>3. p(k) = Append(p(k - 1), w(k)) /\ w(k) \in Records
      BY <2>2, <2>4, <2>5
    <3>4. p(k - 1) \o <<w(k)>> = Append(p(k - 1), w(k))
      BY <3>1, <3>3, AppendIsConcat
    <3> QED
      BY <3>1, <3>2, <3>3, <3>4
  <2>8. n \in U
    <3> HIDE DEF U
    <3>1. 0 .. n \subseteq U
      BY <1>1, <2>6, <2>7, UpTo
    <3> QED
      BY <1>1, <3>1
  <2> QED
    BY <1>3, <2>1, <2>4, <2>5, <2>8
<1> QED
  BY <1>4, <1>5

(***************************************************************************)
(* The invariant.                                                          *)
(***************************************************************************)
\* What is open fits into what a process can have open.
FilesFit == leaked + Held <= MaxFiles

\* An operation that holds a file open, or copies, has the file; from the
\* truncation of temp.txt on, temp.txt exists and holds no earlier operation's
\* records; the copy is complete before user.txt is removed.
UnderWay ==
  /\ pc \in {"addId", "deleteId", "copy", "remove"} => userFile # Missing
  /\ pc \in {"deleteId", "copy", "remove", "rename"} => tempFile # Missing /\ fate # "stranded"
  /\ pc \in {"copy", "remove"} => JobOf(userFile)
  /\ pc = "remove" => tempFile = After(userFile)
  /\ pc = "rename" => userFile = Missing

\* The inductive invariant.
Invariant == RecordsSurvive /\ FilesFit /\ UnderWay

\* A file is a sequence of records, or there is none.
LEMMA FileFacts ==
  /\ <<>> # Missing
  /\ \A file \in Files : file # Missing => file \in Seq(Records)
  /\ \A s \in Seq(Records) : s \in Files /\ s # Missing
  /\ \A file \in Files : Created(file) \in Files /\ Created(file) # Missing
<1>1. <<>> \in Seq(Records) /\ Missing \notin Seq(Records)
  BY MissingAssumption DEF Records
<1> QED
  BY <1>1 DEF Files, Created

\* The program starts with no files and no records.
LEMMA InitInvariant == Init => Invariant
<1> SUFFICES ASSUME Init PROVE Invariant
  OBVIOUS
<1>1. TypeOK
  <2>1. <<>> \in Seq(Records) /\ Missing \in Files
    BY DEF Files
  <2>2. 0 \in 0 .. MaxFiles /\ MaxFiles \in Nat
    BY FilesAssumption
  <2> QED
    BY <2>1, <2>2 DEF Init, TypeOK, Stages, Jobs
<1>2. RecordsSurvive
  BY <1>1 DEF Init, RecordsSurvive, Current
<1>3. FilesFit
  BY FilesAssumption DEF Init, FilesFit, Held
<1>4. UnderWay
  BY DEF Init, UnderWay
<1> QED
  BY <1>2, <1>3, <1>4 DEF Invariant

\* fopen("temp.txt", "w") loses the records only if they were stranded there.
LEMMA TruncateFacts ==
  ASSUME TypeOK, RecordsSurvive, TruncateTemp, UNCHANGED userFile, userFile # Missing
  PROVE  /\ tempFile' = <<>> /\ tempFile' # Missing /\ tempFile' \in Files
         /\ table' \in Seq(Records)
         /\ fate' \in {"kept", "gone"}
         /\ fate' = "kept" => userFile' = table'
<1>1. <<>> \in Seq(Records)
  OBVIOUS
<1> QED
  BY <1>1, FileFacts DEF TypeOK, RecordsSurvive, TruncateTemp, Current

\* Every step keeps the invariant.
LEMMA StepInvariant == Invariant /\ [Next]_vars => Invariant'
<1> SUFFICES ASSUME Invariant, [Next]_vars PROVE Invariant'
  OBVIOUS
<1>0. TypeOK /\ RecordsSurvive /\ FilesFit /\ UnderWay
  BY DEF Invariant, RecordsSurvive
<1>t. /\ pc \in Stages /\ userFile \in Files /\ tempFile \in Files
      /\ leaked \in 0 .. MaxFiles /\ job \in Jobs /\ table \in Seq(Records)
      /\ fate \in {"kept", "stranded", "gone"}
  BY <1>0 DEF TypeOK
<1>s. /\ fate = "kept" /\ (pc = "rename" \/ userFile # Missing) => Current = table
      /\ fate = "kept" /\ userFile = Missing => pc = "rename" \/ table = <<>>
      /\ fate = "stranded" => tempFile = table
  BY <1>0 DEF RecordsSurvive
<1>m. MaxFiles \in Nat \ {0} /\ leaked \in Nat /\ Held \in 0 .. 2
  BY <1>t, FilesAssumption DEF Held
<1>f. leaked + Held <= MaxFiles
  BY <1>0 DEF FilesFit
<1>1. CASE createFile
  <2>1. userFile' \in Files /\ userFile' # Missing
    BY <1>1, <1>t, FileFacts DEF createFile
  <2>2. TypeOK'
    BY <1>1, <1>t, <2>1 DEF createFile, TypeOK, Stages
  <2>3. RecordsSurvive'
    BY <1>1, <1>s, <2>1, <2>2 DEF createFile, RecordsSurvive, Current, Created
  <2>4. FilesFit'
    BY <1>1, <1>m, <1>f DEF createFile, FilesFit, Held
  <2>5. UnderWay'
    BY <1>1 DEF createFile, UnderWay
  <2> QED
    BY <2>3, <2>4, <2>5 DEF Invariant
<1>2. CASE ProcessEnds
  <2>2. TypeOK'
    BY <1>2, <1>t, <1>m DEF ProcessEnds, TypeOK, Stages, Jobs, files
  <2>3. RecordsSurvive'
    <3>1. pc = "rename" /\ fate = "kept" => userFile = Missing /\ tempFile = table
      BY <1>0, <1>s DEF UnderWay, Current
    <3> QED
      BY <1>2, <1>s, <2>2, <3>1 DEF ProcessEnds, RecordsSurvive, Current, files
  <2>4. FilesFit'
    BY <1>2, <1>m DEF ProcessEnds, FilesFit, Held
  <2>5. UnderWay'
    BY <1>2 DEF ProcessEnds, UnderWay
  <2> QED
    BY <2>3, <2>4, <2>5 DEF Invariant
<1>3. CASE addOpen
  <2>1. userFile' \in Files /\ userFile' # Missing
    BY <1>3, <1>t, FileFacts DEF addOpen
  <2>2. TypeOK'
    BY <1>3, <1>t, <2>1 DEF addOpen, TypeOK, Stages
  <2>3. RecordsSurvive'
    BY <1>3, <1>s, <2>1, <2>2 DEF addOpen, RecordsSurvive, Current, Created
  <2>4. FilesFit'
    BY <1>3, <1>m, <1>f DEF addOpen, FilesFit, Free, Held
  <2>5. UnderWay'
    BY <1>3, <2>1 DEF addOpen, UnderWay
  <2> QED
    BY <2>3, <2>4, <2>5 DEF Invariant
<1>4. ASSUME NEW r \in Records, addRecord(r) PROVE Invariant'
  <2>1. userFile # Missing /\ userFile \in Seq(Records)
    BY <1>0, <1>4, <1>t, FileFacts DEF addRecord, UnderWay
  <2>2. userFile' \in Seq(Records) /\ userFile' \in Files /\ userFile' # Missing
    <3>1. Append(userFile, r) \in Seq(Records)
      BY <1>4, <2>1
    <3> QED
      BY <1>4, <3>1, FileFacts DEF addRecord
  <2>3. TypeOK'
    BY <1>4, <1>t, <2>2 DEF addRecord, TypeOK, Stages
  <2>4. fate = "kept" => userFile = table
    BY <1>s, <2>1 DEF Current
  <2>5. RecordsSurvive'
    BY <1>4, <1>s, <2>2, <2>3, <2>4 DEF addRecord, RecordsSurvive, Current
  <2>6. FilesFit'
    BY <1>4, <1>m, <1>f DEF addRecord, FilesFit, Held
  <2>7. UnderWay'
    BY <1>4 DEF addRecord, UnderWay
  <2> QED
    BY <2>5, <2>6, <2>7 DEF Invariant
<1>5. ASSUME NEW i \in Ids, updateOpen(i) PROVE Invariant'
  <2>1. userFile # Missing /\ userFile \in Seq(Records) /\ userFile' = userFile
    BY <1>5, <1>t, FileFacts DEF updateOpen, isUserIdExist
  <2>2. /\ tempFile' # Missing /\ tempFile' \in Files /\ table' \in Seq(Records)
        /\ fate' \in {"kept", "gone"}
        /\ fate' = "kept" => userFile' = table'
    BY <1>0, <1>5, <2>1, TruncateFacts DEF updateOpen
  <2>3. PICK new \in [DOMAIN userFile -> Data] :
          job' = [kind |-> "update", id |-> i, new |-> new]
    BY <1>5 DEF updateOpen
  <2>4. new \in Seq(Data)
    BY <2>1
  <2>5. job' \in Jobs
    BY <2>3, <2>4 DEF Jobs
  <2>6. TypeOK'
    BY <1>5, <1>t, <2>1, <2>2, <2>5 DEF updateOpen, TypeOK, Stages
  <2>7. RecordsSurvive'
    BY <2>1, <2>2, <2>6 DEF RecordsSurvive, Current
  <2>8. FilesFit'
    BY <1>5, <1>m, <1>f DEF updateOpen, FilesFit, Free, Held
  <2>9. JobOf(userFile)'
    BY <2>1, <2>3 DEF JobOf
  <2>10. UnderWay'
    BY <1>5, <2>1, <2>2, <2>9 DEF updateOpen, UnderWay
  <2> QED
    BY <2>7, <2>8, <2>10 DEF Invariant
<1>6. ASSUME NEW i \in Ids, updateOpenFails(i) PROVE Invariant'
  <2>1. leaked' \in 0 .. MaxFiles /\ leaked' + Held <= MaxFiles
    BY <1>6, <1>m, <1>f DEF updateOpenFails, Free
  <2>2. TypeOK'
    BY <1>6, <1>t, <2>1 DEF updateOpenFails, TypeOK, files
  <2>3. RecordsSurvive'
    BY <1>6, <1>s, <2>2 DEF updateOpenFails, RecordsSurvive, Current, files
  <2>4. FilesFit'
    BY <1>6, <2>1 DEF updateOpenFails, FilesFit, Held
  <2>5. UnderWay'
    BY <1>6 DEF updateOpenFails, UnderWay
  <2> QED
    BY <2>3, <2>4, <2>5 DEF Invariant
<1>7. CASE deleteOpen
  <2>1. pc = "menu" /\ userFile' = userFile /\ job' = job /\ Held = 0
    BY <1>7 DEF deleteOpen, Held
  <2>2. /\ tempFile' \in Files /\ table' \in Seq(Records) /\ fate' \in {"kept", "stranded", "gone"}
        /\ fate' = "kept" /\ userFile # Missing => userFile' = table'
        /\ fate' = "kept" /\ userFile = Missing => table' = <<>>
        /\ fate' = "stranded" => tempFile' = table'
        /\ TempOpens = 1 => tempFile' # Missing /\ fate' # "stranded"
    <3>1. CASE TempOpens = 1
      <4>1. TruncateTemp
        BY <1>7, <3>1 DEF deleteOpen
      <4>2. <<>> \in Seq(Records)
        OBVIOUS
      <4> QED
        BY <1>s, <1>t, <2>1, <4>1, <4>2, FileFacts DEF TruncateTemp, Current
    <3>2. CASE TempOpens # 1
      BY <1>7, <1>s, <1>t, <2>1, <3>2 DEF deleteOpen, Current
    <3> QED
      BY <3>1, <3>2
  <2>3. UserOpens \in {0, 1} /\ TempOpens \in {0, 1} /\ UserOpens + TempOpens <= MaxFiles - leaked
    BY <1>m, <1>f, <2>1 DEF UserOpens, TempOpens, Free
  <2>4. CASE UserOpens + TempOpens = 2
    <3>1. TempOpens = 1 /\ UserOpens = 1
      BY <2>3, <2>4
    <3>2. userFile # Missing
      BY <3>1 DEF UserOpens
    <3>3. pc' = "deleteId" /\ leaked' = leaked
      BY <1>7, <2>4 DEF deleteOpen
    <3>4. TypeOK'
      BY <1>t, <2>1, <2>2, <3>3 DEF TypeOK, Stages
    <3>5. RecordsSurvive'
      BY <2>1, <2>2, <3>2, <3>4 DEF RecordsSurvive, Current
    <3>6. FilesFit'
      BY <1>m, <2>3, <2>4, <3>3 DEF FilesFit, Held
    <3>7. UnderWay'
      BY <2>1, <2>2, <3>1, <3>2, <3>3 DEF UnderWay
    <3> QED
      BY <3>5, <3>6, <3>7 DEF Invariant
  <2>5. CASE UserOpens + TempOpens # 2
    <3>1. pc' = pc /\ leaked' = leaked + UserOpens + TempOpens
      BY <1>7, <2>5 DEF deleteOpen
    <3>2. leaked' \in 0 .. MaxFiles
      BY <1>m, <2>3, <3>1
    <3>4. TypeOK'
      BY <1>t, <2>1, <2>2, <3>1, <3>2 DEF TypeOK
    <3>5. RecordsSurvive'
      BY <2>1, <2>2, <3>1, <3>4 DEF RecordsSurvive, Current
    <3>6. FilesFit'
      BY <1>m, <2>1, <3>1, <3>2 DEF FilesFit, Held
    <3>7. UnderWay'
      BY <2>1, <3>1 DEF UnderWay
    <3> QED
      BY <3>5, <3>6, <3>7 DEF Invariant
  <2> QED
    BY <2>4, <2>5
<1>8. ASSUME NEW i \in Ids, deleteFound(i) PROVE Invariant'
  <2>1. job' \in [kind : {"delete"}, id : Ids]
    BY <1>8 DEF deleteFound
  <2>2. TypeOK'
    BY <1>8, <1>t, <2>1 DEF deleteFound, TypeOK, Stages, Jobs, files
  <2>3. RecordsSurvive'
    <3>1. pc' # "rename" /\ pc # "rename"
      BY <1>8 DEF deleteFound
    <3> QED
      BY <1>8, <1>s, <2>2, <3>1 DEF deleteFound, RecordsSurvive, Current, files
  <2>4. FilesFit'
    BY <1>8, <1>f DEF deleteFound, FilesFit, Held
  <2>5. UnderWay'
    <3>1. JobOf(userFile)'
      BY <2>1 DEF JobOf
    <3> QED
      BY <1>0, <1>8, <3>1 DEF deleteFound, UnderWay, files
  <2> QED
    BY <2>3, <2>4, <2>5 DEF Invariant
<1>9. ASSUME NEW i \in Ids, deleteNotFound(i) PROVE Invariant'
  <2>1. leaked' \in 0 .. MaxFiles /\ leaked' + 0 <= MaxFiles
    BY <1>9, <1>m, <1>f DEF deleteNotFound, Held
  <2>2. TypeOK'
    BY <1>9, <1>t, <2>1 DEF deleteNotFound, TypeOK, Stages, files
  <2>3. RecordsSurvive'
    BY <1>9, <1>s, <2>2 DEF deleteNotFound, RecordsSurvive, Current, files
  <2>4. FilesFit'
    BY <1>9, <2>1 DEF deleteNotFound, FilesFit, Held
  <2>5. UnderWay'
    BY <1>9 DEF deleteNotFound, UnderWay
  <2> QED
    BY <2>3, <2>4, <2>5 DEF Invariant
<1>10. CASE copyRecords
  <2>1. userFile # Missing /\ userFile \in Seq(Records) /\ JobOf(userFile) /\ fate # "stranded"
    BY <1>0, <1>10, <1>t, FileFacts DEF copyRecords, UnderWay
  <2>2. tempFile' = After(userFile) /\ After(userFile) \in Seq(Records)
    BY <1>10, <2>1, CopyIsAfter DEF copyRecords
  <2>3. tempFile' \in Files /\ tempFile' # Missing
    BY <2>2, FileFacts
  <2>4. TypeOK'
    BY <1>10, <1>t, <2>3 DEF copyRecords, TypeOK, Stages
  <2>5. RecordsSurvive'
    <3>1. pc' # "rename" /\ pc # "rename"
      BY <1>10 DEF copyRecords
    <3> QED
      BY <1>10, <1>s, <2>1, <2>4, <3>1 DEF copyRecords, RecordsSurvive, Current
  <2>6. FilesFit'
    BY <1>10, <1>m, <1>f DEF copyRecords, FilesFit, Held
  <2>7. UnderWay'
    <3>1. JobOf(userFile)'
      BY <1>10, <2>1 DEF copyRecords, JobOf
    <3>2. tempFile' = After(userFile)'
      BY <1>10, <2>2 DEF copyRecords, After
    <3> QED
      BY <1>10, <2>1, <2>3, <3>1, <3>2 DEF copyRecords, UnderWay
  <2> QED
    BY <2>5, <2>6, <2>7 DEF Invariant
<1>11. CASE removeUserFile
  <2>1. /\ userFile # Missing /\ userFile \in Seq(Records) /\ JobOf(userFile)
        /\ tempFile = After(userFile) /\ tempFile # Missing /\ fate # "stranded"
    BY <1>0, <1>11, <1>t, FileFacts DEF removeUserFile, UnderWay
  <2>2. fate = "kept" => table' = tempFile
    BY <1>11, <1>s, <2>1 DEF removeUserFile, Current
  <2>3. tempFile \in Seq(Records)
    BY <1>t, <2>1, FileFacts
  <2>4. table' \in Seq(Records)
    BY <1>11, <1>t, <2>2, <2>3 DEF removeUserFile
  <2>5. userFile' \in Files
    BY <1>11 DEF removeUserFile, Files
  <2>6. TypeOK'
    BY <1>11, <1>t, <2>4, <2>5 DEF removeUserFile, TypeOK, Stages
  <2>7. RecordsSurvive'
    BY <1>11, <2>1, <2>2, <2>6 DEF removeUserFile, RecordsSurvive, Current
  <2>8. FilesFit'
    BY <1>11, <1>m, <1>f DEF removeUserFile, FilesFit, Held
  <2>9. UnderWay'
    BY <1>11, <2>1 DEF removeUserFile, UnderWay
  <2> QED
    BY <2>7, <2>8, <2>9 DEF Invariant
<1>12. CASE removeFails
  <2>2. TypeOK'
    BY <1>12, <1>t DEF removeFails, TypeOK, Stages, Jobs, files
  <2>3. RecordsSurvive'
    <3>1. pc' # "rename" /\ pc # "rename"
      BY <1>12 DEF removeFails
    <3> QED
      BY <1>12, <1>s, <2>2, <3>1 DEF removeFails, RecordsSurvive, Current, files
  <2>4. FilesFit'
    BY <1>12, <1>m, <1>f DEF removeFails, FilesFit, Held
  <2>5. UnderWay'
    BY <1>12 DEF removeFails, UnderWay
  <2> QED
    BY <2>3, <2>4, <2>5 DEF Invariant
<1>13. CASE renameTemp
  <2>1. userFile = Missing /\ tempFile # Missing /\ fate # "stranded"
    BY <1>0, <1>13 DEF renameTemp, UnderWay
  <2>2. TypeOK'
    BY <1>13, <1>t DEF renameTemp, TypeOK, Stages, Jobs, Files
  <2>3. RecordsSurvive'
    BY <1>13, <1>s, <2>1, <2>2 DEF renameTemp, RecordsSurvive, Current
  <2>4. FilesFit'
    BY <1>13, <1>m, <1>f DEF renameTemp, FilesFit, Held
  <2>5. UnderWay'
    BY <1>13 DEF renameTemp, UnderWay
  <2> QED
    BY <2>3, <2>4, <2>5 DEF Invariant
<1>14. CASE renameFails
  <2>1. userFile = Missing /\ tempFile # Missing /\ fate # "stranded"
    BY <1>0, <1>14 DEF renameFails, UnderWay
  <2>2. TypeOK'
    BY <1>14, <1>t DEF renameFails, TypeOK, Stages, Jobs, files
  <2>3. RecordsSurvive'
    BY <1>14, <1>s, <2>1, <2>2 DEF renameFails, RecordsSurvive, Current, files
  <2>4. FilesFit'
    BY <1>14, <1>m, <1>f DEF renameFails, FilesFit, Held
  <2>5. UnderWay'
    BY <1>14 DEF renameFails, UnderWay
  <2> QED
    BY <2>3, <2>4, <2>5 DEF Invariant
<1>15. CASE UNCHANGED vars
  <2>1. /\ pc' = pc /\ userFile' = userFile /\ tempFile' = tempFile /\ leaked' = leaked
        /\ job' = job /\ table' = table /\ fate' = fate
    BY <1>15 DEF vars, files
  <2>2. TypeOK'
    BY <1>t, <2>1 DEF TypeOK
  <2>3. RecordsSurvive'
    BY <1>s, <2>1, <2>2 DEF RecordsSurvive, Current
  <2>4. FilesFit'
    BY <1>f, <2>1 DEF FilesFit, Held
  <2>5. UnderWay'
    BY <1>0, <2>1 DEF UnderWay, JobOf, After
  <2> QED
    BY <2>3, <2>4, <2>5 DEF Invariant
<1> QED
  BY <1>1, <1>2, <1>3, <1>4, <1>5, <1>6, <1>7, <1>8, <1>9, <1>10, <1>11, <1>12, <1>13, <1>14,
     <1>15 DEF Next

\* Wherever the program is killed and whichever remove or rename fails, the
\* records are in user.txt, or in temp.txt until it is opened for writing again.
THEOREM NoRecordIsLost == Spec => []RecordsSurvive
<1>1. Invariant => RecordsSurvive
  BY DEF Invariant
<1> QED
  BY <1>1, InitInvariant, StepInvariant, PTL DEF Spec

(***************************************************************************)
(* Unique ids.                                                             *)
(***************************************************************************)
Unique(s) == \A j, k \in DOMAIN s : s[j].id = s[k].id => j = k

\* Leaving lines out and changing names and ages keep ids unique.
LEMMA AfterKeepsUnique ==
  ASSUME userFile \in Seq(Records), JobOf(userFile), Unique(userFile)
  PROVE  Unique(After(userFile))
<1> DEFINE n == Len(userFile)
           T == {r \in Records : r.id # job.id}
           a == After(userFile)
<1>1. CASE job.kind = "delete"
  <2>1. a = Select(userFile, T)
    BY <1>1, Zenon DEF After
  <2> DEFINE b == Select(userFile, T)
  <2>2. b \in Seq(Records) /\ \A x : Count(b, x) = IF x \in T THEN Count(userFile, x) ELSE 0
    BY SelectFacts
  <2>3. ToSet(b) = ToSet(userFile) \cap T
    BY SelectMembers
  <2> HIDE DEF b, T
  <2>4. \A x : Count(userFile, x) <= 1
    <3> SUFFICES ASSUME NEW x PROVE Count(userFile, x) <= 1
      OBVIOUS
    <3>1. \A i, j \in DOMAIN userFile : userFile[i] = x /\ userFile[j] = x => i = j
      BY DEF Unique
    <3> QED
      BY <3>1, CountOne
  <2>5. \A x : Count(b, x) <= 1
    BY <2>2, <2>4
  <2>6. \A x : \A i, j \in DOMAIN b : b[i] = x /\ b[j] = x => i = j
    BY <2>2, <2>5, CountOne
  <2>7. ASSUME NEW i \in DOMAIN b, NEW j \in DOMAIN b, b[i].id = b[j].id PROVE i = j
    <3>1. b[i] \in ToSet(userFile) /\ b[j] \in ToSet(userFile)
      BY <2>3 DEF ToSet
    <3>2. PICK k, m \in DOMAIN userFile : userFile[k] = b[i] /\ userFile[m] = b[j]
      BY <3>1 DEF ToSet
    <3>3. k = m
      BY <2>7, <3>2 DEF Unique
    <3> QED
      BY <2>6, <3>2, <3>3
  <2> QED
    BY <2>1, <2>7 DEF b, Unique
<1>2. CASE job.kind # "delete"
  <2>1. a = [k \in DOMAIN userFile |->
               IF userFile[k].id = job.id THEN [id |-> job.id, data |-> job.new[k]]
               ELSE userFile[k]]
    BY <1>2 DEF After
  <2>2. DOMAIN a = DOMAIN userFile /\ \A k \in DOMAIN userFile : a[k].id = userFile[k].id
    BY <2>1
  <2> HIDE DEF a
  <2> QED
    BY <2>2 DEF Unique, a
<1> QED
  BY <1>1, <1>2

\* A step that is not an addUser without a free file keeps unique ids unique.
LEMMA StepUnique ==
  Invariant /\ [Next]_vars => (UniqueIds /\ ~UniqueIds' => pc = "addId" /\ Free = 0)
<1> SUFFICES ASSUME Invariant, [Next]_vars, UniqueIds, ~(pc = "addId" /\ Free = 0)
             PROVE  UniqueIds'
  OBVIOUS
<1> USE DEF UniqueIds
<1>0. TypeOK /\ FilesFit /\ UnderWay
  BY DEF Invariant, RecordsSurvive
<1>t. userFile \in Files /\ tempFile \in Files /\ leaked \in Nat /\ MaxFiles \in Nat
  BY <1>0, FilesAssumption DEF TypeOK
<1>1. CASE createFile
  BY <1>1 DEF createFile, Created, Current
<1>2. CASE ProcessEnds
  BY <1>2 DEF ProcessEnds, Current, files
<1>3. CASE addOpen
  BY <1>3 DEF addOpen, Created, Current
<1>4. ASSUME NEW r \in Records, addRecord(r) PROVE UniqueIds'
  <2>1. userFile # Missing /\ userFile \in Seq(Records)
    BY <1>0, <1>4, <1>t, FileFacts DEF addRecord, UnderWay
  <2>2. userFile' = Append(userFile, r) /\ userFile' # Missing
    <3>1. Append(userFile, r) \in Seq(Records)
      BY <2>1
    <3> QED
      BY <1>4, <3>1, FileFacts DEF addRecord
  <2>3. Free > 0
    <3>1. pc = "addId" /\ Held = 1
      BY <1>4 DEF addRecord, Held
    <3>2. Free \in Nat
      BY <1>0, <1>t, <3>1 DEF FilesFit, Free
    <3> QED
      BY <3>1, <3>2
  <2>4. \A k \in DOMAIN userFile : userFile[k].id # r.id
    BY <1>4, <2>1, <2>3 DEF addRecord, isUserIdExist
  <2>5. \A j, k \in DOMAIN userFile : userFile[j].id = userFile[k].id => j = k
    BY <2>1 DEF Current
  <2> DEFINE s == Append(userFile, r)
  <2>6. /\ DOMAIN s = 1 .. Len(userFile) + 1 /\ DOMAIN userFile = 1 .. Len(userFile)
        /\ Len(userFile) \in Nat
        /\ \A k \in 1 .. Len(userFile) : s[k] = userFile[k]
        /\ s[Len(userFile) + 1] = r
    BY <2>1
  <2> HIDE DEF s
  <2>7. \A j, k \in DOMAIN s : s[j].id = s[k].id => j = k
    BY <2>4, <2>5, <2>6
  <2> QED
    BY <2>2, <2>7 DEF Current, s
<1>5. ASSUME NEW i \in Ids, updateOpen(i) PROVE UniqueIds'
  BY <1>5 DEF updateOpen, isUserIdExist, Current
<1>6. ASSUME NEW i \in Ids, updateOpenFails(i) PROVE UniqueIds'
  BY <1>6 DEF updateOpenFails, Current, files
<1>7. CASE deleteOpen
  <2>1. userFile' = userFile /\ (tempFile' = tempFile \/ tempFile' = <<>>)
    BY <1>7 DEF deleteOpen, TruncateTemp
  <2> QED
    BY <2>1 DEF Current
<1>8. ASSUME NEW i \in Ids, deleteFound(i) PROVE UniqueIds'
  BY <1>8 DEF deleteFound, Current, files
<1>9. ASSUME NEW i \in Ids, deleteNotFound(i) PROVE UniqueIds'
  BY <1>9 DEF deleteNotFound, Current, files
<1>10. CASE copyRecords
  <2>1. userFile # Missing /\ userFile' = userFile
    BY <1>0, <1>10 DEF copyRecords, UnderWay
  <2> QED
    BY <2>1 DEF Current
<1>11. CASE removeUserFile
  <2>1. /\ userFile # Missing /\ userFile \in Seq(Records) /\ JobOf(userFile)
        /\ tempFile = After(userFile) /\ tempFile # Missing
    BY <1>0, <1>11, <1>t, FileFacts DEF removeUserFile, UnderWay
  <2>2. Unique(userFile)
    BY <2>1 DEF Current, Unique
  <2>3. Unique(tempFile)
    BY <2>1, <2>2, AfterKeepsUnique
  <2>4. Current' = tempFile
    BY <1>11, <2>1 DEF removeUserFile, Current
  <2> QED
    BY <2>3, <2>4 DEF Unique
<1>12. CASE removeFails
  BY <1>12 DEF removeFails, Current, files
<1>13. CASE renameTemp
  <2>1. userFile = Missing /\ tempFile # Missing
    BY <1>0, <1>13 DEF renameTemp, UnderWay
  <2> QED
    BY <1>13, <2>1 DEF renameTemp, Current
<1>14. CASE renameFails
  BY <1>14 DEF renameFails, Current, files
<1>15. CASE UNCHANGED vars
  BY <1>15 DEF vars, files, Current
<1> QED
  BY <1>1, <1>2, <1>3, <1>4, <1>5, <1>6, <1>7, <1>8, <1>9, <1>10, <1>11, <1>12, <1>13, <1>14,
     <1>15 DEF Next

\* An id is let in twice only by an addUser that could open no file to look
\* for it; updates, deletes, kills and failing calls make no id ambiguous.
THEOREM IdsAreLetInOnce == Spec => IdsStayUnique
<1>1. Invariant /\ [Next]_vars => [UniqueIds /\ ~UniqueIds' => pc = "addId" /\ Free = 0]_vars
  BY StepUnique
<1> QED
  BY <1>1, InitInvariant, StepInvariant, PTL DEF Spec, IdsStayUnique
=============================================================================
