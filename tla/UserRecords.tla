----------------------------- MODULE UserRecords -----------------------------
(***************************************************************************)
(* CRUD_Operations.c: user records in user.txt, changed through temp.txt.  *)
(* A step is what a kill of the program cannot cut: an fopen, the fclose   *)
(* that brings a file's text to the disk, remove, rename.  What the user   *)
(* is asked for in between is chosen in the step that uses it.             *)
(*                                                                         *)
(* A record is an id and its data (name and age).  The program itself      *)
(* writes no line it cannot parse, so no line is malformed.  An fopen      *)
(* fails when the file is missing or the process has no descriptor left,   *)
(* and for no other reason.                                                *)
(***************************************************************************)
EXTENDS Integers, Sequences, Selection

CONSTANTS
  Ids,
  Data,          \* names and ages inputUserName and inputUserAge accept
  MaxFiles,      \* files a process can have open beside the three streams
  MaxRecords,    \* bound: the user stops adding at this length of the file
  CallsMayFail,  \* whether remove and rename may fail
  Missing        \* there is no such file

ASSUME FilesAssumption == MaxFiles \in Nat \ {0}
ASSUME RecordsAssumption == MaxRecords \in Nat
ASSUME FailAssumption == CallsMayFail \in BOOLEAN
ASSUME MissingAssumption == Missing \notin Seq([id : Ids, data : Data])

VARIABLES
  pc,        \* where the program is; "off" when it does not run
  userFile,  \* user.txt
  tempFile,  \* temp.txt
  leaked,    \* files opened and never closed by this process
  job,       \* the update or delete under way: id, and new data by line
  table,     \* history: the records the finished operations add up to
  fate       \* history: "kept", or what a cut between remove and rename did

files == <<userFile, tempFile>>
vars  == <<pc, files, leaked, job, table, fate>>

Records == [id : Ids, data : Data]
Files   == Seq(Records) \cup {Missing}
NoJob   == [kind |-> "none"]
Jobs    == [kind : {"delete"}, id : Ids]
           \cup [kind : {"update"}, id : Ids, new : Seq(Data)] \cup {NoJob}
Stages  == {"off", "menu", "addId", "deleteId", "copy", "remove", "rename"}

TypeOK ==
  /\ pc \in Stages
  /\ userFile \in Files
  /\ tempFile \in Files
  /\ leaked \in 0 .. MaxFiles
  /\ job \in Jobs
  /\ table \in Seq(Records)
  /\ fate \in {"kept", "stranded", "gone"}

Init ==
  /\ pc = "off"
  /\ userFile = Missing
  /\ tempFile = Missing
  /\ leaked = 0
  /\ job = NoJob
  /\ table = <<>>
  /\ fate = "kept"

(***************************************************************************)
(* Files.                                                                  *)
(***************************************************************************)
\* addUser holds user.txt open, updateUser and deleteUser both files.
Held == IF pc = "addId" THEN 1
        ELSE IF pc \in {"deleteId", "copy"} THEN 2
        ELSE 0

\* Calls of fopen that still succeed.
Free == MaxFiles - leaked - Held

Created(file) == IF file = Missing THEN <<>> ELSE file

\* Mutant: only the first line is compared.
isUserIdExistFirst(i) ==
  Free > 0 /\ userFile \notin {Missing, <<>>} /\ Head(userFile).id = i

\* It opens the file again; when that fails, the id does not exist.
isUserIdExist(i) ==
  /\ Free > 0
  /\ userFile # Missing
  /\ \E k \in DOMAIN userFile : userFile[k].id = i

\* fopen("temp.txt", "w") cuts what the file held.
TruncateTemp ==
  /\ tempFile' = <<>>
  /\ fate' = IF fate = "stranded" THEN "gone" ELSE fate
  /\ table' = IF fate = "stranded" THEN <<>> ELSE table

(***************************************************************************)
(* The program's life.                                                     *)
(***************************************************************************)
createFile ==
  /\ pc = "off"
  /\ pc' = "menu"
  /\ userFile' = Created(userFile)
  /\ UNCHANGED <<tempFile, leaked, job, table, fate>>

\* The user leaves, or the process is killed anywhere: what it had open is
\* closed; the text it had not written yet is lost.
ProcessEnds ==
  /\ pc # "off"
  /\ pc' = "off"
  /\ leaked' = 0
  /\ job' = NoJob
  /\ fate' = IF pc = "rename" /\ fate = "kept" THEN "stranded" ELSE fate
  /\ UNCHANGED <<files, table>>

(***************************************************************************)
(* addUser.                                                                *)
(***************************************************************************)
addOpen ==
  /\ pc = "menu"
  /\ Free > 0
  /\ pc' = "addId"
  /\ userFile' = Created(userFile)
  /\ UNCHANGED <<tempFile, leaked, job, table, fate>>

\* inputUserId asks until the id is not found; fclose appends the line.
addRecord(r) ==
  /\ pc = "addId"
  /\ Len(userFile) < MaxRecords
  /\ ~isUserIdExist(r.id)
  /\ pc' = "menu"
  /\ userFile' = Append(userFile, r)
  /\ table' = IF fate = "kept" THEN Append(table, r) ELSE table
  /\ UNCHANGED <<tempFile, leaked, job, fate>>

(***************************************************************************)
(* updateUser and deleteUser.                                              *)
(***************************************************************************)
updateOpen(i) ==
  /\ pc = "menu"
  /\ isUserIdExist(i)
  /\ Free > 1
  /\ \E new \in [DOMAIN userFile -> Data] :
       job' = [kind |-> "update", id |-> i, new |-> new]
  /\ pc' = "copy"
  /\ TruncateTemp
  /\ UNCHANGED <<userFile, leaked>>

\* user.txt is open, temp.txt cannot be opened: the return closes neither.
updateOpenFails(i) ==
  /\ pc = "menu"
  /\ isUserIdExist(i)
  /\ Free = 1
  /\ leaked' = leaked + 1
  /\ UNCHANGED <<pc, files, job, table, fate>>

UserOpens == IF userFile # Missing /\ Free > 0 THEN 1 ELSE 0
TempOpens == IF Free - UserOpens > 0 THEN 1 ELSE 0

\* deleteUser opens both files before it asks for the id.
deleteOpen ==
  /\ pc = "menu"
  /\ IF TempOpens = 1 THEN TruncateTemp ELSE UNCHANGED <<tempFile, table, fate>>
  /\ IF UserOpens + TempOpens = 2
     THEN pc' = "deleteId" /\ UNCHANGED leaked
     ELSE leaked' = leaked + UserOpens + TempOpens /\ UNCHANGED pc
  /\ UNCHANGED <<userFile, job>>

deleteFound(i) ==
  /\ pc = "deleteId"
  /\ isUserIdExist(i)
  /\ pc' = "copy"
  /\ job' = [kind |-> "delete", id |-> i]
  /\ UNCHANGED <<files, leaked, table, fate>>

\* "User not found.": both files stay open.
deleteNotFound(i) ==
  /\ pc = "deleteId"
  /\ ~isUserIdExist(i)
  /\ pc' = "menu"
  /\ leaked' = leaked + 2
  /\ UNCHANGED <<files, job, table, fate>>

\* The line written for line k of the file, if any.
LineFor(k) ==
  LET r == userFile[k]
  IN  IF r.id # job.id THEN <<r>>
      ELSE IF job.kind = "delete" THEN <<>>
      ELSE <<[r EXCEPT !.data = job.new[k]]>>

\* Mutant: copying ends at the record that was looked for.
CopyUpTo ==
  LET first == CHOOSE k \in DOMAIN userFile :
                 userFile[k].id = job.id /\ \A m \in 1 .. k - 1 : userFile[m].id # job.id
      out[k \in 0 .. Len(userFile)] == IF k = 0 THEN <<>> ELSE out[k - 1] \o LineFor(k)
  IN  out[first]

\* What the loop has written when it comes to the end of user.txt.
Copy ==
  LET out[k \in 0 .. Len(userFile)] == IF k = 0 THEN <<>> ELSE out[k - 1] \o LineFor(k)
  IN  out[Len(userFile)]

copyRecords ==
  /\ pc = "copy"
  /\ pc' = "remove"
  /\ tempFile' = Copy
  /\ UNCHANGED <<userFile, leaked, job, table, fate>>

\* What the operation means for the records.
After(records) ==
  IF job.kind = "delete" THEN Select(records, {r \in Records : r.id # job.id})
  ELSE [k \in DOMAIN records |->
          IF records[k].id = job.id THEN [id |-> job.id, data |-> job.new[k]] ELSE records[k]]

removeUserFile ==
  /\ pc = "remove"
  /\ pc' = "rename"
  /\ userFile' = Missing
  /\ table' = IF fate = "kept" THEN After(table) ELSE table
  /\ UNCHANGED <<tempFile, leaked, job, fate>>

removeFails ==
  /\ pc = "remove"
  /\ CallsMayFail
  /\ pc' = "menu"
  /\ job' = NoJob
  /\ UNCHANGED <<files, leaked, table, fate>>

renameTemp ==
  /\ pc = "rename"
  /\ pc' = "menu"
  /\ userFile' = tempFile
  /\ tempFile' = Missing
  /\ job' = NoJob
  /\ UNCHANGED <<leaked, table, fate>>

\* The program goes on without user.txt.
renameFails ==
  /\ pc = "rename"
  /\ CallsMayFail
  /\ pc' = "menu"
  /\ job' = NoJob
  /\ fate' = IF fate = "kept" THEN "stranded" ELSE fate
  /\ UNCHANGED <<files, leaked, table>>

Next ==
  \/ createFile \/ ProcessEnds
  \/ addOpen \/ \E r \in Records : addRecord(r)
  \/ \E i \in Ids : updateOpen(i) \/ updateOpenFails(i) \/ deleteFound(i) \/ deleteNotFound(i)
  \/ deleteOpen
  \/ copyRecords
  \/ removeUserFile \/ removeFails
  \/ renameTemp \/ renameFails

Spec == Init /\ [][Next]_vars

(***************************************************************************)
(* Safety.                                                                 *)
(***************************************************************************)
\* The file that holds the records: between remove and rename it is temp.txt.
Current == IF userFile # Missing THEN userFile
           ELSE IF tempFile # Missing THEN tempFile ELSE <<>>

\* No record is lost, changed or half updated, wherever the program is killed:
\* the records are in user.txt, or, when the cut fell between remove and
\* rename, in temp.txt until the next update or delete opens it for writing.
RecordsSurvive ==
  /\ TypeOK
  /\ fate = "kept" /\ (pc = "rename" \/ userFile # Missing) => Current = table
  /\ fate = "kept" /\ userFile = Missing => pc = "rename" \/ table = <<>>
  /\ fate = "stranded" => tempFile = table

UniqueIds == \A j, k \in DOMAIN Current : Current[j].id = Current[k].id => j = k

\* Ids become ambiguous only when the search for an id cannot open the file,
\* although the program promises "Please enter a unique ID" (line 123).  The
\* program itself brings that about: every delete of an unknown id leaks two
\* open files; once addUser takes the last file the process may open, the
\* search opens nothing, finds nothing, and lets an id in twice.
IdsStayUnique ==
  [][UniqueIds /\ ~UniqueIds' => pc = "addId" /\ Free = 0]_vars
=============================================================================
