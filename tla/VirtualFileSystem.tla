-------------------------- MODULE VirtualFileSystem -------------------------
(***************************************************************************)
(* Virtual_File_System.c: a tree of directories and files in memory, whose *)
(* file contents live in the blocks of a virtual disk.  One command line   *)
(* is one action.  A command line holds less than 100 characters and a     *)
(* block 512, so a file needs one block, or none when its data is empty.   *)
(*                                                                         *)
(* Two FileNodes are told apart by their address, a member of Nodes; the   *)
(* circular list that starts at directory->child is the sequence children. *)
(***************************************************************************)
EXTENDS Integers, Sequences, FiniteSets, SequencesExt

CONSTANTS
  Nodes,        \* addresses calloc may give to a FileNode
  Root,         \* rootDirectory
  NumBlocks,    \* MAX_BLOCKS, 1024 in the code
  Names,        \* names a user types, at most 50 characters long
  LongName,     \* a name of 50 characters (it may be left out of Names)
  CutName,      \* its first 49 characters
  DotDot,       \* the name ".."
  Data,         \* non-empty contents
  MaxWrites,    \* bound: write commands
  NoBlock, NoData, NoNode

ASSUME RootAssumption == Root \in Nodes /\ NoNode \notin Nodes
ASSUME BlocksAssumption == NumBlocks \in Nat \ {0} /\ NoBlock \notin Nat
ASSUME NamesAssumption == LongName # CutName /\ LongName # DotDot
ASSUME DataAssumption == NoData \notin Data
ASSUME MaxWritesAssumption == MaxWrites \in Nat

VARIABLES
  live,        \* the FileNodes that are allocated and not freed
  name, parent, isDirectory,
  children,    \* children[d]: the entries of directory d, in list order
  block,       \* block[f]: blockPointers[0], or NoBlock
  cwd,         \* currentWorkingDirectory
  freeBlocks,  \* indexes in the list from freeBlockHead to freeBlockTail
  disk,        \* disk[b]: content of virtualDisk[b]
  exited,      \* the exit command was given
  writes,      \* write commands so far
  allocated,   \* FreeBlock structures allocated and not freed
  written,     \* history: written[f], the data last written to the file
  overwrites,  \* history: writes over a file that had a block
  taken        \* history: FreeBlock structures unlinked by writes

tree    == <<live, name, parent, isDirectory, children>>
storage == <<block, freeBlocks, disk, allocated>>
history == <<writes, written, overwrites, taken>>
vars    == <<tree, cwd, storage, exited, history>>

Blocks == 0 .. NumBlocks - 1
Entry  == Names \cup {CutName, "/"}

TypeOK ==
  /\ live \in SUBSET Nodes
  /\ name \in [Nodes -> Entry]
  /\ parent \in [Nodes -> Nodes \cup {NoNode}]
  /\ isDirectory \in [Nodes -> BOOLEAN]
  /\ children \in [Nodes -> Seq(Nodes)]
  /\ block \in [Nodes -> Blocks \cup {NoBlock}]
  /\ cwd \in Nodes
  /\ freeBlocks \in Seq(Blocks)
  /\ disk \in [Blocks -> Data \cup {NoData}]
  /\ exited \in BOOLEAN
  /\ allocated \in Nat
  /\ writes \in 0 .. MaxWrites
  /\ written \in [Nodes -> Data \cup {NoData}]
  /\ overwrites \in 0 .. MaxWrites
  /\ taken \in 0 .. MaxWrites

\* initializeFreeBlocks, initializeRootDirectory, initializeVirtualDisk.
Init ==
  /\ freeBlocks = [i \in 1 .. NumBlocks |-> i - 1]
  /\ allocated = NumBlocks
  /\ live = {Root}
  /\ name = [n \in Nodes |-> "/"]
  /\ parent = [n \in Nodes |-> NoNode]
  /\ isDirectory = [n \in Nodes |-> n = Root]
  /\ children = [n \in Nodes |-> <<>>]
  /\ block = [n \in Nodes |-> NoBlock]
  /\ disk = [b \in Blocks |-> NoData]
  /\ cwd = Root
  /\ exited = FALSE
  /\ writes = 0 /\ overwrites = 0 /\ taken = 0
  /\ written = [n \in Nodes |-> NoData]

Entries == children[cwd]

\* Mutant: only directories are searched.
FoundDirectories(x) == {i \in DOMAIN Entries : name[Entries[i]] = x /\ isDirectory[Entries[i]]}

\* searchChild: the first entry of the working directory with this name.
Found(x) == {i \in DOMAIN Entries : name[Entries[i]] = x}
searchChild(x) ==
  IF Found(x) = {} THEN NoNode
  ELSE Entries[CHOOSE i \in Found(x) : \A j \in Found(x) : i <= j]

\* insertFileNodeInCurrentWorkingDirectory on a node fresh from calloc.
Insert(n, x, directory) ==
  /\ n \in Nodes \ live
  /\ live' = live \cup {n}
  /\ name' = [name EXCEPT ![n] = x]
  /\ isDirectory' = [isDirectory EXCEPT ![n] = directory]
  /\ parent' = [parent EXCEPT ![n] = cwd]
  /\ children' = [children EXCEPT ![cwd] = Append(@, n), ![n] = <<>>]

makeDirectory(n, x) ==
  /\ ~exited
  /\ searchChild(x) = NoNode
  /\ Insert(n, x, TRUE)
  /\ UNCHANGED <<cwd, storage, exited, history>>

\* strncpy keeps 49 characters of the name; the search used all of them.
Stored(x) == IF x = LongName THEN CutName ELSE x

createFile(n, x) ==
  /\ ~exited
  /\ searchChild(x) = NoNode
  /\ Insert(n, Stored(x), FALSE)
  /\ UNCHANGED <<cwd, storage, exited, history>>

ToParent ==
  /\ parent[cwd] # NoNode
  /\ cwd' = parent[cwd]

ToChild(x) ==
  LET hits == {i \in Found(x) : isDirectory[Entries[i]]}
  IN  /\ hits # {}
      /\ cwd' = Entries[CHOOSE i \in hits : \A j \in hits : i <= j]

changeDirectory(x) ==
  /\ ~exited
  /\ IF x = DotDot THEN ToParent ELSE ToChild(x)
  /\ UNCHANGED <<tree, storage, exited, history>>

\* Mutant: the block is not put back on the list.
FreedListNot(f) == freeBlocks

\* The list and the disk after freeFileBlocks; the list node is a new one.
FreedList(f) == IF block[f] = NoBlock THEN freeBlocks ELSE Append(freeBlocks, block[f])
FreedDisk(f) == IF block[f] = NoBlock THEN disk ELSE [disk EXCEPT ![block[f]] = NoData]
NewNodes(f)  == IF block[f] = NoBlock THEN 0 ELSE 1

freeFileBlocks(f) ==
  /\ freeBlocks' = FreedList(f)
  /\ disk' = FreedDisk(f)
  /\ allocated' = allocated + NewNodes(f)
  /\ block' = [block EXCEPT ![f] = NoBlock]

WriteTo(f, x, d) ==
  /\ ~exited
  /\ writes < MaxWrites
  /\ f = searchChild(x)
  /\ f # NoNode /\ ~isDirectory[f]
  /\ writes' = writes + 1
  /\ written' = [written EXCEPT ![f] = d]
  /\ UNCHANGED <<tree, cwd, exited>>

\* No data: the file gives its block back.
writeNothing(f, x) ==
  /\ WriteTo(f, x, NoData)
  /\ freeFileBlocks(f)
  /\ UNCHANGED <<overwrites, taken>>

\* Mutant: the block allocated stays on the list.
writeNewShared(f, x, d) ==
  /\ WriteTo(f, x, d) /\ block[f] = NoBlock /\ freeBlocks # <<>>
  /\ block' = [block EXCEPT ![f] = Head(freeBlocks)]
  /\ disk' = [disk EXCEPT ![Head(freeBlocks)] = d]
  /\ UNCHANGED <<freeBlocks, allocated, overwrites, taken>>

\* The file has no block: one is allocated.  The structure taken from the list
\* is never freed.  With an empty list the command fails and changes nothing.
writeNew(f, x, d) ==
  /\ WriteTo(f, x, d)
  /\ block[f] = NoBlock
  /\ freeBlocks # <<>>
  /\ block' = [block EXCEPT ![f] = Head(freeBlocks)]
  /\ disk' = [disk EXCEPT ![Head(freeBlocks)] = d]
  /\ freeBlocks' = Tail(freeBlocks)
  /\ taken' = taken + 1
  /\ UNCHANGED <<allocated, overwrites>>

\* The file has a block, which is enough: it is freed and used again.
writeOver(f, x, d) ==
  /\ WriteTo(f, x, d)
  /\ block[f] # NoBlock
  /\ freeBlocks' = FreedList(f)
  /\ allocated' = allocated + NewNodes(f)
  /\ disk' = [FreedDisk(f) EXCEPT ![block[f]] = d]
  /\ overwrites' = overwrites + 1
  /\ UNCHANGED <<block, taken>>

Unlink(n) ==
  /\ live' = live \ {n}
  /\ \E i \in DOMAIN Entries :
       Entries[i] = n /\ children' = [children EXCEPT ![cwd] = RemoveAt(@, i)]
  /\ UNCHANGED <<name, parent, isDirectory>>

deleteFile(f, x) ==
  /\ ~exited
  /\ f = searchChild(x)
  /\ f # NoNode /\ ~isDirectory[f]
  /\ freeFileBlocks(f)
  /\ Unlink(f)
  /\ written' = [written EXCEPT ![f] = NoData]
  /\ UNCHANGED <<cwd, exited, writes, overwrites, taken>>

\* Mutant: a directory with entries can be removed.
removeFullDirectory(d, x) ==
  /\ ~exited
  /\ d = searchChild(x) /\ d # NoNode /\ isDirectory[d]
  /\ Unlink(d)
  /\ UNCHANGED <<cwd, storage, exited, history>>

removeDirectory(d, x) ==
  /\ ~exited
  /\ d = searchChild(x)
  /\ d # NoNode /\ isDirectory[d]
  /\ children[d] = <<>>
  /\ Unlink(d)
  /\ UNCHANGED <<cwd, storage, exited, history>>

\* freeAllFileNodes gives every block back; freeAllFreeBlocks frees the list.
exitFileSystem ==
  LET files == {f \in live : block[f] # NoBlock}
  IN  /\ ~exited
      /\ exited' = TRUE
      /\ live' = {}
      /\ allocated' = allocated + Cardinality(files) - (Len(freeBlocks) + Cardinality(files))
      /\ freeBlocks' = <<>>
      /\ block' = [n \in Nodes |-> NoBlock]
      /\ disk' = [b \in Blocks |-> IF \E f \in files : block[f] = b THEN NoData ELSE disk[b]]
      /\ UNCHANGED <<name, parent, isDirectory, children, cwd, history>>

Command(n, x) ==
  \/ makeDirectory(n, x) \/ createFile(n, x)
  \/ writeNothing(n, x)
  \/ \E d \in Data : writeNew(n, x, d) \/ writeOver(n, x, d)
  \/ deleteFile(n, x) \/ removeDirectory(n, x)

Next == \/ \E n \in Nodes, x \in Names : Command(n, x)
        \/ \E x \in Names \cup {DotDot} : changeDirectory(x)
        \/ exitFileSystem

Spec == Init /\ [][Next]_vars

(***************************************************************************)
(* Safety.                                                                 *)
(***************************************************************************)
Files == {f \in live : ~isDirectory[f]}

\* Going up never stays in a set of nodes without the root.
NoCycle ==
  \A S \in SUBSET (live \ {Root}) : S # {} => \E n \in S : parent[n] \notin S

\* The tree is a tree: the working directory exists and is a directory, every
\* node is listed once, by its parent only, and going up ends at the root.  No
\* sequence of commands removes the directory the user is in, or leaves a node
\* that no list holds.
TreeOK ==
  /\ TypeOK
  /\ ~exited =>
    /\ cwd \in live /\ isDirectory[cwd]
    /\ \A n \in live \ {Root} :
         /\ parent[n] \in live /\ isDirectory[parent[n]]
         /\ \A d \in live : Cardinality({i \in DOMAIN children[d] : children[d][i] = n})
                              = (IF d = parent[n] THEN 1 ELSE 0)
    /\ Root \in live /\ NoCycle
    /\ \A n \in live : ToSet(children[n]) \subseteq live

\* Entries of a directory have different names, but for files whose names were
\* cut to the same 49 characters.
NamesDiffer ==
  ~exited => \A n, m \in live \ {Root} :
    n # m /\ parent[n] = parent[m] /\ name[n] = name[m] => name[n] = CutName

Used == {f \in Files : block[f] # NoBlock}

\* No block is ever lost: it is free or belongs to a file.  df is exact up to
\* the number of overwrites: each one puts on the list of free blocks a block
\* that stays in use, and nothing ever corrects that.  Of the list structures,
\* exactly those that writes unlinked are still allocated at exit, where the
\* program prints "Memory released." (line 1000).
BlockAccounting ==
  /\ ~exited =>
       /\ Blocks = ToSet(freeBlocks) \cup {block[f] : f \in Used}
       /\ Len(freeBlocks) + Cardinality(Used) = NumBlocks + overwrites
  /\ allocated = Len(freeBlocks) + taken

\* As long as no file was overwritten, no two files share a block, no file has
\* a free one, and every file holds what was last written to it.
BlocksExclusive ==
  ~exited /\ overwrites = 0 =>
    /\ \A f, g \in Used : f # g => block[f] # block[g]
    /\ \A f \in Used : block[f] \notin ToSet(freeBlocks)
    /\ \A i, j \in DOMAIN freeBlocks : freeBlocks[i] = freeBlocks[j] => i = j
    /\ \A f \in Files : IF block[f] = NoBlock THEN written[f] = NoData
                                             ELSE disk[block[f]] = written[f]

(***************************************************************************)
(* A statement the program prints that does not hold.                      *)
(***************************************************************************)
\* "Data written successfully" (line 790): a file reads back as last written.
ReadsBack ==
  ~exited => \A f \in Used : disk[block[f]] = written[f]
=============================================================================
