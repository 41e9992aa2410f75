---------------------- MODULE VirtualFileSystem_proofs ----------------------
(***************************************************************************)
(* Theorems about the virtual file system, for every set of nodes, every   *)
(* number of blocks and every sequence of commands: the tree, the names in *)
(* a directory, and the blocks of the disk.                                *)
(***************************************************************************)
EXTENDS VirtualFileSystem, ProofLemmas

USE RootAssumption, BlocksAssumption, NamesAssumption, DataAssumption, MaxWritesAssumption

(***************************************************************************)
(* Searching the working directory.                                        *)
(***************************************************************************)
\* searchChild finds an entry with the name, or there is none.
LEMMA SearchFindsEntry ==
  ASSUME TypeOK, NEW x
  PROVE  /\ searchChild(x) # NoNode =>
              \E i \in DOMAIN Entries : Entries[i] = searchChild(x) /\ name[Entries[i]] = x
         /\ searchChild(x) = NoNode => \A i \in DOMAIN Entries : name[Entries[i]] # x
<1>1. Entries \in Seq(Nodes)
  BY DEF TypeOK, Entries
<1>2. CASE Found(x) = {}
  BY <1>2 DEF searchChild, Found
<1>3. CASE Found(x) # {}
  <2> DEFINE m == CHOOSE i \in Found(x) : \A j \in Found(x) : i <= j
  <2>1. Found(x) \subseteq Nat
    BY <1>1 DEF Found
  <2>2. m \in Found(x)
    BY <1>3, <2>1, LeastChosen
  <2>3. searchChild(x) = Entries[m]
    BY <1>3 DEF searchChild
  <2>4. m \in DOMAIN Entries /\ name[Entries[m]] = x
    BY <2>2 DEF Found
  <2>5. Entries[m] # NoNode
    BY <1>1, <2>4
  <2> QED
    BY <2>3, <2>4, <2>5
<1> QED
  BY <1>2, <1>3

\* changeDirectory leads to an entry that is a directory.
LEMMA ToChildFinds ==
  ASSUME TypeOK, NEW x, ToChild(x)
  PROVE  \E i \in DOMAIN Entries : cwd' = Entries[i] /\ isDirectory[Entries[i]]
<1> DEFINE hits == {i \in Found(x) : isDirectory[Entries[i]]}
           m == CHOOSE i \in hits : \A j \in hits : i <= j
<1>1. Entries \in Seq(Nodes)
  BY DEF TypeOK, Entries
<1>2. hits # {} /\ cwd' = Entries[m]
  BY DEF ToChild
<1>3. hits \subseteq Nat
  BY <1>1 DEF Found
<1>4. m \in hits
  BY <1>2, <1>3, LeastChosen
<1> QED
  BY <1>2, <1>4 DEF Found

(***************************************************************************)
(* Types.                                                                  *)
(***************************************************************************)
\* The structures that hold the tree keep their types when a node is inserted.
LEMMA InsertTypes ==
  ASSUME TypeOK, NEW n \in Nodes, NEW x \in Entry, NEW directory \in BOOLEAN,
         Insert(n, x, directory)
  PROVE  /\ live' \in SUBSET Nodes
         /\ name' \in [Nodes -> Entry]
         /\ parent' \in [Nodes -> Nodes \cup {NoNode}]
         /\ isDirectory' \in [Nodes -> BOOLEAN]
         /\ children' \in [Nodes -> Seq(Nodes)]
<1>1. Append(children[cwd], n) \in Seq(Nodes) /\ <<>> \in Seq(Nodes)
  BY DEF TypeOK
<1>2. children' \in [Nodes -> Seq(Nodes)]
  BY <1>1 DEF TypeOK, Insert
<1> QED
  BY <1>2 DEF TypeOK, Insert

\* They also keep them when an entry of the working directory is unlinked.
LEMMA UnlinkTypes ==
  ASSUME TypeOK, NEW n, Unlink(n)
  PROVE  /\ live' \in SUBSET Nodes
         /\ name' \in [Nodes -> Entry]
         /\ parent' \in [Nodes -> Nodes \cup {NoNode}]
         /\ isDirectory' \in [Nodes -> BOOLEAN]
         /\ children' \in [Nodes -> Seq(Nodes)]
<1>1. PICK i \in DOMAIN Entries :
        Entries[i] = n /\ children' = [children EXCEPT ![cwd] = RemoveAt(@, i)]
  BY DEF Unlink
<1>2. Entries \in Seq(Nodes) /\ children[cwd] = Entries
  BY DEF TypeOK, Entries
<1>3. RemoveAt(Entries, i) \in Seq(Nodes)
  BY <1>2, RemoveAtFacts
<1>4. children' \in [Nodes -> Seq(Nodes)]
  BY <1>1, <1>2, <1>3 DEF TypeOK
<1> QED
  BY <1>4 DEF TypeOK, Unlink

\* Giving a file's block back keeps the types of the storage.
LEMMA FreeTypes ==
  ASSUME TypeOK, NEW f \in Nodes
  PROVE  /\ FreedList(f) \in Seq(Blocks)
         /\ FreedDisk(f) \in [Blocks -> Data \cup {NoData}]
         /\ NewNodes(f) \in {0, 1}
         /\ [block EXCEPT ![f] = NoBlock] \in [Nodes -> Blocks \cup {NoBlock}]
  BY DEF TypeOK, FreedList, FreedDisk, NewNodes

(***************************************************************************)
(* The inductive invariant.                                                *)
(***************************************************************************)
\* Every write over a block and every write to a new block is a write; the list
\* structures are those on the list and those that writes unlinked.
Counted ==
  /\ IsFiniteSet(live)
  /\ overwrites + taken <= writes
  /\ allocated = Len(freeBlocks) + taken

\* The working directory, the lists of children and the parents agree.
Tree ==
  ~exited =>
    /\ Root \in live /\ parent[Root] = NoNode
    /\ cwd \in live /\ isDirectory[cwd]
    /\ \A n \in live \ {Root} :
         /\ parent[n] \in live /\ isDirectory[parent[n]]
         /\ \E i \in DOMAIN children[parent[n]] : children[parent[n]][i] = n
    /\ \A d \in live : \A i \in DOMAIN children[d] :
         children[d][i] \in live \ {Root} /\ parent[children[d][i]] = d
    /\ \A d \in live : \A i, j \in DOMAIN children[d] :
         children[d][i] = children[d][j] => i = j
    /\ NoCycle

\* Only files have a block and a content; the blocks are free or used, and their
\* number is exact up to the overwrites.
Accounted ==
  ~exited =>
    /\ \A n \in Nodes \ Files : block[n] = NoBlock /\ written[n] = NoData
    /\ Blocks = ToSet(freeBlocks) \cup {block[f] : f \in Used}
    /\ Len(freeBlocks) + Cardinality(Used) = NumBlocks + overwrites

IInv == TypeOK /\ Counted /\ Tree /\ NamesDiffer /\ Accounted /\ BlocksExclusive

\* The initial states have the types and the counts.
LEMMA InitTypes == Init => TypeOK /\ Counted
<1> SUFFICES ASSUME Init PROVE TypeOK /\ Counted
  OBVIOUS
<1>1. freeBlocks \in Seq(Blocks) /\ Len(freeBlocks) = NumBlocks
  BY DEF Init, Blocks
<1>2. IsFiniteSet(live)
  BY FS_Singleton DEF Init
<1>3. /\ live \in SUBSET Nodes
      /\ name \in [Nodes -> Entry]
      /\ parent \in [Nodes -> Nodes \cup {NoNode}]
      /\ isDirectory \in [Nodes -> BOOLEAN]
      /\ children \in [Nodes -> Seq(Nodes)]
      /\ cwd \in Nodes
  BY DEF Init, Entry
<1>4. /\ block \in [Nodes -> Blocks \cup {NoBlock}]
      /\ disk \in [Blocks -> Data \cup {NoData}]
      /\ written \in [Nodes -> Data \cup {NoData}]
  BY DEF Init
<1>5. /\ exited = FALSE /\ writes = 0 /\ overwrites = 0 /\ taken = 0 /\ allocated = NumBlocks
      /\ 0 \in 0 .. MaxWrites
  BY DEF Init
<1>6. Counted
  BY <1>1, <1>2, <1>5 DEF Counted
<1> QED
  BY <1>1, <1>3, <1>4, <1>5, <1>6 DEF TypeOK

\* A block given back takes a list structure.
LEMMA FreeCounts ==
  ASSUME TypeOK, Counted, NEW f \in Nodes,
         freeBlocks' = FreedList(f), allocated' = allocated + NewNodes(f), taken' = taken
  PROVE  allocated' \in Nat /\ allocated' = Len(freeBlocks') + taken'
<1>1. Len(freeBlocks') = Len(freeBlocks) + NewNodes(f)
  BY DEF FreedList, NewNodes, TypeOK
<1>2. NewNodes(f) \in Nat
  BY DEF NewNodes
<1>3. Len(freeBlocks) \in Nat /\ allocated \in Nat /\ taken \in Nat
  BY DEF TypeOK
<1>4. allocated = Len(freeBlocks) + taken
  BY DEF Counted
<1> QED
  BY <1>1, <1>2, <1>3, <1>4

\* Every command keeps the types and the counts.
LEMMA NextTypes ==
  ASSUME TypeOK, Counted, [Next]_vars
  PROVE  TypeOK' /\ Counted'
<1>1. ASSUME NEW n \in Nodes, NEW x \in Names, makeDirectory(n, x)
      PROVE  TypeOK' /\ Counted'
  <2>1. Insert(n, x, TRUE) /\ x \in Entry
    BY <1>1 DEF makeDirectory, Entry
  <2>2. IsFiniteSet(live')
    BY <2>1, FS_AddElement DEF Insert, Counted
  <2> QED
    BY <1>1, <2>1, <2>2, InsertTypes DEF TypeOK, Counted, makeDirectory, storage, history
<1>2. ASSUME NEW n \in Nodes, NEW x \in Names, createFile(n, x)
      PROVE  TypeOK' /\ Counted'
  <2>1. Insert(n, Stored(x), FALSE) /\ Stored(x) \in Entry
    BY <1>2 DEF createFile, Entry, Stored
  <2>2. IsFiniteSet(live')
    BY <2>1, FS_AddElement DEF Insert, Counted
  <2> QED
    BY <1>2, <2>1, <2>2, InsertTypes DEF TypeOK, Counted, createFile, storage, history
<1>3. ASSUME NEW x \in Names \cup {DotDot}, changeDirectory(x)
      PROVE  TypeOK' /\ Counted'
  <2>1. UNCHANGED <<tree, storage, exited, history>>
    BY <1>3 DEF changeDirectory
  <2>2. CASE x = DotDot
    BY <1>3, <2>1, <2>2 DEF changeDirectory, ToParent, TypeOK, Counted, tree, storage, history
  <2>3. CASE x # DotDot
    <3>1. PICK i \in DOMAIN Entries : cwd' = Entries[i]
      BY <1>3, <2>3, ToChildFinds DEF changeDirectory
    <3>2. cwd' \in Nodes
      BY <3>1 DEF TypeOK, Entries
    <3> QED
      BY <2>1, <3>2 DEF TypeOK, Counted, tree, storage, history
  <2> QED
    BY <2>2, <2>3
<1>4. ASSUME NEW f \in Nodes, NEW x \in Names, writeNothing(f, x)
      PROVE  TypeOK' /\ Counted'
  <2>2. /\ freeBlocks' \in Seq(Blocks)
        /\ disk' \in [Blocks -> Data \cup {NoData}]
        /\ block' \in [Nodes -> Blocks \cup {NoBlock}]
    BY <1>4, FreeTypes DEF writeNothing, freeFileBlocks
  <2>3. allocated' \in Nat /\ Counted'
    BY <1>4, FreeCounts DEF writeNothing, WriteTo, freeFileBlocks, TypeOK, Counted, tree
  <2>4. writes' \in 0 .. MaxWrites /\ written' \in [Nodes -> Data \cup {NoData}]
    BY <1>4 DEF writeNothing, WriteTo, TypeOK
  <2> QED
    BY <1>4, <2>2, <2>3, <2>4 DEF writeNothing, WriteTo, TypeOK, tree
<1>5. ASSUME NEW f \in Nodes, NEW x \in Names, NEW d \in Data, writeNew(f, x, d)
      PROVE  TypeOK' /\ Counted'
  <2>1. /\ Head(freeBlocks) \in Blocks /\ Tail(freeBlocks) \in Seq(Blocks)
        /\ Len(Tail(freeBlocks)) = Len(freeBlocks) - 1
    BY <1>5 DEF writeNew, TypeOK
  <2> QED
    BY <1>5, <2>1 DEF writeNew, WriteTo, TypeOK, Counted, tree
<1>6. ASSUME NEW f \in Nodes, NEW x \in Names, NEW d \in Data, writeOver(f, x, d)
      PROVE  TypeOK' /\ Counted'
  <2>2. [FreedDisk(f) EXCEPT ![block[f]] = d] \in [Blocks -> Data \cup {NoData}]
    BY FreeTypes
  <2>3. freeBlocks' \in Seq(Blocks) /\ disk' \in [Blocks -> Data \cup {NoData}]
    BY <1>6, <2>2, FreeTypes DEF writeOver
  <2>4. overwrites' \in 0 .. MaxWrites /\ overwrites' + taken' <= writes'
    BY <1>6 DEF writeOver, WriteTo, TypeOK, Counted
  <2>5. allocated' \in Nat /\ Counted'
    BY <1>6, <2>4, FreeCounts DEF writeOver, WriteTo, Counted, tree
  <2> QED
    BY <1>6, <2>3, <2>4, <2>5 DEF writeOver, WriteTo, TypeOK, tree
<1>7. ASSUME NEW f \in Nodes, NEW x \in Names, deleteFile(f, x)
      PROVE  TypeOK' /\ Counted'
  <2>2. IsFiniteSet(live') /\ Unlink(f)
    BY <1>7, FS_RemoveElement DEF deleteFile, Unlink, Counted
  <2>3. /\ freeBlocks' \in Seq(Blocks)
        /\ disk' \in [Blocks -> Data \cup {NoData}]
        /\ block' \in [Nodes -> Blocks \cup {NoBlock}]
    BY <1>7, FreeTypes DEF deleteFile, freeFileBlocks
  <2>4. allocated' \in Nat /\ Counted'
    BY <1>7, <2>2, FreeCounts DEF deleteFile, freeFileBlocks, Counted
  <2> QED
    BY <1>7, <2>2, <2>3, <2>4, UnlinkTypes DEF deleteFile, TypeOK
<1>8. ASSUME NEW d \in Nodes, NEW x \in Names, removeDirectory(d, x)
      PROVE  TypeOK' /\ Counted'
  <2>1. IsFiniteSet(live') /\ Unlink(d)
    BY <1>8, FS_RemoveElement DEF removeDirectory, Unlink, Counted
  <2> QED
    BY <1>8, <2>1, UnlinkTypes DEF removeDirectory, TypeOK, Counted, storage, history
<1>9. CASE exitFileSystem
  <2> DEFINE files == {f \in live : block[f] # NoBlock}
             c == Cardinality(files)
  <2>1. files \in SUBSET live
    OBVIOUS
  <2>2. c \in Nat
    BY <2>1, FS_Subset, FS_CardinalityType DEF Counted
  <2>3. allocated' = allocated + c - (Len(freeBlocks) + c) /\ freeBlocks' = <<>> /\ taken' = taken
    BY <1>9 DEF exitFileSystem, history
  <2> HIDE DEF c
  <2>4. Len(freeBlocks) \in Nat /\ allocated \in Nat /\ taken \in Nat
    BY DEF TypeOK
  <2>5. allocated' = Len(freeBlocks') + taken' /\ allocated' \in Nat
    BY <2>2, <2>3, <2>4 DEF Counted
  <2>6. IsFiniteSet(live')
    BY <1>9, FS_EmptySet DEF exitFileSystem
  <2>7. disk' \in [Blocks -> Data \cup {NoData}]
    BY <1>9 DEF exitFileSystem, TypeOK
  <2>8. /\ live' = {} /\ freeBlocks' \in Seq(Blocks) /\ exited' = TRUE
        /\ block' \in [Nodes -> Blocks \cup {NoBlock}]
    BY <1>9 DEF exitFileSystem
  <2> QED
    BY <1>9, <2>5, <2>6, <2>7, <2>8 DEF exitFileSystem, TypeOK, Counted, history
<1>10. CASE UNCHANGED vars
  BY <1>10 DEF vars, tree, storage, history, TypeOK, Counted
<1> QED
  BY <1>1, <1>2, <1>3, <1>4, <1>5, <1>6, <1>7, <1>8, <1>9, <1>10 DEF Next, Command

(***************************************************************************)
(* The tree.                                                               *)
(***************************************************************************)
\* A new node in the working directory keeps the tree a tree.
LEMMA InsertTree ==
  ASSUME TypeOK, Tree, ~exited, NEW n \in Nodes, NEW x, NEW directory \in BOOLEAN,
         Insert(n, x, directory), cwd' = cwd
  PROVE  Tree'
<1>1. /\ Root \in live /\ parent[Root] = NoNode /\ cwd \in live /\ isDirectory[cwd]
      /\ n \notin live /\ n # cwd /\ n # Root /\ live' = live \cup {n}
  BY DEF Tree, Insert
<1>2. /\ \A m \in live : parent'[m] = parent[m] /\ isDirectory'[m] = isDirectory[m]
      /\ parent'[n] = cwd /\ isDirectory'[n] = directory
  BY <1>1 DEF Insert, TypeOK
<1>3. /\ \A d \in live \ {cwd} : children'[d] = children[d]
      /\ children'[cwd] = Append(children[cwd], n)
      /\ children'[n] = <<>>
  BY <1>1 DEF Insert, TypeOK
<1>4. /\ \A d \in live : children[d] \in Seq(Nodes)
      /\ children'[cwd] \in Seq(Nodes)
      /\ Len(children'[cwd]) = Len(children[cwd]) + 1
      /\ \A i \in 1 .. Len(children[cwd]) : children'[cwd][i] = children[cwd][i]
      /\ children'[cwd][Len(children[cwd]) + 1] = n
      /\ DOMAIN children'[n] = {}
  <2>1. /\ \A d \in live : children[d] \in Seq(Nodes)
        /\ cwd \in live /\ n \in Nodes
    BY <1>1 DEF TypeOK
  <2>2. DOMAIN children'[n] = {}
    BY ONLY <1>3
  <2> QED
    BY ONLY <1>3, <2>1, <2>2, AppendProperties
<1>5. \A d \in live : \A i \in DOMAIN children[d] :
        i \in DOMAIN children'[d] /\ children'[d][i] = children[d][i]
  <2> SUFFICES ASSUME NEW d \in live, NEW i \in DOMAIN children[d]
               PROVE  i \in DOMAIN children'[d] /\ children'[d][i] = children[d][i]
    OBVIOUS
  <2>1. CASE d # cwd
    BY <1>3, <2>1
  <2>2. CASE d = cwd
    <3>1. Len(children[cwd]) \in Nat /\ i \in 1 .. Len(children[cwd])
      BY <1>4, <2>2
    <3>2. DOMAIN children'[cwd] = 1 .. Len(children[cwd]) + 1
      BY ONLY <1>4
    <3>3. i \in 1 .. Len(children[cwd]) + 1
      BY ONLY <3>1
    <3> QED
      BY <1>4, <2>2, <3>1, <3>2, <3>3
  <2> QED
    BY <2>1, <2>2
<1>6. \A m \in live \ {Root} :
        /\ parent[m] \in live /\ isDirectory[parent[m]]
        /\ \E i \in DOMAIN children[parent[m]] : children[parent[m]][i] = m
  BY DEF Tree
<1>7. ASSUME NEW m \in live' \ {Root}
      PROVE  /\ parent'[m] \in live' /\ isDirectory'[parent'[m]]
             /\ \E i \in DOMAIN children'[parent'[m]] : children'[parent'[m]][i] = m
  <2>1. CASE m = n
    <3>1. Len(children[cwd]) + 1 \in DOMAIN children'[cwd]
      BY <1>1, <1>4
    <3> QED
      BY <1>1, <1>2, <1>4, <2>1, <3>1
  <2>2. CASE m # n
    BY <1>1, <1>2, <1>5, <1>6, <2>2
  <2> QED
    BY <2>1, <2>2
<1>8. \A d \in live : \A i \in DOMAIN children[d] :
        children[d][i] \in live \ {Root} /\ parent[children[d][i]] = d
  BY DEF Tree
<1>9. ASSUME NEW d \in live', NEW i \in DOMAIN children'[d]
      PROVE  /\ children'[d][i] \in live' \ {Root} /\ parent'[children'[d][i]] = d
             /\ i \in DOMAIN children[d] \/ (d = cwd /\ i = Len(children[cwd]) + 1)
             /\ i \in DOMAIN children[d] => children'[d][i] = children[d][i] /\ d \in live
  <2>1. d # n
    BY <1>4
  <2>2. CASE d = cwd
    <3>1. i \in 1 .. Len(children[cwd]) + 1 /\ DOMAIN children[cwd] = 1 .. Len(children[cwd])
      BY <1>1, <1>4, <2>2
    <3>2. CASE i = Len(children[cwd]) + 1
      BY <1>1, <1>2, <1>4, <2>2, <3>1, <3>2
    <3>3. CASE i # Len(children[cwd]) + 1
      <4>1. i \in DOMAIN children[cwd]
        BY <1>1, <1>4, <3>1, <3>3
      <4> QED
        BY <1>1, <1>2, <1>5, <1>8, <2>2, <4>1
    <3> QED
      BY <3>2, <3>3
  <2>3. CASE d # cwd
    <3>1. d \in live /\ children'[d] = children[d]
      BY <1>1, <1>3, <2>1, <2>3
    <3> QED
      BY <1>1, <1>2, <1>8, <3>1
  <2> QED
    BY <2>2, <2>3
<1>10. ASSUME NEW d \in live', NEW i \in DOMAIN children'[d], NEW j \in DOMAIN children'[d],
              children'[d][i] = children'[d][j]
       PROVE  i = j
  <2>1. \A a, b \in DOMAIN children[d] :
          d \in live /\ children[d][a] = children[d][b] => a = b
    BY DEF Tree
  <2>2. CASE i \in DOMAIN children[d] /\ j \in DOMAIN children[d]
    BY <1>9, <1>10, <2>1, <2>2
  <2>3. CASE i \in DOMAIN children[d] /\ j \notin DOMAIN children[d]
    BY <1>1, <1>4, <1>8, <1>9, <1>10, <2>3
  <2>4. CASE i \notin DOMAIN children[d] /\ j \in DOMAIN children[d]
    BY <1>1, <1>4, <1>8, <1>9, <1>10, <2>4
  <2>5. CASE i \notin DOMAIN children[d] /\ j \notin DOMAIN children[d]
    BY <1>9, <2>5
  <2> QED
    BY <2>2, <2>3, <2>4, <2>5
<1>11. ASSUME NEW S \in SUBSET (live' \ {Root}), S # {}
       PROVE  \E m \in S : parent'[m] \notin S
  <2>1. CASE S \ {n} = {}
    BY <1>1, <1>2, <1>11, <2>1
  <2>2. CASE S \ {n} # {}
    <3>1. S \ {n} \in SUBSET (live \ {Root})
      BY <1>1
    <3>2. PICK m \in S \ {n} : parent[m] \notin S \ {n}
      BY <2>2, <3>1 DEF Tree, NoCycle
    <3>3. m \in live /\ parent[m] \in live /\ parent[m] # n
      BY <1>1, <1>6, <3>1, <3>2
    <3> QED
      BY <1>2, <3>2, <3>3
  <2> QED
    BY <2>1, <2>2
<1>12. NoCycle'
  BY <1>11 DEF NoCycle
<1>13. Root \in live' /\ parent'[Root] = NoNode /\ cwd' \in live' /\ isDirectory'[cwd']
  BY <1>1, <1>2
<1>14. \A d \in live' : \A i \in DOMAIN children'[d] :
         children'[d][i] \in live' \ {Root} /\ parent'[children'[d][i]] = d
  BY <1>9
<1>15. \A d \in live' : \A i, j \in DOMAIN children'[d] :
         children'[d][i] = children'[d][j] => i = j
  BY <1>10
<1> QED
  BY <1>7, <1>12, <1>13, <1>14, <1>15 DEF Tree

\* Removing a file or an empty directory from the working directory keeps the
\* tree a tree; the directory the user is in cannot be removed.
LEMMA UnlinkTree ==
  ASSUME TypeOK, Tree, ~exited, NEW n \in Nodes, Unlink(n),
         ~isDirectory[n] \/ children[n] = <<>>, cwd' = cwd
  PROVE  Tree' /\ n \in live
<1> DEFINE last == Len(children[cwd])
<1>1. PICK at \in DOMAIN children[cwd] :
        children[cwd][at] = n /\ children' = [children EXCEPT ![cwd] = RemoveAt(@, at)]
  BY DEF Unlink, Entries
<1>2. \A m \in live \ {Root} :
        /\ parent[m] \in live /\ isDirectory[parent[m]]
        /\ \E i \in DOMAIN children[parent[m]] : children[parent[m]][i] = m
  BY DEF Tree
<1>3. \A d \in live : \A i \in DOMAIN children[d] :
        children[d][i] \in live \ {Root} /\ parent[children[d][i]] = d
  BY DEF Tree
<1>4. \A d \in live : \A i, j \in DOMAIN children[d] : children[d][i] = children[d][j] => i = j
  BY DEF Tree
<1>5. /\ Root \in live /\ parent[Root] = NoNode /\ cwd \in live /\ isDirectory[cwd]
      /\ n \in live \ {Root} /\ parent[n] = cwd
      /\ live' = live \ {n} /\ UNCHANGED <<name, parent, isDirectory>>
  BY <1>1, <1>3 DEF Tree, Unlink
<1>6. n # cwd
  <2>1. {n} \in SUBSET (live \ {Root}) /\ {n} # {}
    BY <1>5
  <2>2. parent[n] \notin {n}
    BY <2>1 DEF Tree, NoCycle
  <2> QED
    BY <1>5, <2>2
<1>7. /\ \A d \in live : children[d] \in Seq(Nodes)
      /\ \A d \in live \ {cwd} : children'[d] = children[d]
      /\ children'[cwd] = RemoveAt(children[cwd], at)
      /\ last \in Nat /\ at \in 1 .. last /\ DOMAIN children[cwd] = 1 .. last
  <2>1. /\ \A d \in live : children[d] \in Seq(Nodes)
        /\ DOMAIN children = Nodes /\ cwd \in live /\ cwd \in Nodes
    BY <1>5 DEF TypeOK
  <2>2. last \in Nat /\ DOMAIN children[cwd] = 1 .. last
    BY ONLY <2>1
  <2>3. at \in 1 .. last
    BY ONLY <1>1, <2>2
  <2>4. /\ \A d \in live \ {cwd} : children'[d] = children[d]
        /\ children'[cwd] = RemoveAt(children[cwd], at)
    BY ONLY <1>1, <2>1
  <2> QED
    BY ONLY <2>1, <2>2, <2>3, <2>4
<1>8. /\ children'[cwd] \in Seq(Nodes)
      /\ Len(children'[cwd]) = last - 1
      /\ \A k \in 1 .. last - 1 :
           children'[cwd][k] = (IF k < at THEN children[cwd][k] ELSE children[cwd][k + 1])
  <2> DEFINE s == children[cwd]
  <2>1. s \in Seq(Nodes) /\ at \in DOMAIN s /\ last = Len(s) /\ children'[cwd] = RemoveAt(s, at)
    BY <1>5, <1>7
  <2> HIDE DEF s, last
  <2>2. /\ RemoveAt(s, at) \in Seq(Nodes) /\ Len(RemoveAt(s, at)) = Len(s) - 1
        /\ \A k \in 1 .. Len(s) - 1 : RemoveAt(s, at)[k] = (IF k < at THEN s[k] ELSE s[k + 1])
    BY ONLY <2>1, RemoveAtFacts
  <2> QED
    BY <2>1, <2>2 DEF s
<1>9. DOMAIN children'[cwd] = 1 .. last - 1
  BY <1>7, <1>8
<1> HIDE DEF last
<1> DEFINE Old(k) == IF k < at THEN k ELSE k + 1
<1>10. \A k \in 1 .. last - 1 :
         Old(k) \in 1 .. last /\ Old(k) # at /\ children'[cwd][k] = children[cwd][Old(k)]
  BY <1>7, <1>8
<1>11. \A i, j \in 1 .. last - 1 : Old(i) = Old(j) => i = j
  BY <1>7
<1>12. \A i \in 1 .. last : i # at => \E k \in 1 .. last - 1 : children'[cwd][k] = children[cwd][i]
  <2> SUFFICES ASSUME NEW i \in 1 .. last, i # at
               PROVE  \E k \in 1 .. last - 1 : children'[cwd][k] = children[cwd][i]
    OBVIOUS
  <2>1. CASE i < at
    <3>1. i \in 1 .. last - 1
      BY <1>7, <2>1
    <3> QED
      BY <1>8, <2>1, <3>1
  <2>2. CASE ~(i < at)
    <3>1. i - 1 \in 1 .. last - 1 /\ ~(i - 1 < at) /\ (i - 1) + 1 = i
      BY <1>7, <2>2
    <3> QED
      BY <1>8, <3>1
  <2> QED
    BY <2>1, <2>2
<1> HIDE DEF Old
<1>13. ASSUME NEW m \in live' \ {Root}
       PROVE  /\ parent'[m] \in live' /\ isDirectory'[parent'[m]]
              /\ \E i \in DOMAIN children'[parent'[m]] : children'[parent'[m]][i] = m
  <2>1. /\ m \in live \ {Root} /\ m # n /\ parent[m] \in live /\ isDirectory[parent[m]]
        /\ parent'[m] = parent[m] /\ isDirectory' = isDirectory
    BY <1>2, <1>5
  <2>2. PICK i \in DOMAIN children[parent[m]] : children[parent[m]][i] = m
    BY <1>2, <2>1
  <2>3. parent[m] # n
    BY <2>1, <2>2
  <2>4. CASE parent[m] = cwd
    <3>1. i \in 1 .. last /\ i # at /\ children[cwd][i] = m
      BY <1>1, <1>7, <2>1, <2>2, <2>4
    <3>2. PICK k \in 1 .. last - 1 : children'[cwd][k] = m
      BY <1>12, <3>1
    <3> QED
      BY <1>5, <1>9, <2>1, <2>3, <2>4, <3>2
  <2>5. CASE parent[m] # cwd
    BY <1>5, <1>7, <2>1, <2>2, <2>3, <2>5
  <2> QED
    BY <2>4, <2>5
<1>14. ASSUME NEW d \in live', NEW i \in DOMAIN children'[d]
       PROVE  children'[d][i] \in live' \ {Root} /\ parent'[children'[d][i]] = d
  <2>1. CASE d = cwd
    <3>1. /\ Old(i) \in DOMAIN children[cwd] /\ Old(i) # at
          /\ children'[cwd][i] = children[cwd][Old(i)]
      BY <1>7, <1>9, <1>10, <2>1
    <3>2. children[cwd][Old(i)] # n
      BY <1>1, <1>4, <1>5, <3>1
    <3> QED
      BY <1>3, <1>5, <2>1, <3>1, <3>2
  <2>2. CASE d # cwd
    <3>1. d \in live /\ children'[d] = children[d]
      BY <1>5, <1>7, <2>2
    <3> QED
      BY <1>3, <1>5, <2>2, <3>1
  <2> QED
    BY <2>1, <2>2
<1>15. ASSUME NEW d \in live', NEW i \in DOMAIN children'[d], NEW j \in DOMAIN children'[d],
              children'[d][i] = children'[d][j]
       PROVE  i = j
  <2>1. CASE d = cwd
    <3>1. /\ i \in 1 .. last - 1 /\ j \in 1 .. last - 1
          /\ Old(i) \in DOMAIN children[cwd] /\ Old(j) \in DOMAIN children[cwd]
          /\ children[cwd][Old(i)] = children[cwd][Old(j)]
      BY <1>7, <1>9, <1>10, <1>15, <2>1
    <3>2. Old(i) = Old(j)
      BY <1>4, <1>5, <3>1
    <3> QED
      BY <1>11, <3>1, <3>2
  <2>2. CASE d # cwd
    BY <1>4, <1>5, <1>7, <1>15, <2>2
  <2> QED
    BY <2>1, <2>2
<1>16. NoCycle'
  BY <1>5 DEF Tree, NoCycle
<1>17. Root \in live' /\ parent'[Root] = NoNode /\ cwd' \in live' /\ isDirectory'[cwd']
  BY <1>5, <1>6
<1>18. Tree'
  <2>1. \A d \in live' : \A i \in DOMAIN children'[d] :
          children'[d][i] \in live' \ {Root} /\ parent'[children'[d][i]] = d
    BY <1>14
  <2>2. \A d \in live' : \A i, j \in DOMAIN children'[d] :
          children'[d][i] = children'[d][j] => i = j
    BY <1>15
  <2> QED
    BY <1>13, <1>16, <1>17, <2>1, <2>2 DEF Tree
<1> QED
  BY <1>5, <1>18

\* Going to the parent or to a directory of the list keeps the tree a tree.
LEMMA ChangeTree ==
  ASSUME TypeOK, Tree, NEW x, changeDirectory(x)
  PROVE  Tree'
<1>1. ~exited /\ UNCHANGED <<tree, exited>>
  BY DEF changeDirectory
<1>2. cwd' \in live /\ isDirectory[cwd']
  <2>1. CASE x = DotDot
    <3>1. ToParent
      BY <2>1 DEF changeDirectory
    <3>2. cwd \in live \ {Root} /\ cwd' = parent[cwd]
      BY <1>1, <3>1 DEF ToParent, Tree
    <3> QED
      BY <1>1, <3>2 DEF Tree
  <2>2. CASE x # DotDot
    <3>1. ToChild(x)
      BY <2>2 DEF changeDirectory
    <3>2. PICK i \in DOMAIN children[cwd] : cwd' = children[cwd][i] /\ isDirectory[children[cwd][i]]
      BY <3>1, ToChildFinds DEF Entries
    <3> QED
      BY <1>1, <3>2 DEF Tree
  <2> QED
    BY <2>1, <2>2
<1> QED
  BY <1>1, <1>2 DEF Tree, tree, NoCycle

(***************************************************************************)
(* The names.                                                              *)
(***************************************************************************)
\* A new node keeps the names of a directory different, if no entry of the
\* working directory had its name or the name is a cut one.
LEMMA InsertNames ==
  ASSUME TypeOK, Tree, NamesDiffer, ~exited, exited' = exited,
         NEW n \in Nodes, NEW x, NEW directory, Insert(n, x, directory),
         x = CutName \/ \A i \in DOMAIN Entries : name[Entries[i]] # x
  PROVE  NamesDiffer'
<1>1. n \notin live /\ live' = live \cup {n} /\ name'[n] = x /\ parent'[n] = cwd
  BY DEF Insert, TypeOK
<1>2. \A m \in live : m # n /\ name'[m] = name[m] /\ parent'[m] = parent[m]
  BY <1>1 DEF Insert, TypeOK
<1>3. ASSUME NEW m \in live \ {Root}, parent[m] = cwd, name[m] = x PROVE x = CutName
  <2>1. \E i \in DOMAIN children[cwd] : children[cwd][i] = m
    BY <1>3 DEF Tree
  <2> QED
    BY <1>3, <2>1 DEF Entries
<1>4. ASSUME NEW a \in live' \ {Root}, NEW b \in live' \ {Root},
             a # b, parent'[a] = parent'[b], name'[a] = name'[b]
      PROVE  name'[a] = CutName
  <2>1. CASE a = n
    BY <1>1, <1>2, <1>3, <1>4, <2>1
  <2>2. CASE b = n
    BY <1>1, <1>2, <1>3, <1>4, <2>2
  <2>3. CASE a # n /\ b # n
    BY <1>1, <1>2, <1>4, <2>3 DEF NamesDiffer
  <2> QED
    BY <2>1, <2>2, <2>3
<1> QED
  BY <1>4 DEF NamesDiffer

(***************************************************************************)
(* The blocks.                                                             *)
(***************************************************************************)
\* Nothing happens to the blocks when a node without one comes or goes.
LEMMA SameStorage ==
  ASSUME TypeOK, Accounted, BlocksExclusive, ~exited, exited' = exited,
         UNCHANGED <<block, freeBlocks, disk, overwrites>>,
         \A f \in Files : f \in Files' /\ written'[f] = written[f],
         \A n \in Nodes \ Files' : block[n] = NoBlock /\ written'[n] = NoData,
         \A n \in Files' \ Files : block[n] = NoBlock /\ written'[n] = NoData
  PROVE  Accounted' /\ BlocksExclusive'
<1>1. Used' = Used
  BY DEF Used
<1>2. Accounted'
  BY <1>1 DEF Accounted
<1>3. BlocksExclusive'
  BY <1>1 DEF BlocksExclusive
<1> QED
  BY <1>2, <1>3

\* The number of blocks in use is a natural number.
LEMMA UsedFinite ==
  ASSUME Counted
  PROVE  IsFiniteSet(Used) /\ Cardinality(Used) \in Nat
<1>1. Used \in SUBSET live
  BY DEF Used, Files
<1> QED
  BY <1>1, FS_Subset, FS_CardinalityType DEF Counted

\* Giving a file's block back, with or without the file itself.
LEMMA FreeStorage ==
  ASSUME TypeOK, Counted, Accounted, BlocksExclusive, ~exited, exited' = exited,
         NEW f \in Files, freeFileBlocks(f), overwrites' = overwrites,
         written' = [written EXCEPT ![f] = NoData],
         Files' = Files \/ Files' = Files \ {f}
  PROVE  Accounted' /\ BlocksExclusive'
<1>1. /\ f \in Nodes /\ Files \subseteq Nodes
      /\ block'[f] = NoBlock /\ written'[f] = NoData
      /\ \A g \in Nodes \ {f} : block'[g] = block[g] /\ written'[g] = written[g]
      /\ freeBlocks' = FreedList(f) /\ disk' = FreedDisk(f)
  BY DEF freeFileBlocks, Files, TypeOK
<1>2. Used' = Used \ {f} /\ Used \subseteq Files
  BY <1>1 DEF Used
<1>3. IsFiniteSet(Used) /\ Cardinality(Used) \in Nat
  BY UsedFinite
<1>4. \A n \in Nodes \ Files' : block'[n] = NoBlock /\ written'[n] = NoData
  BY <1>1 DEF Accounted
<1>5. CASE block[f] = NoBlock
  <2>1. freeBlocks' = freeBlocks /\ disk' = disk /\ f \notin Used
    BY <1>1, <1>5 DEF FreedList, FreedDisk, Used
  <2>2. Used' = Used /\ {block'[g] : g \in Used'} = {block[g] : g \in Used}
    BY <1>1, <1>2, <2>1
  <2>3. Accounted'
    BY <1>4, <2>1, <2>2 DEF Accounted
  <2>4. BlocksExclusive'
    <3> SUFFICES ASSUME overwrites = 0 PROVE BlocksExclusive'
      BY DEF BlocksExclusive
    <3>1. \A g, h \in Used' : g # h => block'[g] # block'[h]
      BY <1>1, <1>2, <2>2, <2>1 DEF BlocksExclusive
    <3>2. \A g \in Used' : block'[g] \notin ToSet(freeBlocks')
      BY <1>1, <1>2, <2>2, <2>1 DEF BlocksExclusive
    <3>3. \A a, b \in DOMAIN freeBlocks' : freeBlocks'[a] = freeBlocks'[b] => a = b
      BY <2>1 DEF BlocksExclusive
    <3>4. \A g \in Files' : IF block'[g] = NoBlock THEN written'[g] = NoData
                                                 ELSE disk'[block'[g]] = written'[g]
      BY <1>1, <2>1 DEF BlocksExclusive
    <3> QED
      BY <3>1, <3>2, <3>3, <3>4 DEF BlocksExclusive
  <2> QED
    BY <2>3, <2>4
<1>6. CASE block[f] # NoBlock
  <2> DEFINE b == block[f]
  <2>1. /\ b \in Blocks /\ f \in Used /\ freeBlocks \in Seq(Blocks)
        /\ freeBlocks' = Append(freeBlocks, b) /\ disk' = [disk EXCEPT ![b] = NoData]
    BY <1>1, <1>6 DEF FreedList, FreedDisk, Used, TypeOK
  <2>2. /\ ToSet(freeBlocks') = ToSet(freeBlocks) \cup {b}
        /\ Len(freeBlocks') = Len(freeBlocks) + 1 /\ Len(freeBlocks) \in Nat
    BY <2>1, AppendMembers
  <2>3. Cardinality(Used') = Cardinality(Used) - 1
    BY <1>2, <1>3, <2>1, FS_RemoveElement
  <2>4. \A g \in Used' : g \in Nodes /\ g # f /\ block'[g] = block[g]
    BY <1>1, <1>2
  <2>5. Blocks = ToSet(freeBlocks') \cup {block'[g] : g \in Used'}
    <3>1. Blocks = ToSet(freeBlocks) \cup {block[g] : g \in Used}
      BY DEF Accounted
    <3>2. \A c \in Blocks : c \in ToSet(freeBlocks') \cup {block'[g] : g \in Used'}
      BY <1>2, <2>2, <2>4, <3>1
    <3>3. \A c \in ToSet(freeBlocks') \cup {block'[g] : g \in Used'} : c \in Blocks
      BY <1>2, <2>1, <2>2, <2>4, <3>1
    <3> QED
      BY <3>2, <3>3
  <2>6. Len(freeBlocks') + Cardinality(Used') = NumBlocks + overwrites'
    <3>1. Len(freeBlocks) + Cardinality(Used) = NumBlocks + overwrites
      BY DEF Accounted
    <3> QED
      BY <1>3, <2>2, <2>3, <3>1
  <2>7. Accounted'
    BY <1>4, <2>5, <2>6 DEF Accounted
  <2>8. BlocksExclusive'
    <3> SUFFICES ASSUME overwrites = 0 PROVE BlocksExclusive'
      BY DEF BlocksExclusive
    <3>1. \A g, h \in Used' : g # h => block'[g] # block'[h]
      BY <1>2, <2>4 DEF BlocksExclusive
    <3>2. \A g \in Used' : block'[g] \notin ToSet(freeBlocks')
      BY <1>2, <2>1, <2>2, <2>4 DEF BlocksExclusive
    <3>3. b \notin ToSet(freeBlocks)
      BY <2>1 DEF BlocksExclusive
    <3>4. ASSUME NEW k \in DOMAIN freeBlocks', NEW m \in DOMAIN freeBlocks',
                 freeBlocks'[k] = freeBlocks'[m]
          PROVE  k = m
      <4>1. /\ DOMAIN freeBlocks' = 1 .. Len(freeBlocks) + 1
            /\ \A a \in 1 .. Len(freeBlocks) : freeBlocks'[a] = freeBlocks[a]
            /\ freeBlocks'[Len(freeBlocks) + 1] = b
            /\ DOMAIN freeBlocks = 1 .. Len(freeBlocks)
        BY <2>1
      <4>2. \A a \in 1 .. Len(freeBlocks) : freeBlocks[a] # b
        BY <3>3, <4>1 DEF ToSet
      <4> QED
        BY <2>2, <3>4, <4>1, <4>2 DEF BlocksExclusive
    <3>5. ASSUME NEW g \in Files'
          PROVE  IF block'[g] = NoBlock THEN written'[g] = NoData
                                        ELSE disk'[block'[g]] = written'[g]
      <4>1. CASE g = f
        BY <1>1, <4>1
      <4>2. CASE g # f /\ block[g] = NoBlock
        BY <1>1, <3>5, <4>2 DEF BlocksExclusive
      <4>3. CASE g # f /\ block[g] # NoBlock
        <5>1. g \in Used /\ g \in Files /\ block'[g] = block[g] /\ written'[g] = written[g]
          BY <1>1, <4>3 DEF Used
        <5>2. block[g] # b
          BY <2>1, <4>3, <5>1 DEF BlocksExclusive
        <5>3. disk[block[g]] = written[g]
          BY <4>3, <5>1 DEF BlocksExclusive
        <5>4. disk'[block[g]] = disk[block[g]]
          BY <2>1, <5>2 DEF TypeOK
        <5> QED
          BY <4>3, <5>1, <5>3, <5>4
      <4> QED
        BY <4>1, <4>2, <4>3
    <3> QED
      BY <3>1, <3>2, <3>4, <3>5 DEF BlocksExclusive
  <2> QED
    BY <2>7, <2>8
<1> QED
  BY <1>5, <1>6

\* Writing to a file without a block takes one from the head of the list.
LEMMA NewStorage ==
  ASSUME TypeOK, Counted, Accounted, BlocksExclusive,
         NEW f \in Files, NEW x, NEW d \in Data, writeNew(f, x, d)
  PROVE  Accounted' /\ BlocksExclusive'
<1> DEFINE b == Head(freeBlocks)
<1>1. /\ f \in Nodes /\ Files \subseteq Nodes /\ ~exited /\ ~exited' /\ Files' = Files
      /\ block[f] = NoBlock /\ freeBlocks # <<>> /\ freeBlocks \in Seq(Blocks)
      /\ overwrites' = overwrites
      /\ freeBlocks' = Tail(freeBlocks) /\ disk' = [disk EXCEPT ![b] = d]
  BY DEF writeNew, WriteTo, Files, TypeOK, tree
<1>2. /\ b \in Blocks /\ ToSet(freeBlocks) = ToSet(freeBlocks') \cup {b}
      /\ Len(freeBlocks') = Len(freeBlocks) - 1 /\ Len(freeBlocks) \in Nat
  BY <1>1, HeadTailMembers
<1>3. /\ block'[f] = b /\ written'[f] = d /\ b # NoBlock
      /\ \A g \in Nodes \ {f} : block'[g] = block[g] /\ written'[g] = written[g]
  BY <1>1, <1>2 DEF writeNew, WriteTo, TypeOK, Blocks
<1>4. Used' = Used \cup {f} /\ f \notin Used /\ Used \subseteq Files
  BY <1>1, <1>3 DEF Used
<1>5. IsFiniteSet(Used) /\ Cardinality(Used) \in Nat
  BY UsedFinite
<1>6. Cardinality(Used') = Cardinality(Used) + 1
  BY <1>4, <1>5, FS_AddElement
<1>7. \A g \in Used : g \in Nodes /\ g # f /\ block'[g] = block[g]
  BY <1>1, <1>3, <1>4
<1>8. Blocks = ToSet(freeBlocks') \cup {block'[g] : g \in Used'}
  <2>1. Blocks = ToSet(freeBlocks) \cup {block[g] : g \in Used}
    BY <1>1 DEF Accounted
  <2>2. \A c \in Blocks : c \in ToSet(freeBlocks') \cup {block'[g] : g \in Used'}
    BY <1>2, <1>3, <1>4, <1>7, <2>1
  <2>3. \A c \in ToSet(freeBlocks') \cup {block'[g] : g \in Used'} : c \in Blocks
    BY <1>2, <1>3, <1>4, <1>7, <2>1
  <2> QED
    BY <2>2, <2>3
<1>9. Len(freeBlocks') + Cardinality(Used') = NumBlocks + overwrites'
  <2>1. Len(freeBlocks) + Cardinality(Used) = NumBlocks + overwrites
    BY <1>1 DEF Accounted
  <2> QED
    BY <1>1, <1>2, <1>5, <1>6, <2>1
<1>10. \A n \in Nodes \ Files' : block'[n] = NoBlock /\ written'[n] = NoData
  BY <1>1, <1>3 DEF Accounted
<1>11. Accounted'
  BY <1>8, <1>9, <1>10 DEF Accounted
<1>12. BlocksExclusive'
  <2> SUFFICES ASSUME overwrites = 0 PROVE BlocksExclusive'
    BY <1>1 DEF BlocksExclusive
  <2>1. /\ Len(freeBlocks) >= 1 /\ DOMAIN freeBlocks = 1 .. Len(freeBlocks)
        /\ DOMAIN freeBlocks' = 1 .. Len(freeBlocks) - 1 /\ b = freeBlocks[1]
        /\ \A k \in 1 .. Len(freeBlocks) - 1 : freeBlocks'[k] = freeBlocks[k + 1]
    BY <1>1
  <2>2. \A k, m \in DOMAIN freeBlocks : freeBlocks[k] = freeBlocks[m] => k = m
    BY <1>1 DEF BlocksExclusive
  <2>3. b \notin ToSet(freeBlocks')
    <3> SUFFICES ASSUME NEW k \in DOMAIN freeBlocks', freeBlocks'[k] = b PROVE FALSE
      BY DEF ToSet
    <3>1. k + 1 \in DOMAIN freeBlocks /\ 1 \in DOMAIN freeBlocks /\ k + 1 # 1
      BY <1>2, <2>1
    <3> QED
      BY <2>1, <2>2, <3>1
  <2>4. \A g \in Used : block[g] \notin ToSet(freeBlocks)
    BY <1>1 DEF BlocksExclusive
  <2>5. \A g, h \in Used' : g # h => block'[g] # block'[h]
    <3>1. \A g, h \in Used : g # h => block[g] # block[h]
      BY <1>1 DEF BlocksExclusive
    <3> QED
      BY <1>2, <1>3, <1>4, <1>7, <2>4, <3>1
  <2>6. \A g \in Used' : block'[g] \notin ToSet(freeBlocks')
    BY <1>2, <1>3, <1>4, <1>7, <2>3, <2>4
  <2>7. \A k, m \in DOMAIN freeBlocks' : freeBlocks'[k] = freeBlocks'[m] => k = m
    <3> SUFFICES ASSUME NEW k \in DOMAIN freeBlocks', NEW m \in DOMAIN freeBlocks',
                        freeBlocks'[k] = freeBlocks'[m]
                 PROVE  k = m
      OBVIOUS
    <3>1. k + 1 \in DOMAIN freeBlocks /\ m + 1 \in DOMAIN freeBlocks
      BY <1>2, <2>1
    <3>2. k + 1 = m + 1
      BY <2>1, <2>2, <3>1
    <3> QED
      BY <1>2, <2>1, <3>2
  <2>8. ASSUME NEW g \in Files'
        PROVE  IF block'[g] = NoBlock THEN written'[g] = NoData
                                      ELSE disk'[block'[g]] = written'[g]
    <3>1. CASE g = f
      BY <1>1, <1>2, <1>3, <3>1 DEF TypeOK
    <3>2. CASE g # f /\ block[g] = NoBlock
      BY <1>1, <1>3, <3>2 DEF BlocksExclusive
    <3>3. CASE g # f /\ block[g] # NoBlock
      <4>1. g \in Used /\ block'[g] = block[g] /\ written'[g] = written[g]
        BY <1>1, <1>3, <3>3 DEF Used
      <4>2. block[g] # b
        BY <1>2, <2>4, <4>1
      <4>3. disk[block[g]] = written[g]
        BY <1>1, <3>3 DEF BlocksExclusive
      <4> QED
        BY <1>1, <3>3, <4>1, <4>2, <4>3 DEF TypeOK
    <3> QED
      BY <3>1, <3>2, <3>3
  <2> QED
    BY <2>5, <2>6, <2>7, <2>8 DEF BlocksExclusive
<1> QED
  BY <1>11, <1>12

\* Writing over a block puts it on the list of free blocks once too often.
LEMMA OverStorage ==
  ASSUME TypeOK, Counted, Accounted, BlocksExclusive,
         NEW f \in Files, NEW x, NEW d \in Data, writeOver(f, x, d)
  PROVE  Accounted' /\ BlocksExclusive'
<1>1. /\ f \in Nodes /\ ~exited /\ ~exited' /\ Files' = Files /\ Used' = Used
      /\ block' = block /\ overwrites' = overwrites + 1 /\ overwrites \in Nat
      /\ block[f] \in Blocks /\ f \in Used
      /\ freeBlocks' = Append(freeBlocks, block[f]) /\ freeBlocks \in Seq(Blocks)
      /\ \A n \in Nodes \ {f} : written'[n] = written[n]
  BY DEF writeOver, WriteTo, FreedList, Files, Used, TypeOK, tree
<1>2. /\ ToSet(freeBlocks') = ToSet(freeBlocks) \cup {block[f]}
      /\ Len(freeBlocks') = Len(freeBlocks) + 1 /\ Len(freeBlocks) \in Nat
  BY <1>1, AppendMembers
<1>3. Cardinality(Used) \in Nat
  BY UsedFinite
<1>4. Blocks = ToSet(freeBlocks') \cup {block'[g] : g \in Used'}
  BY <1>1, <1>2 DEF Accounted
<1>5. Len(freeBlocks') + Cardinality(Used') = NumBlocks + overwrites'
  <2>1. Len(freeBlocks) + Cardinality(Used) = NumBlocks + overwrites
    BY <1>1 DEF Accounted
  <2> QED
    BY <1>1, <1>2, <1>3, <2>1
<1>6. \A n \in Nodes \ Files' : block'[n] = NoBlock /\ written'[n] = NoData
  BY <1>1 DEF Accounted
<1>7. overwrites' # 0
  BY <1>1
<1> QED
  BY <1>4, <1>5, <1>6, <1>7 DEF Accounted, BlocksExclusive

(***************************************************************************)
(* The invariant.                                                          *)
(***************************************************************************)
\* An entry that a search finds is a node of the tree, not the root.
LEMMA FoundIsLive ==
  ASSUME TypeOK, Tree, ~exited, NEW n, NEW x, n = searchChild(x), n # NoNode
  PROVE  n \in live \ {Root}
  BY SearchFindsEntry DEF Tree, Entries

\* The initial states satisfy the invariant.
LEMMA InitIInv == Init => IInv
<1> SUFFICES ASSUME Init PROVE IInv
  OBVIOUS
<1>1. TypeOK /\ Counted
  BY InitTypes
<1>2. live = {Root} /\ Files = {} /\ Used = {}
  BY DEF Init, Files, Used
<1>3. Tree
  <2>1. NoCycle
    BY <1>2 DEF NoCycle
  <2>2. DOMAIN children[Root] = {} /\ live \ {Root} = {}
    BY <1>2 DEF Init
  <2> QED
    BY <1>2, <2>1, <2>2 DEF Init, Tree
<1>4. NamesDiffer
  BY <1>2 DEF NamesDiffer
<1>5. ToSet(freeBlocks) = Blocks /\ Len(freeBlocks) = NumBlocks
  <2>1. DOMAIN freeBlocks = 1 .. NumBlocks /\ \A i \in 1 .. NumBlocks : freeBlocks[i] = i - 1
    BY DEF Init
  <2>2. \A b \in Blocks : b + 1 \in 1 .. NumBlocks /\ freeBlocks[b + 1] = b
    BY <2>1 DEF Blocks
  <2>3. \A b \in Blocks : b \in ToSet(freeBlocks)
    BY <2>1, <2>2 DEF ToSet
  <2>4. \A b \in ToSet(freeBlocks) : b \in Blocks
    BY <2>1 DEF ToSet, Blocks
  <2>5. Len(freeBlocks) = NumBlocks
    BY DEF Init
  <2>6. ToSet(freeBlocks) = Blocks
    BY <2>3, <2>4
  <2> QED
    BY <2>5, <2>6
<1>6. Accounted
  <2>1. Cardinality(Used) = 0
    BY <1>2, FS_EmptySet
  <2> QED
    BY <1>2, <1>5, <2>1 DEF Init, Accounted
<1>7. BlocksExclusive
  BY <1>2 DEF Init, BlocksExclusive
<1> QED
  BY <1>1, <1>3, <1>4, <1>6, <1>7 DEF IInv

\* Every command keeps it.
LEMMA NextIInv == IInv /\ [Next]_vars => IInv'
<1> SUFFICES ASSUME IInv, [Next]_vars PROVE IInv'
  OBVIOUS
<1> USE DEF IInv
<1>1. TypeOK' /\ Counted'
  BY NextTypes
<1>2. ASSUME NEW n \in Nodes, NEW x \in Names, makeDirectory(n, x)
      PROVE  IInv'
  <2>1. /\ ~exited /\ Insert(n, x, TRUE) /\ cwd' = cwd /\ exited' = exited /\ n \notin live
        /\ \A i \in DOMAIN Entries : name[Entries[i]] # x
        /\ UNCHANGED <<block, freeBlocks, disk, overwrites, written>>
    BY <1>2, SearchFindsEntry DEF makeDirectory, Insert, storage, history
  <2>2. Tree' /\ NamesDiffer'
    BY <2>1, InsertTree, InsertNames
  <2>3. Files' = Files
    BY <2>1 DEF Insert, Files, TypeOK
  <2>4. \A m \in Nodes \ Files : block[m] = NoBlock /\ written[m] = NoData
    BY <2>1 DEF Accounted
  <2>5. Accounted' /\ BlocksExclusive'
    BY <2>1, <2>3, <2>4, SameStorage
  <2> QED
    BY <1>1, <2>2, <2>5
<1>3. ASSUME NEW n \in Nodes, NEW x \in Names, createFile(n, x)
      PROVE  IInv'
  <2>1. /\ ~exited /\ Insert(n, Stored(x), FALSE) /\ cwd' = cwd /\ exited' = exited /\ n \notin live
        /\ \A i \in DOMAIN Entries : name[Entries[i]] # x
        /\ UNCHANGED <<block, freeBlocks, disk, overwrites, written>>
    BY <1>3, SearchFindsEntry DEF createFile, Insert, storage, history
  <2>2. Stored(x) = CutName \/ \A i \in DOMAIN Entries : name[Entries[i]] # Stored(x)
    BY <2>1 DEF Stored
  <2>3. Tree' /\ NamesDiffer'
    BY <2>1, <2>2, InsertTree, InsertNames
  <2>4. Files' = Files \cup {n} /\ n \notin Files
    BY <2>1 DEF Insert, Files, TypeOK
  <2>5. \A m \in Nodes \ Files : block[m] = NoBlock /\ written[m] = NoData
    BY <2>1 DEF Accounted
  <2>6. /\ \A f \in Files : f \in Files' /\ written'[f] = written[f]
        /\ \A m \in Nodes \ Files' : block[m] = NoBlock /\ written'[m] = NoData
        /\ \A m \in Files' \ Files : block[m] = NoBlock /\ written'[m] = NoData
    BY <2>1, <2>4, <2>5
  <2>7. Accounted' /\ BlocksExclusive'
    BY <2>1, <2>6, SameStorage
  <2> QED
    BY <1>1, <2>3, <2>7
<1>4. ASSUME NEW x \in Names \cup {DotDot}, changeDirectory(x)
      PROVE  IInv'
  <2>1. UNCHANGED <<tree, storage, exited, history>>
    BY <1>4 DEF changeDirectory
  <2>2. Tree'
    BY <1>4, ChangeTree
  <2>3. NamesDiffer' /\ Accounted' /\ BlocksExclusive'
    BY <2>1 DEF NamesDiffer, Accounted, BlocksExclusive, Used, Files, tree, storage, history
  <2> QED
    BY <1>1, <2>2, <2>3
<1>5. ASSUME NEW f \in Nodes, NEW x \in Names, NEW d \in Data \cup {NoData}, WriteTo(f, x, d)
      PROVE  Tree' /\ NamesDiffer' /\ f \in Files
  <2>1. ~exited /\ f \in live /\ ~isDirectory[f] /\ UNCHANGED <<tree, cwd, exited>>
    BY <1>5, FoundIsLive DEF WriteTo
  <2> QED
    BY <2>1 DEF Tree, NamesDiffer, NoCycle, Files, tree
<1>6. ASSUME NEW f \in Nodes, NEW x \in Names, writeNothing(f, x)
      PROVE  IInv'
  <2>1. /\ WriteTo(f, x, NoData) /\ freeFileBlocks(f) /\ overwrites' = overwrites
        /\ ~exited /\ exited' = exited /\ written' = [written EXCEPT ![f] = NoData]
        /\ Files' = Files
    BY <1>6 DEF writeNothing, WriteTo, Files, tree
  <2>2. Tree' /\ NamesDiffer' /\ f \in Files
    BY <1>5, <2>1
  <2>3. Accounted' /\ BlocksExclusive'
    BY <2>1, <2>2, FreeStorage
  <2> QED
    BY <1>1, <2>2, <2>3
<1>7. ASSUME NEW f \in Nodes, NEW x \in Names, NEW d \in Data, writeNew(f, x, d)
      PROVE  IInv'
  <2>1. Tree' /\ NamesDiffer' /\ f \in Files
    BY <1>5, <1>7 DEF writeNew
  <2>2. Accounted' /\ BlocksExclusive'
    BY <1>7, <2>1, NewStorage
  <2> QED
    BY <1>1, <2>1, <2>2
<1>8. ASSUME NEW f \in Nodes, NEW x \in Names, NEW d \in Data, writeOver(f, x, d)
      PROVE  IInv'
  <2>1. Tree' /\ NamesDiffer' /\ f \in Files
    BY <1>5, <1>8 DEF writeOver
  <2>2. Accounted' /\ BlocksExclusive'
    BY <1>8, <2>1, OverStorage
  <2> QED
    BY <1>1, <2>1, <2>2
<1>9. ASSUME NEW n \in Nodes, Unlink(n), ~exited, exited' = exited
      PROVE  NamesDiffer'
  BY <1>9 DEF Unlink, NamesDiffer
<1>10. ASSUME NEW f \in Nodes, NEW x \in Names, deleteFile(f, x)
       PROVE  IInv'
  <2>1. /\ ~exited /\ exited' = exited /\ Unlink(f) /\ ~isDirectory[f] /\ cwd' = cwd
        /\ freeFileBlocks(f) /\ overwrites' = overwrites
        /\ written' = [written EXCEPT ![f] = NoData]
    BY <1>10 DEF deleteFile
  <2>2. Tree' /\ f \in live
    BY <2>1, UnlinkTree
  <2>3. f \in Files /\ Files' = Files \ {f}
    BY <2>1, <2>2 DEF Files, Unlink
  <2>4. Accounted' /\ BlocksExclusive'
    BY <2>1, <2>3, FreeStorage
  <2> QED
    BY <1>1, <1>9, <2>1, <2>2, <2>4
<1>11. ASSUME NEW d \in Nodes, NEW x \in Names, removeDirectory(d, x)
       PROVE  IInv'
  <2>1. /\ ~exited /\ exited' = exited /\ Unlink(d) /\ isDirectory[d] /\ cwd' = cwd
        /\ children[d] = <<>>
        /\ UNCHANGED <<block, freeBlocks, disk, overwrites, written>>
    BY <1>11 DEF removeDirectory, storage, history
  <2>2. Tree' /\ d \in live
    BY <2>1, UnlinkTree
  <2>3. Files' = Files
    BY <2>1 DEF Files, Unlink
  <2>4. \A m \in Nodes \ Files : block[m] = NoBlock /\ written[m] = NoData
    BY <2>1 DEF Accounted
  <2>5. Accounted' /\ BlocksExclusive'
    BY <2>1, <2>3, <2>4, SameStorage
  <2> QED
    BY <1>1, <1>9, <2>1, <2>2, <2>5
<1>12. CASE exitFileSystem
  <2>1. exited'
    BY <1>12 DEF exitFileSystem
  <2> QED
    BY <1>1, <2>1 DEF Tree, NamesDiffer, Accounted, BlocksExclusive
<1>13. CASE UNCHANGED vars
  <2>1. Tree'
    BY <1>13 DEF vars, tree, Tree, NoCycle
  <2>2. NamesDiffer' /\ Accounted' /\ BlocksExclusive'
    BY <1>13 DEF vars, tree, storage, history, NamesDiffer, Accounted, BlocksExclusive, Used, Files
  <2> QED
    BY <1>1, <2>1, <2>2
<1> QED
  BY <1>2, <1>3, <1>4, <1>6, <1>7, <1>8, <1>10, <1>11, <1>12, <1>13 DEF Next, Command

\* The invariant holds in every reachable state.
LEMMA Invariant == Spec => []IInv
<1>1. Init => IInv
  BY InitIInv
<1>2. IInv /\ [Next]_vars => IInv'
  BY NextIInv
<1> QED
  BY <1>1, <1>2, PTL DEF Spec

\* The tree of FileNodes is a tree after every sequence of commands: the working
\* directory exists, every node is listed exactly once and by its parent, going
\* up leads to the root, and removeDirectory never takes the directory the user
\* is in.
THEOREM TreeIsTree == Spec => []TreeOK
<1>1. IInv => TreeOK
  <2> SUFFICES ASSUME IInv PROVE TreeOK
    OBVIOUS
  <2> SUFFICES ASSUME ~exited
               PROVE  /\ cwd \in live /\ isDirectory[cwd]
                      /\ \A n \in live \ {Root} :
                           /\ parent[n] \in live /\ isDirectory[parent[n]]
                           /\ \A d \in live : Cardinality({i \in DOMAIN children[d] : children[d][i] = n})
                                                = (IF d = parent[n] THEN 1 ELSE 0)
                      /\ Root \in live /\ NoCycle
                      /\ \A n \in live : ToSet(children[n]) \subseteq live
    BY DEF TreeOK, IInv
  <2>1. Tree
    BY DEF IInv
  <2>2. ASSUME NEW n \in live \ {Root}, NEW d \in live
        PROVE  Cardinality({i \in DOMAIN children[d] : children[d][i] = n})
                 = (IF d = parent[n] THEN 1 ELSE 0)
    <3> DEFINE at == {i \in DOMAIN children[d] : children[d][i] = n}
    <3>1. CASE d = parent[n]
      <4>1. PICK i \in DOMAIN children[d] : children[d][i] = n
        BY <2>1, <2>2, <3>1 DEF Tree
      <4>2. at = {i}
        BY <2>1, <2>2, <4>1 DEF Tree
      <4>3. Cardinality(at) = 1
        BY <4>2, FS_Singleton
      <4> QED
        BY <3>1, <4>3
    <3>2. CASE d # parent[n]
      <4>1. at = {}
        BY <2>1, <2>2, <3>2 DEF Tree
      <4>2. Cardinality(at) = 0
        BY <4>1, FS_EmptySet
      <4> QED
        BY <3>2, <4>2
    <3> QED
      BY <3>1, <3>2
  <2>3. \A n \in live : ToSet(children[n]) \subseteq live
    BY <2>1 DEF Tree, ToSet
  <2> QED
    BY <2>1, <2>2, <2>3 DEF Tree
<1> QED
  BY <1>1, Invariant, PTL

\* Entries of a directory differ in their names, unless createFile cut the name
\* of a file to the 49 characters that another one has.
THEOREM DirectoryNamesDiffer == Spec => []NamesDiffer
<1>1. IInv => NamesDiffer
  BY DEF IInv
<1> QED
  BY <1>1, Invariant, PTL

\* No block is ever lost, displayDiskUsage counts exactly one block too many for
\* every write over a file that had one, and at exit the list structures that
\* writes unlinked are exactly those never freed.
THEOREM NoBlockIsLost == Spec => []BlockAccounting
<1>1. IInv => BlockAccounting
  BY DEF IInv, Counted, Accounted, BlockAccounting
<1> QED
  BY <1>1, Invariant, PTL

\* Until the first write over a file that had a block, no block has two owners
\* and every file holds what was last written to it.
THEOREM BlocksHaveOneOwner == Spec => []BlocksExclusive
<1>1. IInv => BlocksExclusive
  BY DEF IInv
<1> QED
  BY <1>1, Invariant, PTL
=============================================================================
