# TLA+ models of megha-kalpavriksha-assignments

The repository is a collection of C programs. Each program is a component of
its own; only the ATM server and the ATM client talk to each other, and the IPC
sort programs each fork a child to talk to. This directory holds TLA+ models of
all of them, the TLC configurations that check them on small instances, and proofs about
seven of them for every value of the constants.

    tlc -workers 2 -config atm_safety.cfg MCAtm.tla
    tlapm AtmSystem_proofs.tla

`PROJECT.json` lists the runs, the source lines behind every definition, the
hazards with the properties that cover them, the theorems, and for each
property a mutant: a plausible bug, written next to the definition it changes
and marked `Mutant`, that makes TLC report the property violated. No
specification uses a mutant.

## Inventory

| component | state | operations | hard behaviour | what makes it correct |
|---|---|---|---|---|
| ATM server (`IPC Assignment/socketIPCMechanism/server`) | account file, `balanceLock`, one thread and socket per client | accept, withdraw, deposit, balance, exit | threads on one file, crash between truncation and write, failing `fopen`/`pthread_create`, SIGPIPE | no lost update, never overdrawn, true answers, no leaked thread or socket, lock always released |
| ATM client (`.../client`) | socket, whether it waits | connect, request, receive, exit, interruption | server gone or restarted while waiting | every request ends, answers pair with requests |
| FCFS scheduler (`FCFS_Based_OS_Process_Scheduling.c`) | PCBs, three queues, running process, hash table, kill list, clock | input, kill, dispatch, execute, I/O, report | I/O at the ends of a burst, kills anywhere, ids used twice, a queue node that cannot be allocated | each process in one place, right CPU, I/O and kill times, order of service, termination |
| Virtual file system (`Virtual_File_System.c`) | tree of nodes, free list, disk, working directory | mkdir, create, write, read, delete, rmdir, cd, df, exit | overwriting, full disk, long names, rmdir around the working directory | tree shape, one owner per block, df, contents, memory |
| LRU cache (`LRU_CACHE_Implementation.c`) | list by recency, bucket table | createCache, put, get, exit | eviction and collisions, reused addresses, failing malloc | list and table agree, recency order |
| IPC sort (`fileIPC..`, `pipeIPC..`, `sharedMemoryIPC..`, `messageQueueIPCMechanism.c`) | an array in a file, pipe, segment or queue | parent writes, child sorts, parent reads | child that dies or fails, parent that waits forever, kernel objects left behind | the parent ends and shows the user's array, sorted |
| CRUD (`CRUD_Operations.c`) | `user.txt`, `temp.txt`, open files | add, show, update, delete | kill between remove and rename, leaked files | records survive, ids stay unique |
| Inventory (`Dynamic_Inventory_Management_System.c`) | product array on the heap, unread input | add, update, search, delete | lines longer than the buffer, realloc to nothing, failing realloc | array and count agree, other products untouched |
| Calculator (`Calculator_Problem.c`) | two stacks | read, reduce, print | precedence, overflow, division | the result is the value of the expression |
| Sonar image (`Sonar_Image_Processing.c`) | one array | rotate, smooth | both in place | agrees with the definition on a copy |
| ICC analyzer (`ICC_ODI_Player_Performance_Analyzer.c`) | three sorted lists per team, totals | load, four displays, exit | insertion, quicksort with equal keys | lists complete and sorted, the best k shown |
| Student analyzer (`Student_Performance_Analyzer.c`) | array of students | read, print | lines converted in part | each student has its own data |

`Players_data.h` is a table of input data for the ICC analyzer.

## Modules

| module | models | extends / uses |
|---|---|---|
| `AtmNet` | the kernel's stream sockets as both programs observe them (external) | |
| `AtmServer` | server.c | `AtmNet` |
| `AtmClient` | client.c | `AtmNet` |
| `AtmSystem` | both programs together, their properties and the refinement | `AtmServer`, `AtmClient`, `AtmAccount` |
| `AtmAccount` | abstract: one account with atomic operations | |
| `MCAtm` | symmetry for TLC | `AtmSystem` |
| `AtmSystem_proofs` | theorems about the sockets, the lock, the account and the messages; the refinement | `AtmSystem`, `TLAPS` |
| `Selection` | the loop that keeps some nodes of a list, shared by two modules | |
| `FcfsScheduler` | the scheduler | `ProcessLifecycle`, `Selection` |
| `ProcessLifecycle` | abstract: the life of processes on one CPU | |
| `FcfsScheduler_proofs` | theorems about the scheduler; the refinement | `FcfsScheduler`, `ProofLemmas` |
| `VirtualFileSystem` | the file system | |
| `MCVfs` | symmetry for TLC | `VirtualFileSystem` |
| `VirtualFileSystem_proofs` | theorems about the file system | `VirtualFileSystem`, `ProofLemmas` |
| `LruCache` | the cache: list, table, addresses, failing `malloc` | `RecencyCache` |
| `RecencyCache` | abstract: the entries used last | |
| `MCLruCache` | symmetry for TLC | `LruCache` |
| `LruCache_proofs` | theorems about the cache; the refinement | `LruCache`, `ProofLemmas` |
| `IpcSort` | the four IPC sort programs, parent and child | |
| `IpcSort_proofs` | theorems about them | `IpcSort`, `ProofLemmas` |
| `UserRecords` | CRUD_Operations.c | `Selection` |
| `UserRecords_proofs` | theorems about it | `UserRecords`, `ProofLemmas` |
| `Inventory` | the inventory | |
| `ProofLemmas` | facts about sequences, loops and counting, used by the proofs | `Selection` |
| `Calculator`, `SonarImage`, `StudentRecords`, `PlayerAnalyzer` | the four programs that only compute | |
| `InMemory` | the five programs that run alone in memory, side by side; `program` says which one runs | `Inventory`, `INSTANCE` of the four |
| `MCInMemory` | their inputs for TLC | `InMemory` |
| `InMemory_proofs` | theorems about them | `InMemory`, `ProofLemmas` |

### ATM

A session is one client process, its connection and the thread that serves it.
`pc[s]` says where the thread is. A step is what nobody can observe the middle
of: taking the lock, an `fopen`, an `fclose` (where the text reaches the file),
releasing the lock, a call on the socket. `processWithdraw`, `processDeposit`
and `processBalance` share the steps: `AcquireLock`, then `ReadBalance` (or
`ReadOpenFails`, `CreateAccount`, `WriteCreated`, the paths of `getBalance` on
a missing file), `Decide`, `Truncate` and `WriteBalance` (the two halves of
`updateBalance`) or `UpdateOpenFails`, `ReleaseLock`, `SendReply`. The account
file has three kinds of content: a number, `Missing` (no file) and `Empty`
(truncated and not yet written). Reading an empty file leaves `balance`
uninitialised: the model takes any value of `Garbage`.

The server ends when it is killed (`ServerKilled`) or when `send` raises
SIGPIPE (`SendReply`); `StartServer` starts it again. `AtmNet` models the
connection with its half-closed states and resets, which decide whether a
`recv` returns data, 0 or an error and whether a `send` is harmless.

`ledger` and `lost` are history variables: the balance the SUCCESS messages add
up to, and whether a crash has cut a write or an `fopen` has failed. The
properties about the account are stated under `~lost`; without that condition
they are false: `atm_open_fails` shows it for the SUCCESS message, and a server
killed between `Truncate` and `WriteBalance` leaves an `Empty` file, from which
the next thread reads the uninitialised `balance`.

Left out: amounts are integer cents, so the rounding of `float` above 2^17 is
not modelled; the default branch of the switch answers operations client.c
never sends; `malloc` succeeds; `accept() < 0` just loops.

### FCFS scheduler

A PCB is named by its position in the input, because process ids need not be
distinct: the code never rejects a second process with the same id, and kills,
`removeFromQueue` and `hashmapGet` go by id. `phase` walks through the calls of
one tick: kill (`processKillEvent`, one due event per step), `dispatchProcess`,
`executeCPU` with `checkProcessStateTransition`, `handleInputOutputTime`.
`handleInputOutputTime` walks the list in the code; the model gives its effect
on the whole queue: `Select` keeps the processes that stay, in order. The bubble
sort of the report is modelled comparison by comparison, its two loops as two
recursive functions.

Every `enqueue` may find no memory for its node (`MemoryFails`, `Failures`). It
then prints a line and returns, and no caller learns of it: the process is in no
queue any more, whatever its state says, and the loop goes on without it. A ready
or waiting one can still get into the report: by a KILL, which finds it in the
hash table and puts it into the terminated queue.
The history variable `lost` holds the processes whose last enqueue failed; the
properties say exactly what is not promised of them. When `createPCB` or
`addKillEvent` finds no memory, the input line is lost and nothing changes: a
step in which all variables stay, so these two failures have no action.
Left out: line parsing, `freeMemory`, the columns that repeat the input.

### Virtual file system

One command line is one action. `Nodes` are addresses, so freeing and reusing
one is visible. The circular list at `directory->child` is the sequence
`children`. Going up from a node reaches the root (`NoCycle`: every set of nodes
other than the root has a member whose parent is outside). A command line has fewer than 100 characters and a block 512, so a
file uses one block or none; the loops over blocks have one turn. A name of 50
characters stands for itself (`LongName`); `create` keeps 49 of them
(`CutName`), `mkdir` all 50 (the terminator lands in padding after the field).
`written`, `overwrites` and `taken` are history variables.
Left out: `ls`, `read`, `pwd` and `df` change nothing (what `read` and `df`
print is the subject of `ReadsBack` and `BlockAccounting`); the stack of 50 names
in `pwd`; failing `calloc`. `taken` counts the list structures that writes took
and nobody freed.

### LRU cache

The list is kept as `head`, `tail`, `prev` and `next` of addresses, the table as
a function from buckets to a key and an address, with the same probe sequence
as the code. An eviction and the `put` that causes it are one action (`putNew`
with `evictLRU`), in the order of the code: the free bucket is searched before
the eviction and again after it if there was none. Each `malloc` of `put` may
fail (`MemoryMayFail`): for the text the entry has none; for the cache node the
key gets a bucket that points to no node (`putWithoutNode`); for the hash node
the node at the head is freed and stays linked (`putWithoutHashNode`); for both in
one `put`, the program dereferences the NULL it got for the node
(`putWithoutEither`). `damage` remembers which; the last case, and otherwise the
first command that uses the damaged structure (`useDamaged`), has a behaviour C
does not define and ends the model. `Chain` is the walk
of `freeCache`; it takes as many steps as there are addresses, so that a cycle in
the links, which would hang the program, shows as a wrong sequence. Left out: failing
`calloc` in `createCache`; parsing.

### IPC sort

`mech` chooses the program at the start; the four share the state variables and
the actions that are the same in all four (`readArray`, `fork`, `wait`, `show`,
`sortArray`). `ppc` and `cpc` say where parent and child are. `sortArray` does
one comparison with the first store of a swap, `secondStore` the other, so that
a kill can fall between them; in shared memory the parent then shows what is
left. A pipe is a sequence of unread messages, a queue a set of messages with a
type; a `read` waits until there is a message or the other process is gone, a
`write` to a pipe nobody reads ends the writer. `data.txt` may hold an array of
an earlier run, be empty (between `fopen` and `fclose`) or missing. `failed` is
a history variable: the calls that failed. Left out: a killed parent.

### User records

A step is one operation on a file that a kill cannot cut: `fopen` for writing
(which truncates), the `fclose` that brings the text to the disk, `remove`,
`rename`. What the user types between them is chosen in the step that uses it.
The loop that copies the lines of `user.txt` to `temp.txt` is the recursive
function of `CopyUpTo`, one line per call; `After` says what it must write.
`ProcessEnds` is the end of the program at any step, `createFile` its next
start. `leaked` counts the files opened and never closed: `deleteUser` returns
without closing either file when the id is unknown, and `updateUser` when
`temp.txt` does not open; `Free` is what `fopen` has left. `table` and `fate`
are history variables: the records the finished operations add up to, and
whether the program was cut between `remove` and `rename`.
Left out: an `fopen` that fails for another reason than a missing file or the
limit of open files (in `isUserIdExist` it would let an id in twice just as the
limit does), malformed lines (the program writes none), line buffers of 100
characters (no record is longer), and displaying.

### Inventory

A step is one `fgets` with the validation of its field. `pending` is the rest
of a line that was longer than the buffer: it is the next field, or the choice
of the menu. `products` are the products in the block, `cells` its size in
products, so a store behind it would be seen. Prices are whole numbers; digits
stand for all characters of a name. The searches are the action `search`, which
consumes input and changes no product; the loops of the search by name are
`Matches`. The end of the input (on which the menu spins) is left out.

### The computing programs

`Calculator` reads a number, reads an operator, or applies the operator on top
per step; `Meaning` is the reference, by recursion on the last operator of the
lowest precedence. `SonarImage` does one row per step; `Rotated` and `Smoothed`
are the reference, computed from the original image. `StudentRecords` reads a
line per step; `sscanf` leaves the variables it does not reach as they were, at
first as `Garbage`. `PlayerAnalyzer` loads a player per step and does one call
of a quicksort per step; the two quicksorts of the code differ only in what they
compare and are one here. The performance index is given with the player, as an
integer. The `calloc` for a player may fail (`loaded`); the `malloc` for the
players of a role (line 703), whose result the program does not check, is
assumed to succeed.

## Runs

| run | instance | shows |
|---|---|---|
| `atm_safety` | 3 sessions, 3 requests, amounts 0..2, no account file yet, no failure | the lock excludes, no update is lost, no overdraft, true answers; the server is an atomic account |
| `atm_failures` | 2 sessions, 3 requests, kills, failing `fopen` and `pthread_create` | sockets have one owner, answers pair with requests (one message at a time), no harmful `send`, the inductive invariant of the account until a crash or a failed `fopen` spoils it; requests and threads end |
| `fcfs_two` | 2 processes, burst 0..2, I/O start 1 or 2, duration 0..2, 2 kills, failing enqueues | exact CPU and I/O time, no idle tick, the abstract life cycle |
| `fcfs_three` | 3 processes on 2 ids, burst 0 or 2, I/O of duration 2 after the first unit or none, 1 kill at time 1 or 2, failing enqueues | no process queued twice, and none lost but by a failed enqueue, order of service, kills on time and for good, report; termination |
| `vfs_disk` | 3 nodes beside the root, 2 blocks, 4 writes, names `a`, `..`, and of 49 and 50 characters | the tree, the names, the accounting of blocks and list structures with a full disk and overwrites |
| `lru_cache` | capacity 1 to 3, keys 0, 1, 3, 4 (collide modulo 1, 2 and 3), failing `malloc` | list, table and recency |
| `ipc_sort` | up to 3 elements, all four programs, killed child, failing calls | what is shown, what is left behind, the parent ends |
| `user_records` | 3 open files, kills, failing `remove` and `rename` | records survive; ids become ambiguous only when no file can be opened |
| `inventory` | up to 3 products, lines split over two fields, failing memory | valid products with different ids, searches, untouched neighbours |
| `algorithms` | all lines of up to 3 characters, 3-bit `int`; all 3 by 3 images of two values; 3 students; 4 players, 3 teams | the four programs against their reference definitions |
| `atm_open_fails` | as small as the counterexample | violated: a SUCCESS message for an update that was not stored |
| `vfs_reads_back` | 2 nodes | violated: a file told to be written reads another file's bytes |

The bounds: one session more than the two that can conflict on the account;
three requests are a deposit and two withdrawals that compete for it; two kills
so that the second can meet a process already killed or completed; at time 1
or 2, of three processes one is done or waiting, one runs and one is ready; three
processes on two ids have namesakes (a third id only lengthens the run: a sort
by exchanges that sorts all rows of two values sorts all rows); burst 2 is
the shortest with I/O inside and at its end; three waiting processes have a
first, an inner and a last one; three files on two blocks fill the disk, and
four writes are a write, an overwrite, which puts the block at the end of the
free list, the write of a second file, which takes the other block, and the
write of a third one, which then shares the first; capacity 3 has a head, an inner node and a tail, and a fourth
key evicts. An array of three elements is the shortest whose sort swaps an
element twice. Three open files are one more than an update holds, so one
failing delete leaves one, which `addUser` takes. Two products to begin with and a
third added give a first, an inner and a last cell to delete. An expression of
three operators is the shortest with two waiting and a third that reduces both; in 3 bits, 2 + 2 and
2 * 2 wrap, and -2 * 2 / -1 traps. A 4 by 4 image has inner rows that are both
smoothed and read by the next. Four players in one list are a head, two inner
players and a tail, with equal indexes.
`MaxRequests`, `MaxProcesses`, `MaxKills`, `MaxWrites`, `MaxRecords` and
`MaxProducts` are the only bounds that are not in the code (there they are the
patience of the user). Deadlock checking is off for the programs that end.

The instances with `SYMMETRY` (`MCAtm` in `atm_safety`, `MCVfs`, `MCLruCache`)
check no liveness property; `atm_failures` and `fcfs_three`, which check liveness,
use none.

### Findings

Two runs are violated, each by a message of the program that is not true:

- A SUCCESS message is sent although `updateBalance` could not open the file
  (`atm_open_fails`).
- Overwriting a file puts the blocks it goes on using at the end of the free list:
  once the entries before it are used up, a later file shares the block
  (`vfs_reads_back`), and df counts it as free (`BlockAccounting` states by how
  much). `BlocksExclusive` is stated for the time before the first overwrite.

The other irregularities are stated exactly by properties that hold:

- After a crash in the middle of `updateBalance` the server answers with an
  uninitialised float (excluded by `~lost` in `LedgerExact` and `StoreInv`).
- A process whose enqueue finds no memory is silently in no queue: it is neither
  executed nor reported (`OnePlace`, `ReportComplete`), and those behind it are
  served as if it were not there (`FirstComeFirstServed`).
- A process whose I/O starts at the end of its burst runs one unit more than
  the CPU column says, and its waiting time is one too large (`CpuExact`).
- The list structures of allocated blocks are never freed (`BlockAccounting`).
- Two files of the same 50-character name can be created, because 49 characters
  are stored (`NamesDiffer`).
- A user id can be used twice after deletes of unknown ids have used up the
  files the process may open (`IdsStayUnique`), and a cut between `remove` and
  `rename` leaves the records only in `temp.txt`, which the next update or delete
  truncates (`RecordsSurvive`).
- The message queue program waits forever for a child that ended without an
  answer (`ParentEnds`), and keeps its queue on two returns (`NothingLeft`); the
  file program shows an earlier array when its `fopen` failed (`ShownRight`).
- Deleting the last product frees the block twice where `realloc` to 0 frees
  (`InventoryOK`).
- A student's name and marks may be those of the line before (`RecordsRight`).

### Fairness

`AtmSystem!FairSpec` asks for weak fairness of `accept`, of each thread and of a
client's `recv` that can return: the operating system schedules runnable
threads and processes. Users, kills and restarts are not fair: a user may never
type, a server may never be started again. A mutex gives no order, so a thread
waiting for `balanceLock` has weak fairness only. It gets its turn in the model
because the requests are finitely many (`MaxRequests`): `RequestEnds` says that
no client waits forever once the traffic ends, not that a thread cannot be
overtaken without end. `FcfsScheduler!FairSpec` asks for weak fairness of the
tick: the program is one sequential loop. `IpcSort!FairSpec` asks for weak
fairness of the parent and of the child: two processes the operating system
schedules and a user who enters an array. Faults are not fair, so a blocked
`msgrcv` does not return by itself.

## Proofs

A theorem holds for every value of the constants that the assumptions named
`ASSUME` in the modules allow: any number of sessions, processes, nodes, blocks,
any texts, arrays and inputs. Two theorems have a hypothesis in addition; it is
given below. The other assumptions say that amounts, ids, times and values are
numbers and that a mark (`Missing`, `NoSession`, `NoReply`, `NoProcess`,
`NoNode`, ...) is not one of the values it stands beside. The cache's addresses
are finitely many.

| module | theorems |
|---|---|
| `AtmSystem_proofs` | `TypeCorrect`, `SocketsAlwaysOwned`, `MutualExclusion`, `NoLostUpdate`, `NeverOverdrawn`, `AnswersAreCurrent`, `StoreInvariant`, `SendNeverKills`, `AnswersAlwaysMatch`, `AccountIsLinearizable` |
| `FcfsScheduler_proofs` | `EveryProcessHasOnePlace`, `CpuIsNotWasted`, `CompletedHadItsCpu`, `IoIsOnTime`, `KillsTakeEffect`, `FirstComeIsFirstServed`, `ReportIsComplete`, `SchedulerImplementsLifecycle` |
| `VirtualFileSystem_proofs` | `TreeIsTree`, `DirectoryNamesDiffer`, `NoBlockIsLost`, `BlocksHaveOneOwner` |
| `InMemory_proofs` | `InventoryIsValid`, `OthersStayUntouched`, `SearchFindsParts`, `ImageIsRight`, `RecordsAreRight`, `DisplaysAreRight`, `StacksFit` |
| `UserRecords_proofs` | `NoRecordIsLost`, `IdsAreLetInOnce` |
| `IpcSort_proofs` | `ShowsTheSortedArray`, `LeavesNothing` |
| `LruCache_proofs` | `ListHolds`, `TableHolds`, `IsRecencyCache` |

**ATM.** The argument is a chain. Types come first (a thread that serves has a
parsed request, one that sends has its answer). Then `SocketsOwned`, which is
inductive given the types: `Accept` starts a thread at `recv` for a session of
the backlog, and because such a session has no thread, the step does not
overwrite one. `LockInv` needs exactly that: otherwise an accept could take a
thread out of its critical section. With mutual exclusion, `StoreInv` is
inductive: it adds to the three properties what a thread inside the lock knows
at each step: after a failed open the file is missing, while the new file is
written the ledger is 0, and between reading and writing the updated balance is
the ledger with the amount applied and not negative. `LedgerExact` alone is not
inductive, since it says nothing about `newBalance` before `WriteBalance` stores
it. For the messages, the invariant says of each connection where its one
message is: nowhere, on its way to the server, with the thread, or on its way
back; a client that left may have left one request or the thread that serves it,
whose `send` is then the first on a connection that the client has closed but
not yet reset. The refinement has the hypothesis `NoFailures` (no kill, no
failing `fopen` or `pthread_create`): with failures the account of `AtmAccount`
is not what the server keeps, as `atm_open_fails` shows.

**Scheduler.** `Placed` counts, for each process, its occurrences in the three
queues and on the CPU: one, and the state says which, or none if its last
enqueue failed. `OnePlace` alone is not
inductive, because it does not say what `removeFromQueue` does when a namesake
stands in front. `Timed` relates the units executed and the I/O clock to the
place of a process; `Pending` says which kills are due in which phase;
`InOrder` that of two processes the earlier is ahead in whatever queue both are
in, or is done with: a lost one stays lost (`LostStays`); `Drained` that no process is ready when the CPU is idle at the tick's end.
The report's sort is proved with its loop invariants (after a turn, the last
elements are the largest and in place). `SchedulerImplementsLifecycle` has the
hypothesis `DistinctPids`: two processes with the same id make a kill hit
another than the one removed from its queue.

**File system.** `TreeOK` needs that each entry of a list names the directory
as its parent and that no list holds a node twice (`Tree`); `NoCycle` is kept by
an insertion because the new node is in nobody's list. `BlockAccounting`, in
terms of cardinalities, needs `Accounted`: the blocks are those on the free list
and those that files use, and every overwrite has counted one twice.

**Inventory.** While products are being entered, the cells not reached yet are
zero (`Filling`), and a field already asked for holds what the validation let
through (`Asked`), in particular an id that no product has. `SearchFinds` is the
correctness of the two nested loops of the search, for every text.

**Image, students, calculator.** `SonarInv` says of each loop what every pixel is
in the rows done and in those to come (`TransposedTo`, `ReversedTo`,
`SmoothedTo`), and of the filter that the row it saved is the one above as it was
before (`RowSaved`): without that the smoothing step cannot be shown to read old
values. Rows and columns of the places are computed by cases over the nine sizes `main`
accepts. `PupilsInv` relates each student to the lines up to its own (`RecordOK`,
`Latest`); its key is that the loop's variables are those of the last student,
so that a roll number not converted is refused as a duplicate. `CalcInv` is
`StacksOK` with the types of the stacks. `InMemory` puts the five programs side
by side, so that one module has all their assumptions; the lemma `EachRunsAlone`,
which holds by the shape of `InMemorySpec`, carries a theorem about one of them
into the composition.

**Players.** The roster is any sequence of players and the table any ascending
sequence of teams, as the one in `Players_data.h` is. `FindsTeam` is the correctness of
the binary search (`LeftAfter`: the team, if there is one, is in the range that
is left, and the range shrinks), `InsertKeepsOrder` that of the insertion, which
keeps a list sorted: the first comparison is with the head, the loop begins
with the second player. With them
`TablesRight` holds after every player: each list has the players of its team and
role among those so far, the totals are theirs. `PlayersInv` says so, and
`AnswersInv` what the answer to a request shows while it is computed. `MovedRight` is the
invariant of the loop of `partition`. The stack of calls of a quicksort is
described by `Sorting`, which does not mention how it came about: of two rows
still in the wrong order, one call to come sorts both, and no two calls sort the
same row. A call replaces its range by two, and a pair that the pivot separates
is in order (`CallSorts`); when no call is left, no pair is in the wrong order
(`LastCall`). The order is on fractions compared by products; `GreaterOrder` needs
that the denominators are positive, which is why the average of a team without
batsmen is `<<0, 1>>`.

**User records.** `UnderWay` says what the two files hold between any two steps
of an operation: from the truncation of `temp.txt` on no earlier operation's
records are in it, and the copy is complete before `user.txt` is removed.
`CopyIsAfter` is the correctness of the copying loop.

**IPC sort.** `Where` says which places of parent and child occur together,
`ChildHas` what the child has of the user's array at each of its places (sorted
up to the positions the loops have reached; between the two stores of a swap one
element occurs twice and one is missing), `FileHas`, `PipeHas` and `QueueHas`
what is under way between the two.

**Cache.** `Linked(l, s)` says that the head, the tail and both links of a list
are those of the sequence `s`, whose nodes differ; `MoveFacts`, `AddFacts` and
`RemoveLastFacts` say what each list operation of the code does to `s`, and
`LinkedChains` that following `next` from the head, or `prev` from the tail, then
gives `s` or its reverse. For this `ListOK` does not suffice: it is about the two
walks only. `Listed` relates table and nodes: a bucket with a node has that
node's key, each node has a bucket, and no key has two; hence the bucket that
`removeFromHashmap` clears is the evicted node's, and it does so at its first
probe. `Leaves` describes the structure between the eviction and the new node,
where a bucket found before the eviction is still free. `Invariant` is the
conjunction, with what each kind of `damage` allows; TLC has also checked it on
the instance of `lru_cache`. In the refinement the entries are those of the
nodes in the order of the list: a move of a node is a move of its entry, an
eviction cuts the last one off, and an address that comes back is not in what is
left of the list, so that overwriting its key and text changes no other entry.

**Loops.** The loops of the code that the models keep (the sorts, `Select`, the
copying loop, the search) are recursive functions over an interval. That such a
function exists and satisfies its equation is proved in `ProofLemmas`
(`RecursionExists`) by taking, where a value fails, the least such index; each
loop's invariant is then carried along the interval (`UpTo`).

Only model-checked:

- Liveness: `RequestEnds`, `ThreadEnds`, `Terminates`, `ParentEnds` (out of the
  prover's reach).
- The value of an expression (`ResultRight`; its part `StacksOK` is proved):
  `Calculator!Meaning` is a recursion over expressions, which no interval
  carries.

`algorithms` compares it with its reference on all small inputs.

## Not modelled

`Players_data.h` (data), the wording and layout of output, the rounding of
`float`, the validation of the ICC menu's input and the unchecked `malloc` of its
display by role, the directory stack of `pwd`
and `cd` beyond its 50 levels (the instances are smaller), failing `calloc` in
the cache's and the file system's set up, the end of the standard input.
