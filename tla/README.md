# Verification of my-exercise

TLA+ models of the programs in this repository that carry logic of their own,
model-checked with TLC and, where the result matters for every size of the
system, proved with TLAPS.  The repository is a collection of independent
programs, so the project has one group of modules per program.  Every
definition is translated from the source; `PROJECT.json` ("map") names the
lines of each.

## 1. The repository

| part | state | operations | what is hard |
|---|---|---|---|
| `socket/socket_server/select-server.c` | two master fd sets, one `peer_state_t` per descriptor, the sets select returned | accept, receive, send, close, in one scan of the ready descriptors | descriptors closed and reused during a scan, short sends, EAGAIN, spurious readiness, resets |
| `socket/socket_server/{sequential,threaded,threadpool}-server` | parser state of one connection on a stack | accept, serve a connection, in one thread, a thread each or a pool | a message split over two receives, clients that leave while they are answered |
| `socket/socket_server/uv-*.c` | `peer_state_t` per handle | libuv callbacks | callbacks of reads and writes in either order over one buffer |
| `simpledb/` | B-tree pages, page cache, file | insert, select, `.exit`, end of input | splits, byte layout of nodes, a file written page by page |
| `workthread/` | worker list, one semaphore per worker, signal handler | create, pause, resume, join | signals at any instruction, an unlocked list, locks held by a paused thread |
| `workthread/list.h` | ring of nodes | add, remove, append | each assignment reads through pointers the last one changed |
| `tcpip/` | ARP cache, routing table, device list, packet buffers, threads | start and stop, receive, resolve, forward, timer | timer and receiver share the cache and the lock is released early; who frees a packet; threads that outlive what they use |
| `socket/exer` | descriptor set, one buffer | accept, relay, close in one scan | the set changes during the scan |
| `mysh/shell`, `mysh/common` | two line buffers, ring of commands, keywords | key strokes, completion, command parsing | buffer ends, the cursor inside the line, the wrap of the ring |
| `mysh/fs` (uFAT, adopted and annotated, with `vfat.c`) | block cache, FAT, directories, files, the open volume | format, open, read, write, truncate, create, delete, move, sync | eviction of dirty blocks, block accesses that fail in the middle, interrupted formats, a format under an open volume |
| `fat32/` (thinfat32, third party) | one-sector cache | open, read, write | as above |
| `h264/H264Analysis` | bit reader, parameter sets | find NAL units, parse | start codes across buffer borders |
| `newMenu/` | menu tree, frame pool, parser's stack | load, walk | indentation that does not match the stack |
| `qt/my_player` | threads, widgets, FFmpeg contexts | start, stop, decode | hand-over between threads |
| `qt/tutorial`, `qt/008`, `kdriver`, `console-test`, `python`, `helloweb` | - | exercises with libraries | - |

The parts of one program interact by calls and shared memory.  The select
server and its clients interact through sockets; the workers and their
controller through a semaphore and `SIGUSR1`; the database with its next
session through the file.  Between the programs there is no interaction except
that all servers of `socket_server/` speak the same protocol, which is stated
once, in `EchoService`.

What makes each modelled part correct:

* **select server**: each client gets exactly the echo of what it sent; a
  descriptor is watched for exactly what is left to do on it; a readiness bit
  is never used for another connection than the one it was reported for; no
  assert fails; nobody waits for ever.
* **simpledb**: the tree is a table of rows with distinct ids in order; no
  split loses or doubles a row; the file is the state of the last `.exit`.
* **workers**: a paused worker stops, a resumed one goes on; a worker is in the
  list while it runs (it is not always); no link of the list is ever NULL; `main`
  ends.
* **list.h**: after each operation the ring is linked in both directions and
  holds the sequence of items that the comment describes.
* **tcpip**: every packet buffer is freed once; an ARP entry has its own host's
  address; a packet that waits for an address leaves for the right host; the
  longest prefix wins; a stop signal ends the program.
* **other servers**: the blocking servers implement `EchoService`; the libuv
  servers answer each client its own question while no read overtakes a write;
  the chat server's set is exactly the open connections.
* **mysh/fs**: the cache is a store that a sync makes durable; chains end, share
  nothing and are long enough, whatever access fails (but for an entry of FAT12
  that is left half written); a file reads back what was
  written; names stay unique and long names whole; half a format never opens.
* **mysh/shell**: what Enter runs is the line on the screen, the arrows show the
  commands in order, the keywords stay in their table.
* **newMenu**: the menus are those the indentation means.

## 2. Modules

| module | models | extends / instantiates |
|---|---|---|
| `EchoService` | the protocol promised to each client (abstract) | |
| `SelectServer` | `select-server.c` with its clients | instantiates `EchoService` |
| `EchoServiceProofs` | theorem on `EchoService` | extends `EchoService` |
| `SelectServerProofs` | theorems on `SelectServer` | extends `SelectServer`, instantiates `EchoServiceProofs` |
| `RowStore` | what simpledb promises (abstract) | |
| `SimpleDb` | `simpledb/` | instantiates `RowStore` |
| `SimpleDbProofs` | theorems on `SimpleDb` | extends `SimpleDb` |
| `ListOps` | `workthread/list.h` | |
| `WorkThread` | `workThread.c`, `bsem.h` | extends `ListOps` |
| `WorkerControl` | a caller that pauses and resumes one worker | extends `WorkThread` |
| `WorkerDemo` | `workthread/main.c` | extends `WorkThread` |
| `WorkersProofs` | theorems on the four | extends `WorkerControl` and `WorkerDemo` |
| `BlockingServers` | `sequential-server.c`, `threaded-server.c`, `threadpool-server.py` | instantiates `EchoService` |
| `UvServer`, `PrimeServer` | `uv-server.c`, `uv-isprime-server.c` | |
| `ChatServer` | `socket/exer`: `selectserver.c`, `server.c`, `client.c` | |
| `NetMain` | `tcpip/main.c`, the devices and the receive path | |
| `ArpCache` | `tcpip/arp/` | |
| `IpRoute` | `tcpip/ip/` | |
| `BlockStore` | what a write-back cache promises (abstract) | |
| `UfatCache` | the block cache of `mysh/fs/ufat.c` | instantiates `BlockStore` |
| `FatCodec` | the encodings of a FAT entry | |
| `UfatFile` | cluster chains and `ufat_file.c` | extends `FatCodec` |
| `UfatDir` | `ufat_dir.c`, `ufat_ent.c` | |
| `UfatMkfs` | `ufat_mkfs.c` against `parse_bpb` | extends `FatCodec` |
| `UfatNames` | the name conversions of `ufat_ent.c` | |
| `LineEditor` | a line with a cursor and the last commands (abstract) | |
| `ShellLine` | `mysh/shell/shell.c` | instantiates `LineEditor` |
| `MyshSession` | `vfat.c`, `block.c`, `main.c` of mysh | |
| `Menu` | `newMenu/menu.cpp` | |
| `NetProgramsProofs` | theorems on `BlockingServers`, `NetMain`, `PrimeServer`, `UvServer`, `ChatServer` and `IpRoute` | extends `MCNetPrograms` |
| `ArpCacheProofs` | theorem on `ArpCache` | extends `MCNetPrograms` |
| `ShellParts` | `UfatCache`, `MyshSession` and `Menu` side by side | instantiates them |
| `ShellPartsProofs` | theorems on these three | extends `ShellParts` |
| `EditorPart`, `EditorPartProofs` | `ShellLine` on its own, and the theorem on it | instantiates `ShellLine` |
| `MC...` | TLC instances; `MCWorkers` runs `WorkerControl` or `WorkerDemo`; `MCNetPrograms` and `MCPrograms` (which extends `ShellParts` and `EditorPart` by the layers of the file system) put several programs side by side | |

Operators in front of the one they vary, with the same parameters (for example
`SentAll_ReadWrite`, or `Unmirrored` before `cache_flush`), are plausible
mistakes in that piece of code.  They are used by no specification; each
property is shown to fail when the original is replaced by one of them
("mutants" in `PROJECT.json`).

### SelectServer

`readM`, `writeM`, `fdMax` are `readfds_master`, `writefds_master` and
`fdset_max`; `rd`, `wr` and `nready` are what select returned; `state`,
`sendbuf`, `sendptr` are `global_state[fd]`.  `sendbuf_end` is the length of
`sendbuf`.  The server's steps are the return of `select` (`Select`), one half
of one iteration of the loop over descriptors (`Accept`, `AcceptAgain`,
`AcceptFails`, `RecvBytes`, `RecvNothing`, `RecvEof`, `RecvFails`, `ReadSkip`,
`Send`, `SendAgain`, `SendFails`, `WriteSkip`, `ScanDone`) and one byte of the
loop in `on_peer_ready_recv` (`RecvByte`, `RecvDone`).  Each includes the
`FD_SET`, `FD_CLR` and `close` that follow the callback in `main` (`Monitor`).
Clients connect, send a byte, read and close between any two of these steps; a
close with unread data, or data sent to a client that has closed, is a reset,
and a reset ends the server (`perror_die`).

The kernel is modelled by what the code relies on: `accept` returns the lowest
free descriptor, a socket takes `OutCap` bytes until the client reads, `select`
may report one idle descriptor per call (the comment at lines 174-176 warns of
it), a closed descriptor in a set makes `select` fail.  History variables
(`got`, `out`, `phase`, `selConn`) record what properties compare.

The refinement mapping to `EchoService` takes the bytes staged for a client
(`Pending`) as what is owed to it and the descriptor's parser state as the
client's.  `EchoService` also defines the promise without a state machine
(`Echo`: the increment of every byte that some `^` precedes with no `$` in
between), and `EchoExact` compares the server with that.

### SimpleDb

A page is a record; a leaf keeps its cells as a sequence.  The row is
represented by its id, since the other columns are only copied.  Two facts of
the byte layout decide behaviour and are kept:

* `row_write_to_buffer` (`row.c:39`) copies one byte more than a cell has.  The
  byte is padding of `struct Row` on the stack of `main`, so any value
  (`Pads`); it lands in the low byte of the next cell's key (`Clobber`).
* `internal_node_key` (`node.c:127`) adds a byte count to a `uint32_t*`, so key
  i is word 2i+4 and child i is word 2i of the body (`KeyWord`,
  `InternalChild`).  Words never written hold what the page held before
  (`Junk`).

Inserts are split by their path: duplicate, fits, splits the root, splits
another leaf, exits because the root is full, and a search that leaves the tree
(`InsertAstray`: undefined from there on).  `.exit` writes page after page
(`Flush`) and the process may be killed in between (`KillClosing`); end of
input and the exit of `node_btree.c:199` lose the session.

`RowStore` is the abstract table: a set of ids, printed in order, saved as a
whole or not at all.

### WorkThread, WorkerControl, WorkerDemo

`life[w]` is the statement of `workerDo` that worker w executes next.  The list
of workers has no lock, so each assignment to it is a step, and
`threadsNum++` is a read and a write.  `hand[w]` is the state of the signal
handler in w's thread, `pend[w]` a pending `SIGUSR1`.  `bsem_reset` initialises
mutex and condition variable again; if a thread waits on them the outcome is
undefined, and `stale` lets a later signal reach that thread or not.  `main.c`
creates its two workers one right after the other, so all of this interleaves: a
worker may test `bInit` while the other initialises the list, and throw it out
again (`ListServes`, the run `worker_list`).  What remains true of the list in any
order is `LinksSound`: no statement follows a NULL link.

`WorkerControl` is a caller with one worker.  It is patient (it waits for each
command to take effect, as `main.c` does by sleeping) or not; the choice is made
in `ControlInit`, so one run covers both.  `WorkerDemo` is `main.c` with its own
numbers (50 rounds, pauses at 8 and 10, resumes at 16 and 15).  Time is counted
in seconds: `Tick` happens when every thread sleeps, waits or is blocked.
`printf` takes the lock of stdout in one step and gives it back in another, so
a signal can arrive in between when `SignalsInPrintf` is TRUE.  `SIGUSR1` to a worker
that the list has lost is undefined in the code and ends the model (`process` is
"undefined"); `Terminates` and `HeldAsPlanned` say nothing of such behaviours.

### The other servers

`BlockingServers` is the one `serve_connection` of three programs: `kind` chooses
whether connections are served in the accept loop, by a thread each or by a
pool.  An error of `recv`, or a `send` to a client that is gone, ends the C
programs and only the one connection in Python, where the byte 255 raises an
exception instead of wrapping.  `BlockImplements` is `EchoService` again.

`UvServer` keeps `sendbuf` as one array, because that is where uv-server goes
wrong: `uv_write` points into it, and a read that comes before the write's
callback appends behind bytes that are sent again from the start.
`UvEchoExact` is stated until that has happened (`behind`), and
`UvEndsOnlyFor` lists what ends the server: an error of a client that leaves
while output is under way, a read larger than `sendbuf`, the kill switch.
`PrimeServer` has the loop, the pool thread and the one `peer_state_t` they
share; `isprime(1)` is true in the code and `IsPrimeRight` starts at 2.

`ChatServer` has the scan over `read_fds` as a set still to visit, while `accept`
and `close` change `master` and `fdmax`.

### NetMain, ArpCache, IpRoute

`NetMain` follows main, the receive thread, the signal thread and the two idle
threads.  Frames are classes: what decides in `net_rx` and `arp_in`.  `main`
never calls `arp_cache_init`, so the cache is always "full" there.  Each handler of
a frame (`net_rx`, `arp_in`, `arp_recv`) says how often it reaches `free_pkb` and
what it transmits, and `Handled` counts the frees; a second one would show in
`BuffersAccounted` as a count that is too small.

`ArpCache` models the cache as it is after `arp_cache_init`.  Only the receiver uses
it in the program as it stands: `arp_timer` is in the interface but nothing calls
it (the timer thread of `main.c:75-82` only sleeps), and IP output is described in a
comment (`arp.c:87-90`).  So the timer may run at any time or never - nothing is
assumed of it - and `OutHosts`, the hosts that IP output sends to, may be empty.
Every critical section is one step, and what the code does on an entry after it has
released the mutex is a step of its own; every interleaving of the three is
explored.  When the receiver and IP output are at the same slot and one of them is
filling it, the entry can get one host's address and the other's hardware address:
the slot is then in `mixed` until it is allocated afresh, and the claims on hosts
except it.  `AloneNeverMixed` says that it takes an IP output to come to that.  The
uses of a NULL device and of freed packets are not excluded but confined: to the
window between allocation and filling, and to a last retry that ends while the
packets of its entry are being sent.  `IpRoute` has addresses of three bits
and words of four; the checksum folds carries as the code does.

### The file system of mysh

The layers are modelled one by one, each over what the next promises.

`UfatCache`: `desc` and `order` are the descriptors and the order of their `seq`
numbers.  An operation returns the *set* of states it can end in, one for every
way in which its device calls can fail.  The refinement to `BlockStore` maps the
memory to cached data over device blocks.  `MirrorsFollow` is about the copies of
the FAT, which the abstract store does not see.

`UfatFile`: the FAT is in its on-disk encoding (bytes for FAT12, words for 16 and
32), and each read and write runs in the steps of the code: the rest of a block,
whole blocks, the start of a block.  Every access may fail (`MaxErrors`), at
every point where the code looks at a result.  Byte k of write w is `<<w, k>>`,
so `FilesReadBack` notices any byte out of place.  An entry of FAT12 is two bytes
written one after the other (`half_fat12`, `write_fat12`); when it lies across two
blocks the second can fail on its own (`Straddles`, `Failed`), and the entry keeps a
mixture of the old and the new value: it is in `torn`.  A chain then stops there,
which is what `ChainsSound` claims; a write or a truncation that goes through a torn
entry can go anywhere (in a volume of thousands of clusters the mixture may be the
number of a cluster of another file), so the model ends there (`WriteAstray`,
`TruncateAstray`).

`UfatDir`: a directory is a sequence of raw entries; long names are split into
fragments that carry the short name's checksum (here: the short name).  Creation
is room, fragments, entry; deletion marks entry after entry; a move is both, with
its undo.  Each may stop after any entry.  An error of the search before a
creation counts as "not found" in the code, which is why `NamesUnique` excepts
`misled`; `ShortsUnique` does not.

`UfatMkfs`: `calculate_layout`, `write_bpb` and `parse_bpb` are functions, compared
for sizes around every threshold, and the format is a sequence of writes that
can end anywhere.  `UfatNames` is about bytes: UTF-8 to UCS-2 and back, and the
checksum.

`MyshSession` is the user's view: the image, the open volume with its unwritten
changes, the directory and the prompt, over exits, kills and restarts, with an image
file that may be missing from the start or removed at any time: `block.c` opens it for
every block and does not look at the result, so a command dies at the first block that
its cache does not have (`ImageGone`, `FormatNowhere`).  `ufat open` writes the names of
the root directory behind the keywords there are (`AddKeywords`); a name without room
is written behind the table, and from then on nothing is claimed of the process, which
may write anything to the image (`overrun`).

### ShellLine, LineEditor

`input[0..i-1]` is the text before the cursor and `expand_buf[ie+1..]` the text
after it.  A step that reads or writes outside a buffer sets `wild`.  `LineEditor`
is a line with a cursor; its action `Breaks` says exactly when the promise ends:
a line of `COMMAND_BUF_SIZE` characters, a byte above 127 to the right of the
cursor, a recall past the start of the ring.

### Menu

One line of the file is one step of the parser (`Deeper`, `Shallower`, `Sibling`).
`MenuMatchesFile` compares the frames with the parent of each line as the
indentation gives it, for files without blank lines that go at most one level
down at a time; other files are parsed too.

## 3. Runs

| run | instance | checks | shows |
|---|---|---|---|
| `select_reuse` | 3 clients, 2 descriptors, 1 byte each, resets and spurious readiness | `MonitorMatchesBuffer`, `ReadinessNotStale`, `ScanComplete`, `ImplementsService` | descriptors are reused within a scan and nobody gets another's bits or bytes |
| `select_stream` | 1 client, up to 5 bytes out of `$`, `^`, 255, buffers of 2 | `TypeOK`, `AssertsHold`, `EchoExact` | the reply stream is exact across short sends and messages that span several receives |
| `select_live` | 2 clients that close only when answered, up to 3 bytes each, all `^`, so that the second and third are payload; sockets that take one byte; spurious readiness | `PatientServed` | such clients cannot end the server (`ServerSurvives`), and each byte is eventually answered (`EventuallyServed`), also when replies queue up behind a short send |
| `db_ascending` | 7 rows with ascending ids, leaves of 3 cells | `TableSorted` (`FindsEveryRow`, `StartsAtLowest`), `ImplementsStore` | with up to three leaves the tree is the sorted table, over exits, lost sessions and reopening |
| `db_anyorder` | 3 ids in any order, up to 10 rows | `RowsKept` (`WellFormed`, `RowsConserved`), `FileMatchesSaved` | whatever keys the stray byte damages, splits keep every row once, and the file changes only by a complete `.exit` |
| `db_fourleaves` | 9 rows with ascending ids | `FindsEveryRow` is **violated** | with the fourth leaf key 0 is overwritten by child 2 and ids are not found |
| `workers` | 1 worker and 6 commands, or `main.c` with its own numbers and no signal inside `printf` | `WorkTypeOK`, `LinksSound`, `NoCreditLeft`, `CommandsTakeEffect` (`PauseTakesEffect`, `ResumeTakesEffect`), `HeldAsPlanned`, `DemoTerminates` | the last pause always holds and resumes of a patient caller always release; the plan of pauses works and `main` returns unless the list has lost a worker; the race on the list leaves no NULL link |
| `worker_list` | `main.c` | `ListServes` (`FindsItself`, `ManagerConsistent`) is **violated** | two workers that start together both initialise the list, and one is not in it |
| `demo_printf` | `main.c`, signals inside `printf` | `DemoTerminates` is **violated** | the worker is held with stdout's lock and everyone waits for everyone |
| `net_programs` | each network program on its own, selected by `which` | 7 invariants, 2 liveness properties, a refinement, listed below | sections above |
| `net_leak` | `NetMain` | `StackFrees` is **violated** | RARP and IP frames are never freed; after `MAX_PKBS` of them the program exits |
| `programs` | the layers of mysh and the menu, each on its own | 8 invariants, 2 refinements, a property of states and steps, listed below | sections above |

In the last two passing runs `which` picks one program in the initial state and
the others stay in theirs, so that the state spaces add up instead of
multiplying; a property is about its own program.  Each is a conjunction of
parts that the component's module defines and explains:

| property | parts |
|---|---|
| `StackSound` | `NetMain`: `BuffersAccounted`, `ReplyGoesBack`, `DeviceUntilStop` |
| `StopEndsProgram` | `NetMain`: liveness |
| `ArpSound` | `ArpCache`: `MacMatches`, `PacketsReachTheirHost`, `NullDeviceOnlyInWindow`, `FreedOnlyAtLastRetry`, `AloneNeverMixed` |
| `RoutesRight` | `IpRoute`: `LongestPrefix`, `ForwardedSoundly`, `ChecksumVerifies` |
| `UvSound` | `UvServer`: `UvEchoExact`, `UvEndsOnlyFor` |
| `PrimeSound` | `PrimeServer`: `IsPrimeRight`, `AnswersMatch`, `WildOnlyAfterLeaving` |
| `ServersAnswer` | liveness of `UvServer` (`UvReads`) and `PrimeServer` (`EveryAskAnswered`) |
| `ChatSound` | `ChatServer`: `MasterIsOpen`, `HearsTheOthers` |
| `BlockImplements` | `BlockingServers` refines `EchoService` |
| `StoreRefined`, `MirrorsFollow` | `UfatCache` refines `BlockStore`; the copies of the FAT |
| `FilesSound` | `UfatFile`: `ChainsSound`, `NoClusterLost`, `FilesReadBack` |
| `NamesSound` | `UfatDir`: `NamesUnique`, `ShortsUnique`, `LongNamesKept`; `UfatNames`: `NamesReadBack`, `ChecksumsDiffer` |
| `TreeSound` | `UfatDir`: `EntriesLead`, `ParentRight`, `DirClustersKept` |
| `FormatSound` | `UfatMkfs`: `LayoutFits`, `ParsesBack`, `FreshFatRight`, `OpensWhole` |
| `EditorRefined`, `ArgsRight` | `ShellLine` refines `LineEditor`; the words of a line |
| `SessionSound` | `MyshSession`: `SyncedKept`, `OneVolume`, `PathRight`, `CrashExplained`, `KeywordsFit` |
| `MenuSound` | `Menu`: `MenuMatchesFile`, `OverrunExplained`, `QuitExplained` |
| `TypesOK` | the type invariant of each module |

### Bounds

* *Select server*: two peer descriptors are the least with which one can be
  closed and another ready in the same scan, and the third client is the one
  that gets a number back.  Buffers of two bytes (1024 in the code) and a
  socket that takes one byte make every combination of full, short and complete
  send happen.  Five bytes are two complete messages' worth of `^`, payload and
  `$`, over three receives.  Three `^` are the start of a message and two bytes of
  payload, so that in `select_live` the reply of one byte waits behind the other.
  `select_reuse` uses the symmetry of the clients; it checks no liveness.
* *Database*: leaves of 3 cells instead of 55; the split counts (2 and 2) come
  from the code's formula.  Root and three more leaves are as many as
  `INTERNAL_NODE_MAX_CELLS` = 3 allows before the process exits; 10 rows reach
  that exit.  In `db_anyorder` three ids suffice to have more than 9 rows
  because damaged keys let ids in twice.
* *Workers*: six commands are two pauses and resumes more than one
  overlap takes.  The demo runs with the program's own numbers; a worker's count of prints is followed up to
  the last value it is compared with.
* *Network programs*: two ARP slots and two hosts make entries be reused for
  another host while the first is in use; one retry and unit times give every
  order of timeout and answer, and packets for one of the two hosts every meeting of
  receiver, timer and output.  Four routes over three-bit addresses are one for
  each prefix length.  Two bytes of `sendbuf` and a socket that takes one make
  short writes and the overrun of the buffer happen with four bytes.  The numbers
  for `isprime` are the smallest of each kind.  Three chat users share two
  descriptors, so one is reused.
* *Cache*: two slots for four blocks in use (boot block, FAT with a mirror, two data
  blocks) evict at almost every access.
* *Files*: three clusters of two blocks of two bytes; transfers of 3 and 5 bytes
  start and end inside blocks, at block and at cluster boundaries; two files of up
  to 8 bytes fill the volume.  FAT12, FAT16 and FAT32 are all run.  With blocks of two
  bytes an entry of FAT12 lies across two blocks or in one, as in a real table
  (entry 341 with blocks of 512); one access fails.
* *Directories*: clusters of four entries and names of three entries, so that runs
  cross clusters and directories grow; two names differ in case only and three
  share a short name; four calls, one failing access.
* *Format*: sizes on both sides of each threshold (8192, 8400, 65535, 2^20 sectors and
  the default 2097152); blocks of 512 and 1024 bytes.
* *Line*: buffers of 4 (2048 in the code), a ring of 2 (50), 2 words (10), 7 keys: enough to fill the buffer from
  both sides, to wrap the ring and to recall.
* *Session*: two formats, two opens, two entries with names of different lengths,
  paths of two levels with a limit that the second one meets, a keyword table that a
  second open overruns.
* *Menu*: all files of up to 4 lines with up to three levels and blank lines.

### Deadlock

TLC's deadlock check is off where the program may really stop: clients that
have all finished, a database file that is broken, a controller that has given
its last command or a demo whose worker the list has lost (`workers`), programs
that have ended or reached a bound (`net_programs`, `programs`), and the violation
runs.

### Fairness

* `SelectServer!FairSpec`: weak fairness of the server's steps taken together -
  it is one thread and the scheduler runs it - and of each client's reading.  A
  client that never reads is not fair; the property says what clients that read
  can expect.  Nothing is assumed about connecting, sending or closing.
* `WorkerControl!ControlSpec`: weak fairness of the worker's thread and of the second
  half of a `workerPause` that has begun.  Whether commands are given and
  whether the user function ends is left open.
* `WorkerDemo!Spec` (in `MCWorkers`, of the one that runs): weak fairness of main, of each worker and of time; all are
  runnable threads under a preemptive scheduler.
* `net_programs` (`MCFairness`): weak fairness of main's thread in `NetMain`
  (`MainGoes`) and of the pool thread and the loop in `PrimeServer` (`PrimeSteps`).
  `ArpCache` is checked for safety only: nothing in the repository calls the timer, so
  a packet that waits for an address may wait for ever.  In
  `UvServer` the loop is weakly fair (`LoopGoes`) and the handling of what the
  poll reports is strongly fair (`PollEvents`), because the loop alternates
  between polling and callbacks and libuv reports a readable socket in every
  poll.  No stop signal, frame, request or answer is assumed to come.
* `BlockingServers` and everything in `programs` are checked for safety only: they
  are driven by their input.

### Findings

* `db_fourleaves`: `internal_node_key` overlaps keys and children
  (`simpledb/node.c:127`).  Three leaves work, the fourth breaks lookups.
* `worker_list`: `workThread.c:42` tests `bInit` and initialises the list without a
  lock, and `main.c:59` and `62` create two workers back to back: the second
  `ListInit` throws the first worker out, and its signal handler does not find it.
* `demo_printf`: a worker is paused in a signal handler at any instruction, also
  inside `printf` (`workThread.c:32`), which stops every other thread that
  prints, among them the one that should resume it.
* `net_leak`: `net_rx` drops RARP and IP frames without freeing them
  (`tcpip/netdev/netdev.c:118`), although `tap_if.c:137` leaves that to the stack.

Met while modelling and left without a run of their own:

* `select-server.c:235` checks a new descriptor against `FD_SETSIZE` (1024),
  `on_peer_connected` asserts it is below `MAXFDS` (1000).  The runs and
  `AssertsCorrect` therefore assume a limit on descriptors of at most `MAXFDS`.
* `row.c:39` can change a key, after which an id may be inserted a second time
  and `table_start` may stop behind the lowest id.  `db_ascending` inserts in
  ascending order, where there is no next cell to damage; `db_anyorder` claims
  only what survives.
* A second `workerPause` before the resume leaves a signal pending that holds
  the worker again after its only resume (`workThread.c:117`); hence "patient"
  in `ResumeTakesEffect`.  Two resumes bring the "binary" semaphore of
  `bsem.h:25` to 2.
* A `workerPause` before the new thread has called `sigaction`
  (`workThread.c:60`) ends the process; `PauseTakesEffect` excepts it (`Ended`).
* `ListAppend` of an empty list sets `head1->prev` to the other head
  (`list.h:101-104`); hence the condition of `AppendCorrect`.
* tcpip: `main` does not initialise the ARP cache; `arp_in` does not check the
  length of the frame for `ARP_DATA_LEN`; the signal handler cancels
  only `THREAD_IPC` (`main.c:64`), and `main` frees the device under the receive
  thread; `ip_forward` computes the checksum without clearing the field;
  `arp_entry_alloc` leaves the old addresses and no device in an entry that is
  already visible; `pkb_trim` drops the result of `realloc`.
* uv-server repeats bytes when a read comes before the write callback, and one
  client that leaves with output under way ends it for all.
* uFAT: a FAT12 entry across two blocks can be left half written
  (`ufat.c:558-572`), which makes a chain go on anywhere; `parse_bpb` divides before it checks (`ufat.c:216`); `write_bpb` shifts
  the wrong way for blocks below 512 bytes; volumes with blocks of 2 and 4 KiB
  near the FAT12 limit are formatted as one type and opened as another; below 35
  blocks the layout wraps; UTF-8 continuation bytes are tested against `0xc0`
  (`ufat_ent.c:527`), which only the signedness of `char` hides; `ufat_move` leaves
  `..` alone.
* mysh: no close at exit; without `./test.fat32` a format, an open or the first block
  that is not cached is a NULL `FILE*` (`block.c:13`, `22`); a failed `ufat open` lets later commands run on nothing; a
  format while the volume is open mixes two volumes; a second open doubles the
  keywords, and nothing stops them at `MAX_KEY_WORD_CNT` or a name at
  `MAX_KEY_WORD_SIZE` (`shell.c:411`); `cd` at the path limit parts prompt and directory, and a path of exactly
  `FULL_PATH_LEN` has its end written behind the array (`vfat.c:268-276`); `history show` and
  the arrows read in front of the ring once it has wrapped; exactly
  `ARG_MAX_COUNT` words lose the first.
* newMenu: a blank line ends the top menu (`menu.cpp:329`, against the comment
  at line 411); no check against `ITEMS_MAX`; an item with both a function and
  a submenu ends the program's menu; pointers are passed as `int`.

### What the exceptions leave open

Some properties stop where the code itself goes wrong.  They show that nothing *else*
leads there; they do not show that the code stays out of it, and the hazard is real:

* `AssertsHold`: descriptors of `MAXFDS` and more (a limit the constants exclude).
* `ImplementsStore`: a kill inside `db_close` leaves a file of two trees (`Break`).
* `NoCreditLeft`, `ResumeTakesEffect`: an impatient caller.
* `ListServes` has no exception and is refuted; `Terminates` ends at a lost worker.
* `ArpSound`: slots that the receiver and IP output fill together (`mixed`); the NULL
  device and the freed packet are confined to the places the properties name, once
  `arp_timer` is called.
* `UvEchoExact` after a read has overtaken a write callback (`behind`); `AnswersMatch`
  after a request has overtaken an answer (`crowded`).
* `MirrorsFollow` at a block whose last mirror write failed; `NamesUnique` after a failed
  read was taken for "not found" (`misled`); `ChainsSound` and `FilesReadBack` after a
  FAT12 entry was left half written and used (`astray`).
* `TreeSound` does not claim that a directory stays reachable: `ufat_move` lets one be
  moved into its own subtree; nor what comes of a second failure, in the clean-up of
  `ufat_dir.c:538`.
* `FormatSound` is for blocks of 512 and 1024 bytes.  `LayoutFits` is false for 2048: a
  device of 8192 such blocks gets a FAT12 with too many clusters.
* `LineEditor!Breaks`: lines that fill the buffer, recalls past the ring.  `ArgsRight`
  says that a line of `ARG_MAX_COUNT` words loses its first.
* `SessionSound`: `OneVolume`, `PathRight` and `CrashExplained` list the ways in which
  volumes are mixed, prompt and directory part and the shell dies.
* `MenuSound` is about well-formed menu files.

## 4. Proofs

Every theorem below is checked by TLAPS for all values of the constants that
satisfy the named assumptions; the runs check the same definitions on an instance.

| theorem | states | from |
|---|---|---|
| `SelectServerProofs!TypeCorrect` | `Spec => []TypeOK` | `ConstantsAssumption` |
| `SelectServerProofs!MonitorCorrect` | `Spec => []MonitorMatchesBuffer` | |
| `SelectServerProofs!ReadinessCorrect` | `Spec => []ReadinessNotStale` | |
| `SelectServerProofs!AssertsCorrect` | `Spec => []AssertsHold` | also `FdLimit <= MAXFDS` |
| `SelectServerProofs!ScanCorrect` | `Spec => ScanComplete` | |
| `SelectServerProofs!ServiceCorrect` | `Spec => ImplementsService` (refinement) | |
| `SelectServerProofs!EchoExactCorrect` | `Spec => []EchoExact` | |
| `EchoServiceProofs!EchoCorrect` | `Spec => []EchoReference` | bytes are bytes |
| `SimpleDbProofs!RowsKeptCorrect` | `Spec => []RowsKept` | `DbAssumption` |
| `SimpleDbProofs!FileCorrect` | `Spec => []FileMatchesSaved` | |
| `WorkersProofs!AddTailCorrect`, `AddHeadCorrect`, `RemoveCorrect`, `AppendCorrect` | what the calls of `list.h` do to a ring of any length | distinct nodes |
| `WorkersProofs!TypeCorrect` | `ControlSpec => []WorkTypeOK` | `WorkersAssumption`, `ControlAssumption` |
| `WorkersProofs!CreditCorrect` | `ControlSpec => []NoCreditLeft` | |
| `WorkersProofs!LinksCorrect` | `Spec => []LinksSound` | `DemoAssumption` |
| `NetProgramsProofs!BlockCorrect` | `MCSpec => BlockImplements` (refinement) | `BlockAssumption` |
| `NetProgramsProofs!StackCorrect` | `MCSpec => []StackSound` | `NetAssumption` |
| `NetProgramsProofs!PrimeCorrect` | `MCSpec => []PrimeSound` | `PrimeAssumption` |
| `NetProgramsProofs!UvCorrect` | `MCSpec => []UvSound` | `UvAssumption` |
| `NetProgramsProofs!ChatCorrect` | `MCSpec => []ChatSound` | `ChatAssumption` |
| `NetProgramsProofs!RoutesCorrect` | `MCSpec => []RoutesRight` | `IpAssumption` |
| `ArpCacheProofs!ArpCorrect` | `MCSpec => []ArpSound` | `ArpAssumption` |
| `ShellPartsProofs!StoreCorrect` | `PartsSpec => StoreRefined` (refinement) | `CacheAssumption` |
| `ShellPartsProofs!MirrorsCorrect` | `PartsSpec => []MirrorsFollow` | |
| `ShellPartsProofs!SessionCorrect` | `PartsSpec => SessionSound` | `KeywordAssumption` |
| `ShellPartsProofs!MenuCorrect` | `PartsSpec => []MenuSound` | `MenuAssumption` |
| `EditorPartProofs!EditorCorrect` | `EditorSpec => EditorRefined` (refinement) | `LineAssumption` |

A behaviour of `MCPrograms` is one of `PartsSpec` on the variables of `ShellParts`
and of `EditorSpec` on those of `EditorPart`: every disjunct of `MCNext` is a step of
one of them, or leaves their variables alone.  The proofs extend these small modules
because the time of every proof step grows with the number of definitions in scope.  The bounds of the runs (how many requests, frames, messages, commands) are
constants too, so the theorems hold for any number of them.  Almost none of these
properties is inductive; what follows is what had to be added and why.

**Select server.**  `ConstantsAssumption`: the listener is below `FD_SETSIZE`,
`RecvMax` is at least 1 and at most `SENDBUF_SIZE`, bytes are bytes.  That a
readiness bit is not stale needs that no descriptor is reported both readable and
writable (`DisjointInv`): otherwise the read half could close a descriptor whose
write bit is still to be looked at.  That in turn needs the master sets to be
disjoint, which follows when they match the send buffers (`MonitorMatchesBuffer`).
This is kept only if the byte loop keeps `ready_to_send` in step with the buffer
(`BytesInv`), and only because a queue is either empty and reset or has bytes to
send (`QueueInv`), and a write bit still to come belongs to a queue with bytes
(`WriteInv`: the `fd_status_RW` return of `on_peer_ready_send` for an empty queue is
never taken).  `IInv` is the conjunction.  `BytesInv` also carries that what is left
of the received block fits behind what is staged, which gives the assert of line 117.
`ScanComplete` needs `CountInv`: `nready` is the number of bits still to be visited,
so it cannot reach 0 early.  The refinement of `EchoService` needs `ConnInv`: open
clients and open descriptors correspond one to one.  `EchoExact` then follows from
`EchoCorrect` on the abstract machine (`EInv`: what is owed is the reference
definition's answer to the input so far, and the phase says whether the input ends
inside a message): each step extends the input by a byte, so the invariant is the
induction over it.

**simpledb.**  `DbAssumption`: ids are naturals, a leaf and the root hold at least one
cell, the padding byte is a byte.  Nothing is assumed of the order of the ids, of the
padding byte or of words never written, so keys may be damaged and searches may go
wrong; what is proved does not need them right.  (A search that leaves the tree,
`InsertAstray`, ends what the properties speak of.)  `TreeOk(pages, accepted)`: the pages
are one leaf, or a root above leaves that are `Chained` by `next_leaf` (each leaf has a
place in the chain, no two the same, and points to the next place), and over all leaves
the cells of each id are as many as were accepted (`Counted`).  The order of the leaves
and the place of a row in them are left open, so the invariant is kept wherever
`leaf_node_find` ends: that it ends inside the leaf is `FindRange`.  A split puts one
leaf behind another (`ChainGrows`) and parts its cells in two that fit (`SplitHalves`);
what is written into the root changes its words only (`NodeStays`).  Then the rows that
`select` meets from the one leaf that no other points to are all of them (`TreeReads`).
`DbInv` adds the file: outside `db_close` it is such a table of its own (`FileOk`), and
while `db_close` runs the pages below `flushed` are those of the cache (`Written`) and
the file never has a page more, so that the last page makes the two equal.

**Worker threads.**  The list theorems assume that the nodes of the ring are
distinct and that a new item is not among them; `AppendCorrect` needs the second
list not empty.  `ListServes` is refuted by `worker_list`; `LinksCorrect` is
what holds of the unlocked list for every order of the workers' statements.  Its
invariant (`LinksInv`) says at which statement of `workerDo` which links are set: a worker's own
two as soon as it is created, the head's two once `ListInit` has passed them, and that
whoever is past the test of `bInit` has seen them set.
`NoCreditLeft` needs where the handler, the pending signal and the semaphore are
after each command (`CreditInv`).

**Blocking servers.**  `BlockInv`: a connection that waits in `recv` owes its client
nothing, and those in the pool's queue are there once.  Every step then is a step of
`EchoService` or a stutter.

**TCP/IP stack.**  `NetInv` adds where the receive thread holds a packet and which
threads exist before and after `join_threads`.  `ArpInv` adds, for each entry, what is
known of it while the receive thread, the timer and IP output are at given places of
their functions (`SlotsSound`): why an entry may have no device (`NullKnown`), what the
timer may do with it (`TimerHas`), and, unless its slot is mixed, that its addresses and
its packets belong together and to what the two that work on it remember of it
(`Clean`).  No order of the three is excluded; `Alone` carries the case without an IP
output, in which no slot is ever mixed.

**Routes.**  `IpAssumption`: a word has more than four values.  `RouteInv`: the table
has the longest masks first (`LongestFirst`), which `rt_add` keeps because it inserts in
front of the first mask that is not longer (`RtAddSorts`); so the first route that
matches is the longest one that does (`LookupLongest`).  On every way from `ip_in` to
`ip_forward` the byte order is changed twice (`IpInRight`).  For the checksum, the sum
of three words is below four words, so the folding loop ends after two turns at most
(`FoldAllIs`), and the sum of a header with its own checksum folds to the largest word.

**Prime server.**  `isprime` is right because a divisor above the root has a cofactor
below it, and an odd number has odd divisors only (`IsPrimeRight`, for every number
above one).  `PrimeInv`: while one request at most is under way, the peer state holds
the number of the next one to be answered, and its verdict once the work has run.

**libuv echo server.**  `UvAssumption`: bytes are bytes, and the buffer and a read hold
at least one.  `UvFlow`: as long as no read overtakes a write callback (`behind`) and the
server runs, a connection has at most one write request and it covers all that is
staged, a new connection has the `*` under way and has read nothing, and an open one is in
the parser state the bytes so far lead to (`Parsed`), with what was heard and what is staged
together the reference's answer to them.  What one callback does with a whole read is
one application of `ReadByte` per byte; that they follow the reference to the last byte
is shown by the least number of bytes at which they would not.

**Chat server.**  `ChatInv`: what `select` reported is still so when the scan comes to
it (`ScanFresh`), although accept and close change `master` on the way, because only
the scan closes, and only the descriptor it is at; a client is at the end of one
descriptor (`OneEnd`); who is in the listen queue has heard nothing (`Waiting`).

**Block cache.**  `CacheAssumption`: there is a slot and a reserved block, and the FATs
are within the device.  `CacheInv`: no block is in two slots and no mirror of the FAT in
any (`Single`), and a slot that is not dirty has what the device has (`Clean`); without
the first an eviction could write back an old copy over a newer one, without the second
a drop could lose a write.  Each outcome of each call, with failed device calls and after
a power failure, is then a step of `BlockStore`.

**Session.**  `SessionInv`: an open volume has a generation that is not the image's only
if somebody has formatted under it (`Generations`), and otherwise what its cache knows
and the image does not is dirty (`DirtyCovers`).  So a sync that writes the dirty blocks
makes the image cover all that the volume shows, and an open that reads the image finds
what the last sync covered.  `KeywordAssumption`: the names of the commands fit their
table.  A keyword is only added where there is room for it (`RoomIs`, `AddKeywordsIs`),
or the process is overrun from then on.

**Menu.**  `MenuAssumption`: a level is at least one dash.  `MenuInv`: while the file is
read, each frame belongs to one line that owns a submenu (`own`), and its items are the
lines below that one, in order (`Tree`); the stack holds, for each level above the
current one, the frame that belongs to the last line of that level (`StackOk`).  Only with both does an indented line land in the frame its
indentation means.  Afterwards (`Built`) all lines are in the tree unless the frames were
too few, and the menu that is shown is one of the frames.

**Line editor.**  `LineAssumption`: the buffer has room for a character, the ring for a
command, no key is the NUL that ends a line, and a keyword is text.  `LineInv`: the text
before the cursor is at the start of one buffer and the text after it at the end of
the other, without a NUL and with no byte above 127 in the second (`Holds`: that is where
`key_right_process` looks for the end); the slots of the ring before `cmd_idx` are filled
first (`RingOk`), so that the commands there are can be read backwards from it.  The
editor's line is then the two texts joined (`TextOf`, `JoinIs`), and its commands the
ring from the newest back (`PastOf`, `PastIs`).  For every key a lemma says what it does
to the joined text (`BackText`, `DeleteText`, `CompleteText`, ...) or to the commands
(`RecordedIs`), and one that it is a step of `LineEditor` (`DoBackspace`, ..., `DoExecute`).

Only model-checked: liveness (`EventuallyServed`, `PauseTakesEffect`,
`ResumeTakesEffect`, `DemoTerminates` and those of `net_programs`), which the prover cannot
do; `TableSorted` and the refinement `ImplementsStore` of `SimpleDb`, which hold for three
leaves at most (the run `db_fourleaves` refutes the first for four); `HeldAsPlanned`, which is about the demo's time table; the two `TypesOK`;
`FilesSound` and `TreeSound`, which are about chains of clusters and trees of directories
of any length (induction over data); `FormatSound`, whose arithmetic divides by
variables; `NamesSound` and `ArgsRight`, whose definitions fold operators over sequences.

## 5. Not modelled

Command parsing and printing of simpledb (`.btree`, `.constants`; they change
nothing); columns of a row; `ListReverse`; what servers, clients and shells print;
dates and volume labels of uFAT; a failed read of the FAT in `alloc_cluster`, which goes
on to the next cluster; half-written FAT12 entries of directories (`UfatDir` has their
clusters, not the entries); the first two letters of uv-server's kill switch; the one-shot UDP and TCP examples; transport
and ICMP of tcpip, which are not written.

* `fat32/` (thinfat32) is a second FAT library from elsewhere with a test driver.
* `h264/` reads syntax elements from a buffer in a straight line.
* `qt/my_player` is threads around FFmpeg and Qt; most of what decides its
  behaviour is in those libraries.
* `kdriver`, `console-test`, `qt/tutorial`, `python`, `helloweb` are exercises with
  libraries.

## 6. Plan

1. Proofs: the chains of `UfatFile` (`ChainsSound`), the names of `UfatDir`, the layout of
   `UfatMkfs`.
2. Proofs: the refinement of `RowStore` by `SimpleDb`, for ascending ids and three leaves.
3. The start code search of **h264** as a pure function against a reference.
