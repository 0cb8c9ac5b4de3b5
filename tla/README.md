# A verification of pipefs

pipefs is a FUSE filesystem that shows a directory with some of its files
passed through a command: a file that has the source suffix is seen under the
target suffix, and what one reads from it is what the command prints with the
file as its input. This directory holds TLA+ modules of the parts of pipefs that are hard
to get right, the TLC configurations that check them, and theorems about them
that TLAPS checks.

## The system

### Parts, their state and operations

| part | source | state | operations |
|---|---|---|---|
| Read loop | `src/src/controller/BasicReadLoop.hpp` | `caches`: descriptor → (cache, stream, buffer); `queue` of tasks put off; the posted handlers | `add`, `remove`, `cancel`; on the IO thread `doAdd`, `startReading`, `readFinished` |
| Cache | `Cache.cpp` | the bytes, `finished`, a mutex, a condition variable | `write`, `finish` (IO thread); `read`, `isFinished`, `getSize`, `waitUntilFinished` (FUSE threads) |
| Cache registry | `BasicCaches.hpp` | file name → (cache, last access, usage count), a mutex | `get`, `getIfPresent`, `release`, `cleanup` |
| Controller | `Controller.cpp`, `FileData.hpp` | the mode; a `FileData` per open file | `open`, `preload`, `read`, `release`, `correctStatInfo`, `waitUntilFinished`, `createCommand`, the destructor |
| Spawning | `SpawnCommand.cpp` | pipes, children, the descriptors these inherit | `spawnCommand` |
| IO thread, signals | `IOThread.cpp`, `SignalHandler.cpp` | the io_service, its work, a thread; SIGCHLD, the wait for it | `start`, `stop`, `wait`, `cancel` |
| C interface | `pipefs_controller.cpp` | – | turns exceptions into error numbers |
| Translating operations | `functions_translate.c` | the file handle (source descriptor, `FileData`) | getattr, fgetattr, readdir, open, read, release, init, destroy |
| Pass-through operations | `functions.c`, `functions_common.c`, `util.c` | the source directory | all the others, with the checks of who may be seen and changed |
| Command line, log | `command_line.c`, `data.h`, `log.c`, `bin/main.c` | the flags, the limits, what is mandatory | parsing, the start of the program |
| Test framework | `turtle/` (vendored) | the expectations of mock objects, sequences, what root reaches | `MOCK_EXPECT`, calls, `verify`, `reset` |

FUSE calls the operations on several threads at a time. In cache mode `open`
asks the registry for the cache of the name, and if it is new hands it, with a
function that starts the command, to the read loop; in seekable mode each
`open` makes a cache for itself; without either, `open` starts the command
itself and `read` reads its pipe. The read loop lives on one thread, which
executes the handlers that are posted to an io_service in order. It starts
commands, copies what they print into the caches, and finishes them. FUSE threads
block in a cache until there is what they want to read.

### What is hard, and what makes each part correct

* **Read loop.** A handler runs later than it was posted. Between the two, other
  handlers remove entries, descriptors are closed and given to other commands,
  owners let go of caches whose tasks are queued, and the loop is cancelled.
  Correct is: never more commands than the process limit, and no task waiting
  while fewer run; a stream is read by exactly one continuation; its buffer
  outlives the read; what is removed has ended; a finished cache has all of the
  output and never changes; each task is served; the thread ends.
* **Cache.** Waiting and notifying without the mutex; stat takes the mutex twice.
  Correct is: no lost wakeup, no call that stays blocked, the bytes of the output
  and nothing else, a size that does not change.
* **Registry.** `cleanup` holds the registry's mutex but asks the caches one by
  one while the IO thread fills them. A use is taken for the path of the open and given back
  for the path at the release, which a rename of a directory may have changed; an open that fails leaves one behind. Correct is: one translation per file,
  shared by all its users; nothing in use is evicted; eviction in the order of
  last access, as far as needed and not further; what is given back was taken.
* **Names.** Each operation decides for itself, with a handful of checks, what a
  name stands for and whether it may be used so; some apply a check to a path they
  have not filled in yet, and the check of a name and the system call that makes it are two steps. Correct is: a source is never written or made writable
  through the mount; no file is hidden by a translation; what is listed can be
  found.
* **Controller, seekable.** `release` and `createCommand` meet at a `FileData` neither of
  them locks. Correct is: readers get all of the translation; a release stops
  the command; descriptors are closed.
* **Requests, cache mode.** A stat preloads, waits and asks for the size in steps, each of which looks
  the cache up anew, while other threads open, release and clean up. Correct is: no pointer to a cache that
  is gone is used, no assertion fails, the size reported is final and stays so, and
  every request is answered.
* **Commands.** Pipes and forks of several threads interleave, children inherit what
  is open, SIGCHLDs merge, and the handler of one arms the next. Correct is: readers of a pipe get
  what comes at their offset; the IO thread does not wait in vain; reads return; unmounting ends.
* **Options.** Flags overlap, words come in any order. Correct is: the flags mean what the usage says.

`PROJECT.json` lists the hazards by source line with the properties that cover
them.

## The modules

| module | models |
|---|---|
| `ReadLoop` | the read loop, with what its clients and the commands do to it; the refinement mapping to `Translations` |
| `Translations` | what the read loop promises: tasks start in order, at most so many at a time, deliver while they run, end |
| `MCReadLoop` | instances of `ReadLoop` |
| `ReadLoopProofs` | theorems about `ReadLoop`, and that it implements `Translations` |
| `Cache` | the monitor, with the FUSE threads and the IO thread in it; the refinement mapping to `StreamLog` |
| `StreamLog` | what a cache promises: a log that grows, is closed, and answers calls |
| `MCCache` | an instance of `Cache` |
| `CacheProofs` | theorems about `Cache`, and that it implements the safety part of `StreamLog` |
| `Caches` | the registry, with `open`, `preload` and `release` in cache mode as its clients, the opens that fail and the renames that change the paths of what is open |
| `MCCaches` | instances of `Caches` |
| `CachesProofs` | theorems about `Caches` |
| `SeekableController` | extends `ReadLoop` with the controller in seekable mode |
| `MCSeekableController` | instances of it |
| `SeekableProofs` | theorems about `SeekableController`; those of `ReadLoop` carry over to it |
| `Mount` | the names, the operations of the mount on them, in two steps where they make a name, and open files |
| `MCMount` | instances of `Mount` |
| `MountProofs` | theorems about `Mount` |
| `Options` | the start of the program: the command line, its flags, what makes it refuse or crash |
| `Requests` | extends `Options` with the requests FUSE makes for a translated file in each mode, step by step, on the registry, the caches and the read loop as the modules above promise them |
| `MCRequests` | instances of `Requests` |
| `RequestsProofs` | theorems about `Options` and `Requests` |
| `Commands` | pipes, forks and inherited descriptors, handles that read their pipe themselves, SIGCHLD and the end of the IO thread |
| `MCCommands` | instances of `Commands` |
| `CommandsProofs` | theorems about `Commands` |
| `Expectations` | the mock objects the unit tests rest on |
| `MCExpectations` | a test in the manner of `ReadLoopTest.cpp` |
| `ExpectationsProofs` | theorems about `Expectations` |

### How they correspond to the code

`ReadLoop`. `tasks` is the io_service's queue: `Add`, `Remove`, `Cancel` and the
completion of a read append to it, and `RunAdd`, `RunRemove`, `RunRead` and
`RunCancel` are the lambdas and `readFinished()`. They are one step each, since only
the IO thread touches the loop's state. Two calls are split where another
thread can act in between with an effect on what follows: `doAdd()` into locking
the `weak_ptr` (`DoAdd`) and starting the command (`StartCommand`, `SpawnFails`),
and the lambda of `remove()` into the erasing (`RunRemove`) and the rounds of its
loop (`DrainOne`, `DrainEnd`). `io` says where in this the IO thread is. `held`
are the caches somebody outside the loop owns: `lock()` fails for the others.
Destroying a map entry (`Destroy`, the destructor of `CacheData`) finishes the
cache, aborts its read, whose completion is posted in an unspecified order with
those of other aborted reads, and closes the stream. `stream->native_handle()` of a
closed stream is -1 (`NoFd`): `readFinished()` then posts `remove(-1)`, which
removes nothing but still goes on with the queue. The kernel picks any
descriptor that is not open. How many bytes a read returns is left out; that the
output comes in some number of reads, and whether all of it came, is not.

`Cache`. A step is what a thread does while it holds the mutex. `notify_all()`
comes after the mutex is released, so it is a step. Threads in `waiting` sleep
on the condition variable; they may wake up for no reason.

`Caches`. `get` and `release` are one step. `cleanup` is a step per question it
asks of a cache (`CleanupCount`, `CleanupLook`), with the registry locked
(`cleaner`) all the while. `Word` is the width of `size_t`: `total` wraps around. The
clock may stand still between two calls. A handle has the cache that its `open` got and the path that FUSE has for it now: `RenameDirectory` changes
the path of what is open and not the keys of the registry, and `ReleaseFile` gives back the use of the path. If the entry of that path
is not of the handle's cache, a use of another file is taken (`robbed` has the cache it is taken from) and its own is left (`pinned`). If there is
no use to take, the assertion fails (`ReleaseAborts`), which ends the process: the repository's build does not define `NDEBUG`. `OpenFails` is `dup()` failing for a
new cache after the use was counted: the cache is `orphaned`, and nobody gives the use back. So it is with a preload, whose use `pinned` has as well.

`SeekableController`. It is written as a client of `ReadLoop`: each of its actions is an action of that module together with
what the controller does, so that it implements `ReadLoop` by the way it is written, which says nothing about the code; what the controller adds is in the properties. `OpenSeekable`, `ReleaseSeekable` (up to posting the removal) and
`FreeFileData` (its end, when the `unique_ptr` destroys the `FileData` and its
cache), `StartSeekable` (`createCommand()` on the IO thread). `createCommand()` stores the
descriptor through a pointer that nobody keeps valid. The memory of a `FileData`
that is gone can be that of another one, so descriptors are kept by block of
memory and `open` gets any block that is free.

`Mount`. A directory is an identity, so that renaming one moves what is in it; what each name in each
directory is, is `entries`. A name is a stem with a suffix: `Visible` is `CHECK_SOURCE_PATH`, `HasSource` is
`translate_file()` finding a file. The kernel may have looked a name up long before the operation
gets to it: `Known` asks only that the mount can show such a name, and `SourceArrives` adds
sources at any time. An operation that makes a name (`mknod`, `create`, `symlink`, `link`, `mkdir`, and `rename` of its new name) checks that the name has no source
(`Check`) and makes it with a system call (`Mknod`, `Create`, ...; `CallFails` if that is refused): two steps, and other operations, on other
directories, and sources that arrive from outside come in between. `checked` are the names in between, `overtaken` those that got a source then. What the kernel does hold
off, and the module takes from it, is a second operation that changes the same directory, or removes or moves that directory, before the first has returned (`Idle`).
The other operations translate a name and use it in one step: no source is added beside a file that is there
under the target's name, so what they have found out stays true. `rename()`, `link()`, `open()` and `utime()` apply a check to a
path they have not filled in: it may refuse or not, and since a refusal changes nothing, the actions are those that were
not refused. `Moved` and `IsOpen` are what libfuse does for names that are open. Directories are only made in the root. What an open translation does to the
registry is in `Caches` and `Requests`. The operations that change nothing that the module has (`access`,
`chown`, `utime`, `statfs`, `readlink`, `opendir`) are operators that say which node they act on, or what
they allow: `MayAccess`, `Opens`, `Chowned`, `Utimed`, `Statfsed`, `LinkRead`, `OpenedDir`.

`Options`. A word of the command line is a record of its option and the meaning of its
argument. Words are taken one at a time in any order, each once. A flag is a set of bits, as
in `data.h`, and `IsFlagSet` asks for all of them. `EndOfWords` and the actions around it are `main()`;
`FuseInit` is `pipefs_init()`. The crashes are there: `realpath()` and `fopen()` that give
null pointers (`NoRoot`, `NoPidfile` in `main()` and `NoPidfileAnyMore` in `pipefs_init()`).

`Requests`. `pc` says where in its request each FUSE thread is. A step ends where the code gives a mutex of the registry
or of a cache back, or where a system call may fail; the state in between is what the C code and the
controller have on their stacks: `ptr` is the cache pointer, `statbuf` the size in the stat buffer. Cache objects are
allocated from `Free`, those that nobody owns: a raw pointer to a cache that is gone may show anything (`Dangling`). Cleanup
removes any of the entries it may remove, and the read loop writes to and finishes any running cache, since
`Caches` and `ReadLoop` say which and when. An exception that
`pipefs_controller.cpp` does not turn into an error number ends the process (`PreloadThrows`). As in `Caches`, a rename of a directory (`Rename`) changes `key`, the path
of an open file, but not while a request for it is being answered, since libfuse keeps a path for a request as it is; `Release` gives back what the path then has, and `robbed` are
the paths of the entries that have lost a use to another file. The usage count of an entry is the number of files that are open on its cache and `spare`: 1 stands for one or more uses that
nobody gives back (of preloads, failed opens, releases under other paths), a negative number for uses that were taken from the open files.

`Commands`. `pipe()`, `fork()` and the closing of the write end are steps, because another thread
may fork in between: `holdsW` and `holdsR` are the ends that each command
has inherited. A read in non-seekable mode is the check of the offset (`Read`), the `read()` of the pipe
(`ReadPipe`, or `ReadFails` if a SIGCHLD interrupts it) and the advance of `currentOffset` (`Reply`). `pending` is the signal that the kernel merges, `undelivered` what
the `signal_set` has counted, and `handler` the `async_wait`: armed, queued on the io_service, aborted, or
gone. The IO thread runs out of work when it is gone.

`Expectations`. `elements` are the elements of the sequences, which a call takes away up to its own
(`From`); `valid` and `unwinding` are what decides if a destructor reports;
`root` and `group` are the contexts by which `verify()` and `reset()` reach functions.

Operators whose comment begins with "Mutant" are not part of the model. They say what
a plausible bug in the definition below them would look like, and `PROJECT.json` lists
the property that finds it.

## The runs

| run | instance | shows |
|---|---|---|
| `readloop` | 3 caches that print twice, 2 descriptors, limit 1, 1 removal by a client | `ProcessLimited`, `BufferOwned`, `OneContinuation`, `QueueOnlyWhenFull`, `NoStaleRemoval`, `FinishedComplete`, `FinishedIsFinal`, that the loop implements `Translations`, `EveryTaskServed`, and `ShutdownTerminates` |
| `cache` | 2 threads, 3 bytes, offsets to 3 | `NoLostWakeup`, `SizeIsFinal`, `EveryCallReturns`, and that the monitor implements `StreamLog` with its liveness |
| `caches` | 3 files, 3 cache objects, 2 handles, 1 preload, 1 rename, limit 1, sizes to 1 | `UsageCounted`, `OneTranslation`, `LeastRecentFirst`, `CleanupEffective`, `QuietEvictsAboveLimit` |
| `caches_underflow` | 2 files, limit 2, sizes to 4, no rename | violates `NeverEvictsBelowLimit` |
| `seekable` | 3 files, 2 descriptors, 2 blocks, limit 1 | `CompleteUnlessReused`, `ReleaseReaches`, `InputsClosed`, `DescriptorKept` |
| `seekable_truncated` | 2 files, 1 descriptor | violates `CompleteForReader` |
| `mount` | the root and 1 directory, 2 files, 1 symbolic link, 1 handle, 3 entries | `SourceUntouched`, `NoShadow`, `NamesAgree` |
| `requests` | all command lines of 14 words, 1 file, 2 cache objects, 2 threads, sizes to 2, no rename | `FlagsMean`, `PointerValid`, `StatStable`, `RequestsAnswered` |
| `requests_renamed` | all command lines of 7 words, 2 files, 3 cache objects, 2 threads, sizes to 1, 1 file robbed of a use | `PointerValid`, `WaitNeedsCache`, `StatAnswersFinal`, `StatStable` |
| `commands` | 2 files (one prints 2 bytes, one nothing), 2 callers of each handle, pipes of 1 byte, 1 caller killed, 1 signal without an exit | `BytesInOrder`, `ReaperNeverBlocks`, `ReadsReturn` |
| `commands_unmount` | 1 file, 1 caller | violates `UnmountEnds` |
| `mock` | 2 mocks, 3 functions, 2 sequences, 6 statements to choose 3 from, 3 calls | `SequencesOrdered`, `PassedMeansMet`, `RootReachesAlive` |

**Bounds.** Three caches with a limit of one is the least with which two tasks are
queued while a third runs, so that order, dropped tasks and more than one round of
`remove()`'s loop matter; two descriptors is the least with which the next command
may or may not get the last one's. One removal by a client is stale if the stream of its number
ends before it runs, and two chunks are what it takes for a translation to be cut short. Two threads in a cache is the least with which `notify_one()` instead of
`notify_all()` loses a wakeup. Three files are needed for an order of eviction that goes on
after the first, and to have one left when the second is robbed of its use; `MaxTime` leaves accesses at the same time and at different ones. One rename (`MaxRenames`)
lets one release take a use of another file, whose own release then finds what is left; it can meet the preload's use, which is what more would do. `Word` exceeds all sums, so
that only a subtraction wraps around. Three entries are a directory, a source in it or beside it, and one more name
that an operation may make, hide or replace; one handle is enough for a file
that is open while its name or its directory changes. In `requests` two threads are the least with which
one cleans up or opens what the other has looked up, and two caches the least with which the entry
of a file is another one than before; the file is one there, and its run has the liveness. Requests for different files meet in the registry only through a rename, for which
`requests_renamed` has two files, a third cache object, and the words that `WaitNeedsCache` and its fellows are about. `MaxRobbed` ends the renames when a use has been taken:
the properties leave out the entry it was taken from, and the other one is still there to be checked. In `commands` two
files are what it takes for a child to inherit the pipe of another, and for signals to merge;
a pipe of one byte blocks a command that prints two; two callers are what it takes for a read to change the offset of another. In `mock`, two
calls of the expectations of a sequence and one outside of it are enough to
get out of order, and two sequences to pass one's check and fail the other's.
Symmetry sets are only used in runs without
liveness: descriptors, blocks, handles, keys, threads and caches with the same output are
compared for equality only. In `mount` these are the stems, files and directories that the specification does not name.
`readloop`, which has the liveness as well, takes instead, of the behaviours that differ in the names of their caches, the one that adds these in order (`MCSpec`, which is `LiveSpec` with that).

**Fairness.** The IO thread runs handlers as long as there are any (`IOFairness`,
weak fairness of all its steps together). In a cache, a thread that can
have the mutex gets it and `notify_all()` is called. `StreamLog`, and `EveryCallReturns` under
the condition that the cache is finished, need no more. That commands print and
end (`CommandFairness`) is no property of pipefs, and `EveryTaskServed` and
`ShutdownTerminates` assume it. In `Requests`, a thread goes on with its request when it can, and a running
translation ends (`Finish`, which stands for the read loop and its command, as `readloop` shows); new requests
and failures are not assumed. In `Commands`, a command goes on when its pipe lets it, a read returns when there is
something, and the IO thread runs (`Reaper`); nobody has to read or to release. Removals by clients,
cancelling, errors and letting go are never assumed to happen.

**Deadlock** is checked in every run. Where a system may stop, an action says so: `Terminated` in
`ReadLoop` (after `cancel()` with nothing left, or after an exception), `Aborted` in `Caches` (a failed assertion), `Stopped` and `Hung`
in `Requests` (the end of the process; all threads wait for translations that could not be set up), `Over` in `Commands` (the end; a
join that does not return), `Done` in `Expectations`.

### What the runs that fail show

* `caches_underflow`. `cleanup()` adds up sizes and subtracts them at different times.
  A cache that grows and is finished between the two is subtracted with more than was added.
  The total wraps around to a huge number, and whatever can be evicted is.
* `seekable_truncated`. `release()` posts the removal of the number in the `FileData`
  although the translation may have ended and its descriptor been closed. When the
  removal runs, a queued or new command may have that number. Its reader gets the
  end of file early.
* `commands_unmount`. `SignalHandler::cancel()` aborts the wait there is. If a SIGCHLD has come before, its
  handler is already queued and not aborted: it reaps its child, sees no error and waits for the next signal, which
  keeps the io_service busy, and the join in the controller's destructor does not return.

Also seen, but not a run of its own, because nothing in the repository promises otherwise, or because the properties name it as their
exception and the actions for it are in the runs that pass:

* With `--process-limit` and tasks in the queue, cancelling aborts
  the running reads; `readFinished()` posts `remove(-1)` for each, and the loop in
  `remove()` starts the commands of the queued tasks, for which unmounting then waits.
* `preload()` counts as a user of the entry for ever (`CleanupKeepsLimit` in `Caches` does not
  hold). What stat has reported stays true for the same reason (`StatStable`), until a rename lets another file's release take that use.
* `release()` gets the path that FUSE has for the file by then. Two files in two directories are open, and the first one is released: its entry, without a user, stays. Its directory goes away, the other's gets
  that name, and with it the second file the path of the first. Its release finds an entry without a use, and the assertion in `BasicCaches.hpp` fails (`ReleasesWereUses` in `Caches` does not hold);
  with `NDEBUG` the count would wrap around. If the entry is that of a file that has been preloaded, the release takes the preload's use and the cleanup after it can evict the entry before the stat waits for it:
  the assertion in `waitUntilFinished()` fails (`CacheIsThere` in `Requests` does not hold).
* After a release under another path, the pointer of `correctStatInfo()` can dangle and a file be translated twice, with a second size, even with `--preload=stat`: `PointerValid`, `StatAnswersFinal` and
  `StatStable` leave out the paths in `robbed` for that, and would not hold without. The entry of the released file keeps the use for ever.
* If the `dup()` of the source for a new cache fails, `open()` leaves with an error, and the use it has counted stays, of a cache that nobody will fill: later readers block (`OnOrphan`), and the entry is never evicted.
  The descriptor that `pipefs_open()` has opened stays open as well, which no module counts.
* A source that comes from outside of the mount between the check of a name and the system call that makes it hides what is made (`overtaken` in `NoShadow`).
* `fgetattr` with `--wait-on-stat` takes the size before it waits (`FstatAnswersFinal` in `Requests`).
* `cleanup()` starts with `>` and ends with `<`, so at exactly the
  limit it does not start, but if it has started it evicts one entry more.
* The descriptor dup()ed for a queued task is never closed if the file is
  released before its turn comes (the first disjunct of `InputsClosed`).
* A command that has inherited the write end of another one's pipe keeps the reader of that
  one from the end of the file (`ReadsReturn` leaves these out); two that have inherited each other's read ends do not
  get SIGPIPE and stay blocked after their files are released (`Hangs`).
* A child that is stopped or continued sends a SIGCHLD for which `wait()` on the IO thread finds no
  child that has ended, and blocks; if signals merge, children stay zombies until the next one.
* A reader of a non-seekable handle that is killed after it has taken bytes from the pipe leaves
  the position of the handle behind the pipe: all later reads are refused.

## The theorems

All are proved for every value of the constants that satisfies the assumption of the module: any
files, caches, threads, descriptors, outputs and limits, any command line, any test. Every invariant and every action property
that a passing run checks is one of them, and so are the two refinements, `Translations` and `StreamLog`, the latter without its liveness.

* `ReadLoopProofs`: `TypeCorrect`, `LimitRespected`, `BuffersOutliveReads`, `MapCorrect`,
  `FinishedForGood`, `QueueServed`, `StreamsContinued`, `RemovalsMeetTheirStream`, `FinishedHaveAll`,
  `LoopIsTranslations`, from `ReadLoopAssumption` alone. `ProcessLimited` and
  `BufferOwned` are inductive given the types. `MapMatchesStreams` is not: starting a
  command for a cache that already has a stream would leave two map entries for it.
  That this never happens needs that a cache is handed to `add()` once, is
  then in one place (posted, in the queue, or being started) and nowhere
  else, and has neither a stream nor been finished while it is there: `Once` = `TypeOK`, `MapMatchesStreams`,
  `PostedOnce`, `QueuedOnce`, `StartedOnce`. `FinishedIsFinal` follows from `Once`, which says
  that the stream of a finished cache is closed, and from the check in `readFinished()`.
  `QueueOnlyWhenFull` also needs that a task is only put off while the loop is full or on its way to look at the
  queue (`Waiting`), and that cancelling is the last thing posted that matters (`CancelPosted`). `OneContinuation` is the last conjunct of
  `Continuations`: no two reads of a stream are posted, what is posted was started, and a stream that is neither is being continued.
  `NoStaleRemoval` and `FinishedComplete` need `Ends`: a removal posted by the loop itself is of the number its stream still has, no two are of the
  same, and the stream has ended; they hold while no client has removed anything.
* `LoopIsTranslations` maps the tasks that wait to `queue` followed by the caches of the adds among the posted handlers (`CachesAdded`).
  Most of its proof is about that operator: it lists the adds in order (`AddedInOrder`), running a handler and posting others moves them without
  changing their order (`OrderStays`), and an add that runs was the first (`AddTaken`). Then each
  step of the loop is a step of `Translations` or leaves its state alone. It is here that the invariants above are needed:
  that the order is kept rests on `QueueOnlyWhenFull`, since `doAdd()` of a posted add passes over the queue if there is room; that no more run than may, on
  `MapMatchesStreams`, since the loop counts map entries and not translations (`RunningInUse`); that what crashes has delivered nothing, on `Unwritten`.
* `CacheProofs`: `NoWakeupLost`, `SizeStable`, `CacheIsLog`. `MonitorInv` adds to
  `NoLostWakeup` what `writer` says of `finished`: the cache is finished only if the IO thread
  is past it or about to notify, and a thread is at `getSize()` only if it is finished. The last is why the two locks of a stat are one answer of
  the log.
* `CachesProofs`: `UsesCounted`, `SharedWhileRunning`, `EvictsTheOldest`, `CleanupDoesItsJob`, `QuietCleanupSpares`. That the counts are right (`Counts`), that a running
  translation is the one of its file's entry (`RunningHeld`), and that a cache that somebody reads from is, unless it has been robbed of a use (`ReadHeld`), are inductive together with the types: an entry is only evicted if it has no use and
  has finished. A release under another path disturbs two entries at most, that of the path and that of the handle's cache, and the exceptions of `UsageCounted` are these two, each in one direction: a use is missing from the first and is
  too many in the second. An open or a preload that fails is too many as well. `UsesCounted` says there is no other way for a count to be wrong.
  The three properties of `cleanup()` need its loop invariant (`Swept`). While nothing has been written since it began (`quiet`), its total is the
  sum of the sizes it has counted, and later of all entries that are left, and no entry it has passed over can be evicted.
  `QuietCleanupSpares` says when `NeverEvictsBelowLimit`, which a run violates, does hold: what `cleanup()` has counted is never below the
  limit while it evicts (`CountedEnough`), so only what it counted can have been wrong.
  That a sum over the entries is what a pass that takes them one by one counts comes from `SumOver`; it is proved by taking a
  smallest set of which it would not be true.
* `SeekableProofs`: `DescriptorsKept`, `ReleasesReach`, `SeekIsTranslations`, `InputsAreClosed`, `ReadersGetAll`. A lemma (`ControllerIsClient`) takes the theorems about `ReadLoop` over to the
  seekable mode; it follows from how the module is written, and `SeekLimit` and `SeekIsTranslations` are two that are taken over.
  `DescriptorsKept` is about `createCommand()`, which stores through a pointer that may dangle: no open file loses its own descriptor by it.
  `ReleasesReach` says that a release stops its file's command unless it came before the command started. It needs that a `FileData`
  that is in use is not overwritten by `createCommand()` once its own descriptor is stored. `DescriptorsKept` says so, and the reason is that only the command being started can have lost its `FileData`, and whoever
  got the memory since has not been started. See `SeekInv`.
  `InputsAreClosed` is a matter of where a file's task is (`InputsInv`). `ReadersGetAll` is about all files at once: a removal that is posted, by the loop or by a release, is of
  a number that some file had which has been read to the end or is not open any more
  (`TasksSound`); the number in a `FileData` is that of a file that has or had this memory (`FromOwner`); so what has been finished was
  read to the end or is not open any more, or another file had its number (`Served`).
* `RequestsProofs`: `OptionsMeanFlags`, `WaitingIsSafe`, `PointersLive`, `StatsFinal`, `StatsStable`. `FlagsAsGiven` says bit by bit what the words taken
  so far have set; that the flags, which are several bits, mean one thing follows from it. The requests need: while a preloading stat is on its way, the entry of its name is pinned by a use that nobody gives back, unless the release of another file has taken one
  (`StatInv`, `robbed`); before that, no entry has fewer uses than readers (`SparesInv`); what a thread is about to set up is new and nobody else's (`SetUpsApart`). One lemma (`OthersKeep`)
  says what a step must leave alone for the other threads to keep this (`Keeps`), and each step is shown to.
  `StatStable` also needs that a size that was reported is that of a finished and pinned entry (`SizesInv`), and that no
  step touches such an entry (`SettledStays`).
* `CommandsProofs`: `ReadsInOrder`, `ReapingNeverBlocks`. For the reaping, there are at least as many children that have ended as
  signals that are pending, counted or queued (`EnoughZombies`); for the reads, a handle on which no two reads have been in progress has its three
  counters in step (`OneReader`), and a command whose pipe is being read has it open until it ends (`Processes`).
* `MountProofs`: `SourcesSafe`, `NothingShadowed`, `NamesMeanOneThing`, from `MountAssumption`. `NoShadow` follows from `ShadowInv`: a name that an operation has checked and not made yet has no source either, unless it was overtaken. `SourceUntouched` is not: a file with two names, one of them a source, could be written under the other, and
  a file that is open for writing could become a source. `SourceInv` adds that a source has no
  other name that is shown (`OneFace`) and is not open itself (`NotOpen`). `NamesAgree` follows from
  its part about names and from what is a source being a file (`SourceNames`): where the operations differ, in which of the
  checks they make, they would only disagree on a name that means two things.
* `ExpectationsProofs`: `OrderKept`, `RootIsRight`, `PassedIsMet`. What is left of a sequence was not stated before anything that has been called
  (`NothingEarlierLeft`). For the root, a function is reached as long as it is configured, through its mock or by itself, and
  a mock's group has functions of it only (`RootInv`). For the last, each statement that was not reset is either that of an
  expectation that stands and has counted the calls of it (`Stands`), or of a destroyed mock that was found to be satisfied or reported.

### Not proved

Liveness under fairness and whatever needs ENABLED are out of the prover's reach and
checked by TLC only: `EveryTaskServed`, `ShutdownTerminates`, `EveryCallReturns`, `ReadsReturn`, `RequestsAnswered`, and the
fairness in `StreamLog` (`ImplementsStreamLog` is `CacheIsLog` and that).

Induction theorems that take a predicate as a parameter cannot be used with the provers there are, and where an
induction was needed it is by a least counterexample: the sums of `CachesProofs` by a smallest finite set, the ranks
of the posted adds in `ReadLoopProofs` by cardinalities.

## Plan

What is worth doing next, in this order:

1. *What a client of `Translations` may rely on*: that a translation starts once, ends once and delivers nothing after. `Translations` does not
   say yet that each is asked for once, as `Add` does (`added`). With that, it can be proved from the short specification, and holds of the loop
   and of the seekable mode by `LoopIsTranslations` and `SeekIsTranslations`.
2. *When the other failing properties hold*, in the manner of `ReadersGetAll` and `QuietCleanupSpares`: that unmounting ends if no SIGCHLD is queued
   when `cancel()` runs. (Of the assertions in `release()` and `waitUntilFinished()`, `UsesCounted` and `WaitingIsSafe` say it.)
3. *Composition*: `Requests` on the actions of `Caches` instead of on what they promise, for two files, so that what
   `cleanup()` evicts and what stat reports meet in one model.
4. *Names in the registry*: what a cached translation is the translation of when directories are renamed and
   sources are replaced. No module has what an entry is the translation of.

## Not modelled

Wording and destinations of the log (`log_msg()` writes lines under a mutex; no state depends on them), numbers on the command line that do
not fit into an unsigned, the words that are handed on to FUSE; contents of files: bytes are positions in the output of a command.
`flush` and `fsyncdir` do nothing, `fsync` and `releasedir` nothing that another operation sees. `BasicReadLoop`'s "not added to
read loop" branch cannot be taken: the descriptor of
a new pipe is never in the map, since an entry leaves the map before its stream is closed.
Builds with `NDEBUG`, in which the assertions that can fail do not: the repository's build does not define it.
How the kernel and libfuse lock paths and directories is not modelled, but what `Mount` and `Requests` take from it is (`Idle`, and the path of a request in progress).
What symbolic links and devices lead to; sources
that are removed or replaced outside of the mount while they are open.
Failing to `dup()` the source in seekable mode fails the `open()` before anything
has been changed. Of the vendored `turtle` library, what formats messages, `throws()`, `calls()`, constraints with side effects and the macros that declare
mocks; the tests themselves. Neither is part of the program.
