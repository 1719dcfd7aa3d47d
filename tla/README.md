# multicat-supervisor: specification

This directory holds TLA+ modules that model the programs of this repository,
TLC configurations that check them on small instances, and theorems that TLAPS
proves for every instance.

## The system

A head end plays transport streams to multicast addresses and announces, in
each stream, the event being shown and the next one (EIT sections).

    StreamManager (HMI) --edits--> MySQL table
                                     |  rows: enable, status, eit_ts, sections
                                     v
    multicat-supervisor.sh --> multicat-supervisor --system()--> multicat.sh
                                     |                             | lock, pid files
                                     | sharedMemory_set            v
                                     +--> mapped table <-- multicat-eit (one per provider)
                                          of EitInfo           | file + aux file -> UDP
                                              ^                v
                                              |             receivers
                                     multicat-viewer

The other programs (aggregaRTP, reorderRTP, ingesTS, lasTS, offseTS,
multicat_validate) come from multicat: they share util.c with multicat-eit, and
RTP streams (aggregaRTP to reorderRTP) or files (multicat, its cleaning script
multicat_expire.sh, lasTS, offseTS, multicat_validate) with each other.

### Components

| component | state | operations | correct when |
|---|---|---|---|
| `sharedMemoryLib.c` | mapped file of `EitInfo`, named semaphore, handle per process | init, set, get, getWithoutUpdate, get_updated, close | each call is atomic, an update flag is only cleared by who has copied the entry, calls return |
| its callers: `multicat-supervisor.c`, `eit.c`, `multicat.c`, `multicat-viewer.c` | copy of an entry, stop flag | open, startup load, poll before each chunk, publish, close | what is played is what the supervisor published last, editions never go back |
| `multicat.sh` | lock file and pid file per provider, the kernel's processes | start, stop, restart, (status) | one process per provider, `stop` can stop what `start` started, nobody else is stopped |
| `multicat-supervisor.c`, `eit_mysql.c` | list of the last round, rows of this round, row statuses | poll, compare, publish, start, stop, stop all | streams follow the enabled rows, nothing plays that nobody will stop, the statuses are true |
| `multicat-supervisor.sh` | the daemon's pid file | start, stop, restart | a new daemon starts from a clean slate |
| `multicat.c` playing a file, `eit.c` | file position, auxiliary file position, shift, current section | read, add_eit, write, signal | no packet lost or reordered, sections whole, all of the file played |
| `multicat.c` recording, `util.c`, `multicat_expire.sh` | file pairs, current file number, stamps in a buffer | write, rotate, flush, resume after a crash, remove old files | file and auxiliary file agree, nothing recorded is lost by a program |
| `multicat.c` playing a recording, `util.c`, `offsets.c`, `lasts.c` | file number, two positions, delay | look up a date, read, go on with the next file, wait, drop | the place is the one asked for, chunks go out in order and on date |
| `multicat_validate.c` | file, stamp, status | look up, read stamps, wait | it says 0 exactly while chunks are missing |
| `aggregartp.c` | weighted sizes, retransmission queue | send, queue, retransmit | outputs share by weight, what was sent lately can be sent again |
| `reordertp.c` | buffer in sequence order, clock, retransmission passes | receive, ask again, drop doubles, send | packets leave in order, once, without holes, on time |
| `ingests.c` | PCR interpolation | one pass over a file | dates grow |
| `eit_xml.c`, `json_parsing.c`, `eit.c` | entry of a row, `ts_0` and `duration_0` | video to entry, entry to JSON and back, entry to section | what is announced is what the video or the row says, or the row gets a failure |
| `lib_ini.c`, `load_eit` of `util.c` | sections and parameters in a pool | load, look up, make an entry | each key is found under its header, and nothing that is absent is used |
| `logs.c` | log file | append | - |

### What is hard here

* The table is shared by processes that are started, stopped and killed at any
  time, protected by a named semaphore that each of them opens, unlinks and
  waits for with interruptible calls.
* The flag of an entry and the entry are read in different critical sections.
* Shell scripts test files, sleep five seconds, and write files; pids are used
  again; the daemon waits for them and can be killed while it does.
* The rows are edited while the daemon works through a copy that can be minutes
  old, and a failure of one row leaves the round half done.
* A chunk of packets grows when EIT sections go in: its tail waits for the next
  chunk, and file and auxiliary file then advance at different paces.
* A recording is two files of which one is buffered; it is read while it is
  written, killed, cut and removed.
* A stream over several links is lost, doubled, delayed and asked for again, by
  16-bit numbers and 32-bit dates that wrap around.
* An entry goes through four representations, each with its own limits, defaults and
  idea of what is not there.

`PROJECT.json` lists each hazard at its line, with the properties that cover it.

## The modules

### Shared memory: `SharedMemory`, `EitRegister`, `SharedMemoryRegister`

`SharedMemory` is `sharedMemoryLib.c` with its most general client. A call is
four or five steps, as in the code: wait for the semaphore (`sem_wait`), copy
the entry in two halves (`CopyFront`, `CopyBack`: a `memcpy` is not atomic),
clear the flag (`ClearUpdated`, `sharedMemory_get` only), `sem_post`.
A semaphore and its name are different things: `name` is what `/multicat.sem`
designates, `mutex[p]` what process p opened; `sharedMemory_close` unlinks
the name whoever uses it, and the next `OpenNew` makes another semaphore.
The constant `Faults` says what the environment does:

* `unlinked`: a process closes while others have the library open;
* `interrupted`: a signal ends a `sem_wait`, and the caller, which does not look
  at the result, goes on (the handlers are installed without `SA_RESTART`);
* `crashed`: a process dies between `sem_wait` and `sem_post`.

A process may die anywhere else without any fault. A call that fails
(`shm` file, `mmap`) ends the program and is not modelled.

`EitRegister` is the abstract specification: a table of registers on which each
call takes effect at one instant between its invocation and its return.
`SharedMemoryRegister` has the refinement mapping: the effect is at `sem_wait`.

### Programs around it: `EitClients`

The calls the supervisor, multicat-eit and multicat-viewer make on the library,
in the order of their `main`: `Open`, `StreamLoad`, `StreamCheck` (an entry nobody
filled is filled from the ini file), then `StreamPoll` and `StreamCopy` of `add_eit`
before each chunk; `Publish` in the supervisor; `ViewerLoad` and `ViewerCheck`, with
and without `-l`; `Close`. Editions of a provider are numbered as the supervisor
publishes them, 0 being the ini file's contents. `MaxEdition` bounds them.

### multicat.sh: `MulticatScript`

A pid has an `owner` (the provider whose multicat-eit it is) and may be `dying`
(it got SIGTERM). `Launch`, five seconds of `sleep`, `FindPid` (ps and grep, which
find more or less than the provider's process: `Prefix`, `Hides`), `Touch`, and
`Kill` for stop and for the first half of restart. Pids are used again as soon
as their process is gone. `status` changes nothing and is left out.

### The daemon: `Supervisor`

Composes the daemon with `MulticatScript`: `System` hands a command to the shell
`child` and the daemon goes on when it has exited. One action per turn of the loops of
`check_streaming_list_with_db`: `OldMissing`, `OldSame`, `OldNewer`, then `NewKnown`,
`NewRow`; `NewDone` keeps the new list only if something was done. `EnabledRows`
returns the rows in any order, since the query has no ORDER BY. `Publish` is one step (the shared memory
modules say when that is right). `SetStatus` also disables the row of a failure,
as the SQL does. `Edit` is the operator; `ServiceStart` is
`multicat-supervisor.sh start`, which kills what an earlier daemon left.

Each of `Cases` has the rows whose video is `playable`, what their sections are worth
(`kinds`; `short` is a row without section 1, for which the code publishes an uninitialised
structure: any row's section or none), and the `faults` that may happen: `multicat` (streams exit by
themselves), `slow` (a stream told to stop lives longer than five seconds), `database`, `killed`
(the daemon dies, its shell goes on).

Two assumptions about time. Without `slow`, a process that was told to stop is
gone before the five seconds of a later `start` are over. And whoever starts the service again
takes longer than a script needs for what it does without sleeping.

### The injector: `EitInjector`

The main loop of multicat-eit on a file: `file_Read` with its auxiliary file,
`add_eit`, the write and the shift. Packets are records: the file's n-th audio or
video packet, an EIT packet with the number of the section it belongs to and of the
packets still to come, a packet without synchronisation byte, filler. A chunk has
`ChunkPackets` packets and `packetTab` has `TabSize`; 3 and 8 stand for 7 and 20. Sections
are made of `length` bytes, from which `nbPacket` computes their packets as
`output_psi_section` does, and `Needed` as `psi_split_section` does. Reads wait for the date of the auxiliary
file; only the number of dates matters here. Input is a file: RTP input has a header that `add_eit` gets too, so that
it recognises no packet. `Cases` pairs option -l with the lengths of sections.

### RTP over several links: `AggregaRTP`, `ReorderRTP`, `RtpLink`

`AggregaRTP` is one turn of `aggregartp.c`'s loop per action. `ReadInput` takes a packet, in parts
if the input is TCP, chooses the output (`NextOutput`: the least weighted size among those before the first
without weight), adds what was read to its weighted size with the remainder of the division, and queues the packet
(`RetxQueue`, which purges the old ones; the unsigned difference of dates modulo `ClockMod`).
`RetxHandle` looks for the first packet with the number asked for and sends it and those behind it again, over
the next outputs or, with -X, the service. A datagram that is no request ends the program.

`ReorderRTP` has the program counter of the loop of `reordertp.c`: `PacketSend` while the first packet is due,
`RetxCheck` as steps of its passes (`RetxFollows`, `RetxDuplicate`, `RetxGap`, `RetxNextPass`), `Timeout`, poll, and `Receive` of
each readable input with the date read once. `NewRef` is `clock_NewRef` with its three cases;
`BuildTimestamp`, `NewerThan` and `Missing` have the arithmetic of their widths, `TsMod` and `SeqMod` standing
for 2^32 and 2^16. `output` is a history of what was sent, with what was known when it came.

`RtpLink` composes them with time and a network. Packets in `Disturbed` and all packets sent again may be lost,
doubled, or late by up to `MaxDelay`; so may requests. `Limits` and `MaxFaults` bound the faults, to
which belong a stray datagram and a restart of reordertp. Time passes only when both programs wait.

### Recordings: `AuxFile`, `Recorder`, `Player`, `Validate`, `Recording`

`AuxFile` has the pure operators of `util.c` on a pair of files: `CheckFileSizes`, `GetDirFile`, `LookupAuxFile` (the
binary search as a recursive function), and the tools `offsets` and `lasts`. A pair is the sequence of chunks, the
sequence of stamps, whether either ends in a torn piece, whether it is still linked, and when its file of chunks was changed last, which is what
`multicat_expire.sh` goes by: stamps that are flushed or written at the end do not change it (`ChangedAt`).

`Recorder` is multicat writing a file or a directory: a chunk goes to the disk at once (`WriteChunk`, which opens the
next file when the period has changed), its stamp to a buffer (`WriteStamp`, which flushes it in time). It may be stopped, killed, meet a
full disk or a power cut, each once, between any two of these steps, and is started again. `Expire` is
`multicat_expire.sh`. `Player` is multicat reading: `dir_InitRead` and `file_InitRead`, `ReadChunk`, `NextFile` or `FileEnds`, then the delay,
`Send`, and the loop's test. How early or late a chunk is (`Early`, `TooLate`) is looked at once, when it has been read. One that is early is slept for (`Sleep`, `Awake`)
and sent, whatever the time is by then; of the others a directory's player drops what is too late (`Drop`), and a file's player sends it and sets its clock by it (`NoSleep`). After the delay
comes `Send`, which for a slow program may again take time: `add_eit` waits for the memory of the events. `wake` is the end of the delay, and the history `sent` has both dates of each chunk,
`due` and `at`. `ReadChunk` looks for a chunk and its stamp in one step: as long as both files only grow, what was found is still there. `Validate` is `multicat_validate.c`; the stamp it never read
has any value. `Recording` composes them with a clock; `Cases` says who reads what, with which faults and how long.

### Where an entry comes from: `EitSection`, `EitXml`, `EitJson`, `EitGenerate`, `IniFile`, `IniEit`, `EitSources`

A section is a record of numbers and texts, a text being its length; arrays have the sizes of `eit.h`. `Garbage` is what memory
holds that was not set. `EitXml` is `eit_xml.c` on a document as `dvb_print_si` prints it: which program,
which two events (`build_sections_event_id` is a recursive function over the events in their order, with `Nearer` for the body of its loop), which descriptors. `EitJson` writes a section
as JSON and parses JSON into a section, with the type tests of each field (`Accepted`) before the values. `EitGenerate` is
`generate_eit`: dates, event numbers, and what each descriptor keeps. `IniFile` is `lib_ini.c` with its pool, in which each
allocation takes a place for good (`load_eit` frees some of the values, but gives no place back); `IniEit` is `load_eit` and what each program asks for when it starts.

`EitSources` composes them. The ini file is loaded line by line (`LoadLine`), the program starts or dies of a missing key
(`Configure`); the supervisor converts the rows as they are edited, in the steps of `convertStringsToEitStruct`
(`popen`, `fread` piece by piece, `Convert`, `Section0`, `Section1`), fails or publishes; `add_eit` puts the two sections on air in turn, once or
twice per chunk, while time passes. That the table is shared by processes is the subject of the first modules; here it is one variable.

### Faulty variants

Operators commented "Faulty variant" are bugs one could make in the definition
that follows them. They are part of no specification: with one in the place of
its definition, a run has to find a violation, which shows that its properties
do depend on the code.

## The runs

| run | properties | shows |
|---|---|---|
| SharedMemory_quiet | TypeOK, NoTornCopy, MutualExclusion, AcknowledgedIsCopied, ImplementsRegister, CallsReturn | without faults the library is atomic registers, and calls return |
| SharedMemory_churn | PerSemaphoreExclusion | processes that close, unlink and die still exclude those with the same semaphore |
| SharedMemory_signals | NeverStuck | whoever is interrupted while it waits, no semaphore is left taken |
| EitClients_quiet | SupervisedContent, EditionsInOrder, LastEditionIsPlayed | a stream plays the supervisor's editions, in order, up to the last |
| EitClients_stop | ProgramsFinish | programs stopped and interrupted by signals finish |
| Supervisor_streams | OneProcess, NoOrphan, StoppedIsStopped, TableMatchesList | streams that die, a daemon killed inside a script and restarted, bad rows, a lost database, slow stops: no doubles, no orphans (after an orderly exit neither), no false STOPPED; the table holds the editions of the list |
| Supervisor_live | LockHasPid, Converges | without faults locks have pids and the streams become the enabled rows; a signal ends the daemon |
| Injector_file | InjTypeOK, NothingLost, SectionsWhole, EndsOrLoops | growing chunks lose, double and reorder nothing; with one-packet sections: whole sections, the file to its end, or for ever with -l |
| Rtp_link | InOrder, Complete, OnTime, Sharing, Retransmittable, OnlyMissing, Drains | over a network that loses, doubles and delays, what comes out is in order, once and on time, and complete when no more is lost than there are passes; outputs share by weight; nothing is asked for that is there; nothing is held for ever |
| Recording_all | Paired, LookupFinds, Follows, Truthful, Kept | chunks and stamps stay paired over stops, kills, full disks and power cuts, what was recorded is kept, places are found; a player follows a recorder in order, no chunk leaves before its delay ends or, unless the program is slow, after, and delays end on date; the validator's status is true; cleaning takes the oldest files |
| Eit_sources | SourcesTypeOK, PresentAndFollowing, Carried, Outcome, Contiguous, EntryFromFile | the right events of a video go on air with what they have; a row is published or gets the status of its first fault; present and following event touch; keys are found under their headers, and an ini entry is what the file says |
| SharedMemory_unlink | MutualExclusion | *violated*: two semaphores after an unlink |

### Bounds

* Shared memory: two processes with two semaphores for the refinement (every
  conflict is between two calls), three with two semaphores for the exclusion (one more than
  semaphores, so that two share one and one has the other), one provider (entries
  do not interact) and two contents (to tell a mixture).
* Clients: the supervisor, a stream and a third program that competes for the semaphore;
  two editions, so that one is published between flag and copy.
* Supervisor: two rows (an order to get wrong, one failing and one not), three pids
  (two streams and one that lingers), one or two edits after any initial rows. A second
  shell is needed only where a killed daemon leaves one behind. Without kills, three edits were checked too.
* Injector: files of up to six packets, that is two chunks, the last one full or not,
  with every arrangement of EIT and other packets; sections of one, two and three packets, so that a shift
  reaches a chunk. With -l, the packets sent are not kept and sections count modulo 2.
* Rtp_link: eleven packets whose numbers (modulo 32, from 29) wrap around in their midst and whose timestamps (modulo 16) go beyond half their range, so that a restarted
  program continues them backwards; two outputs, with weights 1 and 2 or with one of weight 0; a buffer of
  seven units and a RetxDelay of three, that is two passes; two faults in all, of up to two losses, a double, a stray datagram and a restart,
  among the first four packets and everything sent again. Three sets of options: requests over the links, to a TCP service, and no -x.
  The start is at 0, where unsigned dates wrap around, or later.
* Recording_all: three or four periods of a directory, so that a file has one before and one after it, or one file; one or two faults per case
  and a restart after each, with the validator too. Chunks come at any time, at most `Gap` apart. `Cases` keeps faults apart from the readers where they only multiply.
* Eit_sources: some 60 documents that have each shape once (no program, other services, events repeated, descending, with number 0 before and behind others, with all, too many and no
  descriptors, sizes around each doubling), 21 spoilt values of JSON, and every ini file that lacks or changes one line of a complete one, or has keys twice, the first time without a value; three edits of a few rows,
  to see a published entry replaced by a failing one. Two components, three contents and two identifiers stand for 3, 10 and 10, and keep that more contents than components fit.

Symmetry is used for pids, processes and semaphores, in runs without liveness.
Deadlock is checked but where the system ends: the injector at the end of its file, a recording at its
last date, the sources when the program has died or nothing is left to edit.

### Fairness

* `SharedMemory`, `EitClients`: a process between lock and unlock is scheduled (weak), and one that
  waits gets a semaphore that is free again and again (strong: the futex wakes a
  waiter; a program does not re-enter before its next chunk). Nobody has to call, open or publish.
* `Supervisor`: the daemon's loop, the scripts and processes that got SIGTERM go on (weak).
  Nobody has to edit or to start or stop the service.
* `EitInjector`: the loop goes on (weak).
* `RtpLink`: both programs and time go on, and what is on the links arrives (weak, of all of these together). Nothing has
  to be lost, and nobody has to restart.
* `Recording` and `EitSources` have no liveness property.

## The theorems

All constants are arbitrary, under the named `ASSUME`s of the modules; what a theorem assumes beyond them is in its statement.

* `SharedMemory_proofs`: `TypeCorrect` (all faults); `ExclusionPerSemaphore` and
  `BinarySemaphores` (waits not interrupted); `NeverLeftTaken` (nobody dies inside); `ExclusionOfAll` (crashes only);
  `WholeCopies` and `AcknowledgedCopies` (no faults). The inductive invariant says, for
  each semaphore, that its value and the process inside exclude each other: value 1 and nobody inside, or value 0.
  PerSemaphoreExclusion alone is not inductive: it does not say that a process outside finds 0.
  For ExclusionOfAll one adds that all open processes have the semaphore of the name; for the copies, what the
  process inside has copied so far, step by step. NeverStuck is inductive with the types.
  Also `RegistersImplemented`, the refinement of `EitRegister` without faults, for any processes and entries. The initial
  states map to initial states; then, step by step, the wait maps to the effect of the call, opening, invoking and returning to themselves, and each half of
  a copy and the clearing of the flag to a stutter: what they write is what the mapping says the table has already. For this the mapping needs the exclusion and
  the invariant of the copies.
* `EitClients_proofs`: `ClientsUseLibrary` (the programs, however many, are clients of the
  library: each step of theirs is one of the library or leaves it alone), from which `ClientsExclude`, `ClientsReadWhole` and `ClientsShareRegisters`
  follow by citing the library's theorems. `StreamsAreSupervised` and `StreamsGoForward` hold under *all* faults, torn copies included, if no viewer has the
  provider of a stream (`Separate`; with one they are false, see EitClients_viewer below). Their invariant `ClientInv` speaks of the halves of an entry: each half in the table is of
  the last edition or of the one being published (`Supply`, `Publishing`), and each half a stream has copied is an edition no later than the table's (`Supplies`).
* `MulticatScript_proofs`: `ScriptTypeCorrect`, `OneProcessEach`, `LocksHavePids`, for one shell and
  providers whose command lines contain neither "sh" nor "supervisor" (`Hides = {}`), whatever the
  provider numbers and whenever processes die and pids are used again. OneProcess is not
  inductive: the invariant adds that whoever serves a provider has a lock file or a start under
  way (`Accounted`), that a lock file goes with a pid file that names it (`Recorded`),
  and that a start under way has no lock file yet (`StartingOne`).
* `Supervisor_proofs`: `SupervisedOneProcess`, `NobodyForgotten`, `StoppedDoesNotPlay`, `TableIsTheList` and, if no daemon is killed, `SupervisedLocks`, with `Hides = {}`, for
  any number of rows, pids, shells and edits and every set of faults. `ScriptInv` takes the script's invariant to the shells that killed daemons left behind: they can only be finishing a start.
  NoOrphan and StoppedIsStopped speak of the daemon between two rounds and are far from inductive. `DaemonInv` says what they become at each stage of a round:
  which of the two lists contains the streams that play (`Listed`), what the shell does for the stage (`Called`), and that a row that says STOPPED is not about to be launched (`Stopped`).
  `TableInv` says how far the table has come with the rows of the new list, and that what was read earlier has no newer date than what is read now.
* `RtpLink_proofs`: `OutputsBalanced` and `OutputsShare`, for any number of outputs, weights, sizes and packets and whatever the network and
  reordertp do. Neither is inductive. The invariant `Shared` says that what was taken off the weighted sizes is the same number for all of them: there is a
  `base` with bytes = weight * (base + weighted size) + remainder for each output. The step that matters is that the output with the least size is chosen and
  the least is subtracted; that a minimum exists is the lemma `LeastOf`, from the well-foundedness of `<`.
  `QueueIsRecent`: the queue is always an end of the packets sent (`Suffix`), and which of them belong to it by their dates is an end too (`Recent`), so that `RetxQueue` has to purge exactly
  the difference. It holds until the unsigned clock has counted to `ClockMod` (`InTime`), as the code assumes.
  `SentInOrder`: the buffer is sorted, and what was sent precedes what is in it unless that came too late (`Sorted`, `SentBefore`). It holds as long as the packets in
  the buffer are less than half the sequence numbers apart (`Near`): `PacketRecv` finds a packet's place by differences of 16-bit numbers. In Rtp_link it is always so.
  `AsksForMissing` is OnlyMissing, under the same condition: two packets side by side in a sorted buffer have nothing between them, and the count that RetxCheck makes of their 16-bit
  numbers is the number of packets there (`NotWanted`, `GapIsMissing`).
  `SentOnTime` is OnTime, if nothing holds reordertp up (`~Slow`, see below) and for the first half of the range of timestamps (`FewStamps`). Its invariant `DateInv` dates every packet on the way: a packet is
  read at the moment it is made, since time passes only when aggregartp has nothing to read (`Punctual`), and comes within MaxDelay (`UnderWay`). What the clock adds to a timestamp is then
  the time at which the packet was made and a lateness of 0..MaxDelay; a restart of the clock sets it to the lateness of one packet, and an average of latenesses, rounded towards 0, is one again
  (`Learnt`, `ClockLearns`). So each packet in the buffer is dated by when it was made (`Dating`), and one behind the head is overdue by no more than the jitter. That the head is not
  overdue in poll() is `Waiting`, one short argument per step of the loop. TLC checked `DateInv` on the cases of Rtp_link before it was proved.
* `Recording_proofs`: `ChunksArePaired`, `LookupIsRight` and `RecordedIsKept`, for any number of files, recorders and faults, in all three modes. Paired is not inductive, since the stamps
  that matter are partly in the buffer, and since chunks without stamps are not constrained by it. `RecInv` says that the stamps of a file and of the buffer together are as many as the chunks of the open file
  but for one whose stamp is being made (`OpenFile`), that they are those of their chunks, grow, and have not reached the next stamp to be made (`FilesSound`), and that dates of chunks grow (`DatesGrow`).
  The lemmas `SoundCut`, `SoundLater`, `SoundChunk` and `SoundStamp` say what cutting both files anywhere, a later date, a chunk and a stamp do to this: with them each fault is one short argument.
  For Kept, nothing but the cleaning removes a name (`NamesStay`), and the number of older files is a one-to-one numbering of the files from 0 (`PlacesDiffer`), so that what stays is as many as
  are wanted (`WantedStay`). TLC checked `RecInv` on the cases of Recording_all before it was proved.
  LookupFinds follows from Paired, since the stamps of a file grow: the recursive function of `Bisect` exists, for what is to be found is such a function (`SearchExists`), and every such function
  finds it, since a pair of offsets with the least distance at which it did not would have a half at which it did not (`SearchFinds`). `BisectCounts` turns that into the number of earlier stamps.
  `ValidatorIsTruthful` needs little more than that a place found is after a stamp that grows with it (`DirPlaceIs`, `CheckInv`), and holds under all faults.
  `PlayerFollows` is all of Follows. In its part for all readers a chunk is sent when its delay is over, and at once unless the program is slow (`Delays`). Order and pace of the delays follow from where a player is
  and what its clock says when it looks, before the sleep: in a directory its distance is constant (`DirSent`); in a
  file what it has still to read is later than what it has read, whatever recorders cut off and append meanwhile (`FilePlace`, by `StampsStep`), its clock is only ever set back, by a chunk that is too late when
  it is read (`FilePace`), and so the lags with which delays have ended are in order (`FileSent`). The other part, that a player far enough behind an undisturbed recorder sends every chunk and does not end, speaks of the recorder, its
  buffer, the cleaning and the player together. Its invariant `Placed` says that the chunk read next has its stamp on disk, has the next number and is not before the player's date. That it stays so rests
  on three invariants of the recorder: each chunk is in the file of its date, and in the order received (`Whole`); all but the stamps of the last `FileFlush` and a `Gap` are on disk (`InTime`); and
  the files are as old as their names say, so that the last Wanted keep theirs (`Aged`). At the end of a file the player then finds the next one, with its first stamp flushed or still to be awaited (`NextPlace`).
* `EitSources_proofs`, for any rows, videos, ini files and edits. `NoGapOnAir` is all of Contiguous: the clock keeps the start and duration of the last section 0 (`OnAir`), whichever entry
  the table has by the time of section 1. `NoRowForgotten` and `PublishedIsSound` are what can be said of Outcome without saying what the parsers compute: a row without status is the one
  in the table, and what is in the table comes from a row with section 0, accepted JSON and a video with its events (`Checked`: what is known at each stage). `TextFits` is the conjunct of SourcesTypeOK on the memory of a document.
  The other theorems say what the parsers compute, for documents, JSON and lines of any length. Selections of events and components (`Chosen`), the search for the two events and the joining of sequences are
  recursive functions; for each there is a lemma that the function exists (`Steps`, `Counting`) and one that says what it gives: which elements and in which order (`ChosenIs` and those after it), the least number and the next
  one (`NearestFound`), the elements of the parts (`JoinsIs`).
  `AnnouncedInOrder` and `NothingLostOnTheWay` are PresentAndFollowing and Carried. Their invariant `VideoInv` follows an event of a video whose events ascend through all stages: printed into the struct (`Printed`),
  written as JSON and read again (`Announced`), in the table (`InTable`) and on air (`AirOK`). That the parser accepts what the conversion writes, and reads the same from it, is proved field by field.
  `SourcesTyped` is SourcesTypeOK, `NothingUnsetOnAir` the conjunct of Outcome on memory that was never set. Neither is inductive: `TypeInv` says which sections are set *throughout* at each stage (`SetSection`, `Built`,
  `ConversionOK`), and what is in memory of the ini file (`IniOK`); what the parser accepts makes a section that is set throughout, whatever was in it.
  `FirstFaultIsNamed` is Outcome. Its invariant `Verdict` says what has been looked at and found without fault when the conversion has come to a stage. The theorem has a hypothesis, `SoundIsAccepted`: a row of the database
  carries the note `sound`, which says by itself whether its JSON is what it should be, and which Outcome compares with; the hypothesis is that these notes agree with `Accepted`. For the rows of Eit_sources TLC confirms it, since Outcome
  holds there with `sound` written by hand for each of the spoilt values.
  `FileUnderstood` is EntryFromFile. Its invariant `InMemory` says, after each line, which section is the last in memory, that looking up any key under any name gives the value of its first line so far, and how much of the pool is taken
  (a parameter takes three allocations, a header two), so that nothing is left out as long as the pool has room for the whole file (`TakenBound`). From this, each kind of line is one argument
  (`LineRemembered`), with a lemma on the parameters of a name when a section or a parameter is added behind the others (`SectionAdded`, `ParamAdded`), and one on a line that repeats a key (`FirstAdded`).
* `EitInjector_proofs`: `InjectorTypeCorrect`, `NothingIsLost`, `SectionsAreWhole` and `LoopGoesOn`, for any file, chunk, packetTab and section lengths; the last
  assumes that packetTab has room for a chunk (`ChunkPackets <= TabSize`; the code has 7 and 20). The invariant `InjInv` says that the shift and the next read make up a chunk (`Turning`), that
  what was sent, kept and read and the rest of the file make up the file (`NothingMissing`), and, if sections need one packet, that nothing is kept, that file and
  auxiliary file have come to the same place, and that the sections sent are numbered upwards below the next one (`InStep`): that is why the loop goes on, and GoesOn is not inductive without it.
  What `add_eit` makes of a chunk (`Replace`) and the packets of a kind (`Of`) are recursive functions. The library's induction theorems take an operator, so the lemmas use a set instead:
  `Counting` (a set of naturals with 0 and with each number's successor has them all) is from well-foundedness, `Steps` gives the existence of the functions, `OfIs` and
  `ReplaceIs` their equations; `ReplaceKeeps` and `ReplaceOne` are the two inductions over a chunk. TLC checked `InjInv` on the cases of Injector_file before it was proved.

`SemaphoreIsBinary`, `UsesLibrary`, `ScriptTypeOK`, `Balanced`, `PublishedOrFailed`, `OnlySoundRows`, `DocumentFits` and, by itself, `NothingUnset` are proved and in no run.

Only model-checked:

* liveness (`CallsReturn`, `ProgramsFinish`, `LastEditionIsPlayed`, `Converges`, `EndsOrLoops`, `Drains`), which is beyond the prover;
* `Complete` of the link. It depends on the passes of RetxCheck, the delays and the losses together, and holds for lengths such as those of Rtp_link only: if requests
  and answers take longer (`MaxDelay = 6`) TLC refutes it. `SentOnTime` does not extend to the whole range of timestamps either; the run goes beyond half of it.

What the attempt to prove Follows showed: as it was first stated, it held on the instance that was checked and not for all constants, and for reasons that are the code's. A player that follows ends
if a period passes without a chunk, for it opens the next file by number and OpenFile exits (so 2 * Gap <= Rotate); if no more than one file is kept, since a player whose
date is in a file just taken looks for its place in the next one, of which the first stamp is never found and there may be no other yet (Wanted >= 2); and if it is farther behind than what is kept
(delay <= Wanted * Rotate). Of a slow player only the ends of the delays are bounded. Lateness is looked at once, before the sleep: what the program oversleeps, or takes for `add_eit` and the write, it sends late,
however late that is, neither dropping the chunk nor moving its clock; the next chunk is read late and, if that is too late, is the one dropped, or the one that sets the clock. In a file the delays of a slow player keep the pace but for
`MaxLateness`, since its clock is only set back by what is later than that. A chunk that is garbled after a power cut has no date of its own to be held to. These are now in `Following` and Follows;
and Truthful, which had excluded faults, holds with them.

What the attempt to prove OnTime and OnlyMissing showed: OnTime said that no packet in the buffer is overdue while reordertp waits. This is so of the first one only. The dates of the others follow the
clock, which a packet that comes early or late sets anew when Average is 1 (TLC then finds one that is behind the head and overdue), so they may be overdue by the jitter. It now says so, and
says of the head what it had not: that poll() does not wait beyond its date. OnlyMissing compared with everything ever sent; but numbers repeat, so that a request for a packet that is
missing asks, by its number, also for one sent a whole round of numbers before. It now speaks of what was sent less than half a round ago (`Lately`).
A clock is always set by the first packet because the timestamps begin above `MaxGap` (`i_last_timestamp` starts at 2^32); this became an assumption. That a packet goes out twice only if the second copy came late is a matter
of RetxDelay and jitter, as Complete is, and is now there.

What the attempt to prove the properties of EitSources showed: Outcome said that a video is refused only if it has no events, and PresentAndFollowing left out events with number 0. That is so of one at the beginning. An event
with number 0 *behind* others becomes the present one, and the next event starts the search anew (eit_xml.c:310); if there is none, the video is refused, whatever else is in it. The instance had no such document. It has now, and Outcome says that a
video with its events out of order may be refused. EntryFromFile counted the lines of a component; but a key that is written twice counts as it is written first, and if that is without a value,
the component is missing although a later line has it. It now speaks of the first value of each part (`Described`). The constants are now assumed to be of their types (`Document`, `JsonOK`, `LineOK`):
numbers of a document fit in the fields that the generator of the XML has for them, JSON is any value whose integers are not negative, with any field missing or of another kind, and a line with an equals sign has something before it.

## Disagreements with the code's intent

One is a run, SharedMemory_unlink. The others come from the same modules with a configuration of their own, which TLC refutes:

| configuration | property | what happens |
|---|---|---|
| Script_prefix | StopsItsOwn | the pattern finds the providers whose number starts with the same digits: stopping 1 stops 12 (multicat.sh:32) |
| SharedMemory_quiet with `Faults <- Interruptions` | MutualExclusion | a signal during `sem_wait` lets a process in (sharedMemoryLib.c:101) |
| EitClients_viewer | ViewingIsReading | a viewer that looked before the first publication writes the ini file over it (multicat-viewer.c:139) |
| Script_two | OneProcess | two starts within five seconds both launch (multicat.sh:46) |
| Script_two with one shell and `Hides <- OnlyOne` | OneProcess | a video whose name contains "sh" is started twice (multicat.sh:32) |
| Supervisor_retry | EnabledIsPlayed | a row that failed and is corrected before the next round is taken for a playing one (multicat-supervisor.c:282) |
| Supervisor_index | FailureNamesItsRow | the failure to update an entry is written to another row, which is disabled (multicat-supervisor.c:219) |
| Supervisor_database | StopsOnlyDeleted | a failed query is an empty list: everything is stopped (multicat-supervisor.c:435) |
| Supervisor_database with `Cases <- ShortRows` | NextIsOwn | a row without section 1 announces what the stack holds (multicat-supervisor.c:155) |
| Injector_torn | SectionsJoin | a tail in the shift is replaced by another section (eit.c:507) |
| Injector_aux | GoesOn | longer sections use up the auxiliary file, and the program ends in spite of -l (multicat.c:460) |
| Injector_torn with `Cases <- Edge` | PacketsCounted | a section of 185 bytes gets one packet and needs two (eit.c:268) |

Also, with `slow`, Converges fails: a stream that lingers is found by the pattern of
the next `start`, enters the pid file, and makes a later `stop` fail for ever.

The properties of the other modules have preconditions where the code does less than one would like. What they exclude:

* RTP. Requests are made when poll() returns, and its timeout is for the first packet only (reordertp.c:584): when the stream stops, a hole near its end is
  asked for late or never, so Complete is about a stream that goes on. If the first packet falls due between lines 582 and 585, the unsigned difference wraps
  around and poll() waits for ever: OnTime and Drains fail with `Slow = TRUE`. A reordertp that is restarted while a request is under way gets a packet sent
  again first, and dates it by a clock that was never set (reordertp.c:393): it blocks those behind it, which is why OnTime says `Dated`.
  Within the first `RetxBuffer` after boot the queue is purged at once (aggregartp.c:162). Without -x a peer's request is read through a null pointer
  (aggregartp.c:177), and a weight of 0 on the first output divides by zero (aggregartp.c:469). MIN_RETX_DELAY, "10 ms", is compared with ticks of 27 MHz (reordertp.c:55, 540), and
  the test of RetxGetFd for no known peer is never true (reordertp.c:247): with none it sends to an address that is not set, which the model takes for a failed call.
* Recordings. The first stamp of a file is never found by LookupAuxFile: a place at or before it is the second chunk, which is what LookupFinds says. A player
  that follows a recorder by less than its flush and two chunks takes the end of the flushed stamps for the end of the file and exits, since OpenFile exits on a missing file
  (multicat.c:611, util.c:897). A SIGTERM that comes while `dir_Read` reads to the end of a file is forgotten (multicat.c:604). With -l a directory
  does not advance. At a change of files the validator checks the stamp of the old file again, or one it never read (multicat_validate.c:165).
  A short write on a full disk is not an error for `file_Write`.
* Videos. The following event is found only if its number is the present one's plus one, or the document has it first; else section 1 repeats section 0. Events that
  are repeated or not ascending, and an event with number 0 (which makes the code forget those before it), confuse the choice (eit_xml.c:310). Contents are counted with the size of the components (eit_xml.c:171).
  On the way through JSON a section loses its number, its start, its long text and its access identifiers, so the present event of a video always starts now (eit.c:349), and components
  behind one without tag move up (json_parsing.c:168).
* Rows. Section 0 has to be in the database even if the video has it. An update between section 0 and section 1 on air announces the old present event with the new following one (eit.c:473).
* Ini files. A line for which the pool has no room is left out silently: the loop tests for -1 and INI_PROBLEM_MEMORY is -2 (lib_ini.c:165; :121 says it is returned), and looking up a key then
  compares a null name (lib_ini.c:418). A missing key is a null pointer for strncpy or atoi (util.c:1292, 1396; multicat.c:919). Items are numbered from 0 in
  the code (util.c:1307) and from 1 in multicat.ini, where they are never found. Identifiers of 16 bits are read with the function for 8 (util.c:1384), and only for section 0.

## Plan

1. `SharedMemory`, `EitRegister`, `EitClients` - done, with proofs of the refinement and of all safety properties.
2. `MulticatScript`, `Supervisor` - done, with proofs of all safety properties.
3. `EitInjector` - done for files, with proofs of all safety properties.
4. `AggregaRTP`, `ReorderRTP`, `RtpLink` - done; all safety properties but Complete are proved.
5. `AuxFile`, `Recorder`, `Player`, `Validate`, `Recording` - done, with proofs of all safety properties.
6. `EitSection`, `EitXml`, `EitJson`, `EitGenerate`, `IniFile`, `IniEit`, `EitSources` - done, with proofs of all safety properties.

Every safety property of the runs is proved but `Complete`, which is true of short delays only. What would come next is a bound on the delays under which `Complete` can be proved,
and the option -w of aggregartp.

## Not modelled, and why

* UDP and FIFO handlers of multicat.c: one system call per datagram, without state that a property could be about. GetPCR and the RTP header decorate what is sent.
* `ingests.c`: one pass of arithmetic on PCRs that nothing else here calls.
* `logs.c`, `dvb_print_si.c`, `mpeg_print_pcr.c`: formatting; the latter two are tools of other projects.
* `multicat-supervisor.sh`: its start and stop are in `Supervisor` as far as they change what plays; its own pid file and its waits are not.
* The option -w of aggregartp, which writes new RTP headers, and address and option parsing everywhere.
