# ant-tracer: a verification project

`ant-tracer` is the firmware of a small nRF52 board that listens to ANT radio
traffic and prints every packet it hears. Beside the tracer proper it carries a
storage manager that keeps the configuration and software-update records in
flash, a clock with callouts, a command line on the debug probe, and a boot
loader that installs software updates. Paths below are relative to
`src/tracer/` unless they start with `src/`.

The modules here are TLA+ models of that code; TLC checks them on small
instances and TLAPS proves the central results for all sizes. `PROJECT.json`
lists, for every definition, the source lines it models, every run with its
properties, the hazards of the code and the properties that watch them.

## The system

One processor runs `Main` (`main/main.c:280`): initialisation, then the *super
loop* (`main.c:385`), which calls in turn the callouts (`TempusMagnaCirculi`),
the command line, the LED and button loop, `handleSocEvents` (soft-device events,
of which only flash events are used), `StoreSuperLoop`, the random-number buffer
and `TraceSuperLoop`, and sleeps when none of them did any work. Interrupts run
between any two instructions of it: the radio's (`radioInterrupt`), the clock's
(`RTC2_IRQHandler`). The radio's DMA and the soft device's flash engine run
beside the processor. Power may fail at any time; RAM is then lost and the flash
keeps what landed.

| Component | State it keeps | Operations | Talks to |
|---|---|---|---|
| flash operations (`store/store.c:279-487`) | the operation outstanding, `flashComplete`, `flashTries` | `flashErase`, `flashWrite`, `StoreFlashed` | soft device (calls, events), `handleSocEvents`, store |
| circular record store (`store/store.c:490-1458`) | `currentWrite`, `sequence`, `buffer`, `wrGo`'s `state` and `needSeq`, `opFlag`, `staging` | `StoreSuperLoop`, `wrGo`, `readFlash`, the request functions, `store list` | flash operations, configuration |
| configuration (`store/config.c`, the CONFIG states of `StoreSuperLoop`) | `Config`, the config page, `configSaving`, `configSaveTimer` | `ConfigInitialize`, `ConfigDefault`, `ConfigSave`, `ConfigIsDone` | store, flash operations, commands, reboot |
| packet capture (`app/tracer.c`) | `packets[]`, `packetWr`, `packetRd`, `packetCnt`, the radio | `radioInterrupt`, `TraceSuperLoop`, `radioStart`, FREQUENCY | radio and DMA, configuration |
| clock (`time/rtc.c`) | `tod0`, `tod0Frac`, `todWraps`, `todSecs`, `hibernate` | `RTC2_IRQHandler`, `GetTODZero64`, `SetTOD` | RTC2, callouts |
| callouts (`time/tempus.c`) | `tempusList` | `TempusCallout`, `TempusMagnaCirculi` | clock, reboot, everything with a timer |
| reboot, buttons (`main/board.c`) | `rebootTimer`, `ktbCounter`, button counters | `Reboot`, `kickTheBucket`, `BoardLoop` | callouts, configuration |
| command line (`main/cmd.c`) | the line edited | `CommandLoop` | all commands |
| random numbers (`misc/rand.c`), event log (`debug/tachyon.c`) | a buffer with read and write indexes; a circular log | refill, take; log | soft device; interrupts |
| boot loader (`src/loader/`) | `SuInfo`, `SuExec`, the bit maps `chunks` (missing) and `pages` (to program) | three passes over the store: search, compare, write; the erase loop; `map.c` | the store's flash format |

What is hard in it:

* **Power loss in the middle of a flash operation.** Every record, sequence
  record, page erase, config slot can be cut short, and start-up rebuilds the
  write pointer and the newest configuration from what it finds.
* **Failing flash operations.** The soft device may refuse a time slot after part
  of a write has landed; the same operation is tried four more times and then done
  by the processor itself.
* **A circular region.** Records straddle pages, do not straddle the end of the
  region, and recycling a page cuts the oldest records.
* **Shared buffers.** One staging union for three request kinds, one buffer for
  reading and writing, one flag for "a save is going on".
* **Interrupt, DMA and super loop** on one packet ring, with a count two parties
  update.

* **Lists, counters and clocks changed under the feet of their reader**: callbacks
  that change the callout list being run, an interrupt between two reads of the
  time, counters that wrap.
* **Installing software** from records in any order and number, with power lost
  between the erase and the last chunk.

What makes each part correct is stated as the properties below.

## The modules

| Module | Models | State and actions |
|---|---|---|
| `FlashService` | what the store may rely on when it schedules an operation | `flash`, `request`, `flashComplete`; `FlashErase`, `FlashWrite`, `FlashProgress` (part of it lands), `FlashFinish` (all landed, reported), `FlashPowerLoss`. NOR flash: `Program` clears bits only, a word programmed twice with different values is `Garbled` |
| `FlashOp`, `MCFlashOp` | the retry engine that provides the service | `Schedule` is what `flashErase` and `flashWrite` share; `FlashedOk`, `FlashedRetry`, `FlashedRaw` are the three ways through `StoreFlashed`; `SdLand`, `SdSucceed`, `SdFail` are the soft device |
| `StoreRing`, `MCStoreRing` | the circular record store, over `FlashService` | `StartRecord` is IDLE with `wrNew`, `wr` and the first entry of `wrGo`; `ContinueRecord` is WRITING; each entry of `wrGo` is one of `WrGoErase`, `WrGoWrite`, `WrGoDone`. `Readback`, `ReadWritePtr`, `ReadSequence` are what `readFlash` computes |
| `DurableConfig` | the promise about the configuration: one durable version, replaced in one step | `Change`, `Snapshot`, `Commit`, `Acknowledge`, `Restart` |
| `ConfigStore` | `config.c` and the CONFIG states | `SaveStart` is IDLE and CONFIG0, then `RingWrite` (WRITING), `PageErase` (CONFIG1), `SlotWrite` (CONFIG2), `SaveDone` (CONFIG3); `Boot` is `Main` up to the super loop: `ConfigInitialize`, INIT0, `TraceSetup`; `StoreList` is `store list` over the staging area |
| `PacketQueue` | a bounded first-in first-out queue that drops a packet only when it is full | `Hear` (a good packet came in), then `Accept` or `Drop`; `Take` |
| `Reboot` | `board.c`'s reboot, extending `ConfigStore` | `RebootCommand`, and `kickTheBucket` as `KickResets` (`NVIC_SystemReset`) and `KickAgain` (force a save, set the timer again) |
| `PacketRing` | the packet buffer | `PacketBegins`, `PacketEnds` (radio and DMA), `RadioInterrupt`, `TakePacket`, `ReadStamp`, `ReadData`, `EndPrint` (`TraceSuperLoop` in the pieces an interrupt can come between), `RetuneOff`, `RetuneOn` (FREQUENCY) |
| `MainLoop` | the super loop and its sleep, extending `PacketRing` | `WakeUp` (`sd_app_evt_wait`), `Command` and `OtherParts` (the parts before the tracer), `TraceSuperLoop`, `NextRound` (sleep or go round), `RtcInterrupt` |
| `SoftwareUpdate` | the promise of the boot loader: the program changes only by installing, in one step, the newest update offered | `Offer`, `Install` |
| `BootLoader`, `MCBootLoader` | `src/loader/main.c` | `StoreRecord`, `Recycle`, `Reset` are the application; `SearchInfo`, `SearchChunk`, `SearchExecute`, `CompareChunk`, `WriteBegins` and `WriteEnds` are the callbacks in the three values of `Op`; `EraseBegins`, `EraseEnds`, `EraseSkips` the erase loop; `SearchGivesUp`, `CompareEqual`, `WriteDone` leave for the application; `PowerLoss` anywhere |
| `Callouts` | the promise of the callout list | `Tick`, `Schedule`, `Fire`, `Return` |
| `Tempus` | `tempus.c` | `TempusCallout` from the super loop (`AppCallout`) or from a callback (`CallbackCallout`); `ScanBegin`, `ScanFire`, `Return`, `ScanEnd` are `TempusMagnaCirculi` |
| `Rtc` | `rtc.c` | `RTC2_IRQHandler` (reads COUNTER, `updateTOD`), `SetMatch` (writes CC), `GetTODZero64` in its three reads, `Tick` (the counter and its match) |
| `ChunkMap` | `src/loader/map.c` | `MapClearAll`, `MapClear`, `MapSet`, `MapSetRange`; `IsClear`, `IsSet` |
| `BitPack` | `wr` and `rd` of `store.c` | `Wr`, `ImportRecord` (also of a record cut short), `Rd`; the loops inside are `wr` (`FillWord` once round, `LastBits` at the end) and `rd` (`TakeWord`, `TakeBits`) |
| `Rand` | `rand.c` | `RandGet`, `RandRefill` |
| `CommandLine` | `cmd.c` | `Greet`, `CommandLoop` (`EndOfLine`, `Edit`); `args` is the loop that cuts the line, `CutWord` once round |
| `Parts` | the six modules above, `Tempus` to `CommandLine`, side by side: a behaviour runs one of them | |
| `FlashOp_proofs`, `StoreRing_proofs`, `Reboot_proofs`, `PacketRing_proofs`, `Tempus_proofs`, `Parts_proofs`, `BootLoader_proofs`, `MCBootLoader_proofs` | theorems | |

How they compose: `FlashOp` implements `FlashService`; `StoreRing` instantiates
`FlashService` and uses its actions for every flash operation; `ConfigStore` uses
the service slot by slot and takes the ring for what `StoreRing` shows it to be
(a record is there whole or not at all; recycling a page keeps the newest,
`RingLeft`); `ConfigStore` implements `DurableConfig`; `Reboot` adds the reboot to it
and takes a callout for what `Tempus` shows it to be (run some time after it is set).
`PacketRing` implements `PacketQueue`; `MainLoop` adds the loop that reads it, and takes
the clock's interrupts for granted. `Tempus` implements `Callouts`. `BootLoader` implements
`SoftwareUpdate`; it takes `readFlash`, which its `store.c` shares with the application's,
for what `StoreRing` shows it to be (whole records, oldest first) and `map.c` for a set
(`RangeSet` and the plain set operations), which is what `ChunkMap` shows it to be.

Operators called `Bug...` are mutated forms of the definition that follows them:
each is a plausible slip in that piece of code, and makes one property fail.

### Abstractions

* A word of flash in `StoreRing` is what the reader tells apart (a record's
  n-th word, a sequence record, erased, garbled); a record kind is its length.
  The packing of fields into words is `BitPack`'s. Page sequence numbers do not
  wrap (26 bits, `store.c:108-113`).
* A request of `StoreRing` comes when none waits: the three request functions share
  one staging union (`store.c:1488`) and a second one before IDLE packs the first
  would replace its data. Nothing in this repository calls them, so there is no
  caller to show doing that; the model keeps to the interface.
* A page erase is one step, as the code assumes (`store.c:697-699`). It may
  happen before a power loss without having been reported.
* A configuration is its sequence number, a version, and whether its frequency is
  set (`TraceSetup` asks); the CRC is a slot being torn or not. The device id is set
  from the board at each start (`main.c:341`) and is no part of the version.
* `wrGo` with an empty buffer (after `store list`) writes 41 words nobody packed,
  modelled as garbled ones.
* The soft device accepts the operation it is given; its return value is ignored
  by the code (`store.c:404`, `store.c:422`).
* A packet is its number on the air, a slot with a bad CRC is `Damaged`.
* `Reboot` counts no seconds. `Future(0)` is not 0 once the clock runs, so `reboot 0`
  never cancels, whatever its help text says (`board.c:305-308`): the model's
  command always sets the timer.
* `BootLoader` counts addresses in chunks and holds the contents of a chunk as one
  value: erased, half programmed (`Torn`), programmed over something (`Garbled`), or
  data. An erase or a write cut short by a power loss leaves `Torn`. The chunks of
  an update lie below the record store, two updates never share a sequence number,
  and a chunk's data is that of its update (`LoaderAssumption`). The updates of the
  runs differ in version: `SuExec` is matched by sequence while it is read
  (`src/loader/main.c:390`), but in the end by version alone (`:436`), so a newer
  update of the *same* version is installed on the older one's execute record.
* `Rtc` lets the handler be late by anything up to `Late` ticks, which may be many
  intervals: only a handler later than a wrap of the counter less two seconds
  (`RtcAssumption`) is excluded, which the code does not deal with either
  (`rtc.c:209-213`). It skips the rounds it missed and is back on track
  (`rtc.c:281-284`), with one exception that the model includes: COUNTER is read
  once (`rtc.c:293`) and CC written later (`rtc.c:312`), and by then the match may
  be one tick ahead, where RTC2 may miss it, or passed. The clock then stands until
  the counter comes round, 512 seconds it never makes up; `lost` counts these. The
  raw writes and erases of the retry fallback stop the processor for long enough.
* `packetCnt` and `packetRd` change in one step of `TakePacket`, two statements in the code
  (`tracer.c:405-409`): the interrupt between them reads `packetCnt` and `packetWr` only.
* `store list` (a debug command) keeps in the passing runs to what `store.c:218` asks of
  callers, not to come while a write is under way (`ListAnytime = FALSE`, in `StoreRing` and
  in `ConfigStore`). What it does to a record being written is the run `StoreRingList`. Into
  `staging.config` it reads the last configuration of the ring, while the soft device may
  be writing from there: with `ListAnytime = TRUE` in `ConfigStore.cfg`, TLC finds
  `RequestNotForgotten`, `KeepsPromise`, `ResetKeeps` and `EventuallyDurable` violated, as the
  old configuration, or a slot of which neither half fits the other, is written and
  reported saved. `FindsLastSave` still holds, in that what was written is what is
  counted as saved.
* `Rand`: `RandGet` gives zeros for bytes it does not have (`rand.c:79`); those are not
  among the bytes given. `write` may stand one past the end between two refills
  (`rand.c:148`); the next one begins at 0.
* `BitPack`: a word is the set of its bits that are 1, and a shift moves their numbers. A
  field is packed only where the record still fits the buffer (`Fits`), which is made
  large enough for the longest record there is (`store.c:503-513`).
* `CommandLine`: characters are classes; the output, and waiting for room in it
  (`cmd.c:276`), are left out, and so is the table of commands.

## The runs

| Run | Question and answer |
|---|---|
| `FlashOp` | Does the retry engine implement the service, whatever part of an operation landed before it failed? Yes, and every operation completes (`EventuallyComplete`), success is only reported for what is in the flash whole (`CompleteIsWhole`), and no operation is left with nobody working on it (`NeverOrphaned`). |
| `StoreRing` | Is the newest data found after a power loss at any point? `RecoversNewest`: a scan finds a suffix of the records written, in order, the one being written whole or not at all. `LastRecordSurvives`: the last one reported is among them. `RestartAgrees`: an idle store stands where a restart would put it. `NeverGarbles`: nothing is programmed over old words, and the retry states of `wrGo` are dead, as the XXX of `store.c:622` suspects. `LosesOnlyOldest`: only recycling the oldest page loses a record. `EventuallyWritten`: a request is written. |
| `ConfigStore` | `KeepsPromise`: through slot writes, the ring copy, the page erase and power losses, what a restart finds changes in one step from the old to the saved configuration. `FindsLastSave`, `RequestNotForgotten`, `EventuallyDurable`: a completed save is never undone, a request never lost, and durable in the end. `ResetKeeps`: a reset before the tries run out cuts no save short and loses nothing asked for, unless saves have overlapped. `EventuallyResets`: a reboot asked for is carried out. |
| `PacketRing` | For every interleaving of radio, interrupts and the super loop: `CountMatches` (`packetCnt` is the distance between the pointers, retunes included); until a retune `IsQueue` (a good packet is queued unless the buffer is full, no other is, and they leave in order), `DmaClear` (the radio never writes a waiting slot), `QueuedIntact` (waiting packets are whole and under their own stamp), `HeldIntact` (also the one being printed, until the buffer fills up behind it). `EventuallyPrinted`: `TraceSuperLoop` reports no work even with packets left (`tracer.c:396`), so the loop sleeps on them; the clock's interrupts still get every one printed. |
| `BootLoader` | Records of several updates in any order, cut by the ring's recycling, and a power loss in any pass or in the middle of an erase or write. `InstallsWhole`: the application runs only the program it had or the newest complete and executed update, whole. `CleanProgramming`: only erased flash is programmed. `ErasesWhatDiffers`: a page is erased only when something is missing from it. `InstalledInTheEnd`: a complete newest update is installed, and runs. |
| `Parts` | `IsCalloutService`: whatever callbacks do to the list being run, no callout is lost, run twice, early or out of order. `EventuallyRun`: a due one is run. `ClockIsRight`: however late the handler, the clock shows no time to come, counts each wrap once, and is behind by less than an interval and a step once the handler is done; only a match CC was written too late for costs it a wrap. `ReadsARealTime`: `GetTODZero64` returns a time the clock showed during the call. `TracksSlots`: the bit map is the set it stands for at every boundary of its bytes. `ReadsWhatWasWritten`: `rd` gives back what `wr` packed across word boundaries, and notices a lost word. `GivesEachByteOnce`: no random byte is used twice. `RunsTheLine`: each line runs as the words it holds, once, CR LF as one end. |

Runs that show the code doing otherwise than its own comments say:

| Run | What it shows |
|---|---|
| `ConfigStoreDone` | A save requested while another is in the flash is reported done when that one ends (`config.c:128`, `store.c:1364`), and stays so while it is written; `kickTheBucket` resets before it or in the middle of it. That is why `ResetKeeps` excepts saves that overlap, which `kickTheBucket` itself makes happen when it forces a save. |
| `ConfigStoreWrap` | `confSequence` is 16 bits and compared with `>`: at the wrap a restart takes an older configuration (`config.c:154`, `config.c:173`). The run wraps at 4. 65536 saves are 2048 erases of the config page, well within the 10,000 the flash allows. |
| `StoreRingList` | `store list` reads through the buffer of a write under way (`store.c:218`, `store.c:1574`). |
| `PacketRingFull` | With the buffer full behind it, the packet being printed is overwritten: the count drops before the slot is read (`tracer.c:163`, `tracer.c:405`). |
| `PacketRingRetune` | FREQUENCY points the DMA at slot 0 and leaves `packetWr` (`tracer.c:273`). |
| `BootLoaderEnd` | An update that ends at the maps' end, 0x40000, passes the test for missing chunks with none collected, because `MapSetRange` ignores such a range (`src/loader/map.c:281`, `src/loader/main.c:77`). |

### Bounds, and why they are enough

* `FlashOp`: two pages of two words, writes of one to three words (one crosses
  the page), two retries for four. The engine treats every retry alike.
* `StoreRing`: three pages of four words, records of one and three words, seven
  records (`MaxRecords`), two power losses (`MaxCrashes`). A record with the
  sequence word behind it is two or four words, so records end on the last word
  of a page, straddle pages, meet the end of the region, and the region wraps.
  Two losses allow one during the repair of the other.
* `ConfigStore`: two slots for 32, three requests besides those of `kickTheBucket`, two
  tries for three, two power losses: the page fills up, is copied to the ring, erased
  and filled again, and a reset comes by a finished save and by the last try.
* `PacketRing`: three slots, six packets, one FREQUENCY command: the buffer is empty,
  full and wraps twice.
* `BootLoader`: two geometries in one run. Pages of one chunk, two updates of a chunk
  and a header with a bad address, up to four records, two of a kind, so that
  updates, copies and executes come in every order; and pages of two chunks with an
  update of two pages, of which one chunk is there already and one looks erased. One
  power loss; the loader keeps nothing over a restart but the flash, so a second one
  starts from a state that one has already reached.
* `Parts`: three callouts, three seconds and delays of 0, 1 and 3; a second of 8 ticks, a
  counter that wraps at 24 and two and a half wraps of it, matches every 4, the handler up
  to 6 late (more than an interval, so rounds are skipped and matches go unseen); eight slots in bytes of three bits; words of two bits, a first one of one, and
  fields of one and three; a random buffer of eight; lines of five characters and two
  words.

`CHECK_DEADLOCK FALSE` stands where the bounds (records, packets, requests) stop
the model, never because the code stops; `FlashOp` has no such bound and checks for
deadlock.

### Fairness

The super loop never ends and calls each of its parts every time round, so its
steps are weakly fair (`SuperLoop`, `StoreFlashed`). The soft device answers every
operation it accepted, as its interface promises (`SdSucceed \/ SdFail`, and
`FlashReports`, which is what `FlashOp` makes of it: `EventuallyComplete`). The clock
ticks and interrupts (`TimerExpires`, `RtcInterrupt`: a match that goes unseen, as `Rtc` shows it
may, comes again when the counter has come round), and the super loop runs the callouts (`KickTheBucket`,
`TempusMagnaCirculi`). Nothing else runs on the processor while the boot loader does
(`Main`). Requests, power losses, progress of part of an operation
and the radio have no fairness. `EventuallyDurable` holds with a bounded number of
requests: each `ConfigSave(false)` re-arms the five-second timer, so commands less
than five seconds apart postpone the save for as long as they go on.

## The proofs

All for every value of the constants, from the assumption each module names.

* `FlashOp_proofs` (from `FlashOpAssumption`). The inductive invariant `Inv` adds to
  the type invariant and the two safety properties that a posted success is for
  an operation that is in the flash (`OkIsWhole`) and that a write has words
  (`OpShape`). It rests on `AppliedTwice`: applying an operation to a flash it was
  applied to changes nothing, because programming a word twice with one value is
  programming it once (`ProgramTwice`). Theorems: `TypeCorrect`, `Unorphaned`, `Whole`, and
  `Refines` (`FlashOp` implements `FlashService`): a landed part maps to progress, the
  event or the raw write to completion, failures and retries to nothing.
* `PacketRing_proofs` (from `PacketAssumption`). The types and `CountCorrect` hold for any
  number of retunes. Until the first one, `Inv` adds that the DMA writes the slot
  `packetWr` (`Synced`) and that the held slot is the one behind `packetRd` (`HeldBehind`); that
  slot is `PACKETS - 1` ahead, so it meets `packetWr` only when the count is
  `PACKETS - 1`. Theorems: `DmaIsClear`, `PacketsIntact`, `PrintedIntact` (until the buffer
  fills up), `RingIsQueue` (the ring implements the bounded queue: a good packet, once
  the interrupt has seen it, is in the queue unless that was full). `LoopKeepsRing`: every behaviour of `MainLoop` is one of `PacketRing`, so
  all of this holds with the super loop and its sleep, too (`MainTypeCorrect`).
* `Tempus_proofs` (under `TempusAssumption`). `ListSound`, that the list is sorted, without
  repetition and of callouts whose time is set, is inductive with the types: taking
  a callout out (`Removed`) and putting it in front of the first later one (`PlaceIs`,
  `Inserted`) keep it. It is what the refinement rests on: the head is a callout due
  earliest, and `TempusCallout` finds the entry it changes. Theorems: `ListCorrect`,
  `ImplementsCallouts`, `ServedInOrder`, and `Refines`, which puts the two together.
* `Parts_proofs` (from `PartsAssumption`) is about `Parts`, whose steps are those of one
  part at a time (`PartRuns`).
  *Clock.* The words say what the counter was when the interrupt last read it, at `h` of its
  own time (`ReadAt`); true time is later by a wrap for each match that went unseen
  (`Unseen`). The match asked for then (`Due`) is at most a wrap ahead, or waits for the interrupt,
  or is the one whose interrupt read the counter (`Awaits`, `Pending`, `Handles`). In the
  counter's time the next interrupt is therefore less than a wrap after the last, and sees
  each wrap once, by the seconds having gone back (`WrapSeen`). This is why `Late` stays two
  seconds short of a wrap: one for the first match, a second ahead, and one for what
  `todSecs` cuts off. Theorem: `ClockKeepsTime`. What `GetTODZero64` has read lies
  between what the clock showed when it was called and what it shows, if the seconds have not changed
  (`ReaderInv`): had they, its third read would tell. Theorem: `TimeReadIsReal`. It rests
  on a second being a whole number of intervals (16) and a wrap of seconds (512).
  *Chunk map.* A slot's bit is in its byte and nowhere else (`BitPlace`), slots are in the
  order of their addresses (`SlotOrder`), and the three pieces in which `MapSetRange` sets
  bits are those of the range's slots (`RangeIs`). Theorem: `MapHoldsSlots`.
  *Random bytes.* `write` stands `count` bytes behind `read`, wrapped (`EndsAtWrite`). Theorem:
  `EachByteOnce`.
  *Loops.* `wr`, `rd` and the cutting of a line are recursive functions of their loop's
  variables. That such a function exists at all, and computes what the loop does, is
  shown once for any loop with a count that goes down every time round (`CountsDown`): the
  results after `n` rounds agree with each other (`LoopExists`), what every round keeps
  holds at the end (`LoopKeeps`), and what goes over from a round's result to its start holds of
  all (`LoopInduct`). All three are the least-number principle (`LeastOf`).
  *Packing.* `FieldAt` says that a field lies between two places of the buffer: `rd` takes it out
  from the first, whatever the buffer holds behind the second, and finds a record with
  fewer words too short. `wr` puts its field there, over any number of words, and
  leaves everything before it (`WrPacks`). The invariant `PackInv` is that the
  fields lie one behind the other (`Placed`), that the pointer is behind the last (`PackedSoFar`) and,
  while they are read, behind as many as were read, or the record has been found too short;
  and it is found so by its last field at the latest (`ReadSoFar`). Theorem: `PackedIsRead`.
  *Command line.* After each word the loop has cut the runs of the line that begin before
  `cp`, in order, and `cp` is not within a word (`CutSoFar`, `CutStep`); it stops with the line cut
  or the arguments full (`CutStops`). `CR` remembers that the last character was one. Theorem: `LinesRun`.
  *Callouts.* The steps of `Parts` that run the list are steps of `Tempus` (`SameSteps`), so
  `Tempus_proofs` applies. Theorem: `ServesCallouts`.
  The invariants of the parts together are `PartsTyped`; the clock's needs to know in addition
  that CC holds a value of the counter (`CcInv`).
* `BootLoader_proofs` (from `LoaderAssumption`). The invariant follows the passes. In
  COMPARE every chunk read is in the flash or its page is marked (`CompareSound`); in the
  erase loop that holds of all chunks, and the marked pages behind the loop are
  erased (`EraseSound`); so in WRITE every chunk of the update is there, erased, or the
  one being written (`WriteSound`). The loop ends at the store's start, above every chunk
  (`DivHigh`), and begins at page 1, below them all (`DivLow`, from `SaneInfo`). Theorem:
  `CleanFlash`; the run checks it in two geometries at once as `CleanProgramming`.
  The second half of the module (with `WellFormed` as a hypothesis) shows that the boot
  loader implements `SoftwareUpdate`. `WellFormed` says which updates that is true of: they
  end before the maps do (the run `BootLoaderEnd` shows what happens to others), fill
  whole pages, and have a version of their own that is not 0 (after the search `Main`
  compares versions alone, and `SuExec` starts at version 0). The invariant adds to the
  one above what the search knows before each record (`SearchSound`: behind the first
  header of the newest update, `Tells` says which chunks and whether the execute record
  came), that the update being installed is what any search of this store ends with
  (`Chosen`; there is one, `OneChosen`), and that it is fixed from the first erase to the
  last chunk (`EraseStarted`, `WriteProgress`). Hence `SearchEnds`: a search after a power loss in
  the middle of an install finds the same update again, and does not give up. An erase
  touches pages of the update only (`ErasedPage`), so the first one maps to `Install` and all
  later steps to nothing (`EveryStepInstalls`); when the application runs, the image is the
  flash (`RunsImage`). Theorem: `InstallsUpdates`. That a page is erased for a reason
  (`ErasesForAReason`) needs that a marked page lacks something until it is erased, which
  the erases of other pages do not change (`NeedSound`); and `TypeCorrect` needs that no pass
  leaves the store or the code space (`PosSound`).
* `MCBootLoader_proofs` carries these theorems over to the specification TLC runs, which keeps one
  of two geometries (`TypeInGeometry`, `CleanInGeometry`, `ErasesInGeometry`,
  `InstallsInGeometry`). The invariant is the one above in the geometry at hand
  (`InGeometry`, `Installing`): any updates and sizes in the first, and in the second the
  update of two pages, which is shown to be well-formed (`LargeIsWellFormed`).
* `Reboot_proofs` (from `ConfigAssumption` and `RebootAssumption`, with `ListAnytime = FALSE`) is about `ConfigStore` with the
  reboot over it, for as long as the sequence number does not wrap: its theorems take
  `[]NoWrap` as a hypothesis, and the run `ConfigStoreWrap` shows that they need it. Two
  facts carry the invariant. One record is ahead of all others a restart would look at
  (`Ordered`), so whatever a flash operation does to the page or the ring, the restart
  finds either what it found or the copy being saved (`Kept`, `Landed`, `RecoversLeader`).
  And the copy being saved is that record already or ahead of all of them
  (`SavesNewer`), in the ring before the page is erased (`FlashSound`). That the scans find
  a newest record at all (`NewestIsOne`) is the least-number principle (`LowestOf`).
  Theorems: `TypeCorrect`, `RestartFindsLastSave`, `NothingForgotten`, `Refines` (the promise of
  `DurableConfig`), and `ResetIsSafe`, for which `FlagHonest` says what `configSaving` is
  worth until saves overlap.
  `RunningIsNewest` and `DurableIsMonotone` are what follows from that promise alone, and
  hold of the device by the refinement.
* `StoreRing_proofs` (from `RingAssumption`) takes `ListAnytime = FALSE` as a hypothesis; the run
  `StoreRingList` shows what `store list` during a write does. The inductive invariant
  `RingInv` has two parts. `FlashSound`: no word is garbled, pages are filled from the front
  (`Packed`), and one sequence record is ahead of all others a scan finds
  (`Recoverable`). `WriterSound`: an idle writer stands where a restart would (`Stands`); one
  that erases still stands there, and the record does not fit the page (`Erasing`); of
  one that writes, the first words are in the flash and the rest are erased
  (`Halfway`), and the record either goes on in the newest page (`WritesOn`) or carries the
  sequence record of a page that has none (`WritesNewPage`). The steps follow the writer:
  a write begins (`BeginsHere`, `BeginsNewPage`), lands word by word (`WriteLands`), ends
  (`WriteDone`), or a power loss leaves the flash to `Restarts`, the least-number
  principle: what was left in the middle is a state from which a restart recovers. Theorems:
  `TypeCorrect`, `ProgramsErasedFlash`, `StandsWhereARestartWould`.
* The second half of `StoreRing_proofs` (from the same assumptions) is about what a restart
  reads back, which `RingInv` does not mention. `readFlash` scans pages from the oldest
  on and wraps; seen from page `o` the region is a straight tape (`Tape`), and what it
  delivers is a fold over the tape's words (`Scan`, `Reads`; `ReadbackIs` shows that this is what
  `Readback` computes, for pages that are a `Run`: one after the other, with consecutive
  sequence numbers). The fold is a recursive function, and what one more word does to it
  is shown by the least-number principle (`Induct`). Four facts carry the invariant
  `ReadsInv`, which adds `ReadSound` and `FreshSound` to `RingInv`. Between two writes
  what is read is a suffix of what was written (`Kept`, `Keeps`). During a write that is
  so of the words before the write pointer (`Held`), and the record being written is read
  only once its last word has landed (`HeldReads`). A write that goes on behind the newest
  page enters the page after the run (`EntersNext`), and its sequence record, landing,
  makes the run one longer (`HeldLandsPage`). An erase takes a free page (`ErasesFree`), or
  the oldest and with it a prefix (`ErasesOldest`, `KeptErased`). `FreshSound` says that the record
  waiting, the one being written and those written are different, so that a reader of the
  log can tell them apart. Theorems: `NewestAreRecovered`; `OnlyTheOldestIsLost`;
  `LastOneSurvives`, which needs three pages (`defs.h:108-113` gives the store 62): then one of the last
  two pages of the run holds a record to read when the oldest page is erased (`Firm`), and with
  two pages there is no such page left.

`Tempus` is instantiated by `Parts`, which states its assumption; the theorems of
`Tempus_proofs` take it as a hypothesis.

Every invariant and action property of the runs that pass is a theorem. Only
model-checked is liveness, which needs ENABLED (the prover does not handle it):
`EventuallyComplete`, `EventuallyWritten`, `EventuallyDurable`, `EventuallyResets`,
`EventuallyPrinted`, `InstalledInTheEnd` and `EventuallyRun`.
The library's induction theorems cannot be used here, as they take an operator;
where a recursive function had to be reasoned about (`Scan`, `wr`, `rd`, `args`), the proofs use
the least-number principle instead.

## Not modelled

* Formatting and debug output, packet decoders (no state), `b85` and the CRC (pure
  functions), register set-up, host tools.
* The event log (`debug/tachyon.c`): a debugging aid that nothing in the firmware reads.
* LEDs and buttons (`BoardLoop`), `debugger.c`, the table of commands, `SetTOD64` and the
  conversions of times, the hibernation of the clock (never asked for).
* The soft device, the vendor's headers and libraries: of some 318,000 lines under
  `src/`, all but about 8,000 are the chip vendor's SDK (`src/nordic`, the `cpu` directories).
  Nothing of it is this program's; the soft device's flash interface, its pool of
  random bytes and its event wait are modelled from how the code uses them.

## Plan

1. *(done)* The flash service and its retry engine; the record store over it; the
   configuration over both; the packet ring.
2. *(done)* `Tempus` and `Reboot`; `Rtc`; `BootLoader` with `ChunkMap`; `BitPack`, `Rand`,
   `CommandLine`; `MainLoop`.
3. *(done)* Proofs of the configuration and the reboot, and of the boot loader.
4. *(done)* Proofs of the record store: what its writer programs and where it stands, and
   what a restart reads back.
5. *(done)* Proofs of the clock, the chunk map, the random bytes and the callouts, as `Parts`
   runs them.
6. *(done)* The types of the boot loader, its erases, and its theorems in both geometries of
   `MCBootLoader`.
7. *(done)* Proofs of the record packing and the command line, by induction over their loops,
   and of the types of all the parts.
