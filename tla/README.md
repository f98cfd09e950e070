# A TLA+ development for tvmod

tvmod packages DVB drivers for QNAP NAS models: three copies of the Linux media
tree (`media/3.10`, `3.12`, `3.19`), and Python and shell scripts that build a
model's kernel, build the modules against it and collect them. The programs'
own core logic is the demultiplexer between the tuner drivers and the television
server (`media/3.19/dvb-core`: `dvb_demux.c`, `dmxdev.c`, `dvb_ringbuffer.c`),
then what starts, feeds, suspends and removes a USB stick (`dvb_frontend.c`,
`dvbdev.c`, `usb/dvb-usb-v2`), then the build scripts. The tuner drivers below are
register programming. This directory models the demultiplexer, the life of a
frontend and the USB core of the 3.19 tree, and the build of one model; the two
older trees' demultiplexers differ from it in 26 lines or fewer per file.

Contents: 1 the system, 2 the modules, 3 the runs, 4 what was found,
5 bounds, assumptions and fairness, 6 the proofs, 7 what is not modelled,
8 plan.

## 1. The system

| component | state it keeps | operations | properties that make it correct |
|---|---|---|---|
| ring buffer (`dvb_ringbuffer.c`) | `data`, `size`, `pread`, `pwrite`, `error` | `write`, `read_user`, `flush`, `reset`, `avail`, `free` | a byte FIFO for one reader and one writer without a lock; never full-looks-empty |
| dmxdev: a descriptor's buffer (`dmxdev.c`) | the ring, the filter's state, the section timer, the wait queue | demux callbacks, the timer handler, `read`, `SET_BUFFER_SIZE`, start and stop | no gap inside a `read()`, no lost wake-up, the flush of an error never tears the ring |
| dmxdev: section filters (`dmxdev.c`) | the table of `dmxdev_filter` | open, `SET_FILTER`, `START`, `STOP`, close, section callback, timeout | filters of one PID share one feed, and none loses it because a neighbour comes or goes; nothing leaks |
| dmxdev: PES filters and DVR (`dmxdev.c`) | the PID list of each filter | open, `SET_PES_FILTER`, `START`, `STOP`, `ADD_PID`, `REMOVE_PID`, close | a tap gets what it asked for, the DVR device each packet once, nothing leaks |
| demux (`dvb_demux.c`) | tables of feeds and section filters, `feed_list`, `pesfilter` | allocate, set, start, stop, release; the software filter | chains and list hold what is allocated, once |
| section assembler (`dvb_demux.c`) | `secbuf_base`, `tsfeedp`, `secbufp`, `cc`, `pusi_seen` | one TS packet | whole sections, in order, none missed, no overrun |
| packet synchronisation (`dvb_demux.c`) | `tsbuf`, `tsbufp` | a USB transfer | packets cut out at 0x47 |
| frontend (`dvb_frontend.c`) | `thread`, `exit`, `sem` | open, ioctl, release, the tuning thread, resume, unregister | an open node has a thread, one user of the hardware at a time, the thread ends, nothing freed is used |
| device registration (`dvbdev.c`) | minors, user counts | register, open, release | who unregisters waits for the last user |
| dvb-usb-v2 (`dvb_usb_core.c`, `usb_urb.c`) | `active_fe`, `feed_count`, `state_bits`, `powered`, the URBs | start and stop a feed, `fe_init`, `fe_sleep`, suspend, resume, disconnect | what is fed streams, power is balanced, removal ends |
| dvb-usb, rc-core, tuners, CA, net | reference counts, key timer, registers | | see section 7 |
| `mediaBuild.py`, `QTS.py`, `kConfig.py` | files: `linux-*.cfg`, `.bak`, `buildlog`, `.config`, `*.ko` | a run per model | configurations are restored, modules match their directory |
| `mediaCollect.py`, `install`, `build-all.sh`, `deploy/` | directories; loaded modules | collect, load, unload | section 7 |

Interactions. The driver hands packets to `dvb_demux.c` in softirq context, which
walks `feed_list` under `demux->lock` and calls back into `dmxdev.c`
(`dvb_dmxdev_ts_callback`, `dvb_dmxdev_section_callback`); these store into the
descriptor's ring under `dev->lock` and wake the reader. The ioctls, serialised
by `dmxdev->mutex`, call down into `dvb_demux.c` under `demux->mutex`, which takes
`demux->lock` for a moment at a time. `read()` runs under `filter->mutex` (the DVR
device: under nothing) and shares only the ring with the callback. The timer
handler runs on its own, and `del_timer` does not wait for it.

Downwards, the first filter on a PID and the last one off it reach the driver as
`start_feed` and `stop_feed`, under `demux->mutex`. The frontend's thread reaches the
same driver, under nothing the demultiplexer holds: `fe->ops.init` when it begins,
`fe->ops.sleep` when it ends, some time after the node was closed. Three bits in
`state_bits` are all that orders the two: a feed waits for `ADAP_INIT`, a sleep for
`ADAP_STREAMING`. The thread, the opener of the node and the ioctls share the
hardware through `fepriv->sem`, but read and write `fe->exit` and `fepriv->thread`
without it. An ioctl holds it throughout, but for `FE_GET_EVENT`, which sleeps without it.
The build scripts talk to each other through files.

Hard behaviours: the lock-free ring; an ioctl that stops, edits and restarts a feed
other descriptors use, in a dozen steps with deliveries between them; error
returns in the middle of such a sequence; the late timer; packets lost and
repeated; state left in tables that are never cleared; a thread that is told to
stop while it ends by itself, while a device is suspended or removed under it;
builds that are cut off.
The full list, each at its line, is `hazards` in `PROJECT.json`.

## 2. The modules

`PROJECT.json` maps every definition to its lines. Definitions ending in `_broken`
are plausible bugs, used only to show that a property notices them.

- **ByteFifo**: what a demux buffer promises: bytes come out in order and once;
  unread bytes are thrown away only all together, and that ends the call.
- **DmxBuffer**: the ring and everything that touches it. One step per access to
  `pread`, `pwrite` or `error`. The writer's place is `wpc` (callback, `buffer_write`,
  `dvb_ringbuffer_write` with its two `memcpy`s), the reader's `rpc` (`read()`,
  `buffer_read`, `wait_event_interruptible`, `dvb_ringbuffer_read_user`), the timer
  handler's `tpc`. `Kind` says whose buffer it is. A byte is its number;
  `accepted`, `consumed` and `gaps` are history. It refines ByteFifo (`FifoSpec`).
- **SectionFilters**: `dmxdev_filter` slots over demux feeds and section filters.
  `op` is the ioctl in progress, one value of `pc` per call into `dvb_demux.c`; `disp`
  the section being delivered. `Failing` lets calls into the demux fail;
  `LateTimer` lets `del_timer` return while the handler is still to run. `failed` is
  history: a demux call returned an error although it had what it needed (a free
  slot, a feed that can start). Finding a table full does not count.
- **SectionAssembler**: one section feed. A multiplexer sends sections of several
  lengths, starting anywhere in a packet, over a channel that loses and repeats
  packets, sends some without payload and announces discontinuities. A unit of
  a section knows which it is of, and where.
- **PesFilters**: PID lists over TS feeds, `feed_list` and `pesfilter`.
  `Copies(p, x)` is how often `dvb_dmx_swfilter_packet` would store a packet of PID `p`
  in buffer `x` now; as it runs under `demux->lock` it may come between any two steps.
- **Frontend**: one application that opens the node for writing, any number that
  open it read-only (`app`), the tuning thread (`tpc`), the driver that unregisters
  (`unreg`). `sem`, `thread`, `exit` and `should_stop` are the code's, a step for each
  statement the others can come between: an open reads `thread` (`"start"`) and then
  `exit` (`"check"`), `dvb_frontend_stop` writes `exit` (`"stop"`, `unreg` `"no"`) and then reads
  `thread` (`"ask"`, `"asking"`). Of the ioctls one has steps of its own: `FE_GET_EVENT` with no
  event there (`"event"`) gives `sem` up (`"asleep"`) and takes it back (`"woken"`).
- **UsbStick** EXTENDS Frontend: `dvb_usb_fe_init` and `_fe_sleep` are what the thread
  does at `tpc` `"init"` and `"sleep"`, and `fpc` says how far they are; `fop` is the
  `start_feed` or `stop_feed` in progress; suspend and resume run while all others are frozen.
  It implements `FrontendSpec`.
- **MediaBuild** (with **MCMediaBuild** for its models): one run of `mediaBuild.py`
  after another over the files they share, cut off anywhere, with makes that fail.
- **MCDmxBuffer**, **MCSectionFilters**, **MCPesFilters**: the module of that name in two
  kinds of surroundings, of which a behaviour has one from its first state on; each is
  an INSTANCE with its own constants, so neither weakens what is checked of the other.
- **SectionSharing_proofs**, about SectionFilters, and `*_proofs`, about the module of that
  name: the theorems.

Frontend and UsbStick have *windows*. The code leaves interleavings open which nothing
prevents and which it does not survive. Each is a disjunct of a guard, under
a name; Init chooses at most one for a behaviour, and each property names those
that break it. With no window open everything holds; with one open, everything
still holds that does not name it. Dropping a window from a property gives a
counterexample in the code (`sema` from `RemovalEnds` in the code only: who is left in the semaphore's
list that `sema_init` empties waits for ever, and the model has no such list):

| window | what the code allows | no longer claimed |
|---|---|---|
| `reopen` | an open for writing takes an ending thread for one that runs: it reads `exit` after the thread decided to end (623) and before it says so (627), or `thread` (824) before it is cleared (735) and `exit` (825) after it is reset (739) | `NodeServes` |
| `signal` | a signal interrupts an open that has just stopped the thread | `NodeServes` |
| `sema` | an ioctl takes the semaphore between the end of a stopped thread and the stopper's `sema_init` | `OneHolder`, `RemovalEnds` |
| `event` | a signal ends an `FE_GET_EVENT` that waits to take the semaphore back (251); the ioctl gives it up a second time (1929) | `OneHolder` |
| `overlap` | an open runs while the frontend is unregistered | `FreedIsUnused`, `RemovalEnds` |
| `tail` | a release gives up its use, and is cut off before its wake-up | `FreedIsUnused` |
| `ending` | the frontend is unregistered while the thread ends by itself: the stop finds its pointer cleared, and what it wrote to `exit` is reset | `FreedIsUnused`, `RemovalEnds` |
| `init` | a suspend during `fe->ops.init`, where the thread is not yet freezable | `StreamsWhileFed`, `PowerFollowsFrontend`, `RemovalEnds` |
| `late_feed` | a feed starts after the sleeping frontend saw that nothing streams | `StreamsWhileFed`, `RemovalEnds` |
| `idle_resume` | a suspend with a frontend in use and nothing fed | `StreamsWhileFed` (finding 6) |
| `feed_error` | a driver's hook fails in `start_feed` | `StreamsWhileFed`, `RemovalEnds` |
| `sleep_error` | a driver's hook fails in `fe_sleep` | `PowerFollowsFrontend` |

DmxBuffer, SectionFilters and PesFilters meet at the callback: SectionFilters keeps a
buffer as a short sequence of whole sections and PesFilters stops at which
buffer a packet goes to; DmxBuffer takes over from there, byte by byte. SectionAssembler
stands between a packet and the section that SectionFilters delivers. `start_filtering`
of SectionFilters and PesFilters, which may fail, is `StartFeed` of UsbStick.

## 3. The runs

| run | module | shows | distinct states |
|---|---|---|---|
| `buffers` | MCDmxBuffer | arrays of 3 and 4 bytes, resized and restarted, and a section filter's with its timer: FIFO refinement, copies never meet, no gap inside a tap's read, no wake-up lost, the sleeper is served | 626 000 |
| `buffer_dvr_resize` | DmxBuffer | violation, see 4 | |
| `filters` | MCSectionFilters | two descriptors, on two PIDs, or on one with failing calls, full tables and timers: until a call fails running filters are served, buffers hold their PID only, nothing leaks; at all times no NULL feed, chains sound, closed slots free, one feed per PID, every call that has its descriptor's mutex ends | 879 000 |
| `filters_late_timer` | SectionFilters | violation, see 4 | |
| `filters_interrupted` | SectionFilters | violation, see 4 | |
| `assembler_lossy` | SectionAssembler | faults and stale state: no overrun, whole sections, none missed, in order | 744 000 |
| `assembler_restart` | SectionAssembler | violation, see 4 | |
| `pes` | MCPesFilters | two descriptors with three PIDs between them, edited while running, and three that compete for two feeds and the video decoder while every call may fail: DVR once and served, taps get what they asked for, no NULL feed, list sound, nothing leaks | 2 354 000 |
| `pes_whole` | PesFilters | violation, see 4 | |
| `media_build` | MCMediaBuild | two models, kills and failing makes: configuration kept, modules fit, a good run delivers | 593 000 |
| `usb_stick` | UsbStick | a writer, a reader, two feeds, suspend, failing hooks and removal, every window: one holder of the hardware, an open node serves, nothing freed is used, streams while fed, power balanced, removal ends unless an `FE_GET_EVENT` sleeps for ever | 99 000 |
| `stick_resume` | UsbStick | violation, see 4 | |

The properties, and the code each is about, are described at their definitions.

What is *not* claimed, because the code does not do it:

- `NoGapInsideRead` for section filters: the timer's unlocked `error = -ETIMEDOUT`
  may take the place of the overflow's.
- `RunningIsServed`, `NothingLeaks` and `BufferIsOfItsPid` once a demux call has `failed`:
  `dvb_dmxdev_filter_start` returns the error with the shared feed stopped and its section
  filter in the chain. That one keeps pointing to the slot: restarted on
  another PID the slot gets the old PID's sections, on the same PID each section twice.
- `NoOops`, `ClosedSlotsAreFree`, `OneFeedPerPid`, `RunningIsServed` with a late
  timer: a stopped or freed slot becomes TIMEDOUT, which counts as running.
- `NoOops`, `NothingLeaks`, `TapGetsWhatItAsked` (PES) with edits and failing calls at
  once: `dvb_dmxdev_add_pid` leaves an entry with a NULL or released feed behind;
  and `NothingLeaks` for a start of several PIDs that fails half-way.
- That a call on the demux ends while some descriptor's `read()` waits for data: that read holds
  the descriptor's mutex (`dmxdev.c:944-954`), a `START` on the same descriptor waits for it with
  `dmxdev->mutex` held (971), and everybody else waits for that. `CallsEnd` begins when both are had.
- `RemovalEnds` while an `FE_GET_EVENT` sleeps (`dvb_frontend.c:248`): only an event or a
  signal wakes it, and it keeps the node in use.
- That the *original* configuration survives: a run cut off between the two `mv`s
  and repeated loses it. `ConfigIsKept` speaks of one run and the file it found.
- What the window table of section 2 takes out of UsbStick's properties.

## 4. What was found

Each is a run that must be violated, with the line it contradicts in `findings`.

1. `buffer_dvr_resize`: `DMX_SET_BUFFER_SIZE` on the DVR device resets the ring under
   a lock that `dvb_dvr_read` does not take, against `dvb_ringbuffer.h:70-72`.
2. `filters_late_timer`: `dvb_dmxdev_feed_restart` may pick a filter that is not of the
   feed, against its comment (`dmxdev.c:471-472`).
3. `filters_interrupted`: a start that fails on a shared feed (a signal is enough) leaves its
   section filter in the chain when the feed is released, against the same comment.
4. `assembler_restart`: a start leaves `pusi_seen` and `cc` stale, so the tail of a
   section is offered as a section, against `dvb_demux.c:229-231` and `dvb_demux.h:93`.
5. `pes_whole`: with PID 0x2000 the DVR device gets a packet twice for a while,
   against `dvb_demux.c:464-465`.
6. `stick_resume`: a stick suspended while it was only tuned streams after the resume; the
   first feed then takes back every URB and reports success, against what
   `dvb_usb_core.c:308` says it does.

## 5. Bounds, assumptions and fairness

**Sequential consistency.** Accesses take effect in program order. The ring uses
no barrier, so on a weakly ordered CPU (the ARM models) the results on DmxBuffer say
nothing of reordering by the hardware.

**DmxBuffer.** Arrays of 3 and 4, chunks up to 2 and reads up to 3 bytes make every
relation of the two pointers to each other and to the end of the array occur, with split and
unsplit copies on both sides; `MaxBytes` lets the pointers go round about
twice. The section filter's behaviours have one array of 3 bytes and
accept 4: what they add is the timer. It bounds what is accepted, so a run may end with nothing to do:
`CHECK_DEADLOCK FALSE`. Two readers of one descriptor are not modelled.

**SectionFilters.** A joining and a leaving filter and two PIDs need two
descriptors. A third (sharing while two others change) is beyond TLC's time
(over 12 million states); the theorems have no such bound. Failing calls and
timers run on one PID, where sharing is; `filters_interrupted` has three section filters, so
that one can be lost without the table running out. Sections are their PID, and whether
a mask matches is free. `LateTimer` is set in `filters_late_timer` only, which stops at its
violation; what else it makes possible (`START` on a slot without a filter, a walk off a
chain) is covered by `TypeCorrect` and `ChainsStaySound` and by no passing run. Testing `error` and storing the section are one step here
and several in DmxBuffer.

**SectionAssembler.** `PacketSize` 6 and `MaxSection` 7 keep the proportions: a section
may fill less than a packet, exactly the payload, or more than one. Lengths
lie at the limits, `Bogus` is what a misread header gives. `MaxFaults < CCs`: a gap of
exactly the counter's period (16 packets) is undetectable in the code, and excluded.
CRC and masks are left out: offering a section is what is observed.
The stream ends at `MaxSections`: `CHECK_DEADLOCK FALSE`.

**PesFilters.** Two descriptors with at most two PIDs each and three together
(`MaxEntries`, with as many feeds) cover sharing of a PID, of the DVR buffer and order on
`feed_list`; two each (four million states) was checked as well. The surroundings with failing
calls have fewer feeds than filters, so the table runs out. Init leaves any decoder in a feed's unset
type (the table is `vmalloc`ed); fields of a released feed that nothing reads are
normalised. The decoder's own output is external.

**MediaBuild.** Two models with one kernel and media tree and two release
directories, two modules. Runs do not overlap (`build-all.sh` starts them one after the other).
What `make` does is outside the repository: it keeps an existing `.config`, else
takes the model's configuration, which is why `prepareKernel` removes `.config` first.
`make clean` needs no configured kernel and is taken to succeed: `KoFitsItsDirectory`
depends on it, as its mutant shows.

**UsbStick.** One adapter and frontend, one writer (the code lets in one), one reader,
two feeds: a first and a second, which the code treats differently. `MaxCount` 3 bounds
`feed_count` and `powered`, which only failing hooks and suspends in `fe->ops.init` drive up. One window
per behaviour: two at once are claimed for nothing. Time is left out: the thread's
loop may go round at any moment. Dead devices return their URBs. The system stops once the
stick is removed: `CHECK_DEADLOCK FALSE`.

**Fairness** is assumed by `buffers`, `filters` and `usb_stick`. A
callback, a timer handler and a runnable reader go on (`WF` of `WriterStep`, of
`TimerState \/ TimerWake`, of `ReaderStep`): the kernel schedules them, and they do not block.
No one has to send, read or signal. In SectionFilters a delivery and a timer handler end
(`WF`), and an ioctl that has `dmxdev->mutex` and its descriptor's goes on (`SF` of
`OpStep`): it waits for `demux->lock`, held by one delivery after the other, and that
spinlock is a ticket lock on both architectures, so who waits for it gets it. How long
an ioctl waits for the two mutexes is not modelled, and no fairness is assumed of it.

In UsbStick the kernel's threads run, and an ioctl that has the semaphore gives it up (`WF`,
for each application by itself); whoever waits for `fepriv->sem`, `dvbdev_mutex` or a bit gets
through (`SF`: their waiting lists are in order, and the thread looks at its exit conditions in each
round); a suspended system resumes. There is no fairness of `EventWakes`: a blocking
`FE_GET_EVENT` sleeps until the thread adds an event or a signal comes, and removal brings neither.
Once the device is gone, applications close what they have open
(`gone # "no"` stands in those conjuncts): `dvbdev.c` waits for them without end.
`RemovalEnds` says that, those closes apart, only an `FE_GET_EVENT` that sleeps for ever holds a removal
up, outside the windows of section 2; without that premise TLC shows such a removal.

`filters`, `pes` and `media_build` check deadlock as well: between two calls an open,
a set or a run is always possible, so only a call that hangs could be one.

## 6. The proofs

TLAPS checks these for every value of the constants the modules' assumptions allow
(tables, sizes, users and PIDs of any number, `Failing`, `LateTimer`, `Edits` and `Windows`
any).

| theorem | says | from |
|---|---|---|
| DmxBuffer `TypeCorrect`, `UnreadStaysIntact`, `ReadsAreContiguous`, `CopiesDisjoint` | the ring is intact, reads are consecutive, copies never meet, for a filter's buffer | `Kind # "dvr"` |
| DmxBuffer `NoWakeupIsLost` | no wake-up is lost, for every kind | |
| DmxBuffer `RingIsAFifo` | a filter's ring implements ByteFifo | `Kind # "dvr"` |
| DmxBuffer `NoGapGoesUnseen`, `NoGapInsideTap` | no read of a tap goes over a dropped chunk | `Kind = "tap"` |
| SectionFilters `TypeCorrect`, `ChainsStaySound` | a listed feed's chain holds allocated section filters of its own, once | |
| SectionSharing `NoCallOopses`, `ClosedStaysFree`, `FeedsAreShared` | no call follows a NULL feed or runs off a chain, closed slots are free, running filters share a feed exactly when they have the same PID, whatever fails | `~LateTimer` |
| SectionSharing `RunningAreServed`, `NoSlotKeepsWhatItDropped`, `BuffersAreOfTheirPid` | until a call has `failed`, running filters are served, nothing leaks, buffers hold their PID only, full tables included | `~LateTimer` |
| SectionAssembler `TypeCorrect` | collected and dumped data stay in `secbuf_base` | |
| SectionAssembler `OnlyWholeSections`, `NoIntactSectionMissed`, `SectionsComeInOrder` | what a synchronised feed offers are whole sections, it misses none whose packets all came, and offers them in order and once | |
| PesFilters `TypeCorrect`, `FeedListStaysSound` | no feed is listed twice or free, every feed set is listed | |
| PesFilters `NullNeverFollowed`, `NoFeedIsLeftOver`, `DvrGetsIt`, `TapsGetTheirOwn` | no NULL feed, nothing leaks, the DVR device gets what is asked for, a tap just that, as often | `Reliable` |
| PesFilters `DvrGetsItOnce` | the DVR device gets a packet at most once | `Reliable`, no PID 0x2000 |
| PesFilters `FeedsForAll` | `Reliable` holds without edits; and with them, if calls succeed, no decoder is asked for and there is a feed for each PID of each descriptor | |
| Frontend `FrontendTypes`, `SemaphoreIsAMutex`, `OpenNodeServes`, `NothingUsesFreed` | one holder of the hardware, an open node has its thread, nothing freed is used | outside the windows of section 2 |
| UsbStick `StickIsAFrontend` | every behaviour of the stick is one of Frontend | |
| UsbStick `StickTypes`, `FedDeviceStreams`, `PowerIsBalanced`, `FrontendInStick` | what is fed streams, power follows the frontend, and Frontend's results hold in a stick | |
| MediaBuild `BuildTypes`, `ModulesFit`, `ConfigurationKept`, `GoodRunsDeliver` | a directory's modules are made for it, a run keeps the configuration it found, a good run delivers | |

*DmxBuffer.* `UnreadIntact` says that `accepted - consumed` bytes lie between the pointers,
each in its slot. It is not inductive: between a `memcpy` and the store of
`pwrite` the new bytes are already in the array, and the reader may have moved
`pread` since the writer computed its free count. `WriterInv` says what is already
copied and that what is still to be stored fits; `ReaderInv` that the bytes still
to be copied are there, and that those copied are the right ones. The reader only
raises the writer's room and the writer only what there is to read: that
makes the two invariants survive each other's steps (`WriterPreserves`, `ReaderPreserves`).
The store of `pwrite` is ByteFifo's write, that of `pread` its read, a flush or reset its
throwing away, and every other step leaves what ByteFifo sees alone: `RingIsAFifo` goes
through them one by one. `GapInv` follows a dropped chunk: a gap lies before what the read in progress
returns, or behind everything accepted; and then `error` is set or about to be, and nothing is accepted
until the reader has thrown away what is unread and cleared it.
A flush by an ioctl is excluded while a filter is being read, which is where
`Kind # "dvr"` comes in. `WakeInv` sharpens `NoLostWakeup`: with something to
read and the reader asleep, the writer stands between the publication and the wake-up.

*SectionFilters.* `ChainsAreSound` is inductive with `TypeOK`; only allocating, linking,
unlinking and releasing disturb it. It is the reason `release_filter`'s walk stays in
memory that is allocated even after errors and late timers.

*SectionSharing.* What makes sharing right is who holds what in the middle of a
call. `HeldInv` extends "running filters share a feed exactly when their PIDs are the same" to the filter
of the ioctl in progress, which holds its feed from the step that found or
allocated it until the one that gives it back; `SlotInv` says that this filter is
stopped and that only running ones have timers (where `~LateTimer` is
used); `LinkInv` that each has a section filter of its own in the feed's chain,
which is what `release_filter`'s walk needs; `CallInv` that a feed is allocated only when nobody
is active on its PID and restarted only for somebody who is. `filter_start` takes
the first slot with the PID: `Smallest`, from the well-foundedness of `<`, gives that slot.
`Served` adds what holds until a call has `failed`: a feed in use is on the list and
held by somebody on its PID (`FeedInv`), a section filter in use is linked to somebody's
slot (`SecInv`), only the feed of the call in progress stands still (`RunInv`), only
running filters and the one being stopped have sections unread (`UnreadInv`), and
a delivery goes on to members of its feed's chain (`DispInv`). The last filter gone, the
feed's chain is empty, since every section filter in it would belong to a running filter of the
PID. A failed start breaks `SecInv` for good (finding 3), hence `failed`.

*SectionAssembler.* The dumping loop's test against what is collected and the copy's
cut at `DMX_MAX_SECFEED_SIZE` keep `secbufp <= tsfeedp <= SecFeedSize`.
What is offered follows from what is sent. `TxInv` says what the last packet holds, unit by unit;
`StreamInv` that the buffer of a synchronised feed holds what was sent since some section began and is
dumped up to a section boundary, with the packet still to be copied as its continuation.
Faults being fewer than `CCs`, the counter tells a gap from none; `StreamInv` has to speak of a feed one
packet behind as well, for the next to arrive may be the one it lacks. What does not fit
into the buffer is stuffing. `InnerInv` says that before the first PUSI packet nothing collected begins
a section; `DueInv` where the end of a section that must still be offered is.

*PesFilters.* `OpInv` adds to the feed list's soundness what the ioctl in progress knows:
the entries it still has to stop or release have a feed, and the feed it is
about to set is allocated and not yet on the list. Without it, `set` could list a feed twice.
What packets find follows from `Owned`: at each step of each call, which entries of which PID
lists hold a feed, that no two hold the same, that the feed does what its entry asks, and that a
feed in use is held (`Claimed`). Then entries and places on `feed_list` are in bijection, which counts a tap's copies;
the first place of a DVR feed that wants the packet, which the well-foundedness of `<` gives,
serves the DVR device. `Reliable` says that no demux call fails while PID lists are edited: a failed
`ADD_PID` on a running filter leaves an entry without a feed, and nothing of this holds any more (section 3). When it
holds is `FeedsForAll`, a pigeonhole argument over descriptors and PIDs; the surroundings of `pes` with
edits make do with fewer feeds, because their descriptors have fewer PIDs between them.

*Frontend.* `ThreadInv` ties `fepriv->thread` to where the thread is, says when it can
have been told to stop (only by an open that waits for it, or by the unregistering driver), and
that an open between its two reads will find `exit` set unless the thread still runs.
`SemInv` says that no ioctl has the semaphore when `dvb_frontend_stop` reinitialises it,
and that none gives up what it does not have: the two ways to make it count two.
`RemovalInv` says what is over when the driver has come to its wait, and that no thread
has got to its last statements between the two accesses of its stop.

*UsbStick.* Each of its steps is a step of Frontend or leaves the frontend alone
(`StickActions`), which gives the refinement and carries Frontend's invariant over.
`PowerInv` says where `fe_init` and `fe_sleep` can be while the thread is where it is, and what a suspend
leaves behind; `Stream` is `StreamsWhileFed` with what holds while a feed is starting or stopping
and during a suspend. The bits' order is in it: a frontend past its wait
sees no `ADAP_STREAMING`.

*MediaBuild.* `Kept` says in which of the two places the configuration is at each step;
`Delivers` follows the modified one from the model's directory through `.config` and the kernel into
the objects; `Fits` says that objects are this run's own once the tree was
cleaned; `Built` that a log naming a kernel stands for a configured tree.

Every safety property of a passing run is a theorem. Only model-checked: `SleeperServed`,
`CallsEnd` and `RemovalEnds`, which are liveness under fairness, out of the prover's reach. Neither the
theorems nor `pes` say anything of PesFilters with failing calls *and* edits beyond its types and feed list.

## 7. Not modelled

- `dvb_dmxdev_read_sec`'s framing, poll, `dvb_dvr_write`, opening and releasing the DVR device;
  a descriptor used for sections and then for PES; the wait for a descriptor's mutex;
  `dvb_dmxdev_init`/`_release`.
- Packet synchronisation, the demux's frontend list, CRC and masks.
- Of the frontend: tuning and the zig-zag scan, what is in the event queue (a ring under one
  lock), reinitialisation through `ts_bus_ctrl`, `mfe_shared`; a thread that ends by itself after `dvb_frontend_stop` read
  its pointer (758) and before `kthread_stop` marked it (the second read, at 761, finds NULL, or the
  structure is freed), and `kthread_stop` before its function ran; two threads at once, which
  `sema` and `event` make possible; several calls of one application at a time; the user counts
  `dvb_generic_release` changes without a lock.
- Of dvbdev: minor numbers, and the module reference of an open device.
- Of dvb-usb-v2: probing, the remote control's poll, several adapters or frontends,
  hardware PID filters, URBs one by one (`usb_urb_complete` ignores a failed resubmission).
- dvb-usb: the older framework, with the same counts and without the bits. rc-core.
- CA EN50221 and the network interface: none of the packaged devices uses them.
- Tuner and demodulator drivers: register programming whose meaning is the chip's.
- The older trees (see above), `deploy/`, firmware and key maps.
- `vxlan.ko` and its two companions, copied by `prepareKernel` into `release_misc`; the text of the merged configuration.

## 8. Plan

Done, in order of importance: ByteFifo, DmxBuffer and its proofs; SectionFilters, its
chains and its sharing; SectionAssembler; PesFilters; Frontend, UsbStick and their proofs; MediaBuild and its proofs.

Next, modules:

1. `SectionReader`: `dvb_dmxdev_read_sec` over an abstract ring that may be flushed
   between header and body: does a reader find section boundaries again?
2. `PacketSync`: `find_next_packet`, `_dvb_dmx_swfilter` and `tsbuf` over transfers cut anywhere, with stops.
3. `DemuxLifecycle`: `dvb_dmxdev_release`, open after removal, DVR open and release; UsbStick's
   `StreamExit` takes what it promises for granted.
4. `Collector`: `mediaCollect.py` after MediaBuild, cut off between `mkdir` and `cp`.
5. One descriptor used for sections and PES in turn, composing SectionFilters and PesFilters.

Next, theorems: what survives of PesFilters' `Owned` when an `ADD_PID` fails (the other filters
should keep theirs); which of the Frontend's windows may be open at once; the modules
above as they come.
