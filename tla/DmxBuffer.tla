------------------------------ MODULE DmxBuffer ------------------------------
(***************************************************************************)
(* The byte ring of a demux file descriptor, from                          *)
(* media/3.19/dvb-core/dvb_ringbuffer.c, together with the code of         *)
(* media/3.19/dvb-core/dmxdev.c that drives it: the demux callback that    *)
(* fills it in softirq context, the section timer, the read() call that    *)
(* empties it, and the ioctls that flush or resize it.                     *)
(*                                                                         *)
(* Nothing locks the reader against the writer: every access to the shared *)
(* pread, pwrite and error is a step of its own.  dev->lock is held by the *)
(* writer while wpc \in Locked; the section timer and the ioctls take it   *)
(* too.  Memory is sequentially consistent.                                *)
(*                                                                         *)
(* Bytes carry no value but their number: byte k is the k-th byte ever     *)
(* accepted.  accepted, consumed and gaps are history: they are written,   *)
(* never tested, by the actions (accepted also bounds the runs).           *)
(*                                                                         *)
(* A definition whose name ends in _broken is a plausible bug in the one   *)
(* that follows it.  The specification does not use it: it shows, by       *)
(* taking the other's place, which property would notice.                  *)
(***************************************************************************)
EXTENDS Integers, Sequences, FiniteSets

CONSTANTS
    Kind,       \* "section" or "tap": the buffer of a filter, "dvr": dvr_buffer
    Oneshot,    \* the filter has DMX_ONESHOT set (sections only)
    Sizes,      \* buffer sizes DMX_SET_BUFFER_SIZE may ask for
    MaxChunk,   \* longest chunk the demux hands to one callback
    MaxCount,   \* longest read() the application asks for
    MaxBytes    \* bound on the bytes accepted in one behaviour

ASSUME BufferAssumption ==
    /\ Kind \in {"section", "tap", "dvr"}
    /\ Oneshot \in BOOLEAN
    /\ Oneshot => Kind = "section"
    /\ Sizes \subseteq Nat \ {0}
    /\ Sizes # {}
    /\ MaxChunk \in Nat \ {0}
    /\ MaxCount \in Nat \ {0}
    /\ MaxBytes \in Nat

VARIABLES
    \* struct dvb_ringbuffer
    size, pread, pwrite, error, data,
    \* struct dmxdev_filter, and whether its feed is filtering
    state, feeding,
    \* the demux callback: where it is, bytes still to store, bytes before the wrap
    wpc, wtodo, wsplit,
    \* the section timer: pending, and where its handler is
    armed, tpc,
    \* the reader: where it is, its arguments, and the locals of the read loop
    rpc, nonblock, count, todo, len, left, rsplit, ubuf,
    \* the reader is on the buffer's wait queue and not yet woken
    asleep,
    \* history: bytes accepted, number of the byte at pread, bytes before
    \* which a chunk was dropped
    accepted, consumed, gaps

ring    == <<size, pread, pwrite, error, data>>
filter  == <<state, feeding>>
writer  == <<wpc, wtodo, wsplit>>
timer   == <<armed, tpc>>
call    == <<nonblock, count, todo, len, left, rsplit, ubuf>>
history == <<accepted, consumed, gaps>>
vars    == <<ring, filter, writer, timer, rpc, call, asleep, history>>

NoByte == -1      \* what a slot holds before anything is stored in it

Slot   == 0 .. size - 1
Locked == {"full", "split", "wrap", "copy", "publish", "done"}

-----------------------------------------------------------------------------
(* dvb_ringbuffer.c *)

RingEmpty == pread = pwrite

(* The whole array may be filled: full looks like empty. *)
Free_broken == IF pread - pwrite <= 0 THEN pread - pwrite + size ELSE pread - pwrite

Free == (IF pread - pwrite <= 0 THEN pread - pwrite + size ELSE pread - pwrite) - 1

Avail == IF pwrite - pread < 0 THEN pwrite - pread + size ELSE pwrite - pread

(* No chunk is ever cut in two. *)
SplitAt_broken(p, n) == 0

(* Bytes that fit before the end of the array when n bytes start at slot p
   and run past it, 0 when they do not run past it. *)
SplitAt(p, n) == IF p + n > size THEN size - p ELSE 0

(* The modulo is forgotten. *)
Advance_broken(p, n) == p + n

Advance(p, n) == (p + n) % size

(* dvb_ringbuffer_flush: the unread bytes are dropped. *)
FlushPointers == pread' = pwrite /\ consumed' = accepted

-----------------------------------------------------------------------------
Init ==
    /\ size \in Sizes
    /\ pread = 0 /\ pwrite = 0 /\ error = "none"
    /\ data = [i \in Slot |-> NoByte]
    /\ state = IF Kind = "dvr" THEN "GO" ELSE "SET"
    /\ feeding = (Kind = "dvr")
    /\ wpc = "idle" /\ wtodo = 0 /\ wsplit = 0
    /\ armed = FALSE /\ tpc = "idle"
    /\ rpc = "idle" /\ nonblock = FALSE
    /\ count = 0 /\ todo = 0 /\ len = 0 /\ left = 0 /\ rsplit = 0
    /\ ubuf = [i \in 0 .. MaxCount - 1 |-> NoByte]
    /\ asleep = FALSE
    /\ accepted = 0 /\ consumed = 0 /\ gaps = {}

-----------------------------------------------------------------------------
(* The demux callback: dvb_dmxdev_section_callback for "section",          *)
(* dvb_dmxdev_ts_callback otherwise, and dvb_dmxdev_buffer_write.          *)

(* A chunk is lost before byte number `accepted`. *)
DropChunk == gaps' = gaps \cup {accepted}

(* The buffer is in error: the chunk is dropped and the reader woken. *)
CallbackInError ==
    /\ wpc = "idle" /\ feeding
    /\ error # "none"
    /\ wpc' = "wake"
    /\ DropChunk
    /\ UNCHANGED <<ring, filter, wtodo, wsplit, timer, rpc, call, asleep, accepted, consumed>>

(* The buffer is not in error: go on to take dev->lock. *)
CallbackEnter ==
    /\ wpc = "idle" /\ feeding
    /\ error = "none"
    /\ accepted + MaxChunk <= MaxBytes      \* the bound of the runs
    /\ wpc' = "lock"
    /\ UNCHANGED <<ring, filter, wtodo, wsplit, timer, rpc, call, asleep, history>>

(* A section for a filter that is not running is ignored. *)
CallbackIgnored ==
    /\ wpc = "lock" /\ state # "GO"
    /\ wpc' = "idle"
    /\ DropChunk
    /\ UNCHANGED <<ring, filter, wtodo, wsplit, timer, rpc, call, asleep, accepted, consumed>>

(* The chunk does not fit: nothing of it is stored. *)
WriteOverflow(n) ==
    /\ wpc = "lock" /\ state = "GO"
    /\ n > Free
    /\ armed' = FALSE
    /\ wpc' = "full"
    /\ DropChunk
    /\ UNCHANGED <<ring, filter, wtodo, wsplit, tpc, rpc, call, asleep, accepted, consumed>>

(* It fits: dvb_ringbuffer_write starts, in two pieces if it wraps. *)
WriteBegin(n) ==
    /\ wpc = "lock" /\ state = "GO"
    /\ n <= Free
    /\ armed' = FALSE
    /\ wtodo' = n
    /\ wsplit' = SplitAt(pwrite, n)
    /\ wpc' = IF SplitAt(pwrite, n) > 0 THEN "split" ELSE "copy"
    /\ UNCHANGED <<ring, filter, tpc, rpc, call, asleep, history>>

(* memcpy of n bytes to the slots from pwrite on. *)
StoreBytes(n) ==
    data' = [i \in Slot |-> IF i \in pwrite .. pwrite + n - 1
                            THEN accepted + (i - pwrite) ELSE data[i]]

WriteCopySplit ==
    /\ wpc = "split"
    /\ StoreBytes(wsplit)
    /\ wpc' = "wrap"
    /\ UNCHANGED <<size, pread, pwrite, error, filter, wtodo, wsplit, timer,
                   rpc, call, asleep, history>>

(* pwrite = 0 publishes the first piece. *)
WriteWrap ==
    /\ wpc = "wrap"
    /\ pwrite' = 0
    /\ accepted' = accepted + wsplit
    /\ wtodo' = wtodo - wsplit
    /\ wsplit' = 0
    /\ wpc' = "copy"
    /\ UNCHANGED <<size, pread, error, data, filter, timer, rpc, call, asleep,
                   consumed, gaps>>

WriteCopy ==
    /\ wpc = "copy"
    /\ StoreBytes(wtodo)
    /\ wpc' = "publish"
    /\ UNCHANGED <<size, pread, pwrite, error, filter, wtodo, wsplit, timer,
                   rpc, call, asleep, history>>

WritePublish ==
    /\ wpc = "publish"
    /\ pwrite' = Advance(pwrite, wtodo)
    /\ accepted' = accepted + wtodo
    /\ wtodo' = 0
    /\ wpc' = "done"
    /\ UNCHANGED <<size, pread, error, data, filter, wsplit, timer, rpc, call,
                   asleep, consumed, gaps>>

(* The overflow is not recorded. *)
SetOverflow_broken ==
    /\ wpc = "full"
    /\ wpc' = "done"
    /\ UNCHANGED <<ring, filter, wtodo, wsplit, timer, rpc, call, asleep, history>>

SetOverflow ==
    /\ wpc = "full"
    /\ error' = "EOVERFLOW"
    /\ wpc' = "done"
    /\ UNCHANGED <<size, pread, pwrite, data, filter, wtodo, wsplit, timer, rpc,
                   call, asleep, history>>

(* A one-shot filter has had its section; dev->lock is released. *)
CallbackDone ==
    /\ wpc = "done"
    /\ state' = IF Oneshot THEN "DONE" ELSE state
    /\ wpc' = "wake"
    /\ UNCHANGED <<ring, feeding, wtodo, wsplit, timer, rpc, call, asleep, history>>

(* Nobody is woken. *)
CallbackWake_broken ==
    /\ wpc = "wake"
    /\ wpc' = "idle"
    /\ UNCHANGED <<ring, filter, wtodo, wsplit, timer, rpc, call, asleep, history>>

CallbackWake ==
    /\ wpc = "wake"
    /\ asleep' = FALSE
    /\ wpc' = "idle"
    /\ UNCHANGED <<ring, filter, wtodo, wsplit, timer, rpc, call, history>>

WriterStep ==
    \/ CallbackIgnored
    \/ \E n \in 1 .. MaxChunk : WriteOverflow(n) \/ WriteBegin(n)
    \/ WriteCopySplit \/ WriteWrap \/ WriteCopy \/ WritePublish
    \/ SetOverflow \/ CallbackDone \/ CallbackWake

Writer == CallbackInError \/ CallbackEnter \/ WriterStep

-----------------------------------------------------------------------------
(* The section timer: dvb_dmxdev_filter_timeout. *)

(* The handler starts and writes the error without a lock. *)
TimerExpire ==
    /\ armed /\ tpc = "idle"
    /\ armed' = FALSE
    /\ error' = "ETIMEDOUT"
    /\ tpc' = "lock"
    /\ UNCHANGED <<size, pread, pwrite, data, filter, writer, rpc, call, asleep, history>>

(* The handler ends without waking the reader. *)
TimerState_broken ==
    /\ tpc = "lock" /\ wpc \notin Locked
    /\ state' = "TIMEDOUT"
    /\ tpc' = "idle"
    /\ UNCHANGED <<ring, feeding, writer, armed, rpc, call, asleep, history>>

TimerState ==
    /\ tpc = "lock" /\ wpc \notin Locked
    /\ state' = "TIMEDOUT"
    /\ tpc' = "wake"
    /\ UNCHANGED <<ring, feeding, writer, armed, rpc, call, asleep, history>>

TimerWake ==
    /\ tpc = "wake"
    /\ asleep' = FALSE
    /\ tpc' = "idle"
    /\ UNCHANGED <<ring, filter, writer, armed, rpc, call, history>>

-----------------------------------------------------------------------------
(* The ioctls on the file descriptor.  Those on a filter take the mutex    *)
(* that read() holds; DMX_SET_BUFFER_SIZE on the DVR takes no lock that    *)
(* dvb_dvr_read holds.                                                     *)

ReaderExcluded == Kind # "dvr" => rpc = "idle"

(* dvb_dmxdev_filter_start: the buffer is flushed, then the feed runs.     *)
(* No callback runs before, the feed is not filtering.                     *)
FilterStart ==
    /\ Kind # "dvr" /\ ReaderExcluded
    /\ ~feeding /\ wpc = "idle"
    /\ FlushPointers
    /\ error' = "none"
    /\ feeding' = TRUE
    /\ state' = "GO"
    /\ armed' \in (IF Kind = "section" THEN BOOLEAN ELSE {FALSE})
    /\ UNCHANGED <<size, pwrite, data, writer, tpc, rpc, call, asleep, accepted, gaps>>

(* dvb_dmxdev_filter_stop: the feed is stopped, which waits for the        *)
(* callback to end; del_timer does not wait for a running handler.  A      *)
(* handler that ran late has left a filter without a feed in TIMEDOUT:     *)
(* then the buffer is flushed and nothing else is done.                    *)
FilterStop ==
    /\ Kind # "dvr" /\ ReaderExcluded
    /\ state # "SET" /\ wpc = "idle"
    /\ state' = IF feeding THEN "SET" ELSE state
    /\ feeding' = FALSE
    /\ armed' = (armed /\ ~feeding)
    /\ FlushPointers
    /\ error' = "none"
    /\ UNCHANGED <<size, pwrite, data, writer, tpc, rpc, call, asleep, accepted, gaps>>

(* dvb_dmxdev_set_buffer_size and dvb_dvr_set_buffer_size: a new array,    *)
(* and the pointers are reset.                                             *)
SetBufferSize(n) ==
    /\ ReaderExcluded
    /\ Kind # "dvr" => state = "SET"
    /\ n # size
    /\ wpc \notin Locked
    /\ size' = n
    /\ data' = [i \in 0 .. n - 1 |-> NoByte]
    /\ pread' = 0 /\ pwrite' = 0
    /\ error' = "none"
    /\ consumed' = accepted
    /\ UNCHANGED <<filter, writer, timer, rpc, call, asleep, accepted, gaps>>

-----------------------------------------------------------------------------
(* read(): dvb_dmxdev_buffer_read and dvb_ringbuffer_read_user. *)

Ready == ~RingEmpty \/ error # "none"

(* Bytes the call in progress has copied out and released: C's buf pointer. *)
Offset == (count - todo) + (len - left)

(* The call returns; the application owns its bytes again. *)
EndCall ==
    /\ rpc' = "idle"
    /\ nonblock' = FALSE
    /\ count' = 0 /\ todo' = 0 /\ len' = 0 /\ left' = 0 /\ rsplit' = 0
    /\ ubuf' = [i \in 0 .. MaxCount - 1 |-> NoByte]

ReadCall(n, nb) ==
    /\ rpc = "idle"
    /\ count' = n /\ todo' = n /\ nonblock' = nb
    /\ rpc' = IF error # "none" THEN "flush" ELSE "loop"
    /\ UNCHANGED <<ring, filter, writer, timer, len, left, rsplit, ubuf, asleep, history>>

(* Everything asked for is there, or nothing is left to take and the call may not block. *)
ReadReturn ==
    /\ rpc = "loop"
    /\ todo = 0 \/ (nonblock /\ RingEmpty)
    /\ EndCall
    /\ UNCHANGED <<ring, filter, writer, timer, asleep, history>>

(* wait_event_interruptible: test, queue, test again, schedule. *)
ReadWait ==
    /\ rpc = "loop" /\ todo > 0
    /\ ~(nonblock /\ RingEmpty)
    /\ IF Ready THEN rpc' = "check" /\ UNCHANGED asleep
                ELSE rpc' = "queued" /\ asleep' = TRUE
    /\ UNCHANGED <<ring, filter, writer, timer, call, history>>

ReadRetest ==
    /\ rpc = "queued"
    /\ IF Ready THEN rpc' = "check" /\ asleep' = FALSE
                ELSE rpc' = "sleep" /\ UNCHANGED asleep
    /\ UNCHANGED <<ring, filter, writer, timer, call, history>>

ReadWoken ==
    /\ rpc = "sleep" /\ ~asleep
    /\ rpc' = "queued" /\ asleep' = TRUE
    /\ UNCHANGED <<ring, filter, writer, timer, call, history>>

(* A signal ends the wait when there is still nothing to read. *)
ReadSignal ==
    /\ rpc = "sleep" /\ ~Ready
    /\ asleep' = FALSE
    /\ EndCall
    /\ UNCHANGED <<ring, filter, writer, timer, history>>

ReadCheck ==
    /\ rpc = "check"
    /\ rpc' = IF error # "none" THEN "flush" ELSE "avail"
    /\ UNCHANGED <<ring, filter, writer, timer, call, asleep, history>>

(* The error is reported; dvb_ringbuffer_flush drops what is unread... *)
ReadFlush ==
    /\ rpc = "flush"
    /\ FlushPointers
    /\ rpc' = "clear"
    /\ UNCHANGED <<size, pwrite, error, data, filter, writer, timer, call, asleep, accepted, gaps>>

(* The call goes on after the error instead of returning. *)
ReadClear_broken ==
    /\ rpc = "clear"
    /\ error' = "none"
    /\ rpc' = "loop"
    /\ UNCHANGED <<size, pread, pwrite, data, filter, writer, timer, call, asleep, history>>

(* ...and then clears the error, and the call returns. *)
ReadClear ==
    /\ rpc = "clear"
    /\ error' = "none"
    /\ EndCall
    /\ UNCHANGED <<size, pread, pwrite, data, filter, writer, timer, asleep, history>>

ReadAvail ==
    /\ rpc = "avail"
    /\ LET n == IF Avail > todo THEN todo ELSE Avail IN
        /\ len' = n /\ left' = n
        /\ rsplit' = SplitAt(pread, n)
        /\ rpc' = IF SplitAt(pread, n) > 0 THEN "split" ELSE "copy"
    /\ UNCHANGED <<ring, filter, writer, timer, nonblock, count, todo, ubuf, asleep, history>>

(* What is found at slot i of the array, or past the end of a shrunk one. *)
Byte(i) == IF i \in Slot THEN data[i] ELSE NoByte

(* copy_to_user of n bytes from the slots from pread on. *)
FetchBytes(n) ==
    ubuf' = [i \in 0 .. MaxCount - 1 |->
                IF i \in Offset .. Offset + n - 1
                THEN Byte(pread + (i - Offset)) ELSE ubuf[i]]

ReadCopySplit ==
    /\ rpc = "split"
    /\ FetchBytes(rsplit)
    /\ rpc' = "wrap"
    /\ UNCHANGED <<ring, filter, writer, timer, nonblock, count, todo, len, left,
                   rsplit, asleep, history>>

(* pread = 0 releases the first piece. *)
ReadWrap ==
    /\ rpc = "wrap"
    /\ pread' = 0
    /\ consumed' = consumed + rsplit
    /\ left' = left - rsplit
    /\ rsplit' = 0
    /\ rpc' = "copy"
    /\ UNCHANGED <<size, pwrite, error, data, filter, writer, timer, nonblock, count,
                   todo, len, ubuf, asleep, accepted, gaps>>

ReadCopy ==
    /\ rpc = "copy"
    /\ FetchBytes(left)
    /\ rpc' = "release"
    /\ UNCHANGED <<ring, filter, writer, timer, nonblock, count, todo, len, left,
                   rsplit, asleep, history>>

(* Only the second piece of a wrapped chunk is counted as read. *)
ReadRelease_broken ==
    /\ rpc = "release"
    /\ pread' = Advance(pread, left)
    /\ consumed' = consumed + left
    /\ todo' = todo - left
    /\ len' = 0 /\ left' = 0
    /\ rpc' = "loop"
    /\ UNCHANGED <<size, pwrite, error, data, filter, writer, timer, nonblock, count,
                   rsplit, ubuf, asleep, accepted, gaps>>

ReadRelease ==
    /\ rpc = "release"
    /\ pread' = Advance(pread, left)
    /\ consumed' = consumed + left
    /\ todo' = todo - len
    /\ len' = 0 /\ left' = 0
    /\ rpc' = "loop"
    /\ UNCHANGED <<size, pwrite, error, data, filter, writer, timer, nonblock, count,
                   rsplit, ubuf, asleep, accepted, gaps>>

(* copy_to_user faults; a first piece already released stays released. *)
ReadFault ==
    /\ rpc \in {"split", "copy"}
    /\ EndCall
    /\ UNCHANGED <<ring, filter, writer, timer, asleep, history>>

ReaderStep ==
    \/ ReadReturn \/ ReadWait \/ ReadRetest \/ ReadWoken
    \/ ReadCheck \/ ReadFlush \/ ReadClear \/ ReadAvail
    \/ ReadCopySplit \/ ReadWrap \/ ReadCopy \/ ReadRelease

Reader ==
    \/ \E n \in 1 .. MaxCount, nb \in BOOLEAN : ReadCall(n, nb)
    \/ ReaderStep
    \/ ReadSignal
    \/ ReadFault

-----------------------------------------------------------------------------
Next ==
    \/ Writer
    \/ TimerExpire \/ TimerState \/ TimerWake
    \/ FilterStart \/ FilterStop
    \/ \E n \in Sizes : SetBufferSize(n)
    \/ Reader

(* A callback, a timer handler and a runnable reader are run to their end by
   the kernel; nobody has to send packets, to read, or to send a signal. *)
Fairness ==
    /\ WF_vars(WriterStep)
    /\ WF_vars(TimerState \/ TimerWake)
    /\ WF_vars(ReaderStep)

Spec == Init /\ [][Next]_vars

FairSpec == Spec /\ Fairness

-----------------------------------------------------------------------------
Stamp == Nat \cup {NoByte}

TypeOK ==
    /\ size \in Sizes
    /\ pread \in Slot /\ pwrite \in Slot
    /\ error \in {"none", "EOVERFLOW", "ETIMEDOUT"}
    /\ data \in [Slot -> Stamp]
    /\ state \in {"SET", "GO", "DONE", "TIMEDOUT"}
    /\ feeding \in BOOLEAN
    /\ wpc \in {"idle", "lock", "full", "split", "wrap", "copy", "publish", "done", "wake"}
    /\ wtodo \in Nat /\ wsplit \in Nat
    /\ armed \in BOOLEAN /\ tpc \in {"idle", "lock", "wake"}
    /\ rpc \in {"idle", "loop", "queued", "sleep", "check", "avail", "flush", "clear",
                "split", "wrap", "copy", "release"}
    /\ nonblock \in BOOLEAN
    /\ count \in 0 .. MaxCount /\ todo \in 0 .. count
    /\ len \in 0 .. todo /\ left \in 0 .. len /\ rsplit \in Nat
    /\ ubuf \in [0 .. MaxCount - 1 -> Stamp]
    /\ asleep \in BOOLEAN
    /\ accepted \in Nat /\ consumed \in Nat
    /\ gaps \in SUBSET Nat

(* The slot i places behind pread. *)
SlotOf(i) == IF pread + i < size THEN pread + i ELSE pread + i - size

(* The ring is a faithful FIFO: as many bytes are unread as the pointers say,
   fewer than the array holds, and every unread byte is still in its slot,
   whatever the reader and the writer are in the middle of. *)
UnreadIntact ==
    /\ Avail = accepted - consumed
    /\ \A i \in 0 .. Avail - 1 : data[SlotOf(i)] = consumed + i

(* Slots the writer is copying to, slots the reader is copying from. *)
Writing ==
    CASE wpc = "split" -> pwrite .. pwrite + wsplit - 1
      [] wpc = "copy"  -> pwrite .. pwrite + wtodo - 1
      [] OTHER         -> {}

Reading ==
    CASE rpc = "split" -> pread .. pread + rsplit - 1
      [] rpc = "copy"  -> pread .. pread + left - 1
      [] OTHER         -> {}

(* Without any lock between them, the reader's copy and the writer's copy
   never touch a common slot, and both stay inside the array. *)
NoOverlap == Writing \cap Reading = {} /\ Writing \cup Reading \subseteq Slot

(* The bytes one read() call has handed out so far are consecutive ones, ending
   just before the byte at pread; a call that meets an error hands out no more. *)
ReadIsContiguous ==
    rpc # "clear" => \A i \in 0 .. Offset - 1 : ubuf[i] = consumed - Offset + i

(* When a chunk was dropped, no read() call returns bytes from both sides of the
   place where it is missing as if they followed each other: the error that goes
   with the drop ends the call first. *)
NoGapInsideRead ==
    Offset > 0 => \A g \in gaps : ~(ubuf[0] < g /\ g <= ubuf[Offset - 1])

(* A reader asleep while there is a byte or an error for it has a wake-up on its
   way: the callback or the timer handler that made it so has not ended. *)
NoLostWakeup == rpc = "sleep" /\ asleep /\ Ready => wpc # "idle" \/ tpc # "idle"

(* A sleeping reader for which there is a byte or an error gets going again. *)
SleeperServed == (rpc = "sleep" /\ Ready) ~> (rpc # "sleep")

(* The ring and the read loop implement the byte queue of ByteFifo. *)
Fifo == INSTANCE ByteFifo WITH
    tail <- accepted,
    head <- consumed,
    got  <- [i \in 1 .. Offset |-> ubuf[i - 1]],
    open <- rpc # "clear"

FifoSpec == Fifo!Spec
=============================================================================
