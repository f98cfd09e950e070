-------------------------- MODULE DmxBuffer_proofs --------------------------
(***************************************************************************)
(* Proofs about DmxBuffer for every buffer size, chunk length, read length *)
(* and number of bytes.                                                    *)
(*                                                                         *)
(* UnreadIntact alone is not inductive: whether a copy disturbs an unread  *)
(* byte depends on how far the reader and the writer are into theirs.      *)
(* IInv adds that the slots the writer is to fill were free when it asked, *)
(* which the reader can only make more true, and that the slots the reader *)
(* is to fetch were unread when it asked, which the writer can only make   *)
(* more true.                                                              *)
(*                                                                         *)
(* From IInv follows that the ring implements ByteFifo, and, with GapInv   *)
(* on who sets and clears the error of a tap, that no read() jumps a gap.  *)
(***************************************************************************)
EXTENDS MCDmxBuffer, SequenceTheorems, TLAPS

(* The writer's slots are free, those it has filled hold their bytes. *)
WriterInv ==
    /\ wpc \in {"split", "wrap"} =>
         /\ wsplit > 0 /\ wsplit < wtodo
         /\ pwrite + wsplit = size
         /\ wtodo <= Free
    /\ wpc \in {"copy", "publish"} =>
         /\ pwrite + wtodo <= size
         /\ wtodo <= Free
    /\ wpc = "wrap" => \A i \in 0 .. wsplit - 1 : data[pwrite + i] = accepted + i
    /\ wpc = "publish" => \A i \in 0 .. wtodo - 1 : data[pwrite + i] = accepted + i

(* The reader's slots are unread, those it has copied are in the application's buffer. *)
ReaderInv ==
    /\ rpc \in {"split", "wrap"} =>
         /\ rsplit > 0 /\ rsplit < left
         /\ pread + rsplit = size
         /\ left <= Avail
    /\ rpc \in {"copy", "release"} =>
         /\ pread + left <= size
         /\ left <= Avail
    /\ rpc \notin {"split", "wrap", "copy", "release"} => len = 0
    /\ rpc = "idle" => count = 0
    /\ rpc = "wrap" => \A i \in 0 .. rsplit - 1 : ubuf[Offset + i] = consumed + i
    /\ rpc = "release" => \A i \in 0 .. left - 1 : ubuf[Offset + i] = consumed + i

IInv == TypeOK /\ UnreadIntact /\ WriterInv /\ ReaderInv /\ ReadIsContiguous

-----------------------------------------------------------------------------
(* Advancing a pointer up to the end of the array wraps it to slot 0. *)
LEMMA AdvanceWraps ==
    ASSUME size \in Nat \ {0}, NEW p \in Slot, NEW n \in Nat, p + n <= size
    PROVE  Advance(p, n) = IF p + n = size THEN 0 ELSE p + n
  BY DEF Advance, Slot

(* The pointers and lengths are numbers, the array and its capacity agree. *)
LEMMA TypeFacts ==
    ASSUME TypeOK
    PROVE  /\ size \in Nat /\ size > 0
           /\ pread \in Nat /\ pread < size
           /\ pwrite \in Nat /\ pwrite < size
           /\ Avail \in Nat /\ Free \in Nat
           /\ Avail + Free = size - 1
           /\ Offset \in Nat /\ Offset + left <= count /\ count <= MaxCount
           /\ wtodo \in Nat /\ wsplit \in Nat /\ accepted \in Nat /\ consumed \in Nat
           /\ count \in Nat /\ todo \in Nat /\ len \in Nat /\ left \in Nat /\ rsplit \in Nat
           /\ todo <= count /\ len <= todo /\ left <= len
  BY BufferAssumption DEF TypeOK, Slot, Avail, Free, Offset

LEMMA InitInvariant == Init => IInv
<1> SUFFICES ASSUME Init PROVE IInv
  OBVIOUS
<1>1. size \in Nat \ {0} /\ size \in Sizes
  BY BufferAssumption DEF Init
<1>2. TypeOK
  <2>1. 0 \in Slot /\ NoByte \in Stamp
    BY <1>1 DEF Slot, Stamp
  <2>2. data \in [Slot -> Stamp] /\ ubuf \in [0 .. MaxCount - 1 -> Stamp]
    BY <2>1 DEF Init
  <2>3. state \in {"SET", "GO"} /\ feeding \in BOOLEAN
    BY DEF Init
  <2>4. accepted \in Nat /\ consumed \in Nat /\ gaps \in SUBSET Nat
    BY DEF Init
  <2>5. count \in 0 .. MaxCount /\ todo \in 0 .. count /\ len \in 0 .. todo /\ left \in 0 .. len
    BY BufferAssumption DEF Init
  <2> QED
    BY <1>1, <2>1, <2>2, <2>3, <2>4, <2>5 DEF Init, TypeOK
<1>3. Avail = 0 /\ Offset = 0
  BY DEF Init, Avail, Offset
<1>4. UnreadIntact /\ ReadIsContiguous
  BY <1>3 DEF Init, UnreadIntact, ReadIsContiguous
<1>5. WriterInv /\ ReaderInv
  BY DEF Init, WriterInv, ReaderInv
<1> QED
  BY <1>2, <1>4, <1>5 DEF IInv

-----------------------------------------------------------------------------
(* A step that leaves the ring, the call and the numbering alone keeps the
   invariant as long as neither the reader nor the writer gets to a new place
   that promises something. *)
LEMMA QuietStep ==
    ASSUME IInv, TypeOK',
           UNCHANGED <<size, pread, pwrite, data, call, accepted, consumed>>,
           UNCHANGED <<wpc, wtodo, wsplit>> \/ wpc' \notin {"split", "wrap", "copy", "publish"},
           UNCHANGED rpc \/ (rpc # "clear" /\ rpc' \in {"loop", "queued", "sleep", "check", "avail", "flush"}
                              /\ rpc \notin {"split", "wrap", "copy", "release"})
    PROVE  IInv'
<1>1. UnreadIntact'
  BY DEF IInv, UnreadIntact, Avail, SlotOf
<1>2. WriterInv'
  BY DEF IInv, WriterInv, Free
<1>3. ReaderInv'
  BY DEF IInv, ReaderInv, Avail, Offset, call
<1>4. ReadIsContiguous'
  BY DEF IInv, ReadIsContiguous, Offset, call
<1> QED
  BY <1>1, <1>2, <1>3, <1>4 DEF IInv

(* Every step keeps the types; those that store bytes or move a pointer need
   the ranges of IInv for it. *)
LEMMA TypePreserved ==
    ASSUME IInv, [Next]_vars
    PROVE  TypeOK'
<1> USE DEF IInv
<1>1. CASE UNCHANGED vars
  BY <1>1 DEF vars, ring, filter, writer, timer, call, history, TypeOK, Slot
<1>2. CASE CallbackInError \/ CallbackEnter \/ CallbackIgnored
  <2>1. wpc' \in {"wake", "lock", "idle"}
    BY <1>2 DEF CallbackInError, CallbackEnter, CallbackIgnored
  <2>2. gaps' \in {gaps, gaps \cup {accepted}}
    BY <1>2 DEF CallbackInError, CallbackEnter, CallbackIgnored, DropChunk, history
  <2>3. gaps' \in SUBSET Nat
    BY <2>2 DEF TypeOK
  <2>4. UNCHANGED <<ring, filter, wtodo, wsplit, timer, rpc, call, asleep, accepted, consumed>>
    BY <1>2 DEF CallbackInError, CallbackEnter, CallbackIgnored, history
  <2> QED
    BY <2>1, <2>3, <2>4 DEF ring, filter, timer, call, TypeOK, Slot
<1>3. ASSUME NEW n \in 1 .. MaxChunk, WriteOverflow(n) \/ WriteBegin(n)
      PROVE  TypeOK'
  <2>1. CASE WriteOverflow(n)
    <3>1. wpc' = "full" /\ armed' \in BOOLEAN /\ gaps' = gaps \cup {accepted}
      BY <2>1 DEF WriteOverflow, DropChunk
    <3>2. gaps' \in SUBSET Nat
      BY <3>1 DEF TypeOK
    <3>3. UNCHANGED <<ring, filter, wtodo, wsplit, tpc, rpc, call, asleep, accepted, consumed>>
      BY <2>1 DEF WriteOverflow
    <3>4. wpc' \in {"wake", "lock", "idle", "full"}
      BY <3>1
    <3> HIDE DEF IInv
    <3>5. TypeOK
      BY DEF IInv
    <3> QED
      BY <3>1, <3>2, <3>3, <3>4, <3>5 DEF ring, filter, call, TypeOK, Slot
  <2>2. CASE WriteBegin(n)
    <3>1. SplitAt(pwrite, n) \in Nat
      BY <2>2, TypeFacts, BufferAssumption DEF SplitAt
    <3>2. armed' \in BOOLEAN
      BY <2>2 DEF WriteBegin
    <3>3. wtodo' \in Nat /\ wsplit' \in Nat
      BY <2>2, <3>1, BufferAssumption DEF WriteBegin
    <3>4. wpc' \in {"split", "copy"}
      BY <2>2 DEF WriteBegin
    <3>5. UNCHANGED <<ring, filter, tpc, rpc, call, asleep, history>>
      BY <2>2 DEF WriteBegin
    <3> HIDE DEF IInv
    <3>6. TypeOK
      BY DEF IInv
    <3> QED
      BY <3>2, <3>3, <3>4, <3>5, <3>6 DEF ring, filter, call, history, TypeOK, Slot
  <2> QED
    BY <1>3, <2>1, <2>2
<1>4. CASE WriteCopySplit \/ WriteCopy
  <2>1. data' \in [Slot -> Stamp]
    <3> SUFFICES ASSUME NEW n \in Nat, StoreBytes(n) PROVE data' \in [Slot -> Stamp]
      BY <1>4 DEF WriteCopySplit, WriteCopy, TypeOK
    <3>1. \A i \in Slot : i \in pwrite .. pwrite + n - 1 => accepted + (i - pwrite) \in Stamp
      BY TypeFacts DEF TypeOK, Stamp, Slot
    <3> QED
      BY <3>1 DEF StoreBytes, TypeOK
  <2> QED
    <3>1. wpc' \in {"wrap", "publish"}
      BY <1>4 DEF WriteCopySplit, WriteCopy
    <3>2. UNCHANGED <<size, pread, pwrite, error, filter, wtodo, wsplit, timer, rpc, call,
                      asleep, history>>
      BY <1>4 DEF WriteCopySplit, WriteCopy
    <3> QED
      BY <2>1, <3>1, <3>2 DEF filter, timer, call, history, TypeOK, Slot
<1>5. CASE WriteWrap
  <2>1. wtodo - wsplit \in Nat /\ accepted + wsplit \in Nat /\ 0 \in Slot
    BY <1>5, TypeFacts DEF WriteWrap, WriterInv, Slot
  <2>2. /\ pwrite' \in Slot /\ accepted' \in Nat /\ wtodo' \in Nat /\ wsplit' \in Nat /\ wpc' = "copy"
        /\ UNCHANGED <<size, pread, error, data, filter, timer, rpc, call, asleep, consumed, gaps>>
    BY <1>5, <2>1 DEF WriteWrap
  <2> QED
    BY <2>2 DEF filter, timer, call, TypeOK, Slot
<1>6. CASE WritePublish
  <2>1. pwrite' \in Slot
    <3>1. pwrite + wtodo <= size /\ wtodo \in Nat /\ size \in Nat \ {0}
      BY <1>6, TypeFacts DEF WritePublish, WriterInv, TypeOK
    <3>2. Advance(pwrite, wtodo) = IF pwrite + wtodo = size THEN 0 ELSE pwrite + wtodo
      BY <3>1, AdvanceWraps DEF TypeOK
    <3>3. pwrite \in Nat /\ pwrite < size
      BY TypeFacts
    <3> QED
      BY <1>6, <3>1, <3>2, <3>3 DEF WritePublish, Slot
  <2> QED
    BY <1>6, <2>1 DEF WritePublish, filter, timer, call, TypeOK, Slot
<1>7. CASE SetOverflow \/ CallbackDone \/ CallbackWake
  <2>1. wpc' \in {"done", "wake", "idle"} /\ error' \in {error, "EOVERFLOW"}
    BY <1>7 DEF SetOverflow, CallbackDone, CallbackWake, ring
  <2>2. state' \in {state, "DONE"} /\ asleep' \in {asleep, FALSE}
    BY <1>7 DEF SetOverflow, CallbackDone, CallbackWake, filter
  <2>3. /\ error' \in {"none", "EOVERFLOW", "ETIMEDOUT"}
        /\ state' \in {"SET", "GO", "DONE", "TIMEDOUT"} /\ asleep' \in BOOLEAN
    BY <2>1, <2>2 DEF TypeOK
  <2>4. UNCHANGED <<size, pread, pwrite, data, feeding, wtodo, wsplit, timer, rpc, call, history>>
    BY <1>7 DEF SetOverflow, CallbackDone, CallbackWake, ring, filter
  <2> QED
    BY <2>1, <2>3, <2>4 DEF timer, call, history, TypeOK, Slot
<1>8. CASE TimerExpire \/ TimerState \/ TimerWake
  <2>1. error' \in {error, "ETIMEDOUT"} /\ state' \in {state, "TIMEDOUT"}
    BY <1>8 DEF TimerExpire, TimerState, TimerWake, ring, filter
  <2>2. armed' \in {armed, FALSE} /\ tpc' \in {"lock", "wake", "idle"} /\ asleep' \in {asleep, FALSE}
    BY <1>8 DEF TimerExpire, TimerState, TimerWake
  <2>3. /\ error' \in {"none", "EOVERFLOW", "ETIMEDOUT"}
        /\ state' \in {"SET", "GO", "DONE", "TIMEDOUT"}
        /\ armed' \in BOOLEAN /\ asleep' \in BOOLEAN
    BY <2>1, <2>2 DEF TypeOK
  <2>4. UNCHANGED <<size, pread, pwrite, data, feeding, writer, rpc, call, history>>
    BY <1>8 DEF TimerExpire, TimerState, TimerWake, ring, filter
  <2> QED
    BY <2>2, <2>3, <2>4 DEF writer, call, history, TypeOK, Slot
<1>9. CASE FilterStart \/ FilterStop
  BY <1>9 DEF FilterStart, FilterStop, FlushPointers, ring, filter, writer, call,
              history, TypeOK, Slot
<1>10. ASSUME NEW n \in Sizes, SetBufferSize(n)
       PROVE  TypeOK'
  BY <1>10, BufferAssumption DEF SetBufferSize, filter, writer, timer, call, TypeOK, Slot,
              Stamp, NoByte
<1>11. ASSUME NEW n \in 1 .. MaxCount, NEW nb \in BOOLEAN, ReadCall(n, nb)
       PROVE  TypeOK'
  BY <1>11 DEF ReadCall, ring, filter, writer, timer, history, TypeOK, Slot, ReaderInv
<1>12. CASE ReadReturn \/ ReadSignal \/ ReadFault \/ ReadClear
  <2>1. EndCall
    BY <1>12 DEF ReadReturn, ReadSignal, ReadFault, ReadClear
  <2>2. /\ rpc' = "idle" /\ nonblock' \in BOOLEAN
        /\ count' \in 0 .. MaxCount /\ todo' \in 0 .. count'
        /\ len' \in 0 .. todo' /\ left' \in 0 .. len' /\ rsplit' \in Nat
        /\ ubuf' \in [0 .. MaxCount - 1 -> Stamp]
    <3>1. ubuf' \in [0 .. MaxCount - 1 -> Stamp]
      BY <2>1 DEF EndCall, Stamp
    <3>2. nonblock' \in BOOLEAN
      BY <2>1 DEF EndCall
    <3> QED
      BY <2>1, <3>1, <3>2, BufferAssumption DEF EndCall
  <2> QED
    <3>1. UNCHANGED <<size, pread, pwrite, data, filter, writer, timer, history>>
      BY <1>12 DEF ReadReturn, ReadSignal, ReadFault, ReadClear, ring
    <3>2. error' \in {error, "none"} /\ asleep' \in {asleep, FALSE}
      BY <1>12 DEF ReadReturn, ReadSignal, ReadFault, ReadClear, ring
    <3>3. error' \in {"none", "EOVERFLOW", "ETIMEDOUT"} /\ asleep' \in BOOLEAN
      BY <3>2 DEF TypeOK
    <3> QED
      BY <2>2, <3>1, <3>3 DEF filter, writer, timer, history, TypeOK, Slot
<1>13. CASE ReadWait \/ ReadRetest \/ ReadWoken \/ ReadCheck
  <2>1. rpc' \in {"check", "queued", "sleep", "flush", "avail"} /\ asleep' \in BOOLEAN
    BY <1>13 DEF ReadWait, ReadRetest, ReadWoken, ReadCheck, TypeOK
  <2>2. UNCHANGED <<ring, filter, writer, timer, call, history>>
    BY <1>13 DEF ReadWait, ReadRetest, ReadWoken, ReadCheck
  <2> QED
    BY <2>1, <2>2 DEF ring, filter, writer, timer, call, history, TypeOK, Slot
<1>14. CASE ReadFlush
  BY <1>14 DEF ReadFlush, FlushPointers, filter, writer, timer, call, TypeOK, Slot
<1>15. CASE ReadAvail
  <2>1. Avail \in Nat /\ todo \in Nat /\ size \in Nat /\ pread \in Nat /\ pread < size
    BY TypeFacts
  <2>2. len' \in 0 .. todo /\ left' \in 0 .. len' /\ rsplit' \in Nat /\ rpc' \in {"split", "copy"}
    BY <1>15, <2>1 DEF ReadAvail, SplitAt
  <2> QED
    BY <1>15, <2>2 DEF ReadAvail, ring, filter, writer, timer, history, TypeOK, Slot
<1>16. CASE ReadCopySplit \/ ReadCopy
  <2>1. \A i \in Int : Byte(i) \in Stamp
    BY DEF Byte, Stamp, TypeOK
  <2>2. PICK n \in Nat : FetchBytes(n)
    BY <1>16 DEF ReadCopySplit, ReadCopy, TypeOK
  <2>3. \A i \in 0 .. MaxCount - 1 : pread + (i - Offset) \in Int
    BY TypeFacts
  <2>4. ubuf' \in [0 .. MaxCount - 1 -> Stamp]
    BY <2>1, <2>2, <2>3 DEF FetchBytes, TypeOK
  <2>5. /\ rpc' \in {"wrap", "release"}
        /\ UNCHANGED <<ring, filter, writer, timer, nonblock, count, todo, len, left, rsplit,
                       asleep, history>>
    BY <1>16 DEF ReadCopySplit, ReadCopy
  <2> QED
    BY <2>4, <2>5 DEF ring, filter, writer, timer, history, TypeOK, Slot
<1>17. CASE ReadWrap
  <2>1. left - rsplit \in 0 .. len /\ consumed + rsplit \in Nat /\ 0 \in Slot
    BY <1>17, TypeFacts DEF ReadWrap, ReaderInv, Slot
  <2>2. /\ pread' \in Slot /\ consumed' \in Nat /\ left' \in 0 .. len /\ rsplit' \in Nat /\ rpc' = "copy"
        /\ UNCHANGED <<size, pwrite, error, data, filter, writer, timer, nonblock, count, todo, len,
                       ubuf, asleep, accepted, gaps>>
    BY <1>17, <2>1 DEF ReadWrap
  <2> QED
    BY <2>2 DEF filter, writer, timer, TypeOK, Slot
<1>18. CASE ReadRelease
  <2>1. pread' \in Slot
    <3>1. pread + left <= size /\ left \in Nat /\ size \in Nat \ {0} /\ pread \in Nat /\ pread < size
      BY <1>18, TypeFacts DEF ReadRelease, ReaderInv
    <3>2. Advance(pread, left) = IF pread + left = size THEN 0 ELSE pread + left
      BY <3>1, AdvanceWraps DEF Slot
    <3> QED
      BY <1>18, <3>1, <3>2 DEF ReadRelease, Slot
  <2>2. todo' \in 0 .. count /\ consumed' \in Nat
    BY <1>18, TypeFacts DEF ReadRelease, TypeOK
  <2> QED
    BY <1>18, <2>1, <2>2 DEF ReadRelease, filter, writer, timer, TypeOK, Slot
<1> QED
  BY <1>1, <1>2, <1>3, <1>4, <1>5, <1>6, <1>7, <1>8, <1>9, <1>10, <1>11, <1>12, <1>13,
     <1>14, <1>15, <1>16, <1>17, <1>18
  DEF Next, Writer, WriterStep, Reader, ReaderStep

-----------------------------------------------------------------------------
(* The callback's steps. *)

(* Storing into free slots leaves every unread byte in place. *)
LEMMA StoreKeepsUnread ==
    ASSUME TypeOK, UnreadIntact,
           NEW n \in Nat, n <= Free, pwrite + n <= size, StoreBytes(n),
           UNCHANGED <<size, pread, pwrite, accepted, consumed>>
    PROVE  /\ UnreadIntact'
           /\ \A i \in 0 .. n - 1 : data'[pwrite + i] = accepted + i
<1>1. \A i \in 0 .. Avail - 1 : SlotOf(i) \in Slot /\ SlotOf(i) \notin pwrite .. pwrite + n - 1
  BY TypeFacts DEF SlotOf, Slot, Avail, Free
<1>2. \A i \in 0 .. Avail - 1 : data'[SlotOf(i)] = data[SlotOf(i)]
  BY <1>1 DEF StoreBytes
<1>3. \A i \in 0 .. n - 1 : pwrite + i \in Slot /\ pwrite + i \in pwrite .. pwrite + n - 1
  BY TypeFacts DEF Slot
<1>4. \A i \in 0 .. n - 1 : data'[pwrite + i] = accepted + ((pwrite + i) - pwrite)
  BY <1>3 DEF StoreBytes
<1>5. Avail' = Avail /\ \A i \in 0 .. Avail - 1 : SlotOf(i)' = SlotOf(i)
  BY DEF Avail, SlotOf
<1>6. UnreadIntact'
  BY <1>2, <1>5 DEF UnreadIntact
<1> QED
  BY <1>4, <1>6, TypeFacts

(* Fetching unread slots appends their bytes to what the call has so far. *)
LEMMA FetchAppends ==
    ASSUME TypeOK, UnreadIntact,
           NEW n \in Nat, n <= Avail, pread + n <= size, Offset + n <= MaxCount,
           FetchBytes(n)
    PROVE  /\ \A i \in 0 .. Offset - 1 : ubuf'[i] = ubuf[i]
           /\ \A i \in 0 .. n - 1 : ubuf'[Offset + i] = consumed + i
<1>1. \A i \in 0 .. n - 1 : Byte(pread + i) = consumed + i
  BY TypeFacts DEF UnreadIntact, Byte, SlotOf, Slot
<1>2. \A i \in 0 .. Offset - 1 : i \in 0 .. MaxCount - 1 /\ i \notin Offset .. Offset + n - 1
  BY TypeFacts, BufferAssumption
<1>3. \A i \in 0 .. n - 1 : Offset + i \in 0 .. MaxCount - 1 /\ Offset + i \in Offset .. Offset + n - 1
  BY TypeFacts, BufferAssumption
<1>4. \A i \in 0 .. n - 1 : ubuf'[Offset + i] = Byte(pread + ((Offset + i) - Offset))
  BY <1>3 DEF FetchBytes
<1>5. \A i \in 0 .. n - 1 : (Offset + i) - Offset = i
  BY TypeFacts
<1>6. \A i \in 0 .. n - 1 : ubuf'[Offset + i] = consumed + i
  BY <1>1, <1>4, <1>5
<1> QED
  BY <1>2, <1>6 DEF FetchBytes

LEMMA WriterPreserves ==
    ASSUME IInv, TypeOK',
           \/ \E n \in 1 .. MaxChunk : WriteBegin(n)
           \/ WriteCopySplit \/ WriteWrap \/ WriteCopy \/ WritePublish
    PROVE  IInv'
<1> USE DEF IInv
<1>0. /\ size \in Nat /\ size > 0
      /\ pread \in Nat /\ pread < size /\ pwrite \in Nat /\ pwrite < size
      /\ Avail \in Nat /\ Free \in Nat /\ Avail + Free = size - 1
      /\ Offset \in Nat /\ Offset + left <= count /\ count <= MaxCount
      /\ wtodo \in Nat /\ wsplit \in Nat /\ accepted \in Nat /\ consumed \in Nat
      /\ count \in Nat /\ todo \in Nat /\ len \in Nat /\ left \in Nat /\ rsplit \in Nat
      /\ todo <= count /\ len <= todo /\ left <= len
      /\ MaxCount \in Nat
  BY TypeFacts, BufferAssumption
<1>1. ASSUME NEW n \in 1 .. MaxChunk, WriteBegin(n)
      PROVE  IInv'
  <2>1. UnreadIntact' /\ ReaderInv' /\ ReadIsContiguous'
    BY <1>1, <1>0 DEF WriteBegin, ring, call, history, UnreadIntact, ReaderInv, ReadIsContiguous,
                Avail, SlotOf, Offset
  <2>2. WriterInv'
    BY <1>1, <1>0 DEF WriteBegin, ring, history, SplitAt, WriterInv, Free
  <2> QED
    BY <2>1, <2>2
<1>2. CASE WriteCopySplit
  <2>1. UnreadIntact' /\ \A i \in 0 .. wsplit - 1 : data'[pwrite + i] = accepted + i
    BY <1>2, <1>0, StoreKeepsUnread DEF WriteCopySplit, history, WriterInv
  <2>2. WriterInv'
    BY <1>2, <2>1, <1>0 DEF WriteCopySplit, history, WriterInv, Free
  <2>3. ReaderInv' /\ ReadIsContiguous'
    BY <1>2, <1>0 DEF WriteCopySplit, call, history, ReaderInv, ReadIsContiguous, Avail, Offset
  <2> QED
    BY <2>1, <2>2, <2>3
<1>3. CASE WriteWrap
  <2>1. Avail' = Avail + wsplit /\ Free' = Free - wsplit
    BY <1>3, <1>0 DEF WriteWrap, WriterInv, Avail, Free
  <2>2. UnreadIntact'
    BY <1>3, <2>1, <1>0 DEF WriteWrap, UnreadIntact, WriterInv, Avail, SlotOf
  <2>3. WriterInv'
    BY <1>3, <2>1, <1>0 DEF WriteWrap, WriterInv, Free, Avail
  <2>4. ReaderInv' /\ ReadIsContiguous'
    BY <1>3, <2>1, <1>0 DEF WriteWrap, WriterInv, call, ReaderInv, ReadIsContiguous, Offset
  <2> QED
    BY <2>2, <2>3, <2>4
<1>4. CASE WriteCopy
  <2>1. UnreadIntact' /\ \A i \in 0 .. wtodo - 1 : data'[pwrite + i] = accepted + i
    BY <1>4, <1>0, StoreKeepsUnread DEF WriteCopy, history, WriterInv
  <2>2. WriterInv'
    BY <1>4, <2>1, <1>0 DEF WriteCopy, history, WriterInv, Free
  <2>3. ReaderInv' /\ ReadIsContiguous'
    BY <1>4, <1>0 DEF WriteCopy, call, history, ReaderInv, ReadIsContiguous, Avail, Offset
  <2> QED
    BY <2>1, <2>2, <2>3
<1>5. CASE WritePublish
  <2>1. /\ pwrite + wtodo <= size /\ wtodo \in Nat /\ wtodo <= Free
        /\ pwrite' = IF pwrite + wtodo = size THEN 0 ELSE pwrite + wtodo
    <3>1. pwrite + wtodo <= size /\ wtodo \in Nat /\ wtodo <= Free /\ size \in Nat \ {0}
      BY <1>5, <1>0 DEF WritePublish, WriterInv
    <3> QED
      BY <1>5, <3>1, AdvanceWraps DEF WritePublish, TypeOK
  <2>2. Avail' = Avail + wtodo
    BY <1>5, <2>1, <1>0 DEF WritePublish, Avail, Free
  <2>3. UnreadIntact'
    <3>1. ASSUME NEW i \in 0 .. Avail' - 1
          PROVE  data'[SlotOf(i)'] = consumed' + i
      <4>1. CASE i < Avail
        BY <1>5, <2>2, <4>1, <1>0 DEF WritePublish, UnreadIntact, SlotOf
      <4>2. CASE i >= Avail
        <5>1. i - Avail \in 0 .. wtodo - 1 /\ SlotOf(i)' = pwrite + (i - Avail)
          BY <1>5, <2>1, <2>2, <4>2, <1>0 DEF WritePublish, SlotOf, Avail, Free
        <5>2. data'[SlotOf(i)'] = accepted + (i - Avail)
          BY <1>5, <5>1 DEF WritePublish, WriterInv
        <5> QED
          BY <1>5, <5>2, <4>2, <2>2, <1>0 DEF WritePublish, UnreadIntact
      <4> QED
        BY <4>1, <4>2, <2>2, <2>1, <1>0
    <3>2. Avail' = accepted' - consumed'
      BY <1>5, <2>1, <2>2, <1>0 DEF WritePublish, UnreadIntact
    <3> QED
      BY <3>1, <3>2 DEF UnreadIntact
  <2>4. WriterInv'
    BY <1>5, <1>0 DEF WritePublish, WriterInv
  <2>5. ReaderInv' /\ ReadIsContiguous'
    BY <1>5, <2>1, <2>2, <1>0 DEF WritePublish, call, ReaderInv, ReadIsContiguous, Offset
  <2> QED
    BY <2>3, <2>4, <2>5
<1> QED
  BY <1>1, <1>2, <1>3, <1>4, <1>5

-----------------------------------------------------------------------------
(* The reader's steps. *)

LEMMA ReaderPreserves ==
    ASSUME IInv, TypeOK', Kind # "dvr",
           \/ ReadFlush \/ ReadAvail
           \/ ReadCopySplit \/ ReadWrap \/ ReadCopy \/ ReadRelease
    PROVE  IInv'
<1> USE DEF IInv
<1>0. /\ size \in Nat /\ size > 0
      /\ pread \in Nat /\ pread < size /\ pwrite \in Nat /\ pwrite < size
      /\ Avail \in Nat /\ Free \in Nat /\ Avail + Free = size - 1
      /\ Offset \in Nat /\ Offset + left <= count /\ count <= MaxCount
      /\ wtodo \in Nat /\ wsplit \in Nat /\ accepted \in Nat /\ consumed \in Nat
      /\ count \in Nat /\ todo \in Nat /\ len \in Nat /\ left \in Nat /\ rsplit \in Nat
      /\ todo <= count /\ len <= todo /\ left <= len
      /\ MaxCount \in Nat
  BY TypeFacts, BufferAssumption
<1>1. CASE ReadFlush
  <2>1. Avail' = 0 /\ Free' >= Free
    BY <1>1, <1>0 DEF ReadFlush, FlushPointers, Avail, Free
  <2>2. UnreadIntact'
    BY <1>1, <2>1, <1>0 DEF ReadFlush, FlushPointers, UnreadIntact
  <2>3. WriterInv'
    BY <1>1, <2>1, <1>0 DEF ReadFlush, FlushPointers, writer, WriterInv, Free
  <2>4. ReaderInv' /\ ReadIsContiguous'
    BY <1>1, <1>0 DEF ReadFlush, call, ReaderInv, ReadIsContiguous
  <2> QED
    BY <2>2, <2>3, <2>4
<1>2. CASE ReadAvail
  <2>1. UnreadIntact' /\ WriterInv'
    BY <1>2, <1>0 DEF ReadAvail, ring, writer, history, UnreadIntact, WriterInv, Avail, SlotOf, Free
  <2>2. ReaderInv'
    BY <1>2, <1>0 DEF ReadAvail, SplitAt, ring, history, ReaderInv, Avail
  <2>3. ReadIsContiguous'
    BY <1>2, <1>0 DEF ReadAvail, history, ReaderInv, ReadIsContiguous, Offset
  <2> QED
    BY <2>1, <2>2, <2>3
<1>3. CASE ReadCopySplit
  <2>1. UnreadIntact' /\ WriterInv'
    BY <1>3, <1>0 DEF ReadCopySplit, ring, writer, history, UnreadIntact, WriterInv, Avail, SlotOf, Free
  <2>2. /\ \A i \in 0 .. Offset - 1 : ubuf'[i] = ubuf[i]
        /\ \A i \in 0 .. rsplit - 1 : ubuf'[Offset + i] = consumed + i
    BY <1>3, <1>0, FetchAppends DEF ReadCopySplit, ReaderInv
  <2>3. ReaderInv'
    BY <1>3, <2>2, <1>0 DEF ReadCopySplit, ring, history, ReaderInv, Avail, Offset
  <2>4. ReadIsContiguous'
    BY <1>3, <2>2, <1>0 DEF ReadCopySplit, history, ReadIsContiguous, Offset
  <2> QED
    BY <2>1, <2>3, <2>4
<1>4. CASE ReadWrap
  <2>1. Avail' = Avail - rsplit /\ Free' = Free + rsplit
    BY <1>4, <1>0 DEF ReadWrap, ReaderInv, Avail, Free
  <2>2. UnreadIntact'
    <3>1. ASSUME NEW i \in 0 .. Avail' - 1
          PROVE  data'[SlotOf(i)'] = consumed' + i
      <4>1. i + rsplit \in 0 .. Avail - 1 /\ SlotOf(i)' = SlotOf(i + rsplit)
        BY <1>4, <2>1, <1>0 DEF ReadWrap, ReaderInv, SlotOf, Avail
      <4> QED
        BY <1>4, <4>1, <1>0 DEF ReadWrap, UnreadIntact
    <3>2. Avail' = accepted' - consumed'
      BY <1>4, <2>1, <1>0 DEF ReadWrap, UnreadIntact
    <3> QED
      BY <3>1, <3>2 DEF UnreadIntact
  <2>3. WriterInv'
    BY <1>4, <2>1, <1>0 DEF ReadWrap, ReaderInv, writer, WriterInv
  <2>4. ReaderInv'
    BY <1>4, <2>1, <1>0 DEF ReadWrap, ReaderInv, Avail
  <2>5. ReadIsContiguous'
    BY <1>4, <1>0 DEF ReadWrap, ReaderInv, ReadIsContiguous, Offset
  <2> QED
    BY <2>2, <2>3, <2>4, <2>5
<1>5. CASE ReadCopy
  <2>1. UnreadIntact' /\ WriterInv'
    BY <1>5, <1>0 DEF ReadCopy, ring, writer, history, UnreadIntact, WriterInv, Avail, SlotOf, Free
  <2>2. /\ \A i \in 0 .. Offset - 1 : ubuf'[i] = ubuf[i]
        /\ \A i \in 0 .. left - 1 : ubuf'[Offset + i] = consumed + i
    <3>1. left <= Avail /\ pread + left <= size /\ Offset + left <= MaxCount /\ FetchBytes(left)
      BY <1>5, <1>0 DEF ReadCopy, ReaderInv
    <3> QED
      BY <3>1, <1>0, FetchAppends
  <2>3. ReaderInv'
    BY <1>5, <2>2, <1>0 DEF ReadCopy, ring, history, ReaderInv, Avail, Offset
  <2>4. ReadIsContiguous'
    BY <1>5, <2>2, <1>0 DEF ReadCopy, history, ReadIsContiguous, Offset
  <2> QED
    BY <2>1, <2>3, <2>4
<1>6. CASE ReadRelease
  <2>1. /\ pread + left <= size /\ left \in Nat /\ left <= Avail
        /\ pread' = IF pread + left = size THEN 0 ELSE pread + left
    <3>1. pread + left <= size /\ left \in Nat /\ left <= Avail /\ size \in Nat \ {0}
      BY <1>6, <1>0 DEF ReadRelease, ReaderInv
    <3> QED
      BY <1>6, <3>1, AdvanceWraps DEF ReadRelease, TypeOK
  <2>2. Avail' = Avail - left /\ Free' = Free + left
    BY <1>6, <2>1, <1>0 DEF ReadRelease, Avail, Free
  <2>3. UnreadIntact'
    BY <1>6, <2>1, <2>2, <1>0 DEF ReadRelease, UnreadIntact, Avail, SlotOf
  <2>4. WriterInv'
    BY <1>6, <2>1, <2>2, <1>0 DEF ReadRelease, writer, WriterInv
  <2>5. ReaderInv'
    BY <1>6, <1>0 DEF ReadRelease, ReaderInv
  <2>6. ReadIsContiguous'
    BY <1>6, <2>1, <1>0 DEF ReadRelease, ReaderInv, ReadIsContiguous, Offset
  <2> QED
    BY <2>3, <2>4, <2>5, <2>6
<1> QED
  BY <1>1, <1>2, <1>3, <1>4, <1>5, <1>6

-----------------------------------------------------------------------------
(* The ioctls, the start of a read and its end: nobody is in a copy. *)
LEMMA OwnerPreserves ==
    ASSUME IInv, TypeOK', Kind # "dvr",
           \/ FilterStart \/ FilterStop
           \/ \E n \in Sizes : SetBufferSize(n)
           \/ \E n \in 1 .. MaxCount, nb \in BOOLEAN : ReadCall(n, nb)
           \/ ReadReturn \/ ReadSignal \/ ReadFault \/ ReadClear
    PROVE  IInv'
<1> USE DEF IInv
<1>0. /\ size \in Nat /\ size > 0 /\ pwrite \in Nat /\ accepted \in Nat
      /\ count \in Nat /\ todo \in Nat /\ len \in Nat /\ left \in Nat
  BY TypeFacts
<1>1. CASE FilterStart \/ FilterStop
  <2>1. /\ rpc = "idle" /\ wpc = "idle" /\ FlushPointers
        /\ UNCHANGED <<size, pwrite, writer, rpc, call, accepted>>
    BY <1>1 DEF FilterStart, FilterStop, ReaderExcluded
  <2>2. Avail' = 0 /\ UnreadIntact'
    BY <1>0, <2>1 DEF FlushPointers, Avail, UnreadIntact
  <2>3. Offset = 0 /\ Offset' = 0
    BY <1>0, <2>1 DEF call, ReaderInv, Offset, TypeOK
  <2>4. WriterInv' /\ ReaderInv' /\ ReadIsContiguous'
    BY <2>1, <2>3 DEF writer, call, WriterInv, ReaderInv, ReadIsContiguous
  <2> QED
    BY <2>2, <2>4
<1>2. ASSUME NEW n \in Sizes, SetBufferSize(n)
      PROVE  IInv'
  <2>1. rpc = "idle" /\ wpc \notin Locked /\ Avail' = 0
    BY <1>2 DEF SetBufferSize, ReaderExcluded, Avail
  <2>2. UnreadIntact'
    BY <1>2, <1>0, <2>1 DEF SetBufferSize, UnreadIntact
  <2>3. Offset = 0 /\ Offset' = 0
    BY <1>2, <1>0, <2>1 DEF SetBufferSize, call, ReaderInv, Offset, TypeOK
  <2>4. WriterInv' /\ ReaderInv' /\ ReadIsContiguous'
    BY <1>2, <2>1, <2>3 DEF SetBufferSize, writer, call, Locked, WriterInv, ReaderInv, ReadIsContiguous
  <2> QED
    BY <2>2, <2>4
<1>3. ASSUME NEW n \in 1 .. MaxCount, NEW nb \in BOOLEAN, ReadCall(n, nb)
      PROVE  IInv'
  <2>1. UnreadIntact' /\ WriterInv'
    BY <1>3 DEF ReadCall, ring, writer, history, UnreadIntact, WriterInv, Avail, SlotOf, Free
  <2>2. ReaderInv' /\ Offset' = 0
    BY <1>3, <1>0 DEF ReadCall, ReaderInv, Offset, TypeOK
  <2>3. ReadIsContiguous'
    BY <2>2 DEF ReadIsContiguous
  <2> QED
    BY <2>1, <2>2, <2>3
<1>4. CASE ReadReturn \/ ReadSignal \/ ReadFault \/ ReadClear
  <2>1. EndCall /\ UNCHANGED <<size, pread, pwrite, data, writer, history>>
    BY <1>4 DEF ReadReturn, ReadSignal, ReadFault, ReadClear, ring
  <2>2. UnreadIntact' /\ WriterInv'
    BY <2>1 DEF writer, history, UnreadIntact, WriterInv, Avail, SlotOf, Free
  <2>3. ReaderInv' /\ Offset' = 0
    BY <2>1 DEF EndCall, ReaderInv, Offset
  <2>4. ReadIsContiguous'
    BY <2>3 DEF ReadIsContiguous
  <2> QED
    BY <2>2, <2>3, <2>4
<1> QED
  BY <1>1, <1>2, <1>3, <1>4

LEMMA StepInvariant ==
    ASSUME IInv, [Next]_vars, Kind # "dvr"
    PROVE  IInv'
<1>1. TypeOK'
  BY TypePreserved
<1>2. CASE \/ UNCHANGED vars
           \/ CallbackInError \/ CallbackEnter \/ CallbackIgnored
           \/ \E n \in 1 .. MaxChunk : WriteOverflow(n)
           \/ SetOverflow \/ CallbackDone \/ CallbackWake
  <2>1. /\ UNCHANGED <<size, pread, pwrite, data, call, accepted, consumed>>
        /\ UNCHANGED rpc
        /\ UNCHANGED writer \/ wpc' \notin {"split", "wrap", "copy", "publish"}
    BY <1>2 DEF CallbackInError, CallbackEnter, CallbackIgnored, WriteOverflow, SetOverflow,
                CallbackDone, CallbackWake, vars, ring, history
  <2> QED
    BY <1>1, <2>1, QuietStep DEF writer
<1>3. CASE TimerExpire \/ TimerState \/ TimerWake
  BY <1>1, <1>3, QuietStep DEF TimerExpire, TimerState, TimerWake, ring, writer, call, history
<1>4. CASE ReadWait \/ ReadRetest \/ ReadWoken \/ ReadCheck
  <2>1. UNCHANGED <<ring, writer, call, history>>
    BY <1>4 DEF ReadWait, ReadRetest, ReadWoken, ReadCheck
  <2>2. /\ rpc \in {"loop", "queued", "sleep", "check"}
        /\ rpc' \in {"check", "queued", "sleep", "flush", "avail"}
    BY <1>4 DEF ReadWait, ReadRetest, ReadWoken, ReadCheck
  <2> QED
    BY <1>1, <2>1, <2>2, QuietStep DEF ring, writer, history
<1> QED
  BY <1>1, <1>2, <1>3, <1>4, WriterPreserves, ReaderPreserves, OwnerPreserves
  DEF Next, Writer, WriterStep, Reader, ReaderStep

-----------------------------------------------------------------------------
(* The buffer of a filter, which read() and the ioctls use under filter->mutex,
   keeps the invariant whatever the callback and the timer do meanwhile. *)
THEOREM Invariance ==
    ASSUME Kind # "dvr"
    PROVE  Spec => []IInv
<1>1. IInv /\ [Next]_vars => IInv'
  BY StepInvariant
<1> QED
  BY InitInvariant, <1>1, PTL DEF Spec

(* dvb_ringbuffer.h:68-69, "if there is exactly one reader and one writer, there
   is no need to lock read or write operations": type correctness. *)
THEOREM TypeCorrect ==
    ASSUME Kind # "dvr"
    PROVE  Spec => []TypeOK
<1>1. IInv => TypeOK
  BY DEF IInv
<1> QED
  BY Invariance, <1>1, PTL

(* ...no unread byte is ever overwritten, lost or counted twice... *)
THEOREM UnreadStaysIntact ==
    ASSUME Kind # "dvr"
    PROVE  Spec => []UnreadIntact
<1>1. IInv => UnreadIntact
  BY DEF IInv
<1> QED
  BY Invariance, <1>1, PTL

(* ...what one read() returns is a run of consecutive bytes... *)
THEOREM ReadsAreContiguous ==
    ASSUME Kind # "dvr"
    PROVE  Spec => []ReadIsContiguous
<1>1. IInv => ReadIsContiguous
  BY DEF IInv
<1> QED
  BY Invariance, <1>1, PTL

(* ...and the two copies never meet. *)
THEOREM CopiesDisjoint ==
    ASSUME Kind # "dvr"
    PROVE  Spec => []NoOverlap
<1>1. IInv => NoOverlap
  <2> SUFFICES ASSUME IInv PROVE NoOverlap
    OBVIOUS
  <2>1. /\ size \in Nat /\ pread \in Nat /\ pread < size /\ pwrite \in Nat /\ pwrite < size
        /\ wtodo \in Nat /\ wsplit \in Nat /\ left \in Nat /\ rsplit \in Nat
    BY TypeFacts DEF IInv
  <2>2. \A i \in Writing : /\ i \in Nat /\ pwrite <= i /\ i < size
                            /\ i - pwrite < Free
    <3>1. CASE wpc = "split"
      <4>1. Writing = pwrite .. pwrite + wsplit - 1
        BY <3>1 DEF Writing
      <4>2. pwrite + wsplit <= size /\ wsplit <= Free /\ Free \in Nat
        BY <2>1, <3>1, TypeFacts DEF IInv, WriterInv
      <4> QED
        BY <2>1, <4>1, <4>2
    <3>2. CASE wpc = "copy"
      <4>1. Writing = pwrite .. pwrite + wtodo - 1
        BY <3>2 DEF Writing
      <4>2. pwrite + wtodo <= size /\ wtodo <= Free /\ Free \in Nat
        BY <2>1, <3>2, TypeFacts DEF IInv, WriterInv
      <4> QED
        BY <2>1, <4>1, <4>2
    <3>3. CASE wpc \notin {"split", "copy"}
      BY <3>3 DEF Writing
    <3> QED
      BY <3>1, <3>2, <3>3
  <2>3. \A i \in Reading : /\ i \in Nat /\ pread <= i /\ i < size
                            /\ i - pread < Avail
    <3>1. CASE rpc = "split"
      <4>1. Reading = pread .. pread + rsplit - 1
        BY <3>1 DEF Reading
      <4>2. pread + rsplit <= size /\ rsplit <= Avail /\ Avail \in Nat
        BY <2>1, <3>1, TypeFacts DEF IInv, ReaderInv
      <4> QED
        BY <2>1, <4>1, <4>2
    <3>2. CASE rpc = "copy"
      <4>1. Reading = pread .. pread + left - 1
        BY <3>2 DEF Reading
      <4>2. pread + left <= size /\ left <= Avail /\ Avail \in Nat
        BY <2>1, <3>2, TypeFacts DEF IInv, ReaderInv
      <4> QED
        BY <2>1, <4>1, <4>2
    <3>3. CASE rpc \notin {"split", "copy"}
      BY <3>3 DEF Reading
    <3> QED
      BY <3>1, <3>2, <3>3
  <2>4. \A i \in Nat : i \in Writing => i \notin Reading
    BY <2>1, <2>2, <2>3 DEF Free, Avail
  <2>5. \A i \in Writing \cup Reading : i \in Slot
    BY <2>1, <2>2, <2>3 DEF Slot
  <2> QED
    BY <2>2, <2>4, <2>5 DEF NoOverlap
<1> QED
  BY Invariance, <1>1, PTL

-----------------------------------------------------------------------------
(* Who will wake a sleeping reader that has something to read: a callback that
   has published or set the error, or a timer handler.  NoLostWakeup itself is
   not inductive, a callback that has only taken dev->lock wakes nobody. *)
WakeInv ==
    rpc = "sleep" /\ asleep /\ Ready =>
        wpc \in {"copy", "publish", "done", "wake"} \/ tpc # "idle"

LEMMA WakeStep ==
    ASSUME WakeInv, [Next]_vars
    PROVE  WakeInv'
<1>1. CASE UNCHANGED vars
  BY <1>1 DEF vars, ring, writer, timer, WakeInv, Ready, RingEmpty
<1>2. CASE CallbackInError \/ CallbackEnter \/ CallbackIgnored
  BY <1>2 DEF CallbackInError, CallbackEnter, CallbackIgnored, ring, timer, WakeInv, Ready, RingEmpty
<1>3. ASSUME NEW n \in 1 .. MaxChunk, WriteOverflow(n) \/ WriteBegin(n)
      PROVE  WakeInv'
  BY <1>3 DEF WriteOverflow, WriteBegin, ring, WakeInv, Ready, RingEmpty
<1>4. CASE WriteCopySplit \/ WriteWrap \/ WriteCopy \/ WritePublish
  BY <1>4 DEF WriteCopySplit, WriteWrap, WriteCopy, WritePublish, timer, WakeInv, Ready, RingEmpty
<1>5. CASE SetOverflow \/ CallbackDone \/ CallbackWake
  BY <1>5 DEF SetOverflow, CallbackDone, CallbackWake, ring, timer, WakeInv, Ready, RingEmpty
<1>6. CASE TimerExpire \/ TimerState \/ TimerWake
  BY <1>6 DEF TimerExpire, TimerState, TimerWake, ring, writer, WakeInv, Ready, RingEmpty
<1>7. CASE FilterStart \/ FilterStop
  BY <1>7 DEF FilterStart, FilterStop, ReaderExcluded, WakeInv
<1>8. ASSUME NEW n \in Sizes, SetBufferSize(n)
      PROVE  WakeInv'
  BY <1>8 DEF SetBufferSize, WakeInv, Ready, RingEmpty
<1>9. CASE \/ \E n \in 1 .. MaxCount, nb \in BOOLEAN : ReadCall(n, nb)
           \/ ReadReturn \/ ReadSignal \/ ReadFault \/ ReadWait \/ ReadWoken
           \/ ReadCheck \/ ReadFlush \/ ReadClear \/ ReadAvail
           \/ ReadCopySplit \/ ReadWrap \/ ReadCopy \/ ReadRelease
  <2>1. rpc' # "sleep"
    BY <1>9 DEF ReadCall, ReadReturn, ReadSignal, ReadFault, ReadWait, ReadWoken, ReadCheck, ReadFlush,
                ReadClear, ReadAvail, ReadCopySplit, ReadWrap, ReadCopy, ReadRelease, EndCall
  <2> QED
    BY <2>1 DEF WakeInv
<1>10. CASE ReadRetest
  BY <1>10 DEF ReadRetest, ring, WakeInv, Ready, RingEmpty
<1> QED
  BY <1>1, <1>2, <1>3, <1>4, <1>5, <1>6, <1>7, <1>8, <1>9, <1>10
  DEF Next, Writer, WriterStep, Reader, ReaderStep

(* wait_event_interruptible and wake_up are used so that no wake-up is lost, for
   a filter and for the DVR device alike. *)
THEOREM NoWakeupIsLost == Spec => []NoLostWakeup
<1>1. Init => WakeInv
  BY DEF Init, WakeInv
<1>2. WakeInv /\ [Next]_vars => WakeInv'
  BY WakeStep
<1>3. WakeInv => NoLostWakeup
  BY DEF WakeInv, NoLostWakeup
<1> QED
  BY <1>1, <1>2, <1>3, PTL DEF Spec

-----------------------------------------------------------------------------
(* The first m bytes of a buffer, as a sequence. *)
Prefix(f, m) == [i \in 1 .. m |-> f[i - 1]]

(* The n bytes from number c on. *)
Run(c, n) == [i \in 1 .. n |-> c + i - 1]

LEMMA PrefixIsASeq ==
    ASSUME NEW m \in Nat, NEW f, \A i \in 0 .. m - 1 : f[i] \in Int
    PROVE  Prefix(f, m) \in Seq(Int) /\ Len(Prefix(f, m)) = m /\ (m = 0 => Prefix(f, m) = <<>>)
<1>1. \A i \in 1 .. m : i - 1 \in 0 .. m - 1
  OBVIOUS
<1>2. Prefix(f, m) \in [1 .. m -> Int]
  BY <1>1 DEF Prefix
<1>3. Prefix(f, m) \in Seq(Int) /\ Len(Prefix(f, m)) = m
  BY <1>2, SeqDef
<1> QED
  BY <1>3, EmptySeq

(* Handing out the n bytes from c on after the first m ones. *)
LEMMA PrefixGrows ==
    ASSUME NEW m \in Nat, NEW n \in Nat, NEW c \in Nat, NEW f,
           \A i \in 0 .. m - 1 : f[i] \in Int,
           \A i \in 0 .. n - 1 : f[m + i] = c + i
    PROVE  Prefix(f, m + n) = Prefix(f, m) \o Run(c, n)
<1> DEFINE new == Run(c, n)
<1>1. \A i \in 0 .. m + n - 1 : f[i] \in Int
  <2> TAKE i \in 0 .. m + n - 1
  <2>1. CASE i >= m
    <3>1. i - m \in 0 .. n - 1 /\ m + (i - m) = i
      BY <2>1
    <3> QED
      BY <3>1
  <2> QED
    BY <2>1
<1>2. Prefix(f, m) \in Seq(Int) /\ Len(Prefix(f, m)) = m
  BY PrefixIsASeq
<1>3. Prefix(f, m + n) \in Seq(Int) /\ Len(Prefix(f, m + n)) = m + n
  BY <1>1, PrefixIsASeq
<1>4. new \in Seq(Int) /\ Len(new) = n /\ \A i \in 1 .. n : new[i] = c + i - 1
  <2>1. new \in [1 .. n -> Int]
    BY DEF Run
  <2> QED
    BY <2>1, SeqDef DEF Run
<1> HIDE DEF new
<1>5. /\ Prefix(f, m) \o new \in Seq(Int)
      /\ Len(Prefix(f, m) \o new) = m + n
      /\ \A i \in 1 .. m + n : (Prefix(f, m) \o new)[i] = IF i <= m THEN Prefix(f, m)[i] ELSE new[i - m]
  BY <1>2, <1>4, ConcatProperties
<1>6. ASSUME NEW i \in 1 .. m + n PROVE Prefix(f, m + n)[i] = (Prefix(f, m) \o new)[i]
  <2>1. Prefix(f, m + n)[i] = f[i - 1]
    BY DEF Prefix
  <2>2. CASE i <= m
    BY <1>5, <2>1, <2>2 DEF Prefix
  <2>3. CASE ~(i <= m)
    <3>1. PICK k \in 0 .. n - 1 : i - 1 = m + k
      <4>1. i - 1 - m \in 0 .. n - 1 /\ i - 1 = m + (i - 1 - m)
        BY <2>3
      <4> QED
        BY <4>1
    <3>2. f[i - 1] = c + k
      BY <3>1
    <3>3. i - m = k + 1 /\ k + 1 \in 1 .. n
      BY <3>1
    <3>4. new[i - m] = c + (k + 1) - 1
      BY <1>4, <3>3
    <3>5. (Prefix(f, m) \o new)[i] = new[i - m]
      BY <1>5, <2>3
    <3>6. c + (k + 1) - 1 = c + k
      BY <3>1
    <3> QED
      BY <2>1, <3>2, <3>4, <3>5, <3>6
  <2> QED
    BY <2>2, <2>3
<1>7. Prefix(f, m + n) = Prefix(f, m) \o new
  BY <1>3, <1>5, <1>6, SeqEqual
<1> QED
  BY <1>7 DEF new

-----------------------------------------------------------------------------
LEMMA InitMaps == Init => Fifo!Init
  <1> SUFFICES ASSUME Init PROVE Fifo!Init
    OBVIOUS
  <1>1. Offset = 0
    BY DEF Init, Offset
  <1>2. [i \in 1 .. Offset |-> ubuf[i - 1]] = <<>>
    BY <1>1, PrefixIsASeq DEF Prefix
  <1> QED
    BY <1>2 DEF Init, Fifo!Init

(* A piece of the ring is handed out. *)
LEMMA DeliverMaps ==
    ASSUME IInv, NEW n \in Nat \ {0}, n <= Avail, rpc \in {"wrap", "release"}, rpc' # "clear",
           \A i \in 0 .. n - 1 : ubuf[Offset + i] = consumed + i,
           Offset' = Offset + n, consumed' = consumed + n, UNCHANGED <<ubuf, accepted>>
    PROVE  Fifo!Next
<1>1. Offset \in Nat /\ consumed \in Nat /\ accepted \in Nat /\ Offset <= MaxCount /\ MaxCount \in Nat
  BY TypeFacts, BufferAssumption DEF IInv
<1>2. \A i \in 0 .. Offset - 1 : ubuf[i] \in Int
  BY <1>1 DEF IInv, TypeOK, Stamp, NoByte
<1>3. Prefix(ubuf, Offset + n) = Prefix(ubuf, Offset) \o Run(consumed, n)
  BY <1>1, <1>2, PrefixGrows
<1>4. Fifo!Deliver(n)
  <2>1. [i \in 1 .. Offset |-> ubuf[i - 1]]'
          = [i \in 1 .. Offset |-> ubuf[i - 1]] \o [i \in 1 .. n |-> consumed + i - 1]
    BY <1>3 DEF Prefix, Run
  <2>2. (rpc # "clear")' = (rpc # "clear")
    OBVIOUS
  <2>3. rpc # "clear" /\ consumed' = consumed + n /\ accepted' = accepted
    OBVIOUS
  <2> QED
    BY <2>1, <2>2, <2>3 DEF Fifo!Deliver
<1>5. n \in 1 .. accepted - consumed
  BY <1>1 DEF IInv, UnreadIntact
<1> QED
  BY <1>4, <1>5 DEF Fifo!Next

(* A step that counts nothing in or out and hands out nothing. *)
LEMMA QuietMaps ==
    ASSUME IInv, UNCHANGED <<accepted, consumed>>, Offset' = Offset,
           \A i \in 0 .. Offset - 1 : ubuf'[i] = ubuf[i],
           (rpc' = "clear") <=> (rpc = "clear")
    PROVE  UNCHANGED Fifo!fifoVars
<1>1. Offset \in Nat
  BY TypeFacts DEF IInv
<1>2. \A i \in 1 .. Offset : i - 1 \in 0 .. Offset - 1
  BY <1>1
<1>3. [i \in 1 .. Offset |-> ubuf[i - 1]]' = [i \in 1 .. Offset |-> ubuf[i - 1]]
  BY <1>2
<1>4. (rpc # "clear")' = (rpc # "clear")
  OBVIOUS
<1> QED
  BY <1>3, <1>4 DEF Fifo!fifoVars

(* The owner of the buffer empties it between two calls. *)
LEMMA EmptyMaps ==
    ASSUME IInv, rpc = "idle", UNCHANGED <<rpc, call, accepted>>, consumed' = accepted
    PROVE  Fifo!Next
<1>1. Offset = 0 /\ Offset' = 0
  BY DEF IInv, ReaderInv, TypeOK, Offset, call
<1>2. [i \in 1 .. Offset |-> ubuf[i - 1]] = <<>> /\ [i \in 1 .. Offset |-> ubuf[i - 1]]' = <<>>
  BY <1>1, PrefixIsASeq DEF Prefix
<1>3. Fifo!Empty
  BY <1>2 DEF Fifo!Empty
<1> QED
  BY <1>3 DEF Fifo!Next

(* The call returns. *)
LEMMA ReturnMaps ==
    ASSUME EndCall, UNCHANGED history
    PROVE  Fifo!Next
<1>1. Offset' = 0
  BY DEF EndCall, Offset
<1>2. [i \in 1 .. Offset |-> ubuf[i - 1]]' = <<>>
  BY <1>1, PrefixIsASeq DEF Prefix
<1>3. Fifo!Return
  BY <1>2 DEF Fifo!Return, EndCall, history
<1> QED
  BY <1>3 DEF Fifo!Next

(* pwrite has moved over n bytes. *)
LEMMA AcceptMaps ==
    ASSUME IInv, NEW n \in Nat, accepted' = accepted + n, UNCHANGED <<consumed, rpc, call>>
    PROVE  [Fifo!Next]_Fifo!fifoVars
<1>1. accepted \in Nat
  BY DEF IInv, TypeOK
<1>2. Offset' = Offset /\ ubuf' = ubuf
  BY DEF Offset, call
<1>3. CASE n = 0
  BY <1>1, <1>2, <1>3, QuietMaps
<1>4. CASE n > 0
  <2>1. [i \in 1 .. Offset |-> ubuf[i - 1]]' = [i \in 1 .. Offset |-> ubuf[i - 1]]
    BY <1>2
  <2>2. Fifo!Accept
    BY <1>1, <1>4, <2>1 DEF Fifo!Accept
  <2> QED
    BY <2>2 DEF Fifo!Next
<1> QED
  BY <1>3, <1>4

LEMMA StepMaps ==
    ASSUME IInv, TypeOK', [Next]_vars, Kind # "dvr"
    PROVE  [Fifo!Next]_Fifo!fifoVars
<1>0. /\ Avail \in Nat /\ Offset \in Nat /\ Offset + left <= count /\ count <= MaxCount
      /\ wtodo \in Nat /\ wsplit \in Nat /\ accepted \in Nat /\ consumed \in Nat
      /\ count \in Nat /\ todo \in Nat /\ len \in Nat /\ left \in Nat /\ rsplit \in Nat
      /\ left <= len
  BY TypeFacts DEF IInv
<1>1. CASE \/ UNCHANGED vars
           \/ CallbackInError \/ CallbackEnter \/ CallbackIgnored
           \/ \E n \in 1 .. MaxChunk : WriteOverflow(n) \/ WriteBegin(n)
           \/ WriteCopySplit \/ WriteCopy
           \/ SetOverflow \/ CallbackDone \/ CallbackWake
           \/ TimerExpire \/ TimerState \/ TimerWake
  <2>1. UNCHANGED <<rpc, call, accepted, consumed>>
    BY <1>1 DEF CallbackInError, CallbackEnter, CallbackIgnored, WriteOverflow, WriteBegin, WriteCopySplit,
                WriteCopy, SetOverflow, CallbackDone, CallbackWake, TimerExpire, TimerState, TimerWake,
                vars, history
  <2>2. Offset' = Offset /\ ubuf' = ubuf /\ rpc' = rpc
    BY <2>1 DEF Offset, call
  <2> QED
    BY <2>1, <2>2, QuietMaps
<1>2. CASE WriteWrap
  BY <1>2, <1>0, AcceptMaps DEF WriteWrap
<1>3. CASE WritePublish
  BY <1>3, <1>0, AcceptMaps DEF WritePublish
<1>4. CASE FilterStart \/ FilterStop \/ \E n \in Sizes : SetBufferSize(n)
  BY <1>4, EmptyMaps DEF FilterStart, FilterStop, SetBufferSize, ReaderExcluded, FlushPointers
<1>5. CASE ReadReturn \/ ReadSignal \/ ReadFault \/ ReadClear
  BY <1>5, ReturnMaps DEF ReadReturn, ReadSignal, ReadFault, ReadClear
<1>6. CASE ReadWait \/ ReadRetest \/ ReadWoken \/ ReadCheck
  <2>1. UNCHANGED <<call, history>> /\ rpc # "clear" /\ rpc' # "clear"
    BY <1>6 DEF ReadWait, ReadRetest, ReadWoken, ReadCheck
  <2>2. Offset' = Offset /\ ubuf' = ubuf
    BY <2>1 DEF Offset, call
  <2> QED
    BY <2>1, <2>2, QuietMaps DEF history
<1>7. ASSUME NEW n \in 1 .. MaxCount, NEW nb \in BOOLEAN, ReadCall(n, nb)
      PROVE  UNCHANGED Fifo!fifoVars
  <2>1. Offset = 0 /\ Offset' = 0
    BY <1>7, <1>0 DEF ReadCall, IInv, ReaderInv, TypeOK, Offset
  <2> QED
    BY <1>7, <2>1, QuietMaps DEF ReadCall, history
<1>8. CASE ReadAvail
  <2>1. Offset' = Offset
    <3>1. len = 0 /\ left = 0
      BY <1>8, <1>0 DEF ReadAvail, IInv, ReaderInv
    <3>2. PICK n \in Nat : len' = n /\ left' = n /\ count' = count /\ todo' = todo
      BY <1>8, <1>0 DEF ReadAvail
    <3>3. len' - left' = 0 /\ len - left = 0
      BY <3>1, <3>2
    <3> QED
      BY <3>2, <3>3 DEF Offset
  <2>2. rpc # "clear" /\ rpc' # "clear" /\ UNCHANGED <<ubuf, history>>
    BY <1>8 DEF ReadAvail
  <2> QED
    BY <2>1, <2>2, QuietMaps DEF history
<1>9. CASE ReadCopySplit \/ ReadCopy
  <2>1. Offset' = Offset /\ UNCHANGED history /\ rpc # "clear" /\ rpc' # "clear"
    BY <1>9 DEF ReadCopySplit, ReadCopy, Offset
  <2>2. PICK n \in Nat : FetchBytes(n)
    BY <1>9, <1>0 DEF ReadCopySplit, ReadCopy
  <2>3. \A i \in 0 .. Offset - 1 : ubuf'[i] = ubuf[i]
    BY <2>2, <1>0, BufferAssumption DEF FetchBytes
  <2> QED
    BY <2>1, <2>3, QuietMaps DEF history
<1>10. CASE ReadWrap
  <2>1. rsplit \in Nat \ {0} /\ rsplit <= Avail /\ \A i \in 0 .. rsplit - 1 : ubuf[Offset + i] = consumed + i
    BY <1>10, <1>0 DEF ReadWrap, IInv, ReaderInv
  <2>2. Offset' = Offset + rsplit
    BY <1>10, <1>0 DEF ReadWrap, Offset
  <2> QED
    BY <1>10, <2>1, <2>2, DeliverMaps DEF ReadWrap
<1>11. CASE ReadRelease
  <2>1. left <= Avail /\ \A i \in 0 .. left - 1 : ubuf[Offset + i] = consumed + i
    BY <1>11, <1>0 DEF ReadRelease, IInv, ReaderInv
  <2>2. Offset' = Offset + left
    BY <1>11, <1>0 DEF ReadRelease, Offset
  <2>3. CASE left = 0
    BY <1>11, <1>0, <2>2, <2>3, QuietMaps DEF ReadRelease
  <2>4. CASE left # 0
    BY <1>11, <1>0, <2>1, <2>2, <2>4, DeliverMaps DEF ReadRelease
  <2> QED
    BY <2>3, <2>4
<1>12. CASE ReadFlush
  <2>1. Offset' = Offset /\ ubuf' = ubuf
    BY <1>12 DEF ReadFlush, Offset, call
  <2>2. [i \in 1 .. Offset |-> ubuf[i - 1]]' = [i \in 1 .. Offset |-> ubuf[i - 1]]
    BY <2>1
  <2>3. Fifo!Discard
    BY <1>12, <2>2 DEF ReadFlush, FlushPointers, Fifo!Discard
  <2> QED
    BY <2>3 DEF Fifo!Next
<1> QED
  BY <1>1, <1>2, <1>3, <1>4, <1>5, <1>6, <1>7, <1>8, <1>9, <1>10, <1>11, <1>12
  DEF Next, Writer, WriterStep, Reader, ReaderStep

(* Read and callback, without a lock between them, behave as a queue of bytes:
   what read() returns are the accepted bytes in their order, each once, except
   those thrown away all together, and after a reported error nothing more. *)
THEOREM RingIsAFifo ==
    ASSUME Kind # "dvr"
    PROVE  Spec => FifoSpec
<1>1. Init => Fifo!Init
  BY InitMaps
<1>2. IInv /\ IInv' /\ [Next]_vars => [Fifo!Next]_Fifo!fifoVars
  BY StepMaps DEF IInv
<1> QED
  BY Invariance, <1>1, <1>2, PTL DEF Spec, FifoSpec, Fifo!Spec

-----------------------------------------------------------------------------
(* For a tap, whose buffer's error is only ever set by the callback that found
   no room: every gap lies before what the call in progress returns, or behind
   everything accepted, and then the error is set or about to be, and nothing is
   accepted until the reader has thrown away what is unread and cleared it. *)
GapInv ==
    /\ feeding => state = "GO"
    /\ wpc # "idle" => feeding
    /\ ~armed /\ tpc = "idle"
    /\ error # "none" => wpc \in {"idle", "wake", "done"}
    /\ \A g \in gaps : g <= accepted
    /\ rpc \in {"flush", "clear"} => error # "none"
    /\ rpc = "clear" => /\ consumed = accepted
                        /\ Offset > 0 => ubuf[Offset - 1] < accepted
                        /\ NoGapInsideRead
    /\ rpc # "clear" => \A g \in gaps : \/ g <= consumed - Offset
                                        \/ g = accepted /\ (error # "none" \/ wpc = "full")

LEMMA GapInit ==
    ASSUME Init, Kind = "tap"
    PROVE  GapInv
BY DEF Init, GapInv

(* The callback. *)
LEMMA GapWriter ==
    ASSUME IInv, IInv', GapInv, Kind = "tap", Writer
    PROVE  GapInv'
<1>0. /\ accepted \in Nat /\ consumed \in Nat /\ Offset \in Nat /\ wtodo \in Nat /\ wsplit \in Nat
      /\ consumed <= accepted /\ Oneshot = FALSE /\ gaps \subseteq Nat
      /\ Offset > 0 => Offset - 1 \in 0 .. MaxCount - 1 /\ ubuf[0] \in Int /\ ubuf[Offset - 1] \in Int
  <2>1. Offset \in Nat /\ Offset <= MaxCount /\ MaxCount \in Nat
    BY TypeFacts, BufferAssumption DEF IInv
  <2>2. Offset > 0 => Offset - 1 \in 0 .. MaxCount - 1 /\ 0 \in 0 .. MaxCount - 1
    BY <2>1
  <2>3. Oneshot = FALSE
    BY BufferAssumption
  <2> QED
    <3>1. \A i \in 0 .. MaxCount - 1 : ubuf[i] \in Int
      <4>1. ubuf \in [0 .. MaxCount - 1 -> Stamp]
        BY DEF IInv, TypeOK
      <4> QED
        BY <4>1 DEF Stamp, NoByte
    <3>2. consumed <= accepted
      BY TypeFacts DEF IInv, UnreadIntact
    <3>3. /\ accepted \in Nat /\ consumed \in Nat /\ wtodo \in Nat /\ wsplit \in Nat
          /\ gaps \subseteq Nat
      BY DEF IInv, TypeOK
    <3> QED
      BY <2>1, <2>2, <2>3, <3>1, <3>2, <3>3
<1>1. UNCHANGED <<rpc, call, consumed>> /\ Offset' = Offset /\ ubuf' = ubuf
  BY DEF Writer, WriterStep, CallbackInError, CallbackEnter, CallbackIgnored, WriteOverflow, WriteBegin,
         WriteCopySplit, WriteWrap, WriteCopy, WritePublish, SetOverflow, CallbackDone, CallbackWake,
         call, Offset, history
<1>2. CASE CallbackInError
  <2>1. /\ UNCHANGED <<error, state, feeding, armed, tpc, accepted>> /\ gaps' = gaps \cup {accepted}
        /\ wpc' = "wake" /\ feeding /\ error # "none"
    BY <1>2 DEF CallbackInError, DropChunk, ring, filter, timer
  <2>2. rpc = "clear" => NoGapInsideRead'
    BY <1>0, <1>1, <2>1 DEF GapInv, NoGapInsideRead
  <2> QED
    BY <1>0, <1>1, <2>1, <2>2 DEF GapInv
<1>3. CASE CallbackEnter \/ CallbackDone \/ CallbackWake
  <2>1. /\ UNCHANGED <<error, state, feeding, armed, tpc, accepted, gaps>> /\ wpc # "full"
        /\ wpc' \in {"wake", "idle"} \/ (wpc' = "lock" /\ error = "none")
        /\ feeding
    BY <1>0, <1>3 DEF CallbackEnter, CallbackDone, CallbackWake, ring, filter, timer, history, GapInv
  <2> QED
    BY <1>1, <2>1 DEF GapInv, NoGapInsideRead
<1>4. CASE CallbackIgnored
  BY <1>4 DEF CallbackIgnored, GapInv
<1>5. ASSUME NEW n \in 1 .. MaxChunk, WriteOverflow(n) \/ WriteBegin(n)
      PROVE  GapInv'
  <2>1. /\ UNCHANGED <<error, state, feeding, tpc, accepted>> /\ ~armed' /\ wpc = "lock" /\ feeding
        /\ \/ gaps' = gaps \cup {accepted} /\ wpc' = "full"
           \/ gaps' = gaps
        /\ error = "none" /\ rpc # "clear"
    BY <1>5 DEF WriteOverflow, WriteBegin, DropChunk, ring, filter, history, GapInv
  <2>2. \A g \in gaps : g <= consumed - Offset /\ g <= accepted
    BY <2>1 DEF GapInv
  <2>3. CASE gaps' = gaps
    BY <1>0, <1>1, <2>1, <2>2, <2>3 DEF GapInv
  <2>4. CASE gaps' = gaps \cup {accepted} /\ wpc' = "full"
    BY <1>0, <1>1, <2>1, <2>2, <2>4 DEF GapInv
  <2> QED
    BY <2>1, <2>3, <2>4
<1>6. CASE WriteCopySplit \/ WriteWrap \/ WriteCopy \/ WritePublish
  <2>1. /\ UNCHANGED <<error, state, feeding, armed, tpc, gaps>> /\ feeding
        /\ error = "none" /\ rpc # "clear" /\ wpc # "full"
        /\ accepted' \in Nat /\ accepted <= accepted'
    BY <1>0, <1>6 DEF WriteCopySplit, WriteWrap, WriteCopy, WritePublish, filter, timer, history, GapInv
  <2> QED
    BY <1>0, <1>1, <2>1 DEF GapInv
<1>7. CASE SetOverflow
  <2>1. /\ UNCHANGED <<state, feeding, armed, tpc, gaps, accepted>> /\ feeding
        /\ error = "none" /\ rpc # "clear" /\ error' = "EOVERFLOW" /\ wpc' = "done"
    BY <1>7 DEF SetOverflow, filter, timer, history, GapInv
  <2> QED
    BY <1>1, <2>1 DEF GapInv
<1> QED
  BY <1>2, <1>3, <1>4, <1>5, <1>6, <1>7 DEF Writer, WriterStep

(* The reader, and the ioctls. *)
LEMMA GapReader ==
    ASSUME IInv, IInv', GapInv, Kind = "tap", Reader
    PROVE  GapInv'
<1>0. /\ accepted \in Nat /\ consumed \in Nat /\ Offset \in Nat /\ Offset' \in Nat
      /\ consumed <= accepted /\ gaps \subseteq Nat
      /\ count \in Nat /\ todo \in Nat /\ len \in Nat /\ left \in Nat /\ rsplit \in Nat
  <2>1. Offset \in Nat /\ consumed <= accepted
    BY TypeFacts DEF IInv, UnreadIntact
  <2>2. Offset' \in Nat
    <3>1. PICK c \in Nat, t \in Nat, l \in Nat, f \in Nat :
              /\ t <= c /\ f <= l
              /\ count' = c /\ todo' = t /\ len' = l /\ left' = f
      BY BufferAssumption DEF IInv, TypeOK
    <3>2. Offset' = (c - t) + (l - f)
      BY <3>1 DEF Offset
    <3> QED
      BY <3>1, <3>2
  <2> QED
    BY <2>1, <2>2, TypeFacts DEF IInv, TypeOK
<1>1. /\ UNCHANGED <<state, feeding, wpc, armed, tpc, accepted, gaps>>
      /\ error' = error \/ ReadClear
  BY DEF Reader, ReaderStep, ReadCall, ReadSignal, ReadFault, ReadReturn, ReadWait, ReadRetest, ReadWoken,
         ReadCheck, ReadFlush, ReadClear, ReadAvail, ReadCopySplit, ReadWrap, ReadCopy, ReadRelease,
         ring, filter, writer, timer, history
<1>2. CASE /\ rpc # "clear" /\ rpc' # "clear"
           /\ rpc' = "flush" => rpc = "flush" \/ error # "none"
           /\ consumed - Offset <= consumed' - Offset'
           /\ error' = error
  <2>1. consumed' \in Nat
    BY DEF IInv, TypeOK
  <2>2. ASSUME NEW g \in gaps
        PROVE  \/ g <= consumed' - Offset'
               \/ g = accepted /\ (error # "none" \/ wpc = "full")
    <3>1. PICK c \in Nat, o \in Nat : consumed' = c /\ Offset' = o
      BY <1>0, <2>1
    <3>2. g \in Nat /\ consumed - Offset <= c - o
      BY <1>0, <1>2, <3>1
    <3>3. \/ g <= consumed - Offset
          \/ g = accepted /\ (error # "none" \/ wpc = "full")
      BY <1>2 DEF GapInv
    <3> QED
      BY <1>0, <3>1, <3>2, <3>3
  <2> QED
    BY <1>1, <1>2, <2>2 DEF GapInv
<1>3. CASE ReadReturn \/ ReadSignal \/ ReadFault
  <2>1. Offset' = 0 /\ UNCHANGED <<error, consumed>> /\ rpc # "clear" /\ rpc' = "idle"
    BY <1>3 DEF ReadReturn, ReadSignal, ReadFault, EndCall, Offset, ring, history
  <2> QED
    BY <1>0, <1>2, <2>1
<1>4. CASE ReadClear
  <2>1. Offset' = 0 /\ rpc = "clear" /\ rpc' = "idle" /\ consumed' = consumed /\ error' = "none"
    BY <1>4 DEF ReadClear, EndCall, Offset, history
  <2>2. \A g \in gaps : g <= consumed
    BY <2>1 DEF GapInv
  <2> QED
    BY <1>0, <1>1, <2>1, <2>2 DEF GapInv
<1>5. CASE ReadFlush
  <2>1. /\ Offset' = Offset /\ ubuf' = ubuf /\ rpc = "flush" /\ rpc' = "clear" /\ consumed' = accepted
        /\ error' = error
    BY <1>5 DEF ReadFlush, FlushPointers, call, Offset
  <2>2. ASSUME Offset > 0
        PROVE  /\ ubuf[0] = consumed - Offset /\ ubuf[Offset - 1] = consumed - 1
               /\ \A g \in gaps : ~(ubuf[0] < g /\ g <= ubuf[Offset - 1])
    <3>1. ubuf[0] = consumed - Offset + 0 /\ ubuf[Offset - 1] = consumed - Offset + (Offset - 1)
      BY <1>0, <2>1, <2>2 DEF IInv, ReadIsContiguous
    <3>2. ubuf[0] = consumed - Offset /\ ubuf[Offset - 1] = consumed - 1
      BY <1>0, <3>1
    <3>3. \A g \in gaps : g \in Nat /\ (g <= consumed - Offset \/ g = accepted)
      BY <1>0, <2>1 DEF GapInv
    <3> QED
      BY <1>0, <3>2, <3>3
  <2>3. /\ Offset' > 0 => ubuf'[Offset' - 1] < accepted'
        /\ NoGapInsideRead'
    BY <1>0, <1>1, <2>1, <2>2 DEF NoGapInsideRead
  <2> QED
    BY <1>1, <2>1, <2>3 DEF GapInv
<1>6. CASE ReadWait \/ ReadRetest \/ ReadWoken \/ ReadCheck
  <2>1. UNCHANGED <<call, history, error>> /\ rpc # "clear" /\ rpc' # "clear"
        /\ (rpc' = "flush" => rpc = "flush" \/ error # "none")
    BY <1>6 DEF ReadWait, ReadRetest, ReadWoken, ReadCheck, ring
  <2>2. Offset' = Offset /\ consumed' = consumed
    BY <2>1 DEF Offset, call, history
  <2> QED
    BY <1>0, <1>2, <2>1, <2>2
<1>7. ASSUME NEW n \in 1 .. MaxCount, NEW nb \in BOOLEAN, ReadCall(n, nb)
      PROVE  GapInv'
  <2>1. Offset' = 0
    BY <1>7, <1>0 DEF ReadCall, IInv, ReaderInv, TypeOK, Offset
  <2>2. /\ rpc # "clear" /\ rpc' # "clear" /\ UNCHANGED <<consumed, error>>
        /\ (rpc' = "flush" => error # "none")
    BY <1>7 DEF ReadCall, ring, history
  <2> QED
    BY <1>0, <1>2, <2>1, <2>2
<1>8. CASE ReadAvail
  <2>1. len = 0 /\ left = 0
    BY <1>8, <1>0 DEF ReadAvail, IInv, ReaderInv, TypeOK
  <2>2. PICK n \in Nat : len' = n /\ left' = n /\ count' = count /\ todo' = todo
    BY <1>8, TypeFacts DEF ReadAvail, IInv
  <2>3. len' - left' = 0 /\ len - left = 0
    BY <2>1, <2>2
  <2>4. Offset' = Offset
    BY <2>2, <2>3 DEF Offset
  <2>5. rpc # "clear" /\ rpc' \in {"split", "copy"} /\ UNCHANGED <<consumed, error>>
    BY <1>8 DEF ReadAvail, ring, history
  <2> QED
    BY <1>0, <1>2, <2>4, <2>5
<1>9. CASE ReadCopySplit \/ ReadCopy
  <2>1. /\ Offset' = Offset /\ UNCHANGED <<consumed, error>>
        /\ rpc # "clear" /\ rpc' \in {"wrap", "release"}
    BY <1>9 DEF ReadCopySplit, ReadCopy, Offset, ring, history
  <2> QED
    BY <1>0, <1>2, <2>1
<1>10. CASE ReadWrap
  <2>1. /\ Offset' = Offset + rsplit /\ consumed' = consumed + rsplit /\ error' = error
        /\ rpc # "clear" /\ rpc' = "copy"
    BY <1>10, <1>0 DEF ReadWrap, Offset
  <2> QED
    BY <1>0, <1>2, <2>1
<1>11. CASE ReadRelease
  <2>1. /\ Offset' = Offset + left /\ consumed' = consumed + left /\ error' = error
        /\ rpc # "clear" /\ rpc' = "loop"
    BY <1>11, <1>0 DEF ReadRelease, Offset
  <2> QED
    BY <1>0, <1>2, <2>1
<1> QED
  BY <1>3, <1>4, <1>5, <1>6, <1>7, <1>8, <1>9, <1>10, <1>11 DEF Reader, ReaderStep

LEMMA GapStep ==
    ASSUME IInv, IInv', GapInv, [Next]_vars, Kind = "tap"
    PROVE  GapInv'
<1>1. CASE UNCHANGED vars
  BY <1>1 DEF vars, ring, filter, writer, timer, call, history, GapInv, Offset, NoGapInsideRead
<1>2. CASE TimerExpire \/ TimerState \/ TimerWake
  BY <1>2 DEF TimerExpire, TimerState, TimerWake, GapInv
<1>3. CASE FilterStart \/ FilterStop \/ \E n \in Sizes : SetBufferSize(n)
  <2>1. /\ rpc = "idle" /\ rpc' = "idle" /\ Offset = 0 /\ Offset' = 0 /\ consumed' = accepted
        /\ wpc = "idle" /\ wpc' = "idle" /\ UNCHANGED <<accepted, gaps, tpc>> /\ error' = "none"
        /\ ~armed' /\ (feeding' => state' = "GO")
    <3>1. wpc = "idle" /\ wpc' = wpc /\ ~armed'
      <4>1. CASE FilterStart
        BY <4>1 DEF FilterStart, GapInv, writer
      <4>2. CASE FilterStop
        BY <4>2 DEF FilterStop, GapInv, writer
      <4>3. CASE \E n \in Sizes : SetBufferSize(n)
        BY <4>3 DEF SetBufferSize, GapInv, writer, timer
      <4> QED
        BY <1>3, <4>1, <4>2, <4>3
    <3>2. feeding' => state' = "GO"
      BY <1>3 DEF FilterStart, FilterStop, SetBufferSize, GapInv, filter
    <3>3. /\ rpc = "idle" /\ UNCHANGED <<rpc, call, accepted, gaps, tpc>> /\ consumed' = accepted
          /\ error' = "none"
      BY <1>3 DEF FilterStart, FilterStop, SetBufferSize, ReaderExcluded, FlushPointers, timer
    <3> QED
      BY <3>1, <3>2, <3>3 DEF IInv, ReaderInv, TypeOK, Offset, call
  <2>2. accepted \in Nat
    BY DEF IInv, TypeOK
  <2> QED
    BY <2>1, <2>2 DEF GapInv
<1> QED
  BY <1>1, <1>2, <1>3, GapWriter, GapReader DEF Next

(* With the tap's error set for every chunk it loses, no read() joins what came
   before the loss with what comes after it. *)
LEMMA GapsAreSeen ==
    ASSUME IInv, GapInv
    PROVE  NoGapInsideRead
<1>1. CASE rpc = "clear"
  BY <1>1 DEF GapInv
<1>2. CASE rpc # "clear"
  <2> SUFFICES ASSUME Offset > 0, NEW g \in gaps
               PROVE  ~(ubuf[0] < g /\ g <= ubuf[Offset - 1])
    BY DEF NoGapInsideRead
  <2>1. /\ Offset \in Nat /\ consumed \in Nat /\ accepted \in Nat /\ consumed <= accepted
        /\ g \in Nat
    BY TypeFacts DEF IInv, UnreadIntact, TypeOK
  <2>2. ubuf[0] = consumed - Offset + 0 /\ ubuf[Offset - 1] = consumed - Offset + (Offset - 1)
    BY <1>2, <2>1 DEF IInv, ReadIsContiguous
  <2>3. g <= consumed - Offset \/ g = accepted
    BY <1>2 DEF GapInv
  <2> QED
    BY <2>1, <2>2, <2>3
<1> QED
  BY <1>1, <1>2

(* The bytes one read() of a tap returns are bytes that came one after the other:
   where dvb_dmxdev_ts_callback lost a chunk, read() ends before or starts after. *)
THEOREM NoGapGoesUnseen ==
    ASSUME Kind = "tap"
    PROVE  Spec => []NoGapInsideRead
<1>1. Init => GapInv
  BY GapInit
<1>2. IInv /\ IInv' /\ GapInv /\ [Next]_vars => GapInv'
  BY GapStep
<1>3. IInv /\ GapInv => NoGapInsideRead
  BY GapsAreSeen
<1>4. Spec => []IInv
  BY Invariance
<1> QED
  BY <1>1, <1>2, <1>3, <1>4, PTL DEF Spec

(* The same in the run's specification, where the buffer may as well be a
   section filter's, for which the property claims nothing. *)
THEOREM NoGapInsideTap ==
    ASSUME Kind = "tap"
    PROVE  MCSpec => []NoGapInsideTapRead
<1> DEFINE Inv == kind = Kind => IInv /\ GapInv
<1>1. MCInit => Inv
  BY InitInvariant, GapInit DEF MCInit
<1>2. ASSUME Inv, [MCNext]_mcvars
      PROVE  Inv'
  <2>1. CASE kind = Kind
    <3>1. [Next]_vars
      BY <1>2, <2>1 DEF MCNext, Tap, Filter, mcvars
    <3>2. IInv' /\ GapInv'
      BY <1>2, <2>1, <3>1, StepInvariant, GapStep
    <3> QED
      BY <3>2
  <2>2. CASE kind # Kind
    BY <1>2, <2>2 DEF MCNext, Tap, Filter, mcvars
  <2> QED
    BY <2>1, <2>2
<1>3. Inv => NoGapInsideTapRead
  BY GapsAreSeen DEF NoGapInsideTapRead
<1> QED
  BY <1>1, <1>2, <1>3, PTL DEF MCSpec
=============================================================================
