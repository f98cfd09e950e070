------------------------- MODULE SectionAssembler_proofs -------------------------
(***************************************************************************)
(* Theorems about SectionAssembler, for every packet and section size.     *)
(*                                                                         *)
(* TypeCorrect comes first.  The rest is about what the filters are        *)
(* offered, and follows the data: TxInv says what a packet can hold,       *)
(* StreamInv that what a feed in sync collects is what was sent since a    *)
(* section began, with the dumping at the begin of one, and DueInv and     *)
(* OrderInv what that makes of the sections offered.  A feed is told from  *)
(* one that has missed something by the continuity counter alone, which    *)
(* is enough because fewer than CCs packets get lost.                      *)
(***************************************************************************)
EXTENDS SectionAssembler, SequenceTheorems, TLAPS

LEMMA Sizes ==
    /\ Payload \in Nat /\ Payload > 2 /\ SecFeedSize \in Nat
    /\ 0 \in 0 .. CCs - 1 /\ 0 \in Ids /\ 0 \in 0 .. MaxFaults
  BY AssemblerAssumption DEF Payload, SecFeedSize, Ids

LEMMA Leasts ==
    ASSUME NEW a \in Nat, NEW b \in Nat
    PROVE  Least(a, b) \in Nat /\ Least(a, b) <= a /\ Least(a, b) <= b
  BY DEF Least

LEMMA PadUnit == Pad \in Unit
  BY Sizes DEF Pad, Unit, Ids

LEMMA SectionUnits ==
    ASSUME NEW i \in Ids, NEW n \in Nat
    PROVE  Section(i, n) \in Seq(Unit) /\ Len(Section(i, n)) = n
<1>1. \A k \in 1 .. n : [id |-> i, off |-> k - 1, len |-> n] \in Unit
  BY DEF Unit, Ids
<1> QED
  BY <1>1 DEF Section

LEMMA FillUnits ==
    ASSUME NEW s \in Seq(Unit), NEW n \in Nat
    PROVE  Fill(s, n) \in Seq(Unit) /\ Len(Fill(s, n)) = n
<1>1. \A k \in 1 .. n : (IF k <= Len(s) THEN s[k] ELSE Pad) \in Unit
  <2> TAKE k \in 1 .. n
  <2>1. Len(s) \in Nat /\ \A j \in 1 .. Len(s) : s[j] \in Unit
    BY ElementOfSeq, LenProperties
  <2> QED
    BY <2>1, PadUnit
<1> QED
  BY <1>1 DEF Fill

LEMMA CutUnits ==
    ASSUME NEW s \in Seq(Unit), NEW a \in Nat \ {0}, NEW b \in Nat, b <= Len(s)
    PROVE  SubSeq(s, a, b) \in Seq(Unit) /\ Len(SubSeq(s, a, b)) = (IF a <= b THEN b - a + 1 ELSE 0)
<1>1. \A i \in a .. b : s[i] \in Unit
  BY LenProperties, ElementOfSeq
<1> QED
  BY <1>1, SubSeqProperties

-----------------------------------------------------------------------------
(* What the multiplexer sends next. *)
LEMMA RestUnits ==
    ASSUME TypeOK
    PROVE  /\ SubSeq(Section(tx.id, tx.len), tx.off + 1, tx.len) \in Seq(Unit)
           /\ Left \in Nat
           /\ (tx.packet.cc + 1) % CCs \in 0 .. CCs - 1
<1>1. tx.id \in Ids /\ tx.len \in Nat /\ tx.off \in Nat /\ tx.off <= tx.len
  BY DEF TypeOK, TxType, Ids
<1>2. Section(tx.id, tx.len) \in Seq(Unit) /\ Len(Section(tx.id, tx.len)) = tx.len
  BY <1>1, SectionUnits
<1>3. tx.packet.cc \in 0 .. CCs - 1
  BY DEF TypeOK, TxType, Packet
<1> QED
  BY <1>1, <1>2, <1>3, CutUnits, AssemblerAssumption DEF Left

LEMMA TransmissionTypes ==
    ASSUME TypeOK, NEW t \in Transmissions
    PROVE  /\ t \in TxType /\ t.off <= t.len
           /\ t.packet.disc => faults < MaxFaults
<1>1. Announced \subseteq BOOLEAN /\ (TRUE \in Announced => faults < MaxFaults)
  BY DEF Announced
<1>2. ASSUME NEW disc \in Announced, Left > 0, t = Continued(disc)
      PROVE  t \in TxType /\ t.off <= t.len /\ (t.packet.disc => faults < MaxFaults)
  <2> DEFINE rest == SubSeq(Section(tx.id, tx.len), tx.off + 1, tx.len)
             p == [cc |-> (tx.packet.cc + 1) % CCs, disc |-> disc, pusi |-> FALSE,
                   before |-> Fill(rest, Payload), after |-> <<>>]
  <2>1. Fill(rest, Payload) \in Seq(Unit)
    BY RestUnits, Sizes, FillUnits
  <2>2. <<>> \in Seq(Unit)
    OBVIOUS
  <2>3. p \in Packet
    <3> HIDE DEF rest
    <3> QED
      BY <1>1, <2>1, <2>2, RestUnits DEF Packet
  <2>4. tx.off + Least(Left, Payload) \in Nat /\ tx.off + Least(Left, Payload) <= tx.len
    <3>1. Least(Left, Payload) \in Nat /\ Least(Left, Payload) <= Left
      BY RestUnits, Sizes, Leasts
    <3>2. tx.off \in Nat /\ tx.len \in Nat
      BY DEF TypeOK, TxType
    <3> QED
      BY <3>1, <3>2 DEF Left
  <2>5. t = [tx EXCEPT !.off = tx.off + Least(Left, Payload), !.packet = p]
    BY <1>2 DEF Continued
  <2> HIDE DEF p
  <2>6. t \in TxType /\ t.off <= t.len /\ t.packet = p
    BY <2>3, <2>4, <2>5 DEF TypeOK, TxType, Ids
  <2>7. p.disc = disc
    BY DEF p
  <2> QED
    BY <1>1, <2>6, <2>7
<1>3. ASSUME NEW disc \in Announced, NEW m \in Lengths, NEW n \in Lengths \cup {0},
             Payload - 1 - Left > (IF n = 0 THEN 0 ELSE m),
             tx.id + (IF n = 0 THEN 1 ELSE 2) <= MaxSections,
             t = Started(disc, m, n)
      PROVE  t \in TxType /\ t.off <= t.len /\ (t.packet.disc => faults < MaxFaults)
  <2> DEFINE room == Payload - 1 - Left
             new == Section(tx.id + 1, m) \o Section(tx.id + 2, n)
             rest == SubSeq(Section(tx.id, tx.len), tx.off + 1, tx.len)
             p == [cc |-> (tx.packet.cc + 1) % CCs, disc |-> disc, pusi |-> TRUE,
                   before |-> rest, after |-> Fill(new, room)]
  <2>1. m \in Nat /\ n \in Nat /\ room \in Nat /\ (n # 0 => room - m \in Nat)
    BY <1>3, RestUnits, Sizes, AssemblerAssumption DEF Header
  <2>2. tx.id \in Ids /\ tx.id + 1 \in Ids /\ (n # 0 => tx.id + 2 \in Ids)
    BY <1>3, AssemblerAssumption DEF TypeOK, TxType, Ids
  <2>3. new \in Seq(Unit)
    <3>1. Section(tx.id + 1, m) \in Seq(Unit)
      BY <2>1, <2>2, SectionUnits
    <3>2. Section(tx.id + 2, n) \in Seq(Unit)
      <4>1. CASE n # 0
        BY <2>1, <2>2, <4>1, SectionUnits
      <4>2. CASE n = 0
        BY <4>2 DEF Section
      <4> QED
        BY <4>1, <4>2
    <3> QED
      BY <3>1, <3>2, ConcatProperties
  <2>4. Fill(new, room) \in Seq(Unit)
    BY <2>1, <2>3, FillUnits
  <2>5. p \in Packet
    <3> HIDE DEF rest, new, room
    <3>1. rest \in Seq(Unit)
      BY RestUnits DEF rest
    <3> QED
      BY <1>1, <2>4, <3>1, RestUnits DEF Packet
  <2>6. t = [id  |-> IF n = 0 THEN tx.id + 1 ELSE tx.id + 2,
             off |-> IF n = 0 THEN Least(m, room) ELSE Least(n, room - m),
             len |-> IF n = 0 THEN m ELSE n,
             packet |-> p]
    BY <1>3 DEF Started
  <2>7. p.disc = disc
    OBVIOUS
  <2> HIDE DEF p, room
  <2>8. CASE n = 0
    BY <1>1, <2>1, <2>2, <2>5, <2>6, <2>7, <2>8, Leasts DEF TxType
  <2>9. CASE n # 0
    BY <1>1, <2>1, <2>2, <2>5, <2>6, <2>7, <2>9, Leasts DEF TxType
  <2> QED
    BY <2>8, <2>9
<1> QED
  BY <1>2, <1>3 DEF Transmissions

-----------------------------------------------------------------------------
LEMMA RenewedFeed ==
    ASSUME NEW r \in FeedType
    PROVE  Renewed(r) \in FeedType /\ InBuffer(Renewed(r))
<1>1. Renewed(r) \in FeedType
  <2>1. <<>> \in Seq(Unit)
    OBVIOUS
  <2>2. \A s \in Seq(Unit) : [r EXCEPT !.buf = s, !.secbufp = 0] \in FeedType
    BY DEF FeedType
  <2> QED
    BY <2>1, <2>2 DEF Renewed
<1>2. Renewed(r).buf = <<>> /\ Renewed(r).secbufp = 0
  BY DEF Renewed, FeedType
<1> QED
  BY <1>1, <1>2, Sizes DEF InBuffer

LEMMA EndedIds ==
    ASSUME NEW s \in Seq(Unit)
    PROVE  Ended(s) \subseteq Ids
<1>1. \A k \in 1 .. Len(s) : s[k] \in Unit
  BY ElementOfSeq
<1> QED
  BY <1>1 DEF Ended, Unit, Ids

LEMMA HandleTypes ==
    ASSUME TypeOK, NEW p \in Packet, Handle(p)
    PROVE  feed' \in FeedType /\ InBuffer(feed)' /\ job' \in JobType
<1>1. Checked(p) \in FeedType /\ InBuffer(Checked(p))
  <2>1. feed \in FeedType /\ p.cc \in 0 .. CCs - 1
    BY DEF TypeOK, Packet
  <2>2. [feed EXCEPT !.cc = p.cc, !.pusi_seen = FALSE] \in FeedType
    BY <2>1 DEF FeedType
  <2>3. [feed EXCEPT !.cc = p.cc] \in FeedType /\ InBuffer([feed EXCEPT !.cc = p.cc])
    BY <2>1 DEF TypeOK, InBuffer, FeedType
  <2> QED
    BY <2>2, <2>3, RenewedFeed DEF Checked
<1>2. p.before \in Seq(Unit) /\ (IF p.pusi THEN <<p.after>> ELSE <<>>) \in Seq(Seq(Unit))
  BY DEF Packet
<1> QED
  BY <1>1, <1>2 DEF Handle, JobType, InBuffer

LEMMA EndChunkTypes ==
    ASSUME TypeOK, EndChunk
    PROVE  feed' \in FeedType /\ InBuffer(feed)' /\ job' \in JobType /\ log' \in LogType
<1>1. CASE job.next = <<>> /\ job' = Idle /\ UNCHANGED <<feed, log>>
  <2>1. Idle \in JobType
    BY DEF Idle, JobType
  <2> QED
    BY <1>1, <2>1 DEF TypeOK, InBuffer
<1>2. ASSUME job.next # <<>>, feed' = Renewed([feed EXCEPT !.pusi_seen = TRUE]),
             job' = [pc |-> "copy", chunk |-> Head(job.next), next |-> <<>>],
             log' = [log EXCEPT !.synced = TRUE]
      PROVE  feed' \in FeedType /\ InBuffer(feed)' /\ job' \in JobType /\ log' \in LogType
  <2>1. [feed EXCEPT !.pusi_seen = TRUE] \in FeedType
    BY DEF TypeOK, FeedType
  <2>2. feed' \in FeedType /\ InBuffer(feed)'
    BY <1>2, <2>1, RenewedFeed DEF InBuffer
  <2>3. Head(job.next) \in Seq(Unit)
    BY <1>2, HeadTailProperties DEF TypeOK, JobType
  <2>4. job' \in JobType
    BY <1>2, <2>3 DEF JobType
  <2>5. log' \in LogType
    BY <1>2 DEF TypeOK, LogType
  <2> QED
    BY <2>2, <2>4, <2>5
<1> QED
  BY <1>1, <1>2 DEF EndChunk

(* A section found lies in the buffer. *)
LEMMA FoundLength ==
    ASSUME TypeOK, Found
    PROVE  SectionLength \in Nat \ {0} /\ feed.secbufp + SectionLength <= Len(feed.buf)
<1>1. feed.buf \in Seq(Unit) /\ feed.secbufp \in Nat /\ Len(feed.buf) \in Nat
  BY LenProperties DEF TypeOK, FeedType
<1>2. feed.secbufp + Header \in 1 .. Len(feed.buf)
  BY <1>1 DEF Found, Header
<1>3. feed.buf[feed.secbufp + Header] \in Unit
  BY <1>1, <1>2, ElementOfSeq
<1>4. SectionLength \in Nat \ {0}
  BY <1>3, AssemblerAssumption DEF SectionLength, Unit, Header
<1> QED
  BY <1>4 DEF Found

(* What the filters are offered has a number. *)
LEMMA OfferTypes ==
    ASSUME TypeOK, Found
    PROVE  Offer \in OutType
<1> DEFINE n == feed.secbufp + SectionLength
           s == SubSeq(feed.buf, feed.secbufp + 1, n)
<1>1. feed.buf \in Seq(Unit) /\ feed.secbufp \in Nat /\ Len(feed.buf) \in Nat
      /\ log.synced \in BOOLEAN
  BY LenProperties DEF TypeOK, FeedType, LogType
<1>2. SectionLength \in Nat \ {0} /\ n <= Len(feed.buf)
  BY <1>1, FoundLength DEF Found
<1>3. s \in Seq(Unit) /\ Len(s) = SectionLength
  BY <1>1, <1>2, CutUnits
<1>4. s[1].id \in Ids
  <2> HIDE DEF s
  <2>1. s[1] \in Unit
    BY <1>2, <1>3, ElementOfSeq
  <2> QED
    BY <2>1 DEF Unit
<1>5. 0 \in Ids
  BY Sizes
<1> HIDE DEF s
<1> QED
  BY <1>1, <1>4, <1>5 DEF Offer, OutType, s

-----------------------------------------------------------------------------
LEMMA TypesInit == Init => TypeOK
<1> SUFFICES ASSUME Init PROVE TypeOK
  OBVIOUS
<1>1. NoPacket \in Packet
  BY Sizes DEF NoPacket, Packet
<1>2. tx \in TxType /\ tx.off <= tx.len
  BY <1>1, Sizes DEF Init, TxType
<1>3. feed \in FeedType /\ feed.secbufp = 0 /\ feed.buf = <<>>
  <2>1. {<<>>} \subseteq Seq(Unit) /\ {0} \subseteq Nat
    OBVIOUS
  <2> QED
    BY <2>1 DEF Init, FeedType
<1>4. InBuffer(feed)
  BY <1>3, Sizes DEF InBuffer
<1>5. job \in JobType
  BY DEF Init, Idle, JobType
<1>6. log \in LogType
  BY DEF Init, LogType
<1> QED
  BY <1>2, <1>3, <1>4, <1>5, <1>6, Sizes DEF Init, TypeOK

LEMMA TypesPreserved ==
    ASSUME TypeOK, [Next]_vars
    PROVE  TypeOK'
<1>1. CASE UNCHANGED vars
  BY <1>1 DEF vars, TypeOK, InBuffer
<1>2. CASE Receive
  <2> PICK t \in Transmissions :
          /\ tx' = t
          /\ faults' = IF t.packet.disc THEN faults + 1 ELSE faults
          /\ Handle(t.packet)
          /\ log' = [log EXCEPT
                 !.due = @ \cup Ended(t.packet.after)
                           \cup (IF log.intact /\ ~t.packet.disc THEN Ended(t.packet.before) ELSE {}),
                 !.intact = (log.intact /\ ~t.packet.disc) \/ t.packet.pusi]
    BY <1>2 DEF Receive
  <2>1. tx' \in TxType /\ tx'.off <= tx'.len
    BY TransmissionTypes
  <2>2. t.packet \in Packet
    BY TransmissionTypes DEF TxType
  <2>3. faults' \in 0 .. MaxFaults
    BY TransmissionTypes, AssemblerAssumption DEF TypeOK
  <2>4. log' \in LogType
    <3>1. Ended(t.packet.after) \subseteq Ids /\ Ended(t.packet.before) \subseteq Ids
      BY <2>2, EndedIds DEF Packet
    <3>2. t.packet.disc \in BOOLEAN /\ t.packet.pusi \in BOOLEAN
      BY <2>2 DEF Packet
    <3> QED
      BY <3>1, <3>2 DEF TypeOK, LogType
  <2> QED
    BY <1>2, <2>1, <2>2, <2>3, <2>4, HandleTypes DEF TypeOK, Receive
<1>3. CASE Lose
  <2> PICK t \in Transmissions : tx' = t
    BY <1>3 DEF Lose
  <2>1. tx' \in TxType /\ tx'.off <= tx'.len
    BY TransmissionTypes
  <2>2. faults' \in 0 .. MaxFaults
    BY <1>3, AssemblerAssumption DEF Lose, TypeOK
  <2>3. log' \in LogType
    BY <1>3 DEF Lose, TypeOK, LogType
  <2> QED
    BY <1>3, <2>1, <2>2, <2>3 DEF Lose, TypeOK, InBuffer
<1>4. CASE ReceiveAgain
  <2>1. tx.packet \in Packet
    BY DEF TypeOK, TxType
  <2>2. faults' \in 0 .. MaxFaults
    BY <1>4, AssemblerAssumption DEF ReceiveAgain, TypeOK
  <2>3. log' \in LogType
    BY <1>4, <2>1 DEF ReceiveAgain, TypeOK, LogType, Packet
  <2> QED
    BY <1>4, <2>1, <2>2, <2>3, HandleTypes DEF ReceiveAgain, TypeOK
<1>5. CASE ReceiveEmpty
  <2>1. faults' \in 0 .. MaxFaults
    BY <1>5, AssemblerAssumption DEF ReceiveEmpty, TypeOK
  <2>2. log' \in LogType
    BY <1>5 DEF ReceiveEmpty, TypeOK, LogType
  <2>3. feed' \in FeedType /\ feed'.secbufp = 0 /\ feed'.buf = feed.buf
    BY <1>5 DEF ReceiveEmpty, TypeOK, FeedType
  <2>4. InBuffer(feed)'
    BY <2>3, LenProperties DEF TypeOK, FeedType, InBuffer
  <2> QED
    BY <1>5, <2>1, <2>2, <2>3, <2>4 DEF ReceiveEmpty, TypeOK
<1>6. CASE CopyNothing
  BY <1>6, EndChunkTypes DEF CopyNothing, TypeOK
<1>7. CASE Copy
  <2> DEFINE n == Least(Room, Len(job.chunk))
             s == SubSeq(job.chunk, 1, n)
  <2>1. /\ feed.buf \in Seq(Unit) /\ Len(feed.buf) \in Nat /\ Len(feed.buf) <= SecFeedSize
        /\ job.chunk \in Seq(Unit) /\ Len(job.chunk) \in Nat
    BY LenProperties DEF TypeOK, FeedType, JobType, InBuffer
  <2>2. n \in Nat /\ n <= Len(job.chunk) /\ n <= SecFeedSize - Len(feed.buf)
    <3>1. Room \in Nat
      BY <2>1, Sizes DEF Room
    <3> QED
      BY <2>1, <3>1, Leasts DEF Room
  <2>3. s \in Seq(Unit) /\ Len(s) = n
    <3> HIDE DEF n
    <3> QED
      BY <2>1, <2>2, CutUnits
  <2>4. feed.buf \o s \in Seq(Unit) /\ Len(feed.buf \o s) = Len(feed.buf) + n
    <3> HIDE DEF n, s
    <3> QED
      BY <2>1, <2>3, ConcatProperties
  <2>5. feed' = [feed EXCEPT !.buf = feed.buf \o s]
    BY <1>7 DEF Copy
  <2> HIDE DEF s, n
  <2>6. feed' \in FeedType /\ feed'.secbufp = feed.secbufp /\ feed'.buf = feed.buf \o s
    BY <2>4, <2>5 DEF TypeOK, FeedType
  <2>7. InBuffer(feed)'
    BY <2>1, <2>2, <2>4, <2>6, Sizes DEF TypeOK, FeedType, InBuffer
  <2>8. job' \in JobType
    BY <1>7 DEF Copy, TypeOK, JobType
  <2> QED
    BY <1>7, <2>6, <2>7, <2>8 DEF Copy, TypeOK
<1>8. CASE Dump
  <2>1. SectionLength \in Nat \ {0} /\ feed.secbufp + SectionLength <= Len(feed.buf)
    BY <1>8, FoundLength DEF Dump
  <2>2. feed' = [feed EXCEPT !.secbufp = feed.secbufp + SectionLength]
    BY <1>8 DEF Dump
  <2>3. feed' \in FeedType /\ InBuffer(feed)'
    BY <2>1, <2>2 DEF TypeOK, FeedType, InBuffer
  <2>4. out' \in Seq(OutType)
    <3>1. Append(out, Offer) \in Seq(OutType)
      BY <1>8, OfferTypes, AppendProperties DEF Dump, TypeOK
    <3> QED
      BY <1>8, <3>1 DEF Dump, TypeOK
  <2> QED
    BY <1>8, <2>3, <2>4 DEF Dump, TypeOK
<1>9. CASE DumpEnds
  BY <1>9, EndChunkTypes DEF DumpEnds, TypeOK
<1>10. CASE StartFiltering
  <2>1. feed \in FeedType
    BY DEF TypeOK
  <2>2. Renewed(feed) \in FeedType /\ InBuffer(Renewed(feed))
    BY <2>1, RenewedFeed
  <2>3. feed' = [Renewed(feed) EXCEPT !.filtering = TRUE]
    BY <1>10 DEF StartFiltering
  <2>4. feed' \in FeedType /\ InBuffer(feed)'
    BY <2>2, <2>3 DEF FeedType, InBuffer
  <2>5. log' \in LogType
    BY <1>10 DEF StartFiltering, TypeOK, LogType
  <2> QED
    BY <1>10, <2>4, <2>5 DEF StartFiltering, TypeOK
<1>11. CASE StopFiltering
  <2>1. faults' \in 0 .. MaxFaults
    BY <1>11, AssemblerAssumption DEF StopFiltering, TypeOK
  <2>2. feed' \in FeedType /\ InBuffer(feed)'
    BY <1>11 DEF StopFiltering, TypeOK, FeedType, InBuffer
  <2> QED
    BY <1>11, <2>1, <2>2 DEF StopFiltering, TypeOK
<1> QED
  BY <1>1, <1>2, <1>3, <1>4, <1>5, <1>6, <1>7, <1>8, <1>9, <1>10, <1>11 DEF Next

(* The types are kept, and the data collected and dumped stays inside secbuf_base: the
   "internal error" of dvb_dmx_swfilter_section_copy_dump never happens. *)
THEOREM TypeCorrect == Spec => []TypeOK
<1>1. Init => TypeOK
  BY TypesInit
<1>2. TypeOK /\ [Next]_vars => TypeOK'
  BY TypesPreserved
<1> QED
  BY <1>1, <1>2, PTL DEF Spec

-----------------------------------------------------------------------------
(* What the feed collects. *)

(* The unit at place k of what a packet begins: a section numbered id of length n,
   in front of it one of length m if m is not 0, and stuffing after it. *)
Sent(id, m, n, k) ==
    IF k <= m THEN [id |-> id - 1, off |-> k - 1, len |-> m]
    ELSE IF k <= m + n THEN [id |-> id, off |-> k - m - 1, len |-> n]
    ELSE Pad

Follows(s, from, id, m, n) == \A k \in 1 .. Len(s) : s[k] = Sent(id, m, n, from + k)

Begun(id, m, n) ==
    /\ id \in Nat \ {0} /\ n \in Lengths /\ m \in Lengths \cup {0}
    /\ m < Payload /\ (m # 0 => id > 1)

(* Length l is as far as the multiplexer has come. *)
Reached(m, l) == IF tx.off < tx.len THEN l = m + tx.off ELSE l >= m + tx.len

(* No section starts here. *)
Inner(u) == u.off # 0 \/ u.len = 0

AllInner(s) == \A k \in 1 .. Len(s) : Inner(s[k])

(* The number of the first section the last packet begins. *)
First == tx.packet.after[1].id

TxInv ==
    /\ tx.id = 0 => tx.len = 0
    /\ tx.id # 0 => tx.len \in Lengths /\ tx.off > 0
    /\ AllInner(tx.packet.before)
    /\ tx.packet.pusi =>
         /\ Len(tx.packet.after) > 0 /\ Len(tx.packet.after) < Payload
         /\ \E m \in Nat :
              /\ Begun(tx.id, m, tx.len)
              /\ Follows(tx.packet.after, 0, tx.id, m, tx.len)
              /\ Reached(m, Len(tx.packet.after))

(* How many packets the feed has missed, modulo CCs. *)
Missed == IF feed.cc <= tx.packet.cc THEN tx.packet.cc - feed.cc ELSE tx.packet.cc - feed.cc + CCs

Below(x) == \A k \in 1 .. Len(out) : out[k].id < x

(* The sections collected, numbered id and before, followed by rest... *)
Collects(rest, last, id, m, n) ==
    /\ Begun(id, m, n)
    /\ Follows(feed.buf, 0, id, m, n)
    /\ Follows(rest, Len(feed.buf), id, m, n)
    /\ feed.secbufp \in {0, m, m + n}
    /\ IF last THEN id = tx.id /\ n = tx.len /\ Reached(m, Len(feed.buf) + Len(rest))
               ELSE id < First
    /\ log.repeated \/ Below(IF feed.secbufp < m THEN id - 1 ELSE IF feed.secbufp < m + n THEN id ELSE id + 1)

Collected(rest, last) == \E id, m, n \in Nat : Collects(rest, last, id, m, n)

JobInv ==
    /\ job.pc = "idle" => job.next = <<>>
    /\ job.pc # "idle" =>
         /\ feed.filtering /\ feed.cc = tx.packet.cc
         /\ job.next # <<>> => tx.packet.pusi /\ job.next = <<tx.packet.after>>

StreamInv ==
    feed.filtering /\ log.synced =>
      /\ Missed <= faults
      /\ feed.pusi_seen =>
           /\ job.pc = "idle" /\ Missed = 0 => Collected(<<>>, TRUE)
           /\ job.pc = "idle" /\ Missed = 1 => Collected(tx.packet.before, ~tx.packet.pusi)
           /\ job.pc = "copy" => Collected(job.chunk, job.next = <<>>)
           /\ job.pc = "dump" => Collected(<<>>, job.next = <<>>)

InnerInv ==
    ~log.synced => AllInner(feed.buf) /\ (job.pc = "copy" => AllInner(job.chunk))

IntactInv ==
    log.intact /\ feed.filtering /\ job.next = <<>> =>
        log.synced /\ feed.pusi_seen /\ feed.cc = tx.packet.cc

OrderInv ==
    log.repeated \/
      /\ \A i, j \in 1 .. Len(out) : i < j /\ out[i].id # 0 /\ out[j].id # 0 => out[i].id < out[j].id
      /\ Below(tx.id + 1)
      /\ job.next # <<>> => Below(First)

Offered(i) == \E k \in 1 .. Len(out) : out[k].id = i

(* Section i ends where it is still to be dumped. *)
Pending(i) ==
    /\ feed.pusi_seen /\ log.synced
    /\ \/ job.pc = "copy" /\ i \in Ended(job.chunk)
       \/ job.pc = "dump" /\ i \in Ended(SubSeq(feed.buf, feed.secbufp + 1, Len(feed.buf)))

DueInv == \A i \in log.due :
    \/ Offered(i)
    \/ job.next # <<>> /\ i \in Ended(tx.packet.after)
    \/ Pending(i)

IInv ==
    /\ TypeOK /\ TxInv /\ JobInv /\ StreamInv /\ InnerInv /\ IntactInv
    /\ OrderInv /\ DueInv /\ WholeOnceSynced

(* One more, modulo CCs. *)
LEMMA Succ ==
    ASSUME NEW c \in 0 .. CCs - 1
    PROVE  (c + 1) % CCs = (IF c + 1 = CCs THEN 0 ELSE c + 1)
<1>1. CCs \in Nat /\ CCs > 0 /\ c \in Nat
  BY AssemblerAssumption
<1>2. CASE c + 1 = CCs
  BY <1>1, <1>2, SMTT(20)
<1>3. CASE c + 1 < CCs
  BY <1>1, <1>3, SMTT(20)
<1> QED
  BY <1>1, <1>2, <1>3

-----------------------------------------------------------------------------
(* What the next packet holds. *)

(* After o of n units of section i: the rest of it, and stuffing. *)
GoesOn(t, i, n, o, p) ==
    /\ o < n /\ t.id = i /\ t.len = n /\ t.off = o + Least(n - o, p)
    /\ t.packet.pusi = FALSE /\ t.packet.after = <<>> /\ Len(t.packet.before) = p
    /\ \A k \in 1 .. p : t.packet.before[k] =
           IF k <= n - o THEN [id |-> i, off |-> o + k - 1, len |-> n] ELSE Pad

(* The rest of it, and l units of a section of length z or of one of length m and that. *)
Begins(t, i, n, o, p, m, z, l) ==
    /\ m \in Lengths \cup {0} /\ z \in Lengths /\ t.len = z
    /\ t.id = IF m = 0 THEN i + 1 ELSE i + 2
    /\ t.packet.pusi = TRUE /\ Len(t.packet.before) = n - o
    /\ \A k \in 1 .. n - o : t.packet.before[k] = [id |-> i, off |-> o + k - 1, len |-> n]
    /\ Len(t.packet.after) = l /\ l = p - 1 - (n - o) /\ l > m
    /\ Follows(t.packet.after, 0, t.id, m, z)
    /\ t.off = Least(z, l - m)

LEMMA SectionAt ==
    ASSUME NEW i, NEW n \in Nat, NEW k \in 1 .. n
    PROVE  Section(i, n)[k] = [id |-> i, off |-> k - 1, len |-> n]
  BY DEF Section

LEMMA FillAt ==
    ASSUME NEW s, NEW n \in Nat, NEW k \in 1 .. n
    PROVE  Fill(s, n)[k] = IF k <= Len(s) THEN s[k] ELSE Pad
  BY DEF Fill

LEMMA RestOf ==
    ASSUME TypeOK
    PROVE  /\ Len(SubSeq(Section(tx.id, tx.len), tx.off + 1, tx.len)) = Left
           /\ \A k \in 1 .. Left : SubSeq(Section(tx.id, tx.len), tx.off + 1, tx.len)[k] =
                  [id |-> tx.id, off |-> tx.off + k - 1, len |-> tx.len]
<1> PICK i \in Ids, n \in Nat, o \in Nat : i = tx.id /\ n = tx.len /\ o = tx.off /\ o <= n
  BY DEF TypeOK, TxType
<1>1. Section(i, n) \in Seq(Unit) /\ Len(Section(i, n)) = n
  BY SectionUnits
<1>2. \A k \in o + 1 .. n : Section(i, n)[k] \in Unit
  BY <1>1, ElementOfSeq
<1>3. /\ Len(SubSeq(Section(i, n), o + 1, n)) = IF o + 1 <= n THEN n - (o + 1) + 1 ELSE 0
      /\ \A k \in 1 .. n - (o + 1) + 1 : SubSeq(Section(i, n), o + 1, n)[k] = Section(i, n)[o + 1 + k - 1]
  BY <1>2, SubSeqProperties
<1>4. Len(SubSeq(Section(i, n), o + 1, n)) = n - o
  BY <1>3
<1>5. ASSUME NEW k \in 1 .. n - o
      PROVE  SubSeq(Section(i, n), o + 1, n)[k] = [id |-> i, off |-> o + k - 1, len |-> n]
  <2>1. SubSeq(Section(i, n), o + 1, n)[k] = Section(i, n)[o + k]
    BY <1>3
  <2>2. o + k \in 1 .. n
    OBVIOUS
  <2> QED
    BY <2>1, <2>2, SectionAt
<1> QED
  BY <1>4, <1>5 DEF Left

LEMMA Sends ==
    ASSUME TypeOK, NEW t \in Transmissions
    PROVE  /\ t.packet.cc = (tx.packet.cc + 1) % CCs
           /\ \E i, n, o, p \in Nat :
                /\ i = tx.id /\ n = tx.len /\ o = tx.off /\ o <= n /\ p = Payload
                /\ GoesOn(t, i, n, o, p) \/ \E m, z, l \in Nat : Begins(t, i, n, o, p, m, z, l)
<1> PICK i \in Ids, n \in Nat, o \in Nat, p \in Nat :
        i = tx.id /\ n = tx.len /\ o = tx.off /\ o <= n /\ p = Payload
  BY Sizes DEF TypeOK, TxType
<1> DEFINE rest == SubSeq(Section(tx.id, tx.len), tx.off + 1, tx.len)
<1>0. /\ Left = n - o /\ rest \in Seq(Unit) /\ Len(rest) = n - o /\ i \in Nat
      /\ \A k \in 1 .. n - o : rest[k] = [id |-> i, off |-> o + k - 1, len |-> n]
  BY RestUnits, RestOf, AssemblerAssumption DEF Left, Ids
<1>1. ASSUME NEW disc \in BOOLEAN, Left > 0, t = Continued(disc)
      PROVE  t.packet.cc = (tx.packet.cc + 1) % CCs /\ GoesOn(t, i, n, o, p)
  <2>1. /\ t.packet.cc = (tx.packet.cc + 1) % CCs /\ t.packet.before = Fill(rest, p)
        /\ t.packet.pusi = FALSE /\ t.packet.after = <<>> /\ t.off = o + Least(n - o, p)
        /\ t.id = i /\ t.len = n
    BY <1>0, <1>1 DEF Continued, TypeOK, TxType
  <2> HIDE DEF rest
  <2>2. Len(Fill(rest, p)) = p
    BY <1>0, FillUnits
  <2>3. ASSUME NEW k \in 1 .. p
        PROVE  Fill(rest, p)[k] = IF k <= n - o THEN [id |-> i, off |-> o + k - 1, len |-> n] ELSE Pad
    <3>1. Fill(rest, p)[k] = IF k <= n - o THEN rest[k] ELSE Pad
      BY <1>0, FillAt
    <3>2. k <= n - o => rest[k] = [id |-> i, off |-> o + k - 1, len |-> n]
      BY <1>0
    <3> QED
      BY <3>1, <3>2
  <2>4. o < n
    BY <1>0, <1>1
  <2> QED
    BY <2>1, <2>2, <2>3, <2>4 DEF GoesOn
<1>2. ASSUME NEW disc \in BOOLEAN, NEW m \in Lengths, NEW z \in Lengths \cup {0},
             Payload - 1 - Left > (IF z = 0 THEN 0 ELSE m),
             tx.id + (IF z = 0 THEN 1 ELSE 2) <= MaxSections,
             t = Started(disc, m, z)
      PROVE  t.packet.cc = (tx.packet.cc + 1) % CCs /\ \E a, b, l \in Nat : Begins(t, i, n, o, p, a, b, l)
  <2> DEFINE new == Section(i + 1, m) \o Section(i + 2, z)
  <2>1. m \in Nat /\ m > 0 /\ z \in Nat
    BY AssemblerAssumption DEF Header
  <2> PICK l \in Nat : l = p - 1 - (n - o) /\ l > (IF z = 0 THEN 0 ELSE m)
    <3>1. p - 1 - (n - o) > (IF z = 0 THEN 0 ELSE m)
      BY <1>0, <1>2
    <3> QED
      BY <2>1, <3>1
  <2>3. i + 1 \in Ids /\ (z # 0 => i + 2 \in Ids)
    BY <1>0, <1>2, AssemblerAssumption DEF Ids
  <2>4. /\ t.packet.cc = (tx.packet.cc + 1) % CCs /\ t.packet.before = rest
        /\ t.packet.pusi = TRUE /\ t.packet.after = Fill(new, l)
        /\ t.id = (IF z = 0 THEN i + 1 ELSE i + 2)
        /\ t.off = (IF z = 0 THEN Least(m, l) ELSE Least(z, l - m))
        /\ t.len = (IF z = 0 THEN m ELSE z)
    BY <1>0, <1>2 DEF Started
  <2>5. /\ Section(i + 1, m) \in Seq(Unit) /\ Len(Section(i + 1, m)) = m
        /\ Section(i + 2, z) \in Seq(Unit) /\ Len(Section(i + 2, z)) = z
    <3>1. Section(i + 2, z) \in Seq(Unit) /\ Len(Section(i + 2, z)) = z
      <4>1. CASE z # 0
        BY <2>1, <2>3, <4>1, SectionUnits
      <4>2. CASE z = 0
        <5>1. Section(i + 2, z) = << >>
          BY <4>2 DEF Section
        <5> QED
          BY <4>2, <5>1, EmptySeq
      <4> QED
        BY <4>1, <4>2
    <3> QED
      BY <2>1, <2>3, <3>1, SectionUnits
  <2>6. /\ new \in Seq(Unit) /\ Len(new) = m + z
        /\ \A k \in 1 .. m + z : new[k] = IF k <= m THEN Section(i + 1, m)[k] ELSE Section(i + 2, z)[k - m]
    <3> DEFINE a == Section(i + 1, m)
               b == Section(i + 2, z)
    <3>2. a \in Seq(Unit) /\ b \in Seq(Unit) /\ Len(a) = m /\ Len(b) = z
      BY <2>5
    <3> HIDE DEF a, b
    <3>3. /\ a \o b \in Seq(Unit) /\ Len(a \o b) = Len(a) + Len(b)
          /\ \A k \in 1 .. Len(a) + Len(b) : (a \o b)[k] = IF k <= Len(a) THEN a[k] ELSE b[k - Len(a)]
      BY <3>2, ConcatProperties
    <3>4. /\ a \o b \in Seq(Unit) /\ Len(a \o b) = m + z
          /\ \A k \in 1 .. m + z : (a \o b)[k] = IF k <= m THEN a[k] ELSE b[k - m]
      BY <3>2, <3>3
    <3> QED
      BY <3>4 DEF a, b
  <2> HIDE DEF rest, new
  <2>7. Len(Fill(new, l)) = l
    BY <2>6, FillUnits
  <2>8. ASSUME NEW k \in 1 .. l
        PROVE  Fill(new, l)[k] = IF k <= m THEN [id |-> i + 1, off |-> k - 1, len |-> m]
                                 ELSE IF k <= m + z THEN [id |-> i + 2, off |-> k - m - 1, len |-> z]
                                 ELSE Pad
    <3>1. Fill(new, l)[k] = IF k <= m + z THEN new[k] ELSE Pad
      BY <2>6, FillAt
    <3>2. k <= m => Section(i + 1, m)[k] = [id |-> i + 1, off |-> k - 1, len |-> m]
      BY <2>1, SectionAt
    <3>3. ASSUME k > m, k <= m + z
          PROVE  Section(i + 2, z)[k - m] = [id |-> i + 2, off |-> k - m - 1, len |-> z]
      <4>1. k - m \in 1 .. z
        BY <2>1, <3>3
      <4> QED
        BY <2>1, <4>1, SectionAt
    <3>4. k <= m + z => new[k] = IF k <= m THEN Section(i + 1, m)[k] ELSE Section(i + 2, z)[k - m]
      BY <2>1, <2>6
    <3> QED
      BY <2>1, <3>1, <3>2, <3>3, <3>4
  <2>9. Len(t.packet.before) = n - o /\ \A k \in 1 .. n - o : t.packet.before[k] =
             [id |-> i, off |-> o + k - 1, len |-> n]
    BY <1>0, <2>4
  <2>11. CASE z = 0
    <3>1. \A k \in 1 .. l : Fill(new, l)[k] = Sent(i + 1, 0, m, 0 + k)
      <4> TAKE k \in 1 .. l
      <4>1. /\ k \in Nat /\ ~(k <= 0) /\ 0 + k = k /\ m + 0 = m /\ 0 + m = m /\ k - 0 - 1 = k - 1
        BY <2>1
      <4>2. Fill(new, l)[k] = IF k <= m THEN [id |-> i + 1, off |-> k - 1, len |-> m] ELSE Pad
        BY <2>1, <2>8, <2>11, <4>1
      <4>3. Sent(i + 1, 0, m, k) = IF k <= m THEN [id |-> i + 1, off |-> k - 1, len |-> m] ELSE Pad
        BY <4>1 DEF Sent
      <4> QED
        BY <4>1, <4>2, <4>3
    <3>2. Follows(t.packet.after, 0, t.id, 0, m)
      BY <2>4, <2>7, <2>11, <3>1 DEF Follows
    <3>3. l - 0 = l
      OBVIOUS
    <3>4. Begins(t, i, n, o, p, 0, m, l)
      BY <2>1, <2>4, <2>7, <2>9, <2>11, <3>2, <3>3 DEF Begins
    <3> QED
      BY <2>1, <2>4, <3>4
  <2>12. CASE z # 0
    <3>1. \A k \in 1 .. l : Fill(new, l)[k] = Sent(i + 2, m, z, 0 + k)
      <4> TAKE k \in 1 .. l
      <4>1. PICK c \in Nat : c = i + 2 /\ c - 1 = i + 1 /\ 0 + k = k
        <5>1. i \in Nat
          BY <1>0
        <5> QED
          BY <5>1
      <4>2. Sent(c, m, z, k) = IF k <= m THEN [id |-> c - 1, off |-> k - 1, len |-> m]
                               ELSE IF k <= m + z THEN [id |-> c, off |-> k - m - 1, len |-> z]
                               ELSE Pad
        BY DEF Sent
      <4>3. Fill(new, l)[k] = Sent(c, m, z, k)
        BY <2>8, <4>1, <4>2
      <4> QED
        BY <4>1, <4>3
    <3>2. Follows(t.packet.after, 0, t.id, m, z)
      BY <2>4, <2>7, <2>12, <3>1 DEF Follows
    <3>3. Begins(t, i, n, o, p, m, z, l)
      BY <2>1, <2>4, <2>7, <2>9, <2>12, <3>2 DEF Begins
    <3> QED
      BY <2>1, <2>4, <3>3
  <2> QED
    BY <2>11, <2>12
<1>3. Announced \subseteq BOOLEAN
  BY DEF Announced
<1>4. t.packet.cc = (tx.packet.cc + 1) % CCs
      /\ (GoesOn(t, i, n, o, p) \/ \E m, z, l \in Nat : Begins(t, i, n, o, p, m, z, l))
  BY <1>1, <1>2, <1>3 DEF Transmissions
<1> QED
  BY <1>0, <1>4

-----------------------------------------------------------------------------
(* Numbers of the state, for arithmetic. *)
LEMMA Numbers ==
    ASSUME TypeOK, TxInv
    PROVE  /\ tx.id \in Nat /\ tx.len \in Nat /\ tx.off \in Nat /\ tx.off <= tx.len
           /\ tx.packet \in Packet
           /\ feed.buf \in Seq(Unit) /\ Len(feed.buf) \in Nat /\ feed.secbufp \in Nat
           /\ Left = tx.len - tx.off
           /\ Left > 0 => tx.off > 0
           /\ Lengths \subseteq Nat /\ \A n \in Lengths : n >= Header /\ n <= MaxSection
<1>1. tx.id \in Nat /\ tx.len \in Nat /\ tx.off \in Nat /\ tx.off <= tx.len /\ tx.packet \in Packet
  BY AssemblerAssumption DEF TypeOK, TxType, Ids
<1>2. feed.buf \in Seq(Unit) /\ Len(feed.buf) \in Nat /\ feed.secbufp \in Nat
  BY LenProperties DEF TypeOK, FeedType
<1>3. Lengths \subseteq Nat /\ \A n \in Lengths : n >= Header /\ n <= MaxSection
  BY AssemblerAssumption DEF Header
<1>4. Left = tx.len - tx.off
  BY DEF Left
<1>5. Left > 0 => tx.off > 0
  BY <1>1, <1>4 DEF TxInv
<1> QED
  BY <1>1, <1>2, <1>3, <1>4, <1>5

LEMMA BeginsFirst ==
    ASSUME NEW id \in Nat \ {0}, NEW m \in Nat, NEW n \in Nat \ {0}, NEW s,
           Len(s) \in Nat \ {0}, Follows(s, 0, id, m, n)
    PROVE  s[1].id = IF m = 0 THEN id ELSE id - 1
<1>1. s[1] = Sent(id, m, n, 0 + 1)
  BY DEF Follows
<1>2. 0 + 1 = 1 /\ (1 <= m <=> m # 0) /\ (m = 0 => 1 <= m + n)
  OBVIOUS
<1> QED
  BY <1>1, <1>2 DEF Sent

LEMMA Transmitted ==
    ASSUME TypeOK, TxInv, NEW t \in Transmissions, tx' = t
    PROVE  TxInv'
<1> PICK i \in Nat, n \in Nat, o \in Nat, p \in Nat :
        /\ i = tx.id /\ n = tx.len /\ o = tx.off /\ o <= n /\ p = Payload
        /\ GoesOn(t, i, n, o, p) \/ \E m, z, l \in Nat : Begins(t, i, n, o, p, m, z, l)
  BY Sends
<1>0. n > 0 => i # 0 /\ n \in Lengths /\ o > 0
  BY DEF TxInv
<1>1. CASE GoesOn(t, i, n, o, p)
  <2>1. t.id # 0 /\ t.len \in Lengths
    BY <1>0, <1>1 DEF GoesOn
  <2>2. t.off > 0
    <3>1. o > 0 /\ n - o \in Nat /\ t.off = o + Least(n - o, p)
      BY <1>0, <1>1 DEF GoesOn
    <3>2. Least(n - o, p) \in Nat
      BY <3>1, Leasts
    <3> QED
      BY <3>1, <3>2
  <2>3. AllInner(t.packet.before)
    <3> SUFFICES ASSUME NEW k \in 1 .. p
                 PROVE  Inner(t.packet.before[k])
      BY <1>1 DEF AllInner, GoesOn
    <3>1. CASE k <= n - o
      <4>1. t.packet.before[k] = [id |-> i, off |-> o + k - 1, len |-> n]
        BY <1>1, <3>1 DEF GoesOn
      <4>2. o + k - 1 # 0
        BY <1>0, <1>1 DEF GoesOn
      <4> QED
        BY <4>1, <4>2 DEF Inner
    <3>2. CASE ~(k <= n - o)
      <4>1. t.packet.before[k] = Pad
        BY <1>1, <3>2 DEF GoesOn
      <4> QED
        BY <4>1 DEF Inner, Pad
    <3> QED
      BY <3>1, <3>2
  <2> QED
    BY <1>1, <2>1, <2>2, <2>3 DEF GoesOn, TxInv
<1>2. ASSUME NEW m \in Nat, NEW z \in Nat, NEW l \in Nat, Begins(t, i, n, o, p, m, z, l)
      PROVE  TxInv'
  <2>1. z \in Lengths /\ z >= Header /\ l > m /\ l < p
    BY <1>2, AssemblerAssumption DEF Begins
  <2>2. t.off = Least(z, l - m) /\ t.len = z /\ Len(t.packet.after) = l /\ t.packet.pusi
    BY <1>2 DEF Begins
  <2>3. t.id # 0 /\ t.id \in Nat /\ (m # 0 => t.id > 1)
    <3>1. t.id = IF m = 0 THEN i + 1 ELSE i + 2
      BY <1>2 DEF Begins
    <3> QED
      BY <3>1
  <2>4. t.off > 0 /\ (t.off < z => l = m + t.off) /\ (~(t.off < z) => l >= m + z)
    BY <2>1, <2>2 DEF Least, Header
  <2>5. AllInner(t.packet.before)
    <3> SUFFICES ASSUME NEW k \in 1 .. n - o
                 PROVE  Inner(t.packet.before[k])
      BY <1>2 DEF AllInner, Begins
    <3>1. t.packet.before[k] = [id |-> i, off |-> o + k - 1, len |-> n]
      BY <1>2 DEF Begins
    <3>2. o + k - 1 # 0
      <4>1. n > 0 /\ k \in Nat /\ k >= 1
        OBVIOUS
      <4> QED
        BY <1>0, <4>1
    <3> QED
      BY <3>1, <3>2 DEF Inner
  <2>6. Begun(t.id, m, t.len) /\ Follows(t.packet.after, 0, t.id, m, t.len)
    BY <1>2, <2>1, <2>2, <2>3 DEF Begins, Begun
  <2>7. Reached(m, Len(t.packet.after))'
    BY <2>2, <2>4 DEF Reached
  <2> QED
    BY <2>1, <2>2, <2>3, <2>4, <2>5, <2>6, <2>7 DEF TxInv
<1> QED
  BY <1>1, <1>2

LEMMA NewFirst ==
    ASSUME TypeOK, TxInv, NEW t \in Transmissions
    PROVE  /\ t.id >= tx.id
           /\ t.packet.pusi => t.packet.after[1].id = tx.id + 1
           /\ ~t.packet.pusi => t.packet.after = <<>>
<1> PICK i \in Nat, n \in Nat, o \in Nat, p \in Nat :
        /\ i = tx.id /\ n = tx.len /\ o = tx.off /\ o <= n /\ p = Payload
        /\ GoesOn(t, i, n, o, p) \/ \E m, z, l \in Nat : Begins(t, i, n, o, p, m, z, l)
  BY Sends
<1>1. CASE GoesOn(t, i, n, o, p)
  BY <1>1 DEF GoesOn
<1>2. ASSUME NEW q \in Nat, NEW z \in Nat, NEW l \in Nat, Begins(t, i, n, o, p, q, z, l)
      PROVE  t.id >= i /\ t.packet.pusi /\ t.packet.after[1].id = i + 1
  <2>1. z > 0 /\ l > 0
    BY <1>2, AssemblerAssumption DEF Begins, Header
  <2>2. PICK j \in Nat : j = t.id /\ j > 0 /\ j = IF q = 0 THEN i + 1 ELSE i + 2
    BY <1>2 DEF Begins
  <2>3. Len(t.packet.after) \in Nat \ {0} /\ Follows(t.packet.after, 0, j, q, z)
    <3>1. Len(t.packet.after) = l /\ Follows(t.packet.after, 0, t.id, q, z)
      BY <1>2 DEF Begins
    <3> QED
      BY <2>1, <2>2, <3>1
  <2>4. t.packet.after[1].id = IF q = 0 THEN j ELSE j - 1
    <3>1. j \in Nat \ {0} /\ z \in Nat \ {0}
      BY <2>1, <2>2
    <3> QED
      BY <2>3, <3>1, BeginsFirst
  <2> QED
    BY <1>2, <2>2, <2>4 DEF Begins
<1> QED
  BY <1>1, <1>2

(* What comes next continues what is collected. *)
LEMMA Continues ==
    ASSUME TypeOK, TxInv, NEW t \in Transmissions, tx' = t,
           feed'.buf = feed.buf, feed'.secbufp = feed.secbufp, out' = out,
           log.repeated => log'.repeated,
           Collected(<<>>, TRUE)
    PROVE  Collected(t.packet.before, ~t.packet.pusi)'
<1> PICK i \in Nat, n \in Nat, o \in Nat, p \in Nat :
        /\ i = tx.id /\ n = tx.len /\ o = tx.off /\ o <= n /\ p = Payload
        /\ GoesOn(t, i, n, o, p) \/ \E m, z, l \in Nat : Begins(t, i, n, o, p, m, z, l)
  BY Sends
<1> PICK m \in Nat : Collects(<<>>, TRUE, i, m, n)
  BY DEF Collected, Collects
<1> PICK b \in Nat : b = Len(feed.buf)
  BY Numbers
<1>1. i > 0 /\ n > 0 /\ n \in Lengths
  BY AssemblerAssumption DEF Collects, Begun, Header
<1>2. o < n => b = m + o /\ o > 0
  <2>1. Len(<<>>) = 0 /\ b + 0 = b
    OBVIOUS
  <2>2. o < n => b = m + o
    BY <2>1 DEF Collects, Reached
  <2>3. o > 0
    BY <1>1 DEF TxInv
  <2> QED
    BY <2>2, <2>3
<1>3. ASSUME NEW k \in 1 .. n - o
      PROVE  Sent(i, m, n, b + k) = [id |-> i, off |-> o + k - 1, len |-> n]
  <2>1. ~(b + k <= m) /\ b + k <= m + n /\ b + k - m - 1 = o + k - 1
    BY ONLY <1>2, n \in Nat, o \in Nat, o <= n, m \in Nat, b \in Nat, k \in 1 .. n - o
  <2> QED
    BY <2>1 DEF Sent
<1>4. /\ Follows(feed.buf, 0, i, m, n)' /\ (feed.secbufp \in {0, m, m + n})'
      /\ Begun(i, m, n)'
      /\ (log.repeated \/ Below(IF feed.secbufp < m THEN i - 1 ELSE IF feed.secbufp < m + n THEN i ELSE i + 1))'
  BY DEF Collects, Begun, Follows, Below
<1>5. CASE GoesOn(t, i, n, o, p)
  <2>2. ASSUME NEW k \in 1 .. p
        PROVE  t.packet.before[k] = Sent(i, m, n, b + k)
    <3>1. CASE k <= n - o
      <4>1. k \in 1 .. n - o
        BY <3>1
      <4> QED
        BY <1>3, <1>5, <3>1, <4>1 DEF GoesOn
    <3>2. CASE ~(k <= n - o)
      <4>0. o < n
        BY <1>5 DEF GoesOn
      <4>1. ~(b + k <= m) /\ ~(b + k <= m + n)
        BY ONLY <1>2, <3>2, <4>0, i \in Nat, n \in Nat, o \in Nat, p \in Nat, m \in Nat, b \in Nat, k \in 1 .. p
      <4> QED
        BY <1>5, <3>2, <4>1 DEF GoesOn, Sent
    <3> QED
      BY <3>1, <3>2
  <2>3. Follows(t.packet.before, Len(feed.buf), i, m, n)'
    BY <1>5, <2>2 DEF GoesOn, Follows
  <2>4. PICK f \in Nat : f = t.off /\ f = o + (IF n - o < p THEN n - o ELSE p)
    BY <1>5 DEF GoesOn, Least
  <2>5. IF f < n THEN b + p = m + f ELSE b + p >= m + n
    <3>1. o < n
      BY <1>5 DEF GoesOn
    <3>2. b = m + o /\ f = o + (IF n - o < p THEN n - o ELSE p)
      BY <1>2, <2>4, <3>1
    <3>3. m \in Nat /\ n \in Nat /\ o \in Nat /\ p \in Nat /\ b \in Nat /\ f \in Nat
      OBVIOUS
    <3> QED
      BY ONLY <3>1, <3>2, <3>3
  <2>6. t.id = i /\ t.len = n /\ Len(t.packet.before) = p /\ ~t.packet.pusi
    BY <1>5 DEF GoesOn
  <2>7. Reached(m, Len(feed.buf) + Len(t.packet.before))'
    BY <2>4, <2>5, <2>6 DEF Reached
  <2>8. Collects(t.packet.before, TRUE, i, m, n)'
    BY <1>4, <2>3, <2>6, <2>7 DEF Collects
  <2> QED
    BY <2>6, <2>8 DEF Collected
<1>6. ASSUME NEW q \in Nat, NEW z \in Nat, NEW l \in Nat, Begins(t, i, n, o, p, q, z, l)
      PROVE  Collected(t.packet.before, ~t.packet.pusi)'
  <2>1. Follows(t.packet.before, Len(feed.buf), i, m, n)'
    <3>1. /\ Len(t.packet.before) = n - o
          /\ \A k \in 1 .. n - o : t.packet.before[k] = [id |-> i, off |-> o + k - 1, len |-> n]
      BY <1>6 DEF Begins
    <3>2. \A k \in 1 .. n - o : t.packet.before[k] = Sent(i, m, n, b + k)
      BY <1>3, <3>1
    <3> QED
      BY <3>1, <3>2 DEF Follows
  <2>2. First' = tx.id + 1
    BY <1>6, NewFirst DEF Begins, First
  <2>3. t.packet.pusi
    BY <1>6 DEF Begins
  <2>4. Collects(t.packet.before, FALSE, i, m, n)'
    BY <1>4, <2>1, <2>2 DEF Collects
  <2> QED
    BY <2>3, <2>4 DEF Collected
<1> QED
  BY <1>5, <1>6

-----------------------------------------------------------------------------
(* The continuity counter. *)
LEMMA Counters ==
    ASSUME TypeOK
    PROVE  /\ Missed \in 0 .. CCs - 1
           /\ Missed = 0 <=> feed.cc = tx.packet.cc
           /\ (tx.packet.cc + 1) % CCs = (feed.cc + 1) % CCs <=> feed.cc = tx.packet.cc
           /\ tx.packet.cc = (feed.cc + 1) % CCs <=> Missed = 1
<1> PICK a \in 0 .. CCs - 1, b \in 0 .. CCs - 1 : a = feed.cc /\ b = tx.packet.cc
  BY DEF TypeOK, FeedType, TxType, Packet
<1> PICK c \in Nat : c = CCs /\ c > 1
  BY AssemblerAssumption
<1>1. /\ (a + 1) % CCs = (IF a + 1 = c THEN 0 ELSE a + 1)
      /\ (b + 1) % CCs = (IF b + 1 = c THEN 0 ELSE b + 1)
  BY Succ
<1>2. Missed = IF a <= b THEN b - a ELSE b - a + c
  BY DEF Missed
<1>3. CCs \in Nat /\ CCs > 1 /\ a \in Nat /\ b \in Nat /\ a < c /\ b < c
  OBVIOUS
<1>4. Missed \in 0 .. CCs - 1 /\ (Missed = 0 <=> a = b)
  BY <1>2, <1>3
<1>5. (b + 1) % CCs = (a + 1) % CCs <=> a = b
  BY <1>1, <1>3
<1>6. b = (a + 1) % CCs <=> Missed = 1
  BY <1>1, <1>2, <1>3
<1> QED
  BY <1>4, <1>5, <1>6

LEMMA OneMore ==
    ASSUME TypeOK, tx'.packet.cc = (tx.packet.cc + 1) % CCs, feed'.cc = feed.cc, Missed < CCs - 1
    PROVE  Missed' = Missed + 1
<1> PICK a \in 0 .. CCs - 1, b \in 0 .. CCs - 1 : a = feed.cc /\ b = tx.packet.cc
  BY DEF TypeOK, FeedType, TxType, Packet
<1> PICK c \in Nat : c = CCs /\ c > 1
  BY AssemblerAssumption
<1>1. (b + 1) % CCs = (IF b + 1 = c THEN 0 ELSE b + 1)
  BY Succ
<1>2. Missed = IF a <= b THEN b - a ELSE b - a + c
  BY DEF Missed
<1>3. PICK d \in Int : d = (IF b + 1 = c THEN 0 ELSE b + 1) /\ tx'.packet.cc = d
  BY <1>1
<1>4. Missed' = IF a <= d THEN d - a ELSE d - a + c
  BY <1>3 DEF Missed
<1> QED
  BY <1>2, <1>3, <1>4

LEMMA CheckedFeed ==
    ASSUME TypeOK, NEW p
    PROVE  /\ Checked(p).filtering = feed.filtering /\ Checked(p).cc = p.cc
           /\ IF p.cc = (feed.cc + 1) % CCs /\ ~p.disc
              THEN /\ Checked(p).pusi_seen = feed.pusi_seen /\ Checked(p).buf = feed.buf
                   /\ Checked(p).secbufp = feed.secbufp
              ELSE Checked(p).pusi_seen = FALSE /\ Checked(p).buf = <<>>
<1>1. feed \in FeedType
  BY DEF TypeOK
<1>2. CASE p.cc = (feed.cc + 1) % CCs /\ ~p.disc
  BY <1>1, <1>2 DEF Checked, FeedType
<1>3. CASE ~(p.cc = (feed.cc + 1) % CCs /\ ~p.disc)
  BY <1>1, <1>3 DEF Checked, Renewed, FeedType
<1> QED
  BY <1>2, <1>3

(* A packet comes to a feed that is waiting for one. *)
LEMMA Handled ==
    ASSUME IInv, TypeOK', TxInv', job.pc = "idle", feed.filtering,
           NEW p, Handle(p), tx'.packet = p,
           log'.synced = log.synced, faults <= faults',
           p.cc = (feed.cc + 1) % CCs /\ ~p.disc /\ log.synced /\ feed.pusi_seen
               => Collected(p.before, ~p.pusi)'
    PROVE  /\ JobInv' /\ StreamInv' /\ InnerInv'
           /\ job'.pc = "copy" /\ job'.chunk = p.before
           /\ job'.next # <<>> <=> p.pusi
<1>1. /\ feed'.filtering = feed.filtering /\ feed'.cc = p.cc
      /\ IF p.cc = (feed.cc + 1) % CCs /\ ~p.disc
         THEN feed'.pusi_seen = feed.pusi_seen /\ feed'.buf = feed.buf
         ELSE feed'.pusi_seen = FALSE /\ feed'.buf = <<>>
  BY CheckedFeed DEF Handle, IInv
<1>2. /\ job'.pc = "copy" /\ job'.chunk = p.before
      /\ job'.next = IF p.pusi THEN <<p.after>> ELSE <<>>
  BY DEF Handle
<1>3. <<p.after>> # <<>>
  OBVIOUS
<1>4. JobInv'
  BY <1>1, <1>2, <1>3 DEF JobInv
<1>5. StreamInv'
  <2> SUFFICES ASSUME log.synced
               PROVE  /\ Missed' <= faults'
                      /\ feed'.pusi_seen => Collected(job.chunk, job.next = <<>>)'
    BY <1>2 DEF StreamInv
  <2>1. Missed' = 0
    <3>1. p.cc \in Int /\ p.cc <= p.cc
      BY DEF TypeOK, TxType, Packet
    <3> QED
      BY <1>1, <3>1 DEF Missed
  <2>2. faults' \in Nat
    BY AssemblerAssumption DEF TypeOK
  <2>3. ASSUME feed'.pusi_seen
        PROVE  Collected(job.chunk, job.next = <<>>)'
    <3>1. Collected(p.before, ~p.pusi)'
      BY <1>1, <2>3
    <3>2. p.before = job'.chunk /\ (~p.pusi <=> job'.next = <<>>)
      BY <1>2, <1>3
    <3> QED
      BY <3>1, <3>2 DEF Collected, Collects
  <2> QED
    BY <2>1, <2>2, <2>3
<1>6. InnerInv'
  <2>1. AllInner(p.before)
    BY DEF TxInv
  <2>2. ~log.synced => AllInner(feed'.buf)
    BY <1>1 DEF IInv, InnerInv, AllInner
  <2> QED
    BY <1>2, <2>1, <2>2 DEF InnerInv
<1> QED
  BY <1>2, <1>3, <1>4, <1>5, <1>6

-----------------------------------------------------------------------------
LEMMA StepReceive ==
    ASSUME IInv, TypeOK', Receive
    PROVE  IInv'
<1> PICK t \in Transmissions :
        /\ tx' = t
        /\ faults' = IF t.packet.disc THEN faults + 1 ELSE faults
        /\ Handle(t.packet)
        /\ log' = [log EXCEPT
               !.due = @ \cup Ended(t.packet.after)
                         \cup (IF log.intact /\ ~t.packet.disc THEN Ended(t.packet.before) ELSE {}),
               !.intact = (log.intact /\ ~t.packet.disc) \/ t.packet.pusi]
  BY DEF Receive
<1> DEFINE p == t.packet
<1>1. job.pc = "idle" /\ feed.filtering /\ out' = out /\ TypeOK /\ TxInv
  BY DEF Receive, IInv
<1>2. TxInv'
  BY <1>1, Transmitted
<1>3. /\ log'.synced = log.synced /\ log'.repeated = log.repeated
      /\ log'.intact = ((log.intact /\ ~p.disc) \/ p.pusi)
      /\ log'.due = log.due \cup Ended(p.after) \cup (IF log.intact /\ ~p.disc THEN Ended(p.before) ELSE {})
  BY <1>1 DEF TypeOK, LogType
<1>4. faults <= faults'
  BY <1>1, AssemblerAssumption DEF TypeOK
<1>5. p.cc = (tx.packet.cc + 1) % CCs
  BY <1>1, Sends
<1>6. /\ feed'.filtering = feed.filtering /\ feed'.cc = p.cc
      /\ p.cc = (feed.cc + 1) % CCs /\ ~p.disc =>
           feed'.pusi_seen = feed.pusi_seen /\ feed'.buf = feed.buf /\ feed'.secbufp = feed.secbufp
  BY <1>1, CheckedFeed DEF Handle
<1>7. ASSUME p.cc = (feed.cc + 1) % CCs, ~p.disc, log.synced, feed.pusi_seen
      PROVE  Collected(p.before, ~p.pusi)'
  <2>1. Missed = 0
    BY <1>1, <1>5, <1>7, Counters
  <2>2. Collected(<<>>, TRUE)
    BY <1>1, <1>7, <2>1 DEF IInv, StreamInv
  <2> QED
    BY <1>1, <1>3, <1>6, <1>7, <2>2, Continues
<1>8. /\ JobInv' /\ StreamInv' /\ InnerInv'
      /\ job'.pc = "copy" /\ job'.chunk = p.before
      /\ job'.next # <<>> <=> p.pusi
  <2>1. tx'.packet = p
    OBVIOUS
  <2> HIDE DEF p
  <2> QED
    BY <1>1, <1>2, <1>3, <1>4, <1>7, <2>1, Handled DEF p
<1>9. job.next = <<>>
  BY <1>1 DEF IInv, JobInv
<1>10. log.intact /\ ~p.disc => log.synced /\ feed'.pusi_seen
  <2> SUFFICES ASSUME log.intact, ~p.disc
               PROVE  log.synced /\ feed'.pusi_seen
    OBVIOUS
  <2>1. log.synced /\ feed.pusi_seen /\ feed.cc = tx.packet.cc
    BY <1>1, <1>9 DEF IInv, IntactInv
  <2> QED
    BY <1>5, <1>6, <2>1
<1>11. IntactInv'
  BY <1>3, <1>6, <1>8, <1>10 DEF IntactInv
<1>12. OrderInv'
  <2> SUFFICES ASSUME ~log.repeated
               PROVE  Below(tx.id + 1)' /\ (p.pusi => Below(First)')
    BY <1>1, <1>3, <1>8 DEF IInv, OrderInv
  <2>1. Below(tx.id + 1)
    BY DEF IInv, OrderInv
  <2>2. t.id >= tx.id /\ (p.pusi => t.packet.after[1].id = tx.id + 1)
    BY <1>1, NewFirst
  <2>3. tx.id \in Nat /\ t.id \in Nat /\ \A k \in 1 .. Len(out) : out[k].id \in Int
    <3>1. tx.id \in Ids /\ t.id \in Ids /\ \A k \in 1 .. Len(out) : out[k] \in OutType
      BY <1>1, ElementOfSeq DEF TypeOK, TxType
    <3> QED
      BY <3>1, AssemblerAssumption DEF Ids, OutType
  <2>4. Below(tx.id + 1)'
    <3> SUFFICES ASSUME NEW k \in 1 .. Len(out)
                 PROVE  out[k].id < t.id + 1
      BY <1>1 DEF Below
    <3>1. out[k].id < tx.id + 1
      BY <2>1 DEF Below
    <3> QED
      BY <2>2, <2>3, <3>1
  <2>5. p.pusi => Below(First)'
    BY <1>1, <2>1, <2>2 DEF Below, First
  <2> QED
    BY <2>4, <2>5
<1>13. DueInv'
  <2> SUFFICES ASSUME NEW i \in log'.due
               PROVE  \/ Offered(i)'
                      \/ p.pusi /\ i \in Ended(p.after)
                      \/ Pending(i)'
    BY <1>8 DEF DueInv
  <2>1. CASE i \in log.due
    BY <1>1, <1>9, <2>1 DEF IInv, DueInv, Pending, Offered
  <2>2. CASE i \in Ended(p.after)
    <3>1. p.pusi
      <4>1. ~p.pusi => p.after = <<>>
        BY <1>1, NewFirst
      <4>2. Ended(<<>>) = {}
        BY DEF Ended
      <4> QED
        BY <2>2, <4>1, <4>2
    <3> QED
      BY <2>2, <3>1
  <2>3. CASE log.intact /\ ~p.disc /\ i \in Ended(p.before)
    BY <1>3, <1>8, <1>10, <2>3 DEF Pending
  <2> QED
    BY <1>3, <2>1, <2>2, <2>3
<1>14. WholeOnceSynced'
  BY <1>1 DEF IInv, WholeOnceSynced
<1> QED
  BY <1>2, <1>8, <1>11, <1>12, <1>13, <1>14 DEF IInv

LEMMA StepLose ==
    ASSUME IInv, TypeOK', Lose
    PROVE  IInv'
<1> PICK t \in Transmissions : ~t.packet.disc /\ tx' = t
  BY DEF Lose
<1>1. /\ job.pc = "idle" /\ UNCHANGED <<feed, job, out>> /\ TypeOK /\ TxInv
      /\ faults' = IF feed.filtering THEN faults + 1 ELSE faults
      /\ feed.filtering => faults < MaxFaults
  BY DEF Lose, IInv
<1>2. TxInv'
  BY <1>1, Transmitted
<1>3. /\ log'.synced = log.synced /\ log'.repeated = log.repeated
      /\ log'.intact = FALSE /\ log'.due = log.due
  BY <1>1 DEF TypeOK, LogType, Lose
<1>4. job.next = <<>>
  BY <1>1 DEF IInv, JobInv
<1>5. JobInv'
  BY <1>1 DEF IInv, JobInv
<1>6. StreamInv'
  <2> SUFFICES ASSUME feed.filtering, log.synced
               PROVE  /\ Missed' <= faults'
                      /\ feed.pusi_seen /\ Missed' = 0 => Collected(<<>>, TRUE)'
                      /\ feed.pusi_seen /\ Missed' = 1 => Collected(tx.packet.before, ~tx.packet.pusi)'
    BY <1>1, <1>3 DEF StreamInv
  <2>1. Missed <= faults /\ Missed \in Nat /\ faults \in Nat /\ faults < CCs - 1 /\ CCs \in Nat
    BY <1>1, Counters, AssemblerAssumption DEF IInv, StreamInv, TypeOK
  <2>2. Missed' = Missed + 1
    <3>1. tx'.packet.cc = (tx.packet.cc + 1) % CCs
      BY <1>1, Sends
    <3>2. Missed < CCs - 1
      BY <2>1
    <3> QED
      BY <1>1, <3>1, <3>2, OneMore
  <2>3. Missed' <= faults' /\ Missed' # 0 /\ (Missed' = 1 => Missed = 0)
    BY <1>1, <2>1, <2>2
  <2>4. ASSUME feed.pusi_seen, Missed = 0
        PROVE  Collected(tx.packet.before, ~tx.packet.pusi)'
    <3>1. Collected(<<>>, TRUE)
      BY <1>1, <2>4 DEF IInv, StreamInv
    <3>2. feed'.buf = feed.buf /\ feed'.secbufp = feed.secbufp /\ out' = out
      BY <1>1
    <3>3. Collected(t.packet.before, ~t.packet.pusi)'
      BY <1>1, <1>3, <3>1, <3>2, Continues
    <3> QED
      BY <3>3 DEF Collected, Collects
  <2> QED
    BY <2>3, <2>4
<1>7. InnerInv' /\ IntactInv' /\ WholeOnceSynced'
  BY <1>1, <1>3 DEF IInv, InnerInv, AllInner, IntactInv, WholeOnceSynced
<1>8. OrderInv'
  <2> SUFFICES ASSUME ~log.repeated
               PROVE  Below(tx.id + 1)'
    BY <1>1, <1>3, <1>4 DEF IInv, OrderInv
  <2> SUFFICES ASSUME NEW k \in 1 .. Len(out)
               PROVE  out[k].id < t.id + 1
    BY <1>1 DEF Below
  <2>1. out[k].id < tx.id + 1
    BY DEF IInv, OrderInv, Below
  <2>2. t.id >= tx.id
    BY <1>1, NewFirst
  <2>3. tx.id \in Nat /\ t.id \in Nat /\ out[k].id \in Int
    <3>1. tx.id \in Ids /\ t.id \in Ids /\ out[k] \in OutType
      BY <1>1, ElementOfSeq DEF TypeOK, TxType
    <3> QED
      BY <3>1, AssemblerAssumption DEF Ids, OutType
  <2> QED
    BY <2>1, <2>2, <2>3
<1>9. DueInv'
  BY <1>1, <1>3, <1>4 DEF IInv, DueInv, Pending, Offered
<1> QED
  BY <1>2, <1>5, <1>6, <1>7, <1>8, <1>9 DEF IInv

LEMMA StepReceiveAgain ==
    ASSUME IInv, TypeOK', ReceiveAgain
    PROVE  IInv'
<1> DEFINE p == tx.packet
<1>1. /\ job.pc = "idle" /\ feed.filtering /\ Handle(p) /\ faults' = faults + 1
      /\ UNCHANGED <<tx, out>> /\ TypeOK /\ TxInv
  BY DEF ReceiveAgain, IInv
<1>2. TxInv'
  BY <1>1 DEF TxInv, Follows, Reached
<1>3. /\ log'.synced = log.synced /\ log'.repeated = TRUE
      /\ log'.intact = p.pusi /\ log'.due = log.due
  BY <1>1 DEF TypeOK, LogType, ReceiveAgain
<1>4. faults <= faults'
  BY <1>1, AssemblerAssumption DEF TypeOK
<1>5. ASSUME p.cc = (feed.cc + 1) % CCs, ~p.disc, log.synced, feed.pusi_seen
      PROVE  Collected(p.before, ~p.pusi)'
  <2>1. Missed = 1
    BY <1>1, <1>5, Counters
  <2>2. Collected(p.before, ~p.pusi)
    BY <1>1, <1>5, <2>1 DEF IInv, StreamInv
  <2>3. feed'.buf = feed.buf /\ feed'.secbufp = feed.secbufp
    BY <1>1, <1>5, CheckedFeed DEF Handle
  <2> QED
    BY <1>1, <1>3, <2>2, <2>3 DEF Collected, Collects, Follows, Reached, First
<1>6. /\ JobInv' /\ StreamInv' /\ InnerInv'
      /\ job'.pc = "copy" /\ job'.chunk = p.before
      /\ job'.next # <<>> <=> p.pusi
  <2>1. tx'.packet = tx.packet
    BY <1>1
  <2>2. PICK q : q = tx.packet
    OBVIOUS
  <2>3. p.cc = (feed.cc + 1) % CCs /\ ~p.disc /\ log.synced /\ feed.pusi_seen => Collected(q.before, ~q.pusi)'
    <3> SUFFICES ASSUME p.cc = (feed.cc + 1) % CCs /\ ~p.disc /\ log.synced /\ feed.pusi_seen
                 PROVE  Collected(q.before, ~q.pusi)'
      OBVIOUS
    <3>1. Collected(p.before, ~p.pusi)'
      BY <1>5
    <3>2. q = tx'.packet
      BY <2>1, <2>2
    <3> QED
      BY <3>1, <3>2 DEF Collected, Collects
  <2>4. tx'.packet = q /\ Handle(q)
    BY <1>1, <2>1, <2>2
  <2>5. /\ JobInv' /\ StreamInv' /\ InnerInv'
        /\ job'.pc = "copy" /\ job'.chunk = q.before
        /\ job'.next # <<>> <=> q.pusi
    BY <1>1, <1>2, <1>3, <1>4, <2>2, <2>3, <2>4, Handled
  <2> QED
    BY <2>2, <2>5
<1>7. job.next = <<>>
  BY <1>1 DEF IInv, JobInv
<1>8. IntactInv' /\ OrderInv' /\ WholeOnceSynced'
  BY <1>1, <1>3, <1>6 DEF IInv, IntactInv, OrderInv, WholeOnceSynced
<1>9. DueInv'
  BY <1>1, <1>3, <1>7 DEF IInv, DueInv, Pending, Offered
<1> QED
  BY <1>2, <1>6, <1>8, <1>9 DEF IInv

LEMMA StepReceiveEmpty ==
    ASSUME IInv, TypeOK', ReceiveEmpty
    PROVE  IInv'
<1>1. /\ job.pc = "idle" /\ feed.filtering /\ faults' = faults + 1 /\ faults \in Nat
      /\ UNCHANGED <<tx, job, out>> /\ TypeOK
  BY AssemblerAssumption DEF ReceiveEmpty, IInv, TypeOK
<1>2. /\ log'.synced = log.synced /\ log'.repeated = TRUE
      /\ log'.intact = log.intact /\ log'.due = log.due
  BY <1>1 DEF TypeOK, LogType, ReceiveEmpty
<1>3. /\ feed'.secbufp = 0 /\ feed'.buf = feed.buf /\ feed'.cc = feed.cc
      /\ feed'.filtering = feed.filtering /\ feed'.pusi_seen = feed.pusi_seen
  BY <1>1 DEF TypeOK, FeedType, ReceiveEmpty
<1>4. job.next = <<>>
  BY <1>1 DEF IInv, JobInv
<1>5. TxInv' /\ JobInv' /\ InnerInv' /\ IntactInv' /\ OrderInv' /\ WholeOnceSynced'
  BY <1>1, <1>2, <1>3, <1>4 DEF IInv, TxInv, Follows, Reached, JobInv, InnerInv, AllInner, IntactInv,
     OrderInv, WholeOnceSynced
<1>6. StreamInv'
  <2> SUFFICES ASSUME log.synced
               PROVE  /\ Missed' <= faults'
                      /\ feed.pusi_seen /\ Missed' = 0 => Collected(<<>>, TRUE)'
                      /\ feed.pusi_seen /\ Missed' = 1 => Collected(tx.packet.before, ~tx.packet.pusi)'
    BY <1>1, <1>2, <1>3 DEF StreamInv
  <2>1. Missed' = Missed /\ Missed \in Nat /\ Missed <= faults
    BY <1>1, <1>3, Counters DEF IInv, StreamInv, Missed
  <2>2. feed.pusi_seen /\ Missed = 0 => Collected(<<>>, TRUE)
    BY <1>1 DEF IInv, StreamInv
  <2>3. feed.pusi_seen /\ Missed = 1 => Collected(tx.packet.before, ~tx.packet.pusi)
    BY <1>1 DEF IInv, StreamInv
  <2>4. ASSUME Collected(<<>>, TRUE)
        PROVE  Collected(<<>>, TRUE)'
    <3> PICK id \in Nat, m \in Nat, n \in Nat : Collects(<<>>, TRUE, id, m, n)
      BY <2>4 DEF Collected
    <3>1. Collects(<<>>, TRUE, id, m, n)'
      BY <1>1, <1>2, <1>3 DEF Collects, Begun, Follows, Reached, First
    <3> QED
      BY <3>1 DEF Collected
  <2>5. ASSUME Collected(tx.packet.before, ~tx.packet.pusi)
        PROVE  Collected(tx.packet.before, ~tx.packet.pusi)'
    <3> PICK id \in Nat, m \in Nat, n \in Nat : Collects(tx.packet.before, ~tx.packet.pusi, id, m, n)
      BY <2>5 DEF Collected
    <3>1. Collects(tx.packet.before, ~tx.packet.pusi, id, m, n)'
      BY <1>1, <1>2, <1>3 DEF Collects, Begun, Follows, Reached, First
    <3> QED
      BY <3>1 DEF Collected
  <2>6. Missed' = Missed /\ Missed' <= faults'
    BY <1>1, <2>1
  <2> QED
    BY <2>2, <2>3, <2>4, <2>5, <2>6, Zenon
<1>7. DueInv'
  BY <1>1, <1>2, <1>4 DEF IInv, DueInv, Pending, Offered
<1> QED
  BY <1>5, <1>6, <1>7 DEF IInv

LEMMA StepStart ==
    ASSUME IInv, TypeOK', StartFiltering
    PROVE  IInv'
<1>1. job.pc = "idle" /\ ~feed.filtering /\ UNCHANGED <<tx, job, out, faults>> /\ TypeOK
  BY DEF StartFiltering, IInv
<1>2. /\ log'.synced = FALSE /\ log'.repeated = log.repeated
      /\ log'.intact = FALSE /\ log'.due = log.due
  BY <1>1 DEF TypeOK, LogType, StartFiltering
<1>3. feed'.buf = <<>>
  BY <1>1 DEF TypeOK, FeedType, StartFiltering, Renewed
<1>4. job.next = <<>>
  BY <1>1 DEF IInv, JobInv
<1>5. TxInv' /\ JobInv' /\ StreamInv' /\ IntactInv' /\ OrderInv' /\ WholeOnceSynced'
  BY <1>1, <1>2, <1>4 DEF IInv, TxInv, Follows, Reached, JobInv, StreamInv, IntactInv, OrderInv, Below, WholeOnceSynced
<1>6. InnerInv'
  BY <1>1, <1>3 DEF InnerInv, AllInner
<1>7. DueInv'
  BY <1>1, <1>2, <1>4 DEF IInv, DueInv, Pending, Offered
<1> QED
  BY <1>5, <1>6, <1>7 DEF IInv

LEMMA StepStop ==
    ASSUME IInv, TypeOK', StopFiltering
    PROVE  IInv'
<1>1. job.pc = "idle" /\ UNCHANGED <<tx, job, out, log>> /\ TypeOK
  BY DEF StopFiltering, IInv
<1>2. feed'.filtering = FALSE /\ feed'.buf = feed.buf
  BY <1>1 DEF TypeOK, FeedType, StopFiltering
<1>3. job.next = <<>>
  BY <1>1 DEF IInv, JobInv
<1>4. TxInv' /\ JobInv' /\ StreamInv' /\ InnerInv' /\ IntactInv' /\ OrderInv' /\ WholeOnceSynced'
  BY <1>1, <1>2, <1>3 DEF IInv, TxInv, Follows, Reached, JobInv, StreamInv, InnerInv, AllInner, IntactInv,
     OrderInv, Below, WholeOnceSynced
<1>5. DueInv'
  BY <1>1, <1>3 DEF IInv, DueInv, Pending, Offered
<1> QED
  BY <1>4, <1>5 DEF IInv

-----------------------------------------------------------------------------
(* What dvb_dmx_swfilter_section_copy_dump finds in the buffer. *)
LEMMA CutAt ==
    ASSUME NEW buf \in Seq(Unit), NEW a \in Nat, NEW n \in Nat, a + n <= Len(buf)
    PROVE  /\ SubSeq(buf, a + 1, a + n) \in Seq(Unit) /\ Len(SubSeq(buf, a + 1, a + n)) = n
           /\ \A k \in 1 .. n : SubSeq(buf, a + 1, a + n)[k] = buf[a + k]
<1> PICK c \in Nat, d \in Nat : c = a + 1 /\ d = a + n
  OBVIOUS
<1>1. \A k \in c .. d : buf[k] \in Unit
  BY ElementOfSeq, LenProperties
<1>2. /\ SubSeq(buf, c, d) \in Seq(Unit) /\ Len(SubSeq(buf, c, d)) = (IF c <= d THEN d - c + 1 ELSE 0)
      /\ \A k \in 1 .. d - c + 1 : SubSeq(buf, c, d)[k] = buf[c + k - 1]
  BY <1>1, SubSeqProperties
<1>3. ASSUME NEW k \in 1 .. n
      PROVE  SubSeq(buf, c, d)[k] = buf[a + k]
  <2>1. k \in 1 .. d - c + 1 /\ c + k - 1 = a + k
    OBVIOUS
  <2>2. SubSeq(buf, c, d)[k] = buf[c + k - 1]
    BY <1>2, <2>1
  <2> QED
    BY <2>1, <2>2
<1>4. (IF c <= d THEN d - c + 1 ELSE 0) = n
  OBVIOUS
<1> QED
  BY <1>2, <1>3, <1>4

LEMMA OfferIs ==
    ASSUME TypeOK, NEW i \in Ids, NEW n \in Nat \ {0}, SectionLength = n,
           feed.secbufp + n <= Len(feed.buf),
           \A k \in 1 .. n : feed.buf[feed.secbufp + k] = [id |-> i, off |-> k - 1, len |-> n]
    PROVE  Offer.id = i
<1> PICK a \in Nat, buf \in Seq(Unit), b \in Nat :
        a = feed.secbufp /\ buf = feed.buf /\ b = Len(buf) /\ a + n <= b
  BY LenProperties DEF TypeOK, FeedType
<1> DEFINE s == SubSeq(buf, a + 1, a + n)
<1>2. /\ s \in Seq(Unit) /\ Len(s) = n
      /\ \A k \in 1 .. n : s[k] = buf[a + k]
  <2>1. n \in Nat /\ a + n <= Len(buf)
    OBVIOUS
  <2> QED
    BY ONLY <2>1, buf \in Seq(Unit), a \in Nat, CutAt
<1> HIDE DEF s
<1>4. \A k \in 1 .. n : s[k] = [id |-> i, off |-> k - 1, len |-> n]
  BY <1>2
<1>5. s = Section(i, n)
  <2>1. Section(i, n) \in Seq(Unit) /\ Len(Section(i, n)) = n
    BY SectionUnits
  <2>2. \A k \in 1 .. Len(s) : s[k] = Section(i, n)[k]
    BY <1>2, <1>4, SectionAt
  <2> QED
    BY <1>2, <2>1, <2>2, SeqEqual
<1>6. s[1].id = i
  <2>1. 1 \in 1 .. n
    OBVIOUS
  <2>2. s[1] = [id |-> i, off |-> 1 - 1, len |-> n]
    BY <1>4, <2>1
  <2> QED
    BY <2>2
<1>7. Offer.id = IF s = Section(s[1].id, Len(s)) THEN s[1].id ELSE 0
  BY DEF Offer, s
<1> QED
  BY <1>2, <1>5, <1>6, <1>7

LEMMA OfferNone ==
    ASSUME TypeOK, Found, AllInner(feed.buf)
    PROVE  Offer.id = 0
<1> PICK a \in Nat, buf \in Seq(Unit), b \in Nat, n \in Nat \ {0} :
        a = feed.secbufp /\ buf = feed.buf /\ b = Len(buf) /\ n = SectionLength /\ a + n <= b
  BY FoundLength, LenProperties DEF TypeOK, FeedType
<1> DEFINE s == SubSeq(buf, a + 1, a + n)
<1>2. /\ s \in Seq(Unit) /\ Len(s) = n
      /\ \A k \in 1 .. n : s[k] = buf[a + k]
  <2>1. n \in Nat /\ a + n <= Len(buf)
    OBVIOUS
  <2> QED
    BY ONLY <2>1, buf \in Seq(Unit), a \in Nat, CutAt
<1> HIDE DEF s
<1>3. Len(s) = n /\ s[1] = buf[a + 1]
  <2>1. 1 \in 1 .. n
    OBVIOUS
  <2> QED
    BY <1>2, <2>1
<1>4. Inner(s[1])
  <2>1. a + 1 \in 1 .. Len(feed.buf)
    OBVIOUS
  <2> QED
    BY <1>3, <2>1 DEF AllInner
<1>5. s # Section(s[1].id, Len(s))
  <2> SUFFICES ASSUME s = Section(s[1].id, n)
               PROVE  FALSE
    BY <1>3
  <2>1. \A i : Section(i, n)[1] = [id |-> i, off |-> 1 - 1, len |-> n]
    BY SectionAt
  <2>2. s[1] = [id |-> s[1].id, off |-> 1 - 1, len |-> n]
    BY <2>1
  <2>3. s[1].off = 0 /\ s[1].len = n
    BY <2>2
  <2> QED
    BY <1>4, <2>3 DEF Inner
<1>6. Offer.id = IF s = Section(s[1].id, Len(s)) THEN s[1].id ELSE 0
  BY DEF Offer, s
<1> QED
  BY <1>5, <1>6

LEMMA FoundAt ==
    ASSUME TypeOK, TxInv, NEW id \in Nat, NEW m \in Nat, NEW n \in Nat, NEW rest, NEW last,
           Collects(rest, last, id, m, n)
    PROVE  /\ Found => \/ /\ feed.secbufp = 0 /\ m > 0 /\ SectionLength = m
                          /\ m <= Len(feed.buf) /\ Offer.id = id - 1
                       \/ /\ feed.secbufp = m /\ SectionLength = n
                          /\ m + n <= Len(feed.buf) /\ Offer.id = id
           /\ ~Found => /\ feed.secbufp < m => Len(feed.buf) < m
                        /\ feed.secbufp = m => Len(feed.buf) < m + n
<1> PICK a \in Nat, b \in Nat : a = feed.secbufp /\ b = Len(feed.buf)
  BY Numbers
<1>1. /\ \A k \in 1 .. b : feed.buf[k] = Sent(id, m, n, 0 + k)
      /\ id > 0 /\ n >= 2 /\ n <= MaxSection /\ MaxSection \in Nat
      /\ (m > 0 => m >= 2 /\ m <= MaxSection /\ id > 1)
      /\ a \in {0, m, m + n}
  BY AssemblerAssumption DEF Collects, Begun, Follows, Header
<1>2. Found <=> a + 2 <= b /\ SectionLength <= MaxSection /\ a + SectionLength <= b
  BY DEF Found, Header
<1>3. SectionLength = LET u == feed.buf[a + 2] IN
                      IF u = Pad THEN MaxSection + 1 ELSE IF u.off = 1 THEN u.len ELSE Bogus
  BY DEF SectionLength, Header
<1>4. \A k \in 1 .. b : feed.buf[k] \in Unit
  BY ElementOfSeq DEF TypeOK, FeedType
<1>5. CASE a = 0 /\ m > 0
  <2>1. ASSUME a + 2 <= b
        PROVE  SectionLength = m
    <3>1. a + 2 \in 1 .. b /\ 0 + (a + 2) = 2 /\ 2 <= m /\ 2 - 1 = 1
      BY <1>1, <1>5, <2>1
    <3>2. feed.buf[a + 2] = [id |-> id - 1, off |-> 2 - 1, len |-> m]
      BY <1>1, <3>1 DEF Sent
    <3>3. feed.buf[a + 2] # Pad /\ feed.buf[a + 2].off = 1 /\ feed.buf[a + 2].len = m
      BY <1>5, <3>1, <3>2 DEF Pad
    <3> QED
      BY <1>3, <3>3
  <2>2. ASSUME Found
        PROVE  SectionLength = m /\ m <= b /\ Offer.id = id - 1
    <3>1. SectionLength = m /\ m <= b
      BY <1>2, <1>5, <2>1, <2>2
    <3>2. \A k \in 1 .. m : feed.buf[a + k] = [id |-> id - 1, off |-> k - 1, len |-> m]
      <4> TAKE k \in 1 .. m
      <4>1. a + k \in 1 .. b /\ a + k = k /\ 0 + k = k /\ k <= m
        BY <1>5, <3>1
      <4> QED
        BY <1>1, <4>1 DEF Sent
    <3>3. id - 1 \in Ids
      <4>1. 1 \in 1 .. m /\ a + 1 \in 1 .. b
        BY <1>5, <3>1
      <4>2. feed.buf[a + 1] \in Unit
        BY <1>4, <4>1
      <4>3. feed.buf[a + 1] = [id |-> id - 1, off |-> 1 - 1, len |-> m]
        BY <3>2, <4>1
      <4> QED
        BY <4>2, <4>3 DEF Unit
    <3>4. m \in Nat \ {0} /\ a + m <= b
      BY <1>5, <3>1
    <3> QED
      BY <3>1, <3>2, <3>3, <3>4, OfferIs
  <2>3. ~Found => b < m
    BY <1>1, <1>2, <1>5, <2>1
  <2> QED
    BY <1>5, <2>2, <2>3
<1>6. CASE a = m
  <2>1. ASSUME a + 2 <= b
        PROVE  SectionLength = n
    <3>1. a + 2 \in 1 .. b /\ 0 + (a + 2) = m + 2 /\ ~(m + 2 <= m) /\ m + 2 <= m + n /\ m + 2 - m - 1 = 1
      BY <1>1, <1>6, <2>1
    <3>2. feed.buf[a + 2] = [id |-> id, off |-> m + 2 - m - 1, len |-> n]
      <4>1. feed.buf[a + 2] = Sent(id, m, n, m + 2)
        BY <1>1, <3>1
      <4> QED
        BY <3>1, <4>1 DEF Sent
    <3>3. feed.buf[a + 2] # Pad /\ feed.buf[a + 2].off = 1 /\ feed.buf[a + 2].len = n
      BY <1>1, <3>1, <3>2 DEF Pad
    <3> QED
      BY <1>3, <3>3
  <2>2. ASSUME Found
        PROVE  SectionLength = n /\ m + n <= b /\ Offer.id = id
    <3>1. SectionLength = n /\ m + n <= b
      BY <1>2, <1>6, <2>1, <2>2
    <3>2. \A k \in 1 .. n : feed.buf[a + k] = [id |-> id, off |-> k - 1, len |-> n]
      <4> TAKE k \in 1 .. n
      <4>1. a + k \in 1 .. b /\ 0 + (a + k) = m + k /\ ~(m + k <= m) /\ m + k <= m + n /\ m + k - m - 1 = k - 1
        BY <1>6, <3>1
      <4>2. feed.buf[a + k] = Sent(id, m, n, m + k)
        BY <1>1, <4>1
      <4> QED
        BY <4>1, <4>2 DEF Sent
    <3>3. id \in Ids
      <4>1. 1 \in 1 .. n /\ a + 1 \in 1 .. b
        BY <1>1, <1>6, <3>1
      <4>2. feed.buf[a + 1] \in Unit
        BY <1>4, <4>1
      <4>3. feed.buf[a + 1] = [id |-> id, off |-> 1 - 1, len |-> n]
        BY <3>2, <4>1
      <4> QED
        BY <4>2, <4>3 DEF Unit
    <3>4. n \in Nat \ {0} /\ a + n <= b
      BY <1>1, <1>6, <3>1
    <3> QED
      BY <3>1, <3>2, <3>3, <3>4, OfferIs
  <2>3. ~Found => b < m + n
    BY <1>1, <1>2, <1>6, <2>1
  <2> QED
    BY <1>6, <2>2, <2>3
<1>7. CASE a = m + n
  <2>1. ~Found
    <3> SUFFICES ASSUME Found PROVE FALSE
      OBVIOUS
    <3>1. a + 2 \in 1 .. b /\ 0 + (a + 2) = a + 2 /\ ~(a + 2 <= m) /\ ~(a + 2 <= m + n)
      BY <1>2, <1>7
    <3>2. feed.buf[a + 2] = Pad
      BY <1>1, <3>1 DEF Sent
    <3>3. SectionLength = MaxSection + 1
      BY <1>3, <3>2
    <3> QED
      BY <1>1, <1>2, <3>3
  <2> QED
    BY <1>1, <1>7, <2>1
<1> QED
  BY <1>1, <1>5, <1>6, <1>7

-----------------------------------------------------------------------------
(* Where sections end. *)
IsEnd(u, i) == u.id = i /\ u.len # 0 /\ u.off = u.len - 1

LEMMA EndedIs ==
    ASSUME NEW s, NEW i
    PROVE  i \in Ended(s) <=> \E k \in 1 .. Len(s) : IsEnd(s[k], i)
  BY DEF Ended, IsEnd

LEMMA EndedTail ==
    ASSUME NEW s \in Seq(Unit), NEW a \in Nat, a <= Len(s), NEW i
    PROVE  i \in Ended(SubSeq(s, a + 1, Len(s))) <=> \E q \in a + 1 .. Len(s) : IsEnd(s[q], i)
<1> PICK n \in Nat : a + n = Len(s)
  <2>1. Len(s) \in Nat /\ Len(s) - a \in Nat /\ a + (Len(s) - a) = Len(s)
    BY LenProperties
  <2> QED
    BY <2>1
<1>1. /\ Len(SubSeq(s, a + 1, a + n)) = n
      /\ \A k \in 1 .. n : SubSeq(s, a + 1, a + n)[k] = s[a + k]
  BY CutAt
<1>2. i \in Ended(SubSeq(s, a + 1, a + n)) <=> \E k \in 1 .. n : IsEnd(s[a + k], i)
  BY <1>1, EndedIs
<1>3. ASSUME NEW k \in 1 .. n, IsEnd(s[a + k], i)
      PROVE  \E q \in a + 1 .. a + n : IsEnd(s[q], i)
  <2>1. a + k \in a + 1 .. a + n
    OBVIOUS
  <2> QED
    BY <1>3, <2>1
<1>4. ASSUME NEW q \in a + 1 .. a + n, IsEnd(s[q], i)
      PROVE  \E k \in 1 .. n : IsEnd(s[a + k], i)
  <2>1. q - a \in 1 .. n /\ a + (q - a) = q
    OBVIOUS
  <2> QED
    BY <1>4, <2>1
<1>5. a + n = Len(s)
  OBVIOUS
<1> QED
  BY <1>2, <1>3, <1>4, <1>5

LEMMA EndsAt ==
    ASSUME NEW id \in Nat, NEW m \in Nat, NEW n \in Nat, NEW k \in Nat, NEW i, IsEnd(Sent(id, m, n, k), i)
    PROVE  (k = m /\ i = id - 1) \/ (k = m + n /\ i = id)
<1>1. CASE k <= m
  <2>1. Sent(id, m, n, k) = [id |-> id - 1, off |-> k - 1, len |-> m]
    BY <1>1 DEF Sent
  <2> QED
    BY <2>1 DEF IsEnd
<1>2. CASE ~(k <= m) /\ k <= m + n
  <2>1. Sent(id, m, n, k) = [id |-> id, off |-> k - m - 1, len |-> n]
    BY <1>2 DEF Sent
  <2> QED
    BY <2>1 DEF IsEnd
<1>3. CASE ~(k <= m) /\ ~(k <= m + n)
  BY <1>3 DEF Sent, IsEnd, Pad
<1> QED
  BY <1>1, <1>2, <1>3

LEMMA Cut ==
    ASSUME NEW b \in Nat, NEW l \in Nat, NEW c \in Nat, NEW m \in Nat, NEW n \in Nat, NEW o \in Nat,
           NEW f \in Nat, c <= l, c = l \/ b + c = f, m + n < f,
           IF o < n THEN b + l = m + o ELSE b + l >= m + n
    PROVE  IF o < n THEN b + c = m + o ELSE b + c >= m + n
<1>1. CASE o < n
  BY <1>1
<1>2. CASE ~(o < n)
  BY <1>2
<1> QED
  BY <1>1, <1>2

(* What the buffer has no room for is stuffing. *)
LEMMA Settles ==
    ASSUME TypeOK, TxInv, NEW id \in Nat, NEW m \in Nat, NEW n \in Nat, NEW rest \in Seq(Unit), NEW last,
           Collects(rest, last, id, m, n), NEW c \in Nat, c <= Len(rest),
           c = Len(rest) \/ Len(feed.buf) + c = SecFeedSize
    PROVE  /\ last => Reached(m, Len(feed.buf) + c)
           /\ \A k \in 1 .. Len(rest), i \in Ids : IsEnd(rest[k], i) => k <= c
<1> PICK b \in Nat, l \in Nat : b = Len(feed.buf) /\ l = Len(rest) /\ c <= l /\ (c = l \/ b + c = SecFeedSize)
  BY Numbers, LenProperties
<1>1. n \in Lengths /\ m + n < SecFeedSize /\ SecFeedSize \in Nat
  BY Sizes, AssemblerAssumption DEF Collects, Begun, SecFeedSize, Payload, Header
<1>2. ASSUME last
      PROVE  Reached(m, b + c)
  <2>1. n = tx.len /\ Reached(m, b + l)
    BY <1>2 DEF Collects
  <2> PICK o \in Nat : o = tx.off
    BY Numbers
  <2>2. IF o < n THEN b + l = m + o ELSE b + l >= m + n
    BY <2>1 DEF Reached
  <2>3. IF o < n THEN b + c = m + o ELSE b + c >= m + n
    BY <1>1, <2>2, Cut
  <2> QED
    BY <2>1, <2>3 DEF Reached
<1>3. ASSUME NEW k \in 1 .. l, NEW i \in Ids, IsEnd(rest[k], i)
      PROVE  k <= c
  <2>1. rest[k] = Sent(id, m, n, b + k)
    BY DEF Collects, Follows
  <2>2. b + k <= m + n
    <3>1. PICK q \in Nat : q = b + k
      OBVIOUS
    <3>2. IsEnd(Sent(id, m, n, q), i)
      BY <1>3, <2>1, <3>1
    <3>3. q = m \/ q = m + n
      BY <3>2, EndsAt
    <3> QED
      BY <3>1, <3>3
  <2> QED
    BY <1>1, <2>2
<1> QED
  BY <1>2, <1>3

-----------------------------------------------------------------------------
LEMMA StepEndChunk ==
    ASSUME IInv, TypeOK', EndChunk, job.pc # "idle", UNCHANGED <<tx, out, faults>>,
           feed.pusi_seen /\ log.synced => Collected(<<>>, job.next = <<>>),
           \A i \in log.due : ~Pending(i)
    PROVE  IInv'
<1>0. TypeOK /\ feed.filtering /\ feed.cc = tx.packet.cc
  BY DEF IInv, JobInv
<1>1. TxInv' /\ WholeOnceSynced'
  BY DEF IInv, TxInv, Follows, Reached, WholeOnceSynced
<1>2. Missed = 0 /\ Missed <= faults
  <2>1. Missed = 0
    BY <1>0, Counters
  <2>2. faults \in Nat
    BY <1>0, AssemblerAssumption DEF TypeOK
  <2> QED
    BY <2>1, <2>2
<1>3. CASE job.next = <<>> /\ job' = Idle /\ UNCHANGED <<feed, log>>
  <2>1. job'.pc = "idle" /\ job'.next = <<>>
    BY <1>3 DEF Idle
  <2>2. JobInv' /\ InnerInv' /\ IntactInv' /\ OrderInv'
    BY <1>3, <2>1 DEF IInv, JobInv, InnerInv, AllInner, IntactInv, OrderInv, Below
  <2>3. DueInv'
    BY <1>3, <2>1 DEF IInv, DueInv, Pending, Offered
  <2>4. StreamInv'
    <3>1. Missed' = 0 /\ Missed' <= faults'
      BY <1>2, <1>3 DEF Missed
    <3>2. feed.pusi_seen /\ log.synced => Collected(<<>>, TRUE)'
      <4> SUFFICES ASSUME feed.pusi_seen, log.synced
                   PROVE  Collected(<<>>, TRUE)'
        OBVIOUS
      <4>1. Collected(<<>>, job.next = <<>>)
        OBVIOUS
      <4> PICK id \in Nat, m \in Nat, n \in Nat : Collects(<<>>, job.next = <<>>, id, m, n)
        BY <4>1 DEF Collected
      <4>2. Collects(<<>>, TRUE, id, m, n)'
        BY <1>3 DEF Collects, Begun, Follows, Reached, Below
      <4> QED
        BY <4>2 DEF Collected
    <3>3. Missed' # 1
      BY <3>1
    <3> QED
      BY <1>3, <2>1, <3>1, <3>2, <3>3 DEF StreamInv
  <2> QED
    BY <1>1, <2>2, <2>3, <2>4 DEF IInv
<1>4. ASSUME job.next # <<>>, feed' = Renewed([feed EXCEPT !.pusi_seen = TRUE]),
             job' = [pc |-> "copy", chunk |-> Head(job.next), next |-> <<>>],
             log' = [log EXCEPT !.synced = TRUE]
      PROVE  IInv'
  <2>1. tx.packet.pusi /\ job.next = <<tx.packet.after>>
    BY <1>4 DEF IInv, JobInv
  <2>2. job'.pc = "copy" /\ job'.chunk = tx.packet.after /\ job'.next = <<>>
    BY <1>4, <2>1
  <2>3. /\ feed'.buf = <<>> /\ feed'.secbufp = 0 /\ feed'.pusi_seen = TRUE
        /\ feed'.cc = feed.cc /\ feed'.filtering = feed.filtering
    BY <1>0, <1>4 DEF Renewed, TypeOK, FeedType
  <2>4. /\ log'.synced = TRUE /\ log'.due = log.due /\ log'.repeated = log.repeated
        /\ log'.intact = log.intact
    BY <1>0, <1>4 DEF TypeOK, LogType
  <2>5. JobInv' /\ InnerInv' /\ IntactInv'
    BY <1>0, <2>2, <2>3, <2>4 DEF JobInv, InnerInv, IntactInv
  <2>6. OrderInv'
    BY <2>2, <2>4 DEF IInv, OrderInv, Below
  <2>7. DueInv'
    BY <1>4, <2>2, <2>3, <2>4 DEF IInv, DueInv, Pending, Offered
  <2>8. PICK m \in Nat : /\ Begun(tx.id, m, tx.len)
                         /\ Follows(tx.packet.after, 0, tx.id, m, tx.len)
                         /\ Reached(m, Len(tx.packet.after))
    BY <2>1 DEF IInv, TxInv
  <2> PICK id \in Nat, n \in Nat, l \in Nat : id = tx.id /\ n = tx.len /\ l = Len(tx.packet.after) /\ l > 0
    <3>1. tx.packet.after \in Seq(Unit)
      BY <1>0 DEF TypeOK, TxType, Packet
    <3>2. Len(tx.packet.after) \in Nat /\ Len(tx.packet.after) > 0
      BY <2>1, <3>1, LenProperties DEF IInv, TxInv
    <3>3. tx.id \in Nat /\ tx.len \in Nat
      BY <1>0, Numbers DEF IInv
    <3> QED
      BY <3>2, <3>3
  <2>9. id > 0 /\ n > 0
    BY <2>8, AssemblerAssumption DEF Begun, Header
  <2>10. Collects(tx.packet.after, TRUE, id, m, n)'
    <3>1. Begun(id, m, n)'
      BY <2>8 DEF Begun
    <3>2. Follows(feed.buf, 0, id, m, n)'
      BY <2>3 DEF Follows
    <3>3. Follows(tx.packet.after, Len(feed.buf), id, m, n)'
      BY <2>3, <2>8 DEF Follows
    <3>4. Reached(m, Len(feed.buf) + Len(tx.packet.after))'
      <4>1. Len(feed'.buf) + Len(tx'.packet.after) = l
        BY <2>3
      <4> QED
        BY <2>8, <4>1 DEF Reached
    <3>5. (log.repeated \/ Below(IF feed.secbufp < m THEN id - 1 ELSE IF feed.secbufp < m + n THEN id ELSE id + 1))'
      <4> SUFFICES ASSUME ~log.repeated
                   PROVE  Below(IF feed.secbufp < m THEN id - 1 ELSE IF feed.secbufp < m + n THEN id ELSE id + 1)'
        BY <2>4
      <4>1. Below(First)
        BY <1>4 DEF IInv, OrderInv
      <4>2. First = IF m = 0 THEN id ELSE id - 1
        <5>1. /\ id \in Nat \ {0} /\ n \in Nat \ {0} /\ Len(tx.packet.after) \in Nat \ {0}
              /\ Follows(tx.packet.after, 0, id, m, n)
          BY <2>8, <2>9
        <5> QED
          BY <5>1, BeginsFirst DEF First
      <4>3. (IF feed'.secbufp < m THEN id - 1 ELSE IF feed'.secbufp < m + n THEN id ELSE id + 1) = First
        BY <2>3, <2>9, <4>2
      <4> QED
        BY <4>1, <4>3 DEF Below
    <3> QED
      BY <2>3, <3>1, <3>2, <3>3, <3>4, <3>5 DEF Collects
  <2>11. StreamInv'
    <3>1. Missed' = 0 /\ Missed' <= faults'
      BY <1>2, <2>3 DEF Missed
    <3>2. Collected(job.chunk, job.next = <<>>)'
      <4>1. Collects(job.chunk, job.next = <<>>, id, m, n)'
        BY <2>2, <2>10 DEF Collects
      <4> QED
        BY <4>1 DEF Collected
    <3> QED
      BY <2>2, <3>1, <3>2 DEF StreamInv
  <2> QED
    BY <1>1, <2>5, <2>6, <2>7, <2>11 DEF IInv
<1> QED
  BY <1>3, <1>4 DEF EndChunk

LEMMA StepCopyNothing ==
    ASSUME IInv, TypeOK', CopyNothing
    PROVE  IInv'
<1>1. job.pc = "copy" /\ EndChunk /\ UNCHANGED <<tx, out, faults>> /\ TypeOK /\ TxInv
  BY DEF CopyNothing, IInv
<1>2. feed.filtering /\ job.chunk \in Seq(Unit) /\ Len(job.chunk) \in Nat
  BY <1>1, LenProperties DEF IInv, JobInv, TypeOK, JobType
<1>3. 0 = Len(job.chunk) \/ Len(feed.buf) + 0 = SecFeedSize
  <2>1. Len(feed.buf) \in Nat /\ SecFeedSize \in Nat
    BY <1>1, Numbers, Sizes
  <2>2. CASE Room = 0
    BY <2>1, <2>2 DEF Room
  <2>3. CASE job.chunk = <<>>
    BY <2>3
  <2> QED
    BY <2>2, <2>3 DEF CopyNothing
<1>4. ASSUME feed.pusi_seen, log.synced
      PROVE  /\ Collected(<<>>, job.next = <<>>)
             /\ \A i \in log.due : ~Pending(i)
  <2> PICK id \in Nat, m \in Nat, n \in Nat : Collects(job.chunk, job.next = <<>>, id, m, n)
    BY <1>1, <1>2, <1>4 DEF IInv, StreamInv, Collected
  <2>1. /\ job.next = <<>> => Reached(m, Len(feed.buf) + 0)
        /\ \A k \in 1 .. Len(job.chunk), i \in Ids : IsEnd(job.chunk[k], i) => k <= 0
    <3>1. 0 \in Nat /\ 0 <= Len(job.chunk)
      BY <1>2
    <3> QED
      BY <1>1, <1>2, <1>3, <3>1, Settles
  <2>2. Collects(<<>>, job.next = <<>>, id, m, n)
    <3>1. Len(<<>>) = 0
      OBVIOUS
    <3>2. Follows(<<>>, Len(feed.buf), id, m, n)
      BY <3>1 DEF Follows
    <3>3. job.next = <<>> => Reached(m, Len(feed.buf) + Len(<<>>))
      BY <2>1, <3>1
    <3> QED
      BY <3>2, <3>3 DEF Collects
  <2>3. \A i \in Ids : i \notin Ended(job.chunk)
    <3> SUFFICES ASSUME NEW i \in Ids, i \in Ended(job.chunk)
                 PROVE  FALSE
      OBVIOUS
    <3>1. PICK k \in 1 .. Len(job.chunk) : IsEnd(job.chunk[k], i)
      BY EndedIs
    <3>2. k <= 0
      BY <2>1, <3>1
    <3> QED
      BY <3>2
  <2>4. log.due \subseteq Ids
    BY <1>1 DEF TypeOK, LogType
  <2> QED
    BY <1>1, <2>2, <2>3, <2>4 DEF Collected, Pending
<1>5. \A i \in log.due : ~Pending(i)
  BY <1>4 DEF Pending
<1> QED
  BY <1>1, <1>4, <1>5, StepEndChunk

LEMMA StepDumpEnds ==
    ASSUME IInv, TypeOK', DumpEnds
    PROVE  IInv'
<1>1. /\ job.pc = "dump" /\ ~Found /\ EndChunk /\ UNCHANGED <<tx, out, faults>>
      /\ TypeOK /\ TxInv /\ feed.filtering
  BY DEF DumpEnds, IInv, JobInv
<1>2. feed.pusi_seen /\ log.synced => Collected(<<>>, job.next = <<>>)
  BY <1>1 DEF IInv, StreamInv
<1>3. ASSUME NEW i \in log.due, Pending(i)
      PROVE  FALSE
  <2>1. feed.pusi_seen /\ log.synced /\ i \in Ended(SubSeq(feed.buf, feed.secbufp + 1, Len(feed.buf)))
    BY <1>1, <1>3 DEF Pending
  <2> PICK id \in Nat, m \in Nat, n \in Nat : Collects(<<>>, job.next = <<>>, id, m, n)
    BY <1>2, <2>1 DEF Collected
  <2> PICK a \in Nat, b \in Nat : a = feed.secbufp /\ b = Len(feed.buf) /\ a <= b /\ feed.buf \in Seq(Unit)
    BY <1>1, Numbers DEF TypeOK, InBuffer
  <2>2. PICK q \in a + 1 .. b : IsEnd(feed.buf[q], i)
    BY <2>1, EndedTail
  <2>3. feed.buf[q] = Sent(id, m, n, 0 + q) /\ 0 + q = q /\ q \in Nat
    BY DEF Collects, Follows
  <2>4. q = m \/ q = m + n
    <3>1. IsEnd(Sent(id, m, n, q), i) /\ q \in Nat
      BY <2>2, <2>3
    <3> QED
      BY <3>1, EndsAt
  <2>5. (a < m => b < m) /\ (a = m => b < m + n)
    BY <1>1, FoundAt
  <2>6. a \in {0, m, m + n}
    BY DEF Collects
  <2> QED
    BY <2>4, <2>5, <2>6
<1> QED
  BY <1>1, <1>2, <1>3, StepEndChunk

LEMMA StepCopy ==
    ASSUME IInv, TypeOK', Copy
    PROVE  IInv'
<1>1. /\ job.pc = "copy" /\ UNCHANGED <<tx, out, log, faults>> /\ TypeOK /\ TxInv
      /\ feed.filtering /\ feed.cc = tx.packet.cc
  BY DEF Copy, IInv, JobInv
<1> PICK buf \in Seq(Unit), chunk \in Seq(Unit), a \in Nat, b \in Nat, l \in Nat, c \in Nat :
        /\ buf = feed.buf /\ chunk = job.chunk /\ a = feed.secbufp /\ a <= b
        /\ b = Len(buf) /\ l = Len(chunk) /\ c = Least(Room, Len(chunk))
        /\ c <= l /\ (c = l \/ b + c = SecFeedSize)
  <2>1. feed.buf \in Seq(Unit) /\ job.chunk \in Seq(Unit)
    BY <1>1 DEF TypeOK, FeedType, JobType
  <2> PICK b \in Nat, l \in Nat, f \in Nat, r \in Nat :
          b = Len(feed.buf) /\ l = Len(job.chunk) /\ f = SecFeedSize /\ r = Room /\ r = f - b
    <3>1. Len(feed.buf) \in Nat /\ Len(job.chunk) \in Nat /\ SecFeedSize \in Nat /\ Len(feed.buf) <= SecFeedSize
      BY <1>1, <2>1, LenProperties, Sizes DEF TypeOK, InBuffer
    <3> QED
      BY <3>1 DEF Room
  <2> PICK c \in Nat : c = Least(r, l) /\ c <= l /\ (c = l \/ c = r)
    BY DEF Least
  <2>2. b + c = f \/ c = l
    OBVIOUS
  <2>3. feed.secbufp \in Nat /\ feed.secbufp <= b
    BY <1>1, Numbers DEF TypeOK, InBuffer
  <2> QED
    BY <2>1, <2>2, <2>3
<1> DEFINE new == SubSeq(chunk, 1, c)
<1>2. new \in Seq(Unit) /\ Len(new) = c /\ \A k \in 1 .. c : new[k] = chunk[k]
  <2>1. 0 + 1 = 1 /\ 0 + c = c
    OBVIOUS
  <2>2. /\ SubSeq(chunk, 0 + 1, 0 + c) \in Seq(Unit) /\ Len(SubSeq(chunk, 0 + 1, 0 + c)) = c
        /\ \A k \in 1 .. c : SubSeq(chunk, 0 + 1, 0 + c)[k] = chunk[0 + k]
    <3>1. 0 \in Nat /\ 0 + c <= Len(chunk)
      OBVIOUS
    <3> QED
      BY <3>1, CutAt
  <2>3. \A k \in 1 .. c : 0 + k = k
    OBVIOUS
  <2> QED
    BY <2>1, <2>2, <2>3
<1>20. new = SubSeq(job.chunk, 1, Least(Room, Len(job.chunk)))
  OBVIOUS
<1> HIDE DEF new
<1>3. /\ buf \o new \in Seq(Unit) /\ Len(buf \o new) = b + c
      /\ \A k \in 1 .. b + c : (buf \o new)[k] = IF k <= b THEN buf[k] ELSE chunk[k - b]
  <2>1. /\ buf \o new \in Seq(Unit) /\ Len(buf \o new) = Len(buf) + Len(new)
        /\ \A k \in 1 .. Len(buf) + Len(new) : (buf \o new)[k] = IF k <= Len(buf) THEN buf[k] ELSE new[k - Len(buf)]
    <3>1. new \in Seq(Unit)
      BY <1>2
    <3> QED
      BY <3>1, ConcatProperties
  <2>2. \A k \in 1 .. b + c : ~(k <= b) => k - b \in 1 .. c
    OBVIOUS
  <2> QED
    BY <1>2, <2>1, <2>2
<1>4. /\ feed'.buf = buf \o new /\ feed'.secbufp = a /\ feed'.cc = feed.cc
      /\ feed'.filtering = feed.filtering /\ feed'.pusi_seen = feed.pusi_seen
  BY <1>1, <1>20 DEF Copy, TypeOK, FeedType
<1>5. job'.pc = "dump" /\ job'.next = job.next
  BY <1>1 DEF Copy, TypeOK, JobType
<1>6. TxInv' /\ JobInv' /\ IntactInv' /\ OrderInv' /\ WholeOnceSynced'
  BY <1>1, <1>4, <1>5 DEF IInv, TxInv, Follows, Reached, JobInv, IntactInv, OrderInv, Below, First, WholeOnceSynced
<1>7. InnerInv'
  <2> SUFFICES ASSUME ~log.synced, NEW k \in 1 .. b + c
               PROVE  Inner((buf \o new)[k])
    BY <1>1, <1>3, <1>4, <1>5 DEF InnerInv, AllInner
  <2>1. AllInner(buf) /\ AllInner(chunk)
    BY <1>1 DEF IInv, InnerInv
  <2>2. CASE k <= b
    BY <1>3, <2>1, <2>2 DEF AllInner
  <2>3. CASE ~(k <= b)
    <3>1. k - b \in 1 .. l
      BY <2>3
    <3> QED
      BY <1>3, <2>1, <2>3, <3>1 DEF AllInner
  <2> QED
    BY <2>2, <2>3
<1>8. ASSUME feed.pusi_seen, log.synced
      PROVE  /\ Collected(<<>>, job.next = <<>>)'
             /\ \A i \in log.due : Pending(i) => Pending(i)'
  <2> PICK id \in Nat, m \in Nat, n \in Nat : Collects(chunk, job.next = <<>>, id, m, n)
    BY <1>1, <1>8 DEF IInv, StreamInv, Collected
  <2>1. /\ job.next = <<>> => Reached(m, b + c)
        /\ \A k \in 1 .. l, i \in Ids : IsEnd(chunk[k], i) => k <= c
    <3>1. /\ c <= Len(chunk) /\ (c = Len(chunk) \/ Len(feed.buf) + c = SecFeedSize)
          /\ Len(feed.buf) = b /\ Len(chunk) = l
      OBVIOUS
    <3>2. /\ job.next = <<>> => Reached(m, Len(feed.buf) + c)
          /\ \A k \in 1 .. Len(chunk), i \in Ids : IsEnd(chunk[k], i) => k <= c
      BY ONLY <1>1, <3>1, id \in Nat, m \in Nat, n \in Nat, c \in Nat, chunk \in Seq(Unit),
              Collects(chunk, job.next = <<>>, id, m, n), Settles
    <3> QED
      BY ONLY <3>1, <3>2
  <2>2. /\ \A k \in 1 .. b : buf[k] = Sent(id, m, n, 0 + k)
        /\ \A k \in 1 .. l : chunk[k] = Sent(id, m, n, b + k)
    BY DEF Collects, Follows
  <2>3. \A k \in 1 .. b + c : (buf \o new)[k] = Sent(id, m, n, 0 + k)
    <3> TAKE k \in 1 .. b + c
    <3>1. CASE k <= b
      BY <1>3, <2>2, <3>1
    <3>2. CASE ~(k <= b)
      <4>1. k - b \in 1 .. l /\ b + (k - b) = 0 + k
        BY <3>2
      <4>2. chunk[k - b] = Sent(id, m, n, b + (k - b))
        BY <2>2, <4>1
      <4> QED
        BY <1>3, <3>2, <4>1, <4>2
    <3> QED
      BY <3>1, <3>2
  <2>4. Collects(<<>>, job.next = <<>>, id, m, n)'
    <3>1. Follows(feed.buf, 0, id, m, n)'
      BY <1>3, <1>4, <2>3 DEF Follows
    <3>2. Follows(<<>>, Len(feed.buf), id, m, n)'
      BY DEF Follows
    <3>3. Len(feed'.buf) + Len(<<>>) = b + c
      BY <1>3, <1>4
    <3>4. (IF job.next = <<>> THEN id = tx.id /\ n = tx.len /\ Reached(m, Len(feed.buf) + Len(<<>>))
                              ELSE id < First)'
      BY <1>1, <1>5, <2>1, <3>3 DEF Collects, Reached, First
    <3> QED
      BY <1>1, <1>4, <3>1, <3>2, <3>4 DEF Collects, Begun, Below
  <2>5. ASSUME NEW i \in log.due, Pending(i)
        PROVE  Pending(i)'
    <3>1. PICK k \in 1 .. l : IsEnd(chunk[k], i)
      BY <1>1, <2>5, EndedIs DEF Pending
    <3>2. k <= c
      <4>1. i \in Ids
        BY <1>1 DEF TypeOK, LogType
      <4> QED
        BY <2>1, <3>1, <4>1
    <3>3. b + k \in a + 1 .. b + c /\ b + k \in 1 .. b + c /\ ~(b + k <= b) /\ b + k - b = k
      <4>1. k \in Nat /\ k >= 1 /\ k <= c /\ a <= b
        BY <3>2
      <4> QED
        BY <4>1
    <3>4. IsEnd((buf \o new)[b + k], i)
      <4>1. PICK q \in 1 .. b + c : q = b + k /\ ~(q <= b) /\ q - b = k
        BY <3>3
      <4>2. (buf \o new)[q] = chunk[q - b]
        BY <1>3, <4>1
      <4> QED
        BY <3>1, <4>1, <4>2
    <3>5. i \in Ended(SubSeq(buf \o new, a + 1, Len(buf \o new)))
      <4>1. a <= Len(buf \o new)
        BY <1>3
      <4>2. \E q \in a + 1 .. Len(buf \o new) : IsEnd((buf \o new)[q], i)
        BY <1>3, <3>3, <3>4
      <4> QED
        BY <1>3, <4>1, <4>2, EndedTail
    <3> QED
      BY <1>1, <1>4, <1>5, <1>8, <3>5 DEF Pending
  <2> QED
    BY <2>4, <2>5 DEF Collected
<1>9. StreamInv'
  <2>1. log.synced => Missed' <= faults'
    BY <1>1, <1>4 DEF IInv, StreamInv, Missed
  <2> QED
    BY <1>1, <1>4, <1>5, <1>8, <2>1 DEF StreamInv
<1>10. DueInv'
  <2> SUFFICES ASSUME NEW i \in log.due
               PROVE  \/ Offered(i)
                      \/ job.next # <<>> /\ i \in Ended(tx.packet.after)
                      \/ Pending(i)'
    BY <1>1, <1>5 DEF DueInv, Offered
  <2>1. Pending(i) => Pending(i)'
    BY <1>8 DEF Pending
  <2> QED
    BY <2>1 DEF IInv, DueInv
<1> QED
  BY <1>6, <1>7, <1>9, <1>10 DEF IInv

-----------------------------------------------------------------------------
(* A section more is offered. *)
LEMMA Appended ==
    ASSUME TypeOK, NEW x \in OutType, out' = Append(out, x)
    PROVE  /\ Len(out') = Len(out) + 1 /\ Len(out) \in Nat
           /\ \A k \in 1 .. Len(out) : out'[k] = out[k] /\ out[k] \in OutType
           /\ out'[Len(out) + 1] = x
<1>1. out \in Seq(OutType)
  BY DEF TypeOK
<1> QED
  BY <1>1, AppendProperties, ElementOfSeq, LenProperties

LEMMA StillBelow ==
    ASSUME TypeOK, NEW x \in OutType, out' = Append(out, x), NEW y \in Int, NEW z \in Int,
           Below(y), y <= z, x.id < z
    PROVE  \A k \in 1 .. Len(out') : out'[k].id < z
<1> PICK l \in Nat : l = Len(out) /\ Len(out') = l + 1 /\ out'[l + 1] = x
  BY Appended
<1> TAKE k \in 1 .. l + 1
<1>1. CASE k = l + 1
  BY <1>1
<1>2. CASE k \in 1 .. l
  <2>1. out'[k].id = out[k].id /\ out[k].id < y /\ out[k].id \in Int
    BY <1>2, Appended, AssemblerAssumption DEF Below, OutType, Ids
  <2> QED
    BY <2>1
<1> QED
  BY <1>1, <1>2

LEMMA StillSorted ==
    ASSUME TypeOK, NEW x \in OutType, out' = Append(out, x),
           \A i, j \in 1 .. Len(out) : i < j /\ out[i].id # 0 /\ out[j].id # 0 => out[i].id < out[j].id,
           x.id # 0 => Below(x.id)
    PROVE  \A i, j \in 1 .. Len(out') : i < j /\ out'[i].id # 0 /\ out'[j].id # 0 => out'[i].id < out'[j].id
<1> PICK l \in Nat : l = Len(out) /\ Len(out') = l + 1 /\ out'[l + 1] = x
  BY Appended
<1> SUFFICES ASSUME NEW i \in 1 .. l + 1, NEW j \in 1 .. l + 1, i < j, out'[i].id # 0, out'[j].id # 0
             PROVE  out'[i].id < out'[j].id
  OBVIOUS
<1>1. i \in 1 .. l /\ out'[i] = out[i]
  BY Appended
<1>2. CASE j = l + 1
  BY <1>1, <1>2 DEF Below
<1>3. CASE j \in 1 .. l
  BY <1>1, <1>3, Appended
<1> QED
  BY <1>2, <1>3

LEMMA StepDump ==
    ASSUME IInv, TypeOK', Dump
    PROVE  IInv'
<1>1. /\ job.pc = "dump" /\ Found /\ UNCHANGED <<tx, job, log, faults>> /\ TypeOK /\ TxInv
      /\ feed.filtering /\ feed.cc = tx.packet.cc
  BY DEF Dump, IInv, JobInv
<1>2. /\ feed'.buf = feed.buf /\ feed'.secbufp = feed.secbufp + SectionLength /\ feed'.cc = feed.cc
      /\ feed'.filtering = feed.filtering /\ feed'.pusi_seen = feed.pusi_seen
  BY <1>1 DEF Dump, TypeOK, FeedType
<1>3. TxInv' /\ JobInv' /\ InnerInv' /\ IntactInv'
  BY <1>1, <1>2 DEF IInv, TxInv, Follows, Reached, JobInv, InnerInv, AllInner, IntactInv
<1>4. log.synced => Missed' <= faults'
  BY <1>1, <1>2 DEF IInv, StreamInv, Missed
<1>5. CASE ~feed.pusi_seen
  <2>1. out' = out
    BY <1>5 DEF Dump
  <2>2. StreamInv'
    BY <1>1, <1>2, <1>4, <1>5 DEF StreamInv
  <2>3. OrderInv' /\ WholeOnceSynced' /\ DueInv'
    BY <1>1, <1>2, <1>5, <2>1 DEF IInv, OrderInv, Below, First, WholeOnceSynced, DueInv, Pending, Offered
  <2> QED
    BY <1>3, <2>2, <2>3 DEF IInv
<1>6. CASE feed.pusi_seen
  <2> PICK x \in OutType : x = Offer /\ x.synced = log.synced /\ out' = Append(out, x)
    BY <1>1, <1>6, OfferTypes DEF Dump, Offer
  <2>1. x.id \in Nat /\ tx.id \in Nat
    BY <1>1, Numbers, AssemblerAssumption DEF OutType, Ids
  <2>2. job.next # <<>> => First \in Nat \ {0} /\ First <= tx.id
    <3> SUFFICES ASSUME job.next # <<>>
                 PROVE  First \in Nat \ {0} /\ First <= tx.id
      OBVIOUS
    <3>1. tx.packet.pusi
      BY <1>1 DEF IInv, JobInv
    <3>2. PICK m \in Nat : Begun(tx.id, m, tx.len) /\ Follows(tx.packet.after, 0, tx.id, m, tx.len)
      BY <1>1, <3>1 DEF TxInv
    <3>3. Len(tx.packet.after) \in Nat \ {0}
      <4>1. tx.packet.after \in Seq(Unit)
        BY <1>1 DEF TypeOK, TxType, Packet
      <4> QED
        BY <1>1, <3>1, <4>1, LenProperties DEF TxInv
    <3> PICK i \in Nat, n \in Nat : i = tx.id /\ n = tx.len
      BY <1>1, Numbers
    <3>5. i > 0 /\ n > 0 /\ (m # 0 => i > 1)
      BY <3>2, AssemblerAssumption DEF Begun, Header
    <3>6. /\ i \in Nat \ {0} /\ n \in Nat \ {0} /\ Len(tx.packet.after) \in Nat \ {0}
          /\ Follows(tx.packet.after, 0, i, m, n)
      BY <3>2, <3>3, <3>5
    <3>4. First = IF m = 0 THEN i ELSE i - 1
      BY <3>6, BeginsFirst DEF First
    <3> QED
      BY <3>4, <3>5
  <2>3. CASE ~log.synced
    <3>1. x.id = 0
      BY <1>1, <2>3, OfferNone DEF IInv, InnerInv
    <3>2. StreamInv'
      BY <1>1, <2>3 DEF StreamInv
    <3>3. OrderInv'
      <4> SUFFICES ASSUME ~log.repeated
                   PROVE  OrderInv'
        BY <1>1 DEF OrderInv
      <4>1. /\ \A i, j \in 1 .. Len(out) : i < j /\ out[i].id # 0 /\ out[j].id # 0 => out[i].id < out[j].id
            /\ Below(tx.id + 1) /\ (job.next # <<>> => Below(First))
        BY DEF IInv, OrderInv
      <4>2. \A i, j \in 1 .. Len(out') : i < j /\ out'[i].id # 0 /\ out'[j].id # 0 => out'[i].id < out'[j].id
        BY <1>1, <3>1, <4>1, StillSorted
      <4>3. \A k \in 1 .. Len(out') : out'[k].id < tx.id + 1
        <5>1. tx.id + 1 \in Int /\ tx.id + 1 <= tx.id + 1 /\ x.id < tx.id + 1
          BY <2>1, <3>1
        <5> QED
          BY <1>1, <4>1, <5>1, StillBelow
      <4>4. job.next # <<>> => \A k \in 1 .. Len(out') : out'[k].id < First
        <5> SUFFICES ASSUME job.next # <<>>
                     PROVE  \A k \in 1 .. Len(out') : out'[k].id < First
          OBVIOUS
        <5>1. First \in Int /\ First <= First /\ x.id < First
          BY <2>2, <3>1
        <5> QED
          BY <1>1, <4>1, <5>1, StillBelow
      <4> QED
        BY <1>1, <4>2, <4>3, <4>4 DEF OrderInv, Below, First
    <3>4. WholeOnceSynced'
      <4> SUFFICES ASSUME NEW k \in 1 .. Len(out'), out'[k].synced
                   PROVE  out'[k].id # 0
        BY DEF WholeOnceSynced
      <4>1. k \in 1 .. Len(out) /\ out'[k] = out[k]
        BY <1>1, <2>3, Appended
      <4> QED
        BY <4>1 DEF IInv, WholeOnceSynced
    <3>5. DueInv'
      <4> SUFFICES ASSUME NEW i \in log.due
                   PROVE  Offered(i)' \/ (job.next # <<>> /\ i \in Ended(tx.packet.after))
        BY <1>1 DEF DueInv
      <4>1. ASSUME Offered(i)
            PROVE  Offered(i)'
        <5>1. PICK k \in 1 .. Len(out) : out[k].id = i
          BY <4>1 DEF Offered
        <5>2. k \in 1 .. Len(out') /\ out'[k].id = i
          BY <1>1, <5>1, Appended
        <5> QED
          BY <5>2 DEF Offered
      <4> QED
        BY <2>3, <4>1 DEF IInv, DueInv, Pending
    <3> QED
      BY <1>3, <3>2, <3>3, <3>4, <3>5 DEF IInv
  <2>4. CASE log.synced
    <3>1. Collected(<<>>, job.next = <<>>)
      BY <1>1, <1>6, <2>4 DEF IInv, StreamInv
    <3> PICK id \in Nat, m \in Nat, n \in Nat : Collects(<<>>, job.next = <<>>, id, m, n)
      BY <3>1 DEF Collected
    <3> PICK a \in Nat, b \in Nat, d \in Nat :
            a = feed.secbufp /\ b = Len(feed.buf) /\ d = SectionLength /\ a <= b /\ feed.buf \in Seq(Unit)
      BY <1>1, FoundLength, Numbers DEF TypeOK, InBuffer
    <3>2. /\ id > 0 /\ n > 0 /\ (m > 0 => id > 1)
      BY AssemblerAssumption DEF Collects, Begun, Header
    <3>3. \/ a = 0 /\ m > 0 /\ d = m /\ m <= b /\ x.id = id - 1
          \/ a = m /\ d = n /\ m + n <= b /\ x.id = id
      BY <1>1, FoundAt
    <3>4. feed'.secbufp = a + d /\ a + d \in {m, m + n} /\ x.id > 0 /\ x.id <= id
      BY <1>2, <3>2, <3>3
    <3>5. IF job.next = <<>> THEN id = tx.id ELSE id < First
      BY DEF Collects
    <3> PICK y \in Nat : y = x.id
      BY <2>1
    <3>6. (IF a < m THEN id - 1 ELSE IF a < m + n THEN id ELSE id + 1) = y
      BY <3>2, <3>3
    <3>7. (IF a + d < m THEN id - 1 ELSE IF a + d < m + n THEN id ELSE id + 1) = y + 1
      <4>1. CASE a = 0 /\ m > 0 /\ d = m /\ y = id - 1
        BY <3>2, <4>1
      <4>2. CASE a = m /\ d = n /\ y = id
        BY <3>2, <4>2
      <4> QED
        BY <3>3, <4>1, <4>2
    <3>8. log.repeated \/ Below(x.id)
      BY <3>6 DEF Collects
    <3>9. log.repeated \/ \A k \in 1 .. Len(out') : out'[k].id < x.id + 1
      <4> SUFFICES ASSUME ~log.repeated
                   PROVE  \A k \in 1 .. Len(out') : out'[k].id < x.id + 1
        OBVIOUS
      <4>1. x.id \in Int /\ x.id + 1 \in Int /\ x.id <= x.id + 1 /\ x.id < x.id + 1
        BY <2>1
      <4> QED
        BY <1>1, <3>8, <4>1, StillBelow
    <3>10. StreamInv'
      <4>1. Collects(<<>>, job.next = <<>>, id, m, n)'
        <5>1. (log.repeated \/ Below(IF feed.secbufp < m THEN id - 1 ELSE IF feed.secbufp < m + n THEN id ELSE id + 1))'
          <6>1. (IF feed'.secbufp < m THEN id - 1 ELSE IF feed'.secbufp < m + n THEN id ELSE id + 1) = x.id + 1
            BY <3>4, <3>7
          <6> QED
            BY <1>1, <3>9, <6>1 DEF Below
        <5>2. feed'.secbufp \in {0, m, m + n}
          BY <3>4
        <5> QED
          BY <1>1, <1>2, <5>1, <5>2 DEF Collects, Begun, Follows, Reached, First
      <4> QED
        BY <1>1, <1>2, <1>4, <4>1 DEF StreamInv, Collected
    <3>11. OrderInv'
      <4> SUFFICES ASSUME ~log.repeated
                   PROVE  OrderInv'
        BY <1>1 DEF OrderInv
      <4>1. /\ \A i, j \in 1 .. Len(out) : i < j /\ out[i].id # 0 /\ out[j].id # 0 => out[i].id < out[j].id
            /\ Below(tx.id + 1) /\ (job.next # <<>> => Below(First))
        BY DEF IInv, OrderInv
      <4>2. \A i, j \in 1 .. Len(out') : i < j /\ out'[i].id # 0 /\ out'[j].id # 0 => out'[i].id < out'[j].id
        BY <1>1, <3>8, <4>1, StillSorted
      <4>3. \A k \in 1 .. Len(out') : out'[k].id < tx.id + 1
        <5>1. tx.id + 1 \in Int /\ tx.id + 1 <= tx.id + 1 /\ x.id < tx.id + 1
          BY <2>1, <2>2, <3>4, <3>5
        <5> QED
          BY <1>1, <4>1, <5>1, StillBelow
      <4>4. job.next # <<>> => \A k \in 1 .. Len(out') : out'[k].id < First
        <5> SUFFICES ASSUME job.next # <<>>
                     PROVE  \A k \in 1 .. Len(out') : out'[k].id < First
          OBVIOUS
        <5>1. First \in Int /\ First <= First /\ x.id < First
          BY <2>1, <2>2, <3>4, <3>5
        <5> QED
          BY <1>1, <4>1, <5>1, StillBelow
      <4> QED
        BY <1>1, <4>2, <4>3, <4>4 DEF OrderInv, Below, First
    <3>12. WholeOnceSynced'
      <4> SUFFICES ASSUME NEW k \in 1 .. Len(out'), out'[k].synced
                   PROVE  out'[k].id # 0
        BY DEF WholeOnceSynced
      <4>1. CASE k \in 1 .. Len(out)
        BY <1>1, <4>1, Appended DEF IInv, WholeOnceSynced
      <4>2. CASE ~(k \in 1 .. Len(out))
        <5>1. out'[k] = x
          BY <1>1, <4>2, Appended
        <5> QED
          BY <3>4, <5>1
      <4> QED
        BY <4>1, <4>2
    <3>13. DueInv'
      <4> SUFFICES ASSUME NEW i \in log.due
                   PROVE  \/ Offered(i)'
                          \/ job.next # <<>> /\ i \in Ended(tx.packet.after)
                          \/ Pending(i)'
        BY <1>1 DEF DueInv
      <4>1. ASSUME Offered(i)
            PROVE  Offered(i)'
        <5>1. PICK k \in 1 .. Len(out) : out[k].id = i
          BY <4>1 DEF Offered
        <5>2. k \in 1 .. Len(out') /\ out'[k].id = i
          BY <1>1, <5>1, Appended
        <5> QED
          BY <5>2 DEF Offered
      <4>2. Offered(x.id)'
        <5>1. Len(out) + 1 \in 1 .. Len(out') /\ out'[Len(out) + 1].id = x.id
          BY <1>1, Appended
        <5> QED
          BY <5>1 DEF Offered
      <4>3. ASSUME Pending(i)
            PROVE  Offered(i)' \/ Pending(i)'
        <5>1. i \in Ended(SubSeq(feed.buf, a + 1, Len(feed.buf)))
          BY <1>1, <4>3 DEF Pending
        <5>2. PICK q \in a + 1 .. b : IsEnd(feed.buf[q], i)
          BY <5>1, EndedTail
        <5>3. feed.buf[q] = Sent(id, m, n, 0 + q) /\ 0 + q = q /\ q \in Nat
          BY DEF Collects, Follows
        <5>4. (q = m /\ i = id - 1) \/ (q = m + n /\ i = id)
          <6>1. IsEnd(Sent(id, m, n, q), i) /\ q \in Nat
            BY <5>2, <5>3
          <6> QED
            BY <6>1, EndsAt
        <5>5. CASE i = x.id
          BY <4>2, <5>5
        <5>6. CASE i # x.id
          <6>1. q \in a + d + 1 .. b /\ a + d <= b /\ a + d \in Nat
            BY <3>2, <3>3, <5>4, <5>6
          <6>2. i \in Ended(SubSeq(feed.buf, a + d + 1, Len(feed.buf)))
            BY <5>2, <6>1, EndedTail
          <6> QED
            BY <1>1, <1>2, <1>6, <2>4, <3>4, <6>2 DEF Pending
        <5> QED
          BY <5>5, <5>6
      <4> QED
        BY <4>1, <4>3 DEF IInv, DueInv
    <3> QED
      BY <1>3, <3>10, <3>11, <3>12, <3>13 DEF IInv
  <2> QED
    BY <2>3, <2>4
<1> QED
  BY <1>5, <1>6

-----------------------------------------------------------------------------
LEMMA IInvInit == Init => IInv
<1> SUFFICES ASSUME Init PROVE IInv
  OBVIOUS
<1>1. TypeOK
  BY TypesInit
<1>2. TxInv /\ JobInv /\ StreamInv /\ InnerInv /\ IntactInv
  BY DEF Init, TxInv, JobInv, StreamInv, InnerInv, IntactInv, AllInner, NoPacket, Idle
<1>3. Len(out) = 0 /\ log.due = {} /\ job.next = <<>>
  BY DEF Init, Idle
<1>4. OrderInv /\ DueInv /\ WholeOnceSynced
  BY <1>3 DEF OrderInv, Below, DueInv, WholeOnceSynced
<1> QED
  BY <1>1, <1>2, <1>4 DEF IInv

LEMMA IInvStep ==
    ASSUME IInv, [Next]_vars
    PROVE  IInv'
<1>1. TypeOK'
  BY TypesPreserved DEF IInv
<1>2. CASE UNCHANGED vars
  <2>1. TxInv' /\ JobInv' /\ InnerInv' /\ IntactInv'
    BY <1>2 DEF vars, IInv, TxInv, JobInv, InnerInv, AllInner, IntactInv, Follows, Reached
  <2>3. StreamInv'
    <3>1. /\ Missed' = Missed
          /\ Collected(<<>>, TRUE)' <=> Collected(<<>>, TRUE)
          /\ Collected(tx.packet.before, ~tx.packet.pusi)' <=> Collected(tx.packet.before, ~tx.packet.pusi)
          /\ Collected(job.chunk, job.next = <<>>)' <=> Collected(job.chunk, job.next = <<>>)
          /\ Collected(<<>>, job.next = <<>>)' <=> Collected(<<>>, job.next = <<>>)
      BY <1>2 DEF vars, Missed, Reached, Collected, Collects, Below, First
    <3> QED
      BY <1>2, <3>1, Zenon DEF vars, IInv, StreamInv
  <2>2. OrderInv' /\ DueInv' /\ WholeOnceSynced'
    BY <1>2 DEF vars, IInv, OrderInv, Below, First, DueInv, Pending, Offered, WholeOnceSynced
  <2> QED
    BY <1>1, <2>1, <2>2, <2>3 DEF IInv
<1> QED
  BY <1>1, <1>2, StepReceive, StepLose, StepReceiveAgain, StepReceiveEmpty, StepCopyNothing, StepCopy,
     StepDump, StepDumpEnds, StepStart, StepStop DEF Next

LEMMA Assembled == Spec => []IInv
<1>1. Init => IInv
  BY IInvInit
<1>2. IInv /\ [Next]_vars => IInv'
  BY IInvStep
<1> QED
  BY <1>1, <1>2, PTL DEF Spec

(* Once a PUSI packet has been seen since dmx_section_feed_start_filtering, every section
   dvb_dmx_swfilter_section_feed offers to a filter is one the multiplexer sent, from its
   first byte to its last, whatever packets are lost, repeated or empty. *)
THEOREM OnlyWholeSections == Spec => []WholeOnceSynced
<1>1. IInv => WholeOnceSynced
  BY DEF IInv
<1> QED
  BY <1>1, Assembled, PTL

(* dvb_dmx_swfilter_section_copy_dump offers every section whose packets all came, in
   their order, wherever in its packets it starts and ends, and whatever came before. *)
THEOREM NoIntactSectionMissed == Spec => []NoneMissed
<1>1. IInv => NoneMissed
  <2> SUFFICES ASSUME IInv, job.pc = "idle", NEW i \in log.due
               PROVE  Offered(i)
    BY DEF NoneMissed, Offered
  <2>1. job.next = <<>> /\ ~Pending(i)
    BY DEF IInv, JobInv, Pending
  <2> QED
    BY <2>1 DEF IInv, DueInv
<1> QED
  BY <1>1, Assembled, PTL

(* Sections are offered in the order they were sent in and none twice, as long as no
   packet comes twice and none without payload resets secbufp. *)
THEOREM SectionsComeInOrder == Spec => []OnceInOrder
<1>1. IInv => OnceInOrder
  BY DEF IInv, OrderInv, OnceInOrder
<1> QED
  BY <1>1, Assembled, PTL
=============================================================================
