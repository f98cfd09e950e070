---------------------------- MODULE SectionAssembler ----------------------------
(***************************************************************************)
(* How one section feed of media/3.19/dvb-core/dvb_demux.c puts sections   *)
(* together from the payloads of transport stream packets.                 *)
(*                                                                         *)
(* The multiplexer (external) cuts a stream of numbered sections into      *)
(* packets that count up a continuity counter; packets get lost, come      *)
(* twice, announce a discontinuity or carry no payload.  The feed collects *)
(* payloads in secbuf_base, resynchronises on packets in which a section   *)
(* starts (PUSI), and offers the sections it finds to its filters.  A      *)
(* packet is handled under demux->lock: job is the call in progress, one   *)
(* action per pass of its loop, and start and stop wait for its end.       *)
(*                                                                         *)
(* A byte is a unit that knows the section it is of and its place in it.   *)
(* Of a section's three header bytes two units are kept, the second of     *)
(* which has the length.  A unit that is no header reads as one length.    *)
(* The CRC check, with which a filter may refuse a section, is left out.   *)
(*                                                                         *)
(* A definition whose name ends in _broken is a plausible bug in the one   *)
(* that follows it, which the specification does not use.                  *)
(***************************************************************************)
EXTENDS Integers, Sequences

CONSTANTS
    PacketSize,   \* a packet: one unit of header, one of pointer if a section starts
    MaxSection,   \* DMX_MAX_SECTION_SIZE
    Lengths,      \* of the sections sent
    Bogus,        \* a length that other units read as
    CCs,          \* continuity counter values
    MaxSections,  \* bound: sections sent
    MaxFaults     \* bound: faults of the channel, and stops of the feed

Header == 2

ASSUME AssemblerAssumption ==
    /\ PacketSize \in Nat /\ PacketSize > 3
    /\ MaxSection \in Nat /\ Lengths \subseteq Header .. MaxSection
    /\ Bogus \in Nat /\ Bogus >= Header
    /\ CCs \in Nat /\ CCs > 1
    /\ MaxSections \in Nat /\ MaxFaults \in Nat /\ MaxFaults < CCs

VARIABLES
    tx,     \* the multiplexer: section begun last, units of it sent, packet sent last
    feed,   \* struct dvb_demux_feed; secbuf_base is buf, up to tsfeedp
    job,    \* dvb_dmx_swfilter_section_packet in progress
    out,    \* history: what the filters were offered
    log,    \* history: what the feed received
    faults  \* so far

vars == <<tx, feed, job, out, log, faults>>

Payload     == PacketSize - 1
SecFeedSize == MaxSection + PacketSize   \* DMX_MAX_SECFEED_SIZE

Pad == [id |-> 0, off |-> 0, len |-> 0]  \* stuffing: reads as more than MaxSection

Section(i, n) == [k \in 1 .. n |-> [id |-> i, off |-> k - 1, len |-> n]]

(* The first n units of s, or s and stuffing. *)
Fill(s, n) == [k \in 1 .. n |-> IF k <= Len(s) THEN s[k] ELSE Pad]

Least(a, b) == IF a < b THEN a ELSE b

NoPacket == [cc |-> 0, disc |-> FALSE, pusi |-> FALSE, before |-> <<>>, after |-> <<>>]
Idle     == [pc |-> "idle", chunk |-> <<>>, next |-> <<>>]

(* A feed's memory is not cleared when it is allocated: pusi_seen and cc are
   what a feed before it left there. *)
Init ==
    /\ tx = [id |-> 0, off |-> 0, len |-> 0, packet |-> NoPacket]
    /\ feed \in [filtering : {FALSE}, pusi_seen : BOOLEAN, cc : 0 .. CCs - 1,
                 buf : {<<>>}, secbufp : {0}]
    /\ job = Idle /\ out = <<>> /\ faults = 0
    /\ log = [due |-> {}, intact |-> FALSE, synced |-> FALSE, repeated |-> FALSE]

-----------------------------------------------------------------------------
(* The multiplexer *)

Left == tx.len - tx.off

(* A packet in the middle of a section, or with its end and stuffing. *)
Continued(disc) ==
    [tx EXCEPT !.off = tx.off + Least(Left, Payload),
               !.packet = [cc |-> (tx.packet.cc + 1) % CCs, disc |-> disc, pusi |-> FALSE,
                           before |-> Fill(SubSeq(Section(tx.id, tx.len), tx.off + 1, tx.len), Payload),
                           after |-> <<>>]]

(* A packet in which one section starts (n = 0), or two, of lengths m and n. *)
Started(disc, m, n) ==
    LET room == Payload - 1 - Left IN
    [id  |-> IF n = 0 THEN tx.id + 1 ELSE tx.id + 2,
     off |-> IF n = 0 THEN Least(m, room) ELSE Least(n, room - m),
     len |-> IF n = 0 THEN m ELSE n,
     packet |-> [cc |-> (tx.packet.cc + 1) % CCs, disc |-> disc, pusi |-> TRUE,
                 before |-> SubSeq(Section(tx.id, tx.len), tx.off + 1, tx.len),
                 after |-> Fill(Section(tx.id + 1, m) \o Section(tx.id + 2, n), room)]]

(* A packet may announce a discontinuity while the channel has a fault to spend. *)
Announced == IF faults < MaxFaults THEN BOOLEAN ELSE {FALSE}

(* The values of tx after the next packet. *)
Transmissions ==
    {Continued(disc) : disc \in {d \in Announced : Left > 0}}
    \cup {Started(c[1], c[2], c[3]) : c \in
             {c \in Announced \X Lengths \X (Lengths \cup {0}) :
                 /\ Payload - 1 - Left > (IF c[3] = 0 THEN 0 ELSE c[2])
                 /\ tx.id + (IF c[3] = 0 THEN 1 ELSE 2) <= MaxSections}}

-----------------------------------------------------------------------------
(* dvb_dmx_swfilter_section_packet *)

(* dvb_dmx_swfilter_section_new: the buffer keeps what it holds. *)
Renewed_broken(r) == [r EXCEPT !.secbufp = 0]

Renewed(r) == [r EXCEPT !.buf = <<>>, !.secbufp = 0]

(* Sections that end in a chunk. *)
Ended(s) == {s[k].id : k \in {j \in 1 .. Len(s) : s[j].len # 0 /\ s[j].off = s[j].len - 1}}

(* A lost packet goes unnoticed. *)
Checked_broken(p) == [feed EXCEPT !.cc = p.cc]

(* The feed once the continuity counter of packet p is checked. *)
Checked(p) ==
    IF p.cc = (feed.cc + 1) % CCs /\ ~p.disc
    THEN [feed EXCEPT !.cc = p.cc]
    ELSE Renewed([feed EXCEPT !.cc = p.cc, !.pusi_seen = FALSE])

Handle(p) ==
    /\ feed' = Checked(p)
    /\ job' = [pc |-> "copy", chunk |-> p.before, next |-> IF p.pusi THEN <<p.after>> ELSE <<>>]

(* The next packet arrives... *)
Receive ==
    /\ job.pc = "idle" /\ feed.filtering
    /\ \E t \in Transmissions :
         LET p    == t.packet
             held == log.intact /\ ~p.disc IN
         /\ tx' = t
         /\ faults' = IF p.disc THEN faults + 1 ELSE faults
         /\ Handle(p)
         /\ log' = [log EXCEPT
                !.due = @ \cup Ended(p.after) \cup (IF held THEN Ended(p.before) ELSE {}),
                !.intact = held \/ p.pusi]
    /\ UNCHANGED out

(* ...or is lost, or missed because the feed is stopped... *)
Lose ==
    /\ job.pc = "idle"
    /\ feed.filtering => faults < MaxFaults
    /\ \E t \in Transmissions : ~t.packet.disc /\ tx' = t
    /\ faults' = IF feed.filtering THEN faults + 1 ELSE faults
    /\ log' = [log EXCEPT !.intact = FALSE]
    /\ UNCHANGED <<feed, job, out>>

(* ...or the last one arrives again. *)
ReceiveAgain ==
    /\ job.pc = "idle" /\ feed.filtering
    /\ tx.id > 0 /\ faults < MaxFaults
    /\ Handle(tx.packet)
    /\ log' = [log EXCEPT !.intact = tx.packet.pusi, !.repeated = TRUE]
    /\ faults' = faults + 1
    /\ UNCHANGED <<tx, out>>

(* A packet without payload: dvb_dmx_swfilter_packet_type resets secbufp. *)
ReceiveEmpty ==
    /\ job.pc = "idle" /\ feed.filtering
    /\ faults < MaxFaults
    /\ feed' = [feed EXCEPT !.secbufp = 0]
    /\ log' = [log EXCEPT !.repeated = TRUE]
    /\ faults' = faults + 1
    /\ UNCHANGED <<tx, job, out>>

-----------------------------------------------------------------------------
(* dvb_dmx_swfilter_section_copy_dump, for the chunks of the packet in turn *)

(* A chunk is done.  Before the one that follows the pointer, a PUSI is seen. *)
EndChunk ==
    \/ /\ job.next = <<>>
       /\ job' = Idle
       /\ UNCHANGED <<feed, log>>
    \/ /\ job.next # <<>>
       /\ feed' = Renewed([feed EXCEPT !.pusi_seen = TRUE])
       /\ job' = [pc |-> "copy", chunk |-> Head(job.next), next |-> <<>>]
       /\ log' = [log EXCEPT !.synced = TRUE]

Room == SecFeedSize - Len(feed.buf)

CopyNothing ==
    /\ job.pc = "copy"
    /\ Room = 0 \/ job.chunk = <<>>
    /\ EndChunk
    /\ UNCHANGED <<tx, out, faults>>

(* What does not fit in the buffer is not noticed. *)
Copy_broken ==
    /\ job.pc = "copy"
    /\ Room # 0 /\ job.chunk # <<>>
    /\ feed' = [feed EXCEPT !.buf = @ \o job.chunk]
    /\ job' = [job EXCEPT !.pc = "dump"]
    /\ UNCHANGED <<tx, out, log, faults>>

Copy ==
    /\ job.pc = "copy"
    /\ Room # 0 /\ job.chunk # <<>>
    /\ feed' = [feed EXCEPT !.buf = @ \o SubSeq(job.chunk, 1, Least(Room, Len(job.chunk)))]
    /\ job' = [job EXCEPT !.pc = "dump"]
    /\ UNCHANGED <<tx, out, log, faults>>

(* section_length at secbuf, where the header is in the buffer. *)
SectionLength ==
    LET b == feed.buf[feed.secbufp + Header] IN
    IF b = Pad THEN MaxSection + 1 ELSE IF b.off = Header - 1 THEN b.len ELSE Bogus

(* A section that ends where the data ends is left for later. *)
Found_broken ==
    /\ feed.secbufp + Header <= Len(feed.buf)
    /\ SectionLength <= MaxSection
    /\ feed.secbufp + SectionLength < Len(feed.buf)

(* A section of possible length that is in the buffer as a whole. *)
Found ==
    /\ feed.secbufp + Header <= Len(feed.buf)
    /\ SectionLength <= MaxSection
    /\ feed.secbufp + SectionLength <= Len(feed.buf)

(* What a filter is offered: the section it is, or 0 for what is none. *)
Offer ==
    LET s == SubSeq(feed.buf, feed.secbufp + 1, feed.secbufp + SectionLength) IN
    [id |-> IF s = Section(s[1].id, Len(s)) THEN s[1].id ELSE 0, synced |-> log.synced]

(* dvb_dmx_swfilter_section_feed, once a PUSI has been seen. *)
Dump ==
    /\ job.pc = "dump" /\ Found
    /\ out' = IF feed.pusi_seen THEN Append(out, Offer) ELSE out
    /\ feed' = [feed EXCEPT !.secbufp = @ + SectionLength]
    /\ UNCHANGED <<tx, job, log, faults>>

DumpEnds ==
    /\ job.pc = "dump" /\ ~Found
    /\ EndChunk
    /\ UNCHANGED <<tx, out, faults>>

-----------------------------------------------------------------------------
(* dmx_section_feed_start_filtering, of this feed or of one that gets its memory. *)
StartFiltering ==
    /\ job.pc = "idle" /\ ~feed.filtering
    /\ feed' = [Renewed(feed) EXCEPT !.filtering = TRUE]
    /\ log' = [log EXCEPT !.intact = FALSE, !.synced = FALSE]
    /\ UNCHANGED <<tx, job, out, faults>>

StopFiltering ==
    /\ job.pc = "idle" /\ feed.filtering
    /\ faults < MaxFaults
    /\ feed' = [feed EXCEPT !.filtering = FALSE]
    /\ faults' = faults + 1
    /\ UNCHANGED <<tx, job, out, log>>

Next ==
    \/ Receive \/ Lose \/ ReceiveAgain \/ ReceiveEmpty
    \/ CopyNothing \/ Copy \/ Dump \/ DumpEnds
    \/ StartFiltering \/ StopFiltering

Spec == Init /\ [][Next]_vars

-----------------------------------------------------------------------------
Ids    == 0 .. MaxSections
Unit   == {u \in [id : Ids, off : Nat, len : Nat] : u = Pad \/ u.off < u.len}
Packet == [cc : 0 .. CCs - 1, disc : BOOLEAN, pusi : BOOLEAN, before : Seq(Unit), after : Seq(Unit)]

TxType   == [id : Ids, off : Nat, len : Nat, packet : Packet]
FeedType == [filtering : BOOLEAN, pusi_seen : BOOLEAN, cc : 0 .. CCs - 1,
             buf : Seq(Unit), secbufp : Nat]
JobType  == [pc : {"idle", "copy", "dump"}, chunk : Seq(Unit), next : Seq(Seq(Unit))]
OutType  == [id : Ids, synced : BOOLEAN]
LogType  == [due : SUBSET Ids, intact : BOOLEAN, synced : BOOLEAN, repeated : BOOLEAN]

(* The data dumped so far and the data collected are in the buffer. *)
InBuffer(r) == r.secbufp <= Len(r.buf) /\ Len(r.buf) <= SecFeedSize

(* The types, and what "internal error should never happen" says. *)
TypeOK ==
    /\ tx \in TxType /\ tx.off <= tx.len
    /\ feed \in FeedType /\ InBuffer(feed)
    /\ job \in JobType
    /\ out \in Seq(OutType)
    /\ log \in LogType
    /\ faults \in 0 .. MaxFaults

(* pusi_seen "prevents feeding of garbage from previous section" once a PUSI packet
   has come since the feed was started: whatever is lost, repeated or announced, what
   the filters are offered from then on is a section, from its first byte to its last. *)
WholeOnceSynced == \A i \in 1 .. Len(out) : out[i].synced => out[i].id # 0

(* pusi_seen "prevents feeding of garbage from previous section", from the start. *)
NoGarbage == \A i \in 1 .. Len(out) : out[i].id # 0

(* Losless Section Demux: a section all packets of which came in order is offered,
   however it lies in its packets and whatever came before it. *)
NoneMissed == job.pc = "idle" => \A i \in log.due : \E k \in 1 .. Len(out) : out[k].id = i

(* Sections are offered in their order and once, unless a packet came twice or one
   came without payload. *)
OnceInOrder ==
    \/ log.repeated
    \/ \A i, j \in 1 .. Len(out) : i < j /\ out[i].id # 0 /\ out[j].id # 0 => out[i].id < out[j].id
=============================================================================
