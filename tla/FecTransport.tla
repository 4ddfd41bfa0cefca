---------------------------- MODULE FecTransport ----------------------------
(***************************************************************************)
(* One medium's frames from RTPSendThread::send_packet of the sender       *)
(* (src/src/rtp_network/rtpsendthread.cpp, fec/fecencoder.cpp) over the    *)
(* network to RTPUser::deal_with_packet of a receiver (rtpuser.cpp,        *)
(* fec/fecdecoder.cpp).                                                    *)
(*                                                                         *)
(* A frame is its number and its size; a packet is a frame's number and    *)
(* the position that the code sends as the header extension id.  The       *)
(* fountain code (wirehair) is external: N distinct blocks of a frame of N *)
(* symbols may decode it, N + Overhead do.                                 *)
(***************************************************************************)
EXTENDS Integers, Sequences, FiniteSetsExt

CONSTANTS
    Symbol,       \* bytes of a full packet (1024 in the code)
    FrameSizes,   \* sizes of the frames
    Extra,        \* repair packets added whatever the rate (5 in the code)
    Overhead,     \* blocks beyond N the fountain code may ask for
    Links,        \* kinds of medium and network, see below
    TsMod,        \* timestamps are modulo TsMod (2^32 in the code)
    FirstTs,      \* the session's first timestamp, which jrtplib draws
    MaxFrames     \* bound on the frames sent

(***************************************************************************)
(* A link: tsinc is the session's default timestamp increment (1 for       *)
(* video; 0 for audio, where the code computes the integer 1u/sample_rate);*)
(* a network loses packets, reorders them or not, and gives up to "copies" *)
(* copies of each.  fails has the ends at which the fountain code and       *)
(* allocations may fail.                                                   *)
(***************************************************************************)
ASSUME LinkAssumption ==
    \A l \in Links : /\ l.tsinc \in {0, 1}
                     /\ l.reorder \in BOOLEAN
                     /\ l.copies \in Nat \ {0}
                     /\ l.fails \subseteq {"sender", "receiver"}

ASSUME SizeAssumption ==
    /\ Symbol \in Nat \ {0}
    /\ FrameSizes \subseteq Nat \ {0}
    /\ Extra \in Nat /\ Overhead \in Nat /\ Overhead < Extra
    /\ TsMod \in Nat \ {0} /\ FirstTs \subseteq 0..(TsMod - 1)
    /\ MaxFrames \in Nat

VARIABLES
    link,       \* chosen once
    clock,      \* timestamp of the session's next packet
    sent,       \* the frames sent, in order
    net,        \* packets in flight; a packet that stays there is lost
    fec,        \* fec_map: base timestamp -> the decoder's state
    raw,        \* nofec_map: base timestamp -> the packets collected
    arrived,    \* packets of each frame that deal_with_packet got
    out,        \* frames pushed into the decoder's queue
    failed,     \* frames for which a call of the receiver failed
    broken      \* memcpy from nullptr or of a negative size: anything may happen

vars == <<link, clock, sent, net, fec, raw, arrived, out, failed, broken>>

SrcNb(size) == (size + Symbol - 1) \div Symbol          \* get_src_nb
FillSize(size) == size - (size % Symbol)                \* get_fill_size
TotalNb(size, key) == (size * 100) \div (Symbol * (IF key THEN 83 ELSE 90)) + Extra

Numbers == DOMAIN sent
Packets(f) == 0..(sent[f].count - 1)

\* bytes of payload: the last packet of a frame sent without the code has
\* param.size % param.symbol_size of them; every block of the code has some
PayloadLength(f, pos) ==
    CASE sent[f].mode = "single" -> sent[f].size
      [] sent[f].mode = "fec" -> Symbol
      [] sent[f].mode = "raw" ->
            IF pos = SrcNb(sent[f].size) - 1 THEN sent[f].size % Symbol ELSE Symbol

Timestamp(f, pos) == (sent[f].base + pos * link.tsinc) % TsMod

Timestamps == 0..(TsMod - 1)
Blocks == Numbers \X Nat

\* What the decoder's queue gets: a frame with the blocks it was made of and the
\* number of bytes that were copied, or a packet without a frame.
Outputs ==
    [mode : {"fec", "single", "raw"}, pts : Timestamps, size : FrameSizes,
     blocks : SUBSET Blocks, copied : Nat]
    \cup [mode : {"lost"}, blocks : {{}}]

Lost == [mode |-> "lost", blocks |-> {}]

TypeOK ==
    /\ link \in Links
    /\ clock \in Timestamps
    /\ sent \in Seq([size : FrameSizes, mode : {"single", "fec", "raw"},
                     base : Timestamps, count : Nat \ {0}])
    /\ net \subseteq [frame : Numbers, pos : Nat, copy : 1..link.copies]
    /\ \A p \in net : p.pos \in Packets(p.frame)
    /\ DOMAIN fec \subseteq Timestamps
    /\ fec \in [DOMAIN fec -> [size : FrameSizes, got : SUBSET Blocks]]
    /\ DOMAIN raw \subseteq Timestamps
    /\ raw \in [DOMAIN raw -> [count : Nat, slots : SUBSET Blocks, n : Nat, last : Int]]
    /\ arrived \in [Numbers -> Nat]
    /\ out \in Seq(Outputs)
    /\ failed \subseteq Numbers
    /\ broken \in BOOLEAN

Init ==
    /\ link \in Links
    /\ clock \in FirstTs
    /\ sent = <<>> /\ net = {} /\ arrived = <<>> /\ out = <<>>
    /\ fec = <<>> /\ raw = <<>>     \* the functions with an empty domain
    /\ failed = {} /\ broken = FALSE

(***************************************************************************)
(* The sender                                                              *)
(***************************************************************************)
\* FECEncoder::encode and what send_packet does with its result: a frame below
\* the symbol size is one packet; a frame of one symbol is refused by the code, and
\* so is a longer one when the code fails
Modes(size) ==
    IF size < Symbol THEN {"single"}
    ELSE IF SrcNb(size) < 2 THEN {"raw"}
    ELSE {"fec", "raw"}

PacketCount(size, key, mode) ==
    CASE mode = "single" -> 1
      [] mode = "fec" -> TotalNb(size, key)
      [] mode = "raw" -> SrcNb(size)

SendPacket ==
    /\ Len(sent) < MaxFrames
    /\ \E size \in FrameSizes, key \in BOOLEAN : \E mode \in Modes(size) :
          LET n == PacketCount(size, key, mode)
              f == Len(sent) + 1
          IN  /\ mode = "raw" /\ n > 1 => "sender" \in link.fails
              /\ sent' = Append(sent, [size |-> size, mode |-> mode,
                                       base |-> clock, count |-> n])
              /\ net' = net \cup [frame : {f}, pos : 0..(n - 1), copy : 1..link.copies]
              /\ clock' = (clock + n * link.tsinc) % TsMod
    /\ arrived' = Append(arrived, 0)
    /\ UNCHANGED <<link, fec, raw, out, failed, broken>>

(***************************************************************************)
(* The receiver                                                            *)
(***************************************************************************)
\* mutants: signed arithmetic; the position is forgotten
BaseTs_Signed(ts, pos) == ts - pos
BaseTs_NoShift(ts, pos) == ts

BaseTs(ts, pos) == (ts - pos) % TsMod       \* get_correct_timestamp, on uint32_t

Without(m, keys) == [k \in DOMAIN m \ keys |-> m[k]]
With(m, k, v) == [x \in DOMAIN m \cup {k} |-> IF x = k THEN v ELSE m[x]]

\* mutant: nothing is erased
EraseBefore_Nothing(m, ts) == m

\* erase_fec_map, erase_nofec_map: std::map is ordered by key
EraseBefore(m, ts) == Without(m, {k \in DOMAIN m : k < ts})

\* What a push puts out: when the frame or its data cannot be allocated, or the
\* code does not recover it, the packet goes to the decoder all the same.
Pushed(f, o) ==
    \/ out' = Append(out, o) /\ failed' = failed
    \/ "receiver" \in link.fails /\ out' = Append(out, Lost) /\ failed' = failed \cup {f}

\* mutant: the decoder stays in the map after its frame was recovered
PushFec_KeepsEntry(m, f) ==
    LET first == Min(DOMAIN m)
    IN  /\ Pushed(f, [mode |-> "fec", pts |-> first, size |-> sent[f].size,
                      blocks |-> m[first].got, copied |-> m[first].size])
        /\ fec' = m

\* push_fec works on fec_map.begin()
PushFec(m, f) ==
    LET first == Min(DOMAIN m)
    IN  /\ Pushed(f, [mode |-> "fec", pts |-> first, size |-> sent[f].size,
                      blocks |-> m[first].got, copied |-> m[first].size])
        /\ fec' = Without(m, {first})

Ids(got) == {b[2] : b \in got}

\* pop() for a packet of an encoded frame: the code has the frame, or needs more, or
\* fails (or cannot be created), and then the blocks it has are lost: the entry
\* that stays has no decoder, and is to the code as one that is not there
PopFec(f, pos) ==
    LET ts == BaseTs(Timestamp(f, pos), pos)
        codec == IF ts \in DOMAIN fec THEN fec[ts] ELSE [size |-> sent[f].size, got |-> {}]
        got == IF pos \in Ids(codec.got) THEN codec.got ELSE codec.got \cup {<<f, pos>>}
        held == With(fec, ts, [codec EXCEPT !.got = got])
        nb == Cardinality(got) - SrcNb(codec.size)
    IN  /\ \/ nb >= 0 /\ PushFec(EraseBefore(held, ts), f)
           \/ nb < Overhead /\ fec' = held /\ UNCHANGED <<out, failed>>
           \/ /\ "receiver" \in link.fails
              /\ fec' = Without(fec, {ts})
              /\ failed' = failed \cup {f} /\ UNCHANGED out
        /\ UNCHANGED <<raw, broken>>

\* pop() for the packet of a frame that is one packet
PopSingle(f, pos) ==
    LET ts == BaseTs(Timestamp(f, pos), pos)
    IN  /\ raw' = EraseBefore(raw, ts)
        /\ Pushed(f, [mode |-> "single", pts |-> ts, size |-> sent[f].size,
                      blocks |-> {<<f, pos>>}, copied |-> sent[f].size])
        /\ UNCHANGED <<fec, broken>>

Collected(count, n) == count = n

\* pop() for a packet of a frame of several packets sent without the code.  The
\* last block is taken to have symbol_size - get_fill_size() bytes, which is 0 for
\* a frame of two packets and negative for longer ones; get_data() then copies
\* beyond every buffer, as it does from a position that has not come.
PopRaw(f, pos) ==
    LET ts == BaseTs(Timestamp(f, pos), pos)
        n == SrcNb(sent[f].size)
        old == IF ts \in DOMAIN raw THEN raw[ts]
               ELSE [count |-> 0, slots |-> {}, n |-> n,
                     last |-> Symbol - FillSize(sent[f].size)]
        new == [old EXCEPT !.count = @ + 1,
                           !.slots = {b \in @ : b[2] # pos} \cup {<<f, pos>>}]
        full == pos < old.n /\ Collected(new.count, n)
        copied == (new.n - 1) * Symbol + new.last
    IN  /\ \/ /\ full /\ new.last >= 0 /\ Cardinality(new.slots) = new.n
              /\ Pushed(f, [mode |-> "raw", pts |-> ts, size |-> sent[f].size,
                            blocks |-> new.slots, copied |-> copied])
              /\ raw' = Without(EraseBefore(raw, ts), {ts})
              /\ UNCHANGED broken
           \/ /\ full /\ (new.last < 0 \/ Cardinality(new.slots) < new.n)
              /\ broken' = TRUE
              /\ UNCHANGED <<raw, out, failed>>
           \/ /\ ~full
              /\ raw' = With(raw, ts, new)
              /\ broken' = (pos >= old.n)     \* a write beyond the vectors
              /\ UNCHANGED <<out, failed>>
        /\ UNCHANGED fec

\* RTPUser::deal_with_packet: an empty payload is dropped
DealWithPacket(f, pos) ==
    \/ /\ PayloadLength(f, pos) = 0
       /\ UNCHANGED <<fec, raw, out, failed, broken>>
    \/ /\ PayloadLength(f, pos) > 0
       /\ \/ sent[f].mode = "fec" /\ PopFec(f, pos)
          \/ sent[f].mode # "fec" /\ SrcNb(sent[f].size) = 1 /\ PopSingle(f, pos)
          \/ sent[f].mode # "fec" /\ SrcNb(sent[f].size) > 1 /\ PopRaw(f, pos)

Earlier(p, q) == p.frame < q.frame \/ (p.frame = q.frame /\ p.pos < q.pos)

\* a packet arrives; in an ordered network those it overtook are lost
Receive ==
    /\ ~broken
    /\ \E p \in net :
          /\ DealWithPacket(p.frame, p.pos)
          /\ arrived' = [arrived EXCEPT ![p.frame] = @ + 1]
          /\ net' = {q \in net : q # p /\ (link.reorder \/ ~Earlier(q, p))}
    /\ UNCHANGED <<link, clock, sent>>

Next == SendPacket \/ Receive

Spec == Init /\ [][Next]_vars

-----------------------------------------------------------------------------
(* Properties *)

\* The packets of a behaviour do not use up the timestamps (2^32 in the code),
\* though the timestamps may wrap.  The theorems about frames suppose it: two
\* frames with one timestamp are one frame to the receiver.
FewPackets ==
    \A size \in FrameSizes, key \in BOOLEAN : \A mode \in Modes(size) :
        MaxFrames * PacketCount(size, key, mode) < TsMod

\* a frame in the decoder's queue is a frame of the sender
Whole(o) ==
    /\ o.mode \in {"fec", "single"} =>
         \E f \in Numbers :
             /\ o.pts = sent[f].base
             /\ o.size = sent[f].size
             /\ o.copied = sent[f].size
             /\ \A b \in o.blocks : b[1] = f
             /\ Cardinality(o.blocks) >= SrcNb(sent[f].size)
    /\ o.mode = "raw" /\ link.tsinc = 1 /\ link.copies = 1 =>
         /\ Ids(o.blocks) = 0..(SrcNb(o.size) - 1)
         /\ o.copied = FillSize(o.size)

\* Whatever the network does, a frame the decoder gets from the fountain code or
\* in one packet is one frame of the sender: its own timestamp and size, every
\* byte of it, from enough blocks, none of them of another frame.  A video frame
\* collected without the code is never whole (fecdecoder.cpp:129): the bytes of
\* its last block are not copied.  Its other blocks are, with no hole unless the
\* network duplicates packets, for the receiver counts packets and not positions
\* (fecdecoder.cpp:134).
WholeFrames == \A i \in DOMAIN out : Whole(out[i])

\* The decoder forgets a frame it has delivered, so the repair packets that
\* follow may deliver it again; but each delivery costs N packets of the frame.
DeliveriesArePaid ==
    \A f \in Numbers : sent[f].mode = "fec" =>
        Cardinality({i \in DOMAIN out : \E b \in out[i].blocks : b[1] = f})
            * SrcNb(sent[f].size) <= arrived[f]

\* In an ordered network a video frame is delivered once enough of its packets
\* arrived, whatever was lost, and across the wrap of the timestamps: erasing
\* the entries of earlier frames never takes away blocks it needs.  Only a failure
\* of the receiver itself keeps the frame from the decoder.
EnoughIsDelivered ==
    link.tsinc = 1 /\ ~link.reorder /\ link.copies = 1 =>
        \A f \in Numbers :
            (/\ sent[f].mode = "fec" /\ f \notin failed
             /\ arrived[f] >= SrcNb(sent[f].size) + Overhead)
                => \E i \in DOMAIN out : \E b \in out[i].blocks : b[1] = f
=============================================================================
