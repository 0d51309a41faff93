------------------------------ MODULE UdpSend ------------------------------
(***************************************************************************)
(* How a processed burst leaves CHEM: the header ProcessDestinationSignal  *)
(* writes for a destination, and UDPClient::Send, which cuts the burst     *)
(* into fragments and flushes them in batches.                             *)
(*                                                                         *)
(* Only sizes are kept: a fragment is its flags, its sequence number and   *)
(* its payload size.  Sizes are size_t, here modulo SizeMod, which only    *)
(* has to exceed every size a burst can have.                              *)
(***************************************************************************)
EXTENDS Integers, Sequences, SequencesExt

CONSTANTS
    PAYLOAD_SIZE, HEADER_SIZE, BATCH_SIZE, OTW_SIZE,   \* common.h
    SizeMod,        \* 2 to the width of size_t
    Samples,        \* samples per channel of a burst
    SrcChannels,    \* channels of the source
    DestChannels,   \* channels of the destination
    Ratios          \* destination rate over source rate, as <<num, den>>

ASSUME SizeAssumption ==
    /\ {PAYLOAD_SIZE, HEADER_SIZE, BATCH_SIZE, OTW_SIZE, SizeMod} \subseteq Nat \ {0}
    /\ HEADER_SIZE < PAYLOAD_SIZE

VARIABLES
    burst,         \* the source burst and the destination it goes to
    header,        \* size, number_of_samples, number_of_channels
    pc,            \* "header", "split", "loop", "done"
    total_frags, current_payload_size,
    i, sent,       \* loop counter, payload bytes put into fragments so far
    pending,       \* fragments in msgvec, not handed to sendmmsg
    wire           \* fragments handed to sendmmsg

vars == <<burst, header, pc, total_frags, current_payload_size, i, sent, pending, wire>>

SizeT(n) == n % SizeMod
Round(num, den) == (2 * num + den) \div (2 * den)

-----------------------------------------------------------------------------
\* The header of the burst for this destination.  Only a rate change rewrites it.
WriteHeader ==
    LET perChannel == burst.samples * OTW_SIZE
        num == burst.ratio[1]
        den == burst.ratio[2]
    IN  /\ pc = "header"
        /\ header' = IF num = den
                     THEN [size |-> perChannel * burst.src_ch,
                           number_of_samples |-> burst.samples,
                           number_of_channels |-> burst.src_ch]
                     ELSE [size |-> Round(perChannel * num, den) * burst.dest_ch + HEADER_SIZE,
                           number_of_samples |-> Round(burst.samples * num, den),
                           number_of_channels |-> burst.src_ch]
        /\ pc' = "split"
        /\ UNCHANGED <<burst, total_frags, current_payload_size, i, sent, pending, wire>>

\* The number of fragments; a burst of few fragments is spread over BATCH_SIZE.
CeilDiv(a, b) == a \div b + (IF a % b = 0 THEN 0 ELSE 1)
WholeFrags_NoHeader == CeilDiv(header.size, PAYLOAD_SIZE)   \* mutant: header forgotten
WholeFrags == CeilDiv(header.size + HEADER_SIZE, PAYLOAD_SIZE)
Spread == WholeFrags < BATCH_SIZE /\ WholeFrags > 0

Split ==
    LET whole == header.size + HEADER_SIZE
        part == (whole + BATCH_SIZE - 1) \div BATCH_SIZE
    IN  /\ pc = "split"
        /\ current_payload_size' = IF Spread THEN part ELSE PAYLOAD_SIZE
        /\ total_frags' = IF Spread THEN whole \div part ELSE WholeFrags
        /\ pc' = IF header.number_of_samples = 0 \/ total_frags' = 0 THEN "done" ELSE "loop"
        /\ UNCHANGED <<burst, header, i, sent, pending, wire>>

\* One pass of the loop: cut a fragment, flush a full batch or the last one.
Payload ==
    LET remaining == SizeT(header.size - sent)
        part == IF remaining < current_payload_size THEN remaining ELSE current_payload_size
    IN  IF i = 0 /\ total_frags > 1 THEN SizeT(part - HEADER_SIZE) ELSE part
Aligned_No == Payload                     \* mutant: not aligned
Aligned == (Payload \div header.number_of_channels) * header.number_of_channels
Exhausted == header.size = sent \/ Aligned = 0

Flush(n) == n = BATCH_SIZE \/ i = total_frags - 1

CutFragment ==
    LET batch == Append(pending, [start |-> i = 0, end |-> i = total_frags - 1,
                                  seq |-> i, size |-> Aligned])
        flush == Flush(Len(batch))
    IN  /\ pc = "loop"
        /\ i < total_frags
        /\ ~Exhausted
        /\ sent' = SizeT(sent + Aligned)
        /\ wire' = IF flush THEN wire \o batch ELSE wire
        /\ pending' = IF flush THEN << >> ELSE batch
        /\ i' = i + 1
        /\ UNCHANGED <<burst, header, pc, total_frags, current_payload_size>>

\* The loop ends, or breaks with what is in msgvec never sent.
LeaveLoop ==
    /\ pc = "loop"
    /\ i = total_frags \/ Exhausted
    /\ pc' = "done"
    /\ UNCHANGED <<burst, header, total_frags, current_payload_size, i, sent, pending, wire>>

-----------------------------------------------------------------------------
Init ==
    /\ burst \in [samples : Samples, src_ch : SrcChannels, dest_ch : DestChannels, ratio : Ratios]
    /\ header = [size |-> 0, number_of_samples |-> 0, number_of_channels |-> 0]
    /\ pc = "header"
    /\ total_frags = 0 /\ current_payload_size = 0
    /\ i = 0 /\ sent = 0 /\ pending = << >> /\ wire = << >>

Next == WriteHeader \/ Split \/ CutFragment \/ LeaveLoop

Spec == Init /\ [][Next]_vars

-----------------------------------------------------------------------------
(* Properties *)

PayloadSum(fs) == FoldSeq(LAMBDA f, sum : f.size + sum, 0, fs)
PerChannel(n) == n > 0 /\ n % header.number_of_channels = 0

\* UDPServer::Recv, fed these fragments in order, returns the burst: it starts
\* with a start and ends with an end flag, the numbers have no gap, every
\* payload divides among the channels and together they fill the burst.
Accepted(fs) ==
    /\ fs # << >> /\ fs[1].start /\ fs[Len(fs)].end
    /\ \A k \in 1 .. Len(fs) : /\ fs[k].seq = k - 1
                               /\ fs[k].end => k = Len(fs)
                               /\ PerChannel(fs[k].size)
    /\ PerChannel(header.size)
    /\ PayloadSum(fs) = header.size

\* Longer than the headers of a batch less one; 36 samples of one channel are not.
LongEnough == header.size > (BATCH_SIZE - 1) * HEADER_SIZE

\* No datagram is longer than the buffers recvmmsg fills.
FitsMtu(fs) ==
    \A k \in 1 .. Len(fs) : fs[k].size + (IF fs[k].start THEN HEADER_SIZE ELSE 0) <= PAYLOAD_SIZE

\* What Send puts on the wire for a burst at the rate of its source is received
\* and reassembled, when its channels divide the batch and it is long enough.
Reassembles ==
    /\ pc = "done"
    /\ burst.ratio[1] = burst.ratio[2] /\ BATCH_SIZE % burst.src_ch = 0
    /\ LongEnough
    => Accepted(wire) /\ FitsMtu(wire)

\* The bursts Send gets through, at any rate and with any channels, are exactly
\* those whose planned fragments, cut to whole channels and less the header,
\* have room for the size the header announces.  Every other burst is cut
\* short or wraps around without an error.
RoomDecides ==
    LET channels == header.number_of_channels
        align(n) == (n \div channels) * channels
    IN  pc = "done" /\ header.number_of_samples > 0 =>
            (Accepted(wire) <=>
                /\ current_payload_size > HEADER_SIZE
                /\ align(current_payload_size - HEADER_SIZE)
                     + (total_frags - 1) * align(current_payload_size) >= header.size
                /\ header.size % channels = 0)

=============================================================================
