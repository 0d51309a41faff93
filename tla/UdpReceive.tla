----------------------------- MODULE UdpReceive -----------------------------
(***************************************************************************)
(* UDPServer::Recv, which turns the datagrams of one sender back into      *)
(* bursts, over a network that loses, duplicates and reorders them.        *)
(*                                                                         *)
(* Every fragment is taken to carry one unit of payload, so burst b is     *)
(* complete after Frags[b] of them; the bytes written per channel and      *)
(* fragments_received are then the same number, the length of parts.       *)
(* Flags follow from the number: 0 is the start, Frags[b] - 1 the end.     *)
(***************************************************************************)
EXTENDS Integers, Sequences

CONSTANTS
    BATCH_SIZE,     \* common.h
    Frags,          \* Frags[b]: how many fragments burst b is sent in
    NetCap,         \* bound: datagrams in flight
    MaxLoss,        \* bound: datagrams lost
    MaxReorder,     \* bound: datagrams duplicated or overtaken
    MaxError        \* bound: recvmmsg failures

MaxFrags == 65535   \* total_frags and seq_number are uint16_t

ASSUME FragsAssumption ==
    /\ BATCH_SIZE \in Nat \ {0}
    /\ Frags \in Seq(Nat \ {0})
    /\ \A b \in DOMAIN Frags : Frags[b] <= MaxFrags
    /\ {NetCap, MaxLoss, MaxReorder, MaxError} \subseteq Nat

Burst == 1 .. Len(Frags)
Frag(b, k) == [burst |-> b, seq |-> k]
Fragment == UNION {{Frag(b, k) : k \in 0 .. Frags[b] - 1} : b \in Burst}
IsStart(f) == f.seq = 0
IsEnd(f) == f.seq = Frags[f.burst] - 1
Following(f) == IF IsEnd(f) THEN Frag(f.burst + 1, 0) ELSE Frag(f.burst, f.seq + 1)

VARIABLES
    next,       \* the fragment the sender sends next; burst Len(Frags) + 1 at the end
    net,        \* datagrams in flight, in the order recvmmsg will return them
    msgvec,     \* what recvmmsg returned and Recv has not looked at
    asm,        \* the locals of Recv: the burst being assembled
    m_current_batch_size,
    delivered,  \* what Recv returned, in order: the fragments of each buffer
    disturbed,  \* history: bursts a fault of the network or the socket touched
    losses, reorders, errors

udpRecvVars == <<msgvec, asm, m_current_batch_size, delivered>>
udpVars == <<next, net, udpRecvVars, disturbed, losses, reorders, errors>>

-----------------------------------------------------------------------------
(* The network (external) *)

SendFragment ==
    /\ next.burst \in Burst
    /\ Len(net) < NetCap
    /\ net' = Append(net, next)
    /\ next' = Following(next)
    /\ UNCHANGED <<udpRecvVars, disturbed, losses, reorders, errors>>

\* A sequence without its k-th element, with it twice, with it after the next.
Without(s, k) == [i \in 1 .. Len(s) - 1 |-> s[IF i < k THEN i ELSE i + 1]]
Twice(s, k) == [i \in 1 .. Len(s) + 1 |-> s[IF i <= k THEN i ELSE i - 1]]
Swapped(s, k) == [i \in 1 .. Len(s) |-> s[IF i = k THEN k + 1 ELSE IF i = k + 1 THEN k ELSE i]]

Lose ==
    /\ losses < MaxLoss
    /\ \E k \in 1 .. Len(net) :
        /\ net' = Without(net, k)
        /\ disturbed' = disturbed \cup {net[k].burst}
    /\ losses' = losses + 1
    /\ UNCHANGED <<next, udpRecvVars, reorders, errors>>

Duplicate ==
    /\ reorders < MaxReorder
    /\ \E k \in 1 .. Len(net) :
        /\ net' = Twice(net, k)
        /\ disturbed' = disturbed \cup {net[k].burst}
    /\ reorders' = reorders + 1
    /\ UNCHANGED <<next, udpRecvVars, losses, errors>>

Overtake ==
    /\ reorders < MaxReorder
    /\ \E k \in 1 .. Len(net) - 1 :
        /\ net' = Swapped(net, k)
        /\ disturbed' = disturbed \cup {net[k].burst, net[k + 1].burst}
    /\ reorders' = reorders + 1
    /\ UNCHANGED <<next, udpRecvVars, losses, errors>>

-----------------------------------------------------------------------------
(* Recv *)

Assembly(hdr, last_seq_no, parts) ==
    [is_assembling |-> TRUE, hdr |-> hdr, last_seq_no |-> last_seq_no, parts |-> parts]

\* reset_assembly, also the state in which a call of Recv begins.
NotAssembling == [is_assembling |-> FALSE, hdr |-> 0, last_seq_no |-> 0, parts |-> << >>]

\* recvmmsg returns k packets.
Recvmmsg(k) ==
    /\ msgvec = << >> /\ k <= m_current_batch_size
    /\ msgvec' = SubSeq(net, 1, k)
    /\ net' = SubSeq(net, k + 1, Len(net))
    /\ UNCHANGED <<next, asm, m_current_batch_size, delivered, disturbed, losses, reorders, errors>>

\* recvmmsg fails: Recv gives up the burst and returns nullptr.
RecvError ==
    /\ errors < MaxError
    /\ msgvec = << >>
    /\ asm' = NotAssembling
    /\ m_current_batch_size' = BATCH_SIZE
    /\ disturbed' = disturbed \cup ({asm.hdr} \ {0})
    /\ errors' = errors + 1
    /\ UNCHANGED <<next, net, msgvec, delivered, losses, reorders>>

\* A start opens a burst; any other fragment must continue the one that is open.
InOrder_Any(f) == TRUE                                  \* mutant: gaps are not noticed
InOrder(f) == f.seq = asm.last_seq_no + 1
Fits(f) == IF asm.is_assembling THEN InOrder(f) ELSE IsStart(f)

\* The burst with the payload of f copied.  Too much of it, or an end before the
\* burst is full, spoils it.
Written(f) ==
    IF asm.is_assembling THEN Assembly(asm.hdr, f.seq, Append(asm.parts, f))
    ELSE Assembly(f.burst, f.seq, <<f>>)
Spoilt(a, f) == Len(a.parts) > Frags[a.hdr] \/ (IsEnd(f) /\ Len(a.parts) # Frags[a.hdr])

\* The batch size for the next recvmmsg: no more than the burst still needs.
BatchSize_Full(a) == BATCH_SIZE                         \* mutant: no adjustment
BatchSize(a) ==
    LET remaining_frags == Frags[a.hdr] - Len(a.parts)
    IN  IF a.is_assembling /\ remaining_frags > 0 /\ remaining_frags < BATCH_SIZE
        THEN remaining_frags ELSE BATCH_SIZE

\* One packet of a batch.  The packet that breaks a burst is itself discarded.
\* After a full burst Recv returns, with the rest of the batch, and the receiver
\* thread calls it again.
Packet ==
    LET f == Head(msgvec)
        a == Written(f)
    IN  /\ msgvec # << >>
        /\ \/ /\ ~Fits(f) \/ Spoilt(a, f)
              /\ asm' = NotAssembling /\ msgvec' = Tail(msgvec)
              /\ UNCHANGED delivered
           \/ /\ Fits(f) /\ ~Spoilt(a, f) /\ ~IsEnd(f)
              /\ asm' = a /\ msgvec' = Tail(msgvec)
              /\ UNCHANGED delivered
           \/ /\ Fits(f) /\ ~Spoilt(a, f) /\ IsEnd(f)
              /\ asm' = NotAssembling /\ msgvec' = << >>
              /\ delivered' = Append(delivered, a.parts)
        /\ m_current_batch_size' = IF asm'.is_assembling /\ msgvec' # << >>
                                   THEN m_current_batch_size ELSE BatchSize(asm')
        /\ UNCHANGED <<next, net, disturbed, losses, reorders, errors>>

-----------------------------------------------------------------------------
UdpInit ==
    /\ next = Frag(1, 0)
    /\ net = << >>
    /\ msgvec = << >> /\ asm = NotAssembling
    /\ m_current_batch_size = BATCH_SIZE
    /\ delivered = << >>
    /\ disturbed = {}
    /\ losses = 0 /\ reorders = 0 /\ errors = 0

UdpNext ==
    \/ SendFragment
    \/ Lose
    \/ Duplicate
    \/ Overtake
    \/ \E k \in 1 .. Len(net) : Recvmmsg(k)
    \/ RecvError
    \/ Packet

UdpSpec == UdpInit /\ [][UdpNext]_udpVars

-----------------------------------------------------------------------------
(* Properties *)

Whole(b) == [k \in 1 .. Frags[b] |-> Frag(b, k - 1)]

\* Fewer datagrams went astray than the shortest burst has fragments; one of
\* them less if the network also changed their order.
FewAstray ==
    \A b \in Burst : losses + reorders + (IF reorders > 0 THEN 1 ELSE 0) < Frags[b]

\* A buffer Recv returns holds one burst, all of it and nothing else, and bursts
\* come back in the order they were sent, each at most once, as long as few
\* datagrams went astray.  Recv compares numbers, not the burst they belong to:
\* with as many losses as a burst has fragments it returns the head of one burst
\* continued by the tail of the next.
BurstIntegrity ==
    FewAstray =>
        /\ \A k \in DOMAIN delivered : \E b \in Burst : delivered[k] = Whole(b)
        /\ \A j, k \in DOMAIN delivered : j < k => delivered[j][1].burst < delivered[k][1].burst

Consumed(b) ==
    /\ next.burst > b
    /\ \A k \in DOMAIN net : net[k].burst # b
    /\ \A k \in DOMAIN msgvec : msgvec[k].burst # b
Delivered(b) == \E k \in DOMAIN delivered : delivered[k] = Whole(b)

\* Every burst has as many fragments as a batch.
Roomy == \A b \in Burst : Frags[b] >= BATCH_SIZE

\* Reading in batches costs no burst: one that came through undisturbed, after
\* one that also did, is returned, however recvmmsg cuts the stream.
DeliveredAfterIntact ==
    Roomy => \A b \in Burst : Consumed(b) /\ {b - 1, b} \cap disturbed = {} => Delivered(b)

=============================================================================
