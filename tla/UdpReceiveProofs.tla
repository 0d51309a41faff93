-------------------------- MODULE UdpReceiveProofs --------------------------
(***************************************************************************)
(* UDPServer::Recv for every number and every length of bursts, every      *)
(* batch size and any number of losses, duplicates, overtakings and socket *)
(* errors: an undisturbed burst after an undisturbed one is returned,      *)
(* however recvmmsg cuts the stream into batches.                          *)
(*                                                                         *)
(* What Recv has still to handle is one sequence, the stream: the rest of  *)
(* the batch, the datagrams in flight and the fragment sent next.          *)
(* recvmmsg leaves it alone, a packet takes its head away, a fault changes *)
(* it in one place.  The invariant says that in the stream a fragment      *)
(* nobody disturbed follows its predecessor, that Recv holds what came     *)
(* before the head of the stream, and that a batch never reaches beyond    *)
(* the burst being assembled, so that returning costs no packet of the     *)
(* next one.                                                               *)
(***************************************************************************)
EXTENDS UdpReceive, FiniteSetTheorems, TLAPS

\* The prover of the leaves that do not name another one.
USE ZenonT(30)

-----------------------------------------------------------------------------
(* The place of a fragment in what the sender sends *)

\* The assumptions on the constants, fragment by fragment.
LEMMA FragsNat ==
    /\ Len(Frags) \in Nat /\ BATCH_SIZE \in Nat /\ BATCH_SIZE > 0
    /\ \A b \in Burst : Frags[b] \in Nat /\ Frags[b] > 0
<1>1. Frags \in Seq(Nat \ {0}) /\ BATCH_SIZE \in Nat \ {0}
  BY FragsAssumption
<1> QED BY <1>1, SMTT(30) DEF Burst

\* The fragments of a burst, those of all the bursts before it, and how many
\* they are.
Numbers(b) == {b} \X (0 .. Frags[b] - 1)
Earlier(b) == UNION {Numbers(c) : c \in 1 .. b - 1}
Offset(b) == Cardinality(Earlier(b))

\* A burst has as many fragments as Frags says.
LEMMA NumbersCount ==
    ASSUME NEW b \in Burst
    PROVE  IsFiniteSet(Numbers(b)) /\ Cardinality(Numbers(b)) = Frags[b]
<1> DEFINE S == 0 .. Frags[b] - 1
           X == {b}
<1>1. 0 \in Int /\ Frags[b] - 1 \in Int /\ Frags[b] > 0 /\ Frags[b] \in Int
  BY FragsNat, SMTT(30)
<1>2. IsFiniteSet(S) /\ Cardinality(S) = IF 0 > Frags[b] - 1 THEN 0 ELSE Frags[b] - 1 - 0 + 1
  BY <1>1, FS_Interval
<1>3. IsFiniteSet(X) /\ Cardinality(X) = 1
  BY FS_Singleton
<1>4. Cardinality(S) = Frags[b]
  BY <1>1, <1>2, SMTT(30)
<1>5. Numbers(b) = X \X S
  BY DEF Numbers
<1> HIDE DEF S, X
<1>6. IsFiniteSet(X \X S) /\ Cardinality(X \X S) = Cardinality(X) * Cardinality(S)
  BY <1>2, <1>3, FS_Product
<1> QED BY <1>1, <1>3, <1>4, <1>5, <1>6, SMTT(30)

\* The bursts before another have finitely many fragments.
LEMMA EarlierFinite ==
    ASSUME NEW b \in 1 .. Len(Frags) + 1
    PROVE  IsFiniteSet(Earlier(b)) /\ Offset(b) \in Nat
<1> DEFINE D == 1 .. b - 1
           f == [c \in D |-> Numbers(c)]
           T == {Numbers(c) : c \in D}
<1>1. 1 \in Int /\ b - 1 \in Int
  BY FragsNat, SMTT(30)
<1>2. IsFiniteSet(D)
  BY <1>1, FS_Interval
<1>3. f \in Surjection(D, T)
  BY DEF Surjection
<1>4. \A t \in T : IsFiniteSet(t)
  BY NumbersCount, FragsNat, SMTT(30) DEF Burst
<1> HIDE DEF D, f
<1>5. IsFiniteSet(T)
  BY <1>2, <1>3, FS_Surjection
<1>6. Earlier(b) = UNION T
  BY DEF Earlier, D
<1> HIDE DEF T
<1>7. IsFiniteSet(UNION T)
  BY <1>4, <1>5, FS_UNION
<1> QED BY <1>6, <1>7, FS_CardinalityType DEF Offset

\* A burst comes after all of the ones before it.
LEMMA OffsetGrows ==
    ASSUME NEW b \in Burst, NEW c \in b + 1 .. Len(Frags) + 1
    PROVE  Offset(b) + Frags[b] <= Offset(c)
<1> DEFINE E == Earlier(b)
           N == Numbers(b)
<1>1. b \in 1 .. Len(Frags) + 1 /\ c \in 1 .. Len(Frags) + 1
  BY FragsNat, SMTT(30) DEF Burst
<1>2. IsFiniteSet(E) /\ IsFiniteSet(N) /\ IsFiniteSet(Earlier(c))
      /\ Cardinality(N) = Frags[b] /\ Cardinality(E) \in Nat
  BY <1>1, EarlierFinite, NumbersCount DEF Offset
<1>3. E \cap N = {}
  BY <1>1, SMTT(30) DEF Earlier, Numbers
<1>4. E \cup N \subseteq Earlier(c)
  BY <1>1, FragsNat, SMTT(30) DEF Earlier, Burst
<1> HIDE DEF E, N
<1>5. IsFiniteSet(E \cup N) /\ Cardinality(E \cup N) = Cardinality(E) + Cardinality(N) - Cardinality({})
  BY <1>2, <1>3, FS_Union, SMTT(30)
<1>6. Cardinality(E \cup N) <= Cardinality(Earlier(c))
  BY <1>2, <1>4, FS_Subset
<1>7. Cardinality(E \cup N) = Offset(b) + Frags[b]
  BY <1>2, <1>5, FS_EmptySet, FragsNat, SMTT(30) DEF Offset, E
<1> QED BY <1>6, <1>7 DEF Offset

\* The next burst begins where this one ends.
LEMMA OffsetStep ==
    ASSUME NEW b \in Burst
    PROVE  Offset(b + 1) = Offset(b) + Frags[b]
<1> DEFINE E == Earlier(b)
           N == Numbers(b)
<1>1. b \in 1 .. Len(Frags) + 1 /\ b + 1 \in 1 .. Len(Frags) + 1
  BY FragsNat, SMTT(30) DEF Burst
<1>2. IsFiniteSet(E) /\ IsFiniteSet(N) /\ Cardinality(N) = Frags[b] /\ Cardinality(E) \in Nat
  BY <1>1, EarlierFinite, NumbersCount DEF Offset
<1>3. E \cap N = {}
  BY <1>1, SMTT(30) DEF Earlier, Numbers
<1>4. E \cup N = Earlier(b + 1)
  <2>1. 1 .. (b + 1) - 1 = (1 .. b - 1) \cup {b}
    BY <1>1, FragsNat, SMTT(30)
  <2> QED BY <2>1 DEF Earlier
<1> HIDE DEF E, N
<1>5. Cardinality(E \cup N) = Cardinality(E) + Cardinality(N) - Cardinality({})
  BY <1>2, <1>3, FS_Union, SMTT(30)
<1>6. Cardinality(E \cup N) = Offset(b) + Frags[b]
  BY <1>2, <1>5, FS_EmptySet, FragsNat, SMTT(30) DEF Offset, E
<1> QED BY <1>4, <1>6 DEF Offset

-----------------------------------------------------------------------------
(* Types, and what Recv has not handled as one sequence *)

\* What next becomes when all is sent.
Last == Frag(Len(Frags) + 1, 0)

\* The state of an assembly that holds parts.
Holding(parts) ==
    IF parts = << >> THEN NotAssembling ELSE Assembly(parts[1].burst, Len(parts) - 1, parts)

\* Types; an assembly is determined by its parts, which are numbered from 0.
Types ==
    /\ next \in Fragment \cup {Last}
    /\ net \in Seq(Fragment) /\ msgvec \in Seq(Fragment)
    /\ asm.parts \in Seq(Fragment) /\ asm = Holding(asm.parts)
    /\ \A m \in 1 .. Len(asm.parts) : asm.parts[m].seq = m - 1
    /\ m_current_batch_size \in 1 .. BATCH_SIZE
    /\ delivered \in Seq(Seq(Fragment))
    /\ disturbed \subseteq Burst
    /\ losses \in Nat /\ reorders \in Nat

\* The datagrams Recv has not handled, and the one sent next.
Stream ==
    [i \in 1 .. Len(msgvec) + Len(net) + 1 |->
        IF i <= Len(msgvec) THEN msgvec[i]
        ELSE IF i <= Len(msgvec) + Len(net) THEN net[i - Len(msgvec)] ELSE next]

\* A sequence without its first n elements.
Skip(s, n) == [i \in 1 .. Len(s) - n |-> s[i + n]]

\* A fragment is a burst and a number below the length of that burst.
LEMMA FragmentIs ==
    /\ \A b \in Burst : \A k \in 0 .. Frags[b] - 1 : Frag(b, k) \in Fragment
    /\ \A f \in Fragment :
        /\ f.burst \in Burst /\ f.seq \in 0 .. Frags[f.burst] - 1
        /\ f = Frag(f.burst, f.seq)
  BY SMTT(30) DEF Fragment, Frag

\* The fields of a fragment.
LEMMA FragFields == \A b, k : Frag(b, k).burst = b /\ Frag(b, k).seq = k
  BY DEF Frag

\* After a fragment comes a fragment, or the end.
LEMMA FollowingType ==
    ASSUME NEW f \in Fragment
    PROVE  /\ Following(f) \in Fragment \cup {Last}
           /\ Following(f).burst \in 1 .. Len(Frags) + 1 /\ Following(f).seq \in Nat
<1>1. f.burst \in Burst /\ f.seq \in 0 .. Frags[f.burst] - 1
  BY FragmentIs
<1>2. CASE IsEnd(f)
  <2>1. Following(f) = Frag(f.burst + 1, 0)
    BY <1>2 DEF Following
  <2>2. CASE f.burst = Len(Frags)
    BY <2>1, <2>2, <1>1, FragsNat, FragFields, SMTT(30) DEF Last, Burst
  <2>3. CASE f.burst # Len(Frags)
    <3>1. f.burst + 1 \in Burst /\ 0 \in 0 .. Frags[f.burst + 1] - 1
      BY <2>3, <1>1, FragsNat, SMTT(30) DEF Burst
    <3> QED BY <2>1, <3>1, FragmentIs, FragFields, FragsNat, SMTT(30) DEF Burst
  <2> QED BY <2>2, <2>3
<1>3. CASE ~IsEnd(f)
  <2>1. Following(f) = Frag(f.burst, f.seq + 1)
    BY <1>3 DEF Following
  <2>2. f.seq + 1 \in 0 .. Frags[f.burst] - 1
    BY <1>1, <1>3, FragsNat, SMTT(30) DEF IsEnd
  <2> QED BY <1>1, <2>1, <2>2, FragmentIs, FragFields, FragsNat, SMTT(30) DEF Burst
<1> QED BY <1>2, <1>3

\* The fields of an assembly.
LEMMA HoldingFields ==
    ASSUME NEW parts
    PROVE  /\ Holding(parts).parts = parts
           /\ Holding(parts).is_assembling <=> parts # << >>
           /\ parts # << >> => /\ Holding(parts).hdr = parts[1].burst
                               /\ Holding(parts).last_seq_no = Len(parts) - 1
           /\ parts = << >> => Holding(parts).hdr = 0
  BY DEF Holding, Assembly, NotAssembling

\* The stream is fragments, but for its last element, the one sent next.
LEMMA StreamType ==
    ASSUME Types
    PROVE  /\ Stream \in Seq(Fragment \cup {Last})
           /\ Len(Stream) = Len(msgvec) + Len(net) + 1
           /\ Stream[Len(Stream)] = next
           /\ \A i \in 1 .. Len(Stream) - 1 : Stream[i] \in Fragment
<1>1. Len(msgvec) \in Nat /\ Len(net) \in Nat
  BY SMTT(30) DEF Types
<1>2. \A i \in 1 .. Len(msgvec) + Len(net) : Stream[i] \in Fragment
  BY <1>1, SMTT(30) DEF Stream, Types
<1>3. Stream[Len(msgvec) + Len(net) + 1] = next
  BY <1>1, SMTT(30) DEF Stream
<1>4. Stream \in Seq(Fragment \cup {Last}) /\ Len(Stream) = Len(msgvec) + Len(net) + 1
  <2>1. Stream \in [1 .. Len(msgvec) + Len(net) + 1 -> Fragment \cup {Last}]
    BY <1>1, <1>2, <1>3, SMTT(30) DEF Stream, Types
  <2> QED BY <1>1, <2>1, SMTT(30)
<1> QED BY <1>1, <1>2, <1>3, <1>4, SMTT(30)

\* The length of the stream.
LEMMA StreamLen == Types => Len(Stream) = Len(msgvec) + Len(net) + 1
  BY StreamType

\* The same, in the next state.
LEMMA StreamLenNext == Types' => (Len(Stream) = Len(msgvec) + Len(net) + 1)'
  BY StreamLen, PTL

\* What a fault leaves of a sequence is a sequence of the same things.
LEMMA FaultTypes ==
    ASSUME NEW S, NEW s \in Seq(S), NEW k \in 1 .. Len(s)
    PROVE  /\ Without(s, k) \in Seq(S) /\ Len(Without(s, k)) = Len(s) - 1
           /\ Twice(s, k) \in Seq(S) /\ Len(Twice(s, k)) = Len(s) + 1
           /\ k + 1 <= Len(s) => Swapped(s, k) \in Seq(S) /\ Len(Swapped(s, k)) = Len(s)
<1>1. Without(s, k) \in [1 .. Len(s) - 1 -> S] /\ Len(s) - 1 \in Nat
  BY SMTT(30) DEF Without
<1>2. Twice(s, k) \in [1 .. Len(s) + 1 -> S] /\ Len(s) + 1 \in Nat
  BY SMTT(30) DEF Twice
<1>3. k + 1 <= Len(s) => Swapped(s, k) \in [1 .. Len(s) -> S] /\ Len(s) \in Nat
  BY SMTT(30) DEF Swapped
<1>4. Without(s, k) \in Seq(S) /\ Len(Without(s, k)) = Len(s) - 1
  BY <1>1, SMTT(30) DEF Without
<1>5. Twice(s, k) \in Seq(S) /\ Len(Twice(s, k)) = Len(s) + 1
  BY <1>2, SMTT(30) DEF Twice
<1>6. k + 1 <= Len(s) => Swapped(s, k) \in Seq(S) /\ Len(Swapped(s, k)) = Len(s)
  BY <1>3, SMTT(30) DEF Swapped
<1> QED BY <1>4, <1>5, <1>6

\* What each step of the network does to the stream.
LEMMA SendStream ==
    ASSUME Types, Types', SendFragment
    PROVE  /\ Len(Stream') = Len(Stream) + 1
           /\ \A i \in 1 .. Len(Stream) : Stream'[i] = Stream[i]
           /\ Stream'[Len(Stream) + 1] = Following(next)
<1>1. /\ msgvec' = msgvec /\ net' = Append(net, next) /\ next' = Following(next)
      /\ Len(msgvec) \in Nat /\ Len(net) \in Nat /\ net \in Seq(Fragment)
  BY SMTT(30) DEF Types, SendFragment, udpRecvVars
<1>2. next \in Fragment
  BY FragFields, FragsNat, SMTT(30) DEF Types, SendFragment, Burst, Last
<1>3. Len(net') = Len(net) + 1 /\ net'[Len(net) + 1] = next /\ \A i \in 1 .. Len(net) : net'[i] = net[i]
  BY <1>1, <1>2, SMTT(30)
<1>4. Stream' = [i \in 1 .. Len(msgvec) + (Len(net) + 1) + 1 |->
                    IF i <= Len(msgvec) THEN msgvec[i]
                    ELSE IF i <= Len(msgvec) + (Len(net) + 1) THEN net'[i - Len(msgvec)] ELSE next']
  BY <1>1, <1>3 DEF Stream
<1>5. Len(Stream) = Len(msgvec) + Len(net) + 1 /\ Len(Stream)' = Len(msgvec) + (Len(net) + 1) + 1
  BY <1>1, <1>3, StreamType, StreamLenNext
<1>6. ASSUME NEW i \in 1 .. Len(Stream) PROVE Stream'[i] = Stream[i]
  <2>1. CASE i <= Len(msgvec)
    BY <2>1, <1>1, <1>4, <1>5, SMTT(30) DEF Stream
  <2>2. CASE i > Len(msgvec) /\ i <= Len(msgvec) + Len(net)
    BY <2>2, <1>1, <1>3, <1>4, <1>5, SMTT(30) DEF Stream
  <2>3. CASE i = Len(msgvec) + Len(net) + 1
    BY <2>3, <1>1, <1>3, <1>4, <1>5, SMTT(30) DEF Stream
  <2> QED BY <1>1, <1>5, <2>1, <2>2, <2>3, SMTT(30)
<1>7. Stream'[Len(Stream) + 1] = Following(next)
  BY <1>1, <1>4, <1>5, SMTT(30)
<1> QED BY <1>1, <1>5, <1>6, <1>7, SMTT(30)

\* A fault at place k of the network is one at place p of the stream.
LEMMA LoseStream ==
    ASSUME Types, NEW k \in 1 .. Len(net), net' = Without(net, k), UNCHANGED <<next, msgvec>>
    PROVE  LET p == Len(msgvec) + k
           IN  /\ p \in 1 .. Len(Stream) - 1 /\ Stream[p] = net[k]
               /\ Stream' = Without(Stream, p)
<1> DEFINE L == Len(msgvec)
           n == Len(net)
           p == L + k
<1>0. net \in Seq(Fragment) /\ L \in Nat /\ n \in Nat
  BY SMTT(30) DEF Types
<1>1. L \in Nat /\ n \in Nat /\ Len(Stream) = L + n + 1 /\ Len(net') = n - 1
  BY <1>0, FaultTypes, StreamLen
<1>2. p \in 1 .. Len(Stream) - 1 /\ Stream[p] = net[k]
  BY <1>1, SMTT(30) DEF Stream
<1>3. Stream' = [i \in 1 .. L + (n - 1) + 1 |->
                    IF i <= L THEN msgvec[i]
                    ELSE IF i <= L + (n - 1) THEN net'[i - L] ELSE next]
  BY <1>1 DEF Stream
<1>4. ASSUME NEW i \in 1 .. L + n PROVE Stream'[i] = Without(Stream, p)[i]
  <2>1. Without(Stream, p)[i] = Stream[IF i < p THEN i ELSE i + 1]
    BY <1>1, SMTT(30) DEF Without
  <2>2. CASE i <= L
    BY <1>1, <1>3, <2>1, <2>2, SMTT(30) DEF Stream
  <2>3. CASE i > L /\ i <= L + (n - 1)
    <3>1. Stream'[i] = net[IF i - L < k THEN i - L ELSE (i - L) + 1]
      BY <1>1, <1>3, <2>3, SMTT(30) DEF Without
    <3> QED BY <1>1, <2>1, <2>3, <3>1, SMTT(30) DEF Stream
  <2>4. CASE i = L + n
    BY <1>1, <1>3, <2>1, <2>4, SMTT(30) DEF Stream
  <2> QED BY <1>1, <2>2, <2>3, <2>4, SMTT(30)
<1>5. Stream' = Without(Stream, p)
  <2>1. DOMAIN Stream' = 1 .. L + n /\ DOMAIN Without(Stream, p) = 1 .. L + n
    BY <1>1, <1>3, SMTT(30) DEF Without
  <2>2. Stream' = [i \in 1 .. L + n |-> Stream'[i]]
    BY <1>1, <1>3, SMTT(30)
  <2>3. Without(Stream, p) = [i \in 1 .. L + n |-> Without(Stream, p)[i]]
    BY <1>1, SMTT(30) DEF Without
  <2> QED BY <1>4, <2>2, <2>3
<1> QED BY <1>2, <1>5

\* A duplicate.
LEMMA DuplicateStream ==
    ASSUME Types, NEW k \in 1 .. Len(net), net' = Twice(net, k), UNCHANGED <<next, msgvec>>
    PROVE  LET p == Len(msgvec) + k
           IN  /\ p \in 1 .. Len(Stream) - 1 /\ Stream[p] = net[k]
               /\ Stream' = Twice(Stream, p)
<1> DEFINE L == Len(msgvec)
           n == Len(net)
           p == L + k
<1>0. net \in Seq(Fragment) /\ L \in Nat /\ n \in Nat
  BY SMTT(30) DEF Types
<1>1. L \in Nat /\ n \in Nat /\ Len(Stream) = L + n + 1 /\ Len(net') = n + 1
  BY <1>0, FaultTypes, StreamLen
<1>2. p \in 1 .. Len(Stream) - 1 /\ Stream[p] = net[k]
  BY <1>1, SMTT(30) DEF Stream
<1>3. Stream' = [i \in 1 .. L + (n + 1) + 1 |->
                    IF i <= L THEN msgvec[i]
                    ELSE IF i <= L + (n + 1) THEN net'[i - L] ELSE next]
  BY <1>1 DEF Stream
<1>4. ASSUME NEW i \in 1 .. L + n + 2 PROVE Stream'[i] = Twice(Stream, p)[i]
  <2>1. Twice(Stream, p)[i] = Stream[IF i <= p THEN i ELSE i - 1]
    BY <1>1, SMTT(30) DEF Twice
  <2>2. CASE i <= L
    BY <1>1, <1>3, <2>1, <2>2, SMTT(30) DEF Stream
  <2>3. CASE i > L /\ i <= L + (n + 1)
    <3>1. Stream'[i] = net[IF i - L <= k THEN i - L ELSE (i - L) - 1]
      BY <1>1, <1>3, <2>3, SMTT(30) DEF Twice
    <3> QED BY <1>1, <2>1, <2>3, <3>1, SMTT(30) DEF Stream
  <2>4. CASE i = L + n + 2
    BY <1>1, <1>3, <2>1, <2>4, SMTT(30) DEF Stream
  <2> QED BY <1>1, <2>2, <2>3, <2>4, SMTT(30)
<1>5. Stream' = Twice(Stream, p)
  <2>2. Stream' = [i \in 1 .. L + n + 2 |-> Stream'[i]]
    BY <1>1, <1>3, SMTT(30)
  <2>3. Twice(Stream, p) = [i \in 1 .. L + n + 2 |-> Twice(Stream, p)[i]]
    BY <1>1, SMTT(30) DEF Twice
  <2> QED BY <1>4, <2>2, <2>3
<1> QED BY <1>2, <1>5

\* An overtaking; the fragment sent next is not overtaken.
LEMMA OvertakeStream ==
    ASSUME Types, NEW k \in 1 .. Len(net) - 1, net' = Swapped(net, k), UNCHANGED <<next, msgvec>>
    PROVE  LET p == Len(msgvec) + k
           IN  /\ p \in 1 .. Len(Stream) - 2
               /\ Stream[p] = net[k] /\ Stream[p + 1] = net[k + 1]
               /\ Stream' = Swapped(Stream, p)
<1> DEFINE L == Len(msgvec)
           n == Len(net)
           p == L + k
<1>0. net \in Seq(Fragment) /\ L \in Nat /\ n \in Nat
  BY SMTT(30) DEF Types
<1>1. L \in Nat /\ n \in Nat /\ Len(Stream) = L + n + 1 /\ Len(net') = n
  BY <1>0, FaultTypes, StreamLen, SMTT(30)
<1>2. p \in 1 .. Len(Stream) - 2 /\ Stream[p] = net[k] /\ Stream[p + 1] = net[k + 1]
  BY <1>1, SMTT(30) DEF Stream
<1>3. Stream' = [i \in 1 .. L + n + 1 |->
                    IF i <= L THEN msgvec[i]
                    ELSE IF i <= L + n THEN net'[i - L] ELSE next]
  BY <1>1 DEF Stream
<1>4. ASSUME NEW i \in 1 .. L + n + 1 PROVE Stream'[i] = Swapped(Stream, p)[i]
  <2>1. Swapped(Stream, p)[i] = Stream[IF i = p THEN p + 1 ELSE IF i = p + 1 THEN p ELSE i]
    BY <1>1 DEF Swapped
  <2>2. CASE i <= L
    BY <1>1, <1>3, <2>1, <2>2, SMTT(30) DEF Stream
  <2>3. CASE i > L /\ i <= L + n
    <3>1. Stream'[i] = net[IF i - L = k THEN k + 1 ELSE IF i - L = k + 1 THEN k ELSE i - L]
      <4>1. Stream'[i] = net'[i - L] /\ i - L \in 1 .. n
        BY <1>1, <1>3, <2>3, SMTT(30)
      <4>2. \A j \in 1 .. n : net'[j] = net[IF j = k THEN k + 1 ELSE IF j = k + 1 THEN k ELSE j]
        BY DEF Swapped
      <4> QED BY <4>1, <4>2
    <3>2. CASE i = p
      BY <1>1, <2>1, <2>3, <3>1, <3>2, SMTT(30) DEF Stream
    <3>3. CASE i = p + 1
      BY <1>1, <2>1, <2>3, <3>1, <3>3, SMTT(30) DEF Stream
    <3>4. CASE i # p /\ i # p + 1
      BY <1>1, <2>1, <2>3, <3>1, <3>4, SMTT(30) DEF Stream
    <3> QED BY <3>2, <3>3, <3>4
  <2>4. CASE i = L + n + 1
    <3>1. i # p /\ i # p + 1 /\ ~(i <= L) /\ ~(i <= L + n)
      BY <1>1, <2>4, SMTT(30)
    <3>2. Stream'[i] = next
      BY <1>3, <3>1
    <3>3. Stream[i] = next
      BY <1>1, <3>1 DEF Stream
    <3> QED BY <2>1, <3>1, <3>2, <3>3
  <2> QED BY <1>1, <2>2, <2>3, <2>4, SMTT(30)
<1>5. Stream' = Swapped(Stream, p)
  <2>2. Stream' = [i \in 1 .. L + n + 1 |-> Stream'[i]]
    BY <1>1, <1>3
  <2>3. Swapped(Stream, p) = [i \in 1 .. L + n + 1 |-> Swapped(Stream, p)[i]]
    BY <1>1 DEF Swapped
  <2> QED BY <1>4, <2>2, <2>3
<1> QED BY <1>2, <1>5

\* recvmmsg moves a part of the stream from the network to the batch.
LEMMA RecvmmsgStream ==
    ASSUME Types, NEW k \in 1 .. Len(net), Recvmmsg(k)
    PROVE  Stream' = Stream /\ Len(msgvec') = k /\ msgvec' \in Seq(Fragment) /\ net' \in Seq(Fragment)
<1> DEFINE n == Len(net)
<1>1. /\ msgvec = << >> /\ Len(msgvec) = 0 /\ n \in Nat /\ next' = next
      /\ msgvec' = SubSeq(net, 1, k) /\ net' = SubSeq(net, k + 1, n)
      /\ net \in Seq(Fragment)
  BY SMTT(30) DEF Types, Recvmmsg
<1>2. /\ msgvec' \in Seq(Fragment) /\ Len(msgvec') = k
      /\ \A i \in 1 .. k : msgvec'[i] = net[i]
  BY <1>1, SMTT(30)
<1>3. /\ net' \in Seq(Fragment) /\ Len(net') = n - k
      /\ \A i \in 1 .. n - k : net'[i] = net[i + k]
  BY <1>1, SMTT(30)
<1>4. Stream' = [i \in 1 .. n + 1 |->
                    IF i <= k THEN msgvec'[i]
                    ELSE IF i <= n THEN net'[i - k] ELSE next]
  BY <1>1, <1>2, <1>3, SMTT(30) DEF Stream
<1>5. Stream = [i \in 1 .. n + 1 |-> IF i <= n THEN net[i] ELSE next]
  BY <1>1, SMTT(30) DEF Stream
<1>6. ASSUME NEW i \in 1 .. n + 1 PROVE Stream'[i] = Stream[i]
  BY <1>1, <1>2, <1>3, <1>4, <1>5, SMTT(30)
<1>7. Stream' = [i \in 1 .. n + 1 |-> Stream'[i]] /\ Stream = [i \in 1 .. n + 1 |-> Stream[i]]
  BY <1>4, <1>5
<1>8. Stream' = Stream
  BY <1>6, <1>7
<1> QED BY <1>2, <1>3, <1>8

\* A packet that fits is added to the parts.
LEMMA WrittenIs ==
    ASSUME Types, NEW f \in Fragment, Fits(f)
    PROVE  LET p == Append(asm.parts, f)
           IN  /\ p \in Seq(Fragment) /\ p # << >> /\ Len(p) = Len(asm.parts) + 1
               /\ \A m \in 1 .. Len(asm.parts) : p[m] = asm.parts[m]
               /\ p[Len(p)] = f
               /\ \A m \in 1 .. Len(p) : p[m].seq = m - 1
               /\ Written(f) = Holding(p) /\ Written(f).parts = p /\ Written(f).hdr = p[1].burst
<1> DEFINE p == Append(asm.parts, f)
<1>1. asm.parts \in Seq(Fragment) /\ Len(asm.parts) \in Nat
  BY SMTT(30) DEF Types
<1>2. /\ p \in Seq(Fragment) /\ p # << >> /\ Len(p) = Len(asm.parts) + 1
      /\ \A m \in 1 .. Len(asm.parts) : p[m] = asm.parts[m]
      /\ p[Len(p)] = f
  BY <1>1, SMTT(30)
<1>3. CASE asm.parts = << >>
  <2>1. ~asm.is_assembling
    BY <1>3, HoldingFields DEF Types
  <2>2. f.seq = 0
    BY <2>1 DEF Fits, IsStart
  <2>3. p = <<f>> /\ Len(p) = 1 /\ p[1] = f
    BY <1>3, SMTT(30)
  <2>4. Written(f) = Assembly(f.burst, f.seq, <<f>>)
    BY <2>1 DEF Written
  <2>5. Written(f) = Holding(p)
    BY <1>2, <2>2, <2>3, <2>4, SMTT(30) DEF Holding
  <2>6. \A m \in 1 .. Len(p) : p[m].seq = m - 1
    BY <2>2, <2>3, SMTT(30)
  <2> QED BY <1>2, <2>5, <2>6, HoldingFields
<1>4. CASE asm.parts # << >>
  <2>1. asm.is_assembling /\ asm.hdr = asm.parts[1].burst /\ asm.last_seq_no = Len(asm.parts) - 1
    BY <1>4, HoldingFields DEF Types
  <2>2. f.seq = Len(asm.parts)
    BY <1>1, <2>1, SMTT(30) DEF Fits, InOrder
  <2>3. p[1] = asm.parts[1]
    BY <1>1, <1>2, <1>4, SMTT(30)
  <2>4. Written(f) = Assembly(asm.hdr, f.seq, p)
    BY <2>1 DEF Written
  <2>5. Written(f) = Holding(p)
    BY <1>1, <1>2, <2>1, <2>2, <2>3, <2>4, SMTT(30) DEF Holding
  <2>6. \A m \in 1 .. Len(p) : p[m].seq = m - 1
    BY <1>1, <1>2, <2>2, SMTT(30) DEF Types
  <2> QED BY <1>2, <2>5, <2>6, HoldingFields
<1> QED BY <1>3, <1>4

\* The three things that can become of a packet of the batch.
Dropped(f) ==
    /\ ~Fits(f) \/ Spoilt(Written(f), f)
    /\ asm' = NotAssembling /\ delivered' = delivered
    /\ Stream' = Skip(Stream, 1) /\ Len(msgvec') = Len(msgvec) - 1
Kept(f) ==
    /\ Fits(f) /\ ~Spoilt(Written(f), f) /\ ~IsEnd(f)
    /\ asm' = Written(f) /\ delivered' = delivered
    /\ Stream' = Skip(Stream, 1) /\ Len(msgvec') = Len(msgvec) - 1
Returned(f) ==
    /\ Fits(f) /\ ~Spoilt(Written(f), f) /\ IsEnd(f)
    /\ asm' = NotAssembling /\ delivered' = Append(delivered, Append(asm.parts, f))
    /\ Stream' = Skip(Stream, Len(msgvec)) /\ Len(msgvec') = 0

\* Taking packets off the batch takes them off the stream.
LEMMA SkipStream ==
    ASSUME Types, UNCHANGED <<next, net>>, NEW n \in 1 .. Len(msgvec),
           Len(msgvec') = Len(msgvec) - n, \A i \in 1 .. Len(msgvec) - n : msgvec'[i] = msgvec[i + n]
    PROVE  Stream' = Skip(Stream, n)
<1> DEFINE L == Len(msgvec)
           k == Len(net)
<1>1. L \in Nat /\ k \in Nat /\ Len(Stream) = L + k + 1
  BY StreamLen, SMTT(30) DEF Types
<1>2. Stream' = [i \in 1 .. (L - n) + k + 1 |->
                    IF i <= L - n THEN msgvec'[i]
                    ELSE IF i <= (L - n) + k THEN net[i - (L - n)] ELSE next]
  BY DEF Stream
<1>3. Skip(Stream, n) = [i \in 1 .. (L - n) + k + 1 |-> Stream[i + n]]
  BY <1>1, SMTT(30) DEF Skip
<1>4. ASSUME NEW i \in 1 .. (L - n) + k + 1 PROVE Stream'[i] = Stream[i + n]
  <2>1. CASE i <= L - n
    BY <1>1, <1>2, <2>1, SMTT(30) DEF Stream
  <2>2. CASE i > L - n /\ i <= (L - n) + k
    BY <1>1, <1>2, <2>2, SMTT(30) DEF Stream
  <2>3. CASE i = (L - n) + k + 1
    BY <1>1, <1>2, <2>3, SMTT(30) DEF Stream
  <2>4. i <= L - n \/ (i > L - n /\ i <= (L - n) + k) \/ i = (L - n) + k + 1
    <3>1. n \in 1 .. L
      OBVIOUS
    <3> HIDE DEF L, k
    <3> QED BY <1>1, <3>1, SMTT(30)
  <2> QED BY <2>1, <2>2, <2>3, <2>4
<1>5. Stream' = [i \in 1 .. (L - n) + k + 1 |-> Stream'[i]]
  BY <1>2
<1> QED BY <1>3, <1>4, <1>5

\* What becomes of a packet.
LEMMA PacketCases ==
    ASSUME Types, Packet
    PROVE  LET f == Stream[1]
           IN  /\ f \in Fragment /\ Len(msgvec) \in Nat \ {0} /\ msgvec' \in Seq(Fragment)
               /\ Dropped(f) \/ Kept(f) \/ Returned(f)
<1> DEFINE f == Head(msgvec)
           L == Len(msgvec)
<1>1. msgvec \in Seq(Fragment) /\ msgvec # << >> /\ L \in Nat \ {0} /\ L \in Nat
  BY SMTT(30) DEF Types, Packet
<1>2. f \in Fragment /\ f = msgvec[1] /\ Stream[1] = f
  BY <1>1, SMTT(30) DEF Stream, Types
<1>3. UNCHANGED <<next, net>>
  BY DEF Packet
<1>4. ASSUME msgvec' = Tail(msgvec)
      PROVE  msgvec' \in Seq(Fragment) /\ Len(msgvec') = L - 1 /\ Stream' = Skip(Stream, 1)
  <2>1. msgvec' \in Seq(Fragment) /\ Len(msgvec') = L - 1 /\ \A i \in 1 .. L - 1 : msgvec'[i] = msgvec[i + 1]
    BY <1>1, <1>4, SMTT(30)
  <2> QED BY <1>1, <1>3, <2>1, SkipStream, SMTT(30)
<1>5. ASSUME msgvec' = << >>
      PROVE  msgvec' \in Seq(Fragment) /\ Len(msgvec') = 0 /\ Stream' = Skip(Stream, L)
  <2>1. msgvec' \in Seq(Fragment) /\ Len(msgvec') = 0 /\ Len(msgvec') = L - L
    BY <1>1, <1>5, SMTT(30)
  <2>2. \A i \in 1 .. L - L : msgvec'[i] = msgvec[i + L]
    BY <1>1, SMTT(30)
  <2> QED BY <1>1, <1>3, <2>1, <2>2, SkipStream, SMTT(30)
<1>6. CASE (~Fits(f) \/ Spoilt(Written(f), f)) /\ asm' = NotAssembling /\ msgvec' = Tail(msgvec) /\ UNCHANGED delivered
  BY <1>1, <1>2, <1>4, <1>6 DEF Dropped
<1>7. CASE /\ Fits(f) /\ ~Spoilt(Written(f), f) /\ ~IsEnd(f)
           /\ asm' = Written(f) /\ msgvec' = Tail(msgvec) /\ UNCHANGED delivered
  BY <1>1, <1>2, <1>4, <1>7 DEF Kept
<1>8. CASE /\ Fits(f) /\ ~Spoilt(Written(f), f) /\ IsEnd(f)
           /\ asm' = NotAssembling /\ msgvec' = << >> /\ delivered' = Append(delivered, Written(f).parts)
  BY <1>1, <1>2, <1>5, <1>8, WrittenIs DEF Returned
<1> QED BY <1>6, <1>7, <1>8 DEF Packet

\* recvmmsg is asked for no more than the burst still needs.
LEMMA BatchSizeIs ==
    ASSUME NEW p \in Seq(Fragment)
    PROVE  /\ BatchSize(Holding(p)) \in 1 .. BATCH_SIZE
           /\ p # << >> /\ Len(p) < Frags[p[1].burst]
                => BatchSize(Holding(p)) <= Frags[p[1].burst] - Len(p)
<1>1. CASE p = << >>
  BY <1>1, HoldingFields, FragsNat, SMTT(30) DEF BatchSize
<1>2. CASE p # << >>
  <2>1. p[1].burst \in Burst
    BY <1>2, FragmentIs, SMTT(30)
  <2>2. Frags[p[1].burst] \in Nat /\ Len(p) \in Nat
    BY <2>1, FragsNat, SMTT(30)
  <2> DEFINE r == Frags[p[1].burst] - Len(p)
  <2>3. BatchSize(Holding(p)) = IF r > 0 /\ r < BATCH_SIZE THEN r ELSE BATCH_SIZE
    BY <1>2, HoldingFields DEF BatchSize
  <2> QED BY <2>2, <2>3, FragsNat, SMTT(30)
<1> QED BY <1>1, <1>2

\* No parts, no assembly.
LEMMA EmptyHolding == NotAssembling = Holding(<< >>) /\ NotAssembling.parts = << >>
  BY DEF Holding, NotAssembling

\* The types hold when Recv is first called.
LEMMA InitTypes == UdpInit => Types
<1> SUFFICES ASSUME UdpInit PROVE Types
  OBVIOUS
<1>1. next \in Fragment \cup {Last}
  <2>1. CASE Len(Frags) = 0
    BY <2>1, SMTT(30) DEF UdpInit, Last
  <2>2. CASE Len(Frags) # 0
    <3>1. 1 \in Burst /\ 0 \in 0 .. Frags[1] - 1
      BY <2>2, FragsNat, SMTT(30) DEF Burst
    <3> QED BY <3>1, FragmentIs DEF UdpInit
  <2> QED BY <2>1, <2>2
<1>2. asm.parts = << >> /\ asm = Holding(asm.parts)
  BY EmptyHolding DEF UdpInit
<1> QED BY <1>1, <1>2, FragsNat, SMTT(30) DEF UdpInit, Types

\* The parts after a packet, and the types.
LEMMA PacketTypes ==
    ASSUME Types, Packet
    PROVE  Types'
<1> DEFINE f == Stream[1]
           p == Append(asm.parts, f)
<1>1. f \in Fragment /\ msgvec' \in Seq(Fragment) /\ (Dropped(f) \/ Kept(f) \/ Returned(f))
  BY PacketCases
<1>2. /\ UNCHANGED <<next, net, disturbed, losses, reorders>>
      /\ m_current_batch_size' = IF asm'.is_assembling /\ msgvec' # << >> THEN m_current_batch_size
                                 ELSE BatchSize(asm')
  BY DEF Packet
<1>3. /\ asm'.parts \in Seq(Fragment) /\ asm' = Holding(asm'.parts)
      /\ \A m \in 1 .. Len(asm'.parts) : asm'.parts[m].seq = m - 1
      /\ delivered' \in Seq(Seq(Fragment))
  <2>1. CASE Dropped(f)
    <3>1. asm'.parts = << >> /\ asm' = Holding(asm'.parts)
      BY <2>1, EmptyHolding DEF Dropped
    <3>2. delivered' \in Seq(Seq(Fragment))
      BY <2>1 DEF Dropped, Types
    <3> QED BY <3>1, <3>2, SMTT(30)
  <2>2. CASE Kept(f)
    <3>1. /\ p \in Seq(Fragment) /\ asm' = Holding(p) /\ asm'.parts = p
          /\ \A m \in 1 .. Len(p) : p[m].seq = m - 1
      BY <1>1, <2>2, WrittenIs DEF Kept
    <3>2. delivered' \in Seq(Seq(Fragment))
      BY <2>2 DEF Kept, Types
    <3> HIDE DEF p
    <3> QED BY <3>1, <3>2
  <2>3. CASE Returned(f)
    <3>1. asm'.parts = << >> /\ asm' = Holding(asm'.parts)
      BY <2>3, EmptyHolding DEF Returned
    <3>2. p \in Seq(Fragment)
      BY <1>1, <2>3, WrittenIs DEF Returned
    <3>3. delivered' = Append(delivered, p) /\ delivered \in Seq(Seq(Fragment))
      BY <2>3 DEF Returned, Types
    <3> HIDE DEF p
    <3>4. delivered' \in Seq(Seq(Fragment))
      BY <3>2, <3>3, SMTT(30)
    <3> QED BY <3>1, <3>4, SMTT(30)
  <2> QED BY <1>1, <2>1, <2>2, <2>3
<1>4. BatchSize(asm') \in 1 .. BATCH_SIZE
  BY <1>3, BatchSizeIs
<1>5. m_current_batch_size' \in 1 .. BATCH_SIZE
  BY <1>2, <1>4 DEF Types
<1> QED BY <1>1, <1>2, <1>3, <1>5 DEF Types

\* Every step keeps the types.
LEMMA TypesStep == Types /\ [UdpNext]_udpVars => Types'
<1> SUFFICES ASSUME Types, [UdpNext]_udpVars PROVE Types'
  OBVIOUS
<1>1. CASE SendFragment
  <2>1. next \in Fragment
    BY <1>1, FragFields, FragsNat, SMTT(30) DEF Types, SendFragment, Burst, Last
  <2>2. next' \in Fragment \cup {Last} /\ net' \in Seq(Fragment)
    BY <1>1, <2>1, FollowingType, SMTT(30) DEF SendFragment, Types
  <2> QED BY <1>1, <2>2 DEF Types, SendFragment, udpRecvVars
<1>2. CASE Lose
  <2>1. PICK k \in 1 .. Len(net) : net' = Without(net, k) /\ disturbed' = disturbed \cup {net[k].burst}
    BY <1>2 DEF Lose
  <2>3. net \in Seq(Fragment) /\ net[k] \in Fragment
    BY SMTT(30) DEF Types
  <2>2. net' \in Seq(Fragment) /\ net[k] \in Fragment
    BY <2>1, <2>3, FaultTypes
  <2> QED BY <1>2, <2>1, <2>2, FragmentIs, SMTT(30) DEF Types, Lose, udpRecvVars
<1>3. CASE Duplicate
  <2>1. PICK k \in 1 .. Len(net) : net' = Twice(net, k) /\ disturbed' = disturbed \cup {net[k].burst}
    BY <1>3 DEF Duplicate
  <2>3. net \in Seq(Fragment) /\ net[k] \in Fragment
    BY SMTT(30) DEF Types
  <2>2. net' \in Seq(Fragment) /\ net[k] \in Fragment
    BY <2>1, <2>3, FaultTypes
  <2> QED BY <1>3, <2>1, <2>2, FragmentIs, SMTT(30) DEF Types, Duplicate, udpRecvVars
<1>4. CASE Overtake
  <2>1. PICK k \in 1 .. Len(net) - 1 : /\ net' = Swapped(net, k)
                                       /\ disturbed' = disturbed \cup {net[k].burst, net[k + 1].burst}
    BY <1>4 DEF Overtake
  <2>2. k \in 1 .. Len(net) /\ k + 1 <= Len(net) /\ net \in Seq(Fragment)
    BY <2>1, SMTT(30) DEF Types
  <2>3. net' \in Seq(Fragment)
    BY <2>1, <2>2, FaultTypes
  <2>4. net[k] \in Fragment /\ net[k + 1] \in Fragment
    BY <2>2, SMTT(30)
  <2> QED BY <1>4, <2>1, <2>3, <2>4, FragmentIs, SMTT(30) DEF Types, Overtake, udpRecvVars
<1>5. CASE \E k \in 1 .. Len(net) : Recvmmsg(k)
  <2>1. msgvec' \in Seq(Fragment) /\ net' \in Seq(Fragment)
    BY <1>5, RecvmmsgStream
  <2> QED BY <1>5, <2>1 DEF Types, Recvmmsg
<1>6. CASE RecvError
  <2>1. asm'.parts = << >> /\ asm' = Holding(asm'.parts)
    BY <1>6, EmptyHolding DEF RecvError
  <2>2. {asm.hdr} \ {0} \subseteq Burst
    <3>1. CASE asm.parts = << >>
      BY <3>1, HoldingFields DEF Types
    <3>2. CASE asm.parts # << >>
      <4>1. asm.parts[1] \in Fragment /\ asm.hdr = asm.parts[1].burst
        BY <3>2, HoldingFields, SMTT(30) DEF Types
      <4> QED BY <4>1, FragmentIs
    <3> QED BY <3>1, <3>2
  <2> QED BY <1>6, <2>1, <2>2, FragsNat, SMTT(30) DEF Types, RecvError
<1>7. CASE Packet
  BY <1>7, PacketTypes
<1>8. CASE UNCHANGED udpVars
  BY <1>8 DEF udpVars, udpRecvVars, Types
<1> QED BY <1>1, <1>2, <1>3, <1>4, <1>5, <1>6, <1>7, <1>8 DEF UdpNext

-----------------------------------------------------------------------------
(* Batches cost no burst *)

\* Fragments that no fault touched follow one another.
Bound(D, x, y) ==
    \/ x.burst \notin D /\ ~IsEnd(x)
    \/ y.burst \notin D /\ (y.seq > 0 \/ y.burst - 1 \notin D)
Linked(D, x, y) == Bound(D, x, y) => y = Following(x)
Chained == \A i \in 1 .. Len(Stream) - 1 : Linked(disturbed, Stream[i], Stream[i + 1])

\* Recv holds what came before the first fragment of the stream.
Upto(f) == [m \in 1 .. f.seq |-> Frag(f.burst, m - 1)]
HeadMatches ==
    {Stream[1].burst - 1, Stream[1].burst} \cap disturbed = {} => asm = Holding(Upto(Stream[1]))

\* A batch does not reach beyond the burst that is being assembled.
Missing == Frags[asm.parts[1].burst] - Len(asm.parts)
BatchFits ==
    /\ Len(msgvec) <= BATCH_SIZE
    /\ asm.parts # << >> /\ Missing > 0 => Len(msgvec) <= Missing
    /\ msgvec = << >> => m_current_batch_size = BatchSize(asm)

\* The inductive invariant.
IntactInv == Types /\ DeliveredAfterIntact /\ (Roomy => Chained /\ HeadMatches /\ BatchFits)

\* The burst and the number of what follows a fragment.
LEMMA FollowingIs ==
    ASSUME NEW f \in Fragment
    PROVE  /\ IsEnd(f) => Following(f).burst = f.burst + 1 /\ Following(f).seq = 0
           /\ ~IsEnd(f) => Following(f).burst = f.burst /\ Following(f).seq = f.seq + 1
           /\ f.seq + 1 > 0 /\ f.burst \in Nat /\ f.seq \in Nat
  BY FragFields, FragmentIs, FragsNat, SMTT(30) DEF Following, Burst

\* What comes before an undisturbed fragment is its predecessor.
LEMMA LinkBack ==
    ASSUME NEW D, NEW x \in Fragment, NEW y, Linked(D, x, y),
           y.burst \notin D, y.seq > 0 \/ y.burst - 1 \notin D
    PROVE  /\ y = Following(x)
           /\ y.seq > 0 => x.burst = y.burst
           /\ y.seq = 0 => x.burst = y.burst - 1
<1>1. y = Following(x)
  BY DEF Linked, Bound
<1> QED BY <1>1, FollowingIs, SMTT(30)

\* What comes after a fragment inside an undisturbed burst is its successor.
LEMMA LinkOn ==
    ASSUME NEW D, NEW x \in Fragment, NEW y, Linked(D, x, y), x.burst \notin D, ~IsEnd(x)
    PROVE  y = Following(x) /\ y.burst = x.burst
<1>1. y = Following(x)
  BY DEF Linked, Bound
<1> QED BY <1>1, FollowingIs

\* More disturbed bursts, fewer demands.
LEMMA LinkedMore ==
    ASSUME NEW D, NEW E, D \subseteq E, NEW x, NEW y, Linked(D, x, y)
    PROVE  Linked(E, x, y)
  BY DEF Linked, Bound

\* The three faults keep the chain: what they part is disturbed.
LEMMA ChainLose ==
    ASSUME NEW s \in Seq(Fragment \cup {Last}), \A i \in 1 .. Len(s) - 1 : s[i] \in Fragment,
           NEW D, \A i \in 1 .. Len(s) - 1 : Linked(D, s[i], s[i + 1]),
           NEW p \in 1 .. Len(s) - 1, NEW E, D \subseteq E, s[p].burst \in E
    PROVE  \A i \in 1 .. Len(s) - 2 : Linked(E, Without(s, p)[i], Without(s, p)[i + 1])
<1> SUFFICES ASSUME NEW i \in 1 .. Len(s) - 2
             PROVE  Linked(E, Without(s, p)[i], Without(s, p)[i + 1])
  OBVIOUS
<1>1. /\ Without(s, p)[i] = s[IF i < p THEN i ELSE i + 1]
      /\ Without(s, p)[i + 1] = s[IF i + 1 < p THEN i + 1 ELSE i + 2]
      /\ i \in 1 .. Len(s) - 1 /\ i + 1 \in 1 .. Len(s) - 1 /\ Len(s) \in Nat
  BY SMTT(30) DEF Without
<1>2. Linked(E, s[i], s[i + 1]) /\ Linked(E, s[i + 1], s[i + 2])
  BY <1>1, LinkedMore, SMTT(30)
<1>3. CASE i + 1 < p
  BY <1>1, <1>2, <1>3, SMTT(30)
<1>4. CASE i >= p
  BY <1>1, <1>2, <1>4, SMTT(30)
<1>5. CASE i + 1 = p
  <2>1. Without(s, p)[i] = s[i] /\ Without(s, p)[i + 1] = s[p + 1]
    BY <1>1, <1>5, SMTT(30)
  <2>2. Linked(D, s[i], s[p]) /\ Linked(D, s[p], s[p + 1]) /\ s[i] \in Fragment /\ s[p] \in Fragment
    BY <1>1, <1>5
  <2>3. ~(s[i].burst \notin E /\ ~IsEnd(s[i]))
    BY <2>2, LinkOn
  <2>4. s[p + 1].seq \in Nat
    BY <1>1, FollowingIs, FragFields, SMTT(30) DEF Last
  <2>5. ~(s[p + 1].burst \notin E /\ (s[p + 1].seq > 0 \/ s[p + 1].burst - 1 \notin E))
    BY <2>2, <2>4, LinkBack, SMTT(30)
  <2> QED BY <2>1, <2>3, <2>5 DEF Linked, Bound
<1> QED BY <1>1, <1>3, <1>4, <1>5, SMTT(30)

\* A duplicate.
LEMMA ChainDuplicate ==
    ASSUME NEW s \in Seq(Fragment \cup {Last}),
           NEW D, \A i \in 1 .. Len(s) - 1 : Linked(D, s[i], s[i + 1]),
           NEW p \in 1 .. Len(s) - 1, NEW E, D \subseteq E, s[p].burst \in E
    PROVE  \A i \in 1 .. Len(s) : Linked(E, Twice(s, p)[i], Twice(s, p)[i + 1])
<1> SUFFICES ASSUME NEW i \in 1 .. Len(s)
             PROVE  Linked(E, Twice(s, p)[i], Twice(s, p)[i + 1])
  OBVIOUS
<1>1. /\ Twice(s, p)[i] = s[IF i <= p THEN i ELSE i - 1]
      /\ Twice(s, p)[i + 1] = s[IF i + 1 <= p THEN i + 1 ELSE i]
      /\ Len(s) \in Nat
  BY SMTT(30) DEF Twice
<1>2. CASE i + 1 <= p
  <2>1. i \in 1 .. Len(s) - 1
    BY <1>1, <1>2, SMTT(30)
  <2>2. Linked(E, s[i], s[i + 1])
    BY <2>1, LinkedMore
  <2> QED BY <1>1, <1>2, <2>2, SMTT(30)
<1>3. CASE i > p
  <2>1. i - 1 \in 1 .. Len(s) - 1 /\ (i - 1) + 1 = i
    BY <1>1, <1>3, SMTT(30)
  <2>2. Linked(E, s[i - 1], s[i])
    BY <2>1, LinkedMore
  <2> QED BY <1>1, <1>3, <2>2, SMTT(30)
<1>4. CASE i = p
  <2>1. Twice(s, p)[i] = s[p] /\ Twice(s, p)[i + 1] = s[p]
    BY <1>1, <1>4, SMTT(30)
  <2> QED BY <2>1 DEF Linked, Bound
<1> QED BY <1>1, <1>2, <1>3, <1>4, SMTT(30)

\* An overtaking disturbs both bursts it touches.
LEMMA ChainOvertake ==
    ASSUME NEW s \in Seq(Fragment \cup {Last}), \A i \in 1 .. Len(s) - 1 : s[i] \in Fragment,
           NEW D, \A i \in 1 .. Len(s) - 1 : Linked(D, s[i], s[i + 1]),
           NEW p \in 1 .. Len(s) - 2, NEW E, D \subseteq E, s[p].burst \in E, s[p + 1].burst \in E
    PROVE  \A i \in 1 .. Len(s) - 1 : Linked(E, Swapped(s, p)[i], Swapped(s, p)[i + 1])
<1> DEFINE At(i) == Swapped(s, p)[i]
<1> SUFFICES ASSUME NEW i \in 1 .. Len(s) - 1 PROVE Linked(E, At(i), At(i + 1))
  OBVIOUS
<1>0. Len(s) \in Nat /\ i \in Int /\ i + 1 \in 1 .. Len(s) /\ i \in 1 .. Len(s)
  BY SMTT(30)
<1>1. \A j \in 1 .. Len(s) : At(j) = s[IF j = p THEN p + 1 ELSE IF j = p + 1 THEN p ELSE j]
  BY DEF Swapped
<1> HIDE DEF At
<1>2. CASE i + 1 < p \/ i > p + 1
  <2>1. At(i) = s[i] /\ At(i + 1) = s[i + 1]
    BY <1>0, <1>1, <1>2, SMTT(30)
  <2> QED BY <2>1, LinkedMore, SMTT(30)
<1>3. CASE i + 1 = p
  <2>1. At(i) = s[i] /\ At(i + 1) = s[p + 1]
    BY <1>0, <1>1, <1>3, SMTT(30)
  <2>2. Linked(D, s[i], s[p]) /\ s[i] \in Fragment
    BY <1>3
  <2>3. ~(s[i].burst \notin E /\ ~IsEnd(s[i]))
    BY <2>2, LinkOn, SMTT(30)
  <2> QED BY <2>1, <2>3 DEF Linked, Bound
<1>4. CASE i = p
  <2>1. At(i) = s[p + 1] /\ At(i + 1) = s[p]
    BY <1>0, <1>1, <1>4
  <2> QED BY <2>1 DEF Linked, Bound
<1>5. CASE i = p + 1
  <2>1. At(i) = s[p] /\ At(i + 1) = s[p + 2]
    BY <1>0, <1>1, <1>5, SMTT(30)
  <2>2. Linked(D, s[p + 1], s[p + 2]) /\ s[p + 1] \in Fragment
    BY <1>0, <1>5, SMTT(30)
  <2>3. s[p + 2].seq \in Nat
    BY <1>0, FollowingIs, FragFields, SMTT(30) DEF Last
  <2>4. ~(s[p + 2].burst \notin E /\ (s[p + 2].seq > 0 \/ s[p + 2].burst - 1 \notin E))
    BY <2>2, <2>3, LinkBack, SMTT(30)
  <2> QED BY <2>1, <2>4 DEF Linked, Bound
<1> QED BY <1>0, <1>2, <1>3, <1>4, <1>5, SMTT(30)

\* DeliveredAfterIntact where batches fit.
Intact == \A b \in Burst : Consumed(b) /\ {b - 1, b} \cap disturbed = {} => Delivered(b)

\* A step that leaves the head of the stream and the assembly alone.
LEMMA HeadKept ==
    ASSUME HeadMatches, Stream'[1] = Stream[1], disturbed \subseteq disturbed', asm' = asm
    PROVE  HeadMatches'
  BY DEF HeadMatches

\* A step that returns nothing and finishes no undisturbed burst.
LEMMA IntactKept ==
    ASSUME Intact, delivered' = delivered, disturbed \subseteq disturbed',
           \A b \in Burst : Consumed(b)' /\ b \notin disturbed' => Consumed(b)
    PROVE  Intact'
  BY DEF Intact, Delivered

\* Sending a fragment adds to the end of the chain.
LEMMA SendIntact ==
    ASSUME Types, Types', Chained, HeadMatches, BatchFits, Intact, SendFragment
    PROVE  Chained' /\ HeadMatches' /\ BatchFits' /\ Intact'
<1> DEFINE n == Len(Stream)
<1>0. Len(msgvec) \in Nat /\ Len(net) \in Nat
  BY SMTT(30) DEF Types
<1>1. /\ n \in Nat \ {0} /\ Len(Stream') = n + 1
      /\ \A i \in 1 .. n : Stream'[i] = Stream[i]
      /\ Stream'[n + 1] = Following(next) /\ Stream[n] = next
  BY <1>0, StreamType, SendStream, SMTT(30)
<1>2. UNCHANGED <<udpRecvVars, disturbed>> /\ net' = Append(net, next) /\ next' = Following(next)
  BY DEF SendFragment
<1>3. Chained'
  <2>1. ASSUME NEW i \in 1 .. n + 1 - 1
        PROVE  Linked(disturbed, Stream'[i], Stream'[i + 1])
    <3>1. CASE i < n
      BY <1>1, <3>1, SMTT(30) DEF Chained
    <3>2. CASE i = n
      BY <1>1, <3>2, SMTT(30) DEF Linked
    <3> QED BY <1>1, <3>1, <3>2, SMTT(30)
  <2> QED BY <1>1, <1>2, <2>1, SMTT(30) DEF Chained
<1>4. HeadMatches'
  BY <1>1, <1>2, HeadKept, SMTT(30) DEF udpRecvVars
<1>5. BatchFits'
  BY <1>2 DEF BatchFits, Missing, udpRecvVars
<1>6. next \in Fragment
  BY FragFields, FragsNat, SMTT(30) DEF Types, SendFragment, Burst, Last
<1>7. ASSUME NEW b \in Burst, Consumed(b)' PROVE Consumed(b)
  <2>1. next'.burst > b /\ (\A k \in DOMAIN net' : net'[k].burst # b)
        /\ (\A k \in DOMAIN msgvec : msgvec[k].burst # b)
    BY <1>2, <1>7 DEF Consumed, udpRecvVars
  <2>2. /\ net \in Seq(Fragment) /\ Len(net) + 1 \in DOMAIN net' /\ net'[Len(net) + 1] = next
        /\ \A k \in DOMAIN net : k \in DOMAIN net' /\ net'[k] = net[k]
    BY <1>2, <1>6, SMTT(30) DEF Types
  <2>3. next.burst # b /\ \A k \in DOMAIN net : net[k].burst # b
    BY <2>1, <2>2
  <2>4. next.burst > b
    BY <1>2, <1>6, <2>1, <2>3, FollowingIs, SMTT(30) DEF Burst
  <2> QED BY <2>1, <2>3, <2>4 DEF Consumed
<1>8. Intact'
  BY <1>2, <1>7, IntactKept DEF udpRecvVars
<1> QED BY <1>3, <1>4, <1>5, <1>8

\* A loss keeps the invariant: the burst it touches is disturbed from then on.
LEMMA LoseIntact ==
    ASSUME Types, Types', Chained, HeadMatches, BatchFits, Intact, Lose
    PROVE  Chained' /\ HeadMatches' /\ BatchFits' /\ Intact'
<1> DEFINE n == Len(Stream)
<1>0. UNCHANGED <<next, udpRecvVars>> /\ msgvec' = msgvec /\ next' = next /\ asm' = asm /\ delivered' = delivered
  BY DEF Lose, udpRecvVars
<1>1. PICK k \in 1 .. Len(net) : net' = Without(net, k) /\ disturbed' = disturbed \cup {net[k].burst}
  BY DEF Lose
<1> DEFINE p == Len(msgvec) + k
<1>2. /\ p \in 1 .. n - 1 /\ Stream' = Without(Stream, p) /\ Stream[p] = net[k]
  BY <1>0, <1>1, LoseStream
<1> HIDE DEF p
<1>3. /\ Stream \in Seq(Fragment \cup {Last}) /\ n \in Nat /\ \A i \in 1 .. n - 1 : Stream[i] \in Fragment
  BY StreamType, SMTT(30)
<1>4. Len(Stream') = n - 1
  BY <1>2, <1>3, FaultTypes, SMTT(30)
<1>5. Chained'
  <2>1. \A i \in 1 .. n - 2 : Linked(disturbed', Stream'[i], Stream'[i + 1])
    BY <1>1, <1>2, <1>3, ChainLose DEF Chained
  <2>2. (n - 1) - 1 = n - 2
    BY <1>3, SMTT(30)
  <2> QED BY <1>4, <2>1, <2>2 DEF Chained
<1>6. HeadMatches'
  <2>1. CASE p # 1
    <3>1. Stream'[1] = Stream[1]
      BY <1>2, <1>3, <2>1, SMTT(30) DEF Without
    <3> QED BY <1>0, <1>1, <3>1, HeadKept
  <2>2. CASE p = 1
    <3>1. Stream'[1] = Stream[2] /\ Stream[1] \in Fragment /\ Linked(disturbed, Stream[1], Stream[2])
      BY <1>2, <1>3, <2>2, SMTT(30) DEF Without, Chained
    <3>2. Stream[2].seq \in Nat
      BY <1>2, <1>3, FollowingIs, FragFields, SMTT(30) DEF Last
    <3>3. Stream[1].burst \in disturbed'
      BY <1>1, <1>2, <2>2
    <3>4. ~({Stream[2].burst - 1, Stream[2].burst} \cap disturbed' = {})
      <4> SUFFICES ASSUME {Stream[2].burst - 1, Stream[2].burst} \cap disturbed' = {} PROVE FALSE
        OBVIOUS
      <4>1. Stream[2].burst \notin disturbed' /\ Stream[2].burst - 1 \notin disturbed'
        OBVIOUS
      <4>2. Stream[2].burst \notin disturbed /\ Stream[2].burst - 1 \notin disturbed
        BY <1>1, <4>1
      <4>3. Stream[1].burst = Stream[2].burst \/ Stream[1].burst = Stream[2].burst - 1
        BY <3>1, <3>2, <4>2, LinkBack, SMTT(30)
      <4> QED BY <3>3, <4>1, <4>3
    <3> QED BY <3>1, <3>4 DEF HeadMatches
  <2> QED BY <2>1, <2>2
<1>7. BatchFits'
  BY <1>0 DEF BatchFits, Missing, udpRecvVars
<1>8. ASSUME NEW b \in Burst, Consumed(b)', b \notin disturbed' PROVE Consumed(b)
  <2>1. ASSUME NEW j \in DOMAIN net PROVE net[j].burst # b
    <3>0. net \in Seq(Fragment)
      BY DEF Types
    <3>1. j \in 1 .. Len(net) /\ Len(net) \in Nat /\ DOMAIN net' = 1 .. Len(net) - 1
      BY <1>1, <3>0, SMTT(30) DEF Without
    <3>2. CASE j = k
      BY <1>1, <1>8, <3>2
    <3>3. CASE j < k
      <4>1. j \in DOMAIN net' /\ net'[j] = net[j]
        BY <1>1, <3>1, <3>3, SMTT(30) DEF Without
      <4> QED BY <1>8, <4>1 DEF Consumed
    <3>4. CASE j > k
      <4>1. j - 1 \in DOMAIN net' /\ net'[j - 1] = net[j]
        BY <1>1, <3>1, <3>4, SMTT(30) DEF Without
      <4> QED BY <1>8, <4>1 DEF Consumed
    <3> QED BY <3>1, <3>2, <3>3, <3>4, SMTT(30)
  <2> QED BY <1>0, <1>8, <2>1 DEF Consumed
<1>9. Intact'
  BY <1>0, <1>1, <1>8, IntactKept
<1> QED BY <1>5, <1>6, <1>7, <1>9

\* So does a duplicate.
LEMMA DuplicateIntact ==
    ASSUME Types, Types', Chained, HeadMatches, BatchFits, Intact, Duplicate
    PROVE  Chained' /\ HeadMatches' /\ BatchFits' /\ Intact'
<1> DEFINE n == Len(Stream)
<1>0. UNCHANGED <<next, udpRecvVars>> /\ msgvec' = msgvec /\ next' = next /\ asm' = asm /\ delivered' = delivered
  BY DEF Duplicate, udpRecvVars
<1>1. PICK k \in 1 .. Len(net) : net' = Twice(net, k) /\ disturbed' = disturbed \cup {net[k].burst}
  BY DEF Duplicate
<1> DEFINE p == Len(msgvec) + k
<1>2. /\ p \in 1 .. n - 1 /\ Stream' = Twice(Stream, p) /\ Stream[p] = net[k]
  BY <1>0, <1>1, DuplicateStream
<1> HIDE DEF p
<1>3. Stream \in Seq(Fragment \cup {Last}) /\ n \in Nat
  BY StreamType, SMTT(30)
<1>4. Len(Stream') = n + 1
  BY <1>2, <1>3, FaultTypes, SMTT(30)
<1>5. Chained'
  <2>1. \A i \in 1 .. n : Linked(disturbed', Stream'[i], Stream'[i + 1])
    BY <1>1, <1>2, <1>3, ChainDuplicate DEF Chained
  <2>2. (n + 1) - 1 = n
    BY <1>3, SMTT(30)
  <2> QED BY <1>4, <2>1, <2>2 DEF Chained
<1>6. HeadMatches'
  <2>1. Stream'[1] = Stream[1]
    BY <1>2, <1>3, SMTT(30) DEF Twice
  <2> QED BY <1>0, <1>1, <2>1, HeadKept
<1>7. BatchFits'
  BY <1>0 DEF BatchFits, Missing, udpRecvVars
<1>8. ASSUME NEW b \in Burst, Consumed(b)', b \notin disturbed' PROVE Consumed(b)
  <2>1. ASSUME NEW j \in DOMAIN net PROVE net[j].burst # b
    <3>0. net \in Seq(Fragment)
      BY DEF Types
    <3>1. j \in 1 .. Len(net) /\ Len(net) \in Nat /\ DOMAIN net' = 1 .. Len(net) + 1
      BY <1>1, <3>0, SMTT(30) DEF Twice
    <3>2. CASE j <= k
      <4>1. j \in DOMAIN net' /\ net'[j] = net[j]
        BY <1>1, <3>1, <3>2, SMTT(30) DEF Twice
      <4> QED BY <1>8, <4>1 DEF Consumed
    <3>3. CASE j > k
      <4>1. j + 1 \in DOMAIN net' /\ net'[j + 1] = net[j]
        BY <1>1, <3>1, <3>3, SMTT(30) DEF Twice
      <4> QED BY <1>8, <4>1 DEF Consumed
    <3> QED BY <3>1, <3>2, <3>3, SMTT(30)
  <2> QED BY <1>0, <1>8, <2>1 DEF Consumed
<1>9. Intact'
  BY <1>0, <1>1, <1>8, IntactKept
<1> QED BY <1>5, <1>6, <1>7, <1>9

\* So does an overtaking.
LEMMA OvertakeIntact ==
    ASSUME Types, Types', Chained, HeadMatches, BatchFits, Intact, Overtake
    PROVE  Chained' /\ HeadMatches' /\ BatchFits' /\ Intact'
<1> DEFINE n == Len(Stream)
<1>0. UNCHANGED <<next, udpRecvVars>> /\ msgvec' = msgvec /\ next' = next /\ asm' = asm /\ delivered' = delivered
  BY DEF Overtake, udpRecvVars
<1>1. PICK k \in 1 .. Len(net) - 1 : /\ net' = Swapped(net, k)
                                     /\ disturbed' = disturbed \cup {net[k].burst, net[k + 1].burst}
  BY DEF Overtake
<1> DEFINE p == Len(msgvec) + k
<1>2. /\ p \in 1 .. n - 2 /\ Stream' = Swapped(Stream, p)
      /\ Stream[p] = net[k] /\ Stream[p + 1] = net[k + 1]
  BY <1>0, <1>1, OvertakeStream
<1> HIDE DEF p
<1>3. /\ Stream \in Seq(Fragment \cup {Last}) /\ n \in Nat /\ \A i \in 1 .. n - 1 : Stream[i] \in Fragment
  BY StreamType, SMTT(30)
<1>4. Len(Stream') = n
  <2>1. p \in 1 .. n /\ p + 1 <= n
    BY <1>2, <1>3, SMTT(30)
  <2> QED BY <1>2, <1>3, <2>1, FaultTypes
<1>5. Chained'
  <2>1. \A i \in 1 .. n - 1 : Linked(disturbed', Stream'[i], Stream'[i + 1])
    BY <1>1, <1>2, <1>3, ChainOvertake DEF Chained
  <2> QED BY <1>4, <2>1 DEF Chained
<1>6. HeadMatches'
  <2>1. CASE p # 1
    <3>1. Stream'[1] = Stream[1]
      BY <1>2, <1>3, <2>1, SMTT(30) DEF Swapped
    <3> QED BY <1>0, <1>1, <3>1, HeadKept
  <2>2. CASE p = 1
    <3>1. Stream'[1] = Stream[2]
      BY <1>2, <1>3, <2>2, SMTT(30) DEF Swapped
    <3>2. Stream[2].burst \in disturbed'
      BY <1>1, <1>2, <2>2, SMTT(30)
    <3> QED BY <3>1, <3>2 DEF HeadMatches
  <2> QED BY <2>1, <2>2
<1>7. BatchFits'
  BY <1>0 DEF BatchFits, Missing, udpRecvVars
<1>8. ASSUME NEW b \in Burst, Consumed(b)', b \notin disturbed' PROVE Consumed(b)
  <2>1. ASSUME NEW j \in DOMAIN net PROVE net[j].burst # b
    <3>0. net \in Seq(Fragment)
      BY DEF Types
    <3>1. j \in 1 .. Len(net) /\ Len(net) \in Nat /\ DOMAIN net' = 1 .. Len(net)
      BY <1>1, <3>0, SMTT(30) DEF Swapped
    <3>2. CASE j = k \/ j = k + 1
      BY <1>1, <1>8, <3>2
    <3>3. CASE j # k /\ j # k + 1
      <4>1. j \in DOMAIN net' /\ net'[j] = net[j]
        BY <1>1, <3>1, <3>3 DEF Swapped
      <4> QED BY <1>8, <4>1 DEF Consumed
    <3> QED BY <3>2, <3>3
  <2> QED BY <1>0, <1>8, <2>1 DEF Consumed
<1>9. Intact'
  BY <1>0, <1>1, <1>8, IntactKept
<1> QED BY <1>5, <1>6, <1>7, <1>9

\* recvmmsg leaves the stream alone and takes at most what fits.
LEMMA RecvmmsgIntact ==
    ASSUME Types, Types', Chained, HeadMatches, BatchFits, Intact,
           NEW k \in 1 .. Len(net), Recvmmsg(k)
    PROVE  Chained' /\ HeadMatches' /\ BatchFits' /\ Intact'
<1>1. Stream' = Stream /\ Len(msgvec') = k /\ msgvec' \in Seq(Fragment)
  BY RecvmmsgStream
<1>2. UNCHANGED <<next, asm, m_current_batch_size, delivered, disturbed>> /\ msgvec = << >>
  BY DEF Recvmmsg
<1>3. Chained' /\ HeadMatches'
  BY <1>1, <1>2 DEF Chained, HeadMatches
<1>4. BatchFits'
  <2>1. k <= m_current_batch_size /\ m_current_batch_size = BatchSize(Holding(asm.parts))
    BY <1>2 DEF BatchFits, Recvmmsg, Types
  <2>2. asm.parts \in Seq(Fragment) /\ k \in Nat /\ k > 0
    BY SMTT(30) DEF Types
  <2>3. k <= BATCH_SIZE
    BY <2>1, <2>2, BatchSizeIs, FragsNat, SMTT(30)
  <2>4. asm.parts # << >> /\ Missing > 0 => k <= Missing
    <3> SUFFICES ASSUME asm.parts # << >>, Missing > 0 PROVE k <= Missing
      OBVIOUS
    <3>1. asm.parts[1] \in Fragment /\ Len(asm.parts) \in Nat
      BY <2>2, SMTT(30)
    <3>2. Frags[asm.parts[1].burst] \in Nat
      BY <3>1, FragmentIs, FragsNat
    <3>3. BatchSize(Holding(asm.parts)) <= Missing /\ Missing \in Int
      BY <2>2, <3>1, <3>2, BatchSizeIs, SMTT(30) DEF Missing
    <3>4. BatchSize(Holding(asm.parts)) \in Int
      BY <2>2, BatchSizeIs, SMTT(30)
    <3> QED BY <2>1, <2>2, <3>3, <3>4, SMTT(30)
  <2>5. msgvec' # << >>
    BY <1>1, <2>2, SMTT(30)
  <2> QED BY <1>1, <1>2, <2>3, <2>4, <2>5 DEF BatchFits, Missing
<1>5. Intact'
  <2>1. \A b : Consumed(b)' => Consumed(b)
    <3> SUFFICES ASSUME NEW b, Consumed(b)' PROVE Consumed(b)
      OBVIOUS
    <3>1. net \in Seq(Fragment) /\ msgvec' = SubSeq(net, 1, k) /\ net' = SubSeq(net, k + 1, Len(net))
      BY DEF Types, Recvmmsg
    <3>2. ASSUME NEW j \in DOMAIN net PROVE net[j].burst # b
      <4>1. CASE j <= k
        <5>1. j \in DOMAIN msgvec' /\ msgvec'[j] = net[j]
          BY <3>1, <4>1, SMTT(30)
        <5> QED BY <5>1 DEF Consumed
      <4>2. CASE j > k
        <5>1. j - k \in DOMAIN net' /\ net'[j - k] = net[j]
          BY <3>1, <4>2, SMTT(30)
        <5> QED BY <5>1 DEF Consumed
      <4> QED BY <3>1, <4>1, <4>2, SMTT(30)
    <3> QED BY <1>2, <3>2, SMTT(30) DEF Consumed
  <2> QED BY <1>2, <2>1, IntactKept
<1> QED BY <1>3, <1>4, <1>5

\* The fragments of a burst before a given one.
LEMMA UptoType ==
    ASSUME NEW f \in Fragment
    PROVE  /\ Upto(f) \in Seq(Fragment) /\ Len(Upto(f)) = f.seq
           /\ \A m \in 1 .. f.seq : Upto(f)[m] = Frag(f.burst, m - 1)
<1>1. f.seq \in Nat /\ f.burst \in Burst /\ \A m \in 1 .. f.seq : Frag(f.burst, m - 1) \in Fragment
  BY FragmentIs, FragsNat, SMTT(30)
<1>2. Upto(f) \in [1 .. f.seq -> Fragment]
  BY <1>1 DEF Upto
<1> QED BY <1>1, <1>2, SMTT(30) DEF Upto

\* A socket error gives up the burst being assembled, which counts as disturbed.
LEMMA ErrorIntact ==
    ASSUME Types, Types', Chained, HeadMatches, BatchFits, Intact, RecvError
    PROVE  Chained' /\ HeadMatches' /\ BatchFits' /\ Intact'
<1>1. /\ UNCHANGED <<next, net, msgvec, delivered>> /\ msgvec = << >>
      /\ asm' = NotAssembling /\ m_current_batch_size' = BATCH_SIZE
      /\ disturbed' = disturbed \cup ({asm.hdr} \ {0})
  BY DEF RecvError
<1>2. Stream' = Stream /\ disturbed \subseteq disturbed'
  BY <1>1 DEF Stream
<1>3. Chained'
  BY <1>2, LinkedMore DEF Chained
<1>4. HeadMatches'
  <2> SUFFICES ASSUME {Stream[1].burst - 1, Stream[1].burst} \cap disturbed' = {}
               PROVE  NotAssembling = Holding(Upto(Stream[1]))
    BY <1>1, <1>2 DEF HeadMatches
  <2>1. asm = Holding(Upto(Stream[1]))
    BY <1>2 DEF HeadMatches
  <2>2. CASE Stream[1] \in Fragment
    <3>1. Stream[1].seq \in Nat /\ Stream[1].burst \in Nat \ {0}
      BY <2>2, FragmentIs, FragsNat, SMTT(30) DEF Burst
    <3>2. CASE Stream[1].seq = 0
      <4>1. Upto(Stream[1]) = << >>
        BY <2>2, <3>2, UptoType, SMTT(30)
      <4> QED BY <4>1, EmptyHolding
    <3>3. CASE Stream[1].seq > 0
      <4>1. Upto(Stream[1]) # << >> /\ Upto(Stream[1])[1].burst = Stream[1].burst
        BY <2>2, <3>1, <3>3, UptoType, FragFields, SMTT(30)
      <4>2. asm.hdr = Stream[1].burst
        BY <2>1, <4>1, HoldingFields
      <4> QED BY <1>1, <3>1, <4>2
    <3> QED BY <3>1, <3>2, <3>3, SMTT(30)
  <2>3. CASE Stream[1] = Last
    <3>1. Upto(Stream[1]) = << >>
      BY <2>3, FragFields, SMTT(30) DEF Last, Upto
    <3> QED BY <3>1, EmptyHolding
  <2> QED BY <2>2, <2>3, StreamType, SMTT(30) DEF Types
<1>5. BatchFits'
  <2>1. Len(msgvec') = 0 /\ asm'.parts = << >>
    BY <1>1, EmptyHolding
  <2>2. BatchSize(asm') = BATCH_SIZE
    BY <1>1 DEF BatchSize, NotAssembling
  <2> QED BY <1>1, <2>1, <2>2, FragsNat DEF BatchFits
<1>6. Intact'
  BY <1>1, <1>2, IntactKept DEF Consumed
<1> QED BY <1>3, <1>4, <1>5, <1>6

\* A fragment that Recv has everything before is taken.
LEMMA HeadTaken ==
    ASSUME Types, NEW f \in Fragment, asm = Holding(Upto(f))
    PROVE  /\ Fits(f) /\ ~Spoilt(Written(f), f)
           /\ Append(asm.parts, f) = [m \in 1 .. f.seq + 1 |-> Frag(f.burst, m - 1)]
<1>1. /\ f.seq \in Nat /\ f.burst \in Burst /\ f = Frag(f.burst, f.seq)
      /\ f.seq + 1 <= Frags[f.burst] /\ Frags[f.burst] \in Nat
  BY FragmentIs, FragsNat, SMTT(30)
<1>2. /\ asm.parts = Upto(f) /\ Upto(f) \in Seq(Fragment) /\ Len(Upto(f)) = f.seq
      /\ \A m \in 1 .. f.seq : Upto(f)[m] = Frag(f.burst, m - 1)
  BY UptoType, HoldingFields
<1>3. Fits(f)
  <2>1. CASE f.seq = 0
    BY <1>2, <2>1, HoldingFields, SMTT(30) DEF Fits, IsStart
  <2>2. CASE f.seq > 0
    <3>1. Upto(f) # << >>
      BY <1>1, <1>2, <2>2, SMTT(30)
    <3>2. asm.is_assembling /\ asm.last_seq_no = f.seq - 1
      BY <1>2, <3>1, HoldingFields, SMTT(30)
    <3> QED BY <1>1, <3>2, SMTT(30) DEF Fits, InOrder
  <2> QED BY <1>1, <2>1, <2>2, SMTT(30)
<1> DEFINE p == Append(asm.parts, f)
           q == [m \in 1 .. f.seq + 1 |-> Frag(f.burst, m - 1)]
<1>4. p = q
  <2>1. p \in Seq(Fragment) /\ Len(p) = f.seq + 1 /\ p[f.seq + 1] = f
        /\ \A m \in 1 .. f.seq : p[m] = Upto(f)[m]
    BY <1>1, <1>2, SMTT(30)
  <2>2. p = [m \in 1 .. f.seq + 1 |-> p[m]]
    BY <2>1, SMTT(30)
  <2>3. \A m \in 1 .. f.seq + 1 : p[m] = Frag(f.burst, m - 1)
    <3> SUFFICES ASSUME NEW m \in 1 .. f.seq + 1 PROVE p[m] = Frag(f.burst, m - 1)
      OBVIOUS
    <3>1. CASE m = f.seq + 1
      BY <1>1, <2>1, <3>1, SMTT(30)
    <3>2. CASE m # f.seq + 1
      BY <1>1, <1>2, <2>1, <3>2, SMTT(30)
    <3> QED BY <3>1, <3>2
  <2> HIDE DEF p
  <2> QED BY <2>2, <2>3
<1>5. Written(f).parts = p /\ Written(f).hdr = p[1].burst /\ Len(p) = f.seq + 1
  BY <1>2, <1>3, WrittenIs
<1>6. p[1].burst = f.burst
  BY <1>1, <1>4, FragFields, SMTT(30)
<1>7. ~Spoilt(Written(f), f)
  <2> HIDE DEF p
  <2> QED BY <1>1, <1>5, <1>6, SMTT(30) DEF Spoilt, IsEnd
<1> QED BY <1>3, <1>4, <1>7

\* A packet that completes a burst is the last of its batch.
LEMMA PacketAlone ==
    ASSUME Types, Roomy, BatchFits, Packet
    PROVE  Stream' = Skip(Stream, 1)
<1> DEFINE f == Stream[1]
           p == Append(asm.parts, f)
<1>1. f \in Fragment /\ Len(msgvec) \in Nat \ {0} /\ (Dropped(f) \/ Kept(f) \/ Returned(f))
  BY PacketCases
<1>2. CASE Returned(f)
  <2>1. /\ p \in Seq(Fragment) /\ Len(p) = Len(asm.parts) + 1 /\ Len(asm.parts) \in Nat
        /\ Written(f).parts = p /\ Written(f).hdr = p[1].burst /\ asm.parts \in Seq(Fragment)
    BY <1>1, <1>2, WrittenIs, SMTT(30) DEF Returned, Types
  <2>2. Len(p) = Frags[p[1].burst]
    <3>1. IsEnd(f) /\ ~Spoilt(Written(f), f)
      BY <1>2 DEF Returned
    <3> HIDE DEF p
    <3> QED BY <2>1, <3>1 DEF Spoilt
  <2>3. Len(msgvec) <= 1
    <3>1. CASE asm.parts = << >>
      <4>1. p[1] = f /\ Len(p) = 1
        BY <2>1, <3>1, SMTT(30)
      <4>2. BATCH_SIZE <= 1
        BY <1>1, <2>2, <4>1, FragmentIs DEF Roomy
      <4> QED BY <1>1, <4>2, FragsNat, SMTT(30) DEF BatchFits
    <3>2. CASE asm.parts # << >>
      <4>1. p[1] = asm.parts[1]
        BY <2>1, <3>2, SMTT(30)
      <4>2. Missing = 1
        BY <2>1, <2>2, <4>1, SMTT(30) DEF Missing
      <4> QED BY <1>1, <3>2, <4>2, SMTT(30) DEF BatchFits
    <3> QED BY <3>1, <3>2
  <2>4. Len(msgvec) = 1
    <3>1. Len(msgvec) \in Nat /\ Len(msgvec) # 0
      BY <1>1
    <3> QED BY <2>3, <3>1, SMTT(30)
  <2> QED BY <1>2, <2>4 DEF Returned
<1> QED BY <1>1, <1>2 DEF Dropped, Kept

\* The size chosen for the next batch fits what is held after this one.
LEMMA PacketFits ==
    ASSUME Types, Roomy, BatchFits, Packet
    PROVE  BatchFits'
<1> DEFINE f == Stream[1]
           p == Append(asm.parts, f)
<1>1. /\ f \in Fragment /\ Len(msgvec) \in Nat \ {0} /\ msgvec' \in Seq(Fragment)
      /\ Dropped(f) \/ Kept(f) \/ Returned(f)
  BY PacketCases
<1>2. m_current_batch_size' = IF asm'.is_assembling /\ msgvec' # << >> THEN m_current_batch_size
                              ELSE BatchSize(asm')
  BY DEF Packet
<1>3. Len(msgvec) <= BATCH_SIZE
  BY DEF BatchFits
<1>4. CASE Dropped(f) \/ Returned(f)
  <2>1. asm'.parts = << >> /\ Len(msgvec') <= BATCH_SIZE
    BY <1>1, <1>3, <1>4, EmptyHolding, FragsNat, SMTT(30) DEF Dropped, Returned
  <2> QED BY <1>2, <2>1 DEF BatchFits
<1>5. CASE Kept(f)
  <2>1. /\ p \in Seq(Fragment) /\ Len(p) = Len(asm.parts) + 1 /\ Len(asm.parts) \in Nat
        /\ asm' = Written(f) /\ asm'.parts = p /\ asm.parts \in Seq(Fragment)
        /\ Len(msgvec') = Len(msgvec) - 1
    BY <1>1, <1>5, WrittenIs, SMTT(30) DEF Kept, Types
  <2>2. p[1] \in Fragment
    BY <2>1, SMTT(30)
  <2>3. Frags[p[1].burst] \in Nat /\ p[1].burst \in Burst
    BY <2>2, FragmentIs, FragsNat
  <2>4. Missing' = Frags[p[1].burst] - Len(p)
    BY <2>1 DEF Missing
  <2>5. Missing' > 0 => Len(msgvec') <= Missing'
    <3>1. CASE asm.parts = << >>
      <4>1. Len(p) = 1
        BY <2>1, <3>1, SMTT(30)
      <4>2. Frags[p[1].burst] >= BATCH_SIZE
        BY <2>3 DEF Roomy
      <4> QED BY <1>1, <1>3, <2>1, <2>3, <2>4, <4>1, <4>2, FragsNat, SMTT(30)
    <3>2. CASE asm.parts # << >>
      <4>1. p[1] = asm.parts[1]
        BY <2>1, <3>2, SMTT(30)
      <4> DEFINE r == Frags[p[1].burst] - Len(p)
      <4>2. Missing = r + 1 /\ r \in Int
        BY <2>1, <2>3, <4>1, SMTT(30) DEF Missing
      <4>3. r + 1 > 0 => Len(msgvec) <= r + 1
        BY <3>2, <4>2 DEF BatchFits
      <4>4. Len(msgvec) \in Nat /\ Len(msgvec') = Len(msgvec) - 1
        BY <1>1, <2>1
      <4> HIDE DEF r
      <4>5. r > 0 => Len(msgvec') <= r
        BY <4>2, <4>3, <4>4, SMTT(30)
      <4> QED BY <2>4, <4>5 DEF r
    <3> QED BY <3>1, <3>2
  <2>6. Len(msgvec') <= BATCH_SIZE
    BY <1>1, <1>3, <2>1, FragsNat, SMTT(30)
  <2>7. msgvec' = << >> => m_current_batch_size' = BatchSize(asm')
    BY <1>2
  <2> QED BY <2>5, <2>6, <2>7 DEF BatchFits
<1> QED BY <1>1, <1>4, <1>5

\* A packet of an undisturbed burst is taken, and the last one completes it.
LEMMA PacketIntact ==
    ASSUME Types, Types', Roomy, Chained, HeadMatches, BatchFits, Intact, Packet
    PROVE  Chained' /\ HeadMatches' /\ Intact'
<1> DEFINE f == Stream[1]
           g == Stream[2]
           n == Len(Stream)
<1>1. /\ f \in Fragment /\ Len(msgvec) \in Nat /\ Len(msgvec) # 0
      /\ Dropped(f) \/ Kept(f) \/ Returned(f)
  BY PacketCases
<1>2. /\ Stream \in Seq(Fragment \cup {Last}) /\ n = Len(msgvec) + Len(net) + 1 /\ n \in Nat
      /\ Stream[n] = next /\ Len(net) \in Nat
  BY StreamType, SMTT(30) DEF Types
<1>3. n >= 2
  BY <1>1, <1>2, SMTT(30)
<1>4. Stream' = [i \in 1 .. n - 1 |-> Stream[i + 1]]
  BY PacketAlone DEF Skip
<1>5. /\ Len(Stream') = n - 1 /\ Stream'[1] = g
      /\ \A i \in 1 .. n - 1 : Stream'[i] = Stream[i + 1]
  BY <1>2, <1>3, <1>4, SMTT(30)
<1>6. UNCHANGED <<disturbed, next, net>>
  BY DEF Packet
<1>6a. msgvec' \in Seq(Fragment) /\ Len(msgvec') = Len(msgvec) - 1
  <2>1. msgvec' \in Seq(Fragment) /\ Len(msgvec') \in Nat
    BY SMTT(30) DEF Types
  <2>2. Len(Stream') = Len(msgvec') + Len(net) + 1
    BY <1>6, StreamLenNext
  <2>3. /\ n - 1 = Len(msgvec') + Len(net) + 1 /\ n = Len(msgvec) + Len(net) + 1
        /\ Len(msgvec) \in Nat /\ Len(net) \in Nat
    BY <1>1, <1>2, <1>5, <2>2
  <2>4. Len(msgvec') = Len(msgvec) - 1
    BY <2>1, <2>3, SMTT(30)
  <2> QED BY <2>1, <2>4
<1>7. Linked(disturbed, f, g) /\ g \in Fragment \cup {Last}
  BY <1>2, <1>3, SMTT(30) DEF Chained
<1>8. g.seq \in Nat
  BY <1>7, FollowingIs, FragFields, SMTT(30) DEF Last
<1>9. Chained'
  <2>1. ASSUME NEW i \in 1 .. (n - 1) - 1
        PROVE  Linked(disturbed, Stream'[i], Stream'[i + 1])
    <3>1. Stream'[i] = Stream[i + 1] /\ Stream'[i + 1] = Stream[(i + 1) + 1] /\ i + 1 \in 1 .. n - 1
      BY <1>2, <1>5, SMTT(30)
    <3> QED BY <3>1 DEF Chained
  <2> QED BY <1>5, <1>6, <2>1 DEF Chained
<1>10. HeadMatches'
  <2> SUFFICES ASSUME {g.burst - 1, g.burst} \cap disturbed = {}
               PROVE  asm' = Holding(Upto(g))
    BY <1>5, <1>6 DEF HeadMatches
  <2>1. g = Following(f)
    BY <1>1, <1>7, LinkBack, SMTT(30)
  <2>2. CASE IsEnd(f)
    <3>1. g.seq = 0
      BY <1>1, <2>1, <2>2, FollowingIs
    <3>2. Upto(g) = << >>
      BY <3>1, SMTT(30) DEF Upto
    <3>3. asm' = NotAssembling
      BY <1>1, <2>2 DEF Dropped, Kept, Returned
    <3> QED BY <3>2, <3>3, EmptyHolding
  <2>3. CASE ~IsEnd(f)
    <3>1. g.burst = f.burst /\ g.seq = f.seq + 1
      BY <1>1, <2>1, <2>3, FollowingIs
    <3>2. asm = Holding(Upto(f))
      BY <3>1 DEF HeadMatches
    <3>3. /\ Fits(f) /\ ~Spoilt(Written(f), f)
          /\ Append(asm.parts, f) = [m \in 1 .. f.seq + 1 |-> Frag(f.burst, m - 1)]
      BY <1>1, <3>2, HeadTaken
    <3>4. Append(asm.parts, f) = Upto(g)
      BY <3>1, <3>3 DEF Upto
    <3>5. asm' = Written(f)
      BY <1>1, <2>3, <3>3 DEF Dropped, Kept, Returned
    <3> QED BY <1>1, <3>3, <3>4, <3>5, WrittenIs
  <2> QED BY <2>2, <2>3
<1>11. Intact'
  <2> SUFFICES ASSUME NEW b \in Burst, Consumed(b)', {b - 1, b} \cap disturbed = {}
               PROVE  Delivered(b)'
    BY <1>6 DEF Intact
  <2>1. delivered' = delivered \/ delivered' = Append(delivered, Append(asm.parts, f))
    BY <1>1 DEF Dropped, Kept, Returned
  <2>2. CASE Consumed(b)
    <3>1. Delivered(b)
      BY <2>2 DEF Intact
    <3>2. PICK k \in DOMAIN delivered : delivered[k] = Whole(b)
      BY <3>1 DEF Delivered
    <3>3. delivered \in Seq(Seq(Fragment))
      BY DEF Types
    <3>4. k \in DOMAIN delivered' /\ delivered'[k] = delivered[k]
      <4>1. CASE delivered' = delivered
        BY <4>1
      <4>2. CASE delivered' # delivered
        <5> DEFINE p == Append(asm.parts, f)
        <5>1. delivered' = Append(delivered, p)
          BY <2>1, <4>2
        <5>2. p \in Seq(Fragment)
          BY <1>1, WrittenIs, <4>2 DEF Dropped, Kept, Returned
        <5> HIDE DEF p
        <5> QED BY <3>3, <5>1, <5>2, SMTT(30)
      <4> QED BY <4>1, <4>2
    <3> QED BY <3>2, <3>4 DEF Delivered
  <2>3. CASE ~Consumed(b)
    <3>1. f.burst = b
      <4>1. /\ next.burst > b /\ \A k \in DOMAIN net : net[k].burst # b
            /\ \A k \in DOMAIN msgvec' : msgvec'[k].burst # b
        BY <1>6 DEF Consumed
      <4>2. PICK k \in DOMAIN msgvec : msgvec[k].burst = b
        BY <2>3, <4>1 DEF Consumed
      <4>3. msgvec \in Seq(Fragment) /\ k \in 1 .. Len(msgvec) /\ Stream[k] = msgvec[k]
        BY <1>2, SMTT(30) DEF Types, Stream
      <4>4. CASE k = 1
        BY <4>2, <4>3, <4>4
      <4>5. CASE k > 1
        <5>1. msgvec' \in Seq(Fragment) /\ Len(msgvec') = Len(msgvec) - 1
          BY <1>6a
        <5>2. k - 1 \in DOMAIN msgvec' /\ k - 1 \in 1 .. n - 1 /\ (k - 1) + 1 = k
          BY <1>2, <4>3, <4>5, <5>1, SMTT(30)
        <5>3. msgvec'[k - 1] = Stream'[k - 1]
          BY <1>5, <1>6, <5>1, <5>2, SMTT(30) DEF Stream
        <5>4. msgvec'[k - 1] = msgvec[k]
          BY <1>5, <4>3, <5>2, <5>3
        <5> QED BY <4>1, <4>2, <5>2, <5>4
      <4> QED BY <4>3, <4>4, <4>5, SMTT(30)
    <3>2. b \notin disturbed /\ b - 1 \notin disturbed
      OBVIOUS
    <3>3. IsEnd(f)
      <4> SUFFICES ASSUME ~IsEnd(f) PROVE FALSE
        OBVIOUS
      <4>1. g.burst = b
        BY <1>1, <1>7, <3>1, <3>2, LinkOn, SMTT(30)
      <4>2. next.burst > b /\ next.burst # b
        BY <1>6, SMTT(30) DEF Consumed, Burst
      <4>3. n # 2
        BY <1>2, <4>1, <4>2
      <4>4. n - 1 \in Nat /\ 1 \in 1 .. (n - 1) - 1
        BY <1>2, <1>3, <4>3, SMTT(30)
      <4>5. CASE Len(msgvec) > 1
        <5>1. msgvec' \in Seq(Fragment) /\ Len(msgvec') = Len(msgvec) - 1
          BY <1>6a
        <5>2. 1 \in DOMAIN msgvec' /\ msgvec'[1] = Stream'[1]
          BY <1>2, <1>6, <4>5, <5>1, SMTT(30) DEF Stream
        <5> QED BY <1>5, <4>1, <5>2 DEF Consumed
      <4>6. CASE Len(msgvec) = 1
        <5>1. 1 \in DOMAIN net /\ Stream[2] = net[1]
          BY <1>2, <4>3, <4>6, SMTT(30) DEF Stream, Types
        <5> QED BY <1>6, <4>1, <5>1 DEF Consumed
      <4>7. Len(msgvec) \in Nat /\ Len(msgvec) # 0
        BY <1>1
      <4>8. Len(msgvec) > 1 \/ Len(msgvec) = 1
        BY <4>7, SMTT(30)
      <4> QED BY <4>5, <4>6, <4>8
    <3>4. asm = Holding(Upto(f))
      BY <3>1 DEF HeadMatches
    <3>5. /\ Fits(f) /\ ~Spoilt(Written(f), f)
          /\ Append(asm.parts, f) = [m \in 1 .. f.seq + 1 |-> Frag(f.burst, m - 1)]
      BY <1>1, <3>4, HeadTaken
    <3>6. delivered' = Append(delivered, Append(asm.parts, f))
      BY <1>1, <3>3, <3>5 DEF Dropped, Kept, Returned
    <3>7. f.seq + 1 = Frags[b]
      BY <1>1, <3>1, <3>3, FragmentIs, FragsNat, SMTT(30) DEF IsEnd
    <3>8. Append(asm.parts, f) = Whole(b)
      BY <3>1, <3>5, <3>7 DEF Whole
    <3>9. Len(delivered) + 1 \in DOMAIN delivered' /\ delivered'[Len(delivered) + 1] = Whole(b)
      <4>1. delivered \in Seq(Seq(Fragment)) /\ delivered' = Append(delivered, Whole(b))
        BY <3>6, <3>8 DEF Types
      <4>2. Whole(b) \in Seq(Fragment)
        BY <1>1, <3>5, <3>8, WrittenIs
      <4> QED BY <4>1, <4>2, SMTT(30)
    <3> QED BY <3>9 DEF Delivered
  <2> QED BY <2>2, <2>3
<1> QED BY <1>9, <1>10, <1>11

\* Every step keeps the invariant.
LEMMA IntactStep == IntactInv /\ [UdpNext]_udpVars => IntactInv'
<1> SUFFICES ASSUME IntactInv, [UdpNext]_udpVars PROVE IntactInv'
  OBVIOUS
<1>1. Types /\ Types'
  BY TypesStep DEF IntactInv
<1>2. ASSUME Roomy PROVE Chained' /\ HeadMatches' /\ BatchFits' /\ Intact'
  <2>1. Chained /\ HeadMatches /\ BatchFits /\ Intact
    BY <1>2 DEF IntactInv, DeliveredAfterIntact, Intact
  <2>2. CASE SendFragment
    BY <1>1, <2>1, <2>2, SendIntact
  <2>3. CASE Lose
    BY <1>1, <2>1, <2>3, LoseIntact
  <2>4. CASE Duplicate
    BY <1>1, <2>1, <2>4, DuplicateIntact
  <2>5. CASE Overtake
    BY <1>1, <2>1, <2>5, OvertakeIntact
  <2>6. CASE \E k \in 1 .. Len(net) : Recvmmsg(k)
    BY <1>1, <2>1, <2>6, RecvmmsgIntact
  <2>7. CASE RecvError
    BY <1>1, <2>1, <2>7, ErrorIntact
  <2>8. CASE Packet
    BY <1>1, <1>2, <2>1, <2>8, PacketIntact, PacketFits
  <2>9. CASE UNCHANGED udpVars
    <3>1. UNCHANGED <<next, net, msgvec, asm, m_current_batch_size, delivered, disturbed>>
      BY <2>9 DEF udpVars, udpRecvVars
    <3>2. Stream' = Stream
      BY <3>1 DEF Stream
    <3>3. Chained' /\ HeadMatches'
      BY <2>1, <3>1, <3>2 DEF Chained, HeadMatches
    <3>4. BatchFits'
      BY <2>1, <3>1 DEF BatchFits, Missing
    <3>5. Intact'
      BY <2>1, <3>1 DEF Intact, Consumed, Delivered
    <3> QED BY <3>3, <3>4, <3>5
  <2> QED BY <2>2, <2>3, <2>4, <2>5, <2>6, <2>7, <2>8, <2>9 DEF UdpNext
<1> QED BY <1>1, <1>2 DEF IntactInv, DeliveredAfterIntact, Intact, Roomy

\* It holds at the start, where the first burst is the head of the stream.
LEMMA InitIntact == UdpInit => IntactInv
<1> SUFFICES ASSUME UdpInit PROVE IntactInv
  OBVIOUS
<1>1. Types
  BY InitTypes
<1>2. net = << >> /\ msgvec = << >> /\ next = Frag(1, 0) /\ asm = NotAssembling
      /\ m_current_batch_size = BATCH_SIZE
  BY DEF UdpInit
<1>3. Len(Stream) = 1 /\ Stream[1] = next
  <2>1. Len(net) = 0 /\ Len(msgvec) = 0
    BY <1>2
  <2>2. Len(Stream) = 0 + 0 + 1 /\ Stream[Len(Stream)] = next
    BY <1>1, <2>1, StreamType
  <2>3. Len(Stream) = 1
    BY <2>2, SMTT(30)
  <2> QED BY <2>2, <2>3
<1>4. Chained
  BY <1>3, SMTT(30) DEF Chained
<1>5. HeadMatches
  <2>1. Upto(Stream[1]) = << >>
    BY <1>2, <1>3, FragFields, SMTT(30) DEF Upto
  <2> QED BY <1>2, <2>1, EmptyHolding DEF HeadMatches
<1>6. BatchFits
  BY <1>2, EmptyHolding, FragsNat, SMTT(30) DEF BatchFits, BatchSize, NotAssembling
<1>7. DeliveredAfterIntact
  BY <1>2, FragFields, FragsNat, SMTT(30) DEF DeliveredAfterIntact, Consumed, Burst
<1> QED BY <1>1, <1>4, <1>5, <1>6, <1>7 DEF IntactInv

\* UDPServer::Recv costs no burst by reading in batches: where every burst has
\* as many fragments as a batch, one that came through undisturbed after one
\* that also did is returned, for any bursts and any faults of the others.
THEOREM IntactIsReturned == UdpSpec => []DeliveredAfterIntact
<1>1. IntactInv => DeliveredAfterIntact
  BY DEF IntactInv
<1> QED BY <1>1, InitIntact, IntactStep, PTL DEF UdpSpec

=============================================================================
