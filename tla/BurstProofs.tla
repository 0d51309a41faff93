----------------------------- MODULE BurstProofs -----------------------------
(***************************************************************************)
(* UDPServer::Recv for every number and every length of bursts, every      *)
(* batch size and any faults: a buffer it returns is one whole burst, and  *)
(* bursts come back in the order they were sent, as long as fewer          *)
(* datagrams went astray than a burst has fragments.                       *)
(*                                                                         *)
(* Recv compares the numbers of fragments, not the bursts they belong to,  *)
(* so the proof is about distance.  Number all the fragments in the order  *)
(* they are sent, and look at the last one returned, those Recv holds and  *)
(* those it has still to handle: each loss, duplicate or overtaking moves  *)
(* a fragment one place at most from where it belongs.  The number that    *)
(* continues a burst, in another burst, is as many places away as a burst  *)
(* has fragments, which is too far.                                        *)
(***************************************************************************)
EXTENDS UdpReceiveProofs

\* The prover of the leaves that do not name another one.
USE ZenonT(30)

-----------------------------------------------------------------------------
(* Bursts come back whole and in order *)

\* The place of a fragment in all that is sent.
Rank(f) == Offset(f.burst) + f.seq

\* Of n fragments, the first after one that is already gone: none is more than K
\* places too early, none more than K + 1 too late, and none late if q = 0; the
\* last is the one sent next.
Orderly(s, n, K, q) ==
    /\ \A i, j \in 1 .. n : i < j => s[j] - s[i] <= (j - i) + K
    /\ \A i, j \in 0 .. n : i < j /\ s[j] <= s[i] => (j - i) + (s[i] - s[j]) <= K + 1 /\ q > 0
    /\ \A i \in 0 .. n - 1 : s[i] < s[n]

\* The end of the last buffer returned, what Recv holds, and the stream.
LastRank ==
    IF delivered = << >> THEN -1
    ELSE LET p == delivered[Len(delivered)] IN Rank(p[Len(p)])
\* The ranks of all that: the last one returned, what is held, the stream.
Row(l, parts, stream) ==
    [i \in 0 .. Len(parts) + Len(stream) |->
        IF i = 0 THEN l
        ELSE IF i <= Len(parts) THEN Rank(parts[i]) ELSE Rank(stream[i - Len(parts)])]
Ranks == Row(LastRank, asm.parts, Stream)
Span == Len(asm.parts) + Len(Stream)

\* Fragments of one burst.
OneBurst(p) == \A m \in 1 .. Len(p) : p[m].burst = p[1].burst

\* Ranks at the places 0 to n.
Ranked(s, n) == n \in Nat \ {0} /\ s \in [0 .. n -> Int]

\* A loss brings what is after it one place nearer to what is before it.
LEMMA OrderlyLose ==
    ASSUME NEW s, NEW n, Ranked(s, n), NEW K \in Nat, NEW q \in Nat, Orderly(s, n, K, q),
           NEW p \in 1 .. n - 1, NEW t,
           \A i \in 0 .. n - 1 : t[i] = s[IF i < p THEN i ELSE i + 1]
    PROVE  Orderly(t, n - 1, K + 1, q)
<1>1. n \in Nat /\ n > 0 /\ \A i \in 0 .. n : s[i] \in Int
  BY SMTT(30) DEF Ranked
<1>2. ASSUME NEW i \in 1 .. n - 1, NEW j \in 1 .. n - 1, i < j
      PROVE  t[j] - t[i] <= (j - i) + (K + 1)
  <2> DEFINE a == IF i < p THEN i ELSE i + 1
             b == IF j < p THEN j ELSE j + 1
  <2>1. a \in 1 .. n /\ b \in 1 .. n /\ a < b /\ b - a <= (j - i) + 1 /\ t[i] = s[a] /\ t[j] = s[b]
    BY <1>1, <1>2, SMTT(30)
  <2> HIDE DEF a, b
  <2>2. s[b] - s[a] <= (b - a) + K /\ s[a] \in Int /\ s[b] \in Int
    BY <1>1, <2>1, SMTT(30) DEF Orderly
  <2> QED BY <1>1, <2>1, <2>2, SMTT(30)
<1>3. ASSUME NEW i \in 0 .. n - 1, NEW j \in 0 .. n - 1, i < j, t[j] <= t[i]
      PROVE  (j - i) + (t[i] - t[j]) <= (K + 1) + 1 /\ q > 0
  <2> DEFINE a == IF i < p THEN i ELSE i + 1
             b == IF j < p THEN j ELSE j + 1
  <2>1. a \in 0 .. n /\ b \in 0 .. n /\ a < b /\ j - i <= b - a /\ t[i] = s[a] /\ t[j] = s[b]
    BY <1>1, <1>3, SMTT(30)
  <2> HIDE DEF a, b
  <2>2. s[a] \in Int /\ s[b] \in Int /\ (b - a) + (s[a] - s[b]) <= K + 1 /\ q > 0
    BY <1>1, <1>3, <2>1 DEF Orderly
  <2> QED BY <1>1, <2>1, <2>2, SMTT(30)
<1>4. ASSUME NEW i \in 0 .. (n - 1) - 1 PROVE t[i] < t[n - 1]
  <2>1. t[n - 1] = s[n] /\ \E a \in 0 .. n - 1 : t[i] = s[a]
    BY <1>1, SMTT(30)
  <2> QED BY <2>1 DEF Orderly
<1> QED BY <1>1, <1>2, <1>3, <1>4 DEF Orderly

\* A duplicate moves what is after it one place on, and is itself one late.
LEMMA OrderlyDuplicate ==
    ASSUME NEW s, NEW n, Ranked(s, n), NEW K \in Nat, NEW q \in Nat, Orderly(s, n, K, q),
           NEW p \in 1 .. n - 1, NEW t,
           \A i \in 0 .. n + 1 : t[i] = s[IF i <= p THEN i ELSE i - 1]
    PROVE  Orderly(t, n + 1, K + 1, q + 1)
<1>1. n \in Nat /\ n > 0 /\ \A i \in 0 .. n : s[i] \in Int
  BY SMTT(30) DEF Ranked
<1>2. ASSUME NEW i \in 1 .. n + 1, NEW j \in 1 .. n + 1, i < j
      PROVE  t[j] - t[i] <= (j - i) + (K + 1)
  <2> DEFINE a == IF i <= p THEN i ELSE i - 1
             b == IF j <= p THEN j ELSE j - 1
  <2>1. a \in 1 .. n /\ b \in 1 .. n /\ a <= b /\ b - a <= j - i /\ t[i] = s[a] /\ t[j] = s[b]
    BY <1>1, <1>2, SMTT(30)
  <2> HIDE DEF a, b
  <2>2. s[a] \in Int /\ s[b] \in Int
    BY <1>1, <2>1, SMTT(30)
  <2>3. CASE a = b
    BY <1>1, <1>2, <2>1, <2>2, <2>3, SMTT(30)
  <2>4. CASE a < b
    <3>1. s[b] - s[a] <= (b - a) + K
      BY <2>1, <2>4 DEF Orderly
    <3> QED BY <1>1, <2>1, <2>2, <3>1, SMTT(30)
  <2> QED BY <2>1, <2>3, <2>4, SMTT(30)
<1>3. ASSUME NEW i \in 0 .. n + 1, NEW j \in 0 .. n + 1, i < j, t[j] <= t[i]
      PROVE  (j - i) + (t[i] - t[j]) <= (K + 1) + 1 /\ q + 1 > 0
  <2> DEFINE a == IF i <= p THEN i ELSE i - 1
             b == IF j <= p THEN j ELSE j - 1
  <2>1. /\ a \in 0 .. n /\ b \in 0 .. n /\ a <= b /\ j - i <= (b - a) + 1
        /\ t[i] = s[a] /\ t[j] = s[b]
    BY <1>1, <1>3, SMTT(30)
  <2> HIDE DEF a, b
  <2>2. s[a] \in Int /\ s[b] \in Int
    BY <1>1, <2>1
  <2>3. CASE a = b
    BY <1>1, <1>3, <2>1, <2>2, <2>3, SMTT(30)
  <2>4. CASE a < b
    <3>1. (b - a) + (s[a] - s[b]) <= K + 1
      BY <1>3, <2>1, <2>4 DEF Orderly
    <3> QED BY <1>1, <2>1, <2>2, <3>1, SMTT(30)
  <2> QED BY <2>1, <2>3, <2>4, SMTT(30)
<1>4. ASSUME NEW i \in 0 .. (n + 1) - 1 PROVE t[i] < t[n + 1]
  <2>1. t[n + 1] = s[n] /\ \E a \in 0 .. n - 1 : t[i] = s[a]
    BY <1>1, SMTT(30)
  <2> QED BY <2>1 DEF Orderly
<1> QED BY <1>1, <1>2, <1>3, <1>4 DEF Orderly

\* An overtaking makes one fragment early and one late, by one place each.
LEMMA OrderlyOvertake ==
    ASSUME NEW s, NEW n, Ranked(s, n), NEW K \in Nat, NEW q \in Nat, Orderly(s, n, K, q),
           NEW p \in 1 .. n - 2, NEW t,
           \A i \in 0 .. n : t[i] = s[IF i = p THEN p + 1 ELSE IF i = p + 1 THEN p ELSE i]
    PROVE  Orderly(t, n, K + 1, q + 1)
<1>1. n \in Nat /\ n > 0 /\ \A i \in 0 .. n : s[i] \in Int
  BY SMTT(30) DEF Ranked
<1>2. ASSUME NEW i \in 1 .. n, NEW j \in 1 .. n, i < j
      PROVE  t[j] - t[i] <= (j - i) + (K + 1)
  <2>1. CASE i = p /\ j = p + 1
    <3>1. t[i] = s[p + 1] /\ t[j] = s[p] /\ s[p] \in Int /\ s[p + 1] \in Int
      BY <1>1, <2>1, SMTT(30)
    <3>2. s[p + 1] <= s[p] => 1 + (s[p] - s[p + 1]) <= K + 1
      <4>1. p \in 0 .. n /\ p + 1 \in 0 .. n /\ p < p + 1 /\ (p + 1) - p = 1
        BY <1>1, SMTT(30)
      <4> QED BY <4>1 DEF Orderly
    <3> QED BY <1>2, <2>1, <3>1, <3>2, SMTT(30)
  <2>2. CASE ~(i = p /\ j = p + 1)
    <3> DEFINE a == IF i = p THEN p + 1 ELSE IF i = p + 1 THEN p ELSE i
               b == IF j = p THEN p + 1 ELSE IF j = p + 1 THEN p ELSE j
    <3>1. a \in 1 .. n /\ b \in 1 .. n /\ a < b /\ b - a <= (j - i) + 1 /\ t[i] = s[a] /\ t[j] = s[b]
      BY <1>1, <1>2, <2>2, SMTT(30)
    <3> HIDE DEF a, b
    <3>2. s[b] - s[a] <= (b - a) + K /\ s[a] \in Int /\ s[b] \in Int
      BY <1>1, <3>1, SMTT(30) DEF Orderly
    <3> QED BY <1>1, <3>1, <3>2, SMTT(30)
  <2> QED BY <2>1, <2>2
<1>3. ASSUME NEW i \in 0 .. n, NEW j \in 0 .. n, i < j, t[j] <= t[i]
      PROVE  (j - i) + (t[i] - t[j]) <= (K + 1) + 1 /\ q + 1 > 0
  <2>1. CASE i = p /\ j = p + 1
    <3>1. t[i] = s[p + 1] /\ t[j] = s[p] /\ s[p] \in Int /\ s[p + 1] \in Int
      BY <1>1, <2>1
    <3>2. s[p + 1] - s[p] <= 1 + K
      <4>1. p \in 1 .. n /\ p + 1 \in 1 .. n /\ p < p + 1 /\ (p + 1) - p = 1
        BY <1>1, SMTT(30)
      <4> QED BY <4>1 DEF Orderly
    <3> QED BY <1>3, <2>1, <3>1, <3>2, SMTT(30)
  <2>2. CASE ~(i = p /\ j = p + 1)
    <3> DEFINE a == IF i = p THEN p + 1 ELSE IF i = p + 1 THEN p ELSE i
               b == IF j = p THEN p + 1 ELSE IF j = p + 1 THEN p ELSE j
    <3>1. a \in 0 .. n /\ b \in 0 .. n /\ a < b /\ j - i <= (b - a) + 1 /\ t[i] = s[a] /\ t[j] = s[b]
      BY <1>1, <1>3, <2>2, SMTT(30)
    <3> HIDE DEF a, b
    <3>2. s[a] \in Int /\ s[b] \in Int /\ (b - a) + (s[a] - s[b]) <= K + 1
      BY <1>1, <1>3, <3>1 DEF Orderly
    <3> QED BY <1>1, <3>1, <3>2, SMTT(30)
  <2> QED BY <2>1, <2>2
<1>4. ASSUME NEW i \in 0 .. n - 1 PROVE t[i] < t[n]
  <2>1. t[n] = s[n] /\ \E a \in 0 .. n - 1 : t[i] = s[a]
    BY <1>1, SMTT(30)
  <2> QED BY <2>1 DEF Orderly
<1> QED BY <1>1, <1>2, <1>3, <1>4 DEF Orderly

\* The fragment sent next has the rank after the one before it.
LEMMA OrderlySend ==
    ASSUME NEW s, NEW n, Ranked(s, n), NEW K \in Nat, NEW q \in Nat, Orderly(s, n, K, q),
           NEW t, \A i \in 0 .. n : t[i] = s[i], t[n + 1] = s[n] + 1
    PROVE  Orderly(t, n + 1, K, q)
<1>1. n \in Nat /\ n > 0 /\ \A i \in 0 .. n : s[i] \in Int
  BY SMTT(30) DEF Ranked
<1>2. ASSUME NEW i \in 1 .. n + 1, NEW j \in 1 .. n + 1, i < j
      PROVE  t[j] - t[i] <= (j - i) + K
  <2>1. CASE j <= n
    BY <1>1, <1>2, <2>1, SMTT(30) DEF Orderly
  <2>2. CASE j = n + 1 /\ i = n
    BY <1>1, <2>2, SMTT(30)
  <2>3. CASE j = n + 1 /\ i < n
    <3>1. s[n] - s[i] <= (n - i) + K /\ s[n] \in Int /\ s[i] \in Int
      BY <1>1, <2>3, SMTT(30) DEF Orderly
    <3> QED BY <1>1, <2>3, <3>1, SMTT(30)
  <2> QED BY <1>1, <1>2, <2>1, <2>2, <2>3, SMTT(30)
<1>3. ASSUME NEW i \in 0 .. (n + 1) - 1 PROVE t[i] < t[n + 1]
  <2>1. CASE i = n
    BY <1>1, <2>1, SMTT(30)
  <2>2. CASE i # n
    <3>1. s[i] < s[n] /\ s[i] \in Int /\ s[n] \in Int
      BY <1>1, <2>2, SMTT(30) DEF Orderly
    <3> QED BY <1>1, <3>1, SMTT(30)
  <2> QED BY <2>1, <2>2
<1>4. ASSUME NEW i \in 0 .. n + 1, NEW j \in 0 .. n + 1, i < j, t[j] <= t[i]
      PROVE  (j - i) + (t[i] - t[j]) <= K + 1 /\ q > 0
  <2>1. CASE j <= n
    BY <1>1, <1>4, <2>1, SMTT(30) DEF Orderly
  <2>2. CASE j = n + 1
    <3>1. t[i] < t[j] /\ t[i] \in Int /\ t[j] \in Int
      BY <1>1, <1>3, <1>4, <2>2, SMTT(30)
    <3> QED BY <1>4, <3>1, SMTT(30)
  <2> QED BY <1>1, <2>1, <2>2, SMTT(30)
<1> QED BY <1>1, <1>2, <1>3, <1>4 DEF Orderly

\* Dropping the first c, the one before them becoming that at d <= c.
LEMMA OrderlySkip ==
    ASSUME NEW s, NEW n, Ranked(s, n), NEW K \in Nat, NEW q \in Nat, Orderly(s, n, K, q),
           NEW c \in 0 .. n - 1, NEW d \in 0 .. c,
           NEW t, t[0] = s[d], \A i \in 1 .. n - c : t[i] = s[i + c]
    PROVE  Orderly(t, n - c, K, q)
<1>1. n \in Nat /\ n > 0 /\ \A i \in 0 .. n : s[i] \in Int
  BY SMTT(30) DEF Ranked
<1>2. ASSUME NEW i \in 1 .. n - c, NEW j \in 1 .. n - c, i < j
      PROVE  t[j] - t[i] <= (j - i) + K
  <2>1. t[i] = s[i + c] /\ t[j] = s[j + c] /\ i + c \in 1 .. n /\ j + c \in 1 .. n /\ i + c < j + c
    BY <1>1, <1>2, SMTT(30)
  <2>2. s[j + c] - s[i + c] <= ((j + c) - (i + c)) + K
    BY <2>1 DEF Orderly
  <2>3. (j + c) - (i + c) = j - i
    BY <1>1, SMTT(30)
  <2> QED BY <2>1, <2>2, <2>3
<1>3. ASSUME NEW i \in 0 .. n - c, NEW j \in 0 .. n - c, i < j, t[j] <= t[i]
      PROVE  (j - i) + (t[i] - t[j]) <= K + 1 /\ q > 0
  <2> DEFINE a == IF i = 0 THEN d ELSE i + c
             b == j + c
  <2>1. a \in 0 .. n /\ b \in 0 .. n /\ a < b /\ j - i <= b - a /\ t[i] = s[a] /\ t[j] = s[b]
    BY <1>1, <1>3, SMTT(30)
  <2> HIDE DEF a, b
  <2>2. s[a] \in Int /\ s[b] \in Int /\ (b - a) + (s[a] - s[b]) <= K + 1 /\ q > 0
    BY <1>1, <1>3, <2>1 DEF Orderly
  <2> QED BY <1>1, <2>1, <2>2, SMTT(30)
<1>4. ASSUME NEW i \in 0 .. (n - c) - 1 PROVE t[i] < t[n - c]
  <2>1. t[n - c] = s[n]
    BY <1>1, SMTT(30)
  <2>2. \E a \in 0 .. n - 1 : t[i] = s[a]
    <3>1. CASE i = 0
      BY <1>1, <3>1, SMTT(30)
    <3>2. CASE i # 0
      <4>1. i + c \in 0 .. n - 1 /\ t[i] = s[i + c]
        BY <1>1, <3>2, SMTT(30)
      <4> QED BY <4>1
    <3> QED BY <3>1, <3>2
  <2> QED BY <2>1, <2>2 DEF Orderly
<1> QED BY <1>1, <1>2, <1>3, <1>4 DEF Orderly

\* Ranks are numbers, and a fragment has the one after its predecessor's.
LEMMA RankType ==
    /\ \A f \in Fragment \cup {Last} : Rank(f) \in Nat
    /\ \A f \in Fragment : Rank(Following(f)) = Rank(f) + 1
<1>1. ASSUME NEW f \in Fragment
      PROVE  Rank(f) \in Nat /\ Rank(Following(f)) = Rank(f) + 1
  <2>1. f.burst \in Burst /\ f.seq \in Nat /\ f.burst \in 1 .. Len(Frags) + 1
    BY FragmentIs, FragsNat, SMTT(30) DEF Burst
  <2>2. Offset(f.burst) \in Nat
    BY <2>1, EarlierFinite
  <2>3. CASE IsEnd(f)
    <3>1. Following(f).burst = f.burst + 1 /\ Following(f).seq = 0
      BY <2>3, FollowingIs
    <3>2. Offset(f.burst + 1) = Offset(f.burst) + Frags[f.burst] /\ Frags[f.burst] \in Nat
      BY <2>1, OffsetStep, FragsNat
    <3>3. f.seq = Frags[f.burst] - 1
      BY <2>3 DEF IsEnd
    <3> QED BY <2>1, <2>2, <3>1, <3>2, <3>3, SMTT(30) DEF Rank
  <2>4. CASE ~IsEnd(f)
    <3>1. Following(f).burst = f.burst /\ Following(f).seq = f.seq + 1
      BY <2>4, FollowingIs
    <3> QED BY <2>1, <2>2, <3>1, SMTT(30) DEF Rank
  <2> QED BY <2>3, <2>4
<1>2. Rank(Last) \in Nat
  <2>1. Len(Frags) + 1 \in 1 .. Len(Frags) + 1
    BY FragsNat, SMTT(30)
  <2>2. Offset(Len(Frags) + 1) \in Nat
    BY <2>1, EarlierFinite
  <2> QED BY <2>2, FragFields, SMTT(30) DEF Rank, Last
<1> QED BY <1>1, <1>2

\* The values of a row, place by place.
IsRow(s, l, parts, stream) ==
    /\ s[0] = l
    /\ \A i \in 1 .. Len(parts) : s[i] = Rank(parts[i])
    /\ \A i \in 1 .. Len(stream) : s[Len(parts) + i] = Rank(stream[i])

\* Row has those values.
LEMMA RowIs ==
    ASSUME NEW l, NEW parts \in Seq(Fragment), NEW stream \in Seq(Fragment \cup {Last})
    PROVE  IsRow(Row(l, parts, stream), l, parts, stream)
<1>1. Len(parts) \in Nat /\ Len(stream) \in Nat
  BY SMTT(30)
<1>2. Row(l, parts, stream)[0] = l
  BY <1>1, SMTT(30) DEF Row
<1>3. ASSUME NEW i \in 1 .. Len(parts) PROVE Row(l, parts, stream)[i] = Rank(parts[i])
  BY <1>1, SMTT(30) DEF Row
<1>4. ASSUME NEW i \in 1 .. Len(stream) PROVE Row(l, parts, stream)[Len(parts) + i] = Rank(stream[i])
  <2>1. /\ Len(parts) + i \in 0 .. Len(parts) + Len(stream) /\ Len(parts) + i # 0
        /\ ~(Len(parts) + i <= Len(parts)) /\ (Len(parts) + i) - Len(parts) = i
    BY <1>1, SMTT(30)
  <2> QED BY <2>1 DEF Row
<1> QED BY <1>2, <1>3, <1>4 DEF IsRow

\* They are ranks.
LEMMA RowRanked ==
    ASSUME NEW l \in Int, NEW parts \in Seq(Fragment), NEW stream \in Seq(Fragment \cup {Last}), Len(stream) > 0
    PROVE  Ranked(Row(l, parts, stream), Len(parts) + Len(stream))
<1> DEFINE n == Len(parts) + Len(stream)
<1>1. Len(parts) \in Nat /\ Len(stream) \in Nat
  BY SMTT(30)
<1>0. /\ Row(l, parts, stream)[0] = l
      /\ \A i \in 1 .. Len(parts) : Row(l, parts, stream)[i] = Rank(parts[i])
      /\ \A i \in 1 .. Len(stream) : Row(l, parts, stream)[Len(parts) + i] = Rank(stream[i])
  <2>1. IsRow(Row(l, parts, stream), l, parts, stream)
    BY RowIs
  <2> QED BY <2>1 DEF IsRow
<1>2. ASSUME NEW i \in 0 .. n PROVE Row(l, parts, stream)[i] \in Int
  <2>1. CASE i = 0
    BY <1>0, <2>1
  <2>2. CASE i # 0 /\ i <= Len(parts)
    <3>1. i \in 1 .. Len(parts) /\ parts[i] \in Fragment
      BY <1>1, <2>2, SMTT(30)
    <3>2. Row(l, parts, stream)[i] = Rank(parts[i])
      BY <1>0, <3>1
    <3> QED BY <3>1, <3>2, RankType, SMTT(30)
  <2>3. CASE i > Len(parts)
    <3>1. i - Len(parts) \in 1 .. Len(stream) /\ Len(parts) + (i - Len(parts)) = i
      BY <1>1, <2>3, SMTT(30)
    <3>2. stream[i - Len(parts)] \in Fragment \cup {Last}
      BY <3>1, SMTT(30)
    <3> DEFINE k == i - Len(parts)
    <3>4. k \in 1 .. Len(stream) /\ Len(parts) + k = i
      BY <3>1
    <3> HIDE DEF k
    <3>5. Row(l, parts, stream)[Len(parts) + k] = Rank(stream[k])
      BY <1>0, <3>4
    <3>3. Row(l, parts, stream)[i] = Rank(stream[i - Len(parts)])
      BY <3>4, <3>5 DEF k
    <3> QED BY <3>2, <3>3, RankType, SMTT(30)
  <2> QED BY <1>1, <2>1, <2>2, <2>3, SMTT(30)
<1>3. DOMAIN Row(l, parts, stream) = 0 .. n /\ Row(l, parts, stream) = [i \in 0 .. n |-> Row(l, parts, stream)[i]]
  BY DEF Row
<1>4. n \in Nat \ {0}
  BY <1>1, SMTT(30)
<1> QED BY <1>2, <1>3, <1>4 DEF Ranked

\* A fault in the stream is one in all of it.
LEMMA RowLose ==
    ASSUME NEW l, NEW parts \in Seq(Fragment), NEW stream \in Seq(Fragment \cup {Last}),
           NEW p \in 1 .. Len(stream) - 1
    PROVE  \A i \in 0 .. Len(parts) + Len(stream) - 1 :
             Row(l, parts, Without(stream, p))[i]
               = Row(l, parts, stream)[IF i < Len(parts) + p THEN i ELSE i + 1]
<1> DEFINE s == Row(l, parts, stream)
           w == Without(stream, p)
           t == Row(l, parts, w)
           L == Len(parts)
           n == Len(stream)
<1>1. L \in Nat /\ n \in Nat /\ p \in 1 .. n - 1
  BY SMTT(30)
<1>2. w \in Seq(Fragment \cup {Last}) /\ Len(w) = n - 1
  BY FaultTypes, SMTT(30)
<1>3. IsRow(s, l, parts, stream) /\ IsRow(t, l, parts, w)
  BY <1>2, RowIs
<1>4. \A i \in 1 .. n - 1 : w[i] = stream[IF i < p THEN i ELSE i + 1]
  BY DEF Without
<1> HIDE DEF s, w, t
<1>5. ASSUME NEW i \in 0 .. L + n - 1 PROVE t[i] = s[IF i < L + p THEN i ELSE i + 1]
  <2>1. CASE i = 0
    BY <1>1, <1>3, <2>1, SMTT(30) DEF IsRow
  <2>2. CASE i > 0 /\ i <= L
    <3>1. i \in 1 .. L /\ i < L + p
      BY <1>1, <2>2, SMTT(30)
    <3> QED BY <1>3, <3>1 DEF IsRow
  <2>3. CASE i > L
    <3> DEFINE k == i - L
    <3>1. k \in 1 .. n - 1 /\ i = L + k
      BY <1>1, <2>3, SMTT(30)
    <3> HIDE DEF k
    <3>2. t[L + k] = Rank(w[k])
      BY <1>2, <1>3, <3>1 DEF IsRow
    <3>3. CASE k < p
      <4>1. k \in 1 .. n /\ i < L + p /\ w[k] = stream[k]
        BY <1>1, <1>4, <3>1, <3>3, SMTT(30)
      <4> QED BY <1>3, <3>1, <3>2, <4>1 DEF IsRow
    <3>4. CASE k >= p
      <4>1. k + 1 \in 1 .. n /\ ~(i < L + p) /\ i + 1 = L + (k + 1) /\ w[k] = stream[k + 1]
        BY <1>1, <1>4, <3>1, <3>4, SMTT(30)
      <4>2. s[L + (k + 1)] = Rank(stream[k + 1])
        BY <1>3, <4>1 DEF IsRow
      <4> QED BY <3>1, <3>2, <4>1, <4>2
    <3> QED BY <1>1, <3>1, <3>3, <3>4, SMTT(30)
  <2> QED BY <1>1, <2>1, <2>2, <2>3, SMTT(30)
<1> QED BY <1>5 DEF s, w, t

\* A duplicate.
LEMMA RowDuplicate ==
    ASSUME NEW l, NEW parts \in Seq(Fragment), NEW stream \in Seq(Fragment \cup {Last}),
           NEW p \in 1 .. Len(stream) - 1
    PROVE  \A i \in 0 .. Len(parts) + Len(stream) + 1 :
             Row(l, parts, Twice(stream, p))[i]
               = Row(l, parts, stream)[IF i <= Len(parts) + p THEN i ELSE i - 1]
<1> DEFINE s == Row(l, parts, stream)
           w == Twice(stream, p)
           t == Row(l, parts, w)
           L == Len(parts)
           n == Len(stream)
<1>1. L \in Nat /\ n \in Nat /\ p \in 1 .. n - 1
  BY SMTT(30)
<1>2. w \in Seq(Fragment \cup {Last}) /\ Len(w) = n + 1
  BY FaultTypes, SMTT(30)
<1>3. IsRow(s, l, parts, stream) /\ IsRow(t, l, parts, w)
  BY <1>2, RowIs
<1>4. \A i \in 1 .. n + 1 : w[i] = stream[IF i <= p THEN i ELSE i - 1]
  BY DEF Twice
<1> HIDE DEF s, w, t
<1>5. ASSUME NEW i \in 0 .. L + n + 1 PROVE t[i] = s[IF i <= L + p THEN i ELSE i - 1]
  <2>1. CASE i = 0
    BY <1>1, <1>3, <2>1, SMTT(30) DEF IsRow
  <2>2. CASE i > 0 /\ i <= L
    <3>1. i \in 1 .. L /\ i <= L + p
      BY <1>1, <2>2, SMTT(30)
    <3> QED BY <1>3, <3>1 DEF IsRow
  <2>3. CASE i > L
    <3> DEFINE k == i - L
    <3>1. k \in 1 .. n + 1 /\ i = L + k
      BY <1>1, <2>3, SMTT(30)
    <3> HIDE DEF k
    <3>2. t[L + k] = Rank(w[k])
      BY <1>2, <1>3, <3>1 DEF IsRow
    <3>3. CASE k <= p
      <4>1. k \in 1 .. n /\ i <= L + p /\ w[k] = stream[k]
        BY <1>1, <1>4, <3>1, <3>3, SMTT(30)
      <4> QED BY <1>3, <3>1, <3>2, <4>1 DEF IsRow
    <3>4. CASE k > p
      <4>1. k - 1 \in 1 .. n /\ ~(i <= L + p) /\ i - 1 = L + (k - 1) /\ w[k] = stream[k - 1]
        BY <1>1, <1>4, <3>1, <3>4, SMTT(30)
      <4>2. s[L + (k - 1)] = Rank(stream[k - 1])
        BY <1>3, <4>1 DEF IsRow
      <4> QED BY <3>1, <3>2, <4>1, <4>2
    <3> QED BY <1>1, <3>1, <3>3, <3>4, SMTT(30)
  <2> QED BY <1>1, <2>1, <2>2, <2>3, SMTT(30)
<1> QED BY <1>5 DEF s, w, t

\* Two functions with the same values, but for one exchange; but for a part cut out.
Same(t, s, n) == \A i \in 0 .. n : t[i] = s[i]
Exchanged(t, s, n, P) ==
    \A i \in 0 .. n : t[i] = s[IF i = P THEN P + 1 ELSE IF i = P + 1 THEN P ELSE i]
Shifted(t, h, s, c, n) == t[0] = h /\ \A i \in 1 .. n : t[i] = s[i + c]

\* An overtaking.
LEMMA RowOvertake ==
    ASSUME NEW l, NEW parts \in Seq(Fragment), NEW stream \in Seq(Fragment \cup {Last}),
           NEW p \in 1 .. Len(stream) - 2
    PROVE  Exchanged(Row(l, parts, Swapped(stream, p)), Row(l, parts, stream),
                     Len(parts) + Len(stream), Len(parts) + p)
<1> DEFINE s == Row(l, parts, stream)
           w == Swapped(stream, p)
           t == Row(l, parts, w)
           L == Len(parts)
           n == Len(stream)
           P == L + p
<1>1. L \in Nat /\ n \in Nat /\ p \in 1 .. n - 2
  BY SMTT(30)
<1>2. w \in Seq(Fragment \cup {Last}) /\ Len(w) = n
  <2>1. p \in 1 .. n /\ p + 1 <= n
    BY <1>1, SMTT(30)
  <2> QED BY <2>1, FaultTypes
<1>3. IsRow(s, l, parts, stream) /\ IsRow(t, l, parts, w)
  BY <1>2, RowIs
<1>4. \A i \in 1 .. n : w[i] = stream[IF i = p THEN p + 1 ELSE IF i = p + 1 THEN p ELSE i]
  BY DEF Swapped
<1> HIDE DEF s, w, t
<1>5. ASSUME NEW i \in 0 .. L + n
      PROVE  t[i] = s[IF i = P THEN P + 1 ELSE IF i = P + 1 THEN P ELSE i]
  <2>1. CASE i = 0
    BY <1>1, <1>3, <2>1, SMTT(30) DEF IsRow
  <2>2. CASE i > 0 /\ i <= L
    <3>1. i \in 1 .. L /\ i # P /\ i # P + 1
      BY <1>1, <2>2, SMTT(30)
    <3> QED BY <1>3, <3>1 DEF IsRow
  <2>3. CASE i > L
    <3> DEFINE k == i - L
    <3>1. k \in 1 .. n /\ i = L + k
      BY <1>1, <2>3, SMTT(30)
    <3> HIDE DEF k
    <3>2. t[L + k] = Rank(w[k])
      BY <1>2, <1>3, <3>1 DEF IsRow
    <3>3. CASE k = p
      <4>1. p + 1 \in 1 .. n /\ i = P /\ P + 1 = L + (p + 1) /\ w[k] = stream[p + 1]
        BY <1>1, <1>4, <3>1, <3>3, SMTT(30)
      <4>2. s[L + (p + 1)] = Rank(stream[p + 1])
        BY <1>3, <4>1 DEF IsRow
      <4> QED BY <3>1, <3>2, <4>1, <4>2
    <3>4. CASE k = p + 1
      <4>1. p \in 1 .. n /\ i = P + 1 /\ i # P /\ w[k] = stream[p]
        BY <1>1, <1>4, <3>1, <3>4, SMTT(30)
      <4>2. s[L + p] = Rank(stream[p])
        BY <1>3, <4>1 DEF IsRow
      <4> QED BY <3>1, <3>2, <4>1, <4>2
    <3>5. CASE k # p /\ k # p + 1
      <4>1. i # P /\ i # P + 1 /\ w[k] = stream[k]
        BY <1>1, <1>4, <3>1, <3>5, SMTT(30)
      <4> QED BY <1>3, <3>1, <3>2, <4>1 DEF IsRow
    <3> QED BY <3>3, <3>4, <3>5
  <2> QED BY <1>1, <2>1, <2>2, <2>3, SMTT(30)
<1> QED BY <1>5 DEF s, w, t, Exchanged

\* What is left of a sequence.
LEMMA SkipType ==
    ASSUME NEW S, NEW s \in Seq(S), NEW m \in 0 .. Len(s)
    PROVE  Skip(s, m) \in Seq(S) /\ Len(Skip(s, m)) = Len(s) - m
<1>1. Skip(s, m) \in [1 .. Len(s) - m -> S] /\ Len(s) - m \in Nat
  BY SMTT(30) DEF Skip
<1> QED BY <1>1, SMTT(30) DEF Skip

\* Giving up the parts and the first of the stream cuts them out of the row.
LEMMA RowSkip ==
    ASSUME NEW l, NEW h, NEW parts \in Seq(Fragment), NEW stream \in Seq(Fragment \cup {Last}),
           NEW m \in 0 .. Len(stream)
    PROVE  Shifted(Row(h, << >>, Skip(stream, m)), h, Row(l, parts, stream),
                   Len(parts) + m, Len(stream) - m)
<1> DEFINE s == Row(l, parts, stream)
           e == << >>
           w == Skip(stream, m)
           t == Row(h, e, w)
           L == Len(parts)
           n == Len(stream)
<1>1. L \in Nat /\ n \in Nat /\ m \in 0 .. n /\ e \in Seq(Fragment) /\ Len(e) = 0
  BY SMTT(30)
<1>2. w \in Seq(Fragment \cup {Last}) /\ Len(w) = n - m
  BY SkipType
<1> HIDE DEF e
<1>3. IsRow(s, l, parts, stream) /\ IsRow(t, h, e, w)
  BY <1>1, <1>2, RowIs
<1>4. \A i \in 1 .. n - m : w[i] = stream[i + m]
  BY DEF Skip
<1> HIDE DEF s, w, t
<1>5. t[0] = h
  BY <1>3 DEF IsRow
<1>6. ASSUME NEW i \in 1 .. n - m PROVE t[i] = s[i + (L + m)]
  <2>1. t[Len(e) + i] = Rank(w[i])
    BY <1>2, <1>3 DEF IsRow
  <2>2. Len(e) + i = i /\ i + m \in 1 .. n /\ i + (L + m) = L + (i + m)
    BY <1>1, SMTT(30)
  <2>3. s[L + (i + m)] = Rank(stream[i + m])
    BY <1>3, <2>2 DEF IsRow
  <2> QED BY <1>4, <2>1, <2>2, <2>3
<1> QED BY <1>5, <1>6 DEF s, w, t, e, Shifted

\* Keeping the head of the stream moves it to the parts; the row is the same.
LEMMA RowKept ==
    ASSUME NEW l, NEW parts \in Seq(Fragment), NEW stream \in Seq(Fragment \cup {Last}),
           Len(stream) > 0, stream[1] \in Fragment
    PROVE  Same(Row(l, Append(parts, stream[1]), Skip(stream, 1)), Row(l, parts, stream),
                Len(parts) + Len(stream))
<1> DEFINE s == Row(l, parts, stream)
           e == Append(parts, stream[1])
           w == Skip(stream, 1)
           t == Row(l, e, w)
           L == Len(parts)
           n == Len(stream)
<1>1. L \in Nat /\ n \in Nat /\ n > 0 /\ 1 \in 0 .. n
  BY SMTT(30)
<1>2. /\ e \in Seq(Fragment) /\ Len(e) = L + 1 /\ e[L + 1] = stream[1]
      /\ \A i \in 1 .. L : e[i] = parts[i]
  BY SMTT(30)
<1>3. w \in Seq(Fragment \cup {Last}) /\ Len(w) = n - 1
  BY <1>1, SkipType
<1> HIDE DEF e
<1>4. IsRow(s, l, parts, stream) /\ IsRow(t, l, e, w)
  BY <1>2, <1>3, RowIs
<1>5. \A i \in 1 .. n - 1 : w[i] = stream[i + 1]
  BY DEF Skip
<1> HIDE DEF s, w, t
<1>6. ASSUME NEW i \in 0 .. L + n PROVE t[i] = s[i]
  <2>1. CASE i = 0
    BY <1>4, <2>1 DEF IsRow
  <2>2. CASE i > 0 /\ i <= L
    <3>1. i \in 1 .. L /\ i \in 1 .. L + 1
      BY <1>1, <2>2, SMTT(30)
    <3> QED BY <1>2, <1>4, <3>1 DEF IsRow
  <2>3. CASE i = L + 1
    <3>1. i \in 1 .. L + 1 /\ 1 \in 1 .. n /\ i = L + 1
      BY <1>1, <2>3, SMTT(30)
    <3>2. t[i] = Rank(stream[1])
      BY <1>2, <1>4, <3>1, SMTT(30) DEF IsRow
    <3>3. s[L + 1] = Rank(stream[1])
      BY <1>4, <3>1 DEF IsRow
    <3> QED BY <3>1, <3>2, <3>3
  <2>4. CASE i > L + 1
    <3> DEFINE k == i - (L + 1)
    <3>1. k \in 1 .. n - 1 /\ i = (L + 1) + k /\ i = L + (k + 1) /\ k + 1 \in 1 .. n
      BY <1>1, <2>4, SMTT(30)
    <3> HIDE DEF k
    <3>2. t[(L + 1) + k] = Rank(w[k])
      BY <1>2, <1>3, <1>4, <3>1 DEF IsRow
    <3>3. s[L + (k + 1)] = Rank(stream[k + 1])
      BY <1>4, <3>1 DEF IsRow
    <3> QED BY <1>5, <3>1, <3>2, <3>3
  <2> QED BY <1>1, <2>1, <2>2, <2>3, <2>4, SMTT(30)
<1> QED BY <1>6 DEF s, w, t, e, Same

\* No buffer is returned empty, and all that is about is nearly in order.
Filled == \A k \in 1 .. Len(delivered) : delivered[k] # << >>
Ordered == Orderly(Ranks, Span, losses + reorders, reorders)

\* What the invariant says of the ranks.
LEMMA RanksAre ==
    ASSUME Types, Filled
    PROVE  /\ LastRank \in Int /\ Ranked(Ranks, Span) /\ IsRow(Ranks, LastRank, asm.parts, Stream)
           /\ asm.parts \in Seq(Fragment) /\ Stream \in Seq(Fragment \cup {Last})
           /\ Len(asm.parts) \in Nat /\ Len(Stream) \in Nat /\ Len(Stream) > 0 /\ Span \in Nat
           /\ losses \in Nat /\ reorders \in Nat /\ losses + reorders \in Nat
<1>1. /\ asm.parts \in Seq(Fragment) /\ Stream \in Seq(Fragment \cup {Last})
      /\ Len(asm.parts) \in Nat /\ Len(Stream) \in Nat /\ losses \in Nat /\ reorders \in Nat
  BY StreamType, SMTT(30) DEF Types
<1>2. Len(Stream) > 0
  <2>1. Len(msgvec) \in Nat /\ Len(net) \in Nat /\ Len(Stream) = Len(msgvec) + Len(net) + 1
    BY StreamType, SMTT(30) DEF Types
  <2> QED BY <2>1, SMTT(30)
<1>3. LastRank \in Int
  <2>1. CASE delivered = << >>
    BY <2>1, SMTT(30) DEF LastRank
  <2>2. CASE delivered # << >>
    <3> DEFINE d == delivered[Len(delivered)]
    <3>1. delivered \in Seq(Seq(Fragment)) /\ Len(delivered) \in 1 .. Len(delivered)
      BY <2>2, SMTT(30) DEF Types
    <3>2. d \in Seq(Fragment) /\ d # << >>
      BY <3>1, SMTT(30) DEF Filled
    <3>3. LastRank = Rank(d[Len(d)])
      BY <2>2 DEF LastRank
    <3> HIDE DEF d
    <3>4. d[Len(d)] \in Fragment
      BY <3>2, SMTT(30)
    <3> QED BY <3>3, <3>4, RankType, SMTT(30)
  <2> QED BY <2>1, <2>2
<1>4. Ranked(Ranks, Span)
  BY <1>1, <1>2, <1>3, RowRanked DEF Ranks, Span
<1>5. IsRow(Ranks, LastRank, asm.parts, Stream)
  BY <1>1, RowIs DEF Ranks
<1> QED BY <1>1, <1>2, <1>3, <1>4, <1>5, SMTT(30) DEF Span

\* The stream is a sequence.
LEMMA StreamSeq == Types => Stream \in Seq(Fragment \cup {Last})
  BY StreamType

\* The same, in the next state.
LEMMA StreamSeqNext == Types' => (Stream \in Seq(Fragment \cup {Last}))'
  BY StreamSeq, PTL

\* As long as nothing is returned the last rank is the same.
LEMMA SameLast == ASSUME delivered' = delivered PROVE LastRank' = LastRank
  BY DEF LastRank

\* Sending keeps the order.
LEMMA SendOrder ==
    ASSUME Types, Types', Filled, Ordered, SendFragment
    PROVE  Ordered'
<1> DEFINE L == Len(asm.parts)
           n == Len(Stream)
           K == losses + reorders
<1>1. /\ Ranked(Ranks, Span) /\ IsRow(Ranks, LastRank, asm.parts, Stream)
      /\ L \in Nat /\ n \in Nat /\ n > 0 /\ Span = L + n /\ K \in Nat /\ reorders \in Nat
      /\ asm.parts \in Seq(Fragment) /\ Stream[n] = next
  BY RanksAre, StreamType DEF Span
<1>2. /\ delivered' = delivered /\ asm' = asm /\ losses' = losses /\ reorders' = reorders
  BY DEF SendFragment, udpRecvVars
<1>3. next \in Fragment
  BY FragFields, FragsNat, SMTT(30) DEF Types, SendFragment, Burst, Last
<1>4. /\ Stream' \in Seq(Fragment \cup {Last}) /\ Len(Stream') = n + 1
      /\ \A i \in 1 .. n : Stream'[i] = Stream[i]
      /\ Stream'[n + 1] = Following(next)
  BY SendStream, StreamSeqNext
<1>5. Ranks' = Row(LastRank, asm.parts, Stream') /\ Span' = L + (n + 1)
  BY <1>2, <1>4, SameLast DEF Ranks, Span
<1>6. IsRow(Ranks', LastRank, asm.parts, Stream')
  BY <1>1, <1>4, <1>5, RowIs
<1>7. ASSUME NEW i \in 0 .. L + n PROVE Ranks'[i] = Ranks[i]
  <2>1. CASE i = 0
    BY <1>1, <1>6, <2>1 DEF IsRow
  <2>2. CASE i > 0 /\ i <= L
    <3>1. i \in 1 .. L
      BY <1>1, <2>2, SMTT(30)
    <3> QED BY <1>1, <1>6, <3>1 DEF IsRow
  <2>3. CASE i > L
    <3> DEFINE k == i - L
    <3>1. k \in 1 .. n /\ k \in 1 .. n + 1 /\ i = L + k
      BY <1>1, <2>3, SMTT(30)
    <3> HIDE DEF k
    <3>2. Ranks'[L + k] = Rank(Stream'[k])
      BY <1>4, <1>6, <3>1 DEF IsRow
    <3>3. Ranks[L + k] = Rank(Stream[k])
      BY <1>1, <3>1 DEF IsRow
    <3> QED BY <1>4, <3>1, <3>2, <3>3
  <2> QED BY <1>1, <2>1, <2>2, <2>3, SMTT(30)
<1>8. Ranks'[(L + n) + 1] = Ranks[L + n] + 1
  <2>1. n \in 1 .. n /\ n + 1 \in 1 .. n + 1 /\ (L + n) + 1 = L + (n + 1)
    <3>1. L \in Nat /\ n \in Nat /\ n > 0
      BY <1>1
    <3> HIDE DEF L, n
    <3> QED BY <3>1, SMTT(30)
  <2>2. Ranks'[L + (n + 1)] = Rank(Following(next))
    BY <1>4, <1>6, <2>1 DEF IsRow
  <2>3. Ranks[L + n] = Rank(next)
    BY <1>1, <2>1 DEF IsRow
  <2> QED BY <1>3, <2>1, <2>2, <2>3, RankType
<1>9. Orderly(Ranks, L + n, K, reorders) /\ Ranked(Ranks, L + n)
  BY <1>1 DEF Ordered
<1>10. Orderly(Ranks', (L + n) + 1, K, reorders)
  <2> DEFINE s == Ranks
             t == Ranks'
             N == L + n
  <2>1. /\ Orderly(s, N, K, reorders) /\ Ranked(s, N) /\ K \in Nat /\ reorders \in Nat
        /\ \A i \in 0 .. N : t[i] = s[i]
        /\ t[N + 1] = s[N] + 1
    BY <1>1, <1>7, <1>8, <1>9
  <2> HIDE DEF s, t, N, K
  <2>2. Orderly(t, N + 1, K, reorders)
    BY <2>1, OrderlySend
  <2> QED BY <2>2 DEF s, t, N, K
<1>11. Span' = (L + n) + 1
  <2>1. L \in Nat /\ n \in Nat /\ Span' = L + (n + 1)
    BY <1>1, <1>5
  <2> HIDE DEF L, n
  <2> QED BY <2>1, SMTT(30)
<1> QED BY <1>2, <1>10, <1>11 DEF Ordered

\* A loss keeps it, with one more fault to allow for.
LEMMA LoseOrder ==
    ASSUME Types, Filled, Ordered, Lose
    PROVE  Ordered'
<1> DEFINE L == Len(asm.parts)
           n == Len(Stream)
           K == losses + reorders
<1>1. /\ Ranked(Ranks, Span) /\ L \in Nat /\ n \in Nat /\ Span = L + n /\ K \in Nat /\ reorders \in Nat
      /\ asm.parts \in Seq(Fragment) /\ Stream \in Seq(Fragment \cup {Last}) /\ losses \in Nat
  BY RanksAre DEF Span
<1>2. /\ delivered' = delivered /\ asm' = asm /\ msgvec' = msgvec /\ next' = next
      /\ losses' = losses + 1 /\ reorders' = reorders
  BY DEF Lose, udpRecvVars
<1>3. PICK k \in 1 .. Len(net) : net' = Without(net, k)
  BY DEF Lose
<1> DEFINE p == Len(msgvec) + k
<1>4. p \in 1 .. n - 1 /\ Stream' = Without(Stream, p)
  BY <1>2, <1>3, LoseStream
<1> HIDE DEF p
<1>5. Len(Stream') = n - 1
  BY <1>1, <1>4, FaultTypes, SMTT(30)
<1>6. Ranks' = Row(LastRank, asm.parts, Without(Stream, p)) /\ Span' = (L + n) - 1
  BY <1>1, <1>2, <1>4, <1>5, SameLast, SMTT(30) DEF Ranks, Span
<1>7. \A i \in 0 .. L + n - 1 : Ranks'[i] = Ranks[IF i < L + p THEN i ELSE i + 1]
  <2>1. \A i \in 0 .. L + n - 1 :
          Row(LastRank, asm.parts, Without(Stream, p))[i]
            = Row(LastRank, asm.parts, Stream)[IF i < L + p THEN i ELSE i + 1]
    BY <1>1, <1>4, RowLose
  <2>2. Ranks = Row(LastRank, asm.parts, Stream)
    BY DEF Ranks
  <2> QED BY <1>6, <2>1, <2>2
<1> DEFINE s == Ranks
           t == Ranks'
           N == L + n
           P == L + p
<1>8. /\ Orderly(s, N, K, reorders) /\ Ranked(s, N) /\ K \in Nat /\ reorders \in Nat
      /\ P \in 1 .. N - 1
      /\ \A i \in 0 .. N - 1 : t[i] = s[IF i < P THEN i ELSE i + 1]
  BY <1>1, <1>4, <1>7, SMTT(30) DEF Ordered
<1>9. K' = K + 1
  BY <1>1, <1>2, SMTT(30)
<1> HIDE DEF s, t, N, P, K
<1>10. Orderly(t, N - 1, K + 1, reorders)
  BY <1>8, OrderlyLose
<1> QED BY <1>2, <1>6, <1>9, <1>10 DEF Ordered, s, t, N, K

\* So does a duplicate.
LEMMA DuplicateOrder ==
    ASSUME Types, Filled, Ordered, Duplicate
    PROVE  Ordered'
<1> DEFINE L == Len(asm.parts)
           n == Len(Stream)
           K == losses + reorders
<1>1. /\ Ranked(Ranks, Span) /\ L \in Nat /\ n \in Nat /\ Span = L + n /\ K \in Nat /\ reorders \in Nat
      /\ asm.parts \in Seq(Fragment) /\ Stream \in Seq(Fragment \cup {Last}) /\ losses \in Nat
  BY RanksAre DEF Span
<1>2. /\ delivered' = delivered /\ asm' = asm /\ msgvec' = msgvec /\ next' = next
      /\ losses' = losses /\ reorders' = reorders + 1
  BY DEF Duplicate, udpRecvVars
<1>3. PICK k \in 1 .. Len(net) : net' = Twice(net, k)
  BY DEF Duplicate
<1> DEFINE p == Len(msgvec) + k
<1>4. p \in 1 .. n - 1 /\ Stream' = Twice(Stream, p)
  BY <1>2, <1>3, DuplicateStream
<1> HIDE DEF p
<1>5. Len(Stream') = n + 1
  BY <1>1, <1>4, FaultTypes, SMTT(30)
<1>6. Ranks' = Row(LastRank, asm.parts, Twice(Stream, p)) /\ Span' = (L + n) + 1
  <2>1. Ranks' = Row(LastRank, asm.parts, Twice(Stream, p)) /\ Span' = L + (n + 1)
    BY <1>2, <1>4, <1>5, SameLast DEF Ranks, Span
  <2>2. L \in Nat /\ n \in Nat
    BY <1>1
  <2> HIDE DEF L, n
  <2> QED BY <2>1, <2>2, SMTT(30)
<1>7. \A i \in 0 .. L + n + 1 : Ranks'[i] = Ranks[IF i <= L + p THEN i ELSE i - 1]
  <2>1. \A i \in 0 .. L + n + 1 :
          Row(LastRank, asm.parts, Twice(Stream, p))[i]
            = Row(LastRank, asm.parts, Stream)[IF i <= L + p THEN i ELSE i - 1]
    BY <1>1, <1>4, RowDuplicate
  <2>2. Ranks = Row(LastRank, asm.parts, Stream)
    BY DEF Ranks
  <2> QED BY <1>6, <2>1, <2>2
<1> DEFINE s == Ranks
           t == Ranks'
           N == L + n
           P == L + p
<1>8. /\ Orderly(s, N, K, reorders) /\ Ranked(s, N) /\ K \in Nat /\ reorders \in Nat
      /\ P \in 1 .. N - 1
      /\ \A i \in 0 .. N + 1 : t[i] = s[IF i <= P THEN i ELSE i - 1]
  BY <1>1, <1>4, <1>7, SMTT(30) DEF Ordered
<1>9. K' = K + 1
  BY <1>1, <1>2, SMTT(30)
<1> HIDE DEF s, t, N, P, K
<1>10. Orderly(t, N + 1, K + 1, reorders + 1)
  BY <1>8, OrderlyDuplicate
<1> QED BY <1>2, <1>6, <1>9, <1>10 DEF Ordered, s, t, N, K

\* So does an overtaking.
LEMMA OvertakeOrder ==
    ASSUME Types, Filled, Ordered, Overtake
    PROVE  Ordered'
<1> DEFINE L == Len(asm.parts)
           n == Len(Stream)
           K == losses + reorders
<1>1. /\ Ranked(Ranks, Span) /\ L \in Nat /\ n \in Nat /\ Span = L + n /\ K \in Nat /\ reorders \in Nat
      /\ asm.parts \in Seq(Fragment) /\ Stream \in Seq(Fragment \cup {Last}) /\ losses \in Nat
  BY RanksAre DEF Span
<1>2. /\ delivered' = delivered /\ asm' = asm /\ msgvec' = msgvec /\ next' = next
      /\ losses' = losses /\ reorders' = reorders + 1
  BY DEF Overtake, udpRecvVars
<1>3. PICK k \in 1 .. Len(net) - 1 : net' = Swapped(net, k)
  BY DEF Overtake
<1> DEFINE p == Len(msgvec) + k
<1>4. p \in 1 .. n - 2 /\ Stream' = Swapped(Stream, p)
  BY <1>2, <1>3, OvertakeStream
<1> HIDE DEF p
<1>5. Len(Stream') = n
  BY <1>1, <1>4, FaultTypes, SMTT(30)
<1>6. Ranks' = Row(LastRank, asm.parts, Swapped(Stream, p)) /\ Span' = L + n
  BY <1>1, <1>2, <1>4, <1>5, SameLast DEF Ranks, Span
<1>7. Exchanged(Ranks', Ranks, L + n, L + p)
  BY <1>1, <1>4, <1>6, RowOvertake DEF Ranks
<1> DEFINE s == Ranks
           t == Ranks'
           N == L + n
           P == L + p
<1>8. /\ Orderly(s, N, K, reorders) /\ Ranked(s, N) /\ K \in Nat /\ reorders \in Nat
      /\ P \in 1 .. N - 2
      /\ \A i \in 0 .. N : t[i] = s[IF i = P THEN P + 1 ELSE IF i = P + 1 THEN P ELSE i]
  BY <1>1, <1>4, <1>7, SMTT(30) DEF Ordered, Exchanged
<1>9. K' = K + 1
  BY <1>1, <1>2, SMTT(30)
<1> HIDE DEF s, t, N, P, K
<1>10. Orderly(t, N, K + 1, reorders + 1)
  BY <1>8, OrderlyOvertake
<1> QED BY <1>2, <1>6, <1>9, <1>10 DEF Ordered, s, t, N, K

\* A socket error gives up what is held.
LEMMA ErrorOrder ==
    ASSUME Types, Filled, Ordered, RecvError
    PROVE  Ordered'
<1> DEFINE L == Len(asm.parts)
           n == Len(Stream)
           K == losses + reorders
<1>1. /\ Ranked(Ranks, Span) /\ L \in Nat /\ n \in Nat /\ n > 0 /\ Span = L + n /\ K \in Nat /\ reorders \in Nat
      /\ asm.parts \in Seq(Fragment) /\ Stream \in Seq(Fragment \cup {Last})
      /\ IsRow(Ranks, LastRank, asm.parts, Stream)
  BY RanksAre DEF Span
<1>2. /\ delivered' = delivered /\ msgvec' = msgvec /\ net' = net /\ next' = next
      /\ losses' = losses /\ reorders' = reorders /\ asm'.parts = << >>
  BY EmptyHolding DEF RecvError
<1>3. Stream' = Skip(Stream, 0)
  <2>1. Stream' = Stream /\ Stream = [i \in 1 .. n |-> Stream[i]]
    BY <1>1, <1>2, SMTT(30) DEF Stream
  <2>2. \A i \in 1 .. n : i + 0 = i
    BY <1>1, SMTT(30)
  <2>3. n - 0 = n
    BY <1>1, SMTT(30)
  <2> QED BY <2>1, <2>2, <2>3 DEF Skip
<1>4. Len(Stream') = n
  BY <1>2 DEF Stream
<1>5. Ranks' = Row(LastRank, << >>, Skip(Stream, 0)) /\ Span' = n
  <2>1. Ranks' = Row(LastRank, << >>, Skip(Stream, 0)) /\ Span' = Len(<< >>) + n
    BY <1>2, <1>3, <1>4, SameLast DEF Ranks, Span
  <2> QED BY <1>1, <2>1, SMTT(30)
<1>6. /\ Ranks'[0] = LastRank
      /\ \A i \in 1 .. n : Ranks'[i] = Ranks[i + L]
  <2>1. 0 \in 0 .. n /\ n - 0 = n /\ L + 0 = L
    BY <1>1, SMTT(30)
  <2>2. Shifted(Row(LastRank, << >>, Skip(Stream, 0)), LastRank, Row(LastRank, asm.parts, Stream), L + 0, n - 0)
    BY <1>1, <2>1, RowSkip
  <2>3. Ranks = Row(LastRank, asm.parts, Stream)
    BY DEF Ranks
  <2> QED BY <1>5, <2>1, <2>2, <2>3 DEF Shifted
<1> DEFINE s == Ranks
           t == Ranks'
           N == L + n
<1>7. /\ Orderly(s, N, K, reorders) /\ Ranked(s, N) /\ K \in Nat /\ reorders \in Nat
      /\ L \in 0 .. N - 1 /\ 0 \in 0 .. L /\ N - L = n
      /\ t[0] = s[0]
  BY <1>1, <1>6, SMTT(30) DEF Ordered, IsRow
<1>8. \A i \in 1 .. N - L : t[i] = s[i + L]
  BY <1>6, <1>7
<1> HIDE DEF s, t, N, K, L
<1>9. Orderly(t, N - L, K, reorders)
  BY <1>7, <1>8, OrderlySkip
<1>10. Orderly(Ranks', Span', K, reorders)
  BY <1>5, <1>7, <1>9 DEF t
<1> QED BY <1>2, <1>10 DEF Ordered, K

\* What a packet does to the fragments, when it keeps none.
LEMMA ShedOrder ==
    ASSUME Types, Filled, Ordered, UNCHANGED <<losses, reorders>>,
           NEW m \in 1 .. Len(msgvec), Stream' = Skip(Stream, m), asm'.parts = << >>,
           NEW d \in 0 .. 1, LastRank' = Ranks[IF d = 0 THEN 0 ELSE Len(asm.parts) + 1]
    PROVE  Ordered'
<1> DEFINE L == Len(asm.parts)
           n == Len(Stream)
           K == losses + reorders
           c == L + m
           e == IF d = 0 THEN 0 ELSE L + 1
<1>1. /\ Ranked(Ranks, Span) /\ L \in Nat /\ n \in Nat /\ n > 0 /\ Span = L + n /\ K \in Nat /\ reorders \in Nat
      /\ asm.parts \in Seq(Fragment) /\ Stream \in Seq(Fragment \cup {Last})
  BY RanksAre DEF Span
<1>2. m \in 1 .. n - 1 /\ m \in 0 .. n
  BY <1>1, StreamType, SMTT(30) DEF Types
<1>3. Len(Stream') = n - m
  BY <1>1, <1>2, SkipType
<1>4. Ranks' = Row(LastRank', << >>, Skip(Stream, m)) /\ Span' = n - m
  <2>1. Ranks' = Row(LastRank', << >>, Skip(Stream, m)) /\ Span' = Len(<< >>) + (n - m)
    BY <1>3 DEF Ranks, Span
  <2> QED BY <1>1, <1>2, <2>1, SMTT(30)
<1>5. /\ Ranks'[0] = LastRank'
      /\ \A i \in 1 .. n - m : Ranks'[i] = Ranks[i + c]
  <2>1. Shifted(Row(LastRank', << >>, Skip(Stream, m)), LastRank', Row(LastRank, asm.parts, Stream), L + m, n - m)
    BY <1>1, <1>2, RowSkip
  <2>2. Ranks = Row(LastRank, asm.parts, Stream)
    BY DEF Ranks
  <2> QED BY <1>4, <2>1, <2>2 DEF Shifted
<1> DEFINE s == Ranks
           t == Ranks'
           N == L + n
<1>6. c \in 0 .. N - 1 /\ e \in 0 .. c /\ N - c = n - m
  BY <1>1, <1>2, SMTT(30)
<1>7. /\ Orderly(s, N, K, reorders) /\ Ranked(s, N) /\ K \in Nat /\ reorders \in Nat
      /\ t[0] = s[e]
  BY <1>1, <1>5 DEF Ordered
<1>8. \A i \in 1 .. N - c : t[i] = s[i + c]
  BY <1>5, <1>6
<1> HIDE DEF s, t, N, K, L, c, e
<1>9. Orderly(t, N - c, K, reorders)
  BY <1>6, <1>7, <1>8, OrderlySkip
<1>10. Orderly(Ranks', Span', K, reorders)
  BY <1>4, <1>6, <1>9 DEF t
<1> QED BY <1>10 DEF Ordered, K

\* A packet that is kept.
LEMMA KeptOrder ==
    ASSUME Types, Types', Filled, Ordered, UNCHANGED <<delivered, losses, reorders>>,
           Len(msgvec) > 0, Stream' = Skip(Stream, 1), Stream[1] \in Fragment,
           asm'.parts = Append(asm.parts, Stream[1])
    PROVE  Ordered'
<1> DEFINE L == Len(asm.parts)
           n == Len(Stream)
           K == losses + reorders
<1>1. /\ Ranked(Ranks, Span) /\ L \in Nat /\ n \in Nat /\ n > 0 /\ Span = L + n /\ K \in Nat /\ reorders \in Nat
      /\ asm.parts \in Seq(Fragment) /\ Stream \in Seq(Fragment \cup {Last})
  BY RanksAre DEF Span
<1>2. 1 \in 0 .. n
  BY <1>1, SMTT(30)
<1>3. Len(Stream') = n - 1 /\ Len(asm'.parts) = L + 1
  BY <1>1, <1>2, SkipType, SMTT(30)
<1>4. Ranks' = Row(LastRank, Append(asm.parts, Stream[1]), Skip(Stream, 1)) /\ Span' = L + n
  <2>1. Ranks' = Row(LastRank, Append(asm.parts, Stream[1]), Skip(Stream, 1)) /\ Span' = (L + 1) + (n - 1)
    BY <1>3, SameLast DEF Ranks, Span
  <2>2. L \in Nat /\ n \in Nat
    BY <1>1
  <2> HIDE DEF L, n
  <2> QED BY <2>1, <2>2, SMTT(30)
<1>5. Same(Ranks', Ranks, L + n)
  BY <1>1, <1>4, RowKept DEF Ranks
<1> DEFINE s == Ranks
           t == Ranks'
           N == L + n
<1>6. /\ Orderly(s, N, K, reorders) /\ Ranked(s, N) /\ K \in Nat /\ reorders \in Nat
      /\ N \in Nat /\ N > 0 /\ \A i \in 0 .. N : t[i] = s[i]
  BY <1>1, <1>5, SMTT(30) DEF Ordered, Same
<1> HIDE DEF s, t, N, K
<1>7. Orderly(t, N, K, reorders)
  <2>1. /\ \A i \in 1 .. N : i \in 0 .. N
        /\ \A i \in 0 .. N - 1 : i \in 0 .. N
        /\ N \in 0 .. N
    BY <1>6, SMTT(30)
  <2> QED BY <1>6, <2>1 DEF Orderly
<1>8. Orderly(Ranks', Span', K, reorders)
  BY <1>4, <1>7 DEF t, N
<1> QED BY <1>8 DEF Ordered, K

\* What Append makes of a sequence.
LEMMA AppendIs ==
    ASSUME NEW S, NEW s \in Seq(S), NEW e \in S
    PROVE  /\ Append(s, e) # << >> /\ Len(Append(s, e)) = Len(s) + 1 /\ Append(s, e)[Len(s) + 1] = e
           /\ \A k \in 1 .. Len(s) : Append(s, e)[k] = s[k]
  BY SMTT(30)

\* Every packet keeps the order, whatever becomes of it.
LEMMA PacketOrder ==
    ASSUME Types, Types', Filled, Ordered, Packet
    PROVE  Filled' /\ Ordered'
<1> DEFINE f == Stream[1]
           L == Len(asm.parts)
<1>1. /\ f \in Fragment /\ Len(msgvec) \in Nat /\ Len(msgvec) # 0
      /\ Dropped(f) \/ Kept(f) \/ Returned(f)
  BY PacketCases
<1>2. UNCHANGED <<losses, reorders>>
  BY DEF Packet
<1>3. /\ L \in Nat /\ asm.parts \in Seq(Fragment) /\ IsRow(Ranks, LastRank, asm.parts, Stream)
      /\ Len(Stream) \in Nat /\ Len(Stream) > 0
  BY RanksAre
<1>4. 1 \in 1 .. Len(msgvec) /\ Len(msgvec) \in 1 .. Len(msgvec)
  BY <1>1, SMTT(30)
<1>5. CASE Dropped(f)
  <2>1. /\ asm'.parts = << >> /\ delivered' = delivered /\ Stream' = Skip(Stream, 1)
    BY <1>5, EmptyHolding DEF Dropped
  <2>2. LastRank' = Ranks[0]
    BY <1>3, <2>1, SameLast DEF IsRow
  <2>3. 0 \in 0 .. 1 /\ LastRank' = Ranks[IF 0 = 0 THEN 0 ELSE Len(asm.parts) + 1]
    BY <2>2, SMTT(30)
  <2>4. Ordered'
    BY <1>2, <1>4, <2>1, <2>3, ShedOrder
  <2>5. Filled'
    BY <2>1 DEF Filled
  <2> QED BY <2>4, <2>5
<1>6. CASE Kept(f)
  <2>1. /\ asm'.parts = Append(asm.parts, f) /\ delivered' = delivered /\ Stream' = Skip(Stream, 1)
    BY <1>1, <1>6, WrittenIs DEF Kept
  <2>2. Ordered'
    BY <1>1, <1>2, <2>1, KeptOrder, SMTT(30)
  <2>3. Filled'
    BY <2>1 DEF Filled
  <2> QED BY <2>2, <2>3
<1>7. CASE Returned(f)
  <2> DEFINE p == Append(asm.parts, f)
  <2>1. /\ asm'.parts = << >> /\ delivered' = Append(delivered, p) /\ Stream' = Skip(Stream, Len(msgvec))
    BY <1>7, EmptyHolding DEF Returned
  <2>2. p \in Seq(Fragment) /\ p # << >> /\ p[Len(p)] = f
    BY <1>1, <1>7, WrittenIs DEF Returned
  <2>3. delivered \in Seq(Seq(Fragment)) /\ Len(delivered) \in Nat
    BY SMTT(30) DEF Types
  <2> HIDE DEF p
  <2>4. /\ delivered' # << >> /\ Len(delivered') = Len(delivered) + 1 /\ delivered'[Len(delivered) + 1] = p
        /\ \A k \in 1 .. Len(delivered) : delivered'[k] = delivered[k]
    BY <2>1, <2>2, <2>3, AppendIs, SMTT(30)
  <2>5. LastRank' = Rank(f)
    BY <2>2, <2>4 DEF LastRank
  <2>6. Ranks[L + 1] = Rank(f)
    <3>1. 1 \in 1 .. Len(Stream)
      BY <1>3, SMTT(30)
    <3> QED BY <1>3, <3>1 DEF IsRow
  <2>7. 1 \in 0 .. 1 /\ LastRank' = Ranks[IF 1 = 0 THEN 0 ELSE Len(asm.parts) + 1]
    BY <2>5, <2>6, SMTT(30)
  <2>8. Ordered'
    BY <1>2, <1>4, <2>1, <2>7, ShedOrder
  <2>9. Filled'
    <3>1. \A k \in 1 .. Len(delivered) + 1 : k \in 1 .. Len(delivered) \/ k = Len(delivered) + 1
      BY <2>3, SMTT(30)
    <3> QED BY <2>2, <2>4, <3>1 DEF Filled
  <2> QED BY <2>8, <2>9
<1> QED BY <1>1, <1>5, <1>6, <1>7

\* FewAstray for one burst.
LEMMA FewAre ==
    ASSUME Types, FewAstray, NEW b \in Burst
    PROVE  /\ losses + reorders < Frags[b] /\ (reorders > 0 => losses + reorders + 1 < Frags[b])
           /\ losses + reorders \in Nat /\ Frags[b] \in Nat
<1>1. losses \in Nat /\ reorders \in Nat
  BY DEF Types
<1>2. losses + reorders + (IF reorders > 0 THEN 1 ELSE 0) < Frags[b]
  BY DEF FewAstray
<1>3. Frags[b] \in Nat
  BY FragsNat
<1> QED BY <1>1, <1>2, <1>3, SMTT(30)

\* The ranks of what is held and of the packet that follows it.
LEMMA PartRanks ==
    ASSUME Types, Filled, Ordered, Stream[1] \in Fragment, Fits(Stream[1])
    PROVE  LET p == Append(asm.parts, Stream[1])
               n == Len(asm.parts) + 1
               K == losses + reorders
           IN  /\ n \in Nat /\ Len(p) = n
               /\ \A m \in 1 .. n : Ranks[m] = Rank(p[m]) /\ Ranks[m] \in Nat /\ p[m] \in Fragment /\ p[m].seq = m - 1
               /\ \A m \in 1 .. Len(asm.parts) : p[m] = asm.parts[m]
               /\ p[n] = Stream[1]
               /\ \A i, j \in 1 .. n : i < j => Ranks[j] - Ranks[i] <= (j - i) + K
               /\ \A i, j \in 0 .. n : i < j /\ Ranks[j] <= Ranks[i] => (j - i) + (Ranks[i] - Ranks[j]) <= K + 1 /\ reorders > 0
<1> DEFINE L == Len(asm.parts)
           f == Stream[1]
           p == Append(asm.parts, f)
           K == losses + reorders
<1>1. /\ L \in Nat /\ asm.parts \in Seq(Fragment) /\ IsRow(Ranks, LastRank, asm.parts, Stream)
      /\ Len(Stream) \in Nat /\ Len(Stream) > 0 /\ Span = L + Len(Stream)
  BY RanksAre DEF Span
<1>2. /\ Len(p) = L + 1 /\ p \in Seq(Fragment)
      /\ \A m \in 1 .. L : p[m] = asm.parts[m]
      /\ p[L + 1] = f /\ \A m \in 1 .. L + 1 : p[m].seq = m - 1
  BY WrittenIs
<1> HIDE DEF p, f
<1>3. ASSUME NEW m \in 1 .. L + 1
      PROVE  Ranks[m] = Rank(p[m]) /\ p[m] \in Fragment
  <2>1. p[m] \in Fragment
    BY <1>1, <1>2, SMTT(30)
  <2>2. CASE m \in 1 .. L
    BY <1>1, <1>2, <2>1, <2>2 DEF IsRow
  <2>3. CASE m = L + 1
    <3>1. 1 \in 1 .. Len(Stream)
      BY <1>1, SMTT(30)
    <3>2. Ranks[L + 1] = Rank(f)
      BY <1>1, <3>1 DEF IsRow, f
    <3> QED BY <1>2, <2>1, <2>3, <3>2
  <2>4. m \in 1 .. L \/ m = L + 1
    BY <1>1, SMTT(30)
  <2> QED BY <2>2, <2>3, <2>4
<1>4. ASSUME NEW m \in 1 .. L + 1 PROVE Ranks[m] \in Nat
  BY <1>3, RankType
<1>5. \A i \in 0 .. L + 1 : i \in 0 .. Span
  BY <1>1, SMTT(30)
<1>6. \A i \in 1 .. L + 1 : i \in 1 .. Span
  BY <1>1, SMTT(30)
<1>7. /\ \A i, j \in 1 .. Span : i < j => Ranks[j] - Ranks[i] <= (j - i) + K
      /\ \A i, j \in 0 .. Span : i < j /\ Ranks[j] <= Ranks[i] => (j - i) + (Ranks[i] - Ranks[j]) <= K + 1 /\ reorders > 0
  BY DEF Ordered, Orderly
<1>8. \A i, j \in 1 .. L + 1 : i < j => Ranks[j] - Ranks[i] <= (j - i) + K
  BY <1>6, <1>7
<1>9. \A i, j \in 0 .. L + 1 : i < j /\ Ranks[j] <= Ranks[i] => (j - i) + (Ranks[i] - Ranks[j]) <= K + 1 /\ reorders > 0
  BY <1>5, <1>7
<1>10. L + 1 \in Nat
  BY <1>1, SMTT(30)
<1> QED BY <1>2, <1>3, <1>4, <1>8, <1>9, <1>10 DEF p, f

\* A fragment that continues the numbers of a burst belongs to it.
LEMMA StaysPure ==
    ASSUME Types, Filled, Ordered, FewAstray, OneBurst(asm.parts),
           Stream[1] \in Fragment, Fits(Stream[1])
    PROVE  OneBurst(Append(asm.parts, Stream[1]))
<1> DEFINE L == Len(asm.parts)
           f == Stream[1]
           p == Append(asm.parts, f)
           K == losses + reorders
           c == f.burst
           h == p[1].burst
<1>1. L \in Nat
  BY SMTT(30) DEF Types
<1>2. /\ L + 1 \in Nat /\ Len(p) = L + 1
      /\ \A m \in 1 .. L + 1 : Ranks[m] = Rank(p[m]) /\ Ranks[m] \in Nat /\ p[m] \in Fragment /\ p[m].seq = m - 1
      /\ \A m \in 1 .. L : p[m] = asm.parts[m]
      /\ p[L + 1] = f
      /\ \A i, j \in 1 .. L + 1 : i < j => Ranks[j] - Ranks[i] <= (j - i) + K
      /\ \A i, j \in 0 .. L + 1 : i < j /\ Ranks[j] <= Ranks[i] => (j - i) + (Ranks[i] - Ranks[j]) <= K + 1 /\ reorders > 0
  BY PartRanks
<1> HIDE DEF p, f, L
<1>3. CASE L = 0
  <2>1. \A m \in 1 .. Len(p) : m = 1
    BY <1>2, <1>3, SMTT(30)
  <2> QED BY <2>1 DEF OneBurst, p, f
<1>4. CASE L # 0
  <2>1. L \in 1 .. L + 1 /\ L + 1 \in 1 .. L + 1 /\ 1 \in 1 .. L + 1 /\ 1 \in 0 .. L + 1 /\ L + 1 \in 0 .. L + 1
        /\ 1 \in 1 .. L /\ L \in 1 .. L /\ L < L + 1 /\ 1 < L + 1
    BY <1>1, <1>4, SMTT(30)
  <2>2. \A m \in 1 .. L : p[m].burst = h
    BY <1>2, <2>1 DEF OneBurst, L
  <2>3. c \in Burst /\ h \in Burst /\ c \in Nat /\ h \in Nat /\ f.seq = L /\ L \in 0 .. Frags[c] - 1
    <3>1. p[1] \in Fragment /\ f \in Fragment /\ f.seq = (L + 1) - 1
      BY <1>2, <2>1
    <3>2. c \in Burst /\ h \in Burst /\ f.seq \in 0 .. Frags[c] - 1
      BY <3>1, FragmentIs
    <3>3. f.seq = L
      BY <1>1, <3>1, SMTT(30)
    <3>4. c \in Nat /\ h \in Nat
      BY <3>2, SMTT(30) DEF Burst
    <3> QED BY <3>2, <3>3, <3>4
  <2>4. /\ Ranks[1] = Offset(h) + 0 /\ Ranks[L] = Offset(h) + (L - 1) /\ Ranks[L + 1] = Offset(c) + L
    BY <1>2, <2>1, <2>2, <2>3, SMTT(30) DEF Rank
  <2>5. Offset(h) \in Nat /\ Offset(c) \in Nat
    <3>1. h \in 1 .. Len(Frags) + 1 /\ c \in 1 .. Len(Frags) + 1
      BY <2>3, FragsNat, SMTT(30) DEF Burst
    <3> QED BY <3>1, EarlierFinite
  <2>6. /\ K < Frags[h] /\ K < Frags[c] /\ (reorders > 0 => K + 1 < Frags[c])
        /\ K \in Nat /\ Frags[c] \in Nat /\ Frags[h] \in Nat
    BY <2>3, FewAre
  <2>7. ~(c > h)
    <3>1. SUFFICES ASSUME c > h PROVE FALSE
      OBVIOUS
    <3>2. Offset(h) + Frags[h] <= Offset(c)
      <4>1. c \in h + 1 .. Len(Frags) + 1
        BY <2>3, <3>1, FragsNat, SMTT(30) DEF Burst
      <4> QED BY <2>3, <4>1, OffsetGrows
    <3>3. Ranks[L + 1] - Ranks[L] <= ((L + 1) - L) + K
      BY <1>2, <2>1
    <3> HIDE DEF c, h, K
    <3> QED BY <1>1, <2>4, <2>5, <2>6, <3>2, <3>3, SMTT(30)
  <2>8. ~(c < h)
    <3>1. SUFFICES ASSUME c < h PROVE FALSE
      OBVIOUS
    <3>2. Offset(c) + Frags[c] <= Offset(h)
      <4>1. h \in c + 1 .. Len(Frags) + 1
        BY <2>3, <3>1, FragsNat, SMTT(30) DEF Burst
      <4> QED BY <2>3, <4>1, OffsetGrows
    <3>3. Ranks[L + 1] <= Ranks[1] => ((L + 1) - 1) + (Ranks[1] - Ranks[L + 1]) <= K + 1 /\ reorders > 0
      BY <1>2, <2>1
    <3>4. L \in 0 .. Frags[c] - 1
      BY <2>3
    <3> HIDE DEF c, h, K
    <3> QED BY <1>1, <2>4, <2>5, <2>6, <3>2, <3>3, <3>4, SMTT(30)
  <2>9. c = h
    BY <2>3, <2>7, <2>8, SMTT(30)
  <2>10. \A m \in 1 .. L + 1 : m \in 1 .. L \/ m = L + 1
    BY <1>1, SMTT(30)
  <2> QED BY <1>2, <2>2, <2>9, <2>10 DEF OneBurst, p, f
<1> QED BY <1>3, <1>4

\* What Recv holds is of one burst.
Pure == FewAstray => OneBurst(asm.parts)

\* The burst a packet completes is whole and later than those returned before.
LEMMA ReturnsWhole ==
    ASSUME Types, Filled, Ordered, FewAstray, OneBurst(asm.parts), BurstIntegrity,
           Stream[1] \in Fragment, Returned(Stream[1])
    PROVE  LET p == Append(asm.parts, Stream[1])
           IN  /\ p \in Seq(Fragment) /\ \E b \in Burst : p = Whole(b)
               /\ \A k \in 1 .. Len(delivered) : delivered[k][1].burst < p[1].burst
<1> DEFINE L == Len(asm.parts)
           f == Stream[1]
           p == Append(asm.parts, f)
           K == losses + reorders
           b == p[1].burst
           n == Len(delivered)
<1>1. L \in Nat /\ n \in Nat /\ delivered \in Seq(Seq(Fragment))
  BY SMTT(30) DEF Types
<1>2. /\ L + 1 \in Nat /\ Len(p) = L + 1
      /\ \A m \in 1 .. L + 1 : Ranks[m] = Rank(p[m]) /\ Ranks[m] \in Nat /\ p[m] \in Fragment /\ p[m].seq = m - 1
      /\ \A i, j \in 0 .. L + 1 : i < j /\ Ranks[j] <= Ranks[i] => (j - i) + (Ranks[i] - Ranks[j]) <= K + 1 /\ reorders > 0
  BY PartRanks DEF Returned
<1>3. p \in Seq(Fragment) /\ Len(p) = Frags[b]
  BY WrittenIs DEF Returned, Spoilt
<1>4. OneBurst(p)
  BY StaysPure DEF Returned
<1>5. LastRank \in Int /\ Ranks[0] = LastRank
  BY RanksAre DEF IsRow
<1> HIDE DEF p, f, L, n
<1>6. 1 \in 1 .. L + 1 /\ 1 \in 0 .. L + 1 /\ 0 \in 0 .. L + 1
  BY <1>1, SMTT(30)
<1>7. b \in Burst /\ b \in Nat /\ b \in 1 .. Len(Frags) + 1
  BY <1>2, <1>6, FragmentIs, FragsNat, SMTT(30) DEF Burst
<1>8. p = Whole(b)
  <2>1. ASSUME NEW m \in 1 .. Frags[b] PROVE p[m] = Frag(b, m - 1)
    <3>1. m \in 1 .. L + 1 /\ m \in 1 .. Len(p)
      BY <1>2, <1>3
    <3>2. p[m].burst = b /\ p[m].seq = m - 1 /\ p[m] \in Fragment
      BY <1>2, <1>4, <3>1 DEF OneBurst
    <3> QED BY <3>2, FragmentIs
  <2>2. p = [m \in 1 .. Len(p) |-> p[m]]
    BY <1>3, SMTT(30)
  <2> HIDE DEF b
  <2> QED BY <1>3, <2>1, <2>2 DEF Whole
<1>9. ASSUME n # 0
      PROVE  /\ delivered[n][1].burst < b
             /\ \A k \in 1 .. n : delivered[k][1].burst \in Nat /\ delivered[k][1].burst <= delivered[n][1].burst
  <2>1. /\ \A k \in DOMAIN delivered : \E e \in Burst : delivered[k] = Whole(e)
        /\ \A j, k \in DOMAIN delivered : j < k => delivered[j][1].burst < delivered[k][1].burst
    BY DEF BurstIntegrity
  <2>2. n \in 1 .. n /\ DOMAIN delivered = 1 .. n
    BY <1>1, <1>9, SMTT(30) DEF n
  <2>3. \A e \in Burst : /\ Whole(e)[1].burst = e /\ Len(Whole(e)) = Frags[e] /\ Frags[e] \in Nat /\ e \in Nat
                         /\ Whole(e)[Frags[e]] = Frag(e, Frags[e] - 1)
    BY FragsNat, FragFields, SMTT(30) DEF Whole, Burst
  <2>4. PICK d \in Burst : delivered[n] = Whole(d)
    BY <2>1, <2>2
  <2>5. LastRank = Offset(d) + (Frags[d] - 1)
    <3>1. delivered # << >>
      BY <1>9, SMTT(30) DEF n
    <3>2. LastRank = Rank(Whole(d)[Frags[d]])
      BY <2>3, <2>4, <3>1 DEF LastRank, n
    <3> QED BY <2>3, <3>2, FragFields, SMTT(30) DEF Rank
  <2>6. Ranks[1] = Offset(b) + 0
    <3>1. Ranks[1] = Rank(p[1]) /\ p[1].seq = 1 - 1
      BY <1>2, <1>6
    <3> QED BY <3>1, SMTT(30) DEF Rank
  <2>7. Offset(b) \in Nat /\ Offset(d) \in Nat /\ d \in Nat /\ d \in 1 .. Len(Frags) + 1
    <3>1. d \in Nat /\ d \in 1 .. Len(Frags) + 1
      BY FragsNat, SMTT(30) DEF Burst
    <3> QED BY <1>7, <3>1, EarlierFinite
  <2>8. /\ K < Frags[d] /\ (reorders > 0 => K + 1 < Frags[d])
        /\ K \in Nat /\ Frags[d] \in Nat
    BY FewAre
  <2>9. d < b
    <3>1. SUFFICES ASSUME b <= d PROVE FALSE
      BY <1>7, <2>7, SMTT(30)
    <3>2. Offset(b) <= Offset(d)
      <4>1. CASE b = d
        BY <2>7, <4>1, SMTT(30)
      <4>2. CASE b # d
        <5>1. d \in b + 1 .. Len(Frags) + 1
          BY <1>7, <2>7, <3>1, <4>2, SMTT(30)
        <5>2. Offset(b) + Frags[b] <= Offset(d) /\ Frags[b] \in Nat
          BY <1>7, <5>1, OffsetGrows, FragsNat
        <5> HIDE DEF b
        <5> QED BY <2>7, <5>2, SMTT(30)
      <4> QED BY <4>1, <4>2
    <3>3. Ranks[1] <= Ranks[0] => (1 - 0) + (Ranks[0] - Ranks[1]) <= K + 1 /\ reorders > 0
      BY <1>2, <1>6, SMTT(30)
    <3> HIDE DEF b, K
    <3> QED BY <1>5, <2>5, <2>6, <2>7, <2>8, <3>2, <3>3, SMTT(30)
  <2>10. delivered[n][1].burst = d
    BY <2>3, <2>4
  <2>11. ASSUME NEW k \in 1 .. n
         PROVE  delivered[k][1].burst \in Nat /\ delivered[k][1].burst <= d
    <3>1. delivered[k][1].burst \in Nat
      BY <2>1, <2>2, <2>3, SMTT(30)
    <3>2. CASE k = n
      BY <2>7, <2>10, <3>2, SMTT(30)
    <3>3. CASE k # n
      <4>1. k < n
        BY <1>1, <3>3, SMTT(30)
      <4>2. delivered[k][1].burst < d
        BY <2>1, <2>2, <2>10, <4>1
      <4> QED BY <2>7, <3>1, <4>2, SMTT(30)
    <3> QED BY <3>2, <3>3
  <2> QED BY <2>9, <2>10, <2>11
<1>10. \A k \in 1 .. n : delivered[k][1].burst < b
  <2>1. SUFFICES ASSUME NEW k \in 1 .. n PROVE delivered[k][1].burst < b
    OBVIOUS
  <2>2. n # 0 /\ n \in 1 .. n
    BY <1>1, SMTT(30)
  <2>3. /\ delivered[n][1].burst < b /\ delivered[k][1].burst \in Nat /\ delivered[n][1].burst \in Nat
        /\ delivered[k][1].burst <= delivered[n][1].burst
    BY <1>9, <2>2
  <2> HIDE DEF b
  <2> QED BY <1>7, <2>3, SMTT(30)
<1> QED BY <1>3, <1>7, <1>8, <1>10 DEF p, f, n

\* A packet keeps the parts pure, and what it completes is a whole burst.
LEMMA PacketWhole ==
    ASSUME Types, Types', Filled, Ordered, Pure, BurstIntegrity, Packet
    PROVE  Pure' /\ BurstIntegrity'
<1> DEFINE f == Stream[1]
           p == Append(asm.parts, f)
           n == Len(delivered)
<1>1. f \in Fragment /\ (Dropped(f) \/ Kept(f) \/ Returned(f))
  BY PacketCases
<1>2. FewAstray' <=> FewAstray
  BY DEF Packet, FewAstray
<1>3. ASSUME asm'.parts = << >> PROVE Pure'
  BY <1>3, SMTT(30) DEF Pure, OneBurst
<1>4. ASSUME delivered' = delivered PROVE BurstIntegrity'
  BY <1>2, <1>4 DEF BurstIntegrity
<1>5. CASE Dropped(f)
  BY <1>3, <1>4, <1>5, EmptyHolding DEF Dropped
<1>6. CASE Kept(f)
  <2>1. asm'.parts = p /\ delivered' = delivered /\ Fits(f)
    BY <1>1, <1>6, WrittenIs DEF Kept
  <2>2. FewAstray => OneBurst(p)
    BY <1>1, <2>1, StaysPure DEF Pure
  <2>3. Pure'
    BY <1>2, <2>1, <2>2 DEF Pure, OneBurst
  <2> QED BY <1>4, <2>1, <2>3
<1>7. CASE Returned(f)
  <2>1. asm'.parts = << >> /\ delivered' = Append(delivered, p)
    BY <1>7, EmptyHolding DEF Returned
  <2>2. SUFFICES ASSUME FewAstray PROVE BurstIntegrity'
    BY <1>2, <1>3, <2>1 DEF BurstIntegrity
  <2>3. /\ p \in Seq(Fragment) /\ \E b \in Burst : p = Whole(b)
        /\ \A k \in 1 .. n : delivered[k][1].burst < p[1].burst
    BY <1>1, <1>7, <2>2, ReturnsWhole DEF Pure
  <2>4. n \in Nat /\ delivered \in Seq(Seq(Fragment)) /\ DOMAIN delivered = 1 .. n
    BY SMTT(30) DEF Types
  <2> HIDE DEF p
  <2>5. /\ Len(delivered') = n + 1 /\ delivered'[n + 1] = p
        /\ \A k \in 1 .. n : delivered'[k] = delivered[k]
    BY <2>1, <2>3, <2>4, AppendIs, SMTT(30)
  <2>6. DOMAIN delivered' = 1 .. n + 1
    BY <2>1, <2>3, <2>4, SMTT(30)
  <2>7. \A k \in 1 .. n + 1 : k \in 1 .. n \/ k = n + 1
    BY <2>4, SMTT(30)
  <2>8. /\ \A k \in 1 .. n : \E b \in Burst : delivered[k] = Whole(b)
        /\ \A j, k \in 1 .. n : j < k => delivered[j][1].burst < delivered[k][1].burst
    BY <2>2, <2>4 DEF BurstIntegrity
  <2>9. \A k \in DOMAIN delivered' : \E b \in Burst : delivered'[k] = Whole(b)
    BY <2>3, <2>5, <2>6, <2>7, <2>8
  <2>10. ASSUME NEW j \in 1 .. n + 1, NEW k \in 1 .. n + 1, j < k
         PROVE  delivered'[j][1].burst < delivered'[k][1].burst
    <3>1. j \in 1 .. n
      BY <2>4, <2>10, SMTT(30)
    <3>2. CASE k \in 1 .. n
      BY <2>5, <2>8, <2>10, <3>1, <3>2
    <3>3. CASE k = n + 1
      BY <2>3, <2>5, <3>1, <3>3
    <3> QED BY <2>7, <3>2, <3>3
  <2> QED BY <2>6, <2>9, <2>10 DEF BurstIntegrity, Whole
<1> QED BY <1>1, <1>5, <1>6, <1>7

\* The inductive invariant.
OrderInv == Types /\ Filled /\ Ordered /\ Pure /\ BurstIntegrity

\* It holds at the start: all is still to be sent, in order.
LEMMA OrderInit == UdpInit => OrderInv
<1> SUFFICES ASSUME UdpInit PROVE OrderInv
  OBVIOUS
<1>1. Types
  BY InitTypes
<1>2. /\ asm.parts = << >> /\ delivered = << >> /\ losses = 0 /\ reorders = 0
      /\ Len(msgvec) = 0 /\ Len(net) = 0 /\ next = Frag(1, 0)
  BY EmptyHolding DEF UdpInit
<1>3. Filled
  BY <1>2, SMTT(30) DEF Filled
<1>4. Pure /\ BurstIntegrity
  BY <1>2, SMTT(30) DEF Pure, OneBurst, BurstIntegrity
<1>5. /\ IsRow(Ranks, LastRank, asm.parts, Stream) /\ Len(Stream) = 1 /\ Stream[1] = next
      /\ Stream \in Seq(Fragment \cup {Last})
  <2>1. IsRow(Ranks, LastRank, asm.parts, Stream)
    BY <1>1, <1>3, RanksAre
  <2>2. /\ Stream \in Seq(Fragment \cup {Last}) /\ Len(Stream) = Len(msgvec) + Len(net) + 1
        /\ Stream[Len(Stream)] = next
    BY <1>1, StreamType
  <2>3. Len(Stream) = 1
    BY <1>2, <2>2, SMTT(30)
  <2> QED BY <2>1, <2>2, <2>3
<1>6. Ranks[0] = -1 /\ Span = 1 /\ Ranks[1] \in Nat
  <2>1. Len(asm.parts) = 0 /\ 1 \in 1 .. Len(Stream) /\ next \in Fragment \cup {Last}
    BY <1>1, <1>2, <1>5, SMTT(30) DEF Types
  <2>2. Ranks[0 + 1] = Rank(next)
    BY <1>5, <2>1 DEF IsRow
  <2>3. Ranks[0] = -1
    BY <1>2, <1>5 DEF IsRow, LastRank
  <2> QED BY <1>5, <2>1, <2>2, <2>3, RankType, SMTT(30) DEF Span
<1>7. Ordered
  <2>1. Orderly(Ranks, 1, 0 + 0, 0)
    BY <1>6, SMTT(30) DEF Orderly
  <2> QED BY <1>2, <1>6, <2>1 DEF Ordered
<1> QED BY <1>1, <1>3, <1>4, <1>7 DEF OrderInv

\* Every step keeps it.
LEMMA OrderStep == OrderInv /\ [UdpNext]_udpVars => OrderInv'
<1> SUFFICES ASSUME OrderInv, [UdpNext]_udpVars PROVE OrderInv'
  OBVIOUS
<1>0. Types /\ Filled /\ Ordered /\ Pure /\ BurstIntegrity /\ Types'
  BY TypesStep DEF OrderInv
<1>1. losses \in Nat /\ reorders \in Nat /\ (\A b \in Burst : Frags[b] \in Nat)
  BY <1>0, FragsNat DEF Types
<1>2. ASSUME losses' \in {losses, losses + 1}, reorders' \in {reorders, reorders + 1}, FewAstray'
      PROVE  FewAstray
  <2>1. SUFFICES ASSUME NEW b \in Burst
                 PROVE  losses + reorders + (IF reorders > 0 THEN 1 ELSE 0) < Frags[b]
    BY DEF FewAstray
  <2>2. losses' + reorders' + (IF reorders' > 0 THEN 1 ELSE 0) < Frags[b]
    BY <1>2 DEF FewAstray
  <2> QED BY <1>1, <1>2, <2>2, SMTT(30)
<1>3. ASSUME UNCHANGED <<asm, delivered>>, losses' \in {losses, losses + 1}, reorders' \in {reorders, reorders + 1}
      PROVE  Filled' /\ Pure' /\ BurstIntegrity'
  <2>1. Filled'
    BY <1>0, <1>3 DEF Filled
  <2>2. Pure' /\ BurstIntegrity'
    BY <1>0, <1>2, <1>3 DEF Pure, BurstIntegrity, OneBurst, Whole
  <2> QED BY <2>1, <2>2
<1>4. CASE SendFragment
  <2>1. UNCHANGED <<asm, delivered, losses, reorders>>
    BY <1>4 DEF SendFragment, udpRecvVars
  <2> QED BY <1>0, <1>3, <1>4, <2>1, SendOrder DEF OrderInv
<1>5. CASE Lose
  <2>1. UNCHANGED <<asm, delivered, reorders>> /\ losses' = losses + 1
    BY <1>5 DEF Lose, udpRecvVars
  <2> QED BY <1>0, <1>3, <1>5, <2>1, LoseOrder DEF OrderInv
<1>6. CASE Duplicate
  <2>1. UNCHANGED <<asm, delivered, losses>> /\ reorders' = reorders + 1
    BY <1>6 DEF Duplicate, udpRecvVars
  <2> QED BY <1>0, <1>3, <1>6, <2>1, DuplicateOrder DEF OrderInv
<1>7. CASE Overtake
  <2>1. UNCHANGED <<asm, delivered, losses>> /\ reorders' = reorders + 1
    BY <1>7 DEF Overtake, udpRecvVars
  <2> QED BY <1>0, <1>3, <1>7, <2>1, OvertakeOrder DEF OrderInv
<1>8. CASE \E k \in 1 .. Len(net) : Recvmmsg(k)
  <2>1. PICK k \in 1 .. Len(net) : Recvmmsg(k)
    BY <1>8
  <2>2. UNCHANGED <<asm, delivered, losses, reorders, Stream>>
    BY <1>0, <2>1, RecvmmsgStream DEF Recvmmsg
  <2>3. Ordered'
    BY <1>0, <2>2, SameLast DEF Ordered, Ranks, Span
  <2> QED BY <1>0, <1>3, <2>2, <2>3 DEF OrderInv
<1>9. CASE RecvError
  <2>1. UNCHANGED <<delivered, losses, reorders>> /\ asm'.parts = << >>
    BY <1>9, EmptyHolding DEF RecvError
  <2>2. Filled'
    BY <1>0, <2>1 DEF Filled
  <2>3. Pure'
    BY <2>1, SMTT(30) DEF Pure, OneBurst
  <2>4. BurstIntegrity'
    BY <1>0, <2>1 DEF BurstIntegrity, FewAstray
  <2> QED BY <1>0, <1>9, <2>2, <2>3, <2>4, ErrorOrder DEF OrderInv
<1>10. CASE Packet
  BY <1>0, <1>10, PacketOrder, PacketWhole DEF OrderInv
<1>11. CASE UNCHANGED udpVars
  <2>1. UNCHANGED <<next, net, msgvec, asm, delivered, losses, reorders>>
    BY <1>11 DEF udpVars, udpRecvVars
  <2>2. Ordered'
    BY <1>0, <2>1, SameLast DEF Ordered, Ranks, Span, Stream
  <2> QED BY <1>0, <1>3, <2>1, <2>2 DEF OrderInv
<1> QED BY <1>4, <1>5, <1>6, <1>7, <1>8, <1>9, <1>10, <1>11 DEF UdpNext

\* A buffer UDPServer::Recv returns holds one burst, all of it and nothing else,
\* and bursts come back in the order they were sent and at most once, for any
\* number and length of bursts, any batch size and any faults fewer than a burst
\* has fragments.
THEOREM BurstsStayWhole == UdpSpec => []BurstIntegrity
<1>1. OrderInv => BurstIntegrity
  BY DEF OrderInv
<1> QED BY <1>1, OrderInit, OrderStep, PTL DEF UdpSpec

=============================================================================
