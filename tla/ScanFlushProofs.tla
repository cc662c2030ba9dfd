--------------------------- MODULE ScanFlushProofs ---------------------------
(***************************************************************************)
(* Proofs about ScanFlush, for streams of any length: each completed scan  *)
(* is delivered whole, once and in order, flush() gets the last one out,   *)
(* and it adds none when there is nothing left.                            *)
(*                                                                         *)
(* While packets are fed, the driver holds the points of the scan under    *)
(* way, so what it gives away is what the stream owes.  While they are     *)
(* replayed, it holds the last scan and what the replay added, and the     *)
(* packets kept end with one that starts a scan: at the latest that one    *)
(* gets the last scan out.                                                 *)
(***************************************************************************)
EXTENDS ScanFlush, FiniteSetTheorems, SequenceTheorems, TLAPS

n == Len(stream)

Clouds == [points : Seq(DOMAIN stream), stamp : DOMAIN stream, shared : {FALSE}]

Types ==
  /\ stream \in Seq(Packets) /\ n <= MaxPackets
  /\ azimuth \in 0..Sectors - 1 \cup {None} /\ scan \in Seq(DOMAIN stream)
  /\ ready_clouds = <<>>
  /\ first_scan_captured \in BOOLEAN /\ last_feed_emitted \in BOOLEAN
  /\ stage \in {"feed", "flush", "end"}
  /\ queue \in Seq(Clouds) /\ written \in Seq(Clouds)

(* The packets that are replayed: those up to the one that completed the    *)
(* first scan, or all.                                                      *)
Kept == Len(first_scan_packets)
Capture ==
  /\ first_scan_packets = [k \in 1..Kept |-> k]
  /\ Kept \in 0..n
  /\ n > 0 => Kept > 0
  /\ first_scan_captured => Completes(Kept) /\ Kept > 0
  /\ ~first_scan_captured => Kept = n /\ \A k \in 1..n : ~Completes(k)
  /\ last_feed_emitted <=> n > 0 /\ Completes(n)

(* The replay is under way only if the last packet completed nothing.       *)
Stages ==
  /\ stage = "feed" => replay = 1
  /\ stage = "flush" => ~last_feed_emitted /\ n > 0 /\ replay \in 1..Kept
  /\ replay \in 1..Kept + 1

(* What the driver holds: the last scan, then what was replayed.            *)
Size == Cardinality(Held(n))
Holds ==
  /\ stage = "feed" => InOrder(scan, Held(n))
  /\ stage = "flush" => Size <= Len(scan) /\ InOrder(SubSeq(scan, 1, Size), Held(n))
  /\ stage = "feed" => azimuth = IF n = 0 THEN None ELSE stream[n].azimuth
  /\ stage = "flush" =>
       azimuth = IF replay = 1 THEN stream[n].azimuth ELSE stream[replay - 1].azimuth

(* The clouds on their way or in the output are those that were due.        *)
Count == Cardinality(Due)
Settled ==
  /\ Count <= Len(Delivered)
  /\ \A i \in 1..Count : Delivered[i].stamp \in Due
  /\ \A k \in Due : \E i \in 1..Count : Delivered[i].stamp = k
  /\ \A i, j \in 1..Count : i < j => Delivered[i].stamp < Delivered[j].stamp
  /\ \A i \in 1..Count, k \in 0..n :
       Delivered[i].stamp = k + 1 => InOrder(Delivered[i].points, Held(k))
  /\ stage # "end" => Len(Delivered) = Count

(* How the stream ended.                                                    *)
Ending == stage = "end" =>
  \/ /\ Len(Delivered) = Count
     /\ first_scan_captured => last_feed_emitted \/ Size = 0 \/ Size < MinPoints
  \/ /\ Len(Delivered) = Count + 1 /\ ~last_feed_emitted
     /\ Delivered[Count + 1].stamp = n
     /\ Size <= Len(Delivered[Count + 1].points)
     /\ InOrder(SubSeq(Delivered[Count + 1].points, 1, Size), Held(n))

IInv == Types /\ Capture /\ Stages /\ Holds /\ Settled /\ Ending

-----------------------------------------------------------------------------
(* Sequences.                                                               *)

LEMMA WiderSeq ==
  ASSUME NEW S, NEW T, S \subseteq T, NEW q \in Seq(S)
  PROVE  q \in Seq(T)
  OBVIOUS

LEMMA NothingAdded ==
  ASSUME NEW S, NEW q \in Seq(S)
  PROVE  q \o <<>> = q /\ <<>> \o q = q
  OBVIOUS

LEMMA AddedLast ==
  ASSUME NEW S, NEW w \in Seq(S), NEW q \in Seq(S), NEW x \in S
  PROVE  /\ q \o <<x>> = Append(q, x) /\ w \o Append(q, x) = Append(w \o q, x)
         /\ w \o q \in Seq(S) /\ Len(w \o q) = Len(w) + Len(q)
<1>1. q \o <<x>> = Append(q, x)
  OBVIOUS
<1>2. w \o q \in Seq(S) /\ Len(w \o q) = Len(w) + Len(q)
  OBVIOUS
<1>3. w \o Append(q, x) = Append(w \o q, x)
  OBVIOUS
<1> QED
  BY <1>1, <1>2, <1>3

LEMMA MovedOver ==
  ASSUME NEW S, NEW w \in Seq(S), NEW q \in Seq(S), q # <<>>
  PROVE  /\ Append(w, Head(q)) \o Tail(q) = w \o q
         /\ Append(w, Head(q)) \in Seq(S) /\ Tail(q) \in Seq(S)
<1>1. Append(w, Head(q)) \in Seq(S) /\ Tail(q) \in Seq(S)
  OBVIOUS
<1>2. Append(w, Head(q)) \o Tail(q) = w \o q
  OBVIOUS
<1> QED
  BY <1>1, <1>2

(* A sequence that lists a set has as many entries as the set elements, and *)
(* a larger number goes to its end.                                         *)
LEMMA OrderedLength ==
  ASSUME NEW q \in Seq(Nat), NEW S, InOrder(q, S)
  PROVE  IsFiniteSet(S) /\ Cardinality(S) = Len(q) /\ S \subseteq Nat
<1> DEFINE f == [i \in 1..Len(q) |-> q[i]]
<1>0. DOMAIN q = 1..Len(q) /\ Len(q) \in Nat
  OBVIOUS
<1>1. S = {q[i] : i \in 1..Len(q)} /\ \A i, j \in 1..Len(q) : i < j => q[i] < q[j]
  BY <1>0 DEF InOrder
<1>2. \A i \in 1..Len(q) : q[i] \in Nat
  OBVIOUS
<1>3. \A i, j \in 1..Len(q) : i # j => q[i] # q[j]
  BY <1>0, <1>1, <1>2
<1>4. f \in Surjection(1..Len(q), S) /\ f \in Injection(1..Len(q), S)
  BY <1>1, <1>3 DEF Injection, Surjection, IsInjective
<1>5. IsFiniteSet(1..Len(q)) /\ Cardinality(1..Len(q)) = Len(q)
  BY <1>0, FS_Interval
<1>6. S \subseteq Nat
  BY <1>1, <1>2
<1> HIDE DEF f
<1> QED
  BY <1>4, <1>5, <1>6, FS_Surjection

LEMMA OrderedAppend ==
  ASSUME NEW q \in Seq(Nat), NEW S, InOrder(q, S), NEW x \in Nat, \A y \in S : y < x
  PROVE  InOrder(Append(q, x), S \cup {x})
<1>0. DOMAIN q = 1..Len(q) /\ Len(q) \in Nat /\ Append(q, x) \in Seq(Nat)
  OBVIOUS
<1>1. DOMAIN Append(q, x) = 1..Len(q) + 1 /\ Append(q, x)[Len(q) + 1] = x
  BY <1>0
<1>2. \A i \in 1..Len(q) : Append(q, x)[i] = q[i] /\ q[i] < x
  BY <1>0 DEF InOrder
<1>3. 1..Len(q) + 1 = 1..Len(q) \cup {Len(q) + 1}
  BY <1>0
<1>4. {Append(q, x)[i] : i \in 1..Len(q) + 1} = S \cup {x}
  BY <1>0, <1>1, <1>2, <1>3 DEF InOrder
<1>5. ASSUME NEW i \in 1..Len(q) + 1, NEW j \in 1..Len(q) + 1, i < j
      PROVE  Append(q, x)[i] < Append(q, x)[j]
  <2>1. i \in 1..Len(q)
    BY <1>0, <1>5
  <2>2. CASE j = Len(q) + 1
    BY <1>1, <1>2, <2>1, <2>2
  <2>3. CASE j \in 1..Len(q)
    BY <1>0, <1>2, <1>5, <2>1, <2>3 DEF InOrder
  <2> QED
    BY <1>3, <2>2, <2>3
<1> QED
  BY <1>1, <1>4, <1>5 DEF InOrder

LEMMA OrderedEmpty ==
  ASSUME NEW q \in Seq(Nat)
  PROVE  /\ InOrder(<<>>, {}) /\ (InOrder(q, {}) => q = <<>>)
         /\ \A S : InOrder(q, S) => (q = <<>> <=> S = {})
<1>1. DOMAIN q = 1..Len(q) /\ Len(q) \in Nat /\ (q = <<>> <=> Len(q) = 0)
  OBVIOUS
<1>2. ASSUME NEW S, InOrder(q, S) PROVE q = <<>> <=> S = {}
  <2>1. S = {q[i] : i \in 1..Len(q)}
    BY <1>1, <1>2 DEF InOrder
  <2>2. CASE Len(q) = 0
    BY <1>1, <2>1, <2>2
  <2>3. CASE Len(q) # 0
    <3>1. 1 \in 1..Len(q) /\ q[1] \in S
      BY <1>1, <2>1, <2>3
    <3> QED
      BY <1>1, <2>3, <3>1
  <2> QED
    BY <2>2, <2>3
<1>3. InOrder(<<>>, {})
  BY DEF InOrder
<1> QED
  BY <1>2, <1>3

-----------------------------------------------------------------------------
(* The stream and its scans, as one more packet arrives.                    *)

LEMMA HeldFacts ==
  ASSUME NEW k \in Nat
  PROVE  Held(k) \subseteq 1..k /\ Held(k) \subseteq Nat /\ IsFiniteSet(Held(k))
         /\ Cardinality(Held(k)) \in Nat /\ (Cardinality(Held(k)) = 0 <=> Held(k) = {})
<1>1. Held(k) \subseteq 1..k
  BY DEF Held
<1>2. IsFiniteSet(Held(k))
  BY <1>1, FS_Interval, FS_Subset
<1> QED
  BY <1>1, <1>2, FS_CardinalityType, FS_EmptySet

LEMMA Grown ==
  ASSUME stream \in Seq(Packets), NEW p \in Packets, stream' = Append(stream, p)
  PROVE  /\ n \in Nat /\ n' = n + 1 /\ stream' \in Seq(Packets)
         /\ DOMAIN stream = 1..n /\ DOMAIN stream' = 1..n + 1
         /\ stream'[n + 1] = p /\ \A k \in 1..n : stream'[k] = stream[k]
  BY DEF n

LEMMA GrownScans ==
  ASSUME stream \in Seq(Packets), NEW p \in Packets, stream' = Append(stream, p),
         NEW m \in Nat, m = n
  PROVE  /\ \A k \in 1..m : StartsScan(k)' <=> StartsScan(k)
         /\ \A k \in 0..m : Held(k)' = Held(k)
         /\ \A k \in 1..m : Completes(k)' <=> Completes(k)
         /\ StartsScan(m + 1)' <=> m = 0 \/ p.azimuth < stream[m].azimuth
         /\ Held(m + 1)' = (IF StartsScan(m + 1)' THEN {} ELSE Held(m))
                             \cup (IF p.hit THEN {m + 1} ELSE {})
         /\ Completes(m + 1)' <=> m > 0 /\ StartsScan(m + 1)' /\ Held(m) # {}
<1>1. /\ DOMAIN stream = 1..m /\ DOMAIN stream' = 1..m + 1
      /\ stream'[m + 1] = p /\ \A k \in 1..m : stream'[k] = stream[k]
  BY Grown
<1>2. \A k \in 1..m : StartsScan(k)' <=> StartsScan(k)
  BY <1>1 DEF StartsScan
<1>3. ASSUME NEW k \in 0..m PROVE Held(k)' = Held(k)
  <2>1. \A j \in 1..k : stream'[j] = stream[j] /\ (StartsScan(j)' <=> StartsScan(j))
    BY <1>1, <1>2
  <2>2. k \in Nat /\ \A i \in 1..k : \A j \in i + 1..k : j \in 1..k
    OBVIOUS
  <2>3. ASSUME NEW i \in 1..k
        PROVE  /\ stream'[i].hit = stream[i].hit
               /\ (\A j \in i + 1..k : ~StartsScan(j)') <=> (\A j \in i + 1..k : ~StartsScan(j))
    BY <2>1, <2>2
  <2> QED
    BY <2>3 DEF Held
<1>4. ASSUME NEW k \in 1..m PROVE Completes(k)' <=> Completes(k)
  BY <1>2, <1>3 DEF Completes
<1>5. StartsScan(m + 1)' <=> m = 0 \/ p.azimuth < stream[m].azimuth
  BY <1>1 DEF StartsScan
<1>6. Held(m + 1)' = (IF StartsScan(m + 1)' THEN {} ELSE Held(m))
                       \cup (IF p.hit THEN {m + 1} ELSE {})
  <2>1. ASSUME NEW i \in 1..m
        PROVE  i \in Held(m + 1)' <=> ~StartsScan(m + 1)' /\ i \in Held(m)
    <3>1. i + 1..m + 1 = (i + 1..m) \cup {m + 1}
      OBVIOUS
    <3>2. \A j \in i + 1..m : StartsScan(j)' <=> StartsScan(j)
      BY <1>2
    <3>3. i \in Held(m + 1)' <=> stream'[i].hit /\ \A j \in i + 1..m + 1 : ~StartsScan(j)'
      <4>1. i \in 1..m + 1
        OBVIOUS
      <4> QED
        BY <4>1 DEF Held
    <3>4. i \in Held(m) <=> stream[i].hit /\ \A j \in i + 1..m : ~StartsScan(j)
      BY DEF Held
    <3> QED
      BY <1>1, <3>1, <3>2, <3>3, <3>4
  <2>2. m + 1 \in Held(m + 1)' <=> p.hit
    BY <1>1 DEF Held
  <2>3. Held(m + 1)' \subseteq 1..m + 1 /\ Held(m) \subseteq 1..m
    BY DEF Held
  <2> QED
    BY <2>1, <2>2, <2>3
<1>7. Completes(m + 1)' <=> m > 0 /\ StartsScan(m + 1)' /\ Held(m) # {}
  <2>1. Held(m + 1 - 1)' = Held(m)
    BY <1>3
  <2> QED
    BY <2>1 DEF Completes
<1> QED
  BY <1>2, <1>3, <1>4, <1>5, <1>6, <1>7

(* What is due grows with the scans completed.                              *)
LEMMA GrownDue ==
  ASSUME stream \in Seq(Packets), NEW p \in Packets, stream' = Append(stream, p),
         NEW m \in Nat, m = n
  PROVE  /\ Due \subseteq 1..m /\ IsFiniteSet(Due) /\ Count \in Nat
         /\ IF Completes(m + 1)' /\ Cardinality(Held(m)) >= MinPoints
            THEN Due' = Due \cup {m + 1} /\ Count' = Count + 1
            ELSE Due' = Due /\ Count' = Count
<1>1. DOMAIN stream = 1..m /\ DOMAIN stream' = 1..m + 1
  BY Grown
<1>2. Due \subseteq 1..m
  BY <1>1 DEF Due
<1>3. IsFiniteSet(Due) /\ Count \in Nat
  <2>1. IsFiniteSet(1..m)
    BY FS_Interval
  <2> QED
    BY <1>2, <2>1, FS_Subset, FS_CardinalityType DEF Count
<1>4. ASSUME NEW k \in 1..m PROVE k \in Due' <=> k \in Due
  <2>1. (Completes(k)' <=> Completes(k)) /\ Held(k - 1)' = Held(k - 1)
    BY GrownScans
  <2> QED
    BY <1>1, <2>1 DEF Due
<1>5. m + 1 \in Due' <=> Completes(m + 1)' /\ Cardinality(Held(m)) >= MinPoints
  <2>1. Held(m + 1 - 1)' = Held(m)
    BY GrownScans
  <2> QED
    BY <1>1, <2>1 DEF Due
<1>6. Due' \subseteq 1..m + 1
  BY <1>1 DEF Due
<1>0. 1..m + 1 = 1..m \cup {m + 1} /\ m + 1 \notin 1..m
  OBVIOUS
<1>7. CASE Completes(m + 1)' /\ Cardinality(Held(m)) >= MinPoints
  <2>1. Due' = Due \cup {m + 1} /\ m + 1 \notin Due
    BY <1>0, <1>2, <1>4, <1>5, <1>6, <1>7
  <2> QED
    BY <1>2, <1>3, <1>7, <2>1, FS_AddElement DEF Count
<1>8. CASE ~(Completes(m + 1)' /\ Cardinality(Held(m)) >= MinPoints)
  <2>1. Due' = Due
    BY <1>0, <1>2, <1>4, <1>5, <1>6, <1>8
  <2> QED
    BY <1>2, <1>3, <1>8, <2>1 DEF Count
<1> QED
  BY <1>7, <1>8

-----------------------------------------------------------------------------
(* A packet is fed.                                                         *)

(* The driver gives the scan away exactly when the stream completes one.    *)
LEMMA FeedFacts ==
  ASSUME IInv, NEW p \in Packets, Feed(p), NEW m \in Nat, m = n
  PROVE  /\ stream \in Seq(Packets) /\ stream' = Append(stream, p) /\ m < MaxPackets
         /\ scan \in Seq(1..m) /\ InOrder(scan, Held(m))
         /\ Wraps(p) <=> m > 0 /\ StartsScan(m + 1)'
         /\ Emitted(p) = IF Completes(m + 1)' THEN <<scan>> ELSE <<>>
<1>1. /\ stream \in Seq(Packets) /\ stream' = Append(stream, p) /\ m < MaxPackets
      /\ stage = "feed"
  BY DEF Feed, IInv, Types, n
<1>2. DOMAIN stream = 1..m
  BY <1>1 DEF n
<1>3. scan \in Seq(1..m) /\ InOrder(scan, Held(m)) /\ azimuth = IF m = 0 THEN None ELSE stream[m].azimuth
  BY <1>1, <1>2 DEF IInv, Types, Holds
<1>4. scan \in Seq(Nat)
  BY <1>3, WiderSeq
<1>5. Wraps(p) <=> m > 0 /\ p.azimuth < stream[m].azimuth
  <2>1. CASE m = 0
    BY <1>3, <2>1 DEF Wraps
  <2>2. CASE m > 0
    <3>1. stream[m] \in Packets
      BY <1>1, <1>2, <2>2
    <3>2. azimuth = stream[m].azimuth /\ stream[m].azimuth \in 0..Sectors - 1
      BY <1>3, <2>2, <3>1 DEF Packets
    <3>3. azimuth \in Nat /\ None \notin Nat
      BY <3>2, ScanAssumption
    <3> QED
      BY <2>2, <3>2, <3>3 DEF Wraps
  <2> QED
    BY <2>1, <2>2
<1>6. StartsScan(m + 1)' <=> m = 0 \/ p.azimuth < stream[m].azimuth
  BY <1>1, GrownScans
<1>7. Wraps(p) <=> m > 0 /\ StartsScan(m + 1)'
  BY <1>5, <1>6
<1>8. scan # <<>> <=> Held(m) # {}
  BY <1>3, <1>4, OrderedEmpty
<1>9. Completes(m + 1)' <=> Wraps(p) /\ scan # <<>>
  BY <1>1, <1>7, <1>8, GrownScans
<1> QED
  BY <1>1, <1>3, <1>7, <1>9 DEF Emitted

(* The driver goes on with the packet's points.                             *)
LEMMA FeedHolds ==
  ASSUME IInv, NEW p \in Packets, Feed(p), NEW m \in Nat, m = n
  PROVE  scan' \in Seq(1..m + 1) /\ Holds'
<1>1. /\ stream \in Seq(Packets) /\ stream' = Append(stream, p)
      /\ scan \in Seq(1..m) /\ InOrder(scan, Held(m))
      /\ Wraps(p) <=> m > 0 /\ StartsScan(m + 1)'
  BY FeedFacts
<1>2. /\ azimuth' = p.azimuth /\ stage' = "feed"
      /\ scan' = (IF Wraps(p) THEN <<>> ELSE scan) \o PointsOf(m + 1, p)
  BY DEF Feed, Drive, n
<1>3. PICK b : b = IF Wraps(p) THEN <<>> ELSE scan
  OBVIOUS
<1>4. PICK H : H = IF StartsScan(m + 1)' THEN {} ELSE Held(m)
  OBVIOUS
<1>5. b \in Seq(1..m) /\ InOrder(b, H)
  <2>1. CASE Wraps(p)
    <3>1. b = <<>> /\ H = {}
      BY <1>1, <1>3, <1>4, <2>1
    <3>2. <<>> \in Seq(Nat) /\ <<>> \in Seq(1..m)
      OBVIOUS
    <3> QED
      BY <3>1, <3>2, OrderedEmpty
  <2>2. CASE ~Wraps(p) /\ m > 0
    BY <1>1, <1>3, <1>4, <2>2
  <2>3. CASE m = 0
    <3>1. Held(m) = {}
      BY <2>3, HeldFacts
    <3>2. b = scan
      BY <1>1, <1>3, <2>3
    <3>3. H = Held(m)
      BY <1>4, <3>1
    <3> QED
      BY <1>1, <3>2, <3>3
  <2> QED
    BY <2>1, <2>2, <2>3
<1>6. b \in Seq(Nat) /\ b \in Seq(1..m + 1) /\ H \subseteq 1..m
  <2>1. b \in Seq(Nat)
    BY <1>5, WiderSeq
  <2>2. b \in Seq(1..m + 1)
    BY <1>5, WiderSeq
  <2>3. H \subseteq 1..m
    BY <1>4, HeldFacts
  <2> QED
    BY <2>1, <2>2, <2>3
<1>7. Held(m + 1)' = H \cup (IF p.hit THEN {m + 1} ELSE {})
  BY <1>1, <1>4, GrownScans
<1>8. scan' \in Seq(1..m + 1) /\ InOrder(scan', Held(m + 1)')
  <2>1. CASE p.hit
    <3>1. scan' = b \o <<m + 1>> /\ Held(m + 1)' = H \cup {m + 1}
      BY <1>2, <1>3, <1>7, <2>1 DEF PointsOf
    <3>2. scan' = Append(b, m + 1)
      BY <1>6, <3>1, AddedLast
    <3>3. \A y \in H : y < m + 1
      BY <1>6
    <3>4. InOrder(Append(b, m + 1), H \cup {m + 1})
      <4>1. PICK x \in Nat : x = m + 1
        OBVIOUS
      <4>2. InOrder(Append(b, x), H \cup {x})
        BY <1>5, <1>6, <3>3, <4>1, OrderedAppend
      <4> QED
        BY <4>1, <4>2
    <3>5. Append(b, m + 1) \in Seq(1..m + 1)
      BY <1>6
    <3> QED
      BY <3>1, <3>2, <3>4, <3>5
  <2>2. CASE ~p.hit
    <3>1. scan' = b \o <<>> /\ Held(m + 1)' = H
      BY <1>2, <1>3, <1>7, <2>2 DEF PointsOf
    <3>2. scan' = b
      BY <1>6, <3>1, NothingAdded
    <3> QED
      BY <1>5, <1>6, <3>1, <3>2
  <2> QED
    BY <2>1, <2>2
<1>9. n' = m + 1 /\ stream'[m + 1] = p
  BY <1>1, Grown
<1> QED
  BY <1>2, <1>8, <1>9 DEF Holds

(* What is kept for the replay.                                             *)
LEMMA FeedCaptures ==
  ASSUME IInv, NEW p \in Packets, Feed(p), NEW m \in Nat, m = n
  PROVE  Capture' /\ Stages'
<1>0. /\ stream \in Seq(Packets) /\ stream' = Append(stream, p) /\ n' = m + 1
      /\ stage' = "feed" /\ replay' = 1
      /\ ready_clouds \o Emitted(p) = IF Completes(m + 1)' THEN <<scan>> ELSE <<>>
      /\ Emitted(p) = IF Completes(m + 1)' THEN <<scan>> ELSE <<>>
  <2>1. ready_clouds = <<>> /\ <<>> \o <<scan>> = <<scan>> /\ <<>> \o <<>> = <<>>
    BY DEF IInv, Types
  <2> QED
    BY <2>1, FeedFacts, Grown DEF Feed, IInv, Stages
<1>1. /\ first_scan_packets' = IF first_scan_captured THEN first_scan_packets
                                                       ELSE Append(first_scan_packets, m + 1)
      /\ first_scan_captured' <=> first_scan_captured \/ Completes(m + 1)'
      /\ last_feed_emitted' <=> Completes(m + 1)'
  <2>1. PICK clouds : clouds = ready_clouds \o Emitted(p)
    OBVIOUS
  <2>2. /\ clouds # <<>> <=> Completes(m + 1)'
        /\ Emitted(p) # <<>> <=> Completes(m + 1)'
    <3>1. <<scan>> # <<>>
      OBVIOUS
    <3> QED
      BY <1>0, <2>1, <3>1
  <2>3. /\ first_scan_packets' = IF first_scan_captured THEN first_scan_packets
                                                         ELSE Append(first_scan_packets, m + 1)
        /\ first_scan_captured' = (first_scan_captured \/ clouds # <<>>)
        /\ last_feed_emitted' = (Emitted(p) # <<>>)
    BY <2>1 DEF Feed, Captured, n
  <2> QED
    BY <2>2, <2>3
<1>2. PICK k \in 0..m :
        /\ k = Kept /\ first_scan_packets = [j \in 1..k |-> j]
        /\ m > 0 => k > 0
        /\ first_scan_captured => Completes(k) /\ k > 0
        /\ ~first_scan_captured => k = m /\ \A j \in 1..m : ~Completes(j)
  BY DEF IInv, Capture
<1>3. \A j \in 1..m : Completes(j)' <=> Completes(j)
  BY <1>0, GrownScans
<1>4. CASE first_scan_captured
  <2>1. first_scan_packets' = first_scan_packets /\ Kept' = k /\ first_scan_captured'
    BY <1>1, <1>2, <1>4 DEF Kept
  <2>2. Completes(k)'
    BY <1>2, <1>3, <1>4
  <2>3. Capture'
    BY <1>0, <1>1, <1>2, <1>4, <2>1, <2>2 DEF Capture
  <2> QED
    BY <1>0, <1>2, <2>1, <2>3 DEF Stages
<1>5. CASE ~first_scan_captured
  <2>1. first_scan_packets' = Append([j \in 1..m |-> j], m + 1)
    BY <1>1, <1>2, <1>5
  <2>2. first_scan_packets' = [j \in 1..m + 1 |-> j]
    BY <2>1
  <2>3. Kept' = m + 1
    BY <2>2 DEF Kept
  <2>4. Capture'
    <3>1. CASE Completes(m + 1)'
      BY <1>0, <1>1, <2>2, <2>3, <3>1 DEF Capture
    <3>2. CASE ~Completes(m + 1)'
      <4>1. \A j \in 1..m + 1 : ~Completes(j)'
        <5>1. \A j \in 1..m + 1 : j \in 1..m \/ j = m + 1
          OBVIOUS
        <5> QED
          BY <1>2, <1>3, <1>5, <3>2, <5>1
      <4> QED
        BY <1>0, <1>1, <1>5, <2>2, <2>3, <3>2, <4>1 DEF Capture
    <3> QED
      BY <3>1, <3>2
  <2> QED
    BY <1>0, <2>3, <2>4 DEF Stages
<1> QED
  BY <1>4, <1>5

-----------------------------------------------------------------------------
(* The way of a cloud to the output.                                        *)

(* What the adapter gave, unless it is too small, goes to the end; what is  *)
(* on its way is not touched.                                               *)
LEMMA SurfaceFacts ==
  ASSUME NEW S, queue \in Seq([points : S, stamp : Nat, shared : {FALSE}]),
         NEW clouds, NEW stamp, Surface(clouds, stamp)
  PROVE  queue' = IF clouds = <<>> \/ TooSmall(Head(clouds)) THEN queue
                  ELSE Append(queue, [points |-> Head(clouds), stamp |-> stamp, shared |-> FALSE])
<1>1. Reused(queue) = queue
  <2>1. \A i \in DOMAIN queue : ~queue[i].shared
    <3>0. PICK R : R = [points : S, stamp : Nat, shared : {FALSE}]
      OBVIOUS
    <3>1. \A i \in DOMAIN queue : queue[i] \in R
      <4>1. queue \in Seq(R)
        BY <3>0
      <4> QED
        BY <4>1
    <3>2. \A i \in DOMAIN queue : queue[i].shared = FALSE
      BY <3>0, <3>1
    <3> QED
      BY <3>2
  <2>2. queue = [i \in DOMAIN queue |-> queue[i]]
    OBVIOUS
  <2> QED
    BY <2>1, <2>2 DEF Reused
<1>2. queue' = queue \o (IF clouds = <<>> \/ TooSmall(Head(clouds)) THEN <<>>
                         ELSE <<[points |-> Head(clouds), stamp |-> stamp, shared |-> FALSE]>>)
  BY <1>1 DEF Surface, Item
<1>3. CASE clouds = <<>> \/ TooSmall(Head(clouds))
  BY <1>2, <1>3, NothingAdded
<1>4. CASE ~(clouds = <<>> \/ TooSmall(Head(clouds)))
  <2>1. PICK x : x = [points |-> Head(clouds), stamp |-> stamp, shared |-> FALSE]
    OBVIOUS
  <2>2. queue' = queue \o <<x>>
    BY <1>2, <1>4, <2>1
  <2>3. queue \o <<x>> = Append(queue, x)
    OBVIOUS
  <2> QED
    BY <1>4, <2>1, <2>2, <2>3
<1> QED
  BY <1>3, <1>4

LEMMA DeliveredFacts ==
  ASSUME Types
  PROVE  /\ Delivered \in Seq(Clouds) /\ Len(Delivered) \in Nat
         /\ DOMAIN Delivered = 1..Len(Delivered)
  BY DEF Types, Delivered

(* A cloud goes the way of the others.                                      *)
LEMMA OneMore ==
  ASSUME Types, written' = written, NEW x, queue' = Append(queue, x)
  PROVE  /\ Len(Delivered') = Len(Delivered) + 1
         /\ Delivered'[Len(Delivered) + 1] = x
         /\ \A i \in 1..Len(Delivered) : Delivered'[i] = Delivered[i]
<1>1. PICK S : queue \in Seq(S) /\ written \in Seq(S) /\ x \in S
  <2>1. Clouds \subseteq Clouds \cup {x}
    OBVIOUS
  <2>2. queue \in Seq(Clouds) /\ written \in Seq(Clouds)
    BY DEF Types
  <2>3. queue \in Seq(Clouds \cup {x})
    BY <2>1, <2>2, WiderSeq
  <2>4. written \in Seq(Clouds \cup {x})
    BY <2>1, <2>2, WiderSeq
  <2> QED
    BY <2>3, <2>4
<1>2. Delivered' = Append(Delivered, x) /\ Delivered \in Seq(S)
  BY <1>1, AddedLast DEF Delivered
<1> QED
  BY <1>1, <1>2

(* A scan that is large enough goes on its way when it is completed.        *)
LEMMA FeedSurfaces ==
  ASSUME IInv, NEW p \in Packets, Feed(p), NEW m \in Nat, m = n
  PROVE  queue' = IF Completes(m + 1)' /\ Cardinality(Held(m)) >= MinPoints
                  THEN Append(queue, [points |-> scan, stamp |-> m + 1, shared |-> FALSE])
                  ELSE queue
<1>0. /\ stream \in Seq(Packets) /\ scan \in Seq(1..m) /\ InOrder(scan, Held(m))
      /\ Emitted(p) = IF Completes(m + 1)' THEN <<scan>> ELSE <<>>
  BY FeedFacts
<1>1. Types
  BY DEF IInv
<1>2. Cardinality(Held(m)) = Len(scan)
  <2>1. scan \in Seq(Nat)
    BY <1>0, WiderSeq
  <2> QED
    BY <1>0, <2>1, OrderedLength
<1>3. queue' = IF Completes(m + 1)' /\ Cardinality(Held(m)) >= MinPoints
               THEN Append(queue, [points |-> scan, stamp |-> m + 1, shared |-> FALSE])
               ELSE queue
  <2>1. PICK clouds : clouds = Emitted(p)
    OBVIOUS
  <2>2. Surface(clouds, m + 1)
    <3>1. ready_clouds \o Emitted(p) = Emitted(p)
      <4>1. ready_clouds = <<>> /\ <<>> \o <<scan>> = <<scan>> /\ <<>> \o <<>> = <<>>
        BY <1>1 DEF Types
      <4> QED
        BY <1>0, <4>1
    <3> QED
      BY <2>1, <3>1 DEF Feed, n
  <2>3. queue \in Seq([points : Seq(DOMAIN stream), stamp : Nat, shared : {FALSE}])
    <3>1. DOMAIN stream \subseteq Nat
      BY <1>0
    <3>2. Clouds \subseteq [points : Seq(DOMAIN stream), stamp : Nat, shared : {FALSE}]
      BY <3>1 DEF Clouds
    <3> QED
      BY <1>1, <3>2, WiderSeq DEF Types
  <2>4. queue' = IF clouds = <<>> \/ TooSmall(Head(clouds)) THEN queue
                 ELSE Append(queue, [points |-> Head(clouds), stamp |-> m + 1, shared |-> FALSE])
    BY <2>2, <2>3, SurfaceFacts
  <2>5. CASE Completes(m + 1)'
    <3>1. clouds = <<scan>> /\ clouds # <<>> /\ Head(clouds) = scan
      BY <1>0, <2>1, <2>5
    <3>2. Len(scan) \in Nat /\ MinPoints \in Nat
      BY <1>0, ScanAssumption
    <3>3. TooSmall(scan) <=> ~(Cardinality(Held(m)) >= MinPoints)
      BY <1>2, <3>2 DEF TooSmall
    <3> QED
      BY <2>4, <2>5, <3>1, <3>3
  <2>6. CASE ~Completes(m + 1)'
    BY <1>0, <2>1, <2>4, <2>6
  <2> QED
    BY <2>5, <2>6
<1> QED
  BY <1>3

(* One more is due and one more is delivered.                               *)
LEMMA SettledGrows ==
  ASSUME IInv, NEW p \in Packets, Feed(p), NEW m \in Nat, m = n
  PROVE  Settled' /\ Ending'
<1>0. /\ stream \in Seq(Packets) /\ stream' = Append(stream, p)
      /\ scan \in Seq(1..m) /\ InOrder(scan, Held(m))
      /\ Emitted(p) = IF Completes(m + 1)' THEN <<scan>> ELSE <<>>
  BY FeedFacts
<1>1. stage = "feed" /\ stage' = "feed" /\ written' = written /\ Types /\ Settled
  BY DEF Feed, IInv
<1>3. queue' = IF Completes(m + 1)' /\ Cardinality(Held(m)) >= MinPoints
               THEN Append(queue, [points |-> scan, stamp |-> m + 1, shared |-> FALSE])
               ELSE queue
  BY FeedSurfaces
<1>4. /\ Due \subseteq 1..m /\ Count \in Nat /\ Count = Len(Delivered)
      /\ \A i \in 1..Count : Delivered[i].stamp \in Due
      /\ \A k \in Due : \E i \in 1..Count : Delivered[i].stamp = k
      /\ \A i, j \in 1..Count : i < j => Delivered[i].stamp < Delivered[j].stamp
      /\ \A i \in 1..Count, k \in 0..m :
           Delivered[i].stamp = k + 1 => InOrder(Delivered[i].points, Held(k))
  BY <1>0, <1>1, GrownDue DEF Settled
<1>5. PICK D : D = Delivered
  OBVIOUS
<1>6. PICK C \in Nat : C = Count
  BY <1>4
<1>7. /\ C = Len(D)
      /\ \A i \in 1..C : D[i].stamp \in Due /\ D[i].stamp \in 1..m
      /\ \A k \in Due : \E i \in 1..C : D[i].stamp = k
      /\ \A i, j \in 1..C : i < j => D[i].stamp < D[j].stamp
      /\ \A i \in 1..C, k \in 0..m : D[i].stamp = k + 1 => InOrder(D[i].points, Held(k))
  BY <1>4, <1>5, <1>6
<1>8. \A k \in 0..m : Held(k)' = Held(k)
  BY <1>0, GrownScans
<1>9. ASSUME NEW i \in 1..C, NEW k \in 0..m + 1, D[i].stamp = k + 1
      PROVE  InOrder(D[i].points, Held(k)')
  <2>1. k \in 0..m
    BY <1>7, <1>9
  <2>2. Held(k)' = Held(k) /\ InOrder(D[i].points, Held(k))
    BY <1>7, <1>8, <1>9, <2>1
  <2> QED
    BY <2>2
<1>9a. n' = m + 1
  BY <1>0, Grown
<1>10. CASE ~(Completes(m + 1)' /\ Cardinality(Held(m)) >= MinPoints)
  <2>1. Delivered' = D /\ Count' = C /\ Due' = Due
    BY <1>0, <1>1, <1>3, <1>5, <1>6, <1>10, GrownDue DEF Delivered
  <2>2. Settled'
    <3>1. /\ Count' <= Len(Delivered') /\ Len(Delivered') = Count'
          /\ \A i \in 1..Count' : Delivered'[i].stamp \in Due'
          /\ \A k \in Due' : \E i \in 1..Count' : Delivered'[i].stamp = k
          /\ \A i, j \in 1..Count' : i < j => Delivered'[i].stamp < Delivered'[j].stamp
      BY <1>6, <1>7, <2>1
    <3>2. \A i \in 1..Count', k \in 0..n' :
            Delivered'[i].stamp = k + 1 => InOrder(Delivered'[i].points, Held(k)')
      BY <1>9, <1>9a, <2>1
    <3> QED
      BY <3>1, <3>2 DEF Settled
  <2> QED
    BY <1>1, <2>2 DEF Ending
<1>11. CASE Completes(m + 1)' /\ Cardinality(Held(m)) >= MinPoints
  <2>1. PICK x : x = [points |-> scan, stamp |-> m + 1, shared |-> FALSE]
    OBVIOUS
  <2>2. /\ Len(Delivered') = C + 1 /\ Delivered'[C + 1] = x
        /\ \A i \in 1..C : Delivered'[i] = D[i]
    BY <1>1, <1>3, <1>5, <1>7, <1>11, <2>1, OneMore
  <2>3. Due' = Due \cup {m + 1} /\ Count' = C + 1
    BY <1>0, <1>6, <1>11, GrownDue
  <2>4. \A i \in 1..C + 1 : i \in 1..C \/ i = C + 1
    OBVIOUS
  <2>5. \A i \in 1..C + 1 : Delivered'[i].stamp \in Due'
    BY <1>7, <2>1, <2>2, <2>3, <2>4
  <2>6. \A k \in Due' : \E i \in 1..C + 1 : Delivered'[i].stamp = k
    <3>1. C + 1 \in 1..C + 1 /\ \A i \in 1..C : i \in 1..C + 1
      OBVIOUS
    <3> QED
      BY <1>7, <2>1, <2>2, <2>3, <3>1
  <2>7. ASSUME NEW i \in 1..C + 1, NEW j \in 1..C + 1, i < j
        PROVE  Delivered'[i].stamp < Delivered'[j].stamp
    <3>1. i \in 1..C /\ Delivered'[i].stamp \in 1..m
      BY <1>7, <2>2, <2>7
    <3>2. CASE j = C + 1
      BY <2>1, <2>2, <3>1, <3>2
    <3>3. CASE j \in 1..C
      BY <1>7, <2>2, <2>7, <3>1, <3>3
    <3> QED
      BY <2>4, <3>2, <3>3
  <2>8. ASSUME NEW i \in 1..C + 1, NEW k \in 0..m + 1, Delivered'[i].stamp = k + 1
        PROVE  InOrder(Delivered'[i].points, Held(k)')
    <3>1. CASE i = C + 1
      <4>1. Delivered'[i].points = scan /\ k = m
        BY <2>1, <2>2, <2>8, <3>1
      <4>2. Held(m)' = Held(m)
        BY <1>8
      <4> QED
        BY <1>0, <4>1, <4>2
    <3>2. CASE i \in 1..C
      BY <1>9, <2>2, <2>8, <3>2
    <3> QED
      BY <2>4, <3>1, <3>2
  <2>9. Settled'
    <3>1. /\ Count' <= Len(Delivered') /\ Len(Delivered') = Count'
          /\ \A i \in 1..Count' : Delivered'[i].stamp \in Due'
          /\ \A k \in Due' : \E i \in 1..Count' : Delivered'[i].stamp = k
          /\ \A i, j \in 1..Count' : i < j => Delivered'[i].stamp < Delivered'[j].stamp
      BY <2>2, <2>3, <2>5, <2>6, <2>7
    <3>2. \A i \in 1..Count', k \in 0..n' :
            Delivered'[i].stamp = k + 1 => InOrder(Delivered'[i].points, Held(k)')
      BY <1>9a, <2>3, <2>8
    <3> QED
      BY <3>1, <3>2 DEF Settled
  <2> QED
    BY <1>1, <2>9 DEF Ending
<1> QED
  BY <1>10, <1>11

LEMMA FeedTypes ==
  ASSUME IInv, NEW p \in Packets, Feed(p), NEW m \in Nat, m = n
  PROVE  Types'
<1>0. /\ stream \in Seq(Packets) /\ stream' = Append(stream, p) /\ m < MaxPackets
      /\ scan \in Seq(1..m)
      /\ Emitted(p) = IF Completes(m + 1)' THEN <<scan>> ELSE <<>>
  BY FeedFacts
<1>1. /\ n' = m + 1 /\ stream' \in Seq(Packets) /\ DOMAIN stream = 1..m /\ DOMAIN stream' = 1..m + 1
  BY <1>0, Grown
<1>2. Types /\ MaxPackets \in Nat
  BY ScanAssumption DEF IInv
<1>3. Clouds \subseteq Clouds'
  <2>1. \A q \in Seq(1..m) : q \in Seq(1..m + 1)
    <3>1. 1..m \subseteq 1..m + 1
      OBVIOUS
    <3> QED
      BY <3>1, WiderSeq
  <2>2. PICK Old, New : Old = Seq(1..m) /\ New = Seq(1..m + 1)
    OBVIOUS
  <2>3. /\ Clouds = [points : Old, stamp : 1..m, shared : {FALSE}]
        /\ Clouds' = [points : New, stamp : 1..m + 1, shared : {FALSE}]
    BY <1>1, <2>2 DEF Clouds
  <2>4. Old \subseteq New /\ 1..m \subseteq 1..m + 1
    BY <2>1, <2>2
  <2> QED
    BY <2>3, <2>4
<1>4. queue' \in Seq(Clouds') /\ written' \in Seq(Clouds')
  <2>1. queue \in Seq(Clouds') /\ written \in Seq(Clouds') /\ written' = written
    BY <1>2, <1>3, WiderSeq DEF Types, Feed
  <2>2. PICK x : x = [points |-> scan, stamp |-> m + 1, shared |-> FALSE]
    OBVIOUS
  <2>3. x \in Clouds'
    <3>1. scan \in Seq(1..m + 1)
      BY <1>0, WiderSeq
    <3> QED
      BY <1>1, <2>2, <3>1 DEF Clouds
  <2>4. queue' = Append(queue, x) \/ queue' = queue
    BY <2>2, FeedSurfaces
  <2> QED
    BY <2>1, <2>3, <2>4
<1>5. ready_clouds' = <<>>
  <2>1. ready_clouds \o Emitted(p) = <<scan>> \/ ready_clouds \o Emitted(p) = <<>>
    <3>1. ready_clouds = <<>> /\ <<>> \o <<scan>> = <<scan>> /\ <<>> \o <<>> = <<>>
      BY <1>2 DEF Types
    <3> QED
      BY <1>0, <3>1
  <2>2. Tail(<<scan>>) = <<>>
    OBVIOUS
  <2> QED
    BY <2>1, <2>2 DEF Feed, TakeFirst
<1>6. azimuth' \in 0..Sectors - 1 /\ stage' = "feed"
  BY <1>2 DEF Feed, Drive, Packets, Types
<1>7. scan' \in Seq(1..m + 1)
  BY FeedHolds
<1>8. first_scan_captured' \in BOOLEAN /\ last_feed_emitted' \in BOOLEAN
  BY <1>2 DEF Feed, Types
<1> QED
  BY <1>0, <1>1, <1>2, <1>4, <1>5, <1>6, <1>7, <1>8 DEF Types

LEMMA FeedStep ==
  ASSUME IInv, NEW p \in Packets, Feed(p)
  PROVE  IInv'
<1>1. PICK m \in Nat : m = n
  <2>1. n \in Nat
    BY DEF IInv, Types, n
  <2> QED
    BY <2>1
<1> QED
  BY <1>1, FeedTypes, FeedCaptures, FeedHolds, SettledGrows DEF IInv

-----------------------------------------------------------------------------
(* The stream is over: it stays what it was.                                *)

LEMMA SameStream ==
  ASSUME stream' = stream
  PROVE  /\ n' = n /\ Clouds' = Clouds /\ Due' = Due /\ Count' = Count /\ Size' = Size
         /\ \A k : Held(k)' = Held(k) /\ (Completes(k)' <=> Completes(k))
<1>1. \A k : Held(k)' = Held(k)
  BY DEF Held, StartsScan
<1>2. \A k : Completes(k)' <=> Completes(k)
  BY <1>1 DEF Completes, StartsScan
<1>3. Due' = Due
  BY <1>1, <1>2 DEF Due
<1>4. n' = n
  BY DEF n
<1>5. Size' = Size
  BY <1>1, <1>4 DEF Size
<1> QED
  BY <1>1, <1>2, <1>3, <1>4, <1>5 DEF Clouds, Count

LEMMA WriteStep ==
  ASSUME IInv, Write
  PROVE  IInv'
<1>1. /\ queue # <<>> /\ written' = Append(written, Head(queue)) /\ queue' = Tail(queue)
      /\ UNCHANGED <<stream, azimuth, scan, ready_clouds, first_scan_packets, first_scan_captured,
                     last_feed_emitted, stage, replay>>
  BY DEF Write, driver, adapter
<1>2. Delivered' = Delivered /\ queue' \in Seq(Clouds) /\ written' \in Seq(Clouds)
  BY <1>1, MovedOver DEF IInv, Types, Delivered
<1>3. /\ n' = n /\ Clouds' = Clouds /\ Due' = Due /\ Count' = Count /\ Size' = Size
      /\ \A k : Held(k)' = Held(k) /\ (Completes(k)' <=> Completes(k))
  BY <1>1, SameStream
<1>4. Types'
  BY <1>1, <1>2, <1>3 DEF IInv, Types
<1>5. Capture' /\ Stages'
  BY <1>1, <1>3 DEF IInv, Capture, Stages, Kept
<1>6. Holds'
  BY <1>1, <1>3 DEF IInv, Holds
<1>7. Settled'
  BY <1>1, <1>2, <1>3 DEF IInv, Settled
<1>8. Ending'
  BY <1>1, <1>2, <1>3 DEF IInv, Ending
<1> QED
  BY <1>4, <1>5, <1>6, <1>7, <1>8 DEF IInv

(* The writer takes nothing from what was delivered and adds nothing.       *)
LEMMA DeliveredKept ==
  ASSUME IInv, Write \/ UNCHANGED <<queue, written>>
  PROVE  Delivered' = Delivered
<1>1. CASE Write
  <2>1. queue # <<>> /\ written' = Append(written, Head(queue)) /\ queue' = Tail(queue)
    BY <1>1 DEF Write
  <2>2. queue \in Seq(Clouds) /\ written \in Seq(Clouds)
    BY DEF IInv, Types
  <2>3. Append(written, Head(queue)) \o Tail(queue) = written \o queue
    BY <2>1, <2>2, MovedOver
  <2> QED
    BY <2>1, <2>3 DEF Delivered
<1>2. CASE UNCHANGED <<queue, written>>
  BY <1>2 DEF Delivered
<1> QED
  BY <1>1, <1>2

LEMMA EndOfStreamStep ==
  ASSUME IInv, EndOfStream
  PROVE  IInv'
<1>1. /\ stage = "feed" /\ stage' = IF SkipsFlush THEN "end" ELSE "flush"
      /\ UNCHANGED <<stream, azimuth, scan, ready_clouds, first_scan_packets, first_scan_captured,
                     last_feed_emitted, replay, queue, written>>
  BY DEF EndOfStream, driver, adapter
<1>2. /\ n' = n /\ Clouds' = Clouds /\ Due' = Due /\ Count' = Count /\ Size' = Size
      /\ \A k : Held(k)' = Held(k) /\ (Completes(k)' <=> Completes(k))
      /\ Delivered' = Delivered
  BY <1>1, SameStream DEF Delivered
<1>3. Types'
  BY <1>1, <1>2 DEF IInv, Types
<1>4. Capture'
  BY <1>1, <1>2 DEF IInv, Capture, Kept
<1>5. n \in Nat /\ Kept \in 0..n /\ (n > 0 => Kept > 0) /\ first_scan_packets = [k \in 1..Kept |-> k]
  BY DEF IInv, Types, Capture, n
<1>6. SkipsFlush <=> n = 0 \/ last_feed_emitted
  <2>1. first_scan_packets = <<>> <=> Kept = 0
    BY <1>5
  <2> QED
    BY <1>5, <2>1 DEF SkipsFlush
<1>7. Stages'
  <2>1. Kept' = Kept /\ replay = 1
    BY <1>1 DEF Kept, IInv, Stages
  <2> QED
    BY <1>1, <1>2, <1>5, <1>6, <2>1 DEF Stages
<1>8. Holds'
  <2>1. InOrder(scan, Held(n)) /\ scan \in Seq(Nat)
    <3>1. DOMAIN stream \subseteq Nat
      BY DEF IInv, Types
    <3> QED
      BY <1>1, <3>1, WiderSeq DEF IInv, Holds, Types
  <2>2. Size = Len(scan) /\ SubSeq(scan, 1, Len(scan)) = scan /\ Len(scan) \in Nat
    BY <2>1, OrderedLength DEF Size
  <2>3. replay = 1 /\ azimuth = IF n = 0 THEN None ELSE stream[n].azimuth
    BY <1>1 DEF IInv, Stages, Holds
  <2>4. CASE ~SkipsFlush
    <3>1. n # 0
      BY <1>6, <2>4
    <3>2. Size <= Len(scan) /\ InOrder(SubSeq(scan, 1, Size), Held(n))
      <4>1. SubSeq(scan, 1, Size) = scan /\ Size <= Len(scan)
        BY <2>2
      <4> QED
        BY <2>1, <4>1
    <3> QED
      BY <1>1, <1>2, <2>3, <2>4, <3>1, <3>2 DEF Holds
  <2>5. CASE SkipsFlush
    BY <1>1, <2>5 DEF Holds
  <2> QED
    BY <2>4, <2>5
<1>9. Settled'
  BY <1>1, <1>2 DEF IInv, Settled
<1>10. Ending'
  <2>1. Len(Delivered) = Count
    BY <1>1 DEF IInv, Settled
  <2>2. SkipsFlush /\ first_scan_captured => last_feed_emitted
    BY <1>5, <1>6 DEF IInv, Capture
  <2> QED
    BY <1>1, <1>2, <2>1, <2>2 DEF Ending
<1> QED
  BY <1>3, <1>4, <1>7, <1>8, <1>9, <1>10 DEF IInv

-----------------------------------------------------------------------------
(* A packet is replayed.                                                    *)

(* More points behind the last scan leave it the beginning of what is held. *)
LEMMA StillBegins ==
  ASSUME NEW S, NEW q \in Seq(S), NEW x \in S, NEW k \in Nat, k <= Len(q)
  PROVE  SubSeq(Append(q, x), 1, k) = SubSeq(q, 1, k) /\ k <= Len(Append(q, x))
<1>1. Append(q, x) \in Seq(S) /\ Len(Append(q, x)) = Len(q) + 1
  OBVIOUS
<1>2. \A j \in 1..k : Append(q, x)[j] = q[j]
  OBVIOUS
<1> QED
  BY <1>1, <1>2

(* The replay so far ends with the packet before; the cloud the driver      *)
(* gives, if it gives one, is all it holds.                                 *)
LEMMA ReplayFacts ==
  ASSUME IInv, Replay, NEW r \in Nat, r = replay, NEW p, p = stream[r]
  PROVE  /\ stage = "flush" /\ r \in 1..Kept /\ r \in 1..n /\ n \in Nat /\ Kept \in 1..n
         /\ p \in Packets /\ DOMAIN stream = 1..n
         /\ UNCHANGED <<stream, first_scan_packets, first_scan_captured, last_feed_emitted, written>>
         /\ replay' = r + 1 /\ azimuth' = p.azimuth
         /\ scan' = (IF Wraps(p) THEN <<>> ELSE scan) \o PointsOf(r, p)
         /\ ready_clouds' = <<>>
         /\ scan \in Seq(1..n) /\ Size \in Nat /\ Size <= Len(scan) /\ Len(scan) \in Nat
         /\ InOrder(SubSeq(scan, 1, Size), Held(n)) /\ ~last_feed_emitted
<1>1. /\ stage = "flush" /\ r \in 1..Kept /\ ~last_feed_emitted
      /\ Kept \in 0..n /\ first_scan_packets = [k \in 1..Kept |-> k]
      /\ Size <= Len(scan) /\ InOrder(SubSeq(scan, 1, Size), Held(n))
      /\ ready_clouds = <<>>
  BY DEF Replay, IInv, Stages, Capture, Holds, Types
<1>2. n \in Nat /\ DOMAIN stream = 1..n /\ stream \in Seq(Packets) /\ scan \in Seq(1..n)
  BY DEF IInv, Types, n
<1>3. first_scan_packets[r] = r /\ r \in 1..n /\ Kept \in 1..n /\ p \in Packets
  BY <1>1, <1>2
<1>4. /\ UNCHANGED <<stream, first_scan_packets, first_scan_captured, last_feed_emitted, written>>
      /\ replay' = r + 1 /\ azimuth' = p.azimuth
      /\ scan' = (IF Wraps(p) THEN <<>> ELSE scan) \o PointsOf(r, p)
  BY <1>3 DEF Replay, Drive
<1>5. ready_clouds' = <<>>
  <2>1. Emitted(p) = <<scan>> \/ Emitted(p) = <<>>
    BY DEF Emitted
  <2>2. ready_clouds \o Emitted(p) = Emitted(p)
    <3>1. <<>> \o <<scan>> = <<scan>> /\ <<>> \o <<>> = <<>>
      OBVIOUS
    <3> QED
      BY <1>1, <2>1, <3>1
  <2>3. Tail(<<scan>>) = <<>>
    OBVIOUS
  <2> QED
    BY <1>3, <2>1, <2>2, <2>3 DEF Replay, TakeFirst
<1>6. Size \in Nat /\ Len(scan) \in Nat
  BY <1>2, HeldFacts DEF Size
<1> QED
  BY <1>1, <1>2, <1>3, <1>4, <1>5, <1>6

(* Either the driver gives what it holds and the replay ends, or it gives   *)
(* nothing and the replay goes on to the last packet kept.                  *)
LEMMA ReplayOutcome ==
  ASSUME IInv, Replay, NEW r \in Nat, r = replay, NEW p, p = stream[r]
  PROVE  \/ /\ Wraps(p) /\ scan # <<>> /\ stage' = "end"
            /\ queue' = IF TooSmall(scan) THEN queue
                        ELSE Append(queue, [points |-> scan, stamp |-> n, shared |-> FALSE])
         \/ /\ ~(Wraps(p) /\ scan # <<>>) /\ queue' = queue
            /\ stage' = IF r = Kept THEN "end" ELSE "flush"
<1>1. first_scan_packets[r] = r /\ ready_clouds = <<>> /\ Types
  <2>1. r \in 1..Kept /\ first_scan_packets = [k \in 1..Kept |-> k]
    BY DEF Replay, IInv, Stages, Capture
  <2> QED
    BY <2>1 DEF IInv, Types
<1>2. PICK clouds : clouds = Emitted(p)
  OBVIOUS
<1>3. clouds = ready_clouds \o Emitted(p)
  <2>1. Emitted(p) = <<scan>> \/ Emitted(p) = <<>>
    BY DEF Emitted
  <2>2. <<>> \o <<scan>> = <<scan>> /\ <<>> \o <<>> = <<>>
    OBVIOUS
  <2> QED
    BY <1>1, <1>2, <2>1, <2>2
<1>4. /\ Surface(clouds, n)
      /\ stage' = IF clouds # <<>> \/ r = Kept THEN "end" ELSE "flush"
  BY <1>1, <1>3 DEF Replay, n, Kept
<1>5. queue \in Seq([points : Seq(DOMAIN stream), stamp : Nat, shared : {FALSE}])
  <2>1. DOMAIN stream \subseteq Nat
    BY <1>1 DEF Types
  <2>2. Clouds \subseteq [points : Seq(DOMAIN stream), stamp : Nat, shared : {FALSE}]
    BY <2>1 DEF Clouds
  <2> QED
    BY <1>1, <2>2, WiderSeq DEF Types
<1>6. queue' = IF clouds = <<>> \/ TooSmall(Head(clouds)) THEN queue
               ELSE Append(queue, [points |-> Head(clouds), stamp |-> n, shared |-> FALSE])
  BY <1>4, <1>5, SurfaceFacts
<1>7. CASE Wraps(p) /\ scan # <<>>
  <2>1. clouds = <<scan>> /\ clouds # <<>> /\ Head(clouds) = scan
    BY <1>2, <1>7 DEF Emitted
  <2> QED
    BY <1>4, <1>6, <1>7, <2>1
<1>8. CASE ~(Wraps(p) /\ scan # <<>>)
  <2>1. clouds = <<>>
    BY <1>2, <1>8 DEF Emitted
  <2> QED
    BY <1>4, <1>6, <1>8, <2>1
<1> QED
  BY <1>7, <1>8

(* The last packet kept completed a scan, so the driver crosses the cut at  *)
(* it if not before.                                                        *)
LEMMA LastKeptWraps ==
  ASSUME IInv, Replay, NEW r \in Nat, r = replay, NEW p, p = stream[r], r = Kept, first_scan_captured
  PROVE  Wraps(p)
<1>1. /\ r \in 1..n /\ n \in Nat /\ stage = "flush" /\ p \in Packets
  BY ReplayFacts
<1>2. Completes(r)
  BY DEF IInv, Capture
<1>3. r > 1 /\ stream[r].azimuth < stream[r - 1].azimuth
  BY <1>1, <1>2 DEF Completes, StartsScan
<1>4. azimuth = stream[r - 1].azimuth
  BY <1>1, <1>3 DEF IInv, Holds
<1>5. stream[r - 1].azimuth \in 0..Sectors - 1
  <2>1. r - 1 \in 1..n /\ stream \in Seq(Packets)
    BY <1>1, <1>3 DEF IInv, Types
  <2>2. stream[r - 1] \in Packets
    BY <2>1 DEF n
  <2> QED
    BY <2>2 DEF Packets
<1>6. azimuth # None
  BY <1>4, <1>5, ScanAssumption
<1> QED
  BY <1>3, <1>4, <1>6 DEF Wraps

LEMMA ReplayStep ==
  ASSUME IInv, Replay
  PROVE  IInv'
<1>0. PICK r \in Nat : r = replay
  BY DEF IInv, Stages, Replay
<1>1. PICK p : p = stream[r]
  OBVIOUS
<1>2. /\ stage = "flush" /\ r \in 1..Kept /\ r \in 1..n /\ n \in Nat /\ Kept \in 1..n
      /\ p \in Packets /\ DOMAIN stream = 1..n
      /\ UNCHANGED <<stream, first_scan_packets, first_scan_captured, last_feed_emitted, written>>
      /\ replay' = r + 1 /\ azimuth' = p.azimuth
      /\ scan' = (IF Wraps(p) THEN <<>> ELSE scan) \o PointsOf(r, p)
      /\ ready_clouds' = <<>>
      /\ scan \in Seq(1..n) /\ Size \in Nat /\ Size <= Len(scan) /\ Len(scan) \in Nat
      /\ InOrder(SubSeq(scan, 1, Size), Held(n)) /\ ~last_feed_emitted
  BY <1>0, <1>1, ReplayFacts
<1>3. /\ n' = n /\ Clouds' = Clouds /\ Due' = Due /\ Count' = Count /\ Size' = Size /\ Kept' = Kept
      /\ \A k : Held(k)' = Held(k) /\ (Completes(k)' <=> Completes(k))
  BY <1>2, SameStream DEF Kept
<1>4. PICK x : x = [points |-> scan, stamp |-> n, shared |-> FALSE]
  OBVIOUS
<1>5. \/ /\ Wraps(p) /\ scan # <<>> /\ stage' = "end"
         /\ queue' = IF TooSmall(scan) THEN queue ELSE Append(queue, x)
      \/ /\ ~(Wraps(p) /\ scan # <<>>) /\ queue' = queue
         /\ stage' = IF r = Kept THEN "end" ELSE "flush"
  BY <1>0, <1>1, <1>4, ReplayOutcome
<1>6. Types'
  <2>1. scan' \in Seq(DOMAIN stream)
    <3>1. PICK b : b = IF Wraps(p) THEN <<>> ELSE scan
      OBVIOUS
    <3>2. b \in Seq(1..n)
      <4>1. <<>> \in Seq(1..n) /\ scan \in Seq(1..n)
        BY <1>2
      <4>2. b = <<>> \/ b = scan
        BY <3>1
      <4> QED
        BY <4>1, <4>2
    <3>3. b \o <<>> = b /\ b \o <<r>> = Append(b, r) /\ Append(b, r) \in Seq(1..n)
      BY <1>2, <3>2
    <3> QED
      BY <1>2, <3>1, <3>2, <3>3 DEF PointsOf
  <2>2. queue' \in Seq(Clouds)
    <3>1. x \in Clouds /\ queue \in Seq(Clouds)
      BY <1>2, <1>4 DEF Clouds, IInv, Types
    <3>2. queue' = queue \/ queue' = Append(queue, x)
      BY <1>5
    <3> QED
      BY <3>1, <3>2
  <2>3. azimuth' \in 0..Sectors - 1 /\ stage' \in {"flush", "end"}
    BY <1>2, <1>5 DEF Packets
  <2> QED
    BY <1>2, <1>3, <2>1, <2>2, <2>3 DEF IInv, Types
<1>7. Capture'
  BY <1>2, <1>3 DEF IInv, Capture
<1>8. Stages'
  <2>1. stage' = "end" \/ (stage' = "flush" /\ r # Kept)
    BY <1>5
  <2> QED
    BY <1>2, <1>3, <2>1 DEF Stages
<1>9. Holds'
  <2>1. CASE stage' = "end"
    BY <2>1 DEF Holds
  <2>2. CASE stage' # "end"
    <3>1. stage' = "flush" /\ ~(Wraps(p) /\ scan # <<>>)
      BY <1>5, <2>2
    <3>2. scan' = scan \/ scan' = Append(scan, r)
      <4>1. (IF Wraps(p) THEN <<>> ELSE scan) = scan
        BY <3>1
      <4>2. scan \o <<>> = scan /\ scan \o <<r>> = Append(scan, r)
        BY <1>2
      <4> QED
        BY <1>2, <4>1, <4>2 DEF PointsOf
    <3>3. Size <= Len(scan') /\ SubSeq(scan', 1, Size) = SubSeq(scan, 1, Size)
      <4>1. SubSeq(Append(scan, r), 1, Size) = SubSeq(scan, 1, Size) /\ Size <= Len(Append(scan, r))
        BY <1>2, StillBegins
      <4> QED
        BY <1>2, <3>2, <4>1
    <3>4. InOrder(SubSeq(scan', 1, Size), Held(n))
      BY <1>2, <3>3
    <3>5. replay' # 1 /\ replay' - 1 = r /\ azimuth' = stream[r].azimuth
      BY <1>1, <1>2
    <3> QED
      BY <1>2, <1>3, <3>1, <3>3, <3>4, <3>5 DEF Holds
  <2> QED
    BY <2>1, <2>2
<1>10. /\ Len(Delivered) = Count /\ Count \in Nat /\ Types /\ Settled
  BY <1>2, DeliveredFacts DEF IInv, Settled
<1>11. CASE queue' = queue
  <2>1. Delivered' = Delivered
    BY <1>2, <1>11 DEF Delivered
  <2>2. Settled'
    BY <1>3, <1>10, <2>1 DEF Settled
  <2>3. stage' = "end" /\ first_scan_captured => Size = 0 \/ Size < MinPoints
    <3>1. CASE Wraps(p) /\ scan # <<>> /\ TooSmall(scan)
      BY <1>2, <3>1, ScanAssumption DEF TooSmall
    <3>2. CASE Wraps(p) /\ scan # <<>> /\ ~TooSmall(scan)
      <4>1. queue' = Append(queue, x) /\ queue \in Seq(Clouds)
        BY <1>5, <1>10, <3>2 DEF Types
      <4>2. Len(queue') = Len(queue) + 1 /\ Len(queue) \in Nat
        <5>1. x \in Clouds
          BY <1>2, <1>4 DEF Clouds
        <5> QED
          BY <4>1, <5>1
      <4> QED
        BY <1>11, <4>2
    <3>3. CASE ~(Wraps(p) /\ scan # <<>>)
      <4>1. SUFFICES ASSUME stage' = "end", first_scan_captured PROVE Size = 0
        OBVIOUS
      <4>2. r = Kept
        BY <1>5, <3>3, <4>1
      <4>3. Wraps(p)
        BY <1>0, <1>1, <4>1, <4>2, LastKeptWraps
      <4>4. scan = <<>>
        BY <3>3, <4>3
      <4> QED
        BY <1>2, <4>4
    <3> QED
      BY <3>1, <3>2, <3>3
  <2>4. Ending'
    BY <1>2, <1>3, <1>10, <2>1, <2>3 DEF Ending
  <2> QED
    BY <1>6, <1>7, <1>8, <1>9, <2>2, <2>4 DEF IInv
<1>12. CASE queue' = Append(queue, x) /\ stage' = "end"
  <2>1. /\ Len(Delivered') = Count + 1 /\ Delivered'[Count + 1] = x
        /\ \A i \in 1..Count : Delivered'[i] = Delivered[i]
    BY <1>2, <1>10, <1>12, OneMore
  <2>2. Settled'
    <3>1. PICK C, D : C \in Nat /\ C = Count /\ D = Delivered
      BY <1>10
    <3>2. /\ Len(Delivered') = C + 1 /\ \A i \in 1..C : Delivered'[i] = D[i]
          /\ Count' = C /\ stage' = "end"
      BY <1>3, <1>12, <2>1, <3>1
    <3>3. /\ \A i \in 1..C : D[i].stamp \in Due
          /\ \A k \in Due : \E i \in 1..C : D[i].stamp = k
          /\ \A i, j \in 1..C : i < j => D[i].stamp < D[j].stamp
          /\ \A i \in 1..C, k \in 0..n : D[i].stamp = k + 1 => InOrder(D[i].points, Held(k))
      BY <1>10, <3>1 DEF Settled
    <3>4. /\ \A i \in 1..C : Delivered'[i].stamp \in Due
          /\ \A k \in Due : \E i \in 1..C : Delivered'[i].stamp = k
          /\ \A i, j \in 1..C : i < j => Delivered'[i].stamp < Delivered'[j].stamp
      BY <3>2, <3>3
    <3>5. \A i \in 1..C, k \in 0..n :
            Delivered'[i].stamp = k + 1 => InOrder(Delivered'[i].points, Held(k))
      BY <3>2, <3>3
    <3>6. C <= Len(Delivered')
      BY <3>1, <3>2
    <3> QED
      BY <1>3, <3>2, <3>4, <3>5, <3>6 DEF Settled
  <2>3. Ending'
    BY <1>2, <1>3, <1>4, <1>10, <2>1 DEF Ending
  <2> QED
    BY <1>6, <1>7, <1>8, <1>9, <2>2, <2>3 DEF IInv
<1> QED
  BY <1>5, <1>11, <1>12

-----------------------------------------------------------------------------
(* The theorems.                                                            *)

LEMMA InitHolds == Init => IInv
<1> SUFFICES ASSUME Init PROVE IInv
  OBVIOUS
<1>1. /\ stream = <<>> /\ azimuth = None /\ scan = <<>> /\ ready_clouds = <<>>
      /\ first_scan_packets = <<>> /\ first_scan_captured = FALSE /\ last_feed_emitted = FALSE
      /\ stage = "feed" /\ replay = 1 /\ queue = <<>> /\ written = <<>>
  BY DEF Init
<1>2. n = 0 /\ Kept = 0 /\ Held(0) = {} /\ Held(n) = {}
  <2>1. n = 0 /\ Kept = 0
    BY <1>1 DEF n, Kept
  <2> QED
    BY <2>1, HeldFacts
<1>3. Due = {} /\ Count = 0
  <2>1. Due = {}
    BY <1>1 DEF Due
  <2> QED
    BY <2>1, FS_EmptySet DEF Count
<1>4. Delivered = <<>> /\ Len(Delivered) = 0
  BY <1>1 DEF Delivered
<1>5. Types
  <2>1. stream \in Seq(Packets) /\ n <= MaxPackets
    BY <1>1, <1>2, ScanAssumption
  <2>2. scan \in Seq(DOMAIN stream) /\ ready_clouds \in Seq(Clouds)
    BY <1>1
  <2>3. queue \in Seq(Clouds) /\ written \in Seq(Clouds)
    BY <1>1
  <2> QED
    BY <1>1, <2>1, <2>2, <2>3, ScanAssumption DEF Types
<1>6. Capture
  <2>1. <<>> = [k \in 1..0 |-> k]
    OBVIOUS
  <2> QED
    BY <1>1, <1>2, <2>1 DEF Capture
<1>7. Stages
  BY <1>1, <1>2 DEF Stages
<1>8. Holds
  <2>1. <<>> \in Seq(Nat)
    OBVIOUS
  <2> QED
    BY <1>1, <1>2, <2>1, OrderedEmpty DEF Holds
<1>9. Settled
  BY <1>1, <1>3, <1>4 DEF Settled
<1>10. Ending
  BY <1>1 DEF Ending
<1> QED
  BY <1>5, <1>6, <1>7, <1>8, <1>9, <1>10 DEF IInv

LEMMA Invariant == Spec => []IInv
<1>1. IInv /\ [Next]_vars => IInv'
  <2> SUFFICES ASSUME IInv, [Next]_vars PROVE IInv'
    OBVIOUS
  <2>1. ASSUME NEW p \in Packets, Feed(p) PROVE IInv'
    BY <2>1, FeedStep
  <2>2. CASE EndOfStream
    BY <2>2, EndOfStreamStep
  <2>3. CASE Replay
    BY <2>3, ReplayStep
  <2>4. CASE Write
    BY <2>4, WriteStep
  <2>5. CASE UNCHANGED vars
    <3>1. UNCHANGED <<stream, azimuth, scan, ready_clouds, first_scan_packets, first_scan_captured,
                      last_feed_emitted, stage, replay, queue, written>>
      BY <2>5 DEF vars, driver, adapter
    <3>2. /\ n' = n /\ Clouds' = Clouds /\ Due' = Due /\ Count' = Count /\ Size' = Size
          /\ \A k : Held(k)' = Held(k) /\ (Completes(k)' <=> Completes(k))
          /\ Delivered' = Delivered
      BY <3>1, SameStream DEF Delivered
    <3>3. Types' /\ Capture' /\ Stages' /\ Holds'
      BY <3>1, <3>2 DEF IInv, Types, Capture, Kept, Stages, Holds
    <3>4. Settled' /\ Ending'
      BY <3>1, <3>2 DEF IInv, Settled, Ending
    <3> QED
      BY <3>3, <3>4 DEF IInv
  <2> QED
    BY <2>1, <2>2, <2>3, <2>4, <2>5 DEF Next
<1> QED
  BY <1>1, InitHolds, PTL DEF Spec

(* The adapter, the driver and the queue keep their types: every cloud is   *)
(* made of packets of the stream, nothing is left in the deque, and the     *)
(* replay never runs past the packets kept.                                 *)
THEOREM ScanTypes == Spec => []TypeOK
<1>1. IInv => TypeOK
  <2> SUFFICES ASSUME IInv PROVE TypeOK
    OBVIOUS
  <2>1. Types /\ Capture /\ Stages
    BY DEF IInv
  <2>2. n \in Nat /\ DOMAIN stream = 1..n /\ MaxPackets \in Nat /\ n <= MaxPackets
    BY <2>1, ScanAssumption DEF Types, n
  <2>3. first_scan_packets \in Seq(DOMAIN stream) /\ replay \in 1..MaxPackets + 1
    BY <2>1, <2>2 DEF Capture, Stages
  <2>4. ASSUME NEW i \in DOMAIN Delivered
        PROVE  Delivered[i].points \in Seq(DOMAIN stream) /\ Delivered[i].stamp \in DOMAIN stream
    <3>1. Delivered[i] \in Clouds
      BY <2>1, <2>4, DeliveredFacts
    <3> QED
      BY <3>1 DEF Clouds
  <2> QED
    BY <2>1, <2>2, <2>3, <2>4 DEF TypeOK, Types, n
<1> QED
  BY <1>1, Invariant, PTL

(* Every completed scan that is large enough reaches the output whole, in   *)
(* order, once, with the stamp of the packet that completed it.             *)
THEOREM CompletedDelivered == Spec => []CompletedScansAreDelivered
<1>1. IInv => CompletedScansAreDelivered
  <2> SUFFICES ASSUME IInv PROVE CompletedScansAreDelivered
    OBVIOUS
  <2>1. Types /\ Settled
    BY DEF IInv
  <2>2. n \in Nat /\ Due \subseteq 1..n
    BY <2>1 DEF Types, n, Due
  <2>3. Count \in Nat
    <3>1. IsFiniteSet(1..n)
      BY <2>2, FS_Interval
    <3> QED
      BY <2>2, <3>1, FS_Subset, FS_CardinalityType DEF Count
  <2>4. PICK C \in Nat : C = Count
    BY <2>3
  <2>5. InOrder([i \in 1..C |-> Delivered[i].stamp], Due)
    <3>1. PICK q : q = [i \in 1..C |-> Delivered[i].stamp]
      OBVIOUS
    <3>2. DOMAIN q = 1..C /\ \A i \in 1..C : q[i] = Delivered[i].stamp
      BY <3>1
    <3>3. {q[i] : i \in 1..C} = Due
      BY <2>1, <2>4, <3>2 DEF Settled
    <3>4. \A i, j \in 1..C : i < j => q[i] < q[j]
      BY <2>1, <2>4, <3>2 DEF Settled
    <3> QED
      BY <3>1, <3>2, <3>3, <3>4 DEF InOrder
  <2>6. ASSUME NEW i \in 1..C PROVE InOrder(Delivered[i].points, Held(Delivered[i].stamp - 1))
    <3>1. PICK s \in 1..n : s = Delivered[i].stamp
      BY <2>1, <2>2, <2>4 DEF Settled
    <3>2. s - 1 \in 0..n /\ s = s - 1 + 1
      BY <2>2
    <3>3. InOrder(Delivered[i].points, Held(s - 1))
      BY <2>1, <2>4, <3>1, <3>2 DEF Settled
    <3> QED
      BY <3>1, <3>3
  <2> QED
    BY <2>1, <2>4, <2>5, <2>6 DEF CompletedScansAreDelivered, Settled, Count
<1> QED
  BY <1>1, Invariant, PTL

(* Once the stream has completed a scan, flush() gets the last one out:     *)
(* replaying up to the packet that completed the first scan is enough.      *)
THEOREM TrailingDelivered == Spec => []TrailingScanSurvives
<1>1. IInv => TrailingScanSurvives
  <2> SUFFICES ASSUME IInv, stage = "end", NEW k \in DOMAIN stream, Completes(k), ~Completes(n),
                      Size > 0, Size >= MinPoints
               PROVE  /\ Len(Delivered) = Count + 1
                      /\ LET last == Delivered[Len(Delivered)]
                         IN  InOrder(SubSeq(last.points, 1, Size), Held(n)) /\ last.stamp = n
    BY DEF TrailingScanSurvives, Size, Count, n
  <2>1. n \in Nat /\ k \in 1..n
    BY DEF IInv, Types, n
  <2>2. Size \in Nat /\ MinPoints \in Nat
    BY <2>1, HeldFacts, ScanAssumption DEF Size
  <2>3. first_scan_captured /\ ~last_feed_emitted
    BY <2>1 DEF IInv, Capture
  <2>4. /\ Len(Delivered) = Count + 1 /\ Delivered[Count + 1].stamp = n
        /\ InOrder(SubSeq(Delivered[Count + 1].points, 1, Size), Held(n))
    BY <2>2, <2>3 DEF IInv, Ending
  <2> QED
    BY <2>4
<1> QED
  BY <1>1, Invariant, PTL

(* A stream that ends with the packet that completed a scan gets no further *)
(* cloud from flush().                                                      *)
THEOREM NothingSpurious == Spec => []NoSpuriousScan
<1>1. IInv => NoSpuriousScan
  <2> SUFFICES ASSUME IInv, stage = "end", stream # <<>>, Completes(n) PROVE Len(Delivered) = Count
    BY DEF NoSpuriousScan, Count, n
  <2>1. n > 0
    BY DEF IInv, Types, n
  <2>2. last_feed_emitted
    BY <2>1 DEF IInv, Capture
  <2> QED
    BY <2>2 DEF IInv, Ending
<1> QED
  BY <1>1, Invariant, PTL

-----------------------------------------------------------------------------
(* What a cloud is made of, whether it was completed or flushed.            *)

(* Along a cloud the azimuths do not fall, nor do they pass a.              *)
Sweeps(str, q) == \A i, j \in DOMAIN q : i <= j => str[q[i]].azimuth <= str[q[j]].azimuth
UpTo(str, q, a) == \A i \in DOMAIN q : str[q[i]].azimuth <= a

SweepInv ==
  /\ Sweeps(stream, scan)
  /\ scan # <<>> => azimuth # None /\ UpTo(stream, scan, azimuth)
  /\ \A i \in DOMAIN Delivered : Sweeps(stream, Delivered[i].points)

LEMMA SweepSame ==
  ASSUME NEW S, NEW q \in Seq(S), NEW str, NEW other, \A k \in S : other[k] = str[k],
         Sweeps(str, q)
  PROVE  Sweeps(other, q)
<1>1. \A i \in DOMAIN q : q[i] \in S
  OBVIOUS
<1>2. \A i \in DOMAIN q : other[q[i]] = str[q[i]]
  BY <1>1
<1> QED
  BY <1>2 DEF Sweeps

LEMMA SweepAppend ==
  ASSUME NEW S, NEW q \in Seq(S), NEW x \in S, NEW str, str[x].azimuth \in Nat,
         Sweeps(str, q), UpTo(str, q, str[x].azimuth)
  PROVE  Sweeps(str, Append(q, x)) /\ UpTo(str, Append(q, x), str[x].azimuth)
<1>0. DOMAIN q = 1..Len(q) /\ Len(q) \in Nat /\ DOMAIN Append(q, x) = 1..Len(q) + 1
  OBVIOUS
<1>1. Append(q, x)[Len(q) + 1] = x /\ \A i \in 1..Len(q) : Append(q, x)[i] = q[i]
  OBVIOUS
<1>2. 1..Len(q) + 1 = 1..Len(q) \cup {Len(q) + 1}
  BY <1>0
<1>3. \A i \in DOMAIN Append(q, x) : str[Append(q, x)[i]].azimuth <= str[x].azimuth
  BY <1>0, <1>1, <1>2 DEF UpTo
<1>4. ASSUME NEW i \in 1..Len(q) + 1, NEW j \in 1..Len(q) + 1, i <= j
      PROVE  str[Append(q, x)[i]].azimuth <= str[Append(q, x)[j]].azimuth
  <2>1. CASE j = Len(q) + 1
    BY <1>0, <1>1, <1>3, <2>1
  <2>2. CASE j \in 1..Len(q)
    <3>1. i \in 1..Len(q)
      BY <1>0, <1>4, <2>2
    <3> QED
      BY <1>0, <1>1, <1>4, <2>2, <3>1 DEF Sweeps
  <2> QED
    BY <1>2, <2>1, <2>2
<1> QED
  BY <1>0, <1>3, <1>4 DEF Sweeps, UpTo

(* The driver adds a packet only to a scan that has not passed its azimuth. *)
LEMMA DriveSweeps ==
  ASSUME IInv, SweepInv, NEW str \in Seq(Packets), NEW r \in DOMAIN str, NEW p, p = str[r],
         \A k \in DOMAIN stream : k \in DOMAIN str /\ str[k] = stream[k],
         scan' = (IF Wraps(p) THEN <<>> ELSE scan) \o PointsOf(r, p)
  PROVE  Sweeps(str, scan') /\ UpTo(str, scan', p.azimuth)
<1>0. /\ \A k \in DOMAIN str : str[k] \in Packets
      /\ \A k \in DOMAIN str : str[k].azimuth \in Nat
      /\ scan \in Seq(DOMAIN stream) /\ scan \in Seq(DOMAIN str)
      /\ azimuth \in Nat \cup {None}
  <2>1. \A k \in DOMAIN str : str[k] \in Packets
    OBVIOUS
  <2>2. \A k \in DOMAIN str : str[k].azimuth \in 0..Sectors - 1
    BY <2>1 DEF Packets
  <2>3. scan \in Seq(DOMAIN stream) /\ azimuth \in 0..Sectors - 1 \cup {None}
    BY DEF IInv, Types
  <2>4. DOMAIN stream \subseteq DOMAIN str
    OBVIOUS
  <2>5. scan \in Seq(DOMAIN str)
    BY <2>3, <2>4, WiderSeq
  <2> QED
    BY <2>1, <2>2, <2>3, <2>5
<1>1. PICK b : b = IF Wraps(p) THEN <<>> ELSE scan
  OBVIOUS
<1>2. b \in Seq(DOMAIN str) /\ Sweeps(str, b) /\ UpTo(str, b, p.azimuth)
  <2>1. CASE b = <<>>
    <3>1. <<>> \in Seq(DOMAIN str) /\ DOMAIN b = {}
      BY <2>1
    <3> QED
      BY <2>1, <3>1 DEF Sweeps, UpTo
  <2>2. CASE b # <<>>
    <3>1. b = scan /\ ~Wraps(p) /\ scan # <<>>
      BY <1>1, <2>2
    <3>2. azimuth # None /\ UpTo(stream, scan, azimuth) /\ Sweeps(stream, scan)
      BY <3>1 DEF SweepInv
    <3>3. azimuth \in Nat /\ p.azimuth \in Nat /\ azimuth <= p.azimuth
      BY <1>0, <3>1, <3>2 DEF Wraps
    <3>4. Sweeps(str, scan)
      BY <1>0, <3>2, SweepSame
    <3>5. \A i \in DOMAIN scan : scan[i] \in DOMAIN stream /\ scan[i] \in DOMAIN str
      BY <1>0
    <3>6. \A i \in DOMAIN scan : str[scan[i]].azimuth <= azimuth /\ str[scan[i]].azimuth \in Nat
      BY <1>0, <3>2, <3>5 DEF UpTo
    <3>7. UpTo(str, scan, p.azimuth)
      BY <3>3, <3>6 DEF UpTo
    <3> QED
      BY <1>0, <3>1, <3>4, <3>7
  <2> QED
    BY <2>1, <2>2
<1>3. scan' = b \/ scan' = Append(b, r)
  <2>1. b \o <<>> = b /\ b \o <<r>> = Append(b, r)
    BY <1>2
  <2> QED
    BY <1>1, <2>1 DEF PointsOf
<1>4. str[r].azimuth \in Nat /\ str[r].azimuth = p.azimuth
  BY <1>0
<1> QED
  BY <1>2, <1>3, <1>4, SweepAppend

LEMMA SweepStep ==
  ASSUME IInv, IInv', SweepInv, [Next]_vars
  PROVE  SweepInv'
<1>0. Types /\ \A i \in DOMAIN Delivered : Delivered[i].points \in Seq(DOMAIN stream)
  <2>1. Types /\ Delivered \in Seq(Clouds)
    BY DeliveredFacts DEF IInv
  <2>2. \A i \in DOMAIN Delivered : Delivered[i] \in Clouds
    BY <2>1
  <2> QED
    BY <2>1, <2>2 DEF Clouds
<1>1. ASSUME NEW p \in Packets, Feed(p) PROVE SweepInv'
  <2>0. PICK m \in Nat : m = n
    BY DEF IInv, Types, n
  <2>1. /\ stream \in Seq(Packets) /\ stream' = Append(stream, p) /\ azimuth' = p.azimuth
        /\ scan' = (IF Wraps(p) THEN <<>> ELSE scan) \o PointsOf(m + 1, p) /\ written' = written
    BY <1>1, <2>0, FeedFacts DEF Feed, Drive, n
  <2>2. /\ stream' \in Seq(Packets) /\ m + 1 \in DOMAIN stream' /\ stream'[m + 1] = p
        /\ \A k \in DOMAIN stream : k \in DOMAIN stream' /\ stream'[k] = stream[k]
    BY <2>0, <2>1, Grown
  <2>3. Sweeps(stream', scan') /\ UpTo(stream', scan', p.azimuth)
    <3>1. PICK str \in Seq(Packets) : str = stream'
      BY <2>2
    <3>2. m + 1 \in DOMAIN str /\ p = str[m + 1]
          /\ \A k \in DOMAIN stream : k \in DOMAIN str /\ str[k] = stream[k]
      BY <2>2, <3>1
    <3>3. Sweeps(str, scan') /\ UpTo(str, scan', p.azimuth)
      BY <2>1, <3>2, DriveSweeps
    <3> QED
      BY <3>1, <3>3
  <2>4. p.azimuth # None
    BY ScanAssumption DEF Packets
  <2>5. ASSUME NEW i \in DOMAIN Delivered' PROVE Sweeps(stream', Delivered'[i].points)
    <3>1. PICK x : x = [points |-> scan, stamp |-> m + 1, shared |-> FALSE]
      OBVIOUS
    <3>2. queue' = queue \/ queue' = Append(queue, x)
      BY <1>1, <2>0, <3>1, FeedSurfaces
    <3>3. CASE i \in DOMAIN Delivered /\ Delivered'[i] = Delivered[i]
      <4>1. Sweeps(stream, Delivered[i].points)
        BY <3>3 DEF SweepInv
      <4> QED
        BY <1>0, <2>2, <3>3, <4>1, SweepSame
    <3>4. CASE Delivered'[i] = x
      <4>1. x.points = scan /\ Sweeps(stream, scan) /\ scan \in Seq(DOMAIN stream)
        BY <1>0, <3>1 DEF SweepInv, Types
      <4> QED
        BY <2>2, <3>4, <4>1, SweepSame
    <3>5. (i \in DOMAIN Delivered /\ Delivered'[i] = Delivered[i]) \/ Delivered'[i] = x
      <4>1. CASE queue' = queue
        BY <2>1, <2>5, <4>1 DEF Delivered
      <4>2. CASE queue' = Append(queue, x)
        <5>1. /\ Len(Delivered') = Len(Delivered) + 1 /\ Delivered'[Len(Delivered) + 1] = x
              /\ \A k \in 1..Len(Delivered) : Delivered'[k] = Delivered[k]
          BY <1>0, <2>1, <4>2, OneMore
        <5>2. DOMAIN Delivered' = 1..Len(Delivered')
          BY DeliveredFacts DEF IInv
        <5>3. DOMAIN Delivered = 1..Len(Delivered) /\ Len(Delivered) \in Nat
          BY <1>0, DeliveredFacts
        <5> QED
          BY <2>5, <5>1, <5>2, <5>3
      <4> QED
        BY <3>2, <4>1, <4>2
    <3> QED
      BY <3>3, <3>4, <3>5
  <2> QED
    BY <2>1, <2>3, <2>4, <2>5 DEF SweepInv
<1>2. CASE Replay
  <2>0. PICK r \in Nat : r = replay
    BY <1>2 DEF IInv, Stages, Replay
  <2>1. PICK p : p = stream[r]
    OBVIOUS
  <2>2. /\ r \in DOMAIN stream /\ p \in Packets /\ stream' = stream /\ written' = written
        /\ azimuth' = p.azimuth
        /\ scan' = (IF Wraps(p) THEN <<>> ELSE scan) \o PointsOf(r, p)
    BY <1>2, <2>0, <2>1, ReplayFacts
  <2>3. Sweeps(stream, scan') /\ UpTo(stream, scan', p.azimuth)
    <3>1. stream \in Seq(Packets)
      BY <1>0 DEF Types
    <3> QED
      BY <2>1, <2>2, <3>1, DriveSweeps
  <2>4. p.azimuth # None
    BY <2>2, ScanAssumption DEF Packets
  <2>5. ASSUME NEW i \in DOMAIN Delivered' PROVE Sweeps(stream, Delivered'[i].points)
    <3>1. PICK x : x = [points |-> scan, stamp |-> n, shared |-> FALSE]
      OBVIOUS
    <3>2. queue' = queue \/ queue' = Append(queue, x)
      BY <1>2, <2>0, <2>1, <3>1, ReplayOutcome
    <3>3. x.points = scan /\ Sweeps(stream, scan)
      BY <3>1 DEF SweepInv
    <3>4. (i \in DOMAIN Delivered /\ Delivered'[i] = Delivered[i]) \/ Delivered'[i] = x
      <4>1. CASE queue' = queue
        BY <2>2, <2>5, <4>1 DEF Delivered
      <4>2. CASE queue' = Append(queue, x)
        <5>1. /\ Len(Delivered') = Len(Delivered) + 1 /\ Delivered'[Len(Delivered) + 1] = x
              /\ \A k \in 1..Len(Delivered) : Delivered'[k] = Delivered[k]
          BY <1>0, <2>2, <4>2, OneMore
        <5>2. DOMAIN Delivered' = 1..Len(Delivered')
          BY DeliveredFacts DEF IInv
        <5>3. DOMAIN Delivered = 1..Len(Delivered) /\ Len(Delivered) \in Nat
          BY <1>0, DeliveredFacts
        <5> QED
          BY <2>5, <5>1, <5>2, <5>3
      <4> QED
        BY <3>2, <4>1, <4>2
    <3> QED
      BY <3>3, <3>4 DEF SweepInv
  <2> QED
    BY <2>2, <2>3, <2>4, <2>5 DEF SweepInv
<1>3. CASE EndOfStream \/ Write \/ UNCHANGED vars
  <2>1. UNCHANGED <<stream, azimuth, scan, Delivered>>
    <3>1. UNCHANGED <<stream, azimuth, scan>>
      BY <1>3 DEF EndOfStream, Write, vars, driver
    <3>2. Write \/ UNCHANGED <<queue, written>>
      BY <1>3 DEF EndOfStream, vars
    <3>3. Delivered' = Delivered
      BY <3>2, DeliveredKept
    <3> QED
      BY <3>1, <3>3
  <2> QED
    BY <2>1 DEF SweepInv
<1> QED
  BY <1>1, <1>2, <1>3 DEF Next

(* No cloud shows an azimuth again after it went past it: not even the one  *)
(* flush() gets out by replaying packets of the first scan is more than one *)
(* turn of the sensor.                                                      *)
THEOREM CloudsAreOneTurn ==
  Spec => [](\A i \in DOMAIN Delivered : Sweeps(stream, Delivered[i].points))
<1>1. Init => SweepInv
  <2> SUFFICES ASSUME Init PROVE SweepInv
    OBVIOUS
  <2>1. scan = <<>> /\ Delivered = <<>>
    BY DEF Init, Delivered
  <2> QED
    BY <2>1 DEF SweepInv, Sweeps
<1>2. SweepInv => \A i \in DOMAIN Delivered : Sweeps(stream, Delivered[i].points)
  BY DEF SweepInv
<1>3. IInv /\ IInv' /\ SweepInv /\ [Next]_vars => SweepInv'
  BY SweepStep
<1> QED
  BY <1>1, <1>2, <1>3, Invariant, PTL DEF Spec

-----------------------------------------------------------------------------
(* Which clouds are one scan of the stream.                                 *)

Points(q) == {q[i] : i \in DOMAIN q}
Within(q) == \E k \in DOMAIN stream : Points(q) \subseteq Held(k)

(* The replay crosses the cut at its first packet.                          *)
StartsEarlier == stream # <<>> /\ stream[1].azimuth < stream[n].azimuth

ReplayInv == StartsEarlier =>
  /\ stage = "flush" => Points(scan) \subseteq Held(IF replay = 1 THEN n ELSE replay - 1)
  /\ stage = "end" /\ Len(Delivered) > Count => Within(Delivered[Len(Delivered)].points)

LEMMA HeldGoesOn ==
  ASSUME NEW k \in Nat, k > 1, ~StartsScan(k)
  PROVE  Held(k - 1) \subseteq Held(k)
<1> SUFFICES ASSUME NEW i \in Held(k - 1) PROVE i \in Held(k)
  OBVIOUS
<1>1. i \in 1..k - 1 /\ stream[i].hit /\ \A j \in i + 1..k - 1 : ~StartsScan(j)
  BY DEF Held
<1>2. i \in 1..k /\ i + 1..k = (i + 1..k - 1) \cup {k}
  BY <1>1
<1> QED
  BY <1>1, <1>2 DEF Held

LEMMA HeldOwn ==
  ASSUME NEW k \in Nat \ {0}, stream[k].hit
  PROVE  k \in Held(k)
BY DEF Held

LEMMA PointsAppended ==
  ASSUME NEW S, NEW q \in Seq(S), NEW x \in S
  PROVE  Points(Append(q, x)) = Points(q) \cup {x} /\ Points(<<>>) = {}
<1>1. /\ DOMAIN q = 1..Len(q) /\ DOMAIN Append(q, x) = 1..Len(q) + 1 /\ Len(q) \in Nat
      /\ Append(q, x)[Len(q) + 1] = x /\ \A i \in 1..Len(q) : Append(q, x)[i] = q[i]
  OBVIOUS
<1>2. 1..Len(q) + 1 = 1..Len(q) \cup {Len(q) + 1}
  BY <1>1
<1> QED
  BY <1>1, <1>2 DEF Points

LEMMA ReplayInvStep ==
  ASSUME IInv, IInv', ReplayInv, [Next]_vars
  PROVE  ReplayInv'
<1>1. ASSUME NEW p \in Packets, Feed(p) PROVE ReplayInv'
  <2>1. stage' = "feed"
    BY <1>1 DEF Feed
  <2> QED
    BY <2>1 DEF ReplayInv
<1>2. CASE EndOfStream
  <2>1. /\ stage = "feed" /\ UNCHANGED <<stream, scan, replay, queue, written>> /\ replay = 1
    BY <1>2 DEF EndOfStream, driver, IInv, Stages
  <2>2. Points(scan) = Held(n) /\ Len(Delivered) = Count
    BY <2>1 DEF IInv, Holds, Settled, InOrder, Points
  <2>3. /\ n' = n /\ Count' = Count /\ Delivered' = Delivered /\ Held(n)' = Held(n)
        /\ Points(scan)' = Points(scan) /\ Count \in Nat
    <3>1. n' = n /\ Count' = Count /\ \A k : Held(k)' = Held(k)
      BY <2>1, SameStream
    <3>2. Count \in Nat
      BY <2>2, DeliveredFacts DEF IInv
    <3>3. Held(n)' = Held(n)
      BY <2>1, <3>1 DEF Held, StartsScan
    <3> QED
      BY <2>1, <3>1, <3>2, <3>3 DEF Delivered, Points
  <2>4. stage' = "flush" => (Held(IF replay = 1 THEN n ELSE replay - 1))' = Held(n)
    BY <2>1, <2>3 DEF Held, StartsScan
  <2> QED
    BY <2>2, <2>3, <2>4 DEF ReplayInv
<1>3. CASE Replay
  <2>0. PICK r \in Nat : r = replay
    BY <1>3 DEF IInv, Stages, Replay
  <2>1. PICK p : p = stream[r]
    OBVIOUS
  <2>2. /\ stage = "flush" /\ r \in 1..Kept /\ r \in 1..n /\ n \in Nat /\ p \in Packets
        /\ DOMAIN stream = 1..n /\ UNCHANGED <<stream, written>>
        /\ replay' = r + 1 /\ scan \in Seq(1..n)
        /\ scan' = (IF Wraps(p) THEN <<>> ELSE scan) \o PointsOf(r, p)
    BY <1>3, <2>0, <2>1, ReplayFacts
  <2>3. n' = n /\ Count' = Count /\ \A k : Held(k)' = Held(k)
    BY <2>2, SameStream
  <2>4. SUFFICES ASSUME StartsEarlier
                 PROVE  /\ stage' = "flush" => Points(scan') \subseteq Held(r)
                        /\ stage' = "end" /\ Len(Delivered') > Count =>
                             \E k \in DOMAIN stream :
                               Points(Delivered'[Len(Delivered')].points) \subseteq Held(k)
    <3>1. StartsEarlier' <=> StartsEarlier
      BY <2>2, <2>3 DEF StartsEarlier
    <3>2. (IF replay = 1 THEN n ELSE replay - 1)' = r
      BY <2>2
    <3>3. (Held(IF replay = 1 THEN n ELSE replay - 1))' = Held(r)
      BY <2>2, <3>2 DEF Held, StartsScan
    <3>4. Within(Delivered[Len(Delivered)].points)' <=>
            \E k \in DOMAIN stream : Points(Delivered'[Len(Delivered')].points) \subseteq Held(k)
      BY <2>2, <2>3 DEF Within, Points
    <3>5. Points(scan)' = Points(scan')
      BY DEF Points
    <3> QED
      BY <2>3, <3>1, <3>3, <3>4, <3>5 DEF ReplayInv
  <2>5. PICK before \in 1..n : before = IF r = 1 THEN n ELSE r - 1
    BY <2>2
  <2>6. Points(scan) \subseteq Held(before)
    BY <2>0, <2>2, <2>4, <2>5 DEF ReplayInv
  <2>7. azimuth = stream[before].azimuth /\ azimuth # None /\ azimuth \in Nat /\ p.azimuth \in Nat
    <3>1. azimuth = stream[before].azimuth
      BY <2>0, <2>2, <2>5 DEF IInv, Holds
    <3>2. stream[before] \in Packets
      BY <2>2, <2>5 DEF IInv, Types
    <3> QED
      BY <2>2, <3>1, <3>2, ScanAssumption DEF Packets
  <2>8. r = 1 => Wraps(p)
    BY <2>1, <2>4, <2>5, <2>7 DEF Wraps, StartsEarlier
  <2>9. ~Wraps(p) => Held(before) \subseteq Held(r)
    <3>1. SUFFICES ASSUME ~Wraps(p) PROVE Held(before) \subseteq Held(r)
      OBVIOUS
    <3>2. r > 1 /\ before = r - 1 /\ ~StartsScan(r)
      BY <2>1, <2>2, <2>5, <2>7, <2>8, <3>1 DEF StartsScan, Wraps
    <3> QED
      BY <3>2, HeldGoesOn
  <2>10. Points(scan') \subseteq Held(r)
    <3>1. PICK b : b = IF Wraps(p) THEN <<>> ELSE scan
      OBVIOUS
    <3>2. b \in Seq(1..n) /\ Points(b) \subseteq Held(r)
      <4>1. CASE Wraps(p)
        <5>1. b = <<>> /\ <<>> \in Seq(1..n)
          BY <3>1, <4>1
        <5> QED
          BY <5>1 DEF Points
      <4>2. CASE ~Wraps(p)
        BY <2>2, <2>6, <2>9, <3>1, <4>2
      <4> QED
        BY <4>1, <4>2
    <3>3. CASE p.hit
      <4>1. scan' = Append(b, r)
        BY <2>2, <3>1, <3>2, <3>3 DEF PointsOf
      <4>2. r \in Held(r)
        BY <2>1, <2>2, <3>3, HeldOwn
      <4>3. Points(Append(b, r)) = Points(b) \cup {r}
        <5> DEFINE S == 1..n
        <5>1. b \in Seq(S) /\ r \in S
          BY <2>2, <3>2
        <5> HIDE DEF S
        <5> QED
          BY <5>1, PointsAppended
      <4>4. Points(scan') = Points(Append(b, r))
        BY <4>1
      <4> QED
        BY <3>2, <4>2, <4>3, <4>4
    <3>4. CASE ~p.hit
      <4>1. b \o <<>> = b
        BY <3>2
      <4> QED
        BY <2>2, <3>1, <3>2, <3>4, <4>1 DEF PointsOf
    <3> QED
      BY <3>3, <3>4
  <2>11. ASSUME stage' = "end", Len(Delivered') > Count
         PROVE  \E k \in DOMAIN stream : Points(Delivered'[Len(Delivered')].points) \subseteq Held(k)
    <3>1. PICK x : x = [points |-> scan, stamp |-> n, shared |-> FALSE]
      OBVIOUS
    <3>2. queue' = queue \/ queue' = Append(queue, x)
      BY <1>3, <2>0, <2>1, <3>1, ReplayOutcome
    <3>3. Len(Delivered) = Count /\ Count \in Nat
      BY <2>2, DeliveredFacts DEF IInv, Settled
    <3>4. queue' # queue
      BY <2>2, <2>11, <3>3 DEF Delivered
    <3>5. Delivered'[Len(Delivered')] = x
      <4>1. Len(Delivered') = Len(Delivered) + 1 /\ Delivered'[Len(Delivered) + 1] = x
        BY <2>2, <3>2, <3>4, OneMore DEF IInv
      <4> QED
        BY <4>1
    <3>6. x.points = scan /\ before \in DOMAIN stream
      BY <2>2, <3>1
    <3>7. Points(Delivered'[Len(Delivered')].points) \subseteq Held(before)
      BY <2>6, <3>5, <3>6
    <3> QED
      BY <3>6, <3>7
  <2> QED
    BY <2>10, <2>11
<1>4. CASE Write \/ UNCHANGED vars
  <2>1. UNCHANGED <<stream, scan, stage, replay, Delivered>>
    <3>1. UNCHANGED <<stream, scan, stage, replay>>
      BY <1>4 DEF Write, vars, driver
    <3>2. Write \/ UNCHANGED <<queue, written>>
      BY <1>4 DEF vars
    <3>3. Delivered' = Delivered
      BY <3>2, DeliveredKept
    <3> QED
      BY <3>1, <3>3
  <2>2. n' = n /\ Count' = Count /\ \A k : Held(k)' = Held(k)
    BY <2>1, SameStream
  <2>3. (Held(IF replay = 1 THEN n ELSE replay - 1))' = Held(IF replay = 1 THEN n ELSE replay - 1)
    BY <2>1, <2>2 DEF Held, StartsScan
  <2>4. /\ Within(Delivered[Len(Delivered)].points)' <=> Within(Delivered[Len(Delivered)].points)
        /\ Points(scan)' = Points(scan)
    BY <2>1, <2>2 DEF Within, Points
  <2> QED
    BY <2>1, <2>2, <2>3, <2>4 DEF ReplayInv, StartsEarlier
<1> QED
  BY <1>1, <1>2, <1>3, <1>4 DEF Next

(* Every cloud holds points of one scan of the stream, except possibly the  *)
(* one flush() adds; and that one, too, if the stream begins at an earlier  *)
(* azimuth than it ends at, so that the first packet replayed gets it out.  *)
THEOREM OneScanEach ==
  Spec => [](/\ \A i \in 1..Count : Within(Delivered[i].points)
             /\ StartsEarlier => EveryCloudIsAScan)
<1>1. Init => ReplayInv
  BY DEF Init, ReplayInv
<1>2. IInv => \A i \in 1..Count : Within(Delivered[i].points)
  <2> SUFFICES ASSUME IInv, NEW i \in 1..Count PROVE Within(Delivered[i].points)
    OBVIOUS
  <2>1. n \in Nat /\ DOMAIN stream = 1..n
    BY DEF IInv, Types, n
  <2>2. PICK s : s = Delivered[i].stamp
    OBVIOUS
  <2>3. s \in 1..n /\ s > 1
    BY <2>1, <2>2 DEF IInv, Settled, Due, Completes
  <2>4. s - 1 \in 1..n /\ s - 1 \in 0..n /\ s = s - 1 + 1
    BY <2>1, <2>3
  <2>5. InOrder(Delivered[i].points, Held(s - 1))
    BY <2>2, <2>4 DEF IInv, Settled
  <2> QED
    BY <2>1, <2>4, <2>5 DEF Within, Points, InOrder
<1>3. IInv /\ ReplayInv /\ StartsEarlier => EveryCloudIsAScan
  <2> SUFFICES ASSUME IInv, ReplayInv, StartsEarlier, NEW i \in DOMAIN Delivered
               PROVE  Within(Delivered[i].points)
    BY DEF EveryCloudIsAScan, Within, Points
  <2>1. DOMAIN Delivered = 1..Len(Delivered) /\ Len(Delivered) \in Nat
    BY DeliveredFacts DEF IInv
  <2>2. PICK C : C = Count
    OBVIOUS
  <2>3. C \in Nat
    <3>1. n \in Nat /\ Due \subseteq 1..n
      BY DEF IInv, Types, n, Due
    <3>2. IsFiniteSet(1..n)
      BY <3>1, FS_Interval
    <3> QED
      BY <2>2, <3>1, <3>2, FS_Subset, FS_CardinalityType DEF Count
  <2>4. CASE i \in 1..C
    BY <1>2, <2>2, <2>4
  <2>5. CASE i \notin 1..C
    <3>1. Len(Delivered) > C
      BY <2>1, <2>3, <2>5
    <3>2. stage = "end" /\ Len(Delivered) = C + 1
      <4>1. Len(Delivered) = C \/ Len(Delivered) = C + 1
        BY <2>2 DEF IInv, Settled, Ending
      <4>2. stage \in {"feed", "flush", "end"} /\ (stage # "end" => Len(Delivered) = C)
        BY <2>2 DEF IInv, Types, Settled
      <4> QED
        BY <2>3, <3>1, <4>1, <4>2
    <3>3. i = Len(Delivered)
      BY <2>1, <2>3, <2>5, <3>2
    <3> QED
      BY <2>2, <3>1, <3>2, <3>3 DEF ReplayInv
  <2> QED
    BY <2>4, <2>5
<1>4. IInv /\ IInv' /\ ReplayInv /\ [Next]_vars => ReplayInv'
  BY ReplayInvStep
<1> QED
  BY <1>1, <1>2, <1>3, <1>4, Invariant, PTL DEF Spec

=============================================================================
