------------------------------ MODULE ScanFlush ------------------------------
(***************************************************************************)
(* One topic's adapter (HesaiAdapter, VelodyneAdapter) between the packets *)
(* of a stream and the writer of the pipeline.  The driver behind it gives *)
(* a scan away only when a packet of the next one arrives, so the adapter  *)
(* keeps the packets up to the first scan and replays them at the end of   *)
(* the stream to get the last one out.                                     *)
(*                                                                         *)
(* The drivers are not part of this repository: what they do is what the   *)
(* adapters' comments and guards rely on.  A packet has an azimuth and     *)
(* either holds points or none (one without bytes changes nothing); a      *)
(* cloud is the sequence of the packets its points come from.  The two     *)
(* adapters are one here: Velodyne's has no deque, and Hesai's is empty    *)
(* between two calls; Hesai's callback swaps the points out already, as    *)
(* the worker does for both.                                               *)
(***************************************************************************)
EXTENDS FiniteSets, Naturals, Sequences

CONSTANTS
  Sectors,      (* azimuths: 0..Sectors - 1                                 *)
  MaxPackets,   (* bound: the length of the stream                          *)
  MinPoints,    (* Decoder's min_points, in packets that hold points        *)
  None

ASSUME ScanAssumption ==
  /\ Sectors \in Nat \ {0} /\ MaxPackets \in Nat /\ MinPoints \in Nat
  /\ None \notin Nat

Packets == [azimuth : 0..Sectors - 1, hit : BOOLEAN]

VARIABLES
  stream,                (* history: the packets fed                        *)
  azimuth, scan,         (* the driver: last azimuth, points it holds back  *)
  ready_clouds,          (* clouds the driver gave and feed() did not       *)
  first_scan_packets, first_scan_captured, last_feed_emitted,
  stage,                 (* feed, flush, end                                *)
  replay,                (* the packet flush() replays next                 *)
  queue,                 (* clouds on their way to the writer               *)
  written                (* clouds in the output                            *)

driver == <<azimuth, scan>>
adapter == <<ready_clouds, first_scan_packets, first_scan_captured, last_feed_emitted>>
vars == <<stream, driver, adapter, stage, replay, queue, written>>

Init ==
  /\ stream = <<>> /\ azimuth = None /\ scan = <<>>
  /\ ready_clouds = <<>> /\ first_scan_packets = <<>>
  /\ first_scan_captured = FALSE /\ last_feed_emitted = FALSE
  /\ stage = "feed" /\ replay = 1
  /\ queue = <<>> /\ written = <<>>

-----------------------------------------------------------------------------
(* A definition marked "variant" is a plausible mistake in the next one.    *)

(* The driver: a packet before the last one's azimuth starts a new scan.    *)
Wraps(p) == azimuth # None /\ p.azimuth < azimuth
PointsOf(n, p) == IF p.hit THEN <<n>> ELSE <<>>

(* The scan packet p completes, if it has points (an empty one is ignored). *)
Emitted(p) == IF Wraps(p) /\ scan # <<>> THEN <<scan>> ELSE <<>>

Drive(n, p) ==
  /\ azimuth' = p.azimuth
  /\ scan' = (IF Wraps(p) THEN <<>> ELSE scan) \o PointsOf(n, p)

(* push_cloud: the points are swapped into a cloud of the worker's own.     *)
(* variant: the queue gets the cloud the driver goes on using.              *)
SharedItem(cloud, stamp) == [points |-> cloud, stamp |-> stamp, shared |-> TRUE]
Item(cloud, stamp) == [points |-> cloud, stamp |-> stamp, shared |-> FALSE]

(* The driver fills the cloud it gave away again.                           *)
Reused(q) == [i \in DOMAIN q |-> IF q[i].shared THEN [q[i] EXCEPT !.points = scan'] ELSE q[i]]

(* Decoder's filter on what the adapter returned.                           *)
TooSmall(cloud) == Len(cloud) < MinPoints

Surface(clouds, stamp) ==
  queue' = Reused(queue) \o
    (IF clouds = <<>> \/ TooSmall(Head(clouds)) THEN <<>> ELSE <<Item(Head(clouds), stamp)>>)

(* feed() and flush() return the first cloud and keep the others.           *)
(* variant: the first one stays in the deque.                               *)
KeepFirst(clouds) == ready_clouds' = clouds
TakeFirst(clouds) == ready_clouds' = IF clouds = <<>> THEN <<>> ELSE Tail(clouds)

(* The packets to replay, once packet n was fed and gave clouds.            *)
(* variant: the packet that completes the scan is not kept.                 *)
CapturedBefore(n, clouds) ==
  IF first_scan_captured \/ clouds # <<>> THEN first_scan_packets
                                          ELSE Append(first_scan_packets, n)
Captured(n, clouds) ==
  IF first_scan_captured THEN first_scan_packets ELSE Append(first_scan_packets, n)

(* feed() of the adapter and of the Decoder around it.                      *)
Feed(p) ==
  /\ stage = "feed" /\ Len(stream) < MaxPackets
  /\ LET n == Len(stream) + 1
         clouds == ready_clouds \o Emitted(p)
     IN  /\ stream' = Append(stream, p)
         /\ Drive(n, p)
         /\ first_scan_packets' = Captured(n, clouds)
         /\ last_feed_emitted' = (Emitted(p) # <<>>)
         /\ first_scan_captured' = (first_scan_captured \/ clouds # <<>>)
         /\ TakeFirst(clouds)
         /\ Surface(clouds, n)
  /\ UNCHANGED <<stage, replay, written>>

(* Whether flush() has nothing to do.                                       *)
(* variant: the last packet is not looked at.                               *)
NothingCaptured == first_scan_packets = <<>>
SkipsFlush == first_scan_packets = <<>> \/ last_feed_emitted

EndOfStream ==
  /\ stage = "feed"
  /\ stage' = IF SkipsFlush THEN "end" ELSE "flush"
  /\ UNCHANGED <<stream, driver, adapter, replay, queue, written>>

(* flush(): one packet of the replay; the first cloud ends it.  It gets the *)
(* stamp of the last packet of the stream.                                  *)
Replay ==
  /\ stage = "flush"
  /\ LET n == first_scan_packets[replay]
         p == stream[n]
         clouds == ready_clouds \o Emitted(p)
     IN  /\ Drive(n, p)
         /\ TakeFirst(clouds)
         /\ Surface(clouds, Len(stream))
         /\ stage' = IF clouds # <<>> \/ replay = Len(first_scan_packets)
                     THEN "end" ELSE "flush"
  /\ replay' = replay + 1
  /\ UNCHANGED <<stream, first_scan_packets, first_scan_captured, last_feed_emitted, written>>

(* The writer thread takes a cloud from the queue.                          *)
Write ==
  /\ queue # <<>>
  /\ written' = Append(written, Head(queue)) /\ queue' = Tail(queue)
  /\ UNCHANGED <<stream, driver, adapter, stage, replay>>

Next == (\E p \in Packets : Feed(p)) \/ EndOfStream \/ Replay \/ Write

Spec == Init /\ [][Next]_vars

-----------------------------------------------------------------------------
(* What the stream owes the output, told from the stream alone.             *)

StartsScan(k) == k = 1 \/ stream[k].azimuth < stream[k - 1].azimuth

(* The packets with points of the scan under way after packet k.            *)
Held(k) == {i \in 1..k : stream[i].hit /\ \A j \in i + 1..k : ~StartsScan(j)}

Completes(k) == k > 1 /\ StartsScan(k) /\ Held(k - 1) # {}
Due == {k \in DOMAIN stream : Completes(k) /\ Cardinality(Held(k - 1)) >= MinPoints}

(* A sequence lists a set of numbers in order.                              *)
InOrder(q, S) ==
  /\ {q[i] : i \in DOMAIN q} = S
  /\ \A i, j \in DOMAIN q : i < j => q[i] < q[j]

Delivered == written \o queue

(* Properties.                                                              *)

(* Every variable keeps its type; feed() leaves no cloud behind.            *)
TypeOK ==
  /\ stream \in Seq(Packets) /\ Len(stream) <= MaxPackets
  /\ azimuth \in 0..Sectors - 1 \cup {None} /\ scan \in Seq(DOMAIN stream)
  /\ ready_clouds = <<>>
  /\ first_scan_packets \in Seq(DOMAIN stream)
  /\ first_scan_captured \in BOOLEAN /\ last_feed_emitted \in BOOLEAN
  /\ stage \in {"feed", "flush", "end"} /\ replay \in 1..MaxPackets + 1
  /\ \A i \in DOMAIN Delivered :
       Delivered[i].points \in Seq(DOMAIN stream) /\ Delivered[i].stamp \in DOMAIN stream

(* Every completed scan that is large enough reaches the output, whole, in  *)
(* order, with the stamp of the packet that completed it, and unchanged     *)
(* however late the writer gets to it (push_cloud: "must not alias storage  *)
(* the driver will mutate later").                                          *)
CompletedScansAreDelivered ==
  LET n == Cardinality(Due)
  IN  /\ n <= Len(Delivered) /\ (stage # "end" => n = Len(Delivered))
      /\ InOrder([i \in 1..n |-> Delivered[i].stamp], Due)
      /\ \A i \in 1..n : InOrder(Delivered[i].points, Held(Delivered[i].stamp - 1))

(* Once the stream has completed a scan, flush() gets the last one out:     *)
(* "feeding them again guarantees the trailing buffer is emitted".  Replayed*)
(* points may follow its own.                                               *)
TrailingScanSurvives ==
  LET size == Cardinality(Held(Len(stream)))
  IN  stage = "end" /\ (\E k \in DOMAIN stream : Completes(k)) /\ ~Completes(Len(stream))
        /\ size > 0 /\ size >= MinPoints =>
      /\ Len(Delivered) = Cardinality(Due) + 1
      /\ LET last == Delivered[Len(Delivered)]
         IN  /\ InOrder(SubSeq(last.points, 1, size), Held(Len(stream)))
             /\ last.stamp = Len(stream)

(* A stream that ends with the packet that completed a scan gets no further *)
(* cloud: flush() would "synthesise a spurious cloud".                      *)
NoSpuriousScan ==
  stage = "end" /\ stream # <<>> /\ Completes(Len(stream)) =>
    Len(Delivered) = Cardinality(Due)

(* flush() "returns the last scan that would otherwise remain inside the    *)
(* driver" (Decoder): every cloud holds points of one scan of the stream.   *)
EveryCloudIsAScan ==
  \A i \in DOMAIN Delivered : \E k \in DOMAIN stream :
    {Delivered[i].points[j] : j \in DOMAIN Delivered[i].points} \subseteq Held(k)
=============================================================================
