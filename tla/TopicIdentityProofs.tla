------------------------- MODULE TopicIdentityProofs -------------------------
(***************************************************************************)
(* The identity of a topic, for every vendor and model table, every set of *)
(* calibrations, and topics of any length.  Two facts carry the rest: what *)
(* a LiDAR's packets showed first is what both searches hold (Searching),  *)
(* and inspect() and convert() see the same first message (SameStart).     *)
(***************************************************************************)
EXTENDS TopicIdentity, TLAPS

Input ==
  /\ type \in PacketTypes /\ calibrated \in Machines
  /\ topic \in UpToLength(UpToLength(Packets, MaxPackets), MaxMessages) \ {<<>>}

Places ==
  /\ stage \in {"inspect", "convert", "end"}
  /\ msg \in 1..MaxMessages + 1 /\ pkt \in 1..MaxPackets + 1
  /\ stage = "inspect" => msg = 1

Values ==
  /\ sniffed \in Identities \cup {None} /\ identity \in Identities \cup {None}
  /\ adapter # None => adapter \in Resolved /\ IsReady(adapter)
  /\ locked \in BOOLEAN
  /\ verdict \in Identities \cup {None} /\ first \in Resolved \cup {None}

(* Before a LiDAR shows a model nothing ends the search; from then on both  *)
(* identities are that one, and the search is over.                         *)
LidarStream == hint \in Lidars \cup {Unknown}

Searching ==
  LidarStream =>
    IF first = None
    THEN ~HasModel(sniffed) /\ ~HasModel(identity) /\ adapter = None /\ ~locked
    ELSE sniffed = first /\ identity = first /\ adapter = MakeAdapter(first) /\ locked

(* Packet k of the first message is the first one to show a model.          *)
ShowsFirst(k) ==
  /\ k \in 1..Len(topic[1]) /\ HasModel(Identify(topic[1][k]))
  /\ \A j \in 1..k - 1 : ~HasModel(Identify(topic[1][j]))

SeenSoFar ==
  stage # "end" /\ msg = 1 =>
    IF first = None THEN \A j \in 1..pkt - 1 : ~HasModel(Identify(topic[1][j]))
    ELSE \E k \in 1..pkt - 1 : ShowsFirst(k) /\ first = Identify(topic[1][k])

SameStart ==
  /\ verdict \in Supported => LidarStream
  /\ stage = "convert" =>
       /\ verdict \in Supported
       /\ \E k \in 1..Len(topic[1]) : ShowsFirst(k) /\ verdict = Identify(topic[1][k])
       /\ msg > 1 => first = verdict
  /\ stage = "end" /\ verdict \in Supported => first = verdict

IInv == Input /\ Places /\ Values /\ HintHolds /\ Searching /\ SeenSoFar /\ SameStart

-----------------------------------------------------------------------------
(* Facts about the definitions.                                             *)

LEMMA BoundedSequence ==
  ASSUME NEW S, NEW n \in Nat, NEW s \in UpToLength(S, n)
  PROVE  Len(s) \in 0..n /\ \A k \in 1..Len(s) : s[k] \in S
<1>1. PICK k \in 0..n : s \in [1..k -> S]
  BY DEF UpToLength
<1>2. Len(s) = k
  BY <1>1
<1> QED
  BY <1>1, <1>2

LEMMA PacketsOfTopic ==
  ASSUME Input
  PROVE  /\ Len(topic) \in 1..MaxMessages
         /\ \A m \in 1..Len(topic) :
              /\ Len(topic[m]) \in 0..MaxPackets
              /\ \A k \in 1..Len(topic[m]) : topic[m][k] \in Packets
<1> DEFINE Message == UpToLength(Packets, MaxPackets)
<1>1. topic \in UpToLength(Message, MaxMessages) /\ topic # <<>>
  BY DEF Input
<1>2. Len(topic) \in 0..MaxMessages /\ \A m \in 1..Len(topic) : topic[m] \in Message
  BY <1>1, BoundedSequence, IdentityAssumption
<1>3. Len(topic) # 0
  <2>1. PICK k \in 0..MaxMessages : topic \in [1..k -> Message]
    BY <1>1 DEF UpToLength
  <2>2. Len(topic) = k
    BY <2>1
  <2>3. k # 0
    BY <1>1, <2>1
  <2> QED
    BY <2>2, <2>3
<1> QED
  BY <1>2, <1>3, BoundedSequence, IdentityAssumption

LEMMA HintValues ==
  ASSUME Input
  PROVE  hint \in Vendors \cup {Unknown}
BY IdentityAssumption DEF Input, PacketTypes, hint, VendorFromMessageType, Lidars

LEMMA IdentifyValues ==
  ASSUME Input, NEW p \in Packets
  PROVE  /\ Identify(p) \in Identities \cup {None}
         /\ hint # Unknown /\ Identify(p) # None => Identify(p).vendor = hint
         /\ HasModel(Identify(p)) => Identify(p) \in Resolved
         /\ LidarStream /\ Identify(p) # None => Identify(p).vendor \in Lidars \/ HasModel(Identify(p))
<1>1. hint \in Vendors \cup {Unknown}
  BY HintValues
<1>2. p \in Resolved \/ (p \in Unresolved /\ p.vendor \in Lidars) \/ p = Garbage \/ p = Empty
  BY DEF Packets
<1>3. CASE p \in {Garbage, Empty}
  BY <1>1, <1>3, IdentityAssumption DEF Identify, HasModel, Identities, Unresolved, LidarStream
<1>4. CASE p \in Resolved
  <2>1. p.vendor \in Vendors /\ p.model \in Models[p.vendor] /\ p \in Identities /\ p # None
    BY <1>4, IdentityAssumption DEF Resolved, Identities
  <2> QED
    BY <1>1, <1>4, <2>1, IdentityAssumption DEF Identify, HasModel, Identities, Unresolved, LidarStream
<1>5. CASE p \in Unresolved /\ p.vendor \in Lidars
  <2>1. p \in Identities /\ p # None /\ p.model = Unknown
    BY <1>5, IdentityAssumption DEF Unresolved, Identities
  <2> QED
    BY <1>1, <1>5, <2>1, IdentityAssumption DEF Identify, HasModel, Identities, Unresolved, LidarStream
<1> QED
  BY <1>2, <1>3, <1>4, <1>5

LEMMA SupportedHasModel ==
  ASSUME NEW i \in Supported
  PROVE  i \in Resolved /\ i # None /\ HasModel(i) /\ i.vendor \in Lidars
<1>1. i \in Resolved /\ i.vendor \in Lidars
  BY IdentityAssumption
<1>2. i # None /\ i.model # Unknown
  BY <1>1, IdentityAssumption DEF Resolved, Identities
<1> QED
  BY <1>1, <1>2 DEF HasModel

(* What a packet means does not change while the topic is read.             *)
SameStream == UNCHANGED <<type, calibrated, topic>>

LEMMA SameMeaning ==
  ASSUME SameStream
  PROVE  /\ hint' = hint
         /\ \A p : Identify(p)' = Identify(p)
         /\ \A i : IsReady(i)' = IsReady(i) /\ MakeAdapter(i)' = MakeAdapter(i)
<1>1. hint' = hint
  BY DEF SameStream, hint
<1>2. \A p : Identify(p)' = Identify(p)
  BY <1>1 DEF Identify
<1>3. \A i : IsReady(i)' = IsReady(i)
  BY DEF SameStream, IsReady, Calibrated, HasModel
<1>4. \A i : MakeAdapter(i)' = MakeAdapter(i)
  BY <1>3 DEF MakeAdapter
<1> QED
  BY <1>1, <1>2, <1>3, <1>4

LEMMA SameFirst ==
  ASSUME SameStream, NEW k
  PROVE  ShowsFirst(k)' = ShowsFirst(k) /\ Identify(topic[1][k])' = Identify(topic[1][k])
<1>1. topic' = topic /\ \A p : Identify(p)' = Identify(p)
  BY SameMeaning DEF SameStream
<1> QED
  BY <1>1 DEF ShowsFirst, HasModel

(* Only one packet shows a model first.                                     *)
LEMMA OneShowsFirst ==
  ASSUME NEW j \in Nat, NEW k \in Nat, ShowsFirst(j), ShowsFirst(k)
  PROVE  j = k
BY DEF ShowsFirst

(* Init.                                                                    *)
LEMMA InitInvariant == Init => IInv
<1> SUFFICES ASSUME Init PROVE IInv
  OBVIOUS
<1>1. Input
  BY DEF Init, Input
<1>2. Places
  BY IdentityAssumption DEF Init, Places
<1>3. Values /\ HintHolds /\ Searching
  BY DEF Init, Values, HintHolds, Searching, HasModel
<1>4. SeenSoFar /\ SameStart
  BY SupportedHasModel DEF Init, SeenSoFar, SameStart
<1> QED
  BY <1>1, <1>2, <1>3, <1>4 DEF IInv

-----------------------------------------------------------------------------
(* One packet.                                                              *)

LEMMA FedPacket ==
  ASSUME IInv, FeedPacket
  PROVE  msg \in 1..Len(topic) /\ pkt \in 1..Len(topic[msg]) /\ topic[msg][pkt] \in Packets
BY PacketsOfTopic DEF IInv, Places, FeedPacket

LEMMA FeedInput ==
  ASSUME IInv, FeedPacket
  PROVE  SameStream /\ Input' /\ Places'
<1>1. SameStream
  BY DEF FeedPacket, SameStream
<1>2. Len(topic[msg]) \in 0..MaxPackets
  BY PacketsOfTopic, FedPacket DEF IInv
<1>3. pkt' \in 1..MaxPackets + 1
  BY <1>2, FedPacket, IdentityAssumption DEF FeedPacket
<1> QED
  BY <1>1, <1>3 DEF SameStream, IInv, Input, Places, FeedPacket

LEMMA FeedValues ==
  ASSUME IInv, FeedPacket
  PROVE  Values' /\ HintHolds'
<1> DEFINE p == topic[msg][pkt]
           i == Identify(p)
<1>1. /\ i \in Identities \cup {None}
      /\ hint # Unknown /\ i # None => i.vendor = hint
      /\ HasModel(i) => i \in Resolved
  BY FedPacket, IdentifyValues DEF IInv
<1>2. SameStream /\ hint' = hint /\ \A j : IsReady(j)' = IsReady(j)
  BY FeedInput, SameMeaning
<1> DEFINE Same == identity' = identity /\ adapter' = adapter /\ locked' = locked
           New  == i # None /\ identity' = i /\ adapter' = MakeAdapter(i) /\ locked' = Locks(i)
<1>3. Same \/ New
  BY DEF FeedPacket, DecoderFeeds
<1>4. identity' \in {identity, i} /\ sniffed' \in {identity', sniffed, i}
  BY <1>3 DEF FeedPacket, Improved
<1>5. locked' \in BOOLEAN
  BY <1>3 DEF IInv, Values, Locks
<1>6. adapter' # None => adapter' \in Resolved /\ IsReady(adapter')
  BY <1>1, <1>3 DEF IInv, Values, MakeAdapter, IsReady
<1>7. first' \in Resolved \cup {None} /\ verdict' = verdict
  BY <1>1 DEF FeedPacket, IInv, Values
<1>8. Values'
  BY <1>1, <1>2, <1>4, <1>5, <1>6, <1>7 DEF IInv, Values
<1>9. HintHolds'
  BY <1>1, <1>2, <1>4 DEF IInv, HintHolds
<1> QED
  BY <1>8, <1>9

LEMMA FeedSearching ==
  ASSUME IInv, FeedPacket
  PROVE  Searching'
<1> DEFINE p == topic[msg][pkt]
           i == Identify(p)
<1>1. SameStream /\ hint' = hint /\ \A j : MakeAdapter(j)' = MakeAdapter(j)
  BY FeedInput, SameMeaning
<1> SUFFICES ASSUME LidarStream
             PROVE  IF first' = None
                    THEN ~HasModel(sniffed') /\ ~HasModel(identity') /\ adapter' = None /\ ~locked'
                    ELSE sniffed' = first' /\ identity' = first' /\ adapter' = MakeAdapter(first') /\ locked'
  BY <1>1 DEF Searching, LidarStream, HasModel
<1>2. i # None => i.vendor \in Lidars \/ HasModel(i)
  BY FedPacket, IdentifyValues DEF IInv
<1>3. CASE first # None
  BY <1>3 DEF IInv, Searching, FeedPacket, DecoderFeeds, Looks
<1>4. CASE first = None /\ HasModel(i)
  <2>1. Looks /\ i # None
    BY <1>4 DEF IInv, Searching, Looks, HasModel
  <2>2. identity' = i /\ adapter' = MakeAdapter(i) /\ locked'
    BY <1>4, <2>1 DEF FeedPacket, DecoderFeeds, Locks
  <2> QED
    BY <1>4, <2>1, <2>2 DEF FeedPacket
<1>5. CASE first = None /\ ~HasModel(i)
  <2>1. first' = None
    BY <1>5 DEF FeedPacket
  <2>2. CASE i = None
    <3>1. identity' = identity /\ adapter' = None /\ ~locked' /\ sniffed' \in {identity, sniffed}
      BY <1>5, <2>2 DEF IInv, Searching, FeedPacket, DecoderFeeds, Improved
    <3> QED
      BY <1>5, <2>1, <3>1 DEF IInv, Searching
  <2>3. CASE i # None
    <3>1. Looks
      BY <1>5 DEF IInv, Searching, Looks
    <3>2. MakeAdapter(i) = None /\ ~Locks(i)
      BY <1>2, <1>5, <2>3 DEF MakeAdapter, IsReady, Locks
    <3>3. identity' = i /\ adapter' = None /\ ~locked' /\ sniffed' = i
      BY <2>3, <3>1, <3>2 DEF FeedPacket, DecoderFeeds
    <3> QED
      BY <1>5, <2>1, <3>3
  <2> QED
    BY <2>2, <2>3
<1> QED
  BY <1>3, <1>4, <1>5

LEMMA FeedSeen ==
  ASSUME IInv, FeedPacket
  PROVE  SeenSoFar'
<1>1. SameStream /\ \A k : ShowsFirst(k)' = ShowsFirst(k) /\ Identify(topic[1][k])' = Identify(topic[1][k])
  BY FeedInput, SameFirst
<1> SUFFICES ASSUME msg = 1
             PROVE  IF first' = None THEN \A j \in 1..pkt : ~HasModel(Identify(topic[1][j]))
                    ELSE \E k \in 1..pkt : ShowsFirst(k) /\ first' = Identify(topic[1][k])
  <2>1. pkt' = pkt + 1 /\ msg' = msg /\ pkt \in Nat
    BY FedPacket DEF FeedPacket
  <2> QED
    BY <1>1, <2>1 DEF SeenSoFar, HasModel
<1>2. pkt \in 1..Len(topic[1]) /\ stage # "end"
  BY FedPacket DEF FeedPacket
<1> DEFINE i == Identify(topic[1][pkt])
<1>3. first' = IF first = None /\ HasModel(i) THEN i ELSE first
  BY DEF FeedPacket
<1>4. CASE first # None
  BY <1>2, <1>3, <1>4 DEF IInv, SeenSoFar
<1>5. CASE first = None /\ HasModel(i)
  <2>1. ShowsFirst(pkt)
    BY <1>2, <1>5 DEF IInv, SeenSoFar, ShowsFirst
  <2>2. first' = i /\ i # None
    BY <1>3, <1>5 DEF HasModel
  <2> QED
    BY <1>2, <2>1, <2>2
<1>6. CASE first = None /\ ~HasModel(i)
  BY <1>2, <1>3, <1>6 DEF IInv, SeenSoFar
<1> QED
  BY <1>4, <1>5, <1>6

LEMMA FeedStart ==
  ASSUME IInv, FeedPacket
  PROVE  SameStart'
<1>1. /\ \A k : ShowsFirst(k)' = ShowsFirst(k) /\ Identify(topic[1][k])' = Identify(topic[1][k])
      /\ LidarStream' = LidarStream /\ topic' = topic
  BY FeedInput, SameFirst, SameMeaning DEF LidarStream, SameStream
<1>2. stage' = stage /\ msg' = msg /\ verdict' = verdict /\ stage # "end"
  BY DEF FeedPacket
<1>3. stage = "convert" /\ msg > 1 => first' = verdict
  BY SupportedHasModel DEF IInv, SameStart, FeedPacket
<1> QED
  BY <1>1, <1>2, <1>3 DEF IInv, SameStart

-----------------------------------------------------------------------------
(* The other steps.                                                         *)

LEMMA NextMessageKeeps ==
  ASSUME IInv, NextMessage
  PROVE  IInv'
<1>1. /\ SameStream /\ hint' = hint /\ LidarStream' = LidarStream
      /\ \A i : IsReady(i)' = IsReady(i) /\ MakeAdapter(i)' = MakeAdapter(i)
      /\ \A k : ShowsFirst(k)' = ShowsFirst(k) /\ Identify(topic[1][k])' = Identify(topic[1][k])
  <2>1. SameStream
    BY DEF NextMessage, SameStream
  <2> QED
    BY <2>1, SameMeaning, SameFirst DEF LidarStream
<1>2. msg \in 1..Len(topic) /\ Len(topic) \in 1..MaxMessages /\ pkt > Len(topic[msg])
  BY PacketsOfTopic DEF IInv, Places, NextMessage
<1>3. Input' /\ Places'
  BY <1>1, <1>2, IdentityAssumption DEF SameStream, IInv, Input, Places, NextMessage
<1>4. Values' /\ HintHolds' /\ Searching'
  BY <1>1 DEF IInv, Values, HintHolds, Searching, NextMessage, state, HasModel
<1>5. SeenSoFar'
  BY <1>2 DEF SeenSoFar, NextMessage
<1>6. first = verdict
  <2>1. CASE msg > 1
    BY <2>1 DEF IInv, SameStart, NextMessage
  <2>2. CASE msg = 1
    <3>1. PICK k \in 1..Len(topic[1]) : ShowsFirst(k) /\ verdict = Identify(topic[1][k])
      BY DEF IInv, SameStart, NextMessage
    <3>2. k \in 1..pkt - 1 /\ HasModel(Identify(topic[1][k]))
      BY <1>2, <2>2, <3>1, PacketsOfTopic DEF ShowsFirst, IInv, Places
    <3>3. first # None
      BY <2>2, <3>2 DEF IInv, SeenSoFar, NextMessage
    <3>4. PICK j \in 1..pkt - 1 : ShowsFirst(j) /\ first = Identify(topic[1][j])
      BY <2>2, <3>3 DEF IInv, SeenSoFar, NextMessage
    <3>5. j = k
      BY <3>1, <3>4, OneShowsFirst
    <3> QED
      BY <3>1, <3>4, <3>5
  <2> QED
    BY <1>2, <2>1, <2>2
<1>7. SameStart'
  BY <1>1, <1>6 DEF SameStream, IInv, SameStart, NextMessage, state
<1> QED
  BY <1>3, <1>4, <1>5, <1>7 DEF IInv

LEMMA DecideKeeps ==
  ASSUME IInv, Decide
  PROVE  IInv'
<1>1. /\ SameStream /\ hint' = hint /\ LidarStream' = LidarStream
      /\ \A i : IsReady(i)' = IsReady(i) /\ MakeAdapter(i)' = MakeAdapter(i)
      /\ \A k : ShowsFirst(k)' = ShowsFirst(k) /\ Identify(topic[1][k])' = Identify(topic[1][k])
  <2>1. SameStream
    BY DEF Decide, SameStream
  <2> QED
    BY <2>1, SameMeaning, SameFirst DEF LidarStream
<1>2. msg = 1 /\ verdict' = sniffed /\ pkt > Len(topic[1])
  BY DEF IInv, Places, Decide, FirstMessageFed
<1>3. Input' /\ Places'
  BY <1>1, <1>2, IdentityAssumption DEF SameStream, IInv, Input, Places, Decide
<1>4. CASE sniffed \notin Supported
  <2>1. stage' = "end" /\ UNCHANGED state
    BY <1>4 DEF Decide
  <2>2. Values' /\ HintHolds' /\ Searching'
    BY <1>1, <1>2, <2>1 DEF IInv, Values, HintHolds, Searching, state, HasModel
  <2>3. SeenSoFar' /\ SameStart'
    BY <1>2, <1>4, <2>1 DEF SeenSoFar, SameStart
  <2> QED
    BY <1>3, <2>2, <2>3 DEF IInv
<1>5. CASE sniffed \in Supported
  <2>1. stage' = "convert" /\ msg' = 1 /\ pkt' = 1 /\ Fresh
    BY <1>5 DEF Decide
  <2>2. sniffed # None /\ HasModel(sniffed) /\ sniffed.vendor \in Lidars
    BY <1>5, SupportedHasModel
  <2>3. LidarStream
    BY <2>2 DEF IInv, HintHolds, LidarStream
  <2>4. first # None /\ sniffed = first
    BY <2>2, <2>3 DEF IInv, Searching
  <2>5. PICK k \in 1..pkt - 1 : ShowsFirst(k) /\ first = Identify(topic[1][k])
    BY <1>2, <2>4 DEF IInv, SeenSoFar, Decide, FirstMessageFed
  <2>6. k \in 1..Len(topic[1])
    BY <2>5 DEF ShowsFirst
  <2>7. Values' /\ HintHolds' /\ Searching'
    BY <1>2, <2>1, <2>2 DEF IInv, Values, HintHolds, Searching, Fresh, HasModel
  <2>8. SeenSoFar'
    BY <2>1 DEF SeenSoFar, Fresh
  <2>9. SameStart'
    BY <1>1, <1>2, <1>5, <2>1, <2>3, <2>4, <2>5, <2>6 DEF SameStream, SameStart
  <2> QED
    BY <1>3, <2>7, <2>8, <2>9 DEF IInv
<1> QED
  BY <1>4, <1>5

LEMMA FinishKeeps ==
  ASSUME IInv, Finish
  PROVE  IInv'
<1>1. /\ SameStream /\ hint' = hint /\ LidarStream' = LidarStream
      /\ \A i : IsReady(i)' = IsReady(i) /\ MakeAdapter(i)' = MakeAdapter(i)
  <2>1. SameStream
    BY DEF Finish, SameStream
  <2> QED
    BY <2>1, SameMeaning DEF LidarStream
<1>2. msg > 1
  BY PacketsOfTopic DEF IInv, Places, Finish
<1>3. Input' /\ Places'
  BY <1>1 DEF SameStream, IInv, Input, Places, Finish
<1>4. Values' /\ HintHolds' /\ Searching'
  BY <1>1 DEF IInv, Values, HintHolds, Searching, Finish, state, HasModel
<1>5. SeenSoFar' /\ SameStart'
  BY <1>1, <1>2 DEF IInv, SeenSoFar, SameStart, Finish, state
<1> QED
  BY <1>3, <1>4, <1>5 DEF IInv

LEMMA StutterKeeps ==
  ASSUME IInv, UNCHANGED vars
  PROVE  IInv'
<1>1. SameStream /\ UNCHANGED <<verdict, stage, msg, pkt, state>>
  BY DEF vars, place, SameStream
<1>2. /\ hint' = hint /\ LidarStream' = LidarStream
      /\ \A i : IsReady(i)' = IsReady(i) /\ MakeAdapter(i)' = MakeAdapter(i)
      /\ \A k : ShowsFirst(k)' = ShowsFirst(k) /\ Identify(topic[1][k])' = Identify(topic[1][k])
  BY <1>1, SameMeaning, SameFirst DEF LidarStream
<1>3. Input' /\ Places'
  BY <1>1 DEF SameStream, IInv, Input, Places
<1>4. Values' /\ HintHolds' /\ Searching'
  BY <1>1, <1>2 DEF IInv, Values, HintHolds, Searching, state, HasModel
<1>5. SeenSoFar' /\ SameStart'
  BY <1>1, <1>2 DEF SameStream, IInv, SeenSoFar, SameStart, state, HasModel
<1> QED
  BY <1>3, <1>4, <1>5 DEF IInv

LEMMA NextInvariant == IInv /\ [Next]_vars => IInv'
<1> SUFFICES ASSUME IInv, [Next]_vars PROVE IInv'
  OBVIOUS
<1>1. CASE FeedPacket
  BY <1>1, FeedInput, FeedValues, FeedSearching, FeedSeen, FeedStart DEF IInv
<1>2. CASE NextMessage
  BY <1>2, NextMessageKeeps
<1>3. CASE Decide
  BY <1>3, DecideKeeps
<1>4. CASE Finish
  BY <1>4, FinishKeeps
<1>5. CASE UNCHANGED vars
  BY <1>5, StutterKeeps
<1> QED
  BY <1>1, <1>2, <1>3, <1>4, <1>5 DEF Next

LEMMA Invariant == Spec => []IInv
BY InitInvariant, NextInvariant, PTL DEF Spec

-----------------------------------------------------------------------------
(* The two searches hold values of their types, and an adapter exists only  *)
(* for a model whose calibration is loaded, whatever the topic holds.       *)
THEOREM IdentityTypes == Spec => []TypeOK
<1>1. IInv => TypeOK
  BY DEF IInv, Input, Places, Values, TypeOK
<1> QED
  BY <1>1, Invariant, PTL

(* The first model a LiDAR's packets show is the one feed_packet reports,   *)
(* whatever comes before it and after it.                                   *)
THEOREM FirstModelStays == Spec => []FirstModelIsReported
<1>1. IInv => FirstModelIsReported
  BY DEF IInv, Searching, LidarStream, FirstModelIsReported
<1> QED
  BY <1>1, Invariant, PTL

(* A vendor the message type names is the vendor of every identity found.   *)
THEOREM HintIsObeyed == Spec => []HintHolds
<1>1. IInv => HintHolds
  BY DEF IInv
<1> QED
  BY <1>1, Invariant, PTL

(* What inspect() decides on is what convert() finds in the same first      *)
(* message, and no later packet of the topic changes it.                    *)
THEOREM InspectionIsKept == Spec => []InspectionHolds
<1>1. IInv => InspectionHolds
  <2> SUFFICES ASSUME IInv, verdict \in Supported, stage = "end" \/ msg > 1
               PROVE  sniffed = verdict /\ adapter = MakeAdapter(verdict)
    BY DEF InspectionHolds
  <2>1. LidarStream /\ first = verdict
    BY DEF IInv, SameStart, Places
  <2>2. first # None
    BY <2>1, SupportedHasModel
  <2> QED
    BY <2>1, <2>2 DEF IInv, Searching
<1> QED
  BY <1>1, Invariant, PTL
=============================================================================
