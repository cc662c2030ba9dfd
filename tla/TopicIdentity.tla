---------------------------- MODULE TopicIdentity ----------------------------
(***************************************************************************)
(* Which sensor a topic carries.  Two places look at every packet: the bag *)
(* layer's feed_packet, which keeps the identity it will report, and the   *)
(* Decoder, which builds an adapter from the first identity it can use and *)
(* stops looking.  inspect() does this for a topic's first message, the    *)
(* support registry decides, and convert() starts again on all of them.    *)
(*                                                                         *)
(* A packet is what the detectors make of it: an identity whose model may  *)
(* be Unknown, Garbage when no detector matches, Empty when it has no      *)
(* bytes.  The first message is the same one for inspect() and convert():  *)
(* the SQLite inspection takes the smallest row id, which rosbag2 gives to *)
(* the earliest message.                                                   *)
(***************************************************************************)
EXTENDS Naturals, Sequences

CONSTANTS
  Models,       (* vendor -> the models its detector can tell apart          *)
  Machines,     (* sets of models whose calibration file is there and loads  *)
  Supported,    (* the identities SupportRegistry accepts                    *)
  MaxMessages, MaxPackets,   (* bounds: messages, packets of one message     *)
  Unknown, None, Garbage, Empty

Vendors == DOMAIN Models
Resolved == UNION {{[vendor |-> v, model |-> m] : m \in Models[v]} : v \in Vendors}
Unresolved == {[vendor |-> v, model |-> Unknown] : v \in Vendors}
Identities == Resolved \cup Unresolved

(* Only the mechanical LiDARs' detectors recognise a vendor without a model *)
(* and only their adapters exist.                                           *)
Lidars == {"hesai", "velodyne"}
Packets == Resolved \cup {i \in Unresolved : i.vendor \in Lidars} \cup {Garbage, Empty}

(* vendor_from_message_type, for the types make_packet_source accepts: the  *)
(* generic container leaves it to the packets.                              *)
VendorFromMessageType ==
  [PandarScan |-> "hesai", VelodyneScan |-> "velodyne", RobosenseScan |-> "robosense",
   NebulaPackets |-> Unknown]
PacketTypes == DOMAIN VendorFromMessageType

ASSUME IdentityAssumption ==
  /\ Lidars \cup {"robosense"} \subseteq Vendors /\ Unknown \notin Vendors
  /\ \A v \in Vendors : Unknown \notin Models[v]
  /\ {None, Garbage, Empty} \cap Identities = {}
  /\ Supported \subseteq Resolved /\ \A i \in Supported : i.vendor \in Lidars
  /\ MaxMessages \in Nat \ {0} /\ MaxPackets \in Nat

VARIABLES
  type,       (* the topic's message type                                     *)
  calibrated, (* the models this machine has a calibration for                *)
  topic,      (* the topic's messages, each a sequence of packets             *)
  stage,      (* inspect, convert, end                                        *)
  msg, pkt,   (* the packet that comes next                                   *)
  sniffed,    (* state.sniffed_identity                                       *)
  identity,   (* the Decoder's identity                                       *)
  adapter,    (* the identity the Decoder's adapter was built for, or None    *)
  locked,     (* identity_locked                                              *)
  verdict,    (* the identity inspect() reported                              *)
  first       (* history: the first model any packet of this stage showed     *)

place == <<stage, msg, pkt>>
state == <<sniffed, identity, adapter, locked, first>>
vars == <<type, calibrated, topic, verdict, place, state>>

UpToLength(S, n) == UNION {[1..k -> S] : k \in 0..n}

Fresh ==
  /\ sniffed' = None /\ identity' = None /\ adapter' = None
  /\ locked' = FALSE /\ first' = None

Init ==
  /\ type \in PacketTypes /\ calibrated \in Machines
  /\ topic \in UpToLength(UpToLength(Packets, MaxPackets), MaxMessages) \ {<<>>}
  /\ stage = "inspect" /\ msg = 1 /\ pkt = 1
  /\ sniffed = None /\ identity = None /\ adapter = None
  /\ locked = FALSE /\ first = None /\ verdict = None

-----------------------------------------------------------------------------
(* A definition marked "variant" is a plausible mistake in the next one.    *)

HasModel(i) == i # None /\ i.model # Unknown

(* state.vendor_hint.                                                       *)
hint == VendorFromMessageType[type]

(* PacketSniffer::identify.                                                 *)
(* variant: a hinted vendor that does not match falls through to the rest.  *)
IdentifyAnyway(p) ==
  IF p = Empty THEN None
  ELSE IF p = Garbage
  THEN IF hint = Unknown THEN None ELSE [vendor |-> hint, model |-> Unknown]
  ELSE p
Identify(p) ==
  IF p = Empty THEN None
  ELSE IF hint = Unknown THEN (IF p = Garbage THEN None ELSE p)
  ELSE IF p # Garbage /\ p.vendor = hint THEN p
  ELSE [vendor |-> hint, model |-> Unknown]

(* load_shipped_calibration: there is a file for the model, and it loads.   *)
Calibrated(i) == i.model \in calibrated

(* is_ready() of an adapter made for i; the registry is not asked.          *)
IsReady(i) == HasModel(i) /\ Calibrated(i)

(* make_adapter.                                                            *)
(* variant: is_ready() is not asked.                                        *)
UnaskedAdapter(i) == IF i.vendor \in Lidars THEN i ELSE None
MakeAdapter(i) == IF i.vendor \in Lidars /\ IsReady(i) THEN i ELSE None

(* Whether the Decoder still looks for an identity.                         *)
(* variant: it looks at every packet.                                       *)
LooksAlways == TRUE
Looks == adapter = None /\ ~locked

(* Whether identity i ends the search.                                      *)
(* variant: any identity does.                                              *)
LocksAtOnce(i) == TRUE
Locks(i) == MakeAdapter(i) # None \/ i.vendor \notin Lidars \/ HasModel(i)

(* Decoder::feed, as far as the identity goes.                              *)
DecoderFeeds(p) ==
  LET i == Identify(p)
  IN  IF Looks /\ i # None
      THEN /\ identity' = i
           /\ adapter' = MakeAdapter(i)
           /\ locked' = Locks(i)
      ELSE UNCHANGED <<identity, adapter, locked>>

(* feed_packet's own search: the first identity, or one that adds a model.  *)
Improved(p) ==
  LET i == Identify(p)
  IN  IF i # None /\ ~HasModel(sniffed) /\ (sniffed = None \/ HasModel(i))
      THEN i ELSE sniffed

FeedPacket ==
  /\ stage \in {"inspect", "convert"} /\ msg <= Len(topic) /\ pkt <= Len(topic[msg])
  /\ LET p == topic[msg][pkt]
     IN  /\ DecoderFeeds(p)
         /\ sniffed' = IF identity' # None THEN identity' ELSE Improved(p)
         /\ first' = IF first = None /\ HasModel(Identify(p)) THEN Identify(p) ELSE first
  /\ pkt' = pkt + 1
  /\ UNCHANGED <<type, calibrated, topic, verdict, stage, msg>>

NextMessage ==
  /\ stage = "convert" /\ msg <= Len(topic) /\ pkt > Len(topic[msg])
  /\ msg' = msg + 1 /\ pkt' = 1
  /\ UNCHANGED <<type, calibrated, topic, verdict, stage, state>>

(* inspect() feeds the packets of one message, the first of the topic.      *)
FirstMessageFed == stage = "inspect" /\ pkt > Len(topic[1])

(* partition_by_support decides whether convert() decodes the topic, with a *)
(* new TopicState, or copies it.                                            *)
Decide ==
  /\ FirstMessageFed
  /\ verdict' = sniffed
  /\ IF sniffed \in Supported
     THEN stage' = "convert" /\ msg' = 1 /\ pkt' = 1 /\ Fresh
     ELSE stage' = "end" /\ UNCHANGED <<msg, pkt, state>>
  /\ UNCHANGED <<type, calibrated, topic>>

Finish ==
  /\ stage = "convert" /\ msg > Len(topic)
  /\ stage' = "end"
  /\ UNCHANGED <<type, calibrated, topic, verdict, msg, pkt, state>>

Next == FeedPacket \/ NextMessage \/ Decide \/ Finish

Spec == Init /\ [][Next]_vars

-----------------------------------------------------------------------------
(* Properties.                                                              *)

(* Every variable keeps its type; an adapter exists only where one can be   *)
(* built.                                                                   *)
TypeOK ==
  /\ type \in PacketTypes /\ calibrated \in Machines /\ stage \in {"inspect", "convert", "end"}
  /\ msg \in 1..MaxMessages + 1 /\ pkt \in 1..MaxPackets + 1
  /\ sniffed \in Identities \cup {None} /\ identity \in Identities \cup {None}
  /\ (adapter # None => adapter \in Resolved /\ IsReady(adapter)) /\ locked \in BOOLEAN
  /\ verdict \in Identities \cup {None} /\ first \in Resolved \cup {None}

(* The search for a LiDAR's model survives any number of malformed packets  *)
(* and ends with the first model seen, which no later packet changes        *)
(* (feed_packet: "Prevents later garbage packets from wiping out a          *)
(* confirmed match").                                                       *)
FirstModelIsReported ==
  first # None /\ hint \in Lidars \cup {Unknown} => sniffed = first

(* A hinted stream is never taken for another vendor's.                     *)
HintHolds ==
  hint # Unknown =>
    /\ sniffed # None => sniffed.vendor = hint
    /\ identity # None => identity.vendor = hint

(* convert() decodes the whole topic as what inspect() saw in its first     *)
(* message: from the second message on, the identity in the result and the  *)
(* one the adapter was built for are the ones the decision was made on.     *)
InspectionHolds ==
  verdict \in Supported /\ (stage = "end" \/ msg > 1) =>
    sniffed = verdict /\ adapter = MakeAdapter(verdict)
=============================================================================
