---------------------------- MODULE TopicRouting ----------------------------
(***************************************************************************)
(* Where the messages of a topic go: the plan of the dry run, and convert()*)
(* up to and including the channels of the output.  The topics of the bag  *)
(* are resolved against the mapping, split by sensor support, registered   *)
(* with the writer, and their messages are written to the channel their    *)
(* topic was given.  The definition writer gives each channel's type a     *)
(* schema, for which it may have to load a definition (MessageDefinitions).*)
(*                                                                         *)
(* A mapping rule is the partial function from topic names to output names *)
(* that its pattern and template compute; its index stands for the frame.  *)
(***************************************************************************)
EXTENDS FiniteSets, MessageDefinitions

CONSTANTS
  Topics,        (* the bag's topics, in metadata order                      *)
  TypeOf,        (* their message types                                      *)
  PacketTypes,   (* is_packet_type                                           *)
  Cloud,         (* the type of the clouds                                   *)
  Outputs,       (* names the mapping may produce                            *)
  MaxRules,      (* bound: rules of a mapping                                *)
  Machines       (* [records, install]: an input bag's Schema records, and   *)
                 (* the message types of the machine that converts it        *)

Names == ToSet(Topics)
Types == {TypeOf[t] : t \in Names} \cup {Cloud}
Packets == {t \in Names : TypeOf[t] \in PacketTypes}
Levels == {"Supported", "VendorUnknown", "VendorNotSupported", "ModelNotSupported"}

(* Without a message there is nothing to sniff.  A supported topic may still*)
(* yield no cloud: its calibration does not load, or no scan is large enough*)
(* (whether another one would does not matter).  From one bare mcap file to *)
(* another, the definitions of the input may be forwarded; elsewhere nobody *)
(* asks what the machine has.                                               *)
Bags ==
  {b \in [silent : SUBSET Names, level : [Packets -> Levels], yields : SUBSET Packets,
          forwards : BOOLEAN, machine : Machines] :
     /\ \A t \in Packets \cap b.silent : b.level[t] = "VendorUnknown"
     /\ \A t \in b.yields : b.level[t] = "Supported"
     /\ ~b.forwards => b.machine = CHOOSE m \in Machines : TRUE}
Mappings == UNION {[1..n -> [Packets -> Outputs \cup {None}]] : n \in 1..MaxRules}

ASSUME RoutingAssumption ==
  /\ Topics \in Seq(Names)
  /\ TypeOf \in [Names -> Types] /\ Cloud \notin PacketTypes
  /\ None \notin Outputs \cup Types /\ MaxRules \in Nat /\ Topics # <<>>
  /\ \A m \in Machines :
       /\ IsFiniteSet(DOMAIN m.install)
       /\ \A t \in DOMAIN m.install : m.install[t] \in Seq(ToSet(m.install[t]))

VARIABLES
  bag, mapping,   (* the input                                               *)
  stage, i,       (* the loop that runs, and the index of its next topic     *)
  resolved,       (* ResolvePartition::resolved: topics in order             *)
  match,          (* their MappingMatch                                      *)
  decoded,        (* SupportPartition::decoded: those of them to be decoded  *)
  channels,       (* channel_by_topic_: name -> [type, schema]               *)
  schemas,        (* the Schema records [type, from, text], by id             *)
  written         (* messages in the output: [from, to, type]                *)

input == <<bag, mapping>>
vars == <<input, stage, i, resolved, match, decoded, channels, schemas, written, records, loader>>

NoFunction == [x \in {} |-> x]

Init ==
  /\ bag \in Bags /\ mapping \in Mappings
  /\ stage = "resolve" /\ i = 1
  /\ resolved = <<>> /\ match = NoFunction /\ decoded = <<>>
  /\ channels = NoFunction /\ schemas = <<>> /\ written = {}
  /\ InitDefinitions(bag.machine.records)

-----------------------------------------------------------------------------
(* A definition marked "variant" is a plausible mistake in the next one.    *)

(* TopicMapping::resolve: the rules a topic matches; two of them throw.     *)
Matching(t) == {r \in DOMAIN mapping : mapping[r][t] # None}
(* variant: the first rule that matches is taken.                           *)
NeverAmbiguous(t) == FALSE
Ambiguous(t) == Cardinality(Matching(t)) > 1
MatchOf(t) ==
  LET r == CHOOSE r \in DOMAIN mapping : \A q \in Matching(t) : r \in Matching(t) /\ r <= q
  IN  [rule |-> r, out |-> mapping[r][t]]

(* plan_convert: the row of a packet topic.                                 *)
Plan(t) ==
  IF t \in bag.silent THEN "no messages"
  ELSE IF bag.level[t] # "Supported" THEN bag.level[t]
  ELSE IF Cardinality(Matching(t)) > 1 THEN "error"
  ELSE IF Matching(t) = {} THEN "no matching rule"
  ELSE "ok"

(* Which of the resolved topics are decoded.                                *)
(* variant: an identified vendor is enough.                                 *)
DecodesByVendor(t) == bag.level[t] \in {"Supported", "ModelNotSupported"}
Decodes(t) == bag.level[t] = "Supported"

(* Which topics are copied.                                                 *)
(* variant: those that carry no packets.                                    *)
CopiesOthers(t) == t \notin Packets
Copies(t) == t \notin ToSet(decoded)

(* Go on to the next index, or to the next loop.                            *)
Advance(last, next) ==
  IF i < last THEN i' = i + 1 /\ UNCHANGED stage ELSE i' = 1 /\ stage' = next

Refuse == stage' = "threw" /\ UNCHANGED i

(* variant: a topic without a rule stays.                                   *)
NeverSkipped(t) == FALSE
Skipped(t) == Matching(t) = {}

(* discover_topics and resolve_discovered_topics: one topic of the bag.     *)
Resolve ==
  /\ stage = "resolve"
  /\ LET t == Topics[i]
     IN  IF t \in Packets /\ Ambiguous(t) THEN Refuse /\ UNCHANGED <<resolved, match>>
         ELSE /\ Advance(Len(Topics), "split")
              /\ IF t \notin Packets \/ Skipped(t) THEN UNCHANGED <<resolved, match>>
                 ELSE /\ resolved' = Append(resolved, t)
                      /\ match' = [x \in DOMAIN match \cup {t} |->
                                     IF x = t THEN MatchOf(t) ELSE match[x]]
  /\ UNCHANGED <<input, decoded, channels, schemas, written, records, loader>>

(* partition_by_support: one resolved topic, and the end of the loop.       *)
Partition ==
  /\ stage = "split" /\ i <= Len(resolved)
  /\ i' = i + 1
  /\ decoded' = IF Decodes(resolved[i]) THEN Append(decoded, resolved[i]) ELSE decoded
  /\ UNCHANGED <<input, stage, resolved, match, channels, schemas, written, records, loader>>

Partitioned ==
  /\ stage = "split" /\ i > Len(resolved)
  /\ stage' = IF bag.forwards THEN "records" ELSE "clouds"
  /\ i' = 1
  /\ UNCHANGED <<input, resolved, match, decoded, channels, schemas, written, records, loader>>

(* load_definition_registry: one record, and the end of the loop.           *)
ReadRecord ==
  /\ stage = "records"
  /\ \E record \in unread : Add(record)
  /\ UNCHANGED <<input, stage, i, resolved, match, decoded, channels, schemas, written>>

RecordsRead ==
  /\ stage = "records" /\ unread = {}
  /\ stage' = "clouds"
  /\ UNCHANGED <<input, i, resolved, match, decoded, channels, schemas, written, records, loader>>

(* convert() takes the definition writer when the registry is not empty;    *)
(* rosbag2's own looks up its own definitions.                              *)
Writer == IF bag.forwards /\ DOMAIN registry # {} THEN "definition" ELSE "rosbag2"

(* intern_schema: the id of a type's schema, the record made for a type     *)
(* the bag defines, and the types that have to be looked for elsewhere.     *)
Known(type) == \E s \in DOMAIN schemas : schemas[s].type = type
Schema(type) ==
  IF Writer = "definition" THEN [type |-> type, from |-> "bag", text |-> registry[type]]
  ELSE [type |-> type, from |-> "rosbag2", text |-> NoText]
(* variant: the schema made last.                                           *)
LastSchema(type) == IF schemas = <<>> THEN 1 ELSE Len(schemas)
SchemaId(type) == IF Known(type) THEN CHOOSE s \in DOMAIN schemas : schemas[s].type = type
                  ELSE Len(schemas) + 1
(* variant: what is installed here is preferred.                            *)
LoadsInstalled(type) ==
  Writer = "definition" /\ ~Known(type)
  /\ (type \in DOMAIN bag.machine.install \/ type \notin DOMAIN registry)
Loads(type) == Writer = "definition" /\ ~Known(type) /\ type \notin DOMAIN registry

(* create_topic of both writers.                                            *)
MakeChannel(name, type) ==
  /\ channels' = [x \in DOMAIN channels \cup {name} |->
                    IF x = name THEN [type |-> type, schema |-> SchemaId(type)]
                    ELSE channels[x]]
  /\ schemas' = IF Known(type) THEN schemas
                ELSE Append(schemas, Schema(type))
  /\ UNCHANGED loader

(* Its call of load_message_definition_from_ament: the registration goes on *)
(* when the schema is there.                                                *)
Load(type) ==
  /\ Loads(type) /\ BeginLoad(type)
  /\ UNCHANGED <<stage, i, channels, schemas>>

LoadStep ==
  /\ loading # None /\ Append_definition(bag.machine.install)
  /\ UNCHANGED <<input, stage, i, resolved, match, decoded, channels, schemas, written>>

(* What was loaded becomes the schema, and nothing if a file was missing.   *)
Loaded ==
  /\ loading # None
  /\ \/ /\ todo = <<>>
        /\ schemas' = Append(schemas, [type |-> loading, from |-> "ament", text |-> text])
     \/ /\ Missing(bag.machine.install)
        /\ schemas' = Append(schemas, [type |-> loading, from |-> "empty", text |-> NoText])
  /\ EndLoad
  /\ UNCHANGED <<input, stage, i, resolved, match, decoded, channels, written, records>>

(* register_decoded_topics: one topic, refused when an earlier one took its *)
(* output name.                                                             *)
(* variant: refused when an earlier one took its name and its frame.        *)
TakenWithFrame(k) == \E j \in 1..k - 1 : match[decoded[j]] = match[decoded[k]]
Taken(k) == \E j \in 1..k - 1 : match[decoded[j]].out = match[decoded[k]].out

RegisterCloud ==
  /\ stage = "clouds" /\ i <= Len(decoded) /\ loading = None
  /\ \/ Taken(i) /\ Refuse /\ UNCHANGED <<channels, schemas, loader>>
     \/ ~Taken(i) /\ Load(Cloud)
     \/ /\ ~Taken(i) /\ ~Loads(Cloud)
        /\ i' = i + 1 /\ UNCHANGED stage
        /\ MakeChannel(match[decoded[i]].out, Cloud)
  /\ UNCHANGED <<input, resolved, match, decoded, written, records>>

CloudsRegistered ==
  /\ stage = "clouds" /\ i > Len(decoded)
  /\ stage' = "copies" /\ i' = 1
  /\ UNCHANGED <<input, resolved, match, decoded, channels, schemas, written, records, loader>>

(* A name the output has already: the definition writer ignores the call,   *)
(* rosbag2's accepts the same type only ("only when name+type+serialization *)
(* match exactly", register_decoded_topics).                                *)
Accepted(name, type) == Writer = "definition" \/ channels[name].type = type

(* register_passthrough_topics: one topic of the bag.                       *)
RegisterCopy ==
  /\ stage = "copies" /\ loading = None
  /\ LET t == Topics[i]
     IN  \/ /\ ~Copies(t)
            /\ Advance(Len(Topics), "write") /\ UNCHANGED <<channels, schemas, loader>>
         \/ Copies(t) /\ t \notin DOMAIN channels /\ Load(TypeOf[t])
         \/ /\ Copies(t) /\ t \notin DOMAIN channels /\ ~Loads(TypeOf[t])
            /\ Advance(Len(Topics), "write") /\ MakeChannel(t, TypeOf[t])
         \/ /\ Copies(t) /\ t \in DOMAIN channels
            /\ IF Accepted(t, TypeOf[t]) THEN Advance(Len(Topics), "write") ELSE Refuse
            /\ UNCHANGED <<channels, schemas, loader>>
  /\ UNCHANGED <<input, resolved, match, decoded, written, records>>

(* What a driver writes of a topic's messages: the clouds of a decoded one, *)
(* if there are any, else the messages, if the topic is registered.         *)
Gives(t) ==
  IF t \in bag.silent THEN {}
  ELSE IF t \in ToSet(decoded) \cap bag.yields
  THEN {[from |-> t, to |-> match[t].out, type |-> Cloud]}
  ELSE IF t \notin ToSet(decoded) /\ Copies(t)
  THEN {[from |-> t, to |-> t, type |-> TypeOf[t]]}
  ELSE {}

WriteTopic ==
  /\ stage = "write"
  /\ written' = written \cup Gives(Topics[i])
  /\ Advance(Len(Topics), "end")
  /\ UNCHANGED <<input, resolved, match, decoded, channels, schemas, records, loader>>

Next ==
  \/ Resolve \/ Partition \/ Partitioned \/ ReadRecord \/ RecordsRead
  \/ RegisterCloud \/ CloudsRegistered \/ RegisterCopy \/ LoadStep \/ Loaded
  \/ WriteTopic

Spec == Init /\ [][Next]_vars

-----------------------------------------------------------------------------
(* Properties.                                                              *)

(* Every variable keeps its type.                                           *)
TypeOK ==
  /\ bag \in Bags /\ mapping \in Mappings
  /\ stage \in {"resolve", "split", "records", "clouds", "copies", "write", "end", "threw"}
  /\ i \in 1..Len(Topics) + 1
  /\ ToSet(resolved) = DOMAIN match /\ DOMAIN match \subseteq Packets
  /\ ToSet(decoded) \subseteq DOMAIN match
  /\ \A t \in DOMAIN match : match[t] \in [rule : 1..MaxRules, out : Outputs]
  /\ \A n \in DOMAIN channels : channels[n] \in [type : Types, schema : DOMAIN schemas]
  /\ \A s \in DOMAIN schemas :
       schemas[s].type \in Types /\ schemas[s].from \in {"bag", "ament", "empty", "rosbag2"}
  /\ written \subseteq [from : Names, to : Names \cup Outputs, type : Types]
  /\ unread \subseteq bag.machine.records
  /\ DOMAIN registry \subseteq {r.type : r \in bag.machine.records}
  /\ loading \in Types \cup {None} /\ (loading # None => ~Known(loading))
  /\ {x.type : x \in seen} = ToSet(text) /\ ToSet(text) \subseteq DOMAIN bag.machine.install

(* When convert() goes through, it decoded exactly the topics the dry run   *)
(* calls "ok" and the dry run reported no error.                            *)
PlanIsKept ==
  stage = "end" =>
    \A t \in Packets : /\ Plan(t) # "error"
                       /\ t \in ToSet(decoded) <=> Plan(t) = "ok"

(* No output topic mixes the clouds decoded of two sensors, whose frames    *)
(* differ.  (Clouds the bag held already are copied: CopiesKeepTheirType.)  *)
OneSensorPerCloudTopic ==
  \A v, w \in written :
    v.from \in ToSet(decoded) /\ w.from \in ToSet(decoded) /\ v.to = w.to => v.from = w.from

(* In the definition writer's output every channel carries the definition   *)
(* of its own type: the one of the input bag if that has one, else one that *)
(* is complete and names nothing twice if all its files are installed, and  *)
(* none at all if one is missing.  No type has two.                         *)
SchemaIsOfItsType == Writer = "definition" =>
  /\ \A n \in DOMAIN channels :
       LET s == schemas[channels[n].schema]
           given == {r \in bag.machine.records : r.type = s.type /\ r.text # NoText}
       IN  /\ s.type = channels[n].type
           /\ IF given # {} THEN s.text \in {r.text : r \in given}
              ELSE IF Loadable(bag.machine.install, s.type)
              THEN IsDefinitionOf(s.text, bag.machine.install, s.type)
              ELSE s.text = NoText
  /\ \A r, s \in DOMAIN schemas : schemas[r].type = schemas[s].type => r = s

(* Every message written found a channel, and every topic with messages is  *)
(* in the output, decoded or copied.  There is one exception: a topic the   *)
(* dry run calls "ok" and whose decoder then yields no cloud is not copied  *)
(* in its stead, since the registry said that it would be decoded.          *)
NothingIsDropped ==
  /\ \A w \in written : w.to \in DOMAIN channels
  /\ stage = "end" => \A t \in Names \ bag.silent :
       \/ \E w \in written : w.from = t
       \/ t \in Packets \ bag.yields /\ Plan(t) = "ok"

(* "Create passthrough topics for everything that isn't a decoded packet    *)
(* topic, preserving the original type and serialization_format."           *)
CopiesKeepTheirType ==
  \A w \in written : w.from = w.to => channels[w.to].type = w.type
=============================================================================
