-------------------------- MODULE TopicRoutingProofs --------------------------
(***************************************************************************)
(* Proofs about TopicRouting, for any topics and types and any number of   *)
(* rules: what convert() decodes is what the dry run announced, two        *)
(* sensors never share an output topic, no topic is dropped, and each type *)
(* has the definition it needs or none.                                    *)
(*                                                                         *)
(* The conversion is a sequence of loops over lists.  The invariant says   *)
(* of each loop what it has established for the entries it has passed,     *)
(* and of each later stage that it holds for all of them.  The load of a   *)
(* definition is a walk whose invariant makes the set it emitted closed    *)
(* when there is nothing left to visit.                                    *)
(***************************************************************************)
EXTENDS TopicRouting, SequenceTheorems, FiniteSetTheorems, TLAPS

Stages == {"resolve", "split", "records", "clouds", "copies", "write", "end", "threw"}

(* What the steps that read records or load a definition leave alone.       *)
routing == <<input, stage, i, resolved, match, decoded, channels, written>>

(* The loop that runs at this stage has passed entry j.                     *)
Passed(loop, j) == stage = loop => j < i

Inputs == bag \in Bags /\ mapping \in Mappings

Lists ==
  /\ stage \in Stages /\ i \in Nat \ {0}
  /\ resolved \in Seq(Packets) /\ decoded \in Seq(Packets)
  /\ Len(resolved) <= Len(Topics) /\ Len(decoded) <= Len(resolved)
  /\ stage \in {"resolve", "copies", "write"} => i <= Len(Topics)
  /\ stage = "resolve" => Len(resolved) < i /\ decoded = <<>>
  /\ stage = "split" => i <= Len(resolved) + 1 /\ Len(decoded) < i
  /\ stage = "records" => i = 1
  /\ stage = "clouds" => i <= Len(decoded) + 1
  /\ i <= Len(Topics) + 1

(* A resolved topic has one rule, and that rule's match.                    *)
Resolved ==
  /\ match = [t \in DOMAIN match |-> match[t]]
  /\ DOMAIN match = {resolved[j] : j \in 1..Len(resolved)}
  /\ \A t \in DOMAIN match :
       /\ t \in Packets /\ Matching(t) # {} /\ ~Ambiguous(t)
       /\ match[t] \in [rule : 1..MaxRules, out : Outputs]

(* A packet topic that was passed has at most one rule and is not missed.   *)
IsResolved(t) == t \in Packets => ~Ambiguous(t) /\ (Matching(t) # {} => t \in DOMAIN match)
AllResolved == stage # "threw" =>
  \A j \in 1..Len(Topics) : Passed("resolve", j) => IsResolved(Topics[j])

(* Those that are decoded are the supported ones among the resolved.        *)
Split ==
  /\ \A k \in 1..Len(decoded) : decoded[k] \in DOMAIN match /\ Decodes(decoded[k])
  /\ stage \notin {"resolve", "threw"} =>
       \A j \in 1..Len(resolved) :
         Passed("split", j) /\ Decodes(resolved[j]) => resolved[j] \in ToSet(decoded)

(* No two of the decoded topics that were registered share an output name,  *)
(* and each has its channel; so has each topic that is copied.              *)
Out(k) == match[decoded[k]].out
CloudsApart == stage \in {"clouds", "copies", "write", "end"} =>
  \A k \in 1..Len(decoded) : Passed("clouds", k) =>
    Out(k) \in DOMAIN channels /\ \A j \in 1..k - 1 : Out(j) # Out(k)
CopiesFound == stage \in {"copies", "write", "end"} =>
  \A j \in 1..Len(Topics) :
    Passed("copies", j) /\ Copies(Topics[j]) => Topics[j] \in DOMAIN channels

(* The channel of a decoded topic is for clouds; rosbag2's writer gives each*)
(* topic that is copied one of its own type.                                *)
ChannelTypes ==
  /\ stage \in {"clouds", "copies", "write", "end"} =>
       \A k \in 1..Len(decoded) : Passed("clouds", k) => channels[Out(k)].type = Cloud
  /\ stage \in {"copies", "write", "end"} /\ Writer = "rosbag2" =>
       \A j \in 1..Len(Topics) :
         Passed("copies", j) /\ Copies(Topics[j]) => channels[Topics[j]].type = TypeOf[Topics[j]]

(* What a channel names, and one schema for each type.                      *)
Install == bag.machine.install
Sources == {"bag", "ament", "empty", "rosbag2"}
SchemaRecords ==
  [type : Types, from : Sources,
   text : {r.text : r \in bag.machine.records} \cup Seq(DOMAIN Install)]
Channels ==
  /\ channels = [n \in DOMAIN channels |-> channels[n]]
  /\ schemas \in Seq(SchemaRecords)
  /\ \A n \in DOMAIN channels :
       /\ channels[n] \in [type : Types, schema : 1..Len(schemas)]
       /\ schemas[channels[n].schema].type = channels[n].type
  /\ \A r, s \in 1..Len(schemas) : schemas[r].type = schemas[s].type => r = s

(* A channel was made for a decoded topic or for one that is copied.        *)
Origins ==
  /\ stage \in {"resolve", "split", "records"} => DOMAIN channels = {}
  /\ \A n \in DOMAIN channels :
       \/ channels[n].type = Cloud /\ \E k \in 1..Len(decoded) : Out(k) = n
       \/ channels[n].type = TypeOf[n] /\ n \in Names \ ToSet(decoded)

(* What was read of the bag is in the registry, and all of it was read      *)
(* before a schema is made.                                                 *)
Given(machine, type) ==
  {r.text : r \in {s \in machine.records : s.type = type /\ s.text # NoText}}
Records ==
  /\ unread \subseteq bag.machine.records
  /\ \A type \in DOMAIN registry : registry[type] \in Given(bag.machine, type)
  /\ \A r \in bag.machine.records \ unread : r.text # NoText => r.type \in DOMAIN registry
  /\ stage \in {"resolve", "split", "records"} => schemas = <<>> /\ loading = None
  /\ stage \in {"clouds", "copies"} /\ bag.forwards => unread = {}

(* What the text of a type has to be, and is in each schema that was made.  *)
Fits(machine, type, definition) ==
  IF Given(machine, type) # {} THEN definition \in Given(machine, type)
  ELSE IF Loadable(machine.install, type) THEN IsDefinitionOf(definition, machine.install, type)
  ELSE definition = NoText
Texts == Writer = "definition" =>
  \A s \in 1..Len(schemas) : Fits(bag.machine, schemas[s].type, schemas[s].text)

(* A type is loaded when it has no schema and the bag does not define it.   *)
Loading == loading # None =>
  /\ stage \in {"clouds", "copies"} /\ Writer = "definition"
  /\ stage = "clouds" => i <= Len(decoded)
  /\ loading \in Types /\ ~Known(loading) /\ loading \notin DOMAIN registry

(* What append_definition is called for when a type is loaded: the type     *)
(* itself, and what the types its fields use need.                          *)
First(type) == [type |-> type, first |-> TRUE]
Used(type) == [type |-> type, first |-> FALSE]
Callees(install, type) ==
  {First(type)} \cup
  {Used(t) : t \in {t \in Needs(install, type) :
                      /\ type \in DOMAIN install
                      /\ \E d \in ToSet(install[type]) : t \in Needs(install, d)}}

(* What was emitted is what append_definition was called for, and what the  *)
(* emitted files use was or will be called for.                             *)
Walk == loading # None =>
  /\ seen \subseteq Callees(Install, loading) /\ todo \in Seq(Callees(Install, loading))
  /\ text \in Seq(DOMAIN Install) /\ ToSet(text) = {x.type : x \in seen}
  /\ \A x \in seen : \A t \in ToSet(Install[x.type]) : Used(t) \in seen \cup ToSet(todo)
  /\ \/ text = <<>> /\ seen = {} /\ todo = <<First(loading)>>
     \/ text # <<>> /\ text[1] = loading /\ First(loading) \in seen \ ToSet(todo)
  /\ UsesItself(Install, loading) \/ IsInjective(text)
Idle == loading = None => text = NoText /\ seen = {} /\ todo = <<>>

(* A call emits something that was not emitted, or only returns.            *)
Unvisited == Cardinality(Callees(Install, loading) \ seen)
Nearer ==
  /\ Unvisited \in Nat /\ Unvisited' \in Nat
  /\ \/ Unvisited' < Unvisited
     \/ Unvisited' = Unvisited /\ Len(todo') < Len(todo)

(* A message goes where its topic was registered, and every topic that gives*)
(* a message gave one.                                                      *)
Writes(t) == t \notin bag.silent /\ (t \in ToSet(decoded) => t \in bag.yields)
Messages ==
  /\ \A w \in written :
       /\ w \in [from : Names, to : Names \cup Outputs, type : Types]
       /\ IF w.from \in ToSet(decoded) THEN w.to = match[w.from].out /\ w.type = Cloud
                                       ELSE w.to = w.from /\ w.type = TypeOf[w.from]
  /\ written # {} => stage \in {"write", "end"}
  /\ stage \in {"write", "end"} =>
       \A j \in 1..Len(Topics) :
         Passed("write", j) /\ Writes(Topics[j]) => \E w \in written : w.from = Topics[j]

IInv ==
  /\ Inputs /\ Lists /\ Resolved /\ AllResolved /\ Split
  /\ CloudsApart /\ CopiesFound /\ ChannelTypes /\ Channels /\ Origins /\ Messages
  /\ Records /\ Texts /\ Loading /\ Walk /\ Idle

-----------------------------------------------------------------------------
(* Lists.                                                                   *)

LEMMA SetOfList ==
  ASSUME NEW S, NEW q \in Seq(S)
  PROVE  ToSet(q) = {q[j] : j \in 1..Len(q)}
  BY LenProperties DEF ToSet

LEMMA SetWithin ==
  ASSUME NEW S, NEW q \in Seq(S)
  PROVE  ToSet(q) \subseteq S
<1>1. \A j \in 1..Len(q) : q[j] \in S
  OBVIOUS
<1> QED
  BY <1>1, SetOfList

LEMMA SetOfAppend ==
  ASSUME NEW S, NEW q \in Seq(S), NEW x \in S
  PROVE  /\ ToSet(Append(q, x)) = ToSet(q) \cup {x}
         /\ {Append(q, x)[j] : j \in 1..Len(Append(q, x))} = {q[j] : j \in 1..Len(q)} \cup {x}
<1>1. Append(q, x) \in Seq(S) /\ Len(Append(q, x)) = Len(q) + 1 /\ Len(q) \in Nat
  OBVIOUS
<1>2. \A j \in 1..Len(q) : Append(q, x)[j] = q[j]
  OBVIOUS
<1>3. Append(q, x)[Len(q) + 1] = x
  OBVIOUS
<1>4. 1..Len(q) + 1 = 1..Len(q) \cup {Len(q) + 1}
  BY <1>1
<1>5. {Append(q, x)[j] : j \in 1..Len(q) + 1} = {q[j] : j \in 1..Len(q)} \cup {x}
  BY <1>2, <1>3, <1>4
<1> QED
  BY <1>1, <1>5, SetOfList

LEMMA TopicFacts ==
  /\ Topics \in Seq(Names) /\ Len(Topics) \in Nat /\ Len(Topics) >= 1
  /\ \A j \in 1..Len(Topics) : Topics[j] \in Names
  /\ \A t \in Names : \E j \in 1..Len(Topics) : Topics[j] = t
  /\ Packets \subseteq Names
  /\ \A t \in Names : TypeOf[t] \in Types
  /\ Cloud \in Types /\ None \notin Outputs
<1>1. Topics \in Seq(Names) /\ Len(Topics) \in Nat /\ Topics # <<>>
  BY RoutingAssumption
<1>2. Len(Topics) >= 1
  BY <1>1
<1>3. Names = {Topics[j] : j \in 1..Len(Topics)}
  BY <1>1, SetOfList DEF Names
<1> QED
  BY <1>1, <1>2, <1>3, RoutingAssumption DEF Packets, Types

(* What a rule's match is.                                                  *)
LEMMA MatchFacts ==
  ASSUME Inputs, NEW t \in Packets, Matching(t) # {}, ~Ambiguous(t)
  PROVE  MatchOf(t) \in [rule : 1..MaxRules, out : Outputs]
<1>1. PICK n \in 1..MaxRules : mapping \in [1..n -> [Packets -> Outputs \cup {None}]]
  BY DEF Inputs, Mappings
<1>2. MaxRules \in Nat
  BY RoutingAssumption
<1>3. Matching(t) \in SUBSET (1..n) /\ n \in Nat
  BY <1>1, <1>2 DEF Matching
<1>4. IsFiniteSet(Matching(t))
  BY <1>3, FS_Interval, FS_Subset
<1>5. Cardinality(Matching(t)) \in Nat /\ Cardinality(Matching(t)) # 0
  BY <1>4, FS_CardinalityType, FS_EmptySet
<1>6. Cardinality(Matching(t)) = 1
  BY <1>5 DEF Ambiguous
<1>7. PICK m : Matching(t) = {m}
  BY <1>4, <1>6, FS_Singleton
<1>8. m \in 1..n /\ m \in DOMAIN mapping /\ mapping[m][t] # None
  BY <1>1, <1>7 DEF Matching
<1>9. \A q \in Matching(t) : m \in Matching(t) /\ m <= q
  BY <1>3, <1>7, <1>8
<1>10. PICK r : r = CHOOSE m0 \in DOMAIN mapping : \A q \in Matching(t) : m0 \in Matching(t) /\ m0 <= q
  OBVIOUS
<1>11. r \in DOMAIN mapping /\ r \in Matching(t)
  BY <1>7, <1>8, <1>9, <1>10
<1>12. r = m
  BY <1>7, <1>11
<1>13. mapping[r][t] \in Outputs
  BY <1>1, <1>8, <1>12
<1>14. MatchOf(t) = [rule |-> r, out |-> mapping[r][t]]
  BY <1>10 DEF MatchOf
<1>15. r \in 1..MaxRules
  BY <1>2, <1>8, <1>12
<1> QED
  BY <1>13, <1>14, <1>15

(* The partial function of an installation's files gives lists of types.    *)
LEMMA InstallFacts ==
  ASSUME Inputs
  PROVE  \A t \in DOMAIN Install : Install[t] \in Seq(ToSet(Install[t]))
<1>1. bag.machine \in Machines
  BY DEF Inputs, Bags
<1> QED
  BY <1>1, RoutingAssumption DEF Install

-----------------------------------------------------------------------------
(* The types a type is built of.                                            *)

(* They hold the type, are closed under the use of installed types, and are *)
(* the least such set.                                                      *)
LEMMA NeedsFacts ==
  ASSUME NEW install, NEW type
  PROVE  /\ type \in Needs(install, type)
         /\ \A t \in Needs(install, type) \cap DOMAIN install :
              ToSet(install[t]) \subseteq Needs(install, type)
         /\ \A S : type \in S /\ (\A t \in S \cap DOMAIN install : ToSet(install[t]) \subseteq S)
                     => Needs(install, type) \subseteq S
<1>1. PICK all : all = {type} \cup UNION {ToSet(install[t]) : t \in DOMAIN install}
  OBVIOUS
<1>2. PICK closed : closed = {S \in SUBSET all :
          type \in S /\ \A t \in S \cap DOMAIN install : ToSet(install[t]) \subseteq S}
  OBVIOUS
<1>3. Needs(install, type) = {t \in all : \A S \in closed : t \in S}
  BY <1>1, <1>2 DEF Needs
<1>4. type \in all /\ \A t \in DOMAIN install : ToSet(install[t]) \subseteq all
  BY <1>1
<1>5. type \in Needs(install, type)
  BY <1>2, <1>3, <1>4
<1>6. ASSUME NEW t \in Needs(install, type) \cap DOMAIN install, NEW d \in ToSet(install[t])
      PROVE  d \in Needs(install, type)
  <2>1. \A S \in closed : d \in S
    BY <1>2, <1>3, <1>6
  <2> QED
    BY <1>3, <1>4, <1>6, <2>1
<1>7. ASSUME NEW S, type \in S, \A t \in S \cap DOMAIN install : ToSet(install[t]) \subseteq S
      PROVE  Needs(install, type) \subseteq S
  <2>1. S \cap all \in closed
    BY <1>2, <1>4, <1>7
  <2> QED
    BY <1>3, <2>1
<1> QED
  BY <1>5, <1>6, <1>7

(* The calls for what an installed type uses are for callees of any callee. *)
LEMMA CalleeFacts ==
  ASSUME NEW install, NEW type, NEW x \in Callees(install, type), x.type \in DOMAIN install
  PROVE  /\ \A d \in ToSet(install[x.type]) : Used(d) \in Callees(install, type)
         /\ x.type \in Needs(install, type)
         /\ x = First(x.type) \/ x = Used(x.type)
         /\ x = First(x.type) => x.type = type
<1>1. type \in Needs(install, type)
  BY NeedsFacts
<1>2. CASE x = First(type)
  <2>1. x.type = type
    BY <1>2 DEF First
  <2>2. ASSUME NEW d \in ToSet(install[type]) PROVE Used(d) \in Callees(install, type)
    <3>1. d \in Needs(install, d) /\ d \in Needs(install, type)
      BY <1>1, <2>1, <2>2, NeedsFacts
    <3> QED
      BY <2>1, <2>2, <3>1 DEF Callees
  <2> QED
    BY <1>1, <1>2, <2>1, <2>2
<1>3. CASE x # First(type)
  <2>1. PICK t \in Needs(install, type) : /\ x = Used(t) /\ type \in DOMAIN install
                                          /\ \E e \in ToSet(install[type]) : t \in Needs(install, e)
    BY <1>3 DEF Callees
  <2>2. x.type = t /\ x # First(t)
    BY <2>1 DEF Used, First
  <2>3. PICK e \in ToSet(install[type]) : t \in Needs(install, e)
    BY <2>1
  <2>4. ASSUME NEW d \in ToSet(install[t]) PROVE Used(d) \in Callees(install, type)
    <3>1. d \in Needs(install, type) /\ d \in Needs(install, e)
      BY <2>1, <2>2, <2>3, <2>4, NeedsFacts
    <3> QED
      BY <2>1, <2>3, <3>1 DEF Callees
  <2> QED
    BY <2>1, <2>2, <2>4
<1> QED
  BY <1>2, <1>3

-----------------------------------------------------------------------------
(* The loops and the lists they walk.                                       *)

LEMMA InitInv == Init => IInv
<1> SUFFICES ASSUME Init PROVE IInv
  OBVIOUS
<1> USE TopicFacts
<1>1. Inputs
  BY DEF Init, Inputs
<1>2. Lists
  BY DEF Init, Lists, Stages
<1>3. /\ DOMAIN match = {} /\ DOMAIN channels = {} /\ stage = "resolve" /\ i = 1
      /\ Len(resolved) = 0 /\ Len(decoded) = 0 /\ Len(schemas) = 0 /\ written = {}
      /\ match = [t \in DOMAIN match |-> match[t]]
      /\ channels = [n \in DOMAIN channels |-> channels[n]]
      /\ schemas = <<>>
  BY DEF Init, NoFunction
<1>4. Resolved /\ AllResolved
  BY <1>3 DEF Resolved, AllResolved, Passed
<1>5. Split /\ CloudsApart /\ CopiesFound /\ ChannelTypes
  BY <1>3 DEF Split, CloudsApart, CopiesFound, ChannelTypes
<1>6. Channels /\ Origins
  BY <1>3 DEF Channels, Origins
<1>7. Messages
  BY <1>3 DEF Messages
<1>8. Records /\ Texts /\ Loading /\ Walk /\ Idle
  <2>1. /\ unread = bag.machine.records /\ DOMAIN registry = {} /\ loading = None
        /\ text = NoText /\ seen = {} /\ todo = <<>>
    BY DEF Init, InitDefinitions
  <2> QED
    BY <1>3, <2>1 DEF Records, Texts, Loading, Walk, Idle
<1> QED
  BY <1>1, <1>2, <1>4, <1>5, <1>6, <1>7, <1>8 DEF IInv

(* The steps that do more than read a record or load a definition.          *)
LEMMA Kinds ==
  ASSUME [Next]_vars
  PROVE  /\ \/ Resolve \/ Partition \/ Partitioned \/ RecordsRead \/ CloudsRegistered \/ WriteTopic
            \/ (RegisterCloud /\ ~UNCHANGED routing)
            \/ (RegisterCopy /\ ~UNCHANGED routing)
            \/ UNCHANGED routing
         /\ bag' = bag /\ mapping' = mapping
<1>1. CASE ReadRecord \/ LoadStep \/ Loaded \/ UNCHANGED vars
  <2>1. UNCHANGED routing
    BY <1>1 DEF ReadRecord, LoadStep, Loaded, routing, vars
  <2> QED
    BY <2>1 DEF routing, input
<1>2. CASE Resolve \/ Partition \/ Partitioned \/ RecordsRead \/ RegisterCloud \/ CloudsRegistered
           \/ RegisterCopy \/ WriteTopic
  <2>1. bag' = bag /\ mapping' = mapping
    BY <1>2 DEF Resolve, Partition, Partitioned, RecordsRead, RegisterCloud, CloudsRegistered,
           RegisterCopy, WriteTopic, input
  <2> QED
    BY <1>2, <2>1
<1> QED
  BY <1>1, <1>2 DEF Next

LEMMA CloudMoves ==
  ASSUME RegisterCloud, ~UNCHANGED routing
  PROVE  /\ stage = "clouds" /\ i <= Len(decoded) /\ UNCHANGED <<resolved, match, decoded, written>>
         /\ \/ Refuse
            \/ ~Taken(i) /\ i' = i + 1 /\ stage' = stage /\ MakeChannel(Out(i), Cloud)
<1>1. UNCHANGED <<resolved, match, decoded, written>> /\ UNCHANGED input
  BY DEF RegisterCloud
<1>2. ~Load(Cloud)
  BY <1>1 DEF Load, routing
<1> QED
  BY <1>1, <1>2 DEF RegisterCloud, Out

LEMMA CopyMoves ==
  ASSUME RegisterCopy, ~UNCHANGED routing
  PROVE  /\ stage = "copies" /\ UNCHANGED <<resolved, match, decoded, written>>
         /\ \/ Refuse
            \/ /\ Advance(Len(Topics), "write")
               /\ \/ ~Copies(Topics[i]) /\ UNCHANGED channels
                  \/ Topics[i] \notin DOMAIN channels /\ MakeChannel(Topics[i], TypeOf[Topics[i]])
                  \/ /\ Topics[i] \in DOMAIN channels /\ UNCHANGED channels
                     /\ Accepted(Topics[i], TypeOf[Topics[i]])
<1>1. UNCHANGED <<resolved, match, decoded, written>> /\ UNCHANGED input
  BY DEF RegisterCopy
<1>2. \A type : ~Load(type)
  BY <1>1 DEF Load, routing
<1> QED
  BY <1>1, <1>2 DEF RegisterCopy

LEMMA ListsStep ==
  ASSUME IInv, [Next]_vars
  PROVE  Inputs' /\ Lists'
<1>1. Inputs'
  BY Kinds DEF IInv, Inputs
<1> SUFFICES Lists'
  BY <1>1
<1>0. /\ stage \in Stages /\ i \in Nat \ {0} /\ Len(Topics) \in Nat
      /\ resolved \in Seq(Packets) /\ decoded \in Seq(Packets)
      /\ Len(resolved) \in Nat /\ Len(decoded) \in Nat
      /\ Len(resolved) <= Len(Topics) /\ Len(decoded) <= Len(resolved)
      /\ i <= Len(Topics) + 1 /\ Len(Topics) >= 1
  <2>1. Len(Topics) \in Nat /\ Len(Topics) >= 1
    BY TopicFacts
  <2>2. /\ stage \in Stages /\ i \in Nat \ {0} /\ i <= Len(Topics) + 1
        /\ resolved \in Seq(Packets) /\ decoded \in Seq(Packets)
        /\ Len(resolved) <= Len(Topics) /\ Len(decoded) <= Len(resolved)
    BY DEF IInv, Lists
  <2> QED
    BY <2>1, <2>2, LenProperties
<1>2. CASE Resolve
  <2>0. PICK t \in Names : t = Topics[i]
    BY <1>0, <1>2, TopicFacts DEF Resolve, IInv, Lists
  <2>1. /\ stage = "resolve" /\ decoded' = decoded /\ decoded = <<>> /\ Len(resolved) < i
        /\ i <= Len(Topics)
    BY <1>2 DEF Resolve, IInv, Lists
  <2>2. \/ Refuse /\ resolved' = resolved
        \/ Advance(Len(Topics), "split") /\ resolved' = resolved
        \/ Advance(Len(Topics), "split") /\ t \in Packets /\ resolved' = Append(resolved, t)
    BY <1>2, <2>0 DEF Resolve
  <2>3. CASE Refuse /\ resolved' = resolved
    BY <1>0, <2>1, <2>3 DEF Refuse, Lists, Stages
  <2>4. CASE Advance(Len(Topics), "split") /\ resolved' = resolved
    BY <1>0, <2>1, <2>4 DEF Advance, Lists, Stages
  <2>5. CASE Advance(Len(Topics), "split") /\ t \in Packets /\ resolved' = Append(resolved, t)
    <3>1. resolved' \in Seq(Packets) /\ Len(resolved') = Len(resolved) + 1
      BY <1>0, <2>5
    <3> QED
      BY <1>0, <2>1, <2>5, <3>1 DEF Advance, Lists, Stages
  <2> QED
    BY <2>2, <2>3, <2>4, <2>5
<1>3. CASE Partition
  <2>1. /\ stage = "split" /\ stage' = stage /\ i <= Len(resolved) /\ i' = i + 1
        /\ resolved' = resolved /\ Len(decoded) < i
    BY <1>3 DEF Partition, IInv, Lists
  <2>2. decoded' \in Seq(Packets) /\ Len(decoded') <= Len(decoded) + 1 /\ Len(decoded') \in Nat
    <3>1. resolved[i] \in Packets
      BY <1>0, <2>1
    <3>2. decoded' = Append(decoded, resolved[i]) \/ decoded' = decoded
      BY <1>3 DEF Partition
    <3> QED
      <4>1. Append(decoded, resolved[i]) \in Seq(Packets) /\ Len(Append(decoded, resolved[i])) = Len(decoded) + 1
        BY <1>0, <3>1
      <4> QED
        BY <1>0, <3>2, <4>1
  <2> QED
    BY <1>0, <2>1, <2>2 DEF Lists, Stages
<1>4. CASE Partitioned
  BY <1>0, <1>4 DEF Partitioned, Lists, Stages
<1>10. CASE RecordsRead
  <2>1. i = 1 /\ stage' = "clouds" /\ UNCHANGED <<i, resolved, decoded>>
    BY <1>10 DEF RecordsRead, IInv, Lists
  <2> QED
    BY <1>0, <2>1 DEF Lists, Stages
<1>5. CASE RegisterCloud /\ ~UNCHANGED routing
  <2>1. stage = "clouds" /\ i <= Len(decoded) /\ resolved' = resolved /\ decoded' = decoded
    BY <1>5, CloudMoves
  <2>2. Refuse \/ (i' = i + 1 /\ stage' = stage)
    BY <1>5, CloudMoves
  <2> QED
    BY <1>0, <2>1, <2>2 DEF Refuse, Lists, Stages
<1>6. CASE CloudsRegistered
  BY <1>0, <1>6 DEF CloudsRegistered, Lists, Stages
<1>7. CASE RegisterCopy /\ ~UNCHANGED routing
  <2>1. /\ stage = "copies" /\ i <= Len(Topics) /\ resolved' = resolved /\ decoded' = decoded
        /\ Refuse \/ Advance(Len(Topics), "write")
    BY <1>7, CopyMoves DEF IInv, Lists
  <2> QED
    BY <1>0, <2>1 DEF Refuse, Advance, Lists, Stages
<1>8. CASE WriteTopic
  <2>1. /\ stage = "write" /\ i <= Len(Topics) /\ resolved' = resolved /\ decoded' = decoded
        /\ Advance(Len(Topics), "end")
    BY <1>8 DEF WriteTopic, IInv, Lists
  <2> QED
    BY <1>0, <2>1 DEF Advance, Lists, Stages
<1>9. CASE UNCHANGED routing
  BY <1>9 DEF IInv, Lists, routing, input
<1> QED
  BY <1>1, <1>2, <1>3, <1>4, <1>5, <1>6, <1>7, <1>8, <1>9, <1>10, Kinds

(* What moves an index on.                                                  *)
LEMMA AdvanceFacts ==
  ASSUME NEW last \in Nat, NEW next, Advance(last, next), i \in Nat, i <= last
  PROVE  \/ i < last /\ i' = i + 1 /\ stage' = stage
         \/ i = last /\ i' = 1 /\ stage' = next
  BY DEF Advance

-----------------------------------------------------------------------------
(* Resolving and splitting.                                                 *)

LEMMA ResolvedStep ==
  ASSUME IInv, [Next]_vars
  PROVE  Resolved' /\ AllResolved'
<1>0. /\ Inputs /\ Resolved /\ stage \in Stages /\ i \in Nat \ {0} /\ Len(Topics) \in Nat
      /\ resolved \in Seq(Packets)
  BY TopicFacts DEF IInv, Lists
<1>1. CASE Resolve
  <2>0. PICK t \in Names : t = Topics[i]
    BY <1>0, <1>1, TopicFacts DEF Resolve, IInv, Lists
  <2>1. stage = "resolve" /\ i <= Len(Topics) /\ UNCHANGED <<bag, mapping>>
    BY <1>1 DEF Resolve, IInv, Lists, input
  <2>2. \/ Refuse /\ UNCHANGED <<resolved, match>>
        \/ /\ Advance(Len(Topics), "split") /\ UNCHANGED <<resolved, match>>
           /\ t \in Packets => Matching(t) = {} /\ ~Ambiguous(t)
        \/ /\ Advance(Len(Topics), "split")
           /\ t \in Packets /\ Matching(t) # {} /\ ~Ambiguous(t)
           /\ resolved' = Append(resolved, t)
           /\ match' = [x \in DOMAIN match \cup {t} |-> IF x = t THEN MatchOf(t) ELSE match[x]]
    BY <1>1, <2>0 DEF Resolve, Skipped
  <2>3. \A x : Matching(x)' = Matching(x) /\ (Ambiguous(x)' <=> Ambiguous(x))
    BY <2>1 DEF Matching, Ambiguous
  <2>a. ASSUME NEW j \in 1..Len(Topics), Passed("resolve", j)', Advance(Len(Topics), "split"), j # i
        PROVE  Passed("resolve", j)
    BY <1>0, <2>1, <2>a, AdvanceFacts DEF Passed
  <2>4. CASE Refuse /\ UNCHANGED <<resolved, match>>
    <3>1. Resolved'
      BY <1>0, <2>3, <2>4 DEF Resolved
    <3>2. AllResolved'
      BY <2>4 DEF Refuse, AllResolved
    <3> QED
      BY <3>1, <3>2
  <2>5. CASE /\ Advance(Len(Topics), "split") /\ UNCHANGED <<resolved, match>>
             /\ t \in Packets => Matching(t) = {} /\ ~Ambiguous(t)
    <3>1. Resolved'
      BY <1>0, <2>3, <2>5 DEF Resolved
    <3>2. ASSUME NEW j \in 1..Len(Topics), Passed("resolve", j)' PROVE IsResolved(Topics[j])'
      <4>1. CASE j = i
        BY <2>0, <2>3, <2>5, <4>1 DEF IsResolved
      <4>2. CASE j # i
        <5>1. IsResolved(Topics[j])
          BY <2>a, <2>1, <2>5, <3>2, <4>2 DEF IInv, AllResolved
        <5> QED
          BY <2>3, <2>5, <5>1 DEF IsResolved
      <4> QED
        BY <4>1, <4>2
    <3> QED
      BY <3>1, <3>2 DEF AllResolved
  <2>6. CASE /\ Advance(Len(Topics), "split")
             /\ t \in Packets /\ Matching(t) # {} /\ ~Ambiguous(t)
             /\ resolved' = Append(resolved, t)
             /\ match' = [x \in DOMAIN match \cup {t} |-> IF x = t THEN MatchOf(t) ELSE match[x]]
    <3>1. DOMAIN match' = DOMAIN match \cup {t}
      BY <2>6
    <3>2. \A x \in DOMAIN match' : match'[x] = IF x = t THEN MatchOf(t) ELSE match[x]
      BY <2>6, <3>1
    <3>3. {resolved'[j] : j \in 1..Len(resolved')} = {resolved[j] : j \in 1..Len(resolved)} \cup {t}
      BY <1>0, <2>6, SetOfAppend
    <3>4. ASSUME NEW x \in DOMAIN match'
          PROVE  /\ x \in Packets /\ Matching(x) # {} /\ ~Ambiguous(x)
                 /\ match'[x] \in [rule : 1..MaxRules, out : Outputs]
      <4>1. CASE x = t
        BY <1>0, <2>6, <3>2, <4>1, MatchFacts
      <4>2. CASE x # t
        BY <1>0, <3>1, <3>2, <4>2 DEF Resolved
      <4> QED
        BY <4>1, <4>2
    <3>5. match' = [x \in DOMAIN match' |-> match'[x]]
      BY <2>6
    <3>6. Resolved'
      BY <1>0, <2>3, <3>1, <3>3, <3>4, <3>5 DEF Resolved
    <3>7. ASSUME NEW j \in 1..Len(Topics), Passed("resolve", j)' PROVE IsResolved(Topics[j])'
      <4>1. CASE j = i
        BY <2>0, <2>3, <2>6, <3>1, <4>1 DEF IsResolved
      <4>2. CASE j # i
        <5>1. IsResolved(Topics[j])
          BY <2>a, <2>1, <2>6, <3>7, <4>2 DEF IInv, AllResolved
        <5> QED
          BY <2>3, <3>1, <5>1 DEF IsResolved
      <4> QED
        BY <4>1, <4>2
    <3> QED
      BY <3>6, <3>7 DEF AllResolved
  <2> QED
    BY <2>2, <2>4, <2>5, <2>6
<1>2. CASE Partition \/ Partitioned \/ RecordsRead \/ RegisterCloud \/ CloudsRegistered \/ RegisterCopy
           \/ WriteTopic \/ UNCHANGED routing
  <2>1. UNCHANGED <<bag, mapping, resolved, match>>
    BY <1>2 DEF Partition, Partitioned, RecordsRead, RegisterCloud, CloudsRegistered, RegisterCopy,
           WriteTopic, routing, input
  <2>2. \A x : Matching(x)' = Matching(x) /\ (Ambiguous(x)' <=> Ambiguous(x))
    BY <2>1 DEF Matching, Ambiguous
  <2>3. Resolved'
    BY <1>0, <2>1, <2>2 DEF Resolved
  <2>4. \A x : IsResolved(x) => IsResolved(x)'
    BY <2>1, <2>2 DEF IsResolved
  <2>5. CASE UNCHANGED routing
    <3>1. UNCHANGED <<stage, i>>
      BY <2>5 DEF routing
    <3> QED
      BY <2>3, <2>4, <3>1 DEF IInv, AllResolved, Passed
  <2>6. CASE ~UNCHANGED routing
    <3>1. stage \notin {"resolve", "threw"}
      BY <1>2, <2>6 DEF Partition, Partitioned, RecordsRead, RegisterCloud, CloudsRegistered,
             RegisterCopy, WriteTopic
    <3>2. \A j \in 1..Len(Topics) : IsResolved(Topics[j])
      BY <3>1 DEF IInv, AllResolved, Passed
    <3> QED
      BY <2>3, <2>4, <3>2 DEF AllResolved
  <2> QED
    BY <2>5, <2>6
<1> QED
  BY <1>1, <1>2, Kinds

LEMMA SplitStep ==
  ASSUME IInv, [Next]_vars
  PROVE  Split'
<1>0. /\ Resolved /\ Split /\ stage \in Stages /\ i \in Nat \ {0}
      /\ resolved \in Seq(Packets) /\ decoded \in Seq(Packets)
      /\ Len(resolved) \in Nat /\ Len(decoded) \in Nat
  BY DEF IInv, Lists
<1>1. bag' = bag
  BY Kinds
<1>2. \A x : Decodes(x)' <=> Decodes(x)
  BY <1>1 DEF Decodes
<1>3. CASE Resolve
  <2>1. decoded' = decoded /\ Len(decoded) = 0 /\ stage = "resolve" /\ i <= Len(Topics)
    BY <1>3 DEF Resolve, IInv, Lists
  <2>2. stage' \in {"resolve", "threw", "split"} /\ (stage' = "split" => i' = 1)
    BY <1>3, <2>1 DEF Resolve, Refuse, Advance
  <2>3. \A j \in 1..Len(resolved') : ~(stage' = "split" /\ j < i')
    BY <2>2
  <2> QED
    BY <2>1, <2>2, <2>3 DEF Split, Passed
<1>4. CASE Partition
  <2>1. /\ stage = "split" /\ stage' = stage /\ i <= Len(resolved) /\ i' = i + 1
        /\ resolved' = resolved /\ match' = match /\ i \in 1..Len(resolved)
    BY <1>0, <1>4 DEF Partition
  <2>2. PICK t \in Packets : t = resolved[i] /\ t \in DOMAIN match
    BY <1>0, <2>1 DEF Resolved
  <2>3. \/ Decodes(t) /\ decoded' = Append(decoded, t)
        \/ ~Decodes(t) /\ decoded' = decoded
    BY <1>4, <2>2 DEF Partition
  <2>4. ToSet(decoded) \subseteq ToSet(decoded') /\ (Decodes(t) => t \in ToSet(decoded'))
    <3>1. ToSet(Append(decoded, t)) = ToSet(decoded) \cup {t}
      BY <1>0, SetOfAppend
    <3> QED
      BY <2>3, <3>1
  <2>5. ASSUME NEW k \in 1..Len(decoded') PROVE decoded'[k] \in DOMAIN match /\ Decodes(decoded'[k])
    <3>1. CASE decoded' = decoded
      BY <1>0, <2>5, <3>1 DEF Split
    <3>2. CASE Decodes(t) /\ decoded' = Append(decoded, t)
      <4>1. k \in 1..Len(decoded) + 1
        BY <1>0, <2>5, <3>2
      <4>2. CASE k = Len(decoded) + 1
        BY <1>0, <2>2, <3>2, <4>2
      <4>3. CASE k # Len(decoded) + 1
        <5>1. k \in 1..Len(decoded) /\ decoded'[k] = decoded[k]
          BY <1>0, <3>2, <4>1, <4>3
        <5> QED
          BY <1>0, <5>1 DEF Split
      <4> QED
        BY <4>2, <4>3
    <3> QED
      BY <2>3, <3>1, <3>2
  <2>6. ASSUME NEW j \in 1..Len(resolved), j < i', Decodes(resolved[j])
        PROVE  resolved[j] \in ToSet(decoded')
    <3>1. CASE j = i
      BY <2>2, <2>4, <2>6, <3>1
    <3>2. CASE j # i
      <4>1. Passed("split", j)
        BY <1>0, <2>1, <2>6, <3>2 DEF Passed
      <4>2. resolved[j] \in ToSet(decoded)
        BY <1>0, <2>1, <2>6, <4>1 DEF Split
      <4> QED
        BY <2>4, <4>2
    <3> QED
      BY <3>1, <3>2
  <2> QED
    BY <1>2, <2>1, <2>5, <2>6 DEF Split, Passed
<1>5. CASE Partitioned
  <2>1. /\ stage = "split" /\ stage' \in {"records", "clouds"} /\ i > Len(resolved)
        /\ UNCHANGED <<resolved, match, decoded>>
    BY <1>5 DEF Partitioned
  <2>2. \A j \in 1..Len(resolved) : Passed("split", j)
    BY <1>0, <2>1 DEF Passed
  <2> QED
    BY <1>0, <1>2, <2>1, <2>2 DEF Split
<1>6. CASE RecordsRead \/ RegisterCloud \/ CloudsRegistered \/ RegisterCopy \/ WriteTopic
  <2>1. /\ UNCHANGED <<resolved, match, decoded>>
        /\ stage \in {"records", "clouds", "copies", "write"}
    BY <1>6 DEF RecordsRead, RegisterCloud, CloudsRegistered, RegisterCopy, WriteTopic
  <2> QED
    BY <1>0, <1>2, <2>1 DEF Split, Passed
<1>7. CASE UNCHANGED routing
  BY <1>0, <1>2, <1>7 DEF Split, Passed, routing, input
<1> QED
  BY <1>3, <1>4, <1>5, <1>6, <1>7, Kinds

-----------------------------------------------------------------------------
(* Registering: the channels only grow, and no decoded topic takes the      *)
(* output name of another.                                                  *)

LEMMA ChannelsGrow ==
  ASSUME NEW name, NEW type, MakeChannel(name, type)
  PROVE  DOMAIN channels' = DOMAIN channels \cup {name}
  BY DEF MakeChannel

LEMMA ApartStep ==
  ASSUME IInv, [Next]_vars
  PROVE  CloudsApart' /\ CopiesFound'
<1>0. /\ CloudsApart /\ CopiesFound /\ stage \in Stages /\ i \in Nat \ {0}
      /\ Len(decoded) \in Nat /\ Len(Topics) \in Nat /\ Len(Topics) >= 1
  BY TopicFacts, LenProperties DEF IInv, Lists
<1>1. CASE Resolve \/ Partition
  <2>1. stage' \in {"resolve", "split", "threw"}
    BY <1>1 DEF Resolve, Refuse, Advance, Partition
  <2> QED
    BY <2>1 DEF CloudsApart, CopiesFound
<1>2. CASE Partitioned \/ RecordsRead
  <2>1. stage' \in {"records", "clouds"} /\ i' = 1
    BY <1>2 DEF Partitioned, RecordsRead, IInv, Lists
  <2>2. \A k \in 1..Len(decoded') : ~(k < 1)
    OBVIOUS
  <2> QED
    BY <2>1, <2>2 DEF CloudsApart, CopiesFound, Passed
<1>3. CASE RegisterCloud /\ ~UNCHANGED routing
  <2>1. stage = "clouds" /\ i <= Len(decoded) /\ UNCHANGED <<match, decoded>> /\ i \in 1..Len(decoded)
    BY <1>0, <1>3, CloudMoves
  <2>2. CASE stage' = "threw"
    BY <2>2 DEF CloudsApart, CopiesFound
  <2>3. CASE stage' # "threw"
    <3>1. ~Taken(i) /\ i' = i + 1 /\ stage' = "clouds" /\ MakeChannel(Out(i), Cloud)
      BY <1>3, <2>1, <2>3, CloudMoves DEF Refuse
    <3>2. DOMAIN channels' = DOMAIN channels \cup {Out(i)}
      BY <3>1, ChannelsGrow
    <3>3. \A k : Out(k)' = Out(k)
      BY <2>1 DEF Out
    <3>4. ASSUME NEW k \in 1..Len(decoded), k < i + 1
          PROVE  Out(k) \in DOMAIN channels' /\ \A j \in 1..k - 1 : Out(j) # Out(k)
      <4>1. CASE k = i
        BY <3>1, <3>2, <4>1 DEF Taken, Out
      <4>2. CASE k # i
        <5>1. k < i
          BY <1>0, <3>4, <4>2
        <5>2. Out(k) \in DOMAIN channels /\ \A j \in 1..k - 1 : Out(j) # Out(k)
          BY <1>0, <2>1, <5>1 DEF CloudsApart, Passed
        <5> QED
          BY <3>2, <5>2
      <4> QED
        BY <4>1, <4>2
    <3>5. CloudsApart'
      BY <2>1, <3>1, <3>3, <3>4 DEF CloudsApart, Passed
    <3> QED
      BY <3>1, <3>5 DEF CopiesFound
  <2> QED
    BY <2>2, <2>3
<1>4. CASE CloudsRegistered
  <2>1. stage = "clouds" /\ i > Len(decoded) /\ stage' = "copies" /\ i' = 1
        /\ UNCHANGED <<match, decoded, channels>>
    BY <1>4 DEF CloudsRegistered
  <2>2. \A k \in 1..Len(decoded) : Passed("clouds", k)
    BY <1>0, <2>1 DEF Passed
  <2>3. CloudsApart'
    BY <1>0, <2>1, <2>2 DEF CloudsApart, Out
  <2>4. \A j \in 1..Len(Topics) : ~(j < 1)
    OBVIOUS
  <2> QED
    BY <2>1, <2>3, <2>4 DEF CopiesFound, Passed
<1>5. CASE RegisterCopy /\ ~UNCHANGED routing
  <2>0. PICK t \in Names : t = Topics[i]
    BY <1>5, TopicFacts DEF RegisterCopy, IInv, Lists
  <2>1. stage = "copies" /\ i <= Len(Topics) /\ UNCHANGED <<match, decoded>>
    BY <1>5, CopyMoves DEF IInv, Lists
  <2>2. CASE Refuse
    BY <2>2 DEF Refuse, CloudsApart, CopiesFound
  <2>3. CASE ~Refuse
    <3>1. /\ Advance(Len(Topics), "write")
          /\ \/ ~Copies(t) /\ UNCHANGED channels
             \/ MakeChannel(t, TypeOf[t])
             \/ t \in DOMAIN channels /\ UNCHANGED channels
      BY <1>5, <2>0, <2>3, CopyMoves
    <3>2. DOMAIN channels \subseteq DOMAIN channels' /\ (Copies(t) => t \in DOMAIN channels')
      BY <3>1, ChannelsGrow
    <3>3. \A k : Out(k)' = Out(k)
      BY <2>1 DEF Out
    <3>4. \A x : Copies(x)' <=> Copies(x)
      BY <2>1 DEF Copies
    <3>5. stage' \in {"copies", "write"} /\ (stage' = "copies" => i' = i + 1)
      BY <2>1, <3>1 DEF Advance
    <3>6. CloudsApart'
      BY <1>0, <2>1, <3>2, <3>3, <3>5 DEF CloudsApart, Passed
    <3>7. ASSUME NEW j \in 1..Len(Topics), Passed("copies", j)', Copies(Topics[j])
          PROVE  Topics[j] \in DOMAIN channels'
      <4>1. CASE j = i
        BY <2>0, <3>2, <3>7, <4>1
      <4>2. CASE j # i
        <5>1. Passed("copies", j)
          BY <1>0, <2>1, <3>1, <3>7, <4>2, AdvanceFacts DEF Passed
        <5> QED
          BY <1>0, <2>1, <3>2, <3>7, <5>1 DEF CopiesFound
      <4> QED
        BY <4>1, <4>2
    <3>8. CopiesFound'
      BY <3>4, <3>7 DEF CopiesFound
    <3> QED
      BY <3>6, <3>8
  <2> QED
    BY <2>2, <2>3
<1>6. CASE WriteTopic
  <2>1. stage = "write" /\ stage' \in {"write", "end"} /\ UNCHANGED <<match, decoded, channels>>
    BY <1>6 DEF WriteTopic, Advance
  <2> QED
    BY <1>0, <2>1 DEF CloudsApart, CopiesFound, Copies, Passed, Out
<1>7. CASE UNCHANGED routing
  BY <1>0, <1>7 DEF CloudsApart, CopiesFound, Copies, Passed, Out, routing, input
<1> QED
  BY <1>1, <1>2, <1>3, <1>4, <1>5, <1>6, <1>7, Kinds

-----------------------------------------------------------------------------
(* What the channels name.                                                  *)

(* The steps that make a schema, and the others.                            *)
LEMMA SchemaSteps ==
  ASSUME IInv, [Next]_vars
  PROVE  \/ UNCHANGED <<channels, schemas, registry>>
         \/ ReadRecord /\ UNCHANGED <<channels, schemas>>
         \/ /\ UNCHANGED registry /\ stage \in {"clouds", "copies"}
            /\ \E name : \E type \in Types : MakeChannel(name, type) /\ ~Loads(type)
         \/ Loaded /\ UNCHANGED <<channels, registry>>
<1>1. CASE RegisterCloud
  <2>1. Cloud \in Types
    BY TopicFacts
  <2> QED
    BY <1>1, <2>1 DEF RegisterCloud, Load, records
<1>2. CASE RegisterCopy
  <2>1. Topics[i] \in Names
    BY <1>2, TopicFacts DEF RegisterCopy, IInv, Lists
  <2>2. PICK t \in Names : t = Topics[i]
    BY <2>1
  <2>3. TypeOf[t] \in Types
    BY TopicFacts
  <2> QED
    BY <1>2, <2>2, <2>3 DEF RegisterCopy, Load, records
<1>3. CASE Loaded
  BY <1>3 DEF Loaded, records
<1>4. CASE ReadRecord
  BY <1>4 DEF ReadRecord
<1>5. CASE Resolve \/ Partition \/ Partitioned \/ RecordsRead \/ CloudsRegistered \/ WriteTopic
           \/ LoadStep \/ UNCHANGED vars
  BY <1>5 DEF Resolve, Partition, Partitioned, RecordsRead, CloudsRegistered, WriteTopic, LoadStep,
         Append_definition, vars, records
<1> QED
  BY <1>1, <1>2, <1>3, <1>4, <1>5 DEF Next

(* A schema is appended, of a type that had none.                           *)
LEMMA SchemaAdded ==
  ASSUME Channels, NEW new \in SchemaRecords, ~Known(new.type), schemas' = Append(schemas, new)
  PROVE  /\ schemas' \in Seq(SchemaRecords) /\ Len(schemas') = Len(schemas) + 1 /\ Len(schemas) \in Nat
         /\ schemas'[Len(schemas) + 1] = new
         /\ \A s \in 1..Len(schemas) : schemas'[s] = schemas[s]
         /\ \A r, s \in 1..Len(schemas') : schemas'[r].type = schemas'[s].type => r = s
<1>0. schemas \in Seq(SchemaRecords) /\ Len(schemas) \in Nat /\ DOMAIN schemas = 1..Len(schemas)
  BY LenProperties DEF Channels
<1>1. /\ schemas' \in Seq(SchemaRecords) /\ Len(schemas') = Len(schemas) + 1
      /\ schemas'[Len(schemas) + 1] = new
      /\ \A s \in 1..Len(schemas) : schemas'[s] = schemas[s]
  BY <1>0
<1>2. \A s \in 1..Len(schemas) : schemas[s].type # new.type
  BY <1>0 DEF Known
<1>3. ASSUME NEW r \in 1..Len(schemas'), NEW s \in 1..Len(schemas'), schemas'[r].type = schemas'[s].type
      PROVE  r = s
  <2>1. CASE r \in 1..Len(schemas) /\ s \in 1..Len(schemas)
    BY <1>1, <1>3, <2>1 DEF Channels
  <2>2. CASE ~(r \in 1..Len(schemas) /\ s \in 1..Len(schemas))
    BY <1>0, <1>1, <1>2, <1>3, <2>2
  <2> QED
    BY <2>1, <2>2
<1> QED
  BY <1>0, <1>1, <1>3

(* What intern_schema makes for a type that needs no load.                  *)
LEMMA SchemaFacts ==
  ASSUME Records, NEW type \in Types, ~Known(type), ~Loads(type)
  PROVE  /\ Schema(type) \in SchemaRecords /\ Schema(type).type = type
         /\ Writer = "definition" => Schema(type).text \in Given(bag.machine, type)
<1>1. CASE Writer = "definition"
  <2>1. type \in DOMAIN registry
    BY <1>1 DEF Loads
  <2>2. registry[type] \in Given(bag.machine, type)
    BY <2>1 DEF Records
  <2>3. registry[type] \in {r.text : r \in bag.machine.records}
    BY <2>2 DEF Given
  <2>4. Schema(type) = [type |-> type, from |-> "bag", text |-> registry[type]]
    BY <1>1 DEF Schema
  <2> QED
    BY <2>2, <2>3, <2>4 DEF SchemaRecords, Sources
<1>2. CASE Writer # "definition"
  <2>1. Schema(type) = [type |-> type, from |-> "rosbag2", text |-> <<>>]
    BY <1>2 DEF Schema, NoText
  <2>2. <<>> \in Seq(DOMAIN Install)
    OBVIOUS
  <2> QED
    BY <1>2, <2>1, <2>2 DEF SchemaRecords, Sources
<1> QED
  BY <1>1, <1>2

LEMMA MadeChannel ==
  ASSUME Channels, Records, NEW name, NEW type \in Types, MakeChannel(name, type), ~Loads(type),
         bag' = bag
  PROVE  Channels'
<1>0. /\ schemas \in Seq(SchemaRecords) /\ Len(schemas) \in Nat
      /\ DOMAIN schemas = 1..Len(schemas)
  BY LenProperties DEF Channels
<1>1. SchemaRecords' = SchemaRecords
  BY DEF SchemaRecords, Install
<1>3. PICK id : id = SchemaId(type)
  OBVIOUS
<1>4. /\ DOMAIN channels' = DOMAIN channels \cup {name}
      /\ \A n \in DOMAIN channels' :
           channels'[n] = IF n = name THEN [type |-> type, schema |-> id] ELSE channels[n]
      /\ channels' = [n \in DOMAIN channels' |-> channels'[n]]
  BY <1>3 DEF MakeChannel
<1>5. /\ schemas' \in Seq(SchemaRecords) /\ id \in 1..Len(schemas') /\ Len(schemas) <= Len(schemas')
      /\ schemas'[id].type = type /\ \A s \in 1..Len(schemas) : schemas'[s] = schemas[s]
      /\ \A r, s \in 1..Len(schemas') : schemas'[r].type = schemas'[s].type => r = s
  <2>1. CASE Known(type)
    <3>1. schemas' = schemas
      BY <2>1 DEF MakeChannel
    <3>2. \E s \in 1..Len(schemas) : schemas[s].type = type
      BY <1>0, <2>1 DEF Known
    <3>3. id \in 1..Len(schemas) /\ schemas[id].type = type
      BY <1>0, <1>3, <2>1, <3>2 DEF SchemaId
    <3> QED
      BY <1>0, <3>1, <3>3 DEF Channels
  <2>2. CASE ~Known(type)
    <3>0. PICK new \in SchemaRecords : new = Schema(type) /\ new.type = type
      BY <2>2, SchemaFacts
    <3>1. schemas' = Append(schemas, new) /\ id = Len(schemas) + 1
      BY <1>3, <2>2, <3>0 DEF MakeChannel, SchemaId
    <3> QED
      BY <1>0, <2>2, <3>0, <3>1, SchemaAdded
  <2> QED
    BY <2>1, <2>2
<1>6. ASSUME NEW n \in DOMAIN channels'
      PROVE  /\ channels'[n] \in [type : Types, schema : 1..Len(schemas')]
             /\ schemas'[channels'[n].schema].type = channels'[n].type
  <2>1. CASE n = name
    BY <1>4, <1>5, <2>1
  <2>2. CASE n # name
    <3>1. /\ channels'[n] = channels[n] /\ channels[n] \in [type : Types, schema : 1..Len(schemas)]
          /\ schemas[channels[n].schema].type = channels[n].type
      BY <1>4, <2>2 DEF Channels
    <3>2. Len(schemas') \in Nat
      BY <1>5, LenProperties
    <3> QED
      BY <1>0, <1>5, <3>1, <3>2
  <2> QED
    BY <2>1, <2>2
<1> QED
  BY <1>1, <1>4, <1>5, <1>6 DEF Channels

(* What a load makes.                                                       *)
LEMMA LoadedRecord ==
  ASSUME IInv, Loaded
  PROVE  \E new \in SchemaRecords :
           /\ schemas' = Append(schemas, new) /\ new.type = loading /\ ~Known(new.type)
           /\ \/ todo = <<>> /\ new.text = text
              \/ Missing(Install) /\ new.text = NoText
<1>0. loading \in Types /\ ~Known(loading) /\ text \in Seq(DOMAIN Install)
  BY DEF IInv, Loaded, Loading, Walk
<1>1. <<>> \in Seq(DOMAIN Install)
  OBVIOUS
<1>2. CASE todo = <<>> /\ schemas' = Append(schemas, [type |-> loading, from |-> "ament", text |-> text])
  <2>1. [type |-> loading, from |-> "ament", text |-> text] \in SchemaRecords
    BY <1>0 DEF SchemaRecords, Sources
  <2> QED
    BY <1>0, <1>2, <2>1
<1>3. CASE /\ Missing(Install)
           /\ schemas' = Append(schemas, [type |-> loading, from |-> "empty", text |-> NoText])
  <2>1. [type |-> loading, from |-> "empty", text |-> NoText] \in SchemaRecords
    BY <1>0, <1>1 DEF SchemaRecords, Sources, NoText
  <2> QED
    BY <1>0, <1>3, <2>1
<1> QED
  BY <1>2, <1>3 DEF Loaded, Install

LEMMA ChannelsStep ==
  ASSUME IInv, [Next]_vars
  PROVE  Channels'
<1>0. Channels /\ Records /\ bag' = bag
  BY Kinds DEF IInv
<1>1. SchemaRecords' = SchemaRecords
  BY <1>0 DEF SchemaRecords, Install
<1>2. CASE UNCHANGED <<channels, schemas>>
  BY <1>0, <1>1, <1>2 DEF Channels
<1>3. CASE \E name : \E type \in Types : MakeChannel(name, type) /\ ~Loads(type)
  BY <1>0, <1>3, MadeChannel
<1>4. CASE Loaded /\ UNCHANGED channels
  <2>1. PICK new \in SchemaRecords : schemas' = Append(schemas, new) /\ ~Known(new.type)
    BY <1>4, LoadedRecord
  <2>2. /\ schemas' \in Seq(SchemaRecords) /\ Len(schemas') = Len(schemas) + 1 /\ Len(schemas) \in Nat
        /\ \A s \in 1..Len(schemas) : schemas'[s] = schemas[s]
        /\ \A r, s \in 1..Len(schemas') : schemas'[r].type = schemas'[s].type => r = s
    BY <1>0, <2>1, SchemaAdded
  <2>3. ASSUME NEW n \in DOMAIN channels
        PROVE  /\ channels[n] \in [type : Types, schema : 1..Len(schemas')]
               /\ schemas'[channels[n].schema].type = channels[n].type
    <3>1. /\ channels[n] \in [type : Types, schema : 1..Len(schemas)]
          /\ schemas[channels[n].schema].type = channels[n].type
      BY <1>0 DEF Channels
    <3> QED
      BY <2>2, <3>1
  <2> QED
    BY <1>0, <1>1, <1>4, <2>2, <2>3 DEF Channels
<1> QED
  BY <1>2, <1>3, <1>4, SchemaSteps

LEMMA OriginsStep ==
  ASSUME IInv, [Next]_vars
  PROVE  Origins'
<1>0. /\ Origins /\ stage \in Stages /\ i \in Nat \ {0} /\ Len(decoded) \in Nat
  BY LenProperties DEF IInv, Lists
<1>a. ASSUME NEW name, NEW type, MakeChannel(name, type)
      PROVE  /\ DOMAIN channels' = DOMAIN channels \cup {name} /\ channels'[name].type = type
             /\ \A n \in DOMAIN channels' : n # name => channels'[n] = channels[n]
  BY <1>a DEF MakeChannel
<1>1. CASE Resolve \/ Partition
  <2>1. DOMAIN channels = {} /\ channels' = channels
    BY <1>0, <1>1 DEF Resolve, Partition, Origins
  <2> QED
    BY <2>1 DEF Origins
<1>2. CASE RegisterCloud /\ ~UNCHANGED routing
  <2>1. /\ stage = "clouds" /\ i \in 1..Len(decoded) /\ UNCHANGED <<match, decoded>>
        /\ stage' \in {"clouds", "threw"}
        /\ UNCHANGED channels \/ MakeChannel(Out(i), Cloud)
    <3>1. Refuse => UNCHANGED channels
      <4>1. ASSUME ~UNCHANGED channels PROVE i' = i + 1
        BY <1>2, <4>1 DEF RegisterCloud, Load, MakeChannel
      <4> QED
        BY <1>0, <4>1 DEF Refuse
    <3> QED
      BY <1>0, <1>2, <3>1, CloudMoves DEF Refuse
  <2>2. \A k : Out(k)' = Out(k)
    BY <2>1 DEF Out
  <2>3. ASSUME NEW n \in DOMAIN channels'
        PROVE  \/ channels'[n].type = Cloud /\ \E k \in 1..Len(decoded) : Out(k) = n
               \/ channels'[n].type = TypeOf[n] /\ n \in Names \ ToSet(decoded)
    <3>1. CASE n \in DOMAIN channels /\ channels'[n] = channels[n]
      BY <1>0, <3>1 DEF Origins
    <3>2. CASE MakeChannel(Out(i), Cloud) /\ n = Out(i)
      BY <1>a, <2>1, <3>2
    <3> QED
      BY <1>a, <2>1, <2>3, <3>1, <3>2
  <2> QED
    BY <2>1, <2>2, <2>3 DEF Origins
<1>3. CASE RegisterCopy /\ ~UNCHANGED routing
  <2>0. PICK t \in Names : t = Topics[i]
    BY <1>3, TopicFacts DEF RegisterCopy, IInv, Lists
  <2>1. /\ stage = "copies" /\ UNCHANGED <<match, decoded>> /\ stage' \in {"copies", "write", "threw"}
        /\ UNCHANGED channels \/ (MakeChannel(t, TypeOf[t]) /\ t \notin ToSet(decoded))
    BY <1>3, <2>0 DEF RegisterCopy, Refuse, Advance, Copies, Load
  <2>2. \A k : Out(k)' = Out(k)
    BY <2>1 DEF Out
  <2>3. ASSUME NEW n \in DOMAIN channels'
        PROVE  \/ channels'[n].type = Cloud /\ \E k \in 1..Len(decoded) : Out(k) = n
               \/ channels'[n].type = TypeOf[n] /\ n \in Names \ ToSet(decoded)
    <3>1. CASE n \in DOMAIN channels /\ channels'[n] = channels[n]
      BY <1>0, <3>1 DEF Origins
    <3>2. CASE MakeChannel(t, TypeOf[t]) /\ t \notin ToSet(decoded) /\ n = t
      BY <1>a, <3>2
    <3> QED
      BY <1>a, <2>1, <2>3, <3>1, <3>2
  <2> QED
    BY <2>1, <2>2, <2>3 DEF Origins
<1>4. CASE Partitioned \/ RecordsRead \/ CloudsRegistered \/ WriteTopic \/ UNCHANGED routing
  <2>1. /\ UNCHANGED <<match, decoded, channels>>
        /\ stage' \in {"resolve", "split", "records"} => stage \in {"resolve", "split", "records"}
    BY <1>4 DEF Partitioned, RecordsRead, CloudsRegistered, WriteTopic, Advance, routing
  <2>2. \A k : Out(k)' = Out(k)
    BY <2>1 DEF Out
  <2> QED
    BY <1>0, <2>1, <2>2 DEF Origins
<1> QED
  BY <1>1, <1>2, <1>3, <1>4, Kinds

(* A channel keeps the type it was made for, and rosbag2's writer refuses a *)
(* copy that finds a channel of another type.                               *)
LEMMA TypesStep ==
  ASSUME IInv, [Next]_vars
  PROVE  ChannelTypes'
<1>0. /\ ChannelTypes /\ CloudsApart /\ CopiesFound /\ stage \in Stages /\ i \in Nat \ {0}
      /\ Len(decoded) \in Nat /\ Len(Topics) \in Nat /\ Len(Topics) >= 1
  BY TopicFacts, LenProperties DEF IInv, Lists
<1>a. ASSUME NEW name, NEW type, MakeChannel(name, type)
      PROVE  /\ DOMAIN channels' = DOMAIN channels \cup {name} /\ channels'[name].type = type
             /\ \A n \in DOMAIN channels' : n # name => channels'[n] = channels[n]
  BY <1>a DEF MakeChannel
<1>b. ReadRecord \/ Writer' = Writer
  <2>1. bag' = bag
    BY Kinds
  <2> QED
    BY <2>1, SchemaSteps DEF Writer
<1>c. UNCHANGED decoded => \A x : Copies(x)' <=> Copies(x)
  BY DEF Copies
<1>d. UNCHANGED <<match, decoded>> => \A k : Out(k)' = Out(k)
  BY DEF Out
<1>1. CASE Resolve \/ Partition \/ ReadRecord
  <2>1. stage' \in {"resolve", "split", "records", "threw"}
    BY <1>1 DEF Resolve, Refuse, Advance, Partition, ReadRecord
  <2> QED
    BY <2>1 DEF ChannelTypes
<1>2. CASE Partitioned \/ RecordsRead
  <2>1. stage' \in {"records", "clouds"} /\ i' = 1
    BY <1>2 DEF Partitioned, RecordsRead, IInv, Lists
  <2>2. \A k \in 1..Len(decoded') : ~(k < 1)
    OBVIOUS
  <2> QED
    BY <2>1, <2>2 DEF ChannelTypes, Passed
<1>3. CASE RegisterCloud /\ ~UNCHANGED routing
  <2>1. stage = "clouds" /\ i <= Len(decoded) /\ UNCHANGED <<match, decoded>> /\ i \in 1..Len(decoded)
    BY <1>0, <1>3, CloudMoves
  <2>2. CASE stage' = "threw"
    BY <2>2 DEF ChannelTypes
  <2>3. CASE stage' # "threw"
    <3>1. ~Taken(i) /\ i' = i + 1 /\ stage' = "clouds" /\ MakeChannel(Out(i), Cloud)
      BY <1>3, <2>1, <2>3, CloudMoves DEF Refuse
    <3>2. ASSUME NEW k \in 1..Len(decoded), k < i + 1
          PROVE  channels'[Out(k)].type = Cloud
      <4>1. CASE k = i
        BY <1>a, <3>1, <4>1
      <4>2. CASE k # i
        <5>1. k < i /\ k \in 1..i - 1
          BY <1>0, <3>2, <4>2
        <5>2. Out(k) \in DOMAIN channels /\ channels[Out(k)].type = Cloud
          BY <1>0, <2>1, <5>1 DEF CloudsApart, ChannelTypes, Passed
        <5>3. Out(k) # Out(i)
          BY <3>1, <5>1 DEF Taken, Out
        <5> QED
          BY <1>a, <3>1, <5>2, <5>3
      <4> QED
        BY <4>1, <4>2
    <3> QED
      BY <1>d, <2>1, <3>1, <3>2 DEF ChannelTypes, Passed
  <2> QED
    BY <2>2, <2>3
<1>4. CASE CloudsRegistered
  <2>1. stage = "clouds" /\ i > Len(decoded) /\ stage' = "copies" /\ i' = 1
        /\ UNCHANGED <<match, decoded, channels>>
    BY <1>4 DEF CloudsRegistered
  <2>2. \A k \in 1..Len(decoded) : channels[Out(k)].type = Cloud
    BY <1>0, <2>1 DEF ChannelTypes, Passed
  <2>3. \A j \in 1..Len(Topics) : ~(j < 1)
    OBVIOUS
  <2> QED
    BY <1>d, <2>1, <2>2, <2>3 DEF ChannelTypes, Passed
<1>5. CASE RegisterCopy /\ ~UNCHANGED routing
  <2>0. PICK t \in Names : t = Topics[i]
    BY <1>5, TopicFacts DEF RegisterCopy, IInv, Lists
  <2>1. stage = "copies" /\ i <= Len(Topics) /\ UNCHANGED <<match, decoded>>
    BY <1>5, CopyMoves DEF IInv, Lists
  <2>2. CASE Refuse
    BY <2>2 DEF Refuse, ChannelTypes
  <2>3. CASE ~Refuse
    <3>1. /\ Advance(Len(Topics), "write")
          /\ \/ ~Copies(t) /\ UNCHANGED channels
             \/ t \notin DOMAIN channels /\ MakeChannel(t, TypeOf[t])
             \/ t \in DOMAIN channels /\ UNCHANGED channels /\ Accepted(t, TypeOf[t])
      BY <1>5, <2>0, <2>3, CopyMoves
    <3>2. \A n \in DOMAIN channels : channels'[n] = channels[n]
      BY <1>a, <3>1
    <3>3. stage' \in {"copies", "write"} /\ (stage' = "copies" => i' = i + 1)
      BY <2>1, <3>1 DEF Advance
    <3>4. \A k \in 1..Len(decoded) : channels'[Out(k)].type = Cloud
      BY <1>0, <2>1, <3>2 DEF ChannelTypes, CloudsApart, Passed
    <3>5. Writer' = Writer
      BY <1>b, <2>1 DEF ReadRecord
    <3>6. ASSUME Writer = "rosbag2", NEW j \in 1..Len(Topics), Passed("copies", j)', Copies(Topics[j])
          PROVE  channels'[Topics[j]].type = TypeOf[Topics[j]]
      <4>1. CASE j = i
        <5>1. CASE t \notin DOMAIN channels /\ MakeChannel(t, TypeOf[t])
          BY <1>a, <2>0, <4>1, <5>1
        <5>2. CASE UNCHANGED channels /\ Accepted(t, TypeOf[t])
          BY <2>0, <3>6, <4>1, <5>2 DEF Accepted
        <5> QED
          BY <2>0, <3>1, <3>6, <4>1, <5>1, <5>2
      <4>2. CASE j # i
        <5>1. Passed("copies", j)
          BY <1>0, <2>1, <3>1, <3>6, <4>2, AdvanceFacts DEF Passed
        <5>2. Topics[j] \in DOMAIN channels /\ channels[Topics[j]].type = TypeOf[Topics[j]]
          BY <1>0, <2>1, <3>6, <5>1 DEF CopiesFound, ChannelTypes
        <5> QED
          BY <3>2, <5>2
      <4> QED
        BY <4>1, <4>2
    <3> QED
      BY <1>c, <1>d, <2>1, <3>3, <3>4, <3>5, <3>6 DEF ChannelTypes
  <2> QED
    BY <2>2, <2>3
<1>6. CASE WriteTopic
  <2>1. /\ stage = "write" /\ stage' \in {"write", "end"} /\ UNCHANGED <<match, decoded, channels>>
        /\ Writer' = Writer
    BY <1>6, <1>b DEF WriteTopic, Advance, ReadRecord
  <2> QED
    BY <1>0, <1>c, <1>d, <2>1 DEF ChannelTypes, Passed
<1>7. CASE UNCHANGED routing /\ Writer' = Writer
  BY <1>0, <1>c, <1>d, <1>7 DEF ChannelTypes, Passed, routing
<1> QED
  BY <1>b, <1>1, <1>2, <1>3, <1>4, <1>5, <1>6, <1>7, Kinds

-----------------------------------------------------------------------------
(* Definitions: the records of the bag.                                     *)

LEMMA RecordsStep ==
  ASSUME IInv, [Next]_vars
  PROVE  Records'
<1>0. /\ Records /\ Loading /\ bag' = bag /\ stage \in Stages /\ i \in Nat \ {0} /\ Len(Topics) \in Nat
      /\ loading # None => stage \in {"clouds", "copies"}
  BY Kinds, TopicFacts DEF IInv, Lists, Loading
<1>1. CASE ReadRecord
  <2>1. PICK r \in unread : Add(r)
    BY <1>1 DEF ReadRecord
  <2>2. stage = "records" /\ stage' = stage /\ UNCHANGED <<schemas, loading>>
    BY <1>1, <2>1 DEF ReadRecord, Add, loader
  <2>3. unread' = unread \ {r} /\ r \in bag.machine.records
    BY <1>0, <2>1 DEF Add, Records
  <2>4. \/ (r.text = NoText \/ r.type \in DOMAIN registry) /\ registry' = registry
        \/ /\ r.text # NoText /\ DOMAIN registry' = DOMAIN registry \cup {r.type}
           /\ \A t \in DOMAIN registry' : registry'[t] = IF t = r.type THEN r.text ELSE registry[t]
    BY <2>1 DEF Add
  <2>5. \A t \in DOMAIN registry' : registry'[t] \in Given(bag.machine, t)
    <3>1. \A t \in DOMAIN registry : registry[t] \in Given(bag.machine, t)
      BY <1>0 DEF Records
    <3>2. r.text # NoText => r.text \in Given(bag.machine, r.type)
      BY <2>3 DEF Given
    <3> QED
      BY <2>4, <3>1, <3>2
  <2>6. ASSUME NEW s \in bag.machine.records \ unread', s.text # NoText
        PROVE  s.type \in DOMAIN registry'
    <3>1. s = r \/ s \in bag.machine.records \ unread
      BY <2>3, <2>6
    <3>2. s # r => s.type \in DOMAIN registry
      BY <1>0, <2>6, <3>1 DEF Records
    <3> QED
      BY <2>4, <2>6, <3>2
  <2>7. schemas' = <<>> /\ loading' = None
    BY <1>0, <2>2 DEF Records
  <2>8. unread' \subseteq bag.machine.records
    BY <1>0, <2>3 DEF Records
  <2> QED
    BY <1>0, <2>2, <2>5, <2>6, <2>7, <2>8 DEF Records
<1>2. CASE ~ReadRecord
  <2>1. UNCHANGED <<unread, registry>>
    BY <1>2 DEF Next, Resolve, Partition, Partitioned, RecordsRead, RegisterCloud, CloudsRegistered,
           RegisterCopy, LoadStep, Append_definition, Loaded, WriteTopic, vars, records
  <2>2. /\ stage' \in {"resolve", "split", "records"} =>
             stage \in {"resolve", "split", "records"} /\ UNCHANGED <<schemas, loading>>
        /\ stage' \in {"clouds", "copies"} =>
             \/ stage \in {"clouds", "copies"}
             \/ ~bag.forwards
             \/ unread = {}
    <3>1. CASE Resolve
      BY <3>1 DEF Resolve, Refuse, Advance, loader
    <3>2. CASE Partition \/ Partitioned \/ RecordsRead
      BY <1>0, <3>2 DEF Partition, Partitioned, RecordsRead, loader
    <3>3. CASE RegisterCloud \/ RegisterCopy
      BY <3>3 DEF RegisterCloud, RegisterCopy, Load, Refuse, Advance
    <3>4. CASE CloudsRegistered \/ WriteTopic
      BY <3>4 DEF CloudsRegistered, WriteTopic, Advance
    <3>5. CASE LoadStep \/ Loaded
      BY <1>0, <3>5 DEF LoadStep, Loaded
    <3>6. CASE UNCHANGED vars
      BY <3>6 DEF vars, loader
    <3> QED
      BY <1>2, <3>1, <3>2, <3>3, <3>4, <3>5, <3>6 DEF Next
  <2> QED
    BY <1>0, <2>1, <2>2 DEF Records
<1> QED
  BY <1>1, <1>2

-----------------------------------------------------------------------------
(* Definitions: the walk over the installed files.                          *)

LEMMA SetOfConcat ==
  ASSUME NEW S, NEW p \in Seq(S), NEW q \in Seq(S)
  PROVE  p \o q \in Seq(S) /\ ToSet(p \o q) = ToSet(p) \cup ToSet(q)
<1>1. /\ p \o q \in Seq(S) /\ Len(p \o q) = Len(p) + Len(q) /\ Len(p) \in Nat /\ Len(q) \in Nat
      /\ \A k \in 1..Len(p) : (p \o q)[k] = p[k]
      /\ \A k \in 1..Len(q) : (p \o q)[Len(p) + k] = q[k]
  BY ConcatProperties, LenProperties
<1>2. ASSUME NEW k \in 1..Len(p) + Len(q) PROVE k \in 1..Len(p) \/ \E j \in 1..Len(q) : k = Len(p) + j
  <2>1. CASE k <= Len(p)
    BY <1>1, <2>1
  <2>2. CASE k > Len(p)
    <3>1. k - Len(p) \in 1..Len(q) /\ k = Len(p) + (k - Len(p))
      BY <1>1, <2>2
    <3> QED
      BY <3>1
  <2> QED
    BY <1>1, <2>1, <2>2
<1>3. \A k \in 1..Len(p) : k \in 1..Len(p) + Len(q)
  BY <1>1
<1>4. \A k \in 1..Len(q) : Len(p) + k \in 1..Len(p) + Len(q)
  BY <1>1
<1>5. ASSUME NEW k \in 1..Len(p) + Len(q)
      PROVE  (p \o q)[k] \in {p[j] : j \in 1..Len(p)} \cup {q[j] : j \in 1..Len(q)}
  BY <1>1, <1>2
<1>6. \A k \in 1..Len(p) : p[k] \in {(p \o q)[j] : j \in 1..Len(p) + Len(q)}
  BY <1>1, <1>3
<1>7. ASSUME NEW k \in 1..Len(q) PROVE q[k] \in {(p \o q)[j] : j \in 1..Len(p) + Len(q)}
  BY <1>1, <1>4
<1>8. {(p \o q)[k] : k \in 1..Len(p) + Len(q)} = {p[k] : k \in 1..Len(p)} \cup {q[k] : k \in 1..Len(q)}
  BY <1>5, <1>6, <1>7
<1> QED
  BY <1>1, <1>8, SetOfList

LEMMA SetOfTail ==
  ASSUME NEW S, NEW q \in Seq(S), q # <<>>
  PROVE  /\ Head(q) \in S /\ Tail(q) \in Seq(S)
         /\ ToSet(q) = {Head(q)} \cup ToSet(Tail(q))
<1>1. /\ Head(q) \in S /\ Tail(q) \in Seq(S) /\ Head(q) = q[1]
      /\ Len(q) \in Nat \ {0} /\ Len(Tail(q)) = Len(q) - 1
      /\ \A k \in 1..Len(Tail(q)) : Tail(q)[k] = q[k + 1]
  BY HeadTailProperties, LenProperties, EmptySeq
<1>2. ASSUME NEW k \in 1..Len(q) PROVE k = 1 \/ \E j \in 1..Len(q) - 1 : k = j + 1
  <2>1. k # 1 => k - 1 \in 1..Len(q) - 1 /\ k = (k - 1) + 1
    BY <1>1
  <2> QED
    BY <2>1
<1>3. \A j \in 1..Len(q) - 1 : j + 1 \in 1..Len(q)
  BY <1>1
<1>4. 1 \in 1..Len(q)
  BY <1>1
<1>5. {q[k] : k \in 1..Len(q)} = {q[1]} \cup {Tail(q)[k] : k \in 1..Len(q) - 1}
  BY <1>1, <1>2, <1>3, <1>4
<1> QED
  BY <1>1, <1>5, SetOfList

(* The calls made for the files an installed type uses.                     *)
LEMMA CallsFacts ==
  ASSUME NEW install, NEW type, install[type] \in Seq(ToSet(install[type]))
  PROVE  /\ Calls(install, type) \in Seq({Used(d) : d \in ToSet(install[type])})
         /\ ToSet(Calls(install, type)) = {Used(d) : d \in ToSet(install[type])}
<1>1. PICK q : q = install[type]
  OBVIOUS
<1>2. PICK C : C = Calls(install, type)
  OBVIOUS
<1>3. q \in Seq(ToSet(q)) /\ Len(q) \in Nat /\ DOMAIN q = 1..Len(q)
  BY <1>1, LenProperties
<1>4. ToSet(q) = {q[k] : k \in 1..Len(q)}
  BY <1>3, SetOfList
<1>5. C = [k \in 1..Len(q) |-> Used(q[k])]
  BY <1>1, <1>2, <1>3 DEF Calls, Used
<1>6. C \in Seq({Used(d) : d \in ToSet(q)}) /\ Len(C) = Len(q)
  BY <1>3, <1>4, <1>5
<1>7. ToSet(C) = {C[k] : k \in 1..Len(q)}
  BY <1>6, SetOfList
<1>8. \A k \in 1..Len(q) : C[k] = Used(q[k])
  BY <1>5
<1>9. ToSet(C) = {Used(d) : d \in ToSet(q)}
  BY <1>4, <1>7, <1>8
<1> QED
  BY <1>1, <1>2, <1>6, <1>9

(* One call of append_definition.                                           *)
LEMMA WalkLoads ==
  ASSUME IInv, LoadStep
  PROVE  Walk'
<1>1. loading' = loading /\ bag' = bag /\ loading # None /\ todo # <<>> /\ Install' = Install
  BY DEF LoadStep, Append_definition, input, Install
<1>2. PICK install, type : install = Install /\ type = loading
  OBVIOUS
<1>3. PICK callees : callees = Callees(install, type)
  OBVIOUS
<1>4. /\ seen \subseteq callees /\ todo \in Seq(callees)
      /\ text \in Seq(DOMAIN install) /\ ToSet(text) = {x.type : x \in seen}
      /\ \A x \in seen : \A t \in ToSet(install[x.type]) : Used(t) \in seen \cup ToSet(todo)
      /\ \/ text = <<>> /\ seen = {} /\ todo = <<First(type)>>
         \/ text # <<>> /\ text[1] = type /\ First(type) \in seen \ ToSet(todo)
      /\ UsesItself(install, type) \/ IsInjective(text)
  BY <1>1, <1>2, <1>3 DEF IInv, Walk
<1>9. PICK x, rest : x = Head(todo) /\ rest = Tail(todo)
  OBVIOUS
<1>5. /\ x \in callees /\ rest \in Seq(callees) /\ ToSet(todo) = {x} \cup ToSet(rest)
      /\ x = Head(todo) /\ rest = Tail(todo)
  BY <1>1, <1>4, <1>9, SetOfTail
<1>6. SUFFICES
        /\ seen' \subseteq callees /\ todo' \in Seq(callees)
        /\ text' \in Seq(DOMAIN install) /\ ToSet(text') = {y.type : y \in seen'}
        /\ \A y \in seen' : \A t \in ToSet(install[y.type]) : Used(t) \in seen' \cup ToSet(todo')
        /\ text' # <<>> /\ text'[1] = type /\ First(type) \in seen' \ ToSet(todo')
        /\ UsesItself(install, type) \/ IsInjective(text')
  BY <1>1, <1>2, <1>3 DEF Walk
<1>7. CASE x \in seen /\ todo' = rest /\ UNCHANGED <<seen, text>>
  <2>1. text # <<>>
    BY <1>4, <1>7
  <2> QED
    BY <1>4, <1>5, <1>7, <2>1
<1>8. CASE /\ x \notin seen /\ x.type \in DOMAIN install
           /\ todo' = Calls(install, x.type) \o rest
           /\ seen' = seen \cup {x} /\ text' = Append(text, x.type)
  <2>1. PICK calls : calls = Calls(install, x.type)
    OBVIOUS
  <2>2. install[x.type] \in Seq(ToSet(install[x.type]))
    BY <1>2, <1>8, InstallFacts DEF IInv
  <2>3. /\ calls \in Seq({Used(d) : d \in ToSet(install[x.type])})
        /\ ToSet(calls) = {Used(d) : d \in ToSet(install[x.type])}
    BY <2>1, <2>2, CallsFacts
  <2>4. /\ \A d \in ToSet(install[x.type]) : Used(d) \in callees
        /\ x = First(x.type) \/ x = Used(x.type)
        /\ x = First(x.type) => x.type = type
    BY <1>3, <1>5, <1>8, CalleeFacts
  <2>5. calls \in Seq(callees)
    BY <2>3, <2>4
  <2>6. todo' \in Seq(callees) /\ ToSet(todo') = ToSet(calls) \cup ToSet(rest)
    <3>1. calls \o rest \in Seq(callees) /\ ToSet(calls \o rest) = ToSet(calls) \cup ToSet(rest)
      BY <1>5, <2>5, SetOfConcat
    <3> QED
      BY <1>8, <2>1, <3>1
  <2>7. /\ text' \in Seq(DOMAIN install) /\ Len(text) \in Nat /\ Len(text') = Len(text) + 1
        /\ text'[Len(text) + 1] = x.type /\ \A k \in 1..Len(text) : text'[k] = text[k]
    BY <1>4, <1>8
  <2>8. ToSet(text') = {y.type : y \in seen'}
    <3>1. ToSet(text') = ToSet(text) \cup {x.type}
      BY <1>4, <1>8, SetOfAppend
    <3> QED
      BY <1>4, <1>8, <3>1
  <2>9. ASSUME NEW y \in seen', NEW t \in ToSet(install[y.type])
        PROVE  Used(t) \in seen' \cup ToSet(todo')
    <3>1. CASE y = x
      BY <2>3, <2>6, <2>9, <3>1
    <3>2. CASE y # x
      <4>1. Used(t) \in seen \cup ToSet(todo)
        BY <1>4, <1>8, <2>9, <3>2
      <4> QED
        BY <1>5, <1>8, <2>6, <4>1
    <3> QED
      BY <3>1, <3>2
  <2>10. \A d : Used(d) # First(type)
    BY DEF Used, First
  <2>11. text' # <<>> /\ text'[1] = type /\ First(type) \in seen' \ ToSet(todo')
    <3>1. CASE text = <<>> /\ seen = {} /\ todo = <<First(type)>>
      <4>1. x = First(type) /\ rest = <<>> /\ Len(text) = 0
        BY <1>5, <3>1
      <4>2. x.type = type
        BY <4>1 DEF First
      <4>3. ToSet(rest) = {}
        BY <4>1 DEF ToSet
      <4> QED
        BY <1>8, <2>3, <2>6, <2>7, <2>10, <4>1, <4>2, <4>3
    <3>2. CASE text # <<>> /\ text[1] = type /\ First(type) \in seen \ ToSet(todo)
      <4>1. Len(text) >= 1
        BY <1>4, <3>2
      <4>2. 1 \in 1..Len(text) /\ text' # <<>>
        BY <2>7, <4>1
      <4> QED
        BY <1>5, <1>8, <2>3, <2>6, <2>7, <2>10, <3>2, <4>2
    <3> QED
      BY <1>4, <3>1, <3>2
  <2>12. ASSUME ~UsesItself(install, type) PROVE IsInjective(text')
    <3>1. x.type \notin ToSet(text)
      <4>1. SUFFICES ASSUME NEW y \in seen, y.type = x.type PROVE FALSE
        BY <1>4
      <4>2. y \in callees /\ y # x /\ First(type) \in seen \ ToSet(todo) /\ y.type \in DOMAIN install
        BY <1>4, <1>8, <4>1
      <4>3. x # First(type)
        BY <1>5, <4>2
      <4>4. (y = First(y.type) \/ y = Used(y.type)) /\ (y = First(y.type) => y.type = type)
        BY <1>3, <4>2, CalleeFacts
      <4>5. x = Used(type) /\ x.type = type
        BY <2>4, <4>1, <4>2, <4>3, <4>4
      <4>6. PICK t \in Needs(install, type) : /\ x = Used(t) /\ type \in DOMAIN install
              /\ \E e \in ToSet(install[type]) : t \in Needs(install, e)
        BY <1>3, <1>5, <4>3 DEF Callees
      <4>7. t = type
        BY <4>5, <4>6 DEF Used
      <4> QED
        BY <2>12, <4>6, <4>7 DEF UsesItself
    <3>2. ASSUME NEW a \in 1..Len(text) + 1, NEW b \in 1..Len(text) + 1, text'[a] = text'[b]
          PROVE  a = b
      <4>1. \A k \in 1..Len(text) : text[k] \in ToSet(text)
        BY <1>4, SetOfList
      <4>2. \A k, l \in 1..Len(text) : text[k] = text[l] => k = l
        <5>1. DOMAIN text = 1..Len(text)
          BY <1>4, LenProperties
        <5> QED
          BY <1>4, <2>12, <5>1 DEF IsInjective
      <4>3. \A k \in 1..Len(text) + 1 : k # Len(text) + 1 => k \in 1..Len(text)
        BY <2>7
      <4> QED
        BY <2>7, <3>1, <3>2, <4>1, <4>2, <4>3
    <3>3. DOMAIN text' = 1..Len(text) + 1
      BY <2>7, LenProperties
    <3> QED
      BY <3>2, <3>3 DEF IsInjective
  <2>13. seen' \subseteq callees
    BY <1>4, <1>5, <1>8
  <2> QED
    BY <2>6, <2>7, <2>8, <2>9, <2>11, <2>12, <2>13
<1> QED
  BY <1>2, <1>5, <1>7, <1>8 DEF LoadStep, Append_definition, Emitted, Install

(* The walk begins with one call, and while there is none, nothing is kept. *)
LEMMA WalkStep ==
  ASSUME IInv, [Next]_vars
  PROVE  Walk' /\ Idle'
<1>0. Walk /\ Idle /\ bag' = bag
  BY Kinds DEF IInv
<1>1. CASE LoadStep
  <2>1. loading' # None
    BY <1>1 DEF LoadStep, Append_definition
  <2> QED
    BY <1>1, <2>1, WalkLoads DEF Idle
<1>2. CASE Loaded
  BY <1>2 DEF Loaded, EndLoad, Walk, Idle
<1>3. CASE \E type \in Types : Load(type)
  <2>1. PICK type \in Types : BeginLoad(type)
    BY <1>3 DEF Load
  <2>2. /\ loading' = type /\ todo' = <<First(type)>> /\ seen' = {} /\ text' = <<>>
    BY <2>1 DEF BeginLoad, First, NoText
  <2>3. type # None
    BY RoutingAssumption
  <2>4. PICK callees : callees = Callees(Install, type)
    OBVIOUS
  <2>5. First(type) \in callees
    BY <2>4 DEF Callees
  <2>6. <<First(type)>> \in Seq(callees)
    BY <2>5
  <2>7. <<>> \in Seq(DOMAIN Install) /\ ToSet(<<>>) = {} /\ IsInjective(<<>>)
    BY DEF ToSet, IsInjective
  <2>8. Install' = Install
    BY <1>0 DEF Install
  <2> QED
    BY <2>2, <2>3, <2>4, <2>6, <2>7, <2>8 DEF Walk, Idle
<1>4. CASE UNCHANGED loader
  <2>1. Install' = Install
    BY <1>0 DEF Install
  <2> QED
    BY <1>0, <1>4, <2>1 DEF Walk, Idle, loader
<1> QED
  <2>1. CASE RegisterCloud
    BY <1>3, <1>4, <2>1, TopicFacts DEF RegisterCloud, MakeChannel
  <2>2. CASE RegisterCopy
    <3>1. PICK t \in Names : t = Topics[i]
      BY <2>2, TopicFacts DEF RegisterCopy, IInv, Lists
    <3>2. TypeOf[t] \in Types
      BY TopicFacts
    <3> QED
      BY <1>3, <1>4, <2>2, <3>1, <3>2 DEF RegisterCopy, MakeChannel
  <2>3. CASE Resolve \/ Partition \/ Partitioned \/ ReadRecord \/ RecordsRead \/ CloudsRegistered
             \/ WriteTopic \/ UNCHANGED vars
    BY <1>4, <2>3 DEF Resolve, Partition, Partitioned, ReadRecord, Add, RecordsRead, CloudsRegistered,
           WriteTopic, vars
  <2> QED
    BY <1>1, <1>2, <2>1, <2>2, <2>3 DEF Next

LEMMA LoadingStep ==
  ASSUME IInv, [Next]_vars
  PROVE  Loading'
<1>0. Loading /\ bag' = bag
  BY Kinds DEF IInv
<1>1. CASE loading' = None
  BY <1>1 DEF Loading
<1>2. CASE UNCHANGED <<stage, i, decoded, loading, schemas, registry>>
  BY <1>0, <1>2 DEF Loading, Writer, Known
<1>3. CASE \E type \in Types :
             /\ Load(type) /\ UNCHANGED <<registry, decoded>>
             /\ stage = "copies" \/ (stage = "clouds" /\ i <= Len(decoded))
  BY <1>0, <1>3 DEF Load, Loads, BeginLoad, Loading, Writer, Known
<1> QED
  <2>1. CASE Loaded
    BY <1>1, <2>1 DEF Loaded, EndLoad
  <2>2. CASE LoadStep \/ UNCHANGED vars
    BY <1>2, <2>2 DEF LoadStep, Append_definition, vars, records, loader
  <2>3. CASE RegisterCloud
    <3>1. Cloud \in Types
      BY TopicFacts
    <3>2. loading = None /\ stage = "clouds" /\ i <= Len(decoded) /\ UNCHANGED <<registry, decoded>>
      BY <2>3 DEF RegisterCloud, records
    <3>3. Load(Cloud) \/ UNCHANGED loader
      BY <2>3 DEF RegisterCloud, MakeChannel
    <3> QED
      BY <1>1, <1>3, <3>1, <3>2, <3>3 DEF loader
  <2>4. CASE RegisterCopy
    <3>1. PICK t \in Names : t = Topics[i]
      BY <2>4, TopicFacts DEF RegisterCopy, IInv, Lists
    <3>2. TypeOf[t] \in Types
      BY TopicFacts
    <3>3. loading = None /\ stage = "copies" /\ UNCHANGED <<registry, decoded>>
      BY <2>4 DEF RegisterCopy, records
    <3>4. Load(TypeOf[t]) \/ UNCHANGED loader
      BY <2>4, <3>1 DEF RegisterCopy, MakeChannel
    <3> QED
      BY <1>1, <1>3, <3>2, <3>3, <3>4 DEF loader
  <2>5. CASE Resolve \/ Partition \/ Partitioned \/ ReadRecord \/ RecordsRead
    <3>1. loading = None /\ UNCHANGED loader
      BY <2>5 DEF Resolve, Partition, Partitioned, ReadRecord, Add, RecordsRead, IInv, Records
    <3> QED
      BY <1>1, <3>1 DEF loader
  <2>6. CASE CloudsRegistered
    <3>1. i \in Nat /\ Len(decoded) \in Nat /\ i > Len(decoded) /\ stage = "clouds" /\ UNCHANGED loader
      BY <2>6, LenProperties DEF CloudsRegistered, IInv, Lists
    <3>2. loading = None
      BY <1>0, <3>1 DEF Loading
    <3> QED
      BY <1>1, <3>1, <3>2 DEF loader
  <2>7. CASE WriteTopic
    <3>1. loading = None /\ UNCHANGED loader
      BY <1>0, <2>7 DEF WriteTopic, Loading
    <3> QED
      BY <1>1, <3>1 DEF loader
  <2> QED
    BY <2>1, <2>2, <2>3, <2>4, <2>5, <2>6, <2>7 DEF Next

(* When no call is left, what was emitted is closed, so it is all the type  *)
(* needs; a file that is missing is one it needs.                           *)
LEMMA LoadedFits ==
  ASSUME IInv, loading # None
  PROVE  /\ todo = <<>> => /\ Loadable(Install, loading)
                           /\ IsDefinitionOf(text, Install, loading)
         /\ Missing(Install) => ~Loadable(Install, loading)
<1>1. PICK install, type : install = Install /\ type = loading
  OBVIOUS
<1>2. PICK callees : callees = Callees(install, type)
  OBVIOUS
<1>4. /\ seen \subseteq callees /\ todo \in Seq(callees)
      /\ text \in Seq(DOMAIN install) /\ ToSet(text) = {x.type : x \in seen}
      /\ \A x \in seen : \A t \in ToSet(install[x.type]) : Used(t) \in seen \cup ToSet(todo)
      /\ \/ text = <<>> /\ seen = {} /\ todo = <<First(type)>>
         \/ text # <<>> /\ text[1] = type /\ First(type) \in seen \ ToSet(todo)
      /\ UsesItself(install, type) \/ IsInjective(text)
  BY <1>1, <1>2 DEF IInv, Walk
<1>5. ToSet(text) \subseteq DOMAIN install
  BY <1>4, SetWithin
<1>6. ASSUME todo = <<>>
      PROVE  Loadable(install, type) /\ IsDefinitionOf(text, install, type)
  <2>1. text # <<>> /\ text[1] = type /\ First(type) \in seen
    BY <1>4, <1>6
  <2>2. ToSet(todo) = {}
    BY <1>6 DEF ToSet
  <2>3. \A t : Used(t).type = t /\ First(t).type = t
    BY DEF Used, First
  <2>4. type \in ToSet(text)
    BY <1>4, <2>1, <2>3
  <2>5. ASSUME NEW t \in ToSet(text), NEW d \in ToSet(install[t]) PROVE d \in ToSet(text)
    <3>1. PICK x \in seen : x.type = t
      BY <1>4, <2>5
    <3>2. Used(d) \in seen
      BY <1>4, <2>2, <2>5, <3>1
    <3> QED
      BY <1>4, <2>3, <3>2
  <2>6. Needs(install, type) \subseteq ToSet(text)
    BY <2>4, <2>5, NeedsFacts
  <2>7. ToSet(text) \subseteq Needs(install, type)
    <3>1. ASSUME NEW x \in seen PROVE x.type \in Needs(install, type)
      BY <1>2, <1>4, <1>5, <3>1, CalleeFacts
    <3> QED
      BY <1>4, <3>1
  <2>8. Head(text) = type
    BY <1>4, <2>1
  <2> QED
    BY <1>4, <1>5, <2>1, <2>6, <2>7, <2>8 DEF Loadable, IsDefinitionOf, NoText
<1>7. ASSUME Missing(install) PROVE ~Loadable(install, type)
  <2>1. PICK x \in callees : x = Head(todo)
    BY <1>4, <1>7, SetOfTail DEF Missing
  <2>2. x.type \notin DOMAIN install
    BY <1>7, <2>1 DEF Missing
  <2>3. x.type \in Needs(install, type)
    <3>1. \A t : Used(t).type = t /\ First(t).type = t
      BY DEF Used, First
    <3>2. type \in Needs(install, type)
      BY NeedsFacts
    <3> QED
      BY <1>2, <3>1, <3>2 DEF Callees
  <2> QED
    BY <2>2, <2>3 DEF Loadable
<1> QED
  BY <1>1, <1>6, <1>7

LEMMA TextsStep ==
  ASSUME IInv, [Next]_vars
  PROVE  Texts'
<1>0. Channels /\ Records /\ Loading /\ Texts /\ bag' = bag
  BY Kinds DEF IInv
<1>1. CASE UNCHANGED <<schemas, registry>>
  BY <1>0, <1>1 DEF Texts, Writer
<1>2. CASE ReadRecord /\ UNCHANGED schemas
  <2>1. schemas' = <<>>
    BY <1>0, <1>2 DEF ReadRecord, Records
  <2> QED
    BY <2>1 DEF Texts
<1>3. ASSUME NEW new \in SchemaRecords, ~Known(new.type), schemas' = Append(schemas, new),
             UNCHANGED registry, Writer = "definition" => Fits(bag.machine, new.type, new.text)
      PROVE  Texts'
  <2>1. /\ Len(schemas') = Len(schemas) + 1 /\ Len(schemas) \in Nat
        /\ schemas'[Len(schemas) + 1] = new
        /\ \A s \in 1..Len(schemas) : schemas'[s] = schemas[s]
    BY <1>0, <1>3, SchemaAdded
  <2>2. Writer' = Writer
    BY <1>0, <1>3 DEF Writer
  <2>3. ASSUME Writer = "definition", NEW s \in 1..Len(schemas')
        PROVE  Fits(bag.machine, schemas'[s].type, schemas'[s].text)
    <3>1. CASE s = Len(schemas) + 1
      BY <1>3, <2>1, <2>3, <3>1
    <3>2. CASE s # Len(schemas) + 1
      <4>1. s \in 1..Len(schemas)
        BY <2>1, <3>2
      <4> QED
        BY <1>0, <2>1, <2>3, <4>1 DEF Texts
    <3> QED
      BY <3>1, <3>2
  <2> QED
    BY <1>0, <2>2, <2>3 DEF Texts
<1>4. CASE /\ UNCHANGED registry
           /\ \E name : \E type \in Types : MakeChannel(name, type) /\ ~Loads(type)
  <2>0. PICK name : \E type \in Types : MakeChannel(name, type) /\ ~Loads(type)
    BY <1>4
  <2>1. PICK type \in Types : MakeChannel(name, type) /\ ~Loads(type)
    BY <2>0
  <2>2. CASE Known(type)
    BY <1>1, <1>4, <2>1, <2>2 DEF MakeChannel
  <2>3. CASE ~Known(type)
    <3>1. /\ Schema(type) \in SchemaRecords /\ Schema(type).type = type
          /\ Writer = "definition" => Schema(type).text \in Given(bag.machine, type)
      BY <1>0, <2>1, <2>3, SchemaFacts
    <3>2. schemas' = Append(schemas, Schema(type))
      BY <2>1, <2>3 DEF MakeChannel
    <3>3. Writer = "definition" => Fits(bag.machine, type, Schema(type).text)
      BY <3>1 DEF Fits
    <3> QED
      BY <1>3, <1>4, <2>3, <3>1, <3>2, <3>3
  <2> QED
    BY <2>2, <2>3
<1>5. CASE Loaded /\ UNCHANGED registry
  <2>1. PICK new \in SchemaRecords :
          /\ schemas' = Append(schemas, new) /\ new.type = loading /\ ~Known(new.type)
          /\ \/ todo = <<>> /\ new.text = text
             \/ Missing(Install) /\ new.text = NoText
    BY <1>5, LoadedRecord
  <2>2. loading # None
    BY <1>5 DEF Loaded
  <2>3. /\ stage \in {"clouds", "copies"} /\ Writer = "definition" /\ loading \notin DOMAIN registry
    BY <1>0, <2>2 DEF Loading
  <2>4. Given(bag.machine, loading) = {}
    <3>1. unread = {}
      BY <1>0, <2>3 DEF Records, Writer
    <3>2. \A r \in bag.machine.records : r.text # NoText => r.type # loading
      BY <1>0, <2>3, <3>1 DEF Records
    <3> QED
      BY <3>2 DEF Given
  <2>5. Fits(bag.machine, loading, new.text)
    BY <2>1, <2>2, <2>4, LoadedFits DEF Fits, Install
  <2> QED
    BY <1>3, <1>5, <2>1, <2>5
<1> QED
  BY <1>1, <1>2, <1>4, <1>5, SchemaSteps

-----------------------------------------------------------------------------
(* Writing.                                                                 *)

LEMMA MessagesStep ==
  ASSUME IInv, [Next]_vars
  PROVE  Messages'
<1>0. /\ Messages /\ Resolved /\ Split /\ stage \in Stages /\ i \in Nat \ {0}
      /\ Len(Topics) \in Nat /\ Len(Topics) >= 1
      /\ decoded \in Seq(Packets)
  BY TopicFacts DEF IInv, Lists
<1>1. bag' = bag
  BY Kinds
<1>2. CASE WriteTopic
  <2>0. PICK t \in Names : t = Topics[i]
    BY <1>2, TopicFacts DEF WriteTopic, IInv, Lists
  <2>1. /\ stage = "write" /\ i <= Len(Topics) /\ Advance(Len(Topics), "end")
        /\ UNCHANGED <<match, decoded>>
    BY <1>2 DEF WriteTopic, IInv, Lists
  <2>2. PICK to \in Names \cup Outputs, type \in Types :
          /\ IF t \in ToSet(decoded) THEN to = match[t].out /\ type = Cloud
                                     ELSE to = t /\ type = TypeOf[t]
          /\ written' = IF Writes(t) THEN written \cup {[from |-> t, to |-> to, type |-> type]}
                        ELSE written
    <3>0. written' = written \cup Gives(t)
      BY <1>2, <2>0 DEF WriteTopic
    <3>1. CASE t \in ToSet(decoded)
      <4>1. t \in DOMAIN match
        BY <1>0, <3>1, SetOfList DEF Split
      <4>2. match[t].out \in Outputs
        BY <1>0, <4>1 DEF Resolved
      <4>3. Gives(t) = IF Writes(t) THEN {[from |-> t, to |-> match[t].out, type |-> Cloud]} ELSE {}
        BY <3>1 DEF Gives, Writes
      <4> QED
        BY <3>0, <3>1, <4>2, <4>3, TopicFacts
    <3>2. CASE t \notin ToSet(decoded)
      <4>1. Gives(t) = IF Writes(t) THEN {[from |-> t, to |-> t, type |-> TypeOf[t]]} ELSE {}
        BY <3>2 DEF Gives, Writes, Copies
      <4> QED
        BY <3>0, <3>2, <4>1, TopicFacts
    <3> QED
      BY <3>1, <3>2
  <2>3. ASSUME NEW w \in written'
        PROVE  /\ w \in [from : Names, to : Names \cup Outputs, type : Types]
               /\ IF w.from \in ToSet(decoded) THEN w.to = match[w.from].out /\ w.type = Cloud
                                               ELSE w.to = w.from /\ w.type = TypeOf[w.from]
    <3>1. CASE w \in written
      BY <1>0, <3>1 DEF Messages
    <3>2. CASE w \notin written
      BY <2>2, <2>3, <3>2
    <3> QED
      BY <3>1, <3>2
  <2>4. stage' \in {"write", "end"}
    BY <2>1 DEF Advance
  <2>5. written \subseteq written' /\ (Writes(t) => \E w \in written' : w.from = t)
    <3>1. CASE ~Writes(t)
      BY <2>2, <3>1
    <3>2. CASE Writes(t)
      <4>1. PICK w : w = [from |-> t, to |-> to, type |-> type]
        OBVIOUS
      <4>2. written' = written \cup {w}
        BY <2>2, <3>2, <4>1
      <4> QED
        BY <4>1, <4>2
    <3> QED
      BY <3>1, <3>2
  <2>6. ASSUME NEW j \in 1..Len(Topics), Passed("write", j)', Writes(Topics[j])
        PROVE  \E w \in written' : w.from = Topics[j]
    <3>1. CASE j = i
      BY <2>0, <2>5, <2>6, <3>1
    <3>2. CASE j # i
      <4>1. Passed("write", j)
        BY <1>0, <2>1, <2>6, <3>2, AdvanceFacts DEF Passed
      <4> QED
        BY <1>0, <2>1, <2>5, <2>6, <4>1 DEF Messages
    <3> QED
      BY <3>1, <3>2
  <2>7. \A x : Writes(x)' <=> Writes(x)
    BY <1>1, <2>1 DEF Writes
  <2> QED
    BY <1>1, <2>1, <2>3, <2>4, <2>6, <2>7 DEF Messages
<1>3. CASE UNCHANGED routing
  BY <1>0, <1>3 DEF Messages, Writes, Passed, routing, input
<1>4. CASE Resolve \/ Partition \/ Partitioned \/ RecordsRead \/ CloudsRegistered
           \/ (RegisterCloud /\ ~UNCHANGED routing) \/ (RegisterCopy /\ ~UNCHANGED routing)
  <2>1. written' = written /\ stage \notin {"write", "end"}
    BY <1>4, CloudMoves, CopyMoves DEF Resolve, Partition, Partitioned, RecordsRead, CloudsRegistered
  <2>2. written = {}
    BY <1>0, <2>1 DEF Messages
  <2>3. stage' # "end" /\ (stage' = "write" => i' = 1)
    <3>1. CASE RegisterCopy /\ ~UNCHANGED routing
      <4>1. i <= Len(Topics) /\ stage = "copies" /\ (Refuse \/ Advance(Len(Topics), "write"))
        BY <3>1, CopyMoves DEF IInv, Lists
      <4> QED
        BY <4>1 DEF Refuse, Advance
    <3>2. CASE Resolve \/ Partition \/ Partitioned \/ RecordsRead \/ CloudsRegistered
               \/ (RegisterCloud /\ ~UNCHANGED routing)
      BY <3>2, CloudMoves DEF Resolve, Partition, Partitioned, RecordsRead, CloudsRegistered, Refuse, Advance
    <3> QED
      BY <1>4, <3>1, <3>2
  <2>4. \A j \in 1..Len(Topics) : ~(j < 1)
    OBVIOUS
  <2>5. \A j \in 1..Len(Topics) : stage' \in {"write", "end"} => ~Passed("write", j)'
    BY <2>3, <2>4 DEF Passed
  <2> QED
    BY <2>1, <2>2, <2>5 DEF Messages
<1> QED
  BY <1>2, <1>3, <1>4, Kinds

LEMMA Invariant == Spec => []IInv
<1>1. IInv /\ [Next]_vars => IInv'
  BY ListsStep, ResolvedStep, SplitStep, ApartStep, TypesStep, ChannelsStep, OriginsStep, MessagesStep,
     RecordsStep, TextsStep, LoadingStep, WalkStep DEF IInv
<1> QED
  BY <1>1, InitInv, PTL DEF Spec

-----------------------------------------------------------------------------
(* The theorems.                                                            *)

(* The conversion's lists, matches, channels and messages keep their types, *)
(* and what is decoded is among what was resolved.                          *)
THEOREM RoutingTypes == Spec => []TypeOK
<1>1. IInv => TypeOK
  <2> SUFFICES ASSUME IInv PROVE TypeOK
    OBVIOUS
  <2>0. /\ Inputs /\ Lists /\ Resolved /\ Split /\ Channels /\ Messages
        /\ Records /\ Loading /\ Walk /\ Idle /\ Len(Topics) \in Nat
    BY TopicFacts DEF IInv
  <2>1. bag \in Bags /\ mapping \in Mappings
    BY <2>0 DEF Inputs
  <2>2. stage \in Stages /\ i \in 1..Len(Topics) + 1
    BY <2>0 DEF Lists
  <2>3. ToSet(resolved) = DOMAIN match /\ DOMAIN match \subseteq Packets
    BY <2>0, SetOfList DEF Lists, Resolved
  <2>4. ToSet(decoded) \subseteq DOMAIN match
    <3>1. ToSet(decoded) = {decoded[k] : k \in 1..Len(decoded)}
      BY <2>0, SetOfList DEF Lists
    <3> QED
      BY <2>0, <3>1 DEF Split
  <2>5. \A t \in DOMAIN match : match[t] \in [rule : 1..MaxRules, out : Outputs]
    BY <2>0 DEF Resolved
  <2>6. DOMAIN schemas = 1..Len(schemas)
    BY <2>0, LenProperties DEF Channels
  <2>7. \A n \in DOMAIN channels : channels[n] \in [type : Types, schema : DOMAIN schemas]
    BY <2>0, <2>6 DEF Channels
  <2>8. ASSUME NEW s \in DOMAIN schemas
        PROVE  schemas[s].type \in Types /\ schemas[s].from \in Sources
    <3>1. schemas[s] \in SchemaRecords
      BY <2>0, <2>6 DEF Channels
    <3> QED
      BY <3>1 DEF SchemaRecords
  <2>9. written \subseteq [from : Names, to : Names \cup Outputs, type : Types]
    BY <2>0 DEF Messages
  <2>10. unread \subseteq bag.machine.records /\ DOMAIN registry \subseteq {r.type : r \in bag.machine.records}
    BY <2>0 DEF Records, Given
  <2>11. loading \in Types \cup {None} /\ (loading # None => ~Known(loading))
    BY <2>0 DEF Loading
  <2>12. {x.type : x \in seen} = ToSet(text) /\ ToSet(text) \subseteq DOMAIN Install
    <3>1. text \in Seq(DOMAIN Install) /\ {x.type : x \in seen} = ToSet(text)
      <4>1. <<>> \in Seq(DOMAIN Install) /\ ToSet(<<>>) = {}
        BY DEF ToSet
      <4> QED
        BY <2>0, <4>1 DEF Walk, Idle, NoText
    <3> QED
      BY <3>1, SetWithin
  <2> QED
    BY <2>1, <2>2, <2>3, <2>4, <2>5, <2>7, <2>8, <2>9, <2>10, <2>11, <2>12
    DEF TypeOK, Stages, Sources, Install
<1> QED
  BY <1>1, Invariant, PTL

(* A conversion that ends decoded the topics of the plan's "ok" rows.        *)
LEMMA PlanFollowed == IInv => PlanIsKept
<1> SUFFICES ASSUME IInv, stage = "end", NEW t \in Packets
             PROVE  Plan(t) # "error" /\ (t \in ToSet(decoded) <=> Plan(t) = "ok")
  BY DEF PlanIsKept
<1>0. Inputs /\ Lists /\ Resolved /\ AllResolved /\ Split
  BY DEF IInv
<1>1. /\ bag.level[t] \in Levels
      /\ t \in bag.silent => bag.level[t] = "VendorUnknown"
  BY <1>0 DEF Inputs, Bags
<1>2. PICK j \in 1..Len(Topics) : Topics[j] = t
  BY TopicFacts
<1>3. IsResolved(t)
  BY <1>0, <1>2 DEF AllResolved, Passed
<1>4. ~(Cardinality(Matching(t)) > 1) /\ (Matching(t) # {} => t \in DOMAIN match)
  BY <1>3 DEF IsResolved, Ambiguous
<1>5. ToSet(decoded) = {decoded[k] : k \in 1..Len(decoded)}
  BY <1>0, SetOfList DEF Lists
<1>6. t \in ToSet(decoded) <=> bag.level[t] = "Supported" /\ Matching(t) # {}
  <2>1. ASSUME t \in ToSet(decoded)
        PROVE  bag.level[t] = "Supported" /\ Matching(t) # {}
    <3>1. t \in DOMAIN match /\ Decodes(t)
      BY <1>0, <1>5, <2>1 DEF Split
    <3> QED
      BY <1>0, <3>1 DEF Resolved, Decodes
  <2>2. ASSUME bag.level[t] = "Supported", Matching(t) # {}
        PROVE  t \in ToSet(decoded)
    <3>1. PICK k \in 1..Len(resolved) : resolved[k] = t
      BY <1>0, <1>4, <2>2 DEF Resolved
    <3> QED
      BY <1>0, <2>2, <3>1 DEF Split, Passed, Decodes
  <2> QED
    BY <2>1, <2>2
<1> QED
  BY <1>1, <1>4, <1>6 DEF Plan, Levels

(* The conversion decodes what the dry run announced: a topic is decoded    *)
(* exactly when its row says "ok", and a conversion that ends had no row    *)
(* that says "error".                                                       *)
THEOREM PlanKept == Spec => []PlanIsKept
<1> QED
  BY PlanFollowed, Invariant, PTL

(* The clouds of two sensors, whose frames differ, never share a topic of   *)
(* the output: register_decoded_topics refuses the second.                  *)
THEOREM SensorsApart == Spec => []OneSensorPerCloudTopic
<1>1. IInv => OneSensorPerCloudTopic
  <2> SUFFICES ASSUME IInv, NEW v \in written, NEW w \in written,
                      v.from \in ToSet(decoded), w.from \in ToSet(decoded), v.to = w.to
               PROVE  v.from = w.from
    BY DEF OneSensorPerCloudTopic
  <2>0. Lists /\ CloudsApart /\ Messages
    BY DEF IInv
  <2>1. stage \in {"write", "end"}
    BY <2>0 DEF Messages
  <2>2. v.to = match[v.from].out /\ w.to = match[w.from].out
    BY <2>0 DEF Messages
  <2>3. ToSet(decoded) = {decoded[k] : k \in 1..Len(decoded)} /\ Len(decoded) \in Nat
    BY <2>0, SetOfList, LenProperties DEF Lists
  <2>4. PICK k \in 1..Len(decoded), l \in 1..Len(decoded) : decoded[k] = v.from /\ decoded[l] = w.from
    BY <2>3
  <2>5. Out(k) = Out(l)
    BY <2>2, <2>4 DEF Out
  <2>6. ASSUME NEW x \in 1..Len(decoded), NEW y \in 1..Len(decoded), y < x
        PROVE  Out(y) # Out(x)
    <3>1. y \in 1..x - 1
      BY <2>3, <2>6
    <3> QED
      BY <2>0, <2>1, <3>1 DEF CloudsApart, Passed
  <2>7. k = l
    BY <2>3, <2>5, <2>6
  <2> QED
    BY <2>4, <2>7
<1> QED
  BY <1>1, Invariant, PTL

(* In the definition writer's output, whatever the bag and the machine hold *)
(* and in whatever order the records are read, every channel carries the    *)
(* definition of its own type: the bag's if it has one, else the type's     *)
(* installed files, all and only those it needs, or none if one is missing. *)
THEOREM SchemasFit == Spec => []SchemaIsOfItsType
<1>1. IInv => SchemaIsOfItsType
  <2> SUFFICES ASSUME IInv, Writer = "definition" PROVE SchemaIsOfItsType
    BY DEF SchemaIsOfItsType
  <2>0. Channels /\ Texts /\ DOMAIN schemas = 1..Len(schemas)
    BY LenProperties DEF IInv, Channels
  <2>1. \A r, s \in DOMAIN schemas : schemas[r].type = schemas[s].type => r = s
    BY <2>0 DEF Channels
  <2>2. ASSUME NEW n \in DOMAIN channels
        PROVE  LET s == schemas[channels[n].schema]
                   given == {r \in bag.machine.records : r.type = s.type /\ r.text # NoText}
               IN  /\ s.type = channels[n].type
                   /\ IF given # {} THEN s.text \in {r.text : r \in given}
                      ELSE IF Loadable(bag.machine.install, s.type)
                      THEN IsDefinitionOf(s.text, bag.machine.install, s.type)
                      ELSE s.text = NoText
    <3>1. channels[n].schema \in 1..Len(schemas) /\ schemas[channels[n].schema].type = channels[n].type
      BY <2>0 DEF Channels
    <3>2. PICK s : s = schemas[channels[n].schema]
      OBVIOUS
    <3>3. Fits(bag.machine, s.type, s.text)
      BY <2>0, <3>1, <3>2 DEF Texts
    <3>4. PICK given : given = {r \in bag.machine.records : r.type = s.type /\ r.text # NoText}
      OBVIOUS
    <3>5. Given(bag.machine, s.type) = {r.text : r \in given}
      BY <3>4 DEF Given
    <3>6. IF given # {} THEN s.text \in {r.text : r \in given}
          ELSE IF Loadable(bag.machine.install, s.type)
          THEN IsDefinitionOf(s.text, bag.machine.install, s.type)
          ELSE s.text = NoText
      BY <3>3, <3>5 DEF Fits
    <3> QED
      BY <3>1, <3>2, <3>4, <3>6
  <2> QED
    BY <2>1, <2>2 DEF SchemaIsOfItsType
<1> QED
  BY <1>1, Invariant, PTL

(* What append_definition may be called for is finite, whatever refers to   *)
(* what.                                                                    *)
LEMMA CalleesFinite ==
  ASSUME NEW install, NEW type, IsFiniteSet(DOMAIN install),
         \A t \in DOMAIN install : install[t] \in Seq(ToSet(install[t]))
  PROVE  IsFiniteSet(Callees(install, type))
<1>1. ASSUME NEW t \in DOMAIN install PROVE IsFiniteSet(ToSet(install[t]))
  <2>1. PICK q \in Seq(ToSet(install[t])) : q = install[t]
    OBVIOUS
  <2>2. ToSet(q) = {q[k] : k \in 1..Len(q)} /\ Len(q) \in Nat
    BY SetOfList, LenProperties
  <2>3. IsFiniteSet(1..Len(q))
    BY <2>2, FS_Interval
  <2>4. PICK f : f = [k \in 1..Len(q) |-> q[k]]
    OBVIOUS
  <2>5. f \in Surjection(1..Len(q), ToSet(q))
    BY <2>2, <2>4 DEF Surjection
  <2> QED
    BY <2>1, <2>3, <2>5, FS_Surjection
<1>2. PICK used : used = {ToSet(install[t]) : t \in DOMAIN install}
  OBVIOUS
<1>3. IsFiniteSet(used)
  <2>1. PICK f : f = [t \in DOMAIN install |-> ToSet(install[t])]
    OBVIOUS
  <2>2. f \in Surjection(DOMAIN install, used)
    BY <1>2, <2>1 DEF Surjection
  <2> QED
    BY <2>2, FS_Surjection
<1>4. IsFiniteSet(UNION used)
  BY <1>1, <1>2, <1>3, FS_UNION
<1>5. Needs(install, type) \subseteq {type} \cup UNION used
  BY <1>2 DEF Needs
<1>6. IsFiniteSet({type} \cup UNION used)
  BY <1>4, FS_Singleton, FS_Union
<1>7. IsFiniteSet(Needs(install, type))
  BY <1>5, <1>6, FS_Subset
<1>8. IsFiniteSet({Used(t) : t \in Needs(install, type)})
  <2>1. PICK f : f = [t \in Needs(install, type) |-> Used(t)]
    OBVIOUS
  <2>2. f \in Surjection(Needs(install, type), {Used(t) : t \in Needs(install, type)})
    BY <2>1 DEF Surjection
  <2> QED
    BY <1>7, <2>2, FS_Surjection
<1>9. Callees(install, type) \subseteq {First(type)} \cup {Used(t) : t \in Needs(install, type)}
  BY DEF Callees
<1> QED
  BY <1>8, <1>9, FS_Singleton, FS_Union, FS_Subset

(* Every load ends, also that of types that refer to each other in a circle *)
(* ("cyclic / repeated references are walked exactly once"): while a type   *)
(* is loaded nothing else happens, and each step of the load leaves fewer   *)
(* files to emit, or as many and fewer calls to make.                       *)
THEOREM LoadEnds == Spec => [][loading # None => Loaded \/ (LoadStep /\ Nearer)]_vars
<1>1. IInv /\ [Next]_vars => [loading # None => Loaded \/ (LoadStep /\ Nearer)]_vars
  <2> SUFFICES ASSUME IInv, Next, loading # None PROVE Loaded \/ (LoadStep /\ Nearer)
    OBVIOUS
  <2>1. Loaded \/ LoadStep
    <3>1. /\ stage = "copies" \/ (stage = "clouds" /\ i <= Len(decoded))
          /\ i \in Nat /\ Len(decoded) \in Nat
      BY LenProperties DEF IInv, Loading, Lists
    <3> QED
      BY <3>1 DEF Next, Resolve, Partition, Partitioned, ReadRecord, RecordsRead, RegisterCloud,
             CloudsRegistered, RegisterCopy, WriteTopic
  <2>2. ASSUME LoadStep PROVE Nearer
    <3>1. /\ UNCHANGED <<bag, loading>> /\ todo # <<>>
          /\ \/ Head(todo) \in seen /\ todo' = Tail(todo) /\ seen' = seen
             \/ Head(todo) \notin seen /\ seen' = seen \cup {Head(todo)}
      BY <2>2 DEF LoadStep, Append_definition, Emitted, input
    <3>2. PICK callees : callees = Callees(Install, loading)
      OBVIOUS
    <3>3. callees = Callees(Install, loading)'
      BY <3>1, <3>2 DEF Install
    <3>4. IsFiniteSet(callees)
      <4>1. bag.machine \in Machines /\ Inputs
        BY DEF IInv, Inputs, Bags
      <4>2. IsFiniteSet(DOMAIN Install)
        BY <4>1, RoutingAssumption DEF Install
      <4> QED
        BY <3>2, <4>1, <4>2, InstallFacts, CalleesFinite
    <3>5. todo \in Seq(callees)
      BY <3>2 DEF IInv, Walk
    <3>6. Head(todo) \in callees /\ Len(Tail(todo)) = Len(todo) - 1 /\ Len(todo) \in Nat
      BY <3>1, <3>5, HeadTailProperties, LenProperties
    <3>7. Unvisited = Cardinality(callees \ seen) /\ Unvisited' = Cardinality(callees \ seen')
      BY <3>2, <3>3 DEF Unvisited
    <3>8. IsFiniteSet(callees \ seen) /\ Cardinality(callees \ seen) \in Nat
      BY <3>4, FS_Subset, FS_CardinalityType
    <3>9. CASE Head(todo) \in seen /\ todo' = Tail(todo) /\ seen' = seen
      BY <3>6, <3>7, <3>8, <3>9 DEF Nearer
    <3>10. CASE Head(todo) \notin seen /\ seen' = seen \cup {Head(todo)}
      <4>1. PICK x \in callees \ seen : x = Head(todo)
        BY <3>6, <3>10
      <4>2. callees \ seen' = (callees \ seen) \ {x}
        BY <3>10, <4>1
      <4>3. Cardinality(callees \ seen') = Cardinality(callees \ seen) - 1 /\ Cardinality(callees \ seen') \in Nat
        <5>1. IsFiniteSet(callees \ seen')
          BY <3>4, FS_Subset
        <5> QED
          BY <3>8, <4>1, <4>2, <5>1, FS_RemoveElement, FS_CardinalityType
      <4> QED
        BY <3>7, <3>8, <4>3 DEF Nearer
    <3> QED
      BY <3>1, <3>9, <3>10
  <2> QED
    BY <2>1, <2>2
<1> QED
  BY <1>1, Invariant, PTL DEF Spec

(* What the run routing_copies finds needs the definition writer and a rule *)
(* that gives a decoded topic the name of a topic that is copied: otherwise *)
(* every copy goes to a channel of its own type.  Clouds always do.         *)
NameClash == \E k \in 1..Len(decoded) : Out(k) \in Names \ ToSet(decoded)

THEOREM TypesKept ==
  Spec => [](/\ (NameClash /\ Writer = "definition") \/ CopiesKeepTheirType
             /\ \A w \in written : w.from \in ToSet(decoded) => channels[w.to].type = w.type)
<1>1. IInv =>
        /\ (NameClash /\ Writer = "definition") \/ CopiesKeepTheirType
        /\ \A w \in written : w.from \in ToSet(decoded) => channels[w.to].type = w.type
  <2> SUFFICES ASSUME IInv, NEW w \in written,
                      w.from \in ToSet(decoded) \/ ~(NameClash /\ Writer = "definition")
               PROVE  channels[w.to].type = w.type
    BY DEF CopiesKeepTheirType
  <2>0. Lists /\ CloudsApart /\ CopiesFound /\ ChannelTypes /\ Origins /\ Messages
    BY DEF IInv
  <2>1. stage \in {"write", "end"} /\ w.from \in Names
    BY <2>0 DEF Messages
  <2>2. CASE w.from \in ToSet(decoded)
    <3>1. PICK k \in 1..Len(decoded) : decoded[k] = w.from
      BY <2>0, <2>2, SetOfList DEF Lists
    <3>2. w.to = Out(k) /\ w.type = Cloud
      BY <2>0, <2>2, <3>1 DEF Messages, Out
    <3> QED
      BY <2>0, <2>1, <3>2 DEF ChannelTypes, Passed
  <2>3. CASE w.from \notin ToSet(decoded)
    <3>1. PICK j \in 1..Len(Topics) : Topics[j] = w.from
      BY <2>1, TopicFacts
    <3>2. w.to = w.from /\ w.type = TypeOf[w.from]
      BY <2>0, <2>3 DEF Messages
    <3>3. w.from \in DOMAIN channels
      BY <2>0, <2>1, <2>3, <3>1 DEF CopiesFound, Passed, Copies
    <3>4. CASE Writer = "rosbag2"
      BY <2>0, <2>1, <2>3, <3>1, <3>2, <3>4 DEF ChannelTypes, Passed, Copies
    <3>5. CASE ~NameClash
      BY <2>0, <2>1, <2>3, <3>2, <3>3, <3>5 DEF Origins, NameClash
    <3> QED
      BY <2>3, <3>4, <3>5 DEF Writer
  <2> QED
    BY <2>2, <2>3
<1> QED
  BY <1>1, Invariant, PTL

(* Every message written found a channel.  A conversion that ends wrote     *)
(* something of every topic with messages, but for those whose row of the   *)
(* dry run says "ok" and whose decoder yields no cloud.                     *)
THEOREM NoTopicDropped == Spec => []NothingIsDropped
<1>1. IInv => NothingIsDropped
  <2> SUFFICES ASSUME IInv PROVE NothingIsDropped
    OBVIOUS
  <2>0. Lists /\ CloudsApart /\ CopiesFound /\ Messages
    BY DEF IInv
  <2>1. ASSUME NEW w \in written PROVE w.to \in DOMAIN channels
    <3>1. stage \in {"write", "end"} /\ w.from \in Names
      BY <2>0, <2>1 DEF Messages
    <3>2. CASE w.from \in ToSet(decoded)
      <4>1. PICK k \in 1..Len(decoded) : decoded[k] = w.from
        BY <2>0, <3>2, SetOfList DEF Lists
      <4>2. w.to = Out(k)
        BY <2>0, <2>1, <3>2, <4>1 DEF Messages, Out
      <4> QED
        BY <2>0, <3>1, <4>2 DEF CloudsApart, Passed
    <3>3. CASE w.from \notin ToSet(decoded)
      <4>1. PICK j \in 1..Len(Topics) : Topics[j] = w.from
        BY <3>1, TopicFacts
      <4>2. w.to = w.from
        BY <2>0, <2>1, <3>3 DEF Messages
      <4> QED
        BY <2>0, <3>1, <3>3, <4>1, <4>2 DEF CopiesFound, Passed, Copies
    <3> QED
      BY <3>2, <3>3
  <2>2. ASSUME stage = "end", NEW t \in Names \ bag.silent
        PROVE  (\E w \in written : w.from = t) \/ (t \in Packets \ bag.yields /\ Plan(t) = "ok")
    <3>1. PICK j \in 1..Len(Topics) : Topics[j] = t
      BY TopicFacts
    <3>2. Writes(t) => \E w \in written : w.from = t
      BY <2>0, <2>2, <3>1 DEF Messages, Passed
    <3>3. t \in ToSet(decoded) => t \in Packets
      BY <2>0, SetWithin DEF Lists
    <3> QED
      BY <2>2, <3>2, <3>3, PlanFollowed DEF Writes, PlanIsKept
  <2> QED
    BY <2>1, <2>2 DEF NothingIsDropped
<1> QED
  BY <1>1, Invariant, PTL

=============================================================================
