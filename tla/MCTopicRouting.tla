--------------------------- MODULE MCTopicRouting ---------------------------
(* Two packet topics and another one.  A rule may send a packet topic to a  *)
(* new name or onto a name the bag has.                                     *)
EXTENDS TopicRouting

SomeTopics == <<"front", "rear", "tf">>
SomeTypes == [t \in {"front", "rear", "tf"} |-> IF t = "tf" THEN "TFMessage" ELSE "PandarScan"]

(* A machine with every package; a scan needs Time by two ways.             *)
Everything ==
  [PandarScan |-> <<"PandarPacket", "Header">>, PandarPacket |-> <<"Time">>,
   PointCloud2 |-> <<"PointField", "Header">>, PointField |-> <<>>,
   TFMessage |-> <<"Header">>, Header |-> <<"Time">>, Time |-> <<>>]
Without(types) == [t \in DOMAIN Everything \ types |-> Everything[t]]

Record(type, files) == [type |-> type, text |-> files]

(* The bag of a driver on a machine without the driver's messages; a bag    *)
(* whose recorder did not have them, on one that does; that bag on a        *)
(* machine whose installation is not complete; and a bag without any.       *)
SomeMachines ==
  {[records |-> {Record("PandarScan", <<"bag">>), Record("PandarScan", <<"other">>)},
    install |-> Without({"PandarScan", "PandarPacket"})],
   [records |-> {Record("PandarScan", <<>>), Record("TFMessage", <<"bag">>)},
    install |-> Everything],
   [records |-> {Record("PandarScan", <<>>), Record("TFMessage", <<"bag">>)},
    install |-> Without({"Header"})],
   [records |-> {Record("PandarScan", <<>>)}, install |-> Everything]}
=============================================================================
