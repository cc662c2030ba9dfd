--------------------------- MODULE MCTopicIdentity ---------------------------
(* Two Hesai models and one model of each other vendor, all LiDAR models in  *)
(* the registry; a machine with every calibration and one that lacks some.   *)
EXTENDS TopicIdentity

SomeModels == [hesai |-> {"p40", "qt128"}, velodyne |-> {"vlp16"},
               robosense |-> {"helios"}, continental |-> {"ars548"}]
SomeMachines == {{"p40", "qt128", "vlp16"}, {"p40"}}
SomeSupported == {i \in Resolved : i.vendor \in Lidars}
=============================================================================
