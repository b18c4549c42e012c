---------------------------- MODULE MCSensorsPoll ----------------------------
(* SensorsPoll for TLC: KXTF9, AK8973 and ISL29030, in the order of mSensors.*)
EXTENDS SensorsPoll

MCSensors ==
  << <<"acceleration", "orientation">>, <<"temperature">>, <<"proximity", "light">> >>

MCSamples ==
  [s \in All |-> CASE s \in {"light", "acceleration"} -> 2 [] s = "temperature" -> 0 [] OTHER -> 1]

MCWaking == [s \in All |-> CASE s = "light" -> 2 [] s = "proximity" -> 1 [] OTHER -> 0]

=============================================================================
