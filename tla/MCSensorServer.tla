---------------------------- MODULE MCSensorServer ----------------------------
EXTENDS SensorServer, TLC

Interchangeable == Permutations(Connections) \cup Permutations(Sensors)
=============================================================================
