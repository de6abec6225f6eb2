--------------------------- MODULE MCCameraUsers ---------------------------
(* Instances of CameraUsers for TLC. *)
EXTENDS CameraUsers, TLC

CONSTANTS s1, s2, c1, c2, free

NoSession == {}
OneSession == {s1}
TwoSessions == {s1, s2}
OneClient == {c1}
TwoClients == {c1, c2}
NoRecorder == {}
AlarmRecorder == {"alarm"}
NoSingle == {}
HeartSingle == {"heartcheck"}
RequestSingles == {"cmdlist", "sleep_manage", "update"}

ThreadSymmetry == Permutations({s1, s2}) \cup Permutations({c1, c2})
=============================================================================
