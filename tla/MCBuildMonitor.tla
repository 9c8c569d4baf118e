--------------------------- MODULE MCBuildMonitor ---------------------------
(* A small build for TLC: the limits keep the order they have in the code    *)
(* (silence before progress, one phase longer than either).                  *)
EXTENDS BuildMonitor

Line(phases, marks) == [phases |-> phases, marks |-> marks]

MCLines == {Line({"compiling"}, {"progress"}),  \* Compiling tokio v1.47.1
            Line({"linking"}, {}),              \* Linking vector
            Line({}, {}),                       \* Blocking waiting for file lock
            Line({"error"}, {"fatal"}),         \* make failed in lib
            Line({}, {"garbled"})}

MCPhaseLimit == [p \in Phases |-> IF p = "compiling" THEN 3 ELSE 1]
=============================================================================
