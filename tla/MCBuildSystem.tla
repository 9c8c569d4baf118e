---------------------------- MODULE MCBuildSystem ----------------------------
(* Two releases of Vector; the discovery finds both, newest first, or falls  *)
(* back to a list that begins with the older one.                            *)
EXTENDS BuildSystem

CONSTANTS v48, v47

MCVersions == {v48, v47}
MCDiscoverable == {<<v48, v47>>, <<v47>>}
=============================================================================
