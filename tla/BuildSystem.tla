----------------------------- MODULE BuildSystem -----------------------------
(* RobustBuildSystem and CoreBuildSystem (build/build_system.py,             *)
(* core_build.py, with vector_detection.py and dependency_sync.py): runs of  *)
(* the build orchestrator, one after the other, over the Vector checkout,    *)
(* the manifest of vector-bindings and the log directory they share.  A run  *)
(* may be interrupted or die at any of its steps, and the next one finds     *)
(* what it left.                                                             *)
(*                                                                           *)
(* A build the monitor watches is one step with the results BuildMonitor     *)
(* can end in.  The manifest is known by the Vector version its dependencies *)
(* were taken from; auto_fix_vector_bindings finds nothing to mend in it.    *)
EXTENDS Integers, Sequences

CONSTANTS
  Versions,       \* Vector's release tags
  Discoverable,   \* what get_vector_versions may answer
  NoVersion,      \* where there is no version
  MaxRuns         \* bound: runs of the orchestrator

ASSUME BuildAssumption ==
  /\ NoVersion \notin Versions
  /\ "repository" \notin Versions /\ "torn" \notin Versions
  /\ Discoverable \subseteq Seq(Versions) \ {<<>>}
  /\ MaxRuns \in Nat

VARIABLES
  pc,         \* where the run is, "idle" between runs
  mode,       \* "build", "skip" (--skip-vector) or "test" (--test-flow)
  versions,   \* the versions to try
  attempt,    \* the one being tried
  tree,       \* the vector/ directory
  tmp,        \* is there a .tmp directory
  manifest,   \* where the versions in vector-bindings/Cargo.toml are from
  synced,     \* has this attempt written the manifest
  core,       \* stage 1 of this attempt: "none", "reused" or "built"
  bindings,   \* stage 2 of this attempt: "none", "built" or "failed"
  report,     \* how the last run ended, and the version it claims
  runs        \* runs started

vars == <<pc, mode, versions, attempt, tree, tmp, manifest, synced, core, bindings,
          report, runs>>

(* vector/: whose source it is and whether all of it is there, whether its   *)
(* Cargo.toml is, what target/release holds, and whether that is less than   *)
(* 24 hours old.                                                             *)
Gone == [source |-> NoVersion, whole |-> FALSE, cargo |-> FALSE,
         artefacts |-> "none", fresh |-> FALSE]
Source(v) == [source |-> v, whole |-> TRUE, cargo |-> TRUE,
              artefacts |-> "none", fresh |-> FALSE]

(* What is left of a tree while it is being removed, or of a clone that did  *)
(* not get to its end.                                                       *)
Parts(t) ==
  {p \in [source : {t.source}, whole : {FALSE}, cargo : BOOLEAN,
          artefacts : {"none", "some"}, fresh : BOOLEAN] :
     /\ p.cargo => t.cargo
     /\ t.artefacts = "none" => p.artefacts = "none"
     /\ p.fresh <=> (p.artefacts # "none" /\ t.fresh)}

Version == versions[attempt]

NoReport == [how |-> "none", version |-> NoVersion]

End(how) ==
  /\ pc' = "idle"
  /\ report' = [how |-> how, version |-> IF how = "success" THEN Version ELSE NoVersion]

-----------------------------------------------------------------------------
(* main(): the mode, --clean, and the versions to try.  CoreBuildSystem has  *)
(* made .tmp before --clean removes it.                                      *)
FirstTwo(list) == SubSeq(list, 1, IF Len(list) < 2 THEN Len(list) ELSE 2)

Begin ==
  /\ pc = "idle" /\ runs < MaxRuns
  /\ runs' = runs + 1
  /\ attempt' = 1 /\ synced' = FALSE /\ core' = "none" /\ bindings' = "none"
  /\ UNCHANGED manifest

Start(m, list) ==
  /\ Begin
  /\ mode' = m /\ versions' = FirstTwo(list)
  /\ tmp' = TRUE
  /\ pc' = "detect" /\ report' = NoReport
  /\ UNCHANGED tree

StartClean(list) ==
  /\ Begin
  /\ mode' = "build" /\ versions' = FirstTwo(list)
  /\ tmp' = FALSE /\ tree' = Gone
  /\ pc' = "detect" /\ report' = NoReport

(* rmtree raises in main(), or is interrupted. *)
CleanFails ==
  /\ Begin
  /\ mode' = "build" /\ UNCHANGED versions
  /\ tmp' \in BOOLEAN /\ tree' \in {tree} \union Parts(tree)
  /\ pc' = "idle" /\ report' = [NoReport EXCEPT !.how = "crash"]

-----------------------------------------------------------------------------
(* detect_vector_build_info: any exception - a file that cannot be read, an  *)
(* artefact that goes between glob and stat - means that there is no build,  *)
(* and so does a Cargo.toml in which no version is found.                    *)
Existing == tree.cargo /\ tree.artefacts # "none"
Detected == {Existing, FALSE}

RebuildsStaleOnly(existing) == ~existing \/ ~tree.fresh
ShouldRebuild(existing)     == ~existing \/ tree.source # Version \/ ~tree.fresh

Reuse ==
  /\ core' = "reused" /\ pc' = "sync"
  /\ UNCHANGED report

Detect ==
  /\ pc = "detect"
  /\ \E existing \in Detected :
       \/ mode = "build" /\ ~ShouldRebuild(existing) /\ Reuse
       \/ /\ mode = "build" /\ ShouldRebuild(existing)
          /\ pc' = "remove" /\ UNCHANGED <<core, report>>
       \/ mode # "build" /\ existing /\ Reuse
       \/ mode = "skip" /\ ~existing /\ End("failure") /\ UNCHANGED core
       \/ mode = "test" /\ ~existing /\ End("tested") /\ UNCHANGED core
  /\ UNCHANGED <<mode, versions, attempt, tree, tmp, manifest, synced, bindings, runs>>

(* `continue`: the other version, or the end. *)
TriesOn ==
  /\ core' = "none" /\ bindings' = "none" /\ synced' = FALSE
  /\ attempt' = attempt + 1 /\ pc' = "detect" /\ UNCHANGED report

TryNext ==
  /\ core' = "none" /\ bindings' = "none" /\ synced' = FALSE
  /\ IF attempt < Len(versions)
     THEN attempt' = attempt + 1 /\ pc' = "detect" /\ UNCHANGED report
     ELSE End("failure") /\ UNCHANGED attempt

-----------------------------------------------------------------------------
(* download_vector                                                           *)
RemovePart ==
  /\ pc = "remove" /\ tree # Gone
  /\ tree' \in Parts(tree)
  /\ UNCHANGED <<pc, mode, versions, attempt, tmp, manifest, synced, core, bindings,
                 report, runs>>

Keeps   == UNCHANGED tree
Removes == tree' = Gone                        \* shutil.rmtree

Remove ==
  /\ pc = "remove"
  /\ Removes
  /\ pc' = "tarball"
  /\ UNCHANGED <<mode, versions, attempt, tmp, manifest, synced, core, bindings, report,
                 runs>>

(* shutil.move goes into a directory that is there. *)
MovesSource == IF tree = Gone THEN tree' = Source(Version) ELSE UNCHANGED tree

Tarball ==
  /\ pc = "tarball"
  /\ MovesSource
  /\ tmp' = TRUE                               \* extractall makes it
  /\ pc' = "core"
  /\ UNCHANGED <<mode, versions, attempt, manifest, synced, core, bindings, report, runs>>

(* Before the extraction, or after the move when temp_extract stays. *)
TarballFails ==
  /\ pc = "tarball"
  /\ \/ tmp' \in {tmp, TRUE} /\ UNCHANGED tree
     \/ tmp' = TRUE /\ MovesSource
  /\ pc' = "clone"
  /\ UNCHANGED <<mode, versions, attempt, manifest, synced, core, bindings, report, runs>>

ClonePart ==
  /\ pc = "clone" /\ tree = Gone
  /\ tree' \in Parts(Source(Version))
  /\ UNCHANGED <<pc, mode, versions, attempt, tmp, manifest, synced, core, bindings,
                 report, runs>>

Clone ==
  /\ pc = "clone" /\ tree \in {Gone} \union Parts(Source(Version))
  /\ tree' = Source(Version)
  /\ pc' = "core"
  /\ UNCHANGED <<mode, versions, attempt, tmp, manifest, synced, core, bindings, report,
                 runs>>

(* git fails, or _clean_git_metadata raises on a source that is there; a     *)
(* removal that raises ends in the same handler.                             *)
DownloadFails ==
  /\ pc \in {"remove", "clone"}
  /\ IF pc = "clone" /\ ~tree.whole
     THEN tree' \in {tree, Gone, Source(Version)}
     ELSE UNCHANGED tree
  /\ TryNext
  /\ UNCHANGED <<mode, versions, tmp, manifest, runs>>

-----------------------------------------------------------------------------
(* Stage 1, build_vector_core: cargo fills target/release as it goes.        *)
Compile ==
  /\ pc = "core" /\ tmp /\ tree.cargo /\ tree.artefacts = "none"
  /\ tree' = [tree EXCEPT !.artefacts = "some", !.fresh = TRUE]
  /\ UNCHANGED <<pc, mode, versions, attempt, tmp, manifest, synced, core, bindings,
                 report, runs>>

CoreBuilt ==
  /\ pc = "core" /\ tmp /\ tree.cargo
  /\ tree' = [tree EXCEPT !.artefacts = "all", !.fresh = TRUE]
  /\ core' = "built" /\ pc' = "sync"
  /\ UNCHANGED <<mode, versions, attempt, tmp, manifest, synced, bindings, report, runs>>

(* analyze_stage_error: of an upstream pattern in the log, or of anything    *)
(* else; a log that cannot be decoded raises, as does one that cannot be     *)
(* made, for want of .tmp, or a command that is not there.                   *)
Fail(why) ==
  \/ why = "upstream" /\ TryNext
  \/ /\ why = "other" /\ End("failure")
     /\ UNCHANGED <<attempt, synced, core, bindings>>
  \/ /\ why = "unreadable" /\ End("crash")
     /\ UNCHANGED <<attempt, synced, core, bindings>>

Whys == {"upstream", "other", "unreadable"}

CoreFails(why) ==
  /\ pc = "core"
  /\ ~tmp => why = "unreadable"
  /\ Fail(why)
  /\ UNCHANGED <<mode, versions, tree, tmp, manifest, runs>>

-----------------------------------------------------------------------------
(* sync_vector_dependencies: the manifest is emptied, then written; one that *)
(* was already torn has no line to replace and is written as it was.  Any    *)
(* exception is swallowed: before the manifest is opened nothing has         *)
(* happened, after it the manifest stays torn and the run goes on with it.   *)
Synced == IF mode = "test" THEN End("tested") ELSE pc' = "bindings" /\ UNCHANGED report

SyncSkipped ==
  /\ pc = "sync"
  /\ Synced
  /\ UNCHANGED <<mode, versions, attempt, tree, tmp, manifest, synced, core, bindings,
                 runs>>

SyncOpens ==
  /\ pc = "sync" /\ manifest # "torn"
  /\ manifest' = "torn"
  /\ pc' = "write"
  /\ UNCHANGED <<mode, versions, attempt, tree, tmp, synced, core, bindings, report, runs>>

SyncWrites ==
  /\ pc = "write"
  /\ manifest' = tree.source
  /\ synced' = TRUE
  /\ Synced
  /\ UNCHANGED <<mode, versions, attempt, tree, tmp, core, bindings, runs>>

SyncFails ==
  /\ pc = "write"
  /\ Synced
  /\ UNCHANGED <<mode, versions, attempt, tree, tmp, manifest, synced, core, bindings,
                 runs>>

-----------------------------------------------------------------------------
(* Stage 2, build_vector_bindings: its failure is kept and the next stage    *)
(* starts all the same.                                                      *)
BindingsBuilt ==
  /\ pc = "bindings" /\ tmp /\ manifest # "torn"
  /\ bindings' = "built" /\ pc' = "python"
  /\ UNCHANGED <<mode, versions, attempt, tree, tmp, manifest, synced, core, report, runs>>

BindingsFail(why) ==
  /\ pc = "bindings"
  /\ ~tmp => why = "unreadable"
  /\ IF why = "unreadable"
     THEN End("crash") /\ UNCHANGED bindings
     ELSE bindings' = "failed" /\ pc' = "python" /\ UNCHANGED report
  /\ UNCHANGED <<mode, versions, attempt, tree, tmp, manifest, synced, core, runs>>

(* Stage 3, build_python_layer and verify_python_layer.  maturin builds the  *)
(* crate of the same manifest.                                               *)
PythonBuilt ==
  /\ pc = "python" /\ tmp /\ manifest # "torn"
  /\ End(CASE mode = "build" -> "success"
           [] mode = "skip"  -> IF bindings = "built" THEN "stages" ELSE "failure")
  /\ UNCHANGED <<mode, versions, attempt, tree, tmp, manifest, synced, core, bindings,
                 runs>>

PythonFails(why) ==
  /\ pc = "python"
  /\ ~tmp => why = "unreadable"
  /\ Fail(IF mode = "skip" /\ why = "upstream" THEN "other" ELSE why)
  /\ UNCHANGED <<mode, versions, tree, tmp, manifest, runs>>

-----------------------------------------------------------------------------
(* Ctrl-C or a kill, at any point of a run. *)
Interrupt ==
  /\ pc # "idle"
  /\ End("interrupted")
  /\ UNCHANGED <<mode, versions, attempt, tree, tmp, manifest, synced, core, bindings,
                 runs>>

(* 24 hours pass. *)
Age ==
  /\ tree.fresh
  /\ tree' = [tree EXCEPT !.fresh = FALSE]
  /\ UNCHANGED <<pc, mode, versions, attempt, tmp, manifest, synced, core, bindings,
                 report, runs>>

Init ==
  /\ pc = "idle" /\ mode = "build" /\ attempt = 1
  /\ \E list \in Discoverable : versions = FirstTwo(list)
  /\ tree = Gone /\ tmp = FALSE
  /\ manifest = "repository" /\ synced = FALSE
  /\ core = "none" /\ bindings = "none"
  /\ report = NoReport /\ runs = 0

Download == RemovePart \/ Remove \/ Tarball \/ TarballFails \/ ClonePart \/ Clone
            \/ DownloadFails
Stages   == \/ Compile \/ CoreBuilt \/ SyncSkipped \/ SyncOpens \/ SyncWrites
            \/ SyncFails
            \/ BindingsBuilt \/ PythonBuilt
            \/ \E why \in Whys : CoreFails(why) \/ BindingsFail(why) \/ PythonFails(why)

Next ==
  \/ \E list \in Discoverable :
        StartClean(list) \/ \E m \in {"build", "skip", "test"} : Start(m, list)
  \/ CleanFails \/ Detect \/ Download \/ Stages \/ Interrupt \/ Age

Spec == Init /\ [][Next]_vars

-----------------------------------------------------------------------------
Trees == [source : Versions \union {NoVersion}, whole : BOOLEAN, cargo : BOOLEAN,
          artefacts : {"none", "some", "all"}, fresh : BOOLEAN]

Reports == [how : {"none", "success", "stages", "tested", "failure", "crash",
                   "interrupted"},
            version : Versions \union {NoVersion}]

TypeOK ==
  /\ pc \in {"idle", "detect", "remove", "tarball", "clone", "core", "sync", "write",
             "bindings", "python"}
  /\ mode \in {"build", "skip", "test"}
  /\ versions \in Seq(Versions) /\ Len(versions) \in 1..2
  /\ attempt \in 1..Len(versions)
  /\ tree \in Trees
  /\ tmp \in BOOLEAN
  /\ manifest \in Versions \union {NoVersion, "repository", "torn"}
  /\ synced \in BOOLEAN
  /\ core \in {"none", "reused", "built"}
  /\ bindings \in {"none", "built", "failed"}
  /\ report \in Reports
  /\ runs \in 0..MaxRuns

(* A build that reports success with a version has that version's source     *)
(* and artefacts in vector/, and if its sync wrote the manifest, wrote that  *)
(* version's dependencies into it - through however many interrupted runs,   *)
(* half-removed trees and versions tried before.                             *)
SuccessIsOfTheVersion ==
  report.how = "success" =>
    /\ tree.source = report.version /\ tree.artefacts # "none"
    /\ manifest # "torn"
    /\ synced => manifest = report.version

(* Cargo is only let loose on the whole source of the version asked for.     *)
CompiledSourceIsWhole ==
  pc = "core" => tree.whole /\ tree.source = Version

(* "Auto-detect if Vector is already successfully built"                     *)
(* (vector_detection.py:56): a build that is reused is one that finished.    *)
ReusedBuildsAreComplete ==
  core = "reused" => tree.artefacts = "all"
=============================================================================
