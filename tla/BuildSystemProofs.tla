-------------------------- MODULE BuildSystemProofs --------------------------
(* What the orchestrator's runs leave behind, proved for any releases, any   *)
(* lists of them to try and any number of runs.                              *)
EXTENDS BuildSystem, TLAPS

(* The source that stage 1 starts from.                                      *)
SourceInv ==
  /\ tree.whole => tree.cargo
  /\ pc = "tarball" => tree = Gone
  /\ CompiledSourceIsWhole

(* What the later stages build against.                                      *)
StageInv ==
  /\ pc \in {"sync", "write", "bindings", "python"} /\ mode = "build" =>
       tree.source = Version /\ tree.artefacts # "none"
  /\ pc \in {"bindings", "python"} =>
       /\ mode # "test"
       /\ synced => manifest = tree.source
  /\ synced => pc \in {"bindings", "python", "idle"}

(* A run under way has not reported.                                         *)
ReportInv ==
  /\ pc # "idle" => report = NoReport
  /\ SuccessIsOfTheVersion

IInv == TypeOK /\ SourceInv /\ StageInv /\ ReportInv

-----------------------------------------------------------------------------
(* The first two of what was discovered are one or two versions.             *)
LEMMA FirstTwoType ==
  ASSUME NEW list \in Discoverable
  PROVE  FirstTwo(list) \in Seq(Versions) /\ Len(FirstTwo(list)) \in 1..2
<1>1. list \in Seq(Versions) /\ list # <<>>
  BY BuildAssumption
<1>2. Len(list) \in Nat /\ Len(list) >= 1
  BY <1>1
<1>3. PICK n \in 1..2 : n <= Len(list) /\ FirstTwo(list) = SubSeq(list, 1, n)
  <2>1. CASE Len(list) < 2
    BY <1>2, <2>1 DEF FirstTwo
  <2>2. CASE ~(Len(list) < 2)
    BY <1>2, <2>2 DEF FirstTwo
  <2> QED
    BY <2>1, <2>2
<1>4. \A i \in 1..n : list[i] \in Versions
  BY <1>1, <1>2, <1>3
<1>5. Len(SubSeq(list, 1, n)) = n /\ SubSeq(list, 1, n) \in Seq(Versions)
  BY <1>1, <1>2, <1>3, <1>4
<1> QED
  BY <1>3, <1>5

(* There is a first version to try.                                          *)
LEMMA FirstAttempt ==
  ASSUME NEW list, Len(list) \in 1..2
  PROVE  1 \in 1..Len(list)
OBVIOUS

(* A run is one more, within the bound.                                      *)
LEMMA OneMoreRun == TypeOK /\ runs < MaxRuns => runs + 1 \in 0..MaxRuns
BY BuildAssumption DEF TypeOK

(* The trees of the model are trees; those with all of the source have its   *)
(* Cargo.toml.                                                               *)
LEMMA TreeTypes ==
  /\ Gone \in Trees /\ ~Gone.whole /\ ~Gone.fresh
  /\ \A v \in Versions : /\ Source(v) \in Trees /\ Source(v).whole /\ Source(v).cargo
                         /\ Source(v).source = v /\ ~Source(v).fresh
  /\ \A t \in Trees : \A p \in Parts(t) : p \in Trees /\ ~p.whole
BY DEF Gone, Source, Parts, Trees

(* The version being tried is one.                                           *)
LEMMA VersionType == TypeOK => Version \in Versions
BY DEF TypeOK, Version

-----------------------------------------------------------------------------
(* The end of a run leaves its report, of success only with the version.     *)
LEMMA EndType ==
  ASSUME TypeOK, NEW how \in {"success", "stages", "tested", "failure", "crash",
                              "interrupted"},
         End(how)
  PROVE  /\ pc' = "idle"
         /\ report' \in Reports
         /\ report'.how = how
         /\ how = "success" => report'.version = Version
BY VersionType DEF End, Reports

(* A run that ends otherwise than in success keeps the invariant.            *)
LEMMA Ended ==
  ASSUME IInv, pc' = "idle", report'.how # "success", TypeOK',
         tree'.whole => tree'.cargo
  PROVE  IInv'
BY DEF IInv, SourceInv, StageInv, ReportInv, CompiledSourceIsWhole,
       SuccessIsOfTheVersion

(* Going on to the other version keeps the invariant, and so does giving up. *)
LEMMA NextTried ==
  ASSUME IInv, pc # "idle", TryNext, tree' \in Trees, tree'.whole => tree'.cargo,
         UNCHANGED <<mode, versions, tmp, manifest, runs>>
  PROVE  IInv'
<1>1. CASE attempt < Len(versions)
  <2>1. attempt' \in 1..Len(versions) /\ pc' = "detect" /\ UNCHANGED report
    BY <1>1 DEF TryNext, IInv, TypeOK
  <2>2. TypeOK'
    BY <2>1 DEF TryNext, IInv, TypeOK
  <2>3. ReportInv'
    BY <2>1 DEF IInv, ReportInv, NoReport, SuccessIsOfTheVersion
  <2> QED
    BY <2>1, <2>2, <2>3 DEF TryNext, IInv, SourceInv, StageInv, CompiledSourceIsWhole
<1>2. CASE ~(attempt < Len(versions))
  <2>1. End("failure") /\ UNCHANGED attempt
    BY <1>2 DEF TryNext
  <2>2. /\ pc' = "idle" /\ report'.how = "failure"
        /\ report' \in Reports
    BY <2>1, EndType DEF IInv
  <2>3. TypeOK'
    BY <2>1, <2>2 DEF TryNext, IInv, TypeOK
  <2> QED
    BY <2>2, <2>3, Ended
<1> QED
  BY <1>1, <1>2

(* So does a failure, whatever it is put down to.                            *)
LEMMA Failed ==
  ASSUME IInv, pc # "idle", NEW why \in Whys, Fail(why),
         UNCHANGED <<mode, versions, tree, tmp, manifest, runs>>
  PROVE  IInv'
<1>1. CASE TryNext
  BY <1>1, NextTried DEF IInv, TypeOK, SourceInv
<1>2. CASE /\ End("failure") \/ End("crash")
           /\ UNCHANGED <<attempt, synced, core, bindings>>
  <2>1. PICK how \in {"failure", "crash"} : End(how)
    BY <1>2
  <2>2. /\ pc' = "idle" /\ report'.how = how
        /\ report' \in Reports
    BY <2>1, EndType DEF IInv
  <2>3. TypeOK'
    BY <1>2, <2>2 DEF IInv, TypeOK
  <2> QED
    BY <2>2, <2>3, Ended DEF IInv, SourceInv
<1> QED
  BY <1>1, <1>2 DEF Fail, Whys

-----------------------------------------------------------------------------
(* The first run finds nothing.                                              *)
LEMMA BuildInit == Init => IInv
<1> SUFFICES ASSUME Init PROVE IInv
  OBVIOUS
<1>1. versions \in Seq(Versions) /\ Len(versions) \in 1..2
  BY FirstTwoType DEF Init
<1>2. NoReport \in Reports /\ NoReport.how = "none"
  BY DEF NoReport, Reports
<1>3. TypeOK
  <2>1. 1 \in 1..Len(versions) /\ 0 \in 0..MaxRuns
    BY <1>1, FirstAttempt, BuildAssumption
  <2>2. tree \in Trees
    BY TreeTypes DEF Init
  <2> QED
    BY <1>1, <1>2, <2>1, <2>2 DEF Init, TypeOK
<1>4. SourceInv /\ StageInv
  BY TreeTypes DEF Init, SourceInv, StageInv, CompiledSourceIsWhole
<1>5. ReportInv
  BY <1>2 DEF Init, ReportInv, SuccessIsOfTheVersion
<1> QED
  BY <1>3, <1>4, <1>5 DEF IInv

(* A run starts, cleaned or not.                                             *)
LEMMA Begun ==
  ASSUME IInv, NEW list \in Discoverable,
         StartClean(list) \/ \E m \in {"build", "skip", "test"} : Start(m, list)
  PROVE  IInv'
<1>1. versions' \in Seq(Versions) /\ Len(versions') \in 1..2
  BY FirstTwoType DEF StartClean, Start
<1>2. /\ pc' = "detect" /\ report' = NoReport /\ report'.how = "none"
      /\ report'.version = NoVersion /\ report' \in Reports
  BY DEF StartClean, Start, NoReport, Reports
<1>3. tree' \in Trees /\ (tree'.whole => tree'.cargo)
  BY TreeTypes DEF StartClean, Start, IInv, TypeOK, SourceInv
<1>4. /\ mode' \in {"build", "skip", "test"} /\ tmp' \in BOOLEAN
      /\ attempt' = 1 /\ synced' = FALSE /\ core' = "none" /\ bindings' = "none"
      /\ UNCHANGED manifest /\ runs' \in 0..MaxRuns
  <2>1. Begin /\ mode' \in {"build", "skip", "test"} /\ tmp' \in BOOLEAN
    BY DEF StartClean, Start
  <2> QED
    BY <2>1, OneMoreRun DEF Begin, IInv
<1>5. TypeOK'
  <2>1. attempt' \in 1..Len(versions')
    BY <1>1, <1>4, FirstAttempt
  <2> QED
    BY <1>1, <1>2, <1>3, <1>4, <2>1 DEF IInv, TypeOK
<1>6. SourceInv' /\ StageInv'
  BY <1>2, <1>3, <1>4 DEF SourceInv, StageInv, CompiledSourceIsWhole
<1>7. ReportInv'
  BY <1>2 DEF ReportInv, SuccessIsOfTheVersion, NoReport
<1> QED
  BY <1>5, <1>6, <1>7 DEF IInv

(* A --clean that does not get to its end.                                   *)
LEMMA CleanFailed == ASSUME IInv, CleanFails PROVE IInv'
<1>1. tree' \in Trees /\ (tree'.whole => tree'.cargo)
  BY TreeTypes DEF CleanFails, IInv, TypeOK, SourceInv
<1>2. /\ pc' = "idle" /\ report'.how = "crash"
      /\ report' \in Reports
  BY DEF CleanFails, NoReport, Reports
<1>3. TypeOK'
  <2>1. /\ mode' = "build" /\ UNCHANGED versions /\ tmp' \in BOOLEAN
        /\ attempt' = 1 /\ synced' = FALSE /\ core' = "none" /\ bindings' = "none"
        /\ UNCHANGED manifest /\ runs' \in 0..MaxRuns
    BY OneMoreRun DEF CleanFails, Begin, IInv
  <2>2. attempt' \in 1..Len(versions')
    BY <2>1, FirstAttempt DEF IInv, TypeOK
  <2> QED
    BY <1>1, <1>2, <2>1, <2>2 DEF IInv, TypeOK
<1> QED
  BY <1>1, <1>2, <1>3, Ended

(* What is found in vector/ is used only if it is the version asked for.     *)
LEMMA DetectKeeps == ASSUME IInv, Detect PROVE IInv'
<1>1. /\ pc = "detect"
      /\ UNCHANGED <<mode, versions, attempt, tree, tmp, manifest, synced, bindings,
                     runs>>
  BY DEF Detect
<1>2. CASE Reuse /\ (mode = "build" => \E existing \in Detected :
                                          ~ShouldRebuild(existing))
  <2>1. TypeOK'
    BY <1>1, <1>2 DEF Reuse, IInv, TypeOK
  <2>2. mode = "build" => tree.source = Version /\ tree.artefacts # "none"
    BY <1>2 DEF ShouldRebuild, Detected, Existing
  <2>3. SourceInv' /\ StageInv' /\ ReportInv'
    BY <1>1, <1>2, <2>2 DEF Reuse, IInv, SourceInv, StageInv, ReportInv, Version,
         CompiledSourceIsWhole, SuccessIsOfTheVersion, NoReport
  <2> QED
    BY <2>1, <2>3 DEF IInv
<1>3. CASE pc' = "remove" /\ UNCHANGED <<core, report>>
  <2>1. TypeOK'
    BY <1>1, <1>3 DEF IInv, TypeOK
  <2>2. SourceInv' /\ StageInv' /\ ReportInv'
    BY <1>1, <1>3 DEF IInv, SourceInv, StageInv, ReportInv, CompiledSourceIsWhole,
         SuccessIsOfTheVersion, NoReport
  <2> QED
    BY <2>1, <2>2 DEF IInv
<1>4. CASE (End("failure") \/ End("tested")) /\ UNCHANGED core
  <2>1. PICK how \in {"failure", "tested"} : End(how)
    BY <1>4
  <2>2. /\ pc' = "idle" /\ report'.how = how
        /\ report' \in Reports
    BY <2>1, EndType DEF IInv
  <2>3. TypeOK'
    BY <1>1, <1>4, <2>2 DEF IInv, TypeOK
  <2> QED
    BY <1>1, <2>2, <2>3, Ended DEF IInv, SourceInv
<1> QED
  BY <1>2, <1>3, <1>4 DEF Detect

-----------------------------------------------------------------------------
(* A step of the download leaves .tmp and the tree, and goes where it goes.  *)
LEMMA Downloaded ==
  ASSUME IInv, pc \in {"remove", "tarball", "clone"},
         pc' \in {"remove", "tarball", "clone", "core"},
         tree' \in Trees, tree'.whole => tree'.cargo, tmp' \in BOOLEAN,
         pc' = "tarball" => tree' = Gone,
         pc' = "core" => tree'.whole /\ tree'.source = Version,
         UNCHANGED <<mode, versions, attempt, manifest, synced, core, bindings, report,
                     runs>>
  PROVE  IInv'
<1>1. TypeOK'
  BY DEF IInv, TypeOK
<1>2. SourceInv' /\ StageInv'
  BY DEF IInv, SourceInv, StageInv, CompiledSourceIsWhole, Version
<1>3. ReportInv'
  BY DEF IInv, ReportInv, SuccessIsOfTheVersion, NoReport
<1> QED
  BY <1>1, <1>2, <1>3 DEF IInv

(* Each of the steps does.                                                   *)
LEMMA DownloadKeeps == ASSUME IInv, Download PROVE IInv'
<1>1. /\ tree \in Trees /\ (tree.whole => tree.cargo) /\ Version \in Versions
      /\ tmp \in BOOLEAN
  BY VersionType DEF IInv, TypeOK, SourceInv
<1>2. Source(Version) \in Trees
  BY <1>1, TreeTypes
<1>3. CASE RemovePart \/ Remove
  BY <1>1, <1>3, TreeTypes, Downloaded DEF RemovePart, Remove, Removes
<1>4. CASE Tarball
  <2>1. tree' = Source(Version)
    BY <1>4 DEF Tarball, MovesSource, IInv, SourceInv
  <2> QED
    BY <1>1, <1>4, <2>1, TreeTypes, Downloaded DEF Tarball
<1>5. CASE TarballFails
  <2>1. tree' \in {tree, Source(Version)} /\ tmp' \in BOOLEAN
    BY <1>1, <1>5 DEF TarballFails, MovesSource
  <2> QED
    BY <1>1, <1>5, <2>1, TreeTypes, Downloaded DEF TarballFails
<1>6. CASE ClonePart \/ Clone
  BY <1>1, <1>2, <1>6, TreeTypes, Downloaded DEF ClonePart, Clone
<1>7. CASE DownloadFails
  <2>1. tree' \in {tree, Gone, Source(Version)}
    BY <1>7 DEF DownloadFails
  <2> QED
    BY <1>1, <1>7, <2>1, TreeTypes, NextTried DEF DownloadFails
<1> QED
  BY <1>3, <1>4, <1>5, <1>6, <1>7 DEF Download

-----------------------------------------------------------------------------
(* Stage 1 fills the tree it was given.                                      *)
LEMMA CoreKeeps == ASSUME IInv, Compile \/ CoreBuilt PROVE IInv'
<1>1. /\ tree' \in Trees /\ tree'.artefacts # "none" /\ tree'.source = tree.source
      /\ tree'.whole = tree.whole /\ tree'.cargo = tree.cargo
  BY DEF Compile, CoreBuilt, IInv, TypeOK, Trees
<1>2. /\ pc = "core" /\ pc' \in {"core", "sync"} /\ core' \in {core, "built"}
      /\ UNCHANGED <<mode, versions, attempt, tmp, manifest, synced, bindings, report,
                     runs>>
  BY DEF Compile, CoreBuilt
<1>3. TypeOK'
  BY <1>1, <1>2 DEF IInv, TypeOK
<1>4. SourceInv' /\ StageInv'
  BY <1>1, <1>2 DEF IInv, SourceInv, StageInv, CompiledSourceIsWhole, Version
<1>5. ReportInv'
  BY <1>2 DEF IInv, ReportInv, SuccessIsOfTheVersion, NoReport
<1> QED
  BY <1>3, <1>4, <1>5 DEF IInv

(* The manifest is emptied, and written from the tree.                       *)
LEMMA SyncKeeps ==
  ASSUME IInv, SyncSkipped \/ SyncOpens \/ SyncWrites \/ SyncFails
  PROVE  IInv'
<1>1. /\ pc \in {"sync", "write"}
      /\ manifest' \in Versions \union {NoVersion, "repository", "torn"}
      /\ synced' \in BOOLEAN
      /\ UNCHANGED <<mode, versions, attempt, tree, tmp, core, bindings, runs>>
  BY DEF SyncSkipped, SyncOpens, SyncWrites, SyncFails, IInv, TypeOK, Trees
<1>2. CASE pc' = "idle"
  <2>1. End("tested")
    BY <1>2 DEF SyncSkipped, SyncOpens, SyncWrites, SyncFails, Synced
  <2>2. /\ report'.how = "tested"
        /\ report' \in Reports
    BY <2>1, EndType DEF IInv
  <2>3. TypeOK'
    BY <1>1, <1>2, <2>2 DEF IInv, TypeOK
  <2> QED
    BY <1>1, <1>2, <2>2, <2>3, Ended DEF IInv, SourceInv
<1>3. CASE pc' # "idle"
  <2>1. /\ pc' \in {"write", "bindings"} /\ UNCHANGED report
        /\ pc' = "bindings" => mode # "test"
    BY <1>3 DEF SyncSkipped, SyncOpens, SyncWrites, SyncFails, Synced, End
  <2>2. TypeOK'
    BY <1>1, <2>1 DEF IInv, TypeOK
  <2>3. SourceInv' /\ ReportInv'
    BY <1>1, <2>1 DEF IInv, SourceInv, ReportInv, CompiledSourceIsWhole,
         SuccessIsOfTheVersion, NoReport
  <2>4. StageInv'
    <3>1. /\ synced = FALSE
          /\ mode = "build" => tree.source = Version /\ tree.artefacts # "none"
      BY <1>1 DEF IInv, StageInv
    <3>2. Version' = Version
      BY <1>1 DEF Version
    <3>3. CASE pc' = "write"
      <4>1. synced' = FALSE
        BY <3>1, <3>3 DEF SyncSkipped, SyncOpens, SyncWrites, SyncFails, Synced, End
      <4> QED
        BY <1>1, <3>1, <3>2, <3>3, <4>1 DEF StageInv
    <3>4. CASE pc' = "bindings"
      <4>1. synced' => manifest' = tree.source
        BY <3>1, <3>4 DEF SyncSkipped, SyncOpens, SyncWrites, SyncFails
      <4> QED
        BY <1>1, <2>1, <3>1, <3>2, <3>4, <4>1 DEF StageInv
    <3> QED
      BY <2>1, <3>3, <3>4
  <2> QED
    BY <2>2, <2>3, <2>4 DEF IInv
<1> QED
  BY <1>2, <1>3

(* A stage that fails, or is passed, leaves what it was given.               *)
LEMMA BindingsKeep ==
  ASSUME IInv, BindingsBuilt \/ \E why \in Whys : BindingsFail(why)
  PROVE  IInv'
<1>1. /\ pc = "bindings"
      /\ UNCHANGED <<mode, versions, attempt, tree, tmp, manifest, synced, core, runs>>
  BY DEF BindingsBuilt, BindingsFail
<1>2. CASE End("crash") /\ UNCHANGED bindings
  <2>1. pc' = "idle" /\ report'.how = "crash" /\ report' \in Reports
    BY <1>2, EndType DEF IInv
  <2>2. TypeOK'
    BY <1>1, <1>2, <2>1 DEF IInv, TypeOK
  <2> QED
    BY <1>1, <2>1, <2>2, Ended DEF IInv, SourceInv
<1>3. CASE bindings' \in {"built", "failed"} /\ pc' = "python" /\ UNCHANGED report
  <2>1. TypeOK'
    BY <1>1, <1>3 DEF IInv, TypeOK
  <2>2. SourceInv' /\ StageInv' /\ ReportInv'
    BY <1>1, <1>3 DEF IInv, SourceInv, StageInv, ReportInv, CompiledSourceIsWhole,
         SuccessIsOfTheVersion, NoReport, Version
  <2> QED
    BY <2>1, <2>2 DEF IInv
<1> QED
  BY <1>2, <1>3 DEF BindingsBuilt, BindingsFail

(* Success is reported of what the stages built.                             *)
LEMMA PythonKeeps == ASSUME IInv, PythonBuilt PROVE IInv'
<1>1. /\ pc = "python" /\ manifest # "torn"
      /\ UNCHANGED <<mode, versions, attempt, tree, tmp, manifest, synced, core,
                     bindings, runs>>
  BY DEF PythonBuilt
<1>2. mode \in {"build", "skip"}
  BY <1>1 DEF IInv, TypeOK, StageInv
<1>3. PICK how \in {"success", "stages", "failure"} :
        End(how) /\ (how = "success" => mode = "build")
  BY <1>2 DEF PythonBuilt
<1>4. /\ pc' = "idle" /\ report'.how = how /\ report' \in Reports
      /\ how = "success" => report'.version = Version
  BY <1>3, EndType DEF IInv
<1>5. TypeOK'
  BY <1>1, <1>4 DEF IInv, TypeOK
<1>6. CASE how # "success"
  BY <1>1, <1>4, <1>5, <1>6, Ended DEF IInv, SourceInv
<1>7. CASE how = "success"
  <2>1. /\ tree.source = Version /\ tree.artefacts # "none"
        /\ synced => manifest = tree.source
    BY <1>1, <1>3, <1>7 DEF IInv, StageInv
  <2>2. SuccessIsOfTheVersion'
    BY <1>1, <1>4, <1>7, <2>1 DEF SuccessIsOfTheVersion
  <2>3. SourceInv' /\ StageInv' /\ ReportInv'
    BY <1>1, <1>4, <2>2 DEF IInv, SourceInv, StageInv, ReportInv,
         CompiledSourceIsWhole
  <2> QED
    BY <1>5, <2>3 DEF IInv
<1> QED
  BY <1>6, <1>7

(* An interrupted run leaves everything as it is, and so does the time.      *)
LEMMA OthersKeep ==
  ASSUME IInv, Interrupt \/ Age \/ UNCHANGED vars
  PROVE  IInv'
<1>1. CASE Interrupt
  <2>1. /\ pc' = "idle" /\ report'.how = "interrupted" /\ report' \in Reports
        /\ UNCHANGED <<mode, versions, attempt, tree, tmp, manifest, synced, core,
                       bindings, runs>>
    BY <1>1, EndType DEF Interrupt, IInv
  <2>2. TypeOK'
    BY <2>1 DEF IInv, TypeOK
  <2> QED
    BY <2>1, <2>2, Ended DEF IInv, SourceInv
<1>2. CASE Age
  <2>1. /\ tree' \in Trees /\ tree'.source = tree.source /\ tree'.whole = tree.whole
        /\ tree'.cargo = tree.cargo /\ tree'.artefacts = tree.artefacts
    BY <1>2 DEF Age, IInv, TypeOK, Trees
  <2>2. UNCHANGED <<pc, mode, versions, attempt, tmp, manifest, synced, core, bindings,
                    report, runs>>
    BY <1>2 DEF Age
  <2>3. TypeOK'
    BY <2>1, <2>2 DEF IInv, TypeOK
  <2>4. pc # "tarball"
    BY <1>2, TreeTypes DEF Age, IInv, SourceInv
  <2>5. SourceInv' /\ StageInv'
    BY <2>1, <2>2, <2>4 DEF IInv, SourceInv, StageInv, CompiledSourceIsWhole, Version
  <2>6. ReportInv'
    BY <2>1, <2>2 DEF IInv, ReportInv, SuccessIsOfTheVersion, NoReport
  <2> QED
    BY <2>3, <2>5, <2>6 DEF IInv
<1>3. CASE UNCHANGED vars
  <2>1. TypeOK'
    BY <1>3 DEF vars, IInv, TypeOK
  <2>2. SourceInv' /\ StageInv' /\ ReportInv'
    BY <1>3 DEF vars, IInv, SourceInv, StageInv, ReportInv, CompiledSourceIsWhole,
         SuccessIsOfTheVersion, NoReport, Version
  <2> QED
    BY <2>1, <2>2 DEF IInv
<1> QED
  BY <1>1, <1>2, <1>3

(* Every step of the orchestrator keeps the invariant.                       *)
LEMMA BuildNext == ASSUME IInv, [Next]_vars PROVE IInv'
<1>1. CASE \E list \in Discoverable :
             StartClean(list) \/ \E m \in {"build", "skip", "test"} : Start(m, list)
  BY <1>1, Begun
<1>2. CASE Stages
  <2>1. CASE \E why \in Whys : CoreFails(why)
    BY <2>1, Failed DEF CoreFails
  <2>2. CASE \E why \in Whys : PythonFails(why)
    <3>1. PICK why \in Whys : PythonFails(why)
      BY <2>2
    <3>2. PICK put \in Whys : Fail(put)
      BY <3>1 DEF PythonFails, Whys
    <3> QED
      BY <3>1, <3>2, Failed DEF PythonFails
  <2> QED
    BY <1>2, <2>1, <2>2, CoreKeeps, SyncKeeps, BindingsKeep, PythonKeeps DEF Stages
<1> QED
  BY <1>1, <1>2, CleanFailed, DetectKeeps, DownloadKeeps, OthersKeep DEF Next

-----------------------------------------------------------------------------
(* What the runs leave is always well typed and fits together.               *)
THEOREM BuildInvariant == Spec => []IInv
<1> QED
  BY BuildInit, BuildNext, PTL DEF Spec

(* Every variable of the orchestrator keeps its type.                        *)
THEOREM BuildTypes == Spec => []TypeOK
<1>1. IInv => TypeOK
  BY DEF IInv
<1> QED
  BY <1>1, BuildInvariant, PTL

(* Success is only ever reported of the version built and synced.            *)
THEOREM SuccessIsReal == Spec => []SuccessIsOfTheVersion
<1>1. IInv => SuccessIsOfTheVersion
  BY DEF IInv, ReportInv
<1> QED
  BY <1>1, BuildInvariant, PTL

(* Cargo only compiles the whole source of the version asked for.            *)
THEOREM SourcesAreWhole == Spec => []CompiledSourceIsWhole
<1>1. IInv => CompiledSourceIsWhole
  BY DEF IInv, SourceInv
<1> QED
  BY <1>1, BuildInvariant, PTL
=============================================================================
