---------------------------- MODULE BuildMonitor ----------------------------
(* BuildMonitor.monitor_intelligent_build (build/monitoring.py): a polling   *)
(* loop beside a build that writes a log.  The loop looks every two seconds  *)
(* at what was added, follows the build's phase, and ends the build when a   *)
(* line shows that it cannot succeed or when it has been too long in one     *)
(* phase, without progress, or silent.                                       *)
(*                                                                           *)
(* Time is counted in turns of the loop.  A write of the build carries whole *)
(* lines, so that a line is never cut in two between two reads.              *)
EXTENDS Integers, Sequences

CONSTANTS
  Lines,           \* kinds of log line: the phases a line matches, and its marks
  PhaseLimit,      \* BuildPhase.max_duration of each phase, in turns
  ProgressLimit,   \* the 900 s without meaningful output, in turns
  StallLimit,      \* stall_timeout, in turns
  MaxUnread,       \* bound: lines the build writes ahead of the monitor
  Forever          \* bound: where the elapsed times stop being told apart

Phases == {"downloading", "compiling", "linking", "error"}
NoPhase == "none"

(* The marks of a line: it counts as progress, matches a fatal pattern, or   *)
(* is not text in the encoding the log is read in.                           *)
Marks == {"progress", "fatal", "garbled"}

ASSUME MonitorAssumption ==
  /\ Lines \subseteq [phases : SUBSET Phases, marks : SUBSET Marks]
  /\ PhaseLimit \in [Phases -> Nat]
  /\ ProgressLimit \in Nat /\ StallLimit \in Nat /\ MaxUnread \in Nat
  /\ Forever \in Nat
  /\ Forever > ProgressLimit /\ Forever > StallLimit
  /\ \A p \in Phases : Forever > PhaseLimit[p]

VARIABLES
  loop,       \* the monitor: "poll", "size", "read", "check", "sleep", or "off"
  process,    \* the build: "running", "signalled", "succeeded", "failed"
  unread,     \* the lines of the log beyond last_size
  sized,      \* how many of them the last stat saw
  phase,      \* current_phase
  inPhase,    \* time since phase_start_time
  progress,   \* time since last_meaningful_output
  activity,   \* time since last_activity
  logged,     \* the marks of all that was written
  verdict,    \* why the monitor returned: "none" while it has not
  quiet,      \* history: time since a line of progress was written
  silent,     \* history: time since anything was written
  stage,      \* history: the phase of the last line written that has one
  steady      \* history: time since a line of another phase was written

clocks  == <<inPhase, progress, activity, quiet, silent, steady>>
log     == <<unread, sized, logged>>
vars == <<loop, process, log, phase, stage, clocks, verdict>>

-----------------------------------------------------------------------------
(* The order in which the phases are tried on a line: every one that matches *)
(* is entered in turn, so the last one is kept.                              *)
Order == [downloading |-> 1, compiling |-> 2, linking |-> 3, error |-> 4]
IsLastPhase(l, p) == p \in l.phases /\ \A q \in l.phases : Order[q] <= Order[p]

(* The build, a process of its own.  terminate() only sends a signal: what   *)
(* got it may still write before it ends.                                    *)
Alive == process \in {"running", "signalled"}

Write(l) ==
  /\ Alive /\ Len(unread) < MaxUnread
  /\ unread' = Append(unread, l)
  /\ logged' = logged \union l.marks
  /\ silent' = 0
  /\ quiet'  = IF "progress" \in l.marks THEN 0 ELSE quiet
  /\ IF l.phases = {} THEN stage' = stage
     ELSE \E p \in Phases : IsLastPhase(l, p) /\ stage' = p
  /\ steady' = IF l.phases \in {{}, {stage}} THEN steady ELSE 0
  /\ UNCHANGED <<loop, process, sized, phase, inPhase, progress, activity, verdict>>

Exit(how) ==
  /\ Alive
  /\ how = "succeeded" => process = "running"
  /\ process' = how
  /\ UNCHANGED <<loop, log, phase, stage, clocks, verdict>>

-----------------------------------------------------------------------------
LastMarked(mark) == unread # <<>> /\ mark \in unread[Len(unread)].marks
Marked(mark)     == \E i \in 1..Len(unread) : mark \in unread[i].marks

(* The time of the phase starts again at a line of another phase, not at one *)
(* more line of the current phase.                                           *)
EntersPhase == \E i \in 1..Len(unread) : unread[i].phases \notin {{}, {phase}}

LeavesIn(p) == \E i \in 1..Len(unread) :
                 /\ IsLastPhase(unread[i], p)
                 /\ \A j \in (i + 1)..Len(unread) : unread[j].phases = {}

FollowPhase ==
  \/ (\A i \in 1..Len(unread) : unread[i].phases = {}) /\ phase' = phase
  \/ \E p \in Phases : LeavesIn(p) /\ phase' = p

(* process.poll(): the loop ends when the build has. *)
Poll ==
  /\ loop = "poll"
  /\ IF Alive
     THEN loop' = "size" /\ UNCHANGED verdict
     ELSE loop' = "off" /\ verdict' = process
  /\ UNCHANGED <<process, log, phase, stage, clocks>>

(* log_file.stat(): a log that has grown is activity. *)
SizeOnly ==
  /\ loop = "size"
  /\ sized' = Len(unread)
  /\ loop' = IF unread = <<>> THEN "check" ELSE "read"
  /\ UNCHANGED <<process, unread, logged, phase, stage, clocks, verdict>>

SizeLessOne ==
  /\ loop = "size"
  /\ sized' = Len(unread) - 1
  /\ activity' = IF unread = <<>> THEN activity ELSE 0
  /\ loop' = IF unread = <<>> THEN "check" ELSE "read"
  /\ UNCHANGED <<process, unread, logged, phase, stage, inPhase, progress, quiet,
                 silent, steady, verdict>>

Size ==
  /\ loop = "size"
  /\ sized' = Len(unread)
  /\ activity' = IF unread = <<>> THEN activity ELSE 0
  /\ loop' = IF unread = <<>> THEN "check" ELSE "read"
  /\ UNCHANGED <<process, unread, logged, phase, stage, inPhase, progress, quiet,
                 silent, steady, verdict>>

Terminate(why) ==
  /\ verdict' = why
  /\ loop' = "off"
  /\ process' = IF Alive THEN "signalled" ELSE process

(* The read goes to the end of the log, but last_size to the size of the     *)
(* stat: lines written in between are read again.  What cannot be decoded    *)
(* raises before last_size is set, and the handler goes on to the sleep,     *)
(* past the checks.                                                          *)
ReadsAll   == unread
ReadsAgain == SubSeq(unread, sized + 1, Len(unread))

Skip == loop' = "sleep" /\ UNCHANGED <<process, unread, verdict>>

FollowAnyOutput ==
  /\ unread' = ReadsAgain
  /\ FollowPhase
  /\ inPhase'  = IF EntersPhase THEN 0 ELSE inPhase
  /\ progress' = 0
  /\ loop' = "check"
  /\ UNCHANGED <<process, verdict>>

Follow ==
  /\ unread'   = ReadsAgain
  /\ FollowPhase
  /\ inPhase'  = IF EntersPhase THEN 0 ELSE inPhase
  /\ progress' = IF Marked("progress") THEN 0 ELSE progress
  /\ loop' = "check"
  /\ UNCHANGED <<process, verdict>>

Read ==
  /\ loop = "read"
  /\ \/ /\ Marked("garbled")
        /\ Skip
        /\ UNCHANGED <<phase, inPhase, progress>>
     \/ /\ ~Marked("garbled") /\ Marked("fatal")
        /\ Terminate("fatal")
        /\ UNCHANGED <<unread, phase, inPhase, progress>>
     \/ /\ ~Marked("garbled") /\ ~Marked("fatal")
        /\ Follow
  /\ UNCHANGED <<sized, logged, stage, activity, quiet, silent, steady>>

PhaseOverdue == phase # NoPhase /\ inPhase > PhaseLimit[phase]

(* The three limits, in the order of the code. *)
Overdue ==
  CASE PhaseOverdue             -> "phase"
    [] ~PhaseOverdue /\ progress > ProgressLimit -> "progress"
    [] ~PhaseOverdue /\ progress <= ProgressLimit /\ activity > StallLimit -> "stall"
    [] OTHER -> "none"

CheckLimits ==
  /\ loop = "check"
  /\ IF Overdue = "none"
     THEN loop' = "sleep" /\ UNCHANGED <<process, verdict>>
     ELSE Terminate(Overdue)
  /\ UNCHANGED <<log, phase, stage, clocks>>

(* time.sleep(2): the only place where time goes by. *)
Later(time) == IF time < Forever THEN time + 1 ELSE time

Sleep ==
  /\ loop = "sleep"
  /\ loop' = "poll"
  /\ inPhase'  = Later(inPhase)
  /\ progress' = Later(progress)
  /\ activity' = Later(activity)
  /\ quiet'    = Later(quiet)
  /\ silent'   = Later(silent)
  /\ steady'   = Later(steady)
  /\ UNCHANGED <<process, log, phase, stage, verdict>>

-----------------------------------------------------------------------------
Init ==
  /\ loop = "poll" /\ process = "running" /\ verdict = "none"
  /\ unread = <<>> /\ sized = 0 /\ logged = {}
  /\ phase = NoPhase /\ stage = NoPhase
  /\ inPhase = 0 /\ progress = 0 /\ activity = 0
  /\ quiet = 0 /\ silent = 0 /\ steady = 0

Monitor == Poll \/ Size \/ Read \/ CheckLimits \/ Sleep

Build == (\E l \in Lines : Write(l)) \/ \E how \in {"succeeded", "failed"} : Exit(how)

(* The monitor has returned: nothing is left to happen. *)
Done == loop = "off" /\ ~Alive /\ UNCHANGED vars

Next == Monitor \/ Build \/ Done

Spec == Init /\ [][Next]_vars /\ WF_vars(Monitor)

-----------------------------------------------------------------------------
Time == 0..Forever

TypeOK ==
  /\ loop \in {"poll", "size", "read", "check", "sleep", "off"}
  /\ process \in {"running", "signalled", "succeeded", "failed"}
  /\ unread \in Seq(Lines) /\ Len(unread) <= MaxUnread
  /\ sized \in 0..MaxUnread
  /\ logged \subseteq Marks
  /\ phase \in Phases \union {NoPhase} /\ stage \in Phases \union {NoPhase}
  /\ inPhase \in Time /\ progress \in Time /\ activity \in Time
  /\ quiet \in Time /\ silent \in Time /\ steady \in Time
  /\ verdict \in {"none", "succeeded", "failed", "fatal", "phase", "progress", "stall"}

(* A build is ended only for what it did: a fatal line it wrote, a time      *)
(* longer than the limit since it last wrote of progress, or at all, or of   *)
(* another phase - by the build's own writes, however late and in whatever   *)
(* portions the monitor came to read them, and though it reads some of them  *)
(* twice, save what it wrote since the monitor last looked.                  *)
EndedOnlyWhenDue ==
  [][ /\ verdict' = "fatal" /\ verdict = "none" => "fatal" \in logged
      /\ verdict' = "progress" /\ verdict = "none" =>
           quiet > ProgressLimit \/ Marked("progress")
      /\ verdict' = "stall" /\ verdict = "none" =>
           silent > StallLimit \/ unread # <<>>
      /\ verdict' = "phase" /\ verdict = "none" =>
           (phase = stage /\ steady > PhaseLimit[stage]) \/ EntersPhase
    ]_vars

(* The time by which a build in trouble is ended, while what it writes can   *)
(* be decoded: it is not watched for more than two turns beyond the limit    *)
(* since it last wrote of progress, or at all, or entered the phase it is    *)
(* in; and a fatal line stays before the monitor's eyes until it has ended   *)
(* the build, though the log grows between its stat and its read.            *)
TroubleEndsInTime ==
  loop # "off" /\ "garbled" \notin logged =>
    /\ quiet <= ProgressLimit + 2
    /\ silent <= StallLimit + 2
    /\ stage # NoPhase => steady <= PhaseLimit[stage] + 2
    /\ "fatal" \in logged => Marked("fatal")

(* A build that stops making progress, however much it keeps writing, is     *)
(* ended, unless what it writes cannot be decoded.                           *)
HungBuildsEnd == <>(loop = "off") \/ []<>(quiet = 0) \/ <>Marked("garbled")

(* A fatal line ends the build, whatever is written around it and whenever,  *)
(* unless what it writes cannot be decoded.                                  *)
FatalLinesEndBuilds ==
  "fatal" \in logged ~> (loop = "off" \/ Marked("garbled"))
=============================================================================
