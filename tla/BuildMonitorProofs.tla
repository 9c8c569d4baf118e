------------------------- MODULE BuildMonitorProofs -------------------------
(* What the monitor knows of the build it watches, proved for all limits,    *)
(* kinds of line and numbers of unread lines.                                *)
EXTENDS BuildMonitor, TLAPS

(* The monitor's times are never longer than the build's own, except for     *)
(* what it has yet to read.                                                  *)
Tracks ==
  /\ loop # "off" /\ ~Marked("progress") => progress <= quiet
  /\ loop # "off" /\ unread = <<>> => activity <= silent
  /\ loop = "read" => activity = 0
  /\ Marked("fatal") => "fatal" \in logged

(* The monitor is in the build's own phase, or has a line of another one to  *)
(* read, and its time in it began no earlier than the build's.               *)
Phased ==
  /\ phase = stage \/ EntersPhase
  /\ \A p \in Phases : LeavesIn(p) => p = stage
  /\ loop # "off" /\ ~EntersPhase => inPhase <= steady

IInv == TypeOK /\ Tracks /\ Phased

-----------------------------------------------------------------------------
(* Time goes by for all clocks alike, as far as Forever.                     *)
LEMMA LaterTime ==
  ASSUME NEW a \in Time, NEW b \in Time
  PROVE  /\ Later(a) \in Time
         /\ a <= b => Later(a) <= Later(b)
BY MonitorAssumption DEF Later, Time

(* The monitor starts with the build.                                        *)
LEMMA MonitorInit == Init => IInv
<1> SUFFICES ASSUME Init PROVE IInv
  OBVIOUS
<1>1. unread = <<>> /\ Len(unread) = 0
  BY DEF Init
<1>2. TypeOK
  BY <1>1, MonitorAssumption DEF Init, TypeOK, Time
<1>3. Tracks
  BY <1>1 DEF Init, Tracks, Marked
<1>4. Phased
  BY <1>1 DEF Init, Phased, LeavesIn
<1> QED
  BY <1>2, <1>3, <1>4 DEF IInv

(* The last phase of a line is one.                                          *)
LEMMA OneLastPhase ==
  ASSUME NEW l, NEW p \in Phases, NEW q \in Phases,
         IsLastPhase(l, p), IsLastPhase(l, q)
  PROVE  p = q
BY DEF IsLastPhase, Order, Phases

(* A line written moves the build's phase, and the time in it, as the read   *)
(* will move the monitor's.                                                  *)
LEMMA PhasedWrite ==
  ASSUME IInv, NEW l \in Lines, Write(l)
  PROVE  Phased'
<1>1. /\ unread' \in Seq(Lines) /\ Len(unread') = Len(unread) + 1
      /\ unread'[Len(unread')] = l /\ Len(unread) \in Nat
      /\ \A i \in 1..Len(unread) : unread'[i] = unread[i]
  BY DEF Write, IInv, TypeOK
<1>2. /\ phase' = phase /\ inPhase' = inPhase /\ loop' = loop
      /\ l.phases = {} => stage' = stage
      /\ l.phases # {} => \E p \in Phases : IsLastPhase(l, p) /\ stage' = p
      /\ steady' = (IF l.phases \in {{}, {stage}} THEN steady ELSE 0)
  BY DEF Write
<1>3. EntersPhase' <=> EntersPhase \/ l.phases \notin {{}, {phase}}
  BY <1>1, <1>2 DEF EntersPhase
<1>4. phase' = stage' \/ EntersPhase'
  <2>1. CASE l.phases = {}
    BY <1>2, <1>3, <2>1 DEF IInv, Phased
  <2>2. CASE l.phases = {phase}
    BY <1>2, <2>2 DEF IsLastPhase
  <2> QED
    BY <1>3, <2>1, <2>2
<1>5. ASSUME NEW p \in Phases, LeavesIn(p)' PROVE p = stage'
  <2>1. PICK i \in 1..Len(unread') :
          /\ IsLastPhase(unread'[i], p)
          /\ \A j \in (i + 1)..Len(unread') : unread'[j].phases = {}
    BY <1>5 DEF LeavesIn, IsLastPhase
  <2>2. CASE i = Len(unread')
    BY <1>1, <1>2, <2>1, <2>2, OneLastPhase DEF IsLastPhase
  <2>3. CASE i # Len(unread')
    <3>1. i \in 1..Len(unread) /\ l.phases = {}
      BY <1>1, <2>1, <2>3
    <3>2. LeavesIn(p)
      BY <1>1, <2>1, <3>1 DEF LeavesIn
    <3> QED
      BY <1>2, <3>1, <3>2 DEF IInv, Phased
  <2> QED
    BY <2>2, <2>3
<1>6. loop' # "off" /\ ~EntersPhase' => inPhase' <= steady'
  BY <1>2, <1>3 DEF IInv, Phased
<1> QED
  BY <1>4, <1>5, <1>6 DEF Phased

(* What is written is what the monitor has yet to read.                      *)
LEMMA MonitorWrite ==
  ASSUME IInv, NEW l \in Lines, Write(l)
  PROVE  IInv'
<1>1. l.marks \subseteq Marks
  BY MonitorAssumption
<1>2. /\ unread' \in Seq(Lines) /\ Len(unread') = Len(unread) + 1
      /\ unread'[Len(unread')] = l
      /\ \A i \in 1..Len(unread) : unread'[i] = unread[i]
  BY DEF Write, IInv, TypeOK
<1>3. TypeOK'
  <2>1. Len(unread') <= MaxUnread
    BY <1>2, MonitorAssumption DEF Write, IInv, TypeOK
  <2>2. silent' \in Time /\ quiet' \in Time /\ steady' \in Time
    BY MonitorAssumption DEF Write, IInv, TypeOK, Time
  <2>4. stage' \in Phases \union {NoPhase}
    BY DEF Write, IInv, TypeOK
  <2>3. logged' \subseteq Marks
    BY <1>1 DEF Write, IInv, TypeOK
  <2> QED
    BY <1>2, <2>1, <2>2, <2>3, <2>4 DEF Write, IInv, TypeOK
<1>4. ASSUME NEW mark PROVE Marked(mark)' <=> Marked(mark) \/ mark \in l.marks
  <2>1. Len(unread) \in Nat
    BY DEF IInv, TypeOK
  <2> QED
    BY <1>2, <2>1 DEF Marked
<1>5. unread' # <<>>
  BY <1>2 DEF IInv, TypeOK
<1>6. Tracks'
  <2>1. loop' # "off" /\ ~Marked("progress")' => progress' <= quiet'
    BY <1>4 DEF Write, IInv, Tracks
  <2>2. loop' = "read" => activity' = 0
    BY DEF Write, IInv, Tracks
  <2>3. Marked("fatal")' => "fatal" \in logged'
    BY <1>4 DEF Write, IInv, Tracks
  <2> QED
    BY <1>5, <2>1, <2>2, <2>3 DEF Tracks
<1> QED
  BY <1>3, <1>6, PhasedWrite DEF IInv

(* What a read leaves to be read again is the end of what it read.           *)
LEMMA ReadTwice ==
  ASSUME IInv, Follow
  PROVE  /\ unread' \in Seq(Lines) /\ Len(unread') <= MaxUnread
         /\ unread' # <<>> => Len(unread) = sized + Len(unread') /\ sized < Len(unread)
         /\ \A i \in 1..Len(unread') : /\ sized + i \in 1..Len(unread)
                                       /\ unread'[i] = unread[sized + i]
<1>1. /\ unread \in Seq(Lines) /\ sized \in Nat /\ Len(unread) <= MaxUnread
      /\ unread' = SubSeq(unread, sized + 1, Len(unread))
      /\ Len(unread) \in Nat /\ MaxUnread \in Nat
  BY MonitorAssumption DEF IInv, TypeOK, Follow, ReadsAgain
<1>2. CASE sized + 1 > Len(unread)
  <2>1. unread' = <<>> /\ Len(unread') = 0 /\ unread' \in Seq(Lines)
    BY <1>1, <1>2
  <2> QED
    BY <1>1, <2>1
<1>3. CASE sized + 1 <= Len(unread)
  <2>1. Len(unread') = Len(unread) - sized /\ unread' \in Seq(Lines)
    BY <1>1, <1>3
  <2>2. \A i \in 1..Len(unread') : sized + i \in 1..Len(unread)
    BY <1>1, <1>3, <2>1
  <2>3. \A i \in 1..Len(unread') : unread'[i] = unread[sized + i]
    BY <1>1, <1>3, <2>1
  <2> QED
    BY <1>1, <1>3, <2>1, <2>2, <2>3
<1> QED
  BY <1>1, <1>2, <1>3

(* A read takes the monitor to the phase the build is in, and what it leaves *)
(* to be read again does not lead to another.                                *)
LEMMA PhasedFollow ==
  ASSUME IInv, loop = "read", Follow, UNCHANGED <<stage, steady>>
  PROVE  Phased' /\ phase' = stage
<1>1. /\ FollowPhase /\ inPhase' = (IF EntersPhase THEN 0 ELSE inPhase)
      /\ steady' = steady /\ stage' = stage /\ steady \in Nat
      /\ sized \in Nat /\ Len(unread) \in Nat /\ Len(unread') \in Nat
  BY ReadTwice, MonitorAssumption DEF Follow, IInv, TypeOK, Time
<1>2. phase' = stage
  BY <1>1 DEF FollowPhase, EntersPhase, IInv, Phased
<1>3. ASSUME NEW p \in Phases, LeavesIn(p)' PROVE p = stage
  <2>1. PICK i \in 1..Len(unread') :
          /\ IsLastPhase(unread'[i], p)
          /\ \A j \in (i + 1)..Len(unread') : unread'[j].phases = {}
    BY <1>3 DEF LeavesIn, IsLastPhase
  <2>2. /\ sized + i \in 1..Len(unread) /\ unread'[i] = unread[sized + i]
        /\ Len(unread) = sized + Len(unread')
    BY <2>1, ReadTwice
  <2>3. ASSUME NEW j \in (sized + i + 1)..Len(unread) PROVE unread[j].phases = {}
    <3>1. j - sized \in (i + 1)..Len(unread') /\ j - sized \in 1..Len(unread')
      BY <1>1, <2>2
    <3>2. unread'[j - sized] = unread[j]
      BY <1>1, <3>1, ReadTwice
    <3> QED
      BY <2>1, <3>1, <3>2
  <2>4. LeavesIn(p)
    BY <2>1, <2>2, <2>3 DEF LeavesIn
  <2> QED
    BY <2>4 DEF IInv, Phased
<1>4. inPhase' <= steady'
  BY <1>1 DEF IInv, Phased
<1> QED
  BY <1>1, <1>2, <1>3, <1>4 DEF Phased

(* What is read is taken into account before the limits are checked.         *)
LEMMA MonitorFollow ==
  ASSUME IInv, loop = "read", ~Marked("fatal"), Follow,
         UNCHANGED <<sized, logged, stage, activity, quiet, silent, steady>>
  PROVE  IInv'
<1>1. /\ unread' \in Seq(Lines) /\ Len(unread') <= MaxUnread
      /\ \A i \in 1..Len(unread') : \E j \in 1..Len(unread) : unread'[i] = unread[j]
  BY ReadTwice
<1>2. TypeOK'
  <2>1. phase' \in Phases \union {NoPhase}
    BY DEF Follow, FollowPhase, IInv, TypeOK
  <2>2. inPhase' \in Time /\ progress' \in Time
    BY MonitorAssumption DEF Follow, IInv, TypeOK, Time
  <2> QED
    BY <1>1, <2>1, <2>2 DEF Follow, IInv, TypeOK
<1>3. Tracks'
  <2>1. ~Marked("fatal")'
    BY <1>1 DEF Marked
  <2>2. progress' <= quiet'
    <3>1. CASE Marked("progress")
      BY <3>1 DEF Follow, IInv, TypeOK, Time
    <3>2. CASE ~Marked("progress")
      BY <3>2 DEF Follow, IInv, Tracks
    <3> QED
      BY <3>1, <3>2
  <2>3. activity' <= silent'
    BY DEF IInv, Tracks, TypeOK, Time
  <2>4. loop' = "check"
    BY DEF Follow
  <2> QED
    BY <2>1, <2>2, <2>3, <2>4 DEF Tracks
<1> QED
  BY <1>2, <1>3, PhasedFollow DEF IInv

(* The other steps of the monitor.                                           *)
LEMMA MonitorStep ==
  ASSUME IInv, Poll \/ Size \/ CheckLimits \/ Sleep
  PROVE  IInv'
<1> USE DEF IInv
<1>1. CASE Poll
  <2>1. /\ loop = "poll" /\ loop' \in {"size", "off"}
        /\ UNCHANGED <<log, phase, stage, clocks>>
    BY <1>1 DEF Poll
  <2>2. TypeOK'
    BY <1>1 DEF Poll, Alive, TypeOK, log, clocks
  <2>3. Tracks'
    BY <2>1 DEF Tracks, Marked, log, clocks
  <2>4. Phased'
    BY <2>1 DEF Phased, EntersPhase, LeavesIn, log, clocks
  <2> QED
    BY <2>2, <2>3, <2>4
<1>2. CASE Size
  <2>1. TypeOK'
    BY <1>2, MonitorAssumption DEF Size, TypeOK, Time
  <2>2. Tracks'
    BY <1>2 DEF Size, TypeOK, Tracks, Marked, Time
  <2>3. Phased'
    BY <1>2 DEF Size, Phased, EntersPhase, LeavesIn
  <2> QED
    BY <2>1, <2>2, <2>3
<1>3. CASE CheckLimits
  <2>1. /\ loop' \in {"sleep", "off"}
        /\ UNCHANGED <<log, phase, stage, clocks>>
    BY <1>3 DEF CheckLimits, Terminate
  <2>2. process' \in {process, "signalled"}
        /\ verdict' \in {verdict, "phase", "progress", "stall"}
    BY <1>3 DEF CheckLimits, Terminate, Overdue
  <2>3. TypeOK'
    BY <2>1, <2>2 DEF TypeOK, log, clocks
  <2>4. Tracks'
    BY <1>3, <2>1 DEF CheckLimits, Tracks, Marked, log, clocks
  <2>5. Phased'
    BY <1>3, <2>1 DEF CheckLimits, Phased, EntersPhase, LeavesIn, log, clocks
  <2> QED
    BY <2>3, <2>4, <2>5
<1>4. CASE Sleep
  <2>1. /\ inPhase' \in Time /\ progress' \in Time /\ activity' \in Time
        /\ quiet' \in Time /\ silent' \in Time /\ steady' \in Time
    BY <1>4, LaterTime DEF Sleep, TypeOK
  <2>2. TypeOK'
    BY <1>4, <2>1 DEF Sleep, TypeOK, log
  <2>3. /\ progress <= quiet => progress' <= quiet'
        /\ activity <= silent => activity' <= silent'
        /\ inPhase <= steady => inPhase' <= steady'
    BY <1>4, LaterTime DEF Sleep, TypeOK
  <2>4. Tracks'
    BY <1>4, <2>3 DEF Sleep, Tracks, Marked, log
  <2>5. Phased'
    BY <1>4, <2>3 DEF Sleep, Phased, EntersPhase, LeavesIn, log
  <2> QED
    BY <2>2, <2>4, <2>5
<1> QED
  BY <1>1, <1>2, <1>3, <1>4

(* The steps that read a line that ends the read, and those of the build.    *)
LEMMA MonitorNext == ASSUME IInv, [Next]_vars PROVE IInv'
<1>1. CASE Read
  <2>1. CASE ~Marked("garbled") /\ ~Marked("fatal") /\ Follow
    BY <1>1, <2>1, MonitorFollow DEF Read
  <2>2. CASE Marked("garbled") /\ Skip /\ UNCHANGED <<phase, inPhase, progress>>
    <3>1. TypeOK' /\ Tracks'
      BY <1>1, <2>2 DEF Read, Skip, IInv, TypeOK, Tracks, Marked
    <3>2. Phased'
      BY <1>1, <2>2 DEF Read, Skip, IInv, Phased, EntersPhase, LeavesIn
    <3> QED
      BY <3>1, <3>2 DEF IInv
  <2>3. CASE /\ Terminate("fatal")
             /\ UNCHANGED <<unread, phase, inPhase, progress>>
    <3>1. TypeOK'
      BY <1>1, <2>3 DEF Read, Terminate, IInv, TypeOK
    <3>2. Tracks'
      BY <1>1, <2>3 DEF Read, Terminate, IInv, Tracks, Marked
    <3>3. Phased'
      BY <1>1, <2>3 DEF Read, Terminate, IInv, Phased, EntersPhase, LeavesIn
    <3> QED
      BY <3>1, <3>2, <3>3 DEF IInv
  <2> QED
    BY <1>1, <2>1, <2>2, <2>3 DEF Read
<1>2. CASE \E l \in Lines : Write(l)
  BY <1>2, MonitorWrite
<1>3. CASE \E how \in {"succeeded", "failed"} : Exit(how)
  <2>1. PICK how \in {"succeeded", "failed"} : Exit(how)
    BY <1>3
  <2>2. TypeOK'
    BY <2>1 DEF Exit, IInv, TypeOK, log, clocks
  <2>3. Tracks'
    BY <2>1 DEF Exit, IInv, Tracks, Marked, log, clocks
  <2>4. Phased'
    BY <2>1 DEF Exit, IInv, Phased, EntersPhase, LeavesIn, log, clocks
  <2> QED
    BY <2>2, <2>3, <2>4 DEF IInv
<1>4. CASE UNCHANGED vars
  <2>1. TypeOK'
    BY <1>4 DEF vars, IInv, TypeOK, log, clocks
  <2>2. Tracks'
    BY <1>4 DEF vars, IInv, Tracks, Marked, log, clocks
  <2>3. Phased'
    BY <1>4 DEF vars, IInv, Phased, EntersPhase, LeavesIn, log, clocks
  <2> QED
    BY <2>1, <2>2, <2>3 DEF IInv
<1> QED
  BY <1>1, <1>2, <1>3, <1>4, MonitorStep DEF Next, Monitor, Build, Done

-----------------------------------------------------------------------------
(* The monitor's state is always well typed, and behind the build's writes   *)
(* by no more than it has yet to read.                                       *)
THEOREM MonitorInvariant == Spec => []IInv
<1> QED
  BY MonitorInit, MonitorNext, PTL DEF Spec

(* Every variable of the monitor and its build keeps its type.               *)
THEOREM MonitorTypes == Spec => []TypeOK
<1>1. IInv => TypeOK
  BY DEF IInv
<1> QED
  BY <1>1, MonitorInvariant, PTL

(* A verdict of the monitor is due, by the build's own writes.               *)
LEMMA DueStep ==
  ASSUME IInv, [Next]_vars
  PROVE  /\ verdict' = "fatal" /\ verdict = "none" => "fatal" \in logged
         /\ verdict' = "progress" /\ verdict = "none" =>
              quiet > ProgressLimit \/ Marked("progress")
         /\ verdict' = "stall" /\ verdict = "none" =>
              silent > StallLimit \/ unread # <<>>
         /\ verdict' = "phase" /\ verdict = "none" =>
              (phase = stage /\ steady > PhaseLimit[stage]) \/ EntersPhase
<1>1. CASE CheckLimits
  <2>1. /\ verdict' = "progress" /\ verdict = "none" => progress > ProgressLimit
        /\ verdict' = "stall" /\ verdict = "none" => activity > StallLimit
        /\ verdict' = "phase" /\ verdict = "none" =>
             phase # NoPhase /\ inPhase > PhaseLimit[phase]
        /\ verdict' = "fatal" => verdict = "fatal"
    BY <1>1 DEF CheckLimits, Terminate, Overdue, PhaseOverdue
  <2>2. /\ ~Marked("progress") => progress <= quiet
        /\ unread = <<>> => activity <= silent
        /\ ~EntersPhase => phase = stage /\ inPhase <= steady
    BY <1>1 DEF CheckLimits, IInv, Tracks, Phased
  <2>3. /\ progress \in Nat /\ quiet \in Nat /\ activity \in Nat /\ silent \in Nat
        /\ inPhase \in Nat /\ steady \in Nat
        /\ ProgressLimit \in Nat /\ StallLimit \in Nat
        /\ phase # NoPhase => PhaseLimit[phase] \in Nat
    BY MonitorAssumption DEF IInv, TypeOK, Time
  <2> QED
    BY <2>1, <2>2, <2>3
<1>2. CASE Read
  <2>1. verdict' = verdict \/ (verdict' = "fatal" /\ Marked("fatal"))
    BY <1>2 DEF Read, Skip, Follow, Terminate
  <2> QED
    BY <2>1 DEF IInv, Tracks
<1>3. CASE Poll
  BY <1>3 DEF Poll, Alive, IInv, TypeOK
<1>4. CASE Size \/ Sleep \/ Build \/ Done \/ UNCHANGED vars
  BY <1>4 DEF Size, Sleep, Build, Write, Exit, Done, vars
<1> QED
  BY <1>1, <1>2, <1>3, <1>4 DEF Next, Monitor

(* No build is ended for a time it did not take or a line it did not write.  *)
THEOREM VerdictsAreDue == Spec => EndedOnlyWhenDue
<1>1. IInv /\ [Next]_vars =>
        [ /\ verdict' = "fatal" /\ verdict = "none" => "fatal" \in logged
          /\ verdict' = "progress" /\ verdict = "none" =>
               quiet > ProgressLimit \/ Marked("progress")
          /\ verdict' = "stall" /\ verdict = "none" =>
               silent > StallLimit \/ unread # <<>>
          /\ verdict' = "phase" /\ verdict = "none" =>
               (phase = stage /\ steady > PhaseLimit[stage]) \/ EntersPhase ]_vars
  BY DueStep
<1> QED
  BY <1>1, MonitorInvariant, PTL DEF Spec, EndedOnlyWhenDue

-----------------------------------------------------------------------------
(* How late the monitor can be.  What it has not read yet was written since  *)
(* the last turn began, and what its last stat did not see since that stat;  *)
(* so its times are at most a turn behind the build's, and the limits are    *)
(* checked once a turn.                                                      *)
Age == IF loop \in {"check", "sleep"} THEN 0 ELSE 1

Recent ==
  /\ Marked("progress") => quiet <= Age
  /\ unread # <<>> => silent <= Age
  /\ EntersPhase => steady <= Age
  /\ loop = "read" => \A i \in 1..Len(unread) : sized < i =>
       /\ silent = 0
       /\ "progress" \in unread[i].marks => quiet = 0
       /\ unread[i].phases \notin {{}, {stage}} => steady = 0

Slack == IF loop = "sleep" THEN 0 ELSE 1

Checked ==
  /\ progress <= ProgressLimit + Slack
  /\ activity <= StallLimit + Slack
  /\ phase # NoPhase => inPhase <= PhaseLimit[phase] + Slack

Late ==
  /\ quiet <= progress + 1
  /\ silent <= activity + 1
  /\ steady <= inPhase + 1
  /\ "fatal" \in logged => Marked("fatal")

Prompt ==
  /\ Marked("garbled") => "garbled" \in logged
  /\ loop # "off" /\ "garbled" \notin logged => Recent /\ Checked /\ Late

(* A turn makes no time longer by more than one, nor two times differ more.  *)
LEMMA LaterByOne ==
  ASSUME NEW a \in Time, NEW b \in Time, NEW n \in Nat
  PROVE  /\ a <= b + 1 => Later(a) <= Later(b) + 1
         /\ a <= n => Later(a) <= n + 1
BY MonitorAssumption DEF Later, Time

(* A write is recent, and all the build's own times are short after it.      *)
LEMMA PromptWrite ==
  ASSUME IInv, Prompt, NEW l \in Lines, Write(l)
  PROVE  Prompt'
<1>1. /\ unread' \in Seq(Lines) /\ Len(unread') = Len(unread) + 1
      /\ unread'[Len(unread')] = l /\ Len(unread) \in Nat
      /\ \A i \in 1..Len(unread) : unread'[i] = unread[i]
  BY DEF Write, IInv, TypeOK
<1>2. /\ loop' = loop /\ sized' = sized /\ phase' = phase /\ inPhase' = inPhase
      /\ progress' = progress /\ activity' = activity
      /\ silent' = 0 /\ quiet' = (IF "progress" \in l.marks THEN 0 ELSE quiet)
      /\ logged' = logged \union l.marks
      /\ steady' = (IF l.phases \in {{}, {stage}} THEN steady ELSE 0)
      /\ l.phases \in {{}, {stage}} => stage' = stage
  BY DEF Write, IsLastPhase
<1>3. ASSUME NEW mark PROVE Marked(mark)' <=> Marked(mark) \/ mark \in l.marks
  BY <1>1 DEF Marked
<1>4. /\ quiet \in Nat /\ progress \in Nat /\ activity \in Nat
      /\ steady \in Nat /\ inPhase \in Nat
  BY MonitorAssumption DEF IInv, TypeOK, Time
<1>5. ASSUME loop # "off", "garbled" \notin logged'
      PROVE  Recent' /\ Checked' /\ Late'
  <2>1. Recent /\ Checked /\ Late
    BY <1>2, <1>5 DEF Prompt
  <2>2. Recent'
    <3>1. ASSUME NEW i \in 1..Len(unread'), loop = "read", sized < i,
                 "progress" \in unread'[i].marks
          PROVE  quiet' = 0
      <4>1. CASE i \in 1..Len(unread)
        BY <1>1, <1>2, <2>1, <3>1, <4>1 DEF Recent
      <4>2. CASE i = Len(unread')
        BY <1>1, <1>2, <3>1, <4>2
      <4> QED
        BY <1>1, <4>1, <4>2
    <3>2. Age' = Age /\ Age \in {0, 1}
      BY <1>2 DEF Age
    <3>3. Marked("progress")' => quiet' <= Age
      BY <1>2, <1>3, <1>4, <2>1, <3>2 DEF Recent
    <3>4. ASSUME NEW i \in 1..Len(unread'), loop = "read", sized < i,
                 unread'[i].phases \notin {{}, {stage'}}
          PROVE  steady' = 0
      <4>1. CASE i \in 1..Len(unread)
        BY <1>1, <1>2, <2>1, <3>4, <4>1 DEF Recent
      <4>2. CASE i = Len(unread')
        BY <1>1, <1>2, <3>4, <4>2
      <4> QED
        BY <1>1, <4>1, <4>2
    <3>5. EntersPhase' => steady' <= Age
      <4>1. EntersPhase' <=> EntersPhase \/ l.phases \notin {{}, {phase}}
        BY <1>1, <1>2 DEF EntersPhase
      <4>2. phase = stage \/ EntersPhase
        BY DEF IInv, Phased
      <4> QED
        BY <1>2, <1>4, <2>1, <3>2, <4>1, <4>2 DEF Recent
    <3>6. loop' = "read" => \A i \in 1..Len(unread') : sized' < i =>
            /\ silent' = 0
            /\ "progress" \in unread'[i].marks => quiet' = 0
            /\ unread'[i].phases \notin {{}, {stage'}} => steady' = 0
      BY <1>2, <3>1, <3>4
    <3> QED
      BY <1>2, <3>2, <3>3, <3>5, <3>6 DEF Recent
  <2>3. Checked'
    BY <1>2, <2>1 DEF Checked, Slack
  <2>4. Late'
    BY <1>2, <1>3, <1>4, <2>1 DEF Late
  <2> QED
    BY <2>2, <2>3, <2>4
<1>6. Marked("garbled")' => "garbled" \in logged'
  BY <1>2, <1>3 DEF Prompt
<1> QED
  BY <1>2, <1>5, <1>6 DEF Prompt

(* The stat: what it sees is activity, written a turn ago at most.           *)
LEMMA PromptSize ==
  ASSUME IInv, Prompt, Size
  PROVE  Prompt'
<1>1. /\ loop = "size" /\ sized' = Len(unread)
      /\ activity' = (IF unread = <<>> THEN activity ELSE 0)
      /\ loop' = (IF unread = <<>> THEN "check" ELSE "read")
      /\ UNCHANGED <<unread, logged, phase, stage, inPhase, progress, quiet, silent,
                     steady>>
  BY DEF Size
<1>2. /\ \A mark : Marked(mark)' <=> Marked(mark)
      /\ EntersPhase' <=> EntersPhase
  BY <1>1 DEF Marked, EntersPhase
<1>3. /\ activity \in Nat /\ silent \in Nat /\ Len(unread) \in Nat
      /\ StallLimit \in Nat
  BY MonitorAssumption DEF IInv, TypeOK, Time
<1>4. ASSUME "garbled" \notin logged PROVE Recent' /\ Checked' /\ Late'
  <2>1. Recent /\ Checked /\ Late
    BY <1>1, <1>4 DEF Prompt
  <2>2. Recent'
    <3>1. CASE unread = <<>>
      <4>1. ~Marked("progress") /\ ~EntersPhase
        BY <3>1 DEF Marked, EntersPhase
      <4> QED
        BY <1>1, <1>2, <3>1, <4>1 DEF Recent, Age
    <3>2. CASE unread # <<>>
      BY <1>1, <1>2, <1>3, <2>1, <3>2 DEF Recent, Age
    <3> QED
      BY <3>1, <3>2
  <2>3. Checked'
    BY <1>1, <1>3, <2>1 DEF Checked, Slack
  <2>4. Late'
    BY <1>1, <1>2, <1>3, <2>1 DEF Late, Recent, Age
  <2> QED
    BY <2>2, <2>3, <2>4
<1> QED
  BY <1>1, <1>2, <1>4 DEF Prompt

(* The read: what it leaves unread was written after the stat.               *)
LEMMA PromptFollow ==
  ASSUME IInv, Prompt, loop = "read", ~Marked("fatal"), Follow,
         UNCHANGED <<sized, logged, stage, activity, quiet, silent, steady>>
  PROVE  Prompt'
<1>1. /\ loop' = "check" /\ FollowPhase
      /\ inPhase' = (IF EntersPhase THEN 0 ELSE inPhase)
      /\ progress' = (IF Marked("progress") THEN 0 ELSE progress)
      /\ unread' = SubSeq(unread, sized + 1, Len(unread))
      /\ UNCHANGED <<sized, logged, stage, activity, quiet, silent, steady>>
  BY DEF Follow, ReadsAgain
<1>2. /\ unread \in Seq(Lines) /\ sized \in Nat /\ Len(unread) \in Nat
      /\ quiet \in Nat /\ silent \in Nat /\ progress \in Nat /\ activity \in Nat
      /\ steady \in Nat /\ inPhase \in Nat
      /\ ProgressLimit \in Nat /\ PhaseLimit \in [Phases -> Nat]
  BY MonitorAssumption DEF IInv, TypeOK, Time
<1>3. /\ unread' # <<>> => sized < Len(unread)
      /\ \A i \in 1..Len(unread') : /\ sized + i \in 1..Len(unread)
                                    /\ unread'[i] = unread[sized + i]
  BY ReadTwice
<1>4. ASSUME NEW mark, Marked(mark)'
      PROVE  /\ Marked(mark)
             /\ \E i \in 1..Len(unread) : sized < i /\ mark \in unread[i].marks
  <2>1. PICK i \in 1..Len(unread') : mark \in unread'[i].marks
    BY <1>4 DEF Marked
  <2>2. sized + i \in 1..Len(unread) /\ mark \in unread[sized + i].marks
        /\ sized < sized + i
    BY <1>2, <1>3, <2>1
  <2> QED
    BY <2>2 DEF Marked
<1>5. ASSUME "garbled" \notin logged PROVE Recent' /\ Checked' /\ Late'
  <2>1. Recent /\ Checked /\ Late
    BY <1>5 DEF Prompt
  <2>2. Recent'
    <3>1. Marked("progress")' => quiet = 0
      BY <1>4, <2>1 DEF Recent
    <3>2. unread' # <<>> => silent = 0
      BY <1>2, <1>3, <2>1 DEF Recent
    <3>3. EntersPhase' => steady = 0
      <4>1. phase' = stage
        BY PhasedFollow
      <4>2. ASSUME NEW i \in 1..Len(unread'), unread'[i].phases \notin {{}, {stage}}
            PROVE  steady = 0
        <5>1. sized + i \in 1..Len(unread) /\ sized < sized + i
              /\ unread[sized + i].phases \notin {{}, {stage}}
          BY <1>2, <1>3, <4>2
        <5> QED
          BY <2>1, <5>1 DEF Recent
      <4> QED
        BY <4>1, <4>2 DEF EntersPhase
    <3> QED
      BY <1>1, <3>1, <3>2, <3>3 DEF Recent, Age
  <2>3. Checked'
    <3>1. ASSUME phase' # NoPhase PROVE inPhase' <= PhaseLimit[phase'] + 1
      <4>1. CASE EntersPhase
        <5>1. phase' \in Phases \union {NoPhase}
          BY <1>1 DEF FollowPhase, IInv, TypeOK
        <5>2. PhaseLimit[phase'] \in Nat
          BY <1>2, <3>1, <5>1
        <5> QED
          BY <1>1, <4>1, <5>2
      <4>2. CASE ~EntersPhase
        <5>1. ASSUME NEW p \in Phases, LeavesIn(p) PROVE p = phase
          BY <4>2, <5>1 DEF LeavesIn, IsLastPhase, EntersPhase
        <5>2. phase' = phase
          BY <1>1, <5>1 DEF FollowPhase
        <5> QED
          BY <1>1, <2>1, <3>1, <4>2, <5>2 DEF Checked, Slack
      <4> QED
        BY <4>1, <4>2
    <3> QED
      BY <1>1, <1>2, <2>1, <3>1 DEF Checked, Slack
  <2>4. Late'
    <3>1. quiet' <= progress' + 1
      BY <1>1, <1>2, <2>1 DEF Late, Recent, Age
    <3>2. "fatal" \notin logged
      BY <2>1 DEF Late
    <3>3. steady' <= inPhase' + 1
      BY <1>1, <1>2, <2>1 DEF Late, Recent, Age
    <3> QED
      BY <1>1, <2>1, <3>1, <3>2, <3>3 DEF Late
  <2> QED
    BY <2>2, <2>3, <2>4
<1>6. Marked("garbled")' => "garbled" \in logged'
  BY <1>1, <1>4 DEF Prompt
<1> QED
  BY <1>1, <1>5, <1>6 DEF Prompt

(* The sleep comes after the checks, and makes a turn of all that was        *)
(* written in this one.                                                      *)
LEMMA PromptSleep ==
  ASSUME IInv, Prompt, Sleep
  PROVE  Prompt'
<1>1. /\ loop = "sleep" /\ loop' = "poll"
      /\ inPhase' = Later(inPhase) /\ progress' = Later(progress)
      /\ activity' = Later(activity)
      /\ quiet' = Later(quiet) /\ silent' = Later(silent)
      /\ steady' = Later(steady)
      /\ UNCHANGED <<unread, sized, logged, phase, stage>>
  BY DEF Sleep, log
<1>2. /\ inPhase \in Time /\ progress \in Time /\ activity \in Time
      /\ quiet \in Time /\ silent \in Time /\ steady \in Time
      /\ ProgressLimit \in Nat /\ StallLimit \in Nat
      /\ phase # NoPhase => PhaseLimit[phase] \in Nat
  BY MonitorAssumption DEF IInv, TypeOK
<1>3. /\ \A mark : Marked(mark)' <=> Marked(mark)
      /\ EntersPhase' <=> EntersPhase
  BY <1>1 DEF Marked, EntersPhase
<1>4. ASSUME "garbled" \notin logged PROVE Recent' /\ Checked' /\ Late'
  <2>1. Recent /\ Checked /\ Late
    BY <1>1, <1>4 DEF Prompt
  <2>2. Recent'
    <3>1. /\ Marked("progress") => quiet <= 0
          /\ unread # <<>> => silent <= 0
          /\ EntersPhase => steady <= 0
      BY <1>1, <2>1 DEF Recent, Age
    <3>2. /\ Marked("progress") => quiet' <= 1
          /\ unread # <<>> => silent' <= 1
          /\ EntersPhase => steady' <= 1
      BY <1>1, <1>2, <3>1, LaterByOne
    <3> QED
      BY <1>1, <1>3, <3>2 DEF Recent, Age
  <2>3. Checked'
    <3>1. /\ progress <= ProgressLimit /\ activity <= StallLimit
          /\ phase # NoPhase => inPhase <= PhaseLimit[phase]
      BY <1>1, <1>2, <2>1 DEF Checked, Slack
    <3>2. /\ progress' <= ProgressLimit + 1 /\ activity' <= StallLimit + 1
          /\ phase # NoPhase => inPhase' <= PhaseLimit[phase] + 1
      BY <1>1, <1>2, <3>1, LaterByOne
    <3> QED
      BY <1>1, <3>2 DEF Checked, Slack
  <2>4. Late'
    BY <1>1, <1>2, <1>3, <2>1, LaterByOne DEF Late
  <2> QED
    BY <2>2, <2>3, <2>4
<1> QED
  BY <1>1, <1>3, <1>4 DEF Prompt

(* The limits: whoever passes the check is within them.                      *)
LEMMA PromptCheck ==
  ASSUME IInv, Prompt, CheckLimits
  PROVE  Prompt'
<1>1. /\ loop = "check"
      /\ UNCHANGED <<unread, sized, logged, phase, stage, inPhase, progress,
                     activity, quiet, silent, steady>>
      /\ loop' = "off" \/ (loop' = "sleep" /\ Overdue = "none")
  BY DEF CheckLimits, Terminate, log, clocks
<1>2. /\ \A mark : Marked(mark)' <=> Marked(mark)
      /\ EntersPhase' <=> EntersPhase
  BY <1>1 DEF Marked, EntersPhase
<1>3. ASSUME "garbled" \notin logged, loop' = "sleep"
      PROVE  Recent' /\ Checked' /\ Late'
  <2>1. Recent /\ Late
    BY <1>1, <1>3 DEF Prompt
  <2>2. Recent' /\ Late'
    BY <1>1, <1>2, <1>3, <2>1 DEF Recent, Age, Late
  <2>3. /\ ~PhaseOverdue /\ progress <= ProgressLimit /\ activity <= StallLimit
    <3>1. /\ progress \in Nat /\ activity \in Nat
          /\ ProgressLimit \in Nat /\ StallLimit \in Nat
      BY MonitorAssumption DEF IInv, TypeOK, Time
    <3> QED
      BY <1>1, <1>3, <3>1 DEF Overdue
  <2>4. Checked'
    <3>1. /\ progress' \in Nat /\ activity' \in Nat /\ inPhase' \in Nat
          /\ ProgressLimit \in Nat /\ StallLimit \in Nat
          /\ phase # NoPhase => PhaseLimit[phase] \in Nat
      BY <1>1, MonitorAssumption DEF IInv, TypeOK, Time
    <3> QED
      BY <1>1, <1>3, <2>3, <3>1 DEF Checked, Slack, PhaseOverdue
  <2> QED
    BY <2>2, <2>4
<1> QED
  BY <1>1, <1>2, <1>3 DEF Prompt

(* Every step keeps the monitor as little behind as it was.                  *)
LEMMA PromptNext == IInv /\ Prompt /\ [Next]_vars => Prompt'
<1> SUFFICES ASSUME IInv, Prompt, [Next]_vars PROVE Prompt'
  OBVIOUS
<1>1. CASE Read
  <2>1. CASE ~Marked("garbled") /\ ~Marked("fatal") /\ Follow
    BY <1>1, <2>1, PromptFollow DEF Read
  <2>2. CASE Marked("garbled") /\ Skip
    BY <1>1, <2>2 DEF Read, Skip, Prompt, Marked
  <2>3. CASE Terminate("fatal") /\ UNCHANGED unread
    BY <1>1, <2>3 DEF Read, Terminate, Prompt, Marked
  <2> QED
    BY <1>1, <2>1, <2>2, <2>3 DEF Read
<1>2. CASE Poll \/ UNCHANGED vars \/ \E how \in {"succeeded", "failed"} : Exit(how)
  <2>1. /\ UNCHANGED <<log, phase, stage, clocks>>
        /\ loop' = loop \/ loop' = "off" \/ (loop = "poll" /\ loop' = "size")
    BY <1>2 DEF Poll, Exit, vars
  <2> QED
    BY <2>1 DEF Prompt, Recent, Age, Checked, Slack, Late, Marked, EntersPhase,
                log, clocks
<1> QED
  BY <1>1, <1>2, PromptWrite, PromptSize, PromptSleep, PromptCheck
     DEF Next, Monitor, Build, Done

(* For any limits and kinds of line, no build that is silent, or writes      *)
(* nothing of progress, or stays in one phase, is watched for more than two  *)
(* turns past that limit, and no fatal line is passed by.                    *)
THEOREM TroubleAlwaysEndsInTime == Spec => []TroubleEndsInTime
<1>1. Init => Prompt
  BY MonitorAssumption
     DEF Init, Prompt, Recent, Checked, Slack, Late, Marked, EntersPhase
<1>2. ASSUME IInv, Prompt PROVE TroubleEndsInTime
  <2> SUFFICES ASSUME loop # "off", "garbled" \notin logged
               PROVE  /\ quiet <= ProgressLimit + 2
                      /\ silent <= StallLimit + 2
                      /\ stage # NoPhase => steady <= PhaseLimit[stage] + 2
                      /\ "fatal" \in logged => Marked("fatal")
    BY DEF TroubleEndsInTime
  <2>1. /\ inPhase \in Nat /\ progress \in Nat /\ activity \in Nat
        /\ quiet \in Nat /\ silent \in Nat /\ steady \in Nat
        /\ ProgressLimit \in Nat /\ StallLimit \in Nat
        /\ stage # NoPhase => PhaseLimit[stage] \in Nat
    BY <1>2, MonitorAssumption DEF IInv, TypeOK, Time
  <2>2. Recent /\ Checked /\ Late
    BY <1>2 DEF Prompt
  <2>3. ASSUME stage # NoPhase PROVE steady <= PhaseLimit[stage] + 2
    <3>1. CASE phase = stage
      BY <2>1, <2>2, <2>3, <3>1 DEF Checked, Slack, Late
    <3>2. CASE EntersPhase
      BY <2>1, <2>2, <2>3, <3>2 DEF Recent, Age
    <3> QED
      BY <1>2, <3>1, <3>2 DEF IInv, Phased
  <2> QED
    BY <2>1, <2>2, <2>3 DEF Checked, Slack, Late
<1> QED
  BY <1>1, <1>2, PromptNext, MonitorInvariant, PTL DEF Spec
=============================================================================
