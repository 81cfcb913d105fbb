---------------------------- MODULE JobCtlProofs ----------------------------
(***************************************************************************)
(* Proofs about JobCtl, for any number of pids and slots and any times     *)
(* that fit: the job never runs twice, and a stop leaves nothing behind.   *)
(*                                                                         *)
(* The argument: as long as monit waits, at most one start script and one  *)
(* stop script run, because each is over before monit's timeout; so what a *)
(* script read from the pidfile is still there when it uses it.            *)
(***************************************************************************)
EXTENDS JobCtl, TLAPS

\* The assumptions under which the scripts exclude each other.
Assumed == TimesFit /\ ~Reuse /\ WaitsForExit

BeforeExec == Guard \cup {"setup", "open", "write"}

\* A start script: until it execs, nothing runs under the pid in the pidfile
\* and monit still waits for it.
StartOK(s) ==
    /\ script[s].self \in Pids /\ proc[script[s].self] = "start"
    /\ script[s].pc \in BeforeExec \cup {"exec"}
    /\ script[s].pc \in BeforeExec =>
          /\ doing = "start" /\ ~Running
          /\ timer <= StartDelay
          /\ script[s].pc \in Guard \cup {"setup"} => timer + script[s].left <= StartDelay
    /\ script[s].pc = "exec" => file["pid"] = script[s].self

\* A stop script: how far it can have got in the time monit has waited.
StopOK(s) ==
    /\ doing = "stop"
    /\ script[s].pc \in Wait /\ script[s].file = "pid"
    /\ script[s].pc \in {"wait", "alive", "term"} => timer = 0
    /\ script[s].pc \in {"loop", "nap"} => timer + script[s].left <= KillTimeout
    /\ script[s].pc = "woke" => timer + script[s].left <= KillTimeout + 1
    /\ script[s].pc = "settle" => timer <= KillTimeout + 1
    /\ script[s].pc = "rm" => timer <= KillTimeout + 2
    /\ script[s].pc # "wait" => script[s].target \in Pids /\ script[s].target = file["pid"]
    /\ script[s].pc \in {"settle", "rm"} => ~Running

ScriptOK(s) ==
    script[s] # None =>
        /\ script[s].child = None
        /\ IF script[s].self = None THEN StopOK(s) ELSE StartOK(s)

OneOfEach ==
    \A s, t \in Slots :
        script[s] # None /\ script[t] # None
        /\ (script[s].self = None <=> script[t].self = None) => s = t

MonitOK ==
    /\ doing = "stop" => mode = "stop"
    /\ doing = "start" => mode = "run"
    /\ doing = "stop" /\ StopExited => ~Running
    /\ mode = "stop" /\ doing = "idle" => ~Running

IInv ==
    /\ TypeOK /\ JobIsRecorded /\ OneOfEach /\ MonitOK
    /\ \A s \in Slots : ScriptOK(s)

USE TimesAssumption, FlagsAssumption, FilesAssumption, MarkersAssumption, WaitsAssumption
-----------------------------------------------------------------------------
(* Facts about single steps of a script or process. *)

\* A record built from a script by changing pc, target or left is a script.
LEMMA ScriptFields ==
    ASSUME TypeOK, NEW s \in Slots, script[s] # None
    PROVE  /\ script[s] \in Script
           /\ script[s].self \in Pids \cup {None}
           /\ script[s].left \in Nat
           /\ script[s].pc \in Guard \cup Own \cup Wait
  BY DEF TypeOK, Script

\* Initially nothing runs.
LEMMA InitIInv == ASSUME Init PROVE IInv
  BY DEF Init, IInv, TypeOK, JobIsRecorded, Jobs, OneOfEach, MonitOK, ScriptOK,
         Running, Runs, StopExited, Role

\* Script s goes on as r, and nothing else changes.
LEMMA GoesOn ==
    ASSUME IInv, NEW s \in Slots, script[s] # None,
           NEW r \in Script, r.self = script[s].self,
           script' = [script EXCEPT ![s] = r], UNCHANGED <<proc, file, monit>>,
           ScriptOK(s)'
    PROVE  IInv'
<1>1. r # None /\ script[s] \in Script
  BY ScriptFields DEF IInv
<1>2. script'[s] = r /\ \A t \in Slots : t # s => script'[t] = script[t]
  BY DEF IInv, TypeOK
<1>3. TypeOK'
  BY DEF IInv, TypeOK, monit
<1>4. JobIsRecorded'
  BY DEF IInv, JobIsRecorded, Jobs, monit
<1>5. OneOfEach'
  BY <1>1, <1>2 DEF IInv, OneOfEach
<1>6. MonitOK'
  BY <1>1, <1>2 DEF IInv, MonitOK, StopExited, Running, Runs, monit
<1>7. \A t \in Slots : ScriptOK(t)'
  BY <1>2 DEF IInv, ScriptOK, StartOK, StopOK, Running, Runs, monit
<1>. QED
  BY <1>3, <1>4, <1>5, <1>6, <1>7 DEF IInv

\* A process ends, and the script it may be with it.
LEMMA Ends ==
    ASSUME IInv, NEW p \in Pids, End(p), UNCHANGED <<file, monit>>
    PROVE  IInv'
<1>1. /\ proc' = [proc EXCEPT ![p] = None]
      /\ \A q \in Pids : proc'[q] # None => q # p /\ proc'[q] = proc[q]
      /\ \A q \in Pids : q # p => proc'[q] = proc[q]
  BY DEF IInv, TypeOK, End
<1>2. \A t \in Slots :
         script'[t] = IF script[t] # None /\ script[t].self = p THEN None ELSE script[t]
  BY DEF End, WithoutScriptOf
<1>3. TypeOK'
  BY <1>1 DEF IInv, TypeOK, End, WithoutScriptOf, monit
<1>4. JobIsRecorded'
  BY <1>1 DEF IInv, JobIsRecorded, Jobs, Role, monit
<1>5. OneOfEach'
  BY <1>2 DEF IInv, OneOfEach
<1>6. StopExited' => StopExited
  BY <1>2 DEF StopExited
<1>7. Running' => Running
  BY <1>1 DEF Running, Runs, monit
<1>8. MonitOK'
  BY <1>6, <1>7 DEF IInv, MonitOK, monit
<1>9. ASSUME NEW t \in Slots PROVE ScriptOK(t)'
  <2>. SUFFICES ASSUME script'[t] # None PROVE ScriptOK(t)'
    BY DEF ScriptOK
  <2>1. script'[t] = script[t] /\ script[t].self # p /\ ScriptOK(t)
    BY <1>2 DEF IInv
  <2>. QED
    BY <2>1, <1>1, <1>7 DEF ScriptOK, StartOK, StopOK, monit
<1>. QED
  BY <1>3, <1>4, <1>5, <1>8, <1>9 DEF IInv

\* A script ends.
LEMMA Exits ==
    ASSUME IInv, NEW s \in Slots, script[s] # None, Exit(s), UNCHANGED <<file, monit>>,
           script[s].self = None => ~Running
    PROVE  IInv'
<1>1. CASE script[s].self # None
  <2>1. script[s].self \in Pids
    BY <1>1, ScriptFields DEF IInv
  <2>2. WithoutScriptOf(script[s].self) = [script EXCEPT ![s] = None]
    BY <1>1 DEF WithoutScriptOf, IInv, TypeOK, OneOfEach, ScriptOK
  <2>. QED
    BY <1>1, <2>1, <2>2, Ends DEF Exit, End
<1>2. CASE script[s].self = None
  <2>1. proc' = proc /\ ~Running /\ ~Running'
    BY <1>2 DEF Exit, Running, Runs
  <2>2. \A t \in Slots : script'[t] # None => script'[t] = script[t]
    BY DEF Exit, IInv, TypeOK
  <2>3. TypeOK'
    BY <2>1 DEF Exit, IInv, TypeOK, monit
  <2>4. JobIsRecorded' /\ OneOfEach' /\ MonitOK'
    BY <2>1, <2>2 DEF IInv, JobIsRecorded, Jobs, OneOfEach, MonitOK, monit
  <2>5. \A t \in Slots : ScriptOK(t)'
    BY <2>1, <2>2 DEF IInv, ScriptOK, StartOK, StopOK, monit
  <2>. QED
    BY <2>3, <2>4, <2>5 DEF IInv
<1>. QED
  BY <1>1, <1>2

\* A start script that has not come to the exec goes on as r and changes the
\* pidfile, in which there was no live pid.
LEMMA StartWrites ==
    ASSUME IInv, NEW s \in Slots, script[s] # None, script[s].self \in Pids,
           script[s].pc \in BeforeExec,
           NEW r \in Script, r.self = script[s].self,
           NEW c \in {None, Empty, r.self},
           script' = [script EXCEPT ![s] = r], file' = [file EXCEPT !["pid"] = c],
           UNCHANGED <<proc, monit>>,
           ScriptOK(s)'
    PROVE  IInv'
<1>1. doing = "start" /\ ~Running /\ StartOK(s)
  BY DEF IInv, ScriptOK, StartOK, BeforeExec
<1>2. /\ r # None
      /\ script'[s] = r /\ \A t \in Slots : t # s => script'[t] = script[t]
      /\ \A t \in Slots : t # s => script[t] = None
  BY <1>1 DEF IInv, TypeOK, OneOfEach, ScriptOK, StopOK
<1>3. TypeOK'
  BY DEF IInv, TypeOK, monit
<1>4. JobIsRecorded'
  BY <1>1 DEF IInv, JobIsRecorded, Jobs, Running, Runs, Role
<1>5. OneOfEach' /\ MonitOK' /\ \A t \in Slots : ScriptOK(t)'
  BY <1>1, <1>2 DEF IInv, OneOfEach, MonitOK, ScriptOK, monit
<1>. QED
  BY <1>3, <1>4, <1>5 DEF IInv

-----------------------------------------------------------------------------
(* The steps of pid_guard. *)

LEMMA GuardReadsInv ==
    ASSUME Assumed, IInv, NEW s \in Slots, GuardReads(s) PROVE IInv'
<1>. DEFINE r == IF file["pid"] = None THEN [script[s] EXCEPT !.pc = "setup"]
                 ELSE [script[s] EXCEPT !.pc = "probe", !.target = file["pid"]]
<1>1. script[s] # None /\ StartOK(s) /\ script[s].child = None
  BY DEF IInv, ScriptOK, StopOK, GuardReads, At, Wait
<1>2. script' = [script EXCEPT ![s] = r] /\ UNCHANGED <<proc, file, monit>>
  BY DEF GuardReads, Go
<1>3. r \in Script /\ r.self = script[s].self /\ r # None
  <2>1. script[s] \in Script /\ file["pid"] \in Pids \cup {None, Empty}
    BY <1>1, ScriptFields DEF IInv, TypeOK
  <2>2. CASE file["pid"] = None
    BY <2>1, <2>2 DEF Script, Own
  <2>3. CASE file["pid"] # None
    BY <2>1, <2>3 DEF Script, Guard
  <2>. QED
    BY <2>2, <2>3
<1>4. ScriptOK(s)'
  BY <1>1, <1>2, <1>3
     DEF ScriptOK, StartOK, BeforeExec, Guard, Running, Runs, IInv, TypeOK, Script, monit,
         GuardReads, At
<1>. QED
  BY <1>1, <1>2, <1>3, <1>4, GoesOn

LEMMA GuardProbesInv ==
    ASSUME Assumed, IInv, NEW s \in Slots, GuardProbes(s) PROVE IInv'
<1>1. script[s] # None /\ StartOK(s) /\ script[s].child = None /\ script[s].self # None
  BY DEF IInv, ScriptOK, StartOK, StopOK, GuardProbes, At, Wait
<1>2. CASE StillRuns(s)
  BY <1>1, <1>2, Exits DEF GuardProbes, monit
<1>3. CASE ~StillRuns(s)
  <2>. DEFINE r == [script[s] EXCEPT !.pc = "unlink"]
  <2>1. script' = [script EXCEPT ![s] = r] /\ UNCHANGED <<proc, file, monit>>
    BY <1>3 DEF GuardProbes, Go
  <2>2. r \in Script /\ r.self = script[s].self /\ r # None
    BY <1>1, ScriptFields DEF IInv, Script, Guard
  <2>3. ScriptOK(s)'
    BY <1>1, <2>1, <2>2
       DEF ScriptOK, StartOK, BeforeExec, Guard, Running, Runs, IInv, TypeOK, Script, monit,
           GuardProbes, At
  <2>. QED
    BY <1>1, <2>1, <2>2, <2>3, GoesOn
<1>. QED
  BY <1>2, <1>3

LEMMA GuardRemovesInv ==
    ASSUME Assumed, IInv, NEW s \in Slots, GuardRemoves(s) PROVE IInv'
<1>1. script[s] # None /\ StartOK(s) /\ script[s].child = None /\ script[s].self \in Pids
  BY DEF IInv, ScriptOK, StartOK, StopOK, GuardRemoves, At, Wait
<1>2. script[s].pc = "unlink" /\ doing = "start" /\ ~Running
  BY <1>1 DEF GuardRemoves, At, StartOK, BeforeExec, Guard
<1>3. CASE file["pid"] = None
  <2>1. file' = file
    BY <1>3 DEF GuardRemoves, IInv, TypeOK
  <2>2. CASE Strict(s)
    BY <1>1, <1>3, <2>1, <2>2, Exits DEF GuardRemoves, monit
  <2>3. CASE ~Strict(s)
    <3>. DEFINE r == [script[s] EXCEPT !.pc = "setup"]
    <3>1. script' = [script EXCEPT ![s] = r] /\ UNCHANGED <<proc, file, monit>>
      BY <1>3, <2>1, <2>3 DEF GuardRemoves, Go
    <3>2. r \in Script /\ r.self = script[s].self /\ r # None
      BY <1>1, ScriptFields DEF IInv, Script, Own
    <3>3. ScriptOK(s)'
      BY <1>1, <1>2, <3>1, <3>2
         DEF ScriptOK, StartOK, BeforeExec, Guard, Running, Runs, IInv, TypeOK, Script, monit
    <3>. QED
      BY <1>1, <3>1, <3>2, <3>3, GoesOn
  <2>. QED
    BY <2>2, <2>3
<1>4. CASE file["pid"] # None
  <2>. DEFINE r == [script[s] EXCEPT !.pc = "setup"]
  <2>1. script' = [script EXCEPT ![s] = r] /\ UNCHANGED <<proc, monit>>
    BY <1>4 DEF GuardRemoves, Go
  <2>2. r \in Script /\ r.self = script[s].self /\ r.child = None
    BY <1>1, ScriptFields DEF IInv, Script, Own
  <2>3. file' = [file EXCEPT !["pid"] = None]
    BY DEF GuardRemoves
  <2>. QED
    <3>1. ScriptOK(s)'
      BY <1>1, <1>2, <2>1, <2>2, <2>3
         DEF ScriptOK, StartOK, BeforeExec, Guard, Running, Runs, IInv, TypeOK, Script, monit
    <3>. QED
      BY <1>1, <1>2, <2>1, <2>2, <2>3, <3>1, StartWrites DEF BeforeExec, Guard
<1>. QED
  BY <1>3, <1>4

-----------------------------------------------------------------------------
(* The steps of kill_and_wait. *)

LEMMA StopScript ==
    ASSUME IInv, NEW s \in Slots, script[s] # None, script[s].pc \in Wait
    PROVE  /\ script[s] \in Script /\ script[s].self = None /\ script[s].child = None
           /\ StopOK(s)
  BY ScriptFields DEF IInv, ScriptOK, StartOK, BeforeExec, Guard, Wait

LEMMA WaitReadsInv ==
    ASSUME Assumed, IInv, NEW s \in Slots, WaitReads(s) PROVE IInv'
<1>1. script[s] # None /\ script[s].pc = "wait" /\ script[s].pc \in Wait
  BY DEF WaitReads, At, Wait
<1>2. /\ script[s] \in Script /\ script[s].self = None /\ script[s].child = None
      /\ StopOK(s)
  BY <1>1, StopScript
<1>3. CASE file[script[s].file] \in Pids
  <2>. DEFINE r == [script[s] EXCEPT !.pc = "alive", !.target = file[script[s].file]]
  <2>1. script' = [script EXCEPT ![s] = r] /\ UNCHANGED <<proc, file, monit>>
    BY <1>3 DEF WaitReads
  <2>2. r \in Script /\ r.self = script[s].self /\ r # None
    BY <1>2, <1>3 DEF Script, Wait
  <2>3. ScriptOK(s)'
    BY <1>1, <1>2, <1>3, <2>1, <2>2 DEF ScriptOK, StopOK, Wait, IInv, TypeOK, Script, monit
  <2>. QED
    BY <1>1, <2>1, <2>2, <2>3, GoesOn
<1>4. CASE file[script[s].file] \notin Pids
  <2>1. ~Running
    BY <1>2, <1>4 DEF StopOK, Running, Runs
  <2>. QED
    BY <1>1, <1>4, <2>1, Exits DEF WaitReads, monit
<1>. QED
  BY <1>3, <1>4

LEMMA WaitProbesInv ==
    ASSUME Assumed, IInv, NEW s \in Slots, WaitProbes(s) PROVE IInv'
<1>1. script[s] # None /\ script[s].pc = "alive" /\ script[s].pc \in Wait
  BY DEF WaitProbes, At, Wait
<1>2. /\ script[s] \in Script /\ script[s].self = None /\ script[s].child = None
      /\ StopOK(s)
  BY <1>1, StopScript
<1>. DEFINE pc == IF Runs(script[s].target) THEN "term" ELSE "rm"
            r == [script[s] EXCEPT !.pc = pc]
<1>3. script' = [script EXCEPT ![s] = r] /\ UNCHANGED <<proc, file, monit>>
  BY DEF WaitProbes, Go
<1>4. pc \in Wait /\ r \in Script /\ r.self = script[s].self /\ r # None
  BY <1>2 DEF Script, Wait
<1>5. ScriptOK(s)'
  BY <1>1, <1>2, <1>3, <1>4
     DEF ScriptOK, StopOK, Wait, IInv, TypeOK, Script, Running, Runs, Assumed, TimesFit, monit
<1>. QED
  BY <1>1, <1>3, <1>4, <1>5, GoesOn

LEMMA WaitTerminatesInv ==
    ASSUME Assumed, IInv, NEW s \in Slots, WaitTerminates(s) PROVE IInv'
<1>1. script[s] # None /\ script[s].pc = "term" /\ script[s].pc \in Wait
  BY DEF WaitTerminates, At, Wait
<1>2. /\ script[s] \in Script /\ script[s].self = None /\ script[s].child = None
      /\ StopOK(s)
  BY <1>1, StopScript
<1>3. CASE Strict(s) /\ ~Runs(script[s].target)
  <2>1. ~Running
    BY <1>1, <1>2, <1>3 DEF StopOK, Running
  <2>. QED
    BY <1>1, <1>3, <2>1, Exits DEF WaitTerminates, monit
<1>4. CASE ~(Strict(s) /\ ~Runs(script[s].target))
  <2>. DEFINE r == [script[s] EXCEPT !.pc = "loop", !.left = KillTimeout]
  <2>1. script' = [script EXCEPT ![s] = r] /\ UNCHANGED <<proc, file, monit>>
    BY <1>4 DEF WaitTerminates
  <2>2. KillTimeout \in 0..(KillTimeout + StartDelay + StartWait)
    OBVIOUS
  <2>3. r \in Script /\ r.self = script[s].self /\ r # None
    BY <1>2, <2>2 DEF Script, Wait
  <2>4. ScriptOK(s)'
    BY <1>1, <1>2, <2>1, <2>3 DEF ScriptOK, StopOK, Wait, IInv, TypeOK, Script, monit
  <2>. QED
    BY <1>1, <2>1, <2>3, <2>4, GoesOn
<1>. QED
  BY <1>3, <1>4

LEMMA WaitLoopsInv ==
    ASSUME Assumed, IInv, NEW s \in Slots, WaitLoops(s) PROVE IInv'
<1>1. script[s] # None /\ script[s].pc = "loop" /\ script[s].pc \in Wait
  BY DEF WaitLoops, At, Wait
<1>2. /\ script[s] \in Script /\ script[s].self = None /\ script[s].child = None
      /\ StopOK(s)
  BY <1>1, StopScript
<1>. DEFINE pc == IF Runs(script[s].target) THEN "nap" ELSE "rm"
            r == [script[s] EXCEPT !.pc = pc]
<1>3. script' = [script EXCEPT ![s] = r] /\ UNCHANGED <<proc, file, monit>>
  BY DEF WaitLoops, Go
<1>4. pc \in Wait /\ r \in Script /\ r.self = script[s].self /\ r # None
  BY <1>2 DEF Script, Wait
<1>5. script[s].left \in Nat /\ timer \in Nat
  BY <1>1, ScriptFields DEF IInv, TypeOK
<1>6. ScriptOK(s)'
  BY <1>1, <1>2, <1>3, <1>4, <1>5
     DEF ScriptOK, StopOK, Wait, IInv, TypeOK, Running, Runs, monit
<1>. QED
  BY <1>1, <1>3, <1>4, <1>6, GoesOn

LEMMA WaitCountsInv ==
    ASSUME Assumed, IInv, NEW s \in Slots, WaitCounts(s) PROVE IInv'
<1>1. /\ script[s] # None /\ script[s].pc = "woke" /\ script[s].pc \in Wait
      /\ script[s].left > 0 /\ KillTimeout # 0
  BY DEF WaitCounts, At, Wait, TurnsLeft, Assumed, TimesFit
<1>2. /\ script[s] \in Script /\ script[s].self = None /\ script[s].child = None
      /\ StopOK(s) /\ script[s].left \in Nat /\ timer \in Nat
  BY <1>1, StopScript, ScriptFields DEF IInv, TypeOK
<1>. DEFINE r == [script[s] EXCEPT !.pc = "loop", !.left = script[s].left - 1]
<1>3. script' = [script EXCEPT ![s] = r] /\ UNCHANGED <<proc, file, monit>>
  BY <1>1 DEF WaitCounts
<1>4. r \in Script /\ r.self = script[s].self /\ r # None
  <2>1. script[s].left \in 0..(KillTimeout + StartDelay + StartWait)
    BY <1>2 DEF Script
  <2>2. script[s].left - 1 \in 0..(KillTimeout + StartDelay + StartWait)
    BY <1>1, <2>1
  <2>. QED
    BY <1>2, <2>2 DEF Script, Wait
<1>5. ScriptOK(s)'
  BY <1>1, <1>2, <1>3, <1>4 DEF ScriptOK, StopOK, Wait, IInv, TypeOK, Script, monit
<1>. QED
  BY <1>1, <1>3, <1>4, <1>5, GoesOn

LEMMA WaitKillsInv ==
    ASSUME Assumed, IInv, NEW s \in Slots, WaitKills(s) PROVE IInv'
<1>1. /\ script[s] # None /\ script[s].pc = "woke" /\ script[s].pc \in Wait
      /\ script[s].left = 0
  BY DEF WaitKills, At, Wait
<1>2. /\ script[s] \in Script /\ script[s].self = None /\ script[s].child = None
      /\ StopOK(s) /\ timer \in Nat
  BY <1>1, StopScript DEF IInv, TypeOK
<1>3. /\ script[s].target \in Pids /\ script[s].target = file["pid"]
      /\ timer <= KillTimeout + 1 /\ doing = "stop" /\ mode = "stop"
  BY <1>1, <1>2 DEF StopOK, IInv, MonitOK
<1>. DEFINE r == [script[s] EXCEPT !.pc = "settle"]
            k == script[s].target
<1>4. r \in Script /\ r.self = script[s].self /\ r # None /\ r.child = None
  BY <1>2 DEF Script, Wait
<1>5. CASE ~Runs(k)
  <2>1. ~Running
    BY <1>3, <1>5 DEF Running
  <2>2. CASE Strict(s)
    BY <1>1, <1>5, <2>1, <2>2, Exits DEF WaitKills, ForcesKill, monit
  <2>3. CASE ~Strict(s)
    <3>1. script' = [script EXCEPT ![s] = r] /\ UNCHANGED <<proc, file, monit>>
      BY <1>5, <2>3 DEF WaitKills, ForcesKill, Go
    <3>2. ScriptOK(s)'
      BY <1>1, <1>2, <1>3, <1>4, <2>1, <3>1
         DEF ScriptOK, StopOK, Wait, IInv, TypeOK, Running, Runs, monit
    <3>. QED
      BY <1>1, <1>4, <3>1, <3>2, GoesOn
  <2>. QED
    BY <2>2, <2>3
<1>6. CASE Runs(k)
  <2>1. /\ proc' = [proc EXCEPT ![k] = None]
        /\ script' = [WithoutScriptOf(k) EXCEPT ![s] = r]
        /\ UNCHANGED <<file, monit>>
    <3>. DEFINE w == WithoutScriptOf(k)
    <3>1. w[s] = script[s] /\ w[s] # None
      BY <1>1, <1>2, <1>3 DEF WithoutScriptOf
    <3>2. /\ proc' = [proc EXCEPT ![k] = None]
          /\ script' = IF w[s] = None THEN w ELSE [w EXCEPT ![s].pc = "settle"]
          /\ UNCHANGED <<file, monit>>
      BY <1>6 DEF WaitKills, ForcesKill
    <3>. HIDE DEF w
    <3>3. script' = [w EXCEPT ![s] = r]
      BY <3>1, <3>2
    <3>. QED
      BY <3>2, <3>3 DEF w
  <2>2. /\ \A q \in Pids : proc'[q] # None => q # k /\ proc'[q] = proc[q]
        /\ \A q \in Pids : q # k => proc'[q] = proc[q]
        /\ file' = file /\ ~Running'
    BY <1>3, <2>1 DEF IInv, TypeOK, Running, Runs
  <2>3. /\ \A t \in Slots : t # s =>
             script'[t] = IF script[t] # None /\ script[t].self = k THEN None ELSE script[t]
        /\ script'[s] = r
    BY <2>1 DEF WithoutScriptOf
  <2>4. TypeOK'
    BY <1>4, <2>1 DEF IInv, TypeOK, WithoutScriptOf, monit
  <2>5. JobIsRecorded'
    BY <2>2 DEF IInv, JobIsRecorded, Jobs, Role
  <2>6. OneOfEach'
    <3>1. \A t \in Slots : script'[t] # None =>
             script[t] # None /\ script'[t].self = script[t].self
      BY <1>1, <1>4, <2>3
    <3>. QED
      BY <3>1 DEF IInv, OneOfEach
  <2>7. MonitOK'
    BY <1>3, <2>1, <2>2 DEF MonitOK, monit
  <2>8. ScriptOK(s)'
    BY <1>2, <1>3, <1>4, <2>1, <2>2, <2>3 DEF ScriptOK, StopOK, Wait, Script, monit
  <2>9. ASSUME NEW t \in Slots, t # s PROVE ScriptOK(t)'
    <3>. SUFFICES ASSUME script'[t] # None PROVE ScriptOK(t)'
      BY DEF ScriptOK
    <3>1. /\ script'[t] = script[t] /\ script[t].self # k /\ StartOK(t)
          /\ script[t].child = None /\ script[t].self # None
      BY <1>1, <1>2, <2>3, <2>9 DEF IInv, OneOfEach, ScriptOK
    <3>. QED
      BY <3>1, <2>1, <2>2 DEF ScriptOK, StartOK, monit
  <2>. QED
    BY <2>4, <2>5, <2>6, <2>7, <2>8, <2>9 DEF IInv
<1>. QED
  BY <1>5, <1>6

LEMMA WaitRemovesInv ==
    ASSUME Assumed, IInv, NEW s \in Slots, WaitRemoves(s) PROVE IInv'
<1>1. script[s] # None /\ script[s].pc = "rm" /\ script[s].pc \in Wait
  BY DEF WaitRemoves, At, Wait
<1>2. script[s].self = None /\ script[s].file = "pid" /\ doing = "stop" /\ ~Running
  BY <1>1, StopScript DEF StopOK
<1>3. /\ file' = [file EXCEPT !["pid"] = None] /\ script' = [script EXCEPT ![s] = None]
      /\ UNCHANGED <<proc, monit>> /\ ~Running'
  BY <1>2 DEF WaitRemoves, Exit, Running, Runs, IInv, TypeOK
<1>4. \A t \in Slots : script'[t] # None => t # s /\ script'[t] = script[t]
  BY <1>3 DEF IInv, TypeOK
<1>5. TypeOK'
  BY <1>3 DEF IInv, TypeOK, monit
<1>6. JobIsRecorded'
  BY <1>2, <1>3 DEF IInv, JobIsRecorded, Jobs, Running, Runs, Role
<1>7. OneOfEach' /\ MonitOK'
  BY <1>2, <1>3, <1>4 DEF IInv, OneOfEach, MonitOK, monit
<1>8. ASSUME NEW t \in Slots PROVE ScriptOK(t)'
  <2>. SUFFICES ASSUME script'[t] # None PROVE ScriptOK(t)'
    BY DEF ScriptOK
  <2>1. /\ script'[t] = script[t] /\ StartOK(t) /\ script[t].child = None
        /\ script[t].self # None
    BY <1>1, <1>2, <1>4 DEF IInv, OneOfEach, ScriptOK
  <2>2. script[t].pc = "exec" /\ Running
    BY <1>2, <2>1 DEF StartOK, BeforeExec, Running, Runs, Role
  <2>. QED
    BY <1>2, <2>2
<1>. QED
  BY <1>5, <1>6, <1>7, <1>8 DEF IInv

-----------------------------------------------------------------------------
(* The steps of a start script after pid_guard. *)

LEMMA StartScript ==
    ASSUME IInv, NEW s \in Slots, script[s] # None, script[s].pc \in Own
    PROVE  /\ script[s] \in Script /\ script[s].self \in Pids /\ script[s].child = None
           /\ StartOK(s)
  BY ScriptFields DEF IInv, ScriptOK, StartOK, StopOK, Own, Wait

LEMMA SetupDoneInv ==
    ASSUME Assumed, IInv, NEW s \in Slots, SetupDone(s) PROVE IInv'
<1>1. script[s] # None /\ script[s].pc = "setup" /\ script[s].pc \in Own
  BY DEF SetupDone, At, Own
<1>2. /\ script[s] \in Script /\ script[s].self \in Pids /\ script[s].child = None
      /\ StartOK(s)
  BY <1>1, StartScript
<1>. DEFINE r == [script[s] EXCEPT !.pc = "open"]
<1>3. script' = [script EXCEPT ![s] = r] /\ UNCHANGED <<proc, file, monit>>
  BY DEF SetupDone, Go
<1>4. r \in Script /\ r.self = script[s].self /\ r # None
  BY <1>2 DEF Script, Own
<1>5. ScriptOK(s)'
  BY <1>1, <1>2, <1>3, <1>4
     DEF ScriptOK, StartOK, BeforeExec, Guard, Running, Runs, IInv, TypeOK, monit
<1>. QED
  BY <1>1, <1>3, <1>4, <1>5, GoesOn

LEMMA PidfileOpenedInv ==
    ASSUME Assumed, IInv, NEW s \in Slots, PidfileOpened(s) PROVE IInv'
<1>1. script[s] # None /\ script[s].pc = "open" /\ script[s].pc \in Own
  BY DEF PidfileOpened, At, Own
<1>2. /\ script[s] \in Script /\ script[s].self \in Pids /\ script[s].child = None
      /\ StartOK(s) /\ doing = "start" /\ script[s].pc \in BeforeExec
  BY <1>1, StartScript DEF StartOK, BeforeExec
<1>. DEFINE r == [script[s] EXCEPT !.pc = "write"]
<1>3. /\ script' = [script EXCEPT ![s] = r] /\ file' = [file EXCEPT !["pid"] = Empty]
      /\ UNCHANGED <<proc, monit>>
  BY DEF PidfileOpened, Go
<1>4. r \in Script /\ r.self = script[s].self /\ r # None
  BY <1>2 DEF Script, Own
<1>5. ScriptOK(s)'
  BY <1>1, <1>2, <1>3, <1>4
     DEF ScriptOK, StartOK, BeforeExec, Guard, Running, Runs, IInv, TypeOK, monit
<1>. QED
  BY <1>1, <1>2, <1>3, <1>4, <1>5, StartWrites

LEMMA PidfileWrittenInv ==
    ASSUME Assumed, IInv, NEW s \in Slots, PidfileWritten(s) PROVE IInv'
<1>1. script[s] # None /\ script[s].pc = "write" /\ script[s].pc \in Own
  BY DEF PidfileWritten, At, Own
<1>2. /\ script[s] \in Script /\ script[s].self \in Pids /\ script[s].child = None
      /\ StartOK(s) /\ doing = "start" /\ script[s].pc \in BeforeExec
  BY <1>1, StartScript DEF StartOK, BeforeExec
<1>. DEFINE r == [script[s] EXCEPT !.pc = "exec"]
<1>3. /\ script' = [script EXCEPT ![s] = r] /\ file' = [file EXCEPT !["pid"] = r.self]
      /\ UNCHANGED <<proc, monit>>
  BY DEF PidfileWritten, Go
<1>4. r \in Script /\ r.self = script[s].self /\ r # None
  BY <1>2 DEF Script, Own
<1>5. ScriptOK(s)'
  BY <1>1, <1>2, <1>3, <1>4
     DEF ScriptOK, StartOK, BeforeExec, Guard, IInv, TypeOK, monit
<1>. QED
  BY <1>1, <1>2, <1>3, <1>4, <1>5, StartWrites

LEMMA ExecsInv ==
    ASSUME Assumed, IInv, NEW s \in Slots, Execs(s) PROVE IInv'
<1>1. script[s] # None /\ script[s].pc = "exec" /\ script[s].pc \in Own
  BY DEF Execs, At, Own
<1>. DEFINE p == script[s].self
<1>2. p \in Pids /\ StartOK(s) /\ file["pid"] = p /\ Running
  BY <1>1, StartScript DEF StartOK, Running, Runs, IInv, TypeOK, Role
<1>3. /\ script' = [script EXCEPT ![s] = None] /\ proc' = [proc EXCEPT ![p] = "job"]
      /\ UNCHANGED <<file, monit>> /\ Running'
  BY <1>2 DEF Execs, Running, Runs, IInv, TypeOK, Role
<1>4. /\ \A t \in Slots : script'[t] # None => t # s /\ script'[t] = script[t]
      /\ \A t \in Slots : t # s => script'[t] = script[t]
  BY <1>3 DEF IInv, TypeOK
<1>5. TypeOK'
  BY <1>3 DEF IInv, TypeOK, Role, monit
<1>6. JobIsRecorded'
  BY <1>2, <1>3 DEF IInv, TypeOK, JobIsRecorded, Jobs
<1>7. OneOfEach'
  BY <1>4 DEF IInv, OneOfEach
<1>8. StopExited' => StopExited
  BY <1>2, <1>4 DEF StopExited
<1>9. MonitOK'
  BY <1>2, <1>3, <1>8 DEF IInv, MonitOK, monit
<1>10. ASSUME NEW t \in Slots PROVE ScriptOK(t)'
  <2>. SUFFICES ASSUME script'[t] # None PROVE ScriptOK(t)'
    BY DEF ScriptOK
  <2>1. /\ script'[t] = script[t] /\ StopOK(t) /\ script[t].child = None
        /\ script[t].self = None
    BY <1>1, <1>2, <1>4 DEF IInv, OneOfEach, ScriptOK
  <2>. QED
    BY <1>2, <1>3, <2>1 DEF ScriptOK, StopOK, monit
<1>. QED
  BY <1>5, <1>6, <1>7, <1>9, <1>10 DEF IInv

-----------------------------------------------------------------------------
(* The steps of the environment. *)

\* While monit waits for a stop, no start script is before its exec; while it
\* waits for a start, no stop script runs; and when it waits for neither, all
\* scripts that run are at their exec.
LEMMA WhoRuns ==
    ASSUME IInv, NEW s \in Slots, script[s] # None
    PROVE  /\ script[s] \in Script /\ script[s].child = None
           /\ script[s].self = None => doing = "stop" /\ StopOK(s)
           /\ script[s].self # None => StartOK(s)
           /\ script[s].self # None /\ doing # "start" => script[s].pc = "exec" /\ Running
           /\ script[s].self # None /\ ~Running => doing = "start"
  BY ScriptFields DEF IInv, ScriptOK, StartOK, StopOK, BeforeExec, Running, Runs, Role

LEMMA MonitStartsInv ==
    ASSUME Assumed, IInv, MonitStarts PROVE IInv'
<1>1. PICK s \in Slots, p \in Pids :
         Fresh(p) /\ Spawn(s, "guard", p) /\ proc' = [proc EXCEPT ![p] = "start"]
  BY DEF MonitStarts
<1>2. /\ mode = "run" /\ doing = "idle" /\ ~Running /\ file' = file /\ mode' = mode
      /\ doing' = "start" /\ timer' = 0
  BY DEF MonitStarts
<1>3. proc[p] = None /\ file["pid"] # p
  BY <1>1 DEF Fresh, Assumed
<1>4. \A t \in Slots : script[t] = None
  BY <1>2, WhoRuns
<1>. DEFINE r == [pc |-> "guard", self |-> p, child |-> None, target |-> None,
                  file |-> "pid", left |-> StartDelay]
<1>5. script' = [script EXCEPT ![s] = r]
  BY <1>1 DEF Spawn
<1>6. StartDelay \in 0..(KillTimeout + StartDelay + StartWait)
  OBVIOUS
<1>7. r \in Script
  BY <1>6 DEF Script, Guard
<1>8. script'[s] = r /\ r # None /\ \A t \in Slots : t # s => script'[t] = None
  BY <1>4, <1>5, <1>7 DEF IInv, TypeOK
<1>9. /\ proc'[p] = "start" /\ ~Running'
      /\ \A q \in Pids : q # p => proc'[q] = proc[q]
  BY <1>1, <1>2, <1>3 DEF IInv, TypeOK, Running, Runs
<1>10. TypeOK'
  BY <1>1, <1>2, <1>5, <1>7 DEF IInv, TypeOK, Role
<1>11. JobIsRecorded'
  BY <1>2, <1>9 DEF IInv, JobIsRecorded, Jobs
<1>12. OneOfEach' /\ MonitOK'
  BY <1>2, <1>8 DEF OneOfEach, MonitOK
<1>13. ScriptOK(s)'
  BY <1>2, <1>8, <1>9 DEF ScriptOK, StartOK, BeforeExec, Guard
<1>. QED
  BY <1>8, <1>10, <1>11, <1>12, <1>13 DEF IInv, ScriptOK

LEMMA MonitStopsInv ==
    ASSUME Assumed, IInv, MonitStops PROVE IInv'
<1>1. PICK s \in Slots : Spawn(s, "wait", None)
  BY DEF MonitStops
<1>2. /\ mode = "run" /\ doing = "idle" /\ mode' = "stop" /\ doing' = "stop" /\ timer' = 0
      /\ UNCHANGED <<proc, file>> /\ (Running' <=> Running)
  BY DEF MonitStops, Running, Runs
<1>. DEFINE r == [pc |-> "wait", self |-> None, child |-> None, target |-> None,
                  file |-> "pid", left |-> StartDelay]
<1>3. script' = [script EXCEPT ![s] = r] /\ script[s] = None
  BY <1>1 DEF Spawn
<1>4. StartDelay \in 0..(KillTimeout + StartDelay + StartWait)
  OBVIOUS
<1>5. r \in Script /\ r # None
  BY <1>4 DEF Script, Wait
<1>6. script'[s] = r /\ \A t \in Slots : t # s => script'[t] = script[t]
  BY <1>3, <1>5 DEF IInv, TypeOK
<1>7. \A t \in Slots : t # s /\ script[t] # None =>
         script[t].self # None /\ StartOK(t) /\ script[t].pc = "exec" /\ script[t].child = None
  BY <1>2, WhoRuns
<1>8. TypeOK'
  BY <1>2, <1>3, <1>5 DEF IInv, TypeOK
<1>9. JobIsRecorded'
  BY <1>2 DEF IInv, JobIsRecorded, Jobs
<1>10. OneOfEach'
  BY <1>6, <1>7 DEF IInv, OneOfEach
<1>11. ~StopExited'
  BY <1>5, <1>6 DEF StopExited
<1>12. MonitOK'
  BY <1>2, <1>11 DEF MonitOK
<1>13. ASSUME NEW t \in Slots PROVE ScriptOK(t)'
  <2>1. CASE t = s
    BY <2>1, <1>2, <1>6 DEF ScriptOK, StopOK, Wait
  <2>2. CASE t # s
    BY <2>2, <1>2, <1>6, <1>7 DEF ScriptOK, StartOK, BeforeExec, Guard
  <2>. QED
    BY <2>1, <2>2
<1>. QED
  BY <1>8, <1>9, <1>10, <1>12, <1>13 DEF IInv

LEMMA OperatorStartsInv ==
    ASSUME Assumed, IInv, OperatorStarts PROVE IInv'
<1>1. /\ doing = "idle" /\ mode' = "run" /\ UNCHANGED <<proc, file, script, doing, timer>>
      /\ (Running' <=> Running)
  BY DEF OperatorStarts, Running, Runs
<1>2. TypeOK' /\ JobIsRecorded' /\ OneOfEach' /\ MonitOK'
  BY <1>1 DEF IInv, TypeOK, JobIsRecorded, Jobs, OneOfEach, MonitOK
<1>3. \A t \in Slots : ScriptOK(t)'
  BY <1>1 DEF IInv, ScriptOK, StartOK, StopOK
<1>. QED
  BY <1>2, <1>3 DEF IInv

\* Monit stops waiting when what it waits for has come about.
LEMMA MonitSeesInv ==
    ASSUME Assumed, IInv, MonitSees PROVE IInv'
<1>1. /\ Reached /\ doing' = "idle" /\ UNCHANGED <<proc, file, script, mode, timer>>
      /\ (Running' <=> Running)
  BY DEF MonitSees, Running, Runs
<1>2. TypeOK' /\ JobIsRecorded' /\ OneOfEach'
  BY <1>1 DEF IInv, TypeOK, JobIsRecorded, Jobs, OneOfEach
<1>3. MonitOK'
  BY <1>1 DEF IInv, MonitOK, Reached
<1>4. ASSUME NEW t \in Slots, script[t] # None
      PROVE  /\ script[t].self # None /\ StartOK(t) /\ script[t].pc = "exec"
             /\ script[t].child = None
  <2>1. CASE doing = "start"
    BY <1>1, <1>4, <2>1, WhoRuns DEF Reached, StartOK, BeforeExec
  <2>2. CASE doing = "stop"
    BY <1>1, <1>4, <2>2, WhoRuns DEF Reached, StopExited, Assumed
  <2>. QED
    BY <1>1, <2>1, <2>2 DEF Reached
<1>5. \A t \in Slots : ScriptOK(t)'
  BY <1>1, <1>4 DEF ScriptOK, StartOK, BeforeExec, Guard
<1>. QED
  BY <1>2, <1>3, <1>5 DEF IInv

\* Monit's timeout comes too late to hit a script that runs.
LEMMA MonitGivesUpInv ==
    ASSUME Assumed, IInv, MonitGivesUp PROVE IInv'
<1>1. /\ doing # "idle" /\ timer = MonitTimeout /\ ~Reached
      /\ doing' = "idle" /\ UNCHANGED <<proc, file, script, mode, timer>>
      /\ (Running' <=> Running)
  BY DEF MonitGivesUp, Running, Runs
<1>2. StopExited
  <2>. SUFFICES ASSUME NEW t \in Slots, script[t] # None, script[t].self = None PROVE FALSE
    BY DEF StopExited
  <2>1. script[t] \in Script /\ script[t].left \in Nat
    BY ScriptFields DEF IInv
  <2>. QED
    BY <1>1, <2>1, WhoRuns DEF StopOK, Wait, Assumed, TimesFit
<1>3. doing = "start" /\ mode = "run" /\ ~Running
  BY <1>1, <1>2 DEF Reached, IInv, MonitOK, TypeOK
<1>4. ASSUME NEW t \in Slots PROVE script[t] = None
  <2>. SUFFICES ASSUME script[t] # None PROVE FALSE
    OBVIOUS
  <2>1. StartOK(t)
    BY <1>2, WhoRuns DEF StopExited
  <2>2. timer <= StartDelay
    BY <1>3, <2>1 DEF StartOK, BeforeExec, Running, Runs, Role
  <2>. QED
    BY <1>1, <2>2 DEF Assumed, TimesFit
<1>5. TypeOK' /\ JobIsRecorded' /\ OneOfEach' /\ MonitOK' /\ \A t \in Slots : ScriptOK(t)'
  BY <1>1, <1>3, <1>4 DEF IInv, TypeOK, JobIsRecorded, Jobs, OneOfEach, MonitOK, ScriptOK
<1>. QED
  BY <1>5 DEF IInv

LEMMA ProcessEndsInv ==
    ASSUME Assumed, IInv, NEW p \in Pids, ProcessEnds(p) PROVE IInv'
  BY Ends DEF ProcessEnds

LEMMA OtherStartsInv ==
    ASSUME Assumed, IInv, NEW p \in Pids, OtherStarts(p) PROVE IInv'
<1>1. /\ proc[p] = None /\ file["pid"] # p
      /\ proc' = [proc EXCEPT ![p] = "other"] /\ UNCHANGED <<file, script, monit>>
  BY DEF OtherStarts, Fresh, Assumed
<1>2. (\A q \in Pids : q # p => proc'[q] = proc[q]) /\ proc'[p] = "other"
  BY <1>1 DEF IInv, TypeOK
<1>3. Running' <=> Running
  BY <1>1, <1>2 DEF Running, Runs
<1>4. TypeOK' /\ JobIsRecorded' /\ OneOfEach'
  BY <1>1, <1>2 DEF IInv, TypeOK, JobIsRecorded, Jobs, OneOfEach, Role, monit
<1>5. MonitOK'
  BY <1>1, <1>3 DEF IInv, MonitOK, StopExited, monit
<1>6. ASSUME NEW t \in Slots PROVE ScriptOK(t)'
  <2>1. script[t] # None /\ script[t].self # None => script[t].self # p
    BY <1>1, WhoRuns DEF StartOK, Role
  <2>. QED
    BY <1>1, <1>2, <1>3, <2>1 DEF IInv, ScriptOK, StartOK, StopOK, monit
<1>. QED
  BY <1>4, <1>5, <1>6 DEF IInv

LEMMA TickInv ==
    ASSUME Assumed, IInv, Tick PROVE IInv'
<1>1. /\ \A t \in Slots : script[t] # None => Asleep(t)
      /\ doing # "idle" => timer < MonitTimeout
      /\ script' = [t \in Slots |-> IF script[t] = None THEN None ELSE Wake(script[t])]
      /\ timer' = IF doing = "idle" THEN timer ELSE timer + 1
      /\ UNCHANGED <<proc, file, mode, doing>> /\ (Running' <=> Running)
  BY DEF Tick, Running, Runs
<1>2. ASSUME NEW t \in Slots, script[t] # None
      PROVE  /\ script'[t] = Wake(script[t]) /\ script'[t] \in Script
             /\ script'[t].self = script[t].self
             /\ ScriptOK(t)'
  <2>1. /\ script'[t] = Wake(script[t]) /\ script[t] \in Script /\ script[t].child = None
        /\ script[t].left \in 0..(KillTimeout + StartDelay + StartWait)
        /\ timer \in Nat /\ timer' \in Nat /\ Asleep(t)
    BY <1>1, <1>2, WhoRuns DEF Script, IInv, TypeOK
  <2>2. CASE script[t].self = None
    <3>1. StopOK(t) /\ doing = "stop" /\ timer' = timer + 1
      BY <1>1, <1>2, <2>2, WhoRuns
    <3>2. script[t].pc \in {"nap", "settle"}
      BY <2>1, <3>1 DEF Asleep, At, StopOK, Wait
    <3>3. Wake(script[t]) = [script[t] EXCEPT !.pc = IF @ = "nap" THEN "woke" ELSE "rm"]
      BY <2>1, <3>2 DEF Wake, Script
    <3>4. Wake(script[t]) \in Script
      BY <2>1, <3>3 DEF Script, Wait
    <3>5. StopOK(t)'
      BY <1>1, <2>1, <3>1, <3>2, <3>3 DEF StopOK, Wait, Script
    <3>. QED
      BY <2>1, <2>2, <3>3, <3>4, <3>5 DEF ScriptOK, Script
  <2>3. CASE script[t].self # None
    <3>1. StartOK(t)
      BY <1>2, <2>3, WhoRuns
    <3>2. CASE script[t].pc = "exec"
      <4>1. Wake(script[t]) = script[t]
        BY <3>2 DEF Wake
      <4>2. StartOK(t)'
        BY <1>1, <2>1, <3>1, <3>2, <4>1 DEF StartOK, BeforeExec, Guard
      <4>. QED
        BY <2>1, <2>3, <4>1, <4>2 DEF ScriptOK
    <3>3. CASE script[t].pc # "exec"
      <4>1. script[t].pc = "setup" /\ script[t].left > 0
        BY <1>2, <2>1, <3>1, <3>3 DEF Asleep, At, StartOK, BeforeExec, Guard
      <4>2. doing = "start" /\ timer' = timer + 1
        BY <1>1, <3>1, <4>1 DEF StartOK, BeforeExec
      <4>3. Wake(script[t]) = [script[t] EXCEPT !.left = script[t].left - 1]
        BY <4>1 DEF Wake, Less
      <4>4. script[t].left - 1 \in 0..(KillTimeout + StartDelay + StartWait)
        BY <2>1, <4>1
      <4>5. Wake(script[t]) \in Script
        BY <2>1, <4>3, <4>4 DEF Script
      <4>6. StartOK(t)'
        BY <1>1, <2>1, <3>1, <4>1, <4>2, <4>3, <4>4
           DEF StartOK, BeforeExec, Guard, Running, Runs, Script
      <4>. QED
        BY <2>1, <2>3, <4>3, <4>5, <4>6 DEF ScriptOK, Script
    <3>. QED
      BY <3>2, <3>3
  <2>. QED
    BY <2>2, <2>3
<1>3. \A t \in Slots : script[t] = None => script'[t] = None
  BY <1>1
<1>4. TypeOK'
  <2>1. script' \in [Slots -> Script \cup {None}]
    BY <1>1, <1>2 DEF IInv, TypeOK
  <2>2. timer' \in 0..MonitTimeout
    BY <1>1 DEF IInv, TypeOK
  <2>. QED
    BY <1>1, <2>1, <2>2 DEF IInv, TypeOK
<1>5. JobIsRecorded'
  BY <1>1 DEF IInv, JobIsRecorded, Jobs
<1>6. OneOfEach'
  BY <1>2, <1>3 DEF IInv, OneOfEach
<1>7. StopExited' => StopExited
  BY <1>2 DEF StopExited
<1>8. MonitOK'
  BY <1>1, <1>7 DEF IInv, MonitOK
<1>9. \A t \in Slots : ScriptOK(t)'
  BY <1>2, <1>3 DEF ScriptOK
<1>. QED
  BY <1>4, <1>5, <1>6, <1>8, <1>9 DEF IInv

-----------------------------------------------------------------------------
(* Every step keeps the invariant, and what follows from it. *)

LEMMA StutterInv ==
    ASSUME IInv, UNCHANGED vars PROVE IInv'
  BY DEF IInv, TypeOK, JobIsRecorded, Jobs, OneOfEach, MonitOK, StopExited, ScriptOK,
         StartOK, StopOK, Running, Runs, vars

LEMMA NextInv ==
    ASSUME Assumed, IInv, [Next]_vars PROVE IInv'
<1>1. CASE Environment
  BY <1>1, MonitStartsInv, MonitStopsInv, OperatorStartsInv, MonitSeesInv, MonitGivesUpInv,
     ProcessEndsInv, OtherStartsInv, TickInv DEF Environment
<1>2. ASSUME NEW s \in Slots, PidUtilsStep(s) PROVE IInv'
  BY <1>2, GuardReadsInv, GuardProbesInv, GuardRemovesInv, WaitReadsInv, WaitProbesInv,
     WaitTerminatesInv, WaitLoopsInv, WaitCountsInv, WaitKillsInv, WaitRemovesInv
     DEF PidUtilsStep
<1>3. ASSUME NEW s \in Slots, CtlStep(s) PROVE IInv'
  BY <1>2, <1>3, SetupDoneInv, PidfileOpenedInv, PidfileWrittenInv, ExecsInv DEF CtlStep
<1>4. CASE UNCHANGED vars
  BY <1>4, StutterInv
<1>. QED
  BY <1>1, <1>3, <1>4 DEF Next

LEMMA IInvIsInvariant ==
    ASSUME Assumed PROVE Spec => []IInv
<1>1. Init => IInv
  BY InitIInv
<1>2. IInv /\ [Next]_vars => IInv'
  BY NextInv
<1>. QED
  BY <1>1, <1>2, PTL DEF Spec

\* Whatever the number of pids and scripts, if the times fit, pids are not
\* reused and monit waits for stop programs, the state is well typed.
THEOREM TypeCorrect ==
    ASSUME Assumed PROVE Spec => []TypeOK
<1>1. IInv => TypeOK
  BY DEF IInv
<1>. QED
  BY <1>1, IInvIsInvariant, PTL

\* The daemon that runs is the one whose pid is in the pidfile.
THEOREM DaemonIsRecorded ==
    ASSUME Assumed PROVE Spec => []JobIsRecorded
<1>1. IInv => JobIsRecorded
  BY DEF IInv
<1>. QED
  BY <1>1, IInvIsInvariant, PTL

\* pid_guard does keep the job from running twice.
THEOREM DaemonRunsOnce ==
    ASSUME Assumed PROVE Spec => []AtMostOneJob
<1>1. IInv => AtMostOneJob
  BY DEF IInv, JobIsRecorded, AtMostOneJob
<1>. QED
  BY <1>1, IInvIsInvariant, PTL

\* When monit is done with a stop, the daemon is gone and none is on its way.
THEOREM StopLeavesNothing ==
    ASSUME Assumed PROVE Spec => []StoppedMeansGone
<1>1. ASSUME IInv, mode = "stop", doing = "idle" PROVE StoppedMeansGone
  <2>1. ~Running
    BY <1>1 DEF IInv, MonitOK
  <2>2. Jobs = {}
    BY <1>1, <2>1 DEF IInv, JobIsRecorded, Jobs, Running, Runs, Role
  <2>3. \A s \in Slots : ~Launching(s)
    BY <1>1, <2>1, WhoRuns DEF Launching
  <2>. QED
    BY <2>2, <2>3 DEF StoppedMeansGone
<1>2. IInv => StoppedMeansGone
  BY <1>1 DEF StoppedMeansGone
<1>. QED
  BY <1>2, IInvIsInvariant, PTL
=============================================================================
