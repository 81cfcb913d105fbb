---------------------------- MODULE RepCtlProofs ----------------------------
(***************************************************************************)
(* Proofs about RepCtl, for any number of pids and slots and any times:    *)
(* while no script was abandoned, a daemon in the background is never lost *)
(* or doubled.                                                             *)
(*                                                                         *)
(* The argument: monit goes on only when the scripts it ran are over, so   *)
(* that a start whose daemon is neither recorded nor gone is the one monit *)
(* waits for.  The second pidfile has no owner; but a script whose daemon  *)
(* is gone uses it at once, and one whose daemon is late has slept before. *)
(***************************************************************************)
EXTENDS RepCtl, TLAPS

\* A start pings at least once, and pids that are in use are not given away.
Assumed == StartWait > 0 /\ ~Reuse

BeforeLaunch == Guard \cup {"setup", "launch"}
Pinging      == {"ping", "curl", "pingnap", "open", "write"}
Failing      == {"fail"} \cup Wait

\* Monit waits for a start that has slept, and nothing is in the pidfile.
Late == doing = "start" /\ timer >= 1 /\ file["pid"] = None

\* The daemon is gone, and no later start has slept yet.
Old(s) == ~Runs(script[s].child) /\ (doing = "start" => timer = 0)

\* A start script that has not launched its daemon.
LaunchOK(s) ==
    /\ script[s].pc \in BeforeLaunch
    /\ doing = "start" /\ ~Running
    /\ script[s].pc \in Guard => timer = 0
    /\ script[s].pc \in {"setup", "launch"} => file["pid"] = None

PingOK(s) ==
    script[s].pc \in Pinging =>
        /\ doing = "start" /\ ~Running
        /\ file["pid"] = IF script[s].pc = "write" THEN Empty ELSE None
        /\ script[s].pc \in {"ping", "curl", "pingnap"} =>
              timer + script[s].left >= StartWait

CheckOK(s) ==
    script[s].pc = "check" =>
        file["pid"] = script[s].child \/ Late \/ Old(s)

\* A daemon that is late is killed through the other pidfile.
KillsLate(s) ==
    /\ Late
    /\ script[s].pc \in Wait => file["fail"] = script[s].child
    /\ script[s].pc \in Wait \ {"wait"} => script[s].target = script[s].child
    /\ script[s].pc \in {"settle", "rm"} => ~Runs(script[s].child)

\* A daemon that is gone is not killed, nor anything else.
KillsNothing(s) ==
    /\ Old(s)
    /\ script[s].pc \in {"fail", "wait", "alive", "rm"}
    /\ script[s].pc = "alive" => script[s].target \in Pids /\ ~Runs(script[s].target)

FailOK(s) ==
    script[s].pc \in Failing =>
        /\ script[s].pc \in Wait => script[s].file = "fail"
        /\ KillsLate(s) \/ KillsNothing(s)

\* A start script that has launched its daemon.
LaunchedOK(s) ==
    /\ script[s].child \in Pids /\ proc[script[s].child] \in {None, "job", "up"}
    /\ script[s].pc \in Pinging \cup {"check", "child"} \cup Failing
    /\ PingOK(s) /\ CheckOK(s) /\ FailOK(s)
    /\ script[s].pc = "child" => file["pid"] = script[s].child \/ ~Runs(script[s].child)

StartOK(s) ==
    /\ script[s].self \in Pids /\ proc[script[s].self] = "start"
    /\ IF script[s].child = None THEN LaunchOK(s) ELSE LaunchedOK(s)

\* A stop script.
StopOK(s) ==
    /\ doing = "stop" /\ script[s].child = None
    /\ script[s].pc \in Wait /\ script[s].file = "pid"
    /\ script[s].pc # "wait" => script[s].target \in Pids /\ script[s].target = file["pid"]
    /\ script[s].pc \in {"settle", "rm"} => ~Running

ScriptOK(s) ==
    script[s] # None => IF script[s].self = None THEN StopOK(s) ELSE StartOK(s)

\* The start that monit waits for.
Current(s) ==
    /\ script[s] # None /\ script[s].self # None
    /\ \/ script[s].child = None
       \/ script[s].pc \in Pinging
       \/ script[s].pc \in Failing \cup {"check"} /\ Late

OneCurrent == \A s, t \in Slots : Current(s) /\ Current(t) => s = t

OneProcess ==
    \A s, t \in Slots :
        script[s] # None /\ script[t] # None /\ script[s].self = script[t].self => s = t

\* What runs under the pid in a pidfile is a daemon; in the second one it is
\* that of a start that is late.
FilesOK ==
    /\ \A f \in Files : Runs(file[f]) => proc[file[f]] \in {"job", "up"}
    /\ Runs(file["fail"]) =>
          \E s \in Slots : /\ script[s] # None /\ script[s].pc \in Wait
                           /\ script[s].child = file["fail"] /\ Late

MonitOK ==
    /\ doing = "stop" => mode = "stop"
    /\ doing = "start" => mode = "run"
    /\ doing = "stop" /\ StopExited => ~Running
    /\ mode = "stop" /\ doing = "idle" => ~Running

IInv ==
    /\ TypeOK /\ JobIsAccounted /\ OneCurrent /\ OneProcess /\ FilesOK /\ MonitOK
    /\ \A s \in Slots : ScriptOK(s)

USE TimesAssumption, FlagsAssumption, FilesAssumption, MarkersAssumption, WaitsAssumption,
    FailFileAssumption
-----------------------------------------------------------------------------
(* Facts about single states and single steps of a script or process. *)

LEMMA ScriptFields ==
    ASSUME TypeOK, NEW s \in Slots, script[s] # None
    PROVE  /\ script[s] \in Script
           /\ script[s].self \in Pids \cup {None}
           /\ script[s].child \in Pids \cup {None}
           /\ script[s].left \in Nat /\ timer \in Nat
           /\ script[s].pc \in Guard \cup Own \cup Wait
  BY DEF TypeOK, Script

LEMMA InitIInv == ASSUME Init PROVE IInv
  BY DEF Init, IInv, TypeOK, JobIsAccounted, Jobs, OneCurrent, OneProcess, FilesOK, MonitOK,
         ScriptOK, Current, Running, Runs, StopExited, Role

\* While the start that monit waits for goes on, nothing runs under the pid in
\* the pidfile.
LEMMA CurrentIsAlone ==
    ASSUME IInv, NEW s \in Slots, Current(s)
    PROVE  /\ doing = "start" /\ ~Running /\ StartOK(s)
           /\ \A t \in Slots : script[t] # None =>
                 script[t].self # None /\ StartOK(t) /\ (t # s => ~Current(t))
<1>1. script[s] # None /\ script[s].self # None /\ StartOK(s)
  BY DEF IInv, ScriptOK, Current
<1>2. Late => ~Running
  BY DEF Late, Running, Runs
<1>3. doing = "start" /\ ~Running
  BY <1>1, <1>2 DEF StartOK, LaunchOK, LaunchedOK, PingOK, Current, Late
<1>. QED
  BY <1>1, <1>3 DEF IInv, ScriptOK, StopOK, OneCurrent

\* Any other start script only has a daemon that is recorded or gone.
LEMMA OtherIsOver ==
    ASSUME IInv, NEW s \in Slots, script[s] # None, script[s].self # None, ~Current(s)
    PROVE  /\ StartOK(s) /\ LaunchedOK(s) /\ script[s].child \in Pids
           /\ script[s].pc \in {"check", "child", "fail", "wait", "alive", "rm"}
           /\ script[s].pc = "check" => file["pid"] = script[s].child \/ Old(s)
           /\ script[s].pc \in Failing => KillsNothing(s)
           /\ file["pid"] = script[s].child \/ ~Runs(script[s].child)
  BY DEF IInv, ScriptOK, StartOK, LaunchedOK, CheckOK, FailOK, KillsLate, KillsNothing, Old,
         Current, Failing, Pinging

\* What may happen to the process p while script s does not move: it ends, it
\* is a daemon that comes up, or a new one under a pid that the pidfile and the
\* script do not name.
Mild(s, p) ==
    \/ proc'[p] = proc[p]
    \/ proc'[p] = None /\ (script[s] # None => script[s].self # p)
    \/ proc[p] \in {"job", "up"} /\ proc'[p] \in {"job", "up"}
    \/ /\ proc[p] = None /\ file["pid"] # p
       /\ script[s] # None => p \notin {script[s].child, script[s].target}

\* A script that does not move is not disturbed by that, nor by a change of
\* the second pidfile unless its daemon is late.
LEMMA Undisturbed ==
    ASSUME IInv, NEW s \in Slots, ScriptOK(s), script'[s] = script[s],
           file'["pid"] = file["pid"], UNCHANGED <<doing, timer>>,
           file'["fail"] = file["fail"] \/ ~Late \/ ~Current(s),
           \A p \in Pids : Mild(s, p)
    PROVE  ScriptOK(s)' /\ (Current(s)' <=> Current(s))
<1>1. /\ Current(s)' <=> Current(s)
      /\ Late' <=> Late
  BY DEF Current, Late
<1>. SUFFICES ASSUME script[s] # None PROVE ScriptOK(s)'
  BY <1>1 DEF ScriptOK
<1>2. ~Running => ~Running'
  BY DEF Running, Runs, Mild, Role
<1>3. /\ ~Runs(script[s].child) => ~Runs(script[s].child)'
      /\ ~Runs(script[s].target) => ~Runs(script[s].target)'
  BY DEF Runs, Mild, Role
<1>4. CASE script[s].self = None
  BY <1>2, <1>4 DEF ScriptOK, StopOK
<1>5. CASE script[s].self # None
  <2>1. StartOK(s)
    BY <1>5 DEF ScriptOK
  <2>2. script'[s].self \in Pids /\ proc'[script'[s].self] = "start"
    BY <2>1 DEF StartOK, Mild, Role
  <2>3. LaunchOK(s) => LaunchOK(s)'
    BY <1>2 DEF LaunchOK
  <2>4. ASSUME LaunchedOK(s) PROVE LaunchedOK(s)'
    <3>1. proc'[script[s].child] \in {None, "job", "up"} /\ script[s].child \in Pids
      BY <2>4 DEF LaunchedOK, Mild, Role
    <3>2. PingOK(s)'
      BY <2>4, <1>2 DEF LaunchedOK, PingOK
    <3>3. CheckOK(s)'
      BY <2>4, <1>1, <1>3 DEF LaunchedOK, CheckOK, Old
    <3>4. FailOK(s)'
      <4>1. script[s].pc \in Failing /\ KillsLate(s) => Current(s)
        BY <1>5 DEF Current, KillsLate
      <4>2. script[s].pc \in Failing /\ KillsLate(s) => KillsLate(s)'
        BY <1>1, <1>3, <4>1 DEF KillsLate
      <4>. QED
        BY <2>4, <1>1, <1>3, <4>2 DEF LaunchedOK, FailOK, KillsNothing, Old
    <3>. QED
      BY <2>4, <1>3, <3>1, <3>2, <3>3, <3>4 DEF LaunchedOK
  <2>. QED
    BY <1>5, <2>1, <2>2, <2>3, <2>4 DEF ScriptOK, StartOK
<1>. QED
  BY <1>4, <1>5


\* A start script that is over is not disturbed by the next start or stop
\* either, which can remove the pidfile only when its daemon is gone.
LEMMA OverStaysOver ==
    ASSUME IInv, NEW s \in Slots, script[s] # None, script[s].self # None, ~Current(s),
           script'[s] = script[s], \A p \in Pids : Mild(s, p),
           file'["pid"] = file["pid"] \/ ~Running,
           \/ doing' = "start" => timer' = 0
           \/ UNCHANGED <<doing, timer>> /\ file["pid"] \notin Pids /\ file'["pid"] # None
    PROVE  ScriptOK(s)' /\ ~Current(s)'
<1>1. /\ script[s].self \in Pids /\ proc[script[s].self] = "start"
      /\ LaunchedOK(s) /\ script[s].child \in Pids
      /\ script[s].pc \in {"check", "child", "fail", "wait", "alive", "rm"}
      /\ script[s].pc = "check" => file["pid"] = script[s].child \/ Old(s)
      /\ script[s].pc \in Failing => KillsNothing(s)
      /\ file["pid"] = script[s].child \/ ~Runs(script[s].child)
  BY OtherIsOver DEF StartOK
<1>2. /\ ~Runs(script[s].child) => ~Runs(script[s].child)'
      /\ ~Runs(script[s].target) => ~Runs(script[s].target)'
  BY DEF Runs, Mild, Role
<1>3. /\ proc'[script[s].self] = "start"
      /\ proc'[script[s].child] \in {None, "job", "up"}
  BY <1>1 DEF LaunchedOK, Mild, Role
<1>4. file'["pid"] = script[s].child \/ ~Runs(script[s].child)'
  BY <1>1, <1>2 DEF Running
<1>5. Old(s) => Old(s)'
  BY <1>2 DEF Old
<1>6. CheckOK(s)'
  <2>1. file["pid"] = script[s].child => file'["pid"] = script[s].child \/ Old(s)'
    BY <1>1, <1>4 DEF Old
  <2>. QED
    BY <1>1, <1>5, <2>1 DEF CheckOK
<1>7. FailOK(s)'
  BY <1>1, <1>2, <1>5 DEF LaunchedOK, FailOK, KillsNothing
<1>8. LaunchedOK(s)'
  BY <1>1, <1>3, <1>4, <1>6, <1>7 DEF LaunchedOK, PingOK, Pinging
<1>9. ~Late'
  BY DEF Late, IInv, TypeOK
<1>10. ~Current(s)'
  BY <1>1, <1>9 DEF Current, Pinging
<1>. QED
  BY <1>1, <1>3, <1>8, <1>10 DEF ScriptOK, StartOK

\* The second pidfile is changed by a script whose daemon is late, which is
\* the only one, or when no daemon is late.
LEMMA FailFileIsFree ==
    ASSUME IInv, NEW s \in Slots, script[s] # None, script[s].self # None,
           script[s].pc \in Failing, NEW t \in Slots, t # s
    PROVE  ~Late \/ ~Current(t)
<1>1. CASE Current(s)
  BY <1>1 DEF IInv, OneCurrent
<1>2. CASE ~Current(s)
  BY <1>2, OtherIsOver DEF KillsNothing, Old, Late
<1>. QED
  BY <1>1, <1>2

\* Script s goes on as r; it may write to the second pidfile, and kill a
\* process that is not a script.
LEMMA GoesOn ==
    ASSUME IInv, NEW s \in Slots, script[s] # None,
           NEW r \in Script, r.self = script[s].self, r.child = script[s].child,
           script' = [script EXCEPT ![s] = r], UNCHANGED monit,
           \/ file' = file
           \/ /\ file' = [file EXCEPT !["fail"] = r.child]
              /\ r.self # None /\ script[s].pc = "fail" /\ r.pc = "wait",
           proc' \in [Pids -> Role \cup {None}],
           \A p \in Pids :
              \/ proc'[p] = proc[p]
              \/ proc'[p] = None /\ \A t \in Slots : script[t] # None => script[t].self # p,
           ScriptOK(s)', Current(s)' => Current(s), script[s].pc \in Wait => r.pc \in Wait
    PROVE  IInv'
<1>1. r # None /\ script[s] \in Script
  BY ScriptFields DEF IInv
<1>2. script'[s] = r /\ \A t \in Slots : t # s => script'[t] = script[t]
  BY DEF IInv, TypeOK
<1>3. TypeOK'
  BY <1>1 DEF IInv, TypeOK, Script, monit
<1>4. file'["pid"] = file["pid"] /\ \A p \in Pids : Runs(p)' => Runs(p) /\ proc'[p] = proc[p]
  BY DEF IInv, TypeOK, Runs
<1>5. \A t \in Slots : t # s => ScriptOK(t)' /\ (Current(t)' <=> Current(t))
  <2>. SUFFICES ASSUME NEW t \in Slots, t # s
                PROVE  ScriptOK(t)' /\ (Current(t)' <=> Current(t))
    OBVIOUS
  <2>1. file'["fail"] = file["fail"] \/ ~Late \/ ~Current(t)
    BY FailFileIsFree DEF Failing
  <2>2. \A p \in Pids : Mild(t, p)
    BY DEF Mild
  <2>. QED
    BY <1>2, <1>4, <2>1, <2>2, Undisturbed DEF IInv, monit
<1>6. OneCurrent' /\ OneProcess'
  BY <1>1, <1>2, <1>5 DEF IInv, OneCurrent, OneProcess
<1>7. MonitOK'
  BY <1>1, <1>2, <1>4 DEF IInv, MonitOK, StopExited, Running, Runs, monit
<1>8. r.child \in Pids => StartOK(s)' /\ LaunchedOK(s)'
  BY <1>1, <1>2 DEF ScriptOK, StopOK, StartOK
<1>9. FilesOK'
  <2>1. \A f \in Files : file'[f] \in {file[f], r.child}
    BY DEF IInv, TypeOK
  <2>2. Runs(r.child)' => proc'[r.child] \in {"job", "up"}
    BY <1>2, <1>8 DEF LaunchedOK, Runs
  <2>3. \A f \in Files : Runs(file[f])' => proc'[file'[f]] \in {"job", "up"}
    BY <2>1, <2>2, <1>4 DEF IInv, FilesOK, Runs
  <2>4. ASSUME Runs(file["fail"])', file' = file
        PROVE  \E t \in Slots : /\ script'[t] # None /\ script'[t].pc \in Wait
                                /\ script'[t].child = file'["fail"] /\ Late'
    <3>1. Runs(file["fail"])
      BY <2>4, <1>4 DEF Runs
    <3>2. PICK t \in Slots : /\ script[t] # None /\ script[t].pc \in Wait
                             /\ script[t].child = file["fail"] /\ Late
      BY <3>1 DEF IInv, FilesOK
    <3>. QED
      BY <2>4, <3>2, <1>1, <1>2 DEF Late, monit
  <2>5. ASSUME Runs(file["fail"])', file' = [file EXCEPT !["fail"] = r.child],
               script[s].pc = "fail", r.pc = "wait"
        PROVE  /\ script'[s] # None /\ script'[s].pc \in Wait
               /\ script'[s].child = file'["fail"] /\ Late'
    <3>1. file'["fail"] = r.child /\ r.child \in Pids /\ Runs(r.child)'
      BY <2>5 DEF IInv, TypeOK, Runs
    <3>2. KillsLate(s)' \/ KillsNothing(s)'
      BY <2>5, <3>1, <1>2, <1>8 DEF LaunchedOK, FailOK, Failing, Wait
    <3>3. Late'
      BY <3>1, <3>2, <1>2 DEF KillsLate, KillsNothing, Old
    <3>. QED
      BY <2>5, <3>1, <3>3, <1>1, <1>2 DEF Wait
  <2>. QED
    BY <2>3, <2>4, <2>5 DEF FilesOK
<1>10. JobIsAccounted'
  <2>1. r.pc = "child" /\ r.child \in Pids =>
           file'["pid"] = r.child \/ ~Runs(r.child)'
    BY <1>2, <1>8 DEF LaunchedOK
  <2>2. SUFFICES ASSUME NEW p \in Pids, p \in Jobs', file["pid"] # p
                 PROVE  \E t \in Slots : /\ script'[t] # None /\ script'[t].child = p
                                         /\ script'[t].pc # "child"
    BY <1>4 DEF JobIsAccounted, Jobs, At
  <2>3. Runs(p)' /\ p \in Jobs
    BY <2>2, <1>4 DEF Jobs, Runs, Role
  <2>4. PICK t \in Slots : script[t] # None /\ script[t].child = p /\ ~At(t, "child")
    BY <2>2, <2>3 DEF IInv, JobIsAccounted
  <2>. QED
    BY <1>1, <1>2, <1>4, <2>1, <2>2, <2>3, <2>4 DEF At
<1>. QED
  BY <1>2, <1>3, <1>5, <1>6, <1>7, <1>9, <1>10 DEF IInv

\* A process ends, and the script it may be with it, unless that has a daemon
\* that lives and is not recorded; a script that ends may remove the second
\* pidfile.
LEMMA Ends ==
    ASSUME IInv, NEW p \in Pids, End(p), UNCHANGED monit,
           \A t \in Slots : script[t] # None /\ script[t].self = p =>
              ~Runs(script[t].child) \/ Recorded(t),
           \/ file' = file
           \/ /\ file' = [file EXCEPT !["fail"] = None]
              /\ \E t \in Slots : /\ script[t] # None /\ script[t].self = p
                                  /\ script[t].pc \in Failing
    PROVE  IInv'
<1>1. /\ proc' = [proc EXCEPT ![p] = None]
      /\ \A q \in Pids : proc'[q] # None => q # p /\ proc'[q] = proc[q]
      /\ file'["pid"] = file["pid"]
  BY DEF IInv, TypeOK, End
<1>2. \A t \in Slots :
         script'[t] = IF script[t] # None /\ script[t].self = p THEN None ELSE script[t]
  BY DEF End, WithoutScriptOf
<1>3. TypeOK'
  BY <1>1 DEF IInv, TypeOK, End, WithoutScriptOf, monit
<1>4. ASSUME NEW t \in Slots, script'[t] # None
      PROVE  /\ script'[t] = script[t] /\ script[t].self # p
             /\ ScriptOK(t)' /\ (Current(t)' <=> Current(t))
  <2>1. script'[t] = script[t] /\ script[t].self # p
    BY <1>2, <1>4
  <2>2. \A q \in Pids : Mild(t, q)
    BY <1>1, <2>1 DEF Mild, IInv, TypeOK
  <2>3. file'["fail"] = file["fail"] \/ ~Late \/ ~Current(t)
    BY <2>1, FailFileIsFree
  <2>. QED
    BY <1>1, <2>1, <2>2, <2>3, Undisturbed DEF IInv, monit
<1>5. OneCurrent' /\ OneProcess'
  BY <1>4 DEF IInv, OneCurrent, OneProcess, Current
<1>6. Running' => Running
  BY <1>1 DEF Running, Runs
<1>7. StopExited' => StopExited
  BY <1>2 DEF StopExited
<1>8. MonitOK'
  BY <1>6, <1>7 DEF IInv, MonitOK, monit
<1>9. FilesOK'
  <2>1. \A f \in Files : file'[f] \in {file[f], None}
    BY DEF IInv, TypeOK
  <2>2. \A f \in Files : Runs(file[f])' => proc'[file'[f]] \in {"job", "up"}
    BY <2>1, <1>1 DEF IInv, FilesOK, Runs
  <2>3. ASSUME Runs(file["fail"])'
        PROVE  \E t \in Slots : /\ script'[t] # None /\ script'[t].pc \in Wait
                                /\ script'[t].child = file'["fail"] /\ Late'
    <3>1. file'["fail"] = file["fail"] /\ Runs(file["fail"])
      BY <2>1, <2>3, <1>1 DEF Runs
    <3>2. PICK t \in Slots : /\ script[t] # None /\ script[t].pc \in Wait
                             /\ script[t].child = file["fail"] /\ Late
      BY <3>1 DEF IInv, FilesOK
    <3>3. script[t].self # p
      BY <3>1, <3>2 DEF Late, Recorded, Runs
    <3>. QED
      BY <1>1, <1>2, <3>1, <3>2, <3>3 DEF Late, monit
  <2>. QED
    BY <2>2, <2>3 DEF FilesOK
<1>10. JobIsAccounted'
  <2>. SUFFICES ASSUME NEW q \in Pids, q \in Jobs', file["pid"] # q
                PROVE  \E t \in Slots : /\ script'[t] # None /\ script'[t].child = q
                                        /\ script'[t].pc # "child"
    BY <1>1 DEF JobIsAccounted, Jobs, At
  <2>1. Runs(q) /\ q \in Jobs
    BY <1>1 DEF Jobs, Runs, Role
  <2>2. PICK t \in Slots : script[t] # None /\ script[t].child = q /\ ~At(t, "child")
    BY <2>1 DEF IInv, JobIsAccounted
  <2>3. script[t].self # p
    BY <2>1, <2>2 DEF Recorded
  <2>. QED
    BY <1>2, <2>2, <2>3 DEF At
<1>11. \A t \in Slots : ScriptOK(t)'
  BY <1>4 DEF ScriptOK
<1>. QED
  BY <1>3, <1>5, <1>8, <1>9, <1>10, <1>11 DEF IInv

\* A start script whose daemon is gone ends.
LEMMA StartExits ==
    ASSUME IInv, NEW s \in Slots, script[s] # None, script[s].self # None, Exit(s),
           UNCHANGED monit, ~Runs(script[s].child),
           \/ file' = file
           \/ file' = [file EXCEPT !["fail"] = None] /\ script[s].pc \in Failing
    PROVE  IInv'
<1>1. script[s].self \in Pids
  BY ScriptFields DEF IInv
<1>2. WithoutScriptOf(script[s].self) = [script EXCEPT ![s] = None]
  BY DEF WithoutScriptOf, IInv, TypeOK, OneProcess
<1>3. End(script[s].self)
  BY <1>1, <1>2 DEF Exit, End
<1>. QED
  BY <1>1, <1>3, Ends DEF IInv, OneProcess

\* A stop script ends, with the pidfile or without it.
LEMMA StopExits ==
    ASSUME IInv, NEW s \in Slots, script[s] # None, script[s].self = None, Exit(s),
           UNCHANGED monit, ~Running,
           file' = file \/ file' = [file EXCEPT !["pid"] = None]
    PROVE  IInv'
<1>1. doing = "stop" /\ mode = "stop"
  BY DEF IInv, ScriptOK, StopOK, MonitOK
<1>2. /\ proc' = proc /\ ~Running' /\ script' = [script EXCEPT ![s] = None]
      /\ \A f \in Files : file'[f] # file[f] => f = "pid" /\ file'[f] = None
  BY DEF Exit, Running, Runs, IInv, TypeOK
<1>3. \A t \in Slots : script'[t] # None => t # s /\ script'[t] = script[t]
  BY <1>2 DEF IInv, TypeOK
<1>4. TypeOK'
  BY <1>2 DEF IInv, TypeOK, monit
<1>5. ASSUME NEW t \in Slots, script'[t] # None
      PROVE  ScriptOK(t)' /\ ~Current(t)' /\ script[t].self # None
  <2>1. script[t].self # None /\ ~Current(t)
    BY <1>1, <1>3, <1>5, CurrentIsAlone DEF IInv, OneProcess
  <2>2. \A p \in Pids : Mild(t, p)
    BY <1>2 DEF Mild
  <2>3. doing' = "start" => timer' = 0
    BY <1>1 DEF monit
  <2>. QED
    BY <1>3, <1>5, <2>1, <2>2, <2>3, OverStaysOver
<1>6. OneCurrent' /\ OneProcess' /\ MonitOK'
  BY <1>1, <1>2, <1>3, <1>5 DEF IInv, OneCurrent, OneProcess, Current, MonitOK, monit
<1>7. ~Runs(file["fail"])
  BY <1>1 DEF IInv, FilesOK, Late
<1>8. FilesOK'
  BY <1>2, <1>7 DEF IInv, FilesOK, Runs
<1>9. JobIsAccounted'
  <2>. SUFFICES ASSUME NEW p \in Jobs
                PROVE  \E t \in Slots : /\ script'[t] # None /\ script'[t].child = p
                                        /\ script'[t].pc # "child"
    BY <1>2 DEF JobIsAccounted, Jobs, At
  <2>1. p \in Pids /\ file["pid"] # p
    BY DEF Jobs, Running, Runs, Role
  <2>2. PICK t \in Slots : script[t] # None /\ script[t].child = p /\ ~At(t, "child")
    BY <2>1 DEF IInv, JobIsAccounted
  <2>3. t # s
    BY <2>1, <2>2 DEF IInv, ScriptOK, StopOK
  <2>. QED
    BY <1>2, <2>2, <2>3 DEF At, IInv, TypeOK
<1>10. \A t \in Slots : ScriptOK(t)'
  BY <1>5 DEF ScriptOK
<1>. QED
  BY <1>4, <1>6, <1>8, <1>9, <1>10 DEF IInv

\* The start that monit waits for goes on as r and changes the pidfile.
LEMMA StartWrites ==
    ASSUME IInv, NEW s \in Slots, Current(s), script[s].pc \in BeforeLaunch \cup Pinging,
           NEW r \in Script, r.self = script[s].self, r.child = script[s].child,
           r.pc # "child",
           NEW c \in {None, Empty, r.child},
           timer = 0 \/ (file["pid"] \notin Pids /\ c # None),
           script' = [script EXCEPT ![s] = r], file' = [file EXCEPT !["pid"] = c],
           UNCHANGED <<proc, monit>>,
           ScriptOK(s)'
    PROVE  IInv'
<1>1. /\ doing = "start" /\ mode = "run" /\ ~Running
      /\ \A t \in Slots : t # s /\ script[t] # None => script[t].self # None /\ ~Current(t)
  BY CurrentIsAlone DEF IInv, MonitOK
<1>2. /\ script[s] # None /\ script[s].self # None /\ r # None
      /\ script'[s] = r /\ \A t \in Slots : t # s => script'[t] = script[t]
  BY DEF Current, IInv, TypeOK
<1>3. TypeOK'
  BY ScriptFields, <1>2 DEF IInv, TypeOK, Script, monit
<1>4. file'["pid"] = c /\ \A f \in Files : f # "pid" => file'[f] = file[f]
  BY DEF IInv, TypeOK
<1>5. ASSUME NEW t \in Slots, t # s, script[t] # None PROVE ScriptOK(t)' /\ ~Current(t)'
  <2>1. \A p \in Pids : Mild(t, p)
    BY DEF Mild
  <2>2. \/ doing' = "start" => timer' = 0
        \/ UNCHANGED <<doing, timer>> /\ file["pid"] \notin Pids /\ file'["pid"] # None
    BY <1>4 DEF monit
  <2>. QED
    BY <1>1, <1>2, <1>5, <2>1, <2>2, OverStaysOver
<1>6. OneCurrent' /\ OneProcess' /\ MonitOK'
  BY <1>1, <1>2, <1>5 DEF IInv, OneCurrent, OneProcess, Current, MonitOK, monit
<1>7. c \in Pids => proc[c] \in {None, "job", "up"}
  <2>1. c \in Pids => c = r.child /\ r.self # None
    BY <1>2
  <2>2. c \in Pids => LaunchedOK(s)'
    BY <1>2, <2>1 DEF ScriptOK, StartOK
  <2>. QED
    BY <1>2, <2>1, <2>2 DEF LaunchedOK
<1>8. ~Runs(file["fail"])
  <2>. SUFFICES ASSUME Runs(file["fail"]) PROVE FALSE
    OBVIOUS
  <2>1. PICK t \in Slots : /\ script[t] # None /\ script[t].pc \in Wait
                           /\ script[t].child = file["fail"] /\ Late
    BY DEF IInv, FilesOK
  <2>2. Current(t)
    BY <2>1, <1>1, <1>2 DEF Current, Failing
  <2>3. t = s
    BY <1>1, <2>1, <2>2
  <2>. QED
    BY <2>1, <2>3 DEF BeforeLaunch, Guard, Pinging, Wait
<1>9. FilesOK'
  BY <1>4, <1>7, <1>8 DEF IInv, FilesOK, Runs
<1>10. JobIsAccounted'
  <2>. SUFFICES ASSUME NEW p \in Jobs
                PROVE  \E t \in Slots : /\ script'[t] # None /\ script'[t].child = p
                                        /\ script'[t].pc # "child"
    BY DEF JobIsAccounted, Jobs, At
  <2>1. p \in Pids /\ file["pid"] # p
    BY <1>1 DEF Jobs, Running, Runs, Role
  <2>2. PICK t \in Slots : script[t] # None /\ script[t].child = p /\ ~At(t, "child")
    BY <2>1 DEF IInv, JobIsAccounted
  <2>. QED
    BY <1>2, <2>2 DEF At
<1>11. \A t \in Slots : ScriptOK(t)'
  BY <1>2, <1>5 DEF ScriptOK
<1>. QED
  BY <1>3, <1>6, <1>9, <1>10, <1>11 DEF IInv

-----------------------------------------------------------------------------
(* The steps of pid_guard. *)

LEMMA AtGuard ==
    ASSUME IInv, NEW s \in Slots, script[s] # None, script[s].pc \in BeforeLaunch
    PROVE  /\ script[s] \in Script /\ script[s].self \in Pids /\ script[s].child = None
           /\ StartOK(s) /\ LaunchOK(s) /\ Current(s)
           /\ script[s].left \in Nat /\ timer \in Nat
<1>1. script[s] \in Script /\ script[s].left \in Nat /\ timer \in Nat
  BY ScriptFields DEF IInv
<1>2. script[s].self # None /\ StartOK(s)
  BY DEF IInv, ScriptOK, StopOK, BeforeLaunch, Guard, Wait
<1>3. script[s].child = None
  BY <1>2 DEF StartOK, LaunchedOK, BeforeLaunch, Guard, Pinging, Failing, Wait
<1>. QED
  BY <1>1, <1>2, <1>3 DEF StartOK, Current

LEMMA GuardReadsInv ==
    ASSUME Assumed, IInv, NEW s \in Slots, GuardReads(s) PROVE IInv'
<1>. DEFINE r == IF file["pid"] = None THEN [script[s] EXCEPT !.pc = "setup"]
                 ELSE [script[s] EXCEPT !.pc = "probe", !.target = file["pid"]]
<1>1. script[s] # None /\ script[s].pc = "guard" /\ script[s].pc \in BeforeLaunch
  BY DEF GuardReads, At, BeforeLaunch, Guard
<1>2. /\ script[s] \in Script /\ script[s].self \in Pids /\ script[s].child = None
      /\ StartOK(s) /\ LaunchOK(s) /\ Current(s)
  BY <1>1, AtGuard
<1>3. script' = [script EXCEPT ![s] = r] /\ UNCHANGED <<proc, file, monit>>
  BY DEF GuardReads, Go
<1>4. /\ r \in Script /\ r.self = script[s].self /\ r.child = None /\ r # None
      /\ r.pc = IF file["pid"] = None THEN "setup" ELSE "probe"
      /\ r.left = script[s].left
  <2>1. file["pid"] \in Pids \cup {None, Empty}
    BY DEF IInv, TypeOK
  <2>2. r \in Script
    <3>1. CASE file["pid"] = None
      BY <1>2, <2>1, <3>1 DEF Script, Own
    <3>2. CASE file["pid"] # None
      BY <1>2, <2>1, <3>2 DEF Script, Guard
    <3>. QED
      BY <3>1, <3>2
  <2>3. /\ r.self = script[s].self /\ r.child = None /\ r.left = script[s].left
        /\ r.pc = IF file["pid"] = None THEN "setup" ELSE "probe"
    BY <1>2 DEF Script
  <2>. QED
    BY <2>2, <2>3
<1>. HIDE DEF r
<1>5. ScriptOK(s)'
  BY <1>1, <1>2, <1>3, <1>4
     DEF ScriptOK, StartOK, LaunchOK, BeforeLaunch, Guard, Running, Runs, IInv, TypeOK, monit
<1>. QED
  BY <1>1, <1>2, <1>3, <1>4, <1>5, GoesOn DEF IInv, TypeOK, Wait

LEMMA GuardProbesInv ==
    ASSUME Assumed, IInv, NEW s \in Slots, GuardProbes(s) PROVE IInv'
<1>1. script[s] # None /\ script[s].pc = "probe" /\ script[s].pc \in BeforeLaunch
  BY DEF GuardProbes, At, BeforeLaunch, Guard
<1>2. /\ script[s] \in Script /\ script[s].self \in Pids /\ script[s].child = None
      /\ StartOK(s) /\ LaunchOK(s) /\ Current(s)
  BY <1>1, AtGuard
<1>3. CASE StillRuns(s)
  BY <1>1, <1>2, <1>3, StartExits DEF GuardProbes, Runs
<1>4. CASE ~StillRuns(s)
  <2>. DEFINE r == [script[s] EXCEPT !.pc = "unlink"]
  <2>1. script' = [script EXCEPT ![s] = r] /\ UNCHANGED <<proc, file, monit>>
    BY <1>4 DEF GuardProbes, Go
  <2>2. /\ r \in Script /\ r.self = script[s].self /\ r.child = None /\ r # None
        /\ r.pc = "unlink" /\ r.left = script[s].left
    BY <1>2 DEF Script, Guard
  <2>. HIDE DEF r
  <2>3. ScriptOK(s)'
    BY <1>1, <1>2, <2>1, <2>2
       DEF ScriptOK, StartOK, LaunchOK, BeforeLaunch, Guard, Running, Runs, IInv, TypeOK, monit
  <2>. QED
    BY <1>1, <1>2, <2>1, <2>2, <2>3, GoesOn DEF IInv, TypeOK, Wait
<1>. QED
  BY <1>3, <1>4

LEMMA GuardRemovesInv ==
    ASSUME Assumed, IInv, NEW s \in Slots, GuardRemoves(s) PROVE IInv'
<1>1. script[s] # None /\ script[s].pc = "unlink" /\ script[s].pc \in BeforeLaunch
  BY DEF GuardRemoves, At, BeforeLaunch, Guard
<1>2. /\ script[s] \in Script /\ script[s].self \in Pids /\ script[s].child = None
      /\ StartOK(s) /\ LaunchOK(s) /\ Current(s) /\ timer = 0
  BY <1>1, AtGuard DEF LaunchOK, Guard
<1>3. CASE file["pid"] = None /\ Strict(s)
  BY <1>1, <1>2, <1>3, StartExits DEF GuardRemoves, Runs, IInv, TypeOK
<1>4. CASE ~(file["pid"] = None /\ Strict(s))
  <2>. DEFINE r == [script[s] EXCEPT !.pc = "setup"]
  <2>1. /\ script' = [script EXCEPT ![s] = r] /\ file' = [file EXCEPT !["pid"] = None]
        /\ UNCHANGED <<proc, monit>>
    BY <1>4 DEF GuardRemoves, Go
  <2>2. /\ r \in Script /\ r.self = script[s].self /\ r.child = None /\ r # None
        /\ r.pc = "setup" /\ r.left = script[s].left
    BY <1>2 DEF Script, Own
  <2>. HIDE DEF r
  <2>3. ScriptOK(s)'
    BY <1>1, <1>2, <2>1, <2>2
       DEF ScriptOK, StartOK, LaunchOK, BeforeLaunch, Guard, Running, Runs, IInv, TypeOK, monit
  <2>4. None \in {None, Empty, r.child} /\ r.pc # "child"
    BY <2>2
  <2>. QED
    BY <1>1, <1>2, <2>1, <2>2, <2>3, <2>4, StartWrites
<1>. QED
  BY <1>3, <1>4

-----------------------------------------------------------------------------
(* The steps of kill_and_wait, for a stop or for a daemon that is late. *)

LEMMA AtWait ==
    ASSUME IInv, NEW s \in Slots, script[s] # None, script[s].pc \in Wait
    PROVE  /\ script[s] \in Script /\ script[s].left \in Nat /\ timer \in Nat
           /\ script[s].self = None => script[s].child = None /\ StopOK(s)
           /\ script[s].self # None =>
                 /\ script[s].self \in Pids /\ script[s].child \in Pids
                 /\ StartOK(s) /\ LaunchedOK(s) /\ FailOK(s) /\ script[s].file = "fail"
                 /\ KillsLate(s) \/ KillsNothing(s)
<1>1. script[s] \in Script /\ script[s].left \in Nat /\ timer \in Nat
  BY ScriptFields DEF IInv
<1>2. script[s].self = None => script[s].child = None /\ StopOK(s)
  BY DEF IInv, ScriptOK, StopOK
<1>3. ASSUME script[s].self # None PROVE StartOK(s) /\ LaunchedOK(s)
  BY <1>3 DEF IInv, ScriptOK, StartOK, LaunchOK, BeforeLaunch, Guard, Wait
<1>. QED
  BY <1>1, <1>2, <1>3 DEF StartOK, LaunchedOK, FailOK, Failing

\* A start script goes on in kill_and_wait.
LEMMA FailGoesOn ==
    ASSUME IInv, NEW s \in Slots, script[s] # None, script[s].self # None,
           script[s].pc \in Wait,
           script'[s].self = script[s].self, script'[s].child = script[s].child,
           script'[s].file = "fail", script'[s].pc \in Wait,
           proc'[script[s].self] = "start",
           proc'[script[s].child] \in {None, "job", "up"},
           UNCHANGED <<file, monit>>,
           KillsLate(s) => KillsLate(s)',
           KillsNothing(s) => KillsNothing(s)'
    PROVE  ScriptOK(s)' /\ (Current(s)' => Current(s))
<1>1. /\ script[s].self \in Pids /\ script[s].child \in Pids
      /\ StartOK(s) /\ LaunchedOK(s)
      /\ KillsLate(s) \/ KillsNothing(s)
  BY AtWait
<1>2. script'[s].pc \in Failing /\ script'[s].pc \notin Pinging \cup {"check", "child"}
  BY DEF Failing, Pinging, Wait
<1>3. LaunchedOK(s)'
  BY <1>1, <1>2 DEF LaunchedOK, PingOK, CheckOK, FailOK
<1>4. ScriptOK(s)'
  BY <1>1, <1>3 DEF ScriptOK, StartOK
<1>5. Current(s)' => Current(s)
  BY <1>1, <1>2 DEF Current, Late, Failing, monit
<1>. QED
  BY <1>4, <1>5

LEMMA WaitReadsInv ==
    ASSUME Assumed, IInv, NEW s \in Slots, WaitReads(s) PROVE IInv'
<1>1. script[s] # None /\ script[s].pc = "wait" /\ script[s].pc \in Wait
  BY DEF WaitReads, At, Wait
<1>2. /\ script[s] \in Script
      /\ script[s].self = None => script[s].child = None /\ StopOK(s)
      /\ script[s].self # None =>
            /\ script[s].self \in Pids /\ script[s].child \in Pids
            /\ StartOK(s) /\ LaunchedOK(s) /\ FailOK(s) /\ script[s].file = "fail"
            /\ KillsLate(s) \/ KillsNothing(s)
  BY <1>1, AtWait
<1>3. CASE file[script[s].file] \in Pids
  <2>. DEFINE r == [script[s] EXCEPT !.pc = "alive", !.target = file[script[s].file]]
  <2>1. script' = [script EXCEPT ![s] = r] /\ UNCHANGED <<proc, file, monit>>
    BY <1>3 DEF WaitReads
  <2>2. /\ r \in Script /\ r.self = script[s].self /\ r.child = script[s].child /\ r # None
        /\ r.pc = "alive" /\ r.pc \in Wait /\ r.target = file[script[s].file]
        /\ r.file = script[s].file
    BY <1>2, <1>3 DEF Script, Wait
  <2>. HIDE DEF r
  <2>3. script'[s] = r
    BY <2>1 DEF IInv, TypeOK
  <2>4. ScriptOK(s)' /\ (Current(s)' => Current(s))
    <3>1. CASE script[s].self = None
      BY <3>1, <1>1, <1>2, <1>3, <2>1, <2>2, <2>3 DEF ScriptOK, StopOK, Current, Wait, monit
    <3>2. CASE script[s].self # None
      <4>1. KillsLate(s) => KillsLate(s)'
        BY <3>2, <1>1, <1>2, <2>1, <2>2, <2>3 DEF KillsLate, Late, Wait, monit
      <4>2. KillsNothing(s) => KillsNothing(s)'
        <5>1. KillsNothing(s) => ~Runs(file["fail"])
          BY DEF IInv, FilesOK, KillsNothing, Old, Late
        <5>. QED
          BY <5>1, <3>2, <1>1, <1>2, <1>3, <2>1, <2>2, <2>3
             DEF KillsNothing, Old, Runs, Wait, monit
      <4>. QED
        BY <3>2, <4>1, <4>2, <1>1, <1>2, <2>1, <2>2, <2>3, FailGoesOn
           DEF StartOK, LaunchedOK
    <3>. QED
      BY <3>1, <3>2
  <2>. QED
    BY <1>1, <2>1, <2>2, <2>4, GoesOn DEF IInv, TypeOK
<1>4. CASE file[script[s].file] \notin Pids
  <2>1. CASE script[s].self = None
    BY <2>1, <1>1, <1>2, <1>4, StopExits DEF WaitReads, StopOK, Running, Runs
  <2>2. CASE script[s].self # None
    <3>1. ~Runs(script[s].child)
      BY <2>2, <1>1, <1>2, <1>4 DEF KillsLate, KillsNothing, Old, Wait
    <3>. QED
      BY <2>2, <3>1, <1>1, <1>4, StartExits DEF WaitReads
  <2>. QED
    BY <2>1, <2>2
<1>. QED
  BY <1>3, <1>4

LEMMA WaitProbesInv ==
    ASSUME Assumed, IInv, NEW s \in Slots, WaitProbes(s) PROVE IInv'
<1>1. script[s] # None /\ script[s].pc = "alive" /\ script[s].pc \in Wait
  BY DEF WaitProbes, At, Wait
<1>2. /\ script[s] \in Script /\ timer \in Nat
      /\ script[s].self = None => script[s].child = None /\ StopOK(s)
      /\ script[s].self # None =>
            /\ script[s].self \in Pids /\ script[s].child \in Pids
            /\ StartOK(s) /\ LaunchedOK(s) /\ FailOK(s) /\ script[s].file = "fail"
            /\ KillsLate(s) \/ KillsNothing(s)
  BY <1>1, AtWait
<1>. DEFINE pc == IF Runs(script[s].target) THEN "term" ELSE "rm"
            r == [script[s] EXCEPT !.pc = pc]
<1>3. script' = [script EXCEPT ![s] = r] /\ UNCHANGED <<proc, file, monit>>
  BY DEF WaitProbes, Go
<1>4. /\ r \in Script /\ r.self = script[s].self /\ r.child = script[s].child /\ r # None
      /\ r.pc = pc /\ r.pc \in Wait /\ r.target = script[s].target
      /\ r.file = script[s].file /\ r.left = script[s].left
  BY <1>2 DEF Script, Wait
<1>. HIDE DEF r
<1>5. script'[s] = r
  BY <1>3 DEF IInv, TypeOK
<1>6. ScriptOK(s)' /\ (Current(s)' => Current(s))
  <2>1. CASE script[s].self = None
    BY <2>1, <1>1, <1>2, <1>3, <1>4, <1>5
       DEF ScriptOK, StopOK, Current, Running, Runs, Wait, monit
  <2>2. CASE script[s].self # None
    <3>1. KillsLate(s) => KillsLate(s)'
      BY <2>2, <1>1, <1>2, <1>3, <1>4, <1>5
         DEF KillsLate, Late, Runs, Wait, monit
    <3>2. KillsNothing(s) => KillsNothing(s)'
      BY <2>2, <1>1, <1>2, <1>3, <1>4, <1>5 DEF KillsNothing, Old, Runs, monit
    <3>. QED
      BY <2>2, <3>1, <3>2, <1>1, <1>2, <1>3, <1>4, <1>5, FailGoesOn DEF StartOK, LaunchedOK
  <2>. QED
    BY <2>1, <2>2
<1>. QED
  BY <1>1, <1>3, <1>4, <1>6, GoesOn DEF IInv, TypeOK

LEMMA WaitTerminatesInv ==
    ASSUME Assumed, IInv, NEW s \in Slots, WaitTerminates(s) PROVE IInv'
<1>1. script[s] # None /\ script[s].pc = "term" /\ script[s].pc \in Wait
  BY DEF WaitTerminates, At, Wait
<1>2. /\ script[s] \in Script /\ timer \in Nat
      /\ script[s].self = None => script[s].child = None /\ StopOK(s)
      /\ script[s].self # None =>
            /\ script[s].self \in Pids /\ script[s].child \in Pids
            /\ StartOK(s) /\ LaunchedOK(s) /\ FailOK(s) /\ script[s].file = "fail"
            /\ KillsLate(s) \/ KillsNothing(s)
  BY <1>1, AtWait
<1>3. CASE Strict(s) /\ ~Runs(script[s].target)
  <2>1. script[s].self = None
    BY <1>2, <1>3 DEF Strict
  <2>2. ~Running
    BY <2>1, <1>1, <1>2, <1>3 DEF StopOK, Running
  <2>. QED
    BY <2>1, <2>2, <1>1, <1>3, StopExits DEF WaitTerminates
<1>4. CASE ~(Strict(s) /\ ~Runs(script[s].target))
  <2>. DEFINE r == [script[s] EXCEPT !.pc = "loop", !.left = KillTimeout]
  <2>1. script' = [script EXCEPT ![s] = r] /\ UNCHANGED <<proc, file, monit>>
    BY <1>4 DEF WaitTerminates
  <2>2. KillTimeout \in 0..(KillTimeout + StartDelay + StartWait)
    OBVIOUS
  <2>3. /\ r \in Script /\ r.self = script[s].self /\ r.child = script[s].child /\ r # None
        /\ r.pc = "loop" /\ r.pc \in Wait /\ r.target = script[s].target
        /\ r.file = script[s].file /\ r.left = KillTimeout
    BY <1>2, <2>2 DEF Script, Wait
  <2>. HIDE DEF r
  <2>4. script'[s] = r
    BY <2>1 DEF IInv, TypeOK
  <2>5. ScriptOK(s)' /\ (Current(s)' => Current(s))
    <3>1. CASE script[s].self = None
      BY <3>1, <1>1, <1>2, <2>1, <2>3, <2>4 DEF ScriptOK, StopOK, Current, Wait, monit
    <3>2. CASE script[s].self # None
      <4>1. KillsLate(s) => KillsLate(s)'
        BY <3>2, <1>1, <1>2, <2>1, <2>3, <2>4
           DEF KillsLate, Late, Wait, monit
      <4>2. ~KillsNothing(s)
        BY <1>1 DEF KillsNothing
      <4>. QED
        BY <3>2, <4>1, <4>2, <1>1, <1>2, <2>1, <2>3, <2>4, FailGoesOn DEF StartOK, LaunchedOK
    <3>. QED
      BY <3>1, <3>2
  <2>. QED
    BY <1>1, <2>1, <2>3, <2>5, GoesOn DEF IInv, TypeOK
<1>. QED
  BY <1>3, <1>4

LEMMA WaitLoopsInv ==
    ASSUME Assumed, IInv, NEW s \in Slots, WaitLoops(s) PROVE IInv'
<1>1. script[s] # None /\ script[s].pc = "loop" /\ script[s].pc \in Wait
  BY DEF WaitLoops, At, Wait
<1>2. /\ script[s] \in Script /\ script[s].left \in Nat /\ timer \in Nat
      /\ script[s].self = None => script[s].child = None /\ StopOK(s)
      /\ script[s].self # None =>
            /\ script[s].self \in Pids /\ script[s].child \in Pids
            /\ StartOK(s) /\ LaunchedOK(s) /\ FailOK(s) /\ script[s].file = "fail"
            /\ KillsLate(s) \/ KillsNothing(s)
  BY <1>1, AtWait
<1>. DEFINE pc == IF Runs(script[s].target) THEN "nap" ELSE "rm"
            r == [script[s] EXCEPT !.pc = pc]
<1>3. script' = [script EXCEPT ![s] = r] /\ UNCHANGED <<proc, file, monit>>
  BY DEF WaitLoops, Go
<1>4. /\ r \in Script /\ r.self = script[s].self /\ r.child = script[s].child /\ r # None
      /\ r.pc = pc /\ r.pc \in Wait /\ r.target = script[s].target
      /\ r.file = script[s].file /\ r.left = script[s].left
  BY <1>2 DEF Script, Wait
<1>. HIDE DEF r
<1>5. script'[s] = r
  BY <1>3 DEF IInv, TypeOK
<1>6. ScriptOK(s)' /\ (Current(s)' => Current(s))
  <2>1. CASE script[s].self = None
    BY <2>1, <1>1, <1>2, <1>3, <1>4, <1>5
       DEF ScriptOK, StopOK, Current, Running, Runs, Wait, monit
  <2>2. CASE script[s].self # None
    <3>1. KillsLate(s) => KillsLate(s)'
      BY <2>2, <1>1, <1>2, <1>3, <1>4, <1>5
         DEF KillsLate, Late, Runs, Wait, monit
    <3>2. ~KillsNothing(s)
      BY <1>1 DEF KillsNothing
    <3>. QED
      BY <2>2, <3>1, <3>2, <1>1, <1>2, <1>3, <1>4, <1>5, FailGoesOn DEF StartOK, LaunchedOK
  <2>. QED
    BY <2>1, <2>2
<1>. QED
  BY <1>1, <1>3, <1>4, <1>6, GoesOn DEF IInv, TypeOK

LEMMA WaitCountsInv ==
    ASSUME Assumed, IInv, NEW s \in Slots, WaitCounts(s) PROVE IInv'
<1>1. /\ script[s] # None /\ script[s].pc = "woke" /\ script[s].pc \in Wait
      /\ KillTimeout = 0 \/ script[s].left > 0
  BY DEF WaitCounts, At, Wait, TurnsLeft
<1>2. /\ script[s] \in Script /\ script[s].left \in Nat /\ timer \in Nat
      /\ script[s].self = None => script[s].child = None /\ StopOK(s)
      /\ script[s].self # None =>
            /\ script[s].self \in Pids /\ script[s].child \in Pids
            /\ StartOK(s) /\ LaunchedOK(s) /\ FailOK(s) /\ script[s].file = "fail"
            /\ KillsLate(s) \/ KillsNothing(s)
  BY <1>1, AtWait
<1>. DEFINE left == IF KillTimeout = 0 THEN 0 ELSE script[s].left - 1
            r == [script[s] EXCEPT !.pc = "loop", !.left = left]
<1>3. script' = [script EXCEPT ![s] = r] /\ UNCHANGED <<proc, file, monit>>
  BY DEF WaitCounts
<1>4. /\ r \in Script /\ r.self = script[s].self /\ r.child = script[s].child /\ r # None
      /\ r.pc = "loop" /\ r.pc \in Wait /\ r.target = script[s].target
      /\ r.file = script[s].file
  <2>1. script[s].left \in 0..(KillTimeout + StartDelay + StartWait)
    BY <1>2 DEF Script
  <2>2. left \in 0..(KillTimeout + StartDelay + StartWait)
    BY <1>1, <2>1
  <2>. HIDE DEF left
  <2>. QED
    BY <1>2, <2>2 DEF Script, Wait
<1>. HIDE DEF r
<1>5. script'[s] = r
  BY <1>3 DEF IInv, TypeOK
<1>6. ScriptOK(s)' /\ (Current(s)' => Current(s))
  <2>1. CASE script[s].self = None
    BY <2>1, <1>1, <1>2, <1>3, <1>4, <1>5 DEF ScriptOK, StopOK, Current, Wait, monit
  <2>2. CASE script[s].self # None
    <3>1. KillsLate(s) => KillsLate(s)'
      BY <2>2, <1>1, <1>2, <1>3, <1>4, <1>5
         DEF KillsLate, Late, Wait, monit
    <3>2. ~KillsNothing(s)
      BY <1>1 DEF KillsNothing
    <3>. QED
      BY <2>2, <3>1, <3>2, <1>1, <1>2, <1>3, <1>4, <1>5, FailGoesOn DEF StartOK, LaunchedOK
  <2>. QED
    BY <2>1, <2>2
<1>. QED
  BY <1>1, <1>3, <1>4, <1>6, GoesOn DEF IInv, TypeOK

\* What kill -9 hits is a daemon, not a script.
LEMMA WaitKillsInv ==
    ASSUME Assumed, IInv, NEW s \in Slots, WaitKills(s) PROVE IInv'
<1>1. /\ script[s] # None /\ script[s].pc = "woke" /\ script[s].pc \in Wait
      /\ script[s].left = 0 /\ UNCHANGED <<file, monit>>
  BY DEF WaitKills, At, Wait
<1>2. /\ script[s] \in Script /\ timer \in Nat
      /\ script[s].self = None => script[s].child = None /\ StopOK(s)
      /\ script[s].self # None =>
            /\ script[s].self \in Pids /\ script[s].child \in Pids
            /\ StartOK(s) /\ LaunchedOK(s) /\ FailOK(s) /\ script[s].file = "fail"
            /\ KillsLate(s) /\ ~KillsNothing(s)
  BY <1>1, AtWait DEF KillsNothing
<1>. DEFINE r == [script[s] EXCEPT !.pc = "settle"]
            k == script[s].target
<1>3. /\ k \in Pids
      /\ script[s].self = None => k = file["pid"]
      /\ script[s].self # None => k = script[s].child
  BY <1>1, <1>2 DEF StopOK, KillsLate, Wait
<1>4. /\ r \in Script /\ r.self = script[s].self /\ r.child = script[s].child /\ r # None
      /\ r.pc = "settle" /\ r.pc \in Wait /\ r.target = k /\ r.file = script[s].file
  BY <1>2 DEF Script, Wait
<1>5. proc[k] \in {None, "job", "up"}
  BY <1>1, <1>2, <1>3 DEF IInv, FilesOK, Runs, LaunchedOK
<1>6. \A t \in Slots : script[t] # None => script[t].self # k
  <2>. SUFFICES ASSUME NEW t \in Slots, script[t] # None, script[t].self = k PROVE FALSE
    OBVIOUS
  <2>1. script[t].self # None /\ StartOK(t)
    BY <1>3 DEF IInv, ScriptOK
  <2>. QED
    BY <1>5, <2>1 DEF StartOK, Role
<1>7. CASE ~Runs(k) /\ Strict(s)
  <2>1. script[s].self = None
    BY <1>2, <1>7 DEF Strict
  <2>2. ~Running
    BY <2>1, <1>3, <1>7 DEF Running
  <2>. QED
    BY <2>1, <2>2, <1>1, <1>7, StopExits DEF WaitKills, ForcesKill
<1>8. CASE Runs(k) \/ ~Strict(s)
  <2>1. script' = [script EXCEPT ![s] = r]
    <3>1. WithoutScriptOf(k) = script
      BY <1>6 DEF WithoutScriptOf, IInv, TypeOK
    <3>. QED
      BY <1>1, <1>8, <3>1 DEF WaitKills, ForcesKill, Go
  <2>2. proc' = [proc EXCEPT ![k] = None] \/ (proc' = proc /\ ~Runs(k))
    BY <1>8 DEF WaitKills, ForcesKill
  <2>. HIDE DEF r, k
  <2>3. /\ proc' \in [Pids -> Role \cup {None}] /\ proc'[k] = None
        /\ \A p \in Pids : proc'[p] = proc[p] \/ (p = k /\ proc'[p] = None)
    BY <2>2, <1>3 DEF IInv, TypeOK, Runs
  <2>4. script'[s] = r
    BY <2>1 DEF IInv, TypeOK
  <2>5. ScriptOK(s)' /\ (Current(s)' => Current(s))
    <3>1. CASE script[s].self = None
      BY <3>1, <1>1, <1>2, <1>3, <1>4, <2>3, <2>4
         DEF ScriptOK, StopOK, Current, Running, Runs, Wait, monit, k
    <3>2. CASE script[s].self # None
      <4>1. KillsLate(s)'
        BY <3>2, <1>1, <1>2, <1>3, <1>4, <2>3, <2>4 DEF KillsLate, Late, Runs, Wait, monit, k
      <4>2. proc'[script[s].self] = "start" /\ proc'[script[s].child] \in {None, "job", "up"}
        BY <3>2, <1>1, <1>2, <1>6, <2>3 DEF StartOK, LaunchedOK
      <4>. QED
        BY <3>2, <4>1, <4>2, <1>1, <1>2, <1>4, <2>4, FailGoesOn
    <3>. QED
      BY <3>1, <3>2
  <2>. QED
    BY <1>1, <1>4, <1>6, <2>1, <2>3, <2>5, GoesOn
<1>. QED
  BY <1>7, <1>8

LEMMA WaitRemovesInv ==
    ASSUME Assumed, IInv, NEW s \in Slots, WaitRemoves(s) PROVE IInv'
<1>1. script[s] # None /\ script[s].pc = "rm" /\ script[s].pc \in Wait
  BY DEF WaitRemoves, At, Wait
<1>2. CASE script[s].self = None
  <2>1. StopOK(s) /\ ~Running /\ script[s].file = "pid"
    BY <1>1, <1>2, AtWait DEF StopOK
  <2>. QED
    BY <1>1, <1>2, <2>1, StopExits DEF WaitRemoves
<1>3. CASE script[s].self # None
  <2>1. ~Runs(script[s].child) /\ script[s].file = "fail" /\ script[s].pc \in Failing
    BY <1>1, <1>3, AtWait DEF KillsLate, KillsNothing, Old, Failing
  <2>. QED
    BY <1>1, <1>3, <2>1, StartExits DEF WaitRemoves
<1>. QED
  BY <1>2, <1>3

-----------------------------------------------------------------------------
(* The steps of a start script after pid_guard. *)

LEMMA AtLaunched ==
    ASSUME IInv, NEW s \in Slots, script[s] # None,
           script[s].pc \in Pinging \cup {"check", "child", "fail"}
    PROVE  /\ script[s] \in Script /\ script[s].self \in Pids /\ script[s].child \in Pids
           /\ StartOK(s) /\ LaunchedOK(s)
           /\ proc[script[s].self] = "start"
           /\ proc[script[s].child] \in {None, "job", "up"}
           /\ script[s].pc \in Pinging => Current(s)
           /\ script[s].left \in Nat /\ timer \in Nat
<1>1. script[s] \in Script /\ script[s].left \in Nat /\ timer \in Nat
  BY ScriptFields DEF IInv
<1>2. script[s].self # None /\ StartOK(s)
  BY DEF IInv, ScriptOK, StopOK, Pinging, Wait
<1>3. script[s].child # None
  BY <1>2 DEF StartOK, LaunchOK, BeforeLaunch, Guard, Pinging
<1>. QED
  BY <1>1, <1>2, <1>3 DEF StartOK, LaunchedOK, Current

LEMMA SetupDoneInv ==
    ASSUME Assumed, IInv, NEW s \in Slots, SetupDone(s) PROVE IInv'
<1>1. script[s] # None /\ script[s].pc = "setup" /\ script[s].pc \in BeforeLaunch
  BY DEF SetupDone, At, BeforeLaunch
<1>2. /\ script[s] \in Script /\ script[s].self \in Pids /\ script[s].child = None
      /\ StartOK(s) /\ LaunchOK(s) /\ Current(s)
  BY <1>1, AtGuard
<1>. DEFINE r == [script[s] EXCEPT !.pc = "launch"]
<1>3. script' = [script EXCEPT ![s] = r] /\ UNCHANGED <<proc, file, monit>>
  BY DEF SetupDone, Go
<1>4. /\ r \in Script /\ r.self = script[s].self /\ r.child = None /\ r # None
      /\ r.pc = "launch"
  BY <1>2 DEF Script, Own
<1>. HIDE DEF r
<1>5. ScriptOK(s)'
  BY <1>1, <1>2, <1>3, <1>4
     DEF ScriptOK, StartOK, LaunchOK, BeforeLaunch, Guard, Running, Runs, IInv, TypeOK, monit
<1>. QED
  BY <1>1, <1>2, <1>3, <1>4, <1>5, GoesOn DEF IInv, TypeOK, Wait

LEMMA PingsInv ==
    ASSUME Assumed, IInv, NEW s \in Slots, Pings(s) PROVE IInv'
<1>1. script[s] # None /\ script[s].pc = "ping" /\ script[s].pc \in Pinging
  BY DEF Pings, At, Pinging
<1>2. /\ script[s] \in Script /\ script[s].self \in Pids /\ script[s].child \in Pids
      /\ StartOK(s) /\ LaunchedOK(s) /\ Current(s)
      /\ proc[script[s].self] = "start" /\ proc[script[s].child] \in {None, "job", "up"}
      /\ script[s].left \in Nat /\ timer \in Nat
  BY <1>1, AtLaunched
<1>3. /\ doing = "start" /\ ~Running /\ file["pid"] = None
      /\ timer + script[s].left >= StartWait
  BY <1>1, <1>2 DEF LaunchedOK, PingOK
<1>. DEFINE pc == IF script[s].left = 0 THEN "check" ELSE "curl"
            r == [script[s] EXCEPT !.pc = pc]
<1>4. script' = [script EXCEPT ![s] = r] /\ UNCHANGED <<proc, file, monit>>
  BY DEF Pings, Go
<1>5. /\ r \in Script /\ r.self = script[s].self /\ r.child = script[s].child /\ r # None
      /\ r.pc \in {"check", "curl"} /\ r.left = script[s].left
      /\ (r.pc = "check" <=> script[s].left = 0)
  BY <1>2 DEF Script, Own
<1>. HIDE DEF r, pc
<1>6. script'[s] = r
  BY <1>4 DEF IInv, TypeOK
<1>7. LaunchedOK(s)'
  <2>1. PingOK(s)'
    BY <1>2, <1>3, <1>4, <1>5, <1>6 DEF PingOK, Running, Runs, monit
  <2>2. CheckOK(s)'
    <3>1. script[s].left = 0 => timer >= 1
      BY <1>2, <1>3, TimesAssumption DEF Assumed
    <3>. QED
      BY <3>1, <1>3, <1>4, <1>5, <1>6 DEF CheckOK, Late, monit
  <2>. QED
    BY <2>1, <2>2, <1>2, <1>4, <1>5, <1>6 DEF LaunchedOK, FailOK, Failing, Pinging, Wait
<1>8. ScriptOK(s)'
  BY <1>2, <1>4, <1>5, <1>6, <1>7 DEF ScriptOK, StartOK
<1>. QED
  BY <1>1, <1>2, <1>4, <1>5, <1>8, GoesOn DEF IInv, TypeOK, Wait

LEMMA CurlEndsInv ==
    ASSUME Assumed, IInv, NEW s \in Slots, CurlEnds(s) PROVE IInv'
<1>1. script[s] # None /\ script[s].pc = "curl" /\ script[s].pc \in Pinging
  BY DEF CurlEnds, At, Pinging
<1>2. /\ script[s] \in Script /\ script[s].self \in Pids /\ script[s].child \in Pids
      /\ StartOK(s) /\ LaunchedOK(s) /\ Current(s)
      /\ proc[script[s].self] = "start" /\ proc[script[s].child] \in {None, "job", "up"}
      /\ script[s].left \in Nat /\ timer \in Nat
  BY <1>1, AtLaunched
<1>3. /\ doing = "start" /\ ~Running /\ file["pid"] = None
      /\ timer + script[s].left >= StartWait
  BY <1>1, <1>2 DEF LaunchedOK, PingOK
<1>. DEFINE pc == IF \E p \in Pids : proc[p] = "up" THEN "open" ELSE "pingnap"
            r == [script[s] EXCEPT !.pc = pc]
<1>4. script' = [script EXCEPT ![s] = r] /\ UNCHANGED <<proc, file, monit>>
  BY DEF CurlEnds, Go
<1>5. /\ r \in Script /\ r.self = script[s].self /\ r.child = script[s].child /\ r # None
      /\ r.pc \in {"open", "pingnap"} /\ r.left = script[s].left
  BY <1>2 DEF Script, Own
<1>. HIDE DEF r, pc
<1>6. script'[s] = r
  BY <1>4 DEF IInv, TypeOK
<1>7. LaunchedOK(s)'
  <2>1. PingOK(s)'
    BY <1>2, <1>3, <1>4, <1>5, <1>6 DEF PingOK, Running, Runs, monit
  <2>2. CheckOK(s)'
    BY <1>5, <1>6 DEF CheckOK
  <2>. QED
    BY <2>1, <2>2, <1>2, <1>4, <1>5, <1>6 DEF LaunchedOK, FailOK, Failing, Pinging, Wait
<1>8. ScriptOK(s)'
  BY <1>2, <1>4, <1>5, <1>6, <1>7 DEF ScriptOK, StartOK
<1>. QED
  BY <1>1, <1>2, <1>4, <1>5, <1>8, GoesOn DEF IInv, TypeOK, Wait

LEMMA PidfileOpenedInv ==
    ASSUME Assumed, IInv, NEW s \in Slots, PidfileOpened(s) PROVE IInv'
<1>1. script[s] # None /\ script[s].pc = "open" /\ script[s].pc \in Pinging
  BY DEF PidfileOpened, At, Pinging
<1>2. /\ script[s] \in Script /\ script[s].self \in Pids /\ script[s].child \in Pids
      /\ StartOK(s) /\ LaunchedOK(s) /\ Current(s)
      /\ proc[script[s].self] = "start" /\ proc[script[s].child] \in {None, "job", "up"}
  BY <1>1, AtLaunched
<1>3. doing = "start" /\ file["pid"] = None
  BY <1>1, <1>2 DEF LaunchedOK, PingOK
<1>. DEFINE r == [script[s] EXCEPT !.pc = "write"]
<1>4. /\ script' = [script EXCEPT ![s] = r] /\ file' = [file EXCEPT !["pid"] = Empty]
      /\ UNCHANGED <<proc, monit>>
  BY DEF PidfileOpened, Go
<1>5. /\ r \in Script /\ r.self = script[s].self /\ r.child = script[s].child /\ r # None
      /\ r.pc = "write"
  BY <1>2 DEF Script, Own
<1>. HIDE DEF r
<1>6. script'[s] = r /\ file'["pid"] = Empty
  BY <1>4 DEF IInv, TypeOK
<1>7. LaunchedOK(s)'
  BY <1>2, <1>3, <1>4, <1>5, <1>6
     DEF LaunchedOK, PingOK, CheckOK, FailOK, Failing, Pinging, Wait, Running, Runs,
         monit
<1>8. ScriptOK(s)'
  BY <1>2, <1>4, <1>5, <1>6, <1>7 DEF ScriptOK, StartOK
<1>9. file["pid"] \notin Pids /\ Empty # None /\ r.pc # "child" /\ Empty \in {None, Empty, r.child}
  BY <1>3, <1>5
<1>. QED
  BY <1>1, <1>2, <1>4, <1>5, <1>8, <1>9, StartWrites

LEMMA PidfileWrittenInv ==
    ASSUME Assumed, IInv, NEW s \in Slots, PidfileWritten(s) PROVE IInv'
<1>1. script[s] # None /\ script[s].pc = "write" /\ script[s].pc \in Pinging
  BY DEF PidfileWritten, At, Pinging
<1>2. /\ script[s] \in Script /\ script[s].self \in Pids /\ script[s].child \in Pids
      /\ StartOK(s) /\ LaunchedOK(s) /\ Current(s)
      /\ proc[script[s].self] = "start" /\ proc[script[s].child] \in {None, "job", "up"}
  BY <1>1, AtLaunched
<1>3. file["pid"] = Empty
  BY <1>1, <1>2 DEF LaunchedOK, PingOK
<1>. DEFINE r == [script[s] EXCEPT !.pc = "check"]
<1>4. /\ script' = [script EXCEPT ![s] = r] /\ file' = [file EXCEPT !["pid"] = script[s].child]
      /\ UNCHANGED <<proc, monit>>
  BY DEF PidfileWritten, Go
<1>5. /\ r \in Script /\ r.self = script[s].self /\ r.child = script[s].child /\ r # None
      /\ r.pc = "check"
  BY <1>2 DEF Script, Own
<1>. HIDE DEF r
<1>6. script'[s] = r /\ file'["pid"] = r.child
  BY <1>4, <1>5 DEF IInv, TypeOK
<1>7. LaunchedOK(s)'
  BY <1>2, <1>4, <1>5, <1>6
     DEF LaunchedOK, PingOK, CheckOK, FailOK, Failing, Pinging, Wait
<1>8. ScriptOK(s)'
  BY <1>2, <1>4, <1>5, <1>6, <1>7 DEF ScriptOK, StartOK
<1>9. /\ file["pid"] \notin Pids /\ script[s].child # None /\ r.pc # "child"
      /\ script[s].child \in {None, Empty, r.child}
  BY <1>2, <1>3, <1>5
<1>. QED
  BY <1>1, <1>2, <1>4, <1>5, <1>8, <1>9, StartWrites

LEMMA ChecksInv ==
    ASSUME Assumed, IInv, NEW s \in Slots, Checks(s) PROVE IInv'
<1>1. script[s] # None /\ script[s].pc = "check" /\ UNCHANGED <<file, monit>>
  BY DEF Checks, At
<1>2. /\ script[s] \in Script /\ script[s].self \in Pids /\ script[s].child \in Pids
      /\ StartOK(s) /\ LaunchedOK(s)
      /\ proc[script[s].self] = "start" /\ proc[script[s].child] \in {None, "job", "up"}
      /\ file["pid"] = script[s].child \/ Late \/ Old(s)
  BY <1>1, AtLaunched DEF LaunchedOK, CheckOK
<1>3. CASE file["pid"] \in {None, script[s].child, Empty}
  <2>. DEFINE r == [script[s] EXCEPT !.pc = IF file["pid"] = None THEN "fail" ELSE "child"]
  <2>1. script' = [script EXCEPT ![s] = r] /\ proc' = proc
    BY <1>3 DEF Checks, Go
  <2>2. /\ r \in Script /\ r.self = script[s].self /\ r.child = script[s].child /\ r # None
        /\ r.pc = IF file["pid"] = None THEN "fail" ELSE "child"
    BY <1>2 DEF Script, Own
  <2>. HIDE DEF r
  <2>3. script'[s] = r
    BY <2>1 DEF IInv, TypeOK
  <2>4. LaunchedOK(s)' /\ (Current(s)' => Current(s))
    <3>1. CASE file["pid"] = None
      <4>1. KillsLate(s)' \/ KillsNothing(s)'
        BY <3>1, <1>1, <1>2, <2>1, <2>2, <2>3
           DEF KillsLate, KillsNothing, Late, Old, Runs, Wait, monit
      <4>2. LaunchedOK(s)'
        BY <3>1, <4>1, <1>1, <1>2, <2>1, <2>2, <2>3
           DEF LaunchedOK, PingOK, CheckOK, FailOK, Failing, Pinging, Wait
      <4>3. Current(s)' => Current(s)
        BY <3>1, <1>1, <1>2, <2>2, <2>3 DEF Current, Late, Pinging, monit
      <4>. QED
        BY <4>2, <4>3
    <3>2. CASE file["pid"] # None
      <4>1. file["pid"] = script[s].child \/ ~Runs(script[s].child)
        BY <3>2, <1>2 DEF Late, Old
      <4>2. LaunchedOK(s)'
        BY <3>2, <4>1, <1>1, <1>2, <2>1, <2>2, <2>3
           DEF LaunchedOK, PingOK, CheckOK, FailOK, Failing, Pinging, Wait, Runs
      <4>3. ~Current(s)'
        BY <3>2, <1>2, <2>2, <2>3 DEF Current, Failing, Pinging, Wait
      <4>. QED
        BY <4>2, <4>3
    <3>. QED
      BY <3>1, <3>2
  <2>5. ScriptOK(s)'
    BY <1>2, <2>1, <2>2, <2>3, <2>4 DEF ScriptOK, StartOK
  <2>. QED
    BY <1>1, <1>2, <2>1, <2>2, <2>4, <2>5, GoesOn DEF IInv, TypeOK, Wait
<1>4. CASE file["pid"] \notin {None, script[s].child, Empty}
  <2>1. ~Runs(script[s].child)
    BY <1>2, <1>4 DEF Late, Old
  <2>. QED
    BY <1>1, <1>2, <1>4, <2>1, StartExits DEF Checks
<1>. QED
  BY <1>3, <1>4

LEMMA FailsInv ==
    ASSUME Assumed, IInv, NEW s \in Slots, Fails(s) PROVE IInv'
<1>1. script[s] # None /\ script[s].pc = "fail" /\ script[s].pc \in Failing
  BY DEF Fails, At, Failing
<1>2. /\ script[s] \in Script /\ script[s].self \in Pids /\ script[s].child \in Pids
      /\ StartOK(s) /\ LaunchedOK(s)
      /\ proc[script[s].self] = "start" /\ proc[script[s].child] \in {None, "job", "up"}
      /\ KillsLate(s) \/ KillsNothing(s)
  BY <1>1, AtLaunched DEF LaunchedOK, FailOK
<1>. DEFINE r == [script[s] EXCEPT !.pc = "wait", !.file = "fail"]
<1>3. /\ script' = [script EXCEPT ![s] = r] /\ file' = [file EXCEPT !["fail"] = script[s].child]
      /\ UNCHANGED <<proc, monit>>
  BY DEF Fails
<1>4. /\ r \in Script /\ r.self = script[s].self /\ r.child = script[s].child /\ r # None
      /\ r.pc = "wait" /\ r.file = "fail"
  BY <1>2 DEF Script, Wait
<1>. HIDE DEF r
<1>5. script'[s] = r /\ file'["fail"] = r.child /\ file'["pid"] = file["pid"]
  BY <1>3, <1>4 DEF IInv, TypeOK
<1>6. KillsLate(s)' \/ KillsNothing(s)'
  BY <1>1, <1>2, <1>3, <1>4, <1>5
     DEF KillsLate, KillsNothing, Late, Old, Runs, Wait, monit
<1>7. LaunchedOK(s)'
  BY <1>2, <1>3, <1>4, <1>5, <1>6
     DEF LaunchedOK, PingOK, CheckOK, FailOK, Failing, Pinging, Wait
<1>8. ScriptOK(s)'
  BY <1>2, <1>3, <1>4, <1>5, <1>7 DEF ScriptOK, StartOK
<1>9. Current(s)' => Current(s)
  BY <1>1, <1>2, <1>3, <1>4, <1>5 DEF Current, Late, Failing, Pinging, monit
<1>10. file' = [file EXCEPT !["fail"] = r.child] /\ r.self # None
  BY <1>2, <1>3, <1>4
<1>. QED
  BY <1>1, <1>2, <1>3, <1>4, <1>8, <1>9, <1>10, GoesOn DEF IInv, TypeOK, Wait

LEMMA ChildEndedInv ==
    ASSUME Assumed, IInv, NEW s \in Slots, ChildEnded(s) PROVE IInv'
<1>1. script[s] # None /\ script[s].pc = "child"
  BY DEF ChildEnded, At
<1>2. script[s].self \in Pids
  BY <1>1, AtLaunched
<1>. QED
  BY <1>1, <1>2, StartExits DEF ChildEnded

LEMMA LaunchesInv ==
    ASSUME Assumed, IInv, NEW s \in Slots, Launches(s) PROVE IInv'
<1>1. script[s] # None /\ script[s].pc = "launch" /\ script[s].pc \in BeforeLaunch
  BY DEF Launches, At, BeforeLaunch
<1>2. /\ script[s] \in Script /\ script[s].self \in Pids /\ script[s].child = None
      /\ StartOK(s) /\ Current(s) /\ proc[script[s].self] = "start" /\ timer \in Nat
      /\ doing = "start" /\ ~Running /\ file["pid"] = None
  BY <1>1, AtGuard DEF StartOK, LaunchOK
<1>3. PICK p \in Pids :
         /\ Fresh(p) /\ proc' = [proc EXCEPT ![p] = "job"]
         /\ script' = [script EXCEPT ![s].pc = "ping", ![s].child = p, ![s].left = StartWait]
  BY Zenon DEF Launches
<1>4. Fresh(p) /\ proc' = [proc EXCEPT ![p] = "job"]
  BY <1>3
<1>. DEFINE r == [script[s] EXCEPT !.pc = "ping", !.child = p, !.left = StartWait]
<1>5. script' = [script EXCEPT ![s] = r] /\ UNCHANGED <<file, monit>>
  <2>1. script' = [script EXCEPT ![s] = r]
    BY <1>3
  <2>2. UNCHANGED <<file, monit>>
    BY DEF Launches
  <2>. QED
    BY <2>1, <2>2
<1>6. StartWait \in 0..(KillTimeout + StartDelay + StartWait)
  OBVIOUS
<1>7. r \in Script /\ r # None
  BY <1>2, <1>6 DEF Script, Own
<1>8. /\ r.self = script[s].self /\ r.child = p /\ r.pc = "ping" /\ r.left = StartWait
  BY <1>2 DEF Script
<1>. HIDE DEF r
<1>9. /\ proc[p] = None /\ \A f \in Files : file[f] # p
      /\ \A t \in Slots : script[t] # None => p \notin {script[t].child, script[t].target}
  BY <1>4 DEF Fresh, Assumed
<1>10. /\ proc'[p] = "job" /\ \A q \in Pids : q # p => proc'[q] = proc[q]
       /\ script'[s] = r /\ \A t \in Slots : t # s => script'[t] = script[t]
       /\ \A f \in Files : Runs(file[f])' <=> Runs(file[f])
  BY <1>9, <1>5, <1>4 DEF IInv, TypeOK, Runs
<1>11. TypeOK'
  BY <1>5, <1>7, <1>4 DEF IInv, TypeOK, Role, monit
<1>12. ScriptOK(s)'
  <2>1. script[s].self # p
    BY <1>9, <1>2 DEF Role
  <2>2. LaunchedOK(s)'
    BY <1>2, <1>5, <1>7, <1>8, <1>10
       DEF LaunchedOK, PingOK, CheckOK, FailOK, Failing, Pinging, Wait, Running, Runs,
           monit
  <2>. QED
    BY <2>1, <2>2, <1>2, <1>7, <1>8, <1>10 DEF ScriptOK, StartOK
<1>13. \A t \in Slots : t # s => ScriptOK(t)' /\ (Current(t)' <=> Current(t))
  <2>. SUFFICES ASSUME NEW t \in Slots, t # s
                PROVE  ScriptOK(t)' /\ (Current(t)' <=> Current(t))
    OBVIOUS
  <2>1. \A q \in Pids : Mild(t, q)
    BY <1>9, <1>10 DEF Mild
  <2>. QED
    BY <1>5, <1>10, <2>1, Undisturbed DEF IInv, monit
<1>14. OneCurrent' /\ OneProcess'
  BY <1>1, <1>2, <1>7, <1>8, <1>10, <1>13 DEF IInv, OneCurrent, OneProcess
<1>15. MonitOK'
  BY <1>2, <1>5 DEF IInv, MonitOK, monit
<1>16. FilesOK'
  <2>1. \A f \in Files : Runs(file[f]) => proc'[file[f]] = proc[file[f]]
    BY <1>9, <1>10 DEF Runs
  <2>2. ASSUME Runs(file["fail"])
        PROVE  \E t \in Slots : /\ script'[t] # None /\ script'[t].pc \in Wait
                                /\ script'[t].child = file["fail"] /\ Late'
    <3>1. PICK t \in Slots : /\ script[t] # None /\ script[t].pc \in Wait
                             /\ script[t].child = file["fail"] /\ Late
      BY <2>2 DEF IInv, FilesOK
    <3>2. t # s
      BY <3>1, <1>1 DEF Wait
    <3>. QED
      BY <3>1, <3>2, <1>5, <1>10 DEF Late, monit
  <2>. QED
    BY <2>1, <2>2, <1>5, <1>10 DEF IInv, FilesOK
<1>17. JobIsAccounted'
  <2>. SUFFICES ASSUME NEW q \in Pids, q \in Jobs', file["pid"] # q
                PROVE  \E t \in Slots : /\ script'[t] # None /\ script'[t].child = q
                                        /\ script'[t].pc # "child"
    BY <1>5 DEF JobIsAccounted, Jobs, At
  <2>1. CASE q = p
    BY <2>1, <1>7, <1>8, <1>10
  <2>2. CASE q # p
    <3>1. q \in Jobs
      BY <2>2, <1>10 DEF Jobs
    <3>2. PICK t \in Slots : script[t] # None /\ script[t].child = q /\ ~At(t, "child")
      BY <3>1 DEF IInv, JobIsAccounted
    <3>3. t # s
      BY <3>2, <1>2
    <3>. QED
      BY <3>2, <3>3, <1>10 DEF At
  <2>. QED
    BY <2>1, <2>2
<1>. QED
  BY <1>10, <1>11, <1>12, <1>13, <1>14, <1>15, <1>16, <1>17 DEF IInv

-----------------------------------------------------------------------------
(* The steps of the environment. *)

\* Processes come up or appear under new pids, and nothing else changes.
LEMMA OnlyProcesses ==
    ASSUME IInv, UNCHANGED <<file, script, monit>>, proc' \in [Pids -> Role \cup {None}],
           \A p \in Pids :
              \/ proc'[p] = proc[p]
              \/ proc[p] = "job" /\ proc'[p] = "up"
              \/ /\ proc[p] = None /\ proc'[p] = "other"
                 /\ \A f \in Files : file[f] # p
                 /\ \A t \in Slots :
                       script[t] # None => p \notin {script[t].child, script[t].target}
    PROVE  IInv'
<1>1. TypeOK'
  BY DEF IInv, TypeOK, monit
<1>2. \A t \in Slots : ScriptOK(t)' /\ (Current(t)' <=> Current(t))
  <2>. SUFFICES ASSUME NEW t \in Slots
                PROVE  ScriptOK(t)' /\ (Current(t)' <=> Current(t))
    OBVIOUS
  <2>1. \A q \in Pids : Mild(t, q)
    BY DEF Mild
  <2>. QED
    BY <2>1, Undisturbed DEF IInv, monit
<1>3. \A f \in Files :
         /\ Runs(file[f])' <=> Runs(file[f])
         /\ proc[file[f]] \in {"job", "up"} /\ file[f] \in Pids =>
               proc'[file[f]] \in {"job", "up"}
  BY DEF Runs, Role
<1>4. Jobs' = Jobs
  BY DEF Jobs, Role
<1>5. OneCurrent' /\ OneProcess' /\ MonitOK' /\ JobIsAccounted'
  BY <1>2, <1>3, <1>4
     DEF IInv, OneCurrent, OneProcess, MonitOK, StopExited, Running, JobIsAccounted, At, monit
<1>6. FilesOK'
  <2>1. \A f \in Files : Runs(file[f])' => proc'[file'[f]] \in {"job", "up"}
    BY <1>3 DEF IInv, FilesOK, Runs
  <2>2. Late' <=> Late
    BY DEF Late, monit
  <2>. QED
    BY <1>3, <2>1, <2>2 DEF IInv, FilesOK
<1>. QED
  BY <1>1, <1>2, <1>5, <1>6 DEF IInv

LEMMA JobComesUpInv ==
    ASSUME Assumed, IInv, NEW p \in Pids, JobComesUp(p) PROVE IInv'
<1>1. /\ proc[p] = "job" /\ proc' = [proc EXCEPT ![p] = "up"] /\ UNCHANGED <<file, script, monit>>
  BY DEF JobComesUp
<1>2. /\ proc' \in [Pids -> Role \cup {None}]
      /\ \A q \in Pids : proc'[q] = proc[q] \/ (proc[q] = "job" /\ proc'[q] = "up")
  BY <1>1 DEF IInv, TypeOK, Role
<1>. QED
  BY <1>1, <1>2, OnlyProcesses

LEMMA OtherStartsInv ==
    ASSUME Assumed, IInv, NEW p \in Pids, OtherStarts(p) PROVE IInv'
<1>1. /\ Fresh(p) /\ proc' = [proc EXCEPT ![p] = "other"] /\ UNCHANGED <<file, script, monit>>
  BY DEF OtherStarts
<1>2. /\ proc[p] = None /\ \A f \in Files : file[f] # p
      /\ \A t \in Slots : script[t] # None => p \notin {script[t].child, script[t].target}
  BY <1>1 DEF Fresh, Assumed
<1>3. /\ proc' \in [Pids -> Role \cup {None}]
      /\ \A q \in Pids : proc'[q] = proc[q] \/ (q = p /\ proc'[q] = "other")
  BY <1>1 DEF IInv, TypeOK, Role
<1>. QED
  BY <1>1, <1>2, <1>3, OnlyProcesses

LEMMA ProcessEndsInv ==
    ASSUME IInv, NEW p \in Pids, ProcessEnds(p), ~Unrecorded(p) PROVE IInv'
  BY Ends DEF ProcessEnds, Unrecorded

\* When monit waits for no start, no script is the current one.
LEMMA NoneIsCurrent ==
    ASSUME IInv, doing # "start"
    PROVE  /\ \A t \in Slots : ~Current(t)
           /\ ~Runs(file["fail"])
  BY CurrentIsAlone DEF IInv, FilesOK, Late

LEMMA MonitStartsInv ==
    ASSUME Assumed, IInv, MonitStarts PROVE IInv'
<1>1. PICK s \in Slots, p \in Pids :
         Fresh(p) /\ Spawn(s, "guard", p) /\ proc' = [proc EXCEPT ![p] = "start"]
  BY DEF MonitStarts
<1>2. /\ mode = "run" /\ doing = "idle" /\ ~Running /\ file' = file /\ mode' = mode
      /\ doing' = "start" /\ timer' = 0
  BY DEF MonitStarts
<1>. DEFINE r == [pc |-> "guard", self |-> p, child |-> None, target |-> None,
                  file |-> "pid", left |-> StartDelay]
<1>3. script' = [script EXCEPT ![s] = r] /\ script[s] = None
  BY <1>1 DEF Spawn
<1>4. StartDelay \in 0..(KillTimeout + StartDelay + StartWait)
  OBVIOUS
<1>5. r \in Script
  BY <1>4 DEF Script, Guard
<1>6. /\ r # None /\ r.self = p /\ r.child = None /\ r.pc = "guard" /\ r.left = StartDelay
  BY <1>5
<1>. HIDE DEF r
<1>7. /\ proc[p] = None /\ \A f \in Files : file[f] # p
      /\ \A t \in Slots : script[t] # None => p \notin {script[t].child, script[t].target}
  BY <1>1 DEF Fresh, Assumed
<1>8. /\ proc'[p] = "start" /\ \A q \in Pids : q # p => proc'[q] = proc[q]
      /\ script'[s] = r /\ \A t \in Slots : t # s => script'[t] = script[t]
      /\ \A f \in Files : Runs(file[f])' <=> Runs(file[f])
  BY <1>1, <1>2, <1>3, <1>7 DEF IInv, TypeOK, Runs
<1>9. TypeOK'
  BY <1>1, <1>2, <1>3, <1>5 DEF IInv, TypeOK, Role
<1>10. ASSUME NEW t \in Slots, t # s, script[t] # None
       PROVE  ScriptOK(t)' /\ ~Current(t)' /\ script[t].self # p
  <2>1. script[t].self # None /\ ~Current(t) /\ StartOK(t)
    BY <1>2, <1>10, NoneIsCurrent DEF IInv, ScriptOK, StopOK
  <2>2. \A q \in Pids : Mild(t, q)
    BY <1>7, <1>8, <1>10 DEF Mild
  <2>3. script[t].self # p
    BY <2>1, <1>7 DEF StartOK, Role
  <2>. QED
    BY <1>2, <1>8, <1>10, <2>1, <2>2, <2>3, OverStaysOver
<1>11. ScriptOK(s)'
  BY <1>2, <1>6, <1>7, <1>8
     DEF ScriptOK, StartOK, LaunchOK, BeforeLaunch, Guard, Running, Runs
<1>12. OneCurrent' /\ OneProcess' /\ MonitOK'
  BY <1>2, <1>6, <1>8, <1>10 DEF IInv, OneCurrent, OneProcess, Current, MonitOK
<1>13. FilesOK'
  <2>1. \A f \in Files : Runs(file[f]) => proc'[file[f]] = proc[file[f]]
    BY <1>7, <1>8 DEF Runs
  <2>. QED
    BY <2>1, <1>2, <1>8, NoneIsCurrent DEF IInv, FilesOK
<1>14. JobIsAccounted'
  <2>. SUFFICES ASSUME NEW q \in Pids, q \in Jobs', file["pid"] # q
                PROVE  \E t \in Slots : /\ script'[t] # None /\ script'[t].child = q
                                        /\ script'[t].pc # "child"
    BY <1>2 DEF JobIsAccounted, Jobs, At
  <2>1. q \in Jobs
    BY <1>8 DEF Jobs
  <2>2. PICK t \in Slots : script[t] # None /\ script[t].child = q /\ ~At(t, "child")
    BY <2>1 DEF IInv, JobIsAccounted
  <2>. QED
    BY <2>2, <1>3, <1>8 DEF At
<1>15. \A t \in Slots : ScriptOK(t)'
  BY <1>8, <1>10, <1>11 DEF ScriptOK
<1>. QED
  BY <1>9, <1>12, <1>13, <1>14, <1>15 DEF IInv

LEMMA MonitStopsInv ==
    ASSUME Assumed, IInv, MonitStops PROVE IInv'
<1>1. PICK s \in Slots : Spawn(s, "wait", None)
  BY DEF MonitStops
<1>2. /\ mode = "run" /\ doing = "idle" /\ mode' = "stop" /\ doing' = "stop" /\ timer' = 0
      /\ UNCHANGED <<proc, file>>
  BY DEF MonitStops
<1>. DEFINE r == [pc |-> "wait", self |-> None, child |-> None, target |-> None,
                  file |-> "pid", left |-> StartDelay]
<1>3. script' = [script EXCEPT ![s] = r] /\ script[s] = None
  BY <1>1 DEF Spawn
<1>4. StartDelay \in 0..(KillTimeout + StartDelay + StartWait)
  OBVIOUS
<1>5. r \in Script
  BY <1>4 DEF Script, Wait
<1>6. r # None /\ r.self = None /\ r.child = None /\ r.pc = "wait" /\ r.file = "pid"
  BY <1>5
<1>. HIDE DEF r
<1>7. /\ script'[s] = r /\ \A t \in Slots : t # s => script'[t] = script[t]
      /\ \A f \in Files : Runs(file[f])' <=> Runs(file[f])
  BY <1>2, <1>3 DEF IInv, TypeOK, Runs
<1>8. TypeOK'
  BY <1>2, <1>3, <1>5 DEF IInv, TypeOK
<1>9. ASSUME NEW t \in Slots, t # s, script[t] # None
      PROVE  ScriptOK(t)' /\ ~Current(t)' /\ script[t].self # None
  <2>1. script[t].self # None /\ ~Current(t)
    BY <1>2, <1>9, NoneIsCurrent DEF IInv, ScriptOK, StopOK
  <2>2. \A q \in Pids : Mild(t, q)
    BY <1>2 DEF Mild
  <2>. QED
    BY <1>2, <1>7, <1>9, <2>1, <2>2, OverStaysOver
<1>10. ScriptOK(s)'
  BY <1>2, <1>6, <1>7 DEF ScriptOK, StopOK, Wait
<1>11. ~StopExited'
  BY <1>6, <1>7 DEF StopExited
<1>12. OneCurrent' /\ OneProcess' /\ MonitOK'
  BY <1>2, <1>6, <1>7, <1>9, <1>11 DEF IInv, OneCurrent, OneProcess, Current, MonitOK
<1>13. FilesOK'
  BY <1>2, <1>7, NoneIsCurrent DEF IInv, FilesOK
<1>14. JobIsAccounted'
  BY <1>2, <1>3, <1>7 DEF IInv, JobIsAccounted, Jobs, At
<1>15. \A t \in Slots : ScriptOK(t)'
  BY <1>7, <1>9, <1>10 DEF ScriptOK
<1>. QED
  BY <1>8, <1>12, <1>13, <1>14, <1>15 DEF IInv

LEMMA OperatorStartsInv ==
    ASSUME Assumed, IInv, OperatorStarts PROVE IInv'
<1>1. /\ doing = "idle" /\ mode' = "run" /\ UNCHANGED <<proc, file, script, doing, timer>>
  BY DEF OperatorStarts
<1>2. TypeOK' /\ JobIsAccounted' /\ OneCurrent' /\ OneProcess' /\ FilesOK' /\ MonitOK'
  BY <1>1 DEF IInv, TypeOK, JobIsAccounted, Jobs, At, OneCurrent, OneProcess, Current, FilesOK,
              Late, Runs, MonitOK
<1>3. ASSUME NEW t \in Slots PROVE ScriptOK(t)'
  <2>1. \A q \in Pids : Mild(t, q)
    BY <1>1 DEF Mild
  <2>. QED
    BY <1>1, <2>1, Undisturbed DEF IInv
<1>. QED
  BY <1>2, <1>3 DEF IInv

\* Monit stops waiting when every start script is over and no stop script runs.
LEMMA MonitIsDone ==
    ASSUME IInv, doing' = "idle", UNCHANGED <<proc, file, script, mode, timer>>,
           \A t \in Slots : script[t] # None => script[t].self # None /\ ~Current(t),
           mode = "stop" => ~Running
    PROVE  IInv'
<1>1. TypeOK' /\ JobIsAccounted' /\ OneProcess' /\ MonitOK'
  BY DEF IInv, TypeOK, JobIsAccounted, Jobs, At, OneProcess, MonitOK, Running, Runs
<1>2. ASSUME NEW t \in Slots, script[t] # None PROVE ScriptOK(t)' /\ ~Current(t)'
  <2>1. \A q \in Pids : Mild(t, q)
    BY DEF Mild
  <2>. QED
    BY <1>2, <2>1, OverStaysOver
<1>3. \A t \in Slots : ScriptOK(t)'
  BY <1>2 DEF ScriptOK
<1>4. OneCurrent'
  BY <1>2 DEF OneCurrent, Current
<1>5. ~Runs(file["fail"])
  BY DEF IInv, FilesOK, Current, Failing
<1>6. FilesOK'
  BY <1>5 DEF IInv, FilesOK, Runs
<1>. QED
  BY <1>1, <1>3, <1>4, <1>6 DEF IInv

\* Monit stops waiting for one reason or the other, and no script is at work.
LEMMA MovesOnInv ==
    ASSUME IInv, MonitSees \/ MonitGivesUp, \A s \in Slots : ~AtWork(s) PROVE IInv'
<1>1. doing # "idle" /\ doing' = "idle" /\ UNCHANGED <<proc, file, script, mode, timer>>
  BY DEF MonitSees, MonitGivesUp, Reached
<1>2. ASSUME NEW t \in Slots, script[t] # None PROVE script[t].self # None /\ ~Current(t)
  <2>1. script[t].pc = "child" \/ (script[t].pc = "check" /\ Recorded(t))
    BY <1>2 DEF AtWork, At
  <2>2. script[t].pc \in Pinging \cup {"check", "child", "fail"}
    BY <2>1
  <2>3. script[t].self \in Pids /\ script[t].child \in Pids
    BY <1>2, <2>2, AtLaunched
  <2>. QED
    BY <2>1, <2>3 DEF Current, Recorded, Late, Pinging, Failing, Wait
<1>3. mode = "stop" => ~Running
  <2>1. StopExited
    BY <1>2 DEF StopExited
  <2>. QED
    BY <1>1, <2>1 DEF IInv, TypeOK, MonitOK
<1>. QED
  BY <1>1, <1>2, <1>3, MonitIsDone

LEMMA TickInv ==
    ASSUME IInv, Tick PROVE IInv'
<1>1. /\ \A t \in Slots : script[t] # None => Asleep(t)
      /\ doing # "idle" => timer < MonitTimeout
      /\ script' = [t \in Slots |-> IF script[t] = None THEN None ELSE Wake(script[t])]
      /\ timer' = IF doing = "idle" THEN timer ELSE timer + 1
      /\ UNCHANGED <<proc, file, mode, doing>> /\ (Running' <=> Running)
      /\ timer \in Nat
  BY DEF Tick, Running, Runs, IInv, TypeOK
<1>2. Late => Late'
  BY <1>1 DEF Late
<1>3. ASSUME NEW t \in Slots, script[t] # None
      PROVE  /\ script'[t] # None /\ script'[t] \in Script
             /\ script'[t].self = script[t].self /\ script'[t].child = script[t].child
             /\ script[t].pc \in Wait => script'[t].pc \in Wait
             /\ script'[t].pc = "child" => script[t].pc = "child"
             /\ ScriptOK(t)' /\ (Current(t)' => Current(t))
  <2>1. /\ script'[t] = Wake(script[t]) /\ script[t] \in Script /\ ScriptOK(t)
        /\ script[t].left \in 0..(KillTimeout + StartDelay + StartWait)
        /\ script[t].left \in Nat /\ timer' \in Nat /\ Asleep(t)
    BY <1>1, <1>3, ScriptFields DEF Script, IInv
  <2>2. CASE script[t].pc \in {"nap", "settle"}
    <3>. DEFINE pc == IF script[t].pc = "nap" THEN "woke" ELSE "rm"
    <3>1. script'[t] = [script[t] EXCEPT !.pc = pc]
      BY <2>1, <2>2 DEF Wake
    <3>2. /\ script'[t] \in Script /\ script'[t] # None
          /\ script'[t].self = script[t].self /\ script'[t].child = script[t].child
          /\ script'[t].target = script[t].target /\ script'[t].file = script[t].file
          /\ script'[t].left = script[t].left /\ script'[t].pc = pc
          /\ script[t].pc \in Wait /\ script'[t].pc \in Wait
      BY <2>1, <2>2, <3>1 DEF Script, Wait
    <3>3. CASE script[t].self = None
      <4>1. StopOK(t) /\ doing = "stop" /\ timer' = timer + 1
        BY <1>1, <1>3, <2>1, <3>3 DEF ScriptOK, StopOK
      <4>2. StopOK(t)'
        BY <1>1, <2>1, <2>2, <3>2, <4>1 DEF StopOK, Wait
      <4>. QED
        BY <3>2, <3>3, <4>2 DEF ScriptOK, Current, Wait
    <3>4. CASE script[t].self # None
      <4>1. StartOK(t) /\ LaunchedOK(t) /\ KillsLate(t) /\ script[t].child \in Pids
            /\ script[t].file = "fail"
        BY <1>3, <2>2, <3>2, <3>4, AtWait DEF KillsNothing
      <4>2. doing = "start" /\ timer' = timer + 1 /\ Late /\ Late'
        BY <1>1, <1>2, <4>1 DEF KillsLate, Late
      <4>3. KillsLate(t)'
        BY <1>1, <2>1, <2>2, <3>2, <4>1, <4>2 DEF KillsLate, Runs, Wait
      <4>4. LaunchedOK(t)'
        BY <1>1, <3>2, <4>1, <4>3
           DEF LaunchedOK, PingOK, CheckOK, FailOK, Failing, Pinging, Wait
      <4>5. Current(t)
        BY <1>3, <3>2, <3>4, <4>2 DEF Current, Failing
      <4>. QED
        BY <1>1, <3>2, <3>4, <4>1, <4>4, <4>5 DEF ScriptOK, StartOK, Wait
    <3>. QED
      BY <3>3, <3>4
  <2>3. CASE script[t].pc = "child"
    <3>1. script'[t] = script[t]
      BY <2>1, <2>3 DEF Wake
    <3>2. StartOK(t) /\ LaunchedOK(t) /\ script[t].child # None /\ script[t].self # None
      BY <1>3, <2>3, AtLaunched
    <3>3. LaunchedOK(t)'
      BY <1>1, <2>3, <3>1, <3>2
         DEF LaunchedOK, PingOK, CheckOK, FailOK, Failing, Pinging, Wait, Runs
    <3>4. ~Current(t)'
      BY <2>3, <3>1, <3>2 DEF Current, Failing, Pinging, Wait
    <3>. QED
      BY <1>1, <1>3, <2>1, <2>3, <3>1, <3>2, <3>3, <3>4 DEF ScriptOK, StartOK
  <2>4. CASE script[t].pc \in {"setup", "curl", "pingnap"}
    <3>. DEFINE pc == IF script[t].pc = "pingnap" THEN "ping" ELSE script[t].pc
                left == Less(script[t].left)
    <3>1. /\ script[t].self # None /\ StartOK(t) /\ Current(t)
          /\ doing = "start" /\ timer' = timer + 1
          /\ script[t].pc = "setup" => script[t].child = None /\ LaunchOK(t)
          /\ script[t].pc # "setup" => script[t].child \in Pids /\ LaunchedOK(t) /\ PingOK(t)
      <4>1. CASE script[t].pc = "setup"
        BY <1>1, <1>3, <2>1, <4>1, AtGuard DEF BeforeLaunch, LaunchOK
      <4>2. CASE script[t].pc \in {"curl", "pingnap"}
        <5>1. script[t].self \in Pids /\ script[t].child \in Pids /\ StartOK(t)
              /\ LaunchedOK(t) /\ Current(t)
          BY <1>3, <4>2, AtLaunched DEF Pinging
        <5>2. PingOK(t) /\ doing = "start"
          BY <4>2, <5>1 DEF LaunchedOK, PingOK, Pinging
        <5>. QED
          BY <1>1, <4>2, <5>1, <5>2
      <4>. QED
        BY <2>4, <4>1, <4>2
    <3>2. /\ left \in 0..(KillTimeout + StartDelay + StartWait)
          /\ timer' + left >= timer + script[t].left
      BY <1>1, <2>1, <3>1 DEF Less
    <3>3. script'[t] = [script[t] EXCEPT !.pc = pc, !.left = left]
      <4>1. CASE script[t].pc = "pingnap"
        BY <2>1, <4>1 DEF Wake
      <4>2. CASE script[t].pc # "pingnap"
        <5>1. script'[t] = [script[t] EXCEPT !.left = left]
          BY <2>1, <2>4, <4>2 DEF Wake
        <5>2. [script[t] EXCEPT !.pc = script[t].pc, !.left = left] = [script[t] EXCEPT !.left = left]
          BY <2>1 DEF Script
        <5>. QED
          BY <4>2, <5>1, <5>2
      <4>. QED
        BY <4>1, <4>2
    <3>. HIDE DEF left
    <3>4. /\ script'[t] \in Script /\ script'[t] # None
          /\ script'[t].self = script[t].self /\ script'[t].child = script[t].child
          /\ script'[t].left = left /\ script'[t].pc = pc
      <4>1. pc \in Own
        BY <2>4 DEF Own
      <4>. HIDE DEF pc
      <4>2. script'[t] \in Script
        BY <2>1, <3>2, <3>3, <4>1 DEF Script
      <4>3. /\ script'[t].self = script[t].self /\ script'[t].child = script[t].child
            /\ script'[t].left = left /\ script'[t].pc = pc
        BY <2>1, <3>3 DEF Script
      <4>. QED
        BY <4>2, <4>3
    <3>5. script[t].pc = "setup" => LaunchOK(t)'
      BY <1>1, <2>1, <3>1, <3>4 DEF LaunchOK, BeforeLaunch, Guard
    <3>6. script[t].pc # "setup" => LaunchedOK(t)'
      <4>. SUFFICES ASSUME script[t].pc # "setup" PROVE LaunchedOK(t)'
        OBVIOUS
      <4>1. script'[t].pc \in {"ping", "curl"}
        BY <2>4, <3>4
      <4>2. timer' + script'[t].left >= StartWait
        <5>1. timer + script[t].left >= StartWait
          BY <2>4, <3>1 DEF PingOK, Pinging
        <5>2. left \in Nat /\ timer \in Nat /\ timer' \in Nat /\ script[t].left \in Nat
          BY <1>1, <2>1, <3>2
        <5>3. timer' + left >= timer + script[t].left
          BY <3>2
        <5>4. timer' + left >= StartWait
          BY ONLY <5>1, <5>2, <5>3, TimesAssumption
        <5>. QED
          BY <3>4, <5>4
      <4>3. PingOK(t)'
        BY <1>1, <2>4, <3>1, <4>1, <4>2 DEF PingOK, Pinging
      <4>. QED
        BY <1>1, <3>1, <4>1, <3>4, <4>3 DEF LaunchedOK, CheckOK, FailOK, Failing, Pinging, Wait
    <3>7. ScriptOK(t)'
      BY <1>1, <2>4, <3>1, <3>4, <3>5, <3>6 DEF ScriptOK, StartOK
    <3>. QED
      BY <2>4, <3>1, <3>4, <3>7 DEF Wait
  <2>5. script[t].pc # "exec"
    BY <1>3, <2>1
       DEF ScriptOK, StopOK, StartOK, LaunchOK, LaunchedOK, BeforeLaunch, Guard, Pinging,
           Failing, Wait
  <2>. QED
    BY <2>1, <2>2, <2>3, <2>4, <2>5 DEF Asleep, At
<1>4. \A t \in Slots : script[t] = None => script'[t] = None
  BY <1>1
<1>5. TypeOK'
  <2>1. script' \in [Slots -> Script \cup {None}]
    BY <1>1, <1>3, <1>4 DEF IInv, TypeOK
  <2>2. timer' \in 0..MonitTimeout
    BY <1>1 DEF IInv, TypeOK
  <2>. QED
    BY <1>1, <2>1, <2>2 DEF IInv, TypeOK
<1>6. JobIsAccounted'
  <2>. SUFFICES ASSUME NEW p \in Jobs, file["pid"] # p
                PROVE  \E t \in Slots : /\ script'[t] # None /\ script'[t].child = p
                                        /\ script'[t].pc # "child"
    BY <1>1 DEF JobIsAccounted, Jobs, At
  <2>1. PICK t \in Slots : script[t] # None /\ script[t].child = p /\ ~At(t, "child")
    BY DEF IInv, JobIsAccounted
  <2>. QED
    BY <2>1, <1>3 DEF At
<1>7. OneCurrent' /\ OneProcess'
  <2>1. \A t \in Slots : Current(t)' => Current(t)
    BY <1>3, <1>4 DEF Current
  <2>. QED
    BY <2>1, <1>3, <1>4 DEF IInv, OneCurrent, OneProcess
<1>8. FilesOK'
  BY <1>1, <1>2, <1>3 DEF IInv, FilesOK, Runs
<1>9. StopExited' => StopExited
  BY <1>3 DEF StopExited
<1>10. MonitOK'
  BY <1>1, <1>9 DEF IInv, MonitOK
<1>11. \A t \in Slots : ScriptOK(t)'
  BY <1>3, <1>4 DEF ScriptOK
<1>. QED
  BY <1>5, <1>6, <1>7, <1>8, <1>10, <1>11 DEF IInv

-----------------------------------------------------------------------------
(* Every step keeps the invariant, and what follows from it. *)

LEMMA StutterInv ==
    ASSUME IInv, UNCHANGED vars PROVE IInv'
<1>1. UNCHANGED <<proc, file, script, mode, doing, timer>>
  BY DEF vars
<1>2. TypeOK' /\ JobIsAccounted' /\ OneCurrent' /\ OneProcess' /\ FilesOK' /\ MonitOK'
  BY <1>1 DEF IInv, TypeOK, JobIsAccounted, Jobs, At, OneCurrent, OneProcess, Current, FilesOK,
              Late, Running, Runs, MonitOK, StopExited
<1>3. \A s \in Slots : ScriptOK(s)'
  BY <1>1, Undisturbed DEF IInv, Mild
<1>. QED
  BY <1>2, <1>3 DEF IInv

LEMMA CtlStepInv ==
    ASSUME Assumed, IInv, NEW s \in Slots, CtlStep(s) PROVE IInv'
<1>1. CASE PidUtilsStep(s)
  BY <1>1, GuardReadsInv, GuardProbesInv, GuardRemovesInv, WaitReadsInv, WaitProbesInv,
     WaitTerminatesInv, WaitLoopsInv, WaitCountsInv, WaitKillsInv, WaitRemovesInv
     DEF PidUtilsStep
<1>. QED
  BY <1>1, SetupDoneInv, LaunchesInv, PingsInv, CurlEndsInv, PidfileOpenedInv,
     PidfileWrittenInv, ChecksInv, FailsInv, ChildEndedInv DEF CtlStep

\* A step after which no script has been abandoned keeps the invariant.
LEMMA NextInv ==
    ASSUME Assumed, IInv, [Next]_repVars, ~abandoned' PROVE IInv'
<1>1. CASE (MonitSees \/ MonitGivesUp) /\ \A s \in Slots : ~AtWork(s)
  BY <1>1, MovesOnInv
<1>2. CASE \E p \in Pids : ProcessEnds(p) /\ ~Unrecorded(p)
  BY <1>2, ProcessEndsInv
<1>3. CASE MonitStarts \/ MonitStops \/ OperatorStarts \/ Tick
  BY <1>3, MonitStartsInv, MonitStopsInv, OperatorStartsInv, TickInv
<1>4. CASE \E p \in Pids : OtherStarts(p) \/ JobComesUp(p)
  BY <1>4, OtherStartsInv, JobComesUpInv
<1>5. CASE \E s \in Slots : CtlStep(s)
  BY <1>5, CtlStepInv
<1>6. CASE UNCHANGED repVars
  BY <1>6, StutterInv DEF repVars
<1>. QED
  BY <1>1, <1>2, <1>3, <1>4, <1>5, <1>6 DEF Next

-----------------------------------------------------------------------------
(* The types are right whatever is abandoned. *)

\* Script s goes on as r or ends.
LEMMA ScriptTyped ==
    ASSUME TypeOK, NEW s \in Slots, NEW r \in Script \cup {None},
           script' = [script EXCEPT ![s] = r]
    PROVE  script' \in [Slots -> Script \cup {None}]
  BY DEF TypeOK

LEMMA EndTyped ==
    ASSUME TypeOK
    PROVE  /\ \A p \in Pids \cup {None} :
                 [proc EXCEPT ![p] = None] \in [Pids -> Role \cup {None}]
           /\ \A p \in Pids : WithoutScriptOf(p) \in [Slots -> Script \cup {None}]
  BY DEF TypeOK, WithoutScriptOf

LEMMA ExitTyped ==
    ASSUME TypeOK, NEW s \in Slots, script[s] # None, Exit(s)
    PROVE  /\ script' \in [Slots -> Script \cup {None}]
           /\ proc' \in [Pids -> Role \cup {None}]
<1>1. script' \in [Slots -> Script \cup {None}]
  BY ScriptTyped DEF Exit
<1>2. proc' \in [Pids -> Role \cup {None}]
  BY ScriptFields, EndTyped DEF Exit, TypeOK
<1>. QED
  BY <1>1, <1>2

LEMMA GoTyped ==
    ASSUME TypeOK, NEW s \in Slots, script[s] # None,
           NEW pc \in Guard \cup Own \cup Wait, Go(s, pc)
    PROVE  script' \in [Slots -> Script \cup {None}]
<1>1. [script[s] EXCEPT !.pc = pc] \in Script
  BY ScriptFields DEF Script
<1>2. script' = [script EXCEPT ![s] = [script[s] EXCEPT !.pc = pc]]
  BY DEF Go
<1>. QED
  BY ONLY TypeOK, <1>1, <1>2, ScriptTyped

\* A script that is at one of these places only moves on or ends.
LEMMA MovesTyped ==
    ASSUME TypeOK, NEW s \in Slots,
           \/ GuardProbes(s) \/ GuardRemoves(s) \/ WaitProbes(s) \/ WaitLoops(s)
           \/ WaitRemoves(s) \/ SetupDone(s) \/ Pings(s) \/ CurlEnds(s)
           \/ PidfileOpened(s) \/ PidfileWritten(s) \/ Checks(s) \/ ChildEnded(s)
    PROVE  TypeOK'
<1>1. script[s] # None /\ UNCHANGED monit
  BY DEF GuardProbes, GuardRemoves, WaitProbes, WaitLoops, WaitRemoves, SetupDone, Pings,
         CurlEnds, PidfileOpened, PidfileWritten, Checks, ChildEnded, At
<1>2. \/ Exit(s)
      \/ (\E pc \in Guard \cup Own \cup Wait : Go(s, pc)) /\ proc' = proc
  <2>1. CASE GuardProbes(s)
    BY <2>1 DEF GuardProbes, Guard, Own, Wait
  <2>2. CASE GuardRemoves(s)
    BY <2>2 DEF GuardRemoves, Guard, Own, Wait
  <2>3. CASE WaitProbes(s)
    BY <2>3 DEF WaitProbes, Guard, Own, Wait
  <2>4. CASE WaitLoops(s)
    BY <2>4 DEF WaitLoops, Guard, Own, Wait
  <2>5. CASE WaitRemoves(s)
    BY <2>5 DEF WaitRemoves, Guard, Own, Wait
  <2>6. CASE SetupDone(s)
    BY <2>6 DEF SetupDone, Guard, Own, Wait
  <2>7. CASE Pings(s)
    BY <2>7 DEF Pings, Guard, Own, Wait
  <2>8. CASE CurlEnds(s)
    BY <2>8 DEF CurlEnds, Guard, Own, Wait
  <2>9. CASE PidfileOpened(s)
    BY <2>9 DEF PidfileOpened, Guard, Own, Wait
  <2>10. CASE PidfileWritten(s)
    BY <2>10 DEF PidfileWritten, Guard, Own, Wait
  <2>11. CASE Checks(s)
    BY <2>11 DEF Checks, Guard, Own, Wait
  <2>12. CASE ChildEnded(s)
    BY <2>12 DEF ChildEnded, Guard, Own, Wait
  <2>. QED
    BY <2>1, <2>2, <2>3, <2>4, <2>5, <2>6, <2>7, <2>8, <2>9, <2>10, <2>11, <2>12
<1>3. /\ script' \in [Slots -> Script \cup {None}]
      /\ proc' \in [Pids -> Role \cup {None}]
  BY <1>1, <1>2, ExitTyped, GoTyped DEF TypeOK
<1>4. file' \in [Files -> Pids \cup {None, Empty}]
  BY <1>1, ScriptFields
     DEF GuardProbes, GuardRemoves, WaitProbes, WaitLoops, WaitRemoves, SetupDone, Pings,
         CurlEnds, PidfileOpened, PidfileWritten, Checks, ChildEnded, TypeOK
<1>. QED
  BY <1>1, <1>3, <1>4 DEF TypeOK, monit

\* A script changes more than its place.
LEMMA RecordsTyped ==
    ASSUME TypeOK, NEW s \in Slots,
           \/ GuardReads(s) \/ WaitReads(s) \/ WaitTerminates(s) \/ WaitCounts(s)
           \/ WaitKills(s) \/ Launches(s) \/ Fails(s)
    PROVE  TypeOK'
<1>1. /\ script[s] # None /\ script[s] \in Script /\ script[s].left \in Nat
      /\ script[s].child \in Pids \cup {None} /\ UNCHANGED monit
  BY ScriptFields
     DEF GuardReads, WaitReads, WaitTerminates, WaitCounts, WaitKills, Launches, Fails, At
<1>. DEFINE Typed == /\ script' \in [Slots -> Script \cup {None}]
                     /\ proc' \in [Pids -> Role \cup {None}]
                     /\ file' \in [Files -> Pids \cup {None, Empty}]
<1>. SUFFICES Typed
  BY <1>1 DEF TypeOK, monit
<1>2. CASE GuardReads(s)
  <2>1. file["pid"] \in Pids \cup {None, Empty}
    BY DEF TypeOK
  <2>2. [script[s] EXCEPT !.pc = "probe", !.target = file["pid"]] \in Script
    BY <1>1, <2>1 DEF Script, Guard
  <2>3. CASE file["pid"] = None
    <3>1. Go(s, "setup") /\ UNCHANGED <<proc, file>>
      BY <1>2, <2>3 DEF GuardReads
    <3>9. script' \in [Slots -> Script \cup {None}]
      BY <1>1, <3>1, GoTyped DEF Own
    <3>. QED
      BY <1>1, <3>1, <3>9 DEF TypeOK
  <2>4. CASE file["pid"] # None
    <3>1. /\ script' = [script EXCEPT ![s] =
                           [script[s] EXCEPT !.pc = "probe", !.target = file["pid"]]]
          /\ UNCHANGED <<proc, file>>
      BY <1>2, <2>4 DEF GuardReads
    <3>9. script' \in [Slots -> Script \cup {None}]
      BY <2>2, <3>1, ScriptTyped
    <3>. QED
      BY <2>2, <3>1, <3>9 DEF TypeOK
  <2>. QED
    BY <2>3, <2>4
<1>3. CASE WaitReads(s)
  <2>1. CASE file[script[s].file] \in Pids
    <3>1. [script[s] EXCEPT !.pc = "alive", !.target = file[script[s].file]] \in Script
      BY <1>1, <2>1 DEF Script, Wait
    <3>2. /\ script' = [script EXCEPT ![s] =
                           [script[s] EXCEPT !.pc = "alive", !.target = file[script[s].file]]]
          /\ UNCHANGED <<proc, file>>
      BY <1>3, <2>1 DEF WaitReads
    <3>9. script' \in [Slots -> Script \cup {None}]
      BY <3>1, <3>2, ScriptTyped
    <3>. QED
      BY <3>1, <3>2, <3>9 DEF TypeOK
  <2>2. CASE file[script[s].file] \notin Pids
    BY <1>1, <1>3, <2>2, ExitTyped DEF WaitReads, TypeOK
  <2>. QED
    BY <2>1, <2>2
<1>4. CASE WaitTerminates(s)
  <2>1. CASE Exit(s)
    BY <1>1, <1>4, <2>1, ExitTyped DEF WaitTerminates, TypeOK
  <2>2. CASE ~Exit(s)
    <3>1. KillTimeout \in 0..(KillTimeout + StartDelay + StartWait)
      OBVIOUS
    <3>2. [script[s] EXCEPT !.pc = "loop", !.left = KillTimeout] \in Script
      BY <1>1, <3>1 DEF Script, Wait
    <3>3. /\ script' = [script EXCEPT ![s] =
                           [script[s] EXCEPT !.pc = "loop", !.left = KillTimeout]]
          /\ UNCHANGED <<proc, file>>
      BY <1>4, <2>2 DEF WaitTerminates
    <3>9. script' \in [Slots -> Script \cup {None}]
      BY <3>2, <3>3, ScriptTyped
    <3>. QED
      BY <3>2, <3>3, <3>9 DEF TypeOK
  <2>. QED
    BY <2>1, <2>2
<1>5. CASE WaitCounts(s)
  <2>. DEFINE left == IF KillTimeout = 0 THEN 0 ELSE script[s].left - 1
  <2>1. left \in 0..(KillTimeout + StartDelay + StartWait)
    <3>1. KillTimeout = 0 \/ script[s].left > 0
      BY <1>5 DEF WaitCounts, TurnsLeft
    <3>2. script[s].left \in 0..(KillTimeout + StartDelay + StartWait)
      BY <1>1 DEF Script
    <3>. QED
      BY <3>1, <3>2
  <2>2. /\ script' = [script EXCEPT ![s] = [script[s] EXCEPT !.pc = "loop", !.left = left]]
        /\ UNCHANGED <<proc, file>>
    BY <1>5 DEF WaitCounts
  <2>. HIDE DEF left
  <2>3. [script[s] EXCEPT !.pc = "loop", !.left = left] \in Script
    BY <1>1, <2>1 DEF Script, Wait
  <2>9. script' \in [Slots -> Script \cup {None}]
    BY <2>2, <2>3, ScriptTyped
  <2>. QED
    BY <2>2, <2>3, <2>9 DEF TypeOK
<1>6. CASE WaitKills(s)
  <2>1. file' = file
    BY <1>6 DEF WaitKills
  <2>2. CASE Go(s, "rm") /\ UNCHANGED proc
    <3>1. script' \in [Slots -> Script \cup {None}]
      BY <1>1, <2>2, GoTyped DEF Wait
    <3>. QED
      BY <2>1, <2>2, <3>1 DEF TypeOK
  <2>3. CASE Go(s, "settle") /\ UNCHANGED proc
    <3>1. script' \in [Slots -> Script \cup {None}]
      BY <1>1, <2>3, GoTyped DEF Wait
    <3>. QED
      BY <2>1, <2>3, <3>1 DEF TypeOK
  <2>4. CASE Exit(s)
    <3>1. /\ script' \in [Slots -> Script \cup {None}]
          /\ proc' \in [Pids -> Role \cup {None}]
      BY <1>1, <2>4, ExitTyped
    <3>. QED
      BY <2>1, <3>1 DEF TypeOK
  <2>. DEFINE left == WithoutScriptOf(script[s].target)
              r == [left[s] EXCEPT !.pc = "settle"]
  <2>5. CASE /\ Runs(script[s].target)
             /\ proc' = [proc EXCEPT ![script[s].target] = None]
             /\ script' = IF left[s] = None THEN left ELSE [left EXCEPT ![s].pc = "settle"]
    <3>1. left \in [Slots -> Script \cup {None}] /\ proc' \in [Pids -> Role \cup {None}]
      BY <2>5, EndTyped DEF Runs
    <3>2. script' = IF left[s] = None THEN left ELSE [left EXCEPT ![s] = r]
      BY <2>5
    <3>3. left[s] = script[s] \/ left[s] = None
      BY DEF WithoutScriptOf
    <3>4. CASE left[s] # None
      <4>1. r \in Script
        BY <1>1, <3>3, <3>4 DEF Script, Wait
      <4>. HIDE DEF left, r
      <4>. QED
        BY <2>1, <3>1, <3>2, <3>4, <4>1 DEF TypeOK
    <3>5. CASE left[s] = None
      BY <2>1, <3>1, <3>2, <3>5 DEF TypeOK
    <3>. QED
      BY <3>4, <3>5
  <2>. QED
    BY <1>6, <2>2, <2>3, <2>4, <2>5 DEF WaitKills
<1>7. CASE Launches(s)
  <2>1. PICK p \in Pids :
           /\ Fresh(p) /\ proc' = [proc EXCEPT ![p] = "job"]
           /\ script' = [script EXCEPT ![s].pc = "ping", ![s].child = p, ![s].left = StartWait]
    BY <1>7, Zenon DEF Launches
  <2>2. StartWait \in 0..(KillTimeout + StartDelay + StartWait)
    OBVIOUS
  <2>3. [script[s] EXCEPT !.pc = "ping", !.child = p, !.left = StartWait] \in Script
    BY <1>1, <2>2 DEF Script, Own
  <2>4. script' = [script EXCEPT ![s] =
                     [script[s] EXCEPT !.pc = "ping", !.child = p, !.left = StartWait]]
    BY <2>1
  <2>5. file' = file /\ proc' \in [Pids -> Role \cup {None}]
    BY <1>7, <2>1 DEF Launches, TypeOK, Role
  <2>9. script' \in [Slots -> Script \cup {None}]
    BY <2>3, <2>4, <2>5, ScriptTyped
  <2>. QED
    BY <2>3, <2>4, <2>5, <2>9 DEF TypeOK
<1>8. CASE Fails(s)
  <2>1. [script[s] EXCEPT !.pc = "wait", !.file = "fail"] \in Script
    BY <1>1 DEF Script, Wait
  <2>2. /\ script' = [script EXCEPT ![s] = [script[s] EXCEPT !.pc = "wait", !.file = "fail"]]
        /\ file' = [file EXCEPT !["fail"] = script[s].child] /\ proc' = proc
    BY <1>8 DEF Fails
  <2>9. script' \in [Slots -> Script \cup {None}]
    BY <1>1, <2>1, <2>2, ScriptTyped
  <2>. QED
    BY <1>1, <2>1, <2>2, <2>9 DEF TypeOK
<1>. QED
  BY <1>2, <1>3, <1>4, <1>5, <1>6, <1>7, <1>8

LEMMA SpawnTyped ==
    ASSUME TypeOK, NEW s \in Slots, NEW pc \in {"guard", "wait"},
           NEW self \in Pids \cup {None}, Spawn(s, pc, self)
    PROVE  script' \in [Slots -> Script \cup {None}]
<1>1. StartDelay \in 0..(KillTimeout + StartDelay + StartWait)
  OBVIOUS
<1>2. [pc |-> pc, self |-> self, child |-> None, target |-> None, file |-> "pid",
       left |-> StartDelay] \in Script
  BY <1>1 DEF Script, Guard, Wait
<1>. QED
  BY <1>2, ScriptTyped DEF Spawn

LEMMA WakeTyped ==
    ASSUME NEW x \in Script PROVE Wake(x) \in Script
<1>. DEFINE n == Less(x.left)
<1>1. x.left \in 0..(KillTimeout + StartDelay + StartWait)
  BY DEF Script
<1>2. n \in 0..(KillTimeout + StartDelay + StartWait)
  BY <1>1 DEF Less
<1>. HIDE DEF n
<1>3. [x EXCEPT !.pc = "ping", !.left = n] \in Script
  BY <1>2 DEF Script, Own
<1>4. [x EXCEPT !.left = n] \in Script
  BY <1>2 DEF Script
<1>5. [x EXCEPT !.pc = "woke"] \in Script /\ [x EXCEPT !.pc = "rm"] \in Script
  BY DEF Script, Wait
<1>. QED
  BY <1>3, <1>4, <1>5 DEF Wake, n

LEMMA NextTyped ==
    ASSUME TypeOK, [Next]_repVars PROVE TypeOK'
<1>1. CASE MonitStarts
  <2>1. PICK s \in Slots, p \in Pids :
           Spawn(s, "guard", p) /\ proc' = [proc EXCEPT ![p] = "start"]
    BY <1>1 DEF MonitStarts
  <2>2. script' \in [Slots -> Script \cup {None}] /\ proc' \in [Pids -> Role \cup {None}]
    BY <2>1, SpawnTyped DEF TypeOK, Role
  <2>. QED
    BY <1>1, <2>2 DEF MonitStarts, TypeOK
<1>2. CASE MonitStops
  <2>1. PICK s \in Slots : Spawn(s, "wait", None)
    BY <1>2 DEF MonitStops
  <2>2. script' \in [Slots -> Script \cup {None}]
    BY <2>1, SpawnTyped
  <2>. QED
    BY <1>2, <2>2 DEF MonitStops, TypeOK
<1>3. CASE OperatorStarts \/ MonitSees \/ MonitGivesUp
  BY <1>3 DEF OperatorStarts, MonitSees, MonitGivesUp, TypeOK
<1>4. CASE \E p \in Pids : ProcessEnds(p)
  <2>1. /\ script' \in [Slots -> Script \cup {None}]
        /\ proc' \in [Pids -> Role \cup {None}] /\ UNCHANGED <<file, monit>>
    BY <1>4, EndTyped DEF ProcessEnds, End
  <2>. QED
    BY <2>1 DEF TypeOK, monit
<1>5. CASE \E p \in Pids : OtherStarts(p) \/ JobComesUp(p)
  BY <1>5 DEF OtherStarts, JobComesUp, TypeOK, Role, monit
<1>6. CASE Tick
  <2>1. \A s \in Slots : script[s] # None => Wake(script[s]) \in Script
    BY WakeTyped, ScriptFields
  <2>2. script' \in [Slots -> Script \cup {None}]
    BY <1>6, <2>1 DEF Tick
  <2>3. timer' \in 0..MonitTimeout
    BY <1>6 DEF Tick, TypeOK
  <2>. QED
    BY <1>6, <2>2, <2>3 DEF Tick, TypeOK
<1>7. CASE \E s \in Slots : CtlStep(s)
  BY <1>7, MovesTyped, RecordsTyped DEF CtlStep, PidUtilsStep
<1>8. CASE UNCHANGED repVars
  BY <1>8 DEF repVars, vars, TypeOK
<1>. QED
  BY <1>1, <1>2, <1>3, <1>4, <1>5, <1>6, <1>7, <1>8 DEF Next

-----------------------------------------------------------------------------
(* The theorems. *)

RInv == RepTypeOK /\ (abandoned \/ IInv)

LEMMA RInvIsInvariant ==
    ASSUME Assumed PROVE Spec => []RInv
<1>1. RepInit => RInv
  BY InitIInv DEF RepInit, RInv, RepTypeOK, IInv
<1>2. ASSUME RInv, [Next]_repVars PROVE RInv'
  <2>1. TypeOK'
    BY <1>2, NextTyped DEF RInv, RepTypeOK
  <2>2. abandoned' \in BOOLEAN /\ (abandoned => abandoned')
    BY <1>2 DEF RInv, RepTypeOK, Next, repVars
  <2>3. abandoned' \/ IInv'
    BY <1>2, <2>2, NextInv DEF RInv
  <2>. QED
    BY <2>1, <2>2, <2>3 DEF RInv, RepTypeOK
<1>. QED
  BY <1>1, <1>2, PTL DEF Spec

\* Whatever the number of pids and scripts and whatever the times, the state is
\* well typed, after a script was abandoned as well.
THEOREM TypeCorrect ==
    Spec => []RepTypeOK
<1>1. RepInit => RepTypeOK
  BY InitIInv DEF RepInit, RepTypeOK, IInv
<1>2. ASSUME RepTypeOK, [Next]_repVars PROVE RepTypeOK'
  BY <1>2, NextTyped DEF RepTypeOK, Next, repVars
<1>. QED
  BY <1>1, <1>2, PTL DEF Spec

\* Unless monit went on before a script was over or a start died over a rep that
\* it had not recorded, every rep that runs is in the pidfile, or its start is
\* still there to record or to kill it.
THEOREM DaemonIsAccounted ==
    ASSUME Assumed PROVE Spec => []RepIsAccounted
<1>1. RInv => RepIsAccounted
  BY DEF RInv, IInv, RepIsAccounted
<1>. QED
  BY <1>1, RInvIsInvariant, PTL

\* A daemon that is not in the pidfile is the one monit waits for.
LEMMA JobWithoutPidfile ==
    ASSUME IInv, NEW p \in Jobs, file["pid"] # p
    PROVE  ~Running /\ doing = "start" /\ \E s \in Slots : Current(s) /\ script[s].child = p
<1>1. p \in Pids /\ Runs(p)
  BY DEF Jobs, Runs, Role
<1>2. PICK s \in Slots : script[s] # None /\ script[s].child = p /\ ~At(s, "child")
  BY DEF IInv, JobIsAccounted
<1>3. script[s].self # None
  BY <1>1, <1>2 DEF IInv, ScriptOK, StopOK
<1>4. Current(s)
  BY <1>1, <1>2, <1>3, OtherIsOver DEF At
<1>. QED
  BY <1>2, <1>4, CurrentIsAlone

\* Unless a script was abandoned, the rep never runs twice: however long a start
\* pings, hangs and kills, and whatever ends meanwhile, no other start launches.
THEOREM DaemonRunsOnce ==
    ASSUME Assumed PROVE Spec => []RepRunsOnce
<1>1. ASSUME IInv, NEW p \in Jobs, NEW q \in Jobs PROVE p = q
  <2>1. CASE file["pid"] = p \/ file["pid"] = q
    <3>1. Running
      BY <2>1 DEF Running, Runs, Jobs, Role
    <3>. QED
      BY <1>1, <2>1, <3>1, JobWithoutPidfile
  <2>2. CASE file["pid"] # p /\ file["pid"] # q
    BY <1>1, <2>2, JobWithoutPidfile DEF IInv, OneCurrent
  <2>. QED
    BY <2>1, <2>2
<1>2. RInv => RepRunsOnce
  BY <1>1 DEF RInv, RepRunsOnce, AtMostOneJob
<1>. QED
  BY <1>2, RInvIsInvariant, PTL

\* Unless a script was abandoned, no rep runs when monit is done with a stop, not
\* even one in the background, and none is about to be launched.
THEOREM StopLeavesNothing ==
    ASSUME Assumed PROVE Spec => []StopLeavesNoRep
<1>1. ASSUME IInv, mode = "stop", doing = "idle"
      PROVE  Jobs = {} /\ \A s \in Slots : ~Launching(s)
  <2>1. ~Running
    BY <1>1 DEF IInv, MonitOK
  <2>2. Jobs = {}
    BY <1>1, <2>1, JobWithoutPidfile DEF Jobs, Running, Runs, Role
  <2>3. \A s \in Slots : ~Launching(s)
    BY <1>1, NoneIsCurrent DEF Launching, Current
  <2>. QED
    BY <2>2, <2>3
<1>2. RInv => StopLeavesNoRep
  BY <1>1 DEF RInv, StopLeavesNoRep, StoppedMeansGone
<1>. QED
  BY <1>2, RInvIsInvariant, PTL
=============================================================================
