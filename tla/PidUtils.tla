------------------------------ MODULE PidUtils ------------------------------
(***************************************************************************)
(* pid_guard and kill_and_wait (cf-release/src/common/utils.sh and         *)
(* diego-release/src/pid_utils.sh), the two functions every job's ctl      *)
(* script is built on, one action per command; with monit, which runs the  *)
(* scripts and judges them by the pidfile.  What a start script does after *)
(* pid_guard is left to the modules that extend this one.                  *)
(*                                                                         *)
(* One tick is a second, ten turns of the loop in wait_pidfile.  Testing a *)
(* file and reading it is one step, and a command takes no time: a tick    *)
(* passes when every script that runs sleeps, waits or does the setup of   *)
(* its job, which may take StartDelay.                                     *)
(***************************************************************************)
EXTENDS Naturals, FiniteSets

CONSTANTS
    Pids,        \* process ids
    Slots,       \* bound: ctl scripts that run at the same time
    Files,       \* the pidfiles of the job; "pid" is the one monit watches
    KillTimeout, \* seconds kill_and_wait waits before kill -9; 0: for ever
    StartDelay,  \* seconds the commands between pid_guard and the pidfile take
    StartWait,   \* seconds the start script waits for the daemon to answer
    MonitTimeout,\* seconds monit waits for a start or a stop
    Errexit,     \* the ctl script runs under bash -e
    Reuse,       \* the kernel may reuse a pid that a pidfile or script names
    None, Empty  \* no pidfile, and a pidfile without a pid in it

ASSUME TimesAssumption ==
    KillTimeout \in Nat /\ StartDelay \in Nat /\ StartWait \in Nat /\ MonitTimeout \in Nat
ASSUME FlagsAssumption == Errexit \in BOOLEAN /\ Reuse \in BOOLEAN
ASSUME FilesAssumption == "pid" \in Files

VARIABLES
    proc,   \* pid -> what runs under it
    file,   \* pidfile -> its content
    script, \* slot -> the ctl script running in it
    mode,   \* what the operator asked monit for
    doing,  \* what monit waits for
    timer   \* seconds monit has waited

vars == <<proc, file, script, mode, doing, timer>>
monit == <<mode, doing, timer>>

\* A start script, a daemon, a daemon that answers requests, anything else.
Role == {"start", "job", "up", "other"}

\* Where a script is: in pid_guard, in the job's own commands, in wait_pidfile.
Guard == {"guard", "probe", "unlink"}
Own   == {"setup", "open", "write", "exec", "launch", "ping", "curl",
          "pingnap", "check", "fail", "child"}
Wait  == {"wait", "alive", "term", "loop", "nap", "woke", "settle", "rm"}

Script == [pc : Guard \cup Own \cup Wait,
           self : Pids \cup {None}, child : Pids \cup {None},
           target : Pids \cup {None, Empty}, file : Files,
           left : 0..(KillTimeout + StartDelay + StartWait)]

ASSUME MarkersAssumption ==
    /\ None \notin Pids \cup Role \cup Script
    /\ Empty \notin Pids \cup {None}

Init ==
    /\ proc = [p \in Pids |-> None]
    /\ file = [f \in Files |-> None]
    /\ script = [s \in Slots |-> None]
    /\ mode = "stop" /\ doing = "idle" /\ timer = 0

Runs(p) == p \in Pids /\ proc[p] # None   \* [ -e /proc/$pid ]

At(s, pc) == script[s] # None /\ script[s].pc = pc

\* A pid the kernel may give to a new process.
Fresh(p) ==
    /\ proc[p] = None
    /\ Reuse \/ /\ \A f \in Files : file[f] # p
                /\ \A s \in Slots : script[s] # None =>
                      p \notin {script[s].target, script[s].child}

\* Script s goes on at pc; it ends; the process p ends, a script or not.
Go(s, pc) == script' = [script EXCEPT ![s].pc = pc]

Exit(s) ==
    /\ script' = [script EXCEPT ![s] = None]
    /\ proc' = IF script[s].self = None THEN proc
               ELSE [proc EXCEPT ![script[s].self] = None]

WithoutScriptOf(p) ==
    [s \in Slots |-> IF script[s] # None /\ script[s].self = p THEN None ELSE script[s]]

End(p) ==
    /\ proc' = [proc EXCEPT ![p] = None]
    /\ script' = WithoutScriptOf(p)

\* A command that fails ends the script, unless it launched its daemon in the
\* background (set +e in rep_ctl).
Strict(s) == Errexit /\ script[s].child = None

-----------------------------------------------------------------------------
(* Mistakes the code does not make; each must break a property. *)

BugAlwaysRuns(s)  == TRUE
BugAlwaysTurns(s) == TRUE
BugNoForce        == FALSE

-----------------------------------------------------------------------------
(* pid_guard *)

GuardReads(s) ==
    /\ At(s, "guard")
    /\ IF file["pid"] = None THEN Go(s, "setup")
       ELSE script' = [script EXCEPT ![s].pc = "probe", ![s].target = file["pid"]]
    /\ UNCHANGED <<proc, file, monit>>

\* [ -n "$pid" ] && [ -e /proc/$pid ]
StillRuns(s) == Runs(script[s].target)

GuardProbes(s) ==
    /\ At(s, "probe")
    /\ IF StillRuns(s)
       THEN Exit(s)                                    \* "is already running"
       ELSE Go(s, "unlink") /\ UNCHANGED proc
    /\ UNCHANGED <<file, monit>>

GuardRemoves(s) ==
    /\ At(s, "unlink")
    /\ IF file["pid"] = None /\ Strict(s) THEN Exit(s)
       ELSE Go(s, "setup") /\ UNCHANGED proc
    /\ file' = [file EXCEPT !["pid"] = None]
    /\ UNCHANGED monit

-----------------------------------------------------------------------------
(* kill_and_wait: wait_pidfile $pidfile 1 $timeout $force *)

ForcesKill == TRUE   \* force=${3:-1}

TurnsLeft(s) == KillTimeout = 0 \/ script[s].left > 0

WaitReads(s) ==
    /\ At(s, "wait")
    /\ IF file[script[s].file] \in Pids
       THEN /\ script' = [script EXCEPT ![s].pc = "alive",
                                        ![s].target = file[script[s].file]]
            /\ UNCHANGED proc
       ELSE Exit(s)               \* no pidfile, or "Unable to get pid from"
    /\ UNCHANGED <<file, monit>>

WaitProbes(s) ==
    /\ At(s, "alive")
    /\ Go(s, IF Runs(script[s].target) THEN "term" ELSE "rm")
    /\ UNCHANGED <<proc, file, monit>>

\* kill $pid fails when the process ended since it was seen, which ends a
\* script that is strict before it removes the pidfile.  What the process
\* does with the signal is up to it.
WaitTerminates(s) ==
    /\ At(s, "term")
    /\ IF Strict(s) /\ ~Runs(script[s].target) THEN Exit(s)
       ELSE /\ script' = [script EXCEPT ![s].pc = "loop", ![s].left = KillTimeout]
            /\ UNCHANGED proc
    /\ UNCHANGED <<file, monit>>

WaitLoops(s) ==
    /\ At(s, "loop")
    /\ Go(s, IF Runs(script[s].target) THEN "nap" ELSE "rm")
    /\ UNCHANGED <<proc, file, monit>>

\* After the nap: a second less to wait, for ever if there is no timeout.
WaitCounts(s) ==
    /\ At(s, "woke")
    /\ TurnsLeft(s)
    /\ script' = [script EXCEPT ![s].pc = "loop",
          ![s].left = IF KillTimeout = 0 THEN 0 ELSE script[s].left - 1]
    /\ UNCHANGED <<proc, file, monit>>

\* kill -9 $pid; sleep 0.5: the process is gone when the script wakes up.
WaitKills(s) ==
    /\ At(s, "woke")
    /\ KillTimeout > 0 /\ script[s].left = 0
    /\ IF ~ForcesKill THEN Go(s, "rm") /\ UNCHANGED proc
       ELSE IF Runs(script[s].target)
       THEN /\ proc' = [proc EXCEPT ![script[s].target] = None]
            /\ LET left == WithoutScriptOf(script[s].target)
               IN  script' = IF left[s] = None THEN left
                             ELSE [left EXCEPT ![s].pc = "settle"]
       ELSE IF Strict(s) THEN Exit(s) ELSE Go(s, "settle") /\ UNCHANGED proc
    /\ UNCHANGED <<file, monit>>

WaitRemoves(s) ==
    /\ At(s, "rm")
    /\ file' = [file EXCEPT ![script[s].file] = None]
    /\ Exit(s)
    /\ UNCHANGED monit

PidUtilsStep(s) ==
    \/ GuardReads(s) \/ GuardProbes(s) \/ GuardRemoves(s)
    \/ WaitReads(s) \/ WaitProbes(s) \/ WaitTerminates(s)
    \/ WaitLoops(s) \/ WaitCounts(s) \/ WaitKills(s) \/ WaitRemoves(s)
=============================================================================
