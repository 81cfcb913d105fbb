------------------------------- MODULE Monit -------------------------------
(***************************************************************************)
(* The environment of the ctl scripts of one job: monit, the operator (or  *)
(* BOSH agent) that asks it to start and stop the job, and the passing of  *)
(* time.  Monit is not in the repository; it is modelled from the monit    *)
(* files of the jobs, which name a pidfile, a start program, a stop        *)
(* program and a timeout, and from the start programs that stay in the     *)
(* foreground as long as the daemon lives: monit can only know by the      *)
(* pidfile that a start succeeded.                                         *)
(***************************************************************************)
EXTENDS PidUtils

CONSTANT WaitsForExit \* monit waits for a stop program to exit, and does not
                      \* go on as soon as the pidfile's process is gone
ASSUME WaitsAssumption == WaitsForExit \in BOOLEAN

Jobs == {p \in Pids : proc[p] \in {"job", "up"}}

Running == Runs(file["pid"])   \* monit's check of the pidfile

StopExited == \A s \in Slots : script[s] # None => script[s].self # None

Reached ==
    \/ doing = "start" /\ Running
    \/ doing = "stop" /\ ~Running /\ (WaitsForExit => StopExited)

Spawn(s, pc, self) ==
    /\ script[s] = None
    /\ script' = [script EXCEPT ![s] =
          [pc |-> pc, self |-> self, child |-> None, target |-> None,
           file |-> "pid", left |-> StartDelay]]

\* monit start, and every cycle in which the monitored process is not running.
MonitStarts ==
    /\ mode = "run" /\ doing = "idle" /\ ~Running
    /\ \E s \in Slots, p \in Pids :
          /\ Fresh(p)
          /\ Spawn(s, "guard", p)
          /\ proc' = [proc EXCEPT ![p] = "start"]
    /\ doing' = "start" /\ timer' = 0
    /\ UNCHANGED <<file, mode>>

MonitStops ==
    /\ mode = "run" /\ doing = "idle"
    /\ \E s \in Slots : Spawn(s, "wait", None)
    /\ mode' = "stop" /\ doing' = "stop" /\ timer' = 0
    /\ UNCHANGED <<proc, file>>

OperatorStarts ==
    /\ mode = "stop" /\ doing = "idle"
    /\ mode' = "run"
    /\ UNCHANGED <<proc, file, script, doing, timer>>

MonitSees ==
    /\ Reached
    /\ doing' = "idle"
    /\ UNCHANGED <<proc, file, script, mode, timer>>

MonitGivesUp ==
    /\ doing # "idle" /\ timer = MonitTimeout /\ ~Reached
    /\ doing' = "idle"
    /\ UNCHANGED <<proc, file, script, mode, timer>>

\* The daemon crashes or obeys a signal; a start script fails or is killed, at
\* any line of it; other processes come and go.
ProcessEnds(p) ==
    /\ proc[p] # None
    /\ End(p)
    /\ UNCHANGED <<file, monit>>

OtherStarts(p) ==
    /\ Fresh(p)
    /\ \A q \in Pids : proc[q] # "other"   \* bound: one other process
    /\ proc' = [proc EXCEPT ![p] = "other"]
    /\ UNCHANGED <<file, script, monit>>

\* What follows the pidfile (crontab, setcap) may take any time, and so may a
\* curl, which has no --max-time.
Asleep(s) ==
    \/ \E pc \in {"nap", "settle", "curl", "pingnap", "child", "exec"} : At(s, pc)
    \/ At(s, "setup") /\ script[s].left > 0

Less(n) == IF n = 0 THEN 0 ELSE n - 1

Wake(x) ==
    CASE x.pc = "nap"               -> [x EXCEPT !.pc = "woke"]
      [] x.pc = "settle"            -> [x EXCEPT !.pc = "rm"]
      [] x.pc = "pingnap"           -> [x EXCEPT !.pc = "ping", !.left = Less(x.left)]
      [] x.pc \in {"curl", "setup"} -> [x EXCEPT !.left = Less(x.left)]
      [] OTHER                      -> x

Tick ==
    /\ \A s \in Slots : script[s] # None => Asleep(s)
    /\ doing # "idle" => timer < MonitTimeout
    /\ doing # "idle" \/ \E s \in Slots : Asleep(s) /\ ~At(s, "child")
    /\ script' = [s \in Slots |-> IF script[s] = None THEN None ELSE Wake(script[s])]
    /\ timer' = IF doing = "idle" THEN timer ELSE timer + 1
    /\ UNCHANGED <<proc, file, mode, doing>>

Environment ==
    \/ MonitStarts \/ MonitStops \/ OperatorStarts \/ MonitSees \/ MonitGivesUp
    \/ \E p \in Pids : ProcessEnds(p) \/ OtherStarts(p)
    \/ Tick

-----------------------------------------------------------------------------
(* Properties of every kind of ctl script. *)

TypeOK ==
    /\ proc \in [Pids -> Role \cup {None}]
    /\ file \in [Files -> Pids \cup {None, Empty}]
    /\ script \in [Slots -> Script \cup {None}]
    /\ mode \in {"run", "stop"} /\ doing \in {"idle", "start", "stop"}
    /\ timer \in 0..MonitTimeout

\* A start script that has not launched its daemon yet.
Launching(s) ==
    script[s] # None /\ script[s].self # None /\ script[s].child = None

\* The job never runs twice (pid_guard: "is already running, please stop it
\* first"), though the guard looks at the pidfile long before the new daemon
\* is in it.
AtMostOneJob == \A p, q \in Jobs : p = q

\* When monit is done with a stop, no daemon runs and no start script is about
\* to launch one (kill_and_wait).
StoppedMeansGone ==
    mode = "stop" /\ doing = "idle" => Jobs = {} /\ \A s \in Slots : ~Launching(s)

\* pid_guard refuses a start only if the job runs ("is already running, please
\* stop it first").
RefusedMeansRunning ==
    [][\A s \in Slots :
          GuardProbes(s) /\ script'[s] = None => proc[script[s].target] # "other"]_vars
=============================================================================
