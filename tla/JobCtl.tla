------------------------------- MODULE JobCtl -------------------------------
(***************************************************************************)
(* A job whose ctl script becomes the daemon: gorouter_ctl, receptor_ctl   *)
(* and some thirty others.  After pid_guard the script makes directories   *)
(* and changes owners, writes its own pid to the pidfile, and execs the    *)
(* daemon under that pid.                                                  *)
(***************************************************************************)
EXTENDS Monit

\* A mistake the code does not make: no echo $$ > $PIDFILE.
BugNoPidfile(s) ==
    /\ At(s, "setup")
    /\ Go(s, "exec")
    /\ UNCHANGED <<proc, file, monit>>

\* mkdir, chown: done at any time within StartDelay.
SetupDone(s) ==
    /\ At(s, "setup")
    /\ Go(s, "open")
    /\ UNCHANGED <<proc, file, monit>>

\* echo $$ > $PIDFILE: the file is truncated, then written.
PidfileOpened(s) ==
    /\ At(s, "open")
    /\ file' = [file EXCEPT !["pid"] = Empty]
    /\ Go(s, "write")
    /\ UNCHANGED <<proc, monit>>

PidfileWritten(s) ==
    /\ At(s, "write")
    /\ file' = [file EXCEPT !["pid"] = script[s].self]
    /\ Go(s, "exec")
    /\ UNCHANGED <<proc, monit>>

\* exec: the script is the daemon from now on.
Execs(s) ==
    /\ At(s, "exec")
    /\ proc' = [proc EXCEPT ![script[s].self] = "job"]
    /\ script' = [script EXCEPT ![s] = None]
    /\ UNCHANGED <<file, monit>>

CtlStep(s) ==
    PidUtilsStep(s) \/ SetupDone(s) \/ PidfileOpened(s) \/ PidfileWritten(s) \/ Execs(s)

Next == Environment \/ \E s \in Slots : CtlStep(s)

Spec == Init /\ [][Next]_vars

-----------------------------------------------------------------------------

\* The times the jobs choose: kill_and_wait and the start fit in the timeout
\* of monit ("Append 'with timeout {n} seconds' to monit start/stop program").
TimesFit ==
    /\ KillTimeout > 0 /\ KillTimeout + 2 < MonitTimeout
    /\ StartDelay < MonitTimeout

\* The daemon is always the one monit watches and stop will find: the pidfile
\* is written before the exec and removed only after the daemon is gone.
JobIsRecorded == \A p \in Jobs : file["pid"] = p

\* Monit, the scripts and time go on; operator and processes do as they like.
FairSpec ==
    /\ Spec
    /\ WF_vars(Tick) /\ WF_vars(MonitSees) /\ WF_vars(MonitGivesUp) /\ WF_vars(MonitStarts)
    /\ \A s \in Slots : WF_vars(CtlStep(s))

\* A stop gets rid of the daemon, whatever it does with a TERM (kill -9).
StopTakesEffect == mode = "stop" ~> Jobs = {}

\* If from some time on the operator wants the job and no process ends but by
\* what a script does, the job runs for good: no stale pidfile keeps it down.
JobComesBack ==
    /\ <>[](mode = "run")
    /\ <>[][\A p \in Pids : ProcessEnds(p) => \E s \in Slots : CtlStep(s)]_vars
    => <>[](Jobs # {})
=============================================================================
