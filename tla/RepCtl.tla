------------------------------- MODULE RepCtl -------------------------------
(***************************************************************************)
(* rep_ctl: the daemon is started in the background and its pid is written *)
(* to the pidfile only once it answers a ping; the script stays with it.   *)
(* A daemon that does not answer in time is killed through a second        *)
(* pidfile, which neither pid_guard nor monit looks at.                    *)
(*                                                                         *)
(* Nothing bounds what a start takes: a curl may hang, and 25 seconds of   *)
(* pings with 25 of kill_and_wait are more than the 30 that monit waits.   *)
(* A history variable records when a start or a stop was left unfinished,  *)
(* and the properties say that nothing else loses or doubles the daemon.   *)
(***************************************************************************)
EXTENDS Monit

ASSUME FailFileAssumption == "fail" \in Files

VARIABLE abandoned \* whether a script was left at work, or died before it
                   \* recorded its daemon (history)

repVars == <<vars, abandoned>>

\* A mistake the code does not make: the daemon that is late is left alone.
BugNotKilled(s) ==
    /\ At(s, "fail")
    /\ Exit(s)
    /\ UNCHANGED <<file, monit>>

SetupDone(s) ==
    /\ At(s, "setup")
    /\ Go(s, "launch")
    /\ UNCHANGED <<proc, file, monit>>

\* rep ... &    pid=$!    start=`date +%s`
Launches(s) ==
    /\ At(s, "launch")
    /\ \E p \in Pids :
          /\ Fresh(p)
          /\ proc' = [proc EXCEPT ![p] = "job"]
          /\ script' = [script EXCEPT ![s].pc = "ping", ![s].child = p,
                                      ![s].left = StartWait]
    /\ UNCHANGED <<file, monit>>

\* The daemon listens; one process can listen on the address.
JobComesUp(p) ==
    /\ proc[p] = "job"
    /\ \A q \in Pids : proc[q] # "up"
    /\ proc' = [proc EXCEPT ![p] = "up"]
    /\ UNCHANGED <<file, script, monit>>

\* while [ $(( $(date +%s) - 25 )) -lt $start ]
Pings(s) ==
    /\ At(s, "ping")
    /\ Go(s, IF script[s].left = 0 THEN "check" ELSE "curl")
    /\ UNCHANGED <<proc, file, monit>>

\* The curl ends, if ever: it is answered by whichever process listens on the
\* address.
CurlEnds(s) ==
    /\ At(s, "curl")
    /\ Go(s, IF \E p \in Pids : proc[p] = "up" THEN "open" ELSE "pingnap")
    /\ UNCHANGED <<proc, file, monit>>

\* echo $pid > $PIDFILE
PidfileOpened(s) ==
    /\ At(s, "open")
    /\ file' = [file EXCEPT !["pid"] = Empty]
    /\ Go(s, "write")
    /\ UNCHANGED <<proc, monit>>

PidfileWritten(s) ==
    /\ At(s, "write")
    /\ file' = [file EXCEPT !["pid"] = script[s].child]
    /\ Go(s, "check")
    /\ UNCHANGED <<proc, monit>>

\* if [ -f $PIDFILE ]: the file of another start counts as well.  wait returns
\* at once for a pid that is not a child of the script, and without a pid waits
\* for the child.
Checks(s) ==
    /\ At(s, "check")
    /\ IF file["pid"] = None
       THEN Go(s, "fail") /\ UNCHANGED proc
       ELSE IF file["pid"] \in {script[s].child, Empty}
            THEN Go(s, "child") /\ UNCHANGED proc
            ELSE Exit(s)
    /\ UNCHANGED <<file, monit>>

\* echo $pid > ${PIDFILE}.fail; kill_and_wait ${PIDFILE}.fail
Fails(s) ==
    /\ At(s, "fail")
    /\ file' = [file EXCEPT !["fail"] = script[s].child]
    /\ script' = [script EXCEPT ![s].pc = "wait", ![s].file = "fail"]
    /\ UNCHANGED <<proc, monit>>

ChildEnded(s) ==
    /\ At(s, "child")
    /\ ~Runs(script[s].child)
    /\ Exit(s)
    /\ UNCHANGED <<file, monit>>

CtlStep(s) ==
    \/ PidUtilsStep(s)
    \/ SetupDone(s) \/ Launches(s) \/ Pings(s) \/ CurlEnds(s)
    \/ PidfileOpened(s) \/ PidfileWritten(s)
    \/ Checks(s) \/ Fails(s) \/ ChildEnded(s)

-----------------------------------------------------------------------------
(* What the history variable records. *)

\* A script is at work until it ends or has recorded the daemon it waits for.
Recorded(s) == file["pid"] = script[s].child

AtWork(s) ==
    script[s] # None /\ ~At(s, "child") /\ ~(At(s, "check") /\ Recorded(s))

\* Process p is a start script that has launched a daemon and not recorded it.
Unrecorded(p) ==
    \E s \in Slots : /\ script[s] # None /\ script[s].self = p
                      /\ Runs(script[s].child) /\ ~Recorded(s)

Next ==
    \/ /\ MonitSees \/ MonitGivesUp
       /\ abandoned' = (abandoned \/ \E s \in Slots : AtWork(s))
    \/ \E p \in Pids :
          /\ ProcessEnds(p)
          /\ abandoned' = (abandoned \/ Unrecorded(p))
    \/ /\ \/ MonitStarts \/ MonitStops \/ OperatorStarts \/ Tick
          \/ \E p \in Pids : OtherStarts(p) \/ JobComesUp(p)
          \/ \E s \in Slots : CtlStep(s)
       /\ UNCHANGED abandoned

RepInit == Init /\ abandoned = FALSE

Spec == RepInit /\ [][Next]_repVars

-----------------------------------------------------------------------------

RepTypeOK == TypeOK /\ abandoned \in BOOLEAN

\* A daemon is in the pidfile, or the start script that launched it is still
\* there to record or to kill it.
JobIsAccounted ==
    \A p \in Jobs :
        \/ file["pid"] = p
        \/ \E s \in Slots : script[s] # None /\ script[s].child = p /\ ~At(s, "child")

\* Unless a script was abandoned, every rep that runs is recorded or still in
\* the hands of its start: no kill, crash or late ping loses it.
RepIsAccounted == abandoned \/ JobIsAccounted

\* Unless a script was abandoned, the rep never runs twice (pid_guard), though
\* the guard looks at a pidfile that the start before may not have written yet.
RepRunsOnce == abandoned \/ AtMostOneJob

\* Unless a script was abandoned, no rep runs and none is about to when monit is
\* done with a stop, though a rep in the background is in no file that it reads.
StopLeavesNoRep == abandoned \/ StoppedMeansGone

\* rep_ctl, "wait up to 25 seconds (monit gives us 30)": when monit stops
\* waiting for a start that nothing killed, the daemon is recorded or gone.
StartIsOverInTime ==
    ~abandoned /\ doing = "start" /\ timer = MonitTimeout =>
       \A p \in Jobs : file["pid"] = p
=============================================================================
