------------------------------ MODULE EtcdCtl ------------------------------
(***************************************************************************)
(* The etcd job of Diego: etcd_ctl and the drain script, which grow and    *)
(* shrink the cluster as BOSH updates the machines.  A start asks the      *)
(* peers for the member list, adds its node, launches etcd and waits until *)
(* it answers; a start that waits too long and a drain take the node out   *)
(* of the cluster and delete its data (safe_teardown).  Every call of      *)
(* etcdctl is a step; other nodes act between them.                        *)
(***************************************************************************)
EXTENDS Etcd

CONSTANTS
    Matches,   \* node -> the nodes whose entries grep finds for its address
    Rolling,   \* BOSH updates one machine at a time (serial, max_in_flight 1),
               \* and only while all that it deployed are running
    Fails,     \* what may fail, "etcd" or "machine"
    Outvotes,  \* failures may leave a cluster without a majority
    Slow,      \* which etcd may take longer than log_sync_timeout_in_seconds:
               \* one that "founds" or "joins" a cluster, or "resumes" its data
    MayMiss    \* etcdctl may fail to get a member list that it could get

ASSUME MatchesAssumption ==
    Matches \in [Nodes -> SUBSET Nodes] /\ \A n \in Nodes : n \in Matches[n]
ASSUME FlagsAssumption ==
    /\ Rolling \in BOOLEAN /\ MayMiss \in BOOLEAN /\ Outvotes \in BOOLEAN
    /\ Fails \subseteq {"etcd", "machine"}
    /\ Slow \subseteq {"founds", "joins", "resumes"}

VARIABLES
    pidfile, \* node -> none, or whether it names the etcd that runs
    script,  \* node -> the script in progress, a start or a drain
    phase,   \* node -> how far BOSH is with it
    powerLost, \* whether a machine has failed so far (history)
    faults   \* what went worse so far than the scripts reckon with (history)

nodeVars == <<etcdVars, pidfile, script, phase>>
history == <<powerLost, faults>>
vars == <<nodeVars, history>>

Fault == {"missed", "slow", "outvoted"}

\* prior is prior_member_list, child the etcd it launched while that runs.
Script == [pc : {"list", "add", "launch", "sync", "remove", "wipe", "kill"},
           drain : BOOLEAN, prior : SUBSET Member, added : BOOLEAN,
           child : {"none", "founds", "joins", "resumes"}]

ASSUME NoneIsNoScript == None \notin Script

Init ==
    /\ EtcdInit
    /\ pidfile = [n \in Nodes |-> "none"]
    /\ script = [n \in Nodes |-> None]
    /\ phase = [n \in Nodes |-> "new"]
    /\ powerLost = FALSE /\ faults = {}

At(n, pc) == script[n] # None /\ script[n].pc = pc
HasChild(n) == script[n] # None /\ script[n].child # "none"
Go(n, pc) == script' = [script EXCEPT ![n].pc = pc]
Exit(n)   == script' = [script EXCEPT ![n] = None]

\* The etcd process of node n ends.
Ends(n) ==
    /\ run' = [run EXCEPT ![n] = None]
    /\ pidfile' = [pidfile EXCEPT ![n] = IF @ = "live" THEN "stale" ELSE @]

-----------------------------------------------------------------------------
(* Mistakes the code does not make; each must break a property. *)

BugNewScript(drain) ==
    [pc |-> "list", drain |-> FALSE, prior |-> {}, added |-> FALSE, child |-> "none"]
BugNotInList(n, list) == {}
BugAlwaysOthers(n, list) == TRUE
BugWithoutThisNode(n) == IF script[n].prior = {} THEN {n} ELSE Named(script[n].prior)
BugNewIfListed(n) == ~script[n].added

-----------------------------------------------------------------------------
(* etcd_bosh_utils *)

\* extract_my_id: the lines of the list that contain the address.
MyEntries(n, list) == {m \in list : m.node \in Matches[n]}

\* prior_cluster_had_other_nodes; an empty list is one line without the address.
HadOtherNodes(n, list) == Cardinality(list) # 1 \/ MyEntries(n, list) = {}

\* member_list || echo ""
Answers ==
    IF Reachable = {} THEN {{}}
    ELSE {members[c] : c \in Reachable} \cup (IF MayMiss THEN {{}} ELSE {})

\* extract_cluster_from_member_list, and this_node if it was added.
Cluster(n) ==
    IF script[n].prior = {} THEN {n}
    ELSE Named(script[n].prior) \cup (IF script[n].added THEN {n} ELSE {})

\* cluster_state
IsNew(n) == script[n].prior = {}

-----------------------------------------------------------------------------
(* etcd_ctl start and drain *)

NewScript(drain) ==
    [pc |-> "list", drain |-> drain, prior |-> {}, added |-> FALSE, child |-> "none"]

\* pid_guard, and the check that the store is a mounted disk.
StartBegins(n) ==
    /\ phase[n] = "run" /\ script[n] = None /\ pidfile[n] # "live"
    /\ script' = [script EXCEPT ![n] = NewScript(FALSE)]
    /\ pidfile' = [pidfile EXCEPT ![n] = "none"]
    /\ UNCHANGED <<etcdVars, phase>>

StartLists(n, list) ==
    /\ At(n, "list") /\ ~script[n].drain
    /\ script' = [script EXCEPT ![n].prior = list, ![n].pc =
          IF list = {} \/ MyEntries(n, list) # {} THEN "launch" ELSE "add"]
    /\ UNCHANGED <<etcdVars, pidfile, phase>>

DrainLists(n, list) ==
    /\ At(n, "list") /\ script[n].drain
    /\ IF HadOtherNodes(n, list)
       THEN script' = [script EXCEPT ![n].prior = list, ![n].pc = "remove"]
       ELSE Exit(n)
    /\ UNCHANGED <<etcdVars, pidfile, phase>>

\* member_add; when it fails set -e ends the script.
Adds(n) ==
    /\ At(n, "add")
    /\ \/ \E c \in Reachable :
             /\ Commits(c)
             /\ members' = Added(c, n)
             /\ script' = [script EXCEPT ![n].pc = "launch", ![n].added = TRUE]
       \/ /\ \A c \in Reachable : ~Commits(c)
          /\ Exit(n)
          /\ UNCHANGED members
    /\ UNCHANGED <<disk, run, founded, pidfile, phase>>

\* etcd ... &: it runs, or it ends at once.
Launches(n) ==
    /\ At(n, "launch")
    /\ LET Serves(copy, child) ==
               /\ run' = [run EXCEPT ![n] = copy] /\ disk' = [disk EXCEPT ![n] = copy]
               /\ script' = [script EXCEPT ![n].pc = "sync", ![n].child = child]
       IN \/ Resumes(n) /\ Serves(disk[n], "resumes") /\ UNCHANGED <<members, founded>>
          \/ \E c \in Clusters :
                /\ Founds(n, IsNew(n), c)
                /\ Serves([cluster |-> c, valid |-> TRUE, full |-> TRUE], "founds")
                /\ Found(n, c)
          \/ \E c \in Clusters :
                /\ Joins(n, IsNew(n), Cluster(n), c)
                /\ Serves([cluster |-> c, valid |-> TRUE, full |-> FALSE], "joins")
                /\ UNCHANGED <<members, founded>>
          \/ /\ ~Resumes(n)
             /\ \A c \in Clusters : ~Founds(n, IsNew(n), c) /\ ~Joins(n, IsNew(n), Cluster(n), c)
             /\ Go(n, "sync")
             /\ UNCHANGED etcdVars
    /\ UNCHANGED <<pidfile, phase>>

\* The client URL of this node answers, whichever etcd it is.  The script goes
\* on waiting for its child, which changes nothing.
Syncs(n) ==
    /\ At(n, "sync") /\ run[n] # None /\ run[n].full
    /\ pidfile' = [pidfile EXCEPT ![n] = IF HasChild(n) THEN "live" ELSE "stale"]
    /\ Exit(n)
    /\ UNCHANGED <<etcdVars, phase>>

TimesOut(n) ==
    /\ At(n, "sync")
    /\ run[n] # None /\ Elects(run[n].cluster) => script[n].child \in Slow
    /\ Go(n, IF HadOtherNodes(n, script[n].prior) THEN "remove" ELSE "kill")
    /\ UNCHANGED <<etcdVars, pidfile, phase>>

\* member_remove takes the first id of those found; when it fails set -e ends a
\* start and leaves the etcd it launched behind, but a drain goes on.
Removes(n) ==
    /\ At(n, "remove")
    /\ LET mine == Hosts(MyEntries(n, script[n].prior))
           CanRemove(c, m) == Commits(c) /\ m \in Hosts(members[c])
       IN \/ mine = {} /\ Go(n, "wipe") /\ UNCHANGED etcdVars
          \/ \E c \in Reachable, m \in mine :
                CanRemove(c, m) /\ Drop(c, m) /\ Go(n, "wipe")
          \/ /\ \E m \in mine : \A c \in Reachable : ~CanRemove(c, m)
             /\ IF script[n].drain THEN Go(n, "wipe") ELSE Exit(n)
             /\ UNCHANGED etcdVars
    /\ UNCHANGED <<pidfile, phase>>

\* rm -rf ${DATA_DIR}/*, under an etcd that may still run.
Wipes(n) ==
    /\ At(n, "wipe")
    /\ disk' = [disk EXCEPT ![n] = None]
    /\ IF script[n].drain THEN Exit(n) ELSE Go(n, "kill")
    /\ UNCHANGED <<members, run, founded, pidfile, phase>>

\* kill -9 ${etcd_pid}
Kills(n) ==
    /\ At(n, "kill")
    /\ IF HasChild(n) THEN Ends(n) ELSE UNCHANGED <<run, pidfile>>
    /\ Exit(n)
    /\ UNCHANGED <<members, disk, founded, phase>>

CtlStep(n) ==
    \/ \E list \in Answers : StartLists(n, list) \/ DrainLists(n, list)
    \/ Adds(n) \/ Launches(n) \/ Syncs(n) \/ TimesOut(n)
    \/ Removes(n) \/ Wipes(n) \/ Kills(n)

-----------------------------------------------------------------------------
(* BOSH, and the machines *)

Healthy(n) == phase[n] = "run" /\ pidfile[n] = "live" /\ script[n] = None

\* No machine but n is being updated, and none has a problem.
Calm(n) == \A m \in Nodes \ {n} : phase[m] = "new" \/ Healthy(m)

Deploys(n) ==
    /\ phase[n] \in {"new", "stopped"}
    /\ Rolling => Calm(n)
    /\ phase' = [phase EXCEPT ![n] = "run"]
    /\ UNCHANGED <<etcdVars, pidfile, script>>

Drains(n) ==
    /\ phase[n] = "run" /\ script[n] = None
    /\ Rolling => Calm(n) /\ Healthy(n)
    /\ phase' = [phase EXCEPT ![n] = "drain"]
    /\ script' = [script EXCEPT ![n] = NewScript(TRUE)]
    /\ UNCHANGED <<etcdVars, pidfile>>

\* etcd_ctl stop: kill_and_wait
Stops(n) ==
    /\ phase[n] = "drain" /\ script[n] = None
    /\ run' = IF pidfile[n] = "live" THEN [run EXCEPT ![n] = None] ELSE run
    /\ pidfile' = [pidfile EXCEPT ![n] = "none"]
    /\ phase' = [phase EXCEPT ![n] = "stopped"]
    /\ UNCHANGED <<members, disk, founded, script>>

\* A majority of every cluster is left when node n fails, whoever is about to
\* join or leave it.
Spare(n) ==
    \A c \in founded :
        LET left == {m \in Voters(c) \ {n} : run[m].full /\ phase[m] = "run"}
            all  == Hosts(members[c]) \cup {m \in Nodes : phase[m] = "run"}
        IN 2 * Cardinality(left) > Cardinality(all)

\* etcd ends when it learns that it was removed, or crashes.
EtcdEnds(n) ==
    /\ run[n] # None
    /\ run[n].valid => "etcd" \in Fails /\ (Outvotes \/ Spare(n))
    /\ Ends(n)
    /\ script' = IF script[n] = None THEN script ELSE [script EXCEPT ![n].child = "none"]
    /\ UNCHANGED <<members, disk, founded, phase>>

PowerFails(n) ==
    /\ phase[n] # "new" /\ "machine" \in Fails /\ (Outvotes \/ Spare(n))
    /\ run' = [run EXCEPT ![n] = None]
    /\ script' = [script EXCEPT ![n] = None]
    /\ pidfile' = [pidfile EXCEPT ![n] = "none"]
    /\ powerLost' = TRUE
    /\ UNCHANGED <<members, disk, founded, phase>>

Caught(n) == CatchesUp(n) /\ UNCHANGED <<pidfile, script, phase>>

\* A script was not told a member list that an etcd would have given; a start
\* gave up on an etcd that would have answered; a failure took the majority.
Happens(n, f) ==
    \/ /\ f = "missed"
       /\ Reachable # {}
       /\ StartLists(n, {}) \/ DrainLists(n, {})
    \/ /\ f = "slow"
       /\ run[n] # None /\ Elects(run[n].cluster)
       /\ TimesOut(n)
    \/ /\ f = "outvoted"
       /\ ~Spare(n)
       /\ PowerFails(n) \/ (EtcdEnds(n) /\ run[n].valid)

Next ==
    \E n \in Nodes :
        \/ /\ \/ StartBegins(n) \/ CtlStep(n)
              \/ Deploys(n) \/ Drains(n) \/ Stops(n) \/ Caught(n)
           /\ UNCHANGED powerLost
           /\ faults' = faults \cup {f \in {"missed", "slow"} : Happens(n, f)}
        \/ /\ PowerFails(n) \/ (EtcdEnds(n) /\ UNCHANGED powerLost)
           /\ faults' = faults \cup {f \in {"outvoted"} : Happens(n, f)}

Spec == Init /\ [][Next]_vars

\* Monit, the scripts and etcd go on; BOSH finishes the stop it began.
FairSpec ==
    /\ Spec
    /\ \A n \in Nodes :
          /\ WF_nodeVars(StartBegins(n)) /\ WF_nodeVars(CtlStep(n)) /\ WF_nodeVars(Stops(n))
          /\ WF_nodeVars(EtcdEnds(n) /\ ~run[n].valid) /\ WF_nodeVars(Caught(n))

-----------------------------------------------------------------------------

TypeOK ==
    /\ EtcdTypeOK
    /\ pidfile \in [Nodes -> {"none", "live", "stale"}]
    /\ script \in [Nodes -> Script \cup {None}]
    /\ phase \in [Nodes -> {"new", "run", "drain", "stopped"}]
    /\ powerLost \in BOOLEAN /\ faults \subseteq Fault
    /\ \A n \in Nodes : script[n] # None => script[n].drain = (phase[n] = "drain")

\* All machines serve the same cluster: no start founds a second one beside the
\* one that runs.
OneCluster ==
    \A n, m \in Nodes : run[n] # None /\ run[m] # None => run[n].cluster = run[m].cluster

\* However the machines are updated, a member of every cluster that was founded
\* keeps its data (safe_teardown deletes only what others have).
DataSurvives ==
    \A c \in founded :
        \E n \in Hosts(members[c]) :
            disk[n] # None /\ disk[n].cluster = c /\ disk[n].valid /\ disk[n].full

\* A node has one entry in the member list at most (etcd_ctl: "we don't want to
\* have it duplicated in the list").
NoDuplicates ==
    \A c \in Clusters : \A m, x \in members[c] : m.node = x.node => m = x

\* With BOSH's serial updates only a fault can do such harm: a failure that
\* leaves a majority, an etcd that is down or a start that waits in vain cannot.
SplitNeedsFault == OneCluster \/ faults # {}
LossNeedsFault == DataSurvives \/ faults # {}
DuplicateNeedsFault == NoDuplicates \/ faults # {}

\* The timeout is for "a joining node to finish syncing logs with the existing
\* cluster": no start deletes data that was up to date.
OnlyJoinersAreWiped ==
    [][\A n \in Nodes :
          Wipes(n) /\ ~script[n].drain /\ disk[n] # None => ~(disk[n].valid /\ disk[n].full)]_vars

\* If nothing worse happens than what the scripts reckon with, BOSH is quiet from
\* some time on and no machine ever fails, every deployed node is an up-to-date
\* member, whatever earlier starts and crashes of etcd left behind.
EveryNodeJoins ==
    /\ [](faults = {}) /\ <>[](~powerLost)
    /\ <>[][\A n \in Nodes : ~Deploys(n) /\ ~Drains(n) /\ (EtcdEnds(n) => ~run[n].valid)]_nodeVars
    => <>[](\A n \in Nodes : phase[n] = "run" =>
               pidfile[n] = "live" /\ run[n] # None /\ run[n].valid /\ run[n].full)
=============================================================================
