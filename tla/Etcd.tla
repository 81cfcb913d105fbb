-------------------------------- MODULE Etcd --------------------------------
(***************************************************************************)
(* What the scripts of diego-release/jobs/etcd rely on in etcd, which is   *)
(* not in the repository: a member list kept by consensus, and data        *)
(* directories that belong to a member of a cluster.  An etcd answers a    *)
(* client (etcdctl ls) once it has caught up with its cluster.             *)
(***************************************************************************)
EXTENDS Naturals, FiniteSets

CONSTANTS
    Nodes,    \* the machines of the job
    Clusters, \* bound: names for the clusters that may be founded
    None

VARIABLES
    members, \* cluster -> its member list
    founded, \* the clusters that were ever founded
    disk,    \* node -> the copy in its data directory
    run      \* node -> the copy the etcd process of the node serves

etcdVars == <<members, founded, disk, run>>

\* A member that has not joined yet has no name ("name= " in the list).
Member == [node : Nodes, named : BOOLEAN]

\* A copy is valid until its member is removed, and full when it has caught up
\* with the cluster.
Copy == [cluster : Clusters, valid : BOOLEAN, full : BOOLEAN]

ASSUME NoneAssumption == None \notin Copy

EtcdInit ==
    /\ members = [c \in Clusters |-> {}]
    /\ founded = {}
    /\ disk = [n \in Nodes |-> None]
    /\ run = [n \in Nodes |-> None]

Hosts(list) == {m.node : m \in list}
Named(list) == {m.node : m \in {x \in list : x.named}}

\* The members that take part in votes.
Voters(c) ==
    {n \in Hosts(members[c]) : run[n] # None /\ run[n].cluster = c /\ run[n].valid}

Elects(c) ==
    /\ 2 * Cardinality(Voters(c)) > Cardinality(members[c])
    /\ \E n \in Voters(c) : run[n].full

\* A change of the member list is committed by a majority that is up to date.
Commits(c) ==
    2 * Cardinality({n \in Voters(c) : run[n].full}) > Cardinality(members[c])

\* The clusters a client can reach through one of its endpoints.
Reachable == {run[n].cluster : n \in {m \in Nodes : run[m] # None}}

Found(n, c) ==
    /\ founded' = founded \cup {c}
    /\ members' = [members EXCEPT ![c] = {[node |-> n, named |-> TRUE]}]

Added(c, n) == [members EXCEPT ![c] = @ \cup {[node |-> n, named |-> FALSE]}]

\* Node n is no member of c any more, and its copy is worth nothing.
Drop(c, n) ==
    /\ members' = [members EXCEPT ![c] = {m \in @ : m.node # n}]
    /\ disk' = IF disk[n] # None /\ disk[n].cluster = c
               THEN [disk EXCEPT ![n].valid = FALSE] ELSE disk
    /\ run' = IF run[n] # None /\ run[n].cluster = c
              THEN [run EXCEPT ![n].valid = FALSE] ELSE run
    /\ UNCHANGED founded

\* What a process that is started on node n with the given state and cluster
\* arguments serves: a data directory goes before the arguments; to join, the
\* arguments must agree with the member list of a peer.
Resumes(n) == run[n] = None /\ disk[n] # None /\ disk[n].valid

\* (The names of clusters are interchangeable: a new one gets any unused name.)
Founds(n, isNew, c) ==
    /\ run[n] = None /\ disk[n] = None /\ isNew
    /\ c \notin founded /\ c = CHOOSE d \in Clusters \ founded : TRUE

Joins(n, isNew, cluster, c) ==
    /\ run[n] = None /\ disk[n] = None /\ ~isNew
    /\ n \in cluster
    /\ \E m \in cluster \ {n} : run[m] # None /\ run[m].cluster = c
    /\ cluster = Hosts(members[c])

\* The log reaches node n, and the name of the node the member list.
CatchesUp(n) ==
    /\ run[n] # None /\ n \in Voters(run[n].cluster) /\ Elects(run[n].cluster)
    /\ ~run[n].full
    /\ run' = [run EXCEPT ![n].full = TRUE]
    /\ disk' = IF disk[n] = None THEN disk ELSE [disk EXCEPT ![n].full = TRUE]
    /\ members' = [members EXCEPT ![run[n].cluster] =
          {IF m.node = n THEN [m EXCEPT !.named = TRUE] ELSE m : m \in @}]
    /\ UNCHANGED founded

EtcdTypeOK ==
    /\ members \in [Clusters -> SUBSET Member]
    /\ founded \subseteq Clusters
    /\ disk \in [Nodes -> Copy \cup {None}]
    /\ run \in [Nodes -> Copy \cup {None}]
=============================================================================
