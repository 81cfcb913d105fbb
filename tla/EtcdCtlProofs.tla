--------------------------- MODULE EtcdCtlProofs ---------------------------
(***************************************************************************)
(* Proofs about EtcdCtl for any finite number of machines that BOSH        *)
(* updates one at a time and whose addresses grep tells apart, while etcd  *)
(* and machines fail and starts take any time: until a fault happens (a    *)
(* list that was missed, an etcd given up on though it would have          *)
(* answered, a majority lost) the cluster is never split, its data is      *)
(* never lost and no machine is listed twice.                              *)
(*                                                                         *)
(* The argument: an update begins when every other deployed machine is     *)
(* well, and until one of them fails the others serve the cluster, each    *)
(* with the data.  When one fails, the machines that are left are a        *)
(* majority of all that may become members before the next update begins,  *)
(* and no step but another failure takes one of them away.  So a start     *)
(* that finds no peer is that of the only machine ever deployed, and the   *)
(* script that gives up on an etcd gives up on one that has ended.         *)
(***************************************************************************)
EXTENDS EtcdCtl, FiniteSetTheorems, TLAPS

\* What the theorems assume of the deployment.
Assumed ==
    /\ IsFiniteSet(Nodes)
    /\ Rolling
    /\ \A n \in Nodes : Matches[n] = {n}

Starting(n) == script[n] # None /\ ~script[n].drain

\* A data directory or a process that is still good belongs to a member.
Belongs(n, copy) ==
    copy # None =>
        /\ copy.cluster \in founded
        /\ copy.valid => n \in Hosts(members[copy.cluster])

\* A machine that runs no script of etcd has no etcd that it does not know of.
IdleOK(n) ==
    /\ phase[n] \in {"new", "stopped"} =>
          script[n] = None /\ run[n] = None /\ pidfile[n] = "none"
    /\ phase[n] = "new" =>
          disk[n] = None /\ \A c \in Clusters : n \notin Hosts(members[c])

DrainOK(n) ==
    script[n] # None /\ script[n].drain =>
        script[n].pc \in {"list", "remove", "wipe"} /\ script[n].child = "none"

StartOK(n) ==
    Starting(n) =>
        /\ pidfile[n] = "none"
        /\ run[n] # None <=> script[n].child # "none"
        /\ run[n] # None => script[n].pc = "sync"
        /\ script[n].pc = "add" =>
              script[n].prior # {} /\ \A c \in Clusters : n \notin Hosts(members[c])
        /\ script[n].pc = "launch" /\ script[n].prior = {} /\ disk[n] = None => founded = {}

CopyOK(n) ==
    /\ Belongs(n, disk[n]) /\ Belongs(n, run[n])
    /\ run[n] # None => pidfile[n] = "live" \/ HasChild(n)
    /\ run[n] # None /\ disk[n] # None => disk[n] = run[n]
    /\ run[n] # None /\ phase[n] = "run" => disk[n] = run[n] /\ run[n].valid
    /\ pidfile[n] = "live" => run[n] # None /\ run[n].full

NodeOK(n) == IdleOK(n) /\ DrainOK(n) /\ StartOK(n) /\ CopyOK(n)

ClusterOK ==
    /\ \A c, d \in founded : c = d
    /\ \A c \in Clusters \ founded : members[c] = {}
    /\ founded = {} =>
          \A m, n \in Nodes : phase[m] = "new" \/ phase[n] = "new" \/ m = n

\* The voters that are up to date and not being updated, and everything that
\* may count as a member before the next update begins.
Core(c) == {m \in Voters(c) : run[m].full /\ phase[m] = "run"}
Counted(c) == Hosts(members[c]) \cup {m \in Nodes : phase[m] = "run"}

Strong(c) == 2 * Cardinality(Core(c)) > Cardinality(Counted(c))

\* The only machine that was ever deployed keeps the data.
Alone(u) ==
    (\A m \in Nodes \ {u} : phase[m] = "new") =>
        /\ disk[u] # None /\ disk[u].valid /\ disk[u].full
        /\ script[u] # None => script[u].pc \in {"list", "launch", "sync"}
        /\ At(u, "sync") => run[u] # None
        /\ script[u] # None /\ script[u].drain => run[u] # None

\* While one machine is updated the others are as BOSH left them; as soon as
\* one of them fails, what is left is a majority whatever the update does.
MajorityOK ==
    \A c \in founded : Strong(c) \/ \E u \in Nodes : Calm(u) /\ Alone(u)

IInv == TypeOK /\ (\A n \in Nodes : NodeOK(n)) /\ ClusterOK /\ NoDuplicates /\ MajorityOK

\* A step of node n leaves the other nodes and their entries alone.
OthersSame(n) ==
    \A m \in Nodes \ {n} :
        /\ run'[m] = run[m] /\ disk'[m] = disk[m] /\ pidfile'[m] = pidfile[m]
        /\ script'[m] = script[m] /\ phase'[m] = phase[m]
        /\ \A c \in Clusters : m \in Hosts(members'[c]) <=> m \in Hosts(members[c])

-----------------------------------------------------------------------------
(* What holds of a node, a cluster and a majority in every reachable state. *)

LEMMA HostsAreNodes ==
    ASSUME TypeOK, NEW c \in Clusters
    PROVE  Hosts(members[c]) \subseteq Nodes
BY DEF TypeOK, EtcdTypeOK, Member, Hosts

LEMMA ListIsFinite ==
    ASSUME Assumed, TypeOK, NoDuplicates, NEW c \in Clusters
    PROVE  /\ IsFiniteSet(Hosts(members[c]))
           /\ IsFiniteSet(members[c])
           /\ Cardinality(members[c]) = Cardinality(Hosts(members[c]))
<1> DEFINE L == members[c]
           H == Hosts(L)
           f == [x \in L |-> x.node]
<1>1. IsFiniteSet(H)
  BY HostsAreNodes, FS_Subset DEF Assumed
<1>2. f \in Bijection(L, H)
  BY DEF Bijection, Injection, IsInjective, Surjection, NoDuplicates, Hosts
<1>3. f \in Injection(L, H) /\ f \in Surjection(L, H)
  BY <1>2 DEF Bijection
<1>4. IsFiniteSet(L) /\ Cardinality(L) = Cardinality(H)
  <2> HIDE DEF L, H, f
  <2> QED BY <1>1, <1>3, FS_Injection
<1> QED BY <1>1, <1>4

LEMMA CoreIsFinite ==
    ASSUME Assumed, TypeOK, NEW c \in Clusters
    PROVE  /\ Core(c) \subseteq Counted(c)
           /\ Counted(c) \subseteq Nodes
           /\ IsFiniteSet(Core(c)) /\ IsFiniteSet(Counted(c))
           /\ Cardinality(Core(c)) \in Nat /\ Cardinality(Counted(c)) \in Nat
<1>1. Core(c) \subseteq Counted(c) /\ Counted(c) \subseteq Nodes
  BY HostsAreNodes DEF Core, Counted, Voters
<1>2. IsFiniteSet(Core(c)) /\ IsFiniteSet(Counted(c))
  BY <1>1, FS_Subset DEF Assumed
<1> QED BY <1>1, <1>2, FS_CardinalityType

LEMMA StrongStays ==
    ASSUME Assumed, TypeOK, TypeOK', NEW c \in Clusters, Strong(c),
           Core(c) \subseteq Core(c)', Counted(c)' \subseteq Counted(c)
    PROVE  Strong(c)'
<1>1. IsFiniteSet(Core(c)') /\ Cardinality(Core(c)') \in Nat
      /\ Cardinality(Counted(c)') \in Nat
  <2>1. Core(c)' \subseteq Nodes /\ Counted(c)' \subseteq Nodes
    BY DEF Core, Counted, Voters, TypeOK, EtcdTypeOK, Hosts, Member
  <2>2. IsFiniteSet(Core(c)') /\ IsFiniteSet(Counted(c)')
    BY <2>1, FS_Subset DEF Assumed
  <2> QED BY <2>2, FS_CardinalityType
<1>2. Cardinality(Core(c)) \in Nat /\ Cardinality(Counted(c)) \in Nat
      /\ IsFiniteSet(Counted(c))
  BY CoreIsFinite
<1>3. Cardinality(Core(c)) <= Cardinality(Core(c)')
  BY <1>1, FS_Subset
<1>4. Cardinality(Counted(c)') <= Cardinality(Counted(c))
  BY <1>2, FS_Subset
<1> QED BY <1>1, <1>2, <1>3, <1>4 DEF Strong

\* The core of a strong cluster elects, commits and can be reached.
LEMMA StrongServes ==
    ASSUME Assumed, TypeOK, NoDuplicates, NEW c \in Clusters, Strong(c)
    PROVE  Elects(c) /\ Commits(c) /\ c \in Reachable /\ Core(c) # {}
<1> DEFINE F == {n \in Voters(c) : run[n].full}
<1>1. Core(c) \subseteq F /\ F \subseteq Voters(c) /\ Voters(c) \subseteq Hosts(members[c])
      /\ Hosts(members[c]) \subseteq Counted(c)
  BY DEF Core, Voters, Counted
<1>2. /\ IsFiniteSet(Voters(c)) /\ IsFiniteSet(F)
      /\ Cardinality(members[c]) = Cardinality(Hosts(members[c]))
  BY <1>1, ListIsFinite, FS_Subset
<1>3. /\ Cardinality(Voters(c)) \in Nat /\ Cardinality(F) \in Nat
      /\ Cardinality(Hosts(members[c])) \in Nat
      /\ Cardinality(Core(c)) \in Nat /\ Cardinality(Counted(c)) \in Nat
  <2> HIDE DEF F
  <2> QED BY <1>2, ListIsFinite, CoreIsFinite, FS_CardinalityType
<1>4. /\ Cardinality(Core(c)) <= Cardinality(F)
      /\ Cardinality(F) <= Cardinality(Voters(c))
      /\ Cardinality(Hosts(members[c])) <= Cardinality(Counted(c))
  <2> HIDE DEF F
  <2> QED BY <1>1, <1>2, CoreIsFinite, FS_Subset
<1>5. 2 * Cardinality(Core(c)) > Cardinality(Counted(c))
  BY DEF Strong
<1>6. Core(c) # {}
  BY <1>3, <1>5, FS_EmptySet
<1>7. PICK n \in Core(c) : TRUE
  BY <1>6
<1>8. n \in F /\ run[n] # None /\ run[n].cluster = c /\ n \in Nodes
  BY <1>1, <1>7, HostsAreNodes DEF Core, Voters
<1>9. 2 * Cardinality(F) > Cardinality(members[c])
      /\ 2 * Cardinality(Voters(c)) > Cardinality(members[c])
  <2> HIDE DEF F
  <2> QED BY <1>2, <1>3, <1>4, <1>5
<1>10. Elects(c) /\ Commits(c)
  BY <1>8, <1>9 DEF Elects, Commits
<1>11. c \in Reachable
  BY <1>8 DEF Reachable
<1> QED BY <1>6, <1>10, <1>11

LEMMA HealthyServes ==
    ASSUME IInv, NEW n \in Nodes, Healthy(n), NEW c \in founded
    PROVE  /\ run[n] # None /\ run[n] \in Copy /\ run[n].cluster = c
           /\ run[n].valid /\ run[n].full /\ disk[n] = run[n]
           /\ n \in Hosts(members[c]) /\ n \in Voters(c) /\ n \in Core(c)
<1>1. CopyOK(n) /\ TypeOK /\ ClusterOK
  BY DEF IInv, NodeOK
<1>2. run[n] # None /\ run[n].full /\ run[n].valid /\ disk[n] = run[n]
  BY <1>1 DEF CopyOK, Healthy
<1>3. run[n].cluster \in founded /\ n \in Hosts(members[run[n].cluster])
  BY <1>1, <1>2 DEF CopyOK, Belongs
<1>4. run[n].cluster = c
  BY <1>1, <1>3 DEF ClusterOK
<1>5. run[n] \in Copy
  BY <1>1, <1>2 DEF TypeOK, EtcdTypeOK
<1> QED BY <1>2, <1>3, <1>4, <1>5 DEF Voters, Core, Healthy

\* While one machine is updated, the member list names no other machine but
\* those that serve it.
LEMMA CalmMembers ==
    ASSUME IInv, NEW u \in Nodes, Calm(u), NEW c \in founded
    PROVE  \A m \in Hosts(members[c]) : m = u \/ Healthy(m)
<1> SUFFICES ASSUME NEW m \in Hosts(members[c]), m # u PROVE Healthy(m)
  OBVIOUS
<1>1. m \in Nodes /\ c \in Clusters
  BY HostsAreNodes DEF IInv, TypeOK, EtcdTypeOK
<1>2. phase[m] # "new"
  BY <1>1 DEF IInv, NodeOK, IdleOK
<1> QED BY <1>1, <1>2 DEF Calm

LEMMA CalmElects ==
    ASSUME Assumed, IInv, NEW u \in Nodes, Calm(u), Alone(u), NEW c \in founded,
           phase[u] = "run", run[u] # None
    PROVE  run[u].cluster = c /\ Elects(c)
<1>0. TypeOK /\ NoDuplicates /\ ClusterOK /\ c \in Clusters /\ CopyOK(u)
  BY DEF IInv, TypeOK, EtcdTypeOK, NodeOK
<1>1. run[u].valid /\ disk[u] = run[u] /\ run[u].cluster = c /\ u \in Hosts(members[c])
  BY <1>0 DEF CopyOK, Belongs, ClusterOK
<1>2. u \in Voters(c)
  BY <1>1 DEF Voters
<1>3. \A m \in Hosts(members[c]) : m \in Voters(c)
  BY <1>2, CalmMembers, HealthyServes, HostsAreNodes, <1>0
<1>4. Voters(c) = Hosts(members[c])
  BY <1>3 DEF Voters
<1>5. /\ Cardinality(members[c]) = Cardinality(Voters(c))
      /\ IsFiniteSet(Voters(c)) /\ Cardinality(Voters(c)) \in Nat
  BY <1>0, <1>4, ListIsFinite, FS_CardinalityType
<1>6. Cardinality(Voters(c)) # 0
  BY <1>2, <1>5, FS_EmptySet
<1>7. \E n \in Voters(c) : run[n].full
  <2>1. CASE \A m \in Nodes \ {u} : phase[m] = "new"
    BY <2>1, <1>1, <1>2 DEF Alone
  <2>2. CASE \E m \in Nodes \ {u} : phase[m] # "new"
    <3>1. PICK m \in Nodes \ {u} : Healthy(m)
      BY <2>2 DEF Calm
    <3> QED BY <3>1, HealthyServes
  <2> QED BY <2>1, <2>2
<1> QED BY <1>1, <1>5, <1>6, <1>7 DEF Elects

\* A start that waits for an etcd that runs waits for one that will answer.
LEMMA RunningElects ==
    ASSUME Assumed, IInv, NEW n \in Nodes, Starting(n), run[n] # None
    PROVE  Elects(run[n].cluster)
<1>0. /\ TypeOK /\ NoDuplicates /\ CopyOK(n) /\ IdleOK(n) /\ MajorityOK
      /\ script[n].drain = (phase[n] = "drain") /\ ~script[n].drain /\ script[n] # None
      /\ script[n].drain \in BOOLEAN
  BY DEF IInv, NodeOK, TypeOK, Starting, Script
<1>1. phase[n] = "run"
  BY <1>0 DEF IdleOK, TypeOK
<1>2. run[n].cluster \in founded /\ run[n].cluster \in Clusters
  BY <1>0 DEF CopyOK, Belongs, TypeOK, EtcdTypeOK
<1>3. CASE Strong(run[n].cluster)
  BY <1>0, <1>2, <1>3, StrongServes
<1>4. CASE \E u \in Nodes : Calm(u) /\ Alone(u)
  <2>1. PICK u \in Nodes : Calm(u) /\ Alone(u)
    BY <1>4
  <2>2. u = n
    BY <1>0, <1>1, <2>1 DEF Calm, Healthy
  <2> QED BY <1>1, <1>2, <2>1, <2>2, CalmElects
<1> QED BY <1>0, <1>2, <1>3, <1>4 DEF MajorityOK

\* Where nobody answers there is no cluster yet, or the node has the data.
LEMMA NobodyAnswers ==
    ASSUME Assumed, IInv, NEW n \in Nodes, script[n] # None, Reachable = {}, founded # {}
    PROVE  disk[n] # None /\ script[n].drain = FALSE
<1>0. TypeOK /\ NoDuplicates /\ MajorityOK /\ founded \subseteq Clusters /\ IdleOK(n)
      /\ script[n].drain \in BOOLEAN
  BY DEF IInv, TypeOK, EtcdTypeOK, NodeOK, Script
<1>1. PICK c \in founded : TRUE
  OBVIOUS
<1>2. ~Strong(c)
  BY <1>0, <1>1, StrongServes
<1>3. PICK u \in Nodes : Calm(u) /\ Alone(u)
  BY <1>0, <1>1, <1>2 DEF MajorityOK
<1>4. \A m \in Nodes : run[m] = None
  BY DEF Reachable
<1>5. \A m \in Nodes : ~Healthy(m)
  BY <1>4, HealthyServes, <1>1
<1>6. \A m \in Nodes \ {u} : phase[m] = "new"
  BY <1>3, <1>5 DEF Calm
<1>7. n = u
  BY <1>0, <1>6 DEF IdleOK
<1> QED BY <1>0, <1>3, <1>4, <1>6, <1>7 DEF Alone

\* A list that is not empty is that of a cluster.
LEMMA ListsAreMembers ==
    ASSUME IInv, NEW list \in Answers, list # {}
    PROVE  \E c \in founded : list = members[c]
<1>1. PICK c \in Reachable : list = members[c]
  BY DEF Answers
<1>2. c \in founded
  BY DEF IInv, NodeOK, CopyOK, Belongs, Reachable
<1> QED BY <1>1, <1>2

-----------------------------------------------------------------------------
(* What a step of one node keeps. *)

LEMMA OthersStayOK ==
    ASSUME IInv, NEW n \in Nodes, OthersSame(n), NEW m \in Nodes \ {n},
           founded' = founded \/ script[m] = None, founded \subseteq founded'
    PROVE  NodeOK(m)'
<1>0. /\ run'[m] = run[m] /\ disk'[m] = disk[m] /\ pidfile'[m] = pidfile[m]
      /\ script'[m] = script[m] /\ phase'[m] = phase[m]
      /\ \A c \in Clusters : m \in Hosts(members[c])' <=> m \in Hosts(members[c])
  BY DEF OthersSame, Hosts
<1>1. NodeOK(m) /\ TypeOK
  BY DEF IInv
<1>2. IdleOK(m)'
  BY <1>0, <1>1 DEF NodeOK, IdleOK
<1>3. DrainOK(m)'
  BY <1>0, <1>1 DEF NodeOK, DrainOK
<1>4. StartOK(m)'
  BY <1>0, <1>1 DEF NodeOK, StartOK, Starting
<1>5. Belongs(m, disk[m])'
  BY <1>0, <1>1 DEF NodeOK, CopyOK, Belongs, TypeOK, EtcdTypeOK, Copy
<1>6. Belongs(m, run[m])'
  BY <1>0, <1>1 DEF NodeOK, CopyOK, Belongs, TypeOK, EtcdTypeOK, Copy
<1>7. CopyOK(m)'
  BY <1>0, <1>1, <1>5, <1>6 DEF NodeOK, CopyOK, HasChild
<1> QED BY <1>2, <1>3, <1>4, <1>7 DEF NodeOK

LEMMA ClusterStaysOK ==
    ASSUME IInv, founded' = founded,
           \A m \in Nodes : phase'[m] = "new" <=> phase[m] = "new",
           \A c \in Clusters \ founded : members'[c] = members[c]
    PROVE  ClusterOK'
BY DEF IInv, ClusterOK

LEMMA CalmStays ==
    ASSUME NEW n \in Nodes, OthersSame(n)
    PROVE  Calm(n)' <=> Calm(n)
BY DEF OthersSame, Calm, Healthy

LEMMA CoreStays ==
    ASSUME NEW n \in Nodes, OthersSame(n), NEW c \in Clusters, TypeOK, TypeOK',
           n \in Core(c) => n \in Core(c)', n \in Counted(c)' => n \in Counted(c)
    PROVE  Core(c) \subseteq Core(c)' /\ Counted(c)' \subseteq Counted(c)
<1>1. Hosts(members[c]) \subseteq Nodes /\ Hosts(members'[c]) \subseteq Nodes
  BY DEF TypeOK, EtcdTypeOK, Hosts, Member
<1>2. ASSUME NEW m \in Core(c) PROVE m \in Core(c)'
  <2>1. m \in Nodes
    BY <1>1 DEF Core, Voters
  <2>2. CASE m # n
    BY <2>1, <2>2 DEF Core, Voters, OthersSame, Hosts
  <2> QED BY <2>2
<1>3. ASSUME NEW m \in Counted(c)' PROVE m \in Counted(c)
  <2>1. m \in Nodes
    BY <1>1 DEF Counted, Hosts
  <2>2. CASE m # n
    BY <2>1, <2>2 DEF Counted, OthersSame, Hosts
  <2> QED BY <2>2
<1> QED BY <1>2, <1>3

\* The step of a node that is not well, in the update or after a failure.
LEMMA MajorityStaysOK ==
    ASSUME Assumed, IInv, TypeOK', NEW n \in Nodes, OthersSame(n), founded' = founded,
           phase[n] # "new", ~Healthy(n),
           \A c \in founded : n \in Core(c) => n \in Core(c)',
           \A c \in founded : n \in Counted(c)' => n \in Counted(c),
           founded # {} /\ Alone(n) => Alone(n)'
    PROVE  MajorityOK'
<1> SUFFICES ASSUME NEW c \in founded
             PROVE  Strong(c)' \/ \E u \in Nodes : Calm(u)' /\ Alone(u)'
  BY DEF MajorityOK
<1>0. TypeOK /\ MajorityOK /\ c \in Clusters
  BY DEF IInv, TypeOK, EtcdTypeOK
<1>1. CASE Strong(c)
  BY <1>0, <1>1, CoreStays, StrongStays
<1>2. CASE \E u \in Nodes : Calm(u) /\ Alone(u)
  <2>1. PICK u \in Nodes : Calm(u) /\ Alone(u)
    BY <1>2
  <2>2. u = n
    BY <2>1 DEF Calm
  <2> QED BY <2>1, <2>2, CalmStays
<1> QED BY <1>0, <1>1, <1>2 DEF MajorityOK

\* A failure that leaves a majority.
LEMMA FailureLeavesMajority ==
    ASSUME Assumed, IInv, TypeOK', NEW n \in Nodes, OthersSame(n), Spare(n),
           UNCHANGED <<members, founded, phase>>
    PROVE  MajorityOK'
<1> SUFFICES ASSUME NEW c \in founded PROVE Strong(c)'
  BY DEF MajorityOK
<1> DEFINE left == {m \in Voters(c) \ {n} : run[m].full /\ phase[m] = "run"}
           all  == Hosts(members[c]) \cup {m \in Nodes : phase[m] = "run"}
<1>0. TypeOK /\ c \in Clusters
  BY DEF IInv, TypeOK, EtcdTypeOK
<1>1. 2 * Cardinality(left) > Cardinality(all)
  BY DEF Spare
<1>2. Hosts(members[c]) \subseteq Nodes
  BY <1>0, HostsAreNodes
<1>3. left \subseteq Core(c)'
  BY <1>2 DEF Core, Voters, OthersSame, Hosts
<1>4. all = Counted(c)'
  BY DEF Counted, Hosts
<1>5. Core(c)' \subseteq Nodes /\ all \subseteq Nodes
  BY <1>2 DEF Core, Voters, Hosts
<1>6. IsFiniteSet(Core(c)') /\ IsFiniteSet(left) /\ IsFiniteSet(all)
  <2> HIDE DEF left, all
  <2> QED BY <1>3, <1>5, FS_Subset DEF Assumed
<1>7. /\ Cardinality(left) <= Cardinality(Core(c)')
      /\ Cardinality(left) \in Nat /\ Cardinality(Core(c)') \in Nat
      /\ Cardinality(all) \in Nat
  <2> HIDE DEF left, all
  <2> QED BY <1>3, <1>6, FS_Subset, FS_CardinalityType
<1> QED
  <2> HIDE DEF left, all
  <2> QED BY <1>1, <1>4, <1>7 DEF Strong

-----------------------------------------------------------------------------
(* The invariant is inductive: one lemma per action. *)

LEMMA InvFromParts ==
    ASSUME IInv, NEW n \in Nodes, OthersSame(n),
           founded' = founded, TypeOK', NodeOK(n)', ClusterOK', NoDuplicates', MajorityOK'
    PROVE  IInv'
BY OthersStayOK DEF IInv

\* A node whose script is in progress is not well, and was deployed.
LEMMA ScriptFacts ==
    ASSUME IInv, NEW n \in Nodes, script[n] # None
    PROVE  /\ script[n] \in Script /\ phase[n] \in {"run", "drain"}
           /\ script[n].drain <=> phase[n] = "drain"
           /\ phase[n] # "new" /\ ~Healthy(n)
           /\ Starting(n) <=> ~script[n].drain
BY DEF IInv, NodeOK, IdleOK, TypeOK, Script, Starting, Healthy

\* A step that changes the script, the pidfile or nothing but these keeps the
\* cluster as it is.
LEMMA EtcdSame ==
    ASSUME IInv, etcdVars' = etcdVars, phase' = phase
    PROVE  /\ ClusterOK' /\ NoDuplicates'
           /\ \A n, c : (n \in Core(c) <=> n \in Core(c)')
                        /\ (n \in Counted(c)' <=> n \in Counted(c))
<1>1. ClusterOK' /\ NoDuplicates'
  BY DEF IInv, ClusterOK, NoDuplicates, etcdVars
<1> QED BY <1>1 DEF etcdVars, Core, Counted, Voters, Hosts

LEMMA NoScriptIsOK ==
    ASSUME IInv, NEW n \in Nodes, script[n] # None, script'[n] = None,
           etcdVars' = etcdVars, pidfile' = pidfile, phase' = phase,
           ~HasChild(n)
    PROVE  NodeOK(n)'
<1>1. script[n] \in Script /\ phase[n] \in {"run", "drain"}
  BY ScriptFacts
<1> QED BY <1>1 DEF IInv, NodeOK, IdleOK, DrainOK, StartOK, CopyOK, Belongs, Starting,
     HasChild, etcdVars

LEMMA NewScriptType ==
    ASSUME NEW drain \in BOOLEAN
    PROVE  NewScript(drain) \in Script /\ NewScript(drain) # None
<1>1. NewScript(drain) \in Script
  BY DEF NewScript, Script
<1> QED BY <1>1, NoneIsNoScript

LEMMA StartBeginsInv ==
    ASSUME Assumed, IInv, NEW n \in Nodes, StartBegins(n), powerLost' = powerLost, faults' = faults
    PROVE  IInv'
<1>0. TypeOK /\ NodeOK(n)
  BY DEF IInv
<1>1. /\ phase[n] = "run" /\ script[n] = None /\ pidfile[n] # "live"
      /\ script' = [script EXCEPT ![n] = NewScript(FALSE)]
      /\ pidfile' = [pidfile EXCEPT ![n] = "none"]
      /\ etcdVars' = etcdVars /\ phase' = phase
  BY DEF StartBegins
<1>2. NewScript(FALSE) \in Script /\ NewScript(FALSE) # None
  BY NewScriptType
<1>3. script'[n] = NewScript(FALSE) /\ pidfile'[n] = "none" /\ run[n] = None
  BY <1>0, <1>1 DEF TypeOK, NodeOK, CopyOK, HasChild
<1>4. OthersSame(n)
  BY <1>0, <1>1 DEF OthersSame, TypeOK, etcdVars
<1>5. TypeOK'
  <2>1. EtcdTypeOK'
    BY <1>0, <1>1 DEF TypeOK, EtcdTypeOK, etcdVars
  <2>2. \A m \in Nodes : script'[m] # None => script'[m].drain = (phase'[m] = "drain")
    BY <1>0, <1>1, <1>3 DEF TypeOK, NewScript
  <2>3. powerLost' \in BOOLEAN /\ faults' \subseteq Fault
    BY <1>0 DEF TypeOK, IInv
  <2> QED BY <1>0, <1>1, <1>2, <2>1, <2>2, <2>3 DEF TypeOK
<1>6. NodeOK(n)'
  BY <1>0, <1>1, <1>3, <1>2 DEF NodeOK, IdleOK, DrainOK, StartOK, CopyOK, Belongs, Starting,
     HasChild, NewScript, etcdVars
<1>7. Alone(n) => Alone(n)'
  BY <1>1, <1>3, <1>4 DEF Alone, At, NewScript, OthersSame, etcdVars
<1>8. MajorityOK'
  BY <1>1, <1>4, <1>5, <1>7, EtcdSame, MajorityStaysOK DEF Healthy, etcdVars
<1> QED BY <1>1, <1>4, <1>5, <1>6, <1>8, EtcdSame, InvFromParts DEF etcdVars

LEMMA StepIsTyped ==
    ASSUME IInv, NEW n \in Nodes, NEW x \in Script \cup {None},
           script' = [script EXCEPT ![n] = x], phase' = phase, powerLost' = powerLost, faults' = faults,
           x # None => x.drain = script[n].drain /\ script[n] # None,
           pidfile' \in [Nodes -> {"none", "live", "stale"}], EtcdTypeOK'
    PROVE  TypeOK'
BY DEF IInv, TypeOK

LEMMA AnswersType ==
    ASSUME TypeOK, NEW list \in Answers
    PROVE  list \in SUBSET Member
<1>0. EtcdTypeOK
  BY DEF TypeOK
<1>1. CASE Reachable = {}
  BY <1>1 DEF Answers
<1>2. CASE Reachable # {} /\ list # {}
  <2>1. PICK c \in Reachable : list = members[c]
    BY <1>0, <1>2 DEF Answers
  <2>2. PICK m \in Nodes : run[m] # None /\ c = run[m].cluster
    BY <2>1 DEF Reachable
  <2>3. run[m] \in Copy
    BY <1>0, <2>2 DEF EtcdTypeOK
  <2>4. c \in Clusters
    BY <2>2, <2>3 DEF Copy
  <2> QED BY <1>0, <2>1, <2>4 DEF EtcdTypeOK
<1> QED BY <1>1, <1>2

LEMMA StartListsInv ==
    ASSUME Assumed, IInv, NEW n \in Nodes, NEW list \in Answers, StartLists(n, list),
           list # {} \/ Reachable = {}, powerLost' = powerLost, faults' = faults
    PROVE  IInv'
<1>0. /\ TypeOK /\ NodeOK(n) /\ ClusterOK /\ EtcdTypeOK
      /\ script[n] # None /\ script[n].pc = "list" /\ ~script[n].drain
      /\ UNCHANGED <<etcdVars, pidfile, phase>>
  BY DEF IInv, TypeOK, StartLists, At
<1> DEFINE pc == IF list = {} \/ MyEntries(n, list) # {} THEN "launch" ELSE "add"
           x == [script[n] EXCEPT !.prior = list, !.pc = pc]
<1>1. script[n] \in Script /\ phase[n] = "run" /\ ~Healthy(n) /\ Starting(n)
  BY <1>0, ScriptFacts
<1>2. list \in SUBSET Member
  BY <1>0, AnswersType
<1>3. /\ x \in Script /\ x.pc = pc /\ x.prior = list /\ x.drain = script[n].drain
      /\ x.child = script[n].child
  BY <1>1, <1>2 DEF Script
<1>4. x # None
  BY <1>3, NoneIsNoScript
<1>5. script' = [script EXCEPT ![n] = x] /\ script'[n] = x
  BY <1>0 DEF StartLists, TypeOK
<1> HIDE DEF x
<1>6. OthersSame(n)
  BY <1>0, <1>5 DEF OthersSame, TypeOK, etcdVars
<1>7. EtcdTypeOK' /\ pidfile' \in [Nodes -> {"none", "live", "stale"}]
  BY <1>0 DEF EtcdTypeOK, TypeOK, etcdVars
<1>8. TypeOK'
  BY <1>0, <1>3, <1>5, <1>7, StepIsTyped
<1>9. run[n] = None /\ script[n].child = "none" /\ pidfile[n] = "none"
  BY <1>0, <1>1 DEF NodeOK, StartOK
<1>10. pc = "add" => \A c \in Clusters : n \notin Hosts(members[c])
  <2> SUFFICES ASSUME list # {}, MyEntries(n, list) = {}, NEW c \in Clusters
               PROVE  n \notin Hosts(members[c])
    OBVIOUS
  <2>2. PICK d \in founded : list = members[d]
    BY ListsAreMembers
  <2>3. n \notin Hosts(members[d])
    BY <2>2 DEF Assumed, MyEntries, Hosts
  <2>4. c # d => members[c] = {}
    BY <1>0, <2>2 DEF ClusterOK
  <2> QED BY <2>3, <2>4 DEF Hosts
<1>11. list = {} /\ disk[n] = None => founded = {}
  BY <1>0, NobodyAnswers
<1>12. NodeOK(n)'
  <2>1. IdleOK(n)' /\ DrainOK(n)'
    BY <1>0, <1>1, <1>3, <1>5 DEF IdleOK, DrainOK
  <2>2. StartOK(n)'
    BY <1>0, <1>3, <1>4, <1>5, <1>9, <1>10, <1>11 DEF StartOK, Starting, etcdVars
  <2>3. CopyOK(n)'
    BY <1>0, <1>9 DEF NodeOK, CopyOK, Belongs, etcdVars
  <2> QED BY <2>1, <2>2, <2>3 DEF NodeOK
<1>13. founded # {} /\ Alone(n) => Alone(n)'
  <2> SUFFICES ASSUME founded # {}, Alone(n), \A m \in Nodes \ {n} : phase[m] = "new"
               PROVE  pc = "launch" /\ disk[n] # None /\ disk[n].valid /\ disk[n].full
    BY <1>0, <1>1, <1>3, <1>5 DEF Alone, At, etcdVars
  <2>1. \A m \in Nodes : run[m] = None
    BY <1>9 DEF IInv, NodeOK, IdleOK
  <2>2. Reachable = {}
    BY <2>1 DEF Reachable
  <2> QED BY <2>2 DEF Answers, Alone
<1>14. MajorityOK'
  BY <1>0, <1>1, <1>6, <1>8, <1>13, EtcdSame, MajorityStaysOK DEF etcdVars
<1> QED BY <1>0, <1>6, <1>8, <1>12, <1>14, EtcdSame, InvFromParts DEF etcdVars

\* The list of a cluster with one machine.
LEMMA AloneHasOneEntry ==
    ASSUME Assumed, IInv, NEW u \in Nodes, Alone(u), NEW c \in founded,
           \A m \in Nodes \ {u} : phase[m] = "new"
    PROVE  Cardinality(members[c]) = 1 /\ MyEntries(u, members[c]) # {}
<1>0. TypeOK /\ NoDuplicates /\ c \in Clusters /\ CopyOK(u) /\ ClusterOK
  BY DEF IInv, TypeOK, EtcdTypeOK, NodeOK
<1>1. disk[u] # None /\ disk[u].valid
  BY DEF Alone
<1>2. u \in Hosts(members[c])
  BY <1>0, <1>1 DEF CopyOK, Belongs, ClusterOK
<1>3. Hosts(members[c]) \subseteq {u}
  BY <1>0, HostsAreNodes DEF IInv, NodeOK, IdleOK
<1>4. Cardinality(Hosts(members[c])) = 1
  <2>1. Hosts(members[c]) = {u}
    BY <1>2, <1>3
  <2> QED BY <2>1, FS_Singleton
<1>5. Cardinality(members[c]) = 1
  BY <1>0, <1>4, ListIsFinite
<1>6. MyEntries(u, members[c]) # {}
  BY <1>2 DEF MyEntries, Hosts, Assumed
<1> QED BY <1>5, <1>6

LEMMA DrainListsInv ==
    ASSUME Assumed, IInv, NEW n \in Nodes, NEW list \in Answers, DrainLists(n, list),
           list # {} \/ Reachable = {}, powerLost' = powerLost, faults' = faults
    PROVE  IInv'
<1>0. /\ TypeOK /\ NodeOK(n) /\ ClusterOK /\ EtcdTypeOK
      /\ script[n] # None /\ script[n].pc = "list" /\ script[n].drain
      /\ UNCHANGED <<etcdVars, pidfile, phase>>
  BY DEF IInv, TypeOK, DrainLists, At
<1>1. script[n] \in Script /\ phase[n] = "drain" /\ ~Healthy(n) /\ ~Starting(n)
      /\ script[n].child = "none"
  BY <1>0, ScriptFacts DEF NodeOK, DrainOK
<1>2. EtcdTypeOK' /\ pidfile' \in [Nodes -> {"none", "live", "stale"}]
  BY <1>0 DEF EtcdTypeOK, TypeOK, etcdVars
<1>3. CASE HadOtherNodes(n, list)
  <2> DEFINE x == [script[n] EXCEPT !.prior = list, !.pc = "remove"]
  <2>1. list \in SUBSET Member
    BY <1>0, AnswersType
  <2>2. /\ x \in Script /\ x.pc = "remove" /\ x.drain = script[n].drain
        /\ x.child = "none"
    BY <1>1, <2>1 DEF Script
  <2>3. x # None
    BY <2>2, NoneIsNoScript
  <2>4. script' = [script EXCEPT ![n] = x] /\ script'[n] = x
    BY <1>0, <1>3 DEF DrainLists, TypeOK
  <2> HIDE DEF x
  <2>5. OthersSame(n)
    BY <1>0, <2>4 DEF OthersSame, TypeOK, etcdVars
  <2>6. TypeOK'
    BY <1>0, <1>2, <2>2, <2>4, StepIsTyped
  <2>7. NodeOK(n)'
    <3>1. IdleOK(n)' /\ DrainOK(n)' /\ StartOK(n)'
      BY <1>0, <1>1, <2>2, <2>4 DEF IdleOK, DrainOK, StartOK, Starting
    <3>2. CopyOK(n)'
      BY <1>0, <1>1, <2>4 DEF NodeOK, CopyOK, Belongs, HasChild, etcdVars
    <3> QED BY <3>1, <3>2 DEF NodeOK
  <2>8. founded # {} /\ Alone(n) => Alone(n)'
    <3> SUFFICES ASSUME founded # {}, Alone(n), \A m \in Nodes \ {n} : phase[m] = "new"
                 PROVE  FALSE
      BY <1>0 DEF Alone
    <3>1. run[n] # None
      BY <1>0 DEF Alone
    <3>2. Reachable # {}
      BY <3>1 DEF Reachable
    <3>3. PICK c \in founded : list = members[c]
      BY <3>2, ListsAreMembers
    <3> QED BY <1>3, <3>3, AloneHasOneEntry DEF HadOtherNodes
  <2>9. MajorityOK'
    BY <1>0, <1>1, <2>5, <2>6, <2>8, EtcdSame, MajorityStaysOK DEF etcdVars
  <2> QED BY <1>0, <2>5, <2>6, <2>7, <2>9, EtcdSame, InvFromParts DEF etcdVars
<1>4. CASE ~HadOtherNodes(n, list)
  <2>1. script' = [script EXCEPT ![n] = None] /\ script'[n] = None
    BY <1>0, <1>4 DEF DrainLists, Exit, TypeOK
  <2>2. OthersSame(n)
    BY <1>0, <2>1 DEF OthersSame, TypeOK, etcdVars
  <2>3. TypeOK'
    BY <1>0, <1>2, <2>1, StepIsTyped
  <2>4. NodeOK(n)'
    BY <1>0, <1>1, <2>1, NoScriptIsOK DEF HasChild
  <2>5. Alone(n) => Alone(n)'
    BY <1>0, <2>1 DEF Alone, At, etcdVars
  <2>6. MajorityOK'
    BY <1>0, <1>1, <2>2, <2>3, <2>5, EtcdSame, MajorityStaysOK DEF etcdVars
  <2> QED BY <1>0, <2>2, <2>3, <2>4, <2>6, EtcdSame, InvFromParts DEF etcdVars
<1> QED BY <1>3, <1>4

\* A step that changes the script of a node and its pidfile at most.
LEMMA ScriptStepInv ==
    ASSUME Assumed, IInv, NEW n \in Nodes, NEW x \in Script \cup {None}, script[n] # None,
           script' = [script EXCEPT ![n] = x], x # None => x.drain = script[n].drain,
           pidfile' \in [Nodes -> {"none", "live", "stale"}],
           \A m \in Nodes \ {n} : pidfile'[m] = pidfile[m],
           etcdVars' = etcdVars, phase' = phase, powerLost' = powerLost, faults' = faults,
           NodeOK(n)', founded # {} /\ Alone(n) => Alone(n)'
    PROVE  IInv'
<1>0. TypeOK /\ EtcdTypeOK
  BY DEF IInv, TypeOK
<1>1. EtcdTypeOK'
  BY <1>0 DEF EtcdTypeOK, etcdVars
<1>2. TypeOK'
  BY <1>1, StepIsTyped
<1>3. OthersSame(n)
  BY <1>0 DEF OthersSame, TypeOK, etcdVars
<1>4. MajorityOK'
  BY <1>2, <1>3, ScriptFacts, EtcdSame, MajorityStaysOK DEF etcdVars
<1> QED BY <1>2, <1>3, <1>4, EtcdSame, InvFromParts DEF etcdVars

LEMMA SyncsInv ==
    ASSUME Assumed, IInv, NEW n \in Nodes, Syncs(n), powerLost' = powerLost, faults' = faults
    PROVE  IInv'
<1>0. /\ TypeOK /\ NodeOK(n)
      /\ script[n] # None /\ script[n].pc = "sync" /\ run[n] # None /\ run[n].full
      /\ script' = [script EXCEPT ![n] = None]
      /\ UNCHANGED <<etcdVars, phase>>
  BY DEF IInv, Syncs, At, Exit
<1>1. Starting(n) /\ phase[n] = "run" /\ script[n] \in Script
  BY <1>0, ScriptFacts DEF NodeOK, DrainOK
<1>2. pidfile' = [pidfile EXCEPT ![n] = "live"]
  BY <1>0, <1>1 DEF Syncs, NodeOK, StartOK, HasChild
<1>3. script'[n] = None /\ pidfile'[n] = "live"
  BY <1>0, <1>2 DEF TypeOK
<1>4. NodeOK(n)'
  BY <1>0, <1>1, <1>3 DEF NodeOK, IdleOK, DrainOK, StartOK, CopyOK, Belongs, Starting, etcdVars
<1>5. Alone(n) => Alone(n)'
  BY <1>0, <1>3 DEF Alone, At, etcdVars
<1> QED BY <1>0, <1>2, <1>4, <1>5, ScriptStepInv DEF TypeOK

\* No etcd that runs is given up on: the timeout finds one that has ended.
LEMMA TimesOutInv ==
    ASSUME Assumed, IInv, NEW n \in Nodes, TimesOut(n),
           ~(run[n] # None /\ Elects(run[n].cluster)), powerLost' = powerLost, faults' = faults
    PROVE  IInv'
<1> DEFINE pc == IF HadOtherNodes(n, script[n].prior) THEN "remove" ELSE "kill"
           x == [script[n] EXCEPT !.pc = pc]
<1>0. /\ TypeOK /\ NodeOK(n)
      /\ script[n] # None /\ script[n].pc = "sync"
      /\ script' = [script EXCEPT ![n].pc = pc]
      /\ UNCHANGED <<etcdVars, pidfile, phase>>
  BY DEF IInv, TimesOut, At, Go
<1>1. Starting(n) /\ phase[n] = "run" /\ script[n] \in Script
  BY <1>0, ScriptFacts DEF NodeOK, DrainOK
<1>2. run[n] = None
  BY <1>1, RunningElects
<1>3. x \in Script /\ x.pc = pc /\ x.drain = script[n].drain /\ x.child = script[n].child
  BY <1>1 DEF Script
<1>4. x # None
  BY <1>3, NoneIsNoScript
<1>5. script' = [script EXCEPT ![n] = x] /\ script'[n] = x
  BY <1>0 DEF TypeOK
<1> HIDE DEF x
<1>6. NodeOK(n)'
  <2>1. IdleOK(n)' /\ DrainOK(n)'
    BY <1>0, <1>1, <1>3, <1>5 DEF NodeOK, IdleOK, DrainOK, Starting
  <2>2. StartOK(n)'
    BY <1>0, <1>1, <1>2, <1>3, <1>5 DEF NodeOK, StartOK, etcdVars
  <2>3. CopyOK(n)'
    BY <1>0, <1>2 DEF NodeOK, CopyOK, Belongs, etcdVars
  <2> QED BY <2>1, <2>2, <2>3 DEF NodeOK
<1>7. Alone(n) => Alone(n)'
  BY <1>0, <1>2 DEF Alone, At
<1> QED BY <1>0, <1>3, <1>5, <1>6, <1>7, ScriptStepInv DEF TypeOK

LEMMA KillsInv ==
    ASSUME Assumed, IInv, NEW n \in Nodes, Kills(n), powerLost' = powerLost, faults' = faults
    PROVE  IInv'
<1>0. /\ TypeOK /\ NodeOK(n)
      /\ script[n] # None /\ script[n].pc = "kill"
      /\ script' = [script EXCEPT ![n] = None]
      /\ UNCHANGED <<members, disk, founded, phase>>
  BY DEF IInv, Kills, At, Exit
<1>1. Starting(n) /\ script[n] \in Script
  BY <1>0, ScriptFacts DEF NodeOK, DrainOK
<1>2. run[n] = None /\ ~HasChild(n)
  BY <1>0, <1>1 DEF NodeOK, StartOK, HasChild
<1>3. etcdVars' = etcdVars /\ pidfile' = pidfile /\ script'[n] = None
  BY <1>0, <1>2 DEF Kills, etcdVars, TypeOK
<1>4. NodeOK(n)'
  BY <1>0, <1>2, <1>3, NoScriptIsOK
<1>5. Alone(n) => Alone(n)'
  BY <1>0 DEF Alone, At
<1> QED BY <1>0, <1>3, <1>4, <1>5, ScriptStepInv DEF TypeOK

\* A data directory is wiped by a drain, or by a start whose etcd has ended.
LEMMA WipesInv ==
    ASSUME Assumed, IInv, NEW n \in Nodes, Wipes(n), powerLost' = powerLost, faults' = faults
    PROVE  IInv'
<1> DEFINE x == IF script[n].drain THEN None ELSE [script[n] EXCEPT !.pc = "kill"]
<1>0. /\ TypeOK /\ EtcdTypeOK /\ NodeOK(n) /\ ClusterOK /\ NoDuplicates
      /\ script[n] # None /\ script[n].pc = "wipe"
      /\ disk' = [disk EXCEPT ![n] = None]
      /\ UNCHANGED <<members, run, founded, pidfile, phase>>
  BY DEF IInv, TypeOK, Wipes, At
<1>1. script[n] \in Script /\ phase[n] \in {"run", "drain"}
      /\ (script[n].drain <=> phase[n] = "drain")
      /\ (Starting(n) <=> ~script[n].drain) /\ phase[n] # "new" /\ ~Healthy(n)
  BY <1>0, ScriptFacts
<1>2. Starting(n) => run[n] = None /\ script[n].child = "none"
  BY <1>0 DEF NodeOK, StartOK
<1>3. /\ x \in Script \cup {None}
      /\ script[n].drain => x = None
      /\ ~script[n].drain =>
            x # None /\ x.pc = "kill" /\ x.drain = FALSE /\ x.child = "none"
  BY <1>1, <1>2, NoneIsNoScript DEF Script
<1>4. script' = [script EXCEPT ![n] = x] /\ script'[n] = x /\ disk'[n] = None
  BY <1>0 DEF Wipes, Exit, Go, TypeOK, EtcdTypeOK
<1> HIDE DEF x
<1>5. OthersSame(n)
  BY <1>0, <1>4 DEF OthersSame, TypeOK, EtcdTypeOK
<1>6. EtcdTypeOK' /\ pidfile' \in [Nodes -> {"none", "live", "stale"}]
  BY <1>0 DEF EtcdTypeOK, TypeOK
<1>7. script[n].drain \in BOOLEAN
  BY <1>1 DEF Script
<1>8. TypeOK'
  BY <1>0, <1>3, <1>4, <1>6, <1>7, StepIsTyped
<1>9. NodeOK(n)'
  <2>1. IdleOK(n)' /\ DrainOK(n)' /\ StartOK(n)'
    BY <1>0, <1>1, <1>2, <1>3, <1>4, <1>7 DEF NodeOK, IdleOK, DrainOK, StartOK, Starting
  <2>2. run[n] # None => pidfile[n] = "live" /\ phase[n] # "run"
    BY <1>0, <1>1, <1>2 DEF NodeOK, CopyOK, DrainOK, HasChild
  <2>3. CopyOK(n)'
    BY <1>0, <1>4, <2>2 DEF NodeOK, CopyOK, Belongs, HasChild
  <2> QED BY <2>1, <2>3 DEF NodeOK
<1>10. Alone(n) => Alone(n)'
  BY <1>0 DEF Alone
<1>11. ClusterOK' /\ NoDuplicates'
  BY <1>0, ClusterStaysOK DEF NoDuplicates
<1>12. ASSUME NEW c \in founded
       PROVE  (n \in Core(c) => n \in Core(c)') /\ (n \in Counted(c)' => n \in Counted(c))
  BY <1>0 DEF Core, Counted, Voters, Hosts
<1>13. MajorityOK'
  BY <1>0, <1>1, <1>5, <1>8, <1>10, <1>12, MajorityStaysOK
<1> QED BY <1>0, <1>5, <1>8, <1>9, <1>11, <1>13, InvFromParts

\* The script of a node goes on to pc, and nothing else changes.
LEMMA ScriptGoesOn ==
    ASSUME Assumed, IInv, NEW n \in Nodes, NEW pc \in {"wipe", "kill"}, script[n] # None,
           At(n, "remove"), Go(n, pc), script[n].drain => pc = "wipe",
           UNCHANGED <<etcdVars, pidfile, phase, powerLost, faults>>
    PROVE  IInv'
<1> DEFINE x == [script[n] EXCEPT !.pc = pc]
<1>0. TypeOK /\ NodeOK(n) /\ script[n].pc = "remove" /\ script' = [script EXCEPT ![n].pc = pc]
  BY DEF IInv, At, Go
<1>1. script[n] \in Script /\ phase[n] \in {"run", "drain"}
      /\ (Starting(n) <=> ~script[n].drain)
  BY ScriptFacts
<1>2. x \in Script /\ x.pc = pc /\ x.drain = script[n].drain /\ x.child = script[n].child
  BY <1>1 DEF Script
<1>3. x # None
  BY <1>2, NoneIsNoScript
<1>4. script' = [script EXCEPT ![n] = x] /\ script'[n] = x
  BY <1>0 DEF TypeOK
<1> HIDE DEF x
<1>5. NodeOK(n)'
  <2>1. IdleOK(n)' /\ DrainOK(n)' /\ StartOK(n)'
    BY <1>0, <1>1, <1>2, <1>3, <1>4 DEF NodeOK, IdleOK, DrainOK, StartOK, Starting, etcdVars
  <2>2. CopyOK(n)'
    BY <1>0, <1>2, <1>3, <1>4 DEF NodeOK, CopyOK, Belongs, HasChild, etcdVars
  <2> QED BY <2>1, <2>2 DEF NodeOK
<1>6. Alone(n) => Alone(n)'
  BY <1>0 DEF Alone
<1> QED BY <1>2, <1>4, <1>5, <1>6, <1>0, ScriptStepInv DEF TypeOK

LEMMA DropInv ==
    ASSUME Assumed, IInv, NEW n \in Nodes, At(n, "remove"), NEW c \in Reachable,
           Drop(c, n), Go(n, "wipe"), UNCHANGED <<pidfile, phase, powerLost, faults>>
    PROVE  IInv'
<1> DEFINE x == [script[n] EXCEPT !.pc = "wipe"]
<1>0. /\ TypeOK /\ EtcdTypeOK /\ NodeOK(n) /\ ClusterOK /\ NoDuplicates
      /\ script[n] # None /\ script[n].pc = "remove"
      /\ script' = [script EXCEPT ![n].pc = "wipe"]
      /\ members' = [members EXCEPT ![c] = {m \in @ : m.node # n}]
      /\ founded' = founded
  BY DEF IInv, TypeOK, At, Go, Drop
<1>1. script[n] \in Script /\ phase[n] \in {"run", "drain"}
      /\ (script[n].drain <=> phase[n] = "drain")
      /\ (Starting(n) <=> ~script[n].drain) /\ phase[n] # "new" /\ ~Healthy(n)
  BY <1>0, ScriptFacts
<1>2. x \in Script /\ x.pc = "wipe" /\ x.drain = script[n].drain /\ x.child = script[n].child
  BY <1>1 DEF Script
<1>3. x # None
  BY <1>2, NoneIsNoScript
<1>4. script' = [script EXCEPT ![n] = x] /\ script'[n] = x
  BY <1>0 DEF TypeOK
<1> HIDE DEF x
<1>5. c \in founded /\ c \in Clusters
  BY <1>0 DEF IInv, NodeOK, CopyOK, Belongs, Reachable, EtcdTypeOK
<1>6. /\ \A d \in Clusters : d # c => members'[d] = members[d]
      /\ members'[c] = {m \in members[c] : m.node # n}
      /\ \A d \in Clusters : members'[d] \subseteq members[d]
  BY <1>0, <1>5 DEF EtcdTypeOK
<1>7. /\ disk[n] = None => disk'[n] = None
      /\ disk[n] # None => disk'[n] \in Copy /\ disk'[n].cluster = disk[n].cluster
                           /\ disk'[n].full = disk[n].full
                           /\ disk'[n].valid = (disk[n].valid /\ disk[n].cluster # c)
      /\ \A m \in Nodes \ {n} : disk'[m] = disk[m]
      /\ disk' \in [Nodes -> Copy \cup {None}]
  <2>1. CASE disk[n] # None /\ disk[n].cluster = c
    <3> DEFINE copy == [disk[n] EXCEPT !.valid = FALSE]
    <3>1. disk[n] \in Copy
      BY <1>0, <2>1 DEF EtcdTypeOK
    <3>2. copy \in Copy /\ copy.cluster = disk[n].cluster /\ copy.full = disk[n].full
          /\ copy.valid = FALSE
      BY <3>1 DEF Copy
    <3>3. disk' = [disk EXCEPT ![n] = copy]
      BY <2>1 DEF Drop
    <3> HIDE DEF copy
    <3> QED BY <1>0, <2>1, <3>2, <3>3 DEF EtcdTypeOK
  <2>2. CASE ~(disk[n] # None /\ disk[n].cluster = c)
    <3>1. disk' = disk
      BY <2>2 DEF Drop
    <3>2. disk[n] # None => disk[n] \in Copy /\ disk[n].valid \in BOOLEAN
      BY <1>0 DEF EtcdTypeOK, Copy
    <3> QED BY <1>0, <2>2, <3>1, <3>2 DEF EtcdTypeOK
  <2> QED BY <2>1, <2>2
<1>8. /\ run[n] = None => run'[n] = None
      /\ run[n] # None => run'[n] \in Copy /\ run'[n].cluster = run[n].cluster
                          /\ run'[n].full = run[n].full
                          /\ run'[n].valid = (run[n].valid /\ run[n].cluster # c)
      /\ \A m \in Nodes \ {n} : run'[m] = run[m]
      /\ run' \in [Nodes -> Copy \cup {None}]
  <2>1. CASE run[n] # None /\ run[n].cluster = c
    <3> DEFINE copy == [run[n] EXCEPT !.valid = FALSE]
    <3>1. run[n] \in Copy
      BY <1>0, <2>1 DEF EtcdTypeOK
    <3>2. copy \in Copy /\ copy.cluster = run[n].cluster /\ copy.full = run[n].full
          /\ copy.valid = FALSE
      BY <3>1 DEF Copy
    <3>3. run' = [run EXCEPT ![n] = copy]
      BY <2>1 DEF Drop
    <3> HIDE DEF copy
    <3> QED BY <1>0, <2>1, <3>2, <3>3 DEF EtcdTypeOK
  <2>2. CASE ~(run[n] # None /\ run[n].cluster = c)
    <3>1. run' = run
      BY <2>2 DEF Drop
    <3>2. run[n] # None => run[n] \in Copy /\ run[n].valid \in BOOLEAN
      BY <1>0 DEF EtcdTypeOK, Copy
    <3> QED BY <1>0, <2>2, <3>1, <3>2 DEF EtcdTypeOK
  <2> QED BY <2>1, <2>2
<1>9. run[n] # None /\ disk[n] # None => disk'[n] = run'[n]
  BY <1>0, <1>7, <1>8 DEF NodeOK, CopyOK, Copy
<1>10. OthersSame(n)
  <2> SUFFICES ASSUME NEW m \in Nodes \ {n}
               PROVE  /\ script'[m] = script[m]
                      /\ \A d \in Clusters : m \in Hosts(members'[d]) <=> m \in Hosts(members[d])
    BY <1>7, <1>8 DEF OthersSame
  <2> QED BY <1>0, <1>4, <1>6 DEF TypeOK, Hosts
<1>11. EtcdTypeOK'
  <2>1. members' \in [Clusters -> SUBSET Member]
    BY <1>0, <1>6 DEF EtcdTypeOK
  <2> QED BY <1>0, <1>7, <1>8, <2>1 DEF EtcdTypeOK
<1>12. TypeOK'
  BY <1>0, <1>2, <1>4, <1>11, StepIsTyped DEF TypeOK
<1>13. Starting(n) => run[n] = None /\ script[n].child = "none"
  BY <1>0 DEF NodeOK, StartOK
<1>14. \A d \in Clusters : d # c => (n \in Hosts(members'[d]) <=> n \in Hosts(members[d]))
  BY <1>6
<1>15. NodeOK(n)'
  <2>1. IdleOK(n)' /\ DrainOK(n)'
    BY <1>0, <1>1, <1>2, <1>3, <1>4 DEF NodeOK, IdleOK, DrainOK, Starting
  <2>2. StartOK(n)'
    BY <1>0, <1>1, <1>2, <1>4, <1>8, <1>13 DEF NodeOK, StartOK, Starting
  <2>3. Belongs(n, disk[n])'
    BY <1>0, <1>7, <1>14 DEF NodeOK, CopyOK, Belongs, EtcdTypeOK, Copy, Hosts
  <2>4. Belongs(n, run[n])'
    BY <1>0, <1>8, <1>14 DEF NodeOK, CopyOK, Belongs, EtcdTypeOK, Copy, Hosts
  <2>5. run[n] # None /\ phase[n] = "run" => FALSE
    BY <1>1, <1>13
  <2>6. /\ run'[n] # None <=> run[n] # None
        /\ disk'[n] # None => disk[n] # None
        /\ run[n] # None => run'[n].full = run[n].full
    BY <1>7, <1>8, NoneAssumption
  <2>7. HasChild(n)' <=> HasChild(n)
    BY <1>0, <1>2, <1>3, <1>4 DEF HasChild
  <2>8. pidfile'[n] = pidfile[n] /\ phase'[n] = phase[n]
    OBVIOUS
  <2>9. CopyOK(n)'
    BY <1>0, <1>9, <2>3, <2>4, <2>5, <2>6, <2>7, <2>8 DEF NodeOK, CopyOK
  <2> QED BY <2>1, <2>2, <2>9 DEF NodeOK
<1>16. ClusterOK'
  BY <1>0, <1>5, <1>6, ClusterStaysOK
<1>17. NoDuplicates'
  BY <1>0, <1>6 DEF NoDuplicates
<1>18. Alone(n) => Alone(n)'
  BY <1>0 DEF Alone
<1>19. ASSUME NEW d \in founded
       PROVE  (n \in Core(d) => n \in Core(d)') /\ (n \in Counted(d)' => n \in Counted(d))
  <2>1. n \notin Core(d)
    BY <1>1, <1>13 DEF Core, Voters
  <2>2. d \in Clusters
    BY <1>0 DEF EtcdTypeOK
  <2>3. n \in Counted(d)' => n \in Counted(d)
    BY <1>6, <2>2 DEF Counted, Hosts
  <2> QED BY <2>1, <2>3
<1>20. MajorityOK'
  BY <1>0, <1>1, <1>10, <1>12, <1>18, <1>19, MajorityStaysOK
<1> QED BY <1>0, <1>10, <1>12, <1>15, <1>16, <1>17, <1>20, InvFromParts

\* Only the entry of the node itself is removed.
LEMMA RemovesInv ==
    ASSUME Assumed, IInv, NEW n \in Nodes, Removes(n), powerLost' = powerLost, faults' = faults
    PROVE  IInv'
<1> DEFINE mine == Hosts(MyEntries(n, script[n].prior))
           CanRemove(c, m) == Commits(c) /\ m \in Hosts(members[c])
<1>0. At(n, "remove") /\ script[n] # None /\ script[n].pc = "remove"
      /\ UNCHANGED <<pidfile, phase, powerLost, faults>> /\ NodeOK(n)
  BY DEF Removes, At, IInv
<1>1. mine \subseteq {n}
  BY DEF Hosts, MyEntries, Assumed
<1>2. CASE mine = {} /\ Go(n, "wipe") /\ UNCHANGED etcdVars
  BY <1>0, <1>2, ScriptGoesOn
<1>3. CASE \E c \in Reachable, m \in mine : CanRemove(c, m) /\ Drop(c, m) /\ Go(n, "wipe")
  <2>1. PICK c \in Reachable, m \in mine : Drop(c, m) /\ Go(n, "wipe")
    BY <1>3
  <2> QED BY <1>0, <1>1, <2>1, DropInv
<1>4. CASE script[n].drain /\ Go(n, "wipe") /\ UNCHANGED etcdVars
  BY <1>0, <1>4, ScriptGoesOn
<1>5. CASE ~script[n].drain /\ Exit(n) /\ UNCHANGED etcdVars
  <2>1. script' = [script EXCEPT ![n] = None] /\ script'[n] = None /\ TypeOK
    BY <1>5 DEF Exit, TypeOK, IInv
  <2>2. ~HasChild(n)
    BY <1>0, <1>5 DEF NodeOK, StartOK, Starting, HasChild
  <2>3. NodeOK(n)'
    BY <1>0, <1>5, <2>1, <2>2, NoScriptIsOK
  <2>4. Alone(n) => Alone(n)'
    BY <1>0 DEF Alone
  <2> QED BY <1>0, <1>5, <2>1, <2>3, <2>4, ScriptStepInv DEF TypeOK
<1> QED BY <1>2, <1>3, <1>4, <1>5 DEF Removes

\* A node is added whose address is in no list.
LEMMA AddsInv ==
    ASSUME Assumed, IInv, NEW n \in Nodes, Adds(n), powerLost' = powerLost, faults' = faults
    PROVE  IInv'
<1>0. /\ TypeOK /\ EtcdTypeOK /\ NodeOK(n) /\ ClusterOK /\ NoDuplicates
      /\ script[n] # None /\ script[n].pc = "add"
      /\ UNCHANGED <<disk, run, founded, pidfile, phase>>
  BY DEF IInv, TypeOK, Adds, At
<1>1. script[n] \in Script /\ phase[n] = "run" /\ Starting(n) /\ script[n].drain = FALSE
      /\ phase[n] # "new" /\ ~Healthy(n)
  BY <1>0, ScriptFacts DEF NodeOK, DrainOK, Script
<1>2. /\ run[n] = None /\ script[n].child = "none" /\ script[n].prior # {}
      /\ \A c \in Clusters : n \notin Hosts(members[c])
  BY <1>0, <1>1 DEF NodeOK, StartOK
<1>3. Alone(n) => Alone(n)'
  BY <1>0 DEF Alone
<1>4. CASE Exit(n) /\ UNCHANGED members
  <2>1. script' = [script EXCEPT ![n] = None] /\ script'[n] = None /\ etcdVars' = etcdVars
    BY <1>0, <1>4 DEF Exit, TypeOK, etcdVars
  <2>2. NodeOK(n)'
    BY <1>0, <1>2, <2>1, NoScriptIsOK DEF HasChild
  <2> QED BY <1>0, <1>3, <2>1, <2>2, ScriptStepInv DEF TypeOK
<1>5. CASE \E c \in Reachable :
             /\ members' = Added(c, n)
             /\ script' = [script EXCEPT ![n].pc = "launch", ![n].added = TRUE]
  <2> DEFINE x == [script[n] EXCEPT !.pc = "launch", !.added = TRUE]
             new == [node |-> n, named |-> FALSE]
  <2>1. PICK c \in Reachable :
             /\ members' = Added(c, n)
             /\ script' = [script EXCEPT ![n].pc = "launch", ![n].added = TRUE]
    BY <1>5
  <2>2. /\ x \in Script /\ x.pc = "launch" /\ x.drain = FALSE /\ x.child = "none"
        /\ x.prior # {}
    BY <1>1, <1>2 DEF Script
  <2>3. x # None
    BY <2>2, NoneIsNoScript
  <2>4. script' = [script EXCEPT ![n] = x] /\ script'[n] = x
    BY <1>0, <2>1 DEF TypeOK
  <2>5. c \in founded /\ c \in Clusters
    BY <1>0 DEF IInv, NodeOK, CopyOK, Belongs, Reachable, EtcdTypeOK
  <2>6. new \in Member /\ new.node = n
    BY DEF Member
  <2> HIDE DEF x, new
  <2>7. /\ \A d \in Clusters : d # c => members'[d] = members[d]
        /\ members'[c] = members[c] \cup {new}
        /\ members' \in [Clusters -> SUBSET Member]
    <3>1. members' = [members EXCEPT ![c] = members[c] \cup {new}]
      BY <2>1 DEF Added, new
    <3> QED BY <1>0, <2>5, <2>6, <3>1 DEF EtcdTypeOK
  <2>8. \A d \in Clusters, m \in Nodes \ {n} :
           m \in Hosts(members'[d]) <=> m \in Hosts(members[d])
    BY <2>6, <2>7 DEF Hosts
  <2>9. \A d \in Clusters : Hosts(members[d]) \subseteq Hosts(members'[d])
    BY <2>7 DEF Hosts
  <2>10. OthersSame(n)
    BY <1>0, <2>4, <2>8 DEF OthersSame, TypeOK
  <2>11. EtcdTypeOK'
    BY <1>0, <2>7 DEF EtcdTypeOK
  <2>12. TypeOK'
    BY <1>0, <1>1, <2>2, <2>4, <2>11, StepIsTyped DEF TypeOK
  <2>13. NodeOK(n)'
    <3>1. IdleOK(n)' /\ DrainOK(n)' /\ StartOK(n)'
      BY <1>0, <1>1, <1>2, <2>2, <2>4 DEF NodeOK, IdleOK, DrainOK, StartOK, Starting
    <3>2. Belongs(n, disk[n])' /\ Belongs(n, run[n])'
      BY <1>0, <1>2, <2>9 DEF NodeOK, CopyOK, Belongs, EtcdTypeOK, Copy
    <3>3. CopyOK(n)'
      BY <1>0, <1>2, <3>2 DEF NodeOK, CopyOK
    <3> QED BY <3>1, <3>3 DEF NodeOK
  <2>14. ClusterOK'
    BY <1>0, <2>5, <2>7, ClusterStaysOK
  <2>15. NoDuplicates'
    BY <1>0, <1>2, <2>5, <2>6, <2>7 DEF NoDuplicates, Hosts
  <2>16. ASSUME NEW d \in founded
         PROVE  (n \in Core(d) => n \in Core(d)') /\ (n \in Counted(d)' => n \in Counted(d))
    BY <1>1, <1>2 DEF Core, Counted, Voters
  <2>17. MajorityOK'
    BY <1>0, <1>1, <1>3, <2>10, <2>12, <2>16, MajorityStaysOK
  <2> QED BY <1>0, <2>10, <2>12, <2>13, <2>14, <2>15, <2>17, InvFromParts
<1> QED BY <1>4, <1>5 DEF Adds

\* An etcd that resumes its data, or joins, serves a copy of a cluster that its
\* node is a member of.
LEMMA ServesInv ==
    ASSUME Assumed, IInv, NEW n \in Nodes, At(n, "launch"), Starting(n),
           NEW copy \in Copy, NEW child \in {"joins", "resumes"},
           copy.valid, copy.cluster \in founded, n \in Hosts(members[copy.cluster]),
           disk[n] # None => disk[n] = copy,
           run' = [run EXCEPT ![n] = copy], disk' = [disk EXCEPT ![n] = copy],
           script' = [script EXCEPT ![n].pc = "sync", ![n].child = child],
           UNCHANGED <<members, founded, pidfile, phase, powerLost, faults>>
    PROVE  IInv'
<1> DEFINE x == [script[n] EXCEPT !.pc = "sync", !.child = child]
<1>0. /\ TypeOK /\ EtcdTypeOK /\ NodeOK(n) /\ NoDuplicates
      /\ script[n] # None /\ script[n].pc = "launch" /\ script[n].drain = FALSE
  BY DEF IInv, TypeOK, At, Starting, Script
<1>1. script[n] \in Script /\ phase[n] = "run" /\ phase[n] # "new" /\ ~Healthy(n)
      /\ copy # None
  BY <1>0, ScriptFacts, NoneAssumption
<1>2. run[n] = None /\ pidfile[n] = "none"
  BY <1>0 DEF NodeOK, StartOK
<1>3. x \in Script /\ x.pc = "sync" /\ x.drain = FALSE /\ x.child = child
  BY <1>0, <1>1 DEF Script
<1>4. x # None
  BY <1>3, NoneIsNoScript
<1>5. script' = [script EXCEPT ![n] = x] /\ script'[n] = x
      /\ run'[n] = copy /\ disk'[n] = copy
  BY <1>0 DEF TypeOK, EtcdTypeOK
<1> HIDE DEF x
<1>6. OthersSame(n)
  BY <1>0, <1>5 DEF OthersSame, TypeOK, EtcdTypeOK
<1>7. EtcdTypeOK'
  BY <1>0 DEF EtcdTypeOK
<1>8. TypeOK'
  BY <1>0, <1>3, <1>5, <1>7, StepIsTyped DEF TypeOK
<1>9. NodeOK(n)'
  <2>1. IdleOK(n)' /\ DrainOK(n)' /\ StartOK(n)'
    BY <1>0, <1>1, <1>2, <1>3, <1>4, <1>5 DEF NodeOK, IdleOK, DrainOK, StartOK, Starting
  <2>2. Belongs(n, disk[n])' /\ Belongs(n, run[n])'
    BY <1>5 DEF Belongs
  <2>3. CopyOK(n)'
    BY <1>1, <1>2, <1>3, <1>4, <1>5, <2>2 DEF CopyOK, HasChild
  <2> QED BY <2>1, <2>3 DEF NodeOK
<1>10. ClusterOK' /\ NoDuplicates'
  BY <1>0, ClusterStaysOK DEF NoDuplicates
<1>11. Alone(n) => Alone(n)'
  BY <1>0, <1>1, <1>3, <1>4, <1>5 DEF Alone, At
<1>12. ASSUME NEW d \in founded
       PROVE  (n \in Core(d) => n \in Core(d)') /\ (n \in Counted(d)' => n \in Counted(d))
  BY <1>1, <1>2 DEF Core, Counted, Voters
<1>13. MajorityOK'
  BY <1>0, <1>1, <1>6, <1>8, <1>11, <1>12, MajorityStaysOK
<1> QED BY <1>0, <1>6, <1>8, <1>9, <1>10, <1>13, InvFromParts

\* A cluster is founded by the first machine only, with all of its data.
LEMMA FoundsInv ==
    ASSUME Assumed, IInv, NEW n \in Nodes, At(n, "launch"), Starting(n),
           NEW c \in Clusters, Found(n, c), founded = {},
           run' = [run EXCEPT ![n] = [cluster |-> c, valid |-> TRUE, full |-> TRUE]],
           disk' = [disk EXCEPT ![n] = [cluster |-> c, valid |-> TRUE, full |-> TRUE]],
           script' = [script EXCEPT ![n].pc = "sync", ![n].child = "founds"],
           UNCHANGED <<pidfile, phase, powerLost, faults>>
    PROVE  IInv'
<1> DEFINE x == [script[n] EXCEPT !.pc = "sync", !.child = "founds"]
           copy == [cluster |-> c, valid |-> TRUE, full |-> TRUE]
           entry == [node |-> n, named |-> TRUE]
<1>0. /\ TypeOK /\ EtcdTypeOK /\ NodeOK(n) /\ NoDuplicates /\ ClusterOK
      /\ script[n] # None /\ script[n].pc = "launch" /\ script[n].drain = FALSE
  BY DEF IInv, TypeOK, At, Starting, Script
<1>1. script[n] \in Script /\ phase[n] = "run" /\ phase[n] # "new"
  BY <1>0, ScriptFacts
<1>2. run[n] = None /\ pidfile[n] = "none"
  BY <1>0 DEF NodeOK, StartOK
<1>3. /\ x \in Script /\ x.pc = "sync" /\ x.drain = FALSE /\ x.child = "founds"
      /\ copy \in Copy /\ copy.cluster = c /\ copy.valid /\ copy.full
      /\ entry \in Member /\ entry.node = n
  BY <1>0, <1>1 DEF Script, Copy, Member
<1>4. x # None /\ copy # None
  BY <1>3, NoneIsNoScript, NoneAssumption
<1> HIDE DEF x, copy, entry
<1>5. script' = [script EXCEPT ![n] = x] /\ script'[n] = x
      /\ run' = [run EXCEPT ![n] = copy] /\ disk' = [disk EXCEPT ![n] = copy]
      /\ run'[n] = copy /\ disk'[n] = copy
      /\ members' = [members EXCEPT ![c] = {entry}] /\ founded' = {c}
  BY <1>0 DEF TypeOK, EtcdTypeOK, Found, x, copy, entry
<1>6. members'[c] = {entry} /\ \A d \in Clusters \ {c} : members'[d] = {}
  BY <1>0, <1>5 DEF ClusterOK, EtcdTypeOK
<1>7. \A m \in Nodes \ {n} : phase[m] = "new"
  BY <1>0, <1>1 DEF ClusterOK
<1>8. OthersSame(n)
  <2>1. \A m \in Nodes \ {n}, d \in Clusters : m \notin Hosts(members'[d])
    BY <1>3, <1>6 DEF Hosts
  <2>2. \A m \in Nodes \ {n}, d \in Clusters : m \notin Hosts(members[d])
    BY <1>7 DEF IInv, NodeOK, IdleOK
  <2> QED BY <1>0, <1>5, <2>1, <2>2 DEF OthersSame, TypeOK, EtcdTypeOK
<1>9. EtcdTypeOK'
  <2>1. {entry} \in SUBSET Member
    BY <1>3
  <2>2. members' \in [Clusters -> SUBSET Member]
    BY <1>0, <1>5, <2>1 DEF EtcdTypeOK
  <2>3. copy \in Copy \cup {None}
    BY <1>3
  <2>4. run' \in [Nodes -> Copy \cup {None}]
    BY <1>0, <1>5, <2>3 DEF EtcdTypeOK
  <2>5. disk' \in [Nodes -> Copy \cup {None}]
    BY <1>0, <1>5, <2>3 DEF EtcdTypeOK
  <2> QED BY <1>5, <2>2, <2>4, <2>5 DEF EtcdTypeOK
<1>10. TypeOK'
  BY <1>0, <1>3, <1>5, <1>9, StepIsTyped DEF TypeOK
<1>11. NodeOK(n)'
  <2>1. IdleOK(n)' /\ DrainOK(n)' /\ StartOK(n)'
    BY <1>0, <1>1, <1>2, <1>3, <1>4, <1>5 DEF NodeOK, IdleOK, DrainOK, StartOK, Starting
  <2>2. Belongs(n, disk[n])' /\ Belongs(n, run[n])'
    BY <1>3, <1>5, <1>6 DEF Belongs, Hosts
  <2>3. CopyOK(n)'
    BY <1>1, <1>2, <1>3, <1>4, <1>5, <2>2 DEF CopyOK, HasChild
  <2> QED BY <2>1, <2>3 DEF NodeOK
<1>12. \A m \in Nodes \ {n} : NodeOK(m)'
  BY <1>0, <1>5, <1>7, <1>8, OthersStayOK DEF IInv, NodeOK, IdleOK
<1>13. ClusterOK' /\ NoDuplicates'
  BY <1>0, <1>5, <1>6 DEF ClusterOK, NoDuplicates
<1>14. Calm(n)' /\ Alone(n)'
  BY <1>3, <1>4, <1>5, <1>7 DEF Calm, Alone, At
<1> QED BY <1>10, <1>11, <1>12, <1>13, <1>14 DEF IInv, MajorityOK

LEMMA LaunchesInv ==
    ASSUME Assumed, IInv, NEW n \in Nodes, Launches(n), powerLost' = powerLost, faults' = faults
    PROVE  IInv'
<1> DEFINE isNew == IsNew(n)
           Serves(copy, child) ==
               /\ run' = [run EXCEPT ![n] = copy] /\ disk' = [disk EXCEPT ![n] = copy]
               /\ script' = [script EXCEPT ![n].pc = "sync", ![n].child = child]
<1>0. /\ TypeOK /\ EtcdTypeOK /\ NodeOK(n) /\ ClusterOK
      /\ At(n, "launch") /\ script[n] # None /\ script[n].pc = "launch"
      /\ UNCHANGED <<pidfile, phase, powerLost, faults>>
  BY DEF IInv, TypeOK, Launches, At
<1>1. script[n] \in Script /\ phase[n] = "run" /\ Starting(n) /\ script[n].drain = FALSE
  BY <1>0, ScriptFacts DEF NodeOK, DrainOK, Script
<1>2. run[n] = None /\ script[n].child = "none"
      /\ (script[n].prior = {} /\ disk[n] = None => founded = {})
  BY <1>0, <1>1 DEF NodeOK, StartOK
<1>3. CASE Resumes(n) /\ Serves(disk[n], "resumes") /\ UNCHANGED <<members, founded>>
  <2>1. disk[n] # None /\ disk[n] \in Copy /\ disk[n].valid
    BY <1>0, <1>3 DEF Resumes, EtcdTypeOK
  <2>2. disk[n].cluster \in founded /\ n \in Hosts(members[disk[n].cluster])
    BY <1>0, <2>1 DEF NodeOK, CopyOK, Belongs
  <2> QED BY <1>0, <1>1, <1>3, <2>1, <2>2, ServesInv
<1>4. CASE \E c \in Clusters :
              /\ Founds(n, isNew, c)
              /\ Serves([cluster |-> c, valid |-> TRUE, full |-> TRUE], "founds")
              /\ Found(n, c)
  <2>1. PICK c \in Clusters :
              /\ Founds(n, isNew, c)
              /\ Serves([cluster |-> c, valid |-> TRUE, full |-> TRUE], "founds")
              /\ Found(n, c)
    BY <1>4
  <2>2. founded = {}
    BY <1>2, <2>1 DEF Founds, IsNew
  <2> QED BY <1>0, <1>1, <2>1, <2>2, FoundsInv
<1>5. CASE \E c \in Clusters :
              /\ Joins(n, isNew, Cluster(n), c)
              /\ Serves([cluster |-> c, valid |-> TRUE, full |-> FALSE], "joins")
              /\ UNCHANGED <<members, founded>>
  <2>1. PICK c \in Clusters :
              /\ Joins(n, isNew, Cluster(n), c)
              /\ Serves([cluster |-> c, valid |-> TRUE, full |-> FALSE], "joins")
              /\ UNCHANGED <<members, founded>>
    BY <1>5
  <2> DEFINE copy == [cluster |-> c, valid |-> TRUE, full |-> FALSE]
  <2>2. copy \in Copy /\ copy.valid /\ copy.cluster = c
    BY DEF Copy
  <2>3. disk[n] = None /\ n \in Cluster(n) /\ Cluster(n) = Hosts(members[c])
        /\ \E m \in Cluster(n) \ {n} : run[m] # None /\ run[m].cluster = c
    BY <2>1 DEF Joins
  <2>4. n \in Hosts(members[c])
    BY <2>3
  <2>5. c \in founded
    BY <1>0, <2>3, HostsAreNodes DEF IInv, NodeOK, CopyOK, Belongs
  <2>6. Serves(copy, "joins") /\ UNCHANGED <<members, founded>>
    BY <2>1
  <2> HIDE DEF copy
  <2> QED BY <1>0, <1>1, <2>2, <2>3, <2>4, <2>5, <2>6, ServesInv
<1>6. CASE ~Resumes(n) /\ Go(n, "sync") /\ UNCHANGED etcdVars
  <2> DEFINE x == [script[n] EXCEPT !.pc = "sync"]
  <2>1. x \in Script /\ x.pc = "sync" /\ x.drain = FALSE /\ x.child = "none"
    BY <1>1, <1>2 DEF Script
  <2>2. x # None
    BY <2>1, NoneIsNoScript
  <2>3. script' = [script EXCEPT ![n] = x] /\ script'[n] = x
    BY <1>0, <1>6 DEF Go, TypeOK
  <2> HIDE DEF x
  <2>4. NodeOK(n)'
    <3>1. IdleOK(n)' /\ DrainOK(n)' /\ StartOK(n)'
      BY <1>0, <1>1, <1>2, <1>6, <2>1, <2>3
         DEF NodeOK, IdleOK, DrainOK, StartOK, Starting, etcdVars
    <3>2. CopyOK(n)'
      BY <1>0, <1>2, <1>6 DEF NodeOK, CopyOK, Belongs, etcdVars
    <3> QED BY <3>1, <3>2 DEF NodeOK
  <2>5. Alone(n) => Alone(n)'
    BY <1>0, <1>2, <1>6 DEF Alone, Resumes
  <2> QED BY <1>0, <1>1, <1>6, <2>1, <2>3, <2>4, <2>5, ScriptStepInv DEF TypeOK
<1> QED BY <1>3, <1>4, <1>5, <1>6 DEF Launches

-----------------------------------------------------------------------------
(* BOSH, and the failures. *)

\* An update begins while every other machine that was deployed is well.
LEMMA DeploysInv ==
    ASSUME Assumed, IInv, NEW n \in Nodes, Deploys(n), powerLost' = powerLost, faults' = faults
    PROVE  IInv'
<1>0. /\ TypeOK /\ EtcdTypeOK /\ NodeOK(n) /\ ClusterOK /\ NoDuplicates /\ MajorityOK
      /\ phase[n] \in {"new", "stopped"} /\ Calm(n)
      /\ phase' = [phase EXCEPT ![n] = "run"]
      /\ UNCHANGED <<members, founded, disk, run, pidfile, script, powerLost, faults>>
  BY DEF IInv, TypeOK, Deploys, Assumed, etcdVars
<1>1. phase'[n] = "run" /\ script[n] = None /\ run[n] = None /\ pidfile[n] = "none"
  BY <1>0 DEF TypeOK, NodeOK, IdleOK
<1>2. OthersSame(n)
  BY <1>0 DEF OthersSame, TypeOK
<1>3. TypeOK'
  <2>1. EtcdTypeOK'
    BY <1>0 DEF EtcdTypeOK
  <2>2. \A m \in Nodes : script'[m] # None => script'[m].drain = (phase'[m] = "drain")
    BY <1>0, <1>1 DEF TypeOK
  <2> QED BY <1>0, <2>1, <2>2 DEF TypeOK
<1>4. NodeOK(n)'
  BY <1>0, <1>1 DEF NodeOK, IdleOK, DrainOK, StartOK, CopyOK, Belongs, Starting, HasChild
<1>5. ClusterOK'
  <2>1. ASSUME founded = {}, NEW m \in Nodes \ {n} PROVE phase[m] = "new"
    BY <1>0, <2>1 DEF Calm, Healthy, IInv, NodeOK, CopyOK, Belongs
  <2>2. founded' = {} =>
          \A l, m \in Nodes : phase'[l] = "new" \/ phase'[m] = "new" \/ l = m
    BY <1>0, <2>1 DEF TypeOK
  <2> QED BY <1>0, <2>2 DEF ClusterOK
<1>6. NoDuplicates'
  BY <1>0 DEF NoDuplicates
<1>7. ASSUME NEW c \in founded PROVE Alone(n)'
  <2> SUFFICES ASSUME \A m \in Nodes \ {n} : phase'[m] = "new"
               PROVE  disk[n] # None /\ disk[n].valid /\ disk[n].full
    BY <1>0, <1>1 DEF Alone, At
  <2>1. \A m \in Nodes \ {n} : phase[m] = "new"
    BY <1>0 DEF TypeOK
  <2>2. ~Strong(c)
    <3> SUFFICES ASSUME Strong(c) PROVE FALSE
      OBVIOUS
    <3>1. PICK m \in Core(c) : TRUE
      BY <1>0, StrongServes DEF EtcdTypeOK
    <3>2. m \in Nodes /\ phase[m] = "run"
      BY <1>0, <3>1, HostsAreNodes DEF Core, Voters, EtcdTypeOK
    <3> QED BY <1>0, <2>1, <3>2
  <2>3. PICK u \in Nodes : Calm(u) /\ Alone(u)
    BY <1>0, <2>2 DEF MajorityOK
  <2>4. CASE u = n
    BY <2>1, <2>3, <2>4 DEF Alone
  <2>5. CASE u # n
    <3>1. phase[n] = "new"
      BY <1>0, <2>3, <2>5 DEF Calm, Healthy
    <3>2. disk[u] # None
      BY <2>1, <2>3, <2>5, <3>1 DEF Alone
    <3> QED BY <2>1, <2>5, <3>2 DEF IInv, NodeOK, IdleOK
  <2> QED BY <2>4, <2>5
<1>8. MajorityOK'
  BY <1>0, <1>2, <1>7, CalmStays DEF MajorityOK
<1> QED BY <1>0, <1>2, <1>3, <1>4, <1>5, <1>6, <1>8, InvFromParts

LEMMA DrainsInv ==
    ASSUME Assumed, IInv, NEW n \in Nodes, Drains(n), powerLost' = powerLost, faults' = faults
    PROVE  IInv'
<1>0. /\ TypeOK /\ EtcdTypeOK /\ NodeOK(n) /\ ClusterOK /\ NoDuplicates
      /\ phase[n] = "run" /\ script[n] = None /\ Calm(n) /\ Healthy(n)
      /\ phase' = [phase EXCEPT ![n] = "drain"]
      /\ script' = [script EXCEPT ![n] = NewScript(TRUE)]
      /\ UNCHANGED <<members, founded, disk, run, pidfile, powerLost, faults>>
  BY DEF IInv, TypeOK, Drains, Assumed, etcdVars
<1>1. NewScript(TRUE) \in Script /\ NewScript(TRUE) # None
  BY NewScriptType
<1>2. phase'[n] = "drain" /\ script'[n] = NewScript(TRUE) /\ pidfile[n] = "live"
  BY <1>0 DEF TypeOK, Healthy
<1>3. OthersSame(n)
  BY <1>0 DEF OthersSame, TypeOK
<1>4. TypeOK'
  <2>1. EtcdTypeOK'
    BY <1>0 DEF EtcdTypeOK
  <2>2. \A m \in Nodes : script'[m] # None => script'[m].drain = (phase'[m] = "drain")
    BY <1>0, <1>2 DEF TypeOK, NewScript
  <2> QED BY <1>0, <1>1, <2>1, <2>2 DEF TypeOK
<1>5. NodeOK(n)'
  BY <1>0, <1>1, <1>2
     DEF NodeOK, IdleOK, DrainOK, StartOK, CopyOK, Belongs, Starting, HasChild, NewScript
<1>6. ClusterOK'
  <2>1. \A m \in Nodes : phase'[m] = "new" <=> phase[m] = "new"
    BY <1>0 DEF TypeOK
  <2> QED BY <1>0, <2>1, ClusterStaysOK
<1>7. NoDuplicates'
  BY <1>0 DEF NoDuplicates
<1>8. ASSUME NEW c \in founded PROVE Alone(n)'
  <2>1. run[n] # None /\ disk[n] = run[n] /\ run[n].valid /\ run[n].full
    BY <1>0, HealthyServes
  <2> QED BY <1>0, <1>1, <1>2, <2>1 DEF Alone, At, NewScript
<1>9. MajorityOK'
  BY <1>0, <1>3, <1>8, CalmStays DEF MajorityOK
<1> QED BY <1>0, <1>3, <1>4, <1>5, <1>6, <1>7, <1>9, InvFromParts

LEMMA StopsInv ==
    ASSUME Assumed, IInv, NEW n \in Nodes, Stops(n), powerLost' = powerLost, faults' = faults
    PROVE  IInv'
<1>0. /\ TypeOK /\ EtcdTypeOK /\ NodeOK(n) /\ ClusterOK /\ NoDuplicates
      /\ phase[n] = "drain" /\ script[n] = None
      /\ phase' = [phase EXCEPT ![n] = "stopped"]
      /\ pidfile' = [pidfile EXCEPT ![n] = "none"]
      /\ UNCHANGED <<members, founded, disk, script, powerLost, faults>>
  BY DEF IInv, TypeOK, Stops
<1>1. run' = [run EXCEPT ![n] = None] /\ run'[n] = None
  <2>1. CASE pidfile[n] = "live"
    BY <1>0, <2>1 DEF Stops, EtcdTypeOK
  <2>2. CASE pidfile[n] # "live"
    <3>1. run[n] = None /\ run' = run
      BY <1>0, <2>2 DEF Stops, NodeOK, CopyOK, HasChild
    <3> QED BY <1>0, <3>1 DEF EtcdTypeOK
  <2> QED BY <2>1, <2>2
<1>2. phase'[n] = "stopped" /\ pidfile'[n] = "none"
  BY <1>0 DEF TypeOK
<1>3. OthersSame(n)
  BY <1>0, <1>1 DEF OthersSame, TypeOK, EtcdTypeOK
<1>4. TypeOK'
  <2>1. EtcdTypeOK'
    BY <1>0, <1>1 DEF EtcdTypeOK
  <2>2. \A m \in Nodes : script'[m] # None => script'[m].drain = (phase'[m] = "drain")
    BY <1>0 DEF TypeOK
  <2> QED BY <1>0, <2>1, <2>2 DEF TypeOK
<1>5. NodeOK(n)'
  BY <1>0, <1>1, <1>2
     DEF NodeOK, IdleOK, DrainOK, StartOK, CopyOK, Belongs, Starting, HasChild
<1>6. ClusterOK'
  <2>1. \A m \in Nodes : phase'[m] = "new" <=> phase[m] = "new"
    BY <1>0 DEF TypeOK
  <2> QED BY <1>0, <2>1, ClusterStaysOK
<1>7. NoDuplicates'
  BY <1>0 DEF NoDuplicates
<1>8. Alone(n) => Alone(n)'
  BY <1>0, <1>3 DEF Alone, At, OthersSame
<1>9. ASSUME NEW c \in founded
      PROVE  (n \in Core(c) => n \in Core(c)') /\ (n \in Counted(c)' => n \in Counted(c))
  BY <1>0, <1>2 DEF Core, Counted, Voters, Hosts
<1>10. MajorityOK'
  BY <1>0, <1>3, <1>4, <1>8, <1>9, MajorityStaysOK DEF Healthy
<1> QED BY <1>0, <1>3, <1>4, <1>5, <1>6, <1>7, <1>10, InvFromParts

\* An etcd that learns of its removal ends during a drain; any other may crash
\* while a majority is left.
LEMMA EtcdEndsInv ==
    ASSUME Assumed, IInv, NEW n \in Nodes, EtcdEnds(n), run[n].valid => Spare(n),
           powerLost' = powerLost, faults' = faults
    PROVE  IInv'
<1> DEFINE x == IF script[n] = None THEN None ELSE [script[n] EXCEPT !.child = "none"]
           p == IF pidfile[n] = "live" THEN "stale" ELSE pidfile[n]
<1>0. /\ TypeOK /\ EtcdTypeOK /\ NodeOK(n) /\ ClusterOK /\ NoDuplicates
      /\ run[n] # None /\ run' = [run EXCEPT ![n] = None]
      /\ pidfile' = [pidfile EXCEPT ![n] = p]
      /\ UNCHANGED <<members, founded, disk, phase, powerLost, faults>>
  BY DEF IInv, TypeOK, EtcdEnds, Ends
<1>1. phase[n] \in {"run", "drain"} /\ phase[n] # "new"
  BY <1>0 DEF TypeOK, NodeOK, IdleOK
<1>2. /\ x \in Script \cup {None}
      /\ x # None <=> script[n] # None
      /\ x # None => x.pc = script[n].pc /\ x.drain = script[n].drain
                     /\ x.prior = script[n].prior /\ x.child = "none"
  <2>1. CASE script[n] = None
    BY <2>1
  <2>2. CASE script[n] # None
    <3>1. script[n] \in Script
      BY <1>0, <2>2 DEF TypeOK
    <3>2. x \in Script /\ x.pc = script[n].pc /\ x.drain = script[n].drain
          /\ x.prior = script[n].prior /\ x.child = "none"
      BY <2>2, <3>1 DEF Script
    <3> QED BY <2>2, <3>2, NoneIsNoScript
  <2> QED BY <2>1, <2>2
<1>3. script' = [script EXCEPT ![n] = x] /\ script'[n] = x
  <2>1. CASE script[n] = None
    BY <1>0, <2>1 DEF EtcdEnds, TypeOK
  <2>2. CASE script[n] # None
    BY <1>0, <2>2 DEF EtcdEnds, TypeOK
  <2> QED BY <2>1, <2>2
<1> HIDE DEF x
<1>4. p \in {"none", "stale"} /\ p # "live" /\ (pidfile[n] = "none" => p = "none")
  BY <1>0 DEF TypeOK
<1>5. run'[n] = None /\ pidfile'[n] = p
  BY <1>0 DEF TypeOK, EtcdTypeOK
<1> HIDE DEF p
<1>6. OthersSame(n)
  BY <1>0, <1>3 DEF OthersSame, TypeOK, EtcdTypeOK
<1>7. EtcdTypeOK' /\ pidfile' \in [Nodes -> {"none", "live", "stale"}]
  BY <1>0, <1>4 DEF EtcdTypeOK, TypeOK
<1>8. TypeOK'
  BY <1>0, <1>2, <1>3, <1>7, StepIsTyped
<1>9. NodeOK(n)'
  <2>1. IdleOK(n)' /\ DrainOK(n)'
    BY <1>0, <1>1, <1>2, <1>3 DEF NodeOK, IdleOK, DrainOK
  <2>2. StartOK(n)'
    BY <1>0, <1>2, <1>3, <1>4, <1>5 DEF NodeOK, StartOK, Starting
  <2>3. CopyOK(n)'
    BY <1>0, <1>4, <1>5 DEF NodeOK, CopyOK, Belongs
  <2> QED BY <2>1, <2>2, <2>3 DEF NodeOK
<1>10. ClusterOK' /\ NoDuplicates'
  BY <1>0, ClusterStaysOK DEF NoDuplicates
<1>11. CASE run[n].valid
  <2>1. Spare(n)
    BY <1>11
  <2>2. MajorityOK'
    BY <1>0, <1>6, <1>8, <2>1, FailureLeavesMajority
  <2> QED BY <1>0, <1>6, <1>8, <1>9, <1>10, <2>2, InvFromParts
<1>12. CASE ~run[n].valid
  <2>1. phase[n] = "drain" /\ ~Healthy(n)
    BY <1>0, <1>1, <1>12 DEF NodeOK, CopyOK, Healthy
  <2>2. Alone(n) => Alone(n)'
    <3> SUFFICES ASSUME Alone(n), \A m \in Nodes \ {n} : phase[m] = "new" PROVE FALSE
      BY <1>0 DEF Alone
    <3> QED BY <1>0, <1>12 DEF Alone, NodeOK, CopyOK
  <2>3. ASSUME NEW c \in founded
        PROVE  (n \in Core(c) => n \in Core(c)') /\ (n \in Counted(c)' => n \in Counted(c))
    BY <1>0, <2>1 DEF Core, Counted, Voters, Hosts
  <2>4. MajorityOK'
    BY <1>0, <1>1, <1>6, <1>8, <2>1, <2>2, <2>3, MajorityStaysOK
  <2> QED BY <1>0, <1>6, <1>8, <1>9, <1>10, <2>4, InvFromParts
<1> QED BY <1>11, <1>12

LEMMA PowerFailsInv ==
    ASSUME Assumed, IInv, NEW n \in Nodes, PowerFails(n), Spare(n), faults' = faults
    PROVE  IInv'
<1>0. /\ TypeOK /\ EtcdTypeOK /\ NodeOK(n) /\ ClusterOK /\ NoDuplicates
      /\ phase[n] # "new" /\ Spare(n)
      /\ run' = [run EXCEPT ![n] = None] /\ script' = [script EXCEPT ![n] = None]
      /\ pidfile' = [pidfile EXCEPT ![n] = "none"] /\ powerLost' = TRUE
      /\ UNCHANGED <<members, disk, founded, phase>>
  BY DEF IInv, TypeOK, PowerFails
<1>1. run'[n] = None /\ script'[n] = None /\ pidfile'[n] = "none"
  BY <1>0 DEF TypeOK, EtcdTypeOK
<1>2. OthersSame(n)
  BY <1>0 DEF OthersSame, TypeOK, EtcdTypeOK
<1>3. TypeOK'
  <2>1. EtcdTypeOK'
    BY <1>0 DEF EtcdTypeOK
  <2>2. \A m \in Nodes : script'[m] # None => script'[m].drain = (phase'[m] = "drain")
    BY <1>0, <1>1 DEF TypeOK
  <2> QED BY <1>0, <2>1, <2>2 DEF TypeOK
<1>4. NodeOK(n)'
  BY <1>0, <1>1 DEF NodeOK, IdleOK, DrainOK, StartOK, CopyOK, Belongs, Starting
<1>5. ClusterOK' /\ NoDuplicates'
  BY <1>0, ClusterStaysOK DEF NoDuplicates
<1>6. MajorityOK'
  BY <1>0, <1>2, <1>3, FailureLeavesMajority
<1> QED BY <1>0, <1>2, <1>3, <1>4, <1>5, <1>6, InvFromParts

LEMMA CaughtInv ==
    ASSUME Assumed, IInv, NEW n \in Nodes, Caught(n), powerLost' = powerLost, faults' = faults
    PROVE  IInv'
<1> DEFINE c == run[n].cluster
           copy == [run[n] EXCEPT !.full = TRUE]
           Name(m) == IF m.node = n THEN [m EXCEPT !.named = TRUE] ELSE m
<1>0. /\ TypeOK /\ EtcdTypeOK /\ NodeOK(n) /\ ClusterOK /\ NoDuplicates
      /\ run[n] # None /\ ~run[n].full
      /\ members' = [members EXCEPT ![c] = {Name(m) : m \in @}]
      /\ UNCHANGED <<founded, pidfile, script, phase, powerLost, faults>>
  BY DEF IInv, TypeOK, Caught, CatchesUp
<1>1. run[n] \in Copy /\ c \in Clusters /\ c \in founded
  BY <1>0 DEF EtcdTypeOK, Copy, NodeOK, CopyOK, Belongs
<1>2. copy \in Copy /\ copy.cluster = c /\ copy.valid = run[n].valid /\ copy.full
  BY <1>1 DEF Copy
<1>3. copy # None
  BY <1>2, NoneAssumption
<1>4. run' = [run EXCEPT ![n] = copy]
  BY <1>0 DEF Caught, CatchesUp
<1>5. /\ disk[n] = None => disk' = disk
      /\ disk[n] # None => disk' = [disk EXCEPT ![n] = copy]
  BY <1>0 DEF Caught, CatchesUp, NodeOK, CopyOK
<1> HIDE DEF copy
<1>6. run'[n] = copy /\ (disk[n] # None => disk'[n] = copy)
  BY <1>0, <1>4, <1>5 DEF EtcdTypeOK
<1>7. \A m \in Member : Name(m) \in Member /\ Name(m).node = m.node
                        /\ (m.node # n => Name(m) = m)
  BY DEF Member
<1>8. \A l, m \in Member : l.node = n /\ m.node = n => Name(l) = Name(m)
  BY DEF Member
<1> HIDE DEF Name
<1>9. /\ \A d \in Clusters : d # c => members'[d] = members[d]
      /\ members'[c] = {Name(m) : m \in members[c]}
      /\ members[c] \subseteq Member
  BY <1>0, <1>1 DEF EtcdTypeOK
<1>10. \A d \in Clusters : Hosts(members'[d]) = Hosts(members[d])
  <2>1. ASSUME NEW h PROVE h \in Hosts(members'[c]) <=> h \in Hosts(members[c])
    BY <1>7, <1>9 DEF Hosts
  <2>2. Hosts(members'[c]) = Hosts(members[c])
    BY <2>1
  <2> QED BY <1>9, <2>2
<1>11. EtcdTypeOK'
  <2>1. {Name(m) : m \in members[c]} \in SUBSET Member
    BY <1>7, <1>9
  <2>2. members' \in [Clusters -> SUBSET Member]
    BY <1>0, <2>1 DEF EtcdTypeOK
  <2>3. copy \in Copy \cup {None}
    BY <1>2
  <2>4. run' \in [Nodes -> Copy \cup {None}]
    BY <1>0, <1>4, <2>3 DEF EtcdTypeOK
  <2>5. disk' \in [Nodes -> Copy \cup {None}]
    BY <1>0, <1>5, <2>3 DEF EtcdTypeOK
  <2> QED BY <1>0, <2>2, <2>4, <2>5 DEF EtcdTypeOK
<1>12. TypeOK'
  BY <1>0, <1>11 DEF TypeOK
<1>13. OthersSame(n)
  BY <1>0, <1>4, <1>5, <1>10 DEF OthersSame, EtcdTypeOK
<1>14. phase[n] # "new" /\ ~Healthy(n)
  BY <1>0 DEF NodeOK, IdleOK, CopyOK, Healthy
<1>15. NodeOK(n)'
  <2>1. IdleOK(n)' /\ DrainOK(n)'
    BY <1>0, <1>14 DEF NodeOK, IdleOK, DrainOK
  <2>2. StartOK(n)'
    BY <1>0, <1>3, <1>6, <1>10 DEF NodeOK, StartOK, Starting, Hosts
  <2>3. Belongs(n, run[n])'
    BY <1>0, <1>1, <1>2, <1>6, <1>10 DEF NodeOK, CopyOK, Belongs, Hosts
  <2>4. Belongs(n, disk[n])'
    <3>1. CASE disk[n] = None
      BY <1>5, <3>1 DEF Belongs
    <3>2. CASE disk[n] # None
      BY <1>6, <2>3, <3>2 DEF Belongs
    <3> QED BY <3>1, <3>2
  <2>5. CopyOK(n)'
    <3>1. run[n] # None /\ disk'[n] # None => disk'[n] = run'[n]
      BY <1>5, <1>6
    <3>2. phase[n] = "run" => disk'[n] = run'[n] /\ run'[n].valid
      BY <1>0, <1>2, <1>6 DEF NodeOK, CopyOK
    <3>3. pidfile[n] = "live" \/ HasChild(n)
      BY <1>0 DEF NodeOK, CopyOK
    <3>4. run'[n] # None /\ run'[n].full
      BY <1>2, <1>3, <1>6
    <3> QED BY <1>0, <2>3, <2>4, <3>1, <3>2, <3>3, <3>4 DEF CopyOK, HasChild
  <2> QED BY <2>1, <2>2, <2>5 DEF NodeOK
<1>16. ClusterOK'
  BY <1>0, <1>1, <1>9, ClusterStaysOK
<1>17. NoDuplicates'
  <2> SUFFICES ASSUME NEW d \in Clusters, NEW l \in members'[d], NEW m \in members'[d],
                      l.node = m.node
               PROVE  l = m
    BY DEF NoDuplicates
  <2>1. CASE d # c
    BY <1>0, <1>9, <2>1 DEF NoDuplicates
  <2>2. CASE d = c
    <3>1. PICK x \in members[c], y \in members[c] : l = Name(x) /\ m = Name(y)
      BY <1>9, <2>2
    <3>2. x.node = y.node
      BY <1>7, <1>9, <3>1
    <3>3. x = y
      BY <1>0, <1>1, <3>2 DEF NoDuplicates
    <3> QED BY <3>1, <3>3
  <2> QED BY <2>1, <2>2
<1>18. Alone(n) => Alone(n)'
  BY <1>0, <1>2, <1>3, <1>6 DEF Alone, At, NodeOK, CopyOK
<1>19. ASSUME NEW d \in founded
       PROVE  (n \in Core(d) => n \in Core(d)') /\ (n \in Counted(d)' => n \in Counted(d))
  <2>1. n \notin Core(d)
    BY <1>0 DEF Core
  <2>2. d \in Clusters
    BY <1>0 DEF EtcdTypeOK
  <2>3. n \in Counted(d)' => n \in Counted(d)
    BY <1>0, <1>10, <2>2 DEF Counted, Hosts
  <2> QED BY <2>1, <2>3
<1>20. MajorityOK'
  BY <1>0, <1>12, <1>13, <1>14, <1>18, <1>19, MajorityStaysOK
<1> QED BY <1>0, <1>12, <1>13, <1>15, <1>16, <1>17, <1>20, InvFromParts

-----------------------------------------------------------------------------

LEMMA InitInv == Init => IInv
<1> SUFFICES ASSUME Init PROVE IInv
  OBVIOUS
<1>1. TypeOK
  BY DEF Init, EtcdInit, TypeOK, EtcdTypeOK
<1>2. ASSUME NEW n \in Nodes PROVE NodeOK(n)
  BY DEF Init, EtcdInit, NodeOK, IdleOK, DrainOK, StartOK, CopyOK, Belongs, Starting, Hosts
<1>3. ClusterOK /\ NoDuplicates /\ MajorityOK
  BY DEF Init, EtcdInit, ClusterOK, NoDuplicates, MajorityOK
<1> QED BY <1>1, <1>2, <1>3 DEF IInv

LEMMA StutterInv ==
    ASSUME IInv, UNCHANGED vars
    PROVE  IInv'
<1> USE DEF vars, nodeVars, etcdVars, history
<1>1. TypeOK' /\ ClusterOK' /\ NoDuplicates'
  BY DEF IInv, TypeOK, EtcdTypeOK, ClusterOK, NoDuplicates
<1>2. ASSUME NEW n \in Nodes PROVE NodeOK(n)'
  BY DEF IInv, NodeOK, IdleOK, DrainOK, StartOK, CopyOK, Belongs, Starting, HasChild
<1>3. MajorityOK'
  BY DEF IInv, MajorityOK, Strong, Core, Counted, Voters, Calm, Alone, Healthy, At
<1> QED BY <1>1, <1>2, <1>3 DEF IInv

\* A step of a script that is no fault.
LEMMA CtlStepInv ==
    ASSUME Assumed, IInv, NEW n \in Nodes, CtlStep(n), powerLost' = powerLost, faults' = faults,
           ~Happens(n, "missed"), ~Happens(n, "slow")
    PROVE  IInv'
<1>1. CASE \E list \in Answers : StartLists(n, list)
  <2>1. PICK list \in Answers : StartLists(n, list)
    BY <1>1
  <2>2. list # {} \/ Reachable = {}
    BY <2>1 DEF Happens
  <2> QED BY <2>1, <2>2, StartListsInv
<1>2. CASE \E list \in Answers : DrainLists(n, list)
  <2>1. PICK list \in Answers : DrainLists(n, list)
    BY <1>2
  <2>2. list # {} \/ Reachable = {}
    BY <2>1 DEF Happens
  <2> QED BY <2>1, <2>2, DrainListsInv
<1>3. CASE TimesOut(n)
  <2>1. ~(run[n] # None /\ Elects(run[n].cluster))
    BY <1>3 DEF Happens
  <2> QED BY <1>3, <2>1, TimesOutInv
<1> QED BY <1>1, <1>2, <1>3, AddsInv, LaunchesInv, SyncsInv, RemovesInv, WipesInv, KillsInv
     DEF CtlStep

LEMMA StepInv ==
    ASSUME Assumed, IInv, [Next]_vars, faults = {}, faults' = {}
    PROVE  IInv'
<1>1. CASE UNCHANGED vars
  BY <1>1, StutterInv
<1>2. CASE Next
  <2>1. PICK n \in Nodes :
          \/ /\ \/ StartBegins(n) \/ CtlStep(n)
                \/ Deploys(n) \/ Drains(n) \/ Stops(n) \/ Caught(n)
             /\ UNCHANGED powerLost
             /\ faults' = faults \cup {f \in {"missed", "slow"} : Happens(n, f)}
          \/ /\ PowerFails(n) \/ (EtcdEnds(n) /\ UNCHANGED powerLost)
             /\ faults' = faults \cup {f \in {"outvoted"} : Happens(n, f)}
    BY <1>2 DEF Next
  <2>2. CASE /\ PowerFails(n) \/ (EtcdEnds(n) /\ UNCHANGED powerLost)
             /\ faults' = faults \cup {f \in {"outvoted"} : Happens(n, f)}
    <3>1. ~Happens(n, "outvoted")
      BY <2>2
    <3>2. CASE PowerFails(n)
      BY <3>1, <3>2, PowerFailsInv DEF Happens
    <3>3. CASE EtcdEnds(n) /\ UNCHANGED powerLost
      BY <3>1, <3>3, EtcdEndsInv DEF Happens
    <3> QED BY <2>2, <3>2, <3>3
  <2>3. CASE /\ \/ StartBegins(n) \/ CtlStep(n)
                \/ Deploys(n) \/ Drains(n) \/ Stops(n) \/ Caught(n)
             /\ UNCHANGED powerLost
             /\ faults' = faults \cup {f \in {"missed", "slow"} : Happens(n, f)}
    <3>1. ~Happens(n, "missed") /\ ~Happens(n, "slow")
      BY <2>3
    <3>2. CASE CtlStep(n)
      BY <2>3, <3>1, <3>2, CtlStepInv
    <3>3. CASE StartBegins(n) \/ Deploys(n) \/ Drains(n) \/ Stops(n) \/ Caught(n)
      BY <2>3, <3>3, StartBeginsInv, DeploysInv, DrainsInv, StopsInv, CaughtInv
    <3> QED BY <2>3, <3>2, <3>3
  <2> QED BY <2>1, <2>2, <2>3
<1> QED BY <1>1, <1>2

-----------------------------------------------------------------------------
(* The types, whatever goes wrong. *)

\* The script of node n goes on, or ends.
Keeps(n) ==
    \E x \in Script \cup {None} :
        script' = [script EXCEPT ![n] = x] /\ (x # None => x.drain = script[n].drain)

LEMMA GoKeeps ==
    ASSUME TypeOK, NEW n \in Nodes, script[n] # None,
           NEW pc \in {"launch", "sync", "remove", "wipe", "kill"}, Go(n, pc)
    PROVE  Keeps(n)
<1> DEFINE x == [script[n] EXCEPT !.pc = pc]
<1>1. x \in Script /\ x.drain = script[n].drain
  BY DEF TypeOK, Script
<1>2. script' = [script EXCEPT ![n] = x]
  BY DEF Go
<1> QED BY <1>1, <1>2 DEF Keeps

LEMMA ExitKeeps ==
    ASSUME NEW n \in Nodes, Exit(n) PROVE Keeps(n)
BY DEF Exit, Keeps

LEMMA DropIsTyped ==
    ASSUME EtcdTypeOK, NEW c \in Clusters, NEW n \in Nodes, Drop(c, n) PROVE EtcdTypeOK'
<1>1. members' \in [Clusters -> SUBSET Member] /\ founded' = founded
  BY DEF EtcdTypeOK, Drop
<1>2. ASSUME NEW copy \in Copy PROVE [copy EXCEPT !.valid = FALSE] \in Copy
  BY DEF Copy
<1>3. disk' \in [Nodes -> Copy \cup {None}]
  <2>1. CASE disk[n] # None /\ disk[n].cluster = c
    <3>1. disk' = [disk EXCEPT ![n] = [disk[n] EXCEPT !.valid = FALSE]]
      BY <2>1 DEF Drop
    <3>2. [disk[n] EXCEPT !.valid = FALSE] \in Copy
      BY <1>2, <2>1 DEF EtcdTypeOK
    <3> QED BY <3>1, <3>2 DEF EtcdTypeOK
  <2>2. CASE ~(disk[n] # None /\ disk[n].cluster = c)
    BY <2>2 DEF Drop, EtcdTypeOK
  <2> QED BY <2>1, <2>2
<1>4. run' \in [Nodes -> Copy \cup {None}]
  <2>1. CASE run[n] # None /\ run[n].cluster = c
    <3>1. run' = [run EXCEPT ![n] = [run[n] EXCEPT !.valid = FALSE]]
      BY <2>1 DEF Drop
    <3>2. [run[n] EXCEPT !.valid = FALSE] \in Copy
      BY <1>2, <2>1 DEF EtcdTypeOK
    <3> QED BY <3>1, <3>2 DEF EtcdTypeOK
  <2>2. CASE ~(run[n] # None /\ run[n].cluster = c)
    BY <2>2 DEF Drop, EtcdTypeOK
  <2> QED BY <2>1, <2>2
<1> QED BY <1>1, <1>3, <1>4 DEF EtcdTypeOK

LEMMA LaunchesTyped ==
    ASSUME TypeOK, NEW n \in Nodes, Launches(n)
    PROVE  EtcdTypeOK' /\ UNCHANGED <<pidfile, phase>> /\ Keeps(n)
<1> DEFINE isNew == IsNew(n)
           Serves(copy, child) ==
               /\ run' = [run EXCEPT ![n] = copy] /\ disk' = [disk EXCEPT ![n] = copy]
               /\ script' = [script EXCEPT ![n].pc = "sync", ![n].child = child]
<1>0. EtcdTypeOK /\ script[n] # None /\ script[n] \in Script /\ UNCHANGED <<pidfile, phase>>
  BY DEF TypeOK, Launches, At
<1>1. ASSUME NEW copy \in Copy, NEW child \in {"founds", "joins", "resumes"}, Serves(copy, child)
      PROVE  /\ run' \in [Nodes -> Copy \cup {None}] /\ disk' \in [Nodes -> Copy \cup {None}]
             /\ Keeps(n)
  <2> DEFINE x == [script[n] EXCEPT !.pc = "sync", !.child = child]
  <2>1. x \in Script /\ x.drain = script[n].drain
    BY <1>0 DEF Script
  <2>2. script' = [script EXCEPT ![n] = x]
    BY <1>1
  <2>3. Keeps(n)
    BY <2>1, <2>2 DEF Keeps
  <2> QED BY <1>0, <1>1, <2>3 DEF EtcdTypeOK
<1>2. CASE Resumes(n) /\ Serves(disk[n], "resumes") /\ UNCHANGED <<members, founded>>
  <2>1. disk[n] \in Copy
    BY <1>0, <1>2 DEF Resumes, EtcdTypeOK
  <2> QED BY <1>0, <1>1, <1>2, <2>1 DEF EtcdTypeOK
<1>3. ASSUME NEW c \in Clusters, Founds(n, isNew, c), Found(n, c),
             Serves([cluster |-> c, valid |-> TRUE, full |-> TRUE], "founds")
      PROVE  EtcdTypeOK' /\ Keeps(n)
  <2>1. [cluster |-> c, valid |-> TRUE, full |-> TRUE] \in Copy
    BY DEF Copy
  <2>2. members' \in [Clusters -> SUBSET Member] /\ founded' \subseteq Clusters
    BY <1>0, <1>3 DEF Found, EtcdTypeOK, Member
  <2> QED BY <1>1, <1>3, <2>1, <2>2 DEF EtcdTypeOK
<1>4. ASSUME NEW c \in Clusters,
             Serves([cluster |-> c, valid |-> TRUE, full |-> FALSE], "joins"),
             UNCHANGED <<members, founded>>
      PROVE  EtcdTypeOK' /\ Keeps(n)
  <2>1. [cluster |-> c, valid |-> TRUE, full |-> FALSE] \in Copy
    BY DEF Copy
  <2> QED BY <1>0, <1>1, <1>4, <2>1 DEF EtcdTypeOK
<1>5. CASE Go(n, "sync") /\ UNCHANGED etcdVars
  BY <1>0, <1>5, GoKeeps DEF EtcdTypeOK, etcdVars
<1> QED BY <1>0, <1>2, <1>3, <1>4, <1>5 DEF Launches

LEMMA AddsTyped ==
    ASSUME TypeOK, NEW n \in Nodes, Adds(n)
    PROVE  EtcdTypeOK' /\ UNCHANGED <<pidfile, phase>> /\ Keeps(n)
<1>0. EtcdTypeOK /\ script[n] # None /\ script[n] \in Script
      /\ UNCHANGED <<disk, run, founded, pidfile, phase>>
  BY DEF TypeOK, Adds, At
<1>1. CASE Exit(n) /\ UNCHANGED members
  BY <1>0, <1>1, ExitKeeps DEF EtcdTypeOK
<1>2. ASSUME NEW c \in Reachable, members' = Added(c, n),
             script' = [script EXCEPT ![n].pc = "launch", ![n].added = TRUE]
      PROVE  EtcdTypeOK' /\ Keeps(n)
  <2> DEFINE x == [script[n] EXCEPT !.pc = "launch", !.added = TRUE]
  <2>1. x \in Script /\ x.drain = script[n].drain
    BY <1>0 DEF Script
  <2>2. script' = [script EXCEPT ![n] = x]
    BY <1>2
  <2>3. members' \in [Clusters -> SUBSET Member]
    <3>1. c \in Clusters
      BY <1>0 DEF Reachable, EtcdTypeOK, Copy
    <3>2. members[c] \cup {[node |-> n, named |-> FALSE]} \in SUBSET Member
      <4>1. [node |-> n, named |-> FALSE] \in Member
        BY DEF Member
      <4> QED BY <1>0, <3>1, <4>1 DEF EtcdTypeOK
    <3>3. members' = [members EXCEPT ![c] = members[c] \cup {[node |-> n, named |-> FALSE]}]
      BY <1>2 DEF Added
    <3>4. members \in [Clusters -> SUBSET Member]
      BY <1>0 DEF EtcdTypeOK
    <3> QED BY ONLY <3>1, <3>2, <3>3, <3>4
  <2> QED BY <1>0, <2>1, <2>2, <2>3 DEF EtcdTypeOK, Keeps
<1> QED BY <1>0, <1>1, <1>2 DEF Adds

LEMMA RemovesTyped ==
    ASSUME TypeOK, NEW n \in Nodes, Removes(n)
    PROVE  EtcdTypeOK' /\ UNCHANGED <<pidfile, phase>> /\ Keeps(n)
<1> DEFINE mine == Hosts(MyEntries(n, script[n].prior))
<1>0. EtcdTypeOK /\ script[n] # None /\ script[n] \in Script /\ UNCHANGED <<pidfile, phase>>
  BY DEF TypeOK, Removes, At
<1>1. ASSUME NEW c \in Reachable, NEW m \in mine, Drop(c, m), Go(n, "wipe")
      PROVE  EtcdTypeOK' /\ Keeps(n)
  <2>1. c \in Clusters
    BY <1>0 DEF Reachable, EtcdTypeOK, Copy
  <2>2. m \in Nodes
    BY <1>0 DEF Hosts, MyEntries, Script, Member
  <2> QED BY <1>0, <1>1, <2>1, <2>2, DropIsTyped, GoKeeps
<1>2. CASE (Go(n, "wipe") \/ Exit(n)) /\ UNCHANGED etcdVars
  BY <1>0, <1>2, GoKeeps, ExitKeeps DEF EtcdTypeOK, etcdVars
<1> QED BY <1>0, <1>1, <1>2 DEF Removes

LEMMA ListsTyped ==
    ASSUME TypeOK, NEW n \in Nodes, NEW list \in Answers,
           StartLists(n, list) \/ DrainLists(n, list)
    PROVE  UNCHANGED <<etcdVars, pidfile, phase>> /\ Keeps(n)
<1>0. script[n] # None /\ script[n] \in Script /\ UNCHANGED <<etcdVars, pidfile, phase>>
  BY DEF TypeOK, StartLists, DrainLists, At
<1>1. list \in SUBSET Member
  BY AnswersType
<1>2. ASSUME NEW pc \in {"launch", "add", "remove"},
             script' = [script EXCEPT ![n].prior = list, ![n].pc = pc]
      PROVE  Keeps(n)
  <2> DEFINE x == [script[n] EXCEPT !.prior = list, !.pc = pc]
  <2>1. x \in Script /\ x.drain = script[n].drain
    BY <1>0, <1>1 DEF Script
  <2>2. script' = [script EXCEPT ![n] = x]
    BY <1>2
  <2> QED BY <2>1, <2>2 DEF Keeps
<1>3. CASE StartLists(n, list)
  <2> DEFINE pc == IF list = {} \/ MyEntries(n, list) # {} THEN "launch" ELSE "add"
  <2>1. script' = [script EXCEPT ![n].prior = list, ![n].pc = pc]
    BY <1>3 DEF StartLists
  <2> QED BY <1>0, <1>2, <2>1
<1>4. CASE DrainLists(n, list)
  BY <1>0, <1>2, <1>4, ExitKeeps DEF DrainLists
<1> QED BY <1>3, <1>4

LEMMA CtlStepTyped ==
    ASSUME TypeOK, NEW n \in Nodes, CtlStep(n)
    PROVE  /\ EtcdTypeOK' /\ phase' = phase /\ script[n] # None /\ Keeps(n)
           /\ pidfile' \in [Nodes -> {"none", "live", "stale"}]
<1>0. /\ EtcdTypeOK /\ pidfile \in [Nodes -> {"none", "live", "stale"}]
      /\ UNCHANGED etcdVars => EtcdTypeOK'
  BY DEF TypeOK, EtcdTypeOK, etcdVars
<1>1. script[n] # None /\ phase' = phase
  BY DEF CtlStep, StartLists, DrainLists, Adds, Launches, Syncs, TimesOut, Removes, Wipes,
         Kills, At
<1>2. CASE \E list \in Answers : StartLists(n, list) \/ DrainLists(n, list)
  BY <1>0, <1>1, <1>2, ListsTyped
<1>3. CASE Adds(n) \/ Launches(n) \/ Removes(n)
  BY <1>0, <1>1, <1>3, AddsTyped, LaunchesTyped, RemovesTyped
<1>4. CASE Syncs(n)
  <2>1. pidfile' \in [Nodes -> {"none", "live", "stale"}] /\ Exit(n) /\ UNCHANGED etcdVars
    BY <1>0, <1>4 DEF Syncs
  <2> QED BY <1>0, <1>1, <2>1, ExitKeeps
<1>5. CASE TimesOut(n)
  <2>1. Go(n, "remove") \/ Go(n, "kill")
    BY <1>5 DEF TimesOut
  <2> QED BY <1>0, <1>1, <1>5, <2>1, GoKeeps DEF TimesOut
<1>6. CASE Wipes(n)
  <2>1. (Exit(n) \/ Go(n, "kill")) /\ UNCHANGED <<members, run, founded, pidfile>>
        /\ disk' = [disk EXCEPT ![n] = None]
    BY <1>6 DEF Wipes
  <2>2. EtcdTypeOK'
    BY <1>0, <2>1 DEF EtcdTypeOK
  <2> QED BY <1>0, <1>1, <2>1, <2>2, ExitKeeps, GoKeeps
<1>7. CASE Kills(n)
  <2>1. Exit(n) /\ UNCHANGED <<members, disk, founded>>
    BY <1>7 DEF Kills
  <2>2. run' \in [Nodes -> Copy \cup {None}]
        /\ pidfile' \in [Nodes -> {"none", "live", "stale"}]
    BY <1>0, <1>7 DEF Kills, Ends, EtcdTypeOK
  <2> QED BY <1>0, <1>1, <2>1, <2>2, ExitKeeps DEF EtcdTypeOK
<1> QED BY <1>2, <1>3, <1>4, <1>5, <1>6, <1>7 DEF CtlStep

LEMMA CaughtTyped ==
    ASSUME TypeOK, NEW n \in Nodes, Caught(n) PROVE EtcdTypeOK'
<1> DEFINE copy == [run[n] EXCEPT !.full = TRUE]
           Name(m) == IF m.node = n THEN [m EXCEPT !.named = TRUE] ELSE m
<1>1. EtcdTypeOK /\ run[n] # None /\ run[n] \in Copy /\ founded' = founded
      /\ members' = [members EXCEPT ![run[n].cluster] = {Name(m) : m \in @}]
  BY DEF TypeOK, EtcdTypeOK, Caught, CatchesUp
<1>2. \A m \in Member : Name(m) \in Member
  BY DEF Member
<1>3. members' \in [Clusters -> SUBSET Member]
  <2> HIDE DEF Name
  <2> QED BY <1>1, <1>2 DEF EtcdTypeOK
<1>4. copy \in Copy
  BY <1>1 DEF Copy
<1>5. run' = [run EXCEPT ![n] = copy] /\ run' \in [Nodes -> Copy \cup {None}]
  BY <1>1, <1>4 DEF Caught, CatchesUp, EtcdTypeOK
<1>6. disk' \in [Nodes -> Copy \cup {None}]
  <2>1. CASE disk[n] = None
    BY <1>1, <2>1 DEF Caught, CatchesUp, EtcdTypeOK
  <2>2. CASE disk[n] # None
    <3>1. disk[n] \in Copy /\ [disk[n] EXCEPT !.full = TRUE] \in Copy
      BY <1>1, <2>2 DEF EtcdTypeOK, Copy
    <3>2. disk' = [disk EXCEPT ![n] = [disk[n] EXCEPT !.full = TRUE]]
      BY <2>2 DEF Caught, CatchesUp
    <3> QED BY <1>1, <3>1, <3>2 DEF EtcdTypeOK
  <2> QED BY <2>1, <2>2
<1> QED BY <1>1, <1>3, <1>5, <1>6 DEF EtcdTypeOK

LEMMA NodeStepTyped ==
    ASSUME TypeOK, NEW n \in Nodes, faults' \subseteq Fault, powerLost' \in BOOLEAN,
           \/ PowerFails(n) \/ StartBegins(n) \/ CtlStep(n) \/ Deploys(n)
           \/ Drains(n) \/ Stops(n) \/ EtcdEnds(n) \/ Caught(n)
    PROVE  TypeOK'
<1> DEFINE Files == [Nodes -> {"none", "live", "stale"}]
           Phases == [Nodes -> {"new", "run", "drain", "stopped"}]
           Drain(m) == script[m] # None => script[m].drain = (phase[m] = "drain")
<1>0. /\ EtcdTypeOK /\ pidfile \in Files /\ phase \in Phases
      /\ script \in [Nodes -> Script \cup {None}] /\ \A m \in Nodes : Drain(m)
      /\ UNCHANGED etcdVars => EtcdTypeOK'
  BY DEF TypeOK, EtcdTypeOK, etcdVars
<1>1. SUFFICES /\ EtcdTypeOK' /\ pidfile' \in Files /\ phase' \in Phases
               /\ script' \in [Nodes -> Script \cup {None}] /\ \A m \in Nodes : Drain(m)'
  BY DEF TypeOK
<1>2. CASE PowerFails(n)
  BY <1>0, <1>2 DEF PowerFails, EtcdTypeOK
<1>3. CASE StartBegins(n)
  <2>1. NewScript(FALSE) \in Script /\ NewScript(FALSE).drain = FALSE
    BY NewScriptType DEF NewScript
  <2> QED BY <1>0, <1>3, <2>1 DEF StartBegins
<1>4. CASE CtlStep(n)
  <2>1. EtcdTypeOK' /\ phase' = phase /\ script[n] # None /\ pidfile' \in Files /\ Keeps(n)
    BY <1>4, CtlStepTyped
  <2>2. PICK x \in Script \cup {None} :
           script' = [script EXCEPT ![n] = x] /\ (x # None => x.drain = script[n].drain)
    BY <2>1 DEF Keeps
  <2> QED BY <1>0, <2>1, <2>2
<1>5. CASE Deploys(n)
  BY <1>0, <1>5 DEF Deploys
<1>6. CASE Drains(n)
  <2>1. NewScript(TRUE) \in Script /\ NewScript(TRUE).drain = TRUE
    BY NewScriptType DEF NewScript
  <2> QED BY <1>0, <1>6, <2>1 DEF Drains
<1>7. CASE Stops(n)
  BY <1>0, <1>7 DEF Stops, EtcdTypeOK
<1>8. CASE EtcdEnds(n)
  <2>1. EtcdTypeOK' /\ pidfile' \in Files /\ phase' = phase
    BY <1>0, <1>8 DEF EtcdEnds, Ends, EtcdTypeOK
  <2>2. CASE script[n] = None
    BY <1>0, <1>8, <2>1, <2>2 DEF EtcdEnds
  <2>3. CASE script[n] # None
    <3> DEFINE x == [script[n] EXCEPT !.child = "none"]
    <3>1. x \in Script /\ x.drain = script[n].drain
      BY <1>0, <2>3 DEF Script
    <3>2. script' = [script EXCEPT ![n] = x]
      BY <1>8, <2>3 DEF EtcdEnds
    <3> HIDE DEF x
    <3> QED BY <1>0, <2>1, <2>3, <3>1, <3>2
  <2> QED BY <2>2, <2>3
<1>9. CASE Caught(n)
  BY <1>0, <1>9, CaughtTyped DEF Caught
<1> QED BY <1>2, <1>3, <1>4, <1>5, <1>6, <1>7, <1>8, <1>9

\* The variables keep their types, and a script is a drain exactly while its
\* machine is drained, whatever fails and whatever the constants are.
THEOREM EtcdIsTyped ==
    Spec => []TypeOK
<1>1. Init => TypeOK
  BY DEF Init, EtcdInit, TypeOK, EtcdTypeOK
<1>2. TypeOK /\ [Next]_vars => TypeOK'
  <2> SUFFICES ASSUME TypeOK, [Next]_vars PROVE TypeOK'
    OBVIOUS
  <2>1. CASE UNCHANGED vars
    BY <2>1 DEF TypeOK, EtcdTypeOK, vars, nodeVars, etcdVars, history
  <2>2. CASE Next
    <3>1. PICK n \in Nodes :
            /\ \/ PowerFails(n)
               \/ /\ \/ StartBegins(n) \/ CtlStep(n)
                     \/ Deploys(n) \/ Drains(n) \/ Stops(n)
                     \/ EtcdEnds(n) \/ Caught(n)
                  /\ UNCHANGED powerLost
            /\ \E F \in SUBSET Fault : faults' = faults \cup F
      <4>1. \A n \in Nodes : {f \in {"missed", "slow"} : Happens(n, f)} \in SUBSET Fault
        BY DEF Fault
      <4>2. \A n \in Nodes : {f \in {"outvoted"} : Happens(n, f)} \in SUBSET Fault
        BY DEF Fault
      <4> QED BY <2>2, <4>1, <4>2 DEF Next
    <3>2. powerLost' \in BOOLEAN
      BY <3>1 DEF PowerFails, TypeOK
    <3>3. faults' \subseteq Fault
      BY <3>1 DEF TypeOK
    <3>4. \/ PowerFails(n) \/ StartBegins(n) \/ CtlStep(n) \/ Deploys(n)
          \/ Drains(n) \/ Stops(n) \/ EtcdEnds(n) \/ Caught(n)
      BY <3>1
    <3> QED BY <3>2, <3>3, <3>4, NodeStepTyped
  <2> QED BY <2>1, <2>2
<1> QED BY <1>1, <1>2, PTL DEF Spec

\* Until a fault, the invariant holds of every deployment that BOSH updates one
\* machine at a time, however large (jobs/etcd: etcd_ctl, drain, etcd_bosh_utils).
THEOREM RollingInvariance ==
    ASSUME Assumed
    PROVE  Spec => [](faults = {} => IInv)
<1>1. Init => (faults = {} => IInv)
  BY InitInv
<1>2. (faults = {} => IInv) /\ [Next]_vars => (faults = {} => IInv)'
  <2>1. [Next]_vars => faults \subseteq faults'
    BY DEF Next, vars, history
  <2> QED BY <2>1, StepInv
<1> QED BY <1>1, <1>2, PTL DEF Spec

\* However etcd and the machines fail, only a fault can make a start found a
\* second cluster beside one that serves (etcd_ctl: the cluster state is "new"
\* only where no peer has a list).
THEOREM ClusterIsOne ==
    ASSUME Assumed
    PROVE  Spec => []SplitNeedsFault
<1>1. (faults = {} => IInv) => SplitNeedsFault
  BY DEF IInv, NodeOK, CopyOK, Belongs, ClusterOK, OneCluster, SplitNeedsFault
<1> QED BY <1>1, RollingInvariance, PTL

\* Only a fault can make safe_teardown delete the last copy of the data: else a
\* drain or a start that gives up wipes what a member keeps elsewhere.
THEOREM DataIsKept ==
    ASSUME Assumed
    PROVE  Spec => []LossNeedsFault
<1>1. IInv => DataSurvives
  <2> SUFFICES ASSUME IInv, NEW c \in founded
               PROVE  \E n \in Hosts(members[c]) : disk[n] # None /\ disk[n].cluster = c
                                                   /\ disk[n].valid /\ disk[n].full
    BY DEF DataSurvives
  <2>0. TypeOK /\ NoDuplicates /\ ClusterOK /\ MajorityOK /\ c \in Clusters
    BY DEF IInv, TypeOK, EtcdTypeOK
  <2>1. CASE Strong(c)
    <3>1. PICK m \in Core(c) : TRUE
      BY <2>0, <2>1, StrongServes
    <3>2. m \in Hosts(members[c]) /\ run[m] # None /\ run[m].cluster = c /\ run[m].valid
          /\ run[m].full /\ phase[m] = "run"
      BY <3>1 DEF Core, Voters
    <3>3. m \in Nodes
      BY <2>0, <3>2, HostsAreNodes
    <3>4. disk[m] = run[m]
      BY <3>2, <3>3 DEF IInv, NodeOK, CopyOK
    <3> QED BY <3>2, <3>4
  <2>2. CASE \E u \in Nodes : Calm(u) /\ Alone(u)
    <3>1. PICK u \in Nodes : Calm(u) /\ Alone(u)
      BY <2>2
    <3>2. CASE \A m \in Nodes \ {u} : phase[m] = "new"
      <4>1. disk[u] # None /\ disk[u].valid /\ disk[u].full
        BY <3>1, <3>2 DEF Alone
      <4>2. disk[u].cluster = c /\ u \in Hosts(members[c])
        BY <2>0, <4>1 DEF IInv, NodeOK, CopyOK, Belongs, ClusterOK
      <4> QED BY <4>1, <4>2
    <3>3. CASE \E m \in Nodes \ {u} : phase[m] # "new"
      <4>1. PICK m \in Nodes \ {u} : Healthy(m)
        BY <3>1, <3>3 DEF Calm
      <4> QED BY <4>1, HealthyServes
    <3> QED BY <3>2, <3>3
  <2> QED BY <2>0, <2>1, <2>2 DEF MajorityOK
<1>2. (faults = {} => IInv) => LossNeedsFault
  BY <1>1 DEF LossNeedsFault
<1> QED BY <1>2, RollingInvariance, PTL

\* Only a fault can make a start add a machine that the list already names
\* (etcd_ctl: "we don't want to have it duplicated in the list").
THEOREM MachinesAreListedOnce ==
    ASSUME Assumed
    PROVE  Spec => []DuplicateNeedsFault
<1>1. (faults = {} => IInv) => DuplicateNeedsFault
  BY DEF IInv, DuplicateNeedsFault
<1> QED BY <1>1, RollingInvariance, PTL
=============================================================================
