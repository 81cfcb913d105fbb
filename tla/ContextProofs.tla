---------------------------- MODULE ContextProofs ----------------------------
(***************************************************************************)
(* Proofs about packages of go.net that share state or a format with       *)
(* another party: the contexts (Context), the SPDY framer (SpdyFramer),    *)
(* and the sockets of ipv4 and ipv6 (IpSocket, IpOptions).                 *)
(*                                                                         *)
(* Context, for any callers, any number of contexts and any clock: the end *)
(* of a context reaches all that were derived from it, and is not taken    *)
(* back.  A goroutine in cancel holds the mutexes of a branch, from        *)
(* the context that it was called for down to the parent of the one it has *)
(* come to (Holding, Chain).  Below a context that is not cancelled every  *)
(* context that is not either is in its map (Registered); below one that   *)
(* is, while its mutex is held, it still is in the map or is the one the   *)
(* holder has come to (Pending).  The mutex goes when the map is empty.    *)
(*                                                                         *)
(* SpdyFramer, for any frames that have the fields of their Go types: what *)
(* was read is what was written, in order (KeptSoFar); and while no read   *)
(* left a payload behind, the cells that are not read yet are the codings  *)
(* of the frames that are not read yet, with the header blocks in the      *)
(* order in which the two ends code and decode them (InStep).  A cut       *)
(* RST_STREAM of status 0 ends both.                                       *)
(*                                                                         *)
(* IpSocket, for any number of goroutines: an option that is on has a flag *)
(* between two groups of a call as well (Matches), so a buffer made for    *)
(* the flags has room for every message (RoomIsRight).                     *)
(*                                                                         *)
(* IpOptions, for any interfaces and numbers: the kernel holds what was    *)
(* asked for, in the type that the option has on the system (Held).        *)
(***************************************************************************)
EXTENDS Context, SpdyFramer, IpSocket, IpOptions, SequenceTheorems, FiniteSetTheorems, TLAPS

(***************************************************************************)
(* Contexts                                                                *)
(***************************************************************************)

Calm == {"idle", "arm", "select"}
Busy == {"lock", "children", "unlink", "stop"}

Unmade ==
    \A c \in Ctxs : c > made =>
        /\ ctx[c] = Background /\ err[c] = "nil" /\ ~timer[c]
        /\ work[Timer(c)] = Idle /\ work[Watch(c)] = Idle

Tree ==
    \A c \in Ctxs :
        /\ ctx[c].canceler <= c /\ ctx[c].done <= c
        /\ c <= made => ctx[c].parent < c

Linked == \A q \in Ctxs, c \in Ctxs : c \in children[q] => c <= made /\ Up(c) = q

\* Where goroutine p may be.
Working(p) ==
    /\ At(p, "arm") => work[p].base \in 1..made /\ work[p].at = work[p].base
    /\ work[p].pc \in Busy =>
          work[p].base \in 1..made /\ work[p].at \in 1..made /\ work[p].base <= work[p].at
    /\ work[p].pc \in {"children", "unlink", "stop"} => err[work[p].at] # "nil"
    /\ At(p, "unlink") => work[p].at = work[p].base /\ Up(work[p].at) # 0
    /\ At(p, "children") => mu[work[p].at] = p
    /\ work[p].pc \in Busy /\ work[p].at # work[p].base =>
          Up(work[p].at) # 0 /\ mu[Up(work[p].at)] = p

\* What it is to p that it holds the mutex of x.
Holding(p, x) ==
    mu[x] = p =>
        /\ work[p].pc \in Busy /\ err[x] # "nil"
        /\ work[p].base <= x /\ x <= work[p].at
        /\ x = work[p].at => At(p, "children")
        /\ x # work[p].at => x <= Up(work[p].at)
        /\ x # work[p].base => Up(x) # 0 /\ mu[Up(x)] = p

Chain == \A x, y \in Ctxs : mu[x] # Nobody /\ mu[x] = mu[y] /\ x < y => x <= Up(y)

\* A timer's goroutine is at rest until the timer fires, and while it is being armed.
Arming ==
    /\ \A c \in Ctxs : timer[c] => At(Timer(c), "idle")
    /\ \A t \in Callers : At(t, "arm") =>
          ~timer[work[t].base] /\ At(Timer(work[t].base), "idle")
    /\ \A t, u \in Callers : At(t, "arm") /\ At(u, "arm") /\ work[t].base = work[u].base => t = u

Own(c) == c <= made /\ ctx[c].done = c /\ Up(c) # 0

Registered ==
    \A c \in Ctxs : Own(c) /\ err[Up(c)] = "nil" /\ err[c] = "nil" => c \in children[Up(c)]

Pending ==
    \A c \in Ctxs : Own(c) /\ err[Up(c)] # "nil" /\ err[c] = "nil" =>
        /\ mu[Up(c)] # Nobody
        /\ \/ c \in children[Up(c)]
           \/ work[mu[Up(c)]].at = c /\ At(mu[Up(c)], "lock")

IInv ==
    /\ ContextTypeOK /\ Unmade /\ Tree /\ Linked
    /\ \A p \in Procs : Working(p)
    /\ \A p \in Procs, x \in Ctxs : Holding(p, x)
    /\ Chain /\ Arming /\ Registered /\ Pending

-----------------------------------------------------------------------------
(* The goroutines are different from each other. *)
LEMMA Names ==
    /\ \A t \in Callers : t \in Procs
    /\ \A c \in Ctxs : Timer(c) \in Procs /\ Watch(c) \in Procs
    /\ \A c, d \in Ctxs : Timer(c) # Watch(d)
    /\ \A c, d \in Ctxs : c # d => Timer(c) # Timer(d) /\ Watch(c) # Watch(d)
    /\ \A t \in Callers, c \in Ctxs : t # Timer(c) /\ t # Watch(c)
    /\ Nobody \notin Procs
BY ContextAssumption DEF Procs, Timer, Watch

(* The fields of a context. *)
LEMMA Fields ==
    ASSUME ContextTypeOK, NEW c \in 0..MaxCtx
    PROVE  /\ ctx[c].kind \in {"empty", "cancel", "timer", "value", "foreign"}
           /\ ctx[c].parent \in 0..MaxCtx /\ ctx[c].canceler \in 0..MaxCtx
           /\ ctx[c].done \in 0..MaxCtx /\ ctx[c].deadline \in 0..Never
<1>1. ctx[c] \in Ctx
  BY DEF ContextTypeOK
<1> QED BY <1>1 DEF Ctx

(* A context is registered with an older one. *)
LEMMA UpIsOlder ==
    ASSUME ContextTypeOK, Tree, NEW c \in Ctxs
    PROVE  Up(c) \in 0..MaxCtx /\ (c <= made => Up(c) < c)
<1>1. ctx[c].parent \in 0..MaxCtx
  BY Fields, ContextAssumption DEF Ctxs
<1>2. Up(c) \in 0..MaxCtx
  BY <1>1, Fields DEF Up
<1>3. ASSUME c <= made PROVE Up(c) < c
  <2>1. ctx[c].parent < c
    BY <1>3 DEF Tree
  <2>2. CASE ctx[c].parent = 0
    BY <2>1, <2>2, ContextAssumption DEF Up, ContextTypeOK, Background, Ctxs
  <2>3. CASE ctx[c].parent # 0
    <3>1. ctx[c].parent \in Ctxs
      BY <1>1, <2>3, ContextAssumption DEF Ctxs
    <3>2. Up(c) <= ctx[c].parent
      BY <3>1 DEF Tree, Up
    <3> QED BY <1>1, <1>2, <2>1, <3>2, ContextAssumption DEF Ctxs
  <2> QED BY <2>2, <2>3
<1> QED BY <1>2, <1>3

LEMMA InitHolds == ContextInit => IInv
<1> SUFFICES ASSUME ContextInit PROVE IInv
  OBVIOUS
<1> USE ContextAssumption, Names DEF ContextInit
<1>1. ContextTypeOK
  BY DEF ContextTypeOK, Ctx, Ctxs, Background, Idle, Work, Never
<1>2. \A c \in Ctxs : ctx[c] = Background /\ Up(c) = 0
  BY DEF Ctxs, Up, Background
<1>3. Unmade /\ Tree /\ Linked
  BY <1>2 DEF Unmade, Tree, Linked, Background, Ctxs
<1>4. \A p \in Procs : Working(p)
  BY DEF Working, Busy, Idle, At
<1>5. (\A p \in Procs, x \in Ctxs : Holding(p, x)) /\ Chain
  BY DEF Holding, Chain
<1>6. Arming
  BY DEF Arming, At, Idle
<1>7. Registered /\ Pending
  BY <1>2 DEF Registered, Pending, Own
<1> QED BY <1>1, <1>3, <1>4, <1>5, <1>6, <1>7 DEF IInv

-----------------------------------------------------------------------------
(* What the steps have in common. *)

(* The fields of what a goroutine does. *)
LEMMA WorkFields ==
    ASSUME ContextTypeOK, NEW p \in Procs
    PROVE  /\ work[p] \in Work
           /\ work[p].pc \in {"idle", "arm", "select", "lock", "children", "unlink", "stop"}
           /\ work[p].base \in 0..MaxCtx /\ work[p].at \in 0..MaxCtx
           /\ work[p].why \in {"nil", "canceled", "exceeded"}
<1>1. work[p] \in Work
  BY DEF ContextTypeOK
<1> QED BY <1>1 DEF Work

(* A goroutine goes on in its call, there or at another context. *)
Goes(w, pc) == [w EXCEPT !.pc = pc]
GoesTo(w, pc, a) == [w EXCEPT !.pc = pc, !.at = a]

LEMMA WorkMoves ==
    ASSUME NEW w \in Work, NEW pc \in Busy, NEW a \in 0..MaxCtx
    PROVE  /\ Goes(w, pc) \in Work /\ Goes(w, pc).pc = pc /\ Goes(w, pc).base = w.base
           /\ Goes(w, pc).at = w.at /\ Goes(w, pc).why = w.why
           /\ Goes(w, pc).remove = w.remove
           /\ GoesTo(w, pc, a) \in Work /\ GoesTo(w, pc, a).pc = pc
           /\ GoesTo(w, pc, a).base = w.base /\ GoesTo(w, pc, a).at = a
           /\ GoesTo(w, pc, a).why = w.why /\ GoesTo(w, pc, a).remove = w.remove
BY DEF Work, Busy, Goes, GoesTo

(* The tree of the contexts stays, unless one is derived. *)
LEMMA SameTree ==
    ASSUME UNCHANGED <<made, ctx>>
    PROVE  \A c \in Ctxs : Up(c)' = Up(c) /\ Own(c)' = Own(c)
BY DEF Up, Own

(* A goroutine that is in a call of cancel is at a context that exists. *)
LEMMA BusyAt ==
    ASSUME IInv, NEW p \in Procs, work[p].pc \in Busy
    PROVE  /\ work[p].at \in Ctxs /\ work[p].base \in Ctxs
           /\ work[p].base <= work[p].at /\ work[p].at <= made
           /\ Up(work[p].at) \in 0..MaxCtx /\ Up(work[p].at) < work[p].at
<1>1. Working(p) /\ ContextTypeOK /\ Tree
  BY DEF IInv
<1>2. made \in 0..MaxCtx
  BY <1>1 DEF ContextTypeOK
<1>3. /\ work[p].base \in 1..made /\ work[p].at \in 1..made
      /\ work[p].base <= work[p].at
  BY <1>1 DEF Working
<1>4. work[p].at \in Ctxs /\ work[p].base \in Ctxs
  BY <1>2, <1>3, ContextAssumption DEF Ctxs
<1> QED BY <1>1, <1>2, <1>3, <1>4, UpIsOlder, ContextAssumption

(* A goroutine holds a mutex only in cancel. *)
LEMMA CalmHoldsNothing ==
    ASSUME IInv, NEW p \in Procs, work[p].pc \notin Busy
    PROVE  \A x \in Ctxs : mu[x] # p
BY DEF IInv, Holding

(* A goroutine is done with the context that it is at: it goes on to unlink it or to stop *)
(* its timer, or goes back.  It lets go of its mutex, if it has it.                       *)
LEMMA LeavesRight ==
    ASSUME IInv, NEW p \in Procs,
           work[p].pc \in Busy, err[work[p].at] # "nil",
           \/ work' = [work EXCEPT ![p] = Goes(work[p], "stop")]
           \/ /\ work' = [work EXCEPT ![p] = Goes(work[p], "unlink")]
              /\ work[p].at = work[p].base /\ Up(work[p].at) # 0
           \/ work' = [work EXCEPT ![p] = BackFrom(p)],
           UNCHANGED <<made, ctx, err, now>>,
           mu' \in [Ctxs -> Procs \cup {Nobody}],
           \A x \in Ctxs : mu'[x] = IF x = work[p].at /\ mu[x] = p THEN Nobody ELSE mu[x],
           mu[work[p].at] = p => At(p, "children") /\ children[work[p].at] = {},
           children' \in [Ctxs -> SUBSET Ctxs],
           \A q \in Ctxs : children'[q] \subseteq children[q],
           \A q \in Ctxs : \A d \in children[q] : err[d] = "nil" => d \in children'[q],
           timer' \in [Ctxs -> BOOLEAN],
           \A d \in Ctxs : timer'[d] => timer[d]
    PROVE  IInv'
<1> USE Names
<1>1. /\ ContextTypeOK /\ Unmade /\ Tree /\ Linked /\ Chain /\ Arming /\ Registered /\ Pending
      /\ \A o \in Procs : Working(o)
      /\ \A o \in Procs, x \in Ctxs : Holding(o, x)
  BY DEF IInv
<1>2. \A o \in Procs : o # p => work'[o] = work[o]
  BY <1>1 DEF ContextTypeOK
<1>3. /\ work[p].at \in Ctxs /\ work[p].base \in Ctxs
      /\ work[p].base <= work[p].at /\ work[p].at <= made
      /\ Up(work[p].at) \in 0..MaxCtx /\ Up(work[p].at) < work[p].at
  BY BusyAt
<1>4. /\ work[p] \in Work /\ DOMAIN work = Procs
      /\ work[p].why # "nil"
  BY <1>1, WorkFields DEF ContextTypeOK, Busy
<1>5. /\ work'[p] \in Work /\ (work'[p].why = "nil" <=> work'[p].pc \in {"idle", "select"})
      /\ \/ /\ work'[p].pc \in {"stop", "unlink"}
            /\ work'[p].base = work[p].base /\ work'[p].at = work[p].at
            /\ work'[p].pc = "unlink" => work[p].at = work[p].base /\ Up(work[p].at) # 0
         \/ work[p].at = work[p].base /\ work'[p] = Idle
         \/ /\ work[p].at # work[p].base /\ work'[p].pc = "children"
            /\ work'[p].base = work[p].base /\ work'[p].at = Up(work[p].at)
  <2>1. CASE work' = [work EXCEPT ![p] = Goes(work[p], "stop")]
    <3>1. work'[p] = Goes(work[p], "stop")
      BY <1>4, <2>1
    <3> QED BY <1>3, <1>4, <3>1, WorkMoves DEF Busy
  <2>2. CASE /\ work' = [work EXCEPT ![p] = Goes(work[p], "unlink")]
             /\ work[p].at = work[p].base /\ Up(work[p].at) # 0
    <3>1. work'[p] = Goes(work[p], "unlink")
      BY <1>4, <2>2
    <3> QED BY <1>3, <1>4, <2>2, <3>1, WorkMoves DEF Busy
  <2>3. CASE work' = [work EXCEPT ![p] = BackFrom(p)] /\ work[p].at = work[p].base
    <3>1. work'[p] = Idle
      BY <1>4, <2>3 DEF BackFrom
    <3>2. Idle \in Work /\ Idle.why = "nil" /\ Idle.pc = "idle"
      BY ContextAssumption DEF Idle, Work
    <3> QED BY <2>3, <3>1, <3>2
  <2>4. CASE work' = [work EXCEPT ![p] = BackFrom(p)] /\ work[p].at # work[p].base
    <3>1. work'[p] = GoesTo(work[p], "children", Up(work[p].at))
      BY <1>4, <2>4 DEF BackFrom, GoesTo
    <3> QED BY <1>3, <1>4, <2>4, <3>1, WorkMoves DEF Busy
  <2> QED BY <2>1, <2>2, <2>3, <2>4
<1>6. work'[p] \in Work /\ (work'[p].why = "nil" <=> work'[p].pc \in {"idle", "select"})
  BY <1>5
<1>7. \A c \in Ctxs : Up(c)' = Up(c) /\ Own(c)' = Own(c)
  BY SameTree
<1>8. \A x \in Ctxs : x <= made => Up(x) \in 0..MaxCtx /\ Up(x) < x
  BY <1>1, UpIsOlder
<1>9. work[p].at # work[p].base => Up(work[p].at) \in Ctxs /\ mu[Up(work[p].at)] = p
  BY <1>1, <1>3, ContextAssumption DEF Working, Ctxs
<1>10. ASSUME NEW x \in Ctxs, mu'[x] = p
       PROVE  /\ mu[x] = p /\ x # work[p].at /\ work[p].at # work[p].base
              /\ work[p].base <= x /\ x <= Up(work[p].at) /\ err[x] # "nil"
              /\ x # work[p].base => Up(x) # 0 /\ mu'[Up(x)] = p
  <2>1. mu[x] = p /\ x # work[p].at
    BY <1>10
  <2>2. Holding(p, x)
    BY <1>1
  <2>3. /\ work[p].base <= x /\ x <= work[p].at /\ err[x] # "nil" /\ x <= Up(work[p].at)
        /\ x # work[p].base => Up(x) # 0 /\ mu[Up(x)] = p
    BY <2>1, <2>2 DEF Holding
  <2>4. work[p].at # work[p].base
    BY <1>3, <2>1, <2>3, ContextAssumption DEF Ctxs
  <2>5. Up(x) \in 0..MaxCtx /\ Up(x) < x /\ Up(x) # work[p].at
    <3>1. made \in 0..MaxCtx
      BY <1>1 DEF ContextTypeOK
    <3> QED BY <1>3, <1>8, <2>3, <3>1, ContextAssumption DEF Ctxs
  <2>6. x # work[p].base => mu'[Up(x)] = p
    BY <2>3, <2>5, ContextAssumption DEF Ctxs
  <2> QED BY <2>1, <2>3, <2>4, <2>6
<1>11. ContextTypeOK'
  <2>1. work' \in [Procs -> Work]
    BY SMTT(20), <1>1, <1>2, <1>4, <1>6 DEF ContextTypeOK
  <2>2. \A o \in Procs : work'[o].why = "nil" <=> work'[o].pc \in {"idle", "select"}
    BY <1>1, <1>2, <1>6 DEF ContextTypeOK
  <2> QED BY <1>1, <2>1, <2>2 DEF ContextTypeOK
<1>12. Unmade' /\ Tree' /\ Linked'
  <2>1. \A c \in Ctxs : c > made => p # Timer(c) /\ p # Watch(c)
    BY <1>1 DEF Unmade, Idle, Busy
  <2>2. Unmade'
    BY <1>1, <1>2, <2>1 DEF Unmade
  <2>3. Tree'
    BY <1>1 DEF Tree
  <2>4. Linked'
    BY <1>1, <1>7 DEF Linked
  <2> QED BY <2>2, <2>3, <2>4
<1>13. ASSUME NEW o \in Procs PROVE Working(o)'
  <2>1. CASE o # p
    <3>1. Working(o) /\ work'[o] = work[o]
      BY <1>1, <1>2, <2>1
    <3>2. work[o].pc \in Busy => work[o].at \in Ctxs /\ Up(work[o].at) \in 0..MaxCtx
      BY BusyAt
    <3>3. \A x \in Ctxs : mu[x] = o => mu'[x] = o
      BY <2>1
    <3> QED BY <1>7, <3>1, <3>2, <3>3, ContextAssumption DEF Working, At, Busy, Ctxs
  <2>2. CASE o = p
    <3>1. CASE work'[p].pc \in {"stop", "unlink"}
      <4>1. work[p].at # work[p].base => mu'[Up(work[p].at)] = p
        BY <1>3, <1>9
      <4> QED BY <1>1, <1>3, <1>5, <1>7, <2>2, <3>1, <4>1 DEF Working, At, Busy, Idle, Ctxs
    <3>2. CASE work[p].at = work[p].base /\ work'[p] = Idle
      BY <2>2, <3>2 DEF Working, At, Busy, Idle
    <3>3. CASE work[p].at # work[p].base /\ work'[p].pc = "children"
      <4>1. /\ work'[p].base = work[p].base /\ work'[p].at = Up(work[p].at)
            /\ Up(work[p].at) \in Ctxs
        BY <1>5, <1>9, <3>3 DEF Idle
      <4>2. mu'[Up(work[p].at)] = p
        BY <1>3, <1>9, <3>3
      <4>3. /\ work[p].base <= Up(work[p].at) /\ err[Up(work[p].at)] # "nil"
            /\ Up(work[p].at) # work[p].base =>
                 Up(Up(work[p].at)) # 0 /\ mu'[Up(Up(work[p].at))] = p
        BY <1>10, <4>1, <4>2
      <4>4. work[p].base \in 1..made /\ Up(work[p].at) \in 1..made
        BY <1>1, <1>3, <4>1, ContextAssumption DEF Ctxs, ContextTypeOK
      <4> QED BY <1>7, <2>2, <3>3, <4>1, <4>2, <4>3, <4>4 DEF Working, At, Busy
    <3> QED BY <1>5, <3>1, <3>2, <3>3
  <2> QED BY <2>1, <2>2
<1>14. ASSUME NEW o \in Procs, NEW x \in Ctxs PROVE Holding(o, x)'
  <2> SUFFICES ASSUME mu'[x] = o PROVE Holding(o, x)'
    BY DEF Holding
  <2>1. CASE o # p
    <3>1. mu[x] = o /\ Holding(o, x) /\ work'[o] = work[o]
      BY <1>1, <1>2, <2>1
    <3>2. work[o].pc \in Busy /\ x <= work[o].at
      BY <3>1 DEF Holding
    <3>3. /\ work[o].at \in Ctxs /\ work[o].at <= made
      BY <3>2, BusyAt
    <3>4. x <= made /\ Up(x) \in 0..MaxCtx
      BY <1>1, <1>8, <3>2, <3>3, ContextAssumption DEF Ctxs, ContextTypeOK
    <3>5. Up(x) # 0 /\ mu[Up(x)] = o => mu'[Up(x)] = o
      BY <2>1, <3>4, ContextAssumption DEF Ctxs
    <3> QED BY <1>7, <3>1, <3>3, <3>5 DEF Holding, At
  <2>2. CASE o = p
    <3>1. /\ mu[x] = p /\ x # work[p].at /\ work[p].at # work[p].base
          /\ work[p].base <= x /\ x <= Up(work[p].at) /\ err[x] # "nil"
          /\ x # work[p].base => Up(x) # 0 /\ mu'[Up(x)] = p
      BY <1>10, <2>2
    <3>2. CASE work'[p].pc \in {"stop", "unlink"}
      <4>1. /\ work'[p].pc \in Busy /\ work'[p].base = work[p].base
            /\ work'[p].at = work[p].at
        BY <1>5, <3>2 DEF Busy, Idle
      <4>2. x <= work[p].at
        BY <1>3, <3>1, ContextAssumption DEF Ctxs
      <4> QED BY <1>3, <1>7, <2>2, <3>1, <4>1, <4>2 DEF Holding
    <3>3. CASE work'[p].pc = "children"
      <4>1. /\ work'[p].pc \in Busy /\ work'[p].base = work[p].base
            /\ work'[p].at = Up(work[p].at) /\ Up(work[p].at) \in Ctxs
            /\ mu[Up(work[p].at)] = p
        BY <1>5, <1>9, <3>1, <3>3 DEF Busy, Idle
      <4>2. x # Up(work[p].at) => x <= Up(Up(work[p].at))
        BY <1>1, <3>1, <4>1, ContextAssumption DEF Chain, Ctxs
      <4> QED BY <1>7, <2>2, <3>1, <3>3, <4>1, <4>2 DEF Holding, At
    <3> QED BY <1>5, <3>1, <3>2, <3>3
  <2> QED BY <2>1, <2>2
<1>15. Chain'
  BY <1>1, <1>7 DEF Chain
<1>16. Arming'
  <2>1. \A c \in Ctxs : At(Timer(c), "idle") => At(Timer(c), "idle")'
    BY <1>2 DEF At, Busy
  <2>2. \A t \in Callers : At(t, "arm")' => At(t, "arm") /\ work'[t] = work[t]
    BY <1>2, <1>5 DEF At, Idle
  <2>3. \A t \in Callers : At(t, "arm") => work[t].base \in Ctxs
    BY <1>1, ContextAssumption DEF Working, Ctxs, ContextTypeOK
  <2> QED BY <1>1, <2>1, <2>2, <2>3 DEF Arming
<1>17. Registered'
  BY <1>1, <1>7, <1>8, ContextAssumption DEF Registered, Own, Ctxs
<1>18. Pending'
  <2> SUFFICES ASSUME NEW d \in Ctxs, Own(d), err[Up(d)] # "nil", err[d] = "nil"
               PROVE  /\ mu'[Up(d)] # Nobody
                      /\ \/ d \in children'[Up(d)]
                         \/ work'[mu'[Up(d)]].at = d /\ work'[mu'[Up(d)]].pc = "lock"
    BY <1>7 DEF Pending, At
  <2>1. Up(d) \in Ctxs
    BY <1>8, ContextAssumption DEF Own, Ctxs
  <2>2. /\ mu[Up(d)] # Nobody
        /\ \/ d \in children[Up(d)]
           \/ work[mu[Up(d)]].at = d /\ work[mu[Up(d)]].pc = "lock"
    BY <1>1 DEF Pending, At
  <2>3. mu[Up(d)] \in Procs
    BY <1>1, <2>1, <2>2 DEF ContextTypeOK
  <2>4. CASE mu[Up(d)] = p
    <3>1. d \in children[Up(d)]
      BY <2>2, <2>4
    <3>2. Up(d) # work[p].at
      BY <2>4, <3>1
    <3> QED BY <2>1, <2>2, <3>1, <3>2
  <2>5. CASE mu[Up(d)] # p
    <3>1. mu'[Up(d)] = mu[Up(d)] /\ work'[mu[Up(d)]] = work[mu[Up(d)]]
      BY <1>2, <2>1, <2>3, <2>5
    <3> QED BY <2>1, <2>2, <3>1
  <2> QED BY <2>4, <2>5
<1> QED BY <1>11, <1>12, <1>13, <1>14, <1>15, <1>16, <1>17, <1>18 DEF IInv

-----------------------------------------------------------------------------
(* The steps of cancel. *)

LEMMA MarksHolds ==
    ASSUME IInv, NEW p \in Procs, At(p, "lock"), mu[work[p].at] = Nobody,
           ~IsCancelled(work[p].at), MarksCancelled(p, work[p].at),
           UNCHANGED <<made, ctx, children, timer, now>>
    PROVE  IInv'
<1> USE Names
<1> DEFINE c == work[p].at
<1>1. /\ ContextTypeOK /\ Unmade /\ Tree /\ Linked /\ Chain /\ Arming /\ Registered /\ Pending
      /\ \A o \in Procs : Working(o)
      /\ \A o \in Procs, x \in Ctxs : Holding(o, x)
  BY DEF IInv
<1>2. /\ c \in Ctxs /\ work[p].base \in Ctxs /\ work[p].base <= c /\ c <= made
      /\ Up(c) \in 0..MaxCtx /\ Up(c) < c
  BY BusyAt DEF At, Busy
<1>3. /\ work[p] \in Work /\ work[p].why \in {"canceled", "exceeded"} /\ work[p].pc = "lock"
  BY <1>1, WorkFields DEF ContextTypeOK, At
<1>4. /\ err[c] = "nil" /\ err' = [err EXCEPT ![c] = work[p].why]
      /\ mu[c] = Nobody /\ mu' = [mu EXCEPT ![c] = p]
      /\ work' = [work EXCEPT ![p] = Goes(work[p], "children")]
  BY DEF IsCancelled, MarksCancelled, Goes
<1>5. /\ work'[p] \in Work /\ work'[p].pc = "children" /\ work'[p].base = work[p].base
      /\ work'[p].at = c /\ work'[p].why = work[p].why
  <2>1. work'[p] = Goes(work[p], "children")
    BY <1>1, <1>4 DEF ContextTypeOK
  <2> QED BY <1>2, <1>3, <2>1, WorkMoves DEF Busy, Ctxs
<1>6. /\ \A o \in Procs : o # p => work'[o] = work[o]
      /\ \A x \in Ctxs : x # c => mu'[x] = mu[x] /\ err'[x] = err[x]
      /\ mu'[c] = p /\ err'[c] # "nil"
  BY <1>1, <1>2, <1>3, <1>4 DEF ContextTypeOK
<1>7. \A x \in Ctxs : Up(x)' = Up(x) /\ Own(x)' = Own(x)
  BY SameTree
<1>8. \A x \in Ctxs : x <= made => Up(x) \in 0..MaxCtx /\ Up(x) < x
  BY <1>1, UpIsOlder
<1>9. ASSUME NEW x \in Ctxs, mu[x] = p
      PROVE  /\ x < c /\ x <= Up(c)
             /\ work[p].base <= x /\ err[x] # "nil" /\ (x # work[p].base => Up(x) # 0 /\ mu[Up(x)] = p)
  <2>1. Holding(p, x) /\ x # c
    BY <1>1, <1>4, <1>9
  <2> QED BY <1>2, <1>9, <2>1, ContextAssumption DEF Holding, Ctxs
<1>10. ContextTypeOK'
  <2>1. work' \in [Procs -> Work]
    BY <1>1, <1>4, <1>5, <1>6 DEF ContextTypeOK
  <2>2. \A o \in Procs : work'[o].why = "nil" <=> work'[o].pc \in {"idle", "select"}
    BY <1>1, <1>3, <1>5, <1>6 DEF ContextTypeOK
  <2>3. /\ err' \in [Ctxs -> {"nil", "canceled", "exceeded"}]
        /\ mu' \in [Ctxs -> Procs \cup {Nobody}]
    BY <1>1, <1>2, <1>3, <1>4 DEF ContextTypeOK
  <2> QED BY <1>1, <2>1, <2>2, <2>3 DEF ContextTypeOK
<1>11. Unmade' /\ Tree' /\ Linked'
  <2>1. \A x \in Ctxs : x > made => p # Timer(x) /\ p # Watch(x) /\ x # c
    BY <1>1, <1>2, <1>3, ContextAssumption DEF Unmade, Idle, Ctxs, ContextTypeOK
  <2>2. Unmade'
    BY <1>1, <1>6, <2>1 DEF Unmade
  <2> QED BY <1>1, <1>7, <2>2 DEF Tree, Linked
<1>12. ASSUME NEW o \in Procs PROVE Working(o)'
  <2>1. CASE o # p
    <3>1. Working(o) /\ work'[o] = work[o]
      BY <1>1, <1>6, <2>1
    <3>2. work[o].pc \in Busy => work[o].at \in Ctxs /\ Up(work[o].at) \in 0..MaxCtx
      BY BusyAt
    <3>3. \A x \in Ctxs : mu[x] = o => mu'[x] = o
      BY <1>4, <1>6
    <3>4. \A x \in Ctxs : err[x] # "nil" => err'[x] # "nil"
      BY <1>6
    <3> QED BY <1>7, <3>1, <3>2, <3>3, <3>4, ContextAssumption DEF Working, At, Busy, Ctxs
  <2>2. CASE o = p
    <3>1. Working(p)
      BY <1>1
    <3>2. c # work[p].base => Up(c) # 0 /\ mu'[Up(c)] = p
      BY <1>2, <1>3, <1>6, <3>1, ContextAssumption DEF Working, Busy, Ctxs
    <3> QED BY <1>2, <1>3, <1>5, <1>6, <1>7, <2>2, <3>1, <3>2 DEF Working, At, Busy
  <2> QED BY <2>1, <2>2
<1>13. ASSUME NEW o \in Procs, NEW x \in Ctxs PROVE Holding(o, x)'
  <2> SUFFICES ASSUME mu'[x] = o PROVE Holding(o, x)'
    BY DEF Holding
  <2>1. CASE o # p
    <3>1. x # c
      BY <1>6, <2>1
    <3>2. mu[x] = o /\ Holding(o, x) /\ work'[o] = work[o] /\ err'[x] = err[x]
      BY <1>1, <1>6, <2>1, <3>1
    <3>3. work[o].pc \in Busy /\ x <= work[o].at
      BY <3>2 DEF Holding
    <3>4. work[o].at \in Ctxs /\ work[o].at <= made
      BY <3>3, BusyAt
    <3>5. x <= made /\ Up(x) \in 0..MaxCtx
      BY <1>1, <1>8, <3>3, <3>4, ContextAssumption DEF Ctxs, ContextTypeOK
    <3>6. Up(x) # 0 /\ mu[Up(x)] = o => mu'[Up(x)] = o
      BY <1>4, <1>6, <3>5, ContextAssumption DEF Ctxs
    <3> QED BY <1>7, <3>2, <3>4, <3>6 DEF Holding, At
  <2>2. CASE o = p /\ x = c
    <3>1. Working(p)
      BY <1>1
    <3>2. c # work[p].base => Up(c) # 0 /\ mu'[Up(c)] = p
      BY <1>2, <1>3, <1>6, <3>1, ContextAssumption DEF Working, Busy, Ctxs
    <3> QED BY <1>2, <1>5, <1>6, <1>7, <2>2, <3>2, ContextAssumption DEF Holding, At, Busy, Ctxs
  <2>3. CASE o = p /\ x # c
    <3>1. mu[x] = p
      BY <1>6, <2>3
    <3>2. /\ x < c /\ x <= Up(c) /\ work[p].base <= x /\ err[x] # "nil"
          /\ x # work[p].base => Up(x) # 0 /\ mu[Up(x)] = p
      BY <1>9, <3>1
    <3>3. Up(x) \in 0..MaxCtx
      BY <1>1, UpIsOlder
    <3>4. x # work[p].base => Up(x) # 0 /\ mu'[Up(x)] = p
      BY <1>4, <1>6, <3>2, <3>3, ContextAssumption DEF Ctxs
    <3> QED BY <1>2, <1>5, <1>6, <1>7, <2>3, <3>2, <3>4, ContextAssumption DEF Holding, At, Busy, Ctxs
  <2> QED BY <2>1, <2>2, <2>3
<1>14. Chain'
  <2> SUFFICES ASSUME NEW x \in Ctxs, NEW y \in Ctxs, mu'[x] # Nobody, mu'[x] = mu'[y], x < y
               PROVE  x <= Up(y)
    BY <1>7 DEF Chain
  <2>1. CASE x # c /\ y # c
    BY <1>1, <1>6, <2>1 DEF Chain
  <2>2. CASE y = c
    BY <1>2, <1>6, <1>9, <2>2, ContextAssumption DEF Ctxs
  <2>3. CASE x = c
    <3>1. mu[y] = p
      BY <1>2, <1>6, <2>3, ContextAssumption DEF Ctxs
    <3> QED BY <1>2, <1>9, <2>3, <3>1, ContextAssumption DEF Ctxs
  <2> QED BY <2>1, <2>2, <2>3
<1>15. Arming'
  <2>1. \A o \in Procs : work[o].pc \in {"idle", "arm"} => work'[o] = work[o]
    BY <1>3, <1>6
  <2>2. \A t \in Callers : At(t, "arm")' => At(t, "arm") /\ work'[t] = work[t]
    BY <1>5, <1>6 DEF At
  <2>3. \A t \in Callers : At(t, "arm") => work[t].base \in Ctxs
    BY <1>1, ContextAssumption DEF Working, Ctxs, ContextTypeOK
  <2> QED BY <1>1, <2>1, <2>2, <2>3 DEF Arming, At
<1>16. Registered'
  <2> SUFFICES ASSUME NEW d \in Ctxs, Own(d), err'[Up(d)] = "nil", err'[d] = "nil"
               PROVE  d \in children[Up(d)]
    BY <1>7 DEF Registered
  <2>1. Up(d) \in Ctxs
    BY <1>8, ContextAssumption DEF Own, Ctxs
  <2> QED BY <1>1, <1>6, <2>1 DEF Registered
<1>17. Pending'
  <2> SUFFICES ASSUME NEW d \in Ctxs, Own(d), err'[Up(d)] # "nil", err'[d] = "nil"
               PROVE  /\ mu'[Up(d)] # Nobody
                      /\ \/ d \in children[Up(d)]
                         \/ work'[mu'[Up(d)]].at = d /\ work'[mu'[Up(d)]].pc = "lock"
    BY <1>7 DEF Pending, At
  <2>1. Up(d) \in Ctxs /\ d # c /\ err[d] = "nil"
    BY <1>6, <1>8, ContextAssumption DEF Own, Ctxs
  <2>2. CASE Up(d) = c
    <3>1. d \in children[Up(d)]
      BY <1>1, <1>4, <2>1, <2>2 DEF Registered
    <3> QED BY <1>6, <2>2, <3>1
  <2>3. CASE Up(d) # c
    <3>1. /\ mu[Up(d)] # Nobody
          /\ \/ d \in children[Up(d)]
             \/ work[mu[Up(d)]].at = d /\ work[mu[Up(d)]].pc = "lock"
      BY <1>1, <1>6, <2>1, <2>3 DEF Pending, At
    <3>2. mu'[Up(d)] = mu[Up(d)] /\ mu[Up(d)] \in Procs
      BY <1>1, <1>6, <2>1, <2>3, <3>1 DEF ContextTypeOK
    <3>3. mu[Up(d)] = p => d \in children[Up(d)]
      BY <2>1, <3>1
    <3> QED BY <1>6, <3>1, <3>2, <3>3
  <2> QED BY <2>2, <2>3
<1> QED BY <1>10, <1>11, <1>12, <1>13, <1>14, <1>15, <1>16, <1>17 DEF IInv

LEMMA LocksHolds == ASSUME IInv, NEW p \in Procs, Locks(p) PROVE IInv'
<1> DEFINE c == work[p].at
<1>1. /\ At(p, "lock") /\ mu[c] = Nobody /\ UNCHANGED <<made, ctx, children, timer, now>>
      /\ IF IsCancelled(c) THEN Refuses(p, c) ELSE MarksCancelled(p, c)
  BY DEF Locks
<1>2. CASE ~IsCancelled(c)
  BY <1>1, <1>2, MarksHolds
<1>3. CASE IsCancelled(c)
  <2>1. /\ work' = [work EXCEPT ![p] = Proceeds(p)] /\ UNCHANGED <<err, mu>>
        /\ err[c] # "nil"
    BY <1>1, <1>3 DEF Refuses, IsCancelled
  <2>2. \/ work' = [work EXCEPT ![p] = Goes(work[p], "stop")]
        \/ work' = [work EXCEPT ![p] = BackFrom(p)]
    BY <2>1 DEF Proceeds, Goes
  <2>3. ContextTypeOK /\ mu[c] # p /\ c \in Ctxs
    BY <1>1, Names, BusyAt DEF IInv, At, Busy
  <2>4. work[p].pc \in Busy
    BY <1>1 DEF At, Busy
  <2>5. /\ mu' \in [Ctxs -> Procs \cup {Nobody}] /\ children' \in [Ctxs -> SUBSET Ctxs]
        /\ timer' \in [Ctxs -> BOOLEAN]
    BY <1>1, <2>1, <2>3 DEF ContextTypeOK
  <2> QED BY <1>1, <2>1, <2>2, <2>3, <2>4, <2>5, LeavesRight
<1> QED BY <1>2, <1>3

LEMMA UnlocksHolds == ASSUME IInv, NEW p \in Procs, Unlocks(p) PROVE IInv'
<1> DEFINE c == work[p].at
<1>1. /\ At(p, "children") /\ children[c] = {} /\ mu' = [mu EXCEPT ![c] = Nobody]
      /\ work' = [work EXCEPT ![p] = IF c = work[p].base /\ work[p].remove /\ Up(c) # 0
                                    THEN [work[p] EXCEPT !.pc = "unlink"] ELSE Proceeds(p)]
      /\ UNCHANGED <<made, ctx, err, children, timer, now>>
  BY DEF Unlocks
<1>2. \/ work' = [work EXCEPT ![p] = Goes(work[p], "stop")]
      \/ /\ work' = [work EXCEPT ![p] = Goes(work[p], "unlink")]
         /\ c = work[p].base /\ Up(c) # 0
      \/ work' = [work EXCEPT ![p] = BackFrom(p)]
  BY <1>1 DEF Proceeds, Goes
<1>3. ContextTypeOK /\ Working(p) /\ work[p].pc \in Busy
  BY <1>1 DEF IInv, At, Busy
<1>4. c \in Ctxs /\ mu[c] = p /\ err[c] # "nil"
  BY <1>1, <1>3, BusyAt DEF Working, At
<1>5. /\ mu' \in [Ctxs -> Procs \cup {Nobody}] /\ children' \in [Ctxs -> SUBSET Ctxs]
      /\ timer' \in [Ctxs -> BOOLEAN]
      /\ \A x \in Ctxs : mu'[x] = IF x = c /\ mu[x] = p THEN Nobody ELSE mu[x]
  BY <1>1, <1>3, <1>4 DEF ContextTypeOK
<1> QED BY <1>1, <1>2, <1>3, <1>4, <1>5, LeavesRight

LEMMA UnlinksHolds == ASSUME IInv, NEW p \in Procs, Unlinks(p) PROVE IInv'
<1> DEFINE c == work[p].at
<1>1. /\ At(p, "unlink") /\ mu[Up(c)] = Nobody
      /\ children' = [children EXCEPT ![Up(c)] = @ \ MapKey(c)]
      /\ work' = [work EXCEPT ![p] = Proceeds(p)]
      /\ UNCHANGED <<made, ctx, err, mu, timer, now>>
  BY DEF Unlinks
<1>2. \/ work' = [work EXCEPT ![p] = Goes(work[p], "stop")]
      \/ work' = [work EXCEPT ![p] = BackFrom(p)]
  BY <1>1 DEF Proceeds, Goes
<1>3. ContextTypeOK /\ Working(p) /\ work[p].pc \in Busy /\ \A x \in Ctxs : Holding(p, x)
  BY <1>1 DEF IInv, At, Busy
<1>4. c \in Ctxs /\ err[c] # "nil" /\ mu[c] # p /\ MapKey(c) \subseteq {c}
  BY <1>1, <1>3, BusyAt DEF Working, At, Holding, MapKey
<1>5. /\ mu' \in [Ctxs -> Procs \cup {Nobody}] /\ timer' \in [Ctxs -> BOOLEAN]
      /\ children' \in [Ctxs -> SUBSET Ctxs]
      /\ \A q \in Ctxs : children'[q] \subseteq children[q]
      /\ \A q \in Ctxs : \A d \in children[q] : err[d] = "nil" => d \in children'[q]
  BY <1>1, <1>3, <1>4 DEF ContextTypeOK
<1> QED BY <1>1, <1>2, <1>3, <1>4, <1>5, LeavesRight

LEMMA StopsTimerHolds == ASSUME IInv, NEW p \in Procs, StopsTimer(p) PROVE IInv'
<1> DEFINE c == work[p].at
<1>1. /\ At(p, "stop") /\ timer' = [timer EXCEPT ![c] = FALSE]
      /\ work' = [work EXCEPT ![p] = BackFrom(p)]
      /\ UNCHANGED <<made, ctx, err, children, mu, now>>
  BY DEF StopsTimer
<1>2. ContextTypeOK /\ Working(p) /\ work[p].pc \in Busy /\ \A x \in Ctxs : Holding(p, x)
  BY <1>1 DEF IInv, At, Busy
<1>3. c \in Ctxs /\ err[c] # "nil" /\ mu[c] # p
  BY <1>1, <1>2, BusyAt DEF Working, At, Holding
<1>4. /\ mu' \in [Ctxs -> Procs \cup {Nobody}] /\ timer' \in [Ctxs -> BOOLEAN]
      /\ children' \in [Ctxs -> SUBSET Ctxs] /\ \A d \in Ctxs : timer'[d] => timer[d]
  BY <1>1, <1>2, <1>3 DEF ContextTypeOK
<1> QED BY <1>1, <1>2, <1>3, <1>4, LeavesRight

LEMMA CancelsChildHolds == ASSUME IInv, NEW p \in Procs, CancelsChild(p) PROVE IInv'
<1> USE Names
<1> DEFINE a == work[p].at
<1>1. /\ ContextTypeOK /\ Unmade /\ Tree /\ Linked /\ Chain /\ Arming /\ Registered /\ Pending
      /\ \A o \in Procs : Working(o)
      /\ \A o \in Procs, x \in Ctxs : Holding(o, x)
  BY DEF IInv
<1>2. /\ work[p].pc = "children"
      /\ UNCHANGED <<made, ctx, err, mu, timer, now>>
  BY DEF CancelsChild, At
<1>3. PICK child \in children[a] :
        /\ children' = [children EXCEPT ![a] = @ \ {child}]
        /\ work' = [work EXCEPT ![p] = GoesTo(work[p], "lock", child)]
  BY DEF CancelsChild, GoesTo
<1>4. /\ a \in Ctxs /\ work[p].base \in Ctxs /\ work[p].base <= a /\ a <= made
      /\ err[a] # "nil" /\ mu[a] = p
  BY <1>1, <1>2, BusyAt DEF Working, At, Busy
<1>5. child \in Ctxs /\ child <= made /\ Up(child) = a /\ a < child
  <2>1. child \in Ctxs
    BY <1>1, <1>3, <1>4 DEF ContextTypeOK
  <2>2. child <= made /\ Up(child) = a
    BY <1>1, <1>3, <1>4, <2>1 DEF Linked
  <2> QED BY <1>1, <2>1, <2>2, UpIsOlder
<1>6. /\ work[p] \in Work /\ work[p].why # "nil"
  BY <1>1, <1>2, WorkFields DEF ContextTypeOK
<1>7. /\ work'[p] \in Work /\ work'[p].pc = "lock" /\ work'[p].base = work[p].base
      /\ work'[p].at = child /\ work'[p].why = work[p].why
  <2>1. work'[p] = GoesTo(work[p], "lock", child)
    BY <1>1, <1>3 DEF ContextTypeOK
  <2>2. child \in 0..MaxCtx /\ "lock" \in Busy
    BY <1>5, ContextAssumption DEF Busy, Ctxs
  <2>3. /\ GoesTo(work[p], "lock", child) \in Work
        /\ GoesTo(work[p], "lock", child).pc = "lock"
        /\ GoesTo(work[p], "lock", child).base = work[p].base
        /\ GoesTo(work[p], "lock", child).at = child
        /\ GoesTo(work[p], "lock", child).why = work[p].why
    BY <1>6, <2>2, WorkMoves
  <2> QED BY <2>1, <2>3
<1>8. /\ \A o \in Procs : o # p => work'[o] = work[o]
      /\ \A x \in Ctxs : x # a => children'[x] = children[x]
      /\ children'[a] = children[a] \ {child}
  BY <1>1, <1>3, <1>4 DEF ContextTypeOK
<1>9. \A x \in Ctxs : Up(x)' = Up(x) /\ Own(x)' = Own(x)
  BY <1>2, SameTree
<1>10. ContextTypeOK'
  <2>1. work' \in [Procs -> Work]
    BY <1>1, <1>3, <1>7, <1>8 DEF ContextTypeOK
  <2>2. \A o \in Procs : work'[o].why = "nil" <=> work'[o].pc \in {"idle", "select"}
    BY <1>1, <1>6, <1>7, <1>8 DEF ContextTypeOK
  <2>3. children' \in [Ctxs -> SUBSET Ctxs]
    BY <1>1, <1>3, <1>4 DEF ContextTypeOK
  <2> QED BY <1>1, <1>2, <2>1, <2>2, <2>3 DEF ContextTypeOK
<1>11. Unmade' /\ Tree' /\ Linked'
  <2>1. \A x \in Ctxs : x > made => p # Timer(x) /\ p # Watch(x)
    BY <1>1, <1>2 DEF Unmade, Idle
  <2>2. Unmade'
    BY <1>1, <1>2, <1>8, <2>1 DEF Unmade
  <2>3. Linked'
    BY <1>1, <1>2, <1>4, <1>8, <1>9 DEF Linked
  <2> QED BY <1>1, <1>2, <2>2, <2>3 DEF Tree
<1>12. ASSUME NEW o \in Procs PROVE Working(o)'
  <2>1. CASE o # p
    <3>1. Working(o) /\ work'[o] = work[o]
      BY <1>1, <1>8, <2>1
    <3>2. work[o].pc \in Busy => work[o].at \in Ctxs
      BY BusyAt
    <3> QED BY <1>2, <1>9, <3>1, <3>2 DEF Working, At, Busy
  <2>2. CASE o = p
    <3>1. work[p].base \in 1..made /\ child \in 1..made /\ work[p].base <= child
      BY <1>1, <1>4, <1>5, ContextAssumption DEF Ctxs, ContextTypeOK
    <3>2. Up(child) # 0 /\ mu[Up(child)] = p
      BY <1>4, <1>5, ContextAssumption DEF Ctxs
    <3> QED BY <1>2, <1>5, <1>7, <1>9, <2>2, <3>1, <3>2 DEF Working, At, Busy
  <2> QED BY <2>1, <2>2
<1>13. ASSUME NEW o \in Procs, NEW x \in Ctxs PROVE Holding(o, x)'
  <2>1. CASE o # p
    <3>1. Holding(o, x) /\ work'[o] = work[o]
      BY <1>1, <1>8, <2>1
    <3>2. work[o].pc \in Busy => work[o].at \in Ctxs
      BY BusyAt
    <3> QED BY <1>2, <1>9, <3>1, <3>2 DEF Holding, At
  <2>2. CASE o = p
    <3>1. Holding(p, x)
      BY <1>1
    <3>2. mu[x] = p => x < child /\ x <= a
      BY <1>4, <1>5, <3>1, ContextAssumption DEF Holding, Ctxs
    <3> QED BY <1>2, <1>5, <1>7, <1>9, <2>2, <3>1, <3>2, ContextAssumption
            DEF Holding, At, Busy, Ctxs
  <2> QED BY <2>1, <2>2
<1>14. Chain'
  BY <1>1, <1>2, <1>9 DEF Chain
<1>15. Arming'
  <2>1. \A o \in Procs : work[o].pc \in {"idle", "arm"} => work'[o] = work[o]
    BY <1>2, <1>8
  <2>2. \A t \in Callers : At(t, "arm")' => At(t, "arm") /\ work'[t] = work[t]
    BY <1>7, <1>8 DEF At
  <2>3. \A t \in Callers : At(t, "arm") => work[t].base \in Ctxs
    BY <1>1, ContextAssumption DEF Working, Ctxs, ContextTypeOK
  <2> QED BY <1>1, <1>2, <2>1, <2>2, <2>3 DEF Arming, At
<1>16. Registered'
  <2> SUFFICES ASSUME NEW d \in Ctxs, Own(d), err[Up(d)] = "nil", err[d] = "nil"
               PROVE  d \in children'[Up(d)]
    BY <1>2, <1>9 DEF Registered
  <2>1. Up(d) \in Ctxs
    BY <1>1, UpIsOlder, ContextAssumption DEF Own, Ctxs
  <2> QED BY <1>1, <1>4, <1>8, <2>1 DEF Registered
<1>17. Pending'
  <2> SUFFICES ASSUME NEW d \in Ctxs, Own(d), err[Up(d)] # "nil", err[d] = "nil"
               PROVE  /\ mu[Up(d)] # Nobody
                      /\ \/ d \in children'[Up(d)]
                         \/ work'[mu[Up(d)]].at = d /\ work'[mu[Up(d)]].pc = "lock"
    BY <1>2, <1>9 DEF Pending, At
  <2>1. Up(d) \in Ctxs
    BY <1>1, UpIsOlder, ContextAssumption DEF Own, Ctxs
  <2>2. /\ mu[Up(d)] # Nobody
        /\ \/ d \in children[Up(d)]
           \/ work[mu[Up(d)]].at = d /\ work[mu[Up(d)]].pc = "lock"
    BY <1>1 DEF Pending, At
  <2>3. mu[Up(d)] \in Procs
    BY <1>1, <2>1, <2>2 DEF ContextTypeOK
  <2>4. CASE Up(d) = a /\ d = child
    BY <1>4, <1>7, <2>2, <2>4
  <2>5. CASE Up(d) = a /\ d # child
    BY <1>2, <1>4, <1>8, <2>2, <2>5
  <2>6. CASE Up(d) # a
    BY <1>2, <1>8, <2>1, <2>2, <2>3, <2>6
  <2> QED BY <2>4, <2>5, <2>6
<1> QED BY <1>10, <1>11, <1>12, <1>13, <1>14, <1>15, <1>16, <1>17 DEF IInv

LEMMA CancelsHolds == ASSUME IInv, NEW p \in Procs, Cancels(p) PROVE IInv'
BY LocksHolds, UnlocksHolds, UnlinksHolds, StopsTimerHolds, CancelsChildHolds DEF Cancels

-----------------------------------------------------------------------------
(* The other steps. *)

(* A goroutine that is not in cancel begins a call of it, or comes to rest. *)
LEMMA Starts ==
    ASSUME IInv, NEW p \in Procs, work[p].pc \in Calm,
           NEW w \in Work, work' = [work EXCEPT ![p] = w],
           w.pc = "idle" \/ (w.pc = "lock" /\ w.base \in 1..made /\ w.at = w.base),
           w.why = "nil" <=> w.pc = "idle",
           \A c \in Ctxs : c > made => p # Timer(c) /\ p # Watch(c),
           UNCHANGED <<made, ctx, err, children, mu, now>>,
           timer' \in [Ctxs -> BOOLEAN],
           \A c \in Ctxs : c > made => ~timer'[c],
           Arming'
    PROVE  IInv'
<1> USE Names
<1>1. /\ ContextTypeOK /\ Unmade /\ Tree /\ Linked /\ Chain /\ Registered /\ Pending
      /\ \A o \in Procs : Working(o)
      /\ \A o \in Procs, x \in Ctxs : Holding(o, x)
  BY DEF IInv
<1>2. work'[p] = w /\ \A o \in Procs : o # p => work'[o] = work[o]
  BY <1>1 DEF ContextTypeOK
<1>3. \A x \in Ctxs : Up(x)' = Up(x) /\ Own(x)' = Own(x)
  BY SameTree
<1>4. \A x \in Ctxs : mu[x] # p
  BY CalmHoldsNothing DEF Calm, Busy
<1>5. ContextTypeOK'
  <2>1. work' \in [Procs -> Work]
    BY <1>1 DEF ContextTypeOK
  <2>2. \A o \in Procs : work'[o].why = "nil" <=> work'[o].pc \in {"idle", "select"}
    BY <1>1, <1>2 DEF ContextTypeOK
  <2> QED BY <1>1, <2>1, <2>2 DEF ContextTypeOK
<1>6. Unmade' /\ Tree' /\ Linked'
  <2>1. Unmade'
    BY <1>1, <1>2 DEF Unmade
  <2> QED BY <1>1, <1>3, <2>1 DEF Tree, Linked
<1>7. ASSUME NEW o \in Procs PROVE Working(o)'
  <2>1. CASE o # p
    <3>1. Working(o) /\ work'[o] = work[o]
      BY <1>1, <1>2, <2>1
    <3>2. work[o].pc \in Busy => work[o].at \in Ctxs
      BY BusyAt
    <3> QED BY <1>3, <3>1, <3>2 DEF Working, At, Busy
  <2>2. CASE o = p
    <3>1. made \in Nat
      BY <1>1, ContextAssumption DEF ContextTypeOK
    <3> QED BY <1>2, <2>2, <3>1 DEF Working, At, Busy
  <2> QED BY <2>1, <2>2
<1>8. ASSUME NEW o \in Procs, NEW x \in Ctxs PROVE Holding(o, x)'
  <2>1. CASE o # p
    <3>1. Holding(o, x) /\ work'[o] = work[o]
      BY <1>1, <1>2, <2>1
    <3>2. work[o].pc \in Busy => work[o].at \in Ctxs
      BY BusyAt
    <3> QED BY <1>3, <3>1, <3>2 DEF Holding, At
  <2>2. CASE o = p
    BY <1>4, <2>2 DEF Holding
  <2> QED BY <2>1, <2>2
<1>9. Chain' /\ Registered'
  BY <1>1, <1>3 DEF Chain, Registered
<1>10. Pending'
  <2> SUFFICES ASSUME NEW d \in Ctxs, Own(d), err[Up(d)] # "nil", err[d] = "nil"
               PROVE  /\ mu[Up(d)] # Nobody
                      /\ \/ d \in children[Up(d)]
                         \/ work'[mu[Up(d)]].at = d /\ work'[mu[Up(d)]].pc = "lock"
    BY <1>3 DEF Pending, At
  <2>1. Up(d) \in Ctxs
    BY <1>1, UpIsOlder, ContextAssumption DEF Own, Ctxs
  <2>2. /\ mu[Up(d)] # Nobody
        /\ \/ d \in children[Up(d)]
           \/ work[mu[Up(d)]].at = d /\ work[mu[Up(d)]].pc = "lock"
    BY <1>1 DEF Pending, At
  <2>3. mu[Up(d)] \in Procs /\ mu[Up(d)] # p
    BY <1>1, <1>4, <2>1, <2>2 DEF ContextTypeOK
  <2> QED BY <1>2, <2>2, <2>3
<1> QED BY <1>5, <1>6, <1>7, <1>8, <1>9, <1>10 DEF IInv

LEMMA IdleFields == Idle \in Work /\ Idle.pc = "idle" /\ Idle.why = "nil"
BY ContextAssumption DEF Idle, Work

LEMMA CancelHolds ==
    ASSUME IInv, NEW t \in Callers, NEW c \in Ctxs, c <= made, Cancel(t, c)
    PROVE  IInv'
<1> USE Names
<1> DEFINE w == Job("lock", c, TRUE, "canceled")
<1>1. /\ ContextTypeOK /\ Unmade /\ Arming /\ \A o \in Procs : Working(o)
  BY DEF IInv
<1>2. /\ work[t].pc = "idle" /\ work' = [work EXCEPT ![t] = w]
      /\ UNCHANGED <<made, ctx, err, children, mu, timer, now>>
  BY DEF Cancel, At
<1>3. w \in Work /\ w.pc = "lock" /\ w.base = c /\ w.at = c /\ w.why = "canceled"
  BY ContextAssumption DEF Job, Work, Ctxs
<1>4. c \in 1..made
  BY <1>1, ContextAssumption DEF ContextTypeOK, Ctxs
<1>5. /\ timer' \in [Ctxs -> BOOLEAN] /\ \A d \in Ctxs : d > made => ~timer'[d]
  BY <1>1, <1>2 DEF ContextTypeOK, Unmade
<1>6. Arming'
  <2>1. work'[t] = w /\ \A o \in Procs : o # t => work'[o] = work[o]
    BY <1>1, <1>2 DEF ContextTypeOK
  <2>2. \A u \in Callers : At(u, "arm") => work[u].base \in Ctxs
    BY <1>1, ContextAssumption DEF Working, Ctxs, ContextTypeOK
  <2>3. \A u \in Callers : At(u, "arm")' => At(u, "arm") /\ work'[u] = work[u]
    BY <1>3, <2>1 DEF At
  <2>4. \A d \in Ctxs : work'[Timer(d)] = work[Timer(d)]
    BY <2>1
  <2>5. \A d \in Ctxs : timer'[d] => At(Timer(d), "idle")'
    BY <1>1, <1>2, <2>4 DEF Arming, At
  <2>6. \A u \in Callers : At(u, "arm")' =>
           ~timer'[work'[u].base] /\ work'[Timer(work'[u].base)].pc = "idle"
    <3> SUFFICES ASSUME NEW u \in Callers, At(u, "arm"), work'[u] = work[u]
                 PROVE  ~timer[work[u].base] /\ work'[Timer(work[u].base)].pc = "idle"
      BY <1>2, <2>3
    <3>1. ~timer[work[u].base] /\ work[Timer(work[u].base)].pc = "idle"
      BY <1>1 DEF Arming, At
    <3> QED BY <2>2, <2>4, <3>1
  <2>7. \A u, v \in Callers :
           At(u, "arm")' /\ At(v, "arm")' /\ work'[u].base = work'[v].base => u = v
    BY <1>1, <2>3 DEF Arming
  <2> QED BY <2>5, <2>6, <2>7 DEF Arming, At
<1>7. work[t].pc \in Calm
  BY <1>2 DEF Calm
<1> HIDE DEF w
<1> QED BY <1>2, <1>3, <1>4, <1>5, <1>6, <1>7, Starts

LEMMA ArmHolds == ASSUME IInv, NEW t \in Callers, Arm(t) PROVE IInv'
<1> USE Names
<1> DEFINE c == work[t].base
<1>1. /\ ContextTypeOK /\ Unmade /\ Arming /\ \A o \in Procs : Working(o)
  BY DEF IInv
<1>2. /\ work[t].pc = "arm" /\ UNCHANGED <<made, ctx, err, children, mu, now>>
      /\ \/ work' = [work EXCEPT ![t] = Goes(work[t], "lock")] /\ timer' = timer
         \/ /\ work' = [work EXCEPT ![t] = Idle]
            /\ timer' = [timer EXCEPT ![c] = Arms(c)]
  BY DEF Arm, At, Goes
<1>3. /\ c \in 1..made /\ c \in Ctxs /\ work[t].at = c /\ work[t] \in Work /\ work[t].why # "nil"
  <2>1. c \in 1..made /\ work[t].at = c
    BY <1>1, <1>2 DEF Working, At
  <2>2. work[t] \in Work /\ work[t].why # "nil"
    BY <1>1, <1>2 DEF ContextTypeOK
  <2> QED BY <1>1, <2>1, <2>2, ContextAssumption DEF Ctxs, ContextTypeOK
<1>4. PICK w \in Work :
        /\ work' = [work EXCEPT ![t] = w]
        /\ w.pc = "idle" \/ (w.pc = "lock" /\ w.base = c /\ w.at = c)
        /\ w.why = "nil" <=> w.pc = "idle"
        /\ timer' = timer \/ timer' = [timer EXCEPT ![c] = Arms(c)]
  <2>1. CASE work' = [work EXCEPT ![t] = Goes(work[t], "lock")] /\ timer' = timer
    <3>1. "lock" \in Busy /\ 0 \in 0..MaxCtx
      BY ContextAssumption DEF Busy
    <3>2. /\ Goes(work[t], "lock") \in Work /\ Goes(work[t], "lock").pc = "lock"
          /\ Goes(work[t], "lock").base = c /\ Goes(work[t], "lock").at = c
          /\ Goes(work[t], "lock").why # "nil"
      BY <1>3, <3>1, WorkMoves
    <3> QED BY <2>1, <3>2
  <2>2. CASE work' = [work EXCEPT ![t] = Idle] /\ timer' = [timer EXCEPT ![c] = Arms(c)]
    BY <2>2, IdleFields
  <2> QED BY <1>2, <2>1, <2>2
<1>5. timer' \in [Ctxs -> BOOLEAN]
  BY <1>1, <1>4 DEF ContextTypeOK, Arms
<1>6. \A d \in Ctxs : d # c => timer'[d] = timer[d]
  BY <1>1, <1>4 DEF ContextTypeOK
<1>7. \A d \in Ctxs : d > made => ~timer'[d]
  BY <1>1, <1>3, <1>6, ContextAssumption DEF Unmade, Ctxs, ContextTypeOK
<1>8. Arming'
  <2>1. work'[t] = w /\ \A o \in Procs : o # t => work'[o] = work[o]
    BY <1>1, <1>4 DEF ContextTypeOK
  <2>2. \A u \in Callers : At(u, "arm") => work[u].base \in Ctxs
    BY <1>1, ContextAssumption DEF Working, Ctxs, ContextTypeOK
  <2>3. \A u \in Callers : At(u, "arm")' => At(u, "arm") /\ work'[u] = work[u] /\ u # t
    BY <1>4, <2>1 DEF At
  <2>4. \A d \in Ctxs : work'[Timer(d)] = work[Timer(d)]
    BY <2>1
  <2>5. At(Timer(c), "idle")
    BY <1>1, <1>2 DEF Arming, At
  <2>6. \A u \in Callers : At(u, "arm")' => work[u].base # c
    BY <1>1, <1>2, <2>3 DEF Arming, At
  <2> QED BY <1>1, <1>6, <2>2, <2>3, <2>4, <2>5, <2>6 DEF Arming, At
<1>9. work[t].pc \in Calm
  BY <1>2 DEF Calm
<1> QED BY <1>2, <1>3, <1>4, <1>5, <1>7, <1>8, <1>9, Starts

LEMMA TimerFiresHolds == ASSUME IInv, NEW c \in Ctxs, TimerFires(c) PROVE IInv'
<1> USE Names
<1> DEFINE w == Job("lock", c, TRUE, "exceeded")
           p == Timer(c)
<1>1. /\ ContextTypeOK /\ Unmade /\ Arming /\ \A o \in Procs : Working(o)
  BY DEF IInv
<1>2. /\ timer[c] /\ timer' = [timer EXCEPT ![c] = FALSE]
      /\ work' = [work EXCEPT ![p] = w]
      /\ UNCHANGED <<made, ctx, err, children, mu, now>>
  BY DEF TimerFires, Fires
<1>3. w \in Work /\ w.pc = "lock" /\ w.base = c /\ w.at = c /\ w.why = "exceeded"
  BY ContextAssumption DEF Job, Work, Ctxs
<1>4. c \in 1..made /\ c <= made
  BY <1>1, <1>2, ContextAssumption DEF ContextTypeOK, Ctxs, Unmade
<1>5. /\ timer' \in [Ctxs -> BOOLEAN] /\ ~timer'[c]
      /\ \A d \in Ctxs : d # c => timer'[d] = timer[d]
  BY <1>1, <1>2 DEF ContextTypeOK
<1>6. \A d \in Ctxs : d > made => ~timer'[d] /\ p # Timer(d) /\ p # Watch(d)
  BY <1>1, <1>4, <1>5, ContextAssumption DEF Unmade, ContextTypeOK, Ctxs
<1>7. work[p].pc = "idle"
  BY <1>1, <1>2 DEF Arming, At
<1>8. Arming'
  <2>1. work'[p] = w /\ \A o \in Procs : o # p => work'[o] = work[o]
    BY <1>1, <1>2 DEF ContextTypeOK
  <2>2. \A u \in Callers : At(u, "arm") => work[u].base \in Ctxs /\ work[u].base # c
    BY <1>1, <1>2, ContextAssumption DEF Working, Ctxs, ContextTypeOK, Arming
  <2>3. \A u \in Callers : work'[u] = work[u]
    BY <2>1
  <2>4. \A d \in Ctxs : d # c => work'[Timer(d)] = work[Timer(d)]
    BY <2>1
  <2> QED BY <1>1, <1>5, <2>2, <2>3, <2>4 DEF Arming, At
<1>9. work[p].pc \in Calm /\ p \in Procs
  BY <1>7 DEF Calm
<1> HIDE DEF w, p
<1> QED BY <1>2, <1>3, <1>4, <1>5, <1>6, <1>8, <1>9, Starts

LEMMA WatcherWakesHolds == ASSUME IInv, NEW c \in Ctxs, WatcherWakes(c) PROVE IInv'
<1> USE Names
<1> DEFINE p == Watch(c)
           d == ParentDone(c)
<1>1. /\ ContextTypeOK /\ Unmade /\ Arming /\ \A o \in Procs : Working(o)
  BY DEF IInv
<1>2. /\ work[p].pc = "select"
      /\ UNCHANGED <<made, ctx, err, children, mu, timer, now>>
      /\ \/ /\ d # 0 /\ err[d] # "nil"
            /\ work' = [work EXCEPT ![p] = Job("lock", c, FALSE, err[d])]
         \/ work' = [work EXCEPT ![p] = Idle]
  BY DEF WatcherWakes, HearsParent, At
<1>3. c \in 1..made /\ c <= made
  BY <1>1, <1>2, ContextAssumption DEF ContextTypeOK, Ctxs, Unmade, Idle
<1>4. d \in 0..MaxCtx
  <2>1. c \in 0..MaxCtx
    BY ContextAssumption DEF Ctxs
  <2>2. ctx[c].parent \in 0..MaxCtx
    BY <1>1, <2>1, Fields
  <2> QED BY <1>1, <2>2, Fields DEF ParentDone
<1>5. PICK w \in Work :
        /\ work' = [work EXCEPT ![p] = w]
        /\ w.pc = "idle" \/ (w.pc = "lock" /\ w.base = c /\ w.at = c)
        /\ w.why = "nil" <=> w.pc = "idle"
  <2>1. CASE d # 0 /\ err[d] # "nil" /\ work' = [work EXCEPT ![p] = Job("lock", c, FALSE, err[d])]
    <3>1. err[d] \in {"canceled", "exceeded"}
      BY <1>1, <1>4, <2>1, ContextAssumption DEF ContextTypeOK, Ctxs
    <3>2. /\ Job("lock", c, FALSE, err[d]) \in Work /\ Job("lock", c, FALSE, err[d]).pc = "lock"
          /\ Job("lock", c, FALSE, err[d]).base = c /\ Job("lock", c, FALSE, err[d]).at = c
          /\ Job("lock", c, FALSE, err[d]).why = err[d]
      BY <3>1, ContextAssumption DEF Job, Work, Ctxs
    <3> QED BY <2>1, <3>1, <3>2
  <2>2. CASE work' = [work EXCEPT ![p] = Idle]
    BY <2>2, IdleFields
  <2> QED BY <1>2, <2>1, <2>2
<1>6. /\ timer' \in [Ctxs -> BOOLEAN]
      /\ \A x \in Ctxs : x > made => ~timer'[x] /\ p # Timer(x) /\ p # Watch(x)
  BY <1>1, <1>2, <1>3, ContextAssumption DEF ContextTypeOK, Unmade, Ctxs
<1>7. Arming'
  <2>1. \A o \in Procs : o # p => work'[o] = work[o]
    BY <1>1, <1>5 DEF ContextTypeOK
  <2>2. \A u \in Callers : At(u, "arm") => work[u].base \in Ctxs
    BY <1>1, ContextAssumption DEF Working, Ctxs, ContextTypeOK
  <2>3. (\A u \in Callers : work'[u] = work[u]) /\ \A x \in Ctxs : work'[Timer(x)] = work[Timer(x)]
    BY <2>1
  <2> QED BY <1>1, <1>2, <2>2, <2>3 DEF Arming, At
<1>8. work[p].pc \in Calm /\ p \in Procs
  BY <1>2 DEF Calm
<1> HIDE DEF p
<1> QED BY <1>2, <1>3, <1>5, <1>6, <1>7, <1>8, Starts

(* The clock, and steps that change nothing. *)
LEMMA ClockHolds ==
    ASSUME IInv, UNCHANGED <<made, ctx, err, children, mu, timer, work>>, now' \in 0..Horizon
    PROVE  IInv'
<1>1. \A x \in Ctxs : Up(x)' = Up(x) /\ Own(x)' = Own(x)
  BY SameTree
<1>2. ContextTypeOK' /\ Unmade' /\ Tree' /\ Linked' /\ Chain'
  BY <1>1 DEF IInv, ContextTypeOK, Unmade, Tree, Linked, Chain
<1>3. Arming' /\ Registered' /\ Pending'
  BY <1>1 DEF IInv, Arming, Registered, Pending, At
<1>4. (\A p \in Procs : Working(p)') /\ \A p \in Procs, x \in Ctxs : Holding(p, x)'
  <2>1. \A x : Up(x)' = Up(x)
    BY DEF Up
  <2> QED BY <1>1, <2>1 DEF IInv, Working, Holding, At
<1> QED BY <1>2, <1>3, <1>4 DEF IInv

(* Goroutine t has made context r, number c: only a context that has a Done channel of its *)
(* own may have to be registered.                                                         *)
Grown(t, parent, r, c) ==
    /\ c = made + 1 /\ made < MaxCtx /\ parent \in 0..made
    /\ r \in Ctx /\ r.parent = parent /\ r.canceler <= c /\ r.done <= c
    /\ made' = c /\ ctx' = [ctx EXCEPT ![c] = r] /\ UNCHANGED <<mu, timer, now>>
    /\ err' \in [Ctxs -> {"nil", "canceled", "exceeded"}]
    /\ children' \in [Ctxs -> SUBSET Ctxs]
    /\ \A d \in Ctxs : d # c => err'[d] = err[d]
    /\ \A x \in Ctxs : children[x] \subseteq children'[x]
    /\ \A x, d \in Ctxs : d \in children'[x] =>
          d \in children[x] \/ (d = c /\ x = ctx[parent].canceler)
    /\ r.done = c /\ ctx[parent].canceler # 0 =>
          IF err[ctx[parent].canceler] = "nil" THEN c \in children'[ctx[parent].canceler]
                                               ELSE err'[c] # "nil"
    /\ work' \in [Procs -> Work]
    /\ \A p \in Procs : work'[p].why = "nil" <=> work'[p].pc \in {"idle", "select"}
    /\ \A p \in Procs : p # t /\ p # Watch(c) => work'[p] = work[p]
    /\ \/ work'[t].pc = "idle"
       \/ work'[t].pc = "arm" /\ work'[t].base = c /\ work'[t].at = c
    /\ work'[Watch(c)].pc \in {"idle", "select"}

LEMMA Grows ==
    ASSUME IInv, NEW t \in Callers, At(t, "idle"), NEW parent, NEW r, NEW c,
           Grown(t, parent, r, c)
    PROVE  IInv'
<1> USE Names DEF Grown
<1> DEFINE q == ctx[parent].canceler
<1>1. /\ ContextTypeOK /\ Unmade /\ Tree /\ Linked /\ Chain /\ Arming /\ Registered /\ Pending
      /\ \A o \in Procs : Working(o)
      /\ \A o \in Procs, x \in Ctxs : Holding(o, x)
  BY DEF IInv
<1>2. made \in 0..MaxCtx /\ made \in Nat /\ c \in Ctxs /\ c \in Nat /\ c # 0 /\ parent \in 0..MaxCtx
  BY <1>1, ContextAssumption DEF ContextTypeOK, Ctxs
<1>3. /\ ctx' \in [0..MaxCtx -> Ctx] /\ ctx'[c] = r
      /\ \A d \in 0..MaxCtx : d # c => ctx'[d] = ctx[d]
  BY <1>1, <1>2, ContextAssumption DEF ContextTypeOK, Ctxs
<1>4. ctx'[parent] = ctx[parent] /\ Up(c)' = q
  <2>1. parent # c /\ c \in 0..MaxCtx
    BY <1>2, ContextAssumption DEF Ctxs
  <2> QED BY <1>2, <1>3, <2>1 DEF Up
<1>5. q \in 0..parent
  <2>1. q \in 0..MaxCtx
    BY <1>1, <1>2, Fields
  <2>2. CASE parent = 0
    BY <1>1, <2>2 DEF ContextTypeOK, Background
  <2>3. CASE parent # 0
    <3>1. parent \in Ctxs
      BY <1>2, <2>3, ContextAssumption DEF Ctxs
    <3> QED BY <1>1, <2>1, <3>1 DEF Tree
  <2> QED BY <2>2, <2>3
<1>6. ASSUME NEW d \in Ctxs, d # c
      PROVE  Up(d)' = Up(d) /\ (Own(d)' <=> Own(d)) /\ ctx'[d] = ctx[d]
  <2>1. d \in 0..MaxCtx /\ ctx'[d] = ctx[d]
    BY <1>3, <1>6, ContextAssumption DEF Ctxs
  <2>2. ctx[d].parent \in 0..MaxCtx /\ ctx[d].parent # c
    <3>1. CASE d <= made
      BY <1>1, <1>2, <2>1, <3>1, Fields, ContextAssumption DEF Tree, Ctxs
    <3>2. CASE d > made
      BY <1>1, <1>2, <3>2, ContextAssumption DEF Unmade, Background
    <3> QED BY <1>2, <3>1, <3>2, ContextAssumption DEF Ctxs
  <2>3. Up(d)' = Up(d)
    BY <1>3, <2>1, <2>2 DEF Up
  <2>4. d <= made + 1 <=> d <= made
    BY <1>2, <1>6, ContextAssumption DEF Ctxs
  <2> QED BY <2>1, <2>3, <2>4 DEF Own
<1>7. ASSUME NEW o \in Procs, work[o].pc \in Busy
      PROVE  /\ work'[o] = work[o] /\ work[o].at \in Ctxs /\ work[o].at <= made /\ work[o].at # c
  <2>1. o # t /\ o # Watch(c)
    BY <1>1, <1>2, <1>7 DEF Unmade, Idle, Busy, At
  <2> QED BY <1>2, <1>7, <2>1, BusyAt, ContextAssumption DEF Ctxs
<1>8. ASSUME NEW x \in Ctxs, mu[x] # Nobody
      PROVE  /\ mu[x] \in Procs /\ work[mu[x]].pc \in Busy /\ x <= made /\ x # c
  <2>1. mu[x] \in Procs
    BY <1>1, <1>8 DEF ContextTypeOK
  <2>2. work[mu[x]].pc \in Busy /\ x <= work[mu[x]].at
    BY <1>1, <2>1 DEF Holding
  <2> QED BY <1>2, <1>7, <2>1, <2>2, ContextAssumption DEF Ctxs
<1>9. ContextTypeOK'
  <2>1. ctx'[0] = Background
    BY <1>1, <1>2, <1>3, ContextAssumption DEF ContextTypeOK
  <2> QED BY <1>1, <1>2, <1>3, <2>1, ContextAssumption DEF ContextTypeOK, Ctxs
<1>10. Unmade'
  <2> SUFFICES ASSUME NEW d \in Ctxs, d > c
               PROVE  /\ ctx'[d] = Background /\ err'[d] = "nil" /\ ~timer[d]
                      /\ work'[Timer(d)] = Idle /\ work'[Watch(d)] = Idle
    BY DEF Unmade
  <2>1. d # c /\ d > made
    BY <1>2, ContextAssumption DEF Ctxs
  <2> QED BY <1>1, <1>2, <1>6, <2>1 DEF Unmade
<1>11. Tree'
  <2>1. ctx'[c].canceler <= c /\ ctx'[c].done <= c /\ ctx'[c].parent < c
    BY <1>2, <1>3
  <2>2. ASSUME NEW d \in Ctxs, d # c
        PROVE  ctx'[d].canceler <= d /\ ctx'[d].done <= d /\ (d <= c => ctx'[d].parent < d)
    BY <1>1, <1>2, <1>6, <2>2, ContextAssumption DEF Tree, Ctxs
  <2> QED BY <2>1, <2>2 DEF Tree
<1>12. Linked'
  <2> SUFFICES ASSUME NEW x \in Ctxs, NEW d \in Ctxs, d \in children'[x]
               PROVE  d <= c /\ Up(d)' = x
    BY DEF Linked
  <2>1. CASE d \in children[x]
    BY <1>1, <1>2, <1>6, <2>1, ContextAssumption DEF Linked, Ctxs
  <2>2. CASE d = c /\ x = q
    BY <1>2, <1>4, <2>2
  <2> QED BY <2>1, <2>2
<1>13. ASSUME NEW o \in Procs PROVE Working(o)'
  <2>1. CASE work[o].pc \in Busy
    <3>1. work'[o] = work[o] /\ work[o].at \in Ctxs /\ work[o].at # c
      BY <1>7, <2>1
    <3>2. Up(work[o].at)' = Up(work[o].at) /\ err'[work[o].at] = err[work[o].at]
      BY <1>6, <3>1
    <3>3. 1..made \subseteq 1..c
      BY <1>2
    <3> QED BY <1>1, <2>1, <3>1, <3>2, <3>3 DEF Working, At, Busy
  <2>2. CASE work[o].pc \notin Busy
    <3>1. work'[o].pc \notin Busy
      BY <1>2, <2>2 DEF Busy
    <3>2. work'[o].pc = "arm" => work'[o].base \in 1..c /\ work'[o].at = work'[o].base
      <4>1. CASE o = t
        BY <1>2, <4>1
      <4>2. CASE o = Watch(c)
        BY <4>2
      <4>3. CASE o # t /\ o # Watch(c)
        BY <1>1, <1>2, <4>3 DEF Working, At
      <4> QED BY <4>1, <4>2, <4>3
    <3> QED BY <3>1, <3>2 DEF Working, At, Busy
  <2> QED BY <2>1, <2>2
<1>14. ASSUME NEW o \in Procs, NEW x \in Ctxs PROVE Holding(o, x)'
  <2> SUFFICES ASSUME mu[x] = o PROVE Holding(o, x)'
    BY DEF Holding
  <2>1. work[o].pc \in Busy /\ x # c
    BY <1>8
  <2>2. work'[o] = work[o] /\ work[o].at \in Ctxs /\ work[o].at # c
    BY <1>7, <2>1
  <2>3. err'[x] = err[x] /\ Up(x)' = Up(x) /\ Up(work[o].at)' = Up(work[o].at)
    BY <1>6, <2>1, <2>2
  <2> QED BY <1>1, <2>2, <2>3 DEF Holding, At
<1>15. Chain'
  BY <1>1, <1>6, <1>8 DEF Chain
<1>16. Arming'
  <2>1. \A d \in Ctxs : work'[Timer(d)] = work[Timer(d)]
    BY <1>2
  <2>2. ~timer[c] /\ work[Timer(c)].pc = "idle"
    BY <1>1, <1>2 DEF Unmade, Idle
  <2>3. ASSUME NEW u \in Callers, work'[u].pc = "arm"
        PROVE  \/ u = t /\ work'[u].base = c
               \/ /\ u # t /\ work[u].pc = "arm" /\ work'[u].base = work[u].base
                  /\ work[u].base # c /\ work[u].base \in Ctxs
    <3>1. CASE u = t
      BY <2>3, <3>1
    <3>2. CASE u # t
      <4>1. work'[u] = work[u]
        BY <1>2, <3>2
      <4>2. work[u].base \in 1..made
        BY <1>1, <2>3, <4>1 DEF Working, At
      <4> QED BY <1>2, <2>3, <3>2, <4>1, <4>2, ContextAssumption DEF Ctxs
    <3> QED BY <3>1, <3>2
  <2>4. ASSUME NEW d \in Ctxs, timer[d] PROVE work'[Timer(d)].pc = "idle"
    <3>1. work[Timer(d)].pc = "idle"
      BY <1>1, <2>4 DEF Arming, At
    <3> QED BY <2>1, <3>1
  <2>5. ASSUME NEW u \in Callers, work'[u].pc = "arm"
        PROVE  ~timer[work'[u].base] /\ work'[Timer(work'[u].base)].pc = "idle"
    <3>1. CASE work'[u].base = c
      BY <1>2, <2>1, <2>2, <3>1
    <3>2. CASE work'[u].base # c
      <4>1. work[u].pc = "arm" /\ work'[u].base = work[u].base /\ work[u].base \in Ctxs
        BY <2>3, <2>5, <3>2
      <4> QED BY <1>1, <2>1, <4>1 DEF Arming, At
    <3> QED BY <3>1, <3>2
  <2>6. ASSUME NEW u \in Callers, NEW v \in Callers, work'[u].pc = "arm", work'[v].pc = "arm",
               work'[u].base = work'[v].base
        PROVE  u = v
    BY <1>1, <2>3, <2>6 DEF Arming, At
  <2> QED BY <2>4, <2>5, <2>6 DEF Arming, At
<1>17. Registered'
  <2> SUFFICES ASSUME NEW d \in Ctxs, Own(d)', err'[Up(d)'] = "nil", err'[d] = "nil"
               PROVE  d \in children'[Up(d)']
    BY DEF Registered
  <2>1. CASE d = c
    <3>1. q \in Ctxs /\ q # c /\ q # 0 /\ Up(d)' = q /\ r.done = c
      BY <1>2, <1>3, <1>4, <1>5, <2>1, ContextAssumption DEF Own, Ctxs
    <3>2. err'[q] = err[q] /\ err[q] = "nil"
      BY <2>1, <3>1
    <3>3. c \in children'[q]
      BY <2>1, <3>1, <3>2
    <3> QED BY <2>1, <3>1, <3>3
  <2>2. CASE d # c
    <3>1. Own(d) /\ Up(d)' = Up(d)
      BY <1>6, <2>2
    <3>2. Up(d) \in Ctxs /\ Up(d) # c
      BY <1>1, <1>2, <3>1, UpIsOlder, ContextAssumption DEF Own, Ctxs
    <3>3. d \in children[Up(d)]
      BY <1>1, <2>2, <3>1, <3>2 DEF Registered
    <3> QED BY <3>1, <3>2, <3>3
  <2> QED BY <2>1, <2>2
<1>18. Pending'
  <2> SUFFICES ASSUME NEW d \in Ctxs, Own(d)', err'[Up(d)'] # "nil", err'[d] = "nil"
               PROVE  /\ mu[Up(d)'] # Nobody
                      /\ \/ d \in children'[Up(d)']
                         \/ work'[mu[Up(d)']].at = d /\ work'[mu[Up(d)']].pc = "lock"
    BY DEF Pending, At
  <2>1. CASE d = c
    <3>1. q \in Ctxs /\ q # c /\ q # 0 /\ Up(d)' = q /\ r.done = c
      BY <1>2, <1>3, <1>4, <1>5, <2>1, ContextAssumption DEF Own, Ctxs
    <3>2. err'[q] = err[q] /\ err[q] # "nil" /\ err'[c] = "nil"
      BY <2>1, <3>1
    <3>3. FALSE
      BY <2>1, <3>1, <3>2
    <3> QED BY <2>1, <3>1, <3>3
  <2>2. CASE d # c
    <3>1. Own(d) /\ Up(d)' = Up(d)
      BY <1>6, <2>2
    <3>2. Up(d) \in Ctxs /\ Up(d) # c
      BY <1>1, <1>2, <3>1, UpIsOlder, ContextAssumption DEF Own, Ctxs
    <3>3. /\ mu[Up(d)] # Nobody
          /\ \/ d \in children[Up(d)]
             \/ work[mu[Up(d)]].at = d /\ work[mu[Up(d)]].pc = "lock"
      BY <1>1, <2>2, <3>1, <3>2 DEF Pending, At
    <3>4. work'[mu[Up(d)]] = work[mu[Up(d)]]
      BY <1>7, <1>8, <3>2, <3>3
    <3> QED BY <3>1, <3>2, <3>3, <3>4
  <2> QED BY <2>1, <2>2
<1> QED BY <1>9, <1>10, <1>11, <1>12, <1>13, <1>14, <1>15, <1>16, <1>17, <1>18 DEF IInv

LEMMA DerivesGrows ==
    ASSUME IInv, NEW t \in Callers, At(t, "idle"), made < MaxCtx, NEW parent \in 0..made,
           NEW kind \in {"cancel", "timer"}, NEW deadline \in 0..Never, NEW next \in Work,
           Derives(t, made + 1, parent, kind, deadline, next),
           next.why = "nil" <=> next.pc = "idle",
           next.pc = "idle" \/ (next.pc = "arm" /\ next.base = made + 1 /\ next.at = made + 1)
    PROVE  Grown(t, parent, [kind |-> kind, parent |-> parent, canceler |-> made + 1,
                             done |-> made + 1, deadline |-> deadline], made + 1)
<1> USE Names
<1> DEFINE c == made + 1
           q == ctx[parent].canceler
           r == [kind |-> kind, parent |-> parent, canceler |-> c, done |-> c,
                 deadline |-> deadline]
           foreign == ctx[parent].done # 0 /\ ctx[parent].canceler = 0
<1>1. ContextTypeOK /\ Unmade /\ Tree
  BY DEF IInv
<1>2. made \in 0..MaxCtx /\ c \in Ctxs /\ c \in 0..MaxCtx /\ parent \in 0..MaxCtx /\ c \in Nat
  BY <1>1, ContextAssumption DEF ContextTypeOK, Ctxs
<1>3. /\ made' = c /\ ctx' = [ctx EXCEPT ![c] = r] /\ UNCHANGED <<mu, timer, now>>
      /\ IF q = 0 THEN UNCHANGED <<err, children>> ELSE Registers(c, q)
      /\ work' = [p \in Procs |-> IF p = t THEN next
                                  ELSE IF foreign /\ p = Watch(c) THEN Job("select", c, FALSE, "nil")
                                  ELSE work[p]]
  BY DEF Derives
<1>4. r \in Ctx /\ r.parent = parent /\ r.canceler = c /\ r.done = c
  BY <1>2 DEF Ctx
<1>5. q \in 0..MaxCtx /\ (q # 0 => q \in Ctxs)
  BY <1>1, <1>2, Fields, ContextAssumption DEF Ctxs
<1>6. /\ err' \in [Ctxs -> {"nil", "canceled", "exceeded"}]
      /\ children' \in [Ctxs -> SUBSET Ctxs]
      /\ \A d \in Ctxs : d # c => err'[d] = err[d]
      /\ \A x \in Ctxs : children[x] \subseteq children'[x]
      /\ \A x, d \in Ctxs : d \in children'[x] => d \in children[x] \/ (d = c /\ x = q)
      /\ q # 0 => IF err[q] = "nil" THEN c \in children'[q] ELSE err'[c] # "nil"
  <2>1. CASE q = 0
    BY <1>1, <1>3, <2>1 DEF ContextTypeOK
  <2>2. CASE q # 0 /\ err[q] # "nil"
    <3>1. err' = [err EXCEPT ![c] = err[q]] /\ children' = children
      BY <1>3, <2>2 DEF Registers
    <3> QED BY <1>1, <1>2, <1>5, <2>2, <3>1 DEF ContextTypeOK
  <2>3. CASE q # 0 /\ err[q] = "nil"
    <3>1. children' = [children EXCEPT ![q] = @ \cup {c}] /\ err' = err
      BY <1>3, <2>3 DEF Registers
    <3> QED BY <1>1, <1>2, <1>5, <2>3, <3>1 DEF ContextTypeOK
  <2> QED BY <2>1, <2>2, <2>3
<1>7. /\ work'[t] = next /\ \A p \in Procs : p # t /\ p # Watch(c) => work'[p] = work[p]
      /\ work'[Watch(c)] \in {Job("select", c, FALSE, "nil"), Idle}
  <2>1. Watch(c) \in Procs /\ t \in Procs /\ t # Watch(c)
    BY <1>2
  <2>2. work[Watch(c)] = Idle
    BY <1>1, <1>2, ContextAssumption DEF Unmade, Ctxs
  <2>3. work'[t] = next /\ \A p \in Procs : p # t /\ p # Watch(c) => work'[p] = work[p]
    BY <1>3, <2>1, Zenon
  <2>4. work'[Watch(c)] = IF foreign THEN Job("select", c, FALSE, "nil") ELSE work[Watch(c)]
    BY <1>3, <2>1, Zenon
  <2> QED BY <2>2, <2>3, <2>4
<1>8. /\ Job("select", c, FALSE, "nil") \in Work /\ Job("select", c, FALSE, "nil").pc = "select"
      /\ Job("select", c, FALSE, "nil").why = "nil"
  BY <1>2 DEF Job, Work
<1>9. /\ work'[Watch(c)] \in Work /\ work'[Watch(c)].pc \in {"idle", "select"}
      /\ work'[Watch(c)].why = "nil"
  BY <1>7, <1>8, IdleFields
<1>10. /\ work' \in [Procs -> Work]
       /\ \A p \in Procs : work'[p].why = "nil" <=> work'[p].pc \in {"idle", "select"}
  <2>1. ASSUME NEW p \in Procs
        PROVE  work'[p] \in Work /\ (work'[p].why = "nil" <=> work'[p].pc \in {"idle", "select"})
    <3>1. CASE p = t
      BY <1>7, <3>1
    <3>2. CASE p = Watch(c)
      BY <1>9, <3>2
    <3>3. CASE p # t /\ p # Watch(c)
      BY <1>1, <1>7, <3>3 DEF ContextTypeOK
    <3> QED BY <3>1, <3>2, <3>3
  <2>2. DOMAIN work' = Procs /\ work' = [p \in Procs |-> work'[p]]
    BY <1>3
  <2> QED BY <2>1, <2>2
<1>11. work'[t].pc = "idle" \/ (work'[t].pc = "arm" /\ work'[t].base = c /\ work'[t].at = c)
  BY <1>7
<1>12. r.canceler <= c /\ r.done <= c
  BY <1>2, <1>4
<1>13. made' = c /\ ctx' = [ctx EXCEPT ![c] = r] /\ UNCHANGED <<mu, timer, now>>
  BY <1>3
<1>14. /\ c = made + 1
       /\ r.done = c /\ q # 0 => IF err[q] = "nil" THEN c \in children'[q] ELSE err'[c] # "nil"
       /\ \A p \in Procs : p # t /\ p # Watch(c) => work'[p] = work[p]
  BY <1>6, <1>7
<1>15. Grown(t, parent, r, c)
  <2> HIDE DEF c, r
  <2> QED BY <1>4, <1>6, <1>9, <1>10, <1>11, <1>12, <1>13, <1>14 DEF Grown
<1> QED BY <1>15

LEMMA DerivesHolds ==
    ASSUME IInv, NEW t \in Callers, At(t, "idle"), made < MaxCtx, NEW parent \in 0..made,
           NEW kind \in {"cancel", "timer"}, NEW deadline \in 0..Never, NEW next \in Work,
           Derives(t, made + 1, parent, kind, deadline, next),
           next.why = "nil" <=> next.pc = "idle",
           next.pc = "idle" \/ (next.pc = "arm" /\ next.base = made + 1 /\ next.at = made + 1)
    PROVE  IInv'
<1> PICK r, c : /\ c = made + 1
               /\ r = [kind |-> kind, parent |-> parent, canceler |-> made + 1,
                       done |-> made + 1, deadline |-> deadline]
  OBVIOUS
<1>1. Grown(t, parent, r, c)
  BY DerivesGrows
<1> QED BY ONLY IInv, t \in Callers, At(t, "idle"), <1>1, Grows

LEMMA WrapsGrows ==
    ASSUME IInv, NEW t \in Callers, At(t, "idle"), made < MaxCtx, NEW parent \in 0..made,
           NEW kind \in {"value", "foreign"}, Wraps(parent, kind)
    PROVE  Grown(t, parent,
                 [ctx[parent] EXCEPT !.kind = kind, !.parent = parent,
                                     !.canceler = IF kind = "value" THEN @ ELSE 0], made + 1)
<1> USE Names
<1> DEFINE c == made + 1
           r == [ctx[parent] EXCEPT !.kind = kind, !.parent = parent,
                                    !.canceler = IF kind = "value" THEN @ ELSE 0]
<1>1. ContextTypeOK /\ Unmade /\ Tree
  BY DEF IInv
<1>2. made \in 0..MaxCtx /\ c \in Ctxs /\ c \in 0..MaxCtx /\ parent \in 0..MaxCtx /\ c \in Nat
      /\ parent < c
  BY <1>1, ContextAssumption DEF ContextTypeOK, Ctxs
<1>3. made' = c /\ ctx' = [ctx EXCEPT ![c] = r] /\ UNCHANGED <<err, children, mu, timer, now, work>>
  BY DEF Wraps
<1>4. ctx[parent] \in Ctx /\ ctx[parent].canceler \in 0..parent /\ ctx[parent].done \in 0..parent
  <2>1. ctx[parent] \in Ctx /\ ctx[parent].canceler \in 0..MaxCtx /\ ctx[parent].done \in 0..MaxCtx
    BY <1>1, <1>2, Fields DEF ContextTypeOK
  <2>2. CASE parent = 0
    BY <1>1, <2>1, <2>2 DEF ContextTypeOK, Background
  <2>3. CASE parent # 0
    <3>1. parent \in Ctxs
      BY <1>2, <2>3, ContextAssumption DEF Ctxs
    <3> QED BY <1>1, <2>1, <3>1 DEF Tree
  <2> QED BY <2>2, <2>3
<1>5. ASSUME NEW old \in Ctx
      PROVE  LET new == [old EXCEPT !.kind = kind, !.parent = parent,
                                    !.canceler = IF kind = "value" THEN @ ELSE 0]
             IN /\ new \in Ctx /\ new.parent = parent /\ new.done = old.done
                /\ new.canceler = old.canceler \/ new.canceler = 0
  <2>1. 0 \in 0..MaxCtx
    BY ContextAssumption
  <2>2. CASE kind = "value"
    BY <1>2, <2>2 DEF Ctx
  <2>3. CASE kind = "foreign"
    BY <1>2, <2>1, <2>3 DEF Ctx
  <2> QED BY <2>2, <2>3
<1>6. /\ r \in Ctx /\ r.parent = parent /\ r.done = ctx[parent].done
      /\ r.canceler = ctx[parent].canceler \/ r.canceler = 0
  BY <1>4, <1>5, Zenon
<1>7. r.canceler <= c /\ r.done <= c /\ r.done # c
  BY <1>2, <1>4, <1>6
<1>8. /\ err' \in [Ctxs -> {"nil", "canceled", "exceeded"}]
      /\ children' \in [Ctxs -> SUBSET Ctxs] /\ work' \in [Procs -> Work]
      /\ \A p \in Procs : work'[p].why = "nil" <=> work'[p].pc \in {"idle", "select"}
  BY <1>1, <1>3 DEF ContextTypeOK
<1>9. work'[Watch(c)].pc = "idle" /\ work'[t].pc = "idle"
  BY <1>1, <1>2, <1>3, ContextAssumption DEF Unmade, Ctxs, Idle, At
<1>10. Grown(t, parent, r, c)
  <2>1. c = made + 1 /\ (\A d \in Ctxs : d # c => err'[d] = err[d])
        /\ (\A x \in Ctxs : children[x] \subseteq children'[x])
        /\ (\A x, d \in Ctxs : d \in children'[x] => d \in children[x])
        /\ (\A p \in Procs : work'[p] = work[p])
    BY <1>3
  <2> HIDE DEF c, r
  <2> QED BY <1>2, <1>3, <1>6, <1>7, <1>8, <1>9, <2>1 DEF Grown
<1> QED BY <1>10

LEMMA WrapsHolds ==
    ASSUME IInv, NEW t \in Callers, At(t, "idle"), made < MaxCtx, NEW parent \in 0..made,
           NEW kind \in {"value", "foreign"}, Wraps(parent, kind)
    PROVE  IInv'
BY WrapsGrows, Grows

LEMMA CallsHold == ASSUME IInv, NEW t \in Callers, ContextCalls(t) PROVE IInv'
<1>1. At(t, "idle") /\ ContextTypeOK /\ made \in 0..MaxCtx
  BY DEF ContextCalls, IInv, ContextTypeOK
<1>2. CASE \E c \in Ctxs : Usable(c) /\ ctx[c].kind \in {"cancel", "timer"} /\ Cancel(t, c)
  BY <1>2, CancelHolds DEF Usable
<1>3. ASSUME made < MaxCtx, NEW parent \in 0..MaxCtx, Usable(parent),
             \/ WithCancel(t, parent)
             \/ \E d \in 0..Horizon : WithDeadline(t, parent, d)
             \/ WithValue(parent)
             \/ ForeignContext(parent)
      PROVE  IInv'
  <2>1. parent \in 0..made /\ ctx[parent].deadline \in 0..Never
    BY <1>1, <1>3, Fields, ContextAssumption DEF Usable
  <2>2. CASE WithCancel(t, parent)
    BY <1>1, <1>3, <2>1, <2>2, DerivesHolds, IdleFields DEF WithCancel
  <2>3. ASSUME NEW d \in 0..Horizon, WithDeadline(t, parent, d) PROVE IInv'
    <3>1. CASE ctx[parent].deadline < d
      BY <1>1, <1>3, <2>1, <2>3, <3>1, DerivesHolds, IdleFields DEF WithCancel, WithDeadline
    <3>2. CASE ~(ctx[parent].deadline < d)
      <4> DEFINE next == Job("arm", made + 1, TRUE, "exceeded")
      <4>1. Derives(t, made + 1, parent, "timer", d, next)
        BY <2>3, <3>2 DEF WithDeadline
      <4>2. next \in Work /\ next.pc = "arm" /\ next.base = made + 1 /\ next.at = made + 1
            /\ next.why = "exceeded"
        BY <1>1, <1>3, ContextAssumption DEF Job, Work
      <4>3. d \in 0..Never
        BY ContextAssumption DEF Never
      <4> HIDE DEF next
      <4> QED BY <1>1, <1>3, <2>1, <4>1, <4>2, <4>3, DerivesHolds
    <3> QED BY <3>1, <3>2
  <2>4. CASE WithValue(parent)
    BY <1>1, <1>3, <2>1, <2>4, WrapsHolds DEF WithValue
  <2>5. CASE ForeignContext(parent)
    BY <1>1, <1>3, <2>1, <2>5, WrapsHolds DEF ForeignContext
  <2> QED BY <1>3, <2>2, <2>3, <2>4, <2>5
<1> QED BY <1>2, <1>3 DEF ContextCalls

(* Every step keeps the invariant. *)
LEMMA NextHolds == IInv /\ [ContextNext]_ctxVars => IInv'
<1> SUFFICES ASSUME IInv, [ContextNext]_ctxVars PROVE IInv'
  OBVIOUS
<1>1. ContextTypeOK /\ now \in 0..Horizon
  BY DEF IInv, ContextTypeOK
<1>2. CASE \E t \in Callers : ContextCalls(t)
  BY <1>2, CallsHold
<1>3. ASSUME NEW p \in Procs, CancelStep(p) PROVE IInv'
  BY <1>3, CancelsHolds, ArmHolds DEF CancelStep
<1>4. CASE Underway
  <2>1. CASE Tick
    <3>1. now' \in 0..Horizon
      BY <1>1, <2>1, ContextAssumption DEF Tick
    <3> QED BY <2>1, <3>1, ClockHolds DEF Tick
  <2>2. CASE \E c \in Ctxs : TimerFires(c) \/ WatcherWakes(c)
    BY <2>2, TimerFiresHolds, WatcherWakesHolds
  <2> QED BY <1>3, <1>4, <2>1, <2>2 DEF Underway
<1>5. CASE UNCHANGED ctxVars
  BY <1>1, <1>5, ClockHolds DEF ctxVars
<1>6. CASE Rests
  BY <1>5, <1>6 DEF Rests
<1> QED BY <1>2, <1>3, <1>4, <1>5, <1>6, Names DEF ContextNext

LEMMA InvariantHolds == ContextSpec => []IInv
BY InitHolds, NextHolds, PTL DEF ContextSpec

-----------------------------------------------------------------------------
(* The theorems. *)

(* Every variable has its type, and no reason is ever missing: cancel's panic *)
(* "context: internal error: missing cancel error" does not happen.           *)
THEOREM ContextIsTyped == ContextSpec => []ContextTypeOK
<1>1. IInv => ContextTypeOK
  BY DEF IInv
<1> QED BY <1>1, InvariantHolds, PTL

(* When the cancel of a context has let go of its mutex, every context that was *)
(* derived from it has ended, whoever derived or cancelled what meanwhile.      *)
THEOREM EndReachesDescendants == ContextSpec => []DescendantsAreCancelled
<1>1. IInv => DescendantsAreCancelled
  <2> SUFFICES ASSUME IInv, NEW c \in 1..made, ctx[c].done = c, Up(c) # 0, err[Up(c)] # "nil",
                      mu[Up(c)] = Nobody
               PROVE  err[c] # "nil"
    BY DEF DescendantsAreCancelled
  <2>1. ContextTypeOK /\ Pending
    BY DEF IInv
  <2>2. c \in Ctxs /\ c <= made
    BY <2>1, ContextAssumption DEF ContextTypeOK, Ctxs
  <2> QED BY <2>1, <2>2 DEF Pending, Own
<1> QED BY <1>1, InvariantHolds, PTL

(* The reason for which a context ended stays: done is closed at most once. *)
THEOREM EndIsFinal == ContextSpec => ErrIsFinal
<1>1. IInv /\ [ContextNext]_ctxVars => [\A c \in Ctxs : err[c] # "nil" => err'[c] = err[c]]_ctxVars
  <2> SUFFICES ASSUME IInv, ContextNext, NEW c \in Ctxs, err[c] # "nil"
               PROVE  err'[c] = err[c]
    OBVIOUS
  <2>1. ContextTypeOK /\ Unmade /\ made \in 0..MaxCtx
    BY DEF IInv, ContextTypeOK
  <2>2. ASSUME NEW p \in Procs, Locks(p) PROVE err'[c] = err[c]
    BY <2>1, <2>2 DEF Locks, Refuses, MarksCancelled, IsCancelled, ContextTypeOK
  <2>3. ASSUME NEW p \in Procs, CancelStep(p) PROVE err'[c] = err[c]
    <3>1. CASE Locks(p)
      BY <2>2, <3>1
    <3>2. CASE CancelsChild(p) \/ Unlocks(p) \/ Unlinks(p) \/ StopsTimer(p)
      BY <3>2 DEF CancelsChild, Unlocks, Unlinks, StopsTimer
    <3>3. CASE Arm(p)
      BY <3>3 DEF Arm
    <3> QED BY <2>3, <3>1, <3>2, <3>3 DEF CancelStep, Cancels
  <2>4. ASSUME NEW t \in Callers, ContextCalls(t) PROVE err'[c] = err[c]
    <3>1. made < MaxCtx => err[made + 1] = "nil"
      BY <2>1, ContextAssumption DEF Unmade, Ctxs
    <3>2. ASSUME made < MaxCtx, NEW parent, NEW kind, NEW deadline, NEW next,
                 Derives(t, made + 1, parent, kind, deadline, next)
          PROVE  err'[c] = err[c]
      BY <2>1, <3>1, <3>2 DEF Derives, Registers, ContextTypeOK
    <3> QED BY <2>4, <3>2 DEF ContextCalls, WithCancel, WithDeadline, WithValue, ForeignContext,
                             Wraps, Cancel
  <2>5. CASE Underway
    BY <2>3, <2>5 DEF Underway, TimerFires, WatcherWakes, Tick
  <2> QED BY <2>3, <2>4, <2>5, Names DEF ContextNext, Rests, ctxVars
<1> QED BY <1>1, InvariantHolds, PTL DEF ContextSpec, ErrIsFinal

-----------------------------------------------------------------------------
(***************************************************************************)
(* Proofs about Context: a context that has ended holds neither a timer    *)
(* nor a place in its parent, once nobody is at work on it.                *)
(*                                                                         *)
(* The argument: a timer of a context that has ended is the business of    *)
(* the goroutine that holds its mutex or that has come to it in cancel,    *)
(* which goes on to stop it (Stopping); a place in a parent that is not in *)
(* its own cancel is the business of the goroutine that ended the context  *)
(* and goes on to unlink it (Forgetting).                                  *)
(***************************************************************************)

Timers ==
    /\ \A c \in Ctxs : timer[c] => ctx[c].kind = "timer"
    /\ \A t \in Callers : At(t, "arm") => ctx[work[t].base].kind = "timer"

\* Only a watcher's call, on a context that is registered nowhere, does not unlink.
Removing ==
    /\ \A p \in Procs : work[p].pc \in Busy /\ ~work[p].remove => Up(work[p].base) = 0
    /\ \A t \in Callers : At(t, "arm") => work[t].remove
    /\ \A c \in Ctxs : At(Watch(c), "select") => Up(c) = 0

Stopping ==
    \A c \in Ctxs : timer[c] /\ err[c] # "nil" =>
        mu[c] # Nobody \/ \E p \in Procs : work[p].pc \in Busy /\ work[p].at = c

Unlinker(p, c) == work[p].base = c /\ work[p].remove /\ (mu[c] = p \/ At(p, "unlink"))

Forgetting ==
    \A c, q \in Ctxs : c \in children[q] /\ ctx[c].kind = "cancel" /\ err[c] # "nil" =>
        mu[q] # Nobody \/ \E p \in Procs : Unlinker(p, c)

RInv == Timers /\ Removing /\ Stopping /\ Forgetting

LEMMA InitReleases == ContextInit => RInv
<1> SUFFICES ASSUME ContextInit PROVE RInv
  OBVIOUS
<1>1. \A p \in Procs : work[p].pc = "idle"
  BY DEF ContextInit, Idle
<1> QED BY <1>1, Names DEF ContextInit, RInv, Timers, Removing, Stopping, Forgetting, Busy, At

-----------------------------------------------------------------------------
(* The steps of cancel. *)

(* A goroutine is done with the context it is at, as in LeavesRight. *)
LEMMA LeavesReleased ==
    ASSUME IInv, RInv, NEW p \in Procs, work[p].pc \in Busy,
           \A o \in Procs : o # p => work'[o] = work[o],
           \/ /\ work'[p].pc \in {"stop", "unlink"} /\ work'[p].at = work[p].at
              /\ work'[p].base = work[p].base /\ work'[p].remove = work[p].remove
           \/ /\ work'[p].pc = "children" /\ work[p].at # work[p].base
              /\ work'[p].base = work[p].base /\ work'[p].remove = work[p].remove
           \/ work'[p] = Idle /\ work[p].at = work[p].base,
           UNCHANGED <<made, ctx, err, now>>,
           \A x \in Ctxs : mu'[x] = IF x = work[p].at /\ mu[x] = p THEN Nobody ELSE mu[x],
           mu[work[p].at] = p => children[work[p].at] = {},
           \A q \in Ctxs : children'[q] \subseteq children[q],
           \A d \in Ctxs : timer'[d] => timer[d],
           ctx[work[p].at].kind = "timer" /\ timer'[work[p].at] =>
               work'[p].pc \in {"stop", "unlink"},
           /\ work[p].at = work[p].base /\ work[p].remove /\ Up(work[p].at) \in Ctxs
           /\ mu[work[p].at] = p \/ At(p, "unlink")
           /\ ctx[work[p].at].kind = "cancel" /\ work[p].at \in children'[Up(work[p].at)]
           => work'[p].pc = "unlink"
    PROVE  RInv'
<1> USE Names
<1>1. Timers /\ Removing /\ Stopping /\ Forgetting /\ Linked /\ ContextTypeOK
  BY DEF RInv, IInv
<1>2. work[p].at \in Ctxs /\ work[p].base \in Ctxs
  BY BusyAt
<1>3. \A x \in Ctxs : Up(x)' = Up(x)
  BY SameTree
<1>4. Idle.pc = "idle"
  BY DEF Idle
<1>5. Timers'
  BY <1>1, <1>4 DEF Timers, At, Busy
<1>6. Removing'
  <2>1. ASSUME NEW o \in Procs, work'[o].pc \in Busy, ~work'[o].remove
        PROVE  Up(work[o].base)' = 0
    <3>1. work[o].pc \in Busy /\ ~work[o].remove /\ work'[o].base = work[o].base
      BY <1>4, <2>1 DEF Busy
    <3>2. work[o].base \in Ctxs /\ Up(work[o].base) = 0
      BY <1>1, <3>1, BusyAt DEF Removing
    <3>3. Up(work[o].base)' = (ctx[ctx[work'[o].base].parent].canceler)
      BY DEF Up
    <3> QED BY <3>1, <3>2, <3>3 DEF Up
  <2>2. \A t \in Callers : At(t, "arm")' => work'[t].remove
    BY <1>1, <1>4 DEF Removing, At
  <2>3. \A c \in Ctxs : At(Watch(c), "select")' => Up(c)' = 0
    BY <1>1, <1>3, <1>4 DEF Removing, At
  <2> QED BY <2>1, <2>2, <2>3 DEF Removing
<1>7. Stopping'
  <2> SUFFICES ASSUME NEW c \in Ctxs, timer'[c], err[c] # "nil"
               PROVE  mu'[c] # Nobody \/ \E o \in Procs : work'[o].pc \in Busy /\ work'[o].at = c
    BY DEF Stopping
  <2>1. CASE c = work[p].at
    <3>1. work'[p].pc \in {"stop", "unlink"} /\ work'[p].at = c
      BY <1>1, <1>4, <2>1 DEF Timers
    <3> QED BY <3>1 DEF Busy
  <2>2. CASE c # work[p].at
    BY <1>1, <2>2 DEF Stopping
  <2> QED BY <2>1, <2>2
<1>8. Forgetting'
  <2> SUFFICES ASSUME NEW c \in Ctxs, NEW q \in Ctxs, c \in children'[q],
                      ctx[c].kind = "cancel", err[c] # "nil"
               PROVE  mu'[q] # Nobody \/ \E o \in Procs : Unlinker(o, c)'
    BY DEF Forgetting
  <2>1. c \in children[q] /\ Up(c) = q
    BY <1>1 DEF Linked
  <2>2. CASE mu[q] # Nobody
    BY <2>1, <2>2
  <2>3. ASSUME NEW o \in Procs, Unlinker(o, c) PROVE Unlinker(o, c)'
    <3>1. CASE o # p
      BY <2>3, <3>1 DEF Unlinker, At
    <3>2. CASE o = p /\ work[p].at # work[p].base
      <4>1. ~At(p, "unlink")
        BY <3>2 DEF IInv, Working
      <4> QED BY <2>3, <3>2, <4>1 DEF Unlinker, At
    <3>3. CASE o = p /\ work[p].at = work[p].base
      <4>1. work'[p].pc = "unlink"
        BY <2>1, <2>3, <3>3 DEF Unlinker
      <4> QED BY <1>4, <2>3, <3>3, <4>1 DEF Unlinker, At
    <3> QED BY <3>1, <3>2, <3>3
  <2> QED BY <1>1, <2>1, <2>2, <2>3 DEF Forgetting
<1> QED BY <1>5, <1>6, <1>7, <1>8 DEF RInv

(* What work'[p] is when it goes on, and when it goes back. *)
LEMMA GoneOn ==
    ASSUME IInv, NEW p \in Procs, work[p].pc \in Busy, NEW pc \in Busy,
           work' = [work EXCEPT ![p] = Goes(work[p], pc)]
    PROVE  /\ \A o \in Procs : o # p => work'[o] = work[o]
           /\ work'[p].pc = pc /\ work'[p].at = work[p].at /\ work'[p].base = work[p].base
           /\ work'[p].remove = work[p].remove
<1>1. work[p] \in Work /\ ContextTypeOK /\ 0 \in 0..MaxCtx
  BY WorkFields, ContextAssumption DEF IInv
<1>2. work'[p] = Goes(work[p], pc)
  BY <1>1 DEF ContextTypeOK
<1>3. /\ Goes(work[p], pc).pc = pc /\ Goes(work[p], pc).base = work[p].base
      /\ Goes(work[p], pc).at = work[p].at /\ Goes(work[p], pc).remove = work[p].remove
  BY <1>1, WorkMoves
<1> QED BY <1>1, <1>2, <1>3 DEF ContextTypeOK

LEMMA GoneBack ==
    ASSUME IInv, NEW p \in Procs, work[p].pc \in Busy,
           work' = [work EXCEPT ![p] = BackFrom(p)]
    PROVE  /\ \A o \in Procs : o # p => work'[o] = work[o]
           /\ \/ /\ work'[p].pc = "children" /\ work[p].at # work[p].base
                 /\ work'[p].base = work[p].base /\ work'[p].remove = work[p].remove
              \/ work'[p] = Idle /\ work[p].at = work[p].base
<1>1. work[p] \in Work /\ ContextTypeOK /\ Up(work[p].at) \in 0..MaxCtx /\ "children" \in Busy
  BY WorkFields, BusyAt DEF IInv, Busy
<1>2. work'[p] = BackFrom(p)
  BY <1>1 DEF ContextTypeOK
<1>3. CASE work[p].at = work[p].base
  BY <1>1, <1>2, <1>3 DEF ContextTypeOK, BackFrom
<1>4. CASE work[p].at # work[p].base
  <2> DEFINE g == GoesTo(work[p], "children", Up(work[p].at))
  <2>1. work'[p] = g
    BY <1>2, <1>4 DEF BackFrom, GoesTo
  <2>2. g.pc = "children" /\ g.base = work[p].base /\ g.remove = work[p].remove
    BY <1>1, WorkMoves
  <2> HIDE DEF g
  <2> QED BY <1>1, <1>4, <2>1, <2>2 DEF ContextTypeOK
<1> QED BY <1>3, <1>4

(* timerCtx.cancel: a context with a timer is not left before the timer is stopped. *)
LEMMA Proceeded ==
    ASSUME IInv, NEW p \in Procs, work[p].pc \in Busy,
           work' = [work EXCEPT ![p] = Proceeds(p)]
    PROVE  /\ \A o \in Procs : o # p => work'[o] = work[o]
           /\ \/ /\ work'[p].pc = "stop" /\ work'[p].at = work[p].at
                 /\ work'[p].base = work[p].base /\ work'[p].remove = work[p].remove
              \/ /\ work'[p].pc = "children" /\ work[p].at # work[p].base
                 /\ work'[p].base = work[p].base /\ work'[p].remove = work[p].remove
              \/ work'[p] = Idle /\ work[p].at = work[p].base
           /\ ctx[work[p].at].kind = "timer" => work'[p].pc = "stop"
<1>1. CASE ctx[work[p].at].kind = "timer"
  <2>1. work' = [work EXCEPT ![p] = Goes(work[p], "stop")] /\ "stop" \in Busy
    BY <1>1 DEF Proceeds, Goes, Busy
  <2> QED BY <2>1, GoneOn
<1>2. CASE ctx[work[p].at].kind # "timer"
  <2>1. work' = [work EXCEPT ![p] = BackFrom(p)]
    BY <1>2 DEF Proceeds
  <2> QED BY <1>2, <2>1, GoneBack
<1> QED BY <1>1, <1>2

LEMMA RefusesReleased ==
    ASSUME IInv, RInv, NEW p \in Procs, Locks(p), IsCancelled(work[p].at)
    PROVE  RInv'
<1>1. /\ work[p].pc = "lock" /\ mu[work[p].at] = Nobody
      /\ work' = [work EXCEPT ![p] = Proceeds(p)]
      /\ UNCHANGED <<made, ctx, err, mu, children, timer, now>>
  BY DEF Locks, Refuses, At
<1>2. work[p].pc \in Busy /\ mu[work[p].at] # p /\ ~At(p, "unlink")
  BY <1>1, Names DEF Busy, At
<1>3. \A x \in Ctxs : mu'[x] = IF x = work[p].at /\ mu[x] = p THEN Nobody ELSE mu[x]
  BY <1>1, <1>2
<1> QED BY <1>1, <1>2, <1>3, Proceeded, LeavesReleased

LEMMA UnlocksReleased == ASSUME IInv, RInv, NEW p \in Procs, Unlocks(p) PROVE RInv'
<1> DEFINE c == work[p].at
<1>1. /\ work[p].pc = "children" /\ children[c] = {} /\ mu' = [mu EXCEPT ![c] = Nobody]
      /\ work' = [work EXCEPT ![p] = IF c = work[p].base /\ work[p].remove /\ Up(c) # 0
                                    THEN Goes(work[p], "unlink") ELSE Proceeds(p)]
      /\ UNCHANGED <<made, ctx, err, children, timer, now>>
  BY DEF Unlocks, At, Goes
<1>2. work[p].pc \in Busy /\ ContextTypeOK /\ "unlink" \in Busy
  BY <1>1 DEF Busy, IInv
<1>3. c \in Ctxs /\ mu[c] = p
  BY <1>1, <1>2, BusyAt DEF IInv, Working, At
<1>4. \A x \in Ctxs : mu'[x] = IF x = c /\ mu[x] = p THEN Nobody ELSE mu[x]
  BY <1>1, <1>2, <1>3 DEF ContextTypeOK
<1>5. 0 \notin Ctxs
  BY ContextAssumption DEF Ctxs
<1>6. CASE c = work[p].base /\ work[p].remove /\ Up(c) # 0
  <2>1. work' = [work EXCEPT ![p] = Goes(work[p], "unlink")]
    BY <1>1, <1>6
  <2>2. /\ \A o \in Procs : o # p => work'[o] = work[o]
        /\ work'[p].pc = "unlink" /\ work'[p].at = work[p].at /\ work'[p].base = work[p].base
        /\ work'[p].remove = work[p].remove
    BY <1>2, <2>1, GoneOn
  <2> QED BY <1>1, <1>2, <1>4, <2>2, LeavesReleased
<1>7. CASE ~(c = work[p].base /\ work[p].remove /\ Up(c) # 0)
  <2>1. work' = [work EXCEPT ![p] = Proceeds(p)]
    BY <1>1, <1>7
  <2>2. ~(work[p].at = work[p].base /\ work[p].remove /\ Up(work[p].at) \in Ctxs)
    BY <1>5, <1>7
  <2> QED BY <1>1, <1>2, <1>4, <2>1, <2>2, Proceeded, LeavesReleased
<1> QED BY <1>6, <1>7

LEMMA UnlinksReleased == ASSUME IInv, RInv, NEW p \in Procs, Unlinks(p) PROVE RInv'
<1> DEFINE c == work[p].at
<1>1. /\ work[p].pc = "unlink" /\ children' = [children EXCEPT ![Up(c)] = @ \ MapKey(c)]
      /\ work' = [work EXCEPT ![p] = Proceeds(p)]
      /\ UNCHANGED <<made, ctx, err, mu, timer, now>>
  BY DEF Unlinks, At
<1>2. work[p].pc \in Busy /\ ContextTypeOK /\ \A x \in Ctxs : Holding(p, x)
  BY <1>1 DEF Busy, IInv
<1>3. c \in Ctxs /\ mu[c] # p
  BY <1>1, <1>2, BusyAt DEF Holding, At
<1>4. /\ \A x \in Ctxs : mu'[x] = IF x = c /\ mu[x] = p THEN Nobody ELSE mu[x]
      /\ \A q \in Ctxs : children'[q] \subseteq children[q]
      /\ Up(c) \in Ctxs /\ ctx[c].kind = "cancel" => c \notin children'[Up(c)]
  BY <1>1, <1>2, <1>3 DEF ContextTypeOK, MapKey
<1>5. \A d \in Ctxs : timer'[d] => timer[d]
  BY <1>1
<1> QED BY <1>1, <1>2, <1>3, <1>4, <1>5, Proceeded, LeavesReleased

LEMMA StopsReleased == ASSUME IInv, RInv, NEW p \in Procs, StopsTimer(p) PROVE RInv'
<1> DEFINE c == work[p].at
<1>1. /\ work[p].pc = "stop" /\ timer' = [timer EXCEPT ![c] = FALSE]
      /\ work' = [work EXCEPT ![p] = BackFrom(p)]
      /\ UNCHANGED <<made, ctx, err, children, mu, now>>
  BY DEF StopsTimer, At
<1>2. work[p].pc \in Busy /\ ContextTypeOK /\ \A x \in Ctxs : Holding(p, x)
  BY <1>1 DEF Busy, IInv
<1>3. c \in Ctxs /\ mu[c] # p /\ ~At(p, "unlink")
  BY <1>1, <1>2, BusyAt DEF Holding, At
<1>4. /\ \A x \in Ctxs : mu'[x] = IF x = c /\ mu[x] = p THEN Nobody ELSE mu[x]
      /\ ~timer'[c] /\ \A d \in Ctxs : timer'[d] => timer[d]
  BY <1>1, <1>2, <1>3 DEF ContextTypeOK
<1> QED BY <1>1, <1>2, <1>3, <1>4, GoneBack, LeavesReleased

LEMMA MarksReleased ==
    ASSUME IInv, RInv, NEW p \in Procs, Locks(p), ~IsCancelled(work[p].at)
    PROVE  RInv'
<1> USE Names
<1> DEFINE c == work[p].at
<1>1. /\ work[p].pc = "lock" /\ mu[c] = Nobody
      /\ err' = [err EXCEPT ![c] = work[p].why] /\ mu' = [mu EXCEPT ![c] = p]
      /\ work' = [work EXCEPT ![p] = Goes(work[p], "children")]
      /\ UNCHANGED <<made, ctx, children, timer, now>>
  BY DEF Locks, MarksCancelled, At, Goes
<1>2. /\ work[p].pc \in Busy /\ "children" \in Busy /\ ContextTypeOK /\ Working(p) /\ Linked
      /\ Timers /\ Removing /\ Stopping /\ Forgetting
  BY <1>1 DEF Busy, IInv, RInv
<1>3. c \in Ctxs /\ Up(c) < c
  BY <1>2, BusyAt
<1>4. /\ \A o \in Procs : o # p => work'[o] = work[o]
      /\ work'[p].pc = "children" /\ work'[p].at = c /\ work'[p].base = work[p].base
      /\ work'[p].remove = work[p].remove
  BY <1>1, <1>2, GoneOn
<1>5. /\ mu'[c] = p
      /\ \A x \in Ctxs : x # c => mu'[x] = mu[x] /\ err'[x] = err[x]
  BY <1>1, <1>2, <1>3 DEF ContextTypeOK
<1>6. Timers' /\ Removing'
  <2>1. \A o \in Procs : work'[o].base = work[o].base /\ work'[o].remove = work[o].remove
    BY <1>4
  <2>2. \A o \in Procs : (work'[o].pc \in Busy => work[o].pc \in Busy)
                       /\ (work'[o].pc \in {"arm", "select"} => work'[o].pc = work[o].pc)
    BY <1>2, <1>4
  <2>3. Timers'
    BY <1>1, <1>2, <2>1, <2>2 DEF Timers, At
  <2> QED BY <1>1, <1>2, <2>1, <2>2, <2>3 DEF Removing, At, Up
<1>7. Stopping'
  BY <1>1, <1>2, <1>4, <1>5 DEF Stopping
<1>8. Forgetting'
  <2> SUFFICES ASSUME NEW d \in Ctxs, NEW q \in Ctxs, d \in children[q],
                      ctx[d].kind = "cancel", err'[d] # "nil"
               PROVE  mu'[q] # Nobody \/ \E o \in Procs : Unlinker(o, d)'
    BY <1>1 DEF Forgetting
  <2>1. Up(d) = q
    BY <1>2 DEF Linked
  <2>2. CASE d = c /\ work[p].base = c
    <3>1. work[p].remove
      BY <1>2, <2>1, <2>2, ContextAssumption DEF Removing, Ctxs
    <3> QED BY <1>4, <1>5, <2>2, <3>1 DEF Unlinker
  <2>3. CASE d = c /\ work[p].base # c
    <3>1. mu[q] = p
      BY <1>2, <2>1, <2>3 DEF Working
    <3> QED BY <1>3, <1>5, <2>1, <2>3, <3>1
  <2>4. CASE d # c
    <3>1. mu[q] # Nobody \/ \E o \in Procs : Unlinker(o, d)
      BY <1>2, <1>5, <2>4 DEF Forgetting
    <3>2. ASSUME NEW o \in Procs, Unlinker(o, d) PROVE Unlinker(o, d)'
      BY <1>1, <1>4, <1>5, <2>4, <3>2 DEF Unlinker, At
    <3>3. mu[q] # Nobody => mu'[q] # Nobody
      BY <1>5
    <3> QED BY <3>1, <3>2, <3>3
  <2> QED BY <2>2, <2>3, <2>4
<1> QED BY <1>6, <1>7, <1>8 DEF RInv

LEMMA ChildReleased == ASSUME IInv, RInv, NEW p \in Procs, CancelsChild(p) PROVE RInv'
<1> USE Names
<1> DEFINE a == work[p].at
<1>1. /\ work[p].pc = "children" /\ UNCHANGED <<made, ctx, err, mu, timer, now>>
  BY DEF CancelsChild, At
<1>2. /\ work[p].pc \in Busy /\ "lock" \in Busy /\ ContextTypeOK /\ Working(p)
      /\ Timers /\ Removing /\ Stopping /\ Forgetting
  BY <1>1 DEF Busy, IInv, RInv
<1>3. a \in Ctxs /\ mu[a] = p
  BY <1>1, <1>2, BusyAt DEF Working, At
<1>4. PICK child \in children[a] :
        /\ children' = [children EXCEPT ![a] = @ \ {child}]
        /\ work' = [work EXCEPT ![p] = GoesTo(work[p], "lock", child)]
  BY DEF CancelsChild, GoesTo
<1>5. /\ \A o \in Procs : o # p => work'[o] = work[o]
      /\ work'[p].pc = "lock" /\ work'[p].base = work[p].base /\ work'[p].remove = work[p].remove
  <2>1. child \in 0..MaxCtx /\ work[p] \in Work
    BY <1>2, <1>3, <1>4, WorkFields, ContextAssumption DEF ContextTypeOK, Ctxs
  <2>2. work'[p] = GoesTo(work[p], "lock", child)
    BY <1>2, <1>4 DEF ContextTypeOK
  <2>3. /\ GoesTo(work[p], "lock", child).pc = "lock"
        /\ GoesTo(work[p], "lock", child).base = work[p].base
        /\ GoesTo(work[p], "lock", child).remove = work[p].remove
    BY <1>2, <2>1, WorkMoves
  <2> QED BY <1>2, <1>4, <2>2, <2>3 DEF ContextTypeOK
<1>6. \A q \in Ctxs : children'[q] \subseteq children[q]
  BY <1>2, <1>4 DEF ContextTypeOK
<1>7. Timers' /\ Removing'
  <2>1. \A o \in Procs : work'[o].base = work[o].base /\ work'[o].remove = work[o].remove
    BY <1>5
  <2>2. \A o \in Procs : (work'[o].pc \in Busy => work[o].pc \in Busy)
                       /\ (work'[o].pc \in {"arm", "select"} => work'[o].pc = work[o].pc)
    BY <1>2, <1>5
  <2>3. Timers'
    BY <1>1, <1>2, <2>1, <2>2 DEF Timers, At
  <2> QED BY <1>1, <1>2, <2>1, <2>2, <2>3 DEF Removing, At, Up
<1>8. Stopping'
  BY <1>1, <1>2, <1>3, <1>5 DEF Stopping
<1>9. Forgetting'
  <2>1. ASSUME NEW o \in Procs, NEW d \in Ctxs, Unlinker(o, d) PROVE Unlinker(o, d)'
    BY <1>1, <1>5, <2>1 DEF Unlinker, At
  <2> QED BY <1>1, <1>2, <1>6, <2>1 DEF Forgetting
<1> QED BY <1>7, <1>8, <1>9 DEF RInv

LEMMA CancelsReleased == ASSUME IInv, RInv, NEW p \in Procs, Cancels(p) PROVE RInv'
BY RefusesReleased, MarksReleased, ChildReleased, UnlocksReleased, UnlinksReleased,
   StopsReleased DEF Cancels

-----------------------------------------------------------------------------
(* The other steps. *)

(* A goroutine that is not in cancel begins a call of it, or comes to rest, as in Starts; it *)
(* may have armed the timer of a context that has not ended.                                 *)
LEMMA StartsReleased ==
    ASSUME IInv, RInv, NEW p \in Procs, work[p].pc \in Calm,
           \A o \in Procs : o # p => work'[o] = work[o],
           work'[p].pc \in {"idle", "lock"},
           work'[p].pc = "lock" /\ ~work'[p].remove => ctx[ctx[work'[p].base].parent].canceler = 0,
           UNCHANGED <<made, ctx, err, children, mu, now>>,
           \A c \in Ctxs : timer'[c] => timer[c] \/ (err[c] = "nil" /\ ctx[c].kind = "timer")
    PROVE  RInv'
<1> USE Names
<1>1. Timers /\ Removing /\ Stopping /\ Forgetting
  BY DEF RInv
<1>2. work[p].pc \notin Busy /\ \A x \in Ctxs : mu[x] # p
  BY CalmHoldsNothing DEF Calm, Busy
<1>3. \A o \in Procs : work'[o].pc \in {"arm", "select"} => work'[o] = work[o]
  OBVIOUS
<1>4. Timers'
  BY <1>1, <1>3 DEF Timers, At
<1>5. Removing'
  BY <1>1, <1>3 DEF Removing, At, Up, Busy
<1>6. Stopping'
  BY <1>1, <1>2 DEF Stopping
<1>7. Forgetting'
  <2>1. ASSUME NEW o \in Procs, NEW d \in Ctxs, Unlinker(o, d) PROVE Unlinker(o, d)'
    <3>1. o # p
      BY <1>2, <2>1 DEF Unlinker, At, Busy
    <3> QED BY <2>1, <3>1 DEF Unlinker, At
  <2> QED BY <1>1, <2>1 DEF Forgetting
<1> QED BY <1>4, <1>5, <1>6, <1>7 DEF RInv

LEMMA CancelReleased ==
    ASSUME IInv, RInv, NEW t \in Callers, NEW c \in Ctxs, Cancel(t, c)
    PROVE  RInv'
<1> DEFINE w == Job("lock", c, TRUE, "canceled")
<1>1. work[t].pc \in Calm /\ ContextTypeOK /\ t \in Procs
  BY Names DEF Cancel, At, Calm, IInv
<1>2. /\ work' = [work EXCEPT ![t] = w] /\ UNCHANGED <<made, ctx, err, children, mu, timer, now>>
  BY DEF Cancel
<1>3. w.pc = "lock" /\ w.remove
  BY DEF Job
<1>4. (\A o \in Procs : o # t => work'[o] = work[o]) /\ work'[t] = w
  BY <1>1, <1>2 DEF ContextTypeOK
<1> HIDE DEF w
<1> QED BY <1>1, <1>2, <1>3, <1>4, StartsReleased

LEMMA ArmReleased == ASSUME IInv, RInv, NEW t \in Callers, Arm(t) PROVE RInv'
<1> DEFINE c == work[t].base
<1>1. /\ work[t].pc = "arm" /\ UNCHANGED <<made, ctx, err, children, mu, now>>
      /\ \/ work' = [work EXCEPT ![t] = Goes(work[t], "lock")] /\ timer' = timer
         \/ /\ work' = [work EXCEPT ![t] = Idle]
            /\ timer' = [timer EXCEPT ![c] = Arms(c)]
  BY DEF Arm, At, Goes
<1>2. /\ work[t].pc \in Calm /\ t \in Procs /\ ContextTypeOK /\ work[t] \in Work
      /\ work[t].remove /\ ctx[c].kind = "timer"
  BY <1>1, Names, WorkFields DEF Calm, IInv, RInv, Removing, Timers, At
<1>3. /\ work'[t].pc \in {"idle", "lock"}
      /\ work'[t].pc = "lock" => work'[t].remove
      /\ \A o \in Procs : o # t => work'[o] = work[o]
  <2>1. CASE work' = [work EXCEPT ![t] = Goes(work[t], "lock")]
    <3>1. "lock" \in Busy /\ 0 \in 0..MaxCtx
      BY ContextAssumption DEF Busy
    <3>2. Goes(work[t], "lock").pc = "lock" /\ Goes(work[t], "lock").remove = work[t].remove
      BY <1>2, <3>1, WorkMoves
    <3> QED BY <1>2, <2>1, <3>2 DEF ContextTypeOK
  <2>2. CASE work' = [work EXCEPT ![t] = Idle]
    BY <1>2, <2>2 DEF ContextTypeOK, Idle
  <2> QED BY <1>1, <2>1, <2>2
<1>4. \A d \in Ctxs : timer'[d] => timer[d] \/ (err[d] = "nil" /\ ctx[d].kind = "timer")
  BY <1>1, <1>2 DEF ContextTypeOK, Arms
<1> QED BY <1>1, <1>2, <1>3, <1>4, StartsReleased

LEMMA FiresReleased == ASSUME IInv, RInv, NEW c \in Ctxs, TimerFires(c) PROVE RInv'
<1> DEFINE w == Job("lock", c, TRUE, "exceeded")
<1>1. /\ timer[c] /\ timer' = [timer EXCEPT ![c] = FALSE]
      /\ work' = [work EXCEPT ![Timer(c)] = w]
      /\ UNCHANGED <<made, ctx, err, children, mu, now>>
  BY DEF TimerFires, Fires
<1>2. work[Timer(c)].pc \in Calm /\ ContextTypeOK /\ Timer(c) \in Procs
  BY <1>1, Names DEF IInv, Arming, At, Calm
<1>3. w.pc = "lock" /\ w.remove
  BY DEF Job
<1>4. /\ \A o \in Procs : o # Timer(c) => work'[o] = work[o]
      /\ work'[Timer(c)].pc = "lock" /\ work'[Timer(c)].remove
      /\ \A d \in Ctxs : timer'[d] => timer[d]
  <2> HIDE DEF w
  <2> QED BY <1>1, <1>2, <1>3 DEF ContextTypeOK
<1>5. \A d \in Ctxs : timer'[d] => timer[d] \/ (err[d] = "nil" /\ ctx[d].kind = "timer")
  BY <1>4
<1>6. UNCHANGED <<made, ctx, err, children, mu, now>>
  BY <1>1
<1> QED BY <1>2, <1>4, <1>5, <1>6, StartsReleased

LEMMA WakesReleased == ASSUME IInv, RInv, NEW c \in Ctxs, WatcherWakes(c) PROVE RInv'
<1> DEFINE w == Job("lock", c, FALSE, err[ParentDone(c)])
<1>1. /\ work[Watch(c)].pc = "select" /\ UNCHANGED <<made, ctx, err, children, mu, timer, now>>
      /\ \/ work' = [work EXCEPT ![Watch(c)] = w]
         \/ work' = [work EXCEPT ![Watch(c)] = Idle]
  BY DEF WatcherWakes, At
<1>2. /\ work[Watch(c)].pc \in Calm /\ ContextTypeOK /\ Watch(c) \in Procs
      /\ ctx[ctx[c].parent].canceler = 0
  BY <1>1, Names DEF IInv, RInv, Removing, At, Calm, Up
<1>3. w.pc = "lock" /\ w.base = c /\ Idle.pc = "idle"
  BY DEF Job, Idle
<1>4. /\ \A o \in Procs : o # Watch(c) => work'[o] = work[o]
      /\ work'[Watch(c)] = w \/ work'[Watch(c)] = Idle
  BY <1>1, <1>2 DEF ContextTypeOK
<1>5. /\ work'[Watch(c)].pc \in {"idle", "lock"}
      /\ work'[Watch(c)].pc = "lock" => ctx[ctx[work'[Watch(c)].base].parent].canceler = 0
  <2> HIDE DEF w
  <2> QED BY <1>2, <1>3, <1>4
<1> QED BY <1>1, <1>2, <1>4, <1>5, StartsReleased

(* A new context is not in two minds: it is registered, or it has ended. *)
LEMMA GrowsReleased ==
    ASSUME IInv, RInv, NEW t \in Callers, At(t, "idle"), NEW parent, NEW r, NEW c,
           Grown(t, parent, r, c),
           \A q \in Ctxs : c \in children'[q] => err'[c] = "nil",
           work'[t].pc = "arm" => work'[t].remove /\ r.kind = "timer",
           work'[Watch(c)].pc = "select" => ctx[parent].canceler = 0
    PROVE  RInv'
<1> USE Names
<1>1. /\ Timers /\ Removing /\ Stopping /\ Forgetting
      /\ ContextTypeOK /\ Unmade /\ Tree /\ Linked /\ \A o \in Procs : Working(o)
      /\ ContextTypeOK' /\ Linked'
  BY Grows DEF RInv, IInv
<1>2. /\ c = made + 1 /\ made \in 0..MaxCtx /\ c \in Ctxs /\ c \in 0..MaxCtx /\ parent \in 0..made
      /\ parent \in 0..MaxCtx /\ parent # c
  BY <1>1, ContextAssumption DEF Grown, ContextTypeOK, Ctxs
<1>3. /\ ctx'[c] = r /\ \A d \in 0..MaxCtx : d # c => ctx'[d] = ctx[d]
      /\ r.parent = parent
  BY <1>1, <1>2 DEF Grown, ContextTypeOK
<1>4. /\ \A p \in Procs : p # t /\ p # Watch(c) => work'[p] = work[p]
      /\ \A d \in Ctxs : d # c => err'[d] = err[d]
      /\ UNCHANGED <<mu, timer>>
      /\ work'[t].pc = "idle" \/ (work'[t].pc = "arm" /\ work'[t].base = c)
      /\ work'[Watch(c)].pc \in {"idle", "select"}
      /\ \A x, d \in Ctxs : d \in children'[x] => d \in children[x] \/ d = c
  BY DEF Grown
<1>5. work[t].pc = "idle" /\ work[Watch(c)].pc = "idle" /\ ~timer[c]
  BY <1>1, <1>2, ContextAssumption DEF At, Unmade, Idle, Ctxs
<1>6. ASSUME NEW d \in Ctxs, d # c PROVE ctx'[d] = ctx[d] /\ Up(d)' = Up(d)
  <2>1. d \in 0..MaxCtx /\ ctx'[d] = ctx[d]
    BY <1>3, <1>6, ContextAssumption DEF Ctxs
  <2>2. ctx[d].parent \in 0..MaxCtx /\ ctx[d].parent # c
    <3>1. CASE d <= made
      BY <1>1, <1>2, <2>1, <3>1, Fields, ContextAssumption DEF Tree, Ctxs
    <3>2. CASE d > made
      BY <1>1, <1>2, <3>2, ContextAssumption DEF Unmade, Background, Ctxs
    <3> QED BY <1>2, <3>1, <3>2, ContextAssumption DEF Ctxs
  <2> QED BY <1>3, <2>1, <2>2 DEF Up
<1>7. \A o \in Procs : work[o].pc \in Busy \/ work'[o].pc \in Busy => work'[o] = work[o]
  BY <1>4, <1>5 DEF Busy
<1>8. Timers'
  <2>1. \A d \in Ctxs : timer[d] => ctx'[d].kind = "timer"
    BY <1>1, <1>5, <1>6 DEF Timers
  <2>2. ASSUME NEW u \in Callers, work'[u].pc = "arm" PROVE ctx'[work'[u].base].kind = "timer"
    <3>1. CASE u = t
      BY <1>3, <1>4, <2>2, <3>1
    <3>2. CASE u # t
      <4>1. work'[u] = work[u] /\ work[u].base \in 1..made
        BY <1>1, <1>2, <1>4, <2>2, <3>2 DEF Working, At
      <4>2. work[u].base \in Ctxs /\ work[u].base # c
        BY <1>2, <4>1, ContextAssumption DEF Ctxs
      <4> QED BY <1>1, <1>6, <2>2, <4>1, <4>2 DEF Timers, At
    <3> QED BY <3>1, <3>2
  <2> QED BY <1>4, <2>1, <2>2 DEF Timers, At
<1>9. Removing'
  <2>1. ASSUME NEW o \in Procs, work'[o].pc \in Busy, ~work'[o].remove
        PROVE  ctx'[ctx'[work'[o].base].parent].canceler = 0
    <3>1. work'[o] = work[o] /\ work[o].base \in Ctxs /\ work[o].base # c
      BY <1>2, <1>7, <2>1, BusyAt, ContextAssumption DEF Ctxs
    <3>2. Up(work[o].base) = 0 /\ Up(work[o].base)' = ctx'[ctx'[work'[o].base].parent].canceler
      BY <1>1, <2>1, <3>1 DEF Removing, Up
    <3>3. ctx[ctx[work[o].base].parent].canceler = ctx'[ctx'[work[o].base].parent].canceler
      BY <1>6, <3>1 DEF Up
    <3> QED BY <3>1, <3>2, <3>3 DEF Up
  <2>2. \A u \in Callers : work'[u].pc = "arm" => work'[u].remove
    BY <1>1, <1>2, <1>4 DEF Removing, At
  <2>3. ASSUME NEW d \in Ctxs, work'[Watch(d)].pc = "select" PROVE Up(d)' = 0
    <3>1. CASE d = c
      BY <1>2, <1>3, <2>3, <3>1 DEF Up
    <3>2. CASE d # c
      <4>1. work'[Watch(d)] = work[Watch(d)]
        BY <1>2, <1>4, <3>2
      <4> QED BY <1>1, <1>6, <2>3, <3>2, <4>1 DEF Removing, At
    <3> QED BY <3>1, <3>2
  <2> QED BY <2>1, <2>2, <2>3 DEF Removing, At, Up
<1>10. Stopping'
  <2> SUFFICES ASSUME NEW d \in Ctxs, timer[d], err'[d] # "nil"
               PROVE  mu[d] # Nobody \/ \E o \in Procs : work'[o].pc \in Busy /\ work'[o].at = d
    BY <1>4 DEF Stopping
  <2>1. d # c
    BY <1>5
  <2> QED BY <1>1, <1>4, <1>7, <2>1 DEF Stopping
<1>11. Forgetting'
  <2> SUFFICES ASSUME NEW d \in Ctxs, NEW q \in Ctxs, d \in children'[q],
                      ctx'[d].kind = "cancel", err'[d] # "nil"
               PROVE  mu[q] # Nobody \/ \E o \in Procs : Unlinker(o, d)'
    BY <1>4 DEF Forgetting
  <2>1. d # c
    OBVIOUS
  <2>2. d \in children[q] /\ ctx[d].kind = "cancel" /\ err[d] # "nil"
    BY <1>4, <1>6, <2>1
  <2>3. ASSUME NEW o \in Procs, Unlinker(o, d) PROVE Unlinker(o, d)'
    <3>1. work[o].pc \in Busy
      BY <2>3, CalmHoldsNothing DEF Unlinker, At, Busy
    <3> QED BY <1>4, <1>7, <2>3, <3>1 DEF Unlinker, At
  <2> QED BY <1>1, <2>2, <2>3 DEF Forgetting
<1> QED BY <1>8, <1>9, <1>10, <1>11 DEF RInv

LEMMA DerivesReleased ==
    ASSUME IInv, RInv, NEW t \in Callers, At(t, "idle"), made < MaxCtx, NEW parent \in 0..made,
           NEW kind \in {"cancel", "timer"}, NEW deadline \in 0..Never, NEW next \in Work,
           Derives(t, made + 1, parent, kind, deadline, next),
           next.why = "nil" <=> next.pc = "idle",
           \/ next.pc = "idle"
           \/ /\ next.pc = "arm" /\ next.base = made + 1 /\ next.at = made + 1
              /\ next.remove /\ kind = "timer"
    PROVE  RInv'
<1> USE Names
<1> DEFINE c == made + 1
           q == ctx[parent].canceler
           r == [kind |-> kind, parent |-> parent, canceler |-> c, done |-> c,
                 deadline |-> deadline]
           foreign == ctx[parent].done # 0 /\ ctx[parent].canceler = 0
<1>1. ContextTypeOK /\ Unmade /\ Linked
  BY DEF IInv
<1>2. c \in Ctxs /\ made \in 0..MaxCtx /\ c > made
  BY <1>1, ContextAssumption DEF ContextTypeOK, Ctxs
<1>3. Grown(t, parent, r, c)
  BY DerivesGrows
<1>4. /\ IF q = 0 THEN UNCHANGED <<err, children>> ELSE Registers(c, q)
      /\ work' = [p \in Procs |-> IF p = t THEN next
                                  ELSE IF foreign /\ p = Watch(c) THEN Job("select", c, FALSE, "nil")
                                  ELSE work[p]]
  BY DEF Derives
<1>5. err[c] = "nil" /\ work[Watch(c)] = Idle /\ \A x \in Ctxs : c \notin children[x]
  BY <1>1, <1>2, ContextAssumption DEF Unmade, Linked, Ctxs, ContextTypeOK
<1>6. \A x \in Ctxs : c \in children'[x] => err'[c] = "nil"
  BY <1>4, <1>5 DEF Registers
<1>7. work'[t] = next
  BY <1>4, Zenon
<1>8. work'[Watch(c)].pc = "select" => q = 0
  <2>1. Watch(c) \in Procs /\ t # Watch(c)
    BY <1>2
  <2>2. work'[Watch(c)] = IF foreign THEN Job("select", c, FALSE, "nil") ELSE work[Watch(c)]
    BY <1>4, <2>1, Zenon
  <2>3. Idle.pc # "select"
    BY DEF Idle
  <2>4. q # 0 => work'[Watch(c)] = Idle
    BY <1>5, <2>2
  <2> QED BY <2>3, <2>4
<1>9. work'[t].pc = "arm" => work'[t].remove /\ r.kind = "timer"
  BY <1>7
<1> HIDE DEF c, r
<1> QED BY <1>3, <1>6, <1>8, <1>9, GrowsReleased

LEMMA WrapsReleased ==
    ASSUME IInv, RInv, NEW t \in Callers, At(t, "idle"), made < MaxCtx, NEW parent \in 0..made,
           NEW kind \in {"value", "foreign"}, Wraps(parent, kind)
    PROVE  RInv'
<1> DEFINE c == made + 1
           r == [ctx[parent] EXCEPT !.kind = kind, !.parent = parent,
                                    !.canceler = IF kind = "value" THEN @ ELSE 0]
<1>1. Unmade /\ Linked /\ ContextTypeOK
  BY DEF IInv
<1>2. c \in Ctxs /\ made \in 0..MaxCtx /\ c > made
  BY <1>1, ContextAssumption DEF ContextTypeOK, Ctxs
<1>3. Grown(t, parent, r, c)
  BY WrapsGrows
<1>4. UNCHANGED <<err, children, work>>
  BY DEF Wraps
<1>5. /\ work'[Watch(c)].pc = "idle" /\ work'[t].pc = "idle"
      /\ \A x \in Ctxs : c \notin children'[x]
  BY <1>1, <1>2, <1>4, ContextAssumption DEF Unmade, Linked, Idle, At, Ctxs, ContextTypeOK
<1> HIDE DEF c, r
<1> QED BY <1>3, <1>5, GrowsReleased

LEMMA CallsReleased == ASSUME IInv, RInv, NEW t \in Callers, ContextCalls(t) PROVE RInv'
<1>1. At(t, "idle") /\ ContextTypeOK /\ made \in 0..MaxCtx
  BY DEF ContextCalls, IInv, ContextTypeOK
<1>2. CASE \E c \in Ctxs : Usable(c) /\ ctx[c].kind \in {"cancel", "timer"} /\ Cancel(t, c)
  BY <1>2, CancelReleased DEF Usable
<1>3. ASSUME made < MaxCtx, NEW parent \in 0..MaxCtx, Usable(parent),
             \/ WithCancel(t, parent)
             \/ \E d \in 0..Horizon : WithDeadline(t, parent, d)
             \/ WithValue(parent)
             \/ ForeignContext(parent)
      PROVE  RInv'
  <2>1. parent \in 0..made /\ ctx[parent].deadline \in 0..Never
    BY <1>1, <1>3, Fields, ContextAssumption DEF Usable
  <2>2. CASE WithCancel(t, parent)
    BY <1>1, <1>3, <2>1, <2>2, DerivesReleased, IdleFields DEF WithCancel
  <2>3. ASSUME NEW d \in 0..Horizon, WithDeadline(t, parent, d) PROVE RInv'
    <3>1. CASE ctx[parent].deadline < d
      BY <1>1, <1>3, <2>1, <2>3, <3>1, DerivesReleased, IdleFields DEF WithCancel, WithDeadline
    <3>2. CASE ~(ctx[parent].deadline < d)
      <4> DEFINE next == Job("arm", made + 1, TRUE, "exceeded")
      <4>1. Derives(t, made + 1, parent, "timer", d, next)
        BY <2>3, <3>2 DEF WithDeadline
      <4>2. next \in Work /\ next.pc = "arm" /\ next.base = made + 1 /\ next.at = made + 1
            /\ next.why = "exceeded" /\ next.remove
        BY <1>1, <1>3, ContextAssumption DEF Job, Work
      <4>3. d \in 0..Never
        BY ContextAssumption DEF Never
      <4> HIDE DEF next
      <4> QED BY <1>1, <1>3, <2>1, <4>1, <4>2, <4>3, DerivesReleased
    <3> QED BY <3>1, <3>2
  <2>4. CASE WithValue(parent)
    BY <1>1, <1>3, <2>1, <2>4, WrapsReleased DEF WithValue
  <2>5. CASE ForeignContext(parent)
    BY <1>1, <1>3, <2>1, <2>5, WrapsReleased DEF ForeignContext
  <2> QED BY <1>3, <2>2, <2>3, <2>4, <2>5
<1> QED BY <1>2, <1>3 DEF ContextCalls

(* The clock, and steps that change nothing. *)
LEMMA ClockReleased ==
    ASSUME RInv, UNCHANGED <<made, ctx, err, children, mu, timer, work>>
    PROVE  RInv'
<1>1. Timers' /\ Removing' /\ Stopping'
  BY DEF RInv, Timers, Removing, Stopping, At, Up
<1>2. Forgetting'
  BY DEF RInv, Forgetting, Unlinker, At
<1> QED BY <1>1, <1>2 DEF RInv

LEMMA NextReleased == IInv /\ RInv /\ [ContextNext]_ctxVars => RInv'
<1> SUFFICES ASSUME IInv, RInv, [ContextNext]_ctxVars PROVE RInv'
  OBVIOUS
<1>1. CASE \E t \in Callers : ContextCalls(t)
  BY <1>1, CallsReleased
<1>2. ASSUME NEW p \in Procs, CancelStep(p) PROVE RInv'
  BY <1>2, CancelsReleased, ArmReleased DEF CancelStep
<1>3. CASE Underway
  <2>1. CASE Tick
    BY <2>1, ClockReleased DEF Tick
  <2>2. CASE \E c \in Ctxs : TimerFires(c) \/ WatcherWakes(c)
    BY <2>2, FiresReleased, WakesReleased
  <2> QED BY <1>2, <1>3, <2>1, <2>2 DEF Underway
<1>4. CASE UNCHANGED ctxVars
  BY <1>4, ClockReleased DEF ctxVars
<1>5. CASE Rests
  BY <1>4, <1>5 DEF Rests
<1> QED BY <1>1, <1>2, <1>3, <1>4, <1>5, Names DEF ContextNext

-----------------------------------------------------------------------------
(* "Canceling this context releases resources associated with it": once    *)
(* nobody is at work on a context that has ended, its timer is stopped and *)
(* its parent does not refer to it, whoever ended it.                      *)
THEOREM EndReleasesResources == ContextSpec => []ResourcesAreReleased
<1>1. IInv /\ RInv => ResourcesAreReleased
  <2> SUFFICES ASSUME IInv, RInv PROVE ResourcesAreReleased
    OBVIOUS
  <2>1. /\ ContextTypeOK /\ Stopping /\ Forgetting
        /\ \A p \in Procs, x \in Ctxs : Holding(p, x)
    BY DEF IInv, RInv
  <2>2. NoTimerLeftBehind
    <3> SUFFICES ASSUME NEW c \in Ctxs, timer[c], err[c] # "nil"
                 PROVE  \E p \in Procs : work[p].at = c \/ (work[p].base # 0 /\ work[p].base <= c)
      BY DEF NoTimerLeftBehind
    <3>1. CASE mu[c] # Nobody
      <4>1. mu[c] \in Procs
        BY <2>1, <3>1 DEF ContextTypeOK
      <4>2. work[mu[c]].pc \in Busy /\ work[mu[c]].base <= c
        BY <2>1, <4>1 DEF Holding
      <4>3. work[mu[c]].base \in Ctxs
        BY <4>1, <4>2, BusyAt
      <4> QED BY <4>1, <4>2, <4>3, ContextAssumption DEF Ctxs
    <3>2. CASE mu[c] = Nobody
      BY <2>1, <3>2 DEF Stopping
    <3> QED BY <3>1, <3>2
  <2>3. CancelledIsForgotten
    <3> SUFFICES ASSUME NEW c \in 1..made, NEW q \in Ctxs, c \in children[q],
                        ctx[c].kind = "cancel", err[c] # "nil"
                 PROVE  mu[q] # Nobody \/ \E p \in Procs : work[p].base = c
      BY DEF CancelledIsForgotten
    <3>1. c \in Ctxs
      BY <2>1, ContextAssumption DEF ContextTypeOK, Ctxs
    <3> QED BY <2>1, <3>1 DEF Forgetting, Unlinker
  <2> QED BY <2>2, <2>3 DEF ResourcesAreReleased
<1> QED BY <1>1, InitReleases, NextReleased, InitHolds, NextHolds, PTL DEF ContextSpec

(***************************************************************************)
(* The SPDY framer                                                         *)
(***************************************************************************)

SpdyFrames == Frames \cup PeerFrames

\* What the writer's flags and block come to, with the writer known.
FlagsBy(own, f) ==
    IF own /\ f.type \in {"RstStream", "Ping", "GoAway", "WindowUpdate"} THEN 0 ELSE f.flags
NamesBy(own, f) == IF own THEN {Lower(n) : n \in f.names} ELSE f.names
BlocksBy(own, f, n) ==
    IF f.type \in HasHeaders THEN <<Block(n + 1, NamesBy(own, f))>> ELSE <<>>
HeadBy(own, f) ==
    IF f.type = "Data" THEN <<<<"stream", f.words[1]>>, <<"length", FlagsBy(own, f), f.words[2]>>>>
    ELSE <<<<"control", f.type>>,
           <<"length", FlagsBy(own, f),
             IF f.type \in HasHeaders THEN Fixed(f.type) + 8 ELSE 4 * Len(f.words)>>>>
CodedBy(own, f, n) == HeadBy(own, f) \o Body(f, BlocksBy(own, f, n))

\* The cells between the head and the blocks.
Fix(f) ==
    CASE f.type = "SynStream" ->
           <<<<"word", f.words[1]>>, <<"word", f.words[2]>>, <<"byte", (f.words[3] * 32) % 256>>,
             <<"byte", f.words[4]>>>>
      [] f.type \in HasHeaders \ {"SynStream"} -> <<<<"word", f.words[1]>>>>
      [] f.type = "Data" -> <<<<"data", f.words[2]>>>>
      [] OTHER -> [i \in DOMAIN f.words |-> <<"word", f.words[i]>>]

LEMMA CellsAreCoded ==
    ASSUME NEW f \in SpdyFrames, outEnd.buf = <<>>, ours \in BOOLEAN
    PROVE  Cells(f, Marshalled(f)) = CodedBy(ours, f, outEnd.blocks)
<1>1. CASE f.type \in HasHeaders
  <2>1. Marshalled(f) = BlocksBy(ours, f, outEnd.blocks)
    BY <1>1 DEF Marshalled, BlocksBy, NamesBy
  <2>2. PayloadLength(f, Marshalled(f)) = Fixed(f.type) + 8
    <3>1. Len(Marshalled(f)) = 1
      BY <1>1, <2>1 DEF BlocksBy
    <3> QED BY <3>1, <1>1 DEF PayloadLength, Fixed
  <2>3. f.type # "Data"
    BY <1>1 DEF HasHeaders
  <2>4. FlagsOf(f) = FlagsBy(ours, f)
    BY DEF FlagsOf, FlagsBy
  <2> QED BY <1>1, <2>1, <2>2, <2>3, <2>4 DEF Cells, CodedBy, HeadBy
<1>2. CASE f.type \notin HasHeaders
  <2>1. Marshalled(f) = BlocksBy(ours, f, outEnd.blocks)
    BY <1>2 DEF Marshalled, BlocksBy
  <2>4. FlagsOf(f) = FlagsBy(ours, f)
    BY DEF FlagsOf, FlagsBy
  <2> QED BY <1>2, <2>1, <2>4 DEF Cells, CodedBy, HeadBy, PayloadLength
<1> QED BY <1>1, <1>2

LEMMA FixIs ==
    ASSUME NEW f \in SpdyFrames
    PROVE  /\ \E S : Fix(f) \in Seq(S)
           /\ Len(Fix(f)) = IF f.type \in HasHeaders \cup {"Data"}
                            THEN IF f.type = "SynStream" THEN 4 ELSE 1 ELSE Len(f.words)
<1>1. CASE f.type = "SynStream"
  <2>1. \A a, b, c, d : <<a, b, c, d>> \in Seq({a, b, c, d}) /\ Len(<<a, b, c, d>>) = 4
    OBVIOUS
  <2>2. PICK v : v = <<"byte", (f.words[3] * 32) % 256>>
    OBVIOUS
  <2>3. PICK a, b, c : Fix(f) = <<a, b, v, c>>
    BY <1>1, <2>2 DEF Fix
  <2>4. Fix(f) \in Seq({a, b, v, c}) /\ Len(Fix(f)) = 4
    BY ONLY <2>1, <2>3
  <2> QED BY <1>1, <2>4 DEF HasHeaders
<1>2. CASE f.type \in {"SynReply", "Headers"}
  <2>1. \A a : <<a>> \in Seq({a}) /\ Len(<<a>>) = 1
    OBVIOUS
  <2>2. Fix(f) = <<<<"word", f.words[1]>>>>
    BY <1>2 DEF Fix, HasHeaders
  <2> QED BY <1>2, <2>1, <2>2 DEF HasHeaders
<1>3. CASE f.type = "Data"
  <2>1. \A a : <<a>> \in Seq({a}) /\ Len(<<a>>) = 1
    OBVIOUS
  <2>2. Fix(f) = <<<<"data", f.words[2]>>>>
    BY <1>3 DEF Fix, HasHeaders
  <2> QED BY <1>3, <2>1, <2>2 DEF HasHeaders
<1>4. CASE f.type \notin HasHeaders \cup {"Data"}
  <2>1. f.words \in Seq(Nat) /\ DOMAIN f.words = 1..Len(f.words) /\ Len(f.words) \in Nat
    BY FramesFit DEF SpdyFrames
  <2>2. Fix(f) = [i \in DOMAIN f.words |-> <<"word", f.words[i]>>]
    BY <1>4 DEF Fix, HasHeaders
  <2>3. Fix(f) \in [1..Len(f.words) -> {<<"word", f.words[i]>> : i \in 1..Len(f.words)}]
    BY <2>1, <2>2
  <2>4. \A S, n, g : n \in Nat /\ g \in [1..n -> S] => g \in Seq(S) /\ Len(g) = n
    OBVIOUS
  <2>5. Fix(f) \in Seq({<<"word", f.words[i]>> : i \in 1..Len(f.words)}) /\ Len(Fix(f)) = Len(f.words)
    BY ONLY <2>1, <2>3, <2>4
  <2> QED BY <2>5, <1>4 DEF HasHeaders
<1> QED BY <1>1, <1>2, <1>3, <1>4 DEF HasHeaders

\* What a frame looks like on the wire, cell by cell.
LengthBy(f) ==
    IF f.type = "Data" THEN f.words[2]
    ELSE IF f.type \in HasHeaders THEN Fixed(f.type) + 8 ELSE 4 * Len(f.words)
IsCoded(c, own, f, n) ==
    /\ \E S : c \in Seq(S)
    /\ Len(c) = 2 + Len(Fix(f)) + (IF f.type \in HasHeaders THEN 1 ELSE 0)
    /\ Len(Fix(f)) \in Nat
    /\ c[1] = IF f.type = "Data" THEN <<"stream", f.words[1]>> ELSE <<"control", f.type>>
    /\ c[2] = <<"length", FlagsBy(own, f), LengthBy(f)>>
    /\ \A i \in 1..Len(Fix(f)) : c[i + 2] = Fix(f)[i]
    /\ f.type \in HasHeaders => c[3 + Len(Fix(f))] = Block(n + 1, NamesBy(own, f))

LEMMA CodedIs ==
    ASSUME NEW f \in SpdyFrames, NEW own \in BOOLEAN, NEW n
    PROVE  IsCoded(CodedBy(own, f, n), own, f, n)
<1> DEFINE h == HeadBy(own, f)
           b == BlocksBy(own, f, n)
           c == CodedBy(own, f, n)
           x == Fix(f)
<1>1. PICK S : x \in Seq(S)
  BY FixIs
<1>2. PICK a, d : h = <<a, d>> /\ a = (IF f.type = "Data" THEN <<"stream", f.words[1]>> ELSE <<"control", f.type>>)
         /\ d = <<"length", FlagsBy(own, f), LengthBy(f)>>
  BY DEF HeadBy, LengthBy
<1>3. PICK z : z = Block(n + 1, NamesBy(own, f))
  OBVIOUS
<1> DEFINE T == S \cup {a, d, z}
<1> HIDE DEF T
<1>t. S \subseteq T /\ a \in T /\ d \in T /\ z \in T
  BY DEF T
<1>4. h \in Seq(T) /\ Len(h) = 2 /\ h[1] = a /\ h[2] = d
  BY <1>2, <1>t
<1>5. b \in Seq(T) /\ Len(b) = (IF f.type \in HasHeaders THEN 1 ELSE 0)
       /\ (f.type \in HasHeaders => b = <<z>> /\ b[1] = z)
  BY <1>3, <1>t DEF BlocksBy
<1>6. x \in Seq(T) /\ Len(x) \in Nat
  BY <1>1, <1>t, SeqMonotonic, LenProperties
<1>7. Body(f, b) = x \o b
  <2>1. CASE f.type \in HasHeaders
    BY <2>1 DEF Body, Fix, HasHeaders
  <2>2. CASE f.type \notin HasHeaders
    <3>1. Body(f, b) = x
      BY <2>2 DEF Body, Fix, HasHeaders
    <3>2. b = <<>>
      BY <2>2 DEF BlocksBy
    <3> QED BY <3>1, <3>2, <1>6, ConcatEmptySeq
  <2> QED BY <2>1, <2>2
<1>8. c = h \o (x \o b)
  BY <1>7 DEF CodedBy
<1> HIDE DEF h, b, c, x
<1>9. /\ x \o b \in Seq(T) /\ Len(x \o b) = Len(x) + Len(b)
      /\ \A i \in 1..Len(x) + Len(b) : (x \o b)[i] = IF i <= Len(x) THEN x[i] ELSE b[i - Len(x)]
  BY <1>5, <1>6, ConcatProperties
<1>10. /\ c \in Seq(T) /\ Len(c) = 2 + Len(x) + Len(b)
       /\ \A i \in 1..2 + Len(x) + Len(b) : c[i] = IF i <= 2 THEN h[i] ELSE (x \o b)[i - 2]
  <2>1. /\ c \in Seq(T) /\ Len(c) = Len(h) + Len(x \o b)
        /\ \A i \in 1..Len(h) + Len(x \o b) : c[i] = IF i <= Len(h) THEN h[i] ELSE (x \o b)[i - Len(h)]
    BY <1>4, <1>8, <1>9, ConcatProperties
  <2>2. Len(h) = 2 /\ Len(x \o b) = Len(x) + Len(b)
    BY <1>4, <1>9
  <2>3. Len(h) + Len(x \o b) = 2 + Len(x) + Len(b)
    BY <2>2, <1>5, <1>6
  <2> QED BY ONLY <2>1, <2>2, <2>3
<1>11. c[1] = a /\ c[2] = d
  BY <1>10, <1>4, <1>5, <1>6
<1>12. \A i \in 1..Len(x) : c[i + 2] = x[i]
  <2> TAKE i \in 1..Len(x)
  <2>1. i + 2 \in 1..2 + Len(x) + Len(b) /\ ~(i + 2 <= 2) /\ i + 2 - 2 = i /\ i \in 1..Len(x) + Len(b)
    BY <1>5, <1>6
  <2> QED BY <2>1, <1>9, <1>10
<1>13. f.type \in HasHeaders => c[3 + Len(x)] = z
  <2> SUFFICES ASSUME f.type \in HasHeaders PROVE c[3 + Len(x)] = z
    OBVIOUS
  <2>1. Len(b) = 1 /\ b[1] = z
    BY <1>5
  <2>2. 3 + Len(x) \in 1..2 + Len(x) + Len(b) /\ ~(3 + Len(x) <= 2) /\ 3 + Len(x) - 2 = 1 + Len(x)
    BY <1>6, <2>1
  <2>3. 1 + Len(x) \in 1..Len(x) + Len(b) /\ ~(1 + Len(x) <= Len(x)) /\ 1 + Len(x) - Len(x) = 1
    BY <1>6, <2>1
  <2> QED BY <2>1, <2>2, <2>3, <1>9, <1>10
<1>14. IsCoded(c, own, f, n)
  BY <1>2, <1>3, <1>5, <1>6, <1>10, <1>11, <1>12, <1>13 DEF x, IsCoded
<1> QED BY <1>14 DEF c

\* The cells of a frame stay as they are while the writer is the same.
LEMMA CodedKept ==
    ASSUME NEW f, NEW n, ours' = ours
    PROVE  CodedBy(ours, f, n)' = CodedBy(ours, f, n)
<1>1. /\ HeadBy(ours, f)' = HeadBy(ours, f)
      /\ BlocksBy(ours, f, n)' = BlocksBy(ours, f, n)
  BY DEF HeadBy, BlocksBy, NamesBy, FlagsBy
<1> QED BY <1>1 DEF CodedBy, Body

LEMMA CodedSeq ==
    \A f \in SpdyFrames, own \in BOOLEAN : \A n :
        /\ \E S : CodedBy(own, f, n) \in Seq(S)
        /\ Len(CodedBy(own, f, n)) \in Nat /\ Len(CodedBy(own, f, n)) >= 2
<1> SUFFICES ASSUME NEW f \in SpdyFrames, NEW own \in BOOLEAN, NEW n
             PROVE  /\ \E S : CodedBy(own, f, n) \in Seq(S)
                    /\ Len(CodedBy(own, f, n)) \in Nat /\ Len(CodedBy(own, f, n)) >= 2
  OBVIOUS
<1> DEFINE c == CodedBy(own, f, n)
<1>1. /\ \E S : c \in Seq(S)
      /\ Len(c) = 2 + Len(Fix(f)) + (IF f.type \in HasHeaders THEN 1 ELSE 0)
      /\ Len(Fix(f)) \in Nat
  <2>1. IsCoded(c, own, f, n)
    BY CodedIs
  <2> QED BY <2>1 DEF IsCoded
<1> HIDE DEF c
<1>2. Len(c) \in Nat /\ Len(c) >= 2
  BY <1>1
<1> QED BY <1>1, <1>2 DEF c

\* What the other end should make of a frame, with the writer known.
WordsBy(f) == IF f.type = "SynStream" THEN [f.words EXCEPT ![3] = @ % 8] ELSE f.words
MeansBy(own, f) == Frame(f.type, WordsBy(f), {Lower(n) : n \in f.names}, FlagsBy(own, f))

LEMMA MeansIs ==
    ASSUME NEW f \in SpdyFrames, ours \in BOOLEAN
    PROVE  Means(f) = MeansBy(ours, f)
BY DEF Means, MeansBy, WordsBy, FlagsOf, FlagsBy

\* What the reader makes of the cells before the blocks.
LEMMA WordsAre ==
    ASSUME NEW f \in SpdyFrames, f.type \in Control
    PROVE  Decoded(f.type, Words(Fix(f))) = WordsBy(f)
<1>1. f.words \in Seq(Nat) /\ DOMAIN f.words = 1..Len(f.words) /\ Len(f.words) \in Nat
       /\ Len(f.words) = WordsIn(f) /\ \A i \in DOMAIN f.words : f.words[i] \in Nat
  BY FramesFit DEF SpdyFrames
<1>2. CASE f.type = "SynStream"
  <2>1. Len(f.words) = 4
    BY <1>1, <1>2 DEF WordsIn
  <2> DEFINE x == Fix(f)
  <2>2. x = <<<<"word", f.words[1]>>, <<"word", f.words[2]>>,
              <<"byte", (f.words[3] * 32) % 256>>, <<"byte", f.words[4]>>>>
    BY <1>2 DEF Fix
  <2>3. PICK u : u = (f.words[3] * 32) % 256
    OBVIOUS
  <2>4. u \in Nat /\ u \div 32 = f.words[3] % 8
    <3>1. f.words[3] \in Nat
      BY <1>1, <2>1
    <3>2. \A v \in Nat : (v * 32) % 256 = (v % 8) * 32 /\ v % 8 \in Nat
      OBVIOUS
    <3>3. \A v \in Nat : (v * 32) \div 32 = v
      OBVIOUS
    <3> QED BY <2>3, <3>1, <3>2, <3>3
  <2>5. Words(x) = <<f.words[1], f.words[2], u, f.words[4]>>
    BY <2>2, <2>3 DEF Words
  <2>6. Decoded(f.type, Words(x)) = <<f.words[1], f.words[2], u \div 32, f.words[4]>>
    BY <1>2, <2>5 DEF Decoded
  <2>7. WordsBy(f) = <<f.words[1], f.words[2], f.words[3] % 8, f.words[4]>>
    <3>1. PICK v : v = f.words[3] % 8
      OBVIOUS
    <3>2. v \in Nat
      <4>1. f.words[3] \in Nat
        BY <1>1, <2>1
      <4>2. \A q \in Nat : q % 8 \in Nat
        OBVIOUS
      <4> QED BY ONLY <3>1, <4>1, <4>2
    <3> DEFINE y == [f.words EXCEPT ![3] = v]
               z == <<f.words[1], f.words[2], v, f.words[4]>>
    <3>3. y \in Seq(Nat) /\ Len(y) = 4
          /\ \A j \in 1..4 : y[j] = IF j = 3 THEN v ELSE f.words[j]
      <4> DEFINE w == f.words
      <4>1. w \in [1..4 -> Nat]
        BY <1>1, <2>1
      <4> HIDE DEF w
      <4>2. y \in [1..4 -> Nat] /\ \A j \in 1..4 : y[j] = IF j = 3 THEN v ELSE w[j]
        BY ONLY <4>1, <3>2 DEF w
      <4>3. \A n, g : n \in Nat /\ g \in [1..n -> Nat] => g \in Seq(Nat) /\ Len(g) = n
        OBVIOUS
      <4> HIDE DEF y
      <4> QED BY ONLY <4>2, <4>3 DEF w
    <3>4. z \in Seq(Nat) /\ Len(z) = 4
      BY <1>1, <2>1, <3>2
    <3>5. \A j \in 1..4 : j = 1 \/ j = 2 \/ j = 3 \/ j = 4
      OBVIOUS
    <3>6. \A j \in 1..4 : y[j] = z[j]
      <4> TAKE j \in 1..4
      <4>1. j = 1 \/ j = 2 \/ j = 3 \/ j = 4
        BY <3>5
      <4>2. y[j] = IF j = 3 THEN v ELSE f.words[j]
        BY <3>3
      <4> QED BY <4>1, <4>2
    <3>7. y = z
      BY <3>3, <3>4, <3>6, SeqEqual
    <3>8. WordsBy(f) = y
      BY <1>2, <3>1 DEF WordsBy
    <3> QED BY <3>1, <3>7, <3>8
  <2> QED BY <2>4, <2>6, <2>7
<1>3. CASE f.type \in {"SynReply", "Headers"}
  <2>1. Len(f.words) = 1
    BY <1>1, <1>3 DEF WordsIn
  <2>2. Fix(f) = <<<<"word", f.words[1]>>>>
    BY <1>3 DEF Fix, HasHeaders
  <2>3. Words(Fix(f)) = f.words
    BY <1>1, <2>1, <2>2 DEF Words
  <2> QED BY <1>3, <2>3 DEF Decoded, WordsBy
<1>4. CASE f.type \notin HasHeaders
  <2>1. Fix(f) = [i \in DOMAIN f.words |-> <<"word", f.words[i]>>]
    BY <1>4 DEF Fix, HasHeaders, Control
  <2>2. Words(Fix(f)) = f.words
    <3>1. Words(Fix(f)) = [i \in DOMAIN f.words |-> f.words[i]]
      BY <2>1 DEF Words
    <3>2. f.words = [i \in DOMAIN f.words |-> f.words[i]]
      BY <1>1
    <3> QED BY <3>1, <3>2
  <2> QED BY <1>4, <2>2 DEF Decoded, WordsBy, HasHeaders
<1> QED BY <1>2, <1>3, <1>4 DEF HasHeaders

\* The errors about the contents of a frame, and a frame without any of them.
LEMMA LowerTwice == \A n : Lower(Lower(n)) = Lower(n)
BY DEF Lower

LEMMA VerdictIsRight ==
    ASSUME NEW f \in SpdyFrames, NEW own \in BOOLEAN, f.type \in Control,
           NEW flags, flags = FlagsBy(own, f)
    PROVE  LET names == IF f.type \in HasHeaders THEN NamesBy(own, f) ELSE {}
               verdict == Verdict(f.type, WordsBy(f), flags, names)
               result == IF verdict # "none" THEN ErrorOf(verdict)
                         ELSE Frame(f.type, WordsBy(f), names, flags)
           IN NoError(result) => result = MeansBy(own, f)
<1> DEFINE names == IF f.type \in HasHeaders THEN NamesBy(own, f) ELSE {}
           verdict == Verdict(f.type, WordsBy(f), flags, names)
           result == IF verdict # "none" THEN ErrorOf(verdict)
                     ELSE Frame(f.type, WordsBy(f), names, flags)
<1> SUFFICES ASSUME NoError(result) PROVE result = MeansBy(own, f)
  OBVIOUS
<1>1. verdict = "none" /\ \A n \in names : Lower(n) = n
  <2>1. verdict \in {"UnlowercasedHeaderName", "InvalidHeaderPresent", "InvalidControlFrame",
                     "ZeroStreamId", "none"}
    BY DEF Verdict
  <2>2. \A code \in {"UnlowercasedHeaderName", "InvalidHeaderPresent", "InvalidControlFrame",
                     "ZeroStreamId"} : ~NoError(ErrorOf(code))
    BY DEF NoError, ErrorOf, Control, HasHeaders
  <2>3. verdict = "none"
    BY <2>1, <2>2
  <2> QED BY <2>3 DEF Verdict
<1>2. names = {Lower(n) : n \in f.names}
  <2>1. CASE f.type \notin HasHeaders
    BY <2>1, FramesFit DEF SpdyFrames
  <2>2. CASE f.type \in HasHeaders /\ own
    BY <2>2 DEF NamesBy
  <2>3. CASE f.type \in HasHeaders /\ ~own
    <3>1. names = f.names
      BY <2>3 DEF NamesBy
    <3> QED BY <3>1, <1>1
  <2> QED BY <2>1, <2>2, <2>3
<1> QED BY <1>1, <1>2 DEF MeansBy

-----------------------------------------------------------------------------
(* Reading a frame whose cells are all at the front of the wire. *)

AtFront(f, n) ==
    /\ \E S : wire \in Seq(S)
    /\ Len(CodedBy(ours, f, n)) <= Len(wire)
    /\ \A j \in 1..Len(CodedBy(ours, f, n)) : wire[j] = CodedBy(ours, f, n)[j]

FrontCells(f, n) ==
    LET k == Len(Fix(f))
        m == IF f.type \in HasHeaders THEN 1 ELSE 0
    IN /\ k \in Nat /\ Len(wire) \in Nat
       /\ Len(CodedBy(ours, f, n)) = 2 + k + m
       /\ Len(wire) >= 2 + k + m
       /\ wire[1] = IF f.type = "Data" THEN <<"stream", f.words[1]>> ELSE <<"control", f.type>>
       /\ wire[2] = <<"length", FlagsBy(ours, f), LengthBy(f)>>
       /\ SubSeq(wire, 3, k + 2) = Fix(f)
       /\ SubSeq(wire, k + 3, k + m + 2) = BlocksBy(ours, f, n)
       /\ \A i \in 1..k : wire[i + 2] = Fix(f)[i]

LEMMA SubSeqOne ==
    ASSUME NEW S, NEW s, NEW q \in Int, s[q] \in S
    PROVE  /\ SubSeq(s, q, q) \in Seq(S) /\ Len(SubSeq(s, q, q)) = 1
           /\ SubSeq(s, q, q)[1] = s[q]
<1>1. q \in Int /\ \A i \in q..q : s[i] \in S
  OBVIOUS
<1>2. /\ SubSeq(s, q, q) \in Seq(S)
      /\ Len(SubSeq(s, q, q)) = IF q <= q THEN q - q + 1 ELSE 0
      /\ \A i \in 1..q - q + 1 : SubSeq(s, q, q)[i] = s[q + i - 1]
  BY ONLY <1>1, SMTT(30)
<1>3. q <= q /\ q - q + 1 = 1 /\ q + 1 - 1 = q
  OBVIOUS
<1> QED BY ONLY <1>1, <1>2, <1>3

LEMMA FrontIs ==
    ASSUME NEW f \in SpdyFrames, NEW n, ours \in BOOLEAN, AtFront(f, n)
    PROVE  FrontCells(f, n)
<1> DEFINE c == CodedBy(ours, f, n)
           k == Len(Fix(f))
           m == IF f.type \in HasHeaders THEN 1 ELSE 0
<1>1. PICK S : wire \in Seq(S)
  BY DEF AtFront
<1>2. PICK T : Fix(f) \in Seq(T)
  BY FixIs
<1>3. /\ k \in Nat /\ m \in {0, 1}
      /\ Len(c) = 2 + k + m
      /\ c[1] = (IF f.type = "Data" THEN <<"stream", f.words[1]>> ELSE <<"control", f.type>>)
      /\ c[2] = <<"length", FlagsBy(ours, f), LengthBy(f)>>
      /\ \A i \in 1..k : c[i + 2] = Fix(f)[i]
      /\ f.type \in HasHeaders => c[3 + k] = Block(n + 1, NamesBy(ours, f))
  <2>1. m \in {0, 1}
    OBVIOUS
  <2>2. IsCoded(c, ours, f, n)
    BY CodedIs
  <2> HIDE DEF c, m
  <2> QED BY ONLY <2>1, <2>2 DEF IsCoded, k, m
<1>4. Len(wire) \in Nat /\ Len(c) <= Len(wire) /\ \A j \in 1..Len(c) : wire[j] = c[j]
  BY <1>1, LenProperties DEF AtFront
<1> HIDE DEF c, k, m
<1>5. wire[1] = c[1] /\ wire[2] = c[2]
  BY <1>3, <1>4
<1>6. \A i \in 1..k : wire[i + 2] = Fix(f)[i]
  <2> TAKE i \in 1..k
  <2>1. i + 2 \in 1..Len(c)
    BY <1>3
  <2> QED BY <2>1, <1>3, <1>4
<1>7. SubSeq(wire, 3, k + 2) = Fix(f)
  <2> DEFINE a == SubSeq(wire, 3, k + 2)
  <2>1. \A i \in 3..k + 2 : wire[i] \in S
    BY <1>1, <1>3, <1>4, ElementOfSeq
  <2>2. /\ a \in Seq(S)
        /\ Len(a) = (IF 3 <= k + 2 THEN k + 2 - 3 + 1 ELSE 0)
        /\ \A i \in 1..k + 2 - 3 + 1 : a[i] = wire[3 + i - 1]
    BY <2>1, <1>3, SubSeqProperties
  <2>3. Len(a) = k
    BY <2>2, <1>3
  <2>4. \A i \in 1..k : a[i] = Fix(f)[i]
    <3> TAKE i \in 1..k
    <3>1. i \in 1..k + 2 - 3 + 1 /\ 3 + i - 1 = i + 2
      BY <1>3
    <3> QED BY <3>1, <2>2, <1>6
  <2>5. a \in Seq(S \cup T) /\ Fix(f) \in Seq(S \cup T)
    BY <2>2, <1>2, SeqMonotonic
  <2> HIDE DEF a
  <2>6. a = Fix(f)
    BY <2>3, <2>4, <2>5, SeqEqual DEF k
  <2> QED BY <2>6 DEF a
<1>8. SubSeq(wire, k + 3, k + m + 2) = BlocksBy(ours, f, n)
  <2>1. CASE f.type \notin HasHeaders
    <3>1. m = 0 /\ BlocksBy(ours, f, n) = <<>>
      BY <2>1 DEF m, BlocksBy
    <3> QED BY <3>1, <1>3, SubSeqEmpty
  <2>2. CASE f.type \in HasHeaders
    <3>1. m = 1
      BY <2>2 DEF m
    <3>2. k + 3 \in 1..Len(c) /\ k + 3 = 3 + k
      BY <3>1, <1>3
    <3>3. wire[k + 3] = Block(n + 1, NamesBy(ours, f))
      BY <3>2, <1>3, <1>4, <2>2
    <3>4. wire[k + 3] \in S
      BY <3>2, <1>1, <1>4, <1>3, ElementOfSeq
    <3> DEFINE a == SubSeq(wire, k + 3, k + m + 2)
    <3>5. a \in Seq(S) /\ Len(a) = 1 /\ a[1] = wire[k + 3]
      <4>1. k + m + 2 = k + 3 /\ k + 3 \in Int
        BY <3>1, <1>3
      <4>2. a = SubSeq(wire, k + 3, k + 3)
        BY <4>1
      <4> QED BY <4>1, <4>2, <3>4, SubSeqOne
    <3> HIDE DEF a
    <3>6. a = <<wire[k + 3]>>
      BY <3>5
    <3> QED BY <3>6, <3>3, <2>2 DEF a, BlocksBy
  <2> QED BY <2>1, <2>2
<1> QED BY <1>3, <1>4, <1>5, <1>6, <1>7, <1>8 DEF c, k, m, FrontCells, LengthBy

\* The reader of a type takes the cells that the writer of the type puts there.
LEMMA WantsIs ==
    ASSUME NEW f \in SpdyFrames, f.type \in Control,
           f.type = "Settings" => NumSettings = f.words[1]
    PROVE  Wants(f.type) = Kinds(Fix(f)) /\ Len(Wants(f.type)) = Len(Fix(f))
<1>1. f.words \in Seq(Nat) /\ DOMAIN f.words = 1..Len(f.words) /\ Len(f.words) \in Nat
       /\ Len(f.words) = WordsIn(f) /\ \A i \in DOMAIN f.words : f.words[i] \in Nat
  BY FramesFit DEF SpdyFrames
<1>2. CASE f.type = "SynStream"
  <2>1. PICK u : u = (f.words[3] * 32) % 256
    OBVIOUS
  <2>2. Fix(f) = <<<<"word", f.words[1]>>, <<"word", f.words[2]>>, <<"byte", u>>,
                   <<"byte", f.words[4]>>>>
    BY <1>2, <2>1 DEF Fix
  <2>3. Kinds(Fix(f)) = <<"word", "word", "byte", "byte">>
    BY <2>2 DEF Kinds
  <2> QED BY <1>2, <2>2, <2>3 DEF Wants
<1>3. CASE f.type \in {"SynReply", "Headers"}
  <2>2. Fix(f) = <<<<"word", f.words[1]>>>>
    BY <1>3 DEF Fix, HasHeaders
  <2>3. Kinds(Fix(f)) = <<"word">>
    BY <2>2 DEF Kinds
  <2> QED BY <1>3, <2>2, <2>3 DEF Wants
<1>4. CASE f.type \notin HasHeaders
  <2>1. Fix(f) = [i \in DOMAIN f.words |-> <<"word", f.words[i]>>]
    BY <1>4 DEF Fix, HasHeaders, Control
  <2>2. Kinds(Fix(f)) = [i \in 1..Len(f.words) |-> "word"]
    BY <1>1, <2>1 DEF Kinds
  <2>3. Len(Fix(f)) = Len(f.words)
    BY <1>4, FixIs DEF HasHeaders, Control
  <2>4. CASE f.type \in {"RstStream", "GoAway", "WindowUpdate"}
    <3>1. Len(f.words) = 2
      BY <1>1, <2>4 DEF WordsIn
    <3>2. Kinds(Fix(f)) = <<"word", "word">>
      BY <2>2, <3>1
    <3> QED BY <2>3, <2>4, <3>1, <3>2 DEF Wants
  <2>5. CASE f.type = "Ping"
    <3>1. Len(f.words) = 1
      BY <1>1, <2>5 DEF WordsIn
    <3>2. Kinds(Fix(f)) = <<"word">>
      BY <2>2, <3>1
    <3> QED BY <2>3, <2>5, <3>1, <3>2 DEF Wants
  <2>6. CASE f.type = "Settings"
    <3>1. Len(f.words) = 1 + 2 * f.words[1]
      BY <1>1, <2>6 DEF WordsIn
    <3>2. f.words[1] \in Nat /\ Len(f.words) >= 1
      <4>1. f.words # <<>>
        BY <2>6, FramesFit DEF SpdyFrames
      <4>2. Len(f.words) >= 1
        BY <4>1, <1>1, EmptySeq
      <4> QED BY <4>2, <1>1
    <3>4. NumSettings = f.words[1]
      BY <2>6
    <3> DEFINE v == f.words[1]
               rest == [i \in 1..2 * v |-> "word"]
               one == <<"word">>
    <3>5. Wants(f.type) = one \o rest
      BY <2>6, <3>4 DEF Wants
    <3> HIDE DEF v, rest, one
    <3>6. one \in Seq({"word"}) /\ Len(one) = 1 /\ one[1] = "word"
      BY DEF one
    <3>7. rest \in Seq({"word"}) /\ Len(rest) = 2 * v /\ \A i \in 1..2 * v : rest[i] = "word"
      <4>1. rest \in [1..2 * v -> {"word"}] /\ 2 * v \in Nat
        BY <3>2 DEF rest, v
      <4>2. \A S, p, g : p \in Nat /\ g \in [1..p -> S] => g \in Seq(S) /\ Len(g) = p
        OBVIOUS
      <4> QED BY <4>1, <4>2 DEF rest
    <3>v. v \in Nat
      BY <3>2 DEF v
    <3>8. (one \o rest) \in Seq({"word"}) /\ Len(one \o rest) = 1 + 2 * v
      <4>1. (one \o rest) \in Seq({"word"}) /\ Len(one \o rest) = Len(one) + Len(rest)
        BY ONLY <3>6, <3>7, ConcatProperties
      <4> QED BY ONLY <4>1, <3>6, <3>7, <3>v
    <3>9. \A i \in 1..1 + 2 * v : (one \o rest)[i] = "word"
      BY <3>8, ElementOfSeq
    <3>10. Kinds(Fix(f)) \in Seq({"word"}) /\ Len(Kinds(Fix(f))) = 1 + 2 * v
           /\ \A i \in 1..1 + 2 * v : Kinds(Fix(f))[i] = "word"
      <4>1. Kinds(Fix(f)) \in [1..1 + 2 * v -> {"word"}] /\ 1 + 2 * v \in Nat
        BY <3>2, <3>1, <2>2 DEF v
      <4>2. \A S, p, g : p \in Nat /\ g \in [1..p -> S] => g \in Seq(S) /\ Len(g) = p
        OBVIOUS
      <4> QED BY <4>1, <4>2
    <3>11. one \o rest = Kinds(Fix(f))
      BY <3>8, <3>9, <3>10, SeqEqual
    <3> QED BY <3>1, <3>5, <3>8, <3>11, <2>3 DEF v
  <2> QED BY <1>4, <2>4, <2>5, <2>6 DEF Control
<1> QED BY <1>2, <1>3, <1>4 DEF HasHeaders

\* SETTINGS says how many settings follow.
LEMMA SettingsAre ==
    ASSUME NEW f \in SpdyFrames, f.type = "Settings"
    PROVE  Len(Fix(f)) = 1 + 2 * f.words[1] /\ f.words[1] \in Nat /\ Fix(f)[1] = <<"word", f.words[1]>>
<1>1. /\ f.words \in Seq(Nat) /\ DOMAIN f.words = 1..Len(f.words) /\ Len(f.words) \in Nat
      /\ Len(f.words) = 1 + 2 * f.words[1] /\ f.words # <<>>
  BY FramesFit DEF SpdyFrames, WordsIn
<1>2. 1 \in DOMAIN f.words /\ f.words[1] \in Nat
  BY <1>1, EmptySeq
<1>3. Fix(f) = [i \in DOMAIN f.words |-> <<"word", f.words[i]>>]
  BY DEF Fix, HasHeaders
<1>4. Len(Fix(f)) = Len(f.words)
  BY FixIs DEF HasHeaders
<1> QED BY <1>1, <1>2, <1>3, <1>4

LEMMA SettingsAtFront ==
    ASSUME NEW f \in SpdyFrames, NEW n, ours \in BOOLEAN, AtFront(f, n), f.type = "Settings"
    PROVE  NumSettings = f.words[1]
<1>1. FrontCells(f, n)
  BY FrontIs
<1>2. Len(Fix(f)) = 1 + 2 * f.words[1] /\ f.words[1] \in Nat /\ Fix(f)[1] = <<"word", f.words[1]>>
  BY SettingsAre
<1>3. 1 \in 1..Len(Fix(f)) /\ Len(wire) \in Nat /\ Len(wire) >= 3
  <2>1. Len(Fix(f)) \in Nat /\ Len(Fix(f)) >= 1
    BY <1>2
  <2>2. Len(wire) \in Nat /\ Len(wire) >= 2 + Len(Fix(f)) + 0
    BY <1>1 DEF FrontCells, HasHeaders
  <2> QED BY <2>1, <2>2
<1>4. wire[1 + 2] = <<"word", f.words[1]>>
  BY <1>1, <1>2, <1>3 DEF FrontCells
<1> QED BY <1>3, <1>4 DEF NumSettings

Result(f) ==
    LET names == IF f.type \in HasHeaders THEN NamesBy(ours, f) ELSE {}
        verdict == Verdict(f.type, WordsBy(f), FlagsBy(ours, f), names)
    IN IF verdict # "none" THEN ErrorOf(verdict)
       ELSE Frame(f.type, WordsBy(f), names, FlagsBy(ours, f))

LEMMA PayloadIsRead ==
    ASSUME NEW f \in SpdyFrames, NEW n \in Nat, ours \in BOOLEAN, AtFront(f, n), f.type \in Control,
           inEnd = [input |-> <<>>, blocks |-> n],
           NEW length, length = LengthBy(f),
           ~Leaves(f.type, FlagsBy(ours, f), length),
           ReadsPayload(f.type, FlagsBy(ours, f), length)
    PROVE  /\ UNCHANGED lost
           /\ wire' = SubSeq(wire, Len(CodedBy(ours, f, n)) + 1, Len(wire))
           /\ inEnd' = [input |-> <<>>, blocks |-> IF f.type \in HasHeaders THEN n + 1 ELSE n]
           /\ returned' = Append(returned, Result(f))
<1> DEFINE k == Len(Fix(f))
           m == IF f.type \in HasHeaders THEN 1 ELSE 0
           kinds == Kinds(Fix(f))
           fixed == SubSeq(wire, 3, k + 2)
           blocks == SubSeq(wire, k + 3, k + m + 2)
           names == IF f.type \in HasHeaders THEN NamesBy(ours, f) ELSE {}
<1>0. FrontCells(f, n)
  BY FrontIs
<1>1. Takes(f.type, FlagsBy(ours, f), length) = kinds /\ Len(kinds) = k
  BY WantsIs, SettingsAtFront DEF Takes
<1>2. BlocksIn(f.type, length) = m
  <2>1. Fixed(f.type) \in Nat
    BY DEF Fixed
  <2>2. \A x \in Nat : (x + 8 - x) \div 8 = 1
    OBVIOUS
  <2>3. f.type # "Data"
    BY DEF Control, HasHeaders
  <2> QED BY <2>1, <2>2, <2>3 DEF BlocksIn, LengthBy
<1>3. /\ k \in Nat /\ Len(CodedBy(ours, f, n)) = 2 + k + m
      /\ fixed = Fix(f) /\ blocks = BlocksBy(ours, f, n)
  BY <1>0 DEF FrontCells
<1>4. Kinds(fixed) = kinds
  BY <1>3
<1>5. ~\E i \in DOMAIN blocks : blocks[i][1] # "block"
  <2>1. CASE f.type \in HasHeaders
    <3>1. PICK z : z = Block(n + 1, NamesBy(ours, f))
      OBVIOUS
    <3>2. blocks = <<z>> /\ z[1] = "block"
      BY <2>1, <1>3, <3>1 DEF BlocksBy, Block
    <3> HIDE DEF blocks
    <3> QED BY <3>2
  <2>2. CASE f.type \notin HasHeaders
    BY <2>2, <1>3 DEF BlocksBy
  <2> QED BY <2>1, <2>2
<1>6. Decoded(f.type, Words(fixed)) = WordsBy(f)
  BY <1>3, WordsAre
<1>7. f.type \in HasHeaders =>
        /\ Head(Input(blocks))[3] = NamesBy(ours, f)
        /\ Tail(Input(blocks)) = <<>>
  <2> SUFFICES ASSUME f.type \in HasHeaders
               PROVE  /\ Head(Input(blocks))[3] = NamesBy(ours, f)
                      /\ Tail(Input(blocks)) = <<>>
    OBVIOUS
  <2>1. PICK z : z = Block(n + 1, NamesBy(ours, f))
    OBVIOUS
  <2>2. BlocksBy(ours, f, n) = <<z>>
    BY <2>1 DEF BlocksBy
  <2>3. Input(blocks) = <<>> \o <<z>>
    BY <2>2, <1>3 DEF Input
  <2>4. <<z>> \in Seq({z})
    OBVIOUS
  <2>5. Input(blocks) = <<z>>
    BY <2>3, <2>4, ConcatEmptySeq
  <2>6. Head(<<z>>) = z /\ Tail(<<z>>) = <<>>
    OBVIOUS
  <2>7. z[3] = NamesBy(ours, f)
    BY <2>1 DEF Block
  <2> QED BY <2>5, <2>6, <2>7
<1> DEFINE verdict == Verdict(f.type, WordsBy(f), FlagsBy(ours, f), names)
<1>8. (IF f.type \in HasHeaders THEN Head(Input(blocks))[3] ELSE {}) = names
  BY <1>7
<1>9. /\ UNCHANGED lost
      /\ wire' = SubSeq(wire, Len(kinds) + m + 3, Len(wire))
      /\ inEnd' = IF f.type \in HasHeaders
                  THEN [input |-> Tail(Input(blocks)), blocks |-> inEnd.blocks + 1] ELSE inEnd
      /\ returned' = Append(returned, IF verdict # "none" THEN ErrorOf(verdict)
                                      ELSE Frame(f.type, WordsBy(f), names, FlagsBy(ours, f)))
  <2> HIDE DEF kinds, m
  <2> QED BY <1>1, <1>2, <1>4, <1>5, <1>6, <1>8 DEF ReadsPayload, Returns
<1>10. inEnd' = [input |-> <<>>, blocks |-> IF f.type \in HasHeaders THEN n + 1 ELSE n]
  <2>1. CASE f.type \in HasHeaders
    <3>1. inEnd' = [input |-> Tail(Input(blocks)), blocks |-> inEnd.blocks + 1]
      BY <2>1, <1>9
    <3>2. Tail(Input(blocks)) = <<>> /\ inEnd.blocks = n
      BY <2>1, <1>7
    <3> HIDE DEF blocks
    <3> QED BY <2>1, <3>1, <3>2
  <2>2. CASE f.type \notin HasHeaders
    BY <2>2, <1>9
  <2> QED BY <2>1, <2>2
<1>11. Len(kinds) + m + 3 = Len(CodedBy(ours, f, n)) + 1
  BY <1>1, <1>3
<1>12. returned' = Append(returned, Result(f))
  BY <1>9 DEF Result
<1> HIDE DEF kinds, m
<1> QED BY <1>9, <1>10, <1>11, <1>12

\* What the reader of a frame in one piece may give back, and where that leaves
\* it.
Stays(res) == NoError(res) \/ res.type \in Harmless
Leaving(f, n, res) ==
    /\ returned' = Append(returned, res)
    /\ NoError(res) => res = MeansBy(ours, f)
    /\ Stays(res) =>
          /\ UNCHANGED lost
          /\ wire' = SubSeq(wire, Len(CodedBy(ours, f, n)) + 1, Len(wire))
          /\ inEnd' = [input |-> <<>>, blocks |-> IF f.type \in HasHeaders THEN n + 1 ELSE n]

LEMMA LeftIs ==
    ASSUME NEW type, NEW flags, NEW length, Leaves(type, flags, length),
           ReadsPayload(type, flags, length), NEW S, wire \in Seq(S),
           Len(wire) >= 3 => wire[3][1] = "word"
    PROVE  returned' = Append(returned, ErrorOf("InvalidControlFrame"))
<1>1. Takes(type, flags, length) = <<"word">> /\ BlocksIn(type, length) = 0
  BY DEF Leaves, Takes, BlocksIn, HasHeaders
<1>2. Len(<<"word">>) = 1
  OBVIOUS
<1>3. Len(wire) >= 3 /\ Len(wire) \in Nat
  BY <1>1, <1>2, LenProperties DEF ReadsPayload
<1>4. wire[3] \in S
  BY <1>3, ElementOfSeq
<1>5. /\ SubSeq(wire, 3, 3) \in Seq(S) /\ Len(SubSeq(wire, 3, 3)) = 1
      /\ SubSeq(wire, 3, 3)[1] = wire[3]
  BY <1>4, SubSeqOne
<1>6. Kinds(SubSeq(wire, 3, 3)) = <<"word">>
  BY <1>3, <1>5 DEF Kinds
<1>7. SubSeq(wire, 4, 3) = <<>>
  BY SubSeqEmpty
<1> QED BY <1>1, <1>2, <1>6, <1>7 DEF ReadsPayload, Returns

LEMMA ErrorsDoNotStay ==
    ~Stays(ErrorOf("InvalidControlFrame")) /\ ~Stays(ErrorOf("UnknownType"))
BY DEF Stays, NoError, ErrorOf, Harmless, Control, HasHeaders

LEMMA FrontIsRead ==
    ASSUME NEW f \in SpdyFrames, NEW n \in Nat, ours \in BOOLEAN, AtFront(f, n),
           inEnd = [input |-> <<>>, blocks |-> n], ReadFrame
    PROVE  \E res : Leaving(f, n, res)
<1>1. FrontCells(f, n)
  BY FrontIs
<1>2. PICK S : wire \in Seq(S)
  BY DEF AtFront
<1>3. wire[1] = (IF f.type = "Data" THEN <<"stream", f.words[1]>> ELSE <<"control", f.type>>)
      /\ wire[2] = <<"length", FlagsBy(ours, f), LengthBy(f)>>
  BY <1>1 DEF FrontCells
<1>4. CASE f.type = "Data"
  <2>1. wire[1][1] = "stream" /\ wire[1][2] = f.words[1] /\ wire[2][2] = FlagsBy(ours, f)
    BY <1>3, <1>4
  <2>2. ReadsData
    BY <2>1 DEF ReadFrame, ReadsControl, TakesForHeader
  <2>3. Fix(f) = <<<<"data", f.words[2]>>>>
    BY <1>4 DEF Fix, HasHeaders
  <2>4. Len(Fix(f)) = 1 /\ Fix(f)[1][2] = f.words[2]
    BY <2>3
  <2>5. wire[1 + 2] = Fix(f)[1] /\ Len(CodedBy(ours, f, n)) = 3
    BY <1>1, <1>4, <2>4 DEF FrontCells, HasHeaders
  <2> DEFINE res == IF f.words[1] = 0 THEN ErrorOf("ZeroStreamId")
                    ELSE Frame("Data", <<f.words[1], f.words[2]>>, {}, FlagsBy(ours, f))
  <2>6. /\ returned' = Append(returned, res)
        /\ UNCHANGED <<inEnd, lost>>
        /\ wire' = SubSeq(wire, 4, Len(wire))
    <3>1. wire[3][2] = f.words[2]
      BY <2>4, <2>5
    <3> QED BY <2>1, <2>2, <3>1 DEF ReadsData, Returns
  <2>7. NoError(res) => res = MeansBy(ours, f)
    <3> SUFFICES ASSUME NoError(res) PROVE res = MeansBy(ours, f)
      OBVIOUS
    <3>1. f.words[1] # 0
      BY DEF NoError, ErrorOf, Control, HasHeaders
    <3>2. f.words \in Seq(Nat) /\ Len(f.words) = 2 /\ f.names = {}
      BY <1>4, FramesFit DEF SpdyFrames, WordsIn, HasHeaders
    <3>3. f.words = <<f.words[1], f.words[2]>>
      BY <3>2
    <3>4. WordsBy(f) = f.words /\ {Lower(x) : x \in f.names} = {}
      BY <1>4, <3>2 DEF WordsBy
    <3>5. res = Frame("Data", f.words, {}, FlagsBy(ours, f))
      BY <3>1, <3>3
    <3> QED BY <3>4, <3>5, <1>4 DEF MeansBy
  <2>8. (IF f.type \in HasHeaders THEN n + 1 ELSE n) = n
    BY <1>4 DEF HasHeaders
  <2> HIDE DEF res
  <2> QED BY <2>5, <2>6, <2>7, <2>8 DEF Leaving
<1>5. CASE f.type # "Data"
  <2>1. wire[1][1] = "control" /\ wire[1][2] = f.type /\ wire[2][1] = "length"
        /\ wire[2][2] = FlagsBy(ours, f) /\ wire[2][3] = LengthBy(f)
    BY <1>3, <1>5
  <2>2. ReadsControl
    BY <2>1 DEF ReadFrame, ReadsData, TakesForHeader
  <2>3. CASE f.type \notin Control
    <3>1. returned' = Append(returned, ErrorOf("UnknownType"))
      BY <2>1, <2>2, <2>3 DEF ReadsControl, Returns
    <3>2. Leaving(f, n, ErrorOf("UnknownType"))
      BY <3>1, ErrorsDoNotStay DEF Leaving, Stays
    <3> QED BY <3>2
  <2>4. CASE f.type \in Control
    <3>1. ReadsPayload(f.type, FlagsBy(ours, f), LengthBy(f))
      BY <2>1, <2>2, <2>4 DEF ReadsControl
    <3>2. CASE Leaves(f.type, FlagsBy(ours, f), LengthBy(f))
      <4>1. f.type \in {"GoAway", "WindowUpdate"}
        BY <3>2 DEF Leaves
      <4>2. f.words \in Seq(Nat) /\ Len(f.words) = 2 /\ DOMAIN f.words = 1..2
        <5>1. f.words \in Seq(Nat) /\ Len(f.words) = WordsIn(f)
          BY FramesFit DEF SpdyFrames
        <5>2. WordsIn(f) = 2
          BY <4>1 DEF WordsIn
        <5> QED BY <5>1, <5>2
      <4>3. Fix(f) = [i \in DOMAIN f.words |-> <<"word", f.words[i]>>]
        BY <4>1 DEF Fix, HasHeaders
      <4>4. Len(Fix(f)) = 2
        BY <4>1, <4>2, FixIs DEF HasHeaders
      <4>5. wire[1 + 2] = Fix(f)[1]
        BY <1>1, <4>4 DEF FrontCells
      <4>6. wire[3][1] = "word"
        BY <4>2, <4>3, <4>5
      <4>7. returned' = Append(returned, ErrorOf("InvalidControlFrame"))
        BY <1>2, <3>1, <3>2, <4>6, LeftIs
      <4>8. Leaving(f, n, ErrorOf("InvalidControlFrame"))
        BY <4>7, ErrorsDoNotStay DEF Leaving, Stays
      <4> QED BY <4>8
    <3>3. CASE ~Leaves(f.type, FlagsBy(ours, f), LengthBy(f))
      <4>1. /\ UNCHANGED lost
            /\ wire' = SubSeq(wire, Len(CodedBy(ours, f, n)) + 1, Len(wire))
            /\ inEnd' = [input |-> <<>>, blocks |-> IF f.type \in HasHeaders THEN n + 1 ELSE n]
            /\ returned' = Append(returned, Result(f))
        BY <2>4, <3>1, <3>3, PayloadIsRead
      <4>2. NoError(Result(f)) => Result(f) = MeansBy(ours, f)
        BY <2>4, VerdictIsRight DEF Result
      <4> HIDE DEF Result
      <4>3. Leaving(f, n, Result(f))
        BY <4>1, <4>2 DEF Leaving
      <4> QED BY <4>3
    <3> QED BY <3>2, <3>3
  <2> QED BY <2>3, <2>4
<1> QED BY <1>4, <1>5

\* A frame whose writer was stopped: what is there of it makes the reader wait,
\* or ends in an error that costs more than the frame.
Piece(f, n) ==
    /\ \E S : wire \in Seq(S)
    /\ Len(wire) < Len(CodedBy(ours, f, n))
    /\ \A j \in 1..Len(wire) : wire[j] = CodedBy(ours, f, n)[j]

LEMMA PieceIsRead ==
    ASSUME NEW f \in SpdyFrames, NEW n, ours \in BOOLEAN, Piece(f, n), ReadFrame
    PROVE  \E res : returned' = Append(returned, res) /\ ~Stays(res)
<1> DEFINE c == CodedBy(ours, f, n)
           k == Len(Fix(f))
           m == IF f.type \in HasHeaders THEN 1 ELSE 0
<1>1. PICK S : wire \in Seq(S)
  BY DEF Piece
<1>2. /\ k \in Nat /\ m \in {0, 1}
      /\ Len(c) = 2 + k + m
      /\ c[1] = (IF f.type = "Data" THEN <<"stream", f.words[1]>> ELSE <<"control", f.type>>)
      /\ c[2] = <<"length", FlagsBy(ours, f), LengthBy(f)>>
      /\ \A i \in 1..k : c[i + 2] = Fix(f)[i]
  <2>1. m \in {0, 1}
    OBVIOUS
  <2>2. IsCoded(c, ours, f, n)
    BY CodedIs
  <2> HIDE DEF c, m
  <2> QED BY ONLY <2>1, <2>2 DEF IsCoded, k, m
<1>3. Len(wire) \in Nat /\ Len(wire) >= 2 /\ Len(wire) < Len(c)
      /\ \A j \in 1..Len(wire) : wire[j] = c[j]
  BY <1>1, LenProperties DEF Piece, ReadFrame
<1> HIDE DEF c, k, m
<1>4. wire[1] = c[1] /\ wire[2] = c[2]
  BY <1>3
<1>5. \A i \in 1..k : i + 2 <= Len(wire) => wire[i + 2] = Fix(f)[i]
  <2> TAKE i \in 1..k
  <2> HAVE i + 2 <= Len(wire)
  <2>1. i + 2 \in 1..Len(wire)
    BY <1>2, <1>3
  <2> QED BY <2>1, <1>2, <1>3
<1>6. f.type # "Data"
  <2> SUFFICES ASSUME f.type = "Data" PROVE FALSE
    OBVIOUS
  <2>1. wire[1] = <<"stream", f.words[1]>>
    BY <1>2, <1>4
  <2>2. ReadsData
    BY <2>1 DEF ReadFrame, ReadsControl, TakesForHeader
  <2>3. k = 1 /\ m = 0
    BY FixIs DEF k, m, HasHeaders
  <2> QED BY <2>2, <2>3, <1>2, <1>3 DEF ReadsData
<1>7. wire[1][1] = "control" /\ wire[1][2] = f.type /\ wire[2][1] = "length"
       /\ wire[2][2] = FlagsBy(ours, f) /\ wire[2][3] = LengthBy(f)
  BY <1>2, <1>4, <1>6
<1>8. ReadsControl
  BY <1>7 DEF ReadFrame, ReadsData, TakesForHeader
<1>9. CASE f.type \notin Control
  <2>1. returned' = Append(returned, ErrorOf("UnknownType"))
    BY <1>7, <1>8, <1>9 DEF ReadsControl, Returns
  <2> QED BY <2>1, ErrorsDoNotStay
<1>10. CASE f.type \in Control
  <2>1. ReadsPayload(f.type, FlagsBy(ours, f), LengthBy(f))
    BY <1>7, <1>8, <1>10 DEF ReadsControl
  <2>2. CASE Leaves(f.type, FlagsBy(ours, f), LengthBy(f))
    <3>1. f.type \in {"GoAway", "WindowUpdate"}
      BY <2>2 DEF Leaves
    <3>2. f.words \in Seq(Nat) /\ Len(f.words) = 2 /\ DOMAIN f.words = 1..2
      <4>1. f.words \in Seq(Nat) /\ Len(f.words) = WordsIn(f)
        BY FramesFit DEF SpdyFrames
      <4>2. WordsIn(f) = 2
        BY <3>1 DEF WordsIn
      <4> QED BY <4>1, <4>2
    <3>3. Fix(f) = [i \in DOMAIN f.words |-> <<"word", f.words[i]>>]
      BY <3>1 DEF Fix, HasHeaders
    <3>4. k = 2
      BY <3>1, <3>2, FixIs DEF HasHeaders, k
    <3>5. Len(wire) >= 3 => wire[3] = Fix(f)[1]
      <4>1. 1 \in 1..k /\ 1 + 2 = 3
        BY <3>4
      <4> QED BY <4>1, <1>5
    <3>6. Fix(f)[1][1] = "word"
      BY <3>2, <3>3
    <3>7. returned' = Append(returned, ErrorOf("InvalidControlFrame"))
      BY <1>1, <2>1, <2>2, <3>5, <3>6, LeftIs
    <3> QED BY <3>7, ErrorsDoNotStay
  <2>3. CASE ~Leaves(f.type, FlagsBy(ours, f), LengthBy(f))
    <3>1. BlocksIn(f.type, LengthBy(f)) = m
      <4>1. Fixed(f.type) \in Nat
        BY DEF Fixed
      <4>2. \A x \in Nat : (x + 8 - x) \div 8 = 1
        OBVIOUS
      <4> QED BY <4>1, <4>2, <1>6 DEF BlocksIn, LengthBy, m
    <3>2. Takes(f.type, FlagsBy(ours, f), LengthBy(f)) = Wants(f.type)
      BY <2>3 DEF Takes
    <3>3. Len(wire) >= Len(Wants(f.type)) + m + 2
      BY <2>1, <3>1, <3>2 DEF ReadsPayload
    <3>4. f.type = "Settings" => NumSettings = f.words[1]
      <4> SUFFICES ASSUME f.type = "Settings" PROVE NumSettings = f.words[1]
        OBVIOUS
      <4>1. k = 1 + 2 * f.words[1] /\ f.words[1] \in Nat /\ Fix(f)[1] = <<"word", f.words[1]>>
        BY SettingsAre DEF k
      <4>2. Len(wire) >= 3
        <5> SUFFICES ASSUME ~(Len(wire) >= 3) PROVE FALSE
          OBVIOUS
        <5>1. NumSettings = 0
          BY DEF NumSettings
        <5> DEFINE one == <<"word">>
                   rest == [i \in 1..2 * 0 |-> "word"]
        <5>2. Wants(f.type) = one \o rest
          BY <5>1 DEF Wants
        <5>3. rest \in Seq({"word"}) /\ Len(rest) = 0
          <6>1. rest \in [1..0 -> {"word"}] /\ 0 \in Nat
            OBVIOUS
          <6>2. \A R, p, g : p \in Nat /\ g \in [1..p -> R] => g \in Seq(R) /\ Len(g) = p
            OBVIOUS
          <6> HIDE DEF rest
          <6> QED BY ONLY <6>1, <6>2
        <5>4. one \in Seq({"word"}) /\ Len(one) = 1
          OBVIOUS
        <5> HIDE DEF one, rest
        <5>5. Len(one \o rest) = Len(one) + Len(rest)
          BY ONLY <5>3, <5>4, ConcatProperties
        <5>6. Len(Wants(f.type)) = 1
          <6>1. \A x, y : x = 1 /\ y = 0 => x + y = 1
            OBVIOUS
          <6> QED BY ONLY <6>1, <5>2, <5>3, <5>4, <5>5
        <5>7. m \in Nat
          BY <1>2
        <5>8. Len(wire) >= 1 + m + 2
          BY <5>6, <3>3
        <5> QED BY <5>7, <5>8, <1>3
      <4>3. wire[3] = Fix(f)[1]
        <5>1. 1 \in 1..k /\ 1 + 2 = 3
          BY <4>1
        <5> QED BY <5>1, <1>5, <4>2
      <4> QED BY <4>1, <4>2, <4>3 DEF NumSettings
    <3>5. Len(Wants(f.type)) = k
      BY <3>4, <1>10, WantsIs DEF k
    <3> QED BY <3>3, <3>5, <1>2, <1>3
  <2> QED BY <2>2, <2>3
<1> QED BY <1>9, <1>10

-----------------------------------------------------------------------------
(* The invariant. *)

SpdyTypes ==
    /\ ours \in BOOLEAN
    /\ sent \in Seq(SpdyFrames)
    /\ \E S : returned \in Seq(S)
    /\ outEnd = [buf |-> outEnd.buf, blocks |-> outEnd.blocks, torn |-> outEnd.torn,
                 broken |-> outEnd.broken]
    /\ outEnd.blocks \in Nat /\ outEnd.torn \in Nat /\ outEnd.broken \in BOOLEAN
    /\ ~outEnd.broken => outEnd.buf = <<>>

SafeTo(n) == \A i \in 1..n : Stays(returned[i])

\* What was returned for the frames so far.
KeptSoFar ==
    \A i \in DOMAIN returned :
        SafeTo(i) => i <= Len(sent) /\ (NoError(returned[i]) => returned[i] = MeansBy(ours, sent[i]))

BlockOf(f) == IF f.type \in HasHeaders THEN 1 ELSE 0

\* The frames that are not read yet are on the wire one after the other; at[i]
\* cells and nb[i] blocks are before the end of frame i.
Stands(at, nb, i) ==
    LET c == CodedBy(ours, sent[i], nb[i - 1])
    IN /\ at[i] = at[i - 1] + Len(c) /\ at[i] <= Len(wire)
       /\ nb[i] = nb[i - 1] + BlockOf(sent[i])
       /\ \A j \in 1..Len(c) : wire[at[i - 1] + j] = c[j]
\* The part of a frame that follows them when the writer was stopped.
PartOf(f, start, n) ==
    LET c == CodedBy(ours, f, n)
    IN /\ start <= Len(wire) /\ Len(wire) - start < Len(c)
       /\ \A j \in 1..Len(wire) - start : wire[start + j] = c[j]
Placed(at, nb) ==
    LET r == Len(returned)
        s == Len(sent)
    IN /\ at \in [r..s -> Nat] /\ nb \in [r..s -> Nat]
       /\ at[r] = 0 /\ nb[r] = inEnd.blocks
       /\ \A i, j \in r..s : i <= j => at[i] <= at[j]
       /\ \A i \in r + 1..s : Stands(at, nb, i)
       /\ ~outEnd.broken => at[s] = Len(wire) /\ nb[s] = outEnd.blocks
       /\ outEnd.broken => \E f \in SpdyFrames : PartOf(f, at[s], nb[s])
InStep ==
    /\ lost = FALSE
    /\ \E S : wire \in Seq(S)
    /\ inEnd = [input |-> <<>>, blocks |-> inEnd.blocks] /\ inEnd.blocks \in Nat
    /\ Len(returned) <= Len(sent)
    /\ \E at, nb : Placed(at, nb)

SpdyInv ==
    /\ SpdyTypes
    /\ outEnd.torn = 0 => KeptSoFar /\ (SafeTo(Len(returned)) => InStep)

LEMMA SpdyInvStarts == SpdyInit => SpdyInv
<1> SUFFICES ASSUME SpdyInit PROVE SpdyInv
  OBVIOUS
<1>1. /\ ours \in BOOLEAN /\ wire = <<>> /\ sent = <<>> /\ returned = <<>> /\ lost = FALSE
      /\ outEnd = [buf |-> <<>>, blocks |-> 0, torn |-> 0, broken |-> FALSE]
      /\ inEnd = [input |-> <<>>, blocks |-> 0]
  BY DEF SpdyInit
<1>2. \A S : <<>> \in Seq(S)
  OBVIOUS
<1>3. outEnd.buf = <<>> /\ outEnd.blocks = 0 /\ outEnd.torn = 0 /\ outEnd.broken = FALSE
  BY <1>1
<1>4. SpdyTypes
  BY <1>1, <1>2, <1>3 DEF SpdyTypes
<1>5. KeptSoFar
  BY <1>1 DEF KeptSoFar
<1>6. InStep
  <2>1. inEnd.blocks = 0 /\ Len(returned) = 0 /\ Len(sent) = 0 /\ Len(wire) = 0
    BY <1>1
  <2> DEFINE at == [i \in 0..0 |-> 0]
  <2>2. at \in [0..0 -> Nat] /\ at[0] = 0
    OBVIOUS
  <2> HIDE DEF at
  <2>3. Placed(at, at)
    <3>1. 0 + 1..0 = {} /\ \A i, j \in 0..0 : at[i] <= at[j]
      BY <2>2
    <3> QED BY <1>3, <2>1, <2>2, <3>1 DEF Placed
  <2>4. inEnd = [input |-> <<>>, blocks |-> inEnd.blocks]
    BY <1>1, <2>1
  <2> QED BY <1>1, <1>2, <2>1, <2>3, <2>4 DEF InStep
<1> QED BY <1>4, <1>5, <1>6 DEF SpdyInv

\* The invariant is what the property asks for.
LEMMA SpdyInvIsEnough == SpdyInv => FramesAreKept
<1> SUFFICES ASSUME SpdyInv, outEnd.torn = 0
             PROVE  /\ \A i \in DOMAIN returned :
                          SafeTo(i) => i <= Len(sent)
                                       /\ (NoError(returned[i]) => returned[i] = Means(sent[i]))
                    /\ SafeTo(Len(returned)) => ~lost /\ inEnd.input = <<>>
                    /\ SafeTo(Len(returned)) /\ wire = <<>> /\ ~outEnd.broken =>
                          Len(returned) = Len(sent) /\ inEnd.blocks = outEnd.blocks
  BY DEF FramesAreKept, SafeTo, Stays
<1>1. SpdyTypes /\ KeptSoFar /\ (SafeTo(Len(returned)) => InStep)
  BY DEF SpdyInv
<1>2. ours \in BOOLEAN /\ sent \in Seq(SpdyFrames) /\ Len(sent) \in Nat /\ Len(returned) \in Nat
       /\ DOMAIN returned = 1..Len(returned)
  BY <1>1, LenProperties DEF SpdyTypes
<1>3. ASSUME NEW i \in DOMAIN returned, SafeTo(i)
      PROVE  i <= Len(sent) /\ (NoError(returned[i]) => returned[i] = Means(sent[i]))
  <2>1. i <= Len(sent) /\ (NoError(returned[i]) => returned[i] = MeansBy(ours, sent[i]))
    BY <1>1, <1>3 DEF KeptSoFar
  <2>2. sent[i] \in SpdyFrames
    BY <1>2, <2>1, ElementOfSeq
  <2> QED BY <2>1, <2>2, <1>2, MeansIs
<1>4. ASSUME SafeTo(Len(returned)), wire = <<>>, ~outEnd.broken
      PROVE  Len(returned) = Len(sent) /\ inEnd.blocks = outEnd.blocks
  <2>1. InStep
    BY <1>1, <1>4
  <2>2. PICK at, nb : Placed(at, nb)
    BY <2>1 DEF InStep
  <2>3. Len(wire) = 0
    BY <1>4
  <2> DEFINE r == Len(returned)
             s == Len(sent)
  <2>4. /\ r <= s /\ at \in [r..s -> Nat] /\ at[r] = 0 /\ nb[r] = inEnd.blocks
        /\ \A i \in r + 1..s : Stands(at, nb, i)
        /\ at[s] = Len(wire) /\ nb[s] = outEnd.blocks
    BY <1>4, <2>1, <2>2 DEF InStep, Placed
  <2>5. ~(r < s)
    <3> SUFFICES ASSUME r < s PROVE FALSE
      OBVIOUS
    <3>1. r + 1 \in r + 1..s /\ r + 1 - 1 = r /\ sent[r + 1] \in SpdyFrames
      BY <1>2, ElementOfSeq
    <3>2. Stands(at, nb, r + 1)
      BY <2>4, <3>1
    <3> DEFINE c == CodedBy(ours, sent[r + 1], nb[r])
    <3>3. at[r + 1] = at[r] + Len(c) /\ at[r + 1] <= Len(wire)
      BY <3>1, <3>2 DEF Stands
    <3>4. Len(c) \in Nat /\ Len(c) >= 2
      BY <3>1, <1>2, CodedSeq
    <3> HIDE DEF c
    <3> QED BY <2>3, <2>4, <3>3, <3>4
  <2>6. r = s
    BY <1>2, <2>4, <2>5
  <2> QED BY <2>4, <2>6
<1>5. SafeTo(Len(returned)) => ~lost /\ inEnd.input = <<>>
  <2> SUFFICES ASSUME SafeTo(Len(returned)) PROVE ~lost /\ inEnd.input = <<>>
    OBVIOUS
  <2>1. lost = FALSE /\ inEnd = [input |-> <<>>, blocks |-> inEnd.blocks]
    BY <1>1 DEF InStep
  <2>2. PICK b : inEnd = [input |-> <<>>, blocks |-> b]
    BY <2>1
  <2>3. inEnd.input = <<>>
    BY <2>2
  <2> QED BY <2>1, <2>3
<1> QED BY <1>3, <1>4, <1>5

-----------------------------------------------------------------------------
(* Writing keeps the invariant. *)

OutEnd(x, n, t, b) == [buf |-> x, blocks |-> n, torn |-> t, broken |-> b]
Written(f, c) ==
    LET n == outEnd.blocks + BlockOf(f)
    IN \/ /\ wire' = wire \o SubSeq(c, 1, Len(c)) /\ sent' = Append(sent, f)
          /\ outEnd' = OutEnd(<<>>, n, outEnd.torn, FALSE)
       \/ /\ \E k \in 0..Len(c) : wire' = wire \o SubSeq(c, 1, k)
          /\ sent' = sent /\ outEnd' = OutEnd(<<>>, n, outEnd.torn + 1, FALSE)
       \/ /\ \E k \in 0..Len(c) - 1 : wire' = wire \o SubSeq(c, 1, k)
          /\ sent' = sent /\ \E x : outEnd' = OutEnd(x, n, outEnd.torn, TRUE)

LEMMA PutsIs ==
    ASSUME SpdyTypes, ~outEnd.broken, NEW f \in SpdyFrames, Puts(f)
    PROVE  Written(f, CodedBy(ours, f, outEnd.blocks))
<1> DEFINE c == CodedBy(ours, f, outEnd.blocks)
<1>1. PICK n, t : outEnd = [buf |-> <<>>, blocks |-> n, torn |-> t, broken |-> FALSE]
                  /\ n \in Nat /\ t \in Nat
  BY DEF SpdyTypes
<1>2. outEnd.buf = <<>> /\ outEnd.blocks = n /\ outEnd.torn = t /\ outEnd.broken = FALSE
  BY <1>1
<1>3. Cells(f, Marshalled(f)) = c
  BY <1>2, CellsAreCoded DEF SpdyTypes
<1>4. Len(c) \in Nat /\ Len(c) >= 2
  BY CodedSeq DEF SpdyTypes
<1>5. StopsAt(f, c) \in 0..Len(c)
  <2>1. CASE f.type = "RstStream"
    <3>1. f.words \in Seq(Nat) /\ Len(f.words) = WordsIn(f)
      BY FramesFit DEF SpdyFrames
    <3>2. Len(f.words) = 2
      BY <3>1, <2>1 DEF WordsIn
    <3>3. Len(Fix(f)) = 2
      BY <2>1, <3>2, FixIs DEF HasHeaders
    <3>4. Len(c) = 2 + Len(Fix(f)) + (IF f.type \in HasHeaders THEN 1 ELSE 0)
      <4>1. IsCoded(c, ours, f, outEnd.blocks)
        BY CodedIs DEF SpdyTypes
      <4> HIDE DEF c
      <4> QED BY ONLY <4>1 DEF IsCoded
    <3> HIDE DEF c
    <3>5. Len(c) = 4
      BY <3>3, <3>4, <2>1 DEF HasHeaders
    <3> QED BY <3>5 DEF StopsAt
  <2>2. CASE f.type # "RstStream"
    BY <2>2, <1>4 DEF StopsAt
  <2> QED BY <2>1, <2>2
<1> DEFINE x == Marshalled(f)
           h == f.type \in HasHeaders
           marshals == [outEnd EXCEPT !.buf = x, !.blocks = IF h THEN @ + 1 ELSE @]
           whole == StopsAt(f, c)
<1>6. outEnd.blocks + BlockOf(f) = n + BlockOf(f)
  BY <1>2
<1>7. PICK d : d = n + BlockOf(f)
  OBVIOUS
<1>8. d = (IF h THEN n + 1 ELSE n)
  BY <1>1, <1>7 DEF BlockOf
<1> HIDE DEF c, x, h
<1>9. PICK y, no, yes : y = x /\ no = FALSE /\ yes = TRUE
  OBVIOUS
<1>o. outEnd = OutEnd(<<>>, n, t, no)
  BY <1>1, <1>9 DEF OutEnd
<1>m. marshals = OutEnd(y, d, t, no)
  <2>1. CASE h
    <3>1. marshals = [outEnd EXCEPT !.buf = y, !.blocks = n + 1]
      BY <2>1, <1>2, <1>9
    <3>2. [outEnd EXCEPT !.buf = y, !.blocks = n + 1] = OutEnd(y, n + 1, t, no)
      <4>1. PICK q : q = [outEnd EXCEPT !.buf = y]
        OBVIOUS
      <4>2. q = OutEnd(y, n, t, no)
        BY ONLY <1>o, <4>1 DEF OutEnd
      <4>3. [outEnd EXCEPT !.buf = y, !.blocks = n + 1] = [[outEnd EXCEPT !.buf = y] EXCEPT !.blocks = n + 1]
        BY Zenon
      <4>4. [q EXCEPT !.blocks = n + 1] = OutEnd(y, n + 1, t, no)
        BY ONLY <4>2 DEF OutEnd
      <4> QED BY <4>1, <4>3, <4>4
    <3> QED BY <3>1, <3>2, <2>1, <1>8
  <2>2. CASE ~h
    <3>1. marshals = [outEnd EXCEPT !.buf = y, !.blocks = n]
      BY <1>2, <1>9, <2>2
    <3>2. [outEnd EXCEPT !.buf = y, !.blocks = n] = OutEnd(y, n, t, no)
      <4>1. PICK q : q = [outEnd EXCEPT !.buf = y]
        OBVIOUS
      <4>2. q = OutEnd(y, n, t, no)
        BY ONLY <1>o, <4>1 DEF OutEnd
      <4>3. [outEnd EXCEPT !.buf = y, !.blocks = n] = [[outEnd EXCEPT !.buf = y] EXCEPT !.blocks = n]
        BY Zenon
      <4>4. [q EXCEPT !.blocks = n] = OutEnd(y, n, t, no)
        BY ONLY <4>2 DEF OutEnd
      <4> QED BY <4>1, <4>3, <4>4
    <3> QED BY <3>1, <3>2, <2>2, <1>8
  <2> QED BY <2>1, <2>2
<1>10. \/ /\ wire' = wire \o SubSeq(c, 1, whole)
          /\ outEnd' = [marshals EXCEPT !.buf = AfterReset(@),
                                        !.torn = IF whole < Len(c) THEN @ + 1 ELSE @]
          /\ sent' = IF whole < Len(c) THEN sent ELSE Append(sent, f)
       \/ /\ \E k \in 0..whole - 1 : wire' = wire \o SubSeq(c, 1, k)
          /\ outEnd' = [marshals EXCEPT !.broken = TRUE]
          /\ UNCHANGED sent
  BY <1>3 DEF Puts, x, h
<1> HIDE DEF marshals, whole
<1>11. CASE /\ wire' = wire \o SubSeq(c, 1, whole)
            /\ outEnd' = [marshals EXCEPT !.buf = AfterReset(@),
                                          !.torn = IF whole < Len(c) THEN @ + 1 ELSE @]
            /\ sent' = IF whole < Len(c) THEN sent ELSE Append(sent, f)
  <2>1. CASE whole < Len(c)
    <3>1. outEnd' = OutEnd(<<>>, d, t + 1, FALSE)
      <4>1. marshals.torn = t
        BY <1>m DEF OutEnd
      <4>2. outEnd' = [marshals EXCEPT !.buf = <<>>, !.torn = t + 1]
        BY <1>11, <2>1, <4>1 DEF AfterReset
      <4>3. [marshals EXCEPT !.buf = <<>>, !.torn = t + 1] = OutEnd(<<>>, d, t + 1, no)
        <5>1. PICK q : q = [marshals EXCEPT !.buf = <<>>]
          OBVIOUS
        <5>2. q = OutEnd(<<>>, d, t, no)
          BY ONLY <1>m, <5>1 DEF OutEnd
        <5>3. [marshals EXCEPT !.buf = <<>>, !.torn = t + 1] = [[marshals EXCEPT !.buf = <<>>] EXCEPT !.torn = t + 1]
          BY Zenon
        <5>4. [q EXCEPT !.torn = t + 1] = OutEnd(<<>>, d, t + 1, no)
          BY ONLY <5>2 DEF OutEnd
        <5> QED BY <5>1, <5>3, <5>4
      <4> QED BY <4>2, <4>3, <1>9
    <3>2. whole \in 0..Len(c)
      BY <1>5 DEF whole
    <3> QED BY <3>1, <3>2, <2>1, <1>11, <1>2, <1>7 DEF Written, c
  <2>2. CASE ~(whole < Len(c))
    <3>1. outEnd' = OutEnd(<<>>, d, t, FALSE)
      <4>1. marshals.torn = t
        BY <1>m DEF OutEnd
      <4>2. outEnd' = [marshals EXCEPT !.buf = <<>>, !.torn = t]
        BY <1>11, <2>2, <4>1 DEF AfterReset
      <4>3. [marshals EXCEPT !.buf = <<>>, !.torn = t] = OutEnd(<<>>, d, t, no)
        <5>1. PICK q : q = [marshals EXCEPT !.buf = <<>>]
          OBVIOUS
        <5>2. q = OutEnd(<<>>, d, t, no)
          BY ONLY <1>m, <5>1 DEF OutEnd
        <5>3. [marshals EXCEPT !.buf = <<>>, !.torn = t] = [[marshals EXCEPT !.buf = <<>>] EXCEPT !.torn = t]
          BY Zenon
        <5>4. [q EXCEPT !.torn = t] = OutEnd(<<>>, d, t, no)
          BY ONLY <5>2 DEF OutEnd
        <5> QED BY <5>1, <5>3, <5>4
      <4> QED BY <4>2, <4>3, <1>9
    <3>2. whole = Len(c)
      BY <1>4, <1>5, <2>2 DEF whole
    <3> QED BY <3>1, <3>2, <2>2, <1>11, <1>2, <1>7 DEF Written, c
  <2> QED BY <2>1, <2>2
<1>12. CASE /\ \E k \in 0..whole - 1 : wire' = wire \o SubSeq(c, 1, k)
            /\ outEnd' = [marshals EXCEPT !.broken = TRUE]
            /\ UNCHANGED sent
  <2>1. outEnd' = OutEnd(y, d, t, TRUE)
    <3>1. outEnd' = [marshals EXCEPT !.broken = yes]
      BY <1>9, <1>12
    <3>2. [marshals EXCEPT !.broken = yes] = OutEnd(y, d, t, yes)
      BY ONLY <1>m DEF OutEnd
    <3> QED BY <3>1, <3>2, <1>9
  <2>2. PICK k \in 0..whole - 1 : wire' = wire \o SubSeq(c, 1, k)
    BY <1>12
  <2>3. k \in 0..Len(c) - 1
    BY <1>4, <1>5 DEF whole
  <2> QED BY <2>1, <2>2, <2>3, <1>12, <1>2, <1>7 DEF Written, c
<1> QED BY <1>10, <1>11, <1>12

\* What is put behind the wire leaves the cells that are there.
LEMMA WireGrows ==
    ASSUME NEW S, NEW w \in Seq(S), NEW T, NEW c \in Seq(T), NEW k \in 0..Len(c)
    PROVE  LET v == w \o SubSeq(c, 1, k)
           IN /\ v \in Seq(S \cup T) /\ Len(v) = Len(w) + k
              /\ \A i \in 1..Len(w) : v[i] = w[i]
              /\ \A j \in 1..k : v[Len(w) + j] = c[j]
<1> DEFINE p == SubSeq(c, 1, k)
           v == w \o p
<1>1. Len(c) \in Nat /\ Len(w) \in Nat
  BY LenProperties
<1>2. \A i \in 1..k : c[i] \in T
  BY <1>1, ElementOfSeq
<1>3. p \in Seq(T) /\ Len(p) = k /\ \A i \in 1..k : p[i] = c[i]
  <2>1. /\ p \in Seq(T) /\ Len(p) = (IF 1 <= k THEN k - 1 + 1 ELSE 0)
        /\ \A i \in 1..k - 1 + 1 : p[i] = c[1 + i - 1]
    BY <1>1, <1>2, SubSeqProperties
  <2>2. Len(p) = k
    BY <2>1, <1>1
  <2>3. ASSUME NEW i \in 1..k PROVE p[i] = c[i]
    <3>1. i \in 1..k - 1 + 1 /\ 1 + i - 1 = i
      BY <1>1
    <3> QED BY <2>1, <3>1
  <2> QED BY <2>1, <2>2, <2>3
<1> HIDE DEF p
<1>4. p \in Seq(S \cup T) /\ w \in Seq(S \cup T)
  BY <1>3, SeqMonotonic
<1>5. /\ v \in Seq(S \cup T) /\ Len(v) = Len(w) + Len(p)
      /\ \A i \in 1..Len(w) + Len(p) : v[i] = IF i <= Len(w) THEN w[i] ELSE p[i - Len(w)]
  BY <1>4, ConcatProperties
<1> HIDE DEF v
<1>6. ASSUME NEW i \in 1..Len(w) PROVE v[i] = w[i]
  BY <1>1, <1>3, <1>5
<1>7. ASSUME NEW j \in 1..k PROVE v[Len(w) + j] = c[j]
  <2>1. Len(w) + j \in 1..Len(w) + Len(p) /\ ~(Len(w) + j <= Len(w)) /\ Len(w) + j - Len(w) = j
    BY <1>1, <1>3
  <2> QED BY <2>1, <1>3, <1>5
<1> QED BY <1>3, <1>5, <1>6, <1>7 DEF v, p

LEMMA WritesKeepTypes ==
    ASSUME SpdyTypes, NEW f \in SpdyFrames,
           Written(f, CodedBy(ours, f, outEnd.blocks)), UNCHANGED <<ours, returned>>
    PROVE  SpdyTypes'
<1>6. sent' \in Seq(SpdyFrames)
  <2>1. sent' = sent \/ sent' = Append(sent, f)
    BY DEF Written
  <2>2. sent \in Seq(SpdyFrames)
    BY DEF SpdyTypes
  <2> QED BY <2>1, <2>2, AppendProperties
<1>7. /\ outEnd' = [buf |-> outEnd'.buf, blocks |-> outEnd'.blocks, torn |-> outEnd'.torn,
                    broken |-> outEnd'.broken]
      /\ outEnd'.blocks \in Nat /\ outEnd'.torn \in Nat /\ outEnd'.broken \in BOOLEAN
      /\ ~outEnd'.broken => outEnd'.buf = <<>>
  <2>1. outEnd.blocks + BlockOf(f) \in Nat /\ outEnd.torn \in Nat
    BY DEF SpdyTypes, BlockOf
  <2>2. PICK n, t, x, b : /\ outEnd' = OutEnd(x, n, t, b) /\ n \in Nat /\ t \in Nat
                          /\ b \in BOOLEAN /\ (~b => x = <<>>)
    <3>1. CASE outEnd' = OutEnd(<<>>, outEnd.blocks + BlockOf(f), outEnd.torn, FALSE)
      BY <3>1, <2>1
    <3>2. CASE outEnd' = OutEnd(<<>>, outEnd.blocks + BlockOf(f), outEnd.torn + 1, FALSE)
      <4>1. PICK u : u = outEnd.torn + 1
        OBVIOUS
      <4>2. u \in Nat
        BY <2>1, <4>1
      <4>3. outEnd' = OutEnd(<<>>, outEnd.blocks + BlockOf(f), u, FALSE)
        BY <3>2, <4>1
      <4> QED BY <4>2, <4>3, <2>1
    <3>3. CASE \E x : outEnd' = OutEnd(x, outEnd.blocks + BlockOf(f), outEnd.torn, TRUE)
      BY <3>3, <2>1
    <3> QED BY <3>1, <3>2, <3>3 DEF Written
  <2>3. outEnd'.buf = x /\ outEnd'.blocks = n /\ outEnd'.torn = t /\ outEnd'.broken = b
    BY <2>2 DEF OutEnd
  <2> QED BY <2>2, <2>3 DEF OutEnd
<1>8. ours' \in BOOLEAN /\ \E R : returned' \in Seq(R)
  BY DEF SpdyTypes
<1> QED BY <1>6, <1>7, <1>8 DEF SpdyTypes

\* Frames that are in place stay there when cells are put behind them.
LEMMA StandsOn ==
    ASSUME NEW at, NEW nb, NEW at2, NEW nb2, NEW i \in Nat, Stands(at, nb, i),
           at[i - 1] \in Nat, Len(wire) \in Nat, Len(wire') \in Nat, Len(wire) <= Len(wire'),
           \A q \in 1..Len(wire) : wire'[q] = wire[q],
           sent'[i] = sent[i], sent[i] \in SpdyFrames, ours \in BOOLEAN, ours' = ours,
           at2[i] = at[i], at2[i - 1] = at[i - 1], nb2[i] = nb[i], nb2[i - 1] = nb[i - 1]
    PROVE  Stands(at2, nb2, i)'
<1> DEFINE c == CodedBy(ours, sent[i], nb[i - 1])
<1>1. Len(c) \in Nat
  BY CodedSeq
<1>2. CodedBy(ours, sent[i], nb2[i - 1])' = c
  <2>1. PICK own, g, n : own = ours /\ g = sent[i] /\ n = nb[i - 1]
    OBVIOUS
  <2>2. CodedBy(ours, sent[i], nb2[i - 1])' = CodedBy(own, g, n)
    BY <2>1 DEF CodedBy, HeadBy, BlocksBy, NamesBy, FlagsBy, Body
  <2> QED BY <2>1, <2>2
<1>3. at[i] = at[i - 1] + Len(c) /\ at[i] <= Len(wire) /\ nb[i] = nb[i - 1] + BlockOf(sent[i])
      /\ \A j \in 1..Len(c) : wire[at[i - 1] + j] = c[j]
  BY DEF Stands
<1> HIDE DEF c
<1>4. ASSUME NEW j \in 1..Len(c) PROVE wire'[at[i - 1] + j] = c[j]
  <2>1. at[i - 1] + j \in 1..Len(wire)
    BY <1>1, <1>3
  <2> QED BY <2>1, <1>3
<1>5. at[i] <= Len(wire')
  BY <1>1, <1>3
<1> QED BY <1>2, <1>3, <1>4, <1>5 DEF Stands, BlockOf

LEMMA WritesKeepStep ==
    ASSUME SpdyTypes, ~outEnd.broken, NEW f \in SpdyFrames, InStep,
           Written(f, CodedBy(ours, f, outEnd.blocks)), outEnd'.torn = outEnd.torn,
           UNCHANGED <<ours, returned, inEnd, lost>>
    PROVE  InStep'
<1> DEFINE c == CodedBy(ours, f, outEnd.blocks)
<1>1. PICK S : wire \in Seq(S)
  BY DEF InStep
<1>2. PICK T : c \in Seq(T)
  BY CodedSeq DEF SpdyTypes
<1>3. Len(c) \in Nat /\ Len(c) >= 2
  BY CodedSeq DEF SpdyTypes
<1>4. PICK r, s, l, n : r = Len(returned) /\ s = Len(sent) /\ l = Len(wire) /\ n = outEnd.blocks
  OBVIOUS
<1>5. /\ r \in Nat /\ s \in Nat /\ l \in Nat /\ n \in Nat
      /\ sent \in Seq(SpdyFrames) /\ ours \in BOOLEAN
  BY <1>1, <1>4, LenProperties DEF SpdyTypes
<1>6. PICK at, nb : Placed(at, nb)
  BY DEF InStep
<1>7. /\ r <= s /\ at \in [r..s -> Nat] /\ nb \in [r..s -> Nat]
      /\ at[r] = 0 /\ nb[r] = inEnd.blocks /\ (\A i, j \in r..s : i <= j => at[i] <= at[j])
      /\ \A i \in r + 1..s : Stands(at, nb, i)
      /\ at[s] = l /\ nb[s] = n
  BY <1>4, <1>6 DEF Placed, InStep
<1>8. /\ lost' = FALSE /\ inEnd' = [input |-> <<>>, blocks |-> inEnd'.blocks] /\ inEnd'.blocks \in Nat
      /\ Len(returned') = r /\ inEnd'.blocks = inEnd.blocks
  BY <1>4 DEF InStep
<1> HIDE DEF c
<1>9. PICK own, d : own = ours /\ d = c /\ d = CodedBy(own, f, n)
  BY <1>4 DEF c
<1>w. Written(f, d)
  BY <1>9 DEF c
<1>10. CASE /\ wire' = wire \o SubSeq(d, 1, Len(d)) /\ sent' = Append(sent, f)
            /\ outEnd' = OutEnd(<<>>, outEnd.blocks + BlockOf(f), outEnd.torn, FALSE)
  <2>1. /\ Len(wire') = l + Len(d) /\ Len(d) \in Nat /\ \A i \in 1..l : wire'[i] = wire[i]
        /\ \A j \in 1..Len(d) : wire'[l + j] = d[j]
        /\ \E R : wire' \in Seq(R)
    <3>1. d \in Seq(T) /\ Len(d) \in 0..Len(d)
      BY <1>2, <1>3, <1>9
    <3>2. /\ wire' \in Seq(S \cup T) /\ Len(wire') = Len(wire) + Len(d)
          /\ \A i \in 1..Len(wire) : wire'[i] = wire[i]
          /\ \A j \in 1..Len(d) : wire'[Len(wire) + j] = d[j]
      BY <1>1, <1>10, <3>1, WireGrows
    <3> QED BY <1>4, <3>1, <3>2
  <2>2. /\ Len(sent') = s + 1 /\ \A i \in 1..s : sent'[i] = sent[i]
        /\ sent'[s + 1] = f
    BY <1>4, <1>5, <1>10, AppendProperties
  <2>3. PICK n2 : n2 = n + BlockOf(f)
    OBVIOUS
  <2>4. n2 \in Nat /\ outEnd'.buf = <<>> /\ outEnd'.blocks = n2 /\ outEnd'.broken = FALSE
    BY <1>4, <1>5, <1>10, <2>3 DEF OutEnd, BlockOf
  <2>5. PICK at2 : at2 = [i \in r..s + 1 |-> IF i <= s THEN at[i] ELSE l + Len(d)]
    OBVIOUS
  <2>6. PICK nb2 : nb2 = [i \in r..s + 1 |-> IF i <= s THEN nb[i] ELSE n2]
    OBVIOUS
  <2>7. /\ at2 \in [r..s + 1 -> Nat] /\ nb2 \in [r..s + 1 -> Nat]
        /\ \A i \in r..s : at2[i] = at[i] /\ nb2[i] = nb[i]
        /\ at2[s + 1] = l + Len(d) /\ nb2[s + 1] = n2
    BY <1>5, <1>7, <2>1, <2>4, <2>5, <2>6
  <2>8. ASSUME NEW i \in r + 1..s PROVE Stands(at2, nb2, i)'
    <3>1. i \in Nat /\ i - 1 \in r..s /\ i \in r..s /\ i \in 1..s
      BY <1>5
    <3>2. Stands(at, nb, i) /\ at[i - 1] \in Nat
      BY <3>1, <1>7
    <3>3. sent'[i] = sent[i] /\ sent[i] \in SpdyFrames
      BY <3>1, <2>2, <1>4, <1>5, ElementOfSeq
    <3>4. at2[i] = at[i] /\ at2[i - 1] = at[i - 1] /\ nb2[i] = nb[i] /\ nb2[i - 1] = nb[i - 1]
      BY <3>1, <2>7
    <3>5. Len(wire) \in Nat /\ Len(wire') \in Nat /\ Len(wire) <= Len(wire')
          /\ \A q \in 1..Len(wire) : wire'[q] = wire[q]
      BY <1>4, <1>5, <2>1
    <3> QED BY <1>5, <3>1, <3>2, <3>3, <3>4, <3>5, StandsOn
  <2>9. Stands(at2, nb2, s + 1)'
    <3>1. PICK e : e = s + 1
      OBVIOUS
    <3>2. e - 1 = s /\ s \in r..s
      BY <1>5, <1>7, <3>1
    <3>3. at2[e - 1] = l /\ nb2[e - 1] = n
      BY <1>7, <2>7, <3>2
    <3>4. CodedBy(ours, sent[e], nb2[e - 1])' = d
      <4>1. ours' = own /\ sent'[e] = f /\ nb2[e - 1] = n
        BY <1>9, <2>2, <3>1, <3>3
      <4>2. CodedBy(ours, sent[e], nb2[e - 1])' = CodedBy(own, f, n)
        BY <4>1 DEF CodedBy, HeadBy, BlocksBy, NamesBy, FlagsBy, Body
      <4> QED BY <4>2, <1>9
    <3>5. at2[e] = at2[e - 1] + Len(d) /\ at2[e] <= Len(wire')
      BY <2>1, <2>7, <3>1, <3>3, <1>5
    <3>6. nb2[e] = nb2[e - 1] + BlockOf(sent[e])'
      <4>1. BlockOf(sent[e])' = BlockOf(f)
        BY <2>2, <3>1 DEF BlockOf
      <4> QED BY <4>1, <2>3, <2>7, <3>1, <3>3
    <3>7. \A j \in 1..Len(d) : wire'[at2[e - 1] + j] = d[j]
      BY <2>1, <3>3
    <3>8. Stands(at2, nb2, e)'
      BY ONLY <3>4, <3>5, <3>6, <3>7 DEF Stands
    <3> QED BY <3>1, <3>8
  <2>10. \A i \in r + 1..s + 1 : Stands(at2, nb2, i)'
    <3> TAKE i \in r + 1..s + 1
    <3>1. i \in r + 1..s \/ i = s + 1
      BY <1>5
    <3> QED BY <3>1, <2>8, <2>9
  <2>11. Placed(at2, nb2)'
    <3>1. r \in r..s /\ at2[r] = 0 /\ nb2[r] = inEnd'.blocks
      BY <1>5, <1>7, <1>8, <2>7
    <3>2. at2[s + 1] = Len(wire') /\ nb2[s + 1] = outEnd'.blocks
      BY <2>1, <2>4, <2>7
    <3>3. \A i, j \in r..s + 1 : i <= j => at2[i] <= at2[j]
      <4> TAKE i, j \in r..s + 1
      <4> HAVE i <= j
      <4>1. CASE j = s + 1
        <5>1. CASE i = s + 1
          BY <4>1, <5>1, <2>7, <2>1, <1>5
        <5>2. CASE i # s + 1
          <6>1. i \in r..s /\ s \in r..s /\ i <= s
            BY <5>2, <1>5, <1>7
          <6>2. at[i] <= l /\ at[i] \in Nat /\ at2[i] = at[i]
            BY <6>1, <1>7, <2>7
          <6> QED BY <6>2, <4>1, <2>7, <2>1, <1>5
        <5> QED BY <5>1, <5>2
      <4>2. CASE j # s + 1
        <5>1. i \in r..s /\ j \in r..s
          BY <4>2, <1>5
        <5> QED BY <5>1, <1>7, <2>7
      <4> QED BY <4>1, <4>2
    <3> QED BY <1>8, <2>2, <2>4, <2>7, <2>10, <3>1, <3>2, <3>3 DEF Placed
  <2>12. Len(returned') <= Len(sent')
    BY <1>5, <1>7, <1>8, <2>2
  <2> QED BY <1>8, <2>1, <2>11, <2>12 DEF InStep
<1>11. CASE /\ \E k \in 0..Len(d) - 1 : wire' = wire \o SubSeq(d, 1, k)
            /\ sent' = sent
            /\ \E x : outEnd' = OutEnd(x, outEnd.blocks + BlockOf(f), outEnd.torn, TRUE)
  <2>1. PICK k \in 0..Len(d) - 1 : wire' = wire \o SubSeq(d, 1, k)
    BY <1>11
  <2>2. /\ Len(wire') = l + k /\ k \in Nat /\ k < Len(d) /\ \A i \in 1..l : wire'[i] = wire[i]
        /\ \A j \in 1..k : wire'[l + j] = d[j]
        /\ \E R : wire' \in Seq(R)
    <3>1. d \in Seq(T) /\ k \in 0..Len(d) /\ k \in Nat /\ k < Len(d)
      BY <1>2, <1>3, <1>9
    <3>2. /\ wire' \in Seq(S \cup T) /\ Len(wire') = Len(wire) + k
          /\ \A i \in 1..Len(wire) : wire'[i] = wire[i]
          /\ \A j \in 1..k : wire'[Len(wire) + j] = d[j]
      BY <1>1, <2>1, <3>1, WireGrows
    <3> QED BY <1>4, <3>1, <3>2
  <2>3. outEnd'.broken = TRUE
    BY <1>11 DEF OutEnd
  <2>4. ASSUME NEW i \in r + 1..s PROVE Stands(at, nb, i)'
    <3>1. i \in Nat /\ i - 1 \in r..s /\ i \in r..s /\ i \in 1..s
      BY <1>5
    <3>2. Stands(at, nb, i) /\ at[i - 1] \in Nat
      BY <3>1, <1>7
    <3>3. sent'[i] = sent[i] /\ sent[i] \in SpdyFrames
      BY <3>1, <1>11, <1>4, <1>5, ElementOfSeq
    <3>5. Len(wire) \in Nat /\ Len(wire') \in Nat /\ Len(wire) <= Len(wire')
          /\ \A q \in 1..Len(wire) : wire'[q] = wire[q]
      BY <1>4, <1>5, <2>2
    <3> QED BY <1>5, <3>1, <3>2, <3>3, <3>5, StandsOn
  <2>5. PartOf(f, at[s], nb[s])'
    <3>1. CodedBy(ours, f, nb[s])' = d
      <4>1. CodedBy(ours, f, nb[s])' = CodedBy(ours, f, nb[s])
        BY CodedKept
      <4>2. CodedBy(ours, f, nb[s]) = d
        BY <1>7, <1>9
      <4> QED BY ONLY <4>1, <4>2
    <3>2. at[s] <= Len(wire') /\ Len(wire') - at[s] = k
      BY <1>5, <1>7, <2>2
    <3> QED BY <3>1, <3>2, <2>2, <1>7 DEF PartOf
  <2>6. Placed(at, nb)'
    <3>1. \E g \in SpdyFrames : PartOf(g, at[s], nb[s])'
      BY <2>5
    <3>2. Len(sent') = s
      BY <1>4, <1>11
    <3> QED BY <1>7, <1>8, <2>3, <2>4, <3>1, <3>2 DEF Placed, SpdyFrames
  <2>7. Len(returned') <= Len(sent')
    BY <1>4, <1>7, <1>8, <1>11
  <2> QED BY <1>8, <2>2, <2>6, <2>7 DEF InStep
<1>12. CASE outEnd' = OutEnd(<<>>, outEnd.blocks + BlockOf(f), outEnd.torn + 1, FALSE)
  <2>1. outEnd'.torn = outEnd.torn + 1
    BY <1>12 DEF OutEnd
  <2> QED BY <2>1 DEF SpdyTypes
<1> QED BY <1>w, <1>10, <1>11, <1>12 DEF Written

LEMMA WritesKeep ==
    ASSUME SpdyInv, ~outEnd.broken, NEW f \in SpdyFrames, Puts(f),
           UNCHANGED <<ours, returned, inEnd, lost>>
    PROVE  SpdyInv'
<1>1. SpdyTypes
  BY DEF SpdyInv
<1>2. Written(f, CodedBy(ours, f, outEnd.blocks))
  BY <1>1, PutsIs
<1>3. SpdyTypes'
  BY <1>1, <1>2, WritesKeepTypes
<1>4. ASSUME outEnd'.torn = 0 PROVE outEnd.torn = 0
  <2>1. outEnd.torn \in Nat
    BY <1>1 DEF SpdyTypes
  <2>2. outEnd'.torn = outEnd.torn \/ outEnd'.torn = outEnd.torn + 1
    BY <1>2 DEF Written, OutEnd
  <2> QED BY <1>4, <2>1, <2>2
<1>5. ASSUME outEnd'.torn = 0 PROVE KeptSoFar'
  <2>1. KeptSoFar
    BY <1>4, <1>5 DEF SpdyInv
  <2>2. Len(sent) \in Nat /\ Len(sent) <= Len(sent') /\ \A i \in 1..Len(sent) : sent'[i] = sent[i]
    <3>1. sent' = sent \/ sent' = Append(sent, f)
      BY <1>2 DEF Written
    <3>2. sent \in Seq(SpdyFrames)
      BY <1>1 DEF SpdyTypes
    <3> QED BY <3>1, <3>2, AppendProperties
  <2>3. DOMAIN returned' = DOMAIN returned /\ DOMAIN returned = 1..Len(returned) /\ Len(returned) \in Nat
    BY <1>1, LenProperties DEF SpdyTypes
  <2>4. ASSUME NEW i \in DOMAIN returned, SafeTo(i)
        PROVE  i <= Len(sent') /\ (NoError(returned[i]) => returned[i] = MeansBy(ours, sent'[i]))
    <3>1. i <= Len(sent) /\ (NoError(returned[i]) => returned[i] = MeansBy(ours, sent[i]))
      BY <2>1, <2>4 DEF KeptSoFar
    <3>2. i \in 1..Len(sent) /\ i <= Len(sent')
      BY <2>2, <2>3, <3>1, <1>3, LenProperties DEF SpdyTypes
    <3> QED BY <2>2, <3>1, <3>2
  <2>5. \A i : SafeTo(i)' <=> SafeTo(i)
    BY DEF SafeTo, Stays, NoError
  <2> QED BY <2>3, <2>4, <2>5 DEF KeptSoFar, NoError, MeansBy, FlagsBy
<1>6. ASSUME outEnd'.torn = 0, SafeTo(Len(returned))' PROVE InStep'
  <2>1. SafeTo(Len(returned))
    BY <1>6 DEF SafeTo, Stays, NoError
  <2>2. InStep
    BY <2>1, <1>4, <1>6 DEF SpdyInv
  <2> QED BY <1>1, <1>2, <1>4, <1>6, <2>2, WritesKeepStep
<1> QED BY <1>3, <1>5, <1>6 DEF SpdyInv

-----------------------------------------------------------------------------
(* Reading keeps the invariant. *)

LEMMA ReadGives ==
    ASSUME ReadFrame
    PROVE  \/ returned' = returned /\ lost' = TRUE
           \/ \E res : returned' = Append(returned, res)
<1>1. CASE ReadsData
  BY <1>1 DEF ReadsData, Returns
<1>2. CASE TakesForHeader
  BY <1>2 DEF TakesForHeader
<1>3. CASE ReadsControl
  <2>1. CASE wire[1][2] \in Control
    BY <1>3, <2>1 DEF ReadsControl, ReadsPayload, Returns
  <2>2. CASE wire[1][2] \notin Control
    BY <1>3, <2>2 DEF ReadsControl, Returns
  <2> QED BY <2>1, <2>2
<1> QED BY <1>1, <1>2, <1>3 DEF ReadFrame

\* The frames behind the one that is read are in place when it is gone.
LEMMA StandsBehind ==
    ASSUME NEW at, NEW nb, NEW at2, NEW nb2, NEW i \in Nat, Stands(at, nb, i), NEW k \in Nat,
           at[i - 1] \in Nat, at[i] \in Nat, k <= at[i - 1], Len(wire) \in Nat, k <= Len(wire),
           Len(wire') = Len(wire) - k, \A q \in 1..Len(wire) - k : wire'[q] = wire[q + k],
           sent' = sent, sent[i] \in SpdyFrames, ours \in BOOLEAN, ours' = ours,
           at2[i] = at[i] - k, at2[i - 1] = at[i - 1] - k,
           nb2[i] = nb[i], nb2[i - 1] = nb[i - 1]
    PROVE  Stands(at2, nb2, i)'
<1> DEFINE c == CodedBy(ours, sent[i], nb[i - 1])
<1>1. Len(c) \in Nat
  BY CodedSeq
<1>2. CodedBy(ours, sent[i], nb2[i - 1])' = c
  <2>1. PICK own, g, n : own = ours /\ g = sent[i] /\ n = nb[i - 1]
    OBVIOUS
  <2>2. CodedBy(ours, sent[i], nb2[i - 1])' = CodedBy(own, g, n)
    BY <2>1 DEF CodedBy, HeadBy, BlocksBy, NamesBy, FlagsBy, Body
  <2> QED BY <2>1, <2>2
<1>3. at[i] = at[i - 1] + Len(c) /\ at[i] <= Len(wire) /\ nb[i] = nb[i - 1] + BlockOf(sent[i])
      /\ \A j \in 1..Len(c) : wire[at[i - 1] + j] = c[j]
  BY DEF Stands
<1> HIDE DEF c
<1>4. ASSUME NEW j \in 1..Len(c) PROVE wire'[at2[i - 1] + j] = c[j]
  <2>1. at2[i - 1] + j \in 1..Len(wire) - k /\ at2[i - 1] + j + k = at[i - 1] + j
    <3>1. PICK a, b, w, l : a = at[i - 1] /\ b = at2[i - 1] /\ w = Len(wire) /\ l = Len(c)
      OBVIOUS
    <3>2. a \in Nat /\ w \in Nat /\ l \in Nat /\ b = a - k /\ k <= a /\ a + l <= w /\ j \in 1..l
      BY <1>1, <1>3, <3>1
    <3>3. b + j \in 1..w - k /\ b + j + k = a + j
      BY ONLY <3>2, k \in Nat
    <3> QED BY ONLY <3>1, <3>3
  <2>2. wire'[at2[i - 1] + j] = wire[at2[i - 1] + j + k]
    BY <2>1
  <2> QED BY <2>1, <2>2, <1>3
<1>5. at2[i] <= Len(wire') /\ at2[i] = at2[i - 1] + Len(c)
  BY <1>1, <1>3
<1> QED BY <1>2, <1>3, <1>4, <1>5 DEF Stands, BlockOf

LEMMA ReadInStep ==
    ASSUME SpdyTypes, InStep, ReadFrame
    PROVE  \E res :
             /\ returned' = Append(returned, res)
             /\ Stays(res) => /\ Len(returned) + 1 <= Len(sent)
                              /\ NoError(res) => res = MeansBy(ours, sent[Len(returned) + 1])
                              /\ InStep'
<1>1. PICK S : wire \in Seq(S)
  BY DEF InStep
<1>2. PICK R : returned \in Seq(R)
  BY DEF SpdyTypes
<1>3. PICK r, s, l : r = Len(returned) /\ s = Len(sent) /\ l = Len(wire)
  OBVIOUS
<1>4. r \in Nat /\ s \in Nat /\ l \in Nat /\ l >= 2 /\ sent \in Seq(SpdyFrames) /\ ours \in BOOLEAN
      /\ sent' = sent /\ ours' = ours /\ outEnd' = outEnd
  BY <1>1, <1>2, <1>3, LenProperties DEF SpdyTypes, ReadFrame
<1>5. PICK at, nb : Placed(at, nb)
  BY DEF InStep
<1>6. /\ r <= s /\ at \in [r..s -> Nat] /\ nb \in [r..s -> Nat]
      /\ at[r] = 0 /\ nb[r] = inEnd.blocks /\ (\A i, j \in r..s : i <= j => at[i] <= at[j])
      /\ \A i \in r + 1..s : Stands(at, nb, i)
      /\ ~outEnd.broken => at[s] = l /\ nb[s] = outEnd.blocks
      /\ outEnd.broken => \E f \in SpdyFrames : PartOf(f, at[s], nb[s])
  BY <1>3, <1>5 DEF Placed, InStep
<1>7. CASE r = s
  <2>1. outEnd.broken
    BY <1>4, <1>6, <1>7
  <2>2. PICK f \in SpdyFrames : PartOf(f, 0, nb[s])
    BY <1>6, <1>7, <2>1
  <2>3. Piece(f, nb[s])
    <3> DEFINE c == CodedBy(ours, f, nb[s])
    <3>1. Len(wire) - 0 < Len(c) /\ \A j \in 1..Len(wire) - 0 : wire[0 + j] = c[j]
      BY <2>2 DEF PartOf
    <3> HIDE DEF c
    <3>2. Len(wire) < Len(c) /\ \A j \in 1..Len(wire) : wire[j] = c[j]
      BY <3>1, <1>3, <1>4
    <3> QED BY <3>2, <1>1 DEF Piece, c
  <2>4. PICK res : returned' = Append(returned, res) /\ ~Stays(res)
    BY <1>4, <2>3, PieceIsRead
  <2> QED BY <2>4
<1>8. CASE r < s
  <2>1. PICK f, n : f = sent[r + 1] /\ n = nb[r]
    OBVIOUS
  <2>2. r + 1 \in r + 1..s /\ r + 1 - 1 = r /\ r \in r..s /\ r + 1 \in r..s /\ r + 1 \in 1..s
    BY <1>4, <1>8
  <2>3. f \in SpdyFrames /\ n \in Nat
    BY <1>3, <1>4, <1>6, <2>1, <2>2, ElementOfSeq
  <2>4. PICK own, c : own = ours /\ c = CodedBy(ours, f, n)
    OBVIOUS
  <2>5. /\ at[r + 1] = Len(c) /\ Len(c) <= l /\ nb[r + 1] = n + BlockOf(f)
        /\ \A j \in 1..Len(c) : wire[j] = c[j]
        /\ Len(c) \in Nat
    <3>1. Len(c) \in Nat
      BY <1>4, <2>3, <2>4, CodedSeq
    <3>2. PICK e : e = r + 1
      OBVIOUS
    <3>3. Stands(at, nb, e) /\ e - 1 = r
      BY <1>6, <2>2, <3>2
    <3>4. CodedBy(ours, sent[e], nb[e - 1]) = c
      BY <2>1, <2>4, <3>2, <3>3
    <3>5. /\ at[e] = at[e - 1] + Len(c) /\ at[e] <= Len(wire)
          /\ nb[e] = nb[e - 1] + BlockOf(sent[e])
          /\ \A j \in 1..Len(c) : wire[at[e - 1] + j] = c[j]
      BY ONLY <3>3, <3>4 DEF Stands
    <3>6. at[e - 1] = 0 /\ nb[e - 1] = n
      BY <1>6, <2>1, <3>3
    <3>7. ASSUME NEW j \in 1..Len(c) PROVE wire[j] = c[j]
      BY <3>1, <3>5, <3>6
    <3> QED BY <3>1, <3>2, <3>5, <3>6, <3>7, <1>3, <2>1
  <2>6. AtFront(f, n)
    BY <1>1, <1>3, <2>4, <2>5 DEF AtFront
  <2>7. inEnd = [input |-> <<>>, blocks |-> n]
    BY <1>6, <2>1 DEF InStep
  <2>8. PICK res : Leaving(f, n, res)
    BY <1>4, <2>3, <2>6, <2>7, FrontIsRead
  <2>9. returned' = Append(returned, res) /\ (NoError(res) => res = MeansBy(ours, f))
    BY <2>8 DEF Leaving
  <2>10. ASSUME Stays(res) PROVE InStep'
    <3>1. /\ lost' = lost
          /\ wire' = SubSeq(wire, Len(c) + 1, l)
          /\ inEnd' = [input |-> <<>>, blocks |-> IF f.type \in HasHeaders THEN n + 1 ELSE n]
      BY <2>8, <2>10, <2>4, <1>3 DEF Leaving
    <3>2. /\ Len(wire') = l - Len(c) /\ (\A q \in 1..l - Len(c) : wire'[q] = wire[q + Len(c)])
          /\ wire' \in Seq(S)
      <4>1. \A q \in Len(c) + 1..l : wire[q] \in S
        BY <1>1, <1>3, <1>4, <2>5, ElementOfSeq
      <4>2. /\ wire' \in Seq(S)
            /\ Len(wire') = (IF Len(c) + 1 <= l THEN l - (Len(c) + 1) + 1 ELSE 0)
            /\ \A q \in 1..l - (Len(c) + 1) + 1 : wire'[q] = wire[Len(c) + 1 + q - 1]
        BY <4>1, <3>1, <1>4, <2>5, SubSeqProperties
      <4>3. Len(wire') = l - Len(c)
        BY <4>2, <1>4, <2>5
      <4>4. ASSUME NEW q \in 1..l - Len(c) PROVE wire'[q] = wire[q + Len(c)]
        <5>1. q \in 1..l - (Len(c) + 1) + 1 /\ Len(c) + 1 + q - 1 = q + Len(c)
          BY <1>4, <2>5
        <5> QED BY <4>2, <5>1
      <4> QED BY <4>2, <4>3, <4>4
    <3>3. PICK m : m = n + BlockOf(f)
      OBVIOUS
    <3>4. m \in Nat /\ inEnd' = [input |-> <<>>, blocks |-> m]
      BY <3>1, <3>3, <2>3 DEF BlockOf
    <3>5. inEnd'.blocks = m
      BY <3>4
    <3>6. Len(returned') = r + 1
      BY <1>2, <1>3, <2>9, AppendProperties
    <3>7. PICK at2, nb2 : /\ at2 = [i \in r + 1..s |-> at[i] - Len(c)]
                          /\ nb2 = [i \in r + 1..s |-> nb[i]]
      OBVIOUS
    <3>8. \A i \in r + 1..s : i \in r..s /\ Len(c) <= at[i] /\ at[i] \in Nat /\ nb[i] \in Nat
      <4> TAKE i \in r + 1..s
      <4>1. i \in r..s /\ r + 1 <= i
        BY <1>4
      <4> QED BY <4>1, <1>6, <2>2, <2>5
    <3>9. /\ at2 \in [r + 1..s -> Nat] /\ nb2 \in [r + 1..s -> Nat]
          /\ \A i \in r + 1..s : at2[i] = at[i] - Len(c) /\ nb2[i] = nb[i]
      BY <3>7, <3>8, <2>5
    <3>10. at2[r + 1] = 0 /\ nb2[r + 1] = m
      BY <3>9, <2>2, <2>5, <3>3
    <3>11. \A i, j \in r + 1..s : i <= j => at2[i] <= at2[j]
      <4> TAKE i, j \in r + 1..s
      <4> HAVE i <= j
      <4>1. at[i] <= at[j] /\ at[i] \in Nat /\ at[j] \in Nat
        BY <1>6, <3>8
      <4> QED BY <4>1, <3>9, <2>5
    <3>12. ASSUME NEW i \in r + 1 + 1..s PROVE Stands(at2, nb2, i)'
      <4>1. i \in Nat /\ i \in r + 1..s /\ i - 1 \in r + 1..s /\ i \in 1..s
        BY <1>4
      <4>2. Stands(at, nb, i) /\ sent[i] \in SpdyFrames
        BY <4>1, <1>6, <1>3, <1>4, ElementOfSeq
      <4>3. at[i - 1] \in Nat /\ at[i] \in Nat /\ Len(c) <= at[i - 1]
        BY <4>1, <3>8
      <4>4. at2[i] = at[i] - Len(c) /\ at2[i - 1] = at[i - 1] - Len(c)
            /\ nb2[i] = nb[i] /\ nb2[i - 1] = nb[i - 1]
        BY <4>1, <3>9
      <4>5. Len(wire) \in Nat /\ Len(c) <= Len(wire) /\ Len(wire') = Len(wire) - Len(c)
            /\ (\A q \in 1..Len(wire) - Len(c) : wire'[q] = wire[q + Len(c)]) /\ Len(c) \in Nat
        BY <1>3, <1>4, <2>5, <3>2
      <4> QED BY <4>1, <4>2, <4>3, <4>4, <4>5, <1>4, StandsBehind
    <3>13. s \in r + 1..s
      BY <1>4, <1>8
    <3>14. ~outEnd'.broken => at2[s] = Len(wire') /\ nb2[s] = outEnd'.blocks
      BY <3>13, <3>9, <3>2, <1>4, <1>6
    <3>15. ASSUME outEnd'.broken PROVE \E g \in SpdyFrames : PartOf(g, at2[s], nb2[s])'
      <4>1. PICK g \in SpdyFrames : PartOf(g, at[s], nb[s])
        BY <3>15, <1>4, <1>6
      <4>2. PICK d, a, b : d = CodedBy(ours, g, nb[s]) /\ a = at[s] /\ b = at2[s]
        OBVIOUS
      <4>3. a \in Nat /\ b = a - Len(c) /\ Len(c) <= a /\ nb2[s] = nb[s]
        BY <3>8, <3>9, <3>13, <4>2
      <4>4. a <= l /\ l - a < Len(d) /\ \A j \in 1..l - a : wire[a + j] = d[j]
        BY <4>1, <4>2, <1>3 DEF PartOf
      <4>5. Len(d) \in Nat
        BY <4>2, <1>4, CodedSeq
      <4>6. b <= Len(wire') /\ Len(wire') - b = l - a
        <5>1. PICK e, w : e = Len(c) /\ w = Len(wire')
          OBVIOUS
        <5>2. e \in Nat /\ l \in Nat /\ w = l - e /\ b = a - e /\ a <= l /\ a \in Nat
          BY ONLY <4>3, <4>4, <3>2, <1>4, <2>5, <5>1
        <5>3. b <= w /\ w - b = l - a
          BY ONLY <5>2
        <5> QED BY ONLY <5>1, <5>3
      <4>7. ASSUME NEW j \in 1..l - a PROVE wire'[b + j] = d[j]
        <5>1. b + j \in 1..l - Len(c) /\ b + j + Len(c) = a + j
          BY <4>3, <4>4, <1>4, <2>5
        <5>2. wire'[b + j] = wire[b + j + Len(c)]
          BY <5>1, <3>2
        <5> QED BY <5>1, <5>2, <4>4
      <4>8. CodedBy(ours, g, nb2[s])' = d
        <5>1. PICK e : e = nb[s]
          OBVIOUS
        <5>2. CodedBy(ours, g, nb2[s])' = CodedBy(own, g, e)
          BY <5>1, <4>3, <1>4, <2>4 DEF CodedBy, HeadBy, BlocksBy, NamesBy, FlagsBy, Body
        <5> QED BY <5>1, <5>2, <4>2, <2>4
      <4>9. PartOf(g, at2[s], nb2[s])'
        BY <4>2, <4>4, <4>5, <4>6, <4>7, <4>8 DEF PartOf
      <4> QED BY <4>9
    <3>16. Placed(at2, nb2)'
      <4>1. Len(sent') = s
        BY <1>3, <1>4
      <4> QED BY <4>1, <3>5, <3>6, <3>9, <3>10, <3>11, <3>12, <3>14, <3>15 DEF Placed, SpdyFrames
    <3>17. lost' = FALSE /\ Len(returned') <= Len(sent')
      BY <3>1, <3>6, <1>3, <1>4, <1>8 DEF InStep
    <3>18. inEnd' = [input |-> <<>>, blocks |-> inEnd'.blocks] /\ inEnd'.blocks \in Nat
      BY <3>4, <3>5
    <3> QED BY <3>2, <3>16, <3>17, <3>18 DEF InStep
  <2>11. Len(returned) + 1 <= Len(sent)
    BY <1>3, <1>4, <1>8
  <2> QED BY <2>1, <2>9, <2>10, <2>11, <1>3
<1> QED BY <1>4, <1>6, <1>7, <1>8

LEMMA ReadsKeep ==
    ASSUME SpdyInv, ReadFrame
    PROVE  SpdyInv'
<1>1. SpdyTypes /\ UNCHANGED <<ours, sent, outEnd>>
  BY DEF SpdyInv, ReadFrame
<1>2. PICK R : returned \in Seq(R)
  BY <1>1 DEF SpdyTypes
<1>3. \/ returned' = returned /\ lost' = TRUE
      \/ \E res : returned' = Append(returned, res)
  BY ReadGives
<1>4. SpdyTypes'
  <2>1. \E T : returned' \in Seq(T)
    <3>1. CASE returned' = returned
      BY <3>1, <1>2
    <3>2. CASE \E res : returned' = Append(returned, res)
      <4>1. PICK res : returned' = Append(returned, res)
        BY <3>2
      <4>2. returned \in Seq(R \cup {res}) /\ res \in R \cup {res}
        BY <1>2, SeqMonotonic
      <4> QED BY <4>1, <4>2, AppendProperties
    <3> QED BY <1>3, <3>1, <3>2
  <2> QED BY <1>1, <2>1 DEF SpdyTypes
<1> SUFFICES ASSUME outEnd.torn = 0
             PROVE  KeptSoFar' /\ (SafeTo(Len(returned))' => InStep')
  BY <1>1, <1>4 DEF SpdyInv
<1>5. KeptSoFar /\ (SafeTo(Len(returned)) => InStep)
  BY DEF SpdyInv
<1>6. PICK r : r = Len(returned) /\ r \in Nat /\ DOMAIN returned = 1..r
  BY <1>2, LenProperties
<1>7. CASE returned' = returned /\ lost' = TRUE
  <2>1. ~SafeTo(Len(returned))
    <3> SUFFICES ASSUME SafeTo(Len(returned)) PROVE FALSE
      OBVIOUS
    <3>1. PICK res : returned' = Append(returned, res)
      BY <1>1, <1>5, ReadInStep
    <3>2. Append(returned, res) # returned
      <4>1. returned \in Seq(R \cup {res}) /\ res \in R \cup {res}
        BY <1>2, SeqMonotonic
      <4>2. Len(Append(returned, res)) = r + 1
        BY <4>1, <1>6, AppendProperties
      <4> QED BY <4>2, <1>6
    <3> QED BY <3>1, <3>2, <1>7
  <2>2. \A i : SafeTo(i)' <=> SafeTo(i)
    BY <1>7 DEF SafeTo, Stays, NoError
  <2>3. KeptSoFar'
    BY <1>1, <1>5, <1>7, <2>2 DEF KeptSoFar, NoError, MeansBy, FlagsBy
  <2> QED BY <2>1, <2>2, <2>3, <1>7 DEF SafeTo, Stays, NoError
<1>8. CASE \E res : returned' = Append(returned, res)
  <2>1. PICK res : /\ returned' = Append(returned, res)
                   /\ SafeTo(Len(returned)) /\ Stays(res) =>
                        /\ r + 1 <= Len(sent)
                        /\ NoError(res) => res = MeansBy(ours, sent[r + 1])
                        /\ InStep'
    <3>1. CASE SafeTo(Len(returned))
      BY <3>1, <1>1, <1>5, <1>6, ReadInStep
    <3>2. CASE ~SafeTo(Len(returned))
      BY <3>2, <1>8
    <3> QED BY <3>1, <3>2
  <2>2. /\ Len(returned') = r + 1 /\ DOMAIN returned' = 1..r + 1
        /\ \A i \in 1..r : returned'[i] = returned[i]
        /\ returned'[r + 1] = res
    <3>1. returned \in Seq(R \cup {res}) /\ res \in R \cup {res}
      BY <1>2, SeqMonotonic
    <3> QED BY <3>1, <2>1, <1>6, AppendProperties, LenProperties
  <2>3. \A i \in 1..r : SafeTo(i)' => SafeTo(i)
    <3> SUFFICES ASSUME NEW i \in 1..r, SafeTo(i)', NEW j \in 1..i PROVE Stays(returned[j])
      BY DEF SafeTo
    <3>1. j \in 1..r
      BY <1>6
    <3>2. Stays(returned[j])'
      BY DEF SafeTo
    <3> QED BY <3>1, <3>2, <2>2 DEF Stays, NoError
  <2>4. SafeTo(r + 1)' => SafeTo(Len(returned)) /\ Stays(res)
    <3> SUFFICES ASSUME SafeTo(r + 1)' PROVE SafeTo(Len(returned)) /\ Stays(res)
      OBVIOUS
    <3>1. \A j \in 1..r + 1 : Stays(returned'[j])
      BY DEF SafeTo, Stays, NoError
    <3>2. r + 1 \in 1..r + 1 /\ \A j \in 1..r : j \in 1..r + 1
      BY <1>6
    <3>3. Stays(res)
      BY <3>1, <3>2, <2>2
    <3>4. \A j \in 1..r : Stays(returned[j])
      BY <3>1, <3>2, <2>2
    <3> QED BY <3>3, <3>4, <1>6 DEF SafeTo
  <2>5. KeptSoFar'
    <3> SUFFICES ASSUME NEW i \in 1..r + 1, SafeTo(i)'
                 PROVE  /\ i <= Len(sent)
                        /\ NoError(returned'[i]) => returned'[i] = MeansBy(ours, sent[i])
      BY <1>1, <2>2 DEF KeptSoFar, NoError, MeansBy, FlagsBy
    <3>1. CASE i = r + 1
      BY <3>1, <2>1, <2>2, <2>4
    <3>2. CASE i # r + 1
      <4>1. i \in 1..r
        BY <3>2, <1>6
      <4> QED BY <4>1, <2>2, <2>3, <1>5, <1>6 DEF KeptSoFar
    <3> QED BY <3>1, <3>2
  <2>6. SafeTo(Len(returned))' => InStep'
    <3>1. SafeTo(Len(returned))' => SafeTo(r + 1)'
      BY <2>2 DEF SafeTo, Stays, NoError
    <3> QED BY <3>1, <2>4, <2>1
  <2> QED BY <2>5, <2>6
<1> QED BY <1>3, <1>7, <1>8

LEMMA SpdyIdles ==
    ASSUME SpdyInv, UNCHANGED spdyVars
    PROVE  SpdyInv'
<1>1. UNCHANGED <<ours, wire, sent, returned, outEnd, inEnd, lost>>
  BY DEF spdyVars
<1>2. SpdyTypes => SpdyTypes'
  BY <1>1 DEF SpdyTypes
<1>3. KeptSoFar => KeptSoFar'
  BY <1>1 DEF KeptSoFar, SafeTo, Stays, NoError, MeansBy, FlagsBy
<1>4. SafeTo(Len(returned))' => SafeTo(Len(returned))
  BY <1>1 DEF SafeTo, Stays, NoError
<1>5. InStep => InStep'
  <2> SUFFICES ASSUME InStep PROVE InStep'
    OBVIOUS
  <2>1. PICK at, nb : Placed(at, nb)
    BY DEF InStep
  <2>2. ASSUME NEW g, NEW n PROVE CodedBy(ours, g, n)' = CodedBy(ours, g, n)
    BY <1>1 DEF CodedBy, HeadBy, BlocksBy, NamesBy, FlagsBy, Body
  <2>3. ASSUME NEW i, Stands(at, nb, i) PROVE Stands(at, nb, i)'
    <3>1. PICK g : g = sent[i]
      OBVIOUS
    <3>2. CodedBy(ours, sent[i], nb[i - 1])' = CodedBy(ours, sent[i], nb[i - 1])
      <4>1. CodedBy(ours, g, nb[i - 1])' = CodedBy(ours, g, nb[i - 1])
        BY <2>2
      <4>2. sent'[i] = g
        BY <1>1, <3>1
      <4> QED BY <4>1, <4>2, <3>1, <1>1 DEF CodedBy, HeadBy, BlocksBy, NamesBy, FlagsBy, Body
    <3> QED BY <1>1, <2>3, <3>2 DEF Stands, BlockOf
  <2>4. ASSUME NEW g, NEW a, NEW n, PartOf(g, a, n) PROVE PartOf(g, a, n)'
    BY <1>1, <2>2, <2>4 DEF PartOf
  <2>5. Placed(at, nb)'
    <3>1. ASSUME outEnd'.broken
          PROVE  \E g \in SpdyFrames : PartOf(g, at[Len(sent)], nb[Len(sent)])'
      <4>1. PICK g \in SpdyFrames : PartOf(g, at[Len(sent)], nb[Len(sent)])
        BY <1>1, <2>1, <3>1 DEF Placed
      <4>2. PICK a, n : a = at[Len(sent)] /\ n = nb[Len(sent)]
        OBVIOUS
      <4>3. PartOf(g, a, n)'
        BY <4>1, <4>2, <2>4
      <4> QED BY <4>2, <4>3, <1>1
    <3> QED BY <1>1, <2>1, <2>3, <3>1 DEF Placed, SpdyFrames
  <2> QED BY <1>1, <2>5 DEF InStep
<1> QED BY <1>1, <1>2, <1>3, <1>4, <1>5 DEF SpdyInv

(* SPDY frames are read as they were written, in order and once, for any frames *)
(* that this end writes and any cells the other side sends, until a frame left  *)
(* its payload behind; and the two ends' compression stays in step.             *)
THEOREM FramesStayKept == SpdySpec => []FramesAreKept
<1>1. SpdyInv /\ [SpdyNext]_spdyVars => SpdyInv'
  <2> SUFFICES ASSUME SpdyInv, [SpdyNext]_spdyVars PROVE SpdyInv'
    OBVIOUS
  <2>1. ASSUME NEW f \in Frames, WriteFrame(f) PROVE SpdyInv'
    <3>1. CASE Refused(f)
      <4>1. UNCHANGED spdyVars
        BY <2>1, <3>1 DEF WriteFrame, spdyVars
      <4> QED BY <4>1, SpdyIdles
    <3>2. CASE ~Refused(f)
      BY <2>1, <3>2, WritesKeep DEF WriteFrame, SpdyFrames
    <3> QED BY <3>1, <3>2
  <2>2. ASSUME NEW f \in PeerFrames, PeerWrites(f) PROVE SpdyInv'
    BY <2>2, WritesKeep DEF PeerWrites, SpdyFrames
  <2>3. CASE ReadFrame
    BY <2>3, ReadsKeep
  <2>4. CASE UNCHANGED spdyVars
    BY <2>4, SpdyIdles
  <2> QED BY <2>1, <2>2, <2>3, <2>4 DEF SpdyNext
<1>2. SpdyInit => SpdyInv
  BY SpdyInvStarts
<1>3. SpdyInv => FramesAreKept
  BY SpdyInvIsEnough
<1> QED BY <1>1, <1>2, <1>3, PTL DEF SpdySpec

(***************************************************************************)
(* Control messages of ipv4 and ipv6                                       *)
(***************************************************************************)

\* What the systems have in common: an option is in one group, no flag is in two,
\* and no field but those of the path MTU is in two messages.
GroupsFit ==
    /\ DOMAIN Groups \in {1..0, 1..2, 1..3, 1..4} /\ DOMAIN Groups = 1..Len(Groups)
    /\ \A j \in DOMAIN Groups :
          Groups[j].flags # {} /\ IsFiniteSet(Groups[j].flags) /\ Groups[j].space \in 3..6
    /\ \A j, k \in DOMAIN Groups :
          j # k => /\ Groups[j].option # Groups[k].option
                   /\ Groups[j].flags \cap Groups[k].flags = {}
                   /\ "pathmtu" \notin {Groups[j].option, Groups[k].option} =>
                         FieldsOf(Groups[j].option) \cap FieldsOf(Groups[k].option) = {}

LEMMA GroupsDoFit == ASSUME system \in DOMAIN Systems PROVE GroupsFit
<1> DEFINE G == Groups
<1>0. system \in {"linux4", "bsd4", "unix6", "oldDarwin6", "windows"}
  BY DEF Systems
<1>f. \A S \in {{"TTL"}, {"Src", "Dst", "Interface"}, {"Dst"}, {"Interface"}, {"TrafficClass"},
                {"HopLimit"}, {"Dst", "Interface"}, {"PathMTU"}} : IsFiniteSet(S)
  <2>1. \A a : IsFiniteSet({a})
    BY FS_Singleton
  <2>2. ASSUME NEW a, NEW b PROVE IsFiniteSet({a, b})
    <3>1. {a, b} = {a} \cup {b}
      OBVIOUS
    <3>2. IsFiniteSet({a} \cup {b})
      BY <2>1, FS_AddElement
    <3> QED BY <3>1, <3>2
  <2>3. ASSUME NEW a, NEW b, NEW c PROVE IsFiniteSet({a, b, c})
    <3>1. {a, b, c} = {a, b} \cup {c}
      OBVIOUS
    <3>2. IsFiniteSet({a, b} \cup {c})
      BY <2>2, FS_AddElement
    <3> QED BY <3>1, <3>2
  <2>4. IsFiniteSet({"Src", "Dst", "Interface"}) /\ IsFiniteSet({"Dst", "Interface"})
    BY <2>2, <2>3
  <2> QED BY <2>1, <2>4
<1>g. /\ IsFiniteSet({"TTL"}) /\ IsFiniteSet({"Dst"}) /\ IsFiniteSet({"Interface"})
      /\ IsFiniteSet({"TrafficClass"}) /\ IsFiniteSet({"HopLimit"}) /\ IsFiniteSet({"PathMTU"})
      /\ IsFiniteSet({"Dst", "Interface"})
  BY ONLY <1>f
<1>1. CASE system = "linux4"
  <2>1. G = PacketInfo4
    BY <1>1 DEF Groups, Systems
  <2>2. DOMAIN G = 1..2 /\ Len(G) = 2 /\ \A j \in 1..2 : j = 1 \/ j = 2
    BY <2>1 DEF PacketInfo4
  <2>3. G[1] = Group("ttl", {"TTL"}, 3) /\ G[2] = Group("pktinfo", {"Src", "Dst", "Interface"}, 4)
    BY <2>1 DEF PacketInfo4
  <2> HIDE DEF G
  <2> QED BY <1>f, <2>2, <2>3 DEF GroupsFit, Group, FieldsOf, G
<1>2. CASE system = "bsd4"
  <2>1. G = DstAddr4
    BY <1>2 DEF Groups, Systems
  <2>2. DOMAIN G = 1..3 /\ Len(G) = 3 /\ \A j \in 1..3 : j = 1 \/ j = 2 \/ j = 3
    BY <2>1 DEF DstAddr4
  <2>3. /\ G[1] = Group("ttl", {"TTL"}, 3)
        /\ G[2] = Group("dst", {"Dst"}, 3)
        /\ G[3] = Group("interface", {"Interface"}, 5)
    BY <2>1 DEF DstAddr4
  <2> HIDE DEF G
  <2>4. /\ G[1].option = "ttl" /\ G[1].flags = {"TTL"} /\ G[1].space = 3
        /\ G[2].option = "dst" /\ G[2].flags = {"Dst"} /\ G[2].space = 3
        /\ G[3].option = "interface" /\ G[3].flags = {"Interface"} /\ G[3].space = 5
    BY ONLY <2>3 DEF Group
  <2>5. /\ FieldsOf("ttl") = {"TTL"}
        /\ FieldsOf("dst") = {"Dst"}
        /\ FieldsOf("interface") = {"IfIndex"}
    BY DEF FieldsOf
  <2>6. DOMAIN G \in {1..0, 1..2, 1..3, 1..4} /\ DOMAIN G = 1..Len(G)
    BY ONLY <2>2
  <2>7. ASSUME NEW j \in DOMAIN G
        PROVE  G[j].flags # {} /\ IsFiniteSet(G[j].flags) /\ G[j].space \in 3..6
    <3>1. j = 1 \/ j = 2 \/ j = 3
      BY <2>2
    <3>2. CASE j = 1
      BY ONLY <1>g, <2>4, <3>2
    <3>3. CASE j = 2
      BY ONLY <1>g, <2>4, <3>3
    <3>4. CASE j = 3
      BY ONLY <1>g, <2>4, <3>4
    <3> QED BY ONLY <3>1, <3>2, <3>3, <3>4
  <2>8. ASSUME NEW j \in DOMAIN G, NEW i \in DOMAIN G, j # i
        PROVE  /\ G[j].option # G[i].option /\ G[j].flags \cap G[i].flags = {}
               /\ "pathmtu" \notin {G[j].option, G[i].option} =>
                     FieldsOf(G[j].option) \cap FieldsOf(G[i].option) = {}
    <3>1. (j = 1 \/ j = 2 \/ j = 3) /\ (i = 1 \/ i = 2 \/ i = 3)
      BY <2>2
    <3>2. CASE j = 1
      BY ONLY <2>4, <2>5, <2>8, <3>1, <3>2
    <3>3. CASE j = 2
      BY ONLY <2>4, <2>5, <2>8, <3>1, <3>3
    <3>4. CASE j = 3
      BY ONLY <2>4, <2>5, <2>8, <3>1, <3>4
    <3> QED BY ONLY <3>1, <3>2, <3>3, <3>4
  <2> QED BY ONLY <2>6, <2>7, <2>8, Zenon DEF GroupsFit, G
<1>3. CASE system = "unix6"
  <2>1. G = Rfc3542
    BY <1>3 DEF Groups, Systems
  <2>2. DOMAIN G = 1..4 /\ Len(G) = 4 /\ \A j \in 1..4 : j = 1 \/ j = 2 \/ j = 3 \/ j = 4
    BY <2>1 DEF Rfc3542
  <2>3. /\ G[1] = Group("tclass", {"TrafficClass"}, 3)
        /\ G[2] = Group("hoplimit", {"HopLimit"}, 3)
        /\ G[3] = Group("pktinfo", {"Dst", "Interface"}, 5)
        /\ G[4] = Group("pathmtu", {"PathMTU"}, 6)
    BY <2>1 DEF Rfc3542
  <2> HIDE DEF G
  <2>4. /\ G[1].option = "tclass" /\ G[1].flags = {"TrafficClass"} /\ G[1].space = 3
        /\ G[2].option = "hoplimit" /\ G[2].flags = {"HopLimit"} /\ G[2].space = 3
        /\ G[3].option = "pktinfo" /\ G[3].flags = {"Dst", "Interface"} /\ G[3].space = 5
        /\ G[4].option = "pathmtu" /\ G[4].flags = {"PathMTU"} /\ G[4].space = 6
    BY ONLY <2>3 DEF Group
  <2>5. /\ FieldsOf("tclass") = {"TrafficClass"}
        /\ FieldsOf("hoplimit") = {"HopLimit"}
        /\ FieldsOf("pktinfo") = {"IfIndex", "Dst"}
    BY DEF FieldsOf
  <2>6. DOMAIN G \in {1..0, 1..2, 1..3, 1..4} /\ DOMAIN G = 1..Len(G)
    BY ONLY <2>2
  <2>7. ASSUME NEW j \in DOMAIN G
        PROVE  G[j].flags # {} /\ IsFiniteSet(G[j].flags) /\ G[j].space \in 3..6
    <3>1. j = 1 \/ j = 2 \/ j = 3 \/ j = 4
      BY <2>2
    <3>2. CASE j = 1
      BY ONLY <1>g, <2>4, <3>2
    <3>3. CASE j = 2
      BY ONLY <1>g, <2>4, <3>3
    <3>4. CASE j = 3
      BY ONLY <1>g, <2>4, <3>4
    <3>5. CASE j = 4
      BY ONLY <1>g, <2>4, <3>5
    <3> QED BY ONLY <3>1, <3>2, <3>3, <3>4, <3>5
  <2>8. ASSUME NEW j \in DOMAIN G, NEW i \in DOMAIN G, j # i
        PROVE  /\ G[j].option # G[i].option /\ G[j].flags \cap G[i].flags = {}
               /\ "pathmtu" \notin {G[j].option, G[i].option} =>
                     FieldsOf(G[j].option) \cap FieldsOf(G[i].option) = {}
    <3>1. (j = 1 \/ j = 2 \/ j = 3 \/ j = 4) /\ (i = 1 \/ i = 2 \/ i = 3 \/ i = 4)
      BY <2>2
    <3>2. CASE j = 1
      BY ONLY <2>4, <2>5, <2>8, <3>1, <3>2
    <3>3. CASE j = 2
      BY ONLY <2>4, <2>5, <2>8, <3>1, <3>3
    <3>4. CASE j = 3
      BY ONLY <2>4, <2>5, <2>8, <3>1, <3>4
    <3>5. CASE j = 4
      BY ONLY <2>4, <2>5, <2>8, <3>1, <3>5
    <3> QED BY ONLY <3>1, <3>2, <3>3, <3>4, <3>5
  <2> QED BY ONLY <2>6, <2>7, <2>8, Zenon DEF GroupsFit, G
<1>4. CASE system = "oldDarwin6"
  <2>1. G = Rfc2292
    BY <1>4 DEF Groups, Systems
  <2>2. DOMAIN G = 1..2 /\ Len(G) = 2 /\ \A j \in 1..2 : j = 1 \/ j = 2
    BY <2>1 DEF Rfc2292
  <2>3. G[1] = Group("hoplimit", {"HopLimit"}, 3) /\ G[2] = Group("pktinfo", {"Dst", "Interface"}, 5)
    BY <2>1 DEF Rfc2292
  <2> HIDE DEF G
  <2> QED BY <1>f, <2>2, <2>3 DEF GroupsFit, Group, FieldsOf, G
<1>5. CASE system = "windows"
  <2>1. G = <<>>
    BY <1>5 DEF Groups, Systems, NotImplemented
  <2>2. DOMAIN G = 1..0 /\ Len(G) = 0 /\ 1..0 = {}
    BY <2>1
  <2> HIDE DEF G
  <2> QED BY <2>2 DEF GroupsFit, G
<1> QED BY <1>0, <1>1, <1>2, <1>3, <1>4, <1>5

\* The groups go from one that the flags are in to the next.
LEMMA NextIsAsked ==
    ASSUME GroupsFit, NEW cf, NEW i \in Nat, NextGroup(cf, i) # 0
    PROVE  /\ NextGroup(cf, i) \in DOMAIN Groups
           /\ Groups[NextGroup(cf, i)].flags \cap cf # {}
<1> DEFINE later == {j \in i + 1..Len(Groups) : Groups[j].flags \cap cf # {}}
<1>1. later # {} /\ NextGroup(cf, i) = Min(later)
  BY DEF NextGroup
<1>2. later \subseteq 1..4 /\ later \subseteq DOMAIN Groups
  <2>1. DOMAIN Groups = 1..Len(Groups) /\ DOMAIN Groups \subseteq 1..4
    BY DEF GroupsFit
  <2>2. \A j \in i + 1..Len(Groups) : j \in 1..Len(Groups)
    OBVIOUS
  <2> QED BY <2>1, <2>2
<1> HIDE DEF later
<1>3. \E x \in later : \A y \in later : x <= y
  <2>1. \A j \in 1..4 : j = 1 \/ j = 2 \/ j = 3 \/ j = 4
    OBVIOUS
  <2>2. \A j \in later : j = 1 \/ j = 2 \/ j = 3 \/ j = 4
    BY <2>1, <1>2
  <2> QED BY <1>1, <2>2
<1>4. Min(later) \in later
  BY <1>3 DEF Min
<1> QED BY <1>1, <1>2, <1>4 DEF later

-----------------------------------------------------------------------------
(* The room that messages take. *)

\* More groups never take less room.
LEMMA MoreTakesMore ==
    ASSUME GroupsFit, NEW big \in SUBSET DOMAIN Groups, NEW small \in SUBSET big
    PROVE  RoomFor(small) \in Nat /\ RoomFor(big) \in Nat /\ RoomFor(small) <= RoomFor(big)
<1>1. \A js \in {small, big}, j \in 1..4 : Share(js, j) \in Nat
  <2>1. \A js \in {small, big}, j \in 1..4 : j \in js => j \in DOMAIN Groups
    OBVIOUS
  <2>2. \A j \in DOMAIN Groups : Groups[j].space \in Nat
    BY DEF GroupsFit
  <2> QED BY <2>1, <2>2 DEF Share
<1>2. \A j \in 1..4 : Share(small, j) <= Share(big, j)
  <2>1. \A j \in small : Share(small, j) = Share(big, j)
    BY DEF Share
  <2>2. \A j : j \notin small => Share(small, j) = 0
    BY DEF Share
  <2>3. \A a, b \in Nat : (a = b \/ a = 0) => a <= b
    OBVIOUS
  <2> QED BY ONLY <2>1, <2>2, <2>3, <1>1
<1> DEFINE a(j) == Share(small, j)
           b(j) == Share(big, j)
<1>3. /\ a(1) \in Nat /\ a(2) \in Nat /\ a(3) \in Nat /\ a(4) \in Nat
      /\ b(1) \in Nat /\ b(2) \in Nat /\ b(3) \in Nat /\ b(4) \in Nat
      /\ a(1) <= b(1) /\ a(2) <= b(2) /\ a(3) <= b(3) /\ a(4) <= b(4)
  BY <1>1, <1>2
<1>4. RoomFor(small) = a(1) + a(2) + a(3) + a(4) /\ RoomFor(big) = b(1) + b(2) + b(3) + b(4)
  BY DEF RoomFor
<1> HIDE DEF a, b
<1> QED BY <1>3, <1>4

\* A group more takes its own room more.
LEMMA OneMoreTakes ==
    ASSUME GroupsFit, NEW js \in SUBSET DOMAIN Groups, NEW j \in DOMAIN Groups, j \notin js
    PROVE  RoomFor(js \cup {j}) = RoomFor(js) + Groups[j].space
<1>1. j \in {1, 2, 3, 4}
  BY DEF GroupsFit
<1>2. \A k : k # j => Share(js \cup {j}, k) = Share(js, k)
  BY DEF Share
<1>3. Share(js \cup {j}, j) = Groups[j].space /\ Share(js, j) = 0
  BY DEF Share
<1>4. \A k \in 1..4 : Share(js, k) \in Nat
  BY DEF Share, GroupsFit
<1>5. Groups[j].space \in Nat
  BY DEF GroupsFit
<1>6. /\ Share(js, 1) \in Nat /\ Share(js, 2) \in Nat /\ Share(js, 3) \in Nat /\ Share(js, 4) \in Nat
  BY <1>4
<1>7. CASE j = 1
  BY ONLY <1>7, <1>2, <1>3, <1>5, <1>6 DEF RoomFor
<1>8. CASE j = 2
  BY ONLY <1>8, <1>2, <1>3, <1>5, <1>6 DEF RoomFor
<1>9. CASE j = 3
  BY ONLY <1>9, <1>2, <1>3, <1>5, <1>6 DEF RoomFor
<1>10. CASE j = 4
  BY ONLY <1>10, <1>2, <1>3, <1>5, <1>6 DEF RoomFor
<1> QED BY <1>1, <1>7, <1>8, <1>9, <1>10

\* Every group's message has the group's room.
LEMMA SpaceIsTheGroups ==
    ASSUME GroupsFit, NEW j \in DOMAIN Groups
    PROVE  Space(Groups[j].option) = Groups[j].space
<1>1. ToSet(Groups) = {Groups[k] : k \in DOMAIN Groups}
  BY DEF ToSet
<1>2. Groups[j] \in ToSet(Groups)
  BY <1>1
<1>3. \A g \in ToSet(Groups) : g.option = Groups[j].option => g = Groups[j]
  BY <1>1 DEF GroupsFit
<1> DEFINE c == CHOOSE g \in ToSet(Groups) : g.option = Groups[j].option
<1>4. c \in ToSet(Groups) /\ c.option = Groups[j].option
  BY <1>2
<1>5. c = Groups[j]
  BY <1>3, <1>4
<1>6. Space(Groups[j].option) = c.space
  BY DEF Space
<1> QED BY <1>5, <1>6

-----------------------------------------------------------------------------
(* What is read when there was room for every message. *)

OptionsOf == {Groups[j].option : j \in DOMAIN Groups}

\* An option that is on has a flag, and an option of one flag is on just when the
\* flag is set.
Matches ==
    \A i \in DOMAIN Groups :
        LET g == Groups[i] IN
        /\ g.option \in options => g.flags \cap cflags # {}
        /\ Cardinality(g.flags) = 1 => (g.option \in options <=> g.flags \subseteq cflags)

LEMMA OptionsAreFinite == ASSUME GroupsFit, NEW due \in SUBSET OptionsOf PROVE Cardinality(due) \in Nat
<1> DEFINE S == DOMAIN Groups
           f == [j \in S |-> Groups[j].option]
<1>1. IsFiniteSet(S)
  <2>1. \E n \in {0, 2, 3, 4} : S = 1..n
    BY DEF GroupsFit
  <2> QED BY <2>1, FS_Interval
<1>2. f \in Surjection(S, OptionsOf)
  BY DEF Surjection, OptionsOf
<1>3. IsFiniteSet(OptionsOf)
  BY <1>1, <1>2, FS_Surjection DEF ExistsSurjection
<1>4. IsFiniteSet(due)
  BY <1>3, FS_Subset
<1> QED BY <1>4, FS_CardinalityType

\* The messages of the options that are on fit into the room of their flags.
LEMMA EveryMessageFits ==
    ASSUME GroupsFit, Matches, NEW due \in SUBSET OptionsOf, due \subseteq options,
           NEW n \in Nat, NEW msgs \in Bijection(1..n, due)
    PROVE  Delivers(msgs, Room(cflags)) =
               [i \in 1..n |-> [option |-> msgs[i], words |-> Space(msgs[i])]]
<1> DEFINE F == {j \in DOMAIN Groups : Groups[j].flags \cap cflags # {}}
           room == Room(cflags)
           Js(i) == {j \in DOMAIN Groups :
                        \E k \in DOMAIN msgs : k < i /\ msgs[k] = Groups[j].option}
<1>1. /\ msgs \in [1..n -> due] /\ DOMAIN msgs = 1..n
      /\ \A a, b \in 1..n : msgs[a] = msgs[b] => a = b
  BY DEF Bijection, Injection, IsInjective
<1>2. ASSUME NEW i \in 1..n
      PROVE  /\ Before(msgs, i) \in Nat /\ room \in Nat /\ Space(msgs[i]) \in 3..6
             /\ Before(msgs, i) + Space(msgs[i]) <= room
  <2>1. msgs[i] \in OptionsOf
    BY <1>1
  <2>2. PICK j \in DOMAIN Groups : msgs[i] = Groups[j].option
    BY <2>1 DEF OptionsOf
  <2>3. Space(msgs[i]) = Groups[j].space /\ Groups[j].space \in 3..6
    BY <2>2, SpaceIsTheGroups DEF GroupsFit
  <2>4. Js(i) \in SUBSET DOMAIN Groups
    OBVIOUS
  <2>5. j \notin Js(i)
    <3>1. \A k \in 1..n : msgs[k] = Groups[j].option => k = i
      BY <1>1, <2>2
    <3>2. ~(i < i)
      OBVIOUS
    <3> QED BY <1>1, <3>1, <3>2
  <2>6. Js(i) \cup {j} \subseteq F
    <3>1. \A k \in 1..n : msgs[k] \in options
      BY <1>1
    <3>2. \A l \in DOMAIN Groups : Groups[l].option \in options => l \in F
      BY DEF Matches
    <3> QED BY <1>1, <2>2, <3>1, <3>2
  <2>7. Before(msgs, i) = RoomFor(Js(i)) /\ room = RoomFor(F)
    BY DEF Before, Room
  <2>8. F \in SUBSET DOMAIN Groups /\ Js(i) \cup {j} \in SUBSET F /\ Js(i) \in SUBSET F
    BY <2>6
  <2> HIDE DEF F, Js, room
  <2>9. RoomFor(Js(i) \cup {j}) = RoomFor(Js(i)) + Groups[j].space
    BY <2>4, <2>5, OneMoreTakes
  <2>10. RoomFor(Js(i) \cup {j}) <= RoomFor(F) /\ RoomFor(F) \in Nat
    BY <2>8, MoreTakesMore
  <2>11. RoomFor(Js(i)) \in Nat
    BY <2>8, MoreTakesMore
  <2> QED BY <2>3, <2>7, <2>9, <2>10, <2>11
<1> HIDE DEF room
<1>3. ASSUME NEW i \in 1..n
      PROVE  /\ Before(msgs, i) + HeaderWords <= room
             /\ Lesser(Space(msgs[i]), room - Before(msgs, i)) = Space(msgs[i])
  <2> DEFINE b == Before(msgs, i)
             s == Space(msgs[i])
  <2>1. b \in Nat /\ room \in Nat /\ s \in 3..6 /\ b + s <= room
    BY <1>2
  <2> HIDE DEF b, s
  <2>2. b + HeaderWords <= room /\ Lesser(s, room - b) = s
    BY <2>1 DEF HeaderWords, Lesser
  <2> QED BY <2>2 DEF b, s
<1>4. {k \in DOMAIN msgs : Before(msgs, k) + HeaderWords <= room} = 1..n
  BY <1>1, <1>3
<1>5. Delivers(msgs, room) =
          [i \in 1..n |->
              [option |-> msgs[i], words |-> Lesser(Space(msgs[i]), room - Before(msgs, i))]]
  BY <1>4 DEF Delivers
<1> QED BY <1>3, <1>5 DEF room

\* Whole messages tell all that the kernel had to tell, in whatever order they are.
LEMMA AllIsTold ==
    ASSUME GroupsFit, NEW due \in SUBSET OptionsOf, due = {"pathmtu"} \/ "pathmtu" \notin due,
           NEW n \in Nat, NEW msgs \in Bijection(1..n, due)
    PROVE  Parse([i \in 1..n |-> [option |-> msgs[i], words |-> Space(msgs[i])]]) =
               IF due = {} THEN "nil" ELSE (UNION {FieldsOf(o) : o \in due}) \X {"sent"}
<1> DEFINE all == [i \in 1..n |-> [option |-> msgs[i], words |-> Space(msgs[i])]]
           told(i) == FieldsOf(all[i].option)
           later(i) == {j \in DOMAIN all : j > i}
<1>1. /\ msgs \in [1..n -> due]
      /\ \A a, b \in 1..n : msgs[a] = msgs[b] => a = b
      /\ \A o \in due : \E i \in 1..n : msgs[i] = o
  BY DEF Bijection, Injection, Surjection, IsInjective
<1>2. /\ DOMAIN all = 1..n
      /\ \A i \in 1..n : all[i] = [option |-> msgs[i], words |-> Space(msgs[i])]
  OBVIOUS
<1>3. \A i \in 1..n : all[i].option = msgs[i] /\ all[i].words = Space(msgs[i])
  BY <1>2
<1> HIDE DEF all
<1>4. \A i \in 1..n : \E j \in DOMAIN Groups : msgs[i] = Groups[j].option
  BY <1>1 DEF OptionsOf
<1>5. ASSUME NEW i \in 1..n PROVE Space(msgs[i]) \in 3..6
  <2>1. PICK j \in DOMAIN Groups : msgs[i] = Groups[j].option
    BY <1>4
  <2>2. Groups[j].space \in 3..6
    BY DEF GroupsFit
  <2> QED BY <2>1, <2>2, SpaceIsTheGroups
<1>6. ~\E i \in DOMAIN all : all[i].words = HeaderWords
  BY <1>2, <1>3, <1>5 DEF HeaderWords
<1>7. ASSUME NEW i \in 1..n, NEW k \in 1..n, i # k PROVE told(i) \cap told(k) = {}
  <2>1. msgs[i] # msgs[k] /\ msgs[i] \in due /\ msgs[k] \in due
    BY <1>1, <1>7
  <2>2. msgs[i] # "pathmtu" /\ msgs[k] # "pathmtu"
    BY <2>1
  <2>3. PICK a \in DOMAIN Groups : msgs[i] = Groups[a].option
    BY <1>4
  <2>4. PICK b \in DOMAIN Groups : msgs[k] = Groups[b].option
    BY <1>4
  <2>5. FieldsOf(Groups[a].option) \cap FieldsOf(Groups[b].option) = {}
    BY <2>1, <2>2, <2>3, <2>4 DEF GroupsFit
  <2> QED BY <1>3, <2>3, <2>4, <2>5
<1>8. ASSUME NEW i \in 1..n PROVE told(i) \ UNION {told(j) : j \in later(i)} = FieldsOf(msgs[i])
  <2>1. \A j \in later(i) : j \in 1..n /\ i # j
    BY <1>2
  <2>2. \A j \in later(i) : told(i) \cap told(j) = {}
    BY <1>7, <2>1
  <2>3. told(i) = FieldsOf(msgs[i])
    BY <1>3
  <2> HIDE DEF told, later
  <2> QED BY <2>2, <2>3
<1>9. \A i \in 1..n : Value(all[i]) = "sent"
  BY <1>3 DEF Value
<1>10. CASE due = {}
  <2>1. 1..n = {}
    BY <1>1, <1>10
  <2> QED BY <1>2, <1>6, <1>10, <2>1 DEF Parse, all
<1>11. CASE due # {}
  <2>1. DOMAIN all # {}
    BY <1>1, <1>2, <1>11
  <2> DEFINE t(i) == (told(i) \ UNION {told(j) : j \in later(i)}) \X {Value(all[i])}
  <2>2. Parse(all) = UNION {t(i) : i \in DOMAIN all}
    BY <1>6, <2>1 DEF Parse
  <2>3. \A i \in 1..n : t(i) = FieldsOf(msgs[i]) \X {"sent"}
    BY <1>8, <1>9
  <2> HIDE DEF t
  <2>4. UNION {t(i) : i \in 1..n} = (UNION {FieldsOf(o) : o \in due}) \X {"sent"}
    <3>1. UNION {t(i) : i \in 1..n} \subseteq (UNION {FieldsOf(o) : o \in due}) \X {"sent"}
      <4>1. ASSUME NEW i \in 1..n, NEW x \in t(i)
            PROVE  x \in (UNION {FieldsOf(o) : o \in due}) \X {"sent"}
        <5>1. x \in FieldsOf(msgs[i]) \X {"sent"} /\ msgs[i] \in due
          BY <1>1, <2>3
        <5>2. FieldsOf(msgs[i]) \subseteq UNION {FieldsOf(o) : o \in due}
          BY <5>1
        <5> QED BY ONLY <5>1, <5>2
      <4> QED BY <4>1
    <3>2. (UNION {FieldsOf(o) : o \in due}) \X {"sent"} \subseteq UNION {t(i) : i \in 1..n}
      <4>1. ASSUME NEW x \in (UNION {FieldsOf(o) : o \in due}) \X {"sent"}
            PROVE  x \in UNION {t(i) : i \in 1..n}
        <5>1. PICK f \in UNION {FieldsOf(o) : o \in due} : x = <<f, "sent">>
          OBVIOUS
        <5>2. PICK o \in due : f \in FieldsOf(o)
          OBVIOUS
        <5>3. PICK i \in 1..n : msgs[i] = o
          BY <1>1
        <5>4. x \in t(i)
          BY <5>1, <5>2, <5>3, <2>3
        <5> QED BY <5>4
      <4> QED BY <4>1
    <3> QED BY <3>1, <3>2
  <2> QED BY <1>2, <1>11, <2>2, <2>4 DEF all
<1> QED BY <1>10, <1>11

-----------------------------------------------------------------------------
(* The invariant: an option is on just when there is a flag for it, between    *)
(* two groups of a call as well; a buffer has room for the flags as they are   *)
(* when nobody changed an option since it was made.                            *)

SockTypes ==
    /\ system \in DOMAIN Systems
    /\ options \subseteq OptionsOf
    /\ setter \in [Setters -> [at : Nat, cf : Requests \cup {{}}, on : BOOLEAN]]
    /\ reading \in [at : {"idle", "armed", "done"}, room : Nat, stale : BOOLEAN,
                    cm : {reading.cm}, sent : {reading.sent}]

SettersAreAtTheirs ==
    \A s \in Setters :
        setter[s].at # 0 =>
            setter[s].at \in DOMAIN Groups /\ Groups[setter[s].at].flags \cap setter[s].cf # {}

RoomIsRight == reading.at = "armed" /\ ~reading.stale => reading.room = Room(cflags)

SockInv == SockTypes /\ SettersAreAtTheirs /\ Matches /\ RoomIsRight /\ ReadIsSound

LEMMA SockStarts == SocketInit => SockInv
<1> SUFFICES ASSUME SocketInit PROVE SockInv
  OBVIOUS
<1>1. GroupsFit
  BY GroupsDoFit DEF SocketInit
<1>2. reading = [at |-> "idle", room |-> 0, stale |-> FALSE, cm |-> <<>>, sent |-> {}]
  BY DEF SocketInit
<1>3. reading.at = "idle" /\ reading.cm = <<>> /\ reading.sent = {}
  BY <1>2
<1>4. reading \in [at : {"idle", "armed", "done"}, room : Nat, stale : BOOLEAN,
                  cm : {reading.cm}, sent : {reading.sent}]
  BY <1>2, <1>3
<1>5. SockTypes
  BY <1>4 DEF SockTypes, SocketInit, NotCalling
<1>6. SettersAreAtTheirs
  BY DEF SettersAreAtTheirs, SocketInit, NotCalling
<1>7. Matches
  <2> SUFFICES ASSUME NEW i \in DOMAIN Groups PROVE ~(Groups[i].flags \subseteq {})
    BY DEF Matches, SocketInit
  <2> QED BY <1>1 DEF GroupsFit
<1> QED BY <1>3, <1>5, <1>6, <1>7 DEF SockInv, RoomIsRight, ReadIsSound

\* SetControlMessage only begins here.
LEMMA CallStays ==
    ASSUME SockInv, NEW s \in Setters, NEW cf \in Requests, NEW on \in BOOLEAN,
           SetControlMessage(s, cf, on)
    PROVE  SockInv'
<1>1. GroupsFit
  BY GroupsDoFit DEF SockInv, SockTypes
<1>2. UNCHANGED <<system, cflags, options, reading>> /\ Groups' = Groups
  BY DEF SetControlMessage, Groups
<1>3. PICK at : at = NextGroup(cf, 0) /\ at # 0
  BY DEF SetControlMessage
<1>4. setter' = [setter EXCEPT ![s] = [at |-> at, cf |-> cf, on |-> on]]
  BY <1>3 DEF SetControlMessage
<1>5. at \in DOMAIN Groups /\ Groups[at].flags \cap cf # {}
  BY <1>1, <1>3, NextIsAsked
<1>6. at \in Nat
  BY <1>1, <1>5 DEF GroupsFit
<1>7. SockTypes'
  BY <1>2, <1>4, <1>6 DEF SockInv, SockTypes, OptionsOf
<1>8. SettersAreAtTheirs'
  BY <1>2, <1>4, <1>5 DEF SockInv, SockTypes, SettersAreAtTheirs
<1>9. Matches' /\ RoomIsRight' /\ ReadIsSound'
  BY <1>2 DEF SockInv, Matches, RoomIsRight, ReadIsSound, Room, RoomFor, Share, Groups
<1> QED BY <1>7, <1>8, <1>9 DEF SockInv

\* A group's option and its flags change together.
LEMMA OneGroupMatches ==
    ASSUME GroupsFit, Matches, NEW at \in DOMAIN Groups, NEW cf, NEW on \in BOOLEAN,
           Groups[at].flags \cap cf # {}, Groups' = Groups,
           options' = IF on THEN options \cup {Groups[at].option}
                      ELSE options \ {Groups[at].option},
           Remembers(Groups[at], cf, on)
    PROVE  Matches'
<1> DEFINE g == Groups[at]
<1>1. ASSUME NEW i \in DOMAIN Groups, i # at
      PROVE  /\ Groups[i].option \in options' <=> Groups[i].option \in options
             /\ Groups[i].flags \cap cflags' = Groups[i].flags \cap cflags
  <2>1. Groups[i].option # g.option /\ Groups[i].flags \cap g.flags = {}
    BY <1>1 DEF GroupsFit
  <2> QED BY <2>1 DEF Remembers
<1>2. ASSUME NEW S, NEW T PROVE S \subseteq T <=> S \cap T = S
  OBVIOUS
<1>3. ASSUME NEW i \in DOMAIN Groups, i # at
      PROVE  /\ Groups[i].option \in options' => Groups[i].flags \cap cflags' # {}
             /\ Cardinality(Groups[i].flags) = 1 =>
                   (Groups[i].option \in options' <=> Groups[i].flags \subseteq cflags')
  <2>1. /\ Groups[i].option \in options => Groups[i].flags \cap cflags # {}
        /\ Cardinality(Groups[i].flags) = 1 =>
              (Groups[i].option \in options <=> Groups[i].flags \subseteq cflags)
    BY DEF Matches
  <2> QED BY <1>1, <1>2, <1>3, <2>1
<1>4. g.option \in options' => g.flags \cap cflags' # {}
  BY DEF Remembers
<1>5. ASSUME Cardinality(g.flags) = 1
      PROVE  g.option \in options' <=> g.flags \subseteq cflags'
  <2>1. PICK x : g.flags = {x}
    BY <1>5, FS_Singleton DEF GroupsFit
  <2>2. x \in cf /\ g.flags \cap cf = {x}
    BY <2>1
  <2> HIDE DEF g
  <2>3. CASE on
    BY <2>1, <2>2, <2>3 DEF Remembers, g
  <2>4. CASE ~on
    BY <2>1, <2>2, <2>4 DEF Remembers, g
  <2> QED BY <2>3, <2>4
<1>6. ASSUME NEW i \in DOMAIN Groups
      PROVE  /\ Groups[i].option \in options' => Groups[i].flags \cap cflags' # {}
             /\ Cardinality(Groups[i].flags) = 1 =>
                   (Groups[i].option \in options' <=> Groups[i].flags \subseteq cflags')
  BY <1>3, <1>4, <1>5
<1> QED BY <1>6 DEF Matches

LEMMA GroupStays == ASSUME SockInv, NEW s \in Setters, SetsGroup(s) PROVE SockInv'
<1>1. GroupsFit
  BY GroupsDoFit DEF SockInv, SockTypes
<1>2. system' = system /\ Groups' = Groups
  BY DEF SetsGroup, Groups
<1>3. PICK at \in DOMAIN Groups, cf \in Requests \cup {{}}, on \in BOOLEAN :
          /\ setter[s] = [at |-> at, cf |-> cf, on |-> on] /\ at \in Nat \ {0}
          /\ Groups[at].flags \cap cf # {}
  <2>1. setter[s] \in [at : Nat, cf : Requests \cup {{}}, on : BOOLEAN]
    BY DEF SockInv, SockTypes
  <2>2. /\ setter[s].at # 0 /\ setter[s].at \in DOMAIN Groups
        /\ Groups[setter[s].at].flags \cap setter[s].cf # {}
    BY DEF SockInv, SettersAreAtTheirs, SetsGroup
  <2>3. setter[s] = [at |-> setter[s].at, cf |-> setter[s].cf, on |-> setter[s].on]
    BY <2>1
  <2> QED BY <2>1, <2>2, <2>3
<1>4. setter[s].at = at /\ setter[s].cf = cf /\ setter[s].on = on
  BY <1>3
<1>5. /\ options' = IF on THEN options \cup {Groups[at].option}
                    ELSE options \ {Groups[at].option}
      /\ Remembers(Groups[at], cf, on)
  BY <1>4 DEF SetsGroup
<1>6. Matches'
  BY <1>1, <1>2, <1>3, <1>5, OneGroupMatches DEF SockInv
<1>7. options' \subseteq OptionsOf /\ OptionsOf' = OptionsOf
  BY <1>2, <1>3, <1>5 DEF SockInv, SockTypes, OptionsOf
<1>8. PICK next : next = NextGroup(cf, at)
  OBVIOUS
<1>9. \/ setter' = [setter EXCEPT ![s] = NotCalling]
      \/ next # 0 /\ setter' = [setter EXCEPT ![s].at = next]
  BY <1>4, <1>8 DEF SetsGroup, CallEnds
<1>10. next # 0 =>
          next \in DOMAIN Groups /\ next \in Nat /\ Groups[next].flags \cap cf # {}
  <2>1. next # 0 => next \in DOMAIN Groups /\ Groups[next].flags \cap cf # {}
    BY <1>1, <1>3, <1>8, NextIsAsked
  <2> QED BY <1>1, <2>1 DEF GroupsFit
<1>11. PICK after \in [at : Nat, cf : Requests \cup {{}}, on : BOOLEAN] :
          /\ setter' = [setter EXCEPT ![s] = after]
          /\ after.at # 0 => after.at \in DOMAIN Groups /\ Groups[after.at].flags \cap after.cf # {}
  <2>1. CASE setter' = [setter EXCEPT ![s] = NotCalling]
    <3>1. NotCalling \in [at : Nat, cf : Requests \cup {{}}, on : BOOLEAN] /\ NotCalling.at = 0
      BY DEF NotCalling
    <3> QED BY <2>1, <3>1
  <2>2. CASE next # 0 /\ setter' = [setter EXCEPT ![s].at = next]
    <3> DEFINE after == [at |-> next, cf |-> cf, on |-> on]
    <3>1. [setter[s] EXCEPT !.at = next] = after
      BY <1>3
    <3>2. setter' = [setter EXCEPT ![s] = after]
      BY <2>2, <3>1
    <3>3. after \in [at : Nat, cf : Requests \cup {{}}, on : BOOLEAN]
      BY <1>10, <2>2
    <3> QED BY <1>10, <2>2, <3>2, <3>3
  <2> QED BY <1>9, <2>1, <2>2
<1>12. /\ setter' \in [Setters -> [at : Nat, cf : Requests \cup {{}}, on : BOOLEAN]]
       /\ SettersAreAtTheirs'
  BY <1>2, <1>11 DEF SockInv, SockTypes, SettersAreAtTheirs
<1>13. PICK a \in {"idle", "armed", "done"}, room \in Nat, st \in BOOLEAN,
            cm \in {reading.cm}, old \in {reading.sent} :
          reading = [at |-> a, room |-> room, stale |-> st, cm |-> cm, sent |-> old]
  BY DEF SockInv, SockTypes
<1>14. PICK late \in BOOLEAN : late = (st \/ a = "armed")
  OBVIOUS
<1>15. reading' = [at |-> a, room |-> room, stale |-> late, cm |-> cm, sent |-> old]
  <2>1. reading' = [reading EXCEPT !.stale = late]
    BY <1>13, <1>14 DEF SetsGroup, Stale
  <2> QED BY <1>13, <2>1
<1>16. /\ reading.at = a /\ reading.stale = st /\ reading.cm = cm /\ reading.sent = old
       /\ reading'.at = a /\ reading'.stale = late /\ reading'.cm = cm /\ reading'.sent = old
  BY <1>13, <1>15
<1>17. reading' \in [at : {"idle", "armed", "done"}, room : Nat, stale : BOOLEAN,
                    cm : {reading'.cm}, sent : {reading'.sent}]
  BY <1>15, <1>16
<1>18. SockTypes'
  BY <1>2, <1>7, <1>12, <1>17 DEF SockInv, SockTypes
<1>19. RoomIsRight'
  BY <1>14, <1>16 DEF RoomIsRight
<1>20. ReadIsSound'
  BY <1>14, <1>16 DEF SockInv, ReadIsSound
<1> QED BY <1>6, <1>12, <1>18, <1>19, <1>20 DEF SockInv

LEMMA SetFailureStays == ASSUME SockInv, NEW s \in Setters, SetFails(s) PROVE SockInv'
<1>1. UNCHANGED <<system, cflags, options, reading>> /\ Groups' = Groups
  BY DEF SetFails, Groups
<1>2. setter' = [setter EXCEPT ![s] = NotCalling]
  BY DEF SetFails, CallEnds
<1>3. SockTypes'
  BY <1>1, <1>2 DEF SockInv, SockTypes, OptionsOf, NotCalling
<1>4. SettersAreAtTheirs'
  BY <1>1, <1>2 DEF SockInv, SockTypes, SettersAreAtTheirs, NotCalling
<1>5. Matches' /\ RoomIsRight' /\ ReadIsSound'
  BY <1>1 DEF SockInv, Matches, RoomIsRight, ReadIsSound, Room, RoomFor, Share, Groups
<1> QED BY <1>3, <1>4, <1>5 DEF SockInv

LEMMA BufferStays == ASSUME SockInv, NewControlMessage PROVE SockInv'
<1>1. UNCHANGED <<system, cflags, holder, setter, options>> /\ Groups' = Groups
  BY DEF NewControlMessage, Groups
<1>2. PICK room : room = Room(cflags)
  OBVIOUS
<1>3. reading' = [at |-> "armed", room |-> room, stale |-> FALSE, cm |-> <<>>, sent |-> {}]
  BY <1>2 DEF NewControlMessage
<1>4. room \in Nat
  <2>1. GroupsFit
    BY GroupsDoFit DEF SockInv, SockTypes
  <2> DEFINE F == {j \in DOMAIN Groups : Groups[j].flags \cap cflags # {}}
  <2>2. F \in SUBSET DOMAIN Groups /\ F \in SUBSET F /\ Room(cflags) = RoomFor(F)
    BY DEF Room
  <2> HIDE DEF F
  <2> QED BY <1>2, <2>1, <2>2, MoreTakesMore
<1>5. /\ reading'.at = "armed" /\ reading'.room = room
      /\ reading'.cm = <<>> /\ reading'.sent = {}
  BY <1>3
<1>6. reading' \in [at : {"idle", "armed", "done"}, room : Nat, stale : BOOLEAN,
                   cm : {reading'.cm}, sent : {reading'.sent}]
  BY <1>3, <1>4, <1>5
<1>7. SockTypes' /\ SettersAreAtTheirs' /\ Matches'
  BY <1>1, <1>6 DEF SockInv, SockTypes, SettersAreAtTheirs, Matches, OptionsOf
<1>8. Room(cflags)' = Room(cflags)
  BY <1>1 DEF Room, RoomFor, Share, Groups
<1>9. RoomIsRight' /\ ReadIsSound'
  BY <1>2, <1>5, <1>8 DEF RoomIsRight, ReadIsSound
<1> QED BY <1>7, <1>9 DEF SockInv

LEMMA ReadStays == ASSUME SockInv, NEW report \in BOOLEAN, Receives(report) PROVE SockInv'
<1>1. UNCHANGED <<system, cflags, holder, setter, options>> /\ Groups' = Groups
  BY DEF Receives, Groups
<1>2. GroupsFit /\ Matches /\ options \subseteq OptionsOf
  BY GroupsDoFit DEF SockInv, SockTypes
<1>3. PICK due : due = IF report THEN {"pathmtu"} ELSE options \ {"pathmtu"}
  OBVIOUS
<1>4. due \subseteq options /\ (due = {"pathmtu"} \/ "pathmtu" \notin due)
  BY <1>3 DEF Receives
<1>5. PICK msgs \in Bijection(1..Cardinality(due), due) :
          reading' = [at |-> "done", room |-> 0, stale |-> reading.stale, sent |-> due,
                      cm |-> <<Parse(Delivers(msgs, reading.room))>>]
  BY <1>3 DEF Receives
<1>6. PICK n \in Nat : n = Cardinality(due)
  BY <1>2, <1>4, OptionsAreFinite
<1>7. PICK st \in BOOLEAN : st = reading.stale
  BY DEF SockInv, SockTypes
<1>8. PICK got : got = Parse(Delivers(msgs, reading.room))
  OBVIOUS
<1>9. reading' = [at |-> "done", room |-> 0, stale |-> st, sent |-> due, cm |-> <<got>>]
  BY <1>5, <1>7, <1>8
<1>10. /\ reading'.at = "done" /\ reading'.stale = st
       /\ reading'.cm = <<got>> /\ reading'.sent = due
  BY <1>9
<1>11. reading' \in [at : {"idle", "armed", "done"}, room : Nat, stale : BOOLEAN,
                    cm : {reading'.cm}, sent : {reading'.sent}]
  BY <1>9, <1>10
<1>12. SockTypes' /\ SettersAreAtTheirs' /\ Matches'
  BY <1>1, <1>11 DEF SockInv, SockTypes, SettersAreAtTheirs, Matches, OptionsOf
<1>13. RoomIsRight'
  BY <1>10 DEF RoomIsRight
<1>14. ASSUME ~st
       PROVE  got = IF due = {} THEN "nil" ELSE (UNION {FieldsOf(o) : o \in due}) \X {"sent"}
  <2>1. reading.room = Room(cflags)
    BY <1>7, <1>14 DEF SockInv, RoomIsRight, Receives
  <2>2. msgs \in Bijection(1..n, due) /\ due \in SUBSET OptionsOf
    BY <1>2, <1>4, <1>5, <1>6
  <2>3. Delivers(msgs, Room(cflags)) =
            [i \in 1..n |-> [option |-> msgs[i], words |-> Space(msgs[i])]]
    BY <1>2, <1>4, <2>2, EveryMessageFits
  <2>4. Parse([i \in 1..n |-> [option |-> msgs[i], words |-> Space(msgs[i])]]) =
            IF due = {} THEN "nil" ELSE (UNION {FieldsOf(o) : o \in due}) \X {"sent"}
    BY <1>2, <1>4, <2>2, AllIsTold
  <2> QED BY ONLY <1>8, <2>1, <2>3, <2>4
<1>15. ReadIsSound'
  <2>1. reading'.cm[1] = got
    BY <1>10
  <2> QED BY <1>10, <1>14, <2>1 DEF ReadIsSound
<1> QED BY <1>12, <1>13, <1>15 DEF SockInv

LEMMA SockStays == SockInv /\ [SocketNext]_socketVars => SockInv'
<1> SUFFICES ASSUME SockInv, [SocketNext]_socketVars PROVE SockInv'
  OBVIOUS
<1>1. CASE UNCHANGED socketVars
  BY <1>1 DEF socketVars, SockInv, SockTypes, SettersAreAtTheirs, Matches, RoomIsRight,
              ReadIsSound, OptionsOf, Room, RoomFor, Share, Groups
<1>2. CASE SocketNext
  BY <1>2, CallStays, GroupStays, SetFailureStays, BufferStays, ReadStays DEF SocketNext
<1> QED BY <1>1, <1>2

\* setControlMessage and payloadHandler.ReadFrom (ipv4, ipv6), on every kind of
\* system and for every number of goroutines that set options and every set of
\* flags they ask for: an option that is on in the kernel has a flag, whatever
\* failed half way, and what is read when nobody changed the options meanwhile is
\* just what the kernel had to tell.
THEOREM SocketStaysSound == SocketSpec => []SocketIsSound
<1>1. SockInv => SocketIsSound
  BY DEF SockInv, Matches, SocketIsSound, FlagsMatchKernel
<1> QED BY <1>1, SockStarts, SockStays, PTL DEF SocketSpec

(***************************************************************************)
(* Socket options of ipv4 and ipv6                                         *)
(***************************************************************************)

\* What is assumed of the machine: no interface has the unspecified address.
OptionAssumed ==
    /\ Sockets \subseteq [system : DOMAIN Types, conn : STRING,
                          interfaces : Seq(Seq(STRING)), option : STRING]
    /\ \A s \in Sockets : \A i \in DOMAIN s.interfaces :
          \A k \in DOMAIN s.interfaces[i] : s.interfaces[i][k] # NoAddress
    /\ Numbers \subseteq Nat
    /\ Types6 \subseteq 0..255

Special == {"interface", "group", "checksum", "filter"}

\* The type that an option has is one of its kind.
TypeFits ==
    Supports =>
        /\ socket.option = "interface" => Type \in {"mreqn", "address", "index"}
        /\ socket.option = "group" => Type \in {"mreqn", "mreq", "index"}
        /\ socket.option = "checksum" => Type = "checksum"
        /\ socket.option = "filter" => Type = "filter"
        /\ socket.option \notin Special => Type \in {"int", "byte"}

LEMMA TypesDoFit == ASSUME socket.system \in DOMAIN Types PROVE TypeFits
<1> DEFINE T == Types[socket.system]
           Fits(table) ==
               \A o \in DOMAIN table :
                   /\ o = "interface" => table[o] \in {"mreqn", "address", "index"}
                   /\ o = "group" => table[o] \in {"mreqn", "mreq", "index"}
                   /\ o = "checksum" => table[o] = "checksum"
                   /\ o = "filter" => table[o] = "filter"
                   /\ o \notin Special => table[o] \in {"int", "byte"}
<1>1. Fits(Linux4)
  BY DEF Linux4, Special
<1>2. Fits(BSD4)
  BY DEF BSD4, Special
<1>3. Fits(Unix6)
  BY DEF Unix6, Special
<1>4. Fits(OpenBSD4)
  <2>1. /\ DOMAIN OpenBSD4 = DOMAIN BSD4 /\ OpenBSD4.loopback = "byte"
        /\ \A o \in DOMAIN BSD4 : o # "loopback" => OpenBSD4[o] = BSD4[o]
    BY DEF OpenBSD4, BSD4
  <2> QED BY <1>2, <2>1 DEF Special
<1>5. Fits(FreeBSD10)
  <2>1. /\ DOMAIN FreeBSD10 = DOMAIN BSD4 /\ FreeBSD10.interface = "mreqn"
        /\ \A o \in DOMAIN BSD4 : o # "interface" => FreeBSD10[o] = BSD4[o]
    BY DEF FreeBSD10, BSD4
  <2> QED BY <1>2, <2>1 DEF Special
<1>6. Fits(Windows4)
  <2>1. /\ DOMAIN Windows4 = DOMAIN BSD4 /\ Windows4.multicastTTL = "int"
        /\ \A o \in DOMAIN BSD4 : o # "multicastTTL" => Windows4[o] = BSD4[o]
    BY DEF Windows4, BSD4
  <2> QED BY <1>2, <2>1 DEF Special
<1>7. Fits(Windows6)
  BY <1>3 DEF Windows6
<1>8. Fits(NoOptions)
  BY DEF NoOptions
<1>9. T \in {Linux4, BSD4, OpenBSD4, FreeBSD10, Windows4, Unix6, Windows6, NoOptions}
  BY DEF Types
<1>10. Fits(T)
  <2> HIDE DEF Fits, T
  <2> QED BY <1>1, <1>2, <1>3, <1>4, <1>5, <1>6, <1>7, <1>8, <1>9
<1> QED BY <1>10 DEF TypeFits, Supports, Type

-----------------------------------------------------------------------------
(* The handles of interfaces. *)

\* Every set of numbers has a least one.
LEMMA HasLeast == ASSUME NEW S \in SUBSET Nat, S # {} PROVE First(S) \in S
<1> DEFINE R == StrictSubsetOrdering(Nat)
           T == {0..x : x \in S}
<1>1. IsWellFoundedOn(R, FiniteSubsetsOf(Nat))
  BY FS_StrictSubsetOrderingWellFounded
<1>2. T \subseteq FiniteSubsetsOf(Nat) /\ T # {}
  <2>1. \A x \in S : 0..x \subseteq Nat /\ IsFiniteSet(0..x)
    BY FS_Interval
  <2> QED BY <2>1 DEF FiniteSubsetsOf
<1>3. PICK m \in T : \A k \in T : ~(<<k, m>> \in R)
  BY <1>1, <1>2, WFMin
<1>4. PICK x \in S : m = 0..x
  OBVIOUS
<1>5. ASSUME NEW y \in S, y < x PROVE FALSE
  <2>1. /\ 0..y \in SUBSET Nat /\ 0..x \in SUBSET Nat
        /\ 0..y \subseteq 0..x /\ x \in 0..x /\ x \notin 0..y
    BY <1>5
  <2>2. <<0..y, 0..x>> \in R
    BY <2>1 DEF StrictSubsetOrdering
  <2> QED BY <1>3, <1>4, <2>2
<1>6. \A y \in S : x <= y
  BY <1>5
<1> QED BY <1>6 DEF First

\* A socket that is looked at.
SocketFits ==
    /\ OptionAssumed
    /\ socket \in Sockets

Named == {NoInterface} \cup Interfaces

LEMMA InterfacesFit ==
    ASSUME SocketFits
    PROVE  /\ Interfaces \subseteq Nat \ {0} /\ NoInterface \notin Interfaces
           /\ \A i \in Interfaces :
                 /\ AddressesOf(i) \in SUBSET Nat
                 /\ AddressesOf(i) \subseteq DOMAIN socket.interfaces[i]
                 /\ \A k \in DOMAIN socket.interfaces[i] : socket.interfaces[i][k] # NoAddress
<1>1. socket.interfaces \in Seq(Seq(STRING))
  BY DEF SocketFits, OptionAssumed
<1>2. \A i \in Interfaces : i \in 1..Len(socket.interfaces) /\ socket.interfaces[i] \in Seq(STRING)
  BY <1>1 DEF Interfaces
<1>3. \A i \in Interfaces : DOMAIN socket.interfaces[i] \subseteq Nat
  BY <1>2
<1>4. \A i \in Interfaces : \A k \in DOMAIN socket.interfaces[i] : socket.interfaces[i][k] # NoAddress
  BY DEF SocketFits, OptionAssumed, Interfaces
<1> QED BY <1>2, <1>3, <1>4 DEF AddressesOf, NoInterface

\* An interface that has an IPv4 address has a handle of its own.
LEMMA HandleIsFirst ==
    ASSUME SocketFits, ByAddress, NEW i \in Interfaces, HasHandle(i)
    PROVE  /\ First(AddressesOf(i)) \in DOMAIN socket.interfaces[i]
           /\ Handle(i) = socket.interfaces[i][First(AddressesOf(i))]
           /\ Handle(i) = netInterfaceToIP4(i) /\ Handle(i) # NoAddress
           /\ AddressesOf(i) # {}
<1>1. AddressesOf(i) # {} /\ i # NoInterface
  BY InterfacesFit DEF HasHandle
<1>2. First(AddressesOf(i)) \in AddressesOf(i)
  BY <1>1, InterfacesFit, HasLeast
<1>3. First(AddressesOf(i)) \in DOMAIN socket.interfaces[i]
  BY <1>2, InterfacesFit
<1>4. Handle(i) = netInterfaceToIP4(i)
  BY DEF Handle
<1>5. netInterfaceToIP4(i) = socket.interfaces[i][First(AddressesOf(i))]
  BY <1>1 DEF netInterfaceToIP4
<1> QED BY <1>1, <1>3, <1>4, <1>5, InterfacesFit

LEMMA HandlesDiffer ==
    ASSUME SocketFits, ByAddress => OwnAddresses, NEW i \in Named, NEW j \in Named,
           HasHandle(i), HasHandle(j), Handle(i) = Handle(j)
    PROVE  i = j
<1>1. CASE ~ByAddress
  BY <1>1 DEF Handle, ToIndex
<1>2. CASE ByAddress
  <2>1. NoInterface \in Named /\ Handle(NoInterface) = NoAddress
    BY <1>2 DEF Handle, netInterfaceToIP4, Named
  <2>2. \A k \in Interfaces : HasHandle(k) => Handle(k) # NoAddress
    BY <1>2, HandleIsFirst
  <2>3. CASE i \in Interfaces /\ j \in Interfaces
    <3>1. /\ First(AddressesOf(j)) \in DOMAIN socket.interfaces[j]
          /\ Handle(j) = socket.interfaces[j][First(AddressesOf(j))]
      BY <1>2, <2>3, HandleIsFirst
    <3>2. AddressesOf(i) # {} /\ Handle(i) = netInterfaceToIP4(i)
      BY <1>2, <2>3, HandleIsFirst
    <3> QED BY <1>2, <2>3, <3>1, <3>2 DEF OwnAddresses
  <2> QED BY <2>1, <2>2, <2>3 DEF Named
<1> QED BY <1>1, <1>2

\* The interface is found by its address again, if nobody else has it.
LEMMA InterfaceIsFound ==
    ASSUME SocketFits, ByAddress, OwnAddresses, NEW i \in Interfaces, HasHandle(i)
    PROVE  Having(Handle(i)) = {i} /\ netIP4ToInterface(Handle(i)) = i
<1>1. /\ First(AddressesOf(i)) \in DOMAIN socket.interfaces[i]
      /\ Handle(i) = socket.interfaces[i][First(AddressesOf(i))]
      /\ Handle(i) = netInterfaceToIP4(i) /\ AddressesOf(i) # {}
  BY HandleIsFirst
<1>2. i \in Having(Handle(i))
  BY <1>1 DEF Having, Range
<1>3. \A j \in Interfaces : j # i => j \notin Having(Handle(i))
  BY <1>1 DEF Having, Range, OwnAddresses
<1>4. Having(Handle(i)) = {i}
  BY <1>2, <1>3 DEF Having
<1>5. {i} \in SUBSET Nat /\ {i} # {}
  BY InterfacesFit
<1>6. First({i}) \in {i}
  BY <1>5, HasLeast
<1> QED BY <1>4, <1>6 DEF netIP4ToInterface

LEMMA NobodyIsUnspecified == ASSUME SocketFits PROVE Having(NoAddress) = {}
  BY InterfacesFit DEF Having, Range

-----------------------------------------------------------------------------
(* The invariant: what the kernel holds is what was last asked for, in the    *)
(* type of the option.                                                        *)

InKernel(v) == ToKernel(IF socket.option = "loopback" THEN boolint(v) ELSE v)

NumberHeld ==
    socket.option \notin Special =>
        \/ asked = Unset /\ kernel = Unset
        \/ \E v \in Values : asked = <<v>> /\ kernel = <<InKernel(v)>>

ChecksumHeld ==
    socket.option = "checksum" =>
        \/ asked = Unset /\ kernel = Unset
        \/ \E offset \in Nat : asked = <<<<TRUE, offset>>>> /\ kernel = <<offset>>
        \/ \E offset \in Nat : asked = <<<<FALSE, offset>>>> /\ kernel = <<-1>>

InterfaceHeld ==
    socket.option = "interface" =>
        \/ asked = Unset /\ kernel = Unset
        \/ \E i \in Named : HasHandle(i) /\ asked = <<i>> /\ kernel = <<Handle(i)>>

GroupsHeld ==
    socket.option = "group" =>
        \E A \in SUBSET Named, K \in {kernel[1]} :
            /\ asked = <<A>> /\ kernel = <<K>>
            /\ \A i \in A : HasHandle(i)
            /\ (ByAddress => OwnAddresses) => K = {Handle(i) : i \in A}

FilterHeld ==
    socket.option = "filter" =>
        \E g \in [Types6 -> BOOLEAN], f \in {kernel[1]} :
            /\ asked = <<g>> /\ kernel = <<f>>
            /\ \A t \in Types6 : g[t] = IF LinuxFilter THEN BitOf(t) \in f ELSE BitOf(t) \notin f

Held == NumberHeld /\ ChecksumHeld /\ InterfaceHeld /\ GroupsHeld /\ FilterHeld

OptionInv == SocketFits /\ Held /\ OptionIsKept

LEMMA OptionStarts == ASSUME OptionAssumed, OptionInit PROVE OptionInv
<1>1. SocketFits
  BY DEF SocketFits, OptionInit
<1>2. last.op = "none"
  BY DEF OptionInit
<1>3. CASE socket.option = "filter"
  <2> DEFINE g == [t \in Types6 |-> ~LinuxFilter]
  <2>1. asked = <<g>> /\ kernel = <<{}>> /\ kernel[1] = {}
    BY <1>3 DEF OptionInit
  <2>2. g \in [Types6 -> BOOLEAN]
    BY DEF LinuxFilter
  <2>3. \A t \in Types6 : g[t] = IF LinuxFilter THEN BitOf(t) \in {} ELSE BitOf(t) \notin {}
    OBVIOUS
  <2> HIDE DEF g
  <2>4. FilterHeld
    BY <2>1, <2>2, <2>3 DEF FilterHeld
  <2> QED BY <1>1, <1>2, <1>3, <2>4
          DEF OptionInv, Held, NumberHeld, ChecksumHeld, InterfaceHeld, GroupsHeld, Special,
              OptionIsKept
<1>4. CASE socket.option = "group"
  <2>1. asked = <<{}>> /\ kernel = <<{}>> /\ kernel[1] = {}
    BY <1>4 DEF OptionInit
  <2>2. {} = {Handle(i) : i \in {}}
    OBVIOUS
  <2>3. GroupsHeld
    BY <2>1, <2>2 DEF GroupsHeld
  <2> QED BY <1>1, <1>2, <1>4, <2>3
          DEF OptionInv, Held, NumberHeld, ChecksumHeld, InterfaceHeld, FilterHeld, Special,
              OptionIsKept
<1>5. CASE socket.option \notin {"filter", "group"}
  BY <1>1, <1>2, <1>5
     DEF OptionInit, OptionInv, Held, NumberHeld, ChecksumHeld, InterfaceHeld, GroupsHeld,
         FilterHeld, OptionIsKept
<1> QED BY <1>3, <1>4, <1>5

\* What depends on the socket alone stays.
SocketSame ==
    /\ socket' = socket /\ (SocketFits' <=> SocketFits)
    /\ Named' = Named /\ Values' = Values /\ (LinuxFilter' <=> LinuxFilter)
    /\ (ByAddress' <=> ByAddress) /\ (OwnAddresses' <=> OwnAddresses)
    /\ Reaches' = Reaches /\ Type' = Type
    /\ \A x : InKernel(x)' = InKernel(x) /\ Handle(x)' = Handle(x) /\ (HasHandle(x)' <=> HasHandle(x))

LEMMA SocketStays == ASSUME socket' = socket PROVE SocketSame
<1>1. Type' = Type /\ Reaches' = Reaches
  BY DEF Type, Supports, Reaches, Descriptor
<1>2. /\ Named' = Named /\ Values' = Values /\ (LinuxFilter' <=> LinuxFilter)
      /\ (SocketFits' <=> SocketFits)
  BY DEF Named, Interfaces, Values, LinuxFilter, SocketFits, OptionAssumed
<1>3. \A i : AddressesOf(i)' = AddressesOf(i)
  BY DEF AddressesOf
<1>4. \A i : netInterfaceToIP4(i)' = netInterfaceToIP4(i)
  BY <1>3 DEF netInterfaceToIP4
<1>5. (ByAddress' <=> ByAddress) /\ (OwnAddresses' <=> OwnAddresses)
  BY <1>1, <1>3, <1>4 DEF ByAddress, OwnAddresses, Interfaces
<1>6. \A x : Handle(x)' = Handle(x) /\ (HasHandle(x)' <=> HasHandle(x))
  BY <1>3, <1>4, <1>5 DEF Handle, HasHandle, ToIndex
<1>7. \A x : InKernel(x)' = InKernel(x)
  BY <1>1 DEF InKernel, ToKernel
<1> QED BY <1>1, <1>2, <1>5, <1>6, <1>7 DEF SocketSame

\* Nothing that is held changes with a call that fails or only asks.
LEMMA HeldStays == ASSUME Held, UNCHANGED <<socket, kernel, asked>> PROVE Held'
<1>1. SocketSame
  BY SocketStays
<1>2. socket' = socket /\ kernel' = kernel /\ asked' = asked
  OBVIOUS
<1>3. NumberHeld' /\ ChecksumHeld'
  BY <1>1, <1>2 DEF Held, NumberHeld, ChecksumHeld, SocketSame
<1>4. InterfaceHeld'
  BY <1>1, <1>2 DEF Held, InterfaceHeld, SocketSame
<1>5. GroupsHeld'
  <2> SUFFICES ASSUME socket.option = "group" PROVE GroupsHeld'
    BY <1>2 DEF GroupsHeld
  <2>1. PICK A \in SUBSET Named, K \in {kernel[1]} :
            /\ asked = <<A>> /\ kernel = <<K>>
            /\ \A i \in A : HasHandle(i)
            /\ (ByAddress => OwnAddresses) => K = {Handle(i) : i \in A}
    BY DEF Held, GroupsHeld
  <2>2. {Handle(i) : i \in A} = {Handle(i)' : i \in A}
    BY <1>1 DEF SocketSame
  <2> QED BY <1>1, <1>2, <2>1, <2>2 DEF GroupsHeld, SocketSame
<1>6. FilterHeld'
  BY <1>1, <1>2 DEF Held, FilterHeld, SocketSame, BitOf
<1> QED BY <1>3, <1>4, <1>5, <1>6 DEF Held

\* A call that is none of the getters leaves nothing to compare.
LEMMA OnlyGetsAreKept ==
    ASSUME OptionInv, socket' = socket, Held', last'.op # "get" PROVE OptionInv'
<1>1. SocketFits'
  BY SocketStays DEF SocketSame, OptionInv
<1>2. OptionIsKept'
  BY DEF OptionIsKept
<1> QED BY <1>1, <1>2 DEF OptionInv

LEMMA FailedCallStays ==
    ASSUME OptionInv, UNCHANGED <<socket, kernel, asked>>, last'.op # "get" PROVE OptionInv'
  BY HeldStays, OnlyGetsAreKept DEF OptionInv

\* A getter that does not reach the option is not asked what it keeps.
LEMMA VainGetStays ==
    ASSUME OptionInv, NEW arg, NEW error, Fails("get", arg, error), Reaches # "nil"
    PROVE  OptionInv'
<1>1. SocketSame /\ Held'
  BY SocketStays, HeldStays DEF Fails, OptionInv
<1>2. Reaches' # "nil"
  BY <1>1 DEF SocketSame
<1> QED BY <1>1, <1>2 DEF OptionInv, OptionIsKept, SocketSame

LEMMA SetIntStays == ASSUME OptionInv, NEW v \in Values, SetInt(v) PROVE OptionInv'
<1>1. CASE Fails("set", v, Reaches) \/ SystemRefuses("set", v)
  BY <1>1, FailedCallStays DEF SystemRefuses, Fails, Call
<1>2. CASE Call("set", v, "nil", <<>>) /\ kernel' = <<InKernel(v)>> /\ asked' = <<v>> /\ socket' = socket
  <2>1. SocketSame
    BY <1>2, SocketStays
  <2>2. NumberHeld'
    BY <1>2, <2>1 DEF NumberHeld, SocketSame
  <2>3. Held'
    BY <1>2, <2>2
       DEF Held, ChecksumHeld, InterfaceHeld, GroupsHeld, FilterHeld, SetInt
  <2>4. last'.op = "set"
    BY <1>2 DEF Call
  <2> QED BY <1>2, <2>3, <2>4, OnlyGetsAreKept
<1> QED BY <1>1, <1>2 DEF SetInt, InKernel

LEMMA SetChecksumStays ==
    ASSUME OptionInv, NEW on \in BOOLEAN, NEW offset \in {0, 2}, SetChecksum(on, offset)
    PROVE  OptionInv'
<1>1. CASE Fails("set", <<on, offset>>, Reaches) \/ SystemRefuses("set", <<on, offset>>)
  BY <1>1, FailedCallStays DEF SystemRefuses, Fails, Call
<1>2. CASE /\ Call("set", <<on, offset>>, "nil", <<>>)
           /\ kernel' = <<IF on THEN offset ELSE -1>>
           /\ asked' = <<<<on, offset>>>>
           /\ socket' = socket
  <2>1. ChecksumHeld'
    <3>1. CASE on = TRUE
      BY <1>2, <3>1 DEF ChecksumHeld
    <3>2. CASE on = FALSE
      BY <1>2, <3>2 DEF ChecksumHeld
    <3> QED BY <3>1, <3>2
  <2>2. Held'
    BY <1>2, <2>1
       DEF Held, NumberHeld, InterfaceHeld, GroupsHeld, FilterHeld, SetChecksum, Special
  <2>3. last'.op = "set"
    BY <1>2 DEF Call
  <2> QED BY <1>2, <2>2, <2>3, OnlyGetsAreKept
<1> QED BY <1>1, <1>2 DEF SetChecksum

LEMMA SetInterfaceStays ==
    ASSUME OptionInv, NEW i \in Named, SetMulticastInterface(i) PROVE OptionInv'
<1>1. ASSUME NEW error \in {Reaches, "no such interface", "errno"}, Fails("set", i, error)
      PROVE  OptionInv'
  BY <1>1, FailedCallStays DEF Fails, Call
<1>2. CASE /\ HasHandle(i) /\ Call("set", i, "nil", <<>>)
           /\ kernel' = <<Handle(i)>> /\ asked' = <<i>> /\ socket' = socket
  <2>1. SocketSame
    BY <1>2, SocketStays
  <2>2. InterfaceHeld'
    BY <1>2, <2>1 DEF InterfaceHeld, SocketSame
  <2>3. Held'
    BY <1>2, <2>2
       DEF Held, NumberHeld, ChecksumHeld, GroupsHeld, FilterHeld, SetMulticastInterface, Special
  <2>4. last'.op = "set"
    BY <1>2 DEF Call
  <2> QED BY <1>2, <2>3, <2>4, OnlyGetsAreKept
<1> QED BY <1>1, <1>2 DEF SetMulticastInterface, SystemRefuses

LEMMA ChangesGroupStays ==
    ASSUME OptionInv, NEW op \in {"join", "leave"}, NEW i \in Named, NEW group,
           ChangesGroup(op, i, group)
    PROVE  OptionInv'
<1>1. ASSUME NEW error \in {Reaches, "missing address", "no such interface", "errno"},
             Fails(op, <<i, group>>, error)
      PROVE  OptionInv'
  BY <1>1, FailedCallStays DEF Fails, Call
<1>2. CASE /\ HasHandle(i) /\ ~((op = "join") = (Handle(i) \in Members))
           /\ Call(op, <<i, group>>, "nil", <<>>)
           /\ kernel' = <<IF op = "join" THEN Members \cup {Handle(i)} ELSE Members \ {Handle(i)}>>
           /\ asked' = <<IF op = "join" THEN asked[1] \cup {i} ELSE asked[1] \ {i}>>
           /\ socket' = socket
  <2>1. SocketSame
    BY <1>2, SocketStays
  <2>2. PICK A \in SUBSET Named, K \in {kernel[1]} :
            /\ asked = <<A>> /\ kernel = <<K>>
            /\ \A j \in A : HasHandle(j)
            /\ (ByAddress => OwnAddresses) => K = {Handle(j) : j \in A}
    BY DEF OptionInv, Held, GroupsHeld, ChangesGroup
  <2>3. asked[1] = A /\ Members = K
    BY <2>2 DEF Members
  <2>4. PICK B \in SUBSET Named : B = IF op = "join" THEN A \cup {i} ELSE A \ {i}
    OBVIOUS
  <2>5. PICK L : L = IF op = "join" THEN K \cup {Handle(i)} ELSE K \ {Handle(i)}
    OBVIOUS
  <2>6. asked' = <<B>> /\ kernel' = <<L>> /\ kernel'[1] = L
    BY <1>2, <2>3, <2>4, <2>5
  <2>7. \A j \in B : HasHandle(j)
    BY <1>2, <2>2, <2>4
  <2>8. ASSUME ByAddress => OwnAddresses PROVE L = {Handle(j) : j \in B}
    <3>1. K = {Handle(j) : j \in A}
      BY <2>2, <2>8
    <3>2. \A j \in A : Handle(j) = Handle(i) => j = i
      BY <1>2, <2>2, <2>8, HandlesDiffer DEF OptionInv
    <3>3. CASE op = "join"
      BY <2>4, <2>5, <3>1, <3>3
    <3>4. CASE op = "leave"
      BY <2>4, <2>5, <3>1, <3>2, <3>4
    <3> QED BY <3>3, <3>4
  <2>9. {Handle(j) : j \in B} = {Handle(j)' : j \in B}
    BY <2>1 DEF SocketSame
  <2>10. GroupsHeld'
    BY <2>1, <2>6, <2>7, <2>8, <2>9 DEF GroupsHeld, SocketSame
  <2>11. Held'
    BY <1>2, <2>10
       DEF Held, NumberHeld, ChecksumHeld, InterfaceHeld, FilterHeld, ChangesGroup, Special
  <2>12. last'.op # "get"
    BY <1>2 DEF Call
  <2> QED BY <1>2, <2>11, <2>12, OnlyGetsAreKept
<1> QED BY <1>1, <1>2 DEF ChangesGroup

LEMMA FilterStays ==
    ASSUME OptionInv, NEW f, NEW g \in [Types6 -> BOOLEAN], socket.option = "filter",
           socket' = socket, kernel' = <<f>>, asked' = <<g>>, last'.op = "set",
           \A t \in Types6 : g[t] = IF LinuxFilter THEN BitOf(t) \in f ELSE BitOf(t) \notin f
    PROVE  OptionInv'
<1>1. SocketSame
  BY SocketStays
<1>2. kernel'[1] = f
  OBVIOUS
<1>3. FilterHeld'
  BY <1>1, <1>2 DEF FilterHeld, SocketSame, BitOf
<1>4. Held'
  BY <1>3 DEF Held, NumberHeld, ChecksumHeld, InterfaceHeld, GroupsHeld, Special
<1> QED BY <1>4, OnlyGetsAreKept

\* Types of ICMP have bits of their own, all in the eight words.
LEMMA BitsDiffer ==
    ASSUME OptionInv
    PROVE  /\ \A t, u \in Types6 : BitOf(t) = BitOf(u) => t = u
           /\ \A t \in Types6 : BitOf(t) \in AllBits
<1>1. Types6 \subseteq 0..255
  BY DEF OptionInv, SocketFits, OptionAssumed
<1>2. \A t \in 0..255 :
          /\ t \div 32 \in 0..7 /\ t % 32 \in 0..31
          /\ t = 32 * (t \div 32) + (t % 32)
  OBVIOUS
<1>3. ASSUME NEW t \in 0..255, NEW u \in 0..255, BitOf(t) = BitOf(u) PROVE t = u
  <2>1. t \div 32 = u \div 32 /\ t % 32 = u % 32
    BY <1>3 DEF BitOf
  <2> QED BY <1>2, <2>1
<1> QED BY <1>1, <1>2, <1>3 DEF BitOf, AllBits

LEMMA FilterSetStays ==
    ASSUME OptionInv, NEW typ \in Types6, NEW block \in BOOLEAN, FilterSet(typ, block)
    PROVE  OptionInv'
<1>1. socket.option = "filter"
  BY DEF FilterSet
<1>2. PICK g \in [Types6 -> BOOLEAN], f \in {kernel[1]} :
          /\ asked = <<g>> /\ kernel = <<f>>
          /\ \A t \in Types6 : g[t] = IF LinuxFilter THEN BitOf(t) \in f ELSE BitOf(t) \notin f
  BY <1>1 DEF OptionInv, Held, FilterHeld
<1>3. PICK h \in [Types6 -> BOOLEAN] : h = [g EXCEPT ![typ] = block]
  OBVIOUS
<1>4. h[typ] = block /\ \A t \in Types6 : t # typ => h[t] = g[t]
  BY <1>3
<1>5. asked' = <<h>>
  <2>1. asked[1] = g
    BY <1>2
  <2>2. asked' = [asked EXCEPT ![1] = h]
    BY <1>3, <2>1 DEF FilterSet
  <2>3. \A a, b : [<<a>> EXCEPT ![1] = b] = <<b>>
    OBVIOUS
  <2> QED BY <1>2, <2>2, <2>3
<1>6. PICK e : e = IF LinuxFilter THEN SetLinux(f, typ, block) ELSE SetBSD(f, typ, block)
  OBVIOUS
<1>7. kernel' = <<e>> /\ socket' = socket /\ last'.op = "set"
  BY <1>2, <1>6 DEF FilterSet, Filter, Call
<1>8. e = IF LinuxFilter = block THEN f \cup {BitOf(typ)} ELSE f \ {BitOf(typ)}
  BY <1>6 DEF SetLinux, SetBSD, LinuxFilter
<1>9. \A t \in Types6 : t # typ => (BitOf(t) \in e <=> BitOf(t) \in f)
  BY <1>8, BitsDiffer
<1>10. BitOf(typ) \in e <=> (LinuxFilter = block)
  BY <1>8
<1>11. ASSUME NEW t \in Types6
       PROVE  h[t] = IF LinuxFilter THEN BitOf(t) \in e ELSE BitOf(t) \notin e
  <2>1. CASE t = typ
    BY <1>4, <1>10, <2>1 DEF LinuxFilter
  <2>2. CASE t # typ
    BY <1>2, <1>4, <1>9, <2>2 DEF LinuxFilter
  <2> QED BY <2>1, <2>2
<1> QED BY <1>1, <1>5, <1>7, <1>11, FilterStays

LEMMA FilterSetAllStays ==
    ASSUME OptionInv, NEW block \in BOOLEAN, FilterSetAll(block) PROVE OptionInv'
<1>1. PICK h \in [Types6 -> BOOLEAN] : h = [t \in Types6 |-> block]
  OBVIOUS
<1>2. PICK e : e = IF LinuxFilter = block THEN AllBits ELSE {}
  OBVIOUS
<1>3. /\ socket.option = "filter" /\ asked' = <<h>> /\ kernel' = <<e>> /\ socket' = socket
      /\ last'.op = "set"
  BY <1>1, <1>2 DEF FilterSetAll, SetAllLinux, SetAllBSD, Call, LinuxFilter
<1>4. ASSUME NEW t \in Types6
      PROVE  h[t] = IF LinuxFilter THEN BitOf(t) \in e ELSE BitOf(t) \notin e
  BY <1>1, <1>2, BitsDiffer DEF LinuxFilter
<1> QED BY <1>3, <1>4, FilterStays

-----------------------------------------------------------------------------
(* The getters. *)

\* A getter that reaches the option tells what is held.
LEMMA GetStays ==
    ASSUME OptionInv, UNCHANGED <<socket, kernel, asked>>, last'.op = "get",
           asked # Unset /\ Reaches = "nil" =>
               CASE Type = "int" \/ socket.option = "loopback" -> last'.value = asked
                 [] Type = "byte" /\ socket.option # "loopback" ->
                       asked[1] \in 0..255 => last'.value = asked
                 [] Type = "checksum" ->
                       last'.value[1] = <<asked[1][1], IF asked[1][1] THEN asked[1][2] ELSE -1>>
                 [] Type \in {"index", "mreqn"} -> last'.value = asked
                 [] Type = "address" /\ asked[1] = NoInterface -> last'.err = "no such interface"
                 [] Type = "address" /\ asked[1] # NoInterface /\ OwnAddresses ->
                       last'.value = asked
                 [] OTHER -> TRUE
    PROVE  OptionInv'
<1>1. SocketSame /\ Held'
  BY SocketStays, HeldStays DEF OptionInv
<1>2. OptionIsKept'
  BY <1>1 DEF OptionIsKept, SocketSame
<1> QED BY <1>1, <1>2 DEF OptionInv, SocketSame

LEMMA GetIntStays == ASSUME OptionInv, GetInt PROVE OptionInv'
<1>1. CASE Reaches # "nil"
  BY <1>1, VainGetStays DEF GetInt
<1>2. CASE Reaches = "nil"
  <2>1. PICK value : value = IF kernel # Unset /\ socket.option = "loopback"
                             THEN <<IsOn(kernel[1])>> ELSE kernel
    OBVIOUS
  <2>2. /\ UNCHANGED <<socket, kernel, asked>> /\ last'.op = "get" /\ last'.value = value
        /\ socket.option \notin Special
    BY <1>2, <2>1 DEF GetInt, Call, Special
  <2>3. TypeFits
    BY TypesDoFit DEF OptionInv, SocketFits, OptionAssumed
  <2>4. Type \in {"int", "byte"}
    BY <1>2, <2>2, <2>3 DEF TypeFits, Reaches
  <2>5. CASE asked = Unset
    BY <2>2, <2>5, GetStays
  <2>6. CASE asked # Unset
    <3>1. PICK v \in Values : asked = <<v>> /\ kernel = <<InKernel(v)>>
      BY <2>2, <2>6 DEF OptionInv, Held, NumberHeld
    <3>2. CASE socket.option = "loopback"
      <4>1. v \in BOOLEAN
        BY <3>2 DEF Values
      <4>2. value = <<IsOn(InKernel(v))>>
        BY <2>1, <3>1, <3>2 DEF Unset
      <4>3. InKernel(v) = boolint(v)
        BY <3>2, <4>1 DEF InKernel, ToKernel, boolint
      <4>4. PICK w \in BOOLEAN : w = IsOn(InKernel(v))
        BY DEF IsOn
      <4>5. w <=> v
        BY <4>1, <4>3, <4>4 DEF IsOn, boolint
      <4>6. value = <<w>> /\ asked = <<w>>
        BY <3>1, <4>1, <4>2, <4>4, <4>5
      <4>7. value = asked
        BY ONLY <4>6
      <4> QED BY <2>2, <2>4, <3>2, <4>7, GetStays
    <3>3. CASE socket.option # "loopback"
      <4>1. v \in Nat
        BY <3>3 DEF Values, OptionInv, SocketFits, OptionAssumed
      <4>2. value = <<InKernel(v)>>
        BY <2>1, <3>1, <3>3
      <4>3. CASE Type = "int"
        <5>1. value = asked
          BY <3>1, <3>3, <4>2, <4>3 DEF InKernel, ToKernel
        <5> QED BY <2>2, <4>3, <5>1, GetStays
      <4>4. CASE Type = "byte"
        <5>1. v \in 0..255 => v % 256 = v
          BY <4>1
        <5>2. asked[1] \in 0..255 => value = asked
          BY <3>1, <3>3, <4>2, <4>4, <5>1 DEF InKernel, ToKernel
        <5> QED BY <2>2, <3>3, <4>4, <5>2, GetStays
      <4> QED BY <2>4, <4>3, <4>4
    <3> QED BY <3>2, <3>3
  <2> QED BY <2>5, <2>6
<1> QED BY <1>1, <1>2

LEMMA GetChecksumStays == ASSUME OptionInv, GetChecksum PROVE OptionInv'
<1>1. CASE Reaches # "nil"
  BY <1>1, VainGetStays DEF GetChecksum
<1>2. CASE Reaches = "nil"
  <2>1. PICK value :
            value = IF kernel = Unset THEN Unset ELSE <<<<kernel[1] # -1, kernel[1]>>>>
    OBVIOUS
  <2>2. /\ UNCHANGED <<socket, kernel, asked>> /\ last'.op = "get" /\ last'.value = value
        /\ socket.option = "checksum"
    BY <1>2, <2>1 DEF GetChecksum, Call
  <2>3. TypeFits
    BY TypesDoFit DEF OptionInv, SocketFits, OptionAssumed
  <2>4. Type = "checksum"
    BY <1>2, <2>2, <2>3 DEF TypeFits, Reaches
  <2>5. CASE asked = Unset
    BY <2>2, <2>5, GetStays
  <2>6. ASSUME NEW offset \in Nat, asked = <<<<TRUE, offset>>>>, kernel = <<offset>>
        PROVE  OptionInv'
    <3>1. value = <<<<TRUE, offset>>>>
      <4>1. kernel[1] = offset /\ kernel # Unset
        BY <2>6 DEF Unset
      <4>2. (kernel[1] # -1) = TRUE
        BY <4>1
      <4> QED BY <2>1, <4>1, <4>2
    <3>2. value[1] = <<asked[1][1], IF asked[1][1] THEN asked[1][2] ELSE -1>>
      BY <2>6, <3>1
    <3> QED BY <2>2, <2>4, <3>2, GetStays
  <2>7. ASSUME NEW offset \in Nat, asked = <<<<FALSE, offset>>>>, kernel = <<-1>>
        PROVE  OptionInv'
    <3>1. value = <<<<FALSE, -1>>>>
      BY <2>1, <2>7 DEF Unset
    <3>2. value[1] = <<asked[1][1], IF asked[1][1] THEN asked[1][2] ELSE -1>>
      BY <2>7, <3>1
    <3> QED BY <2>2, <2>4, <3>2, GetStays
  <2> QED BY <2>2, <2>5, <2>6, <2>7 DEF OptionInv, Held, ChecksumHeld
<1> QED BY <1>1, <1>2

LEMMA MulticastInterfaceStays == ASSUME OptionInv, MulticastInterface PROVE OptionInv'
<1>1. CASE Reaches # "nil"
  BY <1>1, VainGetStays DEF MulticastInterface
<1>2. CASE Reaches = "nil"
  <2>1. socket.option = "interface" /\ kernel # Unset
    BY <1>2 DEF MulticastInterface
  <2>2. TypeFits
    BY TypesDoFit DEF OptionInv, SocketFits, OptionAssumed
  <2>3. Type \in {"mreqn", "address", "index"}
    BY <1>2, <2>1, <2>2 DEF TypeFits, Reaches
  <2>4. PICK i \in Named : HasHandle(i) /\ asked = <<i>> /\ kernel = <<Handle(i)>>
    BY <2>1 DEF OptionInv, Held, InterfaceHeld
  <2>5. asked[1] = i /\ kernel[1] = Handle(i)
    BY <2>4
  <2>6. ByAddress <=> Type = "address"
    BY <2>3 DEF ByAddress
  <2>a. PICK value : value = IF ByAddress THEN <<netIP4ToInterface(kernel[1])>> ELSE kernel
    OBVIOUS
  <2>b. PICK none : none = "no such interface"
    BY Zenon
  <2>c. Having(kernel[1]) = {} /\ ByAddress
        => /\ last' = [op |-> "get", arg |-> <<>>, err |-> none, value |-> <<>>]
           /\ UNCHANGED <<socket, kernel, asked>>
    BY <1>2, <2>b, Zenon DEF MulticastInterface, Fails, Call
  <2>d. ~(ByAddress /\ Having(kernel[1]) = {})
        => /\ last' = [op |-> "get", arg |-> <<>>, err |-> "nil", value |-> value]
           /\ UNCHANGED <<socket, kernel, asked>>
    BY <1>2, <2>a, Zenon DEF MulticastInterface, Call
  <2>7. UNCHANGED <<socket, kernel, asked>> /\ last'.op = "get"
    BY <2>c, <2>d
  <2>8. CASE ~ByAddress
    <3>1. last'.value = asked
      BY <2>4, <2>8, <2>a, <2>d DEF Handle, ToIndex
    <3> QED BY <2>1, <2>3, <2>6, <2>7, <2>8, <3>1, GetStays
  <2>9. CASE ByAddress /\ i = NoInterface
    <3>1. Handle(i) = NoAddress
      BY <2>9 DEF Handle, netInterfaceToIP4
    <3>2. Having(kernel[1]) = {}
      BY <2>5, <3>1, NobodyIsUnspecified DEF OptionInv
    <3>3. last'.err = none
      BY <2>9, <2>c, <3>2
    <3>4. last'.err = "no such interface"
      BY <2>b, <3>3, Zenon
    <3> QED BY <2>1, <2>5, <2>6, <2>7, <2>9, <3>4, GetStays
  <2>10. CASE ByAddress /\ i # NoInterface /\ OwnAddresses
    <3>1. Having(kernel[1]) = {i} /\ netIP4ToInterface(kernel[1]) = i
      BY <2>4, <2>5, <2>10, InterfaceIsFound DEF OptionInv, Named
    <3>2. last'.value = asked
      BY <2>4, <2>10, <2>a, <2>d, <3>1
    <3> QED BY <2>1, <2>5, <2>6, <2>7, <2>10, <3>2, GetStays
  <2>11. CASE ByAddress /\ i # NoInterface /\ ~OwnAddresses
    BY <2>1, <2>5, <2>6, <2>7, <2>11, GetStays
  <2> QED BY <2>8, <2>9, <2>10, <2>11
<1> QED BY <1>1, <1>2

-----------------------------------------------------------------------------

LEMMA OptionStays == OptionInv /\ [OptionNext]_optionVars => OptionInv'
<1> SUFFICES ASSUME OptionInv, [OptionNext]_optionVars PROVE OptionInv'
  OBVIOUS
<1>1. CASE UNCHANGED optionVars
  <2>1. SocketSame /\ Held'
    BY <1>1, SocketStays, HeldStays DEF optionVars, OptionInv
  <2> QED BY <1>1, <2>1 DEF optionVars, OptionInv, OptionIsKept, SocketSame
<1>2. ASSUME NEW i \in Named, NEW group \in {4, 6}, JoinGroup(i, group) \/ LeaveGroup(i, group)
      PROVE  OptionInv'
  BY <1>2, ChangesGroupStays DEF JoinGroup, LeaveGroup
<1>3. CASE OptionNext
  BY <1>2, <1>3, SetIntStays, GetIntStays, SetChecksumStays, GetChecksumStays, SetInterfaceStays,
     MulticastInterfaceStays, FilterSetStays, FilterSetAllStays DEF OptionNext, Named
<1> QED BY <1>1, <1>3

LEMMA GroupsStayApart == ASSUME OptionInv PROVE GroupsAreApart
<1> SUFFICES ASSUME socket.option = "group", ByAddress => OwnAddresses
             PROVE  /\ Cardinality(Members) = Cardinality(asked[1])
                    /\ \A i \in asked[1] : Handle(i) \in Members
  BY DEF GroupsAreApart
<1>1. PICK A \in SUBSET Named, K \in {kernel[1]} :
          /\ asked = <<A>> /\ kernel = <<K>>
          /\ \A i \in A : HasHandle(i)
          /\ K = {Handle(i) : i \in A}
  BY DEF OptionInv, Held, GroupsHeld
<1>2. asked[1] = A /\ Members = K
  BY <1>1 DEF Members
<1>3. IsFiniteSet(A)
  <2>1. socket.interfaces \in Seq(Seq(STRING))
    BY DEF OptionInv, SocketFits, OptionAssumed
  <2>2. PICK n \in Nat : Interfaces = 1..n
    BY <2>1 DEF Interfaces
  <2>3. A \in SUBSET (0..n)
    <3>1. \A i \in Named : i \in 0..n
      BY <2>2 DEF Named, NoInterface
    <3> QED BY <1>1, <3>1
  <2>4. IsFiniteSet(0..n)
    BY FS_Interval
  <2> QED BY ONLY <2>3, <2>4, FS_Subset
<1> DEFINE f == [i \in A |-> Handle(i)]
<1>4. f \in Surjection(A, K) /\ f \in Injection(A, K)
  <2>1. f \in [A -> K] /\ \A k \in K : \E i \in A : f[i] = k
    BY <1>1
  <2>2. \A i, j \in A : f[i] = f[j] => i = j
    BY <1>1, HandlesDiffer DEF OptionInv
  <2> HIDE DEF f
  <2> QED BY <2>1, <2>2 DEF Surjection, Injection, IsInjective
<1>5. Cardinality(K) = Cardinality(A)
  <2> HIDE DEF f
  <2> QED BY <1>3, <1>4, FS_Surjection
<1> QED BY <1>1, <1>2, <1>5

LEMMA FilterIsHeld == ASSUME OptionInv PROVE FilterIsKept
<1> SUFFICES ASSUME socket.option = "filter", NEW t \in Types6 PROVE WillBlock(t) = asked[1][t]
  BY DEF FilterIsKept
<1>1. PICK g \in [Types6 -> BOOLEAN], f \in {kernel[1]} :
          /\ asked = <<g>> /\ kernel = <<f>>
          /\ g[t] = IF LinuxFilter THEN BitOf(t) \in f ELSE BitOf(t) \notin f
  BY DEF OptionInv, Held, FilterHeld
<1>2. asked[1][t] = g[t]
  BY <1>1
<1>3. WillBlock(t) = IF LinuxFilter THEN BitOf(t) \in f ELSE BitOf(t) \notin f
  BY <1>1 DEF WillBlock, WillBlockLinux, WillBlockBSD, Filter
<1> QED BY <1>1, <1>2, <1>3

\* The setters and getters of ipv4 and ipv6, on every kind of system and connection,
\* for any interfaces, numbers and types of ICMP: what was set is read back, one
\* interface's membership is not taken for another's, and a filter tells what was
\* last said about a type.
THEOREM OptionsStayKept == ASSUME OptionAssumed PROVE OptionSpec => []OptionsAreKept
<1>1. OptionInit => OptionInv
  BY OptionStarts
<1>2. OptionInv => OptionsAreKept
  BY GroupsStayApart, FilterIsHeld DEF OptionInv, OptionsAreKept
<1> QED BY <1>1, <1>2, OptionStays, PTL DEF OptionSpec
=============================================================================
