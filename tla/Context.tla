------------------------------ MODULE Context ------------------------------
(***************************************************************************)
(* Package context of go.net: a tree of contexts that goroutines derive    *)
(* and cancel at any time.  Contexts are numbered in the order of their    *)
(* creation, 0 is Background; a parent is older than its children.  A step *)
(* is what a goroutine does between two waits for a mutex.                 *)
(***************************************************************************)
EXTENDS Naturals, FiniteSets

CONSTANTS
    Callers,   \* the goroutines of the program
    MaxCtx,    \* bound: the contexts that are derived
    MaxDeadlines, \* bound: the contexts that are derived with a deadline
    Horizon,   \* bound: the last time of the clock
    Nobody     \* the owner of a free mutex

Ctxs == 1..MaxCtx
Timer(c) == <<"timer", c>>  \* the goroutine in which the timer of c fires
Watch(c) == <<"watch", c>>  \* the one that waits for a foreign parent of c
Procs == Callers \cup {Timer(c) : c \in Ctxs} \cup {Watch(c) : c \in Ctxs}
Never == Horizon + 1

ASSUME ContextAssumption ==
    /\ MaxCtx \in Nat /\ Horizon \in Nat /\ MaxDeadlines \in Nat
    /\ Nobody \notin Procs
    /\ \A t \in Callers, c \in Ctxs : t # Timer(c) /\ t # Watch(c)

VARIABLES
    made,     \* how many contexts were derived
    ctx,      \* the contexts; what never changes once they exist
    err,      \* c.err; c.done is closed iff it is not "nil"
    children, \* c.children
    mu,       \* who holds c.mu
    timer,    \* whether the timer of c is running
    now,      \* the clock
    work      \* what each goroutine is doing

ctxVars == <<made, ctx, err, children, mu, timer, now, work>>

\* canceler is what parentCancelCtx finds from the context, done the context
\* whose Done channel it shows (0: none), deadline what Deadline() returns.
Ctx == [kind : {"empty", "cancel", "timer", "value", "foreign"}, parent : 0..MaxCtx,
        canceler : 0..MaxCtx, done : 0..MaxCtx, deadline : 0..Never]
Background == [kind |-> "empty", parent |-> 0, canceler |-> 0, done |-> 0, deadline |-> Never]

\* A call of cancel: base is the context it was called for, at the one that it
\* has come to.  Children are cancelled from their parents only, so the frames
\* in between are the parents from at up to base.
Work == [pc : {"idle", "arm", "select", "lock", "children", "unlink", "stop"},
         base : 0..MaxCtx, at : 0..MaxCtx, remove : BOOLEAN,
         why : {"nil", "canceled", "exceeded"}]
Idle == [pc |-> "idle", base |-> 0, at |-> 0, remove |-> FALSE, why |-> "nil"]

At(p, pc) == work[p].pc = pc
Job(pc, c, remove, why) == [pc |-> pc, base |-> c, at |-> c, remove |-> remove, why |-> why]

\* The cancelCtx that c is registered with.
Up(c) == ctx[ctx[c].parent].canceler

\* The constructor of c has returned.
Usable(c) == c <= made /\ \A t \in Callers : ~(At(t, "arm") /\ work[t].base = c)

ContextInit ==
    /\ made = 0
    /\ ctx = [c \in 0..MaxCtx |-> Background]
    /\ err = [c \in Ctxs |-> "nil"]
    /\ children = [c \in Ctxs |-> {}]
    /\ mu = [c \in Ctxs |-> Nobody]
    /\ timer = [c \in Ctxs |-> FALSE]
    /\ now = 0
    /\ work = [p \in Procs |-> Idle]

-----------------------------------------------------------------------------
(* Mistakes the code does not make; each must break a property. *)

BugRegisters(c, q) == children' = [children EXCEPT ![q] = @ \cup {c}] /\ UNCHANGED err
BugAlwaysArms(c) == TRUE
BugArmsTheCancelled(c) == err[c] # "nil"
BugForgetsNone(c) == {}
BugNeverCancelled(c) == FALSE
BugWaits(p, c) == UNCHANGED <<work, err, mu>>
BugHearsNothing(c) == FALSE
BugHearsTooEarly(c) == ctx[ctx[c].parent].done # 0

-----------------------------------------------------------------------------
(* Deriving a context. *)

\* p.children[child] = true, unless the parent is cancelled by now.
Registers(c, q) ==
    IF err[q] # "nil"
    THEN err' = [err EXCEPT ![c] = err[q]] /\ UNCHANGED children
    ELSE children' = [children EXCEPT ![q] = @ \cup {c}] /\ UNCHANGED err

\* A cancelCtx or timerCtx c under the given parent; next is what goroutine t
\* does after propagateCancel.
Derives(t, c, parent, kind, deadline, next) ==
    LET q == ctx[parent].canceler
        foreign == ctx[parent].done # 0 /\ q = 0
    IN /\ made' = c
       /\ ctx' = [ctx EXCEPT ![c] = [kind |-> kind, parent |-> parent, canceler |-> c,
                                     done |-> c, deadline |-> deadline]]
       /\ IF q = 0 THEN UNCHANGED <<err, children>>
                   ELSE mu[q] = Nobody /\ Registers(c, q)
       /\ work' = [p \in Procs |->
                     IF p = t THEN next
                     ELSE IF foreign /\ p = Watch(c) THEN Job("select", c, FALSE, "nil")
                     ELSE work[p]]
       /\ UNCHANGED <<mu, timer, now>>

WithCancel(t, parent) ==
    Derives(t, made + 1, parent, "cancel", ctx[parent].deadline, Idle)

WithDeadline(t, parent, deadline) ==
    IF ctx[parent].deadline < deadline
    THEN WithCancel(t, parent)
    ELSE Derives(t, made + 1, parent, "timer", deadline,
                 Job("arm", made + 1, TRUE, "exceeded"))

\* WithValue, or a Context of another package that embeds the parent.
Wraps(parent, kind) ==
    LET c == made + 1
    IN /\ made' = c
       /\ ctx' = [ctx EXCEPT ![c] =
                    [ctx[parent] EXCEPT !.kind = kind, !.parent = parent,
                                        !.canceler = IF kind = "value" THEN @ ELSE 0]]
       /\ UNCHANGED <<err, children, mu, timer, now, work>>

WithValue(parent) == Wraps(parent, "value")
ForeignContext(parent) == Wraps(parent, "foreign")

\* A context that was cancelled meanwhile gets no timer.
Arms(c) == err[c] = "nil"

\* The end of WithDeadline: cancel at once, or start the timer.
Arm(t) ==
    LET c == work[t].base
    IN /\ At(t, "arm")
       /\ \/ /\ ctx[c].deadline <= now
             /\ work' = [work EXCEPT ![t].pc = "lock"]
             /\ UNCHANGED timer
          \/ /\ ctx[c].deadline > now
             /\ mu[c] = Nobody
             /\ timer' = [timer EXCEPT ![c] = Arms(c)]
             /\ work' = [work EXCEPT ![t] = Idle]
       /\ UNCHANGED <<made, ctx, err, children, mu, now>>

-----------------------------------------------------------------------------
(* cancel *)

Cancel(t, c) ==
    /\ At(t, "idle")
    /\ work' = [work EXCEPT ![t] = Job("lock", c, TRUE, "canceled")]
    /\ UNCHANGED <<made, ctx, err, children, mu, timer, now>>

\* The call for work[p].at returns: to the caller, or to its parent's loop.
BackFrom(p) ==
    IF work[p].at = work[p].base THEN Idle
    ELSE [work[p] EXCEPT !.pc = "children", !.at = Up(work[p].at)]

\* timerCtx.cancel goes on to stop the timer.
Proceeds(p) ==
    IF ctx[work[p].at].kind = "timer" THEN [work[p] EXCEPT !.pc = "stop"] ELSE BackFrom(p)

IsCancelled(c) == err[c] # "nil"

Refuses(p, c) == work' = [work EXCEPT ![p] = Proceeds(p)] /\ UNCHANGED <<err, mu>>

MarksCancelled(p, c) ==
    /\ err' = [err EXCEPT ![c] = work[p].why]
    /\ mu' = [mu EXCEPT ![c] = p]
    /\ work' = [work EXCEPT ![p].pc = "children"]

Locks(p) ==
    LET c == work[p].at
    IN /\ At(p, "lock")
       /\ mu[c] = Nobody
       /\ IF IsCancelled(c) THEN Refuses(p, c) ELSE MarksCancelled(p, c)
       /\ UNCHANGED <<made, ctx, children, timer, now>>

\* child.cancel(false, err), holding the mutex: no one sees which children are
\* done already.
CancelsChild(p) ==
    /\ At(p, "children")
    /\ \E child \in children[work[p].at] :
          /\ children' = [children EXCEPT ![work[p].at] = @ \ {child}]
          /\ work' = [work EXCEPT ![p].pc = "lock", ![p].at = child]
    /\ UNCHANGED <<made, ctx, err, mu, timer, now>>

Unlocks(p) ==
    LET c == work[p].at
    IN /\ At(p, "children")
       /\ children[c] = {}
       /\ mu' = [mu EXCEPT ![c] = Nobody]
       /\ work' = [work EXCEPT ![p] =
                     IF c = @.base /\ @.remove /\ Up(c) # 0
                     THEN [@ EXCEPT !.pc = "unlink"] ELSE Proceeds(p)]
       /\ UNCHANGED <<made, ctx, err, children, timer, now>>

\* delete(p.children, c): c is a *cancelCtx, but a timerCtx is in the map under
\* its own address and stays there.
MapKey(c) == IF ctx[c].kind = "cancel" THEN {c} ELSE {}

Unlinks(p) ==
    LET c == work[p].at
        q == Up(c)
    IN /\ At(p, "unlink")
       /\ mu[q] = Nobody
       /\ children' = [children EXCEPT ![q] = @ \ MapKey(c)]
       /\ work' = [work EXCEPT ![p] = Proceeds(p)]
       /\ UNCHANGED <<made, ctx, err, mu, timer, now>>

StopsTimer(p) ==
    LET c == work[p].at
    IN /\ At(p, "stop")
       /\ mu[c] = Nobody
       /\ timer' = [timer EXCEPT ![c] = FALSE]
       /\ work' = [work EXCEPT ![p] = BackFrom(p)]
       /\ UNCHANGED <<made, ctx, err, children, mu, now>>

Cancels(p) ==
    Locks(p) \/ CancelsChild(p) \/ Unlocks(p) \/ Unlinks(p) \/ StopsTimer(p)

-----------------------------------------------------------------------------
(* Goroutines the package starts, and time. *)

Fires(c) == timer[c] /\ now >= ctx[c].deadline

TimerFires(c) ==
    /\ Fires(c)
    /\ timer' = [timer EXCEPT ![c] = FALSE]
    /\ work' = [work EXCEPT ![Timer(c)] = Job("lock", c, TRUE, "exceeded")]
    /\ UNCHANGED <<made, ctx, err, children, mu, now>>

\* The channel that a watcher waits on besides that of its own context.
ParentDone(c) == ctx[ctx[c].parent].done

\* The parent's channel is closed; its Err() then waits for the mutex.
HearsParent(c) == LET d == ParentDone(c) IN d # 0 /\ err[d] # "nil" /\ mu[d] = Nobody

\* select in propagateCancel.
WatcherWakes(c) ==
    /\ At(Watch(c), "select")
    /\ \/ /\ HearsParent(c)
          /\ work' = [work EXCEPT ![Watch(c)] = Job("lock", c, FALSE, err[ParentDone(c)])]
       \/ /\ err[c] # "nil"
          /\ work' = [work EXCEPT ![Watch(c)] = Idle]
    /\ UNCHANGED <<made, ctx, err, children, mu, timer, now>>

Tick ==
    /\ now < Horizon
    /\ now' = now + 1
    /\ UNCHANGED <<made, ctx, err, children, mu, timer, work>>

ContextCalls(t) ==
    /\ At(t, "idle")
    /\ \/ /\ made < MaxCtx
          /\ \E parent \in 0..MaxCtx :
                /\ Usable(parent)
                /\ \/ WithCancel(t, parent)
                   \/ /\ Cardinality({c \in Ctxs : ctx[c].kind = "timer"}) < MaxDeadlines
                      /\ \E d \in 0..Horizon : WithDeadline(t, parent, d)
                   \/ WithValue(parent)
                   \/ ForeignContext(parent)
       \/ \E c \in Ctxs :
             Usable(c) /\ ctx[c].kind \in {"cancel", "timer"} /\ Cancel(t, c)

\* Nothing is left to do: the contexts are all made, and nobody waits.
Rests ==
    /\ made = MaxCtx
    /\ \A p \in Procs : At(p, "idle") \/ At(p, "select")
    /\ UNCHANGED ctxVars

CancelStep(p) == Cancels(p) \/ (p \in Callers /\ Arm(p))

\* What goes on without the callers.
Underway ==
    \/ \E p \in Procs \ Callers : CancelStep(p)
    \/ \E c \in Ctxs : TimerFires(c) \/ WatcherWakes(c)
    \/ Tick

ContextNext ==
    \/ \E t \in Callers : ContextCalls(t)
    \/ \E t \in Callers : CancelStep(t)
    \/ Underway
    \/ Rests

ContextSpec == ContextInit /\ [][ContextNext]_ctxVars

\* Goroutines run on, and so does the clock; a mutex that is free stays free
\* long enough.
ContextFairness == WF_ctxVars(Underway) /\ \A t \in Callers : WF_ctxVars(CancelStep(t))

ContextFairSpec == ContextSpec /\ ContextFairness

-----------------------------------------------------------------------------
(* Properties. *)

\* (cancel panics without a reason.)
ContextTypeOK ==
    /\ made \in 0..MaxCtx
    /\ ctx \in [0..MaxCtx -> Ctx] /\ ctx[0] = Background
    /\ err \in [Ctxs -> {"nil", "canceled", "exceeded"}]
    /\ children \in [Ctxs -> SUBSET Ctxs]
    /\ mu \in [Ctxs -> Procs \cup {Nobody}]
    /\ timer \in [Ctxs -> BOOLEAN]
    /\ now \in 0..Horizon
    /\ work \in [Procs -> Work]
    /\ \A p \in Procs : work[p].why = "nil" <=> work[p].pc \in {"idle", "select"}

\* Once the cancel of a context has let go of its mutex, every context that was
\* derived from it is cancelled, and their own descendants: none was missed
\* because it was being derived or was cancelling itself at the time.
DescendantsAreCancelled ==
    \A c \in 1..made :
        LET q == Up(c)
        IN ctx[c].done = c /\ q # 0 /\ err[q] # "nil" /\ mu[q] = Nobody => err[c] # "nil"

\* "After the first call, subsequent calls to a CancelFunc do nothing": the
\* reason a context was cancelled for never changes (a second close(c.done)
\* would panic).
ErrIsFinal == [][\A c \in Ctxs : err[c] # "nil" => err'[c] = err[c]]_ctxVars

\* "Canceling this context releases resources associated with the deadline
\* timer": no timer runs for a cancelled context once nobody is at work on it,
\* even if it was cancelled while WithDeadline was arming it.
NoTimerLeftBehind ==
    \A c \in Ctxs :
        timer[c] /\ err[c] # "nil" =>
            \E p \in Procs : work[p].at = c \/ (work[p].base # 0 /\ work[p].base <= c)

\* "Removes c from its parent's children": a context made by WithCancel is no
\* longer referenced by its parent when the cancel that ended it is over.
CancelledIsForgotten ==
    \A c \in 1..made, q \in Ctxs :
        c \in children[q] /\ ctx[c].kind = "cancel" /\ err[c] # "nil" =>
            mu[q] # Nobody \/ \E p \in Procs : work[p].base = c

\* A context that has ended holds neither a timer nor a place in its parent.
ResourcesAreReleased == NoTimerLeftBehind /\ CancelledIsForgotten

\* In the end every context has ended whose parent has, also below a context of
\* another package, where a goroutine carries the news.
CancelReaches ==
    <>[](\A c \in Ctxs :
            /\ ctx[c].kind \in {"cancel", "timer"}
            /\ ParentDone(c) # 0 /\ err[ParentDone(c)] # "nil"
            => err[c] # "nil")

\* In the end every context has ended whose deadline has passed.
EndsByDeadline ==
    <>[](\A c \in Ctxs :
            c <= made /\ ctx[c].deadline <= now => ctx[c].done # 0 /\ err[ctx[c].done] # "nil")

\* A context ends by its parent's end and by its deadline, if by nothing else.
ContextsEnd == CancelReaches /\ EndsByDeadline

\* "A CancelFunc does not wait for the work to stop": no call of cancel or of a
\* constructor waits for ever, although cancel holds the mutexes of a whole
\* branch and goes back to the parent's.
CancelReturns == \A t \in Callers : (~At(t, "idle")) ~> At(t, "idle")
=============================================================================
