--------------------------- MODULE LimitListener ---------------------------
(***************************************************************************)
(* Package netutil of go.net: a listener with at most Limit connections.   *)
(* The channel sem holds one token for every connection, from before the   *)
(* Accept of the wrapped listener to the first Close.                      *)
(***************************************************************************)
EXTENDS Naturals, FiniteSets

CONSTANTS
    Acceptors, \* goroutines that call Accept
    Closers,   \* goroutines that call Close, on whatever connection
    Conns,     \* bound: the connections the wrapped listener hands out
    Limit,     \* n
    NoConn

ASSUME LimitAssumption ==
    /\ Limit \in Nat
    /\ IsFiniteSet(Acceptors) /\ IsFiniteSet(Conns)
    /\ NoConn \notin Conns

VARIABLES
    sem,     \* the tokens in the channel
    acceptor, \* acceptor -> where in Accept it is
    net,     \* connection -> the state of the wrapped net.Conn
    once,    \* connection -> its releaseOnce
    closing  \* closer -> the connection it closes, and where in Close it is

listenerVars == <<sem, acceptor, net, once, closing>>

NotClosing == [conn |-> NoConn, pc |-> "idle"]

ListenerInit ==
    /\ sem = 0
    /\ acceptor = [a \in Acceptors |-> "idle"]
    /\ net = [c \in Conns |-> "none"]
    /\ once = [c \in Conns |-> "new"]
    /\ closing = [k \in Closers |-> NotClosing]

-----------------------------------------------------------------------------
(* Mistakes the code does not make; each must break a property. *)

BugFails(a) == acceptor' = [acceptor EXCEPT ![a] = "idle"] /\ UNCHANGED sem
BugReleasesAlways(c) == TRUE
BugNoLimit == TRUE

-----------------------------------------------------------------------------
Free == sem < Limit

Accept(a) ==
    /\ acceptor[a] = "idle"
    /\ acceptor' = [acceptor EXCEPT ![a] = "acquire"]
    /\ UNCHANGED <<sem, net, once, closing>>

Acquires(a) ==
    /\ acceptor[a] = "acquire"
    /\ Free
    /\ sem' = sem + 1
    /\ acceptor' = [acceptor EXCEPT ![a] = "accept"]
    /\ UNCHANGED <<net, once, closing>>

\* The wrapped listener returns a connection.
Accepts(a, c) ==
    /\ acceptor[a] = "accept"
    /\ net[c] = "none"
    /\ net' = [net EXCEPT ![c] = "open"]
    /\ acceptor' = [acceptor EXCEPT ![a] = "idle"]
    /\ UNCHANGED <<sem, once, closing>>

\* Takes a token from the channel; an empty channel blocks.
Fails(a) ==
    /\ sem > 0
    /\ sem' = sem - 1
    /\ acceptor' = [acceptor EXCEPT ![a] = "idle"]

\* The wrapped listener returns an error.
AcceptFails(a) ==
    /\ acceptor[a] = "accept"
    /\ Fails(a)
    /\ UNCHANGED <<net, once, closing>>

Close(k, c) ==
    /\ closing[k] = NotClosing
    /\ net[c] # "none"
    /\ closing' = [closing EXCEPT ![k] = [conn |-> c, pc |-> "close"]]
    /\ UNCHANGED <<sem, acceptor, net, once>>

\* Conn.Close(), of a connection that may be closed already.
ClosesConn(k) ==
    /\ closing[k].pc = "close"
    /\ net' = [net EXCEPT ![closing[k].conn] = "closed"]
    /\ closing' = [closing EXCEPT ![k].pc = "once"]
    /\ UNCHANGED <<sem, acceptor, once>>

FirstOnce(c) == once[c] = "new"

\* releaseOnce.Do: the first to come releases, the others wait until it has.
EntersOnce(k) ==
    LET c == closing[k].conn
    IN /\ closing[k].pc = "once"
       /\ \/ /\ FirstOnce(c)
             /\ once' = [once EXCEPT ![c] = "running"]
             /\ closing' = [closing EXCEPT ![k].pc = "release"]
          \/ /\ once[c] = "done"
             /\ closing' = [closing EXCEPT ![k] = NotClosing]
             /\ UNCHANGED once
       /\ UNCHANGED <<sem, acceptor, net>>

Releases(k) ==
    /\ closing[k].pc = "release"
    /\ sem > 0
    /\ sem' = sem - 1
    /\ once' = [once EXCEPT ![closing[k].conn] = "done"]
    /\ closing' = [closing EXCEPT ![k] = NotClosing]
    /\ UNCHANGED <<acceptor, net>>

ListenerNext ==
    \/ \E a \in Acceptors :
          \/ Accept(a) \/ Acquires(a) \/ AcceptFails(a)
          \/ \E c \in Conns : Accepts(a, c)
    \/ \E k \in Closers :
          \/ ClosesConn(k) \/ EntersOnce(k) \/ Releases(k)
          \/ \E c \in Conns : Close(k, c)

ListenerSpec == ListenerInit /\ [][ListenerNext]_listenerVars

-----------------------------------------------------------------------------
(* Properties. *)

ListenerTypeOK ==
    /\ sem \in Nat
    /\ acceptor \in [Acceptors -> {"idle", "acquire", "accept"}]
    /\ net \in [Conns -> {"none", "open", "closed"}]
    /\ once \in [Conns -> {"new", "running", "done"}]
    /\ closing \in [Closers -> {NotClosing}
                      \cup [conn : Conns, pc : {"close", "once", "release"}]]

\* Every token belongs to an Accept in progress or to a connection whose Close
\* has not released it: none is lost when Accept fails, none is taken twice
\* when a connection is closed again or by two goroutines at once.  (So the
\* receive in release never blocks.)
TokensAreAccounted ==
    sem = Cardinality({a \in Acceptors : acceptor[a] = "accept"})
        + Cardinality({c \in Conns : net[c] # "none" /\ once[c] # "done"})

\* "Accepts at most n simultaneous connections": however accepts and closes
\* interleave, at most Limit accepted connections are open.
AtMostLimit == Cardinality({c \in Conns : net[c] = "open"}) <= Limit

\* The semaphore's channel counts the connections that it limits, and they are
\* never more than Limit.
LimitIsKept == TokensAreAccounted /\ AtMostLimit
=============================================================================
