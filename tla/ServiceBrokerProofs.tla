------------------------ MODULE ServiceBrokerProofs ------------------------
(***************************************************************************)
(* Proofs about ServiceBroker, for any number of workers, instances and    *)
(* bindings, any bounds, and a client that may or may not serialise.       *)
(*                                                                         *)
(* The argument: the number of a key pair occurs in many places at a time  *)
(* (keys at GitHub, stale listings, calls in progress, calls given up,     *)
(* credentials), and in each it stands for an instance and a title.  All   *)
(* the places agree, because only BindAdds brings a number in, and that    *)
(* number is fresh; every other step copies what is known or forgets it.   *)
(***************************************************************************)
EXTENDS ServiceBroker, FiniteSetTheorems, TLAPS

\* The key that an add would register, or that a remove is meant for.
KeyOf(c) == [id |-> c.key, instance |-> c.for.instance, title |-> c.for.binding]

Held(w) == [id |-> pair[w], instance |-> request[w].instance,
            title |-> request[w].binding]

Opened(c) == [id |-> c.id, instance |-> c.instance, title |-> c.binding]

\* Every place where a number stands for a key.
Known(k) ==
    \/ k \in keys
    \/ \E w \in Workers : reply[w] # None /\ k \in reply[w].list
    \/ \E w \in Workers : /\ call[w] # None /\ call[w].verb \in {"add", "remove"}
                          /\ k = KeyOf(call[w])
    \/ \E c \in late : c.verb \in {"add", "remove"} /\ k = KeyOf(c)
    \/ \E w \in Workers : pair[w] # 0 /\ k = Held(w)
    \/ \E c \in issued : k = Opened(c)

KnownKeysAgree ==
    /\ \A k : Known(k) => k.id \in Nat /\ k.id < nextPair
    /\ \A k, l : Known(k) /\ Known(l) /\ k.id = l.id => k = l

\* How the variables of one handler belong together.
CallFits(w) ==
    /\ call[w].for = request[w]
    /\ call[w].verb = "create" => request[w].op = "provision"
    /\ call[w].verb = "delete" => request[w].op = "unprovision"
    /\ call[w].verb = "list" => request[w].op \in {"bind", "unbind"}
    /\ call[w].verb = "add" =>
          request[w].op = "bind" /\ pair[w] # 0 /\ call[w].key = pair[w]
    /\ call[w].verb = "remove" => request[w].op = "unbind"

HandlerOK(w) ==
    /\ request[w] = None => call[w] = None /\ answer[w] = None /\ pair[w] = 0
    /\ IF call[w] = None THEN reply[w] = None ELSE CallFits(w)
    /\ pair[w] # 0 => request[w].op = "bind"
    /\ answer[w] # None => call[w] = None
    /\ answer[w] = 201 /\ request[w].op = "bind" => pair[w] # 0
    /\ call[w] # None /\ reply[w] # None =>
          \A k \in reply[w].list : k.instance = request[w].instance

LateFits ==
    \A c \in late : c.verb = "add" => c.key \in PairIds /\ c.for.op = "bind"

IInv == TypeOK /\ LateFits /\ (\A w \in Workers : HandlerOK(w)) /\ KnownKeysAgree

USE DEF Status, PairIds
-----------------------------------------------------------------------------
(* What the operators return. *)

LEMMA EffectType ==
    ASSUME TypeOK, NEW c \in Call, c.verb = "add" => c.key \in PairIds /\ c.for.op = "bind"
    PROVE  ReposAfter(c) \subseteq Instances /\ KeysAfter(c) \subseteq Key
<1>1. c.for \in Request
  BY DEF Call
<1>2. c.for.instance \in Instances
  BY <1>1 DEF Request
<1>3. c.for.op = "bind" => c.for.binding \in Bindings
  BY <1>1 DEF Request
<1>4. ReposAfter(c) \subseteq Instances
  BY <1>2 DEF ReposAfter, TypeOK
<1>5. CASE c.verb = "add"
  BY <1>2, <1>3, <1>4, <1>5 DEF KeysAfter, TypeOK, Key
<1>6. CASE c.verb # "add"
  BY <1>4, <1>6 DEF KeysAfter, TypeOK
<1> QED BY <1>5, <1>6

LEMMA EffectKnown ==
    ASSUME NEW c, NEW k \in KeysAfter(c)
    PROVE  k \in keys \/ (c.verb = "add" /\ k = KeyOf(c))
BY DEF KeysAfter, KeyOf

LEMMA ReplyType ==
    ASSUME TypeOK, NEW c \in Call
    PROVE  /\ ReplyTo(c) \in Reply
           /\ ReplyTo(c).list \subseteq {k \in keys : k.instance = c.for.instance}
BY DEF ReplyTo, Reply, TypeOK

LEMMA OutcomeType ==
    ASSUME TypeOK, NEW w \in Workers, Replied(w)
    PROVE  /\ Outcome(w) \in Status \cup {None}
           /\ Outcome(w) = 201 => call[w].verb \in {"create", "add"}
           /\ Outcome(w) = None => call[w].verb = "list"
BY NoneAssumption DEF Outcome, CreateOutcome, AddOutcome, ListOutcome, RemovalOutcome,
   Replied, TypeOK, Call

\* A step that brings no new meaning of a number in keeps the agreement.
LEMMA NothingNewAgrees ==
    ASSUME IInv, nextPair' = nextPair, \A k : Known(k)' => Known(k)
    PROVE  KnownKeysAgree'
BY DEF IInv, KnownKeysAgree

-----------------------------------------------------------------------------
(* The invariant is inductive: one lemma per action. *)

LEMMA InitInv == Init => IInv
<1> SUFFICES ASSUME Init PROVE IInv
  OBVIOUS
<1>1. TypeOK
  BY BoundsAssumption DEF Init, TypeOK
<1>2. ASSUME NEW w \in Workers PROVE HandlerOK(w)
  BY NoneAssumption DEF Init, HandlerOK
<1>3. \A k : ~Known(k)
  BY DEF Init, Known
<1>4. LateFits
  BY DEF Init, LateFits
<1> QED BY <1>1, <1>2, <1>3, <1>4 DEF IInv, KnownKeysAgree

LEMMA ReceiveInv ==
    ASSUME IInv, NEW w \in Workers, NEW q \in Request, Receive(w, q)
    PROVE  IInv'
<1>0. TypeOK /\ \A v \in Workers : HandlerOK(v)
  BY DEF IInv
<1>1. FirstCall(q) \in Call /\ FirstCall(q).for = q /\ FirstCall(q) # None
      /\ FirstCall(q).verb \notin {"add", "remove"}
  BY BoundsAssumption, NoneIsNoRecord DEF FirstCall, Call
<1>2. TypeOK'
  BY <1>0, <1>1 DEF Receive, TypeOK, github
<1>3. ASSUME NEW v \in Workers PROVE HandlerOK(v)'
  <2>1. CASE v = w
    <3>1. call[w] = None /\ answer[w] = None /\ pair[w] = 0 /\ request[w] = None
      BY <1>0 DEF Receive, HandlerOK
    <3>2. request'[w] = q /\ call'[w] = FirstCall(q) /\ pair'[w] = 0 /\ answer'[w] = None
          /\ reply'[w] = reply[w]
      BY <1>0, <3>1 DEF Receive, TypeOK
    <3>3. reply[w] = None
      BY <1>0, <3>1 DEF HandlerOK
    <3>4. CallFits(w)'
      BY <1>1, <3>2 DEF CallFits, FirstCall, Request
    <3> QED BY <2>1, <3>2, <3>3, <3>4, NoneIsNoRecord, NoneAssumption DEF HandlerOK
  <2>2. CASE v # w
    BY <1>0, <2>2 DEF Receive, HandlerOK, CallFits, TypeOK
  <2> QED BY <2>1, <2>2
<1>4. ASSUME NEW k, Known(k)' PROVE Known(k)
  <2>1. pair[w] = 0 /\ pair' = pair
    BY <1>0 DEF Receive, HandlerOK
  <2>2. \A v \in Workers : pair'[v] # 0 => v # w /\ Held(v)' = Held(v)
    BY <1>0, <2>1 DEF Receive, Held, TypeOK
  <2>3. \A v \in Workers : call'[v] = call[v] \/ call'[v] = FirstCall(q)
    BY <1>0 DEF Receive, TypeOK
  <2> QED BY <1>1, <1>4, <2>1, <2>2, <2>3 DEF Known, Receive, github, KeyOf, Opened
<1>5. LateFits'
  BY DEF IInv, LateFits, Receive, github
<1> QED BY <1>2, <1>3, <1>4, <1>5, NothingNewAgrees DEF IInv, Receive

LEMMA CallInvariants ==
    ASSUME IInv, NEW w \in Workers, call[w] # None
    PROVE  /\ call[w] \in Call /\ request[w] \in Request /\ answer[w] \in Status \cup {None}
           /\ call[w].for = request[w]
           /\ CallFits(w)
           /\ call[w].verb = "add" => call[w].key \in PairIds /\ call[w].for.op = "bind"
<1>1. TypeOK /\ HandlerOK(w)
  BY DEF IInv
<1>2. call[w] \in Call /\ answer[w] \in Status \cup {None}
  BY <1>1 DEF TypeOK
<1>3. CallFits(w) /\ call[w].for = request[w]
  BY <1>1 DEF HandlerOK, CallFits
<1>4. request[w] \in Request
  BY <1>2, <1>3 DEF Call
<1>5. pair[w] \in 0..MaxKeys
  BY <1>1 DEF TypeOK
<1> QED BY <1>2, <1>3, <1>4, <1>5, BoundsAssumption DEF CallFits

\* Late calls keep the shape they had as calls of a handler.
LEMMA EffectAgrees ==
    ASSUME IInv, NEW c \in Call, Known(KeyOf(c)) \/ c.verb # "add",
           Take(c) \/ UNCHANGED <<repos, keys>>, NEW k, k \in keys'
    PROVE  Known(k)
<1>1. CASE k \in keys
  BY <1>1 DEF Known
<1>2. CASE Take(c)
  BY <1>2, EffectKnown, <1>1 DEF Take
<1> QED BY <1>1, <1>2

LEMMA GithubRepliesInv ==
    ASSUME IInv, NEW w \in Workers, GithubServes(w) \/ GithubFails(w)
    PROVE  IInv'
<1>0. TypeOK /\ call[w] # None /\ reply[w] = None /\ \A v \in Workers : HandlerOK(v)
  BY DEF IInv, GithubServes, GithubFails, Waiting
<1>1. call[w] \in Call /\ call[w].for = request[w] /\ request[w] \in Request
  BY <1>0, CallInvariants
<1>2. PICK r \in Reply : /\ reply' = [reply EXCEPT ![w] = r]
                         /\ r.list \subseteq {k \in keys : k.instance = request[w].instance}
  <2>1. CASE GithubServes(w)
    BY <2>1, <1>0, <1>1, ReplyType DEF GithubServes
  <2>2. CASE GithubFails(w)
    <3>1. [code |-> "error", list |-> {}] \in Reply
      BY DEF Reply
    <3> QED BY <2>2, <3>1 DEF GithubFails
  <2> QED BY <2>1, <2>2
<1>3. Take(call[w]) \/ UNCHANGED <<repos, keys>>
  BY DEF GithubServes, GithubFails
<1>4. UNCHANGED <<late, request, call, pair, answer, nextPair, issued>>
  BY DEF GithubServes, GithubFails
<1>5. repos' \subseteq Instances /\ keys' \subseteq Key
  BY <1>0, <1>1, <1>3, EffectType, CallInvariants DEF Take, TypeOK
<1>6. TypeOK'
  BY <1>0, <1>2, <1>4, <1>5 DEF TypeOK
<1>7. ASSUME NEW v \in Workers PROVE HandlerOK(v)'
  <2>1. call'[v] # None => (CallFits(v)' <=> CallFits(v))
    BY <1>4 DEF CallFits
  <2> QED BY <1>0, <1>2, <1>4, <2>1 DEF HandlerOK, TypeOK
<1>8. ASSUME NEW k, Known(k)' PROVE Known(k)
  <2>1. Known(KeyOf(call[w])) \/ call[w].verb # "add"
    BY <1>0 DEF Known
  <2>2. CASE k \in keys'
    BY <1>1, <1>3, <2>1, <2>2, EffectAgrees
  <2>3. CASE \E v \in Workers : reply'[v] # None /\ k \in reply'[v].list
    BY <2>3, <1>0, <1>2 DEF Known, TypeOK
  <2> QED BY <1>4, <1>8, <2>2, <2>3 DEF Known, Held, KeyOf, Opened
<1>9. LateFits'
  BY <1>4 DEF IInv, LateFits
<1> QED BY <1>4, <1>6, <1>7, <1>8, <1>9, NothingNewAgrees DEF IInv

LEMMA LateCallLandsInv ==
    ASSUME IInv, NEW c \in late, LateCallLands(c)
    PROVE  IInv'
<1>0. TypeOK /\ LateFits /\ c \in Call
  BY DEF IInv, TypeOK
<1>1. UNCHANGED <<request, call, reply, pair, answer, nextPair, issued>>
  BY DEF LateCallLands, handler
<1>2. late' \subseteq late /\ Take(c)
  BY DEF LateCallLands
<1>3. repos' \subseteq Instances /\ keys' \subseteq Key
  BY <1>0, <1>2, EffectType DEF Take, LateFits
<1>4. TypeOK' /\ LateFits'
  BY <1>0, <1>1, <1>2, <1>3 DEF TypeOK, LateFits
<1>5. ASSUME NEW v \in Workers PROVE HandlerOK(v)'
  BY <1>1 DEF IInv, HandlerOK, CallFits
<1>6. ASSUME NEW k, Known(k)' PROVE Known(k)
  <2>1. Known(KeyOf(c)) \/ c.verb # "add"
    BY DEF Known
  <2>2. CASE k \in keys'
    BY <1>0, <1>2, <2>1, <2>2, EffectAgrees
  <2> QED BY <1>1, <1>2, <1>6, <2>2 DEF Known, Held, KeyOf, Opened
<1> QED BY <1>1, <1>4, <1>5, <1>6, NothingNewAgrees DEF IInv

\* What finishing with a status preserves, for Answer and GiveUp.
LEMMA FinishInv ==
    ASSUME IInv, NEW w \in Workers, call[w] # None, NEW status \in Status,
           status = 201 => call[w].verb \in {"create", "add"},
           Finish(w, status),
           UNCHANGED <<repos, keys, request, pair, nextPair, issued>>,
           \A c \in late' : c \in late \/ (c = call[w])
    PROVE  IInv'
<1>0. TypeOK /\ LateFits /\ \A v \in Workers : HandlerOK(v)
  BY DEF IInv
<1>1. call[w] \in Call /\ CallFits(w) /\ request[w] \in Request
      /\ (call[w].verb = "add" => call[w].key \in PairIds /\ call[w].for.op = "bind")
  BY CallInvariants
<1>2. TypeOK'
  BY <1>0, <1>1 DEF Finish, TypeOK
<1>3. LateFits'
  BY <1>0, <1>1 DEF LateFits
<1>4. ASSUME NEW v \in Workers PROVE HandlerOK(v)'
  <2>1. CASE v = w
    <3>1. call'[w] = None /\ reply'[w] = None /\ answer'[w] = status
      BY <1>0 DEF Finish, TypeOK
    <3>2. request[w] # None
      BY <1>1, NoneIsNoRecord
    <3>3. call[w].verb = "create" => request[w].op # "bind"
      BY <1>1 DEF CallFits
    <3> QED BY <1>0, <1>1, <2>1, <3>1, <3>2, <3>3 DEF HandlerOK, CallFits
  <2>2. CASE v # w
    BY <1>0, <2>2 DEF Finish, HandlerOK, CallFits, TypeOK
  <2> QED BY <2>1, <2>2
<1>5. ASSUME NEW k, Known(k)' PROVE Known(k)
  <2>1. \A v \in Workers : (call'[v] = call[v] \/ call'[v] = None)
                           /\ (reply'[v] = reply[v] \/ reply'[v] = None)
    BY <1>0 DEF Finish, TypeOK
  <2> QED BY <1>5, <2>1 DEF Known, Held, KeyOf, Opened
<1> QED BY <1>2, <1>3, <1>4, <1>5, NothingNewAgrees DEF IInv

LEMMA AnswerInv ==
    ASSUME IInv, NEW w \in Workers, Answer(w)
    PROVE  IInv'
<1>1. TypeOK /\ Replied(w) /\ Outcome(w) # None
  BY DEF IInv, Answer
<1>2. Outcome(w) \in Status /\ (Outcome(w) = 201 => call[w].verb \in {"create", "add"})
  BY <1>1, OutcomeType
<1> QED BY <1>1, <1>2, FinishInv DEF Answer, Replied, github

LEMMA GiveUpInv ==
    ASSUME IInv, NEW w \in Workers, GiveUp(w)
    PROVE  IInv'
<1>1. PICK status \in {500, 504} : Finish(w, status)
  BY DEF GiveUp
<1>2. \A c \in late' : c \in late \/ c = call[w]
  BY DEF GiveUp, GivenUp
<1> QED BY <1>1, <1>2, FinishInv DEF GiveUp

\* The one step that brings a number in; it is fresh.
LEMMA BindAddsInv ==
    ASSUME IInv, NEW w \in Workers, BindAdds(w)
    PROVE  IInv'
<1>0. TypeOK /\ LateFits /\ KnownKeysAgree /\ \A v \in Workers : HandlerOK(v)
  BY DEF IInv
<1>1. call[w] # None /\ request[w].op = "bind" /\ request[w] \in Request
      /\ nextPair \in PairIds /\ CallFits(w)
  BY <1>0, CallInvariants, BoundsAssumption DEF BindAdds, Replied, TypeOK
<1> DEFINE add == [verb |-> "add", for |-> request[w], key |-> nextPair]
           new == [id |-> nextPair, instance |-> request[w].instance,
                   title |-> request[w].binding]
<1>2. add \in Call /\ add # None
  BY <1>1, BoundsAssumption, NoneIsNoRecord DEF Call
<1>3. /\ call' = [call EXCEPT ![w] = add]
      /\ pair' = [pair EXCEPT ![w] = nextPair]
      /\ reply' = [reply EXCEPT ![w] = None]
      /\ nextPair' = nextPair + 1
      /\ UNCHANGED <<repos, keys, late, request, answer, issued>>
  BY DEF BindAdds, FreshPair, github
<1>4. TypeOK'
  BY <1>0, <1>1, <1>2, <1>3, BoundsAssumption DEF TypeOK
<1>5. LateFits'
  BY <1>0, <1>3 DEF LateFits
<1>6. ASSUME NEW v \in Workers PROVE HandlerOK(v)'
  <2>1. CASE v = w
    <3>1. call'[w] = add /\ pair'[w] = nextPair /\ reply'[w] = None
      BY <1>0, <1>3 DEF TypeOK
    <3>2. CallFits(w)' /\ nextPair # 0
      BY <1>1, <1>3, <3>1 DEF CallFits
    <3> QED BY <1>0, <1>1, <1>2, <1>3, <2>1, <3>1, <3>2, NoneIsNoRecord DEF HandlerOK
  <2>2. CASE v # w
    BY <1>0, <1>3, <2>2 DEF HandlerOK, CallFits, TypeOK
  <2> QED BY <2>1, <2>2
<1>7. ASSUME NEW k, Known(k)' PROVE Known(k) \/ k = new
  <2>1. \A v \in Workers : v # w => Held(v)' = Held(v) /\ pair'[v] = pair[v]
                                    /\ call'[v] = call[v] /\ reply'[v] = reply[v]
    BY <1>0, <1>3 DEF Held, TypeOK
  <2>2. Held(w)' = new /\ call'[w] = add /\ reply'[w] = None
    BY <1>0, <1>3 DEF Held, TypeOK
  <2>3. KeyOf(add) = new
    BY DEF KeyOf
  <2> QED BY <1>3, <1>7, <2>1, <2>2, <2>3 DEF Known, KeyOf, Opened
<1>8. KnownKeysAgree'
  <2>1. nextPair \in Nat /\ nextPair' = nextPair + 1
    BY <1>0, <1>3, BoundsAssumption DEF TypeOK
  <2>2. \A k : Known(k) => k.id \in Nat /\ k.id < nextPair
    BY <1>0 DEF KnownKeysAgree
  <2>3. new.id = nextPair
    OBVIOUS
  <2>4. ASSUME NEW k, Known(k)' PROVE k.id \in Nat /\ k.id < nextPair'
    BY <1>7, <2>1, <2>2, <2>3, <2>4
  <2>5. ASSUME NEW k, NEW l, Known(k)', Known(l)', k.id = l.id PROVE k = l
    <3> HIDE DEF new
    <3> QED BY <1>0, <1>7, <2>1, <2>2, <2>3, <2>5 DEF KnownKeysAgree
  <2> QED BY <2>4, <2>5 DEF KnownKeysAgree
<1> QED BY <1>4, <1>5, <1>6, <1>8 DEF IInv

LEMMA UnbindRemovesInv ==
    ASSUME IInv, NEW w \in Workers, UnbindRemoves(w)
    PROVE  IInv'
<1>0. TypeOK /\ LateFits /\ \A v \in Workers : HandlerOK(v)
  BY DEF IInv
<1>1. call[w] # None /\ reply[w] # None /\ request[w].op = "unbind"
      /\ request[w] \in Request /\ CallFits(w)
  BY CallInvariants DEF UnbindRemoves, Replied
<1>2. PICK k \in Titled(w) :
         call' = [call EXCEPT ![w] =
                    [verb |-> "remove", for |-> request[w], key |-> k.id]]
  BY DEF UnbindRemoves
<1>3. k \in reply[w].list /\ k.title = request[w].binding
      /\ k.instance = request[w].instance /\ k \in Key
  BY <1>0, <1>1, <1>2 DEF Titled, HandlerOK, TypeOK, Reply
<1> DEFINE remove == [verb |-> "remove", for |-> request[w], key |-> k.id]
<1>4. remove \in Call /\ remove # None
  BY <1>1, <1>3, BoundsAssumption, NoneIsNoRecord DEF Call, Key
<1>5. KeyOf(remove) = k
  BY <1>3 DEF KeyOf, Key
<1>6. /\ call' = [call EXCEPT ![w] = remove]
      /\ reply' = [reply EXCEPT ![w] = None]
      /\ UNCHANGED <<repos, keys, late, request, pair, answer, nextPair, issued>>
  BY <1>2 DEF UnbindRemoves, github
<1>7. TypeOK' /\ LateFits'
  BY <1>0, <1>4, <1>6 DEF TypeOK, LateFits
<1>8. ASSUME NEW v \in Workers PROVE HandlerOK(v)'
  <2>1. CASE v = w
    <3>1. call'[w] = remove /\ reply'[w] = None
      BY <1>0, <1>6 DEF TypeOK
    <3>2. CallFits(w)'
      BY <1>1, <1>6, <3>1 DEF CallFits
    <3> QED BY <1>0, <1>1, <1>4, <1>6, <2>1, <3>1, <3>2, NoneIsNoRecord DEF HandlerOK
  <2>2. CASE v # w
    BY <1>0, <1>6, <2>2 DEF HandlerOK, CallFits, TypeOK
  <2> QED BY <2>1, <2>2
<1>9. ASSUME NEW l, Known(l)' PROVE Known(l)
  <2>1. \A v \in Workers : v # w => call'[v] = call[v] /\ reply'[v] = reply[v]
    BY <1>0, <1>6 DEF TypeOK
  <2>2. call'[w] = remove /\ reply'[w] = None
    BY <1>0, <1>6 DEF TypeOK
  <2>3. Known(k)
    BY <1>1, <1>3 DEF Known
  <2> HIDE DEF remove
  <2> QED BY <1>5, <1>6, <1>9, <2>1, <2>2, <2>3 DEF Known, KeyOf, Held, Opened
<1> QED BY <1>6, <1>7, <1>8, <1>9, NothingNewAgrees DEF IInv

LEMMA DeliverInv ==
    ASSUME IInv, NEW w \in Workers, Deliver(w)
    PROVE  IInv'
<1>0. TypeOK /\ LateFits /\ \A v \in Workers : HandlerOK(v)
  BY DEF IInv
<1> DEFINE cred == [id |-> pair[w], instance |-> request[w].instance,
                    binding |-> request[w].binding]
<1>1. /\ request' = [request EXCEPT ![w] = None]
      /\ pair' = [pair EXCEPT ![w] = 0]
      /\ answer' = [answer EXCEPT ![w] = None]
      /\ UNCHANGED <<repos, keys, late, call, reply, nextPair>>
  BY DEF Deliver, Release, github
<1>2. answer[w] # None /\ request[w] # None /\ request[w] \in Request
  BY <1>0 DEF Deliver, HandlerOK, TypeOK
<1>3. call[w] = None
  BY <1>0, <1>2 DEF HandlerOK
<1>4. \A c \in issued' :
         c \in issued \/ (c = cred /\ pair[w] # 0 /\ request[w].op = "bind")
  BY <1>0 DEF Deliver, HandlerOK
<1>5. pair[w] # 0 /\ request[w].op = "bind" => cred \in Credential
  BY <1>0, <1>2, BoundsAssumption DEF Credential, Request, TypeOK
<1>6. TypeOK' /\ LateFits'
  BY <1>0, <1>1, <1>4, <1>5, BoundsAssumption DEF TypeOK, LateFits
<1>7. ASSUME NEW v \in Workers PROVE HandlerOK(v)'
  <2>1. CASE v = w
    <3>1. request'[w] = None /\ pair'[w] = 0 /\ answer'[w] = None /\ reply[w] = None
      BY <1>0, <1>1, <1>3 DEF TypeOK, HandlerOK
    <3> QED BY <1>1, <1>3, <2>1, <3>1, NoneAssumption DEF HandlerOK
  <2>2. CASE v # w
    BY <1>0, <1>1, <2>2 DEF HandlerOK, CallFits, TypeOK
  <2> QED BY <2>1, <2>2
<1>8. ASSUME NEW k, Known(k)' PROVE Known(k)
  <2>1. \A v \in Workers : pair'[v] # 0 => pair'[v] = pair[v] /\ Held(v)' = Held(v)
    BY <1>0, <1>1 DEF Held, TypeOK
  <2>2. Opened(cred) = Held(w)
    BY DEF Opened, Held
  <2> HIDE DEF cred
  <2> QED BY <1>1, <1>4, <1>8, <2>1, <2>2 DEF Known, KeyOf, Opened
<1> QED BY <1>1, <1>6, <1>7, <1>8, NothingNewAgrees DEF IInv

LEMMA CrashInv ==
    ASSUME IInv, Crash
    PROVE  IInv'
<1>0. TypeOK /\ LateFits /\ \A v \in Workers : HandlerOK(v)
  BY DEF IInv
<1>1. \A c \in late' : c \in late \/ \E w \in Workers : call[w] # None /\ c = call[w]
  BY DEF Crash, GivenUp, Waiting
<1>2. LateFits' /\ late' \subseteq Call
  BY <1>0, <1>1, CallInvariants DEF LateFits, TypeOK
<1>3. TypeOK'
  BY <1>0, <1>2, BoundsAssumption DEF Crash, TypeOK
<1>4. ASSUME NEW v \in Workers PROVE HandlerOK(v)'
  BY NoneAssumption DEF Crash, HandlerOK
<1>5. ASSUME NEW k, Known(k)' PROVE Known(k)
  BY <1>1, <1>5 DEF Crash, Known, KeyOf, Opened
<1> QED BY <1>2, <1>3, <1>4, <1>5, NothingNewAgrees DEF IInv, Crash

LEMMA StepInv == IInv /\ [Next]_vars => IInv'
<1> SUFFICES ASSUME IInv, [Next]_vars PROVE IInv'
  OBVIOUS
<1>1. CASE \E w \in Workers, q \in Request : Receive(w, q)
  BY <1>1, ReceiveInv
<1>2. CASE \E w \in Workers : GithubServes(w) \/ GithubFails(w)
  BY <1>2, GithubRepliesInv
<1>3. CASE \E c \in late : LateCallLands(c)
  BY <1>3, LateCallLandsInv
<1>4. CASE \E w \in Workers : Handle(w)
  BY <1>4, AnswerInv, BindAddsInv, UnbindRemovesInv, GiveUpInv, DeliverInv DEF Handle
<1>5. CASE Crash
  BY <1>5, CrashInv
<1>6. CASE UNCHANGED vars
  BY <1>6 DEF vars, IInv, TypeOK, LateFits, HandlerOK, CallFits, KnownKeysAgree,
     Known, KeyOf, Held, Opened
<1> QED BY <1>1, <1>2, <1>3, <1>4, <1>5, <1>6 DEF Next

\* The inductive invariant holds in every behaviour of the broker.
THEOREM Invariance == Spec => []IInv
<1>1. Init => IInv
  BY InitInv
<1>2. IInv /\ [Next]_vars => IInv'
  BY StepInv
<1> QED BY <1>1, <1>2, PTL DEF Spec

-----------------------------------------------------------------------------

\* Type correctness of the broker's state, whatever the client sends and
\* GitHub answers.
THEOREM TypeCorrect == Spec => []TypeOK
<1>1. IInv => TypeOK
  BY DEF IInv
<1> QED BY <1>1, Invariance, PTL

\* A private key delivered for a binding opens nothing but the repository of
\* that binding (create_github_deploy_key).
THEOREM CredentialsStayInScope == Spec => []CredentialScope
<1>1. ASSUME IInv PROVE CredentialScope
  <2> SUFFICES ASSUME NEW k \in keys, NEW c \in issued, k.id = c.id
               PROVE  k.instance = c.instance /\ k.title = c.binding
    BY DEF CredentialScope
  <2>1. Known(k) /\ Known(Opened(c)) /\ Opened(c).id = k.id
    BY DEF Known, Opened
  <2>2. k = Opened(c)
    BY <1>1, <2>1 DEF IInv, KnownKeysAgree
  <2> QED BY <2>2 DEF Opened
<1> QED BY <1>1, Invariance, PTL

LEMMA EffectRevokes ==
    ASSUME IInv, NEW c \in Open, Take(c) \/ UNCHANGED <<repos, keys>>,
           NEW k \in keys, k \notin keys'
    PROVE  /\ c.for.instance = k.instance
           /\ \/ c.verb = "delete"
              \/ c.verb = "remove" /\ c.for.binding = k.title
<1>1. keys' = KeysAfter(c) /\ k \notin KeysAfter(c)
  BY DEF Take
<1>2. CASE c.verb = "delete"
  BY <1>1, <1>2 DEF KeysAfter
<1>3. CASE c.verb = "remove"
  <2>1. k.id = c.key /\ k.instance = c.for.instance
    BY <1>1, <1>3 DEF KeysAfter
  <2>2. Known(k) /\ Known(KeyOf(c)) /\ KeyOf(c).id = k.id
    BY <1>3, <2>1 DEF Known, KeyOf, Open
  <2>3. k = KeyOf(c)
    BY <2>2 DEF IInv, KnownKeysAgree
  <2> QED BY <1>3, <2>3 DEF KeyOf
<1>4. CASE c.verb \notin {"delete", "remove"}
  BY <1>1, <1>4 DEF KeysAfter
<1> QED BY <1>2, <1>3, <1>4

\* A deploy key leaves GitHub only on a call made for its own binding or for
\* the deletion of its repository, however stale the listing the id of that
\* call was taken from (remove_github_deploy_key).
THEOREM KeysRevokedOnRequest == Spec => RevokedOnlyOnRequest
<1> DEFINE Revoked(k) == \E c \in Open : /\ c.for.instance = k.instance
                                         /\ \/ c.verb = "delete"
                                            \/ c.verb = "remove" /\ c.for.binding = k.title
           Step == \A k \in keys \ keys' : Revoked(k)
<1>1. ASSUME IInv, [Next]_vars PROVE [Step]_vars
  <2>1. CASE \E w \in Workers : GithubServes(w) \/ GithubFails(w)
    <3>1. PICK w \in Workers : GithubServes(w) \/ GithubFails(w)
      BY <2>1
    <3>2. call[w] \in Open /\ (Take(call[w]) \/ UNCHANGED <<repos, keys>>)
      BY <3>1 DEF GithubServes, GithubFails, Waiting, Open
    <3> QED BY <1>1, <3>2, EffectRevokes
  <2>2. CASE \E c \in late : LateCallLands(c)
    BY <1>1, <2>2, EffectRevokes DEF LateCallLands, Open
  <2>3. CASE keys' = keys
    BY <2>3
  <2>4. \/ \E w \in Workers : GithubServes(w) \/ GithubFails(w)
        \/ \E c \in late : LateCallLands(c)
        \/ keys' = keys
    BY <1>1 DEF Next, Receive, Handle, Answer, BindAdds, UnbindRemoves, GiveUp,
       Deliver, Crash, github, vars
  <2> QED BY <2>1, <2>2, <2>3, <2>4
<1>2. Spec => [][Step]_vars
  BY <1>1, Invariance, PTL DEF Spec
<1> QED BY <1>2 DEF RevokedOnlyOnRequest

-----------------------------------------------------------------------------
(***************************************************************************)
(* The broker implements BrokerContract when the client has one request    *)
(* per instance at a time and no call is served after the broker gave up   *)
(* on it, for any finite number of workers and any instances and bindings. *)
(*                                                                         *)
(* The argument: requests in progress are about different instances, and a *)
(* call touches the repository and the keys of its own instance only.  So  *)
(* what a handler learnt from its listing still holds when its second call *)
(* is served, and the operation takes effect with the last call as if it   *)
(* had looked and acted at that instant.                                   *)
(***************************************************************************)
HIDE DEF Status, PairIds

KeysOf(i) == {k \in keys : k.instance = i}

\* The keys that a bind or an unbind is about.
Named(q) == {k \in KeysOf(q.instance) : k.title = q.binding}

Apart ==
    \A v, w \in Workers :
        v # w /\ request[v] # None /\ request[w] # None
        => request[v].instance # request[w].instance

KeysHaveRepos == \A k \in keys : k.instance \in repos

\* What the handler learnt from its listing is still so.
ListHolds(w) ==
    Replied(w) /\ call[w].verb = "list" =>
        /\ reply[w].code = "ok" =>
              /\ request[w].instance \in repos
              /\ reply[w].list = KeysOf(request[w].instance)
        /\ reply[w].code = "notfound" => request[w].instance \notin repos

\* The second call will find what the listing showed.
CallHolds(w) ==
    Waiting(w) =>
        /\ call[w].verb = "add" =>
              request[w].instance \in repos /\ Named(request[w]) = {}
        /\ call[w].verb = "remove" => \E k \in Named(request[w]) : k.id = call[w].key

\* A status tells what is so.
StatusHolds(w) ==
    /\ \/ Replied(w) /\ call[w].verb = "add" /\ reply[w].code = "ok"
       \/ answer[w] = 201 /\ request[w].op = "bind"
       => Held(w) \in keys
    /\ \/ Replied(w) /\ call[w].verb = "remove" /\ reply[w].code \in {"ok", "notfound"}
       \/ answer[w] \in {200, 410} /\ request[w].op = "unbind"
       => Named(request[w]) = {}

Fresh(w) == ListHolds(w) /\ CallHolds(w) /\ StatusHolds(w)

CInv ==
    /\ late = {}
    /\ Apart
    /\ KeysHaveRepos
    /\ OneKeyPerBinding
    /\ \A w \in Workers : Fresh(w)

\* What the theorems of this module assume: one request per instance, no late
\* calls, and finitely many workers.
Serial == Serialised /\ MaxLate = 0 /\ IsFiniteSet(Workers)

-----------------------------------------------------------------------------
(* Nothing is late, and a call concerns its own instance. *)

LEMMA NothingIsLate ==
    ASSUME Serial, late = {}, NEW W, W \subseteq Workers, GivenUp(W)
    PROVE  late' = {}
<1> DEFINE S == {v \in W : Waiting(v) /\ call[v].verb # "list"}
           open == {call[w] : w \in S}
           f == [w \in S |-> call[w]]
<1>1. IsFiniteSet(S)
  BY FS_Subset DEF Serial
<1>2. f \in Surjection(S, open)
  BY DEF Surjection
<1>3. IsFiniteSet(open)
  <2> HIDE DEF S, open, f
  <2> QED BY <1>1, <1>2, FS_Surjection
<1>4. late' \in SUBSET open /\ Cardinality(late') <= 0
  BY DEF GivenUp, Serial
<1>5. IsFiniteSet(late')
  <2> HIDE DEF open
  <2> QED BY <1>3, <1>4, FS_Subset
<1>6. Cardinality(late') \in Nat
  BY <1>5, FS_CardinalityType
<1>7. Cardinality(late') = 0
  BY <1>4, <1>6
<1> QED BY <1>5, <1>7, FS_EmptySet

LEMMA EffectIsLocal ==
    ASSUME NEW c, NEW i, i # c.for.instance, Take(c) \/ UNCHANGED <<repos, keys>>
    PROVE  /\ {k \in keys' : k.instance = i} = KeysOf(i)
           /\ i \in repos' <=> i \in repos
BY DEF KeysOf, Take, ReposAfter, KeysAfter

\* A handler that does not move keeps what it knows, unless its own instance
\* changes.
LEMMA StaysFresh ==
    ASSUME IInv, NEW w \in Workers, Fresh(w),
           request'[w] = request[w], call'[w] = call[w], reply'[w] = reply[w],
           pair'[w] = pair[w], answer'[w] = answer[w],
           request[w] # None =>
              /\ {k \in keys' : k.instance = request[w].instance}
                    = KeysOf(request[w].instance)
              /\ request[w].instance \in repos' <=> request[w].instance \in repos
    PROVE  Fresh(w)'
<1>1. CASE request[w] = None
  BY <1>1, NoneAssumption DEF IInv, HandlerOK, Fresh, ListHolds, CallHolds, StatusHolds,
     Replied, Waiting
<1>2. CASE request[w] # None
  <2>1. KeysOf(request[w].instance)' = KeysOf(request[w].instance)
    BY <1>2 DEF KeysOf
  <2>2. Named(request[w])' = Named(request[w])
    BY <2>1 DEF Named
  <2>3. Held(w)' = Held(w)
    BY DEF Held
  <2>4. Held(w) \in keys' <=> Held(w) \in keys
    <3>1. Held(w).instance = request[w].instance
      BY DEF Held
    <3> QED BY <1>2, <3>1 DEF KeysOf
  <2>5. ListHolds(w)'
    BY <1>2, <2>1 DEF Fresh, ListHolds, Replied
  <2>6. CallHolds(w)'
    BY <1>2, <2>2 DEF Fresh, CallHolds, Waiting
  <2>7. StatusHolds(w)'
    BY <1>2, <2>2, <2>3, <2>4 DEF Fresh, StatusHolds, Replied
  <2> QED BY <2>5, <2>6, <2>7 DEF Fresh
<1> QED BY <1>1, <1>2

\* Steps of one handler that leave GitHub alone.
LEMMA OthersStayFresh ==
    ASSUME IInv, CInv, NEW w \in Workers, NEW v \in Workers, v # w,
           request'[v] = request[v], call'[v] = call[v], reply'[v] = reply[v],
           pair'[v] = pair[v], answer'[v] = answer[v],
           \/ UNCHANGED <<repos, keys>>
           \/ call[w] # None /\ Take(call[w])
    PROVE  Fresh(v)'
<1>1. CASE UNCHANGED <<repos, keys>>
  BY <1>1, StaysFresh DEF CInv, KeysOf
<1>2. CASE call[w] # None /\ Take(call[w])
  <2>1. call[w].for = request[w] /\ request[w] # None
    BY <1>2, CallInvariants, NoneIsNoRecord
  <2>2. request[v] # None => request[v].instance # call[w].for.instance
    BY <2>1 DEF CInv, Apart
  <2>3. request[v] # None =>
           /\ {k \in keys' : k.instance = request[v].instance}
                 = KeysOf(request[v].instance)
           /\ request[v].instance \in repos' <=> request[v].instance \in repos
    BY <1>2, <2>2, EffectIsLocal
  <2> QED BY <2>3, StaysFresh DEF CInv
<1> QED BY <1>1, <1>2

-----------------------------------------------------------------------------
(* The status of the contract. *)

DoneOf(w) == IF Replied(w) THEN Outcome(w) ELSE answer[w]

Done == [w \in Workers |-> DoneOf(w)]

Bound == {<<k.instance, k.title>> : k \in keys}

LEMMA DoneStays ==
    ASSUME NEW v, request'[v] = request[v], call'[v] = call[v],
           reply'[v] = reply[v], answer'[v] = answer[v]
    PROVE  DoneOf(v)' = DoneOf(v)
BY DEF DoneOf, Replied, Outcome, CreateOutcome, ListOutcome, AddOutcome,
   RemovalOutcome, Titled

LEMMA DoneMoves ==
    ASSUME NEW w \in Workers, NEW s, DoneOf(w)' = s,
           \A v \in Workers : v # w => DoneOf(v)' = DoneOf(v)
    PROVE  Done' = [Done EXCEPT ![w] = s]
BY DEF Done

LEMMA DoneIsSame ==
    ASSUME \A v \in Workers : DoneOf(v)' = DoneOf(v)
    PROVE  Done' = Done
BY DEF Done

-----------------------------------------------------------------------------
(* A call that GitHub serves has the effect of the operation. *)

\* A call of a waiting handler, and what fits it.
LEMMA WaitingCall ==
    ASSUME IInv, NEW w \in Workers, Waiting(w)
    PROVE  /\ call[w] \in Call /\ request[w] \in Request /\ call[w].for = request[w]
           /\ CallFits(w) /\ call[w] # None /\ reply[w] = None
           /\ answer[w] = None /\ request[w] # None
           /\ DoneOf(w) = None
           /\ call[w].verb \in {"create", "delete", "list", "add", "remove"}
<1>1. call[w] # None /\ reply[w] = None
  BY DEF Waiting
<1>2. answer[w] = None
  BY <1>1 DEF IInv, HandlerOK
<1> QED BY <1>1, <1>2, CallInvariants, NoneIsNoRecord DEF DoneOf, Replied, Call

\* A remove hits the key it is meant for and no other.
LEMMA RemovesNamed ==
    ASSUME IInv, CInv, NEW w \in Workers, Waiting(w), call[w].verb = "remove"
    PROVE  /\ Named(request[w]) # {}
           /\ \E k \in keys : k.id = call[w].key /\ k.instance = request[w].instance
           /\ KeysAfter(call[w]) = keys \ Named(request[w])
<1>1. call[w].for = request[w]
  BY WaitingCall
<1>2. PICK k \in Named(request[w]) : k.id = call[w].key
  BY DEF CInv, Fresh, CallHolds
<1>3. k \in keys /\ k.instance = request[w].instance /\ k.title = request[w].binding
  BY DEF Named, KeysOf
<1>4. \A l \in Named(request[w]) : l = k
  BY <1>3 DEF Named, KeysOf, CInv, OneKeyPerBinding
<1>5. \A l \in keys : l.id = k.id => l = k
  BY <1>3 DEF IInv, KnownKeysAgree, Known
<1>6. KeysAfter(call[w])
        = {l \in keys : ~(l.id = call[w].key /\ l.instance = request[w].instance)}
  BY <1>1 DEF KeysAfter
<1>7. KeysAfter(call[w]) = keys \ Named(request[w])
  BY <1>2, <1>3, <1>4, <1>5, <1>6
<1> QED BY <1>2, <1>3, <1>7

LEMMA AddsNamed ==
    ASSUME IInv, CInv, NEW w \in Workers, Waiting(w), call[w].verb = "add"
    PROVE  /\ request[w].op = "bind" /\ request[w].instance \in repos
           /\ Named(request[w]) = {}
           /\ KeysAfter(call[w]) = keys \cup {Held(w)}
<1>1. call[w].for = request[w] /\ request[w].op = "bind" /\ call[w].key = pair[w]
  BY WaitingCall DEF CallFits
<1>2. request[w].instance \in repos /\ Named(request[w]) = {}
  BY DEF CInv, Fresh, CallHolds
<1> QED BY <1>1, <1>2 DEF KeysAfter, Held

LEMMA TakeKeeps ==
    ASSUME IInv, CInv, NEW w \in Workers, Waiting(w),
           Take(call[w]) \/ UNCHANGED <<repos, keys>>
    PROVE  (KeysHaveRepos /\ OneKeyPerBinding)'
<1>1. CASE UNCHANGED <<repos, keys>>
  BY <1>1 DEF CInv, KeysHaveRepos, OneKeyPerBinding
<1>2. CASE Take(call[w])
  <2>0. repos' = ReposAfter(call[w]) /\ keys' = KeysAfter(call[w])
        /\ KeysHaveRepos /\ OneKeyPerBinding
    BY <1>2 DEF Take, CInv
  <2>1. CASE call[w].verb = "add"
    <3>1. keys' = keys \cup {Held(w)} /\ repos' = repos
      BY <2>0, <2>1, AddsNamed DEF ReposAfter
    <3>2. Held(w).instance \in repos
      BY <2>1, AddsNamed DEF Held
    <3>3. \A k \in keys : ~(/\ k.instance = Held(w).instance
                            /\ k.title = Held(w).title)
      BY <2>1, AddsNamed DEF Held, Named, KeysOf
    <3> QED BY <2>0, <3>1, <3>2, <3>3 DEF KeysHaveRepos, OneKeyPerBinding
  <2>2. CASE call[w].verb # "add"
    <3>1. keys' \subseteq keys
      BY <2>0, <2>2 DEF KeysAfter
    <3>2. \A k \in keys' : k.instance \in repos'
      BY <2>0, <2>2, <3>1 DEF KeysAfter, ReposAfter, KeysHaveRepos
    <3> QED BY <2>0, <3>1, <3>2 DEF KeysHaveRepos, OneKeyPerBinding
  <2> QED BY <2>1, <2>2
<1> QED BY <1>1, <1>2

LEMMA ReplyIsTrue ==
    ASSUME IInv, CInv, NEW w \in Workers, GithubServes(w)
    PROVE  (ListHolds(w) /\ CallHolds(w) /\ StatusHolds(w))'
<1>0. Waiting(w) /\ Take(call[w]) /\ TypeOK
  BY DEF GithubServes, IInv
<1>1. /\ call[w].for = request[w] /\ request[w] \in Request /\ call[w] \in Call
      /\ call[w] # None /\ reply[w] = None /\ answer[w] = None
      /\ call[w].verb \in {"create", "delete", "list", "add", "remove"}
  BY <1>0, WaitingCall
<1>2. /\ reply'[w] = ReplyTo(call[w]) /\ call'[w] = call[w] /\ request'[w] = request[w]
      /\ answer'[w] = None /\ pair'[w] = pair[w] /\ ReplyTo(call[w]) # None
  <2>1. ReplyTo(call[w]) \in Reply
    BY <1>0, <1>1, ReplyType
  <2> QED BY <1>0, <1>1, <2>1, NoneIsNoRecord DEF GithubServes, TypeOK
<1>3. ~Waiting(w)'
  BY <1>2 DEF Waiting
<1>4. ListHolds(w)'
  <2> SUFFICES ASSUME call[w].verb = "list" PROVE ListHolds(w)'
    BY <1>2 DEF ListHolds
  <2>1. keys' = keys /\ repos' = repos
    BY <1>0 DEF Take, KeysAfter, ReposAfter
  <2>2. /\ ReplyTo(call[w]).list = {k \in keys : k.instance = request[w].instance}
        /\ ReplyTo(call[w]).code = IF request[w].instance \in repos THEN "ok" ELSE "notfound"
    BY <1>1 DEF ReplyTo
  <2> QED BY <1>2, <2>1, <2>2 DEF ListHolds, KeysOf
<1>5. StatusHolds(w)'
  <2>1. CASE call[w].verb = "add"
    <3>1. Held(w)' = Held(w) /\ Held(w) \in keys'
      BY <1>0, <1>2, <2>1, AddsNamed DEF Held, Take
    <3> QED BY <1>2, <2>1, <3>1, NoneAssumption DEF StatusHolds
  <2>2. CASE call[w].verb = "remove"
    <3>1. Named(request[w])' = {}
      <4>1. keys' = keys \ Named(request[w])
        BY <1>0, <2>2, RemovesNamed DEF Take
      <4> QED BY <1>2, <4>1 DEF Named, KeysOf
    <3> QED BY <1>2, <2>2, <3>1, NoneAssumption DEF StatusHolds
  <2>3. CASE call[w].verb \notin {"add", "remove"}
    BY <1>2, <2>3, NoneAssumption DEF StatusHolds
  <2> QED BY <2>1, <2>2, <2>3
<1> QED BY <1>3, <1>4, <1>5 DEF CallHolds

-----------------------------------------------------------------------------
(* The invariant is inductive. *)

LEMMA InitCInv == Init => CInv
BY NoneAssumption DEF Init, CInv, Apart, KeysHaveRepos, OneKeyPerBinding, Fresh,
   ListHolds, CallHolds, StatusHolds, Replied, Waiting

LEMMA ReceiveCInv ==
    ASSUME Serial, IInv, CInv, NEW w \in Workers, NEW q \in Request, Receive(w, q)
    PROVE  CInv'
<1>0. TypeOK /\ HandlerOK(w)
  BY DEF IInv
<1>1. /\ call[w] = None /\ reply[w] = None /\ answer[w] = None
      /\ request'[w] = q /\ call'[w] = FirstCall(q) /\ reply'[w] = None
      /\ answer'[w] = None
      /\ UNCHANGED <<repos, keys, late>>
  BY <1>0 DEF Receive, HandlerOK, TypeOK, github
<1>2. Fresh(w)'
  BY <1>1, NoneAssumption DEF Fresh, ListHolds, CallHolds, StatusHolds, Replied, FirstCall
<1>3. \A v \in Workers : v # w =>
         /\ request'[v] = request[v] /\ call'[v] = call[v] /\ reply'[v] = reply[v]
         /\ pair'[v] = pair[v] /\ answer'[v] = answer[v]
  BY <1>0 DEF Receive, TypeOK
<1>4. \A v \in Workers : v # w => Fresh(v)'
  BY <1>1, <1>3, OthersStayFresh
<1>5. Apart'
  BY <1>1, <1>3 DEF CInv, Apart, Receive, ClientMaySend, Serial
<1> QED BY <1>1, <1>2, <1>4, <1>5 DEF CInv, KeysHaveRepos, OneKeyPerBinding

\* A step of one handler that keeps its request, or releases it.
LEMMA HandlerCInv ==
    ASSUME Serial, IInv, CInv, NEW w \in Workers, Fresh(w)',
           UNCHANGED <<repos, keys, late>>,
           request'[w] \in {request[w], None},
           \A v \in Workers : v # w =>
              /\ request'[v] = request[v] /\ call'[v] = call[v] /\ reply'[v] = reply[v]
              /\ pair'[v] = pair[v] /\ answer'[v] = answer[v]
    PROVE  CInv'
<1>1. \A v \in Workers : v # w => Fresh(v)'
  BY OthersStayFresh
<1>2. Apart'
  BY DEF CInv, Apart
<1> QED BY <1>1, <1>2 DEF CInv, KeysHaveRepos, OneKeyPerBinding

LEMMA GithubRepliesCInv ==
    ASSUME Serial, IInv, CInv, NEW w \in Workers, GithubServes(w) \/ GithubFails(w)
    PROVE  CInv'
<1>0. /\ TypeOK /\ Waiting(w)
      /\ Take(call[w]) \/ UNCHANGED <<repos, keys>>
      /\ UNCHANGED <<late, request, call, pair, answer>>
  BY DEF IInv, GithubServes, GithubFails
<1>1. (KeysHaveRepos /\ OneKeyPerBinding)'
  BY <1>0, TakeKeeps
<1>2. call[w] # None /\ answer[w] = None
  BY <1>0, WaitingCall
<1>3. Fresh(w)'
  <2>1. CASE GithubServes(w)
    BY <2>1, ReplyIsTrue DEF Fresh
  <2>2. CASE GithubFails(w)
    <3>1. reply'[w] = [code |-> "error", list |-> {}] /\ reply'[w] # None
      <4>1. [code |-> "error", list |-> {}] \in Reply
        BY DEF Reply
      <4> QED BY <1>0, <2>2, <4>1, NoneIsNoRecord DEF GithubFails, TypeOK
    <3>2. answer'[w] = None
      BY <1>0, <1>2
    <3> QED BY <3>1, <3>2, NoneAssumption DEF Fresh, ListHolds, CallHolds, StatusHolds, Waiting
  <2> QED BY <2>1, <2>2
<1>4. \A v \in Workers : v # w => reply'[v] = reply[v]
  BY <1>0 DEF GithubServes, GithubFails, TypeOK
<1>5. \A v \in Workers : v # w => Fresh(v)'
  BY <1>0, <1>2, <1>4, OthersStayFresh
<1>6. Apart'
  BY <1>0 DEF CInv, Apart
<1> QED BY <1>0, <1>1, <1>3, <1>5, <1>6 DEF CInv

LEMMA AnswerCInv ==
    ASSUME Serial, IInv, CInv, NEW w \in Workers, Answer(w)
    PROVE  CInv'
<1>0. TypeOK /\ Replied(w) /\ Fresh(w) /\ CallFits(w) /\ call[w] \in Call
      /\ request[w] \in Request /\ reply[w] \in Reply
  BY CallInvariants DEF IInv, CInv, Answer, Replied, TypeOK
<1>1. /\ call'[w] = None /\ reply'[w] = None /\ answer'[w] = Outcome(w)
      /\ UNCHANGED <<repos, keys, late, request, pair>>
      /\ \A v \in Workers : v # w =>
            call'[v] = call[v] /\ reply'[v] = reply[v] /\ answer'[v] = answer[v]
  BY <1>0 DEF Answer, Finish, github, TypeOK
<1>2. Held(w)' = Held(w) /\ Named(request[w])' = Named(request[w])
  BY <1>1 DEF Held, Named, KeysOf
<1>3. Outcome(w) = 201 /\ request[w].op = "bind" => Held(w) \in keys
  <2> SUFFICES ASSUME Outcome(w) = 201, request[w].op = "bind" PROVE Held(w) \in keys
    OBVIOUS
  <2>1. call[w].verb = "add"
    BY <1>0, OutcomeType DEF CallFits
  <2>2. reply[w].code = "ok"
    BY <2>1 DEF Outcome, AddOutcome
  <2> QED BY <1>0, <2>1, <2>2 DEF Fresh, StatusHolds
<1>4. Outcome(w) \in {200, 410} /\ request[w].op = "unbind" => Named(request[w]) = {}
  <2> SUFFICES ASSUME Outcome(w) \in {200, 410}, request[w].op = "unbind"
               PROVE  Named(request[w]) = {}
    OBVIOUS
  <2>1. call[w].verb \in {"list", "remove"}
    BY <1>0 DEF CallFits, Call
  <2>2. CASE call[w].verb = "remove"
    <3>1. reply[w].code \in {"ok", "notfound"}
      BY <2>2 DEF Outcome, RemovalOutcome
    <3> QED BY <1>0, <2>2, <3>1 DEF Fresh, StatusHolds
  <2>3. CASE call[w].verb = "list"
    <3>1. Outcome(w) = ListOutcome(w)
      BY <2>3 DEF Outcome
    <3>2. CASE reply[w].code = "notfound"
      <4>1. request[w].instance \notin repos
        BY <1>0, <2>3, <3>2 DEF Fresh, ListHolds
      <4> QED BY <4>1 DEF Named, KeysOf, CInv, KeysHaveRepos
    <3>3. CASE reply[w].code = "ok"
      <4>1. Titled(w) = {}
        BY <3>1, <3>3, NoneAssumption DEF ListOutcome
      <4>2. reply[w].list = KeysOf(request[w].instance)
        BY <1>0, <2>3, <3>3 DEF Fresh, ListHolds
      <4> QED BY <4>1, <4>2 DEF Titled, Named
    <3>4. CASE reply[w].code \notin {"ok", "notfound"}
      BY <3>1, <3>4 DEF ListOutcome
    <3> QED BY <3>2, <3>3, <3>4
  <2> QED BY <2>1, <2>2, <2>3
<1>5. Fresh(w)'
  BY <1>1, <1>2, <1>3, <1>4 DEF Fresh, ListHolds, CallHolds, StatusHolds, Replied, Waiting
<1> QED BY <1>1, <1>5, HandlerCInv

LEMMA BindAddsCInv ==
    ASSUME Serial, IInv, CInv, NEW w \in Workers, BindAdds(w)
    PROVE  CInv'
<1>0. TypeOK /\ Replied(w) /\ Fresh(w) /\ HandlerOK(w) /\ Outcome(w) = None
      /\ request[w].op = "bind" /\ answer[w] = None
  BY DEF IInv, CInv, BindAdds, HandlerOK, Replied
<1>1. /\ call'[w].verb = "add" /\ reply'[w] = None /\ answer'[w] = None
      /\ UNCHANGED <<repos, keys, late, request>>
      /\ \A v \in Workers : v # w =>
            /\ call'[v] = call[v] /\ reply'[v] = reply[v] /\ answer'[v] = answer[v]
            /\ pair'[v] = pair[v]
  BY <1>0 DEF BindAdds, github, TypeOK
<1>2. call[w].verb = "list" /\ Outcome(w) = ListOutcome(w)
  BY <1>0, OutcomeType DEF Outcome
<1>3. reply[w].code = "ok" /\ Titled(w) = {}
  BY <1>0, <1>2, NoneAssumption DEF ListOutcome
<1>4. request[w].instance \in repos /\ Named(request[w]) = {}
  BY <1>0, <1>2, <1>3 DEF Fresh, ListHolds, Titled, Named
<1>5. Named(request[w])' = {}
  BY <1>1, <1>4 DEF Named, KeysOf
<1>6. Fresh(w)'
  BY <1>1, <1>4, <1>5, NoneAssumption DEF Fresh, ListHolds, CallHolds, StatusHolds, Replied
<1> QED BY <1>1, <1>6, HandlerCInv

LEMMA UnbindRemovesCInv ==
    ASSUME Serial, IInv, CInv, NEW w \in Workers, UnbindRemoves(w)
    PROVE  CInv'
<1>0. TypeOK /\ Replied(w) /\ Fresh(w) /\ HandlerOK(w) /\ Outcome(w) = None
      /\ answer[w] = None
  BY DEF IInv, CInv, UnbindRemoves, HandlerOK, Replied
<1>1. PICK k \in Titled(w) :
         call' = [call EXCEPT ![w] =
                    [verb |-> "remove", for |-> request[w], key |-> k.id]]
  BY DEF UnbindRemoves
<1>2. /\ call'[w].verb = "remove" /\ call'[w].key = k.id /\ reply'[w] = None
      /\ answer'[w] = None
      /\ UNCHANGED <<repos, keys, late, request, pair>>
      /\ \A v \in Workers : v # w =>
            call'[v] = call[v] /\ reply'[v] = reply[v] /\ answer'[v] = answer[v]
  BY <1>0, <1>1 DEF UnbindRemoves, github, TypeOK
<1>3. call[w].verb = "list" /\ Outcome(w) = ListOutcome(w)
  BY <1>0, OutcomeType DEF Outcome
<1>4. reply[w].code = "ok"
  BY <1>0, <1>3, NoneAssumption DEF ListOutcome
<1>5. k \in Named(request[w])
  BY <1>0, <1>3, <1>4 DEF Fresh, ListHolds, Titled, Named
<1>6. k \in Named(request[w])'
  BY <1>2, <1>5 DEF Named, KeysOf
<1>7. Fresh(w)'
  BY <1>2, <1>6, NoneAssumption DEF Fresh, ListHolds, CallHolds, StatusHolds, Replied
<1> QED BY <1>2, <1>7, HandlerCInv

LEMMA GiveUpCInv ==
    ASSUME Serial, IInv, CInv, NEW w \in Workers, GiveUp(w)
    PROVE  CInv'
<1>0. TypeOK
  BY DEF IInv
<1>1. late' = {}
  BY NothingIsLate DEF GiveUp, CInv
<1>2. /\ call'[w] = None /\ reply'[w] = None /\ answer'[w] \in {500, 504}
      /\ UNCHANGED <<repos, keys, late, request, pair>>
      /\ \A v \in Workers : v # w =>
            call'[v] = call[v] /\ reply'[v] = reply[v] /\ answer'[v] = answer[v]
  BY <1>0, <1>1 DEF GiveUp, Finish, TypeOK, CInv
<1>3. Fresh(w)'
  BY <1>2 DEF Fresh, ListHolds, CallHolds, StatusHolds, Replied, Waiting
<1> QED BY <1>2, <1>3, HandlerCInv

LEMMA DeliverCInv ==
    ASSUME Serial, IInv, CInv, NEW w \in Workers, Deliver(w)
    PROVE  CInv'
<1>0. TypeOK /\ HandlerOK(w)
  BY DEF IInv
<1>1. /\ call'[w] = None /\ reply'[w] = None /\ answer'[w] = None
      /\ request'[w] = None
      /\ UNCHANGED <<repos, keys, late, call, reply>>
      /\ \A v \in Workers : v # w =>
            request'[v] = request[v] /\ pair'[v] = pair[v] /\ answer'[v] = answer[v]
  BY <1>0 DEF Deliver, Release, TypeOK, HandlerOK, github
<1>2. Fresh(w)'
  BY <1>1, NoneAssumption DEF Fresh, ListHolds, CallHolds, StatusHolds, Replied, Waiting
<1> QED BY <1>1, <1>2, HandlerCInv

LEMMA CrashCInv ==
    ASSUME Serial, IInv, CInv, Crash
    PROVE  CInv'
<1>1. late' = {}
  BY NothingIsLate DEF Crash, CInv
<1>2. \A v \in Workers : Fresh(v)'
  BY NoneAssumption DEF Crash, Fresh, ListHolds, CallHolds, StatusHolds, Replied, Waiting
<1> QED BY <1>1, <1>2 DEF Crash, CInv, Apart, KeysHaveRepos, OneKeyPerBinding

LEMMA StepCInv ==
    ASSUME Serial, IInv, CInv, [Next]_vars
    PROVE  CInv'
<1>1. CASE \E w \in Workers, q \in Request : Receive(w, q)
  BY <1>1, ReceiveCInv
<1>2. CASE \E w \in Workers : GithubServes(w) \/ GithubFails(w)
  BY <1>2, GithubRepliesCInv
<1>3. CASE \E c \in late : LateCallLands(c)
  BY <1>3 DEF CInv
<1>4. CASE \E w \in Workers : Handle(w)
  BY <1>4, AnswerCInv, BindAddsCInv, UnbindRemovesCInv, GiveUpCInv, DeliverCInv DEF Handle
<1>5. CASE Crash
  BY <1>5, CrashCInv
<1>6. CASE UNCHANGED vars
  BY <1>6 DEF vars, CInv, Apart, KeysHaveRepos, OneKeyPerBinding, Fresh, ListHolds,
     CallHolds, StatusHolds, Replied, Waiting, Named, KeysOf, Held
<1> QED BY <1>1, <1>2, <1>3, <1>4, <1>5, <1>6 DEF Next

-----------------------------------------------------------------------------
(* Every step is a step of the contract, or changes nothing of it. *)

\* The contract's variables are repos, Bound, request and Done.
LEMMA ContractView ==
    /\ Done = [w \in Workers |-> IF Replied(w) THEN Outcome(w) ELSE answer[w]]
    /\ Bound = {<<k.instance, k.title>> : k \in keys}
BY DEF Done, DoneOf, Bound

LEMMA BoundNamed ==
    ASSUME TypeOK, NEW q
    PROVE  <<q.instance, q.binding>> \in Bound <=> Named(q) # {}
BY DEF Bound, Named, KeysOf

\* The call that an operation ends with has the operation's effect.
LEMMA TakeIsEffect ==
    ASSUME IInv, CInv, NEW w \in Workers, Waiting(w), call[w].verb # "list",
           Take(call[w])
    PROVE  Contract!Effect(request[w])
<1> DEFINE q == request[w]
<1>0. /\ TypeOK /\ q \in Request /\ call[w].for = q /\ CallFits(w)
      /\ repos' = ReposAfter(call[w]) /\ keys' = KeysAfter(call[w])
      /\ call[w].verb \in {"create", "delete", "add", "remove"}
  BY WaitingCall DEF Take, IInv
<1>1. CASE call[w].verb = "create"
  <2>1. q.op = "provision" /\ repos' = repos \cup {q.instance} /\ keys' = keys
    BY <1>0, <1>1 DEF CallFits, ReposAfter, KeysAfter
  <2> QED BY <2>1 DEF Contract!Effect
<1>2. CASE call[w].verb = "delete"
  <2>1. /\ q.op = "unprovision" /\ repos' = repos \ {q.instance}
        /\ keys' = {k \in keys : k.instance # q.instance}
    BY <1>0, <1>2 DEF CallFits, ReposAfter, KeysAfter
  <2>2. Bound' = {b \in Bound : b[1] # q.instance}
    BY <2>1 DEF Bound
  <2> QED BY <2>1, <2>2 DEF Contract!Effect, Bound
<1>3. CASE call[w].verb = "add"
  <2>1. q.op = "bind" /\ q.instance \in repos /\ repos' = repos
        /\ keys' = keys \cup {Held(w)}
    BY <1>0, <1>3, AddsNamed DEF CallFits, ReposAfter
  <2>2. Bound' = Bound \cup {<<q.instance, q.binding>>}
    <3>1. <<Held(w).instance, Held(w).title>> = <<q.instance, q.binding>>
      BY DEF Held
    <3>2. ASSUME NEW b PROVE b \in Bound' <=> b \in Bound \/ b = <<q.instance, q.binding>>
      <4> HIDE DEF q
      <4> QED BY <2>1, <3>1 DEF Bound
    <3> QED BY <3>2
  <2> QED BY <2>1, <2>2 DEF Contract!Effect, Contract!Binding, Bound
<1>4. CASE call[w].verb = "remove"
  <2>1. q.op = "unbind" /\ repos' = repos /\ keys' = keys \ Named(q)
    BY <1>0, <1>4, RemovesNamed DEF CallFits, ReposAfter
  <2>2. Bound' = Bound \ {<<q.instance, q.binding>>}
    BY <2>1 DEF Bound, Named, KeysOf
  <2> QED BY <2>1, <2>2 DEF Contract!Effect, Contract!Binding, Bound
<1> QED BY <1>0, <1>1, <1>2, <1>3, <1>4

\* Where the listing ends an operation, the operation has no effect.
LEMMA ListIsEffect ==
    ASSUME IInv, CInv, NEW w \in Workers, request[w].op \in {"bind", "unbind"},
           UNCHANGED <<repos, keys>>,
           \/ request[w].instance \notin repos
           \/ request[w].op = "bind" <=> Named(request[w]) # {}
    PROVE  Contract!Effect(request[w])
<1> DEFINE q == request[w]
<1>1. TypeOK /\ KeysHaveRepos
  BY DEF IInv, CInv
<1>2. q.instance \notin repos => Named(q) = {}
  BY <1>1 DEF KeysHaveRepos, Named, KeysOf
<1>3. <<q.instance, q.binding>> \in Bound <=> Named(q) # {}
  BY <1>1, BoundNamed
<1>4. Bound' = Bound
  BY DEF Bound
<1>5. CASE q.op = "bind"
  <2>1. q.instance \in repos => Bound = Bound \cup {<<q.instance, q.binding>>}
    BY <1>3, <1>5
  <2> QED BY <1>4, <1>5, <2>1 DEF Contract!Effect, Contract!Binding, Bound
<1>6. CASE q.op = "unbind"
  <2>1. Bound = Bound \ {<<q.instance, q.binding>>}
    BY <1>2, <1>3, <1>6
  <2> QED BY <1>4, <1>6, <2>1 DEF Contract!Effect, Contract!Binding, Bound
<1> QED BY <1>5, <1>6

\* GitHub's last reply performs the operation; a listing that a second call
\* follows does nothing yet.
LEMMA ServesStep ==
    ASSUME IInv, CInv, NEW w \in Workers, GithubServes(w)
    PROVE  \/ Contract!Perform(w)
           \/ UNCHANGED Contract!vars
<1> DEFINE q == request[w]
           r == ReplyTo(call[w])
<1>0. /\ TypeOK /\ Waiting(w) /\ Take(call[w]) /\ call[w].for = q /\ CallFits(w)
      /\ call[w] # None /\ q # None /\ q \in Request /\ DoneOf(w) = None
      /\ call[w].verb \in {"create", "delete", "list", "add", "remove"}
      /\ UNCHANGED <<late, request, call, pair, answer>>
  BY WaitingCall DEF GithubServes, IInv
<1>1. /\ reply'[w] = r /\ r # None
      /\ \A v \in Workers : v # w => reply'[v] = reply[v]
  <2>1. r \in Reply
    BY <1>0, ReplyType, WaitingCall
  <2> QED BY <1>0, <2>1, NoneIsNoRecord DEF GithubServes, TypeOK
<1>2. \A v \in Workers : v # w => DoneOf(v)' = DoneOf(v)
  BY <1>0, <1>1, DoneStays
<1>3. DoneOf(w)' = Outcome(w)'
  BY <1>0, <1>1 DEF DoneOf, Replied
<1>4. Done' = [Done EXCEPT ![w] = Outcome(w)']
  BY <1>2, <1>3, DoneMoves
<1>5. Done[w] = None
  BY <1>0 DEF Done
<1>6. ASSUME Contract!Effect(q), Outcome(w)' = Contract!Status(q)
      PROVE  Contract!Perform(w)
  BY <1>0, <1>4, <1>5, <1>6, ContractView DEF Contract!Perform, Done, DoneOf
<1>7. CASE call[w].verb # "list"
  <2>1. Contract!Effect(q)
    BY <1>0, <1>7, TakeIsEffect
  <2>2. Outcome(w)' = Contract!Status(q)
    <3>1. CASE call[w].verb = "create"
      <4>1. /\ q.op = "provision"
            /\ r.code = IF q.instance \in repos THEN "exists" ELSE "ok"
        BY <1>0, <3>1 DEF CallFits, ReplyTo
      <4> QED BY <1>0, <1>1, <3>1, <4>1 DEF Outcome, CreateOutcome, Contract!Status
    <3>2. CASE call[w].verb = "delete"
      <4>1. /\ q.op = "unprovision"
            /\ r.code = IF q.instance \in repos THEN "ok" ELSE "notfound"
        BY <1>0, <3>2 DEF CallFits, ReplyTo
      <4> QED BY <1>0, <1>1, <3>2, <4>1 DEF Outcome, RemovalOutcome, Contract!Status
    <3>3. CASE call[w].verb = "add"
      <4>1. /\ q.op = "bind" /\ q.instance \in repos /\ r.code = "ok"
            /\ <<q.instance, q.binding>> \notin Bound
        BY <1>0, <3>3, AddsNamed, BoundNamed DEF ReplyTo
      <4> QED BY <1>0, <1>1, <3>3, <4>1 DEF Outcome, AddOutcome, Contract!Status,
                 Contract!Binding, Bound
    <3>4. CASE call[w].verb = "remove"
      <4>1. /\ q.op = "unbind" /\ r.code = "ok" /\ <<q.instance, q.binding>> \in Bound
        BY <1>0, <3>4, RemovesNamed, BoundNamed DEF ReplyTo, CallFits
      <4> QED BY <1>0, <1>1, <3>4, <4>1 DEF Outcome, RemovalOutcome, Contract!Status,
                 Contract!Binding, Bound
    <3> QED BY <1>0, <1>7, <3>1, <3>2, <3>3, <3>4
  <2> QED BY <1>6, <2>1, <2>2
<1>8. CASE call[w].verb = "list"
  <2>1. /\ UNCHANGED <<repos, keys>> /\ q.op \in {"bind", "unbind"}
        /\ r.code = IF q.instance \in repos THEN "ok" ELSE "notfound"
        /\ r.list = KeysOf(q.instance)
    BY <1>0, <1>8 DEF Take, ReposAfter, KeysAfter, CallFits, ReplyTo, KeysOf
  <2>2. Titled(w)' = Named(q)
    BY <1>0, <1>1, <2>1 DEF Titled, Named
  <2>3. Outcome(w)' = ListOutcome(w)'
    BY <1>0, <1>8 DEF Outcome
  <2>4. CASE Outcome(w)' = None
    <3>1. Done' = Done
      BY <1>2, <1>3, <1>0, <2>4, DoneIsSame
    <3> QED BY <1>0, <2>1, <3>1, ContractView DEF Contract!vars, Done, DoneOf
  <2>5. CASE Outcome(w)' # None
    <3>1. \/ q.instance \notin repos
          \/ q.op = "bind" <=> Named(q) # {}
      BY <1>0, <1>1, <2>1, <2>2, <2>3, <2>5 DEF ListOutcome
    <3>2. Contract!Effect(q)
      BY <2>1, <3>1, ListIsEffect
    <3>3. /\ <<q.instance, q.binding>> \in Bound <=> Named(q) # {}
          /\ q.instance \notin repos => Named(q) = {}
      BY <1>0, BoundNamed DEF CInv, KeysHaveRepos, Named, KeysOf
    <3>4. Outcome(w)' = IF q.op = "bind" THEN IF q.instance \in repos THEN 409 ELSE 404
                        ELSE 410
      BY <1>0, <1>1, <2>1, <2>2, <2>3, <3>1 DEF ListOutcome
    <3>5. Outcome(w)' = Contract!Status(q)
      BY <2>1, <3>1, <3>3, <3>4 DEF Contract!Status, Contract!Binding, Bound
    <3> QED BY <1>6, <3>2, <3>5
  <2> QED BY <2>4, <2>5
<1> QED BY <1>7, <1>8

LEMMA FailsStep ==
    ASSUME IInv, CInv, NEW w \in Workers, GithubFails(w)
    PROVE  Contract!Fail(w)
<1> DEFINE q == request[w]
           r == [code |-> "error", list |-> {}]
<1>0. /\ TypeOK /\ Waiting(w) /\ q # None /\ DoneOf(w) = None /\ call[w] # None
      /\ call[w].verb \in {"create", "delete", "list", "add", "remove"}
      /\ UNCHANGED <<late, request, call, pair, answer>>
  BY WaitingCall DEF GithubFails, IInv
<1>1. /\ reply'[w] = r /\ r # None
      /\ \A v \in Workers : v # w => reply'[v] = reply[v]
  <2>1. r \in Reply
    BY DEF Reply
  <2> QED BY <1>0, <2>1, NoneIsNoRecord DEF GithubFails, TypeOK
<1>2. Outcome(w)' = 502
  BY <1>0, <1>1 DEF Outcome, CreateOutcome, ListOutcome, AddOutcome, RemovalOutcome
<1>3. \A v \in Workers : v # w => DoneOf(v)' = DoneOf(v)
  BY <1>0, <1>1, DoneStays
<1>4. DoneOf(w)' = 502
  BY <1>0, <1>1, <1>2 DEF DoneOf, Replied
<1>5. Done' = [Done EXCEPT ![w] = 502] /\ Done[w] = None
  BY <1>0, <1>3, <1>4, DoneMoves DEF Done
<1>6. Contract!Effect(q) \/ UNCHANGED <<repos, Bound>>
  <2>1. CASE UNCHANGED <<repos, keys>>
    BY <2>1 DEF Bound
  <2>2. CASE Take(call[w]) /\ call[w].verb # "list"
    BY <1>0, <2>2, TakeIsEffect
  <2>3. CASE Take(call[w]) /\ call[w].verb = "list"
    BY <2>3 DEF Take, ReposAfter, KeysAfter, Bound
  <2> QED BY <2>1, <2>2, <2>3 DEF GithubFails
<1> QED BY <1>0, <1>5, <1>6, ContractView DEF Contract!Fail, Done, DoneOf, Bound

LEMMA ReceiveStep ==
    ASSUME IInv, NEW w \in Workers, NEW q \in Request, Receive(w, q)
    PROVE  Contract!Ask(w)
<1>0. /\ TypeOK /\ HandlerOK(w) /\ request[w] = None
      /\ request' = [request EXCEPT ![w] = q]
      /\ UNCHANGED <<repos, keys, reply, answer>>
  BY DEF IInv, Receive, github
<1>1. \A v \in Workers : v # w => request'[v] = request[v] /\ call'[v] = call[v]
  BY <1>0 DEF Receive, TypeOK
<1>2. \A v \in Workers : v # w => DoneOf(v)' = DoneOf(v)
  BY <1>0, <1>1, DoneStays
<1>3. reply[w] = None
  BY <1>0 DEF HandlerOK
<1>4. DoneOf(w)' = DoneOf(w)
  BY <1>0, <1>3 DEF DoneOf, Replied
<1>5. Done' = Done
  BY <1>2, <1>4, DoneIsSame
<1> QED BY <1>0, <1>5, ContractView DEF Contract!Ask, Done, DoneOf

\* The answer tells what the contract has decided already, and a second call
\* leaves it undecided.
LEMMA AnswerStep ==
    ASSUME IInv, NEW w \in Workers, Answer(w)
    PROVE  UNCHANGED Contract!vars
<1>0. /\ TypeOK /\ Replied(w)
      /\ call'[w] = None /\ answer'[w] = Outcome(w)
      /\ UNCHANGED <<repos, keys, request>>
      /\ \A v \in Workers : v # w =>
            call'[v] = call[v] /\ reply'[v] = reply[v] /\ answer'[v] = answer[v]
  BY DEF IInv, Answer, Finish, github, TypeOK
<1>1. \A v \in Workers : v # w => DoneOf(v)' = DoneOf(v)
  BY <1>0, DoneStays
<1>2. DoneOf(w)' = DoneOf(w)
  BY <1>0 DEF DoneOf, Replied
<1>3. Done' = Done
  BY <1>1, <1>2, DoneIsSame
<1> QED BY <1>0, <1>3, ContractView DEF Contract!vars, Done, DoneOf

LEMMA SecondCallStep ==
    ASSUME IInv, NEW w \in Workers, BindAdds(w) \/ UnbindRemoves(w)
    PROVE  UNCHANGED Contract!vars
<1>0. /\ TypeOK /\ HandlerOK(w) /\ Replied(w) /\ Outcome(w) = None
      /\ UNCHANGED <<repos, keys, request, answer>>
      /\ reply' = [reply EXCEPT ![w] = None]
  BY DEF IInv, BindAdds, UnbindRemoves, github
<1>1. \A v \in Workers : v # w => call'[v] = call[v] /\ reply'[v] = reply[v]
  BY <1>0 DEF BindAdds, UnbindRemoves, TypeOK
<1>2. \A v \in Workers : v # w => DoneOf(v)' = DoneOf(v)
  BY <1>0, <1>1, DoneStays
<1>3. reply'[w] = None /\ answer[w] = None
  BY <1>0 DEF HandlerOK, Replied, TypeOK
<1>4. DoneOf(w)' = DoneOf(w)
  BY <1>0, <1>3 DEF DoneOf, Replied
<1>5. Done' = Done
  BY <1>2, <1>4, DoneIsSame
<1> QED BY <1>0, <1>5, ContractView DEF Contract!vars, Done, DoneOf

LEMMA GiveUpStep ==
    ASSUME IInv, NEW w \in Workers, GiveUp(w)
    PROVE  Contract!Fail(w)
<1>0. TypeOK /\ call[w] # None /\ UNCHANGED <<repos, keys, request>>
  BY DEF IInv, GiveUp
<1>1. PICK status \in {500, 504} : Finish(w, status)
  BY DEF GiveUp
<1>2. /\ call'[w] = None /\ answer'[w] = status
      /\ \A v \in Workers : v # w =>
            call'[v] = call[v] /\ reply'[v] = reply[v] /\ answer'[v] = answer[v]
  BY <1>0, <1>1 DEF Finish, TypeOK
<1>3. \A v \in Workers : v # w => DoneOf(v)' = DoneOf(v)
  BY <1>0, <1>2, DoneStays
<1>4. DoneOf(w)' = status
  BY <1>2 DEF DoneOf, Replied
<1>5. Done' = [Done EXCEPT ![w] = status]
  BY <1>3, <1>4, DoneMoves
<1>6. request[w] # None
  BY <1>0, CallInvariants, NoneIsNoRecord
<1>7. Bound' = Bound
  BY <1>0 DEF Bound
<1>8. CASE status = 500
  <2>1. Done' = [Done EXCEPT ![w] = 500]
    BY <1>5, <1>8
  <2> QED BY <1>0, <2>1, <1>6, <1>7, ContractView DEF Contract!Fail, Done, DoneOf, Bound
<1>9. CASE status = 504
  <2>1. Done' = [Done EXCEPT ![w] = 504]
    BY <1>5, <1>9
  <2> QED BY <1>0, <2>1, <1>6, <1>7, ContractView DEF Contract!Fail, Done, DoneOf, Bound
<1> QED BY <1>8, <1>9

LEMMA DeliverStep ==
    ASSUME IInv, NEW w \in Workers, Deliver(w)
    PROVE  Contract!Deliver(w)
<1>0. /\ TypeOK /\ HandlerOK(w) /\ answer[w] # None
      /\ request' = [request EXCEPT ![w] = None]
      /\ answer' = [answer EXCEPT ![w] = None]
      /\ UNCHANGED <<repos, keys, call, reply>>
  BY DEF IInv, Deliver, Release, github
<1>1. call[w] = None /\ answer'[w] = None
  BY <1>0 DEF HandlerOK, TypeOK
<1>2. \A v \in Workers : v # w => request'[v] = request[v] /\ answer'[v] = answer[v]
  BY <1>0 DEF TypeOK
<1>3. \A v \in Workers : v # w => DoneOf(v)' = DoneOf(v)
  BY <1>0, <1>2, DoneStays
<1>4. DoneOf(w)' = None /\ DoneOf(w) # None
  BY <1>0, <1>1 DEF DoneOf, Replied
<1>5. Done' = [Done EXCEPT ![w] = None] /\ Done[w] # None
  BY <1>3, <1>4, DoneMoves DEF Done
<1> QED BY <1>0, <1>5, ContractView DEF Contract!Deliver, Done, DoneOf

LEMMA CrashStep ==
    ASSUME Crash
    PROVE  Contract!Crash
<1>1. \A v \in Workers : DoneOf(v)' = None
  BY DEF Crash, DoneOf, Replied
<1>2. Done' = [w \in Workers |-> None]
  BY <1>1 DEF Done
<1> QED BY <1>2, ContractView DEF Crash, Contract!Crash, Done, DoneOf

LEMMA ContractStep ==
    ASSUME Serial, IInv, CInv, [Next]_vars
    PROVE  [Contract!Next]_(Contract!vars)
<1>1. CASE \E w \in Workers, q \in Request : Receive(w, q)
  BY <1>1, ReceiveStep DEF Contract!Next
<1>2. CASE \E w \in Workers : GithubServes(w)
  BY <1>2, ServesStep DEF Contract!Next
<1>3. CASE \E w \in Workers : GithubFails(w)
  BY <1>3, FailsStep DEF Contract!Next
<1>4. CASE \E c \in late : LateCallLands(c)
  BY <1>4 DEF CInv
<1>5. CASE \E w \in Workers : Answer(w) \/ BindAdds(w) \/ UnbindRemoves(w)
  BY <1>5, AnswerStep, SecondCallStep
<1>6. CASE \E w \in Workers : GiveUp(w)
  BY <1>6, GiveUpStep DEF Contract!Next
<1>7. CASE \E w \in Workers : Deliver(w)
  BY <1>7, DeliverStep DEF Contract!Next
<1>8. CASE Crash
  BY <1>8, CrashStep DEF Contract!Next
<1>9. CASE UNCHANGED vars
  <2>1. \A v \in Workers : DoneOf(v)' = DoneOf(v)
    BY <1>9, DoneStays DEF vars
  <2>2. Done' = Done
    BY <2>1, DoneIsSame
  <2> QED BY <1>9, <2>2, ContractView DEF vars, Contract!vars, Done, DoneOf
<1> QED BY <1>1, <1>2, <1>3, <1>4, <1>5, <1>6, <1>7, <1>8, <1>9 DEF Next, Handle

LEMMA ContractInit ==
    ASSUME Init
    PROVE  Contract!Init
<1>1. \A v \in Workers : DoneOf(v) = None
  BY DEF Init, DoneOf, Replied
<1>2. Done = [w \in Workers |-> None]
  BY <1>1 DEF Done
<1> QED BY <1>2, ContractView DEF Init, Contract!Init, Done, DoneOf

-----------------------------------------------------------------------------

\* What a handler learnt of its instance stays true until it is answered.
THEOREM FreshInvariance ==
    ASSUME Serial
    PROVE  Spec => [](IInv /\ CInv)
<1>1. Init => IInv /\ CInv
  BY InitInv, InitCInv
<1>2. IInv /\ CInv /\ [Next]_vars => (IInv /\ CInv)'
  BY StepInv, StepCInv
<1> QED BY <1>1, <1>2, PTL DEF Spec

\* The two-call handlers of the broker implement the atomic operations of
\* BrokerContract (service_broker_app.rb and github_service_helper.rb under a
\* client that sends one request per instance at a time).
THEOREM BrokerKeepsContract ==
    ASSUME Serial
    PROVE  Spec => ContractSpec
<1>1. Init => Contract!Init
  BY ContractInit
<1>2. IInv /\ CInv /\ [Next]_vars => [Contract!Next]_(Contract!vars)
  BY ContractStep
<1> QED BY <1>1, <1>2, FreshInvariance, PTL DEF Spec, ContractSpec, Contract!Spec

\* A title names at most one key, and an answered unbind has left none
\* (create_github_deploy_key, remove_github_deploy_key).
THEOREM TitlesNameKeys ==
    ASSUME Serial
    PROVE  Spec => []TitlesFindKeys
<1>1. IInv /\ CInv => TitlesFindKeys
  BY DEF CInv, TitlesFindKeys, UnbindDestroysKey, Fresh, StatusHolds, Named, KeysOf
<1> QED BY <1>1, FreshInvariance, PTL

\* The key of a bind about to be answered 201 is at GitHub
\* (create_github_deploy_key).
THEOREM BindGivesWorkingKey ==
    ASSUME Serial
    PROVE  Spec => []FreshCredentialWorks
<1>1. IInv /\ CInv => FreshCredentialWorks
  BY DEF CInv, FreshCredentialWorks, Fresh, StatusHolds, Held
<1> QED BY <1>1, FreshInvariance, PTL
=============================================================================
