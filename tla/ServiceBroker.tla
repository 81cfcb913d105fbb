--------------------------- MODULE ServiceBroker ---------------------------
(***************************************************************************)
(* The GitHub service broker (github-service-broker-ruby/service_broker):  *)
(* Sinatra handlers that turn the broker calls of the Cloud Controller     *)
(* into calls of the GitHub API.  The broker keeps no state of its own:    *)
(* the repositories and deploy keys at GitHub are the only record of what  *)
(* was provisioned and bound.  A handler makes one or two GitHub calls and *)
(* other handlers, timeouts and crashes come between them.                 *)
(***************************************************************************)
EXTENDS Naturals, FiniteSets, TLC

CONSTANTS
    Workers,    \* the requests the web server can run at the same time
    Instances,  \* service instance ids; repository_name is injective on them
    Bindings,   \* binding ids, the titles of the deploy keys
    MaxKeys,    \* bound: SSH key pairs generated in a behaviour
    MaxLate,    \* bound: given-up calls still on their way to GitHub
    Serialised, \* TRUE: the client has one request per instance in progress
    None

ASSUME BoundsAssumption == MaxKeys \in Nat /\ MaxLate \in Nat
ASSUME SerialisedAssumption == Serialised \in BOOLEAN
ASSUME NoneAssumption ==
    /\ None \notin Bindings
    /\ None \notin {200, 201, 404, 409, 410, 500, 502, 504}

Request ==
    [op : {"provision", "unprovision"}, instance : Instances, binding : {None}]
    \cup [op : {"bind", "unbind"}, instance : Instances, binding : Bindings]

PairIds == 1..MaxKeys

\* A deploy key at GitHub.  A key pair is registered by one call at most, so
\* one number stands for the pair and for the id GitHub gives the key.
Key == [id : PairIds, instance : Instances, title : Bindings]

\* A call of the GitHub API and the request it serves; key is the pair to add,
\* or the id to remove, and 0 for the other verbs.
Call == [verb : {"create", "delete", "list", "add", "remove"},
         for : Request, key : 0..MaxKeys]

Reply == [code : {"ok", "exists", "notfound", "error"}, list : SUBSET Key]

Status == {200, 201, 404, 409, 410, 500, 502, 504}

\* What a 201 to a bind gives the client: the private key of pair id.
Credential == [id : PairIds, instance : Instances, binding : Bindings]

ASSUME NoneIsNoRecord ==
    None \notin Request /\ None \notin Call /\ None \notin Reply

VARIABLES
    repos,    \* GitHub: the instances that have a repository
    keys,     \* GitHub: the deploy keys
    late,     \* calls the broker gave up on that GitHub may still serve
    request,  \* worker -> the request its handler runs
    call,     \* worker -> the GitHub call it waits for
    reply,    \* worker -> GitHub's reply to that call
    pair,     \* worker -> the key pair its bind generated, or 0
    answer,   \* worker -> the status of its response, not yet delivered
    nextPair, \* the next fresh key pair
    issued    \* history: the credentials delivered to the client

github  == <<repos, keys, late>>
handler == <<request, call, reply, pair, answer>>
vars    == <<repos, keys, late, request, call, reply, pair, answer,
             nextPair, issued>>

Init ==
    /\ repos = {} /\ keys = {} /\ late = {}
    /\ request = [w \in Workers |-> None]
    /\ call = [w \in Workers |-> None]
    /\ reply = [w \in Workers |-> None]
    /\ pair = [w \in Workers |-> 0]
    /\ answer = [w \in Workers |-> None]
    /\ nextPair = 1
    /\ issued = {}

-----------------------------------------------------------------------------
(* GitHub, as the helper and its tests use it. *)

ReposAfter(c) ==
    CASE c.verb = "create" -> repos \cup {c.for.instance}
      [] c.verb = "delete" -> repos \ {c.for.instance}
      [] OTHER             -> repos

KeysAfter(c) ==
    CASE c.verb = "delete" -> {k \in keys : k.instance # c.for.instance}
      [] c.verb = "remove" ->
            {k \in keys : ~(k.id = c.key /\ k.instance = c.for.instance)}
      [] c.verb = "add" /\ c.for.instance \in repos ->
            keys \cup {[id |-> c.key, instance |-> c.for.instance,
                        title |-> c.for.binding]}
      [] OTHER -> keys

Take(c) == repos' = ReposAfter(c) /\ keys' = KeysAfter(c)

\* A list or an add in a missing repository, a delete of a missing one and a
\* remove of a missing key are 404; a second create is "name already exists".
ReplyTo(c) ==
    [code |-> CASE c.verb = "create" ->
                     IF c.for.instance \in repos THEN "exists" ELSE "ok"
                [] c.verb = "remove" ->
                     IF \E k \in keys : k.id = c.key /\ k.instance = c.for.instance
                     THEN "ok" ELSE "notfound"
                [] OTHER ->
                     IF c.for.instance \in repos THEN "ok" ELSE "notfound",
     list |-> IF c.verb = "list"
              THEN {k \in keys : k.instance = c.for.instance} ELSE {}]

Waiting(w) == call[w] # None /\ reply[w] = None

GithubServes(w) ==
    /\ Waiting(w)
    /\ Take(call[w])
    /\ reply' = [reply EXCEPT ![w] = ReplyTo(call[w])]
    /\ UNCHANGED <<late, request, call, pair, answer, nextPair, issued>>

\* Any other Octokit::Error.  A server error says nothing of the effect.
GithubFails(w) ==
    /\ Waiting(w)
    /\ Take(call[w]) \/ UNCHANGED <<repos, keys>>
    /\ reply' = [reply EXCEPT ![w] = [code |-> "error", list |-> {}]]
    /\ UNCHANGED <<late, request, call, pair, answer, nextPair, issued>>

LateCallLands(c) ==
    /\ c \in late
    /\ Take(c)
    /\ late' = late \ {c}
    /\ UNCHANGED <<handler, nextPair, issued>>

-----------------------------------------------------------------------------
(* Mistakes the code does not make; each must break a property below. *)

BugEveryKeyIsTitled(w) == reply[w].list
BugNoKeyIsTitled(w)    == {}
BugSharedPair(w)       == 1
BugAddErrorIgnored(w)  == 201
BugStatusOfGithub(w)   == 422
BugNoTimeout(w)        == FALSE

-----------------------------------------------------------------------------
(* The handlers. *)

\* The helper's first call for a request.
FirstCall(q) ==
    [verb |-> CASE q.op = "provision"   -> "create"
                [] q.op = "unprovision" -> "delete"
                [] OTHER                -> "list",
     for |-> q, key |-> 0]

ClientMaySend(q) ==
    Serialised => \A v \in Workers :
                     request[v] # None => request[v].instance # q.instance

Receive(w, q) ==
    /\ request[w] = None
    /\ ClientMaySend(q)
    /\ request' = [request EXCEPT ![w] = q]
    /\ call' = [call EXCEPT ![w] = FirstCall(q)]
    /\ UNCHANGED <<github, reply, pair, answer, nextPair, issued>>

\* The listed keys with the title of the request.
Titled(w) == {k \in reply[w].list : k.title = request[w].binding}

AddOutcome(w) == IF reply[w].code = "ok" THEN 201 ELSE 502

CreateOutcome(w) ==
    CASE reply[w].code = "ok"     -> 201
      [] reply[w].code = "exists" -> 409
      [] OTHER                    -> 502

ListOutcome(w) ==
    LET bind == request[w].op = "bind"
        code == reply[w].code
    IN CASE code = "notfound"                           -> IF bind THEN 404 ELSE 410
         [] code = "ok" /\ (bind <=> Titled(w) # {}) -> IF bind THEN 409 ELSE 410
         [] code = "ok" /\ (bind <=> Titled(w) = {}) -> None
         [] OTHER                                    -> 502

RemovalOutcome(w) ==
    CASE reply[w].code = "ok"       -> 200
      [] reply[w].code = "notfound" -> 410
      [] OTHER                      -> 502

\* The response the rescue clauses and the handler give to a reply, or None
\* where the helper goes on to its second call.
Outcome(w) ==
    CASE call[w].verb = "create" -> CreateOutcome(w)
      [] call[w].verb = "list"   -> ListOutcome(w)
      [] call[w].verb = "add"    -> AddOutcome(w)
      [] OTHER                   -> RemovalOutcome(w)

Finish(w, status) ==
    /\ answer' = [answer EXCEPT ![w] = status]
    /\ call' = [call EXCEPT ![w] = None]
    /\ reply' = [reply EXCEPT ![w] = None]

Replied(w) == call[w] # None /\ reply[w] # None

Answer(w) ==
    /\ Replied(w)
    /\ Outcome(w) # None
    /\ Finish(w, Outcome(w))
    /\ UNCHANGED <<github, request, pair, nextPair, issued>>

\* SSHKey.generate.
FreshPair(w) == nextPair

\* create_github_deploy_key found no key with the title: a fresh pair is added.
BindAdds(w) ==
    /\ Replied(w)
    /\ request[w].op = "bind" /\ Outcome(w) = None
    /\ nextPair <= MaxKeys
    /\ pair' = [pair EXCEPT ![w] = FreshPair(w)]
    /\ nextPair' = nextPair + 1
    /\ call' = [call EXCEPT ![w] =
                  [verb |-> "add", for |-> request[w], key |-> FreshPair(w)]]
    /\ reply' = [reply EXCEPT ![w] = None]
    /\ UNCHANGED <<github, request, answer, issued>>

\* remove_github_deploy_key detected a key with the title in its listing.
UnbindRemoves(w) ==
    /\ Replied(w)
    /\ request[w].op = "unbind" /\ Outcome(w) = None
    /\ \E k \in Titled(w) :
         call' = [call EXCEPT ![w] =
                    [verb |-> "remove", for |-> request[w], key |-> k.id]]
    /\ reply' = [reply EXCEPT ![w] = None]
    /\ UNCHANGED <<github, request, pair, answer, nextPair, issued>>

\* The calls of W that GitHub has not served are lost or arrive later.
GivenUp(W) ==
    LET open == {call[w] : w \in {v \in W : Waiting(v) /\ call[v].verb # "list"}}
    IN \E some \in SUBSET open :
          /\ late' = late \cup some
          /\ Cardinality(late') <= MaxLate

\* Faraday's timeout is rescued as 504; a failed connection is not rescued
\* and becomes Sinatra's 500.  A reply on its way is lost as well.
GiveUp(w) ==
    /\ call[w] # None
    /\ GivenUp({w})
    /\ \E status \in {500, 504} : Finish(w, status)
    /\ UNCHANGED <<repos, keys, request, pair, nextPair, issued>>

Release(w) ==
    /\ request' = [request EXCEPT ![w] = None]
    /\ pair' = [pair EXCEPT ![w] = 0]
    /\ answer' = [answer EXCEPT ![w] = None]

\* The response reaches the client; a bind's 201 carries the private key.
Deliver(w) ==
    /\ answer[w] # None
    /\ Release(w)
    /\ issued' = IF request[w].op = "bind" /\ answer[w] = 201
                 THEN issued \cup {[id |-> pair[w],
                                    instance |-> request[w].instance,
                                    binding |-> request[w].binding]}
                 ELSE issued
    /\ UNCHANGED <<github, call, reply, nextPair>>

\* The broker process dies; every handler is gone with its key pair.
Crash ==
    /\ \E w \in Workers : request[w] # None
    /\ GivenUp(Workers)
    /\ request' = [w \in Workers |-> None]
    /\ call' = [w \in Workers |-> None]
    /\ reply' = [w \in Workers |-> None]
    /\ pair' = [w \in Workers |-> 0]
    /\ answer' = [w \in Workers |-> None]
    /\ UNCHANGED <<repos, keys, nextPair, issued>>

Handle(w) == Answer(w) \/ BindAdds(w) \/ UnbindRemoves(w) \/ GiveUp(w) \/ Deliver(w)

Next ==
    \/ \E w \in Workers, q \in Request : Receive(w, q)
    \/ \E w \in Workers : Handle(w) \/ GithubServes(w) \/ GithubFails(w)
    \/ \E c \in late : LateCallLands(c)
    \/ Crash

Spec == Init /\ [][Next]_vars

\* The web server runs every handler it started, and every call ends: GitHub
\* replies or the HTTP client's timeout does.
FairSpec == Spec /\ \A w \in Workers : WF_vars(Handle(w))

-----------------------------------------------------------------------------
(* Properties. *)

TypeOK ==
    /\ repos \subseteq Instances
    /\ keys \subseteq Key
    /\ late \subseteq Call
    /\ request \in [Workers -> Request \cup {None}]
    /\ call \in [Workers -> Call \cup {None}]
    /\ reply \in [Workers -> Reply \cup {None}]
    /\ pair \in [Workers -> 0..MaxKeys]
    /\ answer \in [Workers -> Status \cup {None}]
    /\ nextPair \in 1..(MaxKeys + 1)
    /\ issued \subseteq Credential

\* A private key opens only the repository it was issued for, under the
\* binding it was issued for: the credential of one binding never becomes, by
\* a lost, late or concurrent call, the key of another.
\* (create_github_deploy_key: one fresh pair per bind, used for one add.)
CredentialScope ==
    \A k \in keys, c \in issued :
        k.id = c.id => k.instance = c.instance /\ k.title = c.binding

Open == late \cup ({call[w] : w \in Workers} \ {None})

\* A key leaves GitHub only because an unbind of its own binding or an
\* unprovision of its instance was asked for: the id unbind took from a listing
\* that is stale by now never hits the key of another binding.
RevokedOnlyOnRequest ==
    [][\A k \in keys \ keys' :
          \E c \in Open :
             /\ c.for.instance = k.instance
             /\ \/ c.verb = "delete"
                \/ c.verb = "remove" /\ c.for.binding = k.title]_vars

\* At most one key per binding, though listing and adding are two calls: what
\* the 409 of a repeated bind is there for.
OneKeyPerBinding ==
    \A k, l \in keys : k.instance = l.instance /\ k.title = l.title => k = l

\* An unbind answered 200 or 410 has left no key of its binding, issued or
\* orphaned by a failed bind (remove_github_deploy_key, which stops at the
\* first key it detects).
UnbindDestroysKey ==
    \A w \in Workers :
        answer[w] \in {200, 410} /\ request[w].op = "unbind" =>
            \A k \in keys : ~(/\ k.instance = request[w].instance
                              /\ k.title = request[w].binding)

\* The title of a key finds the key: what unbind and the 409 of bind rely on.
TitlesFindKeys == OneKeyPerBinding /\ UnbindDestroysKey

\* Once an unbind is answered 200, no credential issued for its binding opens
\* the repository any more (README, "unbind: Destroys the deploy key bound to
\* the service instance").
UnboundCredentialIsDead ==
    \A w \in Workers :
        answer[w] = 200 /\ request[w].op = "unbind" =>
            \A k \in keys, c \in issued :
                /\ c.instance = request[w].instance
                /\ c.binding = request[w].binding
                => k.id # c.id

\* The credential a bind is about to deliver opens the repository.
FreshCredentialWorks ==
    \A w \in Workers :
        answer[w] = 201 /\ request[w].op = "bind" =>
            [id |-> pair[w], instance |-> request[w].instance,
             title |-> request[w].binding] \in keys

\* Every request is answered, or its process dies: the rescue clauses leave no
\* reply, and no missing reply, on which a handler waits for ever.
EveryRequestEnds == \A w \in Workers : request[w] # None ~> request[w] = None

\* With one request per instance at a time and no call served after the broker
\* gave up on it, the two-call handlers are the atomic operations of
\* BrokerContract.
Contract == INSTANCE BrokerContract WITH
    instances <- repos,
    bound     <- {<<k.instance, k.title>> : k \in keys},
    asked     <- request,
    answered  <- [w \in Workers |-> IF Replied(w) THEN Outcome(w) ELSE answer[w]]

ContractSpec == Contract!Spec

\* For the runs: workers, instances and bindings are interchangeable.
Symmetry ==
    Permutations(Workers) \cup Permutations(Instances) \cup Permutations(Bindings)
=============================================================================
