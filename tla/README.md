# Verification of the trainings repository

TLA+ models of the programs of this repository, the TLC runs that check them
on small instances, and proofs of their most important properties for every
instance.  Run TLC with `tlc -config <run>.cfg <module>.tla` and the proofs with
`tlapm <module>.tla`.

1. [The system](#1-the-system)
2. [Modules](#2-modules)
3. [The service broker](#3-the-service-broker)
4. [The ctl scripts](#4-the-ctl-scripts)
5. [The etcd job](#5-the-etcd-job)
6. [The Go libraries](#6-the-go-libraries)
7. [Runs](#7-runs)
8. [Proofs](#8-proofs)
9. [Where code and documentation disagree](#9-where-code-and-documentation-disagree)
10. [What the models show of the code](#10-what-the-models-show-of-the-code)
11. [What is not modelled](#11-what-is-not-modelled)
12. [Plan](#12-plan)

## 1. The system

The repository is the material of a Cloud Foundry training.  Most of its bytes
are release indexes, packages and vendored code (the Go sources of Cloud Foundry
itself are submodules and not in it).  What is left and has behaviour of its own
are a Ruby program that a trainee writes and deploys, the shell and Ruby scripts
by which BOSH and monit run the processes of Cloud Foundry, and four Go
libraries that diego-release carries in full: `go.net`, `gosqlite`, `gocheck` and
`goautoneg`.

| component | state it keeps | operations | interacts with | what is hard | what makes it correct |
| --- | --- | --- | --- | --- | --- |
| GitHub service broker (`github-service-broker-ruby/service_broker`) | none; repositories and deploy keys at GitHub are the only record | catalog, provision, unprovision, bind, unbind | Cloud Controller (its client), GitHub API | bind and unbind are two remote calls; timeouts leave a call whose effect nobody knows; concurrent requests; a crash after the effect | credentials of bindings stay apart; a key is revoked only when asked; operations look atomic; every request ends |
| example application (`example_app`) | files under `/tmp`: private key, ssh script, clone | create a commit | git, ssh, GitHub | the files have fixed names that concurrent requests share; each of five commands may fail | a commit uses its own key; nothing is left behind |
| `pid_guard`, `kill_and_wait` (`diego-release/src/pid_utils.sh`, `cf-release/src/common/utils.sh`) | the pidfile | guard a start, kill and wait | `/proc`, every ctl script | check and use of the pidfile are separated by up to 25 seconds; pids are reused; `bash -e` ends a script in the middle | see the next two |
| ctl scripts that become the daemon (34 scripts, e.g. `gorouter_ctl`, `receptor_ctl`) | the pidfile, the daemon | start, stop | monit, the BOSH agent | monit's timeouts, crashes of daemon, script and machine | one daemon at most, recorded; stop leaves none; it comes back |
| `rep_ctl` | pidfile, `.fail` pidfile, the daemon in the background | start with ping, stop | monit, the rep's HTTP port | a ping may hang or be answered by another process; the pings and the kill together outlast monit; a start may die before it records the rep | what is not abandoned is recorded: one rep, gone after a stop |
| etcd ctl and drain scripts (`diego-release/jobs/etcd`) | pidfile, data directory, member list of the cluster | start (list, add, launch, wait), stop, drain (list, remove, wipe) | etcd, the other machines, BOSH, monit | a list that is stale when used; the quorum; a failed start wipes data | one cluster, no data lost, every deployed node becomes a member |
| drain scripts of gorouter, dea, rep | pidfile | dynamic and static drain | BOSH agent, the daemon | unbounded waits; the pidfile vanishes between test and read | the drain ends, the daemon is not killed early |
| ctl scripts with a protocol of their own: postgres, consul agent and join, nfs mounter | pidfiles, mounts | start, stop | monit, postgres, consul | the pid of the start script is in the pidfile first; a script stops itself with a signal | as for the others |
| manifest generation, release metadata | none | merge templates | - | - | - |
| `context` (go.net) | a tree of contexts with mutexes, timers and watchers | derive, cancel, time out | any goroutine | a parent ends while a child is being derived; locks of a whole branch are held at once | the end of a context reaches all below it, once, and frees timers and places |
| `netutil` | the semaphore of a limited listener | accept, close | any goroutine | double and concurrent closes, failing accepts | at most n connections are open, and no slot is lost |
| `gocheck` | suite, fixtures, tracker, result; status of a test | run a suite; check, assert, fail, skip | goroutines and two channels | panics, skips and failures in fixtures, tests and benchmark loops | every test counted once, no failure lost, the run ends; `Not` negates |
| `websocket` | one connection with reader, writer and a shared write lock | handshake, read, write, ping, close | the peer | the reader answers pings between writers; frames cut short | whole frames, data in order, both ends agree on the protocol |
| `spdy` | two compression streams and the framer's words | read and write frames | the peer | an error in one frame must not cost the next ones | frames come out as they went in |
| `html` (tokenizer, parser, renderer, text functions, charset, atom) | buffer with spans; stacks, modes and tree; output | tokenize, parse, render, escape, find an encoding | the page's author | any byte sequence; buffers that move; mode and stack out of step | tokens cut the input; the tree is sound; what is rendered is parsed back |
| `gosqlite` (driver and the earlier API) | connections, transactions, statements, backup | prepare, bind, step, scan, commit, close | SQLite, `database/sql` | BUSY and I/O errors at any call, errors that stay | what is reported is what happened to the data |
| `ipv4`, `ipv6`, `internal/icmp` | control flags; packets as bytes | marshal and parse, set options, receive with control messages | the kernel | options that change while a read waits; byte order and widths per system | bytes come back as values; flags and kernel agree |
| `proxy`, `dict` | a dialled connection; a pipeline of commands | dial through SOCKS5, look up words | the proxy, the server | an answer cut at any byte; callers share a connection | a connection is handed out in step or closed; each caller reads its own answer |
| `publicsuffix`, `idna`, `goautoneg` | packed tables; labels; an Accept header | generate and look up; convert; choose | - | layouts that overlap; 32-bit overflow; ties | lookups agree with the rules; conversions invert; the best is chosen |
| bosh-lite, `cf-env`, `vanilla-node`, slides | none that outlives a command | - | - | - | - |

`PROJECT.json` lists the components with their files and status, and, under
`hazards`, every place of this code where something can go wrong that a test
would hardly reach, with the properties that cover it.

## 2. Modules

```
ServiceBroker --INSTANCE WITH-- BrokerContract       PidUtils          pid_guard, kill_and_wait
   |   \                                                |
   |    ServiceBrokerProofs                           Monit            monit, operator, processes, time
   |                                                 /    \
   |                                            JobCtl    RepCtl --- MCRepCtl
MCLiveness   (also Context, SuiteRunner)           |         |
                                          JobCtlProofs    RepCtlProofs

Context ------+                              Etcd --- EtcdCtl --- MCEtcdCtl
SpdyFramer ---+                                          \
IpSocket -----+-- ContextProofs                           EtcdCtlProofs
IpOptions ----+
SqliteDriver --+                             SuiteRunner --- SuiteRunnerProofs
SqliteStmt ----+
ProxyDialer ---+-- ClientProofs              HtmlTree --- HtmlParser --- HtmlRender
DictClient ----+                                         \-- MCHtmlParser
LimitListener --+                            TextLayout --- SuffixList, AtomTable
Handshake ------+-- GoNetProofs
WebSocket ------+
HtmlTokenizer --+

MCGoLibraries: the 21 models of the Go libraries, each on the inputs of MCGoInputs
```

| module | models |
| --- | --- |
| `ServiceBroker` | the broker's handlers and GitHub as the helper uses it |
| `BrokerContract` | abstract: what a broker promises its client, whatever it is built on |
| `PidUtils` | `pid_guard`, `wait_pidfile` and `kill_and_wait`, one action per command |
| `Monit` | their environment: monit, operator, other processes, the passing of time |
| `JobCtl` | a start that writes its own pid and execs the daemon |
| `RepCtl` | a start that launches the rep in the background and pings it |
| `Etcd` | external: clusters, member lists, data directories |
| `EtcdCtl` | the etcd job's scripts on every machine, and BOSH |
| `Context`, `LimitListener`, `SuiteRunner`, `Checks` | goroutines of `context`, `netutil` and `gocheck` |
| `WebSocket`, `Handshake`, `SpdyFramer`, `ProxyDialer`, `DictClient` | conversations with a peer |
| `HtmlTokenizer`, `HtmlTree`, `HtmlParser`, `HtmlRender`, `HtmlText`, `Negotiation` | packages `html` and `html/charset`, and `goautoneg` |
| `SqliteDriver`, `SqliteStmt` | the two packages of `gosqlite` |
| `IpPackets`, `IpSocket`, `IpOptions` | `ipv4`, `ipv6` and `internal/icmp` |
| `SuffixList`, `AtomTable`, `TextLayout`, `Idna` | `publicsuffix`, `html/atom`, the layout both generators share, `idna` |
| `MC*` | symmetry sets, inputs and compositions for the runs |
| `*Proofs` | theorems |

Each module holds, under "Mistakes the code does not make", operators named
`Bug...`: variants of a definition that a plausible mistake would lead to.
Nothing refers to them.  For every property of a passing run `PROJECT.json`
(`mutants`) names one whose use in place of the definition makes TLC find the
property violated; so each property depends on what the code does.  A property of
several parts (`FunctionsAreRight`) has one mutant listed; for the other parts the
`Bug...` operators of the modules concerned were put in place of their
definitions in the same way (`BugLeaks` and `BugZone` of `ProxyDialer`,
`BugLastWins` of `SuffixList`, `BugDropsOverlap` of `TextLayout`, `BugFirst` of
`Idna`, `BugLess` of `Negotiation`, `BugWideEntities` of `HtmlText`,
`BugNoError`, `BugReadAs` and `BugGivesUp` of `SqliteStmt`, `BugForgets` and
`BugResultAlone` of `Checks`), and each makes its property fail.

## 3. The service broker

`service_broker_app.rb` has five Sinatra handlers.  `create_github_service`
makes a helper (with an HTTP client) for each request, so requests share nothing
but GitHub.  The state of `ServiceBroker`:

| variable | in the code |
| --- | --- |
| `repos`, `keys` | the repositories and deploy keys at GitHub |
| `late` | calls the broker gave up on that GitHub may still serve |
| `request`, `call`, `reply`, `pair`, `answer` | per running handler: its request, the GitHub call it waits for, the reply, the SSH key pair it generated, the status it is going to answer |
| `nextPair`, `issued` | fresh key pairs, and the history of credentials the client received |

A handler runs `Receive`, then for each GitHub call waits until GitHub serves it
(`GithubServes`), fails it (`GithubFails`, with or without the effect) or the
HTTP client gives up (`GiveUp`, answering 504 or 500); a served call is followed
by the second call (`BindAdds`, `UnbindRemoves`) or by the status that the
`rescue` clauses give (`Answer`, with `Outcome`).  `Deliver` is the response on
the wire.  `Crash` kills every handler of the process.  A call that was given up
or cut off is lost or becomes `late`, and lands at any later time.  `catalog`
and basic authentication change nothing and are left out.

Two constants describe what is outside: `Serialised` (the client has one request
per instance in progress) and `MaxLate`, the number of
calls that may be on their way at once.

For a client that does not serialise and any number of late calls, what holds is
that credentials are never confused (`CredentialScope`) and keys are revoked only by a request for them
(`RevokedOnlyOnRequest`), although `remove_github_deploy_key` deletes an id from
a listing that may be obsolete.  With serialised requests and no late calls the
handlers are the atomic operations of `BrokerContract`: `ContractSpec` maps the
contract's instances to `repos`, its bindings to the titles of `keys`, and its
status to `answer`, or to the outcome of a reply the handler has not read yet:
the operation takes effect when GitHub serves the last call.

GitHub is external; its replies are those the helper and its specs distinguish.
Not modelled: the page size of `list_deploy_keys`.

## 4. The ctl scripts

34 ctl scripts have one shape: `start` runs `pid_guard`, makes directories,
writes `$$` to the pidfile and execs the daemon; `stop` runs `kill_and_wait`.
They differ in names, environment variables and the timeout.  `JobCtl` is
written from `gorouter_ctl.erb`; the timeouts are constants.

| variable | in the code |
| --- | --- |
| `proc` | what runs under each pid: a start script, the daemon, another program |
| `file` | content of each pidfile: none, empty (truncated by `>`), or a pid |
| `script` | the ctl scripts in progress: next command, own pid, pid read from the pidfile, seconds left |
| `mode`, `doing`, `timer` | monit: what the operator wants, what it is waiting for, and for how long |

Time: a tick is one second, ten turns of the loop in `wait_pidfile`, whose final
`sleep 0.5` is rounded up.  Commands take no time; a tick passes only when every
script sleeps, waits or runs the setup of its job (which takes up to
`StartDelay`).  A test of a file and the read that follows it are one step, but
everything else in between is interleaved: the daemon or a script may die, other
processes take pids, monit may give up and start again.

Monit is not in the repository.  `Monit` says of it what the monit files and the
scripts rely on: it looks at the pidfile, runs one program at a time, waits for
it until the timeout, and runs the start in any cycle in which the pidfile's
process is not there.  The scripts stay in the foreground as the daemon, so monit
cannot wait for a start's exit.  `WaitsForExit` is the assumption that it waits
for a stop program to exit.  Without it (monit goes on as soon as the pidfile's
process is gone) the `rm -f` of `kill_and_wait` (`pid_utils.sh:72`) may delete
the pidfile of the next start, and TLC shows violations of `AtMostOneJob`,
`StoppedMeansGone` and `JobIsRecorded`: `job_ctl` does not show that this hazard
is absent.  `Reuse` lets the kernel give out a pid
that a pidfile names; with it the guard refuses a job that does not run (the run
`job_reused_pid`) and a stop may kill a stranger.

`RepCtl` models `rep_ctl.erb`: the rep starts in the background, the script pings
it for 25 seconds, writes the rep's pid when any rep answers, and otherwise kills
it through a second pidfile, `.fail`.  `set +e` is modelled (`Strict`).  A curl
has no `--max-time`, so it may take any time (`Pings` begins one and `CurlEnds`
ends it, if ever), and the loop looks at the clock only in between; `ProcessEnds`
lets a script die anywhere, also between the launch and the `echo` that records
the rep.  Nothing else bounds a start: the job's monit file sets no timeout, so
monit's default of 30 seconds applies (`rep_start_time`).

So the rep can be lost, and two can run: a start that dies, or is left by monit, after
the launch and before the pidfile leaves a rep that no guard and no stop sees, and the
next start launches another; TLC finds this as a violation of `AtMostOneJob` in the
instance of `rep_ctl`.  The history variable
`abandoned` says when the scripts have lost control: monit went on while a start
or a stop was at work (`AtWork`), or a start died over a rep that was not in the
pidfile (`Unrecorded`).  The safety properties say that nothing else does it:
`RepIsAccounted`, `RepRunsOnce` and `StopLeavesNoRep` hold until then, with the
shipped 30 seconds, a ping that is answered by another start's rep, a rep that dies
at any point, a kill through a file that an earlier start has left, and a monit
that does not wait for the exit of a stop (`WaitsForExit = FALSE`).  What follows an
abandoned script is not explored in `rep_ctl`; there they hold by definition.

## 5. The etcd job

`EtcdCtl` has one action per call of `etcdctl` and per command that changes
state, on every machine at once.

| variable | in the code |
| --- | --- |
| `members`, `founded` | member list of each cluster; the clusters that were ever founded |
| `disk`, `run` | the copy in the data directory, and the one the running etcd serves: its cluster, whether its member was removed, whether it has caught up |
| `pidfile` | none, naming the running etcd, or stale |
| `script` | the start or drain in progress, with `prior_member_list` and whether it added its node |
| `phase` | how far BOSH is with the machine |

`StartLists`, `Adds`, `Launches`, `Syncs`, `TimesOut`, `Removes`, `Wipes` and
`Kills` follow `etcd_ctl.erb` and `etcd_bosh_utils.sh.erb` line by line;
`DrainLists`, `Removes` and `Wipes` follow the drain script.  `Removes` is
`member_remove` with the first id that `extract_my_id` finds; a failure ends a
start (`set -e`) but not a drain.  `HadOtherNodes` counts lines as the script does,
where the empty list is one line.

etcd is external: `Etcd` says that membership changes need a majority that is up
to date, that data goes before the arguments of a start, that a joining member
must name the member list, and that a removed member ends.  A list is answered
by any cluster with a process that runs, and is the current one.

The remaining constants are what the deployment provides: `Rolling` is the serial
update of `manifest-generation/diego.yml` (lines 100-102: one machine at a time,
and only while the others are healthy); `Fails` what may fail; `Outvotes` whether
failures may take the majority (`Spare`, which counts machines that are about to
join or leave); `Slow` which etcd may take longer than
`log_sync_timeout_in_seconds`; `MayMiss` whether `etcdctl` may fail although a peer
could answer; `Matches` the entries that `grep` finds for an address.

Three things make the scripts do harm, and the history variable `faults` records
them: a list that `etcdctl` could have got was not given (`missed`), a start gave up
on an etcd that would have answered (`slow`), a failure took the majority
(`outvoted`).  In `etcd_rolling` all of them may happen, and the properties say that
nothing less does harm: `SplitNeedsFault`, `LossNeedsFault` and
`DuplicateNeedsFault` are `OneCluster`, `DataSurvives` and `NoDuplicates` until the
first fault.  The exceptions are needed: on three machines each fault alone leads
to a violation of `OneCluster` and of `DataSurvives`, and `slow` and `outvoted` to
one of `NoDuplicates`.  Other assumptions and what they keep away:

| changed | result |
| --- | --- |
| `Rolling = FALSE` | two machines start at once, get an empty list and found a cluster each (`OneCluster`) |
| `MayMiss = TRUE` | `member_list \|\| echo ""` makes a failed call look like no cluster; the node founds its own (`OneCluster`) |
| `Slow = {"joins"}` | from one node to two: a start that gives up on its etcd cannot remove the member, since the machines that have caught up are no majority; `set -e` ends it before the kill and the etcd runs on in no pidfile, so that `pid_guard` lets the next start pass; with failures also `DataSurvives` |
| one address begins another (`Matches`) | "extract_my_id determines membership solely based on IP", but `grep` finds 10.0.0.1 in the line of 10.0.0.11: a drain of the first takes the second out of the cluster |
| drain of a cluster that is down | the empty list counts as "had other nodes", the last data is deleted (`DataSurvives`) |
| a machine fails while one of two drains | the leftover entry counts for the quorum and no node can join (`EveryNodeJoins` without its premise); it therefore speaks of behaviours in which no machine ever fails, while etcd may crash |

`EveryNodeJoins` has no fault as a premise; a machine that `Spare` protects in the
step from one node to two is one whose failure would leave a cluster that can neither
go on nor remove it.  What follows a fault is not explored (`NoFault`), which changes
nothing for it: a behaviour with a fault is none that it speaks of.

## 6. The Go libraries

Each library has a module with its state and, where it is used by goroutines or
talks to a peer, one action per step between two waits; where it is a function, a
behaviour asks one question (a page, a packet, a header, a list of rules) and the
module computes as the code does, step by step where the code keeps state between
its steps.  Data is reduced to what the code tells apart: a byte of HTML is one of
the characters on which the tokenizer branches, a frame's payload a few units, a
label a sequence of numbers, a SQL statement one that writes or one that reads.

### Goroutines

- `Context`.  `err`, `children`, `timer` are the fields of `cancelCtx` and
  `timerCtx`; `mu` says who holds each mutex, and a lock that is taken is a guard.
  `work` is the call that a goroutine is in: deriving a context
  (`propagateCancel`), cancelling one (`cancel`, which holds the mutexes from the
  top of a branch to where it is), a timer that fires, the goroutine that watches a
  parent from another package.  `DescendantsAreCancelled`, `ErrIsFinal`,
  `ResourcesAreReleased`, `ContextsEnd` and `CancelReturns` (no deadlock among
  mutexes that are held along a branch) are what a caller relies on.
- `LimitListener`.  `sem` is the channel, `once` each connection's `sync.Once`.
  `LimitIsKept`: every token belongs to an Accept or to a connection, and at most
  `Limit` are open, also when closes race and Accept fails.
- `SuiteRunner`.  `runner` is `suiteRunner.run`, `outer` and `inner` the two
  goroutines of a call and of the fixture it waits for, `tracker` the result
  tracker behind its two channels.  `RunIsReported`: every test counted once,
  nothing that failed forgotten, fixtures paired; `RunEnds`.
- `Checks`.  One action per method of `C` (`Check`, `Assert`, `Fail`, `Skip`,
  `Succeed`, ...) and one operator per checker.  `ChecksAreSound`.

### Conversations

- `WebSocket`.  `rio` and `wio` are the mutexes; a reader that meets a ping takes
  `wio` and writes a pong.  The peer may send any frames and stop in the middle.
  `WireIsSound` is about what this end puts on the wire, `DataIsSound` about what
  readers get.
- `Handshake`.  Client and server of the package with each other, and each with a
  foreign end.  `HandshakeAgrees`: a client that connected talks to a running
  handler, under the protocol it believes in.
- `SpdyFramer`.  `wire` is what one framer wrote and the other has not read;
  `outEnd` and `inEnd` the compression streams, which a frame that is refused half
  way may put out of step.  A data frame is refused for stream 0, for a stream id
  with the high bit and for more data than `MaxDataLength`; 2^31 and 2^24 - 1 are
  constants of the model, 256 and 15 in the run.  `FramesAreKept`.
- `ProxyDialer`.  The SOCKS5 dialogue against a proxy that answers anything and
  stops anywhere; the rules of `PerHost` as `FromEnvironment` reads them.
  `DialsAreSound`.
- `DictClient`.  The pipeline of `net/textproto` as `dict` uses it, several
  callers, a server with malformed headers.  `DefinitionsAreRight`.
- `SqliteDriver`, `SqliteStmt`.  SQLite is external: locks, BUSY, I/O errors and
  automatic rollback.  The first has the transactions of several connections, the
  second the statements of one.  `ReportsAreTrue`: what was reported to the program
  is what happened to the data, and there is one transaction at a time.
  `StatementsAreSound` (in `ConversationsAreSound`): the rows that are read are whole
  and values come back as they were bound.

### HTML

- `HtmlTokenizer`.  One step per `readByte`; `z` is the `Tokenizer` with its
  buffer, spans and raw tag; `readByte` moves the buffer.  `TokensAreRight`.
- `HtmlTree`, `HtmlParser`.  The parser is a record; every insertion mode is an
  operator with the cases of its Go function in their order.  A step is one call
  of `p.im(p)`.  `TreeIsRight`: a sound tree, mode, stack and list of
  formatting elements that agree, and no two modes that hand a token to each other
  for ever.  The parser does panic: `resetInsertionMode` takes an element of SVG or
  MathML for a part of a table or a select if it has its name, and `inCellIM`
  then clears a list that no cell has put a marker into (`html_foreign_cell`).
  `misled` records that it has taken such an element.  Until then there is no
  panic, the stack fits the mode and a page has its head and body
  (`PanicsIfMisled`, `ModeFitsStack`, `DocumentHasShape`); that the tree is sound, that
  tables hold no text and that every token is consumed holds in any case.
  `ParseFragment` begins with `framesetOK` false and with `form` set if the context
  is a form or is in one; the implied tokens of `isindex` go through the modes, its
  prompt and input are added directly, as in the code.
  Abstracted: attributes to the one class that a mode asks for, texts to three
  looks; NUL bytes and the newline after `<pre>` are left out.
- `HtmlRender`.  The output is written while the tree is walked.  `RenderIsRight`.
- `HtmlText`, `Negotiation`.  Escaping, newlines, doctypes; the encoding of a page
  and the choice among alternatives.  `TextIsRight`, `ChoicesAreRight`.

### Packets and names

- `IpPackets`: headers and messages as bytes, on systems of either order.
  `IpSocket`: control flags, and a `ReadFrom` that sized its buffer before another
  goroutine changed them.  `IpOptions`: what a setter hands to the kernel and a
  getter makes of it.  `PacketsAreRight`.
- `TextLayout` is the text both generators lay out; `SuffixList` and `AtomTable`
  are a generator and the lookup in its tables, `Idna` Punycode with the width of
  its integers.  `SuffixListIsRight` and `AtomsAreRight` compare the lookup with
  the rules or names that went in, `DomainsAreKept` a conversion with its inverse.

The libraries share nothing, so one run (`go_libraries`) checks all of them:
`MCGoLibraries` chooses one at the start and the variables of the others keep
their values.  Its 1,305,780 states are the sum of

| library | states | library | states | library | states |
| --- | --- | --- | --- | --- | --- |
| `Context` | 93,621 | `SpdyFramer` | 45,360 | `IpPackets` | 2,746 |
| `LimitListener` | 6,432 | `ProxyDialer` | 45,798 | `IpSocket` | 42,203 |
| `SuiteRunner` | 338,316 | `DictClient` | 14,894 | `IpOptions` | 15,043 |
| `Checks` | 35,025 | `HtmlParser`, `HtmlRender` | 242,610 | `SuffixList` | 481 |
| `WebSocket` | 85,284 | `HtmlTokenizer` | 159,397 | `AtomTable` | 10,598 |
| `Handshake` | 5,963 | `HtmlText` | 20,931 | `Idna` | 5,840 |
| `SqliteDriver` | 57,760 | `Negotiation` | 18,226 | `SqliteStmt` | 59,252 |

## 7. Runs

| run | instance | distinct states | what it shows |
| --- | --- | --- | --- |
| `broker_concurrent` | 2 workers, 1 instance, 2 bindings, 2 key pairs, 1 late call | 524,992 | concurrent requests, late calls and crashes never mix up credentials or revoke another binding's key |
| `broker_serialised` | 2 workers, 2 instances, 2 bindings, 2 key pairs, no late calls, serialised client | 175,467 | handlers implement `BrokerContract`; a title finds its key; a fresh credential works |
| `broker_late_call` | 1 worker, 1 binding, 1 late call | violation | section 9 |
| `job_ctl` | 3 pids, 2 scripts at once, 25 s of setup and of kill_and_wait, monit's default of 30 s | 195,006 | one daemon at most, recorded, gone after a stop; a stop takes effect; the job comes back |
| `job_reused_pid` | the same with short times and pids reused | violation | section 9 |
| `rep_ctl` | 4 pids, 2 scripts, 25 s of pings, 25 s of kill, monit's default of 30 s, curls that hang, no wait for a stop's exit | 788,033 | until a script is abandoned no rep is lost or doubled, and a stop leaves none |
| `rep_start_time` | the same | violation | section 9 |
| `etcd_rolling` | 4 machines, 2 cluster names, everything fails or is slow, up to the first fault | 289,318 | until a fault one cluster, data survives, no duplicate entries; every deployed node becomes an up-to-date member |
| `etcd_slow_restart` | 2 machines, resuming is slow | violation | section 9 |
| `go_libraries` | section 6 | 1,305,780 | each Go library on its own instance |
| `html_foreign_cell` | tables with five tags, up to 6 tokens | violation | section 9 |
| `liveness` | 2 workers, 1 binding; 1 caller, 3 contexts, 2 deadlines; 1 test | 245,771 | every request ends; contexts end with their parent and in time; `cancel` returns; a suite's run is over |

Why the bounds are enough.  Two workers are two requests that race, which is all
the handlers can do to each other: a handler looks only at GitHub.  A second
binding is what a key can be confused with, a second instance what a serialised
client leaves concurrent.  Two key pairs let two binds succeed, or one be
repeated; one late call is one retry.  For the scripts, two slots are a start and
a stop, or a script that outlived monit's timeout and its successor; three pids
are a daemon, a new start and a stranger; a fourth is the background child of
`rep_ctl`.  A rep that was lost is no longer followed in `rep_ctl`, so that the
four pids are those of one start, its rep, one that is late and one stranger.  The times are the real ones, since the properties depend on which of
them is longer.  Four machines of etcd grow and shrink through the sizes where
the majority changes; two cluster names suffice to violate `OneCluster`.  Symmetry
is used in safety runs only, where names are interchangeable in every formula.

In `go_libraries` two callers and three contexts make a chain with a sibling that
one goroutine cancels while the other derives or cancels; one deadline is one
timer to race with.  Two acceptors, two closers and three connections for a limit
of two let one wait.  A suite has two tests and any of its fixtures, which fail,
panic or skip; `doneChan` holds one result instead of 32, so that it is full.  Two
readers, who answer pings, and a writer meet at every lock of a WebSocket; the peer
and the writer send two frames between them, the peer's of three units in all, and a
control frame may hold one.  HTML pages consist of
every tag two deep and of the groups that play together (tables, formatting,
frames, foreign elements, forms, cells with MathML and select) up to four tokens and
the last of them up to six, the tokenizer's of every byte it
branches on; a page is delivered in pieces, so that the buffer moves.  The inputs
of the functions, in `MCGoInputs`, are the boundary cases of the branches: numbers
around 2^31, labels that contain or overlap each other, rules under exceptions,
empty and cut answers.

Every run checks for deadlock; where a library may come to its end (a page is
read, a connection is closed) an explicit step says so.

Fairness.  `ServiceBroker!FairSpec`: weak fairness of every handler's own steps:
the web server runs the thread, and a call that GitHub does not answer ends by
the HTTP client's timeout.  GitHub itself is not assumed to be fair.
`JobCtl!FairSpec`: time passes (`Tick`), a script that is not asleep runs, and
monit's cycle goes on (`MonitSees`, `MonitGivesUp`, `MonitStarts`); the operator
and the daemon may do anything, so a daemon may ignore TERM, and the kill -9 is
what makes `StopTakesEffect` true.  `JobComesBack` asks that the operator wants
the job from some time on and that processes end only by what scripts do.
`EtcdCtl!FairSpec`: monit runs the start, scripts go on, etcd replicates, BOSH
finishes a stop it began; failures and updates are never required, and
`EveryNodeJoins` speaks of behaviours in which they cease.
`Context!ContextFairness`: each caller's steps of a cancel that it has begun, and
what is under way in timers and watchers: Go's scheduler runs a goroutine that can
run.  That a caller begins a cancel is not assumed.  `SuiteRunner!SuiteFairSpec`:
the runner's goroutines run, and a method of the suite ends.  `MCLiveness`
conjoins them, each for the time its system is the one that runs.

## 8. Proofs

Eight modules of theorems, for every value of the constants under the assumptions
that are named.  Each inductive invariant was first checked by TLC, on the
instances above or on instances of the module alone.

### `ServiceBrokerProofs`

For any workers, instances, bindings and bounds, and a client that may or may not
serialise:

| theorem | statement |
| --- | --- |
| `TypeCorrect` | `Spec => []TypeOK` |
| `CredentialsStayInScope` | `Spec => []CredentialScope` |
| `KeysRevokedOnRequest` | `Spec => RevokedOnlyOnRequest` |

`CredentialScope` is not inductive: it relates keys at GitHub to credentials of
the client and says nothing of the places in between.  `IInv` adds that the
number of a key pair stands for one instance and one title wherever it occurs
(`KnownKeysAgree`: keys, stale listings, calls in progress, calls given up,
running binds, credentials), how the variables of one handler belong together
(`HandlerOK`), and that a late `add` belongs to a bind (`LateFits`).  Only
`BindAdds` brings a number in, and a fresh one; all other steps copy or forget.
`KeysRevokedOnRequest` follows from it: an `unbind` that removes an id from an
old listing removes the key that the listing meant, because ids never change
their meaning.  The assumptions are the named ones of `ServiceBroker`: the bounds
are naturals and the marker `None` is no record.

And for a client that serialises the requests of an instance, no late calls and
finitely many workers:

| theorem | statement |
| --- | --- |
| `BrokerKeepsContract` | `Spec => ContractSpec` |
| `TitlesNameKeys` | `Spec => []TitlesFindKeys` |
| `BindGivesWorkingKey` | `Spec => []FreshCredentialWorks` |

`CInv` says that no two handlers serve one instance (`Apart`), that keys belong
to repositories and a title to one key, and, for each handler (`Fresh`), that
what it has listed, called or been answered is still what GitHub has.  With it
every step of the handlers is a step of the contract or a stutter: the one at
which GitHub serves the last call is the operation, and `Deliver` the response.

### `JobCtlProofs`

For any pids, slots and times, under `Assumed`: `TimesFit` (`KillTimeout + 2`
and `StartDelay` are below monit's timeout, and there is a kill), no reuse of a
pid that is still named, and a monit that waits for the stop's exit:

| theorem | statement |
| --- | --- |
| `TypeCorrect` | `ASSUME Assumed PROVE Spec => []TypeOK` |
| `DaemonIsRecorded` | `... []JobIsRecorded` |
| `DaemonRunsOnce` | `... []AtMostOneJob` |
| `StopLeavesNothing` | `... []StoppedMeansGone` |

The scripts have no lock: what keeps them apart is monit's timer.  So `IInv`
bounds, for each point in a script, how long monit can have waited when the script
is there (`StartOK`, `StopOK`); from that follows that at most one start and one
stop are in progress (`OneOfEach`), that what a script read from the pidfile is
still in it when it is used, and that nothing runs when monit is done with a stop
(`MonitOK`).  Section 4 tells what happens when one of the assumptions is dropped.

### `RepCtlProofs`

For any pids, slots and times, monit's timeout included, whether or not monit waits
for an exit, and for curls and scripts that end at any time or never.  `Assumed` is
that a start pings at least once and that no pid is reused that is still named.

| theorem | statement |
| --- | --- |
| `TypeCorrect` | `Spec => []RepTypeOK`, without assumptions |
| `DaemonIsAccounted` | `ASSUME Assumed PROVE Spec => []RepIsAccounted` |
| `DaemonRunsOnce` | `... []RepRunsOnce` |
| `StopLeavesNothing` | `... []StopLeavesNoRep` |

The first disjunct of these properties is `abandoned`; `RInv` is therefore the types
and, unless a script was abandoned, `IInv`.  Its core: monit has gone on only when
what it ran was over, so a start whose daemon is neither recorded nor gone is the
one that monit waits for (`Current`, `OneCurrent`).  Unlike a start of `JobCtl`, a
start of the rep stays while it waits for its child, and several may be there; those
that are over but for their exit have recorded their daemon, or it is gone
(`CheckOK`, `Old`).  A start that fails uses the second pidfile, which no other
script looks after: either it has slept, and then it is the current one and the file
is its own (`KillsLate`), or its daemon was gone when it came there, and what it
reads from the file does not run (`KillsNothing`, `FilesOK`).

### `EtcdCtlProofs`

`EtcdIsTyped` has no assumptions.  The others hold for any finite set of machines
under a rolling update and with addresses of which none begins another, whatever
fails, is slow or is missed (`Fails`, `Slow`, `MayMiss` and `Outvotes` are free), and
claim something until the first fault, as section 5 says:

| theorem | statement |
| --- | --- |
| `EtcdIsTyped` | `Spec => []TypeOK` |
| `RollingInvariance` | `ASSUME Assumed PROVE Spec => [](faults = {} => IInv)` |
| `ClusterIsOne` | `... []SplitNeedsFault` |
| `DataIsKept` | `... []LossNeedsFault` |
| `MachinesAreListedOnce` | `... []DuplicateNeedsFault` |

The heart of `IInv` is `MajorityOK`: either the machines that are up to date and
not being updated are more than half of those that count, listed or deployed
(`Strong`), whatever the one update in progress does; or all machines but one are as
BOSH left them (`Calm`), and if that one is the only machine that was ever deployed
it keeps the data (`Alone`).  Hence a list that a start takes is empty only when
nobody else has a cluster, an add or a removal has its quorum, and the copy that a
drain wipes is not the last.  `NodeOK` ties each
machine's disk, pidfile and script to its place in the list (`IdleOK`, `DrainOK`,
`StartOK`, `CopyOK`).  Every step that
could break `MajorityOK` or empty a list that others have is one of the three faults.  Majorities of finite sets need a few lemmas
about cardinalities, which come first.

### `SuiteRunnerProofs`

For a suite of any number of tests, any fixtures and outcomes, benchmarks of any
length and any capacity of the queue:

| theorem | statement |
| --- | --- |
| `SuiteInvariant` | `SuiteSpec => []IInv` |
| `RunTellsTheTruth` | `SuiteSpec => []RunIsReported` |

`RunIsReported` speaks mostly of the end of a run; `IInv` says what is on its way
there.  Where the runner is determines which call may be in progress, and where
that call is whether it waits for a fixture (`OuterFits`, `InnerFits`).  What the
tracker expects are the reports in the queue and the calls that have not reported
(`Expected`); so nothing is left when it stops, and no report comes unexpected.  The
tests that the runner has gone past are those counted and those in the queue
(`Accounted`); a method that went wrong is seen in its call, in the queue or in the
result (`TroubleIsKept`), unless a `TearDownTest` skips (`SkipIsKept`).  `SetUpFits`
and `PanicIsSeen` relate what a panic leaves in the call to what is set up: the
deferred `TearDownTest` is due exactly when the test is set up or its `SetUpTest`
failed.  `Typed` is `SuiteTypeOK` but for
the `n` of a benchmark: it is computed with powers of 10, of which the provers know
nothing, so that `n` is a natural number is only checked by TLC.

### `ClientProofs`

For any connections of both SQLite packages and any number of changes; for any hosts
and environments of the SOCKS5 dialer (`InputsOK` only gives their parts a type); for
any callers of a DICT connection and anything that its server heads a definition with:

| theorem | statement |
| --- | --- |
| `DriverTypeCorrect` | `SqlSpec => []SqlTypeOK` |
| `ReportsTellTheTruth` | `SqlSpec => []ReportsAreTrue` |
| `DialsStaySound` | `ASSUME InputsOK PROVE ProxySpec => []DialsAreSound` |
| `AnswersStayOwn` | `ASSUME` each command is `"dicts"` or `"define"` `PROVE DictSpec => []AnswersAreOwn` |
| `StatementsStaySound` | `ASSUME StmtAssumed PROVE StmtSpec => []StatementsAreSound` (`StmtAssumed`: a Go bool is true or false) |

For the driver, `IInv` adds that a change which is new is nowhere yet (`Numbered`), that one which
waits for a commit does so in one transaction and is neither in the database nor
denied to the program (`Pending`), and that a transaction, while it lasts, holds all
that was made in its `Tx` (`TxHolds`).  So a commit that SQLite accepts takes the
whole `Tx` to the database; if SQLite has ended the transaction by itself, it
accepts neither commit nor rollback, and nothing of the `Tx` is reported.

For the dialer, `ProxyInv` says what the rules that were read are made of, kind by kind
(`RulesKept`), from which the way of a host follows (`HostIsRouted`); and it follows the
bytes of the proxy's answer from the step that asks for it (`StreamOK`): at each point
of the dialogue the stream has exactly the bytes that the rest of the dialogue reads,
then those of the host behind the proxy, so that the program finds the latter and none
of the former (`ConnOK`).  A code of the reply's address type that is none of the three
ends the dialogue before its length would matter.

For the DICT client, `DictInv` numbers the calls in the order of the pipeline: those
that wait or read have different numbers, and the one that reads has the turn
(`NumbersOK`); the commands that the server has not read, then the answers that are not
read, are in this order, the first of them the rest of what the reading call is in the
middle of, in the shape that its place in the code expects (`CommandsOK`, `LinesOK`,
`HeadOK`).  The code gives this up when a header is malformed (section 10), after
which nothing is claimed; that is part of `DictInv` as it is of the property.  The
words of a definition (`WordsAreKept`, the other part of `DefinitionsAreRight`) are
computed by recursion over a line and stay with TLC.

For the statements of the earlier API, `StmtInv` says where a statement stands: its
place is never past the rows that there are, a select that said it is over without an
error has read them all (`StmtOK`), and a value that was scanned is what `ReadAs` makes
of the text of an existing row (`ScanOK`).  Rows are only ever added, so both survive
what other statements do to the table (`GrowthKeeps`).

### `GoNetProofs`, `ContextProofs`

| theorem | statement |
| --- | --- |
| `ListenerIsTyped`, `ListenerKeepsLimit` | for any limit and finitely many acceptors and connections: `[]ListenerTypeOK`, `[]LimitIsKept` |
| `ContextIsTyped` | for any callers and bounds: `ContextSpec => []ContextTypeOK` |
| `EndReachesDescendants` | `ContextSpec => []DescendantsAreCancelled` |
| `EndIsFinal` | `ContextSpec => ErrIsFinal` |
| `EndReleasesResources` | `ContextSpec => []ResourcesAreReleased` |
| `FramesStayKept` | for any frames with the fields of their Go types (`FramesFit`): `SpdySpec => []FramesAreKept` |
| `SocketStaysSound` | for any setters and sets of flags: `SocketSpec => []SocketIsSound` |
| `OptionsStayKept` | `ASSUME OptionAssumed PROVE OptionSpec => []OptionsAreKept` (`OptionAssumed`: systems that the package knows, and no interface has the unspecified address) |
| `TokensStayRight` | `TokenizerAssumed => (TokenizerSpec => []TokensAreRight)` (`TokenizerAssumed`: what a page begins with is bytes, and its raw tag one of the three or none) |
| `EndsAgree` | for any protocols: `HandshakeSpec => []HandshakeAgrees` |
| `ConnTypeCorrect` | for any readers, writers and bounds, and either end: `WebSocketSpec => []WebSocketTypeOK` |
| `WireStaysSound` | `WebSocketSpec => []WireIsSound` |
| `DataStaysSound` | `WebSocketSpec => []DataIsSound` |
| `CloseStaysAnnounced` | `WebSocketSpec => CloseIsAnnounced` |

`Context` has no global lock: what makes the cancel of a tree safe is that a
parent is locked before its children and that a child is entered in `children`
and a parent found cancelled under the same mutex.  `IInv` states both: who holds
which mutexes while a cancel descends (`Holding`, `Chain`), and that a child whose
parent is not cancelled is in `children`, or is about to be entered or to be
cancelled (`Linked`, `Registered`, `Pending`).  `RInv` adds what a timer and an
entry wait for once their context is cancelled (`Timers`, `Removing`, `Stopping`,
`Forgetting`).

In `SpdyFramer` a frame is a row of cells on the wire, and its header block is not what
was written but its place in the compressed stream.  `SpdyInv` has two parts.
`KeptSoFar`: what was returned is, frame by frame, what was written.  `InStep`, while
no read has left a payload behind: the wire is the codings of the frames that are not
returned yet, one after the other (`Placed`), each with the block number that the
reader will expect when it comes to it (`Stands`), and a part of one more if the writer
broke (`PartOf`).  Both are said, as `FramesAreKept` is, while no RST_STREAM of status 0
was cut short.  A frame whose contents are refused takes its cells and its block with it,
which is why an error of that kind costs one frame (`Stays`).

In `IpSocket` a call sets its options one by one and may fail after any of them, while
others wait for the mutex.  `Matches` says that an option that is on has a flag after
each of them and not only when the mutex is free, because a call is at a group that its
flags are in (`SettersAreAtTheirs`); so a buffer that nobody has made stale has the
room that the flags ask for (`RoomIsRight`), enough for what the kernel sends, in
whatever order.

In `IpOptions` what the kernel holds is the argument in the type that the option has on
the system (`Held`: numbers, the checksum's offset, interfaces by index or by address,
groups, and the filter with its bits either way round).  An interface comes back as
itself because the handles of different interfaces are different, or because the code
takes the first that has the address, and that is what it set.  That there is a first
needs a least number of a set (`HasLeast`), from the well-foundedness of the strict
inclusion of finite sets.

In `LimitListener` a connection's `releaseOnce` is entered by one closer only, after
it has closed the connection (`CloserOK`, `OneReleases`); so the tokens are as many as
the Accepts in progress and the connections that were not released, and the open
connections are among those.

In `Handshake` neither end sees the other.  `HandshakeInv` says what the response tells of
the server that wrote it (`WelcomeOK`), what a server has checked of the request it
took up (`HelloOK`), and that a client's connection rests on such a response
(`ConnectedOK`); the foreign ends are free.

In `WebSocket` the two mutexes are all there is to keep the goroutines apart, and
each lets go at another place than it was taken.  `ConnInv` says what their holders
rely on.  Outgoing: whoever has begun a frame holds `wio` until it has flushed it,
so what `bufw` holds is that frame's head and nothing else, or what a failed flush
has left (`MutexesOK`, `BufferOK`); hence `FramesAreWhole`, and that `closed` is set
only after the close frame is out (`ClosingOK`).  Incoming: what has not been read is
always an end of what the peer sent, each head followed by its payload, whole unless
the stream ended in it (`StreamOK`, `ArrivedOK`).  Who holds `rio`, or the frame that
a `Read` left for the next, knows which payload the next unit belongs to and how much
of it is left (`ReaderOK`, `PayloadNext`), until a call has returned an error, from
which nothing follows about the boundaries (`BoundaryOK`: where a payload lies
without its head, some call has `failed`).  Everything returned by a reader (`GotOK`)
or on its way back as a pong (`PongsOK`) lies before what has not been read, in order
of frame and place.  A unit carries its frame's number and its place, so that this is
a statement about numbers rather than about contents, and needs no induction.

In `HtmlTokenizer` a token is read one byte at a time by functions that call each other,
and which bytes were taken is known only from the place that was reached.  `TokenInv`
has a condition for each of the 38 places (`PlaceFits`).  A property such as "text holds
no tag" is about pairs of bytes, so its condition also says what the last byte may still
begin, and what must follow if it was given back (`AtText`, `AtLessThan`); for an end
tag of four bytes this is said of its beginnings of one, two and three (`NoneBegun`),
for the arrow of a comment by the dashes that `z.n` counts (`AtComment`).  In a tag, a
key or a value has its first byte's predecessor and none of the bytes that end it
(`KeyFits`, `ValFits`).  In a script that holds `<!--` nothing is claimed of end tags,
as in `RawTextEnds`, until the next token (`IsEscaped`).  `TakesFits` and `EndsFits` go
through the functions, `NextFits` through the begin of a token.  `SlidesFit` is the
other half: `readByte` moves the token's bytes and every span by the same amount, after
which each place's condition is the one it was (`Slides`); the mutant that leaves the
attributes' spans behind fails here.

The search for this invariant corrected the model twice.  A comment that the input's end
cut short left its count of dashes to the next token, which a local variable of
`readComment` cannot do: `Next` sets `z.n` now.  And `RawTextEnds` spoke of a script
tag that was just returned as if its own bytes were the script, which `<script a='</script >'>`
refutes; it speaks of what is being read.  Two pages of the run reach both.

The proof of `WebSocket` also showed that two `CASE` expressions of `WebSocket` had overlapping
guards: TLC takes the first that is true, TLA+ leaves the choice open, and what is
chosen cannot be proved.  They, and three more that a search for the same found
(`SpdyFramer`, `ProxyDialer` and an input of the packets), are `IF`s or have disjoint
guards now; no run changed.  For the proofs about `SpdyFramer` and `IpSocket` the
lengths of frames and the room of messages are sums with a fixed number of terms, and
what the kernel delivers is a function of its place, where there were folds and a
recursive operator; and the numbers and types that `IpOptions` tries are constants.
Again no run changed.

### Only model-checked

Liveness (`EveryRequestEnds`, `StopTakesEffect`, `JobComesBack`,
`EveryNodeJoins`, `ContextsEnd`, `CancelReturns`, `RunEnds`), because it rests on
fairness; the `n` of a benchmark, a power of 10 (`GoTypeOK`); and of the other Go
libraries `TreeIsRight`, `RenderIsRight` and `FunctionsAreRight`.
`PacketsAreRight` and `ConversationsAreSound` are conjunctions over several libraries;
theorems have `SocketIsSound` and `OptionsAreKept` of the first, `DialsAreSound`,
`AnswersAreOwn` and `StatementsAreSound` of the second, and what is left of them is
`IpPackets` and the words of a definition.  All of these speak of recursive functions
over sequences (a rendered page parsed back, a packet read back, a checksum), about
which induction over data would be needed; the modules of several of them declare
`RECURSIVE` operators, and no module with theorems uses those.  `MCGoLibraries` reaches
them too, so that its properties are proved for the library that each is about, not
for the composition, in which the libraries share nothing.

## 9. Where code and documentation disagree

- `broker_late_call` / `UnboundCredentialIsDead`.  The broker's README says that
  unbind destroys the deploy key of the service instance.
  `remove_github_deploy_key` removes the first key with the title.  A bind whose
  `add` was given up is repeated and delivered; the late call then registers a
  second key with the same title, the unbind removes that one and answers 200, and
  the delivered credential still works.
- `job_reused_pid` / `RefusedMeansRunning`.  `pid_guard` prints "is already
  running, please stop it first" and refuses whenever any process has the pid in
  the file; after a crash that may be any program.
- `rep_start_time` / `StartIsOverInTime`.  `rep_ctl` waits "up to 25 seconds
  (monit gives us 30 -- defined on the monit script)", but the loop looks at the
  time only between curls, which have no time limit, then come up to 25 more seconds
  in `kill_and_wait`, and the monit script sets no timeout.
- `html_foreign_cell` / `ParseReturns`.  "Parse returns the parse tree for the HTML
  from the given Reader."  `<table><math><th><mo><select></table>` makes it panic:
  at the end of the select `resetInsertionMode` takes `math:th` for a cell, and
  `inCellIM` clears formatting elements up to a marker that is not there.
- `etcd_slow_restart` / `OnlyJoinersAreWiped`.  The timeout is described as the
  "time to wait for a joining node to finish syncing logs with the existing
  cluster".  A sole node that restarts gets an empty list, which counts as "had
  other nodes", and if it resumes slower than the timeout its data is deleted.

## 10. What the models show of the code

The properties above say what holds.  They had to be stated with exceptions, or a
weaker one in place of the obvious, wherever the code is looser than one expects:

- `context`: a `timerCtx` is not taken from its parent's `children` when it ends,
  as `CancelledIsForgotten` therefore says only of `cancelCtx`.
- `gocheck`: `Result.Add` drops `RunError`.  A TearDownTest that calls `Skip`
  turns its failed test into a skipped one, and a `Skip` after a failed `Check`
  hides it (`TroubleIsReported`, `FailuresStay`).  `Not` keeps a checker's error,
  so that `Not(Panics)` of a calm function and `Not(ErrorMatches)` of nil fail,
  like the check itself (`NegationIsSound`).  `Matches` anchors only the first and
  last alternative of `a|b`.  `FailNow` in another goroutine stops only that one.
- `websocket`: `Receive` takes a frame that the stream cut short for a whole one;
  an empty ping ends the read with `io.EOF`; a pong leaves its payload unread
  (`BoundariesAreKept`); `Close` leaves the socket open if the close frame fails;
  two ends whose buffers are full may wait for each other's pongs.  `DialConfig`
  leaves the socket open when the handshake fails.  A server that names no
  protocol leaves the client with its whole list; a preset server protocol and a
  client list of several end in 400.
- `gosqlite`: a failed Commit or Rollback leaves a transaction that `database/sql`
  does not know of (`TxIsKnown`); a step's error is returned by the next `start`;
  `rows.Close` keeps the shared lock; a `[]byte` is SQLite's memory and changes
  with the next step (`ValuesComeBack`).  In the earlier API `Stmt.err` stays for
  ever, `Conn.Exec` of a statement that returns rows reports an error, and
  `Backup.Run` may report the destination's error code after a failed step, and
  never a status with nothing remaining.
- `spdy`: an RST_STREAM of status 0 is refused when its bytes are on the wire;
  GOAWAY and WINDOW_UPDATE with flags, and unknown types, leave their payload
  unread; three readers do not look at the length; the check for duplicate headers
  never fires.
- `html`: `resetInsertionMode` does not look at namespaces (`html_foreign_cell`).
  `<</title>` hides an end tag, `--!-->` does not end a comment, an
  unquoted value that ends in `/` makes a tag self-closing, `<` in escaped script
  text falls back to script text (`RawTextEnds`).  `&#5a` is not unescaped, `&#x;`
  becomes U+FFFD, a doctype with a public identifier and no system identifier
  always means quirks.  `<svg><source><g>` parses to a tree that `Render` refuses
  (`PagesRender`).  `</foo>` closes another unknown element, since atoms are
  compared.
- `html/charset`: the last complete rune is not looked at, so that a page whose
  only non-ASCII rune is its last is windows-1252; an invalid charset attribute
  makes the order of the metas matter; a byte order mark stays in a UTF-8 page.
- `goautoneg`: `Less` is no strict order; q=0 is not excluded; `q= 0.5` is 0; an
  alternative without `/` panics.
- `ipv4`, `ipv6`: `Marshal` takes the header length from the options, not from
  `Len`; `slicePacket` panics when the header does not fit; the payload's
  `ReadFrom` may return more than the buffer holds; clearing one of Src, Dst and
  Interface switches the kernel's option off for all (`FlagsMatchKernel`); a read
  whose options changed while it waited may panic or find no message
  (`ReadIsSound`); a group interface set by address cannot be read back when it is
  nil or shares its address; options of a byte take values modulo 256.
- `publicsuffix`: `icann` comes from the deepest node that was visited; an
  exception at the top level would index out of range.
- `idna`: a huge number wraps to a negative rune, which is accepted as U+FFFD;
  `abc-` decodes to `abc` (`DecodedIsKept`).
- `proxy`: a proxy setting that cannot be parsed, or has an unknown scheme, means
  a direct connection; a proxy may choose the password method although it was not
  offered; replies' versions are not all checked; a host that ends in a dot
  matches no rule.
- `dict`: a header that is malformed leaves its text unread, so that the next
  caller reads it (`AnswersAreOwn`); a command whose write fails uses up a turn of
  the pipeline, and later callers wait for ever.

## 11. What is not modelled

- Data without control: `publicsuffix/table.go` and `html/atom/table.go` are
  written by the generators that `SuffixList` and `AtomTable` model;
  `html/entity.go` and `html/charset/table.go` are maps, of which `HtmlText` and
  `Negotiation` take the entries that differ in kind.  The constants and the stubs
  for systems without support in `ipv4` and `ipv6` have no state either.
- In the libraries: the output of `gocheck`'s log and reporter, `SetMaxBuf` of the
  tokenizer, the last step of `ParseFragment` (whether an ancestor of its context is a
  form is one of its inputs),
  `RegisterDialerType`, the JSON codec of `websocket`, zlib.
- The example application, the drain scripts of gorouter, dea and rep, and the ctl
  scripts with a protocol of their own (postgres, consul, nfs mounter): section 12.
- `check_mount` and `running_in_container`: they decide whether a mount or kernel
  setting is made, no property here depends on them.
- The stop of the etcd job is one step in `EtcdCtl`; its commands are those of
  `PidUtils`.
- Manifest generation and release metadata: data without state.
- bosh-lite (scripts run once, by one user), `cf-env`, `vanilla-node`, slides.

## 12. Plan

Next, in this order:

1. `CommitHelper`: two requests of the example application over the shared files
   of `/tmp`, every command with its failure; whose key a push uses, and what the
   cleanup leaves.
2. `DynamicDrain` over `Monit`: the drain scripts of gorouter, dea and rep; that a
   drain ends, and that no daemon that still has work is stopped.
3. `PostgresCtl` (its own pid first; `wait_pidfile` without timeout and force,
   `KillTimeout = 0`), `ConsulCtl` (the join script that stops itself), the nfs
   mounter.
4. Proofs: `IpPackets`, with the sum of a packet's bytes as a recursive function
   and its least counterexample by `HasLeast`.
