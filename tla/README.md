# TLA+ models of the 6.5840 distributed systems code

The repository builds a replicated key/value service in layers, and a
MapReduce of its own. This directory holds models of these layers, the
configurations with which TLC checks them on small instances, and proofs that
TLAPS checks for every size. Paths below are relative to `src/src`.

## 1. The system

| Part | Code | State | Operations | Talks to |
|---|---|---|---|---|
| Network | `labrpc/labrpc.go` | ends, servers, calls on their way | `Call`, `processReq`: executed or not, answered or not, delayed; never delivered twice | everything |
| Test harness | `tester1/` | instances of servers, their Persisters and ends, clients' ends | shutdown, restart, connections, partitions, settings, cleanup | network, servers |
| Raft | `raft1/raft.go`, `raftapi` | term, vote, log, commit and apply indices, leader's indices, persisted state and snapshot | election timer, heartbeats, `RequestVote`, `AppendEntry`, `InstallSnapShot` and their replies, `Start`, `Snapshot`, `applier`, restart | peers, the service through `applyCh` |
| Commit index | `raft1/util.go` | an array | `QuickSelect` | Raft |
| RSM | `kvraft1/rsm/rsm.go` | `opId`, `lastApplied`, `pendingOps`, snapshots | `Submit`, `reader`, snapshot, restore, `Kill` | Raft below, a state machine above |
| Replicated KV | `kvraft1/server.go`, `client.go` | cache, table of replies; clerk's sequence number | `Get`, `Put`, `DoOp`, `Snapshot`, `Restore`, clerk's retries | RSM |
| KV server | `kvsrv1/server.go`, `client.go` | cache, last reply per client | `Get`, `Put`, clerk's retries | network |
| Lock | `kvsrv1/lock/lock.go` | a key of the KV server | `Acquire`, `Release` | KV server |
| MapReduce | `mr/` | task lists, two channels, timers, files | `GetTask`, `FinishedTask`, `CheckFinished`, `Done`, map and reduce work | shared directory |
| Shard configuration | `shardkv1/shardcfg` | groups, shard assignment | `Join`, `Leave`, `Rebalance` | test harness |
| Shard controller, groups, clerk | `shardkv1/...` | none yet | stubs | |

What is hard in this code: messages that are lost, late or overtaken; crashes
between any two steps; work done outside a lock between two critical sections
(`applier`, `doSubmit`); requests that are retried without knowing whether the
first attempt took effect; timers that go off while the answer is on its way.
PROJECT.json lists each such place as a hazard, with the properties about it.

## 2. The modules

| Module | Models | Shown about it |
|---|---|---|
| `RaftValues` | logs, messages, and the pure functions on them | used by `Raft` |
| `Raft`, `MCRaft` | one Raft group with persisters, network and services | two passing runs |
| `RaftProgress` | `Raft` with fairness | a violation: a follower is kept behind |
| `RaftProofs` | theorems about `Raft` | types, election safety |
| `RSM`, `MCRSM` | the layer between service and Raft | one passing run, one violation |
| `RSMProofs` | theorems about `RSM` | same state, true snapshots, OK means committed, pending operations |
| `KVModel` | what a key/value service promises (`models1/kv.go`) | abstract specification |
| `KVServer` | single server and clerks | implements `KVModel` |
| `KVRaft`, `MCKVRaft` | replicated servers and clerks | implements `KVModel` until results are mixed up |
| `Lock` | the lock, composed with `KVServer` | exclusion, progress |
| `LockProofs` | theorems about `Lock` | types, invariant, exclusion |
| `MapReduce` | coordinator, workers, files | one passing run, one violation |
| `MapReduceProofs` | theorems about `MapReduce` | types, owned tasks, complete inputs, no blocking sends |
| `ShardConfig` | configurations | balance, few moves |
| `Labrpc` | the simulated network, step by step | used by `Tester` |
| `Tester` | the test harness, composed with `Labrpc` | one passing run |
| `TesterProofs` | theorems about `Tester` and `Labrpc` | types, durable replies, who saves, links |

Definitions keep the names of the code. Operators whose comment begins "Seeded
fault" are not part of any specification: each is a wrong version of the
definition after it, and is there to show that a property would notice such a
mistake in the code.

### Raft

The critical sections of `raft.go` are the actions, one per handler, reply
handler, timer case or round of a goroutine. A handler's early returns are
disjuncts or conditions of its action. A command is identified by index and
term of its entry, so a log is a sequence of terms behind a dummy entry whose
index is that of the snapshot. `persister` holds what survives a crash and is
written where the code calls `persist`. `msgs` is the set of messages in
flight, delivered in any order; `Lose` drops one. The network duplicates
nothing, but a leader sends equal requests again and again, so the
delivery of an AppendEntry or InstallSnapShot request may leave an equal one behind.

Two points differ from a textbook Raft because the code does. The election
tick may be waiting when a heartbeat resets the timer, so `LaunchElection` is
possible for every peer in every state, leaders included. The applier takes a
message under the lock and sends it without, so `applier`, `reader` and
`InstallSnapShot` interleave with `applyCh` and `pendingSnapshot` in between.
`ballots` is a history variable: every vote that was ever saved.
`Timeouts` is the schedule of elections an instance allows: which peer may start
one for which term.

`RaftProgress` adds fairness (section 3) and asks whether a leader which stays
gets its log to every service. It does not always; see section 4.

### RSM

Raft appears as what `Raft` shows of it: leaders of increasing terms, old
leaders that do not know, a log per server, a committed log, delivery in
order. The lines of `doSubmit` between which it holds no lock are separate
actions (`Submit`, `Start`, `Register`, `WaitForResult`, `Leave`), so the reader
can run in between. `SubmitTimeout` is Submit's two seconds; doSubmit goes on.
`applyCommand` includes the snapshot that the code takes after it has released
`rsm.mu`. Of what the snapshot contains only `opId` can change in between, when a
Submit takes an id; that Submit could as well have come before the command, so no
outcome is left out. When a server is killed, a Submit whose `doSubmit` has just
ended returns that answer or ErrWrongLeader; all others return ErrWrongLeader.

### KVServer, KVModel, KVRaft

`KVModel` translates the sequential model of the tests: an operation is called,
takes effect once, returns. `KVServer` and `KVRaft` are each related to it by a
refinement mapping (properties `Linearizable` and `LinearizableUnlessMixedUp`). In `KVServer` an operation
takes effect when the server first executes it; the duplicate table says so. In
`KVRaft` it takes effect when it first enters the committed log; entries carry,
as history, the cache as it is if every operation is executed exactly once, and
`ReplicasAgree` compares the servers with it. The history variable `effect`
holds what each clerk's operation has done there.

`KVRaft` takes of the layers below what `RSM` shows: a submitted request enters the
log at any later time or never (`open`), also after its operation has returned.
Submit answers with the result of the entry at its index if that entry has its id,
which need not be its own: see `rsm_result` in section 4. So `Apply` hands a result to
the clerk of the entry, or to a clerk waiting at the same server whose own
request has lost the index to this entry and may have the same id (`Waiting`).
Ids are not counted; `IdAgain` says when two can be equal: the entry comes from
another server, or a restart or an installed snapshot has set the server's count
back. A result of the other kind of operation becomes ErrWrongLeader, as
in `KVServer.Get` and `Put` (`Answered`).

The replicated store is therefore not linearizable: a Put can return OK without
ever being executed. The history variable `mixedUp` records that a clerk was
given another operation's result, and `LinearizableUnlessMixedUp` requires every step
before that to be a step of `KVModel`: the table of replies, retries, snapshots and
restarts break nothing by themselves. `ReplicasAgree` holds without exception. Clients put versions that
a Get can have returned.

### Lock

`Lock` extends `KVServer`; the steps of `Acquire` and `Release` call its clerk
and wait for the result. Clients acquire, release, and start again.

### MapReduce

The coordinator's handlers are atomic, as they hold `c.mu`. A map worker creates
its files (truncating those that are there), then writes them in two steps; a
reduce worker reads the listed files one by one and renames its output into
place. File contents are reduced to the parts written, output to the set of map
tasks that were read whole. `CheckFinished` may find a task that somebody is
still working on only `MaxSlow` times; tasks of crashed workers always time out.

### ShardConfig

A pure algorithm. The loops of `Rebalance` are recursive operators with
the tie-breaking of `analyze`; a refused Join or Leave leaves the groups that
it met before the offending one added or deleted.

### Labrpc, Tester

In `Labrpc` a call is a record that goes through the phases of `ClientEnd.Call` and
`processReq`: `readEndnameInfo` looks the end and the server up once, and what it
found stays with the call, whatever happens to the network meanwhile. The
handler is a goroutine of its own (`handler`), which may never return, and runs
on when the call has been given up. `isServerDead` is asked every 100 ms
(`FindDead`) and once more before the reply is sent on (`Answer`).

`Tester` is what uses and reconfigures this network. A server name has instances,
one per start; each has its own ends and its own Persister (`content[i][n]`), and
`saved(i)` is what the next instance would start with. The operations of
`ServerGrp`, `Clnt` and `Config` are actions of one test thread. Those that take
the network's lock several times are taken apart where another goroutine can
come in between: `ShutdownServer` isolates, deletes and supersedes in three
steps, `StartServer` starts and adds, `ConnectAll` and `Partition` go server by
server. Shutting down stops nothing: handlers of the old instance still run,
save and call. A handler's effect is that its call is in the Persister.

## 3. The runs

| Run | Instance | Distinct states | Shows |
|---|---|---|---|
| `raft_commit` | 3 peers, two leading in turn over 4 terms, 2 entries, one service executing and compacting, one message in flight | 912,000 | leader completeness, log matching, agreement on what is committed, committed entries stay, `matchIndex` is true, saved state is current |
| `raft_messages` | 2 peers, both competing for term 2, compacting, executing and crashing, 2 entries, 2 messages in flight | 763,000 | types, one leader and one vote per term, `ElectionInv`, `matchIndex` is true with overtaken replies, services served in order, indices in the log, snapshots cover the compacted prefix, nothing goes back |
| `rsm` | 2 servers, 2 requests, 3 terms, a restart | 2,381,000 | replicas execute the committed log; OK means executed; no pending entry without waiter |
| `kv_server` | 2 clerks, 2 keys, 2 values, versions to 2 | 74,000 | linearizable; calls return |
| `kvraft` | 2 servers, 2 clerks with 2 operations, 3 requests or restarts | 1,179,000 | replicas agree; linearizable until results are mixed up |
| `lock` | 2 clients, 2 rounds | 16,000 | exclusion, its invariant, progress |
| `map_reduce` | 2 workers, one crashing, 2 late workers, 2 x 2 tasks | 79,000 | no task lost or listed twice, no blocking send, the job ends, crashes cost no output |
| `shard_config` | 12 shards, 4 groups, 4 changes | 62,000 | balance, no needless move |
| `tester` | 2 servers with 2 instances, a client, a call, 3 operations of the test thread | 356,000 | positive replies are durable, dead instances save in vain, links are as marked, calls return |

`raft_catchup`, `rsm_result` and `mr_output` end with a counterexample; see section 4.

Every property of a passing run has a seeded fault that violates it.

**Bounds.** Four terms and two entries are enough for an entry of an old term to
reach a majority and be overwritten by a later leader: without the
commit rule `raft_commit` fails. There one message is in flight, which can be late and
lost but not overtaken, nobody crashes, and the peers lead in turn (`InTurn`). The
rest is in `raft_messages`: two messages in flight let requests and replies overtake
each other and a late vote meet the next election, both peers crash, and `Contested`
lets both be candidates for term 2, one of them after leading term 1. With two peers a
majority is both, so an entry is committed only when everybody has it; overwriting
entries that a minority has is the business of `raft_commit`. For elections the
proofs cover any number of peers. Two
rounds let a Release that was executed be repeated while the other client holds
the lock; messages are lost without limit there and in `kv_server`. Two servers
whose first operations get the same id at the same index are enough for the
reader to confuse them. `KeepReplies = 0` and `KeepInSnapshot = 1` (100 and 10
in the code) make a server forget after one operation what the code forgets
after a hundred. In `kvraft` three requests are an operation submitted twice and
one in between; a restart takes the place of one request. `NShards` is the
code's own.
In `tester` one
call is enough, as calls share nothing but the Persister; three operations are a
shutdown, a restart and one more, or a partition after two other changes of
connections.
The `VIEW`s of `raft_commit` and `raft_messages` leave out variables that no later
step reads and, of the properties, only `TypeOK`, which is proved; the symmetries of the other runs permute requests or clerks
that the configuration treats alike.

**Deadlock** is not checked where a bound ends all behaviours (`Raft`, `RSM`,
`KVRaft`, `Lock`) or the program ends (`MapReduce`, `Tester`).

**Fairness.** `KVServer` and `Lock`: handlers run (weak), and a reply that is sent again and
again is at last not dropped (strong): the network drops each message with
probability 0.1, independently (`labrpc/labrpc.go:248,295`). Lock holders release; nobody has to acquire.
`MapReduce`: workers that are alive go on, sleeps end, main polls `Done`; no
fairness for crashes. `Tester`: the goroutines and timers of the network are
scheduled (weak), and so are handlers, except those that block for good; the
test thread need not do anything. There is no liveness property of RSM or KVRaft.

`RaftProgress`: heartbeats are sent again and again (weak); of each of the four
kinds of replication messages some are delivered if they are in flight again and
again (strong, as above); votes, appliers and services go on (weak); crashes end
with the last term. The conditions are on whole groups of actions, so that, for
instance, only some peer's applier has to go on: weaker than what the scheduler does.
Nothing is assumed about when services compact.

## 4. Where code and documentation disagree

Each is a run that TLC ends with a counterexample.

* `mr_output`: `MapWork` truncates its intermediate files in place. A map worker
  that is still at work after its ten seconds does so when its task is already done
  and a reduce task reads them: the job ends with output missing
  (`mr/worker.go:90`; `mr/coordinator.go:37` and `main/test-mr.sh:323` want it
  complete). As long as no worker is late the output is complete, whoever
  crashes (`OutputInTime` in `map_reduce`).
* `rsm_result`: `applyCommand` compares the pending operation's `Me` with the
  server instead of with the committed operation's `Me`. Ids are counted per
  server, so an old leader's Submit can return OK with the result of another
  leader's request (`kvraft1/rsm/rsm.go:345`; `kvraft1/rsm/README.md:225,250`).
  `KVRaft` models the same comparison: it is the one way in which that store is
  not linearizable within the run's bounds.
* `raft_catchup`: a late reply sets `nextIndex` back, and the follower has meanwhile
  compacted its log. It refuses the leader's request with the first
  index of its log as `ConflictIndex`; the comment at `raft1/raft.go:486` says that
  this makes the leader send a snapshot, and `raft1/README.md:53` that one is sent
  when a follower is behind. The leader sets `nextIndex` to that index, so that
  `PrevLogIndex` is again one too low, and request and refusal repeat for ever. It
  sends a snapshot only if its own log has been compacted as far, which
  depends on its service (`kvraft1/rsm/rsm.go:359` goes by size). A new leader ends
  the loop, too.

More places were met while modelling. No run is about them. An operation
can be applied before `doSubmit` has registered it, and then nobody hands its
result to Submit, which gives up after two seconds (`kvraft1/rsm/rsm.go:223`;
the `rsm` run includes this; Submit then answers ErrWrongLeader, which its callers
must take for "perhaps executed" in any case). `ConnectAll` connects a server that is
down, too (`tester1/group.go:134`), and the ends of its dead instance stay enabled
when the server is started again: its goroutines can still call others.
`LinksAsMarked` speaks only of ends between servers as they are now; what
such an instance saves is in vain all the same (`SavedByCurrent`).

## 5. What is proved

TLAPS proves the following for every value of the constants that satisfies the
assumptions of the modules: a finite group of any size, any bounds, any schedule
of timeouts and crashes; any sets of clients, keys and values, any number of
rounds.

* `RaftProofs!TypeCorrect`: `Spec => []TypeOK`, with one lemma per action. It
  includes that no log is ever without its dummy entry, which every access to
  `rf.logs` relies on. That indices stay within the log is `IndexOrder`,
  which is model-checked only.
* `RaftProofs!ElectionInvariant`, `ElectionIsSafe`, `VotesAreUnique`.
  Election safety is not inductive: it says nothing about votes on their way.
  `ElectionInv` adds that a vote is saved before it is promised and never
  replaced within its term (`VotesPersisted`), that every vote promised or
  counted was given in that very term (`VotesReal`), and that leaders have a
  majority of the votes (`LeadersWon`). Most actions give no vote; they are
  instances of `NoVoteStep`, for which preservation is proved once. What
  remains are `LaunchElection`, `RequestVote`, its reply, and `Restart`. Two
  majorities share a voter, by cardinality of finite sets.
* `LockProofs!LockTypeCorrect`, `LockInvariant`, `LockIsExclusive`. Exclusion
  follows from the key naming whoever holds the lock. To keep this, `LockInv`
  relates the server to everything a client may still act on: a reply that is
  out of date has a lower version (`RepliesTrue`), an outstanding Put carries the
  present version only while the lock is as its Get found it (`ClaimTrue`). There
  is one lemma per action for the client that moves; the others are untouched
  unless a Put succeeds, which takes the lock from nobody
  (`WriteTakesFromNobody`).
* `TesterProofs!TesterTypeCorrect`, `RepliesAreDurable`, `OnlyCurrentSaves`, for
  any servers, clients, calls, restarts and operations. A reply is durable because
  the server is the network's when the reply is sent on. To keep this,
  `DurableInv` follows a call to its handler and from there into the Persister of
  its own instance (`CallInv`), and a server through shutdown: the network knows its
  last instance or none, and a Persister is superseded exactly while the server is
  down and deleted (`ServerInv`). Nearly all steps leave both alone (`QuietStep`,
  `CallFrame`); what remains are steps of a call (`ProcessStep` sums them up), a
  handler's save, and shutdown and restart, which leave `saved` as it is.
* `TesterProofs!LinksCorrect`. During `Partition` the servers that had their
  turn are linked within their side and with nobody of the other (`SidesInv`); no
  end is enabled before its instance exists (`NoFutureEnds`), so a fresh instance
  starts isolated.

* `MapReduceProofs!MapReduceTypeCorrect`, `TasksAreOwned`, `ReduceInputsComplete`,
  `SendsNeverBlock`, for any number of files, reduce tasks, workers and crashes.
  `MapReduceInv` says what the properties only count: a channel holds exactly the
  idle tasks of its type, each once (`ChanInv`); a task in process has one timer,
  and no other task but a completed one has any (`TimerInv`); `interFiles` lists exactly the
  completed map tasks, each once (`ListedInv`); the map phase is over only when all
  map tasks are completed (`PhaseInv`). A queue
  without repetitions is no longer than the number of tasks, so a send finds room.
  `SizesAssumption` requires no more files than `mapChan` has places: with more,
  `MakeCoordinator` itself blocks.
* `RSMProofs!StatesAgree`, `SnapshotsAreTrue`, `OkMeansExecuted`, `PendingIsAwaited`,
  for any servers, terms and restarts and any finite set of requests. `RSMInv` adds
  what `RSM` assumes of Raft and keeps step by step (the latest term has one leader,
  whose log has all that is committed: `LeaderInv`); that a request is in a log once
  and only after its `Start` (`LogInv`), so a log is no longer than there are requests
  and every index it has is one `pendingOps` can hold; and that a channel is told
  `true` only with what is committed at its index (`SubInv`). The proof treats the part
  about logs, state machines and snapshots first, then the calls.

Only model-checked: the log properties of Raft, `OutputInTime` of MapReduce, KVServer's
and KVRaft's refinement, ShardConfig. `ResultMatches`, `OutputComplete` and `CatchUp` are
violated (section 4). Out of the prover's reach: liveness (`CallReturns`, `LockProgress`,
`JobCompletes`), and what the recursive operators of `ShardConfig`
compute for every input.

## 6. What is not modelled

`labgob` (what is decoded is what was encoded); of `labrpc`, dispatch by reflection,
sizes and counts; of `tester1`, more than one group (`ExitGroup`), `MakePartition`,
which draws the sides of a partition, and the annotations; the test drivers
(`kvtest1`, the `test.go` files and `raft1/server.go`, whose checks of
what is applied are properties of `Raft` here); MapReduce applications and
command-line programs; the shard controller, groups and clerk, which are
stubs. `QuickSelect` (`raft1/util.go`) appears in `Raft` as what it selects for the
leader, not as an algorithm. Time is the order of events. In `RSM`, no run shows that an old waiter's
unconditional delete of `pendingOps[index]` can remove a newer registration: it takes
four requests and three terms. In `MapReduce`, workers whose call fails because
the coordinator has exited are not modelled. In `KVServer` and `KVRaft`, clients put
versions that the key has or had: a Put of a nonzero version to a missing key (which
`kvsrv1` answers with ErrNoKey) is outside the runs.

## 7. Plan

Done, in this order: Raft, its types and elections; KV server, lock and its
proofs; MapReduce; RSM; replicated KV; shard configurations; liveness of
replication; the network and the test harness, with proofs; proofs about
MapReduce and RSM.

To do:

1. Proofs: `ReplicasAgree` of KVRaft; that KVServer implements KVModel (initial
   states and steps).
2. Proofs about Raft's log: `IndexOrder` and `SnapshotCoversPrefix`, then
   `LogMatching`.
3. An abstract replicated log that `Raft` implements and that `RSM` and `KVRaft`
   use, in place of the abstraction each has now.
4. Putting versions that were never read (`KVRaft`), and the clerk's
   `leaderIdx` with a liveness property of the clerk.
