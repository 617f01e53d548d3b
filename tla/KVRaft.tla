------------------------------- MODULE KVRaft -------------------------------
(* The replicated key/value servers of kvraft1 and their clerks. Of the    *)
(* layers below, only what module RSM shows is here: requests enter one    *)
(* log, late or never; every server executes it in order, from a snapshot  *)
(* on after a restart; Submit answers with the result of the entry at its  *)
(* index if that has its id, be it its own or not, or with ErrWrongLeader, *)
(* whether or not its entry is executed.                                   *)
EXTENDS Integers, Sequences, FiniteSets

CONSTANTS
    Server,
    Client,          \* the clerks
    Key,
    Value,
    NoValue,
    KeepReplies,     \* how far below MaxSeqNum replies are kept, 100 in the code
    Compacting,      \* the servers whose Raft state can grow beyond maxraftstate
    KeepInSnapshot,  \* the number of replies in a snapshot, 10 in the code
    MaxOps,          \* bound: operations of a clerk
    MaxEvents        \* bound: requests that all the clerks send, and restarts

ASSUME KeepAssumption == KeepReplies \in Nat /\ KeepInSnapshot \in Nat \ {0}
ASSUME RunAssumption ==
    /\ MaxOps \in Nat /\ MaxEvents \in Nat
    /\ NoValue \notin Value /\ Compacting \subseteq Server

VARIABLES
    clerk,           \* clerk[c]: its operation in progress
    result,          \* result[c]: what its last operation returned
    open,            \* the submitted requests that can still enter the log
    log,             \* the committed log, with the history that StateAt explains
    server,          \* server[i]: cache, clientMap, lastApplied
    snapshot,        \* snapshot[i]: what server i has saved
    lost,            \* how many requests have lost their index in the log, and
    restarts,        \* how many restarts there were: both count towards MaxEvents
    effect,          \* effect[c]: history, c's operation until the log has it,
                     \* then what it did there
    mixedUp          \* history: a clerk has been given another operation's result

vars == <<clerk, result, open, log, server, snapshot, lost, restarts, effect, mixedUp>>

NoReply == [op |-> "none"]

WithinBound == Len(log) + Cardinality(open) + lost + restarts < MaxEvents

(* phase idle; send: about to call a server; wait: for its answer; got: an *)
(* answer is on its way.                                                   *)
NewClerk == [phase |-> "idle", seqNum |-> 0, attempt |-> 0, retried |-> FALSE]

(* clientMap[c].Replies is a set of numbered replies. *)
NewState ==
    [cache |-> [k \in Key |-> [value |-> NoValue, version |-> 0]],
     clientMap |-> [c \in Client |-> [Replies |-> {}, MaxSeqNum |-> 0]],
     lastApplied |-> 0]

Init ==
    /\ clerk = [c \in Client |-> NewClerk]
    /\ result = [c \in Client |-> NoReply]
    /\ open = {}
    /\ log = <<>>
    /\ server = [i \in Server |-> NewState]
    /\ snapshot = [i \in Server |-> NewState]
    /\ lost = 0
    /\ restarts = 0
    /\ effect = [c \in Client |-> NoReply]
    /\ mixedUp = FALSE

-----------------------------------------------------------------------------
(* The state machine.                                                      *)

(* What Get and Put answer, and what they leave in the cache. *)
Execute(cache, args) ==
    LET pair == cache[args.key]
    IN  IF args.op = "Get"
        THEN [cache |-> cache,
              reply |-> [op |-> "Get", err |-> IF pair.version = 0 THEN "ErrNoKey" ELSE "OK",
                         value |-> pair.value, version |-> pair.version]]
        ELSE IF pair.version = args.version
        THEN [cache |-> [cache EXCEPT ![args.key] =
                           [value |-> args.value, version |-> pair.version + 1]],
              reply |-> [op |-> "Put", err |-> "OK"]]
        ELSE [cache |-> cache, reply |-> [op |-> "Put", err |-> "ErrVersion"]]

Cached(state, req) ==
    {r \in state.clientMap[req.client].Replies : r.seqNum = req.seqNum}

(* The reply is kept, and old ones are dropped when MaxSeqNum grows. *)
Keep(dup, seqNum, reply) ==
    LET replies == dup.Replies \cup {[seqNum |-> seqNum, reply |-> reply]}
    IN  IF seqNum > dup.MaxSeqNum
        THEN [Replies |-> {r \in replies : r.seqNum >= seqNum - KeepReplies},
              MaxSeqNum |-> seqNum]
        ELSE [Replies |-> replies, MaxSeqNum |-> dup.MaxSeqNum]

(* Seeded fault: the version of a Put is not compared. *)
DoOpAnyVersion(state, req) ==
    LET args == req.args
        done == IF args.op = "Get" THEN Execute(state.cache, args)
                ELSE Execute(state.cache, [args EXCEPT !.version = state.cache[args.key].version])
    IN  [state |-> [state EXCEPT !.cache = done.cache, !.lastApplied = @ + 1,
                                 !.clientMap[req.client] = Keep(@, req.seqNum, done.reply)],
         reply |-> done.reply]

(* DoOp: a request whose reply is kept is not executed again. *)
DoOp(state, req) ==
    LET cached == Cached(state, req)
        done == Execute(state.cache, req.args)
    IN  IF cached # {}
        THEN [state |-> [state EXCEPT !.lastApplied = @ + 1],
              reply |-> (CHOOSE r \in cached : TRUE).reply]
        ELSE [state |-> [state EXCEPT !.cache = done.cache, !.lastApplied = @ + 1,
                                      !.clientMap[req.client] = Keep(@, req.seqNum, done.reply)],
              reply |-> done.reply]

(* Seeded fault: a snapshot leaves out the replies. *)
SnapshotNoReplies(state) ==
    [state EXCEPT !.clientMap = [c \in Client |-> [state.clientMap[c] EXCEPT !.Replies = {}]]]

(* Snapshot: the last replies of every client. *)
Snapshot(state) ==
    [state EXCEPT !.clientMap = [c \in Client |->
        [state.clientMap[c] EXCEPT !.Replies =
            {r \in @ : r.seqNum > state.clientMap[c].MaxSeqNum - KeepInSnapshot}]]]

-----------------------------------------------------------------------------
(* The clerk.                                                              *)

Invoke(c, args) ==
    /\ clerk[c].phase = "idle"
    /\ clerk[c].seqNum < MaxOps
    /\ WithinBound
    /\ clerk' = [clerk EXCEPT ![c] = [phase |-> "send", seqNum |-> clerk[c].seqNum + 1,
                                      attempt |-> 0, retried |-> FALSE, args |-> args]]
    /\ result' = [result EXCEPT ![c] = NoReply]
    /\ effect' = [effect EXCEPT ![c] = args]
    /\ UNCHANGED <<open, log, server, snapshot, lost, restarts, mixedUp>>

Get(c, k) == Invoke(c, [op |-> "Get", key |-> k])

Put(c, k, v, version) ==
    Invoke(c, [op |-> "Put", key |-> k, value |-> v, version |-> version])

(* What the call of clerk c to server i submits, which no other call does. *)
Request(c, i, attempt) ==
    [client |-> c, seqNum |-> clerk[c].seqNum, args |-> clerk[c].args, server |-> i,
     attempt |-> attempt]

(* The clerk calls server i, and KVServer.Get or Put submits the request. *)
Send(c, i) ==
    /\ clerk[c].phase = "send"
    /\ WithinBound
    /\ clerk' = [clerk EXCEPT ![c] =
                   [phase |-> "wait", seqNum |-> @.seqNum, attempt |-> @.attempt + 1,
                    retried |-> @.retried, args |-> @.args, server |-> i]]
    /\ open' = open \cup {Request(c, i, clerk[c].attempt + 1)}
    /\ UNCHANGED <<result, log, server, snapshot, lost, restarts, effect, mixedUp>>

(* Only Put remembers that a call has failed. *)
SendAgain(c, failed) ==
    [phase |-> "send", seqNum |-> clerk[c].seqNum, attempt |-> clerk[c].attempt,
     args |-> clerk[c].args,
     retried |-> clerk[c].retried \/ (failed /\ clerk[c].args.op = "Put")]

(* The server answers ErrWrongLeader: it is not the leader, or Submit gave *)
(* up. The clerk tries the next server.                                    *)
WrongLeader(c) ==
    /\ clerk[c].phase = "wait"
    /\ clerk' = [clerk EXCEPT ![c] = SendAgain(c, FALSE)]
    /\ UNCHANGED <<result, open, log, server, snapshot, lost, restarts, effect, mixedUp>>

(* The call fails: request or answer are lost, or the server is gone. *)
Lost(c) ==
    /\ clerk[c].phase \in {"wait", "got"}
    /\ clerk' = [clerk EXCEPT ![c] = SendAgain(c, TRUE)]
    /\ UNCHANGED <<result, open, log, server, snapshot, lost, restarts, effect, mixedUp>>

(* An answer ends the loop. *)
Return(c) ==
    /\ clerk[c].phase = "got"
    /\ clerk' = [clerk EXCEPT ![c] = [NewClerk EXCEPT !.seqNum = clerk[c].seqNum]]
    /\ result' = [result EXCEPT ![c] =
         IF clerk[c].reply.err = "ErrVersion" /\ clerk[c].retried
         THEN [op |-> "Put", err |-> "ErrMaybe"] ELSE clerk[c].reply]
    /\ effect' = [effect EXCEPT ![c] = NoReply]
    /\ UNCHANGED <<open, log, server, snapshot, lost, restarts, mixedUp>>

-----------------------------------------------------------------------------
(* The servers.                                                            *)

(* The cache after the first n requests of the log if every operation is   *)
(* executed when it comes first, and never again: a history of the log.    *)
StateAt(n) == IF n = 0 THEN NewState.cache ELSE log[n].cache

(* The entries of the log for operation seqNum of client c. *)
Entries(c, seqNum) == {n \in DOMAIN log : log[n].req.client = c /\ log[n].req.seqNum = seqNum}

(* What an operation with this reply did to the store: a refused Put has   *)
(* nothing to show before it returns.                                      *)
Effect(args, reply) ==
    IF reply.err = "ErrVersion" THEN args
    ELSE IF reply.op = "Put" THEN [op |-> "PutDone"]
    ELSE [op |-> "GetDone", out |-> [value |-> reply.value, version |-> reply.version]]

(* A submitted request is committed. *)
Commit(req) ==
    /\ open' = open \ {req}
    /\ LET earlier == Entries(req.client, req.seqNum)
           done == Execute(StateAt(Len(log)), req.args)
       IN  \/ /\ earlier = {}
              /\ log' = Append(log, [req |-> req, cache |-> done.cache])
              /\ effect' = [effect EXCEPT ![req.client] = Effect(req.args, done.reply)]
           \/ /\ earlier # {}
              /\ log' = Append(log, [req |-> req, cache |-> StateAt(Len(log))])
              /\ UNCHANGED effect
    /\ UNCHANGED <<clerk, result, server, snapshot, lost, restarts, mixedUp>>

(* KVServer.Get and Put pass a result on unless it is of the other kind    *)
(* of operation: then they answer ErrWrongLeader.                          *)
Answered(c, reply) ==
    IF reply.op = clerk[c].args.op
    THEN [phase |-> "got", seqNum |-> clerk[c].seqNum, attempt |-> clerk[c].attempt,
          retried |-> clerk[c].retried, args |-> clerk[c].args, reply |-> reply]
    ELSE SendAgain(c, FALSE)

(* The entry req can have the id of a later request of server i: servers   *)
(* count for themselves, and a restart or an installed snapshot, which     *)
(* server i saves, sets the count back.                                    *)
IdAgain(i, req) == req.server # i \/ restarts > 0 \/ snapshot[i].lastApplied > 0

(* Whom server i can answer with the entry req: the clerk of the entry, or *)
(* else one whose entry has lost the index to this one, so that it is not  *)
(* committed, and whose request has the same id: the reader compares no    *)
(* more, since the Me it looks at is that of the waiting Submit.           *)
Waiting(i, req) ==
    LET waits == {c \in Client : clerk[c].phase = "wait" /\ clerk[c].server = i}
        Its(c) == Request(c, i, clerk[c].attempt)
        own == {c \in waits : Its(c) = req}
        others == {c \in waits : Its(c) \in open /\ IdAgain(i, req)}
    IN  IF own # {} THEN {own} ELSE {{}} \cup {{c} : c \in others}

(* Server i executes the next request of the log, answers the clerk whose  *)
(* call is waiting at its index, and may take a snapshot.                  *)
Apply(i, shouldSnapshot) ==
    /\ shouldSnapshot => i \in Compacting
    /\ server[i].lastApplied < Len(log)
    /\ LET req == log[server[i].lastApplied + 1].req
           done == DoOp(server[i], req)
       IN  /\ server' = [server EXCEPT ![i] = done.state]
           /\ snapshot' = IF shouldSnapshot
                          THEN [snapshot EXCEPT ![i] = Snapshot(done.state)] ELSE snapshot
           /\ \E told \in Waiting(i, req) :
                /\ clerk' = [c \in Client |->
                               IF c \in told THEN Answered(c, done.reply) ELSE clerk[c]]
                /\ open' = open \ {Request(c, i, clerk[c].attempt) : c \in told}
                /\ lost' = lost + Cardinality(open) - Cardinality(open')
                /\ mixedUp' = (mixedUp \/ \E c \in told :
                                /\ <<c, clerk[c].seqNum>> # <<req.client, req.seqNum>>
                                /\ clerk'[c].phase = "got")
    /\ UNCHANGED <<result, log, restarts, effect>>

(* Server i restores a snapshot that Raft got from server j. *)
Install(i, j) ==
    /\ snapshot[j].lastApplied > server[i].lastApplied
    /\ server' = [server EXCEPT ![i] = snapshot[j]]
    /\ snapshot' = [snapshot EXCEPT ![i] = snapshot[j]]
    /\ UNCHANGED <<clerk, result, open, log, lost, restarts, effect, mixedUp>>

(* Kill, and StartKVServer with the saved snapshot; the calls that server  *)
(* i was working on have failed.                                           *)
Restart(i) ==
    /\ WithinBound
    /\ \A c \in Client : clerk[c].phase = "wait" => clerk[c].server # i
    /\ restarts' = restarts + 1
    /\ server' = [server EXCEPT ![i] = snapshot[i]]
    /\ UNCHANGED <<clerk, result, open, log, snapshot, lost, effect, mixedUp>>

-----------------------------------------------------------------------------
(* A client puts a version that a Get can have returned. *)
Next ==
    \/ \E c \in Client :
         \/ \E k \in Key : Get(c, k)
         \/ \E k \in Key, v \in Value :
              \E version \in 0 .. StateAt(Len(log))[k].version : Put(c, k, v, version)
         \/ \E i \in Server : Send(c, i)
         \/ WrongLeader(c)
         \/ Lost(c)
         \/ Return(c)
    \/ \E req \in open : Commit(req)
    \/ \E i \in Server :
         \/ \E shouldSnapshot \in BOOLEAN : Apply(i, shouldSnapshot)
         \/ \E j \in Server : Install(i, j)
         \/ Restart(i)

Spec == Init /\ [][Next]_vars

-----------------------------------------------------------------------------
(* Properties.                                                             *)

(* DoOp, its table of replies, Snapshot and Restore: every server has      *)
(* executed every operation once, however often it is in the log and       *)
(* whichever replies the server has dropped or got with a snapshot.        *)
ReplicasAgree == \A i \in Server : server[i].cache = StateAt(server[i].lastApplied)

Abstract == INSTANCE KVModel WITH
    MaxVersion <- MaxOps * Cardinality(Client),
    store <- StateAt(Len(log)),
    returned <- result,
    pending <- effect

(* KVServer and Clerk of kvraft1: until a clerk is given the result of     *)
(* another operation, an operation takes effect once, between its call and *)
(* its return, however often it is submitted, and its return tells what    *)
(* happened: ErrVersion never hides a Put that was performed.              *)
LinearizableUnlessMixedUp ==
    /\ Abstract!Init
    /\ [][Abstract!Next \/ mixedUp']_<<StateAt(Len(log)), result, effect>>
=============================================================================
