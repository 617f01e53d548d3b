------------------------------- MODULE Tester -------------------------------
(* The test harness over the simulated network (tester1/): a group of       *)
(* servers that the test thread shuts down, restarts, disconnects and       *)
(* partitions, each instance with its own ends and its own Persister, and   *)
(* clients that make their ends as they need them. Calls, handlers and the  *)
(* network run meanwhile; a handler goes on after its instance was shut     *)
(* down, for Kill only tells the services to stop.                          *)
EXTENDS Labrpc, FiniteSets

CONSTANTS
    Client,
    MaxOps           \* bound: the operations of the test thread

ASSUME TesterAssumption ==
    /\ Holder = Server \cup Client /\ Server \cap Client = {} /\ Server # {}
    /\ MaxOps \in Nat

VARIABLES
    instance,        \* sg.srvs[i], by number: its ends are those of this set
    up,              \* svcs # nil
    connected,       \* sg.connected
    content,         \* content[i][n]: what the Persister of the n-th instance holds
    copy,            \* copy[i]: the content of the Persister shutdownServer made
    copied,          \* srvs[i].saved is that one
    clnt,            \* clnt[k]: srvs, the servers the client may connect to, those
                     \* it has ends for, and whether it was removed
    test,            \* where the test thread is
    ops              \* counts towards MaxOps

testVars == <<instance, up, connected, content, copy, copied, clnt, test, ops>>
vars == <<netVars, testVars>>

(* What a handler saves is told apart by the call that made it save. *)
Persisted == SUBSET Call

(* The test thread is between two operations, or has more to do: delete    *)
(* the server from the network, supersede its Persister, add the restarted *)
(* one, connect the servers of todo, partition those of todo.              *)
Ready == [op |-> "ready"]
Over == [op |-> "over"]
Operation ==
    {Ready, Over} \cup [op : {"delete", "supersede", "add"}, srv : Server]
            \cup [op : {"connect"}, todo : SUBSET Server]
            \cup [op : {"partition"}, p1 : SUBSET Server, todo : SUBSET Server]

(* The variables have the values the code gives them, and dispatch runs on  *)
(* a server: processReq starts no handler for a name that has none.         *)
TesterTypeOK ==
    /\ NetTypeOK
    /\ \A c \in Call : handler[c] # "none" => call[c].server \in Instance
    /\ instance \in [Server -> Instance] /\ up \in [Server -> BOOLEAN]
    /\ connected \in [Server -> BOOLEAN]
    /\ content \in [Server -> [Instance -> Persisted]]
    /\ copy \in [Server -> Persisted] /\ copied \in [Server -> BOOLEAN]
    /\ clnt \in [Client -> [srvs : SUBSET Server, ends : SUBSET Server, removed : BOOLEAN]]
    /\ test \in Operation /\ ops \in 0 .. MaxOps

EndsOf(i, n) == {<<i, n, j>> : j \in Server}
endNames(i, j) == <<i, instance[i], j>>

(* srvs[i].saved: what the running instance saves, or what the next starts *)
(* with.                                                                   *)
saved(i) == IF copied[i] THEN copy[i] ELSE content[i][instance[i]]

(* MakeConfig: the network, a group whose servers are started and          *)
(* connected, no client ends.                                              *)
Init ==
    /\ reliable \in BOOLEAN /\ longReordering = FALSE
    /\ ends = UNION {EndsOf(i, 1) : i \in Server}
    /\ enabled = UNION {EndsOf(i, 1) : i \in Server}
    /\ servers = [i \in Server |-> 1]
    /\ done = FALSE /\ listening = TRUE
    /\ call = [c \in Call |-> Idle]
    /\ handler = [c \in Call |-> "none"]
    /\ instance = [i \in Server |-> 1]
    /\ up = [i \in Server |-> TRUE]
    /\ connected = [i \in Server |-> TRUE]
    /\ content = [i \in Server |-> [n \in Instance |-> {}]]
    /\ copy = [i \in Server |-> {}] /\ copied = [i \in Server |-> FALSE]
    /\ clnt = [k \in Client |-> [srvs |-> Server, ends |-> {}, removed |-> FALSE]]
    /\ test = Ready /\ ops = 0

-----------------------------------------------------------------------------
(* Connections.                                                            *)

(* Server.connect and Server.disconnect: the ends of i to other servers that *)
(* are enabled and disabled.                                               *)
connectOut(i, to) == {endNames(i, j) : j \in {j \in to : j = i \/ connected[j]}}
disconnectOut(i, from) == {endNames(i, j) : j \in from}

(* Seeded fault: connect leaves the incoming ends out. *)
connectOutgoing(i, to, on) ==
    /\ connected' = [connected EXCEPT ![i] = TRUE]
    /\ enabled' = on \cup connectOut(i, to)

(* connect marks i as connected, then enables its ends to the connected     *)
(* servers of to, and theirs to i.                                         *)
connect(i, to, on) ==
    /\ connected' = [connected EXCEPT ![i] = TRUE]
    /\ enabled' = on \cup connectOut(i, to)
                     \cup {endNames(j, i) : j \in {j \in to : connected'[j]}}

(* What disconnect leaves enabled. *)
disconnectEnds(i, from) ==
    enabled \ (disconnectOut(i, from) \cup {endNames(j, i) : j \in from})

(* The test thread begins an operation. *)
Begin(next) == test = Ready /\ ops < MaxOps /\ test' = next /\ ops' = ops + 1

DisconnectAll(i) ==
    /\ Begin(Ready)
    /\ connected' = [connected EXCEPT ![i] = FALSE]
    /\ enabled' = disconnectEnds(i, Server)
    /\ UNCHANGED <<reliable, longReordering, ends, servers, done, listening, call, handler>>
    /\ UNCHANGED <<instance, up, content, copy, copied, clnt>>

ConnectOne(i) ==
    /\ Begin(Ready)
    /\ connect(i, Server, enabled)
    /\ UNCHANGED <<reliable, longReordering, ends, servers, done, listening, call, handler>>
    /\ UNCHANGED <<instance, up, content, copy, copied, clnt>>

(* ConnectAll, and a turn of its loop. A server that is down is connected   *)
(* too: its last instance still has its ends.                              *)
ConnectAll ==
    /\ Begin([op |-> "connect", todo |-> Server])
    /\ UNCHANGED <<netVars, instance, up, connected, content, copy, copied, clnt>>

ConnectNext(i) ==
    /\ test.op = "connect" /\ i \in test.todo
    /\ connect(i, Server, enabled)
    /\ test' = IF test.todo = {i} THEN Ready ELSE [test EXCEPT !.todo = @ \ {i}]
    /\ UNCHANGED <<reliable, longReordering, ends, servers, done, listening, call, handler>>
    /\ UNCHANGED <<instance, up, content, copy, copied, clnt, ops>>

(* Partition(p1, p2), called by the Partitioner while all servers run, and *)
(* a turn of one of its loops: the servers of p1 come before those of p2.  *)
Partition(p1) ==
    /\ \A i \in Server : up[i]
    /\ Begin([op |-> "partition", p1 |-> p1, todo |-> Server])
    /\ UNCHANGED <<netVars, instance, up, connected, content, copy, copied, clnt>>

PartitionNext(i) ==
    LET mine == IF i \in test.p1 THEN test.p1 ELSE Server \ test.p1
    IN  /\ test.op = "partition" /\ i \in test.todo
        /\ i \notin test.p1 => test.todo \cap test.p1 = {}
        /\ connect(i, mine, disconnectEnds(i, Server \ mine))
        /\ test' = [test EXCEPT !.todo = @ \ {i}]
        /\ UNCHANGED <<reliable, longReordering, ends, servers, done, listening, call, handler>>
        /\ UNCHANGED <<instance, up, content, copy, copied, clnt, ops>>

PartitionReturns ==
    /\ test.op = "partition" /\ test.todo = {}
    /\ test' = Ready
    /\ UNCHANGED <<netVars, instance, up, connected, content, copy, copied, clnt, ops>>

-----------------------------------------------------------------------------
(* Shutting a server down and starting it again.                           *)

(* ShutdownServer isolates the server, then deletes it from the network,   *)
(* and only then supersedes the Persister it saves to and kills it.        *)
ShutdownServer(i) ==
    /\ Begin([op |-> "delete", srv |-> i])
    /\ connected' = [connected EXCEPT ![i] = FALSE]
    /\ enabled' = disconnectEnds(i, Server)
    /\ UNCHANGED <<reliable, longReordering, ends, servers, done, listening, call, handler>>
    /\ UNCHANGED <<instance, up, content, copy, copied, clnt>>

DeleteServer ==
    /\ test.op = "delete"
    /\ servers' = [servers EXCEPT ![test.srv] = NoInstance]
    /\ test' = [test EXCEPT !.op = "supersede"]
    /\ UNCHANGED <<reliable, longReordering, ends, enabled, done, listening, call, handler>>
    /\ UNCHANGED <<instance, up, connected, content, copy, copied, clnt, ops>>

(* Seeded fault: the Persister is not superseded. *)
shutdownServerKeeps ==
    /\ test.op = "supersede"
    /\ up' = [up EXCEPT ![test.srv] = FALSE]
    /\ test' = Ready
    /\ UNCHANGED <<netVars, instance, connected, content, copy, copied, clnt, ops>>

shutdownServer ==
    LET i == test.srv IN
    /\ test.op = "supersede"
    /\ copy' = [copy EXCEPT ![i] = saved(i)]
    /\ copied' = [copied EXCEPT ![i] = TRUE]
    /\ up' = [up EXCEPT ![i] = FALSE]
    /\ test' = Ready
    /\ UNCHANGED <<netVars, instance, connected, content, clnt, ops>>

(* startServer makes the n-th instance: fresh ends, and a fresh Persister  *)
(* with a copy of what was saved.                                          *)
startServer(i, n) ==
    /\ instance' = [instance EXCEPT ![i] = n]
    /\ ends' = ends \cup EndsOf(i, n)
    /\ content' = [content EXCEPT ![i][n] = saved(i)]
    /\ copied' = [copied EXCEPT ![i] = FALSE]

(* StartServer starts the services of a server that was shut down;         *)
(* AddServer makes it reachable. The tests connect all servers after that, *)
(* or go on.                                                               *)
StartServer(i) ==
    /\ ~up[i] /\ instance[i] + 1 \in Instance
    /\ Begin([op |-> "add", srv |-> i])
    /\ startServer(i, instance[i] + 1)
    /\ up' = [up EXCEPT ![i] = TRUE]
    /\ UNCHANGED <<reliable, longReordering, enabled, servers, done, listening, call, handler>>
    /\ UNCHANGED <<connected, copy, clnt>>

AddServer ==
    /\ test.op = "add"
    /\ servers' = [servers EXCEPT ![test.srv] = instance[test.srv]]
    /\ test' \in {Ready, [op |-> "connect", todo |-> Server]}
    /\ UNCHANGED <<reliable, longReordering, ends, enabled, done, listening, call, handler>>
    /\ UNCHANGED <<instance, up, connected, content, copy, copied, clnt, ops>>

-----------------------------------------------------------------------------
(* Calls and handlers.                                                     *)

(* An instance calls another server, a shut-down one as long as its        *)
(* goroutines run.                                                         *)
ServerCall(c, i, n, j) ==
    /\ i # j /\ n <= instance[i]
    /\ CallEnd(c, <<i, n, j>>)
    /\ UNCHANGED <<settings, listening, handler, testVars>>

(* A client makes its end to a server when it first needs it, enabled if    *)
(* the server is allowed.                                                  *)
allowedL(k, j) == j \in clnt[k].srvs

makeEnd(k, j) ==
    LET made == IF j \in clnt[k].ends THEN {} ELSE {<<k, 1, j>>}
    IN  /\ clnt' = [clnt EXCEPT ![k].ends = @ \cup {j}]
        /\ ends' = ends \cup made
        /\ enabled' = IF allowedL(k, j) THEN enabled \cup made ELSE enabled

ClntCall(c, k, j) ==
    /\ makeEnd(k, j)
    /\ CallEnd(c, <<k, 1, j>>)
    /\ UNCHANGED <<reliable, longReordering, servers, done, listening, handler>>
    /\ UNCHANGED <<instance, up, connected, content, copy, copied, test, ops>>

(* A handler saves to the Persister of its own instance, and returns. *)
Handle(c) ==
    /\ HandlerReturns(c)
    /\ content' = [content EXCEPT ![Target(c)][call[c].server] = @ \cup {c}]
    /\ UNCHANGED <<instance, up, connected, copy, copied, clnt, test, ops>>

-----------------------------------------------------------------------------
(* Clients and settings.                                                   *)

ClntEnds(k, to) == {<<k, 1, j>> : j \in clnt[k].ends \cap to}

ConnectTo(k, to) ==
    /\ Begin(Ready)
    /\ clnt' = [clnt EXCEPT ![k].srvs = to]
    /\ enabled' = enabled \cup ClntEnds(k, to)
    /\ UNCHANGED <<reliable, longReordering, ends, servers, done, listening, call, handler>>
    /\ UNCHANGED <<instance, up, connected, content, copy, copied>>

ClntConnectAll(k) == ConnectTo(k, Server)

Disconnect(k, j) ==
    /\ Begin(Ready)
    /\ enabled' = enabled \ ClntEnds(k, {j})
    /\ UNCHANGED <<reliable, longReordering, ends, servers, done, listening, call, handler>>
    /\ UNCHANGED <<instance, up, connected, content, copy, copied, clnt>>

DisconnectClnt(k) ==
    /\ Begin(Ready)
    /\ clnt' = [clnt EXCEPT ![k].srvs = {}]
    /\ enabled' = enabled \ ClntEnds(k, Server)
    /\ UNCHANGED <<reliable, longReordering, ends, servers, done, listening, call, handler>>
    /\ UNCHANGED <<instance, up, connected, content, copy, copied>>

(* The ends remove deletes. *)
remove(k) == ClntEnds(k, Server)

DeleteClient(k) ==
    /\ Begin(Ready) /\ ~clnt[k].removed
    /\ clnt' = [clnt EXCEPT ![k].removed = TRUE]
    /\ ends' = ends \ remove(k) /\ enabled' = enabled \ remove(k)
    /\ UNCHANGED <<reliable, longReordering, servers, done, listening, call, handler>>
    /\ UNCHANGED <<instance, up, connected, content, copy, copied>>

SetReliable ==
    /\ Begin(Ready)
    /\ reliable' = ~reliable
    /\ UNCHANGED <<longReordering, ends, enabled, servers, done, listening, call, handler>>
    /\ UNCHANGED <<instance, up, connected, content, copy, copied, clnt>>

SetLongReordering ==
    /\ Begin(Ready)
    /\ longReordering' = ~longReordering
    /\ UNCHANGED <<reliable, ends, enabled, servers, done, listening, call, handler>>
    /\ UNCHANGED <<instance, up, connected, content, copy, copied, clnt>>

(* Config.Cleanup: the clients' ends go, the network closes done. *)
Cleanup ==
    LET mine == UNION {remove(k) : k \in {k \in Client : ~clnt[k].removed}} IN
    /\ test = Ready /\ test' = Over
    /\ ends' = ends \ mine /\ enabled' = enabled \ mine
    /\ done' = TRUE
    /\ UNCHANGED <<reliable, longReordering, servers, listening, call, handler>>
    /\ UNCHANGED <<instance, up, connected, content, copy, copied, clnt, ops>>

-----------------------------------------------------------------------------
Next ==
    \/ \E c \in Call : Process(c) /\ UNCHANGED testVars
    \/ StopListening /\ UNCHANGED testVars
    \/ \E c \in Call : Handle(c)
    \/ \E c \in Call, i, j \in Server, n \in Instance : ServerCall(c, i, n, j)
    \/ \E c \in Call, k \in Client, j \in Server : ClntCall(c, k, j)
    \/ \E i \in Server : DisconnectAll(i) \/ ConnectOne(i) \/ ConnectNext(i) \/ PartitionNext(i)
    \/ \E p1 \in SUBSET Server : Partition(p1)
    \/ PartitionReturns \/ ConnectAll
    \/ \E i \in Server : ShutdownServer(i) \/ StartServer(i)
    \/ DeleteServer \/ shutdownServer \/ AddServer
    \/ \E k \in Client, to \in SUBSET Server : ConnectTo(k, to)
    \/ \E k \in Client, j \in Server : Disconnect(k, j)
    \/ \E k \in Client : ClntConnectAll(k) \/ DisconnectClnt(k) \/ DeleteClient(k)
    \/ SetReliable \/ SetLongReordering \/ Cleanup

(* Goroutines and timers of the network are scheduled; so is a handler,    *)
(* unless it blocks for good.                                              *)
Fairness ==
    /\ \A c \in Call : WF_vars(Process(c) /\ UNCHANGED testVars)
    /\ \A c \in Call : WF_vars(Handle(c))

Spec == Init /\ [][Next]_vars /\ Fairness

-----------------------------------------------------------------------------
(* A call that returned true has done what it did for good: what its        *)
(* handler saved is what the server runs with, or will be restarted with.   *)
(* processReq asks for the server again after the handler and               *)
(* ShutdownServer deletes it before it copies the Persister, for this.      *)
ReplyDurable ==
    \A c \in Call : call[c].pc \in {"reply", "true"} => c \in saved(Target(c))

(* What a server will restart with changes only when a handler of its       *)
(* current, running instance saves: the goroutines of an instance that was  *)
(* shut down save to a Persister nobody reads (shutdownServer, startServer).*)
SavedByCurrent ==
    [][\A i \in Server : saved(i)' # saved(i) =>
          \E c \in Call : /\ up[i] /\ Target(c) = i /\ call[c].server = instance[i]
                          /\ handler[c] = "running" /\ handler'[c] = "done"]_vars

(* connect and disconnect, in whatever order they were called before: once  *)
(* Partition is through, servers are connected if they are of one side and  *)
(* not if not, for its calls undo nothing of one another; and a server that *)
(* is marked as disconnected has no end enabled between it and a server, as *)
(* both are now. Ends of clients, and ends of instances that were shut      *)
(* down, which ConnectAll enables too, are not spoken of.                   *)
LinksAsMarked ==
    /\ test.op = "partition" /\ test.todo = {} =>
         \A i, j \in Server :
             endNames(i, j) \in enabled <=> (i \in test.p1 <=> j \in test.p1)
    /\ \A i, j \in Server :
         ~connected[i] => endNames(i, j) \notin enabled /\ endNames(j, i) \notin enabled

(* Every call returns, as the network promises, except one whose handler    *)
(* never does; that one returns once its server has been deleted.           *)
CallReturns ==
    \A c \in Call :
        /\ call[c].pc # "idle" ~> Returned(c) \/ handler[c] = "stuck"
        /\ (handler[c] = "stuck" /\ servers[Target(c)] # call[c].server) ~> Returned(c)
=============================================================================
