---------------------------- MODULE TesterProofs ----------------------------
(* Proofs about the test harness and the simulated network (tester1,       *)
(* labrpc) for any servers, clients and calls, any number of restarts and  *)
(* any schedule of the test thread: types, what a positive reply promises, *)
(* who may change what a server restarts with, and which links a partition *)
(* leaves (labrpc/labrpc.go, tester1/group.go, tester1/srv.go).            *)
EXTENDS Tester, TLAPS

(* The provers to try, with their time limits. *)
USE ZenonT(1), SMT, Zenon, SMTT(30), ZenonT(30)

(* Before its handler is started a call has none, the server it runs on     *)
(* was there when processReq looked, no instance is newer than the last     *)
(* one, and what a handler did is in the Persister of its own instance.     *)
CallInv ==
    \A c \in Call :
        /\ call[c].pc \in {"idle", "send", "read", "refused", "accepted"} => handler[c] = "none"
        /\ call[c].pc = "accepted" \/ handler[c] # "none" => call[c].server \in Instance
        /\ call[c].server <= instance[Target(c)]
        /\ call[c].pc \in {"answer", "reply", "true"} => handler[c] = "done"
        /\ handler[c] = "done" => c \in content[Target(c)][call[c].server]

(* The network knows the last instance of a server or none; the Persister   *)
(* of a server is superseded while the server is down, and only then; and   *)
(* it is deleted before that.                                               *)
ServerInv ==
    /\ \A i \in Server : /\ servers[i] \in {NoInstance, instance[i]}
                         /\ up[i] <=> ~copied[i]
                         /\ ~up[i] => servers[i] = NoInstance
    /\ test.op = "supersede" => servers[test.srv] = NoInstance
    /\ test.op = "add" => up[test.srv]

DurableInv == TesterTypeOK /\ CallInv /\ ServerInv /\ ReplyDurable

-----------------------------------------------------------------------------
(* Types.                                                                  *)

(* The names of all ends the harness makes are names of ends. *)
LEMMA EndNames ==
    /\ 1 \in Instance /\ Instance \subseteq Nat /\ NoInstance \in Nat /\ NoInstance \notin Instance
    /\ \A i, j \in Server, n \in Instance : <<i, n, j>> \in End
    /\ \A k \in Client, j \in Server : <<k, 1, j>> \in End
BY InstanceAssumption, TesterAssumption DEF Instance, End, NoInstance

(* An end has a server it is connected to (Connect). *)
LEMMA TargetType ==
    ASSUME TesterTypeOK, NEW c \in Call
    PROVE  Target(c) \in Server
BY DEF TesterTypeOK, NetTypeOK, CallRecord, End, Target

(* What MakeConfig leaves has the types. *)
LEMMA InitType == Init => TesterTypeOK
<1> SUFFICES ASSUME Init PROVE TesterTypeOK
  OBVIOUS
<1>1. PICK e \in End : e = CHOOSE d \in End : TRUE
  BY EndNames, TesterAssumption
<1>2. Idle \in CallRecord
  BY <1>1 DEF Idle, CallRecord, Phases
<1>3. UNION {EndsOf(i, 1) : i \in Server} \subseteq End
  BY EndNames DEF EndsOf
<1>4. NetTypeOK
  BY <1>2, <1>3, EndNames DEF Init, NetTypeOK
<1>5. Ready \in Operation /\ 0 \in 0 .. MaxOps
  BY TesterAssumption DEF Operation
<1> QED
  BY <1>4, <1>5, EndNames DEF Init, TesterTypeOK, Persisted

(* A step of a call from one phase to another changes nothing else of it. *)
LEMMA PhaseStep ==
    ASSUME TesterTypeOK, NEW c \in Call, NEW pc \in Phases,
           call' = [call EXCEPT ![c].pc = pc]
    PROVE  /\ call' \in [Call -> CallRecord]
           /\ call'[c].pc = pc /\ call'[c].end = call[c].end /\ call'[c].server = call[c].server
           /\ \A d \in Call : d # c => call'[d] = call[d]
<1> DEFINE new == [call[c] EXCEPT !.pc = pc]
<1>1. call \in [Call -> CallRecord] /\ call[c] \in CallRecord
  BY DEF TesterTypeOK, NetTypeOK
<1>2. new \in CallRecord /\ new.pc = pc /\ new.end = call[c].end /\ new.server = call[c].server
  BY <1>1 DEF CallRecord
<1>3. call' = [call EXCEPT ![c] = new]
  OBVIOUS
<1> HIDE DEF new
<1> QED
  BY <1>1, <1>2, <1>3

(* What processReq has read has the types (readEndnameInfo). *)
LEMMA LookupStep ==
    ASSUME TesterTypeOK, NEW c \in Call, readEndnameInfo(c)
    PROVE  /\ call' \in [Call -> CallRecord]
           /\ call'[c].end = call[c].end
           /\ \/ call'[c].pc = "refused" /\ call'[c].server = call[c].server
              \/ /\ call'[c].pc = "accepted" /\ call'[c].server = servers[Target(c)]
                 /\ servers[Target(c)] # NoInstance
           /\ \A d \in Call : d # c => call'[d] = call[d]
<1> DEFINE found == [pc |-> "accepted", end |-> call[c].end, server |-> servers[call[c].end[3]],
                     reliable |-> reliable, longreordering |-> longReordering]
           refused == [call[c] EXCEPT !.pc = "refused"]
<1>1. call \in [Call -> CallRecord] /\ call[c] \in CallRecord
  BY DEF TesterTypeOK, NetTypeOK
<1>2. /\ refused \in CallRecord /\ refused.pc = "refused"
      /\ refused.end = call[c].end /\ refused.server = call[c].server
  BY <1>1 DEF CallRecord, Phases
<1>3. call[c].end \in End /\ servers[call[c].end[3]] \in Instance \cup {NoInstance}
  BY <1>1, TargetType DEF CallRecord, Target, TesterTypeOK, NetTypeOK
<1>4. /\ found \in CallRecord /\ found.pc = "accepted"
      /\ found.end = call[c].end /\ found.server = servers[call[c].end[3]]
  BY <1>3 DEF CallRecord, Phases, TesterTypeOK, NetTypeOK
<1>5. \/ call' = [call EXCEPT ![c] = refused]
      \/ call' = [call EXCEPT ![c] = found] /\ servers[call[c].end[3]] # NoInstance
  BY <1>1 DEF readEndnameInfo
<1> HIDE DEF found, refused
<1>6. CASE call' = [call EXCEPT ![c] = refused]
  BY <1>1, <1>2, <1>6
<1>7. CASE call' = [call EXCEPT ![c] = found] /\ servers[call[c].end[3]] # NoInstance
  BY <1>1, <1>4, <1>7 DEF Target
<1> QED
  BY <1>5, <1>6, <1>7

(* ClientEnd.Call begins with a fresh record of the call. *)
LEMMA CallEndStep ==
    ASSUME TesterTypeOK, NEW c \in Call, NEW e \in End, CallEnd(c, e)
    PROVE  /\ call[c].pc = "idle"
           /\ call' \in [Call -> CallRecord]
           /\ call'[c].pc = "send" /\ call'[c].end = e /\ call'[c].server = NoInstance
           /\ \A d \in Call : d # c => call'[d] = call[d]
<1> DEFINE new == [Idle EXCEPT !.pc = "send", !.end = e]
<1>1. call \in [Call -> CallRecord]
  BY DEF TesterTypeOK, NetTypeOK
<1>2. new \in CallRecord /\ new.pc = "send" /\ new.end = e /\ new.server = NoInstance
  BY DEF Idle, CallRecord, Phases
<1>3. call[c].pc = "idle" /\ call' = [call EXCEPT ![c] = new]
  BY DEF CallEnd
<1> HIDE DEF new
<1> QED
  BY <1>1, <1>2, <1>3

(* The phases of a call that the network moves on, and its handler: all     *)
(* that is needed of Process from here on.                                  *)
LEMMA ProcessStep ==
    ASSUME TesterTypeOK, NEW c \in Call, Process(c)
    PROVE  /\ UNCHANGED settings /\ listening' = listening
           /\ call' \in [Call -> CallRecord]
           /\ call'[c].end = call[c].end
           /\ \A d \in Call : d # c => call'[d] = call[d] /\ handler'[d] = handler[d]
           /\ \/ /\ call[c].pc = "accepted" /\ call'[c].pc = "wait"
                 /\ call'[c].server = call[c].server
                 /\ handler' \in [Call -> {"none", "running", "stuck", "done"}]
                 /\ handler'[c] \in {"running", "stuck"}
              \/ /\ handler' = handler /\ call'[c].pc = "accepted"
                 /\ call[c].pc = "read" /\ call'[c].server = servers[Target(c)]
                 /\ servers[Target(c)] # NoInstance
              \/ /\ handler' = handler /\ call'[c].server = call[c].server
                 /\ \/ call[c].pc \in {"send", "read"} /\ call'[c].pc \in {"read", "refused", "false"}
                    \/ call[c].pc \in {"refused", "accepted"} /\ call'[c].pc = "false"
                    \/ call[c].pc = "wait" /\ call'[c].pc = "answer" /\ handler[c] = "done"
                    \/ call[c].pc = "wait" /\ call'[c].pc = "dead"
                    \/ call[c].pc \in {"answer", "dead"} /\ call'[c].pc = "false"
                    \/ /\ call[c].pc = "answer" /\ call'[c].pc \in {"reply", "true"}
                       /\ servers[Target(c)] = call[c].server
                    \/ call[c].pc = "reply" /\ call'[c].pc = "true"
<1>1. CASE CallNoNetwork(c)
  <2>1. "false" \in Phases /\ call' = [call EXCEPT ![c].pc = "false"] /\ handler' = handler
    BY <1>1 DEF CallNoNetwork, Phases
  <2> QED
    BY <1>1, <2>1, PhaseStep DEF CallNoNetwork
<1>2. CASE Receive(c)
  <2>1. "read" \in Phases /\ call' = [call EXCEPT ![c].pc = "read"] /\ handler' = handler
    BY <1>2 DEF Receive, Phases
  <2> QED
    BY <1>2, <2>1, PhaseStep DEF Receive
<1>3. CASE readEndnameInfo(c)
  BY <1>3, LookupStep DEF readEndnameInfo
<1>4. CASE Timeout(c)
  <2>1. "false" \in Phases /\ call' = [call EXCEPT ![c].pc = "false"] /\ handler' = handler
    BY <1>4 DEF Timeout, Phases
  <2> QED
    BY <1>4, <2>1, PhaseStep DEF Timeout
<1>5. CASE DropRequest(c)
  <2>1. "false" \in Phases /\ call' = [call EXCEPT ![c].pc = "false"] /\ handler' = handler
    BY <1>5 DEF DropRequest, Phases
  <2> QED
    BY <1>5, <2>1, PhaseStep DEF DropRequest
<1>6. CASE StartHandler(c)
  <2>1. "wait" \in Phases /\ call' = [call EXCEPT ![c].pc = "wait"]
    BY <1>6 DEF StartHandler, Phases
  <2>2. PICK h \in {"running", "stuck"} : handler' = [handler EXCEPT ![c] = h]
    BY <1>6 DEF StartHandler
  <2>3. /\ handler' \in [Call -> {"none", "running", "stuck", "done"}]
        /\ handler'[c] \in {"running", "stuck"}
        /\ \A d \in Call : d # c => handler'[d] = handler[d]
    BY <2>2 DEF TesterTypeOK, NetTypeOK
  <2>4. call[c].pc = "accepted" /\ UNCHANGED settings /\ listening' = listening
    BY <1>6 DEF StartHandler
  <2>5. /\ call' \in [Call -> CallRecord]
        /\ call'[c].pc = "wait" /\ call'[c].end = call[c].end /\ call'[c].server = call[c].server
        /\ \A d \in Call : d # c => call'[d] = call[d]
    BY <2>1, PhaseStep
  <2> QED
    BY <2>3, <2>4, <2>5
<1>7. CASE ReceiveReply(c)
  <2>1. "answer" \in Phases /\ call' = [call EXCEPT ![c].pc = "answer"] /\ handler' = handler
    BY <1>7 DEF ReceiveReply, Phases
  <2> QED
    BY <1>7, <2>1, PhaseStep DEF ReceiveReply
<1>8. CASE FindDead(c)
  <2>1. "dead" \in Phases /\ call' = [call EXCEPT ![c].pc = "dead"] /\ handler' = handler
    BY <1>8 DEF FindDead, Phases
  <2> QED
    BY <1>8, <2>1, PhaseStep DEF FindDead
<1>9. CASE Answer(c)
  <2>1. PICK pc \in {"false", "true", "reply"} :
          /\ call' = [call EXCEPT ![c].pc = pc]
          /\ pc # "false" => call[c].pc = "answer" /\ servers[Target(c)] = call[c].server
    BY <1>9 DEF Answer, isServerDead
  <2>2. pc \in Phases /\ handler' = handler /\ call[c].pc \in {"answer", "dead"}
    BY <1>9 DEF Answer, Phases
  <2> QED
    BY <1>9, <2>1, <2>2, PhaseStep DEF Answer
<1>10. CASE DeliverReply(c)
  <2>1. "true" \in Phases /\ call' = [call EXCEPT ![c].pc = "true"] /\ handler' = handler
    BY <1>10 DEF DeliverReply, Phases
  <2> QED
    BY <1>10, <2>1, PhaseStep DEF DeliverReply
<1> QED
  BY <1>1, <1>2, <1>3, <1>4, <1>5, <1>6, <1>7, <1>8, <1>9, <1>10 DEF Process

(* Between its calls the test thread knows what it is doing. *)
LEMMA OperationFields ==
    ASSUME NEW t \in Operation
    PROVE  /\ t.op \in {"delete", "supersede", "add"} =>
                t.srv \in Server /\ [t EXCEPT !.op = "supersede"] \in Operation
           /\ t.op = "connect" => t.todo \in SUBSET Server
           /\ t.op = "partition" => t.p1 \in SUBSET Server /\ t.todo \in SUBSET Server
           /\ \A S \in SUBSET Server : t.op \in {"connect", "partition"} =>
                 /\ [t EXCEPT !.todo = S] \in Operation
                 /\ [t EXCEPT !.todo = S].op = t.op /\ [t EXCEPT !.todo = S].todo = S
                 /\ t.op = "partition" => [t EXCEPT !.todo = S].p1 = t.p1
<1>1. CASE t \in [op : {"delete", "supersede", "add"}, srv : Server]
  BY <1>1 DEF Operation
<1>2. CASE t \in [op : {"connect"}, todo : SUBSET Server]
  BY <1>2 DEF Operation
<1>3. CASE t \in [op : {"partition"}, p1 : SUBSET Server, todo : SUBSET Server]
  BY <1>3 DEF Operation
<1>4. CASE t \in {Ready, Over}
  BY <1>4 DEF Ready, Over
<1> QED
  BY <1>1, <1>2, <1>3, <1>4 DEF Operation

(* An operation that begins is one, within the bound. *)
LEMMA BeginType ==
    ASSUME TesterTypeOK, NEW next \in Operation, Begin(next)
    PROVE  test' \in Operation /\ ops' \in 0 .. MaxOps
BY TesterAssumption DEF Begin, TesterTypeOK

(* The operations that Begin is given are of the type. *)
LEMMA OperationsBegun ==
    /\ Ready \in Operation /\ Over \in Operation
    /\ \A i \in Server : /\ [op |-> "delete", srv |-> i] \in Operation
                         /\ [op |-> "add", srv |-> i] \in Operation
    /\ [op |-> "connect", todo |-> Server] \in Operation
    /\ \A p1 \in SUBSET Server : [op |-> "partition", p1 |-> p1, todo |-> Server] \in Operation
BY DEF Operation

(* The ends of the running instances are ends. *)
LEMMA EndNameType ==
    ASSUME TesterTypeOK, NEW i \in Server, NEW j \in Server
    PROVE  endNames(i, j) \in End
BY EndNames DEF TesterTypeOK, endNames

(* connect keeps the types. *)
LEMMA ConnectType ==
    ASSUME TesterTypeOK, NEW i \in Server, NEW to \in SUBSET Server, NEW on \in SUBSET End,
           connect(i, to, on)
    PROVE  connected' \in [Server -> BOOLEAN] /\ enabled' \subseteq End
<1>1. connectOut(i, to) \subseteq End
  BY EndNameType DEF connectOut
<1>2. {endNames(j, i) : j \in {j \in to : connected'[j]}} \subseteq End
  BY EndNameType
<1> QED
  BY <1>1, <1>2 DEF connect, TesterTypeOK

(* disconnect enables nothing. *)
LEMMA DisconnectType ==
    ASSUME TesterTypeOK, NEW i \in Server, NEW from \in SUBSET Server
    PROVE  disconnectEnds(i, from) \in SUBSET End
BY DEF disconnectEnds, TesterTypeOK, NetTypeOK

(* What a server restarts with is something it has saved. *)
LEMMA SavedType ==
    ASSUME TesterTypeOK, NEW i \in Server
    PROVE  saved(i) \in Persisted
BY DEF TesterTypeOK, saved

(* Operations on connections keep the types. *)
LEMMA ConnectionsType ==
    ASSUME TesterTypeOK, NEW i \in Server,
           \/ DisconnectAll(i) \/ ConnectOne(i) \/ ConnectNext(i) \/ PartitionNext(i)
           \/ ConnectAll \/ PartitionReturns \/ \E p1 \in SUBSET Server : Partition(p1)
    PROVE  TesterTypeOK'
<1> USE OperationsBegun
<1>1. CASE DisconnectAll(i)
  <2>1. test' \in Operation /\ ops' \in 0 .. MaxOps
    BY <1>1, BeginType DEF DisconnectAll
  <2>2. enabled' \subseteq End
    BY <1>1, DisconnectType DEF DisconnectAll
  <2> QED
    BY <1>1, <2>1, <2>2 DEF DisconnectAll, TesterTypeOK, NetTypeOK
<1>2. CASE ConnectOne(i)
  <2>1. test' \in Operation /\ ops' \in 0 .. MaxOps
    BY <1>2, BeginType DEF ConnectOne
  <2>2. connected' \in [Server -> BOOLEAN] /\ enabled' \subseteq End
    BY <1>2, ConnectType DEF ConnectOne, TesterTypeOK, NetTypeOK
  <2> QED
    BY <1>2, <2>1, <2>2 DEF ConnectOne, TesterTypeOK, NetTypeOK
<1>3. CASE ConnectNext(i)
  <2>1. test' \in Operation
    BY <1>3, OperationFields DEF ConnectNext, TesterTypeOK
  <2>2. connected' \in [Server -> BOOLEAN] /\ enabled' \subseteq End
    BY <1>3, ConnectType DEF ConnectNext, TesterTypeOK, NetTypeOK
  <2> QED
    BY <1>3, <2>1, <2>2 DEF ConnectNext, TesterTypeOK, NetTypeOK
<1>4. CASE PartitionNext(i)
  <2> DEFINE mine == IF i \in test.p1 THEN test.p1 ELSE Server \ test.p1
  <2>1. test' \in Operation /\ mine \in SUBSET Server
    BY <1>4, OperationFields DEF PartitionNext, TesterTypeOK
  <2>2. disconnectEnds(i, Server \ mine) \in SUBSET End
    BY <2>1, DisconnectType
  <2>3. connect(i, mine, disconnectEnds(i, Server \ mine))
    BY <1>4 DEF PartitionNext
  <2> HIDE DEF mine
  <2>4. connected' \in [Server -> BOOLEAN] /\ enabled' \subseteq End
    BY <2>1, <2>2, <2>3, ConnectType
  <2> QED
    BY <1>4, <2>1, <2>4 DEF PartitionNext, TesterTypeOK, NetTypeOK
<1>5. CASE ConnectAll
  <2>1. test' \in Operation /\ ops' \in 0 .. MaxOps
    BY <1>5, BeginType DEF ConnectAll
  <2> QED
    BY <1>5, <2>1 DEF ConnectAll, netVars, settings, TesterTypeOK, NetTypeOK
<1>6. CASE PartitionReturns
  BY <1>6 DEF PartitionReturns, netVars, settings, TesterTypeOK, NetTypeOK
<1>7. CASE \E p1 \in SUBSET Server : Partition(p1)
  <2>1. PICK p1 \in SUBSET Server : Partition(p1)
    BY <1>7
  <2>2. test' \in Operation /\ ops' \in 0 .. MaxOps
    BY <2>1, BeginType DEF Partition
  <2> QED
    BY <2>1, <2>2 DEF Partition, netVars, settings, TesterTypeOK, NetTypeOK
<1> QED
  BY <1>1, <1>2, <1>3, <1>4, <1>5, <1>6, <1>7

(* Shutting servers down and starting them again keeps the types. *)
LEMMA ServersType ==
    ASSUME TesterTypeOK, NEW i \in Server,
           \/ ShutdownServer(i) \/ StartServer(i) \/ DeleteServer \/ shutdownServer \/ AddServer
    PROVE  TesterTypeOK'
<1> USE OperationsBegun
<1>1. CASE ShutdownServer(i)
  <2>1. test' \in Operation /\ ops' \in 0 .. MaxOps
    BY <1>1, BeginType DEF ShutdownServer
  <2>2. enabled' \subseteq End
    BY <1>1, DisconnectType DEF ShutdownServer
  <2> QED
    BY <1>1, <2>1, <2>2 DEF ShutdownServer, TesterTypeOK, NetTypeOK
<1>2. CASE StartServer(i)
  <2> DEFINE n == instance[i] + 1
  <2>1. test' \in Operation /\ ops' \in 0 .. MaxOps
    BY <1>2, BeginType DEF StartServer
  <2>2. EndsOf(i, n) \subseteq End /\ n \in Instance
    BY <1>2, EndNames DEF StartServer, EndsOf
  <2>3. saved(i) \in Persisted
    BY SavedType
  <2>4. startServer(i, n)
    BY <1>2 DEF StartServer
  <2> HIDE DEF n
  <2>5. instance' \in [Server -> Instance] /\ ends' \subseteq End /\ copied' \in [Server -> BOOLEAN]
    BY <2>2, <2>4 DEF startServer, TesterTypeOK, NetTypeOK
  <2>6. content' \in [Server -> [Instance -> Persisted]]
    BY <2>2, <2>3, <2>4 DEF startServer, TesterTypeOK
  <2> QED
    BY <1>2, <2>1, <2>5, <2>6 DEF StartServer, TesterTypeOK, NetTypeOK
<1>3. CASE DeleteServer
  <2>1. test' \in Operation /\ test.srv \in Server
    BY <1>3, OperationFields DEF DeleteServer, TesterTypeOK
  <2> QED
    BY <1>3, <2>1 DEF DeleteServer, TesterTypeOK, NetTypeOK
<1>4. CASE shutdownServer
  <2>1. test.srv \in Server
    BY <1>4, OperationFields DEF shutdownServer, TesterTypeOK
  <2>2. saved(test.srv) \in Persisted
    BY <2>1, SavedType
  <2> QED
    BY <1>4, <2>1, <2>2 DEF shutdownServer, netVars, settings, TesterTypeOK, NetTypeOK
<1>5. CASE AddServer
  <2>1. test.srv \in Server /\ test' \in Operation
    BY <1>5, OperationFields DEF AddServer, TesterTypeOK
  <2> QED
    BY <1>5, <2>1 DEF AddServer, TesterTypeOK, NetTypeOK
<1> QED
  BY <1>1, <1>2, <1>3, <1>4, <1>5

(* Clients, settings and Cleanup keep the types. *)
LEMMA ClientsType ==
    ASSUME TesterTypeOK,
           \/ \E k \in Client, to \in SUBSET Server : ConnectTo(k, to)
           \/ \E k \in Client, j \in Server : Disconnect(k, j)
           \/ \E k \in Client : ClntConnectAll(k) \/ DisconnectClnt(k) \/ DeleteClient(k)
           \/ SetReliable \/ SetLongReordering \/ Cleanup
    PROVE  TesterTypeOK'
<1> USE OperationsBegun
<1>a. ASSUME NEW k \in Client, NEW to \in SUBSET Server
      PROVE  ClntEnds(k, to) \subseteq End
  BY EndNames DEF ClntEnds
<1>b. ASSUME NEW k \in Client, NEW to \in SUBSET Server, ConnectTo(k, to)
      PROVE  TesterTypeOK'
  <2>1. test' \in Operation /\ ops' \in 0 .. MaxOps
    BY <1>b, BeginType DEF ConnectTo
  <2> QED
    BY <1>a, <1>b, <2>1 DEF ConnectTo, TesterTypeOK, NetTypeOK
<1>1. CASE \E k \in Client, to \in SUBSET Server : ConnectTo(k, to)
  BY <1>1, <1>b
<1>2. ASSUME NEW k \in Client, NEW j \in Server, Disconnect(k, j)
      PROVE  TesterTypeOK'
  <2>1. test' \in Operation /\ ops' \in 0 .. MaxOps
    BY <1>2, BeginType DEF Disconnect
  <2> QED
    BY <1>2, <2>1 DEF Disconnect, TesterTypeOK, NetTypeOK
<1>3. ASSUME NEW k \in Client, ClntConnectAll(k)
      PROVE  TesterTypeOK'
  BY <1>3, <1>b DEF ClntConnectAll
<1>4. ASSUME NEW k \in Client, DisconnectClnt(k)
      PROVE  TesterTypeOK'
  <2>1. test' \in Operation /\ ops' \in 0 .. MaxOps
    BY <1>4, BeginType DEF DisconnectClnt
  <2> QED
    BY <1>4, <2>1 DEF DisconnectClnt, TesterTypeOK, NetTypeOK
<1>5. ASSUME NEW k \in Client, DeleteClient(k)
      PROVE  TesterTypeOK'
  <2>1. test' \in Operation /\ ops' \in 0 .. MaxOps
    BY <1>5, BeginType DEF DeleteClient
  <2> QED
    BY <1>5, <2>1 DEF DeleteClient, TesterTypeOK, NetTypeOK
<1>6. CASE SetReliable
  <2>1. test' \in Operation /\ ops' \in 0 .. MaxOps
    BY <1>6, BeginType DEF SetReliable
  <2> QED
    BY <1>6, <2>1 DEF SetReliable, TesterTypeOK, NetTypeOK
<1>7. CASE SetLongReordering
  <2>1. test' \in Operation /\ ops' \in 0 .. MaxOps
    BY <1>7, BeginType DEF SetLongReordering
  <2> QED
    BY <1>7, <2>1 DEF SetLongReordering, TesterTypeOK, NetTypeOK
<1>8. CASE Cleanup
  BY <1>8 DEF Cleanup, TesterTypeOK, NetTypeOK
<1> QED
  BY <1>1, <1>2, <1>3, <1>4, <1>5, <1>6, <1>7, <1>8

(* A server's call and a client's call begin alike: on an end, with no      *)
(* handler yet.                                                            *)
LEMMA CallsType ==
    ASSUME TesterTypeOK, CallInv, NEW c \in Call,
           \/ \E i, j \in Server, n \in Instance : ServerCall(c, i, n, j)
           \/ \E k \in Client, j \in Server : ClntCall(c, k, j)
    PROVE  /\ TesterTypeOK'
           /\ \E e \in End : CallEnd(c, e)
           /\ UNCHANGED <<reliable, longReordering, servers, done, listening, handler>>
           /\ UNCHANGED <<instance, up, connected, content, copy, copied, test, ops>>
<1>1. ASSUME NEW i \in Server, NEW j \in Server, NEW n \in Instance, ServerCall(c, i, n, j)
      PROVE  /\ \E e \in End : CallEnd(c, e)
             /\ UNCHANGED <<settings, listening, handler, testVars>>
  BY <1>1, EndNames DEF ServerCall
<1>2. ASSUME NEW k \in Client, NEW j \in Server, ClntCall(c, k, j)
      PROVE  /\ \E e \in End : CallEnd(c, e)
             /\ UNCHANGED <<reliable, longReordering, servers, done, listening, handler>>
             /\ UNCHANGED <<instance, up, connected, content, copy, copied, test, ops>>
             /\ clnt' \in [Client -> [srvs : SUBSET Server, ends : SUBSET Server, removed : BOOLEAN]]
             /\ ends' \subseteq End /\ enabled' \subseteq End
  <2>1. clnt' = [clnt EXCEPT ![k].ends = @ \cup {j}]
    BY <1>2 DEF ClntCall, makeEnd
  <2>2. clnt' \in [Client -> [srvs : SUBSET Server, ends : SUBSET Server, removed : BOOLEAN]]
    BY <2>1 DEF TesterTypeOK
  <2>3. ends' \subseteq End /\ enabled' \subseteq End
    BY <1>2, EndNames DEF ClntCall, makeEnd, TesterTypeOK, NetTypeOK
  <2> QED
    BY <1>2, <2>2, <2>3, EndNames DEF ClntCall
<1>3. /\ \E e \in End : CallEnd(c, e)
      /\ UNCHANGED <<reliable, longReordering, servers, done, listening, handler>>
      /\ UNCHANGED <<instance, up, connected, content, copy, copied, test, ops>>
      /\ clnt' \in [Client -> [srvs : SUBSET Server, ends : SUBSET Server, removed : BOOLEAN]]
      /\ ends' \subseteq End /\ enabled' \subseteq End
  BY <1>1, <1>2 DEF settings, testVars, TesterTypeOK, NetTypeOK
<1>4. PICK e \in End : CallEnd(c, e)
  BY <1>3
<1>5. /\ call[c].pc = "idle" /\ call' \in [Call -> CallRecord]
      /\ \A d \in Call : d # c => call'[d] = call[d]
  BY <1>4, CallEndStep
<1>6. \A d \in Call : handler'[d] # "none" => call'[d].server \in Instance
  BY <1>3, <1>5 DEF CallInv, TesterTypeOK
<1> QED
  BY <1>3, <1>5, <1>6 DEF TesterTypeOK, NetTypeOK

(* The network's own steps keep the types. *)
LEMMA ProcessType ==
    ASSUME TesterTypeOK, CallInv, NEW c \in Call, Process(c), UNCHANGED testVars
    PROVE  TesterTypeOK'
<1>1. handler' \in [Call -> {"none", "running", "stuck", "done"}]
  BY ProcessStep DEF TesterTypeOK, NetTypeOK
<1>2. \A d \in Call : handler'[d] # "none" => call'[d].server \in Instance
  <2> SUFFICES ASSUME NEW d \in Call, handler'[d] # "none" PROVE call'[d].server \in Instance
    OBVIOUS
  <2>1. CASE d # c
    BY <2>1, ProcessStep DEF TesterTypeOK
  <2>2. CASE d = c
    BY <2>2, ProcessStep DEF CallInv
  <2> QED
    BY <2>1, <2>2
<1>3. call' \in [Call -> CallRecord] /\ UNCHANGED <<settings, listening>>
  BY ProcessStep
<1> QED
  BY <1>1, <1>2, <1>3 DEF settings, testVars, TesterTypeOK, NetTypeOK

(* What a handler does when it returns: it has saved to the Persister of    *)
(* its instance.                                                           *)
LEMMA HandleStep ==
    ASSUME TesterTypeOK, NEW c \in Call, Handle(c)
    PROVE  /\ TesterTypeOK'
           /\ UNCHANGED <<settings, listening, call, instance, up, connected, copy, copied, clnt, test, ops>>
           /\ handler[c] = "running" /\ handler'[c] = "done" /\ call[c].server \in Instance
           /\ \A d \in Call : d # c => handler'[d] = handler[d]
           /\ \A i \in Server, n \in Instance :
                 content'[i][n] = IF i = Target(c) /\ n = call[c].server
                                  THEN content[i][n] \cup {c} ELSE content[i][n]
<1>1. Target(c) \in Server
  BY TargetType
<1>2. /\ handler[c] = "running" /\ handler' = [handler EXCEPT ![c] = "done"]
      /\ UNCHANGED <<settings, listening, call, instance, up, connected, copy, copied, clnt, test, ops>>
      /\ content' = [content EXCEPT ![Target(c)][call[c].server] = @ \cup {c}]
  BY DEF Handle, HandlerReturns
<1>3. call[c].server \in Instance /\ content \in [Server -> [Instance -> Persisted]]
  BY <1>2 DEF TesterTypeOK
<1>4. handler' \in [Call -> {"none", "running", "stuck", "done"}] /\ handler'[c] = "done"
  BY <1>2 DEF TesterTypeOK, NetTypeOK
<1>5. \A d \in Call : d # c => handler'[d] = handler[d]
  BY <1>2 DEF TesterTypeOK, NetTypeOK
<1>6. content' \in [Server -> [Instance -> Persisted]]
  BY <1>1, <1>2, <1>3 DEF Persisted
<1>7. \A i \in Server, n \in Instance :
        content'[i][n] = IF i = Target(c) /\ n = call[c].server
                         THEN content[i][n] \cup {c} ELSE content[i][n]
  BY <1>1, <1>2, <1>3
<1>8. \A d \in Call : handler'[d] # "none" => call'[d].server \in Instance
  BY <1>2, <1>3, <1>5 DEF TesterTypeOK
<1>9. TesterTypeOK'
  BY <1>2, <1>4, <1>6, <1>8 DEF settings, TesterTypeOK, NetTypeOK
<1> QED
  BY <1>2, <1>3, <1>4, <1>5, <1>7, <1>9

(* Every step keeps the types. *)
LEMMA StepType ==
    ASSUME TesterTypeOK, CallInv, [Next]_vars
    PROVE  TesterTypeOK'
<1>1. CASE \E c \in Call : Process(c) /\ UNCHANGED testVars
  BY <1>1, ProcessType
<1>2. CASE StopListening /\ UNCHANGED testVars
  BY <1>2 DEF StopListening, settings, testVars, TesterTypeOK, NetTypeOK
<1>3. CASE \E c \in Call : Handle(c)
  BY <1>3, HandleStep
<1>4. CASE \/ \E c \in Call, i, j \in Server, n \in Instance : ServerCall(c, i, n, j)
           \/ \E c \in Call, k \in Client, j \in Server : ClntCall(c, k, j)
  BY <1>4, CallsType
<1>5. CASE \/ \E i \in Server : \/ DisconnectAll(i) \/ ConnectOne(i)
                                \/ ConnectNext(i) \/ PartitionNext(i)
           \/ \E p1 \in SUBSET Server : Partition(p1)
           \/ PartitionReturns \/ ConnectAll
  BY <1>5, ConnectionsType, TesterAssumption
<1>6. CASE \/ \E i \in Server : ShutdownServer(i) \/ StartServer(i)
           \/ DeleteServer \/ shutdownServer \/ AddServer
  BY <1>6, ServersType, TesterAssumption
<1>7. CASE \/ \E k \in Client, to \in SUBSET Server : ConnectTo(k, to)
           \/ \E k \in Client, j \in Server : Disconnect(k, j)
           \/ \E k \in Client : ClntConnectAll(k) \/ DisconnectClnt(k) \/ DeleteClient(k)
           \/ SetReliable \/ SetLongReordering \/ Cleanup
  BY <1>7, ClientsType
<1>8. CASE UNCHANGED vars
  BY <1>8 DEF vars, netVars, settings, testVars, TesterTypeOK, NetTypeOK
<1> QED
  BY <1>1, <1>2, <1>3, <1>4, <1>5, <1>6, <1>7, <1>8 DEF Next

-----------------------------------------------------------------------------
(* MakeConfig: no call was made, nothing is saved, every server runs. *)
LEMMA InitDurable == Init => DurableInv
<1> SUFFICES ASSUME Init PROVE DurableInv
  OBVIOUS
<1>1. TesterTypeOK
  BY InitType
<1>2. \A c \in Call : /\ call[c].pc = "idle" /\ handler[c] = "none" /\ call[c].server = NoInstance
                      /\ Target(c) \in Server /\ instance[Target(c)] = 1
  BY <1>1, TargetType DEF Init, Idle
<1>3. CallInv /\ ReplyDurable
  BY <1>2 DEF CallInv, ReplyDurable, NoInstance
<1>4. ServerInv
  BY DEF Init, ServerInv, Ready
<1> QED
  BY <1>1, <1>3, <1>4 DEF DurableInv

(* The steps of the test thread that leave servers and Persisters alone. *)
LEMMA QuietStep ==
    ASSUME TesterTypeOK,
           \/ \E i \in Server : \/ DisconnectAll(i) \/ ConnectOne(i) \/ ConnectNext(i)
                                \/ PartitionNext(i) \/ ShutdownServer(i)
           \/ \E p1 \in SUBSET Server : Partition(p1)
           \/ PartitionReturns \/ ConnectAll
           \/ \E k \in Client, to \in SUBSET Server : ConnectTo(k, to)
           \/ \E k \in Client, j \in Server : Disconnect(k, j)
           \/ \E k \in Client : ClntConnectAll(k) \/ DisconnectClnt(k) \/ DeleteClient(k)
           \/ SetReliable \/ SetLongReordering \/ Cleanup
           \/ StopListening /\ UNCHANGED testVars
           \/ UNCHANGED vars
    PROVE  /\ UNCHANGED <<servers, call, handler, instance, up, content, copy, copied>>
           /\ test' = test \/ test'.op \notin {"supersede", "add"}
<1>1. ASSUME NEW i \in Server, ConnectNext(i) \/ PartitionNext(i)
      PROVE  test'.op \notin {"supersede", "add"}
  <2>1. test \in Operation /\ test.op \in {"connect", "partition"} /\ test.todo \ {i} \in SUBSET Server
    BY <1>1, OperationFields DEF ConnectNext, PartitionNext, TesterTypeOK
  <2>2. [test EXCEPT !.todo = @ \ {i}].op = test.op
    BY <2>1, OperationFields
  <2> DEFINE next == [test EXCEPT !.todo = @ \ {i}]
  <2>3. CASE ConnectNext(i)
    <3>1. test' = IF test.todo = {i} THEN Ready ELSE next
      BY <2>3 DEF ConnectNext
    <3> QED
      BY <2>1, <2>2, <3>1 DEF Ready
  <2>4. CASE PartitionNext(i)
    <3>1. test' = next
      BY <2>4 DEF PartitionNext
    <3> QED
      BY <2>1, <2>2, <3>1
  <2> QED
    BY <1>1, <2>3, <2>4
<1>2. ASSUME NEW i \in Server, \/ DisconnectAll(i) \/ ConnectOne(i) \/ ConnectNext(i)
                               \/ PartitionNext(i) \/ ShutdownServer(i)
      PROVE  UNCHANGED <<servers, call, handler, instance, up, content, copy, copied>>
  BY <1>2 DEF DisconnectAll, ConnectOne, ConnectNext, PartitionNext, ShutdownServer
<1>3. ASSUME NEW i \in Server, DisconnectAll(i) \/ ConnectOne(i) \/ ShutdownServer(i)
      PROVE  test'.op \notin {"supersede", "add"}
  BY <1>3 DEF DisconnectAll, ConnectOne, ShutdownServer, Begin, Ready
<1>4. CASE \E i \in Server : \/ DisconnectAll(i) \/ ConnectOne(i) \/ ConnectNext(i)
                             \/ PartitionNext(i) \/ ShutdownServer(i)
  BY <1>1, <1>2, <1>3, <1>4
<1>5. CASE (\E p1 \in SUBSET Server : Partition(p1)) \/ PartitionReturns \/ ConnectAll
  <2>1. CASE \E p1 \in SUBSET Server : Partition(p1)
    BY <2>1 DEF Partition, Begin, netVars, settings
  <2>2. CASE PartitionReturns
    BY <2>2 DEF PartitionReturns, Ready, netVars, settings
  <2>3. CASE ConnectAll
    BY <2>3 DEF ConnectAll, Begin, netVars, settings
  <2> QED
    BY <1>5, <2>1, <2>2, <2>3
<1>6. CASE \E k \in Client, to \in SUBSET Server : ConnectTo(k, to)
  BY <1>6 DEF ConnectTo, Begin, Ready
<1>7. CASE \E k \in Client, j \in Server : Disconnect(k, j)
  BY <1>7 DEF Disconnect, Begin, Ready
<1>8. CASE \E k \in Client : ClntConnectAll(k) \/ DisconnectClnt(k) \/ DeleteClient(k)
  BY <1>8 DEF ClntConnectAll, ConnectTo, DisconnectClnt, DeleteClient, Begin, Ready
<1>9. CASE SetReliable \/ SetLongReordering \/ Cleanup
  BY <1>9 DEF SetReliable, SetLongReordering, Cleanup, Begin, Ready, Over
<1>10. CASE (StopListening /\ UNCHANGED testVars) \/ UNCHANGED vars
  BY <1>10 DEF StopListening, testVars, vars, netVars, settings
<1> QED
  BY <1>4, <1>5, <1>6, <1>7, <1>8, <1>9, <1>10

(* Shutting down and starting a server leaves what it restarts with, and    *)
(* every Persister made so far, as they were.                               *)
LEMMA RestartStep ==
    ASSUME TesterTypeOK, TesterTypeOK', ServerInv,
           DeleteServer \/ shutdownServer \/ AddServer \/ \E i \in Server : StartServer(i)
    PROVE  /\ UNCHANGED <<call, handler>>
           /\ ServerInv'
           /\ \A i \in Server : saved(i)' = saved(i) /\ instance[i] <= instance'[i]
           /\ \A i \in Server, n \in Instance : n <= instance[i] => content'[i][n] = content[i][n]
<1>0. \A i \in Server : instance[i] \in Nat /\ instance[i] \in Instance
  BY EndNames DEF TesterTypeOK
<1>t. test \in Operation
  BY DEF TesterTypeOK
<1>1. CASE DeleteServer
  <2>1. test.srv \in Server /\ test'.srv = test.srv /\ test'.op = "supersede"
    BY <1>1, <1>t, OperationFields DEF DeleteServer
  <2>2. UNCHANGED <<call, handler, instance, up, content, copy, copied>>
    BY <1>1 DEF DeleteServer
  <2>3. servers' = [servers EXCEPT ![test.srv] = NoInstance]
    BY <1>1 DEF DeleteServer
  <2>4. ServerInv'
    BY <2>1, <2>2, <2>3 DEF ServerInv, TesterTypeOK, NetTypeOK
  <2> QED
    BY <1>0, <2>2, <2>4 DEF saved
<1>2. CASE shutdownServer
  <2> DEFINE s == test.srv
  <2>1. s \in Server /\ servers[s] = NoInstance
    BY <1>2, <1>t, OperationFields DEF shutdownServer, ServerInv
  <2>2. /\ UNCHANGED <<servers, call, handler, instance, content>>
        /\ test' = Ready
        /\ copy' = [copy EXCEPT ![s] = saved(s)]
        /\ copied' = [copied EXCEPT ![s] = TRUE]
        /\ up' = [up EXCEPT ![s] = FALSE]
    BY <1>2 DEF shutdownServer, netVars, settings
  <2> HIDE DEF s
  <2>3. ServerInv'
    BY <2>1, <2>2 DEF ServerInv, TesterTypeOK, Ready
  <2>4. \A i \in Server : saved(i)' = saved(i)
    BY <2>1, <2>2 DEF saved, TesterTypeOK
  <2> QED
    BY <1>0, <2>2, <2>3, <2>4
<1>3. CASE AddServer
  <2>1. test.srv \in Server /\ up[test.srv]
    BY <1>3, <1>t, OperationFields DEF AddServer, ServerInv
  <2>2. /\ UNCHANGED <<call, handler, instance, up, content, copy, copied>>
        /\ servers' = [servers EXCEPT ![test.srv] = instance[test.srv]]
        /\ test'.op \in {"ready", "connect"}
    BY <1>3 DEF AddServer, Ready
  <2>3. ServerInv'
    BY <2>1, <2>2 DEF ServerInv, TesterTypeOK, NetTypeOK
  <2> QED
    BY <1>0, <2>2, <2>3 DEF saved
<1>4. ASSUME NEW s \in Server, StartServer(s)
      PROVE  /\ UNCHANGED <<call, handler>>
             /\ ServerInv'
             /\ \A i \in Server : saved(i)' = saved(i) /\ instance[i] <= instance'[i]
             /\ \A i \in Server, n \in Instance : n <= instance[i] => content'[i][n] = content[i][n]
  <2> DEFINE n == instance[s] + 1
  <2>1. /\ UNCHANGED <<servers, call, handler, copy>> /\ ~up[s] /\ n \in Instance
        /\ instance' = [instance EXCEPT ![s] = n]
        /\ content' = [content EXCEPT ![s][n] = saved(s)]
        /\ copied' = [copied EXCEPT ![s] = FALSE]
        /\ up' = [up EXCEPT ![s] = TRUE]
        /\ test' = [op |-> "add", srv |-> s]
    BY <1>4 DEF StartServer, startServer, Begin
  <2>2. n \in Nat /\ instance[s] < n /\ ~(n <= instance[s])
    BY <1>0
  <2> HIDE DEF n
  <2>3. ServerInv'
    BY <2>1 DEF ServerInv, TesterTypeOK
  <2>4. content'[s][n] = saved(s) /\ instance'[s] = n /\ ~copied'[s]
    BY <2>1 DEF TesterTypeOK
  <2>5. \A i \in Server : i # s => /\ content'[i] = content[i] /\ instance'[i] = instance[i]
                                   /\ copied'[i] = copied[i]
    BY <2>1 DEF TesterTypeOK
  <2>6. \A m \in Instance : m # n => content'[s][m] = content[s][m]
    BY <2>1 DEF TesterTypeOK
  <2>7. \A i \in Server : saved(i)' = saved(i)
    BY <2>1, <2>4, <2>5 DEF saved
  <2>8. \A i \in Server : instance[i] <= instance'[i]
    BY <1>0, <2>2, <2>4, <2>5
  <2>9. \A i \in Server, m \in Instance : m <= instance[i] => content'[i][m] = content[i][m]
    BY <2>2, <2>5, <2>6
  <2> QED
    BY <2>1, <2>3, <2>7, <2>8, <2>9
<1> QED
  BY <1>1, <1>2, <1>3, <1>4

(* With calls and handlers as they were, the facts about calls outlast      *)
(* whatever keeps the Persisters of the instances made so far.              *)
LEMMA CallFrame ==
    ASSUME TesterTypeOK, TesterTypeOK', CallInv, UNCHANGED <<call, handler>>,
           \A i \in Server : instance[i] <= instance'[i],
           \A i \in Server, n \in Instance : n <= instance[i] => content'[i][n] = content[i][n]
    PROVE  CallInv'
<1> SUFFICES ASSUME NEW c \in Call
             PROVE  /\ call[c].server <= instance'[Target(c)]
                    /\ handler[c] = "done" => c \in content'[Target(c)][call[c].server]
  BY DEF CallInv, Target
<1>1. /\ Target(c) \in Server /\ call[c].server \in Nat
      /\ instance[Target(c)] \in Nat /\ instance'[Target(c)] \in Nat
  <2>1. Target(c) \in Server
    BY TargetType
  <2>2. instance[Target(c)] \in Instance /\ instance'[Target(c)] \in Instance
    BY <2>1 DEF TesterTypeOK
  <2>3. call[c].server \in Instance \cup {NoInstance}
    BY DEF TesterTypeOK, NetTypeOK, CallRecord
  <2> QED
    BY <2>1, <2>2, <2>3, EndNames
<1>2. call[c].server <= instance[Target(c)]
  BY DEF CallInv
<1>3. handler[c] = "done" => call[c].server \in Instance /\ c \in content[Target(c)][call[c].server]
  BY DEF CallInv
<1> QED
  BY <1>1, <1>2, <1>3

(* A call that begins has no handler, no server and no reply. *)
LEMMA BeginCallStep ==
    ASSUME DurableInv, TesterTypeOK', NEW c \in Call, NEW e \in End, CallEnd(c, e),
           UNCHANGED <<servers, handler, instance, up, content, copy, copied, test>>
    PROVE  CallInv' /\ ServerInv' /\ ReplyDurable'
<1> USE DEF DurableInv
<1>1. /\ call[c].pc = "idle" /\ call'[c].pc = "send" /\ call'[c].server = NoInstance
      /\ \A d \in Call : d # c => call'[d] = call[d]
  BY CallEndStep
<1>2. \A d \in Call : Target(d)' \in Server /\ instance[Target(d)'] \in Nat
  BY EndNames DEF TesterTypeOK, NetTypeOK, CallRecord, End, Target
<1>3. CallInv'
  BY <1>1, <1>2 DEF CallInv, Target, NoInstance
<1>4. ReplyDurable'
  BY <1>1 DEF ReplyDurable, Target, saved
<1> QED
  BY <1>3, <1>4 DEF ServerInv

(* A step of the network: processReq answers only while the server it      *)
(* called is the one the network knows, so what the handler saved is what  *)
(* the server would restart with.                                          *)
LEMMA ProcessDurable ==
    ASSUME DurableInv, NEW c \in Call, Process(c), UNCHANGED testVars
    PROVE  CallInv' /\ ServerInv' /\ ReplyDurable'
<1> USE DEF DurableInv
<1>1. UNCHANGED <<servers, instance, up, content, copy, copied, test>>
  BY ProcessStep DEF settings, testVars
<1>2. ServerInv'
  BY <1>1 DEF ServerInv
<1>3. /\ call'[c].end = call[c].end /\ Target(c) \in Server
      /\ \A d \in Call : d # c => call'[d] = call[d] /\ handler'[d] = handler[d]
  BY ProcessStep, TargetType
<1>4. /\ servers[Target(c)] \in {NoInstance, instance[Target(c)]}
      /\ instance[Target(c)] \in Instance /\ instance[Target(c)] \in Nat
  BY <1>3, EndNames DEF ServerInv, TesterTypeOK
<1>5. CallInv'
  <2> SUFFICES ASSUME NEW d \in Call
               PROVE  /\ call'[d].pc \in {"idle", "send", "read", "refused", "accepted"} => handler'[d] = "none"
                      /\ call'[d].pc = "accepted" \/ handler'[d] # "none" => call'[d].server \in Instance
                      /\ call'[d].server <= instance[Target(d)]
                      /\ call'[d].pc \in {"answer", "reply", "true"} => handler'[d] = "done"
                      /\ handler'[d] = "done" => d \in content[Target(d)][call'[d].server]
    BY <1>1, <1>3 DEF CallInv, Target
  <2>1. CASE d # c
    BY <2>1, <1>3 DEF CallInv
  <2>2. CASE d = c /\ call'[c].pc = "accepted" /\ call[c].pc = "read"
    <3>1. /\ handler' = handler /\ handler[c] = "none" /\ call'[c].server = instance[Target(c)]
      BY <2>2, <1>4, ProcessStep DEF CallInv
    <3> QED
      BY <2>2, <3>1, <1>4
  <2>3. CASE d = c /\ call'[c].pc = "wait"
    <3>1. call[c].pc = "accepted" /\ call'[c].server = call[c].server /\ handler'[c] \in {"running", "stuck"}
      BY <2>3, ProcessStep
    <3> QED
      BY <2>3, <3>1 DEF CallInv
  <2>4. CASE d = c /\ ~(call'[c].pc = "accepted" /\ call[c].pc = "read") /\ call'[c].pc # "wait"
    <3>1. /\ handler' = handler /\ call'[c].server = call[c].server
          /\ \/ call[c].pc \in {"send", "read"} /\ call'[c].pc \in {"read", "refused", "false"}
             \/ call'[c].pc \in {"false", "dead"}
             \/ call'[c].pc = "answer" /\ handler[c] = "done"
             \/ call[c].pc \in {"answer", "reply"} /\ call'[c].pc \in {"reply", "true"}
      BY <2>4, ProcessStep
    <3> QED
      BY <2>4, <3>1 DEF CallInv
  <2> QED
    BY <2>1, <2>2, <2>3, <2>4
<1>6. ReplyDurable'
  <2> SUFFICES ASSUME NEW d \in Call, call'[d].pc \in {"reply", "true"}
               PROVE  d \in saved(Target(d))
    BY <1>1, <1>3 DEF ReplyDurable, Target, saved
  <2>1. CASE d # c \/ call[c].pc = "reply"
    BY <2>1, <1>3 DEF ReplyDurable
  <2>2. CASE d = c /\ call[c].pc # "reply"
    <3>1. call[c].pc = "answer" /\ servers[Target(c)] = call[c].server
      BY <2>2, ProcessStep
    <3>2. handler[c] = "done" /\ c \in content[Target(c)][call[c].server] /\ call[c].server \in Instance
      BY <3>1 DEF CallInv
    <3>3. servers[Target(c)] = instance[Target(c)] /\ servers[Target(c)] # NoInstance
      BY <3>1, <3>2, <1>4, EndNames
    <3>4. ~copied[Target(c)]
      BY <3>3, <1>3 DEF ServerInv
    <3> QED
      BY <2>2, <3>1, <3>2, <3>3, <3>4 DEF saved
  <2> QED
    BY <2>1, <2>2
<1> QED
  BY <1>2, <1>5, <1>6

(* A handler of a live instance saves what the server would restart with,  *)
(* any other one a Persister that is not read again.                       *)
LEMMA HandleDurable ==
    ASSUME DurableInv, NEW c \in Call, Handle(c)
    PROVE  /\ CallInv' /\ ServerInv' /\ ReplyDurable'
           /\ \A i \in Server : saved(i)' # saved(i) =>
                 up[i] /\ Target(c) = i /\ call[c].server = instance[i]
<1> USE DEF DurableInv
<1>1. /\ UNCHANGED <<servers, call, instance, up, copy, copied, test>>
      /\ handler[c] = "running" /\ handler'[c] = "done" /\ call[c].server \in Instance
      /\ \A d \in Call : d # c => handler'[d] = handler[d]
  BY HandleStep DEF settings
<1>2. \A i \in Server, n \in Instance :
        content'[i][n] = IF i = Target(c) /\ n = call[c].server
                         THEN content[i][n] \cup {c} ELSE content[i][n]
  BY HandleStep
<1>3. \A d \in Call : Target(d) \in Server /\ Target(d)' = Target(d)
  BY <1>1, TargetType DEF Target
<1>4. CallInv'
  <2> SUFFICES ASSUME NEW d \in Call
               PROVE  /\ call[d].pc \in {"idle", "send", "read", "refused", "accepted"} => handler'[d] = "none"
                      /\ call[d].pc = "accepted" \/ handler'[d] # "none" => call[d].server \in Instance
                      /\ call[d].pc \in {"answer", "reply", "true"} => handler'[d] = "done"
                      /\ handler'[d] = "done" => d \in content'[Target(d)][call[d].server]
    BY <1>1, <1>3 DEF CallInv
  <2>1. CASE d = c
    BY <2>1, <1>1, <1>2, <1>3 DEF CallInv
  <2>2. CASE d # c
    <3>1. handler'[d] = handler[d]
      BY <2>2, <1>1
    <3> QED
      BY <3>1, <1>2, <1>3 DEF CallInv
  <2> QED
    BY <2>1, <2>2
<1>5. \A i \in Server : instance[i] \in Instance
  BY DEF TesterTypeOK
<1>6. \A i \in Server : saved(i) \subseteq saved(i)'
  BY <1>1, <1>2, <1>5 DEF saved
<1>7. ReplyDurable'
  BY <1>1, <1>3, <1>6 DEF ReplyDurable
<1>8. \A i \in Server : saved(i)' # saved(i) =>
        ~copied[i] /\ Target(c) = i /\ call[c].server = instance[i]
  BY <1>1, <1>2, <1>5 DEF saved
<1> QED
  BY <1>1, <1>4, <1>7, <1>8 DEF ServerInv

(* Every step keeps the invariant, and a step that changes what a server    *)
(* restarts with is a handler's of its current instance.                    *)
LEMMA StepDurable ==
    ASSUME DurableInv, [Next]_vars
    PROVE  /\ DurableInv'
           /\ \A i \in Server : saved(i)' # saved(i) =>
                 \E c \in Call : /\ up[i] /\ Target(c) = i /\ call[c].server = instance[i]
                                 /\ handler[c] = "running" /\ handler'[c] = "done"
<1>t. TesterTypeOK /\ TesterTypeOK'
  BY StepType DEF DurableInv
<1> USE DEF DurableInv
<1>1. ASSUME NEW c \in Call, Process(c), UNCHANGED testVars
      PROVE  CallInv' /\ ServerInv' /\ ReplyDurable' /\ \A i \in Server : saved(i)' = saved(i)
  BY <1>1, ProcessDurable DEF testVars, saved
<1>2. ASSUME NEW c \in Call, Handle(c)
      PROVE  /\ CallInv' /\ ServerInv' /\ ReplyDurable'
             /\ \A i \in Server : saved(i)' # saved(i) =>
                   /\ up[i] /\ Target(c) = i /\ call[c].server = instance[i]
                   /\ handler[c] = "running" /\ handler'[c] = "done"
  BY <1>2, <1>t, HandleDurable, HandleStep
<1>3. ASSUME NEW c \in Call, \/ \E i, j \in Server, n \in Instance : ServerCall(c, i, n, j)
                             \/ \E k \in Client, j \in Server : ClntCall(c, k, j)
      PROVE  CallInv' /\ ServerInv' /\ ReplyDurable' /\ \A i \in Server : saved(i)' = saved(i)
  <2>1. PICK e \in End : CallEnd(c, e)
    BY <1>3, <1>t, CallsType
  <2>2. UNCHANGED <<servers, handler, instance, up, content, copy, copied, test>>
    BY <1>3, <1>t, CallsType
  <2> QED
    BY <1>t, <2>1, <2>2, BeginCallStep DEF saved
<1>4. CASE DeleteServer \/ shutdownServer \/ AddServer \/ \E i \in Server : StartServer(i)
  <2>1. /\ UNCHANGED <<call, handler>> /\ ServerInv'
        /\ \A i \in Server : saved(i)' = saved(i) /\ instance[i] <= instance'[i]
        /\ \A i \in Server, n \in Instance : n <= instance[i] => content'[i][n] = content[i][n]
    BY <1>4, <1>t, RestartStep
  <2>2. CallInv'
    BY <1>t, <2>1, CallFrame
  <2>3. ReplyDurable'
    BY <1>t, <2>1, TargetType DEF ReplyDurable, Target
  <2> QED
    BY <1>t, <2>1, <2>2, <2>3
<1>5. CASE \/ \E i \in Server : \/ DisconnectAll(i) \/ ConnectOne(i) \/ ConnectNext(i)
                                \/ PartitionNext(i) \/ ShutdownServer(i)
           \/ \E p1 \in SUBSET Server : Partition(p1)
           \/ PartitionReturns \/ ConnectAll
           \/ \E k \in Client, to \in SUBSET Server : ConnectTo(k, to)
           \/ \E k \in Client, j \in Server : Disconnect(k, j)
           \/ \E k \in Client : ClntConnectAll(k) \/ DisconnectClnt(k) \/ DeleteClient(k)
           \/ SetReliable \/ SetLongReordering \/ Cleanup
           \/ StopListening /\ UNCHANGED testVars
           \/ UNCHANGED vars
  <2>1. /\ UNCHANGED <<servers, call, handler, instance, up, content, copy, copied>>
        /\ test' = test \/ test'.op \notin {"supersede", "add"}
    BY <1>5, <1>t, QuietStep
  <2>2. ServerInv'
    BY <2>1 DEF ServerInv
  <2>3. CallInv'
    BY <2>1 DEF CallInv, Target
  <2>4. \A i : saved(i)' = saved(i)
    BY <2>1 DEF saved
  <2>5. ReplyDurable'
    BY <2>1, <2>4 DEF ReplyDurable, Target
  <2> QED
    BY <1>t, <2>2, <2>3, <2>4, <2>5
<1> QED
  <2>1. CASE \E c \in Call : Process(c) /\ UNCHANGED testVars
    BY <1>t, <1>1, <2>1
  <2>2. CASE \E c \in Call : Handle(c)
    BY <1>t, <1>2, <2>2
  <2>3. CASE \/ \E c \in Call, i, j \in Server, n \in Instance : ServerCall(c, i, n, j)
             \/ \E c \in Call, k \in Client, j \in Server : ClntCall(c, k, j)
    BY <1>t, <1>3, <2>3
  <2> QED
    BY <1>4, <1>5, <2>1, <2>2, <2>3 DEF Next

(* The invariant the three theorems below share. *)
LEMMA DurableInvariant == Spec => []DurableInv
<1>1. DurableInv /\ [Next]_vars => DurableInv'
  BY StepDurable
<1> QED
  BY <1>1, InitDurable, PTL DEF Spec

(* The variables have their types: in particular processReq runs a handler  *)
(* only on a server the network has (readEndnameInfo, dispatch).            *)
THEOREM TesterTypeCorrect == Spec => []TesterTypeOK
<1>1. DurableInv => TesterTypeOK
  BY DEF DurableInv
<1> QED
  BY <1>1, DurableInvariant, PTL

(* A call that returned true has saved what its handler saved for good,     *)
(* for any servers, calls and restarts: processReq asks for the server      *)
(* again after the handler, and ShutdownServer deletes the server before    *)
(* it copies the Persister.                                                 *)
THEOREM RepliesAreDurable == Spec => []ReplyDurable
<1>1. DurableInv => ReplyDurable
  BY DEF DurableInv
<1> QED
  BY <1>1, DurableInvariant, PTL

(* Only a handler of the current, running instance changes what a server    *)
(* restarts with: the goroutines of an instance that was shut down go on    *)
(* and save in vain (shutdownServer, startServer).                          *)
THEOREM OnlyCurrentSaves == Spec => SavedByCurrent
<1> DEFINE Saves == \A i \in Server : saved(i)' # saved(i) =>
                        \E c \in Call : /\ up[i] /\ Target(c) = i /\ call[c].server = instance[i]
                                        /\ handler[c] = "running" /\ handler'[c] = "done"
<1>1. DurableInv /\ [Next]_vars => [Saves]_vars
  BY StepDurable
<1>2. Spec => [][Saves]_vars
  BY <1>1, DurableInvariant, PTL DEF Spec
<1> QED
  BY <1>2 DEF SavedByCurrent

-----------------------------------------------------------------------------
(* The links that connections, restarts and partitions leave.             *)

(* The servers Partition is through with are linked within their side and   *)
(* with nobody of the other one.                                            *)
SidesInv ==
    test.op = "partition" =>
        \A i \in Server \ test.todo, j \in Server :
            /\ connected[i]
            /\ ~(i \in test.p1 <=> j \in test.p1) =>
                  endNames(i, j) \notin enabled /\ endNames(j, i) \notin enabled
            /\ (i \in test.p1 <=> j \in test.p1) /\ j \notin test.todo =>
                  endNames(i, j) \in enabled /\ endNames(j, i) \in enabled

(* A server marked as disconnected has no enabled end at either side. *)
MarkedInv ==
    \A i, j \in Server :
        ~connected[i] => endNames(i, j) \notin enabled /\ endNames(j, i) \notin enabled

(* No end is enabled before it is made: a fresh instance starts isolated. *)
NoFutureEnds ==
    \A i, j \in Server, n \in Instance : <<i, n, j>> \in enabled => n <= instance[i]

LinksInv == SidesInv /\ MarkedInv /\ NoFutureEnds

(* The ends between servers stay as they are; clients' may change. *)
SameLinks ==
    /\ UNCHANGED <<instance, connected>>
    /\ \A i, j \in Server, n \in Instance : <<i, n, j>> \in enabled' <=> <<i, n, j>> \in enabled

(* The invariant is the property, once Partition has nothing left to do. *)
LEMMA LinksImplied == LinksInv => LinksAsMarked
BY DEF LinksInv, SidesInv, MarkedInv, LinksAsMarked

(* MakeConfig connects all servers. *)
LEMMA InitLinks == Init => LinksInv
<1> SUFFICES ASSUME Init PROVE LinksInv
  OBVIOUS
<1>1. NoFutureEnds
  BY DEF Init, EndsOf, NoFutureEnds, Instance
<1> QED
  BY <1>1 DEF Init, LinksInv, SidesInv, MarkedInv, Ready

(* With the links as they are the invariant stays. *)
LEMMA LinksFrame ==
    ASSUME TesterTypeOK, LinksInv, SameLinks, test' = test \/ test'.op # "partition"
    PROVE  LinksInv'
<1>1. \A i, j \in Server : (endNames(i, j) \in enabled)' <=> endNames(i, j) \in enabled
  BY DEF SameLinks, endNames, TesterTypeOK
<1>2. SidesInv'
  BY <1>1 DEF LinksInv, SidesInv, SameLinks, endNames
<1>3. MarkedInv'
  BY <1>1 DEF LinksInv, MarkedInv, SameLinks, endNames
<1>4. NoFutureEnds'
  BY DEF LinksInv, NoFutureEnds, SameLinks
<1> QED
  BY <1>2, <1>3, <1>4 DEF LinksInv

(* Everything but connections and restarts leaves the links alone.         *)
LEMMA OtherLinks ==
    ASSUME TesterTypeOK, CallInv,
           \/ \E c \in Call : \/ Process(c) /\ UNCHANGED testVars
                              \/ Handle(c)
                              \/ \E i, j \in Server, n \in Instance : ServerCall(c, i, n, j)
                              \/ \E k \in Client, j \in Server : ClntCall(c, k, j)
           \/ PartitionReturns \/ ConnectAll
           \/ DeleteServer \/ shutdownServer \/ AddServer
           \/ \E k \in Client, to \in SUBSET Server : ConnectTo(k, to)
           \/ \E k \in Client, j \in Server : Disconnect(k, j)
           \/ \E k \in Client : ClntConnectAll(k) \/ DisconnectClnt(k) \/ DeleteClient(k)
           \/ SetReliable \/ SetLongReordering \/ Cleanup
           \/ StopListening /\ UNCHANGED testVars
           \/ UNCHANGED vars
    PROVE  SameLinks /\ (test' = test \/ test'.op # "partition")
<1>0. /\ \A k \in Client, i, j, l \in Server, n \in Instance : <<i, n, j>> # <<k, 1, l>>
      /\ \A k \in Client, to \in SUBSET Server, i, j \in Server, n \in Instance :
            <<i, n, j>> \notin ClntEnds(k, to)
  BY TesterAssumption DEF ClntEnds, TesterTypeOK
<1>1. ASSUME NEW c \in Call, (Process(c) /\ UNCHANGED testVars) \/ Handle(c)
      PROVE  SameLinks /\ test' = test
  BY <1>1, ProcessStep, HandleStep DEF SameLinks, testVars, settings
<1>2. ASSUME NEW c \in Call, NEW i \in Server, NEW j \in Server, NEW n \in Instance,
             ServerCall(c, i, n, j)
      PROVE  SameLinks /\ test' = test
  BY <1>2 DEF ServerCall, SameLinks, settings, testVars
<1>3. ASSUME NEW c \in Call, NEW k \in Client, NEW j \in Server, ClntCall(c, k, j)
      PROVE  SameLinks /\ test' = test
  BY <1>0, <1>3 DEF ClntCall, makeEnd, SameLinks
<1>4. CASE PartitionReturns
  BY <1>4 DEF PartitionReturns, netVars, settings, SameLinks, Ready
<1>5. CASE ConnectAll
  BY <1>5 DEF ConnectAll, Begin, netVars, settings, SameLinks
<1>6. CASE DeleteServer
  <2>1. test'.op = "supersede"
    BY <1>6, OperationFields DEF DeleteServer, TesterTypeOK
  <2> QED
    BY <1>6, <2>1 DEF DeleteServer, SameLinks
<1>7. CASE shutdownServer
  BY <1>7 DEF shutdownServer, netVars, settings, SameLinks, Ready
<1>8. CASE AddServer
  BY <1>8 DEF AddServer, SameLinks, Ready
<1>9. ASSUME NEW k \in Client, \/ \E to \in SUBSET Server : ConnectTo(k, to)
                               \/ \E j \in Server : Disconnect(k, j)
                               \/ ClntConnectAll(k) \/ DisconnectClnt(k) \/ DeleteClient(k)
      PROVE  SameLinks /\ test'.op # "partition"
  <2>1. ASSUME NEW to \in SUBSET Server, ConnectTo(k, to)
        PROVE  SameLinks /\ test'.op # "partition"
    BY <1>0, <2>1 DEF ConnectTo, Begin, Ready, SameLinks
  <2>2. ASSUME NEW j \in Server, Disconnect(k, j)
        PROVE  SameLinks /\ test'.op # "partition"
    BY <1>0, <2>2 DEF Disconnect, Begin, Ready, SameLinks
  <2>3. CASE DisconnectClnt(k)
    BY <1>0, <2>3 DEF DisconnectClnt, Begin, Ready, SameLinks
  <2>4. CASE DeleteClient(k)
    BY <1>0, <2>4 DEF DeleteClient, remove, Begin, Ready, SameLinks
  <2> QED
    BY <1>9, <2>1, <2>2, <2>3, <2>4 DEF ClntConnectAll
<1>10. CASE SetReliable
  BY <1>10 DEF SetReliable, Begin, Ready, SameLinks
<1>11. CASE SetLongReordering
  BY <1>11 DEF SetLongReordering, Begin, Ready, SameLinks
<1>12. CASE Cleanup
  <2> DEFINE mine == UNION {ClntEnds(k, Server) : k \in {k \in Client : ~clnt[k].removed}}
  <2>1. /\ test'.op # "partition" /\ UNCHANGED <<instance, connected>>
        /\ enabled' = enabled \ mine
    BY <1>12 DEF Cleanup, remove, Over
  <2>2. \A k \in Client, i, j \in Server, n \in Instance :
           <<i, n, j>> \notin ClntEnds(k, Server)
    <3>1. Server \in SUBSET Server
      OBVIOUS
    <3> QED
      BY <1>0, <3>1
  <2>3. ASSUME NEW i \in Server, NEW j \in Server, NEW n \in Instance, <<i, n, j>> \in mine
        PROVE  FALSE
    <3>1. PICK k \in Client : <<i, n, j>> \in ClntEnds(k, Server)
      BY <2>3
    <3> QED
      BY <2>2, <3>1
  <2> HIDE DEF mine
  <2> QED
    BY <2>1, <2>3 DEF SameLinks
<1>13. CASE (StopListening /\ UNCHANGED testVars) \/ UNCHANGED vars
  BY <1>13 DEF StopListening, testVars, vars, netVars, settings, SameLinks
<1>14. CASE \E c \in Call : \/ Process(c) /\ UNCHANGED testVars
                            \/ Handle(c)
                            \/ \E i, j \in Server, n \in Instance : ServerCall(c, i, n, j)
                            \/ \E k \in Client, j \in Server : ClntCall(c, k, j)
  BY <1>1, <1>2, <1>3, <1>14
<1>15. CASE \/ \E k \in Client, to \in SUBSET Server : ConnectTo(k, to)
            \/ \E k \in Client, j \in Server : Disconnect(k, j)
            \/ \E k \in Client : ClntConnectAll(k) \/ DisconnectClnt(k) \/ DeleteClient(k)
  <2>1. CASE \E k \in Client, to \in SUBSET Server : ConnectTo(k, to)
    BY <1>9, <2>1
  <2>2. CASE \E k \in Client, j \in Server : Disconnect(k, j)
    BY <1>9, <2>2
  <2>3. CASE \E k \in Client : ClntConnectAll(k) \/ DisconnectClnt(k) \/ DeleteClient(k)
    BY <1>9, <2>3
  <2> QED
    BY <1>15, <2>1, <2>2, <2>3
<1> QED
  BY <1>4, <1>5, <1>6, <1>7, <1>8, <1>10, <1>11, <1>12, <1>13, <1>14, <1>15

(* Which links connect enables, and that it keeps the others. *)
LEMMA ConnectLinks ==
    ASSUME TesterTypeOK, NEW i \in Server, NEW to \in SUBSET Server, NEW on, connect(i, to, on)
    PROVE  /\ \A j \in Server : connected'[j] <=> connected[j] \/ j = i
           /\ \A j, k \in Server, n \in Instance :
                 <<j, n, k>> \in enabled' <=>
                     \/ <<j, n, k>> \in on
                     \/ j = i /\ n = instance[i] /\ k \in to /\ (k = i \/ connected[k])
                     \/ k = i /\ n = instance[j] /\ j \in to /\ (j = i \/ connected[j])
<1>1. \A j \in Server : connected'[j] <=> connected[j] \/ j = i
  BY DEF connect, TesterTypeOK
<1> SUFFICES ASSUME NEW j \in Server, NEW k \in Server, NEW n \in Instance
             PROVE  <<j, n, k>> \in enabled' <=>
                        \/ <<j, n, k>> \in on
                        \/ j = i /\ n = instance[i] /\ k \in to /\ (k = i \/ connected[k])
                        \/ k = i /\ n = instance[j] /\ j \in to /\ (j = i \/ connected[j])
  BY <1>1
<1>2. <<j, n, k>> \in connectOut(i, to) <=>
        j = i /\ n = instance[i] /\ k \in to /\ (k = i \/ connected[k])
  BY DEF connectOut, endNames
<1>3. <<j, n, k>> \in {endNames(l, i) : l \in {l \in to : connected'[l]}} <=>
        k = i /\ n = instance[j] /\ j \in to /\ connected'[j]
  BY DEF endNames
<1> QED
  BY <1>1, <1>2, <1>3 DEF connect

(* Which links disconnect leaves. *)
LEMMA DisconnectLinks ==
    ASSUME TesterTypeOK, NEW i \in Server, NEW from \in SUBSET Server
    PROVE  \A j, k \in Server, n \in Instance :
              <<j, n, k>> \in disconnectEnds(i, from) <=>
                  /\ <<j, n, k>> \in enabled
                  /\ ~(j = i /\ n = instance[i] /\ k \in from)
                  /\ ~(k = i /\ n = instance[j] /\ j \in from)
BY DEF disconnectEnds, disconnectOut, endNames

(* Connecting and disconnecting a server keeps the marks true, and enables  *)
(* no end that is not made.                                                *)
LEMMA MarkedStep ==
    ASSUME TesterTypeOK, MarkedInv, NoFutureEnds, NEW i \in Server, instance' = instance,
           \/ \E to, from \in SUBSET Server :
                  connect(i, to, enabled) \/ connect(i, to, disconnectEnds(i, from))
           \/ /\ connected' = [connected EXCEPT ![i] = FALSE]
              /\ enabled' = disconnectEnds(i, Server)
    PROVE  MarkedInv' /\ NoFutureEnds'
<1>0. \A j \in Server : instance[j] \in Instance /\ instance[j] <= instance[j]
  <2> SUFFICES ASSUME NEW j \in Server PROVE instance[j] \in Instance /\ instance[j] <= instance[j]
    OBVIOUS
  <2>1. instance[j] \in Instance
    BY DEF TesterTypeOK
  <2>2. instance[j] \in Nat
    BY <2>1, EndNames
  <2> QED
    BY <2>1, <2>2
<1>1. ASSUME NEW to \in SUBSET Server, NEW on \in SUBSET enabled, connect(i, to, on)
      PROVE  MarkedInv' /\ NoFutureEnds'
  <2>1. \A j \in Server : connected'[j] <=> connected[j] \/ j = i
    BY <1>1, ConnectLinks
  <2>2. \A j, k \in Server, n \in Instance :
          <<j, n, k>> \in enabled' =>
              \/ <<j, n, k>> \in enabled
              \/ n = instance[j] /\ connected'[j] /\ connected'[k]
    <3> SUFFICES ASSUME NEW j \in Server, NEW k \in Server, NEW n \in Instance,
                        <<j, n, k>> \in enabled', <<j, n, k>> \notin enabled
                 PROVE  n = instance[j] /\ connected'[j] /\ connected'[k]
      OBVIOUS
    <3>1. \/ j = i /\ n = instance[i] /\ k \in to /\ (k = i \/ connected[k])
          \/ k = i /\ n = instance[j] /\ j \in to /\ (j = i \/ connected[j])
      BY <1>1, ConnectLinks
    <3> QED
      BY <2>1, <3>1
  <2>3. MarkedInv'
    BY <1>0, <2>1, <2>2 DEF MarkedInv, endNames
  <2>4. NoFutureEnds'
    BY <1>0, <2>2 DEF NoFutureEnds
  <2> QED
    BY <2>3, <2>4
<1>2. CASE connected' = [connected EXCEPT ![i] = FALSE] /\ enabled' = disconnectEnds(i, Server)
  <2>1. \A j \in Server : connected'[j] <=> connected[j] /\ j # i
    BY <1>2 DEF TesterTypeOK
  <2>2. \A j, k \in Server, n \in Instance :
          <<j, n, k>> \in enabled' =>
              <<j, n, k>> \in enabled /\ ~(n = instance[j] /\ (j = i \/ k = i))
    BY <1>2, DisconnectLinks
  <2>3. MarkedInv'
    BY <1>0, <2>1, <2>2 DEF MarkedInv, endNames
  <2>4. NoFutureEnds'
    BY <2>2 DEF NoFutureEnds
  <2> QED
    BY <2>3, <2>4
<1>3. \A from \in SUBSET Server : disconnectEnds(i, from) \in SUBSET enabled
  BY DEF disconnectEnds
<1> QED
  BY <1>1, <1>2, <1>3

(* A turn of one of Partition's loops: i is linked with the servers of its  *)
(* side that had their turn, and its links to the other side are cut; the   *)
(* later calls of connect undo neither.                                     *)
LEMMA SidesStep ==
    ASSUME TesterTypeOK, SidesInv, NEW i \in Server, PartitionNext(i)
    PROVE  SidesInv'
<1> DEFINE mine == IF i \in test.p1 THEN test.p1 ELSE Server \ test.p1
           on == disconnectEnds(i, Server \ mine)
<1>1. /\ test.op = "partition" /\ test \in Operation /\ i \in test.todo
      /\ test' = [test EXCEPT !.todo = @ \ {i}]
      /\ instance' = instance /\ connect(i, mine, on)
  BY DEF PartitionNext, TesterTypeOK
<1>2. /\ test.p1 \in SUBSET Server /\ test.todo \in SUBSET Server
      /\ test'.p1 = test.p1 /\ test'.todo = test.todo \ {i}
  <2>1. test.p1 \in SUBSET Server /\ test.todo \in SUBSET Server
    BY <1>1, OperationFields
  <2>2. test.todo \ {i} \in SUBSET Server
    BY <2>1
  <2> QED
    BY <1>1, <2>1, <2>2, OperationFields
<1>3. /\ mine \in SUBSET Server
      /\ \A j \in Server : j \in mine <=> (i \in test.p1 <=> j \in test.p1)
  BY <1>2
<1> HIDE DEF mine
<1>4. /\ \A j \in Server : connected'[j] <=> connected[j] \/ j = i
      /\ \A j, k \in Server, n \in Instance :
            <<j, n, k>> \in enabled' <=>
                \/ <<j, n, k>> \in on
                \/ j = i /\ n = instance[i] /\ k \in mine /\ (k = i \/ connected[k])
                \/ k = i /\ n = instance[j] /\ j \in mine /\ (j = i \/ connected[j])
  BY <1>1, <1>3, ConnectLinks
<1>5. \A j, k \in Server, n \in Instance :
        <<j, n, k>> \in on <=>
            /\ <<j, n, k>> \in enabled
            /\ ~(j = i /\ n = instance[i] /\ k \in Server \ mine)
            /\ ~(k = i /\ n = instance[j] /\ j \in Server \ mine)
  <2> DEFINE from == Server \ mine
  <2>1. from \in SUBSET Server
    OBVIOUS
  <2> HIDE DEF from
  <2>2. \A j, k \in Server, n \in Instance :
          <<j, n, k>> \in disconnectEnds(i, from) <=>
              /\ <<j, n, k>> \in enabled
              /\ ~(j = i /\ n = instance[i] /\ k \in from)
              /\ ~(k = i /\ n = instance[j] /\ j \in from)
    BY <2>1, DisconnectLinks
  <2> QED
    BY <2>2 DEF from
<1>6. \A j \in Server : instance[j] \in Instance
  BY DEF TesterTypeOK
<1> HIDE DEF on
<1> DEFINE link(j, k) == <<j, instance[j], k>> \in enabled
           linkNext(j, k) == <<j, instance[j], k>> \in enabled'
           side(j, k) == j \in test.p1 <=> k \in test.p1
<1>7. \A j, k \in Server :
        /\ j # i /\ k # i => (linkNext(j, k) <=> link(j, k))
        /\ j = i /\ ~side(i, k) => ~linkNext(i, k) /\ ~linkNext(k, i)
        /\ j = i /\ side(i, k) /\ (k = i \/ connected[k]) => linkNext(i, k) /\ linkNext(k, i)
  BY <1>3, <1>4, <1>5, <1>6
<1>8. \A j \in Server \ test.todo, k \in Server :
        /\ connected[j]
        /\ ~side(j, k) => ~link(j, k) /\ ~link(k, j)
        /\ side(j, k) /\ k \notin test.todo => link(j, k) /\ link(k, j)
  BY <1>1 DEF SidesInv, endNames
<1> HIDE DEF link, linkNext
<1>9. \A j \in Server \ (test.todo \ {i}), k \in Server :
        /\ connected'[j]
        /\ ~side(j, k) => ~linkNext(j, k) /\ ~linkNext(k, j)
        /\ side(j, k) /\ k \notin test.todo \ {i} => linkNext(j, k) /\ linkNext(k, j)
  <2> SUFFICES ASSUME NEW j \in Server \ (test.todo \ {i}), NEW k \in Server
               PROVE  /\ connected'[j]
                      /\ ~side(j, k) => ~linkNext(j, k) /\ ~linkNext(k, j)
                      /\ side(j, k) /\ k \notin test.todo \ {i} => linkNext(j, k) /\ linkNext(k, j)
    OBVIOUS
  <2>1. CASE j = i
    BY <2>1, <1>4, <1>7, <1>8
  <2>2. CASE j # i /\ k = i
    BY <2>2, <1>4, <1>7, <1>8
  <2>3. CASE j # i /\ k # i
    BY <2>3, <1>4, <1>7, <1>8
  <2> QED
    BY <2>1, <2>2, <2>3
<1> QED
  BY <1>1, <1>2, <1>9 DEF SidesInv, endNames, linkNext

(* Every step keeps the invariant of the links. *)
LEMMA LinksStep ==
    ASSUME TesterTypeOK, CallInv, LinksInv, [Next]_vars
    PROVE  LinksInv'
<1> USE DEF LinksInv
<1>1. ASSUME NEW i \in Server, DisconnectAll(i) \/ ShutdownServer(i) \/ ConnectOne(i)
      PROVE  LinksInv'
  <2>1. /\ instance' = instance /\ test'.op # "partition"
        /\ \/ connect(i, Server, enabled)
           \/ /\ connected' = [connected EXCEPT ![i] = FALSE]
              /\ enabled' = disconnectEnds(i, Server)
    BY <1>1 DEF DisconnectAll, ShutdownServer, ConnectOne, Begin, Ready
  <2>2. MarkedInv' /\ NoFutureEnds'
    BY <2>1, MarkedStep
  <2> QED
    BY <2>1, <2>2 DEF SidesInv
<1>2. ASSUME NEW i \in Server, ConnectNext(i)
      PROVE  LinksInv'
  <2>1. instance' = instance /\ connect(i, Server, enabled)
    BY <1>2 DEF ConnectNext
  <2>2. test \in Operation /\ test.op = "connect" /\ test.todo \ {i} \in SUBSET Server
    BY <1>2, OperationFields DEF ConnectNext, TesterTypeOK
  <2> DEFINE next == [test EXCEPT !.todo = @ \ {i}]
  <2>3. next.op = "connect" /\ test' = IF test.todo = {i} THEN Ready ELSE next
    BY <1>2, <2>2, OperationFields DEF ConnectNext
  <2>4. test'.op # "partition"
    BY <2>3 DEF Ready
  <2>5. MarkedInv' /\ NoFutureEnds'
    BY <2>1, MarkedStep
  <2> QED
    BY <2>4, <2>5 DEF SidesInv
<1>3. ASSUME NEW i \in Server, PartitionNext(i)
      PROVE  LinksInv'
  <2> DEFINE mine == IF i \in test.p1 THEN test.p1 ELSE Server \ test.p1
  <2>1. instance' = instance /\ connect(i, mine, disconnectEnds(i, Server \ mine))
    BY <1>3 DEF PartitionNext
  <2>2. mine \in SUBSET Server /\ Server \ mine \in SUBSET Server
    BY <1>3, OperationFields DEF PartitionNext, TesterTypeOK
  <2> HIDE DEF mine
  <2>3. MarkedInv' /\ NoFutureEnds'
    BY <2>1, <2>2, MarkedStep
  <2> QED
    BY <1>3, <2>3, SidesStep
<1>4. ASSUME NEW p1 \in SUBSET Server, Partition(p1)
      PROVE  LinksInv'
  <2>1. /\ UNCHANGED <<instance, connected, enabled>>
        /\ test'.todo = Server
    BY <1>4 DEF Partition, Begin, netVars, settings
  <2> QED
    BY <2>1 DEF SidesInv, MarkedInv, NoFutureEnds, endNames
<1>5. ASSUME NEW s \in Server, StartServer(s)
      PROVE  LinksInv'
  <2>1. /\ UNCHANGED <<connected, enabled>> /\ test'.op = "add"
        /\ instance' = [instance EXCEPT ![s] = instance[s] + 1] /\ instance[s] + 1 \in Instance
    BY <1>5 DEF StartServer, startServer, Begin
  <2>2. \A i \in Server : instance[i] \in Nat /\ instance[i] \in Instance
    BY EndNames DEF TesterTypeOK
  <2>3. /\ instance'[s] = instance[s] + 1
        /\ \A i \in Server : i # s => instance'[i] = instance[i]
    BY <2>1 DEF TesterTypeOK
  <2>4. \A j \in Server : <<s, instance'[s], j>> \notin enabled
    BY <2>1, <2>2, <2>3 DEF NoFutureEnds
  <2>5. MarkedInv'
    <3> SUFFICES ASSUME NEW i \in Server, NEW j \in Server, ~connected[i]
                 PROVE  <<i, instance'[i], j>> \notin enabled /\ <<j, instance'[j], i>> \notin enabled
      BY <2>1 DEF MarkedInv, endNames
    <3>1. <<i, instance[i], j>> \notin enabled /\ <<j, instance[j], i>> \notin enabled
      BY DEF MarkedInv, endNames
    <3> QED
      BY <2>3, <2>4, <3>1
  <2>6. NoFutureEnds'
    <3> SUFFICES ASSUME NEW i \in Server, NEW j \in Server, NEW n \in Instance,
                        <<i, n, j>> \in enabled
                 PROVE  n <= instance'[i]
      BY <2>1 DEF NoFutureEnds
    <3>1. n <= instance[i] /\ n \in Nat
      BY EndNames DEF NoFutureEnds
    <3> QED
      BY <2>2, <2>3, <3>1
  <2> QED
    BY <2>1, <2>5, <2>6 DEF SidesInv
<1>6. CASE \/ \E c \in Call : \/ Process(c) /\ UNCHANGED testVars
                              \/ Handle(c)
                              \/ \E i, j \in Server, n \in Instance : ServerCall(c, i, n, j)
                              \/ \E k \in Client, j \in Server : ClntCall(c, k, j)
           \/ PartitionReturns \/ ConnectAll
           \/ DeleteServer \/ shutdownServer \/ AddServer
           \/ \E k \in Client, to \in SUBSET Server : ConnectTo(k, to)
           \/ \E k \in Client, j \in Server : Disconnect(k, j)
           \/ \E k \in Client : ClntConnectAll(k) \/ DisconnectClnt(k) \/ DeleteClient(k)
           \/ SetReliable \/ SetLongReordering \/ Cleanup
           \/ StopListening /\ UNCHANGED testVars
           \/ UNCHANGED vars
  <2>1. SameLinks /\ (test' = test \/ test'.op # "partition")
    BY <1>6, OtherLinks
  <2> QED
    BY <2>1, LinksFrame
<1>7. CASE \E i \in Server : \/ DisconnectAll(i) \/ ConnectOne(i) \/ ConnectNext(i)
                             \/ PartitionNext(i) \/ ShutdownServer(i) \/ StartServer(i)
  BY <1>1, <1>2, <1>3, <1>5, <1>7
<1>8. CASE \E p1 \in SUBSET Server : Partition(p1)
  BY <1>4, <1>8
<1> QED
  BY <1>6, <1>7, <1>8 DEF Next

(* Partitions cut exactly the links between the sides, and a server marked  *)
(* as disconnected is isolated, whatever was connected, shut down or        *)
(* restarted before, for any number of servers (connect, disconnect,        *)
(* Partition).                                                              *)
THEOREM LinksCorrect == Spec => []LinksAsMarked
<1>1. DurableInv /\ LinksInv /\ [Next]_vars => LinksInv'
  BY LinksStep DEF DurableInv
<1>2. Spec => []LinksInv
  BY <1>1, InitLinks, DurableInvariant, PTL DEF Spec
<1> QED
  BY <1>2, LinksImplied, PTL
=============================================================================
