------------------------------ MODULE KVServer ------------------------------
(* The versioned key/value server of kvsrv1 and its clerks, over labrpc:   *)
(* a call of a clerk is executed or not, answered or not, and is repeated  *)
(* by the clerk until an answer arrives. Server and network keep nothing   *)
(* of a call once it has returned, so an attempt never overtakes another.  *)
(* A clerk counts its operations in seqNum; the duplicate table only       *)
(* compares that number with the one it saved, so the table keeps the      *)
(* reply and whether it belongs to the clerk's present operation.          *)
EXTENDS Integers

CONSTANTS
    Client,      \* the clerks
    Key,
    Value,       \* the values clerks write
    NoValue,     \* the value of a key that does not exist
    MaxVersion   \* bound: no Put is called once a key has this version

ASSUME ValueAssumption == NoValue \notin Value
ASSUME VersionAssumption == MaxVersion \in Nat

VARIABLES
    cache,       \* cache[k]: value and version; version 0: not in the map
    clientMap,   \* clientMap[c]: the saved reply to c's present operation
    call,        \* call[c]: the operation of c in progress
    result       \* result[c]: what the last operation of c returned

kvVars == <<cache, clientMap, call, result>>

NoReply == [op |-> "none"]
GetReply ==
    [op : {"Get"}, err : {"OK", "ErrNoKey"}, value : Value \cup {NoValue}, version : Nat]
PutReply == [op : {"Put"}, err : {"OK", "ErrVersion", "ErrNoKey", "ErrMaybe"}]
Reply == {NoReply} \cup GetReply \cup PutReply

(* phase: nothing in progress, the request on its way, its reply on its    *)
(* way; first: firstAttempt.                                               *)
Idle == [phase |-> "idle"]
Requests ==
    [op : {"Get"}, key : Key] \cup [op : {"Put"}, key : Key, value : Value, version : Nat]
Call == {Idle}
   \cup [phase : {"request"}, args : Requests, first : BOOLEAN]
   \cup [phase : {"reply"}, args : Requests, first : BOOLEAN, reply : Reply]

KVInit ==
    /\ cache = [k \in Key |-> [value |-> NoValue, version |-> 0]]
    /\ clientMap = [c \in Client |-> NoReply]
    /\ call = [c \in Client |-> Idle]
    /\ result = [c \in Client |-> NoReply]

-----------------------------------------------------------------------------
(* The clerk.                                                              *)

(* seqNum++, and the first Call of the loop. *)
Invoke(c, args) ==
    /\ call[c] = Idle
    /\ call' = [call EXCEPT ![c] = [phase |-> "request", args |-> args, first |-> TRUE]]
    /\ clientMap' = [clientMap EXCEPT ![c] = NoReply]
    /\ result' = [result EXCEPT ![c] = NoReply]
    /\ UNCHANGED cache

Get(c, k) == Invoke(c, [op |-> "Get", key |-> k])

Put(c, k, v, version) ==
    Invoke(c, [op |-> "Put", key |-> k, value |-> v, version |-> version])

(* Seeded fault: a repeated Put reports ErrVersion. *)
ReturnNoMaybe(c) ==
    /\ call[c].phase = "reply"
    /\ call' = [call EXCEPT ![c] = Idle]
    /\ result' = [result EXCEPT ![c] = call[c].reply]
    /\ UNCHANGED <<cache, clientMap>>

(* Seeded fault: a repeated Put is repeated until it succeeds. *)
ReturnOnlyOK(c) ==
    /\ call[c].phase = "reply"
    /\ call[c].reply.err = "ErrVersion" => call[c].first
    /\ call' = [call EXCEPT ![c] = Idle]
    /\ result' = [result EXCEPT ![c] = call[c].reply]
    /\ UNCHANGED <<cache, clientMap>>

(* An answer arrives and ends the loop. *)
Return(c) ==
    /\ call[c].phase = "reply"
    /\ call' = [call EXCEPT ![c] = Idle]
    /\ result' = [result EXCEPT ![c] =
         IF call[c].reply.err = "ErrVersion" /\ ~call[c].first
         THEN [op |-> "Put", err |-> "ErrMaybe"] ELSE call[c].reply]
    /\ UNCHANGED <<cache, clientMap>>

-----------------------------------------------------------------------------
(* The server.                                                             *)

Answer(c, reply) ==
    call' = [call EXCEPT ![c] =
        [phase |-> "reply", args |-> call[c].args, first |-> call[c].first, reply |-> reply]]

(* KVServer.Get: a repeated Get gets the reply of the first. *)
ServerGet(c) ==
    /\ call[c].phase = "request" /\ call[c].args.op = "Get"
    /\ LET pair == cache[call[c].args.key]
           reply == IF clientMap[c].op = "Get" THEN clientMap[c]
                    ELSE [op |-> "Get", err |-> IF pair.version = 0 THEN "ErrNoKey" ELSE "OK",
                          value |-> pair.value, version |-> pair.version]
       IN  Answer(c, reply) /\ clientMap' = [clientMap EXCEPT ![c] = reply]
    /\ UNCHANGED <<cache, result>>

(* Seeded fault: a new key gets version 0. *)
ServerPutVersionZero(c) ==
    /\ call[c].phase = "request" /\ call[c].args.op = "Put"
    /\ LET args == call[c].args
           reply == [op |-> "Put", err |-> "OK"]
       IN  /\ args.version = cache[args.key].version
           /\ cache' = [cache EXCEPT ![args.key] = [value |-> args.value, version |-> args.version]]
           /\ clientMap' = [clientMap EXCEPT ![c] = reply]
           /\ Answer(c, reply)
    /\ UNCHANGED result

(* Seeded fault: the version is not compared when the key exists. *)
ServerPutAnyVersion(c) ==
    /\ call[c].phase = "request" /\ call[c].args.op = "Put"
    /\ LET args == call[c].args
           reply == [op |-> "Put", err |-> "OK"]
       IN  /\ cache' = [cache EXCEPT ![args.key] = [value |-> args.value, version |-> @.version + 1]]
           /\ clientMap' = [clientMap EXCEPT ![c] = reply]
           /\ Answer(c, reply)
    /\ UNCHANGED result

(* KVServer.Put: the saved reply is used only if the Put would succeed     *)
(* again; a key that does not exist has version 0.                         *)
ServerPut(c) ==
    /\ call[c].phase = "request" /\ call[c].args.op = "Put"
    /\ LET args == call[c].args
           pair == cache[args.key]
           reply(err) == [op |-> "Put", err |-> err]
           repeated == clientMap[c] = reply("OK")
       IN  \/ /\ args.version = pair.version /\ ~repeated
              /\ cache' = [cache EXCEPT ![args.key] =
                             [value |-> args.value, version |-> pair.version + 1]]
              /\ clientMap' = [clientMap EXCEPT ![c] = reply("OK")]
              /\ Answer(c, reply("OK"))
           \/ /\ args.version = pair.version => repeated
              /\ Answer(c, reply(IF args.version = pair.version THEN "OK"
                                 ELSE IF pair.version = 0 THEN "ErrNoKey" ELSE "ErrVersion"))
              /\ UNCHANGED <<cache, clientMap>>
    /\ UNCHANGED result

-----------------------------------------------------------------------------
(* The network.                                                            *)

(* The request or the reply is dropped: Call returns false, and the clerk  *)
(* sends the request again.                                                *)
Drop(c) ==
    /\ call[c].phase \in {"request", "reply"}
    /\ call' = [call EXCEPT ![c] =
         [phase |-> "request", args |-> call[c].args, first |-> FALSE]]
    /\ UNCHANGED <<cache, clientMap, result>>

Serve(c) == ServerGet(c) \/ ServerPut(c)

-----------------------------------------------------------------------------
(* Clients that read and write as the tests do: a Put has a version that a *)
(* Get can have returned.                                                  *)

Next ==
    \E c \in Client :
        \/ \E k \in Key : Get(c, k)
        \/ \E k \in Key, v \in Value :
             /\ cache[k].version < MaxVersion
             /\ \E version \in 0 .. cache[k].version : Put(c, k, v, version)
        \/ Return(c)
        \/ ServerGet(c)
        \/ ServerPut(c)
        \/ Drop(c)

(* Handlers run, and the network, which drops a tenth of the messages,     *)
(* does not drop every reply of a call that is repeated for ever.          *)
Fairness == \A c \in Client : WF_kvVars(Serve(c)) /\ SF_kvVars(Return(c))

Spec == KVInit /\ [][Next]_kvVars /\ Fairness

-----------------------------------------------------------------------------
(* Properties.                                                             *)

(* Every variable stays in its type, and a key exists if it has a version. *)
KVTypeOK ==
    /\ cache \in [Key -> [value : Value \cup {NoValue}, version : Nat]]
    /\ \A k \in Key : cache[k].version = 0 <=> cache[k].value = NoValue
    /\ clientMap \in [Client -> Reply]
    /\ call \in [Client -> Call]
    /\ result \in [Client -> Reply]

Abstract == INSTANCE KVModel WITH
    store <- cache,
    returned <- result,
    pending <- [c \in Client |->
        IF call[c] = Idle THEN [op |-> "none"]
        ELSE IF clientMap[c].op = "Get"
             THEN [op |-> "GetDone", out |-> [value |-> clientMap[c].value,
                                              version |-> clientMap[c].version]]
        ELSE IF clientMap[c].op = "Put" THEN [op |-> "PutDone"]
        ELSE call[c].args]

(* KVServer, its duplicate table and the retries of Clerk.Put: every       *)
(* operation takes effect exactly once between its call and its return,    *)
(* and OK, ErrVersion and ErrMaybe tell the client what KvModel allows.    *)
Linearizable == Abstract!Spec

(* Clerk.Get and Clerk.Put return, however many messages are lost. *)
CallReturns == \A c \in Client : call[c].phase # "idle" ~> call[c].phase = "idle"
=============================================================================
