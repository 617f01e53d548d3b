----------------------------- MODULE LockProofs -----------------------------
(* Proofs about the lock of kvsrv1/lock for every number of clients, keys, *)
(* rounds and lost messages: types, and mutual exclusion by way of the     *)
(* inductive invariant LockInv.                                            *)
EXTENDS Lock, TLAPS

(* The provers to try, with their time limits. *)
USE ZenonT(1), SMT, Zenon, SMTT(30), ZenonT(30)

(* The empty string and the client identifiers are values a key can have,  *)
(* and none of them says that there is no key.                             *)
LEMMA LockValues ==
    /\ Free \in Value
    /\ \A c \in Client : c \in Value /\ c # Free /\ c # NoValue
    /\ Free # NoValue
BY ValueAssumption, LockValueAssumption

-----------------------------------------------------------------------------
(* Types.                                                                  *)

(* A call of a clerk (the head of Clerk.Get and Clerk.Put) keeps the types. *)
LEMMA InvokeType ==
    ASSUME KVTypeOK, NEW c \in Client, NEW args \in Requests, Invoke(c, args)
    PROVE  KVTypeOK'
<1> DEFINE new == [phase |-> "request", args |-> args, first |-> TRUE]
<1>1. new \in Call
  BY DEF Call
<1>2. NoReply \in Reply
  BY DEF Reply
<1>3. call' = [call EXCEPT ![c] = new]
  BY DEF Invoke
<1> HIDE DEF new
<1> QED
  BY <1>1, <1>2, <1>3 DEF KVTypeOK, Invoke

(* Clerk.Get keeps the types. *)
LEMMA GetType ==
    ASSUME KVTypeOK, NEW c \in Client, Get(c, l)
    PROVE  KVTypeOK'
<1>1. [op |-> "Get", key |-> l] \in Requests
  BY LockKeyAssumption DEF Requests
<1> QED
  BY <1>1, InvokeType DEF Get

(* Clerk.Put keeps the types. *)
LEMMA PutType ==
    ASSUME KVTypeOK, NEW c \in Client, NEW v \in Value, NEW n \in Nat, Put(c, l, v, n)
    PROVE  KVTypeOK'
<1>1. [op |-> "Put", key |-> l, value |-> v, version |-> n] \in Requests
  BY LockKeyAssumption DEF Requests
<1> QED
  BY <1>1, InvokeType DEF Put

(* The loop of the clerk ends with a reply of its type. *)
LEMMA ReturnType ==
    ASSUME KVTypeOK, NEW c \in Client, Return(c)
    PROVE  KVTypeOK'
<1>1. call[c].reply \in Reply
  BY DEF KVTypeOK, Call, Idle, Return
<1>2. [op |-> "Put", err |-> "ErrMaybe"] \in Reply
  BY DEF Reply, PutReply
<1>3. Idle \in Call
  BY DEF Call
<1> QED
  BY <1>1, <1>2, <1>3 DEF KVTypeOK, Return

(* What a pending request looks like. *)
LEMMA RequestFields ==
    ASSUME KVTypeOK, NEW c \in Client, call[c] # Idle
    PROVE  /\ call[c].args \in Requests
           /\ call[c].first \in BOOLEAN
           /\ call[c].phase \in {"request", "reply"}
           /\ call[c].phase = "reply" => call[c].reply \in Reply
           /\ call[c].args.key \in Key
           /\ call[c].args.op \in {"Get", "Put"}
           /\ call[c].args.op = "Put" =>
                call[c].args.value \in Value /\ call[c].args.version \in Nat
<1>1. call[c] \in Call
  BY DEF KVTypeOK
<1>2. /\ call[c].args \in Requests
      /\ call[c].first \in BOOLEAN
      /\ call[c].phase \in {"request", "reply"}
      /\ call[c].phase = "reply" => call[c].reply \in Reply
  BY <1>1 DEF Call
<1> QED
  BY <1>2 DEF Requests

(* An answer of the server keeps the types. *)
LEMMA AnswerType ==
    ASSUME KVTypeOK, NEW c \in Client, call[c] # Idle, NEW reply \in Reply, Answer(c, reply)
    PROVE  call' \in [Client -> Call]
<1>1. call[c].args \in Requests /\ call[c].first \in BOOLEAN
  BY RequestFields
<1>2. [phase |-> "reply", args |-> call[c].args, first |-> call[c].first, reply |-> reply] \in Call
  BY <1>1 DEF Call
<1> QED
  BY <1>2 DEF KVTypeOK, Answer

(* KVServer.Get keeps the types. *)
LEMMA ServerGetType ==
    ASSUME KVTypeOK, NEW c \in Client, ServerGet(c)
    PROVE  KVTypeOK'
<1> DEFINE pair == cache[call[c].args.key]
           reply == IF clientMap[c].op = "Get" THEN clientMap[c]
                    ELSE [op |-> "Get", err |-> IF pair.version = 0 THEN "ErrNoKey" ELSE "OK",
                          value |-> pair.value, version |-> pair.version]
<1>1. call[c] # Idle
  BY DEF ServerGet, Idle
<1>2. pair \in [value : Value \cup {NoValue}, version : Nat]
  BY <1>1, RequestFields DEF KVTypeOK
<1>3. reply \in Reply
  BY <1>2 DEF KVTypeOK, Reply, GetReply
<1>4. Answer(c, reply) /\ clientMap' = [clientMap EXCEPT ![c] = reply]
      /\ UNCHANGED <<cache, result>>
  BY DEF ServerGet
<1> HIDE DEF reply, pair
<1>5. call' \in [Client -> Call]
  BY <1>1, <1>3, <1>4, AnswerType
<1> QED
  BY <1>3, <1>4, <1>5 DEF KVTypeOK

(* KVServer.Put writes or leaves the key alone, and answers. *)
LEMMA ServerPutSteps ==
    ASSUME NEW c \in Client, ServerPut(c)
    PROVE  /\ call[c].phase = "request" /\ call[c].args.op = "Put"
           /\ result' = result
           /\ \/ /\ call[c].args.version = cache[call[c].args.key].version
                 /\ clientMap[c] # [op |-> "Put", err |-> "OK"]
                 /\ cache' = [cache EXCEPT ![call[c].args.key] =
                      [value |-> call[c].args.value,
                       version |-> cache[call[c].args.key].version + 1]]
                 /\ clientMap' = [clientMap EXCEPT ![c] = [op |-> "Put", err |-> "OK"]]
                 /\ Answer(c, [op |-> "Put", err |-> "OK"])
              \/ /\ \E err \in {"OK", "ErrNoKey", "ErrVersion"} :
                      /\ Answer(c, [op |-> "Put", err |-> err])
                      /\ err = "OK" =>
                           /\ call[c].args.version = cache[call[c].args.key].version
                           /\ clientMap[c] = [op |-> "Put", err |-> "OK"]
                 /\ cache' = cache
                 /\ clientMap' = clientMap
BY DEF ServerPut

(* KVServer.Put keeps the types. *)
LEMMA ServerPutType ==
    ASSUME KVTypeOK, NEW c \in Client, ServerPut(c)
    PROVE  KVTypeOK'
<1>1. call[c] # Idle
  BY DEF ServerPut, Idle
<1>2. \A err \in {"OK", "ErrNoKey", "ErrVersion"} : [op |-> "Put", err |-> err] \in Reply
  BY DEF Reply, PutReply
<1>3. call' \in [Client -> Call]
  BY <1>1, <1>2, AnswerType, ServerPutSteps
<1>4. clientMap' \in [Client -> Reply]
  BY <1>2, ServerPutSteps DEF KVTypeOK
<1>5. /\ cache' \in [Key -> [value : Value \cup {NoValue}, version : Nat]]
      /\ \A k \in Key : cache'[k].version = 0 <=> cache'[k].value = NoValue
  <2>1. /\ call[c].args.key \in Key
        /\ call[c].args.value \in Value
        /\ call[c].args.version \in Nat
    BY <1>1, RequestFields, ServerPutSteps
  <2>2. CASE cache' = cache
    BY <2>2 DEF KVTypeOK
  <2>3. CASE cache' = [cache EXCEPT ![call[c].args.key] =
                         [value |-> call[c].args.value,
                          version |-> cache[call[c].args.key].version + 1]]
    <3> DEFINE k0 == call[c].args.key
               n == cache[k0].version + 1
               pair == [value |-> call[c].args.value, version |-> n]
    <3>1. cache[k0].version \in Nat
      BY <2>1 DEF KVTypeOK
    <3>2. n \in Nat /\ n # 0
      BY <3>1
    <3>3. pair \in [value : Value \cup {NoValue}, version : Nat] /\ pair.version # 0
          /\ pair.value # NoValue
      BY <2>1, <3>2, ValueAssumption
    <3>4. cache' = [cache EXCEPT ![k0] = pair]
      BY <2>3
    <3> HIDE DEF pair, n, k0
    <3> QED
      BY <3>3, <3>4 DEF KVTypeOK
  <2> QED
    BY <2>2, <2>3, ServerPutSteps
<1> QED
  BY <1>3, <1>4, <1>5, ServerPutSteps DEF KVTypeOK

(* A lost message keeps the types. *)
LEMMA DropType ==
    ASSUME KVTypeOK, NEW c \in Client, Drop(c)
    PROVE  KVTypeOK'
<1>1. call[c] # Idle
  BY DEF Drop, Idle
<1>2. [phase |-> "request", args |-> call[c].args, first |-> FALSE] \in Call
  BY <1>1, RequestFields DEF Call
<1> QED
  BY <1>2 DEF KVTypeOK, Drop

(* What Acquire and Release read from a Get that returned. *)
LEMMA GotFields ==
    ASSUME KVTypeOK, NEW c \in Client, Got(c, "Get")
    PROVE  result[c].version \in Nat /\ result[c].err \in {"OK", "ErrNoKey"}
BY DEF KVTypeOK, Got, Reply, GetReply, PutReply, NoReply

(* Every step of Acquire and Release keeps the types of the key/value      *)
(* service.                                                                *)
LEMMA LockStepType ==
    ASSUME KVTypeOK, NEW c \in Client, Acquire(c) \/ LockStep(c)
    PROVE  KVTypeOK'
<1>1. CASE Get(c, l)
  BY <1>1, GetType
<1>2. CASE UNCHANGED kvVars
  BY <1>2 DEF kvVars, KVTypeOK
<1>3. CASE Put(c, l, c, 0)
  BY <1>3, PutType, LockValues
<1>4. CASE Got(c, "Get") /\ Put(c, l, c, result[c].version)
  BY <1>4, PutType, GotFields, LockValues
<1>5. CASE Got(c, "Get") /\ Put(c, l, Free, result[c].version)
  BY <1>5, PutType, GotFields, LockValues
<1> QED
  BY <1>1, <1>2, <1>3, <1>4, <1>5
     DEF Acquire, LockStep, AcquireGot, AcquirePut, Release, ReleaseGot, ReleasePut

(* Every step of the lock, the clerks, the server and the network keeps    *)
(* the types.                                                              *)
LEMMA LockTypeStep ==
    ASSUME LockTypeOK, [LockNext]_vars
    PROVE  LockTypeOK'
<1>1. CASE UNCHANGED vars
  BY <1>1 DEF vars, LockTypeOK, KVTypeOK
<1>2. CASE LockNext
  <2>1. PICK c \in Client :
           \/ Acquire(c) \/ LockStep(c)
           \/ (Return(c) \/ ServerGet(c) \/ ServerPut(c) \/ Drop(c)) /\ UNCHANGED <<pc, rounds>>
    BY <1>2 DEF LockNext
  <2>2. KVTypeOK'
    BY <2>1, LockStepType, ReturnType, ServerGetType, ServerPutType, DropType DEF LockTypeOK
  <2>3. pc' \in [Client -> {"out", "acquire", "holding", "release"}] /\ rounds' \in [Client -> Nat]
    BY <2>1 DEF LockTypeOK, Acquire, LockStep, AcquireGot, AcquirePut, Release, ReleaseGot,
                ReleasePut, Goto
  <2> QED
    BY <2>2, <2>3 DEF LockTypeOK
<1> QED
  BY <1>1, <1>2

(* The initial state of server, clerks and locks has the types. *)
LEMMA LockInitType == LockInit => LockTypeOK
BY DEF LockInit, KVInit, LockTypeOK, KVTypeOK, Call, Reply

(* The state of the server, of the clerks and of the locks always has its  *)
(* type, and a key exists exactly if its version is not 0.                 *)
THEOREM LockTypeCorrect == LockSpec => []LockTypeOK
BY LockInitType, LockTypeStep, PTL DEF LockSpec

-----------------------------------------------------------------------------
(* Mutual exclusion.                                                       *)

(* What LockInv says of one client. *)
ClientInv(c) ==
    /\ pc[c] = "holding" => cache[l].value = c
    /\ RepliesTrue(c)
    /\ ClaimTrue(c)

(* LockInv is about the clients one by one. *)
LEMMA LockInvByClient == LockInv <=> \A c \in Client : ClientInv(c)
BY DEF LockInv, ClientInv

(* Nothing changes for a client if neither its own state nor the lock's    *)
(* key changes.                                                            *)
LEMMA Untouched ==
    ASSUME NEW d \in Client, ClientInv(d), cache'[l] = cache[l],
           clientMap'[d] = clientMap[d], result'[d] = result[d], call'[d] = call[d],
           pc'[d] = pc[d]
    PROVE  ClientInv(d)'
<1>1. Replies(d)' = Replies(d)
  BY DEF Replies
<1>2. RepliesTrue(d)'
  BY <1>1 DEF RepliesTrue, ClientInv
<1>3. ClaimTrue(d)'
  BY DEF ClaimTrue, ClientInv
<1> QED
  BY <1>2, <1>3 DEF ClientInv

(* A step of c that leaves the lock's key alone keeps LockInv if it keeps  *)
(* what LockInv says of c.                                                 *)
LEMMA OnlyOneMoves ==
    ASSUME LockTypeOK, LockInv, NEW c \in Client, cache'[l] = cache[l], ClientInv(c)',
           \A d \in Client \ {c} :
              /\ clientMap'[d] = clientMap[d]
              /\ result'[d] = result[d]
              /\ call'[d] = call[d]
              /\ pc'[d] = pc[d]
    PROVE  LockInv'
<1>1. \A d \in Client : ClientInv(d)
  BY LockInvByClient
<1>2. ASSUME NEW d \in Client PROVE ClientInv(d)'
  <2>1. CASE d = c
    BY <2>1
  <2>2. CASE d # c
    BY <1>1, <2>2, Untouched
  <2> QED
    BY <2>1, <2>2
<1> QED
  BY <1>2 DEF LockInv, ClientInv

(* Acquire and Release call Get, or Put with a claim that is true. *)
LEMMA InvokeInv ==
    ASSUME LockTypeOK, LockInv, NEW c \in Client, NEW args \in Requests, Invoke(c, args),
           args.key = l, NEW where \in {"acquire", "release"}, pc' = [pc EXCEPT ![c] = where],
           args.op = "Put" =>
             /\ args.version <= cache[l].version
             /\ where = "acquire" =>
                  /\ args.value = c
                  /\ args.version = cache[l].version => cache[l].value \in {NoValue, Free}
             /\ where = "release" =>
                  /\ args.value = Free
                  /\ args.version = cache[l].version => cache[l].value = c
    PROVE  LockInv'
<1>1. /\ call'[c] = [phase |-> "request", args |-> args, first |-> TRUE]
      /\ clientMap'[c] = NoReply
      /\ result'[c] = NoReply
      /\ pc'[c] = where
      /\ cache' = cache
  BY DEF LockTypeOK, KVTypeOK, Invoke
<1>2. \A d \in Client \ {c} :
         /\ clientMap'[d] = clientMap[d]
         /\ result'[d] = result[d]
         /\ call'[d] = call[d]
         /\ pc'[d] = pc[d]
  BY DEF LockTypeOK, KVTypeOK, Invoke
<1>3. Replies(c)' = {NoReply}
  BY <1>1 DEF Replies
<1>4. RepliesTrue(c)'
  BY <1>3 DEF RepliesTrue, NoReply
<1>5. ClaimTrue(c)'
  BY <1>1 DEF ClaimTrue, NoReply
<1>6. ClientInv(c)'
  BY <1>1, <1>4, <1>5 DEF ClientInv
<1> QED
  BY <1>1, <1>2, <1>6, OnlyOneMoves

(* Acquire or Release returns: to a lock that is c's, or to the outside. *)
LEMMA LeaveInv ==
    ASSUME LockTypeOK, LockInv, NEW c \in Client, UNCHANGED kvVars, call[c] = Idle,
           NEW where \in {"holding", "out"}, pc' = [pc EXCEPT ![c] = where],
           where = "holding" => cache[l].value = c
    PROVE  LockInv'
<1>1. pc'[c] = where /\ cache' = cache /\ call'[c] = Idle
      /\ clientMap' = clientMap /\ result' = result /\ call' = call
  BY DEF LockTypeOK, kvVars
<1>2. \A d \in Client \ {c} : pc'[d] = pc[d]
  BY DEF LockTypeOK
<1>3. RepliesTrue(c)'
  <2>1. Replies(c)' = Replies(c)
    BY <1>1 DEF Replies
  <2> QED
    BY <1>1, <2>1 DEF RepliesTrue, LockInv
<1>4. ClientInv(c)'
  BY <1>1, <1>3 DEF ClientInv, ClaimTrue
<1> QED
  BY <1>1, <1>2, <1>4, OnlyOneMoves

(* A Get that returned told c about the lock. *)
LEMMA GotTrue ==
    ASSUME LockTypeOK, LockInv, NEW c \in Client, Got(c, "Get")
    PROVE  /\ result[c].version \in Nat
           /\ result[c].version <= cache[l].version
           /\ result[c].version = cache[l].version => result[c].value = cache[l].value
           /\ result[c].err = "ErrNoKey" => result[c].version = 0
           /\ result[c].value = c => cache[l].value = c
<1>1. result[c] \in Replies(c)
  BY DEF Replies
<1>2. RepliesTrue(c)
  BY DEF LockInv
<1> QED
  BY <1>1, <1>2, GotFields DEF RepliesTrue, Got, LockTypeOK

(* The version and the value of the lock's key. *)
LEMMA LockKeyFields ==
    ASSUME LockTypeOK
    PROVE  /\ cache[l].version \in Nat
           /\ cache[l].version = 0 <=> cache[l].value = NoValue
BY LockKeyAssumption DEF LockTypeOK, KVTypeOK

(* The Get of Acquire and Release. *)
LEMMA CallGetInv ==
    ASSUME LockTypeOK, LockInv, NEW c \in Client, Get(c, l),
           NEW where \in {"acquire", "release"}, pc' = [pc EXCEPT ![c] = where]
    PROVE  LockInv'
<1> DEFINE args == [op |-> "Get", key |-> l]
<1>1. args \in Requests /\ args.key = l /\ args.op # "Put"
  BY LockKeyAssumption DEF Requests
<1>2. Invoke(c, args)
  BY DEF Get
<1> HIDE DEF args
<1> QED
  BY <1>1, <1>2, InvokeInv

(* The Put of Acquire: of a version at which the lock is free. *)
LEMMA CallAcquirePutInv ==
    ASSUME LockTypeOK, LockInv, NEW c \in Client, pc[c] = "acquire", pc' = pc,
           NEW n \in Nat, Put(c, l, c, n), n <= cache[l].version,
           n = cache[l].version => cache[l].value \in {NoValue, Free}
    PROVE  LockInv'
<1> DEFINE args == [op |-> "Put", key |-> l, value |-> c, version |-> n]
<1>1. args \in Requests /\ args.key = l /\ args.value = c /\ args.version = n
  BY LockKeyAssumption, LockValues DEF Requests
<1>2. Invoke(c, args)
  BY DEF Put
<1>3. pc' = [pc EXCEPT ![c] = "acquire"]
  BY DEF LockTypeOK
<1> HIDE DEF args
<1> QED
  BY <1>1, <1>2, <1>3, InvokeInv

(* The Put of Release: of a version at which the lock is c's. *)
LEMMA CallReleasePutInv ==
    ASSUME LockTypeOK, LockInv, NEW c \in Client, pc[c] = "release", pc' = pc,
           NEW n \in Nat, Put(c, l, Free, n), n <= cache[l].version,
           n = cache[l].version => cache[l].value = c
    PROVE  LockInv'
<1> DEFINE args == [op |-> "Put", key |-> l, value |-> Free, version |-> n]
<1>1. args \in Requests /\ args.key = l /\ args.value = Free /\ args.version = n
  BY LockKeyAssumption, LockValues DEF Requests
<1>2. Invoke(c, args)
  BY DEF Put
<1>3. pc' = [pc EXCEPT ![c] = "release"]
  BY DEF LockTypeOK
<1> HIDE DEF args
<1> QED
  BY <1>1, <1>2, <1>3, InvokeInv

(* Acquire decides on what its Get returned. *)
LEMMA AcquireGotInv ==
    ASSUME LockTypeOK, LockInv, NEW c \in Client, AcquireGot(c)
    PROVE  LockInv'
<1>1. pc[c] = "acquire" /\ Got(c, "Get") /\ call[c] = Idle
  BY DEF AcquireGot, Got
<1>2. CASE result[c].err = "ErrNoKey" /\ Put(c, l, c, 0) /\ pc' = pc
  <2>1. 0 \in Nat /\ 0 <= cache[l].version
        /\ (0 = cache[l].version => cache[l].value \in {NoValue, Free})
    BY LockKeyFields
  <2> QED
    BY <1>1, <1>2, <2>1, CallAcquirePutInv
<1>3. CASE result[c].value = c /\ Goto(c, "holding") /\ UNCHANGED kvVars
  BY <1>1, <1>3, GotTrue, LeaveInv DEF Goto
<1>4. CASE result[c].value = Free /\ Put(c, l, c, result[c].version) /\ pc' = pc
  BY <1>1, <1>4, GotTrue, CallAcquirePutInv
<1>5. CASE Get(c, l) /\ pc' = pc
  <2>1. pc' = [pc EXCEPT ![c] = "acquire"]
    BY <1>1, <1>5 DEF LockTypeOK
  <2> QED
    BY <1>5, <2>1, CallGetInv
<1> QED
  BY <1>2, <1>3, <1>4, <1>5 DEF AcquireGot

(* Acquire returns after a Put that succeeded, or starts again. *)
LEMMA AcquirePutInv ==
    ASSUME LockTypeOK, LockInv, NEW c \in Client, AcquirePut(c)
    PROVE  LockInv'
<1>1. pc[c] = "acquire" /\ call[c] = Idle /\ result[c].op = "Put"
  BY DEF AcquirePut, Got
<1>2. CASE result[c].err = "OK" /\ Goto(c, "holding") /\ UNCHANGED kvVars
  <2>1. result[c] \in PutReply
    BY <1>1 DEF LockTypeOK, KVTypeOK, Reply, GetReply, NoReply
  <2>2. result[c] = [op |-> "Put", err |-> "OK"]
    BY <1>2, <2>1 DEF PutReply
  <2>3. cache[l].value = c
    BY <1>1, <2>2 DEF LockInv, RepliesTrue, Replies
  <2> QED
    BY <1>1, <1>2, <2>3, LeaveInv DEF Goto
<1>3. CASE Get(c, l) /\ pc' = pc
  <2>1. pc' = [pc EXCEPT ![c] = "acquire"]
    BY <1>1, <1>3 DEF LockTypeOK
  <2> QED
    BY <1>3, <2>1, CallGetInv
<1> QED
  BY <1>2, <1>3 DEF AcquirePut

(* Release frees the lock only at the version at which it is c's. *)
LEMMA ReleaseGotInv ==
    ASSUME LockTypeOK, LockInv, NEW c \in Client, ReleaseGot(c)
    PROVE  LockInv'
<1>1. pc[c] = "release" /\ Got(c, "Get") /\ call[c] = Idle
  BY DEF ReleaseGot, Got
<1>2. CASE result[c].value = c /\ Put(c, l, Free, result[c].version) /\ pc' = pc
  BY <1>1, <1>2, GotTrue, CallReleasePutInv
<1>3. CASE Goto(c, "out") /\ UNCHANGED kvVars
  BY <1>1, <1>3, LeaveInv DEF Goto
<1> QED
  BY <1>2, <1>3 DEF ReleaseGot

(* Release returns after a Put that succeeded, or starts again. *)
LEMMA ReleasePutInv ==
    ASSUME LockTypeOK, LockInv, NEW c \in Client, ReleasePut(c)
    PROVE  LockInv'
<1>1. pc[c] = "release" /\ call[c] = Idle
  BY DEF ReleasePut, Got
<1>2. CASE Goto(c, "out") /\ UNCHANGED kvVars
  BY <1>1, <1>2, LeaveInv DEF Goto
<1>3. CASE Get(c, l) /\ pc' = pc
  <2>1. pc' = [pc EXCEPT ![c] = "release"]
    BY <1>1, <1>3 DEF LockTypeOK
  <2> QED
    BY <1>3, <2>1, CallGetInv
<1> QED
  BY <1>2, <1>3 DEF ReleasePut

(* A reply that arrives is as true as it was on its way; ErrMaybe claims   *)
(* nothing.                                                                *)
LEMMA ReturnInv ==
    ASSUME LockTypeOK, LockInv, NEW c \in Client, Return(c), pc' = pc
    PROVE  LockInv'
<1>1. /\ call' = [call EXCEPT ![c] = Idle]
      /\ cache' = cache
      /\ clientMap' = clientMap
      /\ \A d \in Client \ {c} : result'[d] = result[d] /\ call'[d] = call[d]
      /\ result'[c] \in {[op |-> "Put", err |-> "ErrMaybe"], call[c].reply}
      /\ call'[c] = Idle
  BY DEF LockTypeOK, KVTypeOK, Return
<1>2. Replies(c)' \subseteq Replies(c) \cup {[op |-> "Put", err |-> "ErrMaybe"]}
  BY <1>1 DEF Replies, Return, Idle
<1>3. RepliesTrue(c)'
  BY <1>1, <1>2 DEF RepliesTrue, LockInv
<1>4. ClientInv(c)'
  BY <1>1, <1>3 DEF ClientInv, ClaimTrue, LockInv
<1> QED
  BY <1>1, <1>4, OnlyOneMoves

(* A Get tells what the key is, or once was to this very operation. *)
LEMMA ServerGetInv ==
    ASSUME LockTypeOK, LockInv, NEW c \in Client, ServerGet(c), pc' = pc
    PROVE  LockInv'
<1> DEFINE fresh == [op |-> "Get", err |-> IF cache[l].version = 0 THEN "ErrNoKey" ELSE "OK",
                     value |-> cache[l].value, version |-> cache[l].version]
           reply == IF clientMap[c].op = "Get" THEN clientMap[c] ELSE fresh
           new == [phase |-> "reply", args |-> call[c].args, first |-> call[c].first,
                   reply |-> reply]
<1>1. call[c] # Idle /\ call[c].args.op = "Get"
  BY DEF ServerGet, Idle
<1>2. call[c].args.key = l /\ pc[c] \in {"acquire", "release"} /\ result[c] = NoReply
  BY <1>1 DEF LockInv, ClaimTrue
<1>3. /\ call' = [call EXCEPT ![c] = new]
      /\ clientMap' = [clientMap EXCEPT ![c] = reply]
      /\ cache' = cache
      /\ result' = result
  BY <1>2 DEF ServerGet, Answer
<1>4. reply.op = "Get"
  OBVIOUS
<1>5. fresh.version = cache[l].version /\ fresh.value = cache[l].value
      /\ (fresh.err = "ErrNoKey" => fresh.version = 0) /\ fresh.op = "Get"
  OBVIOUS
<1>6. new.phase = "reply" /\ new.reply = reply /\ new.args = call[c].args /\ new # Idle
  BY DEF Idle
<1>7. reply \in Replies(c) \/ reply = fresh
  BY DEF Replies
<1> HIDE DEF fresh, reply, new
<1>8. /\ call'[c] = new
      /\ clientMap'[c] = reply
      /\ \A d \in Client \ {c} : clientMap'[d] = clientMap[d] /\ call'[d] = call[d]
  BY <1>3 DEF LockTypeOK, KVTypeOK
<1>9. Replies(c)' \subseteq {NoReply, reply}
  BY <1>2, <1>3, <1>6, <1>8 DEF Replies
<1>10. RepliesTrue(c)'
  <2>1. CASE reply \in Replies(c)
    BY <1>3, <1>4, <1>9, <2>1 DEF RepliesTrue, LockInv, NoReply
  <2>2. CASE reply = fresh
    <3>1. cache[l].version <= cache[l].version
      BY LockKeyFields
    <3>2. fresh # [op |-> "Put", err |-> "OK"]
      BY <1>5
    <3> QED
      BY <1>3, <1>5, <1>9, <2>2, <3>1, <3>2 DEF RepliesTrue, NoReply
  <2> QED
    BY <1>7, <2>1, <2>2
<1>11. ClaimTrue(c)'
  BY <1>1, <1>2, <1>3, <1>4, <1>6, <1>8 DEF ClaimTrue
<1>12. ClientInv(c)'
  BY <1>2, <1>10, <1>11 DEF ClientInv
<1> QED
  BY <1>3, <1>8, <1>12, OnlyOneMoves

(* A lost message is a reply less to rely on. *)
LEMMA DropInv ==
    ASSUME LockTypeOK, LockInv, NEW c \in Client, Drop(c), pc' = pc
    PROVE  LockInv'
<1> DEFINE new == [phase |-> "request", args |-> call[c].args, first |-> FALSE]
<1>1. call[c] # Idle
  BY DEF Drop, Idle
<1>2. /\ call'[c] = new
      /\ cache' = cache
      /\ clientMap' = clientMap
      /\ result' = result
      /\ \A d \in Client \ {c} : call'[d] = call[d]
  BY DEF LockTypeOK, KVTypeOK, Drop
<1>3. new.phase = "request" /\ new.args = call[c].args
  OBVIOUS
<1> HIDE DEF new
<1>4. Replies(c)' \subseteq Replies(c)
  BY <1>2, <1>3 DEF Replies
<1>5. RepliesTrue(c)'
  BY <1>2, <1>4 DEF RepliesTrue, LockInv
<1>6. ClaimTrue(c)'
  BY <1>1, <1>2, <1>3 DEF ClaimTrue, LockInv
<1>7. ClientInv(c)'
  BY <1>2, <1>5, <1>6 DEF ClientInv, LockInv
<1> QED
  BY <1>2, <1>7, OnlyOneMoves

(* A Put that succeeds takes the lock from nobody: it finds it free, or    *)
(* the caller's own.                                                       *)
LEMMA WriteTakesFromNobody ==
    ASSUME LockTypeOK, LockInv, NEW c \in Client, NEW d \in Client, d # c,
           call[c] # Idle, call[c].args.op = "Put", call[c].args.version = cache[l].version
    PROVE  cache[l].value # d
<1>1. ClaimTrue(c)
  BY DEF LockInv
<1>2. cache[l].value \in {NoValue, Free, c}
  BY <1>1 DEF ClaimTrue
<1> QED
  BY <1>2, LockValues

(* The Put that succeeds: afterwards the lock is c's or free, every other  *)
(* client's claim is out of date, and no other client believes to own it.  *)
LEMMA ServerWriteInv ==
    ASSUME LockTypeOK, LockInv, NEW c \in Client, pc' = pc, result' = result,
           call[c].phase = "request", call[c].args.op = "Put",
           call[c].args.version = cache[call[c].args.key].version,
           cache' = [cache EXCEPT ![call[c].args.key] =
                       [value |-> call[c].args.value,
                        version |-> cache[call[c].args.key].version + 1]],
           clientMap' = [clientMap EXCEPT ![c] = [op |-> "Put", err |-> "OK"]],
           Answer(c, [op |-> "Put", err |-> "OK"])
    PROVE  LockInv'
<1> DEFINE ok == [op |-> "Put", err |-> "OK"]
           v == cache[l].version
           new == [phase |-> "reply", args |-> call[c].args, first |-> call[c].first,
                   reply |-> ok]
<1>1. call[c] # Idle
  BY DEF Idle
<1>2. /\ call[c].args.key = l
      /\ pc[c] \in {"acquire", "release"}
      /\ pc[c] = "acquire" => call[c].args.value = c
      /\ pc[c] = "release" => call[c].args.value = Free
      /\ result[c] = NoReply
  BY <1>1 DEF LockInv, ClaimTrue
<1>3. v \in Nat
  BY LockKeyFields
<1>4. cache'[l].version = v + 1 /\ cache'[l].value = call[c].args.value
  BY <1>2, LockKeyAssumption DEF LockTypeOK, KVTypeOK
<1>5. ok.op = "Put" /\ new.phase = "reply" /\ new.reply = ok /\ new.args = call[c].args
  OBVIOUS
<1>6. call' = [call EXCEPT ![c] = new] /\ clientMap' = [clientMap EXCEPT ![c] = ok]
  BY DEF Answer
<1>7. call[c].args.version = v
  BY <1>2
<1> HIDE DEF new, v
<1>8. /\ call'[c] = new
      /\ clientMap'[c] = ok
      /\ \A d \in Client \ {c} : clientMap'[d] = clientMap[d] /\ call'[d] = call[d]
  BY <1>6 DEF LockTypeOK, KVTypeOK
<1>9. ClientInv(c)'
  <2>1. Replies(c)' = {NoReply, ok}
    BY <1>2, <1>5, <1>8 DEF Replies
  <2>2. RepliesTrue(c)'
    BY <1>2, <1>4, <2>1 DEF RepliesTrue, NoReply
  <2>3. v <= v + 1 /\ v < v + 1 /\ v # v + 1
    BY <1>3
  <2>4. ClaimTrue(c)'
    BY <1>2, <1>4, <1>5, <1>7, <1>8, <2>3 DEF ClaimTrue
  <2> QED
    BY <1>2, <2>2, <2>4 DEF ClientInv
<1>10. ASSUME NEW d \in Client \ {c} PROVE ClientInv(d)'
  <2>1. cache[l].value # d
    BY <1>1, <1>7, WriteTakesFromNobody DEF v
  <2>2. RepliesTrue(d) /\ ClaimTrue(d) /\ pc[d] # "holding"
    BY <2>1 DEF LockInv
  <2>3. Replies(d)' = Replies(d)
    BY <1>8 DEF Replies
  <2>4. RepliesTrue(d)'
    <3>1. SUFFICES ASSUME NEW r \in Replies(d)
                   PROVE  /\ r.op = "Get" =>
                               /\ r.version <= cache'[l].version
                               /\ r.version = cache'[l].version => r.value = cache'[l].value
                               /\ r.err = "ErrNoKey" => r.version = 0
                               /\ r.value = d => cache'[l].value = d
                          /\ ~(r = ok /\ pc[d] = "acquire")
      BY <2>3 DEF RepliesTrue
    <3>2. ~(r = ok /\ pc[d] = "acquire")
      BY <2>1, <2>2 DEF RepliesTrue
    <3>3. ASSUME r.op = "Get"
          PROVE  /\ r.version <= v
                 /\ r.err = "ErrNoKey" => r.version = 0
                 /\ r.value # d
      BY <2>1, <2>2, <3>3 DEF RepliesTrue, v
    <3>4. r \in Reply
      BY RequestFields DEF Replies, LockTypeOK, KVTypeOK, Idle
    <3>5. r.op = "Get" => r.version \in Nat
      BY <3>4 DEF Reply, GetReply, PutReply, NoReply
    <3>6. r.op = "Get" => r.version <= v + 1 /\ r.version # v + 1
      BY <1>3, <3>3, <3>5
    <3> QED
      BY <1>4, <3>2, <3>3, <3>6
  <2>5. ClaimTrue(d)'
    <3>1. CASE call[d] = Idle
      BY <1>8, <3>1 DEF ClaimTrue
    <3>2. CASE call[d] # Idle /\ call[d].args.op # "Put"
      BY <1>8, <2>2, <3>2 DEF ClaimTrue
    <3>3. CASE call[d] # Idle /\ call[d].args.op = "Put"
      <4>1. call[d].args.version \in Nat
        BY <3>3, RequestFields DEF LockTypeOK
      <4>2. call[d].args.version <= v
        BY <2>2, <3>3 DEF ClaimTrue, v
      <4>3. /\ call[d].args.version <= v + 1
            /\ call[d].args.version < v + 1
            /\ call[d].args.version # v + 1
        BY <1>3, <4>1, <4>2
      <4> QED
        BY <1>4, <1>8, <2>2, <3>3, <4>3 DEF ClaimTrue
    <3> QED
      BY <3>1, <3>2, <3>3
  <2> QED
    BY <2>2, <2>4, <2>5 DEF ClientInv
<1> QED
  BY <1>9, <1>10 DEF LockInv, ClientInv

(* The Put that fails tells c nothing. *)
LEMMA ServerRefuseInv ==
    ASSUME LockTypeOK, LockInv, NEW c \in Client, pc' = pc, result' = result,
           call[c].phase = "request", call[c].args.op = "Put",
           NEW err \in {"OK", "ErrNoKey", "ErrVersion"}, Answer(c, [op |-> "Put", err |-> err]),
           err = "OK" => clientMap[c] = [op |-> "Put", err |-> "OK"],
           cache' = cache, clientMap' = clientMap
    PROVE  LockInv'
<1> DEFINE reply == [op |-> "Put", err |-> err]
           new == [phase |-> "reply", args |-> call[c].args, first |-> call[c].first,
                   reply |-> reply]
<1>1. call[c] # Idle
  BY DEF Idle
<1>2. new.phase = "reply" /\ new.reply = reply /\ new.args = call[c].args
  OBVIOUS
<1>3. /\ reply.op = "Put"
      /\ reply = [op |-> "Put", err |-> "OK"] => err = "OK"
  OBVIOUS
<1>4. call' = [call EXCEPT ![c] = new]
  BY DEF Answer
<1>5. reply = [op |-> "Put", err |-> "OK"] => reply \in Replies(c)
  BY <1>3 DEF Replies
<1> HIDE DEF new, reply
<1>6. call'[c] = new /\ \A d \in Client \ {c} : call'[d] = call[d]
  BY <1>4 DEF LockTypeOK, KVTypeOK
<1>7. Replies(c)' \subseteq Replies(c) \cup {reply}
  BY <1>2, <1>6 DEF Replies
<1>8. RepliesTrue(c)'
  BY <1>3, <1>5, <1>7 DEF RepliesTrue, LockInv
<1>9. ClaimTrue(c)'
  BY <1>1, <1>2, <1>3, <1>6 DEF ClaimTrue, LockInv
<1>10. ClientInv(c)'
  BY <1>8, <1>9 DEF ClientInv, LockInv
<1> QED
  BY <1>6, <1>10, OnlyOneMoves

(* Every step of the lock, the clerks, the server and the network keeps    *)
(* LockInv.                                                                *)
LEMMA LockInvStep ==
    ASSUME LockTypeOK, LockInv, [LockNext]_vars
    PROVE  LockInv'
<1>1. CASE UNCHANGED vars
  <2>1. cache' = cache /\ clientMap' = clientMap /\ call' = call /\ result' = result /\ pc' = pc
    BY <1>1 DEF vars
  <2>2. \A d \in Client : ClientInv(d)
    BY LockInvByClient
  <2>3. \A d \in Client : ClientInv(d)'
    BY <2>1, <2>2, Untouched
  <2> QED
    BY <2>3 DEF LockInv, ClientInv
<1>2. ASSUME NEW c \in Client, Acquire(c) PROVE LockInv'
  BY <1>2, CallGetInv DEF Acquire, Goto
<1>3. ASSUME NEW c \in Client, Release(c) PROVE LockInv'
  BY <1>3, CallGetInv DEF Release, Goto
<1>4. ASSUME NEW c \in Client, ServerPut(c), pc' = pc PROVE LockInv'
  BY <1>4, ServerPutSteps, ServerWriteInv, ServerRefuseInv
<1>5. ASSUME NEW c \in Client, Return(c) \/ ServerGet(c) \/ Drop(c), pc' = pc
      PROVE  LockInv'
  BY <1>5, ReturnInv, ServerGetInv, DropInv
<1>6. ASSUME NEW c \in Client,
             AcquireGot(c) \/ AcquirePut(c) \/ ReleaseGot(c) \/ ReleasePut(c)
      PROVE  LockInv'
  BY <1>6, AcquireGotInv, AcquirePutInv, ReleaseGotInv, ReleasePutInv
<1>7. CASE LockNext
  BY <1>2, <1>3, <1>4, <1>5, <1>6, <1>7 DEF LockNext, LockStep
<1> QED
  BY <1>1, <1>7

(* Nobody has the lock, or anything to say about it, at the start. *)
LEMMA LockInvInit == LockInit => LockInv
<1> SUFFICES ASSUME LockInit, NEW c \in Client PROVE ClientInv(c)
  BY LockInvByClient
<1>1. pc[c] = "out" /\ call[c] = Idle /\ clientMap[c] = NoReply /\ result[c] = NoReply
  BY DEF LockInit, KVInit
<1>2. Replies(c) = {NoReply}
  BY <1>1 DEF Replies, Idle
<1> QED
  BY <1>1, <1>2 DEF ClientInv, RepliesTrue, ClaimTrue, NoReply

(* The state of the server, the messages on their way and what the clients *)
(* remember always agree on who has the lock.                              *)
THEOREM LockInvariant == LockSpec => []LockInv
BY LockInvInit, LockInvStep, LockTypeCorrect, PTL DEF LockSpec

(* Never do two clients hold the lock between Acquire and Release, for     *)
(* any number of clients and however many messages are lost.               *)
THEOREM LockIsExclusive == LockSpec => []MutualExclusion
<1>1. LockInv => MutualExclusion
  BY DEF LockInv, MutualExclusion
<1> QED
  BY <1>1, LockInvariant, PTL
=============================================================================
