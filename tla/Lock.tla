-------------------------------- MODULE Lock --------------------------------
(* The lock of kvsrv1/lock on top of the key/value server: the lock's key  *)
(* holds the identifier of its holder, or Free once it was released. The   *)
(* clients follow the use in the lock's tests: acquire, release, again.    *)
EXTENDS KVServer

CONSTANTS
    l,           \* the lock's key
    Free,        \* the empty string
    MaxRounds    \* bound: how often a client acquires the lock

ASSUME LockKeyAssumption == l \in Key
ASSUME LockValueAssumption == Client \cup {Free} \subseteq Value /\ Free \notin Client
ASSUME RoundsAssumption == MaxRounds \in Nat

VARIABLES
    pc,          \* pc[c]: outside, in Acquire, holding the lock, in Release
    rounds       \* rounds[c]: Acquires started

vars == <<cache, clientMap, call, result, pc, rounds>>

Goto(c, where) == pc' = [pc EXCEPT ![c] = where]

(* The clerk's call in the body of the loop has returned. *)
Got(c, op) == call[c] = Idle /\ result[c].op = op

-----------------------------------------------------------------------------
(* Acquire.                                                                *)

(* The loop of Acquire starts with a Get. *)
Acquire(c) ==
    /\ pc[c] = "out"
    /\ rounds[c] < MaxRounds
    /\ rounds' = [rounds EXCEPT ![c] = @ + 1]
    /\ Goto(c, "acquire")
    /\ Get(c, l)

(* Seeded fault: a lock that was taken by an earlier attempt of this very  *)
(* Acquire is taken for somebody else's.                                   *)
AcquireGotNotOwn(c) ==
    /\ pc[c] = "acquire" /\ Got(c, "Get")
    /\ \/ /\ result[c].err = "ErrNoKey" \/ result[c].value = Free
          /\ Put(c, l, c, result[c].version)
          /\ UNCHANGED pc
       \/ /\ result[c].err = "OK" /\ result[c].value # Free
          /\ Get(c, l)
          /\ UNCHANGED pc
    /\ UNCHANGED rounds

(* Acquire knows the lock's state: no key and a free lock are claimed, its *)
(* own lock is held, for any other it waits 10ms and looks again.          *)
AcquireGot(c) ==
    /\ pc[c] = "acquire" /\ Got(c, "Get")
    /\ \/ /\ result[c].err = "ErrNoKey"
          /\ Put(c, l, c, 0)
          /\ UNCHANGED pc
       \/ /\ result[c].err = "OK" /\ result[c].value = c
          /\ Goto(c, "holding")
          /\ UNCHANGED kvVars
       \/ /\ result[c].err = "OK" /\ result[c].value = Free
          /\ Put(c, l, c, result[c].version)
          /\ UNCHANGED pc
       \/ /\ result[c].err = "OK" /\ result[c].value \notin {c, Free}
          /\ Get(c, l)
          /\ UNCHANGED pc
    /\ UNCHANGED rounds

(* Acquire returns when its Put succeeded; otherwise the loop goes on. *)
AcquirePut(c) ==
    /\ pc[c] = "acquire" /\ Got(c, "Put")
    /\ \/ result[c].err = "OK" /\ Goto(c, "holding") /\ UNCHANGED kvVars
       \/ result[c].err # "OK" /\ Get(c, l) /\ UNCHANGED pc
    /\ UNCHANGED rounds

-----------------------------------------------------------------------------
(* Release.                                                                *)

Release(c) ==
    /\ pc[c] = "holding"
    /\ Goto(c, "release")
    /\ Get(c, l)
    /\ UNCHANGED rounds

(* Seeded fault: the holder is not compared, so that a Release that is     *)
(* repeated after ErrMaybe frees the lock of the next holder.              *)
ReleaseGotAny(c) ==
    /\ pc[c] = "release" /\ Got(c, "Get")
    /\ Put(c, l, Free, result[c].version)
    /\ UNCHANGED <<pc, rounds>>

(* Only the own lock is freed. *)
ReleaseGot(c) ==
    /\ pc[c] = "release" /\ Got(c, "Get")
    /\ \/ /\ result[c].value = c
          /\ Put(c, l, Free, result[c].version)
          /\ UNCHANGED pc
       \/ /\ result[c].value # c
          /\ Goto(c, "out")
          /\ UNCHANGED kvVars
    /\ UNCHANGED rounds

ReleasePut(c) ==
    /\ pc[c] = "release" /\ Got(c, "Put")
    /\ \/ result[c].err = "OK" /\ Goto(c, "out") /\ UNCHANGED kvVars
       \/ result[c].err # "OK" /\ Get(c, l) /\ UNCHANGED pc
    /\ UNCHANGED rounds

-----------------------------------------------------------------------------
LockInit ==
    /\ KVInit
    /\ pc = [c \in Client |-> "out"]
    /\ rounds = [c \in Client |-> 0]

LockStep(c) ==
    \/ AcquireGot(c)
    \/ AcquirePut(c)
    \/ Release(c)
    \/ ReleaseGot(c)
    \/ ReleasePut(c)

LockNext ==
    \E c \in Client :
        \/ Acquire(c)
        \/ LockStep(c)
        \/ Return(c) /\ UNCHANGED <<pc, rounds>>
        \/ ServerGet(c) /\ UNCHANGED <<pc, rounds>>
        \/ ServerPut(c) /\ UNCHANGED <<pc, rounds>>
        \/ Drop(c) /\ UNCHANGED <<pc, rounds>>

(* A client goes on with the code it is in and releases the lock it holds; *)
(* it need not acquire it again.                                           *)
LockFairness ==
    \A c \in Client :
        /\ WF_vars(LockStep(c))
        /\ WF_vars(Serve(c) /\ UNCHANGED <<pc, rounds>>)
        /\ SF_vars(Return(c) /\ UNCHANGED <<pc, rounds>>)

LockSpec == LockInit /\ [][LockNext]_vars /\ LockFairness

-----------------------------------------------------------------------------
(* Properties.                                                             *)

LockTypeOK ==
    /\ KVTypeOK
    /\ pc \in [Client -> {"out", "acquire", "holding", "release"}]
    /\ rounds \in [Client -> Nat]

(* Acquire and Release: between the return of its Acquire and the call of  *)
(* its Release a client is alone, whatever messages are lost and whatever  *)
(* Puts end in ErrMaybe.                                                   *)
MutualExclusion ==
    \A c, d \in Client : pc[c] = "holding" /\ pc[d] = "holding" => c = d

(* The replies a client can still act on: saved by the server, on their    *)
(* way, or returned by the clerk.                                          *)
Replies(c) ==
    {clientMap[c], result[c]} \cup IF call[c].phase = "reply" THEN {call[c].reply} ELSE {}

(* A reply of the server's that c knows is out of date only if the version *)
(* moved on; but as long as c has not given it up, c's lock stays c's.     *)
RepliesTrue(c) ==
    \A r \in Replies(c) :
        /\ r.op = "Get" =>
             /\ r.version <= cache[l].version
             /\ r.version = cache[l].version => r.value = cache[l].value
             /\ r.err = "ErrNoKey" => r.version = 0
             /\ r.value = c => cache[l].value = c
        /\ r = [op |-> "Put", err |-> "OK"] /\ pc[c] = "acquire" => cache[l].value = c

(* An operation in progress belongs to Acquire or Release and is about the *)
(* lock. The version of its Put is the present one only while the lock is  *)
(* as the Get before it found it: free for Acquire, c's own for Release.   *)
ClaimTrue(c) ==
    call[c] # Idle =>
        /\ pc[c] \in {"acquire", "release"}
        /\ call[c].args.key = l
        /\ result[c] = NoReply
        /\ clientMap[c].op \in {"none", call[c].args.op}
        /\ call[c].phase = "reply" => call[c].reply.op = call[c].args.op
        /\ call[c].args.op = "Put" =>
             /\ call[c].args.version <= cache[l].version
             /\ clientMap[c].op = "Put" => call[c].args.version < cache[l].version
             /\ pc[c] = "acquire" =>
                  /\ call[c].args.value = c
                  /\ call[c].args.version = cache[l].version
                        => cache[l].value \in {NoValue, Free}
             /\ pc[c] = "release" =>
                  /\ call[c].args.value = Free
                  /\ call[c].args.version = cache[l].version => cache[l].value = c

(* The lock's key names its holder: the state of the server, the messages  *)
(* on their way and what the clients remember agree on who has the lock.   *)
LockInv ==
    /\ \A c \in Client : pc[c] = "holding" => cache[l].value = c
    /\ \A c \in Client : RepliesTrue(c)
    /\ \A c \in Client : ClaimTrue(c)

(* Whoever waits in Acquire, somebody gets the lock: no lost reply leaves  *)
(* a lock that nobody holds and nobody can take.                           *)
LockProgress ==
    (\E c \in Client : pc[c] = "acquire") ~> (\E c \in Client : pc[c] = "holding")
=============================================================================
