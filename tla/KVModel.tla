------------------------------ MODULE KVModel ------------------------------
(* What the key/value service promises: every operation takes effect once, *)
(* at some moment between its call and its return, as KvModel.Step of      *)
(* models1/kv.go describes. A Put that returns ErrMaybe may have had       *)
(* either outcome.                                                         *)
EXTENDS Naturals

CONSTANTS Client, Key, Value, NoValue, MaxVersion

VARIABLES
    store,     \* store[k]: value and version, version 0 for no key
    pending,   \* pending[c]: the operation in progress and its outcome
    returned   \* returned[c]: what c's last operation returned, if none is in progress

Idle == [op |-> "none"]

Init ==
    /\ store = [k \in Key |-> [value |-> NoValue, version |-> 0]]
    /\ pending = [c \in Client |-> Idle]
    /\ returned = [c \in Client |-> Idle]

CallGet(c, k) ==
    /\ pending[c] = Idle
    /\ pending' = [pending EXCEPT ![c] = [op |-> "Get", key |-> k]]
    /\ returned' = [returned EXCEPT ![c] = Idle]
    /\ UNCHANGED store

CallPut(c, k, v, version) ==
    /\ pending[c] = Idle
    /\ pending' = [pending EXCEPT ![c] =
                     [op |-> "Put", key |-> k, value |-> v, version |-> version]]
    /\ returned' = [returned EXCEPT ![c] = Idle]
    /\ UNCHANGED store

(* A Get reads the key once. *)
StepGet(c) ==
    /\ pending[c].op = "Get"
    /\ pending' = [pending EXCEPT ![c] = [op |-> "GetDone", out |-> store[pending[c].key]]]
    /\ UNCHANGED <<store, returned>>

(* A Put whose version is the key's writes it. *)
StepPut(c) ==
    /\ pending[c].op = "Put"
    /\ LET k == pending[c].key
       IN  /\ store[k].version = pending[c].version
           /\ store' = [store EXCEPT ![k] = [value |-> pending[c].value,
                                             version |-> @.version + 1]]
    /\ pending' = [pending EXCEPT ![c] = [op |-> "PutDone"]]
    /\ UNCHANGED returned

ReturnGet(c) ==
    /\ pending[c].op = "GetDone"
    /\ pending' = [pending EXCEPT ![c] = Idle]
    /\ returned' = [returned EXCEPT ![c] =
         [op |-> "Get", err |-> IF pending[c].out.version = 0 THEN "ErrNoKey" ELSE "OK",
          value |-> pending[c].out.value, version |-> pending[c].out.version]]
    /\ UNCHANGED store

ReturnPut(c) ==
    /\ pending[c].op = "PutDone"
    /\ pending' = [pending EXCEPT ![c] = Idle]
    /\ \E err \in {"OK", "ErrMaybe"} :
         returned' = [returned EXCEPT ![c] = [op |-> "Put", err |-> err]]
    /\ UNCHANGED store

(* A Put of another version takes effect by changing nothing. *)
RefusePut(c) ==
    /\ pending[c].op = "Put"
    /\ store[pending[c].key].version # pending[c].version
    /\ pending' = [pending EXCEPT ![c] = Idle]
    /\ \E err \in {"ErrVersion", "ErrMaybe"} :
         returned' = [returned EXCEPT ![c] = [op |-> "Put", err |-> err]]
    /\ UNCHANGED store

Next ==
    \E c \in Client :
        \/ \E k \in Key : CallGet(c, k)
        \/ \E k \in Key, v \in Value, version \in 0 .. MaxVersion : CallPut(c, k, v, version)
        \/ StepGet(c)
        \/ StepPut(c)
        \/ ReturnGet(c)
        \/ ReturnPut(c)
        \/ RefusePut(c)

Spec == Init /\ [][Next]_<<store, pending, returned>>
=============================================================================
