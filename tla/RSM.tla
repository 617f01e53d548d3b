-------------------------------- MODULE RSM --------------------------------
(* The replicated state machine layer of kvraft1/rsm: Submit, the pending  *)
(* operations, the reader of applyCh, snapshots and restarts. Raft is what *)
(* module Raft shows of it: one leader per term, old leaders that do not   *)
(* know, logs that agree up to what is committed, delivery in log order.   *)
(* Server are some of the servers: the others only vote and keep the log.  *)
EXTENDS Naturals, Sequences, FiniteSets

CONSTANTS
    Server,
    Request,       \* the requests: each is submitted once
    NoOne,
    Snapshots,     \* whether the log can grow beyond maxraftstate: a subset of BOOLEAN
    Hasty,         \* the requests whose Submit may give up after two seconds
    MaxTerm,       \* bound: number of elections
    MaxRestarts    \* bound: number of restarts

ASSUME BoundsAssumption == MaxTerm \in Nat /\ MaxRestarts \in Nat
ASSUME SetsAssumption ==
    /\ IsFiniteSet(Request) /\ NoOne \notin Request
    /\ Hasty \subseteq Request /\ Snapshots \subseteq BOOLEAN

VARIABLES
    curTerm,       \* the latest term in which a leader was elected
    view,          \* view[i]: Raft's GetState: term and isLeader
    rlog,          \* rlog[i]: Raft's log
    committed,     \* the committed log
    delivered,     \* delivered[i]: index of the last message on applyCh
    persisted,     \* persisted[i]: snapshot: opId, lastApplied, state machine
    opId, lastApplied, pendingOps,   \* the fields of RSM i
    sm,            \* sm[i]: state machine i: the requests it executed
    sub,           \* sub[q]: the call of Submit for request q
    restarts       \* counts towards MaxRestarts

raftVars == <<curTerm, view, rlog, committed>>
rsmVars == <<delivered, persisted, opId, lastApplied, pendingOps, sm>>
vars == <<curTerm, view, rlog, committed, delivered, persisted, opId, lastApplied, pendingOps,
          sm, sub, restarts>>

Op(i, id, q) == [Me |-> i, Id |-> id, Req |-> q]
Index == 1 .. Cardinality(Request)

(* phase: where doSubmit is; done: what the channel of the PendingOp       *)
(* holds; answer: what doSubmit returns; ret: what Submit returned; the    *)
(* result of an operation is the request that was executed.                *)
NewSub == [phase |-> "idle", server |-> NoOne, id |-> 0, index |-> 0, term |-> 0,
           done |-> "empty", result |-> NoOne, answer |-> "none", ret |-> "none"]

Init ==
    /\ curTerm = 0
    /\ view = [i \in Server |-> [term |-> 0, isLeader |-> FALSE]]
    /\ rlog = [i \in Server |-> <<>>]
    /\ committed = <<>>
    /\ delivered = [i \in Server |-> 0]
    /\ persisted = [i \in Server |-> [opId |-> 0, lastApplied |-> 0, sm |-> <<>>]]
    /\ opId = [i \in Server |-> 0]
    /\ lastApplied = [i \in Server |-> 0]
    /\ pendingOps = [i \in Server |-> [n \in Index |-> NoOne]]
    /\ sm = [i \in Server |-> <<>>]
    /\ sub = [q \in Request |-> NewSub]
    /\ restarts = 0

-----------------------------------------------------------------------------
(* Raft.                                                                   *)

(* Two logs have the same first n entries. *)
SameUpTo(s, t, n) == n <= Len(s) /\ n <= Len(t) /\ \A m \in 1 .. n : s[m] = t[m]

(* A server that has all that is committed becomes the leader of a new     *)
(* term.                                                                   *)
Elect(i) ==
    /\ curTerm < MaxTerm
    /\ SameUpTo(committed, rlog[i], Len(committed))
    /\ curTerm' = curTerm + 1
    /\ view' = [view EXCEPT ![i] = [term |-> curTerm + 1, isLeader |-> TRUE]]
    /\ UNCHANGED <<rlog, committed, rsmVars, sub, restarts>>

(* The leader of the latest term makes the log of i agree with its own up  *)
(* to entry n; what i had beyond is gone if they did not agree.            *)
Replicate(k, i) ==
    /\ k # i
    /\ view[k].isLeader /\ view[k].term = curTerm
    /\ \E n \in 1 .. Len(rlog[k]) :
         /\ ~SameUpTo(rlog[k], rlog[i], n)
         /\ rlog' = [rlog EXCEPT ![i] = SubSeq(rlog[k], 1, n)]
    /\ view' = [view EXCEPT ![i] = [term |-> curTerm, isLeader |-> FALSE]]
    /\ UNCHANGED <<curTerm, committed, rsmVars, sub, restarts>>

(* A leader of an old term hears of a later one. *)
StepDown(i) ==
    /\ view[i].isLeader /\ view[i].term < curTerm
    /\ view' = [view EXCEPT ![i] = [term |-> curTerm, isLeader |-> FALSE]]
    /\ UNCHANGED <<curTerm, rlog, committed, rsmVars, sub, restarts>>

(* The leader commits up to an entry of its own term. *)
Commit(i) ==
    /\ view[i].isLeader /\ view[i].term = curTerm
    /\ \E n \in Len(committed) + 1 .. Len(rlog[i]) :
         /\ rlog[i][n].term = curTerm
         /\ committed' = SubSeq(rlog[i], 1, n)
    /\ UNCHANGED <<curTerm, view, rlog, rsmVars, sub, restarts>>

-----------------------------------------------------------------------------
(* Submit.                                                                 *)

(* Submit and the head of doSubmit, which takes an id. *)
Submit(q, i) ==
    /\ sub[q].phase = "idle"
    /\ opId' = [opId EXCEPT ![i] = @ + 1]
    /\ sub' = [sub EXCEPT ![q].phase = "start", ![q].server = i, ![q].id = opId[i] + 1]
    /\ UNCHANGED <<raftVars, delivered, persisted, lastApplied, pendingOps, sm, restarts>>

Finish(q, answer) ==
    [sub[q] EXCEPT !.phase = "end", !.answer = answer,
                   !.ret = IF @ = "none" THEN answer ELSE @]

(* rf.Start: only a server that believes to be the leader takes the        *)
(* operation into its log.                                                 *)
Start(q) ==
    /\ sub[q].phase = "start"
    /\ LET i == sub[q].server
           entry == [term |-> view[i].term, op |-> Op(i, sub[q].id, q)]
       IN  \/ /\ view[i].isLeader
              /\ rlog' = [rlog EXCEPT ![i] = Append(@, entry)]
              /\ sub' = [sub EXCEPT ![q].phase = "register", ![q].term = view[i].term,
                                    ![q].index = Len(rlog[i]) + 1]
           \/ /\ ~view[i].isLeader
              /\ sub' = [sub EXCEPT ![q] = Finish(q, "ErrWrongLeader")]
              /\ UNCHANGED rlog
    /\ UNCHANGED <<curTerm, view, committed, rsmVars, restarts>>

(* A send on a done channel that is full is dropped. *)
Notify(q, res) == [sub[q] EXCEPT !.done = IF @ = "empty" THEN res ELSE @]

(* The operation becomes the pending one of its index; one that was there  *)
(* before is told that it lost.                                            *)
Register(q) ==
    /\ sub[q].phase = "register"
    /\ LET i == sub[q].server
           old == pendingOps[i][sub[q].index]
           registered == [sub[q] EXCEPT !.phase = "wait"]
       IN  /\ pendingOps' = [pendingOps EXCEPT ![i][sub[q].index] = q]
           /\ sub' = IF old = NoOne THEN [sub EXCEPT ![q] = registered]
                     ELSE [sub EXCEPT ![q] = registered, ![old] = Notify(old, "false")]
    /\ UNCHANGED <<raftVars, delivered, persisted, opId, lastApplied, sm, restarts>>

(* waitForResult: the done channel answers, or the poll of every 100ms     *)
(* finds that the server is not the leader of that term any more.          *)
WaitForResult(q) ==
    /\ sub[q].phase = "wait"
    /\ LET now == view[sub[q].server]
       IN  \/ /\ sub[q].done = "true"
              /\ sub' = [sub EXCEPT ![q].phase = "leave", ![q].answer = "OK"]
           \/ /\ \/ sub[q].done = "false"
                 \/ ~now.isLeader
                 \/ now.term # sub[q].term
              /\ sub' = [sub EXCEPT ![q].phase = "leave", ![q].answer = "ErrWrongLeader"]
    /\ UNCHANGED <<raftVars, rsmVars, restarts>>

(* Seeded fault: the entry stays in pendingOps. *)
LeaveNoDelete(q) ==
    /\ sub[q].phase = "leave"
    /\ sub' = [sub EXCEPT ![q] = Finish(q, sub[q].answer)]
    /\ UNCHANGED <<raftVars, rsmVars, restarts>>

(* The end of doSubmit, and of Submit if it still waits: what is pending   *)
(* at the index is deleted.                                                *)
Leave(q) ==
    /\ sub[q].phase = "leave"
    /\ sub' = [sub EXCEPT ![q] = Finish(q, sub[q].answer)]
    /\ pendingOps' = [pendingOps EXCEPT ![sub[q].server][sub[q].index] = NoOne]
    /\ UNCHANGED <<raftVars, delivered, persisted, opId, lastApplied, sm, restarts>>

(* Submit gives up after two seconds; doSubmit goes on. *)
SubmitTimeout(q) ==
    /\ q \in Hasty
    /\ sub[q].phase \notin {"idle", "end"}
    /\ sub[q].ret = "none"
    /\ sub' = [sub EXCEPT ![q].ret = "ErrWrongLeader"]
    /\ UNCHANGED <<raftVars, rsmVars, restarts>>

-----------------------------------------------------------------------------
(* The reader.                                                             *)

(* Raft delivers a committed entry that the server has. *)
CanDeliver(i, n) ==
    n <= Len(committed) /\ n <= Len(rlog[i]) /\ rlog[i][n] = committed[n]

(* Whether the pending operation p is the one that was applied, op. *)
Matches(i, p, op) == sub[p].id = op.Id /\ sub[p].server = i

(* Seeded fault: the snapshot carries the index before the command. *)
applyCommandOldIndex(i, shouldSnapshot) ==
    /\ CanDeliver(i, delivered[i] + 1)
    /\ delivered' = [delivered EXCEPT ![i] = @ + 1]
    /\ sm' = [sm EXCEPT ![i] = Append(@, committed[delivered[i] + 1].op.Req)]
    /\ lastApplied' = [lastApplied EXCEPT ![i] = delivered[i] + 1]
    /\ persisted' = [persisted EXCEPT ![i] =
                       [opId |-> opId[i], lastApplied |-> delivered[i], sm |-> sm'[i]]]
    /\ UNCHANGED <<raftVars, opId, pendingOps, sub, restarts>>

(* Seeded fault: whoever waits at the index gets OK, its result unset. *)
applyCommandNoResult(i, shouldSnapshot) ==
    /\ CanDeliver(i, delivered[i] + 1)
    /\ LET n == delivered[i] + 1
           p == pendingOps[i][n]
       IN  /\ delivered' = [delivered EXCEPT ![i] = n]
           /\ sm' = [sm EXCEPT ![i] = Append(@, committed[n].op.Req)]
           /\ lastApplied' = [lastApplied EXCEPT ![i] = n]
           /\ sub' = IF p = NoOne THEN sub ELSE [sub EXCEPT ![p] = Notify(p, "true")]
    /\ UNCHANGED <<raftVars, persisted, opId, pendingOps, restarts>>

(* applyCommand: run the command, answer who waits at its index, and take  *)
(* a snapshot if Raft's state has grown too big. That is after mu is       *)
(* released, but only opId can have changed by then, and a Submit that     *)
(* took an id in between could as well have taken it before the command.   *)
applyCommand(i, shouldSnapshot) ==
    /\ CanDeliver(i, delivered[i] + 1)
    /\ LET n == delivered[i] + 1
           op == committed[n].op
           p == pendingOps[i][n]
       IN  /\ delivered' = [delivered EXCEPT ![i] = n]
           /\ IF n <= lastApplied[i] THEN UNCHANGED <<lastApplied, sm, sub, persisted>>
              ELSE
              /\ sm' = [sm EXCEPT ![i] = Append(@, op.Req)]
              /\ lastApplied' = [lastApplied EXCEPT ![i] = n]
              /\ sub' = IF p = NoOne THEN sub
                        ELSE IF Matches(i, p, op)
                        THEN [sub EXCEPT ![p] = [Notify(p, "true") EXCEPT !.result = op.Req]]
                        ELSE [sub EXCEPT ![p] = Notify(p, "false")]
              /\ persisted' = IF ~shouldSnapshot THEN persisted
                              ELSE [persisted EXCEPT ![i] =
                                      [opId |-> opId[i], lastApplied |-> n, sm |-> sm'[i]]]
    /\ UNCHANGED <<raftVars, opId, pendingOps, restarts>>

(* applySnapshot of a snapshot that Raft got from k and saved; Raft keeps  *)
(* what its log has beyond it if the two agree. Operations that wait at    *)
(* indices it covers are told that they lost.                              *)
applySnapshot(i, k) ==
    /\ view[k].isLeader /\ view[k].term = curTerm /\ k # i
    /\ persisted[k].lastApplied > delivered[i]
    /\ LET snapshot == persisted[k]
           n == snapshot.lastApplied
           covered == {pendingOps[i][m] : m \in 1 .. n} \ {NoOne}
       IN  /\ delivered' = [delivered EXCEPT ![i] = n]
           /\ persisted' = [persisted EXCEPT ![i] = snapshot]
           /\ rlog' = IF CanDeliver(i, n) THEN rlog
                      ELSE [rlog EXCEPT ![i] = SubSeq(committed, 1, n)]
           /\ view' = [view EXCEPT ![i] = [term |-> curTerm, isLeader |-> FALSE]]
           /\ IF n <= lastApplied[i] THEN UNCHANGED <<opId, lastApplied, sm, sub>>
              ELSE
              /\ opId' = [opId EXCEPT ![i] = snapshot.opId]
              /\ lastApplied' = [lastApplied EXCEPT ![i] = n]
              /\ sm' = [sm EXCEPT ![i] = snapshot.sm]
              /\ sub' = [q \in Request |-> IF q \in covered THEN Notify(q, "false") ELSE sub[q]]
    /\ UNCHANGED <<curTerm, committed, pendingOps, restarts>>

(* Seeded fault: the state machine is not restored. *)
RestartNoRestore(i) ==
    /\ restarts < MaxRestarts
    /\ restarts' = restarts + 1
    /\ view' = [view EXCEPT ![i].isLeader = FALSE]
    /\ lastApplied' = [lastApplied EXCEPT ![i] = persisted[i].lastApplied]
    /\ delivered' = [delivered EXCEPT ![i] = persisted[i].lastApplied]
    /\ sm' = [sm EXCEPT ![i] = <<>>]
    /\ UNCHANGED <<curTerm, rlog, committed, persisted, opId, pendingOps, sub>>

(* Kill, and MakeRSM on the saved state: every Submit of the old instance  *)
(* ends, the late ones with the answer that doSubmit already had, and Raft *)
(* delivers from the snapshot on.                                          *)
Restart(i) ==
    /\ restarts < MaxRestarts
    /\ restarts' = restarts + 1
    /\ view' = [view EXCEPT ![i].isLeader = FALSE]
    /\ opId' = [opId EXCEPT ![i] = persisted[i].opId]
    /\ lastApplied' = [lastApplied EXCEPT ![i] = persisted[i].lastApplied]
    /\ delivered' = [delivered EXCEPT ![i] = persisted[i].lastApplied]
    /\ sm' = [sm EXCEPT ![i] = persisted[i].sm]
    /\ pendingOps' = [pendingOps EXCEPT ![i] = [n \in Index |-> NoOne]]
    /\ \E late \in SUBSET {q \in Request : sub[q].phase = "leave"} :
         sub' = [q \in Request |->
                   IF sub[q].server = i /\ sub[q].phase # "end"
                   THEN Finish(q, IF q \in late THEN sub[q].answer ELSE "ErrWrongLeader")
                   ELSE sub[q]]
    /\ UNCHANGED <<curTerm, rlog, committed, persisted>>

-----------------------------------------------------------------------------
Next ==
    \/ \E i \in Server : Elect(i) \/ StepDown(i) \/ Commit(i) \/ Restart(i)
    \/ \E i \in Server, shouldSnapshot \in Snapshots : applyCommand(i, shouldSnapshot)
    \/ \E i, k \in Server : Replicate(k, i) \/ applySnapshot(i, k)
    \/ \E q \in Request :
         \/ \E i \in Server : Submit(q, i)
         \/ Start(q)
         \/ Register(q)
         \/ WaitForResult(q)
         \/ Leave(q)
         \/ SubmitTimeout(q)

Spec == Init /\ [][Next]_vars

-----------------------------------------------------------------------------
(* Properties.                                                             *)

(* reader, createSnapshot, applySnapshot and MakeRSM: the state machine    *)
(* has executed the committed log up to lastApplied, each entry once and   *)
(* in order, across snapshots of its own and of others and restarts.       *)
SameState ==
    \A i \in Server :
        /\ lastApplied[i] = delivered[i]
        /\ lastApplied[i] <= Len(committed)
        /\ sm[i] = [n \in 1 .. lastApplied[i] |-> committed[n].op.Req]

(* createSnapshot never lies about its index: what a snapshot restores is  *)
(* the state at the index it carries, the check at which applySnapshot     *)
(* would panic.                                                            *)
SnapshotsTrue ==
    \A i \in Server :
        persisted[i].sm = [n \in 1 .. persisted[i].lastApplied |-> committed[n].op.Req]

(* Submit returns OK only with the result of an operation that was         *)
(* committed at its index and executed on its server.                      *)
OkIsExecuted ==
    \A q \in Request :
        sub[q].answer = "OK" =>
            /\ sub[q].index <= Len(committed)
            /\ sub[q].result = committed[sub[q].index].op.Req

(* doSubmit deletes what it registered: an entry of pendingOps always has  *)
(* a goroutine that waits for it.                                          *)
PendingHasWaiter ==
    \A i \in Server, n \in Index :
        LET q == pendingOps[i][n]
        IN  q # NoOne => /\ sub[q].server = i /\ sub[q].index = n
                         /\ sub[q].phase \in {"wait", "leave"}

(* applyCommand matches the committed operation with the pending one by    *)
(* {Me, Id}: Submit never returns the result of somebody else's request.   *)
ResultMatches ==
    \A q \in Request : sub[q].ret = "OK" => sub[q].result = q
=============================================================================
