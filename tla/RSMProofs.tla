----------------------------- MODULE RSMProofs ------------------------------
(* Safety of the replicated state machine layer, for any number of         *)
(* servers, requests, terms and restarts: its invariant, why every step    *)
(* keeps its part about Raft, the state machines and their snapshots, and  *)
(* what follows for the calls of Submit.                                   *)
EXTENDS RSM, FiniteSetTheorems, TLAPS

(* The provers to try, with their time limits. *)
USE ZenonT(1), SMT, Zenon, SMTT(30), ZenonT(30)

(* A slice of a sequence: its length and its entries. *)
LEMMA PartFacts ==
    ASSUME NEW S, NEW s, NEW m \in Int, NEW n \in Int, \A i \in m .. n : s[i] \in S
    PROVE  /\ SubSeq(s, m, n) \in Seq(S)
           /\ Len(SubSeq(s, m, n)) = IF m <= n THEN n - m + 1 ELSE 0
           /\ \A i \in 1 .. n - m + 1 : SubSeq(s, m, n)[i] = s[m + i - 1]
OBVIOUS

Entry == [term : Nat, op : [Me : Server, Id : Nat, Req : Request]]
Phase == {"idle", "start", "register", "wait", "leave", "end"}
Answer == {"none", "OK", "ErrWrongLeader"}
SubRecord ==
    [phase : Phase, server : Server \cup {NoOne}, id : Nat, index : Nat, term : Nat,
     done : {"empty", "true", "false"}, result : Request \cup {NoOne},
     answer : Answer, ret : Answer]

RaftType ==
    /\ curTerm \in Nat
    /\ view \in [Server -> [term : Nat, isLeader : BOOLEAN]]
    /\ rlog \in [Server -> Seq(Entry)]
    /\ committed \in Seq(Entry)

StateType ==
    /\ delivered \in [Server -> Nat]
    /\ lastApplied \in [Server -> Nat]
    /\ opId \in [Server -> Nat]
    /\ sm \in [Server -> Seq(Request)]
    /\ persisted \in [Server -> [opId : Nat, lastApplied : Nat, sm : Seq(Request)]]

PendingType == pendingOps \in [Server -> [Index -> Request \cup {NoOne}]]

(* t has everything that s has. *)
Continues(s, t) == Len(s) <= Len(t) /\ \A n \in 1 .. Len(s) : t[n] = s[n]

(* The latest term has one leader, and its log has all that is committed. *)
Leads(i) == view[i].isLeader /\ view[i].term = curTerm

LeaderInv ==
    /\ \A i \in Server : view[i].term <= curTerm
    /\ \A i, k \in Server : Leads(i) /\ Leads(k) => i = k
    /\ \A i \in Server : Leads(i) => Continues(committed, rlog[i])

(* A snapshot is the state at its index, and that is committed. *)
SnapshotInv ==
    /\ SnapshotsTrue
    /\ \A i \in Server : persisted[i].lastApplied <= Len(committed)

(* A request is in a log at most once, and only after Start. *)
Once(s) == \A m, n \in 1 .. Len(s) : s[m].op.Req = s[n].op.Req => m = n
Started(s) == \A n \in 1 .. Len(s) : sub[s[n].op.Req].phase \notin {"idle", "start"}

LogInv ==
    /\ Once(committed) /\ Started(committed)
    /\ \A i \in Server : Once(rlog[i]) /\ Started(rlog[i])

(* What holds of a call x of Submit: its channel is told that it won only  *)
(* with the result of the operation committed at its index.                *)
Good(x, log) ==
    /\ x.phase # "idle" => x.server \in Server
    /\ x.phase \in {"idle", "start", "register"} => x.done = "empty" /\ x.answer = "none"
    /\ x.phase \in {"register", "wait", "leave"} => x.index \in Index
    /\ x.answer = "OK" => x.done = "true"
    /\ x.done = "true" => x.index \in 1 .. Len(log) /\ x.result = log[x.index].op.Req

SubInv ==
    /\ sub \in [Request -> SubRecord]
    /\ \A q \in Request : Good(sub[q], committed)

RSMInv ==
    /\ RaftType /\ StateType /\ PendingType
    /\ LeaderInv /\ SameState /\ SnapshotInv /\ LogInv /\ SubInv /\ PendingHasWaiter

-----------------------------------------------------------------------------
(* Logs.                                                                   *)

(* The first n entries of a log. *)
LEMMA FirstEntries ==
    ASSUME NEW S, NEW s \in Seq(S), NEW n \in Nat, n <= Len(s)
    PROVE  /\ SubSeq(s, 1, n) \in Seq(S)
           /\ Len(SubSeq(s, 1, n)) = n
           /\ \A m \in 1 .. n : SubSeq(s, 1, n)[m] = s[m]
<1>1. Len(s) \in Nat /\ \A m \in 1 .. n : s[m] \in S
  OBVIOUS
<1>2. 1 \in Int /\ n \in Int
  OBVIOUS
<1>3. /\ SubSeq(s, 1, n) \in Seq(S)
      /\ Len(SubSeq(s, 1, n)) = IF 1 <= n THEN n - 1 + 1 ELSE 0
      /\ \A m \in 1 .. n - 1 + 1 : SubSeq(s, 1, n)[m] = s[1 + m - 1]
  BY <1>1, <1>2, PartFacts
<1> QED
  BY <1>3

(* What Elect tests: the committed log continues in the one of the server. *)
LEMMA PrefixContinues ==
    ASSUME NEW S, NEW s \in Seq(S), NEW t \in Seq(S), SameUpTo(s, t, Len(s))
    PROVE  Continues(s, t)
BY DEF SameUpTo, Continues

LEMMA ContinuesFacts ==
    ASSUME NEW S, NEW s \in Seq(S), NEW t \in Seq(S), NEW u \in Seq(S)
    PROVE  /\ Continues(s, s)
           /\ Continues(s, t) /\ Continues(t, u) => Continues(s, u)
           /\ \A x \in S : Continues(s, Append(s, x))
BY DEF Continues

(* A log in which no request is twice is no longer than there are          *)
(* requests, and shorter if a request is missing.                          *)
LEMMA LogBound ==
    ASSUME NEW s \in Seq(Entry), Once(s)
    PROVE  /\ Len(s) <= Cardinality(Request)
           /\ \A q \in Request :
                (\A n \in 1 .. Len(s) : s[n].op.Req # q) => Len(s) < Cardinality(Request)
<1> DEFINE N == 1 .. Len(s)
           f == [n \in N |-> s[n].op.Req]
<1>1. Len(s) \in Nat /\ \A n \in N : s[n].op.Req \in Request
  <2>1. Len(s) \in Nat /\ \A n \in N : s[n] \in Entry
    OBVIOUS
  <2>2. \A e \in Entry : e.op.Req \in Request
    BY DEF Entry
  <2> QED
    BY <2>1, <2>2
<1>2. IsFiniteSet(N) /\ Cardinality(N) = Len(s)
  <2>1. 1 \in Int /\ Len(s) \in Int
    BY <1>1
  <2>2. IsFiniteSet(N) /\ Cardinality(N) = IF 1 > Len(s) THEN 0 ELSE Len(s) - 1 + 1
    BY <2>1, FS_Interval
  <2> QED
    BY <1>1, <2>2
<1>3. IsFiniteSet(Request) /\ Cardinality(Request) \in Nat
  BY SetsAssumption, FS_CardinalityType
<1>4. \A m, n \in N : f[m] = f[n] => m = n
  BY DEF Once
<1>5. ASSUME NEW T, IsFiniteSet(T), \A n \in N : s[n].op.Req \in T
      PROVE  Len(s) <= Cardinality(T)
  <2>1. f \in [N -> T]
    BY <1>5
  <2> HIDE DEF f, N
  <2>2. f \in Injection(N, T)
    BY <1>4, <2>1 DEF Injection, IsInjective
  <2>3. Cardinality(N) <= Cardinality(T)
    BY <1>5, <2>2, FS_Injection
  <2> QED
    BY <1>2, <2>3
<1>6. Len(s) <= Cardinality(Request)
  BY <1>1, <1>3, <1>5
<1>7. ASSUME NEW q \in Request, \A n \in N : s[n].op.Req # q
      PROVE  Len(s) < Cardinality(Request)
  <2>1. IsFiniteSet(Request \ {q}) /\ Cardinality(Request \ {q}) = Cardinality(Request) - 1
    BY <1>3, FS_RemoveElement
  <2>2. Len(s) <= Cardinality(Request \ {q})
    BY <1>1, <1>5, <1>7, <2>1
  <2> QED
    BY <1>1, <1>3, <2>1, <2>2
<1> QED
  BY <1>6, <1>7

-----------------------------------------------------------------------------
(* Raft's part.                                                            *)

(* Steps that elect and commit nothing: a leader of the latest term was it *)
(* before, and its log grew.                                               *)
LEMMA LeadersStay ==
    ASSUME RaftType, RaftType', LeaderInv, UNCHANGED <<curTerm, committed>>,
           \A i \in Server : view'[i].term <= curTerm,
           \A i \in Server : Leads(i)' => Leads(i) /\ Continues(rlog[i], rlog'[i])
    PROVE  LeaderInv'
<1>1. ASSUME NEW i \in Server, Leads(i)'
      PROVE  Continues(committed, rlog'[i])
  <2>1. Continues(committed, rlog[i]) /\ Continues(rlog[i], rlog'[i])
    BY <1>1 DEF LeaderInv
  <2>2. committed \in Seq(Entry) /\ rlog[i] \in Seq(Entry) /\ rlog'[i] \in Seq(Entry)
    BY DEF RaftType
  <2> QED
    BY <2>1, <2>2, ContinuesFacts
<1>2. \A i, k \in Server : Leads(i)' /\ Leads(k)' => i = k
  BY DEF LeaderInv
<1> QED
  BY <1>1, <1>2 DEF LeaderInv, Continues

(* Elect: the new leader is the only one of its term. *)
LEMMA ElectStep ==
    ASSUME RaftType, LeaderInv, NEW i \in Server, Elect(i)
    PROVE  RaftType' /\ LeaderInv'
<1>1. /\ curTerm' = curTerm + 1 /\ UNCHANGED <<rlog, committed>>
      /\ view' = [view EXCEPT ![i] = [term |-> curTerm + 1, isLeader |-> TRUE]]
      /\ SameUpTo(committed, rlog[i], Len(committed))
  BY DEF Elect
<1>2. RaftType'
  BY <1>1 DEF RaftType
<1>3. /\ view'[i] = [term |-> curTerm + 1, isLeader |-> TRUE]
      /\ \A k \in Server : k # i => view'[k] = view[k]
  BY <1>1 DEF RaftType
<1>4. \A k \in Server : view[k].term \in Nat /\ view[k].term <= curTerm /\ curTerm \in Nat
  BY DEF RaftType, LeaderInv
<1>5. \A k \in Server : view'[k].term <= curTerm + 1
  BY <1>3, <1>4
<1>6. \A k \in Server : Leads(k)' => k = i
  BY <1>1, <1>3, <1>4 DEF Leads
<1>7. Continues(committed, rlog[i])
  BY <1>1, PrefixContinues DEF RaftType
<1> QED
  BY <1>1, <1>2, <1>5, <1>6, <1>7 DEF LeaderInv, Continues

(* Commit: what was committed is the beginning of what is committed now. *)
LEMMA CommitStep ==
    ASSUME RaftType, LeaderInv, NEW i \in Server, Commit(i)
    PROVE  RaftType' /\ LeaderInv' /\ Continues(committed, committed')
<1>1. PICK n \in Len(committed) + 1 .. Len(rlog[i]) : committed' = SubSeq(rlog[i], 1, n)
  BY DEF Commit
<1>2. Leads(i) /\ UNCHANGED <<curTerm, view, rlog>>
  BY DEF Commit, Leads
<1>3. /\ rlog[i] \in Seq(Entry) /\ committed \in Seq(Entry)
      /\ Len(committed) \in Nat /\ Len(rlog[i]) \in Nat /\ n \in Nat
      /\ Len(committed) < n /\ n <= Len(rlog[i])
  BY <1>1 DEF RaftType
<1>4. /\ committed' \in Seq(Entry) /\ Len(committed') = n
      /\ \A m \in 1 .. n : committed'[m] = rlog[i][m]
  BY <1>1, <1>3, FirstEntries
<1>5. RaftType'
  BY <1>2, <1>4 DEF RaftType
<1>6. Continues(committed, rlog[i])
  BY <1>2 DEF LeaderInv
<1>7. Continues(committed, committed') /\ Continues(committed', rlog'[i])
  BY <1>2, <1>3, <1>4, <1>6 DEF Continues
<1>8. \A k \in Server : Leads(k)' => k = i
  BY <1>2 DEF Leads, LeaderInv
<1> QED
  BY <1>2, <1>5, <1>7, <1>8 DEF LeaderInv, Leads, Continues

(* A server whose view changes to that of a follower. *)
LEMMA FollowerStep ==
    ASSUME RaftType, LeaderInv, NEW i \in Server, UNCHANGED <<curTerm, committed>>,
           NEW t \in Nat, t <= curTerm,
           view' = [view EXCEPT ![i] = [term |-> t, isLeader |-> FALSE]],
           NEW log \in Seq(Entry), rlog' = [rlog EXCEPT ![i] = log]
    PROVE  RaftType' /\ LeaderInv'
<1>1. RaftType'
  BY DEF RaftType
<1>2. /\ view'[i] = [term |-> t, isLeader |-> FALSE]
      /\ \A k \in Server : k # i => view'[k] = view[k] /\ rlog'[k] = rlog[k]
  BY DEF RaftType
<1>3. \A k \in Server : view'[k].term <= curTerm
  BY <1>2 DEF LeaderInv
<1>4. \A k \in Server : Leads(k)' => Leads(k) /\ Continues(rlog[k], rlog'[k])
  <2> SUFFICES ASSUME NEW k \in Server, Leads(k)'
               PROVE  Leads(k) /\ Continues(rlog[k], rlog'[k])
    OBVIOUS
  <2>1. k # i
    BY <1>2 DEF Leads
  <2>2. rlog[k] \in Seq(Entry)
    BY DEF RaftType
  <2> QED
    BY <1>2, <2>1, <2>2, ContinuesFacts DEF Leads
<1> QED
  BY <1>1, <1>3, <1>4, LeadersStay

(* Start: the log of a server that believes to be the leader grows. *)
LEMMA StartRaft ==
    ASSUME RaftType, LeaderInv, SubInv, NEW q \in Request, Start(q)
    PROVE  RaftType' /\ LeaderInv' /\ UNCHANGED committed
<1> DEFINE i == sub[q].server
           entry == [term |-> view[i].term, op |-> Op(i, sub[q].id, q)]
<1>1. /\ UNCHANGED <<curTerm, view, committed>>
      /\ rlog' = [rlog EXCEPT ![i] = Append(@, entry)] \/ rlog' = rlog
  BY DEF Start
<1>2. i \in Server /\ entry \in Entry
  <2>1. i \in Server /\ sub[q].id \in Nat
    BY DEF Start, SubInv, Good, SubRecord
  <2> QED
    BY <2>1 DEF RaftType, Entry, Op
<1> HIDE DEF entry
<1>3. \A k \in Server : rlog[k] \in Seq(Entry) /\ (rlog'[k] = rlog[k] \/ rlog'[k] = Append(rlog[k], entry))
  BY <1>1, <1>2 DEF RaftType
<1>4. RaftType'
  <2>1. rlog \in [Server -> Seq(Entry)] /\ Append(rlog[i], entry) \in Seq(Entry)
    BY <1>2 DEF RaftType
  <2>2. rlog' \in [Server -> Seq(Entry)]
    BY <1>1, <1>2, <2>1
  <2> QED
    BY <1>1, <2>2 DEF RaftType
<1>5. \A k \in Server : Continues(rlog[k], rlog'[k])
  BY <1>2, <1>3, ContinuesFacts
<1>6. \A k \in Server : view'[k].term <= curTerm /\ (Leads(k)' => Leads(k))
  BY <1>1 DEF LeaderInv, Leads
<1> QED
  BY <1>1, <1>4, <1>5, <1>6, LeadersStay

(* A view with another isLeader. *)
LEMMA ViewOf ==
    ASSUME NEW B, NEW b \in B, NEW v \in [term : Nat, isLeader : B]
    PROVE  [v EXCEPT !.isLeader = b] = [term |-> v.term, isLeader |-> b]
<1> DEFINE w == [v EXCEPT !.isLeader = b]
<1>1. w \in [term : Nat, isLeader : B] /\ w.term = v.term /\ w.isLeader = b
  OBVIOUS
<1> HIDE DEF w
<1>2. w = [term |-> w.term, isLeader |-> w.isLeader]
  BY <1>1
<1> QED
  BY <1>1, <1>2 DEF w

(* Replicate, StepDown, applySnapshot and Restart make a follower. *)
LEMMA FollowersRaft ==
    ASSUME RaftType, StateType, LeaderInv, SnapshotInv, NEW i \in Server,
           \/ StepDown(i) \/ Restart(i)
           \/ \E k \in Server : Replicate(k, i) \/ applySnapshot(i, k)
    PROVE  RaftType' /\ LeaderInv' /\ UNCHANGED committed
<1>0. /\ \A k \in Server : rlog[k] \in Seq(Entry)
      /\ rlog = [rlog EXCEPT ![i] = rlog[i]]
      /\ curTerm \in Nat /\ curTerm <= curTerm
  BY DEF RaftType
<1>1. CASE StepDown(i)
  <2>1. /\ UNCHANGED <<curTerm, committed>> /\ rlog' = [rlog EXCEPT ![i] = rlog[i]]
        /\ view' = [view EXCEPT ![i] = [term |-> curTerm, isLeader |-> FALSE]]
    BY <1>0, <1>1 DEF StepDown
  <2>2. rlog[i] \in Seq(Entry)
    BY <1>0
  <2> QED
    BY <1>0, <2>1, <2>2, FollowerStep
<1>2. CASE Restart(i)
  <2>1. /\ UNCHANGED <<curTerm, committed>> /\ rlog' = [rlog EXCEPT ![i] = rlog[i]]
        /\ view' = [view EXCEPT ![i].isLeader = FALSE]
    BY <1>0, <1>2 DEF Restart
  <2>2. /\ view \in [Server -> [term : Nat, isLeader : BOOLEAN]]
        /\ view[i].term \in Nat /\ view[i].term <= curTerm /\ rlog[i] \in Seq(Entry)
    BY <1>0 DEF RaftType, LeaderInv
  <2>3. [view[i] EXCEPT !.isLeader = FALSE] = [term |-> view[i].term, isLeader |-> FALSE]
    <3>1. view[i] \in [term : Nat, isLeader : BOOLEAN] /\ FALSE \in BOOLEAN
      BY <2>2
    <3> QED
      BY <3>1, ViewOf
  <2>4. view' = [view EXCEPT ![i] = [term |-> view[i].term, isLeader |-> FALSE]]
    BY <2>1, <2>3
  <2> QED
    BY <2>1, <2>2, <2>4, FollowerStep
<1>3. ASSUME NEW k \in Server, Replicate(k, i)
      PROVE  RaftType' /\ LeaderInv' /\ UNCHANGED committed
  <2>1. PICK n \in 1 .. Len(rlog[k]) : rlog' = [rlog EXCEPT ![i] = SubSeq(rlog[k], 1, n)]
    BY <1>3 DEF Replicate
  <2>2. SubSeq(rlog[k], 1, n) \in Seq(Entry)
    BY <1>0, FirstEntries
  <2>3. /\ UNCHANGED <<curTerm, committed>>
        /\ view' = [view EXCEPT ![i] = [term |-> curTerm, isLeader |-> FALSE]]
    BY <1>3 DEF Replicate
  <2> QED
    BY <1>0, <2>1, <2>2, <2>3, FollowerStep
<1>4. ASSUME NEW k \in Server, applySnapshot(i, k)
      PROVE  RaftType' /\ LeaderInv' /\ UNCHANGED committed
  <2> DEFINE n == persisted[k].lastApplied
  <2>1. /\ UNCHANGED <<curTerm, committed>>
        /\ view' = [view EXCEPT ![i] = [term |-> curTerm, isLeader |-> FALSE]]
        /\ rlog' = rlog \/ rlog' = [rlog EXCEPT ![i] = SubSeq(committed, 1, n)]
    BY <1>4 DEF applySnapshot
  <2>2. committed \in Seq(Entry) /\ n \in Nat /\ n <= Len(committed)
    BY DEF RaftType, StateType, SnapshotInv
  <2>3. SubSeq(committed, 1, n) \in Seq(Entry)
    BY <2>2, FirstEntries
  <2>4. CASE rlog' = rlog
    <3>1. rlog' = [rlog EXCEPT ![i] = rlog[i]] /\ rlog[i] \in Seq(Entry)
      BY <1>0, <2>4
    <3> QED
      BY <1>0, <2>1, <3>1, FollowerStep
  <2>5. CASE rlog' = [rlog EXCEPT ![i] = SubSeq(committed, 1, n)]
    BY <1>0, <2>1, <2>3, <2>5, FollowerStep
  <2> QED
    BY <2>1, <2>4, <2>5
<1> QED
  BY <1>1, <1>2, <1>3, <1>4

(* Every step: types, one leader that has all that is committed, and what  *)
(* is committed stays.                                                     *)
LEMMA RaftStep ==
    ASSUME RSMInv, [Next]_vars
    PROVE  RaftType' /\ LeaderInv' /\ Continues(committed, committed')
<1>0. RaftType /\ StateType /\ LeaderInv /\ SnapshotInv /\ SubInv
  BY DEF RSMInv
<1>1. Continues(committed, committed)
  BY <1>0, ContinuesFacts DEF RaftType
<1>2. CASE UNCHANGED raftVars
  <2>1. UNCHANGED <<curTerm, view, rlog, committed>>
    BY <1>2 DEF raftVars
  <2> QED
    BY <1>0, <1>1, <2>1 DEF RaftType, LeaderInv, Leads, Continues
<1>3. ASSUME NEW i \in Server, Elect(i)
      PROVE  RaftType' /\ LeaderInv' /\ Continues(committed, committed')
  <2>1. committed' = committed
    BY <1>3 DEF Elect
  <2> QED
    BY <1>0, <1>1, <1>3, <2>1, ElectStep
<1>4. ASSUME NEW i \in Server, Commit(i)
      PROVE  RaftType' /\ LeaderInv' /\ Continues(committed, committed')
  BY <1>0, <1>4, CommitStep
<1>5. ASSUME NEW i \in Server, NEW k \in Server,
             StepDown(i) \/ Restart(i) \/ Replicate(k, i) \/ applySnapshot(i, k)
      PROVE  RaftType' /\ LeaderInv' /\ Continues(committed, committed')
  BY <1>0, <1>1, <1>5, FollowersRaft
<1>6. ASSUME NEW q \in Request, Start(q)
      PROVE  RaftType' /\ LeaderInv' /\ Continues(committed, committed')
  BY <1>0, <1>1, <1>6, StartRaft
<1>7. ASSUME NEW q \in Request,
             \/ \E i \in Server : Submit(q, i)
             \/ Register(q) \/ WaitForResult(q) \/ Leave(q) \/ SubmitTimeout(q)
      PROVE  UNCHANGED raftVars
  BY <1>7 DEF Submit, Register, WaitForResult, Leave, SubmitTimeout
<1>8. ASSUME NEW i \in Server, NEW b \in Snapshots, applyCommand(i, b)
      PROVE  UNCHANGED raftVars
  BY <1>8 DEF applyCommand
<1>9. ASSUME UNCHANGED vars PROVE UNCHANGED raftVars
  BY <1>9 DEF vars, raftVars
<1> QED
  BY <1>2, <1>3, <1>4, <1>5, <1>6, <1>7, <1>8, <1>9 DEF Next

-----------------------------------------------------------------------------
(* The state machines and their snapshots.                                 *)

(* What was executed up to n does not depend on what is committed later. *)
LEMMA ExecutedStays ==
    ASSUME NEW s \in Seq(Entry), NEW t \in Seq(Entry), Continues(s, t), NEW n \in Nat, n <= Len(s)
    PROVE  [m \in 1 .. n |-> t[m].op.Req] = [m \in 1 .. n |-> s[m].op.Req]
<1>1. \A m \in 1 .. n : t[m] = s[m]
  BY DEF Continues
<1> QED
  BY <1>1

(* A step that leaves the state machines and the snapshots alone. *)
LEMMA StateStays ==
    ASSUME RaftType, RaftType', StateType, SameState, SnapshotInv, Continues(committed, committed'),
           UNCHANGED <<delivered, lastApplied, sm, persisted>>
    PROVE  SameState' /\ SnapshotInv'
<1>1. /\ committed \in Seq(Entry) /\ committed' \in Seq(Entry)
      /\ Len(committed) \in Nat /\ Len(committed') \in Nat /\ Len(committed) <= Len(committed')
  BY DEF RaftType, Continues
<1>2. ASSUME NEW i \in Server
      PROVE  /\ lastApplied[i] = delivered[i] /\ lastApplied[i] <= Len(committed')
             /\ sm[i] = [n \in 1 .. lastApplied[i] |-> committed'[n].op.Req]
  <2>1. /\ lastApplied[i] \in Nat /\ lastApplied[i] = delivered[i]
        /\ lastApplied[i] <= Len(committed)
        /\ sm[i] = [n \in 1 .. lastApplied[i] |-> committed[n].op.Req]
    BY DEF StateType, SameState
  <2>2. [n \in 1 .. lastApplied[i] |-> committed'[n].op.Req]
          = [n \in 1 .. lastApplied[i] |-> committed[n].op.Req]
    BY <1>1, <2>1, ExecutedStays
  <2> QED
    BY <1>1, <2>1, <2>2
<1>3. ASSUME NEW i \in Server
      PROVE  /\ persisted[i].lastApplied <= Len(committed')
             /\ persisted[i].sm = [n \in 1 .. persisted[i].lastApplied |-> committed'[n].op.Req]
  <2>1. /\ persisted[i].lastApplied \in Nat /\ persisted[i].lastApplied <= Len(committed)
        /\ persisted[i].sm = [n \in 1 .. persisted[i].lastApplied |-> committed[n].op.Req]
    BY DEF StateType, SnapshotInv, SnapshotsTrue
  <2>2. [n \in 1 .. persisted[i].lastApplied |-> committed'[n].op.Req]
          = [n \in 1 .. persisted[i].lastApplied |-> committed[n].op.Req]
    BY <1>1, <2>1, ExecutedStays
  <2> QED
    BY <1>1, <2>1, <2>2
<1> QED
  BY <1>2, <1>3 DEF SameState, SnapshotInv, SnapshotsTrue

(* applyCommand executes the next committed entry, and its snapshot is the *)
(* state after it.                                                         *)
LEMMA ApplyCommandState ==
    ASSUME RaftType, StateType, SameState, SnapshotInv,
           NEW i \in Server, NEW b, applyCommand(i, b)
    PROVE  StateType' /\ SameState' /\ SnapshotInv'
<1> DEFINE n == delivered[i] + 1
           state == Append(sm[i], committed[n].op.Req)
           snapshot == [opId |-> opId[i], lastApplied |-> n, sm |-> state]
<1>1. /\ delivered[i] \in Nat /\ lastApplied[i] = delivered[i] /\ n \in Nat /\ opId[i] \in Nat
      /\ committed \in Seq(Entry) /\ Len(committed) \in Nat /\ n <= Len(committed)
      /\ sm[i] \in Seq(Request)
      /\ sm[i] = [m \in 1 .. delivered[i] |-> committed[m].op.Req]
  BY DEF RaftType, StateType, SameState, applyCommand, CanDeliver
<1>2. committed[n].op.Req \in Request
  <2>1. committed[n] \in Entry
    BY <1>1
  <2> QED
    BY <2>1 DEF Entry
<1>3. state \in Seq(Request) /\ state = [m \in 1 .. n |-> committed[m].op.Req]
  <2>1. Len(sm[i]) = delivered[i] /\ \A m \in 1 .. delivered[i] : sm[i][m] = committed[m].op.Req
    BY <1>1
  <2>2. /\ state \in Seq(Request) /\ Len(state) = n
        /\ \A m \in 1 .. n : state[m] = committed[m].op.Req
    BY <1>1, <1>2, <2>1
  <2> HIDE DEF state, n
  <2>3. state = [m \in 1 .. n |-> state[m]]
    BY <1>1, <2>2
  <2> QED
    BY <2>2, <2>3
<1>4. ~(n <= lastApplied[i])
  BY <1>1
<1>5. /\ delivered' = [delivered EXCEPT ![i] = n]
      /\ lastApplied' = [lastApplied EXCEPT ![i] = n]
      /\ sm' = [sm EXCEPT ![i] = state]
      /\ persisted' = persisted \/ persisted' = [persisted EXCEPT ![i] =
                                    [opId |-> opId[i], lastApplied |-> n, sm |-> sm'[i]]]
      /\ UNCHANGED <<committed, opId>>
  BY <1>4 DEF applyCommand, raftVars
<1> HIDE DEF state, n
<1>6. sm'[i] = state /\ \A k \in Server : k # i => sm'[k] = sm[k]
  BY <1>5 DEF StateType
<1>7. /\ delivered'[i] = n /\ lastApplied'[i] = n
      /\ \A k \in Server : k # i => delivered'[k] = delivered[k] /\ lastApplied'[k] = lastApplied[k]
      /\ delivered' \in [Server -> Nat] /\ lastApplied' \in [Server -> Nat]
      /\ sm' \in [Server -> Seq(Request)]
  BY <1>1, <1>3, <1>5 DEF StateType
<1>8. /\ snapshot \in [opId : Nat, lastApplied : Nat, sm : Seq(Request)]
      /\ snapshot.lastApplied = n /\ snapshot.sm = state
      /\ persisted' = persisted \/ persisted' = [persisted EXCEPT ![i] = snapshot]
  BY <1>1, <1>3, <1>5, <1>6
<1> HIDE DEF snapshot
<1>9. /\ persisted' \in [Server -> [opId : Nat, lastApplied : Nat, sm : Seq(Request)]]
      /\ \A k \in Server : persisted'[k] = persisted[k] \/ persisted'[k] = snapshot
  BY <1>8 DEF StateType
<1>10. StateType'
  BY <1>5, <1>7, <1>9 DEF StateType
<1>11. SameState'
  <2> SUFFICES ASSUME NEW k \in Server
               PROVE  /\ lastApplied'[k] = delivered'[k] /\ lastApplied'[k] <= Len(committed)
                      /\ sm'[k] = [m \in 1 .. lastApplied'[k] |-> committed[m].op.Req]
    BY <1>5 DEF SameState
  <2>1. CASE k = i
    BY <1>1, <1>3, <1>6, <1>7, <2>1
  <2>2. CASE k # i
    BY <1>6, <1>7, <2>2 DEF SameState
  <2> QED
    BY <2>1, <2>2
<1>12. SnapshotInv'
  <2>1. committed' = committed
    BY <1>5
  <2>2. ASSUME NEW k \in Server
        PROVE  /\ persisted'[k].lastApplied <= Len(committed)
               /\ persisted'[k].sm = [m \in 1 .. persisted'[k].lastApplied |-> committed[m].op.Req]
    <3>1. CASE persisted'[k] = snapshot
      BY <1>1, <1>3, <1>8, <3>1
    <3>2. CASE persisted'[k] = persisted[k]
      BY <3>2 DEF SnapshotInv, SnapshotsTrue
    <3> QED
      BY <1>9, <3>1, <3>2
  <2>3. SnapshotsTrue'
    <3> SUFFICES ASSUME NEW k \in Server
                 PROVE  persisted'[k].sm =
                          [m \in 1 .. persisted'[k].lastApplied |-> committed'[m].op.Req]
      BY DEF SnapshotsTrue
    <3> QED
      BY <2>1, <2>2
  <2> QED
    BY <2>1, <2>2, <2>3 DEF SnapshotInv
<1> QED
  BY <1>10, <1>11, <1>12

(* applySnapshot installs the snapshot of another server, Restart loads    *)
(* the server's own: state machine and indices come from a snapshot.       *)
LEMMA LoadState ==
    ASSUME StateType, SameState, SnapshotInv, NEW i \in Server, NEW k \in Server,
           UNCHANGED committed,
           delivered' = [delivered EXCEPT ![i] = persisted[k].lastApplied],
           lastApplied' = [lastApplied EXCEPT ![i] = persisted[k].lastApplied],
           opId' = [opId EXCEPT ![i] = persisted[k].opId],
           sm' = [sm EXCEPT ![i] = persisted[k].sm],
           persisted' = [persisted EXCEPT ![i] = persisted[k]]
    PROVE  StateType' /\ SameState' /\ SnapshotInv'
<1>1. persisted[k] \in [opId : Nat, lastApplied : Nat, sm : Seq(Request)]
  BY DEF StateType
<1>2. StateType'
  BY <1>1 DEF StateType
<1>3. /\ delivered'[i] = persisted[k].lastApplied /\ lastApplied'[i] = persisted[k].lastApplied
      /\ sm'[i] = persisted[k].sm
      /\ \A j \in Server : j # i => /\ delivered'[j] = delivered[j]
                                    /\ lastApplied'[j] = lastApplied[j] /\ sm'[j] = sm[j]
      /\ \A j \in Server : persisted'[j] = persisted[j] \/ persisted'[j] = persisted[k]
  BY DEF StateType
<1>a. /\ persisted[k].lastApplied <= Len(committed)
      /\ persisted[k].sm = [m \in 1 .. persisted[k].lastApplied |-> committed[m].op.Req]
  BY DEF SnapshotInv, SnapshotsTrue
<1>4. SameState'
  <2> SUFFICES ASSUME NEW j \in Server
               PROVE  /\ lastApplied'[j] = delivered'[j] /\ lastApplied'[j] <= Len(committed)
                      /\ sm'[j] = [m \in 1 .. lastApplied'[j] |-> committed[m].op.Req]
    BY DEF SameState
  <2>1. CASE j = i
    BY <1>3, <1>a, <2>1
  <2>2. CASE j # i
    BY <1>3, <2>2 DEF SameState
  <2> QED
    BY <2>1, <2>2
<1>5. SnapshotInv'
  <2>1. ASSUME NEW j \in Server, persisted'[j] = persisted[j] \/ persisted'[j] = persisted[k]
        PROVE  /\ persisted'[j].sm = [n \in 1 .. persisted'[j].lastApplied |-> committed[n].op.Req]
               /\ persisted'[j].lastApplied <= Len(committed)
    BY <1>a, <2>1 DEF SnapshotInv, SnapshotsTrue
  <2> QED
    BY <1>3, <2>1 DEF SnapshotInv, SnapshotsTrue
<1> QED
  BY <1>2, <1>4, <1>5

(* Every step: the state machines have executed the committed log. *)
LEMMA StateStep ==
    ASSUME RSMInv, [Next]_vars
    PROVE  StateType' /\ SameState' /\ SnapshotInv'
<1>0. RaftType /\ StateType /\ LeaderInv /\ SameState /\ SnapshotInv
  BY DEF RSMInv
<1>1. RaftType' /\ Continues(committed, committed')
  BY RaftStep
<1>2. ASSUME UNCHANGED <<delivered, lastApplied, sm, persisted>>, opId' \in [Server -> Nat]
      PROVE  StateType' /\ SameState' /\ SnapshotInv'
  <2>1. StateType'
    BY <1>0, <1>2 DEF StateType
  <2> QED
    BY <1>0, <1>1, <1>2, <2>1, StateStays
<1>3. ASSUME NEW i \in Server, NEW q \in Request, Submit(q, i)
      PROVE  StateType' /\ SameState' /\ SnapshotInv'
  <2>1. opId' \in [Server -> Nat]
    BY <1>0, <1>3 DEF Submit, StateType
  <2>2. UNCHANGED <<delivered, lastApplied, sm, persisted>>
    BY <1>3 DEF Submit
  <2> QED
    BY <1>2, <2>1, <2>2
<1>4. ASSUME UNCHANGED <<delivered, lastApplied, sm, persisted, opId>>
      PROVE  StateType' /\ SameState' /\ SnapshotInv'
  BY <1>0, <1>2, <1>4 DEF StateType
<1>5. ASSUME NEW i \in Server, NEW k \in Server, Elect(i) \/ StepDown(i) \/ Commit(i) \/ Replicate(k, i)
      PROVE  UNCHANGED <<delivered, lastApplied, sm, persisted, opId>>
  BY <1>5 DEF Elect, StepDown, Commit, Replicate, rsmVars
<1>6. ASSUME NEW q \in Request, Start(q) \/ Register(q) \/ WaitForResult(q) \/ Leave(q) \/ SubmitTimeout(q)
      PROVE  UNCHANGED <<delivered, lastApplied, sm, persisted, opId>>
  BY <1>6 DEF Start, Register, WaitForResult, Leave, SubmitTimeout, rsmVars
<1>7. ASSUME UNCHANGED vars PROVE UNCHANGED <<delivered, lastApplied, sm, persisted, opId>>
  BY <1>7 DEF vars
<1>8. ASSUME NEW i \in Server, Restart(i)
      PROVE  StateType' /\ SameState' /\ SnapshotInv'
  <2>1. persisted' = [persisted EXCEPT ![i] = persisted[i]]
    BY <1>0, <1>8 DEF Restart, StateType
  <2>2. /\ UNCHANGED committed
        /\ delivered' = [delivered EXCEPT ![i] = persisted[i].lastApplied]
        /\ lastApplied' = [lastApplied EXCEPT ![i] = persisted[i].lastApplied]
        /\ opId' = [opId EXCEPT ![i] = persisted[i].opId]
        /\ sm' = [sm EXCEPT ![i] = persisted[i].sm]
    BY <1>8 DEF Restart
  <2> QED
    BY <1>0, <2>1, <2>2, LoadState
<1>9. ASSUME NEW i \in Server, NEW k \in Server, applySnapshot(i, k)
      PROVE  StateType' /\ SameState' /\ SnapshotInv'
  <2>1. ~(persisted[k].lastApplied <= lastApplied[i])
    BY <1>0, <1>9 DEF applySnapshot, SameState, StateType
  <2>2. /\ UNCHANGED committed
        /\ delivered' = [delivered EXCEPT ![i] = persisted[k].lastApplied]
        /\ lastApplied' = [lastApplied EXCEPT ![i] = persisted[k].lastApplied]
        /\ opId' = [opId EXCEPT ![i] = persisted[k].opId]
        /\ sm' = [sm EXCEPT ![i] = persisted[k].sm]
        /\ persisted' = [persisted EXCEPT ![i] = persisted[k]]
    BY <1>9, <2>1 DEF applySnapshot
  <2> QED
    BY <1>0, <2>2, LoadState
<1>10. ASSUME NEW i \in Server, NEW b \in Snapshots, applyCommand(i, b)
       PROVE  StateType' /\ SameState' /\ SnapshotInv'
  BY <1>0, <1>10, ApplyCommandState
<1> QED
  BY <1>3, <1>4, <1>5, <1>6, <1>7, <1>8, <1>9, <1>10 DEF Next

-----------------------------------------------------------------------------
-----------------------------------------------------------------------------
(* The calls of Submit.                                                    *)

(* A call x may become y in a step: y is good, and goes on from x. *)
GoesOn(x, y, log) ==
    /\ y \in SubRecord /\ Good(y, log)
    /\ x.phase \notin {"idle", "start"} => y.phase \notin {"idle", "start"}

(* y waits where x waited. *)
StillWaits(x, y) ==
    x.phase \in {"wait", "leave"} =>
        y.phase \in {"wait", "leave"} /\ y.server = x.server /\ y.index = x.index

Later ==
    \A q \in Request : sub[q].phase \notin {"idle", "start"} => sub'[q].phase \notin {"idle", "start"}

(* A call stays good when more is committed. *)
LEMMA GoodGrows ==
    ASSUME NEW s \in Seq(Entry), NEW t \in Seq(Entry), Continues(s, t), NEW x, Good(x, s)
    PROVE  Good(x, t)
<1>1. Len(s) \in Nat /\ Len(t) \in Nat /\ Len(s) <= Len(t)
  BY DEF Continues
<1>2. x.done = "true" => x.index \in 1 .. Len(t) /\ x.result = t[x.index].op.Req
  BY <1>1 DEF Good, Continues
<1> QED
  BY <1>2 DEF Good

(* A step in which every call goes on. *)
LEMMA CallsGoOn ==
    ASSUME RaftType, RaftType', SubInv, Continues(committed, committed'),
           sub' = [q \in Request |-> sub'[q]],
           \A q \in Request : sub'[q] = sub[q] \/ GoesOn(sub[q], sub'[q], committed)
    PROVE  SubInv' /\ Later
<1>1. ASSUME NEW q \in Request
      PROVE  /\ sub'[q] \in SubRecord /\ Good(sub'[q], committed')
             /\ sub[q].phase \notin {"idle", "start"} => sub'[q].phase \notin {"idle", "start"}
  <2>1. sub[q] \in SubRecord /\ Good(sub[q], committed)
    BY DEF SubInv
  <2>2. /\ sub'[q] \in SubRecord /\ Good(sub'[q], committed)
        /\ sub[q].phase \notin {"idle", "start"} => sub'[q].phase \notin {"idle", "start"}
    BY <2>1 DEF GoesOn
  <2>3. Good(sub'[q], committed')
    BY <2>2, GoodGrows DEF RaftType
  <2> QED
    BY <2>2, <2>3
<1>2. sub' \in [Request -> SubRecord]
  BY <1>1
<1>3. \A q \in Request : Good(sub'[q], committed')
  BY <1>1
<1>4. SubInv'
  BY <1>2, <1>3 DEF SubInv, Good
<1> QED
  BY <1>1, <1>4 DEF Later

(* A step that leaves pendingOps alone. *)
LEMMA PendingStays ==
    ASSUME PendingType, PendingHasWaiter, UNCHANGED pendingOps,
           \A q \in Request : StillWaits(sub[q], sub'[q])
    PROVE  PendingType' /\ PendingHasWaiter'
<1>1. PendingType'
  BY DEF PendingType
<1>2. ASSUME NEW i \in Server, NEW n \in Index, pendingOps[i][n] # NoOne
      PROVE  LET q == pendingOps[i][n]
             IN  sub'[q].server = i /\ sub'[q].index = n /\ sub'[q].phase \in {"wait", "leave"}
  <2>1. pendingOps[i][n] \in Request
    BY <1>2 DEF PendingType
  <2>2. LET q == pendingOps[i][n]
        IN  sub[q].server = i /\ sub[q].index = n /\ sub[q].phase \in {"wait", "leave"}
    BY <1>2 DEF PendingHasWaiter
  <2> QED
    BY <2>1, <2>2 DEF StillWaits
<1> QED
  BY <1>1, <1>2 DEF PendingHasWaiter

(* Who is pending at an index waits there. *)
LEMMA PendingFacts ==
    ASSUME PendingType, PendingHasWaiter, NEW i \in Server, NEW n \in Index,
           NEW q, q = pendingOps[i][n], q # NoOne
    PROVE  /\ q \in Request
           /\ sub[q].server = i /\ sub[q].index = n /\ sub[q].phase \in {"wait", "leave"}
BY DEF PendingType, PendingHasWaiter

(* Submit takes an id. *)
LEMMA SubmitCall ==
    ASSUME NEW log, NEW x \in SubRecord, Good(x, log), x.phase = "idle",
           NEW i \in Server, NEW id \in Nat, NEW y,
           y = [x EXCEPT !.phase = "start", !.server = i, !.id = id]
    PROVE  GoesOn(x, y, log) /\ StillWaits(x, y)
<1>1. y \in SubRecord
  BY DEF SubRecord, Phase
<1>2. /\ y.phase = "start" /\ y.server = i /\ y.done = x.done /\ y.answer = x.answer
      /\ y.index = x.index /\ y.result = x.result
  BY DEF SubRecord
<1> QED
  BY <1>1, <1>2 DEF GoesOn, StillWaits, Good

(* Start gets an index. *)
LEMMA StartCall ==
    ASSUME NEW log, NEW x \in SubRecord, Good(x, log), x.phase = "start",
           NEW t \in Nat, NEW n \in Nat, n \in Index, NEW y,
           y = [x EXCEPT !.phase = "register", !.term = t, !.index = n]
    PROVE  GoesOn(x, y, log) /\ StillWaits(x, y)
<1>1. y \in SubRecord
  BY DEF SubRecord, Phase
<1>2. /\ y.phase = "register" /\ y.server = x.server /\ y.done = x.done /\ y.answer = x.answer
      /\ y.index = n
  BY DEF SubRecord
<1> QED
  BY <1>1, <1>2 DEF GoesOn, StillWaits, Good

(* Register, WaitForResult and SubmitTimeout. *)
LEMMA WaitCall ==
    ASSUME NEW log, NEW x \in SubRecord, Good(x, log), NEW y,
           \/ x.phase = "register" /\ y = [x EXCEPT !.phase = "wait"]
           \/ /\ x.phase = "wait" /\ x.done = "true"
              /\ y = [x EXCEPT !.phase = "leave", !.answer = "OK"]
           \/ /\ x.phase = "wait"
              /\ y = [x EXCEPT !.phase = "leave", !.answer = "ErrWrongLeader"]
           \/ y = [x EXCEPT !.ret = "ErrWrongLeader"]
    PROVE  /\ GoesOn(x, y, log) /\ StillWaits(x, y)
           /\ y.server = x.server /\ y.index = x.index
<1>1. y \in SubRecord
  BY DEF SubRecord, Phase, Answer
<1>2. /\ y.server = x.server /\ y.index = x.index /\ y.done = x.done /\ y.result = x.result
      /\ \/ x.phase = "register" /\ y.phase = "wait" /\ y.answer = x.answer
         \/ x.phase = "wait" /\ y.phase = "leave" /\ y.answer = "OK" /\ x.done = "true"
         \/ x.phase = "wait" /\ y.phase = "leave" /\ y.answer = "ErrWrongLeader"
         \/ y.phase = x.phase /\ y.answer = x.answer
  BY DEF SubRecord
<1> QED
  BY <1>1, <1>2 DEF GoesOn, StillWaits, Good

(* The end of doSubmit. *)
LEMMA FinishCall ==
    ASSUME SubInv, NEW q \in Request, sub[q].server \in Server, NEW answer,
           (answer = sub[q].answer /\ sub[q].phase = "leave") \/ answer = "ErrWrongLeader"
    PROVE  GoesOn(sub[q], Finish(q, answer), committed)
<1> DEFINE x == sub[q]
           ret == IF x.ret = "none" THEN answer ELSE x.ret
           y == [x EXCEPT !.phase = "end", !.answer = answer, !.ret = ret]
<1>1. x \in SubRecord /\ Good(x, committed)
  BY DEF SubInv
<1>2. answer \in Answer /\ ret \in Answer
  BY <1>1 DEF SubRecord, Answer
<1>3. Finish(q, answer) = y
  BY DEF Finish
<1> HIDE DEF ret
<1>4. y \in SubRecord
  BY <1>1, <1>2 DEF SubRecord, Phase
<1>5. /\ y.phase = "end" /\ y.answer = answer /\ y.server = x.server
      /\ y.done = x.done /\ y.index = x.index /\ y.result = x.result
  BY <1>1 DEF SubRecord
<1> HIDE DEF y
<1>6. GoesOn(x, y, committed)
  BY <1>1, <1>4, <1>5 DEF GoesOn, Good
<1> QED
  BY <1>3, <1>6

(* A send on the done channel of a call that waits. *)
LEMMA NotifyCall ==
    ASSUME SubInv, NEW q \in Request, sub[q].phase \in {"wait", "leave"}
    PROVE  /\ GoesOn(sub[q], Notify(q, "false"), committed)
           /\ StillWaits(sub[q], Notify(q, "false"))
           /\ /\ sub[q].index \in 1 .. Len(committed)
              /\ committed[sub[q].index].op.Req \in Request
              => LET y == [Notify(q, "true") EXCEPT !.result = committed[sub[q].index].op.Req]
                 IN  GoesOn(sub[q], y, committed) /\ StillWaits(sub[q], y)
<1> DEFINE x == sub[q]
<1>1. x \in SubRecord /\ Good(x, committed)
  BY DEF SubInv
<1>2. GoesOn(x, Notify(q, "false"), committed) /\ StillWaits(x, Notify(q, "false"))
  <2> DEFINE d == IF x.done = "empty" THEN "false" ELSE x.done
             y == [x EXCEPT !.done = d]
  <2>1. Notify(q, "false") = y
    BY DEF Notify
  <2>2. d \in {"empty", "true", "false"} /\ (d = "true" => x.done = "true") /\ (x.done = "true" => d = "true")
    BY <1>1 DEF SubRecord
  <2> HIDE DEF d
  <2>3. y \in SubRecord
    BY <1>1, <2>2 DEF SubRecord
  <2>4. /\ y.done = d /\ y.phase = x.phase /\ y.answer = x.answer /\ y.server = x.server
        /\ y.index = x.index /\ y.result = x.result
    BY <1>1 DEF SubRecord
  <2> HIDE DEF y
  <2>5. GoesOn(x, y, committed) /\ StillWaits(x, y)
    BY <1>1, <2>2, <2>3, <2>4 DEF GoesOn, StillWaits, Good
  <2> QED
    BY <2>1, <2>5
<1>3. ASSUME x.index \in 1 .. Len(committed), committed[x.index].op.Req \in Request
      PROVE  LET y == [Notify(q, "true") EXCEPT !.result = committed[x.index].op.Req]
             IN  GoesOn(x, y, committed) /\ StillWaits(x, y)
  <2> DEFINE d == IF x.done = "empty" THEN "true" ELSE x.done
             z == [x EXCEPT !.done = d]
             y == [z EXCEPT !.result = committed[x.index].op.Req]
  <2>1. Notify(q, "true") = z
    BY DEF Notify
  <2>2. d \in {"empty", "true", "false"} /\ (x.done = "true" => d = "true")
    BY <1>1 DEF SubRecord
  <2> HIDE DEF d
  <2>3. z \in SubRecord
    BY <1>1, <2>2 DEF SubRecord
  <2>4. /\ z.done = d /\ z.phase = x.phase /\ z.answer = x.answer /\ z.server = x.server
        /\ z.index = x.index
    BY <1>1 DEF SubRecord
  <2> HIDE DEF z
  <2>5. y \in SubRecord
    BY <1>3, <2>3 DEF SubRecord
  <2>6. /\ y.done = z.done /\ y.phase = z.phase /\ y.answer = z.answer /\ y.server = z.server
        /\ y.index = z.index /\ y.result = committed[x.index].op.Req
    BY <2>3 DEF SubRecord
  <2> HIDE DEF y
  <2>7. GoesOn(x, y, committed) /\ StillWaits(x, y)
    BY <1>1, <1>3, <2>2, <2>4, <2>5, <2>6 DEF GoesOn, StillWaits, Good
  <2> QED
    BY <2>1, <2>7 DEF y
<1> QED
  BY <1>2, <1>3

-----------------------------------------------------------------------------
(* One lemma for each step that changes a call.                            *)

(* A step that changes one call. *)
LEMMA OneCall ==
    ASSUME SubInv, NEW q \in Request, NEW y, sub' = [sub EXCEPT ![q] = y],
           GoesOn(sub[q], y, committed)
    PROVE  /\ sub' = [p \in Request |-> sub'[p]]
           /\ \A p \in Request : sub'[p] = sub[p] \/ GoesOn(sub[p], sub'[p], committed)
           /\ sub'[q] = y /\ \A p \in Request : p # q => sub'[p] = sub[p]
           /\ StillWaits(sub[q], y) => \A p \in Request : StillWaits(sub[p], sub'[p])
<1>1. sub \in [Request -> SubRecord]
  BY DEF SubInv
<1>2. sub' = [p \in Request |-> sub'[p]]
  BY <1>1
<1>3. sub'[q] = y /\ \A p \in Request : p # q => sub'[p] = sub[p]
  BY <1>1
<1> QED
  BY <1>2, <1>3 DEF StillWaits

(* Submit, Start, WaitForResult and SubmitTimeout. *)
LEMMA SimpleCalls ==
    ASSUME RSMInv, RaftType', Continues(committed, committed'), NEW q \in Request,
           (\E i \in Server : Submit(q, i)) \/ Start(q) \/ WaitForResult(q) \/ SubmitTimeout(q)
    PROVE  SubInv' /\ Later /\ PendingType' /\ PendingHasWaiter'
<1> DEFINE x == sub[q]
<1>0. /\ RaftType /\ StateType /\ SubInv /\ PendingType /\ PendingHasWaiter /\ LogInv
      /\ sub \in [Request -> SubRecord] /\ x \in SubRecord /\ Good(x, committed)
  BY DEF RSMInv, SubInv
<1>1. UNCHANGED pendingOps
  BY DEF Submit, Start, WaitForResult, SubmitTimeout, rsmVars
<1>2. ASSUME NEW y, sub' = [sub EXCEPT ![q] = y], GoesOn(x, y, committed), StillWaits(x, y)
      PROVE  SubInv' /\ Later /\ PendingType' /\ PendingHasWaiter'
  <2>1. /\ sub' = [p \in Request |-> sub'[p]]
        /\ \A p \in Request : sub'[p] = sub[p] \/ GoesOn(sub[p], sub'[p], committed)
        /\ \A p \in Request : StillWaits(sub[p], sub'[p])
    BY <1>0, <1>2, OneCall
  <2>2. SubInv' /\ Later
    BY <1>0, <2>1, CallsGoOn
  <2>3. PendingType' /\ PendingHasWaiter'
    BY <1>0, <1>1, <2>1, PendingStays
  <2> QED
    BY <2>2, <2>3
<1>3. ASSUME NEW i \in Server, Submit(q, i)
      PROVE  SubInv' /\ Later /\ PendingType' /\ PendingHasWaiter'
  <2> DEFINE y == [x EXCEPT !.phase = "start", !.server = i, !.id = opId[i] + 1]
  <2>1. sub' = [sub EXCEPT ![q] = y]
    BY <1>0, <1>3 DEF Submit
  <2>2. x.phase = "idle" /\ opId[i] + 1 \in Nat
    <3>1. opId[i] \in Nat
      BY <1>0 DEF StateType
    <3>2. opId[i] + 1 \in Nat
      BY <3>1
    <3>3. x.phase = "idle"
      BY <1>3 DEF Submit
    <3> QED
      BY <3>2, <3>3
  <2>3. GoesOn(x, y, committed) /\ StillWaits(x, y)
    BY <1>0, <2>2, SubmitCall
  <2> QED
    BY <1>2, <2>1, <2>3
<1>4. CASE Start(q)
  <2> DEFINE i == x.server
             n == Len(rlog[i]) + 1
             y == [x EXCEPT !.phase = "register", !.term = view[i].term, !.index = n]
  <2>1. x.phase = "start" /\ i \in Server
    BY <1>0, <1>4 DEF Start, Good
  <2>2. CASE sub' = [sub EXCEPT ![q] = Finish(q, "ErrWrongLeader")]
    <3>1. GoesOn(x, Finish(q, "ErrWrongLeader"), committed)
      BY <1>0, <2>1, FinishCall
    <3>2. StillWaits(x, Finish(q, "ErrWrongLeader"))
      BY <2>1 DEF StillWaits
    <3> QED
      BY <1>2, <2>2, <3>1, <3>2
  <2>3. CASE sub' = [sub EXCEPT ![q].phase = "register", ![q].term = view[i].term, ![q].index = n]
    <3>1. sub' = [sub EXCEPT ![q] = y]
      BY <1>0, <2>3
    <3>2. rlog[i] \in Seq(Entry) /\ view[i].term \in Nat
      BY <1>0, <2>1 DEF RaftType
    <3>3. Once(rlog[i]) /\ \A m \in 1 .. Len(rlog[i]) : rlog[i][m].op.Req # q
      BY <1>0, <2>1 DEF LogInv, Started
    <3>4. Len(rlog[i]) \in Nat /\ Len(rlog[i]) < Cardinality(Request)
      BY <3>2, <3>3, LogBound
    <3>5. n \in Nat /\ n \in Index
      <4>1. Cardinality(Request) \in Nat
        BY SetsAssumption, FS_CardinalityType
      <4> QED
        BY <3>4, <4>1 DEF Index
    <3>6. GoesOn(x, y, committed) /\ StillWaits(x, y)
      BY <1>0, <2>1, <3>2, <3>5, StartCall
    <3> QED
      BY <1>2, <3>1, <3>6
  <2> QED
    BY <1>4, <2>2, <2>3 DEF Start
<1>5. CASE WaitForResult(q) \/ SubmitTimeout(q)
  <2>1. \E y : /\ sub' = [sub EXCEPT ![q] = y]
               /\ \/ /\ x.phase = "wait" /\ x.done = "true"
                     /\ y = [x EXCEPT !.phase = "leave", !.answer = "OK"]
                  \/ /\ x.phase = "wait"
                     /\ y = [x EXCEPT !.phase = "leave", !.answer = "ErrWrongLeader"]
                  \/ y = [x EXCEPT !.ret = "ErrWrongLeader"]
    <3>1. CASE SubmitTimeout(q)
      <4>1. sub' = [sub EXCEPT ![q] = [x EXCEPT !.ret = "ErrWrongLeader"]]
        BY <1>0, <3>1 DEF SubmitTimeout
      <4> QED
        BY <4>1
    <3>2. CASE WaitForResult(q)
      <4>1. \/ /\ x.phase = "wait" /\ x.done = "true"
               /\ sub' = [sub EXCEPT ![q] = [x EXCEPT !.phase = "leave", !.answer = "OK"]]
            \/ /\ x.phase = "wait"
               /\ sub' = [sub EXCEPT ![q] = [x EXCEPT !.phase = "leave", !.answer = "ErrWrongLeader"]]
        BY <1>0, <3>2 DEF WaitForResult
      <4> QED
        BY <4>1
    <3> QED
      BY <1>5, <3>1, <3>2
  <2>2. PICK y : /\ sub' = [sub EXCEPT ![q] = y]
                 /\ \/ /\ x.phase = "wait" /\ x.done = "true"
                       /\ y = [x EXCEPT !.phase = "leave", !.answer = "OK"]
                    \/ /\ x.phase = "wait"
                       /\ y = [x EXCEPT !.phase = "leave", !.answer = "ErrWrongLeader"]
                    \/ y = [x EXCEPT !.ret = "ErrWrongLeader"]
    BY <2>1
  <2>3. GoesOn(x, y, committed) /\ StillWaits(x, y)
    BY <1>0, <2>2, WaitCall
  <2> QED
    BY <1>2, <2>2, <2>3
<1> QED
  BY <1>3, <1>4, <1>5

(* Register becomes the pending operation and tells the one it replaces. *)
LEMMA RegisterCalls ==
    ASSUME RSMInv, RaftType', Continues(committed, committed'), NEW q \in Request, Register(q)
    PROVE  SubInv' /\ Later /\ PendingType' /\ PendingHasWaiter'
<1> DEFINE x == sub[q]
           i == x.server
           n == x.index
           old == pendingOps[i][n]
           y == [x EXCEPT !.phase = "wait"]
<1>0. /\ RaftType /\ SubInv /\ PendingType /\ PendingHasWaiter
      /\ sub \in [Request -> SubRecord] /\ x \in SubRecord /\ Good(x, committed)
  BY DEF RSMInv, SubInv
<1>1. /\ x.phase = "register" /\ i \in Server /\ n \in Index
      /\ pendingOps' = [pendingOps EXCEPT ![i][n] = q]
      /\ sub' = IF old = NoOne THEN [sub EXCEPT ![q] = y]
                ELSE [sub EXCEPT ![q] = y, ![old] = Notify(old, "false")]
  BY <1>0 DEF Register, Good
<1>2. /\ GoesOn(x, y, committed) /\ y.server = i /\ y.index = n /\ y.phase = "wait"
  <2>1. GoesOn(x, y, committed) /\ y.server = i /\ y.index = n
    BY <1>0, <1>1, WaitCall
  <2>2. y.phase = "wait"
    BY <1>0 DEF SubRecord
  <2> QED
    BY <2>1, <2>2
<1>3. old # NoOne => /\ old \in Request /\ old # q /\ sub[old].phase \in {"wait", "leave"}
                     /\ GoesOn(sub[old], Notify(old, "false"), committed)
                     /\ StillWaits(sub[old], Notify(old, "false"))
  <2>1. old # NoOne => old \in Request /\ sub[old].phase \in {"wait", "leave"}
    BY <1>0, <1>1, PendingFacts
  <2> HIDE DEF old
  <2>2. old # NoOne => old # q
    BY <1>1, <2>1
  <2>3. old # NoOne => /\ GoesOn(sub[old], Notify(old, "false"), committed)
                       /\ StillWaits(sub[old], Notify(old, "false"))
    BY <1>0, <2>1, NotifyCall
  <2> QED
    BY <2>1, <2>2, <2>3
<1> HIDE DEF y, old, i, n
<1>4. /\ sub' = [p \in Request |-> sub'[p]]
      /\ sub'[q] = y
      /\ \A p \in Request : p # q =>
           \/ sub'[p] = sub[p]
           \/ GoesOn(sub[p], sub'[p], committed) /\ StillWaits(sub[p], sub'[p])
  <2>1. CASE old = NoOne
    <3>1. sub' = [sub EXCEPT ![q] = y]
      BY <1>1, <2>1
    <3> QED
      BY <1>0, <3>1
  <2>2. CASE old # NoOne
    <3>1. sub' = [sub EXCEPT ![q] = y, ![old] = Notify(old, "false")]
      BY <1>1, <2>2
    <3>2. /\ sub' = [p \in Request |-> sub'[p]]
          /\ sub'[q] = y /\ sub'[old] = Notify(old, "false")
          /\ \A p \in Request : p # q /\ p # old => sub'[p] = sub[p]
      BY <1>0, <1>3, <2>2, <3>1
    <3> QED
      BY <1>3, <2>2, <3>2
  <2> QED
    BY <2>1, <2>2
<1>5. SubInv' /\ Later
  BY <1>0, <1>2, <1>4, CallsGoOn
<1>6. PendingType'
  BY <1>0, <1>1 DEF PendingType
<1>7. ASSUME NEW j \in Server, NEW m \in Index, NEW p, p = pendingOps'[j][m], p # NoOne
      PROVE  sub'[p].server = j /\ sub'[p].index = m /\ sub'[p].phase \in {"wait", "leave"}
  <2>1. CASE j = i /\ m = n
    <3>1. p = q
      BY <1>0, <1>1, <1>7, <2>1 DEF PendingType
    <3> QED
      BY <1>2, <1>4, <2>1, <3>1
  <2>2. CASE ~(j = i /\ m = n)
    <3>1. p = pendingOps[j][m]
      BY <1>0, <1>1, <1>7, <2>2 DEF PendingType
    <3>2. /\ p \in Request
          /\ sub[p].server = j /\ sub[p].index = m /\ sub[p].phase \in {"wait", "leave"}
      BY <1>0, <1>7, <3>1, PendingFacts
    <3>3. p # q
      BY <1>1, <3>2
    <3> QED
      BY <1>4, <3>2, <3>3 DEF StillWaits
  <2> QED
    BY <2>1, <2>2
<1>8. PendingHasWaiter'
  BY <1>7 DEF PendingHasWaiter
<1> QED
  BY <1>5, <1>6, <1>8

(* Leave deletes what is pending at its index, itself or a later one. *)
LEMMA LeaveCalls ==
    ASSUME RSMInv, RaftType', Continues(committed, committed'), NEW q \in Request, Leave(q)
    PROVE  SubInv' /\ Later /\ PendingType' /\ PendingHasWaiter'
<1> DEFINE x == sub[q]
           i == x.server
           n == x.index
           y == Finish(q, x.answer)
<1>0. /\ RaftType /\ SubInv /\ PendingType /\ PendingHasWaiter
      /\ sub \in [Request -> SubRecord] /\ x \in SubRecord /\ Good(x, committed)
  BY DEF RSMInv, SubInv
<1>1. /\ x.phase = "leave" /\ i \in Server /\ n \in Index
      /\ pendingOps' = [pendingOps EXCEPT ![i][n] = NoOne]
      /\ sub' = [sub EXCEPT ![q] = y]
  BY <1>0 DEF Leave, Good
<1>2. GoesOn(x, y, committed)
  BY <1>0, <1>1, FinishCall
<1> HIDE DEF y, i, n
<1>3. /\ sub' = [p \in Request |-> sub'[p]]
      /\ \A p \in Request : sub'[p] = sub[p] \/ GoesOn(sub[p], sub'[p], committed)
      /\ \A p \in Request : p # q => sub'[p] = sub[p]
  BY <1>0, <1>1, <1>2, OneCall
<1>4. SubInv' /\ Later
  BY <1>0, <1>3, CallsGoOn
<1>5. PendingType'
  BY <1>0, <1>1 DEF PendingType
<1>6. ASSUME NEW j \in Server, NEW m \in Index, NEW p, p = pendingOps'[j][m], p # NoOne
      PROVE  sub'[p].server = j /\ sub'[p].index = m /\ sub'[p].phase \in {"wait", "leave"}
  <2>1. ~(j = i /\ m = n) /\ p = pendingOps[j][m]
    BY <1>0, <1>1, <1>6 DEF PendingType
  <2>2. /\ p \in Request
        /\ sub[p].server = j /\ sub[p].index = m /\ sub[p].phase \in {"wait", "leave"}
    BY <1>0, <1>6, <2>1, PendingFacts
  <2>3. p # q
    BY <2>1, <2>2 DEF i, n
  <2> QED
    BY <1>3, <2>2, <2>3
<1>7. PendingHasWaiter'
  BY <1>6 DEF PendingHasWaiter
<1> QED
  BY <1>4, <1>5, <1>7

(* applyCommand tells who waits at the index whether the operation there   *)
(* is its own; the index of the entry is one of pendingOps.                *)
LEMMA ApplyCommandCalls ==
    ASSUME RSMInv, RaftType', Continues(committed, committed'),
           NEW i \in Server, NEW b, applyCommand(i, b)
    PROVE  SubInv' /\ Later /\ PendingType' /\ PendingHasWaiter'
<1> DEFINE n == delivered[i] + 1
           req == committed[n].op.Req
           p == pendingOps[i][n]
<1>0. /\ RaftType /\ StateType /\ SubInv /\ PendingType /\ PendingHasWaiter /\ LogInv
      /\ sub \in [Request -> SubRecord]
  BY DEF RSMInv, SubInv
<1>1. UNCHANGED pendingOps /\ n <= Len(committed)
  BY DEF applyCommand, CanDeliver
<1>2. committed \in Seq(Entry) /\ Len(committed) \in Nat /\ n \in 1 .. Len(committed)
  <2>1. delivered[i] \in Nat /\ committed \in Seq(Entry)
    BY <1>0 DEF StateType, RaftType
  <2> QED
    BY <1>1, <2>1
<1>3. req \in Request
  <2>1. committed[n] \in Entry
    BY <1>2
  <2> QED
    BY <2>1 DEF Entry
<1>4. n \in Index
  <2>1. Once(committed)
    BY <1>0 DEF LogInv
  <2>2. Len(committed) <= Cardinality(Request)
    BY <1>2, <2>1, LogBound
  <2>3. Cardinality(Request) \in Nat
    BY SetsAssumption, FS_CardinalityType
  <2> QED
    BY <1>2, <2>2, <2>3 DEF Index
<1>5. \/ sub' = sub
      \/ /\ p # NoOne
         /\ \/ sub' = [sub EXCEPT ![p] = [Notify(p, "true") EXCEPT !.result = req]]
            \/ sub' = [sub EXCEPT ![p] = Notify(p, "false")]
  BY DEF applyCommand
<1>6. p # NoOne => p \in Request /\ sub[p].index = n /\ sub[p].phase \in {"wait", "leave"}
  BY <1>0, <1>4, PendingFacts
<1> HIDE DEF p, n
<1>7. /\ sub' = [r \in Request |-> sub'[r]]
      /\ \A r \in Request : sub'[r] = sub[r] \/ GoesOn(sub[r], sub'[r], committed)
      /\ \A r \in Request : StillWaits(sub[r], sub'[r])
  <2>1. CASE sub' = sub
    BY <1>0, <2>1 DEF StillWaits
  <2>2. ASSUME NEW y, p # NoOne, sub' = [sub EXCEPT ![p] = y],
               GoesOn(sub[p], y, committed), StillWaits(sub[p], y)
        PROVE  /\ sub' = [r \in Request |-> sub'[r]]
               /\ \A r \in Request : sub'[r] = sub[r] \/ GoesOn(sub[r], sub'[r], committed)
               /\ \A r \in Request : StillWaits(sub[r], sub'[r])
    BY <1>0, <1>6, <2>2, OneCall
  <2>3. CASE p # NoOne /\ sub' = [sub EXCEPT ![p] = [Notify(p, "true") EXCEPT !.result = req]]
    <3>1. /\ p \in Request /\ sub[p].phase \in {"wait", "leave"}
          /\ sub[p].index = n /\ committed[sub[p].index].op.Req = req
      BY <1>6, <2>3
    <3>2. LET y == [Notify(p, "true") EXCEPT !.result = committed[sub[p].index].op.Req]
          IN  GoesOn(sub[p], y, committed) /\ StillWaits(sub[p], y)
      BY <1>0, <1>2, <1>3, <3>1, NotifyCall
    <3> QED
      BY <2>2, <2>3, <3>1, <3>2
  <2>4. CASE p # NoOne /\ sub' = [sub EXCEPT ![p] = Notify(p, "false")]
    <3>1. GoesOn(sub[p], Notify(p, "false"), committed) /\ StillWaits(sub[p], Notify(p, "false"))
      BY <1>0, <1>6, <2>4, NotifyCall
    <3> QED
      BY <2>2, <2>4, <3>1
  <2> QED
    BY <1>5, <2>1, <2>3, <2>4
<1>8. SubInv' /\ Later
  BY <1>0, <1>7, CallsGoOn
<1>9. PendingType' /\ PendingHasWaiter'
  BY <1>0, <1>1, <1>7, PendingStays
<1> QED
  BY <1>8, <1>9

(* applySnapshot tells those who wait at indices it covers that they lost. *)
LEMMA ApplySnapshotCalls ==
    ASSUME RSMInv, RaftType', Continues(committed, committed'),
           NEW i \in Server, NEW k \in Server, applySnapshot(i, k)
    PROVE  SubInv' /\ Later /\ PendingType' /\ PendingHasWaiter'
<1> DEFINE n == persisted[k].lastApplied
           covered == {pendingOps[i][m] : m \in 1 .. n} \ {NoOne}
<1>0. /\ RaftType /\ StateType /\ SubInv /\ PendingType /\ PendingHasWaiter /\ LogInv /\ SnapshotInv
      /\ sub \in [Request -> SubRecord]
  BY DEF RSMInv, SubInv
<1>1. /\ UNCHANGED pendingOps
      /\ \/ sub' = sub
         \/ sub' = [q \in Request |-> IF q \in covered THEN Notify(q, "false") ELSE sub[q]]
  BY DEF applySnapshot
<1>2. \A m \in 1 .. n : m \in Index
  <2>1. n \in Nat /\ n <= Len(committed) /\ committed \in Seq(Entry) /\ Once(committed)
    BY <1>0 DEF StateType, SnapshotInv, RaftType, LogInv
  <2>2. Len(committed) \in Nat /\ Len(committed) <= Cardinality(Request)
    BY <2>1, LogBound
  <2>3. Cardinality(Request) \in Nat
    BY SetsAssumption, FS_CardinalityType
  <2> QED
    BY <2>1, <2>2, <2>3 DEF Index
<1>3. ASSUME NEW q \in covered
      PROVE  q \in Request /\ sub[q].phase \in {"wait", "leave"}
  <2>1. PICK m \in 1 .. n : q = pendingOps[i][m] /\ q # NoOne
    OBVIOUS
  <2> QED
    BY <1>0, <1>2, <2>1, PendingFacts
<1> HIDE DEF covered
<1>4. /\ sub' = [q \in Request |-> sub'[q]]
      /\ \A q \in Request : sub'[q] = sub[q] \/ (q \in covered /\ sub'[q] = Notify(q, "false"))
  BY <1>0, <1>1
<1>5. \A q \in Request :
        \/ sub'[q] = sub[q]
        \/ GoesOn(sub[q], sub'[q], committed) /\ StillWaits(sub[q], sub'[q])
  BY <1>0, <1>3, <1>4, NotifyCall
<1>6. SubInv' /\ Later
  BY <1>0, <1>4, <1>5, CallsGoOn
<1>7. \A q \in Request : StillWaits(sub[q], sub'[q])
  BY <1>5 DEF StillWaits
<1>8. PendingType' /\ PendingHasWaiter'
  BY <1>0, <1>1, <1>7, PendingStays
<1> QED
  BY <1>6, <1>8

(* Restart ends every call of the old instance. *)
LEMMA RestartCalls ==
    ASSUME RSMInv, RaftType', Continues(committed, committed'), NEW i \in Server, Restart(i)
    PROVE  SubInv' /\ Later /\ PendingType' /\ PendingHasWaiter'
<1>0. /\ RaftType /\ SubInv /\ PendingType /\ PendingHasWaiter
      /\ sub \in [Request -> SubRecord]
  BY DEF RSMInv, SubInv
<1>1. /\ pendingOps' = [pendingOps EXCEPT ![i] = [n \in Index |-> NoOne]]
  BY DEF Restart
<1>2. /\ sub' = [q \in Request |-> sub'[q]]
      /\ \A q \in Request :
           \/ sub'[q] = sub[q]
           \/ /\ sub[q].server = i
              /\ \/ sub'[q] = Finish(q, "ErrWrongLeader")
                 \/ sub[q].phase = "leave" /\ sub'[q] = Finish(q, sub[q].answer)
  <2>1. PICK late \in SUBSET {q \in Request : sub[q].phase = "leave"} :
          sub' = [q \in Request |->
                    IF sub[q].server = i /\ sub[q].phase # "end"
                    THEN Finish(q, IF q \in late THEN sub[q].answer ELSE "ErrWrongLeader")
                    ELSE sub[q]]
    BY DEF Restart
  <2> QED
    BY <2>1
<1>3. \A q \in Request : sub'[q] = sub[q] \/ GoesOn(sub[q], sub'[q], committed)
  BY <1>0, <1>2, FinishCall
<1>4. SubInv' /\ Later
  BY <1>0, <1>2, <1>3, CallsGoOn
<1>5. PendingType'
  BY <1>0, <1>1 DEF PendingType
<1>6. ASSUME NEW j \in Server, NEW m \in Index, NEW p, p = pendingOps'[j][m], p # NoOne
      PROVE  sub'[p].server = j /\ sub'[p].index = m /\ sub'[p].phase \in {"wait", "leave"}
  <2>1. j # i /\ p = pendingOps[j][m]
    BY <1>0, <1>1, <1>6 DEF PendingType
  <2>2. /\ p \in Request
        /\ sub[p].server = j /\ sub[p].index = m /\ sub[p].phase \in {"wait", "leave"}
    BY <1>0, <1>6, <2>1, PendingFacts
  <2> QED
    BY <1>2, <2>1, <2>2
<1>7. PendingHasWaiter'
  BY <1>6 DEF PendingHasWaiter
<1> QED
  BY <1>4, <1>5, <1>7

(* Every step keeps what is known of the calls and of pendingOps. *)
LEMMA CallsStep ==
    ASSUME RSMInv, [Next]_vars
    PROVE  SubInv' /\ Later /\ PendingType' /\ PendingHasWaiter'
<1>0. RaftType /\ SubInv /\ PendingType /\ PendingHasWaiter
  BY DEF RSMInv
<1>1. RaftType' /\ Continues(committed, committed')
  BY RaftStep
<1>2. ASSUME UNCHANGED <<sub, pendingOps>>
      PROVE  SubInv' /\ Later /\ PendingType' /\ PendingHasWaiter'
  <2>1. sub' = [q \in Request |-> sub'[q]] /\ \A q \in Request : sub'[q] = sub[q]
    BY <1>0, <1>2 DEF SubInv
  <2>2. SubInv' /\ Later
    BY <1>0, <1>1, <2>1, CallsGoOn
  <2>3. \A q \in Request : StillWaits(sub[q], sub'[q])
    BY <2>1 DEF StillWaits
  <2> QED
    BY <1>0, <1>2, <2>2, <2>3, PendingStays
<1>3. ASSUME NEW i \in Server, NEW k \in Server, Elect(i) \/ StepDown(i) \/ Commit(i) \/ Replicate(k, i)
      PROVE  UNCHANGED <<sub, pendingOps>>
  BY <1>3 DEF Elect, StepDown, Commit, Replicate, rsmVars
<1>4. ASSUME UNCHANGED vars PROVE UNCHANGED <<sub, pendingOps>>
  BY <1>4 DEF vars
<1> QED
  BY <1>1, <1>2, <1>3, <1>4, SimpleCalls, RegisterCalls, LeaveCalls, ApplyCommandCalls,
     ApplySnapshotCalls, RestartCalls DEF Next

-----------------------------------------------------------------------------
(* The logs.                                                               *)

(* A log that is the beginning of one with the properties of LogInv. *)
LEMMA BeginningOfLog ==
    ASSUME NEW s \in Seq(Entry), NEW n \in Nat, n <= Len(s), Once(s), Started(s)
    PROVE  Once(SubSeq(s, 1, n)) /\ Started(SubSeq(s, 1, n))
<1>1. /\ Len(SubSeq(s, 1, n)) = n /\ Len(s) \in Nat
      /\ \A m \in 1 .. n : m \in 1 .. Len(s) /\ SubSeq(s, 1, n)[m] = s[m]
  BY FirstEntries
<1> QED
  BY <1>1 DEF Once, Started

(* A request that is started stays so. *)
LEMMA StartedStays ==
    ASSUME NEW s \in Seq(Entry), Started(s), Later
    PROVE  \A n \in 1 .. Len(s) : sub'[s[n].op.Req].phase \notin {"idle", "start"}
<1> SUFFICES ASSUME NEW n \in 1 .. Len(s)
             PROVE  sub'[s[n].op.Req].phase \notin {"idle", "start"}
  OBVIOUS
<1>1. s[n] \in Entry
  OBVIOUS
<1>2. s[n].op.Req \in Request
  BY <1>1 DEF Entry
<1> QED
  BY <1>2 DEF Started, Later

(* Every step: a log is the beginning of an old one, or an old one with a  *)
(* request that was not in any log.                                        *)
LEMMA LogStep ==
    ASSUME RSMInv, [Next]_vars
    PROVE  LogInv'
<1>0. RaftType /\ StateType /\ SnapshotInv /\ SubInv /\ LogInv
  BY DEF RSMInv
<1>1. Later
  BY CallsStep
<1>2. ASSUME NEW s \in Seq(Entry), Once(s), Started(s), NEW t, t = s
      PROVE  Once(t) /\ \A n \in 1 .. Len(t) : sub'[t[n].op.Req].phase \notin {"idle", "start"}
  BY <1>1, <1>2, StartedStays
<1>3. ASSUME NEW s \in Seq(Entry), Once(s), Started(s), NEW n \in Nat, n <= Len(s),
             NEW t, t = SubSeq(s, 1, n)
      PROVE  Once(t) /\ \A m \in 1 .. Len(t) : sub'[t[m].op.Req].phase \notin {"idle", "start"}
  <2>1. t \in Seq(Entry) /\ Once(t) /\ Started(t)
    BY <1>3, FirstEntries, BeginningOfLog
  <2> QED
    BY <1>1, <2>1, StartedStays
<1>4. /\ committed \in Seq(Entry) /\ Once(committed) /\ Started(committed)
      /\ \A i \in Server : rlog[i] \in Seq(Entry) /\ Once(rlog[i]) /\ Started(rlog[i])
  BY <1>0 DEF RaftType, LogInv
<1>5. Once(committed') /\ \A n \in 1 .. Len(committed') :
                             sub'[committed'[n].op.Req].phase \notin {"idle", "start"}
  <2>1. CASE committed' = committed
    BY <1>2, <1>4, <2>1
  <2>2. ASSUME NEW i \in Server, Commit(i)
        PROVE  Once(committed') /\ \A n \in 1 .. Len(committed') :
                                      sub'[committed'[n].op.Req].phase \notin {"idle", "start"}
    <3>1. PICK n \in Len(committed) + 1 .. Len(rlog[i]) : committed' = SubSeq(rlog[i], 1, n)
      BY <2>2 DEF Commit
    <3>2. n \in Nat /\ n <= Len(rlog[i])
      BY <1>4
    <3> QED
      BY <1>3, <1>4, <3>1, <3>2
  <2>3. committed' = committed \/ \E i \in Server : Commit(i)
    BY DEF Next, Elect, StepDown, Restart, applyCommand, Replicate, applySnapshot, Submit, Start,
           Register, WaitForResult, Leave, SubmitTimeout, raftVars, vars
  <2> QED
    BY <2>1, <2>2, <2>3
<1>6. ASSUME NEW j \in Server
      PROVE  Once(rlog'[j]) /\ \A n \in 1 .. Len(rlog'[j]) :
                                  sub'[rlog'[j][n].op.Req].phase \notin {"idle", "start"}
  <2>0. rlog \in [Server -> Seq(Entry)]
    BY <1>0 DEF RaftType
  <2>1. CASE rlog'[j] = rlog[j]
    BY <1>2, <1>4, <2>1
  <2>2. ASSUME NEW i \in Server, NEW k \in Server, Replicate(k, i), rlog'[j] # rlog[j]
        PROVE  Once(rlog'[j]) /\ \A n \in 1 .. Len(rlog'[j]) :
                                    sub'[rlog'[j][n].op.Req].phase \notin {"idle", "start"}
    <3>1. PICK n \in 1 .. Len(rlog[k]) : rlog'[j] = SubSeq(rlog[k], 1, n)
      BY <2>0, <2>2 DEF Replicate
    <3>2. n \in Nat /\ n <= Len(rlog[k])
      BY <1>4
    <3> QED
      BY <1>3, <1>4, <3>1, <3>2
  <2>3. ASSUME NEW i \in Server, NEW k \in Server, applySnapshot(i, k), rlog'[j] # rlog[j]
        PROVE  Once(rlog'[j]) /\ \A n \in 1 .. Len(rlog'[j]) :
                                    sub'[rlog'[j][n].op.Req].phase \notin {"idle", "start"}
    <3>1. rlog'[j] = SubSeq(committed, 1, persisted[k].lastApplied)
      BY <2>0, <2>3 DEF applySnapshot
    <3>2. persisted[k].lastApplied \in Nat /\ persisted[k].lastApplied <= Len(committed)
      BY <1>0 DEF StateType, SnapshotInv
    <3> QED
      BY <1>3, <1>4, <3>1, <3>2
  <2>4. ASSUME NEW q \in Request, Start(q), rlog'[j] # rlog[j]
        PROVE  Once(rlog'[j]) /\ \A n \in 1 .. Len(rlog'[j]) :
                                    sub'[rlog'[j][n].op.Req].phase \notin {"idle", "start"}
    <3> DEFINE entry == [term |-> view[sub[q].server].term, op |-> Op(sub[q].server, sub[q].id, q)]
               s == rlog[j]
               t == Append(s, entry)
    <3>1. /\ rlog' = [rlog EXCEPT ![sub[q].server] = Append(@, entry)]
          /\ sub[q].phase = "start"
          /\ sub' = [sub EXCEPT ![q].phase = "register", ![q].term = view[sub[q].server].term,
                                ![q].index = Len(rlog[sub[q].server]) + 1]
      BY <2>4 DEF Start
    <3>2. rlog'[j] = t
      BY <2>0, <2>4, <3>1
    <3>3. entry.op.Req = q
      BY DEF Op
    <3>4. sub'[q].phase = "register"
      BY <1>0, <3>1 DEF SubInv, SubRecord
    <3>5. \A n \in 1 .. Len(s) : s[n].op.Req # q
      BY <1>4, <3>1 DEF Started
    <3>6. \A n \in 1 .. Len(s) : sub'[s[n].op.Req].phase \notin {"idle", "start"}
      BY <1>2, <1>4
    <3> HIDE DEF entry
    <3>7. /\ Len(s) \in Nat /\ Len(t) = Len(s) + 1 /\ t[Len(s) + 1] = entry
          /\ \A n \in 1 .. Len(s) : t[n] = s[n]
      BY <1>4
    <3> HIDE DEF t, s
    <3>8. \A n \in 1 .. Len(t) : n \in 1 .. Len(s) \/ n = Len(s) + 1
      BY <3>7
    <3>9. Once(s)
      BY <1>4 DEF s
    <3>10. Once(t)
      BY <3>3, <3>5, <3>7, <3>8, <3>9 DEF Once
    <3>11. \A n \in 1 .. Len(t) : sub'[t[n].op.Req].phase \notin {"idle", "start"}
      BY <3>3, <3>4, <3>6, <3>7, <3>8
    <3> QED
      BY <3>2, <3>10, <3>11
  <2>5. \/ rlog'[j] = rlog[j]
        \/ \E i, k \in Server : Replicate(k, i) \/ applySnapshot(i, k)
        \/ \E q \in Request : Start(q)
    BY DEF Next, Elect, StepDown, Commit, Restart, applyCommand, Submit,
           Register, WaitForResult, Leave, SubmitTimeout, raftVars, vars
  <2> QED
    BY <2>1, <2>2, <2>3, <2>4, <2>5
<1> QED
  BY <1>5, <1>6 DEF LogInv, Once, Started

-----------------------------------------------------------------------------
(* The invariant.                                                          *)

LEMMA InitRSM == Init => RSMInv
<1> SUFFICES ASSUME Init PROVE RSMInv
  OBVIOUS
<1>1. RaftType
  BY DEF Init, RaftType
<1>2. StateType
  BY DEF Init, StateType
<1>3. PendingType /\ PendingHasWaiter
  BY DEF Init, PendingType, PendingHasWaiter
<1>4. LeaderInv
  BY DEF Init, LeaderInv, Leads
<1>5. SameState /\ SnapshotInv
  <2>1. \A i \in Server : /\ lastApplied[i] = 0 /\ delivered[i] = 0 /\ sm[i] = <<>>
                          /\ persisted[i].lastApplied = 0 /\ persisted[i].sm = <<>>
    BY DEF Init
  <2>2. committed = <<>> /\ [n \in 1 .. 0 |-> committed[n].op.Req] = <<>>
    BY DEF Init
  <2> QED
    BY <2>1, <2>2 DEF SameState, SnapshotInv, SnapshotsTrue
<1>6. LogInv
  BY DEF Init, LogInv, Once, Started
<1>7. SubInv
  <2>1. NewSub \in SubRecord
    BY DEF NewSub, SubRecord, Phase, Answer
  <2>2. Good(NewSub, committed)
    BY DEF NewSub, Good
  <2> QED
    BY <2>1, <2>2 DEF Init, SubInv
<1> QED
  BY <1>1, <1>2, <1>3, <1>4, <1>5, <1>6, <1>7 DEF RSMInv

(* The invariant holds in every state. *)
LEMMA RSMInvariance == Spec => []RSMInv
<1>1. Init => RSMInv
  BY InitRSM
<1>2. RSMInv /\ [Next]_vars => RSMInv'
  BY RaftStep, StateStep, CallsStep, LogStep DEF RSMInv
<1> QED
  BY <1>1, <1>2, PTL DEF Spec

(* Every replica has executed the committed log up to lastApplied, each    *)
(* entry once and in order, whatever snapshots and restarts there were.    *)
THEOREM StatesAgree == Spec => []SameState
<1>1. RSMInv => SameState
  BY DEF RSMInv
<1> QED
  BY <1>1, RSMInvariance, PTL

(* A snapshot that createSnapshot made or applySnapshot took over is the   *)
(* state at the index it carries.                                          *)
THEOREM SnapshotsAreTrue == Spec => []SnapshotsTrue
<1>1. RSMInv => SnapshotsTrue
  BY DEF RSMInv, SnapshotInv
<1> QED
  BY <1>1, RSMInvariance, PTL

(* Submit answers OK with the result of the operation that is committed at *)
(* its index.                                                              *)
THEOREM OkMeansExecuted == Spec => []OkIsExecuted
<1>1. RSMInv => OkIsExecuted
  <2> SUFFICES ASSUME RSMInv, NEW q \in Request, sub[q].answer = "OK"
               PROVE  /\ sub[q].index <= Len(committed)
                      /\ sub[q].result = committed[sub[q].index].op.Req
    BY DEF OkIsExecuted
  <2>1. Good(sub[q], committed) /\ committed \in Seq(Entry)
    BY DEF RSMInv, SubInv, RaftType
  <2>2. sub[q].index \in 1 .. Len(committed) /\ sub[q].result = committed[sub[q].index].op.Req
    BY <2>1 DEF Good
  <2> QED
    BY <2>1, <2>2
<1> QED
  BY <1>1, RSMInvariance, PTL

(* An entry of pendingOps always has a doSubmit that waits for it. *)
THEOREM PendingIsAwaited == Spec => []PendingHasWaiter
<1>1. RSMInv => PendingHasWaiter
  BY DEF RSMInv
<1> QED
  BY <1>1, RSMInvariance, PTL
=============================================================================
