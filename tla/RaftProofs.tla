----------------------------- MODULE RaftProofs -----------------------------
(* Proofs about Raft, for every group, every bound and every schedule:     *)
(* types and elections. ElectionInv is inductive: votes are saved before   *)
(* they are promised, a saved vote is never replaced within its term,      *)
(* candidates count promised votes only, and leaders hold a majority of    *)
(* them. Two majorities share a voter, and a voter has one vote per term.  *)
EXTENDS Raft, FiniteSetTheorems, TLAPS

(* The provers to try, with their time limits. *)
USE ZenonT(1), SMT, Zenon, SMTT(30), ZenonT(30)

(* A slice of a sequence: its length and its entries. *)
LEMMA SubSeqFacts ==
    ASSUME NEW S, NEW s, NEW m \in Int, NEW n \in Int, \A i \in m .. n : s[i] \in S
    PROVE  /\ SubSeq(s, m, n) \in Seq(S)
           /\ Len(SubSeq(s, m, n)) = IF m <= n THEN n - m + 1 ELSE 0
           /\ \A i \in 1 .. n - m + 1 : SubSeq(s, m, n)[i] = s[m + i - 1]
OBVIOUS

-----------------------------------------------------------------------------
(* The operators on logs.                                                  *)

(* getLatestLog: the dummy entry makes every log end at or after it. *)
LEMMA LogEnd ==
    ASSUME NEW log \in Log
    PROVE  /\ log.first \in Nat
           /\ Len(log.terms) \in Nat \ {0}
           /\ LastIndex(log) \in Nat
           /\ log.first <= LastIndex(log)
           /\ LastTerm(log) \in Nat
           /\ log.terms[1] \in Nat
  BY DEF Log, LastIndex, LastTerm

(* isValidLogIndex guards every access to rf.logs by index. *)
LEMMA TermAtType ==
    ASSUME NEW log \in Log, NEW k \in Int, HasIndex(log, k)
    PROVE  TermAt(log, k) \in Nat
  BY DEF Log, LastIndex, HasIndex, TermAt

(* rf.logs[k-first:] is a sequence of entries, empty only beyond the end. *)
LEMMA EntriesFromType ==
    ASSUME NEW log \in Log, NEW k \in Int, log.first <= k
    PROVE  /\ EntriesFrom(log, k) \in Seq(Nat)
           /\ k <= LastIndex(log) => EntriesFrom(log, k) # <<>>
<1> DEFINE a == k - log.first + 1
           n == Len(log.terms)
<1>1. a \in Int /\ n \in Nat /\ a >= 1
  BY DEF Log
<1>2. \A i \in a .. n : log.terms[i] \in Nat
  BY <1>1 DEF Log
<1>3. /\ SubSeq(log.terms, a, n) \in Seq(Nat)
      /\ Len(SubSeq(log.terms, a, n)) = IF a <= n THEN n - a + 1 ELSE 0
  BY <1>1, <1>2, SubSeqFacts
<1>4. k <= LastIndex(log) => a <= n
  BY DEF Log, LastIndex
<1>5. k <= LastIndex(log) => Len(SubSeq(log.terms, a, n)) # 0
  BY <1>1, <1>3, <1>4
<1>6. Len(<<>>) = 0
  OBVIOUS
<1>7. EntriesFrom(log, k) = SubSeq(log.terms, a, n)
  BY DEF EntriesFrom
<1> QED
  BY <1>3, <1>5, <1>6, <1>7

(* sort.Search returns an index. *)
LEMMA SearchTermType ==
    ASSUME NEW log \in Log, NEW hi \in Int, NEW t
    PROVE  SearchTerm(log, hi, t) \in Int
<1> DEFINE S == {k \in log.first .. (hi - 1) : TermAt(log, k) < t}
<1>1. log.first \in Int /\ hi - 1 \in Int
  BY DEF Log
<1>2. IsFiniteSet(log.first .. (hi - 1))
  BY <1>1, FS_Interval
<1>3. S \in SUBSET (log.first .. (hi - 1))
  OBVIOUS
<1>4. IsFiniteSet(S)
  BY <1>2, <1>3, FS_Subset
<1>5. Cardinality(S) \in Nat
  BY <1>4, FS_CardinalityType
<1> QED
  BY <1>1, <1>5 DEF SearchTerm

(* QuickSelect of indices is an index. *)
LEMMA MajorityIndexType ==
    ASSUME NEW match, NEW last \in Nat
    PROVE  MajorityIndex(match, last) \in Nat
<1> DEFINE S == {v \in 1 .. last : IsMajority({j \in Server : match[j] >= v})}
<1>1. IsFiniteSet(1 .. last)
  BY FS_Interval
<1>2. S \in SUBSET (1 .. last)
  OBVIOUS
<1>3. IsFiniteSet(S)
  BY <1>1, <1>2, FS_Subset
<1> QED
  BY <1>3, FS_CardinalityType DEF MajorityIndex

(* The append loop of AppendEntry leaves a log. *)
LEMMA AppendEntriesType ==
    ASSUME NEW log \in Log, NEW m \in AppendEntryArgs,
           isLogMatched(log, m.prevLogIndex, m.prevLogTerm)
    PROVE  AppendEntries(m, log) \in Log
<1> DEFINE n == m.prevLogIndex - log.first + 1
           kept == SubSeq(log.terms, 1, n)
<1>1. n \in Nat /\ 1 <= n /\ n <= Len(log.terms)
  <2>1. log.first \in Nat /\ Len(log.terms) \in Nat
    BY LogEnd
  <2>2. m.prevLogIndex \in Int
    BY DEF AppendEntryArgs
  <2>3. log.first <= m.prevLogIndex /\ m.prevLogIndex <= log.first + Len(log.terms) - 1
    BY DEF isLogMatched, HasIndex, LastIndex
  <2> QED
    BY <2>1, <2>2, <2>3
<1>2. \A i \in 1 .. n : log.terms[i] \in Nat
  BY <1>1 DEF Log
<1>3. kept \in Seq(Nat) /\ Len(kept) = n
  BY <1>1, <1>2, SubSeqFacts
<1>4. m.entries \in Seq(Nat)
  BY DEF AppendEntryArgs
<1>5. kept \o m.entries \in Seq(Nat) /\ kept \o m.entries # <<>>
  BY <1>1, <1>3, <1>4
<1> QED
  BY <1>5 DEF AppendEntries, Log

(* InstallSnapShot leaves a log. *)
LEMMA LogAfterSnapshotType ==
    ASSUME NEW log \in Log, NEW index \in Nat, NEW term \in Nat
    PROVE  LogAfterSnapshot(log, index, term) \in Log
<1>1. SingleLog(index, term) \in Log
  BY DEF SingleLog, Log
<1>2. ASSUME isLogMatched(log, index, term)
      PROVE  [first |-> index, terms |-> <<term>> \o EntriesFrom(log, index + 1)] \in Log
  <2>1. log.first <= index + 1
    BY <1>2 DEF Log, isLogMatched, HasIndex
  <2>2. EntriesFrom(log, index + 1) \in Seq(Nat)
    BY <2>1, EntriesFromType
  <2> QED
    BY <2>2 DEF Log
<1> QED
  BY <1>1, <1>2 DEF LogAfterSnapshot

-----------------------------------------------------------------------------
(* The messages the handlers build.                                        *)

(* makeInstallSnapShotArgs and genAppendEntryArgs build well-formed requests. *)
LEMMA RequestType ==
    ASSUME TypeOK, NEW i \in Server, NEW j \in Server
    PROVE  /\ makeInstallSnapShotArgs(i, j) \in InstallSnapShotArgs
           /\ \A prev \in Int : logs[i].first <= prev =>
                genAppendEntryArgs(i, j, prev) \in AppendEntryArgs
<1>0. logs[i] \in Log /\ currentTerm[i] \in Nat /\ commitIndex[i] \in Nat
  BY DEF TypeOK
<1>1. makeInstallSnapShotArgs(i, j) \in InstallSnapShotArgs
  BY <1>0, LogEnd DEF TypeOK, makeInstallSnapShotArgs, InstallSnapShotArgs
<1>2. ASSUME NEW prev \in Int, logs[i].first <= prev
      PROVE  genAppendEntryArgs(i, j, prev) \in AppendEntryArgs
  <2> DEFINE p == Lesser(prev, LastIndex(logs[i]))
  <2>1. p \in Int /\ logs[i].first <= p /\ p <= LastIndex(logs[i])
    BY <1>0, <1>2, LogEnd DEF Lesser
  <2>2. TermAt(logs[i], p) \in Nat
    BY <1>0, <2>1, TermAtType DEF HasIndex
  <2>3. EntriesFrom(logs[i], p + 1) \in Seq(Nat)
    <3>1. p + 1 \in Int /\ logs[i].first <= p + 1
      BY <1>0, <2>1, LogEnd
    <3> QED
      BY <1>0, <3>1, EntriesFromType
  <2> QED
    BY <1>0, <2>1, <2>2, <2>3 DEF genAppendEntryArgs, AppendEntryArgs
<1> QED
  BY <1>1, <1>2

(* AppendEntry builds well-formed replies, *)
LEMMA AppendReplyType ==
    ASSUME NEW m \in AppendEntryArgs, NEW term \in Nat, NEW success \in BOOLEAN,
           NEW conflictIndex \in Int, NEW conflictTerm \in Int
    PROVE  AppendReply(m, term, success, conflictIndex, conflictTerm) \in AppendEntryReply
  BY DEF AppendEntryArgs, AppendReply, AppendEntryReply

(* also when it searches its log for the conflicting term. *)
LEMMA ConflictReplyType ==
    ASSUME NEW m \in AppendEntryArgs, NEW log \in Log
    PROVE  ConflictReply(m, log) \in AppendEntryReply
<1>0. m.prevLogIndex \in Int /\ m.term \in Nat /\ FALSE \in BOOLEAN /\ -1 \in Int
  BY DEF AppendEntryArgs
<1>1. log.first \in Int /\ LastIndex(log) + 1 \in Int
  BY LogEnd
<1>2. AppendReply(m, m.term, FALSE, log.first, -1) \in AppendEntryReply
  BY <1>0, <1>1, AppendReplyType
<1>3. AppendReply(m, m.term, FALSE, LastIndex(log) + 1, -1) \in AppendEntryReply
  BY <1>0, <1>1, AppendReplyType
<1>4. ASSUME ~(m.prevLogIndex < log.first), ~(LastIndex(log) < m.prevLogIndex)
      PROVE  ConflictReply(m, log) \in AppendEntryReply
  <2> DEFINE conflictTerm == TermAt(log, m.prevLogIndex)
             conflictIndex == SearchTerm(log, m.prevLogIndex + 1, conflictTerm)
  <2>0. HasIndex(log, m.prevLogIndex)
    BY <1>0, <1>4, LogEnd DEF HasIndex
  <2>1. conflictTerm \in Int
    BY <1>0, <2>0, TermAtType
  <2>2. conflictIndex \in Int
    BY <1>0, SearchTermType
  <2>3. AppendReply(m, m.term, FALSE, conflictIndex, conflictTerm) \in AppendEntryReply
    <3> HIDE DEF conflictTerm, conflictIndex
    <3> QED
      BY <1>0, <2>1, <2>2, AppendReplyType
  <2> QED
    BY <1>4, <2>3 DEF ConflictReply
<1> QED
  BY <1>2, <1>3, <1>4 DEF ConflictReply

(* A message in flight is of the type its handler expects. *)
LEMMA MessageTypes ==
    ASSUME NEW m \in Message
    PROVE  /\ m.type = "RequestVote" => m \in RequestVoteArgs
           /\ m.type = "RequestVoteReply" => m \in RequestVoteReply
           /\ m.type = "AppendEntry" => m \in AppendEntryArgs
           /\ m.type = "AppendEntryReply" => m \in AppendEntryReply
           /\ m.type = "InstallSnapShot" => m \in InstallSnapShotArgs
           /\ m.type = "InstallSnapShotReply" => m \in InstallSnapShotReply
  BY DEF Message, RequestVoteArgs, RequestVoteReply, AppendEntryArgs, AppendEntryReply,
         InstallSnapShotArgs, InstallSnapShotReply

-----------------------------------------------------------------------------
(* Type correctness.                                                       *)

Persisted == [currentTerm : Nat, voteFor : Server \cup {None}, logs : Log, snapshot : Seq(Nat)]

(* The indices Make starts with are well-formed. *)
LEMMA NewIndicesType ==
    NewNextIndex \in [Server -> Int] /\ NewMatchIndex \in [Server -> Int]
<1>1. LastIndex(SingleLog(0, 0)) = 0
  BY DEF LastIndex, SingleLog
<1> QED
  BY <1>1 DEF NewNextIndex, NewMatchIndex

(* Make without a saved state. *)
LEMMA TypeInit == Init => TypeOK
<1> SUFFICES ASSUME Init PROVE TypeOK
  OBVIOUS
<1>1. SingleLog(0, 0) \in Log
  BY DEF SingleLog, Log
<1>2. <<>> \in Seq(Nat)
  OBVIOUS
<1>3. NoApplyMsg \in ApplyMsg
  BY <1>2 DEF NoApplyMsg, ApplyMsg
<1> QED
  BY <1>1, <1>2, <1>3, NewIndicesType DEF Init, TypeOK

(* persist writes a well-formed record. *)
LEMMA PersistType ==
    ASSUME TypeOK, NEW i \in Server, NEW snapshot \in Seq(Nat), persist(i, snapshot),
           currentTerm'[i] \in Nat, voteFor'[i] \in Server \cup {None}, logs'[i] \in Log
    PROVE  persister' \in [Server -> Persisted]
  BY DEF TypeOK, persist, Persisted

(* So does persistState, which keeps the snapshot. *)
LEMMA PersistStateType ==
    ASSUME TypeOK, NEW i \in Server, persistState(i),
           currentTerm'[i] \in Nat, voteFor'[i] \in Server \cup {None}, logs'[i] \in Log
    PROVE  persister' \in [Server -> Persisted]
<1>1. persister[i].snapshot \in Seq(Nat)
  BY DEF TypeOK
<1> QED
  BY <1>1, PersistType DEF persistState

(* One lemma per action: it keeps the types. *)
LEMMA TypeLaunchElection ==
    ASSUME TypeOK, NEW i \in Server, LaunchElection(i)
    PROVE  TypeOK'
<1>1. /\ currentTerm' \in [Server -> Nat]
      /\ voteFor' \in [Server -> Server \cup {None}]
      /\ state' \in [Server -> {"Follower", "Candidate", "Leader"}]
      /\ grantedVotes' \in [Server -> SUBSET Server]
      /\ logs' = logs
  BY DEF TypeOK, LaunchElection
<1>2. persister' \in [Server -> Persisted]
  BY <1>1, PersistStateType DEF TypeOK, LaunchElection
<1>3. ballots' \subseteq (Server \X Nat \X Server)
  BY <1>1 DEF TypeOK, LaunchElection
<1>4. msgs' \subseteq Message
  <2>1. LastIndex(logs[i]) \in Nat /\ LastTerm(logs[i]) \in Nat
    BY LogEnd DEF TypeOK
  <2>2. PICK reached \in SUBSET (Server \ {i}) :
          msgs' = msgs \cup
            {[type |-> "RequestVote", from |-> i, to |-> j, term |-> currentTerm'[i],
              lastLogIndex |-> LastIndex(logs[i]), lastLogTerm |-> LastTerm(logs[i])]
              : j \in reached}
    BY DEF LaunchElection
  <2>3. currentTerm'[i] \in Nat
    BY <1>1
  <2>4. \A j \in reached :
          [type |-> "RequestVote", from |-> i, to |-> j, term |-> currentTerm'[i],
           lastLogIndex |-> LastIndex(logs[i]), lastLogTerm |-> LastTerm(logs[i])]
            \in RequestVoteArgs
    BY <2>1, <2>3 DEF RequestVoteArgs
  <2> QED
    BY <2>2, <2>4 DEF TypeOK, Message
<1> QED
  BY <1>1, <1>2, <1>3, <1>4 DEF TypeOK, LaunchElection, leaderVars, serviceVars, Persisted

(* RequestVote keeps the types. *)
LEMMA TypeRequestVote ==
    ASSUME TypeOK, NEW m \in msgs, RequestVote(m)
    PROVE  TypeOK'
<1>0. m \in RequestVoteArgs
  BY MessageTypes DEF TypeOK, RequestVote
<1>1. m.from \in Server /\ m.to \in Server /\ m.term \in Nat
  BY <1>0 DEF RequestVoteArgs
<1>2. /\ currentTerm' \in [Server -> Nat]
      /\ voteFor' \in [Server -> Server \cup {None}]
      /\ state' \in [Server -> {"Follower", "Candidate", "Leader"}]
      /\ logs' = logs
      /\ ballots' \subseteq (Server \X Nat \X Server)
  <2>1. PICK granted \in BOOLEAN :
          /\ currentTerm' = [currentTerm EXCEPT ![m.to] = Greater(@, m.term)]
          /\ state' = [state EXCEPT ![m.to] = IF m.term > currentTerm[m.to]
                                             THEN "Follower" ELSE @]
          /\ voteFor' = [voteFor EXCEPT ![m.to] = IF granted THEN m.from
                            ELSE IF m.term > currentTerm[m.to] THEN None ELSE @]
          /\ ballots' = IF granted THEN ballots \cup {<<m.to, m.term, m.from>>} ELSE ballots
          /\ logs' = logs
    BY DEF RequestVote
  <2>2. currentTerm' \in [Server -> Nat]
    BY <1>1, <2>1 DEF TypeOK, Greater
  <2>3. voteFor' \in [Server -> Server \cup {None}]
    BY <1>1, <2>1 DEF TypeOK
  <2>4. state' \in [Server -> {"Follower", "Candidate", "Leader"}]
    BY <1>1, <2>1 DEF TypeOK
  <2>5. <<m.to, m.term, m.from>> \in Server \X Nat \X Server
    BY <1>1
  <2>6. ballots' \subseteq (Server \X Nat \X Server)
    BY <2>1, <2>5 DEF TypeOK
  <2> QED
    BY <2>1, <2>2, <2>3, <2>4, <2>6
<1>3. persister' \in [Server -> Persisted]
  <2>1. CASE persistState(m.to)
    BY <1>1, <1>2, <2>1, PersistStateType DEF TypeOK
  <2>2. CASE UNCHANGED persister
    BY <2>2 DEF TypeOK, Persisted
  <2> QED
    BY <2>1, <2>2 DEF RequestVote
<1>4. msgs' \subseteq Message
  <2>1. \A g \in BOOLEAN : VoteReply(m, g) \in RequestVoteReply
    BY <1>1 DEF TypeOK, VoteReply, RequestVoteReply, Greater
  <2>2. \E g \in BOOLEAN : msgs' = (msgs \ {m}) \cup {VoteReply(m, g)}
    BY DEF RequestVote
  <2> QED
    BY <2>1, <2>2 DEF TypeOK, Message
<1> QED
  BY <1>2, <1>3, <1>4 DEF TypeOK, RequestVote, leaderVars, serviceVars, Persisted

(* updateTermAndStepDown keeps the types. *)
LEMMA StepDownType ==
    ASSUME TypeOK, NEW i \in Server, NEW t \in Nat, updateTermAndStepDown(i, t)
    PROVE  /\ currentTerm' \in [Server -> Nat]
           /\ voteFor' \in [Server -> Server \cup {None}]
           /\ state' \in [Server -> {"Follower", "Candidate", "Leader"}]
  BY DEF TypeOK, updateTermAndStepDown, Greater

(* HandleRequestVoteReply keeps the types. *)
LEMMA TypeHandleRequestVoteReply ==
    ASSUME TypeOK, NEW m \in msgs, HandleRequestVoteReply(m)
    PROVE  TypeOK'
<1>0. m \in RequestVoteReply
  BY MessageTypes DEF TypeOK, HandleRequestVoteReply
<1>1. m.from \in Server /\ m.to \in Server /\ m.term \in Nat
  BY <1>0 DEF RequestVoteReply
<1>2. msgs' \subseteq Message /\ logs' = logs
  BY DEF TypeOK, HandleRequestVoteReply
<1>3. LastIndex(logs[m.to]) \in Nat
  BY <1>1, LogEnd DEF TypeOK
<1>4. CASE UNCHANGED <<electionVars, leaderVars, grantedVotes, persister>>
  BY <1>2, <1>4 DEF TypeOK, HandleRequestVoteReply, electionVars, leaderVars, serviceVars
<1>5. CASE /\ grantedVotes' = [grantedVotes EXCEPT ![m.to] = @ \cup {m.from}]
           /\ IF IsMajority(grantedVotes'[m.to])
                 THEN ChangeStateLeader(m.to) ELSE UNCHANGED <<state, leaderVars>>
           /\ UNCHANGED <<currentTerm, voteFor, persister>>
  <2>1. /\ state' \in [Server -> {"Follower", "Candidate", "Leader"}]
        /\ nextIndex' \in [Server -> [Server -> Int]]
        /\ matchIndex' \in [Server -> [Server -> Int]]
        /\ grantedVotes' \in [Server -> SUBSET Server]
    <3>1. grantedVotes' \in [Server -> SUBSET Server]
      BY <1>1, <1>5 DEF TypeOK
    <3>2. CASE ChangeStateLeader(m.to)
      <4>1. /\ [j \in Server |-> LastIndex(logs[m.to]) + 1] \in [Server -> Int]
            /\ [j \in Server |-> IF j = m.to THEN LastIndex(logs[m.to]) ELSE 0]
                 \in [Server -> Int]
        BY <1>3
      <4> QED
        BY <1>1, <3>1, <3>2, <4>1 DEF TypeOK, ChangeStateLeader
    <3>3. CASE UNCHANGED <<state, leaderVars>>
      BY <3>1, <3>3 DEF TypeOK, leaderVars
    <3> QED
      BY <1>5, <3>2, <3>3
  <2> QED
    BY <1>2, <1>5, <2>1 DEF TypeOK, HandleRequestVoteReply, serviceVars
<1>6. CASE /\ updateTermAndStepDown(m.to, m.term)
           /\ UNCHANGED <<leaderVars, grantedVotes>>
           /\ IF m.term > currentTerm[m.to] THEN persistState(m.to) ELSE UNCHANGED persister
  <2>1. /\ currentTerm' \in [Server -> Nat]
        /\ voteFor' \in [Server -> Server \cup {None}]
        /\ state' \in [Server -> {"Follower", "Candidate", "Leader"}]
    BY <1>1, <1>6, StepDownType
  <2>2. persister' \in [Server -> Persisted]
    <3>1. CASE persistState(m.to)
      BY <1>1, <1>2, <2>1, <3>1, PersistStateType DEF TypeOK
    <3>2. CASE UNCHANGED persister
      BY <3>2 DEF TypeOK, Persisted
    <3> QED
      BY <1>6, <3>1, <3>2
  <2> QED
    BY <1>2, <1>6, <2>1, <2>2
       DEF TypeOK, HandleRequestVoteReply, leaderVars, serviceVars, Persisted
<1> QED
  BY <1>4, <1>5, <1>6 DEF HandleRequestVoteReply

(* Answer adds the reply. *)
LEMMA AnswerType ==
    ASSUME TypeOK, NEW m, NEW reply \in Message, Answer(m, reply)
    PROVE  msgs' \subseteq Message
  BY DEF TypeOK, Answer

(* FollowTerm keeps the types. *)
LEMMA FollowTermType ==
    ASSUME TypeOK, NEW i \in Server, NEW t \in Nat, FollowTerm(i, t)
    PROVE  /\ currentTerm' \in [Server -> Nat]
           /\ voteFor' \in [Server -> Server \cup {None}]
           /\ state' \in [Server -> {"Follower", "Candidate", "Leader"}]
  BY DEF TypeOK, FollowTerm

(* Start keeps the types. *)
LEMMA TypeStart ==
    ASSUME TypeOK, NEW i \in Server, Start(i)
    PROVE  TypeOK'
<1>1. logs[i] \in Log /\ currentTerm[i] \in Nat /\ LastIndex(logs[i]) \in Nat
  BY LogEnd DEF TypeOK
<1>2. logs' \in [Server -> Log]
  <2>0. logs[i].terms \in Seq(Nat)
    BY <1>1 DEF Log
  <2>1. Append(logs[i].terms, currentTerm[i]) \in Seq(Nat) \ {<<>>}
    BY <1>1, <2>0
  <2>2. logs' = [logs EXCEPT ![i].terms = Append(@, currentTerm[i])]
    BY DEF Start
  <2>3. [logs[i] EXCEPT !.terms = Append(@, currentTerm[i])] \in Log
    BY <1>1, <2>1 DEF Log
  <2>4. logs' = [logs EXCEPT ![i] = [logs[i] EXCEPT !.terms = Append(@, currentTerm[i])]]
    BY <2>2
  <2> QED
    BY <2>3, <2>4 DEF TypeOK
<1>3. matchIndex' \in [Server -> [Server -> Int]] /\ nextIndex' \in [Server -> [Server -> Int]]
  <2>1. matchIndex[i] \in [Server -> Int] /\ nextIndex[i] \in [Server -> Int]
    BY DEF TypeOK
  <2>2. /\ [matchIndex[i] EXCEPT ![i] = LastIndex(logs[i]) + 1] \in [Server -> Int]
        /\ [nextIndex[i] EXCEPT ![i] = LastIndex(logs[i]) + 2] \in [Server -> Int]
    BY <1>1, <2>1
  <2> QED
    BY <2>2 DEF TypeOK, Start
<1>4. persister' \in [Server -> Persisted]
  BY <1>2, PersistStateType DEF TypeOK, Start, electionVars
<1> QED
  BY <1>2, <1>3, <1>4 DEF TypeOK, Start, electionVars, serviceVars, Persisted

(* doSendAppendEntry keeps the types. *)
LEMMA TypeDoSendAppendEntry ==
    ASSUME TypeOK, NEW i \in Server, NEW j \in Server, doSendAppendEntry(i, j)
    PROVE  TypeOK'
<1>1. nextIndex[i][j] - 1 \in Int /\ logs[i].first \in Nat
  <2>1. logs[i] \in Log /\ nextIndex[i] \in [Server -> Int]
    BY DEF TypeOK
  <2> QED
    BY <2>1, LogEnd
<1>2. \E m \in Message : msgs' = msgs \cup {m}
  <2>1. makeInstallSnapShotArgs(i, j) \in Message
    BY RequestType DEF Message
  <2>2. ASSUME ~(nextIndex[i][j] - 1 < logs[i].first)
        PROVE  genAppendEntryArgs(i, j, nextIndex[i][j] - 1) \in Message
    BY <1>1, <2>2, RequestType DEF Message
  <2> QED
    BY <2>1, <2>2 DEF doSendAppendEntry
<1>3. msgs' \subseteq Message
  BY <1>2 DEF TypeOK
<1> QED
  BY <1>3 DEF TypeOK, doSendAppendEntry, electionVars, leaderVars, serviceVars

(* AppendEntry keeps the types. *)
LEMMA TypeAppendEntry ==
    ASSUME TypeOK, NEW m \in msgs, AppendEntry(m)
    PROVE  TypeOK'
<1> DEFINE i == m.to
<1>0. m \in AppendEntryArgs
  BY MessageTypes DEF TypeOK, AppendEntry
<1>1. i \in Server /\ m.term \in Nat /\ m.leaderCommit \in Nat /\ logs[i] \in Log
  BY <1>0 DEF AppendEntryArgs, TypeOK
<1>2. CASE AppendEntryStale(m)
  <2>1. AppendReply(m, currentTerm[i], FALSE, 0, 0) \in AppendEntryReply
    <3>1. currentTerm[i] \in Nat /\ FALSE \in BOOLEAN /\ 0 \in Int
      BY <1>1 DEF TypeOK
    <3> QED
      BY <1>0, <3>1, AppendReplyType
  <2>2. msgs' \subseteq Message
    BY <1>2, <2>1, AnswerType DEF AppendEntryStale, Message
  <2> QED
    BY <1>2, <2>2
       DEF TypeOK, AppendEntryStale, AppendEntry, electionVars, leaderVars, serviceVars
<1>3. CASE AppendEntryRefuse(m)
  <2>1. ConflictReply(m, logs[i]) \in AppendEntryReply
    BY <1>0, <1>1, ConflictReplyType
  <2>2. msgs' \subseteq Message
    BY <1>3, <2>1, AnswerType DEF AppendEntryRefuse, Message
  <2>3. /\ currentTerm' \in [Server -> Nat]
        /\ voteFor' \in [Server -> Server \cup {None}]
        /\ state' \in [Server -> {"Follower", "Candidate", "Leader"}]
    BY <1>1, <1>3, FollowTermType DEF AppendEntryRefuse
  <2>4. persister' \in [Server -> Persisted]
    <3>1. CASE persistState(i)
      BY <1>1, <1>3, <2>3, <3>1, PersistStateType DEF TypeOK, AppendEntryRefuse
    <3>2. CASE UNCHANGED persister
      BY <3>2 DEF TypeOK, Persisted
    <3> QED
      BY <1>3, <3>1, <3>2 DEF AppendEntryRefuse
  <2> QED
    BY <1>3, <2>2, <2>3, <2>4
       DEF TypeOK, AppendEntryRefuse, AppendEntry, leaderVars, serviceVars, Persisted
<1>4. CASE AppendEntryAccept(m)
  <2>1. AppendReply(m, m.term, TRUE, 0, 0) \in AppendEntryReply
    <3>1. TRUE \in BOOLEAN /\ 0 \in Int
      OBVIOUS
    <3> QED
      BY <1>0, <1>1, <3>1, AppendReplyType
  <2>2. msgs' \subseteq Message
    BY <1>4, <2>1, AnswerType DEF AppendEntryAccept, Message
  <2>3. /\ currentTerm' \in [Server -> Nat]
        /\ voteFor' \in [Server -> Server \cup {None}]
        /\ state' \in [Server -> {"Follower", "Candidate", "Leader"}]
    BY <1>1, <1>4, FollowTermType DEF AppendEntryAccept
  <2>4. logs' \in [Server -> Log]
    <3>1. AppendEntries(m, logs[i]) \in Log
      BY <1>0, <1>1, <1>4, AppendEntriesType DEF AppendEntryAccept
    <3> QED
      BY <1>1, <1>4, <3>1 DEF TypeOK, AppendEntryAccept
  <2>5. commitIndex' \in [Server -> Nat]
    <3>1. LastIndex(logs'[i]) \in Nat /\ commitIndex[i] \in Nat
      BY <1>1, <2>4, LogEnd DEF TypeOK
    <3>2. Greater(commitIndex[i], Lesser(m.leaderCommit, LastIndex(logs'[i]))) \in Nat
      BY <1>1, <3>1 DEF Greater, Lesser
    <3> QED
      BY <1>1, <1>4, <3>2 DEF TypeOK, AppendEntryAccept
  <2>6. persister' \in [Server -> Persisted]
    <3>1. CASE persistState(i)
      BY <1>1, <2>3, <2>4, <3>1, PersistStateType
    <3>2. CASE UNCHANGED persister
      BY <3>2 DEF TypeOK, Persisted
    <3> QED
      BY <1>4, <3>1, <3>2 DEF AppendEntryAccept
  <2> QED
    BY <2>2, <2>3, <2>4, <2>5, <2>6
       DEF TypeOK, AppendEntry, leaderVars, serviceVars, Persisted
<1> QED
  BY <1>2, <1>3, <1>4 DEF AppendEntry

(* updateLogIndices keeps the types. *)
LEMMA LogIndicesType ==
    ASSUME TypeOK, NEW i \in Server, NEW j \in Server, NEW k \in Int, updateLogIndices(i, j, k)
    PROVE  /\ matchIndex' \in [Server -> [Server -> Int]]
           /\ nextIndex' \in [Server -> [Server -> Int]]
<1>1. matchIndex[i] \in [Server -> Int] /\ nextIndex[i] \in [Server -> Int]
  BY DEF TypeOK
<1>2. /\ [matchIndex[i] EXCEPT ![j] = k] \in [Server -> Int]
      /\ [nextIndex[i] EXCEPT ![j] = k + 1] \in [Server -> Int]
  BY <1>1
<1> QED
  BY <1>2 DEF TypeOK, updateLogIndices

(* The retry index of rollBackToConflictTerm is an index. *)
LEMMA RollBackType ==
    ASSUME NEW log \in Log, NEW m \in AppendEntryReply
    PROVE  RollBack(log, m) \in Int
<1> DEFINE idx == SearchTerm(log, m.prevLogIndex, m.conflictTerm)
<1>1. m.prevLogIndex \in Int /\ m.conflictIndex \in Int
  BY DEF AppendEntryReply
<1>2. idx \in Int
  BY <1>1, SearchTermType
<1>3. log.first \in Int /\ LastIndex(log) + 1 \in Int
  BY LogEnd
<1>4. \A k \in Int : Lesser(Greater(k, log.first), LastIndex(log) + 1) \in Int
  BY <1>3 DEF Lesser, Greater
<1>5. RollBack(log, m) = Lesser(Greater(idx + 1, log.first), LastIndex(log) + 1)
      \/ RollBack(log, m) = Lesser(Greater(m.conflictIndex, log.first), LastIndex(log) + 1)
  BY DEF RollBack
<1> HIDE DEF idx
<1>6. idx + 1 \in Int
  BY <1>2
<1> QED
  BY <1>1, <1>4, <1>5, <1>6

(* HandleAppendEntryReply keeps the types. *)
LEMMA TypeHandleAppendEntryReply ==
    ASSUME TypeOK, NEW m \in msgs, HandleAppendEntryReply(m)
    PROVE  TypeOK'
<1> DEFINE i == m.to
<1>0. m \in AppendEntryReply
  BY MessageTypes DEF TypeOK, HandleAppendEntryReply
<1>1. /\ i \in Server /\ m.from \in Server /\ m.term \in Nat
      /\ m.prevLogIndex + m.entryCount \in Int /\ logs[i] \in Log
  BY <1>0 DEF AppendEntryReply, TypeOK
<1>m. msgs' \subseteq Message
  BY DEF TypeOK, HandleAppendEntryReply, Consume
<1>2. CASE acceptNewLogEntries(i, m.from, m) /\ UNCHANGED <<electionVars, persister>>
  <2>1. /\ matchIndex' \in [Server -> [Server -> Int]]
        /\ nextIndex' \in [Server -> [Server -> Int]]
    BY <1>1, <1>2, LogIndicesType DEF acceptNewLogEntries
  <2>2. MajorityIndex(matchIndex'[i], LastIndex(logs[i])) \in Nat
    BY <1>1, LogEnd, MajorityIndexType
  <2>3. commitIndex' \in [Server -> Nat]
    BY <1>1, <1>2, <2>2 DEF TypeOK, acceptNewLogEntries
  <2> QED
    BY <1>2, <1>m, <2>1, <2>3 DEF TypeOK, HandleAppendEntryReply, electionVars, serviceVars
<1>3. CASE /\ updateTermAndStepDown(i, m.term) /\ persistState(i)
           /\ UNCHANGED <<leaderVars, commitIndex, logs>>
  <2>1. /\ currentTerm' \in [Server -> Nat]
        /\ voteFor' \in [Server -> Server \cup {None}]
        /\ state' \in [Server -> {"Follower", "Candidate", "Leader"}]
    BY <1>1, <1>3, StepDownType
  <2>2. persister' \in [Server -> Persisted]
    BY <1>1, <1>3, <2>1, PersistStateType
  <2> QED
    BY <1>3, <1>m, <2>1, <2>2
       DEF TypeOK, HandleAppendEntryReply, leaderVars, serviceVars, Persisted
<1>4. CASE /\ rollBackToConflictTerm(i, m.from, m)
           /\ UNCHANGED <<electionVars, matchIndex, commitIndex, persister>>
  <2>1. RollBack(logs[i], m) \in Int /\ nextIndex[i] \in [Server -> Int]
    BY <1>0, <1>1, RollBackType DEF TypeOK
  <2>2. [nextIndex[i] EXCEPT ![m.from] = RollBack(logs[i], m)] \in [Server -> Int]
    BY <2>1
  <2>3. nextIndex' \in [Server -> [Server -> Int]]
    BY <1>1, <1>4, <2>2 DEF TypeOK, rollBackToConflictTerm
  <2> QED
    BY <1>4, <1>m, <2>3 DEF TypeOK, HandleAppendEntryReply, electionVars, serviceVars
<1> QED
  BY <1>2, <1>3, <1>4 DEF HandleAppendEntryReply

(* InstallSnapShot keeps the types. *)
LEMMA TypeInstallSnapShot ==
    ASSUME TypeOK, NEW m \in msgs, InstallSnapShot(m)
    PROVE  TypeOK'
<1> DEFINE i == m.to
<1>0. m \in InstallSnapShotArgs
  BY MessageTypes DEF TypeOK, InstallSnapShot
<1>1. /\ i \in Server /\ m.term \in Nat /\ m.lastIncludedIndex \in Nat
      /\ m.lastIncludedTerm \in Nat /\ m.data \in Seq(Nat) /\ logs[i] \in Log
  BY <1>0 DEF InstallSnapShotArgs, TypeOK
<1>2. InstallSnapShotReplyTo(m) \in Message
  BY <1>0 DEF InstallSnapShotArgs, InstallSnapShotReplyTo, InstallSnapShotReply, Message, TypeOK
<1>3. msgs' \subseteq Message
  BY <1>2, AnswerType DEF InstallSnapShot
<1>4. CASE InstallSnapShotStale(m)
  BY <1>3, <1>4
     DEF TypeOK, InstallSnapShotStale, InstallSnapShot, electionVars, leaderVars, serviceVars
<1>5. CASE InstallSnapShotBehind(m)
  <2>1. /\ currentTerm' \in [Server -> Nat]
        /\ voteFor' \in [Server -> Server \cup {None}]
        /\ state' \in [Server -> {"Follower", "Candidate", "Leader"}]
    BY <1>1, <1>5, FollowTermType DEF InstallSnapShotBehind
  <2> QED
    BY <1>3, <1>5, <2>1
       DEF TypeOK, InstallSnapShotBehind, InstallSnapShot, leaderVars, serviceVars
<1>6. CASE InstallSnapShotAccept(m)
  <2>1. /\ currentTerm' \in [Server -> Nat]
        /\ voteFor' \in [Server -> Server \cup {None}]
        /\ state' \in [Server -> {"Follower", "Candidate", "Leader"}]
    BY <1>1, <1>6, FollowTermType DEF InstallSnapShotAccept
  <2>2. logs' \in [Server -> Log]
    <3>1. LogAfterSnapshot(logs[i], m.lastIncludedIndex, m.lastIncludedTerm) \in Log
      BY <1>1, LogAfterSnapshotType
    <3> QED
      BY <1>1, <1>6, <3>1 DEF TypeOK, InstallSnapShotAccept
  <2>3. commitIndex' \in [Server -> Nat] /\ lastApplied' \in [Server -> Nat]
    BY <1>1, <1>6 DEF TypeOK, InstallSnapShotAccept, Greater
  <2>4. pendingSnapshot' \in [Server -> ApplyMsg]
    <3>1. [kind |-> "snapshot", index |-> m.lastIncludedIndex, data |-> m.data] \in ApplyMsg
      BY <1>1 DEF ApplyMsg
    <3> QED
      BY <1>1, <1>6, <3>1 DEF TypeOK, InstallSnapShotAccept
  <2>5. persister' \in [Server -> Persisted]
    BY <1>1, <1>6, <2>1, <2>2, PersistType DEF InstallSnapShotAccept
  <2> QED
    BY <1>3, <2>1, <2>2, <2>3, <2>4, <2>5
       DEF TypeOK, InstallSnapShot, leaderVars, serviceVars, Persisted
<1> QED
  BY <1>4, <1>5, <1>6 DEF InstallSnapShot

(* HandleInstallSnapShotReply keeps the types. *)
LEMMA TypeHandleInstallSnapShotReply ==
    ASSUME TypeOK, NEW m \in msgs, HandleInstallSnapShotReply(m)
    PROVE  TypeOK'
<1> DEFINE i == m.to
<1>0. m \in InstallSnapShotReply
  BY MessageTypes DEF TypeOK, HandleInstallSnapShotReply
<1>1. /\ i \in Server /\ m.from \in Server /\ m.term \in Nat
      /\ m.lastIncludedIndex \in Int /\ logs[i] \in Log
  BY <1>0 DEF InstallSnapShotReply, TypeOK
<1>m. msgs' \subseteq Message
  BY DEF TypeOK, HandleInstallSnapShotReply, Consume
<1>2. CASE updateTermAndStepDown(i, m.term) /\ persistState(i) /\ UNCHANGED <<leaderVars, logs>>
  <2>1. /\ currentTerm' \in [Server -> Nat]
        /\ voteFor' \in [Server -> Server \cup {None}]
        /\ state' \in [Server -> {"Follower", "Candidate", "Leader"}]
    BY <1>1, <1>2, StepDownType
  <2>2. persister' \in [Server -> Persisted]
    BY <1>1, <1>2, <2>1, PersistStateType
  <2> QED
    BY <1>2, <1>m, <2>1, <2>2
       DEF TypeOK, HandleInstallSnapShotReply, leaderVars, serviceVars, Persisted
<1>3. CASE updateLogIndices(i, m.from, m.lastIncludedIndex) /\ UNCHANGED <<electionVars, persister>>
  <2>1. /\ matchIndex' \in [Server -> [Server -> Int]]
        /\ nextIndex' \in [Server -> [Server -> Int]]
    BY <1>1, <1>3, LogIndicesType
  <2> QED
    BY <1>3, <1>m, <2>1 DEF TypeOK, HandleInstallSnapShotReply, electionVars, serviceVars
<1> QED
  BY <1>2, <1>3 DEF HandleInstallSnapShotReply

(* An empty channel holds a message of its type. *)
LEMMA NoApplyMsgType == NoApplyMsg \in ApplyMsg
<1>1. <<>> \in Seq(Nat) /\ 0 \in Nat
  OBVIOUS
<1> QED
  BY <1>1 DEF NoApplyMsg, ApplyMsg

(* applier keeps the types. *)
LEMMA TypeApplier ==
    ASSUME TypeOK, NEW i \in Server, applier(i)
    PROVE  TypeOK'
<1> DEFINE next == lastApplied[i] + 1
           entry == [kind |-> "entry", index |-> next, data |-> <<TermAt(logs[i], next)>>]
<1>1. logs[i] \in Log /\ logs[i].first \in Nat /\ next \in Nat
  BY LogEnd DEF TypeOK
<1>2. NoApplyMsg \in ApplyMsg
  BY NoApplyMsgType
<1>3. HasIndex(logs[i], next) => entry \in ApplyMsg
  <2>1. HasIndex(logs[i], next) => TermAt(logs[i], next) \in Nat
    BY <1>1, TermAtType
  <2> QED
    BY <1>1, <2>1 DEF ApplyMsg
<1>4. /\ lastApplied' \in [Server -> Nat]
      /\ applyCh' \in [Server -> ApplyMsg]
      /\ pendingSnapshot' \in [Server -> ApplyMsg]
  <2>1. CASE pendingSnapshot[i] # NoApplyMsg
    BY <1>2, <2>1 DEF TypeOK, applier
  <2>2. CASE pendingSnapshot[i] = NoApplyMsg
    <3> DEFINE present == lastApplied[i] >= logs[i].first /\ HasIndex(logs[i], next)
    <3>1. /\ lastApplied' = [lastApplied EXCEPT ![i] = IF present THEN next ELSE logs[i].first]
          /\ applyCh' = [applyCh EXCEPT ![i] = IF present THEN entry ELSE @]
          /\ pendingSnapshot' = pendingSnapshot
      BY <2>2 DEF applier
    <3>2. present => entry \in ApplyMsg
      BY <1>3
    <3> HIDE DEF next, entry, present
    <3> QED
      BY <1>1, <3>1, <3>2 DEF TypeOK
  <2> QED
    BY <2>1, <2>2
<1> QED
  BY <1>4 DEF TypeOK, applier, electionVars, leaderVars

(* reader keeps the types. *)
LEMMA TypeReader ==
    ASSUME TypeOK, NEW i \in Server, reader(i)
    PROVE  TypeOK'
<1>1. applyCh' \in [Server -> ApplyMsg]
  BY DEF TypeOK, reader, NoApplyMsg, ApplyMsg
<1>2. applied[i] \in Seq(Nat) /\ applyCh[i].data \in Seq(Nat)
  BY DEF TypeOK, ApplyMsg
<1>3. applied[i] \o applyCh[i].data \in Seq(Nat)
  BY <1>2
<1>4. applied' \in [Server -> Seq(Nat)]
  BY <1>2, <1>3 DEF TypeOK, reader
<1> QED
  BY <1>1, <1>4 DEF TypeOK, reader, electionVars, leaderVars

(* Snapshot keeps the types. *)
LEMMA TypeSnapshot ==
    ASSUME TypeOK, NEW i \in Server, Snapshot(i)
    PROVE  TypeOK'
<1> DEFINE index == Len(applied[i])
<1>1. applied[i] \in Seq(Nat) /\ index \in Nat /\ logs[i] \in Log
  BY DEF TypeOK
<1>2. logs[i].first <= index /\ index <= LastIndex(logs[i])
  <2>1. index > logs[i].first /\ index <= LastIndex(logs[i])
    BY DEF Snapshot
  <2>2. logs[i].first \in Nat
    BY <1>1, LogEnd
  <2> HIDE DEF index
  <2> QED
    BY <1>1, <2>1, <2>2
<1>3. EntriesFrom(logs[i], index) \in Seq(Nat) \ {<<>>}
  BY <1>1, <1>2, EntriesFromType
<1>4. [first |-> index, terms |-> EntriesFrom(logs[i], index)] \in Log
  BY <1>1, <1>3 DEF Log
<1>5. logs' \in [Server -> Log]
  BY <1>4 DEF TypeOK, Snapshot
<1>6. persister' \in [Server -> Persisted]
  BY <1>1, <1>5, PersistType DEF TypeOK, Snapshot, electionVars
<1> QED
  BY <1>5, <1>6 DEF TypeOK, Snapshot, electionVars, leaderVars, serviceVars, Persisted

(* Restart keeps the types. *)
LEMMA TypeRestart ==
    ASSUME TypeOK, NEW i \in Server, Restart(i)
    PROVE  TypeOK'
<1>1. /\ persister[i].currentTerm \in Nat
      /\ persister[i].voteFor \in Server \cup {None}
      /\ persister[i].logs \in Log
      /\ persister[i].snapshot \in Seq(Nat)
  BY DEF TypeOK
<1>2. persister[i].logs.first \in Nat
  BY <1>1, LogEnd
<1>3. NoApplyMsg \in ApplyMsg
  BY DEF NoApplyMsg, ApplyMsg
<1> QED
  BY <1>1, <1>2, <1>3, NewIndicesType DEF TypeOK, Restart

(* Every step keeps the types. *)
LEMMA TypeNext == TypeOK /\ [Next]_vars => TypeOK'
<1> SUFFICES ASSUME TypeOK, [Next]_vars PROVE TypeOK'
  OBVIOUS
<1>1. CASE UNCHANGED vars
  BY <1>1 DEF TypeOK, vars
<1>2. ASSUME NEW m \in msgs, Lose(m) PROVE TypeOK'
  BY <1>2 DEF TypeOK, Lose, electionVars, leaderVars, serviceVars
<1> QED
  BY <1>1, <1>2, TypeLaunchElection, TypeStart, TypeDoSendAppendEntry, TypeApplier,
     TypeReader, TypeSnapshot, TypeRestart, TypeRequestVote, TypeHandleRequestVoteReply,
     TypeAppendEntry, TypeHandleAppendEntryReply, TypeInstallSnapShot,
     TypeHandleInstallSnapShotReply DEF Next

(* The variables of a peer and the messages always have their types; in    *)
(* particular every log has its dummy entry, so that getFirstLog and       *)
(* getLatestLog never index an empty slice.                                *)
THEOREM TypeCorrect == Spec => []TypeOK
  BY TypeInit, TypeNext, PTL DEF Spec

-----------------------------------------------------------------------------
(* A step that gives no vote: peer i may move to a later term, where it    *)
(* has no vote yet, may become a follower, and may save its state.         *)
NoVoteStep(i) ==
    /\ \A j \in Server \ {i} : /\ currentTerm'[j] = currentTerm[j]
                               /\ voteFor'[j] = voteFor[j]
                               /\ state'[j] = state[j]
                               /\ persister'[j] = persister[j]
    /\ currentTerm[i] <= currentTerm'[i]
    /\ currentTerm[i] = currentTerm'[i] => voteFor'[i] = voteFor[i]
    /\ state'[i] # "Follower" => state'[i] = state[i] /\ currentTerm'[i] = currentTerm[i]
    /\ \/ /\ persister'[i].currentTerm = persister[i].currentTerm
          /\ persister'[i].voteFor = persister[i].voteFor
       \/ /\ persister'[i].currentTerm = currentTerm'[i]
          /\ persister'[i].voteFor = voteFor'[i]
    /\ UNCHANGED <<grantedVotes, ballots>>
    /\ \A m \in msgs' : m.type = "RequestVoteReply" /\ m.voteGranted => m \in msgs

(* The types of the components of ballots and of saved records. *)
LEMMA BallotType ==
    ASSUME TypeOK
    PROVE  /\ \A b \in ballots : b[1] \in Server /\ b[2] \in Nat /\ b[3] \in Server
           /\ \A j \in Server : /\ currentTerm[j] \in Nat
                                /\ persister[j].currentTerm \in Nat
  BY DEF TypeOK

(* A step that gives no vote keeps the invariant. *)
LEMMA NoVoteKeeps ==
    ASSUME TypeOK, TypeOK', ElectionInv, NEW i \in Server, NoVoteStep(i)
    PROVE  ElectionInv'
<1>1. VotesPersisted'
  <2>1. ASSUME NEW j \in Server
        PROVE  /\ persister'[j].currentTerm <= currentTerm'[j]
               /\ persister'[j].currentTerm = currentTerm'[j]
                    => persister'[j].voteFor = voteFor'[j]
    <3>1. /\ persister[j].currentTerm <= currentTerm[j]
          /\ persister[j].currentTerm = currentTerm[j] => persister[j].voteFor = voteFor[j]
      BY DEF ElectionInv, VotesPersisted
    <3>2. /\ currentTerm[j] \in Nat /\ currentTerm'[j] \in Nat
          /\ persister[j].currentTerm \in Nat
      BY DEF TypeOK
    <3>3. CASE j # i
      BY <3>1, <3>3 DEF NoVoteStep
    <3>4. CASE j = i
      BY <3>1, <3>2, <3>4 DEF NoVoteStep
    <3> QED
      BY <3>3, <3>4
  <2>2. ASSUME NEW b \in ballots'
        PROVE  /\ b[2] <= persister'[b[1]].currentTerm
               /\ b[2] = persister'[b[1]].currentTerm => b[3] = persister'[b[1]].voteFor
    <3> DEFINE j == b[1]
    <3>1. b \in ballots /\ j \in Server /\ b[2] \in Nat
      BY BallotType DEF NoVoteStep
    <3>2. /\ b[2] <= persister[j].currentTerm
          /\ b[2] = persister[j].currentTerm => b[3] = persister[j].voteFor
          /\ persister[j].currentTerm <= currentTerm[j]
          /\ persister[j].currentTerm = currentTerm[j] => persister[j].voteFor = voteFor[j]
      BY <3>1 DEF ElectionInv, VotesPersisted
    <3>3. /\ currentTerm[j] \in Nat /\ currentTerm'[j] \in Nat
          /\ persister[j].currentTerm \in Nat
      BY <3>1 DEF TypeOK
    <3>4. CASE j # i
      BY <3>1, <3>2, <3>4 DEF NoVoteStep
    <3>5. CASE j = i
      <4> HIDE DEF j
      <4>1. /\ b[2] <= persister'[j].currentTerm
            /\ b[2] = persister'[j].currentTerm => b[3] = persister'[j].voteFor
        BY <3>1, <3>2, <3>3, <3>5 DEF NoVoteStep
      <4> QED
        BY <4>1 DEF j
    <3> QED
      BY <3>4, <3>5
  <2> QED
    BY <2>1, <2>2 DEF VotesPersisted
<1>2. OneVotePerTerm'
  BY DEF ElectionInv, OneVotePerTerm, NoVoteStep
<1>3. VotesReal'
  BY DEF ElectionInv, VotesReal, NoVoteStep
<1>4. LeadersWon'
  BY DEF ElectionInv, LeadersWon, NoVoteStep, Won, IsMajority
<1> QED
  BY <1>1, <1>2, <1>3, <1>4 DEF ElectionInv

(* What persist saves of the election. *)
LEMMA PersistSaves ==
    ASSUME TypeOK, NEW i \in Server, NEW snapshot, persist(i, snapshot)
    PROVE  /\ persister'[i].currentTerm = currentTerm'[i]
           /\ persister'[i].voteFor = voteFor'[i]
           /\ \A j \in Server \ {i} : persister'[j] = persister[j]
  BY DEF TypeOK, persist

(* FollowTerm and updateTermAndStepDown change terms as NoVoteStep allows. *)
LEMMA FollowNoVote ==
    ASSUME TypeOK, NEW i \in Server, NEW t \in Nat,
           (FollowTerm(i, t) /\ t >= currentTerm[i]) \/ updateTermAndStepDown(i, t)
    PROVE  /\ \A j \in Server \ {i} : /\ currentTerm'[j] = currentTerm[j]
                                      /\ voteFor'[j] = voteFor[j]
                                      /\ state'[j] = state[j]
           /\ currentTerm[i] <= currentTerm'[i]
           /\ currentTerm[i] = currentTerm'[i] => voteFor'[i] = voteFor[i]
           /\ state'[i] # "Follower" => state'[i] = state[i] /\ currentTerm'[i] = currentTerm[i]
<1>1. currentTerm[i] \in Nat
  BY DEF TypeOK
<1>2. CASE FollowTerm(i, t) /\ t >= currentTerm[i]
  BY <1>1, <1>2 DEF TypeOK, FollowTerm
<1>3. CASE updateTermAndStepDown(i, t)
  BY <1>1, <1>3 DEF TypeOK, updateTermAndStepDown, Greater
<1> QED
  BY <1>2, <1>3

(* The steps of the leader, the applier and the service give no vote. *)
LEMMA LocalStepsNoVote ==
    ASSUME TypeOK, NEW i \in Server, NEW j \in Server,
           \/ Start(i)
           \/ doSendAppendEntry(i, j)
           \/ applier(i)
           \/ reader(i)
           \/ Snapshot(i)
    PROVE  NoVoteStep(i)
<1>0. currentTerm[i] <= currentTerm[i]
  BY DEF TypeOK
<1>1. CASE Start(i)
  <2>1. persist(i, persister[i].snapshot)
    BY <1>1 DEF Start, persistState
  <2> QED
    BY <1>0, <1>1, <2>1, PersistSaves DEF Start, NoVoteStep, electionVars
<1>2. CASE doSendAppendEntry(i, j)
  <2>1. \A m \in msgs' : m.type = "RequestVoteReply" => m \in msgs
    BY <1>2 DEF doSendAppendEntry, makeInstallSnapShotArgs, genAppendEntryArgs
  <2> QED
    BY <1>0, <1>2, <2>1 DEF doSendAppendEntry, NoVoteStep, electionVars
<1>3. CASE applier(i) \/ reader(i)
  <2>1. UNCHANGED <<electionVars, persister, grantedVotes, ballots, msgs>>
    BY <1>3 DEF applier, reader
  <2> QED
    BY <1>0, <2>1 DEF NoVoteStep, electionVars
<1>4. CASE Snapshot(i)
  <2>1. persist(i, applied[i])
    BY <1>4 DEF Snapshot
  <2> QED
    BY <1>0, <1>4, <2>1, PersistSaves DEF Snapshot, NoVoteStep, electionVars
<1> QED
  BY <1>1, <1>2, <1>3, <1>4

(* The handlers of AppendEntry and InstallSnapShot and of their replies    *)
(* give no vote.                                                           *)
LEMMA AppendEntryNoVote ==
    ASSUME TypeOK, NEW m \in msgs, AppendEntry(m)
    PROVE  m.to \in Server /\ NoVoteStep(m.to)
<1> DEFINE i == m.to
<1>0. m \in AppendEntryArgs
  BY MessageTypes DEF TypeOK, AppendEntry
<1>1. i \in Server /\ m.term \in Nat /\ currentTerm[i] \in Nat
  BY <1>0 DEF AppendEntryArgs, TypeOK
<1>2. \A n \in msgs' : n.type = "RequestVoteReply" => n \in msgs
  <2>0. \A term, ok, index, t : AppendReply(m, term, ok, index, t).type = "AppendEntryReply"
    BY DEF AppendReply
  <2>a. \A log : ConflictReply(m, log).type = "AppendEntryReply"
    BY <2>0 DEF ConflictReply
  <2>1. PICK reply : Answer(m, reply) /\ reply.type = "AppendEntryReply"
    <3>1. CASE AppendEntryStale(m)
      BY <2>0, <3>1 DEF AppendEntryStale
    <3>2. CASE AppendEntryRefuse(m)
      BY <2>a, <3>2 DEF AppendEntryRefuse
    <3>3. CASE AppendEntryAccept(m)
      BY <2>0, <3>3 DEF AppendEntryAccept
    <3> QED
      BY <3>1, <3>2, <3>3 DEF AppendEntry
  <2> QED
    BY <2>1 DEF Answer
<1>3. UNCHANGED <<grantedVotes, ballots>>
  BY DEF AppendEntry
<1>4. CASE AppendEntryStale(m)
  BY <1>1, <1>2, <1>3, <1>4 DEF AppendEntryStale, NoVoteStep, electionVars
<1>5. CASE AppendEntryRefuse(m) \/ AppendEntryAccept(m)
  <2>1. FollowTerm(i, m.term) /\ m.term >= currentTerm[i]
    BY <1>5 DEF AppendEntryRefuse, AppendEntryAccept
  <2>2. persist(i, persister[i].snapshot) \/ UNCHANGED persister
    BY <1>5 DEF AppendEntryRefuse, AppendEntryAccept, persistState
  <2> QED
    BY <1>1, <1>2, <1>3, <2>1, <2>2, FollowNoVote, PersistSaves DEF NoVoteStep
<1> QED
  BY <1>1, <1>4, <1>5 DEF AppendEntry

(* InstallSnapShot gives no vote, although one branch does not persist. *)
LEMMA InstallSnapShotNoVote ==
    ASSUME TypeOK, NEW m \in msgs, InstallSnapShot(m)
    PROVE  m.to \in Server /\ NoVoteStep(m.to)
<1> DEFINE i == m.to
<1>0. m \in InstallSnapShotArgs
  BY MessageTypes DEF TypeOK, InstallSnapShot
<1>1. i \in Server /\ m.term \in Nat /\ currentTerm[i] \in Nat
  BY <1>0 DEF InstallSnapShotArgs, TypeOK
<1>2. \A n \in msgs' : n.type = "RequestVoteReply" => n \in msgs
  BY DEF InstallSnapShot, Answer, InstallSnapShotReplyTo
<1>3. UNCHANGED <<grantedVotes, ballots>>
  BY DEF InstallSnapShot
<1>4. CASE InstallSnapShotStale(m)
  BY <1>1, <1>2, <1>3, <1>4 DEF InstallSnapShotStale, NoVoteStep, electionVars
<1>5. CASE InstallSnapShotBehind(m) \/ InstallSnapShotAccept(m)
  <2>1. FollowTerm(i, m.term) /\ m.term >= currentTerm[i]
    BY <1>5 DEF InstallSnapShotBehind, InstallSnapShotAccept
  <2>2. persist(i, m.data) \/ UNCHANGED persister
    BY <1>5 DEF InstallSnapShotBehind, InstallSnapShotAccept
  <2> QED
    BY <1>1, <1>2, <1>3, <2>1, <2>2, FollowNoVote, PersistSaves DEF NoVoteStep
<1> QED
  BY <1>1, <1>4, <1>5 DEF InstallSnapShot

(* Replies to a leader give no vote. *)
LEMMA LeaderRepliesNoVote ==
    ASSUME TypeOK, NEW m \in msgs, HandleAppendEntryReply(m) \/ HandleInstallSnapShotReply(m)
    PROVE  m.to \in Server /\ NoVoteStep(m.to)
<1> DEFINE i == m.to
<1>0. m \in AppendEntryReply \/ m \in InstallSnapShotReply
  BY MessageTypes DEF TypeOK, HandleAppendEntryReply, HandleInstallSnapShotReply
<1>1. i \in Server /\ m.term \in Nat /\ currentTerm[i] \in Nat
  BY <1>0 DEF AppendEntryReply, InstallSnapShotReply, TypeOK
<1>2. UNCHANGED <<grantedVotes, ballots>> /\ msgs' \subseteq msgs
  BY DEF HandleAppendEntryReply, HandleInstallSnapShotReply, Consume
<1>3. \/ UNCHANGED <<electionVars, persister>>
      \/ updateTermAndStepDown(i, m.term) /\ persist(i, persister[i].snapshot)
  BY DEF HandleAppendEntryReply, HandleInstallSnapShotReply, persistState
<1>4. CASE UNCHANGED <<electionVars, persister>>
  BY <1>1, <1>2, <1>4 DEF NoVoteStep, electionVars
<1>5. CASE updateTermAndStepDown(i, m.term) /\ persist(i, persister[i].snapshot)
  BY <1>1, <1>2, <1>5, FollowNoVote, PersistSaves DEF NoVoteStep
<1> QED
  BY <1>1, <1>3, <1>4, <1>5

(* A majority stays one when votes are added. *)
LEMMA MajorityGrows ==
    ASSUME NEW S \in SUBSET Server, NEW T \in SUBSET Server, S \subseteq T, IsMajority(S)
    PROVE  IsMajority(T)
<1>1. IsFiniteSet(T) /\ IsFiniteSet(S) /\ IsFiniteSet(Server)
  BY ServerAssumption, FS_Subset
<1>2. Cardinality(S) <= Cardinality(T)
  BY <1>1, FS_Subset
<1>3. Cardinality(S) \in Nat /\ Cardinality(T) \in Nat /\ Cardinality(Server) \in Nat
  BY <1>1, FS_CardinalityType
<1> QED
  BY <1>2, <1>3 DEF IsMajority

(* Votes are never taken back, so a leader that stays in its term keeps    *)
(* its majority.                                                           *)
LEMMA WonStays ==
    ASSUME ElectionInv, ballots \subseteq ballots', NEW i \in Server,
           state[i] = "Leader", currentTerm'[i] = currentTerm[i]
    PROVE  Won(i, currentTerm[i])'
<1> DEFINE S == {j \in Server : <<j, currentTerm[i], i>> \in ballots}
           T == {j \in Server : <<j, currentTerm[i], i>> \in ballots'}
<1>1. S \in SUBSET Server /\ T \in SUBSET Server /\ S \subseteq T
  OBVIOUS
<1>2. IsMajority(S)
  BY DEF ElectionInv, LeadersWon, Won
<1>3. IsMajority(T)
  <2> HIDE DEF S, T
  <2> QED
    BY <1>1, <1>2, MajorityGrows
<1> QED
  BY <1>3 DEF Won, IsMajority

(* A vote saved in a new term, or in a term without a vote for another     *)
(* candidate, leaves the saved votes consistent.                           *)
LEMMA BallotAdded ==
    ASSUME TypeOK, ElectionInv, NEW i \in Server, NEW c \in Server, NEW t \in Nat,
           t > currentTerm[i] \/ (t = currentTerm[i] /\ voteFor[i] \in {None, c}),
           ballots' = ballots \cup {<<i, t, c>>},
           currentTerm'[i] = t, voteFor'[i] = c,
           persister'[i].currentTerm = t, persister'[i].voteFor = c,
           \A j \in Server \ {i} : /\ currentTerm'[j] = currentTerm[j]
                                   /\ voteFor'[j] = voteFor[j]
                                   /\ persister'[j] = persister[j]
    PROVE  VotesPersisted' /\ OneVotePerTerm'
<1>1. ASSUME NEW b \in ballots, b[1] = i
      PROVE  b[2] \in Nat /\ b[2] <= t /\ (b[2] = t => b[3] = c)
  <2>1. b[2] \in Nat /\ b[3] \in Server
    BY BallotType
  <2>2. /\ b[2] <= persister[i].currentTerm
        /\ b[2] = persister[i].currentTerm => b[3] = persister[i].voteFor
        /\ persister[i].currentTerm <= currentTerm[i]
        /\ persister[i].currentTerm = currentTerm[i] => persister[i].voteFor = voteFor[i]
    BY <1>1 DEF ElectionInv, VotesPersisted
  <2>3. currentTerm[i] \in Nat /\ persister[i].currentTerm \in Nat
    BY BallotType
  <2>4. b[3] # None
    BY <2>1, ServerAssumption
  <2> QED
    BY <2>1, <2>2, <2>3, <2>4
<1>2. VotesPersisted'
  <2>1. ASSUME NEW j \in Server
        PROVE  /\ persister'[j].currentTerm <= currentTerm'[j]
               /\ persister'[j].currentTerm = currentTerm'[j]
                    => persister'[j].voteFor = voteFor'[j]
    BY DEF ElectionInv, VotesPersisted
  <2>2. ASSUME NEW b \in ballots'
        PROVE  /\ b[2] <= persister'[b[1]].currentTerm
               /\ b[2] = persister'[b[1]].currentTerm => b[3] = persister'[b[1]].voteFor
    <3>1. CASE b = <<i, t, c>>
      BY <3>1
    <3>2. CASE b \in ballots /\ b[1] = i
      BY <1>1, <3>2
    <3>3. CASE b \in ballots /\ b[1] # i
      <4>1. b[1] \in Server
        BY <3>3, BallotType
      <4> QED
        BY <3>3, <4>1 DEF ElectionInv, VotesPersisted
    <3> QED
      BY <3>1, <3>2, <3>3
  <2> QED
    BY <2>1, <2>2 DEF VotesPersisted
<1>3. OneVotePerTerm'
  <2>1. ASSUME NEW b \in ballots, b[1] = i, b[2] = t PROVE b = <<i, t, c>>
    <3>1. b[3] = c
      BY <1>1, <2>1
    <3>2. b \in Server \X Nat \X Server
      BY DEF TypeOK
    <3>3. PICK x \in Server, y \in Nat, z \in Server : b = <<x, y, z>>
      BY <3>2
    <3> QED
      BY <2>1, <3>1, <3>3
  <2> QED
    BY <2>1 DEF ElectionInv, OneVotePerTerm
<1> QED
  BY <1>2, <1>3

(* LaunchElection keeps the invariant. *)
LEMMA LaunchElectionKeeps ==
    ASSUME TypeOK, TypeOK', ElectionInv, NEW i \in Server, LaunchElection(i)
    PROVE  ElectionInv'
<1> DEFINE t == currentTerm[i] + 1
<1>0. currentTerm[i] \in Nat /\ t \in Nat /\ t > currentTerm[i]
  <2>1. currentTerm[i] \in Nat
    BY DEF TypeOK
  <2> QED
    BY <2>1
<1>1. /\ currentTerm'[i] = t /\ voteFor'[i] = i
      /\ state'[i] = "Candidate" /\ grantedVotes'[i] = {i}
      /\ ballots' = ballots \cup {<<i, t, i>>}
      /\ \A j \in Server \ {i} : /\ currentTerm'[j] = currentTerm[j]
                                  /\ voteFor'[j] = voteFor[j]
                                  /\ state'[j] = state[j]
                                  /\ grantedVotes'[j] = grantedVotes[j]
  BY DEF TypeOK, LaunchElection
<1>2. persist(i, persister[i].snapshot)
  BY DEF LaunchElection, persistState
<1>3. \A m \in msgs' : m.type = "RequestVoteReply" => m \in msgs
  BY DEF LaunchElection
<1>4. VotesPersisted' /\ OneVotePerTerm'
  <2>1. /\ persister'[i].currentTerm = t /\ persister'[i].voteFor = i
        /\ \A j \in Server \ {i} : persister'[j] = persister[j]
    BY <1>1, <1>2, PersistSaves
  <2> HIDE DEF t
  <2> QED
    BY <1>0, <1>1, <2>1, BallotAdded
<1>5. VotesReal'
  BY <1>1, <1>3 DEF ElectionInv, VotesReal
<1>6. LeadersWon'
  <2>1. ASSUME NEW j \in Server, state'[j] = "Leader" PROVE Won(j, currentTerm[j])'
    <3>1. j # i /\ state[j] = "Leader" /\ currentTerm'[j] = currentTerm[j]
      BY <1>1, <2>1
    <3>2. ballots \subseteq ballots'
      BY <1>1
    <3> QED
      BY <3>1, <3>2, WonStays
  <2> QED
    BY <2>1 DEF LeadersWon
<1> QED
  BY <1>4, <1>5, <1>6 DEF ElectionInv

(* RequestVote keeps the invariant. *)
LEMMA RequestVoteKeeps ==
    ASSUME TypeOK, TypeOK', ElectionInv, NEW m \in msgs, RequestVote(m)
    PROVE  ElectionInv'
<1> DEFINE i == m.to
           refused == \/ m.term < currentTerm[i]
                      \/ m.term = currentTerm[i] /\ voteFor[i] \notin {None, m.from}
           granted == ~refused /\ isLogUpdateToDate(logs[i], m.lastLogIndex, m.lastLogTerm)
<1>0. m \in RequestVoteArgs
  BY MessageTypes DEF TypeOK, RequestVote
<1>1. i \in Server /\ m.from \in Server /\ m.term \in Nat /\ currentTerm[i] \in Nat
  BY <1>0 DEF RequestVoteArgs, TypeOK
<1>2. /\ currentTerm' = [currentTerm EXCEPT ![i] = Greater(@, m.term)]
      /\ state' = [state EXCEPT ![i] = IF m.term > currentTerm[i] THEN "Follower" ELSE @]
      /\ voteFor' = [voteFor EXCEPT ![i] = IF granted THEN m.from
                                           ELSE IF m.term > currentTerm[i] THEN None ELSE @]
      /\ ballots' = IF granted THEN ballots \cup {<<i, m.term, m.from>>} ELSE ballots
      /\ msgs' = (msgs \ {m}) \cup {VoteReply(m, granted)}
      /\ UNCHANGED grantedVotes
      /\ IF granted \/ m.term > currentTerm[i] THEN persistState(i) ELSE UNCHANGED persister
  BY DEF RequestVote
<1>3. \A j \in Server \ {i} : /\ currentTerm'[j] = currentTerm[j]
                              /\ voteFor'[j] = voteFor[j]
                              /\ state'[j] = state[j]
  BY <1>1, <1>2 DEF TypeOK
<1>4. /\ currentTerm'[i] = Greater(currentTerm[i], m.term)
      /\ state'[i] = IF m.term > currentTerm[i] THEN "Follower" ELSE state[i]
      /\ voteFor'[i] = IF granted THEN m.from
                        ELSE IF m.term > currentTerm[i] THEN None ELSE voteFor[i]
  BY <1>1, <1>2 DEF TypeOK
<1>5. persistState(i) => /\ persister'[i].currentTerm = currentTerm'[i]
                         /\ persister'[i].voteFor = voteFor'[i]
                         /\ \A j \in Server \ {i} : persister'[j] = persister[j]
  BY <1>1, PersistSaves DEF persistState
<1>6. granted => m.term > currentTerm[i] \/ (m.term = currentTerm[i] /\ voteFor[i] \in {None, m.from})
  BY <1>1
<1>7. state'[i] # "Follower" => state'[i] = state[i] /\ currentTerm'[i] = currentTerm[i]
  BY <1>1, <1>4 DEF Greater
<1> HIDE DEF granted
<1>8. CASE ~granted
  <2>1. \A n \in msgs' : n.type = "RequestVoteReply" /\ n.voteGranted => n \in msgs
    BY <1>2, <1>8 DEF VoteReply
  <2>2. /\ currentTerm[i] <= currentTerm'[i]
        /\ currentTerm[i] = currentTerm'[i] => voteFor'[i] = voteFor[i]
    BY <1>1, <1>4, <1>8 DEF Greater
  <2>3. NoVoteStep(i)
    BY <1>2, <1>3, <1>5, <1>7, <1>8, <2>1, <2>2 DEF NoVoteStep
  <2> QED
    BY <1>1, <2>3, NoVoteKeeps
<1>9. CASE granted
  <2>0. ballots' = ballots \cup {<<i, m.term, m.from>>}
    BY <1>2, <1>9
  <2>1. VotesPersisted' /\ OneVotePerTerm'
    <3>1. currentTerm'[i] = m.term /\ voteFor'[i] = m.from
      BY <1>1, <1>4, <1>6, <1>9 DEF Greater
    <3>2. /\ persister'[i].currentTerm = m.term /\ persister'[i].voteFor = m.from
          /\ \A j \in Server \ {i} : persister'[j] = persister[j]
      BY <1>2, <1>5, <1>9, <3>1
    <3> QED
      BY <1>1, <1>3, <1>6, <1>9, <2>0, <3>1, <3>2, BallotAdded
  <2>2. VotesReal'
    <3>1. ASSUME NEW n \in msgs', n.type = "RequestVoteReply", n.voteGranted
          PROVE  <<n.from, n.argsTerm, n.to>> \in ballots'
      <4>1. CASE n \in msgs
        BY <2>0, <3>1, <4>1 DEF ElectionInv, VotesReal
      <4>2. CASE n = VoteReply(m, granted)
        BY <2>0, <4>2 DEF VoteReply
      <4> QED
        BY <1>2, <4>1, <4>2
    <3>2. ASSUME NEW j \in Server, state'[j] = "Candidate"
          PROVE  \A k \in grantedVotes'[j] : <<k, currentTerm'[j], j>> \in ballots'
      <4>1. state[j] = "Candidate" /\ currentTerm'[j] = currentTerm[j]
        BY <1>3, <1>7, <3>2
      <4> QED
        BY <1>2, <2>0, <4>1 DEF ElectionInv, VotesReal
    <3> QED
      BY <3>1, <3>2 DEF VotesReal
  <2>3. LeadersWon'
    <3>1. ASSUME NEW j \in Server, state'[j] = "Leader" PROVE Won(j, currentTerm[j])'
      <4>1. state[j] = "Leader" /\ currentTerm'[j] = currentTerm[j]
        BY <1>3, <1>7, <3>1
      <4>2. ballots \subseteq ballots'
        BY <2>0
      <4> QED
        BY <4>1, <4>2, WonStays
    <3> QED
      BY <3>1 DEF LeadersWon
  <2> QED
    BY <2>1, <2>2, <2>3 DEF ElectionInv
<1> QED
  BY <1>8, <1>9

(* HandleRequestVoteReply keeps the invariant. *)
LEMMA VoteReplyKeeps ==
    ASSUME TypeOK, TypeOK', ElectionInv, NEW m \in msgs, HandleRequestVoteReply(m)
    PROVE  ElectionInv'
<1> DEFINE i == m.to
<1>0. m \in RequestVoteReply
  BY MessageTypes DEF TypeOK, HandleRequestVoteReply
<1>1. i \in Server /\ m.from \in Server /\ m.term \in Nat /\ currentTerm[i] \in Nat
  BY <1>0 DEF RequestVoteReply, TypeOK
<1>2. msgs' \subseteq msgs /\ ballots' = ballots /\ m.type = "RequestVoteReply"
  BY DEF HandleRequestVoteReply
<1>3. CASE UNCHANGED <<electionVars, leaderVars, grantedVotes, persister>>
  <2>1. NoVoteStep(i)
    BY <1>1, <1>2, <1>3 DEF NoVoteStep, electionVars
  <2> QED
    BY <1>1, <2>1, NoVoteKeeps
<1>4. CASE /\ updateTermAndStepDown(i, m.term)
           /\ UNCHANGED <<leaderVars, grantedVotes>>
           /\ IF m.term > currentTerm[i] THEN persistState(i) ELSE UNCHANGED persister
  <2>1. persist(i, persister[i].snapshot) \/ UNCHANGED persister
    BY <1>4 DEF persistState
  <2>2. NoVoteStep(i)
    BY <1>1, <1>2, <1>4, <2>1, FollowNoVote, PersistSaves DEF NoVoteStep
  <2> QED
    BY <1>1, <2>2, NoVoteKeeps
<1>5. CASE /\ state[i] = "Candidate" /\ currentTerm[i] = m.argsTerm /\ m.voteGranted
           /\ grantedVotes' = [grantedVotes EXCEPT ![i] = @ \cup {m.from}]
           /\ IF IsMajority(grantedVotes'[i])
                THEN ChangeStateLeader(i) ELSE UNCHANGED <<state, leaderVars>>
           /\ UNCHANGED <<currentTerm, voteFor, persister>>
  <2>1. VotesPersisted' /\ OneVotePerTerm'
    BY <1>2, <1>5 DEF ElectionInv, VotesPersisted, OneVotePerTerm
  <2>2. \A k \in grantedVotes'[i] : <<k, currentTerm[i], i>> \in ballots
    <3>1. grantedVotes'[i] = grantedVotes[i] \cup {m.from}
      BY <1>1, <1>5 DEF TypeOK
    <3>2. <<m.from, currentTerm[i], i>> \in ballots
      BY <1>2, <1>5 DEF ElectionInv, VotesReal
    <3>3. \A k \in grantedVotes[i] : <<k, currentTerm[i], i>> \in ballots
      BY <1>1, <1>5 DEF ElectionInv, VotesReal
    <3> QED
      BY <3>1, <3>2, <3>3
  <2>3. \A j \in Server \ {i} : state'[j] = state[j] /\ grantedVotes'[j] = grantedVotes[j]
    <3>1. state' = [state EXCEPT ![i] = "Leader"] \/ state' = state
      BY <1>5 DEF ChangeStateLeader
    <3>2. /\ grantedVotes \in [Server -> SUBSET Server]
          /\ state \in [Server -> {"Follower", "Candidate", "Leader"}]
      BY DEF TypeOK
    <3> QED
      BY <1>5, <3>1, <3>2
  <2>4. VotesReal'
    BY <1>2, <1>5, <2>2, <2>3 DEF ElectionInv, VotesReal
  <2>5. state'[i] = "Leader" => IsMajority(grantedVotes'[i])
    BY <1>1, <1>5
  <2>6. LeadersWon'
    <3>1. ASSUME NEW j \in Server, state'[j] = "Leader" PROVE Won(j, currentTerm[j])'
      <4>1. CASE j # i
        BY <1>2, <1>5, <2>3, <3>1, <4>1, WonStays
      <4>2. CASE j = i
        <5> DEFINE T == {k \in Server : <<k, currentTerm[i], i>> \in ballots}
        <5>1. grantedVotes'[i] \in SUBSET Server
          BY <1>1 DEF TypeOK
        <5>2. grantedVotes'[i] \subseteq T
          BY <2>2, <5>1
        <5>3. IsMajority(T)
          <6>1. IsMajority(grantedVotes'[i]) /\ T \in SUBSET Server
            BY <2>5, <3>1, <4>2
          <6> HIDE DEF T
          <6> QED
            BY <5>1, <5>2, <6>1, MajorityGrows
        <5> QED
          BY <1>2, <1>5, <4>2, <5>3 DEF Won, IsMajority
      <4> QED
        BY <4>1, <4>2
    <3> QED
      BY <3>1 DEF LeadersWon
  <2> QED
    BY <2>1, <2>4, <2>6 DEF ElectionInv
<1> QED
  BY <1>3, <1>4, <1>5 DEF HandleRequestVoteReply

(* A crash and a restart keep the invariant: the peer comes back with the  *)
(* votes it saved, and as a follower.                                      *)
LEMMA RestartKeeps ==
    ASSUME TypeOK, TypeOK', ElectionInv, NEW i \in Server, Restart(i)
    PROVE  ElectionInv'
<1>1. /\ currentTerm'[i] = persister[i].currentTerm /\ voteFor'[i] = persister[i].voteFor
      /\ state'[i] = "Follower"
      /\ \A j \in Server \ {i} : /\ currentTerm'[j] = currentTerm[j]
                                  /\ voteFor'[j] = voteFor[j]
                                  /\ state'[j] = state[j]
                                  /\ grantedVotes'[j] = grantedVotes[j]
      /\ UNCHANGED <<persister, msgs, ballots>>
  BY DEF TypeOK, Restart
<1>2. VotesPersisted'
  <2>1. ASSUME NEW j \in Server
        PROVE  /\ persister'[j].currentTerm <= currentTerm'[j]
               /\ persister'[j].currentTerm = currentTerm'[j]
                    => persister'[j].voteFor = voteFor'[j]
    <3>1. /\ persister[j].currentTerm <= currentTerm[j]
          /\ persister[j].currentTerm = currentTerm[j] => persister[j].voteFor = voteFor[j]
      BY DEF ElectionInv, VotesPersisted
    <3>2. persister'[j] = persister[j]
      BY <1>1
    <3>3. CASE j = i
      <4>1. currentTerm'[j] = persister'[j].currentTerm /\ voteFor'[j] = persister'[j].voteFor
        BY <1>1, <3>2, <3>3
      <4>2. persister'[j].currentTerm \in Nat
        BY DEF TypeOK
      <4> QED
        BY <4>1, <4>2
    <3>4. CASE j # i
      BY <1>1, <3>1, <3>2, <3>4
    <3> QED
      BY <3>3, <3>4
  <2> QED
    BY <1>1, <2>1 DEF ElectionInv, VotesPersisted
<1>3. OneVotePerTerm' /\ VotesReal'
  <2>1. OneVotePerTerm'
    BY <1>1 DEF ElectionInv, OneVotePerTerm
  <2>2. ASSUME NEW j \in Server, state'[j] = "Candidate", NEW k \in grantedVotes'[j]
        PROVE  <<k, currentTerm'[j], j>> \in ballots'
    <3>1. j # i
      BY <1>1, <2>2
    <3>2. /\ state[j] = "Candidate" /\ k \in grantedVotes[j]
          /\ currentTerm'[j] = currentTerm[j] /\ ballots' = ballots
      BY <1>1, <2>2, <3>1
    <3> QED
      BY <3>2 DEF ElectionInv, VotesReal
  <2> QED
    BY <1>1, <2>1, <2>2 DEF ElectionInv, VotesReal
<1>4. LeadersWon'
  <2>1. ASSUME NEW j \in Server, state'[j] = "Leader"
        PROVE  Won(j, currentTerm[j]) /\ currentTerm'[j] = currentTerm[j]
    <3>1. j # i
      BY <1>1, <2>1
    <3> QED
      BY <1>1, <2>1, <3>1 DEF ElectionInv, LeadersWon
  <2> QED
    BY <1>1, <2>1, WonStays DEF LeadersWon
<1> QED
  BY <1>2, <1>3, <1>4 DEF ElectionInv

(* ElectionInv holds at the start. *)
LEMMA ElectionInit == Init => ElectionInv
  BY DEF Init, ElectionInv, VotesPersisted, OneVotePerTerm, VotesReal, LeadersWon

(* ElectionInv is inductive. *)
LEMMA ElectionNext == TypeOK /\ TypeOK' /\ ElectionInv /\ [Next]_vars => ElectionInv'
<1> SUFFICES ASSUME TypeOK, TypeOK', ElectionInv, [Next]_vars PROVE ElectionInv'
  OBVIOUS
<1>1. CASE UNCHANGED vars
  BY <1>1 DEF vars, ElectionInv, VotesPersisted, OneVotePerTerm, VotesReal, LeadersWon,
              Won, IsMajority
<1>2. ASSUME NEW i \in Server, NEW j \in Server,
             Start(i) \/ doSendAppendEntry(i, j) \/ applier(i) \/ reader(i) \/ Snapshot(i)
      PROVE  ElectionInv'
  BY <1>2, LocalStepsNoVote, NoVoteKeeps
<1>3. ASSUME NEW m \in msgs,
             \/ AppendEntry(m)
             \/ InstallSnapShot(m)
             \/ HandleAppendEntryReply(m)
             \/ HandleInstallSnapShotReply(m)
      PROVE  ElectionInv'
  <2>1. m.to \in Server /\ NoVoteStep(m.to)
    BY <1>3, AppendEntryNoVote, InstallSnapShotNoVote, LeaderRepliesNoVote
  <2> QED
    BY <2>1, NoVoteKeeps
<1>4. ASSUME NEW m \in msgs, Lose(m) PROVE ElectionInv'
  <2>1. msgs' \subseteq msgs /\ UNCHANGED <<electionVars, grantedVotes, persister, ballots>>
    BY <1>4 DEF Lose
  <2> QED
    BY <2>1 DEF electionVars, ElectionInv, VotesPersisted, OneVotePerTerm, VotesReal,
                LeadersWon, Won, IsMajority
<1> QED
  BY <1>1, <1>2, <1>3, <1>4, LaunchElectionKeeps, RequestVoteKeeps, VoteReplyKeeps,
     RestartKeeps DEF Next

(* Every vote that is promised or counted was saved, a voter's saved vote  *)
(* is its only one in that term, and leaders hold a majority: across       *)
(* crashes, lost and late messages, and stale ticks of the election timer. *)
THEOREM ElectionInvariant == Spec => []ElectionInv
  BY TypeCorrect, ElectionInit, ElectionNext, PTL DEF Spec

(* Two majorities of the votes of a term share a voter. *)
LEMMA OneWinner ==
    ASSUME OneVotePerTerm, NEW i \in Server, NEW j \in Server, NEW t, Won(i, t), Won(j, t)
    PROVE  i = j
<1> DEFINE S == {k \in Server : <<k, t, i>> \in ballots}
           T == {k \in Server : <<k, t, j>> \in ballots}
<1>1. S \subseteq Server /\ T \subseteq Server /\ IsFiniteSet(Server)
  BY ServerAssumption
<1>2. IsMajority(S) /\ IsMajority(T)
  BY DEF Won
<1>3. S \cap T # {}
  <2> HIDE DEF S, T
  <2>1. Cardinality(S) \in Nat /\ Cardinality(T) \in Nat /\ Cardinality(Server) \in Nat
    BY <1>1, FS_Subset, FS_CardinalityType
  <2>2. Cardinality(S) + Cardinality(T) > Cardinality(Server)
    BY <1>2, <2>1 DEF IsMajority
  <2> QED
    BY <1>1, <2>2, FS_MajoritiesIntersect
<1>4. PICK k \in Server : <<k, t, i>> \in ballots /\ <<k, t, j>> \in ballots
  BY <1>3
<1>5. <<k, t, i>> = <<k, t, j>>
  BY <1>4 DEF OneVotePerTerm
<1> QED
  BY <1>5

(* No term ever has two leaders, in any execution of any group. *)
THEOREM ElectionIsSafe == Spec => []ElectionSafety
<1>1. ElectionInv => ElectionSafety
  BY OneWinner DEF ElectionInv, LeadersWon, ElectionSafety
<1> QED
  BY <1>1, ElectionInvariant, PTL

(* A peer votes at most once in a term, however often it crashes. *)
THEOREM VotesAreUnique == Spec => []OneVotePerTerm
<1>1. ElectionInv => OneVotePerTerm
  BY DEF ElectionInv
<1> QED
  BY <1>1, ElectionInvariant, PTL
=============================================================================
