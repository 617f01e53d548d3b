-------------------------------- MODULE Raft --------------------------------
(***************************************************************************)
(* One Raft group: the peers of raft1/raft.go, their persisters, the       *)
(* network between them (labrpc) and, per peer, the service goroutine that *)
(* reads applyCh and asks for snapshots (rsm.go).                          *)
(*                                                                         *)
(* A command is identified by the index and the term of its entry, so a    *)
(* log is the sequence of the terms of its entries and the state of a      *)
(* service is the sequence of the entries it has executed.                 *)
(***************************************************************************)
EXTENDS RaftValues

CONSTANTS
    None,        \* voteFor = -1
    MaxTerm,     \* bound: no election beyond this term
    MaxIndex,    \* bound: no Start beyond this index
    MaxMsgs,     \* bound: messages in flight
    Timeouts,    \* schedule: which peer may start an election for which term
    Restarts,    \* schedule: peers that may crash and restart
    Appliers     \* schedule: peers whose applier and service run

ASSUME ServerAssumption == IsFiniteSet(Server) /\ None \notin Server
ASSUME BoundAssumption == MaxTerm \in Nat /\ MaxIndex \in Nat /\ MaxMsgs \in Nat
ASSUME ScheduleAssumption ==
    Timeouts \subseteq Server \X Nat /\ Restarts \subseteq Server /\ Appliers \subseteq Server

VARIABLES
    currentTerm, voteFor, state,  \* the election state of each peer
    logs,                         \* logs[i]: index of the dummy entry, terms
    commitIndex, lastApplied,
    nextIndex, matchIndex,        \* kept by leaders, per peer
    grantedVotes,                 \* the voters LaunchElection's closure counted
    pendingSnapshot,              \* snapshot staged for the applier
    applyCh,                      \* the message the applier is sending
    applied,                      \* the entries the service has executed
    persister,                    \* what survives a crash
    msgs,                         \* requests and replies in flight
    ballots                       \* history: every vote ever persisted

electionVars == <<currentTerm, voteFor, state>>
leaderVars == <<nextIndex, matchIndex>>
serviceVars == <<applyCh, applied>>
vars == <<currentTerm, voteFor, state, logs, commitIndex, lastApplied, nextIndex,
          matchIndex, grantedVotes, pendingSnapshot, applyCh, applied, persister,
          msgs, ballots>>

-----------------------------------------------------------------------------
Init ==
    /\ currentTerm = [i \in Server |-> 0]
    /\ voteFor = [i \in Server |-> None]
    /\ state = [i \in Server |-> "Follower"]
    /\ logs = [i \in Server |-> SingleLog(0, 0)]
    /\ commitIndex = [i \in Server |-> 0]
    /\ lastApplied = [i \in Server |-> 0]
    /\ nextIndex = [i \in Server |-> NewNextIndex]
    /\ matchIndex = [i \in Server |-> NewMatchIndex]
    /\ grantedVotes = [i \in Server |-> {}]
    /\ pendingSnapshot = [i \in Server |-> NoApplyMsg]
    /\ applyCh = [i \in Server |-> NoApplyMsg]
    /\ applied = [i \in Server |-> <<>>]
    /\ persister = [i \in Server |-> [currentTerm |-> 0, voteFor |-> None,
                                      logs |-> SingleLog(0, 0), snapshot |-> <<>>]]
    /\ msgs = {}
    /\ ballots = {}

(* Seeded fault: the previous snapshot is saved with the new log. *)
persistOldSnapshot(i, snapshot) ==
    persister' = [persister EXCEPT ![i].currentTerm = currentTerm'[i],
                                   ![i].voteFor = voteFor'[i], ![i].logs = logs'[i]]

(* persist(snapshot): everything in one atomic Save. *)
persist(i, snapshot) ==
    persister' = [persister EXCEPT ![i] =
        [currentTerm |-> currentTerm'[i], voteFor |-> voteFor'[i],
         logs |-> logs'[i], snapshot |-> snapshot]]

(* Seeded fault: the vote is not saved. *)
persistStateNoVote(i) ==
    persister' = [persister EXCEPT ![i].currentTerm = currentTerm'[i], ![i].logs = logs'[i]]


persistState(i) == persist(i, persister[i].snapshot)

(* The bound on the messages in flight. *)
RoomInNetwork == Cardinality(msgs') <= MaxMsgs

(* updateTermAndStepDown, up to its call of persistState. *)
updateTermAndStepDown(i, newTerm) ==
    /\ currentTerm' = [currentTerm EXCEPT ![i] = Greater(@, newTerm)]
    /\ voteFor' = [voteFor EXCEPT ![i] = IF newTerm > currentTerm[i] THEN None ELSE @]
    /\ state' = [state EXCEPT ![i] = IF newTerm > currentTerm[i] THEN "Follower" ELSE @]

-----------------------------------------------------------------------------
(* Elections.                                                              *)

(* The election timer's case of ticker, and LaunchElection. The tick may   *)
(* already be in the channel, or the goroutine waiting for rf.mu, when a   *)
(* heartbeat or a won election resets or stops the timer, so that any peer *)
(* in any state can take this step. The network may lose some requests.    *)
LaunchElection(i) ==
    /\ <<i, currentTerm[i] + 1>> \in Timeouts
    /\ currentTerm[i] < MaxTerm
    /\ state' = [state EXCEPT ![i] = "Candidate"]
    /\ currentTerm' = [currentTerm EXCEPT ![i] = @ + 1]
    /\ voteFor' = [voteFor EXCEPT ![i] = i]
    /\ grantedVotes' = [grantedVotes EXCEPT ![i] = {i}]
    /\ ballots' = ballots \cup {<<i, currentTerm'[i], i>>}
    /\ \E reached \in SUBSET (Server \ {i}) :
         msgs' = msgs \cup
           {[type |-> "RequestVote", from |-> i, to |-> j, term |-> currentTerm'[i],
             lastLogIndex |-> LastIndex(logs[i]), lastLogTerm |-> LastTerm(logs[i])]
             : j \in reached}
    /\ RoomInNetwork
    /\ UNCHANGED <<logs, commitIndex, lastApplied, leaderVars, pendingSnapshot, serviceVars>>
    /\ persistState(i)

VoteReply(m, granted) ==
    [type |-> "RequestVoteReply", from |-> m.to, to |-> m.from, argsTerm |-> m.term,
     term |-> Greater(currentTerm[m.to], m.term), voteGranted |-> granted]

(* A vote request is sent once, so that delivering it removes it. *)
RequestVote(m) ==
    /\ m.type = "RequestVote"
    /\ LET i == m.to
           refused == \/ m.term < currentTerm[i]
                      \/ m.term = currentTerm[i] /\ voteFor[i] \notin {None, m.from}
           granted == ~refused /\ isLogUpdateToDate(logs[i], m.lastLogIndex, m.lastLogTerm)
       IN  /\ currentTerm' = [currentTerm EXCEPT ![i] = Greater(@, m.term)]
           /\ state' = [state EXCEPT ![i] = IF m.term > currentTerm[i] THEN "Follower" ELSE @]
           /\ voteFor' = [voteFor EXCEPT ![i] = IF granted THEN m.from
                                                ELSE IF m.term > currentTerm[i] THEN None ELSE @]
           /\ ballots' = IF granted THEN ballots \cup {<<i, m.term, m.from>>} ELSE ballots
           /\ msgs' = (msgs \ {m}) \cup {VoteReply(m, granted)}
           /\ UNCHANGED <<logs, commitIndex, lastApplied, leaderVars, grantedVotes,
                          pendingSnapshot, serviceVars>>
           /\ IF granted \/ m.term > currentTerm[i] THEN persistState(i)
                                                    ELSE UNCHANGED persister

(* ChangeState(Leader) for a candidate. *)
ChangeStateLeader(i) ==
    /\ state' = [state EXCEPT ![i] = "Leader"]
    /\ nextIndex' = [nextIndex EXCEPT ![i] = [j \in Server |-> LastIndex(logs[i]) + 1]]
    /\ matchIndex' = [matchIndex EXCEPT ![i] =
                        [j \in Server |-> IF j = i THEN LastIndex(logs[i]) ELSE 0]]

(* Seeded fault: a vote of an earlier term is counted. *)
HandleRequestVoteReplyLate(m) ==
    /\ m.type = "RequestVoteReply"
    /\ msgs' = msgs \ {m}
    /\ state[m.to] = "Candidate" /\ m.voteGranted
    /\ grantedVotes' = [grantedVotes EXCEPT ![m.to] = @ \cup {m.from}]
    /\ IF IsMajority(grantedVotes'[m.to]) THEN ChangeStateLeader(m.to)
                                          ELSE UNCHANGED <<state, leaderVars>>
    /\ UNCHANGED <<currentTerm, voteFor, persister, logs, commitIndex, lastApplied,
                   pendingSnapshot, serviceVars, ballots>>

(* The goroutine of LaunchElection, after its call returned. *)
HandleRequestVoteReply(m) ==
    /\ m.type = "RequestVoteReply"
    /\ msgs' = msgs \ {m}
    /\ UNCHANGED <<logs, commitIndex, lastApplied, pendingSnapshot, serviceVars, ballots>>
    /\ LET i == m.to
           isValidCandidate == state[i] = "Candidate" /\ currentTerm[i] = m.argsTerm
       IN  \/ /\ ~isValidCandidate
              /\ UNCHANGED <<electionVars, leaderVars, grantedVotes, persister>>
           \/ /\ isValidCandidate /\ m.voteGranted
              /\ grantedVotes' = [grantedVotes EXCEPT ![i] = @ \cup {m.from}]
              /\ IF IsMajority(grantedVotes'[i])
                   THEN ChangeStateLeader(i)
                   ELSE UNCHANGED <<state, leaderVars>>
              /\ UNCHANGED <<currentTerm, voteFor, persister>>
           \/ /\ isValidCandidate /\ ~m.voteGranted
              /\ updateTermAndStepDown(i, m.term)
              /\ UNCHANGED <<leaderVars, grantedVotes>>
              /\ IF m.term > currentTerm[i] THEN persistState(i) ELSE UNCHANGED persister

-----------------------------------------------------------------------------
(* Replication. Heartbeats repeat, so any number of copies of an           *)
(* AppendEntry or InstallSnapShot request, and of the replies to them, can *)
(* be in flight: delivering one may leave another copy in the network.     *)

Answer(m, reply) ==
    /\ msgs' \in {msgs \cup {reply}, (msgs \ {m}) \cup {reply}}
    /\ RoomInNetwork

Consume(m) == msgs' \in {msgs, msgs \ {m}}

Start(i) ==
    /\ state[i] = "Leader"
    /\ LastIndex(logs[i]) < MaxIndex
    /\ logs' = [logs EXCEPT ![i].terms = Append(@, currentTerm[i])]
    /\ matchIndex' = [matchIndex EXCEPT ![i][i] = LastIndex(logs[i]) + 1]
    /\ nextIndex' = [nextIndex EXCEPT ![i][i] = LastIndex(logs[i]) + 2]
    /\ UNCHANGED <<electionVars, commitIndex, lastApplied, grantedVotes, pendingSnapshot,
                   serviceVars, msgs, ballots>>
    /\ persistState(i)

(* makeInstallSnapShotArgs *)
makeInstallSnapShotArgs(i, j) ==
    [type |-> "InstallSnapShot", from |-> i, to |-> j, term |-> currentTerm[i],
     lastIncludedIndex |-> logs[i].first, lastIncludedTerm |-> logs[i].terms[1],
     data |-> persister[i].snapshot]

(* The caller has checked that prevLogIndex is not below the dummy entry, *)
(* which leaves genAppendEntryArgs one clamp to do.                       *)
genAppendEntryArgs(i, j, prevLogIndex) ==
    LET prev == Lesser(prevLogIndex, LastIndex(logs[i]))
    IN  [type |-> "AppendEntry", from |-> i, to |-> j, term |-> currentTerm[i],
         prevLogIndex |-> prev, prevLogTerm |-> TermAt(logs[i], prev),
         entries |-> EntriesFrom(logs[i], prev + 1), leaderCommit |-> commitIndex[i]]

(* doSendAppendEntry up to the call, from a heartbeat or from replicator. *)
doSendAppendEntry(i, j) ==
    /\ i # j
    /\ state[i] = "Leader"
    /\ LET prevLogIndex == nextIndex[i][j] - 1
       IN  msgs' = msgs \cup
             {IF prevLogIndex < logs[i].first THEN makeInstallSnapShotArgs(i, j)
                                              ELSE genAppendEntryArgs(i, j, prevLogIndex)}
    /\ RoomInNetwork
    /\ UNCHANGED <<electionVars, logs, commitIndex, lastApplied, leaderVars, grantedVotes,
                   pendingSnapshot, serviceVars, persister, ballots>>

AppendReply(m, term, success, conflictIndex, conflictTerm) ==
    [type |-> "AppendEntryReply", from |-> m.to, to |-> m.from, argsTerm |-> m.term,
     prevLogIndex |-> m.prevLogIndex, entryCount |-> Len(m.entries),
     term |-> term, success |-> success,
     conflictIndex |-> conflictIndex, conflictTerm |-> conflictTerm]

(* ConflictIndex and ConflictTerm of a refused AppendEntry. *)
ConflictReply(m, log) ==
    IF m.prevLogIndex < log.first THEN AppendReply(m, m.term, FALSE, log.first, -1)
    ELSE IF LastIndex(log) < m.prevLogIndex THEN AppendReply(m, m.term, FALSE, LastIndex(log) + 1, -1)
    ELSE LET conflictTerm == TermAt(log, m.prevLogIndex)
             conflictIndex == SearchTerm(log, m.prevLogIndex + 1, conflictTerm)
         IN  AppendReply(m, m.term, FALSE, conflictIndex, conflictTerm)

(* Every request or reply of the current or a later term makes the peer a  *)
(* follower of that term.                                                  *)
FollowTerm(i, term) ==
    /\ currentTerm' = [currentTerm EXCEPT ![i] = term]
    /\ voteFor' = [voteFor EXCEPT ![i] = IF term > currentTerm[i] THEN None ELSE @]
    /\ state' = [state EXCEPT ![i] = "Follower"]

AppendEntryStale(m) ==
    /\ m.term < currentTerm[m.to]
    /\ UNCHANGED <<electionVars, logs, commitIndex, persister>>
    /\ Answer(m, AppendReply(m, currentTerm[m.to], FALSE, 0, 0))

(* Seeded fault: the new term is not saved when the entries are refused. *)
AppendEntryRefuseUnsaved(m) ==
    /\ m.term >= currentTerm[m.to]
    /\ ~isLogMatched(logs[m.to], m.prevLogIndex, m.prevLogTerm)
    /\ FollowTerm(m.to, m.term)
    /\ UNCHANGED <<logs, commitIndex, persister>>
    /\ Answer(m, ConflictReply(m, logs[m.to]))

AppendEntryRefuse(m) ==
    /\ m.term >= currentTerm[m.to]
    /\ ~isLogMatched(logs[m.to], m.prevLogIndex, m.prevLogTerm)
    /\ FollowTerm(m.to, m.term)
    /\ UNCHANGED <<logs, commitIndex>>
    /\ Answer(m, ConflictReply(m, logs[m.to]))
    /\ IF m.term > currentTerm[m.to] THEN persistState(m.to) ELSE UNCHANGED persister

(* Seeded fault: LeaderCommit is taken as it is, also when it is lower. *)
AppendEntryAcceptLowersCommit(m) ==
    LET i == m.to
    IN  /\ m.term >= currentTerm[i]
        /\ isLogMatched(logs[i], m.prevLogIndex, m.prevLogTerm)
        /\ FollowTerm(i, m.term)
        /\ logs' = [logs EXCEPT ![i] = AppendEntries(m, @)]
        /\ commitIndex' = [commitIndex EXCEPT
                             ![i] = Lesser(m.leaderCommit, LastIndex(logs'[i]))]
        /\ Answer(m, AppendReply(m, m.term, TRUE, 0, 0))
        /\ IF m.term > currentTerm[i] \/ Mismatches(m, logs[i]) # {}
             THEN persistState(i) ELSE UNCHANGED persister


AppendEntryAccept(m) ==
    LET i == m.to
    IN  /\ m.term >= currentTerm[i]
        /\ isLogMatched(logs[i], m.prevLogIndex, m.prevLogTerm)
        /\ FollowTerm(i, m.term)
        /\ logs' = [logs EXCEPT ![i] = AppendEntries(m, @)]
        /\ commitIndex' = [commitIndex EXCEPT
                             ![i] = Greater(@, Lesser(m.leaderCommit, LastIndex(logs'[i])))]
        /\ Answer(m, AppendReply(m, m.term, TRUE, 0, 0))
        /\ IF m.term > currentTerm[i] \/ Mismatches(m, logs[i]) # {}
             THEN persistState(i) ELSE UNCHANGED persister

AppendEntry(m) ==
    /\ m.type = "AppendEntry"
    /\ AppendEntryStale(m) \/ AppendEntryRefuse(m) \/ AppendEntryAccept(m)
    /\ UNCHANGED <<lastApplied, leaderVars, grantedVotes, pendingSnapshot, serviceVars, ballots>>

updateLogIndices(i, j, matchIdx) ==
    /\ matchIndex' = [matchIndex EXCEPT ![i][j] = matchIdx]
    /\ nextIndex' = [nextIndex EXCEPT ![i][j] = matchIdx + 1]

(* QuickSelect of the match indices at k = n - (n/2 + 1): the greatest     *)
(* index that a majority has reached, counted from 1.                      *)
MajorityIndex(match, last) ==
    Cardinality({v \in 1 .. last : IsMajority({j \in Server : match[j] >= v})})

(* Seeded fault: entries of earlier terms are committed by counting. *)
acceptNewLogEntriesAnyTerm(i, j, m) ==
    /\ updateLogIndices(i, j, m.prevLogIndex + m.entryCount)
    /\ commitIndex' = [commitIndex EXCEPT
         ![i] = Greater(@, MajorityIndex(matchIndex'[i], LastIndex(logs[i])))]

(* Seeded fault: the follower is taken to have all the leader has by now. *)
acceptNewLogEntriesLatest(i, j, m) ==
    /\ updateLogIndices(i, j, LastIndex(logs[i]))
    /\ LET newCommitIdx == MajorityIndex(matchIndex'[i], LastIndex(logs[i]))
       IN  commitIndex' = [commitIndex EXCEPT
             ![i] = IF newCommitIdx > @ /\ isLogMatched(logs[i], newCommitIdx, currentTerm[i])
                    THEN newCommitIdx ELSE @]


acceptNewLogEntries(i, j, m) ==
    /\ updateLogIndices(i, j, m.prevLogIndex + m.entryCount)
    /\ LET newCommitIdx == MajorityIndex(matchIndex'[i], LastIndex(logs[i]))
       IN  commitIndex' = [commitIndex EXCEPT
             ![i] = IF newCommitIdx > @ /\ isLogMatched(logs[i], newCommitIdx, currentTerm[i])
                    THEN newCommitIdx ELSE @]

(* The next index to try after a refusal, clamped to the leader's log. *)
RollBack(log, m) ==
    LET idx == SearchTerm(log, m.prevLogIndex, m.conflictTerm)
        next == IF /\ m.conflictTerm # -1
                   /\ idx <= m.prevLogIndex
                   /\ TermAt(log, idx) = m.conflictTerm
                THEN idx + 1 ELSE m.conflictIndex
    IN  Lesser(Greater(next, log.first), LastIndex(log) + 1)

rollBackToConflictTerm(i, j, m) ==
    nextIndex' = [nextIndex EXCEPT ![i][j] = RollBack(logs[i], m)]

isValidLeader(i, term) == state[i] = "Leader" /\ currentTerm[i] = term

(* doSendAppendEntry after the AppendEntry call returned. *)
HandleAppendEntryReply(m) ==
    /\ m.type = "AppendEntryReply"
    /\ isValidLeader(m.to, m.argsTerm)
    /\ \/ /\ m.success
          /\ acceptNewLogEntries(m.to, m.from, m)
          /\ UNCHANGED <<electionVars, persister>>
       \/ /\ ~m.success /\ m.term > currentTerm[m.to]
          /\ updateTermAndStepDown(m.to, m.term)
          /\ UNCHANGED <<leaderVars, commitIndex, logs>>
          /\ persistState(m.to)
       \/ /\ ~m.success /\ m.term <= currentTerm[m.to]
          /\ rollBackToConflictTerm(m.to, m.from, m)
          /\ UNCHANGED <<electionVars, matchIndex, commitIndex, persister>>
    /\ Consume(m)
    /\ UNCHANGED <<logs, lastApplied, grantedVotes, pendingSnapshot, serviceVars, ballots>>

-----------------------------------------------------------------------------
(* Snapshots, the applier, the service, crashes and the network.           *)

InstallSnapShotReplyTo(m) ==
    [type |-> "InstallSnapShotReply", from |-> m.to, to |-> m.from, argsTerm |-> m.term,
     lastIncludedIndex |-> m.lastIncludedIndex, term |-> currentTerm[m.to]]

(* A snapshot of an old term changes nothing. *)
InstallSnapShotStale(m) ==
    /\ m.term < currentTerm[m.to]
    /\ UNCHANGED <<electionVars, logs, commitIndex, lastApplied, pendingSnapshot, persister>>

(* A snapshot the service is already past: the term is taken over, and the *)
(* handler returns before it persists.                                     *)
InstallSnapShotBehind(m) ==
    /\ m.term >= currentTerm[m.to]
    /\ m.lastIncludedIndex <= lastApplied[m.to]
    /\ FollowTerm(m.to, m.term)
    /\ UNCHANGED <<logs, commitIndex, lastApplied, pendingSnapshot, persister>>

(* Seeded fault: lastApplied is left to the applier. *)
InstallSnapShotAcceptNotApplied(m) ==
    LET i == m.to
        index == m.lastIncludedIndex
    IN  /\ m.term >= currentTerm[i]
        /\ index > lastApplied[i]
        /\ FollowTerm(i, m.term)
        /\ logs' = [logs EXCEPT ![i] = LogAfterSnapshot(@, index, m.lastIncludedTerm)]
        /\ commitIndex' = [commitIndex EXCEPT ![i] = Greater(@, index)]
        /\ pendingSnapshot' = [pendingSnapshot EXCEPT
                                 ![i] = [kind |-> "snapshot", index |-> index, data |-> m.data]]
        /\ persist(i, m.data)
        /\ UNCHANGED lastApplied

(* Seeded fault: commitIndex is left behind the snapshot. *)
InstallSnapShotAcceptNotCommitted(m) ==
    LET i == m.to
        index == m.lastIncludedIndex
    IN  /\ m.term >= currentTerm[i]
        /\ index > lastApplied[i]
        /\ FollowTerm(i, m.term)
        /\ logs' = [logs EXCEPT ![i] = LogAfterSnapshot(@, index, m.lastIncludedTerm)]
        /\ lastApplied' = [lastApplied EXCEPT ![i] = index]
        /\ pendingSnapshot' = [pendingSnapshot EXCEPT
                                 ![i] = [kind |-> "snapshot", index |-> index, data |-> m.data]]
        /\ persist(i, m.data)
        /\ UNCHANGED commitIndex

InstallSnapShotAccept(m) ==
    LET i == m.to
        index == m.lastIncludedIndex
    IN  /\ m.term >= currentTerm[i]
        /\ index > lastApplied[i]
        /\ FollowTerm(i, m.term)
        /\ logs' = [logs EXCEPT ![i] = LogAfterSnapshot(@, index, m.lastIncludedTerm)]
        /\ commitIndex' = [commitIndex EXCEPT ![i] = Greater(@, index)]
        /\ lastApplied' = [lastApplied EXCEPT ![i] = index]
        /\ pendingSnapshot' = [pendingSnapshot EXCEPT
                                 ![i] = [kind |-> "snapshot", index |-> index, data |-> m.data]]
        /\ persist(i, m.data)

InstallSnapShot(m) ==
    /\ m.type = "InstallSnapShot"
    /\ InstallSnapShotStale(m) \/ InstallSnapShotBehind(m) \/ InstallSnapShotAccept(m)
    /\ Answer(m, InstallSnapShotReplyTo(m))
    /\ UNCHANGED <<leaderVars, grantedVotes, serviceVars, ballots>>

(* doSendAppendEntry after the InstallSnapShot call returned. *)
HandleInstallSnapShotReply(m) ==
    /\ m.type = "InstallSnapShotReply"
    /\ isValidLeader(m.to, m.argsTerm)
    /\ \/ /\ m.term > currentTerm[m.to]
          /\ updateTermAndStepDown(m.to, m.term)
          /\ UNCHANGED <<leaderVars, logs>>
          /\ persistState(m.to)
       \/ /\ m.term <= currentTerm[m.to]
          /\ updateLogIndices(m.to, m.from, m.lastIncludedIndex)
          /\ UNCHANGED <<electionVars, persister>>
    /\ Consume(m)
    /\ UNCHANGED <<logs, commitIndex, lastApplied, grantedVotes, pendingSnapshot,
                   serviceVars, ballots>>

(* One round of applier, up to its send on applyCh. The two fast-forward   *)
(* branches set lastApplied to the dummy entry and send nothing.           *)
applier(i) ==
    /\ i \in Appliers
    /\ applyCh[i] = NoApplyMsg
    /\ \/ /\ pendingSnapshot[i] # NoApplyMsg
          /\ applyCh' = [applyCh EXCEPT ![i] = pendingSnapshot[i]]
          /\ pendingSnapshot' = [pendingSnapshot EXCEPT ![i] = NoApplyMsg]
          /\ UNCHANGED lastApplied
       \/ /\ pendingSnapshot[i] = NoApplyMsg
          /\ lastApplied[i] < commitIndex[i]
          /\ LET next == lastApplied[i] + 1
                 present == lastApplied[i] >= logs[i].first /\ HasIndex(logs[i], next)
             IN  /\ lastApplied' = [lastApplied EXCEPT
                                      ![i] = IF present THEN next ELSE logs[i].first]
                 /\ applyCh' = [applyCh EXCEPT ![i] =
                      IF present THEN [kind |-> "entry", index |-> next,
                                       data |-> <<TermAt(logs[i], next)>>] ELSE @]
          /\ UNCHANGED pendingSnapshot
    /\ UNCHANGED <<electionVars, logs, commitIndex, leaderVars, grantedVotes, applied,
                   persister, msgs, ballots>>

(* The service's reader receives what the applier is sending, and skips    *)
(* what it has executed already.                                           *)
reader(i) ==
    /\ applyCh[i] # NoApplyMsg
    /\ applyCh' = [applyCh EXCEPT ![i] = NoApplyMsg]
    /\ applied' = [applied EXCEPT ![i] =
         IF applyCh[i].index <= Len(@) THEN @
         ELSE IF applyCh[i].kind = "entry" THEN @ \o applyCh[i].data
         ELSE applyCh[i].data]
    /\ UNCHANGED <<electionVars, logs, commitIndex, lastApplied, leaderVars, grantedVotes,
                   pendingSnapshot, persister, msgs, ballots>>

(* Seeded fault: the entry at the snapshot's index is dropped too. *)
SnapshotNoDummy(i) ==
    LET index == Len(applied[i])
    IN  /\ index > logs[i].first
        /\ index <= LastIndex(logs[i])
        /\ logs' = [logs EXCEPT ![i] = [first |-> index, terms |-> EntriesFrom(@, index + 1)]]
        /\ UNCHANGED <<electionVars, commitIndex, lastApplied, leaderVars, grantedVotes,
                       pendingSnapshot, serviceVars, msgs, ballots>>
        /\ persist(i, applied[i])

(* The reader saves a snapshot of what the service has executed. *)
Snapshot(i) ==
    LET index == Len(applied[i])
    IN  /\ index > logs[i].first
        /\ index <= LastIndex(logs[i])
        /\ logs' = [logs EXCEPT ![i] = [first |-> index, terms |-> EntriesFrom(@, index)]]
        /\ UNCHANGED <<electionVars, commitIndex, lastApplied, leaderVars, grantedVotes,
                       pendingSnapshot, serviceVars, msgs, ballots>>
        /\ persist(i, applied[i])

(* A crash, and Make with readPersist. Replies to calls of the old         *)
(* instance find a follower whose term never becomes theirs again.         *)
Restart(i) ==
    /\ i \in Restarts
    /\ currentTerm' = [currentTerm EXCEPT ![i] = persister[i].currentTerm]
    /\ voteFor' = [voteFor EXCEPT ![i] = persister[i].voteFor]
    /\ state' = [state EXCEPT ![i] = "Follower"]
    /\ logs' = [logs EXCEPT ![i] = persister[i].logs]
    /\ commitIndex' = [commitIndex EXCEPT ![i] = persister[i].logs.first]
    /\ lastApplied' = [lastApplied EXCEPT ![i] = persister[i].logs.first]
    /\ nextIndex' = [nextIndex EXCEPT ![i] = NewNextIndex]
    /\ matchIndex' = [matchIndex EXCEPT ![i] = NewMatchIndex]
    /\ grantedVotes' = [grantedVotes EXCEPT ![i] = {}]
    /\ pendingSnapshot' = [pendingSnapshot EXCEPT ![i] = NoApplyMsg]
    /\ applyCh' = [applyCh EXCEPT ![i] = NoApplyMsg]
    /\ applied' = [applied EXCEPT ![i] = persister[i].snapshot]
    /\ UNCHANGED <<persister, msgs, ballots>>

(* labrpc drops a request or a reply, or has delivered the last copy. *)
Lose(m) ==
    /\ msgs' = msgs \ {m}
    /\ UNCHANGED <<electionVars, logs, commitIndex, lastApplied, leaderVars, grantedVotes,
                   pendingSnapshot, serviceVars, persister, ballots>>

Next ==
    \/ \E i \in Server : LaunchElection(i)
    \/ \E i \in Server : Start(i)
    \/ \E i, j \in Server : doSendAppendEntry(i, j)
    \/ \E i \in Server : applier(i)
    \/ \E i \in Server : reader(i)
    \/ \E i \in Server : Snapshot(i)
    \/ \E i \in Server : Restart(i)
    \/ \E m \in msgs : RequestVote(m)
    \/ \E m \in msgs : HandleRequestVoteReply(m)
    \/ \E m \in msgs : AppendEntry(m)
    \/ \E m \in msgs : HandleAppendEntryReply(m)
    \/ \E m \in msgs : InstallSnapShot(m)
    \/ \E m \in msgs : HandleInstallSnapShotReply(m)
    \/ \E m \in msgs : Lose(m)

Spec == Init /\ [][Next]_vars

-----------------------------------------------------------------------------
(* Properties.                                                             *)

(* Every variable stays in its type. *)
TypeOK ==
    /\ currentTerm \in [Server -> Nat]
    /\ voteFor \in [Server -> Server \cup {None}]
    /\ state \in [Server -> {"Follower", "Candidate", "Leader"}]
    /\ logs \in [Server -> Log]
    /\ commitIndex \in [Server -> Nat]
    /\ lastApplied \in [Server -> Nat]
    /\ nextIndex \in [Server -> [Server -> Int]]
    /\ matchIndex \in [Server -> [Server -> Int]]
    /\ grantedVotes \in [Server -> SUBSET Server]
    /\ pendingSnapshot \in [Server -> ApplyMsg]
    /\ applyCh \in [Server -> ApplyMsg]
    /\ applied \in [Server -> Seq(Nat)]
    /\ persister \in [Server -> [currentTerm : Nat, voteFor : Server \cup {None},
                                 logs : Log, snapshot : Seq(Nat)]]
    /\ msgs \subseteq Message
    /\ ballots \subseteq (Server \X Nat \X Server)

(* All entries a peer holds: those in its snapshot, then those in its log. *)
FullLog(i) == persister[i].snapshot \o Tail(logs[i].terms)

(* Both have n entries, and the same. *)
SameUpTo(s, t, n) == n <= Len(s) /\ n <= Len(t) /\ \A k \in 1 .. n : s[k] = t[k]

IsPrefixOf(s, t) == SameUpTo(s, t, Len(s))

(* A majority of the peers has persisted a vote for i in term t. *)
Won(i, t) == IsMajority({j \in Server : <<j, t, i>> \in ballots})

(* RequestVote and LaunchElection: no term ever has two leaders, not even  *)
(* one after the other: whoever leads holds a majority of the votes of its *)
(* term, and nobody else ever does.                                        *)
ElectionSafety ==
    /\ \A i \in Server : state[i] = "Leader" => Won(i, currentTerm[i])
    /\ \A i, j \in Server, b \in ballots : Won(i, b[2]) /\ Won(j, b[2]) => i = j

(* RequestVote, across crashes: a peer votes for one candidate per term. *)
OneVotePerTerm ==
    \A a, b \in ballots : a[1] = b[1] /\ a[2] = b[2] => a = b

(* RequestVote, LaunchElection and persist: a peer restarts in no later    *)
(* term than it is in, with the same vote in the same term, and never      *)
(* before a vote it gave.                                                  *)
VotesPersisted ==
    /\ \A i \in Server :
         /\ persister[i].currentTerm <= currentTerm[i]
         /\ persister[i].currentTerm = currentTerm[i] => persister[i].voteFor = voteFor[i]
    /\ \A b \in ballots :
         /\ b[2] <= persister[b[1]].currentTerm
         /\ b[2] = persister[b[1]].currentTerm => b[3] = persister[b[1]].voteFor

(* HandleRequestVoteReply, with replies of earlier elections still in      *)
(* flight: every vote that is promised or counted was given in that term.  *)
VotesReal ==
    /\ \A m \in msgs : m.type = "RequestVoteReply" /\ m.voteGranted =>
                        <<m.from, m.argsTerm, m.to>> \in ballots
    /\ \A i \in Server : state[i] = "Candidate" =>
         \A j \in grantedVotes[i] : <<j, currentTerm[i], i>> \in ballots

(* The leaders' half of ElectionSafety. *)
LeadersWon == \A i \in Server : state[i] = "Leader" => Won(i, currentTerm[i])

(* LaunchElection, RequestVote and HandleRequestVoteReply: why elections   *)
(* are safe, as an inductive invariant.                                    *)
ElectionInv == VotesPersisted /\ OneVotePerTerm /\ VotesReal /\ LeadersWon

(* AppendEntry, InstallSnapShot and Snapshot: two logs with the same term  *)
(* at an index are equal up to that index, compacted entries included.     *)
LogMatching ==
    \A i, j \in Server :
        LET a == FullLog(i)
            b == FullLog(j)
        IN  \A k \in 1 .. Lesser(Len(a), Len(b)) :
                a[k] = b[k] => \A n \in 1 .. k : a[n] = b[n]

(* The commit rule and the up-to-date check of RequestVote: a leader has   *)
(* every entry that any peer of no later term takes for committed.         *)
LeaderCompleteness ==
    \A i, l \in Server :
        state[l] = "Leader" /\ currentTerm[l] >= currentTerm[i] =>
            SameUpTo(FullLog(i), FullLog(l), commitIndex[i])

(* applier, InstallSnapShot and the services: what peers take for          *)
(* committed is the same, as far as both do, and a service has executed    *)
(* the beginning of it, whether from the log or from a snapshot.           *)
StateMachineSafety ==
    /\ \A i \in Server : /\ Len(applied[i]) <= commitIndex[i]
                         /\ IsPrefixOf(applied[i], FullLog(i))
    /\ \A i, j \in Server :
         commitIndex[i] <= commitIndex[j] => SameUpTo(FullLog(i), FullLog(j), commitIndex[i])

(* applier, InstallSnapShot and Snapshot under their separate critical     *)
(* sections: what applier sends continues what the service has executed,   *)
(* with no gap and nothing twice, and lastApplied is what the service will *)
(* have executed once the messages on their way have arrived.              *)
ApplyInOrder ==
    \A i \in Server :
        LET sent == IF applyCh[i] = NoApplyMsg THEN Len(applied[i]) ELSE applyCh[i].index
        IN  /\ applyCh[i].kind = "entry" => applyCh[i].index = Len(applied[i]) + 1
            /\ applyCh[i].kind = "snapshot" => applyCh[i].index > Len(applied[i])
            /\ IF pendingSnapshot[i] = NoApplyMsg THEN lastApplied[i] = sent
               ELSE lastApplied[i] = pendingSnapshot[i].index /\ pendingSnapshot[i].index > sent

(* The fast-forward branches of applier and the bounds checks of the log   *)
(* accesses are never needed: a log always spans what was applied and what *)
(* was committed.                                                          *)
IndexOrder ==
    \A i \in Server :
        /\ logs[i].first <= lastApplied[i]
        /\ lastApplied[i] <= commitIndex[i]
        /\ commitIndex[i] <= LastIndex(logs[i])
        /\ state[i] = "Leader" => \A j \in Server : nextIndex[i][j] \in 1 .. LastIndex(logs[i]) + 1

(* Snapshot, InstallSnapShot and persist: the saved snapshot, a snapshot   *)
(* on its way to a peer or to the service, and the dummy entry of the log  *)
(* agree on what was compacted (applySnapshot panics on an index that is   *)
(* not the snapshot's own).                                                *)
SnapshotCoversPrefix ==
    /\ \A i \in Server :
         /\ Len(persister[i].snapshot) = logs[i].first
         /\ logs[i].first > 0 => persister[i].snapshot[logs[i].first] = logs[i].terms[1]
         /\ Len(pendingSnapshot[i].data) = pendingSnapshot[i].index
         /\ applyCh[i].kind = "snapshot" => Len(applyCh[i].data) = applyCh[i].index
    /\ \A m \in msgs : m.type = "InstallSnapShot" => Len(m.data) = m.lastIncludedIndex

(* acceptNewLogEntries and HandleInstallSnapShotReply, with replies late,  *)
(* repeated or out of order: what a leader believes a follower has, the    *)
(* follower has, until it follows a later term.                            *)
MatchIndexSound ==
    \A l, j \in Server :
        state[l] = "Leader" /\ currentTerm[j] <= currentTerm[l] =>
            SameUpTo(FullLog(l), FullLog(j), matchIndex[l][j])

(* No handler, crash or restart takes back an entry a peer has taken for   *)
(* committed.                                                              *)
CommittedEntriesStay ==
    [][\A i \in Server : SameUpTo(FullLog(i), FullLog(i)', commitIndex[i])]_vars

(* commitIndex and the service of a peer only go back when it restarts. *)
NothingGoesBack ==
    [][\A i \in Server :
         commitIndex'[i] < commitIndex[i] \/ ~IsPrefixOf(applied[i], applied'[i]) => Restart(i)]_vars

(* The early returns of RequestVote, AppendEntry and InstallSnapShot: in   *)
(* between two steps, what a peer would restart with is what it has in     *)
(* memory, although InstallSnapShotBehind takes over a term unsaved.       *)
StatePersisted ==
    \A i \in Server : /\ currentTerm[i] = persister[i].currentTerm
                      /\ voteFor[i] = persister[i].voteFor
                      /\ logs[i] = persister[i].logs
=============================================================================
