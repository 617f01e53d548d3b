----------------------------- MODULE RaftValues -----------------------------
(***************************************************************************)
(* The values of a Raft group: logs, messages, and what raft1/raft.go      *)
(* computes from a log (raft1/raft.go, raft1/util.go).                     *)
(***************************************************************************)
EXTENDS Integers, Sequences, FiniteSets

CONSTANT Server      \* the peers

Log == [first : Nat, terms : Seq(Nat) \ {<<>>}]

NoApplyMsg == [kind |-> "none", index |-> 0, data |-> <<>>]
ApplyMsg == [kind : {"none", "entry", "snapshot"}, index : Nat, data : Seq(Nat)]

RequestVoteArgs ==
    [type : {"RequestVote"}, from : Server, to : Server, term : Nat,
     lastLogIndex : Nat, lastLogTerm : Nat]
RequestVoteReply ==
    [type : {"RequestVoteReply"}, from : Server, to : Server, argsTerm : Nat,
     term : Nat, voteGranted : BOOLEAN]
AppendEntryArgs ==
    [type : {"AppendEntry"}, from : Server, to : Server, term : Nat,
     prevLogIndex : Int, prevLogTerm : Nat, entries : Seq(Nat), leaderCommit : Nat]
AppendEntryReply ==
    [type : {"AppendEntryReply"}, from : Server, to : Server, argsTerm : Nat,
     prevLogIndex : Int, entryCount : Nat, term : Nat, success : BOOLEAN,
     conflictIndex : Int, conflictTerm : Int]
InstallSnapShotArgs ==
    [type : {"InstallSnapShot"}, from : Server, to : Server, term : Nat,
     lastIncludedIndex : Nat, lastIncludedTerm : Nat, data : Seq(Nat)]
InstallSnapShotReply ==
    [type : {"InstallSnapShotReply"}, from : Server, to : Server, argsTerm : Nat,
     lastIncludedIndex : Nat, term : Nat]
Message ==
    RequestVoteArgs \cup RequestVoteReply \cup AppendEntryArgs \cup AppendEntryReply
      \cup InstallSnapShotArgs \cup InstallSnapShotReply

Lesser(a, b) == IF a < b THEN a ELSE b
Greater(a, b) == IF a < b THEN b ELSE a

(* Seeded fault: half of the peers is taken for a majority. *)
IsMajorityHalf(S) == Cardinality(S) >= Cardinality(Server) \div 2

IsMajority(S) == Cardinality(S) > Cardinality(Server) \div 2

(* rf.logs *)
LastIndex(log) == log.first + Len(log.terms) - 1
HasIndex(log, k) == log.first <= k /\ k <= LastIndex(log)
TermAt(log, k) == log.terms[k - log.first + 1]
LastTerm(log) == log.terms[Len(log.terms)]
EntriesFrom(log, k) == SubSeq(log.terms, k - log.first + 1, Len(log.terms))
SingleLog(index, term) == [first |-> index, terms |-> <<term>>]

isLogMatched(log, index, term) == HasIndex(log, index) /\ term = TermAt(log, index)

(* Seeded fault: the length of the logs is compared, not their last terms. *)
isLogUpdateToDateByLength(log, index, term) == index >= LastIndex(log)

isLogUpdateToDate(log, index, term) ==
    \/ term > LastTerm(log)
    \/ term = LastTerm(log) /\ index >= LastIndex(log)

(* The positions at which the entries of m are missing from log or have    *)
(* another term; the append loop acts at the first of them.                *)
Mismatches(m, log) ==
    {n \in 1 .. Len(m.entries) : ~isLogMatched(log, m.prevLogIndex + n, m.entries[n])}

(* Seeded fault: conflicting entries are kept, missing ones appended. *)
AppendEntriesNoTruncate(m, log) ==
    [log EXCEPT !.terms =
        @ \o SubSeq(m.entries, LastIndex(log) - m.prevLogIndex + 1, Len(m.entries))]

(* The log with the entries from the first mismatch on replaced by m's:    *)
(* those before the mismatch are equal to m's, so taking all of m's is the *)
(* same log.                                                               *)
AppendEntries(m, log) ==
    IF Mismatches(m, log) = {} THEN log
    ELSE [log EXCEPT !.terms = SubSeq(@, 1, m.prevLogIndex - log.first + 1) \o m.entries]

(* rf.logs after a snapshot was installed. *)
LogAfterSnapshot(log, index, term) ==
    IF /\ index < LastIndex(log)
       /\ isLogMatched(log, index, term)
    THEN [first |-> index, terms |-> <<term>> \o EntriesFrom(log, index + 1)]
    ELSE IF index >= log.first THEN SingleLog(index, term)
    ELSE log

(* sort.Search for the first entry in [log.first, hi) whose term is at     *)
(* least t: the number of entries before hi with a smaller term.           *)
SearchTerm(log, hi, t) ==
    log.first + Cardinality({k \in log.first .. (hi - 1) : TermAt(log, k) < t})

(* The loop of Make, which runs before readPersist: with an empty log. *)
NewMatchIndex == [peer \in Server |-> 0]
NewNextIndex == [peer \in Server |-> LastIndex(SingleLog(0, 0)) + 1]
=============================================================================
