---------------------------- MODULE RaftProgress ----------------------------
(* Raft on a network that may lose and delay what it is given, but carries *)
(* a message that is sent again and again in the end, and with peers that  *)
(* stop crashing in the last term: whether a leader then gets its log to   *)
(* the services of all peers.                                              *)
EXTENDS Raft

(* The copy of m that is delivered is the last one: a request is in flight *)
(* again only after the leader has sent it again.                          *)
Once(m) == m \notin msgs'

(* doSendAppendEntry after a call returned to a peer that no longer leads  *)
(* in the term of the call.                                                *)
DiscardReply(m) ==
    /\ m.type \in {"AppendEntryReply", "InstallSnapShotReply"}
    /\ ~isValidLeader(m.to, m.argsTerm)
    /\ Lose(m)

ProgressNext ==
    \/ \E i \in Server : LaunchElection(i)
    \/ \E i \in Server : Start(i)
    \/ \E i, j \in Server : doSendAppendEntry(i, j)
    \/ \E i \in Server : applier(i)
    \/ \E i \in Server : reader(i)
    \/ \E i \in Server : Snapshot(i)
    \/ \E i \in Server : currentTerm[i] < MaxTerm /\ Restart(i)
    \/ \E m \in msgs : RequestVote(m)
    \/ \E m \in msgs : HandleRequestVoteReply(m)
    \/ \E m \in msgs : AppendEntry(m) /\ Once(m)
    \/ \E m \in msgs : HandleAppendEntryReply(m) /\ Once(m)
    \/ \E m \in msgs : InstallSnapShot(m) /\ Once(m)
    \/ \E m \in msgs : HandleInstallSnapShotReply(m) /\ Once(m)
    \/ \E m \in msgs : Lose(m)

(* Heartbeats are sent again and again (ticker); of what is sent again and *)
(* again the network delivers some (labrpc drops one in ten); goroutines   *)
(* that can go on do.                                                      *)
Fairness ==
    /\ WF_vars(\E i, j \in Server : doSendAppendEntry(i, j))
    /\ SF_vars(\E m \in msgs : AppendEntry(m) /\ Once(m))
    /\ SF_vars(\E m \in msgs : InstallSnapShot(m) /\ Once(m))
    /\ SF_vars(\E m \in msgs : HandleAppendEntryReply(m) /\ Once(m))
    /\ SF_vars(\E m \in msgs : HandleInstallSnapShotReply(m) /\ Once(m))
    /\ WF_vars(\E m \in msgs : RequestVote(m) \/ HandleRequestVoteReply(m) \/ DiscardReply(m))
    /\ WF_vars(\E i \in Server : applier(i) \/ reader(i))

ProgressSpec == Init /\ [][ProgressNext]_vars /\ Fairness

(* AppendEntry says of a leader whose request begins before the follower's *)
(* snapshot: "tell it to send a snapshot". Then no exchange of refusals    *)
(* and retries goes on for ever: a leader that stays one, and has an entry *)
(* of its term, gets every entry executed by every service, whether or not *)
(* its own service compacts.                                               *)
CatchUp ==
    \A l \in Server :
        <>[](/\ state[l] = "Leader" /\ currentTerm[l] = MaxTerm
             /\ LastTerm(logs[l]) = currentTerm[l])
          => <>[](\A j \in Server : applied[j] = FullLog(l))
=============================================================================
