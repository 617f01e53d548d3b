------------------------------- MODULE MCRaft -------------------------------
(* Instances of Raft for TLC: groups of two and three peers. *)
EXTENDS RaftProgress

CONSTANTS s1, s2, s3

Peers12 == {s1, s2}
Peers123 == {s1, s2, s3}
Peer2 == {s2}
NoPeer == {}

(* Elections: two peers in turn, or both in term 2. *)
InTurn == {<<s1, 1>>, <<s2, 2>>, <<s1, 3>>, <<s2, 4>>}
Contested == {<<s1, 1>>, <<s1, 2>>, <<s2, 2>>}

(* What the rest of a behaviour depends on: nextIndex and matchIndex are   *)
(* read by leaders only and grantedVotes by candidates only, and ballots   *)
(* is a history variable.                                                  *)
LiveState ==
    <<currentTerm, voteFor, state, logs, commitIndex, lastApplied, pendingSnapshot,
      applyCh, applied, persister, msgs,
      [i \in Server |-> IF state[i] = "Leader" THEN <<nextIndex[i], matchIndex[i]>> ELSE <<>>],
      [i \in Server |-> IF state[i] = "Candidate" THEN grantedVotes[i] ELSE {}]>>

(* The same with ballots, for properties of the votes. *)
LiveVotes == <<LiveState, ballots>>
=============================================================================
