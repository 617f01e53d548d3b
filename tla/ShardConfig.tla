---------------------------- MODULE ShardConfig ----------------------------
(* Configurations of the sharded service (shardkv1/shardcfg): the groups   *)
(* and the assignment of shards to them, changed by JoinBalance and        *)
(* LeaveBalance. Every group has servers of its own.                       *)
EXTENDS Integers, FiniteSets, FiniteSetsExt

CONSTANTS
    NShards,
    Gids,        \* the group identifiers, positive numbers
    MaxNum       \* bound: number of the last configuration

ASSUME ShardAssumption == NShards \in Nat /\ Gids \subseteq Nat \ {0} /\ MaxNum \in Nat

VARIABLES
    Num, Shards, Groups,   \* the fields of ShardConfig; of Groups, the gids
    ok                     \* what the last JoinBalance or LeaveBalance returned

vars == <<Num, Shards, Groups, ok>>

Shard == 0 .. NShards - 1

(* MakeShardConfig: 0 is no group's gid. *)
Init ==
    /\ Num = 0
    /\ Shards = [s \in Shard |-> 0]
    /\ Groups = {}
    /\ ok = TRUE

-----------------------------------------------------------------------------
(* Rebalance.                                                              *)

CountOf(shards, g) == Cardinality({s \in Shard : shards[s] = g})

(* analyze goes through the groups in order: the first one counts. *)
analyze(shards, groups) ==
    LET counts == [g \in groups |-> CountOf(shards, g)]
        mn == Max({counts[g] : g \in groups})
        ln == Min({counts[g] : g \in groups})
    IN  [mg |-> Min({g \in groups : counts[g] = mn}), mn |-> mn,
         lg |-> Min({g \in groups : counts[g] = ln}), ln |-> ln]

least(shards, groups) == analyze(shards, groups).lg

(* The shards of no group, in order, each to the group with the least. *)
RECURSIVE AssignUnassigned(_, _)
AssignUnassigned(shards, groups) ==
    LET left == {s \in Shard : shards[s] \notin groups}
    IN  IF left = {} THEN shards
        ELSE AssignUnassigned([shards EXCEPT ![Min(left)] = least(shards, groups)], groups)

(* One shard after the other from the most to the least loaded group. *)
RECURSIVE MoveShards(_, _)
MoveShards(shards, groups) ==
    LET a == analyze(shards, groups)
    IN  IF a.mn < a.ln + 2 THEN shards
        ELSE MoveShards([shards EXCEPT ![Min({s \in Shard : shards[s] = a.mg})] = a.lg], groups)

(* Seeded fault: shards are only assigned, not moved. *)
RebalanceNoMove(shards, groups) ==
    IF groups = {} THEN [s \in Shard |-> 0] ELSE AssignUnassigned(shards, groups)

(* Seeded fault: the shards are dealt out anew. *)
RebalanceAnew(shards, groups) ==
    IF groups = {} THEN [s \in Shard |-> 0]
    ELSE AssignUnassigned([s \in Shard |-> 0], groups)

Rebalance(shards, groups) ==
    IF groups = {} THEN [s \in Shard |-> 0]
    ELSE MoveShards(AssignUnassigned(shards, groups), groups)

-----------------------------------------------------------------------------
(* Join refuses a gid that is there, but keeps the groups of the map that  *)
(* it came across before; a map has no order.                              *)
JoinBalance(gids) ==
    /\ gids # {}
    /\ \/ /\ gids \cap Groups = {}
          /\ Num < MaxNum
          /\ Groups' = Groups \cup gids
          /\ Num' = Num + 1
          /\ Shards' = Rebalance(Shards, Groups')
          /\ ok' = TRUE
       \/ /\ gids \cap Groups # {}
          /\ \E first \in SUBSET (gids \ Groups) : Groups' = Groups \cup first
          /\ ok' = FALSE
          /\ UNCHANGED <<Num, Shards>>

(* Leave refuses a gid that is not there, and has deleted the ones before  *)
(* it in its argument.                                                     *)
LeaveBalance(gids) ==
    /\ gids # {}
    /\ \/ /\ gids \subseteq Groups
          /\ Num < MaxNum
          /\ Groups' = Groups \ gids
          /\ Num' = Num + 1
          /\ Shards' = Rebalance(Shards, Groups')
          /\ ok' = TRUE
       \/ /\ ~(gids \subseteq Groups)
          /\ \E first \in SUBSET (gids \cap Groups) : Groups' = Groups \ first
          /\ ok' = FALSE
          /\ UNCHANGED <<Num, Shards>>

Next == \E gids \in SUBSET Gids : JoinBalance(gids) \/ LeaveBalance(gids)

Spec == Init /\ [][Next]_vars

-----------------------------------------------------------------------------
(* Properties.                                                             *)

(* What CheckConfig demands: no shard without a group, and no group with   *)
(* two shards more than another.                                           *)
CheckConfig ==
    Groups # {} =>
        /\ \A s \in Shard : Shards[s] \in Groups
        /\ \A g, h \in Groups : CountOf(Shards, g) <= CountOf(Shards, h) + 1

(* JoinBalance and LeaveBalance that return true leave a configuration     *)
(* that CheckConfig accepts, also after refused calls that changed the     *)
(* groups half-way.                                                        *)
Balanced == ok => CheckConfig

(* Rebalance moves no shard without need: in a configuration as            *)
(* CheckConfig accepts it, a shard moves only away from a group that       *)
(* leaves or to a group that joins.                                        *)
MovesNeeded ==
    [][CheckConfig =>
         \A s \in Shard : Shards'[s] = Shards[s] \/ Shards[s] \notin Groups'
                                                \/ Shards'[s] \notin Groups]_vars
=============================================================================
