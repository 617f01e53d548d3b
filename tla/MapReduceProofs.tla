-------------------------- MODULE MapReduceProofs --------------------------
(* Safety of the MapReduce coordinator, for any number of workers, map     *)
(* tasks and reduce tasks.                                                 *)
EXTENDS MapReduce, FiniteSetTheorems, TLAPS

(* The provers to try, with their time limits. *)
USE ZenonT(1), SMT, Zenon, SMTT(30), ZenonT(30)

MapId == 0 .. NMap - 1
ReduceId == 0 .. NReduce - 1
Type == {"Map", "Reduce"}

(* The elements of a sequence, and that none is there twice. *)
Elems(s) == {s[i] : i \in 1 .. Len(s)}
Distinct(s) == \A i, j \in 1 .. Len(s) : s[i] = s[j] => i = j

(* What a worker holds between two steps. *)
WorkerState ==
    {Idle, Gone}
        \cup [phase : {"map", "write1", "write2"}, task : MapTask]
        \cup [phase : {"reduce"}, task : ReduceTask, left : Seq(MapId), whole : SUBSET MapId]
        \cup [phase : {"finish"}, task : Task]

WorkerInv == worker \in [Workers -> WorkerState]

(* A channel holds the idle tasks of its type, each once. *)
IdleTasks(type) == {t \in Task : t.type = type /\ status[t] = "Idle"}

ChanInv ==
    \A type \in Type : Distinct(chan[type]) /\ Elems(chan[type]) = IdleTasks(type)

(* A timer runs for a task in process, and may still run for a completed   *)
(* one.                                                                    *)
TimerInv ==
    \A t \in Task :
        /\ status[t] = "Idle" => timers[t] = 0
        /\ status[t] = "InProcess" => timers[t] = 1
        /\ status[t] = "Completed" => timers[t] \in {0, 1}

(* The map tasks whose files are listed are the completed ones. *)
CompletedMaps == {m \in MapId : status[[type |-> "Map", id |-> m]] = "Completed"}

ListedInv ==
    \A r \in ReduceId : Distinct(interFiles[r]) /\ Elems(interFiles[r]) = CompletedMaps

(* The reduce phase starts once, after the map phase. *)
PhaseInv == isAllMapWorkerFinished => CompletedMaps = MapId

MapReduceInv == TypeOK /\ WorkerInv /\ ChanInv /\ TimerInv /\ ListedInv /\ PhaseInv

-----------------------------------------------------------------------------
(* Sequences without repetition.                                           *)

(* What a receive from a channel leaves. *)
LEMMA TailDistinct ==
    ASSUME NEW S, NEW s \in Seq(S), s # <<>>, Distinct(s)
    PROVE  /\ Head(s) \in Elems(s)
           /\ Tail(s) \in Seq(S)
           /\ Distinct(Tail(s))
           /\ Elems(Tail(s)) = Elems(s) \ {Head(s)}
<1>1. /\ Tail(s) \in Seq(S)
      /\ Len(s) \in Nat /\ Len(s) > 0
      /\ Len(Tail(s)) = Len(s) - 1
      /\ \A i \in 1 .. Len(s) - 1 : Tail(s)[i] = s[i + 1]
      /\ Head(s) = s[1]
  OBVIOUS
<1>2. Head(s) \in Elems(s)
  BY <1>1 DEF Elems
<1>3. Distinct(Tail(s))
  BY <1>1 DEF Distinct
<1>4. ASSUME NEW x \in Elems(Tail(s))
      PROVE  x \in Elems(s) \ {Head(s)}
  <2>1. PICK i \in 1 .. Len(s) - 1 : x = s[i + 1]
    BY <1>1, <1>4 DEF Elems
  <2> QED
    BY <1>1, <2>1 DEF Elems, Distinct
<1>5. ASSUME NEW x \in Elems(s), x # Head(s)
      PROVE  x \in Elems(Tail(s))
  <2>1. PICK i \in 1 .. Len(s) : x = s[i]
    BY <1>5 DEF Elems
  <2>2. i - 1 \in 1 .. Len(s) - 1 /\ Tail(s)[i - 1] = s[i]
    BY <1>1, <1>5, <2>1
  <2> QED
    BY <1>1, <2>1, <2>2 DEF Elems
<1> QED
  BY <1>1, <1>2, <1>3, <1>4, <1>5

(* What a send of something new adds. *)
LEMMA AppendDistinct ==
    ASSUME NEW S, NEW s \in Seq(S), NEW x \in S, Distinct(s), x \notin Elems(s)
    PROVE  /\ Append(s, x) \in Seq(S)
           /\ Distinct(Append(s, x))
           /\ Elems(Append(s, x)) = Elems(s) \cup {x}
<1>1. /\ Append(s, x) \in Seq(S)
      /\ Len(s) \in Nat
      /\ Len(Append(s, x)) = Len(s) + 1
      /\ \A i \in 1 .. Len(s) : Append(s, x)[i] = s[i]
      /\ Append(s, x)[Len(s) + 1] = x
  OBVIOUS
<1>2. Distinct(Append(s, x))
  BY <1>1 DEF Distinct, Elems
<1>3. ASSUME NEW y \in Elems(Append(s, x))
      PROVE  y \in Elems(s) \cup {x}
  BY <1>1, <1>3 DEF Elems
<1>4. ASSUME NEW y \in Elems(s)
      PROVE  y \in Elems(Append(s, x))
  BY <1>1, <1>4 DEF Elems
<1>5. x \in Elems(Append(s, x))
  BY <1>1 DEF Elems
<1> QED
  BY <1>1, <1>2, <1>3, <1>4, <1>5

-----------------------------------------------------------------------------
(* Tasks and worker states.                                                *)

(* The two kinds of task. *)
LEMMA TaskFacts ==
    /\ \A t \in Task : t.type \in Type
    /\ \A t \in Task : t.type = "Map" => t \in MapTask
    /\ \A t \in Task : t.type = "Reduce" => t \in ReduceTask
    /\ \A t \in MapTask : t.id \in MapId /\ t.type = "Map" /\ t \in Task
    /\ \A t \in MapTask : t = [type |-> "Map", id |-> t.id]
    /\ \A t \in ReduceTask : t.id \in ReduceId /\ t.type = "Reduce" /\ t \in Task
    /\ \A t \in ReduceTask : t = [type |-> "Reduce", id |-> t.id]
    /\ \A m \in MapId : [type |-> "Map", id |-> m] \in MapTask
    /\ \A r \in ReduceId : [type |-> "Reduce", id |-> r] \in ReduceTask
BY DEF Task, MapTask, ReduceTask, MapId, ReduceId, Type

(* The phase says what a worker holds. *)
LEMMA WorkerFacts ==
    ASSUME NEW x \in WorkerState
    PROVE  /\ x.phase \in {"map", "write1", "write2"} =>
                 x \in [phase : {"map", "write1", "write2"}, task : MapTask]
           /\ x.phase = "reduce" =>
                 x \in [phase : {"reduce"}, task : ReduceTask, left : Seq(MapId), whole : SUBSET MapId]
           /\ x.phase = "finish" => x \in [phase : {"finish"}, task : Task]
BY DEF WorkerState, Idle, Gone

(* The coordinator's part of the invariant depends on the coordinator only. *)
LEMMA CoordinatorFrame ==
    ASSUME MapReduceInv, UNCHANGED coordinator
    PROVE  ChanInv' /\ TimerInv' /\ ListedInv' /\ PhaseInv'
BY DEF MapReduceInv, coordinator, ChanInv, TimerInv, ListedInv, PhaseInv, IdleTasks,
       CompletedMaps, Elems, Distinct

(* The tasks of one type, in the order MakeCoordinator sends them. *)
LEMMA NumberedTasks ==
    ASSUME NEW type, NEW n \in Nat, NEW s,
           s = [i \in 1 .. n |-> [type |-> type, id |-> i - 1]]
    PROVE  /\ s \in Seq([type : {type}, id : 0 .. n - 1])
           /\ Distinct(s)
           /\ Elems(s) = [type : {type}, id : 0 .. n - 1]
<1> DEFINE T == [type : {type}, id : 0 .. n - 1]
<1>1. \A i \in 1 .. n : i - 1 \in 0 .. n - 1 /\ s[i] = [type |-> type, id |-> i - 1]
  OBVIOUS
<1>2. \A i \in 1 .. n : s[i] \in T /\ s[i].id = i - 1
  BY <1>1
<1>3. s \in Seq(T) /\ Len(s) = n
  BY <1>2
<1>4. Distinct(s)
  <2> SUFFICES ASSUME NEW i \in 1 .. n, NEW j \in 1 .. n, s[i] = s[j] PROVE i = j
    BY <1>3 DEF Distinct
  <2>1. i - 1 = j - 1
    BY <1>2
  <2> QED
    BY <2>1
<1>5. ASSUME NEW t \in T PROVE t \in Elems(s)
  <2>1. t = [type |-> type, id |-> t.id] /\ t.id \in 0 .. n - 1
    OBVIOUS
  <2>2. t.id + 1 \in 1 .. n /\ (t.id + 1) - 1 = t.id
    BY <2>1
  <2>3. s[t.id + 1] = t
    BY <1>1, <2>1, <2>2
  <2> QED
    BY <1>3, <2>2, <2>3 DEF Elems
<1>6. ASSUME NEW t \in Elems(s) PROVE t \in T
  BY <1>2, <1>3, <1>6 DEF Elems
<1> QED
  BY <1>3, <1>4, <1>5, <1>6

(* MakeCoordinator puts every task in its channel. *)
LEMMA InitInv == Init => MapReduceInv
<1> SUFFICES ASSUME Init PROVE MapReduceInv
  OBVIOUS
<1>1. /\ chan["Map"] = [i \in 1 .. NMap |-> [type |-> "Map", id |-> i - 1]]
      /\ chan["Reduce"] = [i \in 1 .. NReduce |-> [type |-> "Reduce", id |-> i - 1]]
      /\ chan = [type \in Type |-> chan[type]]
  BY DEF Init, Type
<1>2. /\ chan["Map"] \in Seq(MapTask) /\ Distinct(chan["Map"]) /\ Elems(chan["Map"]) = MapTask
      /\ chan["Reduce"] \in Seq(ReduceTask) /\ Distinct(chan["Reduce"])
      /\ Elems(chan["Reduce"]) = ReduceTask
  BY <1>1, NumberedTasks, SizesAssumption DEF MapTask, ReduceTask
<1>3. chan["Map"] \in Seq(Task) /\ chan["Reduce"] \in Seq(Task)
  BY <1>2 DEF Task
<1>4. chan \in [Type -> Seq(Task)]
  BY <1>1, <1>3 DEF Type
<1>5. TypeOK
  <2>1. interFiles \in [ReduceId -> Seq(MapId)]
    BY DEF Init, ReduceId
  <2>2. /\ file \in [MapId -> [ReduceId -> SUBSET WholeFile]]
        /\ out \in [ReduceId -> SUBSET SUBSET MapId]
    BY DEF Init, MapId, ReduceId
  <2>3. /\ status \in [Task -> {"Idle", "InProcess", "Completed"}]
        /\ timers \in [Task -> Nat] /\ slow \in Nat
        /\ isAllMapWorkerFinished \in BOOLEAN /\ done \in BOOLEAN
    BY DEF Init
  <2> QED
    BY <1>4, <2>1, <2>2, <2>3 DEF TypeOK, Type, MapId, ReduceId
<1>6. WorkerInv
  BY DEF Init, WorkerInv, WorkerState
<1>7. IdleTasks("Map") = MapTask /\ IdleTasks("Reduce") = ReduceTask
  <2>1. \A t \in Task : status[t] = "Idle"
    BY DEF Init
  <2> QED
    BY <2>1, TaskFacts DEF IdleTasks
<1>8. ChanInv
  BY <1>2, <1>7 DEF ChanInv, Type
<1>9. TimerInv /\ PhaseInv
  BY DEF Init, TimerInv, PhaseInv
<1>10. ListedInv
  <2>1. CompletedMaps = {}
    BY TaskFacts DEF CompletedMaps, Init
  <2>2. \A r \in ReduceId : interFiles[r] = <<>>
    BY DEF Init, ReduceId
  <2> QED
    BY <2>1, <2>2 DEF ListedInv, Distinct, Elems
<1> QED
  BY <1>5, <1>6, <1>8, <1>9, <1>10 DEF MapReduceInv

-----------------------------------------------------------------------------
(* One lemma for each step that changes the coordinator.                   *)

(* The type invariant with the names of this module. *)
LEMMA Types ==
    TypeOK <=>
    /\ status \in [Task -> {"Idle", "InProcess", "Completed"}]
    /\ chan \in [Type -> Seq(Task)]
    /\ isAllMapWorkerFinished \in BOOLEAN
    /\ interFiles \in [ReduceId -> Seq(MapId)]
    /\ timers \in [Task -> Nat]
    /\ done \in BOOLEAN
    /\ file \in [MapId -> [ReduceId -> SUBSET WholeFile]]
    /\ out \in [ReduceId -> SUBSET SUBSET MapId]
    /\ slow \in Nat
BY DEF TypeOK, Type, MapId, ReduceId

(* A step that neither completes a task nor takes the completion back      *)
(* keeps what is known of the files listed and of the phase.               *)
LEMMA SameCompleted ==
    ASSUME ListedInv, PhaseInv, UNCHANGED <<interFiles, isAllMapWorkerFinished>>,
           \A t \in Task : status'[t] = "Completed" <=> status[t] = "Completed"
    PROVE  ListedInv' /\ PhaseInv'
<1>1. CompletedMaps' = CompletedMaps
  BY TaskFacts DEF CompletedMaps
<1> QED
  BY <1>1 DEF ListedInv, PhaseInv, Elems, Distinct

(* GetTask takes an idle task out of its channel and starts its timer. *)
LEMMA GetTaskStep ==
    ASSUME MapReduceInv, NEW w \in Workers, GetTask(w)
    PROVE  MapReduceInv'
<1> DEFINE type == IF isAllMapWorkerFinished THEN "Reduce" ELSE "Map"
           t == Head(chan[type])
<1>0. /\ TypeOK /\ WorkerInv /\ ChanInv /\ TimerInv /\ ListedInv /\ PhaseInv
      /\ type \in Type
  BY DEF MapReduceInv, Type
<1>1. /\ chan[type] # <<>>
      /\ chan' = [chan EXCEPT ![type] = Tail(@)]
      /\ status' = [status EXCEPT ![t] = "InProcess"]
      /\ timers' = [timers EXCEPT ![t] = @ + 1]
      /\ worker' = [worker EXCEPT ![w] =
            IF type = "Map" THEN [phase |-> "map", task |-> t]
            ELSE [phase |-> "reduce", task |-> t, left |-> interFiles[t.id], whole |-> {}]]
      /\ UNCHANGED <<isAllMapWorkerFinished, interFiles, done, file, out, slow>>
  BY DEF GetTask
<1>2. /\ chan[type] \in Seq(Task) /\ Distinct(chan[type])
      /\ Elems(chan[type]) = IdleTasks(type)
  BY <1>0, Types DEF ChanInv
<1>3. /\ t \in Elems(chan[type])
      /\ Tail(chan[type]) \in Seq(Task)
      /\ Distinct(Tail(chan[type]))
      /\ Elems(Tail(chan[type])) = Elems(chan[type]) \ {t}
  <2> HIDE DEF type
  <2> QED
    BY <1>1, <1>2, TailDistinct
<1>4. t \in Task /\ t.type = type /\ status[t] = "Idle" /\ timers[t] = 0
  BY <1>0, <1>2, <1>3 DEF IdleTasks, TimerInv
<1> HIDE DEF type, t
<1>5. /\ chan'[type] = Tail(chan[type])
      /\ \A y \in Type : y # type => chan'[y] = chan[y]
      /\ chan' \in [Type -> Seq(Task)]
  BY <1>0, <1>1, <1>3, Types
<1>6. /\ status'[t] = "InProcess" /\ timers'[t] = 1
      /\ \A u \in Task : u # t => status'[u] = status[u] /\ timers'[u] = timers[u]
      /\ status' \in [Task -> {"Idle", "InProcess", "Completed"}]
      /\ timers' \in [Task -> Nat]
  BY <1>0, <1>1, <1>4, Types
<1>7. TypeOK'
  BY <1>0, <1>1, <1>5, <1>6, Types DEF TypeOK, Type
<1>8. WorkerInv'
  <2>1. CASE type = "Map"
    BY <1>0, <1>1, <1>4, <2>1, TaskFacts DEF WorkerInv, WorkerState
  <2>2. CASE type = "Reduce"
    <3>1. t \in ReduceTask /\ interFiles[t.id] \in Seq(MapId)
      BY <1>0, <1>4, <2>2, TaskFacts, Types
    <3>2. [phase |-> "reduce", task |-> t, left |-> interFiles[t.id], whole |-> {}] \in WorkerState
      BY <3>1 DEF WorkerState
    <3> QED
      BY <1>0, <1>1, <2>2, <3>2 DEF WorkerInv
  <2> QED
    BY <1>0, <2>1, <2>2 DEF Type
<1>9. ChanInv'
  <2>1. \A y \in Type : IdleTasks(y)' = IF y = type THEN IdleTasks(y) \ {t} ELSE IdleTasks(y)
    BY <1>4, <1>6 DEF IdleTasks
  <2> SUFFICES ASSUME NEW y \in Type
               PROVE  Distinct(chan'[y]) /\ Elems(chan'[y]) = IdleTasks(y)'
    BY DEF ChanInv, Distinct, Elems
  <2>2. CASE y = type
    BY <1>2, <1>3, <1>5, <2>1, <2>2
  <2>3. CASE y # type
    BY <1>0, <1>5, <2>1, <2>3 DEF ChanInv
  <2> QED
    BY <2>2, <2>3
<1>10. TimerInv'
  BY <1>0, <1>4, <1>6 DEF TimerInv
<1>11. ListedInv' /\ PhaseInv'
  BY <1>0, <1>1, <1>4, <1>6, SameCompleted
<1> QED
  BY <1>7, <1>8, <1>9, <1>10, <1>11 DEF MapReduceInv

(* CheckFinished drops its timer, and sends a task that is not completed   *)
(* to its channel, where it is not yet.                                    *)
LEMMA CheckFinishedStep ==
    ASSUME MapReduceInv, NEW t \in Task, CheckFinished(t)
    PROVE  MapReduceInv'
<1>0. /\ TypeOK /\ WorkerInv /\ ChanInv /\ TimerInv /\ ListedInv /\ PhaseInv
      /\ t.type \in Type
  BY TaskFacts DEF MapReduceInv
<1>1. /\ timers[t] > 0
      /\ timers' = [timers EXCEPT ![t] = @ - 1]
      /\ UNCHANGED <<isAllMapWorkerFinished, interFiles, done, worker, file, out>>
      /\ slow' = slow \/ slow' = slow + 1
  BY DEF CheckFinished
<1>2. status[t] \in {"InProcess", "Completed"} /\ timers[t] = 1
  BY <1>0, <1>1, Types DEF TimerInv
<1>3. /\ timers'[t] = 0
      /\ \A u \in Task : u # t => timers'[u] = timers[u]
      /\ timers' \in [Task -> Nat]
      /\ slow' \in Nat
  BY <1>0, <1>1, <1>2, Types
<1>4. WorkerInv'
  BY <1>0, <1>1 DEF WorkerInv
<1>5. CASE status[t] = "Completed"
  <2>1. UNCHANGED <<status, chan>>
    BY <1>5 DEF CheckFinished
  <2>2. TypeOK'
    BY <1>0, <1>1, <1>3, <2>1 DEF TypeOK
  <2>3. ChanInv'
    BY <1>0, <2>1 DEF ChanInv, IdleTasks, Distinct, Elems
  <2>4. TimerInv'
    BY <1>0, <1>3, <1>5, <2>1 DEF TimerInv
  <2>5. ListedInv' /\ PhaseInv'
    BY <1>0, <1>1, <2>1, SameCompleted
  <2> QED
    BY <1>4, <2>2, <2>3, <2>4, <2>5 DEF MapReduceInv
<1>6. CASE status[t] # "Completed"
  <2>1. /\ status' = [status EXCEPT ![t] = "Idle"]
        /\ chan' = [chan EXCEPT ![t.type] = Append(@, t)]
    BY <1>6 DEF CheckFinished
  <2>2. /\ status'[t] = "Idle"
        /\ \A u \in Task : u # t => status'[u] = status[u]
        /\ status' \in [Task -> {"Idle", "InProcess", "Completed"}]
    BY <1>0, <2>1, Types
  <2>3. /\ chan[t.type] \in Seq(Task) /\ Distinct(chan[t.type])
        /\ t \notin Elems(chan[t.type])
    BY <1>0, <1>2, Types DEF ChanInv, IdleTasks
  <2>4. /\ Append(chan[t.type], t) \in Seq(Task)
        /\ Distinct(Append(chan[t.type], t))
        /\ Elems(Append(chan[t.type], t)) = Elems(chan[t.type]) \cup {t}
    BY <2>3, AppendDistinct
  <2>5. /\ chan'[t.type] = Append(chan[t.type], t)
        /\ \A y \in Type : y # t.type => chan'[y] = chan[y]
        /\ chan' \in [Type -> Seq(Task)]
    BY <1>0, <2>1, <2>4, Types
  <2>6. TypeOK'
    BY <1>0, <1>1, <1>3, <2>2, <2>5 DEF TypeOK, Type
  <2>7. ChanInv'
    <3>1. /\ IdleTasks(t.type)' = IdleTasks(t.type) \cup {t}
          /\ \A y \in Type : y # t.type => IdleTasks(y)' = IdleTasks(y)
      BY <2>2 DEF IdleTasks
    <3> SUFFICES ASSUME NEW y \in Type
                 PROVE  Distinct(chan'[y]) /\ Elems(chan'[y]) = IdleTasks(y)'
      BY DEF ChanInv, Distinct, Elems
    <3>2. CASE y = t.type
      BY <1>0, <2>4, <2>5, <3>1, <3>2 DEF ChanInv
    <3>3. CASE y # t.type
      BY <1>0, <2>5, <3>1, <3>3 DEF ChanInv
    <3> QED
      BY <3>2, <3>3
  <2>8. TimerInv'
    BY <1>0, <1>3, <2>2 DEF TimerInv
  <2>9. ListedInv' /\ PhaseInv'
    BY <1>0, <1>1, <1>6, <2>2, SameCompleted
  <2> QED
    BY <1>4, <2>6, <2>7, <2>8, <2>9 DEF MapReduceInv
<1> QED
  BY <1>5, <1>6

(* FinishedTask counts a report about a task in process, and lists the     *)
(* files of a map task, which are not listed yet.                          *)
LEMMA FinishedTaskStep ==
    ASSUME MapReduceInv, NEW w \in Workers, FinishedTask(w)
    PROVE  MapReduceInv'
<1> DEFINE t == worker[w].task
<1>0. TypeOK /\ WorkerInv /\ ChanInv /\ TimerInv /\ ListedInv /\ PhaseInv
  BY DEF MapReduceInv
<1>1. /\ worker[w].phase = "finish"
      /\ worker' = [worker EXCEPT ![w] = Idle]
      /\ UNCHANGED <<chan, isAllMapWorkerFinished, timers, done, file, out, slow>>
      /\ \/ /\ status[t] = "InProcess"
            /\ status' = [status EXCEPT ![t] = "Completed"]
            /\ interFiles' = IF t.type = "Map"
                             THEN [r \in DOMAIN interFiles |-> Append(interFiles[r], t.id)]
                             ELSE interFiles
         \/ UNCHANGED <<status, interFiles>>
  BY DEF FinishedTask
<1>2. t \in Task
  BY <1>0, <1>1, WorkerFacts DEF WorkerInv
<1>3. WorkerInv'
  BY <1>0, <1>1 DEF WorkerInv, WorkerState
<1> HIDE DEF t
<1>4. CASE UNCHANGED <<status, interFiles>>
  <2>1. UNCHANGED coordinator
    BY <1>1, <1>4 DEF coordinator
  <2>2. TypeOK'
    BY <1>0, <1>1, <1>4 DEF TypeOK
  <2> QED
    BY <1>3, <2>1, <2>2, CoordinatorFrame DEF MapReduceInv
<1>5. CASE /\ status[t] = "InProcess"
           /\ status' = [status EXCEPT ![t] = "Completed"]
           /\ interFiles' = IF t.type = "Map"
                            THEN [r \in DOMAIN interFiles |-> Append(interFiles[r], t.id)]
                            ELSE interFiles
  <2>1. /\ status'[t] = "Completed"
        /\ \A u \in Task : u # t => status'[u] = status[u]
        /\ status' \in [Task -> {"Idle", "InProcess", "Completed"}]
    BY <1>0, <1>2, <1>5, Types
  <2>2. TimerInv'
    BY <1>0, <1>1, <1>5, <2>1 DEF TimerInv
  <2>3. ChanInv'
    <3>1. \A y \in Type : IdleTasks(y)' = IdleTasks(y)
      BY <1>5, <2>1 DEF IdleTasks
    <3> QED
      BY <1>0, <1>1, <3>1 DEF ChanInv, Distinct, Elems
  <2>4. CASE t.type = "Map"
    <3>1. /\ t \in MapTask /\ t.id \in MapId
          /\ [type |-> "Map", id |-> t.id] = t
          /\ \A m \in MapId : m # t.id => [type |-> "Map", id |-> m] # t
      BY <1>2, <2>4, TaskFacts
    <3>2. t.id \notin CompletedMaps /\ CompletedMaps' = CompletedMaps \cup {t.id}
      <4>1. \A m \in MapId : [type |-> "Map", id |-> m] \in Task
        BY TaskFacts
      <4>2. t.id \notin CompletedMaps
        BY <1>5, <3>1 DEF CompletedMaps
      <4>3. ASSUME NEW m \in MapId
            PROVE  status'[[type |-> "Map", id |-> m]] = "Completed"
                     <=> status[[type |-> "Map", id |-> m]] = "Completed" \/ m = t.id
        <5>1. CASE m = t.id
          BY <2>1, <3>1, <5>1
        <5>2. CASE m # t.id
          BY <2>1, <3>1, <4>1, <5>2
        <5> QED
          BY <5>1, <5>2
      <4> QED
        BY <3>1, <4>2, <4>3 DEF CompletedMaps
    <3>3. ASSUME NEW r \in ReduceId
          PROVE  /\ interFiles'[r] = Append(interFiles[r], t.id)
                 /\ Append(interFiles[r], t.id) \in Seq(MapId)
                 /\ Distinct(Append(interFiles[r], t.id))
                 /\ Elems(Append(interFiles[r], t.id)) = CompletedMaps \cup {t.id}
      <4>1. /\ interFiles[r] \in Seq(MapId) /\ Distinct(interFiles[r])
            /\ Elems(interFiles[r]) = CompletedMaps
            /\ r \in DOMAIN interFiles
        BY <1>0, Types DEF ListedInv
      <4> QED
        BY <1>5, <2>4, <3>1, <3>2, <4>1, AppendDistinct
    <3>4. interFiles' \in [ReduceId -> Seq(MapId)]
      <4>1. interFiles' = [r \in ReduceId |-> Append(interFiles[r], t.id)]
        BY <1>0, <1>5, <2>4, Types
      <4> QED
        BY <3>3, <4>1
    <3>5. TypeOK'
      BY <1>0, <1>1, <2>1, <3>4 DEF TypeOK, MapId, ReduceId
    <3>6. ListedInv'
      <4> SUFFICES ASSUME NEW r \in ReduceId
                   PROVE  Distinct(interFiles'[r]) /\ Elems(interFiles'[r]) = CompletedMaps'
        BY DEF ListedInv, Distinct, Elems
      <4> QED
        BY <3>2, <3>3
    <3>7. PhaseInv'
      BY <1>0, <1>1, <3>1, <3>2 DEF PhaseInv
    <3> QED
      BY <1>3, <2>2, <2>3, <3>5, <3>6, <3>7 DEF MapReduceInv
  <2>5. CASE t.type # "Map"
    <3>1. interFiles' = interFiles
      BY <1>5, <2>5
    <3>2. CompletedMaps' = CompletedMaps
      <4>1. \A m \in MapId : [type |-> "Map", id |-> m] \in Task /\ [type |-> "Map", id |-> m] # t
        BY <2>5, TaskFacts
      <4> QED
        BY <2>1, <4>1 DEF CompletedMaps
    <3>3. TypeOK'
      BY <1>0, <1>1, <2>1, <3>1 DEF TypeOK
    <3>4. ListedInv' /\ PhaseInv'
      BY <1>0, <1>1, <3>1, <3>2 DEF ListedInv, PhaseInv, Distinct, Elems
    <3> QED
      BY <1>3, <2>2, <2>3, <3>3, <3>4 DEF MapReduceInv
  <2> QED
    BY <2>4, <2>5
<1> QED
  BY <1>1, <1>4, <1>5

(* Done starts the reduce phase when every map task is completed. *)
LEMMA DoneStep ==
    ASSUME MapReduceInv, Done
    PROVE  MapReduceInv'
<1>1. TypeOK'
  <2>1. isAllMapWorkerFinished' \in BOOLEAN /\ done' \in BOOLEAN
    BY DEF Done, allTasksDone
  <2>2. TypeOK /\ UNCHANGED <<status, chan, interFiles, timers, file, out, slow>>
    BY DEF MapReduceInv, Done
  <2> QED
    BY <2>1, <2>2 DEF TypeOK
<1>2. WorkerInv' /\ ChanInv' /\ TimerInv' /\ ListedInv'
  BY DEF MapReduceInv, Done, WorkerInv, ChanInv, TimerInv, ListedInv, IdleTasks,
         CompletedMaps, Distinct, Elems
<1>3. PhaseInv'
  BY TaskFacts DEF Done, PhaseInv, CompletedMaps
<1> QED
  BY <1>1, <1>2, <1>3 DEF MapReduceInv

-----------------------------------------------------------------------------
(* The steps of a worker on its own change no part of the coordinator.     *)

(* A map task truncates and writes the files of its number. *)
LEMMA MapStep ==
    ASSUME MapReduceInv, NEW w \in Workers,
           MapCreate(w) \/ MapWriteFirst(w) \/ MapWriteRest(w)
    PROVE  MapReduceInv'
<1> DEFINE x == worker[w]
<1>0. TypeOK /\ WorkerInv
  BY DEF MapReduceInv
<1>1. /\ UNCHANGED coordinator /\ UNCHANGED <<out, slow>>
      /\ x.phase \in {"map", "write1", "write2"}
      /\ \E p \in {"write1", "write2", "finish"} : worker' = [worker EXCEPT ![w].phase = p]
  BY DEF MapCreate, MapWriteFirst, MapWriteRest, Goto
<1>2. x \in [phase : {"map", "write1", "write2"}, task : MapTask]
  BY <1>0, <1>1, WorkerFacts DEF WorkerInv
<1>3. WorkerInv'
  <2>1. PICK p \in {"write1", "write2", "finish"} : worker' = [worker EXCEPT ![w].phase = p]
    BY <1>1
  <2>2. [x EXCEPT !.phase = p] \in WorkerState
    BY <1>2, TaskFacts DEF WorkerState
  <2> QED
    BY <1>0, <2>1, <2>2 DEF WorkerInv
<1>4. x.task.id \in MapId
  BY <1>2, TaskFacts
<1>5. file' \in [MapId -> [ReduceId -> SUBSET WholeFile]]
  <2>1. file[x.task.id] \in [ReduceId -> SUBSET WholeFile]
    BY <1>0, <1>4, Types
  <2>2. \E f \in [ReduceId -> SUBSET WholeFile] : file' = [file EXCEPT ![x.task.id] = f]
    BY <2>1 DEF MapCreate, MapWriteFirst, MapWriteRest, WritePart, WholeFile
  <2> QED
    BY <1>0, <1>4, <2>2, Types
<1>6. TypeOK'
  BY <1>0, <1>1, <1>5 DEF TypeOK, coordinator, MapId, ReduceId
<1> QED
  BY <1>1, <1>3, <1>6, CoordinatorFrame DEF MapReduceInv

(* A reduce task reads the listed files and renames its output. *)
LEMMA ReduceStep ==
    ASSUME MapReduceInv, NEW w \in Workers, ReduceRead(w) \/ ReduceRename(w)
    PROVE  MapReduceInv'
<1> DEFINE x == worker[w]
<1>0. TypeOK /\ WorkerInv
  BY DEF MapReduceInv
<1>1. x \in [phase : {"reduce"}, task : ReduceTask, left : Seq(MapId), whole : SUBSET MapId]
  BY <1>0, WorkerFacts DEF WorkerInv, ReduceRead, ReduceRename
<1>2. CASE ReduceRead(w)
  <2>1. /\ x.left # <<>> /\ UNCHANGED coordinator /\ UNCHANGED <<file, out, slow>>
        /\ \E whole \in {{}, {Head(x.left)}} :
              worker' = [worker EXCEPT ![w].left = Tail(@), ![w].whole = @ \cup whole]
    BY <1>2 DEF ReduceRead
  <2>2. Head(x.left) \in MapId /\ Tail(x.left) \in Seq(MapId)
    BY <1>1, <2>1
  <2>3. PICK whole \in {{}, {Head(x.left)}} :
              worker' = [worker EXCEPT ![w].left = Tail(@), ![w].whole = @ \cup whole]
    BY <2>1
  <2>4. [x EXCEPT !.left = Tail(@), !.whole = @ \cup whole] \in WorkerState
    BY <1>1, <2>2 DEF WorkerState
  <2>5. WorkerInv'
    BY <1>0, <2>3, <2>4 DEF WorkerInv
  <2>6. TypeOK'
    BY <1>0, <2>1 DEF TypeOK, coordinator
  <2> QED
    BY <2>1, <2>5, <2>6, CoordinatorFrame DEF MapReduceInv
<1>3. CASE ReduceRename(w)
  <2>1. /\ UNCHANGED coordinator /\ UNCHANGED <<file, slow>>
        /\ out' = [out EXCEPT ![x.task.id] = {x.whole}]
        /\ worker' = [worker EXCEPT ![w] = [phase |-> "finish", task |-> x.task]]
    BY <1>3 DEF ReduceRename
  <2>2. x.task \in Task /\ x.task.id \in ReduceId /\ {x.whole} \in SUBSET SUBSET MapId
    BY <1>1, TaskFacts
  <2>3. WorkerInv'
    BY <1>0, <2>1, <2>2 DEF WorkerInv, WorkerState
  <2>4. out' \in [ReduceId -> SUBSET SUBSET MapId]
    BY <1>0, <2>1, <2>2, Types
  <2>5. TypeOK'
    BY <1>0, <2>1, <2>4 DEF TypeOK, coordinator, MapId, ReduceId
  <2> QED
    BY <2>1, <2>3, <2>5, CoordinatorFrame DEF MapReduceInv
<1> QED
  BY <1>2, <1>3

(* A worker ends its loop or crashes; nothing at all happens. *)
LEMMA LeaveStep ==
    ASSUME MapReduceInv,
           (\E w \in Workers : GetTaskFinished(w) \/ Crash(w)) \/ UNCHANGED vars
    PROVE  MapReduceInv'
<1>1. /\ UNCHANGED coordinator /\ UNCHANGED <<file, out, slow>>
      /\ worker' = worker \/ \E w \in Workers : worker' = [worker EXCEPT ![w] = Gone]
  BY DEF GetTaskFinished, Crash, vars, coordinator
<1>2. WorkerInv'
  BY <1>1 DEF MapReduceInv, WorkerInv, WorkerState
<1>3. TypeOK'
  BY <1>1 DEF MapReduceInv, TypeOK, coordinator
<1> QED
  BY <1>1, <1>2, <1>3, CoordinatorFrame DEF MapReduceInv

(* Every step keeps the invariant. *)
LEMMA StepInv == MapReduceInv /\ [Next]_vars => MapReduceInv'
<1> SUFFICES ASSUME MapReduceInv, [Next]_vars PROVE MapReduceInv'
  OBVIOUS
<1>1. ASSUME NEW w \in Workers, Work(w) \/ Crash(w) PROVE MapReduceInv'
  BY <1>1, GetTaskStep, FinishedTaskStep, MapStep, ReduceStep, LeaveStep DEF Work
<1>2. ASSUME NEW t \in Task, CheckFinished(t) PROVE MapReduceInv'
  BY <1>2, CheckFinishedStep
<1> QED
  BY <1>1, <1>2, DoneStep, LeaveStep DEF Next

(* The invariant holds in every state. *)
LEMMA Invariance == Spec => []MapReduceInv
<1>1. Init => MapReduceInv
  BY InitInv
<1>2. MapReduceInv /\ [Next]_vars => MapReduceInv'
  BY StepInv
<1> QED
  BY <1>1, <1>2, PTL DEF Spec

-----------------------------------------------------------------------------
(* What the invariant says.                                                *)

(* The number of times an element is in a sequence without repetition. *)
LEMMA CountDistinct ==
    ASSUME NEW S, NEW s \in Seq(S), NEW x, Distinct(s)
    PROVE  Cardinality({i \in DOMAIN s : s[i] = x}) = IF x \in Elems(s) THEN 1 ELSE 0
<1> DEFINE C == {i \in DOMAIN s : s[i] = x}
<1>0. DOMAIN s = 1 .. Len(s)
  OBVIOUS
<1>1. CASE x \in Elems(s)
  <2>1. PICK i \in 1 .. Len(s) : s[i] = x
    BY <1>1 DEF Elems
  <2>2. C = {i}
    BY <1>0, <2>1 DEF Distinct
  <2> QED
    BY <1>1, <2>2, FS_Singleton
<1>2. CASE x \notin Elems(s)
  <2>1. C = {}
    BY <1>0, <1>2 DEF Elems
  <2> QED
    BY <1>2, <2>1, FS_EmptySet
<1> QED
  BY <1>1, <1>2

(* A channel from which a task is missing has room for it. *)
LEMMA RoomForOne ==
    ASSUME NEW n \in Nat, NEW T, NEW s \in Seq(T), Distinct(s), NEW t \in T, t \notin Elems(s),
           \A u \in T : u.id \in 0 .. n - 1,
           \A u, v \in T : u.id = v.id => u = v
    PROVE  Len(s) < n
<1> DEFINE Others == (0 .. n - 1) \ {t.id}
           f == [i \in 1 .. Len(s) |-> s[i].id]
<1>1. IsFiniteSet(Others) /\ Cardinality(Others) = n - 1
  <2>1. IsFiniteSet(0 .. n - 1) /\ Cardinality(0 .. n - 1) = n /\ t.id \in 0 .. n - 1
    BY FS_Interval
  <2> QED
    BY <2>1, FS_RemoveElement
<1>2. \A i \in 1 .. Len(s) : s[i] \in T /\ s[i] \in Elems(s)
  BY DEF Elems
<1>3. \A i \in 1 .. Len(s) : f[i] = s[i].id /\ f[i] \in Others
  BY <1>2
<1>4. \A i, j \in 1 .. Len(s) : f[i] = f[j] => i = j
  BY <1>2, <1>3 DEF Distinct
<1>5. f \in [1 .. Len(s) -> Others]
  BY <1>3
<1> HIDE DEF f, Others
<1>6. f \in Injection(1 .. Len(s), Others)
  BY <1>4, <1>5 DEF Injection, IsInjective
<1>7. Cardinality(1 .. Len(s)) <= Cardinality(Others)
  BY <1>1, <1>6, FS_Injection
<1>8. Len(s) \in Nat /\ Cardinality(1 .. Len(s)) = Len(s)
  <2>1. Len(s) \in Nat
    OBVIOUS
  <2>2. 1 \in Int /\ Len(s) \in Int
    BY <2>1
  <2>3. Cardinality(1 .. Len(s)) = IF 1 > Len(s) THEN 0 ELSE Len(s) - 1 + 1
    BY <2>2, FS_Interval
  <2> QED
    BY <2>1, <2>3
<1> QED
  BY <1>1, <1>7, <1>8

(* Types: the coordinator's lists and channels, and the worker's files. *)
THEOREM MapReduceTypeCorrect == Spec => []TypeOK
<1>1. MapReduceInv => TypeOK
  BY DEF MapReduceInv
<1> QED
  BY <1>1, Invariance, PTL

(* No task is lost by GetTask, FinishedTask and CheckFinished, or handed   *)
(* out twice at a time, and none after it is completed.                    *)
THEOREM TasksAreOwned == Spec => []TaskOwned
<1>1. MapReduceInv => TaskOwned
  <2> SUFFICES ASSUME MapReduceInv, NEW t \in Task
               PROVE  /\ status[t] = "Idle" => Queued(t) = 1 /\ timers[t] = 0
                      /\ status[t] = "InProcess" => Queued(t) = 0 /\ timers[t] = 1
                      /\ status[t] = "Completed" => Queued(t) = 0 /\ timers[t] <= 1
    BY DEF TaskOwned
  <2>1. /\ t.type \in Type /\ chan[t.type] \in Seq(Task) /\ Distinct(chan[t.type])
        /\ t \in Elems(chan[t.type]) <=> status[t] = "Idle"
    BY TaskFacts, Types DEF MapReduceInv, ChanInv, IdleTasks
  <2>2. Queued(t) = IF status[t] = "Idle" THEN 1 ELSE 0
    BY <2>1, CountDistinct DEF Queued
  <2> QED
    BY <2>2 DEF MapReduceInv, TimerInv
<1> QED
  BY <1>1, Invariance, PTL

(* When reduce tasks are handed out, each lists the file of every map task *)
(* once.                                                                   *)
THEOREM ReduceInputsComplete == Spec => []ReduceInputs
<1>1. MapReduceInv => ReduceInputs
  <2> SUFFICES ASSUME MapReduceInv, isAllMapWorkerFinished, NEW r \in ReduceId
               PROVE  IsInjective(interFiles[r]) /\ Range(interFiles[r]) = MapId
    BY DEF ReduceInputs, MapId, ReduceId
  <2>1. /\ interFiles[r] \in Seq(MapId) /\ Distinct(interFiles[r])
        /\ Elems(interFiles[r]) = MapId
    BY Types DEF MapReduceInv, ListedInv, PhaseInv
  <2>2. DOMAIN interFiles[r] = 1 .. Len(interFiles[r])
    BY <2>1
  <2> QED
    BY <2>1, <2>2 DEF IsInjective, Range, Distinct, Elems
<1> QED
  BY <1>1, Invariance, PTL

(* CheckFinished, which sends with c.mu locked, never waits for room: the  *)
(* channel lacks at least the task it is about to send.                    *)
THEOREM SendsNeverBlock == Spec => []SendNeverBlocks
<1>1. MapReduceInv => SendNeverBlocks
  <2> SUFFICES ASSUME MapReduceInv, NEW t \in Task, timers[t] > 0, status[t] # "Completed"
               PROVE  Len(chan[t.type]) < Capacity[t.type]
    BY DEF SendNeverBlocks
  <2>1. /\ t.type \in Type /\ chan[t.type] \in Seq(Task) /\ Distinct(chan[t.type])
        /\ Elems(chan[t.type]) = IdleTasks(t.type)
    BY TaskFacts, Types DEF MapReduceInv, ChanInv
  <2>2. t \notin Elems(chan[t.type])
    BY <2>1, Types DEF MapReduceInv, TimerInv, IdleTasks
  <2>3. CASE t.type = "Map"
    <3>1. chan["Map"] \in Seq(MapTask)
      <4>1. \A i \in 1 .. Len(chan["Map"]) : chan["Map"][i] \in MapTask
        BY <2>1, <2>3, TaskFacts DEF Elems, IdleTasks
      <4> QED
        BY <2>1, <2>3, <4>1
    <3>2. t \in MapTask /\ \A u, v \in MapTask : u.id = v.id => u = v
      BY <2>3, TaskFacts
    <3>3. Len(chan["Map"]) < NMap
      BY <2>1, <2>2, <2>3, <3>1, <3>2, RoomForOne, TaskFacts, SizesAssumption DEF MapId
    <3>4. Len(chan["Map"]) \in Nat
      BY <3>1
    <3> QED
      BY <2>3, <3>3, <3>4, SizesAssumption DEF Capacity
  <2>4. CASE t.type = "Reduce"
    <3>1. chan["Reduce"] \in Seq(ReduceTask)
      <4>1. \A i \in 1 .. Len(chan["Reduce"]) : chan["Reduce"][i] \in ReduceTask
        BY <2>1, <2>4, TaskFacts DEF Elems, IdleTasks
      <4> QED
        BY <2>1, <2>4, <4>1
    <3>2. t \in ReduceTask /\ \A u, v \in ReduceTask : u.id = v.id => u = v
      BY <2>4, TaskFacts
    <3>3. Len(chan["Reduce"]) < NReduce
      BY <2>1, <2>2, <2>4, <3>1, <3>2, RoomForOne, TaskFacts, SizesAssumption DEF ReduceId
    <3> QED
      BY <2>4, <3>3 DEF Capacity
  <2> QED
    BY <2>1, <2>3, <2>4 DEF Type
<1> QED
  BY <1>1, Invariance, PTL
=============================================================================
