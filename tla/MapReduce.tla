----------------------------- MODULE MapReduce -----------------------------
(* The MapReduce coordinator and its workers (mr/). The coordinator hands  *)
(* out tasks under its lock, gives each ten seconds, and hands it out      *)
(* again; workers crash, or are slow. Workers share a directory: a map     *)
(* task rewrites its intermediate files in place, a reduce task renames    *)
(* its output into place.                                                  *)
EXTENDS Naturals, Sequences, FiniteSets, Functions

CONSTANTS
    Workers,
    NMap,            \* number of input files
    NReduce,
    MapChanSize,     \* capacity of mapChan, 10000 in the code
    Crashing,        \* the workers that may crash
    MaxSlow          \* bound: how often a task's ten seconds run out while
                     \* the worker it was given to is still working on it

ASSUME SizesAssumption ==
    /\ NMap \in Nat /\ NReduce \in Nat \ {0} /\ MapChanSize \in Nat /\ MaxSlow \in Nat
    /\ NMap <= MapChanSize
ASSUME WorkersAssumption == Crashing \subseteq Workers

VARIABLES
    status,          \* status[t] of mapsTaskList and reduceTaskList
    chan,            \* mapChan and reduceChan
    isAllMapWorkerFinished,
    interFiles,      \* interFiles[r]: the map tasks whose file for r is listed
    timers,          \* timers[t]: the CheckFinished goroutines sleeping for t
    done,            \* Done() returned true
    worker,          \* worker[w]: what w is doing
    file,            \* file[m][r]: the parts that mr-m-r has, of {1, 2}
    out,             \* out[r]: no file mr-out-r, or the one whose content comes
                     \* from the whole files of a set of map tasks
    slow             \* counts towards MaxSlow

coordinator == <<status, chan, isAllMapWorkerFinished, interFiles, timers, done>>
vars == <<status, chan, isAllMapWorkerFinished, interFiles, timers, done, worker, file, out, slow>>

MapTask == [type : {"Map"}, id : 0 .. NMap - 1]
ReduceTask == [type : {"Reduce"}, id : 0 .. NReduce - 1]
Task == MapTask \cup ReduceTask
Capacity == [Map |-> MapChanSize, Reduce |-> NReduce]
WholeFile == {1, 2}

(* phase idle: about to call GetTask; map: in mapf; write: the files are   *)
(* created and parts of them written; reduce: files left to read; finish:  *)
(* about to call FinishedTask; gone: crashed, or the loop ended.           *)
Idle == [phase |-> "idle"]
Gone == [phase |-> "gone"]

(* MakeCoordinator: every task is idle and in its channel. *)
Init ==
    /\ status = [t \in Task |-> "Idle"]
    /\ chan = [Map |-> [i \in 1 .. NMap |-> [type |-> "Map", id |-> i - 1]],
               Reduce |-> [i \in 1 .. NReduce |-> [type |-> "Reduce", id |-> i - 1]]]
    /\ isAllMapWorkerFinished = FALSE
    /\ interFiles = [r \in 0 .. NReduce - 1 |-> <<>>]
    /\ timers = [t \in Task |-> 0]
    /\ done = FALSE
    /\ worker = [w \in Workers |-> Idle]
    /\ file = [m \in 0 .. NMap - 1 |-> [r \in 0 .. NReduce - 1 |-> {}]]
    /\ out = [r \in 0 .. NReduce - 1 |-> {}]
    /\ slow = 0

-----------------------------------------------------------------------------
(* The coordinator.                                                        *)

allTasksDone == \A t \in Task : status[t] = "Completed"

(* Seeded fault: the task stays in its channel. *)
GetTaskKeeps(w) ==
    /\ worker[w] = Idle
    /\ ~allTasksDone /\ ~isAllMapWorkerFinished /\ chan["Map"] # <<>>
    /\ LET t == Head(chan["Map"])
       IN  /\ status' = [status EXCEPT ![t] = "InProcess"]
           /\ timers' = [timers EXCEPT ![t] = @ + 1]
           /\ worker' = [worker EXCEPT ![w] = [phase |-> "map", task |-> t]]
    /\ UNCHANGED <<chan, isAllMapWorkerFinished, interFiles, done, file, out, slow>>

(* GetTask, called by w: the next task of the phase the job is in. With an *)
(* empty channel the worker sleeps a second and asks again.                *)
GetTask(w) ==
    /\ worker[w] = Idle
    /\ ~allTasksDone
    /\ LET type == IF isAllMapWorkerFinished THEN "Reduce" ELSE "Map"
           t == Head(chan[type])
       IN  /\ chan[type] # <<>>
           /\ chan' = [chan EXCEPT ![type] = Tail(@)]
           /\ status' = [status EXCEPT ![t] = "InProcess"]
           /\ timers' = [timers EXCEPT ![t] = @ + 1]
           /\ worker' = [worker EXCEPT ![w] =
                IF type = "Map" THEN [phase |-> "map", task |-> t]
                ELSE [phase |-> "reduce", task |-> t, left |-> interFiles[t.id], whole |-> {}]]
    /\ UNCHANGED <<isAllMapWorkerFinished, interFiles, done, file, out, slow>>

(* GetTask answers IsFinished: the worker returns. *)
GetTaskFinished(w) ==
    /\ worker[w] = Idle
    /\ allTasksDone
    /\ worker' = [worker EXCEPT ![w] = Gone]
    /\ UNCHANGED <<coordinator, file, out, slow>>

(* Seeded fault: a report counts whatever the status. *)
FinishedTaskAlways(w) ==
    /\ worker[w].phase = "finish"
    /\ LET t == worker[w].task
       IN  /\ status' = [status EXCEPT ![t] = "Completed"]
           /\ interFiles' = IF t.type = "Map"
                            THEN [r \in DOMAIN interFiles |-> Append(interFiles[r], t.id)]
                            ELSE interFiles
    /\ worker' = [worker EXCEPT ![w] = Idle]
    /\ UNCHANGED <<chan, isAllMapWorkerFinished, timers, done, file, out, slow>>

(* FinishedTask, called by w: a report about a task that is not in process *)
(* is ignored. A map task lists its file for each reduce task.             *)
FinishedTask(w) ==
    /\ worker[w].phase = "finish"
    /\ LET t == worker[w].task
       IN  \/ /\ status[t] = "InProcess"
              /\ status' = [status EXCEPT ![t] = "Completed"]
              /\ interFiles' = IF t.type = "Map"
                               THEN [r \in DOMAIN interFiles |-> Append(interFiles[r], t.id)]
                               ELSE interFiles
           \/ /\ status[t] # "InProcess"
              /\ UNCHANGED <<status, interFiles>>
    /\ worker' = [worker EXCEPT ![w] = Idle]
    /\ UNCHANGED <<chan, isAllMapWorkerFinished, timers, done, file, out, slow>>

(* w is working on the last assignment of t. *)
InTime(t) ==
    /\ status[t] = "InProcess"
    /\ \E w \in Workers : worker[w].phase \notin {"idle", "gone"} /\ worker[w].task = t

(* Seeded fault: the status stays as it was. *)
CheckFinishedNoStatus(t) ==
    /\ timers[t] > 0
    /\ InTime(t) => slow < MaxSlow
    /\ slow' = IF InTime(t) THEN slow + 1 ELSE slow
    /\ timers' = [timers EXCEPT ![t] = @ - 1]
    /\ chan' = IF status[t] = "Completed" THEN chan ELSE [chan EXCEPT ![t.type] = Append(@, t)]
    /\ UNCHANGED <<status, isAllMapWorkerFinished, interFiles, done, worker, file, out>>

(* Seeded fault: the task is not handed out again. *)
CheckFinishedNoChan(t) ==
    /\ timers[t] > 0
    /\ InTime(t) => slow < MaxSlow
    /\ slow' = IF InTime(t) THEN slow + 1 ELSE slow
    /\ timers' = [timers EXCEPT ![t] = @ - 1]
    /\ status' = [status EXCEPT ![t] = IF @ = "Completed" THEN @ ELSE "Idle"]
    /\ UNCHANGED <<chan, isAllMapWorkerFinished, interFiles, done, worker, file, out>>

(* CheckFinished after its ten seconds. A worker that is alive finishes    *)
(* within them, except MaxSlow times. The send on the channel waits for    *)
(* room, with c.mu locked.                                                 *)
CheckFinished(t) ==
    /\ timers[t] > 0
    /\ InTime(t) => slow < MaxSlow
    /\ slow' = IF InTime(t) THEN slow + 1 ELSE slow
    /\ timers' = [timers EXCEPT ![t] = @ - 1]
    /\ \/ /\ status[t] = "Completed"
          /\ UNCHANGED <<status, chan>>
       \/ /\ status[t] # "Completed"
          /\ Len(chan[t.type]) < Capacity[t.type]
          /\ status' = [status EXCEPT ![t] = "Idle"]
          /\ chan' = [chan EXCEPT ![t.type] = Append(@, t)]
    /\ UNCHANGED <<isAllMapWorkerFinished, interFiles, done, worker, file, out>>

(* Seeded fault: the reduce phase starts when no map task is left to hand  *)
(* out.                                                                    *)
DoneEarly ==
    /\ ~done
    /\ isAllMapWorkerFinished' = (chan["Map"] = <<>>)
    /\ done' = allTasksDone
    /\ UNCHANGED <<status, chan, interFiles, timers, worker, file, out, slow>>

(* Done, polled once a second by main until it is true: it also starts the *)
(* reduce phase.                                                           *)
Done ==
    /\ ~done
    /\ isAllMapWorkerFinished' = (\A t \in MapTask : status[t] = "Completed")
    /\ done' = allTasksDone
    /\ UNCHANGED <<status, chan, interFiles, timers, worker, file, out, slow>>

-----------------------------------------------------------------------------
(* The worker. No reduce task reads two files of one map task, so that the *)
(* files of a map task are created in one step and written in two.         *)

Goto(w, phase) == worker' = [worker EXCEPT ![w].phase = phase]

WritePart(m, part) ==
    file' = [file EXCEPT ![m] = [r \in DOMAIN @ |-> @[r] \cup {part}]]

(* Seeded fault: one file too many. *)
MapCreateOneMore(w) ==
    /\ worker[w].phase = "map"
    /\ file' = [file EXCEPT ![worker[w].task.id] = [r \in 0 .. NReduce |-> {}]]
    /\ Goto(w, "write1")
    /\ UNCHANGED <<coordinator, out, slow>>

(* MapWork creates, that is truncates, its NReduce files. *)
MapCreate(w) ==
    /\ worker[w].phase = "map"
    /\ file' = [file EXCEPT ![worker[w].task.id] = [r \in DOMAIN @ |-> {}]]
    /\ Goto(w, "write1")
    /\ UNCHANGED <<coordinator, out, slow>>

(* It writes them, in the order of the map function's output. *)
MapWriteFirst(w) ==
    /\ worker[w].phase = "write1"
    /\ WritePart(worker[w].task.id, 1)
    /\ Goto(w, "write2")
    /\ UNCHANGED <<coordinator, out, slow>>

MapWriteRest(w) ==
    /\ worker[w].phase = "write2"
    /\ WritePart(worker[w].task.id, 2)
    /\ Goto(w, "finish")
    /\ UNCHANGED <<coordinator, out, slow>>

(* ReduceWork reads the listed files one after the other, each up to the   *)
(* first record that does not decode.                                      *)
ReduceRead(w) ==
    /\ worker[w].phase = "reduce"
    /\ worker[w].left # <<>>
    /\ LET m == Head(worker[w].left)
           readWhole == IF file[m][worker[w].task.id] = WholeFile THEN {m} ELSE {}
       IN  worker' = [worker EXCEPT ![w].left = Tail(@), ![w].whole = @ \cup readWhole]
    /\ UNCHANGED <<coordinator, file, out, slow>>

(* Then its temporary file becomes mr-out-r. *)
ReduceRename(w) ==
    /\ worker[w].phase = "reduce"
    /\ worker[w].left = <<>>
    /\ out' = [out EXCEPT ![worker[w].task.id] = {worker[w].whole}]
    /\ worker' = [worker EXCEPT ![w] = [phase |-> "finish", task |-> worker[w].task]]
    /\ UNCHANGED <<coordinator, file, slow>>

Crash(w) ==
    /\ w \in Crashing
    /\ worker[w].phase # "gone"
    /\ worker' = [worker EXCEPT ![w] = Gone]
    /\ UNCHANGED <<coordinator, file, out, slow>>

-----------------------------------------------------------------------------
Work(w) ==
    \/ GetTask(w)
    \/ GetTaskFinished(w)
    \/ FinishedTask(w)
    \/ MapCreate(w)
    \/ MapWriteFirst(w)
    \/ MapWriteRest(w)
    \/ ReduceRead(w)
    \/ ReduceRename(w)

Next ==
    \/ \E w \in Workers : Work(w) \/ Crash(w)
    \/ \E t \in Task : CheckFinished(t)
    \/ Done

(* Workers go on, sleeps end, and main polls Done. *)
Fairness ==
    /\ \A w \in Workers : WF_vars(Work(w))
    /\ \A t \in Task : WF_vars(CheckFinished(t))
    /\ WF_vars(Done)

Spec == Init /\ [][Next]_vars /\ Fairness

-----------------------------------------------------------------------------
(* Properties.                                                             *)

TypeOK ==
    /\ status \in [Task -> {"Idle", "InProcess", "Completed"}]
    /\ chan \in [{"Map", "Reduce"} -> Seq(Task)]
    /\ isAllMapWorkerFinished \in BOOLEAN
    /\ interFiles \in [0 .. NReduce - 1 -> Seq(0 .. NMap - 1)]
    /\ timers \in [Task -> Nat]
    /\ done \in BOOLEAN
    /\ file \in [0 .. NMap - 1 -> [0 .. NReduce - 1 -> SUBSET WholeFile]]
    /\ out \in [0 .. NReduce - 1 -> SUBSET SUBSET (0 .. NMap - 1)]
    /\ slow \in Nat

(* How often a task waits in its channel. *)
Queued(t) == Cardinality({i \in DOMAIN chan[t.type] : chan[t.type][i] = t})

(* GetTask, FinishedTask and CheckFinished: a task that is not completed   *)
(* waits once in its channel or has one timer, never both and never        *)
(* neither, so it is not lost and not handed out twice at a time; a        *)
(* completed task is never handed out again.                               *)
TaskOwned ==
    \A t \in Task :
        /\ status[t] = "Idle" => Queued(t) = 1 /\ timers[t] = 0
        /\ status[t] = "InProcess" => Queued(t) = 0 /\ timers[t] = 1
        /\ status[t] = "Completed" => Queued(t) = 0 /\ timers[t] <= 1

(* FinishedTask and Done: a reduce task is handed out with the file of     *)
(* every map task, each once, however often map tasks were repeated and    *)
(* reported.                                                               *)
ReduceInputs ==
    isAllMapWorkerFinished =>
        \A r \in 0 .. NReduce - 1 :
            /\ IsInjective(interFiles[r])
            /\ Range(interFiles[r]) = 0 .. NMap - 1

(* CheckFinished never finds its channel full: it would wait there with    *)
(* the coordinator's lock, and nobody could make room.                     *)
SendNeverBlocks ==
    \A t \in Task :
        timers[t] > 0 /\ status[t] # "Completed" => Len(chan[t.type]) < Capacity[t.type]

(* The job ends although workers crash and tasks time out, if a worker     *)
(* survives.                                                               *)
JobCompletes == <>done

(* When main ends the job, each mr-out-r holds the output of every map     *)
(* task in full: a crash loses nothing.                                    *)
OutputComplete ==
    done => \A r \in 0 .. NReduce - 1 : out[r] = {0 .. NMap - 1}

(* The same as long as CheckFinished hands out no task that somebody is    *)
(* still working on: crashes at any step, half-written files included, do  *)
(* not show in the output.                                                 *)
OutputInTime == slow = 0 => OutputComplete
=============================================================================
