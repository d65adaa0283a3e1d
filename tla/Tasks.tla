-------------------------------- MODULE Tasks --------------------------------
(***************************************************************************)
(* TasksService: the tasks of a trip.  Whether an update completes a task  *)
(* is derived from the status that was read before the save.               *)
(***************************************************************************)
EXTENDS TripCalls

CONSTANT TaskKeys

ASSUME TasksAssumption == TaskKeys \subseteq Keys

VARIABLE turned  \* history: tasks whose last save made them COMPLETED

TaskStatus == {"PENDING", "IN_PROGRESS", "COMPLETED"}
Task == [status : TaskStatus]

\* The status a request asks for; "keep" when it edits other columns only.
TaskInput == TaskStatus \cup {"keep"}

TaskSteps == {"task.save", "task.remove", "task.publish"}

Completed(t) == t # None /\ t.status = "COMPLETED"

Record(k, t) ==
  turned' = IF Completed(t) /\ ~Completed(row[k]) THEN turned \cup {k} ELSE turned \ {k}

-----------------------------------------------------------------------------
TaskCreate(q, k) ==
  LET task == [status |-> "PENDING"] IN
  /\ Begin(q, "task.publish", [NoLocals EXCEPT !.op = "TASK_CREATED", !.key = k, !.copy = task])
  /\ Insert(k, task)
  /\ UNCHANGED <<told, turned>>

\* Mutant: a task that is not found is updated all the same.
TaskFindAny(q, k, input) ==
  /\ k \in used
  /\ Begin(q, "task.save", [NoLocals EXCEPT !.op = "TASK_UPDATED", !.key = k, !.input = input,
             !.copy = IF row[k] = None THEN [status |-> "PENDING"] ELSE row[k]])
  /\ UNCHANGED <<tableVars, turned>>

\* updateTask() reads the task; 404 when there is none.
TaskFind(q, k, input) ==
  /\ row[k] # None
  /\ Begin(q, "task.save", [NoLocals EXCEPT !.op = "TASK_UPDATED", !.key = k, !.input = input,
                              !.copy = row[k]])
  /\ UNCHANGED <<tableVars, turned>>

\* Mutant: the status is compared after the request's values are assigned.
TaskSaveComparesLate(q) ==
  LET saved == IF loc[q].input = "keep" THEN loc[q].copy ELSE [status |-> loc[q].input] IN
  /\ pc[q] = "task.save"
  /\ SaveBack(loc[q].key, saved)
  /\ Record(loc[q].key, saved)
  /\ GoWith(q, "task.publish", [loc[q] EXCEPT !.copy = saved])
  /\ UNCHANGED told

TaskSave(q) ==
  LET saved == IF loc[q].input = "keep" THEN loc[q].copy ELSE [status |-> loc[q].input] IN
  /\ pc[q] = "task.save"
  /\ SaveBack(loc[q].key, saved)
  /\ Record(loc[q].key, saved)
  /\ GoWith(q, "task.publish",
       [loc[q] EXCEPT !.copy = saved,
          !.op = IF Completed(saved) /\ ~Completed(loc[q].copy) THEN "TASK_COMPLETED" ELSE @])
  /\ UNCHANGED told

\* deleteTask() reads the task, removes it and says so.
TaskFindDoomed(q, k) ==
  /\ row[k] # None
  /\ Begin(q, "task.remove", [NoLocals EXCEPT !.op = "TASK_DELETED", !.key = k])
  /\ UNCHANGED <<tableVars, turned>>

TaskRemove(q) ==
  /\ pc[q] = "task.remove"
  /\ RemoveRow(loc[q].key)
  /\ Record(loc[q].key, None)
  /\ GoWith(q, "task.publish", loc[q])
  /\ UNCHANGED told

TaskPublish(q) == Publish(q, "task.publish") /\ UNCHANGED turned

TaskNext ==
  \E q \in Calls :
    \/ \E k \in TaskKeys : TaskCreate(q, k) \/ TaskFindDoomed(q, k)
    \/ \E k \in TaskKeys, input \in TaskInput : TaskFind(q, k, input)
    \/ TaskSave(q) \/ TaskRemove(q) \/ TaskPublish(q)
-----------------------------------------------------------------------------
(* The last event about each task is the truth: it was told COMPLETED       *)
(* exactly if its last save has completed it (updateTask derives that from  *)
(* the copy it read).                                                       *)
CompletionTold ==
  \A k \in TaskKeys \cap used : told[k].type = "TASK_COMPLETED" <=> k \in turned
=============================================================================
