------------------------------ MODULE CallOut ------------------------------
(***************************************************************************)
(* The call_out scheduler (scheduler/call_out.rs): scripts that run on the *)
(* connection tasks add and remove delayed calls, the game loop takes the  *)
(* due ones out of the registry and runs them one after another, and what  *)
(* they run may add and remove calls in its turn.                          *)
(*                                                                         *)
(* The registry sits behind a RwLock.  Scripts wait for it; process_due    *)
(* only tries.  Time is counted in units of the shortest delay; the index  *)
(* lists are sets, for an id is a fresh uuid and enters a list once.       *)
(***************************************************************************)
EXTENDS Integers

CONSTANTS Id,        \* ids of tasks (uuids), each used once
          Target,    \* connection tokens
          Function,  \* function names of the scripts
          Script,    \* tasks that may execute scripts
          Delay,     \* delays that scripts ask for
          Repeating, \* may a task repeat?  {FALSE} for what the scripts can ask
          Free,      \* holder of the lock when nobody holds it
          NoId,
          MaxTime    \* bound: the clock stops here

ASSUME CallOutAssumption == /\ Free \notin Script
                            /\ NoId \notin Id
                            /\ Delay \subseteq Nat
                            /\ Repeating \subseteq BOOLEAN
                            /\ MaxTime \in Nat

CallOutTask == [target : Target, function : Function, delay : Delay,
                scheduled_at : Nat, repeating : BOOLEAN]

VARIABLES
  now,          \* Instant::now()
  holder,       \* who holds the write lock of the registry
  tasks,        \* ids in the registry
  task,         \* what each id stands for, once it was used
  used,         \* ids used so far
  by_target, by_function,
  due_tasks,    \* taken out of the registry by process_due, not yet run
  running,      \* the one being run
  ran,          \* history: ids that were run
  removed       \* history: ids that a remove_call_out removed

registry == <<tasks, by_target, by_function>>
loop     == <<due_tasks, running, ran>>
vars     == <<now, holder, registry, task, used, loop, removed>>

TypeOK ==
  /\ now \in Nat
  /\ holder \in Script \cup {Free}
  /\ tasks \subseteq used /\ used \subseteq Id
  /\ task \in [Id -> CallOutTask \cup {NoId}]
  /\ \A i \in used : task[i] \in CallOutTask
  /\ by_target \in [Target -> SUBSET Id]
  /\ by_function \in [Function -> SUBSET Id]
  /\ due_tasks \subseteq used
  /\ running \in used \cup {NoId}
  /\ ran \subseteq used /\ removed \subseteq used

Init ==
  /\ now = 0
  /\ holder = Free
  /\ tasks = {} /\ used = {}
  /\ task = [i \in Id |-> NoId]
  /\ by_target = [t \in Target |-> {}]
  /\ by_function = [f \in Function |-> {}]
  /\ due_tasks = {} /\ running = NoId /\ ran = {} /\ removed = {}

-----------------------------------------------------------------------------
(* CallOutRegistry *)

(* CallOutTask::new and repeating: due after the delay. *)
NewTask(t, f, d, r) ==
  [target |-> t, function |-> f, delay |-> d, scheduled_at |-> now + d,
   repeating |-> r]

IsDue(i) == task[i].scheduled_at <= now

(* (mutant) the new index entry replaces the list *)
Add_Overwrite(i, new) ==
  /\ task' = [task EXCEPT ![i] = new]
  /\ used' = used \cup {i}
  /\ tasks' = tasks \cup {i}
  /\ by_target' = [by_target EXCEPT ![new.target] = {i}]
  /\ by_function' = [by_function EXCEPT ![new.function] = @ \cup {i}]

(* add *)
Add(i, new) ==
  /\ task' = [task EXCEPT ![i] = new]
  /\ used' = used \cup {i}
  /\ tasks' = tasks \cup {i}
  /\ by_target' = [by_target EXCEPT ![new.target] = @ \cup {i}]
  /\ by_function' = [by_function EXCEPT ![new.function] = @ \cup {i}]

(* (mutant) the due tasks are copied and stay in the registry *)
Remove_Copy(ids) == UNCHANGED registry

(* remove, for every id of a set *)
Remove(ids) ==
  /\ tasks' = tasks \ ids
  /\ by_target' = [t \in Target |-> by_target[t] \ ids]
  /\ by_function' = [f \in Function |-> by_function[f] \ ids]

(* get_by_target, which looks up the index and keeps the ids still in tasks *)
GetByTarget(t) == by_target[t] \cap tasks

(* (mutant) everything of the target, whatever its function *)
Matching_AnyFunction(t, f) == GetByTarget(t)

(* What remove_call_out_by_name selects. *)
Matching(t, f) == {i \in GetByTarget(t) : task[i].function = f}

-----------------------------------------------------------------------------
(* What scripts ask for while they hold the registry *)

ScheduleCallOut ==
  /\ \E i \in Id \ used, t \in Target, f \in Function, d \in Delay, r \in Repeating :
       Add(i, NewTask(t, f, d, r))
  /\ UNCHANGED removed

RemoveCallOutByName ==
  /\ \E t \in Target, f \in Function :
       /\ Remove(Matching(t, f))
       /\ removed' = removed \cup Matching(t, f)
  /\ UNCHANGED <<task, used>>

(* A script on a connection task: registry.write() waits, the operation    *)
(* runs, the guard is dropped.                                             *)
Lock(s) ==
  /\ holder = Free
  /\ holder' = s
  /\ UNCHANGED <<now, registry, task, used, loop, removed>>

Operate(s) ==
  /\ holder = s
  /\ ScheduleCallOut \/ RemoveCallOutByName
  /\ holder' = Free
  /\ UNCHANGED <<now, loop>>

(* The same from inside the function that process_due is running. *)
Nested ==
  /\ running # NoId
  /\ holder = Free
  /\ ScheduleCallOut \/ RemoveCallOutByName
  /\ UNCHANGED <<now, holder, loop>>

-----------------------------------------------------------------------------
(* process_due, on the game loop; when the lock is taken it does nothing *)

TakeDue ==
  /\ due_tasks = {} /\ running = NoId
  /\ holder = Free
  /\ LET due == {i \in tasks : IsDue(i)} IN
       /\ due # {}
       /\ Remove(due)
       /\ due_tasks' = due
  /\ UNCHANGED <<now, holder, task, used, running, ran, removed>>

(* (mutant) a call that fails ends the loop over the batch *)
RunTask_FirstOnly(i) ==
  /\ running = NoId
  /\ i \in due_tasks
  /\ due_tasks' = {}
  /\ running' = i
  /\ ran' = ran \cup {i}
  /\ UNCHANGED <<now, holder, registry, task, used, removed>>

(* The due tasks come out of a HashMap: any of them may be next.  A call   *)
(* that fails is logged, and the next one follows.                         *)
RunTask(i) ==
  /\ running = NoId
  /\ i \in due_tasks
  /\ due_tasks' = due_tasks \ {i}
  /\ running' = i
  /\ ran' = ran \cup {i}
  /\ UNCHANGED <<now, holder, registry, task, used, removed>>

(* The call returns.  A repeating task is added again with a fresh id (the *)
(* same one here), if the lock can be had at this moment.                  *)
FinishTask ==
  /\ running # NoId
  /\ running' = NoId
  /\ LET done == task[running] IN
       \/ /\ done.repeating /\ holder = Free
          /\ Add(running, NewTask(done.target, done.function, done.delay, TRUE))
       \/ /\ ~done.repeating \/ holder # Free
          /\ UNCHANGED <<registry, task, used>>
  /\ UNCHANGED <<now, holder, due_tasks, ran, removed>>

Tick ==
  /\ now < MaxTime
  /\ now' = now + 1
  /\ UNCHANGED <<holder, registry, task, used, loop, removed>>

Next ==
  \/ \E s \in Script : Lock(s) \/ Operate(s)
  \/ Nested
  \/ TakeDue \/ FinishTask \/ Tick
  \/ \E i \in Id : RunTask(i)

Spec == Init /\ [][Next]_vars

(* The game loop comes round every second and meets the registry free      *)
(* again and again, for no script keeps the lock; the clock goes on.       *)
Fairness ==
  /\ SF_vars(TakeDue)
  /\ WF_vars(\E i \in Id : RunTask(i))
  /\ WF_vars(FinishTask)
  /\ WF_vars(Tick)
  /\ \A s \in Script : WF_vars(Operate(s))

FairSpec == Spec /\ Fairness

-----------------------------------------------------------------------------
(* Properties *)

(* Both indexes list exactly the registered tasks under their target and   *)
(* their function (add, remove).                                           *)
IndexesAgree ==
  /\ \A t \in Target : by_target[t] = {i \in tasks : task[i].target = t}
  /\ \A f \in Function : by_function[f] = {i \in tasks : task[i].function = f}

(* A task that was removed while it was registered never runs, and one     *)
(* that ran or is about to is not registered as well, unless it repeats:   *)
(* removal, the due list and the run exclude each other (get_all_due).     *)
RunExcludesRemoval ==
  /\ due_tasks \cap (tasks \cup removed) = {}
  /\ \A i \in ran : ~task[i].repeating => i \notin tasks \cup removed \cup due_tasks

(* Every call whose time comes is run, or was removed before               *)
(* (process_due returns without a word when the registry is locked).       *)
DueIsHandled ==
  \A i \in Id :
    (i \in tasks /\ task[i].scheduled_at <= MaxTime) ~> (i \in ran \cup removed)

(* remove_call_out_by_name removes the calls of the function it names and  *)
(* no others (remove_call_out_by_name).                                    *)
RemovesOnlyTheNamed ==
  [][removed' # removed =>
       \E t \in Target, f \in Function : \A i \in removed' \ removed :
         task[i].target = t /\ task[i].function = f]_vars
=============================================================================
