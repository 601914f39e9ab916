-------------------------- MODULE Registries_proof --------------------------
(***************************************************************************)
(* Proofs about the two registries that the whole server shares.           *)
(*                                                                         *)
(* CallOut, for any number of tasks, targets, functions and scripts: its   *)
(* indexes are exact, and a task is registered, due, run or removed in     *)
(* ways that exclude each other.                                           *)
(*                                                                         *)
(* UniqueItems, for any number of players and mobs: what the code keeps of *)
(* "a unique item is unique".  No body holds two of it, and no step but    *)
(* the loss of an unsaved body, what is done with a corpse's object and an *)
(* event's gift makes a second one or a false entry.                       *)
(***************************************************************************)
EXTENDS CallOut, UniqueItems, TLAPS

-----------------------------------------------------------------------------
(* The registry of delayed calls (CallOut) *)

(* What is running was taken out of the registry and cannot be removed,    *)
(* and what was removed does not come back.  Without the first a repeating *)
(* task that is added again might meet itself, without the second a due    *)
(* list might take up what was removed.                                    *)
RunningIsOut == /\ running \notin tasks \cup removed \cup due_tasks
                /\ removed \cap tasks = {}

Inv == TypeOK /\ IndexesAgree /\ RunExcludesRemoval /\ RunningIsOut

-----------------------------------------------------------------------------

(* A new registration keeps the types and the indexes (call_out, add). *)
LEMMA AddKeeps ==
  ASSUME TypeOK, IndexesAgree, NEW i \in Id, i \notin tasks,
         NEW c \in CallOutTask, Add(i, c)
  PROVE  /\ tasks' \subseteq used' /\ used' \subseteq Id
         /\ task' \in [Id -> CallOutTask \cup {NoId}]
         /\ \A j \in used' : task'[j] \in CallOutTask
         /\ by_target' \in [Target -> SUBSET Id]
         /\ by_function' \in [Function -> SUBSET Id]
         /\ IndexesAgree'
<1>1. /\ tasks' = tasks \cup {i} /\ used' = used \cup {i}
      /\ task' = [task EXCEPT ![i] = c]
      /\ by_target' = [by_target EXCEPT ![c.target] = @ \cup {i}]
      /\ by_function' = [by_function EXCEPT ![c.function] = @ \cup {i}]
  BY DEF Add
<1>2. c.target \in Target /\ c.function \in Function
  BY DEF CallOutTask
<1>3. /\ task' \in [Id -> CallOutTask \cup {NoId}]
      /\ task'[i] = c
      /\ \A j \in Id \ {i} : task'[j] = task[j]
  BY <1>1 DEF TypeOK
<1>4. /\ tasks' \subseteq used' /\ used' \subseteq Id
      /\ \A j \in used' : task'[j] \in CallOutTask
      /\ by_target' \in [Target -> SUBSET Id]
      /\ by_function' \in [Function -> SUBSET Id]
  BY <1>1, <1>2, <1>3 DEF TypeOK
<1>5. \A t \in Target : by_target'[t] = {j \in tasks' : task'[j].target = t}
  BY <1>1, <1>2, <1>3 DEF TypeOK, IndexesAgree
<1>6. \A f \in Function : by_function'[f] = {j \in tasks' : task'[j].function = f}
  BY <1>1, <1>2, <1>3 DEF TypeOK, IndexesAgree
<1> QED BY <1>3, <1>4, <1>5, <1>6 DEF IndexesAgree

(* Taking a set of tasks out keeps the types and the indexes (remove). *)
LEMMA RemoveKeeps ==
  ASSUME TypeOK, IndexesAgree, NEW ids, Remove(ids), UNCHANGED task
  PROVE  /\ tasks' \subseteq tasks
         /\ by_target' \in [Target -> SUBSET Id]
         /\ by_function' \in [Function -> SUBSET Id]
         /\ IndexesAgree'
  BY DEF Remove, TypeOK, IndexesAgree

(* What a script asks for keeps the invariant, from a connection task or   *)
(* from inside a delayed call.                                             *)
LEMMA ScriptKeeps ==
  ASSUME Inv, ScheduleCallOut \/ RemoveCallOutByName,
         UNCHANGED <<now, loop>>, holder' \in Script \cup {Free}
  PROVE  Inv'
<1> USE DEF Inv, loop
<1>1. CASE ScheduleCallOut
  <2>1. PICK i \in Id \ used, t \in Target, f \in Function, d \in Delay,
             r \in Repeating : Add(i, NewTask(t, f, d, r))
    BY <1>1 DEF ScheduleCallOut
  <2>2. NewTask(t, f, d, r) \in CallOutTask
    <3>1. now + d \in Nat /\ r \in BOOLEAN
      BY CallOutAssumption DEF TypeOK
    <3> QED BY <3>1 DEF NewTask, CallOutTask
  <2>3. i \notin tasks \cup due_tasks \cup removed \cup ran \cup {running}
    BY CallOutAssumption DEF TypeOK
  <2>4. removed' = removed
    BY <1>1 DEF ScheduleCallOut
  <2>5. /\ tasks' = tasks \cup {i} /\ used' = used \cup {i}
        /\ \A j \in used : task'[j] = task[j]
    BY <2>1 DEF Add, TypeOK
  <2>6. /\ tasks' \subseteq used' /\ used' \subseteq Id
        /\ task' \in [Id -> CallOutTask \cup {NoId}]
        /\ \A j \in used' : task'[j] \in CallOutTask
        /\ by_target' \in [Target -> SUBSET Id]
        /\ by_function' \in [Function -> SUBSET Id]
        /\ IndexesAgree'
    BY <2>1, <2>2, <2>3, AddKeeps
  <2>7. TypeOK'
    BY <2>4, <2>5, <2>6 DEF TypeOK
  <2>8. RunExcludesRemoval' /\ RunningIsOut'
    BY <2>3, <2>4, <2>5 DEF TypeOK, RunExcludesRemoval, RunningIsOut
  <2> QED BY <2>6, <2>7, <2>8
<1>2. CASE RemoveCallOutByName
  <2>1. PICK t \in Target, f \in Function :
             /\ Remove(Matching(t, f))
             /\ removed' = removed \cup Matching(t, f)
    BY <1>2 DEF RemoveCallOutByName
  <2>2. UNCHANGED <<task, used>>
    BY <1>2 DEF RemoveCallOutByName
  <2>3. Matching(t, f) \subseteq tasks
    BY DEF Matching, GetByTarget
  <2>4. tasks' = tasks \ Matching(t, f)
    BY <2>1 DEF Remove
  <2>5. /\ by_target' \in [Target -> SUBSET Id]
        /\ by_function' \in [Function -> SUBSET Id]
        /\ IndexesAgree'
    BY <2>1, <2>2, RemoveKeeps
  <2>6. TypeOK'
    BY <2>1, <2>2, <2>3, <2>4, <2>5 DEF TypeOK
  <2>7. RunExcludesRemoval' /\ RunningIsOut'
    BY <2>1, <2>2, <2>3, <2>4 DEF TypeOK, RunExcludesRemoval, RunningIsOut
  <2> QED BY <2>5, <2>6, <2>7
<1> QED BY <1>1, <1>2

(* The invariant is inductive. *)
LEMMA InvInductive == Spec => []Inv
<1>1. Init => Inv
  BY CallOutAssumption
     DEF Init, Inv, TypeOK, IndexesAgree, RunExcludesRemoval, RunningIsOut
<1>2. Inv /\ [Next]_vars => Inv'
  <2> SUFFICES ASSUME Inv, [Next]_vars PROVE Inv'
    OBVIOUS
  <2> USE DEF Inv
  <2>1. ASSUME NEW s \in Script, Lock(s) PROVE Inv'
    BY <2>1 DEF Lock, registry, loop, TypeOK, IndexesAgree, RunExcludesRemoval,
                RunningIsOut
  <2>2. ASSUME NEW s \in Script, Operate(s) PROVE Inv'
    BY <2>2, ScriptKeeps DEF Operate
  <2>3. CASE Nested
    <3>1. holder' \in Script \cup {Free}
      BY <2>3 DEF Nested, TypeOK
    <3> QED BY <2>3, <3>1, ScriptKeeps DEF Nested
  <2>4. CASE TakeDue
    <3> DEFINE due == {i \in tasks : IsDue(i)}
    <3>1. /\ due_tasks = {} /\ due_tasks' = due /\ Remove(due)
          /\ running = NoId
          /\ UNCHANGED <<now, holder, task, used, running, ran, removed>>
      BY <2>4 DEF TakeDue
    <3>2. tasks' = tasks \ due
      BY <3>1 DEF Remove
    <3>3. /\ by_target' \in [Target -> SUBSET Id]
          /\ by_function' \in [Function -> SUBSET Id]
          /\ IndexesAgree'
      BY <3>1, RemoveKeeps
    <3>4. due \subseteq tasks
      OBVIOUS
    <3> HIDE DEF due
    <3>5. TypeOK'
      BY <3>1, <3>2, <3>3, <3>4 DEF TypeOK
    <3>6. due_tasks' \cap (tasks' \cup removed') = {}
      BY <3>1, <3>2, <3>4 DEF RunningIsOut
    <3>7. RunExcludesRemoval' /\ RunningIsOut'
      BY <3>1, <3>2, <3>4, <3>6, CallOutAssumption
         DEF TypeOK, RunExcludesRemoval, RunningIsOut
    <3> QED BY <3>3, <3>5, <3>7
  <2>5. ASSUME NEW i \in Id, RunTask(i) PROVE Inv'
    BY <2>5 DEF RunTask, registry, TypeOK, IndexesAgree, RunExcludesRemoval,
                RunningIsOut
  <2>6. CASE FinishTask
    <3>1. /\ running \in used /\ running # NoId /\ running' = NoId
          /\ UNCHANGED <<now, holder, due_tasks, ran, removed>>
      BY <2>6 DEF FinishTask, TypeOK
    <3>2. NoId \notin Id
      BY CallOutAssumption
    <3>3. CASE UNCHANGED <<registry, task, used>>
      BY <3>1, <3>2, <3>3 DEF registry, TypeOK, IndexesAgree, RunExcludesRemoval,
                              RunningIsOut
    <3>4. CASE ~UNCHANGED <<registry, task, used>>
      <4> DEFINE old == task[running]
                 new == NewTask(old.target, old.function, old.delay, TRUE)
      <4>1. Add(running, new)
        BY <2>6, <3>4 DEF FinishTask
      <4>2. running \in Id /\ running \notin tasks /\ old \in CallOutTask
        BY <3>1 DEF TypeOK, RunningIsOut
      <4>3. old.target \in Target /\ old.function \in Function /\ old.delay \in Delay
        BY <4>2 DEF CallOutTask
      <4>4. now + old.delay \in Nat
        <5>1. now \in Nat /\ old.delay \in Nat
          BY <4>3, CallOutAssumption DEF TypeOK
        <5> HIDE DEF old
        <5> QED BY <5>1
      <4>5. new \in CallOutTask /\ new.repeating
        BY <4>3, <4>4 DEF NewTask, CallOutTask
      <4> HIDE DEF new
      <4>6. /\ tasks' = tasks \cup {running} /\ used' = used \cup {running}
            /\ task' = [task EXCEPT ![running] = new]
        BY <4>1 DEF Add
      <4>7. /\ task'[running] = new
            /\ \A j \in used \ {running} : task'[j] = task[j]
        BY <4>2, <4>6 DEF TypeOK
      <4>8. /\ tasks' \subseteq used' /\ used' \subseteq Id
            /\ task' \in [Id -> CallOutTask \cup {NoId}]
            /\ \A j \in used' : task'[j] \in CallOutTask
            /\ by_target' \in [Target -> SUBSET Id]
            /\ by_function' \in [Function -> SUBSET Id]
            /\ IndexesAgree'
        BY <4>1, <4>2, <4>5, AddKeeps
      <4>9. TypeOK'
        BY <3>1, <4>6, <4>8 DEF TypeOK
      <4>10. RunExcludesRemoval' /\ RunningIsOut'
        BY <3>1, <3>2, <4>5, <4>6, <4>7
           DEF TypeOK, RunExcludesRemoval, RunningIsOut
      <4> QED BY <4>8, <4>9, <4>10
    <3> QED BY <3>3, <3>4
  <2>7. CASE Tick
    BY <2>7 DEF Tick, registry, loop, TypeOK, IndexesAgree, RunExcludesRemoval,
                RunningIsOut
  <2>8. CASE UNCHANGED vars
    BY <2>8 DEF vars, registry, loop, TypeOK, IndexesAgree, RunExcludesRemoval,
                RunningIsOut
  <2> QED BY <2>1, <2>2, <2>3, <2>4, <2>5, <2>6, <2>7, <2>8 DEF Next
<1> QED BY <1>1, <1>2, PTL DEF Spec

-----------------------------------------------------------------------------

(* Every reachable state of the scheduler has the declared types: no lock  *)
(* without a holder, no id that was never handed out (call_out.rs).        *)
THEOREM CallOutTyping == Spec => []TypeOK
<1>1. Inv => TypeOK
  BY DEF Inv
<1> QED BY <1>1, InvInductive, PTL

(* The two indexes of the registry list exactly its tasks, whatever scripts *)
(* and the game loop do (CallOutRegistry::add, remove, get_all_due).       *)
THEOREM IndexesExact == Spec => []IndexesAgree
<1>1. Inv => IndexesAgree
  BY DEF Inv
<1> QED BY <1>1, InvInductive, PTL

(* A call that was removed while it was registered is never run, and a     *)
(* call that does not repeat is run at most once (process_due).            *)
THEOREM RunOnce == Spec => []RunExcludesRemoval
<1>1. Inv => RunExcludesRemoval
  BY DEF Inv
<1> QED BY <1>1, InvInductive, PTL

(* A removal by name takes out calls of that name and of nobody else       *)
(* (remove_call_out_by_name).                                              *)
THEOREM RemovalIsNamed == Spec => RemovesOnlyTheNamed
<1>1. ASSUME Inv, [Next]_vars, removed' # removed
      PROVE  \E t \in Target, f \in Function : \A i \in removed' \ removed :
               task[i].target = t /\ task[i].function = f
  <2>1. RemoveCallOutByName
    BY <1>1 DEF Next, vars, loop, Lock, Operate, Nested, ScheduleCallOut, TakeDue,
                RunTask, FinishTask, Tick
  <2>2. PICK t \in Target, f \in Function : removed' = removed \cup Matching(t, f)
    BY <2>1 DEF RemoveCallOutByName
  <2>3. \A i \in Matching(t, f) : task[i].target = t /\ task[i].function = f
    BY <1>1 DEF Inv, IndexesAgree, Matching, GetByTarget
  <2> QED BY <2>2, <2>3
<1>2. Inv /\ [Next]_vars =>
        [removed' # removed =>
           \E t \in Target, f \in Function : \A i \in removed' \ removed :
             task[i].target = t /\ task[i].function = f]_vars
  BY <1>1
<1> QED BY <1>2, InvInductive, PTL DEF Spec, RemovesOnlyTheNamed

-----------------------------------------------------------------------------
(* The registry of unique items (UniqueItems) *)

(* The character of a player that is away is what its user file says, so   *)
(* the next login brings back nothing that was moved elsewhere.            *)
AwayIsSaved == \A p \in Players \ online : copies[Body(p)] = file[p]

IInv == ItemTypeOK /\ NoBodyHoldsTwo /\ AwayIsSaved

-----------------------------------------------------------------------------
(* Places *)

LEMMA PlacesTyped ==
  /\ \A p \in Players : Body(p) \in Places
  /\ \A m \in Mobs : Corpse(m) \in Places
  /\ Floor \in Places /\ Box \in Places
  BY DEF Places, Lasting, Passing

LEMMA PlacesApart ==
  /\ Floor # Box
  /\ \A p \in Players : Body(p) # Floor /\ Body(p) # Box
  /\ \A m \in Mobs : Corpse(m) # Floor /\ Corpse(m) # Box
  /\ \A p \in Players, m \in Mobs : Body(p) # Corpse(m)
  /\ \A p, q \in Players : Body(p) = Body(q) => p = q
  /\ \A p \in Players : Body(p) \notin Passing /\ Body(p)[2] = p
  /\ Box \notin Passing
<1>1. Floor # Box
  BY DEF Floor, Box
<1>2. \A p \in Players : Body(p) # Floor
  BY DEF Body, Floor
<1>3. \A p \in Players : Body(p) # Box
  BY DEF Body, Box
<1>4. \A m \in Mobs : Corpse(m) # Floor
  BY DEF Corpse, Floor
<1>5. \A m \in Mobs : Corpse(m) # Box
  BY DEF Corpse, Box
<1>6. \A p \in Players, m \in Mobs : Body(p) # Corpse(m)
  BY DEF Body, Corpse
<1>7. \A p, q \in Players : Body(p) = Body(q) => p = q
  BY DEF Body
<1>8. \A p \in Players : Body(p)[2] = p
  BY DEF Body
<1>9. \A p \in Players : Body(p) \notin Passing
  BY <1>2, <1>6 DEF Passing
<1>10. Box \notin Passing
  BY <1>1, <1>5 DEF Passing
<1> QED BY <1>1, <1>2, <1>3, <1>4, <1>5, <1>6, <1>7, <1>8, <1>9, <1>10

-----------------------------------------------------------------------------
(* No body holds two *)

(* Every step keeps the typing.                                            *)
LEMMA TypingKept ==
  ASSUME ItemTypeOK, [ItemNext]_itemVars
  PROVE  ItemTypeOK'
<1> USE PlacesTyped DEF ItemTypeOK
<1>1. /\ NoEntry \in Entries
      /\ \A p \in Players : Have(p) \in Entries /\ Dropped(p) \in Entries
                            /\ Kept(p) \in Entries
  BY DEF Entries
<1>2. ASSUME NEW x \in Places, NEW y \in Places, Move(x, y)
      PROVE  copies' \in [Places -> Nat]
  BY <1>2 DEF Move
<1>3. ASSUME NEW x \in Places, Lose(x)
      PROVE  copies' \in [Places -> Nat]
  BY <1>3 DEF Lose
<1>4. ASSUME NEW p \in Players, copies' \in [Places -> Nat], Saved(p)
      PROVE  file' \in [Players -> Nat]
  BY <1>4 DEF Saved
<1>5. ASSUME NEW p \in Players, Session(p) PROVE ItemTypeOK'
  <2>1. CASE Login(p) BY <2>1 DEF Login
  <2>2. CASE Save(p) BY <2>2 DEF Save
  <2>3. CASE Logout(p) BY <2>3 DEF Logout
  <2> QED BY <1>5, <2>1, <2>2, <2>3 DEF Session
<1>6. ASSUME NEW p \in Players, Command(p) PROVE ItemTypeOK'
  <2>0. CASE Create(p) BY <2>0, <1>1 DEF Create
  <2>1. CASE Grant(p) BY <2>1, <1>1 DEF Grant
  <2>2. CASE PickUp(p) BY <2>2, <1>1, <1>2, <1>4 DEF PickUp
  <2>3. CASE Drop(p) BY <2>3, <1>1, <1>2, <1>3 DEF Drop
  <2>4. CASE Die(p) BY <2>4, <1>1, <1>2, <1>3 DEF Die
  <2>5. CASE Put(p) BY <2>5, <1>1, <1>2 DEF Put
  <2>6. CASE Take(p)
    <3>1. PICK n \in 1..copies[Box] :
            copies' = [copies EXCEPT ![Box] = @ - n, ![Body(p)] = 1]
      BY <2>6 DEF Take
    <3>2. copies[Box] - n \in Nat
      BY <3>1
    <3>3. copies' \in [Places -> Nat]
      BY <3>1, <3>2
    <3> QED BY <2>6, <3>3, <1>1 DEF Take
  <2>7. CASE Destroy(p) BY <2>7, <1>1, <1>3, <1>4 DEF Destroy
  <2>8. CASE Consume(p) BY <2>8, <1>3 DEF Consume
  <2>9. CASE Reclaim(p) BY <2>9, <1>1, <1>3, <1>4 DEF Reclaim
  <2>10. ASSUME NEW q \in Players, Give(p, q) PROVE ItemTypeOK'
    BY <2>10, <1>1, <1>2 DEF Give
  <2>11. ASSUME NEW m \in Mobs, Loot(p, m) PROVE ItemTypeOK'
    BY <2>11, <1>1, <1>2 DEF Loot
  <2> QED BY <1>6, <2>0, <2>1, <2>2, <2>3, <2>4, <2>5, <2>6, <2>7, <2>8, <2>9, <2>10,
             <2>11 DEF Command
<1>7. ASSUME World PROVE ItemTypeOK'
  <2>1. CASE Expire BY <2>1, <1>1, <1>3 DEF Expire
  <2>2. CASE Restart
    <3>1. ASSUME NEW x \in Lasting \ {Box} PROVE x[2] \in Players
      BY <3>1, PlacesApart DEF Lasting
    <3>2. copies' \in [Places -> Nat]
      BY <2>2, <3>1 DEF Restart, Places
    <3>3. Loaded \in Entries
      BY <1>1 DEF Loaded
    <3> QED BY <2>2, <3>2, <3>3 DEF Restart
  <2>3. ASSUME NEW m \in Mobs, Kill(m) PROVE ItemTypeOK'
    BY <2>3 DEF Kill
  <2>4. ASSUME NEW m \in Mobs, Decay(m) PROVE ItemTypeOK'
    BY <2>4, <1>2 DEF Decay
  <2>5. ASSUME NEW m \in Mobs, Respawn(m) PROVE ItemTypeOK'
    BY <2>5 DEF Respawn
  <2> QED BY <1>7, <2>1, <2>2, <2>3, <2>4, <2>5 DEF World
<1>8. CASE UNCHANGED itemVars
  BY <1>8 DEF itemVars
<1> QED BY <1>5, <1>6, <1>7, <1>8 DEF ItemNext

(* Every way into a body, or into its user file, keeps it at one.          *)
LEMMA BodiesKept ==
  ASSUME ItemTypeOK, NoBodyHoldsTwo, [ItemNext]_itemVars
  PROVE  NoBodyHoldsTwo'
<1> SUFFICES ASSUME NEW b \in Players
             PROVE  copies'[Body(b)] <= 1 /\ file'[b] <= 1
  BY DEF NoBodyHoldsTwo
<1> USE PlacesTyped, PlacesApart DEF ItemTypeOK, NoBodyHoldsTwo
<1>1. ASSUME NEW x \in Places, NEW y \in Places, Move(x, y),
             \A p \in Players : y = Body(p) => copies[y] = 0
      PROVE  copies'[Body(b)] <= 1
  BY <1>1 DEF Move
<1>2. ASSUME NEW x \in Places, Lose(x)
      PROVE  copies'[Body(b)] <= 1
  BY <1>2 DEF Lose
<1>3. ASSUME NEW p \in Players, copies'[Body(b)] <= 1, Saved(p)
      PROVE  file'[b] <= 1
  BY <1>3 DEF Saved
<1>4. ASSUME NEW p \in Players, Session(p)
      PROVE  copies'[Body(b)] <= 1 /\ file'[b] <= 1
  <2>1. CASE Login(p) BY <2>1 DEF Login
  <2>2. CASE Save(p) BY <2>2 DEF Save
  <2>3. CASE Logout(p) BY <2>3 DEF Logout
  <2> QED BY <1>4, <2>1, <2>2, <2>3 DEF Session
<1>5. ASSUME NEW p \in Players, Command(p)
      PROVE  copies'[Body(b)] <= 1 /\ file'[b] <= 1
  <2>0. CASE Create(p) BY <2>0 DEF Create
  <2>1. CASE Grant(p) BY <2>1 DEF Grant
  <2>2. CASE PickUp(p)
    <3>1. \A q \in Players : Body(p) = Body(q) => copies[Body(p)] = 0
      BY <2>2 DEF PickUp, CanAccept
    <3> QED BY <2>2, <3>1, <1>1, <1>3 DEF PickUp
  <2>3. CASE Drop(p) BY <2>3, <1>1, <1>2 DEF Drop
  <2>4. CASE Die(p) BY <2>4, <1>1, <1>2 DEF Die
  <2>5. CASE Put(p) BY <2>5, <1>1 DEF Put
  <2>6. CASE Take(p)
    <3>1. PICK n \in 1..copies[Box] :
            copies' = [copies EXCEPT ![Box] = @ - n, ![Body(p)] = 1]
      BY <2>6 DEF Take
    <3> QED BY <2>6, <3>1 DEF Take
  <2>7. CASE Destroy(p) BY <2>7, <1>2, <1>3 DEF Destroy
  <2>8. CASE Consume(p) BY <2>8, <1>2 DEF Consume
  <2>9. CASE Reclaim(p) BY <2>9, <1>2, <1>3 DEF Reclaim
  <2>10. ASSUME NEW q \in Players, Give(p, q)
         PROVE  copies'[Body(b)] <= 1 /\ file'[b] <= 1
    <3>1. copies[Body(q)] = 0
      BY <2>10 DEF Give, CanAccept
    <3> QED BY <2>10, <3>1, <1>1 DEF Give
  <2>11. ASSUME NEW m \in Mobs, Loot(p, m)
         PROVE  copies'[Body(b)] <= 1 /\ file'[b] <= 1
    <3>1. copies[Body(p)] = 0
      BY <2>11 DEF Loot, CanAccept
    <3> QED BY <2>11, <3>1, <1>1 DEF Loot
  <2> QED BY <1>5, <2>0, <2>1, <2>2, <2>3, <2>4, <2>5, <2>6, <2>7, <2>8, <2>9, <2>10,
             <2>11 DEF Command
<1>6. ASSUME World
      PROVE  copies'[Body(b)] <= 1 /\ file'[b] <= 1
  <2>1. CASE Expire BY <2>1, <1>2 DEF Expire
  <2>2. CASE Restart BY <2>2 DEF Restart
  <2>3. ASSUME NEW m \in Mobs, Kill(m)
        PROVE  copies'[Body(b)] <= 1 /\ file'[b] <= 1
    BY <2>3 DEF Kill
  <2>4. ASSUME NEW m \in Mobs, Decay(m)
        PROVE  copies'[Body(b)] <= 1 /\ file'[b] <= 1
    BY <2>4, <1>1 DEF Decay
  <2>5. ASSUME NEW m \in Mobs, Respawn(m)
        PROVE  copies'[Body(b)] <= 1 /\ file'[b] <= 1
    BY <2>5 DEF Respawn
  <2> QED BY <1>6, <2>1, <2>2, <2>3, <2>4, <2>5 DEF World
<1>7. CASE UNCHANGED itemVars
  BY <1>7 DEF itemVars
<1> QED BY <1>4, <1>5, <1>6, <1>7 DEF ItemNext

(* What an absent character has is in its file: nothing moves it but       *)
(* Reclaim, which writes the file.                                         *)
LEMMA AwayKept ==
  ASSUME ItemTypeOK, AwayIsSaved, [ItemNext]_itemVars
  PROVE  AwayIsSaved'
<1> SUFFICES ASSUME NEW b \in Players, b \notin online'
             PROVE  copies'[Body(b)] = file'[b]
  BY DEF AwayIsSaved
<1> USE PlacesTyped, PlacesApart DEF ItemTypeOK, AwayIsSaved
<1>1. ASSUME NEW x \in Places, NEW y \in Places, Move(x, y),
             x # Body(b), y # Body(b)
      PROVE  copies'[Body(b)] = copies[Body(b)]
  BY <1>1 DEF Move
<1>2. ASSUME NEW x \in Places, Lose(x), x # Body(b)
      PROVE  copies'[Body(b)] = copies[Body(b)]
  BY <1>2 DEF Lose
<1>3. ASSUME NEW p \in Players, Saved(p), p # b
      PROVE  file'[b] = file[b]
  BY <1>3 DEF Saved
<1>4. ASSUME NEW p \in Players, Session(p)
      PROVE  copies'[Body(b)] = file'[b]
  <2>1. CASE Login(p) BY <2>1 DEF Login
  <2>2. CASE Save(p) BY <2>2 DEF Save
  <2>3. CASE Logout(p) BY <2>3 DEF Logout
  <2> QED BY <1>4, <2>1, <2>2, <2>3 DEF Session
<1>5. ASSUME NEW p \in Players, Command(p)
      PROVE  copies'[Body(b)] = file'[b]
  <2>1. CASE p \in online /\ online' = online
    <3>1. p # b /\ Body(p) # Body(b) /\ copies[Body(b)] = file[b]
      BY <2>1
    <3>0. CASE Create(p) BY <3>0, <3>1 DEF Create
    <3>2. CASE Grant(p) BY <3>2, <3>1 DEF Grant
    <3>3. CASE PickUp(p) BY <3>3, <3>1, <1>1, <1>3 DEF PickUp
    <3>4. CASE Drop(p) BY <3>4, <3>1, <1>1, <1>2 DEF Drop
    <3>5. CASE Die(p) BY <3>5, <3>1, <1>1, <1>2 DEF Die
    <3>6. CASE Put(p) BY <3>6, <3>1, <1>1 DEF Put
    <3>7. CASE Take(p) BY <3>7, <3>1 DEF Take
    <3>8. CASE Destroy(p) BY <3>8, <3>1, <1>2, <1>3 DEF Destroy
    <3>9. CASE Consume(p) BY <3>9, <3>1, <1>2 DEF Consume
    <3>10. CASE Reclaim(p) BY <2>1, <3>10 DEF Reclaim
    <3>11. ASSUME NEW q \in Players, Give(p, q)
           PROVE  copies'[Body(b)] = file'[b]
      <4>1. q # b
        BY <3>11 DEF Give, CanAccept
      <4> QED BY <3>11, <3>1, <4>1, <1>1 DEF Give
    <3>12. ASSUME NEW m \in Mobs, Loot(p, m)
           PROVE  copies'[Body(b)] = file'[b]
      BY <3>12, <3>1, <1>1 DEF Loot
    <3> QED BY <1>5, <3>0, <3>2, <3>3, <3>4, <3>5, <3>6, <3>7, <3>8, <3>9, <3>10,
               <3>11, <3>12 DEF Command
  <2>2. CASE Reclaim(p)
    <3>1. CASE p = b
      BY <2>2, <3>1 DEF Reclaim, Saved
    <3>2. CASE p # b
      BY <2>2, <3>2, <1>2, <1>3 DEF Reclaim
    <3> QED BY <3>1, <3>2
  <2>3. Reclaim(p) \/ (p \in online /\ online' = online)
    BY <1>5 DEF Command, Create, Grant, PickUp, Drop, Die, Put, Take, Destroy, Consume,
       Give, Loot, CanAccept
  <2> QED BY <2>1, <2>2, <2>3
<1>6. ASSUME World
      PROVE  copies'[Body(b)] = file'[b]
  <2>1. CASE Expire BY <2>1, <1>2 DEF Expire
  <2>2. CASE Restart BY <2>2 DEF Restart
  <2>3. ASSUME NEW m \in Mobs, Kill(m)
        PROVE  copies'[Body(b)] = file'[b]
    BY <2>3 DEF Kill
  <2>4. ASSUME NEW m \in Mobs, Decay(m)
        PROVE  copies'[Body(b)] = file'[b]
    BY <2>4, <1>1 DEF Decay
  <2>5. ASSUME NEW m \in Mobs, Respawn(m)
        PROVE  copies'[Body(b)] = file'[b]
    BY <2>5 DEF Respawn
  <2> QED BY <1>6, <2>1, <2>2, <2>3, <2>4, <2>5 DEF World
<1>7. CASE UNCHANGED itemVars
  BY <1>7 DEF itemVars
<1> QED BY <1>4, <1>5, <1>6, <1>7 DEF ItemNext

LEMMA UniqueInduction ==
  /\ ItemInit => IInv
  /\ IInv /\ [ItemNext]_itemVars => IInv'
<1>1. ItemInit => IInv
  BY PlacesTyped DEF ItemInit, IInv, ItemTypeOK, NoBodyHoldsTwo, AwayIsSaved, Entries
<1>2. IInv /\ [ItemNext]_itemVars => IInv'
  BY TypingKept, BodiesKept, AwayKept DEF IInv
<1> QED BY <1>1, <1>2

(* Whatever duplicates there are, no body and no user file ever holds two  *)
(* objects of the item (can_accept_object before every way in).            *)
THEOREM BodyHoldsOne == ItemSpec => []NoBodyHoldsTwo
<1>1. IInv => NoBodyHoldsTwo
  BY DEF IInv
<1> QED BY UniqueInduction, <1>1, PTL DEF ItemSpec

-----------------------------------------------------------------------------
(* Unique as long as no corpse has it *)

(* With at most one object about, moving it leaves one, at the new place,  *)
(* and losing it leaves none.                                              *)
LEMMA MoveKeepsOne ==
  ASSUME ItemTypeOK, OneCopy, NEW x \in Places, NEW y \in Places, x # y, Move(x, y)
  PROVE  /\ \A z \in Places : copies'[z] = IF z = y THEN 1 ELSE 0
         /\ OneCopy'
<1>1. copies[x] = 1 /\ \A z \in Places \ {x} : copies[z] = 0
  BY DEF Move, OneCopy, ItemTypeOK
<1>2. \A z \in Places : copies'[z] = IF z = y THEN 1 ELSE 0
  BY <1>1 DEF Move, ItemTypeOK
<1> QED BY <1>2 DEF OneCopy

LEMMA LoseLeavesNone ==
  ASSUME ItemTypeOK, OneCopy, NEW x \in Places, Lose(x)
  PROVE  OneCopy' /\ Recorded'
<1>1. copies[x] = 1 /\ \A z \in Places \ {x} : copies[z] = 0
  BY DEF Lose, OneCopy, ItemTypeOK
<1>2. \A z \in Places : copies'[z] = 0
  BY <1>1 DEF Lose, ItemTypeOK
<1> QED BY <1>2, PlacesTyped DEF OneCopy, Recorded

(* A step that moves the object and writes the entry of the new place.     *)
LEMMA MoveRecorded ==
  ASSUME ItemTypeOK, OneCopy, NEW x \in Places, NEW y \in Places, x # y, Move(x, y),
         \A p \in Players : y = Body(p) => entry' = Have(p),
         y = Floor => entry'.state = "dropped",
         y = Box => entry'.state = "kept"
  PROVE  OneCopy' /\ Recorded'
<1>1. /\ \A z \in Places : copies'[z] = IF z = y THEN 1 ELSE 0
      /\ OneCopy'
  BY MoveKeepsOne
<1>2. \A z \in Places : copies'[z] > 0 => z = y
  BY <1>1
<1> QED BY <1>1, <1>2, PlacesTyped DEF Recorded

LEMMA EntriesApart ==
  /\ NoEntry.state = "none"
  /\ \A p \in Players : Have(p).state = "have" /\ Have(p) # NoEntry
  BY DEF NoEntry, Have

(* A free entry means that there is no object but in a corpse, and what an   *)
(* administrator or a corpse's roll that then makes one makes the first.                 *)
LEMMA NoEntryNoObject ==
  ASSUME ItemTypeOK, Recorded, ~InACorpse, entry = NoEntry
  PROVE  \A x \in Places : copies[x] = 0
<1>1. \A p \in Players : copies[Body(p)] = 0
  <2>1. \A p \in Players : entry # Have(p)
    BY EntriesApart
  <2> QED BY <2>1, PlacesTyped DEF Recorded, ItemTypeOK
<1>2. copies[Floor] = 0 /\ copies[Box] = 0
  BY EntriesApart, PlacesTyped DEF Recorded, ItemTypeOK
<1>3. \A m \in Mobs : copies[Corpse(m)] = 0
  BY PlacesTyped DEF InACorpse, ItemTypeOK
<1> QED BY <1>1, <1>2, <1>3 DEF Places, Lasting, Passing

(* The steps that change neither the objects nor the entry.                *)
LEMMA StillRecorded ==
  ASSUME OneCopy, Recorded, UNCHANGED <<copies, entry>>
  PROVE  OneCopy' /\ Recorded'
  BY DEF OneCopy, Recorded

(* A stop that loses no unsaved body: the user files hold what the bodies  *)
(* held, so only the floor and the corpses are emptied, and the entry that *)
(* is forgotten is that of the floor.                                      *)
LEMMA RestartRecorded ==
  ASSUME IInv, OneCopy, Recorded, Restart, AllSaved
  PROVE  OneCopy' /\ Recorded'
<1> USE PlacesTyped, PlacesApart DEF IInv, ItemTypeOK
<1>1. \A p \in Players : copies'[Body(p)] = copies[Body(p)]
  BY DEF Restart, AllSaved, AwayIsSaved
<1>2. copies'[Box] = copies[Box]
  BY DEF Restart
<1>3. \A x \in Passing : copies'[x] = 0
  BY DEF Restart, Places
<1>4. \A x \in Places : copies'[x] > 0 => copies'[x] = copies[x]
  BY <1>1, <1>2, <1>3 DEF Places, Lasting
<1>5. OneCopy'
  BY <1>4 DEF OneCopy
<1>6. copies'[Floor] = 0
  BY <1>3 DEF Passing
<1>7. \A p \in Players : copies'[Body(p)] > 0 => entry' = Have(p)
  BY <1>1, EntriesApart DEF Recorded, Restart, Loaded
<1>8. copies'[Box] > 0 => entry'.state = "kept"
  BY <1>2 DEF Recorded, Restart, Loaded
<1> QED BY <1>5, <1>6, <1>7, <1>8 DEF Recorded

LEMMA StepKeepsUnique ==
  ASSUME IInv, OneCopy, Recorded, ~InACorpse, Restart => AllSaved, ItemNext,
         Exists => ~ \E p \in Players : Grant(p)
  PROVE  OneCopy' /\ Recorded'
<1> USE PlacesTyped, PlacesApart
<1>1. ItemTypeOK
  BY DEF IInv
<1>2. ASSUME NEW p \in Players, Session(p) PROVE OneCopy' /\ Recorded'
  <2>1. CASE Login(p)
    <3>1. copies'[Body(p)] = copies[Body(p)]
      BY <2>1, <1>1 DEF Login, IInv, AwayIsSaved, ItemTypeOK
    <3>2. copies' = copies
      BY <2>1, <3>1, <1>1 DEF Login, ItemTypeOK
    <3> QED BY <2>1, <3>2, StillRecorded DEF Login
  <2>2. CASE Save(p) BY <2>2, StillRecorded DEF Save
  <2>3. CASE Logout(p) BY <2>3, StillRecorded DEF Logout
  <2> QED BY <1>2, <2>1, <2>2, <2>3 DEF Session
<1>3. ASSUME NEW p \in Players, Command(p) PROVE OneCopy' /\ Recorded'
  <2>0. CASE Create(p)
    <3>1. \A x \in Places : copies[x] = 0
      BY <2>0, <1>1, NoEntryNoObject DEF Create
    <3>2. PICK n \in 0..1 : copies' = [copies EXCEPT ![Body(p)] = n]
      BY <2>0 DEF Create
    <3>3. \A x \in Places : copies'[x] = IF x = Body(p) THEN n ELSE 0
      BY <3>2, <3>1, <1>1 DEF ItemTypeOK
    <3>4. \A x \in Places : copies'[x] > 0 => x = Body(p) /\ copies'[x] = 1
      BY <3>3
    <3> QED BY <2>0, <3>4 DEF Create, OneCopy, Recorded
  <2>1. CASE Grant(p)
    <3>1. \A x \in Places : copies[x] = 0
      BY <2>1, <1>1 DEF Exists, ItemTypeOK
    <3>2. \A x \in Places : copies'[x] = IF x = Body(p) THEN 1 ELSE 0
      BY <2>1, <3>1, <1>1 DEF Grant, ItemTypeOK
    <3> QED BY <2>1, <3>2 DEF Grant, OneCopy, Recorded
  <2>2. CASE PickUp(p) BY <2>2, <1>1, MoveRecorded DEF PickUp
  <2>3. CASE Drop(p)
    BY <2>3, <1>1, MoveRecorded, LoseLeavesNone DEF Drop, Dropped
  <2>4. CASE Die(p)
    BY <2>4, <1>1, MoveRecorded, LoseLeavesNone DEF Die, Dropped
  <2>5. CASE Put(p) BY <2>5, <1>1, MoveRecorded DEF Put, Kept
  <2>6. CASE Take(p)
    <3>1. PICK n \in 1..copies[Box] :
            copies' = [copies EXCEPT ![Box] = @ - n, ![Body(p)] = 1]
      BY <2>6 DEF Take
    <3>2. copies[Box] = 1 /\ \A x \in Places \ {Box} : copies[x] = 0
      BY <3>1, <1>1 DEF OneCopy, ItemTypeOK
    <3>3. \A x \in Places : copies'[x] = IF x = Body(p) THEN 1 ELSE 0
      BY <3>1, <3>2, <1>1 DEF ItemTypeOK
    <3>4. \A x \in Places : copies'[x] > 0 => x = Body(p) /\ copies'[x] = 1
      BY <3>3
    <3>5. OneCopy'
      BY <3>4 DEF OneCopy
    <3>6. Recorded'
      BY <2>6, <3>4 DEF Take, Recorded
    <3> QED BY <3>5, <3>6
  <2>7. CASE Destroy(p) BY <2>7, <1>1, LoseLeavesNone DEF Destroy
  <2>8. CASE Consume(p) BY <2>8, <1>1, LoseLeavesNone DEF Consume
  <2>9. CASE Reclaim(p) BY <2>9, <1>1, LoseLeavesNone DEF Reclaim
  <2>10. ASSUME NEW q \in Players, Give(p, q) PROVE OneCopy' /\ Recorded'
    <3>1. Body(p) # Body(q)
      BY <2>10 DEF Give
    <3>2. \A r \in Players : Body(q) = Body(r) => entry' = Have(r)
      BY <2>10 DEF Give
    <3> QED BY <2>10, <3>1, <3>2, <1>1, MoveRecorded DEF Give
  <2>11. ASSUME NEW m \in Mobs, Loot(p, m) PROVE FALSE
    BY <2>11 DEF Loot, Move, InACorpse
  <2> QED BY <1>3, <2>0, <2>1, <2>2, <2>3, <2>4, <2>5, <2>6, <2>7, <2>8, <2>9, <2>10,
             <2>11 DEF Command
<1>4. ASSUME World PROVE OneCopy' /\ Recorded'
  <2>1. CASE Expire BY <2>1, <1>1, LoseLeavesNone DEF Expire
  <2>2. CASE Restart BY <2>2, RestartRecorded
  <2>3. ASSUME NEW m \in Mobs, Kill(m) PROVE OneCopy' /\ Recorded'
    <3>1. CASE UNCHANGED copies
      BY <2>3, <3>1, StillRecorded DEF Kill
    <3>2. CASE entry = NoEntry /\ copies' = [copies EXCEPT ![Corpse(m)] = 1]
      <4>1. \A x \in Places : copies[x] = 0
        BY <3>2, <1>1, NoEntryNoObject
      <4>2. \A x \in Places : copies'[x] = IF x = Corpse(m) THEN 1 ELSE 0
        BY <3>2, <4>1, <1>1 DEF ItemTypeOK
      <4> QED BY <4>2 DEF OneCopy, Recorded
    <3> QED BY <2>3, <3>1, <3>2 DEF Kill
  <2>4. ASSUME NEW m \in Mobs, Decay(m) PROVE FALSE
    BY <2>4 DEF Decay, Move, InACorpse
  <2>5. ASSUME NEW m \in Mobs, Respawn(m) PROVE OneCopy' /\ Recorded'
    BY <2>5, StillRecorded DEF Respawn
  <2> QED BY <1>4, <2>1, <2>2, <2>3, <2>4, <2>5 DEF World
<1> QED BY <1>2, <1>3, <1>4 DEF ItemNext

(* As long as no corpse has the item, no event gives it while it exists    *)
(* and no unsaved body is lost, it stays the only one and its entry stays  *)
(* true, through every other command, death, expiry, logout and restart.   *)
THEOREM StaysUnique == ItemSpec => NothingElseDoubles
<1>1. IInv /\ [ItemNext]_itemVars
        => [ /\ OneCopy /\ Recorded
             /\ ~InACorpse
             /\ Exists => ~ \E p \in Players : Grant(p)
             /\ Restart => AllSaved
             => OneCopy' /\ Recorded' ]_itemVars
  BY StepKeepsUnique
<1> QED BY UniqueInduction, <1>1, PTL DEF ItemSpec, NothingElseDoubles
=============================================================================
