---------------------------- MODULE RoomDialogue ----------------------------
(***************************************************************************)
(* Timed room dialogue (docs/TIMED_ROOM_DIALOGUE.md): a player enters a    *)
(* room with a guide, the guide's entry event asks for some lines, one     *)
(* every Interval seconds, each a call_out of its own; a line is shown if  *)
(* the player is still in that room on that visit when its call runs.      *)
(*                                                                         *)
(* One player, who walks, is carried around, and reconnects.  A command    *)
(* runs to its end under the lock of the clients, so entering with its     *)
(* entry event is one step; a delivery takes that lock twice, to decide    *)
(* and to send, so it is two.                                              *)
(***************************************************************************)
EXTENDS Integers, Sequences

CONSTANTS Room,
          Guided,     \* rooms with a guide
          Carried,    \* rooms a summons or a death may bring the player to
          Interval,   \* seconds between lines, as the script gives it
          Lines,      \* lines in the sequence
          MaxLag,     \* seconds the game loop may be late
          MaxMoves,   \* bound: changes of place
          MaxTime     \* bound: seconds

ASSUME DialogueAssumption ==
  /\ Guided \subseteq Room /\ Carried \subseteq Room
  /\ Interval \in Int
  /\ Lines \in Nat /\ MaxLag \in Nat /\ MaxMoves \in Nat /\ MaxTime \in Nat

(* TimedRoomDialogueRequest and the call_out around it; stay is a history. *)
Request == [conn : Nat, room : Room, visit_token : Nat \ {0}, line : 1..Lines,
            at : Nat, stay : Nat]

VARIABLES
  now,          \* seconds
  last_pass,    \* when the game loop last came round
  room,         \* the player's position in the world
  conn,         \* connection token
  visit_token,  \* temp of the body: token of the last entry sequence, 0 for none
  tokens,       \* tokens given out
  tasks,        \* registered call_outs
  due_tasks,    \* taken by the game loop, not yet run
  message,      \* the request whose line was decided on and is to be sent
  heard,        \* history: requests that were shown
  stay,         \* history: which stay this is, counting every change of place
  since,        \* history: the stay in which visit_token was set
  brought       \* history: this stay began without an entry event

place == <<room, conn, visit_token, tokens, stay, since, brought>>
loop  == <<due_tasks, message, heard>>
vars  == <<now, last_pass, place, tasks, loop>>

TypeOK ==
  /\ now \in Nat /\ last_pass \in Nat
  /\ room \in Room
  /\ conn \in Nat /\ visit_token \in Nat /\ tokens \in Nat
  /\ stay \in Nat /\ since \in 0..stay /\ brought \in BOOLEAN
  /\ tasks \subseteq Request /\ due_tasks \subseteq Request
  /\ message \subseteq Request
  /\ heard \in Seq(Request)

Init ==
  /\ now = 0 /\ last_pass = 0
  /\ room \in Room \ Guided
  /\ conn = 0 /\ visit_token = 0 /\ tokens = 0 /\ stay = 0 /\ since = 0
  /\ brought = FALSE
  /\ tasks = {} /\ due_tasks = {} /\ message = {} /\ heard = <<>>

-----------------------------------------------------------------------------

(* (mutant) the whole sequence comes after one interval *)
Delay_Flat(line) == IF Interval > 0 THEN Interval ELSE 0

(* The delay of a line; a negative interval counts as none. *)
Delay(line) == (IF Interval > 0 THEN Interval ELSE 0) * line

(* (mutant) the requests carry the token found in the body *)
Requests_OldToken(c, r, token) ==
  {[conn |-> c, room |-> r, visit_token |-> visit_token, line |-> l,
    at |-> now + Delay(l), stay |-> stay + 1] : l \in 1..Lines}

(* The requests that queue_timed_room_dialogues leaves in the body. *)
Requests(c, r, token) ==
  {[conn |-> c, room |-> r, visit_token |-> token, line |-> l,
    at |-> now + Delay(l), stay |-> stay + 1] : l \in 1..Lines}

(* schedule_timed_room_dialogues, at the end of the command. *)
Schedule(requests) == tasks' = tasks \cup requests

(* The entry events of room r, for a body with that token in its temp. *)
EntryEvents(c, r, token) ==
  \/ /\ r \in Guided
     /\ now + Delay(Lines) <= MaxTime
     /\ tokens' = tokens + 1
     /\ visit_token' = tokens + 1
     /\ since' = stay + 1
     /\ Schedule(Requests(c, r, tokens + 1))
  \/ /\ r \notin Guided
     /\ visit_token' = token
     /\ UNCHANGED <<tokens, tasks, since>>

(* Walking, fleeing and returning home. *)
Enter(r) ==
  /\ stay < MaxMoves
  /\ r # room
  /\ room' = r
  /\ stay' = stay + 1 /\ brought' = FALSE
  /\ EntryEvents(conn, r, visit_token)
  /\ UNCHANGED <<now, last_pass, conn, loop>>

(* The connection ends and the player logs in again, with a fresh body. *)
Reconnect(r) ==
  /\ stay < MaxMoves
  /\ conn' = conn + 1
  /\ room' = r
  /\ stay' = stay + 1 /\ brought' = FALSE
  /\ EntryEvents(conn + 1, r, 0)
  /\ UNCHANGED <<now, last_pass, loop>>

(* A summons, or the way to the room of the dead: the position changes, no *)
(* entry event runs, and the body keeps the token of its last visit.       *)
Carry(r) ==
  /\ stay < MaxMoves
  /\ r \in Carried \ {room}
  /\ room' = r
  /\ stay' = stay + 1 /\ brought' = TRUE
  /\ UNCHANGED <<now, last_pass, conn, visit_token, tokens, since, tasks, loop>>

-----------------------------------------------------------------------------
(* The game loop *)

(* process_due takes out what is due. *)
TakeDue ==
  /\ due_tasks = {} /\ message = {}
  /\ last_pass # now \/ \E q \in tasks : q.at <= now
  /\ last_pass' = now
  /\ due_tasks' = {q \in tasks : q.at <= now}
  /\ tasks' = {q \in tasks : q.at > now}
  /\ UNCHANGED <<now, place, message, heard>>

(* (mutant) only the room is compared *)
StillThere_Room(q) == q.conn = conn /\ q.room = room

(* Same connection, same room, same visit. *)
StillThere(q) == q.conn = conn /\ q.room = room /\ q.visit_token = visit_token

(* deliver_timed_room_dialogue, for the batch in any order.  What is said  *)
(* is decided on the player's body,                                        *)
Decide(q) ==
  /\ message = {}
  /\ q \in due_tasks
  /\ due_tasks' = due_tasks \ {q}
  /\ message' = IF StillThere(q) THEN {q} ELSE {}
  /\ UNCHANGED <<now, last_pass, place, tasks, heard>>

(* and sent once the lock of the clients was given back and taken again.   *)
Send ==
  /\ \E q \in message :
       heard' = IF q.conn = conn THEN Append(heard, q) ELSE heard
  /\ message' = {}
  /\ UNCHANGED <<now, last_pass, place, tasks, due_tasks>>

(* The loop is never later than MaxLag. *)
Tick ==
  /\ now < MaxTime
  /\ now - last_pass < MaxLag
  /\ now' = now + 1
  /\ UNCHANGED <<last_pass, place, tasks, loop>>

Next ==
  \/ \E r \in Room : Enter(r) \/ Reconnect(r) \/ Carry(r)
  \/ \E q \in due_tasks : Decide(q)
  \/ Send \/ TakeDue \/ Tick

Spec == Init /\ [][Next]_vars

(* The loop comes round, finishes its batch, and the clock goes on. *)
FairSpec == /\ Spec
            /\ WF_vars(TakeDue)
            /\ WF_vars(\E q \in due_tasks : Decide(q))
            /\ WF_vars(Send)
            /\ WF_vars(Tick)

-----------------------------------------------------------------------------
(* Properties *)

(* What was shown of a visit, in the order it was shown. *)
Heard(token) == SelectSeq(heard, LAMBDA q : q.visit_token = token)

(* The lines of a visit are shown in their order and each once: when one is *)
(* shown, those shown before are earlier lines (TIMED_ROOM_DIALOGUE.md:4,   *)
(* call_outs that come out of a HashMap), wherever the player was meanwhile. *)
HeardBefore(i) ==
  {heard[j].line : j \in {k \in 1..(i - 1) : heard[k].visit_token = heard[i].visit_token}}
InOrder ==
  \A i \in 1..Len(heard) : HeardBefore(i) \subseteq 1..(heard[i].line - 1)

HeardLine(token, l) ==
  \E i \in 1..Len(heard) : heard[i].visit_token = token /\ heard[i].line = l

(* Who stays misses none: a line that is decided on during the stay it was *)
(* asked for finds all the earlier ones shown.  (Whoever was carried away  *)
(* and back may have missed some.)                                         *)
NoneLeftOut == [][
  \A q \in message' \ message : q.stay = stay =>
    \A l \in 1..(q.line - 1) : HeardLine(q.visit_token, l) ]_vars

(* docs/TIMED_ROOM_DIALOGUE.md:22: nothing more is shown once the player   *)
(* left the room or reconnected.  (The code does not keep this when a      *)
(* summons brings the player back: see RoomDialogue_summons.)              *)
LeavingStops ==
  [][message' # message => \A q \in message' : q.stay = stay]_vars

(* What the code keeps of it (deliver_timed_room_dialogue): whoever left,   *)
(* walked anywhere, died or reconnected is shown a line again only if it    *)
(* was brought back into the room, and met no other guide meanwhile.  Who   *)
(* comes back on foot hears nothing of the earlier visit.                   *)
OnlyIfBroughtBack == [][
  \A q \in message' \ message : q.stay = since /\ (q.stay = stay \/ brought) ]_vars

(* A player who stays hears every line (deliver_timed_room_dialogue never  *)
(* takes the visit for another one, the game loop runs what is due).       *)
StayingHearsAll ==
  \A token \in 1..MaxMoves :
    (visit_token = token) ~>
      (visit_token # token \/ stay # since \/ Len(Heard(token)) = Lines)
=============================================================================
