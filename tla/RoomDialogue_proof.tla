------------------------- MODULE RoomDialogue_proof -------------------------
(***************************************************************************)
(* Leaving a room ends its dialogue until somebody brings the player back, *)
(* for every interval, any number of lines and rooms and a game loop        *)
(* however late.  The lines of a visit are shown in order, and to who stays *)
(* without a gap, if the interval is positive and the loop is never later   *)
(* than one interval.                                                      *)
(***************************************************************************)
EXTENDS RoomDialogue, TLAPS

Pending == tasks \cup due_tasks

(* A call waits for a token that was given out, in a room with a guide, for *)
(* the stay in which the token was given.                                  *)
PendingOfItsVisit ==
  \A q \in Pending : /\ q.room \in Guided
                     /\ q.visit_token <= tokens
                     /\ q.stay <= stay
                     /\ q.visit_token = visit_token => q.stay = since

(* A player is in a room with a guide since its entry event, which set the  *)
(* token, or since it was brought there.                                   *)
GuidedByEntry == room \in Guided => since = stay \/ brought

Inv == TypeOK /\ PendingOfItsVisit /\ GuidedByEntry /\ visit_token <= tokens

-----------------------------------------------------------------------------

(* The delay of a line is a number of seconds (saturating at none). *)
LEMMA DelayIsNat ==
  ASSUME NEW l \in Nat PROVE Delay(l) \in Nat
<1>1. CASE Interval > 0
  <2>1. Interval \in Nat
    BY <1>1, DialogueAssumption
  <2>2. Interval * l \in Nat
    BY <2>1
  <2> QED BY <1>1, <2>2 DEF Delay
<1>2. CASE ~(Interval > 0)
  BY <1>2 DEF Delay
<1> QED BY <1>1, <1>2

(* The calls of an entry are well formed and carry its token and its stay. *)
LEMMA RequestsTyped ==
  ASSUME TypeOK, NEW c \in Nat, NEW r \in Room, NEW token \in Nat \ {0}
  PROVE  /\ Requests(c, r, token) \subseteq Request
         /\ \A q \in Requests(c, r, token) :
              q.room = r /\ q.visit_token = token /\ q.stay = stay + 1
<1>1. ASSUME NEW l \in 1..Lines
      PROVE  now + Delay(l) \in Nat
  <2>1. Delay(l) \in Nat
    BY DelayIsNat, DialogueAssumption
  <2>2. now \in Nat
    BY DEF TypeOK
  <2> QED BY <2>1, <2>2
<1>2. stay + 1 \in Nat
  BY DEF TypeOK
<1> QED BY <1>1, <1>2 DEF Requests, Request

(* An entry event, or its absence, keeps the invariant, whether the body   *)
(* kept its token (walking) or is a fresh one (login).                     *)
LEMMA EntryKeeps ==
  ASSUME Inv, NEW r \in Room, NEW c \in Nat, NEW token \in {0, visit_token},
         EntryEvents(c, r, token),
         room' = r, conn' = c, stay' = stay + 1, brought' = FALSE,
         UNCHANGED <<now, last_pass, loop>>
  PROVE  Inv'
<1> USE DEF Inv, loop
<1>1. CASE r \in Guided
  <2>1. /\ tokens' = tokens + 1 /\ visit_token' = tokens + 1 /\ since' = stay + 1
        /\ tasks' = tasks \cup Requests(c, r, tokens + 1)
    BY <1>1 DEF EntryEvents, Schedule
  <2>2. tokens + 1 \in Nat \ {0}
    BY DEF TypeOK
  <2>3. /\ Requests(c, r, tokens + 1) \subseteq Request
        /\ \A q \in Requests(c, r, tokens + 1) :
             q.room = r /\ q.visit_token = tokens + 1 /\ q.stay = stay + 1
    BY <2>2, RequestsTyped
  <2>8. since' \in 0..stay' /\ stay' \in Nat
    BY <2>1 DEF TypeOK
  <2>9. tasks' \subseteq Request
    BY <2>1, <2>3 DEF TypeOK
  <2>4. TypeOK'
    BY <2>1, <2>2, <2>8, <2>9 DEF TypeOK
  <2>5. ASSUME NEW q \in Pending'
        PROVE  /\ q.room \in Guided
               /\ q.visit_token <= tokens'
               /\ q.stay <= stay'
               /\ q.visit_token = visit_token' => q.stay = since'
    <3>1. CASE q \in Pending
      <4>1. /\ q.room \in Guided /\ q.visit_token <= tokens /\ q.visit_token \in Nat
            /\ q.stay \in Nat /\ q.stay <= stay
        BY <3>1 DEF PendingOfItsVisit, Pending, TypeOK, Request
      <4>2. q.visit_token # visit_token' /\ q.visit_token <= tokens'
        BY <2>1, <4>1 DEF TypeOK
      <4>3. q.stay <= stay'
        BY <4>1 DEF TypeOK
      <4> QED BY <4>1, <4>2, <4>3
    <3>2. CASE q \in Requests(c, r, tokens + 1)
      <4>1. q.room = r /\ q.visit_token = tokens + 1 /\ q.stay = stay + 1
        BY <2>3, <3>2
      <4> QED BY <1>1, <2>1, <2>2, <4>1 DEF TypeOK
    <3> QED BY <2>1, <2>5, <3>1, <3>2 DEF Pending
  <2>6. visit_token' <= tokens'
    BY <2>1, <2>2
  <2>7. GuidedByEntry'
    BY <2>1 DEF GuidedByEntry
  <2> QED BY <2>4, <2>5, <2>6, <2>7 DEF PendingOfItsVisit
<1>2. CASE r \notin Guided
  <2>1. visit_token' = token /\ UNCHANGED <<tokens, tasks, since>>
    BY <1>2 DEF EntryEvents
  <2>6. since' \in 0..stay' /\ stay' \in Nat
    BY <2>1 DEF TypeOK
  <2>7. visit_token' \in Nat
    BY <2>1 DEF TypeOK
  <2>2. TypeOK'
    BY <2>1, <2>6, <2>7 DEF TypeOK
  <2>3. \A q \in Pending : q.visit_token # 0 /\ q.stay <= stay'
    BY DEF PendingOfItsVisit, Pending, TypeOK, Request
  <2>4. PendingOfItsVisit'
    BY <2>1, <2>3 DEF PendingOfItsVisit, Pending
  <2>5. GuidedByEntry'
    BY <1>2 DEF GuidedByEntry
  <2> QED BY <2>1, <2>2, <2>4, <2>5 DEF TypeOK
<1> QED BY <1>1, <1>2

(* The invariant is inductive. *)
LEMMA InvInductive == Spec => []Inv
<1>1. Init => Inv
  <2> SUFFICES ASSUME Init PROVE Inv
    OBVIOUS
  <2>1. heard \in Seq(Request)
    BY DEF Init
  <2>4. brought \in BOOLEAN
    BY DEF Init
  <2>5. /\ now \in Nat /\ last_pass \in Nat /\ room \in Room /\ conn \in Nat
        /\ visit_token \in Nat /\ tokens \in Nat /\ stay \in Nat /\ since \in 0..stay
    BY DEF Init
  <2>6. tasks \subseteq Request /\ due_tasks \subseteq Request /\ message \subseteq Request
    BY DEF Init
  <2>2. TypeOK
    BY <2>1, <2>4, <2>5, <2>6 DEF TypeOK
  <2>3. PendingOfItsVisit /\ GuidedByEntry /\ visit_token <= tokens
    BY DEF Init, PendingOfItsVisit, Pending, GuidedByEntry
  <2> QED BY <2>2, <2>3 DEF Inv
<1>2. Inv /\ [Next]_vars => Inv'
  <2> SUFFICES ASSUME Inv, [Next]_vars PROVE Inv'
    OBVIOUS
  <2> USE DEF Inv
  <2>1. ASSUME NEW r \in Room, Enter(r) PROVE Inv'
    BY <2>1, EntryKeeps DEF Enter, TypeOK
  <2>2. ASSUME NEW r \in Room, Reconnect(r) PROVE Inv'
    <3>1. conn + 1 \in Nat
      BY DEF TypeOK
    <3> QED BY <2>2, <3>1, EntryKeeps DEF Reconnect
  <2>3. ASSUME NEW r \in Room, Carry(r) PROVE Inv'
    <3>1. TypeOK'
      BY <2>3, DialogueAssumption DEF Carry, loop, TypeOK
    <3>2. \A q \in Pending : q.stay <= stay'
      BY <2>3 DEF Carry, PendingOfItsVisit, Pending, TypeOK, Request
    <3>3. PendingOfItsVisit'
      BY <2>3, <3>2 DEF Carry, loop, PendingOfItsVisit, Pending
    <3>4. GuidedByEntry'
      BY <2>3 DEF Carry, GuidedByEntry
    <3> QED BY <2>3, <3>1, <3>3, <3>4 DEF Carry
  <2>4. ASSUME NEW q \in due_tasks, Decide(q) PROVE Inv'
    <3>1. TypeOK'
      BY <2>4 DEF Decide, place, TypeOK
    <3> QED BY <2>4, <3>1 DEF Decide, place, PendingOfItsVisit, Pending, GuidedByEntry
  <2>8. CASE Send
    <3>1. PICK q \in message :
            heard' = IF q.conn = conn THEN Append(heard, q) ELSE heard
      BY <2>8 DEF Send
    <3>2. heard' \in Seq(Request)
      BY <3>1 DEF TypeOK
    <3>3. TypeOK'
      BY <2>8, <3>2 DEF Send, place, TypeOK
    <3> QED BY <2>8, <3>3 DEF Send, place, PendingOfItsVisit, Pending, GuidedByEntry
  <2>5. CASE TakeDue
    <3>1. TypeOK'
      BY <2>5 DEF TakeDue, place, TypeOK
    <3> QED BY <2>5, <3>1 DEF TakeDue, place, PendingOfItsVisit, Pending, GuidedByEntry
  <2>6. CASE Tick
    <3>1. TypeOK'
      BY <2>6 DEF Tick, place, loop, TypeOK
    <3> QED BY <2>6, <3>1 DEF Tick, place, loop, PendingOfItsVisit, Pending, GuidedByEntry
  <2>7. CASE UNCHANGED vars
    BY <2>7 DEF vars, place, loop, TypeOK, PendingOfItsVisit, Pending, GuidedByEntry
  <2> QED BY <2>1, <2>2, <2>3, <2>4, <2>5, <2>6, <2>7, <2>8 DEF Next
<1> QED BY <1>1, <1>2, PTL DEF Spec

-----------------------------------------------------------------------------

(* Whoever left is shown a line of a visit only if it was brought back to   *)
(* the room without the entry event, and the token is still that of the    *)
(* visit, in whatever order the scheduler runs the calls and however late   *)
(* it is (deliver_timed_room_dialogue).                                    *)
THEOREM LeavingEndsDialogue == Spec => OnlyIfBroughtBack
<1>1. ASSUME Inv, [Next]_vars, NEW q \in message' \ message
      PROVE  q.stay = since /\ (q.stay = stay \/ brought)
  <2>1. PICK d \in due_tasks : Decide(d)
    BY <1>1 DEF Next, vars, loop, Enter, Reconnect, Carry, TakeDue, Tick, Send
  <2>2. q = d /\ StillThere(d)
    BY <1>1, <2>1 DEF Decide
  <2>3. q.room \in Guided /\ q.stay = since
    BY <1>1, <2>2 DEF StillThere, Inv, PendingOfItsVisit, Pending
  <2> QED
    BY <1>1, <2>2, <2>3 DEF StillThere, Inv, GuidedByEntry
<1>2. Inv /\ [Next]_vars =>
        [\A q \in message' \ message :
           q.stay = since /\ (q.stay = stay \/ brought)]_vars
  BY <1>1
<1> QED BY <1>2, InvInductive, PTL DEF Spec, OnlyIfBroughtBack

-----------------------------------------------------------------------------
(* The order of the lines.  It needs that the lines are apart in time, and *)
(* that the loop comes round within an interval: then no batch holds two   *)
(* lines of one visit, in whatever order it is run.                        *)

Waiting == Pending \cup message

Clock == /\ last_pass <= now /\ now - last_pass <= MaxLag
         /\ \A q \in tasks : q.at > last_pass
         /\ \A q \in due_tasks : q.at <= last_pass

(* The calls of one visit are made for one place, and apart in time. *)
Apart ==
  \A q, p \in Waiting : q.visit_token = p.visit_token =>
    /\ q.conn = p.conn /\ q.room = p.room
    /\ q.line = p.line => q = p
    /\ q.line < p.line => q.at + Interval <= p.at

(* What is being run of a visit is one line, and its next one. *)
Single ==
  /\ \A q, p \in due_tasks : q.visit_token = p.visit_token => q = p
  /\ \A q, p \in message : q = p
  /\ \A q \in message, p \in Pending : q.visit_token = p.visit_token => q.line < p.line

Tokens == /\ \A q \in Waiting : q.visit_token <= tokens
          /\ \A i \in 1..Len(heard) : heard[i].visit_token <= tokens

(* What was shown comes before what waits. *)
Behind ==
  \A q \in Waiting : \A i \in 1..Len(heard) :
    heard[i].visit_token = q.visit_token => heard[i].line < q.line

(* During the stay of a visit nothing of it is lost. *)
OnItsStay(q) == StillThere(q) /\ q.stay = stay

Complete ==
  \A q \in Pending : OnItsStay(q) => \A l \in 1..(q.line - 1) :
     \/ HeardLine(q.visit_token, l)
     \/ \E p \in Waiting : p.visit_token = q.visit_token /\ p.line = l

OInv == Clock /\ Apart /\ Single /\ Tokens /\ Behind /\ Complete /\ InOrder

(* Later lines are due at least an interval later. *)
LEMMA DelaysApart ==
  ASSUME Interval > 0, NEW l \in Nat, NEW k \in Nat, l < k
  PROVE  Delay(l) + Interval <= Delay(k)
<1>1. Interval \in Nat
  BY DialogueAssumption
<1>2. PICK d \in Nat : k = l + 1 + d
  <2>1. k - l - 1 \in Nat /\ k = l + 1 + (k - l - 1)
    OBVIOUS
  <2>2. QED
    BY <2>1
<1>3. Interval * k = Interval * l + Interval + Interval * d
  BY <1>1, <1>2
<1>4. Interval * d \in Nat /\ Interval * l \in Nat /\ Interval * k \in Nat
  BY <1>1
<1>5. Delay(l) = Interval * l /\ Delay(k) = Interval * k
  BY DEF Delay
<1> QED
  BY <1>1, <1>3, <1>4, <1>5

(* What is asked for lies in the future. *)
LEMMA DelayPositive ==
  ASSUME Interval > 0, NEW l \in Nat \ {0}
  PROVE  Delay(l) > 0
<1>1. Delay(0) + Interval <= Delay(l)
  BY DelaysApart
<1>2. Delay(0) \in Nat /\ Delay(l) \in Nat /\ Interval \in Nat
  BY DelayIsNat, DialogueAssumption
<1> QED
  BY <1>1, <1>2

(* A change of place after which no waiting call is for the player's stay, *)
(* and which adds no call                                                  *)
LEMMA AwayKeeps ==
  ASSUME Inv, OInv, UNCHANGED <<now, last_pass, tasks, tokens, loop>>,
         \A q \in Pending : ~OnItsStay(q)'
  PROVE  OInv'
<1> USE DEF OInv, loop
<1>1. Waiting' = Waiting /\ Pending' = Pending
  BY DEF Waiting, Pending
<1>2. Clock' /\ Single' /\ Tokens'
  BY <1>1 DEF Clock, Single, Tokens
<1>3. Apart'
  BY <1>1 DEF Apart
<1>4. Behind' /\ InOrder'
  BY <1>1 DEF Behind, InOrder, HeardBefore
<1>5. Complete'
  BY <1>1 DEF Complete, HeardLine
<1> QED
  BY <1>2, <1>3, <1>4, <1>5

(* An entry with a guide starts a visit of its own. *)
LEMMA VisitKeeps ==
  ASSUME Inv, OInv, Interval > 0, NEW r \in Room, NEW c \in Nat,
         tasks' = tasks \cup Requests(c, r, tokens + 1),
         tokens' = tokens + 1, visit_token' = tokens + 1,
         UNCHANGED <<now, last_pass, loop>>
  PROVE  OInv'
<1> DEFINE new == Requests(c, r, tokens + 1)
<1> USE DEF OInv, loop
<1>1. /\ now \in Nat /\ last_pass \in Nat /\ tokens \in Nat /\ stay \in Nat
      /\ heard \in Seq(Request)
      /\ Waiting \subseteq Request
  BY DEF Inv, TypeOK, Waiting, Pending
<1>2. \A q \in Waiting : q.visit_token # tokens + 1 /\ q.visit_token \in Nat
  BY <1>1 DEF Tokens, Request
<1>3. \A i \in 1..Len(heard) : heard[i].visit_token \in Nat /\ heard[i].visit_token # tokens + 1
  <2>1. \A i \in 1..Len(heard) : heard[i] \in Request
    BY <1>1
  <2>2. \A q \in Request : q.visit_token \in Nat
    BY DEF Request
  <2>3. \A i \in 1..Len(heard) : heard[i].visit_token <= tokens
    BY DEF Tokens
  <2>4. QED
    BY <1>1, <2>1, <2>2, <2>3
<1>4. ASSUME NEW q \in new
      PROVE  /\ q \in Request
             /\ q.visit_token = tokens + 1 /\ q.conn = c /\ q.room = r /\ q.stay = stay + 1
             /\ q.line \in 1..Lines /\ q.at = now + Delay(q.line)
             /\ q = [conn |-> c, room |-> r, visit_token |-> tokens + 1, line |-> q.line,
                     at |-> now + Delay(q.line), stay |-> stay + 1]
  <2>1. tokens + 1 \in Nat \ {0}
    BY <1>1
  <2>2. q \in Request
    BY <2>1, RequestsTyped DEF Inv
  <2>3. QED
    BY <2>2 DEF Requests
<1>5. Waiting' = Waiting \cup new /\ Pending' = Pending \cup new
  BY DEF Waiting, Pending
<1>6. ASSUME NEW l \in 1..Lines PROVE \E q \in new : q.line = l
  <2> DEFINE q == [conn |-> c, room |-> r, visit_token |-> tokens + 1, line |-> l,
                   at |-> now + Delay(l), stay |-> stay + 1]
  <2>1. q \in new
    BY DEF Requests
  <2>2. q.line = l
    OBVIOUS
  <2>3. QED
    BY <2>1, <2>2
<1> HIDE DEF new
<1>7. Clock'
  <2>1. ASSUME NEW q \in new PROVE q.at > last_pass
    <3>1. Delay(q.line) > 0 /\ Delay(q.line) \in Nat
      <4>1. q.line \in Nat \ {0}
        BY <1>4, DialogueAssumption
      <4>2. QED
        BY <4>1, DelayPositive, DelayIsNat
    <3>2. QED
      BY <1>1, <1>4, <3>1 DEF Clock
  <2>2. tasks' = tasks \cup new
    BY DEF new
  <2>3. QED
    BY <2>1, <2>2 DEF Clock
<1>8. Apart'
  <2>1. ASSUME NEW q \in new, NEW p \in new
        PROVE  /\ q.conn = p.conn /\ q.room = p.room
               /\ q.line = p.line => q = p
               /\ q.line < p.line => q.at + Interval <= p.at
    <3>1. q.line \in Nat /\ p.line \in Nat
      BY <1>4, DialogueAssumption
    <3>2. Delay(q.line) \in Nat /\ Delay(p.line) \in Nat
      BY <3>1, DelayIsNat
    <3>3. q.line < p.line => Delay(q.line) + Interval <= Delay(p.line)
      BY <3>1, DelaysApart
    <3>4. q.line = p.line => q = p
      BY <1>4
    <3>5. q.at = now + Delay(q.line) /\ p.at = now + Delay(p.line)
      BY <1>4
    <3>6. now \in Nat /\ Interval \in Int
      BY <1>1, DialogueAssumption
    <3>7. q.line < p.line => q.at + Interval <= p.at
      BY ONLY <3>2, <3>3, <3>5, <3>6
    <3>8. q.conn = p.conn /\ q.room = p.room
      BY <1>4
    <3>9. QED
      BY <3>4, <3>7, <3>8
  <2>2. ASSUME NEW q \in new, NEW p \in Waiting
        PROVE  q.visit_token # p.visit_token
    BY <1>2, <1>4
  <2>3. QED
    BY <1>5, <2>1, <2>2 DEF Apart
<1>9. Single'
  <2>1. \A q \in message, p \in new : q.visit_token # p.visit_token
    BY <1>2, <1>4 DEF Waiting
  <2>2. QED
    BY <1>5, <2>1 DEF Single
<1>10. Tokens'
  <2>1. \A q \in Waiting : q.visit_token <= tokens + 1
    BY <1>1, <1>2 DEF Tokens
  <2>2. \A i \in 1..Len(heard) : heard[i].visit_token <= tokens + 1
    BY <1>1, <1>3 DEF Tokens
  <2>3. \A q \in new : q.visit_token <= tokens + 1
    BY <1>1, <1>4
  <2>4. QED
    BY <1>5, <2>1, <2>2, <2>3 DEF Tokens
<1>11. Behind'
  <2>1. ASSUME NEW q \in new, NEW i \in 1..Len(heard)
        PROVE  heard[i].visit_token # q.visit_token
    BY <1>3, <1>4
  <2>2. QED
    BY <1>5, <2>1 DEF Behind
<1>12. InOrder'
  BY DEF InOrder, HeardBefore
<1>13. Complete'
  <2>1. ASSUME NEW q \in new, NEW l \in 1..(q.line - 1)
        PROVE  \E p \in Waiting' : p.visit_token = q.visit_token /\ p.line = l
    <3>1. l \in 1..Lines
      BY <1>4, DialogueAssumption
    <3>2. PICK p \in new : p.line = l
      BY <1>6, <3>1
    <3>3. QED
      BY <1>4, <1>5, <3>2
  <2>2. \A q \in Pending : ~OnItsStay(q)'
    BY <1>2 DEF OnItsStay, StillThere, Waiting
  <2>3. QED
    BY <1>5, <2>1, <2>2 DEF Complete, HeardLine
<1> QED
  BY <1>7, <1>8, <1>9, <1>10, <1>11, <1>12, <1>13

(* The loop takes at most one line of a visit at a time. *)
LEMMA TakeDueKeeps ==
  ASSUME Inv, OInv, Interval > 0, MaxLag <= Interval, TakeDue
  PROVE  OInv'
<1> USE DEF OInv
<1>1. /\ now \in Nat /\ last_pass \in Nat /\ MaxLag \in Nat /\ Interval \in Nat
      /\ \A q \in Waiting : q.at \in Nat /\ q.line \in Nat
  BY DialogueAssumption DEF Inv, TypeOK, Waiting, Pending, Request
<1>2. /\ due_tasks = {} /\ message = {} /\ last_pass' = now
      /\ due_tasks' = {q \in tasks : q.at <= now}
      /\ tasks' = {q \in tasks : q.at > now}
      /\ UNCHANGED <<now, room, conn, visit_token, tokens, stay, message, heard>>
  BY DEF TakeDue, place
<1>3. Pending' = Pending /\ Waiting' = Waiting
  BY <1>1, <1>2 DEF Pending, Waiting
<1>4. Clock'
  BY <1>1, <1>2 DEF Clock
<1>5. Single'
  <2>1. ASSUME NEW q \in due_tasks', NEW p \in due_tasks', q.visit_token = p.visit_token
        PROVE  ~(q.line < p.line)
    <3>1. /\ q \in tasks /\ p \in tasks /\ q \in Waiting /\ p \in Waiting
          /\ q.at > last_pass /\ p.at <= now
      BY <1>2 DEF Clock, Waiting, Pending
    <3>2. SUFFICES ASSUME q.line < p.line PROVE FALSE
      OBVIOUS
    <3>3. q.at + Interval <= p.at
      BY <2>1, <3>1, <3>2 DEF Apart
    <3>4. now - last_pass <= Interval
      BY <1>1 DEF Clock
    <3>5. QED
      BY <1>1, <3>1, <3>3, <3>4
  <2>2. ASSUME NEW q \in due_tasks', NEW p \in due_tasks', q.visit_token = p.visit_token
        PROVE  q = p
    <3>1. q \in Waiting /\ p \in Waiting
      BY <1>2 DEF Waiting, Pending
    <3>2. q.line = p.line
      BY <1>1, <2>1, <2>2, <3>1
    <3>3. QED
      BY <2>2, <3>1, <3>2 DEF Apart
  <2>3. QED
    BY <1>2, <2>2 DEF Single
<1>6. Apart' /\ Tokens' /\ Behind'
  BY <1>2, <1>3 DEF Apart, Tokens, Behind
<1>7. Complete' /\ InOrder'
  BY <1>2, <1>3 DEF Complete, HeardLine, OnItsStay, StillThere, InOrder, HeardBefore
<1> QED
  BY <1>4, <1>5, <1>6, <1>7

(* Of a visit the line that is run is the first that waits. *)
LEMMA FirstIsTaken ==
  ASSUME Inv, OInv, Interval > 0, NEW d \in due_tasks, Decide(d),
         NEW q \in Waiting, q # d, q.visit_token = d.visit_token
  PROVE  d.line < q.line
<1> USE DEF OInv
<1>5. Waiting \subseteq Request /\ last_pass \in Nat /\ d \in Waiting
  BY DEF Inv, TypeOK, Waiting, Pending
<1>6. \A p \in Request : p.at \in Nat /\ p.line \in Nat
  BY DialogueAssumption DEF Request
<1>1. /\ Interval \in Nat /\ last_pass \in Nat
      /\ \A p \in Waiting : p.at \in Nat /\ p.line \in Nat
      /\ d \in Waiting
  BY <1>5, <1>6, DialogueAssumption
<1>2. q \in tasks \/ q \in due_tasks
  BY DEF Decide, Waiting, Pending
<1>3. CASE q \in tasks
  <2>1. q.at > d.at
    BY <1>1, <1>3 DEF Clock
  <2>2. ~(q.line < d.line)
    BY <1>1, <2>1 DEF Apart
  <2>3. q.line # d.line
    BY <1>1 DEF Apart
  <2>4. QED
    BY <1>1, <2>2, <2>3
<1>4. CASE q \in due_tasks
  <2>1. q = d
    BY <1>4 DEF Single
  <2>2. QED
    BY <2>1
<1> QED
  BY <1>2, <1>3, <1>4

(* A line that is decided on leaves only later ones of its visit behind.   *)
LEMMA DecideKeeps ==
  ASSUME Inv, OInv, Interval > 0, NEW d \in due_tasks, Decide(d)
  PROVE  OInv'
<1> USE DEF OInv
<1>1. /\ Interval \in Nat /\ last_pass \in Nat
      /\ \A q \in Waiting : q.at \in Nat /\ q.line \in Nat
      /\ d \in Waiting /\ d \in Pending
  BY DialogueAssumption DEF Inv, TypeOK, Waiting, Pending, Request
<1>2. /\ message = {} /\ due_tasks' = due_tasks \ {d}
      /\ message' = IF StillThere(d) THEN {d} ELSE {}
      /\ UNCHANGED <<now, last_pass, room, conn, visit_token, tokens, stay, tasks, heard>>
  BY DEF Decide, place
<1>3. /\ Pending' \subseteq Pending /\ Waiting' \subseteq Waiting
      /\ Waiting \subseteq Waiting' \cup {d}
      /\ StillThere(d) => Waiting' = Waiting
  BY <1>1, <1>2 DEF Pending, Waiting
<1>4. ASSUME NEW q \in Waiting, q # d, q.visit_token = d.visit_token
      PROVE  d.line < q.line
  BY <1>4, FirstIsTaken
<1>5. Clock' /\ Apart' /\ Tokens' /\ Behind'
  BY <1>2, <1>3 DEF Clock, Apart, Tokens, Behind
<1>6. Single'
  <2>1. \A q \in message', p \in Pending' : q.visit_token = p.visit_token => q.line < p.line
    <3>1. ASSUME NEW p \in Pending', StillThere(d), d.visit_token = p.visit_token
          PROVE  d.line < p.line
      <4>1. p # d
        <5>1. CASE p \in tasks
          BY <1>1, <5>1 DEF Clock
        <5>2. CASE p \in due_tasks'
          BY <1>2, <5>2
        <5>3. QED
          BY <1>2, <5>1, <5>2 DEF Pending
      <4>2. QED
        BY <1>3, <1>4, <3>1, <4>1 DEF Waiting
    <3>2. QED
      BY <1>2, <3>1
  <2>2. QED
    BY <1>2, <2>1 DEF Single
<1>7. Complete'
  <2>2. ASSUME NEW q \in Pending', OnItsStay(q), NEW l \in 1..(q.line - 1)
        PROVE  \/ HeardLine(q.visit_token, l)
               \/ \E p \in Waiting' : p.visit_token = q.visit_token /\ p.line = l
    <3>1. q \in Pending /\ q \in Waiting
      BY <1>3 DEF Waiting
    <3>2. CASE HeardLine(q.visit_token, l)
      BY <3>2
    <3>3. ASSUME NEW p \in Waiting, p.visit_token = q.visit_token, p.line = l
          PROVE  \E x \in Waiting' : x.visit_token = q.visit_token /\ x.line = l
      <4>1. CASE p # d
        BY <1>3, <3>3, <4>1
      <4>2. CASE p = d
        <5>1. StillThere(d)
          BY <1>1, <2>2, <3>1, <3>3, <4>2 DEF Apart, OnItsStay, StillThere
        <5>2. QED
          BY <1>3, <3>3, <5>1
      <4>3. QED
        BY <4>1, <4>2
    <3>4. QED
      BY <2>2, <3>1, <3>2, <3>3 DEF Complete
  <2>3. \A q, l : HeardLine(q, l)' <=> HeardLine(q, l)
    BY <1>2 DEF HeardLine
  <2>4. \A q : OnItsStay(q)' <=> OnItsStay(q)
    BY <1>2 DEF OnItsStay, StillThere
  <2>5. QED
    BY <2>2, <2>3, <2>4 DEF Complete
<1>8. InOrder'
  BY <1>2 DEF InOrder, HeardBefore
<1> QED
  BY <1>5, <1>6, <1>7, <1>8

(* A line that is shown comes after all the earlier ones of its visit and  *)
(* before all the later ones; one that is not shown ends its visit.        *)
LEMMA SendKeeps ==
  ASSUME Inv, OInv, Send
  PROVE  OInv'
<1> USE DEF OInv
<1>1. PICK d \in message : heard' = IF d.conn = conn THEN Append(heard, d) ELSE heard
  BY DEF Send
<1>2. /\ heard \in Seq(Request) /\ d \in Waiting /\ d \in Request /\ Len(heard) \in Nat
      /\ \A q \in Waiting : q.line \in Nat
  BY DialogueAssumption DEF Inv, TypeOK, Waiting, Pending, Request
<1>3. /\ message' = {} /\ message = {d} /\ Pending' = Pending
      /\ UNCHANGED <<now, last_pass, room, conn, visit_token, tokens, stay, tasks, due_tasks>>
  BY <1>1 DEF Send, place, Single, Pending
<1>4. /\ Waiting' = Pending /\ Waiting = Pending \cup {d}
  BY <1>3 DEF Waiting
<1>5. Clock' /\ Apart' /\ Single'
  BY <1>3, <1>4 DEF Clock, Apart, Single
<1>6. CASE d.conn # conn
  <2>1. heard' = heard
    BY <1>1, <1>6
  <2>2. Tokens' /\ Behind' /\ InOrder'
    BY <1>3, <1>4, <2>1 DEF Tokens, Behind, InOrder, HeardBefore
  <2>3. ASSUME NEW q \in Pending, StillThere(q) PROVE q.visit_token # d.visit_token
    BY <1>2, <1>4, <1>6, <2>3 DEF Apart, StillThere
  <2>4. Complete'
    BY <1>3, <1>4, <2>1, <2>3 DEF Complete, HeardLine, OnItsStay, StillThere
  <2>5. QED
    BY <1>5, <2>2, <2>4
<1>7. CASE d.conn = conn
  <2>1. /\ heard' = Append(heard, d) /\ Len(heard') = Len(heard) + 1
        /\ \A i \in 1..Len(heard) : heard'[i] = heard[i]
        /\ heard'[Len(heard) + 1] = d
    BY <1>1, <1>2, <1>7
  <2>2. \A i \in 1..Len(heard') : i \in 1..Len(heard) \/ i = Len(heard) + 1
    BY <1>2, <2>1
  <2>3. Tokens'
    BY <1>2, <1>3, <1>4, <2>1, <2>2 DEF Tokens
  <2>4. Behind'
    <3>1. \A q \in Pending : d.visit_token = q.visit_token => d.line < q.line
      BY <1>1 DEF Single
    <3>2. QED
      BY <1>4, <2>1, <2>2, <3>1 DEF Behind
  <2>5. ASSUME NEW token, NEW l, HeardLine(token, l) PROVE HeardLine(token, l)'
    <3>1. PICK i \in 1..Len(heard) : heard[i].visit_token = token /\ heard[i].line = l
      BY <2>5 DEF HeardLine
    <3>2. i \in 1..Len(heard') /\ heard'[i] = heard[i]
      BY <1>2, <2>1
    <3>3. QED
      BY <3>1, <3>2 DEF HeardLine
  <2>6. HeardLine(d.visit_token, d.line)'
    <3>1. Len(heard) + 1 \in 1..Len(heard')
      BY <1>2, <2>1
    <3>2. QED
      BY <2>1, <3>1 DEF HeardLine
  <2>7. Complete'
    <3>1. ASSUME NEW q \in Pending, OnItsStay(q), NEW l \in 1..(q.line - 1)
          PROVE  \/ HeardLine(q.visit_token, l)'
                 \/ \E p \in Pending : p.visit_token = q.visit_token /\ p.line = l
      <4>1. CASE HeardLine(q.visit_token, l)
        BY <2>5, <4>1
      <4>2. ASSUME NEW p \in Waiting, p.visit_token = q.visit_token, p.line = l
            PROVE  \/ HeardLine(q.visit_token, l)'
                   \/ \E x \in Pending : x.visit_token = q.visit_token /\ x.line = l
        BY <1>4, <2>6, <4>2
      <4>3. QED
        BY <3>1, <4>1, <4>2 DEF Complete
    <3>2. QED
      BY <1>3, <1>4, <3>1 DEF Complete, OnItsStay, StillThere
  <2>8. InOrder'
    <3>1. ASSUME NEW i \in 1..Len(heard)
          PROVE  HeardBefore(i)' = HeardBefore(i) /\ heard'[i] = heard[i]
      <4>1. \A k \in 1..(i - 1) : k \in 1..Len(heard)
        BY <1>2
      <4>2. QED
        BY <2>1, <4>1 DEF HeardBefore
    <3>2. ASSUME NEW i \in Nat, i = Len(heard) + 1,
                 NEW k \in 1..(i - 1), heard'[k].visit_token = heard'[i].visit_token
          PROVE  heard'[k].line \in 1..(d.line - 1)
      <4>1. k \in 1..Len(heard) /\ heard'[k] = heard[k] /\ heard'[i] = d
        BY <1>2, <2>1, <3>2
      <4>2. heard[k] \in Request /\ heard[k].visit_token = d.visit_token
        BY <1>2, <3>2, <4>1
      <4>3. heard[k].line \in 1..Lines
        BY <4>2 DEF Request
      <4>4. heard[k].line < d.line
        BY <1>2, <4>1, <4>2 DEF Behind
      <4>5. QED
        BY <1>2, <4>1, <4>3, <4>4, DialogueAssumption
    <3>3. ASSUME NEW i \in 1..Len(heard')
          PROVE  HeardBefore(i)' \subseteq 1..(heard'[i].line - 1)
      <4>1. CASE i \in 1..Len(heard)
        BY <3>1, <4>1 DEF InOrder
      <4>2. CASE i = Len(heard) + 1
        <5>1. heard'[i] = d /\ i \in Nat
          BY <1>2, <2>1, <4>2
        <5>2. QED
          BY <3>2, <4>2, <5>1 DEF HeardBefore
      <4>3. QED
        BY <2>2, <4>1, <4>2
    <3>4. QED
      BY <3>3 DEF InOrder
  <2>9. QED
    BY <1>5, <2>3, <2>4, <2>7, <2>8
<1> QED
  BY <1>6, <1>7

(* What waits belongs to a stay that began. *)
LEMMA EarlierStay ==
  ASSUME Inv, stay' = stay + 1
  PROVE  \A q \in Pending : q.stay # stay'
<1>1. \A q \in Pending : q.stay \in Nat /\ q.stay <= stay
  BY DEF Inv, TypeOK, PendingOfItsVisit, Pending, Request
<1> QED
  BY <1>1 DEF Inv, TypeOK

(* Entering a room, with a guide or without *)
LEMMA EntryKeepsOrder ==
  ASSUME Inv, OInv, Interval > 0, NEW r \in Room, NEW c \in Nat, NEW token,
         EntryEvents(c, r, token), stay' = stay + 1, UNCHANGED <<now, last_pass, loop>>
  PROVE  OInv'
<1>1. CASE r \in Guided
  <2>1. /\ tasks' = tasks \cup Requests(c, r, tokens + 1)
        /\ tokens' = tokens + 1 /\ visit_token' = tokens + 1
    BY <1>1 DEF EntryEvents, Schedule
  <2>2. QED
    BY <2>1, VisitKeeps
<1>2. CASE r \notin Guided
  <2>1. UNCHANGED <<tokens, tasks>>
    BY <1>2 DEF EntryEvents
  <2>2. \A q \in Pending : ~OnItsStay(q)'
    BY EarlierStay DEF OnItsStay
  <2>3. QED
    BY <2>1, <2>2, AwayKeeps
<1> QED
  BY <1>1, <1>2

(* The three parts of OInv are inductive if the interval of the script is   *)
(* positive and the loop comes round within it.                            *)
LEMMA OrderInductive ==
  ASSUME Interval > 0, MaxLag <= Interval
  PROVE  Spec => []OInv
<1>1. Init => OInv
  <2> SUFFICES ASSUME Init PROVE OInv
    OBVIOUS
  <2>1. Pending = {} /\ Waiting = {} /\ Len(heard) = 0
    BY DEF Init, Pending, Waiting
  <2>2. Clock
    BY DialogueAssumption DEF Init, Clock
  <2>3. Apart /\ Single /\ Tokens /\ Behind /\ Complete /\ InOrder
    BY <2>1 DEF Init, Apart, Single, Tokens, Behind, Complete, InOrder
  <2>4. QED
    BY <2>2, <2>3 DEF OInv
<1>2. Inv /\ OInv /\ [Next]_vars => OInv'
  <2> SUFFICES ASSUME Inv, OInv, [Next]_vars PROVE OInv'
    OBVIOUS
  <2>1. ASSUME NEW r \in Room, Enter(r) PROVE OInv'
    BY <2>1, EntryKeepsOrder DEF Enter, Inv, TypeOK
  <2>2. ASSUME NEW r \in Room, Reconnect(r) PROVE OInv'
    <3>1. conn + 1 \in Nat
      BY DEF Inv, TypeOK
    <3>2. QED
      BY <2>2, <3>1, EntryKeepsOrder DEF Reconnect
  <2>3. ASSUME NEW r \in Room, Carry(r) PROVE OInv'
    <3>1. stay' = stay + 1 /\ UNCHANGED <<now, last_pass, tasks, tokens, loop>>
      BY <2>3 DEF Carry
    <3>2. \A q \in Pending : ~OnItsStay(q)'
      BY <3>1, EarlierStay DEF OnItsStay
    <3>3. QED
      BY <3>1, <3>2, AwayKeeps
  <2>4. ASSUME NEW q \in due_tasks, Decide(q) PROVE OInv'
    BY <2>4, DecideKeeps
  <2>5. CASE Send
    BY <2>5, SendKeeps
  <2>6. CASE TakeDue
    BY <2>6, TakeDueKeeps
  <2>7. ASSUME UNCHANGED <<place, tasks, loop, last_pass>>, now' = now \/ Tick PROVE OInv'
    <3>1. Clock'
      BY <2>7, DialogueAssumption DEF OInv, Clock, Tick, Inv, TypeOK, loop
    <3>2. Waiting' = Waiting /\ Pending' = Pending
      BY <2>7 DEF Waiting, Pending, loop
    <3>3. Apart' /\ Single' /\ Tokens' /\ Behind'
      BY <2>7, <3>2 DEF OInv, Apart, Single, Tokens, Behind, loop, place
    <3>4. Complete' /\ InOrder'
      BY <2>7, <3>2 DEF OInv, Complete, HeardLine, OnItsStay, StillThere, InOrder, HeardBefore, loop, place
    <3>5. QED
      BY <3>1, <3>3, <3>4 DEF OInv
  <2>8. CASE Tick \/ UNCHANGED vars
    BY <2>7, <2>8 DEF Tick, vars
  <2>9. QED
    BY <2>1, <2>2, <2>3, <2>4, <2>5, <2>6, <2>8 DEF Next
<1> QED
  BY <1>1, <1>2, InvInductive, PTL DEF Spec

(* However the calls of one pass are ordered, the lines of a visit are     *)
(* shown in their order and each once, if the interval of the script is    *)
(* positive and the loop comes round within it.                            *)
THEOREM LinesInOrder ==
  ASSUME Interval > 0, MaxLag <= Interval
  PROVE  Spec => []InOrder
<1>1. OInv => InOrder
  BY DEF OInv
<1> QED
  BY <1>1, OrderInductive, PTL

(* Under the same conditions whoever stays misses no line.                 *)
THEOREM StayersMissNone ==
  ASSUME Interval > 0, MaxLag <= Interval
  PROVE  Spec => NoneLeftOut
<1>1. ASSUME Inv, OInv, [Next]_vars, NEW q \in message' \ message, q.stay = stay,
             NEW l \in 1..(q.line - 1)
      PROVE  HeardLine(q.visit_token, l)
  <2>1. PICK d \in due_tasks : Decide(d)
    BY <1>1 DEF Next, vars, loop, Enter, Reconnect, Carry, TakeDue, Tick, Send
  <2>2. q = d /\ OnItsStay(d) /\ d \in Pending /\ d \in Waiting /\ message = {}
    BY <1>1, <2>1 DEF Decide, OnItsStay, Pending, Waiting
  <2>3. \A p \in Waiting : p.line \in Nat
    BY <1>1, DialogueAssumption DEF Inv, TypeOK, Waiting, Pending, Request
  <2>4. SUFFICES ASSUME NEW p \in Waiting, p.visit_token = d.visit_token, p.line = l
                 PROVE  FALSE
    BY <1>1, <2>2 DEF OInv, Complete
  <2>5. p # d /\ p.line < d.line
    BY <1>1, <2>2, <2>3, <2>4
  <2>6. d.line < p.line
    BY <1>1, <2>1, <2>4, <2>5, FirstIsTaken
  <2> QED
    BY <2>2, <2>3, <2>5, <2>6
<1>2. Inv /\ OInv /\ [Next]_vars =>
        [\A q \in message' \ message : q.stay = stay =>
           \A l \in 1..(q.line - 1) : HeardLine(q.visit_token, l)]_vars
  BY <1>1
<1> QED
  BY <1>2, OrderInductive, InvInductive, PTL DEF Spec, NoneLeftOut
=============================================================================
