------------------------------ MODULE Session ------------------------------
(***************************************************************************)
(* The life of a connection: login, duplicate login, play and logout.      *)
(*                                                                         *)
(* handle_client (client.rs) runs one tokio task per connection and one    *)
(* send task that drains the client's channel.  The tasks share the maps   *)
(* of the Broadcaster, the positions of the WorldState and the files       *)
(* data/user/<name>.json; each lock is taken and dropped on its own, so    *)
(* every action below is one lock region and pc says which comes next.     *)
(*                                                                         *)
(* A connection is used once: reuse of a socket address is left out.       *)
(* Party and follow relations are in SocialGraph.  A body is abstracted to *)
(* "has changes its file lacks", a file to the session that wrote it.      *)
(***************************************************************************)
EXTENDS Integers, FiniteSets

CONSTANTS Conn,        \* connections (socket addresses)
          Name,        \* character names
          NoConn, NoName,
          MaxCommands  \* bound: game commands executed in a behaviour

ASSUME SessionAssumption == /\ NoConn \notin Conn
                            /\ NoName \notin Name
                            /\ MaxCommands \in Nat

VARIABLES
  pc,                  \* where the connection task is
  clients,             \* Broadcaster.clients
  state,               \* LoginSession.state; "Active" once login_session is None
  name,                \* the session's name, then the body's
  attempts,            \* LoginSession.attempts
  player_clients,      \* Broadcaster.player_clients
  channel,             \* the client's channel: open, sentinel queued, receiver dropped
  peer,                \* the peer still holds its end of the TCP connection
  disconnect_requested,\* Client.disconnect_requested, set by the game loop
  player_positions,    \* names with a WorldState.player_positions entry
  user_file,           \* the session that wrote data/user/<name>.json last
  unsaved,             \* the body has changes that were never saved
  session,             \* 0, or the rank of this login among all logins
  logins,              \* how many sessions entered the game
  removing,            \* players taken out by a sender, names not yet unbound
  reaped,              \* history: clients a sender took out of the map
  commands             \* commands executed so far

task    == <<pc, clients, state, name, attempts>>
shared  == <<player_clients, player_positions, user_file>>
wire    == <<channel, peer, disconnect_requested>>
history == <<unsaved, session, logins, removing, reaped, commands>>
vars    == <<task, shared, wire, history>>

NoFile        == -1    \* there is no such user file
PasswordTries == 3

LoginStates == {"Logo", "Name", "Password", "AskKickExisting", "Notice",
                "ScriptMode", "ScriptNamed", "Active"}
(* read: in tokio::select!; reply: about to send_to, then read again; bye: *)
(* send_to, then leave; the others are named after what they do next.      *)
Points == {"new", "read", "reply", "bye", "notice", "kick", "unplace", "bind",
           "index", "leave", "unbind", "find", "clear", "save", "gone", "abandoned"}

TypeOK ==
  /\ pc \in [Conn -> Points]
  /\ clients \subseteq Conn
  /\ state \in [Conn -> LoginStates]
  /\ name \in [Conn -> Name \cup {NoName}]
  /\ attempts \in [Conn -> 0..PasswordTries]
  /\ player_clients \in [Name -> Conn \cup {NoConn}]
  /\ channel \in [Conn -> {"open", "sentinel", "closed"}]
  /\ peer \in [Conn -> BOOLEAN]
  /\ disconnect_requested \in [Conn -> BOOLEAN]
  /\ player_positions \subseteq Name
  /\ user_file \in [Name -> Int]
  /\ unsaved \in [Conn -> BOOLEAN]
  /\ session \in [Conn -> Nat]
  /\ logins \in Nat
  /\ removing \subseteq Conn
  /\ reaped \subseteq Conn
  /\ commands \in Nat

Init ==
  /\ pc = [c \in Conn |-> "new"]
  /\ clients = {}
  /\ state = [c \in Conn |-> "Logo"]
  /\ name = [c \in Conn |-> NoName]
  /\ attempts = [c \in Conn |-> 0]
  /\ player_clients = [n \in Name |-> NoConn]
  /\ channel = [c \in Conn |-> "open"]
  /\ peer = [c \in Conn |-> TRUE]
  /\ disconnect_requested = [c \in Conn |-> FALSE]
  /\ player_positions = {}
  /\ user_file \in [Name -> {0, NoFile}]   \* some characters exist already
  /\ unsaved = [c \in Conn |-> FALSE]
  /\ session = [c \in Conn |-> 0]
  /\ logins = 0
  /\ removing = {}
  /\ reaped = {}
  /\ commands = 0

-----------------------------------------------------------------------------
(* Helpers *)

Goto(c, point) == pc' = [pc EXCEPT ![c] = point]
Become(c, s)   == state' = [state EXCEPT ![c] = s]

(* c has a Player: client.player is set when login completes. *)
HasPlayer(c) == session[c] # 0

(* send_to succeeds: the client is in the map and its receiver is alive. *)
CanSend(c) == c \in clients /\ channel[c] # "closed"

(* What the clients map says of an index entry: it is the player's client. *)
Current(c, n) == c \in clients /\ HasPlayer(c) /\ name[c] = n

(* find_addr_by_player_name: the index entry if the client map confirms it *)
Find(n) == IF player_clients[n] \in Conn /\ Current(player_clients[n], n)
             THEN player_clients[n] ELSE NoConn

(* ... and its effect: an entry the map does not confirm is dropped. *)
FindDropsStale(n) == player_clients' = [player_clients EXCEPT ![n] = Find(n)]

(* A client with a line of input to handle. *)
Input(c) == pc[c] = "read" /\ c \in clients /\ peer[c]

Over(c) == pc[c] \in {"gone", "abandoned"}

-----------------------------------------------------------------------------
(* Connecting and logging in *)

(* handle_client: add_client, spawn the send task, show the logo. *)
Accept(c) ==
  /\ pc[c] = "new"
  /\ Goto(c, "read")
  /\ clients' = clients \cup {c}
  /\ Become(c, "Name")
  /\ UNCHANGED <<name, attempts, shared, wire, history>>

(* LoginState::Name: an empty or non-Korean name is asked for again. *)
InvalidName(c) ==
  /\ Input(c) /\ state[c] = "Name"
  /\ Goto(c, "reply")
  /\ UNCHANGED <<clients, state, name, attempts, shared, wire, history>>

(* LoginState::Name: a name leads to the password prompt ... *)
GiveName(c, n) ==
  /\ Input(c) /\ state[c] = "Name"
  /\ name' = [name EXCEPT ![c] = n]
  /\ Become(c, "Password")
  /\ Goto(c, "reply")
  /\ UNCHANGED <<clients, attempts, shared, wire, history>>

(* ... and one of the reserved names to the character creation script. *)
StartScript(c) ==
  /\ Input(c) /\ state[c] = "Name"
  /\ Become(c, "ScriptMode")
  /\ Goto(c, "reply")
  /\ UNCHANGED <<clients, name, attempts, shared, wire, history>>

(* (mutant) the third wrong password is not counted as the last *)
WrongPassword_NoLimit(c) ==
  /\ Input(c) /\ state[c] = "Password"
  /\ attempts' = [attempts EXCEPT ![c] = @ + 1]
  /\ Goto(c, "reply")
  /\ UNCHANGED <<clients, state, name, shared, wire, history>>

(* LoginState::Password, wrong: asked again, or cut off at the third try. *)
WrongPassword(c) ==
  /\ Input(c) /\ state[c] = "Password"
  /\ attempts' = [attempts EXCEPT ![c] = @ + 1]
  /\ Goto(c, IF attempts'[c] >= PasswordTries THEN "bye" ELSE "reply")
  /\ UNCHANGED <<clients, state, name, shared, wire, history>>

(* has_duplicate: another client already plays the character. *)
HasDuplicate(c) == \E d \in clients \ {c} : Current(d, name[c])

(* LoginState::Password, right: verified without a lock, then decided. *)
RightPassword(c) ==
  /\ Input(c) /\ state[c] = "Password"
  /\ user_file[name[c]] # NoFile
  /\ attempts' = [attempts EXCEPT ![c] = 0]
  /\ \/ HasDuplicate(c)  /\ Become(c, "AskKickExisting") /\ Goto(c, "reply")
     \/ ~HasDuplicate(c) /\ Become(c, "Notice") /\ Goto(c, "notice")
  /\ UNCHANGED <<clients, name, shared, wire, history>>

(* LoginState::AskKickExisting: yes, no, or ask again. *)
AnswerKick(c) ==
  /\ Input(c) /\ state[c] = "AskKickExisting"
  /\ \E next \in {"kick", "bye", "reply"} : Goto(c, next)
  /\ UNCHANGED <<clients, state, name, attempts, shared, wire, history>>

(* KickExistingAndProceed: request_disconnect queues the sentinel. *)
KickExisting(c) ==
  /\ pc[c] = "kick"
  /\ FindDropsStale(name[c])
  /\ LET old == Find(name[c]) IN
       \/ /\ old = NoConn
          /\ Goto(c, "notice")
          /\ UNCHANGED channel
       \/ /\ old # NoConn
          /\ Goto(c, "unplace")
          /\ channel' = [channel EXCEPT ![old] =
                           IF @ = "open" THEN "sentinel" ELSE @]
  /\ UNCHANGED <<clients, state, name, attempts, player_positions, user_file,
                 peer, disconnect_requested, history>>

(* KickExistingAndProceed: remove_player_position of the kicked session. *)
RemoveKicked(c) ==
  /\ pc[c] = "unplace"
  /\ player_positions' = player_positions \ {name[c]}
  /\ Goto(c, "notice")
  /\ UNCHANGED <<clients, state, name, attempts, player_clients, user_file,
                 wire, history>>

(* send_notice_and_complete: an unsendable notice ends the task. *)
SendNotice(c) ==
  /\ pc[c] = "notice"
  /\ \/ CanSend(c)  /\ Become(c, "Notice") /\ Goto(c, "read")
     \/ ~CanSend(c) /\ Goto(c, "abandoned") /\ UNCHANGED state
  /\ UNCHANGED <<clients, name, attempts, shared, wire, history>>

(* The part of entering the game done under the clients lock: the Player   *)
(* is set, placed in the world and given the next rank.                    *)
Enter(c) ==
  /\ Become(c, "Active")
  /\ session' = [session EXCEPT ![c] = logins + 1]
  /\ logins' = logins + 1
  /\ player_positions' = player_positions \cup {name[c]}
  /\ Goto(c, "bind")

(* LoginState::Notice, Enter key: complete_login_and_enter_game. *)
CompleteLogin(c) ==
  /\ Input(c) /\ state[c] = "Notice"
  /\ Enter(c)
  /\ UNCHANGED <<clients, name, attempts, player_clients, user_file, wire,
                 unsaved, removing, reaped, commands>>

(* process_script_line, get_name: only a name without a user file passes. *)
ScriptName(c, n) ==
  /\ Input(c) /\ state[c] = "ScriptMode"
  /\ user_file[n] = NoFile
  /\ name' = [name EXCEPT ![c] = n]
  /\ Become(c, "ScriptNamed")
  /\ Goto(c, "reply")
  /\ UNCHANGED <<clients, attempts, shared, wire, history>>

(* The end of the script: complete_char_creation_and_enter_game. *)
CompleteCreation(c) ==
  /\ Input(c) /\ state[c] = "ScriptNamed"
  /\ Enter(c)
  /\ user_file' = [user_file EXCEPT ![name[c]] = logins + 1]
  /\ UNCHANGED <<clients, name, attempts, player_clients, wire,
                 unsaved, removing, reaped, commands>>

(* bind_player_name looks into the client map once more ...                *)
BindTest(c) ==
  /\ pc[c] = "bind"
  /\ Goto(c, IF Current(c, name[c]) THEN "index" ELSE "reply")
  /\ UNCHANGED <<clients, state, name, attempts, shared, wire, history>>

(* ... and writes the index under a lock of its own; then the welcome.     *)
BindName(c) ==
  /\ pc[c] = "index"
  /\ player_clients' = [player_clients EXCEPT ![name[c]] = c]
  /\ Goto(c, "reply")
  /\ UNCHANGED <<clients, state, name, attempts, player_positions, user_file,
                 wire, history>>

-----------------------------------------------------------------------------
(* Playing *)

(* handle_game_command: the body changes; walking keeps the position, and  *)
(* a return to the home room sets one even where there was none.           *)
Play(c) ==
  /\ Input(c) /\ HasPlayer(c)
  /\ commands < MaxCommands
  /\ commands' = commands + 1
  /\ unsaved' = [unsaved EXCEPT ![c] = TRUE]
  /\ \E placed \in {{}, {name[c]}} :
       player_positions' = player_positions \cup placed
  /\ Goto(c, "reply")
  /\ UNCHANGED <<clients, state, name, attempts, player_clients, user_file, wire,
                 session, logins, removing, reaped>>

(* The `?` after send_to: a reply that cannot be sent returns from        *)
(* handle_client at once, past every line of its cleanup.                 *)
Reply(c) ==
  /\ pc[c] = "reply"
  /\ Goto(c, IF CanSend(c) THEN "read" ELSE "abandoned")
  /\ UNCHANGED <<clients, state, name, attempts, shared, wire, history>>

(* The last message of a refused login, then the cleanup. *)
Bye(c) ==
  /\ pc[c] = "bye"
  /\ Goto(c, IF CanSend(c) THEN "leave" ELSE "abandoned")
  /\ UNCHANGED <<clients, state, name, attempts, shared, wire, history>>

-----------------------------------------------------------------------------
(* The transport *)

PeerCloses(c) ==
  /\ pc[c] # "new" /\ ~Over(c) /\ peer[c]
  /\ peer' = [peer EXCEPT ![c] = FALSE]
  /\ UNCHANGED <<task, shared, channel, disconnect_requested, history>>

(* (mutant) the sentinel is written out like any other message *)
SendSentinel_Forwards(c) ==
  /\ ~Over(c)
  /\ channel[c] = "sentinel"
  /\ channel' = [channel EXCEPT ![c] = "open"]
  /\ UNCHANGED <<task, shared, peer, disconnect_requested, history>>

(* The send task stops at the sentinel ... *)
SendSentinel(c) ==
  /\ ~Over(c)
  /\ channel[c] = "sentinel"
  /\ channel' = [channel EXCEPT ![c] = "closed"]
  /\ UNCHANGED <<task, shared, peer, disconnect_requested, history>>

(* ... or when a write fails. *)
WriteFails(c) ==
  /\ ~Over(c)
  /\ ~peer[c] /\ channel[c] # "closed"
  /\ channel' = [channel EXCEPT ![c] = "closed"]
  /\ UNCHANGED <<task, shared, peer, disconnect_requested, history>>

(* The read loop learns that the send task ended. *)
SendDone(c) ==
  /\ pc[c] = "read" /\ channel[c] = "closed"
  /\ Goto(c, "leave")
  /\ UNCHANGED <<clients, state, name, attempts, shared, wire, history>>

(* The read loop reads end of file or an error. *)
ReadEnds(c) ==
  /\ pc[c] = "read" /\ ~peer[c]
  /\ Goto(c, "leave")
  /\ UNCHANGED <<clients, state, name, attempts, shared, wire, history>>

-----------------------------------------------------------------------------
(* The cleanup at the end of handle_client *)

(* remove_client, up to the end of its clients lock. *)
RemoveClient(c) ==
  /\ pc[c] = "leave"
  /\ clients' = clients \ {c}
  /\ Goto(c, IF c \in clients /\ HasPlayer(c) THEN "unbind" ELSE "gone")
  /\ UNCHANGED <<state, name, attempts, shared, wire, history>>

(* (mutant) remove_client forgets the name index *)
UnbindIfMatches_Forgets(c) == UNCHANGED player_clients

(* unbind_player_name_if_matches *)
UnbindIfMatches(c) ==
  player_clients' = IF player_clients[name[c]] = c
                      THEN [player_clients EXCEPT ![name[c]] = NoConn]
                      ELSE player_clients

(* remove_client: the name index. *)
UnbindName(c) ==
  /\ pc[c] = "unbind"
  /\ UnbindIfMatches(c)
  /\ Goto(c, "find")
  /\ UNCHANGED <<clients, state, name, attempts, player_positions, user_file,
                 wire, history>>

(* (mutant) a login that merely gave the name counts as a replacement *)
FindReplacement_SeesLogins(c) ==
  /\ pc[c] = "find"
  /\ FindDropsStale(name[c])
  /\ Goto(c, IF \E d \in clients : name[d] = name[c] THEN "gone" ELSE "clear")
  /\ UNCHANGED <<clients, state, name, attempts, player_positions, user_file,
                 wire, history>>

(* replacement_exists: the session that replaced this one keeps the rest. *)
FindReplacement(c) ==
  /\ pc[c] = "find"
  /\ FindDropsStale(name[c])
  /\ Goto(c, IF Find(name[c]) # NoConn THEN "gone" ELSE "clear")
  /\ UNCHANGED <<clients, state, name, attempts, player_positions, user_file,
                 wire, history>>

(* (mutant) the body is saved only if a final position was found *)
ClearPosition_SaveIfPlaced(c) ==
  /\ pc[c] = "clear"
  /\ player_positions' = player_positions \ {name[c]}
  /\ Goto(c, IF name[c] \in player_positions THEN "save" ELSE "gone")
  /\ UNCHANGED <<clients, state, name, attempts, player_clients, user_file,
                 wire, history>>

(* No replacement: remove_player_position ... *)
ClearPosition(c) ==
  /\ pc[c] = "clear"
  /\ player_positions' = player_positions \ {name[c]}
  /\ Goto(c, "save")
  /\ UNCHANGED <<clients, state, name, attempts, player_clients, user_file,
                 wire, history>>

(* The write of data/user/<name>.json with the body of c. *)
WriteUserFile(c) ==
  /\ user_file' = [user_file EXCEPT ![name[c]] = session[c]]
  /\ unsaved' = [unsaved EXCEPT ![c] = FALSE]

(* ... and save_body_to_json. *)
SaveBody(c) ==
  /\ pc[c] = "save"
  /\ WriteUserFile(c)
  /\ Goto(c, "gone")
  /\ UNCHANGED <<clients, state, name, attempts, player_clients,
                 player_positions, wire, session, logins, removing, reaped,
                 commands>>

-----------------------------------------------------------------------------
(* The game loop *)

(* tick_at: an idle client is sent the sentinel, once. *)
Timeout(c) ==
  /\ c \in clients /\ ~disconnect_requested[c]
  /\ disconnect_requested' = [disconnect_requested EXCEPT ![c] = TRUE]
  /\ channel' = [channel EXCEPT ![c] = IF @ = "open" THEN "sentinel" ELSE @]
  /\ UNCHANGED <<task, shared, peer, history>>

(* update_active_player: the periodic save of every active player. *)
PeriodicSave(c) ==
  /\ c \in clients /\ state[c] = "Active" /\ ~disconnect_requested[c]
  /\ WriteUserFile(c)
  /\ UNCHANGED <<task, player_clients, player_positions, wire,
                 session, logins, removing, reaped, commands>>

-----------------------------------------------------------------------------
(* Senders: every broadcast, and every message a command or the game loop  *)
(* addresses to others, takes out the clients whose channel is dead ...    *)
ReapDead(c) ==
  /\ c \in clients /\ channel[c] = "closed"
  /\ clients' = clients \ {c}
  /\ reaped' = reaped \cup {c}
  /\ removing' = IF HasPlayer(c) THEN removing \cup {c} ELSE removing
  /\ UNCHANGED <<pc, state, name, attempts, shared, wire, unsaved, session,
                 logins, commands>>

(* ... and unbinds them; remove_client does not place or save anything.    *)
UnbindReaped(c) ==
  /\ c \in removing
  /\ UnbindIfMatches(c)
  /\ removing' = removing \ {c}
  /\ UNCHANGED <<task, player_positions, user_file, wire, unsaved, session,
                 logins, reaped, commands>>

-----------------------------------------------------------------------------
LoginStep(c) ==
  \/ Accept(c) \/ InvalidName(c) \/ StartScript(c)
  \/ \E n \in Name : GiveName(c, n) \/ ScriptName(c, n)
  \/ WrongPassword(c) \/ RightPassword(c) \/ AnswerKick(c)
  \/ CompleteLogin(c) \/ CompleteCreation(c)

(* What the task does next without waiting for input. *)
TaskStep(c) ==
  \/ KickExisting(c) \/ RemoveKicked(c) \/ SendNotice(c)
  \/ BindTest(c) \/ BindName(c) \/ Reply(c) \/ Bye(c) \/ ReadEnds(c)
  \/ RemoveClient(c) \/ UnbindName(c) \/ FindReplacement(c)
  \/ ClearPosition(c) \/ SaveBody(c)

OthersStep(c) ==
  Timeout(c) \/ PeriodicSave(c) \/ ReapDead(c) \/ UnbindReaped(c)

ConnStep(c) ==
  \/ LoginStep(c) \/ Play(c) \/ TaskStep(c) \/ SendDone(c)
  \/ PeerCloses(c) \/ SendSentinel(c) \/ WriteFails(c)
  \/ OthersStep(c)

Next == \E c \in Conn : ConnStep(c)

Spec == Init /\ [][Next]_vars

(* tokio runs every task that is ready; select! takes ready branches in    *)
(* random order, so the end of the send task is not passed over for ever.  *)
Fairness ==
  \A c \in Conn : /\ WF_vars(TaskStep(c))
                  /\ WF_vars(SendSentinel(c))
                  /\ SF_vars(SendDone(c))
                  /\ WF_vars(UnbindReaped(c))

FairSpec == Spec /\ Fairness

-----------------------------------------------------------------------------
(* Properties *)

(* An index entry leads to the client that plays the name.  A stale one    *)
(* exists only between the two locks of a remove_client that is running,   *)
(* or when a sender took the client out between the two locks of its       *)
(* bind_player_name; such a session never reads another line.              *)
NameIndexCurrent ==
  \A n \in Name : LET c == player_clients[n] IN
    c # NoConn => /\ HasPlayer(c) /\ name[c] = n
                  /\ \/ c \in clients \/ pc[c] = "unbind" \/ c \in removing
                     \/ c \in reaped /\ pc[c] \in {"reply", "abandoned"}

(* No ghost stays in a room: a character with a position has a session     *)
(* that is connected or still has the cleanup in front of it, unless a     *)
(* sender took its client away (handle_client cleanup, tell_room).         *)
StillOwns(c, n) ==
  /\ HasPlayer(c) /\ name[c] = n
  /\ c \in clients \/ c \in reaped \/ pc[c] \in {"unbind", "find", "clear"}
PositionHasOwner ==
  \A n \in player_positions : \E c \in Conn : StillOwns(c, n)

(* A cleanup that ran with its client in hand drops unsaved changes only   *)
(* when another session of the character had entered (replacement_exists). *)
DroppedOnlyIfReplaced ==
  \A c \in Conn :
    pc[c] = "gone" /\ unsaved[c] /\ c \notin reaped =>
      \E d \in Conn \ {c} : HasPlayer(d) /\ name[d] = name[c]

(* A kick, a timeout or a closed peer ends the connection task, cleanup    *)
(* included or not (request_disconnect, tick_at, the read loop).           *)
DisconnectEnds ==
  \A c \in Conn : (pc[c] # "new" /\ (channel[c] # "open" \/ ~peer[c])) ~> Over(c)

(* client.rs:555: the cleanup of an old session neither deletes the        *)
(* position nor overwrites the file of a newer session of the same name.   *)
OldSessionYields ==
  [][\A c \in Conn :
       pc[c] \in {"clear", "save"} /\ pc'[c] # pc[c] =>
         ~ \E d \in clients : Current(d, name[c]) /\ session[d] > session[c]]_vars

(* server/mod.rs:334: the connection task runs the save and logout cleanup *)
(* when it ends; nothing is lost but to a session that took over.          *)
TaskSavesOnLogout ==
  \A c \in Conn :
    Over(c) /\ unsaved[c] =>
      \E d \in Conn \ {c} : HasPlayer(d) /\ name[d] = name[c]

(* client.rs:1365: a name that is taken cannot be used for a new character *)
(* (the file is looked up in get_name and written when the script ends).   *)
NewCharacterIsNew ==
  [][\A c \in Conn :
       state[c] = "ScriptNamed" /\ state'[c] = "Active" =>
         user_file[name[c]] = NoFile]_vars
=============================================================================
