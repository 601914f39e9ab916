--------------------------- MODULE Network_proof ---------------------------
(***************************************************************************)
(* Proofs about the two parts of network/ that have a module.              *)
(*                                                                         *)
(* Session, for every set of connections and of names: the name index and  *)
(* the positions of the world follow the connected players, and a logout   *)
(* drops changes only when another session took over.                      *)
(*                                                                         *)
(* LineCodec, for every limit, every stream and every cut of it into       *)
(* reads: no byte is lost, lines are not glued together, and a read fails  *)
(* only for a line that reaches the limit.  The loop of extract_lines is a *)
(* recursive function, which is shown to exist stage by stage              *)
(* (StagesExist); a fact about all stages is one about the set of those it *)
(* holds of (TurnByTurn).                                                  *)
(***************************************************************************)
EXTENDS Session, LineCodec, FiniteSetTheorems, SequenceTheorems, WellFoundedInduction, TLAPS

-----------------------------------------------------------------------------
(* Sessions *)

(* What the invariants rest on: which variables can still change where. *)
Phases ==
  /\ \A c \in Conn : HasPlayer(c) <=> state[c] = "Active"
  /\ \A c \in Conn : state[c] \notin {"Logo", "Name", "ScriptMode"} => name[c] \in Name
  /\ \A c \in Conn : pc[c] \in {"index", "unbind", "find", "clear"} => HasPlayer(c)
  /\ \A c \in Conn : pc[c] = "index" => c \in clients \cup reaped
  /\ \A c \in Conn : pc[c] = "new" => state[c] = "Logo"
  /\ \A c \in Conn :
       pc[c] \in {"kick", "unplace", "notice"} =>
         state[c] \in {"AskKickExisting", "Notice"}
  /\ \A c \in Conn :
       attempts[c] = PasswordTries =>
         /\ pc[c] \in {"bye", "leave", "gone", "abandoned"}
         /\ ~HasPlayer(c)

IInv == TypeOK /\ Phases /\ NameIndexCurrent /\ PositionHasOwner

LEMMA FindIsCurrent ==
    ASSUME TypeOK, NEW n, Find(n) # NoConn
    PROVE  Find(n) \in Conn /\ Current(Find(n), n)
BY DEF Find

LEMMA WriteTypes ==
    ASSUME TypeOK, NEW c \in Conn, WriteUserFile(c)
    PROVE  user_file' \in [Name -> Int] /\ unsaved' \in [Conn -> BOOLEAN]
<1>1. session[c] \in Int
  BY DEF TypeOK
<1>2. QED
  BY <1>1 DEF TypeOK, WriteUserFile

LEMMA InitIInv == Init => IInv
BY SessionAssumption
   DEF Init, IInv, TypeOK, Phases, NameIndexCurrent, PositionHasOwner,
       HasPlayer, Points, LoginStates, NoFile, PasswordTries

LEMMA TypeStep ==
    ASSUME TypeOK, Phases, [Next]_vars
    PROVE  TypeOK'
<1> USE SessionAssumption
    DEF TypeOK, Points, LoginStates, PasswordTries, task, shared, wire, history,
        Goto, Become, Input
<1>0. CASE UNCHANGED vars
  BY <1>0 DEF vars
<1>1. ASSUME NEW c \in Conn, LoginStep(c) PROVE TypeOK'
  <2>1. CASE Accept(c)
    BY <2>1 DEF Accept
  <2>2. CASE InvalidName(c)
    BY <2>2 DEF InvalidName
  <2>3. CASE StartScript(c)
    BY <2>3 DEF StartScript
  <2>4. ASSUME NEW n \in Name, GiveName(c, n) PROVE TypeOK'
    BY <2>4 DEF GiveName
  <2>5. ASSUME NEW n \in Name, ScriptName(c, n) PROVE TypeOK'
    BY <2>5 DEF ScriptName
  <2>6. CASE WrongPassword(c)
    BY <2>6 DEF WrongPassword, Phases
  <2>7. CASE RightPassword(c)
    BY <2>7 DEF RightPassword
  <2>8. CASE AnswerKick(c)
    BY <2>8 DEF AnswerKick
  <2>9. CASE CompleteLogin(c)
    BY <2>9 DEF CompleteLogin, Enter, Phases
  <2>10. CASE CompleteCreation(c)
    BY <2>10 DEF CompleteCreation, Enter, Phases
  <2>11. QED
    BY <1>1, <2>1, <2>2, <2>3, <2>4, <2>5, <2>6, <2>7, <2>8, <2>9, <2>10 DEF LoginStep
<1>2. ASSUME NEW c \in Conn, Play(c) PROVE TypeOK'
  BY <1>2 DEF Play, Phases, HasPlayer
<1>3. ASSUME NEW c \in Conn, TaskStep(c) PROVE TypeOK'
  <2>1. CASE KickExisting(c)
    <3>1. Find(name[c]) \in Conn \cup {NoConn}
      BY DEF Find
    <3>2. player_clients' \in [Name -> Conn \cup {NoConn}]
      BY <2>1, <3>1 DEF KickExisting, FindDropsStale
    <3>3. channel' \in [Conn -> {"open", "sentinel", "closed"}]
      BY <2>1, <3>1 DEF KickExisting
    <3>4. pc' \in [Conn -> Points]
      BY <2>1 DEF KickExisting
    <3>5. QED
      BY <2>1, <3>2, <3>3, <3>4 DEF KickExisting
  <2>2. CASE RemoveKicked(c)
    BY <2>2 DEF RemoveKicked
  <2>3. CASE SendNotice(c)
    BY <2>3 DEF SendNotice
  <2>4. CASE BindTest(c) \/ BindName(c)
    BY <2>4 DEF BindTest, BindName
  <2>5. CASE Reply(c) \/ Bye(c) \/ ReadEnds(c)
    BY <2>5 DEF Reply, Bye, ReadEnds
  <2>6. CASE RemoveClient(c)
    BY <2>6 DEF RemoveClient
  <2>7. CASE UnbindName(c)
    BY <2>7 DEF UnbindName, UnbindIfMatches
  <2>8. CASE FindReplacement(c)
    BY <2>8 DEF FindReplacement, FindDropsStale, Find
  <2>9. CASE ClearPosition(c)
    BY <2>9 DEF ClearPosition
  <2>10. CASE SaveBody(c)
    <3>1. user_file' \in [Name -> Int] /\ unsaved' \in [Conn -> BOOLEAN]
      BY <2>10, WriteTypes DEF SaveBody
    <3>2. QED
      BY <2>10, <3>1 DEF SaveBody
  <2>11. QED
    BY <1>3, <2>1, <2>2, <2>3, <2>4, <2>5, <2>6, <2>7, <2>8, <2>9, <2>10
       DEF TaskStep
<1>4. ASSUME NEW c \in Conn,
             SendDone(c) \/ PeerCloses(c) \/ SendSentinel(c) \/ WriteFails(c)
      PROVE  TypeOK'
  <2>1. CASE SendDone(c)
    BY <2>1 DEF SendDone
  <2>2. CASE PeerCloses(c)
    BY <2>2 DEF PeerCloses
  <2>3. CASE SendSentinel(c) \/ WriteFails(c)
    BY <2>3 DEF SendSentinel, WriteFails
  <2>4. QED
    BY <1>4, <2>1, <2>2, <2>3
<1>5. ASSUME NEW c \in Conn, OthersStep(c) PROVE TypeOK'
  <2>1. CASE Timeout(c)
    BY <2>1 DEF Timeout
  <2>2. CASE PeriodicSave(c)
    <3>1. user_file' \in [Name -> Int] /\ unsaved' \in [Conn -> BOOLEAN]
      BY <2>2, WriteTypes DEF PeriodicSave
    <3>2. QED
      BY <2>2, <3>1 DEF PeriodicSave
  <2>3. CASE ReapDead(c)
    BY <2>3 DEF ReapDead
  <2>4. CASE UnbindReaped(c)
    BY <2>4 DEF UnbindReaped, UnbindIfMatches
  <2>5. QED
    BY <1>5, <2>1, <2>2, <2>3, <2>4 DEF OthersStep
<1>6. QED
  BY <1>0, <1>1, <1>2, <1>3, <1>4, <1>5 DEF Next, ConnStep

LEMMA PhasesStep ==
    ASSUME TypeOK, Phases, [Next]_vars
    PROVE  Phases'
<1> USE SessionAssumption
    DEF TypeOK, Phases, LoginStates, PasswordTries, task, shared, wire, history,
        Goto, Become, Input, HasPlayer
<1>0. CASE UNCHANGED vars
  BY <1>0 DEF vars
<1>1. ASSUME NEW c \in Conn, LoginStep(c) PROVE Phases'
  <2>1. CASE Accept(c)
    BY <2>1 DEF Accept
  <2>2. CASE InvalidName(c) \/ StartScript(c) \/ AnswerKick(c)
    BY <2>2 DEF InvalidName, StartScript, AnswerKick
  <2>4. ASSUME NEW n \in Name, GiveName(c, n) \/ ScriptName(c, n) PROVE Phases'
    BY <2>4 DEF GiveName, ScriptName
  <2>6. CASE WrongPassword(c)
    BY <2>6 DEF WrongPassword
  <2>7. CASE RightPassword(c)
    BY <2>7 DEF RightPassword
  <2>9. CASE CompleteLogin(c)
    BY <2>9 DEF CompleteLogin, Enter
  <2>10. CASE CompleteCreation(c)
    BY <2>10 DEF CompleteCreation, Enter
  <2>11. QED
    BY <1>1, <2>1, <2>2, <2>4, <2>6, <2>7, <2>9, <2>10 DEF LoginStep
<1>2. ASSUME NEW c \in Conn, Play(c) PROVE Phases'
  BY <1>2 DEF Play
<1>3. ASSUME NEW c \in Conn, TaskStep(c) PROVE Phases'
  <2>1. CASE KickExisting(c) \/ RemoveKicked(c) \/ BindTest(c) \/ BindName(c)
    BY <2>1 DEF KickExisting, RemoveKicked, BindTest, BindName, Current
  <2>2. CASE SendNotice(c)
    BY <2>2 DEF SendNotice
  <2>5. CASE Reply(c) \/ Bye(c) \/ ReadEnds(c)
    BY <2>5 DEF Reply, Bye, ReadEnds
  <2>6. CASE RemoveClient(c)
    BY <2>6 DEF RemoveClient
  <2>7. CASE UnbindName(c) \/ FindReplacement(c)
    BY <2>7 DEF UnbindName, FindReplacement
  <2>9. CASE ClearPosition(c) \/ SaveBody(c)
    BY <2>9 DEF ClearPosition, SaveBody
  <2>10. QED
    BY <1>3, <2>1, <2>2, <2>5, <2>6, <2>7, <2>9 DEF TaskStep
<1>4. ASSUME NEW c \in Conn,
             SendDone(c) \/ PeerCloses(c) \/ SendSentinel(c) \/ WriteFails(c)
      PROVE  Phases'
  BY <1>4 DEF SendDone, PeerCloses, SendSentinel, WriteFails
<1>5. ASSUME NEW c \in Conn, OthersStep(c) PROVE Phases'
  BY <1>5 DEF OthersStep, Timeout, PeriodicSave, ReapDead, UnbindReaped
<1>6. QED
  BY <1>0, <1>1, <1>2, <1>3, <1>4, <1>5 DEF Next, ConnStep
-----------------------------------------------------------------------------
(* The name index                                                          *)

LEMMA IndexStep ==
    ASSUME TypeOK, Phases, NameIndexCurrent, [Next]_vars
    PROVE  NameIndexCurrent'
<1> USE SessionAssumption
    DEF TypeOK, Phases, NameIndexCurrent, task, shared, wire, history,
        Goto, Input, HasPlayer
<1>0. CASE UNCHANGED vars
  BY <1>0 DEF vars
<1>1. ASSUME NEW c \in Conn, LoginStep(c) PROVE NameIndexCurrent'
  <2>1. CASE Accept(c)
    BY <2>1 DEF Accept
  <2>2. CASE InvalidName(c) \/ StartScript(c) \/ AnswerKick(c)
    BY <2>2 DEF InvalidName, StartScript, AnswerKick
  <2>3. ASSUME NEW n \in Name, GiveName(c, n) \/ ScriptName(c, n)
        PROVE  NameIndexCurrent'
    BY <2>3 DEF GiveName, ScriptName
  <2>4. CASE WrongPassword(c) \/ RightPassword(c)
    BY <2>4 DEF WrongPassword, RightPassword
  <2>5. CASE CompleteLogin(c) \/ CompleteCreation(c)
    BY <2>5 DEF CompleteLogin, CompleteCreation, Enter
  <2>6. QED
    BY <1>1, <2>1, <2>2, <2>3, <2>4, <2>5 DEF LoginStep
<1>2. ASSUME NEW c \in Conn, Play(c) PROVE NameIndexCurrent'
  BY <1>2 DEF Play
<1>3. ASSUME NEW c \in Conn, TaskStep(c) PROVE NameIndexCurrent'
  <2>1. CASE KickExisting(c)
    BY <2>1 DEF KickExisting, FindDropsStale, Find
  <2>2. CASE RemoveKicked(c) \/ SendNotice(c)
    BY <2>2 DEF RemoveKicked, SendNotice
  <2>3. CASE BindTest(c) \/ BindName(c)
    BY <2>3 DEF BindTest, BindName
  <2>4. CASE Reply(c) \/ Bye(c) \/ ReadEnds(c)
    <3>1. UNCHANGED <<player_clients, clients, session, name, removing, reaped>>
      BY <2>4 DEF Reply, Bye, ReadEnds
    <3>2. \A d \in Conn \ {c} : pc'[d] = pc[d]
      BY <2>4 DEF Reply, Bye, ReadEnds
    <3>3. c \notin clients /\ pc[c] = "reply" => pc'[c] = "abandoned"
      BY <2>4 DEF Reply, Bye, ReadEnds, CanSend
    <3>4. pc[c] \notin {"unbind", "abandoned"}
      BY <2>4 DEF Reply, Bye, ReadEnds
    <3>5. QED
      BY <3>1, <3>2, <3>3, <3>4
  <2>5. CASE RemoveClient(c)
    BY <2>5 DEF RemoveClient
  <2>6. CASE UnbindName(c)
    BY <2>6 DEF UnbindName, UnbindIfMatches
  <2>7. CASE FindReplacement(c)
    BY <2>7 DEF FindReplacement, FindDropsStale, Find
  <2>8. CASE ClearPosition(c) \/ SaveBody(c)
    BY <2>8 DEF ClearPosition, SaveBody, WriteUserFile
  <2>9. QED
    BY <1>3, <2>1, <2>2, <2>3, <2>4, <2>5, <2>6, <2>7, <2>8 DEF TaskStep
<1>4. ASSUME NEW c \in Conn,
             SendDone(c) \/ PeerCloses(c) \/ SendSentinel(c) \/ WriteFails(c)
      PROVE  NameIndexCurrent'
  BY <1>4 DEF SendDone, PeerCloses, SendSentinel, WriteFails
<1>5. ASSUME NEW c \in Conn, OthersStep(c) PROVE NameIndexCurrent'
  <2>1. CASE Timeout(c) \/ PeriodicSave(c)
    BY <2>1 DEF Timeout, PeriodicSave, WriteUserFile
  <2>2. CASE ReapDead(c)
    BY <2>2 DEF ReapDead
  <2>3. CASE UnbindReaped(c)
    BY <2>3 DEF UnbindReaped, UnbindIfMatches
  <2>4. QED
    BY <1>5, <2>1, <2>2, <2>3 DEF OthersStep
<1>6. QED
  BY <1>0, <1>1, <1>2, <1>3, <1>4, <1>5 DEF Next, ConnStep

-----------------------------------------------------------------------------
(* The positions                                                           *)

LEMMA PositionStep ==
    ASSUME TypeOK, Phases, NameIndexCurrent, PositionHasOwner, [Next]_vars
    PROVE  PositionHasOwner'
<1> USE SessionAssumption
    DEF TypeOK, Phases, PositionHasOwner, StillOwns, task, shared, wire, history,
        Goto, Input, HasPlayer
<1>0. CASE UNCHANGED vars
  BY <1>0 DEF vars
<1>1. ASSUME NEW c \in Conn, LoginStep(c) PROVE PositionHasOwner'
  <2>1. CASE Accept(c)
    BY <2>1 DEF Accept
  <2>2. CASE InvalidName(c) \/ StartScript(c) \/ AnswerKick(c)
    BY <2>2 DEF InvalidName, StartScript, AnswerKick
  <2>3. ASSUME NEW n \in Name, GiveName(c, n) \/ ScriptName(c, n)
        PROVE  PositionHasOwner'
    BY <2>3 DEF GiveName, ScriptName
  <2>4. CASE WrongPassword(c) \/ RightPassword(c)
    BY <2>4 DEF WrongPassword, RightPassword
  <2>5. CASE CompleteLogin(c) \/ CompleteCreation(c)
    <3>1. Enter(c) /\ c \in clients' /\ UNCHANGED <<clients, name, reaped>>
      BY <2>5 DEF CompleteLogin, CompleteCreation
    <3>2. StillOwns(c, name[c])'
      BY <3>1 DEF Enter
    <3>3. ASSUME NEW d \in Conn, NEW n \in player_positions, StillOwns(d, n)
          PROVE  StillOwns(d, n)'
      BY <2>5, <3>1, <3>3 DEF Enter, CompleteLogin, CompleteCreation
    <3>4. QED
      BY <3>1, <3>2, <3>3 DEF Enter
  <2>6. QED
    BY <1>1, <2>1, <2>2, <2>3, <2>4, <2>5 DEF LoginStep
<1>2. ASSUME NEW c \in Conn, Play(c) PROVE PositionHasOwner'
  <2>1. /\ UNCHANGED <<clients, session, name, reaped>>
        /\ c \in clients /\ session[c] # 0
        /\ player_positions' \subseteq player_positions \cup {name[c]}
    BY <1>2 DEF Play
  <2>2. \A d \in Conn : pc[d] \in {"unbind", "find", "clear"} => pc'[d] = pc[d]
    BY <1>2 DEF Play
  <2>3. ASSUME NEW n \in player_positions' PROVE \E d \in Conn : StillOwns(d, n)'
    <3>1. CASE n = name[c]
      BY <2>1, <3>1
    <3>2. CASE n \in player_positions
      <4>1. PICK d \in Conn : StillOwns(d, n)
        BY <3>2
      <4>2. QED
        BY <2>1, <2>2, <4>1
    <3>3. QED
      BY <2>1, <3>1, <3>2
  <2>4. QED
    BY <2>3
<1>3. ASSUME NEW c \in Conn, TaskStep(c) PROVE PositionHasOwner'
  <2>1. CASE KickExisting(c) \/ BindTest(c) \/ BindName(c)
    BY <2>1 DEF KickExisting, BindTest, BindName
  <2>2. CASE RemoveKicked(c) \/ SendNotice(c)
    BY <2>2 DEF RemoveKicked, SendNotice
  <2>3. CASE Reply(c) \/ Bye(c) \/ ReadEnds(c)
    BY <2>3 DEF Reply, Bye, ReadEnds
  <2>4. CASE RemoveClient(c)
    BY <2>4 DEF RemoveClient
  <2>5. CASE UnbindName(c)
    BY <2>5 DEF UnbindName
  <2>6. CASE FindReplacement(c)
    <3>1. CASE Find(name[c]) = NoConn
      BY <2>6, <3>1 DEF FindReplacement
    <3>2. CASE Find(name[c]) # NoConn
      <4>1. PICK r \in clients : session[r] # 0 /\ name[r] = name[c]
        BY <3>2, FindIsCurrent DEF Current
      <4>2. UNCHANGED <<clients, session, name, reaped, player_positions>>
        BY <2>6 DEF FindReplacement
      <4>3. ASSUME NEW n \in player_positions PROVE \E d \in Conn : StillOwns(d, n)'
        <5>1. PICK d \in Conn : StillOwns(d, n)
          OBVIOUS
        <5>2. CASE n = name[c]
          <6>1. r \in Conn /\ StillOwns(r, n)'
            BY <4>1, <4>2, <5>2
          <6>2. QED
            BY <6>1
        <5>3. CASE n # name[c]
          <6>1. d # c /\ pc'[d] = pc[d]
            BY <5>1, <5>3, <2>6 DEF FindReplacement
          <6>2. QED
            BY <4>2, <5>1, <6>1
        <5>4. QED
          BY <5>2, <5>3
      <4>4. QED
        BY <4>2, <4>3
    <3>3. QED
      BY <3>1, <3>2
  <2>7. CASE ClearPosition(c)
    BY <2>7 DEF ClearPosition
  <2>8. CASE SaveBody(c)
    BY <2>8 DEF SaveBody
  <2>9. QED
    BY <1>3, <2>1, <2>2, <2>3, <2>4, <2>5, <2>6, <2>7, <2>8 DEF TaskStep
<1>4. ASSUME NEW c \in Conn,
             SendDone(c) \/ PeerCloses(c) \/ SendSentinel(c) \/ WriteFails(c)
      PROVE  PositionHasOwner'
  BY <1>4 DEF SendDone, PeerCloses, SendSentinel, WriteFails
<1>5. ASSUME NEW c \in Conn, OthersStep(c) PROVE PositionHasOwner'
  <2>1. CASE Timeout(c) \/ PeriodicSave(c)
    BY <2>1 DEF Timeout, PeriodicSave
  <2>2. CASE ReapDead(c)
    BY <2>2 DEF ReapDead
  <2>3. CASE UnbindReaped(c)
    BY <2>3 DEF UnbindReaped
  <2>4. QED
    BY <1>5, <2>1, <2>2, <2>3 DEF OthersStep
<1>6. QED
  BY <1>0, <1>1, <1>2, <1>3, <1>4, <1>5 DEF Next, ConnStep

-----------------------------------------------------------------------------
LEMMA Inductive == IInv /\ [Next]_vars => IInv'
BY TypeStep, PhasesStep, IndexStep, PositionStep DEF IInv

(* The name index leads to the connected player of the name, and is stale  *)
(* only while the remove_client that will repair it runs.                  *)
THEOREM IndexSound == Spec => []NameIndexCurrent
<1>1. IInv => NameIndexCurrent
  BY DEF IInv
<1>2. QED
  BY InitIInv, Inductive, <1>1, PTL DEF Spec

(* No interleaving of logins, kicks and cleanups leaves a character in a   *)
(* room with nobody left to take it out: of several sessions of a name the *)
(* last to leave the client map finds no replacement and clears it.        *)
THEOREM NoGhosts == Spec => []PositionHasOwner
<1>1. IInv => PositionHasOwner
  BY DEF IInv
<1>2. QED
  BY InitIInv, Inductive, <1>1, PTL DEF Spec

(* The type invariant. *)
THEOREM SessionTyping == Spec => []TypeOK
<1>1. IInv => TypeOK
  BY DEF IInv
<1>2. QED
  BY InitIInv, Inductive, <1>1, PTL DEF Spec
-----------------------------------------------------------------------------
(* What a cleanup drops                                                    *)

(* Only a player has changes to lose; a player whose client is out of the  *)
(* map is in the cleanup that took it out, or the game loop took it; and   *)
(* from there nothing brings the client back.                              *)
Cleanup ==
  /\ \A c \in Conn : unsaved[c] => HasPlayer(c)
  /\ \A c \in Conn :
       HasPlayer(c) /\ c \notin clients =>
         c \in reaped \/ pc[c] \in {"unbind", "find", "clear", "save", "gone"}
  /\ \A c \in Conn :
       pc[c] \in {"unbind", "find", "clear", "save", "gone"} => c \notin clients

(* Another session of the character of c has entered the game. *)
Replaced(c) == \E d \in Conn \ {c} : HasPlayer(d) /\ name[d] = name[c]

(* A player keeps its name, and a player stays one: the name is asked for  *)
(* before the player exists.                                               *)
LEMMA ReplacedStays ==
    ASSUME TypeOK, Phases, [Next]_vars, NEW c \in Conn, HasPlayer(c), Replaced(c)
    PROVE  Replaced(c)'
<1>1. ASSUME NEW d \in Conn, HasPlayer(d) PROVE HasPlayer(d)' /\ name'[d] = name[d]
  <2> USE <1>1 DEF TypeOK, Phases, HasPlayer, task, shared, wire, history, Input
  <2>0. CASE UNCHANGED vars
    BY <2>0 DEF vars
  <2>1. ASSUME NEW e \in Conn, LoginStep(e) PROVE HasPlayer(d)' /\ name'[d] = name[d]
    BY <2>1 DEF LoginStep, Accept, InvalidName, StartScript, GiveName, ScriptName,
       WrongPassword, RightPassword, AnswerKick, CompleteLogin, CompleteCreation, Enter
  <2>2. ASSUME NEW e \in Conn, TaskStep(e) PROVE HasPlayer(d)' /\ name'[d] = name[d]
    BY <2>2 DEF TaskStep, KickExisting, RemoveKicked, SendNotice, BindTest, BindName, Reply, Bye,
       ReadEnds, RemoveClient, UnbindName, FindReplacement, ClearPosition, SaveBody
  <2>3. ASSUME NEW e \in Conn,
               \/ Play(e) \/ SendDone(e) \/ PeerCloses(e) \/ SendSentinel(e)
               \/ WriteFails(e) \/ OthersStep(e)
        PROVE  HasPlayer(d)' /\ name'[d] = name[d]
    BY <2>3 DEF Play, SendDone, PeerCloses, SendSentinel, WriteFails, OthersStep,
       Timeout, PeriodicSave, ReapDead, UnbindReaped
  <2>4. QED
    BY <2>0, <2>1, <2>2, <2>3 DEF Next, ConnStep
<1>2. QED
  BY <1>1 DEF Replaced

LEMMA CleanupStep ==
    ASSUME TypeOK, Phases, Cleanup, [Next]_vars
    PROVE  Cleanup'
<1> USE SessionAssumption
    DEF TypeOK, Phases, Cleanup, task, shared, wire, history, Goto, Input, HasPlayer
<1>0. CASE UNCHANGED vars
  BY <1>0 DEF vars
<1>1. ASSUME NEW c \in Conn, LoginStep(c) PROVE Cleanup'
  <2>1. CASE Accept(c)
    BY <2>1 DEF Accept
  <2>2. CASE InvalidName(c) \/ StartScript(c) \/ AnswerKick(c)
    BY <2>2 DEF InvalidName, StartScript, AnswerKick
  <2>3. ASSUME NEW n \in Name, GiveName(c, n) \/ ScriptName(c, n) PROVE Cleanup'
    BY <2>3 DEF GiveName, ScriptName
  <2>4. CASE WrongPassword(c) \/ RightPassword(c)
    BY <2>4 DEF WrongPassword, RightPassword
  <2>5. CASE CompleteLogin(c) \/ CompleteCreation(c)
    BY <2>5 DEF CompleteLogin, CompleteCreation, Enter
  <2>6. QED
    BY <1>1, <2>1, <2>2, <2>3, <2>4, <2>5 DEF LoginStep
<1>2. ASSUME NEW c \in Conn, Play(c) PROVE Cleanup'
  BY <1>2 DEF Play
<1>3. ASSUME NEW c \in Conn, TaskStep(c) PROVE Cleanup'
  <2>1. CASE KickExisting(c) \/ RemoveKicked(c) \/ SendNotice(c) \/ BindTest(c) \/ BindName(c)
    BY <2>1 DEF KickExisting, RemoveKicked, SendNotice, BindTest, BindName
  <2>2. CASE Reply(c) \/ Bye(c) \/ ReadEnds(c)
    BY <2>2 DEF Reply, Bye, ReadEnds
  <2>3. CASE RemoveClient(c)
    BY <2>3 DEF RemoveClient
  <2>4. CASE UnbindName(c) \/ FindReplacement(c) \/ ClearPosition(c)
    BY <2>4 DEF UnbindName, FindReplacement, ClearPosition
  <2>5. CASE SaveBody(c)
    BY <2>5 DEF SaveBody, WriteUserFile
  <2>6. QED
    BY <1>3, <2>1, <2>2, <2>3, <2>4, <2>5 DEF TaskStep
<1>4. ASSUME NEW c \in Conn,
             SendDone(c) \/ PeerCloses(c) \/ SendSentinel(c) \/ WriteFails(c)
      PROVE  Cleanup'
  BY <1>4 DEF SendDone, PeerCloses, SendSentinel, WriteFails
<1>5. ASSUME NEW c \in Conn, OthersStep(c) PROVE Cleanup'
  BY <1>5 DEF OthersStep, Timeout, PeriodicSave, WriteUserFile, ReapDead, UnbindReaped
<1>6. QED
  BY <1>0, <1>1, <1>2, <1>3, <1>4, <1>5 DEF Next, ConnStep

(* What a step can do to a cleanup that is over, or ends with the step.    *)
LEMMA DroppedStep ==
    ASSUME TypeOK, Phases, Cleanup, DroppedOnlyIfReplaced, [Next]_vars
    PROVE  DroppedOnlyIfReplaced'
<1> SUFFICES ASSUME NEW c \in Conn, (pc[c] = "gone")', unsaved'[c], c \notin reaped'
             PROVE  Replaced(c)'
  BY DEF DroppedOnlyIfReplaced, Replaced
<1> USE SessionAssumption
    DEF TypeOK, task, shared, wire, history, Goto, Input, HasPlayer
<1>1. CASE pc[c] = "gone"
  <2>1. unsaved[c] /\ c \notin reaped /\ HasPlayer(c)
    <3>1. ASSUME NEW d \in Conn, LoginStep(d) PROVE UNCHANGED <<unsaved, reaped>>
      BY <3>1 DEF LoginStep, Accept, InvalidName, StartScript, GiveName, ScriptName,
         WrongPassword, RightPassword, AnswerKick, CompleteLogin, CompleteCreation
    <3>2. ASSUME NEW d \in Conn, Play(d) PROVE d # c /\ unsaved'[c] = unsaved[c] /\ UNCHANGED reaped
      BY <1>1, <3>2 DEF Play
    <3>3. ASSUME NEW d \in Conn, TaskStep(d) PROVE (unsaved'[c] => unsaved[c]) /\ UNCHANGED reaped
      BY <3>3 DEF TaskStep, KickExisting, RemoveKicked, SendNotice, BindTest, BindName, Reply, Bye,
         ReadEnds, RemoveClient, UnbindName, FindReplacement, ClearPosition, SaveBody,
         WriteUserFile
    <3>4. ASSUME NEW d \in Conn,
                 \/ SendDone(d) \/ PeerCloses(d) \/ SendSentinel(d) \/ WriteFails(d)
                 \/ OthersStep(d)
          PROVE  (unsaved'[c] => unsaved[c]) /\ reaped \subseteq reaped'
      BY <3>4 DEF SendDone, PeerCloses, SendSentinel, WriteFails, OthersStep,
         Timeout, PeriodicSave, WriteUserFile, ReapDead, UnbindReaped
    <3>5. ASSUME UNCHANGED vars PROVE unsaved[c] /\ c \notin reaped
      BY <3>5 DEF vars
    <3>6. unsaved[c] /\ c \notin reaped
      BY <3>1, <3>2, <3>3, <3>4, <3>5 DEF Next, ConnStep
    <3>7. QED
      BY <3>6 DEF Cleanup
  <2>2. Replaced(c)
    BY <1>1, <2>1 DEF DroppedOnlyIfReplaced, Replaced
  <2>3. QED
    BY <2>1, <2>2, ReplacedStays
<1>2. CASE pc[c] # "gone"
  <2>1. RemoveClient(c) \/ FindReplacement(c) \/ SaveBody(c)
    <3>1. ASSUME NEW d \in Conn, LoginStep(d) PROVE pc'[c] # "gone"
      BY <1>2, <3>1 DEF LoginStep, Accept, InvalidName, StartScript, GiveName, ScriptName,
         WrongPassword, RightPassword, AnswerKick, CompleteLogin, CompleteCreation, Enter
    <3>2. ASSUME NEW d \in Conn,
                 \/ KickExisting(d) \/ RemoveKicked(d) \/ SendNotice(d)
                 \/ BindTest(d) \/ BindName(d)
                 \/ Reply(d) \/ Bye(d) \/ ReadEnds(d) \/ UnbindName(d) \/ ClearPosition(d)
          PROVE  pc'[c] # "gone"
      BY <1>2, <3>2 DEF KickExisting, RemoveKicked, SendNotice, BindTest, BindName, Reply, Bye,
         ReadEnds, UnbindName, ClearPosition
    <3>3. ASSUME NEW d \in Conn, d # c,
                 RemoveClient(d) \/ FindReplacement(d) \/ SaveBody(d)
          PROVE  pc'[c] # "gone"
      BY <1>2, <3>3 DEF RemoveClient, FindReplacement, SaveBody
    <3>4. ASSUME NEW d \in Conn,
                 \/ Play(d) \/ SendDone(d) \/ PeerCloses(d) \/ SendSentinel(d)
                 \/ WriteFails(d) \/ OthersStep(d)
          PROVE  pc'[c] # "gone"
      BY <1>2, <3>4 DEF Play, SendDone, PeerCloses, SendSentinel, WriteFails, OthersStep,
         Timeout, PeriodicSave, ReapDead, UnbindReaped
    <3>5. CASE UNCHANGED vars
      BY <1>2, <3>5 DEF vars
    <3>6. QED
      BY <3>1, <3>2, <3>3, <3>4, <3>5 DEF Next, ConnStep, TaskStep
  <2>2. CASE RemoveClient(c)
    <3>1. pc[c] = "leave" /\ unsaved[c] /\ c \notin reaped
      BY <2>2 DEF RemoveClient
    <3>2. c \in clients /\ HasPlayer(c)
      BY <3>1 DEF Cleanup
    <3>3. QED
      BY <2>2, <3>2 DEF RemoveClient
  <2>3. CASE FindReplacement(c)
    <3>1. Find(name[c]) # NoConn /\ UNCHANGED <<clients, name, session>>
      BY <1>2, <2>3 DEF FindReplacement
    <3>2. PICK d \in Conn : d \in clients /\ HasPlayer(d) /\ name[d] = name[c]
      BY <3>1, FindIsCurrent DEF Current
    <3>3. c \notin clients
      BY <2>3 DEF FindReplacement, Cleanup
    <3>4. QED
      BY <3>1, <3>2, <3>3 DEF Replaced
  <2>4. CASE SaveBody(c)
    BY <2>4 DEF SaveBody, WriteUserFile
  <2>5. QED
    BY <2>1, <2>2, <2>3, <2>4
<1>3. QED
  BY <1>1, <1>2

(* However logins, kicks, timeouts, dead channels and cleanups interleave,  *)
(* a connection whose cleanup ended with its client in hand has lost        *)
(* changes only to another session of its character: the early return of   *)
(* remove_client and the replacement test never drop the last copy.         *)
THEOREM DroppedOnlyToReplacement == Spec => []DroppedOnlyIfReplaced
<1>1. Init => Cleanup /\ DroppedOnlyIfReplaced
  BY DEF Init, Cleanup, DroppedOnlyIfReplaced, HasPlayer
<1>2. IInv /\ Cleanup /\ DroppedOnlyIfReplaced /\ [Next]_vars
        => Cleanup' /\ DroppedOnlyIfReplaced'
  BY CleanupStep, DroppedStep DEF IInv
<1>3. QED
  BY InitIInv, Inductive, <1>1, <1>2, PTL DEF Spec

-----------------------------------------------------------------------------
(* Counting *)

\* What holds of 0 and of the successor of each number for which it holds
\* holds of every number (for a set of numbers, since a theorem cannot be
\* given an operator).
LEMMA NaturalsUp ==
  ASSUME NEW S, 0 \in S, \A n \in Nat : n \in S => n + 1 \in S
  PROVE  Nat \subseteq S
<1> DEFINE Less == {p \in Nat \X Nat : p[1] < p[2]}
           Missing == Nat \ S
<1> SUFFICES ASSUME Missing # {} PROVE FALSE
  OBVIOUS
<1>1. \A x, y \in Nat : <<y, x>> \in Less <=> y < x
  OBVIOUS
<1>2. IsWellFoundedOn(Less, Nat)
  BY NatLessThanWellFounded DEF OpToRel
<1>3. Missing \subseteq Nat
  OBVIOUS
<1> HIDE DEF Less
<1>4. PICK x \in Missing : \A y \in Missing : <<y, x>> \notin Less
  <2> HIDE DEF Missing
  <2>1. QED
    BY <1>2, <1>3, WFMin
<1>5. x \in Nat /\ x # 0 /\ x \notin S
  OBVIOUS
<1>6. x - 1 \in Nat /\ x - 1 < x /\ x = (x - 1) + 1
  BY <1>5
<1>7. x - 1 \in Missing
  BY <1>5, <1>6
<1>8. QED
  BY <1>1, <1>4, <1>5, <1>6, <1>7

\* What holds before a loop and is kept by each of its n turns, for the turns
\* in a set.
LEMMA TurnByTurn ==
  ASSUME NEW n \in Nat, NEW S, 0 \in S, \A i \in 1..n : i - 1 \in S => i \in S
  PROVE  0..n \subseteq S
<1> DEFINE T == {k \in Nat : k <= n => k \in S}
<1>1. 0 \in T
  OBVIOUS
<1>2. ASSUME NEW k \in Nat, k \in T PROVE k + 1 \in T
  <2> SUFFICES ASSUME k + 1 <= n PROVE k + 1 \in S
    OBVIOUS
  <2>1. k \in S /\ k + 1 \in 1..n /\ (k + 1) - 1 = k
    BY <1>2
  <2>2. QED
    BY <2>1
<1> HIDE DEF T
<1>3. Nat \subseteq T
  BY <1>1, <1>2, NaturalsUp
<1>4. QED
  BY <1>3 DEF T

\* What the n turns of a loop do to a state.
Loops(X, n) == [1..n -> [X -> X]]

\* The stages of such a loop from x on.
StagesOf(g, X, x, n, turn) ==
  /\ g \in [0..n -> X]
  /\ g[0] = x
  /\ \A i \in 1..n : g[i] = turn[i][g[i - 1]]

\* A loop of n turns goes through n + 1 states: there is a function with the
\* equations of its stages.
LEMMA StagesExist ==
  ASSUME NEW X, NEW x \in X, NEW n \in Nat, NEW turn \in Loops(X, n)
  PROVE  \E g : StagesOf(g, X, x, n, turn)
<1> USE DEF Loops
<1> DEFINE Good(g, k) == /\ g \in [0..k -> X]
                         /\ g[0] = x
                         /\ \A i \in 1..k : g[i] = turn[i][g[i - 1]]
           S == {k \in 0..n : \E g : Good(g, k)}
<1>1. 0 \in S
  <2>1. Good([i \in 0..0 |-> x], 0)
    OBVIOUS
  <2> HIDE DEF Good
  <2>2. QED
    BY <2>1
<1>2. ASSUME NEW m \in 1..n, m - 1 \in S PROVE m \in S
  <2>1. PICK g : Good(g, m - 1)
    BY <1>2
  <2> DEFINE new == turn[m][g[m - 1]]
             h == [i \in 0..m |-> IF i = m THEN new ELSE g[i]]
  <2>2. g \in [0..(m - 1) -> X] /\ g[0] = x /\ \A i \in 1..(m - 1) : g[i] = turn[i][g[i - 1]]
    BY <2>1
  <2>3. g[m - 1] \in X /\ turn[m] \in [X -> X]
    BY <2>2
  <2>4. new \in X
    BY <2>3
  <2>5. h \in [0..m -> X]
    <3> HIDE DEF new
    <3>1. QED
      BY <2>2, <2>4
  <2>6. h[0] = x
    BY <2>2
  <2>7. ASSUME NEW i \in 1..m PROVE h[i] = turn[i][h[i - 1]]
    <3>1. i - 1 \in 0..m /\ i - 1 # m /\ h[i - 1] = g[i - 1]
      OBVIOUS
    <3>2. CASE i = m
      BY <3>1, <3>2
    <3>3. CASE i # m
      <4>1. i \in 1..(m - 1) /\ h[i] = g[i]
        BY <3>3
      <4>2. QED
        BY <2>2, <3>1, <4>1
    <3>4. QED
      BY <3>2, <3>3
  <2> HIDE DEF h
  <2>8. Good(h, m)
    BY <2>5, <2>6, <2>7
  <2>9. QED
    BY <2>8
<1>3. n \in S
  <2> HIDE DEF S
  <2>1. 0..n \subseteq S
    BY <1>1, <1>2, TurnByTurn
  <2>2. QED
    BY <2>1
<1>4. QED
  BY <1>3 DEF StagesOf

-----------------------------------------------------------------------------
(* Delimiters in a piece of the stream *)

DelimsIn(b) == At(CRLF, b) \cup At(CRNUL, b)
OneKind(b) == At(CRLF, b) = {} \/ At(CRNUL, b) = {}

\* A delimiter stands where its two bytes do.
LEMMA AtIs ==
  ASSUME NEW b \in Seq(Byte), NEW x, NEW y
  PROVE  At(<<x, y>>, b) = {i \in 1..(Len(b) - 1) : b[i] = x /\ b[i + 1] = y}
<1> SUFFICES ASSUME NEW i \in 1..(Len(b) - 1)
             PROVE  SubSeq(b, i, i + 1) = <<x, y>> <=> b[i] = x /\ b[i + 1] = y
  BY DEF At
<1> DEFINE t == SubSeq(b, i, i + 1)
<1>1. Len(b) \in Nat /\ i \in Int /\ i + 1 <= Len(b)
  OBVIOUS
<1>2. t \in Seq(Byte) /\ Len(t) = 2 /\ t[1] = b[i] /\ t[2] = b[i + 1]
  <2>1. t \in Seq(Byte) /\ Len(t) = (i + 1) - i + 1 /\ \A k \in 1..((i + 1) - i + 1) : t[k] = b[i + k - 1]
    BY <1>1, SubSeqProperties
  <2> HIDE DEF t
  <2>2. (i + 1) - i + 1 = 2 /\ i + 1 - 1 = i /\ i + 2 - 1 = i + 1
    BY <1>1
  <2>3. Len(t) = 2 /\ \A k \in 1..2 : t[k] = b[i + k - 1]
    BY <2>1, <2>2
  <2>4. 1 \in 1..2 /\ 2 \in 1..2
    OBVIOUS
  <2>5. t[1] = b[i + 1 - 1] /\ t[2] = b[i + 2 - 1]
    BY <2>3, <2>4
  <2>6. QED
    BY <2>1, <2>2, <2>3, <2>5
<1> HIDE DEF t
<1>3. t = <<b[i], b[i + 1]>>
  BY <1>2
<1>4. QED
  BY <1>3 DEF t

LEMMA DelimIs ==
  ASSUME NEW b \in Seq(Byte)
  PROVE  /\ At(CRLF, b) = {i \in 1..(Len(b) - 1) : b[i] = "cr" /\ b[i + 1] = "lf"}
         /\ At(CRNUL, b) = {i \in 1..(Len(b) - 1) : b[i] = "cr" /\ b[i + 1] = "nul"}
  BY AtIs DEF CRLF, CRNUL

LEMMA DelimPlaces ==
  ASSUME NEW b \in Seq(Byte), NEW i
  PROVE  i \in DelimsIn(b) <=> /\ i \in 1..(Len(b) - 1)
                               /\ b[i] = "cr" /\ b[i + 1] \in {"lf", "nul"}
  BY DelimIs DEF DelimsIn

\* A set of numbers that is not empty has a least one.
LEMMA LeastOne ==
  ASSUME NEW S, S \subseteq Nat, S # {}
  PROVE  Min(S) \in S /\ \A y \in S : Min(S) <= y
<1> DEFINE Less == {p \in Nat \X Nat : p[1] < p[2]}
<1>1. \A x, y \in Nat : <<y, x>> \in Less <=> y < x
  OBVIOUS
<1>2. IsWellFoundedOn(Less, Nat)
  BY NatLessThanWellFounded DEF OpToRel
<1> HIDE DEF Less
<1>3. PICK x \in S : \A y \in S : <<y, x>> \notin Less
  BY <1>2, WFMin
<1>4. ASSUME NEW y \in S PROVE x <= y
  <2>1. x \in Nat /\ y \in Nat /\ <<y, x>> \notin Less
    BY <1>3
  <2>2. ~(y < x)
    BY <1>1, <2>1
  <2>3. QED
    BY <2>1, <2>2
<1>5. QED
  BY <1>3, <1>4 DEF Min

\* The delimiter to cut at is one of them, and of one kind the first.
LEMMA FirstIs ==
  ASSUME NEW b \in Seq(Byte)
  PROVE  /\ FirstDelim(b) \in Nat
         /\ FirstDelim(b) = 0 <=> DelimsIn(b) = {}
         /\ FirstDelim(b) # 0 => FirstDelim(b) \in DelimsIn(b)
         /\ OneKind(b) => \A j \in DelimsIn(b) : FirstDelim(b) <= j
<1> DEFINE A == At(CRLF, b)
           N == At(CRNUL, b)
           p == FirstDelim(b)
<1>1. A \subseteq Nat /\ N \subseteq Nat /\ 0 \notin A /\ 0 \notin N
  BY DelimIs
<1>2. p = IF A # {} THEN Min(A) ELSE IF N # {} THEN Min(N) ELSE 0
  BY DEF FirstDelim
<1>3. DelimsIn(b) = A \cup N /\ (OneKind(b) <=> A = {} \/ N = {})
  BY DEF DelimsIn, OneKind
<1> HIDE DEF A, N, p
<1>4. CASE A # {}
  <2>1. Min(A) \in A /\ \A y \in A : Min(A) <= y
    BY <1>1, <1>4, LeastOne
  <2>2. p = Min(A)
    BY <1>2, <1>4
  <2>3. QED
    BY <1>1, <1>3, <1>4, <2>1, <2>2 DEF p
<1>5. CASE A = {} /\ N # {}
  <2>1. Min(N) \in N /\ \A y \in N : Min(N) <= y
    BY <1>1, <1>5, LeastOne
  <2>2. p = Min(N)
    BY <1>2, <1>5
  <2>3. QED
    BY <1>1, <1>3, <1>5, <2>1, <2>2 DEF p
<1>6. CASE A = {} /\ N = {}
  <2>1. p = 0
    BY <1>2, <1>6
  <2>2. QED
    BY <1>3, <1>6, <2>1 DEF p
<1>7. QED
  BY <1>4, <1>5, <1>6

-----------------------------------------------------------------------------
(* Ends and beginnings of the stream *)

\* b is what the stream T ends with; Off counts the bytes before it.
Off(T, b) == Len(T) - Len(b)
Ends(T, b) ==
  /\ T \in Seq(Byte) /\ b \in Seq(Byte)
  /\ Len(b) <= Len(T)
  /\ \A k \in 1..Len(b) : b[k] = T[Off(T, b) + k]

\* The delimiters of the end of a stream are those of the stream in it.
LEMMA EndsAt ==
  ASSUME NEW T, NEW b, Ends(T, b), NEW i \in Int, i >= 1
  PROVE  /\ i \in At(CRLF, b) <=> Off(T, b) + i \in At(CRLF, T)
         /\ i \in At(CRNUL, b) <=> Off(T, b) + i \in At(CRNUL, T)
<1> DEFINE o == Off(T, b)
<1>1. /\ T \in Seq(Byte) /\ b \in Seq(Byte) /\ Len(b) \in Nat /\ Len(T) \in Nat
      /\ o \in Nat /\ Len(T) = o + Len(b)
  BY DEF Ends, Off
<1>2. \A k \in 1..Len(b) : b[k] = T[o + k]
  BY DEF Ends
<1> HIDE DEF o
<1>3. i \in 1..(Len(b) - 1) <=> o + i \in 1..(Len(T) - 1)
  BY <1>1
<1>4. i \in 1..(Len(b) - 1) => b[i] = T[o + i] /\ b[i + 1] = T[(o + i) + 1]
  <2> SUFFICES ASSUME i \in 1..(Len(b) - 1) PROVE b[i] = T[o + i] /\ b[i + 1] = T[(o + i) + 1]
    OBVIOUS
  <2>1. i \in 1..Len(b) /\ i + 1 \in 1..Len(b) /\ o + (i + 1) = (o + i) + 1
    BY <1>1
  <2>2. QED
    BY <1>2, <2>1
<1>5. /\ i \in At(CRLF, b) <=> o + i \in At(CRLF, T)
      /\ i \in At(CRNUL, b) <=> o + i \in At(CRNUL, T)
  <2> DEFINE j == o + i
  <2>1. /\ i \in At(CRLF, b) <=> i \in 1..(Len(b) - 1) /\ b[i] = "cr" /\ b[i + 1] = "lf"
        /\ i \in At(CRNUL, b) <=> i \in 1..(Len(b) - 1) /\ b[i] = "cr" /\ b[i + 1] = "nul"
    BY <1>1, DelimIs
  <2>2. /\ j \in At(CRLF, T) <=> j \in 1..(Len(T) - 1) /\ T[j] = "cr" /\ T[j + 1] = "lf"
        /\ j \in At(CRNUL, T) <=> j \in 1..(Len(T) - 1) /\ T[j] = "cr" /\ T[j + 1] = "nul"
    <3> HIDE DEF j
    <3>1. QED
      BY <1>1, DelimIs
  <2>3. QED
    BY <1>3, <1>4, <2>1, <2>2
<1>6. QED
  BY <1>5 DEF o

LEMMA EndsOneKind ==
  ASSUME NEW T, NEW b, Ends(T, b), OneKind(T)
  PROVE  OneKind(b)
<1>1. b \in Seq(Byte)
  BY DEF Ends
<1>2. \A i \in At(CRLF, b) \cup At(CRNUL, b) : i \in Int /\ i >= 1
  BY <1>1, DelimIs
<1>3. QED
  BY <1>2, EndsAt DEF OneKind

\* What is added to a stream moves none of its delimiters.
LEMMA GrowsAt ==
  ASSUME NEW T \in Seq(Byte), NEW d \in Seq(Byte)
  PROVE  /\ T \o d \in Seq(Byte)
         /\ At(CRLF, T) = {i \in At(CRLF, T \o d) : i < Len(T)}
         /\ At(CRNUL, T) = {i \in At(CRNUL, T \o d) : i < Len(T)}
<1> DEFINE U == T \o d
<1>1. /\ U \in Seq(Byte) /\ Len(U) = Len(T) + Len(d) /\ Len(T) \in Nat /\ Len(d) \in Nat
      /\ \A k \in 1..Len(T) : U[k] = T[k]
  BY ConcatProperties
<1> HIDE DEF U
<1>2. ASSUME NEW i, i \in 1..(Len(T) - 1)
      PROVE  /\ i \in 1..(Len(U) - 1) /\ i < Len(T)
             /\ U[i] = T[i] /\ U[i + 1] = T[i + 1]
  BY <1>1, <1>2
<1>3. \A i : i \in 1..(Len(U) - 1) /\ i < Len(T) => i \in 1..(Len(T) - 1)
  BY <1>1
<1>4. /\ At(CRLF, T) = {i \in At(CRLF, U) : i < Len(T)}
      /\ At(CRNUL, T) = {i \in At(CRNUL, U) : i < Len(T)}
  BY <1>1, <1>2, <1>3, DelimIs
<1>5. QED
  BY <1>1, <1>4 DEF U

LEMMA GrowsDelims ==
  ASSUME NEW T \in Seq(Byte), NEW d \in Seq(Byte)
  PROVE  /\ DelimsIn(T) = {i \in DelimsIn(T \o d) : i < Len(T)}
         /\ OneKind(T \o d) => OneKind(T)
  BY GrowsAt DEF DelimsIn, OneKind

-----------------------------------------------------------------------------
(* A line taken off the front *)

\* A line of the stream in one piece, in front of a delimiter (NeverGlued).
Stands(T, line) ==
  \E i \in DelimsIn(T) :
     /\ Len(line) < i
     /\ line = SubSeq(T, i - Len(line), i - 1)
     /\ FirstDelim(line) = 0

\* The piece of w bytes behind the first o.
LEMMA PieceIs ==
  ASSUME NEW T \in Seq(Byte), NEW o \in Nat, NEW w \in Nat, o + w <= Len(T)
  PROVE  LET s == SubSeq(T, o + 1, o + w)
         IN  s \in Seq(Byte) /\ Len(s) = w /\ \A k \in 1..w : s[k] = T[o + k]
<1> DEFINE m == o + 1
           n == o + w
           s == SubSeq(T, m, n)
<1>1. /\ m \in Int /\ n \in Int /\ m >= 1 /\ n <= Len(T)
      /\ n - m + 1 = w /\ \A k \in 1..w : m + k - 1 = o + k
  OBVIOUS
<1>2. m <= n \/ w = 0
  OBVIOUS
<1>3. m <= n => w # 0
  OBVIOUS
<1> HIDE DEF m, n
<1>4. \A i \in m..n : T[i] \in Byte
  BY <1>1
<1>5. /\ s \in Seq(Byte) /\ Len(s) = IF m <= n THEN n - m + 1 ELSE 0
      /\ \A k \in 1..(n - m + 1) : s[k] = T[m + k - 1]
  BY <1>1, <1>4, SubSeqProperties
<1> HIDE DEF s
<1>6. Len(s) = w
  BY <1>1, <1>2, <1>3, <1>5
<1>7. \A k \in 1..w : s[k] = T[o + k]
  BY <1>1, <1>5
<1>8. QED
  BY <1>5, <1>6, <1>7 DEF s, m, n

\* The cut at p: the line before it and what is left behind it.
LEMMA CutAt ==
  ASSUME NEW b \in Seq(Byte), NEW p \in DelimsIn(b)
  PROVE  LET line == SubSeq(b, 1, p - 1)
             rest == After(b, p)
         IN  /\ p \in Nat /\ p >= 1 /\ p + 1 <= Len(b) /\ Len(b) \in Nat
             /\ line \in Seq(Byte) /\ Len(line) = p - 1
             /\ \A k \in 1..(p - 1) : line[k] = b[k]
             /\ rest \in Seq(Byte) /\ Len(rest) = Len(b) - (p + 1)
             /\ \A k \in 1..Len(rest) : rest[k] = b[(p + 1) + k]
<1> DEFINE line == SubSeq(b, 1, p - 1)
           rest == SubSeq(b, p + 2, Len(b))
<1>1. p \in 1..(Len(b) - 1) /\ Len(b) \in Nat
  BY DelimPlaces
<1>2. p \in Nat /\ p >= 1 /\ p + 1 <= Len(b)
  BY <1>1
<1>3. /\ line \in Seq(Byte) /\ Len(line) = p - 1
      /\ \A k \in 1..(p - 1) : line[k] = b[k]
  BY <1>1, <1>2
<1>4. /\ rest \in Seq(Byte) /\ Len(rest) = Len(b) - (p + 1)
      /\ \A k \in 1..(Len(b) - (p + 1)) : rest[k] = b[(p + 1) + k]
  BY <1>1, <1>2
<1> HIDE DEF line, rest
<1>5. QED
  BY <1>1, <1>2, <1>3, <1>4 DEF line, rest, After

\* What is left ends the stream as the whole did.
LEMMA EndsAfter ==
  ASSUME NEW T, NEW b, Ends(T, b), NEW p \in DelimsIn(b)
  PROVE  Ends(T, After(b, p)) /\ Off(T, After(b, p)) = Off(T, b) + (p + 1)
<1> DEFINE rest == After(b, p)
           o == Off(T, b)
<1>1. /\ T \in Seq(Byte) /\ b \in Seq(Byte) /\ Len(b) \in Nat /\ Len(T) \in Nat
      /\ Len(b) <= Len(T) /\ o = Len(T) - Len(b)
      /\ \A k \in 1..Len(b) : b[k] = T[o + k]
  BY DEF Ends, Off
<1>2. /\ p \in Nat /\ p >= 1 /\ p + 1 <= Len(b)
      /\ rest \in Seq(Byte) /\ Len(rest) = Len(b) - (p + 1)
      /\ \A k \in 1..Len(rest) : rest[k] = b[(p + 1) + k]
  BY <1>1, CutAt
<1> HIDE DEF rest, o
<1>3. Off(T, rest) = o + (p + 1)
  BY <1>1, <1>2 DEF Off
<1>4. ASSUME NEW k \in 1..Len(rest) PROVE rest[k] = T[Off(T, rest) + k]
  <2>1. (p + 1) + k \in 1..Len(b) /\ o + ((p + 1) + k) = (o + (p + 1)) + k
    BY <1>1, <1>2
  <2>2. rest[k] = b[(p + 1) + k]
    BY <1>2
  <2>3. b[(p + 1) + k] = T[o + ((p + 1) + k)]
    BY <1>1, <2>1
  <2>4. QED
    BY <1>3, <2>1, <2>2, <2>3
<1>5. Len(rest) <= Len(T)
  BY <1>1, <1>2
<1>6. QED
  BY <1>1, <1>2, <1>3, <1>4, <1>5 DEF Ends, rest, o

\* The line holds no delimiter and stood in one piece, when there is one kind.
LEMMA LineStands ==
  ASSUME NEW T, NEW b, Ends(T, b), OneKind(T), FirstDelim(b) # 0
  PROVE  Stands(T, SubSeq(b, 1, FirstDelim(b) - 1))
<1> DEFINE p == FirstDelim(b)
           o == Off(T, b)
           line == SubSeq(b, 1, p - 1)
           i == o + p
<1>1. /\ T \in Seq(Byte) /\ b \in Seq(Byte) /\ Len(b) \in Nat /\ Len(T) \in Nat
      /\ Len(b) <= Len(T) /\ o = Len(T) - Len(b) /\ o \in Nat
      /\ \A k \in 1..Len(b) : b[k] = T[o + k]
  BY DEF Ends, Off
<1>2. p \in DelimsIn(b) /\ \A j \in DelimsIn(b) : p <= j
  BY <1>1, FirstIs, EndsOneKind
<1>3. /\ p \in Nat /\ p >= 1 /\ p + 1 <= Len(b)
      /\ line \in Seq(Byte) /\ Len(line) = p - 1
      /\ \A k \in 1..(p - 1) : line[k] = b[k]
  <2> HIDE DEF p
  <2>1. QED
    BY <1>1, <1>2, CutAt
<1> HIDE DEF p, o, line
<1>4. i \in DelimsIn(T)
  <2>1. p \in Int /\ p >= 1
    BY <1>3
  <2>2. /\ p \in At(CRLF, b) <=> o + p \in At(CRLF, T)
        /\ p \in At(CRNUL, b) <=> o + p \in At(CRNUL, T)
    BY <2>1, EndsAt DEF o
  <2>3. QED
    BY <1>2, <2>2 DEF DelimsIn
<1>5. Len(line) < i /\ i \in Nat /\ i - Len(line) = o + 1 /\ i - 1 = o + (p - 1)
  BY <1>1, <1>3
<1>6. line = SubSeq(T, i - Len(line), i - 1)
  <2> DEFINE s == SubSeq(T, o + 1, o + (p - 1))
  <2>0. p - 1 \in Nat /\ o + (p - 1) <= Len(T)
    BY <1>1, <1>3
  <2>1. s \in Seq(Byte) /\ Len(s) = p - 1 /\ \A k \in 1..(p - 1) : s[k] = T[o + k]
    BY <1>1, <2>0, PieceIs
  <2> HIDE DEF s
  <2>2. ASSUME NEW k \in 1..(p - 1) PROVE s[k] = line[k]
    <3>1. k \in 1..Len(b)
      BY <1>1, <1>3
    <3>2. b[k] = T[o + k]
      BY <1>1, <3>1
    <3>3. s[k] = T[o + k] /\ line[k] = b[k]
      BY <1>3, <2>1
    <3>4. QED
      BY <3>2, <3>3
  <2>3. Len(s) = Len(line) /\ \A k \in 1..Len(s) : s[k] = line[k]
    BY <1>3, <2>1, <2>2
  <2>4. s = line
    BY <1>3, <2>1, <2>3, SeqEqual
  <2>5. QED
    BY <1>5, <2>4 DEF s
<1>7. DelimsIn(line) = {}
  <2> SUFFICES ASSUME NEW j \in DelimsIn(line) PROVE FALSE
    OBVIOUS
  <2>1. j \in 1..(Len(line) - 1) /\ line[j] = "cr" /\ line[j + 1] \in {"lf", "nul"}
    BY <1>3, DelimPlaces
  <2>2. j \in 1..(Len(b) - 1) /\ j < p /\ line[j] = b[j] /\ line[j + 1] = b[j + 1]
    BY <1>1, <1>3, <2>1
  <2>3. j \in DelimsIn(b)
    BY <1>1, <2>1, <2>2, DelimPlaces
  <2>4. QED
    BY <1>2, <1>3, <2>2, <2>3
<1>8. FirstDelim(line) = 0
  BY <1>3, <1>7, FirstIs
<1>9. Stands(T, line)
  <2> HIDE DEF i
  <2>1. QED
    BY <1>4, <1>5, <1>6, <1>8 DEF Stands
<1>10. QED
  BY <1>9 DEF line, p

\* It still stands there when the stream goes on.
LEMMA StillStands ==
  ASSUME NEW T \in Seq(Byte), NEW d \in Seq(Byte), NEW line \in Seq(Byte), Stands(T, line)
  PROVE  Stands(T \o d, line)
<1> DEFINE U == T \o d
<1>1. PICK i \in DelimsIn(T) : /\ Len(line) < i
                               /\ line = SubSeq(T, i - Len(line), i - 1)
                               /\ FirstDelim(line) = 0
  BY DEF Stands
<1>2. i \in DelimsIn(U)
  BY GrowsDelims
<1>3. i \in 1..(Len(T) - 1) /\ Len(T) \in Nat /\ Len(line) \in Nat
  BY DelimPlaces
<1>4. U \in Seq(Byte) /\ Len(U) >= Len(T) /\ \A k \in 1..Len(T) : U[k] = T[k]
  BY ConcatProperties
<1> HIDE DEF U
<1> DEFINE m == i - Len(line)
           n == i - 1
           s == SubSeq(T, m, n)
           u == SubSeq(U, m, n)
<1>5. m \in 1..i /\ n \in 0..(Len(T) - 1) /\ m \in Int /\ n \in Int /\ n <= Len(U)
      /\ m >= 1 /\ n - m + 1 = Len(line) /\ n - m + 1 \in Nat
  BY <1>1, <1>3, <1>4
<1> HIDE DEF m, n
<1>6. /\ s \in Seq(Byte) /\ Len(s) = n - m + 1 /\ \A k \in 1..(n - m + 1) : s[k] = T[m + k - 1]
      /\ u \in Seq(Byte) /\ Len(u) = n - m + 1 /\ \A k \in 1..(n - m + 1) : u[k] = U[m + k - 1]
  BY <1>3, <1>4, <1>5, SubSeqProperties
<1> HIDE DEF s, u
<1>7. \A k \in 1..(n - m + 1) : m + k - 1 \in 1..Len(T)
  BY <1>3, <1>5
<1>8. s = u
  <2> DEFINE w == n - m + 1
  <2>1. ASSUME NEW k \in 1..w PROVE s[k] = u[k]
    <3>1. m + k - 1 \in 1..Len(T)
      BY <1>7
    <3>2. U[m + k - 1] = T[m + k - 1]
      BY <1>4, <3>1
    <3>3. QED
      BY <1>6, <3>2
  <2>2. w \in Nat /\ Len(s) = w /\ Len(u) = w /\ s \in Seq(Byte) /\ u \in Seq(Byte)
    BY <1>5, <1>6
  <2> HIDE DEF w
  <2>3. QED
    BY <2>1, <2>2
<1>9. line = SubSeq(U, i - Len(line), i - 1)
  BY <1>1, <1>8 DEF s, u, m, n
<1>10. QED
  BY <1>1, <1>2, <1>9 DEF Stands, U

-----------------------------------------------------------------------------
(* What the lines account for *)

\* Where each line of L ends in the stream T, with its delimiter: g counts the
\* bytes of the first lines.
Marks(g, L) ==
  /\ g \in [0..Len(L) -> Nat]
  /\ g[0] = 0
  /\ \A n \in 1..Len(L) : g[n] = g[n - 1] + Len(L[n]) + 2

\* Line n of L stands in T where g says, with a delimiter behind it.
Placed(T, L, g, n) ==
  /\ g[n] <= Len(T)
  /\ \A k \in 1..Len(L[n]) : T[g[n - 1] + k] = L[n][k]
  /\ T[g[n] - 1] = "cr" /\ T[g[n]] \in {"lf", "nul"}

\* The lines of L, with their delimiters, are the first o bytes of T.
Spelled(T, L, o) ==
  \E g : /\ Marks(g, L) /\ g[Len(L)] = o
         /\ \A n \in 1..Len(L) : Placed(T, L, g, n)

\* Nothing is cut yet, or a delimiter ends at o.
Start(T, o) == o = 0 \/ o - 1 \in DelimsIn(T)

\* One line for each delimiter before o, when there is one kind of them.
Counted(T, L, o) ==
  OneKind(T) => Cardinality({j \in DelimsIn(T) : j < o}) = Len(L)

\* What a codec that never failed has done with the first o bytes of T.
Good(T, L, o) == Spelled(T, L, o) /\ Start(T, o) /\ Counted(T, L, o)

\* A list of lines with one more.
LEMMA OneLineMore ==
  ASSUME NEW L \in Seq(Seq(Byte)), NEW x \in Seq(Byte)
  PROVE  LET M == Append(L, x) IN
         /\ M \in Seq(Seq(Byte)) /\ Len(M) = Len(L) + 1 /\ Len(L) \in Nat
         /\ M[Len(L) + 1] = x /\ \A n \in 1..Len(L) : M[n] = L[n]
  OBVIOUS

LEMMA SpelledOneMore ==
  ASSUME NEW T \in Seq(Byte), NEW L \in Seq(Seq(Byte)), NEW o \in Nat, Spelled(T, L, o),
         NEW x \in Seq(Byte),
         o + Len(x) + 2 <= Len(T),
         \A k \in 1..Len(x) : T[o + k] = x[k],
         T[o + Len(x) + 1] = "cr", T[o + Len(x) + 2] \in {"lf", "nul"}
  PROVE  Spelled(T, Append(L, x), o + Len(x) + 2)
<1> DEFINE M == Append(L, x)
           m == Len(L) + 1
           e == o + Len(x) + 2
<1>1. /\ M \in Seq(Seq(Byte)) /\ Len(M) = m /\ Len(L) \in Nat
      /\ M[m] = x /\ \A n \in 1..Len(L) : M[n] = L[n]
  BY OneLineMore
<1>2. PICK g : /\ Marks(g, L) /\ g[Len(L)] = o
               /\ \A n \in 1..Len(L) : Placed(T, L, g, n)
  BY DEF Spelled
<1>3. /\ g \in [0..Len(L) -> Nat] /\ g[0] = 0
      /\ \A n \in 1..Len(L) : g[n] = g[n - 1] + Len(L[n]) + 2
  BY <1>2 DEF Marks
<1>4. e \in Nat /\ Len(x) \in Nat /\ m \in Nat /\ m - 1 = Len(L) /\ m # 0
  BY <1>1
<1> DEFINE h == [n \in 0..m |-> IF n = m THEN e ELSE g[n]]
<1>5. /\ h \in [0..m -> Nat] /\ h[m] = e
      /\ \A n \in 0..Len(L) : h[n] = g[n]
  <2> HIDE DEF e
  <2>1. ASSUME NEW n \in 0..m PROVE h[n] \in Nat
    <3>1. n = m \/ n \in 0..Len(L)
      BY <1>4
    <3>2. QED
      BY <1>3, <1>4, <3>1
  <2>2. h \in [0..m -> Nat]
    BY <2>1
  <2>3. m \in 0..m
    BY <1>4
  <2>4. ASSUME NEW n \in 0..Len(L) PROVE h[n] = g[n]
    <3>1. n \in 0..m /\ n # m
      BY <1>1, <1>4
    <3>2. QED
      BY <3>1
  <2>5. QED
    BY <2>2, <2>3, <2>4
<1>6. o = h[m - 1] /\ h[0] = 0
  <2>1. 0 \in 0..Len(L) /\ m - 1 \in 0..Len(L)
    BY <1>1, <1>4
  <2>2. QED
    BY <1>2, <1>3, <1>4, <1>5, <2>1
<1> HIDE DEF h, M, m
<1>7. ASSUME NEW n \in 1..m
      PROVE  h[n] = h[n - 1] + Len(M[n]) + 2 /\ Placed(T, M, h, n)
  <2>1. CASE n = m
    <3>1. h[n] = e /\ h[n - 1] = o /\ M[n] = x
      BY <1>1, <1>5, <1>6, <2>1
    <3>2. e - 1 = o + Len(x) + 1
      BY <1>4
    <3>3. QED
      BY <3>1, <3>2 DEF Placed
  <2>2. CASE n # m
    <3>1. n \in 1..Len(L) /\ n \in 0..Len(L) /\ n - 1 \in 0..Len(L)
      BY <1>4, <2>2
    <3>2. h[n] = g[n] /\ h[n - 1] = g[n - 1] /\ M[n] = L[n]
      BY <1>1, <1>5, <3>1
    <3>3. Placed(T, L, g, n) /\ g[n] = g[n - 1] + Len(L[n]) + 2
      BY <1>2, <1>3, <3>1
    <3>4. QED
      BY <3>2, <3>3 DEF Placed
  <2>3. QED
    BY <2>1, <2>2
<1>8. Marks(h, M)
  BY <1>1, <1>5, <1>6, <1>7 DEF Marks
<1>9. h[Len(M)] = e /\ \A n \in 1..Len(M) : Placed(T, M, h, n)
  BY <1>1, <1>5, <1>7
<1>10. QED
  BY <1>8, <1>9 DEF Spelled, M

\* A stream that goes on changes nothing of what is accounted for.
LEMMA GoodGrows ==
  ASSUME NEW T \in Seq(Byte), NEW d \in Seq(Byte), NEW L \in Seq(Seq(Byte)),
         NEW o \in Nat, o <= Len(T), Good(T, L, o)
  PROVE  Good(T \o d, L, o)
<1> DEFINE U == T \o d
<1>1. /\ U \in Seq(Byte) /\ Len(T) \in Nat /\ Len(U) \in Nat /\ Len(T) <= Len(U)
      /\ \A k \in 1..Len(T) : U[k] = T[k]
  BY ConcatProperties
<1>2. /\ DelimsIn(T) = {i \in DelimsIn(U) : i < Len(T)}
      /\ OneKind(U) => OneKind(T)
  BY GrowsDelims
<1> HIDE DEF U
<1>3. Spelled(U, L, o)
  <2>1. PICK g : /\ Marks(g, L) /\ g[Len(L)] = o
                 /\ \A n \in 1..Len(L) : Placed(T, L, g, n)
    BY DEF Good, Spelled
  <2>2. ASSUME NEW n \in 1..Len(L) PROVE Placed(U, L, g, n)
    <3> DEFINE w == Len(L[n])
               a == g[n - 1]
               e == g[n]
    <3>1. a \in Nat /\ e \in Nat /\ w \in Nat /\ e = a + w + 2 /\ e <= Len(T)
      <4>1. Len(L) \in Nat /\ n \in 0..Len(L) /\ n - 1 \in 0..Len(L)
        OBVIOUS
      <4>2. L[n] \in Seq(Byte)
        OBVIOUS
      <4>3. w \in Nat
        BY <4>2
      <4>4. g \in [0..Len(L) -> Nat] /\ e = a + w + 2
        BY <2>1 DEF Marks
      <4>5. a \in Nat /\ e \in Nat
        BY <4>1, <4>4
      <4>6. e <= Len(T)
        BY <2>1 DEF Placed
      <4>7. QED
        BY <4>3, <4>4, <4>5, <4>6
    <3> HIDE DEF w, a, e
    <3>2. e - 1 \in 1..Len(T) /\ e \in 1..Len(T)
      BY <1>1, <3>1
    <3>3. ASSUME NEW k \in 1..w PROVE a + k \in 1..Len(T)
      BY <1>1, <3>1
    <3>4. Placed(T, L, g, n)
      BY <2>1
    <3>5. e <= Len(U)
      BY <1>1, <3>1
    <3>6. U[e - 1] = T[e - 1] /\ U[e] = T[e]
      BY <1>1, <3>2
    <3>7. ASSUME NEW k \in 1..w PROVE U[a + k] = T[a + k]
      BY <1>1, <3>3
    <3>9. ASSUME NEW k \in 1..w PROVE U[a + k] = L[n][k]
      BY <3>4, <3>7 DEF Placed, w, a
    <3>8. QED
      BY <3>4, <3>5, <3>6, <3>9 DEF Placed, w, a, e
  <2>3. QED
    BY <2>1, <2>2 DEF Spelled
<1>4. Start(U, o)
  BY <1>2 DEF Good, Start
<1>5. Counted(U, L, o)
  <2>1. {j \in DelimsIn(U) : j < o} = {j \in DelimsIn(T) : j < o}
    <3>1. \A j \in DelimsIn(U) : j \in Nat
      BY <1>1, DelimPlaces
    <3>2. QED
      BY <1>1, <1>2, <3>1
  <2>2. QED
    BY <1>2, <2>1 DEF Good, Counted
<1>6. QED
  BY <1>3, <1>4, <1>5 DEF Good, U

\* The cut of a line accounts for it and for its delimiter.
LEMMA GoodCut ==
  ASSUME NEW T, NEW b, Ends(T, b), NEW L \in Seq(Seq(Byte)),
         FirstDelim(b) # 0, Good(T, L, Off(T, b))
  PROVE  LET p == FirstDelim(b)
         IN  Good(T, Append(L, SubSeq(b, 1, p - 1)), Off(T, After(b, p)))
<1> DEFINE p == FirstDelim(b)
           o == Off(T, b)
           x == SubSeq(b, 1, p - 1)
           e == o + (p + 1)
           i == o + p
           M == Append(L, x)
<1>1. /\ T \in Seq(Byte) /\ b \in Seq(Byte) /\ Len(b) \in Nat /\ Len(T) \in Nat
      /\ Len(b) <= Len(T) /\ Len(T) = o + Len(b) /\ o \in Nat
      /\ \A k \in 1..Len(b) : b[k] = T[o + k]
  BY DEF Ends, Off
<1>2. p \in DelimsIn(b) /\ (OneKind(T) => \A j \in DelimsIn(b) : p <= j)
  BY <1>1, FirstIs, EndsOneKind
<1>3. /\ p \in Nat /\ p >= 1 /\ p + 1 <= Len(b)
      /\ x \in Seq(Byte) /\ Len(x) = p - 1
      /\ \A k \in 1..(p - 1) : x[k] = b[k]
  <2> HIDE DEF p
  <2>1. QED
    BY <1>1, <1>2, CutAt
<1>4. Off(T, After(b, p)) = e
  <2> HIDE DEF p
  <2>1. QED
    BY <1>2, EndsAfter
<1>5. \A j \in DelimsIn(b) : j \in Int /\ j >= 1
  BY <1>1, DelimPlaces
<1>6. \A j \in Int : j >= 1 => (j \in DelimsIn(b) <=> o + j \in DelimsIn(T))
  BY EndsAt DEF DelimsIn
<1>7. Spelled(T, L, o) /\ Start(T, o) /\ Counted(T, L, o)
  BY DEF Good
<1> HIDE DEF p, o, x
<1>8. i \in DelimsIn(T)
  BY <1>2, <1>3, <1>6
<1>9. /\ i \in 1..(Len(T) - 1) /\ T[i] = "cr" /\ T[i + 1] \in {"lf", "nul"}
  BY <1>1, <1>8, DelimPlaces
<1>10. Spelled(T, M, e)
  <2>1. \A k \in 1..Len(x) : T[o + k] = x[k]
    <3> SUFFICES ASSUME NEW k \in 1..Len(x) PROVE T[o + k] = x[k]
      OBVIOUS
    <3>1. k \in 1..(p - 1) /\ k \in 1..Len(b)
      BY <1>1, <1>3
    <3>2. QED
      BY <1>1, <1>3, <3>1
  <2>2. o + Len(x) + 1 = i /\ o + Len(x) + 2 = i + 1 /\ e = i + 1 /\ i + 1 <= Len(T)
    BY <1>1, <1>3
  <2> HIDE DEF i, e
  <2>3. Spelled(T, M, o + Len(x) + 2)
    BY <1>1, <1>3, <1>7, <1>9, <2>1, <2>2, SpelledOneMore
  <2>4. QED
    BY <2>2, <2>3
<1>11. Start(T, e)
  <2>1. e - 1 = i
    BY <1>1, <1>3
  <2> HIDE DEF i, e
  <2>2. QED
    BY <1>8, <2>1 DEF Start
<1>12. Counted(T, M, e)
  <2> SUFFICES ASSUME OneKind(T)
               PROVE  Cardinality({j \in DelimsIn(T) : j < e}) = Len(M)
    BY DEF Counted
  <2> DEFINE Before(n) == {j \in DelimsIn(T) : j < n}
  <2>1. \A j \in DelimsIn(T) : j \in 1..Len(T) /\ T[j] = "cr"
    BY <1>1, DelimPlaces
  <2>2. Before(e) = Before(o) \cup {i}
    <3>1. ASSUME NEW j \in DelimsIn(T), j < e PROVE j < o \/ j = i
      <4>1. j \in Int /\ j <= o + p
        BY <1>1, <1>3, <2>1, <3>1
      <4>2. CASE j < o
        BY <4>2
      <4>3. CASE j = o
        <5>1. o # 0
          BY <2>1, <4>3
        <5>2. o - 1 \in DelimsIn(T)
          BY <1>7, <5>1 DEF Start
        <5>3. T[(o - 1) + 1] \in {"lf", "nul"} /\ (o - 1) + 1 = o
          BY <1>1, <5>2, DelimPlaces
        <5>4. QED
          BY <2>1, <4>3, <5>3
      <4>4. CASE j > o
        <5>1. j - o \in Int /\ j - o >= 1 /\ o + (j - o) = j
          BY <1>1, <4>1, <4>4
        <5>2. j - o \in DelimsIn(b)
          BY <1>6, <5>1
        <5>3. p <= j - o
          BY <1>2, <5>2
        <5>4. QED
          BY <1>1, <1>3, <4>1, <5>3
      <4>5. QED
        BY <1>1, <4>1, <4>2, <4>3, <4>4
    <3>2. i < e /\ (\A j \in DelimsIn(T) : j < o => j < e)
      BY <1>1, <1>3, <2>1
    <3>3. QED
      BY <1>8, <3>1, <3>2
  <2>3. i \notin Before(o)
    BY <1>1, <1>3
  <2>4. IsFiniteSet(Before(o))
    <3>1. Before(o) \subseteq 1..Len(T)
      BY <2>1
    <3>2. IsFiniteSet(1..Len(T))
      BY <1>1, FS_Interval
    <3>3. QED
      BY <3>1, <3>2, FS_Subset
  <2>5. Cardinality(Before(o)) = Len(L)
    BY <1>7 DEF Counted
  <2>6. Len(M) = Len(L) + 1
    BY <1>3, OneLineMore
  <2> HIDE DEF Before, i, M, e
  <2>7. Cardinality(Before(e)) = Cardinality(Before(o)) + 1
    BY <2>2, <2>3, <2>4, FS_AddElement
  <2>8. QED
    BY <2>5, <2>6, <2>7 DEF Before
<1>13. QED
  BY <1>4, <1>10, <1>11, <1>12 DEF Good, p, x

-----------------------------------------------------------------------------
(* The loop of extract_lines *)

\* Where the lines of a stream begin, and one that reaches the limit there.
BeginsIn(T) == {1} \cup {i + 2 : i \in DelimsIn(T)}
TooLong(T, i) ==
  /\ i \in BeginsIn(T)
  /\ i + MaxLength <= Len(T)
  /\ \A j \in DelimsIn(T) : j < i \/ j >= i + MaxLength

\* What a read gives.
Taken == [ok : BOOLEAN, lines : Seq(Seq(Byte)), rest : Seq(Byte)]

\* What holds between the turns of the loop, for a read that brings the stream
\* to T when the lines of G were given before; no read failed before if fresh.
Reading(T, G, fresh, s) ==
  /\ s \in Taken
  /\ \A n \in 1..Len(s.lines) : Len(s.lines[n]) <= MaxLength
  /\ OneKind(T) => \A n \in 1..Len(s.lines) : Stands(T, s.lines[n])
  /\ s.ok => Ends(T, s.rest) /\ (fresh => Good(T, G \o s.lines, Off(T, s.rest)))
  /\ ~s.ok => /\ s.lines = <<>> /\ s.rest = <<>>
              /\ fresh /\ OneKind(T) => \E i \in Nat : TooLong(T, i)

LEMMA EmptyLists ==
  /\ <<>> \in Seq(Byte) /\ <<>> \in Seq(Seq(Byte))
  /\ \A S, L : L \in Seq(S) => L \o <<>> = L
  /\ Refusal \in Taken /\ Refusal.ok = FALSE /\ Refusal.lines = <<>> /\ Refusal.rest = <<>>
<1>1. <<>> \in Seq(Byte) /\ <<>> \in Seq(Seq(Byte))
  OBVIOUS
<1>2. \A S, L : L \in Seq(S) => L \o <<>> = L
  OBVIOUS
<1>3. QED
  BY <1>1, <1>2 DEF Refusal, Taken

LEMMA AppendedLast ==
  ASSUME NEW G \in Seq(Seq(Byte)), NEW L \in Seq(Seq(Byte)), NEW x \in Seq(Byte)
  PROVE  G \o Append(L, x) = Append(G \o L, x)
<1> DEFINE X == Seq(Byte)
<1>1. G \in Seq(X) /\ L \in Seq(X) /\ x \in X
  OBVIOUS
<1> HIDE DEF X
<1>2. <<x>> \in Seq(X) /\ G \o L \in Seq(X)
  BY <1>1, ConcatProperties
<1>3. Append(L, x) = L \o <<x>> /\ Append(G \o L, x) = (G \o L) \o <<x>>
  BY <1>1, <1>2, AppendIsConcat
<1>4. QED
  BY <1>1, <1>2, <1>3, ConcatAssociative

\* A line begins where the codec stands.
LEMMA BeginsHere ==
  ASSUME NEW T, NEW o \in Nat, Start(T, o)
  PROVE  o + 1 \in BeginsIn(T)
<1>1. CASE o = 0
  BY <1>1 DEF BeginsIn
<1>2. CASE o # 0
  <2>1. o - 1 \in DelimsIn(T) /\ o + 1 = (o - 1) + 2
    BY <1>2 DEF Start
  <2>2. QED
    BY <2>1 DEF BeginsIn
<1>3. QED
  BY <1>1, <1>2

\* A read is refused for a line that reaches the limit: the bytes of b that are
\* looked at, a line or what is left without a delimiter, are one line of the
\* stream.
LEMMA RefusedFor ==
  ASSUME NEW T, NEW b, Ends(T, b), Start(T, Off(T, b)), OneKind(T),
         NEW m \in Nat, m <= Len(b), MaxLength < m,
         \A j \in DelimsIn(b) : m < j
  PROVE  TooLong(T, Off(T, b) + 1)
<1> DEFINE o == Off(T, b)
           i == o + 1
<1>1. /\ T \in Seq(Byte) /\ b \in Seq(Byte) /\ Len(b) \in Nat /\ Len(T) \in Nat
      /\ Len(b) <= Len(T) /\ Len(T) = o + Len(b) /\ o \in Nat /\ MaxLength \in Nat
  BY CodecBounds DEF Ends, Off
<1>2. \A j \in Int : j >= 1 => (j \in DelimsIn(b) <=> o + j \in DelimsIn(T))
  BY EndsAt DEF DelimsIn
<1>3. i \in BeginsIn(T)
  BY <1>1, BeginsHere
<1> HIDE DEF o
<1>4. ASSUME NEW j \in DelimsIn(T), ~(j < i) PROVE j >= i + MaxLength
  <2>1. j \in Int
    BY <1>1, DelimPlaces
  <2>2. j - o \in Int /\ j - o >= 1 /\ o + (j - o) = j
    BY <1>1, <1>4, <2>1
  <2>3. m < j - o
    BY <1>2, <2>2
  <2>4. QED
    BY <1>1, <2>1, <2>3
<1>5. i + MaxLength <= Len(T)
  BY <1>1
<1>6. QED
  BY <1>3, <1>4, <1>5 DEF TooLong, o

\* One turn of the loop.
LEMMA TakeLineKeeps ==
  ASSUME NEW T, NEW G \in Seq(Seq(Byte)), NEW fresh \in BOOLEAN, NEW s, Reading(T, G, fresh, s)
  PROVE  Reading(T, G, fresh, TakeLine(s))
<1> DEFINE p == FirstDelim(s.rest)
           x == SubSeq(s.rest, 1, p - 1)
           rest == After(s.rest, p)
           t == [ok |-> TRUE, lines |-> Append(s.lines, x), rest |-> rest]
<1>1. /\ s \in Taken /\ s.lines \in Seq(Seq(Byte)) /\ s.rest \in Seq(Byte)
  BY DEF Reading, Taken
<1>2. CASE ~s.ok \/ p = 0
  <2>1. TakeLine(s) = s
    BY <1>2 DEF TakeLine
  <2>2. QED
    BY <2>1
<1>3. CASE s.ok /\ p # 0
  <2>1. /\ Ends(T, s.rest) /\ T \in Seq(Byte)
        /\ fresh => Good(T, G \o s.lines, Off(T, s.rest))
    BY <1>3 DEF Reading, Ends
  <2>2. p \in DelimsIn(s.rest) /\ (OneKind(T) => \A j \in DelimsIn(s.rest) : p <= j)
    BY <1>1, <1>3, <2>1, FirstIs, EndsOneKind
  <2> HIDE DEF p
  <2>3. /\ p \in Nat /\ p >= 1 /\ p + 1 <= Len(s.rest) /\ Len(s.rest) \in Nat
        /\ x \in Seq(Byte) /\ Len(x) = p - 1 /\ rest \in Seq(Byte)
    BY <1>1, <2>2, CutAt
  <2>4. MaxLength \in Nat
    BY CodecBounds
  <2>5. CASE p - 1 > MaxLength
    <3>1. TakeLine(s) = Refusal
      BY <1>3, <2>5 DEF TakeLine, p
    <3>2. fresh /\ OneKind(T) => \E i \in Nat : TooLong(T, i)
      <4> SUFFICES ASSUME fresh, OneKind(T) PROVE \E i \in Nat : TooLong(T, i)
        OBVIOUS
      <4>1. Start(T, Off(T, s.rest))
        BY <2>1 DEF Good
      <4>2. \A j \in DelimsIn(s.rest) : p - 1 < j
        <5>1. \A j \in DelimsIn(s.rest) : j \in Int
          BY <1>1, DelimPlaces
        <5>2. QED
          BY <2>2, <2>3, <5>1
      <4>3. p - 1 \in Nat /\ p - 1 <= Len(s.rest)
        BY <2>3
      <4>4. TooLong(T, Off(T, s.rest) + 1)
        BY <2>1, <2>5, <4>1, <4>2, <4>3, RefusedFor
      <4>5. Off(T, s.rest) + 1 \in Nat
        BY <2>1, <2>3 DEF Ends, Off
      <4>6. QED
        BY <4>4, <4>5
    <3>3. Len(<<>>) = 0
      OBVIOUS
    <3>4. Reading(T, G, fresh, Refusal)
      BY <3>2, <3>3, EmptyLists DEF Reading
    <3>5. QED
      BY <3>1, <3>4
  <2>6. CASE ~(p - 1 > MaxLength)
    <3>1. TakeLine(s) = t
      BY <1>3, <2>6 DEF TakeLine, p
    <3>2. Ends(T, rest)
      BY <2>1, <2>2, EndsAfter
    <3>3. fresh => Good(T, G \o Append(s.lines, x), Off(T, rest))
      <4> SUFFICES ASSUME fresh PROVE Good(T, G \o Append(s.lines, x), Off(T, rest))
        OBVIOUS
      <4>1. G \o s.lines \in Seq(Seq(Byte))
        BY <1>1
      <4>2. Good(T, Append(G \o s.lines, x), Off(T, rest))
        BY <1>3, <2>1, <4>1, GoodCut DEF p
      <4> HIDE DEF x, rest
      <4>3. G \o Append(s.lines, x) = Append(G \o s.lines, x)
        BY <1>1, <2>3, AppendedLast
      <4>4. QED
        BY <4>2, <4>3
    <3>4. OneKind(T) => Stands(T, x)
      BY <1>3, <2>1, LineStands DEF p
    <3>5. Len(x) <= MaxLength
      BY <2>3, <2>4, <2>6
    <3> HIDE DEF x, rest
    <3>6. /\ Append(s.lines, x) \in Seq(Seq(Byte)) /\ Len(s.lines) \in Nat
          /\ Len(Append(s.lines, x)) = Len(s.lines) + 1
          /\ Append(s.lines, x)[Len(s.lines) + 1] = x
          /\ \A n \in 1..Len(s.lines) : Append(s.lines, x)[n] = s.lines[n]
      BY <1>1, <2>3, OneLineMore
    <3>7. t \in Taken /\ t.ok /\ t.lines = Append(s.lines, x) /\ t.rest = rest
      BY <2>3, <3>6 DEF Taken
    <3>8. /\ \A n \in 1..Len(s.lines) : Len(s.lines[n]) <= MaxLength
          /\ OneKind(T) => \A n \in 1..Len(s.lines) : Stands(T, s.lines[n])
      BY DEF Reading
    <3> HIDE DEF t
    <3>9. ASSUME NEW n \in 1..Len(t.lines)
          PROVE  /\ Len(t.lines[n]) <= MaxLength
                 /\ OneKind(T) => Stands(T, t.lines[n])
      <4>1. n = Len(s.lines) + 1 \/ n \in 1..Len(s.lines)
        BY <3>6, <3>7
      <4>2. QED
        BY <3>4, <3>5, <3>6, <3>7, <3>8, <4>1
    <3>10. Reading(T, G, fresh, t)
      BY <3>2, <3>3, <3>7, <3>9 DEF Reading
    <3>11. QED
      BY <3>1, <3>10
  <2>7. QED
    BY <2>5, <2>6
<1>4. QED
  BY <1>2, <1>3

\* What is left of the buffer in the loop shrinks until it has no delimiter.
Shrinks(b, i, s) == s.ok /\ FirstDelim(s.rest) # 0 => Len(s.rest) + i <= Len(b)

LEMMA TakeLineShrinks ==
  ASSUME NEW b \in Seq(Byte), NEW i \in Nat, NEW s \in Taken, Shrinks(b, i, s)
  PROVE  Shrinks(b, i + 1, TakeLine(s)) /\ TakeLine(s) \in Taken
<1> DEFINE p == FirstDelim(s.rest)
           x == SubSeq(s.rest, 1, p - 1)
           rest == After(s.rest, p)
           t == [ok |-> TRUE, lines |-> Append(s.lines, x), rest |-> rest]
<1>1. s.lines \in Seq(Seq(Byte)) /\ s.rest \in Seq(Byte)
  BY DEF Taken
<1>2. CASE ~s.ok \/ p = 0
  <2>1. TakeLine(s) = s
    BY <1>2 DEF TakeLine
  <2>2. QED
    BY <1>2, <2>1 DEF Shrinks
<1>3. CASE s.ok /\ p # 0
  <2>1. p \in DelimsIn(s.rest)
    BY <1>1, <1>3, FirstIs
  <2>2. Len(s.rest) + i <= Len(b)
    BY <1>3 DEF Shrinks
  <2> HIDE DEF p
  <2>3. /\ p \in Nat /\ p >= 1 /\ p + 1 <= Len(s.rest) /\ Len(s.rest) \in Nat
        /\ x \in Seq(Byte) /\ rest \in Seq(Byte) /\ Len(rest) = Len(s.rest) - (p + 1)
    BY <1>1, <2>1, CutAt
  <2> HIDE DEF x, rest
  <2>4. Append(s.lines, x) \in Seq(Seq(Byte))
    BY <1>1, <2>3, OneLineMore
  <2>5. t \in Taken /\ t.rest = rest
    BY <2>3, <2>4 DEF Taken
  <2>6. Len(rest) + (i + 1) <= Len(b)
    <3> DEFINE a == Len(b)
               c == Len(s.rest)
               d == Len(rest)
    <3>1. a \in Nat /\ c \in Nat /\ d = c - (p + 1) /\ c + i <= a
      BY <2>2, <2>3
    <3> HIDE DEF a, c, d
    <3>2. d + (i + 1) <= a
      BY <2>3, <3>1
    <3>3. QED
      BY <3>2 DEF a, d
  <2>7. Shrinks(b, i + 1, t)
    BY <2>5, <2>6 DEF Shrinks
  <2>8. Shrinks(b, i + 1, Refusal)
    BY EmptyLists DEF Shrinks
  <2>9. TakeLine(s) = t \/ TakeLine(s) = Refusal
    BY <1>3 DEF TakeLine, p, x, rest
  <2>10. QED
    BY <2>5, <2>7, <2>8, <2>9, EmptyLists
<1>4. QED
  BY <1>2, <1>3

\* The stages of the loop on the buffer b.
LoopStages(g, b) ==
  /\ g \in [0..Len(b) -> Taken]
  /\ g[0] = [ok |-> TRUE, lines |-> <<>>, rest |-> b]
  /\ \A i \in 1..Len(b) : g[i] = TakeLine(g[i - 1])

\* ExtractLines is a function with these stages and the test behind them.
LEMMA ExtractDefined ==
  ASSUME NEW b \in Seq(Byte)
  PROVE  \E g : /\ LoopStages(g, b)
                /\ ExtractLines(b) = IF Len(g[Len(b)].rest) > MaxLength
                                     THEN Refusal ELSE g[Len(b)]
<1> DEFINE n == Len(b)
           X == Taken
           first == [ok |-> TRUE, lines |-> <<>>, rest |-> b]
           turn == [i \in 1..n |-> [s \in X |-> TakeLine(s)]]
           Equation(g) == g = [i \in 0..n |->
             IF i = 0 THEN [ok |-> TRUE, lines |-> <<>>, rest |-> b] ELSE TakeLine(g[i - 1])]
           after == CHOOSE g : Equation(g)
<1>1. n \in Nat /\ first \in X
  BY EmptyLists DEF Taken
<1>2. ASSUME NEW s \in X PROVE TakeLine(s) \in X
  <2> DEFINE b2 == s.rest
  <2>1. b2 \in Seq(Byte) /\ Len(b2) \in Nat /\ 0 \in Nat
    BY <1>2 DEF Taken
  <2>2. Shrinks(b2, 0, s)
    BY <2>1 DEF Shrinks
  <2> HIDE DEF b2
  <2>3. QED
    BY <2>1, <2>2, TakeLineShrinks
<1> HIDE DEF X
<1>3. turn \in Loops(X, n)
  BY <1>2 DEF Loops
<1>4. \A i \in 1..n, s \in X : turn[i][s] = TakeLine(s)
  OBVIOUS
<1> HIDE DEF turn, n, after, Equation, first
<1>0. PICK g : StagesOf(g, X, first, n, turn)
  BY <1>1, <1>3, StagesExist
<1>5. g \in [0..n -> X] /\ g[0] = first /\ \A i \in 1..n : g[i] = turn[i][g[i - 1]]
  BY <1>0 DEF StagesOf
<1>6. \A i \in 1..n : i - 1 \in 0..n /\ g[i - 1] \in X
  BY <1>1, <1>5
<1>7. Equation(g)
  <2>1. ASSUME NEW i \in 0..n
        PROVE  g[i] = IF i = 0 THEN first ELSE TakeLine(g[i - 1])
    <3>1. CASE i = 0
      BY <1>5, <3>1
    <3>2. CASE i # 0
      <4>1. i \in 1..n
        BY <1>1, <3>2
      <4>2. QED
        BY <1>4, <1>5, <1>6, <3>2, <4>1
    <3>3. QED
      BY <3>1, <3>2
  <2>2. QED
    BY <1>5, <2>1 DEF Equation, first
<1>8. Equation(after)
  BY <1>7 DEF after
<1>9. ExtractLines(b) = IF Len(after[n].rest) > MaxLength THEN Refusal ELSE after[n]
  BY DEF ExtractLines, Equation, after, n
<1>10. after[0] = first /\ \A i \in 1..n : after[i] = TakeLine(after[i - 1])
  <2>1. after = [i \in 0..n |-> IF i = 0 THEN first ELSE TakeLine(after[i - 1])]
    BY <1>8 DEF Equation, first
  <2>2. 0 \in 0..n /\ \A i \in 1..n : i \in 0..n /\ i # 0
    BY <1>1
  <2>3. \A i \in 0..n : after[i] = IF i = 0 THEN first ELSE TakeLine(after[i - 1])
    BY <2>1
  <2>4. QED
    BY <2>2, <2>3
<1>11. 0..n \subseteq {i \in 0..n : after[i] \in X}
  <2> DEFINE S == {i \in 0..n : after[i] \in X}
  <2>1. 0 \in S /\ \A i \in 1..n : i - 1 \in S => i \in S
    BY <1>1, <1>2, <1>10
  <2> HIDE DEF S
  <2>2. 0..n \subseteq S
    BY <1>1, <2>1, TurnByTurn
  <2>3. QED
    BY <2>2 DEF S
<1>12. after \in [0..n -> X]
  BY <1>8, <1>11 DEF Equation
<1>13. QED
  BY <1>9, <1>10, <1>12 DEF LoopStages, n, X, first

\* What a read gives, when the buffer with it is what the stream ends with.
LEMMA ReadGives ==
  ASSUME NEW T, NEW b, Ends(T, b), NEW G \in Seq(Seq(Byte)), NEW fresh \in BOOLEAN,
         fresh => Good(T, G, Off(T, b))
  PROVE  LET r == ExtractLines(b) IN
         /\ Reading(T, G, fresh, r)
         /\ Len(r.rest) <= MaxLength
         /\ FirstDelim(r.rest) = 0
<1> DEFINE n == Len(b)
           first == [ok |-> TRUE, lines |-> <<>>, rest |-> b]
<1>1. b \in Seq(Byte) /\ T \in Seq(Byte) /\ n \in Nat
  BY DEF Ends
<1>2. PICK g : /\ LoopStages(g, b)
               /\ ExtractLines(b) = IF Len(g[n].rest) > MaxLength THEN Refusal ELSE g[n]
  BY <1>1, ExtractDefined
<1>3. /\ g \in [0..n -> Taken] /\ g[0] = first
      /\ \A i \in 1..n : g[i] = TakeLine(g[i - 1])
  BY <1>2 DEF LoopStages
<1>4. Reading(T, G, fresh, first)
  <2>1. first \in Taken /\ first.ok /\ first.lines = <<>> /\ first.rest = b /\ Len(<<>>) = 0
    BY <1>1, EmptyLists DEF Taken
  <2>2. G \o <<>> = G
    BY EmptyLists
  <2> HIDE DEF first
  <2>3. QED
    BY <2>1, <2>2 DEF Reading
<1>5. Shrinks(b, 0, first)
  BY <1>1 DEF Shrinks
<1> HIDE DEF n, first
<1> DEFINE S == {i \in 0..n : Reading(T, G, fresh, g[i]) /\ Shrinks(b, i, g[i])}
<1>6. 0 \in S
  BY <1>1, <1>3, <1>4, <1>5
<1>7. ASSUME NEW i \in 1..n, i - 1 \in S PROVE i \in S
  <2>1. Reading(T, G, fresh, g[i - 1]) /\ Shrinks(b, i - 1, g[i - 1])
    BY <1>7
  <2>2. g[i] = TakeLine(g[i - 1]) /\ i \in 0..n /\ i - 1 \in Nat /\ (i - 1) + 1 = i
        /\ i - 1 \in 0..n
    BY <1>1, <1>3
  <2>3. g[i - 1] \in Taken
    BY <2>1 DEF Reading
  <2>4. Reading(T, G, fresh, TakeLine(g[i - 1]))
    BY <2>1, TakeLineKeeps
  <2>5. Shrinks(b, (i - 1) + 1, TakeLine(g[i - 1]))
    BY <1>1, <2>1, <2>2, <2>3, TakeLineShrinks
  <2>6. Reading(T, G, fresh, g[i]) /\ Shrinks(b, i, g[i])
    BY <2>2, <2>4, <2>5
  <2>7. QED
    BY <2>2, <2>6
<1>8. n \in S
  <2> HIDE DEF S
  <2>1. 0..n \subseteq S
    BY <1>1, <1>6, <1>7, TurnByTurn
  <2>2. QED
    BY <1>1, <2>1
<1> DEFINE t == g[n]
<1>9. Reading(T, G, fresh, t) /\ Shrinks(b, n, t)
  BY <1>8
<1> HIDE DEF t, S
<1>10. t \in Taken /\ t.rest \in Seq(Byte) /\ t.ok \in BOOLEAN /\ Len(t.rest) \in Nat
  BY <1>9 DEF Reading, Taken
<1>11. FirstDelim(<<>>) = 0 /\ Len(<<>>) = 0 /\ MaxLength \in Nat
  <2>1. <<>> \in Seq(Byte) /\ Len(<<>>) = 0
    OBVIOUS
  <2>2. DelimsIn(<<>>) = {}
    <3> DEFINE e == <<>>
    <3>1. e \in Seq(Byte) /\ Len(e) = 0
      BY <2>1
    <3> HIDE DEF e
    <3>2. \A i \in DelimsIn(e) : i \in 1..(Len(e) - 1)
      BY <3>1, DelimPlaces
    <3>3. DelimsIn(e) = {}
      BY <3>1, <3>2
    <3>4. QED
      BY <3>3 DEF e
  <2>3. QED
    BY <2>1, <2>2, FirstIs, CodecBounds
<1>12. FirstDelim(t.rest) = 0
  <2>1. CASE t.ok
    <3> SUFFICES ASSUME FirstDelim(t.rest) # 0 PROVE FALSE
      OBVIOUS
    <3>1. Len(t.rest) + n <= n
      BY <1>9, <2>1 DEF Shrinks, n
    <3>2. FirstDelim(t.rest) \in DelimsIn(t.rest)
      BY <1>10, FirstIs
    <3>3. FirstDelim(t.rest) \in 1..(Len(t.rest) - 1)
      BY <1>10, <3>2, DelimPlaces
    <3>4. QED
      BY <1>1, <1>10, <3>1, <3>3
  <2>2. CASE ~t.ok
    <3>1. t.rest = <<>>
      BY <1>9, <2>2 DEF Reading
    <3>2. QED
      BY <1>11, <3>1
  <2>3. QED
    BY <2>1, <2>2
<1>13. CASE ~(Len(t.rest) > MaxLength)
  <2>1. ExtractLines(b) = t
    BY <1>2, <1>13 DEF t
  <2>2. Len(t.rest) <= MaxLength
    BY <1>10, <1>11, <1>13
  <2>3. QED
    BY <1>9, <1>12, <2>1, <2>2
<1>14. CASE Len(t.rest) > MaxLength
  <2>1. ExtractLines(b) = Refusal
    BY <1>2, <1>14 DEF t
  <2>2. t.ok
    BY <1>9, <1>11, <1>14 DEF Reading
  <2>3. fresh /\ OneKind(T) => \E i \in Nat : TooLong(T, i)
    <3> SUFFICES ASSUME fresh, OneKind(T) PROVE \E i \in Nat : TooLong(T, i)
      OBVIOUS
    <3>1. Ends(T, t.rest) /\ Start(T, Off(T, t.rest))
      BY <1>9, <2>2 DEF Reading, Good
    <3>2. DelimsIn(t.rest) = {}
      BY <1>10, <1>12, FirstIs
    <3>3. Len(t.rest) <= Len(t.rest) /\ MaxLength < Len(t.rest)
      BY <1>10, <1>11, <1>14
    <3>4. TooLong(T, Off(T, t.rest) + 1)
      BY <1>10, <3>1, <3>2, <3>3, RefusedFor
    <3>5. Off(T, t.rest) + 1 \in Nat
      BY <1>1, <1>10, <3>1 DEF Ends, Off
    <3>6. QED
      BY <3>4, <3>5
  <2>4. Reading(T, G, fresh, Refusal)
    BY <1>11, <2>3, EmptyLists DEF Reading
  <2>5. QED
    BY <1>11, <2>1, <2>4, EmptyLists
<1>15. QED
  BY <1>13, <1>14

-----------------------------------------------------------------------------
(* The codec *)

\* What the peer sends next is at the end of the stream and of the buffer.
LEMMA EndsGrow ==
  ASSUME NEW T, NEW b, Ends(T, b), NEW d \in Seq(Byte)
  PROVE  Ends(T \o d, b \o d) /\ Off(T \o d, b \o d) = Off(T, b)
<1> DEFINE U == T \o d
           c == b \o d
           o == Off(T, b)
           lb == Len(b)
           lt == Len(T)
           ld == Len(d)
<1>1. /\ T \in Seq(Byte) /\ b \in Seq(Byte) /\ lb \in Nat /\ lt \in Nat /\ ld \in Nat
      /\ lb <= lt /\ o = lt - lb /\ o \in Nat
      /\ \A k \in 1..lb : b[k] = T[o + k]
  BY DEF Ends, Off
<1>2. /\ U \in Seq(Byte) /\ Len(U) = lt + ld
      /\ \A k \in 1..(lt + ld) : U[k] = IF k <= lt THEN T[k] ELSE d[k - lt]
  BY <1>1, ConcatProperties
<1>3. /\ c \in Seq(Byte) /\ Len(c) = lb + ld
      /\ \A k \in 1..(lb + ld) : c[k] = IF k <= lb THEN b[k] ELSE d[k - lb]
  BY <1>1, ConcatProperties
<1> HIDE DEF U, c, o, lb, lt, ld
<1>4. Off(U, c) = o
  BY <1>1, <1>2, <1>3 DEF Off
<1>5. ASSUME NEW k \in 1..(lb + ld) PROVE c[k] = U[o + k]
  <2>1. o + k \in 1..(lt + ld) /\ k \in Int
    BY <1>1
  <2>2. CASE k <= lb
    <3>1. k \in 1..lb /\ o + k <= lt
      BY <1>1, <2>1, <2>2
    <3>2. QED
      BY <1>1, <1>2, <1>3, <2>1, <2>2, <3>1
  <2>3. CASE ~(k <= lb)
    <3>1. ~(o + k <= lt) /\ (o + k) - lt = k - lb
      BY <1>1, <2>1, <2>3
    <3>2. c[k] = d[k - lb]
      BY <1>3, <2>3
    <3>3. U[o + k] = d[(o + k) - lt]
      BY <1>2, <2>1, <3>1
    <3>4. QED
      BY <3>1, <3>2, <3>3
  <2>4. QED
    BY <2>2, <2>3
<1>6. Len(c) <= Len(U)
  BY <1>1, <1>2, <1>3
<1>7. Ends(U, c)
  BY <1>2, <1>3, <1>4, <1>5, <1>6 DEF Ends
<1>8. QED
  BY <1>4, <1>7 DEF U, c, o

\* A line that reached the limit does so when the stream goes on.
LEMMA TooLongGrows ==
  ASSUME NEW T \in Seq(Byte), NEW d \in Seq(Byte), NEW i \in Nat, TooLong(T, i)
  PROVE  TooLong(T \o d, i)
<1> DEFINE U == T \o d
<1>1. U \in Seq(Byte) /\ Len(U) = Len(T) + Len(d) /\ Len(T) \in Nat /\ Len(d) \in Nat
  BY ConcatProperties
<1>2. DelimsIn(T) = {j \in DelimsIn(U) : j < Len(T)}
  BY GrowsDelims
<1> HIDE DEF U
<1>3. /\ i \in BeginsIn(T) /\ i + MaxLength <= Len(T) /\ MaxLength \in Nat
      /\ \A j \in DelimsIn(T) : j < i \/ j >= i + MaxLength
  BY CodecBounds DEF TooLong
<1>4. i \in BeginsIn(U)
  BY <1>2, <1>3 DEF BeginsIn
<1>5. i + MaxLength <= Len(U)
  BY <1>1, <1>3
<1>6. ASSUME NEW j \in DelimsIn(U) PROVE j < i \/ j >= i + MaxLength
  <2>1. j \in Int
    BY <1>1, DelimPlaces
  <2>2. CASE j < Len(T)
    BY <1>2, <1>3, <2>2
  <2>3. CASE ~(j < Len(T))
    BY <1>1, <1>3, <2>1, <2>3
  <2>4. QED
    BY <2>2, <2>3
<1>7. QED
  BY <1>4, <1>5, <1>6 DEF TooLong, U

\* The inductive invariant: the buffer is what the stream ends with and holds no
\* delimiter; without a failed read the lines account for all that is before it.
CodecInv ==
  /\ CodecTypeOK
  /\ Ends(sent, buffer) /\ FirstDelim(buffer) = 0 /\ Len(buffer) <= MaxLength
  /\ \A n \in 1..Len(given) : Len(given[n]) <= MaxLength
  /\ OneKind(sent) => \A n \in 1..Len(given) : Stands(sent, given[n])
  /\ ~refused => Good(sent, given, Off(sent, buffer))
  /\ refused /\ OneKind(sent) => \E i \in Nat : TooLong(sent, i)

LEMMA CodecStarts == CodecInit => CodecInv
<1> SUFFICES ASSUME CodecInit PROVE CodecInv
  OBVIOUS
<1> DEFINE e == <<>>
<1>1. /\ sent = e /\ buffer = e /\ given = e /\ refused = FALSE
      /\ e \in Seq(Byte) /\ e \in Seq(Seq(Byte)) /\ Len(e) = 0
  BY DEF CodecInit
<1> HIDE DEF e
<1>2. DelimsIn(e) = {}
  <2>1. \A i \in DelimsIn(e) : i \in 1..(Len(e) - 1)
    BY <1>1, DelimPlaces
  <2>2. QED
    BY <1>1, <2>1
<1>3. FirstDelim(e) = 0
  BY <1>1, <1>2, FirstIs
<1>4. Ends(e, e) /\ Off(e, e) = 0
  BY <1>1 DEF Ends, Off
<1>5. Good(e, e, 0)
  <2>1. Spelled(e, e, 0)
    <3> DEFINE g == [n \in 0..0 |-> 0]
    <3>1. g \in [0..0 -> Nat] /\ g[0] = 0
      OBVIOUS
    <3> HIDE DEF g
    <3>2. Marks(g, e)
      BY <1>1, <3>1 DEF Marks
    <3>3. g[Len(e)] = 0 /\ \A n \in 1..Len(e) : Placed(e, e, g, n)
      BY <1>1, <3>1
    <3>4. QED
      BY <3>2, <3>3 DEF Spelled
  <2>2. Cardinality({j \in DelimsIn(e) : j < 0}) = 0
    BY <1>2, FS_EmptySet
  <2>3. QED
    BY <1>1, <2>1, <2>2 DEF Good, Start, Counted
<1>6. MaxLength \in Nat
  BY CodecBounds
<1>7. CodecTypeOK
  BY <1>1 DEF CodecTypeOK
<1>8. Len(e) <= MaxLength /\ \A n \in 1..Len(e) : FALSE
  BY <1>1, <1>6
<1>9. QED
  BY <1>1, <1>3, <1>4, <1>5, <1>7, <1>8 DEF CodecInv

LEMMA FeedDataKeeps ==
  ASSUME CodecInv, NEW data \in Seq(Byte), FeedData(data)
  PROVE  CodecInv'
<1> DEFINE U == sent \o data
           b == buffer \o data
           r == ExtractLines(b)
           fresh == ~refused
           H == given \o r.lines
<1>1. sent' = U /\ buffer' = r.rest /\ given' = H /\ refused' = (refused \/ ~r.ok)
  BY DEF FeedData
<1>2. /\ sent \in Seq(Byte) /\ buffer \in Seq(Byte) /\ given \in Seq(Seq(Byte))
      /\ refused \in BOOLEAN /\ Ends(sent, buffer)
      /\ \A n \in 1..Len(given) : Len(given[n]) <= MaxLength
      /\ OneKind(sent) => \A n \in 1..Len(given) : Stands(sent, given[n])
      /\ ~refused => Good(sent, given, Off(sent, buffer))
      /\ refused /\ OneKind(sent) => \E i \in Nat : TooLong(sent, i)
  BY DEF CodecInv, CodecTypeOK
<1>3. Ends(U, b) /\ Off(U, b) = Off(sent, buffer)
  BY <1>2, EndsGrow
<1>4. fresh => Good(U, given, Off(U, b))
  <2>1. Off(sent, buffer) \in Nat /\ Off(sent, buffer) <= Len(sent)
    BY <1>2 DEF Ends, Off
  <2>2. QED
    BY <1>2, <1>3, <2>1, GoodGrows
<1>5. U \in Seq(Byte) /\ (OneKind(U) => OneKind(sent))
  BY <1>2, GrowsDelims, GrowsAt
<1>6. fresh \in BOOLEAN
  BY <1>2
<1> HIDE DEF fresh
<1>7. Reading(U, given, fresh, r) /\ Len(r.rest) <= MaxLength /\ FirstDelim(r.rest) = 0
  BY <1>2, <1>3, <1>4, <1>6, ReadGives
<1>8. \A n \in 1..Len(given) : OneKind(U) => Stands(U, given[n])
  <2> SUFFICES ASSUME NEW n \in 1..Len(given), OneKind(U) PROVE Stands(U, given[n])
    OBVIOUS
  <2>1. given[n] \in Seq(Byte) /\ Stands(sent, given[n])
    BY <1>2, <1>5
  <2>2. QED
    BY <1>2, <2>1, StillStands
<1>9. refused /\ OneKind(U) => \E i \in Nat : TooLong(U, i)
  BY <1>2, <1>5, TooLongGrows
<1> HIDE DEF U, b, r
<1>10. /\ r \in Taken /\ r.lines \in Seq(Seq(Byte)) /\ r.rest \in Seq(Byte) /\ r.ok \in BOOLEAN
       /\ \A n \in 1..Len(r.lines) : Len(r.lines[n]) <= MaxLength
       /\ OneKind(U) => \A n \in 1..Len(r.lines) : Stands(U, r.lines[n])
       /\ r.ok => Ends(U, r.rest) /\ (fresh => Good(U, given \o r.lines, Off(U, r.rest)))
       /\ ~r.ok => /\ r.lines = <<>> /\ r.rest = <<>>
                   /\ fresh /\ OneKind(U) => \E i \in Nat : TooLong(U, i)
  BY <1>7 DEF Reading, Taken
<1>11. /\ H \in Seq(Seq(Byte))
       /\ \A n \in 1..Len(H) : \/ \E m \in 1..Len(given) : H[n] = given[m]
                               \/ \E m \in 1..Len(r.lines) : H[n] = r.lines[m]
  <2> DEFINE X == Seq(Byte)
             L == r.lines
             lg == Len(given)
             ll == Len(L)
  <2>1. given \in Seq(X) /\ L \in Seq(X) /\ lg \in Nat /\ ll \in Nat
    BY <1>2, <1>10
  <2> HIDE DEF X, L
  <2>2. /\ given \o L \in Seq(X) /\ Len(given \o L) = lg + ll
        /\ \A n \in 1..(lg + ll) : (given \o L)[n] = IF n <= lg THEN given[n] ELSE L[n - lg]
    BY <2>1, ConcatProperties
  <2> HIDE DEF lg, ll
  <2>3. ASSUME NEW n \in 1..(lg + ll)
        PROVE  \/ \E m \in 1..lg : (given \o L)[n] = given[m]
               \/ \E m \in 1..ll : (given \o L)[n] = L[m]
    <3>1. CASE n <= lg
      <4>1. n \in 1..lg
        BY <2>1, <3>1
      <4>2. QED
        BY <2>2, <3>1, <4>1
    <3>2. CASE ~(n <= lg)
      <4>1. n - lg \in 1..ll
        BY <2>1, <3>2
      <4>2. QED
        BY <2>2, <3>2, <4>1
    <3>3. QED
      BY <3>1, <3>2
  <2>4. QED
    BY <2>2, <2>3 DEF X, L, lg, ll
<1> HIDE DEF H
<1>12. \A n \in 1..Len(H) : Len(H[n]) <= MaxLength /\ (OneKind(U) => Stands(U, H[n]))
  BY <1>2, <1>8, <1>10, <1>11
<1>13. Ends(U, r.rest)
  <2>1. CASE r.ok
    BY <1>10, <2>1
  <2>2. CASE ~r.ok
    <3>1. r.rest = <<>> /\ Len(<<>>) = 0
      BY <1>10, <2>2
    <3> DEFINE e == <<>>
    <3>2. e \in Seq(Byte) /\ Len(e) = 0 /\ Len(U) \in Nat
      BY <1>5
    <3> HIDE DEF e
    <3>3. Ends(U, e)
      BY <1>5, <3>2 DEF Ends
    <3>4. QED
      BY <3>1, <3>3 DEF e
  <2>3. QED
    BY <2>1, <2>2
<1>14. /\ ~(refused \/ ~r.ok) => Good(U, H, Off(U, r.rest))
       /\ (refused \/ ~r.ok) /\ OneKind(U) => \E i \in Nat : TooLong(U, i)
  BY <1>9, <1>10 DEF fresh, H
<1>15. CodecTypeOK'
  BY <1>1, <1>2, <1>5, <1>10, <1>11 DEF CodecTypeOK
<1>16. QED
  BY <1>1, <1>7, <1>12, <1>13, <1>14, <1>15 DEF CodecInv

LEMMA CodecKeeps == CodecInv /\ [CodecNext]_codecVars => CodecInv'
<1> SUFFICES ASSUME CodecInv, [CodecNext]_codecVars PROVE CodecInv'
  OBVIOUS
<1>1. CASE CodecNext
  <2>1. PICK n \in 1..MaxRead : \E data \in [1..n -> Byte] : FeedData(data)
    BY <1>1 DEF CodecNext
  <2>2. n \in Nat
    BY CodecBounds
  <2>3. PICK data \in [1..n -> Byte] : FeedData(data)
    BY <2>1
  <2>4. data \in Seq(Byte)
    BY <2>2, <2>3, SeqDef
  <2>5. QED
    BY <2>3, <2>4, FeedDataKeeps
<1>2. CASE UNCHANGED codecVars
  BY <1>2 DEF codecVars, CodecInv, CodecTypeOK
<1>3. QED
  BY <1>1, <1>2

\* The invariant holds of every behaviour of the codec.
LEMMA CodecHolds == CodecSpec => []CodecInv
BY CodecStarts, CodecKeeps, PTL DEF CodecSpec

\* The bytes that the lines account for are where the marks are.
LEMMA UsedIs ==
  ASSUME NEW g, Marks(g, given), given \in Seq(Seq(Byte)), NEW n \in 0..Len(given)
  PROVE  Used(n) = g[n]
<1> DEFINE Equation(u) == u = [i \in 0..n |->
             IF i = 0 THEN 0 ELSE u[i - 1] + Len(given[i]) + 2]
           upTo == CHOOSE u : Equation(u)
           h == [i \in 0..n |-> g[i]]
<1>1. n \in Nat /\ n \in 0..n /\ Len(given) \in Nat /\ n <= Len(given)
  OBVIOUS
<1>2. g[0] = 0 /\ \A i \in 1..Len(given) : g[i] = g[i - 1] + Len(given[i]) + 2
  BY DEF Marks
<1>3. \A i \in 1..n : i \in 1..Len(given) /\ i - 1 \in 0..n /\ i \in 0..n /\ i # 0
  BY <1>1
<1>4. Used(n) = upTo[n]
  BY DEF Used
<1>5. Equation(h)
  <2>1. ASSUME NEW i \in 0..n
        PROVE  h[i] = IF i = 0 THEN 0 ELSE h[i - 1] + Len(given[i]) + 2
    <3>1. CASE i = 0
      BY <1>2, <3>1
    <3>2. CASE i # 0
      <4>1. i \in 1..n
        BY <1>1, <3>2
      <4>2. h[i] = g[i] /\ h[i - 1] = g[i - 1] /\ g[i] = g[i - 1] + Len(given[i]) + 2
        BY <1>2, <1>3, <4>1
      <4>3. QED
        BY <3>2, <4>2
    <3>3. QED
      BY <3>1, <3>2
  <2>2. QED
    BY <2>1
<1> HIDE DEF Equation, upTo, h
<1>6. Equation(upTo)
  BY <1>5 DEF upTo
<1>7. upTo[0] = 0 /\ \A i \in 1..n : upTo[i] = upTo[i - 1] + Len(given[i]) + 2
  <2>1. upTo = [i \in 0..n |-> IF i = 0 THEN 0 ELSE upTo[i - 1] + Len(given[i]) + 2]
    BY <1>6 DEF Equation
  <2>2. 0 \in 0..n
    BY <1>1
  <2>3. QED
    BY <1>3, <2>1, <2>2
<1> DEFINE S == {i \in 0..n : upTo[i] = g[i]}
<1>8. 0 \in S
  BY <1>1, <1>2, <1>7
<1>9. ASSUME NEW i \in 1..n, i - 1 \in S PROVE i \in S
  <2>1. upTo[i - 1] = g[i - 1]
    BY <1>9
  <2>2. upTo[i] = g[i]
    BY <1>2, <1>3, <1>7, <2>1
  <2>3. QED
    BY <1>3, <2>2
<1> HIDE DEF S
<1>10. 0..n \subseteq S
  BY <1>1, <1>8, <1>9, TurnByTurn
<1>11. upTo[n] = g[n]
  BY <1>1, <1>10 DEF S
<1>12. QED
  BY <1>4, <1>11

LEMMA StreamDelims == Delims = DelimsIn(sent) /\ (OneDelimiter <=> OneKind(sent))
BY DEF Delims, DelimsIn, OneDelimiter, OneKind

\* What a codec that never failed has done with the stream, put as NothingLost.
LEMMA InvNothingLost == CodecInv => NothingLost
<1> SUFFICES ASSUME CodecInv, ~refused
             PROVE  /\ sent = SubSeq(sent, 1, Used(Len(given))) \o buffer
                    /\ \A n \in 1..Len(given) :
                          /\ SubSeq(sent, Used(n - 1) + 1, Used(n) - 2) = given[n]
                          /\ SubSeq(sent, Used(n) - 1, Used(n)) \in {CRLF, CRNUL}
                    /\ OneDelimiter => Len(given) = Cardinality(Delims)
  BY DEF NothingLost
<1> DEFINE T == sent
           b == buffer
           L == given
           o == Off(T, b)
<1>1. /\ T \in Seq(Byte) /\ b \in Seq(Byte) /\ L \in Seq(Seq(Byte))
      /\ Ends(T, b) /\ FirstDelim(b) = 0 /\ Good(T, L, o)
  BY DEF CodecInv, CodecTypeOK
<1>2. /\ Len(b) \in Nat /\ Len(T) \in Nat /\ Len(b) <= Len(T) /\ Len(T) = o + Len(b)
      /\ o \in Nat /\ o <= Len(T) /\ Len(L) \in Nat
      /\ \A k \in 1..Len(b) : b[k] = T[o + k]
  BY <1>1 DEF Ends, Off
<1>3. PICK g : /\ Marks(g, L) /\ g[Len(L)] = o
               /\ \A n \in 1..Len(L) : Placed(T, L, g, n)
  BY <1>1 DEF Good, Spelled
<1>4. \A n \in 0..Len(L) : Used(n) = g[n]
  BY <1>1, <1>3, UsedIs
<1>5. Used(Len(L)) = o
  <2>1. Len(L) \in 0..Len(L)
    BY <1>2
  <2>2. QED
    BY <1>3, <1>4, <2>1
<1> HIDE DEF o
<1>6. T = SubSeq(T, 1, o) \o b
  <2> DEFINE s == SubSeq(T, 1, o)
             lb == Len(b)
             lt == Len(T)
  <2>1. /\ s \in Seq(Byte) /\ Len(s) = o
        /\ \A k \in 1..o : s[k] = T[k]
    BY <1>1, <1>2
  <2> HIDE DEF s
  <2>2. /\ s \o b \in Seq(Byte) /\ Len(s \o b) = o + lb
        /\ \A k \in 1..(o + lb) : (s \o b)[k] = IF k <= o THEN s[k] ELSE b[k - o]
    BY <1>1, <2>1, ConcatProperties
  <2>3. lb \in Nat /\ lt \in Nat /\ lt = o + lb
    BY <1>2
  <2>4. ASSUME NEW k \in 1..lt PROVE T[k] = (s \o b)[k]
    <3>1. CASE k <= o
      <4>1. k \in 1..o /\ k \in 1..(o + lb)
        BY <1>2, <2>3, <3>1
      <4>2. QED
        BY <2>1, <2>2, <3>1, <4>1
    <3>2. CASE ~(k <= o)
      <4> HIDE DEF lt, lb
      <4>1. k - o \in 1..lb /\ k \in 1..(o + lb) /\ o + (k - o) = k
        BY <1>2, <2>3, <3>2
      <4>2. QED
        BY <1>2, <2>2, <3>2, <4>1 DEF lb
    <3>3. QED
      BY <3>1, <3>2
  <2>5. Len(s \o b) = lt
    BY <2>2, <2>3
  <2> DEFINE c == s \o b
  <2>6. c \in Seq(Byte) /\ T \in Seq(Byte) /\ Len(c) = Len(T) /\ \A k \in 1..Len(T) : T[k] = c[k]
    BY <1>1, <2>2, <2>4, <2>5
  <2> HIDE DEF c
  <2>7. T = c
    BY <2>6, SeqEqual
  <2>8. QED
    BY <2>7 DEF c, s
<1>7. ASSUME NEW n \in 1..Len(L)
      PROVE  /\ SubSeq(T, Used(n - 1) + 1, Used(n) - 2) = L[n]
             /\ SubSeq(T, Used(n) - 1, Used(n)) \in {CRLF, CRNUL}
  <2> DEFINE w == Len(L[n])
             a == g[n - 1]
             e == g[n]
             x == L[n]
  <2>1. n \in 0..Len(L) /\ n - 1 \in 0..Len(L) /\ x \in Seq(Byte)
    BY <1>1, <1>2
  <2>2. w \in Nat
    BY <2>1
  <2>3. g \in [0..Len(L) -> Nat] /\ e = a + w + 2
    BY <1>3 DEF Marks
  <2>4. a \in Nat /\ e \in Nat
    BY <2>1, <2>3
  <2>5. /\ e <= Len(T) /\ \A k \in 1..w : T[a + k] = x[k]
        /\ T[e - 1] = "cr" /\ T[e] \in {"lf", "nul"}
    BY <1>3 DEF Placed
  <2>6. Used(n - 1) = a /\ Used(n) = e
    BY <1>4, <2>1
  <2>7. Len(x) = w
    OBVIOUS
  <2> HIDE DEF w, a, e, x
  <2>8. SubSeq(T, a + 1, e - 2) = x
    <3> DEFINE s == SubSeq(T, a + 1, a + w)
    <3>1. e - 2 = a + w /\ a + w <= Len(T)
      BY <1>2, <2>2, <2>3, <2>4, <2>5
    <3>2. s \in Seq(Byte) /\ Len(s) = w /\ \A k \in 1..w : s[k] = T[a + k]
      BY <1>1, <2>2, <2>4, <3>1, PieceIs
    <3> HIDE DEF s
    <3>3. Len(s) = Len(x) /\ \A k \in 1..Len(s) : s[k] = x[k]
      BY <2>5, <2>7, <3>2
    <3>4. s = x
      BY <2>1, <3>2, <3>3, SeqEqual DEF x
    <3>5. QED
      BY <3>1, <3>4 DEF s
  <2>9. SubSeq(T, e - 1, e) \in {CRLF, CRNUL}
    <3> DEFINE j == e - 1
    <3>1. j \in 1..(Len(T) - 1) /\ j + 1 = e
      BY <1>2, <2>2, <2>3, <2>4, <2>5
    <3>2. T[j] = "cr" /\ T[j + 1] \in {"lf", "nul"}
      BY <2>5, <3>1
    <3> HIDE DEF j
    <3>3. j \in At(CRLF, T) \/ j \in At(CRNUL, T)
      BY <1>1, <3>1, <3>2, DelimPlaces DEF DelimsIn
    <3>4. SubSeq(T, j, j + 1) = CRLF \/ SubSeq(T, j, j + 1) = CRNUL
      BY <3>3 DEF At
    <3>5. QED
      BY <3>1, <3>4 DEF j
  <2>10. QED
    BY <2>6, <2>8, <2>9 DEF x
<1>8. OneDelimiter => Len(L) = Cardinality(Delims)
  <2> SUFFICES ASSUME OneKind(T) PROVE Len(L) = Cardinality(DelimsIn(T))
    BY StreamDelims
  <2>1. Cardinality({j \in DelimsIn(T) : j < o}) = Len(L)
    BY <1>1 DEF Good, Counted
  <2>2. ASSUME NEW j \in DelimsIn(T) PROVE j < o
    <3>1. j \in Int /\ j >= 1 /\ T[j] = "cr"
      BY <1>1, DelimPlaces
    <3>2. DelimsIn(b) = {}
      BY <1>1, FirstIs
    <3>3. CASE j = o
      <4>1. o - 1 \in DelimsIn(T)
        BY <1>1, <3>1, <3>3 DEF Good, Start
      <4>2. T[(o - 1) + 1] \in {"lf", "nul"} /\ (o - 1) + 1 = o
        BY <1>1, <1>2, <4>1, DelimPlaces
      <4>3. QED
        BY <3>1, <3>3, <4>2
    <3>4. CASE j > o
      <4>1. j - o \in Int /\ j - o >= 1 /\ o + (j - o) = j
        BY <1>2, <3>1, <3>4
      <4>2. o + (j - o) \in DelimsIn(T)
        BY <4>1
      <4>3. j - o \in DelimsIn(b)
        BY <1>1, <4>1, <4>2, EndsAt DEF DelimsIn, o
      <4>4. QED
        BY <3>2, <4>3
    <3>5. QED
      BY <1>2, <3>1, <3>3, <3>4
  <2>3. {j \in DelimsIn(T) : j < o} = DelimsIn(T)
    BY <2>2
  <2>4. QED
    BY <2>1, <2>3
<1>9. QED
  BY <1>5, <1>6, <1>7, <1>8

LEMMA InvNeverGlued == CodecInv => NeverGlued
BY StreamDelims DEF CodecInv, Stands, NeverGlued

LEMMA InvLineLimit == CodecInv => LineLimit
<1> SUFFICES ASSUME CodecInv PROVE LineLimit
  OBVIOUS
<1>1. /\ sent \in Seq(Byte) /\ Len(sent) \in Nat /\ MaxLength \in Nat
      /\ Len(buffer) <= MaxLength
      /\ \A n \in 1..Len(given) : Len(given[n]) <= MaxLength
  BY CodecBounds DEF CodecInv, CodecTypeOK
<1>2. ASSUME OneDelimiter, refused PROVE \E i \in Begins : LineLength(i) >= MaxLength
  <2>1. PICK i \in Nat : TooLong(sent, i)
    BY <1>2, StreamDelims DEF CodecInv
  <2>2. /\ i \in Begins /\ i + MaxLength <= Len(sent)
        /\ \A j \in Delims : j < i \/ j >= i + MaxLength
    BY <2>1, StreamDelims DEF TooLong, BeginsIn, Begins
  <2> DEFINE ends == {j \in Delims : j >= i}
  <2>3. LineLength(i) = IF ends = {} THEN Len(sent) - i + 1 ELSE Min(ends) - i
    BY DEF LineLength
  <2>4. ends \subseteq Nat /\ \A j \in ends : j >= i + MaxLength
    <3>1. \A j \in Delims : j \in Nat
      BY <1>1, StreamDelims, DelimPlaces
    <3>2. QED
      BY <2>2, <3>1
  <2> HIDE DEF ends
  <2>5. CASE ends = {}
    <3>1. Len(sent) - i + 1 >= MaxLength
      BY <1>1, <2>2
    <3>2. QED
      BY <2>2, <2>3, <2>5, <3>1
  <2>6. CASE ends # {}
    <3> DEFINE m == Min(ends)
    <3>1. m \in ends
      BY <2>4, <2>6, LeastOne
    <3> HIDE DEF m
    <3>2. m - i >= MaxLength
      BY <1>1, <2>4, <3>1
    <3>3. QED
      BY <2>2, <2>3, <2>6, <3>2 DEF m
  <2>7. QED
    BY <2>5, <2>6
<1>3. QED
  BY <1>1, <1>2 DEF LineLimit

\* For every limit, stream and cut of it into reads: while no read failed the
\* lines and the buffer spell what the peer sent, and a peer with one kind of
\* delimiter gets a line for each (feed_data, extract_lines).
THEOREM NoByteLost == CodecSpec => []NothingLost
BY CodecHolds, InvNothingLost, PTL

\* Two lines of a peer with one kind of delimiter are never glued to one, not
\* even by a failed read (buffer.clear() of extract_lines).
THEOREM LinesStandAlone == CodecSpec => []NeverGlued
BY CodecHolds, InvNeverGlued, PTL

\* Nothing above the limit is kept or handed over, and such a peer is refused a
\* read only for a line that reaches the limit (feed_data).
THEOREM LimitHolds == CodecSpec => []LineLimit
BY CodecHolds, InvLineLimit, PTL
=============================================================================
