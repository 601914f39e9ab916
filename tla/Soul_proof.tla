----------------------------- MODULE Soul_proof -----------------------------
(***************************************************************************)
(* Proofs about Soul, for every set of connections, characters and rooms   *)
(* and every content of the soul files: no position outlives its body, no  *)
(* summoned body is left in the world, and the tick gathers each soul with *)
(* its main character.                                                     *)
(***************************************************************************)
EXTENDS Soul, FiniteSetTheorems, WellFoundedInduction, TLAPS

-----------------------------------------------------------------------------
(* What the invariants rest on *)

\* The types, in parts that different steps disturb.
Types ==
  /\ player \in [Conn -> Names \cup {NoName}]
  /\ main \in [Conn -> Mains \cup {NoName}]
  /\ members \in [Conn -> SUBSET Names]
  /\ roster \in [Mains -> SUBSET Names]
  /\ bound \in [Names -> Conn \cup {NoConn}]
  /\ attach \in [Conn -> Names \cup {NoName}]
  /\ over \in [Conn -> [name : Names \cup {NoName}, names : SUBSET Names]]
  /\ pos \in [Names -> Rooms \cup {NoRoom}]

Lists == standing \in [Names -> Seq(Rooms)]

\* Who walks somewhere walks to a room.
Waits ==
  /\ former \in [Conn -> Names \cup {NoName}]
  /\ march \in [Conn -> [names : SUBSET Names, room : Rooms \cup {NoRoom}]]
  /\ \A c \in Conn : march[c] = NoMarch \/ march[c].room \in Rooms
  /\ anchors \subseteq [active : Names, main : Mains, names : SUBSET Names]
  /\ IsFiniteSet(anchors)

\* A connection that plays has an intact soul and nothing to clean up; one
\* that does not has no members.  A character that is being attached is no
\* member yet; the soul file of a main names the main.
Souls ==
  /\ \A c \in Conn : Playing(c) =>
       /\ over[c] = NotOver
       /\ main[c] \in Mains /\ main[c] \in members[c] /\ player[c] \in members[c]
  /\ \A c \in Conn : ~Playing(c) => members[c] = {}
  /\ \A c \in Conn : attach[c] # NoName => Playing(c) /\ attach[c] \notin members[c]
  /\ \A n \in Mains : n \in roster[n]

Sound == Types /\ Lists /\ Souls /\ NoGhostPosition /\ NobodyAbandoned
IInv  == Sound /\ Waits

-----------------------------------------------------------------------------
(* Lists and counts *)

\* Appending to a list and taking its first element.
LEMMA ListLengths ==
  ASSUME NEW s \in Seq(Rooms)
  PROVE  /\ Len(s) \in Nat /\ (s = <<>> <=> Len(s) = 0)
         /\ \A r \in Rooms : Append(s, r) \in Seq(Rooms) /\ Len(Append(s, r)) = Len(s) + 1
         /\ s # <<>> => /\ Head(s) \in Rooms
                        /\ Tail(s) \in Seq(Rooms) /\ Len(Tail(s)) = Len(s) - 1
<1>1. Len(s) \in Nat /\ (s = <<>> <=> Len(s) = 0)
  OBVIOUS
<1>2. \A r \in Rooms : Append(s, r) \in Seq(Rooms) /\ Len(Append(s, r)) = Len(s) + 1
  OBVIOUS
<1>3. s # <<>> => Head(s) \in Rooms /\ Tail(s) \in Seq(Rooms) /\ Len(Tail(s)) = Len(s) - 1
  OBVIOUS
<1>4. QED
  BY <1>1, <1>2, <1>3

\* Moving bodies keeps the lists and their lengths.
LEMMA MovedLengths ==
  ASSUME NEW st \in [Names -> Seq(Rooms)], NEW S, NEW r \in Rooms
  PROVE  /\ Moved(st, S, r) \in [Names -> Seq(Rooms)]
         /\ \A n \in Names : Len(Moved(st, S, r)[n]) = Len(st[n])
<1>1. ASSUME NEW n \in Names
      PROVE  Moved(st, S, r)[n] \in Seq(Rooms) /\ Len(Moved(st, S, r)[n]) = Len(st[n])
  <2> DEFINE t == [i \in 1..Len(st[n]) |-> r]
  <2>1. st[n] \in Seq(Rooms) /\ Len(st[n]) \in Nat /\ DOMAIN st[n] = 1..Len(st[n])
    OBVIOUS
  <2>2. t \in Seq(Rooms) /\ Len(t) = Len(st[n])
    BY <2>1
  <2>3. Moved(st, S, r)[n] = st[n] \/ Moved(st, S, r)[n] = t
    BY <2>1 DEF Moved
  <2> HIDE DEF t
  <2>4. QED
    BY <2>1, <2>2, <2>3
<1>2. Moved(st, S, r) = [n \in Names |-> Moved(st, S, r)[n]]
  BY DEF Moved
<1>3. QED
  BY <1>1, <1>2

\* One owner more, or one less.
LEMMA Counting ==
  ASSUME NEW S \in SUBSET Conn, NEW T \in SUBSET Conn, NEW c \in Conn
  PROVE  /\ Cardinality(S) \in Nat /\ Cardinality(T) \in Nat
         /\ S \subseteq T => Cardinality(S) <= Cardinality(T)
         /\ c \notin S /\ S \cup {c} \subseteq T => Cardinality(S) + 1 <= Cardinality(T)
         /\ S \subseteq T \cup {c} => Cardinality(S) <= Cardinality(T) + 1
<1>1. IsFiniteSet(S) /\ IsFiniteSet(T)
  BY SoulAssumption, FS_Subset
<1>2. Cardinality(S) \in Nat /\ Cardinality(T) \in Nat
  BY <1>1, FS_CardinalityType
<1>3. ASSUME S \subseteq T PROVE Cardinality(S) <= Cardinality(T)
  BY <1>1, <1>3, FS_Subset
<1>4. ASSUME c \notin S, S \cup {c} \subseteq T PROVE Cardinality(S) + 1 <= Cardinality(T)
  <2>1. Cardinality(S \cup {c}) = Cardinality(S) + 1
    BY <1>1, <1>4, FS_AddElement
  <2>2. Cardinality(S \cup {c}) <= Cardinality(T)
    BY <1>1, <1>4, FS_Subset
  <2>3. QED
    BY <2>1, <2>2
<1>5. ASSUME S \subseteq T \cup {c} PROVE Cardinality(S) <= Cardinality(T) + 1
  <2>1. IsFiniteSet(T \cup {c})
    BY <1>1, FS_AddElement
  <2>2. Cardinality(T \cup {c}) <= Cardinality(T) + 1
    <3>1. Cardinality(T \cup {c}) = IF c \in T THEN Cardinality(T) ELSE Cardinality(T) + 1
      BY <1>1, FS_AddElement
    <3>2. QED
      BY <1>2, <3>1
  <2>3. Cardinality(S) <= Cardinality(T \cup {c}) /\ Cardinality(T \cup {c}) \in Nat
    BY <1>5, <2>1, FS_Subset, FS_CardinalityType
  <2>4. QED
    BY <1>2, <2>2, <2>3
<1>6. QED
  BY <1>2, <1>3, <1>4, <1>5

-----------------------------------------------------------------------------
(* The gathering                                                           *)

\* What holds of 0 and of the successor of each number for which it holds
\* holds of every number (for a set of numbers, since a theorem cannot be
\* given an operator).
LEMMA NaturalsUp ==
  ASSUME NEW S, 0 \in S, \A n \in Nat : n \in S => n + 1 \in S
  PROVE  Nat \subseteq S
<1> DEFINE Less == {p \in Nat \X Nat : p[1] < p[2]}
           Missing == Nat \ S
<1> SUFFICES ASSUME Missing # {} PROVE FALSE
  OBVIOUS
<1>1. \A x, y \in Nat : <<y, x>> \in Less <=> y < x
  OBVIOUS
<1>2. IsWellFoundedOn(Less, Nat)
  BY NatLessThanWellFounded DEF OpToRel
<1>3. Missing \subseteq Nat
  OBVIOUS
<1> HIDE DEF Less
<1>4. PICK x \in Missing : \A y \in Missing : <<y, x>> \notin Less
  <2> HIDE DEF Missing
  <2>1. QED
    BY <1>2, <1>3, WFMin
<1>5. x \in Nat /\ x # 0 /\ x \notin S
  OBVIOUS
<1>6. x - 1 \in Nat /\ x - 1 < x /\ x = (x - 1) + 1
  BY <1>5
<1>7. x - 1 \in Missing
  BY <1>5, <1>6
<1>8. QED
  BY <1>1, <1>4, <1>5, <1>6, <1>7

\* The gathering goes through the stages its definition names: a function
\* with this equation exists.
Stages(g, order, n) ==
  g = [i \in 0..n |-> IF i = 0 THEN standing ELSE GatherOne(g[i - 1], order[i])]

LEMMA GatheringDefined ==
  ASSUME NEW order, Len(order) \in Nat
  PROVE  \E g : Stages(g, order, Len(order)) /\ Gathered(order) = g[Len(order)]
<1> DEFINE S == {n \in Nat : \E g : Stages(g, order, n)}
<1>1. 0 \in S
  <2>1. Stages([i \in 0..0 |-> standing], order, 0)
    BY DEF Stages
  <2>2. QED
    BY <2>1
<1>2. ASSUME NEW n \in Nat, n \in S PROVE n + 1 \in S
  <2>1. PICK g : Stages(g, order, n)
    BY <1>2
  <2> DEFINE h == [i \in 0..(n + 1) |-> IF i = n + 1 THEN GatherOne(g[n], order[n + 1]) ELSE g[i]]
  <2>2. ASSUME NEW i \in 0..(n + 1)
        PROVE  h[i] = IF i = 0 THEN standing ELSE GatherOne(h[i - 1], order[i])
    <3>1. CASE i = 0
      BY <2>1, <3>1 DEF Stages
    <3>2. CASE i = n + 1
      <4>1. i # 0 /\ i - 1 = n /\ n \in 0..(n + 1) /\ n # n + 1
        BY <3>2
      <4>2. h[i] = GatherOne(g[n], order[n + 1]) /\ h[n] = g[n]
        BY <3>2, <4>1
      <4>3. QED
        BY <3>2, <4>1, <4>2
    <3>3. CASE i # 0 /\ i # n + 1
      <4>1. i \in 0..n /\ i - 1 \in 0..(n + 1) /\ i - 1 # n + 1
        BY <3>3
      <4>2. h[i] = g[i] /\ h[i - 1] = g[i - 1]
        BY <3>3, <4>1
      <4>3. g[i] = GatherOne(g[i - 1], order[i])
        BY <2>1, <3>3, <4>1 DEF Stages
      <4>4. QED
        BY <3>3, <4>2, <4>3
    <3>4. QED
      BY <3>1, <3>2, <3>3
  <2>3. h = [i \in 0..(n + 1) |-> h[i]]
    OBVIOUS
  <2> HIDE DEF h
  <2>4. Stages(h, order, n + 1)
    BY <2>2, <2>3 DEF Stages
  <2>5. QED
    BY <2>4
<1>3. Len(order) \in S
  <2> HIDE DEF S
  <2>1. QED
    BY <1>1, <1>2, NaturalsUp
<1>4. PICK g : Stages(g, order, Len(order))
  BY <1>3
<1>5. QED
  BY <1>4 DEF Gathered, Stages

\* Gathering one formation moves its companions to its anchor, nobody else.
LEMMA OneGathered ==
  ASSUME Types, NEW st \in [Names -> Seq(Rooms)], NEW a, a.active \in Names, a.main \in Names
  PROVE  /\ GatherOne(st, a) \in [Names -> Seq(Rooms)]
         /\ \A n \in Names : Len(GatherOne(st, a)[n]) = Len(st[n])
         /\ \A n \in Names \ a.names : GatherOne(st, a)[n] = st[n]
         /\ Anchor(st, a) # NoRoom => \A n \in Names \cap a.names :
              GatherOne(st, a)[n] = [i \in DOMAIN st[n] |-> Anchor(st, a)]
<1>1. Anchor(st, a) \in Rooms \cup {NoRoom}
  <2>1. pos[a.active] \in Rooms \cup {NoRoom}
    BY DEF Types
  <2>2. st[a.main] # <<>> => Head(st[a.main]) \in Rooms
    BY ListLengths
  <2>3. QED
    BY <2>1, <2>2 DEF Anchor
<1>2. CASE Anchor(st, a) = NoRoom
  BY <1>2 DEF GatherOne
<1>3. CASE Anchor(st, a) # NoRoom
  <2>1. GatherOne(st, a) = Moved(st, a.names, Anchor(st, a)) /\ Anchor(st, a) \in Rooms
    BY <1>1, <1>3 DEF GatherOne
  <2>2. /\ GatherOne(st, a) \in [Names -> Seq(Rooms)]
        /\ \A n \in Names : Len(GatherOne(st, a)[n]) = Len(st[n])
    BY <2>1, MovedLengths
  <2>3. /\ \A n \in Names \ a.names : GatherOne(st, a)[n] = st[n]
        /\ \A n \in Names \cap a.names :
             GatherOne(st, a)[n] = [i \in DOMAIN st[n] |-> Anchor(st, a)]
    BY <2>1 DEF Moved
  <2>4. QED
    BY <2>2, <2>3
<1>4. QED
  BY <1>2, <1>3

\* An order in which n formations are gathered
Formations(order, n) ==
  \A i \in 1..n : order[i].active \in Names /\ order[i].main \in Names

\* Every stage has the bodies there were, at places that exist.
LEMMA StagesTyped ==
  ASSUME Types, Lists, NEW order, NEW n \in Nat, NEW g,
         Stages(g, order, n), Formations(order, n)
  PROVE  \A k \in 0..n : /\ g[k] \in [Names -> Seq(Rooms)]
                         /\ \A m \in Names : Len(g[k][m]) = Len(standing[m])
<1> DEFINE S == {k \in Nat : k \in 0..n =>
                   /\ g[k] \in [Names -> Seq(Rooms)]
                   /\ \A m \in Names : Len(g[k][m]) = Len(standing[m])}
<1>1. 0 \in S
  BY DEF Stages, Lists
<1>2. ASSUME NEW k \in Nat, k \in S PROVE k + 1 \in S
  <2> SUFFICES ASSUME k + 1 \in 0..n
               PROVE  /\ g[k + 1] \in [Names -> Seq(Rooms)]
                      /\ \A m \in Names : Len(g[k + 1][m]) = Len(standing[m])
    OBVIOUS
  <2>1. k \in 0..n /\ k + 1 \in 1..n /\ (k + 1) - 1 = k /\ k + 1 # 0
    OBVIOUS
  <2>2. g[k] \in [Names -> Seq(Rooms)] /\ \A m \in Names : Len(g[k][m]) = Len(standing[m])
    BY <1>2, <2>1
  <2>3. g[k + 1] = GatherOne(g[k], order[k + 1])
    BY <2>1 DEF Stages
  <2>4. order[k + 1].active \in Names /\ order[k + 1].main \in Names
    BY <2>1 DEF Formations
  <2>5. /\ GatherOne(g[k], order[k + 1]) \in [Names -> Seq(Rooms)]
        /\ \A m \in Names : Len(GatherOne(g[k], order[k + 1])[m]) = Len(g[k][m])
    <3> DEFINE st == g[k]
               a == order[k + 1]
    <3>1. st \in [Names -> Seq(Rooms)] /\ a.active \in Names /\ a.main \in Names
      BY <2>2, <2>4
    <3> HIDE DEF st, a
    <3>2. /\ GatherOne(st, a) \in [Names -> Seq(Rooms)]
          /\ \A m \in Names : Len(GatherOne(st, a)[m]) = Len(st[m])
      BY <3>1, OneGathered
    <3>3. QED
      BY <3>2 DEF st, a
  <2>6. QED
    BY <2>2, <2>3, <2>5
<1> HIDE DEF S
<1>3. Nat \subseteq S
  BY <1>1, <1>2, NaturalsUp
<1>4. QED
  BY <1>3 DEF S

\* Whom no formation between two stages names, nobody moves between them.
LEMMA StagesLeave ==
  ASSUME Types, Lists, NEW order, NEW n \in Nat, NEW g,
         Stages(g, order, n), Formations(order, n),
         NEW k \in 0..n, NEW l \in k..n, NEW m \in Names,
         \A i \in (k + 1)..l : m \notin order[i].names
  PROVE  g[l][m] = g[k][m]
<1> DEFINE S == {d \in Nat : k + d <= l => g[k + d][m] = g[k][m]}
<1>1. 0 \in S
  OBVIOUS
<1>2. ASSUME NEW d \in Nat, d \in S PROVE d + 1 \in S
  <2> SUFFICES ASSUME k + (d + 1) <= l PROVE g[k + (d + 1)][m] = g[k][m]
    OBVIOUS
  <2> DEFINE j == k + (d + 1)
  <2>1. j \in 0..n /\ j \in 1..n /\ j \in (k + 1)..l /\ j - 1 = k + d /\ j # 0 /\ k + d \in 0..n /\ k + d <= l
    OBVIOUS
  <2> HIDE DEF j
  <2>2. g[j] = GatherOne(g[k + d], order[j])
    BY <2>1 DEF Stages
  <2>3. /\ g[k + d] \in [Names -> Seq(Rooms)]
        /\ order[j].active \in Names /\ order[j].main \in Names /\ m \notin order[j].names
    BY <2>1, StagesTyped DEF Formations
  <2>4. g[j][m] = g[k + d][m]
    BY <2>2, <2>3, OneGathered
  <2>5. QED
    BY <1>2, <2>1, <2>4 DEF j
<1> HIDE DEF S
<1>3. l - k \in S
  BY <1>1, <1>2, NaturalsUp
<1>4. l - k \in Nat /\ k + (l - k) = l
  OBVIOUS
<1>5. QED
  BY <1>3, <1>4 DEF S

\* An order of the formations lists each of them once.
LEMMA OrdersList ==
  ASSUME Waits, NEW order \in SetToSeqs(anchors)
  PROVE  /\ Len(order) \in Nat
         /\ \A i \in 1..Len(order) : order[i] \in anchors
         /\ \A i, j \in 1..Len(order) : order[i] = order[j] => i = j
         /\ \A a \in anchors : \E i \in 1..Len(order) : order[i] = a
<1> DEFINE n == Cardinality(anchors)
<1>1. IsFiniteSet(anchors) /\ n \in Nat
  BY FS_CardinalityType DEF Waits
<1>2. order \in [1..n -> anchors] /\ \A i, j \in 1..n : i # j => order[i] # order[j]
  BY DEF SetToSeqs
<1>3. order \in Injection(1..n, anchors)
  BY <1>2 DEF Injection, IsInjective
<1>4. Cardinality(1..n) = n
  BY <1>1, FS_Interval
<1>5. order \in Surjection(1..n, anchors)
  BY <1>1, <1>3, <1>4, FS_Injection
<1> HIDE DEF n
<1>6. Len(order) = n
  BY <1>1, <1>2
<1>7. QED
  BY <1>1, <1>2, <1>5, <1>6 DEF Surjection

\* What the tick does to the bodies, as a number of stages
LEMMA GatherStages ==
  ASSUME Types, Lists, Waits, Gather
  PROVE  \E order, g :
           /\ Len(order) \in Nat
           /\ \A i \in 1..Len(order) : order[i] \in anchors
           /\ \A i, j \in 1..Len(order) : order[i] = order[j] => i = j
           /\ \A a \in anchors : \E i \in 1..Len(order) : order[i] = a
           /\ Formations(order, Len(order)) /\ Stages(g, order, Len(order))
           /\ standing' = g[Len(order)]
<1>1. PICK order \in SetToSeqs(anchors) : standing' = Gathered(order)
  BY DEF Gather
<1>2. /\ Len(order) \in Nat
      /\ \A i \in 1..Len(order) : order[i] \in anchors
      /\ \A i, j \in 1..Len(order) : order[i] = order[j] => i = j
      /\ \A a \in anchors : \E i \in 1..Len(order) : order[i] = a
  BY OrdersList
<1>3. Formations(order, Len(order))
  <2>1. \A a \in anchors : a.active \in Names /\ a.main \in Names
    BY SoulAssumption DEF Waits
  <2>2. QED
    BY <1>2, <2>1 DEF Formations
<1>4. PICK g : Stages(g, order, Len(order)) /\ Gathered(order) = g[Len(order)]
  BY <1>2, GatheringDefined
<1>5. QED
  BY <1>1, <1>2, <1>3, <1>4

-----------------------------------------------------------------------------
(* One action at a time                                                    *)

\* What the invariant says of the bodies that stand and of those who own them.
LEMMA Owned ==
  ASSUME IInv, NEW n \in Names
  PROVE  /\ Owners(n) \in SUBSET Conn /\ Owners(n)' \in SUBSET Conn
         /\ Cardinality(Owners(n)) \in Nat
         /\ Len(standing[n]) \in Nat /\ Len(standing[n]) <= Cardinality(Owners(n))
<1>1. Owners(n) \in SUBSET Conn /\ Owners(n)' \in SUBSET Conn
  BY DEF Owners
<1>2. IsFiniteSet(Owners(n))
  BY <1>1, SoulAssumption, FS_Subset
<1>3. Cardinality(Owners(n)) \in Nat
  BY <1>2, FS_CardinalityType
<1>4. Len(standing[n]) \in Nat
  BY ListLengths DEF IInv, Sound, Lists
<1>5. QED
  BY <1>1, <1>3, <1>4 DEF IInv, Sound, NobodyAbandoned

\* A name whose bodies do not get more keeps enough owners when none is lost;
\* one body more needs one owner more, and one owner less one body less.
LEMMA OwnersKept ==
  ASSUME IInv, NEW n \in Names, Len(standing'[n]) \in Nat,
         \/ /\ Len(standing'[n]) <= Len(standing[n])
            /\ Owners(n) \subseteq Owners(n)'
         \/ \E c \in Conn :
              /\ Len(standing'[n]) <= Len(standing[n]) + 1
              /\ c \notin Owners(n) /\ Owners(n) \cup {c} \subseteq Owners(n)'
         \/ \E c \in Conn :
              /\ Len(standing'[n]) = 0 \/ Len(standing'[n]) = Len(standing[n]) - 1
              /\ Owners(n) \subseteq Owners(n)' \cup {c}
  PROVE  Len(standing'[n]) <= Cardinality(Owners(n)')
<1>1. /\ Owners(n) \in SUBSET Conn /\ Owners(n)' \in SUBSET Conn
      /\ Len(standing[n]) \in Nat /\ Len(standing[n]) <= Cardinality(Owners(n))
  BY Owned
<1>2. ASSUME Len(standing'[n]) <= Len(standing[n]), Owners(n) \subseteq Owners(n)'
      PROVE  Len(standing'[n]) <= Cardinality(Owners(n)')
  <2>1. /\ IsFiniteSet(Owners(n)') /\ Cardinality(Owners(n)) <= Cardinality(Owners(n)')
        /\ Cardinality(Owners(n)) \in Nat /\ Cardinality(Owners(n)') \in Nat
    BY <1>1, <1>2, SoulAssumption, FS_Subset, FS_CardinalityType
  <2>2. QED
    BY <1>1, <1>2, <2>1
<1>3. ASSUME NEW c \in Conn, Len(standing'[n]) <= Len(standing[n]) + 1,
             c \notin Owners(n), Owners(n) \cup {c} \subseteq Owners(n)'
      PROVE  Len(standing'[n]) <= Cardinality(Owners(n)')
  <2>1. /\ Cardinality(Owners(n)) + 1 <= Cardinality(Owners(n)')
        /\ Cardinality(Owners(n)) \in Nat /\ Cardinality(Owners(n)') \in Nat
    BY <1>1, <1>3, Counting
  <2>2. QED
    BY <1>1, <1>3, <2>1
<1>4. ASSUME NEW c \in Conn,
             Len(standing'[n]) = 0 \/ Len(standing'[n]) = Len(standing[n]) - 1,
             Owners(n) \subseteq Owners(n)' \cup {c}
      PROVE  Len(standing'[n]) <= Cardinality(Owners(n)')
  <2>1. /\ Cardinality(Owners(n)) <= Cardinality(Owners(n)') + 1
        /\ Cardinality(Owners(n)) \in Nat /\ Cardinality(Owners(n)') \in Nat
    BY <1>1, <1>4, Counting
  <2>2. QED
    BY <1>1, <1>4, <2>1
<1>5. QED
  BY <1>2, <1>3, <1>4

\* A step that changes no body's number and takes no owner away
LEMMA SameBodies ==
  ASSUME IInv, Lists', \A n \in Names : Len(standing'[n]) = Len(standing[n]),
         \A n \in Names : Owners(n) \subseteq Owners(n)'
  PROVE  NobodyAbandoned'
<1> SUFFICES ASSUME NEW n \in Names PROVE Len(standing'[n]) <= Cardinality(Owners(n)')
  BY DEF NobodyAbandoned
<1>1. Len(standing[n]) \in Nat
  BY Owned
<1>2. QED
  BY <1>1, OwnersKept

\* A login: the companions it places were nowhere, and c becomes their owner.
LEMMA LoginStep ==
  ASSUME IInv, NEW c \in Conn, NEW n \in Mains, Login(c, n)
  PROVE  Sound'
<1>1. Types /\ Lists /\ Waits /\ Souls /\ NoGhostPosition
  BY DEF IInv, Sound
<1>2. n \in Names /\ n # NoName /\ NoName \notin Names
  BY SoulAssumption
<1>3. Types'
  BY <1>1, <1>2, SoulAssumption DEF Types, Login, rest
<1>4. \A m \in Names :
        IF m \in roster[n] \ {n} /\ pos[m] = NoRoom /\ ~Stands(m)
        THEN standing'[m] = Append(standing[m], Start) ELSE standing'[m] = standing[m]
  BY DEF Login, Restored
<1>5. Lists'
  <2>1. standing' = [m \in Names |-> standing'[m]]
    BY DEF Login, Restored
  <2>2. ASSUME NEW m \in Names PROVE standing'[m] \in Seq(Rooms)
    <3>1. standing[m] \in Seq(Rooms)
      BY <1>1 DEF Lists
    <3>2. Append(standing[m], Start) \in Seq(Rooms)
      BY <3>1, SoulAssumption, ListLengths
    <3>3. QED
      BY <1>4, <3>1, <3>2
  <2>3. QED
    BY <2>1, <2>2 DEF Lists
<1>6. Souls'
  BY <1>1, <1>2 DEF Souls, Types, Login, rest, Playing
<1>7. NoGhostPosition'
  BY <1>1, <1>2 DEF NoGhostPosition, Types, Login, rest, Playing, Active
<1>8. NobodyAbandoned'
  <2> SUFFICES ASSUME NEW m \in Names PROVE Len(standing'[m]) <= Cardinality(Owners(m)')
    BY DEF NobodyAbandoned
  <2>1. Len(standing[m]) \in Nat /\ Len(standing'[m]) \in Nat
    BY <1>1, <1>5, ListLengths DEF Lists
  <2>2. c \notin Owners(m) /\ Owners(m) \subseteq Owners(m)'
    BY <1>1 DEF Owners, Inactive, Login, rest, Types, Souls, Playing, NotOver
  <2>3. CASE m \in roster[n] \ {n} /\ pos[m] = NoRoom /\ ~Stands(m)
    <3>1. Len(standing'[m]) = Len(standing[m]) + 1
      BY <1>1, <1>4, <2>3, ListLengths DEF Lists
    <3>2. c \in Owners(m)'
      BY <1>1, <1>2, <2>3 DEF Owners, Inactive, Login, Types
    <3>3. QED
      BY <2>1, <2>2, <3>1, <3>2, OwnersKept
  <2>4. CASE ~(m \in roster[n] \ {n} /\ pos[m] = NoRoom /\ ~Stands(m))
    <3>1. standing'[m] = standing[m]
      BY <1>4, <2>4
    <3>2. QED
      BY <2>1, <2>2, <3>1, OwnersKept
  <2>5. QED
    BY <2>3, <2>4
<1>9. QED
  BY <1>3, <1>5, <1>6, <1>7, <1>8 DEF IInv, Sound

\* The name index, the check of an attach and the active body's own steps
\* change neither the bodies that stand nor who owns them.
LEMMA OwnStep ==
  ASSUME IInv, NEW c \in Conn,
         \/ Rebind(c)
         \/ \E n \in Names : AttachCheck(c, n)
         \/ \E r \in Rooms : Walk(c, r) \/ Summon(c, r)
  PROVE  Sound'
<1>1. Types /\ Lists /\ Waits /\ Souls /\ NoGhostPosition
  BY DEF IInv, Sound
<1>2. UNCHANGED <<player, main, members, roster, standing, over>>
  BY DEF Rebind, AttachCheck, Walk, Summon, soul, world, rest
<1>3. Types' /\ Souls'
  <2>1. CASE Rebind(c)
    BY <1>1, <1>2, <2>1 DEF Rebind, rest, world, Types, Souls, Playing
  <2>2. ASSUME NEW n \in Names, AttachCheck(c, n) PROVE Types' /\ Souls'
    BY <1>1, <1>2, <2>2 DEF AttachCheck, Ready, index, world, Types, Souls, Playing
  <2>3. ASSUME NEW r \in Rooms, Walk(c, r) \/ Summon(c, r) PROVE Types' /\ Souls'
    BY <1>1, <1>2, <2>3 DEF Walk, Summon, index, rest, Types, Souls, Playing
  <2>4. QED
    BY <2>1, <2>2, <2>3
<1>4. Lists'
  BY <1>1, <1>2 DEF Lists
<1>5. NoGhostPosition'
  <2>1. \A n \in Names : pos'[n] # NoRoom => pos[n] # NoRoom
    BY <1>1 DEF Rebind, AttachCheck, Walk, Summon, world, Types
  <2>2. QED
    BY <1>1, <1>2, <2>1 DEF NoGhostPosition, Active
<1>6. NobodyAbandoned'
  BY <1>2 DEF IInv, Sound, NobodyAbandoned, Owners, Inactive
<1>7. QED
  BY <1>3, <1>4, <1>5, <1>6 DEF IInv, Sound

\* An attach places a body exactly when it makes c one more of its owners.
LEMMA AttachStep ==
  ASSUME IInv, NEW c \in Conn, AttachAdd(c)
  PROVE  Sound'
<1> DEFINE n == attach[c]
<1>1. Types /\ Lists /\ Waits /\ Souls /\ NoGhostPosition
  BY DEF IInv, Sound
<1>2. n \in Names /\ n # NoName /\ Playing(c) /\ n \notin members[c]
  BY <1>1 DEF AttachAdd, Types, Souls
<1>3. /\ attach' = [attach EXCEPT ![c] = NoName]
      /\ UNCHANGED <<player, main, pos, bound, over>>
  BY DEF AttachAdd, index
<1>4. PICK room \in Rooms :
        \/ /\ members' = [members EXCEPT ![c] = @ \cup {n}]
           /\ roster' = [roster EXCEPT ![main[c]] = members'[c]]
           /\ standing' = [standing EXCEPT ![n] = Append(@, room)]
        \/ UNCHANGED <<members, roster, standing>>
  <2> DEFINE room == IF Playing(c) THEN pos[player[c]] ELSE NoRoom
  <2>1. PICK joins \in BOOLEAN :
          /\ joins => room # NoRoom
          /\ members' = IF joins THEN [members EXCEPT ![c] = @ \cup {n}] ELSE members
          /\ roster' = IF joins THEN [roster EXCEPT ![main[c]] = members'[c]] ELSE roster
          /\ standing' = IF joins THEN [standing EXCEPT ![n] = Append(@, room)] ELSE standing
    BY DEF AttachAdd
  <2>2. room # NoRoom => room \in Rooms
    BY <1>1 DEF Types, Playing
  <2>3. Rooms # {}
    BY SoulAssumption
  <2>4. QED
    BY <2>1, <2>2, <2>3
<1> HIDE DEF n
<1>5. CASE UNCHANGED <<members, roster, standing>>
  <2>1. Types' /\ Souls'
    BY <1>1, <1>3, <1>5 DEF Types, Souls, Playing
  <2>2. Lists' /\ NoGhostPosition' /\ NobodyAbandoned'
    BY <1>3, <1>5 DEF IInv, Sound, Lists, NoGhostPosition, Active, NobodyAbandoned, Owners, Inactive
  <2>3. QED
    BY <2>1, <2>2 DEF IInv, Sound
<1>6. ASSUME members' = [members EXCEPT ![c] = @ \cup {n}],
             roster' = [roster EXCEPT ![main[c]] = members'[c]],
             standing' = [standing EXCEPT ![n] = Append(@, room)]
      PROVE  Sound'
  <2>1. main[c] \in Mains /\ main[c] \in members[c] /\ over[c] = NotOver /\ player[c] \in members[c]
    BY <1>1, <1>2 DEF Souls
  <2>2. Types'
    BY <1>1, <1>2, <1>3, <1>6, <2>1 DEF Types
  <2>3. Souls'
    BY <1>1, <1>2, <1>3, <1>6, <2>1 DEF Souls, Types, Playing
  <2>4. /\ standing'[n] = Append(standing[n], room)
        /\ \A m \in Names \ {n} : standing'[m] = standing[m]
        /\ standing' = [m \in Names |-> standing'[m]]
    BY <1>1, <1>2, <1>6 DEF Lists
  <2>5. Lists'
    <3>1. \A m \in Names : standing[m] \in Seq(Rooms)
      BY <1>1 DEF Lists
    <3>2. Append(standing[n], room) \in Seq(Rooms)
      BY <1>2, <3>1, ListLengths
    <3>3. QED
      BY <2>4, <3>1, <3>2 DEF Lists
  <2>6. NoGhostPosition'
    BY <1>1, <1>3 DEF NoGhostPosition, Active
  <2>7. NobodyAbandoned'
    <3> SUFFICES ASSUME NEW m \in Names PROVE Len(standing'[m]) <= Cardinality(Owners(m)')
      BY DEF NobodyAbandoned
    <3>1. Len(standing[m]) \in Nat /\ Len(standing'[m]) \in Nat
      BY <1>1, <2>5, ListLengths DEF Lists
    <3>2. Owners(m) \subseteq Owners(m)'
      BY <1>1, <1>3, <1>6 DEF Owners, Inactive, Types
    <3>3. CASE m = n
      <4>1. Len(standing'[m]) = Len(standing[m]) + 1
        BY <1>1, <1>2, <2>4, <3>3, ListLengths DEF Lists
      <4>2. c \notin Owners(m)
        BY <1>2, <2>1, <3>3 DEF Owners, Inactive, NotOver
      <4>3. c \in Owners(m)'
        BY <1>1, <1>2, <1>3, <1>6, <2>1, <3>3 DEF Owners, Inactive, Types
      <4>4. QED
        BY <3>1, <3>2, <4>1, <4>2, <4>3, OwnersKept
    <3>4. CASE m # n
      BY <2>4, <3>1, <3>2, <3>4, OwnersKept
    <3>5. QED
      BY <3>3, <3>4
  <2>8. QED
    BY <2>2, <2>3, <2>5, <2>6, <2>7 DEF IInv, Sound
<1>7. QED
  BY <1>4, <1>5, <1>6

\* A switch takes the body that becomes active and puts the former one: c
\* owned the first and owns the second.
LEMMA SwitchStep ==
  ASSUME IInv, NEW c \in Conn, NEW n \in Names, Switch(c, n)
  PROVE  Sound'
<1> DEFINE old == player[c]
           anchor == SwitchRoom(old, n)
           swapped == [standing EXCEPT ![n] = Tail(@), ![old] = Append(@, anchor)]
<1>1. Types /\ Lists /\ Waits /\ Souls /\ NoGhostPosition
  BY DEF IInv, Sound
<1>2. /\ old \in Names /\ old # NoName /\ old # n /\ n # NoName /\ n \in members[c]
      /\ old \in members[c] /\ main[c] \in Mains /\ main[c] \in members[c]
      /\ over[c] = NotOver /\ standing[n] # <<>>
  BY <1>1, SoulAssumption DEF Switch, Ready, Playing, Inactive, Types, Souls, Stands
<1>3. /\ standing' = Moved(swapped, members[c] \ {old}, anchor)
      /\ pos' = Places(old, n, anchor)
      /\ player' = [player EXCEPT ![c] = n]
      /\ roster' = [roster EXCEPT ![main[c]] = members[c]]
      /\ UNCHANGED <<main, members, bound, attach, over>>
  BY DEF Switch, rest
<1>4. /\ swapped[n] = Tail(standing[n]) /\ swapped[old] = Append(standing[old], anchor)
      /\ \A m \in Names \ {n, old} : swapped[m] = standing[m]
  BY <1>1, <1>2 DEF Lists
<1> HIDE DEF swapped, old
<1>13. anchor \in Rooms
  <2>1. pos[old] # NoRoom => pos[old] \in Rooms
    BY <1>1, <1>2 DEF Types
  <2>2. Head(standing[n]) \in Rooms
    BY <1>1, <1>2, ListLengths DEF Lists
  <2>3. QED
    BY <2>1, <2>2 DEF SwitchRoom
<1> HIDE DEF anchor
<1>5. ASSUME NEW m \in Names
      PROVE  /\ standing[m] \in Seq(Rooms) /\ swapped[m] \in Seq(Rooms)
             /\ Len(swapped[m]) = IF m = n THEN Len(standing[m]) - 1
                                  ELSE IF m = old THEN Len(standing[m]) + 1
                                  ELSE Len(standing[m])
  <2>1. standing[m] \in Seq(Rooms)
    BY <1>1 DEF Lists
  <2>2. Append(standing[m], anchor) \in Seq(Rooms) /\ Len(Append(standing[m], anchor)) = Len(standing[m]) + 1
    BY <1>13, <2>1, ListLengths
  <2>3. m = n => Tail(standing[m]) \in Seq(Rooms) /\ Len(Tail(standing[m])) = Len(standing[m]) - 1
    BY <1>2, <2>1, ListLengths
  <2>4. QED
    BY <1>2, <1>4, <2>1, <2>2, <2>3
<1>6. \A m \in Names : standing'[m] \in Seq(Rooms) /\ Len(standing'[m]) = Len(swapped[m])
  <2>1. swapped \in [Names -> Seq(Rooms)]
    <3>1. swapped = [m \in Names |-> swapped[m]]
      BY <1>1 DEF Lists, swapped
    <3>2. QED
      BY <1>5, <3>1
  <2>2. QED
    BY <1>3, <1>13, <2>1, MovedLengths
<1>7. Lists'
  <2>1. standing' = [m \in Names |-> standing'[m]]
    BY <1>3 DEF Moved
  <2>2. QED
    BY <1>6, <2>1 DEF Lists
<1>8. Types'
  BY <1>1, <1>2, <1>3, <1>13 DEF Types, Places
<1>9. Souls'
  BY <1>1, <1>2, <1>3 DEF Souls, Types, Playing
<1>10. NoGhostPosition'
  BY <1>1, <1>2, <1>3, SoulAssumption DEF NoGhostPosition, Types, Places, Active, old
<1>11. NobodyAbandoned'
  <2> SUFFICES ASSUME NEW m \in Names PROVE Len(standing'[m]) <= Cardinality(Owners(m)')
    BY DEF NobodyAbandoned
  <2>1. Len(standing[m]) \in Nat /\ Len(standing'[m]) \in Nat
    BY <1>5, <1>6, ListLengths
  <2>2. CASE m = n
    <3>1. Len(standing'[m]) = Len(standing[m]) - 1
      BY <1>5, <1>6, <2>2
    <3>2. Owners(m) \subseteq Owners(m)' \cup {c}
      BY <1>1, <1>3 DEF Owners, Inactive, Types
    <3>3. QED
      BY <2>1, <3>1, <3>2, OwnersKept
  <2>3. CASE m = old
    <3>1. Len(standing'[m]) = Len(standing[m]) + 1
      BY <1>2, <1>5, <1>6, <2>3
    <3>2. c \notin Owners(m)
      BY <1>2, <2>3 DEF Owners, Inactive, NotOver, old
    <3>3. Owners(m) \cup {c} \subseteq Owners(m)'
      BY <1>1, <1>2, <1>3, <2>3 DEF Owners, Inactive, Types, old
    <3>4. QED
      BY <2>1, <3>1, <3>2, <3>3, OwnersKept
  <2>4. CASE m \notin {n, old}
    <3>1. Len(standing'[m]) = Len(standing[m])
      BY <1>5, <1>6, <2>4
    <3>2. Owners(m) \subseteq Owners(m)'
      BY <1>1, <1>3, <2>4 DEF Owners, Inactive, Types, old
    <3>3. QED
      BY <2>1, <3>1, <3>2, OwnersKept
  <2>5. QED
    BY <2>2, <2>3, <2>4
<1>12. QED
  BY <1>7, <1>8, <1>9, <1>10, <1>11 DEF IInv, Sound

\* Following a walk and the tick give bodies other places and nothing else.
LEMMA MoveStep ==
  ASSUME IInv, Tick \/ \E c \in Conn : Follow(c)
  PROVE  Sound'
<1>1. Types /\ Lists /\ Waits /\ Souls /\ NoGhostPosition
  BY DEF IInv, Sound
<1>2. UNCHANGED <<player, main, members, roster, pos, bound, attach, over>>
  BY DEF Tick, TickStart, Gather, Follow, soul, world, index
<1>3. Lists' /\ \A n \in Names : Len(standing'[n]) = Len(standing[n])
  <2>1. CASE TickStart
    BY <1>1, <2>1 DEF TickStart, world, Lists
  <2>2. ASSUME NEW c \in Conn, Follow(c)
        PROVE  Lists' /\ \A n \in Names : Len(standing'[n]) = Len(standing[n])
    <3>1. standing' = Moved(standing, march[c].names, march[c].room) /\ march[c].room \in Rooms
      BY <1>1, <2>2 DEF Follow, Waits
    <3>2. QED
      BY <1>1, <3>1, MovedLengths DEF Lists
  <2>3. CASE Gather
    <3>1. PICK order, g : /\ Len(order) \in Nat /\ Formations(order, Len(order))
                          /\ Stages(g, order, Len(order)) /\ standing' = g[Len(order)]
      BY <1>1, <2>3, GatherStages
    <3>2. Len(order) \in 0..Len(order)
      BY <3>1
    <3>3. QED
      BY <1>1, <3>1, <3>2, StagesTyped DEF Lists
  <2>4. QED
    BY <2>1, <2>2, <2>3 DEF Tick
<1>4. Types' /\ Souls'
  BY <1>1, <1>2 DEF Types, Souls, Playing
<1>6. NoGhostPosition'
  BY <1>1, <1>2 DEF NoGhostPosition, Active
<1>7. NobodyAbandoned'
  <2>1. \A n \in Names : Owners(n) \subseteq Owners(n)'
    BY <1>2 DEF Owners, Inactive
  <2>2. QED
    BY <1>3, <2>1, SameBodies
<1>8. QED
  BY <1>3, <1>4, <1>6, <1>7 DEF IInv, Sound

\* A client that is taken out keeps what it owned until it has saved it.
LEMMA LeaveStep ==
  ASSUME IInv, NEW c \in Conn, Leave(c)
  PROVE  Sound'
<1>1. Types /\ Lists /\ Waits /\ Souls /\ NoGhostPosition
  BY DEF IInv, Sound
<1>2. over[c] = NotOver /\ Playing(c)
  BY <1>1 DEF Leave, Souls
<1>3. /\ player' = [player EXCEPT ![c] = NoName]
      /\ main' = [main EXCEPT ![c] = NoName]
      /\ members' = [members EXCEPT ![c] = {}]
      /\ over' = [over EXCEPT ![c] = [name |-> player[c], names |-> Inactive(c)]]
      /\ attach' = [attach EXCEPT ![c] = NoName]
      /\ UNCHANGED <<roster, standing, pos>>
      /\ bound' = IF bound[player[c]] = c THEN [bound EXCEPT ![player[c]] = NoConn] ELSE bound
  BY DEF Leave, world
<1>4. Types'
  <2>1. [name |-> player[c], names |-> Inactive(c)] \in [name : Names \cup {NoName}, names : SUBSET Names]
    BY <1>1 DEF Types, Inactive
  <2>2. over' \in [Conn -> [name : Names \cup {NoName}, names : SUBSET Names]]
    BY <1>1, <1>3, <2>1 DEF Types
  <2>3. QED
    BY <1>1, <1>3, <2>2 DEF Types
<1>5. Souls'
  BY <1>1, <1>3 DEF Souls, Types, Playing
<1>6. Lists'
  BY <1>1, <1>3 DEF Lists
<1>7. NoGhostPosition'
  <2> SUFFICES ASSUME NEW n \in Names, pos[n] # NoRoom
               PROVE  Active(n)' \/ \E d \in Conn : over'[d].name = n
    BY <1>3 DEF NoGhostPosition
  <2>1. CASE player[c] = n
    BY <1>1, <1>3, <2>1 DEF Types
  <2>2. ASSUME NEW d \in Conn \ {c}, player[d] = n PROVE Active(n)'
    BY <1>1, <1>3, <2>2 DEF Types, Active
  <2>3. ASSUME NEW d \in Conn, over[d].name = n PROVE over'[d].name = n
    <3>1. d # c
      BY <1>2, <2>3, SoulAssumption DEF NotOver
    <3>2. QED
      BY <1>1, <1>3, <2>3, <3>1 DEF Types
  <2>4. QED
    BY <1>1, <2>1, <2>2, <2>3 DEF NoGhostPosition, Active
<1>8. NobodyAbandoned'
  <2>1. ASSUME NEW n \in Names PROVE Owners(n) \subseteq Owners(n)'
    <3>1. over'[c].names = Inactive(c) /\ over[c].names = {}
      BY <1>1, <1>2, <1>3 DEF Types, NotOver
    <3>2. \A d \in Conn \ {c} :
             player'[d] = player[d] /\ members'[d] = members[d] /\ over'[d] = over[d]
      BY <1>1, <1>3 DEF Types
    <3>3. QED
      BY <3>1, <3>2 DEF Owners, Inactive
  <2>2. QED
    BY <1>3, <1>6, <2>1, SameBodies
<1>9. QED
  BY <1>4, <1>5, <1>6, <1>7, <1>8 DEF IInv, Sound

\* The companions of a removed client leave the world with their owner.
LEMMA DissolveStep ==
  ASSUME IInv, NEW c \in Conn, Dissolve(c)
  PROVE  Sound'
<1>1. Types /\ Lists /\ Waits /\ Souls /\ NoGhostPosition
  BY DEF IInv, Sound
<1>2. /\ \A n \in Names : standing'[n] =
            IF n \in over[c].names /\ standing[n] # <<>> THEN Tail(standing[n]) ELSE standing[n]
      /\ standing' = [n \in Names |-> standing'[n]]
      /\ over' = [over EXCEPT ![c].names = {}]
      /\ UNCHANGED <<player, main, members, roster, pos, bound, attach>>
  BY DEF Dissolve, soul, index, Stands
<1>3. over[c].names # {} /\ ~Playing(c)
  <2>1. over[c].names # {}
    BY DEF Dissolve
  <2>2. QED
    BY <1>1, <2>1 DEF Souls, NotOver
<1>4. /\ over' \in [Conn -> [name : Names \cup {NoName}, names : SUBSET Names]]
      /\ over'[c].names = {} /\ over'[c].name = over[c].name
      /\ \A d \in Conn \ {c} : over'[d] = over[d]
  BY <1>1, <1>2 DEF Types
<1>5. Types'
  BY <1>1, <1>2, <1>4 DEF Types
<1>6. Souls'
  BY <1>1, <1>2, <1>3, <1>4 DEF Souls, Playing
<1>7. ASSUME NEW n \in Names
      PROVE  /\ standing'[n] \in Seq(Rooms) /\ Len(standing[n]) \in Nat /\ Len(standing'[n]) \in Nat
             /\ n \in over[c].names =>
                  Len(standing'[n]) = 0 \/ Len(standing'[n]) = Len(standing[n]) - 1
             /\ n \notin over[c].names => Len(standing'[n]) = Len(standing[n])
  <2>1. standing[n] \in Seq(Rooms)
    BY <1>1 DEF Lists
  <2>2. Len(standing[n]) \in Nat /\ (standing[n] = <<>> => Len(standing[n]) = 0)
    BY <2>1, ListLengths
  <2>3. standing[n] # <<>> =>
          Tail(standing[n]) \in Seq(Rooms) /\ Len(Tail(standing[n])) = Len(standing[n]) - 1
    BY <2>1, ListLengths
  <2>4. standing'[n] \in Seq(Rooms)
    BY <1>2, <2>1, <2>3
  <2>5. Len(standing'[n]) \in Nat
    BY <2>4, ListLengths
  <2>6. QED
    BY <1>2, <2>2, <2>3, <2>4, <2>5
<1>8. Lists'
  BY <1>2, <1>7 DEF Lists
<1>9. NoGhostPosition'
  BY <1>1, <1>2, <1>4 DEF NoGhostPosition, Active
<1>10. NobodyAbandoned'
  <2> SUFFICES ASSUME NEW n \in Names PROVE Len(standing'[n]) <= Cardinality(Owners(n)')
    BY DEF NobodyAbandoned
  <2>1. CASE n \in over[c].names
    <3>1. Owners(n) \subseteq Owners(n)' \cup {c}
      BY <1>2, <1>4 DEF Owners, Inactive
    <3>2. QED
      BY <1>7, <2>1, <3>1, OwnersKept
  <2>2. CASE n \notin over[c].names
    <3>1. Owners(n) \subseteq Owners(n)'
      BY <1>2, <1>4, <2>2 DEF Owners, Inactive
    <3>2. QED
      BY <1>7, <2>2, <3>1, OwnersKept
  <2>3. QED
    BY <2>1, <2>2
<1>11. QED
  BY <1>5, <1>6, <1>8, <1>9, <1>10 DEF IInv, Sound

\* The last cleanup leaves a position only to a session that plays the body.
LEMMA CleanUpStep ==
  ASSUME IInv, NEW c \in Conn, CleanUp(c)
  PROVE  Sound'
<1> DEFINE n == over[c].name
<1>1. Types /\ Lists /\ Waits /\ Souls /\ NoGhostPosition
  BY DEF IInv, Sound
<1>2. /\ n \in Names /\ n # NoName /\ over[c].names = {}
      /\ pos' = IF Find(n) = NoConn THEN [pos EXCEPT ![n] = NoRoom] ELSE pos
      /\ over' = [over EXCEPT ![c] = NotOver]
      /\ UNCHANGED <<player, main, members, roster, standing, bound, attach>>
  BY <1>1 DEF CleanUp, soul, index, Types
<1>3. Find(n) # NoConn => Active(n)
  BY <1>1, <1>2 DEF Find, Active, Types
<1>4. /\ over'[c] = NotOver /\ \A d \in Conn \ {c} : over'[d] = over[d]
      /\ over' \in [Conn -> [name : Names \cup {NoName}, names : SUBSET Names]]
  <2>1. NotOver \in [name : Names \cup {NoName}, names : SUBSET Names]
    BY DEF NotOver
  <2>2. QED
    BY <1>1, <1>2, <2>1 DEF Types
<1>5. Types'
  BY <1>1, <1>2, <1>4 DEF Types
<1>6. Souls'
  BY <1>1, <1>2, <1>4 DEF Souls, Playing
<1>7. Lists'
  BY <1>1, <1>2 DEF Lists
<1>8. NoGhostPosition'
  <2> SUFFICES ASSUME NEW m \in Names, pos'[m] # NoRoom
               PROVE  Active(m)' \/ \E d \in Conn : over'[d].name = m
    BY DEF NoGhostPosition
  <2>1. CASE m = n
    <3>1. Find(n) # NoConn
      BY <1>1, <1>2, <2>1 DEF Types
    <3>2. QED
      BY <1>2, <1>3, <2>1, <3>1 DEF Active
  <2>2. CASE m # n
    <3>1. pos[m] # NoRoom
      BY <1>1, <1>2, <2>2 DEF Types
    <3>2. QED
      BY <1>1, <1>2, <1>4, <2>2, <3>1 DEF NoGhostPosition, Active
  <2>3. QED
    BY <2>1, <2>2
<1>9. NobodyAbandoned'
  <2>1. \A m \in Names : Owners(m) \subseteq Owners(m)'
    BY <1>2, <1>4 DEF Owners, Inactive
  <2>2. QED
    BY <1>2, <1>7, <2>1, SameBodies
<1>10. QED
  BY <1>5, <1>6, <1>7, <1>8, <1>9 DEF IInv, Sound

\* What waits for a later section is well formed: a walk leads to a room, the
\* tick notes formations of souls that are in play.
LEMMA WaitsKept ==
  ASSUME IInv, [Next]_vars
  PROVE  Waits'
<1>1. Types /\ Waits /\ Souls
  BY DEF IInv, Sound
<1>2. ASSUME UNCHANGED <<former, march, anchors>> PROVE Waits'
  BY <1>1, <1>2 DEF Waits
<1>3. ASSUME NEW c \in Conn, NEW n \in Names \cup {NoName},
             former' = [former EXCEPT ![c] = n], UNCHANGED <<march, anchors>>
      PROVE  Waits'
  BY <1>1, <1>3 DEF Waits
<1>4. ASSUME NEW c \in Conn, NEW m \in [names : SUBSET Names, room : Rooms \cup {NoRoom}],
             m = NoMarch \/ m.room \in Rooms,
             march' = [march EXCEPT ![c] = m], UNCHANGED <<former, anchors>>
      PROVE  Waits'
  <2>1. march' \in [Conn -> [names : SUBSET Names, room : Rooms \cup {NoRoom}]]
    BY <1>1, <1>4 DEF Waits
  <2>2. \A d \in Conn : march'[d] = NoMarch \/ march'[d].room \in Rooms
    BY <1>1, <1>4 DEF Waits
  <2>3. QED
    BY <1>1, <1>4, <2>1, <2>2 DEF Waits
<1>5. ASSUME NEW c \in Conn, Command(c) PROVE Waits'
  <2>1. ASSUME NEW n \in Names, AttachCheck(c, n) PROVE Waits'
    BY <1>2, <2>1 DEF AttachCheck, index
  <2>2. ASSUME NEW n \in Names, Switch(c, n) PROVE Waits'
    <3>1. player[c] \in Names \cup {NoName}
      BY <1>1 DEF Types
    <3>2. former' = [former EXCEPT ![c] = player[c]] /\ UNCHANGED <<march, anchors>>
      BY <2>2 DEF Switch, rest
    <3>3. QED
      BY <1>3, <3>1, <3>2
  <2>3. ASSUME NEW r \in Rooms, Walk(c, r) PROVE Waits'
    <3> DEFINE m == [names |-> Inactive(c), room |-> r]
    <3>1. m \in [names : SUBSET Names, room : Rooms \cup {NoRoom}] /\ m.room \in Rooms
      BY <1>1 DEF Types, Inactive
    <3>2. march' = [march EXCEPT ![c] = m] /\ UNCHANGED <<former, anchors>>
      BY <2>3 DEF Walk, index
    <3> HIDE DEF m
    <3>3. QED
      BY <1>4, <3>1, <3>2
  <2>4. ASSUME NEW r \in Rooms, Summon(c, r) PROVE Waits'
    BY <1>2, <2>4 DEF Summon, index, rest
  <2>5. CASE AttachAdd(c)
    BY <1>2, <2>5 DEF AttachAdd, index
  <2>6. CASE Follow(c)
    <3>1. NoMarch \in [names : SUBSET Names, room : Rooms \cup {NoRoom}]
      BY DEF NoMarch
    <3>2. march' = [march EXCEPT ![c] = NoMarch] /\ UNCHANGED <<former, anchors>>
      BY <2>6 DEF Follow, index
    <3>3. QED
      BY <1>4, <3>1, <3>2
  <2>7. CASE Rebind(c)
    BY <1>3, <2>7 DEF Rebind, rest
  <2>8. QED
    BY <1>5, <2>1, <2>2, <2>3, <2>4, <2>5, <2>6, <2>7 DEF Command
<1>6. ASSUME NEW c \in Conn, Connection(c) PROVE Waits'
  <2>1. ASSUME NEW n \in Mains, Login(c, n) PROVE Waits'
    <3>1. n \in Names
      BY SoulAssumption
    <3>2. former' = [former EXCEPT ![c] = n] /\ UNCHANGED <<march, anchors>>
      BY <2>1 DEF Login, rest
    <3>3. QED
      BY <1>3, <3>1, <3>2
  <2>2. CASE Leave(c) \/ Dissolve(c) \/ CleanUp(c)
    BY <1>2, <2>2 DEF Leave, Dissolve, CleanUp, index
  <2>3. QED
    BY <1>6, <2>1, <2>2 DEF Connection
<1>7. CASE TickStart
  <2> DEFINE Players == {d \in Conn : Playing(d)}
             f == [d \in Players |-> Formation(d)]
  <2>1. anchors' = {Formation(d) : d \in Players} /\ UNCHANGED <<former, march>>
    BY <1>7 DEF TickStart, index
  <2>2. f \in Surjection(Players, anchors')
    BY <2>1 DEF Surjection
  <2>3. IsFiniteSet(Players)
    BY SoulAssumption, FS_Subset
  <2>4. IsFiniteSet(anchors')
    BY <2>2, <2>3, FS_Surjection
  <2>5. ASSUME NEW d \in Players
        PROVE  Formation(d) \in [active : Names, main : Mains, names : SUBSET Names]
    <3>1. player[d] \in Names /\ main[d] \in Mains /\ Inactive(d) \in SUBSET Names
      BY <1>1 DEF Types, Souls, Playing, Inactive
    <3>2. QED
      BY <3>1 DEF Formation
  <2>6. anchors' \subseteq [active : Names, main : Mains, names : SUBSET Names]
    BY <2>1, <2>5
  <2>7. QED
    BY <1>1, <2>1, <2>4, <2>6 DEF Waits
<1>8. CASE Gather
  <2>1. anchors' = {} /\ UNCHANGED <<former, march>>
    BY <1>8 DEF Gather, index
  <2>2. QED
    BY <1>1, <2>1, FS_EmptySet DEF Waits
<1>9. CASE UNCHANGED vars
  BY <1>2, <1>9 DEF vars, index, rest
<1>10. QED
  BY <1>5, <1>6, <1>7, <1>8, <1>9 DEF Next, Tick

-----------------------------------------------------------------------------
(* The theorems                                                            *)

LEMMA Beginning == Init => IInv
<1> SUFFICES ASSUME Init PROVE IInv
  OBVIOUS
<1>1. Types
  BY SoulAssumption DEF Init, Types, NotOver
<1>2. Lists
  <2>1. <<>> \in Seq(Rooms)
    OBVIOUS
  <2>2. QED
    BY <2>1 DEF Init, Lists
<1>3. Souls /\ NoGhostPosition
  BY DEF Init, Souls, Playing, NoGhostPosition
<1>4. NobodyAbandoned
  <2> SUFFICES ASSUME NEW n \in Names PROVE Len(standing[n]) <= Cardinality(Owners(n))
    BY DEF NobodyAbandoned
  <2>1. Len(standing[n]) = 0
    BY DEF Init
  <2>2. IsFiniteSet(Owners(n))
    BY SoulAssumption, FS_Subset DEF Owners
  <2>3. QED
    BY <2>1, <2>2, FS_CardinalityType
<1>5. Waits
  BY FS_EmptySet DEF Init, Waits, NoMarch
<1>6. QED
  BY <1>1, <1>2, <1>3, <1>4, <1>5 DEF IInv, Sound

LEMMA Induction == IInv /\ [Next]_vars => IInv'
<1> SUFFICES ASSUME IInv, [Next]_vars PROVE IInv'
  OBVIOUS
<1>1. ASSUME NEW c \in Conn, Command(c) PROVE Sound'
  BY <1>1, OwnStep, SwitchStep, AttachStep, MoveStep DEF Command
<1>2. ASSUME NEW c \in Conn, Connection(c) PROVE Sound'
  BY <1>2, LoginStep, LeaveStep, DissolveStep, CleanUpStep DEF Connection
<1>3. ASSUME Tick PROVE Sound'
  BY <1>3, MoveStep
<1>4. ASSUME UNCHANGED vars PROVE Sound'
  <2> USE <1>4 DEF vars, soul, world, index, rest, IInv, Sound
  <2>1. Types' /\ Souls'
    BY DEF Types, Souls, Playing
  <2>2. Lists' /\ NoGhostPosition'
    BY DEF Lists, NoGhostPosition, Active
  <2>3. NobodyAbandoned'
    BY DEF NobodyAbandoned, Owners, Inactive
  <2>4. QED
    BY <2>1, <2>2, <2>3
<1>5. QED
  BY <1>1, <1>2, <1>3, <1>4, WaitsKept DEF Next, IInv

LEMMA Invariance == Spec => []IInv
BY Beginning, Induction, PTL DEF Spec

\* The variables of a soul and of the tick keep their types.
THEOREM TypeCorrect == Spec => []TypeOK
<1>1. IInv => TypeOK
  BY DEF IInv, Sound, Types, Lists, Waits, TypeOK
<1>2. QED
  BY <1>1, Invariance, PTL

\* No interleaving of logins, attaches, switches, ticks and removals leaves a
\* body standing for which no connection answers: each of them changes the
\* bodies of a name and their owners by the same number, although the locks
\* are given back in between and two connections may share a character.
THEOREM NoBodyLeftBehind == Spec => []NobodyAbandoned
BY Invariance, PTL DEF IInv, Sound

\* A position in the world is that of a body somebody plays, or its cleanup is
\* still to come: the switch hands the position on, the removal leaves it to
\* the connection's task, and the task to a newer session only.
THEOREM NoPositionLeftBehind == Spec => []NoGhostPosition
BY Invariance, PTL DEF IInv, Sound

\* In whatever order the tick takes the formations it noted: a soul that is
\* still formed as noted and shares no character with another one ends in the
\* room of its main character.  The formations before it move none of its
\* bodies, so its anchor is where the main stands, and those after it move
\* none either.
THEOREM TickGathers == Spec => Gathers
<1> DEFINE Gathering(c) ==
      /\ Playing(c) /\ Formation(c) \in anchors /\ ~Shared(Formation(c))
      /\ MainPlaced(c)
      => \A n \in Inactive(c) : \A i \in DOMAIN standing'[n] : standing'[n][i] = MainRoom(c)
<1>1. ASSUME IInv, [Next]_vars, anchors # {}, anchors' = {}, NEW c \in Conn
      PROVE  Gathering(c)
  <2> SUFFICES ASSUME Playing(c), Formation(c) \in anchors, ~Shared(Formation(c)), MainPlaced(c),
                      NEW n \in Inactive(c), NEW i \in DOMAIN standing'[n]
               PROVE  standing'[n][i] = MainRoom(c)
    OBVIOUS
  <2> DEFINE a == Formation(c)
  <2>1. Types /\ Lists /\ Waits /\ Souls
    BY <1>1 DEF IInv, Sound
  <2>2. Gather
    <3>1. anchors' # anchors
      BY <1>1
    <3>2. \A d \in Conn : ~Command(d)
      BY <3>1 DEF Command, AttachCheck, Switch, Walk, Summon, AttachAdd, Follow, Rebind, rest
    <3>3. \A d \in Conn : ~Connection(d)
      BY <3>1 DEF Connection, Login, Leave, Dissolve, CleanUp, rest
    <3>4. ~TickStart
      BY <1>1 DEF TickStart
    <3>5. QED
      BY <1>1, <3>1, <3>2, <3>3, <3>4 DEF Next, Tick, vars, rest
  <2>3. PICK order, g :
           /\ Len(order) \in Nat
           /\ \A j \in 1..Len(order) : order[j] \in anchors
           /\ \A j, k \in 1..Len(order) : order[j] = order[k] => j = k
           /\ \A b \in anchors : \E j \in 1..Len(order) : order[j] = b
           /\ Formations(order, Len(order)) /\ Stages(g, order, Len(order))
           /\ standing' = g[Len(order)]
    BY <2>1, <2>2, GatherStages
  <2>4. /\ a.active = player[c] /\ a.main = main[c] /\ a.names = Inactive(c)
        /\ n \in Names /\ n \in a.names /\ main[c] \in Names
        /\ main[c] # player[c] => main[c] \in a.names
    BY <2>1, SoulAssumption DEF Formation, Types, Souls, Inactive
  <2>5. PICK k \in 1..Len(order) : order[k] = a
    BY <2>3
  <2> HIDE DEF a
  <2>6. ASSUME NEW j \in 1..Len(order), j # k, NEW m \in a.names PROVE m \notin order[j].names
    <3>1. order[j] \in anchors \ {a}
      BY <2>3, <2>5, <2>6
    <3>2. Bodies(a) \cap Bodies(order[j]) = {}
      BY <3>1 DEF Shared, a
    <3>3. QED
      BY <2>6, <3>2 DEF Bodies
  <2>7. /\ k - 1 \in 0..Len(order) /\ k \in 0..Len(order) /\ k # 0 /\ 0 \in 0..Len(order)
        /\ k - 1 \in 0..(k - 1) /\ k - 1 \in 0..Len(order) /\ Len(order) \in k..Len(order)
    BY <2>3
  <2>8. ASSUME NEW m \in Names, m \in a.names
        PROVE  g[k - 1][m] = standing[m] /\ standing'[m] = g[k][m]
    <3>1. g[0] = standing
      BY <2>3, <2>7 DEF Stages
    <3>2. \A j \in (0 + 1)..(k - 1) : m \notin order[j].names
      BY <2>3, <2>6, <2>8
    <3>3. g[k - 1][m] = g[0][m]
      BY <2>1, <2>3, <2>7, <3>2, StagesLeave
    <3>4. \A j \in (k + 1)..Len(order) : m \notin order[j].names
      BY <2>3, <2>6, <2>8
    <3>5. g[Len(order)][m] = g[k][m]
      BY <2>1, <2>3, <2>7, <3>4, StagesLeave
    <3>6. QED
      BY <2>3, <3>1, <3>3, <3>5
  <2>9. /\ g[k - 1] \in [Names -> Seq(Rooms)]
        /\ g[k] = GatherOne(g[k - 1], a)
        /\ a.active \in Names /\ a.main \in Names
    BY <2>1, <2>3, <2>5, <2>7, StagesTyped DEF Stages, Formations
  <2> DEFINE room == Anchor(g[k - 1], a)
  <2>10. room # NoRoom =>
           \A m \in Names : m \in a.names =>
             standing'[m] = [x \in DOMAIN standing[m] |-> room]
    <3>1. room # NoRoom => \A m \in Names \cap a.names :
            GatherOne(g[k - 1], a)[m] = [x \in DOMAIN g[k - 1][m] |-> room]
      BY <2>1, <2>9, OneGathered
    <3> HIDE DEF room
    <3>2. QED
      BY <2>8, <2>9, <3>1
  <2>11. CASE main[c] = player[c]
    <3>1. room = pos[main[c]] /\ room # NoRoom
      BY <2>4, <2>11 DEF Anchor, MainPlaced
    <3>2. MainRoom(c) = pos[main[c]]
      BY <2>2, <2>11 DEF MainRoom, Gather
    <3> HIDE DEF room
    <3>3. QED
      BY <2>4, <2>10, <3>1, <3>2
  <2>12. CASE main[c] # player[c]
    <3>1. main[c] \in a.names /\ main[c] \in Names
      BY <2>4, <2>12
    <3>2. g[k - 1][main[c]] = standing[main[c]]
      BY <2>8, <3>1
    <3>3. standing[main[c]] \in Seq(Rooms) /\ standing[main[c]] # <<>>
      BY <2>1, <2>12, <3>1 DEF Lists, MainPlaced, Stands
    <3>4. room = Head(standing[main[c]]) /\ room \in Rooms
      BY <2>4, <2>12, <3>2, <3>3, ListLengths DEF Anchor
    <3>5. room # NoRoom
      BY <3>4, SoulAssumption
    <3> HIDE DEF room
    <3>6. /\ standing'[main[c]] = [x \in DOMAIN standing[main[c]] |-> room]
          /\ standing'[n] = [x \in DOMAIN standing[n] |-> room]
      BY <2>4, <2>10, <3>1, <3>5
    <3>7. Head(standing'[main[c]]) = room
      <4>1. /\ DOMAIN standing[main[c]] = 1..Len(standing[main[c]])
            /\ Len(standing[main[c]]) \in Nat \ {0}
        BY <3>3
      <4>2. standing'[main[c]] = [x \in 1..Len(standing[main[c]]) |-> room]
        BY <3>6, <4>1
      <4>3. standing'[main[c]][1] = room
        BY <4>1, <4>2
      <4>4. Head(standing'[main[c]]) = standing'[main[c]][1]
        BY <3>4, <4>1, <4>2
      <4>5. QED
        BY <4>3, <4>4
    <3>8. QED
      BY <2>12, <3>6, <3>7 DEF MainRoom
  <2>13. QED
    BY <2>11, <2>12
<1>2. IInv /\ [Next]_vars =>
        [anchors # {} /\ anchors' = {} => \A c \in Conn : Gathering(c)]_vars
  BY <1>1
<1>3. QED
  BY <1>2, Invariance, PTL DEF Spec, Gathers
=============================================================================
