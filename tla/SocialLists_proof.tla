-------------------------- MODULE SocialLists_proof --------------------------
(***************************************************************************)
(* Proofs about SocialLists, for every set of connections and every party  *)
(* size: its lists hold nobody twice, and read as sets they implement      *)
(* SocialGraph.                                                            *)
(*                                                                         *)
(* A loop of the code is a recursive function over its turns; that the     *)
(* function exists (StagesExist) and what holds after each turn is shown   *)
(* by induction (TurnByTurn), and each operation is then described by what *)
(* it does to the sets.                                                    *)
(***************************************************************************)
EXTENDS SocialLists, FiniteSetTheorems, SequenceTheorems, WellFoundedInduction, TLAPS

-----------------------------------------------------------------------------
(* Induction over the turns of a loop *)

\* What holds of 0 and of the successor of each number for which it holds
\* holds of every number (for a set of numbers, since a theorem cannot be
\* given an operator).
LEMMA NaturalsUp ==
  ASSUME NEW S, 0 \in S, \A n \in Nat : n \in S => n + 1 \in S
  PROVE  Nat \subseteq S
<1> DEFINE Less == {p \in Nat \X Nat : p[1] < p[2]}
           Missing == Nat \ S
<1> SUFFICES ASSUME Missing # {} PROVE FALSE
  OBVIOUS
<1>1. \A x, y \in Nat : <<y, x>> \in Less <=> y < x
  OBVIOUS
<1>2. IsWellFoundedOn(Less, Nat)
  BY NatLessThanWellFounded DEF OpToRel
<1>3. Missing \subseteq Nat
  OBVIOUS
<1> HIDE DEF Less
<1>4. PICK x \in Missing : \A y \in Missing : <<y, x>> \notin Less
  <2> HIDE DEF Missing
  <2>1. QED
    BY <1>2, <1>3, WFMin
<1>5. x \in Nat /\ x # 0 /\ x \notin S
  OBVIOUS
<1>6. x - 1 \in Nat /\ x - 1 < x /\ x = (x - 1) + 1
  BY <1>5
<1>7. x - 1 \in Missing
  BY <1>5, <1>6
<1>8. QED
  BY <1>1, <1>4, <1>5, <1>6, <1>7

-----------------------------------------------------------------------------
(* Lists without duplicates *)

\* A list of connections that holds none of them twice.
Plain(s) == s \in Seq(Conn) /\ IsInjective(s)

\* Lists and the sets of what they hold.
LEMMA ListAndSet ==
  ASSUME NEW s \in Seq(Conn)
  PROVE  /\ ToSet(s) \subseteq Conn
         /\ \A e : Contains(s, e) <=> e \in ToSet(s)
         /\ s = <<>> <=> ToSet(s) = {}
         /\ ToSet(<<>>) = {}
  BY DEF ToSet, Contains

\* remove_value() takes out the one place of its value.
LEMMA Removed ==
  ASSUME NEW s, Plain(s), NEW e
  PROVE  /\ Plain(RemoveFirst(s, e))
         /\ ToSet(RemoveFirst(s, e)) = ToSet(s) \ {e}
<1> DEFINE I == {i \in 1..Len(s) : s[i] = e}
           k == Min(I)
           t == SubSeq(s, 1, k - 1) \o SubSeq(s, k + 1, Len(s))
<1>1. CASE I = {}
  <2>1. RemoveFirst(s, e) = s
    BY <1>1 DEF RemoveFirst
  <2>2. QED
    BY <1>1, <2>1 DEF Plain, ToSet
<1>2. CASE I # {}
  <2>1. RemoveFirst(s, e) = t
    BY <1>2 DEF RemoveFirst, RemoveAt, SelectInSeq
  <2>2. \E i \in I : \A j \in I : i <= j
    BY <1>2 DEF Plain, IsInjective
  <2>3. k \in I
    <3> HIDE DEF I
    <3>1. QED
      BY <2>2 DEF Min
  <2>4. k \in 1..Len(s) /\ s[k] = e
    BY <2>3
  <2> HIDE DEF k, I
  <2>5. /\ t \in Seq(Conn)
        /\ Len(t) = Len(s) - 1
        /\ \A i \in 1..Len(t) : t[i] = IF i < k THEN s[i] ELSE s[i + 1]
    <3> DEFINE p == SubSeq(s, 1, k - 1)
               q == SubSeq(s, k + 1, Len(s))
    <3>1. s \in Seq(Conn) /\ Len(s) \in Nat /\ k \in 1..Len(s)
      BY <2>4 DEF Plain
    <3>2. p \in Seq(Conn) /\ Len(p) = k - 1 /\ \A i \in 1..(k - 1) : p[i] = s[i]
      BY <3>1
    <3>3. q \in Seq(Conn) /\ Len(q) = Len(s) - k /\ \A i \in 1..(Len(s) - k) : q[i] = s[k + i]
      BY <3>1
    <3> HIDE DEF p, q
    <3>4. /\ p \o q \in Seq(Conn)
          /\ Len(p \o q) = Len(p) + Len(q)
          /\ \A i \in 1..(Len(p) + Len(q)) :
                (p \o q)[i] = IF i <= Len(p) THEN p[i] ELSE q[i - Len(p)]
      BY <3>2, <3>3, ConcatProperties
    <3>5. ASSUME NEW i \in 1..(Len(s) - 1)
          PROVE  (p \o q)[i] = IF i < k THEN s[i] ELSE s[i + 1]
      <4>1. CASE i < k
        BY <3>1, <3>2, <3>3, <3>4, <4>1
      <4>2. CASE ~(i < k)
        <5>1. i - Len(p) \in 1..(Len(s) - k) /\ k + (i - Len(p)) = i + 1
          BY <3>1, <3>2, <4>2
        <5>2. (p \o q)[i] = q[i - Len(p)]
          BY <3>1, <3>2, <3>3, <3>4, <4>2
        <5>3. QED
          BY <3>3, <4>2, <5>1, <5>2
      <4>3. QED
        BY <4>1, <4>2
    <3>6. t = p \o q
      BY DEF p, q
    <3> HIDE DEF t
    <3>7. Len(p) + Len(q) = Len(s) - 1
      BY <3>1, <3>2, <3>3
    <3>8. QED
      BY <3>4, <3>5, <3>6, <3>7
  <2> HIDE DEF t
  <2> DEFINE place(i) == IF i < k THEN i ELSE i + 1
  <2>6. \A i \in 1..Len(t) : place(i) \in 1..Len(s) /\ place(i) # k /\ t[i] = s[place(i)]
    BY <2>4, <2>5 DEF Plain
  <2>7. Plain(t)
    <3>1. \A i, j \in 1..Len(t) : place(i) = place(j) => i = j
      BY <2>4, <2>5 DEF Plain
    <3> HIDE DEF place
    <3>2. \A i, j \in 1..Len(t) : t[i] = t[j] => i = j
      BY <2>6, <3>1 DEF Plain, IsInjective
    <3>3. QED
      BY <2>5, <3>2 DEF Plain, IsInjective
  <2>8. ASSUME NEW x \in ToSet(t) PROVE x \in ToSet(s) \ {e}
    <3>1. PICK i \in 1..Len(t) : x = t[i]
      BY <2>5, <2>8 DEF ToSet
    <3>2. PICK j \in 1..Len(s) : x = s[j] /\ j # k
      <4> HIDE DEF place
      <4>1. QED
        BY <2>6, <3>1
    <3>3. x # e
      BY <2>4, <3>2 DEF Plain, IsInjective
    <3>4. QED
      BY <3>2, <3>3 DEF Plain, ToSet
  <2>9. ASSUME NEW x \in ToSet(s) \ {e} PROVE x \in ToSet(t)
    <3>1. PICK i \in 1..Len(s) : x = s[i] /\ i # k
      BY <2>4, <2>9 DEF Plain, ToSet
    <3>2. CASE i < k
      BY <2>4, <2>5, <3>1, <3>2 DEF ToSet, Plain
    <3>3. CASE i > k
      <4>1. i - 1 \in 1..Len(t) /\ ~(i - 1 < k) /\ (i - 1) + 1 = i
        BY <2>4, <2>5, <3>1, <3>3 DEF Plain
      <4>2. t[i - 1] = x
        BY <2>5, <3>1, <4>1
      <4>3. QED
        BY <2>5, <4>1, <4>2 DEF ToSet
    <3>4. QED
      BY <2>4, <3>1, <3>2, <3>3 DEF Plain
  <2>10. QED
    BY <2>1, <2>7, <2>8, <2>9
<1>3. QED
  BY <1>1, <1>2

\* push() of what is not in the list.
LEMMA Appended ==
  ASSUME NEW s, Plain(s), NEW e \in Conn, e \notin ToSet(s)
  PROVE  /\ Plain(Append(s, e))
         /\ ToSet(Append(s, e)) = ToSet(s) \cup {e}
         /\ Len(Append(s, e)) = Len(s) + 1
<1>1. Len(Append(s, e)) = Len(s) + 1 /\ Append(s, e) \in Seq(Conn)
  BY DEF Plain
<1>2. \A i \in 1..Len(s) : Append(s, e)[i] = s[i]
  BY DEF Plain
<1>3. Append(s, e)[Len(s) + 1] = e
  BY DEF Plain
<1>4. QED
  BY <1>1, <1>2, <1>3 DEF Plain, IsInjective, ToSet

\* The size of a set is the length of its list.
LEMMA LengthIsSize ==
  ASSUME NEW s, Plain(s)
  PROVE  Cardinality(ToSet(s)) = Len(s) /\ Len(s) \in Nat
<1>1. Len(s) \in Nat /\ s \in [1..Len(s) -> Conn]
  BY DEF Plain
<1>2. s \in Bijection(1..Len(s), ToSet(s))
  <2>1. s \in [1..Len(s) -> ToSet(s)]
    BY <1>1 DEF ToSet
  <2>2. s \in Surjection(1..Len(s), ToSet(s))
    BY <2>1 DEF Surjection, ToSet
  <2>3. \A i, j \in 1..Len(s) : s[i] = s[j] => i = j
    BY DEF Plain, IsInjective
  <2>4. s \in Injection(1..Len(s), ToSet(s))
    BY <2>1, <2>3 DEF Injection, IsInjective
  <2>5. QED
    BY <2>2, <2>4 DEF Bijection
<1>3. Cardinality(1..Len(s)) = Len(s) /\ IsFiniteSet(1..Len(s))
  <2> DEFINE n == Len(s)
  <2> HIDE DEF n
  <2>1. n \in Nat /\ 1 \in Int /\ n \in Int
    BY <1>1 DEF n
  <2>2. IsFiniteSet(1..n) /\ Cardinality(1..n) = IF 1 > n THEN 0 ELSE n - 1 + 1
    BY <2>1, FS_Interval
  <2>3. Cardinality(1..n) = n
    BY <2>1, <2>2
  <2>4. QED
    BY <2>2, <2>3 DEF n
<1>4. ExistsBijection(1..Len(s), ToSet(s))
  BY <1>2 DEF ExistsBijection
<1> DEFINE S == 1..Len(s)
           T == ToSet(s)
<1> HIDE DEF S, T
<1>5. IsFiniteSet(S) /\ ExistsBijection(S, T)
  BY <1>3, <1>4 DEF S, T
<1>6. Cardinality(S) = Cardinality(T)
  BY <1>5, FS_Bijection
<1>7. QED
  BY <1>1, <1>3, <1>6 DEF S, T

-----------------------------------------------------------------------------
(* What each operation does to the sets *)

PlainLists == {s \in Seq(Conn) : Plain(s)}

\* The relations that the lists can hold.
Rels ==
  [follow    : [Conn -> Conn \cup {None}],
   followers : [Conn -> PlainLists],
   leader    : [Conn -> Conn \cup {None}],
   members   : [Conn -> PlainLists],
   targets   : [Conn -> SUBSET Mob]]

\* Each list as the set of what it holds.
Sets(lists) == [c \in Conn |-> ToSet(lists[c])]

LEMMA ListsArePlain ==
  ASSUME NEW r \in Rels, NEW c \in Conn
  PROVE  Plain(r.followers[c]) /\ Plain(r.members[c])
  BY DEF Rels, PlainLists

\* Some taken out of one set.
Without(sets, l, gone) == [c \in Conn |-> IF c = l THEN sets[c] \ gone ELSE sets[c]]

\* One list replaced by another that lacks some: the sets lack them.
LEMMA ListWithout ==
  ASSUME NEW old \in [Conn -> PlainLists], NEW new \in [Conn -> PlainLists], NEW l \in Conn, NEW gone,
         ToSet(new[l]) = ToSet(old[l]) \ gone,
         \A c \in Conn \ {l} : new[c] = old[c]
  PROVE  Sets(new) = Without(Sets(old), l, gone)
  BY DEF Sets, Without

\* The maps of relations, one by one.
LEMMA MapTypes ==
  ASSUME NEW r \in Rels
  PROVE  /\ r.follow \in [Conn -> Conn \cup {None}] /\ r.leader \in [Conn -> Conn \cup {None}]
         /\ r.followers \in [Conn -> PlainLists] /\ r.members \in [Conn -> PlainLists]
         /\ r.targets \in [Conn -> SUBSET Mob]
  BY DEF Rels

\* r differs from q in no other map than those of follows.
SameParty(q, r) == q.leader = r.leader /\ q.members = r.members /\ q.targets = r.targets

\* stop_following(): a's target and its place in the list of that target.
LEMMA StopsFollowing ==
  ASSUME NEW r \in Rels, NEW a \in Conn
  PROVE  LET q == StopFollowing(r, a) IN
         /\ q \in Rels
         /\ SameParty(q, r)
         /\ q.follow = [r.follow EXCEPT ![a] = None]
         /\ Sets(q.followers) = [c \in Conn |->
              IF c = r.follow[a] THEN Sets(r.followers)[c] \ {a} ELSE Sets(r.followers)[c]]
<1> DEFINE q == StopFollowing(r, a)
           f == r.follow[a]
<1> USE DEF Rels, SameParty
<1>1. CASE f = None
  <2>1. q = r /\ f \notin Conn
    BY <1>1, ListsAssumption DEF StopFollowing
  <2>2. r.follow = [r.follow EXCEPT ![a] = None]
    BY <1>1
  <2>3. QED
    BY <2>1, <2>2 DEF Sets
<1>2. CASE f # None
  <2>1. f \in Conn
    BY <1>2
  <2> DEFINE s == RemoveFirst(r.followers[f], a)
  <2>2. q = [r EXCEPT !.follow[a] = None, !.followers[f] = s]
    BY <1>2 DEF StopFollowing
  <2>3. s \in PlainLists /\ ToSet(s) = ToSet(r.followers[f]) \ {a}
    BY <2>1, ListsArePlain, Removed DEF PlainLists, Plain
  <2> HIDE DEF s, q, f
  <2>4. /\ q \in Rels
        /\ SameParty(q, r)
        /\ q.follow = [r.follow EXCEPT ![a] = None]
        /\ q.followers = [r.followers EXCEPT ![f] = s]
    BY <2>1, <2>2, <2>3
  <2>5. QED
    BY <2>1, <2>3, <2>4 DEF Sets, q, f
<1>3. QED
  BY <1>1, <1>2

\* follow(): out of the old list, into the new one unless it is there already.
LEMMA Follows ==
  ASSUME NEW r \in Rels, NEW a \in Conn, NEW t \in Conn
  PROVE  LET q == Follow(r, a, t) IN
         /\ q \in Rels
         /\ SameParty(q, r)
         /\ q.follow = [r.follow EXCEPT ![a] = t]
         /\ Sets(q.followers) = [c \in Conn |->
              IF c = t THEN Sets(r.followers)[c] \cup {a}
              ELSE IF c = r.follow[a] THEN Sets(r.followers)[c] \ {a}
              ELSE Sets(r.followers)[c]]
<1> DEFINE q == Follow(r, a, t)
           m == StopFollowing(r, a)
           s == IF Contains(m.followers[t], a) THEN m.followers[t] ELSE Append(m.followers[t], a)
<1>1. /\ m \in Rels
      /\ SameParty(m, r)
      /\ m.follow = [r.follow EXCEPT ![a] = None]
      /\ Sets(m.followers) = [c \in Conn |->
           IF c = r.follow[a] THEN Sets(r.followers)[c] \ {a} ELSE Sets(r.followers)[c]]
  BY StopsFollowing
<1>2. q = [m EXCEPT !.follow[a] = t, !.followers[t] = s]
  BY DEF Follow
<1> HIDE DEF m, q
<1>3. s \in PlainLists /\ ToSet(s) = ToSet(m.followers[t]) \cup {a}
  <2>1. Plain(m.followers[t]) /\ m.followers[t] \in Seq(Conn)
    BY <1>1, ListsArePlain DEF Plain
  <2>2. CASE Contains(m.followers[t], a)
    BY <2>1, <2>2, ListAndSet DEF PlainLists
  <2>3. CASE ~Contains(m.followers[t], a)
    BY <2>1, <2>3, ListAndSet, Appended DEF PlainLists, Plain
  <2>4. QED
    BY <2>2, <2>3
<1> HIDE DEF s
<1>4. /\ q \in Rels
      /\ SameParty(q, m)
      /\ q.follow = [m.follow EXCEPT ![a] = t]
      /\ q.followers = [m.followers EXCEPT ![t] = s]
  BY <1>1, <1>2, <1>3 DEF Rels, SameParty
<1>5. q.follow = [r.follow EXCEPT ![a] = t]
  BY <1>1, <1>4 DEF Rels
<1>6. SameParty(q, r)
  BY <1>1, <1>4 DEF SameParty
<1>7. Sets(q.followers) = [c \in Conn |->
        IF c = t THEN ToSet(m.followers[t]) \cup {a} ELSE Sets(m.followers)[c]]
  BY <1>1, <1>3, <1>4 DEF Sets, Rels
<1>8. ToSet(m.followers[t]) \cup {a} = Sets(r.followers)[t] \cup {a}
  <2>1. ToSet(m.followers[t]) = Sets(m.followers)[t]
    BY DEF Sets
  <2>2. QED
    BY <1>1, <2>1
<1>9. Sets(q.followers) = [c \in Conn |->
        IF c = t THEN Sets(r.followers)[c] \cup {a}
        ELSE IF c = r.follow[a] THEN Sets(r.followers)[c] \ {a}
        ELSE Sets(r.followers)[c]]
  BY <1>1, <1>7, <1>8
<1>10. QED
  BY <1>4, <1>5, <1>6, <1>9 DEF q

\* q is r when the party of l is dissolved if nobody is in it.
Dissolved(q, r, l) ==
  /\ q.follow = r.follow /\ q.followers = r.followers
  /\ q.members = r.members /\ q.targets = r.targets
  /\ q.leader = IF ToSet(r.members[l]) = {} THEN [r.leader EXCEPT ![l] = None] ELSE r.leader

\* A party that has become empty loses its leader, and nothing else changes.
LEMMA Dissolves ==
  ASSUME NEW r \in Rels, NEW l \in Conn
  PROVE  DissolveIfEmpty(r, l) \in Rels /\ Dissolved(DissolveIfEmpty(r, l), r, l)
<1>1. r.members[l] = <<>> <=> ToSet(r.members[l]) = {}
  BY ListsArePlain, ListAndSet DEF Plain
<1>2. QED
  BY <1>1 DEF DissolveIfEmpty, Rels, Dissolved

\* The leaders when those in gone leave the party of l, as in SocialGraph.
LeadersWithout(r, l, gone) ==
  [c \in Conn |-> IF c \in gone THEN None
                  ELSE IF c = l /\ Sets(r.members)[l] \subseteq gone THEN None
                  ELSE r.leader[c]]

\* leave_party_member(): out of both lists of the leader.
LEMMA LeavesParty ==
  ASSUME NEW r \in Rels, NEW a \in Conn, NEW l \in Conn, r.leader[a] = l, l # a
  PROVE  LET q == LeaveParty(r, a) IN
         /\ q \in Rels
         /\ q.follow = [r.follow EXCEPT ![a] = None]
         /\ Sets(q.followers) = Without(Sets(r.followers), l, {a})
         /\ q.leader = LeadersWithout(r, l, {a})
         /\ Sets(q.members) = Without(Sets(r.members), l, {a})
         /\ q.targets = [r.targets EXCEPT ![a] = {}]
<1> DEFINE fs == RemoveFirst(r.followers[l], a)
           ms == RemoveFirst(r.members[l], a)
           left == [r EXCEPT !.follow[a] = None, !.followers[l] = fs, !.leader[a] = None,
                             !.targets[a] = {}, !.members[l] = ms]
           q == DissolveIfEmpty(left, l)
<1>1. LeaveParty(r, a) = q
  BY ListsAssumption DEF LeaveParty
<1>2. /\ fs \in PlainLists /\ ToSet(fs) = ToSet(r.followers[l]) \ {a}
      /\ ms \in PlainLists /\ ToSet(ms) = ToSet(r.members[l]) \ {a}
  BY ListsArePlain, Removed DEF PlainLists, Plain
<1> HIDE DEF fs, ms
<1>3. /\ left \in Rels
      /\ left.follow = [r.follow EXCEPT ![a] = None]
      /\ left.followers = [r.followers EXCEPT ![l] = fs]
      /\ left.leader = [r.leader EXCEPT ![a] = None]
      /\ left.members = [r.members EXCEPT ![l] = ms]
      /\ left.targets = [r.targets EXCEPT ![a] = {}]
  BY <1>2 DEF Rels
<1> HIDE DEF left
<1>4. /\ q \in Rels
      /\ q.follow = left.follow /\ q.followers = left.followers
      /\ q.members = left.members /\ q.targets = left.targets
      /\ q.leader = IF ToSet(left.members[l]) = {} THEN [left.leader EXCEPT ![l] = None] ELSE left.leader
  <2>1. q \in Rels /\ Dissolved(q, left, l)
    BY <1>3, Dissolves
  <2> HIDE DEF q
  <2>2. QED
    BY <2>1 DEF Dissolved
<1> HIDE DEF q
<1>5. left.members[l] = ms /\ Sets(r.members)[l] = ToSet(r.members[l])
  BY <1>3 DEF Rels, Sets
<1>6. ToSet(ms) = {} <=> Sets(r.members)[l] \subseteq {a}
  BY <1>2, <1>5
<1>7. q.leader = LeadersWithout(r, l, {a})
  BY <1>3, <1>4, <1>5, <1>6 DEF LeadersWithout, Rels
<1>8. Sets(q.followers) = Without(Sets(r.followers), l, {a})
  <2>1. /\ q.followers = [r.followers EXCEPT ![l] = fs]
        /\ q.followers \in [Conn -> PlainLists] /\ r.followers \in [Conn -> PlainLists]
    BY <1>3, <1>4, MapTypes
  <2>2. QED
    BY <1>2, <2>1, ListWithout
<1>9. Sets(q.members) = Without(Sets(r.members), l, {a})
  <2>1. /\ q.members = [r.members EXCEPT ![l] = ms]
        /\ q.members \in [Conn -> PlainLists] /\ r.members \in [Conn -> PlainLists]
    BY <1>3, <1>4, MapTypes
  <2>2. QED
    BY <1>2, <2>1, ListWithout
<1>10. QED
  BY <1>1, <1>3, <1>4, <1>7, <1>8, <1>9

\* A member logs out: out of the member list of the leader.
LEMMA QuitsParty ==
  ASSUME NEW r \in Rels, NEW a \in Conn, NEW l \in Conn, r.leader[a] = l, l # a
  PROVE  LET q == QuitParty(r, a) IN
         /\ q \in Rels
         /\ q.follow = r.follow
         /\ q.followers = r.followers
         /\ q.leader = LeadersWithout(r, l, {a})
         /\ Sets(q.members) = Without(Sets(r.members), l, {a})
         /\ q.targets = [r.targets EXCEPT ![a] = {}]
<1> DEFINE ms == RemoveFirst(r.members[l], a)
           left == [r EXCEPT !.members[l] = ms, !.leader[a] = None, !.targets[a] = {}]
           q == DissolveIfEmpty(left, l)
<1>1. QuitParty(r, a) = q
  BY DEF QuitParty
<1>2. ms \in PlainLists /\ ToSet(ms) = ToSet(r.members[l]) \ {a}
  BY ListsArePlain, Removed DEF PlainLists, Plain
<1> HIDE DEF ms
<1>3. /\ left \in Rels
      /\ left.follow = r.follow /\ left.followers = r.followers
      /\ left.leader = [r.leader EXCEPT ![a] = None]
      /\ left.members = [r.members EXCEPT ![l] = ms]
      /\ left.targets = [r.targets EXCEPT ![a] = {}]
  BY <1>2 DEF Rels
<1> HIDE DEF left
<1>4. /\ q \in Rels
      /\ q.follow = left.follow /\ q.followers = left.followers
      /\ q.members = left.members /\ q.targets = left.targets
      /\ q.leader = IF ToSet(left.members[l]) = {} THEN [left.leader EXCEPT ![l] = None] ELSE left.leader
  <2>1. q \in Rels /\ Dissolved(q, left, l)
    BY <1>3, Dissolves
  <2> HIDE DEF q
  <2>2. QED
    BY <2>1 DEF Dissolved
<1> HIDE DEF q
<1>5. left.members[l] = ms /\ Sets(r.members)[l] = ToSet(r.members[l])
  BY <1>3 DEF Rels, Sets
<1>6. ToSet(ms) = {} <=> Sets(r.members)[l] \subseteq {a}
  BY <1>2, <1>5
<1>7. q.leader = LeadersWithout(r, l, {a})
  BY <1>3, <1>4, <1>5, <1>6 DEF LeadersWithout, Rels
<1>8. Sets(q.members) = Without(Sets(r.members), l, {a})
  <2>1. /\ q.members = [r.members EXCEPT ![l] = ms]
        /\ q.members \in [Conn -> PlainLists] /\ r.members \in [Conn -> PlainLists]
    BY <1>3, <1>4, MapTypes
  <2>2. QED
    BY <1>2, <2>1, ListWithout
<1>9. QED
  BY <1>1, <1>3, <1>4, <1>7, <1>8

\* The relations when l has removed the followers in gone.
Expelled(q, r, l, gone) ==
  /\ q.follow = [c \in Conn |-> IF c \in gone THEN None ELSE r.follow[c]]
  /\ Sets(q.followers) = Without(Sets(r.followers), l, gone)
  /\ q.leader = [c \in Conn |-> IF c \in gone \cap Sets(r.members)[l] THEN None ELSE r.leader[c]]
  /\ Sets(q.members) = Without(Sets(r.members), l, gone)
  /\ q.targets = [c \in Conn |-> IF c \in gone THEN {} ELSE r.targets[c]]

\* One follower removed: what it followed, its targets and its place in the party go.
LEMMA RemovesOne ==
  ASSUME NEW r \in Rels, NEW l \in Conn, NEW m \in Conn
  PROVE  LET q == RemoveFollower(r, l, m) IN
         q \in Rels /\ Expelled(q, r, l, {m} \cap Sets(r.followers)[l])
<1> DEFINE q == RemoveFollower(r, l, m)
           fs == RemoveFirst(r.followers[l], m)
           ms == RemoveFirst(r.members[l], m)
<1>1. /\ fs \in PlainLists /\ ToSet(fs) = ToSet(r.followers[l]) \ {m}
      /\ ms \in PlainLists /\ ToSet(ms) = ToSet(r.members[l]) \ {m}
  BY ListsArePlain, Removed DEF PlainLists, Plain
<1>2. /\ Contains(r.followers[l], m) <=> m \in ToSet(r.followers[l])
      /\ Contains(r.members[l], m) <=> m \in ToSet(r.members[l])
  BY ListsArePlain, ListAndSet DEF Plain
<1>3. /\ Sets(r.followers)[l] = ToSet(r.followers[l])
      /\ Sets(r.members)[l] = ToSet(r.members[l])
  BY DEF Sets
<1>4. CASE m \notin ToSet(r.followers[l])
  <2>1. q = r
    BY <1>2, <1>4 DEF RemoveFollower
  <2>2. {m} \cap Sets(r.followers)[l] = {}
    BY <1>3, <1>4
  <2>3. QED
    BY <2>1, <2>2, MapTypes DEF Expelled, Sets, Without
<1>5. CASE m \in ToSet(r.followers[l])
  <2> DEFINE cut == [r EXCEPT !.follow[m] = None, !.targets[m] = {}, !.followers[l] = fs]
  <2>1. {m} \cap Sets(r.followers)[l] = {m}
    BY <1>3, <1>5
  <2>2. /\ cut.members[l] = r.members[l]
        /\ q = IF Contains(r.members[l], m)
               THEN [cut EXCEPT !.leader[m] = None, !.members[l] = ms] ELSE cut
    BY <1>2, <1>5 DEF RemoveFollower, Rels
  <2> HIDE DEF q, fs, ms
  <2>3. /\ cut \in Rels
        /\ cut.follow = [r.follow EXCEPT ![m] = None]
        /\ cut.followers = [r.followers EXCEPT ![l] = fs]
        /\ cut.leader = r.leader /\ cut.members = r.members
        /\ cut.targets = [r.targets EXCEPT ![m] = {}]
    BY <1>1 DEF Rels
  <2> HIDE DEF cut
  <2>4. /\ q \in Rels
        /\ q.follow = cut.follow /\ q.followers = cut.followers /\ q.targets = cut.targets
        /\ m \in ToSet(r.members[l]) =>
             q.leader = [r.leader EXCEPT ![m] = None] /\ q.members = [r.members EXCEPT ![l] = ms]
        /\ m \notin ToSet(r.members[l]) => q.leader = r.leader /\ q.members = r.members
    <3>1. CASE m \in ToSet(r.members[l])
      <4>1. q = [cut EXCEPT !.leader[m] = None, !.members[l] = ms]
        BY <1>2, <2>2, <3>1
      <4>2. QED
        BY <1>1, <2>3, <3>1, <4>1 DEF Rels
    <3>2. CASE m \notin ToSet(r.members[l])
      <4>1. q = cut
        BY <1>2, <2>2, <3>2
      <4>2. QED
        BY <2>3, <3>2, <4>1
    <3>3. QED
      BY <3>1, <3>2
  <2>5. /\ q.follow = [c \in Conn |-> IF c \in {m} THEN None ELSE r.follow[c]]
        /\ q.targets = [c \in Conn |-> IF c \in {m} THEN {} ELSE r.targets[c]]
    <3>1. r.follow \in [Conn -> Conn \cup {None}] /\ r.targets \in [Conn -> SUBSET Mob]
      BY MapTypes
    <3>2. q.follow = [r.follow EXCEPT ![m] = None] /\ q.targets = [r.targets EXCEPT ![m] = {}]
      BY <2>3, <2>4
    <3>3. QED
      BY <3>1, <3>2
  <2>6. Sets(q.followers) = Without(Sets(r.followers), l, {m})
    BY <1>1, <2>3, <2>4, MapTypes, ListWithout
  <2>7. q.leader = [c \in Conn |-> IF c \in {m} \cap Sets(r.members)[l] THEN None ELSE r.leader[c]]
    <3>1. CASE m \in ToSet(r.members[l])
      BY <1>3, <2>4, <3>1 DEF Rels
    <3>2. CASE m \notin ToSet(r.members[l])
      BY <1>3, <2>4, <3>2 DEF Rels
    <3>3. QED
      BY <3>1, <3>2
  <2>8. Sets(q.members) = Without(Sets(r.members), l, {m})
    <3>1. CASE m \in ToSet(r.members[l])
      BY <1>1, <2>4, <3>1, MapTypes, ListWithout
    <3>2. CASE m \notin ToSet(r.members[l])
      BY <1>3, <2>4, <3>2, MapTypes, ListWithout
    <3>3. QED
      BY <3>1, <3>2
  <2>9. QED
    BY <2>1, <2>4, <2>5, <2>6, <2>7, <2>8 DEF Expelled, q
<1>6. QED
  BY <1>4, <1>5

-----------------------------------------------------------------------------
(* Loops *)

\* What holds before a loop and is kept by each of its n turns, for the turns
\* in a set.
LEMMA TurnByTurn ==
  ASSUME NEW n \in Nat, NEW S, 0 \in S, \A i \in 1..n : i - 1 \in S => i \in S
  PROVE  0..n \subseteq S
<1> DEFINE T == {k \in Nat : k <= n => k \in S}
<1>1. 0 \in T
  OBVIOUS
<1>2. ASSUME NEW k \in Nat, k \in T PROVE k + 1 \in T
  <2> SUFFICES ASSUME k + 1 <= n PROVE k + 1 \in S
    OBVIOUS
  <2>1. k \in S /\ k + 1 \in 1..n /\ (k + 1) - 1 = k
    BY <1>2
  <2>2. QED
    BY <2>1
<1> HIDE DEF T
<1>3. Nat \subseteq T
  BY <1>1, <1>2, NaturalsUp
<1>4. QED
  BY <1>3 DEF T

\* What the n turns of a loop do to a state.
Loops(X, n) == [1..n -> [X -> X]]

\* A loop of n turns goes through n + 1 states: there is a function with the
\* equations of its stages.
LEMMA StagesExist ==
  ASSUME NEW X, NEW x \in X, NEW n \in Nat, NEW turn \in Loops(X, n)
  PROVE  \E g : /\ g \in [0..n -> X] /\ g[0] = x
                /\ \A i \in 1..n : g[i] = turn[i][g[i - 1]]
<1> USE DEF Loops
<1> DEFINE Good(g, k) == /\ g \in [0..k -> X]
                         /\ g[0] = x
                         /\ \A i \in 1..k : g[i] = turn[i][g[i - 1]]
           S == {k \in 0..n : \E g : Good(g, k)}
<1>1. 0 \in S
  <2>1. Good([i \in 0..0 |-> x], 0)
    OBVIOUS
  <2> HIDE DEF Good
  <2>2. QED
    BY <2>1
<1>2. ASSUME NEW m \in 1..n, m - 1 \in S PROVE m \in S
  <2>1. PICK g : Good(g, m - 1)
    BY <1>2
  <2> DEFINE new == turn[m][g[m - 1]]
             h == [i \in 0..m |-> IF i = m THEN new ELSE g[i]]
  <2>2. g \in [0..(m - 1) -> X] /\ g[0] = x /\ \A i \in 1..(m - 1) : g[i] = turn[i][g[i - 1]]
    BY <2>1
  <2>3. g[m - 1] \in X /\ turn[m] \in [X -> X]
    BY <2>2
  <2>4. new \in X
    BY <2>3
  <2>5. h \in [0..m -> X]
    <3> HIDE DEF new
    <3>1. QED
      BY <2>2, <2>4
  <2>6. h[0] = x
    BY <2>2
  <2>7. ASSUME NEW i \in 1..m PROVE h[i] = turn[i][h[i - 1]]
    <3>1. i - 1 \in 0..m /\ i - 1 # m /\ h[i - 1] = g[i - 1]
      OBVIOUS
    <3>2. CASE i = m
      BY <3>1, <3>2
    <3>3. CASE i # m
      <4>1. i \in 1..(m - 1) /\ h[i] = g[i]
        BY <3>3
      <4>2. QED
        BY <2>2, <3>1, <4>1
    <3>4. QED
      BY <3>2, <3>3
  <2> HIDE DEF h
  <2>8. Good(h, m)
    BY <2>5, <2>6, <2>7
  <2>9. QED
    BY <2>8
<1>3. n \in S
  <2> HIDE DEF S
  <2>1. 0..n \subseteq S
    BY <1>1, <1>2, TurnByTurn
  <2>2. QED
    BY <2>1
<1>4. QED
  BY <1>3

\* The stages in which the followers of a list stop following.
FreeStages(g, r, list) ==
  /\ g \in [0..Len(list) -> Rels]
  /\ g[0] = r
  /\ \A i \in 1..Len(list) : g[i] = StopFollowing(g[i - 1], list[i])

\* FreeEach is a function with these stages.
LEMMA FreeDefined ==
  ASSUME NEW r \in Rels, NEW list \in Seq(Conn)
  PROVE  \E g : FreeStages(g, r, list) /\ FreeEach(r, list) = g[Len(list)]
<1> DEFINE n == Len(list)
           turn == [i \in 1..n |-> [q \in Rels |-> StopFollowing(q, list[i])]]
           Equation(g) == g = [i \in 0..n |->
             IF i = 0 THEN r ELSE StopFollowing(g[i - 1], list[i])]
           after == CHOOSE g : Equation(g)
<1>1. n \in Nat
  OBVIOUS
<1>2. ASSUME NEW i \in 1..n, NEW q \in Rels PROVE StopFollowing(q, list[i]) \in Rels
  <2>1. list[i] \in Conn
    OBVIOUS
  <2>2. QED
    BY <2>1, StopsFollowing
<1>3. turn \in Loops(Rels, n)
  BY <1>2 DEF Loops
<1>4. \A i \in 1..n, q \in Rels : turn[i][q] = StopFollowing(q, list[i])
  OBVIOUS
<1> HIDE DEF turn, n, after, Equation
<1>5. PICK g : g \in [0..n -> Rels] /\ g[0] = r /\ \A i \in 1..n : g[i] = turn[i][g[i - 1]]
  BY <1>1, <1>3, StagesExist
<1>6. \A i \in 1..n : i - 1 \in 0..n /\ g[i - 1] \in Rels
  BY <1>1, <1>5
<1>7. Equation(g)
  BY <1>1, <1>4, <1>5, <1>6 DEF Equation
<1>8. Equation(after)
  BY <1>7 DEF after
<1>9. FreeEach(r, list) = after[n]
  BY DEF FreeEach, Equation, after, n
<1>10. after[0] = r /\ \A i \in 1..n : after[i] = StopFollowing(after[i - 1], list[i])
  BY <1>1, <1>8 DEF Equation
<1>11. 0..n \subseteq {i \in 0..n : after[i] \in Rels}
  <2> DEFINE S == {i \in 0..n : after[i] \in Rels}
  <2>1. 0 \in S /\ \A i \in 1..n : i - 1 \in S => i \in S
    BY <1>1, <1>2, <1>10
  <2> HIDE DEF S
  <2>2. 0..n \subseteq S
    BY <1>1, <2>1, TurnByTurn
  <2>3. QED
    BY <2>2 DEF S
<1>12. after \in [0..n -> Rels]
  BY <1>8, <1>11 DEF Equation
<1>13. QED
  BY <1>9, <1>10, <1>12 DEF FreeStages, n

\* The first i of a list.
UpTo(list, i) == {list[j] : j \in 1..i}

\* What has been seen of a list, place by place, up to all of it.
LEMMA OneMore ==
  ASSUME NEW list \in Seq(Conn)
  PROVE  /\ UpTo(list, 0) = {}
         /\ \A i \in 1..Len(list) : /\ list[i] \in Conn
                                    /\ UpTo(list, i) = UpTo(list, i - 1) \cup {list[i]}
         /\ UpTo(list, Len(list)) = ToSet(list)
         /\ ToSet(list) \subseteq Conn
<1>1. UpTo(list, 0) = {}
  BY DEF UpTo
<1>2. ASSUME NEW i \in 1..Len(list)
      PROVE  list[i] \in Conn /\ UpTo(list, i) = UpTo(list, i - 1) \cup {list[i]}
  <2>1. \A j : j \in 1..i <=> j \in 1..(i - 1) \/ j = i
    OBVIOUS
  <2>2. QED
    BY <2>1 DEF UpTo
<1>3. UpTo(list, Len(list)) = ToSet(list)
  BY DEF UpTo, ToSet
<1>4. QED
  BY <1>1, <1>2, <1>3, ListAndSet

\* The relations when those in cut follow nobody any more.
Cut(q, r, cut) ==
  /\ SameParty(q, r)
  /\ q.follow = [c \in Conn |-> IF c \in cut THEN None ELSE r.follow[c]]
  /\ Sets(q.followers) = [c \in Conn |->
       {f \in Sets(r.followers)[c] : ~(f \in cut /\ r.follow[f] = c)}]

\* One more stops following.
LEMMA CutOneMore ==
  ASSUME NEW r \in Rels, NEW q \in Rels, NEW a \in Conn, NEW cut, Cut(q, r, cut)
  PROVE  Cut(StopFollowing(q, a), r, cut \cup {a})
<1> DEFINE p == StopFollowing(q, a)
<1>1. /\ p \in Rels /\ SameParty(p, q)
      /\ p.follow = [q.follow EXCEPT ![a] = None]
      /\ Sets(p.followers) = [c \in Conn |->
           IF c = q.follow[a] THEN Sets(q.followers)[c] \ {a} ELSE Sets(q.followers)[c]]
  BY StopsFollowing
<1> HIDE DEF p
<1>2. SameParty(p, r)
  BY <1>1 DEF SameParty, Cut
<1>3. p.follow = [c \in Conn |-> IF c \in cut \cup {a} THEN None ELSE r.follow[c]]
  BY <1>1, MapTypes DEF Cut
<1>4. q.follow[a] = IF a \in cut THEN None ELSE r.follow[a]
  BY DEF Cut
<1>5. ASSUME NEW c \in Conn
      PROVE  Sets(p.followers)[c] = {f \in Sets(r.followers)[c] : ~(f \in cut \cup {a} /\ r.follow[f] = c)}
  <2>1. c # None
    BY ListsAssumption
  <2>2. Sets(q.followers)[c] = {f \in Sets(r.followers)[c] : ~(f \in cut /\ r.follow[f] = c)}
    BY DEF Cut
  <2>3. Sets(p.followers)[c] = IF c = q.follow[a] THEN Sets(q.followers)[c] \ {a} ELSE Sets(q.followers)[c]
    BY <1>1
  <2>4. QED
    BY <1>4, <2>1, <2>2, <2>3
<1>6. Sets(p.followers) = [c \in Conn |-> Sets(p.followers)[c]]
  BY DEF Sets
<1>7. QED
  BY <1>2, <1>3, <1>5, <1>6 DEF Cut, p

\* After the loop everybody in the list follows nobody.
LEMMA Freed ==
  ASSUME NEW r \in Rels, NEW list \in Seq(Conn)
  PROVE  /\ FreeEach(r, list) \in Rels
         /\ Cut(FreeEach(r, list), r, ToSet(list))
<1> DEFINE n == Len(list)
<1>1. PICK g : FreeStages(g, r, list) /\ FreeEach(r, list) = g[n]
  BY FreeDefined
<1>2. n \in Nat /\ n \in 0..n
  OBVIOUS
<1> DEFINE S == {i \in 0..n : Cut(g[i], r, UpTo(list, i))}
<1>3. 0 \in S
  <2>1. Cut(r, r, {})
    BY MapTypes DEF Cut, SameParty, Sets
  <2>2. QED
    BY <1>1, <1>2, <2>1, OneMore DEF FreeStages
<1>4. ASSUME NEW i \in 1..n, i - 1 \in S PROVE i \in S
  <2>1. /\ g[i - 1] \in Rels /\ list[i] \in Conn
        /\ g[i] = StopFollowing(g[i - 1], list[i])
    BY <1>1 DEF FreeStages
  <2>2. Cut(g[i], r, UpTo(list, i - 1) \cup {list[i]})
    BY <1>4, <2>1, CutOneMore
  <2>3. UpTo(list, i) = UpTo(list, i - 1) \cup {list[i]}
    BY OneMore
  <2>4. i \in 0..n /\ Cut(g[i], r, UpTo(list, i))
    BY <2>2, <2>3
  <2>5. QED
    BY <2>4
<1> HIDE DEF S
<1>5. 0..n \subseteq S
  BY <1>2, <1>3, <1>4, TurnByTurn
<1>6. Cut(g[n], r, UpTo(list, n))
  BY <1>2, <1>5 DEF S
<1>7. g[n] \in Rels
  BY <1>1, <1>2 DEF FreeStages
<1>8. QED
  BY <1>1, <1>6, <1>7, OneMore

\* The stages in which the followers of a list are removed by l.
RemoveStages(g, r, l, list) ==
  /\ g \in [0..Len(list) -> Rels]
  /\ g[0] = r
  /\ \A i \in 1..Len(list) : g[i] = RemoveFollower(g[i - 1], l, list[i])

\* RemoveEach is a function with these stages.
LEMMA RemoveDefined ==
  ASSUME NEW r \in Rels, NEW l \in Conn, NEW list \in Seq(Conn)
  PROVE  \E g : RemoveStages(g, r, l, list) /\ RemoveEach(r, l, list) = g[Len(list)]
<1> DEFINE n == Len(list)
           turn == [i \in 1..n |-> [q \in Rels |-> RemoveFollower(q, l, list[i])]]
           Equation(g) == g = [i \in 0..n |->
             IF i = 0 THEN r ELSE RemoveFollower(g[i - 1], l, list[i])]
           after == CHOOSE g : Equation(g)
<1>1. n \in Nat
  OBVIOUS
<1>2. ASSUME NEW i \in 1..n, NEW q \in Rels PROVE RemoveFollower(q, l, list[i]) \in Rels
  <2>1. list[i] \in Conn
    OBVIOUS
  <2>2. QED
    BY <2>1, RemovesOne
<1>3. turn \in Loops(Rels, n)
  BY <1>2 DEF Loops
<1>4. \A i \in 1..n, q \in Rels : turn[i][q] = RemoveFollower(q, l, list[i])
  OBVIOUS
<1> HIDE DEF turn, n, after, Equation
<1>5. PICK g : g \in [0..n -> Rels] /\ g[0] = r /\ \A i \in 1..n : g[i] = turn[i][g[i - 1]]
  BY <1>1, <1>3, StagesExist
<1>6. \A i \in 1..n : i - 1 \in 0..n /\ g[i - 1] \in Rels
  BY <1>1, <1>5
<1>7. Equation(g)
  BY <1>1, <1>4, <1>5, <1>6 DEF Equation
<1>8. Equation(after)
  BY <1>7 DEF after
<1>9. RemoveEach(r, l, list) = after[n]
  BY DEF RemoveEach, Equation, after, n
<1>10. after[0] = r /\ \A i \in 1..n : after[i] = RemoveFollower(after[i - 1], l, list[i])
  BY <1>1, <1>8 DEF Equation
<1>11. 0..n \subseteq {i \in 0..n : after[i] \in Rels}
  <2> DEFINE S == {i \in 0..n : after[i] \in Rels}
  <2>1. 0 \in S /\ \A i \in 1..n : i - 1 \in S => i \in S
    BY <1>1, <1>2, <1>10
  <2> HIDE DEF S
  <2>2. 0..n \subseteq S
    BY <1>1, <2>1, TurnByTurn
  <2>3. QED
    BY <2>2 DEF S
<1>12. after \in [0..n -> Rels]
  BY <1>8, <1>11 DEF Equation
<1>13. QED
  BY <1>9, <1>10, <1>12 DEF RemoveStages, n

\* ... those in some who were in the list.
ExpelledAmong(q, r, l, some) == Expelled(q, r, l, some \cap Sets(r.followers)[l])

\* One more of the requested is removed.
LEMMA ExpelledOneMore ==
  ASSUME NEW r \in Rels, NEW q \in Rels, NEW l \in Conn, NEW m \in Conn, NEW some,
         ExpelledAmong(q, r, l, some)
  PROVE  ExpelledAmong(RemoveFollower(q, l, m), r, l, some \cup {m})
<1> DEFINE p == RemoveFollower(q, l, m)
           F == Sets(r.followers)[l]
           M == Sets(r.members)[l]
           old == some \cap F
           new == (some \cup {m}) \cap F
           gone == {m} \cap Sets(q.followers)[l]
<1>1. /\ p.follow = [c \in Conn |-> IF c \in gone THEN None ELSE q.follow[c]]
      /\ Sets(p.followers) = Without(Sets(q.followers), l, gone)
      /\ p.leader = [c \in Conn |-> IF c \in gone \cap Sets(q.members)[l] THEN None ELSE q.leader[c]]
      /\ Sets(p.members) = Without(Sets(q.members), l, gone)
      /\ p.targets = [c \in Conn |-> IF c \in gone THEN {} ELSE q.targets[c]]
  <2>1. Expelled(p, q, l, gone)
    BY RemovesOne
  <2>2. QED
    BY <2>1 DEF Expelled
<1>2. Sets(q.followers)[l] = F \ old /\ Sets(q.members)[l] = M \ old
  BY DEF ExpelledAmong, Expelled, Without
<1>3. new = old \cup gone
  BY <1>2
<1> HIDE DEF p, old, new, gone, F, M
<1>4. /\ q.follow = [c \in Conn |-> IF c \in old THEN None ELSE r.follow[c]]
      /\ Sets(q.followers) = Without(Sets(r.followers), l, old)
      /\ q.leader = [c \in Conn |-> IF c \in old \cap M THEN None ELSE r.leader[c]]
      /\ Sets(q.members) = Without(Sets(r.members), l, old)
      /\ q.targets = [c \in Conn |-> IF c \in old THEN {} ELSE r.targets[c]]
  BY DEF ExpelledAmong, Expelled, old, F, M
<1>5. /\ p.follow = [c \in Conn |-> IF c \in new THEN None ELSE r.follow[c]]
      /\ p.targets = [c \in Conn |-> IF c \in new THEN {} ELSE r.targets[c]]
  BY <1>1, <1>3, <1>4
<1>6. p.leader = [c \in Conn |-> IF c \in new \cap M THEN None ELSE r.leader[c]]
  BY <1>1, <1>2, <1>3, <1>4
<1>7. /\ Sets(p.followers) = Without(Sets(r.followers), l, new)
      /\ Sets(p.members) = Without(Sets(r.members), l, new)
  <2>1. \A sets, A, B : Without(Without(sets, l, A), l, B) = Without(sets, l, A \cup B)
    BY DEF Without
  <2>2. QED
    BY <1>1, <1>3, <1>4, <2>1
<1>8. QED
  BY <1>5, <1>6, <1>7 DEF ExpelledAmong, Expelled, p, new, F, M

\* After the loop all those requested who were in the list are removed.
LEMMA RemovedEach ==
  ASSUME NEW r \in Rels, NEW l \in Conn, NEW list \in Seq(Conn)
  PROVE  /\ RemoveEach(r, l, list) \in Rels
         /\ Expelled(RemoveEach(r, l, list), r, l, ToSet(list) \cap Sets(r.followers)[l])
<1> DEFINE n == Len(list)
<1>1. PICK g : RemoveStages(g, r, l, list) /\ RemoveEach(r, l, list) = g[n]
  BY RemoveDefined
<1>2. n \in Nat /\ n \in 0..n
  OBVIOUS
<1> DEFINE S == {i \in 0..n : ExpelledAmong(g[i], r, l, UpTo(list, i))}
<1>3. 0 \in S
  <2>1. Expelled(r, r, l, {})
    <3>1. /\ Sets(r.followers) = Without(Sets(r.followers), l, {})
          /\ Sets(r.members) = Without(Sets(r.members), l, {})
      BY DEF Without, Sets
    <3>2. QED
      BY <3>1, MapTypes DEF Expelled
  <2>2. UpTo(list, 0) = {} /\ g[0] = r /\ 0 \in 0..n
    BY <1>1, <1>2, OneMore DEF RemoveStages
  <2>3. QED
    BY <2>1, <2>2 DEF ExpelledAmong
<1>4. ASSUME NEW i \in 1..n, i - 1 \in S PROVE i \in S
  <2>1. /\ g[i - 1] \in Rels /\ list[i] \in Conn
        /\ g[i] = RemoveFollower(g[i - 1], l, list[i])
    BY <1>1 DEF RemoveStages
  <2>2. ExpelledAmong(g[i], r, l, UpTo(list, i - 1) \cup {list[i]})
    <3>1. ExpelledAmong(g[i - 1], r, l, UpTo(list, i - 1))
      BY <1>4
    <3>2. QED
      BY <2>1, <3>1, ExpelledOneMore
  <2>3. UpTo(list, i) = UpTo(list, i - 1) \cup {list[i]}
    BY OneMore
  <2>4. i \in 0..n /\ ExpelledAmong(g[i], r, l, UpTo(list, i))
    BY <2>2, <2>3
  <2>5. QED
    BY <2>4
<1> HIDE DEF S
<1>5. 0..n \subseteq S
  BY <1>2, <1>3, <1>4, TurnByTurn
<1>6. ExpelledAmong(g[n], r, l, UpTo(list, n))
  BY <1>2, <1>5 DEF S
<1>7. g[n] \in Rels
  BY <1>1, <1>2 DEF RemoveStages
<1>8. QED
  BY <1>1, <1>6, <1>7, OneMore DEF ExpelledAmong

\* A connection that leads a party.
Leads(r, l) == [r EXCEPT !.leader[l] = l]

\* Those of seen whom l may take into its party.
Eligible(r, l, seen) == {m \in seen : r.follow[m] = l /\ r.leader[m] = None /\ m # l}

\* The relations when those who entered are in the party of l, of those seen: all
\* who may, unless the party is full.
Entered(q, r, l, seen, entered) ==
  /\ entered \subseteq Eligible(r, l, seen)
  /\ q.follow = r.follow /\ q.followers = r.followers /\ q.targets = r.targets
  /\ q.leader = [c \in Conn |-> IF c \in entered \cup {l} THEN l ELSE r.leader[c]]
  /\ Sets(q.members) = [c \in Conn |->
       IF c = l THEN Sets(r.members)[c] \cup entered ELSE Sets(r.members)[c]]
  /\ entered # {} => Len(q.members[l]) < MaxParty
  /\ entered # Eligible(r, l, seen) => Len(q.members[l]) + 1 >= MaxParty

EnteredSome(q, r, l, seen) == \E entered : Entered(q, r, l, seen, entered)

\* Whether m enters the party of l, and what changes then.
Enters(r, l, m) == Len(r.members[l]) + 1 < MaxParty /\ r.follow[m] = l /\ r.leader[m] = None

Gains(q, r, l, m) ==
  /\ q.follow = r.follow /\ q.followers = r.followers /\ q.targets = r.targets
  /\ q.leader = [r.leader EXCEPT ![m] = l]
  /\ \A c \in Conn : ToSet(q.members[c]) =
       IF c = l THEN ToSet(r.members[c]) \cup {m} ELSE ToSet(r.members[c])
  /\ Len(q.members[l]) < MaxParty

\* One who enters: its leader and its place in the list.
LEMMA AddsOne ==
  ASSUME NEW r \in Rels, NEW l \in Conn, NEW m \in Conn
  PROVE  LET q == AddMember(r, l, m) IN
         /\ q \in Rels
         /\ Len(r.members[l]) \in Nat
         /\ ~Enters(r, l, m) => q = r
         /\ Enters(r, l, m) => Gains(q, r, l, m)
<1> DEFINE q == AddMember(r, l, m)
           s == IF Contains(r.members[l], m) THEN r.members[l] ELSE Append(r.members[l], m)
<1>1. Plain(r.members[l]) /\ r.members[l] \in Seq(Conn) /\ Len(r.members[l]) \in Nat
  BY ListsArePlain DEF Plain
<1>2. CASE ~Enters(r, l, m)
  <2>1. Len(r.members[l]) + 1 >= MaxParty \/ r.follow[m] # l \/ r.leader[m] # None
    BY <1>1, <1>2, ListsAssumption DEF Enters
  <2>2. q = r
    BY <2>1 DEF AddMember
  <2>3. QED
    BY <1>1, <1>2, <2>2
<1>3. CASE Enters(r, l, m)
  <2>1. q = [r EXCEPT !.leader[m] = l, !.members[l] = s]
    BY <1>1, <1>3, ListsAssumption DEF Enters, AddMember
  <2>2. /\ s \in PlainLists
        /\ ToSet(s) = ToSet(r.members[l]) \cup {m}
        /\ Len(s) < MaxParty
    <3>1. CASE Contains(r.members[l], m)
      BY <1>1, <1>3, <3>1, ListAndSet, ListsAssumption DEF Enters, PlainLists
    <3>2. CASE ~Contains(r.members[l], m)
      <4>1. m \notin ToSet(r.members[l])
        BY <1>1, <3>2, ListAndSet
      <4>2. s = Append(r.members[l], m)
        BY <3>2
      <4> HIDE DEF s
      <4>3. /\ Plain(s) /\ ToSet(s) = ToSet(r.members[l]) \cup {m}
            /\ Len(s) = Len(r.members[l]) + 1
        BY <1>1, <4>1, <4>2, Appended
      <4>4. QED
        BY <1>3, <4>3 DEF Enters, PlainLists, Plain
    <3>3. QED
      BY <3>1, <3>2
  <2> HIDE DEF q, s
  <2>3. /\ q \in Rels
        /\ q.follow = r.follow /\ q.followers = r.followers /\ q.targets = r.targets
        /\ q.leader = [r.leader EXCEPT ![m] = l]
        /\ q.members = [r.members EXCEPT ![l] = s]
    BY <2>1, <2>2 DEF Rels
  <2>4. q.members[l] = s /\ \A c \in Conn \ {l} : q.members[c] = r.members[c]
    BY <2>3, MapTypes
  <2>5. QED
    BY <1>1, <1>3, <2>2, <2>3, <2>4 DEF Gains, q
<1>4. QED
  BY <1>2, <1>3

\* The stages in which those of a list enter the party of l.
AddStages(g, r, l, list) ==
  /\ g \in [0..Len(list) -> Rels]
  /\ g[0] = Leads(r, l)
  /\ \A i \in 1..Len(list) : g[i] = AddMember(g[i - 1], l, list[i])

\* The loop of AddPartyMembers is a function with these stages.
LEMMA AddDefined ==
  ASSUME NEW r \in Rels, NEW l \in Conn, NEW list \in Seq(Conn)
  PROVE  \E g : AddStages(g, r, l, list) /\ AddPartyMembers(r, l, list) = g[Len(list)]
<1> DEFINE n == Len(list)
           turn == [i \in 1..n |-> [q \in Rels |-> AddMember(q, l, list[i])]]
           Equation(g) == g = [i \in 0..n |->
             IF i = 0 THEN Leads(r, l) ELSE AddMember(g[i - 1], l, list[i])]
           after == CHOOSE g : Equation(g)
<1>1. n \in Nat /\ Leads(r, l) \in Rels
  BY DEF Leads, Rels
<1>2. ASSUME NEW i \in 1..n, NEW q \in Rels PROVE AddMember(q, l, list[i]) \in Rels
  <2>1. list[i] \in Conn
    OBVIOUS
  <2>2. QED
    BY <2>1, AddsOne
<1>3. turn \in Loops(Rels, n)
  BY <1>2 DEF Loops
<1>4. \A i \in 1..n, q \in Rels : turn[i][q] = AddMember(q, l, list[i])
  OBVIOUS
<1> HIDE DEF turn, n, after, Equation
<1>5. PICK g : g \in [0..n -> Rels] /\ g[0] = Leads(r, l) /\ \A i \in 1..n : g[i] = turn[i][g[i - 1]]
  BY <1>1, <1>3, StagesExist
<1>6. \A i \in 1..n : i - 1 \in 0..n /\ g[i - 1] \in Rels
  BY <1>1, <1>5
<1>7. Equation(g)
  BY <1>1, <1>4, <1>5, <1>6 DEF Equation
<1>8. Equation(after)
  BY <1>7 DEF after
<1>9. AddPartyMembers(r, l, list) = after[n]
  BY DEF AddPartyMembers, Equation, after, n, Leads
<1>10. after[0] = Leads(r, l) /\ \A i \in 1..n : after[i] = AddMember(after[i - 1], l, list[i])
  BY <1>1, <1>8 DEF Equation
<1>11. 0..n \subseteq {i \in 0..n : after[i] \in Rels}
  <2> DEFINE S == {i \in 0..n : after[i] \in Rels}
  <2>1. 0 \in S /\ \A i \in 1..n : i - 1 \in S => i \in S
    BY <1>1, <1>2, <1>10
  <2> HIDE DEF S
  <2>2. 0..n \subseteq S
    BY <1>1, <2>1, TurnByTurn
  <2>3. QED
    BY <2>2 DEF S
<1>12. after \in [0..n -> Rels]
  BY <1>8, <1>11 DEF Equation
<1>13. QED
  BY <1>9, <1>10, <1>12 DEF AddStages, n

\* Another one is seen.
LEMMA EnteredOneMore ==
  ASSUME NEW r \in Rels, NEW q \in Rels, NEW l \in Conn, NEW m \in Conn, NEW seen,
         EnteredSome(q, r, l, seen)
  PROVE  EnteredSome(AddMember(q, l, m), r, l, seen \cup {m})
<1> DEFINE p == AddMember(q, l, m)
<1> PICK entered : Entered(q, r, l, seen, entered)
  BY DEF EnteredSome
<1>1. /\ Len(q.members[l]) \in Nat
      /\ ~Enters(q, l, m) => p = q
      /\ Enters(q, l, m) => Gains(p, q, l, m)
  BY AddsOne
<1> HIDE DEF p
<1>2. Eligible(r, l, seen \cup {m}) =
        Eligible(r, l, seen) \cup (IF r.follow[m] = l /\ r.leader[m] = None /\ m # l THEN {m} ELSE {})
  BY DEF Eligible
<1>3. q.follow[m] = r.follow[m] /\ q.leader[m] = IF m \in entered \cup {l} THEN l ELSE r.leader[m]
  BY DEF Entered
<1>4. CASE Len(q.members[l]) + 1 >= MaxParty
  <2>1. p = q
    BY <1>1, <1>4, ListsAssumption DEF Enters
  <2>2. entered \subseteq Eligible(r, l, seen \cup {m})
    BY <1>2 DEF Entered
  <2>3. QED
    BY <1>4, <2>1, <2>2 DEF EnteredSome, Entered, p
<1>5. CASE Len(q.members[l]) + 1 < MaxParty /\ ~Enters(q, l, m)
  <2>1. p = q
    BY <1>1, <1>5
  <2>2. entered = Eligible(r, l, seen)
    BY <1>1, <1>5, ListsAssumption DEF Entered
  <2>3. Eligible(r, l, seen \cup {m}) = Eligible(r, l, seen)
    BY <1>2, <1>3, <1>5, <2>2, ListsAssumption DEF Enters
  <2>4. QED
    BY <2>1, <2>3 DEF EnteredSome, Entered, p
<1>6. CASE Enters(q, l, m)
  <2>1. m \notin entered /\ m # l /\ r.follow[m] = l /\ r.leader[m] = None
    BY <1>3, <1>6, ListsAssumption DEF Enters
  <2>2. entered = Eligible(r, l, seen)
    BY <1>1, <1>6, ListsAssumption DEF Enters, Entered
  <2>3. Eligible(r, l, seen \cup {m}) = entered \cup {m}
    BY <1>2, <2>1, <2>2
  <2>4. p.leader = [c \in Conn |-> IF c \in (entered \cup {m}) \cup {l} THEN l ELSE r.leader[c]]
    BY <1>1, <1>6 DEF Gains, Entered
  <2>5. Sets(p.members) = [c \in Conn |->
          IF c = l THEN Sets(r.members)[c] \cup (entered \cup {m}) ELSE Sets(r.members)[c]]
    <3>1. Sets(p.members) = [c \in Conn |->
            IF c = l THEN Sets(q.members)[c] \cup {m} ELSE Sets(q.members)[c]]
      BY <1>1, <1>6 DEF Gains, Sets
    <3>2. QED
      BY <3>1 DEF Entered
  <2>6. p.follow = r.follow /\ p.followers = r.followers /\ p.targets = r.targets
    BY <1>1, <1>6 DEF Gains, Entered
  <2>7. Entered(p, r, l, seen \cup {m}, entered \cup {m})
    BY <1>1, <1>6, <2>3, <2>4, <2>5, <2>6 DEF Gains, Entered
  <2>8. QED
    BY <2>7 DEF EnteredSome, p
<1>7. Len(q.members[l]) + 1 >= MaxParty \/ Len(q.members[l]) + 1 < MaxParty
  BY <1>1, ListsAssumption
<1>8. QED
  BY <1>4, <1>5, <1>6, <1>7

\* After the loop the first who may enter have entered, as long as there was room.
LEMMA Added ==
  ASSUME NEW r \in Rels, NEW l \in Conn, NEW list \in Seq(Conn)
  PROVE  /\ AddPartyMembers(r, l, list) \in Rels
         /\ EnteredSome(AddPartyMembers(r, l, list), r, l, ToSet(list))
<1> DEFINE n == Len(list)
<1>1. PICK g : AddStages(g, r, l, list) /\ AddPartyMembers(r, l, list) = g[n]
  BY AddDefined
<1>2. n \in Nat /\ n \in 0..n
  OBVIOUS
<1> DEFINE S == {i \in 0..n : EnteredSome(g[i], r, l, UpTo(list, i))}
<1>3. 0 \in S
  <2> DEFINE q == Leads(r, l)
  <2>1. q.follow = r.follow /\ q.followers = r.followers /\ q.targets = r.targets /\ q.members = r.members
    BY DEF Leads, Rels
  <2>2. q.leader = [c \in Conn |-> IF c \in {} \cup {l} THEN l ELSE r.leader[c]]
    BY DEF Leads, Rels
  <2>3. Eligible(r, l, {}) = {}
    BY DEF Eligible
  <2>4. Sets(q.members) = [c \in Conn |-> IF c = l THEN Sets(r.members)[c] \cup {} ELSE Sets(r.members)[c]]
    BY <2>1 DEF Sets
  <2> HIDE DEF q
  <2>5. Entered(q, r, l, {}, {})
    BY <2>1, <2>2, <2>3, <2>4 DEF Entered
  <2>6. UpTo(list, 0) = {} /\ g[0] = q /\ 0 \in 0..n
    BY <1>1, <1>2, OneMore DEF AddStages, q
  <2>7. QED
    BY <2>5, <2>6 DEF EnteredSome
<1>4. ASSUME NEW i \in 1..n, i - 1 \in S PROVE i \in S
  <2>1. /\ g[i - 1] \in Rels /\ list[i] \in Conn
        /\ g[i] = AddMember(g[i - 1], l, list[i])
    BY <1>1 DEF AddStages
  <2>3. EnteredSome(g[i - 1], r, l, UpTo(list, i - 1))
    BY <1>4
  <2>4. EnteredSome(g[i], r, l, UpTo(list, i - 1) \cup {list[i]})
    BY <2>1, <2>3, EnteredOneMore
  <2>5. UpTo(list, i) = UpTo(list, i - 1) \cup {list[i]}
    BY OneMore
  <2>6. i \in 0..n /\ EnteredSome(g[i], r, l, UpTo(list, i))
    BY <2>4, <2>5
  <2>7. QED
    BY <2>6
<1> HIDE DEF S
<1>5. 0..n \subseteq S
  BY <1>2, <1>3, <1>4, TurnByTurn
<1>6. EnteredSome(g[n], r, l, UpTo(list, n))
  BY <1>2, <1>5 DEF S
<1>7. g[n] \in Rels
  BY <1>1, <1>2 DEF AddStages
<1>8. QED
  BY <1>1, <1>6, <1>7, OneMore

-----------------------------------------------------------------------------
(* The operations, on lists read as sets *)

\* The relations when l has removed those in R from its list and its party.
RemovedAll(q, r, l, R) ==
  LET gone     == R \cap Sets(r.followers)[l]
      expelled == gone \cap Sets(r.members)[l]
  IN
  /\ q.follow = [c \in Conn |-> IF c \in gone THEN None ELSE r.follow[c]]
  /\ Sets(q.followers) = Without(Sets(r.followers), l, gone)
  /\ q.targets = [c \in Conn |-> IF c \in gone THEN {} ELSE r.targets[c]]
  /\ Sets(q.members) = Without(Sets(r.members), l, gone)
  /\ q.leader = [c \in Conn |->
       IF c \in expelled THEN None
       ELSE IF c = l /\ r.leader[l] = l /\ Sets(r.members)[l] \subseteq expelled THEN None
       ELSE r.leader[c]]

\* remove_followers(): the loop, and the party that has become empty.
LEMMA RemovesAll ==
  ASSUME NEW r \in Rels, NEW l \in Conn, NEW list \in Seq(Conn)
  PROVE  /\ RemoveFollowers(r, l, list) \in Rels
         /\ RemovedAll(RemoveFollowers(r, l, list), r, l, ToSet(list))
<1> DEFINE e == RemoveEach(r, l, list)
           q == RemoveFollowers(r, l, list)
           gone == ToSet(list) \cap Sets(r.followers)[l]
           M == Sets(r.members)[l]
<1>1. e \in Rels /\ Expelled(e, r, l, gone)
  BY RemovedEach
<1>2. q = IF e.leader[l] = l THEN DissolveIfEmpty(e, l) ELSE e
  BY DEF RemoveFollowers
<1> DEFINE d == DissolveIfEmpty(e, l)
<1> HIDE DEF e, q, gone, d
<1>3. /\ d \in Rels
      /\ d.follow = e.follow /\ d.followers = e.followers
      /\ d.members = e.members /\ d.targets = e.targets
      /\ d.leader = IF ToSet(e.members[l]) = {} THEN [e.leader EXCEPT ![l] = None] ELSE e.leader
  <2>1. d \in Rels /\ Dissolved(d, e, l)
    BY <1>1, Dissolves DEF d
  <2>2. QED
    BY <2>1 DEF Dissolved
<1>4. /\ q \in Rels
      /\ q.follow = e.follow /\ q.followers = e.followers
      /\ q.members = e.members /\ q.targets = e.targets
      /\ q.leader = IF e.leader[l] = l /\ ToSet(e.members[l]) = {}
                    THEN [e.leader EXCEPT ![l] = None] ELSE e.leader
  BY <1>1, <1>2, <1>3 DEF d
<1>5. ToSet(e.members[l]) = {} <=> M \subseteq gone \cap M
  <2>1. Sets(e.members)[l] = ToSet(e.members[l])
    BY DEF Sets
  <2>2. Sets(e.members)[l] = M \ gone
    BY <1>1 DEF Expelled, Without
  <2>3. QED
    BY <2>1, <2>2
<1>6. e.leader = [c \in Conn |-> IF c \in gone \cap M THEN None ELSE r.leader[c]]
  BY <1>1 DEF Expelled
<1>7. e.leader[l] = l <=> l \notin gone \cap M /\ r.leader[l] = l
  BY <1>6, ListsAssumption
<1> HIDE DEF M
<1>8. q.leader = [c \in Conn |->
        IF c \in gone \cap M THEN None
        ELSE IF c = l /\ r.leader[l] = l /\ M \subseteq gone \cap M THEN None
        ELSE r.leader[c]]
  BY <1>4, <1>5, <1>6, <1>7
<1>9. /\ Sets(q.followers) = Without(Sets(r.followers), l, gone)
      /\ Sets(q.members) = Without(Sets(r.members), l, gone)
      /\ q.follow = [c \in Conn |-> IF c \in gone THEN None ELSE r.follow[c]]
      /\ q.targets = [c \in Conn |-> IF c \in gone THEN {} ELSE r.targets[c]]
  BY <1>1, <1>4 DEF Expelled
<1>10. QED
  BY <1>4, <1>8, <1>9 DEF RemovedAll, q, gone, M

\* The relations when a is in no relation any more and those in its list follow
\* nobody.
Gone(q, p, a) ==
  LET cut == {a} \cup Sets(p.followers)[a] IN
  /\ q.follow = [c \in Conn |-> IF c \in cut THEN None ELSE p.follow[c]]
  /\ Sets(q.followers) = [c \in Conn |->
       IF c = a THEN {} ELSE {f \in Sets(p.followers)[c] : ~(f \in cut /\ p.follow[f] = c)}]
  /\ q.leader = [c \in Conn |-> IF c = a THEN None ELSE p.leader[c]]
  /\ Sets(q.members) = [c \in Conn |-> IF c = a THEN {} ELSE Sets(p.members)[c]]
  /\ q.targets = [c \in Conn |-> IF c = a THEN {} ELSE p.targets[c]]

\* The end of disconnect(), after the succession of the party.
Departure(p, a) ==
  LET alone == StopFollowing(p, a)
      freed == FreeEach(alone, alone.followers[a])
  IN  [freed EXCEPT !.follow[a] = None, !.followers[a] = <<>>, !.leader[a] = None,
                    !.members[a] = <<>>, !.targets[a] = {}]

\* The end of disconnect() takes a out of all relations.
LEMMA Departs ==
  ASSUME NEW p \in Rels, NEW a \in Conn
  PROVE  Departure(p, a) \in Rels /\ Gone(Departure(p, a), p, a)
<1> DEFINE m == StopFollowing(p, a)
           L == ToSet(m.followers[a])
           d == FreeEach(m, m.followers[a])
           q == Departure(p, a)
           cut == {a} \cup Sets(p.followers)[a]
<1>1. /\ m \in Rels /\ SameParty(m, p)
      /\ m.follow = [p.follow EXCEPT ![a] = None]
      /\ Sets(m.followers) = [c \in Conn |->
           IF c = p.follow[a] THEN Sets(p.followers)[c] \ {a} ELSE Sets(p.followers)[c]]
  BY StopsFollowing
<1>2. q = [d EXCEPT !.follow[a] = None, !.followers[a] = <<>>, !.leader[a] = None,
                    !.members[a] = <<>>, !.targets[a] = {}]
  BY DEF Departure
<1> HIDE DEF m, q
<1>3. d \in Rels /\ Cut(d, m, L)
  <2>1. m.followers[a] \in Seq(Conn)
    BY <1>1, ListsArePlain DEF Plain
  <2>2. QED
    BY <1>1, <2>1, Freed
<1> HIDE DEF d
<1>4. <<>> \in PlainLists /\ ToSet(<<>>) = {}
  BY DEF PlainLists, Plain, IsInjective, ToSet
<1>5. /\ q \in Rels
      /\ q.follow = [d.follow EXCEPT ![a] = None]
      /\ q.followers = [d.followers EXCEPT ![a] = <<>>]
      /\ q.leader = [d.leader EXCEPT ![a] = None]
      /\ q.members = [d.members EXCEPT ![a] = <<>>]
      /\ q.targets = [d.targets EXCEPT ![a] = {}]
  BY <1>2, <1>3, <1>4 DEF Rels
<1>6. /\ d.leader = p.leader /\ d.members = p.members /\ d.targets = p.targets
  BY <1>1, <1>3 DEF Cut, SameParty
<1>7. {a} \cup L = cut
  <2>1. L = Sets(m.followers)[a]
    BY DEF Sets
  <2>2. QED
    BY <1>1, <2>1
<1>8. d.follow = [c \in Conn |-> IF c \in L THEN None ELSE m.follow[c]]
  BY <1>3 DEF Cut
<1>9. q.follow = [c \in Conn |-> IF c \in cut THEN None ELSE p.follow[c]]
  <2> HIDE DEF L, cut
  <2>1. QED
    BY <1>1, <1>5, <1>7, <1>8, MapTypes
<1>10. ASSUME NEW c \in Conn \ {a}
       PROVE  ToSet(q.followers[c]) = {f \in Sets(p.followers)[c] : ~(f \in cut /\ p.follow[f] = c)}
  <2>1. q.followers[c] = d.followers[c] /\ c # None
    BY <1>3, <1>5, MapTypes, ListsAssumption
  <2>2. ToSet(d.followers[c]) = {f \in Sets(m.followers)[c] : ~(f \in L /\ m.follow[f] = c)}
    <3>1. ToSet(d.followers[c]) = Sets(d.followers)[c]
      BY DEF Sets
    <3>2. QED
      BY <1>3, <3>1 DEF Cut
  <2>3. Sets(p.followers)[c] \subseteq Conn
    BY ListsArePlain, ListAndSet DEF Sets, Plain
  <2>4. Sets(m.followers)[c] = IF c = p.follow[a] THEN Sets(p.followers)[c] \ {a} ELSE Sets(p.followers)[c]
    BY <1>1
  <2>5. \A f \in Conn : m.follow[f] = IF f = a THEN None ELSE p.follow[f]
    BY <1>1, MapTypes
  <2> HIDE DEF L, cut
  <2>6. QED
    BY <1>7, <2>1, <2>2, <2>3, <2>4, <2>5
<1>11. q.followers[a] = <<>> /\ q.members[a] = <<>>
  BY <1>3, <1>5, MapTypes
<1>12. Sets(q.followers) = [c \in Conn |->
         IF c = a THEN {} ELSE {f \in Sets(p.followers)[c] : ~(f \in cut /\ p.follow[f] = c)}]
  <2> DEFINE rest(c) == {f \in Sets(p.followers)[c] : ~(f \in cut /\ p.follow[f] = c)}
  <2>1. \A c \in Conn : ToSet(q.followers[c]) = IF c = a THEN {} ELSE rest(c)
    <3>1. \A c \in Conn \ {a} : ToSet(q.followers[c]) = rest(c)
      BY <1>10
    <3> HIDE DEF rest
    <3>2. QED
      BY <1>4, <1>11, <3>1
  <2> HIDE DEF cut
  <2>2. QED
    BY <2>1 DEF Sets
<1>13. Sets(q.members) = [c \in Conn |-> IF c = a THEN {} ELSE Sets(p.members)[c]]
  <2>1. \A c \in Conn : ToSet(q.members[c]) = IF c = a THEN {} ELSE ToSet(p.members[c])
    <3>1. \A c \in Conn \ {a} : q.members[c] = p.members[c]
      BY <1>5, <1>6, MapTypes
    <3>2. QED
      BY <1>4, <1>11, <3>1
  <2>2. QED
    BY <2>1 DEF Sets
<1>14. /\ q.leader = [c \in Conn |-> IF c = a THEN None ELSE p.leader[c]]
       /\ q.targets = [c \in Conn |-> IF c = a THEN {} ELSE p.targets[c]]
  <2>1. /\ q.leader = [p.leader EXCEPT ![a] = None] /\ q.targets = [p.targets EXCEPT ![a] = {}]
        /\ p.leader \in [Conn -> Conn \cup {None}] /\ p.targets \in [Conn -> SUBSET Mob]
    BY <1>5, <1>6, MapTypes
  <2>2. QED
    BY <2>1
<1>15. QED
  BY <1>5, <1>9, <1>12, <1>13, <1>14 DEF Gone, q

\* The relations when heir has the party and the follower list of a.
Inherited(q, r, a, heir) ==
  LET M == Sets(r.members)[a] IN
  /\ q.follow = r.follow /\ q.targets = r.targets
  /\ q.leader = [c \in Conn |->
       IF c \in M THEN IF M \ {heir} = {} THEN None ELSE heir ELSE r.leader[c]]
  /\ Sets(q.members) = [c \in Conn |-> IF c = heir THEN M \ {heir} ELSE Sets(r.members)[c]]
  /\ Sets(q.followers) = [c \in Conn |->
       IF c = heir THEN Sets(r.followers)[a] \ {heir} ELSE Sets(r.followers)[c]]

\* The first of the members takes over.
LEMMA Succeeds ==
  ASSUME NEW r \in Rels, NEW a \in Conn, r.members[a] # <<>>
  PROVE  /\ Succeed(r, a) \in Rels
         /\ \E heir \in Sets(r.members)[a] : Inherited(Succeed(r, a), r, a, heir)
<1> DEFINE ms == r.members[a]
           heir == Head(ms)
           rest == RemoveFirst(ms, heir)
           fs == RemoveFirst(r.followers[a], heir)
           new == [c \in Conn |-> IF c = heir THEN IF rest = <<>> THEN None ELSE heir
                                  ELSE IF Contains(ms, c) THEN heir ELSE r.leader[c]]
           q == Succeed(r, a)
           M == Sets(r.members)[a]
<1>1. Plain(ms) /\ ms \in Seq(Conn) /\ M = ToSet(ms)
  BY ListsArePlain DEF Plain, Sets
<1>2. heir \in M /\ heir \in Conn
  BY <1>1 DEF ToSet
<1>3. /\ rest \in PlainLists /\ ToSet(rest) = M \ {heir}
      /\ fs \in PlainLists /\ ToSet(fs) = ToSet(r.followers[a]) \ {heir}
  BY <1>1, ListsArePlain, Removed DEF PlainLists, Plain
<1>4. /\ rest = <<>> <=> M \ {heir} = {}
      /\ \A c : Contains(ms, c) <=> c \in M
  BY <1>1, <1>3, ListAndSet DEF PlainLists
<1>5. q = [r EXCEPT !.leader = new, !.members[heir] = rest, !.followers[heir] = fs]
  BY DEF Succeed
<1> HIDE DEF ms, heir, rest, fs, q, M
<1>6. new \in [Conn -> Conn \cup {None}]
  BY <1>2, MapTypes
<1>7. new = [c \in Conn |-> IF c \in M THEN IF M \ {heir} = {} THEN None ELSE heir ELSE r.leader[c]]
  BY <1>2, <1>4
<1> HIDE DEF new
<1>8. /\ q \in Rels
      /\ q.follow = r.follow /\ q.targets = r.targets /\ q.leader = new
      /\ q.members = [r.members EXCEPT ![heir] = rest]
      /\ q.followers = [r.followers EXCEPT ![heir] = fs]
  BY <1>2, <1>3, <1>5, <1>6 DEF Rels
<1>9. Sets(q.members) = [c \in Conn |-> IF c = heir THEN M \ {heir} ELSE Sets(r.members)[c]]
  BY <1>2, <1>3, <1>8, MapTypes DEF Sets
<1>10. Sets(q.followers) = [c \in Conn |->
         IF c = heir THEN Sets(r.followers)[a] \ {heir} ELSE Sets(r.followers)[c]]
  BY <1>2, <1>3, <1>8, MapTypes DEF Sets
<1>11. Inherited(q, r, a, heir)
  BY <1>7, <1>8, <1>9, <1>10 DEF Inherited, M
<1>12. QED
  BY <1>2, <1>8, <1>11 DEF q, M

\* The relations when a has left the party of l, or was alone.
Left(q, r, a, l) ==
  /\ q.follow = r.follow /\ Sets(q.followers) = Sets(r.followers)
  /\ q.leader = LeadersWithout(r, l, {a})
  /\ Sets(q.members) = Without(Sets(r.members), l, {a})
  /\ q.targets = [r.targets EXCEPT ![a] = {}]

\* The three ways in which a logout begins.
Beginning(p, r, a) ==
  \/ r.leader[a] = a /\ \E heir \in Sets(r.members)[a] : Inherited(p, r, a, heir)
  \/ r.leader[a] \notin {None, a} /\ Left(p, r, a, r.leader[a])
  \/ (r.leader[a] = None \/ (r.leader[a] = a /\ Sets(r.members)[a] = {})) /\ p = r

\* disconnect() is a beginning and the departure.
LEMMA Disconnects ==
  ASSUME NEW r \in Rels, NEW a \in Conn
  PROVE  /\ Disconnect(r, a) \in Rels
         /\ \E p \in Rels : Beginning(p, r, a) /\ Gone(Disconnect(r, a), p, a)
<1> DEFINE party == IF r.leader[a] = None THEN r
                    ELSE IF r.leader[a] # a THEN QuitParty(r, a)
                    ELSE IF r.members[a] # <<>> THEN Succeed(r, a)
                    ELSE r
<1>1. Disconnect(r, a) = Departure(party, a)
  BY DEF Disconnect, Departure
<1>2. party \in Rels /\ Beginning(party, r, a)
  <2>1. CASE r.leader[a] = None
    BY <2>1 DEF Beginning
  <2>2. CASE r.leader[a] \notin {None, a}
    <3>1. party = QuitParty(r, a) /\ r.leader[a] \in Conn
      BY <2>2, MapTypes
    <3>2. /\ QuitParty(r, a) \in Rels
          /\ Left(QuitParty(r, a), r, a, r.leader[a])
      BY <2>2, <3>1, QuitsParty DEF Left
    <3> HIDE DEF party
    <3>3. QED
      BY <2>2, <3>1, <3>2 DEF Beginning
  <2>3. CASE r.leader[a] = a /\ r.members[a] # <<>>
    <3>1. party = Succeed(r, a)
      BY <2>3, ListsAssumption
    <3> HIDE DEF party
    <3>2. QED
      BY <2>3, <3>1, Succeeds DEF Beginning
  <2>4. CASE r.leader[a] = a /\ r.members[a] = <<>>
    <3>1. party = r
      BY <2>4, ListsAssumption
    <3>2. Sets(r.members)[a] = {}
      <4>1. ToSet(<<>>) = {}
        BY DEF ToSet
      <4>2. QED
        BY <2>4, <4>1 DEF Sets
    <3> HIDE DEF party
    <3>3. QED
      BY <2>4, <3>1, <3>2 DEF Beginning
  <2>5. QED
    BY <2>1, <2>2, <2>3, <2>4
<1> HIDE DEF party
<1>3. QED
  BY <1>1, <1>2, Departs

\* The targets are set for all the owners, or for nobody.
LEMMA SetsTargets ==
  ASSUME NEW r \in Rels, NEW a \in Conn, NEW owners \in SUBSET Conn, NEW targets \in SUBSET Mob
  PROVE  LET q == SetCombatTargets(r, a, owners, targets) IN
         /\ q \in Rels
         /\ q.follow = r.follow /\ q.followers = r.followers
         /\ q.leader = r.leader /\ q.members = r.members
         /\ q.targets = IF owners \subseteq {a} \cup Sets(r.members)[a]
                        THEN [c \in Conn |-> IF c \in owners THEN targets ELSE r.targets[c]]
                        ELSE r.targets
<1>1. \A o : Contains(r.members[a], o) <=> o \in Sets(r.members)[a]
  BY ListsArePlain, ListAndSet DEF Plain, Sets
<1>2. (\E o \in owners : o # a /\ ~Contains(r.members[a], o))
        <=> ~(owners \subseteq {a} \cup Sets(r.members)[a])
  BY <1>1
<1> DEFINE new == [c \in Conn |-> IF c \in owners THEN targets ELSE r.targets[c]]
<1>3. new \in [Conn -> SUBSET Mob]
  BY MapTypes
<1>4. SetCombatTargets(r, a, owners, targets) =
        IF owners \subseteq {a} \cup Sets(r.members)[a] THEN [r EXCEPT !.targets = new] ELSE r
  BY <1>2 DEF SetCombatTargets
<1> HIDE DEF new
<1>5. [r EXCEPT !.targets = new] \in Rels
  BY <1>3 DEF Rels
<1>6. QED
  BY <1>4, <1>5 DEF Rels, new

-----------------------------------------------------------------------------
(* Every step of the lists is a step of the sets. *)

\* A logout.
LEMMA DisconnectIsAbstract ==
  ASSUME rel \in Rels, NEW a \in Conn, rel' = Disconnect(rel, a)
  PROVE  Graph!Disconnect(a)
<1>1. PICK p \in Rels : Beginning(p, rel, a) /\ Gone(rel', p, a)
  BY Disconnects
<1> DEFINE F == Sets(rel.followers)
           M == Sets(rel.members)
<1>2. /\ [c \in Conn |-> ToSet(rel.followers[c])] = F
      /\ [c \in Conn |-> ToSet(rel.members[c])] = M
      /\ [c \in Conn |-> ToSet(rel.followers[c])]' = Sets(rel'.followers)
      /\ [c \in Conn |-> ToSet(rel.members[c])]' = Sets(rel'.members)
  BY DEF Sets
<1>3. F \in [Conn -> SUBSET Conn] /\ M \in [Conn -> SUBSET Conn]
  BY ListsArePlain, ListAndSet DEF Sets, Plain
<1>4. /\ rel.leader \in [Conn -> Conn \cup {None}] /\ rel.follow \in [Conn -> Conn \cup {None}]
      /\ rel.targets \in [Conn -> SUBSET Mob]
  BY MapTypes
<1>5. Gone(rel', p, a)
  BY <1>1
<1> HIDE DEF F, M
<1>6. ASSUME NEW lists, Sets(p.followers) = lists, p.follow = rel.follow
      PROVE  Graph!Unfollow(a, lists)
  <2> DEFINE cut == {a} \cup lists[a]
             rest(c) == {f \in lists[c] : ~(f \in cut /\ rel.follow[f] = c)}
  <2>1. rel.follow' = [c \in Conn |-> IF c \in cut THEN None ELSE rel.follow[c]]
    BY <1>5, <1>6 DEF Gone
  <2>2. Sets(rel'.followers) = [c \in Conn |-> IF c = a THEN {} ELSE rest(c)]
    <3>1. Sets(rel'.followers) = [c \in Conn |-> IF c = a THEN {} ELSE
            {f \in lists[c] : ~(f \in cut /\ p.follow[f] = c)}]
      BY <1>5, <1>6 DEF Gone
    <3> HIDE DEF cut
    <3>2. QED
      BY <1>6, <3>1
  <2>3. [c \in Conn |-> ToSet(rel.followers[c])]' = [c \in Conn |-> IF c = a THEN {} ELSE rest(c)]
    BY <1>2, <2>2
  <2>4. QED
    BY <2>1, <2>3 DEF Graph!Unfollow
<1>7. rel.targets' = [rel.targets EXCEPT ![a] = {}]
  <2>1. p.targets = rel.targets \/ p.targets = [rel.targets EXCEPT ![a] = {}]
    BY <1>1 DEF Beginning, Inherited, Left
  <2>2. QED
    BY <1>4, <1>5, <2>1 DEF Gone
<1>8. CASE rel.leader[a] = a /\ \E heir \in Sets(rel.members)[a] : Inherited(p, rel, a, heir)
  <2>1. PICK heir \in M[a] : Inherited(p, rel, a, heir)
    BY <1>8 DEF M
  <2>2. heir \in Conn
    BY <1>3
  <2>3. Graph!Unfollow(a, [F EXCEPT ![heir] = F[a] \ {heir}])
    <3>1. Sets(p.followers) = [F EXCEPT ![heir] = F[a] \ {heir}]
      BY <1>3, <2>1 DEF Inherited, F
    <3>2. QED
      BY <1>6, <2>1, <3>1 DEF Inherited
  <2>4. rel.leader' = [c \in Conn |->
            IF c = a THEN None
            ELSE IF c \in M[a] THEN (IF M[a] \ {heir} = {} THEN None ELSE heir)
            ELSE rel.leader[c]]
    BY <1>5, <2>1 DEF Gone, Inherited, M
  <2>5. Sets(rel'.members) = [M EXCEPT ![heir] = M[a] \ {heir}, ![a] = {}]
    <3>1. Sets(p.members) = [c \in Conn |-> IF c = heir THEN M[a] \ {heir} ELSE M[c]]
      BY <2>1 DEF Inherited, M
    <3>2. Sets(rel'.members) = [c \in Conn |-> IF c = a THEN {} ELSE Sets(p.members)[c]]
      BY <1>5 DEF Gone
    <3>3. QED
      BY <1>3, <2>2, <3>1, <3>2
  <2>6. Graph!PassLead(a, heir)
    BY <1>2, <1>8, <2>3, <2>4, <2>5 DEF Graph!PassLead
  <2>7. QED
    BY <1>2, <1>7, <2>1, <2>6 DEF Graph!Disconnect
<1>9. CASE rel.leader[a] \notin {None, a} /\ Left(p, rel, a, rel.leader[a])
  <2> DEFINE l == rel.leader[a]
  <2>1. l \in Conn /\ l # a
    BY <1>4, <1>9
  <2>2. Graph!Unfollow(a, F)
    BY <1>6, <1>9 DEF Left, F
  <2>3. /\ p.leader = LeadersWithout(rel, l, {a})
        /\ Sets(p.members) = Without(M, l, {a})
    BY <1>9 DEF Left, M
  <2> HIDE DEF l
  <2>4. rel.leader' = [c \in Conn |-> IF c \in {a} THEN None
                                     ELSE IF c = l /\ M[l] \subseteq {a} THEN None
                                     ELSE rel.leader[c]]
    BY <1>5, <2>3 DEF Gone, LeadersWithout, M
  <2>5. Sets(rel'.members) = [M EXCEPT ![l] = @ \ {a}, ![a] = {}]
    <3>1. Sets(rel'.members) = [c \in Conn |-> IF c = a THEN {} ELSE Sets(p.members)[c]]
      BY <1>5 DEF Gone
    <3>2. Sets(p.members) = [c \in Conn |-> IF c = l THEN M[c] \ {a} ELSE M[c]]
      BY <2>3 DEF Without
    <3>3. Sets(rel'.members) = [c \in Conn |->
            IF c = a THEN {} ELSE IF c = l THEN M[c] \ {a} ELSE M[c]]
      BY <3>1, <3>2
    <3>4. QED
      BY <1>3, <2>1, <3>3
  <2>6. Graph!QuitParty(a)
    BY <1>2, <1>9, <2>2, <2>4, <2>5 DEF Graph!QuitParty, Graph!LeaderWithout, l
  <2>7. QED
    BY <1>7, <2>6 DEF Graph!Disconnect
<1>10. CASE (rel.leader[a] = None \/ (rel.leader[a] = a /\ Sets(rel.members)[a] = {})) /\ p = rel
  <2>1. Graph!Unfollow(a, F)
    BY <1>6, <1>10 DEF F
  <2>2. rel.leader' = [rel.leader EXCEPT ![a] = None]
    BY <1>4, <1>5, <1>10 DEF Gone
  <2>3. Sets(rel'.members) = [M EXCEPT ![a] = {}]
    BY <1>3, <1>5, <1>10 DEF Gone, M
  <2>4. Graph!LeaveAlone(a)
    BY <1>2, <1>10, <2>1, <2>2, <2>3 DEF Graph!LeaveAlone, M
  <2>5. QED
    BY <1>7, <2>4 DEF Graph!Disconnect
<1>11. QED
  BY <1>1, <1>8, <1>9, <1>10 DEF Beginning

\* The five maps as SocialGraph reads them.
LEMMA ReadAsSets ==
  /\ [c \in Conn |-> ToSet(rel.followers[c])] = Sets(rel.followers)
  /\ [c \in Conn |-> ToSet(rel.members[c])] = Sets(rel.members)
  /\ [c \in Conn |-> ToSet(rel.followers[c])]' = Sets(rel'.followers)
  /\ [c \in Conn |-> ToSet(rel.members[c])]' = Sets(rel'.members)
  BY DEF Sets

\* The sets are sets of connections.
LEMMA SetTypes ==
  ASSUME rel \in Rels
  PROVE  /\ Sets(rel.followers) \in [Conn -> SUBSET Conn]
         /\ Sets(rel.members) \in [Conn -> SUBSET Conn]
<1>1. \A c \in Conn : ToSet(rel.followers[c]) \subseteq Conn /\ ToSet(rel.members[c]) \subseteq Conn
  BY ListsArePlain, ListAndSet DEF Plain
<1>2. QED
  BY <1>1 DEF Sets

\* Following, and ceasing to follow.
LEMMA FollowingIsAbstract ==
  ASSUME rel \in Rels, NEW a \in Conn
  PROVE  /\ \A t \in Conn : rel' = Follow(rel, a, t) => rel' \in Rels /\ Graph!Follow(a, t)
         /\ rel' = StopFollowing(rel, a) => rel' \in Rels /\ Graph!StopFollowing(a)
<1>1. ASSUME NEW t \in Conn, rel' = Follow(rel, a, t)
      PROVE  rel' \in Rels /\ Graph!Follow(a, t)
  <2>1. /\ rel' \in Rels
        /\ SameParty(rel', rel)
        /\ rel'.follow = [rel.follow EXCEPT ![a] = t]
        /\ Sets(rel'.followers) = [c \in Conn |->
             IF c = t THEN Sets(rel.followers)[c] \cup {a}
             ELSE IF c = rel.follow[a] THEN Sets(rel.followers)[c] \ {a}
             ELSE Sets(rel.followers)[c]]
    BY <1>1, Follows
  <2>2. QED
    BY <2>1, ReadAsSets DEF Graph!Follow, SameParty
<1>2. ASSUME rel' = StopFollowing(rel, a)
      PROVE  rel' \in Rels /\ Graph!StopFollowing(a)
  <2>1. /\ rel' \in Rels
        /\ SameParty(rel', rel)
        /\ rel'.follow = [rel.follow EXCEPT ![a] = None]
        /\ Sets(rel'.followers) = [c \in Conn |->
             IF c = rel.follow[a] THEN Sets(rel.followers)[c] \ {a} ELSE Sets(rel.followers)[c]]
    BY <1>2, StopsFollowing
  <2>2. QED
    BY <2>1, ReadAsSets DEF Graph!StopFollowing, SameParty
<1>3. QED
  BY <1>1, <1>2

\* Leaving a party.
LEMMA LeavingIsAbstract ==
  ASSUME rel \in Rels, NEW a \in Conn, rel.leader[a] \notin {None, a}, rel' = LeaveParty(rel, a)
  PROVE  rel' \in Rels /\ Graph!LeaveParty(a)
<1> DEFINE l == rel.leader[a]
<1>1. l \in Conn /\ l # a
  BY MapTypes
<1>2. /\ rel' \in Rels
      /\ rel'.follow = [rel.follow EXCEPT ![a] = None]
      /\ Sets(rel'.followers) = Without(Sets(rel.followers), l, {a})
      /\ rel'.leader = LeadersWithout(rel, l, {a})
      /\ Sets(rel'.members) = Without(Sets(rel.members), l, {a})
      /\ rel'.targets = [rel.targets EXCEPT ![a] = {}]
  BY <1>1, LeavesParty
<1>3. /\ Sets(rel'.followers) = [Sets(rel.followers) EXCEPT ![l] = @ \ {a}]
      /\ Sets(rel'.members) = [Sets(rel.members) EXCEPT ![l] = @ \ {a}]
  <2> DEFINE F == Sets(rel.followers)
             M == Sets(rel.members)
  <2>1. F \in [Conn -> SUBSET Conn] /\ M \in [Conn -> SUBSET Conn]
    BY SetTypes
  <2> HIDE DEF F, M, l
  <2>2. Without(F, l, {a}) = [F EXCEPT ![l] = @ \ {a}] /\ Without(M, l, {a}) = [M EXCEPT ![l] = @ \ {a}]
    BY <1>1, <2>1 DEF Without
  <2>3. QED
    BY <1>2, <2>2 DEF F, M
<1>4. rel'.leader = Graph!LeaderWithout(l, {a})
  BY <1>2, ReadAsSets DEF Graph!LeaderWithout, LeadersWithout
<1>5. /\ [c \in Conn |-> ToSet(rel.followers[c])]'
           = [[c \in Conn |-> ToSet(rel.followers[c])] EXCEPT ![l] = @ \ {a}]
      /\ [c \in Conn |-> ToSet(rel.members[c])]'
           = [[c \in Conn |-> ToSet(rel.members[c])] EXCEPT ![l] = @ \ {a}]
  BY <1>3, ReadAsSets
<1> HIDE DEF l
<1>6. Graph!LeaveParty(a)
  BY <1>2, <1>4, <1>5 DEF Graph!LeaveParty, l
<1>7. QED
  BY <1>2, <1>6

\* The size of a set is the same in SocialGraph.
LEMMA SameSize == \A S : Graph!Cardinality(S) = Cardinality(S)
  BY DEF Graph!Cardinality, Cardinality

\* Taking those of a request who may enter into the party.
LEMMA AddingIsAbstract ==
  ASSUME rel \in Rels, NEW a \in Conn, NEW list \in Seq(Conn),
         rel' = AddPartyMembers(rel, a, list)
  PROVE  /\ rel' \in Rels
         /\ Graph!AddPartyMembers(a, ToSet(list))
<1> DEFINE seen == ToSet(list)
           ms == Graph!Admissible(a, seen)
<1>2. Eligible(rel, a, seen) = ms
  BY DEF Eligible, Graph!Admissible
<1>3. rel' \in Rels /\ EnteredSome(rel', rel, a, seen)
  BY Added
<1> HIDE DEF ms
<1>4. PICK entered : Entered(rel', rel, a, seen, entered)
  BY <1>3 DEF EnteredSome
<1> DEFINE members == Sets(rel.members)[a] \cup entered
<1>5. Cardinality(members) = Len(rel'.members[a])
  <2>1. Plain(rel'.members[a])
    BY <1>3, ListsArePlain
  <2>2. ToSet(rel'.members[a]) = members
    <3>1. ToSet(rel'.members[a]) = Sets(rel'.members)[a]
      BY DEF Sets
    <3>2. QED
      BY <1>4, <3>1 DEF Entered
  <2>3. QED
    BY <2>1, <2>2, LengthIsSize
<1>6. entered \in SUBSET ms
  BY <1>2, <1>4 DEF Entered
<1>7. Sets(rel'.members) = [Sets(rel.members) EXCEPT ![a] = members]
  <2>1. Sets(rel'.members) = [c \in Conn |->
          IF c = a THEN Sets(rel.members)[c] \cup entered ELSE Sets(rel.members)[c]]
    BY <1>4 DEF Entered
  <2>2. QED
    BY <2>1, SetTypes
<1>8. /\ entered # {} => Cardinality(members) < MaxParty
      /\ entered # ms => Cardinality(members) + 1 >= MaxParty
      /\ rel'.leader = [c \in Conn |-> IF c \in entered \cup {a} THEN a ELSE rel.leader[c]]
      /\ rel'.follow = rel.follow /\ rel'.followers = rel.followers /\ rel'.targets = rel.targets
  BY <1>2, <1>4, <1>5 DEF Entered
<1>9. Sets(rel'.followers) = Sets(rel.followers)
  BY <1>8
<1>10. Graph!AddPartyMembers(a, seen)
  <2>1. entered \in SUBSET Graph!Admissible(a, seen)
    BY <1>6 DEF ms
  <2> HIDE DEF members, seen
  <2>2. /\ entered # {} => Graph!Cardinality(members) < MaxParty
        /\ entered # Graph!Admissible(a, seen) => Graph!Cardinality(members) + 1 >= MaxParty
    BY <1>8, SameSize DEF ms
  <2>3. members = [c \in Conn |-> ToSet(rel.members[c])][a] \cup entered
    BY DEF members, Sets
  <2>4. [c \in Conn |-> ToSet(rel.members[c])]'
          = [[c \in Conn |-> ToSet(rel.members[c])] EXCEPT ![a] = members]
    BY <1>7, ReadAsSets
  <2>5. QED
    BY <1>8, <1>9, <2>1, <2>2, <2>3, <2>4, ReadAsSets DEF Graph!AddPartyMembers
<1>11. QED
  BY <1>3, <1>10

\* Removing followers: those named who are in the list.
LEMMA RemovingIsAbstract ==
  ASSUME rel \in Rels, NEW a \in Conn, NEW list \in Seq(Conn),
         rel' = RemoveFollowers(rel, a, list)
  PROVE  rel' \in Rels /\ Graph!RemoveFollowers(a, ToSet(list))
<1> DEFINE R == ToSet(list)
           F == Sets(rel.followers)
           M == Sets(rel.members)
           gone == R \cap F[a]
<1>1. rel' \in Rels /\ RemovedAll(rel', rel, a, R)
  BY RemovesAll
<1> HIDE DEF R, F, M, gone
<1>2. /\ rel'.follow = [c \in Conn |-> IF c \in gone THEN None ELSE rel.follow[c]]
      /\ Sets(rel'.followers) = Without(F, a, gone)
      /\ rel'.targets = [c \in Conn |-> IF c \in gone THEN {} ELSE rel.targets[c]]
      /\ Sets(rel'.members) = Without(M, a, gone)
      /\ rel'.leader = [c \in Conn |->
           IF c \in gone \cap M[a] THEN None
           ELSE IF c = a /\ rel.leader[a] = a /\ M[a] \subseteq gone \cap M[a] THEN None
           ELSE rel.leader[c]]
  BY <1>1 DEF RemovedAll, F, M, gone
<1>3. /\ Without(F, a, gone) = [F EXCEPT ![a] = @ \ gone]
      /\ Without(M, a, gone) = [M EXCEPT ![a] = @ \ (gone \cap M[a])]
  <2>1. F \in [Conn -> SUBSET Conn] /\ M \in [Conn -> SUBSET Conn]
    BY SetTypes DEF F, M
  <2>2. QED
    BY <2>1 DEF Without
<1>4. /\ [c \in Conn |-> ToSet(rel.followers[c])] = F
      /\ [c \in Conn |-> ToSet(rel.members[c])] = M
      /\ [c \in Conn |-> ToSet(rel.followers[c])]' = [F EXCEPT ![a] = @ \ gone]
      /\ [c \in Conn |-> ToSet(rel.members[c])]' = [M EXCEPT ![a] = @ \ (gone \cap M[a])]
  BY <1>2, <1>3, ReadAsSets DEF F, M
<1>5. Graph!RemoveFollowers(a, R)
  <2> DEFINE f == [c \in Conn |-> ToSet(rel.followers[c])]
             m == [c \in Conn |-> ToSet(rel.members[c])]
  <2>1. f[a] = F[a] /\ m[a] = M[a] /\ gone = R \cap F[a]
    BY <1>4 DEF gone
  <2>2. /\ rel.follow' = [c \in Conn |-> IF c \in R \cap f[a] THEN None ELSE rel.follow[c]]
        /\ rel.targets' = [c \in Conn |-> IF c \in R \cap f[a] THEN {} ELSE rel.targets[c]]
    BY <1>2, <2>1
  <2>3. /\ f' = [f EXCEPT ![a] = @ \ (R \cap f[a])]
        /\ m' = [m EXCEPT ![a] = @ \ ((R \cap f[a]) \cap m[a])]
    BY <1>4, <2>1
  <2>4. rel.leader' = [c \in Conn |->
          IF c \in (R \cap f[a]) \cap m[a] THEN None
          ELSE IF c = a /\ rel.leader[a] = a /\ m[a] \subseteq (R \cap f[a]) \cap m[a] THEN None
          ELSE rel.leader[c]]
    BY <1>2, <2>1
  <2>5. QED
    BY <2>2, <2>3, <2>4 DEF Graph!RemoveFollowers
<1>6. QED
  BY <1>1, <1>5 DEF R

\* Setting the targets of the party.
LEMMA TargetsAreAbstract ==
  ASSUME rel \in Rels, NEW a \in Conn, NEW owners \in SUBSET Conn, NEW targets \in SUBSET Mob,
         rel' = SetCombatTargets(rel, a, owners, targets)
  PROVE  rel' \in Rels /\ Graph!SetCombatTargets(a, owners, targets)
<1>1. /\ rel' \in Rels
      /\ rel'.follow = rel.follow /\ rel'.followers = rel.followers
      /\ rel'.leader = rel.leader /\ rel'.members = rel.members
      /\ rel'.targets = IF owners \subseteq {a} \cup Sets(rel.members)[a]
                        THEN [c \in Conn |-> IF c \in owners THEN targets ELSE rel.targets[c]]
                        ELSE rel.targets
  BY SetsTargets
<1>2. Sets(rel'.followers) = Sets(rel.followers) /\ Sets(rel'.members) = Sets(rel.members)
  BY <1>1
<1>3. QED
  BY <1>1, <1>2, ReadAsSets DEF Graph!SetCombatTargets

\* A request is a list of connections.
LEMMA RequestIsList == \A list \in Requests : list \in Seq(Conn) /\ ToSet(list) \in SUBSET Conn
<1> TAKE list \in Requests
<1>1. PICK n \in 0..MaxRequest : list \in [1..n -> Conn]
  BY DEF Requests
<1>2. n \in Nat
  BY <1>1, ListsAssumption
<1>3. list \in Seq(Conn)
  BY <1>1, <1>2
<1>4. QED
  BY <1>3 DEF ToSet

\* An action, whatever is requested of which token.
LEMMA OperationIsAbstract ==
  ASSUME rel \in Rels, NEW a \in Conn, Operation(a)
  PROVE  rel' \in Rels /\ (Graph!Operation(a) \/ rel' = rel)
<1>1. CASE rel' = StopFollowing(rel, a) \/ \E t \in Conn : rel' = Follow(rel, a, t)
  BY <1>1, FollowingIsAbstract DEF Graph!Operation
<1>2. CASE rel' = LeaveParty(rel, a)
  <2>1. CASE rel.leader[a] \in {None, a}
    BY <1>2, <2>1 DEF LeaveParty
  <2>2. CASE rel.leader[a] \notin {None, a}
    BY <1>2, <2>2, LeavingIsAbstract DEF Graph!Operation
  <2>3. QED
    BY <2>1, <2>2
<1>3. ASSUME NEW list \in Requests, rel' = AddPartyMembers(rel, a, list)
      PROVE  rel' \in Rels /\ Graph!Operation(a)
  <2>1. list \in Seq(Conn) /\ ToSet(list) \in SUBSET Conn
    BY RequestIsList
  <2>2. rel' \in Rels /\ Graph!AddPartyMembers(a, ToSet(list))
    BY <1>3, <2>1, AddingIsAbstract
  <2>3. QED
    BY <2>1, <2>2 DEF Graph!Operation
<1>4. ASSUME NEW list \in Requests, rel' = RemoveFollowers(rel, a, list)
      PROVE  rel' \in Rels /\ Graph!Operation(a)
  <2>1. list \in Seq(Conn) /\ ToSet(list) \in SUBSET Conn
    BY RequestIsList
  <2>2. rel' \in Rels /\ Graph!RemoveFollowers(a, ToSet(list))
    BY <1>4, <2>1, RemovingIsAbstract
  <2>3. QED
    BY <2>1, <2>2 DEF Graph!Operation
<1>5. ASSUME NEW owners \in SUBSET Conn, NEW targets \in SUBSET Mob,
             rel' = SetCombatTargets(rel, a, owners, targets)
      PROVE  rel' \in Rels /\ Graph!Operation(a)
  BY <1>5, TargetsAreAbstract DEF Graph!Operation
<1>6. CASE rel' = Disconnect(rel, a)
  <2>1. rel' \in Rels
    BY <1>6, Disconnects
  <2>2. QED
    BY <1>6, <2>1, DisconnectIsAbstract DEF Graph!Operation
<1>7. QED
  BY <1>1, <1>2, <1>3, <1>4, <1>5, <1>6 DEF Operation

\* The relations stay among those of lists without duplicates, and every step is
\* a step of SocialGraph or changes nothing.
LEMMA ListStep ==
  ASSUME rel \in Rels, [Next]_rel
  PROVE  rel' \in Rels /\ [Graph!Next]_(Graph!relations)
<1>1. ASSUME rel' = rel PROVE rel' \in Rels /\ UNCHANGED Graph!relations
  BY <1>1 DEF Graph!relations
<1>2. QED
  BY <1>1, OperationIsAbstract DEF Next, Graph!Next

\* Nobody is in any relation at the start.
LEMMA ListStart == Init => rel \in Rels /\ Graph!Init
<1> SUFFICES ASSUME Init PROVE rel \in Rels /\ Graph!Init
  OBVIOUS
<1>1. <<>> \in PlainLists /\ ToSet(<<>>) = {}
  BY DEF PlainLists, Plain, IsInjective, ToSet
<1>2. rel \in Rels
  BY <1>1 DEF Init, NoRelation, Rels
<1>3. Graph!Init
  BY <1>1 DEF Init, NoRelation, Graph!Init
<1>4. QED
  BY <1>2, <1>3

\* The follower and member lists of the code never hold a connection twice, so
\* one removal takes a connection out.
THEOREM ListsHoldNobodyTwice == Spec => []NoDuplicates
<1>1. Init => rel \in Rels
  BY ListStart
<1>2. rel \in Rels /\ [Next]_rel => (rel \in Rels)'
  BY ListStep
<1>3. rel \in Rels => NoDuplicates
  BY ListsArePlain DEF NoDuplicates, Plain
<1>4. QED
  BY <1>1, <1>2, <1>3, PTL DEF Spec

\* With its ordered lists read as sets, the code implements SocialGraph: what is
\* proved of SocialGraph holds of the lists.
THEOREM ListsImplementGraph == Spec => ImplementsGraph
<1>1. Init => rel \in Rels /\ Graph!Init
  BY ListStart
<1>2. rel \in Rels /\ [Next]_rel
        => (rel \in Rels)' /\ [Graph!Next]_(Graph!relations)
  BY ListStep
<1>3. QED
  BY <1>1, <1>2, PTL DEF Spec, ImplementsGraph, Graph!Spec
=============================================================================
