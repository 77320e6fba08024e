--------------------------- MODULE MemoryDB_proofs ---------------------------
EXTENDS MemoryDB, TLAPS

(* A sequence without repetitions from which an element is removed: the    *)
(* element is gone, the others keep their order.                           *)
Distinct(s) == \A i, j \in 1..Len(s) : i < j => s[i] # s[j]

(* What a sequence is once the element at k is taken out.                  *)
LEMMA RemoveAtElements ==
  ASSUME NEW S, NEW s \in Seq(S), NEW k \in 1..Len(s)
  PROVE  /\ RemoveAt(s, k) \in Seq(S)
         /\ Len(RemoveAt(s, k)) = Len(s) - 1
         /\ \A i \in 1..(Len(s) - 1) :
               RemoveAt(s, k)[i] = IF i < k THEN s[i] ELSE s[i+1]
<1> DEFINE a == SubSeq(s, 1, k-1)
           b == SubSeq(s, k+1, Len(s))
<1>1. a \in Seq(S) /\ Len(a) = k - 1 /\ \A i \in 1..(k-1) : a[i] = s[i]
  OBVIOUS
<1>2. b \in Seq(S) /\ Len(b) = Len(s) - k
  OBVIOUS
<1>3. \A i \in 1..(Len(s) - k) : b[i] = s[k + i]
  OBVIOUS
<1>4. RemoveAt(s, k) = a \o b
  BY DEF RemoveAt
<1> HIDE DEF a, b
<1>5. Len(a \o b) = Len(s) - 1 /\ a \o b \in Seq(S)
  BY <1>1, <1>2
<1>6. ASSUME NEW i \in 1..(Len(s) - 1)
      PROVE  (a \o b)[i] = IF i < k THEN s[i] ELSE s[i+1]
  <2>1. CASE i < k
    BY <2>1, <1>1, <1>2
  <2>2. CASE ~(i < k)
    <3>1. (a \o b)[i] = b[i - (k - 1)]
      BY <2>2, <1>1, <1>2
    <3> QED BY <3>1, <2>2, <1>3
  <2> QED BY <2>1, <2>2
<1> QED BY <1>4, <1>5, <1>6

(* The same for the first occurrence of u in a list without repetitions.   *)
LEMMA RemoveFirstElements ==
  ASSUME NEW S, NEW s \in Seq(S), Distinct(s), NEW u
  PROVE  LET t == RemoveFirst(s, u) IN
         /\ t \in Seq(S)
         /\ ToSet(t) = ToSet(s) \ {u}
         /\ \A i, j \in 1..Len(t) : i < j =>
               \E x, y \in 1..Len(s) : x < y /\ t[i] = s[x] /\ t[j] = s[y]
<1>1. CASE \A i \in 1..Len(s) : s[i] # u
  <2>1. RemoveFirst(s, u) = s
    BY <1>1 DEF RemoveFirst
  <2>2. u \notin ToSet(s)
    BY <1>1 DEF ToSet
  <2> QED BY <2>1, <2>2
<1>2. CASE \E i \in 1..Len(s) : s[i] = u
  <2>1. PICK k \in 1..Len(s) : s[k] = u
    BY <1>2
  <2>2. {i \in 1..Len(s) : s[i] = u} = {k}
    BY <2>1 DEF Distinct
  <2>9. \A i \in 1..Len(s) : s[i] = u => i = k
    BY <2>2
  <2>3. SelectInSeq(s, LAMBDA v : v = u) = k
    BY <2>2 DEF SelectInSeq, Min
  <2>4. RemoveFirst(s, u) = RemoveAt(s, k)
    BY <2>1, <2>3 DEF RemoveFirst
  <2> DEFINE t == RemoveAt(s, k)
  <2>5. /\ t \in Seq(S) /\ Len(t) = Len(s) - 1
        /\ \A i \in 1..(Len(s) - 1) : t[i] = IF i < k THEN s[i] ELSE s[i+1]
    BY RemoveAtElements
  <2> HIDE DEF t
  <2>6. ASSUME NEW i \in 1..Len(t), NEW j \in 1..Len(t), i < j
        PROVE  \E x, y \in 1..Len(s) : x < y /\ t[i] = s[x] /\ t[j] = s[y]
    <3> DEFINE x == IF i < k THEN i ELSE i + 1
               y == IF j < k THEN j ELSE j + 1
    <3>1. x \in 1..Len(s) /\ y \in 1..Len(s) /\ x < y
      BY <2>5, <2>6
    <3>2. t[i] = s[x] /\ t[j] = s[y]
      BY <2>5, <2>6
    <3> QED BY <3>1, <3>2
  <2>7. ASSUME NEW v \in ToSet(t)
        PROVE  v \in ToSet(s) \ {u}
    <3>1. PICK i \in 1..Len(t) : v = t[i]
      BY <2>5 DEF ToSet
    <3>2. PICK x \in 1..Len(s) : x # k /\ t[i] = s[x]
      <4>1. CASE i < k
        BY <4>1, <2>5
      <4>2. CASE i >= k
        <5>1. i + 1 \in 1..Len(s) /\ i + 1 # k /\ t[i] = s[i+1]
          BY <4>2, <2>5
        <5> QED BY <5>1
      <4> QED BY <4>1, <4>2, <2>5
    <3> QED BY <3>1, <3>2, <2>9 DEF ToSet
  <2>8. ASSUME NEW v \in ToSet(s) \ {u}
        PROVE  v \in ToSet(t)
    <3>1. PICK i \in 1..Len(s) : v = s[i]
      BY DEF ToSet
    <3>2. i # k
      BY <3>1, <2>1
    <3>3. CASE i < k
      BY <3>1, <3>3, <2>5 DEF ToSet
    <3>4. CASE i > k
      <4>1. i - 1 \in 1..Len(t) /\ t[i-1] = s[i]
        BY <3>4, <2>5
      <4> QED BY <4>1, <3>1, <2>5 DEF ToSet
    <3> QED BY <3>2, <3>3, <3>4
  <2> QED BY <2>4, <2>5, <2>6, <2>7, <2>8 DEF t
<1> QED BY <1>1, <1>2
-----------------------------------------------------------------------------
(* Removing a user keeps timeSort ordered and complete.                    *)
LEMMA RemovalKeepsTimeSorted ==
  ASSUME TypeOK, TimeSorted, NEW u \in Users,
         userIndex' = userIndex \ {u},
         age' = [age EXCEPT ![u] = 0],
         timeSort' = RemoveFirst(timeSort, u)
  PROVE  TimeSorted' /\ timeSort' \in Seq(Users) /\ age' \in [Users -> 0..UserTimeout]
<1>1. timeSort \in Seq(Users) /\ Distinct(timeSort)
  BY DEF TypeOK, TimeSorted, Distinct
<1>2. /\ timeSort' \in Seq(Users)
      /\ ToSet(timeSort') = ToSet(timeSort) \ {u}
      /\ \A i, j \in 1..Len(timeSort') : i < j =>
            \E x, y \in 1..Len(timeSort) :
               x < y /\ timeSort'[i] = timeSort[x] /\ timeSort'[j] = timeSort[y]
  BY <1>1, RemoveFirstElements
<1>3. ToSet(timeSort') = userIndex'
  BY <1>2 DEF TimeSorted
<1>4. age' \in [Users -> 0..UserTimeout]
  BY TimeoutAssumption DEF TypeOK
<1>5. ASSUME NEW i \in 1..Len(timeSort'), NEW j \in 1..Len(timeSort'), i < j
      PROVE  /\ timeSort'[i] # timeSort'[j]
             /\ age'[timeSort'[i]] >= age'[timeSort'[j]]
  <2>1. PICK x \in 1..Len(timeSort), y \in 1..Len(timeSort) :
           x < y /\ timeSort'[i] = timeSort[x] /\ timeSort'[j] = timeSort[y]
    BY <1>2, <1>5
  <2>2. timeSort'[i] \in ToSet(timeSort') /\ timeSort'[j] \in ToSet(timeSort')
    BY <1>2 DEF ToSet
  <2>3. timeSort'[i] \in Users \ {u} /\ timeSort'[j] \in Users \ {u}
    BY <2>2, <1>2, <2>1, <1>1
  <2>4. timeSort[x] # timeSort[y] /\ age[timeSort[x]] >= age[timeSort[y]]
    BY <2>1 DEF TimeSorted
  <2> QED BY <2>1, <2>3, <2>4 DEF TypeOK
<1> QED BY <1>2, <1>3, <1>4, <1>5 DEF TimeSorted

(* A user that shows it is alive moves to the end of timeSort.             *)
LEMMA StampKeepsTimeSorted ==
  ASSUME TypeOK, TimeSorted, NEW u \in Users,
         userIndex' = userIndex \cup {u},
         updateUserTimestamp(u)
  PROVE  TimeSorted' /\ timeSort' \in Seq(Users) /\ age' \in [Users -> 0..UserTimeout]
<1> DEFINE t == RemoveFirst(timeSort, u)
<1>1. timeSort \in Seq(Users) /\ Distinct(timeSort)
  BY DEF TypeOK, TimeSorted, Distinct
<1>2. /\ t \in Seq(Users)
      /\ ToSet(t) = ToSet(timeSort) \ {u}
      /\ \A i, j \in 1..Len(t) : i < j =>
            \E x, y \in 1..Len(timeSort) :
               x < y /\ t[i] = timeSort[x] /\ t[j] = timeSort[y]
  BY <1>1, RemoveFirstElements
<1>3. timeSort' = Append(t, u) /\ age' = [age EXCEPT ![u] = 0]
  BY DEF updateUserTimestamp
<1> HIDE DEF t
<1>4. /\ timeSort' \in Seq(Users) /\ Len(timeSort') = Len(t) + 1
      /\ timeSort'[Len(t) + 1] = u
      /\ \A i \in 1..Len(t) : timeSort'[i] = t[i]
  BY <1>2, <1>3
<1>5. age' \in [Users -> 0..UserTimeout]
  BY <1>3, TimeoutAssumption DEF TypeOK
<1>6. ToSet(timeSort') = userIndex'
  <2>1. ToSet(timeSort') = ToSet(t) \cup {u}
    <3>1. ASSUME NEW v \in ToSet(timeSort') PROVE v \in ToSet(t) \cup {u}
      <4>1. PICK i \in 1..(Len(t) + 1) : v = timeSort'[i]
        BY <1>4 DEF ToSet
      <4>2. CASE i = Len(t) + 1
        BY <4>1, <4>2, <1>4
      <4>3. CASE i \in 1..Len(t)
        BY <4>1, <4>3, <1>4, <1>2 DEF ToSet
      <4> QED BY <4>2, <4>3, <1>2
    <3>2. ASSUME NEW v \in ToSet(t) \cup {u} PROVE v \in ToSet(timeSort')
      <4>1. CASE v = u
        <5>1. Len(t) + 1 \in DOMAIN timeSort'
          BY <1>2, <1>4
        <5> QED BY <5>1, <4>1, <1>4 DEF ToSet
      <4>2. CASE v \in ToSet(t)
        <5>1. PICK i \in 1..Len(t) : v = t[i]
          BY <4>2, <1>2 DEF ToSet
        <5>2. i \in DOMAIN timeSort'
          BY <1>2, <1>4
        <5> QED BY <5>1, <5>2, <1>4 DEF ToSet
      <4> QED BY <4>1, <4>2
    <3> QED BY <3>1, <3>2
  <2> QED BY <2>1, <1>2 DEF TimeSorted
<1>7. ASSUME NEW i \in 1..Len(timeSort'), NEW j \in 1..Len(timeSort'), i < j
      PROVE  /\ timeSort'[i] # timeSort'[j]
             /\ age'[timeSort'[i]] >= age'[timeSort'[j]]
  <2>1. i \in 1..Len(t) /\ timeSort'[i] = t[i]
    BY <1>2, <1>4, <1>7
  <2>6. \A n \in 1..Len(t) : t[n] \in ToSet(t)
    BY <1>2 DEF ToSet
  <2>2. t[i] \in ToSet(t) /\ t[i] \in Users /\ t[i] # u
    BY <2>1, <2>6, <1>2
  <2>3. CASE j = Len(t) + 1
    BY <2>1, <2>2, <2>3, <1>3, <1>4, <1>5 DEF TypeOK
  <2>4. CASE j \in 1..Len(t)
    <3>1. PICK x \in 1..Len(timeSort), y \in 1..Len(timeSort) :
             x < y /\ t[i] = timeSort[x] /\ t[j] = timeSort[y]
      BY <1>2, <1>7, <2>1, <2>4
    <3>2. t[j] \in Users /\ t[j] # u /\ timeSort'[j] = t[j]
      BY <2>4, <2>6, <1>2, <1>4
    <3>3. timeSort[x] # timeSort[y] /\ age[timeSort[x]] >= age[timeSort[y]]
      BY <3>1 DEF TimeSorted
    <3> QED BY <2>1, <2>2, <3>1, <3>2, <3>3, <1>3 DEF TypeOK
  <2> QED BY <2>3, <2>4, <1>2, <1>4
<1> QED BY <1>4, <1>5, <1>6, <1>7 DEF TimeSorted
-----------------------------------------------------------------------------
(* What tryRemoveEmptyGroup removes: groups without members whose          *)
(* subgroups it removes too, and none at all unless the first is empty.    *)
LEMMA EmptiedFromProperties ==
  ASSUME NEW start \in GroupIds, NEW super \in [Groups -> GroupIds],
         NEW members \in [Groups -> SUBSET Users],
         NEW subs \in [GroupIds -> SUBSET Groups],
         groupIndex \in SUBSET GroupIds
  PROVE  LET gone == EmptiedFrom(start, super, members, subs) IN
         /\ gone \subseteq groupIndex \ {Root}
         /\ gone \subseteq Groups
         /\ \A g \in gone : members[g] = {} /\ subs[g] \subseteq gone
         /\ gone # {} => subs[start] = {}
<1> DEFINE Empty(g, left) == /\ g \in groupIndex \ {Root}
                             /\ members[g] = {}
                             /\ subs[g] = left
           Closed(S) == /\ Empty(start, {}) => start \in S
                        /\ \A g \in S : Empty(super[g], {g}) => super[g] \in S
           gone == {g \in Groups : \A S \in SUBSET Groups : Closed(S) => g \in S}
           W == {g \in gone : /\ g \in groupIndex \ {Root}
                              /\ members[g] = {} /\ subs[g] \subseteq gone}
<1>1. gone = EmptiedFrom(start, super, members, subs)
  BY DEF EmptiedFrom
<1>2. \A x \in groupIndex \ {Root} : x \in Groups
  BY DEF GroupIds
<1>3. Empty(start, {}) => start \in W
  BY <1>2
<1>4. ASSUME NEW g \in W, Empty(super[g], {g})
      PROVE  super[g] \in W
  <2>1. super[g] \in Groups
    BY <1>2, <1>4
  <2>2. super[g] \in gone
    BY <1>4, <2>1
  <2> QED BY <1>4, <2>2
<1>5. Closed(W)
  BY <1>3, <1>4
<1>6. gone \subseteq W
  BY <1>5
<1>7. gone # {} => subs[start] = {}
  <2>1. SUFFICES ASSUME subs[start] # {} PROVE gone = {}
    OBVIOUS
  <2>2. Closed({})
    BY <2>1
  <2> QED BY <2>2
<1> QED BY <1>1, <1>6, <1>7

(* tryRemoveEmptyGroup keeps the links sound: whatever is still listed is  *)
(* indexed, and so is what lists it.                                       *)
LEMMA RemovalKeepsLinks ==
  ASSUME NEW start \in GroupIds, NEW super \in [Groups -> GroupIds],
         NEW members \in [Groups -> SUBSET Users],
         NEW subs \in [GroupIds -> SUBSET Groups],
         groupIndex \in SUBSET GroupIds, Root \in groupIndex,
         \A p \in GroupIds : \A g \in subs[p] :
            g \in groupIndex /\ super[g] = p /\ p \in groupIndex,
         tryRemoveEmptyGroup(start, super, members, subs)
  PROVE  /\ groupIndex' \in SUBSET GroupIds /\ Root \in groupIndex'
         /\ superGroupId' \in [Groups -> GroupIds]
         /\ subGroups' \in [GroupIds -> SUBSET Groups]
         /\ userData' \in [Groups -> SUBSET Users]
         /\ userData' = members
         /\ groupIndex' \subseteq groupIndex
         /\ \A g \in groupIndex \ groupIndex' : g \in Groups /\ members[g] = {}
         /\ \A p \in GroupIds : \A g \in subGroups'[p] :
               g \in groupIndex' /\ superGroupId'[g] = p /\ p \in groupIndex'
<1> DEFINE gone == EmptiedFrom(start, super, members, subs)
<1>1. /\ gone \subseteq groupIndex \ {Root}
      /\ gone \subseteq Groups
      /\ \A g \in gone : members[g] = {} /\ subs[g] \subseteq gone
  BY EmptiedFromProperties
<1>2. /\ groupIndex' = groupIndex \ gone
      /\ superGroupId' = [g \in Groups |-> IF g \in gone THEN Root ELSE super[g]]
      /\ subGroups' = [p \in GroupIds |-> subs[p] \ {g \in gone : super[g] = p}]
      /\ userData' = members
  BY DEF tryRemoveEmptyGroup
<1> HIDE DEF gone
<1>3. ASSUME NEW p \in GroupIds, NEW g \in subGroups'[p]
      PROVE  g \in groupIndex' /\ superGroupId'[g] = p /\ p \in groupIndex'
  <2>1. g \in subs[p] /\ g \in groupIndex /\ super[g] = p /\ p \in groupIndex
    BY <1>2, <1>3
  <2>2. g \notin gone
    BY <1>2, <2>1, <1>3
  <2>3. p \notin gone
    BY <2>1, <2>2, <1>1
  <2> QED BY <1>2, <2>1, <2>2, <2>3
<1>4. Root \in GroupIds
  BY DEF GroupIds
<1> QED BY <1>1, <1>2, <1>3, <1>4
-----------------------------------------------------------------------------
(* The invariant that holds whatever is asked of the server.               *)
Inv == TypeOK /\ ListedOnce /\ TimeSorted /\ SnapShotCurrent

ExecType == [pc : {"idle", "heartbeat", "dead"}, user : Users \cup {"none"},
             group : GroupIds, swept : BOOLEAN]

(* The database as InitGroupList leaves it satisfies the invariant.        *)
LEMMA InitInv == Init => Inv
<1> SUFFICES ASSUME Init PROVE Inv
  OBVIOUS
<1> USE DEF Init
<1>1. TypeOK
  <2>1. age \in [Users -> 0..UserTimeout]
    BY TimeoutAssumption
  <2>2. timeSort \in Seq(Users)
    OBVIOUS
  <2>3. profile \in [Groups \cup Users -> Profiles]
    OBVIOUS
  <2>4. exec \in ExecType /\ reply \in Replies
    BY DEF ExecType, IdleExec, Replies, GroupIds
  <2>5. snapShot.Version \in Nat /\ global_version \in Nat
    OBVIOUS
  <2> QED BY <2>1, <2>2, <2>3, <2>4, <2>5 DEF TypeOK, GroupIds, ExecType
<1>2. ListedOnce
  BY DEF ListedOnce
<1>3. TimeSorted
  BY DEF TimeSorted, ToSet
<1>4. SnapShotCurrent
  BY DEF SnapShotCurrent
<1> QED BY <1>1, <1>2, <1>3, <1>4 DEF Inv

(* A command that is refused, and one that panics, change no record.       *)
LEMMA UnchangedKeepsInv ==
  ASSUME Inv, UNCHANGED dbVars, exec' \in ExecType, reply' \in Replies
  PROVE  Inv'
<1> USE DEF Inv, dbVars, groupVars, userVars
<1>1. TypeOK'
  BY DEF TypeOK, ExecType
<1>2. ListedOnce'
  BY DEF ListedOnce
<1>3. TimeSorted'
  BY DEF TimeSorted
<1>4. SnapShotCurrent'
  BY DEF SnapShotCurrent, copyGroupToDTO, Reached
<1> QED BY <1>1, <1>2, <1>3, <1>4

(* A refused command keeps the invariant.                                  *)
LEMMA RefuseKeepsInv ==
  ASSUME Inv, NEW r \in Replies, Refuse(r)
  PROVE  Inv'
<1>1. exec' \in ExecType
  BY DEF Refuse, Answer, Inv, TypeOK, ExecType
<1> QED BY <1>1, UnchangedKeepsInv DEF Refuse, Answer

(* A panic keeps the invariant: the records stay as they were.             *)
LEMMA PanicKeepsInv ==
  ASSUME Inv, Panic
  PROVE  Inv'
<1>1. exec' \in ExecType /\ reply' \in Replies
  BY DEF Panic, IdleExec, Inv, TypeOK, ExecType, GroupIds
<1> QED BY <1>1, UnchangedKeepsInv DEF Panic

(* Publishing makes the snapshot current.                                  *)
LEMMA PublishKeepsInv ==
  ASSUME Inv, makeSnapShot
  PROVE  SnapShotCurrent' /\ global_version' \in Nat /\ snapShot'.Version \in Nat
BY DEF Inv, TypeOK, makeSnapShot, SnapShotCurrent

(* AddNewGroup links the new group both ways and publishes it.             *)
LEMMA AddNewGroupKeepsInv ==
  ASSUME Inv, NEW g \in Groups, NEW d \in Profiles, AddNewGroup(g, Root, d)
  PROVE  Inv'
<1>1. CASE Refuse("exists")
  BY <1>1, RefuseKeepsInv DEF Replies
<1>2. CASE ~Refuse("exists")
  <2>1. /\ g \notin groupIndex
        /\ superGroupId' = [superGroupId EXCEPT ![g] = Root]
        /\ subGroups' = [subGroups EXCEPT ![Root] = @ \cup {g}]
        /\ groupIndex' = groupIndex \cup {g}
        /\ profile' = [profile EXCEPT ![g] = d]
        /\ UNCHANGED <<userData, userIndex, userGroup, age, timeSort>>
        /\ makeSnapShot /\ reply' = "ok" /\ exec' = exec
    BY <1>2 DEF AddNewGroup, Inv, TypeOK, userVars, Answer
  <2>2. TypeOK'
    BY <2>1, PublishKeepsInv DEF Inv, TypeOK, GroupIds, Replies
  <2>3. ListedOnce'
    BY <2>1 DEF Inv, ListedOnce, TypeOK, GroupIds
  <2>4. TimeSorted'
    BY <2>1 DEF Inv, TimeSorted
  <2> QED BY <2>1, <2>2, <2>3, <2>4, PublishKeepsInv DEF Inv
<1> QED BY <1>1, <1>2

(* UpdataGroup changes a profile and publishes it.                         *)
LEMMA UpdataGroupKeepsInv ==
  ASSUME Inv, NEW g \in Groups, NEW d \in Profiles, UpdataGroup(g, d)
  PROVE  Inv'
<1>1. CASE Refuse("group not found")
  BY <1>1, RefuseKeepsInv DEF Replies
<1>2. CASE ~Refuse("group not found")
  <2>1. /\ profile' = [profile EXCEPT ![g] = d]
        /\ UNCHANGED <<groupVars, userVars>>
        /\ makeSnapShot /\ reply' = "ok" /\ exec' = exec
    BY <1>2 DEF UpdataGroup, Answer
  <2> USE DEF groupVars, userVars
  <2>2. TypeOK'
    BY <2>1, PublishKeepsInv DEF Inv, TypeOK, Replies
  <2>3. ListedOnce'
    BY <2>1 DEF Inv, ListedOnce
  <2>4. TimeSorted'
    BY <2>1 DEF Inv, TimeSorted
  <2> QED BY <2>1, <2>2, <2>3, <2>4, PublishKeepsInv DEF Inv
<1> QED BY <1>1, <1>2

(* Hanging a group elsewhere: the links that tryRemoveEmptyGroup starts    *)
(* from are sound.                                                         *)
LEMMA MovedLinks ==
  ASSUME Inv, NEW g \in Groups, NEW to \in GroupIds, g # to,
         {g, to} \subseteq groupIndex
  PROVE  /\ MovedSuper(g, to) \in [Groups -> GroupIds]
         /\ MovedSubs(g, to) \in [GroupIds -> SUBSET Groups]
         /\ \A p \in GroupIds : \A x \in MovedSubs(g, to)[p] :
               /\ x \in groupIndex /\ p \in groupIndex
               /\ MovedSuper(g, to)[x] = p
BY DEF MovedSuper, MovedSubs, Inv, TypeOK, ListedOnce

(* MoveGroup unlinks, links again, and removes what it emptied.            *)
LEMMA MoveGroupKeepsInv ==
  ASSUME Inv, NEW g \in Groups, NEW to \in GroupIds, MoveGroup(g, to)
  PROVE  Inv'
<1>1. CASE \E r \in Replies : Refuse(r)
  BY <1>1, RefuseKeepsInv
<1>2. CASE Panic
  BY <1>2, PanicKeepsInv
<1>3. CASE ~(\E r \in Replies : Refuse(r)) /\ ~Panic
  <2>1. /\ g # to /\ {g, to} \subseteq groupIndex
        /\ tryRemoveEmptyGroup(superGroupId[g], MovedSuper(g, to), userData,
                               MovedSubs(g, to))
        /\ UNCHANGED <<userVars, profile>>
        /\ makeSnapShot /\ reply' = "ok" /\ exec' = exec
    BY <1>3 DEF MoveGroup, Replies, Answer
  <2>2. superGroupId[g] \in GroupIds /\ userData \in [Groups -> SUBSET Users]
    BY DEF Inv, TypeOK
  <2>3. groupIndex \in SUBSET GroupIds /\ Root \in groupIndex
    BY DEF Inv, TypeOK
  <2>4. /\ groupIndex' \in SUBSET GroupIds /\ Root \in groupIndex'
        /\ superGroupId' \in [Groups -> GroupIds]
        /\ subGroups' \in [GroupIds -> SUBSET Groups]
        /\ userData' = userData
        /\ \A x \in groupIndex \ groupIndex' : userData[x] = {}
        /\ \A p \in GroupIds : \A x \in subGroups'[p] :
              x \in groupIndex' /\ superGroupId'[x] = p /\ p \in groupIndex'
    <3> DEFINE super == MovedSuper(g, to)
               subs == MovedSubs(g, to)
    <3>1. /\ super \in [Groups -> GroupIds]
          /\ subs \in [GroupIds -> SUBSET Groups]
          /\ \A p \in GroupIds : \A x \in subs[p] :
                x \in groupIndex /\ super[x] = p /\ p \in groupIndex
      BY <2>1, MovedLinks
    <3>2. tryRemoveEmptyGroup(superGroupId[g], super, userData, subs)
      BY <2>1
    <3> HIDE DEF super, subs
    <3> QED BY <3>1, <3>2, <2>2, <2>3, RemovalKeepsLinks
  <2>5. TypeOK'
    BY <2>1, <2>4, PublishKeepsInv DEF Inv, TypeOK, Replies, userVars
  <2>6. ListedOnce'
    <3>1. \A x \in Groups : \A u \in userData'[x] :
             u \in userIndex' /\ userGroup'[u] = x /\ x \in groupIndex'
      BY <2>1, <2>4 DEF Inv, ListedOnce, userVars
    <3> QED BY <2>4, <3>1 DEF ListedOnce
  <2>7. TimeSorted'
    BY <2>1 DEF Inv, TimeSorted, userVars
  <2> QED BY <2>1, <2>5, <2>6, <2>7, PublishKeepsInv DEF Inv
<1> QED BY <1>1, <1>2, <1>3

(* DeleteGroup unlinks the group and all it emptied above it.              *)
LEMMA DeleteGroupKeepsInv ==
  ASSUME Inv, NEW g \in Groups, DeleteGroup(g)
  PROVE  Inv'
<1> DEFINE super == superGroupId[g]
           subs  == [subGroups EXCEPT ![super] = @ \ {g}]
           gone  == EmptiedFrom(super, superGroupId, userData, subs)
<1>1. CASE Refuse("group not found")
  BY <1>1, RefuseKeepsInv DEF Replies
<1>2. CASE Panic
  BY <1>2, PanicKeepsInv
<1>3. CASE ~Refuse("group not found") /\ ~Panic
  <2>1. /\ g \in groupIndex
        /\ groupIndex' = groupIndex \ (gone \cup {g})
        /\ superGroupId' = [x \in Groups |-> IF x \in gone \cup {g} THEN Root
                                             ELSE superGroupId[x]]
        /\ subGroups' = [p \in GroupIds |-> IF p = g THEN {}
                           ELSE subs[p] \ {x \in gone : superGroupId[x] = p}]
        /\ userData' = [userData EXCEPT ![g] = {}]
        /\ UNCHANGED <<userVars, profile>>
        /\ makeSnapShot /\ reply' = "ok" /\ exec' = exec
    BY <1>3 DEF DeleteGroup, Answer
  <2>2. /\ super \in GroupIds /\ userData \in [Groups -> SUBSET Users]
        /\ superGroupId \in [Groups -> GroupIds]
        /\ subGroups \in [GroupIds -> SUBSET Groups]
        /\ groupIndex \in SUBSET GroupIds /\ Root \in groupIndex
    BY DEF Inv, TypeOK
  <2>3. subs \in [GroupIds -> SUBSET Groups]
    BY <2>2
  <2>4. \A p \in GroupIds : \A x \in subs[p] :
           /\ x \in groupIndex /\ p \in groupIndex
           /\ superGroupId[x] = p /\ x \in subGroups[p] /\ x # g
    BY <2>2 DEF Inv, ListedOnce
  <2> HIDE DEF super, subs
  <2>5. /\ gone \subseteq groupIndex \ {Root} /\ gone \subseteq Groups
        /\ \A x \in gone : userData[x] = {} /\ subs[x] \subseteq gone
    BY <2>2, <2>3, EmptiedFromProperties
  <2> HIDE DEF gone
  <2>6. TypeOK'
    <3>1. /\ groupIndex' \in SUBSET GroupIds /\ Root \in groupIndex'
          /\ superGroupId' \in [Groups -> GroupIds]
          /\ subGroups' \in [GroupIds -> SUBSET Groups]
          /\ userData' \in [Groups -> SUBSET Users]
      BY <2>1, <2>2, <2>3, <2>5, RootAssumption DEF GroupIds
    <3> QED BY <3>1, <2>1, PublishKeepsInv DEF Inv, TypeOK, Replies, userVars
  <2>7. ListedOnce'
    <3>1. ASSUME NEW p \in GroupIds, NEW x \in subGroups'[p]
          PROVE  x \in groupIndex' /\ superGroupId'[x] = p /\ p \in groupIndex'
      <4>1. p # g /\ x \in subs[p] /\ ~(x \in gone /\ superGroupId[x] = p)
        BY <2>1
      <4>2. x \in groupIndex /\ p \in groupIndex /\ superGroupId[x] = p /\ x # g
        BY <4>1, <2>4
      <4>3. x \notin gone /\ p \notin gone
        BY <4>1, <4>2, <2>5
      <4>4. x \in Groups
        BY <2>3, <4>1
      <4> QED BY <4>1, <4>2, <4>3, <4>4, <2>1
    <3>2. ASSUME NEW x \in Groups, NEW u \in userData'[x]
          PROVE  u \in userIndex' /\ userGroup'[u] = x /\ x \in groupIndex'
      <4>1. x # g /\ u \in userData[x]
        BY <2>1, <2>2
      <4>2. u \in userIndex /\ userGroup[u] = x /\ x \in groupIndex
        BY <4>1 DEF Inv, ListedOnce
      <4> QED BY <4>1, <4>2, <2>1, <2>5 DEF userVars
    <3> QED BY <3>1, <3>2 DEF ListedOnce
  <2>8. TimeSorted'
    BY <2>1 DEF Inv, TimeSorted, userVars
  <2> QED BY <2>1, <2>6, <2>7, <2>8, PublishKeepsInv DEF Inv
<1> QED BY <1>1, <1>2, <1>3

(* AddNewUser links the user both ways and puts it last in timeSort.       *)
LEMMA AddNewUserKeepsInv ==
  ASSUME Inv, NEW u \in Users, NEW g \in Groups, NEW d \in Profiles,
         AddNewUser(u, g, d)
  PROVE  Inv'
<1>1. CASE \E r \in Replies : Refuse(r)
  BY <1>1, RefuseKeepsInv
<1>2. CASE ~(\E r \in Replies : Refuse(r))
  <2>1. /\ u \notin userIndex /\ g \in groupIndex
        /\ userData' = [userData EXCEPT ![g] = @ \cup {u}]
        /\ userGroup' = [userGroup EXCEPT ![u] = g]
        /\ userIndex' = userIndex \cup {u}
        /\ updateUserTimestamp(u)
        /\ profile' = [profile EXCEPT ![u] = d]
        /\ UNCHANGED <<groupIndex, superGroupId, subGroups>>
        /\ makeSnapShot /\ reply' = "ok" /\ exec' = exec
    BY <1>2 DEF AddNewUser, Replies, Answer
  <2>2. /\ TimeSorted' /\ timeSort' \in Seq(Users)
        /\ age' \in [Users -> 0..UserTimeout]
    BY <2>1, StampKeepsTimeSorted DEF Inv
  <2>3. TypeOK'
    BY <2>1, <2>2, PublishKeepsInv DEF Inv, TypeOK, GroupIds, Replies
  <2>4. ListedOnce'
    BY <2>1 DEF Inv, ListedOnce, TypeOK
  <2> QED BY <2>1, <2>2, <2>3, <2>4, PublishKeepsInv DEF Inv
<1> QED BY <1>1, <1>2

(* UpdataUser changes a profile and moves the user to the end.             *)
LEMMA UpdataUserKeepsInv ==
  ASSUME Inv, NEW u \in Users, NEW g \in GroupIds, NEW d \in Profiles,
         UpdataUser(u, g, d)
  PROVE  Inv'
<1>1. CASE \E r \in Replies : Refuse(r)
  BY <1>1, RefuseKeepsInv
<1>2. CASE ~(\E r \in Replies : Refuse(r))
  <2>1. /\ u \in userIndex /\ g \in groupIndex
        /\ profile' = [profile EXCEPT ![u] = d]
        /\ updateUserTimestamp(u)
        /\ UNCHANGED <<groupVars, userIndex, userGroup>>
        /\ makeSnapShot /\ reply' = "ok" /\ exec' = exec
    BY <1>2 DEF UpdataUser, Replies, Answer
  <2>2. /\ TimeSorted' /\ timeSort' \in Seq(Users)
        /\ age' \in [Users -> 0..UserTimeout]
    BY <2>1, StampKeepsTimeSorted DEF Inv
  <2>3. TypeOK'
    BY <2>1, <2>2, PublishKeepsInv DEF Inv, TypeOK, Replies, groupVars
  <2>4. ListedOnce'
    BY <2>1 DEF Inv, ListedOnce, groupVars
  <2> QED BY <2>1, <2>2, <2>3, <2>4, PublishKeepsInv DEF Inv
<1> QED BY <1>1, <1>2

(* A user leaves, on behalf of any indexed group.                          *)
LEMMA RemoveUserKeepsInv ==
  ASSUME Inv, NEW u \in Users, NEW g \in GroupIds, RemoveUser(u, g),
         exec' \in ExecType, reply' \in Replies
  PROVE  Inv'
<1>1. /\ tryRemoveEmptyGroup(g, superGroupId, LeftBy(u), subGroups)
      /\ userIndex' = userIndex \ {u}
      /\ userGroup' = [userGroup EXCEPT ![u] = Root]
      /\ age' = [age EXCEPT ![u] = 0]
      /\ timeSort' = RemoveFirst(timeSort, u)
      /\ UNCHANGED profile /\ makeSnapShot
  BY DEF RemoveUser
<1>2. /\ superGroupId \in [Groups -> GroupIds]
      /\ subGroups \in [GroupIds -> SUBSET Groups]
      /\ groupIndex \in SUBSET GroupIds /\ Root \in groupIndex
      /\ \A p \in GroupIds : \A x \in subGroups[p] :
            x \in groupIndex /\ superGroupId[x] = p /\ p \in groupIndex
  BY DEF Inv, TypeOK, ListedOnce
<1>3. LeftBy(u) \in [Groups -> SUBSET Users]
  BY DEF LeftBy, Inv, TypeOK
<1>4. \A x \in Groups : LeftBy(u)[x] = userData[x] \ {u}
  BY DEF LeftBy, Inv, TypeOK, ListedOnce
<1>5. /\ groupIndex' \in SUBSET GroupIds /\ Root \in groupIndex'
      /\ superGroupId' \in [Groups -> GroupIds]
      /\ subGroups' \in [GroupIds -> SUBSET Groups]
      /\ userData' \in [Groups -> SUBSET Users]
      /\ userData' = LeftBy(u)
      /\ \A x \in groupIndex \ groupIndex' : LeftBy(u)[x] = {}
      /\ \A p \in GroupIds : \A x \in subGroups'[p] :
            x \in groupIndex' /\ superGroupId'[x] = p /\ p \in groupIndex'
  <2> DEFINE members == LeftBy(u)
  <2>1. members \in [Groups -> SUBSET Users]
    BY <1>3
  <2>2. tryRemoveEmptyGroup(g, superGroupId, members, subGroups)
    BY <1>1
  <2> HIDE DEF members
  <2>3. /\ groupIndex' \in SUBSET GroupIds /\ Root \in groupIndex'
        /\ superGroupId' \in [Groups -> GroupIds]
        /\ subGroups' \in [GroupIds -> SUBSET Groups]
        /\ userData' \in [Groups -> SUBSET Users]
        /\ userData' = members
        /\ \A x \in groupIndex \ groupIndex' : members[x] = {}
        /\ \A p \in GroupIds : \A x \in subGroups'[p] :
              x \in groupIndex' /\ superGroupId'[x] = p /\ p \in groupIndex'
    BY <1>2, <2>1, <2>2, RemovalKeepsLinks
  <2> QED BY <2>3 DEF members
<1>6. /\ TimeSorted' /\ timeSort' \in Seq(Users)
      /\ age' \in [Users -> 0..UserTimeout]
  BY <1>1, RemovalKeepsTimeSorted DEF Inv
<1>7. TypeOK'
  BY <1>1, <1>5, <1>6, PublishKeepsInv DEF Inv, TypeOK, ExecType
<1>8. ListedOnce'
  <2>1. ASSUME NEW x \in Groups, NEW v \in userData'[x]
        PROVE  v \in userIndex' /\ userGroup'[v] = x /\ x \in groupIndex'
    <3>1. v \in userData[x] /\ v # u /\ LeftBy(u)[x] # {}
      BY <1>4, <1>5
    <3>2. v \in userIndex /\ userGroup[v] = x /\ x \in groupIndex
      BY <3>1 DEF Inv, ListedOnce
    <3>3. v \in Users
      BY <1>5
    <3> QED BY <3>1, <3>2, <3>3, <1>1, <1>5 DEF Inv, TypeOK
  <2> QED BY <2>1, <1>5 DEF ListedOnce
<1> QED BY <1>1, <1>6, <1>7, <1>8, PublishKeepsInv DEF Inv

(* DeleteUser, on behalf of whatever group the request names.              *)
LEMMA DeleteUserKeepsInv ==
  ASSUME Inv, NEW u \in Users, NEW g \in Groups, DeleteUser(u, g)
  PROVE  Inv'
<1>1. CASE \E r \in Replies : Refuse(r)
  BY <1>1, RefuseKeepsInv
<1>2. CASE Panic
  BY <1>2, PanicKeepsInv
<1>3. CASE ~(\E r \in Replies : Refuse(r)) /\ ~Panic
  <2>1. RemoveUser(u, g) /\ reply' = "ok" /\ exec' = exec
    BY <1>3 DEF DeleteUser, Replies, Answer
  <2>2. exec' \in ExecType /\ reply' \in Replies /\ g \in GroupIds
    BY <2>1 DEF Inv, TypeOK, ExecType, Replies, GroupIds
  <2> QED BY <2>1, <2>2, RemoveUserKeepsInv
<1> QED BY <1>1, <1>2, <1>3

(* The user that the sweep looks at is registered.                         *)
LEMMA HeadListed ==
  ASSUME Inv, timeSort # <<>>
  PROVE  Head(timeSort) \in Users /\ Head(timeSort) \in userIndex
<1>1. timeSort \in Seq(Users) /\ ToSet(timeSort) = userIndex
  BY DEF Inv, TypeOK, TimeSorted
<1>2. 1 \in DOMAIN timeSort /\ Head(timeSort) = timeSort[1]
  BY <1>1
<1> QED BY <1>1, <1>2 DEF ToSet

(* One iteration of tryRemoveTimeoutUser keeps the invariant.              *)
LEMMA SweepKeepsInv ==
  ASSUME Inv, tryRemoveTimeoutUser
  PROVE  Inv'
<1> DEFINE u == Head(timeSort)
<1>1. u \in Users /\ userGroup[u] \in GroupIds
  BY HeadListed DEF tryRemoveTimeoutUser, FrontTimedOut, Inv, TypeOK
<1>2. reply' \in Replies
  BY DEF tryRemoveTimeoutUser, Inv, TypeOK
<1>3. exec' \in ExecType
  <2>1. exec \in ExecType
    BY DEF Inv, TypeOK, ExecType
  <2>2. IdleExec \in ExecType
    BY DEF IdleExec, ExecType, GroupIds
  <2>3. [exec EXCEPT !.swept = TRUE] \in ExecType
    BY <2>1 DEF ExecType
  <2>4. [IdleExec EXCEPT !.pc = "dead"] \in ExecType
    BY <2>2 DEF ExecType
  <2> QED BY <2>3, <2>4 DEF tryRemoveTimeoutUser
<1>4. UNCHANGED dbVars \/ RemoveUser(u, userGroup[u])
  BY DEF tryRemoveTimeoutUser
<1> QED BY <1>1, <1>2, <1>3, <1>4, UnchangedKeepsInv, RemoveUserKeepsInv

(* The end of a heartbeat keeps the invariant.                             *)
LEMMA FinishKeepsInv ==
  ASSUME Inv, FinishHeartbeat
  PROVE  Inv'
<1>1. /\ UNCHANGED <<groupVars, userIndex, userGroup, profile>>
      /\ makeSnapShot \/ NoSnapShot
      /\ exec' = IdleExec /\ reply' \in Replies
  BY DEF FinishHeartbeat, Replies
<1>2. SnapShotCurrent' /\ global_version' \in Nat /\ snapShot'.Version \in Nat
  <2>1. CASE NoSnapShot
    <3>1. UNCHANGED <<subGroups, userData, profile, global_version, snapShot>>
      BY <1>1, <2>1 DEF NoSnapShot, groupVars
    <3> QED BY <3>1 DEF Inv, TypeOK, SnapShotCurrent, copyGroupToDTO, Reached
  <2> QED BY <1>1, <2>1, PublishKeepsInv
<1>3. /\ TimeSorted' /\ timeSort' \in Seq(Users)
      /\ age' \in [Users -> 0..UserTimeout]
  <2>1. CASE exec.user \in userIndex /\ updateUserTimestamp(exec.user)
    <3>1. exec.user \in Users /\ userIndex' = userIndex \cup {exec.user}
      BY <1>1, <2>1 DEF Inv, TypeOK
    <3> QED BY <2>1, <3>1, StampKeepsTimeSorted DEF Inv
  <2>2. CASE UNCHANGED <<age, timeSort>>
    BY <1>1, <2>2 DEF Inv, TypeOK, TimeSorted
  <2> QED BY <2>1, <2>2 DEF FinishHeartbeat
<1>4. ListedOnce'
  BY <1>1 DEF Inv, ListedOnce, groupVars
<1>5. exec' \in ExecType
  BY <1>1 DEF IdleExec, ExecType, GroupIds
<1>6. TypeOK'
  BY <1>1, <1>2, <1>3, <1>5 DEF Inv, TypeOK, groupVars, ExecType
<1> QED BY <1>2, <1>3, <1>4, <1>6 DEF Inv

(* Time passes for all users alike, which keeps timeSort in order.         *)
LEMMA TickKeepsInv ==
  ASSUME Inv, Tick
  PROVE  Inv'
<1>1. /\ age' = [u \in Users |->
                   IF u \in userIndex /\ age[u] < UserTimeout THEN age[u] + 1
                   ELSE age[u]]
      /\ UNCHANGED <<groupVars, userIndex, userGroup, timeSort, profile,
                     global_version, snapShot, exec, reply>>
  BY DEF Tick
<1>2. age' \in [Users -> 0..UserTimeout]
  BY <1>1, TimeoutAssumption DEF Inv, TypeOK
<1>3. TypeOK'
  BY <1>1, <1>2 DEF Inv, TypeOK, groupVars
<1>4. ListedOnce' /\ SnapShotCurrent'
  BY <1>1 DEF Inv, ListedOnce, SnapShotCurrent, copyGroupToDTO, Reached, groupVars
<1>5. TimeSorted'
  <2>1. \A i \in 1..Len(timeSort) : timeSort[i] \in ToSet(timeSort)
    BY DEF Inv, TypeOK, ToSet
  <2>2. ASSUME NEW i \in 1..Len(timeSort), NEW j \in 1..Len(timeSort), i < j
        PROVE  /\ timeSort[i] # timeSort[j]
               /\ age'[timeSort[i]] >= age'[timeSort[j]]
    <3>1. timeSort[i] \in userIndex /\ timeSort[j] \in userIndex
      BY <2>1 DEF Inv, TimeSorted
    <3>2. timeSort[i] # timeSort[j] /\ age[timeSort[i]] >= age[timeSort[j]]
      BY <2>2 DEF Inv, TimeSorted
    <3> QED BY <3>1, <3>2, <1>1, TimeoutAssumption DEF Inv, TypeOK
  <2> QED BY <2>2, <1>1 DEF Inv, TimeSorted
<1> QED BY <1>3, <1>4, <1>5 DEF Inv

(* What the server does with the database, at any version.                 *)
AnyStep ==
  \/ Command \/ UnusedCommand \/ Heartbeat
  \/ tryRemoveTimeoutUser \/ FinishHeartbeat \/ Tick

(* The invariant is inductive, and the bound on the version plays no part. *)
LEMMA StepKeepsInv == Inv /\ [AnyStep]_vars => Inv'
<1> SUFFICES ASSUME Inv, [AnyStep]_vars PROVE Inv'
  OBVIOUS
<1>1. CASE Command
  BY <1>1, AddNewGroupKeepsInv, UpdataGroupKeepsInv, MoveGroupKeepsInv,
     AddNewUserKeepsInv, UpdataUserKeepsInv, DeleteUserKeepsInv
     DEF Command, GroupIds
<1>2. CASE UnusedCommand
  BY <1>2, DeleteGroupKeepsInv, UpdataUserKeepsInv, PanicKeepsInv
     DEF UnusedCommand, SendMsgToUser, GroupIds
<1>3. CASE Heartbeat
  <2>1. exec' \in ExecType /\ reply' \in Replies /\ UNCHANGED dbVars
    BY <1>3 DEF Heartbeat, UserHeartbeat, ExecType, GroupIds, Inv, TypeOK
  <2> QED BY <2>1, UnchangedKeepsInv
<1>4. CASE UNCHANGED vars
  BY <1>4, UnchangedKeepsInv
     DEF vars, dbVars, groupVars, userVars, Inv, TypeOK, ExecType
<1> QED BY <1>1, <1>2, <1>3, <1>4, SweepKeepsInv, FinishKeepsInv, TickKeepsInv
        DEF AnyStep

(* Every step of the database keeps the invariant, whatever is asked.      *)
LEMMA NextKeepsInv == Inv /\ [Next]_vars => Inv'
BY StepKeepsInv DEF Next, AnyStep

(* The database keeps its types, links, order and snapshot whatever        *)
(* requests arrive.                                                        *)
THEOREM InvHolds == Spec => []Inv
BY InitInv, NextKeepsInv, PTL DEF Spec

(* Every variable keeps its type, whatever requests arrive.                *)
THEOREM TypeCorrect == Spec => []TypeOK
<1>1. Inv => TypeOK
  BY DEF Inv
<1> QED BY <1>1, InvHolds, PTL

(* No group and no user is listed in two places, and what lists and what   *)
(* is listed name each other.                                              *)
THEOREM ListedOnceHolds == Spec => []ListedOnce
<1>1. Inv => ListedOnce
  BY DEF Inv
<1> QED BY <1>1, InvHolds, PTL

(* The order of timeSort is that of the last signs of life.                *)
THEOREM TimeSortedHolds == Spec => []TimeSorted
<1>1. Inv => TimeSorted
  BY DEF Inv
<1> QED BY <1>1, InvHolds, PTL

(* Every command publishes what it changed.                                *)
THEOREM SnapShotCurrentHolds == Spec => []SnapShotCurrent
<1>1. Inv => SnapShotCurrent
  BY DEF Inv
<1> QED BY <1>1, InvHolds, PTL

(* An answered heartbeat has removed everybody that timed out: stopping at *)
(* the first user that is alive misses nobody.                             *)
THEOREM AnsweredHeartbeatSweptHolds == Spec => AnsweredHeartbeatSwept
<1>1. ASSUME Inv, [Next]_vars, exec.pc = "heartbeat", exec'.pc = "idle",
             NEW u \in userIndex
      PROVE  ~TimedOut(u)
  <2>1. FinishHeartbeat
    <3>2. exec.pc # "idle"
      BY <1>1
    <3>3. ~tryRemoveTimeoutUser
      <4>1. SUFFICES ASSUME tryRemoveTimeoutUser PROVE FALSE
        OBVIOUS
      <4>2. exec \in ExecType /\ IdleExec \in ExecType
        BY <1>1 DEF Inv, TypeOK, ExecType, IdleExec, GroupIds
      <4>3. [exec EXCEPT !.swept = TRUE].pc = exec.pc
        BY <4>2 DEF ExecType
      <4>4. [IdleExec EXCEPT !.pc = "dead"].pc = "dead"
        BY <4>2 DEF ExecType
      <4> QED BY <1>1, <4>1, <4>3, <4>4 DEF tryRemoveTimeoutUser
    <3>4. ~Tick /\ ~UNCHANGED vars
      BY <1>1 DEF Tick, vars
    <3> QED BY <1>1, <3>2, <3>3, <3>4 DEF Next, Accepts
  <2>2. PICK i \in 1..Len(timeSort) : u = timeSort[i]
    <3>1. timeSort \in Seq(Users) /\ u \in ToSet(timeSort)
      BY <1>1 DEF Inv, TypeOK, TimeSorted
    <3>2. DOMAIN timeSort = 1..Len(timeSort)
      BY <3>1
    <3> QED BY <3>1, <3>2 DEF ToSet
  <2>3. timeSort \in Seq(Users) /\ timeSort # <<>> /\ Head(timeSort) = timeSort[1]
    BY <1>1, <2>2 DEF Inv, TypeOK
  <2>4. age[timeSort[1]] >= age[timeSort[i]]
    <3>1. timeSort[i] \in Users /\ age[timeSort[i]] \in Int
      BY <2>3, <1>1, TimeoutAssumption DEF Inv, TypeOK
    <3>2. CASE i = 1
      BY <3>1, <3>2
    <3>3. CASE i > 1
      BY <3>3, <1>1, <2>3 DEF Inv, TimeSorted
    <3> QED BY <3>2, <3>3
  <2>5. age[timeSort[1]] # UserTimeout
    BY <2>1, <2>3 DEF FinishHeartbeat, FrontTimedOut, TimedOut
  <2>6. /\ age[timeSort[1]] \in 0..UserTimeout /\ age[timeSort[i]] \in 0..UserTimeout
    BY <1>1, <2>3 DEF Inv, TypeOK
  <2> QED BY <2>2, <2>4, <2>5, <2>6, TimeoutAssumption DEF TimedOut
<1>2. Inv /\ [Next]_vars =>
        [exec.pc = "heartbeat" /\ exec'.pc = "idle"
           => \A u \in userIndex : ~TimedOut(u)]_vars
  BY <1>1
<1> QED BY <1>2, InvHolds, PTL DEF Spec, AnsweredHeartbeatSwept
-----------------------------------------------------------------------------
(***************************************************************************)
(* The app's requests only: nothing is orphaned and nothing panics.        *)
(***************************************************************************)
AppInv == Inv /\ NoOrphans /\ NoPanic

(* Where every super group lists its subgroups, going up from an emptied   *)
(* group meets no missing group and does not come back to its start.       *)
LEMMA NoRemovalPanic ==
  ASSUME NEW start \in GroupIds, NEW super \in [Groups -> GroupIds],
         NEW members \in [Groups -> SUBSET Users],
         NEW subs \in [GroupIds -> SUBSET Groups],
         groupIndex \in SUBSET GroupIds,
         \A g \in groupIndex \ {Root} :
            super[g] \in groupIndex /\ g \in subs[super[g]]
  PROVE  ~EmptyRemovalPanics(start, super, members, subs)
BY EmptiedFromProperties DEF EmptyRemovalPanics

(* What tryRemoveEmptyGroup leaves is linked both ways if it was before.   *)
LEMMA RemovalOrphansNothing ==
  ASSUME NEW start \in GroupIds, NEW super \in [Groups -> GroupIds],
         NEW members \in [Groups -> SUBSET Users],
         NEW subs \in [GroupIds -> SUBSET Groups],
         groupIndex \in SUBSET GroupIds,
         \A g \in groupIndex \ {Root} :
            super[g] \in groupIndex /\ g \in subs[super[g]],
         tryRemoveEmptyGroup(start, super, members, subs)
  PROVE  /\ \A g \in groupIndex' \ {Root} :
               /\ superGroupId'[g] \in groupIndex'
               /\ g \in subGroups'[superGroupId'[g]]
         /\ \A g \in Groups : members[g] # {} /\ g \in groupIndex => g \in groupIndex'
<1> DEFINE gone == EmptiedFrom(start, super, members, subs)
<1>1. /\ gone \subseteq groupIndex \ {Root} /\ gone \subseteq Groups
      /\ \A g \in gone : members[g] = {} /\ subs[g] \subseteq gone
  BY EmptiedFromProperties
<1>2. /\ groupIndex' = groupIndex \ gone
      /\ superGroupId' = [g \in Groups |-> IF g \in gone THEN Root ELSE super[g]]
      /\ subGroups' = [p \in GroupIds |-> subs[p] \ {g \in gone : super[g] = p}]
  BY DEF tryRemoveEmptyGroup
<1> HIDE DEF gone
<1>3. ASSUME NEW g \in groupIndex' \ {Root}
      PROVE  /\ superGroupId'[g] \in groupIndex'
             /\ g \in subGroups'[superGroupId'[g]]
  <2>1. g \in Groups /\ g \in groupIndex /\ g \notin gone
    BY <1>2, <1>3 DEF GroupIds
  <2>2. super[g] \in groupIndex /\ g \in subs[super[g]]
    BY <2>1, <1>3
  <2>3. super[g] \notin gone
    BY <2>1, <2>2, <1>1
  <2> QED BY <1>2, <2>1, <2>2, <2>3
<1> QED BY <1>1, <1>2, <1>3

(* The empty database orphans nothing.                                     *)
LEMMA AppInit == Init => AppInv
<1>1. Init => NoOrphans
  BY DEF Init, NoOrphans
<1>2. Init => NoPanic
  BY DEF Init, NoPanic, IdleExec
<1> QED BY <1>1, <1>2, InitInv DEF AppInv

(* A step that leaves the links and the executor alone keeps AppInv.       *)
LEMMA UnchangedKeepsApp ==
  ASSUME AppInv, UNCHANGED dbVars, exec'.pc # "dead"
  PROVE  NoOrphans' /\ NoPanic'
BY DEF AppInv, NoOrphans, NoPanic, dbVars, groupVars, userVars

(* MoveGroup keeps both ends of every link and does not panic.             *)
LEMMA MoveGroupKeepsApp ==
  ASSUME AppInv, NEW g \in Groups, NEW to \in GroupIds, MoveGroup(g, to)
  PROVE  NoOrphans' /\ NoPanic'
<1> DEFINE start == superGroupId[g]
           super == MovedSuper(g, to)
           subs == MovedSubs(g, to)
<1>1. CASE \E r \in Replies : Refuse(r)
  BY <1>1, UnchangedKeepsApp DEF Refuse, Answer, AppInv, NoPanic
<1>2. CASE ~(\E r \in Replies : Refuse(r))
  <2>1. g # to /\ {g, to} \subseteq groupIndex
    BY <1>2 DEF MoveGroup, Replies
  <2>2. /\ super \in [Groups -> GroupIds]
        /\ subs \in [GroupIds -> SUBSET Groups]
    BY <2>1, MovedLinks DEF AppInv
  <2>3. /\ start \in GroupIds /\ userData \in [Groups -> SUBSET Users]
        /\ groupIndex \in SUBSET GroupIds
        /\ superGroupId \in [Groups -> GroupIds]
    BY DEF AppInv, Inv, TypeOK
  <2>4. start \in groupIndex
    BY <2>1, RootAssumption DEF AppInv, NoOrphans
  <2>5. \A x \in groupIndex \ {Root} :
           super[x] \in groupIndex /\ x \in subs[super[x]]
    <3>1. \A x \in groupIndex \ {Root} :
             /\ superGroupId[x] \in groupIndex
             /\ x \in subGroups[superGroupId[x]] /\ x \in Groups
      BY <2>3 DEF AppInv, NoOrphans, GroupIds
    <3> QED BY <3>1, <2>1, <2>3 DEF MovedSuper, MovedSubs
  <2> HIDE DEF start, super, subs
  <2>6. ~EmptyRemovalPanics(start, super, userData, subs)
    BY <2>2, <2>3, <2>5, NoRemovalPanic
  <2>7. ~MovePanics(g, to)
    BY <2>4, <2>6 DEF MovePanics, start, super, subs
  <2>8. /\ tryRemoveEmptyGroup(start, super, userData, subs)
        /\ UNCHANGED userVars /\ exec' = exec
    BY <1>2, <2>1, <2>7 DEF MoveGroup, Answer, Replies, start, super, subs
  <2>9. /\ \A x \in groupIndex' \ {Root} :
              /\ superGroupId'[x] \in groupIndex'
              /\ x \in subGroups'[superGroupId'[x]]
        /\ \A x \in Groups : userData[x] # {} /\ x \in groupIndex => x \in groupIndex'
    BY <2>2, <2>3, <2>5, <2>8, RemovalOrphansNothing
  <2>10. userData' = userData
    BY <2>8 DEF tryRemoveEmptyGroup
  <2>11. \A u \in userIndex' : /\ userGroup'[u] \in groupIndex' \ {Root}
                               /\ u \in userData'[userGroup'[u]]
    <3>1. \A u \in userIndex : /\ userGroup[u] \in groupIndex \ {Root}
                               /\ u \in userData[userGroup[u]]
                               /\ userGroup[u] \in Groups
      BY <2>3 DEF AppInv, NoOrphans, GroupIds
    <3> QED BY <3>1, <2>8, <2>9, <2>10 DEF userVars
  <2> QED BY <2>8, <2>9, <2>11 DEF NoOrphans, NoPanic, AppInv
<1> QED BY <1>1, <1>2

(* Removing a user of a sound database meets no missing group.             *)
LEMMA NoUserRemovalPanic ==
  ASSUME AppInv, NEW u \in userIndex, NEW g \in GroupIds
  PROVE  ~RemovalPanics(u, g)
<1> DEFINE members == LeftBy(u)
<1>1. members \in [Groups -> SUBSET Users]
  BY DEF LeftBy, AppInv, Inv, TypeOK
<1> HIDE DEF members
<1>2. ~EmptyRemovalPanics(g, superGroupId, members, subGroups)
  BY <1>1, NoRemovalPanic DEF AppInv, Inv, TypeOK, NoOrphans
<1> QED BY <1>2 DEF RemovalPanics, members, AppInv, NoOrphans

(* Removing a user, with the groups that empties, orphans nothing.         *)
LEMMA RemoveUserKeepsApp ==
  ASSUME AppInv, NEW u \in userIndex, NEW g \in GroupIds, RemoveUser(u, g),
         exec'.pc # "dead"
  PROVE  NoOrphans' /\ NoPanic'
<1> DEFINE members == LeftBy(u)
<1>1. /\ members \in [Groups -> SUBSET Users]
      /\ \A x \in Groups : members[x] = userData[x] \ {u}
  <2>1. members \in [Groups -> SUBSET Users]
    BY DEF LeftBy, AppInv, Inv, TypeOK
  <2>2. \A x \in Groups : members[x] = userData[x] \ {u}
    BY DEF LeftBy, AppInv, Inv, TypeOK, ListedOnce
  <2> QED BY <2>1, <2>2
<1>2. /\ tryRemoveEmptyGroup(g, superGroupId, members, subGroups)
      /\ userIndex' = userIndex \ {u}
      /\ userGroup' = [userGroup EXCEPT ![u] = Root]
  BY DEF RemoveUser
<1> HIDE DEF members
<1>3. /\ \A x \in groupIndex' \ {Root} :
            /\ superGroupId'[x] \in groupIndex'
            /\ x \in subGroups'[superGroupId'[x]]
      /\ \A x \in Groups : members[x] # {} /\ x \in groupIndex => x \in groupIndex'
  BY <1>1, <1>2, RemovalOrphansNothing DEF AppInv, Inv, TypeOK, NoOrphans
<1>4. userData' = members
  BY <1>2 DEF tryRemoveEmptyGroup
<1>5. ASSUME NEW v \in userIndex'
      PROVE  /\ userGroup'[v] \in groupIndex' \ {Root}
             /\ v \in userData'[userGroup'[v]]
  <2>1. v \in userIndex /\ v # u /\ v \in Users /\ u \in Users
    BY <1>2, <1>5 DEF AppInv, Inv, TypeOK
  <2>2. userGroup'[v] = userGroup[v]
    BY <1>2, <2>1 DEF AppInv, Inv, TypeOK
  <2>3. /\ userGroup[v] \in groupIndex \ {Root} /\ v \in userData[userGroup[v]]
        /\ userGroup[v] \in Groups
    BY <2>1 DEF AppInv, NoOrphans, Inv, TypeOK, GroupIds
  <2> QED BY <2>1, <2>2, <2>3, <1>1, <1>3, <1>4
<1> QED BY <1>3, <1>5 DEF NoOrphans, NoPanic

(* No request that the app makes orphans anything.                         *)
LEMMA CommandKeepsApp ==
  ASSUME AppInv, Command
  PROVE  NoOrphans' /\ NoPanic'
<1> USE DEF AppInv
<1> DEFINE Same == UNCHANGED dbVars /\ exec' = exec
<1>1. CASE Same
  BY <1>1, UnchangedKeepsApp DEF NoPanic
<1>2. ASSUME NEW g \in Groups, NEW d \in Profiles, AddNewGroup(g, Root, d)
      PROVE  NoOrphans' /\ NoPanic'
  <2>1. CASE Same
    BY <2>1, <1>1
  <2>2. CASE ~Same
    <3>1. /\ g \notin groupIndex
          /\ superGroupId' = [superGroupId EXCEPT ![g] = Root]
          /\ subGroups' = [subGroups EXCEPT ![Root] = @ \cup {g}]
          /\ groupIndex' = groupIndex \cup {g}
          /\ UNCHANGED <<userData, userIndex, userGroup>> /\ exec' = exec
      BY <1>2, <2>2 DEF AddNewGroup, Refuse, Answer, Inv, TypeOK, userVars
    <3> QED BY <3>1 DEF Inv, TypeOK, NoOrphans, NoPanic, GroupIds
  <2> QED BY <2>1, <2>2
<1>3. ASSUME NEW g \in Groups, NEW d \in Profiles, UpdataGroup(g, d)
      PROVE  NoOrphans' /\ NoPanic'
  <2>1. UNCHANGED <<groupVars, userIndex, userGroup>> /\ exec' = exec
    BY <1>3 DEF UpdataGroup, Refuse, Answer, dbVars, userVars
  <2> QED BY <2>1 DEF NoOrphans, NoPanic, groupVars
<1>4. ASSUME NEW u \in Users, NEW g \in Groups, NEW d \in Profiles,
             AddNewUser(u, g, d)
      PROVE  NoOrphans' /\ NoPanic'
  <2>1. CASE Same
    BY <2>1, <1>1
  <2>2. CASE ~Same
    <3>1. /\ u \notin userIndex /\ g \in groupIndex
          /\ userData' = [userData EXCEPT ![g] = @ \cup {u}]
          /\ userGroup' = [userGroup EXCEPT ![u] = g]
          /\ userIndex' = userIndex \cup {u}
          /\ UNCHANGED <<groupIndex, superGroupId, subGroups>> /\ exec' = exec
      BY <1>4, <2>2 DEF AddNewUser, Refuse, Answer
    <3>2. \A v \in userIndex : userGroup[v] \in Groups
      BY DEF Inv, TypeOK, NoOrphans, GroupIds
    <3> QED BY <3>1, <3>2, RootAssumption DEF Inv, TypeOK, NoOrphans, NoPanic
  <2> QED BY <2>1, <2>2
<1>5. ASSUME NEW u \in Users, NEW d \in Profiles, UpdataUser(u, Root, d)
      PROVE  NoOrphans' /\ NoPanic'
  <2>1. UNCHANGED <<groupVars, userIndex, userGroup>> /\ exec' = exec
    BY <1>5 DEF UpdataUser, Refuse, Answer, dbVars, userVars
  <2> QED BY <2>1 DEF NoOrphans, NoPanic, groupVars
<1>6. ASSUME NEW u \in Users, NEW g \in Groups, DeleteUser(u, g)
      PROVE  NoOrphans' /\ NoPanic'
  <2>1. CASE Same
    BY <2>1, <1>1
  <2>2. CASE ~Same
    <3>1. u \in userIndex /\ g \in GroupIds
      BY <1>6, <2>2 DEF DeleteUser, Refuse, Answer, GroupIds
    <3>2. RemoveUser(u, g) /\ exec' = exec
      BY <1>6, <2>2, <3>1, NoUserRemovalPanic DEF DeleteUser, Refuse, Answer
    <3> QED BY <3>1, <3>2, RemoveUserKeepsApp DEF NoPanic
  <2> QED BY <2>1, <2>2
<1> QED BY <1>2, <1>3, <1>4, <1>5, <1>6, MoveGroupKeepsApp DEF Command

(* Nor does an iteration of the sweep.                                     *)
LEMMA SweepKeepsApp ==
  ASSUME AppInv, tryRemoveTimeoutUser
  PROVE  NoOrphans' /\ NoPanic'
<1> DEFINE u == Head(timeSort)
<1>1. u \in userIndex /\ u \in Users
  BY HeadListed DEF tryRemoveTimeoutUser, FrontTimedOut, AppInv
<1>2. userGroup[u] \in groupIndex /\ userGroup[u] \in GroupIds
  BY <1>1 DEF AppInv, NoOrphans, Inv, TypeOK
<1>3. RemoveUser(u, userGroup[u]) /\ exec' = [exec EXCEPT !.swept = TRUE]
  BY <1>1, <1>2, NoUserRemovalPanic DEF tryRemoveTimeoutUser
<1>4. exec'.pc # "dead"
  <2>1. exec \in ExecType
    BY DEF AppInv, Inv, TypeOK, ExecType
  <2>2. [exec EXCEPT !.swept = TRUE].pc = exec.pc
    BY <2>1 DEF ExecType
  <2> QED BY <1>3, <2>2 DEF AppInv, NoPanic
<1> QED BY <1>1, <1>2, <1>3, <1>4, RemoveUserKeepsApp

(* What the server does with the app's requests, at any version.           *)
AppStep == Command \/ Heartbeat \/ tryRemoveTimeoutUser \/ FinishHeartbeat \/ Tick

(* The steps of the database when only the app's requests are made.        *)
AppNext ==
  \/ Accepts /\ Command
  \/ exec.pc = "idle" /\ Heartbeat
  \/ tryRemoveTimeoutUser
  \/ FinishHeartbeat
  \/ Tick

(* Such steps are all there are when nothing else is asked of the server.  *)
LEMMA AppSteps == /\ AppNext => Next
                  /\ ~UnusedRequests /\ Next => AppNext
BY DEF AppNext, Next, UnusedCommand

(* With the app's requests AppInv is inductive, at any version.            *)
LEMMA StepKeepsApp == AppInv /\ [AppStep]_vars => AppInv'
<1> SUFFICES ASSUME AppInv, [AppStep]_vars PROVE AppInv'
  OBVIOUS
<1>1. Inv'
  BY StepKeepsInv DEF AppInv, AppStep, AnyStep
<1>2. CASE Heartbeat
  <2>1. UNCHANGED dbVars /\ exec'.pc # "dead"
    BY <1>2 DEF Heartbeat, UserHeartbeat
  <2> QED BY <1>1, <2>1, UnchangedKeepsApp DEF AppInv
<1>3. CASE FinishHeartbeat \/ Tick \/ UNCHANGED vars
  <2>1. UNCHANGED <<groupVars, userIndex, userGroup>>
    BY <1>3 DEF FinishHeartbeat, Tick, vars, groupVars
  <2>2. exec'.pc # "dead"
    <3>1. IdleExec.pc # "dead"
      BY DEF IdleExec
    <3> QED BY <1>3, <3>1 DEF FinishHeartbeat, Tick, vars, AppInv, NoPanic
  <2> QED BY <1>1, <2>1, <2>2 DEF AppInv, NoOrphans, NoPanic, groupVars
<1>4. CASE Command \/ tryRemoveTimeoutUser
  BY <1>1, <1>4, CommandKeepsApp, SweepKeepsApp DEF AppInv
<1> QED BY <1>2, <1>3, <1>4 DEF AppStep

(* Every step that the app asks for keeps the invariant with NoOrphans.    *)
LEMMA NextKeepsApp == AppInv /\ [AppNext]_vars => AppInv'
BY StepKeepsApp DEF AppNext, AppStep

(* Served only the app's requests, the database is sound in every state.   *)
LEMMA AppInvHolds ==
  ASSUME ~UnusedRequests
  PROVE  Spec => []AppInv
<1>1. AppInv /\ [Next]_vars => AppInv'
  BY NextKeepsApp, AppSteps
<1> QED BY <1>1, AppInit, PTL DEF Spec

(* Served only the app's requests, the server loses no group and no user   *)
(* from its links, however merges, removals and time-outs are interleaved. *)
THEOREM AppNeverOrphans ==
  ASSUME ~UnusedRequests
  PROVE  Spec => []NoOrphans
<1>1. AppInv => NoOrphans
  BY DEF AppInv
<1> QED BY <1>1, AppInvHolds, PTL

(* Served only the app's requests, the executor never dereferences nil: no *)
(* request of one client takes the server down for the others.             *)
THEOREM AppNeverPanics ==
  ASSUME ~UnusedRequests
  PROVE  Spec => []NoPanic
<1>1. AppInv => NoPanic
  BY DEF AppInv
<1> QED BY <1>1, AppInvHolds, PTL
-----------------------------------------------------------------------------
(***************************************************************************)
(* How far the removal of emptied groups goes.                             *)
(***************************************************************************)
(* What tryRemoveEmptyGroup removes is a path up from its start: it takes  *)
(* the start if that is empty, it takes every group above that it leaves   *)
(* without members and subgroups, and there is one group at most at its    *)
(* upper end.                                                              *)
LEMMA EmptiedFromClimbs ==
  ASSUME NEW start \in GroupIds, NEW super \in [Groups -> GroupIds],
         NEW members \in [Groups -> SUBSET Users],
         NEW subs \in [GroupIds -> SUBSET Groups],
         groupIndex \in SUBSET GroupIds,
         \A p \in GroupIds : \A g \in subs[p] : super[g] = p
  PROVE  LET gone == EmptiedFrom(start, super, members, subs) IN
         /\ start \in groupIndex \ {Root} /\ members[start] = {} /\ subs[start] = {}
              => start \in gone
         /\ \A x \in gone :
               super[x] \in groupIndex \ {Root}
               /\ members[super[x]] = {} /\ subs[super[x]] = {x}
               => super[x] \in gone
         /\ \A x, y \in gone :
               super[x] = super[y] /\ super[x] \notin gone => x = y
<1> DEFINE Empty(g, left) == /\ g \in groupIndex \ {Root}
                             /\ members[g] = {}
                             /\ subs[g] = left
           Closed(S) == /\ Empty(start, {}) => start \in S
                        /\ \A g \in S : Empty(super[g], {g}) => super[g] \in S
           gone == {g \in Groups : \A S \in SUBSET Groups : Closed(S) => g \in S}
<1>1. gone = EmptiedFrom(start, super, members, subs)
  BY DEF EmptiedFrom
<1>2. \A x \in groupIndex \ {Root} : x \in Groups
  BY DEF GroupIds
<1>3. Closed(gone)
  BY <1>2
<1>4. \A S \in SUBSET gone : Closed(S) => S = gone
  <2>1. gone \in SUBSET Groups
    OBVIOUS
  <2> QED BY <2>1
<1>5. \A x \in gone : x \in Groups /\ x \in GroupIds
  BY DEF GroupIds
<1> HIDE DEF gone
<1>6. ASSUME NEW x \in gone, NEW y \in gone,
             super[x] = super[y], super[x] \notin gone
      PROVE  x = y
  <2> DEFINE Below(S) == x \in S /\ \A g \in S : \A c \in subs[g] \cap gone : c \in S
             path == {g \in gone : \A S \in SUBSET gone : Below(S) => g \in S}
  <2>1. Below(path) /\ path \in SUBSET gone
    OBVIOUS
  <2>2. \A S \in SUBSET path : Below(S) => S = path
    OBVIOUS
  <2> HIDE DEF path
  <2>3. ASSUME Closed(gone \ path) PROVE FALSE
    <3>1. gone \ path \in SUBSET gone
      OBVIOUS
    <3>2. gone \ path = gone
      <4> HIDE DEF Closed
      <4> QED BY <1>4, <2>3, <3>1
    <3>3. x \in path
      BY <2>1
    <3> QED BY <3>2, <3>3, <2>1
  <2>4. \A g \in gone \ path : Empty(super[g], {g}) => super[g] \in gone \ path
    BY <2>1, <1>3
  <2>5. Empty(start, {}) /\ start \in path
    BY <2>3, <2>4, <1>3
  <2>6. ASSUME NEW g \in path, g # x
        PROVE  super[g] \in path
    <3>1. ~Below(path \ {g})
      <4>1. path \ {g} \in SUBSET path /\ path \ {g} # path
        BY <2>6
      <4> HIDE DEF Below
      <4> QED BY <4>1, <2>2
    <3>2. PICK h \in path : g \in subs[h]
      BY <2>1, <2>6, <3>1
    <3> QED BY <3>2, <2>1, <1>5
  <2>7. ~Empty(super[x], {x})
    BY <1>3, <1>6
  <2>8. Closed(path)
    BY <2>5, <2>6, <2>7
  <2>9. y \in path
    BY <2>1, <2>8, <1>4
  <2> QED BY <2>1, <2>6, <2>9, <1>6
<1>7. start \in groupIndex \ {Root} /\ members[start] = {} /\ subs[start] = {}
        => start \in gone
  BY <1>3
<1>9. ASSUME NEW x \in gone,
             super[x] \in groupIndex \ {Root},
             members[super[x]] = {}, subs[super[x]] = {x}
      PROVE  super[x] \in gone
  <2>1. Empty(super[x], {x})
    BY <1>9
  <2> HIDE DEF Empty
  <2> QED BY <1>3, <2>1
<1>8. \A x, y \in gone : super[x] = super[y] /\ super[x] \notin gone => x = y
  BY <1>6
<1> SUFFICES
      /\ start \in groupIndex \ {Root} /\ members[start] = {} /\ subs[start] = {}
           => start \in gone
      /\ \A x \in gone :
            super[x] \in groupIndex \ {Root}
            /\ members[super[x]] = {} /\ subs[super[x]] = {x}
            => super[x] \in gone
      /\ \A x, y \in gone : super[x] = super[y] /\ super[x] \notin gone => x = y
  BY <1>1, Zenon
<1> QED BY <1>7, <1>8, <1>9

(* Once a user is removed on behalf of its own group, no group is left     *)
(* that this emptied.                                                      *)
LEMMA RemovalLeavesNoneHollow ==
  ASSUME Inv, NEW u \in userIndex, RemoveUser(u, userGroup[u]),
         NEW g \in groupIndex' \ {Root}, Hollow(g)'
  PROVE  Hollow(g)
<1> DEFINE start == userGroup[u]
           members == LeftBy(u)
           gone == EmptiedFrom(start, superGroupId, members, subGroups)
<1>1. /\ start \in GroupIds /\ superGroupId \in [Groups -> GroupIds]
      /\ subGroups \in [GroupIds -> SUBSET Groups]
      /\ groupIndex \in SUBSET GroupIds
      /\ \A p \in GroupIds : \A x \in subGroups[p] :
            x \in groupIndex /\ superGroupId[x] = p /\ p \in groupIndex
  BY DEF Inv, TypeOK, ListedOnce
<1>2. members \in [Groups -> SUBSET Users]
  BY DEF LeftBy, Inv, TypeOK
<1>3. \A x \in Groups : /\ members[x] = userData[x] \ {u}
                        /\ u \in userData[x] => x = start
  BY DEF LeftBy, Inv, TypeOK, ListedOnce
<1>4. /\ groupIndex' = groupIndex \ gone
      /\ subGroups' = [p \in GroupIds |->
                         subGroups[p] \ {x \in gone : superGroupId[x] = p}]
      /\ userData' = members
  BY DEF RemoveUser, tryRemoveEmptyGroup
<1> HIDE DEF members, start
<1>5. gone # {} => subGroups[start] = {}
  BY <1>1, <1>2, EmptiedFromProperties
<1>6. /\ start \in groupIndex \ {Root} /\ members[start] = {} /\ subGroups[start] = {}
           => start \in gone
      /\ \A x \in gone :
            superGroupId[x] \in groupIndex \ {Root}
            /\ members[superGroupId[x]] = {} /\ subGroups[superGroupId[x]] = {x}
            => superGroupId[x] \in gone
      /\ \A x, y \in gone :
            superGroupId[x] = superGroupId[y] /\ superGroupId[x] \notin gone => x = y
  BY <1>1, <1>2, EmptiedFromClimbs
<1> HIDE DEF gone
<1>7. /\ g \in Groups /\ g \in GroupIds /\ g \in groupIndex \ {Root} /\ g \notin gone
      /\ members[g] = {} /\ subGroups[g] \subseteq {x \in gone : superGroupId[x] = g}
  BY <1>1, <1>4 DEF Hollow, GroupIds
<1>8. subGroups[g] = {}
  <2> SUFFICES ASSUME NEW x \in subGroups[g] PROVE FALSE
    OBVIOUS
  <2>1. x \in gone /\ superGroupId[x] = g
    BY <1>7
  <2>2. subGroups[g] = {x}
    BY <1>6, <1>7, <2>1
  <2> QED BY <1>6, <1>7, <2>1, <2>2
<1>9. userData[g] = {}
  <2> SUFFICES ASSUME userData[g] # {} PROVE FALSE
    OBVIOUS
  <2>1. g = start
    BY <1>3, <1>7
  <2> QED BY <1>6, <1>7, <1>8, <2>1
<1> QED BY <1>7, <1>8, <1>9 DEF Hollow

(* A user that times out, or leaves on behalf of its own group, takes with *)
(* it every group that this leaves empty, up to the first that is not.     *)
THEOREM RemovalLeavesNoEmptyGroup == Spec => NoEmptyGroupLeft
<1> DEFINE Leaves(u) ==
      u \in userIndex /\ u \notin userIndex' /\
      (exec.pc = "heartbeat" \/ DeleteUser(u, userGroup[u]))
<1>1. ASSUME Inv, [Next]_vars, NEW u \in Users, Leaves(u)
      PROVE  RemoveUser(u, userGroup[u])
  <2>1. CASE DeleteUser(u, userGroup[u])
    <3>1. ~UNCHANGED dbVars
      BY <1>1 DEF dbVars, userVars
    <3> QED BY <2>1, <3>1 DEF DeleteUser, Refuse, Panic
  <2>2. CASE exec.pc = "heartbeat"
    <3>1. tryRemoveTimeoutUser
      BY <1>1, <2>2 DEF Next, Accepts, FinishHeartbeat, Tick, vars
    <3> DEFINE v == Head(timeSort)
    <3>2. ~UNCHANGED dbVars
      BY <1>1 DEF dbVars, userVars
    <3>3. RemoveUser(v, userGroup[v])
      BY <3>1, <3>2 DEF tryRemoveTimeoutUser
    <3>4. u = v
      BY <1>1, <3>3 DEF RemoveUser
    <3> HIDE DEF v
    <3> QED BY <3>3, <3>4
  <2> QED BY <1>1, <2>1, <2>2
<1>2. Inv /\ [Next]_vars =>
        [\A u \in Users : Leaves(u)
           => \A g \in groupIndex' \ {Root} : Hollow(g)' => Hollow(g)]_vars
  <2> SUFFICES ASSUME Inv, [Next]_vars, NEW u \in Users, Leaves(u),
                      NEW g \in groupIndex' \ {Root}, Hollow(g)'
               PROVE  Hollow(g)
    OBVIOUS
  <2>1. RemoveUser(u, userGroup[u])
    BY <1>1
  <2> QED BY <2>1, RemovalLeavesNoneHollow
<1> QED BY <1>2, InvHolds, PTL DEF Spec, NoEmptyGroupLeft
-----------------------------------------------------------------------------
(***************************************************************************)
(* Which groups the list shows.                                            *)
(***************************************************************************)
(* The root is reached, and with a group all it lists.                     *)
LEMMA ReachedClosed ==
  ASSUME Inv
  PROVE  /\ Root \in Reached /\ Reached \in SUBSET GroupIds
         /\ \A p \in Reached : subGroups[p] \subseteq Reached
         /\ \A S \in SUBSET GroupIds :
               Root \in S /\ (\A p \in S : subGroups[p] \subseteq S)
                 => Reached \subseteq S
<1>1. \A p \in GroupIds : subGroups[p] \subseteq GroupIds
  BY DEF Inv, TypeOK, GroupIds
<1>2. Root \in GroupIds
  BY DEF GroupIds
<1> QED BY <1>1, <1>2 DEF Reached

(* A group that is moved to the root by the command that unmerges it is    *)
(* shown by the list that the command publishes, or nobody was in it.      *)
THEOREM UnmergedGroupShows == Spec => UnmergeShows
<1>1. ASSUME Inv, [Next]_vars, Inv', ~UNCHANGED vars, NEW g \in Groups,
             MoveGroup(g, Root), reply' = "ok", exec' = exec, g \in groupIndex'
      PROVE  Shown(g)'
  <2>1. exec'.pc # "dead"
    BY <1>1 DEF Next, Accepts, tryRemoveTimeoutUser, FinishHeartbeat, Tick
  <2>2. g # Root /\ ~Panic
    BY <2>1, RootAssumption DEF Panic, IdleExec
  <2>3. /\ {g, Root} \subseteq groupIndex
        /\ tryRemoveEmptyGroup(superGroupId[g], MovedSuper(g, Root), userData,
                               MovedSubs(g, Root))
        /\ makeSnapShot
    BY <1>1, <2>2 DEF MoveGroup, Refuse, Answer
  <2>4. Root \in GroupIds /\ g \in MovedSubs(g, Root)[Root]
    BY DEF GroupIds, MovedSubs
  <2>5. g \in subGroups'[Root]
    <3> DEFINE gone == EmptiedFrom(superGroupId[g], MovedSuper(g, Root), userData,
                                   MovedSubs(g, Root))
    <3>1. /\ groupIndex' = groupIndex \ gone
          /\ subGroups'[Root] = MovedSubs(g, Root)[Root]
                                  \ {x \in gone : MovedSuper(g, Root)[x] = Root}
      BY <2>3, <2>4 DEF tryRemoveEmptyGroup
    <3> HIDE DEF gone
    <3> QED BY <1>1, <2>4, <3>1
  <2>6. Root \in Reached'
    BY <2>4 DEF Reached
  <2>7. <<Root, g>> \in copyGroupToDTO'.subGroups
    BY <2>4, <2>5, <2>6 DEF copyGroupToDTO
  <2> QED BY <2>3, <2>4, <2>7 DEF makeSnapShot, Shown
<1>2. Inv /\ Inv' /\ [Next]_vars =>
        [\A g \in Groups : MoveGroup(g, Root) /\ reply' = "ok" /\ UNCHANGED exec
           => Shown(g)' \/ g \notin groupIndex']_vars
  BY <1>1
<1> QED BY <1>2, InvHolds, PTL DEF Spec, UnmergeShows

(* In a sound database a group is reached from the root exactly when going *)
(* up from it gets to the root.                                            *)
LEMMA ReachedFromAbove ==
  ASSUME AppInv, NEW g \in groupIndex
  PROVE  g \in Reached <=> Root \in Above(g)
<1>1. /\ groupIndex \in SUBSET GroupIds /\ Root \in groupIndex
      /\ subGroups \in [GroupIds -> SUBSET Groups] /\ g \in GroupIds
  BY DEF AppInv, Inv, TypeOK
<1>2. ASSUME g \in Reached PROVE Root \in Above(g)
  <2> DEFINE Q == {x \in GroupIds : Root \in Above(x)}
  <2>1. Root \in Q
    BY <1>1 DEF Above
  <2>2. ASSUME NEW p \in Q, NEW c \in subGroups[p]
        PROVE  c \in Q
    <3>1. p \in GroupIds /\ Root \in Above(p)
      OBVIOUS
    <3>2. c \in Groups /\ c # Root /\ superGroupId[c] = p /\ c \in GroupIds
      BY <1>1, <3>1, RootAssumption DEF AppInv, Inv, ListedOnce, GroupIds
    <3>3. Root \in Above(c)
      BY <1>1, <3>1, <3>2 DEF Above
    <3> QED BY <3>2, <3>3
  <2> HIDE DEF Q
  <2>3. Q \in SUBSET GroupIds
    BY DEF Q
  <2>4. Reached \subseteq Q
    BY <2>1, <2>2, <2>3, ReachedClosed DEF AppInv
  <2> QED BY <1>2, <2>4 DEF Q
<1>3. ASSUME g \notin Reached PROVE Root \notin Above(g)
  <2> DEFINE S == groupIndex \ Reached
  <2>1. /\ Root \in Reached
        /\ \A p \in Reached : subGroups[p] \subseteq Reached
    BY ReachedClosed DEF AppInv
  <2>2. \A x \in S \ {Root} : superGroupId[x] \in S
    BY <2>1 DEF AppInv, NoOrphans
  <2>3. g \in S /\ Root \notin S /\ S \in SUBSET GroupIds
    BY <1>1, <1>3, <2>1
  <2> HIDE DEF S
  <2> QED BY <2>2, <2>3 DEF Above
<1> QED BY <1>2, <1>3

(* Where nothing is orphaned, the list misses exactly the users of groups  *)
(* from which no way leads to the root.                                    *)
LEMMA CyclesHide ==
  ASSUME AppInv
  PROVE  HiddenOnlyInCycle
<1> SUFFICES ASSUME NEW u \in userIndex
             PROVE  (<<userGroup[u], u>> \in snapShot.Data.users)
                      <=> Root \in Above(userGroup[u])
  BY DEF HiddenOnlyInCycle
<1>1. /\ userGroup[u] \in groupIndex /\ userGroup[u] \in Groups
      /\ u \in userData[userGroup[u]] /\ u \in Users
  BY DEF AppInv, NoOrphans, Inv, TypeOK, GroupIds
<1>2. snapShot.Data.users = {m \in Groups \X Users :
                               m[1] \in Reached /\ m[2] \in userData[m[1]]}
  BY DEF AppInv, Inv, SnapShotCurrent, copyGroupToDTO
<1>3. (<<userGroup[u], u>> \in snapShot.Data.users) <=> userGroup[u] \in Reached
  BY <1>1, <1>2
<1> QED BY <1>1, <1>3, ReachedFromAbove

(* Served only the app's requests, the list misses a registered user only  *)
(* because the groups its group was merged into form a cycle: all others   *)
(* are shown, in the group they are in.                                    *)
THEOREM OnlyCyclesHide ==
  ASSUME ~UnusedRequests
  PROVE  Spec => []HiddenOnlyInCycle
BY CyclesHide, AppInvHolds, PTL
-----------------------------------------------------------------------------
(***************************************************************************)
(* What a command does to the users and groups that its sender knows of.   *)
(***************************************************************************)
(* Every command either leaves the snapshot alone or publishes a newer     *)
(* one, and the executor waits for the next command afterwards.            *)
LEMMA CommandOutcome ==
  ASSUME AppInv, Command
  PROVE  /\ exec' = exec
         /\ snapShot' = snapShot \/ snapShot'.Version > snapShot.Version
<1>1. AppInv'
  BY StepKeepsApp DEF AppStep
<1>2. exec' = exec
  <2>1. ~Panic
    BY <1>1 DEF AppInv, NoPanic, Panic, IdleExec
  <2> QED BY <2>1 DEF Command, AddNewGroup, UpdataGroup, MoveGroup, AddNewUser,
                      UpdataUser, DeleteUser, Refuse, Answer
<1>3. snapShot' = snapShot \/ makeSnapShot
  <2>1. ~Panic
    BY <1>1 DEF AppInv, NoPanic, Panic, IdleExec
  <2> QED BY <2>1 DEF Command, AddNewGroup, UpdataGroup, MoveGroup, AddNewUser,
                      UpdataUser, DeleteUser, RemoveUser, Refuse, dbVars
<1>4. makeSnapShot => snapShot'.Version > snapShot.Version
  BY DEF makeSnapShot, AppInv, Inv, TypeOK, SnapShotCurrent
<1> QED BY <1>2, <1>3, <1>4

(* Once a group was asked for it is there.                                 *)
LEMMA AddNewGroupOutcome ==
  ASSUME AppInv, NEW g \in Groups, NEW d \in Profiles, AddNewGroup(g, Root, d)
  PROVE  /\ UNCHANGED <<userIndex, userGroup>>
         /\ reply' \in {"ok", "exists"}
         /\ g \in groupIndex' /\ groupIndex \subseteq groupIndex'
BY RootAssumption DEF AddNewGroup, Refuse, Answer, userVars, dbVars, groupVars

(* A user is answered "ok" exactly when it was not registered and its      *)
(* group is there, and is then registered in that group.                   *)
LEMMA AddNewUserOutcome ==
  ASSUME AppInv, NEW u \in Users, NEW g \in Groups, NEW d \in Profiles,
         AddNewUser(u, g, d)
  PROVE  /\ groupIndex' = groupIndex
         /\ reply' = "ok" <=> u \notin userIndex /\ g \in groupIndex
         /\ reply' # "error"
         /\ reply' = "ok" => /\ userIndex' = userIndex \cup {u}
                             /\ userGroup' = [userGroup EXCEPT ![u] = g]
                             /\ snapShot'.Version > snapShot.Version
         /\ reply' # "ok" => UNCHANGED <<userIndex, userGroup>>
<1>1. makeSnapShot => snapShot'.Version > snapShot.Version
  BY DEF makeSnapShot, AppInv, Inv, TypeOK, SnapShotCurrent
<1> QED BY <1>1 DEF AddNewUser, Refuse, Answer, userVars, dbVars, groupVars

(* No update and no move registers or removes a user.                      *)
LEMMA UpdateOutcome ==
  ASSUME NEW u, NEW g, NEW to, NEW d,
         UpdataUser(u, g, d) \/ UpdataGroup(g, d) \/ MoveGroup(g, to)
  PROVE  UNCHANGED <<userIndex, userGroup>>
BY DEF UpdataUser, UpdataGroup, MoveGroup, Refuse, Panic, userVars, dbVars

(* A removal removes that user only, and removes it whenever the group it  *)
(* is asked for is there.                                                  *)
LEMMA DeleteUserOutcome ==
  ASSUME AppInv, NEW u \in Users, NEW g \in Groups, DeleteUser(u, g)
  PROVE  /\ userIndex' \subseteq userIndex /\ userIndex \ {u} \subseteq userIndex'
         /\ \A v \in Users \ {u} : userGroup'[v] = userGroup[v]
         /\ g \in groupIndex => u \notin userIndex'
         /\ u \in userIndex' => UNCHANGED userGroup
<1>1. u \in userIndex => ~RemovalPanics(u, g)
  BY NoUserRemovalPanic DEF GroupIds
<1>2. CASE u \in userIndex /\ g \in groupIndex
  <2>1. RemoveUser(u, g)
    BY <1>1, <1>2 DEF DeleteUser, Replies, Refuse
  <2> QED BY <1>2, <2>1 DEF RemoveUser, AppInv, Inv, TypeOK
<1>3. CASE ~(u \in userIndex /\ g \in groupIndex)
  <2>1. UNCHANGED <<userIndex, userGroup>>
    BY <1>3 DEF DeleteUser, Refuse, dbVars, userVars
  <2> QED BY <1>3, <2>1 DEF AppInv, Inv, TypeOK
<1> QED BY <1>2, <1>3

(* An iteration of the sweep removes the user in front and publishes that. *)
LEMMA SweepOutcome ==
  ASSUME AppInv, tryRemoveTimeoutUser
  PROVE  /\ timeSort[1] \in userIndex
         /\ userIndex' = userIndex \ {timeSort[1]}
         /\ \A v \in Users \ {timeSort[1]} : userGroup'[v] = userGroup[v]
         /\ exec'.pc = "heartbeat"
         /\ snapShot'.Version > snapShot.Version
<1> DEFINE u == Head(timeSort)
<1>1. u \in userIndex /\ u \in Users /\ u = timeSort[1]
  BY HeadListed DEF tryRemoveTimeoutUser, FrontTimedOut, AppInv, Inv, TypeOK
<1>2. userGroup[u] \in groupIndex /\ userGroup[u] \in GroupIds
  BY <1>1 DEF AppInv, NoOrphans, Inv, TypeOK
<1>3. RemoveUser(u, userGroup[u]) /\ exec' = [exec EXCEPT !.swept = TRUE]
  BY <1>1, <1>2, NoUserRemovalPanic DEF tryRemoveTimeoutUser
<1>4. exec \in ExecType /\ exec.pc = "heartbeat"
  BY DEF AppInv, Inv, TypeOK, ExecType, tryRemoveTimeoutUser
<1>5. exec'.pc = "heartbeat"
  BY <1>3, <1>4 DEF ExecType
<1>6. snapShot'.Version > snapShot.Version
  BY <1>3 DEF RemoveUser, makeSnapShot, AppInv, Inv, TypeOK, SnapShotCurrent
<1>7. userIndex' = userIndex \ {u} /\ userGroup' = [userGroup EXCEPT ![u] = Root]
  BY <1>3 DEF RemoveUser
<1> HIDE DEF u
<1> QED BY <1>1, <1>5, <1>6, <1>7 DEF AppInv, Inv, TypeOK

(* The end of a heartbeat publishes again what a sweep left, and the clock *)
(* changes nothing that is listed.                                         *)
LEMMA QuietOutcome ==
  ASSUME AppInv, FinishHeartbeat \/ Tick
  PROVE  /\ UNCHANGED <<groupIndex, userIndex, userGroup>>
         /\ snapShot' = snapShot \/ snapShot'.Version > snapShot.Version
<1>1. makeSnapShot => snapShot'.Version > snapShot.Version
  BY DEF makeSnapShot, AppInv, Inv, TypeOK, SnapShotCurrent
<1> QED BY <1>1 DEF FinishHeartbeat, Tick, NoSnapShot, groupVars
-----------------------------------------------------------------------------
(* The database keeps the promise of VersionedList: a step that publishes  *)
(* nothing changes nothing that is published, and another one publishes    *)
(* all under the next version.                                             *)
THEOREM DatabaseImplementsVersionedList == Spec => ImplementsVersionedList
<1>1. Init => Published!Init
  BY DEF Init, Published!Init, Published!Current
<1>2. ASSUME [Next]_vars PROVE [Published!Publish]_Published!vars
  <2>1. CASE makeSnapShot
    BY <2>1 DEF makeSnapShot, Published!Publish, Published!Current
  <2> DEFINE Same == UNCHANGED <<subGroups, userData, profile, global_version, snapShot>>
  <2>2. CASE Same
    <3>1. copyGroupToDTO' = copyGroupToDTO
      BY <2>2 DEF copyGroupToDTO, Reached
    <3> QED BY <3>1, <2>2 DEF Published!vars
  <2> USE DEF Refuse, Answer, Panic, dbVars, groupVars, userVars
  <2>3. Command => makeSnapShot \/ Same
    BY DEF Command, AddNewGroup, UpdataGroup, MoveGroup, AddNewUser, UpdataUser,
           DeleteUser, RemoveUser
  <2>4. UnusedCommand => makeSnapShot \/ Same
    BY DEF UnusedCommand, DeleteGroup, UpdataUser, SendMsgToUser
  <2>5. tryRemoveTimeoutUser => makeSnapShot \/ Same
    BY DEF tryRemoveTimeoutUser, RemoveUser
  <2>6. Heartbeat \/ FinishHeartbeat \/ Tick \/ UNCHANGED vars => makeSnapShot \/ Same
    BY DEF Heartbeat, UserHeartbeat, FinishHeartbeat, NoSnapShot, Tick, vars
  <2> QED BY <1>2, <2>1, <2>2, <2>3, <2>4, <2>5, <2>6 DEF Next
<1> QED BY <1>1, <1>2, PTL DEF Spec, ImplementsVersionedList, Published!Spec
=============================================================================
