---------------------------- MODULE ModRuntimeProofs ----------------------------
(***************************************************************************)
(* The invariants of ModRuntime, for any objects, builds, depth of         *)
(* dispatches and size of the scratch region.  First the handle table on   *)
(* its own: every operation keeps it sound, and what each does to the      *)
(* handles that are in use.  Then RuntimeInv, which is inductive: it is    *)
(* proved one conjunct at a time, each by the kinds of steps that can      *)
(* disturb it.  Last Whole, of heap, handles, buffers and stamp, and the   *)
(* registrations, which are so unless fk_migrate traps.                    *)
(***************************************************************************)
EXTENDS ModRuntime, FiniteSetTheorems, SequenceTheorems, TLAPS

Table == [persistent : [Persistent -> Obj \cup {NoObj}], free : Seq(Persistent),
          nextP : Nat, transient : Seq(Obj)]

\* The slots below nextP that name nothing are the free ones, each once; none
\* at or above nextP was ever given out.
TableSound(t) ==
    /\ t \in Table /\ t.nextP >= FirstDynamic
    /\ \A i \in DOMAIN t.free : t.free[i] < t.nextP /\ t.persistent[t.free[i]] = NoObj
    /\ \A i, j \in DOMAIN t.free : t.free[i] = t.free[j] => i = j
    /\ \A p \in Persistent :
          t.persistent[p] = NoObj => p >= t.nextP \/ \E i \in DOMAIN t.free : t.free[i] = p
    /\ \A p \in Persistent : p >= t.nextP => t.persistent[p] = NoObj

-----------------------------------------------------------------------------
(* Sets of numbers *)

\* A nonempty set of naturals has a least member.
LEMMA LeastNatural ==
  ASSUME NEW T, T \subseteq Nat, T # {}
  PROVE  \E x \in T : \A y \in T : x <= y
<1> DEFINE Less == {ss \in Nat \X Nat : ss[1] < ss[2]}
<1>1. IsWellFoundedOn(Less, Nat)
  BY NatLessThanWellFounded DEF OpToRel
<1>2. PICK x \in T : \A y \in T : <<y, x>> \notin Less
  <2> HIDE DEF Less
  <2> QED BY <1>1, WFMin
<1>3. ASSUME NEW y \in T PROVE x <= y
  <2>1. <<y, x>> \notin Less /\ y \in Nat /\ x \in Nat
    BY <1>2
  <2>2. ~(y < x)
    BY <2>1
  <2> QED BY <2>1, <2>2
<1> QED BY <1>3

\* So has a nonempty set of slots a greatest: what M.adopt's scan ends with.
LEMMA GreatestSlot ==
  ASSUME NEW T, T \subseteq Persistent, T # {}
  PROVE  \E x \in T : \A y \in T : y <= x
<1> DEFINE Below == {Transient - x : x \in T}
<1>1. Below \subseteq Nat /\ Below # {}
  <2>1. \A x \in T : Transient - x \in Nat
    BY HandleAssumption DEF Persistent
  <2> QED BY <2>1
<1>2. PICK d \in Below : \A e \in Below : d <= e
  <2> HIDE DEF Below
  <2> QED BY <1>1, LeastNatural
<1>3. PICK x \in T : d = Transient - x
  BY <1>2
<1>4. \A y \in T : Transient - x <= Transient - y
  BY <1>2, <1>3
<1> QED BY <1>3, <1>4, HandleAssumption DEF Persistent

\* Counting a set of slots in ascending order meets each of them once.
LEMMA AscendingCounts ==
  ASSUME NEW S, S \subseteq Persistent
  PROVE  /\ Ascending(S) \in Seq(S)
         /\ \A i, j \in DOMAIN Ascending(S) : Ascending(S)[i] = Ascending(S)[j] => i = j
         /\ \A n \in S : \E i \in DOMAIN Ascending(S) : Ascending(S)[i] = n
<1> DEFINE Smaller(n) == {m \in S : m < n}
           rank == [n \in S |-> Cardinality(Smaller(n)) + 1]
           N == Cardinality(S)
<1>1. IsFiniteSet(S) /\ N \in Nat
  <2>1. IsFiniteSet(Persistent)
    BY FS_Interval, HandleAssumption DEF Persistent
  <2> QED BY <2>1, FS_Subset, FS_CardinalityType
<1>2. ASSUME NEW n \in S
      PROVE  /\ IsFiniteSet(Smaller(n)) /\ Cardinality(Smaller(n)) \in Nat
             /\ Cardinality(Smaller(n)) < N
  <2>1. Smaller(n) \subseteq S /\ Smaller(n) # S
    BY HandleAssumption DEF Persistent
  <2> HIDE DEF Smaller
  <2> QED BY <2>1, <1>1, FS_Subset, FS_CardinalityType
<1>3. ASSUME NEW m \in S, NEW n \in S, m < n
      PROVE  Cardinality(Smaller(m)) < Cardinality(Smaller(n))
  <2>1. \A k \in S : k < m => k < n
    BY <1>3, HandleAssumption DEF Persistent
  <2>2. m \in Smaller(n) /\ m \notin Smaller(m)
    BY <1>3, HandleAssumption DEF Persistent
  <2>3. Smaller(m) \subseteq Smaller(n) /\ Smaller(m) # Smaller(n)
    BY <2>1, <2>2
  <2> HIDE DEF Smaller
  <2> QED BY <2>3, <1>2, FS_Subset, FS_CardinalityType
<1>4. rank \in [S -> 1..N]
  <2> HIDE DEF Smaller
  <2> QED BY <1>1, <1>2
<1>5. \A m, n \in S : rank[m] = rank[n] => m = n
  <2> SUFFICES ASSUME NEW m \in S, NEW n \in S, rank[m] = rank[n], m # n PROVE FALSE
    OBVIOUS
  <2>1. m < n \/ n < m
    BY HandleAssumption DEF Persistent
  <2> HIDE DEF Smaller
  <2> QED BY <1>2, <1>3, <2>1
<1>6. \A i \in 1..N : \E n \in S : rank[n] = i
  <2>1. IsFiniteSet(1..N) /\ Cardinality(1..N) = N
    BY FS_Interval, <1>1
  <2>2. rank \in Injection(S, 1..N)
    BY <1>4, <1>5 DEF Injection, IsInjective
  <2> HIDE DEF rank, N
  <2>3. rank \in Surjection(S, 1..N)
    BY <1>1, <2>1, <2>2, FS_Injection DEF N
  <2> QED BY <2>3 DEF Surjection
<1>7. ASSUME NEW i \in 1..N
      PROVE  Ascending(S)[i] \in S /\ rank[Ascending(S)[i]] = i
  <2>1. PICK n \in S : rank[n] = i
    BY <1>6
  <2>2. Cardinality({m \in S : m < n}) = i - 1
    <3>1. Cardinality(Smaller(n)) + 1 = i
      BY <2>1
    <3>2. Cardinality(Smaller(n)) \in Nat
      BY <1>2
    <3> HIDE DEF N
    <3> QED BY <3>1, <3>2
  <2>3. Ascending(S)[i] = CHOOSE k \in S : Cardinality({m \in S : m < k}) = i - 1
    BY <1>7 DEF Ascending
  <2>4. Ascending(S)[i] \in S /\ Cardinality(Smaller(Ascending(S)[i])) = i - 1
    BY <2>2, <2>3
  <2> QED BY <2>4, <1>2
<1>8. DOMAIN Ascending(S) = 1..N /\ Ascending(S) \in Seq(S)
  <2>1. Ascending(S) \in [1..N -> S]
    BY <1>7 DEF Ascending
  <2> HIDE DEF N
  <2> QED BY <2>1, <1>1, SeqDef
<1>9. \A n \in S : Ascending(S)[rank[n]] = n
  <2> HIDE DEF rank, N
  <2> QED BY <1>4, <1>5, <1>7
<1> HIDE DEF rank, N
<1> QED BY <1>4, <1>7, <1>8, <1>9

-----------------------------------------------------------------------------
(* The operations *)

\* A new table names nothing and is sound.
LEMMA NewTableSound == TableSound(NewTable) /\ InUse(NewTable.persistent) = {}
<1>1. NewTable \in Table
  BY HandleAssumption DEF NewTable, Table
<1> QED BY <1>1, HandleAssumption DEF NewTable, TableSound, Persistent, InUse

\* M.get finds an object, or nothing.
LEMMA GetTyped ==
  ASSUME NEW t, TableSound(t), NEW h \in Nat
  PROVE  Get(t, h) \in Obj \cup {NoObj}
<1>1. /\ Transient \in Nat /\ t.transient \in Seq(Obj)
      /\ t.persistent \in [Persistent -> Obj \cup {NoObj}]
  BY HandleAssumption DEF TableSound, Table
<1>2. CASE h >= Transient /\ h < Transient + Len(t.transient)
  <2>1. h - Transient + 1 \in 1..Len(t.transient)
    BY <1>1, <1>2
  <2> QED BY <1>1, <1>2, <2>1 DEF Get, NextTransient
<1>3. CASE ~(h >= Transient /\ h < Transient + Len(t.transient))
  BY <1>1, <1>3 DEF Get, NextTransient
<1> QED BY <1>2, <1>3

\* M.transient touches nothing but the transient handles.
LEMMA HandSound ==
  ASSUME NEW t, TableSound(t), NEW obj \in Obj
  PROVE  /\ TableSound(Hand(t, obj))
         /\ Hand(t, obj).persistent = t.persistent
         /\ Hand(t, obj).transient = Append(t.transient, obj)
<1>1. t \in Table /\ Append(t.transient, obj) \in Seq(Obj)
  BY DEF TableSound, Table
<1>2. /\ Hand(t, obj) \in Table /\ Hand(t, obj).persistent = t.persistent
      /\ Hand(t, obj).free = t.free /\ Hand(t, obj).nextP = t.nextP
      /\ Hand(t, obj).transient = Append(t.transient, obj)
  BY <1>1 DEF Hand, Table
<1> QED BY <1>2 DEF TableSound

\* M.clear_transient.
LEMMA ClearSound ==
  ASSUME NEW t, TableSound(t)
  PROVE  /\ TableSound(ClearTransient(t))
         /\ ClearTransient(t).persistent = t.persistent
         /\ ClearTransient(t).transient = <<>>
<1>1. t \in Table /\ <<>> \in Seq(Obj)
  BY EmptySeq DEF TableSound
<1>2. /\ ClearTransient(t) \in Table /\ ClearTransient(t).persistent = t.persistent
      /\ ClearTransient(t).free = t.free /\ ClearTransient(t).nextP = t.nextP
      /\ ClearTransient(t).transient = <<>>
  BY <1>1 DEF ClearTransient, Table
<1> QED BY <1>2 DEF TableSound

\* M.retain takes a slot that names nothing, and fails only when every slot is
\* in use: no released slot is lost.
LEMMA RetainSound ==
  ASSUME NEW t, TableSound(t), NEW obj \in Obj
  PROVE  /\ TableSound(Retain(t, obj))
         /\ Retain(t, obj).transient = t.transient
         /\ Slot(t) = 0 => /\ Retain(t, obj).persistent = t.persistent
                           /\ InUse(t.persistent) = Persistent
         /\ Slot(t) # 0 => /\ Slot(t) \in Persistent /\ t.persistent[Slot(t)] = NoObj
                           /\ Retain(t, obj).persistent
                                = [t.persistent EXCEPT ![Slot(t)] = obj]
<1> DEFINE n == Len(t.free)
<1>1. /\ t \in Table /\ n \in Nat /\ DOMAIN t.free = 1..n
      /\ \A i \in 1..n : t.free[i] \in Persistent
  BY DEF TableSound, Table
<1>2. CASE n > 0
  <2> DEFINE rest == SubSeq(t.free, 1, n - 1)
  <2>1. /\ rest \in Seq(Persistent) /\ DOMAIN rest = 1..(n - 1)
        /\ \A i \in 1..(n - 1) : rest[i] = t.free[i]
    BY <1>1, <1>2
  <2>2. Slot(t) = t.free[n] /\ Slot(t) \in Persistent /\ Slot(t) # 0 /\ t.free # <<>>
    BY <1>1, <1>2, HandleAssumption DEF Slot, Persistent
  <2>3. t.persistent[Slot(t)] = NoObj /\ Slot(t) < t.nextP
    BY <1>1, <1>2, <2>2 DEF TableSound
  <2>4. Retain(t, obj) = [t EXCEPT !.free = rest, !.persistent[Slot(t)] = obj]
    BY <1>1, <1>2, <2>2 DEF Retain, Table
  <2> DEFINE slots == [t.persistent EXCEPT ![Slot(t)] = obj]
  <2>a. /\ slots \in [Persistent -> Obj \cup {NoObj}]
        /\ Retain(t, obj) = [t EXCEPT !.persistent = slots, !.free = rest]
    BY <1>1, <2>2, <2>4 DEF Table
  <2>5. Retain(t, obj) \in Table /\ Retain(t, obj).nextP = t.nextP
        /\ Retain(t, obj).free = rest /\ Retain(t, obj).transient = t.transient
        /\ Retain(t, obj).persistent = slots
    <3> HIDE DEF slots, rest
    <3> QED BY <1>1, <2>1, <2>a DEF Table
  <2>6. obj # NoObj
    BY HandleAssumption
  <2> HIDE DEF rest
  <2>7. ASSUME NEW i \in 1..(n - 1) PROVE rest[i] # Slot(t)
    <3>1. i \in DOMAIN t.free /\ n \in DOMAIN t.free /\ i # n /\ rest[i] = t.free[i]
      BY <1>1, <1>2, <2>1
    <3> QED BY <3>1, <2>2 DEF TableSound
  <2>8. TableSound(Retain(t, obj))
    <3>1. \A i \in DOMAIN rest : rest[i] < t.nextP
                              /\ [t.persistent EXCEPT ![Slot(t)] = obj][rest[i]] = NoObj
      BY <1>1, <2>1, <2>2, <2>7 DEF TableSound, Table
    <3>2. \A i, j \in DOMAIN rest : rest[i] = rest[j] => i = j
      BY <1>1, <2>1 DEF TableSound
    <3>3. ASSUME NEW p \in Persistent, [t.persistent EXCEPT ![Slot(t)] = obj][p] = NoObj
          PROVE  p >= t.nextP \/ \E i \in DOMAIN rest : rest[i] = p
      <4>1. p # Slot(t) /\ t.persistent[p] = NoObj
        BY <3>3, <1>1, <2>2, <2>6 DEF Table
      <4> SUFFICES ASSUME ~(p >= t.nextP) PROVE \E i \in DOMAIN rest : rest[i] = p
        OBVIOUS
      <4>2. PICK i \in 1..n : t.free[i] = p
        BY <4>1, <1>1 DEF TableSound
      <4>3. i \in 1..(n - 1)
        BY <4>1, <4>2, <2>2, <1>1
      <4> QED BY <4>2, <4>3, <2>1
    <3>4. \A p \in Persistent :
             p >= t.nextP => [t.persistent EXCEPT ![Slot(t)] = obj][p] = NoObj
      BY <1>1, <2>2, <2>3 DEF TableSound, Table, Persistent
    <3> QED BY <2>5, <3>1, <3>2, <3>3, <3>4 DEF TableSound
  <2> QED BY <2>2, <2>3, <2>5, <2>8
<1>3. CASE n = 0
  <2>1. t.free = <<>> /\ Slot(t) = IF t.nextP < Transient THEN t.nextP ELSE 0
    BY <1>1, <1>3 DEF Slot, Table
  <2>2. \A p \in Persistent : t.persistent[p] = NoObj <=> p >= t.nextP
    BY <1>1, <1>3 DEF TableSound
  <2>3. CASE t.nextP < Transient
    <3>1. /\ Slot(t) = t.nextP /\ Slot(t) \in Persistent /\ Slot(t) # 0
          /\ t.nextP \in Nat /\ obj # NoObj
      BY <2>1, <2>3, <1>1, HandleAssumption DEF TableSound, Persistent, Table
    <3>2. Retain(t, obj) = [t EXCEPT !.nextP = @ + 1, !.persistent[Slot(t)] = obj]
      BY <1>1, <1>3, <3>1 DEF Retain, Table
    <3> DEFINE slots == [t.persistent EXCEPT ![Slot(t)] = obj]
    <3>a. /\ slots \in [Persistent -> Obj \cup {NoObj}]
          /\ Retain(t, obj) = [t EXCEPT !.persistent = slots, !.nextP = @ + 1]
      BY <1>1, <3>1, <3>2 DEF Table
    <3>3. /\ Retain(t, obj) \in Table /\ Retain(t, obj).nextP = t.nextP + 1
          /\ Retain(t, obj).free = <<>> /\ Retain(t, obj).transient = t.transient
          /\ Retain(t, obj).persistent = slots
      <4> HIDE DEF slots
      <4>1. t \in Table /\ t.nextP + 1 \in Nat
        BY <1>1, <3>1
      <4>2. /\ Retain(t, obj) \in Table /\ Retain(t, obj).nextP = t.nextP + 1
            /\ Retain(t, obj).free = t.free /\ Retain(t, obj).transient = t.transient
            /\ Retain(t, obj).persistent = slots
        BY <3>a, <4>1 DEF Table
      <4> QED BY <4>2, <2>1
    <3>4. ASSUME NEW p \in Persistent PROVE slots[p] = NoObj <=> p >= t.nextP + 1
      <4>1. CASE p = t.nextP
        BY <4>1, <1>1, <3>1 DEF Table
      <4>2. CASE p # t.nextP
        <5>1. slots[p] = t.persistent[p]
          BY <4>2, <1>1, <3>1 DEF Table
        <5> QED BY <5>1, <4>2, <2>2, <3>1 DEF Persistent
      <4> QED BY <4>1, <4>2
    <3>5. TableSound(Retain(t, obj))
      <4> HIDE DEF slots
      <4>1. t.nextP + 1 >= FirstDynamic
        BY <3>1, HandleAssumption DEF TableSound
      <4>2. DOMAIN Retain(t, obj).free = {}
        BY <3>3
      <4> QED BY <3>3, <3>4, <4>1, <4>2 DEF TableSound
    <3> QED BY <2>2, <3>1, <3>3, <3>5
  <2>4. CASE ~(t.nextP < Transient)
    <3>1. Slot(t) = 0 /\ t.nextP \in Nat /\ t.nextP >= Transient
      BY <2>1, <2>4, <1>1, HandleAssumption DEF Table
    <3>2. Retain(t, obj) = [t EXCEPT !.nextP = @ + 1]
      BY <1>1, <1>3, <3>1 DEF Retain, Table
    <3>3. /\ Retain(t, obj) \in Table /\ Retain(t, obj).nextP = t.nextP + 1
          /\ Retain(t, obj).free = <<>> /\ Retain(t, obj).transient = t.transient
          /\ Retain(t, obj).persistent = t.persistent
      BY <1>1, <2>1, <3>1, <3>2 DEF Table
    <3>4. \A p \in Persistent : ~(p >= t.nextP) /\ ~(p >= t.nextP + 1)
      BY <3>1, HandleAssumption DEF Persistent
    <3>5. TableSound(Retain(t, obj))
      BY <3>1, <3>3, <3>4, <2>2, HandleAssumption DEF TableSound, Persistent
    <3> QED BY <3>1, <3>3, <3>4, <3>5, <2>2 DEF InUse
  <2> QED BY <2>3, <2>4
<1> QED BY <1>1, <1>2, <1>3

\* M.release of a handle that names something.
LEMMA ReleaseSound ==
  ASSUME NEW t, TableSound(t), NEW h \in Persistent, t.persistent[h] # NoObj
  PROVE  /\ TableSound(Release(t, h))
         /\ Release(t, h).transient = t.transient
         /\ Release(t, h).persistent = [t.persistent EXCEPT ![h] = NoObj]
<1> DEFINE n == Len(t.free)
           more == Append(t.free, h)
<1>1. /\ t \in Table /\ n \in Nat /\ DOMAIN t.free = 1..n
      /\ \A i \in 1..n : t.free[i] \in Persistent
  BY DEF TableSound, Table
<1>2. Release(t, h) = [t EXCEPT !.persistent[h] = NoObj, !.free = more]
  BY <1>1 DEF Release, Table
<1> DEFINE slots == [t.persistent EXCEPT ![h] = NoObj]
<1>a. more \in Seq(Persistent) /\ slots \in [Persistent -> Obj \cup {NoObj}]
  BY <1>1 DEF Table
<1>b. [t EXCEPT !.persistent[h] = NoObj, !.free = more]
        = [t EXCEPT !.persistent = slots, !.free = more]
  BY <1>1 DEF Table
<1>3. /\ Release(t, h) \in Table /\ Release(t, h).nextP = t.nextP
      /\ Release(t, h).free = more /\ Release(t, h).transient = t.transient
      /\ Release(t, h).persistent = slots
  <2> HIDE DEF slots, more
  <2> QED BY <1>1, <1>2, <1>a, <1>b DEF Table
<1>4. /\ DOMAIN more = 1..(n + 1) /\ more[n + 1] = h
      /\ \A i \in 1..n : more[i] = t.free[i]
  BY <1>1
<1> HIDE DEF more
<1>5. \A i \in 1..n : t.free[i] # h
  BY <1>1 DEF TableSound
<1>6. h < t.nextP
  BY <1>1, HandleAssumption DEF TableSound, Table, Persistent
<1>7. \A i \in DOMAIN more : more[i] < t.nextP
                          /\ [t.persistent EXCEPT ![h] = NoObj][more[i]] = NoObj
  BY <1>1, <1>4, <1>5, <1>6 DEF TableSound, Table
<1>8. \A i, j \in DOMAIN more : more[i] = more[j] => i = j
  BY <1>1, <1>4, <1>5 DEF TableSound
<1>9. ASSUME NEW p \in Persistent, [t.persistent EXCEPT ![h] = NoObj][p] = NoObj
      PROVE  p >= t.nextP \/ \E i \in DOMAIN more : more[i] = p
  <2>1. CASE p = h
    BY <2>1, <1>1, <1>4
  <2>2. CASE p # h
    <3>1. t.persistent[p] = NoObj
      BY <1>9, <2>2, <1>1 DEF Table
    <3>2. p >= t.nextP \/ \E i \in 1..n : t.free[i] = p
      BY <3>1, <1>1 DEF TableSound
    <3> QED BY <3>2, <1>1, <1>4
  <2> QED BY <2>1, <2>2
<1>10. \A p \in Persistent : p >= t.nextP => [t.persistent EXCEPT ![h] = NoObj][p] = NoObj
  BY <1>1 DEF TableSound, Table
<1> QED BY <1>3, <1>7, <1>8, <1>9, <1>10 DEF TableSound

\* M.adopt makes a sound table of any saved slots: what a load brings back can
\* be retained from and released like what it was saved from.
LEMMA AdoptSound ==
  ASSUME NEW saved \in [Persistent -> Obj \cup {NoObj}]
  PROVE  /\ TableSound(Adopt(saved))
         /\ Adopt(saved).persistent = saved /\ Adopt(saved).transient = <<>>
<1> DEFINE used == InUse(saved)
           next == IF used = {} THEN FirstDynamic
                   ELSE 1 + (CHOOSE p \in used : \A q \in used : q <= p)
           S == FirstDynamic..(next - 1) \ used
<1>1. /\ next \in Nat /\ FirstDynamic <= next /\ next <= Transient
      /\ \A p \in Persistent : p >= next => saved[p] = NoObj
  <2>1. CASE used = {}
    BY <2>1, HandleAssumption DEF InUse
  <2>2. CASE used # {}
    <3> DEFINE last == CHOOSE p \in used : \A q \in used : q <= p
    <3>1. used \subseteq Persistent
      BY DEF InUse
    <3>2. last \in used /\ \A q \in used : q <= last
      <4> HIDE DEF used
      <4> QED BY <2>2, <3>1, GreatestSlot
    <3>3. next = 1 + last
      BY <2>2
    <3> HIDE DEF last, next
    <3>4. ASSUME NEW p \in Persistent, p >= next PROVE saved[p] = NoObj
      <4>1. p \notin used
        BY <3>1, <3>2, <3>3, <3>4, HandleAssumption DEF Persistent
      <4> QED BY <4>1 DEF InUse
    <3> QED BY <3>1, <3>2, <3>3, <3>4, HandleAssumption DEF Persistent
  <2> QED BY <2>1, <2>2
<1> HIDE DEF next
<1>2. S \subseteq Persistent
  BY <1>1, HandleAssumption DEF Persistent
<1>3. /\ Ascending(S) \in Seq(S)
      /\ \A i, j \in DOMAIN Ascending(S) : Ascending(S)[i] = Ascending(S)[j] => i = j
      /\ \A n \in S : \E i \in DOMAIN Ascending(S) : Ascending(S)[i] = n
  BY <1>2, AscendingCounts
<1>4. Adopt(saved) = [persistent |-> saved, nextP |-> next, transient |-> <<>>,
                      free |-> Ascending(S)]
  BY DEF Adopt, next
<1> HIDE DEF S
<1>5. /\ Ascending(S) \in Seq(Persistent)
      /\ \A i \in DOMAIN Ascending(S) : Ascending(S)[i] \in S
  BY <1>2, <1>3
<1>6. Adopt(saved) \in Table
  BY <1>1, <1>4, <1>5 DEF Table
<1>7. \A n \in S : n < next /\ saved[n] = NoObj
  BY <1>1, <1>2, HandleAssumption DEF S, InUse
<1>8. \A p \in Persistent : saved[p] = NoObj => p >= next \/ p \in S
  BY <1>1, HandleAssumption DEF S, InUse, Persistent
<1> QED BY <1>1, <1>3, <1>4, <1>5, <1>6, <1>7, <1>8 DEF TableSound

-----------------------------------------------------------------------------
(* The state of the runtime *)

Frame == [entry : Entries, obj : Obj \cup {NoObj}, arena : Nat,
          lo : 0..ScratchSize, hi : 0..ScratchSize, h : Nat]
HeapState == [by : Build, holds : [Var -> Persistent \cup {0}],
              means : [Var -> Obj \cup {NoObj}], made : [Buffer -> Seq(Nat)],
              refused : [Kind -> Nat], arena : Nat, saved : Nat, busy : BOOLEAN]
Handles == [Persistent -> Obj \cup {NoObj}]
MirrorState == [cache : SUBSET Buffer, asks : [Kind -> Nat]]
SavedState == [heap : HeapState, handles : Handles, bufs : MirrorState]
Perhaps(S) == {<<>>} \cup {<<x>> : x \in S}
StaleState == [heap : Perhaps(HeapState), handles : Perhaps(Handles),
               bufs : Perhaps(MirrorState)]
StoredState == [deferred : BOOLEAN, gc : BOOLEAN, nth : SUBSET Period, stamp : Build]

Entrant == {w \in [entry : Entries \ {"migrate"}, obj : Obj \cup {NoObj}] :
               w.entry \in Kind => w.obj \in Obj}

-----------------------------------------------------------------------------
(* The inductive invariant *)

Typed ==
    /\ alive \in BOOLEAN /\ torn \in BOOLEAN /\ owed \in BOOLEAN /\ tok \in BOOLEAN
    /\ list \in Seq(OneShot \cup {"tick"}) /\ walk \in 0..(Len(list) + 1)
    /\ armed \subseteq OneShot /\ nth \subseteq Period
    /\ pieces \in [Paced -> 0..2]
    /\ stored \in StoredState
    /\ stale \in StaleState
    /\ build \in Build
    /\ heap \in HeapState /\ TableSound(table) /\ cache \subseteq Buffer
    /\ stack \in Seq(Frame)
    /\ waiting \in Entrant \cup {Nobody}
    /\ top \in 0..ScratchSize

\* An entry waits exactly while a rebuild's notice is the outermost dispatch;
\* what a rebuild owes is owed between dispatches, and told to a guest that asks.
Order ==
    /\ Len(stack) <= MaxDepth
    /\ waiting # Nobody <=> stack # <<>> /\ stack[1].entry = "migrate"
    /\ owed => stack = <<>>
    /\ untold = IF owed /\ Hook[build] # "none" THEN 1 ELSE 0

\* The frames of s take their shares of the scratch region, as far as m, and of
\* the arena, as far as a, one behind the other, and the transient handles they
\* were given stand.
Nest(s, m, a, transient) ==
    /\ \A i \in DOMAIN s :
          LET f == s[i] IN
          /\ f.lo <= f.hi /\ f.hi <= m /\ f.arena <= a
          /\ f.entry \in Kind =>
                /\ f.obj \in Obj
                /\ f.h >= Transient /\ f.h < Transient + Len(transient)
                /\ transient[f.h - Transient + 1] = f.obj
                /\ f.hi = f.lo => f.arena < a
          /\ f.entry \notin Kind => f.h = 0
    /\ \A i, j \in DOMAIN s : i < j =>
          /\ s[i].hi <= s[j].lo /\ s[i].arena <= s[j].arena
          /\ s[i].entry \in Kind /\ s[i].hi = s[i].lo => s[i].arena < s[j].arena
FramesNest == Nest(stack, top, heap.arena, table.transient)

\* Between dispatches the arena is empty; inside one its mark is where it was empty.
ArenaMarked ==
    /\ tok <=> stack # <<>>
    /\ stack # <<>> => heap.saved = 0
    /\ stack = <<>> => heap.arena = 0 /\ table.transient = <<>>
    /\ stale.heap # <<>> => stale.heap[1].arena = 0

RuntimeInv == Typed /\ Order /\ FramesNest /\ ArenaMarked

\* The variables of heap h hold exactly the slots in use, one each.
Kept(h, p) == Keeps(h, p) /\ \A v \in Var : h.holds[v] # 0 => h.means[v] \in Obj

\* The guest's heap goes with the handle table and with the buffers there are.
LiveWhole == Kept(heap, table.persistent) /\ Buffered(heap, Mirror)

\* And so does the heap that a save has, the one its stamp is about.
SavedWhole ==
    /\ Kept(Saved.heap, Saved.handles) /\ Buffered(Saved.heap, Saved.bufs)
    /\ Saved.heap.by = stored.stamp /\ Saved.bufs.asks = Asks[stored.stamp]

\* As long as a rebuild is owed; a guest not told is on a heap of its own.
Pending ==
    owed => SavedWhole /\ (Hook[build] # "fk_migrate_adopt" => heap.by = build)

\* Nothing owed and nothing being told: `storage` has the live heap, stamped.
Settled ==
    ~owed /\ waiting = Nobody =>
        stale = NothingStale /\ heap.by = build /\ stored.stamp = build

\* While the notice of a rebuild runs nothing need be said of `storage`: it is
\* published when the notice returns, and the notice does not trap.
Whole == LiveWhole /\ Pending /\ Settled

Lists(l, e) == \E i \in DOMAIN l : l[i] = e
Distinct(l) == \A i, j \in DOMAIN l : l[i] = l[j] => i = j

\* What is registered is registered once, and by its flag.
Listing ==
    /\ \A f \in OneShot : f \in armed <=> Lists(list, f)
    /\ Distinct(list)

\* What the stored flags promise is on its way, and what the heap that a rebuild
\* left behind would go on with is still promised.
Promises ==
    /\ stored.deferred <=> "deferred" \in armed
    /\ heap.busy => stored.gc /\ ("gc" \in armed \/ Running("gc"))
    /\ nth = stored.nth
    /\ stale.heap # <<>> /\ stale.heap[1].busy => stored.gc
Promised == alive => Promises

-----------------------------------------------------------------------------
(* What the steps do *)

\* What the assumptions say of the numbers of handles and of the empty stack.
LEMMA RuntimeFacts ==
  /\ {} \subseteq Period /\ 1 \in 1..MaxDepth
  /\ 0 \in 0..ScratchSize /\ MaxDepth \in Nat /\ ScratchSize \in Nat
  /\ FirstDynamic \in Nat \ {0} /\ Transient \in Nat /\ NoObj \notin Obj
  /\ 0 \notin Persistent /\ Persistent \subseteq Nat
  /\ \A p \in Persistent : p < Transient
BY RuntimeAssumption, HandleAssumption DEF Persistent

\* A guest freshly initialised holds nothing and its buffers are not made yet.
LEMMA FreshHeapTyped ==
  ASSUME NEW b \in Build
  PROVE  /\ FreshHeap(b) \in HeapState /\ FreshHeap(b).by = b
         /\ FreshHeap(b).arena = 0 /\ FreshHeap(b).busy = FALSE
         /\ \A v \in Var : FreshHeap(b).holds[v] = 0
         /\ \A u \in Buffer : FreshHeap(b).made[u] = <<>>
         /\ \A k \in Kind : FreshHeap(b).refused[k] = 0
<1>1. <<>> \in Seq(Nat)
  BY EmptySeq
<1> QED BY <1>1 DEF FreshHeap, HeapState

\* The sizes a build asks for, and what a save has.
LEMMA SavedTyped ==
  ASSUME Typed
  PROVE  Mirror \in MirrorState /\ Saved \in SavedState
<1>1. /\ heap \in HeapState /\ table.persistent \in Handles /\ Mirror \in MirrorState
  BY RuntimeAssumption DEF Typed, TableSound, Table, Handles, Mirror, MirrorState
<1>2. ASSUME NEW S, NEW m \in Perhaps(S), m # <<>> PROVE m[1] \in S
  BY <1>2 DEF Perhaps
<1>3. /\ stale.heap \in Perhaps(HeapState) /\ stale.handles \in Perhaps(Handles)
      /\ stale.bufs \in Perhaps(MirrorState)
  BY DEF Typed, StaleState
<1> HIDE DEF HeapState, Handles, MirrorState
<1>4. /\ stale.heap # <<>> => stale.heap[1] \in HeapState
      /\ stale.handles # <<>> => stale.handles[1] \in Handles
      /\ stale.bufs # <<>> => stale.bufs[1] \in MirrorState
  BY <1>2, <1>3
<1> QED BY <1>1, <1>4 DEF Saved, SavedState

\* When nothing is stale a save has what is live.
LEMMA SavedLive ==
  ASSUME stale = NothingStale
  PROVE  Saved = [heap |-> heap, handles |-> table.persistent, bufs |-> Mirror]
BY DEF Saved, NothingStale

\* NothingStale is a state of the stale parts, and one in which no part is stale
\* is that.
LEMMA NothingStaleTyped ==
  /\ NothingStale \in StaleState
  /\ NothingStale.heap = <<>> /\ NothingStale.handles = <<>> /\ NothingStale.bufs = <<>>
  /\ \A st \in StaleState :
        st.heap = <<>> /\ st.handles = <<>> /\ st.bufs = <<>> => st = NothingStale
BY DEF NothingStale, StaleState, Perhaps

\* One more entry over the frames s, in frame f: its share of the scratch region
\* and of the arena begins where the frames below left off.
Raised(s, f, t, h, st) ==
    /\ f \in Frame /\ f.arena = h.arena /\ f.lo <= f.hi
    /\ f.lo = IF s = <<>> THEN 0 ELSE top
    /\ stack' = Append(s, f) /\ top' = f.hi
    /\ heap' \in HeapState /\ heap'.by = h.by /\ heap'.busy = h.busy
    /\ heap'.holds = h.holds /\ heap'.means = h.means /\ heap'.saved = h.saved
    /\ heap'.refused = h.refused
    /\ stale' \in StaleState /\ stale'.heap = st.heap
    /\ st = NothingStale => stale' = NothingStale
    /\ f.entry \in Kind =>
          /\ f.obj \in Obj /\ f.h = NextTransient(t) /\ table' = Hand(t, f.obj)
          /\ heap'.arena = IF f.hi = f.lo THEN h.arena + 1 ELSE h.arena
          /\ <<f.entry, Len(s) + 1>> \in Buffer
          /\ cache' = cache \cup {<<f.entry, Len(s) + 1>>}
          /\ heap'.made = [h.made EXCEPT ![<<f.entry, Len(s) + 1>>] =
                              IF <<f.entry, Len(s) + 1>> \in cache THEN @
                              ELSE Append(@, Asks[build][f.entry])]
    /\ f.entry \notin Kind =>
          /\ f.h = 0 /\ f.hi = f.lo /\ table' = t /\ heap' = h /\ cache' = cache

\* The frame a dispatch pushes is one that Raised admits.
LEMMA RaiseEffect ==
  ASSUME NEW s \in Seq(Frame), NEW entry \in Entries, NEW obj \in Obj \cup {NoObj},
         NEW t, NEW h \in HeapState, NEW st \in StaleState, build \in Build,
         entry \in Kind => obj \in Obj,
         TableSound(t), Len(s) < MaxDepth, cache \subseteq Buffer, top \in 0..ScratchSize,
         Raise(s, entry, obj, t, h, st)
  PROVE  \E f \in Frame : f.entry = entry /\ f.obj = obj /\ Raised(s, f, t, h, st)
<1> DEFINE b == <<entry, Len(s) + 1>>
           given == b \in Buffer
           makes == given /\ b \notin cache
           from == IF s = <<>> THEN 0 ELSE top
<1>1. given <=> entry \in Kind
  BY RuntimeFacts DEF Buffer, Kind
<1>2. from \in 0..ScratchSize /\ Len(t.transient) \in Nat /\ NextTransient(t) \in Nat
  BY RuntimeFacts DEF TableSound, Table, NextTransient
<1>3. PICK fits \in BOOLEAN :
        /\ fits => from < ScratchSize
        /\ stack' = Append(s, [entry |-> entry, obj |-> obj, arena |-> h.arena, lo |-> from,
                               hi |-> IF given /\ fits THEN from + 1 ELSE from,
                               h  |-> IF given THEN NextTransient(t) ELSE 0])
        /\ top' = IF given /\ fits THEN from + 1 ELSE from
        /\ table' = IF given THEN Hand(t, obj) ELSE t
        /\ cache' = IF given THEN cache \cup {b} ELSE cache
        /\ heap' = IF ~given THEN h
                   ELSE [h EXCEPT !.made[b] = IF makes THEN Append(@, Asks[build][entry]) ELSE @,
                                  !.arena = IF fits THEN @ ELSE @ + 1]
        /\ stale' = IF makes THEN [st EXCEPT !.bufs = <<>>] ELSE st
  BY DEF Raise, ScratchFrom
<1> DEFINE f == [entry |-> entry, obj |-> obj, arena |-> h.arena, lo |-> from,
                 hi |-> IF given /\ fits THEN from + 1 ELSE from,
                 h  |-> IF given THEN NextTransient(t) ELSE 0]
<1>4. (IF given /\ fits THEN from + 1 ELSE from) \in 0..ScratchSize
  <2> HIDE DEF from, given
  <2> QED BY <1>2, <1>3, RuntimeFacts
<1>5. f \in Frame /\ f.lo <= f.hi
  <2> HIDE DEF from, given
  <2>1. h.arena \in Nat
    BY DEF HeapState
  <2>2. (IF given THEN NextTransient(t) ELSE 0) \in Nat
    BY <1>2
  <2>3. from <= IF given /\ fits THEN from + 1 ELSE from
    BY <1>2
  <2> QED BY <1>2, <1>4, <2>1, <2>2, <2>3 DEF Frame
<1>8. /\ stale' \in StaleState /\ stale'.heap = st.heap
      /\ st = NothingStale => stale' = NothingStale
  <2>1. /\ [st EXCEPT !.bufs = <<>>] \in StaleState
        /\ [st EXCEPT !.bufs = <<>>].heap = st.heap
        /\ [st EXCEPT !.bufs = <<>>].handles = st.handles
        /\ [st EXCEPT !.bufs = <<>>].bufs = <<>>
    BY DEF StaleState, Perhaps
  <2>2. stale' = st \/ stale' = [st EXCEPT !.bufs = <<>>]
    BY <1>3
  <2> QED BY <2>1, <2>2, NothingStaleTyped
<1>6. CASE ~given
  <2> HIDE DEF from, given
  <2> QED BY <1>1, <1>3, <1>5, <1>6, <1>8 DEF from, Raised
<1>7. CASE given
  <2> DEFINE made == [h.made EXCEPT ![b] = IF b \in cache THEN @
                                           ELSE Append(@, Asks[build][entry])]
             arena == IF fits THEN h.arena ELSE h.arena + 1
  <2>1. made \in [Buffer -> Seq(Nat)] /\ arena \in Nat
    <3>1. Asks[build][entry] \in Nat
      BY <1>1, <1>7, RuntimeAssumption
    <3>2. \A q \in Seq(Nat) : Append(q, Asks[build][entry]) \in Seq(Nat)
      BY <3>1
    <3> HIDE DEF Buffer
    <3> QED BY <1>7, <3>2 DEF HeapState
  <2>2. heap' = [h EXCEPT !.made = made, !.arena = arena]
    <3> HIDE DEF Buffer, b
    <3> QED BY <1>3, <1>7 DEF HeapState
  <2>3. /\ heap' \in HeapState /\ heap'.by = h.by /\ heap'.busy = h.busy
        /\ heap'.holds = h.holds /\ heap'.means = h.means /\ heap'.saved = h.saved
        /\ heap'.made = made /\ heap'.arena = arena /\ heap'.refused = h.refused
    <3> HIDE DEF made, arena
    <3> QED BY <2>1, <2>2 DEF HeapState
  <2>4. f.h = NextTransient(t) /\ (f.hi = f.lo <=> ~fits)
    BY <1>2, <1>4, <1>7
  <2>5. arena = IF f.hi = f.lo THEN h.arena + 1 ELSE h.arena
    BY <2>4
  <2>6. /\ f.entry = entry /\ f.obj = obj /\ f.arena = h.arena
        /\ f.lo = from /\ stack' = Append(s, f) /\ top' = f.hi
        /\ table' = Hand(t, obj) /\ cache' = cache \cup {b}
    BY <1>3, <1>7
  <2>7. entry \in Kind /\ b \in Buffer
    BY <1>1, <1>7
  <2> HIDE DEF f, from, arena, given
  <2> QED BY <1>5, <1>8, <2>3, <2>4, <2>5, <2>6, <2>7 DEF from, Raised
<1> QED BY <1>6, <1>7

\* An outermost entry (dispatch) finds the scratch region empty, so its payload lies at the start.
LEMMA RaiseOutermost ==
  ASSUME NEW entry \in Entries, NEW obj \in Obj \cup {NoObj}, NEW t, NEW h \in HeapState,
         NEW st \in StaleState, build \in Build,
         entry \in Kind => obj \in Obj,
         TableSound(t), cache \subseteq Buffer, top \in 0..ScratchSize,
         Raise(<<>>, entry, obj, t, h, st)
  PROVE  \E f \in Frame : f.entry = entry /\ f.obj = obj /\ Raised(<<>>, f, t, h, st)
<1> DEFINE s == <<>>
<1>1. s \in Seq(Frame) /\ Len(s) < MaxDepth
  BY EmptySeq, RuntimeFacts
<1>2. Raise(s, entry, obj, t, h, st)
  OBVIOUS
<1> HIDE DEF s
<1>3. \E f \in Frame : f.entry = entry /\ f.obj = obj /\ Raised(s, f, t, h, st)
  BY <1>1, <1>2, RaiseEffect
<1> QED BY <1>3 DEF s

\* The outermost entry of a dispatch, or the notice of a rebuild in its place.
Entered(w, st, f) ==
    /\ tok' = TRUE
    /\ owed' = FALSE /\ UNCHANGED <<alive, nth, build>>
    /\ \/ /\ ~owed /\ f.entry = w.entry
          /\ Raised(<<>>, f, table, Marked(heap), stale)
          /\ stored' = st /\ UNCHANGED <<untold, waiting>>
       \/ /\ owed /\ Hook[build] = "none" /\ f.entry = w.entry
          /\ Raised(<<>>, f, table, Marked(heap), NothingStale)
          /\ stored' = [st EXCEPT !.stamp = build] /\ UNCHANGED <<untold, waiting>>
       \/ /\ owed /\ Hook[build] # "none" /\ f.entry = "migrate"
          /\ Raised(<<>>, f, table, Marked(heap), stale)
          /\ stored' = st /\ waiting' = w /\ untold' = untold - 1

\* fk_arena_mark changes the mark and nothing else.
LEMMA MarkedTyped ==
  ASSUME NEW h \in HeapState
  PROVE  /\ Marked(h) \in HeapState /\ Marked(h).by = h.by /\ Marked(h).busy = h.busy
         /\ Marked(h).holds = h.holds /\ Marked(h).means = h.means
         /\ Marked(h).made = h.made /\ Marked(h).refused = h.refused
         /\ Marked(h).arena = h.arena /\ Marked(h).saved = h.arena
BY DEF Marked, HeapState

\* fk_arena_release goes back to the mark, and changes nothing else.
LEMMA ReleasedTyped ==
  ASSUME NEW h \in HeapState
  PROVE  /\ Released(h) \in HeapState /\ Released(h).by = h.by
         /\ Released(h).busy = h.busy
         /\ Released(h).holds = h.holds /\ Released(h).means = h.means
         /\ Released(h).made = h.made /\ Released(h).refused = h.refused
         /\ Released(h).saved = h.saved
         /\ Released(h).arena = IF tok THEN h.saved ELSE h.arena
BY DEF Released, HeapState

\* enter_outermost: either a notice of a rebuild goes first and the entry waits, or
\* the entry goes in itself.
LEMMA EnterEffect ==
  ASSUME Typed, Order, NEW w \in Entrant, NEW st, Enter(w.entry, w.obj, st)
  PROVE  \E f \in Frame : Entered(w, st, f)
<1>1. /\ Marked(heap) \in HeapState /\ TableSound(table)
      /\ cache \subseteq Buffer /\ top \in 0..ScratchSize /\ owed \in BOOLEAN
      /\ stale \in StaleState /\ NothingStale \in StaleState /\ build \in Build
  BY MarkedTyped, NothingStaleTyped DEF Typed
<1>2. /\ w.entry \in Entries /\ w.obj \in Obj \cup {NoObj}
      /\ w.entry \in Kind => w.obj \in Obj
      /\ w = [entry |-> w.entry, obj |-> w.obj]
  BY DEF Entrant
<1>3. "migrate" \in Entries /\ NoObj \in Obj \cup {NoObj} /\ "migrate" \notin Kind
  BY DEF Entries, Kind
<1>4. CASE ~owed
  <2>1. Raise(<<>>, w.entry, w.obj, table, Marked(heap), stale) /\ tok' = TRUE
    BY <1>4 DEF Enter, Open
  <2>2. PICK f \in Frame : /\ f.entry = w.entry /\ f.obj = w.obj
                           /\ Raised(<<>>, f, table, Marked(heap), stale)
    BY <1>1, <1>2, <2>1, RaiseOutermost
  <2> QED BY <1>4, <2>1, <2>2, <1>1 DEF Enter, Entered
<1>5. CASE owed /\ Hook[build] = "none"
  <2>1. Raise(<<>>, w.entry, w.obj, table, Marked(heap), NothingStale) /\ tok' = TRUE
    BY <1>5 DEF Enter, Open, Discard
  <2>2. PICK f \in Frame : /\ f.entry = w.entry /\ f.obj = w.obj
                           /\ Raised(<<>>, f, table, Marked(heap), NothingStale)
    BY <1>1, <1>2, <2>1, RaiseOutermost
  <2> QED BY <1>5, <2>1, <2>2, <1>1 DEF Enter, Discard, Stamp, Entered
<1>6. CASE owed /\ Hook[build] # "none"
  <2>1. Raise(<<>>, "migrate", NoObj, table, Marked(heap), stale) /\ tok' = TRUE
    BY <1>6 DEF Enter, Open, Tell
  <2>2. PICK f \in Frame : /\ f.entry = "migrate" /\ f.obj = NoObj
                           /\ Raised(<<>>, f, table, Marked(heap), stale)
    BY <1>1, <1>3, <2>1, RaiseOutermost
  <2> QED BY <1>6, <2>1, <2>2, <1>2 DEF Enter, Tell, Entered
<1> QED BY <1>4, <1>5, <1>6

\* The kinds of steps the conjuncts are proved by.
Quiet == \/ Defers \/ Collects \/ Grows \/ TickBegins \/ WalkEnds
         \/ \E periods \in SUBSET Period : SetNthTick(periods)
         \/ Prebuild \/ PrebuildMore
Entering == \E w \in Entrant, st \in {stored, [stored EXCEPT !.deferred = FALSE]} :
               AtRest /\ Enter(w.entry, w.obj, st)
OutermostEnds == OutermostReturns \/ CollectorSteps \/ OutermostTraps

\* Every step is of one of the kinds the proofs go through.
LEMMA NextCases ==
  ASSUME Typed, Next
  PROVE  \/ Quiet \/ Entering \/ OutermostEnds \/ MigrateReturns
         \/ \E v \in Var : Retains(v)
         \/ \E v \in Var : Releases(v)
         \/ \E entry \in Kind, obj \in Obj : Reenters(entry, obj)
         \/ \E ok \in BOOLEAN : NestedEnds(ok)
         \/ \E b \in Build : SaveAndLoad(b)
<1>1. GuestCalls => \/ Quiet
                    \/ \E v \in Var : Retains(v)
                    \/ \E v \in Var : Releases(v)
                    \/ \E entry \in Kind, obj \in Obj : Reenters(entry, obj)
  <2>1. \A n \in Period : nth \cup {n} \in SUBSET Period /\ nth \ {n} \in SUBSET Period
    BY DEF Typed
  <2>2. {} \in SUBSET Period
    OBVIOUS
  <2> QED BY <2>1, <2>2 DEF GuestCalls, Quiet, Kind
<1>2. EntryEnds => OutermostEnds \/ MigrateReturns \/ \E ok \in BOOLEAN : NestedEnds(ok)
  BY DEF EntryEnds, OutermostEnds
<1>3. ASSUME NEW entry \in Entries \ {"migrate"}, NEW obj \in Obj \cup {NoObj},
             NEW st \in {stored, [stored EXCEPT !.deferred = FALSE]},
             entry \in Kind => obj \in Obj, AtRest, Enter(entry, obj, st)
      PROVE  Entering
  <2>1. [entry |-> entry, obj |-> obj] \in Entrant
    BY <1>3 DEF Entrant
  <2>2. /\ [entry |-> entry, obj |-> obj].entry = entry
        /\ [entry |-> entry, obj |-> obj].obj = obj
    OBVIOUS
  <2> QED BY <1>3, <2>1, <2>2 DEF Entering
<1>4. Engine => Entering
  <2>1. ASSUME NEW entry \in Kind, NEW obj \in Obj, Raises(entry, obj)
        PROVE  Entering
    BY <2>1, <1>3 DEF Raises, Entries, Kind
  <2>2. ASSUME Raises("nth", NoObj) PROVE Entering
    BY <2>2, <1>3 DEF Raises, Entries, Kind
  <2> QED BY <2>1, <2>2 DEF Engine, NthTick
<1>5. Walks => Quiet \/ Entering
  <2>1. ASSUME RunTickHook PROVE Entering
    BY <2>1, <1>3 DEF RunTickHook, Served, Entries, Kind
  <2>2. ASSUME NEW f \in OneShot \ {"prebuild"}, RunOneShot(f) PROVE Entering
    BY <2>2, <1>3 DEF RunOneShot, Served, OneShot, Entries, Kind
  <2> QED BY <2>1, <2>2 DEF Walks, Quiet
<1> QED BY <1>1, <1>2, <1>4, <1>5 DEF Next, Quiet

SameGuest(h, k) == /\ h.holds = k.holds /\ h.means = k.means
                   /\ h.made = k.made /\ h.refused = k.refused

\* Steps of the list, the walk and the periods leave dispatch, heap and `storage` alone.
LEMMA QuietEffect ==
  ASSUME Typed, Quiet
  PROVE  /\ alive /\ UNCHANGED <<alive, stale, versions, table, cache, depth>>
         /\ heap' \in HeapState /\ SameGuest(heap', heap) /\ heap'.by = heap.by
         /\ heap'.arena = heap.arena /\ heap'.saved = heap.saved
         /\ stored' \in StoredState /\ stored'.stamp = stored.stamp
         /\ nth' \subseteq Period
<1>1. heap \in HeapState /\ stored \in StoredState /\ nth \subseteq Period
  BY DEF Typed
<1>2. CASE Defers
  BY <1>1, <1>2 DEF Defers, GuestRuns, StoredState, SameGuest, guest
<1>3. CASE Collects
  BY <1>1, <1>3 DEF Collects, GuestRuns, StoredState, HeapState, SameGuest
<1>4. CASE Grows
  BY <1>1, <1>4 DEF Grows, GuestRuns, SameGuest, guest, storage
<1>5. ASSUME NEW periods \in SUBSET Period, SetNthTick(periods)
      PROVE  /\ alive /\ UNCHANGED <<alive, stale, versions, table, cache, depth>>
             /\ heap' \in HeapState /\ SameGuest(heap', heap) /\ heap'.by = heap.by
             /\ heap'.arena = heap.arena /\ heap'.saved = heap.saved
             /\ stored' \in StoredState /\ stored'.stamp = stored.stamp
             /\ nth' \subseteq Period
  BY <1>1, <1>5 DEF SetNthTick, GuestRuns, StoredState, SameGuest, guest
<1>6. CASE TickBegins
  BY <1>1, <1>6 DEF TickBegins, AtRest, SameGuest, guest, storage
<1>7. CASE WalkEnds
  BY <1>1, <1>7 DEF WalkEnds, AtRest, SameGuest, guest, storage
<1>8. CASE Prebuild
  BY <1>1, <1>8 DEF Prebuild, Served, AtRest, SameGuest, guest, storage
<1>9. CASE PrebuildMore
  BY <1>1, <1>9 DEF PrebuildMore, Served, AtRest, SameGuest, guest, storage
<1> QED BY <1>2, <1>3, <1>4, <1>5, <1>6, <1>7, <1>8, <1>9 DEF Quiet

\* However the outermost dispatch ends, it leaves the same.
LEMMA OutermostEffect ==
  ASSUME Typed, Order, OutermostEnds
  PROVE  /\ alive /\ Len(stack) = 1
         /\ stack' = <<>> /\ tok' = FALSE /\ waiting' = Nobody
         /\ table' = ClearTransient(table)
         /\ heap' \in HeapState /\ SameGuest(heap', heap) /\ heap'.by = heap.by
         /\ heap'.saved = heap.saved
         /\ heap'.arena = IF tok THEN heap.saved ELSE heap.arena
         /\ stored' \in StoredState /\ stored'.stamp = stored.stamp
         /\ UNCHANGED <<versions, cache, nth, top>>
         /\ stale' \in StaleState /\ stale'.heap \in {stale.heap, <<>>}
         /\ stale = NothingStale => stale' = NothingStale
         /\ alive' \in BOOLEAN
<1>1. heap \in HeapState /\ stored \in StoredState /\ stack \in Seq(Frame)
  BY DEF Typed
<1>2. Len(stack) = 1 => stack # <<>>
  BY <1>1, EmptySeq
<1>6. ASSUME SyncMemory
      PROVE  /\ stale' \in StaleState /\ stale'.heap \in {stale.heap, <<>>}
             /\ stale = NothingStale => stale' = NothingStale
  <2>1. stale \in StaleState
    BY DEF Typed
  <2>2. /\ [stale EXCEPT !.heap = <<>>] \in StaleState
        /\ [stale EXCEPT !.heap = <<>>].heap = <<>>
        /\ [stale EXCEPT !.heap = <<>>].handles = stale.handles
        /\ [stale EXCEPT !.heap = <<>>].bufs = stale.bufs
    BY <2>1 DEF StaleState, Perhaps
  <2>3. stale' = stale \/ stale' = [stale EXCEPT !.heap = <<>>]
    BY <1>6 DEF SyncMemory
  <2> QED BY <2>1, <2>2, <2>3, NothingStaleTyped
<1>3. CASE OutermostReturns
  <2>1. waiting = Nobody
    BY <1>2, <1>3 DEF OutermostReturns, Order
  <2> QED BY <1>1, <1>3, <1>6, <2>1, ReleasedTyped
          DEF OutermostReturns, Leave, SameGuest, Typed
<1>4. CASE CollectorSteps
  <2>1. waiting = Nobody
    BY <1>2, <1>4 DEF CollectorSteps, Order
  <2>2. PICK b \in {heap.busy, FALSE} :
          /\ Leave([heap EXCEPT !.busy = b])
          /\ IF b THEN Arm("gc") /\ UNCHANGED stored
             ELSE stored' = [stored EXCEPT !.gc = FALSE] /\ UNCHANGED <<list, armed>>
    BY <1>4 DEF CollectorSteps
  <2> DEFINE h == [heap EXCEPT !.busy = b]
  <2>3. /\ h \in HeapState /\ SameGuest(h, heap) /\ h.by = heap.by /\ h.saved = heap.saved
        /\ h.arena = heap.arena
    BY <1>1, <2>2 DEF HeapState, SameGuest
  <2>4. heap' = Released(h) /\ table' = ClearTransient(table) /\ SyncMemory
    BY <2>2 DEF Leave
  <2>5. stored' \in StoredState /\ stored'.stamp = stored.stamp
    BY <1>1, <2>2 DEF StoredState
  <2> HIDE DEF h
  <2> QED BY <1>4, <1>6, <2>1, <2>3, <2>4, <2>5, ReleasedTyped
          DEF CollectorSteps, SameGuest, Typed
<1>5. CASE OutermostTraps
  BY <1>1, <1>5, <1>6, ReleasedTyped DEF OutermostTraps, Leave, SameGuest
<1> QED BY <1>3, <1>4, <1>5 DEF OutermostEnds

\* When the guest has been told, what waited enters over an arena and a table
\* that are empty again.
LEMMA MigrateEffect ==
  ASSUME Typed, Order, MigrateReturns
  PROVE  \E f \in Frame, h \in HeapState :
         /\ stack # <<>> /\ stack[1].entry = "migrate" /\ waiting \in Entrant
         /\ f.entry = waiting.entry /\ Raised(<<>>, f, ClearTransient(table), h, NothingStale)
         /\ SameGuest(h, heap) /\ h.by = build /\ h.busy = heap.busy /\ h.saved = h.arena
         /\ h.arena = IF tok THEN heap.saved ELSE heap.arena
         /\ stored' = [stored EXCEPT !.stamp = build] /\ stale' = NothingStale
         /\ tok' = TRUE /\ waiting' = Nobody
         /\ alive /\ UNCHANGED <<alive, ticking, nth, versions>>
<1>1. /\ heap \in HeapState /\ build \in Build /\ stack \in Seq(Frame) /\ TableSound(table)
      /\ cache \subseteq Buffer /\ top \in 0..ScratchSize /\ NothingStale \in StaleState
  BY NothingStaleTyped DEF Typed
<1>2. stack # <<>> /\ stack[1].entry = "migrate" /\ waiting \in Entrant
  <2>1. stack # <<>> /\ stack[1].entry = "migrate"
    <3>1. Len(stack) = 1 /\ stack[1].entry = "migrate"
      BY DEF MigrateReturns
    <3> QED BY <1>1, <3>1, EmptySeq
  <2> QED BY <2>1 DEF Order, Typed
<1>3. /\ waiting.entry \in Entries /\ waiting.obj \in Obj \cup {NoObj}
      /\ waiting.entry \in Kind => waiting.obj \in Obj
  BY <1>2 DEF Entrant
<1> DEFINE g == [Released(heap) EXCEPT !.by = build]
           h == Marked(g)
<1>4. /\ g \in HeapState /\ SameGuest(g, heap) /\ g.by = build /\ g.busy = heap.busy
      /\ g.arena = IF tok THEN heap.saved ELSE heap.arena
  BY <1>1, ReleasedTyped DEF HeapState, SameGuest
<1>5. Raise(<<>>, waiting.entry, waiting.obj, ClearTransient(table), h, NothingStale)
      /\ tok' = TRUE
  BY DEF MigrateReturns, Open
<1> HIDE DEF g
<1>6. /\ h \in HeapState /\ SameGuest(h, heap) /\ h.by = build /\ h.busy = heap.busy
      /\ h.saved = h.arena /\ h.arena = IF tok THEN heap.saved ELSE heap.arena
  BY <1>4, MarkedTyped DEF SameGuest
<1>7. TableSound(ClearTransient(table))
  BY <1>1, ClearSound
<1> HIDE DEF h
<1>8. PICK f \in Frame : /\ f.entry = waiting.entry /\ f.obj = waiting.obj
                         /\ Raised(<<>>, f, ClearTransient(table), h, NothingStale)
  BY <1>1, <1>3, <1>5, <1>6, <1>7, RaiseOutermost
<1>9. stale' = NothingStale
  BY <1>8 DEF Raised
<1> QED BY <1>2, <1>5, <1>6, <1>8, <1>9 DEF MigrateReturns, Stamp

\* What the save holds, and what the load makes of it.
LEMMA LoadEffect ==
  ASSUME Typed, NEW b \in Build, SaveAndLoad(b)
  PROVE  \E s \in SavedState, adopted \in BOOLEAN :
         /\ AtRest /\ alive /\ stack = <<>> /\ waiting = Nobody /\ s = Saved
         /\ adopted <=> stored.stamp = b \/ Hook[b] = "fk_migrate_adopt"
         /\ adopted => Restore(s, b)
         /\ ~adopted => Decline(s, b)
         /\ owed' = (stored.stamp # b) /\ build' = b
         /\ untold' = IF stored.stamp = b \/ Hook[b] = "none" THEN 0 ELSE 1
         /\ top' = 0 /\ nth' = stored.nth /\ UNCHANGED <<alive, stored, stack, waiting, tok>>
<1> DEFINE adopted == stored.stamp = b \/ Hook[b] = "fk_migrate_adopt"
<1>1. Saved \in SavedState
  BY SavedTyped
<1>2. /\ AtRest /\ alive /\ stack = <<>> /\ waiting = Nobody
      /\ IF adopted THEN Restore(Saved, b) ELSE Decline(Saved, b)
      /\ owed' = ~(stored.stamp = b) /\ build' = b
      /\ untold' = IF stored.stamp = b \/ Hook[b] = "none" THEN 0 ELSE 1
      /\ top' = 0 /\ nth' = stored.nth /\ UNCHANGED <<alive, stored, stack, waiting, tok>>
  BY DEF SaveAndLoad, AtRest
<1>3. adopted \in BOOLEAN
  OBVIOUS
<1> QED BY <1>1, <1>2, <1>3

\* An adopted heap is the saved one, its handles are the saved ones, and of its
\* buffers those of the size that is asked for are known.
LEMMA RestoreEffect ==
  ASSUME NEW s \in SavedState, NEW b \in Build, Restore(s, b)
  PROVE  /\ heap' \in HeapState /\ TableSound(table') /\ cache' \subseteq Buffer
         /\ heap'.by = s.heap.by /\ heap'.holds = s.heap.holds
         /\ heap'.means = s.heap.means /\ heap'.made = s.heap.made
         /\ heap'.arena = s.heap.arena /\ heap'.saved = s.heap.saved
         /\ heap'.busy = s.heap.busy
         /\ heap'.refused = [k \in Kind |-> IF k \in Fitting(s.bufs, b) THEN s.heap.refused[k]
                                            ELSE s.heap.refused[k] + 1]
         /\ table'.persistent = s.handles /\ table'.transient = <<>>
         /\ cache' = {u \in s.bufs.cache : u[1] \in Fitting(s.bufs, b)}
         /\ stale' \in StaleState /\ stale'.heap = <<>> /\ stale'.handles = <<>>
         /\ stale'.bufs = IF Fitting(s.bufs, b) = Kind THEN <<>> ELSE <<s.bufs>>
         /\ Fitting(s.bufs, b) = Kind => stale' = NothingStale
<1> DEFINE fitting == Fitting(s.bufs, b)
           refused == [k \in Kind |-> IF k \in fitting THEN s.heap.refused[k]
                                      ELSE s.heap.refused[k] + 1]
<1>1. /\ s.heap \in HeapState /\ s.handles \in Handles /\ s.bufs \in MirrorState
  BY DEF SavedState
<1>2. refused \in [Kind -> Nat]
  <2> HIDE DEF fitting, Kind
  <2> QED BY <1>1 DEF HeapState
<1>3. heap' = [s.heap EXCEPT !.refused = refused]
  BY DEF Restore
<1>4. table' = Adopt(s.handles) /\ cache' = {u \in s.bufs.cache : u[1] \in fitting}
      /\ stale' = [NothingStale EXCEPT !.bufs = IF fitting = Kind THEN <<>> ELSE <<s.bufs>>]
  BY DEF Restore
<1> HIDE DEF refused, fitting
<1>5. /\ heap' \in HeapState /\ heap'.refused = refused
      /\ heap'.by = s.heap.by /\ heap'.holds = s.heap.holds
      /\ heap'.means = s.heap.means /\ heap'.made = s.heap.made
      /\ heap'.arena = s.heap.arena /\ heap'.saved = s.heap.saved
      /\ heap'.busy = s.heap.busy
  BY <1>1, <1>2, <1>3 DEF HeapState
<1>6. TableSound(table') /\ table'.persistent = s.handles /\ table'.transient = <<>>
  BY <1>1, <1>4, AdoptSound DEF Handles
<1>7. cache' \subseteq Buffer
  BY <1>1, <1>4 DEF MirrorState
<1>8. /\ stale'.heap = <<>> /\ stale'.handles = <<>>
      /\ stale'.bufs = IF fitting = Kind THEN <<>> ELSE <<s.bufs>>
      /\ stale' = [heap |-> <<>>, handles |-> <<>>,
                   bufs |-> IF fitting = Kind THEN <<>> ELSE <<s.bufs>>]
  BY <1>4 DEF NothingStale
<1>9. stale' \in StaleState
  BY <1>1, <1>8 DEF StaleState, Perhaps
<1>10. fitting = Kind => stale' = NothingStale
  BY <1>8 DEF NothingStale
<1> HIDE DEF HeapState, Buffer, Kind
<1>11. /\ heap' \in HeapState /\ TableSound(table') /\ cache' \subseteq Buffer
       /\ heap'.by = s.heap.by /\ heap'.holds = s.heap.holds
       /\ heap'.means = s.heap.means /\ heap'.made = s.heap.made
       /\ heap'.arena = s.heap.arena /\ heap'.saved = s.heap.saved
       /\ heap'.busy = s.heap.busy /\ heap'.refused = refused
  BY <1>5, <1>6, <1>7
<1>12. /\ table'.persistent = s.handles /\ table'.transient = <<>>
       /\ cache' = {u \in s.bufs.cache : u[1] \in fitting}
       /\ stale' \in StaleState /\ stale'.heap = <<>> /\ stale'.handles = <<>>
       /\ stale'.bufs = IF fitting = Kind THEN <<>> ELSE <<s.bufs>>
       /\ fitting = Kind => stale' = NothingStale
  BY <1>4, <1>6, <1>8, <1>9, <1>10
<1> QED BY <1>11, <1>12 DEF refused, fitting

\* A load that declines keeps the saved parts and starts from nothing.
LEMMA DeclineEffect ==
  ASSUME NEW s \in SavedState, NEW b \in Build, Decline(s, b)
  PROVE  /\ heap' = FreshHeap(b) /\ table' = NewTable /\ cache' = {}
         /\ heap' \in HeapState /\ TableSound(table') /\ table'.transient = <<>>
         /\ stale' \in StaleState /\ Saved' = s
         /\ stale'.heap # <<>> /\ stale'.heap[1] = s.heap
<1>1. /\ heap' = FreshHeap(b) /\ table' = NewTable /\ cache' = {}
      /\ stale' = [heap |-> <<s.heap>>, handles |-> <<s.handles>>, bufs |-> <<s.bufs>>]
  BY DEF Decline
<1>2. stale' \in StaleState
  BY <1>1 DEF SavedState, StaleState, Perhaps
<1>3. /\ stale'.heap # <<>> /\ stale'.heap[1] = s.heap
      /\ stale'.handles # <<>> /\ stale'.handles[1] = s.handles
      /\ stale'.bufs # <<>> /\ stale'.bufs[1] = s.bufs
  BY <1>1
<1>4. Saved' = s
  BY <1>3 DEF Saved, SavedState
<1>5. NewTable.transient = <<>>
  BY DEF NewTable
<1> QED BY <1>1, <1>2, <1>3, <1>4, <1>5, FreshHeapTyped, NewTableSound

\* A host call of the handler that runs brings in one more entry.
LEMMA ReenterEffect ==
  ASSUME Typed, NEW entry \in Kind, NEW obj \in Obj, Reenters(entry, obj)
  PROVE  \E f \in Frame :
         /\ alive /\ stack # <<>> /\ Len(stack) < MaxDepth
         /\ f.entry = entry /\ Raised(stack, f, table, heap, stale)
         /\ UNCHANGED <<alive, ticking, nth, stored, versions, waiting, tok>>
<1>1. /\ stack \in Seq(Frame) /\ heap \in HeapState /\ TableSound(table)
      /\ cache \subseteq Buffer /\ top \in 0..ScratchSize
      /\ stale \in StaleState /\ build \in Build
  BY DEF Typed
<1>2. entry \in Entries /\ obj \in Obj \cup {NoObj}
  BY DEF Entries, Kind
<1>3. Len(stack) < MaxDepth /\ Raise(stack, entry, obj, table, heap, stale)
  BY DEF Reenters
<1>4. \E f \in Frame : f.entry = entry /\ f.obj = obj /\ Raised(stack, f, table, heap, stale)
  BY <1>1, <1>2, <1>3, RaiseEffect
<1> QED BY <1>4 DEF Reenters, GuestRuns

\* One entry more on a stack.
LEMMA FramePushed ==
  ASSUME NEW s \in Seq(Frame), NEW f \in Frame
  PROVE  /\ Append(s, f) \in Seq(Frame) /\ Len(Append(s, f)) = Len(s) + 1
         /\ Append(s, f) # <<>> /\ Append(s, f)[Len(s) + 1] = f
         /\ DOMAIN Append(s, f) = DOMAIN s \cup {Len(s) + 1}
         /\ \A i \in DOMAIN s : i \in 1..Len(s) /\ Append(s, f)[i] = s[i]
  OBVIOUS

\* A stack of one entry.
LEMMA OneFrame ==
  ASSUME NEW f \in Frame, stack' = Append(<<>>, f)
  PROVE  stack' \in Seq(Frame) /\ Len(stack') = 1 /\ stack' # <<>> /\ stack'[1] = f
  OBVIOUS

\* And one entry less.
LEMMA FramePopped ==
  ASSUME NEW s \in Seq(Frame), Len(s) > 1
  PROVE  /\ Front(s) \in Seq(Frame) /\ Front(s) # <<>> /\ Len(Front(s)) = Len(s) - 1
         /\ Last(s) \in Frame /\ Last(s) = s[Len(s)] /\ Len(s) \in DOMAIN s
         /\ \A i \in DOMAIN Front(s) : /\ i \in DOMAIN s /\ i < Len(s)
                                       /\ Front(s)[i] = s[i]
         /\ Front(s)[1] = s[1]
<1>1. s \in [1..Len(s) -> Frame] /\ Len(s) \in Nat
  OBVIOUS
<1>2. Front(s) \in Seq(Frame) /\ Len(Front(s)) = Len(s) - 1
      /\ \A i \in 1..(Len(s) - 1) : Front(s)[i] = s[i]
  BY SubSeqProperties DEF Front
<1>3. DOMAIN Front(s) = 1..(Len(s) - 1)
  BY <1>2
<1>4. Front(s) # <<>>
  BY <1>2, EmptySeq
<1>5. Last(s) = s[Len(s)] /\ Len(s) \in DOMAIN s /\ Last(s) \in Frame
  BY <1>1 DEF Last
<1> HIDE DEF Frame
<1> QED BY <1>1, <1>2, <1>3, <1>4, <1>5

\* The frame of the handler that runs.
LEMMA LastFrame ==
  ASSUME NEW s \in Seq(Frame), s # <<>>
  PROVE  Last(s) \in Frame /\ Last(s) = s[Len(s)] /\ Len(s) \in DOMAIN s
<1>1. Len(s) \in 1..Len(s)
  BY EmptySeq
<1> QED BY <1>1 DEF Last

\* A stack of none.
LEMMA NoFrames == <<>> \in Seq(Frame) /\ Len(<<>>) = 0 /\ DOMAIN <<>> = {}
BY EmptySeq

-----------------------------------------------------------------------------
(* The conjuncts of RuntimeInv, one by one *)

\* Order is kept: a rebuild owes its notice until the first entry, which waits for it.
LEMMA OrderStep == ASSUME RuntimeInv, Next PROVE Order'
<1>1. /\ Typed /\ Order /\ stack \in Seq(Frame) /\ owed \in BOOLEAN
      /\ waiting \in Entrant \cup {Nobody}
  BY DEF RuntimeInv, Typed
<1>2. MaxDepth \in Nat \ {0}
  BY RuntimeAssumption
<1>3. \A w \in Entrant : w # Nobody /\ w.entry # "migrate"
  BY DEF Entrant, Nobody, Entries
<1>4. ASSUME UNCHANGED <<stack, waiting, versions>> PROVE Order'
  BY <1>1, <1>4 DEF Order, versions
<1>5. CASE Quiet
  BY <1>1, <1>4, <1>5, QuietEffect DEF depth
<1>6. CASE Entering
  <2>1. PICK w \in Entrant, st \in {stored, [stored EXCEPT !.deferred = FALSE]} :
          AtRest /\ Enter(w.entry, w.obj, st)
    BY <1>6 DEF Entering
  <2>2. PICK f \in Frame : Entered(w, st, f)
    BY <1>1, <2>1, EnterEffect
  <2>3. stack' = Append(<<>>, f) /\ owed' = FALSE /\ build' = build
    BY <2>2 DEF Entered, Raised
  <2>4. Len(stack') = 1 /\ stack' # <<>> /\ stack'[1] = f
    BY <2>3, OneFrame
  <2>5. CASE ~owed
    BY <1>1, <1>2, <1>3, <2>1, <2>2, <2>3, <2>4, <2>5 DEF Entered, Order, AtRest
  <2>6. CASE owed /\ Hook[build] = "none"
    BY <1>1, <1>2, <1>3, <2>1, <2>2, <2>3, <2>4, <2>6 DEF Entered, Order, AtRest
  <2>7. CASE owed /\ Hook[build] # "none"
    BY <1>1, <1>2, <1>3, <2>1, <2>2, <2>3, <2>4, <2>7 DEF Entered, Order, AtRest
  <2> QED BY <2>5, <2>6, <2>7
<1>7. CASE OutermostEnds
  <2>1. /\ stack' = <<>> /\ waiting' = Nobody /\ UNCHANGED versions
        /\ Len(stack) = 1
    BY <1>1, <1>7, OutermostEffect
  <2>2. stack # <<>> /\ Len(stack') = 0
    BY <2>1, NoFrames
  <2> QED BY <1>1, <1>2, <2>1, <2>2 DEF Order, versions
<1>8. CASE MigrateReturns
  <2>1. PICK f \in Frame, h \in HeapState :
          /\ stack # <<>> /\ waiting \in Entrant
          /\ f.entry = waiting.entry /\ Raised(<<>>, f, ClearTransient(table), h, NothingStale)
          /\ waiting' = Nobody /\ UNCHANGED versions
    BY <1>1, <1>8, MigrateEffect
  <2>2. Len(stack') = 1 /\ stack' # <<>> /\ stack'[1] = f
    BY <2>1, OneFrame DEF Raised
  <2> QED BY <1>1, <1>2, <1>3, <2>1, <2>2 DEF Order, versions
<1>9. ASSUME NEW v \in Var, Retains(v) \/ Releases(v) PROVE Order'
  BY <1>4, <1>9 DEF Retains, Releases, depth
<1>10. ASSUME NEW entry \in Kind, NEW obj \in Obj, Reenters(entry, obj) PROVE Order'
  <2>1. PICK f \in Frame : /\ stack # <<>> /\ Len(stack) < MaxDepth
                           /\ stack' = Append(stack, f)
                           /\ UNCHANGED <<waiting, versions>>
    BY <1>1, <1>10, ReenterEffect DEF Raised
  <2>2. stack' # <<>> /\ Len(stack') <= MaxDepth /\ stack'[1] = stack[1]
    BY <1>1, <1>2, <2>1
  <2> QED BY <1>1, <2>1, <2>2 DEF Order, versions
<1>11. ASSUME NEW ok \in BOOLEAN, NestedEnds(ok) PROVE Order'
  <2>1. /\ Len(stack) > 1 /\ stack' = Front(stack)
        /\ UNCHANGED <<waiting, versions>>
    BY <1>11 DEF NestedEnds
  <2>2. /\ stack # <<>> /\ stack' # <<>> /\ Len(stack') = Len(stack) - 1
        /\ stack'[1] = stack[1] /\ Len(stack) \in Nat
    BY <1>1, <2>1, FramePopped, EmptySeq
  <2> QED BY <1>1, <1>2, <2>1, <2>2 DEF Order, versions
<1>12. ASSUME NEW b \in Build, SaveAndLoad(b) PROVE Order'
  <2>1. /\ stack' = <<>> /\ waiting' = Nobody /\ build' = b
        /\ owed' = (stored.stamp # b)
        /\ untold' = IF stored.stamp = b \/ Hook[b] = "none" THEN 0 ELSE 1
    BY <1>1, <1>12, LoadEffect
  <2>2. Len(stack') = 0
    BY <2>1, NoFrames
  <2>3. owed' <=> stored.stamp # b
    BY <2>1
  <2>4. untold' = IF owed' /\ Hook[b] # "none" THEN 1 ELSE 0
    BY <2>1, <2>3
  <2>5. Len(stack') <= MaxDepth
    BY <1>2, <2>2
  <2>6. ~(waiting' # Nobody)
    BY <2>1
  <2> HIDE DEF Nobody
  <2> QED BY <2>1, <2>4, <2>5, <2>6 DEF Order
<1> QED BY <1>1, <1>5, <1>6, <1>7, <1>8, <1>9, <1>10, <1>11, <1>12, NextCases

\* What Raise puts on the stack is a frame.
LEMMA FrameTyped ==
  ASSUME NEW f \in Frame
  PROVE  /\ f.lo \in Nat /\ f.hi \in Nat /\ f.hi <= ScratchSize
         /\ f.arena \in Nat /\ f.h \in Nat /\ f.entry \in Entries
<1>1. f.lo \in 0..ScratchSize /\ f.hi \in 0..ScratchSize
  BY DEF Frame
<1>2. f.arena \in Nat /\ f.h \in Nat /\ f.entry \in Entries
  BY DEF Frame
<1> QED BY <1>1, <1>2, RuntimeFacts

\* An entry raised over frames that nest takes what comes behind theirs.
LEMMA NestPushed ==
  ASSUME NEW s \in Seq(Frame), NEW m \in Nat, NEW a \in Nat, NEW a2 \in Nat, a <= a2,
         NEW transient, NEW more, Len(transient) \in Nat, Len(more) \in Nat,
         Len(transient) <= Len(more),
         \A k \in 1..Len(transient) : more[k] = transient[k],
         Nest(s, m, a, transient),
         NEW f \in Frame, f.arena = a, f.lo <= f.hi, Len(s) > 0 => f.lo = m,
         f.entry \in Kind => /\ f.obj \in Obj
                             /\ f.h >= Transient /\ f.h < Transient + Len(more)
                             /\ more[f.h - Transient + 1] = f.obj
                             /\ f.hi = f.lo => a < a2,
         f.entry \notin Kind => f.h = 0
  PROVE  Nest(Append(s, f), f.hi, a2, more)
<1> DEFINE t == Append(s, f)
           n == Len(s)
<1>1. /\ t \in Seq(Frame) /\ Len(t) = n + 1 /\ n \in Nat /\ t[n + 1] = f
      /\ DOMAIN t = 1..(n + 1) /\ \A i \in 1..n : t[i] = s[i] /\ i \in DOMAIN s
      /\ \A i \in 1..n : s[i] \in Frame
  BY FramePushed
<1>2. /\ f.lo \in Nat /\ f.hi \in Nat /\ f.h \in Nat /\ Transient \in Nat
      /\ \A i \in 1..n : s[i].hi \in Nat /\ s[i].lo \in Nat /\ s[i].arena \in Nat
                         /\ s[i].h \in Nat
  BY <1>1, FrameTyped, RuntimeFacts
<1>3. \A i \in 1..n : s[i].hi <= f.lo /\ s[i].arena <= a
                      /\ (s[i].entry \in Kind /\ s[i].hi = s[i].lo => s[i].arena < a)
  <2>1. ASSUME NEW i \in 1..n PROVE n > 0
    BY <1>1
  <2> QED BY <1>1, <2>1 DEF Nest
<1> HIDE DEF t, n
<1>5. ASSUME NEW i \in DOMAIN t
      PROVE  /\ t[i].lo <= t[i].hi /\ t[i].hi <= f.hi /\ t[i].arena <= a2
             /\ t[i].entry \in Kind =>
                   /\ t[i].obj \in Obj
                   /\ t[i].h >= Transient /\ t[i].h < Transient + Len(more)
                   /\ more[t[i].h - Transient + 1] = t[i].obj
                   /\ t[i].hi = t[i].lo => t[i].arena < a2
             /\ t[i].entry \notin Kind => t[i].h = 0
  <2>1. CASE i = n + 1
    <3>1. t[i] = f
      BY <1>1, <2>1
    <3> QED BY <1>2, <3>1
  <2>2. CASE i \in 1..n
    <3>1. /\ t[i] = s[i] /\ s[i].lo <= s[i].hi
          /\ s[i].entry \in Kind =>
                   /\ s[i].obj \in Obj
                   /\ s[i].h >= Transient /\ s[i].h < Transient + Len(transient)
                   /\ transient[s[i].h - Transient + 1] = s[i].obj
          /\ s[i].entry \notin Kind => s[i].h = 0
      BY <1>1, <2>2 DEF Nest
    <3>2. s[i].entry \in Kind =>
            /\ s[i].h - Transient + 1 \in 1..Len(transient)
            /\ s[i].h < Transient + Len(more)
      <4>1. s[i].h \in Nat /\ Transient \in Nat
        BY <1>2, <2>2
      <4>2. Len(transient) \in Nat /\ Len(more) \in Nat /\ Len(transient) <= Len(more)
        OBVIOUS
      <4> QED BY ONLY <3>1, <4>1, <4>2
    <3>3. s[i].entry \in Kind => more[s[i].h - Transient + 1] = s[i].obj
      BY <3>1, <3>2
    <3>4. /\ s[i].hi <= f.hi /\ s[i].arena <= a2
          /\ s[i].entry \in Kind /\ s[i].hi = s[i].lo => s[i].arena < a2
      <4>1. s[i].hi \in Nat /\ s[i].arena \in Nat /\ f.lo \in Nat /\ f.hi \in Nat
        BY <1>2, <2>2
      <4>2. a \in Nat /\ a2 \in Nat /\ a <= a2 /\ f.lo <= f.hi
        OBVIOUS
      <4>3. /\ s[i].hi <= f.lo /\ s[i].arena <= a
            /\ s[i].entry \in Kind /\ s[i].hi = s[i].lo => s[i].arena < a
        BY <1>3, <2>2
      <4> QED BY ONLY <4>1, <4>2, <4>3
    <3> QED BY <3>1, <3>2, <3>3, <3>4
  <2> QED BY <1>1, <2>1, <2>2
<1>6. ASSUME NEW i \in DOMAIN t, NEW j \in DOMAIN t, i < j
      PROVE  /\ t[i].hi <= t[j].lo /\ t[i].arena <= t[j].arena
             /\ t[i].entry \in Kind /\ t[i].hi = t[i].lo => t[i].arena < t[j].arena
  <2>1. i \in 1..n /\ t[i] = s[i] /\ i \in DOMAIN s
    BY <1>1, <1>6
  <2>2. CASE j = n + 1
    BY <1>1, <1>3, <2>1, <2>2
  <2>3. CASE j \in 1..n
    <3>1. t[j] = s[j] /\ j \in DOMAIN s
      BY <1>1, <2>3
    <3> QED BY <1>6, <2>1, <3>1 DEF Nest
  <2> QED BY <1>1, <2>2, <2>3
<1>7. Nest(t, f.hi, a2, more)
  BY <1>5, <1>6 DEF Nest
<1> QED BY <1>7 DEF t

\* Raise keeps the shares of what is in progress apart (dispatch, invoke_callback).
LEMMA RaisedNests ==
  ASSUME NEW s \in Seq(Frame), NEW t, TableSound(t), NEW h \in HeapState,
         top \in 0..ScratchSize, Nest(s, top, h.arena, t.transient),
         NEW f \in Frame, NEW st, Raised(s, f, t, h, st)
  PROVE  FramesNest'
<1>1. /\ t.transient \in Seq(Obj) /\ h.arena \in Nat /\ top \in Nat /\ heap'.arena \in Nat
      /\ Len(t.transient) \in Nat /\ Transient \in Nat
  BY RuntimeFacts DEF TableSound, Table, HeapState, Raised
<1>2. /\ f.arena = h.arena /\ f.lo <= f.hi /\ (Len(s) > 0 => f.lo = top)
      /\ stack' = Append(s, f) /\ top' = f.hi
  BY NoFrames DEF Raised
<1>3. CASE f.entry \in Kind
  <2>1. /\ f.obj \in Obj /\ f.h = Transient + Len(t.transient)
        /\ table'.transient = Append(t.transient, f.obj)
        /\ heap'.arena = IF f.hi = f.lo THEN h.arena + 1 ELSE h.arena
    BY <1>3, HandSound DEF Raised, NextTransient
  <2>2. /\ Len(table'.transient) = Len(t.transient) + 1
        /\ \A k \in 1..Len(t.transient) : table'.transient[k] = t.transient[k]
        /\ table'.transient[Len(t.transient) + 1] = f.obj
    BY <1>1, <2>1, AppendProperties
  <2>3. h.arena <= heap'.arena /\ (f.hi = f.lo => h.arena < heap'.arena)
    BY <1>1, <2>1
  <2>4. /\ f.h >= Transient /\ f.h < Transient + Len(table'.transient)
        /\ f.h - Transient + 1 = Len(t.transient) + 1
        /\ Len(t.transient) <= Len(table'.transient) /\ Len(table'.transient) \in Nat
    <3> HIDE DEF Kind
    <3>1. f.h = Transient + Len(t.transient)
      BY <2>1
    <3>2. Len(table'.transient) = Len(t.transient) + 1
      BY <2>2
    <3> QED BY ONLY <1>1, <3>1, <3>2
  <2>5. Nest(Append(s, f), f.hi, heap'.arena, table'.transient)
    BY <1>1, <1>2, <1>3, <2>1, <2>2, <2>3, <2>4, NestPushed
  <2> QED BY <1>2, <2>5 DEF FramesNest
<1>4. CASE f.entry \notin Kind
  <2>1. /\ f.h = 0 /\ table' = t /\ heap' = h
        /\ h.arena <= heap'.arena /\ Len(t.transient) <= Len(table'.transient)
        /\ \A k \in 1..Len(t.transient) : table'.transient[k] = t.transient[k]
    BY <1>1, <1>4 DEF Raised
  <2>2. Nest(Append(s, f), f.hi, heap'.arena, table'.transient)
    BY <1>1, <1>2, <1>4, <2>1, NestPushed
  <2> QED BY <1>2, <2>2 DEF FramesNest
<1> QED BY <1>3, <1>4

\* And of the outermost entry there is nothing it could overlap.
LEMMA OutermostNests ==
  ASSUME NEW t, TableSound(t), NEW h \in HeapState, top \in 0..ScratchSize,
         NEW f \in Frame, NEW st, Raised(<<>>, f, t, h, st)
  PROVE  FramesNest'
<1> DEFINE s == <<>>
<1>1. s \in Seq(Frame) /\ Nest(s, top, h.arena, t.transient) /\ Raised(s, f, t, h, st)
  BY NoFrames DEF Nest
<1> HIDE DEF s
<1> QED BY <1>1, RaisedNests

\* FramesNest is kept: a handler's payload ends with it, not before.
LEMMA FramesNestStep == ASSUME RuntimeInv, Next PROVE FramesNest'
<1>1. /\ Typed /\ Order /\ FramesNest /\ stack \in Seq(Frame) /\ heap \in HeapState
      /\ TableSound(table) /\ top \in 0..ScratchSize
  BY DEF RuntimeInv, Typed
<1>2. ASSUME UNCHANGED <<stack, top>>, heap'.arena = heap.arena,
             table'.transient = table.transient
      PROVE  FramesNest'
  BY <1>1, <1>2 DEF FramesNest
<1>3. ASSUME stack' = <<>> PROVE FramesNest'
  BY <1>3, NoFrames DEF FramesNest, Nest
<1>4. CASE Quiet
  BY <1>1, <1>2, <1>4, QuietEffect DEF depth
<1>5. CASE Entering
  <2>1. PICK w \in Entrant, st \in {stored, [stored EXCEPT !.deferred = FALSE]} :
          Enter(w.entry, w.obj, st)
    BY <1>5 DEF Entering
  <2>2. PICK f \in Frame, from \in {stale, NothingStale} :
          Raised(<<>>, f, table, Marked(heap), from)
    BY <1>1, <2>1, EnterEffect DEF Entered
  <2>3. Marked(heap) \in HeapState
    BY <1>1, MarkedTyped
  <2> QED BY <1>1, <2>2, <2>3, OutermostNests
<1>6. CASE OutermostEnds
  BY <1>1, <1>3, <1>6, OutermostEffect
<1>7. CASE MigrateReturns
  <2>1. PICK f \in Frame, h \in HeapState :
          Raised(<<>>, f, ClearTransient(table), h, NothingStale)
    BY <1>1, <1>7, MigrateEffect
  <2>2. TableSound(ClearTransient(table))
    BY <1>1, ClearSound
  <2> QED BY <1>1, <2>1, <2>2, OutermostNests
<1>8. ASSUME NEW v \in Var, Retains(v) PROVE FramesNest'
  <2>1. Get(table, Last(stack).h) \in Obj
    <3>1. Get(table, Last(stack).h) # NoObj
      BY <1>8 DEF Retains
    <3>2. Last(stack).h \in Nat
      BY <1>1, <1>8, FrameTyped, LastFrame DEF Retains, GuestRuns
    <3>3. Get(table, Last(stack).h) \in Obj \cup {NoObj}
      BY <1>1, <3>2, GetTyped
    <3> QED BY <3>1, <3>3
  <2>2. table'.transient = table.transient
    BY <1>1, <1>8, <2>1, RetainSound DEF Retains
  <2>3. heap'.arena = heap.arena /\ UNCHANGED depth
    BY <1>1, <1>8 DEF Retains, HeapState
  <2> QED BY <1>2, <2>2, <2>3 DEF depth
<1>9. ASSUME NEW v \in Var, Releases(v) PROVE FramesNest'
  <2>1. table'.transient = table.transient
    BY <1>1, <1>9 DEF Releases, Release, TableSound, Table
  <2>2. heap'.arena = heap.arena /\ UNCHANGED depth
    BY <1>1, <1>9 DEF Releases, HeapState
  <2> QED BY <1>2, <2>1, <2>2 DEF depth
<1>10. ASSUME NEW entry \in Kind, NEW obj \in Obj, Reenters(entry, obj)
       PROVE  FramesNest'
  BY <1>1, <1>10, ReenterEffect, RaisedNests DEF FramesNest
<1>11. ASSUME NEW ok \in BOOLEAN, NestedEnds(ok) PROVE FramesNest'
  <2> DEFINE n == Len(stack)
             f == Last(stack)
  <2>1. /\ n > 1 /\ stack' = Front(stack) /\ table' = table
        /\ top' \in {ResultsTo(f.lo), top, f.lo}
        /\ heap' = [heap EXCEPT !.arena = f.arena]
    BY <1>11 DEF NestedEnds
  <2>2. /\ f = stack[n] /\ f \in Frame /\ n \in DOMAIN stack
        /\ \A i \in DOMAIN stack' : i \in DOMAIN stack /\ i < n /\ stack'[i] = stack[i]
    BY <1>1, <2>1, FramePopped
  <2>3. heap'.arena = f.arena
    BY <1>1, <2>1 DEF HeapState
  <2>4. /\ f.lo \in Nat /\ f.hi \in Nat /\ f.lo <= f.hi /\ f.hi <= top /\ top \in Nat
    BY <1>1, <2>2, RuntimeFacts DEF FramesNest, Nest, Frame
  <2>5. top' \in Nat /\ f.lo <= top'
    BY <2>1, <2>4 DEF ResultsTo
  <2>6. ASSUME NEW i \in DOMAIN stack'
        PROVE  /\ stack'[i] = stack[i] /\ i \in DOMAIN stack
               /\ stack[i].hi <= f.lo /\ stack[i].arena <= f.arena
               /\ stack[i].entry \in Kind /\ stack[i].hi = stack[i].lo =>
                     stack[i].arena < f.arena
               /\ stack[i].hi \in Nat
    <3> HIDE DEF n, f
    <3>1. stack[i].hi \in Nat
      BY <1>1, <2>2, FrameTyped
    <3> QED BY <1>1, <2>2, <3>1 DEF FramesNest, Nest
  <2> HIDE DEF n, f
  <2>7. ASSUME NEW i \in DOMAIN stack'
        PROVE  stack'[i].hi <= top'
    BY <2>4, <2>5, <2>6
  <2>8. Nest(stack', top', f.arena, table.transient)
    BY <1>1, <2>6, <2>7 DEF FramesNest, Nest
  <2> QED BY <2>1, <2>3, <2>8 DEF FramesNest
<1>12. ASSUME NEW b \in Build, SaveAndLoad(b) PROVE FramesNest'
  BY <1>1, <1>3, <1>12, LoadEffect
<1> QED BY <1>1, <1>4, <1>5, <1>6, <1>7, <1>8, <1>9, <1>10, <1>11, <1>12, NextCases

\* ArenaMarked is kept: the outermost dispatch releases to where it marked.
LEMMA ArenaMarkedStep == ASSUME RuntimeInv, Next PROVE ArenaMarked'
<1>1. /\ Typed /\ Order /\ ArenaMarked /\ stack \in Seq(Frame) /\ heap \in HeapState
      /\ TableSound(table) /\ tok \in BOOLEAN
  BY DEF RuntimeInv, Typed
<1>2. ASSUME UNCHANGED <<stack, tok, stale>>, heap'.arena = heap.arena,
             heap'.saved = heap.saved, table'.transient = table.transient
      PROVE  ArenaMarked'
  BY <1>1, <1>2 DEF ArenaMarked
<1>3. ASSUME stack' # <<>>, tok', heap'.saved = 0,
             stale'.heap = <<>> \/ stale'.heap = stale.heap
      PROVE  ArenaMarked'
  BY <1>1, <1>3 DEF ArenaMarked
<1>4. CASE Quiet
  BY <1>1, <1>2, <1>4, QuietEffect DEF depth
<1>5. CASE Entering
  <2>1. PICK w \in Entrant, st \in {stored, [stored EXCEPT !.deferred = FALSE]} :
          AtRest /\ Enter(w.entry, w.obj, st)
    BY <1>5 DEF Entering
  <2>2. PICK f \in Frame : Entered(w, st, f)
    BY <1>1, <2>1, EnterEffect
  <2>3. heap'.saved = 0
    BY <1>1, <2>1, <2>2, MarkedTyped DEF Entered, Raised, ArenaMarked, AtRest
  <2>4. stack' # <<>>
    BY <2>2, OneFrame DEF Entered, Raised
  <2>5. tok' /\ (stale'.heap = <<>> \/ stale'.heap = stale.heap)
    <3>1. PICK from \in {stale, NothingStale} : Raised(<<>>, f, table, Marked(heap), from)
      BY <2>2 DEF Entered
    <3>2. stale'.heap = from.heap
      BY <3>1 DEF Raised
    <3>3. tok'
      BY <2>2 DEF Entered
    <3> QED BY <3>1, <3>2, <3>3, NothingStaleTyped
  <2> QED BY <1>3, <2>3, <2>4, <2>5
<1>6. CASE OutermostEnds
  <2>1. /\ Len(stack) = 1 /\ stack' = <<>> /\ tok' = FALSE
        /\ stale'.heap \in {stale.heap, <<>>} /\ table' = ClearTransient(table)
        /\ heap'.arena = IF tok THEN heap.saved ELSE heap.arena
    BY <1>1, <1>6, OutermostEffect
  <2>4. Len(stack) = 1
    BY <2>1
  <2>2. stack # <<>>
    BY <2>4, NoFrames
  <2>3. heap'.arena = 0 /\ table'.transient = <<>>
    BY <1>1, <2>1, <2>2, ClearSound DEF ArenaMarked
  <2> QED BY <1>1, <2>1, <2>3 DEF ArenaMarked
<1>7. CASE MigrateReturns
  <2>1. PICK f \in Frame, h \in HeapState :
          /\ stack # <<>> /\ Raised(<<>>, f, ClearTransient(table), h, NothingStale)
          /\ h.saved = h.arena /\ h.arena = IF tok THEN heap.saved ELSE heap.arena
          /\ stale'.heap = <<>> /\ tok' = TRUE
    BY <1>1, <1>7, MigrateEffect, NothingStaleTyped
  <2>2. heap'.saved = 0
    BY <1>1, <2>1 DEF Raised, ArenaMarked
  <2>3. stack' # <<>>
    BY <2>1, OneFrame DEF Raised
  <2> QED BY <1>3, <2>1, <2>2, <2>3
<1>8. ASSUME NEW v \in Var, Retains(v) PROVE ArenaMarked'
  <2>1. stack # <<>> /\ stack' = stack /\ tok' = tok /\ stale' = stale
    BY <1>8 DEF Retains, GuestRuns, depth, storage
  <2>2. heap'.saved = heap.saved
    BY <1>1, <1>8 DEF Retains, HeapState
  <2> QED BY <1>1, <2>1, <2>2 DEF ArenaMarked
<1>9. ASSUME NEW v \in Var, Releases(v) PROVE ArenaMarked'
  <2>1. stack # <<>> /\ stack' = stack /\ tok' = tok /\ stale' = stale
    BY <1>9 DEF Releases, GuestRuns, depth, storage
  <2>2. heap'.saved = heap.saved
    BY <1>1, <1>9 DEF Releases, HeapState
  <2> QED BY <1>1, <2>1, <2>2 DEF ArenaMarked
<1>10. ASSUME NEW entry \in Kind, NEW obj \in Obj, Reenters(entry, obj)
       PROVE  ArenaMarked'
  <2>1. PICK f \in Frame : /\ stack # <<>> /\ Raised(stack, f, table, heap, stale)
                           /\ tok' = tok /\ stale'.heap = stale.heap
    BY <1>1, <1>10, ReenterEffect DEF Raised
  <2>2. stack' # <<>>
    BY <1>1, <2>1, FramePushed DEF Raised
  <2>3. heap'.saved = heap.saved
    BY <2>1 DEF Raised
  <2> QED BY <1>1, <2>1, <2>2, <2>3 DEF ArenaMarked
<1>11. ASSUME NEW ok \in BOOLEAN, NestedEnds(ok) PROVE ArenaMarked'
  <2>1. /\ Len(stack) > 1 /\ stack' = Front(stack) /\ UNCHANGED <<storage, tok>>
        /\ heap' = [heap EXCEPT !.arena = Last(stack).arena]
    BY <1>11 DEF NestedEnds
  <2>2. stack # <<>> /\ stack' # <<>>
    BY <1>1, <2>1, FramePopped, EmptySeq
  <2>3. heap'.saved = heap.saved
    BY <1>1, <2>1 DEF HeapState
  <2> QED BY <1>1, <2>1, <2>2, <2>3 DEF ArenaMarked, storage
<1>12. ASSUME NEW b \in Build, SaveAndLoad(b) PROVE ArenaMarked'
  <2>1. PICK s \in SavedState, adopted \in BOOLEAN :
          /\ stack = <<>> /\ UNCHANGED <<stack, tok>> /\ s = Saved
          /\ adopted => Restore(s, b)
          /\ ~adopted => Decline(s, b)
    BY <1>1, <1>12, LoadEffect
  <2>2. s.heap.arena = 0
    BY <1>1, <2>1 DEF ArenaMarked, Saved
  <2>3. CASE adopted
    <3>1. /\ heap'.arena = s.heap.arena /\ table'.transient = <<>> /\ stale'.heap = <<>>
      BY <2>1, <2>3, RestoreEffect
    <3> QED BY <1>1, <2>1, <2>2, <3>1 DEF ArenaMarked
  <2>4. CASE ~adopted
    <3>1. /\ heap' = FreshHeap(b) /\ table'.transient = <<>> /\ stale'.heap[1] = s.heap
      BY <2>1, <2>4, DeclineEffect
    <3>2. heap'.arena = 0
      BY <3>1, FreshHeapTyped
    <3> QED BY <1>1, <2>1, <2>2, <3>1, <3>2 DEF ArenaMarked
  <2> QED BY <2>3, <2>4
<1> QED BY <1>1, <1>4, <1>5, <1>6, <1>7, <1>8, <1>9, <1>10, <1>11, <1>12, NextCases

\* A handler that retains what it was given is given its own object.
LEMMA GivenObject ==
  ASSUME RuntimeInv, stack # <<>>, Get(table, Last(stack).h) # NoObj
  PROVE  Last(stack).obj \in Obj /\ Get(table, Last(stack).h) = Last(stack).obj
<1> DEFINE f == Last(stack)
<1>1. /\ stack \in Seq(Frame) /\ FramesNest /\ TableSound(table)
  BY DEF RuntimeInv, Typed
<1>2. f \in Frame /\ f = stack[Len(stack)] /\ Len(stack) \in DOMAIN stack
  BY <1>1, LastFrame
<1> HIDE DEF f
<1>3. CASE f.entry \in Kind
  BY <1>1, <1>2, <1>3 DEF FramesNest, Nest, Get, NextTransient, f
<1>4. CASE f.entry \notin Kind
  <2>1. f.h = 0
    BY <1>1, <1>2, <1>4 DEF FramesNest, Nest
  <2>2. Get(table, 0) = NoObj
    BY RuntimeFacts, HandleAssumption DEF Get
  <2> QED BY <2>1, <2>2 DEF f
<1> QED BY <1>3, <1>4

-----------------------------------------------------------------------------
(* Heap, handles and buffers, when the notice of a rebuild does not trap *)

LiveKept == Kept(heap, table.persistent)

\* Between dispatches a save has what belongs together.
LEMMA SavedWholeAtRest == ASSUME RuntimeInv, Whole, AtRest PROVE SavedWhole
<1>1. CASE owed
  BY <1>1 DEF Whole, Pending
<1>2. CASE ~owed
  <2>1. stale = NothingStale /\ heap.by = build /\ stored.stamp = build
    BY <1>2 DEF Whole, Settled, AtRest
  <2>2. Saved = [heap |-> heap, handles |-> table.persistent, bufs |-> Mirror]
    BY <2>1, SavedLive
  <2>3. Mirror.asks = Asks[build]
    BY DEF Mirror
  <2> QED BY <2>1, <2>2, <2>3 DEF Whole, LiveWhole, SavedWhole
<1> QED BY <1>1, <1>2

\* A heap just made has no buffers.
LEMMA FreshBuffers ==
  ASSUME NEW b \in Build, NEW m, m.cache = {}
  PROVE  Buffered(FreshHeap(b), m)
<1>1. ASSUME NEW u \in Buffer
      PROVE  /\ Len(FreshHeap(b).made[u]) <= FreshHeap(b).refused[u[1]] + 0
             /\ u \notin m.cache
  <2>1. u[1] \in Kind
    BY DEF Buffer
  <2> HIDE DEF Buffer, Kind
  <2>2. FreshHeap(b).made[u] = <<>> /\ FreshHeap(b).refused[u[1]] = 0
    BY <2>1, FreshHeapTyped
  <2>3. Len(<<>>) <= 0 + 0
    BY NoFrames
  <2> QED BY <2>2, <2>3
<1> QED BY <1>1 DEF Buffered

\* The buffers an adopted heap comes with are known, or given up for good.
LEMMA RestoreBuffers ==
  ASSUME NEW s \in SavedState, NEW b \in Build, Restore(s, b), build' = b,
         Buffered(s.heap, s.bufs)
  PROVE  /\ Buffered(heap', Mirror') /\ Buffered(heap', s.bufs)
         /\ Fitting(s.bufs, b) = Kind <=> s.bufs.asks = Asks[b]
<1> DEFINE fitting == Fitting(s.bufs, b)
<1>1. /\ s.heap.made \in [Buffer -> Seq(Nat)] /\ s.heap.refused \in [Kind -> Nat]
      /\ s.bufs.asks \in [Kind -> Nat] /\ Asks[b] \in [Kind -> Nat \ {0}]
  BY RuntimeAssumption DEF SavedState, HeapState, MirrorState
<1>2. /\ heap'.made = s.heap.made
      /\ heap'.refused = [k \in Kind |-> IF k \in fitting THEN s.heap.refused[k]
                                         ELSE s.heap.refused[k] + 1]
      /\ cache' = {u \in s.bufs.cache : u[1] \in fitting}
  BY RestoreEffect
<1>3. \A k \in Kind : k \in fitting <=> s.bufs.asks[k] = Asks[b][k]
  BY DEF Fitting
<1>4. fitting = Kind <=> s.bufs.asks = Asks[b]
  <2>1. fitting \subseteq Kind
    BY DEF Fitting
  <2>2. s.bufs.asks = Asks[b] <=> \A k \in Kind : s.bufs.asks[k] = Asks[b][k]
    <3> HIDE DEF Kind
    <3>1. /\ s.bufs.asks = [k \in Kind |-> s.bufs.asks[k]]
          /\ Asks[b] = [k \in Kind |-> Asks[b][k]]
      BY <1>1
    <3> QED BY <3>1
  <2> HIDE DEF fitting, Kind
  <2> QED BY <1>3, <2>1, <2>2
<1>5. Mirror' = [cache |-> cache', asks |-> Asks[b]]
  BY DEF Mirror
<1> HIDE DEF fitting
<1>6. ASSUME NEW u \in Buffer
      PROVE  /\ Len(heap'.made[u]) <= heap'.refused[u[1]] + (IF u \in cache' THEN 1 ELSE 0)
             /\ u \in cache' => heap'.made[u] # <<>> /\ Last(heap'.made[u]) = Asks[b][u[1]]
             /\ Len(heap'.made[u]) <= heap'.refused[u[1]] + (IF u \in s.bufs.cache THEN 1 ELSE 0)
             /\ u \in s.bufs.cache => /\ heap'.made[u] # <<>>
                                      /\ Last(heap'.made[u]) = s.bufs.asks[u[1]]
  <2>1. u[1] \in Kind
    BY DEF Buffer
  <2> HIDE DEF Buffer, Kind
  <2>2. /\ Len(s.heap.made[u]) <= s.heap.refused[u[1]] + (IF u \in s.bufs.cache THEN 1 ELSE 0)
        /\ u \in s.bufs.cache => /\ s.heap.made[u] # <<>>
                                 /\ Last(s.heap.made[u]) = s.bufs.asks[u[1]]
    BY DEF Buffered
  <2>3. Len(s.heap.made[u]) \in Nat /\ s.heap.refused[u[1]] \in Nat
    BY <1>1, <2>1
  <2>4. CASE u[1] \in fitting
    <3>1. /\ heap'.refused[u[1]] = s.heap.refused[u[1]] /\ (u \in cache' <=> u \in s.bufs.cache)
          /\ s.bufs.asks[u[1]] = Asks[b][u[1]]
      BY <1>2, <1>3, <2>1, <2>4
    <3> QED BY <1>2, <2>2, <3>1
  <2>5. CASE u[1] \notin fitting
    <3>1. /\ heap'.refused[u[1]] = s.heap.refused[u[1]] + 1 /\ u \notin cache'
      BY <1>2, <2>1, <2>5
    <3>2. Len(s.heap.made[u]) <= s.heap.refused[u[1]] + 1
      BY <2>2, <2>3
    <3> QED BY <1>2, <2>2, <2>3, <3>1, <3>2
  <2> QED BY <2>4, <2>5
<1>7. Buffered(heap', Mirror')
  BY <1>5, <1>6 DEF Buffered
<1>8. Buffered(heap', s.bufs)
  BY <1>6 DEF Buffered
<1> QED BY <1>4, <1>7, <1>8 DEF fitting

\* LiveKept is kept: retain, release and adopt hand no slot to two holders and lose none.
LEMMA LiveKeptStep == ASSUME RuntimeInv, Whole, Next PROVE LiveKept'
<1>1. /\ RuntimeInv /\ Typed /\ Order /\ LiveKept /\ heap \in HeapState /\ TableSound(table)
      /\ cache \subseteq Buffer
      /\ table.persistent \in [Persistent -> Obj \cup {NoObj}]
  BY DEF RuntimeInv, Typed, TableSound, Table, Whole, LiveWhole, LiveKept
<1>2. ASSUME heap'.holds = heap.holds, heap'.means = heap.means,
             table'.persistent = table.persistent
      PROVE  LiveKept'
  BY <1>1, <1>2 DEF LiveKept, Kept, Keeps
<1>3. ASSUME NEW s, NEW f \in Frame, NEW t, TableSound(t), t.persistent = table.persistent,
             NEW h, h.holds = heap.holds, h.means = heap.means, NEW st, Raised(s, f, t, h, st)
      PROVE  LiveKept'
  <2>1. heap'.holds = heap.holds /\ heap'.means = heap.means
    BY <1>3 DEF Raised
  <2>2. table'.persistent = table.persistent
    BY <1>3, HandSound DEF Raised
  <2> QED BY <1>2, <1>3, <2>1, <2>2
<1>4. CASE Quiet
  BY <1>1, <1>2, <1>4, QuietEffect DEF SameGuest
<1>5. CASE Entering
  <2>1. PICK w \in Entrant, st \in {stored, [stored EXCEPT !.deferred = FALSE]} :
          Enter(w.entry, w.obj, st)
    BY <1>5 DEF Entering
  <2>2. PICK f \in Frame, from \in {stale, NothingStale} :
          Raised(<<>>, f, table, Marked(heap), from)
    BY <1>1, <2>1, EnterEffect DEF Entered
  <2> QED BY <1>1, <1>3, <2>2, MarkedTyped
<1>6. CASE OutermostEnds
  BY <1>1, <1>2, <1>6, OutermostEffect, ClearSound DEF SameGuest
<1>7. CASE MigrateReturns
  BY <1>1, <1>3, <1>7, MigrateEffect, ClearSound DEF SameGuest
<1>8. ASSUME NEW v \in Var, Retains(v) PROVE LiveKept'
  <2> DEFINE o == Last(stack).obj
             n == Slot(table)
  <2>1. o \in Obj /\ Get(table, Last(stack).h) = o
    BY <1>1, <1>8, GivenObject DEF Retains, GuestRuns
  <2>2. /\ heap.holds[v] = 0 /\ table' = Retain(table, o)
        /\ heap' = [heap EXCEPT !.holds[v] = n, !.means[v] = IF n = 0 THEN NoObj ELSE o]
    BY <1>8, <2>1 DEF Retains
  <2> HIDE DEF o, n
  <2>3. /\ heap'.holds = [heap.holds EXCEPT ![v] = n]
        /\ heap'.means = [heap.means EXCEPT ![v] = IF n = 0 THEN NoObj ELSE o]
    BY <1>1, <2>2 DEF HeapState
  <2>4. /\ heap.holds \in [Var -> Persistent \cup {0}]
        /\ DOMAIN heap.holds = Var /\ DOMAIN heap.means = Var
    BY <1>1 DEF HeapState
  <2>5. CASE n = 0
    <3>1. table'.persistent = table.persistent
      BY <1>1, <2>1, <2>2, <2>5, RetainSound DEF n
    <3>2. heap'.holds = heap.holds
      BY <2>2, <2>3, <2>4, <2>5
    <3>3. \A w \in Var : heap.holds[w] # 0 => heap'.means[w] = heap.means[w]
      BY <2>2, <2>3, <2>4
    <3> QED BY <1>1, <2>2, <3>1, <3>2, <3>3 DEF LiveKept, Kept, Keeps
  <2>6. CASE n # 0
    <3>1. /\ n \in Persistent /\ table.persistent[n] = NoObj
          /\ table'.persistent = [table.persistent EXCEPT ![n] = o]
      BY <1>1, <2>1, <2>2, <2>6, RetainSound DEF n
    <3>2. \A w \in Var : heap.holds[w] # 0 => heap.holds[w] # n
      BY <1>1, <3>1, RuntimeFacts DEF LiveKept, Kept, Keeps
    <3>3. ASSUME NEW w \in Var, heap'.holds[w] # 0
          PROVE  /\ table'.persistent[heap'.holds[w]] = heap'.means[w]
                 /\ heap'.means[w] \in Obj
      <4>1. CASE w = v
        BY <1>1, <2>1, <2>3, <2>4, <2>6, <3>1, <4>1
      <4>2. CASE w # v
        <5>1. heap'.holds[w] = heap.holds[w] /\ heap'.means[w] = heap.means[w]
          BY <2>3, <2>4, <4>2
        <5>2. heap.holds[w] # n /\ heap.holds[w] \in Persistent
          BY <1>1, <3>2, <3>3, <5>1 DEF HeapState
        <5> QED BY <1>1, <3>1, <3>3, <5>1, <5>2 DEF LiveKept, Kept, Keeps
      <4> QED BY <4>1, <4>2
    <3>4. ASSUME NEW w \in Var, NEW x \in Var, heap'.holds[w] # 0,
                 heap'.holds[w] = heap'.holds[x]
          PROVE  w = x
      BY <1>1, <2>3, <2>4, <3>2, <3>4 DEF LiveKept, Kept, Keeps
    <3>5. InUse(table'.persistent) \subseteq {heap'.holds[w] : w \in Var}
      <4> SUFFICES ASSUME NEW p \in Persistent, table'.persistent[p] # NoObj
                   PROVE  \E w \in Var : p = heap'.holds[w]
        BY DEF InUse
      <4>1. CASE p = n
        BY <2>3, <2>4, <4>1
      <4>2. CASE p # n
        <5>1. p \in InUse(table.persistent)
          BY <1>1, <3>1, <4>2 DEF InUse
        <5>2. PICK w \in Var : p = heap.holds[w]
          BY <1>1, <5>1 DEF LiveKept, Kept, Keeps
        <5>3. w # v
          BY <2>2, <5>2, RuntimeFacts
        <5> QED BY <2>3, <2>4, <5>2, <5>3
      <4> QED BY <4>1, <4>2
    <3> QED BY <1>1, <2>2, <3>3, <3>4, <3>5 DEF LiveKept, Kept, Keeps
  <2> QED BY <2>5, <2>6
<1>9. ASSUME NEW v \in Var, Releases(v) PROVE LiveKept'
  <2> DEFINE n == heap.holds[v]
  <2>1. /\ n # 0 /\ table' = Release(table, n)
        /\ heap' = [heap EXCEPT !.holds[v] = 0, !.means[v] = NoObj]
    BY <1>9 DEF Releases
  <2>2. /\ heap'.holds = [heap.holds EXCEPT ![v] = 0]
        /\ heap'.means = [heap.means EXCEPT ![v] = NoObj]
        /\ DOMAIN heap.holds = Var /\ DOMAIN heap.means = Var
        /\ \A w \in Var : heap.holds[w] \in Persistent \cup {0}
    BY <1>1, <2>1 DEF HeapState
  <2> HIDE DEF n
  <2>3. n \in Persistent /\ table.persistent[n] # NoObj
    BY <1>1, <2>1, <2>2, RuntimeFacts DEF LiveKept, Kept, Keeps, n
  <2>4. table'.persistent = [table.persistent EXCEPT ![n] = NoObj]
    BY <1>1, <2>1, <2>3, ReleaseSound
  <2>5. ASSUME NEW w \in Var, heap'.holds[w] # 0
        PROVE  /\ w # v /\ heap'.holds[w] = heap.holds[w] /\ heap'.means[w] = heap.means[w]
               /\ heap.holds[w] # n /\ heap.holds[w] \in Persistent
    <3>1. w # v
      BY <2>2, <2>5
    <3>2. heap'.holds[w] = heap.holds[w] /\ heap'.means[w] = heap.means[w]
      BY <2>2, <3>1
    <3>3. heap.holds[w] # n
      BY <1>1, <2>5, <3>1, <3>2 DEF LiveKept, Kept, Keeps, n
    <3> QED BY <2>2, <2>5, <3>1, <3>2, <3>3
  <2>6. ASSUME NEW w \in Var, heap'.holds[w] # 0
        PROVE  /\ table'.persistent[heap'.holds[w]] = heap'.means[w]
               /\ heap'.means[w] \in Obj
    BY <1>1, <2>4, <2>5, <2>6 DEF LiveKept, Kept, Keeps
  <2>7. ASSUME NEW w \in Var, NEW x \in Var, heap'.holds[w] # 0,
               heap'.holds[w] = heap'.holds[x]
        PROVE  w = x
    BY <1>1, <2>5, <2>7 DEF LiveKept, Kept, Keeps
  <2>8. InUse(table'.persistent) \subseteq {heap'.holds[w] : w \in Var}
    <3> SUFFICES ASSUME NEW p \in Persistent, table'.persistent[p] # NoObj
                 PROVE  \E w \in Var : p = heap'.holds[w]
      BY DEF InUse
    <3>1. p # n
      BY <1>1, <2>4
    <3>2. p \in InUse(table.persistent)
      BY <1>1, <2>4, <3>1 DEF InUse
    <3>3. PICK w \in Var : p = heap.holds[w]
      BY <1>1, <3>2 DEF LiveKept, Kept, Keeps
    <3>4. w # v
      BY <3>1, <3>3 DEF n
    <3> QED BY <2>2, <3>3, <3>4
  <2> QED BY <1>1, <2>1, <2>6, <2>7, <2>8 DEF LiveKept, Kept, Keeps
<1>10. ASSUME NEW entry \in Kind, NEW obj \in Obj, Reenters(entry, obj)
       PROVE  LiveKept'
  BY <1>1, <1>3, <1>10, ReenterEffect
<1>11. ASSUME NEW ok \in BOOLEAN, NestedEnds(ok) PROVE LiveKept'
  BY <1>1, <1>2, <1>11 DEF NestedEnds, HeapState
<1>12. ASSUME NEW b \in Build, SaveAndLoad(b) PROVE LiveKept'
  <2>1. PICK s \in SavedState, adopted \in BOOLEAN :
          /\ AtRest /\ s = Saved
          /\ adopted => Restore(s, b)
          /\ ~adopted => Decline(s, b)
    BY <1>1, <1>12, LoadEffect
  <2>2. Kept(s.heap, s.handles)
    BY <1>1, <2>1, SavedWholeAtRest DEF SavedWhole
  <2>3. CASE adopted
    <3>1. /\ heap'.holds = s.heap.holds /\ heap'.means = s.heap.means
          /\ table'.persistent = s.handles
      BY <2>1, <2>3, RestoreEffect
    <3> QED BY <2>2, <3>1 DEF LiveKept, Kept, Keeps
  <2>4. CASE ~adopted
    <3>1. heap' = FreshHeap(b) /\ table' = NewTable
      BY <2>1, <2>4, DeclineEffect
    <3>2. Kept(FreshHeap(b), NewTable.persistent)
      BY FreshHeapTyped, NewTableSound DEF Kept, Keeps
    <3> QED BY <3>1, <3>2 DEF LiveKept
  <2> QED BY <2>3, <2>4
<1> QED BY <1>1, <1>4, <1>5, <1>6, <1>7, <1>8, <1>9, <1>10, <1>11, <1>12, NextCases

\* A buffer is made when a level has none, and a load knows it again or gives it up.
LEMMA LiveBufferedStep ==
  ASSUME RuntimeInv, Whole, Next
  PROVE  Buffered(heap, Mirror)'
<1>1. /\ RuntimeInv /\ Typed /\ Order /\ Buffered(heap, Mirror) /\ heap \in HeapState
      /\ TableSound(table) /\ cache \subseteq Buffer /\ build \in Build
  BY DEF RuntimeInv, Typed, Whole, LiveWhole
<1>2. ASSUME heap'.made = heap.made, heap'.refused = heap.refused, cache' = cache,
             build' = build
      PROVE  Buffered(heap, Mirror)'
  BY <1>1, <1>2 DEF Buffered, Mirror
<1>3. ASSUME NEW s, NEW f \in Frame, NEW t, NEW h \in HeapState, NEW st,
             h.made = heap.made, h.refused = heap.refused, build' = build,
             Raised(s, f, t, h, st)
      PROVE  Buffered(heap, Mirror)'
  <2>1. CASE f.entry \notin Kind
    BY <1>2, <1>3, <2>1 DEF Raised
  <2>2. CASE f.entry \in Kind
    <3> DEFINE b == <<f.entry, Len(s) + 1>>
               size == Asks[build][f.entry]
    <3>1. /\ b \in Buffer /\ cache' = cache \cup {b} /\ heap'.refused = heap.refused
          /\ heap'.made = [heap.made EXCEPT ![b] = IF b \in cache THEN @ ELSE Append(@, size)]
      BY <1>3, <2>2 DEF Raised
    <3>2. b[1] = f.entry
      OBVIOUS
    <3>3. size \in Nat
      BY <1>1, <2>2, RuntimeAssumption
    <3> HIDE DEF b, size
    <3>4. /\ heap.made \in [Buffer -> Seq(Nat)] /\ heap.refused \in [Kind -> Nat]
          /\ heap.made[b] \in Seq(Nat) /\ heap.refused[b[1]] \in Nat
      BY <1>1, <2>2, <3>1, <3>2 DEF HeapState
    <3>5. /\ Append(heap.made[b], size) # <<>> /\ Last(Append(heap.made[b], size)) = size
          /\ Len(Append(heap.made[b], size)) = Len(heap.made[b]) + 1
          /\ Len(heap.made[b]) \in Nat
      BY <3>3, <3>4 DEF Last
    <3> HIDE DEF Buffer, Kind
    <3>6. ASSUME NEW u \in Buffer
          PROVE  /\ Len(heap'.made[u]) <= heap'.refused[u[1]] + (IF u \in cache' THEN 1 ELSE 0)
                 /\ u \in cache' => /\ heap'.made[u] # <<>>
                                    /\ Last(heap'.made[u]) = Asks[build][u[1]]
      <4>1. /\ Len(heap.made[u]) <= heap.refused[u[1]] + (IF u \in cache THEN 1 ELSE 0)
            /\ u \in cache => heap.made[u] # <<>> /\ Last(heap.made[u]) = Asks[build][u[1]]
        BY <1>1 DEF Buffered, Mirror
      <4>2. CASE u = b /\ b \notin cache
        <5>1. /\ heap'.made[u] = Append(heap.made[b], size) /\ u \in cache'
              /\ heap'.refused[u[1]] = heap.refused[b[1]]
          BY <3>1, <3>4, <4>2
        <5>2. Len(heap.made[b]) <= heap.refused[b[1]]
          BY <3>4, <4>1, <4>2
        <5>3. Asks[build][u[1]] = size
          BY <3>2, <4>2 DEF size
        <5> QED BY <3>4, <3>5, <5>1, <5>2, <5>3
      <4>3. CASE ~(u = b /\ b \notin cache)
        <5>1. /\ heap'.made[u] = heap.made[u] /\ (u \in cache' <=> u \in cache)
              /\ heap'.refused[u[1]] = heap.refused[u[1]]
          BY <3>1, <3>4, <4>3
        <5> QED BY <4>1, <5>1
      <4> QED BY <4>2, <4>3
    <3>7. Mirror' = [cache |-> cache', asks |-> Asks[build]]
      BY <1>3 DEF Mirror
    <3> QED BY <3>6, <3>7 DEF Buffered
  <2> QED BY <2>1, <2>2
<1>4. CASE Quiet
  BY <1>1, <1>2, <1>4, QuietEffect DEF SameGuest, versions
<1>5. CASE Entering
  <2>1. PICK w \in Entrant, st \in {stored, [stored EXCEPT !.deferred = FALSE]} :
          Enter(w.entry, w.obj, st)
    BY <1>5 DEF Entering
  <2>2. PICK f \in Frame, from \in {stale, NothingStale} :
          Raised(<<>>, f, table, Marked(heap), from) /\ build' = build
    BY <1>1, <2>1, EnterEffect DEF Entered
  <2> QED BY <1>1, <1>3, <2>2, MarkedTyped
<1>6. CASE OutermostEnds
  BY <1>1, <1>2, <1>6, OutermostEffect DEF SameGuest, versions
<1>7. CASE MigrateReturns
  BY <1>1, <1>3, <1>7, MigrateEffect DEF SameGuest, versions
<1>8. ASSUME NEW v \in Var, Retains(v) \/ Releases(v) PROVE Buffered(heap, Mirror)'
  <2>1. /\ heap'.made = heap.made /\ heap'.refused = heap.refused /\ cache' = cache
        /\ build' = build
    BY <1>1, <1>8 DEF Retains, Releases, HeapState, versions
  <2> QED BY <1>2, <2>1
<1>9. ASSUME NEW entry \in Kind, NEW obj \in Obj, Reenters(entry, obj)
      PROVE  Buffered(heap, Mirror)'
  BY <1>1, <1>3, <1>9, ReenterEffect DEF versions
<1>10. ASSUME NEW ok \in BOOLEAN, NestedEnds(ok) PROVE Buffered(heap, Mirror)'
  BY <1>1, <1>2, <1>10 DEF NestedEnds, HeapState, versions
<1>11. ASSUME NEW b \in Build, SaveAndLoad(b) PROVE Buffered(heap, Mirror)'
  <2>1. PICK s \in SavedState, adopted \in BOOLEAN :
          /\ AtRest /\ s = Saved /\ build' = b
          /\ adopted => Restore(s, b)
          /\ ~adopted => Decline(s, b)
    BY <1>1, <1>11, LoadEffect
  <2>2. CASE adopted
    <3>1. Buffered(s.heap, s.bufs)
      BY <1>1, <2>1, SavedWholeAtRest DEF SavedWhole
    <3> QED BY <2>1, <2>2, <3>1, RestoreBuffers
  <2>3. CASE ~adopted
    <3>1. heap' = FreshHeap(b) /\ cache' = {}
      BY <2>1, <2>3, DeclineEffect
    <3>2. Mirror'.cache = {}
      BY <3>1 DEF Mirror
    <3> QED BY <3>1, <3>2, FreshBuffers
  <2> QED BY <2>2, <2>3
<1> QED BY <1>1, <1>4, <1>5, <1>6, <1>7, <1>8, <1>9, <1>10, <1>11, NextCases

\* As long as a rebuild is owed a save has what the last one had.
LEMMA PendingStep == ASSUME RuntimeInv, Whole, Next PROVE Pending'
<1>1. /\ RuntimeInv /\ Typed /\ Order /\ Pending /\ heap \in HeapState /\ stored \in StoredState
      /\ stack \in Seq(Frame) /\ owed \in BOOLEAN
  BY DEF RuntimeInv, Typed, Whole
<1>2. ASSUME ~owed' PROVE Pending'
  BY <1>2 DEF Pending
<1>3. ASSUME stack # <<>>, UNCHANGED versions PROVE Pending'
  BY <1>1, <1>2, <1>3 DEF Order, versions
<1>4. CASE Quiet
  <2>1. /\ SameGuest(heap', heap) /\ heap'.by = heap.by /\ stored'.stamp = stored.stamp
        /\ stale' = stale /\ table' = table /\ cache' = cache /\ build' = build /\ owed' = owed
    BY <1>1, <1>4, QuietEffect DEF versions
  <2> SUFFICES ASSUME owed PROVE Pending'
    BY <1>2, <2>1
  <2>2. SavedWhole /\ (Hook[build] # "fk_migrate_adopt" => heap.by = build)
    BY <1>1 DEF Pending
  <2>3. /\ Saved'.handles = Saved.handles /\ Saved'.bufs = Saved.bufs
        /\ SameGuest(Saved'.heap, Saved.heap) /\ Saved'.heap.by = Saved.heap.by
    BY <2>1 DEF Saved, Mirror, SameGuest
  <2>4. Kept(Saved'.heap, Saved'.handles) /\ Buffered(Saved'.heap, Saved'.bufs)
    BY <2>2, <2>3 DEF SavedWhole, Kept, Keeps, Buffered, SameGuest
  <2>5. SavedWhole'
    BY <2>1, <2>2, <2>3, <2>4 DEF SavedWhole
  <2> QED BY <2>1, <2>2, <2>5 DEF Pending
<1>5. CASE Entering
  BY <1>1, <1>2, <1>5, EnterEffect DEF Entering, Entered
<1>6. CASE OutermostEnds
  <2>1. Len(stack) = 1 /\ UNCHANGED versions
    BY <1>1, <1>6, OutermostEffect
  <2>2. Len(stack) = 1
    BY <2>1
  <2> QED BY <1>3, <2>1, <2>2, NoFrames
<1>7. CASE MigrateReturns
  BY <1>1, <1>3, <1>7, MigrateEffect
<1>8. ASSUME NEW v \in Var, Retains(v) \/ Releases(v) PROVE Pending'
  BY <1>3, <1>8 DEF Retains, Releases, GuestRuns
<1>9. ASSUME NEW entry \in Kind, NEW obj \in Obj, Reenters(entry, obj) PROVE Pending'
  BY <1>3, <1>9 DEF Reenters, GuestRuns
<1>10. ASSUME NEW ok \in BOOLEAN, NestedEnds(ok) PROVE Pending'
  <2>1. Len(stack) > 1 /\ UNCHANGED versions
    BY <1>10 DEF NestedEnds
  <2>2. Len(stack) > 1
    BY <2>1
  <2> QED BY <1>3, <2>1, <2>2, NoFrames
<1>11. ASSUME NEW b \in Build, SaveAndLoad(b) PROVE Pending'
  <2>1. PICK s \in SavedState, adopted \in BOOLEAN :
          /\ AtRest /\ s = Saved
          /\ adopted <=> stored.stamp = b \/ Hook[b] = "fk_migrate_adopt"
          /\ adopted => Restore(s, b)
          /\ ~adopted => Decline(s, b)
          /\ owed' = (stored.stamp # b) /\ build' = b /\ stored' = stored
    BY <1>1, <1>11, LoadEffect
  <2> SUFFICES ASSUME stored.stamp # b PROVE Pending'
    BY <1>2, <2>1
  <2>2. /\ Kept(s.heap, s.handles) /\ Buffered(s.heap, s.bufs)
        /\ s.heap.by = stored.stamp /\ s.bufs.asks = Asks[stored.stamp]
    BY <1>1, <2>1, SavedWholeAtRest DEF SavedWhole
  <2>3. CASE adopted
    <3>1. /\ heap'.by = s.heap.by /\ heap'.holds = s.heap.holds
          /\ heap'.means = s.heap.means /\ table'.persistent = s.handles
          /\ stale'.heap = <<>> /\ stale'.handles = <<>>
          /\ stale'.bufs = IF Fitting(s.bufs, b) = Kind THEN <<>> ELSE <<s.bufs>>
      BY <2>1, <2>3, RestoreEffect
    <3>2. /\ Buffered(heap', Mirror') /\ Buffered(heap', s.bufs)
          /\ Fitting(s.bufs, b) = Kind <=> s.bufs.asks = Asks[b]
      BY <2>1, <2>2, <2>3, RestoreBuffers
    <3>3. Kept(heap', table'.persistent)
      BY <2>2, <3>1 DEF Kept, Keeps
    <3>4. Saved'.heap = heap' /\ Saved'.handles = table'.persistent
      BY <3>1 DEF Saved
    <3>5. /\ Buffered(heap', Saved'.bufs) /\ Saved'.bufs.asks = Asks[stored.stamp]
      <4>1. CASE Fitting(s.bufs, b) = Kind
        <5>1. Saved'.bufs = Mirror' /\ Mirror'.asks = Asks[b]
          BY <2>1, <3>1, <4>1 DEF Saved, Mirror
        <5> QED BY <2>2, <3>2, <4>1, <5>1
      <4>2. CASE Fitting(s.bufs, b) # Kind
        <5>1. stale'.bufs # <<>> /\ stale'.bufs[1] = s.bufs
          BY <3>1, <4>2
        <5>2. Saved'.bufs = s.bufs
          BY <5>1 DEF Saved
        <5> QED BY <2>2, <3>2, <5>2
      <4> QED BY <4>1, <4>2
    <3>6. SavedWhole'
      BY <2>1, <2>2, <3>1, <3>3, <3>4, <3>5 DEF SavedWhole
    <3>7. Hook[b] = "fk_migrate_adopt"
      BY <2>1, <2>3
    <3> QED BY <2>1, <3>6, <3>7 DEF Pending
  <2>4. CASE ~adopted
    <3>1. heap' = FreshHeap(b) /\ Saved' = s
      BY <2>1, <2>4, DeclineEffect
    <3>2. heap'.by = b
      BY <3>1, FreshHeapTyped
    <3>3. SavedWhole'
      BY <2>1, <2>2, <3>1 DEF SavedWhole
    <3> QED BY <2>1, <3>2, <3>3 DEF Pending
  <2> QED BY <2>3, <2>4
<1> QED BY <1>1, <1>4, <1>5, <1>6, <1>7, <1>8, <1>9, <1>10, <1>11, NextCases

\* What a rebuild owes is settled by the dispatch that tells the guest, unless
\* fk_migrate traps.
LEMMA SettledStep ==
  ASSUME ~MigrateTraps, RuntimeInv, Whole, Next
  PROVE  Settled'
<1>1. /\ RuntimeInv /\ Typed /\ Order /\ Settled /\ Pending /\ heap \in HeapState
      /\ stored \in StoredState /\ owed \in BOOLEAN /\ waiting \in Entrant \cup {Nobody}
  BY DEF RuntimeInv, Typed, Whole
<1>2. \A w \in Entrant : w # Nobody
  BY DEF Entrant, Nobody, Entries
<1>3. ASSUME heap'.by = heap.by, stored'.stamp = stored.stamp,
             UNCHANGED <<versions, waiting>>, stale = NothingStale => stale' = NothingStale
      PROVE  Settled'
  BY <1>1, <1>3 DEF Settled, versions
<1>4. CASE Quiet
  BY <1>1, <1>3, <1>4, QuietEffect DEF depth
<1>5. CASE Entering
  <2>1. PICK w \in Entrant, st \in {stored, [stored EXCEPT !.deferred = FALSE]} :
          AtRest /\ Enter(w.entry, w.obj, st)
    BY <1>5 DEF Entering
  <2>2. PICK f \in Frame : Entered(w, st, f)
    BY <1>1, <2>1, EnterEffect
  <2>3. heap'.by = heap.by /\ owed' = FALSE /\ build' = build
    BY <1>1, <2>2, MarkedTyped DEF Entered, Raised
  <2>4. /\ st.stamp = stored.stamp /\ [st EXCEPT !.stamp = build].stamp = build
    BY <1>1 DEF StoredState
  <2>5. CASE /\ ~owed /\ Raised(<<>>, f, table, Marked(heap), stale)
             /\ stored' = st /\ UNCHANGED <<untold, waiting>>
    <3>1. stale = NothingStale /\ heap.by = build /\ stored.stamp = build
      BY <1>1, <2>1, <2>5 DEF Settled, AtRest
    <3>2. stale' = NothingStale
      BY <2>5, <3>1 DEF Raised
    <3> QED BY <2>3, <2>4, <2>5, <3>1, <3>2 DEF Settled
  <2>6. CASE /\ owed /\ Hook[build] = "none"
             /\ Raised(<<>>, f, table, Marked(heap), NothingStale)
             /\ stored' = [st EXCEPT !.stamp = build]
    <3>1. stale' = NothingStale
      BY <2>6 DEF Raised
    <3>2. heap.by = build
      BY <1>1, <2>6 DEF Pending
    <3> QED BY <2>3, <2>4, <2>6, <3>1, <3>2 DEF Settled
  <2>7. CASE waiting' = w
    BY <1>2, <2>7 DEF Settled
  <2> QED BY <2>2, <2>5, <2>6, <2>7 DEF Entered
<1>6. CASE OutermostEnds
  <2>1. /\ Len(stack) = 1 /\ heap'.by = heap.by /\ UNCHANGED versions /\ waiting' = Nobody
        /\ stored'.stamp = stored.stamp
        /\ stale = NothingStale => stale' = NothingStale
    BY <1>1, <1>6, OutermostEffect
  <2>4. Len(stack) = 1
    BY <2>1
  <2>2. stack # <<>> /\ stack[1].entry # "migrate"
    BY <1>6, <2>4, NoFrames
       DEF OutermostEnds, OutermostReturns, CollectorSteps, OutermostTraps
  <2>3. waiting = Nobody
    BY <1>1, <2>2 DEF Order
  <2> QED BY <1>3, <2>1, <2>3
<1>7. CASE MigrateReturns
  <2>1. PICK f \in Frame, h \in HeapState :
          /\ Raised(<<>>, f, ClearTransient(table), h, NothingStale) /\ h.by = build
          /\ stored' = [stored EXCEPT !.stamp = build]
          /\ stale' = NothingStale /\ UNCHANGED versions
    BY <1>1, <1>7, MigrateEffect
  <2>2. stored'.stamp = build /\ heap'.by = build
    BY <1>1, <2>1 DEF StoredState, Raised
  <2> QED BY <2>1, <2>2 DEF Settled, versions
<1>8. ASSUME NEW v \in Var, Retains(v) \/ Releases(v) PROVE Settled'
  <2>1. heap'.by = heap.by /\ UNCHANGED <<stored, stale, versions, waiting>>
    BY <1>1, <1>8 DEF Retains, Releases, HeapState, storage, depth
  <2> QED BY <1>3, <2>1
<1>9. ASSUME NEW entry \in Kind, NEW obj \in Obj, Reenters(entry, obj)
      PROVE  Settled'
  BY <1>1, <1>3, <1>9, ReenterEffect DEF Raised
<1>10. ASSUME NEW ok \in BOOLEAN, NestedEnds(ok) PROVE Settled'
  BY <1>1, <1>3, <1>10 DEF NestedEnds, HeapState, storage
<1>11. ASSUME NEW b \in Build, SaveAndLoad(b) PROVE Settled'
  <2>1. PICK s \in SavedState, adopted \in BOOLEAN :
          /\ AtRest /\ s = Saved
          /\ adopted <=> stored.stamp = b \/ Hook[b] = "fk_migrate_adopt"
          /\ adopted => Restore(s, b)
          /\ owed' = (stored.stamp # b) /\ build' = b /\ stored' = stored
    BY <1>1, <1>11, LoadEffect
  <2> SUFFICES ASSUME stored.stamp = b PROVE Settled'
    BY <2>1 DEF Settled
  <2>2. /\ Buffered(s.heap, s.bufs)
        /\ s.heap.by = stored.stamp /\ s.bufs.asks = Asks[stored.stamp]
    BY <1>1, <2>1, SavedWholeAtRest DEF SavedWhole
  <2>3. Fitting(s.bufs, b) = Kind
    BY <2>1, <2>2, RestoreBuffers
  <2>4. stale' = NothingStale /\ heap'.by = s.heap.by
    BY <2>1, <2>3, RestoreEffect
  <2> QED BY <2>1, <2>2, <2>4 DEF Settled
<1> QED BY <1>1, <1>4, <1>5, <1>6, <1>7, <1>8, <1>9, <1>10, <1>11, NextCases

\* A session that begins has one heap, its table and no buffers, all published.
LEMMA WholeInit == Init => Whole
<1> SUFFICES ASSUME Init PROVE Whole
  OBVIOUS
<1>1. /\ build \in Build /\ owed = FALSE /\ stale = NothingStale /\ waiting = Nobody
      /\ stored = [deferred |-> FALSE, gc |-> FALSE, nth |-> {}, stamp |-> build]
      /\ heap = FreshHeap(build) /\ table = NewTable /\ cache = {}
  BY DEF Init, Resting
<1>2. Kept(heap, table.persistent)
  BY <1>1, FreshHeapTyped, NewTableSound DEF Kept, Keeps
<1>3. Buffered(heap, Mirror)
  <2>1. Mirror.cache = {}
    BY <1>1 DEF Mirror
  <2> QED BY <1>1, <2>1, FreshBuffers
<1>4. heap.by = build /\ stored.stamp = build
  BY <1>1, FreshHeapTyped
<1> QED BY <1>1, <1>2, <1>3, <1>4 DEF Whole, LiveWhole, Pending, Settled

\* And what belongs together does so when nothing happens.
LEMMA WholeStutter == ASSUME Whole, UNCHANGED vars PROVE Whole'
<1>1. UNCHANGED <<stored, stale, build, owed, heap, table, cache, waiting>>
  BY DEF vars, storage, versions, guest, depth
<1>2. Mirror' = Mirror /\ Saved' = Saved
  BY <1>1 DEF Mirror, Saved
<1>3. LiveWhole'
  BY <1>1, <1>2 DEF Whole, LiveWhole
<1>4. SavedWhole => SavedWhole'
  BY <1>1, <1>2 DEF SavedWhole
<1> QED BY <1>1, <1>3, <1>4 DEF Whole, Pending, Settled

-----------------------------------------------------------------------------
(* The walk over the on_tick list *)

\* off_event takes one registration off.
LEMMA WithoutShorter ==
  ASSUME NEW S, NEW l \in Seq(S), l # <<>>, NEW f
  PROVE  Without(l, f) \in Seq(S) /\ Len(Without(l, f)) = Len(l) - 1
<1>1. Len(l) \in Nat /\ Len(l) > 0 /\ \A k \in 1..Len(l) : l[k] \in S
  BY EmptySeq
<1> DEFINE i == CHOOSE k \in DOMAIN l : l[k] = f /\ \A j \in 1..(k - 1) : l[j] # f
           n == Len(l) - 1
           w == [k \in 1..n |-> l[IF k < i THEN k ELSE k + 1]]
<1>2. n \in Nat /\ \A k \in 1..n : k \in 1..Len(l) /\ k + 1 \in 1..Len(l)
  BY <1>1
<1> HIDE DEF i, n
<1>3. w \in [1..n -> S]
  BY <1>1, <1>2
<1>4. w \in Seq(S) /\ Len(w) = n
  BY <1>2, <1>3, LenProperties, SeqDef
<1> QED BY <1>4 DEF Without, i, n

\* The kinds of steps by what they do to the on_tick list and the walk over it.
LEMMA TickCases ==
  ASSUME Next
  PROVE  \/ UNCHANGED ticking
         \/ \E f \in OneShot : Arm(f) /\ UNCHANGED <<walk, torn, pieces>>
         \/ TickBegins \/ WalkEnds
         \/ \E f \in OneShot : Served(f) /\ Off(f) /\ UNCHANGED walk
         \/ PrebuildMore \/ OutermostReturns \/ CollectorSteps
         \/ \E b \in Build : SaveAndLoad(b)
<1>1. /\ "deferred" \in OneShot /\ "gc" \in OneShot /\ "prebuild" \in OneShot
  BY DEF OneShot
<1>2. Defers => Arm("deferred") /\ UNCHANGED <<walk, torn, pieces>>
  BY DEF Defers
<1>3. Collects => Arm("gc") /\ UNCHANGED <<walk, torn, pieces>>
  BY DEF Collects
<1>4. Grows => Arm("prebuild") /\ UNCHANGED <<walk, torn, pieces>>
  BY DEF Grows
<1>5. \A periods : SetNthTick(periods) => UNCHANGED ticking
  BY DEF SetNthTick
<1>6. \A v \in Var : Retains(v) \/ Releases(v) => UNCHANGED ticking
  BY DEF Retains, Releases
<1>7. \A entry, obj : Reenters(entry, obj) \/ Raises(entry, obj) => UNCHANGED ticking
  BY DEF Reenters, Raises
<1>8. /\ \A ok \in BOOLEAN : NestedEnds(ok) => UNCHANGED ticking
      /\ MigrateReturns \/ OutermostTraps => UNCHANGED ticking
  BY DEF NestedEnds, MigrateReturns, OutermostTraps
<1>9. RunTickHook => UNCHANGED ticking
  BY DEF RunTickHook
<1>10. Prebuild => Served("prebuild") /\ Off("prebuild") /\ UNCHANGED walk
  BY DEF Prebuild
<1>11. \A f \in OneShot : RunOneShot(f) => Served(f) /\ Off(f) /\ UNCHANGED walk
  BY DEF RunOneShot
<1>12. GuestCalls => \/ UNCHANGED ticking
                     \/ \E f \in OneShot : Arm(f) /\ UNCHANGED <<walk, torn, pieces>>
  BY <1>1, <1>2, <1>3, <1>4, <1>5, <1>6, <1>7 DEF GuestCalls
<1>13. EntryEnds => UNCHANGED ticking \/ OutermostReturns \/ CollectorSteps
  BY <1>8 DEF EntryEnds
<1>14. Walks => \/ WalkEnds \/ UNCHANGED ticking \/ PrebuildMore
                \/ \E f \in OneShot : Served(f) /\ Off(f) /\ UNCHANGED walk
  BY <1>1, <1>9, <1>10, <1>11 DEF Walks
<1>15. Engine => UNCHANGED ticking
  BY <1>7 DEF Engine, NthTick
<1> QED BY <1>12, <1>13, <1>14, <1>15 DEF Next

\* The list, the walk and the flags of the list keep their types.
LEMMA TickingTyped ==
  ASSUME Typed, Next
  PROVE  /\ list' \in Seq(OneShot \cup {"tick"}) /\ walk' \in 0..(Len(list') + 1)
         /\ torn' \in BOOLEAN /\ armed' \subseteq OneShot /\ pieces' \in [Paced -> 0..2]
<1> DEFINE Listed == OneShot \cup {"tick"}
<1>1. /\ list \in Seq(Listed) /\ walk \in 0..(Len(list) + 1) /\ torn \in BOOLEAN
      /\ armed \subseteq OneShot /\ pieces \in [Paced -> 0..2] /\ Len(list) \in Nat
  BY DEF Typed
<1> HIDE DEF Listed
<1>2. OneShot \subseteq Listed /\ "tick" \in Listed
  BY DEF Listed
<1> DEFINE Goal == /\ list' \in Seq(Listed) /\ walk' \in 0..(Len(list') + 1)
                   /\ torn' \in BOOLEAN /\ armed' \subseteq OneShot
                   /\ pieces' \in [Paced -> 0..2]
<1> SUFFICES Goal
  BY DEF Listed
<1>3. ASSUME NEW f \in OneShot, Arm(f)
      PROVE  /\ list' \in Seq(Listed) /\ armed' \subseteq OneShot
             /\ Len(list') \in Nat /\ Len(list') >= Len(list)
  BY <1>1, <1>2, <1>3 DEF Arm
<1>4. ASSUME NEW f \in OneShot \cup {"tick"}, NEW l \in Seq(Listed), NEW e
      PROVE  Past(f, l, e) = walk \/ Past(f, l, e) \in 0..(Len(l) + 1)
  BY <1>1 DEF Past
<1>5. [f \in Paced |-> 0] \in [Paced -> 0..2]
  OBVIOUS
<1>6. ASSUME NEW f \in OneShot, Served(f)
      PROVE  /\ list # <<>> /\ walk \in 1..Len(list)
             /\ Without(list, f) \in Seq(Listed)
             /\ Len(Without(list, f)) = Len(list) - 1
             /\ [pieces EXCEPT ![f] = OneMore(@)] \in [Paced -> 0..2]
             /\ Len(list) >= 1
  <2>1. walk \in 1..Len(list)
    BY <1>1, <1>6 DEF Served
  <2>2. list # <<>>
    BY <1>1, <2>1, EmptySeq
  <2>3. [pieces EXCEPT ![f] = OneMore(@)] \in [Paced -> 0..2]
    <3>1. \A n \in 0..2 : OneMore(n) \in 0..2
      BY DEF OneMore
    <3> HIDE DEF Paced
    <3> QED BY <1>1, <3>1
  <2> QED BY <1>1, <2>1, <2>2, <2>3, WithoutShorter
<1>7. CASE UNCHANGED ticking
  BY <1>1, <1>7 DEF ticking
<1>8. ASSUME NEW f \in OneShot, Arm(f), UNCHANGED <<walk, torn, pieces>> PROVE Goal
  BY <1>1, <1>3, <1>8
<1>9. CASE TickBegins
  <2>1. walk' = 1 /\ torn' = FALSE /\ UNCHANGED <<list, armed, pieces>>
    BY <1>9 DEF TickBegins
  <2>2. torn' \in BOOLEAN
    BY <2>1
  <2>3. 1 \in 0..(Len(list) + 1)
    BY <1>1
  <2> QED BY <1>1, <2>1, <2>2, <2>3
<1>10. CASE WalkEnds
  BY <1>1, <1>5, <1>10 DEF WalkEnds
<1>11. ASSUME NEW f \in OneShot, Served(f), Off(f), UNCHANGED walk PROVE Goal
  <2>1. /\ list' = Without(list, f) /\ torn' = (list' = <<>>) /\ armed' = armed \ {f}
        /\ pieces' = IF f \in Paced THEN [pieces EXCEPT ![f] = OneMore(@)] ELSE pieces
        /\ walk' = walk
    BY <1>11 DEF Off
  <2>2. torn' \in BOOLEAN
    BY <2>1
  <2> QED BY <1>1, <1>6, <1>11, <2>1, <2>2
<1>12. CASE PrebuildMore
  <2> DEFINE rest == Without(list, "prebuild")
  <2>1. /\ Served("prebuild") /\ "prebuild" \in OneShot
        /\ list' = Append(rest, "prebuild") /\ torn' = (rest = <<>>)
        /\ walk' = Past("prebuild", list', torn')
        /\ pieces' = [pieces EXCEPT !["prebuild"] = OneMore(@)] /\ armed' = armed
    BY <1>12 DEF PrebuildMore, OneShot
  <2>2. rest \in Seq(Listed) /\ Len(rest) = Len(list) - 1 /\ walk \in 1..Len(list)
        /\ [pieces EXCEPT !["prebuild"] = OneMore(@)] \in [Paced -> 0..2]
    BY <1>6, <2>1
  <2> HIDE DEF rest
  <2>3. list' \in Seq(Listed) /\ Len(list') = Len(list)
    BY <1>1, <1>2, <2>1, <2>2
  <2>4. walk' \in 0..(Len(list') + 1)
    BY <1>1, <1>4, <2>1, <2>2, <2>3
  <2>5. torn' \in BOOLEAN
    BY <2>1
  <2> QED BY <1>1, <2>1, <2>2, <2>3, <2>4, <2>5
<1>13. CASE OutermostReturns
  <2>1. /\ UNCHANGED <<list, torn, armed, pieces>>
        /\ walk' = Past(stack[1].entry, list, torn)
    BY <1>13 DEF OutermostReturns
  <2>2. walk' \in 0..(Len(list) + 1)
    BY <1>1, <2>1 DEF Past
  <2> QED BY <1>1, <2>1, <2>2
<1>14. CASE CollectorSteps
  <2>1. /\ walk' = Past("gc", list', torn) /\ UNCHANGED <<torn, pieces>>
        /\ Arm("gc") \/ UNCHANGED <<list, armed>>
    BY <1>14 DEF CollectorSteps
  <2>2. /\ list' \in Seq(Listed) /\ armed' \subseteq OneShot
        /\ Len(list') \in Nat /\ Len(list') >= Len(list)
    <3>1. "gc" \in OneShot
      BY DEF OneShot
    <3> QED BY <1>1, <1>3, <2>1, <3>1
  <2>3. walk' \in 0..(Len(list') + 1)
    BY <1>1, <2>1, <2>2 DEF Past
  <2> QED BY <1>1, <2>1, <2>2, <2>3
<1>15. ASSUME NEW b \in Build, SaveAndLoad(b) PROVE Goal
  <2>1. /\ walk = 0 /\ walk' = walk /\ pieces' = pieces /\ torn' = FALSE
        /\ list' = Permanent(b) \o Rearmed /\ armed' \subseteq OneShot
    BY <1>15 DEF SaveAndLoad
  <2>2. Permanent(b) \in Seq(Listed)
    BY <1>2 DEF Permanent
  <2>3. Rearmed \in Seq(Listed)
    BY <1>2 DEF Rearmed, OneShot
  <2>4. list' \in Seq(Listed) /\ Len(list') \in Nat
    BY <2>1, <2>2, <2>3, ConcatProperties
  <2>5. torn' \in BOOLEAN /\ walk' \in 0..(Len(list') + 1)
    <3>1. 0 \in 0..(Len(list') + 1)
      BY <2>4
    <3> QED BY <2>1, <3>1
  <2> QED BY <1>1, <2>1, <2>4, <2>5
<1> QED BY <1>7, <1>8, <1>9, <1>10, <1>11, <1>12, <1>13, <1>14, <1>15, TickCases DEF Listed

-----------------------------------------------------------------------------
(* Types *)

\* Raise keeps the types of what it writes.
LEMMA RaisedTyped ==
  ASSUME NEW s \in Seq(Frame), NEW t, TableSound(t), NEW h,
         cache \subseteq Buffer, NEW f \in Frame, NEW st, Raised(s, f, t, h, st)
  PROVE  /\ heap' \in HeapState /\ TableSound(table') /\ cache' \subseteq Buffer
         /\ stale' \in StaleState
         /\ stack' \in Seq(Frame) /\ top' \in 0..ScratchSize
<1>1. heap' \in HeapState /\ stack' \in Seq(Frame) /\ stale' \in StaleState
  BY FramePushed DEF Raised
<1>2. top' \in 0..ScratchSize
  BY FrameTyped, RuntimeFacts DEF Raised
<1>3. CASE f.entry \in Kind
  <2> HIDE DEF Buffer
  <2>1. table' = Hand(t, f.obj) /\ f.obj \in Obj /\ cache' \subseteq Buffer
    BY <1>3 DEF Raised
  <2> QED BY <1>1, <1>2, <2>1, HandSound
<1>4. CASE f.entry \notin Kind
  BY <1>1, <1>2, <1>4 DEF Raised
<1> QED BY <1>3, <1>4

\* And so does the raise of an outermost entry.
LEMMA OutermostTyped ==
  ASSUME NEW t, TableSound(t), NEW h, cache \subseteq Buffer,
         NEW f \in Frame, NEW st, Raised(<<>>, f, t, h, st)
  PROVE  /\ heap' \in HeapState /\ TableSound(table') /\ cache' \subseteq Buffer
         /\ stale' \in StaleState
         /\ stack' \in Seq(Frame) /\ top' \in 0..ScratchSize
<1> DEFINE s == <<>>
<1>1. s \in Seq(Frame) /\ Raised(s, f, t, h, st)
  BY NoFrames
<1> HIDE DEF s
<1> QED BY <1>1, RaisedTyped

\* Typed is kept.
LEMMA TypedStep == ASSUME RuntimeInv, Next PROVE Typed'
<1>1. /\ alive \in BOOLEAN /\ owed \in BOOLEAN /\ tok \in BOOLEAN
      /\ nth \subseteq Period /\ stored \in StoredState
      /\ stale \in StaleState /\ build \in Build
      /\ heap \in HeapState /\ TableSound(table) /\ cache \subseteq Buffer
      /\ stack \in Seq(Frame) /\ waiting \in Entrant \cup {Nobody}
      /\ top \in 0..ScratchSize /\ Typed /\ Order
  BY DEF RuntimeInv, Typed
<1> DEFINE Goal ==
      /\ alive' \in BOOLEAN /\ owed' \in BOOLEAN /\ tok' \in BOOLEAN
      /\ nth' \subseteq Period /\ stored' \in StoredState
      /\ stale' \in StaleState /\ build' \in Build
      /\ heap' \in HeapState /\ TableSound(table') /\ cache' \subseteq Buffer
      /\ stack' \in Seq(Frame) /\ waiting' \in Entrant \cup {Nobody}
      /\ top' \in 0..ScratchSize
<1> SUFFICES Goal
  BY <1>1, TickingTyped DEF Typed
<1>2. NothingStale \in StaleState
  BY NothingStaleTyped
<1>3. CASE Quiet
  BY <1>1, <1>3, QuietEffect DEF versions, depth
<1>4. CASE Entering
  <2>1. PICK w \in Entrant, st \in {stored, [stored EXCEPT !.deferred = FALSE]} :
          Enter(w.entry, w.obj, st)
    BY <1>4 DEF Entering
  <2>2. st \in StoredState /\ [st EXCEPT !.stamp = build] \in StoredState
    BY <1>1 DEF StoredState
  <2>3. PICK f \in Frame : Entered(w, st, f)
    BY <1>1, <2>1, EnterEffect
  <2>4. /\ heap' \in HeapState /\ TableSound(table') /\ cache' \subseteq Buffer
        /\ stack' \in Seq(Frame) /\ top' \in 0..ScratchSize /\ stale' \in StaleState
    BY <1>1, <2>3, OutermostTyped DEF Entered
  <2>5. tok' \in BOOLEAN /\ owed' \in BOOLEAN
    BY <2>3 DEF Entered
  <2>6. UNCHANGED <<alive, nth, build>>
    BY <2>3 DEF Entered
  <2>8. stored' \in StoredState /\ waiting' \in Entrant \cup {Nobody}
    BY <1>1, <2>2, <2>3 DEF Entered
  <2> QED BY <1>1, <2>4, <2>5, <2>6, <2>8
<1>5. CASE OutermostEnds
  <2>1. /\ stack' = <<>> /\ tok' = FALSE /\ waiting' = Nobody
        /\ table' = ClearTransient(table)
        /\ heap' \in HeapState /\ stored' \in StoredState
        /\ UNCHANGED <<versions, cache, nth, top>> /\ alive' \in BOOLEAN
        /\ stale' \in StaleState
    BY <1>1, <1>5, OutermostEffect
  <2>2. tok' \in BOOLEAN
    BY <2>1
  <2> QED BY <1>1, <2>1, <2>2, ClearSound, NoFrames DEF versions
<1>6. CASE MigrateReturns
  <2>1. PICK f \in Frame, h \in HeapState :
          /\ Raised(<<>>, f, ClearTransient(table), h, NothingStale)
          /\ stored' = [stored EXCEPT !.stamp = build] /\ stale' = NothingStale
          /\ tok' = TRUE /\ waiting' = Nobody
          /\ UNCHANGED <<alive, ticking, nth, versions>>
    BY <1>1, <1>6, MigrateEffect
  <2>2. /\ heap' \in HeapState /\ TableSound(table') /\ cache' \subseteq Buffer
        /\ stack' \in Seq(Frame) /\ top' \in 0..ScratchSize
    BY <1>1, <2>1, ClearSound, OutermostTyped
  <2>3. tok' \in BOOLEAN /\ stored' \in StoredState
    BY <1>1, <2>1 DEF StoredState
  <2> QED BY <1>1, <1>2, <2>1, <2>2, <2>3 DEF versions
<1>7. ASSUME NEW v \in Var, Retains(v) PROVE Goal
  <2> DEFINE o == Get(table, Last(stack).h)
  <2>1. o = Last(stack).obj /\ o \in Obj
    BY <1>7, GivenObject DEF Retains, GuestRuns
  <2>2. /\ table' = Retain(table, o)
        /\ heap' = [heap EXCEPT !.holds[v] = Slot(table),
                                !.means[v] = IF Slot(table) = 0 THEN NoObj ELSE Last(stack).obj]
        /\ UNCHANGED <<alive, ticking, nth, storage, versions, cache, depth>>
    BY <1>7 DEF Retains
  <2> HIDE DEF o
  <2>3. TableSound(table') /\ Slot(table) \in Persistent \cup {0}
    BY <1>1, <2>1, <2>2, RetainSound
  <2>4. heap' \in HeapState
    <3>1. (IF Slot(table) = 0 THEN NoObj ELSE Last(stack).obj) \in Obj \cup {NoObj}
      BY <2>1
    <3> QED BY <1>1, <2>2, <2>3, <3>1 DEF HeapState
  <2> QED BY <1>1, <2>2, <2>3, <2>4 DEF storage, versions, depth
<1>8. ASSUME NEW v \in Var, Releases(v) PROVE Goal
  <2>1. /\ table' = Release(table, heap.holds[v])
        /\ heap' = [heap EXCEPT !.holds[v] = 0, !.means[v] = NoObj]
        /\ UNCHANGED <<alive, ticking, nth, storage, versions, cache, depth>>
    BY <1>8 DEF Releases
  <2>2. TableSound(table')
    <3>1. CASE heap.holds[v] \in Persistent /\ table.persistent[heap.holds[v]] # NoObj
      BY <1>1, <2>1, <3>1, ReleaseSound
    <3>2. CASE ~(heap.holds[v] \in Persistent /\ table.persistent[heap.holds[v]] # NoObj)
      BY <1>1, <2>1, <3>2 DEF Release
    <3> QED BY <3>1, <3>2
  <2>3. heap' \in HeapState
    BY <1>1, <2>1 DEF HeapState
  <2> QED BY <1>1, <2>1, <2>2, <2>3 DEF storage, versions, depth
<1>9. ASSUME NEW entry \in Kind, NEW obj \in Obj, Reenters(entry, obj) PROVE Goal
  <2>1. PICK f \in Frame : /\ Raised(stack, f, table, heap, stale)
                           /\ UNCHANGED <<alive, nth, stored, versions, waiting, tok>>
    BY <1>1, <1>9, ReenterEffect
  <2>2. /\ heap' \in HeapState /\ TableSound(table') /\ cache' \subseteq Buffer
        /\ stack' \in Seq(Frame) /\ top' \in 0..ScratchSize /\ stale' \in StaleState
    BY <1>1, <2>1, RaisedTyped
  <2> QED BY <1>1, <2>1, <2>2 DEF storage, versions
<1>10. ASSUME NEW ok \in BOOLEAN, NestedEnds(ok) PROVE Goal
  <2> DEFINE f == Last(stack)
  <2>1. /\ Len(stack) > 1 /\ stack' = Front(stack)
        /\ top' \in {ResultsTo(f.lo), top, f.lo}
        /\ heap' = [heap EXCEPT !.arena = f.arena]
        /\ UNCHANGED <<alive, nth, storage, versions, table, cache, waiting, tok>>
    BY <1>10 DEF NestedEnds
  <2>2. stack' \in Seq(Frame) /\ f \in Frame
    BY <1>1, <2>1, FramePopped
  <2> HIDE DEF f
  <2>3. /\ f.lo \in 0..ScratchSize /\ f.arena \in Nat
    BY <2>2 DEF Frame
  <2>4. heap' \in HeapState
    BY <1>1, <2>1, <2>3 DEF HeapState
  <2>5. ResultsTo(f.lo) \in 0..ScratchSize
    BY <2>3, RuntimeFacts DEF ResultsTo
  <2> QED BY <1>1, <2>1, <2>2, <2>3, <2>4, <2>5 DEF storage, versions
<1>11. ASSUME NEW b \in Build, SaveAndLoad(b) PROVE Goal
  <2>1. PICK s \in SavedState, adopted \in BOOLEAN :
          /\ adopted => Restore(s, b)
          /\ ~adopted => Decline(s, b)
          /\ owed' = (stored.stamp # b) /\ build' = b
          /\ top' = 0 /\ nth' = stored.nth
          /\ UNCHANGED <<alive, stored, stack, waiting, tok>>
    BY <1>1, <1>11, LoadEffect
  <2>2. nth' \subseteq Period /\ owed' \in BOOLEAN /\ top' \in 0..ScratchSize
    BY <1>1, <2>1, RuntimeFacts DEF StoredState
  <2>3. /\ heap' \in HeapState /\ TableSound(table') /\ cache' \subseteq Buffer
        /\ stale' \in StaleState
    <3>1. CASE adopted
      BY <2>1, <3>1, RestoreEffect
    <3>2. CASE ~adopted
      <4>1. cache' = {}
        BY <2>1, <3>2, DeclineEffect
      <4> QED BY <2>1, <3>2, <4>1, DeclineEffect
    <3> QED BY <3>1, <3>2
  <2> QED BY <1>1, <2>1, <2>2, <2>3
<1> QED BY <1>1, <1>3, <1>4, <1>5, <1>6, <1>7, <1>8, <1>9, <1>10, <1>11, NextCases

-----------------------------------------------------------------------------
(* The theorems *)

\* A session that begins is within the invariant.
LEMMA RuntimeInit == Init => RuntimeInv
<1> SUFFICES ASSUME Init PROVE RuntimeInv
  OBVIOUS
<1>1. /\ alive = TRUE /\ build \in Build /\ owed = FALSE /\ untold = 0
      /\ list = Permanent(build) /\ walk = 0 /\ torn = FALSE
      /\ armed = {} /\ nth = {} /\ pieces = [f \in Paced |-> 0]
      /\ stored = [deferred |-> FALSE, gc |-> FALSE, nth |-> {}, stamp |-> build]
      /\ stale = NothingStale /\ stack = <<>> /\ waiting = Nobody /\ tok = FALSE /\ top = 0
      /\ heap = FreshHeap(build) /\ table = NewTable /\ cache = {}
  BY DEF Init, Resting
<1>2. /\ heap \in HeapState /\ heap.arena = 0
      /\ TableSound(table) /\ table.transient = <<>>
  <2>1. NewTable.transient = <<>>
    BY DEF NewTable
  <2> QED BY <1>1, <2>1, FreshHeapTyped, NewTableSound
<1>3. list \in Seq(OneShot \cup {"tick"}) /\ Len(list) \in Nat
  <2> DEFINE Listed == OneShot \cup {"tick"}
  <2>1. "tick" \in Listed
    OBVIOUS
  <2> HIDE DEF Listed
  <2>2. Permanent(build) \in Seq(Listed)
    BY <2>1 DEF Permanent
  <2> QED BY <1>1, <2>2 DEF Listed
<1>4. Typed
  <2>1. stored \in StoredState
    BY <1>1 DEF StoredState
  <2>2. NothingStale \in StaleState /\ <<>> \in Seq(Frame)
    BY EmptySeq, NothingStaleTyped
  <2>3. [f \in Paced |-> 0] \in [Paced -> 0..2]
    OBVIOUS
  <2>4. /\ walk \in 0..(Len(list) + 1) /\ top \in 0..ScratchSize
    BY <1>1, <1>3, RuntimeFacts
  <2>5. alive \in BOOLEAN /\ torn \in BOOLEAN /\ owed \in BOOLEAN /\ tok \in BOOLEAN
    BY <1>1
  <2>6. stale \in StaleState /\ stack \in Seq(Frame)
    BY <1>1, <2>2
  <2>7. armed \subseteq OneShot /\ nth \subseteq Period /\ cache \subseteq Buffer
    BY <1>1
  <2> QED BY <1>1, <1>2, <1>3, <2>1, <2>3, <2>4, <2>5, <2>6, <2>7 DEF Typed
<1>5. Order
  <2>1. Len(stack) <= MaxDepth
    BY <1>1, NoFrames, RuntimeAssumption
  <2> QED BY <1>1, <2>1 DEF Order
<1>6. FramesNest
  BY <1>1, NoFrames DEF FramesNest, Nest
<1>7. ArenaMarked
  BY <1>1, <1>2, NothingStaleTyped DEF ArenaMarked
<1> QED BY <1>4, <1>5, <1>6, <1>7 DEF RuntimeInv

\* So is one in which nothing happens.
LEMMA RuntimeStutter == ASSUME RuntimeInv, UNCHANGED vars PROVE RuntimeInv'
<1>1. UNCHANGED <<alive, list, walk, torn, armed, nth, pieces, stored, stale, build, owed,
                  untold, heap, table, cache, stack, waiting, tok, top>>
  BY DEF vars, ticking, storage, versions, guest, depth
<1>2. Typed' /\ Order'
  BY <1>1 DEF RuntimeInv, Typed, Order
<1>3. FramesNest' /\ ArenaMarked'
  BY <1>1 DEF RuntimeInv, FramesNest, ArenaMarked
<1> QED BY <1>2, <1>3 DEF RuntimeInv

\* Whatever the engine raises, the guest calls, and the builds that load each
\* other's saves: the runtime's state hangs together as RuntimeInv says
\* (dispatch, leave_outermost, state_init, state_load, finish_rebuild).
THEOREM RuntimeInvariance == Spec => []RuntimeInv
<1>1. RuntimeInv /\ [Next]_vars => RuntimeInv'
  <2> SUFFICES ASSUME RuntimeInv, [Next]_vars PROVE RuntimeInv'
    OBVIOUS
  <2>1. CASE Next
    BY <2>1, TypedStep, OrderStep, FramesNestStep, ArenaMarkedStep DEF RuntimeInv
  <2>2. CASE UNCHANGED vars
    BY <2>2, RuntimeStutter
  <2> QED BY <2>1, <2>2
<1> QED BY <1>1, RuntimeInit, PTL DEF Spec

\* Every variable holds what the runtime's fields can hold, and the scratch
\* region is never written past its end (scratch_reset, scratch_release).
THEOREM RuntimeTypes == Spec => []TypeOK
<1>1. RuntimeInv => TypeOK
  <2> SUFFICES ASSUME Typed, Order PROVE TypeOK
    BY DEF RuntimeInv
  <2>1. ASSUME NEW h \in HeapState PROVE IsHeap(h)
    BY DEF HeapState, IsHeap
  <2>2. IsTable(table)
    BY DEF Typed, TableSound, Table, IsTable
  <2>3. /\ IsHeap(Saved.heap) /\ Saved.handles \in [Persistent -> Obj \cup {NoObj}]
        /\ Saved.bufs.cache \subseteq Buffer /\ Saved.bufs.asks \in [Kind -> Nat]
    <3>1. Saved.heap \in HeapState /\ Saved.handles \in Handles /\ Saved.bufs \in MirrorState
      BY SavedTyped DEF SavedState
    <3> QED BY <2>1, <3>1 DEF Handles, MirrorState
  <2>8. \A part \in {"heap", "handles", "bufs"} : DOMAIN stale[part] \subseteq {1}
    <3>1. \A S : \A m \in Perhaps(S) : DOMAIN m \subseteq {1}
      BY DEF Perhaps
    <3>2. stale \in StaleState
      BY DEF Typed
    <3> QED BY <3>1, <3>2 DEF StaleState
  <2>4. \A i \in DOMAIN stack : stack[i].entry \in Entries /\ stack[i].hi <= ScratchSize
    <3> SUFFICES ASSUME NEW i \in DOMAIN stack
                 PROVE  stack[i].entry \in Entries /\ stack[i].hi <= ScratchSize
      OBVIOUS
    <3>1. stack[i] \in Frame
      BY DEF Typed
    <3> QED BY <3>1, FrameTyped
  <2>5. waiting = Nobody \/ waiting.entry \in Entries
    BY DEF Typed, Entrant
  <2>6. untold \in {0, 1}
    BY DEF Order
  <2>7. stored \in [deferred : BOOLEAN, gc : BOOLEAN, nth : SUBSET Period, stamp : Build]
    BY DEF Typed, StoredState
  <2> QED BY <2>1, <2>2, <2>3, <2>4, <2>5, <2>6, <2>7, <2>8 DEF Typed, TypeOK
<1> QED BY <1>1, RuntimeInvariance, PTL

\* No nesting of dispatches, and no way one of them ends, takes a handler's
\* payload from it before it returns (dispatch, invoke_callback, scratch_reset,
\* fk_arena_release).
THEOREM RuntimePayloadsIntact == Spec => []PayloadsIntact
<1>1. RuntimeInv => PayloadsIntact
  <2> SUFFICES ASSUME RuntimeInv, NEW i \in DOMAIN stack, Given(stack[i])
               PROVE  LET f     == stack[i]
                          after == {stack[j] : j \in (i + 1)..Len(stack)}
                      IN  /\ Get(table, f.h) = f.obj
                          /\ f.hi <= top /\ \A g \in after : f.hi <= g.lo
                          /\ f.hi = f.lo => /\ f.arena < heap.arena
                                            /\ \A g \in after : f.arena < g.arena
    BY DEF PayloadsIntact
  <2>1. FramesNest /\ stack \in Seq(Frame) /\ stack[i].entry \in Kind
    BY DEF RuntimeInv, Typed, Given, Kind
  <2>2. Get(table, stack[i].h) = stack[i].obj
    BY <2>1 DEF FramesNest, Nest, Get, NextTransient
  <2>3. \A j \in (i + 1)..Len(stack) : j \in DOMAIN stack /\ i < j
    BY <2>1
  <2> QED BY <2>1, <2>2, <2>3 DEF FramesNest, Nest
<1> QED BY <1>1, RuntimeInvariance, PTL

\* However the outermost dispatch ends, nothing of it is left in the guest's
\* arena or among the transient handles (dispatch_done, leave_outermost).
THEOREM RuntimeNothingLeftBehind == Spec => []NothingLeftBehind
<1>1. RuntimeInv => NothingLeftBehind
  BY DEF RuntimeInv, ArenaMarked, NothingLeftBehind
<1> QED BY <1>1, RuntimeInvariance, PTL

-----------------------------------------------------------------------------
(* The registrations *)

\* off_event of what is registered once takes just that off.
LEMMA WithoutThat ==
  ASSUME NEW S, NEW l \in Seq(S), Distinct(l), NEW f, Lists(l, f)
  PROVE  /\ Distinct(Without(l, f))
         /\ \A e : Lists(Without(l, f), e) <=> e # f /\ Lists(l, e)
<1> PICK p \in DOMAIN l : l[p] = f
  BY DEF Lists
<1> DEFINE P(k) == l[k] = f /\ \A j \in 1..(k - 1) : l[j] # f
           n == Len(l) - 1
           At(k) == IF k < p THEN k ELSE k + 1
           w == [k \in 1..n |-> l[At(k)]]
<1>1. /\ Len(l) \in Nat /\ DOMAIN l = 1..Len(l) /\ p \in 1..Len(l) /\ n \in Nat
  BY EmptySeq
<1>2. p = CHOOSE k \in DOMAIN l : P(k)
  <2>1. P(p)
    <3> SUFFICES ASSUME NEW j \in 1..(p - 1) PROVE l[j] # f
      OBVIOUS
    <3>1. j \in DOMAIN l /\ j # p
      BY <1>1
    <3> QED BY <3>1 DEF Distinct
  <2>2. \A k \in DOMAIN l : P(k) => k = p
    BY DEF Distinct
  <2> HIDE DEF P
  <2> QED BY <2>1, <2>2
<1>3. Without(l, f) = w
  BY <1>2 DEF Without
<1>4. /\ \A k \in 1..n : At(k) \in DOMAIN l /\ At(k) # p
      /\ \A j, k \in 1..n : At(j) = At(k) => j = k
      /\ \A i \in DOMAIN l : i # p => \E k \in 1..n : At(k) = i
  <2>1. \A k \in 1..n : At(k) \in DOMAIN l /\ At(k) # p
    BY <1>1
  <2>2. \A j, k \in 1..n : At(j) = At(k) => j = k
    BY <1>1
  <2>3. ASSUME NEW i \in DOMAIN l, i # p PROVE \E k \in 1..n : At(k) = i
    <3>1. CASE i < p
      <4>1. i \in 1..n /\ At(i) = i
        BY <1>1, <2>3, <3>1
      <4> HIDE DEF At
      <4> QED BY <4>1
    <3>2. CASE ~(i < p)
      <4>1. i - 1 \in 1..n /\ At(i - 1) = i
        BY <1>1, <2>3, <3>2
      <4> HIDE DEF At
      <4> QED BY <4>1
    <3> QED BY <3>1, <3>2
  <2> HIDE DEF At
  <2> QED BY <2>1, <2>2, <2>3
<1> HIDE DEF At, n
<1>5. DOMAIN w = 1..n /\ \A k \in 1..n : w[k] = l[At(k)]
  OBVIOUS
<1> HIDE DEF w
<1>6. Distinct(w)
  BY <1>4, <1>5 DEF Distinct
<1>7. ASSUME NEW e PROVE Lists(w, e) <=> e # f /\ Lists(l, e)
  <2>1. ASSUME NEW i \in DOMAIN w, w[i] = e PROVE e # f /\ Lists(l, e)
    BY <1>4, <1>5, <2>1 DEF Distinct, Lists
  <2>2. ASSUME e # f, NEW j \in DOMAIN l, l[j] = e PROVE Lists(w, e)
    BY <1>4, <1>5, <2>2 DEF Lists
  <2> QED BY <2>1, <2>2 DEF Lists
<1> QED BY <1>3, <1>6, <1>7

\* One more registration at the end.
LEMMA Enlisted ==
  ASSUME NEW S, NEW l \in Seq(S), Distinct(l), NEW f, ~Lists(l, f)
  PROVE  /\ Distinct(Append(l, f))
         /\ \A e : Lists(Append(l, f), e) <=> e = f \/ Lists(l, e)
<1> DEFINE m == Append(l, f)
           n == Len(l)
<1>1. /\ n \in Nat /\ DOMAIN l = 1..n /\ DOMAIN m = 1..(n + 1) /\ m[n + 1] = f
      /\ \A i \in 1..n : m[i] = l[i]
  <2>1. l \in Seq(S \cup {f}) /\ f \in S \cup {f}
    OBVIOUS
  <2> QED BY <2>1, AppendProperties
<1>2. \A i \in DOMAIN m : i = n + 1 \/ i \in 1..n
  BY <1>1
<1>3. 1..n \subseteq DOMAIN m /\ n + 1 \in DOMAIN m
  BY <1>1
<1> HIDE DEF m, n
<1>4. Distinct(m)
  BY <1>1, <1>2 DEF Distinct, Lists
<1>5. ASSUME NEW e PROVE Lists(m, e) <=> e = f \/ Lists(l, e)
  BY <1>1, <1>2, <1>3 DEF Lists
<1> QED BY <1>4, <1>5 DEF m

\* Two lists one after the other.
LEMMA Joined ==
  ASSUME NEW S, NEW l \in Seq(S), NEW m \in Seq(S), Distinct(l), Distinct(m),
         \A e : ~(Lists(l, e) /\ Lists(m, e))
  PROVE  /\ l \o m \in Seq(S) /\ Distinct(l \o m)
         /\ \A e : Lists(l \o m, e) <=> Lists(l, e) \/ Lists(m, e)
<1> DEFINE n == Len(l)
           k == Len(m)
           c == l \o m
<1>1. /\ n \in Nat /\ k \in Nat /\ DOMAIN l = 1..n /\ DOMAIN m = 1..k
      /\ c \in Seq(S) /\ DOMAIN c = 1..(n + k)
      /\ \A i \in 1..(n + k) : c[i] = IF i <= n THEN l[i] ELSE m[i - n]
  BY ConcatProperties
<1> HIDE DEF n, k, c
<1>2. \A i \in 1..(n + k) : i \in 1..n \/ (i - n \in 1..k /\ ~(i <= n))
  BY <1>1
<1>3. /\ \A i \in 1..n : i \in 1..(n + k) /\ c[i] = l[i]
      /\ \A i \in 1..k : n + i \in 1..(n + k) /\ c[n + i] = m[i]
  <2>1. \A i \in 1..n : i \in 1..(n + k) /\ i <= n
    BY <1>1
  <2>2. \A i \in 1..k : n + i \in 1..(n + k) /\ ~(n + i <= n) /\ (n + i) - n = i
    BY <1>1
  <2> QED BY <1>1, <2>1, <2>2
<1>4. ASSUME NEW i \in DOMAIN c, NEW j \in DOMAIN c, c[i] = c[j] PROVE i = j
  <2>1. i \in 1..(n + k) /\ j \in 1..(n + k)
    BY <1>1
  <2>2. CASE i <= n /\ j <= n
    BY <1>1, <1>2, <1>4, <2>1, <2>2 DEF Distinct
  <2>3. CASE ~(i <= n) /\ ~(j <= n)
    <3>1. i - n \in 1..k /\ j - n \in 1..k /\ m[i - n] = m[j - n]
      BY <1>1, <1>2, <1>4, <2>1, <2>3
    <3>2. i - n = j - n
      BY <1>1, <3>1 DEF Distinct
    <3> QED BY <1>1, <2>1, <3>2
  <2>4. CASE i <= n /\ ~(j <= n)
    <3>1. i \in DOMAIN l /\ c[i] = l[i]
      BY <1>1, <1>2, <2>1, <2>4
    <3>2. j - n \in DOMAIN m /\ c[j] = m[j - n]
      BY <1>1, <1>2, <2>1, <2>4
    <3> QED BY <1>4, <3>1, <3>2 DEF Lists
  <2>5. CASE ~(i <= n) /\ j <= n
    <3>1. j \in DOMAIN l /\ c[j] = l[j]
      BY <1>1, <1>2, <2>1, <2>5
    <3>2. i - n \in DOMAIN m /\ c[i] = m[i - n]
      BY <1>1, <1>2, <2>1, <2>5
    <3> QED BY <1>4, <3>1, <3>2 DEF Lists
  <2> QED BY <2>2, <2>3, <2>4, <2>5
<1>5. ASSUME NEW e PROVE Lists(c, e) <=> Lists(l, e) \/ Lists(m, e)
  <2>1. ASSUME NEW i \in DOMAIN c, c[i] = e PROVE Lists(l, e) \/ Lists(m, e)
    <3>1. CASE i <= n
      BY <1>1, <1>2, <2>1, <3>1 DEF Lists
    <3>2. CASE ~(i <= n)
      BY <1>1, <1>2, <2>1, <3>2 DEF Lists
    <3> QED BY <3>1, <3>2
  <2>2. ASSUME NEW i \in DOMAIN l, l[i] = e PROVE Lists(c, e)
    BY <1>1, <1>3, <2>2 DEF Lists
  <2>3. ASSUME NEW i \in DOMAIN m, m[i] = e PROVE Lists(c, e)
    BY <1>1, <1>3, <2>3 DEF Lists
  <2> QED BY <2>1, <2>2, <2>3 DEF Lists
<1>6. Distinct(c)
  BY <1>4 DEF Distinct
<1> QED BY <1>1, <1>5, <1>6 DEF c

\* A list of one registration, or of none.
LEMMA MaybeLists ==
  ASSUME NEW T, NEW x \in T, NEW c,
         NEW l, l = IF c THEN <<x>> ELSE <<>>
  PROVE  /\ l \in Seq(T) /\ Distinct(l) /\ \A e : Lists(l, e) <=> c /\ e = x
<1>1. CASE c
  <2>1. l \in Seq(T) /\ DOMAIN l = {1} /\ l[1] = x
    BY <1>1
  <2> QED BY <1>1, <2>1 DEF Distinct, Lists
<1>2. CASE ~c
  <2>1. l \in Seq(T) /\ DOMAIN l = {}
    BY <1>2, EmptySeq
  <2> QED BY <1>2, <2>1 DEF Distinct, Lists
<1> QED BY <1>1, <1>2

\* What a load registers: the tick hook and what after_load arms, each once.
LEMMA LoadRegisters ==
  ASSUME NEW b \in Build
  PROVE  /\ Distinct(Permanent(b) \o Rearmed)
         /\ \A e \in OneShot : Lists(Permanent(b) \o Rearmed, e) <=> Lists(Rearmed, e)
         /\ \A e : Lists(Rearmed, e) <=>
            (stored.deferred /\ e = "deferred") \/ (stored.gc /\ e = "gc") \/ e = "after_load"
         /\ DOMAIN Rearmed = 1..Len(Rearmed)
<1> DEFINE S == OneShot \cup {"tick"}
           d == IF stored.deferred THEN <<"deferred">> ELSE <<>>
           g == IF stored.gc THEN <<"gc">> ELSE <<>>
           a == <<"after_load">>
           t == IF b \in OnTick THEN <<"tick">> ELSE <<>>
<1>1. /\ "deferred" \in S /\ "gc" \in S /\ "after_load" \in S /\ "tick" \in S
      /\ "tick" \notin OneShot
  BY DEF OneShot
<1>2. /\ Permanent(b) = t /\ Rearmed = (d \o g) \o a
  BY DEF Permanent, Rearmed
<1> HIDE DEF S
<1>3. d \in Seq(S) /\ Distinct(d) /\ \A e : Lists(d, e) <=> stored.deferred /\ e = "deferred"
  BY <1>1, MaybeLists
<1>4. g \in Seq(S) /\ Distinct(g) /\ \A e : Lists(g, e) <=> stored.gc /\ e = "gc"
  BY <1>1, MaybeLists
<1>5. a \in Seq(S) /\ Distinct(a) /\ \A e : Lists(a, e) <=> e = "after_load"
  <2>1. DOMAIN a = {1} /\ a[1] = "after_load" /\ a \in Seq(S)
    BY <1>1
  <2> HIDE DEF a
  <2> QED BY <2>1 DEF Lists, Distinct
<1>6. t \in Seq(S) /\ Distinct(t) /\ \A e : Lists(t, e) <=> b \in OnTick /\ e = "tick"
  <2> DEFINE c == b \in OnTick
  <2> HIDE DEF c
  <2>1. t = IF c THEN <<"tick">> ELSE <<>>
    BY DEF c
  <2> HIDE DEF t
  <2>2. t \in Seq(S) /\ Distinct(t) /\ \A e : Lists(t, e) <=> c /\ e = "tick"
    BY <1>1, <2>1, MaybeLists
  <2> QED BY <2>2 DEF c
<1> HIDE DEF d, g, a, t
<1>7. /\ d \o g \in Seq(S) /\ Distinct(d \o g)
      /\ \A e : Lists(d \o g, e) <=> (stored.deferred /\ e = "deferred") \/ (stored.gc /\ e = "gc")
  BY <1>3, <1>4, Joined
<1>8. /\ Rearmed \in Seq(S) /\ Distinct(Rearmed)
      /\ \A e : Lists(Rearmed, e) <=>
            (stored.deferred /\ e = "deferred") \/ (stored.gc /\ e = "gc") \/ e = "after_load"
  BY <1>2, <1>5, <1>7, Joined
<1>9. /\ Distinct(t \o Rearmed)
      /\ \A e : Lists(t \o Rearmed, e) <=> Lists(t, e) \/ Lists(Rearmed, e)
  BY <1>6, <1>8, Joined
<1>10. DOMAIN Rearmed = 1..Len(Rearmed)
  BY <1>8
<1> QED BY <1>1, <1>2, <1>6, <1>8, <1>9, <1>10

\* Listing is kept: on_event is called for what is not on the list, off_event takes it off.
LEMMA ListingStep == ASSUME Typed, Listing, Next PROVE Listing'
<1> DEFINE S == OneShot \cup {"tick"}
<1>1. list \in Seq(S) /\ armed \subseteq OneShot /\ Listing
  BY DEF Typed
<1> HIDE DEF S
<1>2. ASSUME UNCHANGED <<list, armed>> PROVE Listing'
  BY <1>1, <1>2 DEF Listing
<1>3. ASSUME NEW f \in OneShot, Arm(f) PROVE Listing'
  <2>1. CASE f \in armed
    BY <1>2, <1>3, <2>1 DEF Arm
  <2>2. CASE f \notin armed
    <3>1. list' = Append(list, f) /\ armed' = armed \cup {f} /\ ~Lists(list, f)
      BY <1>1, <1>3, <2>2 DEF Arm, Listing
    <3>2. Distinct(list') /\ \A e : Lists(list', e) <=> e = f \/ Lists(list, e)
      BY <1>1, <3>1, Enlisted DEF Listing
    <3> QED BY <1>1, <3>1, <3>2 DEF Listing
  <2> QED BY <2>1, <2>2
<1>4. ASSUME NEW f \in OneShot, Served(f)
      PROVE  /\ Lists(list, f) /\ list # <<>>
             /\ Without(list, f) \in Seq(S) /\ Distinct(Without(list, f))
             /\ \A e : Lists(Without(list, f), e) <=> e # f /\ Lists(list, e)
  <2>1. walk \in DOMAIN list /\ list[walk] = f
    <3>1. walk \in Nat /\ walk # 0 /\ walk <= Len(list) /\ list[walk] = f
      BY <1>4 DEF Served, Typed
    <3> QED BY <1>1, <3>1
  <2>2. Lists(list, f) /\ list # <<>>
    BY <2>1, NoFrames DEF Lists
  <2> QED BY <1>1, <2>2, WithoutShorter, WithoutThat DEF Listing
<1>5. CASE UNCHANGED ticking
  BY <1>2, <1>5 DEF ticking
<1>6. CASE TickBegins \/ WalkEnds \/ OutermostReturns
  BY <1>2, <1>6 DEF TickBegins, WalkEnds, OutermostReturns
<1>7. ASSUME NEW f \in OneShot, Served(f), Off(f) PROVE Listing'
  <2>1. list' = Without(list, f) /\ armed' = armed \ {f}
    BY <1>7 DEF Off
  <2> QED BY <1>1, <1>4, <1>7, <2>1 DEF Listing
<1>8. CASE PrebuildMore
  <2> DEFINE rest == Without(list, "prebuild")
  <2>1. /\ Served("prebuild") /\ "prebuild" \in OneShot
        /\ list' = Append(rest, "prebuild") /\ armed' = armed
    BY <1>8 DEF PrebuildMore, OneShot
  <2>2. /\ Lists(list, "prebuild") /\ rest \in Seq(S) /\ Distinct(rest)
        /\ \A e : Lists(rest, e) <=> e # "prebuild" /\ Lists(list, e)
    BY <1>4, <2>1
  <2> HIDE DEF rest
  <2>3. Distinct(list') /\ \A e : Lists(list', e) <=> e = "prebuild" \/ Lists(rest, e)
    BY <2>1, <2>2, Enlisted
  <2>4. \A e : Lists(list', e) <=> Lists(list, e)
    BY <2>2, <2>3
  <2> QED BY <1>1, <2>1, <2>3, <2>4 DEF Listing
<1>9. CASE CollectorSteps
  <2>1. Arm("gc") \/ UNCHANGED <<list, armed>>
    BY <1>9 DEF CollectorSteps
  <2> QED BY <1>2, <1>3, <2>1 DEF OneShot
<1>10. ASSUME NEW b \in Build, SaveAndLoad(b) PROVE Listing'
  <2>1. /\ list' = Permanent(b) \o Rearmed
        /\ armed' = {f \in OneShot : \E i \in 1..Len(Rearmed) : Rearmed[i] = f}
    BY <1>10 DEF SaveAndLoad
  <2>2. \A f \in OneShot : f \in armed' <=> Lists(Rearmed, f)
    BY <2>1, LoadRegisters DEF Lists
  <2> QED BY <2>1, <2>2, LoadRegisters DEF Listing
<1> QED BY <1>3, <1>5, <1>6, <1>7, <1>8, <1>9, <1>10, TickCases

\* An outermost entry keeps the promises when it takes with it only the flag of
\* its own one-shot.
LEMMA EnterPromises ==
  ASSUME RuntimeInv, Promises, AtRest, NEW w \in Entrant,
         NEW st \in {stored, [stored EXCEPT !.deferred = FALSE]},
         Enter(w.entry, w.obj, st),
         st.deferred <=> stored.deferred /\ w.entry # "deferred",
         armed' = armed \ {w.entry}
  PROVE  Promises'
<1>1. /\ Typed /\ Order /\ heap \in HeapState /\ stored \in StoredState
  BY DEF RuntimeInv, Typed
<1>2. /\ st \in StoredState /\ st.gc = stored.gc /\ st.nth = stored.nth
  BY <1>1 DEF StoredState
<1>3. PICK f \in Frame : Entered(w, st, f)
  BY <1>1, EnterEffect
<1>4. /\ heap'.busy = heap.busy /\ nth' = nth /\ stack' = Append(<<>>, f)
  BY <1>1, <1>3, MarkedTyped DEF Entered, Raised
<1>12. stale'.heap = <<>> \/ stale'.heap = stale.heap
  <2>1. PICK from \in {stale, NothingStale} : Raised(<<>>, f, table, Marked(heap), from)
    BY <1>3 DEF Entered
  <2>2. stale'.heap = from.heap
    BY <2>1 DEF Raised
  <2> QED BY <2>1, <2>2, NothingStaleTyped
<1>5. /\ stored'.gc = stored.gc /\ stored'.nth = stored.nth
      /\ stored'.deferred = st.deferred
  BY <1>2, <1>3 DEF Entered, StoredState
<1>6. stack' # <<>> /\ stack'[1] = f
  BY <1>4, OneFrame
<1>7. w.entry = "gc" => Running("gc")'
  BY <1>3, <1>6 DEF Entered, Running
<1>8. ~Running("gc")
  BY DEF Running, AtRest, Nobody
<1>9. stored'.deferred <=> "deferred" \in armed'
  <2>1. stored.deferred <=> "deferred" \in armed
    BY DEF Promises
  <2>2. "deferred" \in armed' <=> "deferred" \in armed /\ w.entry # "deferred"
    OBVIOUS
  <2> QED BY <1>5, <2>1, <2>2
<1>10. heap'.busy => stored'.gc /\ ("gc" \in armed' \/ Running("gc")')
  BY <1>4, <1>5, <1>7, <1>8 DEF Promises
<1>11. nth' = stored'.nth /\ (stale'.heap # <<>> /\ stale'.heap[1].busy => stored'.gc)
  BY <1>4, <1>5, <1>12 DEF Promises
<1> QED BY <1>9, <1>10, <1>11 DEF Promises

\* Unless fk_migrate traps, the flags of `storage` and the one-shots agree as
\* long as the session runs.
LEMMA PromisedStep ==
  ASSUME ~MigrateTraps, RuntimeInv, Whole, Promised, Next
  PROVE  Promised'
<1>1. /\ RuntimeInv /\ Typed /\ Order /\ Settled /\ Promised /\ heap \in HeapState
      /\ stored \in StoredState /\ armed \subseteq OneShot /\ nth \subseteq Period
      /\ stack \in Seq(Frame) /\ waiting \in Entrant \cup {Nobody} /\ owed \in BOOLEAN
  BY DEF RuntimeInv, Typed, Whole
<1>2. ASSUME alive, nth' = nth, stale'.heap \in {stale.heap, <<>>}, heap'.busy = heap.busy,
             stored'.deferred = stored.deferred,
             stored'.gc = stored.gc, stored'.nth = stored.nth,
             "deferred" \in armed' <=> "deferred" \in armed,
             "gc" \in armed => "gc" \in armed', Running("gc") => Running("gc")' \/ "gc" \in armed'
      PROVE  Promised'
  BY <1>1, <1>2 DEF Promised, Promises
<1>3. ASSUME UNCHANGED <<stack, waiting>>
      PROVE  Running("gc") => Running("gc")' \/ "gc" \in armed'
  BY <1>3 DEF Running
<1>4. ASSUME NEW f \in OneShot, Arm(f) PROVE armed' = armed \cup {f}
  BY <1>4 DEF Arm
<1>5. ASSUME NEW w \in Entrant, AtRest, Enter(w.entry, w.obj, stored),
             w.entry # "deferred", armed' = armed \ {w.entry}
      PROVE  Promised'
  <2>1. alive /\ Promises
    BY <1>1, <1>5 DEF AtRest, Promised
  <2> QED BY <1>1, <1>5, <2>1, EnterPromises DEF Promised
<1>6. CASE Defers
  <2>1. /\ alive /\ armed' = armed \cup {"deferred"}
        /\ stored' = [stored EXCEPT !.deferred = TRUE]
        /\ UNCHANGED <<nth, stale, heap, stack, waiting>>
    BY <1>4, <1>6 DEF Defers, GuestRuns, OneShot, guest, depth
  <2>2. stored'.deferred /\ stored'.gc = stored.gc /\ stored'.nth = stored.nth
    BY <1>1, <2>1 DEF StoredState
  <2> QED BY <1>1, <2>1, <2>2 DEF Promised, Promises, Running
<1>7. CASE Collects
  <2>1. /\ alive /\ armed' = armed \cup {"gc"}
        /\ stored' = [stored EXCEPT !.gc = TRUE]
        /\ UNCHANGED <<nth, stale, stack, waiting>>
    BY <1>4, <1>7 DEF Collects, GuestRuns, OneShot, depth
  <2>2. stored'.gc /\ stored'.deferred = stored.deferred /\ stored'.nth = stored.nth
    BY <1>1, <2>1 DEF StoredState
  <2>3. "gc" \in armed' /\ ("deferred" \in armed' <=> "deferred" \in armed)
    BY <2>1
  <2> QED BY <1>1, <2>1, <2>2, <2>3 DEF Promised, Promises
<1>8. CASE Grows
  <2>1. /\ alive /\ armed' = armed \cup {"prebuild"}
        /\ UNCHANGED <<nth, stored, stale, heap, stack, waiting>>
    BY <1>4, <1>8 DEF Grows, GuestRuns, OneShot, guest, depth, storage
  <2> QED BY <1>2, <1>3, <2>1
<1>9. ASSUME NEW periods, SetNthTick(periods) PROVE Promised'
  <2>1. /\ alive /\ nth' = periods /\ stored' = [stored EXCEPT !.nth = periods]
        /\ UNCHANGED <<armed, stale, heap, stack, waiting>>
    BY <1>9 DEF SetNthTick, GuestRuns, ticking, guest, depth
  <2>2. stored'.nth = nth' /\ stored'.gc = stored.gc /\ stored'.deferred = stored.deferred
    BY <1>1, <2>1 DEF StoredState
  <2> QED BY <1>1, <2>1, <2>2 DEF Promised, Promises, Running
<1>10. ASSUME NEW v \in Var, Retains(v) \/ Releases(v) PROVE Promised'
  <2>1. /\ alive /\ heap'.busy = heap.busy
        /\ UNCHANGED <<armed, nth, stored, stale, stack, waiting>>
    BY <1>1, <1>10 DEF Retains, Releases, GuestRuns, HeapState, ticking, storage, depth
  <2> QED BY <1>2, <1>3, <2>1
<1>11. ASSUME NEW entry \in Kind, NEW obj \in Obj, Reenters(entry, obj)
       PROVE  Promised'
  <2>1. PICK f \in Frame :
          /\ alive /\ stack # <<>> /\ Raised(stack, f, table, heap, stale)
          /\ UNCHANGED <<ticking, nth, stored, waiting>>
    BY <1>1, <1>11, ReenterEffect
  <2>2. /\ stack' # <<>> /\ stack'[1] = stack[1] /\ heap'.busy = heap.busy
        /\ stale'.heap = stale.heap
    BY <1>1, <2>1 DEF Raised
  <2> QED BY <1>2, <2>1, <2>2 DEF ticking, Running
<1>12. ASSUME NEW ok \in BOOLEAN, NestedEnds(ok) PROVE Promised'
  <2>1. /\ alive /\ Len(stack) > 1 /\ stack' = Front(stack)
        /\ heap' = [heap EXCEPT !.arena = Last(stack).arena]
        /\ UNCHANGED <<ticking, nth, storage, waiting>>
    BY <1>12 DEF NestedEnds
  <2>2. stack' # <<>> /\ stack'[1] = stack[1]
    BY <1>1, <2>1, FramePopped
  <2>3. heap'.busy = heap.busy
    BY <1>1, <2>1 DEF HeapState
  <2> QED BY <1>2, <2>1, <2>2, <2>3 DEF ticking, storage, Running
<1>13. CASE OutermostReturns
  <2>1. /\ alive /\ Len(stack) = 1 /\ stack[1].entry \notin {"migrate", "gc"}
        /\ heap' = Released(heap) /\ UNCHANGED <<armed, nth, stored>>
    BY <1>13 DEF OutermostReturns, Leave
  <2>5. stale'.heap \in {stale.heap, <<>>}
    BY <1>1, <1>13, OutermostEffect DEF OutermostEnds
  <2>6. Len(stack) = 1
    BY <2>1
  <2>2. waiting = Nobody
    BY <1>1, <2>1, <2>6, NoFrames DEF Order
  <2>3. ~Running("gc")
    BY <2>1, <2>2 DEF Running, Nobody
  <2>4. heap'.busy = heap.busy
    BY <1>1, <2>1, ReleasedTyped
  <2> QED BY <1>2, <2>1, <2>3, <2>4, <2>5
<1>14. CASE CollectorSteps
  <2>1. PICK b \in {heap.busy, FALSE} :
          /\ Leave([heap EXCEPT !.busy = b])
          /\ IF b THEN Arm("gc") /\ UNCHANGED stored
             ELSE stored' = [stored EXCEPT !.gc = FALSE] /\ UNCHANGED <<list, armed>>
    BY <1>14 DEF CollectorSteps
  <2>2. /\ alive /\ Len(stack) = 1 /\ stack[1].entry = "gc" /\ nth' = nth
    BY <1>14 DEF CollectorSteps
  <2>7. stack # <<>>
    <3>1. Len(stack) = 1
      BY <2>2
    <3> QED BY <3>1, NoFrames
  <2>8. stale = NothingStale
    BY <1>1, <2>2, <2>7 DEF Order, Settled
  <2>3. stale'.heap = <<>>
    <3>1. stale' = NothingStale
      BY <1>1, <1>14, <2>8, OutermostEffect DEF OutermostEnds
    <3> QED BY <3>1, NothingStaleTyped
  <2>4. heap'.busy = b
    <3>1. /\ [heap EXCEPT !.busy = b] \in HeapState /\ [heap EXCEPT !.busy = b].busy = b
      BY <1>1, <2>1 DEF HeapState
    <3> QED BY <2>1, <3>1, ReleasedTyped DEF Leave
  <2>5. CASE b
    <3>1. armed' = armed \cup {"gc"} /\ stored' = stored
      BY <1>4, <2>1, <2>5 DEF OneShot
    <3>2. heap.busy
      BY <2>1, <2>5
    <3>3. "gc" \in armed' /\ ("deferred" \in armed' <=> "deferred" \in armed)
      BY <3>1
    <3> QED BY <1>1, <2>2, <2>3, <3>1, <3>2, <3>3 DEF Promised, Promises
  <2>6. CASE ~b
    <3>1. stored' = [stored EXCEPT !.gc = FALSE] /\ armed' = armed /\ ~heap'.busy
      BY <2>1, <2>4, <2>6
    <3>2. stored'.deferred = stored.deferred /\ stored'.nth = stored.nth
      BY <1>1, <3>1 DEF StoredState
    <3> QED BY <1>1, <2>2, <2>3, <3>1, <3>2 DEF Promised, Promises
  <2> QED BY <2>5, <2>6
<1>15. CASE MigrateReturns
  <2>1. PICK f \in Frame, h \in HeapState :
          /\ stack # <<>> /\ stack[1].entry = "migrate" /\ alive
          /\ f.entry = waiting.entry /\ Raised(<<>>, f, ClearTransient(table), h, NothingStale)
          /\ h.busy = heap.busy /\ stored' = [stored EXCEPT !.stamp = build]
          /\ stale'.heap = <<>> /\ UNCHANGED <<ticking, nth>>
    BY <1>1, <1>15, MigrateEffect, NothingStaleTyped
  <2>2. stack' # <<>> /\ stack'[1] = f
    BY <2>1, OneFrame DEF Raised
  <2>3. Running("gc") => Running("gc")'
    BY <2>1, <2>2 DEF Running
  <2>4. /\ stored'.deferred = stored.deferred /\ stored'.gc = stored.gc
        /\ stored'.nth = stored.nth
    BY <1>1, <2>1 DEF StoredState
  <2>5. heap'.busy = heap.busy
    BY <2>1 DEF Raised
  <2> QED BY <1>1, <2>1, <2>3, <2>4, <2>5 DEF Promised, Promises, ticking
<1>16. CASE OutermostTraps
  <2>1. /\ alive /\ Len(stack) = 1 /\ stack[1].entry # "migrate"
        /\ heap' = Released(heap) /\ UNCHANGED <<ticking, nth, stored>>
        /\ alive' => "callback" \in {stack[1].entry, waiting.entry}
    BY <1>16 DEF OutermostTraps, Leave
  <2>5. stale'.heap \in {stale.heap, <<>>}
    BY <1>1, <1>16, OutermostEffect DEF OutermostEnds
  <2>6. Len(stack) = 1
    BY <2>1
  <2>2. waiting = Nobody
    BY <1>1, <2>1, <2>6, NoFrames DEF Order
  <2>3. alive' => ~Running("gc")
    BY <2>1, <2>2 DEF Running, Nobody
  <2>4. heap'.busy = heap.busy
    BY <1>1, <2>1, ReleasedTyped
  <2> QED BY <1>1, <2>1, <2>3, <2>4, <2>5 DEF Promised, Promises, ticking
<1>17. CASE WalkEnds \/ TickBegins
  <2>1. /\ alive /\ UNCHANGED <<armed, nth, stored, stale, heap, stack, waiting>>
    BY <1>17 DEF WalkEnds, TickBegins, AtRest, storage, guest, depth
  <2> QED BY <1>2, <1>3, <2>1
<1>18. ASSUME NEW w \in Entrant, w.entry \notin OneShot, AtRest,
              Enter(w.entry, w.obj, stored), UNCHANGED ticking
       PROVE  Promised'
  <2>1. armed' = armed \ {w.entry} /\ w.entry # "deferred"
    BY <1>1, <1>18 DEF ticking, OneShot
  <2> QED BY <1>5, <1>18, <2>1
<1>19. ASSUME NEW entry \in Entries \ {"migrate"}, NEW obj \in Obj \cup {NoObj},
              entry \in Kind => obj \in Obj
       PROVE  \E w \in Entrant : w.entry = entry /\ w.obj = obj
  <2>1. [entry |-> entry, obj |-> obj] \in Entrant
    BY <1>19 DEF Entrant
  <2> QED BY <2>1
<1>20. Engine => Promised'
  <2>1. ASSUME NEW entry \in Kind, NEW obj \in Obj, Raises(entry, obj)
        PROVE  Promised'
    <3>2. entry \in Entries \ {"migrate"} /\ obj \in Obj \cup {NoObj} /\ entry \notin OneShot
      BY <2>1 DEF Entries, Kind, OneShot
    <3>1. PICK w \in Entrant : w.entry = entry /\ w.obj = obj
      BY <1>19, <2>1, <3>2
    <3>3. AtRest /\ Enter(w.entry, w.obj, stored) /\ UNCHANGED ticking
      BY <2>1, <3>1 DEF Raises
    <3> QED BY <1>18, <3>1, <3>2, <3>3
  <2>2. ASSUME Raises("nth", NoObj) PROVE Promised'
    <3>1. PICK w \in Entrant : w.entry = "nth" /\ w.obj = NoObj
      BY <1>19 DEF Entries, Kind
    <3> QED BY <1>18, <2>2, <3>1 DEF Raises, OneShot
  <2> QED BY <2>1, <2>2 DEF Engine, NthTick
<1>21. CASE RunTickHook
  <2>1. PICK w \in Entrant : w.entry = "tick" /\ w.obj = NoObj
    BY <1>19 DEF Entries, Kind
  <2> QED BY <1>18, <1>21, <2>1 DEF RunTickHook, Served, OneShot
<1>22. CASE Prebuild
  <2>1. /\ alive /\ armed' = armed \ {"prebuild"}
        /\ UNCHANGED <<nth, stored, stale, heap, stack, waiting>>
    BY <1>22 DEF Prebuild, Served, AtRest, Off, storage, guest, depth
  <2> QED BY <1>2, <1>3, <2>1
<1>23. CASE PrebuildMore
  <2>1. /\ alive /\ UNCHANGED <<armed, nth, stored, stale, heap, stack, waiting>>
    BY <1>23 DEF PrebuildMore, Served, AtRest, storage, guest, depth
  <2> QED BY <1>2, <1>3, <2>1
<1>24. ASSUME NEW f \in OneShot \ {"prebuild"}, RunOneShot(f) PROVE Promised'
  <2>1. PICK w \in Entrant : w.entry = f /\ w.obj = NoObj
    <3>1. f \in Entries \ {"migrate"} /\ f \notin Kind
      BY DEF Entries, Kind, OneShot
    <3> QED BY <1>19, <3>1
  <2> DEFINE st == IF f = "deferred" THEN [stored EXCEPT !.deferred = FALSE] ELSE stored
  <2>2. AtRest /\ Enter(w.entry, w.obj, st) /\ armed' = armed \ {w.entry} /\ alive
    BY <1>24, <2>1 DEF RunOneShot, Served, Off, AtRest
  <2>3. /\ st \in {stored, [stored EXCEPT !.deferred = FALSE]}
        /\ st.deferred <=> stored.deferred /\ w.entry # "deferred"
    BY <1>1, <2>1 DEF StoredState
  <2> HIDE DEF st
  <2> QED BY <1>1, <2>2, <2>3, EnterPromises DEF Promised
<1>25. ASSUME NEW b \in Build, SaveAndLoad(b) PROVE Promised'
  <2>1. PICK s \in SavedState, adopted \in BOOLEAN :
          /\ alive /\ stack = <<>> /\ waiting = Nobody /\ s = Saved
          /\ adopted => Restore(s, b)
          /\ ~adopted => Decline(s, b)
          /\ nth' = stored.nth /\ stored' = stored
    BY <1>1, <1>25, LoadEffect
  <2>2. armed' = {f \in OneShot : \E i \in 1..Len(Rearmed) : Rearmed[i] = f}
    BY <1>25 DEF SaveAndLoad
  <2>3. /\ "deferred" \in armed' <=> stored.deferred
        /\ stored.gc => "gc" \in armed'
    BY <2>2, LoadRegisters DEF Lists, OneShot
  <2>4. s.heap.busy => stored.gc
    BY <1>1, <2>1 DEF Promised, Promises, Saved
  <2>5. CASE adopted
    <3>1. heap'.busy = s.heap.busy /\ stale'.heap = <<>>
      BY <2>1, <2>5, RestoreEffect
    <3> QED BY <2>1, <2>3, <2>4, <3>1 DEF Promised, Promises
  <2>6. CASE ~adopted
    <3>1. heap' = FreshHeap(b) /\ stale'.heap[1] = s.heap
      BY <2>1, <2>6, DeclineEffect
    <3>2. ~heap'.busy
      BY <3>1, FreshHeapTyped
    <3> QED BY <2>1, <2>3, <2>4, <3>1, <3>2 DEF Promised, Promises
  <2> QED BY <2>5, <2>6
<1>26. GuestCalls => Promised'
  BY <1>6, <1>7, <1>8, <1>9, <1>10, <1>11 DEF GuestCalls, Kind
<1>27. EntryEnds => Promised'
  BY <1>12, <1>13, <1>14, <1>15, <1>16 DEF EntryEnds
<1>28. Walks => Promised'
  BY <1>17, <1>21, <1>22, <1>23, <1>24 DEF Walks
<1> QED BY <1>17, <1>20, <1>25, <1>26, <1>27, <1>28 DEF Next

-----------------------------------------------------------------------------
(* The theorems that suppose a notice of a rebuild that does not trap *)

\* At the beginning nothing is owed and only what the flags say is registered.
LEMMA PromisedInit == Init => Listing /\ Promised
<1> SUFFICES ASSUME Init PROVE Listing /\ Promised
  OBVIOUS
<1>1. /\ build \in Build /\ list = Permanent(build) /\ armed = {} /\ nth = {}
      /\ stored = [deferred |-> FALSE, gc |-> FALSE, nth |-> {}, stamp |-> build]
      /\ stale = NothingStale /\ heap = FreshHeap(build)
  BY DEF Init, Resting
<1>2. heap.busy = FALSE /\ stale.heap = <<>>
  BY <1>1, FreshHeapTyped, NothingStaleTyped
<1>3. Listing
  <2>1. list = IF build \in OnTick THEN <<"tick">> ELSE <<>>
    BY <1>1 DEF Permanent
  <2>2. CASE build \in OnTick
    <3>1. DOMAIN list = {1} /\ list[1] = "tick"
      BY <2>1, <2>2
    <3> QED BY <1>1, <3>1 DEF Listing, Lists, Distinct, OneShot
  <2>3. CASE build \notin OnTick
    <3>1. DOMAIN list = {}
      BY <2>1, <2>3, NoFrames
    <3> QED BY <1>1, <3>1 DEF Listing, Lists, Distinct
  <2> QED BY <2>2, <2>3
<1>4. Promises
  <2>1. stored.deferred = FALSE /\ stored.nth = {}
    BY <1>1
  <2> QED BY <1>1, <1>2, <2>1 DEF Promises
<1> QED BY <1>3, <1>4 DEF Promised

\* And it stays so when nothing happens.
LEMMA PromisedStutter ==
  UNCHANGED vars => (Listing => Listing') /\ (Promised => Promised')
<1> SUFFICES ASSUME UNCHANGED vars PROVE (Listing => Listing') /\ (Promised => Promised')
  OBVIOUS
<1>1. UNCHANGED <<alive, list, armed, nth, stored, stale, heap, stack, waiting>>
  BY DEF vars, ticking, storage, versions, guest, depth
<1> QED BY <1>1 DEF Listing, Promised, Promises, Running

\* Each one-shot is on the on_tick list when its flag says so, and once
\* (on_event, off_event, after_load).
THEOREM RuntimeListing == Spec => []Listing
<1>1. Typed /\ Listing /\ [Next]_vars => Listing'
  <2>1. Typed /\ Listing /\ Next => Listing'
    BY ListingStep
  <2>2. Listing /\ UNCHANGED vars => Listing'
    BY PromisedStutter
  <2> QED BY <2>1, <2>2
<1>2. RuntimeInv => Typed
  BY DEF RuntimeInv
<1> QED BY <1>1, <1>2, PromisedInit, RuntimeInvariance, PTL DEF Spec

\* What belongs together stays together, live and in `storage`, over loads that
\* adopt, refuse and decline, and what a rebuild owes is settled by the dispatch
\* that tells the guest (state_init, state_load, finish_rebuild), if fk_migrate
\* never traps.
THEOREM RuntimeWholeness ==
  ASSUME ~MigrateTraps
  PROVE  Spec => []Whole
<1>1. RuntimeInv /\ Whole /\ [Next]_vars => Whole'
  <2>1. RuntimeInv /\ Whole /\ Next => Whole'
    BY LiveKeptStep, LiveBufferedStep, PendingStep, SettledStep
       DEF Whole, LiveWhole, LiveKept
  <2>2. Whole /\ UNCHANGED vars => Whole'
    BY WholeStutter
  <2> QED BY <2>1, <2>2
<1> QED BY <1>1, WholeInit, RuntimeInvariance, PTL DEF Spec

\* Through any saves, loads and rebuilds a handle the guest holds names what it
\* retained, and no slot is pinned that the guest cannot name (state_load, adopt),
\* if fk_migrate never traps.
THEOREM RuntimeHandlesKept ==
  ASSUME ~MigrateTraps
  PROVE  Spec => []HandlesKept
<1>1. Whole => HandlesKept
  BY DEF Whole, LiveWhole, Kept, HandlesKept
<1> QED BY <1>1, RuntimeWholeness, PTL

\* A heap has no buffer beyond one for each level and one more for each load that
\* refused it for its size, and what the runtime writes to is the last one made, of
\* the size it asks for (event_buffer, call_buffer, publish_buffers, state_load), if
\* fk_migrate never traps.
THEOREM RuntimeOneBufferPerLevel ==
  ASSUME ~MigrateTraps
  PROVE  Spec => []OneBufferPerLevel
<1>1. Whole => OneBufferPerLevel
  BY DEF Whole, LiveWhole, OneBufferPerLevel
<1> QED BY <1>1, RuntimeWholeness, PTL

\* A save has a heap under the stamp of the build that laid it out, with its handles
\* and its buffers (state_init, publish_buffers, finish_rebuild), if fk_migrate never
\* traps.
THEOREM RuntimeSaveIsWhole ==
  ASSUME ~MigrateTraps
  PROVE  Spec => []SaveIsWhole
<1>1. RuntimeInv /\ Whole => SaveIsWhole
  <2> SUFFICES ASSUME RuntimeInv, Whole, AtRest
               PROVE  /\ Saved.heap.by = stored.stamp
                      /\ Keeps(Saved.heap, Saved.handles) /\ Buffered(Saved.heap, Saved.bufs)
    BY DEF SaveIsWhole
  <2> QED BY SavedWholeAtRest DEF SavedWhole, Kept
<1> QED BY <1>1, RuntimeInvariance, RuntimeWholeness, PTL

\* After a rebuild nothing of the guest runs before it was told and before
\* `storage` has the heap it runs on (finish_rebuild), if fk_migrate never traps.
THEOREM RuntimeToldFirst ==
  ASSUME ~MigrateTraps
  PROVE  Spec => []ToldFirst
<1>1. RuntimeInv /\ Whole => ToldFirst
  BY DEF RuntimeInv, Typed, Order, Whole, Settled, ToldFirst
<1> QED BY <1>1, RuntimeWholeness, RuntimeInvariance, PTL

\* Through walks in which handlers take themselves off and put themselves back,
\* and through loads, the registrations are those the flags of `storage` promise
\* (fk_deferred, fk_gc, fk_nth, after_load), if fk_migrate never traps.
THEOREM RuntimeRegistrations ==
  ASSUME ~MigrateTraps
  PROVE  Spec => []RegistrationsMatch
<1>1. RuntimeInv /\ Whole /\ Promised /\ [Next]_vars => Promised'
  <2>1. RuntimeInv /\ Whole /\ Promised /\ Next => Promised'
    BY PromisedStep
  <2>2. Promised /\ UNCHANGED vars => Promised'
    BY PromisedStutter
  <2> QED BY <2>1, <2>2
<1>2. Spec => []Promised
  BY <1>1, PromisedInit, RuntimeInvariance, RuntimeWholeness, PTL DEF Spec
<1>3. Typed /\ Listing /\ Promised => RegistrationsMatch
  <2> SUFFICES ASSUME Typed, Listing, Promised, alive PROVE RegistrationsMatch
    BY DEF RegistrationsMatch
  <2>1. ASSUME NEW f \in OneShot PROVE Registered(f) = IF f \in armed THEN 1 ELSE 0
    <3> DEFINE at == {i \in DOMAIN list : list[i] = f}
    <3>1. CASE f \in armed
      <4>1. PICK i \in DOMAIN list : list[i] = f
        BY <2>1, <3>1 DEF Listing, Lists
      <4>2. at = {i}
        BY <4>1 DEF Listing, Distinct
      <4> HIDE DEF at
      <4>3. Cardinality(at) = 1
        BY <4>2, FS_Singleton
      <4> QED BY <3>1, <4>3 DEF at, Registered
    <3>2. CASE f \notin armed
      <4>1. at = {}
        BY <2>1, <3>2 DEF Listing, Lists
      <4> HIDE DEF at
      <4>2. Cardinality(at) = 0
        BY <4>1, FS_EmptySet
      <4> QED BY <3>2, <4>2 DEF at, Registered
    <3> QED BY <3>1, <3>2
  <2> QED BY <2>1 DEF Promised, Promises, RegistrationsMatch
<1>4. RuntimeInv => Typed
  BY DEF RuntimeInv
<1> QED BY <1>2, <1>3, <1>4, RuntimeInvariance, RuntimeListing, PTL

=============================================================================
