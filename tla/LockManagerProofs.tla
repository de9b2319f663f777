-------------------------- MODULE LockManagerProofs -------------------------
(***************************************************************************)
(* The keyed lock of volume/locker.go is correct for any number of         *)
(* goroutines, keys and entries: proofs of the invariants of LockManager   *)
(* and of its refinement of KeyedMutex.                                    *)
(***************************************************************************)
EXTENDS LockManager, TLAPS, FiniteSetTheorems

\* There are finitely many users of an entry, so its users can be counted.
LEMMA UsersFinite == \A e \in Entries : IsFiniteSet(Users(e)) /\ Cardinality(Users(e)) \in Nat
BY ProcsFinite, FS_Subset, FS_CardinalityType DEF Users

\* The count of the entry of a goroutine that is counted in is positive:
\* Unlock's count-- cannot make it negative.
LEMMA CountPositive ==
  ASSUME TypeOK, IndInv, NEW p \in Procs, Counted(p)
  PROVE  /\ entry[p] \in Entries
         /\ locks[key[p]] = entry[p]
         /\ p \in Users(entry[p])
         /\ count[entry[p]] = Cardinality(Users(entry[p]))
         /\ count[entry[p]] \in Nat \ {0}
<1>1. entry[p] \in Entries /\ locks[key[p]] = entry[p] /\ key[p] \in Keys
  BY DEF TypeOK, IndInv, EntryKnown, CountedMapped, Refers
<1>2. p \in Users(entry[p])
  BY DEF Users
<1>3. count[entry[p]] = Cardinality(Users(entry[p]))
  BY <1>1, NullValues DEF IndInv, CountExact
<1>4. Cardinality(Users(entry[p])) # 0
  BY <1>1, <1>2, UsersFinite, FS_EmptySet
<1> QED BY <1>1, <1>2, <1>3, <1>4, UsersFinite

LEMMA TypeStep == TypeOK /\ IndInv /\ [Next]_vars => TypeOK'
<1> SUFFICES ASSUME TypeOK, IndInv, [Next]_vars PROVE TypeOK'
  OBVIOUS
<1> USE DEF TypeOK, Locations, Transition
<1>1. ASSUME NEW p \in Procs, NEW k \in Keys, LockCall(p, k) PROVE TypeOK'
  BY <1>1 DEF LockCall
<1>2. ASSUME NEW p \in Procs, LockMutex(p) PROVE TypeOK'
  BY <1>2 DEF LockMutex, AcquireMutex
<1>3. ASSUME NEW p \in Procs, Increment(p) PROVE TypeOK'
  <2>1. CASE NewEntry(p)
    BY <1>3, <2>1 DEF Increment, NewEntry
  <2>2. CASE OldEntry(p)
    BY <1>3, <2>2 DEF Increment, OldEntry
  <2> QED BY <1>3, <2>1, <2>2 DEF Increment
<1>4. ASSUME NEW p \in Procs, Send(p) PROVE TypeOK'
  BY <1>4 DEF Send
<1>5. ASSUME NEW p \in Procs, UnlockCall(p) PROVE TypeOK'
  BY <1>5 DEF UnlockCall
<1>6. ASSUME NEW p \in Procs, UnlockMutex(p) PROVE TypeOK'
  BY <1>6 DEF UnlockMutex, AcquireMutex
<1>7. ASSUME NEW p \in Procs, Decrement(p) PROVE TypeOK'
  <2>1. locks[key[p]] \in Entries /\ count[locks[key[p]]] \in Nat \ {0}
    BY <1>7, CountPositive DEF Decrement, CountOut, Counted
  <2> QED BY <1>7, <2>1 DEF Decrement, CountOut
<1>8. ASSUME NEW p \in Procs, Receive(p) PROVE TypeOK'
  BY <1>8 DEF Receive
<1>9. CASE UNCHANGED vars
  BY <1>9 DEF vars
<1> QED BY <1>1, <1>2, <1>3, <1>4, <1>5, <1>6, <1>7, <1>8, <1>9 DEF Next, Lock, Unlock

\* A step that changes the mutex or a pc, without changing who is counted in, who has a
\* token and any entry, keeps all but MutexOwner.
LEMMA LocalStep ==
  ASSUME TypeOK, IndInv,
         UNCHANGED <<locks, count, ch, entry>>,
         \A q \in Procs : /\ Counted(q)' <=> Counted(q)
                          /\ HoldsToken(q)' <=> HoldsToken(q)
                          /\ Counted(q) => key'[q] = key[q],
         MutexOwner'
  PROVE  IndInv'
<1>1. \A e : Users(e)' = Users(e)
  BY DEF Users
<1>2. EntryKnown' /\ CountedMapped' /\ EntryUnshared' /\ TokenBuffered' /\ TokenUnique'
  BY DEF IndInv, EntryKnown, Refers, CountedMapped, EntryUnshared, TokenBuffered, TokenUnique
<1>3. CountExact'
  BY <1>1 DEF IndInv, CountExact
<1>4. UserOfKey'
  BY <1>1 DEF IndInv, UserOfKey, Users
<1> QED BY <1>2, <1>3, <1>4 DEF IndInv

LEMMA IncrementStep ==
  ASSUME TypeOK, IndInv, NEW p \in Procs, Increment(p)
  PROVE  IndInv'
<1> DEFINE k == key[p]
<1> USE DEF Transition
<1>0. PICK e \in Entries : locks'[k] = e
  BY DEF Increment, NewEntry, OldEntry, TypeOK
<1>1. /\ k \in Keys
      /\ pc[p] = "increment" /\ pc'[p] = "send"
      /\ \A q \in Procs \ {p} : pc'[q] = pc[q] /\ entry'[q] = entry[q]
      /\ key' = key /\ mutex' = NoProc
      /\ locks'[k] = e /\ entry'[p] = e
      /\ \A j \in Keys \ {k} : locks'[j] = locks[j]
  BY <1>0 DEF Increment, NewEntry, OldEntry, TypeOK
<1>2. MutexOwner'
  BY <1>1, NullValues DEF IndInv, MutexOwner
<1>3. /\ ~Counted(p) /\ ~HoldsToken(p) /\ Counted(p)' /\ ~HoldsToken(p)'
      /\ \A q \in Procs \ {p} : /\ Counted(q)' <=> Counted(q)
                                /\ HoldsToken(q)' <=> HoldsToken(q)
  BY <1>1 DEF Counted, HoldsToken
<1>4. EntryKnown' /\ TokenUnique'
  BY <1>1, <1>3 DEF IndInv, EntryKnown, Refers, TokenUnique
<1>5. /\ \A d \in Entries \ {e} : Users(d)' = Users(d)
      /\ Users(e)' = Users(e) \union {p}
  BY <1>1, <1>3 DEF Users
<1>6. CASE NewEntry(p)
  <2>1. /\ locks[k] = NoEntry
        /\ Unreferenced(e)
        /\ count' = [count EXCEPT ![e] = 1]
        /\ ch' = [ch EXCEPT ![e] = 0]
    BY <1>6, <1>1 DEF NewEntry, TypeOK
  <2>2. Users(e) = {}
    BY <2>1 DEF Users, Unreferenced, Refers
  <2>3. Users(e)' = {p} /\ Cardinality(Users(e)') = 1
    <3>1. Users(e)' = {p}
      BY <1>5, <2>2
    <3> QED BY <3>1, FS_Singleton
  <2>4. CountedMapped'
    BY <1>1, <1>3, <2>1, NullValues DEF TypeOK, IndInv, CountedMapped, EntryKnown, Refers
  <2>5. EntryUnshared'
    BY <1>1, <2>1 DEF IndInv, EntryUnshared, Unreferenced
  <2>6. CountExact'
    <3>1. SUFFICES ASSUME NEW j \in Keys, locks'[j] # NoEntry
          PROVE  /\ Users(locks[j])' # {}
                 /\ count'[locks'[j]] = Cardinality(Users(locks[j])')
      BY DEF CountExact
    <3>2. CASE j = k
      BY <1>1, <2>1, <2>3, <3>2 DEF TypeOK
    <3>3. CASE j # k
      <4>1. locks'[j] = locks[j] /\ locks[j] \in Entries \ {e}
        BY <1>1, <2>1, <3>1, <3>3 DEF TypeOK, Unreferenced
      <4>2. Users(locks[j])' = Users(locks[j])
        BY <4>1, <1>5
      <4> QED BY <4>1, <4>2, <2>1, <3>1 DEF IndInv, CountExact, TypeOK
    <3> QED BY <3>2, <3>3
  <2>7. UserOfKey'
    <3>1. SUFFICES ASSUME NEW j \in Keys, locks'[j] # NoEntry, NEW q \in Procs, q \in Users(locks[j])'
          PROVE  key'[q] = j
      BY DEF UserOfKey
    <3>2. CASE j = k
      BY <1>1, <2>3, <3>1, <3>2
    <3>3. CASE j # k
      <4>1. locks'[j] = locks[j] /\ locks[j] \in Entries \ {e}
        BY <1>1, <2>1, <3>1, <3>3 DEF TypeOK, Unreferenced
      <4> QED BY <4>1, <1>5, <1>1, <3>1 DEF IndInv, UserOfKey
    <3> QED BY <3>2, <3>3
  <2>8. TokenBuffered'
    BY <1>1, <1>3, <2>1 DEF IndInv, TokenBuffered, Unreferenced, Refers, TypeOK, EntryKnown
  <2> QED BY <1>2, <1>4, <2>4, <2>5, <2>6, <2>7, <2>8 DEF IndInv
<1>7. CASE OldEntry(p)
  <2>1. /\ locks' = locks /\ ch' = ch /\ e # NoEntry
        /\ count' = [count EXCEPT ![e] = @ + 1]
    BY <1>0, <1>7, NullValues DEF OldEntry
  <2>2. CountedMapped' /\ EntryUnshared' /\ TokenBuffered'
    BY <1>1, <1>3, <2>1 DEF IndInv, CountedMapped, EntryUnshared, TokenBuffered
  <2>3. CountExact'
    <3>1. SUFFICES ASSUME NEW j \in Keys, locks[j] # NoEntry
          PROVE  /\ Users(locks[j])' # {}
                 /\ count'[locks[j]] = Cardinality(Users(locks[j])')
      BY <2>1 DEF CountExact
    <3>2. CASE j = k
      <4>1. p \notin Users(e) /\ count[e] = Cardinality(Users(e))
        BY <1>3, <1>1, <2>1 DEF Users, IndInv, CountExact
      <4>2. Cardinality(Users(e)') = Cardinality(Users(e)) + 1
        <5>1. IsFiniteSet(Users(e))
          BY UsersFinite
        <5>2. Cardinality(Users(e) \union {p}) = Cardinality(Users(e)) + 1
          BY <5>1, <4>1, FS_AddElement
        <5> QED BY <5>2, <1>5
      <4> QED BY <4>1, <4>2, <1>1, <1>5, <2>1, <3>2 DEF TypeOK
    <3>3. CASE j # k
      <4>1. locks[j] \in Entries \ {e}
        BY <1>1, <2>1, <3>1, <3>3 DEF TypeOK, IndInv, EntryUnshared
      <4>2. Users(locks[j])' = Users(locks[j])
        BY <4>1, <1>5, <2>1
      <4> QED BY <4>1, <4>2, <2>1, <3>1 DEF IndInv, CountExact, TypeOK
    <3> QED BY <3>2, <3>3
  <2>4. UserOfKey'
    <3>1. SUFFICES ASSUME NEW j \in Keys, locks[j] # NoEntry, NEW q \in Procs, q \in Users(locks[j])'
          PROVE  key[q] = j
      BY <2>1, <1>1 DEF UserOfKey
    <3>2. CASE q = p
      BY <1>1, <2>1, <3>1, <3>2 DEF Users, IndInv, EntryUnshared
    <3>3. CASE q # p
      BY <1>1, <1>3, <2>1, <3>1, <3>3 DEF Users, IndInv, UserOfKey
    <3> QED BY <3>2, <3>3
  <2> QED BY <1>2, <1>4, <2>2, <2>3, <2>4 DEF IndInv
<1> QED BY <1>6, <1>7 DEF Increment

\* The token goes into an empty channel, so no other goroutine has one there.
LEMMA SendStep ==
  ASSUME TypeOK, IndInv, NEW p \in Procs, Send(p)
  PROVE  IndInv'
<1> USE DEF Transition, Send
<1>1. /\ pc[p] = "send" /\ pc'[p] = "critical"
      /\ \A q \in Procs \ {p} : pc'[q] = pc[q]
      /\ UNCHANGED <<mutex, locks, count, key, entry>>
      /\ ch[entry[p]] = 0
      /\ ch' = [ch EXCEPT ![entry[p]] = 1]
  BY DEF TypeOK
<1>2. \A q \in Procs : /\ Counted(q)' <=> Counted(q)
                       /\ q # p => (HoldsToken(q)' <=> HoldsToken(q))
  BY <1>1 DEF Counted, HoldsToken
<1>3. \A e : Users(e)' = Users(e)
  BY <1>1, <1>2 DEF Users
<1>4. MutexOwner' /\ EntryUnshared' /\ CountedMapped'
  BY <1>1, <1>2 DEF IndInv, MutexOwner, EntryUnshared, CountedMapped
<1>5. Counted(p) /\ entry[p] \in Entries
  BY <1>1 DEF Counted, IndInv, EntryKnown, Refers
<1>6. EntryKnown'
  BY <1>1, <1>2, <1>5 DEF IndInv, EntryKnown, Refers
<1>7. CountExact' /\ UserOfKey'
  BY <1>1, <1>3 DEF IndInv, CountExact, UserOfKey
<1>8. TokenBuffered'
  BY <1>1, <1>2, <1>5 DEF IndInv, TokenBuffered, TypeOK, EntryKnown, Refers
<1>9. TokenUnique'
  BY <1>1, <1>2 DEF IndInv, TokenBuffered, TokenUnique
<1> QED BY <1>4, <1>6, <1>7, <1>8, <1>9 DEF IndInv

\* Unlock finds the entry of its own Lock, and deletes it only when it was the
\* last goroutine counted in.
LEMMA DecrementStep ==
  ASSUME TypeOK, IndInv, NEW p \in Procs, Decrement(p)
  PROVE  IndInv'
<1> DEFINE k == key[p]
           e == entry[p]
<1> USE DEF Transition
<1>1. /\ e \in Entries /\ locks[k] = e /\ p \in Users(e)
      /\ count[e] = Cardinality(Users(e)) /\ count[e] \in Nat \ {0}
  BY CountPositive DEF Decrement, CountOut, Counted
<1>2. /\ k \in Keys
      /\ pc[p] = "decrement" /\ pc'[p] = "receive"
      /\ \A q \in Procs \ {p} : pc'[q] = pc[q]
      /\ UNCHANGED <<entry, key, ch>> /\ mutex' = NoProc
      /\ count' = [count EXCEPT ![e] = @ - 1]
      /\ locks' = IF count[e] = 1 THEN [locks EXCEPT ![k] = NoEntry] ELSE locks
  BY <1>1 DEF TypeOK, Decrement, CountOut
<1>3. /\ ~Counted(p)'
      /\ \A q \in Procs : /\ HoldsToken(q)' <=> HoldsToken(q)
                          /\ q # p => (Counted(q)' <=> Counted(q))
  BY <1>2 DEF Counted, HoldsToken
<1>4. MutexOwner'
  BY <1>2, NullValues DEF IndInv, MutexOwner
<1>5. EntryKnown' /\ TokenBuffered' /\ TokenUnique'
  BY <1>1, <1>2, <1>3 DEF IndInv, EntryKnown, Refers, TokenBuffered, TokenUnique
<1>6. /\ Users(e)' = Users(e) \ {p}
      /\ \A d \in Entries \ {e} : Users(d)' = Users(d)
  BY <1>2, <1>3 DEF Users
<1>7. Cardinality(Users(e) \ {p}) = count[e] - 1
  BY <1>1, UsersFinite, FS_RemoveElement
<1>8. EntryUnshared'
  BY <1>2 DEF IndInv, EntryUnshared, TypeOK
<1>9. ASSUME NEW j \in Keys \ {k}, locks[j] # NoEntry
      PROVE  /\ locks'[j] = locks[j]
             /\ locks[j] \in Entries \ {e}
             /\ Users(locks[j])' = Users(locks[j])
  <2>1. locks'[j] = locks[j]
    BY <1>2 DEF TypeOK
  <2>2. locks[j] \in Entries \ {e}
    BY <1>1, <1>2, <1>9 DEF TypeOK, IndInv, EntryUnshared
  <2> QED BY <2>1, <2>2, <1>6
<1>10. CASE count[e] = 1
  <2>1. Users(e) = {p}
    <3>1. IsFiniteSet(Users(e) \ {p}) /\ Cardinality(Users(e) \ {p}) = 0
      BY <1>1, <1>7, <1>10, UsersFinite, FS_RemoveElement
    <3> QED BY <1>1, <3>1, FS_EmptySet
  <2>2. locks'[k] = NoEntry
    BY <1>2, <1>10 DEF TypeOK
  <2>3. CountedMapped'
    <3>1. SUFFICES ASSUME NEW q \in Procs, Counted(q)'
          PROVE  locks'[key[q]] = entry[q]
      BY <1>2 DEF CountedMapped
    <3>2. q # p /\ Counted(q) /\ locks[key[q]] = entry[q] /\ entry[q] \in Entries /\ key[q] \in Keys
      BY <3>1, <1>3 DEF IndInv, CountedMapped, EntryKnown, Refers, TypeOK
    <3>3. key[q] # k
      BY <3>2, <2>1, <1>1 DEF Users
    <3> QED BY <3>2, <3>3, <1>2 DEF TypeOK
  <2>4. CountExact'
    BY <2>2, <1>2, <1>9 DEF CountExact, IndInv, TypeOK
  <2>5. UserOfKey'
    BY <2>2, <1>2, <1>9 DEF UserOfKey, IndInv
  <2> QED BY <1>4, <1>5, <1>8, <2>3, <2>4, <2>5 DEF IndInv
<1>11. CASE count[e] # 1
  <2>1. locks' = locks
    BY <1>2, <1>11
  <2>2. CountedMapped'
    BY <2>1, <1>2, <1>3 DEF IndInv, CountedMapped
  <2>3. CountExact'
    <3>1. SUFFICES ASSUME NEW j \in Keys, locks[j] # NoEntry
          PROVE  /\ Users(locks[j])' # {}
                 /\ count'[locks[j]] = Cardinality(Users(locks[j])')
      BY <2>1 DEF CountExact
    <3>2. CASE j = k
      <4>1. Users(locks[j])' = Users(e) \ {p}
        BY <3>2, <2>1, <1>1, <1>2, <1>6
      <4>2. Users(e) \ {p} # {}
        BY <1>1, <1>7, <1>11, FS_EmptySet
      <4>3. count'[e] = count[e] - 1
        BY <1>1, <1>2 DEF TypeOK
      <4> QED BY <4>1, <4>2, <4>3, <1>1, <1>7, <3>2
    <3>3. CASE j # k
      BY <3>1, <3>3, <1>9, <1>2 DEF IndInv, CountExact, TypeOK
    <3> QED BY <3>2, <3>3
  <2>4. UserOfKey'
    BY <2>1, <1>2, <1>3 DEF UserOfKey, IndInv, Users
  <2> QED BY <1>4, <1>5, <1>8, <2>2, <2>3, <2>4 DEF IndInv
<1> QED BY <1>10, <1>11

LEMMA ReceiveStep ==
  ASSUME TypeOK, IndInv, NEW p \in Procs, Receive(p)
  PROVE  IndInv'
<1> USE DEF Transition, Receive
<1>1. /\ pc[p] = "receive" /\ pc'[p] = "idle"
      /\ \A q \in Procs \ {p} : pc'[q] = pc[q]
      /\ UNCHANGED <<mutex, locks, count, key, entry>>
      /\ ch' = [ch EXCEPT ![entry[p]] = 0]
  BY DEF TypeOK
<1>2. /\ \A q \in Procs : /\ Counted(q)' <=> Counted(q)
                          /\ q # p => (HoldsToken(q)' <=> HoldsToken(q))
      /\ HoldsToken(p) /\ ~HoldsToken(p)'
  BY <1>1 DEF Counted, HoldsToken
<1>3. \A e : Users(e)' = Users(e)
  BY <1>1, <1>2 DEF Users
<1>4. MutexOwner' /\ EntryUnshared' /\ CountedMapped'
  BY <1>1, <1>2 DEF IndInv, MutexOwner, EntryUnshared, CountedMapped
<1>5. EntryKnown'
  BY <1>1, <1>2 DEF IndInv, EntryKnown, Refers
<1>6. CountExact' /\ UserOfKey'
  BY <1>1, <1>3 DEF IndInv, CountExact, UserOfKey
<1>7. TokenUnique'
  BY <1>1, <1>2 DEF IndInv, TokenUnique
<1>8. TokenBuffered'
  BY <1>1, <1>2 DEF IndInv, TokenBuffered, TokenUnique, TypeOK
<1> QED BY <1>4, <1>5, <1>6, <1>7, <1>8 DEF IndInv

LEMMA IndStep == TypeOK /\ IndInv /\ [Next]_vars => IndInv'
<1> SUFFICES ASSUME TypeOK, IndInv, [Next]_vars PROVE IndInv'
  OBVIOUS
<1>1. ASSUME NEW p \in Procs, NEW k \in Keys, LockCall(p, k) PROVE IndInv'
  BY <1>1, LocalStep DEF LockCall, Transition, TypeOK, IndInv, MutexOwner, Counted, HoldsToken
<1>2. ASSUME NEW p \in Procs, LockMutex(p) PROVE IndInv'
  BY <1>2, LocalStep, NullValues
     DEF LockMutex, AcquireMutex, Transition, TypeOK, IndInv, MutexOwner, Counted, HoldsToken
<1>3. ASSUME NEW p \in Procs, UnlockCall(p) PROVE IndInv'
  BY <1>3, LocalStep DEF UnlockCall, Transition, TypeOK, IndInv, MutexOwner, Counted, HoldsToken
<1>4. ASSUME NEW p \in Procs, UnlockMutex(p) PROVE IndInv'
  BY <1>4, LocalStep, NullValues
     DEF UnlockMutex, AcquireMutex, Transition, TypeOK, IndInv, MutexOwner, Counted, HoldsToken
<1>5. CASE UNCHANGED vars
  BY <1>5, LocalStep DEF vars, IndInv, MutexOwner, Counted, HoldsToken
<1> QED
  BY <1>1, <1>2, <1>3, <1>4, <1>5, IncrementStep, SendStep, DecrementStep, ReceiveStep
     DEF Next, Lock, Unlock

\* The inductive invariant holds in every reachable state of volume/locker.go.
THEOREM Invariance == Spec => [](TypeOK /\ IndInv)
<1>1. Init => TypeOK /\ IndInv
  BY NullValues DEF Init, TypeOK, Locations, IndInv, MutexOwner, EntryKnown, Refers, Counted,
     HoldsToken, CountedMapped, EntryUnshared, CountExact, UserOfKey, TokenBuffered, TokenUnique
<1>2. TypeOK /\ IndInv /\ [Next]_vars => (TypeOK /\ IndInv)'
  BY TypeStep, IndStep
<1> QED BY <1>1, <1>2, PTL DEF Spec

\* The state of the lock manager and the goroutines' locals keep their types;
\* in particular lockEntry.count never becomes negative.
THEOREM TypeCorrect == Spec => []TypeOK
BY Invariance, PTL

\* No two goroutines are between Lock(k) and Unlock(k) of the same key.
THEOREM MutualExclusionHolds == Spec => []MutualExclusion
<1>1. TypeOK /\ IndInv => MutualExclusion
  <2> SUFFICES ASSUME TypeOK, IndInv, NEW p \in Procs, NEW q \in Procs,
                      pc[p] = "critical", pc[q] = "critical", key[p] = key[q]
               PROVE  p = q
    BY DEF MutualExclusion
  <2> QED BY DEF IndInv, CountedMapped, TokenUnique, Counted, HoldsToken
<1> QED BY <1>1, Invariance, PTL

\* Unlock by a holder never panics and looks up the entry it locked.
THEOREM NoPanicHolds == Spec => []NoPanic
<1>1. TypeOK /\ IndInv => NoPanic
  BY CountPositive, NullValues DEF NoPanic, Counted
<1> QED BY <1>1, Invariance, PTL

\* The map holds an entry for a key exactly while a goroutine is counted in.
THEOREM NoLeakHolds == Spec => []NoLeak
<1>1. TypeOK /\ IndInv => NoLeak
  <2> SUFFICES ASSUME TypeOK, IndInv, NEW k \in Keys
               PROVE  locks[k] # NoEntry <=> \E p \in Procs : Counted(p) /\ key[p] = k
    BY DEF NoLeak
  <2>1. ASSUME locks[k] # NoEntry PROVE \E p \in Procs : Counted(p) /\ key[p] = k
    BY <2>1 DEF IndInv, CountExact, UserOfKey, Users
  <2>2. ASSUME NEW p \in Procs, Counted(p), key[p] = k PROVE locks[k] # NoEntry
    BY <2>2, CountPositive, NullValues
  <2> QED BY <2>1, <2>2
<1> QED BY <1>1, Invariance, PTL

\* Lock and Unlock of volume/locker.go implement the per-key mutex.
THEOREM Refinement == Spec => ImplementsKeyedMutex
<1>1. Init => KM!Init
  BY DEF Init, KM!Init, AbstractMode
<1>2. TypeOK /\ IndInv /\ [Next]_vars => [KM!Next]_KM!vars
  <2> SUFFICES ASSUME TypeOK, IndInv, [Next]_vars PROVE [KM!Next]_KM!vars
    OBVIOUS
  <2> USE DEF Transition, TypeOK, AbstractMode, KM!vars
  <2>1. ASSUME NEW p \in Procs, NEW k \in Keys, LockCall(p, k) PROVE KM!Request(p, k)
    BY <2>1 DEF LockCall, KM!Request
  <2>2. ASSUME NEW p \in Procs, LockMutex(p) PROVE UNCHANGED KM!vars
    BY <2>2 DEF LockMutex, AcquireMutex
  <2>3. ASSUME NEW p \in Procs, Increment(p) PROVE UNCHANGED KM!vars
    BY <2>3 DEF Increment
  <2>4. ASSUME NEW p \in Procs, Send(p) PROVE KM!Grant(p)
    <3>1. ASSUME NEW q \in Procs, pc[q] = "critical", key[q] = key[p] PROVE FALSE
      BY <2>4, <3>1 DEF Send, IndInv, CountedMapped, TokenBuffered, Counted, HoldsToken
    <3>2. KM!Free(key[p])
      BY <3>1 DEF KM!Free
    <3> QED BY <2>4, <3>2 DEF Send, KM!Grant
  <2>5. ASSUME NEW p \in Procs, UnlockCall(p) PROVE KM!Release(p)
    BY <2>5 DEF UnlockCall, KM!Release
  <2>6. ASSUME NEW p \in Procs, UnlockMutex(p) PROVE UNCHANGED KM!vars
    BY <2>6 DEF UnlockMutex, AcquireMutex
  <2>7. ASSUME NEW p \in Procs, Decrement(p) PROVE UNCHANGED KM!vars
    BY <2>7 DEF Decrement, CountOut
  <2>8. ASSUME NEW p \in Procs, Receive(p) PROVE UNCHANGED KM!vars
    BY <2>8 DEF Receive
  <2>9. CASE UNCHANGED vars
    BY <2>9 DEF vars
  <2> QED
    BY <2>1, <2>2, <2>3, <2>4, <2>5, <2>6, <2>7, <2>8, <2>9 DEF Next, Lock, Unlock, KM!Next
<1> QED BY <1>1, <1>2, Invariance, PTL DEF Spec, ImplementsKeyedMutex, KM!Spec
=============================================================================
