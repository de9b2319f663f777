----------------------------- MODULE LockManager ----------------------------
(***************************************************************************)
(* The keyed lock of volume/locker.go.  A map from keys to heap-allocated  *)
(* entries is guarded by one sync.Mutex; an entry holds a channel of       *)
(* capacity 1, whose buffered token is the lock itself, and a count of the *)
(* goroutines between Lock's count++ and Unlock's count--.  The token is   *)
(* sent and received outside the mutex, and the entry is deleted from the  *)
(* map before the token of its last user is received: a new user of the    *)
(* key may then be working with a new entry while the old one drains.      *)
(***************************************************************************)
EXTENDS Naturals, FiniteSets

CONSTANTS Procs,    \* goroutines
          Keys,     \* lock keys
          Entries,  \* heap addresses of lockEntry values
          NoProc, NoEntry

ASSUME ProcsFinite == IsFiniteSet(Procs)
ASSUME NullValues == NoProc \notin Procs /\ NoEntry \notin Entries

VARIABLES mutex,   \* holder of m.mutex, or NoProc
          locks,   \* m.locks: key -> entry address, NoEntry where absent
          count,   \* lockEntry.count
          ch,      \* number of tokens buffered in lockEntry.ch (capacity 1)
          pc, key, \* per goroutine: where it is, and the key it was called with
          entry    \* per goroutine: the local variable entry

vars == <<mutex, locks, count, ch, pc, key, entry>>

Transition(p, from, to) == /\ pc[p] = from
                           /\ pc' = [pc EXCEPT ![p] = to]

\* The goroutines that were counted in and not yet counted out.
Counted(p) == pc[p] \in {"send", "critical", "unlock", "decrement"}

\* The goroutines whose token is in the channel of their entry.
HoldsToken(p) == pc[p] \in {"critical", "unlock", "decrement", "receive"}

\* The goroutines whose local variable keeps an entry alive.
Refers(p) == Counted(p) \/ HoldsToken(p)

Users(e) == {p \in Procs : Counted(p) /\ entry[p] = e}

\* make(chan struct{}, 1) and &lockEntry{} return an address nobody refers to.
Unreferenced(e) == /\ \A k \in Keys : locks[k] # e
                   /\ \A p \in Procs : Refers(p) => entry[p] # e

Init == /\ mutex = NoProc
        /\ locks = [k \in Keys |-> NoEntry]
        /\ count = [e \in Entries |-> 0]
        /\ ch = [e \in Entries |-> 0]
        /\ pc = [p \in Procs |-> "idle"]
        /\ key \in [Procs -> Keys]
        /\ entry = [p \in Procs |-> NoEntry]

(***************************************************************************)
(* Lock(key)                                                               *)
(***************************************************************************)
LockCall(p, k) == /\ Transition(p, "idle", "lock")
                  /\ key' = [key EXCEPT ![p] = k]
                  /\ UNCHANGED <<mutex, locks, count, ch, entry>>

AcquireMutex(p, from, to) == /\ mutex = NoProc
                             /\ mutex' = p
                             /\ Transition(p, from, to)
                             /\ UNCHANGED <<locks, count, ch, key, entry>>

LockMutex(p) == AcquireMutex(p, "lock", "increment")

\* The key has no entry: allocate one, with an empty channel, and count p in.
NewEntry(p) == \E e \in Entries :
                  /\ locks[key[p]] = NoEntry
                  /\ Unreferenced(e)
                  /\ locks' = [locks EXCEPT ![key[p]] = e]
                  /\ count' = [count EXCEPT ![e] = 1]
                  /\ ch' = [ch EXCEPT ![e] = 0]
                  /\ entry' = [entry EXCEPT ![p] = e]

\* The key has an entry: count p in.
OldEntry(p) == LET e == locks[key[p]] IN
                  /\ e # NoEntry
                  /\ count' = [count EXCEPT ![e] = @ + 1]
                  /\ entry' = [entry EXCEPT ![p] = e]
                  /\ UNCHANGED <<locks, ch>>

Increment(p) == /\ Transition(p, "increment", "send")
                /\ NewEntry(p) \/ OldEntry(p)
                /\ mutex' = NoProc
                /\ UNCHANGED key

\* Mutant of Send: a channel of capacity 2.
SendCapacityTwo(p) == /\ Transition(p, "send", "critical")
                      /\ ch[entry[p]] < 2
                      /\ ch' = [ch EXCEPT ![entry[p]] = @ + 1]
                      /\ UNCHANGED <<mutex, locks, count, key, entry>>

\* entry.ch <- struct{}{} blocks while the buffer is full.
Send(p) == /\ Transition(p, "send", "critical")
           /\ ch[entry[p]] = 0
           /\ ch' = [ch EXCEPT ![entry[p]] = 1]
           /\ UNCHANGED <<mutex, locks, count, key, entry>>

(***************************************************************************)
(* Unlock(key), called by the goroutine that holds the lock                *)
(***************************************************************************)
UnlockCall(p) == /\ Transition(p, "critical", "unlock")
                 /\ UNCHANGED <<mutex, locks, count, ch, key, entry>>

UnlockMutex(p) == AcquireMutex(p, "unlock", "decrement")

\* The body of Unlock, which deletes the entry if its count was last.
CountOut(p, last) == LET e == locks[key[p]] IN
                   /\ Transition(p, "decrement", "receive")
                   /\ e # NoEntry
                   /\ count' = [count EXCEPT ![e] = @ - 1]
                   /\ locks' = IF count[e] = last
                                 THEN [locks EXCEPT ![key[p]] = NoEntry]
                                 ELSE locks
                   /\ entry' = [entry EXCEPT ![p] = e]
                   /\ mutex' = NoProc
                   /\ UNCHANGED <<ch, key>>

\* Mutant of Decrement: deletes the entry of the last but one user.
DecrementDeletesEarly(p) == CountOut(p, 2)

\* Mutant of Decrement: never deletes an entry.
DecrementKeepsEntry(p) == CountOut(p, 0)

\* Looks the entry up again, counts p out and deletes an unused entry.  The
\* panic on an absent entry is the invariant NoPanic.
Decrement(p) == CountOut(p, 1)

\* Mutant of Receive: Unlock returns without taking its token back.
ReceiveNothing(p) == /\ Transition(p, "receive", "idle")
                     /\ UNCHANGED <<mutex, locks, count, ch, key, entry>>

\* <-entry.ch, after m.mutex was released.
Receive(p) == /\ Transition(p, "receive", "idle")
              /\ ch[entry[p]] = 1
              /\ ch' = [ch EXCEPT ![entry[p]] = 0]
              /\ UNCHANGED <<mutex, locks, count, key, entry>>

Lock(p) == \/ \E k \in Keys : LockCall(p, k)
           \/ LockMutex(p)
           \/ Increment(p)
           \/ Send(p)

Unlock(p) == UnlockCall(p) \/ UnlockMutex(p) \/ Decrement(p) \/ Receive(p)

Next == \E p \in Procs : Lock(p) \/ Unlock(p)

Spec == Init /\ [][Next]_vars

(***************************************************************************)
(* A goroutine that can run is run (weak fairness).  sync.Mutex hands the  *)
(* mutex to a waiter after 1ms of starvation and blocked channel senders   *)
(* are queued in FIFO order: both waits are strongly fair.  Every caller   *)
(* defers Unlock right after Lock, so a critical section ends.             *)
(***************************************************************************)
Fairness == \A p \in Procs : /\ WF_vars(Increment(p) \/ UnlockCall(p) \/ Decrement(p) \/ Receive(p))
                             /\ SF_vars(LockMutex(p) \/ UnlockMutex(p))
                             /\ SF_vars(Send(p))

FairSpec == Spec /\ Fairness
-----------------------------------------------------------------------------
Locations == {"idle", "lock", "increment", "send", "critical", "unlock", "decrement", "receive"}

\* Types of the lock manager's state and of each goroutine's locals.
TypeOK == /\ mutex \in Procs \union {NoProc}
          /\ locks \in [Keys -> Entries \union {NoEntry}]
          /\ count \in [Entries -> Nat]
          /\ ch \in [Entries -> {0, 1}]
          /\ pc \in [Procs -> Locations]
          /\ key \in [Procs -> Keys]
          /\ entry \in [Procs -> Entries \union {NoEntry}]

\* Two goroutines are never both between Lock(k) and Unlock(k), although a
\* deleted entry may still be draining when its successor is already in use.
MutualExclusion == \A p, q \in Procs :
    /\ pc[p] = "critical"
    /\ pc[q] = "critical"
    /\ key[p] = key[q]
    => p = q

\* Unlock by a goroutine that holds the lock never reaches the panic of
\* volume/locker.go:51, and the entry it finds is the one whose token it sent:
\* otherwise it would take the token of another goroutine, or block forever.
NoPanic == \A p \in Procs :
    pc[p] = "decrement" => /\ locks[key[p]] # NoEntry
                           /\ locks[key[p]] = entry[p]

\* No entry outlives its users: an entry is in the map exactly while some
\* goroutine is between count++ and count--, so idle keys use no memory.
NoLeak == \A k \in Keys :
    locks[k] # NoEntry <=> \E p \in Procs : Counted(p) /\ key[p] = k

\* Every goroutine that calls Lock gets the lock, whatever the others do.
LockGranted == \A p \in Procs : pc[p] = "lock" ~> pc[p] = "critical"

(***************************************************************************)
(* The inductive invariant.  MutualExclusion follows from three facts: two *)
(* counted users of a key share its entry, an entry has at most one token, *)
(* and whoever is in the critical section has put a token there.           *)
(***************************************************************************)
MutexOwner == \A p \in Procs : mutex = p <=> pc[p] \in {"increment", "decrement"}

EntryKnown == \A p \in Procs : Refers(p) => entry[p] \in Entries

CountedMapped == \A p \in Procs : Counted(p) => locks[key[p]] = entry[p]

EntryUnshared == \A k1, k2 \in Keys :
    locks[k1] # NoEntry /\ locks[k1] = locks[k2] => k1 = k2

CountExact == \A k \in Keys : locks[k] # NoEntry =>
    /\ Users(locks[k]) # {}
    /\ count[locks[k]] = Cardinality(Users(locks[k]))

UserOfKey == \A k \in Keys, p \in Procs :
    locks[k] # NoEntry /\ p \in Users(locks[k]) => key[p] = k

TokenBuffered == \A p \in Procs : HoldsToken(p) => ch[entry[p]] = 1

TokenUnique == \A p, q \in Procs :
    HoldsToken(p) /\ HoldsToken(q) /\ entry[p] = entry[q] => p = q

\* The state of locker.go is consistent at every step of Lock and Unlock: the
\* counts are exact, entries are not shared by keys, and each buffered token
\* belongs to one goroutine, also in entries that were already deleted.
IndInv == /\ MutexOwner
          /\ EntryKnown
          /\ CountedMapped
          /\ EntryUnshared
          /\ CountExact
          /\ UserOfKey
          /\ TokenBuffered
          /\ TokenUnique

(***************************************************************************)
(* Lock manager => keyed mutex.  A goroutine holds the abstract lock from  *)
(* the successful send up to its call of Unlock.                           *)
(***************************************************************************)
AbstractMode == [p \in Procs |->
    CASE pc[p] \in {"lock", "increment", "send"} -> "waiting"
      [] pc[p] = "critical" -> "holding"
      [] OTHER -> "idle"]

KM == INSTANCE KeyedMutex WITH mode <- AbstractMode, wants <- key

\* The lock manager implements the per-key mutex its interface promises.
ImplementsKeyedMutex == KM!Spec
=============================================================================
