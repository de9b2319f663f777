------------------------------- MODULE Promise ------------------------------
(***************************************************************************)
(* volume/promise.go: the outcome of an asynchronous creation, shared by   *)
(* the goroutine that creates the volume and the handlers that check or    *)
(* cancel the creation.  The two fields are guarded by a sync.RWMutex; one *)
(* action is one lock operation or the statements between two of them.     *)
(***************************************************************************)
EXTENDS Naturals

CONSTANTS Callers,    \* goroutines that share the promise
          Volumes,    \* volumes it may be fulfilled with
          Methods,    \* the methods called, a subset of AllMethods
          NoCaller, Nil

AllMethods == {"IsPending", "GetValue", "Fulfill", "Reject"}
Errors == {"ErrPromiseCanceled", "creation failed"}
Statuses == {"ok", "true", "false", "ErrPromiseStillPending", "ErrPromiseNotPending"}

ASSUME MethodsKnown == Methods \subseteq AllMethods
ASSUME NullCaller == NoCaller \notin Callers
ASSUME NullOutcome == /\ Nil \notin Volumes \union Errors \union Statuses
                      /\ Volumes \intersect (Errors \union Statuses) = {}

VARIABLES volume, err,   \* the fields of the promise
          readers,       \* per caller: how many read locks it holds
          writer,        \* the caller that holds or waits for the write lock
          pc, call,      \* per caller: next step, method and argument of its last call
          result         \* per caller: what that call returned, Nil while it runs

vars == <<volume, err, readers, writer, pc, call, result>>
fields == <<volume, err>>
mutex == <<readers, writer>>

NoCall == [method |-> "", arg |-> Nil]

Init == /\ volume = Nil
        /\ err = Nil
        /\ readers = [c \in Callers |-> 0]
        /\ writer = NoCaller
        /\ pc = [c \in Callers |-> "idle"]
        /\ call = [c \in Callers |-> NoCall]
        /\ result = [c \in Callers |-> Nil]

isPending == volume = Nil /\ err = Nil

Arguments(m) == CASE m = "Fulfill" -> Volumes
                  [] m = "Reject" -> Errors
                  [] OTHER -> {Nil}

Go(c, to) == pc' = [pc EXCEPT ![c] = to]

Return(c, r) == /\ Go(c, "idle")
                /\ result' = [result EXCEPT ![c] = r]
                /\ UNCHANGED call

Call(c) == /\ pc[c] = "idle"
           /\ \E m \in Methods : \E a \in Arguments(m) :
                 /\ call' = [call EXCEPT ![c] = [method |-> m, arg |-> a]]
                 /\ Go(c, IF m \in {"IsPending", "GetValue"} THEN "rlock" ELSE "lock")
           /\ result' = [result EXCEPT ![c] = Nil]
           /\ UNCHANGED <<volume, err, readers, writer>>

(***************************************************************************)
(* sync.RWMutex: a caller of Lock keeps new readers out from the moment it *)
(* calls, and waits for those that are in.                                 *)
(***************************************************************************)
AcquireRead(c) == /\ writer = NoCaller
                  /\ readers' = [readers EXCEPT ![c] = @ + 1]
                  /\ UNCHANGED writer

ReleaseRead(c) == /\ readers' = [readers EXCEPT ![c] = @ - 1]
                  /\ UNCHANGED writer

Lock(c) == /\ pc[c] = "lock"
           /\ writer = NoCaller
           /\ writer' = c
           /\ Go(c, "drain")
           /\ UNCHANGED <<volume, err, readers, call, result>>

\* Mutant of Drain: does not wait for the readers.
DrainNow(c) == /\ pc[c] = "drain"
               /\ Go(c, call[c].method)
               /\ UNCHANGED <<volume, err, readers, writer, call, result>>

Drain(c) == /\ pc[c] = "drain"
            /\ \A d \in Callers : readers[d] = 0
            /\ Go(c, call[c].method)
            /\ UNCHANGED <<volume, err, readers, writer, call, result>>

Unlock == writer' = NoCaller /\ UNCHANGED readers

(***************************************************************************)
(* IsPending and GetValue.                                                 *)
(***************************************************************************)
RLock(c) == /\ pc[c] = "rlock"
            /\ AcquireRead(c)
            /\ Go(c, IF call[c].method = "IsPending" THEN "IsPending" ELSE "nested")
            /\ UNCHANGED <<volume, err, call, result>>

IsPending(c) == /\ pc[c] = "IsPending"
                /\ Return(c, IF isPending THEN "true" ELSE "false")
                /\ ReleaseRead(c)
                /\ UNCHANGED fields

\* GetValue calls IsPending, which takes a second read lock.
NestedRLock(c) == /\ pc[c] = "nested"
                  /\ AcquireRead(c)
                  /\ Go(c, "test")
                  /\ UNCHANGED <<volume, err, call, result>>

NestedIsPending(c) == /\ pc[c] = "test"
                      /\ ReleaseRead(c)
                      /\ Go(c, IF isPending THEN "fail" ELSE "value")
                      /\ UNCHANGED <<volume, err, call, result>>

GetValue(c) == /\ \/ pc[c] = "fail" /\ Return(c, "ErrPromiseStillPending")
                  \/ pc[c] = "value" /\ Return(c, IF volume = Nil THEN err ELSE volume)
               /\ ReleaseRead(c)
               /\ UNCHANGED fields

(***************************************************************************)
(* Fulfill and Reject.                                                     *)
(***************************************************************************)
\* Mutant of Fulfill: does not say that the promise was canceled.
FulfillNotPending(c) ==
    /\ pc[c] = "Fulfill"
    /\ \/ isPending /\ volume' = call[c].arg /\ Return(c, "ok")
       \/ ~isPending /\ Return(c, "ErrPromiseNotPending") /\ UNCHANGED volume
    /\ Unlock
    /\ UNCHANGED err

Fulfill(c) ==
    /\ pc[c] = "Fulfill"
    /\ \/ /\ isPending
          /\ volume' = call[c].arg
          /\ Return(c, "ok")
       \/ /\ ~isPending
          /\ Return(c, IF err = "ErrPromiseCanceled" THEN err ELSE "ErrPromiseNotPending")
          /\ UNCHANGED volume
    /\ Unlock
    /\ UNCHANGED err

\* Mutant of Reject: relies on the caller's IsPending.
RejectUnchecked(c) == /\ pc[c] = "Reject"
                      /\ err' = call[c].arg
                      /\ Return(c, "ok")
                      /\ Unlock
                      /\ UNCHANGED volume

\* Mutant of Reject: the early return does not unlock.
RejectHeld(c) == /\ pc[c] = "Reject"
                 /\ \/ isPending /\ err' = call[c].arg /\ Return(c, "ok") /\ Unlock
                    \/ ~isPending /\ Return(c, "ErrPromiseNotPending") /\ UNCHANGED <<err, mutex>>
                 /\ UNCHANGED volume

Reject(c) == /\ pc[c] = "Reject"
             /\ \/ isPending /\ err' = call[c].arg /\ Return(c, "ok")
                \/ ~isPending /\ Return(c, "ErrPromiseNotPending") /\ UNCHANGED err
             /\ Unlock
             /\ UNCHANGED volume

Inside(c) == Drain(c) \/ IsPending(c) \/ NestedIsPending(c) \/ GetValue(c) \/ Fulfill(c) \/ Reject(c)
Acquire(c) == RLock(c) \/ NestedRLock(c) \/ Lock(c)

Next == \E c \in Callers : Call(c) \/ Acquire(c) \/ Inside(c)

Spec == Init /\ [][Next]_vars

\* A goroutine that can run is run; sync.RWMutex starves nobody who waits for a
\* lock that is free again and again.
FairSpec == Spec /\ \A c \in Callers : WF_vars(Inside(c)) /\ SF_vars(Acquire(c))
-----------------------------------------------------------------------------
Results == {Nil} \union Statuses \union Errors \union Volumes

\* Types of the promise, its mutex and the calls; a caller nests two read locks.
TypeOK == /\ volume \in Volumes \union {Nil}
          /\ err \in Errors \union {Nil}
          /\ readers \in [Callers -> 0..2]
          /\ writer \in Callers \union {NoCaller}
          /\ pc \in [Callers -> {"idle", "rlock", "IsPending", "nested", "test", "fail", "value",
                                 "lock", "drain", "Fulfill", "Reject"}]
          /\ call \in [Callers -> [method : Methods \union {""}, arg : Volumes \union Errors \union {Nil}]]
          /\ result \in [Callers -> Results]

Reading(c) == pc[c] \in {"IsPending", "nested", "test", "fail", "value"}
Writing(c) == pc[c] \in {"Fulfill", "Reject"}

\* A goroutine that writes the fields is alone with them, so what GetValue reads
\* after its IsPending is what IsPending has seen.
NoDataRace == \A c, d \in Callers : Writing(c) /\ c # d => ~Reading(d) /\ ~Writing(d)

Returned(c, m) == call[c].method = m /\ result[c] # Nil

\* What a call has returned stays true: at most one call settles the promise, a
\* value that was read is its outcome, and Fulfill reports a cancellation exactly
\* if the promise was canceled.  That decides whether creationSucceeded destroys
\* the volume: it must do so for every canceled promise and for no other.
AnswersHold == \A c \in Callers :
    /\ result[c] = "ok" => \A d \in Callers : result[d] = "ok" => d = c
    /\ result[c] \in Volumes => volume = result[c] /\ err = Nil
    /\ result[c] \in Errors => err = result[c] /\ volume = Nil
    /\ result[c] \in {"ok", "ErrPromiseNotPending", "false"} => ~isPending
    /\ Returned(c, "Fulfill") => (result[c] = "ErrPromiseCanceled" <=> err = "ErrPromiseCanceled")

(***************************************************************************)
(* The inductive invariant: which locks a caller holds where, and what it  *)
(* knows there.                                                            *)
(***************************************************************************)
Depth(step) == CASE step \in {"IsPending", "nested", "fail", "value"} -> 1
                 [] step = "test" -> 2
                 [] OTHER -> 0

ReadLocks == \A c \in Callers : readers[c] = Depth(pc[c])

WriteLock == \A c \in Callers :
    /\ pc[c] \in {"drain", "Fulfill", "Reject"} <=> writer = c
    /\ Writing(c) => \A d \in Callers : readers[d] = 0

CallServed == \A c \in Callers :
    /\ pc[c] \in {"lock", "drain"} => call[c].method \in {"Fulfill", "Reject"}
    /\ pc[c] \in {"Fulfill", "Reject"} => call[c].method = pc[c]
    /\ call[c].method = "Fulfill" => call[c].arg \in Volumes
    /\ call[c].method = "Reject" => call[c].arg \in Errors
    /\ pc[c] = "rlock" \/ Reading(c) => call[c].method # "Fulfill"
    /\ pc[c] # "idle" => result[c] = Nil
    /\ Returned(c, "Fulfill") => result[c] \in {"ok", "ErrPromiseNotPending", "ErrPromiseCanceled"}

OneOutcome == /\ volume = Nil \/ err = Nil
              /\ \A c \in Callers : pc[c] = "value" => ~isPending

\* Everything the proofs need to know of a reachable state.
IndInv == TypeOK /\ ReadLocks /\ WriteLock /\ CallServed /\ OneOutcome /\ AnswersHold

\* Every call returns, but for one case: a writer has called Lock between the two
\* read locks of GetValue, and the two wait for each other.
Stuck == \E c, d \in Callers : pc[c] = "nested" /\ pc[d] = "drain"
CallsReturn == \A c \in Callers : pc[c] # "idle" ~> pc[c] = "idle" \/ Stuck

(***************************************************************************)
(* The promise is a future that is settled at most once.                   *)
(***************************************************************************)
Outcome == IF volume # Nil THEN volume ELSE err

FU == INSTANCE Future WITH outcome <- Outcome, Outcomes <- Volumes \union Errors, Pending <- Nil

\* Racing calls of Fulfill and Reject settle the promise once and for all.
ImplementsFuture == FU!Spec
=============================================================================
