--------------------------- MODULE PromiseProofs ----------------------------
(***************************************************************************)
(* Proofs about the promise: for any goroutines and volumes its fields are *)
(* never raced for and it is settled once.                                 *)
(***************************************************************************)
EXTENDS Promise, TLAPS

\* The arguments of a method are outcomes.
LEMMA ArgumentType ==
  ASSUME NEW m \in Methods, NEW a \in Arguments(m)
  PROVE  /\ a \in Volumes \union Errors \union {Nil}
         /\ m = "Fulfill" => a \in Volumes
         /\ m = "Reject" => a \in Errors
<1>1. CASE m = "Fulfill"
  BY <1>1 DEF Arguments
<1>2. CASE m = "Reject"
  BY <1>2 DEF Arguments
<1>3. CASE m \notin {"Fulfill", "Reject"}
  BY <1>3 DEF Arguments
<1> QED BY <1>1, <1>2, <1>3

\* What a call returns is a result.
LEMMA ReturnType ==
  ASSUME TypeOK, NEW c \in Callers, NEW r \in Results, Return(c, r)
  PROVE  /\ pc' = [pc EXCEPT ![c] = "idle"]
         /\ call' \in [Callers -> [method : Methods \union {""}, arg : Volumes \union Errors \union {Nil}]]
         /\ result' \in [Callers -> Results]
BY DEF TypeOK, Return, Go

\* Types are kept: the depth of the nested read locks is bounded because every
\* lock that is taken is released.
LEMMA TypeStep == IndInv /\ [Next]_vars => TypeOK'
<1> SUFFICES ASSUME IndInv, [Next]_vars PROVE TypeOK'
  OBVIOUS
<1> USE DEF IndInv
<1>1. ASSUME NEW c \in Callers, Call(c) PROVE TypeOK'
  <2>1. PICK m \in Methods : \E a \in Arguments(m) :
               /\ call' = [call EXCEPT ![c] = [method |-> m, arg |-> a]]
               /\ Go(c, IF m \in {"IsPending", "GetValue"} THEN "rlock" ELSE "lock")
    BY <1>1 DEF Call
  <2>2. PICK a \in Arguments(m) : call' = [call EXCEPT ![c] = [method |-> m, arg |-> a]]
    BY <2>1
  <2>3. call' \in [Callers -> [method : Methods \union {""}, arg : Volumes \union Errors \union {Nil}]]
    BY <2>2, ArgumentType DEF TypeOK
  <2>4. result' \in [Callers -> Results] /\ UNCHANGED <<volume, err, readers, writer>>
    BY <1>1 DEF Call, TypeOK, Results
  <2> QED BY <2>1, <2>3, <2>4 DEF TypeOK, Go
<1>2. ASSUME NEW c \in Callers, RLock(c) \/ NestedRLock(c) PROVE TypeOK'
  <2>1. readers[c] \in 0..1 /\ readers' = [readers EXCEPT ![c] = @ + 1]
    BY <1>2 DEF RLock, NestedRLock, AcquireRead, ReadLocks, Depth
  <2>2. readers[c] + 1 \in 0..2
    BY <2>1
  <2>3. readers' \in [Callers -> 0..2]
    BY <2>1, <2>2 DEF TypeOK
  <2> QED BY <1>2, <2>3, <2>2 DEF RLock, NestedRLock, AcquireRead, TypeOK, Go
<1>3. ASSUME NEW c \in Callers, Lock(c) \/ Drain(c) PROVE TypeOK'
  <2>1. pc[c] = "drain" => call[c].method \in {"Fulfill", "Reject"}
    BY DEF CallServed
  <2> QED BY <1>3, <2>1 DEF Lock, Drain, TypeOK, Go
<1>4. ASSUME NEW c \in Callers, IsPending(c) \/ NestedIsPending(c) \/ GetValue(c) PROVE TypeOK'
  <2>1. readers[c] \in 1..2 /\ readers' = [readers EXCEPT ![c] = @ - 1] /\ UNCHANGED <<writer, volume, err>>
    BY <1>4 DEF IsPending, NestedIsPending, GetValue, ReleaseRead, fields, ReadLocks, Depth
  <2>5. readers[c] - 1 \in 0..2
    BY <2>1
  <2>2. readers' \in [Callers -> 0..2]
    BY <2>1, <2>5 DEF TypeOK
  <2>3. CASE NestedIsPending(c)
    BY <2>1, <2>2, <2>3 DEF NestedIsPending, TypeOK, Go
  <2>4. CASE IsPending(c) \/ GetValue(c)
    <3>1. PICK r \in Results : Return(c, r)
      BY <2>4 DEF IsPending, GetValue, Results, Statuses, TypeOK
    <3> QED BY <2>1, <2>2, <3>1, ReturnType DEF TypeOK
  <2> QED BY <1>4, <2>3, <2>4
<1>5. ASSUME NEW c \in Callers, Fulfill(c) \/ Reject(c) PROVE TypeOK'
  <2>1. PICK r \in Results : Return(c, r)
    BY <1>5 DEF Fulfill, Reject, Results, Statuses, Errors
  <2>2. /\ volume' \in Volumes \union {Nil} /\ err' \in Errors \union {Nil}
        /\ readers' = readers /\ writer' = NoCaller
    BY <1>5 DEF Fulfill, Reject, Unlock, CallServed, TypeOK
  <2> QED BY <2>1, <2>2, ReturnType DEF TypeOK
<1>6. CASE UNCHANGED vars
  BY <1>6 DEF vars, TypeOK
<1> QED BY <1>1, <1>2, <1>3, <1>4, <1>5, <1>6 DEF Next, Inside, Acquire

\* A step is a step of one caller.
LEMMA Others ==
  ASSUME TypeOK, NEW c \in Callers, Call(c) \/ Acquire(c) \/ Inside(c), NEW d \in Callers, d # c
  PROVE  pc'[d] = pc[d] /\ call'[d] = call[d] /\ readers'[d] = readers[d] /\ result'[d] = result[d]
<1> USE DEF TypeOK, Go, Return
<1>1. CASE Call(c) \/ Acquire(c)
  BY <1>1 DEF Call, Acquire, RLock, NestedRLock, Lock, AcquireRead
<1>2. CASE Inside(c)
  BY <1>2 DEF Inside, Drain, IsPending, NestedIsPending, GetValue, ReleaseRead, Fulfill, Reject, Unlock
<1> QED BY <1>1, <1>2

\* Which locks are held where.
LEMMA LockStep == IndInv /\ [Next]_vars => ReadLocks' /\ WriteLock'
<1> SUFFICES ASSUME IndInv, [Next]_vars PROVE ReadLocks' /\ WriteLock'
  OBVIOUS
<1> USE NullCaller DEF IndInv
<1>1. ASSUME NEW c \in Callers, Call(c) \/ Acquire(c) \/ Inside(c), readers'[c] = Depth(pc'[c])
      PROVE  ReadLocks'
  BY <1>1, Others DEF ReadLocks
<1>2. ASSUME NEW c \in Callers, Call(c) \/ Acquire(c) \/ Inside(c), writer' = writer,
             pc'[c] \notin {"drain", "Fulfill", "Reject"}, pc[c] \notin {"drain", "Fulfill", "Reject"},
             \A d \in Callers : Writing(d) => readers'[c] = 0
      PROVE  WriteLock'
  BY <1>2, Others DEF WriteLock, Writing
<1>3. ASSUME NEW c \in Callers, Call(c) PROVE ReadLocks' /\ WriteLock'
  <2>1. pc[c] = "idle" /\ pc'[c] \in {"rlock", "lock"} /\ readers' = readers /\ writer' = writer
    BY <1>3 DEF Call, TypeOK, Go
  <2>2. readers'[c] = 0
    BY <2>1 DEF ReadLocks, Depth
  <2> QED BY <1>1, <1>2, <1>3, <2>1, <2>2 DEF Depth
<1>4. ASSUME NEW c \in Callers, RLock(c) \/ NestedRLock(c) PROVE ReadLocks' /\ WriteLock'
  <2>1. \/ pc[c] = "rlock" /\ readers[c] = 0 /\ pc'[c] \in {"IsPending", "nested"}
        \/ pc[c] = "nested" /\ readers[c] = 1 /\ pc'[c] = "test"
    BY <1>4 DEF RLock, NestedRLock, TypeOK, Go, ReadLocks, Depth
  <2>2. readers'[c] = readers[c] + 1 /\ writer = NoCaller /\ writer' = writer
    BY <1>4 DEF RLock, NestedRLock, AcquireRead, TypeOK
  <2>3. readers'[c] = Depth(pc'[c])
    BY <2>1, <2>2 DEF Depth
  <2>4. \A d \in Callers : ~Writing(d)
    BY <2>2 DEF WriteLock, Writing
  <2> QED BY <1>1, <1>2, <1>4, <2>1, <2>2, <2>3, <2>4 DEF Acquire
<1>5. ASSUME NEW c \in Callers, Lock(c) PROVE ReadLocks' /\ WriteLock'
  <2>1. pc[c] = "lock" /\ pc'[c] = "drain" /\ readers' = readers /\ writer = NoCaller /\ writer' = c
    BY <1>5 DEF Lock, TypeOK, Go
  <2>2. readers'[c] = Depth(pc'[c])
    BY <2>1 DEF ReadLocks, Depth
  <2>3. \A d \in Callers : pc[d] \notin {"drain", "Fulfill", "Reject"}
    BY <2>1 DEF WriteLock
  <2>4. \A d \in Callers : d # c => pc'[d] = pc[d]
    BY <1>5, Others DEF Acquire
  <2>5. WriteLock'
    BY <2>1, <2>3, <2>4 DEF WriteLock, Writing
  <2> QED BY <1>1, <1>5, <2>2, <2>5 DEF Acquire
<1>6. ASSUME NEW c \in Callers, Drain(c) PROVE ReadLocks' /\ WriteLock'
  <2>1. /\ pc[c] = "drain" /\ pc'[c] \in {"Fulfill", "Reject"} /\ UNCHANGED <<readers, writer>>
        /\ \A d \in Callers : readers[d] = 0
    BY <1>6 DEF Drain, CallServed, TypeOK, Go
  <2>2. \A d \in Callers : d # c => pc'[d] = pc[d]
    BY <1>6, Others DEF Inside
  <2>3. readers'[c] = Depth(pc'[c])
    BY <2>1 DEF Depth
  <2>4. WriteLock'
    BY <2>1, <2>2 DEF WriteLock, Writing
  <2> QED BY <1>1, <1>6, <2>3, <2>4 DEF Inside
<1>7. ASSUME NEW c \in Callers, IsPending(c) \/ NestedIsPending(c) \/ GetValue(c)
      PROVE  ReadLocks' /\ WriteLock'
  <2>1. \/ pc[c] \in {"IsPending", "fail", "value"} /\ readers[c] = 1 /\ pc'[c] = "idle"
        \/ pc[c] = "test" /\ readers[c] = 2 /\ pc'[c] \in {"fail", "value"}
    BY <1>7 DEF IsPending, NestedIsPending, GetValue, Return, TypeOK, Go, ReadLocks, Depth
  <2>2. readers'[c] = readers[c] - 1 /\ writer' = writer
    BY <1>7 DEF IsPending, NestedIsPending, GetValue, ReleaseRead, TypeOK
  <2>3. readers'[c] = Depth(pc'[c])
    BY <2>1, <2>2 DEF Depth
  <2>4. \A d \in Callers : ~Writing(d)
    BY <2>1 DEF WriteLock, ReadLocks
  <2> QED BY <1>1, <1>2, <1>7, <2>1, <2>2, <2>3, <2>4 DEF Inside
<1>8. ASSUME NEW c \in Callers, Fulfill(c) \/ Reject(c) PROVE ReadLocks' /\ WriteLock'
  <2>1. /\ pc[c] \in {"Fulfill", "Reject"} /\ pc'[c] = "idle" /\ readers' = readers /\ writer' = NoCaller
    BY <1>8 DEF Fulfill, Reject, Unlock, Return, Go, TypeOK
  <2>2. \A d \in Callers : d # c => pc'[d] = pc[d] /\ pc[d] \notin {"drain", "Fulfill", "Reject"}
    BY <1>8, <2>1, Others DEF Inside, WriteLock
  <2>3. readers'[c] = Depth(pc'[c])
    BY <2>1 DEF Depth, ReadLocks
  <2>4. WriteLock'
    BY <2>1, <2>2 DEF WriteLock, Writing
  <2> QED BY <1>1, <1>8, <2>3, <2>4 DEF Inside
<1>9. CASE UNCHANGED vars
  BY <1>9 DEF vars, ReadLocks, WriteLock, Writing
<1> QED BY <1>3, <1>4, <1>5, <1>6, <1>7, <1>8, <1>9 DEF Next, Inside, Acquire

\* A caller executes the method it called, with an argument of that method.
LEMMA CallStep == IndInv /\ [Next]_vars => CallServed'
<1> SUFFICES ASSUME IndInv, [Next]_vars PROVE CallServed'
  OBVIOUS
<1> USE DEF IndInv
<1>1. ASSUME NEW c \in Callers, Call(c) PROVE CallServed'
  <2>1. PICK m \in Methods : \E a \in Arguments(m) :
               /\ call' = [call EXCEPT ![c] = [method |-> m, arg |-> a]]
               /\ Go(c, IF m \in {"IsPending", "GetValue"} THEN "rlock" ELSE "lock")
    BY <1>1 DEF Call
  <2>2. PICK a \in Arguments(m) : call' = [call EXCEPT ![c] = [method |-> m, arg |-> a]]
    BY <2>1
  <2>3. call'[c].method = m /\ call'[c].arg = a
    BY <2>2 DEF TypeOK
  <2>4. m \in {"Fulfill", "Reject"} \/ m \in {"IsPending", "GetValue"}
    BY MethodsKnown DEF AllMethods
  <2>5. /\ pc'[c] \in {"rlock", "lock"}
        /\ pc'[c] = "lock" <=> m \in {"Fulfill", "Reject"}
    BY <2>1, <2>4 DEF Go, TypeOK
  <2>6. result'[c] = Nil
    BY <1>1 DEF Call, TypeOK
  <2>7. \A d \in Callers : d # c => pc'[d] = pc[d] /\ call'[d] = call[d] /\ result'[d] = result[d]
    BY <1>1, Others
  <2>8. (m = "Fulfill" => a \in Volumes) /\ (m = "Reject" => a \in Errors)
    BY ArgumentType
  <2> QED BY <2>3, <2>5, <2>6, <2>7, <2>8 DEF CallServed, Reading, Returned
<1>6. ASSUME NEW c \in Callers, Acquire(c) \/ Inside(c),
             pc'[c] # "idle" => pc[c] # "idle" /\ result' = result
      PROVE  \A d \in Callers : /\ pc'[d] # "idle" => result'[d] = Nil
                             /\ d # c => pc'[d] = pc[d] /\ call'[d] = call[d] /\ result'[d] = result[d]
  BY <1>6, Others DEF CallServed
<1>2. ASSUME NEW c \in Callers, Acquire(c) PROVE CallServed'
  <2>1. CASE RLock(c) \/ NestedRLock(c)
    <3>1. /\ call' = call /\ result' = result /\ pc[c] \in {"rlock", "nested"}
          /\ pc'[c] \in {"IsPending", "nested", "test"}
      BY <2>1 DEF RLock, NestedRLock, Go, TypeOK
    <3>2. \A d \in Callers : d # c => pc'[d] = pc[d]
      BY <1>2, Others
    <3> QED BY <1>2, <1>6, <3>1, <3>2 DEF CallServed, Reading, Returned
  <2>2. CASE Lock(c)
    <3>1. call' = call /\ result' = result /\ pc[c] = "lock" /\ pc'[c] = "drain"
      BY <2>2 DEF Lock, Go, TypeOK
    <3>2. \A d \in Callers : d # c => pc'[d] = pc[d]
      BY <1>2, Others
    <3> QED BY <1>2, <1>6, <3>1, <3>2 DEF CallServed, Reading, Returned
  <2> QED BY <1>2, <2>1, <2>2 DEF Acquire
<1>3. ASSUME NEW c \in Callers, Drain(c) \/ NestedIsPending(c) PROVE CallServed'
  <2>1. \A d \in Callers : d # c => pc'[d] = pc[d]
    BY <1>3, Others DEF Inside
  <2>2. CASE Drain(c)
    <3>1. call' = call /\ result' = result /\ pc[c] = "drain" /\ pc'[c] = call[c].method
      BY <2>2 DEF Drain, Go, TypeOK
    <3> QED BY <1>3, <1>6, <2>1, <3>1 DEF CallServed, Reading, Returned, Inside
  <2>3. CASE NestedIsPending(c)
    <3>1. call' = call /\ result' = result /\ pc[c] = "test" /\ pc'[c] \in {"fail", "value"}
      BY <2>3 DEF NestedIsPending, Go, TypeOK
    <3> QED BY <1>3, <1>6, <2>1, <3>1 DEF CallServed, Reading, Returned, Inside
  <2> QED BY <1>3, <2>2, <2>3
<1>4. ASSUME NEW c \in Callers, IsPending(c) \/ GetValue(c) \/ Fulfill(c) \/ Reject(c) PROVE CallServed'
  <2>1. pc'[c] = "idle" /\ call' = call
    BY <1>4 DEF IsPending, GetValue, Fulfill, Reject, Return, Go, TypeOK
  <2>2. call[c].method = "Fulfill" => result'[c] \in {"ok", "ErrPromiseNotPending", "ErrPromiseCanceled"}
    BY <1>4 DEF IsPending, GetValue, Fulfill, Reject, Return, TypeOK, CallServed, Reading
  <2> QED BY <1>4, <2>1, <2>2, Others DEF CallServed, Reading, Returned, Inside
<1>5. CASE UNCHANGED vars
  BY <1>5 DEF vars, CallServed, Reading, Returned
<1> QED BY <1>1, <1>2, <1>3, <1>4, <1>5 DEF Next, Inside

\* Only Fulfill and Reject write, alone, and only to a pending promise.
LEMMA OutcomeStep == IndInv /\ [Next]_vars => OneOutcome' /\ AnswersHold'
<1> SUFFICES ASSUME IndInv, [Next]_vars PROVE OneOutcome' /\ AnswersHold'
  OBVIOUS
<1> USE NullOutcome DEF IndInv
<1>1. ASSUME NEW c \in Callers, Call(c) \/ Acquire(c) \/ Inside(c), UNCHANGED <<volume, err>>,
             pc'[c] = "value" => ~isPending,
             result'[c] = Nil \/ (result'[c] = result[c] /\ call'[c] = call[c])
      PROVE  OneOutcome' /\ AnswersHold'
  <2>1. isPending' = isPending
    BY <1>1 DEF isPending
  <2>2. \A d \in Callers : /\ result'[d] = Nil \/ (result'[d] = result[d] /\ call'[d] = call[d])
                           /\ pc'[d] = "value" => ~isPending
    BY <1>1, Others DEF OneOutcome
  <2>3. OneOutcome'
    BY <1>1, <2>1, <2>2 DEF OneOutcome
  <2>4. AnswersHold'
    BY <1>1, <2>1, <2>2 DEF AnswersHold, Returned, Errors, Statuses
  <2> QED BY <2>3, <2>4
<1>2. ASSUME NEW c \in Callers, Call(c) \/ Acquire(c) \/ Drain(c) \/ NestedIsPending(c)
      PROVE  OneOutcome' /\ AnswersHold'
  <2>1. UNCHANGED <<volume, err>> /\ (result'[c] = Nil \/ (result'[c] = result[c] /\ call'[c] = call[c]))
    BY <1>2 DEF Call, Acquire, RLock, NestedRLock, Lock, Drain, NestedIsPending, TypeOK
  <2>2. pc'[c] = "value" => ~isPending
    BY <1>2 DEF Call, Acquire, RLock, NestedRLock, Lock, Drain, NestedIsPending, TypeOK, Go, CallServed
  <2> QED BY <1>1, <1>2, <2>1, <2>2 DEF Inside
<1>3. ASSUME NEW c \in Callers, IsPending(c) \/ GetValue(c) PROVE OneOutcome' /\ AnswersHold'
  <2>1. UNCHANGED <<volume, err>> /\ pc'[c] = "idle" /\ call' = call
    BY <1>3 DEF IsPending, GetValue, fields, Return, Go, TypeOK
  <2>2. \/ result'[c] = "true"
        \/ result'[c] = "ErrPromiseStillPending"
        \/ result'[c] = "false" /\ ~isPending
        \/ result'[c] = volume /\ volume # Nil
        \/ result'[c] = err /\ volume = Nil /\ ~isPending
    BY <1>3 DEF IsPending, GetValue, Return, TypeOK, OneOutcome
  <2>3. isPending' = isPending
    BY <2>1 DEF isPending
  <2>4. \A d \in Callers : d # c => result'[d] = result[d] /\ pc'[d] = pc[d]
    BY <1>3, Others DEF Inside
  <2>5. OneOutcome'
    BY <2>1, <2>3, <2>4 DEF OneOutcome
  <2>6. /\ result'[c] # "ok"
        /\ result'[c] \in Volumes => volume = result'[c] /\ err = Nil
        /\ result'[c] \in Errors => err = result'[c] /\ volume = Nil
        /\ result'[c] \in {"ErrPromiseNotPending", "false"} => ~isPending
    BY <2>2 DEF TypeOK, OneOutcome, isPending, Errors, Statuses
  <2>8. call[c].method # "Fulfill"
    BY <1>3 DEF IsPending, GetValue, CallServed, Reading
  <2>9. \A d \in Callers : Returned(d, "Fulfill")' => Returned(d, "Fulfill") /\ d # c
    BY <2>1, <2>4, <2>8 DEF Returned
  <2>7. AnswersHold'
    BY <2>1, <2>3, <2>4, <2>6, <2>9 DEF AnswersHold
  <2> QED BY <2>5, <2>7
<1>4. ASSUME NEW c \in Callers, Fulfill(c) \/ Reject(c), isPending PROVE OneOutcome' /\ AnswersHold'
  <2>1. /\ volume = Nil /\ err = Nil /\ pc[c] \in {"Fulfill", "Reject"}
        /\ \/ volume' \in Volumes /\ err' = Nil
           \/ volume' = Nil /\ err' \in Errors
        /\ result'[c] = "ok" /\ pc'[c] = "idle"
    BY <1>4 DEF Fulfill, Reject, isPending, CallServed, Return, Go, TypeOK
  <2>2. ~isPending'
    BY <2>1 DEF isPending
  <2>3. \A d \in Callers : d # c => result'[d] = result[d] /\ pc'[d] = pc[d]
    BY <1>4, Others DEF Inside
  <2>4. \A d \in Callers : result[d] \notin Volumes \union Errors \union {"ok"}
    BY <1>4, <2>1 DEF AnswersHold
  <2>6. call' = call /\ pc[c] = call[c].method
    BY <1>4 DEF Fulfill, Reject, Return, CallServed
  <2>7. call[c].method = "Fulfill" => err' = Nil
    BY <1>4, <2>1, <2>6 DEF Fulfill, Reject
  <2>8. Returned(c, "Fulfill")' => err' # "ErrPromiseCanceled" /\ result'[c] # "ErrPromiseCanceled"
    BY <2>1, <2>6, <2>7, NullOutcome DEF Returned, Errors
  <2>9. \A d \in Callers : (d # c /\ result[d] # Nil) => call[d].method # "Fulfill"
    <3> SUFFICES ASSUME NEW d \in Callers, d # c, result[d] # Nil, call[d].method = "Fulfill" PROVE FALSE
      OBVIOUS
    <3>1. result[d] \in {"ok", "ErrPromiseNotPending", "ErrPromiseCanceled"}
      BY DEF CallServed, Returned
    <3> QED BY <1>4, <2>4, <3>1 DEF AnswersHold, Errors
  <2>5. AnswersHold'
    BY <2>1, <2>2, <2>3, <2>4, <2>6, <2>8, <2>9 DEF AnswersHold, Returned, Errors, Statuses
  <2> QED BY <2>1, <2>2, <2>5 DEF OneOutcome
<1>5. ASSUME NEW c \in Callers, Fulfill(c) \/ Reject(c), ~isPending PROVE OneOutcome' /\ AnswersHold'
  <2>1. UNCHANGED <<volume, err>> /\ pc'[c] = "idle"
    BY <1>5 DEF Fulfill, Reject, Return, Go, TypeOK
  <2>2. \/ result'[c] = "ErrPromiseCanceled" /\ err = "ErrPromiseCanceled"
        \/ result'[c] = "ErrPromiseNotPending"
    BY <1>5 DEF Fulfill, Reject, Return, TypeOK
  <2>3. isPending' = isPending
    BY <2>1 DEF isPending
  <2>4. \A d \in Callers : d # c => result'[d] = result[d] /\ pc'[d] = pc[d]
    BY <1>5, Others DEF Inside
  <2>5. OneOutcome'
    BY <2>1, <2>3, <2>4 DEF OneOutcome
  <2>6. /\ result'[c] # "ok"
        /\ result'[c] \in Volumes => volume = result'[c] /\ err = Nil
        /\ result'[c] \in Errors => err = result'[c] /\ volume = Nil
    BY <2>2, NullOutcome DEF OneOutcome, Errors, Statuses
  <2>8. call' = call /\ pc[c] = call[c].method
    BY <1>5 DEF Fulfill, Reject, Return, CallServed
  <2>9. call[c].method = "Fulfill" => (result'[c] = "ErrPromiseCanceled" <=> err = "ErrPromiseCanceled")
    BY <1>5, <2>8 DEF Fulfill, Reject, Return, TypeOK
  <2>7. AnswersHold'
    BY <1>5, <2>1, <2>3, <2>4, <2>6, <2>8, <2>9 DEF AnswersHold, Returned
  <2> QED BY <2>5, <2>7
<1>6. CASE UNCHANGED vars
  BY <1>6 DEF vars, OneOutcome, AnswersHold, Returned, isPending
<1> QED BY <1>2, <1>3, <1>4, <1>5, <1>6 DEF Next, Inside

\* The invariant of the promise is inductive.
THEOREM Invariance == Spec => []IndInv
<1>1. Init => IndInv
  <2> SUFFICES ASSUME Init PROVE IndInv
    OBVIOUS
  <2>1. NoCall \in [method : Methods \union {""}, arg : Volumes \union Errors \union {Nil}] /\ NoCall.method = ""
    BY DEF NoCall
  <2>2. TypeOK
    <3>1. call \in [Callers -> [method : Methods \union {""}, arg : Volumes \union Errors \union {Nil}]]
      BY <2>1 DEF Init
    <3>2. readers \in [Callers -> 0..2] /\ result \in [Callers -> Results]
      BY DEF Init, Results
    <3> QED BY <3>1, <3>2 DEF Init, TypeOK
  <2>3. ReadLocks /\ WriteLock
    BY NullCaller DEF Init, ReadLocks, Depth, WriteLock, Writing
  <2>4. CallServed
    BY <2>1 DEF Init, CallServed, Reading, Returned
  <2>5. OneOutcome /\ AnswersHold
    BY NullOutcome DEF Init, OneOutcome, AnswersHold, Errors, Statuses
  <2> QED BY <2>2, <2>3, <2>4, <2>5 DEF IndInv
<1>2. IndInv /\ [Next]_vars => IndInv'
  BY TypeStep, LockStep, CallStep, OutcomeStep DEF IndInv
<1> QED BY <1>1, <1>2, PTL DEF Spec

\* The fields, the mutex and the calls keep their types.
THEOREM TypeCorrect == Spec => []TypeOK
BY Invariance, PTL DEF IndInv

\* The goroutine that writes the fields of the promise is alone with them.
THEOREM NoDataRaceHolds == Spec => []NoDataRace
<1>1. IndInv => NoDataRace
  <2> SUFFICES ASSUME IndInv, NEW c \in Callers, NEW d \in Callers, Writing(c), c # d
               PROVE  ~Reading(d) /\ ~Writing(d)
    BY DEF NoDataRace
  <2>1. readers[d] = 0 /\ readers[d] = Depth(pc[d])
    BY DEF IndInv, WriteLock, ReadLocks
  <2>2. ~Reading(d)
    BY <2>1 DEF Reading, Depth
  <2>3. ~Writing(d)
    BY DEF IndInv, WriteLock, Writing
  <2> QED BY <2>2, <2>3
<1> QED BY <1>1, Invariance, PTL

\* What the calls of the promise have answered stays true.
THEOREM AnswersHoldAlways == Spec => []AnswersHold
BY Invariance, PTL DEF IndInv

\* Racing calls settle the promise once and for all.
THEOREM Refinement == Spec => ImplementsFuture
<1>1. Init => FU!Init
  BY DEF Init, FU!Init, Outcome
<1>2. IndInv /\ [Next]_vars => [FU!Next]_Outcome
  <2> SUFFICES ASSUME IndInv, [Next]_vars PROVE FU!Next \/ Outcome' = Outcome
    OBVIOUS
  <2>1. ASSUME UNCHANGED <<volume, err>> PROVE Outcome' = Outcome
    BY <2>1 DEF Outcome
  <2>2. ASSUME NEW c \in Callers, Fulfill(c) \/ Reject(c), ~isPending PROVE UNCHANGED <<volume, err>>
    BY <2>2 DEF Fulfill, Reject
  <2>3. ASSUME NEW c \in Callers, Fulfill(c) \/ Reject(c), isPending PROVE FU!Next
    <3>1. /\ volume = Nil /\ err = Nil
          /\ \/ volume' \in Volumes /\ err' = Nil
             \/ volume' = Nil /\ err' \in Errors
      BY <2>3 DEF Fulfill, Reject, isPending, IndInv, CallServed
    <3> QED BY <3>1, NullOutcome DEF FU!Next, FU!Settle, Outcome
  <2>4. ASSUME NEW c \in Callers,
               \/ Call(c) \/ Acquire(c) \/ Drain(c) \/ IsPending(c) \/ NestedIsPending(c) \/ GetValue(c)
        PROVE  UNCHANGED <<volume, err>>
    BY <2>4 DEF Call, Acquire, RLock, NestedRLock, Lock, Drain, IsPending, NestedIsPending, GetValue, fields
  <2>5. CASE UNCHANGED vars
    BY <2>5 DEF vars, Outcome
  <2> QED BY <2>1, <2>2, <2>3, <2>4, <2>5 DEF Next, Inside
<1> QED BY <1>1, <1>2, Invariance, PTL DEF Spec, ImplementsFuture, FU!Spec
=============================================================================
