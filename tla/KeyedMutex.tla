----------------------------- MODULE KeyedMutex -----------------------------
(***************************************************************************)
(* What volume.LockManager promises its callers (the LockManager interface *)
(* of volume/locker.go): one mutual-exclusion lock per key.  A caller asks *)
(* for a key, waits until nobody holds it, holds it, and gives it back.    *)
(* There is no limit on the keys and no state per key outlives its users.  *)
(***************************************************************************)
CONSTANTS Procs,  \* goroutines that use the lock manager
          Keys    \* lock keys (volume handles)

VARIABLES mode,   \* mode[p]: what p is doing
          wants   \* wants[p]: the key p is waiting for or holds

vars == <<mode, wants>>

Init == /\ mode = [p \in Procs |-> "idle"]
        /\ wants \in [Procs -> Keys]

Free(k) == \A p \in Procs : ~(mode[p] = "holding" /\ wants[p] = k)

Request(p, k) == /\ mode[p] = "idle"
                 /\ mode' = [mode EXCEPT ![p] = "waiting"]
                 /\ wants' = [wants EXCEPT ![p] = k]

Grant(p) == /\ mode[p] = "waiting"
            /\ Free(wants[p])
            /\ mode' = [mode EXCEPT ![p] = "holding"]
            /\ UNCHANGED wants

Release(p) == /\ mode[p] = "holding"
              /\ mode' = [mode EXCEPT ![p] = "idle"]
              /\ UNCHANGED wants

Next == \E p \in Procs : \/ \E k \in Keys : Request(p, k)
                         \/ Grant(p)
                         \/ Release(p)

Spec == Init /\ [][Next]_vars
=============================================================================
