---------------------------- MODULE VolumeServer ----------------------------
(***************************************************************************)
(* Asynchronous creation of volumes: CreateVolumeAsync, its Check and its  *)
(* Cancel in api/volume_server.go, the list of promises, and the clients   *)
(* that wait for and then remove their future (client/client.go and        *)
(* client/volume_future.go).                                               *)
(*                                                                         *)
(* Every request has a handler goroutine, every creation a goroutine of    *)
(* its own; one action is one call of a promise, of the list or of the     *)
(* repository.  Those are atomic: see Promise and VolumeRepository.        *)
(***************************************************************************)
CONSTANTS Clients,      \* users of the client library
          Workers,      \* handler goroutines
          Handles,
          Ids,          \* promises, and the volumes they are promises of
          Unreliable,   \* may connections break?
          OtherUsers,   \* does anybody create and destroy without the library?
          NoId, NoWorker, NoHandle, Foreign

ASSUME Switches == Unreliable \in BOOLEAN /\ OtherUsers \in BOOLEAN
ASSUME Nulls == NoId \notin Ids /\ NoWorker \notin Workers /\ NoHandle \notin Handles /\ Foreign \notin Ids

VARIABLES promises,    \* promiseList: the promise of a handle
          promise,     \* the state of a promise
          creator,     \* the goroutine that creates the volume of a promise: "leaked" if
                       \* it has ended and could not destroy the volume
          target,      \* the handle it creates
          vols,        \* the repository: whose volume a handle names
          handler,     \* per handler: the request it serves
          client, call \* per client: where it is, and the handler it waits for

vars == <<promises, promise, creator, target, vols, handler, client, call>>
creations == <<promise, creator, target>>
requests == <<handler, client, call>>

IdleHandler == [op |-> "", step |-> "idle", h |-> NoHandle, id |-> NoId]
IdleClient == [pc |-> "idle", h |-> NoHandle, id |-> NoId]

Init == /\ promises = [h \in Handles |-> NoId]
        /\ promise = [i \in Ids |-> "none"]
        /\ creator = [i \in Ids |-> "none"]
        /\ target = [i \in Ids |-> NoHandle]
        /\ vols = [h \in Handles |-> NoId]
        /\ handler = [w \in Workers |-> IdleHandler]
        /\ client = [c \in Clients |-> IdleClient]
        /\ call = [c \in Clients |-> NoWorker]

\* Nothing refers to the promise any more: its identity may be used again.
Unused(i) == /\ creator[i] \in {"none", "leaked"}
             /\ \A h \in Handles : i \notin {promises[h], vols[h]}
             /\ \A w \in Workers : handler[w].id # i
             /\ \A c \in Clients : client[c].id # i

(***************************************************************************)
(* The client.  CreateVolume posts the request, waits for the future by    *)
(* checking it until it has a value, and removes it whatever the value is. *)
(***************************************************************************)
IdleWorker(w) == handler[w] = IdleHandler /\ \A c \in Clients : call[c] # w

\* A response moves the client on; one that nobody waits for is dropped.
After(k, status, i) ==
    CASE k.pc = "create" -> IF status = "201" THEN [k EXCEPT !.pc = "wait", !.id = i] ELSE IdleClient
      [] k.pc = "wait" -> IF status = "204" THEN k ELSE [k EXCEPT !.pc = "destroy"]
      [] OTHER -> IdleClient

Respond(w, status) ==
    /\ handler' = [handler EXCEPT ![w] = IdleHandler]
    /\ client' = [c \in Clients |-> IF call[c] = w THEN After(client[c], status, handler[w].id)
                                                   ELSE client[c]]
    /\ call' = [c \in Clients |-> IF call[c] = w THEN NoWorker ELSE call[c]]

\* The handler of a creation makes its promise before it looks at the list.
PostCreate(c, w) ==
    /\ client[c] = IdleClient
    /\ IdleWorker(w)
    /\ \E h \in Handles, i \in Ids :
          /\ Unused(i)
          /\ client' = [client EXCEPT ![c].pc = "create", ![c].h = h]
          /\ handler' = [handler EXCEPT ![w] = [op |-> "create", step |-> "add", h |-> h, id |-> i]]
          /\ promise' = [promise EXCEPT ![i] = "pending"]
          /\ creator' = [creator EXCEPT ![i] = "none"]
          /\ target' = [target EXCEPT ![i] = h]
    /\ call' = [call EXCEPT ![c] = w]
    /\ UNCHANGED <<promises, vols>>

\* A round of Wait, or Destroy.
Send(c, w) ==
    /\ client[c].pc \in {"wait", "destroy"}
    /\ call[c] = NoWorker
    /\ IdleWorker(w)
    /\ handler' = [handler EXCEPT ![w] = [op |-> client[c].pc, step |-> "get", h |-> client[c].h, id |-> NoId]]
    /\ call' = [call EXCEPT ![c] = w]
    /\ UNCHANGED <<promises, promise, creator, target, vols, client>>

\* The connection breaks.  Requests without a body are sent again or given up,
\* the others are given up; the handler does not notice.
Disconnect(c) ==
    /\ Unreliable
    /\ client[c].pc # "idle"
    /\ \/ /\ client[c].pc # "create"
          /\ call[c] # NoWorker
          /\ UNCHANGED client
       \/ client' = [client EXCEPT ![c] = IF @.pc = "wait" THEN [@ EXCEPT !.pc = "destroy"] ELSE IdleClient]
    /\ call' = [call EXCEPT ![c] = NoWorker]
    /\ UNCHANGED <<promises, promise, creator, target, vols, handler>>

(***************************************************************************)
(* CreateVolumeAsync.                                                      *)
(***************************************************************************)
At(w, op, step) == handler[w].op = op /\ handler[w].step = step

\* prepareCreate: a body, a handle or a strategy that is refused, before there is
\* a promise.
PrepareCreateFails(w) ==
    /\ At(w, "create", "add")
    /\ Respond(w, "422")
    /\ UNCHANGED <<promises, creations, vols>>

\* Mutant of AddPromise: takes the place of a promise that is in the list.
AddPromiseOver(w) == LET i == handler[w].id IN
    /\ At(w, "create", "add")
    /\ promises' = [promises EXCEPT ![handler[w].h] = i]
    /\ creator' = [creator EXCEPT ![i] = "create"]
    /\ Respond(w, "201")
    /\ UNCHANGED <<promise, target, vols>>

AddPromise(w) == LET h == handler[w].h
                     i == handler[w].id IN
    /\ At(w, "create", "add")
    /\ \/ /\ promises[h] = NoId
          /\ promises' = [promises EXCEPT ![h] = i]
          /\ creator' = [creator EXCEPT ![i] = "create"]
          /\ Respond(w, "201")
       \/ /\ promises[h] # NoId
          /\ Respond(w, "500")
          /\ UNCHANGED <<promises, creator>>
    /\ UNCHANGED <<promise, target, vols>>

\* Mutant of DoCreate: replaces a volume of the same handle.
DoCreateOver(i) == /\ creator[i] = "create"
                   /\ vols' = [vols EXCEPT ![target[i]] = i]
                   /\ creator' = [creator EXCEPT ![i] = "succeeded"]
                   /\ UNCHANGED <<promises, promise, target, requests>>

\* doCreate: the repository creates the volume or fails, for instance because
\* the handle names a volume.
DoCreate(i) ==
    /\ creator[i] = "create"
    /\ \/ /\ vols[target[i]] = NoId
          /\ vols' = [vols EXCEPT ![target[i]] = i]
          /\ creator' = [creator EXCEPT ![i] = "succeeded"]
       \/ /\ creator' = [creator EXCEPT ![i] = "failed"]
          /\ UNCHANGED vols
    /\ UNCHANGED <<promises, promise, target, requests>>

\* Mutant of CreationSucceeded: does not look at the error of Fulfill.
CreationSucceededBlind(i) ==
    /\ creator[i] = "succeeded"
    /\ promise' = [promise EXCEPT ![i] = IF @ = "pending" THEN "fulfilled" ELSE @]
    /\ creator' = [creator EXCEPT ![i] = "none"]
    /\ UNCHANGED <<promises, target, vols, requests>>

\* Fulfill; a volume whose creation was canceled is destroyed.
CreationSucceeded(i) ==
    /\ creator[i] = "succeeded"
    /\ \/ /\ promise[i] = "pending"
          /\ promise' = [promise EXCEPT ![i] = "fulfilled"]
          /\ creator' = [creator EXCEPT ![i] = "none"]
       \/ /\ promise[i] # "pending"
          /\ creator' = [creator EXCEPT ![i] = IF promise[i] = "canceled" THEN "destroy" ELSE "none"]
          /\ UNCHANGED promise
    /\ UNCHANGED <<promises, target, vols, requests>>

\* The repository destroys whatever volume the handle names now, if any; an error
\* is logged, and the volume may have stayed.
DestroyViaCancel(i) ==
    /\ creator[i] = "destroy"
    /\ \/ /\ vols' = [vols EXCEPT ![target[i]] = NoId]
          /\ creator' = [creator EXCEPT ![i] = "none"]
       \/ /\ creator' = [creator EXCEPT ![i] = "leaked"]
          /\ UNCHANGED vols
    /\ UNCHANGED <<promises, promise, target, requests>>

CreationFailed(i) ==
    /\ creator[i] = "failed"
    /\ promise' = [promise EXCEPT ![i] = IF @ = "pending" THEN "failed" ELSE @]
    /\ creator' = [creator EXCEPT ![i] = "none"]
    /\ UNCHANGED <<promises, target, vols, requests>>

(***************************************************************************)
(* CreateVolumeAsyncCheck and CreateVolumeAsyncCancel.                     *)
(***************************************************************************)
Proceed(w, step) == /\ handler' = [handler EXCEPT ![w].step = step]
                    /\ UNCHANGED <<client, call>>

GetPromise(w) == LET i == promises[handler[w].h] IN
    /\ handler[w].step = "get"
    /\ \/ /\ i = NoId
          /\ Respond(w, "404")
       \/ /\ i # NoId
          /\ handler' = [handler EXCEPT ![w].step = "isPending", ![w].id = i]
          /\ UNCHANGED <<client, call>>
    /\ UNCHANGED <<promises, creations, vols>>

CheckPending(w) ==
    /\ At(w, "wait", "isPending")
    /\ IF promise[handler[w].id] = "pending" THEN Respond(w, "204") ELSE Proceed(w, "value")
    /\ UNCHANGED <<promises, creations, vols>>

GetValue(w) ==
    /\ At(w, "wait", "value")
    /\ Respond(w, IF promise[handler[w].id] = "fulfilled" THEN "200" ELSE "500")
    /\ UNCHANGED <<promises, creations, vols>>

CancelPending(w) ==
    /\ At(w, "destroy", "isPending")
    /\ Proceed(w, IF promise[handler[w].id] = "pending" THEN "reject" ELSE "remove")
    /\ UNCHANGED <<promises, creations, vols>>

\* Reject fails if the creation has ended since.
Reject(w) == LET i == handler[w].id IN
    /\ At(w, "destroy", "reject")
    /\ \/ /\ promise[i] = "pending"
          /\ promise' = [promise EXCEPT ![i] = "canceled"]
          /\ Proceed(w, "remove")
       \/ /\ promise[i] # "pending"
          /\ Respond(w, "500")
          /\ UNCHANGED promise
    /\ UNCHANGED <<promises, creator, target, vols>>

\* Mutant of RemovePromise: the list keeps the promise.
RemovePromiseNot(w) == /\ At(w, "destroy", "remove")
                       /\ Respond(w, "204")
                       /\ UNCHANGED <<promises, creations, vols>>

\* Removes whatever promise the list has for the handle now.
RemovePromise(w) ==
    /\ At(w, "destroy", "remove")
    /\ promises' = [promises EXCEPT ![handler[w].h] = NoId]
    /\ Respond(w, "204")
    /\ UNCHANGED <<creations, vols>>

(***************************************************************************)
(* DestroyVolume and the synchronous CreateVolume, for anybody.            *)
(***************************************************************************)
DestroyVolume(h) == /\ OtherUsers
                    /\ vols[h] # NoId
                    /\ vols' = [vols EXCEPT ![h] = NoId]
                    /\ UNCHANGED <<promises, creations, requests>>

CreateVolume(h) == /\ OtherUsers
                   /\ vols[h] = NoId
                   /\ vols' = [vols EXCEPT ![h] = Foreign]
                   /\ UNCHANGED <<promises, creations, requests>>

Handle(w) == \/ PrepareCreateFails(w) \/ AddPromise(w) \/ GetPromise(w) \/ CheckPending(w) \/ GetValue(w)
             \/ CancelPending(w) \/ Reject(w) \/ RemovePromise(w)

Create(i) == DoCreate(i) \/ CreationSucceeded(i) \/ DestroyViaCancel(i) \/ CreationFailed(i)

Next == \/ \E c \in Clients, w \in Workers : PostCreate(c, w) \/ Send(c, w)
        \/ \E c \in Clients : Disconnect(c)
        \/ \E w \in Workers : Handle(w)
        \/ \E i \in Ids : Create(i)
        \/ \E h \in Handles : DestroyVolume(h) \/ CreateVolume(h)

Spec == Init /\ [][Next]_vars

\* Goroutines run, and a client that has something to send gets a handler.
FairSpec == /\ Spec
            /\ \A w \in Workers : WF_vars(Handle(w))
            /\ \A i \in Ids : WF_vars(Create(i))
            /\ \A c \in Clients : WF_vars(\E w \in Workers : Send(c, w))
-----------------------------------------------------------------------------
\* A volume whose creation was reported as successful stays until a user
\* destroys it: no canceled creation takes it away or its place.
FulfilledStays == [][\A h \in Handles, i \in Ids :
    vols[h] = i /\ promise[i] = "fulfilled" /\ vols'[h] # i => DestroyVolume(h)]_vars

\* A client that waits for its future finds it in the list: it is told the
\* value, not that there is no future.
WaitFindsFuture == \A c \in Clients :
    client[c].pc = "wait" => promises[client[c].h] = client[c].id

\* As long as connections hold, one goroutine at a time creates a handle.
OneCreation == \A i, j \in Ids :
    creator[i] \notin {"none", "leaked"} /\ creator[j] \notin {"none", "leaked"} /\ target[i] = target[j] => i = j

\* The volume of a canceled creation is gone when the goroutine that created it
\* has ended, however late the cancellation came, unless DestroyVolume failed for
\* that very volume: creationSucceeded logs the error and forgets it.
CanceledDestroyed == \A i \in Ids :
    promise[i] = "canceled" /\ creator[i] = "none" => \A h \in Handles : vols[h] # i

\* No future stays in the list for ever.
FutureForgotten == \A h \in Handles, i \in Ids : promises[h] = i ~> promises[h] # i
=============================================================================
