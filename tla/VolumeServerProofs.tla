------------------------- MODULE VolumeServerProofs -------------------------
(***************************************************************************)
(* Proofs about VolumeServer, for any number of clients, handlers, handles *)
(* and promises.  Two inductive invariants: VolumeInv ties the goroutines  *)
(* that create volumes to the repository, with connections that may break; *)
(* ReliableInv ties the clients to the list of promises when connections   *)
(* hold.                                                                   *)
(***************************************************************************)
EXTENDS VolumeServer, TLAPS

\* The requests a handler serves.
Serving ==
    [op : {"create", "wait", "destroy"}, step : {"add", "get", "isPending", "value", "reject", "remove"},
     h : Handles, id : Ids \union {NoId}]

HandlerType == {IdleHandler} \union Serving

ClientType == {IdleClient} \union
    [pc : {"create", "wait", "destroy"}, h : Handles, id : Ids \union {NoId}]

\* The handler of a creation has its promise from the start, the others have one
\* once they have found it in the list.
StepOK(r) == /\ r.step = "add" <=> r.op = "create"
             /\ r.step = "add" => r.id \in Ids
             /\ r.step \in {"isPending", "value", "reject", "remove"} => r.id \in Ids
             /\ r.step = "get" => r.id = NoId
             /\ r.step = "value" => r.op = "wait"
             /\ r.step \in {"reject", "remove"} => r.op = "destroy"

TypeOK == /\ promises \in [Handles -> Ids \union {NoId}]
          /\ promise \in [Ids -> {"none", "pending", "fulfilled", "failed", "canceled"}]
          /\ creator \in [Ids -> {"none", "create", "succeeded", "failed", "destroy", "leaked"}]
          /\ target \in [Ids -> Handles \union {NoHandle}]
          /\ vols \in [Handles -> Ids \union {NoId, Foreign}]
          /\ handler \in [Workers -> HandlerType]
          /\ client \in [Clients -> ClientType]
          /\ call \in [Clients -> Workers \union {NoWorker}]
          /\ \A w \in Workers : StepOK(handler[w])

\* A promise that its handler has not yet put into the list is known to nobody.
Fresh(w) == LET i == handler[w].id IN
    /\ target[i] = handler[w].h
    /\ promise[i] = "pending"
    /\ creator[i] = "none"
    /\ \A h \in Handles : promises[h] # i /\ vols[h] # i
    /\ \A v \in Workers \ {w} : handler[v].id # i
    /\ \A c \in Clients : client[c].id # i

FreshPromise == \A w \in Workers : handler[w].step = "add" => Fresh(w)

\* The state of a goroutine, of its promise and of its volume, which nobody but the
\* goroutine takes away if nobody else uses the repository.
CreationOK(i) ==
    /\ creator[i] # "none" => target[i] \in Handles
    /\ creator[i] \in {"create", "succeeded", "failed"} => promise[i] \in {"pending", "canceled"}
    /\ creator[i] \in {"destroy", "leaked"} => promise[i] = "canceled"
    /\ creator[i] \in {"create", "failed"} => \A h \in Handles : vols[h] # i
    /\ creator[i] \in {"succeeded", "destroy"} /\ ~OtherUsers => vols[target[i]] = i
    /\ \A h \in Handles : vols[h] = i => target[i] = h
    /\ \A h \in Handles : vols[h] = i /\ creator[i] = "none" => promise[i] = "fulfilled"

CreationsOK == \A i \in Ids : CreationOK(i)

VolumeInv == TypeOK /\ FreshPromise /\ CreationsOK

\* Connections hold: a call and its handler are about the same request.
CallsMatch ==
    /\ \A c \in Clients : call[c] # NoWorker =>
          LET r == handler[call[c]] IN
          /\ r.op = client[c].pc
          /\ r.h = client[c].h
          /\ r.step \in {"isPending", "value", "reject", "remove"} => r.id = client[c].id
    /\ \A c, d \in Clients : call[c] = call[d] /\ call[c] # NoWorker => c = d
    /\ \A w \in Workers : handler[w] # IdleHandler => \E c \in Clients : call[c] = w
    /\ \A c \in Clients : client[c].pc = "create" => call[c] # NoWorker

\* A client that has a future finds it in the list until it has removed it, and
\* removes it after it has a value.
FuturesKept ==
    /\ \A c \in Clients : client[c].pc \in {"wait", "destroy"} =>
          client[c].id \in Ids /\ promises[client[c].h] = client[c].id
    /\ \A c, d \in Clients : client[c].pc \in {"wait", "destroy"} /\ client[d].pc \in {"wait", "destroy"}
          /\ client[c].id = client[d].id => c = d
    /\ \A c \in Clients : client[c].pc = "destroy" => promise[client[c].id] # "pending"
    /\ \A w \in Workers : handler[w].step = "value" => promise[handler[w].id] # "pending"
    /\ \A w \in Workers : handler[w].step # "reject"

\* A goroutine creates a volume only while its promise is pending and listed.
CreatorsListed == \A i \in Ids : creator[i] # "none" =>
    target[i] \in Handles /\ promise[i] = "pending" /\ promises[target[i]] = i

ReliableInv == TypeOK /\ FreshPromise /\ CallsMatch /\ FuturesKept /\ CreatorsListed
-----------------------------------------------------------------------------
\* The fields of an idle handler and of an idle client.
LEMMA IdleFields ==
  /\ IdleHandler.op = "" /\ IdleHandler.step = "idle" /\ IdleHandler.h = NoHandle /\ IdleHandler.id = NoId
  /\ IdleClient.pc = "idle" /\ IdleClient.h = NoHandle /\ IdleClient.id = NoId
BY DEF IdleHandler, IdleClient

\* What a response does to the handler and to the client that waits for it.
LEMMA RespondFacts ==
  ASSUME TypeOK, NEW w \in Workers, NEW status, Respond(w, status)
  PROVE  /\ handler' \in [Workers -> HandlerType]
         /\ client' \in [Clients -> ClientType]
         /\ call' \in [Clients -> Workers \union {NoWorker}]
         /\ handler'[w] = IdleHandler
         /\ \A v \in Workers \ {w} : handler'[v] = handler[v]
         /\ \A c \in Clients : client'[c].id \in {client[c].id, NoId, handler[w].id}
<1> USE DEF TypeOK
<1>1. IdleHandler \in HandlerType /\ IdleClient \in ClientType /\ IdleClient.id = NoId
  BY DEF HandlerType, ClientType, IdleClient
<1>2. handler' \in [Workers -> HandlerType] /\ handler'[w] = IdleHandler
      /\ \A v \in Workers \ {w} : handler'[v] = handler[v]
  BY <1>1 DEF Respond
<1>3. call' \in [Clients -> Workers \union {NoWorker}]
  BY DEF Respond
<1>4. handler[w].id \in Ids \union {NoId}
  <2>1. handler[w] = IdleHandler \/ handler[w] \in Serving
    BY DEF HandlerType, Serving
  <2>2. CASE handler[w] \in Serving
    BY <2>2 DEF Serving
  <2> QED BY <2>1, <2>2, IdleFields
<1>5. ASSUME NEW c \in Clients
      PROVE  /\ After(client[c], status, handler[w].id) \in ClientType
             /\ After(client[c], status, handler[w].id).id \in {client[c].id, NoId, handler[w].id}
  <2>1. CASE client[c] = IdleClient
    BY <1>1, <2>1 DEF After, IdleClient
  <2>2. CASE client[c] # IdleClient
    <3>1. client[c] \in [pc : {"create", "wait", "destroy"}, h : Handles, id : Ids \union {NoId}]
      BY <2>2 DEF ClientType
    <3> QED BY <1>1, <1>4, <3>1 DEF After, ClientType
  <2> QED BY <2>1, <2>2
<1> QED BY <1>2, <1>3, <1>5 DEF Respond

\* The type invariant holds at the start.
LEMMA TypeInit == Init => TypeOK
<1>1. StepOK(IdleHandler)
  BY DEF StepOK, IdleHandler
<1> QED BY <1>1 DEF Init, TypeOK, HandlerType, ClientType

\* The type invariant is inductive.
LEMMA TypeStep == TypeOK /\ [Next]_vars => TypeOK'
<1> SUFFICES ASSUME TypeOK, [Next]_vars PROVE TypeOK'
  OBVIOUS
<1>0. StepOK(IdleHandler)
  BY DEF StepOK, IdleHandler
<1>1. ASSUME NEW w \in Workers, NEW status, Respond(w, status),
             promises' \in [Handles -> Ids \union {NoId}],
             creator' \in [Ids -> {"none", "create", "succeeded", "failed", "destroy", "leaked"}],
             UNCHANGED <<promise, target, vols>>
      PROVE  TypeOK'
  BY <1>0, <1>1, RespondFacts DEF TypeOK
<1>2. ASSUME NEW c \in Clients, NEW w \in Workers, PostCreate(c, w) PROVE TypeOK'
  <2>1. PICK h \in Handles, i \in Ids :
          /\ client' = [client EXCEPT ![c].pc = "create", ![c].h = h]
          /\ handler' = [handler EXCEPT ![w] = [op |-> "create", step |-> "add", h |-> h, id |-> i]]
          /\ promise' = [promise EXCEPT ![i] = "pending"]
          /\ creator' = [creator EXCEPT ![i] = "none"]
          /\ target' = [target EXCEPT ![i] = h]
    BY <1>2 DEF PostCreate
  <2>2. IdleClient \in [pc : {"idle"}, h : {NoHandle}, id : {NoId}]
    BY DEF IdleClient
  <2>3. client' \in [Clients -> ClientType]
    <3>1. client' = [client EXCEPT ![c] = [[IdleClient EXCEPT !.pc = "create"] EXCEPT !.h = h]]
      BY <1>2, <2>1 DEF TypeOK, PostCreate
    <3>2. [[IdleClient EXCEPT !.pc = "create"] EXCEPT !.h = h] \in ClientType
      BY <2>2 DEF ClientType
    <3> QED BY <3>1, <3>2 DEF TypeOK
  <2>4. handler' \in [Workers -> HandlerType] /\ \A v \in Workers : StepOK(handler'[v])
    BY <2>1 DEF TypeOK, HandlerType, Serving, StepOK
  <2> QED BY <1>2, <2>1, <2>3, <2>4 DEF TypeOK, PostCreate
<1>3. ASSUME NEW c \in Clients, NEW w \in Workers, Send(c, w) PROVE TypeOK'
  <2>1. client[c].h \in Handles /\ client[c].pc \in {"wait", "destroy"}
    BY <1>3 DEF Send, TypeOK, ClientType, IdleClient
  <2>2. handler' \in [Workers -> HandlerType] /\ \A v \in Workers : StepOK(handler'[v])
    BY <1>3, <2>1 DEF Send, TypeOK, HandlerType, Serving, StepOK
  <2> QED BY <1>3, <2>2 DEF TypeOK, Send
<1>4. ASSUME NEW c \in Clients, Disconnect(c) PROVE TypeOK'
  <2>1. client' \in [Clients -> ClientType]
    BY <1>4 DEF Disconnect, TypeOK, ClientType, IdleClient
  <2> QED BY <1>4, <2>1 DEF TypeOK, Disconnect
<1>5. ASSUME NEW w \in Workers, Handle(w) PROVE TypeOK'
  <2>1. CASE PrepareCreateFails(w)
    BY <1>1, <2>1 DEF PrepareCreateFails, creations, TypeOK
  <2>2. CASE AddPromise(w)
    <3>1. handler[w].id \in Ids
      BY <2>2 DEF AddPromise, At, TypeOK, StepOK
    <3> QED BY <1>1, <2>2, <3>1 DEF AddPromise, TypeOK
  <2>3. ASSUME NEW s, Proceed(w, s), handler[w].id \in Ids, UNCHANGED <<promises, creator, target, vols>>,
               promise' \in [Ids -> {"none", "pending", "fulfilled", "failed", "canceled"}],
               \/ handler[w].op = "wait" /\ s = "value"
               \/ handler[w].op = "destroy" /\ s \in {"reject", "remove"}
        PROVE  TypeOK'
    <3>1. handler[w] \in Serving
      <4>1. handler[w] # IdleHandler
        BY <2>3, IdleFields
      <4> QED BY <4>1 DEF TypeOK, HandlerType
    <3>2. handler' = [handler EXCEPT ![w] = [handler[w] EXCEPT !.step = s]]
      BY <2>3 DEF Proceed
    <3>3. [handler[w] EXCEPT !.step = s] \in HandlerType /\ StepOK([handler[w] EXCEPT !.step = s])
      BY <2>3, <3>1 DEF HandlerType, Serving, StepOK
    <3>4. handler' \in [Workers -> HandlerType] /\ \A v \in Workers : StepOK(handler'[v])
      BY <3>2, <3>3 DEF TypeOK
    <3> QED BY <2>3, <3>4 DEF TypeOK, Proceed
  <2>4. CASE GetPromise(w)
    <3> DEFINE i == promises[handler[w].h]
    <3>1. CASE i = NoId
      BY <1>1, <2>4, <3>1 DEF GetPromise, creations, TypeOK
    <3>2. CASE i # NoId
      <4>1. handler[w] \in Serving
        <5>1. handler[w] # IdleHandler
          BY <2>4, IdleFields DEF GetPromise
        <5> QED BY <5>1 DEF TypeOK, HandlerType
      <4>2. i \in Ids
        BY <3>2, <4>1 DEF TypeOK, Serving
      <4>3. handler' = [handler EXCEPT ![w] = [[handler[w] EXCEPT !.step = "isPending"] EXCEPT !.id = i]]
            /\ UNCHANGED <<client, call, promises, creations, vols>>
        BY <2>4, <3>2 DEF GetPromise, TypeOK
      <4>4. handler[w].op # "create"
        BY <2>4 DEF GetPromise, TypeOK, StepOK
      <4>5. /\ [[handler[w] EXCEPT !.step = "isPending"] EXCEPT !.id = i] \in HandlerType
            /\ StepOK([[handler[w] EXCEPT !.step = "isPending"] EXCEPT !.id = i])
        BY <4>1, <4>2, <4>4 DEF HandlerType, Serving, StepOK
      <4>6. handler' \in [Workers -> HandlerType] /\ \A v \in Workers : StepOK(handler'[v])
        BY <4>3, <4>5 DEF TypeOK
      <4> QED BY <4>3, <4>6 DEF TypeOK, creations
    <3> QED BY <3>1, <3>2
  <2>5. CASE CheckPending(w)
    <3>1. handler[w].id \in Ids /\ handler[w].op = "wait"
      BY <2>5 DEF CheckPending, At, TypeOK, StepOK
    <3>2. CASE Respond(w, "204")
      BY <1>1, <2>5, <3>2 DEF CheckPending, creations, TypeOK
    <3>3. CASE Proceed(w, "value")
      BY <2>3, <2>5, <3>1, <3>3 DEF CheckPending, creations, TypeOK
    <3> QED BY <2>5, <3>2, <3>3 DEF CheckPending
  <2>6. CASE GetValue(w)
    BY <1>1, <2>6 DEF GetValue, creations, TypeOK
  <2>7. CASE CancelPending(w)
    <3>1. handler[w].id \in Ids /\ handler[w].op = "destroy"
      BY <2>7 DEF CancelPending, At, TypeOK, StepOK
    <3>2. \E s \in {"reject", "remove"} : Proceed(w, s)
      BY <2>7 DEF CancelPending
    <3> QED BY <2>3, <2>7, <3>1, <3>2 DEF CancelPending, creations, TypeOK
  <2>8. CASE Reject(w)
    <3>1. handler[w].id \in Ids /\ handler[w].op = "destroy"
      BY <2>8 DEF Reject, At, TypeOK, StepOK
    <3>2. CASE promise[handler[w].id] = "pending"
      BY <2>3, <2>8, <3>1, <3>2 DEF Reject, TypeOK
    <3>3. CASE promise[handler[w].id] # "pending"
      BY <1>1, <2>8, <3>3 DEF Reject, TypeOK
    <3> QED BY <3>2, <3>3
  <2>9. CASE RemovePromise(w)
    BY <1>1, <2>9 DEF RemovePromise, creations, TypeOK
  <2> QED BY <1>5, <2>1, <2>2, <2>4, <2>5, <2>6, <2>7, <2>8, <2>9 DEF Handle
<1>6. ASSUME NEW i \in Ids, Create(i) PROVE TypeOK'
  BY <1>6 DEF TypeOK, Create, DoCreate, CreationSucceeded, DestroyViaCancel, CreationFailed, requests
<1>7. ASSUME NEW h \in Handles, DestroyVolume(h) \/ CreateVolume(h) PROVE TypeOK'
  BY <1>7 DEF TypeOK, DestroyVolume, CreateVolume, creations, requests
<1>8. CASE UNCHANGED vars
  BY <1>8 DEF TypeOK, vars
<1> QED BY <1>2, <1>3, <1>4, <1>5, <1>6, <1>7, <1>8 DEF Next

\* The state of the server stays of its type: a handler has a promise whenever it
\* asks for its state.
THEOREM TypeCorrect == Spec => []TypeOK
BY TypeInit, TypeStep, PTL DEF Spec
-----------------------------------------------------------------------------
\* What one step of a handler may change.
LEMMA HandleFacts ==
  ASSUME TypeOK, NEW w \in Workers, Handle(w)
  PROVE  /\ UNCHANGED <<target, vols>>
         /\ \A v \in Workers \ {w} : handler'[v] = handler[v]
         /\ handler[w].step # "idle" /\ handler'[w].step # "add"
         /\ \/ handler'[w].id \in {handler[w].id, NoId}
            \/ \E h \in Handles : handler'[w].id = promises[h]
         /\ \A c \in Clients : client'[c].id \in {client[c].id, NoId, handler[w].id}
         /\ \/ UNCHANGED <<promises, creations>>
            \/ /\ handler[w].step = "add" /\ handler[w].id \in Ids /\ handler[w].h \in Handles
               /\ promises' = [promises EXCEPT ![handler[w].h] = handler[w].id]
               /\ creator' = [creator EXCEPT ![handler[w].id] = "create"]
               /\ UNCHANGED promise
            \/ /\ handler[w].step = "reject" /\ handler[w].id \in Ids
               /\ promise[handler[w].id] = "pending"
               /\ promise' = [promise EXCEPT ![handler[w].id] = "canceled"]
               /\ UNCHANGED <<promises, creator>>
            \/ /\ handler[w].step = "remove" /\ handler[w].h \in Handles
               /\ promises' = [promises EXCEPT ![handler[w].h] = NoId]
               /\ UNCHANGED creations
<1> DEFINE Frame == /\ \A v \in Workers \ {w} : handler'[v] = handler[v]
                    /\ handler'[w].step # "add"
                    /\ \/ handler'[w].id \in {handler[w].id, NoId}
                       \/ \E h \in Handles : handler'[w].id = promises[h]
                    /\ \A c \in Clients : client'[c].id \in {client[c].id, NoId, handler[w].id}
<1>1. ASSUME NEW status, Respond(w, status) PROVE Frame
  BY <1>1, RespondFacts, IdleFields
<1>2. handler[w] \in Serving
  <2>1. handler[w] # IdleHandler
    BY IdleFields DEF Handle, PrepareCreateFails, AddPromise, GetPromise, CheckPending, GetValue, CancelPending,
       Reject, RemovePromise, At
  <2> QED BY <2>1 DEF TypeOK, HandlerType
<1>3. ASSUME NEW s, s # "add", Proceed(w, s) PROVE Frame
  BY <1>2, <1>3 DEF Proceed, TypeOK, Serving
<1>4. handler[w].step # "idle" /\ handler[w].h \in Handles
  BY <1>2 DEF Serving
<1>5. CASE PrepareCreateFails(w) \/ CheckPending(w) \/ GetValue(w) \/ CancelPending(w)
  BY <1>1, <1>3, <1>4, <1>5 DEF PrepareCreateFails, CheckPending, GetValue, CancelPending, creations
<1>6. CASE AddPromise(w)
  BY <1>1, <1>4, <1>6 DEF AddPromise, At, creations, TypeOK, StepOK
<1>7. CASE GetPromise(w)
  <2>1. CASE promises[handler[w].h] = NoId
    BY <1>1, <1>4, <1>7, <2>1 DEF GetPromise, creations
  <2>2. CASE promises[handler[w].h] # NoId
    BY <1>2, <1>4, <1>7, <2>2 DEF GetPromise, creations, TypeOK, Serving
  <2> QED BY <2>1, <2>2
<1>8. CASE Reject(w)
  BY <1>1, <1>3, <1>4, <1>8 DEF Reject, At, creations, TypeOK, StepOK
<1>9. CASE RemovePromise(w)
  BY <1>1, <1>4, <1>9 DEF RemovePromise, At, creations
<1> QED BY <1>5, <1>6, <1>7, <1>8, <1>9 DEF Handle

\* A request for a creation: the promise it makes was known to nobody.
Posted(c, w, h, i) ==
    /\ Unused(i)
    /\ handler[w] = IdleHandler
    /\ handler'[w] = [op |-> "create", step |-> "add", h |-> h, id |-> i]
    /\ \A v \in Workers \ {w} : handler'[v] = handler[v]
    /\ client[c] = IdleClient
    /\ client'[c].pc = "create" /\ client'[c].h = h /\ client'[c].id = NoId
    /\ \A d \in Clients \ {c} : client'[d] = client[d]
    /\ promise' = [promise EXCEPT ![i] = "pending"]
    /\ target' = [target EXCEPT ![i] = h]
    /\ creator' = [creator EXCEPT ![i] = "none"]
    /\ call' = [call EXCEPT ![c] = w]
    /\ \A d \in Clients : call[d] # w
    /\ UNCHANGED <<promises, vols>>

\* PostCreate does that.
LEMMA PostFacts ==
  ASSUME TypeOK, NEW c \in Clients, NEW w \in Workers, PostCreate(c, w)
  PROVE  \E h \in Handles, i \in Ids : Posted(c, w, h, i)
<1>1. PICK h \in Handles, i \in Ids :
        /\ Unused(i)
        /\ client' = [client EXCEPT ![c].pc = "create", ![c].h = h]
        /\ handler' = [handler EXCEPT ![w] = [op |-> "create", step |-> "add", h |-> h, id |-> i]]
        /\ promise' = [promise EXCEPT ![i] = "pending"]
        /\ creator' = [creator EXCEPT ![i] = "none"]
        /\ target' = [target EXCEPT ![i] = h]
  BY DEF PostCreate
<1>2. IdleClient \in [pc : {"idle"}, h : {NoHandle}, id : {NoId}]
  BY DEF IdleClient
<1>3. client[c] = IdleClient /\ client' = [client EXCEPT ![c] = [[IdleClient EXCEPT !.pc = "create"] EXCEPT !.h = h]]
  BY <1>1 DEF TypeOK, PostCreate
<1>4. /\ client'[c].pc = "create" /\ client'[c].h = h /\ client'[c].id = NoId
      /\ \A d \in Clients \ {c} : client'[d] = client[d]
  BY <1>2, <1>3 DEF TypeOK
<1>5. /\ handler'[w] = [op |-> "create", step |-> "add", h |-> h, id |-> i]
      /\ \A v \in Workers \ {w} : handler'[v] = handler[v]
  BY <1>1 DEF TypeOK
<1> QED BY <1>1, <1>3, <1>4, <1>5 DEF PostCreate, IdleWorker, Posted

\* A promise stays private to its handler until AddPromise.
LEMMA FreshStep == TypeOK /\ FreshPromise /\ [Next]_vars => FreshPromise'
<1> SUFFICES ASSUME TypeOK, FreshPromise, [Next]_vars, NEW v \in Workers, handler'[v].step = "add"
             PROVE  Fresh(v)'
  BY DEF FreshPromise
<1>1. ASSUME handler[v].step = "add"
      PROVE  handler[v].id \in Ids /\ Fresh(v)
  BY <1>1 DEF FreshPromise, TypeOK, StepOK
<1>2. ASSUME NEW c \in Clients, NEW w \in Workers, PostCreate(c, w) PROVE Fresh(v)'
  <2>1. PICK h \in Handles, i \in Ids : Posted(c, w, h, i)
    BY <1>2, PostFacts
  <2>2. CASE v = w
    BY <2>1, <2>2, Nulls DEF Posted, Unused, TypeOK, Fresh
  <2>3. CASE v # w
    <3>1. handler'[v] = handler[v] /\ handler[v].id # i
      BY <2>1, <2>3 DEF Posted, Unused
    <3> QED BY <1>1, <2>1, <2>3, <3>1, Nulls DEF Posted, TypeOK, Fresh
  <2> QED BY <2>2, <2>3
<1>3. ASSUME NEW c \in Clients, NEW w \in Workers, Send(c, w) PROVE Fresh(v)'
  <2>1. /\ UNCHANGED <<promises, promise, creator, target, vols, client>>
        /\ handler'[w].id = NoId /\ handler'[w].step = "get"
        /\ \A u \in Workers \ {w} : handler'[u] = handler[u]
    BY <1>3 DEF Send, TypeOK
  <2> QED BY <1>1, <2>1, Nulls DEF Fresh
<1>4. ASSUME NEW c \in Clients, Disconnect(c) PROVE Fresh(v)'
  <2>1. /\ UNCHANGED <<promises, promise, creator, target, vols, handler>>
        /\ \A d \in Clients : client'[d].id \in {client[d].id, NoId}
    <3>1. \A d \in Clients \ {c} : client'[d] = client[d]
      BY <1>4 DEF Disconnect, TypeOK
    <3>2. client'[c] \in {client[c], [client[c] EXCEPT !.pc = "destroy"], IdleClient}
      BY <1>4 DEF Disconnect, TypeOK
    <3>3. [client[c] EXCEPT !.pc = "destroy"].id = client[c].id
      <4>1. CASE client[c] = IdleClient
        BY <4>1 DEF IdleClient
      <4>2. CASE client[c] # IdleClient
        BY <4>2 DEF TypeOK, ClientType
      <4> QED BY <4>1, <4>2
    <3> QED BY <1>4, <3>1, <3>2, <3>3, IdleFields DEF Disconnect
  <2> QED BY <1>1, <2>1, Nulls DEF Fresh
<1>5. ASSUME NEW w \in Workers, Handle(w) PROVE Fresh(v)'
  <2>1. v # w /\ handler'[v] = handler[v] /\ handler[v].step = "add"
    BY <1>5, HandleFacts
  <2> DEFINE i == handler[v].id
  <2>2. i \in Ids /\ Fresh(v) /\ handler[w].id # i
    BY <1>1, <2>1 DEF Fresh
  <2>3. UNCHANGED <<target, vols>> /\ promise'[i] = promise[i] /\ creator'[i] = creator[i]
    BY <1>5, <2>2, HandleFacts DEF TypeOK, creations
  <2>4. \A h \in Handles : promises'[h] \in {promises[h], NoId, handler[w].id}
    BY <1>5, HandleFacts DEF TypeOK
  <2>5. \A u \in Workers \ {v} : handler'[u].id # i
    BY <1>5, <2>2, HandleFacts, Nulls DEF Fresh
  <2>6. \A c \in Clients : client'[c].id # i
    BY <1>5, <2>2, HandleFacts, Nulls DEF Fresh
  <2> QED BY <2>1, <2>2, <2>3, <2>4, <2>5, <2>6, Nulls DEF Fresh
<1>6. ASSUME NEW j \in Ids, Create(j) PROVE Fresh(v)'
  <2>1. UNCHANGED <<promises, target, handler, client>> /\ creator[j] # "none"
    BY <1>6 DEF Create, DoCreate, CreationSucceeded, DestroyViaCancel, CreationFailed, requests
  <2>2. handler[v].id \in Ids /\ Fresh(v) /\ j # handler[v].id
    BY <1>1, <2>1 DEF Fresh
  <2>3. promise'[handler[v].id] = promise[handler[v].id] /\ creator'[handler[v].id] = creator[handler[v].id]
    BY <1>6, <2>2 DEF TypeOK, Create, DoCreate, CreationSucceeded, DestroyViaCancel, CreationFailed
  <2>4. \A h \in Handles : vols'[h] \in {vols[h], NoId, j}
    BY <1>6 DEF TypeOK, Create, DoCreate, CreationSucceeded, DestroyViaCancel, CreationFailed
  <2> QED BY <2>1, <2>2, <2>3, <2>4, Nulls DEF Fresh
<1>7. ASSUME NEW g \in Handles, DestroyVolume(g) \/ CreateVolume(g) PROVE Fresh(v)'
  BY <1>1, <1>7, Nulls DEF TypeOK, DestroyVolume, CreateVolume, creations, requests, Fresh
<1>8. CASE UNCHANGED vars
  BY <1>1, <1>8 DEF vars, Fresh
<1> QED BY <1>2, <1>3, <1>4, <1>5, <1>6, <1>7, <1>8 DEF Next

\* A volume of a creation is where the goroutine has put it, or gone.
LEMMA CreationsStep == VolumeInv /\ [Next]_vars => CreationsOK'
<1> SUFFICES ASSUME VolumeInv, [Next]_vars, NEW i \in Ids PROVE CreationOK(i)'
  BY DEF CreationsOK
<1>1. CreationOK(i) /\ TypeOK
  BY DEF VolumeInv, CreationsOK
<1>2. ASSUME promise'[i] = promise[i], creator'[i] = creator[i], target'[i] = target[i], vols' = vols
      PROVE  CreationOK(i)'
  BY <1>1, <1>2 DEF CreationOK
<1>3. ASSUME NEW c \in Clients, NEW w \in Workers, PostCreate(c, w) PROVE CreationOK(i)'
  <2>1. PICK h \in Handles, j \in Ids : Posted(c, w, h, j)
    BY <1>1, <1>3, PostFacts
  <2>2. CASE i = j
    BY <1>1, <2>1, <2>2, Nulls DEF Posted, Unused, CreationOK, TypeOK
  <2>3. CASE i # j
    BY <1>1, <1>2, <2>1, <2>3 DEF Posted, TypeOK
  <2> QED BY <2>2, <2>3
<1>4. CASE (\E c \in Clients, w \in Workers : Send(c, w)) \/ (\E c \in Clients : Disconnect(c)) \/ UNCHANGED vars
  BY <1>2, <1>4 DEF Send, Disconnect, vars
<1>5. ASSUME NEW w \in Workers, Handle(w) PROVE CreationOK(i)'
  <2>1. UNCHANGED <<target, vols>>
    BY <1>1, <1>5, HandleFacts
  <2>2. CASE UNCHANGED creations
    BY <1>2, <2>1, <2>2 DEF creations
  <2>3. CASE /\ handler[w].step = "add" /\ handler[w].id \in Ids /\ handler[w].h \in Handles
             /\ creator' = [creator EXCEPT ![handler[w].id] = "create"]
             /\ UNCHANGED promise
    <3>1. CASE i # handler[w].id
      BY <1>1, <1>2, <2>1, <2>3, <3>1 DEF TypeOK
    <3>2. CASE i = handler[w].id
      <4>1. target[i] \in Handles /\ promise[i] = "pending" /\ \A h \in Handles : vols[h] # i
        BY <2>3, <3>2 DEF VolumeInv, FreshPromise, Fresh
      <4>2. creator'[i] = "create"
        BY <1>1, <2>3, <3>2 DEF TypeOK
      <4> QED BY <2>1, <2>3, <4>1, <4>2 DEF CreationOK
    <3> QED BY <3>1, <3>2
  <2>4. CASE /\ handler[w].id \in Ids
             /\ promise[handler[w].id] = "pending"
             /\ promise' = [promise EXCEPT ![handler[w].id] = "canceled"]
             /\ UNCHANGED creator
    <3>1. CASE i # handler[w].id
      BY <1>1, <1>2, <2>1, <2>4, <3>1 DEF TypeOK
    <3>2. CASE i = handler[w].id
      BY <1>1, <2>1, <2>4, <3>2 DEF TypeOK, CreationOK
    <3> QED BY <3>1, <3>2
  <2> QED BY <1>1, <1>5, <2>2, <2>3, <2>4, HandleFacts DEF creations
<1>6. ASSUME NEW j \in Ids, Create(j) PROVE CreationOK(i)'
  <2>1. UNCHANGED target
    BY <1>6 DEF Create, DoCreate, CreationSucceeded, DestroyViaCancel, CreationFailed
  <2>2. CreationOK(j)
    BY DEF VolumeInv, CreationsOK
  <2>3. CASE DoCreate(j)
    <3>1. target[j] \in Handles /\ \A h \in Handles : vols[h] # j
      BY <2>2, <2>3 DEF DoCreate, CreationOK
    <3>2. CASE vols' = vols /\ creator' = [creator EXCEPT ![j] = "failed"]
      BY <1>1, <2>1, <2>2, <2>3, <3>2 DEF DoCreate, CreationOK, TypeOK
    <3>3. CASE vols[target[j]] = NoId /\ vols' = [vols EXCEPT ![target[j]] = j]
               /\ creator' = [creator EXCEPT ![j] = "succeeded"]
      <4>1. CASE i = j
        BY <1>1, <2>1, <2>2, <2>3, <3>1, <3>3, <4>1 DEF DoCreate, CreationOK, TypeOK
      <4>2. CASE i # j
        BY <1>1, <2>1, <2>3, <3>1, <3>3, <4>2, Nulls DEF DoCreate, CreationOK, TypeOK
      <4> QED BY <4>1, <4>2
    <3> QED BY <2>3, <3>2, <3>3 DEF DoCreate
  <2>4. CASE CreationSucceeded(j)
    BY <1>1, <2>1, <2>2, <2>4 DEF CreationSucceeded, CreationOK, TypeOK
  <2>5. CASE DestroyViaCancel(j)
    <3>1. target[j] \in Handles /\ promise[j] = "canceled" /\ (~OtherUsers => vols[target[j]] = j)
      BY <2>2, <2>5 DEF DestroyViaCancel, CreationOK
    <3>2. CASE i = j
      BY <1>1, <2>1, <2>5, <3>1, <3>2, Nulls DEF DestroyViaCancel, CreationOK, TypeOK
    <3>3. CASE i # j
      BY <1>1, <2>1, <2>5, <3>1, <3>3, Nulls DEF DestroyViaCancel, CreationOK, TypeOK
    <3> QED BY <3>2, <3>3
  <2>6. CASE CreationFailed(j)
    BY <1>1, <2>1, <2>2, <2>6 DEF CreationFailed, CreationOK, TypeOK
  <2> QED BY <1>6, <2>3, <2>4, <2>5, <2>6 DEF Create
<1>7. ASSUME NEW g \in Handles, DestroyVolume(g) \/ CreateVolume(g) PROVE CreationOK(i)'
  <2>1. OtherUsers /\ UNCHANGED creations /\ \A h \in Handles : vols'[h] \in {vols[h], NoId, Foreign}
    BY <1>1, <1>7 DEF DestroyVolume, CreateVolume, TypeOK
  <2> QED BY <1>1, <2>1, Nulls DEF CreationOK, creations
<1> QED BY <1>3, <1>4, <1>5, <1>6, <1>7 DEF Next

\* VolumeInv is an invariant.
LEMMA VolumeInvariant == Spec => []VolumeInv
<1>1. Init => VolumeInv
  BY TypeInit, IdleFields, Nulls DEF Init, VolumeInv, FreshPromise, CreationsOK, CreationOK
<1>2. VolumeInv /\ [Next]_vars => VolumeInv'
  BY TypeStep, FreshStep, CreationsStep DEF VolumeInv
<1> QED BY <1>1, <1>2, PTL DEF Spec

\* CreateVolumeAsync and its Cancel, with connections that may break at any
\* moment and whoever else uses the repository: the volume of a canceled creation
\* is gone once its goroutine has ended, unless the DestroyVolume of that goroutine
\* failed.
THEOREM CanceledDestroyedHolds == Spec => []CanceledDestroyed
<1>1. VolumeInv => CanceledDestroyed
  BY DEF VolumeInv, CreationsOK, CreationOK, CanceledDestroyed
<1> QED BY <1>1, VolumeInvariant, PTL

\* A volume whose creation was reported as successful is never taken away by a
\* creation that was canceled, not even one of the same handle.
THEOREM FulfilledStaysHolds ==
  ASSUME ~OtherUsers
  PROVE  Spec => FulfilledStays
<1> DEFINE A == \A h \in Handles, i \in Ids :
             vols[h] = i /\ promise[i] = "fulfilled" /\ vols'[h] # i => DestroyVolume(h)
<1>1. VolumeInv /\ [Next]_vars => [A]_vars
  <2> SUFFICES ASSUME VolumeInv, Next, NEW h \in Handles, NEW i \in Ids,
                      vols[h] = i, promise[i] = "fulfilled", vols'[h] # i
               PROVE  FALSE
    OBVIOUS
  <2>1. TypeOK /\ \A j \in Ids : CreationOK(j)
    BY DEF VolumeInv, CreationsOK
  <2>2. PICK j \in Ids : Create(j) /\ UNCHANGED target
    <3>1. \A c \in Clients, w \in Workers : ~PostCreate(c, w) /\ ~Send(c, w)
      BY DEF PostCreate, Send
    <3>2. \A c \in Clients : ~Disconnect(c)
      BY DEF Disconnect
    <3>3. \A w \in Workers : ~Handle(w)
      BY <2>1, HandleFacts
    <3> QED BY <3>1, <3>2, <3>3 DEF Next, DestroyVolume, CreateVolume, Create, DoCreate, CreationSucceeded,
               DestroyViaCancel, CreationFailed
  <2>3. CASE DoCreate(j)
    BY <2>1, <2>3, Nulls DEF DoCreate, CreationOK, TypeOK
  <2>4. CASE DestroyViaCancel(j)
    BY <2>1, <2>4 DEF DestroyViaCancel, CreationOK, TypeOK
  <2>5. CASE CreationSucceeded(j) \/ CreationFailed(j)
    BY <2>5 DEF CreationSucceeded, CreationFailed
  <2> QED BY <2>2, <2>3, <2>4, <2>5 DEF Create
<1> QED BY <1>1, VolumeInvariant, PTL DEF Spec, FulfilledStays
-----------------------------------------------------------------------------
\* The client whose call a handler serves, and what the response does to it.
LEMMA RespondClient ==
  ASSUME TypeOK, CallsMatch, NEW w \in Workers, NEW status, Respond(w, status),
         NEW c \in Clients, call[c] = w
  PROVE  /\ client'[c] = After(client[c], status, handler[w].id)
         /\ call'[c] = NoWorker
         /\ \A d \in Clients \ {c} : client'[d] = client[d] /\ call'[d] = call[d] /\ call[d] # w
BY Nulls DEF TypeOK, CallsMatch, Respond

\* A response takes the call and its handler away together.
LEMMA CallsRespond ==
  ASSUME TypeOK, CallsMatch, NEW w \in Workers, NEW status, Respond(w, status), handler[w] # IdleHandler
  PROVE  CallsMatch'
<1>1. PICK c \in Clients : call[c] = w
  BY DEF CallsMatch
<1>2. /\ client'[c] = After(client[c], status, handler[w].id)
      /\ call'[c] = NoWorker
      /\ \A d \in Clients \ {c} : client'[d] = client[d] /\ call'[d] = call[d] /\ call[d] # w
  BY <1>1, RespondClient
<1>3. handler'[w] = IdleHandler /\ \A v \in Workers \ {w} : handler'[v] = handler[v]
  BY RespondFacts
<1>4. client'[c].pc # "create"
  <2>1. client[c].pc \in {"create", "wait", "destroy"}
    BY <1>1, Nulls DEF CallsMatch, TypeOK, HandlerType, Serving
  <2>2. client[c] \in [pc : {"create", "wait", "destroy"}, h : Handles, id : Ids \union {NoId}]
    BY <2>1, IdleFields DEF TypeOK, ClientType
  <2> QED BY <1>2, <2>2, IdleFields DEF After
<1>5. \A d \in Clients : call'[d] # NoWorker => d # c /\ call[d] \in Workers \ {w}
  BY <1>2 DEF TypeOK
<1> QED BY <1>1, <1>2, <1>3, <1>4, <1>5 DEF CallsMatch, TypeOK

\* The same client goes on waiting while its handler proceeds.
LEMMA CallsProceed ==
  ASSUME TypeOK, CallsMatch, NEW w \in Workers, handler[w] # IdleHandler, UNCHANGED <<client, call>>,
         \A v \in Workers \ {w} : handler'[v] = handler[v],
         handler'[w].op = handler[w].op, handler'[w].h = handler[w].h,
         \A c \in Clients : call[c] = w => handler'[w].id = client[c].id
  PROVE  CallsMatch'
<1>1. \A c \in Clients : call[c] # NoWorker => call[c] \in Workers
  BY DEF TypeOK
<1> QED BY <1>1 DEF CallsMatch

\* The three parts are preserved by each step of a handler.
LEMMA ReliableHandle ==
  ASSUME ReliableInv, NEW w \in Workers, Handle(w)
  PROVE  CallsMatch' /\ FuturesKept' /\ CreatorsListed'
<1> USE DEF ReliableInv
<1>1. handler[w] \in Serving /\ handler[w] # IdleHandler
  <2>1. handler[w] # IdleHandler
    BY IdleFields DEF Handle, PrepareCreateFails, AddPromise, GetPromise, CheckPending, GetValue, CancelPending,
       Reject, RemovePromise, At
  <2> QED BY <2>1 DEF TypeOK, HandlerType
<1>2. PICK c \in Clients : call[c] = w
  BY <1>1 DEF CallsMatch
<1>3. /\ client[c].pc = handler[w].op /\ client[c].h = handler[w].h
      /\ client[c] \in [pc : {"create", "wait", "destroy"}, h : Handles, id : Ids \union {NoId}]
      /\ handler[w].step \in {"isPending", "value", "reject", "remove"} => handler[w].id = client[c].id
      /\ \A d \in Clients : call[d] = w => d = c
  <2>1. client[c].pc = handler[w].op /\ client[c].h = handler[w].h
        /\ (handler[w].step \in {"isPending", "value", "reject", "remove"} => handler[w].id = client[c].id)
        /\ \A d \in Clients : call[d] = w => d = c
    BY <1>2, Nulls DEF CallsMatch
  <2>2. client[c] # IdleClient
    BY <1>1, <2>1, IdleFields DEF Serving
  <2> QED BY <2>1, <2>2 DEF TypeOK, ClientType
<1>4. \A d \in Clients \ {c} : client[d].pc \in {"wait", "destroy"} => client[d].h \in Handles
  BY IdleFields DEF TypeOK, ClientType
<1>0. ASSUME NEW status, Respond(w, status)
      PROVE  /\ client'[c] = After(client[c], status, handler[w].id)
             /\ \A d \in Clients \ {c} : client'[d] = client[d]
  BY <1>2, <1>0, RespondClient
\* Responses that leave the list and the promises alone.
<1>5. ASSUME NEW status, Respond(w, status), UNCHANGED <<promises, creations>>,
             client'[c].pc \in {"idle", "wait", "destroy"},
             client'[c].pc \in {"wait", "destroy"} =>
                /\ client[c].pc \in {"wait", "destroy"}
                /\ client'[c].h = client[c].h /\ client'[c].id = client[c].id
                /\ client'[c].pc = "destroy" => promise[client[c].id] # "pending"
      PROVE  CallsMatch' /\ FuturesKept' /\ CreatorsListed'
  <2>1. CallsMatch'
    BY <1>1, <1>5, CallsRespond
  <2>2. CreatorsListed'
    BY <1>5 DEF CreatorsListed, creations
  <2>3. \A d \in Clients \ {c} : client'[d] = client[d]
    BY <1>2, <1>5, RespondClient
  <2>4. handler'[w].step = "idle" /\ \A v \in Workers \ {w} : handler'[v] = handler[v]
    BY <1>5, RespondFacts, IdleFields
  <2>5. FuturesKept'
    BY <1>5, <2>3, <2>4 DEF FuturesKept, creations
  <2> QED BY <2>1, <2>2, <2>5
<1>6. ASSUME NEW s, s \in {"value", "remove"}, Proceed(w, s), UNCHANGED <<promises, creations>>,
             handler[w].id = client[c].id, s = "value" => promise[handler[w].id] # "pending"
      PROVE  CallsMatch' /\ FuturesKept' /\ CreatorsListed'
  <2>1. /\ \A v \in Workers \ {w} : handler'[v] = handler[v]
        /\ handler'[w].op = handler[w].op /\ handler'[w].h = handler[w].h /\ handler'[w].id = handler[w].id
        /\ handler'[w].step = s
        /\ UNCHANGED <<client, call>>
    BY <1>1, <1>6 DEF Proceed, TypeOK, Serving
  <2>2. CallsMatch'
    BY <1>1, <1>3, <1>6, <2>1, CallsProceed
  <2>3. FuturesKept'
    BY <1>6, <2>1 DEF FuturesKept, creations
  <2> QED BY <1>6, <2>2, <2>3 DEF CreatorsListed, creations
<1>7. CASE PrepareCreateFails(w)
  <2>1. client'[c] = IdleClient
    <3>1. client[c].pc = "create" /\ Respond(w, "422")
      BY <1>3, <1>7 DEF PrepareCreateFails, At
    <3>2. client'[c] = After(client[c], "422", handler[w].id)
      BY <1>0, <3>1
    <3> QED BY <3>1, <3>2 DEF After
  <2> QED BY <1>5, <1>7, <2>1, IdleFields DEF PrepareCreateFails
<1>8. CASE AddPromise(w)
  <2> DEFINE h == handler[w].h
             i == handler[w].id
  <2>1. h \in Handles /\ i \in Ids /\ Fresh(w) /\ client[c].pc = "create"
    BY <1>1, <1>3, <1>8 DEF AddPromise, At, TypeOK, StepOK, Serving, FreshPromise
  <2>2. CASE promises[h] # NoId
    <3>1. Respond(w, "500") /\ UNCHANGED <<promises, creations>>
      BY <1>8, <2>2 DEF AddPromise, creations
    <3>2. client'[c] = IdleClient
      <4>1. client'[c] = After(client[c], "500", handler[w].id)
        BY <1>0, <3>1
      <4> QED BY <2>1, <4>1 DEF After
    <3> QED BY <1>5, <3>1, <3>2, IdleFields
  <2>3. CASE promises[h] = NoId
    <3>1. /\ Respond(w, "201") /\ promises' = [promises EXCEPT ![h] = i]
          /\ creator' = [creator EXCEPT ![i] = "create"] /\ UNCHANGED <<promise, target, vols>>
      BY <1>8, <2>3 DEF AddPromise
    <3>2. client'[c].pc = "wait" /\ client'[c].id = i /\ client'[c].h = h
      <4>1. client'[c] = [client[c] EXCEPT !.pc = "wait", !.id = i]
        <5>1. client'[c] = After(client[c], "201", i)
          BY <1>0, <3>1
        <5> QED BY <2>1, <5>1 DEF After
      <4> QED BY <1>3, <4>1
    <3>3. \A d \in Clients \ {c} : client'[d] = client[d]
      BY <1>2, <3>1, RespondClient
    <3>4. handler'[w].step = "idle" /\ \A v \in Workers \ {w} : handler'[v] = handler[v]
      BY <3>1, RespondFacts, IdleFields
    <3>5. \A d \in Clients \ {c} : client[d].pc \in {"wait", "destroy"} =>
             client[d].h # h /\ client[d].id # i /\ promises'[client[d].h] = client[d].id
      BY <1>4, <2>1, <2>3, <3>1, Nulls DEF FuturesKept, Fresh, TypeOK
    <3>6. promises'[h] = i /\ \A g \in Handles \ {h} : promises'[g] = promises[g]
      BY <2>1, <3>1 DEF TypeOK
    <3>7. FuturesKept'
      BY <2>1, <3>1, <3>2, <3>3, <3>4, <3>5, <3>6 DEF FuturesKept
    <3>8. CreatorsListed'
      <4>1. \A j \in Ids \ {i} : creator'[j] = creator[j] /\ (creator[j] # "none" => target[j] # h)
        BY <2>1, <2>3, <3>1, Nulls DEF TypeOK, CreatorsListed
      <4>2. target[i] = h /\ promise[i] = "pending"
        BY <2>1 DEF Fresh
      <4> QED BY <2>1, <3>1, <3>6, <4>1, <4>2 DEF CreatorsListed
    <3>9. CallsMatch'
      BY <1>1, <3>1, CallsRespond
    <3> QED BY <3>7, <3>8, <3>9
  <2> QED BY <2>2, <2>3
<1>9. CASE GetPromise(w)
  <2>1. client[c].pc \in {"wait", "destroy"}
    BY <1>1, <1>3, <1>9 DEF GetPromise, TypeOK, StepOK, Serving
  <2>2. promises[handler[w].h] = client[c].id /\ client[c].id \in Ids
    BY <1>3, <2>1 DEF FuturesKept
  <2>3. /\ handler' = [handler EXCEPT ![w] = [[handler[w] EXCEPT !.step = "isPending"] EXCEPT !.id = client[c].id]]
        /\ UNCHANGED <<client, call, promises, creations, vols>>
    BY <1>9, <2>2, Nulls DEF GetPromise, TypeOK
  <2>4. /\ \A v \in Workers \ {w} : handler'[v] = handler[v]
        /\ handler'[w].op = handler[w].op /\ handler'[w].h = handler[w].h
        /\ handler'[w].id = client[c].id /\ handler'[w].step = "isPending"
    BY <1>1, <2>3 DEF TypeOK, Serving
  <2>5. CallsMatch'
    BY <1>1, <1>3, <2>3, <2>4, CallsProceed
  <2>6. FuturesKept'
    BY <2>3, <2>4 DEF FuturesKept, creations
  <2> QED BY <2>3, <2>5, <2>6 DEF CreatorsListed, creations
<1>10. CASE CheckPending(w)
  <2>1. client[c].pc = "wait" /\ handler[w].id = client[c].id
    BY <1>3, <1>10 DEF CheckPending, At
  <2>2. CASE promise[handler[w].id] = "pending"
    <3>1. Respond(w, "204") /\ UNCHANGED <<promises, creations>>
      BY <1>10, <2>2 DEF CheckPending
    <3>2. client'[c] = client[c]
      <4>1. client'[c] = After(client[c], "204", handler[w].id)
        BY <1>0, <3>1
      <4> QED BY <2>1, <4>1 DEF After
    <3> QED BY <1>5, <2>1, <3>1, <3>2
  <2>3. CASE promise[handler[w].id] # "pending"
    BY <1>6, <1>10, <2>1, <2>3 DEF CheckPending
  <2> QED BY <2>2, <2>3
<1>11. CASE GetValue(w)
  <2>1. client[c].pc = "wait" /\ handler[w].id = client[c].id /\ promise[client[c].id] # "pending"
    BY <1>3, <1>11 DEF GetValue, At, FuturesKept
  <2>2. PICK status \in {"200", "500"} : Respond(w, status)
    BY <1>11 DEF GetValue
  <2>3. client'[c] = [client[c] EXCEPT !.pc = "destroy"]
    <3>1. client'[c] = After(client[c], status, handler[w].id)
      BY <1>0, <2>2
    <3> QED BY <2>1, <2>2, <3>1 DEF After
  <2>4. client'[c].pc = "destroy" /\ client'[c].h = client[c].h /\ client'[c].id = client[c].id
    BY <1>3, <2>3
  <2> QED BY <1>5, <1>11, <2>1, <2>2, <2>4 DEF GetValue
<1>12. CASE CancelPending(w)
  <2>1. handler[w].id = client[c].id /\ promise[client[c].id] # "pending"
    BY <1>3, <1>12 DEF CancelPending, At, FuturesKept
  <2> QED BY <1>6, <1>12, <2>1 DEF CancelPending
<1>13. CASE Reject(w)
  BY <1>13 DEF Reject, At, FuturesKept
<1>14. CASE RemovePromise(w)
  <2> DEFINE h == handler[w].h
  <2>1. /\ h \in Handles /\ client[c].pc = "destroy" /\ client[c].id \in Ids
        /\ promises[h] = client[c].id /\ promise[client[c].id] # "pending"
    BY <1>1, <1>3, <1>14 DEF RemovePromise, At, Serving, FuturesKept
  <2>2. Respond(w, "204") /\ promises' = [promises EXCEPT ![h] = NoId] /\ UNCHANGED creations
    BY <1>14 DEF RemovePromise
  <2>3. client'[c] = IdleClient /\ \A d \in Clients \ {c} : client'[d] = client[d]
    <3>1. client'[c] = After(client[c], "204", handler[w].id) /\ \A d \in Clients \ {c} : client'[d] = client[d]
      BY <1>0, <2>2
    <3> QED BY <2>1, <3>1 DEF After
  <2>4. \A d \in Clients \ {c} : client[d].pc \in {"wait", "destroy"} =>
           client[d].h \in Handles /\ client[d].h # h
    BY <1>4, <2>1 DEF FuturesKept
  <2>5. \A g \in Handles \ {h} : promises'[g] = promises[g]
    BY <2>1, <2>2 DEF TypeOK
  <2>6. handler'[w].step = "idle" /\ \A v \in Workers \ {w} : handler'[v] = handler[v]
    BY <2>2, RespondFacts, IdleFields
  <2>7. FuturesKept'
    <3>1. client'[c].pc = "idle"
      BY <2>3, IdleFields
    <3>2. \A d \in Clients : client'[d].pc \in {"wait", "destroy"} =>
             d # c /\ client'[d] = client[d] /\ promises'[client[d].h] = promises[client[d].h]
      BY <2>3, <2>4, <2>5, <3>1
    <3> QED BY <2>2, <2>6, <3>1, <3>2 DEF FuturesKept, creations
  <2>8. CreatorsListed'
    BY <2>1, <2>2, <2>5 DEF CreatorsListed, creations
  <2>9. CallsMatch'
    BY <1>1, <2>2, CallsRespond
  <2> QED BY <2>7, <2>8, <2>9
<1> QED BY <1>7, <1>8, <1>9, <1>10, <1>11, <1>12, <1>13, <1>14 DEF Handle

\* ReliableInv is inductive while connections hold.
LEMMA ReliableStep ==
  ASSUME ~Unreliable
  PROVE  ReliableInv /\ [Next]_vars => ReliableInv'
<1> SUFFICES ASSUME ReliableInv, [Next]_vars PROVE CallsMatch' /\ FuturesKept' /\ CreatorsListed'
  BY TypeStep, FreshStep DEF ReliableInv
<1>1. TypeOK
  BY DEF ReliableInv
<1>2. ASSUME NEW c \in Clients, NEW w \in Workers, PostCreate(c, w)
      PROVE  CallsMatch' /\ FuturesKept' /\ CreatorsListed'
  <2>1. PICK h \in Handles, i \in Ids : Posted(c, w, h, i)
    BY <1>1, <1>2, PostFacts
  <2>2. /\ call'[c] = w /\ \A d \in Clients \ {c} : call'[d] = call[d] /\ call[d] # w
        /\ handler'[w].op = "create" /\ handler'[w].h = h /\ handler'[w].step = "add" /\ handler'[w].id = i
    BY <1>1, <2>1 DEF Posted, TypeOK
  <2>3. CallsMatch'
    <3>1. \A d \in Clients \ {c} : call[d] # NoWorker => call[d] \in Workers \ {w}
      BY <1>1, <2>2 DEF TypeOK
    <3>2. call[c] = NoWorker
      <4>1. \A v \in Workers : handler[v].op # "idle"
        BY <1>1, IdleFields DEF TypeOK, HandlerType, Serving
      <4>2. client[c].pc = "idle"
        BY <2>1, IdleFields DEF Posted
      <4> QED BY <1>1, <4>1, <4>2 DEF CallsMatch, ReliableInv, TypeOK
    <3>3. /\ client'[c].pc = "create" /\ client'[c].h = h
          /\ \A d \in Clients \ {c} : client'[d] = client[d]
          /\ \A v \in Workers \ {w} : handler'[v] = handler[v]
      BY <2>1 DEF Posted
    <3> QED BY <2>2, <3>1, <3>2, <3>3, Nulls DEF CallsMatch, ReliableInv
  <2>4. FuturesKept'
    <3>1. \A j \in Ids \ {i} : promise'[j] = promise[j]
      BY <1>1, <2>1 DEF Posted, TypeOK
    <3>2. \A d \in Clients \ {c} : client'[d] = client[d] /\ client[d].id # i
      BY <2>1 DEF Posted, Unused
    <3>3. \A v \in Workers \ {w} : handler'[v] = handler[v] /\ handler[v].id # i
                                   /\ (handler[v].step = "value" => handler[v].id \in Ids)
      BY <1>1, <2>1 DEF Posted, Unused, TypeOK, StepOK
    <3>4. client'[c].pc = "create" /\ UNCHANGED promises
      BY <2>1 DEF Posted
    <3> QED BY <2>2, <3>1, <3>2, <3>3, <3>4 DEF FuturesKept, ReliableInv
  <2>5. CreatorsListed'
    BY <1>1, <2>1 DEF Posted, Unused, TypeOK, CreatorsListed, ReliableInv
  <2> QED BY <2>3, <2>4, <2>5
<1>3. ASSUME NEW c \in Clients, NEW w \in Workers, Send(c, w)
      PROVE  CallsMatch' /\ FuturesKept' /\ CreatorsListed'
  <2>1. /\ UNCHANGED <<promises, promise, creator, target, client>>
        /\ client[c].pc \in {"wait", "destroy"} /\ call[c] = NoWorker
        /\ handler'[w].op = client[c].pc /\ handler'[w].h = client[c].h
        /\ handler'[w].step = "get" /\ handler'[w].id = NoId
        /\ \A v \in Workers \ {w} : handler'[v] = handler[v]
        /\ call'[c] = w /\ \A d \in Clients \ {c} : call'[d] = call[d] /\ call[d] # w
    BY <1>1, <1>3 DEF Send, IdleWorker, TypeOK
  <2>2. CallsMatch'
    <3>1. \A d \in Clients \ {c} : call[d] # NoWorker => call[d] \in Workers \ {w}
      BY <1>1, <2>1 DEF TypeOK
    <3> QED BY <2>1, <3>1, Nulls DEF CallsMatch, ReliableInv
  <2>3. FuturesKept'
    BY <2>1 DEF FuturesKept, ReliableInv
  <2> QED BY <2>1, <2>2, <2>3 DEF CreatorsListed, ReliableInv
<1>4. ASSUME NEW j \in Ids, Create(j)
      PROVE  CallsMatch' /\ FuturesKept' /\ CreatorsListed'
  <2>1. UNCHANGED <<promises, target, handler, client, call>> /\ creator[j] # "none"
    BY <1>4 DEF Create, DoCreate, CreationSucceeded, DestroyViaCancel, CreationFailed, requests
  <2>2. CallsMatch'
    BY <2>1 DEF CallsMatch, ReliableInv
  <2>3. target[j] \in Handles /\ promise[j] = "pending" /\ promises[target[j]] = j
    BY <2>1 DEF CreatorsListed, ReliableInv
  <2>4. \A i \in Ids : promise'[i] = "pending" => promise[i] = "pending"
    BY <1>1, <1>4 DEF Create, DoCreate, CreationSucceeded, DestroyViaCancel, CreationFailed, TypeOK
  <2>5. FuturesKept'
    <3>1. \A w \in Workers : handler[w].step = "value" => handler[w].id \in Ids
      BY <1>1 DEF TypeOK, StepOK
    <3> QED BY <2>1, <2>4, <3>1 DEF FuturesKept, ReliableInv
  <2>6. CASE DoCreate(j) \/ DestroyViaCancel(j)
    BY <1>1, <2>1, <2>2, <2>5, <2>6 DEF DoCreate, DestroyViaCancel, CreatorsListed, ReliableInv, TypeOK
  <2>7. CASE CreationSucceeded(j) \/ CreationFailed(j)
    <3>1. creator'[j] = "none" /\ \A i \in Ids \ {j} : creator'[i] = creator[i] /\ promise'[i] = promise[i]
      BY <1>1, <2>3, <2>7 DEF CreationSucceeded, CreationFailed, TypeOK
    <3> QED BY <2>1, <2>2, <2>5, <3>1 DEF CreatorsListed, ReliableInv
  <2> QED BY <1>4, <2>6, <2>7 DEF Create
<1>5. CASE (\E h \in Handles : DestroyVolume(h) \/ CreateVolume(h)) \/ UNCHANGED vars
  <2>1. UNCHANGED <<promises, promise, creator, target, handler, client, call>>
    BY <1>5 DEF DestroyVolume, CreateVolume, creations, requests, vars
  <2> QED BY <2>1 DEF CallsMatch, FuturesKept, CreatorsListed, ReliableInv
<1> QED BY <1>2, <1>3, <1>4, <1>5, ReliableHandle DEF Next, Disconnect

\* ReliableInv is an invariant.
LEMMA ReliableInvariant ==
  ASSUME ~Unreliable
  PROVE  Spec => []ReliableInv
<1>1. Init => ReliableInv
  BY TypeInit, IdleFields, Nulls DEF Init, ReliableInv, FreshPromise, CallsMatch, FuturesKept, CreatorsListed
<1> QED BY <1>1, ReliableStep, PTL DEF Spec

\* As long as connections hold, a client that polls CreateVolumeAsyncCheck never
\* finds its future gone, whatever other clients do with the same handle.
THEOREM WaitFindsFutureHolds ==
  ASSUME ~Unreliable
  PROVE  Spec => []WaitFindsFuture
<1>1. ReliableInv => WaitFindsFuture
  BY DEF ReliableInv, FuturesKept, WaitFindsFuture
<1> QED BY <1>1, ReliableInvariant, PTL

\* As long as connections hold, the promise list admits one goroutine at a time
\* that creates a volume of a handle.
THEOREM OneCreationHolds ==
  ASSUME ~Unreliable
  PROVE  Spec => []OneCreation
<1>1. ReliableInv => OneCreation
  BY DEF ReliableInv, CreatorsListed, OneCreation
<1> QED BY <1>1, ReliableInvariant, PTL

=============================================================================
