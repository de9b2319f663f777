------------------------------ MODULE VolumeAPI ------------------------------
(***************************************************************************)
(* A caller of the client library, the handlers of the server and the      *)
(* volumes, over connections that may break: a request without a body is   *)
(* then sent again, although the handler of the first one still runs.      *)
(*                                                                         *)
(* The client library is ClientCalls, the handlers' responses are          *)
(* VolumeHandlers.  The repository takes one step for a call that holds    *)
(* the lock (VolumeRepository looks into it), but for SetProperty: until   *)
(* properties.json is overwritten, who reads it without the lock may find  *)
(* a file that does not decode, or that mixes the old and the new one      *)
(* (UnlockedRequests), and it stays torn when the write fails; so does     *)
(* privileged.json.  Volumes are listed, looked up and streamed out step   *)
(* by step.  A peer is the volume of another worker that volumes are       *)
(* streamed to.                                                            *)
(***************************************************************************)
EXTENDS Naturals, Sequences, FiniteSets, FiniteSetsExt

CONSTANTS Handles,
          Ids,         \* identities of volumes, numbers
          Files,       \* what is in a volume, and paths to it
          Values,      \* values of the one property
          Encodings,   \* the encodings of streams that the repository knows
          Ops,         \* bound: what callers call
          Slots,       \* handler goroutines
          Interfaces,  \* what net.Interfaces may return
          Family,      \* p2pInterfaceFamily
          PeerHost,    \* the address under which other workers reach the peer
          Faults,      \* may the repository fail?
          Unreliable,  \* may connections break?
          MaxEvents,   \* bound: changes by others and broken connections during a call
          NoId, NoSlot, NoHandle

ASSUME Switches == Faults \in BOOLEAN /\ Unreliable \in BOOLEAN
ASSUME Bounds == MaxEvents \in Nat /\ Ids \subseteq Nat
\* The empty string is no encoding, and the pattern for interfaces matches those on
\* which other workers reach this one.
ASSUME Names == "empty" \notin Encodings
ASSUME Reachable == \A ifaces \in Interfaces :
    /\ DOMAIN ifaces \subseteq Nat
    /\ \A i \in DOMAIN ifaces :
          /\ DOMAIN ifaces[i].addrs \subseteq Nat
          /\ ifaces[i].matches => \A j \in DOMAIN ifaces[i].addrs :
                ifaces[i].addrs[j].family = Family => ifaces[i].addrs[j].host = PeerHost
ASSUME Nulls == NoId \notin Ids /\ NoSlot \notin Slots /\ NoHandle \notin Handles

VARIABLES live,     \* the volume a handle names
          vol,      \* per volume
          writing,  \* the handles under whose lock properties.json is overwritten
          peer,     \* the volume of the other worker
          handler,  \* per goroutine: the request it serves
          call,     \* the caller
          url,      \* the stream-in URL the caller has got
          seen      \* history: what the volumes were during the call

vars == <<live, vol, writing, peer, handler, call, url, seen>>
volumes == <<live, vol, writing, peer>>

Server == INSTANCE VolumeHandlers
Client == INSTANCE ClientCalls

\* torn: which metadata files do not decode.
NoVolume == [priv |-> FALSE, prop |-> <<>>, torn |-> {}, files |-> {}]
\* entry: the volume of a list that is read; prop: the properties that GetVolume has read.
IdleHandler == [op |-> "none", h |-> NoHandle, arg |-> <<>>, path |-> "empty", enc |-> "empty", pc |-> "idle",
                id |-> NoId, priv |-> FALSE, prop |-> <<>>, entry |-> NoHandle, todo |-> {}, got |-> {},
                failed |-> FALSE]
\* did: a handler has done what the call asks for; fault: something failed.
NoCall == [op |-> "none", h |-> NoHandle, arg |-> <<>>, path |-> "empty", enc |-> "empty", pc |-> "idle", slot |-> NoSlot, events |-> 0,
           did |-> FALSE, fault |-> FALSE, result |-> Client!Ok]

Init == /\ live = [h \in Handles |-> NoId]
        /\ vol = [i \in Ids |-> NoVolume]
        /\ writing = {}
        /\ peer = [there |-> FALSE, files |-> {}]
        /\ handler = [s \in Slots |-> IdleHandler]
        /\ call = NoCall
        /\ url = <<>>
        /\ seen = {}

Absent == [there |-> FALSE, priv |-> FALSE, prop |-> <<>>, torn |-> {}, files |-> {}]
State(h) == IF live[h] = NoId THEN Absent
            ELSE [there |-> TRUE, priv |-> vol[live[h]].priv, prop |-> vol[live[h]].prop,
                  torn |-> vol[live[h]].torn, files |-> vol[live[h]].files]
View == [vol |-> [h \in Handles |-> State(h)], peer |-> peer.there]

(***************************************************************************)
(* The caller.                                                             *)
(***************************************************************************)
\* Requests with a body are not sent again.
HasBody == {"setProperty", "setPrivileged", "streamIn", "DestroyVolumes"}
StartsAt(op) == IF op \in {"streamOut", "streamP2pOut"} THEN "lookup" ELSE "serve"

Request(op, h, arg, path, enc) ==
    [IdleHandler EXCEPT !.op = op, !.h = h, !.arg = arg, !.path = path, !.enc = enc,
                        !.pc = StartsAt(op)]

Call(s, op, h, arg, path, enc) ==
    /\ call.pc = "idle"
    /\ op \in Ops
    /\ handler' = [handler EXCEPT ![s] = Request(op, h, arg, path, enc)]
    /\ call' = [NoCall EXCEPT !.op = op, !.h = h, !.arg = arg, !.path = path, !.enc = enc,
                              !.pc = "open", !.slot = s]
    /\ UNCHANGED <<volumes, url>>

Plain(s, op, h, arg) == Call(s, op, h, arg, "empty", "empty")

\* What the library makes of a response.
Result(response) ==
    CASE call.op = "ListVolumes" -> Client!ListVolumes(response)
      [] call.op = "LookupVolume" -> Client!LookupVolume(response)
      [] call.op = "Properties" -> Client!Properties(response)
      [] call.op = "DestroyVolume" -> Client!DestroyVolume(response)
      [] call.op = "DestroyVolumes" -> Client!DestroyVolumes(response)
      [] call.op = "destroy" -> Client!destroy(response)
      [] call.op = "getPrivileged" -> Client!getPrivileged(response)
      [] call.op = "setPrivileged" -> Client!setPrivileged(response)
      [] call.op = "setProperty" -> Client!setProperty(response)
      [] call.op = "streamIn" -> Client!streamIn(response)
      [] call.op = "streamOut" -> Client!streamOut(response)
      [] call.op = "getStreamInP2pUrl" -> Client!getStreamInP2pUrl(response, call.h, call.path)
      [] call.op = "streamP2pOut" -> Client!streamP2pOut(response)

Returned(result) == [call EXCEPT !.pc = "returned", !.slot = NoSlot, !.result = result]

\* The handler's response, which nobody may be waiting for any more.
Respond(s, response, did, fault) ==
    /\ handler' = [handler EXCEPT ![s] = IdleHandler]
    /\ LET noted == [call EXCEPT !.did = @ \/ did, !.fault = @ \/ fault] IN
       call' = IF call.slot = s
               THEN [noted EXCEPT !.pc = "returned", !.slot = NoSlot, !.result = Result(response)]
               ELSE noted
    /\ UNCHANGED url

\* The caller gets the result, keeps a URL and goes on.  Bound: no handler of
\* the call outlives it; what one might still do, others do as well.
Return ==
    /\ call.pc = "returned"
    /\ call' = NoCall
    /\ url' = IF call.op = "getStreamInP2pUrl" THEN call.result.value
              ELSE IF call.op = "streamP2pOut" THEN <<>> ELSE url
    /\ handler' = [s \in Slots |-> IdleHandler]
    /\ vol' = [i \in Ids |-> IF \E h \in Handles : live[h] = i THEN vol[i] ELSE NoVolume]
    /\ UNCHANGED <<live, writing, peer>>

\* Has the response begun?  The round tripper retries only before that.
Begun(s) == handler[s].op = "streamOut" /\ handler[s].pc = "tar" /\ handler[s].got # {}

\* The handler of a broken connection goes on, which is of no consequence if it
\* only reads.
Abandoned == IF call.op \in HasBody \union {"DestroyVolume", "destroy", "streamP2pOut"} THEN handler
             ELSE [handler EXCEPT ![call.slot] = IdleHandler]

\* retryhttp.RetryRoundTripper: the connection breaks and the request is sent
\* again.
Resend(s) ==
    /\ Unreliable
    /\ call.pc = "open"
    /\ call.op \notin HasBody
    /\ ~Begun(call.slot)
    /\ call.events < MaxEvents
    /\ s # call.slot /\ handler[s] = IdleHandler
    /\ handler' = [Abandoned EXCEPT ![s] = Request(call.op, call.h, call.arg, call.path, call.enc)]
    /\ call' = [call EXCEPT !.slot = s, !.events = @ + 1]
    /\ UNCHANGED <<volumes, url>>

\* It is not, or not any more, or the context of the call is canceled.
GiveUp ==
    /\ Unreliable
    /\ call.pc = "open"
    /\ call' = [Returned(Client!Returns("network", <<>>)) EXCEPT !.fault = TRUE]
    /\ handler' = Abandoned
    /\ UNCHANGED <<volumes, url>>

\* The error of a metadata file that cannot be opened is that of a missing volume,
\* whatever the reason.
FileErrors == {"error", "ErrVolumeDoesNotExist"}

(***************************************************************************)
(* Handlers whose call of the repository holds the lock, or is seen in one *)
(* step.                                                                   *)
(***************************************************************************)
At(s, ops, pc) == handler[s].op \in ops /\ handler[s].pc = pc
Volume(s) == live[handler[s].h]
Free(s) == handler[s].h \notin writing

Proceed(s, pc) == /\ handler' = [handler EXCEPT ![s].pc = pc]
                  /\ UNCHANGED <<volumes, call, url>>

\* Nothing reads the files of a volume that is gone, unless tar has it open.
Gone(i) == [j \in Ids |-> IF j = i /\ \A s \in Slots : handler[s].id # i THEN NoVolume ELSE vol[j]]

\* DestroyVolume moves the volume away before the driver may fail.
ServeDestroy(s) ==
    /\ At(s, {"DestroyVolume", "destroy"}, "serve")
    /\ Free(s)
    /\ \/ /\ Volume(s) = NoId
          /\ Respond(s, Server!DestroyVolume("ErrVolumeDoesNotExist"), FALSE, FALSE)
          /\ UNCHANGED volumes
       \/ /\ Volume(s) # NoId
          /\ live' = [live EXCEPT ![handler[s].h] = NoId]
          /\ vol' = Gone(Volume(s))
          /\ \/ Respond(s, Server!DestroyVolume("nil"), TRUE, FALSE)
             \/ Faults /\ Respond(s, Server!DestroyVolume("error"), TRUE, TRUE)
          /\ UNCHANGED <<writing, peer>>
       \/ /\ Faults
          /\ Respond(s, Server!DestroyVolume("error"), FALSE, TRUE)
          /\ UNCHANGED volumes

\* A goroutine for each handle of the list (see UnlockedRequests); volumes that
\* are missing are no error.
ServeDestroyVolumes(s) ==
    /\ At(s, {"DestroyVolumes"}, "serve")
    /\ \A i \in DOMAIN handler[s].arg : handler[s].arg[i] \notin writing
    /\ \E done \in SUBSET {h \in Handles : live[h] # NoId /\ \E i \in DOMAIN handler[s].arg : handler[s].arg[i] = h} :
          /\ live' = [h \in Handles |-> IF h \in done THEN NoId ELSE live[h]]
          /\ vol' = [i \in Ids |-> IF \E h \in done : live[h] = i THEN Gone(i)[i] ELSE vol[i]]
          /\ LET all == \A i \in DOMAIN handler[s].arg : live'[handler[s].arg[i]] = NoId IN
             \/ all /\ Respond(s, Server!DestroyVolumes(FALSE), TRUE, FALSE)
             \/ Faults /\ Respond(s, Server!DestroyVolumes(TRUE), all, TRUE)
    /\ UNCHANGED <<writing, peer>>

\* LoadProperties fails on a file that does not decode, and another write of it
\* is not reached.
ServeSetProperty(s) ==
    /\ At(s, {"setProperty"}, "serve")
    /\ Free(s)
    /\ \/ /\ Volume(s) = NoId
          /\ Respond(s, Server!SetProperty("ErrVolumeDoesNotExist"), FALSE, FALSE)
          /\ UNCHANGED <<vol, writing>>
       \/ /\ Volume(s) # NoId
          /\ "properties" \in vol[Volume(s)].torn
          /\ Respond(s, Server!SetProperty("error"), FALSE, FALSE)
          /\ UNCHANGED <<vol, writing>>
       \/ /\ Volume(s) # NoId
          /\ "properties" \notin vol[Volume(s)].torn
          /\ writing' = writing \union {handler[s].h}
          /\ vol' = [vol EXCEPT ![Volume(s)].torn = @ \union {"properties"}]
          /\ handler' = [handler EXCEPT ![s].pc = "store"]
          /\ UNCHANGED <<call, url>>
       \/ /\ Faults
          /\ \E err \in FileErrors : Respond(s, Server!SetProperty(err), FALSE, TRUE)
          /\ UNCHANGED <<vol, writing>>
    /\ UNCHANGED <<live, peer>>

\* The file is written, or stays as the failed write has left it.
StoreProperties(s) ==
    /\ At(s, {"setProperty"}, "store")
    /\ writing' = writing \ {handler[s].h}
    /\ \/ /\ vol' = [vol EXCEPT ![Volume(s)].prop = handler[s].arg, ![Volume(s)].torn = @ \ {"properties"}]
          /\ Respond(s, Server!SetProperty("nil"), TRUE, FALSE)
       \/ /\ Faults
          /\ Respond(s, Server!SetProperty("error"), FALSE, TRUE)
          /\ UNCHANGED vol
    /\ UNCHANGED <<live, peer>>

ServeGetPrivileged(s) ==
    /\ At(s, {"getPrivileged"}, "serve")
    /\ Free(s)
    /\ \/ /\ Volume(s) = NoId
          /\ Respond(s, Server!GetPrivileged("ErrVolumeDoesNotExist", FALSE), FALSE, FALSE)
       \/ /\ Volume(s) # NoId
          /\ "privileged" \notin vol[Volume(s)].torn
          /\ Respond(s, Server!GetPrivileged("nil", vol[Volume(s)].priv), TRUE, FALSE)
       \/ /\ Volume(s) # NoId
          /\ "privileged" \in vol[Volume(s)].torn
          /\ Respond(s, Server!GetPrivileged("error", FALSE), FALSE, FALSE)
       \/ Faults /\ \E err \in FileErrors : Respond(s, Server!GetPrivileged(err, FALSE), FALSE, TRUE)
    /\ UNCHANGED volumes

\* The old flag is not read.  A failed write may leave a file that does not
\* decode, or nothing written.
ServeSetPrivileged(s) ==
    /\ At(s, {"setPrivileged"}, "serve")
    /\ Free(s)
    /\ \/ /\ Volume(s) = NoId
          /\ Respond(s, Server!SetPrivileged("ErrVolumeDoesNotExist"), FALSE, FALSE)
          /\ UNCHANGED vol
       \/ /\ Volume(s) # NoId
          /\ vol' = [vol EXCEPT ![Volume(s)].priv = handler[s].arg[1], ![Volume(s)].torn = @ \ {"privileged"}]
          /\ Respond(s, Server!SetPrivileged("nil"), TRUE, FALSE)
       \/ /\ Faults
          /\ \/ UNCHANGED vol
             \/ Volume(s) # NoId /\ vol' = [vol EXCEPT ![Volume(s)].torn = @ \union {"privileged"}]
          /\ \E err \in FileErrors : Respond(s, Server!SetPrivileged(err), FALSE, TRUE)
    /\ UNCHANGED <<live, writing, peer>>

\* What an extraction leaves when it fails.
Part(files) == SUBSET files \ {files}

\* The archive has every file.
ServeStreamIn(s) == LET i == Volume(s) IN
    /\ At(s, {"streamIn"}, "serve")
    /\ \/ /\ i = NoId
          /\ Respond(s, Server!StreamIn("ErrVolumeDoesNotExist", FALSE), FALSE, FALSE)
          /\ UNCHANGED vol
       \/ /\ i # NoId /\ "privileged" \in vol[i].torn
          /\ Respond(s, Server!StreamIn("error", FALSE), FALSE, FALSE)
          /\ UNCHANGED vol
       \/ /\ i # NoId /\ "privileged" \notin vol[i].torn /\ handler[s].enc \notin Encodings
          /\ Respond(s, Server!StreamIn("ErrUnsupportedStreamEncoding", FALSE), FALSE, FALSE)
          /\ UNCHANGED vol
       \/ /\ i # NoId /\ "privileged" \notin vol[i].torn /\ handler[s].enc \in Encodings
          /\ vol' = [vol EXCEPT ![i].files = Files]
          /\ Respond(s, Server!StreamIn("nil", FALSE), TRUE, FALSE)
       \/ /\ Faults
          /\ i # NoId /\ handler[s].enc \in Encodings
          /\ \E part \in Part(Files) : vol' = [vol EXCEPT ![i].files = @ \union part]
          /\ \E err \in FileErrors, badStream \in BOOLEAN : Respond(s, Server!StreamIn(err, badStream), FALSE, TRUE)
    /\ UNCHANGED <<live, writing, peer>>

ServeGetP2pUrl(s) ==
    /\ At(s, {"getStreamInP2pUrl"}, "serve")
    /\ \/ Respond(s, Server!GetP2pUrl("nil", handler[s].arg, Family), TRUE, FALSE)
       \/ Faults /\ Respond(s, Server!GetP2pUrl("error", handler[s].arg, Family), FALSE, TRUE)
    /\ UNCHANGED volumes

(***************************************************************************)
(* ListVolumes and GetVolume: without the lock, and each file by its path. *)
(***************************************************************************)
\* What properties.json of the volume may be read as, if it decodes: a file that
\* is torn as any mixture.
LoadProperties(i) == IF "properties" \in vol[i].torn THEN {<<>>} \union {<<v>> : v \in Values}
                     ELSE {vol[i].prop}

Query(s) == Client!ListVolumesQuery(handler[s].arg)
\* There is one property.
HasProperties(properties, asked) == \A n \in DOMAIN asked : properties = <<asked[n]>>

\* The directory of the volumes is read first.
ServeList(s) ==
    /\ At(s, {"ListVolumes"}, "serve")
    /\ \/ /\ handler' = [handler EXCEPT ![s].pc = "volumes", ![s].todo = {h \in Handles : live[h] # NoId}]
          /\ UNCHANGED <<call, url>>
       \/ Faults /\ Respond(s, Server!ListVolumes(Query(s), "error", {}), FALSE, TRUE)
    /\ UNCHANGED volumes

\* A volume that is gone is passed over, and one that cannot be read as well.
PassOver(s, h, fault) == /\ handler' = [handler EXCEPT ![s].pc = "volumes", ![s].todo = @ \ {h}]
                         /\ call' = [call EXCEPT !.fault = @ \/ fault]

ListProperties(s) ==
    /\ At(s, {"ListVolumes"}, "volumes")
    /\ \E h \in handler[s].todo :
          \/ /\ live[h] = NoId
             /\ PassOver(s, h, FALSE)
          \/ /\ live[h] # NoId
             /\ "properties" \in vol[live[h]].torn
             /\ PassOver(s, h, FALSE)
          \/ /\ live[h] # NoId
             /\ \E properties \in LoadProperties(live[h]) :
                   IF HasProperties(properties, Server!ConvertQueryToProperties(Query(s)).properties)
                   THEN /\ handler' = [handler EXCEPT ![s].pc = "listFlag", ![s].entry = h]
                        /\ UNCHANGED call
                   ELSE PassOver(s, h, FALSE)
          \/ Faults /\ PassOver(s, h, TRUE)
    /\ UNCHANGED <<volumes, url>>

ListPrivileged(s) == LET h == handler[s].entry IN
    /\ At(s, {"ListVolumes"}, "listFlag")
    /\ \/ /\ live[h] # NoId /\ "privileged" \notin vol[live[h]].torn
          /\ handler' = [handler EXCEPT ![s].pc = "volumes", ![s].todo = @ \ {h}, ![s].got = @ \union {h}]
          /\ UNCHANGED call
       \/ /\ live[h] = NoId \/ "privileged" \in State(h).torn
          /\ PassOver(s, h, FALSE)
       \/ Faults /\ PassOver(s, h, TRUE)
    /\ UNCHANGED <<volumes, url>>

ListEnds(s) ==
    /\ At(s, {"ListVolumes"}, "volumes")
    /\ handler[s].todo = {}
    /\ Respond(s, Server!ListVolumes(Query(s), "nil", handler[s].got), TRUE, FALSE)
    /\ UNCHANGED volumes

Gets == {"LookupVolume", "Properties"}

GetFails(s, err, fault) == Respond(s, Server!GetVolume(err, <<>>), FALSE, fault) /\ UNCHANGED volumes

ServeGet(s) ==
    /\ At(s, Gets, "serve")
    /\ \/ Volume(s) = NoId /\ GetFails(s, "ErrVolumeDoesNotExist", FALSE)
       \/ Volume(s) # NoId /\ Proceed(s, "properties")
       \/ Faults /\ GetFails(s, "error", TRUE)

GetProperties(s) ==
    /\ At(s, Gets, "properties")
    /\ \/ Volume(s) = NoId /\ GetFails(s, "ErrVolumeDoesNotExist", FALSE)
       \/ /\ Volume(s) # NoId /\ "properties" \in vol[Volume(s)].torn
          /\ GetFails(s, "error", FALSE)
       \/ /\ Volume(s) # NoId
          /\ \E properties \in LoadProperties(Volume(s)) :
                handler' = [handler EXCEPT ![s].pc = "getFlag", ![s].prop = properties]
          /\ UNCHANGED <<volumes, call, url>>
       \/ Faults /\ \E err \in FileErrors : GetFails(s, err, TRUE)

GetVolumePrivileged(s) ==
    /\ At(s, Gets, "getFlag")
    /\ \/ Volume(s) = NoId /\ GetFails(s, "ErrVolumeDoesNotExist", FALSE)
       \/ /\ Volume(s) # NoId /\ "privileged" \notin vol[Volume(s)].torn
          /\ Respond(s, Server!GetVolume("nil", handler[s].prop), TRUE, FALSE)
          /\ UNCHANGED volumes
       \/ /\ Volume(s) # NoId /\ "privileged" \in vol[Volume(s)].torn
          /\ GetFails(s, "error", FALSE)
       \/ Faults /\ \E err \in FileErrors : GetFails(s, err, TRUE)

(***************************************************************************)
(* StreamOut and StreamP2pOut: the volume is looked up and read without    *)
(* the lock, by its path until the directory is open.                      *)
(***************************************************************************)
Streams == {"streamOut", "streamP2pOut"}

StreamFails(s, err, fault) ==
    /\ Respond(s, IF handler[s].op = "streamOut" THEN Server!StreamOut(err) ELSE Server!StreamP2pOut(err), FALSE, fault)
    /\ UNCHANGED volumes

\* The handler of StreamP2pOut looks at its parameters first.
StreamLookup(s) == LET r == handler[s] IN
    /\ At(s, Streams, "lookup")
    /\ IF r.op = "streamP2pOut" /\ Server!StreamP2pOutRefuses(r.path, r.arg, r.enc) THEN StreamFails(s, "badRequest", FALSE)
       ELSE IF Volume(s) = NoId THEN StreamFails(s, "ErrVolumeDoesNotExist", FALSE)
       ELSE Proceed(s, "flag")

StreamLoadPrivileged(s) ==
    /\ At(s, Streams, "flag")
    /\ \/ /\ Volume(s) = NoId
          /\ StreamFails(s, "ErrVolumeDoesNotExist", FALSE)
       \/ /\ Volume(s) # NoId /\ "privileged" \in vol[Volume(s)].torn
          /\ StreamFails(s, "error", FALSE)
       \/ /\ Volume(s) # NoId /\ "privileged" \notin vol[Volume(s)].torn
          /\ handler[s].enc \notin Encodings
          /\ StreamFails(s, "ErrUnsupportedStreamEncoding", FALSE)
       \/ /\ Volume(s) # NoId /\ "privileged" \notin vol[Volume(s)].torn
          /\ handler[s].enc \in Encodings
          /\ handler' = [handler EXCEPT ![s].pc = "stat", ![s].priv = vol[Volume(s)].priv]
          /\ UNCHANGED <<volumes, call, url>>
       \/ Faults /\ \E err \in FileErrors : StreamFails(s, err, TRUE)

\* The empty path and "." name the whole volume.
Under(path, files) == IF path \in {"empty", "."} THEN files ELSE files \cap {path}
Exists(path, files) == path \in {"empty", "."} \/ path \in files

StreamStat(s) ==
    /\ At(s, Streams, "stat")
    /\ IF Volume(s) # NoId /\ Exists(handler[s].path, vol[Volume(s)].files) THEN Proceed(s, "open")
       ELSE StreamFails(s, "notExist", FALSE)

\* tarCmd opens the directory; from here on its name does not matter.
TarCmd(s) ==
    /\ At(s, Streams, "open")
    /\ IF Volume(s) = NoId THEN StreamFails(s, "notExist", FALSE)
       ELSE /\ handler' = [handler EXCEPT ![s].pc = "list", ![s].id = Volume(s)]
            /\ UNCHANGED <<volumes, call, url>>

\* tar: reads the directory, then each file.
TarList(s) == LET r == handler[s] IN
    /\ At(s, Streams, "list")
    /\ handler' = [handler EXCEPT ![s].pc = "tar",
                                  ![s].todo = IF r.path \in {"empty", "."} THEN vol[r.id].files ELSE {r.path}]
    /\ UNCHANGED <<volumes, call, url>>

\* tar goes on after a file it cannot read, and says so when it exits.
TarRead(s) == LET r == handler[s] IN
    /\ At(s, Streams, "tar")
    /\ \E f \in r.todo :
          \/ /\ f \in vol[r.id].files
             /\ handler' = [handler EXCEPT ![s].todo = @ \ {f}, ![s].got = @ \union {f}]
             /\ UNCHANGED call
          \/ /\ f \notin vol[r.id].files \/ Faults
             /\ handler' = [handler EXCEPT ![s].todo = @ \ {f}, ![s].failed = TRUE]
             /\ call' = [call EXCEPT !.fault = TRUE]
    /\ UNCHANGED <<volumes, url>>

\* The archive goes to the response as it is made.  An error after the first
\* byte cannot change the status: its text follows the archive.
StreamOutEnds(s) == LET r == handler[s]
                        body == [files |-> r.got, namespaced |-> ~r.priv, error |-> r.failed] IN
    /\ At(s, {"streamOut"}, "tar")
    /\ r.todo = {}
    /\ \/ Respond(s, Server!Bytes(body), TRUE, FALSE) /\ UNCHANGED volumes
       \/ r.failed /\ r.got = {} /\ StreamFails(s, "exit", FALSE)

\* Mutant of StreamP2pOutEnds: does not look at the exit status.
StreamP2pOutEndsBlind(s) == /\ At(s, {"streamP2pOut"}, "tar")
                            /\ handler[s].todo = {}
                            /\ Proceed(s, "put")

\* The archive goes to a buffer, and only a whole one to the peer.
StreamP2pOutEnds(s) ==
    /\ At(s, {"streamP2pOut"}, "tar")
    /\ handler[s].todo = {}
    /\ IF handler[s].failed THEN StreamFails(s, "exit", FALSE) ELSE Proceed(s, "put")

PeerError(response) == IF response.status = 204 THEN "nil" ELSE "p2p_streaming_error"

\* The peer's StreamIn.
Put(s) == LET r == handler[s]
              Answers(err, bad, did, fault) ==
                  Respond(s, Server!StreamP2pOut(PeerError(Server!StreamIn(err, bad))), did, fault) IN
    /\ At(s, {"streamP2pOut"}, "put")
    /\ \/ /\ r.arg[1].host # PeerHost
          /\ Respond(s, Server!StreamP2pOut("error"), FALSE, FALSE)
          /\ UNCHANGED peer
       \/ /\ r.arg[1].host = PeerHost
          /\ \/ /\ ~peer.there
                /\ Answers("ErrVolumeDoesNotExist", FALSE, FALSE, FALSE)
                /\ UNCHANGED peer
             \/ /\ peer.there
                /\ peer' = [peer EXCEPT !.files = @ \union r.got]
                /\ Answers("nil", FALSE, TRUE, FALSE)
             \/ /\ peer.there /\ Faults
                /\ \E part \in Part(r.got) : peer' = [peer EXCEPT !.files = @ \union part]
                /\ \E bad \in BOOLEAN : Answers("error", bad, FALSE, TRUE)
       \/ /\ Unreliable
          /\ \/ UNCHANGED peer
             \/ peer.there /\ peer' = [peer EXCEPT !.files = @ \union r.got]
          /\ Respond(s, Server!StreamP2pOut("error"), FALSE, TRUE)
    /\ UNCHANGED <<live, vol, writing>>

(***************************************************************************)
(* Others.                                                                 *)
(***************************************************************************)
\* Bound: others change what a call that is made may notice.
Matters(ops) == call.op \in ops \/ (call.op = "none" /\ Ops \cap ops # {})

OthersChange == /\ call.pc # "returned"
                /\ call.pc = "open" => call.events < MaxEvents
                /\ call' = IF call.pc = "open" THEN [call EXCEPT !.events = @ + 1] ELSE call
                /\ UNCHANGED <<handler, url>>

Fresh == {i \in Ids : (\A h \in Handles : live[h] # i) /\ (\A s \in Slots : handler[s].id # i)}

CreateVolume(h) ==
    /\ live[h] = NoId
    /\ Fresh # {}
    /\ \E files \in SUBSET Files, priv \in BOOLEAN :
          /\ live' = [live EXCEPT ![h] = Min(Fresh)]
          /\ vol' = [vol EXCEPT ![Min(Fresh)] = [NoVolume EXCEPT !.priv = priv, !.files = files]]
    /\ OthersChange
    /\ UNCHANGED <<writing, peer>>

DestroyVolume(h) ==
    /\ live[h] # NoId
    /\ h \notin writing
    /\ live' = [live EXCEPT ![h] = NoId]
    /\ vol' = Gone(live[h])
    /\ OthersChange
    /\ UNCHANGED <<writing, peer>>

\* The driver removes the files of a volume that tar still reads.
Purge(i) ==
    /\ \A h \in Handles : live[h] # i
    /\ vol[i].files # {}
    /\ vol' = [vol EXCEPT ![i].files = {}]
    /\ UNCHANGED <<live, writing, peer, handler, call, url>>

\* A container that has the volume writes to it.
WriteFile(h, f) ==
    /\ live[h] # NoId
    /\ Matters(Streams)
    /\ vol' = [vol EXCEPT ![live[h]].files = IF f \in @ THEN @ \ {f} ELSE @ \union {f}]
    /\ OthersChange
    /\ UNCHANGED <<live, writing, peer>>

SetPrivileged(h) ==
    /\ live[h] # NoId
    /\ h \notin writing
    /\ Matters(Gets \union Streams \union {"ListVolumes", "getPrivileged", "streamIn"})
    /\ \/ \E priv \in BOOLEAN :
             vol' = [vol EXCEPT ![live[h]].priv = priv, ![live[h]].torn = @ \ {"privileged"}]
       \/ Faults /\ vol' = [vol EXCEPT ![live[h]].torn = @ \union {"privileged"}]
    /\ OthersChange
    /\ UNCHANGED <<live, writing, peer>>

SetProperty(h) ==
    /\ live[h] # NoId
    /\ h \notin writing
    /\ "properties" \notin vol[live[h]].torn
    /\ Matters(Gets \union {"ListVolumes", "setProperty"})
    /\ writing' = writing \union {h}
    /\ vol' = [vol EXCEPT ![live[h]].torn = @ \union {"properties"}]
    /\ OthersChange
    /\ UNCHANGED <<live, peer>>

PropertyStored(h) ==
    /\ h \in writing
    /\ \A s \in Slots : ~(At(s, {"setProperty"}, "store") /\ handler[s].h = h)
    /\ writing' = writing \ {h}
    /\ \/ \E v \in Values :
             vol' = [vol EXCEPT ![live[h]].prop = <<v>>, ![live[h]].torn = @ \ {"properties"}]
       \/ Faults /\ UNCHANGED vol
    /\ UNCHANGED <<live, peer, handler, call, url>>

ChangePeer ==
    /\ Matters({"streamP2pOut"})
    /\ peer' = [there |-> ~peer.there, files |-> {}]
    /\ OthersChange
    /\ UNCHANGED <<live, vol, writing>>

Paths == Files \union {"empty", "."}

Encoding == Encodings \union {"other"}

\* Bound: a caller that has a URL uses it at once, for an empty volume, and while
\* no volume has had a property set: streams do not look at properties.
Calls(s) == \E h \in Handles :
    \/ /\ url = <<>> /\ peer.files = {}
       /\ \/ \E op \in {"LookupVolume", "Properties", "DestroyVolume", "destroy", "getPrivileged"} : Plain(s, op, h, <<>>)
          \/ \E list \in {<<>>, <<h>>, <<h, h>>} : Plain(s, "DestroyVolumes", h, list)
          \/ \E b \in BOOLEAN : Plain(s, "setPrivileged", h, <<b>>)
          \/ \E v \in Values : Plain(s, "setProperty", h, <<v>>)
          \/ \E properties \in {<<>>} \union [{1} -> Values] : Plain(s, "ListVolumes", h, properties)
          \/ \E e \in Encoding : Call(s, "streamIn", h, <<>>, ".", e)
          \/ \E p \in Paths, e \in Encoding : Call(s, "streamOut", h, <<>>, p, e)
          \/ \E i \in Interfaces : Plain(s, "getStreamInP2pUrl", h, i)
    \/ /\ url # <<>> /\ peer.files = {}
       /\ \A i \in Ids : vol[i].prop = <<>> /\ "properties" \notin vol[i].torn
       /\ \E p \in Paths, e \in Encoding : Call(s, "streamP2pOut", h, url, p, e)

Handle(s) == \/ ServeDestroy(s) \/ ServeDestroyVolumes(s) \/ ServeSetProperty(s) \/ StoreProperties(s)
             \/ ServeGetPrivileged(s) \/ ServeSetPrivileged(s) \/ ServeStreamIn(s) \/ ServeGetP2pUrl(s)
             \/ ServeList(s) \/ ListProperties(s) \/ ListPrivileged(s) \/ ListEnds(s)
             \/ ServeGet(s) \/ GetProperties(s) \/ GetVolumePrivileged(s)
             \/ StreamLookup(s) \/ StreamLoadPrivileged(s) \/ StreamStat(s) \/ TarCmd(s)
             \/ TarList(s) \/ TarRead(s) \/ StreamOutEnds(s) \/ StreamP2pOutEnds(s) \/ Put(s)

Others == \/ \E h \in Handles : CreateVolume(h) \/ DestroyVolume(h) \/ SetPrivileged(h)
          \/ \E h \in Handles : SetProperty(h) \/ PropertyStored(h)
          \/ \E h \in Handles, f \in Files : WriteFile(h, f)
          \/ \E i \in Ids : Purge(i)
          \/ ChangePeer

Next == /\ \/ \E s \in Slots : Calls(s) \/ (call.pc = "open" /\ Handle(s)) \/ Resend(s)
           \/ GiveUp \/ Return \/ Others
        /\ seen' = IF call'.pc = "idle" THEN {} ELSE seen \union {View'}

Spec == Init /\ [][Next]_vars
-----------------------------------------------------------------------------
Returns == call.pc = "returned"
Succeeds == Returns /\ call.result.err = "nil"

Missing(h) == \E v \in seen : ~v.vol[h].there
Torn(h, file) == \E v \in seen : file \in v.vol[h].torn

\* A call that returns without an error has had its effect, during the call and
\* not only in one that was given up.  The library reports a volume that is
\* missing to the caller of LookupVolume in its result; to destroy it is done.
SuccessHappened == Succeeds =>
    \/ call.did
    \/ call.op = "LookupVolume" /\ call.result.value = <<>>
    \/ call.op = "DestroyVolume" /\ Missing(call.h)

\* That a volume is not found, a file is not found, which volumes have a property,
\* which property a volume has, whether it is privileged.
NotFoundTrue == Returns /\ \/ call.result.err \in {"ErrVolumeNotFound", "ErrVolumeDoesNotExist"}
                           \/ call.op = "LookupVolume" /\ call.result = Client!Ok
                => call.fault \/ Missing(call.h)
NoFileTrue == Returns /\ call.result.err = "ErrFileNotFound"
              => call.fault \/ \E v \in seen : ~v.vol[call.h].there \/ ~Exists(call.path, v.vol[call.h].files)
Listed(v, h) == v.vol[h].there /\ HasProperties(v.vol[h].prop, call.arg)
ListTrue == Succeeds /\ call.op = "ListVolumes" => \A h \in Handles :
    \/ Torn(h, "properties")
    \/ h \in call.result.value[1] /\ \E v \in seen : Listed(v, h)
    \/ h \notin call.result.value[1] /\ (call.fault \/ Torn(h, "privileged") \/ \E v \in seen : ~Listed(v, h))
PropertiesTrue == Succeeds /\ call.op = "Properties" =>
    \/ Torn(call.h, "properties")
    \/ \E v \in seen : v.vol[call.h].there /\ v.vol[call.h].prop = call.result.value[1]
PrivilegedTrue == Succeeds /\ call.op = "getPrivileged" =>
    \E v \in seen : /\ v.vol[call.h].there
                    /\ "privileged" \notin v.vol[call.h].torn
                    /\ v.vol[call.h].priv = call.result.value[1]

\* What the client says was true at some time during the call.  That something is
\* missing may also mean that a metadata file could not be opened.  What it says of the
\* properties of a volume is so unless properties.json was being overwritten, or
\* was torn, during the call; a list may then, too, lack the volume.  It also lacks
\* a volume whose privileged.json is torn, or that could not be read.
AnswerTrue == NotFoundTrue /\ NoFileTrue /\ ListTrue /\ PropertiesTrue /\ PrivilegedTrue

\* What each call reads and cannot do without.
PropertiesReaders == Gets \union {"setProperty"}
PrivilegedReaders == Gets \union Streams \union {"getPrivileged", "streamIn"}

\* An address for other workers, and the calls that need the volume.
HasAddress == \E i \in DOMAIN call.arg : /\ call.arg[i].matches
                                         /\ \E j \in DOMAIN call.arg[i].addrs : call.arg[i].addrs[j].family = Family
NeedsVolume == Gets \union Streams \union {"destroy", "getPrivileged", "setPrivileged", "setProperty", "streamIn"}

\* A call fails for a reason: something failed or was missing, a file that it reads
\* was being overwritten or torn, or its arguments are refused.  Of DestroyVolume
\* nothing is claimed: client.go:68-70 promises no error for a volume that is not
\* there, and it returns one for every status but 204.
FailureJustified == Returns /\ call.result.err # "nil" /\ call.op # "DestroyVolume" =>
    \/ call.fault
    \/ call.op \in NeedsVolume /\ Missing(call.h)
    \/ call.op \in PropertiesReaders /\ Torn(call.h, "properties")
    \/ call.op \in PrivilegedReaders /\ Torn(call.h, "privileged")
    \/ call.op \in Streams /\ \E v \in seen : ~Exists(call.path, v.vol[call.h].files)
    \/ call.op \in Streams \union {"streamIn"} /\ call.enc \notin Encodings
    \/ call.op = "streamP2pOut" /\ (call.path = "empty" \/ \E v \in seen : ~v.peer)
    \/ call.op = "getStreamInP2pUrl" /\ ~(HasAddress /\ \A i \in DOMAIN call.arg : ~call.arg[i].fails)

\* What was there from the beginning to the end of the call.
Throughout == {f \in Files : \A v \in seen : f \in Under(call.path, v.vol[call.h].files)}

\* An archive that is not followed by the text of an error has every file that
\* was there all the time, and is namespaced as the volume was.  When
\* StreamP2pOut reports success, the peer, if it is still there, has all of them.
StreamsWhole ==
    /\ Succeeds /\ call.op = "streamOut" =>
          LET archive == call.result.value[1] IN
          ~archive.error => /\ Throughout \subseteq archive.files
                            /\ \A f \in archive.files : \E v \in seen : f \in Under(call.path, v.vol[call.h].files)
                            /\ \E v \in seen : v.vol[call.h].there /\ archive.namespaced = ~v.vol[call.h].priv
    /\ Succeeds /\ call.op = "streamP2pOut" /\ peer.there => Throughout \subseteq peer.files
=============================================================================
