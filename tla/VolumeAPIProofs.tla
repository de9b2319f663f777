--------------------------- MODULE VolumeAPIProofs ---------------------------
(***************************************************************************)
(* What the client library tells its caller is true: proofs about          *)
(* VolumeAPI.                                                              *)
(*                                                                         *)
(* The properties speak of a call that has returned and of everything the  *)
(* volumes were during the call (seen).  Two facts carry the proof.  The   *)
(* present is part of the past: View is in seen, so that whatever a        *)
(* handler finds is something the call has seen, and seen only grows.      *)
(* And a handler that reads in several steps knows where its data are      *)
(* from: StreamOK relates the flag that a stream has read, the directory   *)
(* it has open and the files it has still to read to seen, ListOK the      *)
(* volumes that a list has and those it has passed over, GetOK the         *)
(* properties of a volume.                                                 *)
(***************************************************************************)
EXTENDS VolumeAPI, WellFoundedInduction, TLAPS

-----------------------------------------------------------------------------
(***************************************************************************)
(* The inductive invariant.                                                *)
(***************************************************************************)
Props == {<<>>} \union {<<v>> : v \in Values}

Contents == [priv : BOOLEAN, prop : Props, torn : SUBSET {"properties", "privileged"}, files : SUBSET Files]

\* Records keep their fields.
TypeOK ==
    /\ live \in [Handles -> Ids \union {NoId}]
    /\ vol \in [Ids -> Contents]
    /\ DOMAIN peer = {"there", "files"}
    /\ DOMAIN handler = Slots
    /\ \A s \in Slots : DOMAIN handler[s] = DOMAIN IdleHandler
    /\ DOMAIN call = DOMAIN NoCall
    /\ call.pc \in {"idle", "open", "returned"}

\* A volume has one handle.
OneHandle == \A g, h \in Handles : live[g] = live[h] /\ live[g] # NoId => g = h

\* What the present call is.
CallOK ==
    call.pc # "idle" =>
        /\ call.h \in Handles
        /\ call.op = "setPrivileged" => call.arg[1] \in BOOLEAN
        /\ call.op = "setProperty" => call.arg \in Props
        /\ call.op = "getStreamInP2pUrl" => call.arg \in Interfaces
        /\ call.op = "streamP2pOut" => call.arg # <<>> /\ call.arg[1].host = PeerHost

Serves(s) == /\ handler[s].op = call.op
             /\ handler[s].h = call.h
             /\ handler[s].arg = call.arg
             /\ handler[s].path = call.path
             /\ handler[s].enc = call.enc

\* All handlers that run serve the present call.
HandlersOK == \A s \in Slots : \/ handler[s] = IdleHandler
                               \/ call.pc = "returned"
                               \/ call.pc = "open" /\ Serves(s)

\* The present is part of the past.
Present == call.pc # "idle" => View \in seen

\* A URL leads to the peer.
Leads(u) == u = <<>> \/ u[1].host = PeerHost
UrlOK == /\ Leads(url)
         /\ call.pc = "returned" /\ call.op = "getStreamInP2pUrl" => Leads(call.result.value)

Flagged(r) == \E v \in seen : v.vol[r.h].there /\ v.vol[r.h].priv = r.priv

\* The directory that tar has open is that of the volume, or of no volume any
\* more; nothing is in it that the call has not seen in the volume.
Opened(r) == /\ r.id \in Ids
             /\ \/ live[r.h] = r.id
                \/ /\ \A h \in Handles : live[h] # r.id
                   /\ \E v \in seen : v.vol[r.h].files = {}
             /\ \A f \in vol[r.id].files : \E v \in seen : f \in v.vol[r.h].files

\* What is in the archive was in the volume, and what has been in the volume all
\* the time is in the archive or on the list, unless tar has failed.
Archived(r) == /\ r.path \notin {"empty", "."} => r.todo \subseteq {r.path}
               /\ r.failed \/ Throughout \subseteq r.got \union r.todo

StreamOK(r) ==
    /\ r.failed => call.fault
    /\ r.pc \in {"stat", "open", "list", "tar", "put"} => Flagged(r)
    /\ r.pc \in {"list", "tar"} => Opened(r)
    /\ r.pc \in {"tar", "put"} => Archived(r)
    /\ r.pc = "put" => ~r.failed /\ r.todo = {}
    /\ \A f \in r.got : \E v \in seen : f \in Under(r.path, v.vol[r.h].files)

\* What is on the list has been read as having the properties, and so has the volume
\* that is read; what is neither on it nor to be read was passed over for a reason.
Has(h) == Torn(h, "properties") \/ \E v \in seen : Listed(v, h)
Lacks(h) == \/ call.fault
            \/ Torn(h, "properties") \/ Torn(h, "privileged")
            \/ \E v \in seen : ~Listed(v, h)
ListOK(r) ==
    /\ r.pc = "serve" => r.got = {}
    /\ r.pc \in {"volumes", "listFlag"} =>
          /\ r.todo \subseteq Handles
          /\ \A h \in r.got : Has(h)
          /\ \A h \in Handles \ (r.todo \union r.got) : Lacks(h)
          /\ r.pc = "listFlag" => r.entry \in Handles /\ Has(r.entry)

\* The properties that have been read were those of the volume.
WereOf(h, prop) == Torn(h, "properties") \/ \E v \in seen : v.vol[h].there /\ v.vol[h].prop = prop
GetOK(r) == r.pc = "getFlag" => WereOf(r.h, r.prop)

Knows(r) == /\ r.op \in Streams => StreamOK(r)
            /\ r.op = "ListVolumes" => ListOK(r)
            /\ r.op \in Gets => GetOK(r)
KnowsOK == call.pc = "open" => \A s \in Slots : Knows(handler[s])

Base == TypeOK /\ OneHandle /\ CallOK /\ HandlersOK /\ Present /\ UrlOK

Answers == SuccessHappened /\ AnswerTrue /\ FailureJustified /\ StreamsWhole

ApiInv == Base /\ KnowsOK /\ Answers
-----------------------------------------------------------------------------
(***************************************************************************)
(* Operators.                                                              *)
(***************************************************************************)
\* A set of numbers that is not empty has a smallest one.
LEMMA MinFacts ==
  ASSUME NEW S, S \subseteq Nat, S # {}
  PROVE  Min(S) \in S /\ Server!Min(S) \in S
<1> DEFINE R == OpToRel(<, Nat)
<1>1. \A x, y \in Nat : <<y, x>> \notin R => x =< y
  BY DEF OpToRel
<1>2. IsWellFoundedOn(R, Nat)
  BY NatLessThanWellFounded
<1> HIDE DEF R
<1>3. PICK x \in S : \A y \in S : <<y, x>> \notin R
  BY <1>2, WFMin
<1>4. \A y \in S : x =< y
  BY <1>1, <1>3
<1> QED BY <1>4 DEF Min, Server!Min

\* The address that the server of the peer-to-peer URL gives out.
LEMMA GetP2pUrlFacts ==
  ASSUME NEW ifaces \in Interfaces
  PROVE  LET response == Server!GetP2pUrl("nil", ifaces, Family) IN
         \/ /\ response.status = 200
            /\ response.body[1] = PeerHost
         \/ /\ response.status = 500
            /\ \/ \E i \in DOMAIN ifaces : ifaces[i].fails
               \/ \A i \in DOMAIN ifaces : ifaces[i].matches =>
                     \A j \in DOMAIN ifaces[i].addrs : ifaces[i].addrs[j].family # Family
<1> DEFINE Usable(i) == {j \in DOMAIN ifaces[i].addrs : ifaces[i].addrs[j].family = Family}
           Stops == {i \in DOMAIN ifaces : ifaces[i].matches /\ (ifaces[i].fails \/ Usable(i) # {})}
           m == Server!Min(Stops)
<1>1. DOMAIN ifaces \subseteq Nat /\ \A i \in DOMAIN ifaces : Usable(i) \subseteq Nat
  BY Reachable
<1>2. CASE Stops = {}
  <2>1. Server!GetP2pUrl("nil", ifaces, Family) = Server!RespondWithError("ErrGetP2pUrlFailed", 500)
    BY <1>2 DEF Server!GetP2pUrl
  <2>2. ASSUME NEW i \in DOMAIN ifaces, ifaces[i].matches, NEW j \in DOMAIN ifaces[i].addrs
        PROVE  ifaces[i].addrs[j].family # Family
    BY <1>2, <2>2
  <2> QED BY <2>1, <2>2 DEF Server!RespondWithError
<1>3. CASE Stops # {}
  <2>1. m \in Stops
    <3>1. Stops \subseteq Nat
      BY <1>1
    <3> HIDE DEF Stops
    <3> QED BY <1>3, <3>1, MinFacts
  <2>2. CASE ifaces[m].fails
    <3>1. Server!GetP2pUrl("nil", ifaces, Family) = Server!RespondWithError("ErrGetP2pUrlFailed", 500)
      BY <2>2 DEF Server!GetP2pUrl
    <3>2. m \in DOMAIN ifaces
      BY <2>1
    <3> HIDE DEF m
    <3> QED BY <2>2, <3>1, <3>2 DEF Server!RespondWithError
  <2>3. CASE ~ifaces[m].fails
    <3>1. Usable(m) # {} /\ m \in DOMAIN ifaces /\ ifaces[m].matches
      BY <2>1, <2>3
    <3>2. Server!Min(Usable(m)) \in Usable(m)
      <4>1. Usable(m) \subseteq Nat
        BY <1>1, <3>1
      <4> HIDE DEF Usable
      <4> QED BY <3>1, <4>1, MinFacts
    <3>3. ifaces[m].addrs[Server!Min(Usable(m))].host = PeerHost
      <4> HIDE DEF m
      <4> QED BY <3>1, <3>2, Reachable
    <3>4. Server!GetP2pUrl("nil", ifaces, Family) = Server!Bytes(ifaces[m].addrs[Server!Min(Usable(m))].host)
      BY <1>3, <2>3 DEF Server!GetP2pUrl
    <3>5. Server!GetP2pUrl("nil", ifaces, Family) = Server!Bytes(PeerHost)
      BY <3>3, <3>4
    <3> QED BY <3>5 DEF Server!Bytes
  <2> QED BY <2>2, <2>3
<1> QED BY <1>2, <1>3

\* Which operation of the library makes something of a response.
LEMMA ResultFacts ==
  ASSUME NEW response
  PROVE  /\ call.op = "ListVolumes" => Result(response) = Client!ListVolumes(response)
         /\ call.op = "LookupVolume" => Result(response) = Client!LookupVolume(response)
         /\ call.op = "Properties" => Result(response) = Client!Properties(response)
         /\ call.op = "DestroyVolume" => Result(response) = Client!DestroyVolume(response)
         /\ call.op = "DestroyVolumes" => Result(response) = Client!DestroyVolumes(response)
         /\ call.op = "destroy" => Result(response) = Client!destroy(response)
         /\ call.op = "getPrivileged" => Result(response) = Client!getPrivileged(response)
         /\ call.op = "setPrivileged" => Result(response) = Client!setPrivileged(response)
         /\ call.op = "setProperty" => Result(response) = Client!setProperty(response)
         /\ call.op = "streamIn" => Result(response) = Client!streamIn(response)
         /\ call.op = "streamOut" => Result(response) = Client!streamOut(response)
         /\ call.op = "getStreamInP2pUrl" => Result(response) = Client!getStreamInP2pUrl(response, call.h, call.path)
         /\ call.op = "streamP2pOut" => Result(response) = Client!streamP2pOut(response)
BY DEF Result

\* What the library makes of the response to an error.
Uninformative(r) == r.err \notin {"nil", "ErrVolumeNotFound", "ErrVolumeDoesNotExist", "ErrFileNotFound"}

LEMMA ErrorFacts ==
  ASSUME NEW err \in {"ErrDestroyVolumeFailed", "ErrListVolumesFailed", "ErrGetVolumeFailed", "ErrSetPropertyFailed",
                      "ErrGetPrivilegedFailed", "ErrSetPrivilegedFailed", "ErrStreamInFailed", "ErrStreamOutFailed",
                      "ErrStreamOutNotFound", "ErrStreamP2pOutFailed"},
         NEW code \in {400, 404, 500}
  PROVE  LET r == Client!getError(Server!RespondWithError(err, code)) IN
         /\ err = "ErrStreamOutNotFound" => r.err = "ErrFileNotFound"
         /\ err # "ErrStreamOutNotFound" /\ code = 404 => r.err = "ErrVolumeNotFound"
         /\ err # "ErrStreamOutNotFound" /\ code # 404 => Uninformative(r)
<1>1. PICK response : response = Server!RespondWithError(err, code)
  OBVIOUS
<1>2. response.error = err /\ response.status = code
  BY <1>1 DEF Server!RespondWithError
<1>3. /\ response.error = "ErrStreamOutNotFound" => Client!getError(response) = Client!Returns("ErrFileNotFound", <<>>)
      /\ response.error \notin {"none", "ErrStreamOutNotFound"} /\ response.status = 404 =>
            Client!getError(response) = Client!Returns("ErrVolumeNotFound", <<>>)
      /\ response.error \notin {"none", "ErrStreamOutNotFound"} /\ response.status # 404 =>
            Client!getError(response) = Client!Returns(response.error, <<>>)
  BY DEF Client!getError
<1>4. PICK r : r = Client!getError(response)
  OBVIOUS
<1>5. /\ err = "ErrStreamOutNotFound" => r.err = "ErrFileNotFound"
      /\ err # "ErrStreamOutNotFound" /\ code = 404 => r.err = "ErrVolumeNotFound"
      /\ err # "ErrStreamOutNotFound" /\ code # 404 => r.err = err
  BY <1>2, <1>3, <1>4 DEF Client!Returns
<1>6. r = Client!getError(Server!RespondWithError(err, code))
  BY <1>1, <1>4
<1> QED BY <1>5, <1>6 DEF Uninformative

\* The response of each handler to what the repository may return.
LEMMA ServerFacts ==
  /\ Server!DestroyVolume("nil") = Server!Status(204)
  /\ Server!DestroyVolume("ErrVolumeDoesNotExist") = Server!RespondWithError("ErrDestroyVolumeFailed", 404)
  /\ Server!DestroyVolume("error") = Server!RespondWithError("ErrDestroyVolumeFailed", 500)
  /\ Server!DestroyVolumes(FALSE) = Server!Status(204)
  /\ Server!DestroyVolumes(TRUE) = Server!RespondWithError("ErrDestroyVolumeFailed", 500)
  /\ \A volume : Server!GetVolume("nil", volume) = Server!Json(volume)
  /\ \A volume : Server!GetVolume("ErrVolumeDoesNotExist", volume) = Server!RespondWithError("ErrGetVolumeFailed", 404)
  /\ \A volume : Server!GetVolume("error", volume) = Server!RespondWithError("ErrGetVolumeFailed", 500)
  /\ Server!SetProperty("nil") = Server!Status(204)
  /\ Server!SetProperty("ErrVolumeDoesNotExist") = Server!RespondWithError("ErrSetPropertyFailed", 404)
  /\ Server!SetProperty("error") = Server!RespondWithError("ErrSetPropertyFailed", 500)
  /\ \A p : Server!GetPrivileged("nil", p) = Server!Json(p)
  /\ \A p : Server!GetPrivileged("ErrVolumeDoesNotExist", p) = Server!RespondWithError("ErrGetPrivilegedFailed", 404)
  /\ \A p : Server!GetPrivileged("error", p) = Server!RespondWithError("ErrGetPrivilegedFailed", 500)
  /\ Server!SetPrivileged("nil") = Server!Status(204)
  /\ Server!SetPrivileged("ErrVolumeDoesNotExist") = Server!RespondWithError("ErrSetPrivilegedFailed", 404)
  /\ Server!SetPrivileged("error") = Server!RespondWithError("ErrSetPrivilegedFailed", 500)
BY DEF Server!DestroyVolume, Server!DestroyVolumes, Server!GetVolume, Server!SetProperty, Server!GetPrivileged,
       Server!SetPrivileged

\* The same for streams.
LEMMA ServerStreamInFacts ==
  /\ Server!StreamIn("nil", FALSE) = Server!Status(204)
  /\ Server!StreamIn("ErrVolumeDoesNotExist", FALSE) = Server!RespondWithError("ErrStreamInFailed", 404)
  /\ Server!StreamIn("ErrUnsupportedStreamEncoding", FALSE) = Server!RespondWithError("ErrStreamInFailed", 400)
  /\ Server!StreamIn("ErrVolumeDoesNotExist", TRUE) = Server!RespondWithError("ErrStreamInFailed", 404)
  /\ Server!StreamIn("error", TRUE) = Server!RespondWithError("ErrStreamInFailed", 400)
  /\ Server!StreamIn("error", FALSE) = Server!RespondWithError("ErrStreamInFailed", 500)
BY DEF Server!StreamIn

LEMMA ServerStreamFacts ==
  /\ Server!StreamOut("ErrVolumeDoesNotExist") = Server!RespondWithError("ErrStreamOutFailed", 404)
  /\ Server!StreamOut("ErrUnsupportedStreamEncoding") = Server!RespondWithError("ErrStreamOutFailed", 400)
  /\ Server!StreamOut("notExist") = Server!RespondWithError("ErrStreamOutNotFound", 404)
  /\ Server!StreamOut("error") = Server!RespondWithError("ErrStreamOutFailed", 500)
  /\ Server!StreamOut("exit") = Server!RespondWithError("ErrStreamOutFailed", 500)
  /\ Server!StreamP2pOut("nil") = Server!Status(200)
  /\ Server!StreamP2pOut("ErrVolumeDoesNotExist") = Server!RespondWithError("ErrStreamOutNotFound", 404)
  /\ Server!StreamP2pOut("notExist") = Server!RespondWithError("ErrStreamOutNotFound", 404)
  /\ Server!StreamP2pOut("badRequest") = Server!RespondWithError("ErrStreamP2pOutFailed", 400)
  /\ Server!StreamP2pOut("ErrUnsupportedStreamEncoding") = Server!RespondWithError("ErrStreamP2pOutFailed", 400)
  /\ Server!StreamP2pOut("error") = Server!RespondWithError("ErrStreamP2pOutFailed", 500)
  /\ Server!StreamP2pOut("exit") = Server!RespondWithError("ErrStreamP2pOutFailed", 500)
  /\ Server!StreamP2pOut("p2p_streaming_error") = Server!RespondWithError("ErrStreamP2pOutFailed", 500)
BY DEF Server!StreamOut, Server!StreamP2pOut

\* The fields of responses and results.
LEMMA ResponseFields ==
  /\ \A code : Server!Status(code).status = code
  /\ \A x : Server!Json(x).status = 200 /\ Server!Json(x).json /\ Server!Json(x).body = <<x>>
  /\ \A x : Server!Bytes(x).status = 200 /\ Server!Bytes(x).body = <<x>>
  /\ \A err, code : Server!RespondWithError(err, code).status = code
  /\ \A err, value : Client!Returns(err, value).err = err /\ Client!Returns(err, value).value = value
  /\ Client!Ok.err = "nil" /\ Client!Ok.value = <<>>
BY DEF Server!Status, Server!Json, Server!Bytes, Server!RespondWithError, Client!Returns, Client!Ok
-----------------------------------------------------------------------------
(***************************************************************************)
(* What the caller gets for each response.                                 *)
(***************************************************************************)
NotFound(r) == r.err = "ErrVolumeNotFound"
NoFile(r) == r.err = "ErrFileNotFound"

LEMMA DestroyOutcome ==
  ASSUME call.op \in {"DestroyVolume", "destroy"}
  PROVE  /\ Result(Server!DestroyVolume("nil")) = Client!Ok
         /\ NotFound(Result(Server!DestroyVolume("ErrVolumeDoesNotExist")))
            \/ Uninformative(Result(Server!DestroyVolume("ErrVolumeDoesNotExist")))
         /\ Uninformative(Result(Server!DestroyVolume("error")))
<1>1. CASE call.op = "DestroyVolume"
  BY <1>1, ResultFacts, ServerFacts, ResponseFields DEF Client!DestroyVolume, Uninformative
<1>2. CASE call.op = "destroy"
  BY <1>2, ResultFacts, ServerFacts, ErrorFacts, ResponseFields DEF Client!destroy, NotFound
<1> QED BY <1>1, <1>2

LEMMA DestroyVolumesOutcome ==
  ASSUME call.op = "DestroyVolumes"
  PROVE  /\ Result(Server!DestroyVolumes(FALSE)) = Client!Ok
         /\ Uninformative(Result(Server!DestroyVolumes(TRUE)))
<1>1. Result(Server!Status(204)) = Client!Ok
  BY ResultFacts, ResponseFields DEF Client!DestroyVolumes
<1>2. Result(Server!RespondWithError("ErrDestroyVolumeFailed", 500)) = Client!Returns("ErrVolumeDeletion", <<>>)
  BY ResultFacts, ResponseFields DEF Client!DestroyVolumes
<1>3. Uninformative(Result(Server!RespondWithError("ErrDestroyVolumeFailed", 500)))
  BY <1>2, ResponseFields DEF Uninformative
<1> QED BY <1>1, <1>3, ServerFacts, Zenon

\* The library's query has one value for each property, so that the server does
\* not refuse it and asks for the same properties.
LEMMA QueryFacts ==
  ASSUME NEW properties
  PROVE  LET asked == Server!ConvertQueryToProperties(Client!ListVolumesQuery(properties)) IN
         /\ ~asked.err
         /\ DOMAIN asked.properties = DOMAIN properties
         /\ \A n \in DOMAIN properties : asked.properties[n] = properties[n]
<1>1. PICK query : query = Client!ListVolumesQuery(properties)
  OBVIOUS
<1>2. DOMAIN query = DOMAIN properties /\ \A n \in DOMAIN properties : query[n] = <<properties[n]>>
  BY <1>1 DEF Client!ListVolumesQuery
<1>3. \A n \in DOMAIN query : ~(Len(query[n]) > 1)
  BY <1>2
<1>4. PICK asked : asked = Server!ConvertQueryToProperties(query)
  OBVIOUS
<1>5. asked = [err |-> FALSE, properties |-> [n \in DOMAIN query |-> query[n][1]]]
  BY <1>3, <1>4 DEF Server!ConvertQueryToProperties
<1> QED BY <1>1, <1>2, <1>4, <1>5

LEMMA ListVolumesOutcome ==
  ASSUME call.op = "ListVolumes", NEW properties, NEW S
  PROVE  LET query == Client!ListVolumesQuery(properties) IN
         /\ Result(Server!ListVolumes(query, "nil", S)) = Client!Returns("nil", <<S>>)
         /\ Uninformative(Result(Server!ListVolumes(query, "error", S)))
<1>1. PICK query : query = Client!ListVolumesQuery(properties)
  OBVIOUS
<1>2. ~Server!ConvertQueryToProperties(query).err
  BY <1>1, QueryFacts
<1>3. /\ Server!ListVolumes(query, "nil", S) = Server!Json(S)
      /\ Server!ListVolumes(query, "error", S) = Server!RespondWithError("ErrListVolumesFailed", 500)
  BY <1>2 DEF Server!ListVolumes
<1>4. \A r : /\ r.status # 200 => Client!ListVolumes(r) = Client!getError(r)
             /\ r.status = 200 /\ r.json => Client!ListVolumes(r) = Client!Returns("nil", r.body)
  BY DEF Client!ListVolumes
<1>5. Result(Server!Json(S)) = Client!Returns("nil", <<S>>)
  BY <1>4, ResultFacts, ResponseFields
<1>6. Uninformative(Result(Server!RespondWithError("ErrListVolumesFailed", 500)))
  BY <1>4, ResultFacts, ResponseFields, ErrorFacts
<1> QED BY <1>1, <1>3, <1>5, <1>6

LEMMA GetVolumeOutcome ==
  ASSUME call.op \in {"LookupVolume", "Properties"}, NEW volume
  PROVE  /\ Result(Server!GetVolume("nil", volume)) = Client!Returns("nil", <<volume>>)
         /\ call.op = "LookupVolume" => Result(Server!GetVolume("ErrVolumeDoesNotExist", volume)) = Client!Ok
         /\ call.op = "Properties" =>
               Result(Server!GetVolume("ErrVolumeDoesNotExist", volume)).err = "ErrVolumeDoesNotExist"
         /\ Uninformative(Result(Server!GetVolume("error", volume)))
<1>1. \A r : /\ r.status = 404 => Client!getVolumeResponse(r) = Client!Ok
             /\ r.status \notin {200, 404} => Client!getVolumeResponse(r) = Client!getError(r)
             /\ r.status = 200 /\ r.json => Client!getVolumeResponse(r) = Client!Returns("nil", r.body)
  <2> TAKE r
  <2>1. r.status = 404 => r.status # 200 /\ r.status \in {200, 404}
    OBVIOUS
  <2>2. r.status = 404 => Client!getVolumeResponse(r) = Client!Ok
    BY <2>1, Zenon DEF Client!getVolumeResponse
  <2>3. r.status \notin {200, 404} => Client!getVolumeResponse(r) = Client!getError(r)
    BY Zenon DEF Client!getVolumeResponse
  <2>4. r.status = 200 /\ r.json => Client!getVolumeResponse(r) = Client!Returns("nil", r.body)
    <3>1. r.status = 200 => r.status # 404 /\ r.status \in {200, 404}
      OBVIOUS
    <3> QED BY <3>1, Zenon DEF Client!getVolumeResponse
  <2> QED BY <2>2, <2>3, <2>4
<1>2. /\ Client!getVolumeResponse(Server!Json(volume)) = Client!Returns("nil", <<volume>>)
      /\ Client!getVolumeResponse(Server!RespondWithError("ErrGetVolumeFailed", 404)) = Client!Ok
      /\ Uninformative(Client!getVolumeResponse(Server!RespondWithError("ErrGetVolumeFailed", 500)))
  BY <1>1, ResponseFields, ErrorFacts
<1>3. CASE call.op = "LookupVolume"
  BY <1>2, <1>3, ResultFacts, ServerFacts DEF Client!LookupVolume
<1>4. CASE call.op = "Properties"
  <2>1. <<volume>> # <<>>
    OBVIOUS
  <2>2. \A r : /\ Client!getVolumeResponse(r) = Client!Ok => Client!Properties(r).err = "ErrVolumeDoesNotExist"
               /\ Client!getVolumeResponse(r) = Client!Returns("nil", <<volume>>) =>
                     Client!Properties(r) = Client!getVolumeResponse(r)
               /\ Uninformative(Client!getVolumeResponse(r)) => Client!Properties(r) = Client!getVolumeResponse(r)
    BY <2>1, ResponseFields DEF Client!Properties, Uninformative
  <2> QED BY <1>2, <1>4, <2>2, ResultFacts, ServerFacts
<1> QED BY <1>3, <1>4

LEMMA SetPropertyOutcome ==
  ASSUME call.op = "setProperty"
  PROVE  /\ Result(Server!SetProperty("nil")) = Client!Ok
         /\ NotFound(Result(Server!SetProperty("ErrVolumeDoesNotExist")))
         /\ Uninformative(Result(Server!SetProperty("error")))
BY ResultFacts, ServerFacts, ErrorFacts, ResponseFields DEF Client!setProperty, NotFound

LEMMA SetPrivilegedOutcome ==
  ASSUME call.op = "setPrivileged"
  PROVE  /\ Result(Server!SetPrivileged("nil")) = Client!Ok
         /\ NotFound(Result(Server!SetPrivileged("ErrVolumeDoesNotExist")))
         /\ Uninformative(Result(Server!SetPrivileged("error")))
BY ResultFacts, ServerFacts, ErrorFacts, ResponseFields DEF Client!setPrivileged, NotFound

LEMMA GetPrivilegedOutcome ==
  ASSUME call.op = "getPrivileged", NEW p
  PROVE  /\ Result(Server!GetPrivileged("nil", p)) = Client!Returns("nil", <<p>>)
         /\ NotFound(Result(Server!GetPrivileged("ErrVolumeDoesNotExist", p)))
         /\ Uninformative(Result(Server!GetPrivileged("error", p)))
BY ResultFacts, ServerFacts, ErrorFacts, ResponseFields DEF Client!getPrivileged, NotFound

LEMMA StreamInOutcome ==
  ASSUME call.op = "streamIn"
  PROVE  /\ Result(Server!StreamIn("nil", FALSE)) = Client!Ok
         /\ \A bad \in BOOLEAN : NotFound(Result(Server!StreamIn("ErrVolumeDoesNotExist", bad)))
         /\ Uninformative(Result(Server!StreamIn("ErrUnsupportedStreamEncoding", FALSE)))
         /\ \A bad \in BOOLEAN : Uninformative(Result(Server!StreamIn("error", bad)))
<1>1. \A r : /\ r.status = 204 => Result(r) = Client!Ok
             /\ r.status # 204 => Result(r) = Client!getError(r)
  BY ResultFacts DEF Client!streamIn
<1>2. Result(Server!Status(204)) = Client!Ok
  BY <1>1, ResponseFields
<1>3. NotFound(Result(Server!RespondWithError("ErrStreamInFailed", 404)))
  BY <1>1, ErrorFacts, ResponseFields DEF NotFound
<1>4. \A code \in {400, 500} : Uninformative(Result(Server!RespondWithError("ErrStreamInFailed", code)))
  BY <1>1, ErrorFacts, ResponseFields
<1>5. ASSUME NEW bad \in BOOLEAN
      PROVE  Server!StreamIn("error", bad) \in {Server!RespondWithError("ErrStreamInFailed", 400),
                                               Server!RespondWithError("ErrStreamInFailed", 500)}
  <2>1. CASE bad = TRUE
    BY <2>1, ServerStreamInFacts, Zenon
  <2>2. CASE bad = FALSE
    BY <2>2, ServerStreamInFacts, Zenon
  <2> QED BY <2>1, <2>2
<1>6. \A bad \in BOOLEAN : Uninformative(Result(Server!StreamIn("error", bad)))
  BY <1>4, <1>5
<1>7. Result(Server!StreamIn("nil", FALSE)) = Client!Ok
  BY <1>2, ServerStreamInFacts, Zenon
<1>8. ASSUME NEW bad \in BOOLEAN
      PROVE  NotFound(Result(Server!StreamIn("ErrVolumeDoesNotExist", bad)))
  <2>1. CASE bad = TRUE
    BY <1>3, <2>1, ServerStreamInFacts, Zenon
  <2>2. CASE bad = FALSE
    BY <1>3, <2>2, ServerStreamInFacts, Zenon
  <2> QED BY <2>1, <2>2
<1>9. Uninformative(Result(Server!StreamIn("ErrUnsupportedStreamEncoding", FALSE)))
  <2>1. Uninformative(Result(Server!RespondWithError("ErrStreamInFailed", 400)))
    BY <1>4
  <2> QED BY <2>1, ServerStreamInFacts, Zenon
<1> QED BY <1>6, <1>7, <1>8, <1>9

LEMMA StreamOutOutcome ==
  ASSUME call.op = "streamOut"
  PROVE  /\ \A body : Result(Server!Bytes(body)) = Client!Returns("nil", <<body>>)
         /\ NotFound(Result(Server!StreamOut("ErrVolumeDoesNotExist")))
         /\ NoFile(Result(Server!StreamOut("notExist")))
         /\ \A err \in {"ErrUnsupportedStreamEncoding", "error", "exit"} : Uninformative(Result(Server!StreamOut(err)))
<1>1. \A r : /\ r.status = 200 => Result(r) = Client!Returns("nil", r.body)
             /\ r.status # 200 => Result(r) = Client!getError(r)
  BY ResultFacts DEF Client!streamOut
<1>2. \A err \in {"ErrStreamOutFailed", "ErrStreamOutNotFound"}, code \in {400, 404, 500} :
         Result(Server!RespondWithError(err, code)) = Client!getError(Server!RespondWithError(err, code))
  BY <1>1, ResponseFields
<1>3. \A body : Result(Server!Bytes(body)) = Client!Returns("nil", <<body>>)
  BY <1>1, ResponseFields
<1>4. NotFound(Result(Server!RespondWithError("ErrStreamOutFailed", 404)))
  BY <1>2, ErrorFacts DEF NotFound
<1>5. NoFile(Result(Server!RespondWithError("ErrStreamOutNotFound", 404)))
  BY <1>2, ErrorFacts DEF NoFile
<1>6. \A code \in {400, 500} : Uninformative(Result(Server!RespondWithError("ErrStreamOutFailed", code)))
  BY <1>2, ErrorFacts
<1>7. \A err \in {"ErrUnsupportedStreamEncoding", "error", "exit"} :
         \E code \in {400, 500} : Server!StreamOut(err) = Server!RespondWithError("ErrStreamOutFailed", code)
  BY ServerStreamFacts
<1> QED BY <1>3, <1>4, <1>5, <1>6, <1>7, ServerStreamFacts

LEMMA StreamP2pOutOutcome ==
  ASSUME call.op = "streamP2pOut"
  PROVE  /\ Result(Server!StreamP2pOut("nil")) = Client!Ok
         /\ NoFile(Result(Server!StreamP2pOut("ErrVolumeDoesNotExist")))
         /\ NoFile(Result(Server!StreamP2pOut("notExist")))
         /\ \A err \in {"badRequest", "ErrUnsupportedStreamEncoding", "error", "exit", "p2p_streaming_error"} :
               Uninformative(Result(Server!StreamP2pOut(err)))
<1>1. \A r : /\ r.status = 200 => Result(r) = Client!Ok
             /\ r.status # 200 => Result(r) = Client!getError(r)
  BY ResultFacts DEF Client!streamP2pOut
<1>2. \A err \in {"ErrStreamP2pOutFailed", "ErrStreamOutNotFound"}, code \in {400, 404, 500} :
         Result(Server!RespondWithError(err, code)) = Client!getError(Server!RespondWithError(err, code))
  BY <1>1, ResponseFields
<1>3. Result(Server!Status(200)) = Client!Ok
  BY <1>1, ResponseFields
<1>4. NoFile(Result(Server!RespondWithError("ErrStreamOutNotFound", 404)))
  BY <1>2, ErrorFacts DEF NoFile
<1>5. \A code \in {400, 500} : Uninformative(Result(Server!RespondWithError("ErrStreamP2pOutFailed", code)))
  BY <1>2, ErrorFacts
<1>6. \A err \in {"badRequest", "ErrUnsupportedStreamEncoding", "error", "exit", "p2p_streaming_error"} :
         \E code \in {400, 500} : Server!StreamP2pOut(err) = Server!RespondWithError("ErrStreamP2pOutFailed", code)
  BY ServerStreamFacts
<1> QED BY <1>3, <1>4, <1>5, <1>6, ServerStreamFacts

LEMMA GetP2pUrlOutcome ==
  ASSUME call.op = "getStreamInP2pUrl", call.arg \in Interfaces
  PROVE  /\ LET r == Result(Server!GetP2pUrl("nil", call.arg, Family)) IN
            /\ Leads(r.value)
            /\ \/ r.err = "nil"
               \/ /\ Uninformative(r)
                  /\ ~(HasAddress /\ \A i \in DOMAIN call.arg : ~call.arg[i].fails)
         /\ LET r == Result(Server!GetP2pUrl("error", call.arg, Family)) IN Leads(r.value) /\ Uninformative(r)
<1>1. PICK response : response = Server!GetP2pUrl("nil", call.arg, Family)
  OBVIOUS
<1>2. \/ /\ response.status = 200
         /\ response.body[1] = PeerHost
      \/ /\ response.status = 500
         /\ ~(HasAddress /\ \A i \in DOMAIN call.arg : ~call.arg[i].fails)
  BY <1>1, GetP2pUrlFacts DEF HasAddress
<1>3. PICK r : r = Result(response)
  OBVIOUS
<1>4. r = Client!getStreamInP2pUrl(response, call.h, call.path)
  BY <1>3, ResultFacts
<1>5. /\ Leads(r.value)
      /\ \/ r.err = "nil"
         \/ /\ Uninformative(r)
            /\ ~(HasAddress /\ \A i \in DOMAIN call.arg : ~call.arg[i].fails)
  <2>1. CASE response.status = 200
    <3>1. r = Client!Returns("nil", <<[host |-> response.body[1], h |-> call.h, path |-> call.path]>>)
      BY <1>4, <2>1 DEF Client!getStreamInP2pUrl
    <3>2. r.err = "nil" /\ r.value = <<[host |-> response.body[1], h |-> call.h, path |-> call.path]>>
      BY <3>1, ResponseFields
    <3>3. r.value[1].host = PeerHost
      BY <1>2, <2>1, <3>2
    <3> QED BY <3>2, <3>3 DEF Leads
  <2>2. CASE response.status = 500
    <3>1. r = Client!Returns("failed_to_get_p2p_url", <<>>)
      BY <1>4, <2>2 DEF Client!getStreamInP2pUrl
    <3>2. r.err = "failed_to_get_p2p_url" /\ r.value = <<>>
      BY <3>1, ResponseFields
    <3> QED BY <1>2, <2>2, <3>2 DEF Leads, Uninformative
  <2> QED BY <1>2, <2>1, <2>2
<1>6. PICK failure : failure = Server!GetP2pUrl("error", call.arg, Family)
  OBVIOUS
<1>7. failure.status = 500
  <2>1. failure = Server!RespondWithError("ErrGetP2pUrlFailed", 500)
    <3>1. "error" # "nil"
      OBVIOUS
    <3> QED BY <1>6, <3>1, Zenon DEF Server!GetP2pUrl
  <2> QED BY <2>1, ResponseFields
<1>8. PICK q : q = Result(failure)
  OBVIOUS
<1>9. q = Client!getStreamInP2pUrl(failure, call.h, call.path)
  BY <1>8, ResultFacts
<1>10. q = Client!Returns("failed_to_get_p2p_url", <<>>)
  BY <1>7, <1>9 DEF Client!getStreamInP2pUrl
<1>11. q.err = "failed_to_get_p2p_url" /\ q.value = <<>>
  BY <1>10, ResponseFields
<1>12. Leads(q.value) /\ Uninformative(q)
  BY <1>11 DEF Leads, Uninformative
<1> QED BY <1>1, <1>3, <1>5, <1>6, <1>8, <1>12, Zenon
-----------------------------------------------------------------------------
(***************************************************************************)
(* What the parts of a step do.                                            *)
(***************************************************************************)
\* The fields of what is idle.
LEMMA IdleFields ==
  /\ IdleHandler.op = "none" /\ IdleHandler.id = NoId /\ IdleHandler.pc = "idle"
  /\ IdleHandler.got = {} /\ IdleHandler.failed = FALSE
  /\ NoCall.pc = "idle" /\ NoCall.op = "none" /\ NoCall.fault = FALSE
BY DEF IdleHandler, NoCall

\* The fields of a request that has just come in.
LEMMA RequestFields ==
  ASSUME NEW op, NEW h, NEW arg, NEW path, NEW enc
  PROVE  LET r == Request(op, h, arg, path, enc) IN
         /\ DOMAIN r = DOMAIN IdleHandler
         /\ r.op = op /\ r.h = h /\ r.arg = arg /\ r.path = path /\ r.enc = enc
         /\ r.pc \in {"lookup", "serve"} /\ r.id = NoId /\ r.got = {} /\ ~r.failed
<1>1. PICK r : r = Request(op, h, arg, path, enc)
  OBVIOUS
<1>2. r = [op |-> op, h |-> h, arg |-> arg, path |-> path, enc |-> enc, pc |-> StartsAt(op),
           id |-> NoId, priv |-> FALSE, prop |-> <<>>, entry |-> NoHandle, todo |-> {}, got |-> {}, failed |-> FALSE]
  BY <1>1 DEF Request, IdleHandler
<1>3. StartsAt(op) \in {"lookup", "serve"}
  BY DEF StartsAt
<1> HIDE DEF StartsAt
<1>4. /\ r.op = op /\ r.h = h /\ r.arg = arg /\ r.path = path /\ r.enc = enc
      /\ r.pc \in {"lookup", "serve"} /\ r.id = NoId /\ r.got = {} /\ ~r.failed
  BY <1>2, <1>3
<1>5. DOMAIN r = DOMAIN IdleHandler
  BY <1>2 DEF IdleHandler
<1> QED BY <1>1, <1>4, <1>5

\* What a response does to the handlers and to the call.
Asks(c) == <<c.op, c.h, c.arg, c.path, c.enc>>

LEMMA RespondFacts ==
  ASSUME TypeOK, NEW s \in Slots, NEW response, NEW did, NEW fault, Respond(s, response, did, fault)
  PROVE  /\ DOMAIN handler' = Slots
         /\ handler'[s] = IdleHandler
         /\ \A t \in Slots \ {s} : handler'[t] = handler[t]
         /\ DOMAIN call' = DOMAIN NoCall
         /\ Asks(call') = Asks(call)
         /\ call'.did = (call.did \/ did)
         /\ call'.fault = (call.fault \/ fault)
         /\ call.slot = s => call'.pc = "returned" /\ call'.result = Result(response)
         /\ call.slot # s => call'.pc = call.pc /\ call'.result = call.result
         /\ url' = url
<1>1. /\ DOMAIN handler' = Slots
      /\ handler'[s] = IdleHandler
      /\ \A t \in Slots \ {s} : handler'[t] = handler[t]
      /\ url' = url
  BY DEF Respond, TypeOK
<1>2. PICK r : r = Result(response)
  OBVIOUS
<1>3. PICK noted : noted = [call EXCEPT !.did = @ \/ did, !.fault = @ \/ fault]
  OBVIOUS
<1>4. call' = IF call.slot = s THEN [noted EXCEPT !.pc = "returned", !.slot = NoSlot, !.result = r] ELSE noted
  BY <1>2, <1>3 DEF Respond
<1>5. DOMAIN call = {"op", "h", "arg", "path", "enc", "pc", "slot", "events", "did", "fault", "result"}
  BY DEF TypeOK, NoCall
<1>6. /\ DOMAIN noted = DOMAIN call
      /\ noted.op = call.op /\ noted.h = call.h /\ noted.arg = call.arg /\ noted.path = call.path /\ noted.enc = call.enc
      /\ noted.did = (call.did \/ did) /\ noted.fault = (call.fault \/ fault)
      /\ noted.pc = call.pc /\ noted.result = call.result
  BY <1>3, <1>5
<1>7. CASE call.slot = s
  <2>1. call' = [noted EXCEPT !.pc = "returned", !.slot = NoSlot, !.result = r]
    BY <1>4, <1>7
  <2>2. /\ DOMAIN call' = DOMAIN call
        /\ Asks(call') = Asks(noted)
        /\ call'.did = noted.did /\ call'.fault = noted.fault
        /\ call'.pc = "returned" /\ call'.result = r
    BY <1>5, <1>6, <2>1 DEF Asks
  <2> QED BY <1>1, <1>2, <1>6, <1>7, <2>2 DEF Asks, TypeOK
<1>8. CASE call.slot # s
  BY <1>1, <1>4, <1>6, <1>8 DEF Asks, TypeOK
<1> QED BY <1>7, <1>8

\* What a view shows.
LEMMA ViewFacts ==
  /\ View.peer = peer.there
  /\ \A h \in Handles :
        /\ (View.vol[h].there <=> live[h] # NoId)
        /\ live[h] = NoId => View.vol[h].files = {}
        /\ live[h] # NoId => /\ View.vol[h].priv = vol[live[h]].priv
                             /\ View.vol[h].prop = vol[live[h]].prop
                             /\ View.vol[h].torn = vol[live[h]].torn
                             /\ View.vol[h].files = vol[live[h]].files
<1>1. View.peer = peer.there
  BY DEF View
<1>2. ASSUME NEW h \in Handles
      PROVE  /\ (View.vol[h].there <=> live[h] # NoId)
             /\ live[h] = NoId => View.vol[h].files = {}
             /\ live[h] # NoId => /\ View.vol[h].priv = vol[live[h]].priv
                                  /\ View.vol[h].prop = vol[live[h]].prop
                                  /\ View.vol[h].torn = vol[live[h]].torn
                                  /\ View.vol[h].files = vol[live[h]].files
  <2>1. View.vol[h] = State(h)
    BY DEF View
  <2>2. CASE live[h] = NoId
    <3>1. State(h) = Absent
      BY <2>2 DEF State
    <3>2. Absent.there = FALSE /\ Absent.files = {}
      BY DEF Absent
    <3> QED BY <2>1, <2>2, <3>1, <3>2
  <2>3. CASE live[h] # NoId
    <3>1. State(h) = [there |-> TRUE, priv |-> vol[live[h]].priv, prop |-> vol[live[h]].prop,
                      torn |-> vol[live[h]].torn, files |-> vol[live[h]].files]
      BY <2>3 DEF State
    <3> QED BY <2>1, <2>3, <3>1
  <2> QED BY <2>2, <2>3
<1> QED BY <1>1, <1>2

\* The volume was there without the file that is asked for.
NotThere(h) == \E v \in seen : v.vol[h].there /\ ~Exists(call.path, v.vol[h].files)

\* What a handler finds, the call has seen.
LEMMA Sees ==
  ASSUME Present, call.pc # "idle"
  PROVE  /\ ~peer.there => \E v \in seen : ~v.peer
         /\ \A h \in Handles :
               /\ live[h] = NoId => Missing(h)
               /\ live[h] # NoId => \A file \in vol[live[h]].torn : Torn(h, file)
               /\ live[h] # NoId /\ ~Exists(call.path, vol[live[h]].files) => NotThere(h)
<1>1. PICK now : now = View
  OBVIOUS
<1>2. /\ now.peer = peer.there
      /\ \A h \in Handles :
            /\ (now.vol[h].there <=> live[h] # NoId)
            /\ live[h] # NoId => now.vol[h].torn = vol[live[h]].torn /\ now.vol[h].files = vol[live[h]].files
  BY <1>1, ViewFacts
<1>3. now \in seen
  BY <1>1 DEF Present
<1> QED BY <1>2, <1>3 DEF Missing, Torn, NotThere

\* A result that is right when it is given, for a call of which something may have
\* failed.
SaysTruth(r, fault) ==
    /\ r.err \in {"ErrVolumeNotFound", "ErrVolumeDoesNotExist"} \/ (call.op = "LookupVolume" /\ r = Client!Ok) =>
          fault \/ Missing(call.h)
    /\ NoFile(r) => fault \/ Missing(call.h) \/ NotThere(call.h)
    /\ r.err = "nil" /\ call.op = "ListVolumes" => \A h \in Handles :
          \/ h \in r.value[1] /\ Has(h)
          \/ h \notin r.value[1] /\ (fault \/ Lacks(h))
    /\ r.err = "nil" /\ call.op = "Properties" => WereOf(call.h, r.value[1])
    /\ r.err = "nil" /\ call.op = "getPrivileged" =>
          \E v \in seen : /\ v.vol[call.h].there
                          /\ "privileged" \notin v.vol[call.h].torn
                          /\ v.vol[call.h].priv = r.value[1]

Excused == \/ call.op \in NeedsVolume /\ Missing(call.h)
           \/ call.op \in PropertiesReaders /\ Torn(call.h, "properties")
           \/ call.op \in PrivilegedReaders /\ Torn(call.h, "privileged")
           \/ call.op \in Streams /\ NotThere(call.h)
           \/ call.op \in Streams \union {"streamIn"} /\ call.enc \notin Encodings
           \/ call.op = "streamP2pOut" /\ (call.path = "empty" \/ \E v \in seen : ~v.peer)
           \/ call.op = "getStreamInP2pUrl" /\ ~(HasAddress /\ \A i \in DOMAIN call.arg : ~call.arg[i].fails)

WholeArchive(archive) == ~archive.error =>
    /\ Throughout \subseteq archive.files
    /\ \A f \in archive.files : \E v \in seen : f \in Under(call.path, v.vol[call.h].files)
    /\ \E v \in seen : v.vol[call.h].there /\ archive.namespaced = ~v.vol[call.h].priv

Sound(r, did, fault) ==
    /\ r.err = "nil" /\ ~(call.op = "LookupVolume" /\ r.value = <<>>) => did
    /\ SaysTruth(r, call.fault \/ fault)
    /\ r.err # "nil" /\ call.op # "DestroyVolume" => call.fault \/ fault \/ Excused
    /\ call.op = "getStreamInP2pUrl" => Leads(r.value)
    /\ r.err = "nil" /\ call.op = "streamOut" => WholeArchive(r.value[1])
    /\ r.err = "nil" /\ call.op = "streamP2pOut" /\ peer'.there => Throughout \subseteq peer'.files

\* What has been there all the time shrinks as the call goes on.
LEMMA ThroughoutShrinks ==
  ASSUME seen \subseteq seen', call'.h = call.h, call'.path = call.path
  PROVE  Throughout' \subseteq Throughout
BY DEF Throughout

\* What the call has seen, it has seen.
LEMMA SeenGrows ==
  ASSUME seen \subseteq seen', call'.h = call.h, call'.arg = call.arg, call'.path = call.path
  PROVE  \A h :
         /\ Missing(h) => Missing(h)'
         /\ \A file : Torn(h, file) => Torn(h, file)'
         /\ NotThere(h) => NotThere(h)'
         /\ Has(h) => Has(h)'
         /\ Lacks(h) => call.fault \/ Lacks(h)'
         /\ \A prop : WereOf(h, prop) => WereOf(h, prop)'
<1>1. \A h, file : Torn(h, file) => Torn(h, file)'
  BY DEF Torn
<1>2. \A v, h : Listed(v, h)' <=> Listed(v, h)
  BY DEF Listed, HasProperties
<1>3. ASSUME NEW h
      PROVE  /\ Missing(h) => Missing(h)'
             /\ NotThere(h) => NotThere(h)'
             /\ \A prop : WereOf(h, prop) => WereOf(h, prop)'
  BY <1>1 DEF Missing, NotThere, WereOf
<1>4. ASSUME NEW h
      PROVE  (Has(h) => Has(h)') /\ (Lacks(h) => call.fault \/ Lacks(h)')
  BY <1>1, <1>2 DEF Has, Lacks
<1> QED BY <1>1, <1>3, <1>4

\* A sound result makes sound answers.
LEMMA SoundAnswers ==
  ASSUME Base, NEW s \in Slots, NEW response, NEW did, NEW fault, Respond(s, response, did, fault),
         call.slot = s, call.pc = "open", Sound(Result(response), did, fault), seen' = seen \union {View'}
  PROVE  Answers' /\ UrlOK'
<1>1. PICK r : r = Result(response)
  OBVIOUS
<1>2. /\ call'.op = call.op /\ call'.h = call.h /\ call'.arg = call.arg /\ call'.path = call.path /\ call'.enc = call.enc
      /\ call'.did = (call.did \/ did) /\ call'.fault = (call.fault \/ fault)
      /\ call'.pc = "returned" /\ call'.result = r
      /\ url' = url
  BY <1>1, RespondFacts DEF Base, Asks
<1>3. seen \subseteq seen' /\ call.h \in Handles
  BY DEF Base, CallOK
<1>4. /\ \A h, file : Torn(h, file) => Torn(h, file)'
      /\ \A h : /\ Missing(h) => Missing(h)'
                /\ NotThere(h) => NotThere(h)'
                /\ Has(h) => Has(h)'
                /\ Lacks(h) => call.fault \/ Lacks(h)'
                /\ \A prop : WereOf(h, prop) => WereOf(h, prop)'
  BY <1>2, <1>3, SeenGrows
<1>5. Sound(r, did, fault)
  BY <1>1
<1>6. SaysTruth(r, call'.fault)
  BY <1>2, <1>5, Zenon DEF Sound
<1>7. SuccessHappened'
  BY <1>2, <1>5 DEF Sound, SuccessHappened, Succeeds, Returns
<1>8. AnswerTrue'
  <2>1. NotFoundTrue'
    BY <1>2, <1>4, <1>6 DEF SaysTruth, NotFoundTrue, Returns
  <2>2. NoFileTrue'
    <3>1. ASSUME r.err = "ErrFileNotFound"
          PROVE  call'.fault \/ Missing(call.h)' \/ NotThere(call.h)'
      <4>1. call'.fault \/ Missing(call.h) \/ NotThere(call.h)
        BY <1>6, <3>1 DEF SaysTruth, NoFile
      <4>2. PICK h : h = call.h
        OBVIOUS
      <4>3. call'.fault \/ Missing(h)' \/ NotThere(h)'
        BY <1>4, <4>1, <4>2
      <4> QED BY <1>2, <4>2, <4>3
    <3> QED BY <1>2, <3>1 DEF NoFileTrue, Returns, Missing, NotThere
  <2>3. ListTrue'
    <3>1. ASSUME r.err = "nil", call.op = "ListVolumes", NEW h \in Handles
          PROVE  \/ h \in r.value[1] /\ Has(h)'
                 \/ h \notin r.value[1] /\ (call'.fault \/ Lacks(h)')
      <4>1. call.fault => call'.fault
        BY <1>2
      <4> QED BY <1>4, <1>6, <3>1, <4>1 DEF SaysTruth
    <3>2. ASSUME r.err = "nil", call.op = "ListVolumes", NEW h \in Handles
          PROVE  \/ Torn(h, "properties")'
                 \/ h \in r.value[1] /\ (\E v \in seen : Listed(v, h))'
                 \/ h \notin r.value[1] /\ (call.fault \/ Torn(h, "privileged") \/ \E v \in seen : ~Listed(v, h))'
      BY <3>1, <3>2 DEF Has, Lacks
    <3> QED BY <1>2, <3>2 DEF ListTrue, Succeeds, Returns
  <2>4. PropertiesTrue'
    <3>1. ASSUME r.err = "nil", call.op = "Properties"
          PROVE  \/ Torn(call.h, "properties")'
                 \/ \E v \in seen' : v.vol[call'.h].there /\ v.vol[call'.h].prop = call'.result.value[1]
      <4>1. WereOf(call.h, r.value[1])
        BY <1>6, <3>1 DEF SaysTruth
      <4>2. PICK prop : prop = r.value[1]
        OBVIOUS
      <4>3. WereOf(call.h, prop)
        BY <4>1, <4>2
      <4>4. PICK h : h = call.h
        OBVIOUS
      <4>5. Torn(h, "properties")' \/ \E v \in seen' : v.vol[h].there /\ v.vol[h].prop = prop
        BY <1>4, <4>3, <4>4 DEF WereOf
      <4>6. call'.h = h /\ call'.result.value[1] = prop /\ r.value[1] = prop
        BY <1>2, <4>2, <4>4
      <4> QED BY <4>5, <4>6
    <3> QED BY <1>2, <3>1 DEF PropertiesTrue, Succeeds, Returns
  <2>5. PrivilegedTrue'
    BY <1>2, <1>3, <1>6 DEF SaysTruth, PrivilegedTrue, Succeeds, Returns
  <2> QED BY <2>1, <2>2, <2>3, <2>4, <2>5 DEF AnswerTrue
<1>9. FailureJustified'
  <2>1. HasAddress' <=> HasAddress
    BY <1>2 DEF HasAddress
  <2>2. ASSUME Excused
        PROVE  \/ call.op \in NeedsVolume /\ Missing(call.h)'
               \/ call.op \in PropertiesReaders /\ Torn(call.h, "properties")'
               \/ call.op \in PrivilegedReaders /\ Torn(call.h, "privileged")'
               \/ call.op \in Streams /\ \E v \in seen' : ~Exists(call.path, v.vol[call.h].files)
               \/ call.op \in Streams \union {"streamIn"} /\ call.enc \notin Encodings
               \/ call.op = "streamP2pOut" /\ (call.path = "empty" \/ \E v \in seen' : ~v.peer)
               \/ call.op = "getStreamInP2pUrl" /\ ~(HasAddress /\ \A i \in DOMAIN call.arg : ~call.arg[i].fails)
    BY <1>2, <1>3, <2>2 DEF Excused, Missing, Torn, NotThere
  <2>3. r.err # "nil" /\ call.op # "DestroyVolume" => call'.fault \/ Excused
    BY <1>2, <1>5 DEF Sound
  <2> QED BY <1>2, <2>1, <2>2, <2>3 DEF FailureJustified, Returns
<1>10. StreamsWhole'
  <2>1. Throughout' \subseteq Throughout
    BY <1>2, <1>3, ThroughoutShrinks
  <2>2. ASSUME r.err = "nil", call.op = "streamOut", ~r.value[1].error
        PROVE  /\ Throughout' \subseteq r.value[1].files
               /\ \A f \in r.value[1].files : \E v \in seen' : f \in Under(call.path, v.vol[call.h].files)
               /\ \E v \in seen' : v.vol[call.h].there /\ r.value[1].namespaced = ~v.vol[call.h].priv
    BY <1>3, <1>5, <2>1, <2>2 DEF Sound, WholeArchive
  <2>3. ASSUME r.err = "nil", call.op = "streamP2pOut", peer'.there
        PROVE  Throughout' \subseteq peer'.files
    BY <1>5, <2>1, <2>3 DEF Sound
  <2> QED BY <1>2, <2>2, <2>3 DEF StreamsWhole, Succeeds, Returns
<1>11. UrlOK'
  BY <1>2, <1>5 DEF Sound, UrlOK, Base, Leads
<1> QED BY <1>7, <1>8, <1>9, <1>10, <1>11 DEF Answers

\* Answers stay true while the caller does not go on.
LEMMA AnswersKept ==
  ASSUME Answers, UrlOK, call' = call, url' = url, peer' = peer, seen \subseteq seen'
  PROVE  Answers' /\ UrlOK'
<1>1. SuccessHappened'
  BY DEF Answers, SuccessHappened, Succeeds, Returns, Missing
<1>2. AnswerTrue'
  <2>1. NotFoundTrue'
    BY DEF Answers, AnswerTrue, NotFoundTrue, Returns, Missing
  <2>2. NoFileTrue'
    BY DEF Answers, AnswerTrue, NoFileTrue, Returns
  <2>3. ListTrue'
    <3>1. ASSUME NEW v, NEW h PROVE Listed(v, h)' <=> Listed(v, h)
      BY DEF Listed, HasProperties
    <3>2. ASSUME NEW h, NEW file PROVE Torn(h, file) => Torn(h, file)'
      BY DEF Torn
    <3> QED BY <3>1, <3>2 DEF Answers, AnswerTrue, ListTrue, Succeeds, Returns
  <2>4. PropertiesTrue'
    BY DEF Answers, AnswerTrue, PropertiesTrue, Succeeds, Returns, Torn
  <2>5. PrivilegedTrue'
    BY DEF Answers, AnswerTrue, PrivilegedTrue, Succeeds, Returns
  <2> QED BY <2>1, <2>2, <2>3, <2>4, <2>5 DEF AnswerTrue
<1>3. FailureJustified'
  <2>1. HasAddress' <=> HasAddress
    BY DEF HasAddress
  <2> QED BY <2>1 DEF Answers, FailureJustified, Returns, Missing, Torn
<1>4. StreamsWhole'
  <2>1. Throughout' \subseteq Throughout
    BY ThroughoutShrinks
  <2> QED BY <2>1 DEF Answers, StreamsWhole, Succeeds, Returns
<1>5. UrlOK'
  BY DEF UrlOK, Leads
<1> QED BY <1>1, <1>2, <1>3, <1>4, <1>5 DEF Answers

\* Nothing is said of a call that has not returned.
LEMMA NoAnswers == call.pc # "returned" => Answers
BY DEF Answers, SuccessHappened, AnswerTrue, NotFoundTrue, NoFileTrue, ListTrue, PropertiesTrue, PrivilegedTrue,
       FailureJustified, StreamsWhole, Succeeds, Returns
-----------------------------------------------------------------------------
(***************************************************************************)
(* What handlers know.                                                     *)
(***************************************************************************)
Store == /\ live \in [Handles -> Ids \union {NoId}]
         /\ vol \in [Ids -> Contents]
         /\ DOMAIN peer = {"there", "files"}
         /\ OneHandle

LEMMA StoreFacts == Base => Store
BY DEF Base, TypeOK, Store

\* The handler answers, and is right.
Answered(s) == \E response, did, fault : Respond(s, response, did, fault) /\ Sound(Result(response), did, fault)

\* The handler makes a step that is not its last.  No volume that is streamed
\* changes.
Moved(s, r) == /\ DOMAIN handler' = Slots
               /\ \A t \in Slots \ {s} : handler'[t] = handler[t]
               /\ handler'[s] = r
               /\ DOMAIN r = DOMAIN IdleHandler
               /\ Asks(r) = Asks(handler[s])
               /\ DOMAIN call' = DOMAIN NoCall /\ call'.pc = call.pc /\ Asks(call') = Asks(call)
               /\ call.fault => call'.fault
               /\ url' = url
               /\ Store'
               /\ UNCHANGED <<live, vol>> \/ call.op \notin Streams
               /\ Knows(r)'

\* An error is an answer that has to be excused.
LEMMA SoundFailure ==
  ASSUME NEW r, NEW did, NEW fault, r.err # "nil", call.op = "DestroyVolume" \/ call.fault \/ fault \/ Excused,
         r.err \in {"ErrVolumeNotFound", "ErrVolumeDoesNotExist"} => call.fault \/ fault \/ Missing(call.h),
         NoFile(r) => call.fault \/ fault \/ Missing(call.h) \/ NotThere(call.h),
         call.op # "getStreamInP2pUrl"
  PROVE  Sound(r, did, fault)
<1>1. r # Client!Ok
  BY ResponseFields
<1>2. SaysTruth(r, call.fault \/ fault)
  BY <1>1 DEF SaysTruth
<1> QED BY <1>2 DEF Sound

LEMMA SoundUninformative ==
  ASSUME NEW r, NEW did, NEW fault, Uninformative(r), call.op = "DestroyVolume" \/ call.fault \/ fault \/ Excused,
         call.op # "getStreamInP2pUrl"
  PROVE  Sound(r, did, fault)
<1>1. r.err \notin {"nil", "ErrVolumeNotFound", "ErrVolumeDoesNotExist"} /\ ~NoFile(r)
  BY DEF Uninformative, NoFile
<1> QED BY <1>1, SoundFailure

LEMMA SoundMissing ==
  ASSUME NEW r, NEW did, NEW fault, Missing(call.h), r.err # "nil", call.op \in NeedsVolume \union {"DestroyVolume"}
  PROVE  Sound(r, did, fault)
<1>1. call.op = "DestroyVolume" \/ Excused
  BY DEF Excused
<1>2. call.op # "getStreamInP2pUrl"
  BY DEF NeedsVolume, Gets, Streams
<1> QED BY <1>1, <1>2, SoundFailure

\* Whatever the error, if something has failed.
LEMMA SoundFault ==
  ASSUME NEW r, NEW did, r.err # "nil", call.op # "getStreamInP2pUrl"
  PROVE  Sound(r, did, TRUE)
BY SoundFailure

-----------------------------------------------------------------------------
(***************************************************************************)
(* Handlers that stream.                                                   *)
(***************************************************************************)
\* The errors of StreamOut and StreamP2pOut.
LEMMA StreamFailsSound ==
  ASSUME Base, NEW s \in Slots, Serves(s), handler[s].op \in Streams,
         NEW err \in {"badRequest", "ErrVolumeDoesNotExist", "ErrUnsupportedStreamEncoding", "notExist", "error", "exit"},
         NEW fault, StreamFails(s, err, fault),
         err = "badRequest" => call.op = "streamP2pOut",
         err = "ErrVolumeDoesNotExist" => fault \/ Missing(call.h),
         err = "notExist" => Missing(call.h) \/ NotThere(call.h),
         call.fault \/ fault \/ Excused
  PROVE  Answered(s) /\ UNCHANGED volumes
<1>1. PICK response : response = IF handler[s].op = "streamOut" THEN Server!StreamOut(err) ELSE Server!StreamP2pOut(err)
  OBVIOUS
<1>2. Respond(s, response, FALSE, fault) /\ UNCHANGED volumes
  BY <1>1 DEF StreamFails
<1>3. PICK r : r = Result(response)
  OBVIOUS
<1>4. \/ err = "ErrVolumeDoesNotExist" /\ (NotFound(r) \/ NoFile(r))
      \/ err = "notExist" /\ NoFile(r)
      \/ Uninformative(r)
  <2>1. CASE call.op = "streamOut"
    <3>1. r = Result(Server!StreamOut(err))
      BY <1>1, <1>3, <2>1 DEF Serves
    <3>2. err # "badRequest"
      BY <2>1
    <3> QED BY <2>1, <3>1, <3>2, StreamOutOutcome
  <2>2. CASE call.op = "streamP2pOut"
    <3>1. r = Result(Server!StreamP2pOut(err))
      BY <1>1, <1>3, <2>2 DEF Serves
    <3> QED BY <2>2, <3>1, StreamP2pOutOutcome
  <2> QED BY <2>1, <2>2 DEF Serves, Streams
<1>5. call.op # "getStreamInP2pUrl"
  BY DEF Serves, Streams
<1>6. Sound(r, FALSE, fault)
  <2>1. CASE Uninformative(r)
    BY <1>5, <2>1, SoundUninformative
  <2>2. CASE err = "ErrVolumeDoesNotExist" /\ (NotFound(r) \/ NoFile(r))
    BY <1>5, <2>2, SoundFailure DEF NotFound, NoFile
  <2>3. CASE err = "notExist" /\ NoFile(r)
    <3>1. r.err # "nil" /\ r.err \notin {"ErrVolumeNotFound", "ErrVolumeDoesNotExist"}
      BY <2>3 DEF NoFile
    <3> QED BY <1>5, <2>3, <3>1, SoundFailure
  <2> QED BY <1>4, <2>1, <2>2, <2>3
<1> QED BY <1>2, <1>3, <1>6 DEF Answered

\* What a handler knows stays true: seen only grows, and the directory that it
\* has open is as Opened says.
LEMMA StreamKept ==
  ASSUME NEW r, StreamOK(r), call'.h = call.h, call'.path = call.path, call.fault => call'.fault,
         seen \subseteq seen', r.pc \in {"list", "tar"} => Opened(r)'
  PROVE  StreamOK(r)'
<1>1. Throughout' \subseteq Throughout
  BY ThroughoutShrinks
<1>2. r.pc \in {"tar", "put"} => Archived(r)'
  BY <1>1 DEF StreamOK, Archived
<1>3. r.pc \in {"stat", "open", "list", "tar", "put"} => Flagged(r)'
  BY DEF StreamOK, Flagged
<1>4. \A f \in r.got : \E v \in seen' : f \in Under(r.path, v.vol[r.h].files)
  BY DEF StreamOK
<1> QED BY <1>2, <1>3, <1>4 DEF StreamOK

LEMMA OpenedSame ==
  ASSUME NEW r, Opened(r), live' = live, vol' = vol, seen \subseteq seen'
  PROVE  Opened(r)'
BY DEF Opened

LEMMA KnowsKept ==
  ASSUME NEW r, Knows(r), Asks(call') = Asks(call), call.fault => call'.fault, seen \subseteq seen',
         r.op \in Streams /\ r.pc \in {"list", "tar"} => Opened(r)'
  PROVE  Knows(r)'
<1>1. call'.h = call.h /\ call'.arg = call.arg /\ call'.path = call.path
  BY DEF Asks
<1>2. \A h : /\ Has(h) => Has(h)'
             /\ Lacks(h) => Lacks(h)'
             /\ \A prop : WereOf(h, prop) => WereOf(h, prop)'
  <2>1. \A h : call'.fault => Lacks(h)'
    BY DEF Lacks
  <2> QED BY <1>1, <2>1, SeenGrows
<1>3. r.op \in Streams => StreamOK(r)'
  BY <1>1, StreamKept DEF Knows
<1>4. r.op = "ListVolumes" => ListOK(r)'
  BY <1>2 DEF Knows, ListOK
<1>5. r.op \in Gets => GetOK(r)'
  BY <1>2 DEF Knows, GetOK
<1> QED BY <1>3, <1>4, <1>5 DEF Knows

\* What is to be known of no request, and of one that has just come in.
LEMMA KnowsIdle ==
  ASSUME NEW r, r.op = "none"
  PROVE  Knows(r)'
BY DEF Knows, Streams, Gets

LEMMA KnowsAsked ==
  ASSUME NEW r, r.pc \in {"lookup", "serve"}, r.got = {}, ~r.failed
  PROVE  Knows(r)'
BY DEF Knows, StreamOK, ListOK, GetOK

LEMMA MoveFacts ==
  ASSUME Base, NEW s \in Slots, NEW r, handler' = [handler EXCEPT ![s] = r], DOMAIN r = DOMAIN IdleHandler,
         Asks(r) = Asks(handler[s]), DOMAIN call' = DOMAIN NoCall, call'.pc = call.pc, Asks(call') = Asks(call),
         call.fault => call'.fault, UNCHANGED <<volumes, url>>, Knows(r)'
  PROVE  Moved(s, r)
<1>1. TypeOK /\ Store
  BY StoreFacts DEF Base
<1>2. Store'
  BY <1>1 DEF Store, OneHandle, volumes
<1>3. /\ DOMAIN handler' = Slots
      /\ \A t \in Slots \ {s} : handler'[t] = handler[t]
      /\ handler'[s] = r
  BY <1>1 DEF TypeOK
<1>4. UNCHANGED <<live, vol>>
  BY DEF volumes
<1> QED BY <1>2, <1>3, <1>4 DEF Moved

LEMMA StreamMoves ==
  ASSUME Base, NEW s \in Slots, NEW r, handler' = [handler EXCEPT ![s] = r], DOMAIN r = DOMAIN IdleHandler,
         Asks(r) = Asks(handler[s]), call' = call \/ call' = [call EXCEPT !.fault = TRUE], UNCHANGED <<volumes, url>>,
         handler[s].op \in Streams, StreamOK(r)'
  PROVE  Moved(s, r)
<1>1. r.op = handler[s].op
  BY DEF Asks
<1>2. "ListVolumes" \notin Streams /\ "LookupVolume" \notin Streams /\ "Properties" \notin Streams
  BY DEF Streams
<1>3. Knows(r)'
  BY <1>1, <1>2 DEF Knows, Gets
<1>4. /\ DOMAIN call' = DOMAIN NoCall /\ call'.pc = call.pc /\ Asks(call') = Asks(call)
      /\ call.fault => call'.fault
  BY DEF Base, TypeOK, NoCall, Asks
<1> QED BY <1>3, <1>4, MoveFacts

\* A handler serves the call that is open.
Serving(s) == /\ Base
              /\ KnowsOK
              /\ s \in Slots
              /\ call.pc = "open"
              /\ Serves(s)
              /\ seen \subseteq seen'

LEMMA ServingFacts ==
  ASSUME NEW s, Serving(s)
  PROVE  /\ Knows(handler[s])
         /\ handler[s].op \in Streams => StreamOK(handler[s])
         /\ handler[s].h \in Handles
         /\ handler[s].op = call.op /\ handler[s].h = call.h /\ handler[s].arg = call.arg
         /\ handler[s].path = call.path /\ handler[s].enc = call.enc
         /\ View \in seen
         /\ DOMAIN handler[s] = {"op", "h", "arg", "path", "enc", "pc", "id", "priv", "prop", "entry", "todo", "got", "failed"}
         /\ DOMAIN IdleHandler = {"op", "h", "arg", "path", "enc", "pc", "id", "priv", "prop", "entry", "todo", "got", "failed"}
         /\ Volume(s) = live[call.h]
         /\ TypeOK
<1>1. DOMAIN IdleHandler = {"op", "h", "arg", "path", "enc", "pc", "id", "priv", "prop", "entry", "todo", "got", "failed"}
  BY DEF IdleHandler
<1>2. DOMAIN handler[s] = DOMAIN IdleHandler
  BY DEF Serving, Base, TypeOK
<1>3. Knows(handler[s])
  BY DEF Serving, KnowsOK
<1>4. handler[s].op \in Streams => StreamOK(handler[s])
  BY <1>3 DEF Knows
<1> QED BY <1>1, <1>2, <1>3, <1>4 DEF Serving, Serves, Base, CallOK, Present, Volume

\* What a handler finds.
LEMMA ServingSees ==
  ASSUME NEW s, Serving(s)
  PROVE  /\ ~peer.there => \E v \in seen : ~v.peer
         /\ Volume(s) = NoId => Missing(call.h)
         /\ Volume(s) # NoId => \A file \in vol[Volume(s)].torn : Torn(call.h, file)
         /\ Volume(s) # NoId /\ ~Exists(call.path, vol[Volume(s)].files) => NotThere(call.h)
<1>1. Present /\ call.pc # "idle" /\ call.h \in Handles /\ Volume(s) = live[call.h]
  BY ServingFacts DEF Serving, Base, CallOK
<1> QED BY <1>1, Sees

\* A step to the next point of the program.
Proceeds(s, r, pc) == /\ handler' = [handler EXCEPT ![s] = r]
                      /\ DOMAIN r = DOMAIN IdleHandler
                      /\ Asks(r) = Asks(handler[s])
                      /\ r.pc = pc
                      /\ r.h = handler[s].h /\ r.path = handler[s].path
                      /\ r.id = handler[s].id /\ r.priv = handler[s].priv /\ r.todo = handler[s].todo
                      /\ r.got = handler[s].got /\ r.failed = handler[s].failed
                      /\ call' = call /\ UNCHANGED <<volumes, url>>

LEMMA ProceedFacts ==
  ASSUME NEW s, Serving(s), NEW pc, Proceed(s, pc)
  PROVE  \E r : Proceeds(s, r, pc)
<1>1. PICK r : r = [handler[s] EXCEPT !.pc = pc]
  OBVIOUS
<1>2. handler' = [handler EXCEPT ![s] = r] /\ call' = call /\ UNCHANGED <<volumes, url>>
  BY <1>1 DEF Proceed
<1>3. /\ DOMAIN r = DOMAIN IdleHandler
      /\ r.op = handler[s].op /\ r.h = handler[s].h /\ r.arg = handler[s].arg /\ r.path = handler[s].path
      /\ r.enc = handler[s].enc /\ r.pc = pc /\ r.id = handler[s].id /\ r.priv = handler[s].priv
      /\ r.todo = handler[s].todo /\ r.got = handler[s].got /\ r.failed = handler[s].failed
  BY <1>1, ServingFacts
<1>4. Asks(r) = Asks(handler[s])
  BY <1>3 DEF Asks
<1> QED BY <1>2, <1>3, <1>4 DEF Proceeds

\* Before the flag is read, and before the directory is open, nothing is known.
LEMMA StreamLookupStep ==
  ASSUME NEW s, Serving(s), StreamLookup(s)
  PROVE  (Answered(s) /\ UNCHANGED volumes) \/ \E r : Moved(s, r)
<1>1. handler[s].op \in Streams /\ handler[s].pc = "lookup"
  BY DEF StreamLookup, At
<1> DEFINE Refused == handler[s].op = "streamP2pOut"
                      /\ Server!StreamP2pOutRefuses(handler[s].path, handler[s].arg, handler[s].enc)
<1>2. CASE Refused
  <2>1. StreamFails(s, "badRequest", FALSE)
    BY <1>2 DEF StreamLookup
  <2>2. call.op = "streamP2pOut" /\ call.arg # <<>>
    BY <1>2 DEF Serving, Serves, Base, CallOK
  <2>3. call.path = "empty" \/ call.enc = "empty"
    BY <1>2, <2>2 DEF Server!StreamP2pOutRefuses, Serving, Serves
  <2>4. Excused
    BY <2>2, <2>3, Names DEF Excused, Streams
  <2> QED BY <1>1, <2>1, <2>2, <2>4, StreamFailsSound DEF Serving
<1>3. CASE ~Refused /\ Volume(s) = NoId
  <2>1. StreamFails(s, "ErrVolumeDoesNotExist", FALSE)
    BY <1>3 DEF StreamLookup
  <2>2. Missing(call.h) /\ call.op \in NeedsVolume
    BY <1>1, <1>3, ServingFacts, ServingSees DEF NeedsVolume
  <2>3. Excused
    BY <2>2 DEF Excused
  <2> QED BY <1>1, <2>1, <2>2, <2>3, StreamFailsSound DEF Serving
<1>4. CASE ~Refused /\ Volume(s) # NoId
  <2>1. Proceed(s, "flag")
    BY <1>4 DEF StreamLookup
  <2>2. PICK r : Proceeds(s, r, "flag")
    BY <1>1, <2>1, ProceedFacts
  <2>3. StreamOK(r)'
    BY <1>1, <2>2, ServingFacts DEF Proceeds, StreamOK, Serving
  <2> QED BY <1>1, <2>2, <2>3, StreamMoves, ServingFacts DEF Proceeds, Serving
<1> QED BY <1>2, <1>3, <1>4

\* The flag that is read is that of the volume now.
LEMMA StreamLoadPrivilegedStep ==
  ASSUME NEW s, Serving(s), StreamLoadPrivileged(s)
  PROVE  (Answered(s) /\ UNCHANGED volumes) \/ \E r : Moved(s, r)
<1>1. handler[s].op \in Streams /\ handler[s].pc = "flag"
  BY DEF StreamLoadPrivileged, At
<1>2. CASE Volume(s) = NoId /\ StreamFails(s, "ErrVolumeDoesNotExist", FALSE)
  <2>1. Missing(call.h) /\ call.op \in NeedsVolume
    BY <1>1, <1>2, ServingFacts, ServingSees DEF NeedsVolume
  <2>2. Excused
    BY <2>1 DEF Excused
  <2> QED BY <1>1, <1>2, <2>1, <2>2, StreamFailsSound DEF Serving
<1>3. CASE Volume(s) # NoId /\ "privileged" \in vol[Volume(s)].torn /\ StreamFails(s, "error", FALSE)
  <2>1. Torn(call.h, "privileged") /\ call.op \in PrivilegedReaders
    BY <1>1, <1>3, ServingFacts, ServingSees DEF PrivilegedReaders
  <2>2. Excused
    BY <2>1 DEF Excused
  <2> QED BY <1>1, <1>3, <2>2, StreamFailsSound DEF Serving
<1>4. CASE handler[s].enc \notin Encodings /\ StreamFails(s, "ErrUnsupportedStreamEncoding", FALSE)
  <2>1. Excused
    BY <1>1, <1>4, ServingFacts DEF Excused, Serving, Serves
  <2> QED BY <1>1, <1>4, <2>1, StreamFailsSound DEF Serving
<1>5. CASE /\ Volume(s) # NoId
           /\ handler' = [handler EXCEPT ![s].pc = "stat", ![s].priv = vol[Volume(s)].priv]
           /\ UNCHANGED <<volumes, call, url>>
  <2>1. PICK r : r = [handler[s] EXCEPT !.pc = "stat", !.priv = vol[Volume(s)].priv]
    OBVIOUS
  <2>2. handler' = [handler EXCEPT ![s] = r]
    BY <1>5, <2>1
  <2>3. /\ DOMAIN r = DOMAIN IdleHandler
        /\ r.op = handler[s].op /\ r.h = handler[s].h /\ r.arg = handler[s].arg /\ r.path = handler[s].path
        /\ r.enc = handler[s].enc /\ r.pc = "stat" /\ r.priv = vol[Volume(s)].priv
        /\ r.got = handler[s].got /\ r.failed = handler[s].failed
    BY <1>1, <2>1, ServingFacts
  <2>4. View \in seen' /\ View.vol[r.h].there /\ View.vol[r.h].priv = r.priv
    BY <1>1, <1>5, <2>3, ServingFacts, ViewFacts DEF Serving
  <2>5. Flagged(r)'
    BY <2>4 DEF Flagged
  <2>6. StreamOK(r)'
    BY <1>1, <1>5, <2>3, <2>5, ServingFacts DEF StreamOK, Serving
  <2>7. Asks(r) = Asks(handler[s])
    BY <2>3 DEF Asks
  <2> QED BY <1>1, <1>5, <2>2, <2>3, <2>6, <2>7, StreamMoves, ServingFacts DEF Serving
<1>6. ASSUME NEW err \in FileErrors, StreamFails(s, err, TRUE)
      PROVE  Answered(s) /\ UNCHANGED volumes
  BY <1>1, <1>6, StreamFailsSound DEF Serving, FileErrors
<1> QED BY <1>2, <1>3, <1>4, <1>5, <1>6 DEF StreamLoadPrivileged

LEMMA StreamStatStep ==
  ASSUME NEW s, Serving(s), StreamStat(s)
  PROVE  (Answered(s) /\ UNCHANGED volumes) \/ \E r : Moved(s, r)
<1>1. handler[s].op \in Streams /\ handler[s].pc = "stat"
  BY DEF StreamStat, At
<1>2. CASE Proceed(s, "open")
  <2>1. PICK r : Proceeds(s, r, "open")
    BY <1>1, <1>2, ProceedFacts
  <2>2. StreamOK(r)'
    <3>1. Flagged(r)'
      BY <1>1, <2>1, ServingFacts DEF Proceeds, StreamOK, Serving, Flagged
    <3> QED BY <1>1, <2>1, <3>1, ServingFacts DEF Proceeds, StreamOK, Serving
  <2> QED BY <1>1, <2>1, <2>2, StreamMoves, ServingFacts DEF Proceeds, Serving
<1>3. CASE ~(Volume(s) # NoId /\ Exists(handler[s].path, vol[Volume(s)].files)) /\ StreamFails(s, "notExist", FALSE)
  <2>1. Missing(call.h) \/ NotThere(call.h)
    BY <1>1, <1>3, ServingFacts, ServingSees
  <2>2. Excused
    BY <1>1, <2>1, ServingFacts DEF Excused, NeedsVolume
  <2> QED BY <1>1, <1>3, <2>1, <2>2, StreamFailsSound DEF Serving
<1> QED BY <1>2, <1>3 DEF StreamStat

\* The directory that is opened is that of the volume now.
LEMMA TarCmdStep ==
  ASSUME NEW s, Serving(s), TarCmd(s)
  PROVE  (Answered(s) /\ UNCHANGED volumes) \/ \E r : Moved(s, r)
<1>1. handler[s].op \in Streams /\ handler[s].pc = "open"
  BY DEF TarCmd, At
<1>2. CASE Volume(s) = NoId
  <2>1. StreamFails(s, "notExist", FALSE)
    BY <1>2 DEF TarCmd
  <2>2. Missing(call.h) /\ call.op \in NeedsVolume
    BY <1>1, <1>2, ServingFacts, ServingSees DEF NeedsVolume
  <2>3. Excused
    BY <2>2 DEF Excused
  <2> QED BY <1>1, <2>1, <2>2, <2>3, StreamFailsSound DEF Serving
<1>3. CASE Volume(s) # NoId
  <2>1. handler' = [handler EXCEPT ![s].pc = "list", ![s].id = Volume(s)] /\ UNCHANGED <<volumes, call, url>>
    BY <1>3 DEF TarCmd
  <2>2. PICK r : r = [handler[s] EXCEPT !.pc = "list", !.id = Volume(s)]
    OBVIOUS
  <2>3. handler' = [handler EXCEPT ![s] = r]
    BY <2>1, <2>2
  <2>4. /\ DOMAIN r = DOMAIN IdleHandler
        /\ r.op = handler[s].op /\ r.h = handler[s].h /\ r.arg = handler[s].arg /\ r.path = handler[s].path
        /\ r.enc = handler[s].enc /\ r.pc = "list" /\ r.id = Volume(s) /\ r.priv = handler[s].priv
        /\ r.got = handler[s].got /\ r.failed = handler[s].failed
    BY <1>1, <2>2, ServingFacts
  <2>5. r.id \in Ids /\ live[r.h] = r.id
    BY <1>1, <1>3, <2>4, ServingFacts DEF TypeOK
  <2>6. View \in seen' /\ View.vol[r.h].files = vol[r.id].files
    BY <1>1, <1>3, <2>4, <2>5, ServingFacts, ViewFacts DEF Serving
  <2>7. Opened(r)'
    BY <2>1, <2>5, <2>6 DEF Opened, volumes
  <2>8. Flagged(r)'
    BY <1>1, <2>4, ServingFacts DEF StreamOK, Serving, Flagged
  <2>9. StreamOK(r)'
    BY <1>1, <2>1, <2>4, <2>7, <2>8, ServingFacts DEF StreamOK, Serving
  <2>10. Asks(r) = Asks(handler[s])
    BY <2>4 DEF Asks
  <2> QED BY <1>1, <2>1, <2>3, <2>4, <2>9, <2>10, StreamMoves, ServingFacts DEF Serving
<1> QED BY <1>2, <1>3

\* What has been in the volume all the time is in the directory that tar has
\* open: if the volume went away, nothing has been there all the time.
LEMMA ThroughoutThere ==
  ASSUME NEW r, Opened(r), View \in seen, r.h = call.h, r.h \in Handles, r.path = call.path
  PROVE  /\ Throughout \subseteq vol[r.id].files
         /\ r.path \notin {"empty", "."} => Throughout \subseteq {r.path}
<1>1. ASSUME NEW f \in Throughout PROVE f \in vol[r.id].files
  <2>1. \A v \in seen : f \in Under(call.path, v.vol[call.h].files)
    BY <1>1 DEF Throughout
  <2>2. CASE live[r.h] = r.id
    <3>1. live[r.h] # NoId
      BY <2>2, Nulls DEF Opened
    <3>2. View.vol[r.h].files = vol[r.id].files
      BY <2>2, <3>1, ViewFacts
    <3> QED BY <2>1, <3>2 DEF Under
  <2>3. CASE \E v \in seen : v.vol[r.h].files = {}
    BY <2>1, <2>3 DEF Under
  <2> QED BY <2>2, <2>3 DEF Opened
<1>2. ASSUME NEW f \in Throughout, r.path \notin {"empty", "."} PROVE f = r.path
  BY <1>2 DEF Throughout, Under
<1> QED BY <1>1, <1>2

LEMMA TarListStep ==
  ASSUME NEW s, Serving(s), TarList(s)
  PROVE  \E r : Moved(s, r)
<1>1. /\ handler[s].op \in Streams /\ handler[s].pc = "list"
      /\ UNCHANGED <<volumes, call, url>>
  BY DEF TarList, At
<1>2. PICK listed : listed = IF handler[s].path \in {"empty", "."} THEN vol[handler[s].id].files ELSE {handler[s].path}
  OBVIOUS
<1>3. PICK r : r = [handler[s] EXCEPT !.pc = "tar", !.todo = listed]
  OBVIOUS
<1>4. handler' = [handler EXCEPT ![s] = r]
  BY <1>2, <1>3 DEF TarList
<1>5. /\ DOMAIN r = DOMAIN IdleHandler
      /\ r.op = handler[s].op /\ r.h = handler[s].h /\ r.arg = handler[s].arg /\ r.path = handler[s].path
      /\ r.enc = handler[s].enc /\ r.pc = "tar" /\ r.id = handler[s].id /\ r.priv = handler[s].priv
      /\ r.todo = listed /\ r.got = handler[s].got /\ r.failed = handler[s].failed
  BY <1>1, <1>3, ServingFacts
<1>6. Opened(r)
  <2>1. Opened(handler[s])
    BY <1>1, ServingFacts DEF StreamOK
  <2> QED BY <1>5, <2>1 DEF Opened
<1>7. Archived(r)
  <2>1. /\ Throughout \subseteq vol[r.id].files
        /\ r.path \notin {"empty", "."} => Throughout \subseteq {r.path}
    BY <1>1, <1>5, <1>6, ServingFacts, ThroughoutThere
  <2> QED BY <1>2, <1>5, <2>1 DEF Archived
<1>8. StreamOK(r)
  <2>1. Flagged(r)
    BY <1>1, <1>5, ServingFacts DEF StreamOK, Flagged
  <2> QED BY <1>1, <1>5, <1>6, <1>7, <2>1, ServingFacts DEF StreamOK
<1>9. Opened(r)'
  BY <1>1, <1>6, OpenedSame DEF Serving, volumes
<1>10. StreamOK(r)'
  BY <1>1, <1>8, <1>9, StreamKept DEF Serving
<1>11. Asks(r) = Asks(handler[s])
  BY <1>5 DEF Asks
<1> QED BY <1>1, <1>4, <1>5, <1>10, <1>11, StreamMoves, ServingFacts DEF Serving

\* A file that tar reads was in the volume at some time of the call.
LEMMA TarReadStep ==
  ASSUME NEW s, Serving(s), TarRead(s)
  PROVE  \E r : Moved(s, r)
<1>1. /\ handler[s].op \in Streams /\ handler[s].pc = "tar"
      /\ UNCHANGED <<volumes, url>>
  BY DEF TarRead, At
<1>2. /\ StreamOK(handler[s]) /\ Opened(handler[s]) /\ Archived(handler[s]) /\ Flagged(handler[s])
      /\ TypeOK
  BY <1>1, ServingFacts DEF StreamOK
<1>3. PICK f \in handler[s].todo :
         \/ /\ f \in vol[handler[s].id].files
            /\ handler' = [handler EXCEPT ![s].todo = @ \ {f}, ![s].got = @ \union {f}]
            /\ UNCHANGED call
         \/ /\ handler' = [handler EXCEPT ![s].todo = @ \ {f}, ![s].failed = TRUE]
            /\ call' = [call EXCEPT !.fault = TRUE]
  BY DEF TarRead
<1>4. CASE /\ f \in vol[handler[s].id].files
           /\ handler' = [handler EXCEPT ![s].todo = @ \ {f}, ![s].got = @ \union {f}]
           /\ UNCHANGED call
  <2>1. PICK r : r = [handler[s] EXCEPT !.todo = @ \ {f}, !.got = @ \union {f}]
    OBVIOUS
  <2>2. handler' = [handler EXCEPT ![s] = r]
    BY <1>4, <2>1
  <2>3. /\ DOMAIN r = DOMAIN IdleHandler
        /\ r.op = handler[s].op /\ r.h = handler[s].h /\ r.arg = handler[s].arg /\ r.path = handler[s].path
        /\ r.enc = handler[s].enc /\ r.pc = "tar" /\ r.id = handler[s].id /\ r.priv = handler[s].priv
        /\ r.todo = handler[s].todo \ {f} /\ r.got = handler[s].got \union {f} /\ r.failed = handler[s].failed
    BY <1>1, <2>1, ServingFacts
  <2>4. \E v \in seen : f \in Under(r.path, v.vol[r.h].files)
    <3>1. PICK v \in seen : f \in v.vol[r.h].files
      BY <1>2, <1>4, <2>3 DEF Opened
    <3>2. r.path \notin {"empty", "."} => f = r.path
      BY <1>2, <1>3, <2>3 DEF Archived
    <3> QED BY <3>1, <3>2 DEF Under
  <2>5. StreamOK(r)
    <3>1. Opened(r)
      BY <1>2, <2>3 DEF Opened
    <3>2. Archived(r)
      BY <1>2, <2>3 DEF Archived
    <3>3. Flagged(r)
      BY <1>2, <2>3 DEF Flagged
    <3>4. \A g \in r.got : \E v \in seen : g \in Under(r.path, v.vol[r.h].files)
      BY <1>2, <2>3, <2>4 DEF StreamOK
    <3> QED BY <1>2, <2>3, <3>1, <3>2, <3>3, <3>4 DEF StreamOK
  <2>6. Opened(r)'
    <3>1. Opened(r)
      BY <1>2, <2>3 DEF Opened
    <3> QED BY <1>1, <3>1, OpenedSame DEF Serving, volumes
  <2>7. StreamOK(r)'
    BY <1>4, <2>5, <2>6, StreamKept DEF Serving
  <2>8. Asks(r) = Asks(handler[s])
    BY <2>3 DEF Asks
  <2> QED BY <1>1, <1>2, <1>4, <2>2, <2>3, <2>7, <2>8, StreamMoves DEF Serving
<1>5. CASE /\ handler' = [handler EXCEPT ![s].todo = @ \ {f}, ![s].failed = TRUE]
           /\ call' = [call EXCEPT !.fault = TRUE]
  <2>1. PICK r : r = [handler[s] EXCEPT !.todo = @ \ {f}, !.failed = TRUE]
    OBVIOUS
  <2>2. handler' = [handler EXCEPT ![s] = r]
    BY <1>5, <2>1
  <2>3. /\ DOMAIN r = DOMAIN IdleHandler
        /\ r.op = handler[s].op /\ r.h = handler[s].h /\ r.arg = handler[s].arg /\ r.path = handler[s].path
        /\ r.enc = handler[s].enc /\ r.pc = "tar" /\ r.id = handler[s].id /\ r.priv = handler[s].priv
        /\ r.todo = handler[s].todo \ {f} /\ r.got = handler[s].got /\ r.failed = TRUE
    BY <1>1, <2>1, ServingFacts
  <2>4. call'.fault /\ call'.h = call.h /\ call'.path = call.path
    BY <1>2, <1>5 DEF TypeOK, NoCall
  <2>5. Opened(r)'
    <3>1. Opened(r)
      BY <1>2, <2>3 DEF Opened
    <3> QED BY <1>1, <3>1, OpenedSame DEF Serving, volumes
  <2>6. Archived(r)'
    BY <1>2, <2>3 DEF Archived
  <2>7. Flagged(r)'
    BY <1>2, <2>3 DEF Flagged, Serving
  <2>8. \A g \in r.got : \E v \in seen' : g \in Under(r.path, v.vol[r.h].files)
    BY <1>2, <2>3 DEF StreamOK, Serving
  <2>9. StreamOK(r)'
    BY <2>3, <2>4, <2>5, <2>6, <2>7, <2>8 DEF StreamOK
  <2>10. Asks(r) = Asks(handler[s])
    BY <2>3 DEF Asks
  <2> QED BY <1>1, <1>2, <1>5, <2>2, <2>3, <2>9, <2>10, StreamMoves DEF Serving
<1> QED BY <1>3, <1>4, <1>5

\* An archive that is not followed by an error has all that was there.
LEMMA StreamOutEndsStep ==
  ASSUME NEW s, Serving(s), StreamOutEnds(s)
  PROVE  Answered(s) /\ UNCHANGED volumes
<1>1. handler[s].op = "streamOut" /\ handler[s].pc = "tar" /\ handler[s].todo = {}
  BY DEF StreamOutEnds, At
<1>2. handler[s].op \in Streams
  BY <1>1 DEF Streams
<1>3. /\ StreamOK(handler[s]) /\ Archived(handler[s]) /\ Flagged(handler[s])
      /\ call.op = "streamOut"
      /\ handler[s].h = call.h /\ handler[s].path = call.path
  BY <1>1, <1>2, ServingFacts DEF StreamOK, Serving, Serves
<1>4. PICK body : body = [files |-> handler[s].got, namespaced |-> ~handler[s].priv, error |-> handler[s].failed]
  OBVIOUS
<1>5. CASE Respond(s, Server!Bytes(body), TRUE, FALSE) /\ UNCHANGED volumes
  <2>1. PICK r : r = Result(Server!Bytes(body))
    OBVIOUS
  <2>2. r.err = "nil" /\ r.value = <<body>>
    <3>1. r = Client!Returns("nil", <<body>>)
      BY <1>3, <2>1, StreamOutOutcome
    <3> QED BY <3>1, ResponseFields
  <2>3. WholeArchive(body)
    <3>1. body.files = handler[s].got /\ body.namespaced = ~handler[s].priv /\ body.error = handler[s].failed
      BY <1>4
    <3>2. ASSUME ~body.error PROVE Throughout \subseteq body.files
      BY <1>1, <1>3, <3>1, <3>2 DEF Archived
    <3>3. \A f \in body.files : \E v \in seen : f \in Under(call.path, v.vol[call.h].files)
      BY <1>3, <3>1 DEF StreamOK
    <3>4. \E v \in seen : v.vol[call.h].there /\ body.namespaced = ~v.vol[call.h].priv
      BY <1>3, <3>1 DEF Flagged
    <3> QED BY <3>2, <3>3, <3>4 DEF WholeArchive
  <2>4. r # Client!Ok /\ ~NoFile(r)
    BY <2>2, ResponseFields DEF NoFile
  <2>5. r.value[1] = body
    BY <2>2
  <2>6. Sound(r, TRUE, FALSE)
    BY <1>3, <2>2, <2>3, <2>4, <2>5 DEF Sound, SaysTruth
  <2> QED BY <1>5, <2>1, <2>6 DEF Answered
<1>6. CASE handler[s].failed /\ StreamFails(s, "exit", FALSE)
  <2>1. call.fault
    BY <1>3, <1>6 DEF StreamOK
  <2> QED BY <1>2, <1>6, <2>1, StreamFailsSound DEF Serving
<1> QED BY <1>4, <1>5, <1>6 DEF StreamOutEnds

\* Only a whole archive goes to the peer.
LEMMA StreamP2pOutEndsStep ==
  ASSUME NEW s, Serving(s), StreamP2pOutEnds(s)
  PROVE  (Answered(s) /\ UNCHANGED volumes) \/ \E r : Moved(s, r)
<1>1. handler[s].op = "streamP2pOut" /\ handler[s].pc = "tar" /\ handler[s].todo = {}
  BY DEF StreamP2pOutEnds, At
<1>2. handler[s].op \in Streams
  BY <1>1 DEF Streams
<1>3. StreamOK(handler[s])
  BY <1>2, ServingFacts
<1>4. CASE handler[s].failed
  <2>1. StreamFails(s, "exit", FALSE)
    BY <1>4 DEF StreamP2pOutEnds
  <2>2. call.fault
    BY <1>3, <1>4 DEF StreamOK
  <2> QED BY <1>2, <2>1, <2>2, StreamFailsSound DEF Serving
<1>5. CASE ~handler[s].failed
  <2>1. Proceed(s, "put")
    BY <1>5 DEF StreamP2pOutEnds
  <2>2. PICK r : Proceeds(s, r, "put")
    BY <1>2, <2>1, ProceedFacts
  <2>3. StreamOK(r)
    <3>1. Flagged(r)
      BY <1>1, <1>3, <2>2 DEF Proceeds, StreamOK, Flagged
    <3>2. Archived(r)
      BY <1>1, <1>3, <2>2 DEF Proceeds, StreamOK, Archived
    <3> QED BY <1>1, <1>3, <1>5, <2>2, <3>1, <3>2 DEF Proceeds, StreamOK
  <2>4. StreamOK(r)'
    BY <2>2, <2>3, StreamKept DEF Proceeds, Serving
  <2> QED BY <1>2, <2>2, <2>4, StreamMoves, ServingFacts DEF Proceeds, Serving
<1> QED BY <1>4, <1>5

\* The peer that answers 204 has got everything.
LEMMA PutStep ==
  ASSUME NEW s, Serving(s), Put(s)
  PROVE  /\ Answered(s) /\ UNCHANGED <<live, vol>>
         /\ peer' = peer \/ \E part \in SUBSET handler[s].got : peer' = [peer EXCEPT !.files = @ \union part]
<1>1. handler[s].op = "streamP2pOut" /\ handler[s].pc = "put" /\ UNCHANGED <<live, vol>>
  BY DEF Put, At
<1>2. handler[s].op \in Streams
  BY <1>1 DEF Streams
<1>3. /\ StreamOK(handler[s]) /\ TypeOK
      /\ call.op = "streamP2pOut"
      /\ handler[s].arg[1].host = PeerHost
      /\ handler[s].h = call.h /\ handler[s].path = call.path
  BY <1>1, <1>2, ServingFacts DEF Serving, Serves, Base, CallOK
<1>4. Throughout \subseteq handler[s].got
  BY <1>1, <1>3 DEF StreamOK, Archived
<1>5. /\ PeerError(Server!StreamIn("nil", FALSE)) = "nil"
      /\ PeerError(Server!StreamIn("ErrVolumeDoesNotExist", FALSE)) = "p2p_streaming_error"
      /\ \A bad \in BOOLEAN : PeerError(Server!StreamIn("error", bad)) = "p2p_streaming_error"
  <2>1. /\ PeerError(Server!Status(204)) = "nil"
        /\ \A code \in {400, 404, 500} :
              PeerError(Server!RespondWithError("ErrStreamInFailed", code)) = "p2p_streaming_error"
    BY ResponseFields DEF PeerError
  <2>2. PeerError(Server!StreamIn("nil", FALSE)) = "nil"
    BY <2>1, ServerStreamInFacts, Zenon
  <2>3. PeerError(Server!RespondWithError("ErrStreamInFailed", 404)) = "p2p_streaming_error"
        /\ PeerError(Server!RespondWithError("ErrStreamInFailed", 400)) = "p2p_streaming_error"
        /\ PeerError(Server!RespondWithError("ErrStreamInFailed", 500)) = "p2p_streaming_error"
    BY <2>1
  <2>4. PeerError(Server!StreamIn("ErrVolumeDoesNotExist", FALSE)) = "p2p_streaming_error"
    BY <2>3, ServerStreamInFacts, Zenon
  <2>5. ASSUME NEW bad \in BOOLEAN PROVE PeerError(Server!StreamIn("error", bad)) = "p2p_streaming_error"
    <3>1. CASE bad = TRUE
      BY <2>3, <3>1, ServerStreamInFacts, Zenon
    <3>2. CASE bad = FALSE
      BY <2>3, <3>2, ServerStreamInFacts, Zenon
    <3> QED BY <3>1, <3>2
  <2> QED BY <2>2, <2>4, <2>5
<1>6. ASSUME NEW err \in {"error", "p2p_streaming_error"}, NEW did, NEW fault, fault \/ ~peer.there,
             Respond(s, Server!StreamP2pOut(err), did, fault)
      PROVE  Answered(s)
  <2>1. Uninformative(Result(Server!StreamP2pOut(err)))
    BY <1>3, StreamP2pOutOutcome
  <2>2. fault \/ Excused
    BY <1>3, <1>6, ServingSees DEF Excused
  <2>3. Sound(Result(Server!StreamP2pOut(err)), did, fault)
    BY <1>3, <2>1, <2>2, SoundUninformative
  <2> QED BY <1>6, <2>3 DEF Answered
<1>7. CASE /\ ~peer.there
           /\ Respond(s, Server!StreamP2pOut(PeerError(Server!StreamIn("ErrVolumeDoesNotExist", FALSE))), FALSE, FALSE)
           /\ UNCHANGED peer
  BY <1>1, <1>5, <1>6, <1>7
<1>8. CASE /\ peer' = [peer EXCEPT !.files = @ \union handler[s].got]
           /\ Respond(s, Server!StreamP2pOut(PeerError(Server!StreamIn("nil", FALSE))), TRUE, FALSE)
  <2>1. Respond(s, Server!StreamP2pOut("nil"), TRUE, FALSE)
    BY <1>5, <1>8
  <2>2. PICK r : r = Result(Server!StreamP2pOut("nil"))
    OBVIOUS
  <2>3. r = Client!Ok
    BY <1>3, <2>2, StreamP2pOutOutcome
  <2>4. r.err = "nil" /\ ~NoFile(r)
    BY <2>3, ResponseFields DEF NoFile
  <2>5. handler[s].got \subseteq peer'.files
    BY <1>3, <1>8 DEF TypeOK
  <2>6. Sound(r, TRUE, FALSE)
    BY <1>3, <1>4, <2>4, <2>5 DEF Sound, SaysTruth
  <2>7. handler[s].got \in SUBSET handler[s].got
    OBVIOUS
  <2> QED BY <1>1, <1>8, <2>1, <2>2, <2>6, <2>7 DEF Answered
<1>9. CASE /\ \E part \in Part(handler[s].got) : peer' = [peer EXCEPT !.files = @ \union part]
           /\ \E bad \in BOOLEAN :
                 Respond(s, Server!StreamP2pOut(PeerError(Server!StreamIn("error", bad))), FALSE, TRUE)
  <2>1. Respond(s, Server!StreamP2pOut("p2p_streaming_error"), FALSE, TRUE)
    BY <1>5, <1>9
  <2> QED BY <1>1, <1>6, <1>9, <2>1 DEF Part
<1>10. CASE /\ peer' = peer \/ peer' = [peer EXCEPT !.files = @ \union handler[s].got]
            /\ Respond(s, Server!StreamP2pOut("error"), FALSE, TRUE)
  <2>1. handler[s].got \in SUBSET handler[s].got
    OBVIOUS
  <2> QED BY <1>1, <1>6, <1>10, <2>1
<1> QED BY <1>3, <1>7, <1>8, <1>9, <1>10 DEF Put
-----------------------------------------------------------------------------
(***************************************************************************)
(* Handlers that call the repository once.                                 *)
(***************************************************************************)
\* The effect of the call, and that is what it reports.
Changes == {"DestroyVolume", "destroy", "DestroyVolumes", "setProperty", "setPrivileged", "streamIn"}

LEMMA SoundDone ==
  ASSUME call.op \in Changes, NEW fault
  PROVE  Sound(Client!Ok, TRUE, fault)
<1>1. Client!Ok.err = "nil" /\ ~NoFile(Client!Ok)
  BY ResponseFields DEF NoFile
<1>2. SaysTruth(Client!Ok, call.fault \/ fault)
  BY <1>1 DEF SaysTruth, Changes
<1> QED BY <1>1, <1>2 DEF Sound, Changes

\* The answers that are right whatever else is the case.
LEMMA AnswersOnce ==
  ASSUME NEW s, NEW response, NEW did, NEW fault, Respond(s, response, did, fault), call.op # "getStreamInP2pUrl",
         \/ call.op \in Changes /\ Result(response) = Client!Ok /\ did = TRUE
         \/ call.op \in NeedsVolume \union {"DestroyVolume"} /\ Result(response).err # "nil" /\ Missing(call.h)
         \/ Result(response).err # "nil" /\ fault = TRUE
         \/ Uninformative(Result(response)) /\ Excused
  PROVE  Answered(s)
<1>1. CASE call.op \in Changes /\ Result(response) = Client!Ok /\ did = TRUE
  <2>1. Sound(Client!Ok, TRUE, fault)
    BY <1>1, SoundDone
  <2>2. Sound(Result(response), did, fault)
    BY <1>1, <2>1, Zenon
  <2> QED BY <2>2, Zenon DEF Answered
<1>2. CASE call.op \in NeedsVolume \union {"DestroyVolume"} /\ Result(response).err # "nil" /\ Missing(call.h)
  <2>1. Sound(Result(response), did, fault)
    BY <1>2, SoundMissing
  <2> QED BY <2>1, Zenon DEF Answered
<1>3. CASE Result(response).err # "nil" /\ fault = TRUE
  <2>1. Sound(Result(response), did, TRUE)
    BY <1>3, SoundFault
  <2>2. Sound(Result(response), did, fault)
    BY <1>3, <2>1, Zenon
  <2> QED BY <2>2, Zenon DEF Answered
<1>4. CASE Uninformative(Result(response)) /\ Excused
  <2>1. Sound(Result(response), did, fault)
    BY <1>4, SoundUninformative
  <2> QED BY <2>1, Zenon DEF Answered
<1> QED BY <1>1, <1>2, <1>3, <1>4

\* What informs of nothing, or of a missing volume, is an error.
LEMMA Errors == \A r : Uninformative(r) \/ NotFound(r) => r.err # "nil"
BY DEF Uninformative, NotFound

LEMMA ServeDestroyAnswers ==
  ASSUME NEW s, Serving(s), ServeDestroy(s)
  PROVE  Answered(s)
<1>1. call.op \in {"DestroyVolume", "destroy"}
  BY ServingFacts DEF ServeDestroy, At
<1>2. /\ Result(Server!DestroyVolume("nil")) = Client!Ok
      /\ Result(Server!DestroyVolume("ErrVolumeDoesNotExist")).err # "nil"
      /\ Result(Server!DestroyVolume("error")).err # "nil"
  <2>1. /\ Result(Server!DestroyVolume("nil")) = Client!Ok
        /\ \/ NotFound(Result(Server!DestroyVolume("ErrVolumeDoesNotExist")))
           \/ Uninformative(Result(Server!DestroyVolume("ErrVolumeDoesNotExist")))
        /\ Uninformative(Result(Server!DestroyVolume("error")))
    BY <1>1, DestroyOutcome
  <2> QED BY <2>1, Errors, Zenon
<1>3. call.op \in Changes /\ call.op \in NeedsVolume \union {"DestroyVolume"} /\ call.op # "getStreamInP2pUrl"
  BY <1>1 DEF Changes, NeedsVolume
<1>4. \/ Volume(s) = NoId /\ Respond(s, Server!DestroyVolume("ErrVolumeDoesNotExist"), FALSE, FALSE)
      \/ Respond(s, Server!DestroyVolume("nil"), TRUE, FALSE)
      \/ \E did : Respond(s, Server!DestroyVolume("error"), did, TRUE)
  BY Zenon DEF ServeDestroy
<1>5. Volume(s) = NoId => Missing(call.h)
  BY ServingSees
<1> QED BY <1>2, <1>3, <1>4, <1>5, AnswersOnce, Zenon

LEMMA ServeDestroyVolumesAnswers ==
  ASSUME NEW s, Serving(s), ServeDestroyVolumes(s)
  PROVE  Answered(s)
<1>1. call.op = "DestroyVolumes"
  BY ServingFacts DEF ServeDestroyVolumes, At
<1>2. Result(Server!DestroyVolumes(FALSE)) = Client!Ok /\ Result(Server!DestroyVolumes(TRUE)).err # "nil"
  BY <1>1, DestroyVolumesOutcome, Errors, Zenon
<1>3. call.op \in Changes /\ call.op # "getStreamInP2pUrl"
  BY <1>1 DEF Changes
<1>4. \E done, did : \/ Respond(s, Server!DestroyVolumes(FALSE), TRUE, FALSE)
                     \/ Respond(s, Server!DestroyVolumes(TRUE), did, TRUE)
  BY Zenon DEF ServeDestroyVolumes
<1> QED BY <1>2, <1>3, <1>4, AnswersOnce, Zenon

LEMMA StorePropertiesAnswers ==
  ASSUME NEW s, Serving(s), StoreProperties(s)
  PROVE  Answered(s)
<1>1. call.op = "setProperty"
  BY ServingFacts DEF StoreProperties, At
<1>2. Result(Server!SetProperty("nil")) = Client!Ok /\ Result(Server!SetProperty("error")).err # "nil"
  BY <1>1, SetPropertyOutcome, Errors, Zenon
<1>3. call.op \in Changes /\ call.op # "getStreamInP2pUrl"
  BY <1>1 DEF Changes
<1>4. \/ Respond(s, Server!SetProperty("nil"), TRUE, FALSE)
      \/ Respond(s, Server!SetProperty("error"), FALSE, TRUE)
  BY Zenon DEF StoreProperties
<1> QED BY <1>2, <1>3, <1>4, AnswersOnce, Zenon

LEMMA ServeSetPrivilegedAnswers ==
  ASSUME NEW s, Serving(s), ServeSetPrivileged(s)
  PROVE  Answered(s)
<1>1. call.op = "setPrivileged"
  BY ServingFacts DEF ServeSetPrivileged, At
<1>2. /\ Result(Server!SetPrivileged("nil")) = Client!Ok
      /\ \A err \in FileErrors : Result(Server!SetPrivileged(err)).err # "nil"
  <2>1. /\ Result(Server!SetPrivileged("nil")) = Client!Ok
        /\ NotFound(Result(Server!SetPrivileged("ErrVolumeDoesNotExist")))
        /\ Uninformative(Result(Server!SetPrivileged("error")))
    BY <1>1, SetPrivilegedOutcome
  <2>2. /\ Result(Server!SetPrivileged("ErrVolumeDoesNotExist")).err # "nil"
        /\ Result(Server!SetPrivileged("error")).err # "nil"
    BY <2>1, Errors, Zenon
  <2> QED BY <2>1, <2>2, Zenon DEF FileErrors
<1>3. /\ call.op \in Changes /\ call.op \in NeedsVolume \union {"DestroyVolume"} /\ call.op # "getStreamInP2pUrl"
      /\ "ErrVolumeDoesNotExist" \in FileErrors
  BY <1>1 DEF Changes, NeedsVolume, FileErrors
<1>4. \/ Volume(s) = NoId /\ Respond(s, Server!SetPrivileged("ErrVolumeDoesNotExist"), FALSE, FALSE)
      \/ Respond(s, Server!SetPrivileged("nil"), TRUE, FALSE)
      \/ \E err \in FileErrors : Respond(s, Server!SetPrivileged(err), FALSE, TRUE)
  BY Zenon DEF ServeSetPrivileged
<1>5. Volume(s) = NoId => Missing(call.h)
  BY ServingSees
<1> QED BY <1>2, <1>3, <1>4, <1>5, AnswersOnce, Zenon

LEMMA ServeGetPrivilegedAnswers ==
  ASSUME NEW s, Serving(s), ServeGetPrivileged(s)
  PROVE  Answered(s)
<1>1. call.op = "getPrivileged" /\ call.h \in Handles /\ Volume(s) = live[call.h] /\ View \in seen
  BY ServingFacts DEF ServeGetPrivileged, At
<1>2. /\ \A p : Result(Server!GetPrivileged("nil", p)) = Client!Returns("nil", <<p>>)
      /\ \A err \in FileErrors : Result(Server!GetPrivileged(err, FALSE)).err # "nil"
      /\ Uninformative(Result(Server!GetPrivileged("error", FALSE)))
  <2>1. /\ \A p : Result(Server!GetPrivileged("nil", p)) = Client!Returns("nil", <<p>>)
        /\ NotFound(Result(Server!GetPrivileged("ErrVolumeDoesNotExist", FALSE)))
        /\ Uninformative(Result(Server!GetPrivileged("error", FALSE)))
    BY <1>1, GetPrivilegedOutcome
  <2>2. /\ Result(Server!GetPrivileged("ErrVolumeDoesNotExist", FALSE)).err # "nil"
        /\ Result(Server!GetPrivileged("error", FALSE)).err # "nil"
    BY <2>1, Errors, Zenon
  <2> QED BY <2>1, <2>2, Zenon DEF FileErrors
<1>3. /\ call.op \in NeedsVolume \union {"DestroyVolume"} /\ call.op # "getStreamInP2pUrl" /\ call.op \in PrivilegedReaders
      /\ "ErrVolumeDoesNotExist" \in FileErrors
  BY <1>1 DEF NeedsVolume, PrivilegedReaders, FileErrors
<1>4. CASE Volume(s) = NoId /\ Respond(s, Server!GetPrivileged("ErrVolumeDoesNotExist", FALSE), FALSE, FALSE)
  <2>1. Missing(call.h)
    BY <1>4, ServingSees
  <2> QED BY <1>2, <1>3, <1>4, <2>1, AnswersOnce, Zenon
<1>5. CASE /\ Volume(s) # NoId /\ "privileged" \notin vol[Volume(s)].torn
           /\ Respond(s, Server!GetPrivileged("nil", vol[Volume(s)].priv), TRUE, FALSE)
  <2>1. PICK priv : priv = vol[Volume(s)].priv
    OBVIOUS
  <2>2. PICK r : r = Result(Server!GetPrivileged("nil", priv))
    OBVIOUS
  <2>3. r = Client!Returns("nil", <<priv>>)
    BY <1>2, <2>2
  <2>4. r.err = "nil" /\ r.value = <<priv>>
    BY <2>3, ResponseFields
  <2>5. r.value[1] = priv
    BY <2>4
  <2>6. PICK now : now = View
    OBVIOUS
  <2>7. now \in seen /\ now.vol[call.h].there /\ "privileged" \notin now.vol[call.h].torn /\ now.vol[call.h].priv = priv
    BY <1>1, <1>5, <2>1, <2>6, ViewFacts
  <2>8. SaysTruth(r, call.fault \/ FALSE)
    BY <1>1, <2>4, <2>5, <2>7 DEF SaysTruth, NoFile
  <2>9. Sound(r, TRUE, FALSE)
    BY <1>1, <2>4, <2>8 DEF Sound
  <2> QED BY <1>5, <2>1, <2>2, <2>9 DEF Answered
<1>6. CASE /\ Volume(s) # NoId /\ "privileged" \in vol[Volume(s)].torn
           /\ Respond(s, Server!GetPrivileged("error", FALSE), FALSE, FALSE)
  <2>1. Torn(call.h, "privileged")
    BY <1>6, ServingSees
  <2>2. Excused
    BY <1>3, <2>1 DEF Excused
  <2> QED BY <1>2, <1>3, <1>6, <2>2, AnswersOnce, Zenon
<1>7. CASE \E err \in FileErrors : Respond(s, Server!GetPrivileged(err, FALSE), FALSE, TRUE)
  BY <1>2, <1>3, <1>7, AnswersOnce, Zenon
<1> QED BY <1>4, <1>5, <1>6, <1>7, Zenon DEF ServeGetPrivileged

LEMMA ServeStreamInAnswers ==
  ASSUME NEW s, Serving(s), ServeStreamIn(s)
  PROVE  Answered(s)
<1>1. call.op = "streamIn" /\ handler[s].enc = call.enc
  BY ServingFacts DEF ServeStreamIn, At
<1>2. /\ Result(Server!StreamIn("nil", FALSE)) = Client!Ok
      /\ \A bad \in BOOLEAN : NotFound(Result(Server!StreamIn("ErrVolumeDoesNotExist", bad)))
      /\ Uninformative(Result(Server!StreamIn("ErrUnsupportedStreamEncoding", FALSE)))
      /\ \A bad \in BOOLEAN : Uninformative(Result(Server!StreamIn("error", bad)))
  BY <1>1, StreamInOutcome
<1>3. \A err \in FileErrors, bad \in BOOLEAN : Result(Server!StreamIn(err, bad)).err # "nil"
  BY <1>2, Errors, Zenon DEF FileErrors
<1>4. /\ call.op \in Changes /\ call.op \in NeedsVolume \union {"DestroyVolume"} /\ call.op # "getStreamInP2pUrl"
      /\ call.op \in PrivilegedReaders /\ call.op \in Streams \union {"streamIn"}
      /\ "ErrVolumeDoesNotExist" \in FileErrors /\ FALSE \in BOOLEAN
  BY <1>1 DEF Changes, NeedsVolume, PrivilegedReaders, FileErrors
<1>5. CASE Volume(s) = NoId /\ Respond(s, Server!StreamIn("ErrVolumeDoesNotExist", FALSE), FALSE, FALSE)
  <2>1. Missing(call.h)
    BY <1>5, ServingSees
  <2> QED BY <1>3, <1>4, <1>5, <2>1, AnswersOnce, Zenon
<1>6. CASE /\ Volume(s) # NoId /\ "privileged" \in vol[Volume(s)].torn
           /\ Respond(s, Server!StreamIn("error", FALSE), FALSE, FALSE)
  <2>1. Torn(call.h, "privileged")
    BY <1>6, ServingSees
  <2>2. Excused
    BY <1>4, <2>1 DEF Excused
  <2> QED BY <1>2, <1>4, <1>6, <2>2, AnswersOnce, Zenon
<1>7. CASE handler[s].enc \notin Encodings
           /\ Respond(s, Server!StreamIn("ErrUnsupportedStreamEncoding", FALSE), FALSE, FALSE)
  <2>1. Excused
    BY <1>1, <1>4, <1>7 DEF Excused
  <2> QED BY <1>2, <1>4, <1>7, <2>1, AnswersOnce, Zenon
<1>8. CASE Respond(s, Server!StreamIn("nil", FALSE), TRUE, FALSE)
  BY <1>2, <1>4, <1>8, AnswersOnce, Zenon
<1>9. CASE \E err \in FileErrors, bad \in BOOLEAN : Respond(s, Server!StreamIn(err, bad), FALSE, TRUE)
  BY <1>3, <1>4, <1>9, AnswersOnce, Zenon
<1> QED BY <1>5, <1>6, <1>7, <1>8, <1>9, Zenon DEF ServeStreamIn

LEMMA ServeGetP2pUrlAnswers ==
  ASSUME NEW s, Serving(s), ServeGetP2pUrl(s)
  PROVE  Answered(s)
<1>1. call.op = "getStreamInP2pUrl" /\ handler[s].arg = call.arg /\ call.arg \in Interfaces
  BY ServingFacts DEF ServeGetP2pUrl, At, Serving, Base, CallOK
<1>2. CASE Respond(s, Server!GetP2pUrl("nil", handler[s].arg, Family), TRUE, FALSE)
  <2>1. PICK r : r = Result(Server!GetP2pUrl("nil", call.arg, Family))
    OBVIOUS
  <2>2. /\ Leads(r.value)
        /\ \/ r.err = "nil"
           \/ /\ Uninformative(r)
              /\ ~(HasAddress /\ \A i \in DOMAIN call.arg : ~call.arg[i].fails)
    BY <1>1, <2>1, GetP2pUrlOutcome
  <2>3. r.err # "nil" => Excused
    BY <1>1, <2>2 DEF Excused
  <2>4. SaysTruth(r, call.fault \/ FALSE)
    BY <1>1, <2>2 DEF SaysTruth, NoFile, Uninformative
  <2>5. Sound(r, TRUE, FALSE)
    BY <1>1, <2>2, <2>3, <2>4 DEF Sound
  <2> QED BY <1>1, <1>2, <2>1, <2>5 DEF Answered
<1>3. CASE Respond(s, Server!GetP2pUrl("error", handler[s].arg, Family), FALSE, TRUE)
  <2>1. PICK r : r = Result(Server!GetP2pUrl("error", call.arg, Family))
    OBVIOUS
  <2>2. Leads(r.value) /\ Uninformative(r)
    BY <1>1, <2>1, GetP2pUrlOutcome
  <2>3. SaysTruth(r, call.fault \/ TRUE)
    BY <1>1, <2>2 DEF SaysTruth, NoFile, Uninformative
  <2>4. Sound(r, FALSE, TRUE)
    BY <1>1, <2>2, <2>3 DEF Sound, Uninformative
  <2> QED BY <1>1, <1>3, <2>1, <2>4 DEF Answered
<1> QED BY <1>2, <1>3 DEF ServeGetP2pUrl
-----------------------------------------------------------------------------
(***************************************************************************)
(* Handlers that read a volume, or all of them, in several steps.          *)
(***************************************************************************)
\* What is read of a volume.
LEMMA LoadFacts ==
  ASSUME NEW s, Serving(s), NEW h \in Handles, live[h] # NoId, NEW properties \in LoadProperties(live[h])
  PROVE  WereOf(h, properties)
<1>1. CASE "properties" \in vol[live[h]].torn
  BY <1>1, Sees DEF WereOf, Serving, Base
<1>2. CASE "properties" \notin vol[live[h]].torn
  <2>1. properties = vol[live[h]].prop
    BY <1>2 DEF LoadProperties
  <2>2. PICK now : now = View
    OBVIOUS
  <2>3. now \in seen /\ now.vol[h].there /\ now.vol[h].prop = properties
    BY <2>1, <2>2, ViewFacts, ServingFacts
  <2> QED BY <2>3 DEF WereOf
<1> QED BY <1>1, <1>2

LEMMA GetMoves ==
  ASSUME NEW s, Serving(s), NEW r, handler' = [handler EXCEPT ![s] = r], DOMAIN r = DOMAIN IdleHandler,
         Asks(r) = Asks(handler[s]), UNCHANGED <<volumes, call, url>>, handler[s].op \in Gets, GetOK(r)
  PROVE  Moved(s, r)
<1>1. r.op = handler[s].op
  BY DEF Asks
<1>2. r.op \notin Streams /\ r.op # "ListVolumes"
  BY <1>1 DEF Streams, Gets
<1>3. Knows(r)
  BY <1>1, <1>2 DEF Knows
<1>4. DOMAIN call' = DOMAIN NoCall /\ call'.pc = call.pc /\ Asks(call') = Asks(call) /\ (call.fault => call'.fault)
  BY ServingFacts DEF TypeOK, Asks
<1>5. Knows(r)'
  BY <1>2, <1>3, <1>4, KnowsKept DEF Serving
<1> QED BY <1>4, <1>5, MoveFacts DEF Serving

LEMMA GetFailsSound ==
  ASSUME NEW s, Serving(s), handler[s].op \in Gets, NEW err \in FileErrors, NEW fault, GetFails(s, err, fault),
         \/ fault = TRUE
         \/ err = "ErrVolumeDoesNotExist" /\ Missing(call.h)
         \/ err = "error" /\ Excused
  PROVE  Answered(s) /\ UNCHANGED volumes
<1>1. call.op \in {"LookupVolume", "Properties"} /\ call.op # "getStreamInP2pUrl"
  BY ServingFacts DEF Gets
<1>2. PICK r : r = Result(Server!GetVolume(err, <<>>))
  OBVIOUS
<1>3. /\ call.op = "LookupVolume" /\ err = "ErrVolumeDoesNotExist" => r = Client!Ok
      /\ call.op = "Properties" /\ err = "ErrVolumeDoesNotExist" => r.err = "ErrVolumeDoesNotExist"
      /\ err = "error" => Uninformative(r)
  BY <1>1, <1>2, GetVolumeOutcome
<1>4. fault = TRUE => Sound(r, FALSE, fault)
  <2>1. ASSUME fault = TRUE, r.err # "nil" PROVE Sound(r, FALSE, TRUE)
    BY <1>1, <2>1, SoundFault
  <2>2. ASSUME r = Client!Ok, call.op = "LookupVolume" PROVE Sound(r, FALSE, TRUE)
    <3>1. r.err = "nil" /\ r.value = <<>> /\ ~NoFile(r)
      BY <2>2, ResponseFields DEF NoFile
    <3>2. SaysTruth(r, call.fault \/ TRUE)
      BY <2>2, <3>1 DEF SaysTruth
    <3> QED BY <2>2, <3>1, <3>2 DEF Sound
  <2>3. r.err # "nil" \/ (r = Client!Ok /\ call.op = "LookupVolume")
    BY <1>1, <1>3 DEF FileErrors, Uninformative
  <2> QED BY <2>1, <2>2, <2>3, Zenon
<1>5. err = "ErrVolumeDoesNotExist" /\ Missing(call.h) => Sound(r, FALSE, fault)
  <2>1. ASSUME Missing(call.h), r.err # "nil" PROVE Sound(r, FALSE, fault)
    BY <1>1, <2>1, SoundMissing DEF NeedsVolume, Gets
  <2>2. ASSUME Missing(call.h), r = Client!Ok, call.op = "LookupVolume" PROVE Sound(r, FALSE, fault)
    <3>1. r.err = "nil" /\ r.value = <<>> /\ ~NoFile(r)
      BY <2>2, ResponseFields DEF NoFile
    <3>2. SaysTruth(r, call.fault \/ fault)
      BY <2>2, <3>1 DEF SaysTruth
    <3> QED BY <2>2, <3>1, <3>2 DEF Sound
  <2>3. err = "ErrVolumeDoesNotExist" => r.err # "nil" \/ (r = Client!Ok /\ call.op = "LookupVolume")
    BY <1>1, <1>3
  <2> QED BY <2>1, <2>2, <2>3
<1>6. err = "error" /\ Excused => Sound(r, FALSE, fault)
  BY <1>1, <1>3, SoundUninformative
<1>7. Sound(r, FALSE, fault)
  BY <1>4, <1>5, <1>6, Zenon
<1> QED BY <1>2, <1>7, Zenon DEF Answered, GetFails

LEMMA ServeGetStep ==
  ASSUME NEW s, Serving(s), ServeGet(s)
  PROVE  (Answered(s) /\ UNCHANGED volumes) \/ \E r : Moved(s, r)
<1>1. handler[s].op \in Gets /\ {"error", "ErrVolumeDoesNotExist"} = FileErrors
  BY DEF ServeGet, At, FileErrors
<1>2. CASE Volume(s) = NoId /\ GetFails(s, "ErrVolumeDoesNotExist", FALSE)
  BY <1>1, <1>2, GetFailsSound, ServingSees
<1>3. CASE Proceed(s, "properties")
  <2>1. PICK r : Proceeds(s, r, "properties")
    BY <1>3, ProceedFacts
  <2>2. GetOK(r)
    BY <2>1 DEF Proceeds, GetOK
  <2> QED BY <1>1, <2>1, <2>2, GetMoves DEF Proceeds
<1>4. CASE GetFails(s, "error", TRUE)
  BY <1>1, <1>4, GetFailsSound
<1> QED BY <1>2, <1>3, <1>4 DEF ServeGet

LEMMA GetPropertiesStep ==
  ASSUME NEW s, Serving(s), GetProperties(s)
  PROVE  (Answered(s) /\ UNCHANGED volumes) \/ \E r : Moved(s, r)
<1>1. handler[s].op \in Gets /\ {"error", "ErrVolumeDoesNotExist"} = FileErrors
  BY DEF GetProperties, At, FileErrors
<1>2. CASE Volume(s) = NoId /\ GetFails(s, "ErrVolumeDoesNotExist", FALSE)
  BY <1>1, <1>2, GetFailsSound, ServingSees
<1>3. CASE Volume(s) # NoId /\ "properties" \in vol[Volume(s)].torn /\ GetFails(s, "error", FALSE)
  <2>1. Excused
    BY <1>1, <1>3, ServingSees, ServingFacts DEF Excused, PropertiesReaders
  <2> QED BY <1>1, <1>3, <2>1, GetFailsSound
<1>4. CASE /\ Volume(s) # NoId
           /\ \E properties \in LoadProperties(Volume(s)) :
                 handler' = [handler EXCEPT ![s].pc = "getFlag", ![s].prop = properties]
           /\ UNCHANGED <<volumes, call, url>>
  <2>1. PICK properties \in LoadProperties(Volume(s)) :
           handler' = [handler EXCEPT ![s].pc = "getFlag", ![s].prop = properties]
    BY <1>4
  <2>2. PICK r : r = [handler[s] EXCEPT !.pc = "getFlag", !.prop = properties]
    OBVIOUS
  <2>3. handler' = [handler EXCEPT ![s] = r]
    BY <2>1, <2>2
  <2>4. /\ DOMAIN r = DOMAIN IdleHandler
        /\ r.op = handler[s].op /\ r.h = handler[s].h /\ r.arg = handler[s].arg /\ r.path = handler[s].path
        /\ r.enc = handler[s].enc /\ r.pc = "getFlag" /\ r.prop = properties
    BY <2>2, ServingFacts
  <2>5. WereOf(r.h, r.prop)
    BY <1>4, <2>4, LoadFacts, ServingFacts DEF Volume
  <2>6. GetOK(r) /\ Asks(r) = Asks(handler[s])
    BY <2>4, <2>5 DEF GetOK, Asks
  <2> QED BY <1>1, <1>4, <2>3, <2>4, <2>6, GetMoves
<1>5. CASE \E err \in FileErrors : GetFails(s, err, TRUE)
  BY <1>1, <1>5, GetFailsSound
<1> QED BY <1>2, <1>3, <1>4, <1>5 DEF GetProperties

\* The properties that the answer has.
LEMMA GetVolumePrivilegedStep ==
  ASSUME NEW s, Serving(s), GetVolumePrivileged(s)
  PROVE  Answered(s) /\ UNCHANGED volumes
<1>1. /\ handler[s].op \in Gets /\ handler[s].pc = "getFlag" /\ call.op \in {"LookupVolume", "Properties"}
      /\ {"error", "ErrVolumeDoesNotExist"} = FileErrors
  BY ServingFacts DEF GetVolumePrivileged, At, FileErrors, Gets
<1>2. CASE Volume(s) = NoId /\ GetFails(s, "ErrVolumeDoesNotExist", FALSE)
  BY <1>1, <1>2, GetFailsSound, ServingSees
<1>3. CASE Respond(s, Server!GetVolume("nil", handler[s].prop), TRUE, FALSE) /\ UNCHANGED volumes
  <2>1. PICK prop : prop = handler[s].prop
    OBVIOUS
  <2>2. PICK r : r = Result(Server!GetVolume("nil", prop))
    OBVIOUS
  <2>3. r = Client!Returns("nil", <<prop>>)
    BY <1>1, <2>2, GetVolumeOutcome
  <2>4. r.err = "nil" /\ r.value = <<prop>>
    BY <2>3, ResponseFields
  <2>5. r # Client!Ok /\ ~NoFile(r) /\ r.value[1] = prop
    BY <2>4, ResponseFields DEF NoFile
  <2>6. WereOf(call.h, prop)
    BY <1>1, <2>1, ServingFacts DEF Knows, GetOK
  <2>7. SaysTruth(r, call.fault \/ FALSE)
    BY <1>1, <2>4, <2>5, <2>6 DEF SaysTruth
  <2>8. Sound(r, TRUE, FALSE)
    BY <1>1, <2>4, <2>7 DEF Sound
  <2> QED BY <1>3, <2>1, <2>2, <2>8 DEF Answered
<1>4. CASE Volume(s) # NoId /\ "privileged" \in vol[Volume(s)].torn /\ GetFails(s, "error", FALSE)
  <2>1. Excused
    BY <1>1, <1>4, ServingSees, ServingFacts DEF Excused, PrivilegedReaders
  <2> QED BY <1>1, <1>4, <2>1, GetFailsSound
<1>5. CASE \E err \in FileErrors : GetFails(s, err, TRUE)
  BY <1>1, <1>5, GetFailsSound
<1> QED BY <1>2, <1>3, <1>4, <1>5 DEF GetVolumePrivileged

\* The list goes on, with at most one volume more or less.
LEMMA ListMoves ==
  ASSUME NEW s, Serving(s), NEW r, handler' = [handler EXCEPT ![s] = r], DOMAIN r = DOMAIN IdleHandler,
         Asks(r) = Asks(handler[s]), UNCHANGED <<volumes, url>>, handler[s].op = "ListVolumes",
         DOMAIN call' = DOMAIN NoCall, call'.pc = call.pc, Asks(call') = Asks(call), call.fault => call'.fault,
         r.pc \in {"volumes", "listFlag"}, r.todo \subseteq Handles, \A h \in r.got : Has(h),
         \A h \in Handles \ (r.todo \union r.got) : call'.fault \/ Lacks(h),
         r.pc = "listFlag" => r.entry \in Handles /\ Has(r.entry)
  PROVE  Moved(s, r)
<1>1. r.op = "ListVolumes"
  BY DEF Asks
<1>2. r.op \notin Streams /\ r.op \notin Gets
  BY <1>1 DEF Streams, Gets
<1>3. /\ seen \subseteq seen' /\ call'.h = call.h /\ call'.arg = call.arg /\ call'.path = call.path
  BY DEF Serving, Asks
<1>4. \A h : (Has(h) => Has(h)') /\ (Lacks(h) => call.fault \/ Lacks(h)')
  BY <1>3, SeenGrows
<1>5. \A h : call'.fault => Lacks(h)'
  BY DEF Lacks
<1>6. ListOK(r)'
  BY <1>4, <1>5 DEF ListOK
<1>7. Knows(r)'
  BY <1>2, <1>6 DEF Knows
<1> QED BY <1>7, MoveFacts DEF Serving

LEMMA ListFacts ==
  ASSUME NEW s, Serving(s), handler[s].op = "ListVolumes", handler[s].pc \in {"volumes", "listFlag"}
  PROVE  /\ handler[s].todo \subseteq Handles
         /\ \A h \in handler[s].got : Has(h)
         /\ \A h \in Handles \ (handler[s].todo \union handler[s].got) : Lacks(h)
         /\ handler[s].pc = "listFlag" => handler[s].entry \in Handles /\ Has(handler[s].entry)
BY ServingFacts DEF Knows, ListOK

LEMMA PassOverStep ==
  ASSUME NEW s, Serving(s), handler[s].op = "ListVolumes", handler[s].pc \in {"volumes", "listFlag"},
         NEW h, NEW fault, PassOver(s, h, fault), fault = TRUE \/ Lacks(h), UNCHANGED <<volumes, url>>
  PROVE  \E r : Moved(s, r)
<1>1. PICK r : r = [handler[s] EXCEPT !.pc = "volumes", !.todo = @ \ {h}]
  OBVIOUS
<1>2. handler' = [handler EXCEPT ![s] = r]
  BY <1>1 DEF PassOver
<1>3. /\ DOMAIN r = DOMAIN IdleHandler
      /\ r.op = handler[s].op /\ r.h = handler[s].h /\ r.arg = handler[s].arg /\ r.path = handler[s].path
      /\ r.enc = handler[s].enc /\ r.pc = "volumes" /\ r.todo = handler[s].todo \ {h} /\ r.got = handler[s].got
  BY <1>1, ServingFacts
<1>4. Asks(r) = Asks(handler[s])
  BY <1>3 DEF Asks
<1>5. PICK failed : failed = (call.fault \/ fault)
  OBVIOUS
<1>6. call' = [call EXCEPT !.fault = failed]
  BY <1>5 DEF PassOver
<1>7. /\ DOMAIN call' = DOMAIN NoCall /\ call'.pc = call.pc /\ Asks(call') = Asks(call)
      /\ call'.fault = failed
  BY <1>6, ServingFacts DEF TypeOK, NoCall, Asks
<1>8. (call.fault => call'.fault) /\ (fault = TRUE => call'.fault)
  BY <1>5, <1>7
<1>9. \A g \in Handles \ (r.todo \union r.got) : call'.fault \/ Lacks(g)
  BY <1>3, <1>8, ListFacts
<1> QED BY <1>2, <1>3, <1>4, <1>7, <1>8, <1>9, ListFacts, ListMoves

\* A volume that is gone lacks whatever is asked for.
LEMMA GoneLacks ==
  ASSUME NEW s, Serving(s), NEW h \in Handles, live[h] = NoId
  PROVE  Lacks(h)
<1>1. PICK v \in seen : ~v.vol[h].there
  BY Sees DEF Serving, Base, Missing
<1> QED BY <1>1 DEF Lacks, Listed

LEMMA ServeListStep ==
  ASSUME NEW s, Serving(s), ServeList(s)
  PROVE  (Answered(s) /\ UNCHANGED volumes) \/ \E r : Moved(s, r)
<1>1. handler[s].op = "ListVolumes" /\ handler[s].pc = "serve" /\ call.op = "ListVolumes" /\ handler[s].got = {}
  BY ServingFacts DEF ServeList, At, Knows, ListOK
<1>2. CASE /\ handler' = [handler EXCEPT ![s].pc = "volumes", ![s].todo = {h \in Handles : live[h] # NoId}]
           /\ UNCHANGED <<volumes, call, url>>
  <2>1. PICK there : there = {h \in Handles : live[h] # NoId}
    OBVIOUS
  <2>2. PICK r : r = [handler[s] EXCEPT !.pc = "volumes", !.todo = there]
    OBVIOUS
  <2>3. handler' = [handler EXCEPT ![s] = r]
    BY <1>2, <2>1, <2>2
  <2>4. /\ DOMAIN r = DOMAIN IdleHandler
        /\ r.op = handler[s].op /\ r.h = handler[s].h /\ r.arg = handler[s].arg /\ r.path = handler[s].path
        /\ r.enc = handler[s].enc /\ r.pc = "volumes" /\ r.todo = there /\ r.got = {}
    BY <1>1, <2>2, ServingFacts
  <2>5. Asks(r) = Asks(handler[s])
    BY <2>4 DEF Asks
  <2>6. \A h \in Handles \ r.todo : Lacks(h)
    BY <2>1, <2>4, GoneLacks
  <2>7. DOMAIN call' = DOMAIN NoCall /\ call'.pc = call.pc /\ Asks(call') = Asks(call) /\ (call.fault => call'.fault)
    BY <1>2, ServingFacts DEF TypeOK, Asks
  <2> QED BY <1>1, <1>2, <2>1, <2>3, <2>4, <2>5, <2>6, <2>7, ListMoves
<1>3. CASE Respond(s, Server!ListVolumes(Query(s), "error", {}), FALSE, TRUE) /\ UNCHANGED volumes
  <2>1. Uninformative(Result(Server!ListVolumes(Query(s), "error", {})))
    BY <1>1, ListVolumesOutcome DEF Query
  <2>2. Sound(Result(Server!ListVolumes(Query(s), "error", {})), FALSE, TRUE)
    BY <1>1, <2>1, SoundUninformative
  <2> QED BY <1>3, <2>2 DEF Answered
<1> QED BY <1>2, <1>3 DEF ServeList

LEMMA ListPropertiesStep ==
  ASSUME NEW s, Serving(s), ListProperties(s)
  PROVE  \E r : Moved(s, r)
<1>1. handler[s].op = "ListVolumes" /\ handler[s].pc = "volumes" /\ UNCHANGED <<volumes, url>>
  BY DEF ListProperties, At
<1>2. PICK asked : asked = Server!ConvertQueryToProperties(Query(s)).properties
  OBVIOUS
<1>3. DOMAIN asked = DOMAIN call.arg /\ \A n \in DOMAIN call.arg : asked[n] = call.arg[n]
  BY <1>2, QueryFacts, ServingFacts DEF Query
<1>4. \A properties : HasProperties(properties, asked) <=> HasProperties(properties, call.arg)
  BY <1>3 DEF HasProperties
<1>5. PICK h \in handler[s].todo :
         \/ live[h] = NoId /\ PassOver(s, h, FALSE)
         \/ live[h] # NoId /\ "properties" \in vol[live[h]].torn /\ PassOver(s, h, FALSE)
         \/ /\ live[h] # NoId
            /\ \E properties \in LoadProperties(live[h]) :
                  IF HasProperties(properties, asked)
                  THEN /\ handler' = [handler EXCEPT ![s].pc = "listFlag", ![s].entry = h]
                       /\ UNCHANGED call
                  ELSE PassOver(s, h, FALSE)
         \/ PassOver(s, h, TRUE)
  BY <1>2 DEF ListProperties
<1>6. h \in Handles
  BY <1>1, ListFacts
<1>7. CASE live[h] = NoId /\ PassOver(s, h, FALSE)
  BY <1>1, <1>6, <1>7, GoneLacks, PassOverStep
<1>8. CASE live[h] # NoId /\ "properties" \in vol[live[h]].torn /\ PassOver(s, h, FALSE)
  <2>1. Lacks(h)
    BY <1>6, <1>8, Sees DEF Serving, Base, Lacks
  <2> QED BY <1>1, <1>8, <2>1, PassOverStep
<1>9. ASSUME live[h] # NoId, NEW properties \in LoadProperties(live[h]), ~HasProperties(properties, asked),
             PassOver(s, h, FALSE)
      PROVE  \E r : Moved(s, r)
  <2>1. WereOf(h, properties)
    BY <1>6, <1>9, LoadFacts
  <2>2. Lacks(h)
    BY <1>4, <1>9, <2>1 DEF WereOf, Lacks, Listed
  <2> QED BY <1>1, <1>9, <2>2, PassOverStep
<1>10. ASSUME live[h] # NoId, NEW properties \in LoadProperties(live[h]), HasProperties(properties, asked),
              handler' = [handler EXCEPT ![s].pc = "listFlag", ![s].entry = h], UNCHANGED call
       PROVE  \E r : Moved(s, r)
  <2>1. PICK r : r = [handler[s] EXCEPT !.pc = "listFlag", !.entry = h]
    OBVIOUS
  <2>2. handler' = [handler EXCEPT ![s] = r]
    BY <1>10, <2>1
  <2>3. /\ DOMAIN r = DOMAIN IdleHandler
        /\ r.op = handler[s].op /\ r.h = handler[s].h /\ r.arg = handler[s].arg /\ r.path = handler[s].path
        /\ r.enc = handler[s].enc /\ r.pc = "listFlag" /\ r.entry = h /\ r.todo = handler[s].todo /\ r.got = handler[s].got
    BY <2>1, ServingFacts
  <2>4. Asks(r) = Asks(handler[s])
    BY <2>3 DEF Asks
  <2>5. WereOf(h, properties)
    BY <1>6, <1>10, LoadFacts
  <2>6. Has(h)
    BY <1>4, <1>10, <2>5 DEF WereOf, Has, Listed
  <2>7. DOMAIN call' = DOMAIN NoCall /\ call'.pc = call.pc /\ Asks(call') = Asks(call) /\ (call.fault => call'.fault)
    BY <1>10, ServingFacts DEF TypeOK, Asks
  <2> QED BY <1>1, <1>6, <2>2, <2>3, <2>4, <2>6, <2>7, ListFacts, ListMoves
<1>11. CASE PassOver(s, h, TRUE)
  BY <1>1, <1>11, PassOverStep
<1> QED BY <1>5, <1>7, <1>8, <1>9, <1>10, <1>11

LEMMA ListPrivilegedStep ==
  ASSUME NEW s, Serving(s), ListPrivileged(s)
  PROVE  \E r : Moved(s, r)
<1>1. handler[s].op = "ListVolumes" /\ handler[s].pc = "listFlag" /\ UNCHANGED <<volumes, url>>
  BY DEF ListPrivileged, At
<1>2. PICK h : h = handler[s].entry
  OBVIOUS
<1>3. h \in Handles /\ Has(h)
  BY <1>1, <1>2, ListFacts
<1>4. CASE /\ handler' = [handler EXCEPT ![s].pc = "volumes", ![s].todo = @ \ {h}, ![s].got = @ \union {h}]
           /\ UNCHANGED call
  <2>1. PICK r : r = [handler[s] EXCEPT !.pc = "volumes", !.todo = @ \ {h}, !.got = @ \union {h}]
    OBVIOUS
  <2>2. handler' = [handler EXCEPT ![s] = r]
    BY <1>4, <2>1
  <2>3. /\ DOMAIN r = DOMAIN IdleHandler
        /\ r.op = handler[s].op /\ r.h = handler[s].h /\ r.arg = handler[s].arg /\ r.path = handler[s].path
        /\ r.enc = handler[s].enc /\ r.pc = "volumes" /\ r.todo = handler[s].todo \ {h}
        /\ r.got = handler[s].got \union {h}
    BY <2>1, ServingFacts
  <2>4. Asks(r) = Asks(handler[s])
    BY <2>3 DEF Asks
  <2>5. DOMAIN call' = DOMAIN NoCall /\ call'.pc = call.pc /\ Asks(call') = Asks(call) /\ (call.fault => call'.fault)
    BY <1>4, ServingFacts DEF TypeOK, Asks
  <2>6. r.todo \subseteq Handles /\ \A g \in r.got : Has(g)
    BY <1>1, <1>3, <2>3, ListFacts
  <2>7. \A g \in Handles \ (r.todo \union r.got) : Lacks(g)
    BY <1>1, <2>3, ListFacts
  <2> QED BY <1>1, <2>2, <2>3, <2>4, <2>5, <2>6, <2>7, ListMoves
<1>5. CASE (live[h] = NoId \/ "privileged" \in State(h).torn) /\ PassOver(s, h, FALSE)
  <2>1. CASE live[h] = NoId
    BY <1>1, <1>3, <1>5, <2>1, GoneLacks, PassOverStep
  <2>2. CASE live[h] # NoId
    <3>1. State(h).torn = vol[live[h]].torn
      BY <2>2 DEF State
    <3>2. Lacks(h)
      BY <1>3, <1>5, <2>2, <3>1, Sees DEF Serving, Base, Lacks
    <3> QED BY <1>1, <1>5, <3>2, PassOverStep
  <2> QED BY <2>1, <2>2
<1>6. CASE PassOver(s, h, TRUE)
  BY <1>1, <1>6, PassOverStep
<1> QED BY <1>2, <1>4, <1>5, <1>6 DEF ListPrivileged

LEMMA ListEndsStep ==
  ASSUME NEW s, Serving(s), ListEnds(s)
  PROVE  Answered(s) /\ UNCHANGED volumes
<1>1. /\ handler[s].op = "ListVolumes" /\ handler[s].pc = "volumes" /\ handler[s].todo = {} /\ call.op = "ListVolumes"
      /\ UNCHANGED volumes
  BY ServingFacts DEF ListEnds, At
<1>2. PICK got : got = handler[s].got
  OBVIOUS
<1>3. PICK r : r = Result(Server!ListVolumes(Query(s), "nil", got))
  OBVIOUS
<1>4. r = Client!Returns("nil", <<got>>)
  BY <1>1, <1>3, ListVolumesOutcome DEF Query
<1>5. r.err = "nil" /\ r.value = <<got>>
  BY <1>4, ResponseFields
<1>6. r.value[1] = got /\ ~NoFile(r)
  BY <1>5 DEF NoFile
<1>7. \A h \in Handles : (h \in got /\ Has(h)) \/ (h \notin got /\ Lacks(h))
  BY <1>1, <1>2, ListFacts
<1>8. SaysTruth(r, call.fault \/ FALSE)
  BY <1>1, <1>5, <1>6, <1>7 DEF SaysTruth
<1>9. Sound(r, TRUE, FALSE)
  BY <1>1, <1>5, <1>8 DEF Sound
<1> QED BY <1>1, <1>2, <1>3, <1>9 DEF Answered, ListEnds
-----------------------------------------------------------------------------
(***************************************************************************)
(* The volumes.                                                            *)
(***************************************************************************)
\* What becomes of a volume without a name.
LEMMA GoneFacts ==
  ASSUME Store, NEW i
  PROVE  /\ NoVolume \in Contents
         /\ Gone(i) \in [Ids -> Contents]
         /\ \A j \in Ids : Gone(i)[j] \in {NoVolume, vol[j]}
         /\ \A j \in Ids : (\E s \in Slots : handler[s].id = j) => Gone(i)[j] = vol[j]
<1>1. NoVolume \in Contents
  BY DEF NoVolume, Contents, Props
<1>2. PICK none : none = NoVolume
  OBVIOUS
<1>3. Gone(i) = [j \in Ids |-> IF j = i /\ \A s \in Slots : handler[s].id # i THEN none ELSE vol[j]]
  BY <1>2 DEF Gone
<1> QED BY <1>1, <1>2, <1>3 DEF Store

\* A handle that loses its volume, and one that gets a new one.
LEMMA StoreUnnamed ==
  ASSUME Store, live' \in [Handles -> Ids \union {NoId}], \A h \in Handles : live'[h] \in {NoId, live[h]},
         vol' \in [Ids -> Contents], peer' = peer
  PROVE  Store'
BY DEF Store, OneHandle

LEMMA StoreFilled ==
  ASSUME Store, live' = live, vol' \in [Ids -> Contents], peer' = peer
  PROVE  Store'
BY DEF Store, OneHandle

\* A change of one volume.
Changed(i) == \E c \in Contents : vol' = [vol EXCEPT ![i] = c]

LEMMA ChangedStore ==
  ASSUME Store, NEW i, Changed(i), live' = live, peer' = peer
  PROVE  Store'
<1>1. PICK c \in Contents : vol' = [vol EXCEPT ![i] = c]
  BY DEF Changed
<1> QED BY <1>1, StoreFilled DEF Store

LEMMA ContentsFields ==
  ASSUME Store, NEW i \in Ids
  PROVE  /\ vol[i] \in Contents
         /\ vol[i].priv \in BOOLEAN /\ vol[i].prop \in Props /\ vol[i].torn \in SUBSET {"properties", "privileged"}
         /\ vol[i].files \in SUBSET Files
<1>1. vol[i] \in Contents
  BY DEF Store
<1> QED BY <1>1 DEF Contents

LEMMA ChangedTorn ==
  ASSUME Store, NEW i \in Ids, NEW file \in {"properties", "privileged"},
         vol' = [vol EXCEPT ![i].torn = @ \union {file}]
  PROVE  Changed(i)
<1>1. PICK torn : torn = vol[i].torn \union {file}
  OBVIOUS
<1>2. torn \in SUBSET {"properties", "privileged"}
  BY <1>1, ContentsFields
<1>3. PICK c : c = [vol[i] EXCEPT !.torn = torn]
  OBVIOUS
<1>4. vol' = [vol EXCEPT ![i] = c]
  BY <1>1, <1>3
<1>5. c \in Contents
  BY <1>2, <1>3, ContentsFields DEF Contents
<1> QED BY <1>4, <1>5 DEF Changed

LEMMA ChangedPriv ==
  ASSUME Store, NEW i \in Ids, NEW b \in BOOLEAN,
         vol' = [vol EXCEPT ![i].priv = b, ![i].torn = @ \ {"privileged"}]
  PROVE  Changed(i)
<1>1. PICK torn : torn = vol[i].torn \ {"privileged"}
  OBVIOUS
<1>2. torn \in SUBSET {"properties", "privileged"}
  BY <1>1, ContentsFields
<1>3. PICK c : c = [vol[i] EXCEPT !.priv = b, !.torn = torn]
  OBVIOUS
<1>4. vol' = [vol EXCEPT ![i] = c]
  BY <1>1, <1>3, ContentsFields DEF Store
<1>5. c \in Contents
  BY <1>2, <1>3, ContentsFields DEF Contents
<1> QED BY <1>4, <1>5 DEF Changed

LEMMA ChangedProp ==
  ASSUME Store, NEW i \in Ids, NEW p \in Props,
         vol' = [vol EXCEPT ![i].prop = p, ![i].torn = @ \ {"properties"}]
  PROVE  Changed(i)
<1>1. PICK torn : torn = vol[i].torn \ {"properties"}
  OBVIOUS
<1>2. torn \in SUBSET {"properties", "privileged"}
  BY <1>1, ContentsFields
<1>3. PICK c : c = [vol[i] EXCEPT !.prop = p, !.torn = torn]
  OBVIOUS
<1>4. vol' = [vol EXCEPT ![i] = c]
  BY <1>1, <1>3, ContentsFields DEF Store
<1>5. c \in Contents
  BY <1>2, <1>3, ContentsFields DEF Contents
<1> QED BY <1>4, <1>5 DEF Changed

LEMMA ChangedFiles ==
  ASSUME Store, NEW i \in Ids, NEW files \in SUBSET Files, vol' = [vol EXCEPT ![i].files = files]
  PROVE  Changed(i)
<1>1. PICK c : c = [vol[i] EXCEPT !.files = files]
  OBVIOUS
<1>2. vol' = [vol EXCEPT ![i] = c]
  BY <1>1
<1>3. c \in Contents
  BY <1>1, ContentsFields DEF Contents
<1> QED BY <1>2, <1>3 DEF Changed

LEMMA ServeDestroyStore ==
  ASSUME Store, NEW s, ServeDestroy(s)
  PROVE  Store'
<1>1. CASE UNCHANGED volumes
  BY <1>1 DEF Store, OneHandle, volumes
<1>2. CASE live' = [live EXCEPT ![handler[s].h] = NoId] /\ vol' = Gone(Volume(s)) /\ UNCHANGED peer
  BY <1>2, GoneFacts, StoreUnnamed DEF Store
<1> QED BY <1>1, <1>2 DEF ServeDestroy

LEMMA ServeDestroyVolumesStore ==
  ASSUME Store, NEW s, ServeDestroyVolumes(s)
  PROVE  Store'
<1>1. PICK done : /\ live' = [h \in Handles |-> IF h \in done THEN NoId ELSE live[h]]
                  /\ vol' = [i \in Ids |-> IF \E h \in done : live[h] = i THEN Gone(i)[i] ELSE vol[i]]
  BY DEF ServeDestroyVolumes
<1>2. \A i \in Ids : Gone(i)[i] \in Contents
  BY GoneFacts
<1>3. vol' \in [Ids -> Contents]
  BY <1>1, <1>2 DEF Store
<1>4. live' \in [Handles -> Ids \union {NoId}] /\ \A h \in Handles : live'[h] \in {NoId, live[h]}
  BY <1>1 DEF Store
<1> QED BY <1>3, <1>4, StoreUnnamed DEF ServeDestroyVolumes

\* The volume of a handler.
LEMMA VolumeFacts ==
  ASSUME NEW s, Serving(s)
  PROVE  Store /\ Volume(s) \in Ids \union {NoId}
<1>1. Store
  BY StoreFacts DEF Serving
<1> QED BY <1>1 DEF Serving, Serves, Base, CallOK, Volume, Store

LEMMA FillsStore ==
  ASSUME NEW s, Serving(s), live' = live, peer' = peer, vol' = vol \/ Changed(Volume(s))
  PROVE  Store'
<1>1. Store
  BY VolumeFacts
<1>2. CASE vol' = vol
  BY <1>1, <1>2, StoreFilled DEF Store
<1>3. CASE Changed(Volume(s))
  BY <1>1, <1>3, ChangedStore
<1> QED BY <1>2, <1>3

\* SetProperty: the file is torn until it is written.
LEMMA ServeSetPropertyStep ==
  ASSUME NEW s, Serving(s), ServeSetProperty(s)
  PROVE  (Answered(s) /\ Store') \/ \E r : Moved(s, r)
<1>1. /\ handler[s].op = "setProperty" /\ call.op = "setProperty"
      /\ live' = live /\ peer' = peer
  BY ServingFacts DEF ServeSetProperty, At
<1>2. /\ NotFound(Result(Server!SetProperty("ErrVolumeDoesNotExist")))
      /\ Uninformative(Result(Server!SetProperty("error")))
  BY <1>1, SetPropertyOutcome
<1>3. \A err \in FileErrors : Result(Server!SetProperty(err)).err # "nil"
  BY <1>2, Errors, Zenon DEF FileErrors
<1>4. /\ call.op \in NeedsVolume \union {"DestroyVolume"} /\ call.op # "getStreamInP2pUrl"
      /\ call.op \in PropertiesReaders /\ "ErrVolumeDoesNotExist" \in FileErrors
  BY <1>1 DEF NeedsVolume, PropertiesReaders, FileErrors
<1>5. CASE Volume(s) = NoId /\ Respond(s, Server!SetProperty("ErrVolumeDoesNotExist"), FALSE, FALSE) /\ vol' = vol
  <2>1. Missing(call.h)
    BY <1>5, ServingSees
  <2>2. Answered(s)
    BY <1>3, <1>4, <1>5, <2>1, AnswersOnce, Zenon
  <2> QED BY <1>1, <1>5, <2>2, FillsStore
<1>6. CASE /\ Volume(s) # NoId /\ "properties" \in vol[Volume(s)].torn
           /\ Respond(s, Server!SetProperty("error"), FALSE, FALSE)
           /\ vol' = vol
  <2>1. Torn(call.h, "properties")
    BY <1>6, ServingSees
  <2>2. Excused
    BY <1>4, <2>1 DEF Excused
  <2>3. Answered(s)
    BY <1>2, <1>4, <1>6, <2>2, AnswersOnce, Zenon
  <2> QED BY <1>1, <1>6, <2>3, FillsStore
<1>7. CASE /\ Volume(s) # NoId
           /\ vol' = [vol EXCEPT ![Volume(s)].torn = @ \union {"properties"}]
           /\ handler' = [handler EXCEPT ![s].pc = "store"]
           /\ UNCHANGED <<call, url>>
  <2>1. Volume(s) \in Ids /\ Store
    BY <1>7, VolumeFacts
  <2>2. Store'
    BY <1>1, <1>7, <2>1, ChangedTorn, FillsStore
  <2>3. PICK r : r = [handler[s] EXCEPT !.pc = "store"]
    OBVIOUS
  <2>4. /\ DOMAIN r = DOMAIN IdleHandler
        /\ r.op = handler[s].op /\ r.h = handler[s].h /\ r.arg = handler[s].arg /\ r.path = handler[s].path
        /\ r.enc = handler[s].enc
    BY <2>3, ServingFacts
  <2>5. Knows(r)'
    BY <1>1, <2>4 DEF Knows, Streams, Gets
  <2>6. /\ DOMAIN handler' = Slots
        /\ \A t \in Slots \ {s} : handler'[t] = handler[t]
        /\ handler'[s] = r
    BY <1>7, <2>3, ServingFacts DEF TypeOK, Serving
  <2>7. DOMAIN call' = DOMAIN NoCall /\ call'.pc = call.pc /\ Asks(call') = Asks(call) /\ (call.fault => call'.fault)
    BY <1>7, ServingFacts DEF TypeOK, Asks
  <2>8. Asks(r) = Asks(handler[s]) /\ call.op \notin Streams
    BY <1>1, <2>4 DEF Asks, Streams
  <2> QED BY <1>7, <2>2, <2>4, <2>5, <2>6, <2>7, <2>8 DEF Moved
<1>8. CASE (\E err \in FileErrors : Respond(s, Server!SetProperty(err), FALSE, TRUE)) /\ vol' = vol
  <2>1. Answered(s)
    BY <1>3, <1>4, <1>8, AnswersOnce, Zenon
  <2> QED BY <1>1, <1>8, <2>1, FillsStore
<1> QED BY <1>5, <1>6, <1>7, <1>8, Zenon DEF ServeSetProperty

LEMMA StorePropertiesStore ==
  ASSUME NEW s, Serving(s), StoreProperties(s)
  PROVE  Store'
<1>1. live' = live /\ peer' = peer /\ handler[s].arg \in Props
  BY DEF StoreProperties, At, Serving, Serves, Base, CallOK
<1>2. Store /\ Volume(s) \in Ids \union {NoId}
  BY VolumeFacts
<1>3. CASE vol' = vol
  BY <1>1, <1>3, FillsStore
<1>4. CASE vol' = [vol EXCEPT ![Volume(s)].prop = handler[s].arg, ![Volume(s)].torn = @ \ {"properties"}]
  <2>1. CASE Volume(s) \in Ids
    BY <1>1, <1>2, <1>4, <2>1, ChangedProp, FillsStore
  <2>2. CASE Volume(s) \notin Ids
    <3>1. vol' = vol
      BY <1>2, <1>4, <2>2 DEF Store
    <3> QED BY <1>1, <3>1, FillsStore
  <2> QED BY <2>1, <2>2
<1> QED BY <1>3, <1>4 DEF StoreProperties

LEMMA ServeSetPrivilegedStore ==
  ASSUME NEW s, Serving(s), ServeSetPrivileged(s)
  PROVE  Store'
<1>1. live' = live /\ peer' = peer /\ handler[s].arg[1] \in BOOLEAN
  BY DEF ServeSetPrivileged, At, Serving, Serves, Base, CallOK
<1>2. Store /\ Volume(s) \in Ids \union {NoId}
  BY VolumeFacts
<1>3. CASE vol' = vol
  BY <1>1, <1>3, FillsStore
<1>4. CASE /\ Volume(s) # NoId
           /\ vol' = [vol EXCEPT ![Volume(s)].priv = handler[s].arg[1], ![Volume(s)].torn = @ \ {"privileged"}]
  BY <1>1, <1>2, <1>4, ChangedPriv, FillsStore
<1>5. CASE Volume(s) # NoId /\ vol' = [vol EXCEPT ![Volume(s)].torn = @ \union {"privileged"}]
  BY <1>1, <1>2, <1>5, ChangedTorn, FillsStore
<1> QED BY <1>3, <1>4, <1>5 DEF ServeSetPrivileged

LEMMA ServeStreamInStore ==
  ASSUME NEW s, Serving(s), ServeStreamIn(s)
  PROVE  Store'
<1>1. live' = live /\ peer' = peer
  BY DEF ServeStreamIn
<1>2. Store /\ Volume(s) \in Ids \union {NoId}
  BY VolumeFacts
<1>3. CASE vol' = vol
  BY <1>1, <1>3, FillsStore
<1>4. CASE Volume(s) # NoId /\ vol' = [vol EXCEPT ![Volume(s)].files = Files]
  BY <1>1, <1>2, <1>4, ChangedFiles, FillsStore
<1>5. CASE Volume(s) # NoId /\ \E part \in Part(Files) : vol' = [vol EXCEPT ![Volume(s)].files = @ \union part]
  <2>1. PICK part \in Part(Files) : vol' = [vol EXCEPT ![Volume(s)].files = @ \union part]
    BY <1>5
  <2>2. PICK files : files = vol[Volume(s)].files \union part
    OBVIOUS
  <2>3. files \in SUBSET Files
    BY <1>2, <1>5, <2>2, ContentsFields DEF Part
  <2>4. vol' = [vol EXCEPT ![Volume(s)].files = files]
    BY <2>1, <2>2
  <2> QED BY <1>1, <1>2, <1>5, <2>3, <2>4, ChangedFiles, FillsStore
<1> QED BY <1>3, <1>4, <1>5, Zenon DEF ServeStreamIn
-----------------------------------------------------------------------------
(***************************************************************************)
(* Steps of handlers.                                                      *)
(***************************************************************************)
\* A handler makes a step for a request that it serves, and the call goes on or
\* returns.
LEMMA HandleFacts ==
  ASSUME NEW s \in Slots, Base, call.pc = "open", Handle(s)
  PROVE  Serves(s) /\ call'.pc # "idle"
<1>1. \E ops, pc : At(s, ops, pc) /\ "none" \notin ops
  <2> DEFINE Busy == \E ops, pc : At(s, ops, pc) /\ "none" \notin ops
  <2>1. \A ops, pc : At(s, ops, pc) /\ "none" \notin ops => Busy
    OBVIOUS
  <2>2. "none" \notin Streams /\ "none" \notin Gets
    BY DEF Streams, Gets
  <2>3. /\ "none" \notin {"DestroyVolume", "destroy"} /\ "none" \notin {"DestroyVolumes"} /\ "none" \notin {"ListVolumes"}
        /\ "none" \notin {"setProperty"}
        /\ "none" \notin {"getPrivileged"} /\ "none" \notin {"setPrivileged"} /\ "none" \notin {"streamIn"}
        /\ "none" \notin {"getStreamInP2pUrl"} /\ "none" \notin {"streamOut"} /\ "none" \notin {"streamP2pOut"}
    OBVIOUS
  <2>4. CASE \/ ServeDestroy(s) \/ ServeDestroyVolumes(s) \/ ServeSetProperty(s) \/ StoreProperties(s)
             \/ ServeGetPrivileged(s) \/ ServeSetPrivileged(s) \/ ServeStreamIn(s) \/ ServeGetP2pUrl(s)
    BY <2>3, <2>4, Zenon DEF ServeDestroy, ServeDestroyVolumes, ServeSetProperty, StoreProperties,
       ServeGetPrivileged, ServeSetPrivileged, ServeStreamIn, ServeGetP2pUrl
  <2>5. CASE \/ ServeList(s) \/ ListProperties(s) \/ ListPrivileged(s) \/ ListEnds(s)
             \/ ServeGet(s) \/ GetProperties(s) \/ GetVolumePrivileged(s)
    BY <2>2, <2>3, <2>5, Zenon DEF ServeList, ListProperties, ListPrivileged, ListEnds, ServeGet, GetProperties,
       GetVolumePrivileged
  <2>6. CASE \/ StreamLookup(s) \/ StreamLoadPrivileged(s) \/ StreamStat(s) \/ TarCmd(s)
             \/ TarList(s) \/ TarRead(s) \/ StreamOutEnds(s) \/ StreamP2pOutEnds(s) \/ Put(s)
    BY <2>2, <2>3, <2>6, Zenon DEF StreamLookup, StreamLoadPrivileged, StreamStat, TarCmd, TarList, TarRead,
       StreamOutEnds, StreamP2pOutEnds, Put
  <2> QED BY <2>4, <2>5, <2>6 DEF Handle
<1>2. handler[s] # IdleHandler
  BY <1>1, IdleFields DEF At
<1>3. Serves(s)
  BY <1>2 DEF Base, HandlersOK
<1>4. \/ \E response, did, fault : Respond(s, response, did, fault)
      \/ call' = call
      \/ \E fault : call' = [call EXCEPT !.fault = fault]
  <2> DEFINE Responds == \E response, did, fault : Respond(s, response, did, fault)
             Notes == \E fault : call' = [call EXCEPT !.fault = fault]
  <2>1. \A response, did, fault : Respond(s, response, did, fault) => Responds
    OBVIOUS
  <2>2. \A err, fault : StreamFails(s, err, fault) => Responds
    BY Zenon DEF StreamFails
  <2>3. \A pc : Proceed(s, pc) => call' = call
    BY DEF Proceed
  <2>4. \A err, fault : GetFails(s, err, fault) => Responds
    BY Zenon DEF GetFails
  <2>5. \A h, fault : PassOver(s, h, fault) => Notes
    BY DEF PassOver
  <2>6. call' = [call EXCEPT !.fault = TRUE] => Notes
    OBVIOUS
  <2> SUFFICES Responds \/ call' = call \/ Notes
    OBVIOUS
  <2> HIDE DEF Responds, Notes
  <2>7. CASE ServeDestroy(s) \/ ServeDestroyVolumes(s)
    BY <2>1, <2>7, Zenon DEF ServeDestroy, ServeDestroyVolumes
  <2>8. CASE ServeSetProperty(s) \/ StoreProperties(s)
    BY <2>1, <2>8 DEF ServeSetProperty, StoreProperties
  <2>9. CASE ServeGetPrivileged(s) \/ ServeSetPrivileged(s) \/ ServeStreamIn(s) \/ ServeGetP2pUrl(s)
    BY <2>1, <2>9, Zenon DEF ServeGetPrivileged, ServeSetPrivileged, ServeStreamIn, ServeGetP2pUrl
  <2>10. CASE ServeList(s) \/ ListEnds(s)
    BY <2>1, <2>10 DEF ServeList, ListEnds
  <2>11. CASE ListProperties(s) \/ ListPrivileged(s)
    BY <2>5, <2>11 DEF ListProperties, ListPrivileged
  <2>12. CASE ServeGet(s) \/ GetProperties(s) \/ GetVolumePrivileged(s)
    BY <2>1, <2>3, <2>4, <2>12 DEF ServeGet, GetProperties, GetVolumePrivileged
  <2>13. CASE StreamLookup(s) \/ StreamLoadPrivileged(s) \/ StreamStat(s)
    BY <2>2, <2>3, <2>13 DEF StreamLookup, StreamLoadPrivileged, StreamStat
  <2>14. CASE TarCmd(s) \/ TarList(s) \/ TarRead(s)
    BY <2>2, <2>6, <2>14 DEF TarCmd, TarList, TarRead
  <2>15. CASE StreamOutEnds(s) \/ StreamP2pOutEnds(s)
    BY <2>1, <2>2, <2>3, <2>15 DEF StreamOutEnds, StreamP2pOutEnds
  <2>16. CASE Put(s)
    BY <2>1, <2>16, Zenon DEF Put
  <2> QED BY <2>7, <2>8, <2>9, <2>10, <2>11, <2>12, <2>13, <2>14, <2>15, <2>16 DEF Handle
<1>5. call'.pc # "idle"
  <2>1. CASE \E response, did, fault : Respond(s, response, did, fault)
    BY <2>1, RespondFacts DEF Base
  <2>2. CASE call' = call
    BY <2>2
  <2>3. CASE \E fault : call' = [call EXCEPT !.fault = fault]
    BY <2>3 DEF Base, TypeOK, NoCall
  <2> QED BY <1>4, <2>1, <2>2, <2>3
<1> QED BY <1>3, <1>5

\* Either it answers, or it goes on.  Nothing that streams run on is changed by
\* a handler of another call.
LEMMA HandleStep ==
  ASSUME NEW s, Serving(s), Handle(s)
  PROVE  \/ Answered(s) /\ Store' /\ (UNCHANGED <<live, vol>> \/ call.op \notin Streams)
         \/ \E r : Moved(s, r)
<1>1. Store
  BY StoreFacts DEF Serving
<1>2. ASSUME UNCHANGED volumes PROVE Store' /\ UNCHANGED <<live, vol>>
  BY <1>1, <1>2 DEF Store, OneHandle, volumes
<1>3. CASE ServeDestroy(s)
  BY <1>1, <1>3, ServeDestroyAnswers, ServeDestroyStore DEF ServeDestroy, At, Serving, Serves, Streams
<1>4. CASE ServeDestroyVolumes(s)
  <2>1. call.op \notin Streams
    BY <1>4 DEF ServeDestroyVolumes, At, Serving, Serves, Streams
  <2> QED BY <1>1, <1>4, <2>1, ServeDestroyVolumesAnswers, ServeDestroyVolumesStore
<1>5. CASE ServeSetProperty(s)
  <2>1. call.op \notin Streams
    BY <1>5 DEF ServeSetProperty, At, Serving, Serves, Streams
  <2> QED BY <1>5, <2>1, ServeSetPropertyStep
<1>6. CASE StoreProperties(s)
  <2>1. call.op \notin Streams
    BY <1>6 DEF StoreProperties, At, Serving, Serves, Streams
  <2> QED BY <1>6, <2>1, StorePropertiesAnswers, StorePropertiesStore
<1>7. CASE ServeSetPrivileged(s)
  <2>1. call.op \notin Streams
    BY <1>7 DEF ServeSetPrivileged, At, Serving, Serves, Streams
  <2> QED BY <1>7, <2>1, ServeSetPrivilegedAnswers, ServeSetPrivilegedStore
<1>8. CASE ServeGetPrivileged(s)
  <2>1. UNCHANGED volumes
    BY <1>8 DEF ServeGetPrivileged
  <2> QED BY <1>2, <1>8, <2>1, ServeGetPrivilegedAnswers
<1>9. CASE ServeStreamIn(s)
  <2>1. call.op \notin Streams
    BY <1>9, Zenon DEF ServeStreamIn, At, Serving, Serves, Streams
  <2> QED BY <1>9, <2>1, ServeStreamInAnswers, ServeStreamInStore
<1>10. CASE ServeGetP2pUrl(s)
  <2>1. UNCHANGED volumes
    BY <1>10 DEF ServeGetP2pUrl
  <2> QED BY <1>2, <1>10, <2>1, ServeGetP2pUrlAnswers
<1>11. CASE ServeList(s) \/ ListProperties(s) \/ ListPrivileged(s) \/ ListEnds(s)
  BY <1>2, <1>11, ServeListStep, ListPropertiesStep, ListPrivilegedStep, ListEndsStep
<1>12. CASE ServeGet(s) \/ GetProperties(s) \/ GetVolumePrivileged(s)
  BY <1>2, <1>12, ServeGetStep, GetPropertiesStep, GetVolumePrivilegedStep
<1>13. CASE StreamLookup(s) \/ StreamLoadPrivileged(s) \/ StreamStat(s)
  BY <1>2, <1>13, StreamLookupStep, StreamLoadPrivilegedStep, StreamStatStep
<1>14. CASE TarCmd(s) \/ TarList(s) \/ TarRead(s)
  BY <1>2, <1>14, TarCmdStep, TarListStep, TarReadStep
<1>15. CASE StreamOutEnds(s) \/ StreamP2pOutEnds(s)
  BY <1>2, <1>15, StreamOutEndsStep, StreamP2pOutEndsStep
<1>16. CASE Put(s)
  <2>1. /\ Answered(s) /\ UNCHANGED <<live, vol>>
        /\ peer' = peer \/ \E part \in SUBSET handler[s].got : peer' = [peer EXCEPT !.files = @ \union part]
    BY <1>16, PutStep
  <2>2. Store'
    BY <1>1, <2>1 DEF Store, OneHandle
  <2> QED BY <2>1, <2>2
<1> QED BY <1>3, <1>4, <1>5, <1>6, <1>7, <1>8, <1>9, <1>10, <1>11, <1>12, <1>13, <1>14, <1>15, <1>16 DEF Handle

\* What a handler knows that makes no step.
LEMMA KnowsStays ==
  ASSUME KnowsOK, call.pc = "open", seen \subseteq seen', Asks(call') = Asks(call), call.fault => call'.fault,
         NEW t \in Slots, handler'[t] = handler[t],
         NEW r, r = handler[t], r.op \in Streams /\ Opened(r) => Opened(r)'
  PROVE  Knows(handler[t])'
<1>1. Knows(r)
  BY DEF KnowsOK
<1>2. r.op \in Streams /\ r.pc \in {"list", "tar"} => Opened(r)'
  BY <1>1 DEF Knows, StreamOK
<1>3. Knows(r)'
  BY <1>1, <1>2, KnowsKept
<1> QED BY <1>3

\* A call that stays open.
LEMMA StaysOpen ==
  ASSUME Base, call.pc = "open", seen' = seen \union {View'}, Store', DOMAIN handler' = Slots,
         \A t \in Slots : DOMAIN handler'[t] = DOMAIN IdleHandler /\ (handler'[t] = IdleHandler \/ Serves(t)'),
         DOMAIN call' = DOMAIN NoCall, call'.pc = "open", Asks(call') = Asks(call), url' = url, KnowsOK'
  PROVE  ApiInv'
<1>1. TypeOK' /\ OneHandle'
  BY DEF Store, TypeOK
<1>2. CallOK'
  <2>1. call'.op = call.op /\ call'.h = call.h /\ call'.arg = call.arg
    BY DEF Asks
  <2> QED BY <2>1 DEF Base, CallOK
<1>3. HandlersOK'
  BY DEF HandlersOK
<1>4. Present'
  BY DEF Present
<1>5. UrlOK'
  BY DEF Base, UrlOK, Leads
<1>6. Answers'
  <2>1. (call.pc # "returned" => Answers)'
    BY NoAnswers, PTL
  <2> QED BY <2>1
<1> QED BY <1>1, <1>2, <1>3, <1>4, <1>5, <1>6 DEF ApiInv, Base

\* A call that returns.
LEMMA ReturnsWith ==
  ASSUME Base, call.pc # "idle", seen' = seen \union {View'}, Store', DOMAIN handler' = Slots,
         \A t \in Slots : DOMAIN handler'[t] = DOMAIN IdleHandler,
         DOMAIN call' = DOMAIN NoCall, call'.pc = "returned", Asks(call') = Asks(call), Answers', UrlOK'
  PROVE  ApiInv'
<1>1. TypeOK' /\ OneHandle'
  BY DEF Store, TypeOK
<1>2. CallOK'
  <2>1. call'.op = call.op /\ call'.h = call.h /\ call'.arg = call.arg
    BY DEF Asks
  <2> QED BY <2>1 DEF Base, CallOK
<1>3. HandlersOK' /\ Present' /\ KnowsOK'
  BY DEF HandlersOK, Present, KnowsOK
<1> QED BY <1>1, <1>2, <1>3 DEF ApiInv, Base

LEMMA AnsweredInv ==
  ASSUME NEW s, Serving(s), Answered(s), Store', UNCHANGED <<live, vol>> \/ call.op \notin Streams,
         seen' = seen \union {View'}
  PROVE  ApiInv'
<1>1. PICK response, did, fault : Respond(s, response, did, fault) /\ Sound(Result(response), did, fault)
  BY DEF Answered
<1>2. /\ Base /\ KnowsOK /\ TypeOK /\ s \in Slots /\ call.pc = "open"
  BY DEF Serving, Base
<1>3. /\ DOMAIN handler' = Slots
      /\ handler'[s] = IdleHandler
      /\ \A t \in Slots \ {s} : handler'[t] = handler[t]
      /\ DOMAIN call' = DOMAIN NoCall
      /\ Asks(call') = Asks(call)
      /\ call'.fault = (call.fault \/ fault)
      /\ call.slot = s => call'.pc = "returned"
      /\ call.slot # s => call'.pc = call.pc
      /\ url' = url
  BY <1>1, <1>2, RespondFacts
<1>4. \A t \in Slots : DOMAIN handler'[t] = DOMAIN IdleHandler
  BY <1>2, <1>3 DEF TypeOK
<1>5. CASE call.slot = s
  <2>1. Answers' /\ UrlOK'
    BY <1>1, <1>2, <1>5, SoundAnswers
  <2> QED BY <1>2, <1>3, <1>4, <1>5, <2>1, ReturnsWith
<1>6. CASE call.slot # s
  <2>1. call'.pc = "open"
    BY <1>2, <1>3, <1>6
  <2>2. ASSUME NEW t \in Slots PROVE handler'[t] = IdleHandler \/ Serves(t)'
    BY <1>2, <1>3 DEF Base, HandlersOK, Serves, Asks
  <2>3. ASSUME NEW t \in Slots PROVE Knows(handler[t])'
    <3>1. CASE t = s
      <4>1. PICK idle : idle = IdleHandler
        OBVIOUS
      <4>2. Knows(idle)'
        BY <4>1, IdleFields, KnowsIdle
      <4> QED BY <1>3, <3>1, <4>1, <4>2
    <3>2. CASE t # s
      <4>1. handler'[t] = handler[t]
        BY <1>3, <3>2
      <4>2. PICK r : r = handler[t]
        OBVIOUS
      <4>3. r.op \in Streams => call.op \in Streams
        BY <1>2, <4>2, IdleFields DEF Base, HandlersOK, Serves, Streams
      <4>4. r.op \in Streams /\ Opened(r) => Opened(r)'
        BY <4>3, OpenedSame
      <4> QED BY <1>2, <1>3, <4>1, <4>2, <4>4, KnowsStays
    <3> QED BY <3>1, <3>2
  <2>4. KnowsOK'
    BY <2>3 DEF KnowsOK
  <2> QED BY <1>2, <1>3, <1>4, <2>1, <2>2, <2>4, StaysOpen
<1> QED BY <1>5, <1>6

LEMMA MovedInv ==
  ASSUME NEW s, Serving(s), NEW r, Moved(s, r), seen' = seen \union {View'}
  PROVE  ApiInv'
<1>1. Base /\ KnowsOK /\ TypeOK /\ s \in Slots /\ call.pc = "open" /\ Serves(s)
  BY DEF Serving, Base
<1>2. /\ DOMAIN call' = DOMAIN NoCall /\ call'.pc = "open" /\ Asks(call') = Asks(call)
      /\ call.fault => call'.fault
      /\ url' = url
      /\ UNCHANGED <<live, vol>> \/ call.op \notin Streams
  BY <1>1 DEF Moved
<1>3. Store'
  BY DEF Moved
<1>4. ASSUME NEW t \in Slots
      PROVE  DOMAIN handler'[t] = DOMAIN IdleHandler /\ (handler'[t] = IdleHandler \/ Serves(t)')
  <2>1. CASE t = s
    BY <1>1, <1>2, <2>1 DEF Moved, Serves, Asks
  <2>2. CASE t # s
    BY <1>1, <1>2, <2>2 DEF Moved, Serves, Asks, Base, HandlersOK, TypeOK
  <2> QED BY <2>1, <2>2
<1>5. ASSUME NEW t \in Slots PROVE Knows(handler[t])'
  <2>1. CASE t = s
    BY <2>1 DEF Moved
  <2>2. CASE t # s
    <3>1. handler'[t] = handler[t]
      BY <2>2 DEF Moved
    <3>2. PICK q : q = handler[t]
      OBVIOUS
    <3>3. q.op \in Streams => call.op \in Streams
      BY <1>1, <3>2, IdleFields DEF Base, HandlersOK, Serves, Streams
    <3>4. q.op \in Streams /\ Opened(q) => Opened(q)'
      BY <1>1, <1>2, <3>3, OpenedSame DEF Serving
    <3> QED BY <1>1, <1>2, <3>1, <3>2, <3>4, KnowsStays DEF Serving
  <2> QED BY <2>1, <2>2
<1>6. KnowsOK'
  BY <1>5 DEF KnowsOK
<1>7. DOMAIN handler' = Slots
  BY DEF Moved
<1> QED BY <1>1, <1>2, <1>3, <1>4, <1>6, <1>7, StaysOpen

LEMMA HandleInv ==
  ASSUME ApiInv, NEW s \in Slots, call.pc = "open", Handle(s),
         seen' = IF call'.pc = "idle" THEN {} ELSE seen \union {View'}
  PROVE  ApiInv'
<1>1. Base /\ KnowsOK
  BY DEF ApiInv
<1>2. Serves(s) /\ call'.pc # "idle"
  BY <1>1, HandleFacts
<1>3. seen' = seen \union {View'}
  BY <1>2
<1>4. Serving(s)
  BY <1>1, <1>2, <1>3 DEF Serving
<1> QED BY <1>3, <1>4, HandleStep, AnsweredInv, MovedInv-----------------------------------------------------------------------------
(***************************************************************************)
(* Steps of the caller and of its connection.                              *)
(***************************************************************************)
LEMMA CallInv ==
  ASSUME ApiInv, NEW s \in Slots, NEW op, NEW h \in Handles, NEW arg, NEW path, NEW enc, Call(s, op, h, arg, path, enc),
         op = "setPrivileged" => arg[1] \in BOOLEAN,
         op = "setProperty" => arg \in Props,
         op = "getStreamInP2pUrl" => arg \in Interfaces,
         op = "streamP2pOut" => arg # <<>> /\ arg[1].host = PeerHost,
         seen' = IF call'.pc = "idle" THEN {} ELSE seen \union {View'}
  PROVE  ApiInv'
<1>1. Base /\ TypeOK /\ call.pc = "idle"
  BY DEF ApiInv, Base, Call
<1>2. /\ DOMAIN call' = DOMAIN NoCall /\ call'.pc = "open"
      /\ call'.op = op /\ call'.h = h /\ call'.arg = arg /\ call'.path = path /\ call'.enc = enc
  BY DEF Call, NoCall
<1>3. PICK r : r = Request(op, h, arg, path, enc)
  OBVIOUS
<1>4. /\ DOMAIN r = DOMAIN IdleHandler
      /\ r.op = op /\ r.h = h /\ r.arg = arg /\ r.path = path /\ r.enc = enc
      /\ r.pc \in {"lookup", "serve"} /\ r.got = {} /\ ~r.failed
  BY <1>3, RequestFields
<1>5. \A t \in Slots : handler[t] = IdleHandler
  BY <1>1 DEF Base, HandlersOK
<1>6. /\ DOMAIN handler' = Slots
      /\ handler'[s] = r
      /\ \A t \in Slots \ {s} : handler'[t] = IdleHandler
      /\ UNCHANGED <<live, vol, peer, url>>
  BY <1>1, <1>3, <1>5 DEF Call, TypeOK, volumes
<1>7. Store'
  BY <1>1, <1>6, StoreFacts DEF Store, OneHandle
<1>8. TypeOK' /\ OneHandle'
  <2>1. \A t \in Slots : DOMAIN handler'[t] = DOMAIN IdleHandler
    BY <1>4, <1>6
  <2> QED BY <1>2, <1>6, <1>7, <2>1 DEF Store, TypeOK
<1>9. CallOK'
  BY <1>2 DEF CallOK
<1>10. HandlersOK'
  <2>1. Serves(s)'
    BY <1>2, <1>4, <1>6 DEF Serves
  <2> QED BY <1>2, <1>6, <2>1 DEF HandlersOK
<1>11. Present'
  BY <1>2 DEF Present
<1>12. UrlOK'
  BY <1>1, <1>2, <1>6 DEF Base, UrlOK, Leads
<1>13. ASSUME NEW t \in Slots PROVE Knows(handler[t])'
  <2>1. CASE t = s
    <3>1. Knows(r)'
      BY <1>4, KnowsAsked
    <3> QED BY <1>6, <2>1, <3>1
  <2>2. CASE t # s
    <3>1. PICK idle : idle = IdleHandler
      OBVIOUS
    <3>2. Knows(idle)'
      BY <3>1, IdleFields, KnowsIdle
    <3> QED BY <1>6, <2>2, <3>1, <3>2
  <2> QED BY <2>1, <2>2
<1>14. KnowsOK'
  BY <1>13 DEF KnowsOK
<1>15. Answers'
  <2>1. (call.pc # "returned" => Answers)'
    BY NoAnswers, PTL
  <2> QED BY <1>2, <2>1
<1> QED BY <1>8, <1>9, <1>10, <1>11, <1>12, <1>14, <1>15 DEF ApiInv, Base

LEMMA CallsInv ==
  ASSUME ApiInv, NEW s \in Slots, Calls(s), seen' = IF call'.pc = "idle" THEN {} ELSE seen \union {View'}
  PROVE  ApiInv'
<1>1. PICK h \in Handles :
         \/ \E op \in {"LookupVolume", "Properties", "DestroyVolume", "destroy", "getPrivileged"} : Plain(s, op, h, <<>>)
         \/ \E list \in {<<>>, <<h>>, <<h, h>>} : Plain(s, "DestroyVolumes", h, list)
         \/ \E b \in BOOLEAN : Plain(s, "setPrivileged", h, <<b>>)
         \/ \E v \in Values : Plain(s, "setProperty", h, <<v>>)
         \/ \E properties \in {<<>>} \union [{1} -> Values] : Plain(s, "ListVolumes", h, properties)
         \/ \E e \in Encoding : Call(s, "streamIn", h, <<>>, ".", e)
         \/ \E p \in Paths, e \in Encoding : Call(s, "streamOut", h, <<>>, p, e)
         \/ \E i \in Interfaces : Plain(s, "getStreamInP2pUrl", h, i)
         \/ url # <<>> /\ \E p \in Paths, e \in Encoding : Call(s, "streamP2pOut", h, url, p, e)
  BY Zenon DEF Calls
<1>2. ASSUME NEW op \in {"LookupVolume", "Properties", "DestroyVolume", "destroy", "getPrivileged", "DestroyVolumes",
                         "ListVolumes", "streamIn", "streamOut"},
             NEW arg, NEW path, NEW enc, Call(s, op, h, arg, path, enc)
      PROVE  ApiInv'
  BY <1>2, CallInv
<1>3. ASSUME NEW op \in {"LookupVolume", "Properties", "DestroyVolume", "destroy", "getPrivileged"}, Plain(s, op, h, <<>>)
      PROVE  ApiInv'
  BY <1>2, <1>3 DEF Plain
<1>4. ASSUME NEW list, Plain(s, "DestroyVolumes", h, list) PROVE ApiInv'
  BY <1>2, <1>4 DEF Plain
<1>5. ASSUME NEW b \in BOOLEAN, Plain(s, "setPrivileged", h, <<b>>) PROVE ApiInv'
  <2>1. PICK arg : arg = <<b>>
    OBVIOUS
  <2>2. arg[1] \in BOOLEAN
    BY <2>1
  <2>3. Call(s, "setPrivileged", h, arg, "empty", "empty")
    BY <1>5, <2>1, Zenon DEF Plain
  <2> QED BY <2>2, <2>3, CallInv
<1>6. ASSUME NEW v \in Values, Plain(s, "setProperty", h, <<v>>) PROVE ApiInv'
  <2>1. <<v>> \in Props
    BY DEF Props
  <2> QED BY <1>6, <2>1, CallInv DEF Plain
<1>7. ASSUME NEW properties, Plain(s, "ListVolumes", h, properties) PROVE ApiInv'
  BY <1>2, <1>7 DEF Plain
<1>8. ASSUME NEW e, NEW p, Call(s, "streamIn", h, <<>>, ".", e) \/ Call(s, "streamOut", h, <<>>, p, e) PROVE ApiInv'
  BY <1>2, <1>8
<1>9. ASSUME NEW i \in Interfaces, Plain(s, "getStreamInP2pUrl", h, i) PROVE ApiInv'
  BY <1>9, CallInv DEF Plain
<1>10. ASSUME NEW e, NEW p, url # <<>>, Call(s, "streamP2pOut", h, url, p, e) PROVE ApiInv'
  <2>1. PICK arg : arg = url
    OBVIOUS
  <2>2. arg # <<>> /\ arg[1].host = PeerHost
    BY <1>10, <2>1 DEF ApiInv, Base, UrlOK, Leads
  <2>3. Call(s, "streamP2pOut", h, arg, p, e)
    BY <1>10, <2>1
  <2> QED BY <2>2, <2>3, CallInv
<1> QED BY <1>1, <1>3, <1>4, <1>5, <1>6, <1>7, <1>8, <1>9, <1>10, Zenon

\* The handlers that go on without a caller.
LEMMA AbandonedFacts ==
  ASSUME TypeOK
  PROVE  /\ DOMAIN Abandoned = Slots
         /\ \A t \in Slots : Abandoned[t] \in {handler[t], IdleHandler}
         /\ \A t \in Slots : DOMAIN Abandoned[t] = DOMAIN IdleHandler
<1>1. PICK idle : idle = IdleHandler
  OBVIOUS
<1>2. Abandoned = handler \/ Abandoned = [handler EXCEPT ![call.slot] = idle]
  BY <1>1 DEF Abandoned
<1>3. DOMAIN Abandoned = Slots /\ \A t \in Slots : Abandoned[t] \in {handler[t], IdleHandler}
  BY <1>1, <1>2 DEF TypeOK
<1> QED BY <1>3 DEF TypeOK

LEMMA ResendInv ==
  ASSUME ApiInv, NEW s \in Slots, Resend(s), seen' = IF call'.pc = "idle" THEN {} ELSE seen \union {View'}
  PROVE  ApiInv'
<1>1. Base /\ TypeOK /\ KnowsOK /\ call.pc = "open"
  BY DEF ApiInv, Base, Resend
<1>2. /\ DOMAIN call' = DOMAIN NoCall /\ call'.pc = "open" /\ call'.fault = call.fault
      /\ call'.op = call.op /\ call'.h = call.h /\ call'.arg = call.arg /\ call'.path = call.path /\ call'.enc = call.enc
  BY <1>1 DEF Resend, TypeOK, NoCall
<1>3. PICK r : r = Request(call.op, call.h, call.arg, call.path, call.enc)
  OBVIOUS
<1>4. /\ DOMAIN r = DOMAIN IdleHandler
      /\ r.op = call.op /\ r.h = call.h /\ r.arg = call.arg /\ r.path = call.path /\ r.enc = call.enc
      /\ r.pc \in {"lookup", "serve"} /\ r.got = {} /\ ~r.failed
  BY <1>3, RequestFields
<1>5. PICK left : left = Abandoned
  OBVIOUS
<1>6. handler' = [left EXCEPT ![s] = r] /\ UNCHANGED <<live, vol, peer, url>>
  BY <1>3, <1>5 DEF Resend, volumes
<1>7. /\ DOMAIN left = Slots
      /\ \A t \in Slots : left[t] \in {handler[t], IdleHandler}
      /\ \A t \in Slots : DOMAIN left[t] = DOMAIN IdleHandler
  BY <1>1, <1>5, AbandonedFacts
<1>8. /\ DOMAIN handler' = Slots
      /\ handler'[s] = r
      /\ \A t \in Slots \ {s} : handler'[t] \in {handler[t], IdleHandler}
      /\ \A t \in Slots : DOMAIN handler'[t] = DOMAIN IdleHandler
  BY <1>4, <1>6, <1>7
<1>9. Store'
  BY <1>1, <1>6, StoreFacts DEF Store, OneHandle
<1>10. ASSUME NEW t \in Slots PROVE handler'[t] = IdleHandler \/ Serves(t)'
  BY <1>1, <1>2, <1>4, <1>8 DEF Base, HandlersOK, Serves
<1>11. Asks(call') = Asks(call)
  BY <1>2 DEF Asks
<1>12. seen' = seen \union {View'}
  BY <1>2
<1>13. ASSUME NEW t \in Slots PROVE Knows(handler[t])'
  <2>1. CASE t = s
    <3>1. Knows(r)'
      BY <1>4, KnowsAsked
    <3> QED BY <1>8, <2>1, <3>1
  <2>2. CASE t # s /\ handler'[t] = IdleHandler
    <3>1. PICK idle : idle = IdleHandler
      OBVIOUS
    <3>2. Knows(idle)'
      BY <3>1, IdleFields, KnowsIdle
    <3> QED BY <2>2, <3>1, <3>2
  <2>3. CASE t # s /\ handler'[t] = handler[t]
    <3>1. PICK q : q = handler[t]
      OBVIOUS
    <3>2. Opened(q) => Opened(q)'
      BY <1>6, <1>12, OpenedSame
    <3> QED BY <1>1, <1>2, <1>11, <1>12, <2>3, <3>1, <3>2, KnowsStays
  <2> QED BY <1>8, <2>1, <2>2, <2>3
<1>14. KnowsOK'
  BY <1>13 DEF KnowsOK
<1> QED BY <1>1, <1>2, <1>6, <1>8, <1>9, <1>10, <1>11, <1>12, <1>14, StaysOpen

LEMMA GiveUpInv ==
  ASSUME ApiInv, GiveUp, seen' = IF call'.pc = "idle" THEN {} ELSE seen \union {View'}
  PROVE  ApiInv'
<1>1. Base /\ TypeOK /\ call.pc = "open"
  BY DEF ApiInv, Base, GiveUp
<1>2. PICK r : r = Client!Returns("network", <<>>)
  OBVIOUS
<1>3. r.err = "network" /\ r.value = <<>>
  BY <1>2, ResponseFields
<1>4. call' = [[call EXCEPT !.pc = "returned", !.slot = NoSlot, !.result = r] EXCEPT !.fault = TRUE]
  BY <1>2 DEF GiveUp, Returned
<1>5. /\ DOMAIN call' = DOMAIN NoCall /\ call'.pc = "returned" /\ call'.fault /\ call'.result = r
      /\ call'.op = call.op /\ call'.h = call.h /\ call'.arg = call.arg /\ call'.path = call.path /\ call'.enc = call.enc
  BY <1>1, <1>4 DEF TypeOK, NoCall
<1>6. handler' = Abandoned /\ UNCHANGED <<live, vol, peer, url>>
  BY DEF GiveUp, volumes
<1>7. Store'
  BY <1>1, <1>6, StoreFacts DEF Store, OneHandle
<1>8. Answers'
  <2>1. SuccessHappened'
    BY <1>3, <1>5 DEF SuccessHappened, Succeeds
  <2>2. AnswerTrue'
    <3>1. r # Client!Ok
      BY <1>3, ResponseFields
    <3> QED BY <1>3, <1>5, <3>1 DEF AnswerTrue, NotFoundTrue, NoFileTrue, ListTrue, PropertiesTrue, PrivilegedTrue,
       Succeeds
  <2>3. FailureJustified'
    BY <1>5 DEF FailureJustified
  <2>4. StreamsWhole'
    BY <1>3, <1>5 DEF StreamsWhole, Succeeds
  <2> QED BY <2>1, <2>2, <2>3, <2>4 DEF Answers
<1>9. UrlOK'
  BY <1>1, <1>3, <1>5, <1>6 DEF Base, UrlOK, Leads
<1>10. Asks(call') = Asks(call)
  BY <1>5 DEF Asks
<1>11. DOMAIN handler' = Slots /\ \A t \in Slots : DOMAIN handler'[t] = DOMAIN IdleHandler
  BY <1>1, <1>6, AbandonedFacts
<1>12. seen' = seen \union {View'}
  BY <1>5
<1> QED BY <1>1, <1>5, <1>7, <1>8, <1>9, <1>10, <1>11, <1>12, ReturnsWith

LEMMA ReturnInv ==
  ASSUME ApiInv, Return
  PROVE  ApiInv'
<1>1. Base /\ Store /\ call.pc = "returned"
  BY StoreFacts DEF ApiInv, Return
<1>2. call'.pc = "idle" /\ DOMAIN call' = DOMAIN NoCall
  BY IdleFields DEF Return
<1>3. DOMAIN handler' = Slots /\ \A t \in Slots : handler'[t] = IdleHandler
  BY DEF Return
<1>4. Store'
  <2>1. NoVolume \in Contents
    BY <1>1, GoneFacts
  <2>2. PICK none : none = NoVolume
    OBVIOUS
  <2>3. vol' = [i \in Ids |-> IF \E h \in Handles : live[h] = i THEN vol[i] ELSE none]
    BY <2>2 DEF Return
  <2>4. vol' \in [Ids -> Contents]
    BY <1>1, <2>1, <2>2, <2>3 DEF Store
  <2> QED BY <1>1, <2>4, StoreFilled DEF Return
<1>5. UrlOK'
  <2>1. Leads(url')
    BY <1>1 DEF Base, UrlOK, Leads, Return
  <2> QED BY <1>2, <2>1 DEF UrlOK, Leads
<1>6. Answers'
  <2>1. (call.pc # "returned" => Answers)'
    BY NoAnswers, PTL
  <2> QED BY <1>2, <2>1
<1>7. TypeOK' /\ OneHandle'
  BY <1>2, <1>3, <1>4 DEF Store, TypeOK
<1>8. CallOK' /\ HandlersOK' /\ Present' /\ KnowsOK'
  BY <1>2, <1>3 DEF CallOK, HandlersOK, Present, KnowsOK
<1> QED BY <1>5, <1>6, <1>7, <1>8 DEF ApiInv, Base-----------------------------------------------------------------------------
(***************************************************************************)
(* Steps of others.                                                        *)
(***************************************************************************)
\* The files in the next view.
LEMMA NextViewFiles ==
  (\A h \in Handles : /\ live[h] = NoId => View.vol[h].files = {}
                      /\ live[h] # NoId => View.vol[h].files = vol[live[h]].files)'
<1>1. \A h \in Handles : /\ live[h] = NoId => View.vol[h].files = {}
                         /\ live[h] # NoId => View.vol[h].files = vol[live[h]].files
  BY ViewFacts
<1> QED BY <1>1, PTL

\* While a call is open, what it has seen grows.
Grows == seen \subseteq seen' /\ View' \in seen'

\* Nothing appears in the directory that tar has open that the call does not see
\* in the volume, as long as the volume has its name.
LEMMA OpenedKept ==
  ASSUME NEW r, Opened(r), r.h \in Handles, Grows,
         \/ live'[r.h] = r.id
         \/ /\ \A h \in Handles : live'[h] # r.id
            /\ vol'[r.id].files \subseteq vol[r.id].files
            /\ live[r.h] = r.id => live'[r.h] = NoId
  PROVE  Opened(r)'
<1>1. r.id \in Ids /\ r.id # NoId
  BY Nulls DEF Opened
<1>2. PICK now : now = View'
  OBVIOUS
<1>3. /\ live'[r.h] = NoId => now.vol[r.h].files = {}
      /\ live'[r.h] # NoId => now.vol[r.h].files = vol'[live'[r.h]].files
  BY <1>2, NextViewFiles
<1>4. now \in seen' /\ seen \subseteq seen'
  BY <1>2 DEF Grows
<1>5. CASE live'[r.h] = r.id
  BY <1>1, <1>3, <1>4, <1>5 DEF Opened
<1>6. CASE /\ \A h \in Handles : live'[h] # r.id
           /\ vol'[r.id].files \subseteq vol[r.id].files
           /\ live[r.h] = r.id => live'[r.h] = NoId
  <2>1. \E v \in seen' : v.vol[r.h].files = {}
    BY <1>3, <1>4, <1>6 DEF Opened
  <2>2. \A f \in vol'[r.id].files : \E v \in seen' : f \in v.vol[r.h].files
    BY <1>4, <1>6 DEF Opened
  <2> QED BY <1>1, <1>6, <2>1, <2>2 DEF Opened
<1> QED BY <1>5, <1>6

\* What the change of another does to the store, and to the directories that
\* are open.
KeepsOpened == \A s \in Slots : \A r : r = handler[s] /\ Opened(r) /\ r.h \in Handles => Opened(r)'

LEMMA CreateVolumeKeeps ==
  ASSUME Base, NEW h \in Handles, CreateVolume(h)
  PROVE  Store' /\ (Grows => KeepsOpened)
<1>1. Store /\ live[h] = NoId
  BY StoreFacts DEF CreateVolume
<1>2. PICK n : n = Min(Fresh)
  OBVIOUS
<1>3. n \in Fresh
  <2>1. Fresh \subseteq Nat /\ Fresh # {}
    BY Bounds DEF Fresh, CreateVolume
  <2> QED BY <1>2, <2>1, MinFacts
<1>4. n \in Ids /\ (\A g \in Handles : live[g] # n) /\ (\A s \in Slots : handler[s].id # n)
  BY <1>3 DEF Fresh
<1>5. PICK files \in SUBSET Files, priv \in BOOLEAN :
         /\ live' = [live EXCEPT ![h] = n]
         /\ vol' = [vol EXCEPT ![n] = [NoVolume EXCEPT !.priv = priv, !.files = files]]
         /\ peer' = peer
  BY <1>2 DEF CreateVolume
<1>6. PICK c : c = [NoVolume EXCEPT !.priv = priv, !.files = files]
  OBVIOUS
<1>7. c \in Contents
  <2>1. c = [priv |-> priv, prop |-> <<>>, torn |-> {}, files |-> files]
    BY <1>6 DEF NoVolume
  <2> QED BY <2>1 DEF Contents, Props
<1>8. vol' = [vol EXCEPT ![n] = c]
  BY <1>5, <1>6
<1>9. Store'
  BY <1>1, <1>4, <1>5, <1>7, <1>8, Nulls DEF Store, OneHandle
<1>10. ASSUME Grows, NEW s \in Slots, NEW r, r = handler[s], Opened(r), r.h \in Handles PROVE Opened(r)'
  <2>1. r.id # n /\ r.id \in Ids /\ r.id # NoId
    BY <1>4, <1>10, Nulls DEF Opened
  <2>2. vol'[r.id] = vol[r.id] /\ \A g \in Handles : live'[g] = live[g] \/ (g = h /\ live'[g] = n)
    BY <1>1, <1>5, <1>8, <2>1 DEF Store
  <2>3. CASE live[r.h] = r.id
    BY <1>1, <1>10, <2>1, <2>2, <2>3, OpenedKept
  <2>4. CASE live[r.h] # r.id
    <3>1. \A g \in Handles : live'[g] # r.id
      BY <1>10, <2>1, <2>2, <2>4 DEF Opened
    <3> QED BY <1>10, <2>2, <2>4, <3>1, OpenedKept
  <2> QED BY <2>3, <2>4
<1> QED BY <1>9, <1>10 DEF KeepsOpened

LEMMA DestroyVolumeKeeps ==
  ASSUME Base, NEW h \in Handles, DestroyVolume(h)
  PROVE  Store' /\ (Grows => KeepsOpened)
<1>1. Store /\ live[h] # NoId /\ live' = [live EXCEPT ![h] = NoId] /\ vol' = Gone(live[h]) /\ peer' = peer
  BY StoreFacts DEF DestroyVolume
<1>2. Store'
  BY <1>1, GoneFacts, StoreUnnamed DEF Store
<1>3. ASSUME Grows, NEW s \in Slots, NEW r, r = handler[s], Opened(r), r.h \in Handles PROVE Opened(r)'
  <2>1. r.id \in Ids /\ r.id # NoId
    BY <1>3, Nulls DEF Opened
  <2>2. vol'[r.id] = vol[r.id]
    BY <1>1, <1>3, <2>1, GoneFacts
  <2>3. live'[h] = NoId /\ \A g \in Handles \ {h} : live'[g] = live[g]
    BY <1>1 DEF Store
  <2>4. CASE live[r.h] = r.id /\ r.h # h
    BY <1>3, <2>3, <2>4, OpenedKept
  <2>5. CASE live[r.h] = r.id /\ r.h = h
    <3>1. \A g \in Handles : live'[g] # r.id
      BY <1>1, <2>1, <2>3, <2>5 DEF Store, OneHandle
    <3> QED BY <1>3, <2>2, <2>3, <2>5, <3>1, OpenedKept
  <2>6. CASE live[r.h] # r.id
    <3>1. \A g \in Handles : live'[g] # r.id
      BY <1>3, <2>1, <2>3, <2>6 DEF Opened
    <3> QED BY <1>3, <2>2, <2>6, <3>1, OpenedKept
  <2> QED BY <2>4, <2>5, <2>6
<1> QED BY <1>2, <1>3 DEF KeepsOpened

\* A volume that has a name is changed, or the files of one that has none are
\* removed.
LEMMA ChangeKeeps ==
  ASSUME Base, NEW i \in Ids, NEW c \in Contents, vol' = [vol EXCEPT ![i] = c], live' = live, peer' = peer,
         (\E h \in Handles : live[h] = i) \/ c.files = {}
  PROVE  Store' /\ (Grows => KeepsOpened)
<1>1. Store
  BY StoreFacts
<1>2. Store'
  BY <1>1, StoreFilled DEF Store
<1>3. ASSUME Grows, NEW s \in Slots, NEW r, r = handler[s], Opened(r), r.h \in Handles PROVE Opened(r)'
  <2>1. CASE live[r.h] = r.id
    BY <1>3, <2>1, OpenedKept
  <2>2. CASE live[r.h] # r.id
    <3>1. \A g \in Handles : live'[g] # r.id
      BY <1>3, <2>2 DEF Opened
    <3>2. vol'[r.id].files \subseteq vol[r.id].files
      <4>1. CASE r.id = i
        BY <1>1, <3>1, <4>1 DEF Store
      <4>2. CASE r.id # i
        BY <1>1, <1>3, <4>2 DEF Store, Opened
      <4> QED BY <4>1, <4>2
    <3> QED BY <1>3, <2>2, <3>1, <3>2, OpenedKept
  <2> QED BY <2>1, <2>2
<1> QED BY <1>2, <1>3 DEF KeepsOpened

LEMMA OthersKeep ==
  ASSUME Base, Others
  PROVE  /\ Store'
         /\ Grows => KeepsOpened
         /\ OthersChange \/ UNCHANGED <<handler, call, url, peer>>
<1>1. Store
  BY StoreFacts
<1>2. ASSUME NEW h \in Handles, live[h] # NoId, Changed(live[h]), live' = live, peer' = peer
      PROVE  Store' /\ (Grows => KeepsOpened)
  <2>1. PICK c \in Contents : vol' = [vol EXCEPT ![live[h]] = c]
    BY <1>2 DEF Changed
  <2>2. live[h] \in Ids
    BY <1>1, <1>2 DEF Store
  <2> QED BY <1>2, <2>1, <2>2, ChangeKeeps
<1>3. \A h \in Handles : live[h] # NoId => live[h] \in Ids
  BY <1>1 DEF Store
<1>4. CASE \E h \in Handles : CreateVolume(h)
  BY <1>4, CreateVolumeKeeps DEF CreateVolume
<1>5. CASE \E h \in Handles : DestroyVolume(h)
  BY <1>5, DestroyVolumeKeeps DEF DestroyVolume
<1>6. CASE \E h \in Handles : SetPrivileged(h)
  <2>1. PICK h \in Handles : SetPrivileged(h)
    BY <1>6
  <2>2. live[h] \in Ids /\ live[h] # NoId /\ live' = live /\ peer' = peer /\ OthersChange
    BY <1>3, <2>1 DEF SetPrivileged
  <2>3. CASE \E priv \in BOOLEAN : vol' = [vol EXCEPT ![live[h]].priv = priv, ![live[h]].torn = @ \ {"privileged"}]
    <3>1. Changed(live[h])
      BY <1>1, <2>2, <2>3, ChangedPriv
    <3> QED BY <1>2, <2>2, <3>1
  <2>4. CASE vol' = [vol EXCEPT ![live[h]].torn = @ \union {"privileged"}]
    <3>1. Changed(live[h])
      BY <1>1, <2>2, <2>4, ChangedTorn
    <3> QED BY <1>2, <2>2, <3>1
  <2> QED BY <2>1, <2>3, <2>4 DEF SetPrivileged
<1>7. CASE \E h \in Handles, f \in Files : WriteFile(h, f)
  <2>1. PICK h \in Handles, f \in Files : WriteFile(h, f)
    BY <1>7
  <2>2. live[h] \in Ids /\ live[h] # NoId /\ live' = live /\ peer' = peer /\ OthersChange
    BY <1>3, <2>1 DEF WriteFile
  <2>3. PICK files : files = IF f \in vol[live[h]].files THEN vol[live[h]].files \ {f} ELSE vol[live[h]].files \union {f}
    OBVIOUS
  <2>4. files \in SUBSET Files
    BY <1>1, <2>2, <2>3, ContentsFields
  <2>5. vol' = [vol EXCEPT ![live[h]].files = files]
    BY <2>1, <2>3 DEF WriteFile
  <2>6. Changed(live[h])
    BY <1>1, <2>2, <2>4, <2>5, ChangedFiles
  <2> QED BY <1>2, <2>2, <2>6
<1>8. CASE \E h \in Handles : SetProperty(h)
  <2>1. PICK h \in Handles : SetProperty(h)
    BY <1>8
  <2>2. /\ live[h] \in Ids /\ live[h] # NoId /\ live' = live /\ peer' = peer /\ OthersChange
        /\ vol' = [vol EXCEPT ![live[h]].torn = @ \union {"properties"}]
    BY <1>3, <2>1 DEF SetProperty
  <2>3. Changed(live[h])
    BY <1>1, <2>2, ChangedTorn
  <2> QED BY <1>2, <2>2, <2>3
<1>9. CASE \E h \in Handles : PropertyStored(h)
  <2>1. PICK h \in Handles : PropertyStored(h)
    BY <1>9
  <2>2. live' = live /\ UNCHANGED <<handler, call, url, peer>>
    BY <2>1 DEF PropertyStored
  <2>3. CASE vol' = vol
    <3>1. Store'
      BY <1>1, <2>2, <2>3 DEF Store, OneHandle
    <3>2. ASSUME Grows, NEW s \in Slots, NEW r, r = handler[s], Opened(r) PROVE Opened(r)'
      BY <2>2, <2>3, <3>2, OpenedSame DEF Grows
    <3> QED BY <2>2, <3>1, <3>2 DEF KeepsOpened
  <2>4. CASE vol' # vol
    <3>1. PICK v \in Values : vol' = [vol EXCEPT ![live[h]].prop = <<v>>, ![live[h]].torn = @ \ {"properties"}]
      BY <2>1, <2>4 DEF PropertyStored
    <3>2. live[h] \in Ids
      BY <1>1, <2>4, <3>1 DEF Store
    <3>3. PICK p \in Props : p = <<v>>
      BY DEF Props
    <3>4. vol' = [vol EXCEPT ![live[h]].prop = p, ![live[h]].torn = @ \ {"properties"}]
      BY <3>1, <3>3
    <3>5. Changed(live[h])
      BY <1>1, <3>2, <3>4, ChangedProp
    <3>6. live[h] # NoId
      BY <3>2, Nulls
    <3> QED BY <1>2, <2>2, <3>5, <3>6
  <2> QED BY <2>3, <2>4
<1>10. CASE \E i \in Ids : Purge(i)
  <2>1. PICK i \in Ids : Purge(i)
    BY <1>10
  <2>2. PICK c : c = [vol[i] EXCEPT !.files = {}]
    OBVIOUS
  <2>3. c \in Contents /\ c.files = {}
    <3>1. vol[i] \in Contents
      BY <1>1, <2>1, ContentsFields
    <3> QED BY <2>2, <3>1 DEF Contents
  <2>4. vol' = [vol EXCEPT ![i] = c] /\ live' = live /\ UNCHANGED <<handler, call, url, peer>>
    BY <2>1, <2>2 DEF Purge
  <2> QED BY <2>3, <2>4, ChangeKeeps
<1>11. CASE ChangePeer
  <2>1. Store' /\ OthersChange
    BY <1>1, <1>11 DEF ChangePeer, Store, OneHandle
  <2>2. ASSUME Grows, NEW s \in Slots, NEW r, r = handler[s], Opened(r) PROVE Opened(r)'
    BY <1>11, <2>2, OpenedSame DEF ChangePeer, Grows
  <2> QED BY <2>1, <2>2 DEF KeepsOpened
<1> QED BY <1>4, <1>5, <1>6, <1>7, <1>8, <1>9, <1>10, <1>11 DEF Others

LEMMA OthersInv ==
  ASSUME ApiInv, Others, seen' = IF call'.pc = "idle" THEN {} ELSE seen \union {View'}
  PROVE  ApiInv'
<1>1. Base /\ TypeOK /\ KnowsOK /\ Answers /\ UrlOK
  BY DEF ApiInv, Base
<1>2. Store' /\ (Grows => KeepsOpened)
  BY <1>1, OthersKeep
<1>3. /\ handler' = handler /\ url' = url
      /\ DOMAIN call' = DOMAIN NoCall /\ call'.pc = call.pc /\ call'.fault = call.fault
      /\ call'.op = call.op /\ call'.h = call.h /\ call'.arg = call.arg /\ call'.path = call.path /\ call'.enc = call.enc
      /\ call.pc = "returned" => call' = call /\ peer' = peer
  <2>1. CASE UNCHANGED <<handler, call, url, peer>>
    BY <1>1, <2>1 DEF TypeOK
  <2>2. CASE OthersChange
    BY <1>1, <2>2 DEF OthersChange, TypeOK, NoCall
  <2> QED BY <1>1, <2>1, <2>2, OthersKeep
<1>4. Asks(call') = Asks(call)
  BY <1>3 DEF Asks
<1>5. /\ DOMAIN handler' = Slots
      /\ \A t \in Slots : DOMAIN handler'[t] = DOMAIN IdleHandler
  BY <1>1, <1>3 DEF TypeOK
<1>6. CASE call.pc = "idle"
  <2>1. TypeOK' /\ OneHandle'
    BY <1>2, <1>3, <1>5, <1>6 DEF Store, TypeOK
  <2>2. CallOK' /\ Present' /\ KnowsOK'
    BY <1>3, <1>6 DEF CallOK, Present, KnowsOK
  <2>3. HandlersOK'
    BY <1>1, <1>3, <1>6 DEF Base, HandlersOK
  <2>4. UrlOK'
    BY <1>1, <1>3, <1>6 DEF UrlOK, Leads
  <2>5. Answers'
    <3>1. (call.pc # "returned" => Answers)'
      BY NoAnswers, PTL
    <3> QED BY <1>3, <1>6, <3>1
  <2> QED BY <2>1, <2>2, <2>3, <2>4, <2>5 DEF ApiInv, Base
<1>7. CASE call.pc = "open"
  <2>1. seen' = seen \union {View'}
    BY <1>3, <1>7
  <2>2. KeepsOpened /\ seen \subseteq seen'
    BY <1>2, <2>1 DEF Grows
  <2>3. ASSUME NEW t \in Slots PROVE Knows(handler[t])'
    <3>1. handler'[t] = handler[t]
      BY <1>3
    <3>2. PICK r : r = handler[t]
      OBVIOUS
    <3>3. r.op \in Streams => r.h \in Handles
      BY <1>1, <1>7, <3>2, IdleFields DEF Base, HandlersOK, Serves, CallOK, Streams
    <3>4. r.op \in Streams /\ Opened(r) => Opened(r)'
      BY <2>2, <3>2, <3>3 DEF KeepsOpened
    <3> QED BY <1>1, <1>3, <1>4, <1>7, <2>2, <3>1, <3>2, <3>4, KnowsStays
  <2>4. KnowsOK'
    BY <2>3 DEF KnowsOK
  <2>5. ASSUME NEW t \in Slots PROVE handler'[t] = IdleHandler \/ Serves(t)'
    BY <1>1, <1>3, <1>7 DEF Base, HandlersOK, Serves
  <2> QED BY <1>1, <1>2, <1>3, <1>4, <1>5, <1>7, <2>1, <2>4, <2>5, StaysOpen
<1>8. CASE call.pc = "returned"
  <2>1. seen' = seen \union {View'}
    BY <1>3, <1>8
  <2>2. Answers' /\ UrlOK'
    BY <1>1, <1>3, <1>8, <2>1, AnswersKept
  <2> QED BY <1>1, <1>2, <1>3, <1>4, <1>5, <1>8, <2>1, <2>2, ReturnsWith
<1> QED BY <1>1, <1>6, <1>7, <1>8 DEF TypeOK
-----------------------------------------------------------------------------
(***************************************************************************)
(* The invariant, and the properties.                                      *)
(***************************************************************************)
LEMMA InitInv == Init => ApiInv
<1> SUFFICES ASSUME Init PROVE ApiInv
  OBVIOUS
<1>1. call = NoCall /\ call.pc = "idle" /\ url = <<>>
  BY IdleFields DEF Init
<1>2. TypeOK
  <2>1. live \in [Handles -> Ids \union {NoId}] /\ DOMAIN peer = {"there", "files"}
    BY DEF Init
  <2>2. vol \in [Ids -> Contents]
    <3>1. NoVolume \in Contents
      BY DEF NoVolume, Contents, Props
    <3>2. PICK none : none = NoVolume
      OBVIOUS
    <3>3. vol = [i \in Ids |-> none]
      BY <3>2 DEF Init
    <3> QED BY <3>1, <3>2, <3>3
  <2>3. DOMAIN handler = Slots /\ \A s \in Slots : handler[s] = IdleHandler
    BY DEF Init
  <2>4. \A s \in Slots : DOMAIN handler[s] = DOMAIN IdleHandler
    BY <2>3
  <2> QED BY <1>1, <2>1, <2>2, <2>3, <2>4 DEF TypeOK
<1>3. OneHandle
  BY DEF Init, OneHandle
<1>4. HandlersOK
  BY DEF Init, HandlersOK
<1>5. CallOK /\ Present /\ UrlOK /\ KnowsOK
  BY <1>1 DEF CallOK, Present, UrlOK, Leads, KnowsOK
<1>6. Answers
  BY <1>1, NoAnswers
<1> QED BY <1>2, <1>3, <1>4, <1>5, <1>6 DEF ApiInv, Base

\* A step that changes nothing.
LEMMA StutterInv ==
  ASSUME ApiInv, UNCHANGED vars
  PROVE  ApiInv'
<1>1. Base /\ KnowsOK /\ Answers /\ UNCHANGED <<live, vol, peer, handler, call, url, seen>>
  BY DEF ApiInv, vars
<1>2. TypeOK' /\ OneHandle' /\ CallOK'
  BY <1>1 DEF Base, TypeOK, OneHandle, CallOK
<1>3. HandlersOK'
  BY <1>1 DEF Base, HandlersOK, Serves
<1>4. View' = View
  BY <1>1 DEF View, State
<1>5. Present'
  BY <1>1, <1>4 DEF Base, Present
<1>6. Answers' /\ UrlOK'
  BY <1>1, AnswersKept DEF Base
<1>7. ASSUME call.pc = "open", NEW t \in Slots PROVE Knows(handler[t])'
  <2>1. PICK r : r = handler[t]
    OBVIOUS
  <2>2. Opened(r) => Opened(r)'
    BY <1>1, OpenedSame
  <2> QED BY <1>1, <1>7, <2>1, <2>2, KnowsStays DEF Asks
<1>8. KnowsOK'
  BY <1>1, <1>7 DEF KnowsOK
<1> QED BY <1>2, <1>3, <1>5, <1>6, <1>8 DEF ApiInv, Base

LEMMA NextInv == ApiInv /\ [Next]_vars => ApiInv'
<1> SUFFICES ASSUME ApiInv, [Next]_vars PROVE ApiInv'
  OBVIOUS
<1>1. CASE UNCHANGED vars
  BY <1>1, StutterInv
<1>2. CASE Next
  <2>1. seen' = IF call'.pc = "idle" THEN {} ELSE seen \union {View'}
    BY <1>2 DEF Next
  <2>2. CASE \E s \in Slots : Calls(s)
    BY <2>1, <2>2, CallsInv
  <2>3. CASE \E s \in Slots : call.pc = "open" /\ Handle(s)
    BY <2>1, <2>3, HandleInv
  <2>4. CASE \E s \in Slots : Resend(s)
    BY <2>1, <2>4, ResendInv
  <2>5. CASE GiveUp
    BY <2>1, <2>5, GiveUpInv
  <2>6. CASE Return
    BY <2>6, ReturnInv
  <2>7. CASE Others
    BY <2>1, <2>7, OthersInv
  <2> QED BY <1>2, <2>2, <2>3, <2>4, <2>5, <2>6, <2>7 DEF Next
<1> QED BY <1>1, <1>2

LEMMA InvHolds == Spec => []ApiInv
BY InitInv, NextInv, PTL DEF Spec

\* A call that the library says has succeeded has been carried out during that
\* very call, whatever the connection did and however often the request was sent
\* (client.DestroyVolume, volume.SetPrivileged, volume.StreamOut and the others):
\* no volume is reported as looked up, changed or destroyed because of an answer
\* to another request.
THEOREM SuccessHappenedHolds == Spec => []SuccessHappened
<1>1. ApiInv => SuccessHappened
  BY DEF ApiInv, Answers
<1> QED BY <1>1, InvHolds, PTL

\* "Not found", "no such file", the volumes that a list has and lacks, the
\* properties and the privileged flag were true at some time between the call and
\* its return, although lists and volumes are read file by file without the lock
\* (repository.ListVolumes, repository.GetVolume).  Excepted is what is read of
\* properties.json while it is overwritten, or after its overwriting has failed:
\* then a volume may also be left out of the list.
THEOREM AnswerTrueHolds == Spec => []AnswerTrue
<1>1. ApiInv => AnswerTrue
  BY DEF ApiInv, Answers
<1> QED BY <1>1, InvHolds, PTL

\* A call fails only if a fault was injected, the volume, the path or the peer
\* was missing during it, a metadata file that it reads was being overwritten or
\* torn, or its own arguments are refused: no handler answers with an error of its
\* own making.  Nothing is said of client.DestroyVolume, which returns an error for
\* a missing volume against what its comment says.
THEOREM FailureJustifiedHolds == Spec => []FailureJustified
<1>1. ApiInv => FailureJustified
  BY DEF ApiInv, Answers
<1> QED BY <1>1, InvHolds, PTL

\* An archive without the text of an error (StreamOut), and the volume of the
\* peer after a reported success (StreamP2pOut), have every file that was in the
\* volume from the beginning to the end of the call.
THEOREM StreamsWholeHolds == Spec => []StreamsWhole
<1>1. ApiInv => StreamsWhole
  BY DEF ApiInv, Answers
<1> QED BY <1>1, InvHolds, PTL
=============================================================================
