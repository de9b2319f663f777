----------------------------- MODULE ClientCalls -----------------------------
(***************************************************************************)
(* The client library (client/client.go, client/volume.go) as functions    *)
(* from the response to what the caller gets: an error or "nil", and a     *)
(* value (a sequence, empty if there is none).                             *)
(***************************************************************************)
EXTENDS Sequences

Returns(err, value) == [err |-> err, value |-> value]
Ok == Returns("nil", <<>>)

\* getError looks at the text before it looks at the status.  A response
\* without a body cannot be decoded.
getError(response) ==
    CASE response.error = "none" -> Returns("EOF", <<>>)
      [] response.error = "ErrStreamOutNotFound" -> Returns("ErrFileNotFound", <<>>)
      [] response.error \notin {"none", "ErrStreamOutNotFound"} /\ response.status = 404 -> Returns("ErrVolumeNotFound", <<>>)
      [] OTHER -> Returns(response.error, <<>>)

\* The query has one value for each property.
ListVolumesQuery(properties) == [n \in DOMAIN properties |-> <<properties[n]>>]

ListVolumes(response) ==
    CASE response.status # 200 -> getError(response)
      [] response.status = 200 /\ ~response.json -> Returns("unexpected_content_type", <<>>)
      [] OTHER -> Returns("nil", response.body)

\* Mutant of getVolumeResponse: takes every failure for a missing volume.
getVolumeResponseVague(response) == IF response.status # 200 THEN Ok ELSE Returns("nil", response.body)

\* found = FALSE is an empty value.
getVolumeResponse(response) ==
    CASE response.status = 404 -> Ok
      [] response.status \notin {200, 404} -> getError(response)
      [] response.status = 200 /\ ~response.json -> Returns("unexpected_content_type", <<>>)
      [] OTHER -> Returns("nil", response.body)

LookupVolume(response) == getVolumeResponse(response)

Properties(response) == LET r == getVolumeResponse(response) IN
    IF r.err = "nil" /\ r.value = <<>> THEN Returns("ErrVolumeDoesNotExist", <<>>) ELSE r

DestroyVolume(response) == IF response.status # 204 THEN Returns("ErrVolumeDeletion", <<>>) ELSE Ok

\* Mutant of DestroyVolumes: expects 200.
DestroyVolumesExpects200(response) == IF response.status # 200 THEN Returns("ErrVolumeDeletion", <<>>) ELSE Ok

DestroyVolumes(response) == IF response.status # 204 THEN Returns("ErrVolumeDeletion", <<>>) ELSE Ok

destroy(response) == IF response.status # 204 THEN getError(response) ELSE Ok

getPrivileged(response) ==
    IF response.status # 200 THEN getError(response) ELSE Returns("nil", response.body)

setPrivileged(response) == IF response.status # 204 THEN getError(response) ELSE Ok

setProperty(response) == IF response.status # 204 THEN getError(response) ELSE Ok

streamIn(response) == IF response.status = 204 THEN Ok ELSE getError(response)

\* The host of the other worker, its volume and the path in it.
getStreamInP2pUrl(response, handle, path) ==
    IF response.status # 200 THEN Returns("failed_to_get_p2p_url", <<>>)
    ELSE Returns("nil", <<[host |-> response.body[1], h |-> handle, path |-> path]>>)

\* The body is handed to the caller, who reads it.
streamOut(response) == IF response.status # 200 THEN getError(response) ELSE Returns("nil", response.body)

streamP2pOut(response) == IF response.status # 200 THEN getError(response) ELSE Ok
=============================================================================
