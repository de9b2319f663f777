--------------------------- MODULE VolumeHandlers ---------------------------
(***************************************************************************)
(* The handlers of api/volume_server.go and api/p2p_server.go as functions *)
(* from what the repository returns, an error or "nil", to the response.   *)
(* A response has a status, a content type, the text of an error or        *)
(* "none", and a body (a sequence, empty if there is none).  "empty"       *)
(* stands for the empty string.                                            *)
(***************************************************************************)
EXTENDS Naturals, Sequences, FiniteSetsExt

\* net/http: the status is 200 if the handler sets none.
Status(code) == [status |-> code, json |-> FALSE, error |-> "none", body |-> <<>>]
Json(value) == [status |-> 200, json |-> TRUE, error |-> "none", body |-> <<value>>]
Bytes(value) == [status |-> 200, json |-> FALSE, error |-> "none", body |-> <<value>>]

RespondWithError(err, code) == [status |-> code, json |-> TRUE, error |-> err, body |-> <<>>]

DestroyVolume(err) ==
    CASE err = "nil" -> Status(204)
      [] err = "ErrVolumeDoesNotExist" -> RespondWithError("ErrDestroyVolumeFailed", 404)
      [] OTHER -> RespondWithError("ErrDestroyVolumeFailed", 500)

\* Mutant of DestroyVolumes: does not look at the channel of errors.
DestroyVolumesForgets(errs) == Status(204)

\* errs: the channel of errors is not empty.
DestroyVolumes(errs) == IF errs THEN RespondWithError("ErrDestroyVolumeFailed", 500) ELSE Status(204)

\* The query of a URL gives every name a list of values.
ConvertQueryToProperties(query) ==
    IF \E n \in DOMAIN query : Len(query[n]) > 1 THEN [err |-> TRUE, properties |-> <<>>]
    ELSE [err |-> FALSE, properties |-> [n \in DOMAIN query |-> query[n][1]]]

ListVolumes(query, err, volumes) ==
    CASE ConvertQueryToProperties(query).err -> RespondWithError("several_values", 422)
      [] ~ConvertQueryToProperties(query).err /\ err # "nil" -> RespondWithError("ErrListVolumesFailed", 500)
      [] OTHER -> Json(volumes)

\* The repository says "found" apart from its error; here a volume that is not
\* found has an error of its own.
GetVolume(err, volume) ==
    CASE err = "nil" -> Json(volume)
      [] err = "ErrVolumeDoesNotExist" -> RespondWithError("ErrGetVolumeFailed", 404)
      [] OTHER -> RespondWithError("ErrGetVolumeFailed", 500)

SetProperty(err) ==
    CASE err = "nil" -> Status(204)
      [] err = "ErrVolumeDoesNotExist" -> RespondWithError("ErrSetPropertyFailed", 404)
      [] OTHER -> RespondWithError("ErrSetPropertyFailed", 500)

GetPrivileged(err, privileged) ==
    CASE err = "nil" -> Json(privileged)
      [] err = "ErrVolumeDoesNotExist" -> RespondWithError("ErrGetPrivilegedFailed", 404)
      [] OTHER -> RespondWithError("ErrGetPrivilegedFailed", 500)

SetPrivileged(err) ==
    CASE err = "nil" -> Status(204)
      [] err = "ErrVolumeDoesNotExist" -> RespondWithError("ErrSetPrivilegedFailed", 404)
      [] OTHER -> RespondWithError("ErrSetPrivilegedFailed", 500)

\* badStream: tar did not like the archive.
StreamIn(err, badStream) ==
    CASE err = "nil" -> Status(204)
      [] err = "ErrVolumeDoesNotExist" -> RespondWithError("ErrStreamInFailed", 404)
      [] err = "ErrUnsupportedStreamEncoding" \/ (err = "error" /\ badStream) -> RespondWithError("ErrStreamInFailed", 400)
      [] OTHER -> RespondWithError("ErrStreamInFailed", 500)

\* The response to an error.
StreamOut(err) ==
    CASE err = "ErrVolumeDoesNotExist" -> RespondWithError("ErrStreamOutFailed", 404)
      [] err = "ErrUnsupportedStreamEncoding" -> RespondWithError("ErrStreamOutFailed", 400)
      [] err = "notExist" -> RespondWithError("ErrStreamOutNotFound", 404)
      [] OTHER -> RespondWithError("ErrStreamOutFailed", 500)

\* The parameters of the request are checked before the repository is asked.
StreamP2pOutRefuses(path, url, encoding) == path = "empty" \/ url = <<>> \/ encoding = "empty"

StreamP2pOut(err) ==
    CASE err = "nil" -> Status(200)
      [] err \in {"ErrVolumeDoesNotExist", "notExist"} -> RespondWithError("ErrStreamOutNotFound", 404)
      [] err \in {"badRequest", "ErrUnsupportedStreamEncoding"} -> RespondWithError("ErrStreamP2pOutFailed", 400)
      [] OTHER -> RespondWithError("ErrStreamP2pOutFailed", 500)

(***************************************************************************)
(* P2pServer.  An interface either matches the pattern or does not; asking *)
(* for its addresses fails or gives a sequence of [family, host].          *)
(***************************************************************************)
\* err: of net.Interfaces.  The first address of the family on the first matching interface that has
\* one; an interface before it that cannot be asked is an error.
GetP2pUrl(err, ifaces, family) ==
    LET Usable(i) == {j \in DOMAIN ifaces[i].addrs : ifaces[i].addrs[j].family = family}
        Stops == {i \in DOMAIN ifaces : ifaces[i].matches /\ (ifaces[i].fails \/ Usable(i) # {})}
    IN IF err # "nil" \/ Stops = {} \/ ifaces[Min(Stops)].fails THEN RespondWithError("ErrGetP2pUrlFailed", 500)
       ELSE Bytes(ifaces[Min(Stops)].addrs[Min(Usable(Min(Stops)))].host)
=============================================================================
