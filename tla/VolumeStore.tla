---------------------------- MODULE VolumeStore -----------------------------
(***************************************************************************)
(* What a volume repository promises (the Repository interface of          *)
(* volume/repository.go and doc.go): a handle names at most one volume,    *)
(* which comes into existence complete, with its properties and privilege, *)
(* and is gone at once.  What it does not promise is that a change of the  *)
(* metadata is atomic: the file is torn, hence unreadable, from the first  *)
(* byte that overwrites it until the new value is complete, which is never *)
(* if the store fails or is killed.                                        *)
(***************************************************************************)
CONSTANTS Handles, Names, NoVolume

VARIABLE vol   \* vol[h]: the volume that can be interacted with, or NoVolume

Files == {"props", "priv"}

Volume == [props : SUBSET Names, priv : BOOLEAN, torn : SUBSET Files]

Init == vol = [h \in Handles |-> NoVolume]

CreateVolume(h, ps, b) == /\ vol[h] = NoVolume
                          /\ vol' = [vol EXCEPT ![h] = [props |-> ps, priv |-> b, torn |-> {}]]

DestroyVolume(h) == /\ vol[h] # NoVolume
                    /\ vol' = [vol EXCEPT ![h] = NoVolume]

\* A store begins to overwrite a file.
Overwrite(h, file) == /\ vol[h] # NoVolume
                      /\ vol' = [vol EXCEPT ![h].torn = @ \union {file}]

\* A store completes.  A property is added to the ones the volume had when the
\* store began: no update is ever lost.
SetProperty(h, ps) == /\ vol[h] # NoVolume /\ "props" \in vol[h].torn
                      /\ vol' = [vol EXCEPT ![h].props = @ \union ps, ![h].torn = @ \ {"props"}]

SetPrivileged(h, b) == /\ vol[h] # NoVolume /\ "priv" \in vol[h].torn
                       /\ vol' = [vol EXCEPT ![h].priv = b, ![h].torn = @ \ {"priv"}]

Next == \E h \in Handles :
           \/ \E ps \in SUBSET Names, b \in BOOLEAN : CreateVolume(h, ps, b)
           \/ DestroyVolume(h)
           \/ \E file \in Files : Overwrite(h, file)
           \/ \E n \in Names : SetProperty(h, {n})
           \/ \E b \in BOOLEAN : SetPrivileged(h, b)

Spec == Init /\ [][Next]_vol
=============================================================================
