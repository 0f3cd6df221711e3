----------------------------- MODULE MCStorage -------------------------------
(* Uploads, Drive and the relay's store in one run: Init picks the component *)
(* that is explored, the others stay as they are.  They share no state: a    *)
(* finished upload becomes StoreContent of the Drive, whose failure it       *)
(* handles, and the relay's files are its own.                               *)
EXTENDS Drive, Uploads, RelayStore, TLC

VARIABLE focus

TwoFiles == {[folder |-> "a", files |-> <<"a", "b">>]}
BlobName == [r \in Nonces |-> IF r = "r1" THEN "b1" ELSE IF r = "r2" THEN "b2" ELSE "b3"]
Slots    == Permutations(Requests) \cup Permutations(Clients) \cup Permutations(Depositors)

StorageVars == <<focus, driveVars, uploadVars, relayVars>>

StorageInit ==
  /\ focus \in {"drive", "uploads", "relay"}
  /\ DriveInit
  /\ UploadInit
  /\ RelayInit
  /\ focus # "drive" => node = [i \in Ids |-> NoNode]

StorageNext ==
  /\ UNCHANGED focus
  /\ \/ focus = "drive" /\ DriveNext /\ UNCHANGED <<uploadVars, relayVars>>
     \/ focus = "uploads" /\ UploadNext /\ UNCHANGED <<driveVars, relayVars>>
     \/ focus = "relay" /\ RelayNext /\ UNCHANGED <<driveVars, uploadVars>>

StorageSpec == StorageInit /\ [][StorageNext]_StorageVars
=============================================================================
