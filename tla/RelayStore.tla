------------------------------ MODULE RelayStore -----------------------------
(***************************************************************************)
(* The store-and-forward relay (services/peering/relay.go), for one sender *)
(* and one recipient: deposits, pickup, acknowledgement and the reaper     *)
(* work on files without a common lock; nonces and deposit times are in    *)
(* memory under rateMu.                                                    *)
(*                                                                         *)
(* A deposit is its nonce: it names a blob id and brings its own contents. *)
(* All blobs have size 1, and the recipient's cap is the capacity.         *)
(* Signatures, the allowed list and the billing gate are left out: they    *)
(* refuse a deposit before any state changes.                              *)
(***************************************************************************)
EXTENDS Integers, FiniteSets, Sequences

CONSTANTS
  Nonces,      \* signed deposit requests
  BlobOf,      \* the blob id each of them names
  Depositors,  \* bound: deposits under way
  MaxDeposits, \* bound: deposits ever begun, replays included
  Capacity,    \* relayMaxPerRecipientBytes
  MaxPerHour,  \* relayMaxDepositsPerHour
  NonceCap,    \* nonceMaxEntries
  RelayFaults  \* the failures of a run: "restart"

BlobIds == {BlobOf[r] : r \in Nonces}
Nobody  == "-"

ASSUME RelayConstants ==
  /\ MaxDeposits \in Nat
  /\ Capacity \in Nat
  /\ MaxPerHour \in Nat
  /\ NonceCap \in Nat \ {0}
  /\ Nobody \notin Nonces

ASSUME DepositorsAssumption == IsFiniteSet(Depositors) /\ Depositors # {}

VARIABLES
  blob,     \* files: the deposit whose contents a blob id has, or Nobody
  expired,  \* blob ids whose ExpiresAt has passed
  deposit,  \* deposits under way
  begunDeposits,
  seen,     \* seenNonces, oldest first
  hour,     \* senderDeposits: deposits recorded in the last hour
  reaping,  \* reapExpired: the blob id it has found expired
  picked,   \* the recipient: blob ids it has fetched and not acknowledged
  fetched,  \* history: deposits the recipient has read
  accepted, \* history: deposits the sender was told are stored
  lapsed,   \* history: deposits that expired in the store
  writes,   \* history: how often each deposit was stored
  forgotten \* history: nonces that left seenNonces

relayVars == <<blob, expired, deposit, begunDeposits, seen, hour, reaping, picked,
               fetched, accepted, lapsed, writes, forgotten>>

NoDeposit == [pc |-> "idle", r |-> Nobody]

RelayInit ==
  /\ blob = [b \in BlobIds |-> Nobody]
  /\ expired = {}
  /\ deposit = [d \in Depositors |-> NoDeposit]
  /\ begunDeposits = 0
  /\ seen = <<>>
  /\ hour = 0
  /\ reaping = Nobody
  /\ picked = {}
  /\ fetched = {}
  /\ accepted = {}
  /\ lapsed = {}
  /\ writes = [r \in Nonces |-> 0]
  /\ forgotten = {}

Stored    == {b \in BlobIds : blob[b] # Nobody}
InSeen(r) == \E i \in 1..Len(seen) : seen[i] = r
StepTo(d, s) == deposit' = [deposit EXCEPT ![d] = s]
-----------------------------------------------------------------------------
(* Deposit                                                                 *)

\* Fault: the nonce is recorded and not looked up.
FreshNonce_Any(r) == TRUE

FreshNonce(r) == ~InSeen(r)

Evicts == Len(seen) >= NonceCap

\* checkNonceDedup: recorded whatever becomes of the deposit, and the oldest
\* entry makes room.
DepositNonce(d, r) ==
  /\ deposit[d] = NoDeposit
  /\ begunDeposits < MaxDeposits
  /\ begunDeposits' = begunDeposits + 1
  /\ IF FreshNonce(r)
     THEN /\ StepTo(d, [pc |-> "rate", r |-> r])
          /\ IF Evicts
             THEN seen' = Append(Tail(seen), r) /\ forgotten' = forgotten \cup {seen[1]}
             ELSE seen' = Append(seen, r) /\ UNCHANGED forgotten
     ELSE UNCHANGED <<deposit, seen, forgotten>>
  /\ UNCHANGED <<blob, expired, hour, reaping, picked, fetched, accepted, lapsed, writes>>

\* checkRateLimit
DepositRate(d) ==
  /\ deposit[d].pc = "rate"
  /\ StepTo(d, IF hour < MaxPerHour THEN [deposit[d] EXCEPT !.pc = "caps"] ELSE NoDeposit)
  /\ UNCHANGED <<blob, expired, begunDeposits, seen, hour, reaping, picked, fetched,
                 accepted, lapsed, writes, forgotten>>

\* dirStoredBytes: also what has expired counts until it is reaped.
HasRoom == Cardinality(Stored) + 1 <= Capacity

DepositCaps(d) ==
  /\ deposit[d].pc = "caps"
  /\ StepTo(d, IF HasRoom THEN [deposit[d] EXCEPT !.pc = "write"] ELSE NoDeposit)
  /\ UNCHANGED <<blob, expired, begunDeposits, seen, hour, reaping, picked, fetched,
                 accepted, lapsed, writes, forgotten>>

\* relayAtomicWrite over whatever has the id.
DepositWrite(d) ==
  LET r == deposit[d].r IN
  /\ deposit[d].pc = "write"
  /\ blob' = [blob EXCEPT ![BlobOf[r]] = r]
  /\ expired' = expired \ {BlobOf[r]}
  /\ writes' = [writes EXCEPT ![r] = @ + 1]
  /\ StepTo(d, [deposit[d] EXCEPT !.pc = "record"])
  /\ UNCHANGED <<begunDeposits, seen, hour, reaping, picked, fetched, accepted, lapsed,
                 forgotten>>

\* recordDeposit and the answer.
DepositRecord(d) ==
  /\ deposit[d].pc = "record"
  /\ hour' = hour + 1
  /\ accepted' = accepted \cup {deposit[d].r}
  /\ StepTo(d, NoDeposit)
  /\ UNCHANGED <<blob, expired, begunDeposits, seen, reaping, picked, fetched, lapsed,
                 writes, forgotten>>
-----------------------------------------------------------------------------
(* Pickup, Ack, reapExpired                                                *)

Pickup ==
  LET there == Stored \ expired IN
  /\ there # {}
  /\ picked' = picked \cup there
  /\ fetched' = fetched \cup {blob[b] : b \in there}
  /\ UNCHANGED <<blob, expired, deposit, begunDeposits, seen, hour, reaping, accepted,
                 lapsed, writes, forgotten>>

\* Fault: an acknowledgement empties the recipient's directory.
AckLeaves_Nothing == [b \in BlobIds |-> Nobody]

\* The files of the ids the recipient names go, whatever their contents by now.
AckLeaves == [b \in BlobIds |-> IF b \in picked THEN Nobody ELSE blob[b]]

Ack ==
  /\ picked # {}
  /\ blob' = AckLeaves
  /\ expired' = expired \ picked
  /\ picked' = {}
  /\ UNCHANGED <<deposit, begunDeposits, seen, hour, reaping, fetched, accepted, lapsed,
                 writes, forgotten>>

Expire(b) ==
  /\ b \in Stored \ expired
  /\ expired' = expired \cup {b}
  /\ lapsed' = lapsed \cup {blob[b]}
  /\ UNCHANGED <<blob, deposit, begunDeposits, seen, hour, reaping, picked, fetched,
                 accepted, writes, forgotten>>

\* The file is read and found expired, then removed.
ReapRead(b) ==
  /\ reaping = Nobody
  /\ b \in Stored \cap expired
  /\ reaping' = b
  /\ UNCHANGED <<blob, expired, deposit, begunDeposits, seen, hour, picked, fetched,
                 accepted, lapsed, writes, forgotten>>

ReapRemove ==
  /\ reaping # Nobody
  /\ blob' = [blob EXCEPT ![reaping] = Nobody]
  /\ expired' = expired \ {reaping}
  /\ reaping' = Nobody
  /\ UNCHANGED <<deposit, begunDeposits, seen, hour, picked, fetched, accepted, lapsed,
                 writes, forgotten>>

\* An hour passes: deposit times leave the window and so do nonces.
HourPasses ==
  /\ hour > 0 \/ seen # <<>>
  /\ hour' = 0
  /\ seen' = <<>>
  /\ forgotten' = forgotten \cup {seen[i] : i \in 1..Len(seen)}
  /\ UNCHANGED <<blob, expired, deposit, begunDeposits, reaping, picked, fetched,
                 accepted, lapsed, writes>>

\* The box restarts: what is in memory is gone.
RelayRestart ==
  /\ "restart" \in RelayFaults
  /\ seen # <<>> \/ hour > 0
  /\ deposit' = [d \in Depositors |-> NoDeposit]
  /\ hour' = 0
  /\ seen' = <<>>
  /\ forgotten' = forgotten \cup {seen[i] : i \in 1..Len(seen)}
  /\ reaping' = Nobody
  /\ UNCHANGED <<blob, expired, begunDeposits, picked, fetched, accepted, lapsed, writes>>

RelayNext ==
  \/ \E d \in Depositors :
       \/ \E r \in Nonces : DepositNonce(d, r)
       \/ DepositRate(d)
       \/ DepositCaps(d)
       \/ DepositWrite(d)
       \/ DepositRecord(d)
  \/ \E b \in BlobIds : Expire(b) \/ ReapRead(b)
  \/ Pickup
  \/ Ack
  \/ ReapRemove
  \/ HourPasses
  \/ RelayRestart

RelaySpec == RelayInit /\ [][RelayNext]_relayVars
-----------------------------------------------------------------------------
\* Types.
RelayTypeOK ==
  /\ blob \in [BlobIds -> Nonces \cup {Nobody}]
  /\ expired \subseteq Stored
  /\ \A d \in Depositors : deposit[d].r \in Nonces \cup {Nobody}
  /\ hour \in 0..MaxDeposits
  /\ Len(seen) <= NonceCap
  /\ picked \subseteq BlobIds

\* A blob id that was stored once at most.
StoredOnce(b) ==
  \A r, s \in Nonces :
    BlobOf[r] = b /\ BlobOf[s] = b /\ writes[r] + writes[s] > 1 => r = s /\ writes[r] <= 1

\* "Deletion is deferred until Ack": what the sender was told is stored is there
\* until the recipient has read it or it has expired.  This is so for blob ids
\* that are not deposited again: the reaper and Ack remove by id, and either
\* may meet the contents of a later deposit.
AcceptedIsKept ==
  \A r \in accepted :
    StoredOnce(BlobOf[r]) => blob[BlobOf[r]] = r \/ r \in fetched \/ r \in lapsed

\* The caps are looked up without a lock: deposits that look together exceed
\* them by one less than there are of them, and no further.
CapacityBounded ==
  Cardinality(Stored) <= Capacity + Cardinality(Depositors) - 1

\* One signed deposit is stored once, however often it arrives, as long as its
\* nonce is remembered: so for an hour, without a restart, below NonceCap.
ReplayStoresOnce ==
  \A r \in Nonces : writes[r] > 1 => r \in forgotten
=============================================================================
