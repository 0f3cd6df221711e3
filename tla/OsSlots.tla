------------------------------- MODULE OsSlots -------------------------------
(***************************************************************************)
(* The two OS image slots of a box: services/osdist/slots.go, the OTA      *)
(* client (services/ota), the apply handler, the epoch floor               *)
(* (services/signing) and what vulos-init and the initramfs do with them   *)
(* on every boot.  boot-state.json is one file that three programs read,   *)
(* change in memory and write back whole; no lock spans the two halves.    *)
(*                                                                         *)
(* The server and vulos-init are taken to share one cache directory, as    *)
(* routes_ota.go says they do.                                             *)
(***************************************************************************)
EXTENDS Integers, FiniteSets

CONSTANTS Versions,     \* OS images the channel publishes
          Factory,      \* the image the installer put into slot a
          Crashing,     \* images that die before the server would listen
          Hanging,      \* images whose server never listens
          Epoch,        \* [Versions -> Nat], min_epoch of an image's cert
          Clients,      \* concurrent Check/Stage calls and the poller
          Threshold,    \* bootThreshold()
          MaxFaults     \* bound: power cuts between two steps of init

ASSUME SlotsAssumption ==
    /\ Factory \in Versions \ (Crashing \cup Hanging)
    /\ "none" \notin Versions
    /\ Epoch \in [Versions -> Nat]
    /\ Threshold \in Nat \ {0}
    /\ MaxFaults \in Nat

VARIABLES bootState,    \* boot-state.json
          image,        \* slot -> the os-core.squashfs in it, or "none"
          floor,        \* epoch-floor.json (and every EpochStore's copy)
          box,          \* the running system, and init's remembered state
          client,       \* Clients -> where its Check/Stage stands
          cuts          \* power cuts so far
slotVars == <<bootState, image, floor, box, client, cuts>>

Slots == {"a", "b"}
InactiveSlot(bs) == IF bs.active = "a" THEN "b" ELSE "a"

BootStates == [active : Slots, pending : Slots \cup {"none"},
               counter : 0..(Threshold + MaxFaults), lkg : Slots]

\* What SetPending, Flip, Rollback, IncrementBootCounter and MarkHealthy save,
\* each computed from the caller's copy of the file.
SetPending(bs, s) == [bs EXCEPT !.pending = s, !.counter = 0]
Flip(bs) == [bs EXCEPT !.active = bs.pending, !.pending = "none",
                       !.counter = 0, !.lkg = bs.active]
Rollback_CounterOnly(bs) == [bs EXCEPT !.pending = "none", !.counter = 0]   \* Fault
Rollback(bs) == [bs EXCEPT !.active = bs.lkg, !.pending = "none", !.counter = 0]
IncrementBootCounter(bs) == [bs EXCEPT !.counter = @ + 1]
MarkHealthy(bs) == [bs EXCEPT !.counter = 0, !.lkg = bs.active]

ShouldRollback(bs) == bs.counter >= Threshold

Off == [phase |-> "off"]
Up == box.phase = "up"
Idle == [pc |-> "idle"]

SlotsInit ==
    /\ bootState = [active |-> "a", pending |-> "none", counter |-> 0, lkg |-> "a"]
    /\ image = [s \in Slots |-> IF s = "a" THEN Factory ELSE "none"]
    /\ floor = 0
    /\ box = Off
    /\ client = [c \in Clients |-> Idle]
    /\ cuts = 0

-----------------------------------------------------------------------------
(* The boot: the initramfs picks a slot, vulos-init counts the attempt,    *)
(* maybe rolls back, verifies the image and waits for the server.          *)

\* apply_active_slot takes boot-state's active slot when it holds an image and
\* the command line's slot a otherwise.
BootSlot == IF image[bootState.active] # "none" THEN bootState.active ELSE "a"

PowerOn ==
    /\ box = Off
    /\ LET bs == IncrementBootCounter(bootState) IN
        /\ bootState' = bs
        /\ box' = [phase |-> IF ShouldRollback(bs) THEN "rollback" ELSE "verify",
                   slot |-> BootSlot, runs |-> image[BootSlot], mem |-> bs,
                   served |-> FALSE]
    /\ UNCHANGED <<image, floor, client, cuts>>

InitRollback ==
    /\ box.phase = "rollback"
    /\ LET bs == Rollback(box.mem) IN
        /\ bootState' = bs
        /\ box' = [box EXCEPT !.phase = "verify", !.mem = bs]
    /\ UNCHANGED <<image, floor, client, cuts>>

RaiseTo(n) == IF n <= floor THEN floor ELSE n
AcceptEpoch(n) == n >= floor

\* verifyOSBeforeBoot: a retired image halts the boot, a current one raises the
\* floor to its own cert's epoch.
VerifyOS ==
    /\ box.phase = "verify"
    /\ IF AcceptEpoch(Epoch[box.runs])
       THEN /\ floor' = RaiseTo(Epoch[box.runs])
            /\ box' = [box EXCEPT !.phase = "services"]
       ELSE /\ box' = Off
            /\ UNCHANGED floor
    /\ UNCHANGED <<bootState, image, client, cuts>>

ImageCrashes ==
    /\ box.phase = "services" /\ box.runs \in Crashing
    /\ box' = Off
    /\ UNCHANGED <<bootState, image, floor, client, cuts>>

ServerListens ==
    /\ box.phase = "services" /\ ~box.served
    /\ box.runs \notin Crashing \cup Hanging
    /\ box' = [box EXCEPT !.served = TRUE]
    /\ UNCHANGED <<bootState, image, floor, client, cuts>>

\* startKiosk waits up to two minutes for the port and marks the boot healthy
\* whether or not the wait succeeded, from the state init read at power-on.
KioskMarksHealthy ==
    /\ box.phase = "services" /\ box.runs \notin Crashing
    /\ bootState' = MarkHealthy(box.mem)
    /\ box' = [box EXCEPT !.phase = "up"]
    /\ UNCHANGED <<image, floor, client, cuts>>

\* Without a display startKiosk returns first and nothing marks the boot.
HeadlessBoot ==
    /\ box.phase = "services" /\ box.runs \notin Crashing
    /\ box' = [box EXCEPT !.phase = "up"]
    /\ UNCHANGED <<bootState, image, floor, client, cuts>>

ServerListensLate ==
    /\ Up /\ ~box.served /\ box.runs \notin Hanging
    /\ box' = [box EXCEPT !.served = TRUE]
    /\ UNCHANGED <<bootState, image, floor, client, cuts>>

\* The owner reboots: every call in flight is lost with its temporary files.
Reboot ==
    /\ Up
    /\ box' = Off
    /\ client' = [c \in Clients |-> Idle]
    /\ UNCHANGED <<bootState, image, floor, cuts>>

PowerCut ==
    /\ box.phase \in {"rollback", "verify", "services"} /\ cuts < MaxFaults
    /\ cuts' = cuts + 1
    /\ box' = Off
    /\ client' = [c \in Clients |-> Idle]
    /\ UNCHANGED <<bootState, image, floor>>

-----------------------------------------------------------------------------
(* The OTA client.  The listening server runs the poller and the owner's   *)
(* POST /stage; both begin with Check.                                     *)

Serving == Up /\ box.served

\* Check, the cert: AcceptEpoch reads the floor under its lock ...
CheckCert(c) ==
    /\ Serving /\ client[c] = Idle
    /\ \E e \in {Epoch[v] : v \in Versions} :
        /\ AcceptEpoch(e)
        /\ client' = [client EXCEPT ![c] = [pc |-> "cert", epoch |-> e]]
    /\ UNCHANGED <<bootState, image, floor, box, cuts>>

\* ... RaiseFromReleaseCert takes the lock again, and the manifest is held
\* against the raised floor.  A manifest that fails, or names the running
\* version, ends the call.
CheckManifest(c) ==
    /\ client[c].pc = "cert"
    /\ floor' = RaiseTo(client[c].epoch)
    /\ \/ client' = [client EXCEPT ![c] = Idle]
       \/ \E v \in Versions \ {box.runs} :
            /\ Epoch[v] >= floor'
            /\ client' = [client EXCEPT ![c] = [pc |-> "checked", ver |-> v]]
    /\ UNCHANGED <<bootState, image, box, cuts>>

\* Stage goes on after the Check: Load, and the inactive slot of what it read.
StageLoad(c) ==
    /\ client[c].pc = "checked"
    /\ client' = [client EXCEPT ![c] = [pc |-> "download", ver |-> @.ver,
                      bs |-> bootState, slot |-> InactiveSlot(bootState)]]
    /\ UNCHANGED <<bootState, image, floor, box, cuts>>

\* downloadAndVerify renames the image into the slot only when every check of
\* it passed; every failure removes the temporary file and ends the call.
StageImage(c) ==
    /\ client[c].pc = "download"
    /\ \/ /\ image' = [image EXCEPT ![client[c].slot] = client[c].ver]
          /\ client' = [client EXCEPT ![c].pc = "staged"]
       \/ /\ client' = [client EXCEPT ![c] = Idle]
          /\ UNCHANGED image
    /\ UNCHANGED <<bootState, floor, box, cuts>>

StagePending_BeforeImage(c) ==                         \* Fault
    /\ client[c].pc = "download"
    /\ bootState' = SetPending(client[c].bs, client[c].slot)
    /\ client' = [client EXCEPT ![c] = Idle]
    /\ UNCHANGED <<image, floor, box, cuts>>
StagePending(c) ==
    /\ client[c].pc = "staged"
    /\ bootState' = SetPending(client[c].bs, client[c].slot)
    /\ client' = [client EXCEPT ![c] = Idle]
    /\ UNCHANGED <<image, floor, box, cuts>>

\* The poller drops what it verified; a refused or failed Stage does too.
CallEnds(c) ==
    /\ client[c].pc = "checked"
    /\ client' = [client EXCEPT ![c] = Idle]
    /\ UNCHANGED <<bootState, image, floor, box, cuts>>

\* handleApply: Load, refuse when nothing is pending, Flip.
ApplyLoad(c) ==
    /\ Serving /\ client[c] = Idle /\ bootState.pending # "none"
    /\ client' = [client EXCEPT ![c] = [pc |-> "apply", bs |-> bootState]]
    /\ UNCHANGED <<bootState, image, floor, box, cuts>>

ApplyFlip(c) ==
    /\ client[c].pc = "apply"
    /\ bootState' = Flip(client[c].bs)
    /\ client' = [client EXCEPT ![c] = Idle]
    /\ UNCHANGED <<image, floor, box, cuts>>

BootStep ==
    \/ PowerOn \/ InitRollback \/ VerifyOS \/ ImageCrashes
    \/ ServerListens \/ KioskMarksHealthy \/ HeadlessBoot

SlotsNext ==
    \/ BootStep \/ ServerListensLate \/ Reboot \/ PowerCut
    \/ \E c \in Clients :
        \/ CheckCert(c) \/ CheckManifest(c) \/ StageLoad(c) \/ StageImage(c)
        \/ StagePending(c) \/ CallEnds(c) \/ ApplyLoad(c) \/ ApplyFlip(c)

\* A box that is down is powered on again and a boot that can go on goes on;
\* nothing obliges the owner to reboot, stage or apply.
SlotsFairness ==
    /\ WF_slotVars(PowerOn) /\ WF_slotVars(InitRollback) /\ WF_slotVars(VerifyOS)
    /\ WF_slotVars(ImageCrashes) /\ WF_slotVars(KioskMarksHealthy \/ HeadlessBoot)
SlotsSpec == SlotsInit /\ [][SlotsNext]_slotVars /\ SlotsFairness

-----------------------------------------------------------------------------
\* boot-state.json always validates, and the counter stays within the threshold
\* and the power cuts that can keep a due rollback from being written.
SlotsTypeOK ==
    /\ bootState \in BootStates
    /\ image \in [Slots -> Versions \cup {"none"}]
    /\ floor \in Nat
    /\ box = Off \/ (box.mem \in BootStates /\ box.runs \in Versions)
    /\ cuts \in 0..MaxFaults

\* Every slot boot-state.json names holds an image, whatever was cut short and
\* whoever wrote the file from a stale copy: neither a boot, a flip nor a
\* rollback ever lands on an empty slot (Stage's order of StageInto and
\* SetPending).
NamedSlotsFilled ==
    \A s \in {bootState.active, bootState.pending, bootState.lkg} \ {"none"} :
        image[s] # "none"

\* The epoch floor never falls, however two Checks interleave (RaiseTo compares
\* again under the lock): a retired release key stays retired.
FloorNeverFalls == [][floor' >= floor]_slotVars

\* The active image crashes on every boot, and the last known good one is sound
\* and retired neither by the floor nor by the active image's own certificate.
RollbackDue ==
    /\ box = Off
    /\ image[bootState.active] \in Crashing
    /\ image[bootState.lkg] \in Versions \ (Crashing \cup Hanging)
    /\ Epoch[image[bootState.lkg]] >= floor
    /\ Epoch[image[bootState.lkg]] >= Epoch[image[bootState.active]]

\* A box with a crashing image comes back on its own: the boot counter reaches
\* the threshold, the rollback is written and the next boot comes up, also when
\* the power fails between counting the attempt and writing the rollback.
RollbackComesUp == RollbackDue ~> Up

\* "Server is confirmed listening -> this is the healthy-boot point": a boot is
\* marked healthy only when its server listened (startKiosk, markBootHealthy).
HealthyServed ==
    [][box.phase = "services" /\ bootState' # bootState => box.served]_slotVars
=============================================================================
