------------------------------ MODULE NodeProofs ------------------------------
(***************************************************************************)
(* Five services of a node, each for every value of its constants.         *)
(*                                                                         *)
(* OsSlots: boot-state.json never names an empty slot, and the epoch floor *)
(* never falls, for any images, clients, thresholds and power cuts.  The   *)
(* file is written back whole from copies: the one init keeps from         *)
(* power-on and those of the Stage and apply calls under way.  So what is  *)
(* to hold of the file has to hold of every copy, however old, which it    *)
(* does because no step takes an image away.                               *)
(*                                                                         *)
(* Calls: the two sides of a call end up agreed, and log it once.  A step  *)
(* touches one call, so the invariant is kept call by call (OfCall); it    *)
(* says which posts may be under way for each pair of states of the sides. *)
(*                                                                         *)
(* GamingSessions: a reserved slot always has a Start that will free it.   *)
(*                                                                         *)
(* Messages: what the user was told is queued has arrived or is in a file. *)
(* StreamPool: no ID stays taken by a session that has ended.              *)
(***************************************************************************)
EXTENDS OsSlots, Calls, GamingSessions, Messages, StreamPool, TLAPS

\* A boot state, the counter of which does not matter here.
States == [active : Slots, pending : Slots \cup {"none"}, counter : Nat, lkg : Slots]

\* Every slot that a copy of the file names holds an image.
Filled(bs) ==
    /\ bs \in States
    /\ image[bs.active] # "none"
    /\ image[bs.lkg] # "none"
    /\ bs.pending # "none" => image[bs.pending] # "none"

\* The copy init keeps, and the image it runs.
BoxSound ==
    \/ box = Off
    \/ /\ box \in [phase : {"rollback", "verify", "services", "up"}, slot : Slots,
                   runs : Versions, mem : States, served : BOOLEAN]
       /\ Filled(box.mem)

\* The copies of the calls; a Stage that is about to say that its slot is pending
\* has put an image into it.
CallSound(r) ==
    \/ r = Idle
    \/ r \in [pc : {"cert"}, epoch : Nat]
    \/ r \in [pc : {"checked"}, ver : Versions]
    \/ /\ r \in [pc : {"download", "staged"}, ver : Versions, bs : States, slot : Slots]
       /\ Filled(r.bs)
       /\ r.pc = "staged" => image[r.slot] # "none"
    \/ /\ r \in [pc : {"apply"}, bs : States]
       /\ Filled(r.bs)
       /\ r.bs.pending # "none"

CopiesSound ==
    /\ image \in [Slots -> Versions \cup {"none"}]
    /\ floor \in Nat
    /\ Filled(bootState)
    /\ BoxSound
    /\ client = [c \in Clients |-> client[c]]
    /\ \A c \in Clients : CallSound(client[c])

-----------------------------------------------------------------------------
\* The five writers of the file keep it filled.
LEMMA WritersFilled ==
    ASSUME NEW bs, Filled(bs)
    PROVE  /\ Filled(IncrementBootCounter(bs))
           /\ Filled(Rollback(bs))
           /\ Filled(MarkHealthy(bs))
           /\ bs.pending # "none" => Filled(Flip(bs))
           /\ \A s \in Slots : image[s] # "none" => Filled(SetPending(bs, s))
<1> USE DEF Filled, States
<1>1. Filled(IncrementBootCounter(bs))
  BY DEF IncrementBootCounter
<1>2. Filled(Rollback(bs))
  BY DEF Rollback
<1>3. Filled(MarkHealthy(bs))
  BY DEF MarkHealthy
<1>4. bs.pending # "none" => Filled(Flip(bs))
  BY DEF Flip
<1>5. \A s \in Slots : image[s] # "none" => Filled(SetPending(bs, s))
  BY DEF SetPending
<1> QED
  BY <1>1, <1>2, <1>3, <1>4, <1>5

\* Copies stay sound while images are only put into slots.
LEMMA ImagesKept ==
    ASSUME \A s \in Slots : image[s] # "none" => image'[s] # "none"
    PROVE  /\ \A bs : Filled(bs) => Filled(bs)'
           /\ \A r : CallSound(r) => CallSound(r)'
BY DEF Filled, CallSound, States, Slots, Idle

\* The copies are sound at first: slot a has the factory's image.
LEMMA InitSound == SlotsInit => CopiesSound
BY SlotsAssumption DEF SlotsInit, CopiesSound, Filled, States, Slots, BoxSound, CallSound

\* A step keeps the copies sound when the file, init's copy and the calls it
\* changes are sound and no image goes away.
LEMMA StepSound ==
    ASSUME CopiesSound,
           image' \in [Slots -> Versions \cup {"none"}],
           \A s \in Slots : image[s] # "none" => image'[s] # "none",
           floor' \in Nat,
           Filled(bootState)',
           BoxSound',
           client' = [c \in Clients |-> client'[c]],
           \A c \in Clients : client'[c] = client[c] \/ CallSound(client[c])'
    PROVE  CopiesSound'
<1>1. \A c \in Clients : CallSound(client[c])'
  <2> TAKE c \in Clients
  <2>1. CallSound(client[c])
    BY DEF CopiesSound
  <2>2. CASE client'[c] = client[c]
    BY <2>1, <2>2, ImagesKept, SMTT(30) DEF CallSound, Filled
  <2> QED
    BY <2>2
<1> QED
  BY <1>1 DEF CopiesSound

\* The running system.
Running == [phase : {"rollback", "verify", "services", "up"}, slot : Slots,
            runs : Versions, mem : States, served : BOOLEAN]

\* A box in one of its phases runs an image and has a copy of the file.
LEMMA OnIsRunning ==
    ASSUME BoxSound, box.phase # "off"
    PROVE  box \in Running /\ Filled(box.mem)
BY DEF BoxSound, Off, Running

\* What init and the owner do leaves every copy sound.
LEMMA BootSound ==
    ASSUME CopiesSound,
           BootStep \/ ServerListensLate \/ Reboot \/ PowerCut
    PROVE  CopiesSound'
<1>0. /\ image \in [Slots -> Versions \cup {"none"}] /\ floor \in Nat
      /\ Filled(bootState) /\ BoxSound
      /\ client = [c \in Clients |-> client[c]]
  BY DEF CopiesSound
<1>1. image' = image
  BY DEF BootStep, PowerOn, InitRollback, VerifyOS, ImageCrashes, ServerListens,
         KioskMarksHealthy, HeadlessBoot, ServerListensLate, Reboot, PowerCut
<1>2. \A bs : Filled(bs) <=> Filled(bs)'
  BY <1>1 DEF Filled
<1>3. client' = [c \in Clients |-> client'[c]]
      /\ \A c \in Clients : client'[c] = client[c] \/ CallSound(client[c])'
  <2>1. client' = client \/ client' = [c \in Clients |-> Idle]
    BY DEF BootStep, PowerOn, InitRollback, VerifyOS, ImageCrashes, ServerListens,
           KioskMarksHealthy, HeadlessBoot, ServerListensLate, Reboot, PowerCut
  <2>3. CASE client' = client
    BY <2>3, <1>0
  <2>4. CASE client' = [c \in Clients |-> Idle]
    <3>1. \A c \in Clients : CallSound(client[c])'
      BY <2>4 DEF CallSound
    <3> QED
      BY <2>4, <3>1
  <2> QED
    BY <2>1, <2>3, <2>4
<1>4. floor' \in Nat /\ Filled(bootState)' /\ BoxSound'
  <2>1. CASE PowerOn
    <3> DEFINE bs == IncrementBootCounter(bootState)
    <3>1. Filled(bs)
      BY <1>0, WritersFilled
    <3>2. image[bootState.active] \in Versions /\ BootSlot \in Slots
          /\ image[BootSlot] \in Versions
      BY <1>0 DEF Filled, States, BootSlot
    <3>3. box' \in Running /\ box'.mem = bs
      BY <2>1, <3>1, <3>2 DEF PowerOn, Running, Filled
    <3> QED
      BY <2>1, <3>1, <3>3, <1>0, <1>2 DEF PowerOn, BoxSound, Running
  <2>2. CASE InitRollback
    <3> DEFINE bs == Rollback(box.mem)
    <3>1. box \in Running /\ Filled(box.mem)
      BY <2>2, <1>0, OnIsRunning DEF InitRollback
    <3>2. Filled(bs)
      BY <3>1, WritersFilled
    <3>3. box' \in Running /\ box'.mem = bs
      BY <2>2, <3>1, <3>2 DEF InitRollback, Running, Filled
    <3> QED
      BY <2>2, <3>2, <3>3, <1>0, <1>2 DEF InitRollback, BoxSound, Running
  <2>3. CASE VerifyOS
    <3>1. box \in Running /\ Filled(box.mem)
      BY <2>3, <1>0, OnIsRunning DEF VerifyOS
    <3>2. Epoch[box.runs] \in Nat
      BY <3>1, SlotsAssumption DEF Running
    <3>3. floor' \in Nat
      BY <2>3, <1>0, <3>2 DEF VerifyOS, RaiseTo
    <3>4. box' = Off \/ (box' \in Running /\ box'.mem = box.mem)
      BY <2>3, <3>1 DEF VerifyOS, Running
    <3> QED
      BY <2>3, <3>1, <3>3, <3>4, <1>0, <1>2 DEF VerifyOS, BoxSound, Running
  <2>4. CASE KioskMarksHealthy
    <3>1. box \in Running /\ Filled(box.mem)
      BY <2>4, <1>0, OnIsRunning DEF KioskMarksHealthy
    <3>2. Filled(MarkHealthy(box.mem))
      BY <3>1, WritersFilled
    <3>3. box' \in Running /\ box'.mem = box.mem
      BY <2>4, <3>1 DEF KioskMarksHealthy, Running
    <3> QED
      BY <2>4, <3>1, <3>2, <3>3, <1>0, <1>2 DEF KioskMarksHealthy, BoxSound, Running
  <2>5. CASE ServerListens \/ HeadlessBoot \/ ServerListensLate
    <3>1. box \in Running /\ Filled(box.mem)
      BY <2>5, <1>0, OnIsRunning DEF ServerListens, HeadlessBoot, ServerListensLate, Up
    <3>2. box' \in Running /\ box'.mem = box.mem /\ UNCHANGED <<bootState, floor>>
      BY <2>5, <3>1 DEF ServerListens, HeadlessBoot, ServerListensLate, Running
    <3> QED
      BY <3>1, <3>2, <1>0, <1>2 DEF BoxSound, Running
  <2>6. CASE ImageCrashes \/ Reboot \/ PowerCut
    BY <2>6, <1>0, <1>2 DEF ImageCrashes, Reboot, PowerCut, BoxSound
  <2> QED
    BY <2>1, <2>2, <2>3, <2>4, <2>5, <2>6 DEF BootStep
<1> QED
  BY <1>0, <1>1, <1>3, <1>4, StepSound

\* What a Check, a Stage or an apply does leaves every copy sound.
LEMMA CallsSound ==
    ASSUME CopiesSound, NEW c \in Clients,
           \/ CheckCert(c) \/ CheckManifest(c) \/ StageLoad(c) \/ StageImage(c)
           \/ StagePending(c) \/ CallEnds(c) \/ ApplyLoad(c) \/ ApplyFlip(c)
    PROVE  CopiesSound'
<1>0. /\ image \in [Slots -> Versions \cup {"none"}] /\ floor \in Nat
      /\ Filled(bootState) /\ BoxSound
      /\ client = [d \in Clients |-> client[d]]
      /\ CallSound(client[c])
  BY DEF CopiesSound
<1>1. box' = box
  BY DEF CheckCert, CheckManifest, StageLoad, StageImage, StagePending, CallEnds,
         ApplyLoad, ApplyFlip
<1> SUFFICES /\ image' \in [Slots -> Versions \cup {"none"}]
             /\ \A s \in Slots : image[s] # "none" => image'[s] # "none"
             /\ floor' \in Nat
             /\ Filled(bootState)'
             /\ client' = [d \in Clients |-> client'[d]]
             /\ \A d \in Clients \ {c} : client'[d] = client[d]
             /\ CallSound(client[c])'
  <2>1. ASSUME \A s \in Slots : image[s] # "none" => image'[s] # "none"
        PROVE  BoxSound'
    BY <2>1, <1>0, <1>1 DEF BoxSound, Filled, States
  <2> QED
    BY <2>1, StepSound
<1>2. CASE CheckCert(c)
  <2>1. PICK e \in {Epoch[v] : v \in Versions} :
          client' = [client EXCEPT ![c] = [pc |-> "cert", epoch |-> e]]
    BY <1>2 DEF CheckCert
  <2>2. e \in Nat
    BY SlotsAssumption
  <2>3. client'[c] = [pc |-> "cert", epoch |-> e]
    BY <2>1, <1>0
  <2> QED
    BY <1>2, <2>1, <2>2, <2>3, <1>0 DEF CheckCert, CallSound, Filled
<1>3. CASE CheckManifest(c)
  <2>1. client[c].epoch \in Nat
    BY <1>3, <1>0 DEF CheckManifest, CallSound, Idle
  <2>2. floor' \in Nat
    BY <1>3, <1>0, <2>1 DEF CheckManifest, RaiseTo
  <2>3. client' = [client EXCEPT ![c] = Idle]
        \/ \E v \in Versions : client' = [client EXCEPT ![c] = [pc |-> "checked", ver |-> v]]
    BY <1>3 DEF CheckManifest
  <2>4. client'[c] = Idle \/ \E v \in Versions : client'[c] = [pc |-> "checked", ver |-> v]
    BY <2>3, <1>0
  <2>5. CallSound(client[c])'
    <3>1. CASE client'[c] = Idle
      BY <3>1 DEF CallSound
    <3>2. ASSUME NEW v \in Versions, client'[c] = [pc |-> "checked", ver |-> v]
          PROVE  CallSound(client[c])'
      BY <3>2 DEF CallSound
    <3> QED
      BY <2>4, <3>1, <3>2
  <2> QED
    BY <1>3, <2>2, <2>3, <2>5, <1>0 DEF CheckManifest, Filled
<1>4. CASE StageLoad(c)
  <2>1. client[c].ver \in Versions
    BY <1>4, <1>0 DEF StageLoad, CallSound, Idle
  <2>2. client'[c] = [pc |-> "download", ver |-> client[c].ver,
                      bs |-> bootState, slot |-> InactiveSlot(bootState)]
    BY <1>4, <1>0 DEF StageLoad
  <2>3. CallSound(client[c])'
    BY <1>4, <2>1, <2>2, <1>0 DEF StageLoad, CallSound, Filled, InactiveSlot, Slots
  <2> QED
    BY <1>4, <2>3, <1>0 DEF StageLoad, Filled
<1>5. CASE StageImage(c)
  <2> DEFINE r == client[c]
  <2>1. /\ r \in [pc : {"download", "staged"}, ver : Versions, bs : States, slot : Slots]
        /\ Filled(r.bs) /\ r.pc = "download"
    BY <1>5, <1>0 DEF StageImage, CallSound, Idle
  <2>2. CASE client' = [client EXCEPT ![c] = Idle] /\ UNCHANGED image
    <3>1. client'[c] = Idle
      BY <2>2, <1>0
    <3> QED
      BY <1>5, <2>2, <3>1, <1>0 DEF StageImage, CallSound, Filled
  <2>3. CASE /\ image' = [image EXCEPT ![r.slot] = r.ver]
             /\ client' = [client EXCEPT ![c].pc = "staged"]
    <3>1. /\ image' \in [Slots -> Versions \cup {"none"}]
          /\ \A s \in Slots : image[s] # "none" => image'[s] # "none"
          /\ image'[r.slot] # "none"
      BY <2>1, <2>3, <1>0, SlotsAssumption
    <3>2. client'[c] = [r EXCEPT !.pc = "staged"]
      BY <2>3, <1>0
    <3>3. /\ client'[c] \in [pc : {"download", "staged"}, ver : Versions, bs : States,
                              slot : Slots]
          /\ client'[c].bs = r.bs /\ client'[c].slot = r.slot
      BY <3>2, <2>1
    <3>4. Filled(r.bs) => Filled(client[c].bs)'
      BY <3>1, <3>3 DEF Filled, States
    <3>5. CallSound(client[c])'
      BY <3>1, <3>3, <3>4, <2>1 DEF CallSound
    <3>6. Filled(bootState)'
      BY <1>5, <3>1, <1>0 DEF StageImage, Filled, States
    <3> QED
      BY <1>5, <2>3, <3>1, <3>5, <3>6, <1>0 DEF StageImage
  <2> QED
    BY <1>5, <2>2, <2>3 DEF StageImage
<1>6. CASE StagePending(c)
  <2>1. /\ Filled(client[c].bs) /\ client[c].slot \in Slots
        /\ image[client[c].slot] # "none"
    BY <1>6, <1>0 DEF StagePending, CallSound, Idle
  <2>2. Filled(SetPending(client[c].bs, client[c].slot))
    BY <2>1, WritersFilled
  <2>3. client'[c] = Idle
    BY <1>6, <1>0 DEF StagePending
  <2> QED
    BY <1>6, <2>2, <2>3, <1>0 DEF StagePending, CallSound, Filled
<1>7. CASE CallEnds(c)
  <2>1. client'[c] = Idle
    BY <1>7, <1>0 DEF CallEnds
  <2> QED
    BY <1>7, <2>1, <1>0 DEF CallEnds, CallSound, Filled
<1>8. CASE ApplyLoad(c)
  <2>1. client'[c] = [pc |-> "apply", bs |-> bootState]
    BY <1>8, <1>0 DEF ApplyLoad
  <2>2. CallSound(client[c])'
    BY <1>8, <2>1, <1>0 DEF ApplyLoad, CallSound, Filled
  <2> QED
    BY <1>8, <2>2, <1>0 DEF ApplyLoad, Filled
<1>9. CASE ApplyFlip(c)
  <2>1. Filled(client[c].bs) /\ client[c].bs.pending # "none"
    BY <1>9, <1>0 DEF ApplyFlip, CallSound, Idle
  <2>2. Filled(Flip(client[c].bs))
    BY <2>1, WritersFilled
  <2>3. client'[c] = Idle
    BY <1>9, <1>0 DEF ApplyFlip
  <2> QED
    BY <1>9, <2>2, <2>3, <1>0 DEF ApplyFlip, CallSound, Filled
<1> QED
  BY <1>2, <1>3, <1>4, <1>5, <1>6, <1>7, <1>8, <1>9

-----------------------------------------------------------------------------
\* CopiesSound is inductive.
THEOREM CopiesInvariant == SlotsSpec => []CopiesSound
<1>1. CopiesSound /\ [SlotsNext]_slotVars => CopiesSound'
  <2> SUFFICES ASSUME CopiesSound, [SlotsNext]_slotVars
               PROVE  CopiesSound'
    OBVIOUS
  <2>1. CASE UNCHANGED slotVars
    BY <2>1 DEF slotVars, CopiesSound, Filled, BoxSound, CallSound
  <2>2. CASE SlotsNext
    BY <2>2, BootSound, CallsSound DEF SlotsNext
  <2> QED
    BY <2>1, <2>2
<1> QED
  BY InitSound, <1>1, PTL DEF SlotsSpec

\* boot-state.json names no empty slot: neither a boot, a flip nor a rollback
\* lands on one, whatever was cut short and whoever wrote from an old copy.
THEOREM NamedSlotsFilledHolds == SlotsSpec => []NamedSlotsFilled
<1>1. CopiesSound => NamedSlotsFilled
  BY DEF CopiesSound, Filled, States, NamedSlotsFilled
<1> QED
  BY CopiesInvariant, <1>1, PTL

\* No step lowers the epoch floor, however Checks and boots interleave
\* (RaiseTo compares again under the lock).
THEOREM FloorNeverFallsHolds == SlotsSpec => FloorNeverFalls
<1>1. CopiesSound /\ [SlotsNext]_slotVars => [floor' >= floor]_slotVars
  <2> SUFFICES ASSUME CopiesSound, SlotsNext
               PROVE  floor' >= floor
    BY DEF slotVars
  <2>0. floor \in Nat /\ BoxSound /\ \A c \in Clients : CallSound(client[c])
    BY DEF CopiesSound
  <2>1. CASE VerifyOS
    <3>1. Epoch[box.runs] \in Nat
      BY <2>0, <2>1, OnIsRunning, SlotsAssumption DEF VerifyOS, Running
    <3> QED
      BY <2>0, <2>1, <3>1 DEF VerifyOS, RaiseTo
  <2>2. ASSUME NEW c \in Clients, CheckManifest(c)
        PROVE  floor' >= floor
    <3>1. client[c].epoch \in Nat
      BY <2>0, <2>2 DEF CheckManifest, CallSound, Idle
    <3> QED
      BY <2>0, <2>2, <3>1 DEF CheckManifest, RaiseTo
  <2>3. CASE UNCHANGED floor
    BY <2>0, <2>3
  <2> QED
    BY <2>1, <2>2, <2>3
       DEF SlotsNext, BootStep, PowerOn, InitRollback, ImageCrashes, ServerListens,
           KioskMarksHealthy, HeadlessBoot, ServerListensLate, Reboot, PowerCut,
           CheckCert, StageLoad, StageImage, StagePending, CallEnds, ApplyLoad, ApplyFlip
<1> QED
  BY CopiesInvariant, <1>1, PTL DEF SlotsSpec, FloorNeverFalls

-----------------------------------------------------------------------------
\* The entries of a call log, and the posts between boxes.
Outcomes == {"completed", "missed", "outgoing", "rejected"}
Posts    == [to : CallBoxes, call : CallIds, kind : {"incoming-call", "answer", "reject", "hangup"}]

Invites(c)   == Signal(Caller[c], c, "incoming-call")
EndTo(n, c)  == \E m \in wire : m.call = c /\ m.to = n /\ m.kind \in {"reject", "hangup"}

CallTypes ==
  /\ session \in [CallBoxes -> [CallIds -> {NoSession, Ringing, Talking}]]
  /\ wire \subseteq Posts
  /\ callLog \in [CallBoxes -> [CallIds -> Seq(Outcomes)]]

\* A call that was not placed is unknown; its callee is told of it once, before it
\* has a session or an entry of it; a session has no entry yet.
Untold(c) ==
  /\ \A m \in wire : m.call = c /\ m.kind = "incoming-call" => m = Invites(c)
  /\ c \notin used => /\ \A m \in wire : m.call # c
                      /\ \A n \in CallBoxes : ~In(n, c) /\ callLog[n][c] = <<>>
  /\ Invites(c) \in wire => ~In(Callee(c), c) /\ callLog[Callee(c)][c] = <<>>
  /\ \A n \in CallBoxes : In(n, c) => callLog[n][c] = <<>>

\* The two sides, and what is on its way between them.
Agreed(c) ==
  /\ Invites(c) \in wire => /\ ~EndTo(Caller[c], c)
                            /\ In(Caller[c], c) \/ EndTo(Callee(c), c)
  /\ Invites(c) \notin wire =>
       \A n \in CallBoxes : In(n, c) /\ ~In(Peer(n), c) => EndTo(n, c)
  /\ \A n \in CallBoxes : EndTo(n, c) => ~In(Peer(n), c)

\* Who talks, or is told to, has been answered.
Picked(c) ==
  /\ \A n \in CallBoxes : session[n][c] = Talking => c \in pickedUp
  /\ \A m \in wire : m.call = c /\ m.kind = "answer" => c \in pickedUp
  /\ \A n \in CallBoxes : callLog[n][c] = <<"completed">> => c \in pickedUp

CallInv ==
  /\ CallTypes
  /\ \A c \in CallIds : Untold(c) /\ Picked(c)
  /\ LoggedOnce
  /\ \A c \in CallIds : c \notin upset => Agreed(c)

\* What the actions leave alone: a step that is about one call changes no other.
SameCall(d) ==
  /\ \A n \in CallBoxes : session'[n][d] = session[n][d] /\ callLog'[n][d] = callLog[n][d]
  /\ \A m : m.call = d => (m \in wire' <=> m \in wire)
  /\ d \in used' <=> d \in used
  /\ d \in pickedUp => d \in pickedUp'
  /\ d \in upset => d \in upset'

\* What the invariant says of one call.
OfCall(c) ==
  /\ Untold(c) /\ Picked(c)
  /\ \A n \in CallBoxes : Len(callLog[n][c]) <= 1
  /\ c \notin upset => Agreed(c)

\* The invariant, call by call.
LEMMA InvByCall == CallInv <=> CallTypes /\ \A c \in CallIds : OfCall(c)
BY DEF CallInv, OfCall, LoggedOnce

\* The two boxes of a call are each other's peers.
LEMMA PeersDiffer ==
  /\ \A n \in CallBoxes : Peer(n) \in CallBoxes /\ Peer(n) # n /\ Peer(Peer(n)) = n
  /\ \A n, k \in CallBoxes : k = n \/ k = Peer(n)
  /\ \A c \in CallIds : /\ Caller[c] \in CallBoxes /\ Callee(c) \in CallBoxes
                        /\ Callee(c) = Peer(Caller[c]) /\ Caller[c] = Peer(Callee(c))
                        /\ Caller[c] # Callee(c)
BY CallConstants DEF Peer, CallBoxes, Callee

\* The three states of a session are different.
LEMMA StatesDiffer ==
  /\ NoSession # Ringing /\ NoSession # Talking /\ Ringing # Talking
  /\ NoSession.state = "none" /\ Ringing.state = "ringing" /\ Talking.state = "active"
  /\ ~NoSession.answered /\ ~Ringing.answered /\ Talking.answered
BY DEF NoSession, Ringing, Talking

\* A step that leaves a call alone keeps what holds of it.
LEMMA OtherCalls ==
  ASSUME NEW d \in CallIds, OfCall(d), SameCall(d)
  PROVE  OfCall(d)'
<1>1. Untold(d)' /\ Picked(d)'
  BY PeersDiffer DEF OfCall, SameCall, Untold, Picked, Invites, Signal, In, Callee
<1>2. d \notin upset' => Agreed(d)'
  <2> SUFFICES ASSUME d \notin upset
               PROVE  Agreed(d)'
    BY DEF SameCall
  <2>1. \A n \in CallBoxes : In(n, d)' <=> In(n, d)
    BY DEF SameCall, In
  <2>2. \A n : EndTo(n, d)' <=> EndTo(n, d)
    BY DEF SameCall, EndTo
  <2>3. (Invites(d) \in wire)' <=> Invites(d) \in wire
    BY DEF SameCall, Invites, Signal
  <2> QED
    BY <2>1, <2>2, <2>3, PeersDiffer DEF OfCall, Agreed, Callee
<1> QED
  BY <1>1, <1>2 DEF OfCall, SameCall

\* So a step about call c is to be looked at for c.
LEMMA OneCall ==
  ASSUME CallInv, NEW c \in CallIds, CallTypes', OfCall(c)',
         \A d \in CallIds \ {c} : SameCall(d)
  PROVE  CallInv'
<1>1. \A d \in CallIds : OfCall(d)'
  BY OtherCalls, InvByCall
<1> QED
  BY <1>1 DEF CallInv, OfCall, LoggedOnce

\* A box leaves a call and logs how it ended; m is the POST that it makes or
\* the one that it has got.
LEMMA Leaves ==
  ASSUME CallInv, NEW c \in CallIds, NEW n \in CallBoxes, NEW s \in Outcomes,
         In(n, c), s = "completed" => session[n][c] = Talking,
         Becomes(n, c, NoSession), Logs(n, c, s), UNCHANGED <<used, pickedUp>>,
         wire' \subseteq Posts,
         \A m : m.call # c => (m \in wire' <=> m \in wire)
  PROVE  /\ CallTypes'
         /\ \A d \in CallIds \ {c} :
              /\ \A k \in CallBoxes : session'[k][d] = session[k][d] /\ callLog'[k][d] = callLog[k][d]
         /\ session'[n][c] = NoSession /\ session'[Peer(n)][c] = session[Peer(n)][c]
         /\ callLog'[n][c] = <<s>> /\ callLog'[Peer(n)][c] = callLog[Peer(n)][c]
<1>1. callLog[n][c] = <<>>
  BY DEF CallInv, Untold
<1>2. Append(callLog[n][c], s) = <<s>> /\ <<s>> \in Seq(Outcomes)
  BY <1>1
<1>3. CallTypes'
  BY <1>2 DEF CallTypes, CallInv, Becomes, Logs
<1> QED
  BY <1>2, <1>3, PeersDiffer DEF CallInv, CallTypes, Becomes, Logs

-----------------------------------------------------------------------------
(* The actions.                                                            *)

\* A call is placed: the callee is to be told.
LEMMA InitiateStep ==
  ASSUME CallInv, NEW c \in CallIds, Initiate(c)
  PROVE  CallInv'
<1> DEFINE n == Caller[c]
<1>1. /\ session' = [session EXCEPT ![n][c] = Ringing]
      /\ wire' = wire \cup {Invites(c)} /\ used' = used \cup {c} /\ c \notin used
      /\ UNCHANGED <<callLog, pickedUp, upset>>
  BY DEF Initiate, Becomes, Invites
<1>2. Invites(c) \in Posts /\ Invites(c).call = c /\ Invites(c).kind = "incoming-call"
  BY PeersDiffer DEF Invites, Signal, Posts
<1>3. CallTypes'
  BY <1>1, <1>2, PeersDiffer DEF CallInv, CallTypes
<1>4. \A d \in CallIds \ {c} : SameCall(d)
  BY <1>1, <1>2, PeersDiffer DEF CallInv, CallTypes, SameCall
<1>5. /\ session'[n][c] = Ringing
      /\ session'[Callee(c)][c] = NoSession
      /\ \A k \in CallBoxes : callLog[k][c] = <<>>
      /\ \A m \in wire : m.call # c
  BY <1>1, PeersDiffer DEF CallInv, CallTypes, Untold, In
<1>6. Untold(c)' /\ Picked(c)'
  BY <1>1, <1>2, <1>5, PeersDiffer, StatesDiffer DEF Untold, Picked, In, Invites, Callee
<1>7. Agreed(c)'
  <2>1. \A k : ~EndTo(k, c)'
    BY <1>1, <1>2, <1>5 DEF EndTo
  <2>2. In(n, c)' /\ Invites(c) \in wire'
    BY <1>1, <1>5, StatesDiffer DEF In
  <2> QED
    BY <2>1, <2>2 DEF Agreed, Invites, Callee
<1>8. \A k \in CallBoxes : Len(callLog'[k][c]) <= 1
  BY <1>1, <1>5
<1> QED
  BY <1>3, <1>4, <1>6, <1>7, <1>8, OneCall DEF OfCall

\* The callee could not be told.
LEMMA PlacingFailsStep ==
  ASSUME CallInv, NEW c \in CallIds, PlacingFails(c)
  PROVE  CallInv'
<1> DEFINE n == Caller[c]
<1>1. /\ session' = [session EXCEPT ![n][c] = NoSession]
      /\ wire' \in {wire, wire \ {Invites(c)}} /\ c \in upset' /\ upset \subseteq upset'
      /\ UNCHANGED <<used, callLog, pickedUp>>
  BY DEF PlacingFails, Becomes, Invites
<1>2. Invites(c).call = c /\ Invites(c)' = Invites(c) /\ Callee(c)' = Callee(c)
  BY DEF Invites, Signal, Callee
<1>3. CallTypes'
  BY <1>1, PeersDiffer DEF CallInv, CallTypes
<1>4. \A d \in CallIds \ {c} : SameCall(d)
  BY <1>1, <1>2, PeersDiffer DEF CallInv, CallTypes, SameCall
<1>5. /\ session'[n][c] = NoSession
      /\ \A k \in CallBoxes : k # n => session'[k][c] = session[k][c]
  BY <1>1, PeersDiffer DEF CallInv, CallTypes
<1>6. Untold(c)' /\ Picked(c)'
  BY <1>1, <1>2, <1>5, PeersDiffer, StatesDiffer DEF CallInv, Untold, Picked, In
<1>7. \A k \in CallBoxes : Len(callLog'[k][c]) <= 1
  BY <1>1 DEF CallInv, LoggedOnce
<1> QED
  BY <1>1, <1>3, <1>4, <1>6, <1>7, OneCall DEF OfCall

\* The callee answers.
LEMMA AnswerCallStep ==
  ASSUME CallInv, NEW c \in CallIds, AnswerCall(c)
  PROVE  CallInv'
<1> DEFINE n == Callee(c)
           a == Signal(n, c, "answer")
<1>1. /\ session' = [session EXCEPT ![n][c] = Talking]
      /\ wire' = wire \cup {a} /\ pickedUp' = pickedUp \cup {c}
      /\ UNCHANGED <<used, callLog, upset>>
  BY DEF AnswerCall, Becomes
<1>2. a \in Posts /\ a.call = c /\ a.kind = "answer"
  BY PeersDiffer DEF Signal, Posts
<1>3. Invites(c).kind = "incoming-call" /\ Invites(c)' = Invites(c) /\ Callee(c)' = Callee(c)
  BY DEF Invites, Signal, Callee
<1>4. CallTypes'
  BY <1>1, <1>2, PeersDiffer DEF CallInv, CallTypes
<1>5. \A d \in CallIds \ {c} : SameCall(d)
  BY <1>1, <1>2, PeersDiffer DEF CallInv, CallTypes, SameCall
<1>6. In(n, c)
  BY StatesDiffer DEF AnswerCall, In
<1>7. \A k \in CallBoxes : In(k, c)' <=> In(k, c)
  BY <1>1, <1>6, PeersDiffer, StatesDiffer DEF CallInv, CallTypes, In
<1>8. Invites(c) \notin wire'
  BY <1>1, <1>2, <1>3, <1>6 DEF CallInv, Untold
<1>9. Untold(c)'
  BY <1>1, <1>2, <1>3, <1>6, <1>7, <1>8, PeersDiffer DEF CallInv, Untold
<1>10. Picked(c)'
  BY <1>1 DEF Picked
<1>11. c \notin upset' => Agreed(c)'
  <2>1. \A k : EndTo(k, c)' <=> EndTo(k, c)
    BY <1>1, <1>2 DEF EndTo
  <2> QED
    BY <1>1, <1>3, <1>7, <1>8, <2>1, PeersDiffer DEF CallInv, Agreed
<1>12. \A k \in CallBoxes : Len(callLog'[k][c]) <= 1
  BY <1>1 DEF CallInv, LoggedOnce
<1> QED
  BY <1>4, <1>5, <1>9, <1>10, <1>11, <1>12, OneCall DEF OfCall

\* RejectCall and Hangup: the box leaves and tells the other.
LEMMA LeavesAndTells ==
  ASSUME CallInv, NEW c \in CallIds, NEW n \in CallBoxes, NEW s \in Outcomes,
         NEW kind \in {"reject", "hangup"},
         In(n, c), s = "completed" => session[n][c] = Talking,
         Becomes(n, c, NoSession), Logs(n, c, s),
         wire' = wire \cup {Signal(n, c, kind)}, UNCHANGED <<used, pickedUp, upset>>
  PROVE  CallInv'
<1> DEFINE e == Signal(n, c, kind)
<1>1. e \in Posts /\ e.call = c /\ e.kind = kind /\ e.to = Peer(n)
  BY PeersDiffer DEF Signal, Posts
<1>2. wire' \subseteq Posts /\ \A m : m.call # c => (m \in wire' <=> m \in wire)
  BY <1>1 DEF CallInv, CallTypes
<1>3. /\ CallTypes'
      /\ \A d \in CallIds \ {c} :
              /\ \A k \in CallBoxes : session'[k][d] = session[k][d] /\ callLog'[k][d] = callLog[k][d]
      /\ session'[n][c] = NoSession /\ session'[Peer(n)][c] = session[Peer(n)][c]
      /\ callLog'[n][c] = <<s>> /\ callLog'[Peer(n)][c] = callLog[Peer(n)][c]
  BY <1>2, Leaves
<1>4. \A d \in CallIds \ {c} : SameCall(d)
  BY <1>2, <1>3 DEF SameCall
<1>5. Invites(c).kind = "incoming-call" /\ Invites(c)' = Invites(c) /\ Callee(c)' = Callee(c)
  BY DEF Invites, Signal, Callee
<1>6. (Invites(c) \in wire' <=> Invites(c) \in wire) /\ (Invites(c) \in wire => n = Caller[c])
  BY <1>1, <1>5, PeersDiffer DEF CallInv, Untold
<1>7. ~In(n, c)' /\ (In(Peer(n), c)' <=> In(Peer(n), c))
  BY <1>3 DEF In
<1>8. Untold(c)'
  BY <1>1, <1>3, <1>5, <1>6, <1>7, PeersDiffer DEF CallInv, Untold
<1>9. Picked(c)'
  BY <1>1, <1>3, PeersDiffer, StatesDiffer DEF CallInv, Picked
<1>10. c \notin upset' => Agreed(c)'
  <2>1. EndTo(Peer(n), c)' /\ (EndTo(n, c)' <=> EndTo(n, c))
    BY <1>1, PeersDiffer DEF EndTo
  <2> QED
    BY <1>5, <1>6, <1>7, <2>1, PeersDiffer DEF CallInv, Agreed
<1>11. \A k \in CallBoxes : Len(callLog'[k][c]) <= 1
  <2>1. Len(callLog'[n][c]) <= 1
    BY <1>3
  <2>2. Len(callLog'[Peer(n)][c]) <= 1
    BY <1>3, PeersDiffer DEF CallInv, LoggedOnce
  <2> QED
    BY <2>1, <2>2, PeersDiffer
<1> QED
  BY <1>3, <1>4, <1>8, <1>9, <1>10, <1>11, OneCall DEF OfCall

\* What is logged is one of the outcomes.
LEMMA OutcomeSound ==
  ASSUME CallInv, NEW c \in CallIds, NEW n \in CallBoxes
  PROVE  /\ HangupOutcome(n, c) \in Outcomes
         /\ HangupOutcome(n, c) = "completed" => session[n][c] = Talking
BY StatesDiffer DEF CallInv, CallTypes, HangupOutcome, Outcomes

\* A reject by the callee, a hang-up by either side.
LEMMA LeaveSteps ==
  ASSUME CallInv, NEW c \in CallIds,
         RejectCall(c) \/ \E n \in CallBoxes : Hangup(n, c)
  PROVE  CallInv'
<1>1. CASE RejectCall(c)
  <2>1. Callee(c) \in CallBoxes /\ "rejected" \in Outcomes
    BY PeersDiffer DEF Outcomes
  <2> QED
    BY <1>1, <2>1, LeavesAndTells DEF RejectCall
<1>2. ASSUME NEW n \in CallBoxes, Hangup(n, c)
      PROVE  CallInv'
  BY <1>2, LeavesAndTells, OutcomeSound DEF Hangup
<1> QED
  BY <1>1, <1>2

\* A POST arrives: the box is told of the call, told that it is answered, or told
\* to leave.  A post it leaves by may have overtaken the one that invites it.
LEMMA InboundStep ==
  ASSUME CallInv, NEW m \in wire, Inbound(m)
  PROVE  CallInv'
<1> DEFINE n == m.to
           c == m.call
<1>1. n \in CallBoxes /\ c \in CallIds /\ m \in Posts
  BY DEF CallInv, CallTypes, Posts
<1>2. wire' = wire \ {m} /\ UNCHANGED <<used, pickedUp>> /\ upset \subseteq upset'
  BY DEF Inbound, InboundIncoming, InboundAnswer, InboundEnd
<1>3. Invites(c)' = Invites(c) /\ Callee(c)' = Callee(c) /\ Invites(c).kind = "incoming-call"
      /\ Invites(c).to = Callee(c) /\ Invites(c).call = c
  BY DEF Invites, Signal, Callee
<1>4. Untold(c) /\ Picked(c) /\ (c \notin upset => Agreed(c))
  BY <1>1 DEF CallInv
<1>5. CASE InboundIncoming(m)
  <2>1. m = Invites(c) /\ n = Callee(c) /\ Invites(c) \in wire /\ ~In(n, c)
    BY <1>3, <1>4, <1>5 DEF InboundIncoming, Untold
  <2>2. session' = [session EXCEPT ![n][c] = Ringing] /\ UNCHANGED <<callLog, upset>>
    BY <1>1, <1>5, <2>1 DEF InboundIncoming, In, CallInv, CallTypes
  <2>3. CallTypes' /\ \A d \in CallIds \ {c} : SameCall(d)
    BY <1>1, <1>2, <2>2 DEF CallInv, CallTypes, SameCall
  <2>4. session'[n][c] = Ringing /\ session'[Peer(n)][c] = session[Peer(n)][c]
    BY <1>1, <2>2, PeersDiffer DEF CallInv, CallTypes
  <2>5. In(n, c)' /\ (In(Peer(n), c)' <=> In(Peer(n), c))
    BY <2>4, StatesDiffer DEF In
  <2>6. Untold(c)'
    BY <1>1, <1>2, <1>3, <1>4, <2>1, <2>2, <2>5, PeersDiffer DEF Untold
  <2>7. Picked(c)'
    BY <1>1, <1>2, <1>4, <2>2, <2>4, PeersDiffer, StatesDiffer DEF Picked
  <2>8. c \notin upset' => Agreed(c)'
    <3>1. \A k : EndTo(k, c)' <=> EndTo(k, c)
      BY <1>2, <1>5 DEF EndTo, InboundIncoming
    <3> QED
      BY <1>1, <1>2, <1>3, <1>4, <2>1, <2>2, <2>5, <3>1, PeersDiffer DEF Agreed
  <2>9. \A k \in CallBoxes : Len(callLog'[k][c]) <= 1
    BY <1>1, <2>2 DEF CallInv, LoggedOnce
  <2> QED
    BY <1>1, <2>3, <2>6, <2>7, <2>8, <2>9, OneCall DEF OfCall
<1>6. CASE InboundAnswer(m)
  <2>1. session' = [session EXCEPT ![n][c] = IF @ = NoSession THEN @ ELSE Talking]
        /\ UNCHANGED <<callLog, upset>> /\ m.kind = "answer"
    BY <1>6 DEF InboundAnswer
  <2>2. CallTypes' /\ \A d \in CallIds \ {c} : SameCall(d)
    BY <1>1, <1>2, <2>1 DEF CallInv, CallTypes, SameCall
  <2>3. /\ session'[n][c] = NoSession \/ session'[n][c] = Talking
        /\ session'[Peer(n)][c] = session[Peer(n)][c]
        /\ In(n, c)' <=> In(n, c)
    BY <1>1, <2>1, PeersDiffer, StatesDiffer DEF CallInv, CallTypes, In
  <2>4. \A k \in CallBoxes : In(k, c)' <=> In(k, c)
    BY <1>1, <2>3, PeersDiffer DEF In
  <2>5. Untold(c)'
    BY <1>1, <1>2, <1>3, <1>4, <2>1, <2>4, PeersDiffer DEF Untold
  <2>6. Picked(c)'
    BY <1>1, <1>2, <1>4, <2>1, <2>3, PeersDiffer DEF Picked
  <2>7. c \notin upset' => Agreed(c)'
    <3>1. \A k : EndTo(k, c)' <=> EndTo(k, c)
      BY <1>2, <2>1 DEF EndTo
    <3>2. Invites(c) \in wire' <=> Invites(c) \in wire
      BY <1>2, <1>3, <2>1
    <3> QED
      BY <1>1, <1>3, <1>4, <2>1, <2>4, <3>1, <3>2, PeersDiffer DEF Agreed
  <2>8. \A k \in CallBoxes : Len(callLog'[k][c]) <= 1
    BY <1>1, <2>1 DEF CallInv, LoggedOnce
  <2> QED
    BY <1>1, <2>2, <2>5, <2>6, <2>7, <2>8, OneCall DEF OfCall
<1>7. CASE InboundEnd(m)
  <2>0. m.kind \in {"reject", "hangup"} /\ Becomes(n, c, NoSession)
    BY <1>7 DEF InboundEnd
  <2>1. /\ CallTypes'
        /\ \A d \in CallIds \ {c} :
             \A k \in CallBoxes : session'[k][d] = session[k][d] /\ callLog'[k][d] = callLog[k][d]
        /\ session'[n][c] = NoSession /\ session'[Peer(n)][c] = session[Peer(n)][c]
        /\ callLog'[Peer(n)][c] = callLog[Peer(n)][c]
        /\ \/ callLog'[n][c] = callLog[n][c]
           \/ In(n, c) /\ \E s \in Outcomes : /\ callLog'[n][c] = <<s>>
                                              /\ s = "completed" => session[n][c] = Talking
    <3>1. CASE In(n, c)
      <4> DEFINE s == IF m.kind = "reject" THEN "rejected" ELSE HangupOutcome(n, c)
      <4>1. s \in Outcomes /\ (s = "completed" => session[n][c] = Talking)
        BY <1>1, OutcomeSound DEF Outcomes
      <4>2. Logs(n, c, s)
        BY <1>7, <3>1 DEF InboundEnd, EndsSession
      <4>3. wire' \subseteq Posts /\ \A q : q.call # c => (q \in wire' <=> q \in wire)
        BY <1>2 DEF CallInv, CallTypes
      <4> HIDE DEF s
      <4> QED
        BY <1>1, <1>2, <2>0, <3>1, <4>1, <4>2, <4>3, Leaves
    <3>2. CASE ~In(n, c)
      <4>1. callLog' = callLog
        BY <1>7, <3>2 DEF InboundEnd, EndsSession
      <4> QED
        BY <1>1, <1>2, <2>0, <4>1, PeersDiffer DEF CallInv, CallTypes, Becomes
    <3> QED
      BY <3>1, <3>2
  <2>2. upset' = upset \/ upset' = upset \cup {c}
    BY <1>7 DEF InboundEnd
  <2>3. \A d \in CallIds \ {c} : SameCall(d)
    BY <1>2, <2>1, <2>2 DEF SameCall
  <2>4. ~In(n, c)' /\ (In(Peer(n), c)' <=> In(Peer(n), c))
    BY <2>1 DEF In
  <2>5. Invites(c) \in wire' <=> Invites(c) \in wire
    BY <1>2, <1>3, <2>0
  <2>6. Untold(c)'
    BY <1>1, <1>2, <1>3, <1>4, <2>1, <2>4, <2>5, PeersDiffer DEF Untold
  <2>7. Picked(c)'
    BY <1>1, <1>2, <1>4, <2>1, PeersDiffer, StatesDiffer DEF Picked
  <2>8. c \notin upset' => Agreed(c)'
    <3> SUFFICES ASSUME c \notin upset'
                 PROVE  Agreed(c)'
      OBVIOUS
    <3>1. Agreed(c) /\ EndTo(n, c)
      BY <1>2, <1>4, <2>0 DEF EndTo
    <3>2. Invites(c) \notin wire
      <4>1. CASE n = Caller[c]
        BY <3>1, <4>1 DEF Agreed
      <4>2. CASE n = Callee(c)
        BY <1>1, <1>7, <4>2, PeersDiffer DEF InboundEnd, Invites
      <4> QED
        BY <1>1, <4>1, <4>2, PeersDiffer
    <3>3. \A k \in CallBoxes : In(k, c)' => FALSE
      BY <1>1, <2>4, <3>1, PeersDiffer DEF Agreed
    <3> QED
      BY <1>1, <2>5, <3>2, <3>3, <1>3, PeersDiffer DEF Agreed
  <2>9. \A k \in CallBoxes : Len(callLog'[k][c]) <= 1
    <3>1. Len(callLog'[n][c]) <= 1
      <4>1. CASE callLog'[n][c] = callLog[n][c]
        BY <1>1, <4>1 DEF CallInv, LoggedOnce
      <4>2. ASSUME NEW s \in Outcomes, callLog'[n][c] = <<s>>
            PROVE  Len(callLog'[n][c]) <= 1
        BY <4>2
      <4> QED
        BY <2>1, <4>1, <4>2
    <3>2. Len(callLog'[Peer(n)][c]) <= 1
      BY <1>1, <2>1, PeersDiffer DEF CallInv, LoggedOnce
    <3> QED
      BY <1>1, <3>1, <3>2, PeersDiffer
  <2> QED
    BY <1>1, <2>1, <2>3, <2>6, <2>7, <2>8, <2>9, OneCall DEF OfCall
<1> QED
  BY <1>5, <1>6, <1>7 DEF Inbound

\* A post is lost.
LEMMA CallLostStep ==
  ASSUME CallInv, NEW m \in wire, CallLost(m)
  PROVE  CallInv'
<1> DEFINE c == m.call
<1>1. c \in CallIds
  BY DEF CallInv, CallTypes, Posts
<1>2. /\ wire' = wire \ {m} /\ upset' = upset \cup {c} /\ m.kind # "incoming-call"
      /\ UNCHANGED <<session, used, callLog, pickedUp>>
  BY DEF CallLost
<1>3. Invites(c)' = Invites(c) /\ Callee(c)' = Callee(c) /\ Invites(c).kind = "incoming-call"
  BY DEF Invites, Signal, Callee
<1>4. CallTypes' /\ \A d \in CallIds \ {c} : SameCall(d)
  BY <1>2 DEF CallInv, CallTypes, SameCall
<1>5. Untold(c)' /\ Picked(c)'
  BY <1>1, <1>2, <1>3 DEF CallInv, Untold, Picked, In
<1>6. \A k \in CallBoxes : Len(callLog'[k][c]) <= 1
  BY <1>1, <1>2 DEF CallInv, LoggedOnce
<1> QED
  BY <1>1, <1>2, <1>4, <1>5, <1>6, OneCall DEF OfCall

\* A box restarts, and its sessions are gone.
LEMMA CallRestartStep ==
  ASSUME CallInv, NEW n \in CallBoxes, CallRestart(n)
  PROVE  CallInv'
<1>1. /\ session' = [session EXCEPT ![n] = [c \in CallIds |-> NoSession]]
      /\ upset' = upset \cup {c \in CallIds : In(n, c)}
      /\ UNCHANGED <<wire, used, callLog, pickedUp>>
  BY DEF CallRestart
<1>2. CallTypes'
  BY <1>1 DEF CallInv, CallTypes
<1>3. ASSUME NEW c \in CallIds
      PROVE  OfCall(c)'
  <2>1. CASE In(n, c)
    <3>1. \A k \in CallBoxes : session'[k][c] = session[k][c] \/ session'[k][c] = NoSession
      BY <1>1 DEF CallInv, CallTypes
    <3>2. Invites(c)' = Invites(c) /\ Callee(c)' = Callee(c)
      BY DEF Invites, Signal, Callee
    <3>3. Untold(c)' /\ Picked(c)'
      BY <1>1, <3>1, <3>2, PeersDiffer, StatesDiffer DEF CallInv, Untold, Picked, In
    <3>4. c \in upset'
      BY <1>1, <1>3, <2>1
    <3> QED
      BY <1>1, <3>3, <3>4, <1>3 DEF CallInv, LoggedOnce, OfCall
  <2>2. CASE ~In(n, c)
    <3>1. SameCall(c)
      BY <1>1, <2>2, <1>3 DEF SameCall, In, CallInv, CallTypes
    <3> QED
      BY <3>1, <1>3, OtherCalls, InvByCall
  <2> QED
    BY <2>1, <2>2
<1> QED
  BY <1>2, <1>3 DEF CallInv, OfCall, LoggedOnce

\* Every step.
LEMMA CallStep == CallInv /\ [CallNext]_callVars => CallInv'
<1> SUFFICES ASSUME CallInv, [CallNext]_callVars
             PROVE  CallInv'
  OBVIOUS
<1>1. ASSUME UNCHANGED <<session, wire, used, callLog, pickedUp, upset>>
      PROVE  CallInv'
  <2>1. CallTypes' /\ \A d \in CallIds : SameCall(d)
    BY <1>1 DEF CallInv, CallTypes, SameCall
  <2>2. \A d \in CallIds : OfCall(d)'
    BY <2>1, OtherCalls, InvByCall
  <2> QED
    BY <2>1, <2>2 DEF CallInv, OfCall, LoggedOnce
<1>2. ASSUME NEW c \in CallIds, Placed(c)
      PROVE  CallInv'
  BY <1>1, <1>2 DEF Placed
<1> QED
  BY <1>1, <1>2, InitiateStep, PlacingFailsStep, AnswerCallStep, LeaveSteps, InboundStep,
     CallLostStep, CallRestartStep DEF CallNext, callVars

\* No call yet.
LEMMA CallStart == CallInit => CallInv
<1> SUFFICES ASSUME CallInit
             PROVE  CallInv
  OBVIOUS
<1>1. CallTypes
  BY DEF CallInit, CallTypes, Posts
<1>2. \A n \in CallBoxes, c \in CallIds : ~In(n, c) /\ callLog[n][c] = <<>> /\ session[n][c] = NoSession
  BY DEF CallInit, In
<1>3. \A c \in CallIds : Untold(c) /\ Picked(c)
  BY <1>2, PeersDiffer, StatesDiffer DEF CallInit, Untold, Picked
<1>4. \A c \in CallIds : Agreed(c)
  BY <1>2, PeersDiffer DEF CallInit, Agreed, EndTo
<1> QED
  BY <1>1, <1>2, <1>3, <1>4 DEF CallInv, LoggedOnce

\* A side alone in a call is told of it, or about to tell the other.
LEMMA CallInvSidesAgree == CallInv => SidesAgree
<1> SUFFICES ASSUME CallInv, NEW c \in CallIds, NEW n \in CallBoxes,
                    In(n, c), ~In(Peer(n), c), c \notin upset
             PROVE  \E m \in wire : m.call = c /\
                      \/ m.to = Peer(n) /\ m.kind = "incoming-call"
                      \/ m.to = n /\ m.kind \in {"reject", "hangup"}
  BY DEF SidesAgree
<1>1. Agreed(c) /\ Untold(c)
  BY DEF CallInv
<1>2. CASE EndTo(n, c)
  BY <1>2 DEF EndTo
<1>3. CASE ~EndTo(n, c)
  <2>1. Invites(c) \in wire
    BY <1>1, <1>3 DEF Agreed
  <2>2. n = Caller[c]
    BY <1>1, <2>1, PeersDiffer DEF Untold
  <2>3. Invites(c).call = c /\ Invites(c).to = Peer(n) /\ Invites(c).kind = "incoming-call"
    BY <2>2 DEF Invites, Signal
  <2> QED
    BY <2>1, <2>3
<1> QED
  BY <1>2, <1>3

\* A side alone in a call has news of it on the way (calls.go: inbound signals,
\* Reject, Hangup), for any number of calls and either box calling, unless a post of
\* that call was lost or overtaken or a box restarted.
THEOREM SidesStayAgreed == CallSpec => []SidesAgree
BY CallStart, CallStep, CallInvSidesAgree, PTL DEF CallSpec

\* Each side logs a call at most once, and as completed only when it was picked up
\* (calls.go, the call log), whatever crosses, is lost or restarts.
THEOREM CallsLoggedOnce == CallSpec => [](LoggedOnce /\ CompletedWasPicked)
<1>1. CallInv => LoggedOnce /\ CompletedWasPicked
  BY DEF CallInv, Picked, CompletedWasPicked
<1> QED
  BY <1>1, CallStart, CallStep, PTL DEF CallSpec

-----------------------------------------------------------------------------
\* A Start that is under way knows its owner; the slots name sessions or the sentinel.
GamingInv ==
    /\ byOwner \in [Owners -> Starts \cup {"none", "reserving"}]
    /\ bySess \in [Starts -> Owners \cup {"none"}]
    /\ start \in [Starts -> [pc : {"idle", "launch", "commit", "release", "done"},
                             owner : Owners \cup {"none"}]]
    /\ \A c \in Starts : start[c].pc # "idle" => start[c].owner \in Owners
    /\ ReservationHeld

\* Every step of a Start, a Stop or a session that ends.
LEMMA GamingStep == GamingInv /\ [GamingNext]_gamingVars => GamingInv'
<1> SUFFICES ASSUME GamingInv, [GamingNext]_gamingVars
             PROVE  GamingInv'
  OBVIOUS
<1> USE DEF GamingInv, ReservationHeld
<1>1. ASSUME NEW c \in Starts, NEW o \in Owners, StartReserve(c, o)
      PROVE  GamingInv'
  BY <1>1 DEF StartReserve
<1>2. ASSUME NEW c \in Starts, StartLaunch(c)
      PROVE  GamingInv'
  BY <1>2 DEF StartLaunch
<1>3. ASSUME NEW c \in Starts, StartCommit(c)
      PROVE  GamingInv'
  BY <1>3, GamingConstants DEF StartCommit
<1>4. ASSUME NEW c \in Starts, StartRelease(c)
      PROVE  GamingInv'
  BY <1>4 DEF StartRelease, Unreserved
<1>5. ASSUME NEW c \in Starts, GamingStop(c)
      PROVE  GamingInv'
  <2>1. CASE bySess[c] = "none"
    BY <1>5, <2>1 DEF GamingStop
  <2>2. CASE bySess[c] # "none"
    <3>1. bySess[c] \in Owners
      BY <2>2
    <3> QED
      BY <1>5, <2>2, <3>1 DEF GamingStop
  <2> QED
    BY <2>1, <2>2
<1>6. ASSUME UNCHANGED <<byOwner, bySess, start>>
      PROVE  GamingInv'
  BY <1>6
<1> QED
  BY <1>1, <1>2, <1>3, <1>4, <1>5, <1>6
     DEF GamingNext, gamingVars, GamingStopped, SessionEnds

\* A slot that is "reserving" has a Start under way that will commit or release it
\* (gaming, Start): no failed launch locks its owner out, for any number of owners
\* and Starts and however Stops and exits fall between.
THEOREM NoLostReservation == GamingSpec => []ReservationHeld
<1>1. GamingInit => GamingInv
  BY DEF GamingInit, GamingInv, ReservationHeld
<1>2. GamingInv => ReservationHeld
  BY DEF GamingInv
<1> QED
  BY <1>1, <1>2, GamingStep, PTL DEF GamingSpec
-----------------------------------------------------------------------------
(* Messages                                                                *)

\* What the file of a queued message holds.
Items == [server : {"old", "new"}, due : BOOLEAN]

\* A worker beyond the claim has read an item; it removes the file of a message
\* only when the peer has stored it.  UpdatePeerServer writes what it has read.
LetterShape ==
  /\ sending \in [Letters -> {"no", "enqueue", "delivered", "queued", "lost"}]
  /\ path \in [Letters -> Items \cup {NoItem}]
  /\ pass \in [Workers -> {Asleep} \cup
                 [m : Letters, item : Items, pc : {"claimed", "remove", "restore"}]]
  /\ \A w \in Workers : pass[w].pc = "remove" => pass[w].m \in inbox
  /\ update \in {Asleep} \cup [m : Letters, item : Items, pc : {"write"}]

LetterInv == LetterShape /\ QueuedIsKept

\* An item is not the absence of one.
LEMMA ItemsAreThere ==
  /\ \A x \in Items : x # NoItem
  /\ \A server \in {"old", "new"} : Item(server) \in Items
<1>1. \A x \in Items : x.server \in {"old", "new"}
  BY DEF Items
<1>2. NoItem.server = ""
  BY Zenon DEF NoItem
<1>3. "" \notin {"old", "new"}
  BY Zenon
<1>4. \A x \in Items : x # NoItem
  BY <1>1, <1>2, <1>3, Zenon
<1>5. \A server \in {"old", "new"} : Item(server) \in Items
  BY DEF Items, Item
<1> QED
  BY <1>4, <1>5

\* A worker that sleeps has no message.
LEMMA AsleepIsIdle ==
  Asleep.pc = "idle" /\ Asleep.m \notin Letters
<1>1. Asleep.pc = "idle"
  BY Zenon DEF Asleep
<1>2. Asleep.m = ""
  BY Zenon DEF Asleep
<1> QED
  BY <1>1, <1>2, LetterConstants, Zenon

\* Nobody writes a message at first.
LEMMA LetterBegins ==
  ASSUME LetterInit
  PROVE  LetterInv
BY AsleepIsIdle DEF LetterInit, LetterInv, LetterShape, QueuedIsKept

\* A POST takes nothing out of the inbox.
LEMMA PostKeeps ==
  ASSUME NEW m, NEW server, NEW ok \in BOOLEAN, Post(m, server, ok)
  PROVE  inbox \subseteq inbox' /\ (ok => m \in inbox')
BY DEF Post

\* handleSend: what could not be delivered is written before it is called queued.
LEMMA LetterSent ==
  ASSUME LetterInv, NEW m \in Letters, Send(m) \/ Enqueue(m)
  PROVE  LetterInv'
<1> USE DEF LetterInv
<1>1. CASE Send(m)
  <2>1. inbox \subseteq inbox'
    BY <1>1, PostKeeps DEF Send
  <2>2. \E x \in {"delivered", "enqueue"} : sending' = [sending EXCEPT ![m] = x]
    BY <1>1 DEF Send
  <2>3. LetterShape'
    BY <1>1, <2>1, <2>2 DEF Send, LetterShape
  <2>4. QueuedIsKept'
    BY <1>1, <2>1, <2>2 DEF Send, LetterShape, QueuedIsKept, AtPath, Claimed
  <2> QED
    BY <2>3, <2>4
<1>2. CASE Enqueue(m)
  <2>1. /\ sending' = [sending EXCEPT ![m] = "queued"]
        /\ UNCHANGED <<pass, strand, update, inbox>>
        /\ path' \in [Letters -> Items \cup {NoItem}]
        /\ path'[m] # NoItem /\ \A n \in Letters \ {m} : path'[n] = path[n]
    BY <1>2, ItemsAreThere DEF Enqueue, LetterShape, AtPath
  <2>2. LetterShape'
    BY <2>1 DEF LetterShape
  <2>3. QueuedIsKept'
    BY <2>1 DEF LetterShape, QueuedIsKept, AtPath, Claimed
  <2> QED
    BY <2>2, <2>3
<1> QED
  BY <1>1, <1>2

\* The file falls due, is confirmed by the peer, or its address is looked at.
LEMMA LetterTouched ==
  ASSUME LetterInv, NEW m \in Letters, FallsDue(m) \/ Acknowledge(m) \/ UpdateRead(m)
  PROVE  LetterInv'
<1> USE DEF LetterInv
<1>1. CASE FallsDue(m)
  <2>1. /\ UNCHANGED <<sending, pass, strand, update, inbox>>
        /\ path' \in [Letters -> Items \cup {NoItem}]
        /\ \A n \in Letters : path[n] # NoItem => path'[n] # NoItem
    <3>1. path[m] \in Items /\ UNCHANGED <<sending, pass, strand, update, inbox>>
      BY <1>1 DEF FallsDue, LetterShape, AtPath
    <3>2. [path[m] EXCEPT !.due = TRUE] \in Items
      BY <3>1 DEF Items
    <3>3. path' = [path EXCEPT ![m] = [path[m] EXCEPT !.due = TRUE]]
      BY <1>1 DEF FallsDue
    <3> QED
      BY <3>1, <3>2, <3>3, ItemsAreThere DEF LetterShape
  <2> QED
    BY <2>1 DEF LetterShape, QueuedIsKept, AtPath, Claimed
<1>2. CASE Acknowledge(m)
  BY <1>2 DEF Acknowledge, LetterShape, QueuedIsKept, AtPath, Claimed
<1>3. CASE UpdateRead(m)
  <2>1. update' \in [m : Letters, item : Items, pc : {"write"}]
    BY <1>3 DEF UpdateRead, AtPath, LetterShape, Items
  <2> QED
    BY <1>3, <2>1 DEF UpdateRead, LetterShape, QueuedIsKept, AtPath, Claimed
<1> QED
  BY <1>1, <1>2, <1>3

\* A worker: the message is its own until it is stored by the peer or put back.
LEMMA LetterPass ==
  ASSUME LetterInv, NEW w \in Workers,
         (\E m \in Letters : Claim(w, m)) \/ NotDue(w) \/ Deliver(w) \/ Remove(w) \/ Restore(w)
  PROVE  LetterInv'
<1> USE DEF LetterInv
<1>0. \A v \in Workers : pass[v].pc # "idle" =>
        pass[v] \in [m : Letters, item : Items, pc : {"claimed", "remove", "restore"}]
  BY AsleepIsIdle DEF LetterShape
<1>1. ASSUME NEW m \in Letters, Claim(w, m)
      PROVE  LetterInv'
  <2>1. /\ path[m] \in Items /\ path' = [path EXCEPT ![m] = NoItem]
        /\ pass' = [pass EXCEPT ![w] = [m |-> m, item |-> path[m], pc |-> "claimed"]]
        /\ pass[w] = Asleep
        /\ UNCHANGED <<sending, strand, update, inbox>>
    BY <1>1 DEF Claim, LetterShape, AtPath
  <2>2. LetterShape'
    BY <2>1 DEF LetterShape
  <2>3. pass'[w].m = m /\ \A v \in Workers : pass[v].m \in Letters => pass'[v] = pass[v]
    BY <2>1, AsleepIsIdle DEF LetterShape
  <2>4. QueuedIsKept'
    BY <2>1, <2>3 DEF LetterShape, QueuedIsKept, AtPath, Claimed
  <2> QED
    BY <2>2, <2>4
<1>2. ASSUME NEW x \in Items, pass[w].pc # "idle",
             path' = [path EXCEPT ![pass[w].m] = x],
             pass' = [pass EXCEPT ![w] = Asleep],
             UNCHANGED <<sending, strand, update, inbox>>
      PROVE  LetterInv'
  <2>1. LetterShape'
    BY <1>0, <1>2, AsleepIsIdle DEF LetterShape
  <2>2. \A n \in Letters : AtPath(n) => path'[n] # NoItem
    BY <1>2, ItemsAreThere DEF LetterShape, AtPath
  <2>3. \A n \in Letters : Claimed(n) => Claimed(n)' \/ path'[n] # NoItem
    BY <1>0, <1>2, ItemsAreThere DEF LetterShape, Claimed
  <2> QED
    BY <1>2, <2>1, <2>2, <2>3 DEF QueuedIsKept, AtPath
<1>3. CASE NotDue(w)
  BY <1>0, <1>2, <1>3 DEF NotDue
<1>4. CASE Restore(w)
  <2>1. Item(pass[w].item.server) \in Items
    BY <1>0, <1>4, ItemsAreThere DEF Restore, Items
  <2> QED
    BY <1>2, <1>4, <2>1 DEF Restore, Restored
<1>5. CASE Deliver(w)
  <2>1. PICK ok \in BOOLEAN :
          /\ Post(pass[w].m, pass[w].item.server, ok)
          /\ pass' = [pass EXCEPT ![w].pc = IF ok THEN "remove" ELSE "restore"]
    BY <1>5 DEF Deliver
  <2>2. inbox \subseteq inbox' /\ (ok => pass[w].m \in inbox')
    BY <2>1, PostKeeps
  <2>3. /\ pass[w] \in [m : Letters, item : Items, pc : {"claimed"}]
        /\ UNCHANGED <<sending, path, strand, update>>
    BY <1>0, <1>5 DEF Deliver
  <2>4. /\ pass'[w] \in [m : {pass[w].m}, item : Items, pc : {IF ok THEN "remove" ELSE "restore"}]
        /\ \A v \in Workers \ {w} : pass'[v] = pass[v]
        /\ pass' = [v \in Workers |-> pass'[v]]
    BY <2>1, <2>3 DEF LetterShape
  <2>5. LetterShape'
    BY <2>2, <2>3, <2>4 DEF LetterShape
  <2>6. \A n \in Letters : Claimed(n) => Claimed(n)'
    BY <2>4 DEF Claimed
  <2> QED
    BY <2>2, <2>3, <2>5, <2>6 DEF QueuedIsKept, AtPath
<1>6. CASE Remove(w)
  <2>1. LetterShape'
    BY <1>6, AsleepIsIdle DEF Remove, LetterShape
  <2>2. \A n \in Letters : Claimed(n) => Claimed(n)' \/ n \in inbox
    BY <1>6 DEF Remove, LetterShape, Claimed
  <2> QED
    BY <1>6, <2>1, <2>2 DEF Remove, QueuedIsKept, AtPath
<1> QED
  BY <1>1, <1>3, <1>4, <1>5, <1>6

\* The peer moves, UpdatePeerServer writes the item back, the process dies.
LEMMA LetterOthers ==
  ASSUME LetterInv, PeerMoves \/ UpdateWrite \/ LetterCrash \/ UNCHANGED letterVars
  PROVE  LetterInv'
<1> USE DEF LetterInv
<1>1. CASE PeerMoves \/ UNCHANGED letterVars
  BY <1>1 DEF PeerMoves, letterVars, LetterShape, QueuedIsKept, AtPath, Claimed
<1>2. CASE UpdateWrite
  <2>1. update \in [m : Letters, item : Items, pc : {"write"}]
    BY <1>2, AsleepIsIdle DEF UpdateWrite, LetterShape
  <2> QED
    BY <1>2, <2>1, ItemsAreThere DEF UpdateWrite, LetterShape, QueuedIsKept, AtPath, Claimed
<1>3. CASE LetterCrash
  <2>1. /\ \A m \in Letters : Claimed(m) \/ m \in strand => m \in strand'
        /\ \A m \in Letters : sending'[m] = "queued" => sending[m] = "queued"
        /\ UNCHANGED <<path, inbox>>
    BY <1>3 DEF LetterCrash
  <2>2. LetterShape'
    BY <1>3, AsleepIsIdle DEF LetterCrash, LetterShape
  <2> QED
    BY <2>1, <2>2 DEF QueuedIsKept, AtPath
<1> QED
  BY <1>1, <1>2, <1>3

\* What the user was told is queued has arrived, or a file of it is there: under
\* its own name, under that of the worker that has claimed it, or under that of
\* one that has died (messages.go, outbox.go), for any number of messages and
\* workers, whatever answers are lost and wherever the process dies.
THEOREM QueuedStays == LetterInit /\ [][LetterNext]_letterVars => []QueuedIsKept
<1>1. LetterInit => LetterInv
  BY LetterBegins
<1>2. LetterInv /\ [LetterNext]_letterVars => LetterInv'
  BY LetterSent, LetterTouched, LetterPass, LetterOthers DEF LetterNext
<1>3. LetterInv => QueuedIsKept
  BY DEF LetterInv
<1> QED
  BY <1>1, <1>2, <1>3, PTL
-----------------------------------------------------------------------------
(* StreamPool                                                              *)

SessionRecords ==
    [pc : {"free", "build", "fork", "paint", "release", "failed", "launched", "vnc", "vncup"},
     id : Ids \cup {Null}, restart : BOOLEAN, running : BOOLEAN, cancelled : BOOLEAN,
     app : {"none", "alive", "dead"},
     mon : {"none", "wait", "restart", "fork", "stop", "delete", "done"}, stops : BOOLEAN]

\* What may be in the map under ID i: the session launched for i, which nobody is
\* about to stop from outside and which runs or will be taken out by its own.
ListedUnder(r, i) ==
    /\ r.id = i /\ ~r.stops /\ r.pc \notin {"free", "vnc"}
    /\ r.running \/ r.pc = "release" \/ r.mon \in {"stop", "delete"}

\* A session by itself: before VncInsert nobody can find it, and its monitor
\* begins when its Launch is done.
Consistent(r) ==
    /\ r.pc = "free" => r = Fresh
    /\ r.pc = "vnc" => r.running /\ ~r.stops
    /\ r.pc \in {"vnc", "build", "fork", "paint"} => r.mon = "none"

PoolInv ==
    /\ sess \in [Sessions -> SessionRecords]
    /\ sessions \in [Ids -> Sessions \cup {Null}]
    /\ \A i \in Ids : sessions[i] # Null => ListedUnder(sess[sessions[i]], i)
    /\ \A s \in Sessions : Consistent(sess[s])

\* An empty pool.
LEMMA PoolBegins ==
  ASSUME PoolInit
  PROVE  PoolInv
<1>1. Fresh \in SessionRecords /\ Consistent(Fresh)
  BY DEF Fresh, SessionRecords, Consistent
<1>2. sess = [s \in Sessions |-> Fresh] /\ sessions = [i \in Ids |-> Null]
  BY DEF PoolInit
<1> HIDE DEF Fresh
<1> QED
  BY <1>1, <1>2, PoolConstants DEF PoolInv

\* A step of one session, which may change its own entry or clear others'.
LEMMA PoolOne ==
  ASSUME PoolInv, NEW s \in Sessions, NEW r \in SessionRecords,
         sess' = [sess EXCEPT ![s] = r],
         sessions' \in [Ids -> Sessions \cup {Null}],
         \A i \in Ids : sessions'[i] \in {Null, s, sessions[i]},
         \A i \in Ids : sessions'[i] = s => ListedUnder(r, i),
         Consistent(r)
  PROVE  PoolInv'
<1>1. sess' \in [Sessions -> SessionRecords]
  BY DEF PoolInv
<1>2. \A i \in Ids : sessions'[i] # Null => ListedUnder(sess'[sessions'[i]], i)
  <2> SUFFICES ASSUME NEW i \in Ids, sessions'[i] # Null
               PROVE  ListedUnder(sess'[sessions'[i]], i)
    OBVIOUS
  <2>1. CASE sessions'[i] = s
    BY <2>1 DEF PoolInv
  <2>2. CASE sessions'[i] # s
    <3>1. sessions'[i] = sessions[i] /\ sess'[sessions[i]] = sess[sessions[i]]
      BY <2>2 DEF PoolInv
    <3> QED
      BY <3>1 DEF PoolInv
  <2> QED
    BY <2>1, <2>2
<1>3. \A t \in Sessions : Consistent(sess'[t])
  BY DEF PoolInv
<1> QED
  BY <1>1, <1>2, <1>3 DEF PoolInv

\* Session.Stop changes the process and what says that it runs.
LEMMA StoppedFields ==
  ASSUME NEW r \in SessionRecords
  PROVE  /\ Stopped(r) \in SessionRecords
         /\ Stopped(r).pc = r.pc /\ Stopped(r).id = r.id
         /\ Stopped(r).mon = r.mon /\ Stopped(r).stops = r.stops
BY ZenonT(90) DEF Stopped, SessionRecords

\* Launch.
LEMMA PoolLaunch ==
  ASSUME PoolInv, NEW s \in Sessions,
         \/ LaunchApp(s) \/ LaunchForks(s) \/ LaunchRelease(s) \/ LaunchDone(s)
  PROVE  PoolInv'
<1>0. /\ sess[s] \in SessionRecords /\ Consistent(sess[s])
      /\ sessions \in [Ids -> Sessions \cup {Null}]
      /\ \A i \in Ids : sessions[i] = s => ListedUnder(sess[s], i)
  BY PoolConstants DEF PoolInv
<1>1. CASE LaunchApp(s)
  <2>1. CASE sess' = [sess EXCEPT ![s].pc = "fork"]
    <3> DEFINE r == [sess[s] EXCEPT !.pc = "fork"]
    <3>1. r \in SessionRecords /\ sess' = [sess EXCEPT ![s] = r]
      BY <1>0, <2>1 DEF SessionRecords
    <3>2. Consistent(r) /\ \A i \in Ids : sessions[i] = s => ListedUnder(r, i)
      BY <1>0, <1>1 DEF LaunchApp, Consistent, ListedUnder, SessionRecords
    <3> HIDE DEF r
    <3> QED
      BY <1>0, <1>1, <3>1, <3>2, PoolOne DEF LaunchApp
  <2>2. CASE sess' = [sess EXCEPT ![s] = [Stopped(@) EXCEPT !.pc = "release"]]
    <3> DEFINE q == Stopped(sess[s])
               r == [q EXCEPT !.pc = "release"]
    <3>0. q \in SessionRecords /\ q.id = sess[s].id /\ q.stops = sess[s].stops
      BY <1>0, StoppedFields
    <3>1. sess' = [sess EXCEPT ![s] = r]
      BY <2>2 DEF PoolInv
    <3> HIDE DEF q
    <3>2. r \in SessionRecords /\ Consistent(r)
      BY <3>0 DEF Consistent, SessionRecords
    <3>3. \A i \in Ids : sessions[i] = s => ListedUnder(r, i)
      BY <1>0, <3>0 DEF ListedUnder, SessionRecords
    <3> HIDE DEF r
    <3> QED
      BY <1>0, <1>1, <3>1, <3>2, <3>3, PoolOne DEF LaunchApp
  <2> QED
    BY <1>1, <2>1, <2>2 DEF LaunchApp
<1>2. CASE LaunchForks(s)
  <2> DEFINE r == [sess[s] EXCEPT !.pc = "paint", !.app = "alive"]
  <2>1. r \in SessionRecords /\ sess' = [sess EXCEPT ![s] = r]
    BY <1>0, <1>2 DEF LaunchForks, SessionRecords, PoolInv
  <2>2. Consistent(r) /\ \A i \in Ids : sessions[i] = s => ListedUnder(r, i)
    BY <1>0, <1>2 DEF LaunchForks, Consistent, ListedUnder, SessionRecords
  <2> HIDE DEF r
  <2> QED
    BY <1>0, <1>2, <2>1, <2>2, PoolOne DEF LaunchForks
<1>3. CASE LaunchRelease(s)
  <2> DEFINE r == [sess[s] EXCEPT !.pc = "failed"]
  <2>1. r \in SessionRecords /\ sess' = [sess EXCEPT ![s] = r] /\ Consistent(r)
    BY <1>0, <1>3 DEF LaunchRelease, SessionRecords, Consistent
  <2>2. /\ sessions' \in [Ids -> Sessions \cup {Null}]
        /\ \A i \in Ids : sessions'[i] \in {Null, sessions[i]}
    BY <1>0, <1>3 DEF LaunchRelease, Released
  <2>3. \A i \in Ids : sessions'[i] # s
    <3> SUFFICES ASSUME NEW i \in Ids, sessions'[i] = s
                 PROVE  FALSE
      OBVIOUS
    <3>1. sessions[i] = s /\ sess[s].id = i
      BY <1>0, <2>2, PoolConstants DEF ListedUnder
    <3>2. sessions'[i] = Null
      BY <1>0, <1>3, <3>1 DEF LaunchRelease, Released
    <3> QED
      BY <3>2, PoolConstants
  <2> HIDE DEF r
  <2> QED
    BY <2>1, <2>2, <2>3, PoolOne
<1>4. CASE LaunchDone(s)
  <2> DEFINE r == [sess[s] EXCEPT !.pc = "launched", !.mon = "wait"]
  <2>1. r \in SessionRecords /\ sess' = [sess EXCEPT ![s] = r]
    BY <1>0, <1>4 DEF LaunchDone, SessionRecords, PoolInv
  <2>2. Consistent(r) /\ \A i \in Ids : sessions[i] = s => ListedUnder(r, i)
    BY <1>0, <1>4 DEF LaunchDone, Consistent, ListedUnder, SessionRecords
  <2> HIDE DEF r
  <2> QED
    BY <1>0, <1>4, <2>1, <2>2, PoolOne DEF LaunchDone
<1> QED
  BY <1>1, <1>2, <1>3, <1>4

\* Launch and LaunchVNC begin.
LEMMA PoolBegun ==
  ASSUME PoolInv, NEW s \in Sessions, NEW i \in Ids,
         VncCheck(s, i) \/ \E b \in BOOLEAN : LaunchReserve(s, i, b)
  PROVE  PoolInv'
<1>0. /\ sess[s] \in SessionRecords /\ Consistent(sess[s])
      /\ sessions \in [Ids -> Sessions \cup {Null}]
      /\ \A j \in Ids : sessions[j] = s => ListedUnder(sess[s], j)
  BY PoolConstants DEF PoolInv
<1>1. sess[s] = Fresh => \A j \in Ids : sessions[j] # s
  BY <1>0 DEF ListedUnder, Fresh
<1>2. ASSUME NEW b \in BOOLEAN, LaunchReserve(s, i, b)
      PROVE  PoolInv'
  <2> DEFINE r == [Fresh EXCEPT !.pc = "build", !.id = i, !.restart = b, !.running = TRUE]
  <2>1. r \in SessionRecords /\ sess' = [sess EXCEPT ![s] = r]
    BY <1>2 DEF LaunchReserve, SessionRecords, Fresh
  <2>2. Consistent(r) /\ ListedUnder(r, i)
    BY DEF Consistent, ListedUnder, Fresh
  <2>3. /\ sessions' \in [Ids -> Sessions \cup {Null}] /\ sessions'[i] = s
        /\ \A j \in Ids \ {i} : sessions'[j] = sessions[j]
    BY <1>0, <1>2 DEF LaunchReserve
  <2>4. \A j \in Ids : sessions'[j] = s => j = i
    BY <1>1, <1>2, <2>3 DEF LaunchReserve
  <2> HIDE DEF r
  <2> QED
    BY <2>1, <2>2, <2>3, <2>4, PoolOne
<1>3. CASE VncCheck(s, i)
  <2> DEFINE r == [Fresh EXCEPT !.pc = "vnc", !.id = i, !.running = TRUE, !.app = "alive"]
  <2>1. r \in SessionRecords /\ sess' = [sess EXCEPT ![s] = r]
    BY <1>3 DEF VncCheck, SessionRecords, Fresh
  <2>2. Consistent(r)
    BY DEF Consistent, Fresh
  <2> HIDE DEF r
  <2> QED
    BY <1>0, <1>1, <1>3, <2>1, <2>2, PoolOne DEF VncCheck
<1> QED
  BY <1>2, <1>3

\* A VNC session inserts itself over whatever has its ID.
LEMMA PoolInserts ==
  ASSUME PoolInv, NEW s \in Sessions, VncInsert(s)
  PROVE  PoolInv'
<1>0. /\ sess[s] \in SessionRecords /\ Consistent(sess[s])
      /\ sessions \in [Ids -> Sessions \cup {Null}]
      /\ \A j \in Ids : sessions[j] = s => ListedUnder(sess[s], j)
  BY PoolConstants DEF PoolInv
<1> DEFINE r == [sess[s] EXCEPT !.pc = "vncup"]
<1>1. r \in SessionRecords /\ sess' = [sess EXCEPT ![s] = r]
  BY <1>0 DEF VncInsert, SessionRecords
<1>2. /\ sessions' \in [Ids -> Sessions \cup {Null}]
      /\ \A j \in Ids : sessions'[j] \in {s, sessions[j]}
      /\ \A j \in Ids : sessions'[j] = s /\ sessions[j] # s => j = sess[s].id
  BY <1>0 DEF VncInsert
<1>3. \A j \in Ids : sessions[j] # s
  BY <1>0 DEF VncInsert, ListedUnder
<1>4. Consistent(r) /\ ListedUnder(r, sess[s].id)
  BY <1>0 DEF VncInsert, Consistent, ListedUnder, SessionRecords
<1> HIDE DEF r
<1> QED
  BY <1>1, <1>2, <1>3, <1>4, PoolOne

\* The app exits, the context's watcher kills it, the monitor starts it again.
LEMMA PoolProcess ==
  ASSUME PoolInv, NEW s \in Sessions,
         AppExits(s) \/ ContextKills(s) \/ MonitorRestarts(s) \/ MonitorForks(s)
  PROVE  PoolInv'
<1>0. /\ sess[s] \in SessionRecords /\ Consistent(sess[s])
      /\ sessions \in [Ids -> Sessions \cup {Null}]
      /\ \A i \in Ids : sessions[i] = s => ListedUnder(sess[s], i)
  BY PoolConstants DEF PoolInv
<1>1. sessions' = sessions
  BY DEF AppExits, ContextKills, MonitorRestarts, MonitorForks, Alive
<1>2. ASSUME NEW x \in {"alive", "dead", "none"}, NEW y \in {"fork", "stop", "done", sess[s].mon},
             y # sess[s].mon => sess[s].mon \in {"restart", "fork"},
             sess[s].pc # "free",
             sess' = [sess EXCEPT ![s] = [sess[s] EXCEPT !.app = x, !.mon = y]]
      PROVE  PoolInv'
  <2> DEFINE r == [sess[s] EXCEPT !.app = x, !.mon = y]
  <2>1. r \in SessionRecords
    BY <1>0, <1>2 DEF SessionRecords
  <2>2. Consistent(r) /\ \A i \in Ids : sessions[i] = s => ListedUnder(r, i)
    BY <1>0, <1>2 DEF Consistent, ListedUnder, SessionRecords
  <2>3. sess' = [sess EXCEPT ![s] = r]
    BY <1>2
  <2> HIDE DEF r
  <2> QED
    BY <1>0, <1>1, <2>1, <2>2, <2>3, PoolOne
<1>3. sess[s].pc # "free"
  BY <1>0 DEF Consistent, Fresh, AppExits, ContextKills, MonitorRestarts, MonitorForks, Alive
<1>4. CASE AppExits(s) \/ ContextKills(s)
  <2>1. sess' = [sess EXCEPT ![s] = [sess[s] EXCEPT !.app = "dead", !.mon = sess[s].mon]]
    BY <1>0, <1>4 DEF AppExits, ContextKills, PoolInv, SessionRecords
  <2> QED
    BY <1>2, <1>3, <2>1
<1>5. CASE MonitorRestarts(s)
  <2>1. \E y \in {"fork", "stop"} :
          sess' = [sess EXCEPT ![s] = [sess[s] EXCEPT !.app = sess[s].app, !.mon = y]]
    BY <1>0, <1>5 DEF MonitorRestarts, PoolInv, SessionRecords
  <2>2. sess[s].mon = "restart" /\ sess[s].app \in {"alive", "dead", "none"}
    BY <1>0, <1>5 DEF MonitorRestarts, SessionRecords
  <2> QED
    BY <1>2, <1>3, <2>1, <2>2
<1>6. CASE MonitorForks(s)
  <2>1. sess' = [sess EXCEPT ![s] = [sess[s] EXCEPT !.app = "alive", !.mon = "done"]]
    BY <1>0, <1>6 DEF MonitorForks, PoolInv
  <2> QED
    BY <1>2, <1>3, <1>6, <2>1 DEF MonitorForks
<1> QED
  BY <1>4, <1>5, <1>6

\* app.Wait returns in the monitor; the apps of other sessions may die of it.
LEMMA PoolWakes ==
  ASSUME PoolInv, NEW s \in Sessions, MonitorWakes(s)
  PROVE  PoolInv'
<1> DEFINE y == IF sess[s].restart /\ ~sess[s].cancelled THEN "restart" ELSE "stop"
           woken == [sess EXCEPT ![s].mon = y]
<1>0. sess \in [Sessions -> SessionRecords] /\ y \in {"restart", "stop"} /\ sess[s].mon = "wait"
  BY DEF PoolInv, MonitorWakes
<1>1. /\ sessions' = sessions
      /\ \/ sess' = woken
         \/ sess' = [t \in Sessions |-> IF Alive(t) /\ sess[t].pc \in {"paint", "launched"}
                                        THEN [woken[t] EXCEPT !.app = "dead"] ELSE woken[t]]
  BY DEF MonitorWakes
<1>2. woken = [t \in Sessions |-> IF t = s THEN [sess[s] EXCEPT !.mon = y] ELSE sess[t]]
  BY <1>0
<1> HIDE DEF y, woken
<1>3. sess' = [t \in Sessions |-> sess'[t]]
  BY <1>1, <1>2
<1>4. ASSUME NEW t \in Sessions
      PROVE  \E x \in {sess[t].app, "dead"}, z \in {sess[t].mon, y} :
               /\ z # sess[t].mon => t = s
               /\ x # sess[t].app => sess[t].pc \in {"paint", "launched"}
               /\ sess'[t] = [sess[t] EXCEPT !.app = x, !.mon = z]
  <2>1. woken[t] \in {sess[t], [sess[t] EXCEPT !.mon = y]} /\ (woken[t] # sess[t] => t = s)
    BY <1>0, <1>2
  <2>2. sess'[t] = woken[t] \/ (sess[t].pc \in {"paint", "launched"}
                                /\ sess'[t] = [woken[t] EXCEPT !.app = "dead"])
    BY <1>1, <1>2
  <2> QED
    BY <1>0, <2>1, <2>2, ZenonT(90) DEF SessionRecords
<1>5. \A t \in Sessions : /\ sess'[t] \in SessionRecords
                          /\ Consistent(sess'[t])
                          /\ \A i \in Ids : ListedUnder(sess[t], i) => ListedUnder(sess'[t], i)
  <2> TAKE t \in Sessions
  <2>1. PICK x \in {sess[t].app, "dead"}, z \in {sess[t].mon, y} :
          /\ z # sess[t].mon => t = s
          /\ x # sess[t].app => sess[t].pc \in {"paint", "launched"}
          /\ sess'[t] = [sess[t] EXCEPT !.app = x, !.mon = z]
    BY <1>4
  <2>2. Consistent(sess[t]) /\ sess[t] \in SessionRecords
    BY DEF PoolInv
  <2>3. sess'[t] \in SessionRecords
    BY <1>0, <2>1, <2>2, ZenonT(90) DEF SessionRecords
  <2>4. Consistent(sess'[t])
    <3>1. sess[t].pc # "free" \/ sess'[t] = sess[t]
      <4> SUFFICES ASSUME sess[t].pc = "free"
                   PROVE  sess'[t] = sess[t]
        OBVIOUS
      <4>1. sess[t].mon = "none"
        BY <2>2 DEF Consistent, Fresh
      <4>2. x = sess[t].app /\ z = sess[t].mon
        BY <1>0, <2>1, <4>1
      <4> QED
        BY <2>1, <2>2, <4>2 DEF SessionRecords
    <3> QED
      BY <1>0, <2>1, <2>2, <3>1 DEF Consistent, SessionRecords
  <2>5. \A i \in Ids : ListedUnder(sess[t], i) => ListedUnder(sess'[t], i)
    BY <1>0, <2>1, <2>2 DEF ListedUnder, SessionRecords
  <2> QED
    BY <2>3, <2>4, <2>5
<1> QED
  BY <1>1, <1>3, <1>5 DEF PoolInv

\* The monitor ends the session and takes it, or whoever has its ID by then, out.
LEMMA PoolEnds ==
  ASSUME PoolInv, NEW s \in Sessions, MonitorStops(s) \/ MonitorDeletes(s) \/ StopKills(s)
  PROVE  PoolInv'
<1>0. /\ sess[s] \in SessionRecords /\ Consistent(sess[s])
      /\ sessions \in [Ids -> Sessions \cup {Null}]
      /\ \A i \in Ids : sessions[i] = s => ListedUnder(sess[s], i)
  BY PoolConstants DEF PoolInv
<1> DEFINE q == Stopped(sess[s])
<1>1. /\ q \in SessionRecords /\ q.pc = sess[s].pc /\ q.id = sess[s].id
      /\ q.mon = sess[s].mon /\ q.stops = sess[s].stops
  BY <1>0, StoppedFields
<1>2. sess[s].pc # "free" /\ (sess[s].pc = "vnc" => ~sess[s].stops)
  BY <1>0 DEF Consistent, Fresh, MonitorStops, MonitorDeletes, StopKills
<1>3. CASE MonitorStops(s)
  <2> DEFINE r == [q EXCEPT !.mon = "delete"]
  <2>1. sess' = [sess EXCEPT ![s] = r] /\ sessions' = sessions
    BY <1>3 DEF MonitorStops, PoolInv
  <2>2. sess[s].mon = "stop"
    BY <1>3 DEF MonitorStops
  <2>3. sess[s].pc \notin {"vnc", "build", "fork", "paint"}
    BY <1>0, <2>2 DEF Consistent
  <2> HIDE DEF q
  <2>4. r \in SessionRecords
    BY <1>1 DEF SessionRecords
  <2>5. Consistent(r)
    BY <1>1, <1>2, <2>3 DEF Consistent, SessionRecords
  <2>6. \A i \in Ids : sessions[i] = s => ListedUnder(r, i)
    BY <1>0, <1>1, <2>2 DEF ListedUnder, SessionRecords
  <2> HIDE DEF r
  <2> QED
    BY <1>0, <2>1, <2>4, <2>5, <2>6, PoolOne
<1>4. CASE MonitorDeletes(s)
  <2> DEFINE r == [sess[s] EXCEPT !.mon = "done"]
  <2>1. r \in SessionRecords /\ sess' = [sess EXCEPT ![s] = r]
    BY <1>0, <1>4 DEF MonitorDeletes, SessionRecords
  <2>2. Consistent(r)
    BY <1>0, <1>2, <1>4 DEF MonitorDeletes, Consistent, SessionRecords
  <2>3. /\ sessions' \in [Ids -> Sessions \cup {Null}]
        /\ \A i \in Ids : sessions'[i] \in {Null, sessions[i]}
    BY <1>0, <1>4 DEF MonitorDeletes
  <2>4. \A i \in Ids : sessions'[i] # s
    <3> SUFFICES ASSUME NEW i \in Ids, sessions'[i] = s
                 PROVE  FALSE
      OBVIOUS
    <3>1. sess[s].id = i
      BY <1>0, <2>3, PoolConstants DEF ListedUnder
    <3> QED
      BY <1>0, <1>4, <3>1, PoolConstants DEF MonitorDeletes
  <2> HIDE DEF r
  <2> QED
    BY <2>1, <2>2, <2>3, <2>4, PoolOne
<1>5. CASE StopKills(s)
  <2> DEFINE r == [q EXCEPT !.stops = FALSE]
  <2>1. sess' = [sess EXCEPT ![s] = r] /\ sessions' = sessions /\ sess[s].stops
    BY <1>5 DEF StopKills, PoolInv
  <2>2. sess[s].pc # "vnc" /\ \A i \in Ids : sessions[i] # s
    BY <1>0, <1>2, <2>1 DEF ListedUnder
  <2> HIDE DEF q
  <2>3. r \in SessionRecords /\ Consistent(r)
    BY <1>0, <1>1, <1>2, <2>2, ZenonT(90) DEF Consistent, SessionRecords
  <2> HIDE DEF r
  <2> QED
    BY <1>0, <2>1, <2>2, <2>3, PoolOne
<1> QED
  BY <1>3, <1>4, <1>5

\* Pool.Stop takes a session out before it stops it.
LEMMA PoolStopped ==
  ASSUME PoolInv, NEW i \in Ids, PoolStop(i)
  PROVE  PoolInv'
<1> DEFINE s == sessions[i]
           r == [sess[s] EXCEPT !.stops = TRUE]
<1>1. /\ s \in Sessions /\ sess[s] \in SessionRecords /\ Consistent(sess[s])
      /\ ListedUnder(sess[s], i)
  BY DEF PoolStop, PoolInv
<1>2. r \in SessionRecords /\ sess' = [sess EXCEPT ![s] = r] /\ Consistent(r)
  BY <1>1 DEF PoolStop, SessionRecords, Consistent, ListedUnder
<1>3. /\ sessions' \in [Ids -> Sessions \cup {Null}]
      /\ \A j \in Ids : sessions'[j] \in {Null, sessions[j]}
  BY DEF PoolStop, PoolInv
<1>4. \A j \in Ids : sessions'[j] # s
  <2> SUFFICES ASSUME NEW j \in Ids, sessions'[j] = s
               PROVE  FALSE
    OBVIOUS
  <2>1. sessions[j] = s /\ sess[s].id = j
    BY <1>1, <1>3, PoolConstants DEF PoolInv, ListedUnder
  <2> QED
    BY <1>1, <2>1, PoolConstants DEF ListedUnder, PoolStop, PoolInv
<1> HIDE DEF s, r
<1> QED
  BY <1>1, <1>2, <1>3, <1>4, PoolOne

\* A session that the pool lists was launched under that ID and runs, or the
\* goroutine that ended it has yet to take it out (pool.go, vnc.go): for any
\* number of launches of one ID, VNC sessions that insert without looking again,
\* monitors that delete by ID and stops that meet any of them, no ID stays taken
\* by a dead session.
THEOREM ListedStayLive == PoolInit /\ [][PoolNext]_poolVars => []ListedIsLive
<1>1. PoolInit => PoolInv
  BY PoolBegins
<1>2. PoolInv /\ [PoolNext]_poolVars => PoolInv'
  <2> SUFFICES ASSUME PoolInv, [PoolNext]_poolVars
               PROVE  PoolInv'
    OBVIOUS
  <2>1. ASSUME NEW s \in Sessions, SessionStep(s) \/ AppExits(s)
        PROVE  PoolInv'
    BY <2>1, PoolLaunch, PoolInserts, PoolProcess, PoolWakes, PoolEnds DEF SessionStep
  <2>2. ASSUME NEW s \in Sessions, NEW i \in Ids,
               VncCheck(s, i) \/ \E b \in BOOLEAN : LaunchReserve(s, i, b)
        PROVE  PoolInv'
    BY <2>2, PoolBegun
  <2>3. CASE UNCHANGED poolVars
    BY <2>3 DEF poolVars, PoolInv
  <2> QED
    BY <2>1, <2>2, <2>3, PoolStopped DEF PoolNext
<1>3. PoolInv => ListedIsLive
  BY DEF PoolInv, ListedUnder, ListedIsLive
<1> QED
  BY <1>1, <1>2, <1>3, PTL
===============================================================================
