----------------------------- MODULE LeaseRunner -----------------------------
(***************************************************************************)
(* The two users of a lease that keep it for as long as something runs:    *)
(* lease.RunOnce (job.go), for cluster-wide jobs, and the run-lease of a   *)
(* singleton app (runlease.go, as appnet/launcher.go uses it).  Both call  *)
(* EnsureLease, then Acquire under a fresh holder ID, run with a renew     *)
(* loop beside them, and call Release when the run ends.  They differ in   *)
(* the end: RunOnce cancels the renew loop and waits for it before         *)
(* Release, the launcher closes stopRenew and calls Release at once.       *)
(*                                                                         *)
(* Whatever runs hands its fence to a protected resource, which keeps the  *)
(* highest it has seen and asks ValidateFence.                             *)
(***************************************************************************)
EXTENDS LeaseObject

CONSTANTS
  Jobs,      \* the holders that run RunOnce; the others run an app
  Existing,  \* the lease object was created beforehand (LEASE-02)
  Faults     \* what may happen: "expiry", "network", "crash"

\* Every run draws a random nonce for its holder ID: the ID names the run.
ASSUME RunnerConstants ==
  /\ Callers = Holders
  /\ Jobs \subseteq Holders
  /\ Existing \in BOOLEAN

PCs == {"ensure", "create", "acquire", "acquiring", "run", "drain", "release",
        "releasing", "done"}

VARIABLES
  pc,       \* where RunOnce, or the launcher, is
  fence,    \* held.Fence
  renewing, \* the renew loop: not running, waiting, or in Renew
  lost,     \* the renew loop has told the run to stop
  lastSeen, \* the highest fence the protected resource has accepted
  user,     \* who used the resource last
  past,     \* history: who used it before somebody else did
  seized    \* history: whose lease was taken as expired while held

runVars == <<pc, fence, renewing, lost>>
resVars == <<lastSeen, user, past>>
vars    == <<doc, put, phase, stray, pc, fence, renewing, lost, lastSeen, user, past,
             seized>>

TypeOK ==
  /\ doc \in Docs
  /\ put \in [Holders -> [Threads -> Puts]]
  /\ phase \in [Holders -> [Threads -> Phases]]
  /\ stray \subseteq Puts
  /\ pc \in [Holders -> PCs]
  /\ fence \in [Holders -> 0..MaxFence]
  /\ renewing \in [Holders -> {"off", "idle", "call", "ended"}]
  /\ lost \in [Holders -> BOOLEAN]
  /\ lastSeen \in 0..MaxFence
  /\ user \in Holders \cup {NoHolder}
  /\ past \subseteq Holders
  /\ seized \subseteq Holders \cup {NoHolder}

Init ==
  /\ doc = IF Existing THEN FreeDoc(0) ELSE AbsentDoc
  /\ put = [h \in Holders |-> [t \in Threads |-> NoPut(h)]]
  /\ phase = [h \in Holders |-> [t \in Threads |-> "none"]]
  /\ stray = {}
  /\ pc = [h \in Holders |-> "ensure"]
  /\ fence = [h \in Holders |-> 0]
  /\ renewing = [h \in Holders |-> "off"]
  /\ lost = [h \in Holders |-> FALSE]
  /\ lastSeen = 0
  /\ user = NoHolder
  /\ past = {}
  /\ seized = {}

Goto(h, l) == pc' = [pc EXCEPT ![h] = l]
-----------------------------------------------------------------------------
(* EnsureLease and Acquire                                                 *)

\* EnsureLease: its GET, which finds the object or sends the PUT that creates it,
\* and the answer to that PUT.
EnsureLease(h) ==
  /\ \/ /\ pc[h] = "ensure"
        /\ doc.state # "absent"
        /\ Goto(h, "acquire")
        /\ UNCHANGED leaseVars
     \/ /\ pc[h] = "ensure"
        /\ doc.state = "absent"
        /\ Goto(h, "create")
        /\ Send(h, "main", CreatePut(h))
     \/ /\ pc[h] = "create"
        /\ phase[h]["main"] = "served"
        /\ Goto(h, "acquire")
        /\ Finish(h, {"main"})
  /\ UNCHANGED <<fence, renewing, lost, resVars, seized>>

\* Acquire's GET.  ErrNotHolder ends the call: nothing was run.
AcquireGet(h) ==
  /\ pc[h] = "acquire"
  /\ \E expired \in BOOLEAN :
       /\ expired => "expiry" \in Faults
       /\ IF Refused(doc, h, expired)
            THEN Goto(h, "done") /\ UNCHANGED <<leaseVars, seized>>
            ELSE /\ doc.fence < MaxFence
                 /\ Goto(h, "acquiring")
                 /\ Send(h, "main", AcquirePut(h, h, doc))
                 /\ seized' = IF doc.state = "held" THEN seized \cup {doc.holder}
                                                   ELSE seized
  /\ UNCHANGED <<fence, renewing, lost, resVars>>

\* Acquire's answer: Held and the renew loop, or ErrLost and no run.
Acquired(h) ==
  /\ pc[h] = "acquiring"
  /\ phase[h]["main"] \in {"served", "refused"}
  /\ IF phase[h]["main"] = "served"
       THEN /\ Goto(h, "run")
            /\ fence' = [fence EXCEPT ![h] = put[h]["main"].body.fence]
            /\ renewing' = [renewing EXCEPT ![h] = "idle"]
       ELSE Goto(h, "done") /\ UNCHANGED <<fence, renewing>>
  /\ Finish(h, {"main"})
  /\ UNCHANGED <<lost, resVars, seized>>
-----------------------------------------------------------------------------
(* The renew loop                                                          *)

\* Fault: the loop ends without telling the run.
RenewFails_Silently(h) ==
  /\ renewing' = [renewing EXCEPT ![h] = "ended"]
  /\ lost' = lost

\* Any error of Renew: fenceLostErr and cancelJob, or onLost; the loop ends.
RenewFails(h) ==
  /\ renewing' = [renewing EXCEPT ![h] = "ended"]
  /\ lost' = [lost EXCEPT ![h] = TRUE]

\* The context a job's Renew runs under is cancelled once fn has returned.
Cancelled(h) == h \in Jobs /\ pc[h] # "run"

\* The select took the tick, be it with the other channel ready too.
RenewGet(h) ==
  /\ renewing[h] = "idle"
  /\ IF StillHeld(doc, h, fence[h]) /\ ~Cancelled(h)
       THEN /\ doc.fence < MaxFence
            /\ renewing' = [renewing EXCEPT ![h] = "call"]
            /\ Send(h, "renew", RenewPut(h, h, doc))
            /\ UNCHANGED lost
       ELSE RenewFails(h) /\ UNCHANGED leaseVars
  /\ UNCHANGED <<pc, fence, resVars, seized>>

\* Renew's answer: the new fence, or ErrLost.
Renewed(h) ==
  /\ renewing[h] = "call"
  /\ phase[h]["renew"] \in {"served", "refused"}
  /\ IF phase[h]["renew"] = "served"
       THEN /\ fence' = [fence EXCEPT ![h] = put[h]["renew"].body.fence]
            /\ renewing' = [renewing EXCEPT ![h] = "idle"]
            /\ UNCHANGED lost
       ELSE RenewFails(h) /\ UNCHANGED fence
  /\ Finish(h, {"renew"})
  /\ UNCHANGED <<pc, resVars, seized>>

\* Renew's PUT is cut short: by the cancelled context, or by the network.
RenewCut(h) ==
  /\ renewing[h] = "call"
  /\ Cancelled(h) \/ "network" \in Faults
  /\ Finish(h, {"renew"})
  /\ RenewFails(h)
  /\ UNCHANGED <<pc, fence, resVars, seized>>

\* The loop sees that the run is over.
RenewStops(h) ==
  /\ renewing[h] = "idle"
  /\ pc[h] # "run"
  /\ renewing' = [renewing EXCEPT ![h] = "ended"]
  /\ UNCHANGED <<leaseVars, pc, fence, lost, resVars, seized>>
-----------------------------------------------------------------------------
(* The run and its end                                                     *)

\* The run uses the protected resource, with the fence it has.
Use(h) ==
  /\ pc[h] = "run"
  /\ ValidateFence(fence[h], lastSeen)
  /\ lastSeen' = fence[h]
  /\ user' = h
  /\ past' = IF user \in {h, NoHolder} THEN past ELSE past \cup {user}
  /\ UNCHANGED <<leaseVars, runVars, seized>>

\* fn returns (RunOnce cancels the loop and waits), or the app exits.
RunEnds(h) ==
  /\ pc[h] = "run"
  /\ Goto(h, IF h \in Jobs THEN "drain" ELSE "release")
  /\ UNCHANGED <<leaseVars, fence, renewing, lost, resVars, seized>>

\* Fault: the loop closes renewDone only when it ends of its own accord.
Drained_LostHangs(h) ==
  /\ pc[h] = "drain"
  /\ renewing[h] = "ended"
  /\ ~lost[h]
  /\ Goto(h, "release")
  /\ UNCHANGED <<leaseVars, fence, renewing, lost, resVars, seized>>

\* renewDone is closed.  A job that lost its fence does not release.
Drained(h) ==
  /\ pc[h] = "drain"
  /\ renewing[h] = "ended"
  /\ Goto(h, IF lost[h] THEN "done" ELSE "release")
  /\ UNCHANGED <<leaseVars, fence, renewing, lost, resVars, seized>>

\* Release's GET, and ErrNotHolder.
ReleaseGet(h) ==
  /\ pc[h] = "release"
  /\ IF StillHeld(doc, h, fence[h])
       THEN Goto(h, "releasing") /\ Send(h, "main", ReleasePut(h, doc))
       ELSE Goto(h, "done") /\ UNCHANGED leaseVars
  /\ UNCHANGED <<fence, renewing, lost, resVars, seized>>

Released(h) ==
  /\ pc[h] = "releasing"
  /\ phase[h]["main"] \in {"served", "refused"}
  /\ Finish(h, {"main"})
  /\ Goto(h, "done")
  /\ UNCHANGED <<fence, renewing, lost, resVars, seized>>
-----------------------------------------------------------------------------
(* Failures                                                                *)

\* A request of the main goroutine fails: every such error ends the call.
CallFails(h) ==
  /\ "network" \in Faults
  /\ pc[h] \in {"ensure", "create", "acquire", "acquiring", "release", "releasing"}
  /\ Finish(h, {"main"})
  /\ Goto(h, "done")
  /\ UNCHANGED <<fence, renewing, lost, resVars, seized>>

\* A GET of the renew loop fails.
RenewGetFails(h) ==
  /\ "network" \in Faults
  /\ renewing[h] = "idle"
  /\ RenewFails(h)
  /\ UNCHANGED <<leaseVars, pc, fence, resVars, seized>>

\* The process dies.  Its lease is left to expire.
Crash(h) ==
  /\ "crash" \in Faults
  /\ pc[h] # "done"
  /\ Finish(h, Threads)
  /\ Goto(h, "done")
  /\ renewing' = [renewing EXCEPT ![h] = "off"]
  /\ UNCHANGED <<fence, lost, resVars, seized>>

Bucket ==
  /\ \/ \E h \in Holders, t \in Threads : Serve(h, t)
     \/ \E p \in stray : ServeStray(p)
  /\ UNCHANGED <<runVars, resVars, seized>>

Loop(h) == RenewGet(h) \/ Renewed(h) \/ RenewCut(h) \/ RenewStops(h) \/ RenewGetFails(h)

Main(h) ==
  \/ EnsureLease(h) \/ AcquireGet(h) \/ Acquired(h)
  \/ RunEnds(h) \/ Drained(h) \/ ReleaseGet(h) \/ Released(h) \/ CallFails(h)

Next ==
  \/ Bucket
  \/ \E h \in Holders : Main(h) \/ Loop(h) \/ Use(h) \/ Crash(h)

Spec == Init /\ [][Next]_vars

(***************************************************************************)
(* Goroutines are scheduled, the ticker ticks and a request is answered or *)
(* fails.  Nothing says that the run itself ever ends.                     *)
(***************************************************************************)
Served == \E h \in Holders, t \in Threads : Serve(h, t) /\ UNCHANGED <<runVars, resVars, seized>>

Fairness ==
  /\ WF_vars(Served)
  /\ \A h \in Holders : WF_vars(Loop(h)) /\ WF_vars(Main(h) /\ pc[h] # "run")

FairSpec == Spec /\ Fairness
-----------------------------------------------------------------------------
(***************************************************************************)
(* Fencing: once the protected resource has served a run under a later     *)
(* acquisition, it never again serves one it has left (lease.go, Held and  *)
(* ValidateFence), however late that one's renewals and releases arrive.   *)
(***************************************************************************)
NoReturn == user \notin past

(***************************************************************************)
(* The fence of the object never falls, whichever PUT is served when: a    *)
(* free lease keeps the fence it was held at (lease.go, Release).          *)
(***************************************************************************)
FenceNeverFalls == [][doc'.fence >= doc.fence]_vars

(***************************************************************************)
(* "A held lease is never clobbered" (lease.go, EnsureLease): a lease that *)
(* is held becomes free only by a Release of the holder itself.            *)
(***************************************************************************)
NeverClobbered ==
  [][doc.state = "held" /\ doc'.state = "free" =>
       \E h \in Holders : /\ StillHeld(doc, h, fence[h])
                          /\ pc[h] = "releasing" \/ \E p \in stray : p.by = h]_vars

(***************************************************************************)
(* RunOnce runs fn at most once per cluster (job.go), and a singleton app  *)
(* runs on one box: two runs overlap only when the lease of one of them    *)
(* was taken as expired, whatever is lost, late or crashed.                *)
(***************************************************************************)
Running(h) == pc[h] = "run"
OneRunner ==
  \A g, h \in Holders :
    Running(g) /\ Running(h) /\ g # h => g \in seized \/ h \in seized

(***************************************************************************)
(* "A stalled runner whose lease has expired will get ErrNotHolder on its  *)
(* next renew attempt, causing it to cancel" (job.go): a run whose lease   *)
(* another holder has is told to stop, or has ended.                       *)
(***************************************************************************)
Overtaken(h) == pc[h] = "run" /\ doc.holder \notin {h, NoHolder}
OvertakenStops == \A h \in Holders : Overtaken(h) ~> (lost[h] \/ pc[h] # "run")

(***************************************************************************)
(* RunOnce does not hang in <-renewDone: once fn has returned, it returns. *)
(***************************************************************************)
DrainEnds == \A h \in Holders : pc[h] = "drain" ~> pc[h] = "done"

(***************************************************************************)
(* "After fn returns (or is cancelled), the lease is released" (job.go),   *)
(* and the launcher's "Release the run-lease so another instance can take  *)
(* over": a run that has ended leaves no lease in its name.                *)
(***************************************************************************)
LeavesNoLease == \A h \in Holders : pc[h] = "done" => doc.holder # h
-----------------------------------------------------------------------------
(***************************************************************************)
(* The inductive invariant behind NoReturn and FenceNeverFalls, when the   *)
(* object exists beforehand.                                               *)
(***************************************************************************)

\* A PUT that may still be served compares, and never lowers the fence.
PutSound(p) ==
  /\ p.ifMatch
  /\ p.body.state # "absent"
  /\ p.match.fence <= doc.fence
  /\ p.body.fence >= p.match.fence
  /\ p.body.state = "held" => p.body.fence = p.match.fence + 1

PutsSound ==
  /\ doc.state # "absent"
  /\ \A p \in stray : PutSound(p)
  /\ \A h \in Holders, t \in Threads : phase[h][t] = "sent" => PutSound(put[h][t])

\* Which request a goroutine can have under way, and when it has a fence.
Requests ==
  \A h \in Holders :
    /\ pc[h] # "create"
    /\ phase[h]["main"] # "none" =>
         \/ pc[h] = "acquiring" /\ put[h]["main"].body.state = "held"
         \/ pc[h] = "releasing" /\ put[h]["main"].body.state = "free"
    /\ phase[h]["renew"] # "none" =>
         /\ renewing[h] = "call"
         /\ put[h]["renew"].body.state = "held"
         /\ put[h]["renew"].body.fence > fence[h]
    /\ pc[h] \in {"ensure", "acquire", "acquiring"} =>
         fence[h] = 0 /\ renewing[h] = "off"
    /\ pc[h] = "run" => fence[h] > 0
    /\ renewing[h] \in {"idle", "call"} => fence[h] > 0

\* h was granted fence x: it knows, or the answer is on its way.
Granted(h, x) ==
  \/ fence[h] = x
  \/ \E t \in Threads : /\ phase[h][t] = "served"
                        /\ put[h][t].body.state = "held"
                        /\ put[h][t].body.fence = x

Fences == 1..MaxFence

GrantsBounded ==
  \A h \in Holders :
    /\ fence[h] <= doc.fence
    /\ \A t \in Threads :
         phase[h][t] = "served" /\ put[h][t].body.state = "held" =>
           put[h][t].body.fence \in 1..doc.fence

GrantsUnique ==
  \A g, h \in Holders : \A x \in Fences :
    Granted(g, x) /\ Granted(h, x) => g = h

\* Whatever renewal h has under way, its fence stays below x.
Behind(h, x) ==
  /\ fence[h] < x
  /\ phase[h]["renew"] = "sent" => put[h]["renew"].match.fence < x
  /\ phase[h]["renew"] = "served" => put[h]["renew"].body.fence < x

\* Once another holder has been granted a fence, h never gets past it.
GrantsOrdered ==
  \A g, h \in Holders : \A x \in Fences :
    g # h /\ fence[h] > 0 /\ Granted(g, x) /\ x >= fence[h] => Behind(h, x)

UserSound ==
  /\ lastSeen <= doc.fence
  /\ user = NoHolder => lastSeen = 0 /\ past = {}
  /\ user # NoHolder =>
       /\ lastSeen > 0
       /\ fence[user] >= lastSeen
       /\ \A g \in Holders : \A x \in Fences :
            g # user /\ Granted(g, x) /\ x >= lastSeen => Behind(user, x)

PastSound ==
  \A h \in past : h # user /\ fence[h] > 0 /\ Behind(h, lastSeen)

FenceCore ==
  /\ PutsSound
  /\ GrantsBounded
  /\ GrantsUnique
  /\ GrantsOrdered
  /\ UserSound
  /\ PastSound

FencingInv == TypeOK /\ Requests /\ FenceCore
-----------------------------------------------------------------------------
(***************************************************************************)
(* The strengthening behind OneRunner and NeverClobbered: who a PUT may    *)
(* take the lease from.                                                    *)
(***************************************************************************)

\* A PUT that may still be served writes its sender's name, or frees what its
\* sender held once the run was over; the lease it takes is the sender's own
\* or one that its GET took as expired.
Owned(p) ==
  /\ p.body.state = "held" => p.body.holder = p.by
  /\ p.body.state = "free" => /\ pc[p.by] \in {"releasing", "done"}
                              /\ p.match.state = "held"
                              /\ p.match.holder = p.by
                              /\ p.match.fence <= fence[p.by]
  /\ p.match.state = "held" => p.match.holder \in seized \cup {p.by}

\* The bucket may yet serve p, to a caller or as a stray.
Pending(p) ==
  p \in stray \/ \E h \in Holders, t \in Threads : phase[h][t] = "sent" /\ put[h][t] = p

PutsOwned ==
  /\ \A p \in Puts : Pending(p) => Owned(p)
  /\ \A h \in Holders, t \in Threads : phase[h][t] # "none" => put[h][t].by = h

\* h runs, or is about to: the bucket has served its Acquire.
Entitled(h) ==
  \/ pc[h] = "run"
  \/ pc[h] = "acquiring" /\ phase[h]["main"] = "served"

HoldersSound ==
  \A h \in Holders :
    Entitled(h) => h \in seized \/ (doc.state = "held" /\ doc.holder = h)

HolderInv == PutsOwned /\ HoldersSound
=============================================================================
