----------------------------- MODULE LeaseObject -----------------------------
(***************************************************************************)
(* backend/services/lease/lease.go: the object leases/<scope>.json in an   *)
(* S3 bucket and what Manager.Acquire, Renew, Release and EnsureLease read *)
(* from it and write to it.  Each of those is a GET followed by a PUT, and *)
(* the two are steps of their own, as are the moment the bucket serves the *)
(* PUT and the moment the caller gets the answer: any other node may run   *)
(* in between.  A PUT whose caller gave up (a cancelled context, a broken  *)
(* connection, a crash) may still be served later: it is then a stray.     *)
(*                                                                         *)
(* The bucket is external.  Its ETag is a digest of the body, so If-Match  *)
(* compares the body that was read with the body that is there.            *)
(* ExpiresAt is left out of the body: a fence is written with one expiry,  *)
(* and whether "now" is before it is for the reader's own clock to say.    *)
(***************************************************************************)
EXTENDS Integers

CONSTANTS
  Callers,   \* the processes that use the lease
  Holders,   \* the holder IDs they use it under
  NoHolder,  \* the empty holder of a free lease
  MaxFence   \* bound: fence tokens

ASSUME LeaseConstants ==
  /\ NoHolder \notin Holders
  /\ MaxFence \in Nat

\* A caller has at most two requests under way: the one of the goroutine that
\* runs the job, and the one of its renew loop.
Threads == {"main", "renew"}

Docs == [state : {"absent", "free", "held"}, holder : Holders \cup {NoHolder},
         fence : 0..MaxFence]

\* leaseDoc
FreeDoc(f)    == [state |-> "free", holder |-> NoHolder, fence |-> f]
HeldDoc(h, f) == [state |-> "held", holder |-> h, fence |-> f]
AbsentDoc     == [state |-> "absent", holder |-> NoHolder, fence |-> 0]

\* A PUT: who sends it, its If-Match, if any, and the body.
Puts == [by : Callers, ifMatch : BOOLEAN, match : Docs, body : Docs]
Phases == {"none", "sent", "served", "refused"}

VARIABLES
  doc,    \* the lease object
  put,    \* the PUT each thread of each caller waits for
  phase,  \* how far that PUT is
  stray   \* PUTs nobody waits for any more, which the bucket may yet serve

leaseVars == <<doc, put, phase, stray>>

\* Fault: a lease nobody has held yet starts one below fence 0.
CreatePut_BelowZero(c) ==
  [by |-> c, ifMatch |-> FALSE, match |-> AbsentDoc, body |-> FreeDoc(-1)]

\* No PUT yet.
NoPut(c) == [by |-> c, ifMatch |-> TRUE, match |-> AbsentDoc, body |-> AbsentDoc]

\* putUnconditional, the initial document of EnsureLease.
CreatePut(c) ==
  [by |-> c, ifMatch |-> FALSE, match |-> AbsentDoc, body |-> FreeDoc(0)]

\* Fault: the new holder keeps the fence of the one it replaces.
AcquirePut_SameFence(c, h, d) ==
  [by |-> c, ifMatch |-> TRUE, match |-> d, body |-> HeldDoc(h, d.fence)]

\* Acquire, from the document d it read: held, with the next fence.
AcquirePut(c, h, d) ==
  [by |-> c, ifMatch |-> TRUE, match |-> d, body |-> HeldDoc(h, d.fence + 1)]

\* Renew: the next fence too.
RenewPut(c, h, d) ==
  [by |-> c, ifMatch |-> TRUE, match |-> d, body |-> HeldDoc(h, d.fence + 1)]

\* Fault: the free document starts over at fence 0.
ReleasePut_FenceReset(c, d) ==
  [by |-> c, ifMatch |-> TRUE, match |-> d, body |-> FreeDoc(0)]

\* Fault: the free document is written without If-Match.
ReleasePut_NoMatch(c, d) ==
  [by |-> c, ifMatch |-> FALSE, match |-> d, body |-> FreeDoc(d.fence)]

\* Release: free, with the fence it was held at.
ReleasePut(c, d) ==
  [by |-> c, ifMatch |-> TRUE, match |-> d, body |-> FreeDoc(d.fence)]

\* Acquire refuses a lease that another holder has and that has not expired by
\* the reader's clock.
Refused(d, h, expired) == d.state = "held" /\ d.holder # h /\ ~expired

\* What Renew and Release ask of the document they read.
StillHeld(d, h, f) == d = HeldDoc(h, f)

\* ValidateFence, as the protected resource calls it.
ValidateFence(incoming, lastSeen) == incoming >= lastSeen

\* Fault: the bucket is not asked to compare ETags.
Accepts_Always(p, d) == TRUE

\* The bucket's answer to p: If-Match against the object as it is.
Accepts(p, d) == p.ifMatch => d = p.match

Send(c, t, p) ==
  /\ put' = [put EXCEPT ![c][t] = p]
  /\ phase' = [phase EXCEPT ![c][t] = "sent"]
  /\ UNCHANGED <<doc, stray>>

\* The bucket serves the PUT of a waiting caller.
Serve(c, t) ==
  /\ phase[c][t] = "sent"
  /\ IF Accepts(put[c][t], doc)
       THEN doc' = put[c][t].body /\ phase' = [phase EXCEPT ![c][t] = "served"]
       ELSE doc' = doc /\ phase' = [phase EXCEPT ![c][t] = "refused"]
  /\ UNCHANGED <<put, stray>>

\* It serves a PUT nobody waits for.
ServeStray(p) ==
  /\ p \in stray
  /\ doc' = IF Accepts(p, doc) THEN p.body ELSE doc
  /\ stray' = stray \ {p}
  /\ UNCHANGED <<put, phase>>

\* The thread has its answer, or stops waiting for it.
Finish(c, ts) ==
  /\ phase' = [phase EXCEPT ![c] =
                 [t \in Threads |-> IF t \in ts THEN "none" ELSE phase[c][t]]]
  /\ put' = [put EXCEPT ![c] =
               [t \in Threads |-> IF t \in ts THEN NoPut(c) ELSE put[c][t]]]
  /\ stray' = stray \cup {put[c][t] : t \in {u \in ts : phase[c][u] = "sent"}}
  /\ UNCHANGED doc
=============================================================================
