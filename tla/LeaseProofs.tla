----------------------------- MODULE LeaseProofs -----------------------------
(***************************************************************************)
(* Fencing holds for every set of holders and every bound: FencingInv of   *)
(* LeaseRunner is inductive when the lease object exists beforehand.  Its  *)
(* part FenceCore speaks of the object, the PUTs and the fences only, and  *)
(* six kinds of step change those: a PUT is sent, served to a caller,      *)
(* served as a stray, or finished with; an answer brings a new fence; the  *)
(* resource is used.  There is one lemma for each of them, and each action *)
(* of the specification is one of them, or changes none of that state.     *)
(***************************************************************************)
EXTENDS LeaseRunner, TLAPS

\* What FenceCore depends on.
coreVars == <<leaseVars, fence, resVars>>

\* A step of a goroutine that neither asks the bucket nor learns a fence.
LEMMA CoreUnchanged ==
  ASSUME FenceCore, UNCHANGED coreVars
  PROVE  FenceCore'
BY DEF FenceCore, coreVars, leaseVars, resVars, PutsSound, PutSound, GrantsBounded,
       GrantsUnique, GrantsOrdered, UserSound, PastSound, Granted, Behind, Fences

\* A PUT of the main goroutine is sent: nothing is granted by that.
LEMMA CoreSendMain ==
  ASSUME TypeOK, FenceCore, NEW h \in Holders, NEW p \in Puts,
         phase[h]["main"] = "none", PutSound(p),
         Send(h, "main", p), UNCHANGED <<fence, resVars>>
  PROVE  FenceCore'
<1> USE DEF Send, resVars, Threads, TypeOK, Docs, Puts
<1>1. PutsSound'
  BY DEF FenceCore, PutsSound, PutSound
<1>2. \A g \in Holders, x \in Fences : Granted(g, x)' <=> Granted(g, x)
  BY DEF Granted
<1>3. \A g \in Holders, x \in Fences : Behind(g, x)' <=> Behind(g, x)
  BY DEF Behind
<1>4. GrantsBounded'
  BY DEF FenceCore, GrantsBounded
<1>5. GrantsUnique' /\ GrantsOrdered'
  BY <1>2, <1>3 DEF FenceCore, GrantsUnique, GrantsOrdered
<1>6. UserSound'
  BY <1>2, <1>3 DEF FenceCore, UserSound
<1>7. PastSound'
  BY DEF FenceCore, PastSound, Behind
<1> QED
  BY <1>1, <1>4, <1>5, <1>6, <1>7 DEF FenceCore

\* A renewal is sent by one that holds the lease at the fence it knows: no
\* other holder has been granted a later one.
LEMMA CoreSendRenew ==
  ASSUME TypeOK, FenceCore, NEW h \in Holders, NEW p \in Puts,
         phase[h]["renew"] = "none", PutSound(p),
         p.match.fence = fence[h], doc.fence = fence[h], fence[h] > 0,
         Send(h, "renew", p), UNCHANGED <<fence, resVars>>
  PROVE  FenceCore'
<1> USE DEF Send, resVars, Threads, TypeOK, Docs, Puts
<1>1. PutsSound'
  BY DEF FenceCore, PutsSound, PutSound
<1>2. \A g \in Holders, x \in Fences : Granted(g, x)' <=> Granted(g, x)
  BY DEF Granted
<1>3. \A g \in Holders, x \in Fences : Behind(g, x) => Behind(g, x)'
  BY DEF Behind
<1>4. GrantsBounded'
  BY DEF FenceCore, GrantsBounded
<1>5. GrantsUnique' /\ GrantsOrdered'
  BY <1>2, <1>3 DEF FenceCore, GrantsUnique, GrantsOrdered
<1>6. UserSound'
  BY <1>2, <1>3 DEF FenceCore, UserSound
<1>7. PastSound'
  BY DEF FenceCore, PastSound, Behind
<1> QED
  BY <1>1, <1>4, <1>5, <1>6, <1>7 DEF FenceCore

\* A caller has its answer, or gives up: what it was granted and does not
\* know of is forgotten, what the bucket has not served is a stray.
LEMMA CoreFinish ==
  ASSUME TypeOK, FenceCore, NEW h \in Holders, NEW ts \in SUBSET Threads,
         Finish(h, ts), UNCHANGED <<fence, resVars>>
  PROVE  FenceCore'
<1> USE DEF Finish, resVars, Threads, TypeOK, Docs, Puts
<1>1. PutsSound'
  <2>1. ASSUME NEW p \in stray'
        PROVE  PutSound(p)'
    <3>1. p \in stray \/ \E t \in Threads : phase[h][t] = "sent" /\ p = put[h][t]
      BY <2>1
    <3>2. PutSound(p)
      BY <3>1 DEF FenceCore, PutsSound
    <3> QED
      BY <3>2 DEF PutSound
  <2>2. ASSUME NEW g \in Holders, NEW t \in Threads, phase'[g][t] = "sent"
        PROVE  PutSound(put[g][t])'
    <3>1. phase[g][t] = "sent" /\ put'[g][t] = put[g][t]
      BY <2>2
    <3>2. PutSound(put[g][t])
      BY <3>1 DEF FenceCore, PutsSound
    <3> QED
      BY <3>1, <3>2 DEF PutSound
  <2> QED
    BY <2>1, <2>2 DEF FenceCore, PutsSound
<1>2. \A g \in Holders, x \in Fences : Granted(g, x)' => Granted(g, x)
  BY DEF Granted
<1>3. \A g \in Holders, x \in Fences : Behind(g, x) => Behind(g, x)'
  BY DEF Behind
<1>4. GrantsBounded'
  BY DEF FenceCore, GrantsBounded
<1>5. GrantsUnique' /\ GrantsOrdered'
  BY <1>2, <1>3 DEF FenceCore, GrantsUnique, GrantsOrdered
<1>6. UserSound'
  BY <1>2, <1>3 DEF FenceCore, UserSound
<1>7. PastSound'
  BY DEF FenceCore, PastSound, Behind
<1> QED
  BY <1>1, <1>4, <1>5, <1>6, <1>7 DEF FenceCore

\* A caller learns the fence it was granted: by Acquire, or by Renew.
LEMMA CoreLearn ==
  ASSUME TypeOK, Requests, FenceCore, NEW h \in Holders, NEW t \in Threads,
         phase[h][t] = "served", put[h][t].body.state = "held",
         t = "main" => fence[h] = 0 /\ phase[h]["renew"] = "none",
         t = "renew" => fence[h] < put[h][t].body.fence,
         fence' = [fence EXCEPT ![h] = put[h][t].body.fence],
         Finish(h, {t}), UNCHANGED resVars
  PROVE  FenceCore'
<1> DEFINE b == put[h][t].body.fence
<1> USE DEF Finish, resVars, Threads, TypeOK, Docs, Puts
<1>1. PutsSound'
  BY DEF FenceCore, PutsSound, PutSound
<1>2. \A g \in Holders, x \in Fences : Granted(g, x)' => Granted(g, x)
  BY DEF Granted
<1>3. /\ b \in Fences
      /\ b <= doc.fence
      /\ Granted(h, b)
  BY DEF FenceCore, GrantsBounded, Granted, Fences
<1>4. \A g \in Holders, x \in Fences : g # h /\ Behind(g, x) => Behind(g, x)'
  BY DEF Behind
<1>5. \A x \in Fences : b < x => Behind(h, x)'
  BY <1>3 DEF Behind
<1>6. GrantsBounded'
  BY <1>3 DEF FenceCore, GrantsBounded, Fences
<1>7. GrantsUnique'
  BY <1>2 DEF FenceCore, GrantsUnique
<1>8. GrantsOrdered'
  <2> SUFFICES ASSUME NEW g \in Holders, NEW k \in Holders, NEW x \in Fences,
                      g # k, fence'[k] > 0, Granted(g, x)', x >= fence'[k]
               PROVE  Behind(k, x)'
    BY DEF GrantsOrdered
  <2>1. Granted(g, x)
    BY <1>2
  <2>2. CASE k = h
    <3>1. x # b
      BY <1>3, <2>1, <2>2 DEF FenceCore, GrantsUnique
    <3>2. fence'[k] = b /\ b \in Nat /\ x \in Nat
      BY <1>3, <2>2 DEF Fences
    <3>3. b < x
      BY <3>1, <3>2
    <3> QED
      BY <1>5, <2>2, <3>3
  <2>3. CASE k # h
    BY <1>4, <2>1, <2>3 DEF FenceCore, GrantsOrdered
  <2> QED
    BY <2>2, <2>3
<1>9. UserSound'
  <2>1. user # NoHolder /\ user = h => t = "renew"
    BY DEF FenceCore, UserSound
  <2>2. user # NoHolder => fence'[user] >= lastSeen
    BY <2>1 DEF FenceCore, UserSound
  <2>3. ASSUME user # NoHolder, NEW g \in Holders, NEW x \in Fences,
               g # user, Granted(g, x)', x >= lastSeen
        PROVE  Behind(user, x)'
    <3>1. Granted(g, x) /\ Behind(user, x)
      BY <1>2, <2>3 DEF FenceCore, UserSound
    <3>2. CASE user = h
      BY <1>5, <2>1, <2>3, <3>1, <3>2 DEF Behind
    <3>3. CASE user # h
      BY <1>4, <2>3, <3>1, <3>3
    <3> QED
      BY <3>2, <3>3
  <2> QED
    BY <2>2, <2>3 DEF FenceCore, UserSound
<1>10. PastSound'
  BY <1>5 DEF FenceCore, PastSound, Behind
<1> QED
  BY <1>1, <1>6, <1>7, <1>8, <1>9, <1>10 DEF FenceCore

\* The bucket serves a PUT nobody waits for: the fence rises, if anything, and
\* nobody is granted it.
LEMMA CoreServeStray ==
  ASSUME TypeOK, FenceCore, NEW p \in stray, ServeStray(p), UNCHANGED <<fence, resVars>>
  PROVE  FenceCore'
<1> USE DEF ServeStray, resVars, Threads, TypeOK, Docs, Puts
<1>1. PutSound(p)
  BY DEF FenceCore, PutsSound
<1>2. doc'.fence >= doc.fence /\ doc'.state # "absent"
  BY <1>1 DEF FenceCore, PutsSound, PutSound, Accepts
<1>3. doc'.fence \in Nat
  BY <1>1 DEF Accepts
<1>4. PutsSound'
  BY <1>2, <1>3 DEF FenceCore, PutsSound, PutSound
<1>5. \A g \in Holders, x \in Fences : Granted(g, x)' <=> Granted(g, x)
  BY DEF Granted
<1>6. \A g \in Holders, x \in Fences : Behind(g, x)' <=> Behind(g, x)
  BY DEF Behind
<1>7. GrantsBounded'
  BY <1>2, <1>3 DEF FenceCore, GrantsBounded
<1>8. GrantsUnique' /\ GrantsOrdered'
  BY <1>5, <1>6 DEF FenceCore, GrantsUnique, GrantsOrdered
<1>9. UserSound'
  BY <1>2, <1>3, <1>5, <1>6 DEF FenceCore, UserSound
<1>10. PastSound'
  BY DEF FenceCore, PastSound, Behind
<1> QED
  BY <1>4, <1>7, <1>8, <1>9, <1>10 DEF FenceCore

\* The bucket serves the PUT of a waiting caller.  One that is accepted carries
\* a fence above every fence granted before; a renewal that is accepted is of a
\* holder that nobody had overtaken.
LEMMA CoreServe ==
  ASSUME TypeOK, Requests, FenceCore, NEW h \in Holders, NEW t \in Threads,
         Serve(h, t), UNCHANGED <<fence, resVars>>
  PROVE  FenceCore'
<1> DEFINE b == put[h][t].body.fence
<1> USE DEF Serve, resVars, Threads, TypeOK, Docs, Puts
<1>0. PutSound(put[h][t])
  BY DEF FenceCore, PutsSound
<1>1. CASE ~Accepts(put[h][t], doc)
  <2>0. doc' = doc /\ phase' = [phase EXCEPT ![h][t] = "refused"]
    BY <1>1
  <2> HIDE DEF Serve
  <2> USE <2>0
  <2>9. put' = put /\ stray' = stray /\ phase[h][t] = "sent"
    BY DEF Serve
  <2> USE <2>9
  <2>1. PutsSound'
    BY DEF FenceCore, PutsSound, PutSound
  <2>2. \A g \in Holders, x \in Fences : Granted(g, x)' <=> Granted(g, x)
    BY DEF Granted
  <2>3. \A g \in Holders, x \in Fences : Behind(g, x) => Behind(g, x)'
    BY DEF Behind
  <2>4. GrantsBounded'
    BY DEF FenceCore, GrantsBounded
  <2>5. GrantsUnique' /\ GrantsOrdered'
    BY <2>2, <2>3 DEF FenceCore, GrantsUnique, GrantsOrdered
  <2>6. UserSound'
    BY <2>2, <2>3 DEF FenceCore, UserSound
  <2>7. PastSound'
    BY DEF FenceCore, PastSound, Behind
  <2> QED
    BY <2>1, <2>4, <2>5, <2>6, <2>7 DEF FenceCore
<1>2. CASE Accepts(put[h][t], doc)
  <2>1. /\ doc' = put[h][t].body
        /\ phase' = [phase EXCEPT ![h][t] = "served"]
        /\ put[h][t].match = doc
    BY <1>0, <1>2 DEF Accepts, PutSound
  <2>2. /\ b \in Nat /\ doc.fence \in Nat /\ doc'.fence = b
        /\ b >= doc.fence
        /\ doc'.state # "absent"
        /\ put[h][t].body.state = "held" => b = doc.fence + 1
    BY <1>0, <2>1 DEF PutSound
  <2>3. PutsSound'
    BY <2>1, <2>2 DEF FenceCore, PutsSound, PutSound
  <2>4. \A g \in Holders, x \in Fences :
          Granted(g, x)' => \/ Granted(g, x)
                            \/ g = h /\ x = b /\ put[h][t].body.state = "held"
    BY <2>1 DEF Granted
  <2>5. \A g \in Holders, x \in Fences : Granted(g, x) => x <= doc.fence
    BY DEF FenceCore, GrantsBounded, Granted, Fences
  <2>6. \A g \in Holders, x \in Fences : Behind(g, x) /\ x <= doc.fence => Behind(g, x)'
    BY <2>1, <2>2 DEF Behind, Fences
  <2>7. ASSUME put[h][t].body.state = "held", NEW k \in Holders, k # h
        PROVE  Behind(k, b)'
    <3>1. fence[k] < b
      BY <2>2, <2>7 DEF FenceCore, GrantsBounded
    <3>2. phase[k]["renew"] = "sent" => put[k]["renew"].match.fence < b
      BY <2>2, <2>7 DEF FenceCore, PutsSound, PutSound
    <3>3. ASSUME phase[k]["renew"] = "served"
          PROVE  put[k]["renew"].body.fence < b
      <4>1. put[k]["renew"].body.state = "held"
        BY <3>3 DEF Requests
      <4>2. put[k]["renew"].body.fence \in 1..doc.fence
        BY <3>3, <4>1 DEF FenceCore, GrantsBounded
      <4> QED
        BY <2>2, <2>7, <4>2
    <3> QED
      BY <2>1, <2>7, <3>1, <3>2, <3>3 DEF Behind
  <2>8. GrantsBounded'
    BY <2>1, <2>2 DEF FenceCore, GrantsBounded
  <2>9. GrantsUnique'
    BY <2>2, <2>4, <2>5 DEF FenceCore, GrantsUnique
  <2>10. GrantsOrdered'
    <3> SUFFICES ASSUME NEW g \in Holders, NEW k \in Holders, NEW x \in Fences,
                        g # k, fence[k] > 0, Granted(g, x)', x >= fence[k]
                 PROVE  Behind(k, x)'
      BY DEF GrantsOrdered
    <3>1. CASE Granted(g, x)
      BY <2>5, <2>6, <3>1 DEF FenceCore, GrantsOrdered
    <3>2. CASE g = h /\ x = b /\ put[h][t].body.state = "held"
      BY <2>7, <3>2
    <3> QED
      BY <2>4, <3>1, <3>2
  <2>11. UserSound'
    <3>1. ASSUME user # NoHolder, NEW g \in Holders, NEW x \in Fences,
                 g # user, Granted(g, x)', x >= lastSeen
          PROVE  Behind(user, x)'
      <4>1. CASE Granted(g, x)
        BY <2>5, <2>6, <3>1, <4>1 DEF FenceCore, UserSound
      <4>2. CASE g = h /\ x = b /\ put[h][t].body.state = "held"
        BY <2>7, <3>1, <4>2
      <4> QED
        BY <2>4, <3>1, <4>1, <4>2
    <3> QED
      BY <2>2, <3>1 DEF FenceCore, UserSound
  <2>12. PastSound'
    <3> SUFFICES ASSUME NEW k \in past
                 PROVE  (k # user /\ fence[k] > 0 /\ Behind(k, lastSeen))'
      BY DEF PastSound
    <3>1. k # user /\ fence[k] > 0 /\ Behind(k, lastSeen)
      BY DEF FenceCore, PastSound
    <3>2. lastSeen <= doc.fence /\ lastSeen \in Nat
      BY DEF FenceCore, UserSound
    <3> QED
      BY <2>1, <2>2, <3>1, <3>2 DEF Behind
  <2> QED
    BY <2>3, <2>8, <2>9, <2>10, <2>11, <2>12 DEF FenceCore
<1> QED
  BY <1>1, <1>2

\* The resource accepts a run's fence: the run has not left it before, and the
\* one that used it last is behind from now on.
LEMMA CoreUse ==
  ASSUME TypeOK, Requests, FenceCore, NEW h \in Holders, Use(h)
  PROVE  FenceCore'
<1> USE DEF Use, ValidateFence, leaseVars, runVars, Threads, TypeOK, Docs, Puts
<1>0. /\ fence[h] \in Fences /\ fence[h] >= lastSeen /\ fence[h] <= doc.fence
      /\ Granted(h, fence[h])
  BY LeaseConstants DEF Requests, FenceCore, GrantsBounded, Fences, Granted
<1>1. PutsSound' /\ GrantsBounded'
  BY DEF FenceCore, PutsSound, PutSound, GrantsBounded
<1>2. \A g \in Holders, x \in Fences : Granted(g, x)' <=> Granted(g, x)
  BY DEF Granted
<1>3. \A g \in Holders, x \in Fences : Behind(g, x)' <=> Behind(g, x)
  BY DEF Behind
<1>4. GrantsUnique' /\ GrantsOrdered'
  BY <1>2, <1>3 DEF FenceCore, GrantsUnique, GrantsOrdered
<1>5. UserSound'
  BY <1>0, <1>2, <1>3, LeaseConstants DEF FenceCore, GrantsOrdered, UserSound, Fences
<1>6. PastSound'
  <2> SUFFICES ASSUME NEW k \in past'
               PROVE  k # h /\ fence[k] > 0 /\ Behind(k, fence[h])
    BY <1>0, <1>3 DEF PastSound
  <2>1. CASE k \in past
    BY <1>0, <2>1 DEF FenceCore, PastSound, Behind, Fences
  <2>2. CASE user \notin {h, NoHolder} /\ k = user
    BY <1>0, <2>2 DEF FenceCore, UserSound
  <2> QED
    BY <2>1, <2>2
<1> QED
  BY <1>1, <1>4, <1>5, <1>6 DEF FenceCore
-----------------------------------------------------------------------------
\* The types of the request state after each of the four operations on it.
LeaseTypes ==
  /\ doc \in Docs
  /\ put \in [Holders -> [Threads -> Puts]]
  /\ phase \in [Holders -> [Threads -> Phases]]
  /\ stray \subseteq Puts

\* The PUTs are requests of their callers, with a fence within the bound.
LEMMA PutTypes ==
  ASSUME NEW h \in Holders, NEW d \in Docs
  PROVE  /\ NoPut(h) \in Puts
         /\ ReleasePut(h, d) \in Puts
         /\ d.fence < MaxFence => AcquirePut(h, h, d) \in Puts /\ RenewPut(h, h, d) \in Puts
BY LeaseConstants, RunnerConstants
   DEF NoPut, AcquirePut, RenewPut, ReleasePut, HeldDoc, FreeDoc, AbsentDoc, Docs, Puts

\* A request is sent.
LEMMA SendTypes ==
  ASSUME TypeOK, NEW h \in Holders, NEW t \in Threads, NEW p \in Puts, Send(h, t, p)
  PROVE  LeaseTypes'
BY DEF TypeOK, LeaseTypes, Send, Phases, Threads

\* A caller has its answers, or gives up.
LEMMA FinishTypes ==
  ASSUME TypeOK, NEW h \in Holders, NEW ts \in SUBSET Threads, Finish(h, ts)
  PROVE  LeaseTypes'
<1> USE DEF TypeOK, LeaseTypes, Finish
<1>1. NoPut(h) \in Puts
  BY PutTypes
<1>2. put' \in [Holders -> [Threads -> Puts]]
  BY <1>1
<1>3. phase' \in [Holders -> [Threads -> Phases]]
  BY DEF Phases
<1>4. stray' \subseteq Puts
  OBVIOUS
<1> QED
  BY <1>2, <1>3, <1>4

\* The bucket serves a waiting caller.
LEMMA ServeTypes ==
  ASSUME TypeOK, NEW h \in Holders, NEW t \in Threads, Serve(h, t)
  PROVE  LeaseTypes'
<1> USE DEF TypeOK, Serve
<1>1. doc' \in Docs
  BY DEF Puts
<1>2. phase' \in [Holders -> [Threads -> Phases]]
  <2>1. \E s \in Phases : phase' = [phase EXCEPT ![h][t] = s]
    BY DEF Phases
  <2> QED
    BY <2>1
<1> QED
  BY <1>1, <1>2 DEF LeaseTypes

\* The bucket serves a stray.
LEMMA StrayTypes ==
  ASSUME TypeOK, NEW p \in stray, ServeStray(p)
  PROVE  LeaseTypes'
BY DEF TypeOK, LeaseTypes, ServeStray, Puts

\* EnsureLease finds the object there.
LEMMA FencingEnsure ==
  ASSUME FencingInv, NEW h \in Holders, EnsureLease(h)
  PROVE  FencingInv'
<1> USE DEF FencingInv, leaseVars, runVars, resVars
<1>0. /\ pc' = [pc EXCEPT ![h] = "acquire"] /\ UNCHANGED leaseVars
      /\ UNCHANGED <<fence, renewing, lost, resVars, seized>>
  <2>1. doc.state # "absent"
    BY DEF FenceCore, PutsSound
  <2>2. pc[h] # "create"
    BY DEF Requests
  <2> QED
    BY <2>1, <2>2 DEF EnsureLease, Goto
<1>1. TypeOK'
  BY <1>0 DEF TypeOK, PCs
<1>2. Requests'
  <2>1. pc[h] = "ensure" /\ pc \in [Holders -> PCs]
    BY DEF EnsureLease, Requests, TypeOK
  <2>2. phase[h]["main"] = "none" /\ fence[h] = 0 /\ renewing[h] = "off"
    BY <2>1 DEF Requests
  <2>3. pc'[h] = "acquire" /\ \A g \in Holders \ {h} : pc'[g] = pc[g]
    BY <1>0, <2>1
  <2> QED
    BY <1>0, <2>2, <2>3 DEF Requests
<1>3. FenceCore'
  <2>1. UNCHANGED coreVars
    BY <1>0 DEF coreVars
  <2> QED
    BY <2>1, CoreUnchanged
<1> QED
  BY <1>1, <1>2, <1>3

\* Acquire reads the object and sends the next fence, or is refused.
LEMMA FencingAcquireGet ==
  ASSUME FencingInv, NEW h \in Holders, AcquireGet(h)
  PROVE  FencingInv'
<1> USE DEF FencingInv, AcquireGet, Goto, leaseVars, runVars, resVars
<1>1. CASE pc' = [pc EXCEPT ![h] = "done"] /\ UNCHANGED leaseVars
  <2>1. TypeOK'
    BY <1>1 DEF TypeOK, PCs
  <2>2. Requests'
    BY <1>1 DEF TypeOK, Requests, Threads, PCs
  <2>3. FenceCore'
    BY <1>1, CoreUnchanged DEF coreVars
  <2> QED
    BY <2>1, <2>2, <2>3
<1>2. CASE /\ pc' = [pc EXCEPT ![h] = "acquiring"]
           /\ doc.fence < MaxFence
           /\ Send(h, "main", AcquirePut(h, h, doc))
  <2> DEFINE p == AcquirePut(h, h, doc)
  <2>1. p \in Puts
    BY <1>2, PutTypes DEF TypeOK
  <2>2. PutSound(p)
    BY DEF TypeOK, Docs, PutSound, AcquirePut, HeldDoc
  <2>3. TypeOK'
    <3>1. LeaseTypes'
      BY <1>2, <2>1, SendTypes DEF Threads
    <3>2. seized' \subseteq Holders \cup {NoHolder}
      BY DEF TypeOK, Docs
    <3> QED
      BY <1>2, <3>1, <3>2 DEF TypeOK, LeaseTypes, PCs
  <2>4. Requests'
    <3>1. p.body.state = "held"
      BY DEF AcquirePut, HeldDoc
    <3> HIDE DEF p
    <3> QED
      BY <1>2, <3>1 DEF TypeOK, Requests, Send, Threads, PCs, p
  <2>5. FenceCore'
    <3>1. phase[h]["main"] = "none"
      BY DEF TypeOK, Requests
    <3> QED
      BY <1>2, <2>1, <2>2, <3>1, CoreSendMain
  <2> QED
    BY <2>3, <2>4, <2>5
<1> QED
  BY <1>1, <1>2

\* Acquire's answer: the fence it was granted, or ErrLost.
LEMMA FencingAcquired ==
  ASSUME FencingInv, NEW h \in Holders, Acquired(h)
  PROVE  FencingInv'
<1> USE DEF FencingInv, Acquired, Goto, leaseVars, runVars, resVars
<1>0. LeaseTypes'
  BY FinishTypes DEF Threads
<1>1. TypeOK'
  <2>1. put[h]["main"].body.fence \in 0..MaxFence
    BY DEF TypeOK, Threads, Puts, Docs
  <2> QED
    BY <1>0, <2>1 DEF TypeOK, LeaseTypes, PCs
<1>2. CASE phase[h]["main"] = "served"
  <2>1. put[h]["main"].body.state = "held" /\ fence[h] = 0 /\ phase[h]["renew"] = "none"
    BY <1>2 DEF TypeOK, Requests, Threads
  <2>2. put[h]["main"].body.fence \in 1..doc.fence
    BY <1>2, <2>1 DEF FenceCore, GrantsBounded, Threads
  <2>3. Requests'
    BY <1>2, <2>1, <2>2 DEF TypeOK, Requests, Finish, Threads, PCs, Docs, Puts
  <2>4. FenceCore'
    BY <1>2, <2>1, CoreLearn DEF Threads
  <2> QED
    BY <1>1, <2>3, <2>4
<1>3. CASE phase[h]["main"] # "served"
  <2>1. Requests'
    BY <1>3 DEF TypeOK, Requests, Finish, Threads, PCs
  <2>2. FenceCore'
    BY <1>3, CoreFinish DEF Threads
  <2> QED
    BY <1>1, <2>1, <2>2
<1> QED
  BY <1>2, <1>3

\* Renew reads the object and sends the next fence, or tells the run to stop.
LEMMA FencingRenewGet ==
  ASSUME FencingInv, NEW h \in Holders, RenewGet(h)
  PROVE  FencingInv'
<1> USE DEF FencingInv, RenewGet, Goto, leaseVars, runVars, resVars
<1>1. CASE RenewFails(h) /\ UNCHANGED leaseVars
  <2>1. TypeOK'
    BY <1>1 DEF TypeOK, RenewFails
  <2>2. Requests'
    BY <1>1 DEF TypeOK, Requests, RenewFails, Threads
  <2>3. FenceCore'
    BY <1>1, CoreUnchanged DEF coreVars
  <2> QED
    BY <2>1, <2>2, <2>3
<1>2. CASE /\ StillHeld(doc, h, fence[h])
           /\ doc.fence < MaxFence
           /\ renewing' = [renewing EXCEPT ![h] = "call"]
           /\ Send(h, "renew", RenewPut(h, h, doc))
           /\ UNCHANGED lost
  <2> DEFINE p == RenewPut(h, h, doc)
  <2>1. p \in Puts
    BY <1>2, PutTypes DEF TypeOK
  <2>2. PutSound(p)
    BY DEF TypeOK, Docs, PutSound, RenewPut, HeldDoc
  <2>3. TypeOK'
    <3>1. LeaseTypes'
      BY <1>2, <2>1, SendTypes DEF Threads
    <3> QED
      BY <1>2, <3>1 DEF TypeOK, LeaseTypes
  <2>4. /\ p.body.state = "held" /\ p.body.fence = fence[h] + 1
        /\ p.match.fence = fence[h] /\ doc.fence = fence[h]
    BY <1>2 DEF RenewPut, HeldDoc, StillHeld
  <2>5. Requests'
    <3> HIDE DEF p
    <3> QED
      BY <1>2, <2>4 DEF TypeOK, Requests, Send, Threads, p
  <2>6. FenceCore'
    <3>1. phase[h]["renew"] = "none" /\ fence[h] > 0
      BY DEF TypeOK, Requests
    <3> QED
      BY <1>2, <2>1, <2>2, <2>4, <3>1, CoreSendRenew
  <2> QED
    BY <2>3, <2>5, <2>6
<1> QED
  BY <1>1, <1>2

\* Renew's answer: the new fence, or ErrLost.
LEMMA FencingRenewed ==
  ASSUME FencingInv, NEW h \in Holders, Renewed(h)
  PROVE  FencingInv'
<1> USE DEF FencingInv, Renewed, RenewFails, resVars
<1>0. LeaseTypes'
  BY FinishTypes DEF Threads
<1>1. TypeOK'
  <2>1. put[h]["renew"].body.fence \in 0..MaxFence
    BY DEF TypeOK, Threads, Puts, Docs
  <2> QED
    BY <1>0, <2>1 DEF TypeOK, LeaseTypes
<1>2. CASE phase[h]["renew"] = "served"
  <2>1. put[h]["renew"].body.state = "held" /\ fence[h] < put[h]["renew"].body.fence
    BY <1>2 DEF TypeOK, Requests, Threads, Puts, Docs
  <2>2. put[h]["renew"].body.fence \in 1..doc.fence
    BY <1>2, <2>1 DEF FenceCore, GrantsBounded, Threads
  <2>3. Requests'
    BY <1>2, <2>1, <2>2 DEF TypeOK, Requests, Finish, Threads, Docs, Puts
  <2>4. FenceCore'
    BY <1>2, <2>1, CoreLearn DEF Threads
  <2> QED
    BY <1>1, <2>3, <2>4
<1>3. CASE phase[h]["renew"] # "served"
  <2>1. Requests'
    BY <1>3 DEF TypeOK, Requests, Finish, Threads
  <2>2. FenceCore'
    BY <1>3, CoreFinish DEF Threads
  <2> QED
    BY <1>1, <2>1, <2>2
<1> QED
  BY <1>2, <1>3

\* Renew's PUT is cut short.
LEMMA FencingRenewCut ==
  ASSUME FencingInv, NEW h \in Holders, RenewCut(h)
  PROVE  FencingInv'
<1> USE DEF FencingInv, RenewCut, Goto, leaseVars, runVars, resVars
<1>0. LeaseTypes'
  BY FinishTypes DEF Threads
<1>1. TypeOK'
  BY <1>0 DEF TypeOK, LeaseTypes, PCs, RenewFails
<1>2. Requests'
  BY DEF TypeOK, Requests, Threads, PCs, Finish, RenewFails
<1>3. FenceCore'
  BY CoreFinish DEF Threads, RenewFails
<1> QED
  BY <1>1, <1>2, <1>3

\* The renew loop ends with the run.
LEMMA FencingRenewStops ==
  ASSUME FencingInv, NEW h \in Holders, RenewStops(h)
  PROVE  FencingInv'
<1> USE DEF FencingInv, RenewStops, Goto, leaseVars, runVars, resVars
<1>1. TypeOK'
  BY DEF TypeOK, PCs
<1>2. Requests'
  BY DEF TypeOK, Requests, Threads, PCs
<1>3. FenceCore'
  BY CoreUnchanged DEF coreVars
<1> QED
  BY <1>1, <1>2, <1>3

\* A GET of the renew loop fails.
LEMMA FencingRenewGetFails ==
  ASSUME FencingInv, NEW h \in Holders, RenewGetFails(h)
  PROVE  FencingInv'
<1> USE DEF FencingInv, RenewGetFails, Goto, leaseVars, runVars, resVars
<1>1. TypeOK'
  BY DEF TypeOK, PCs, RenewFails
<1>2. Requests'
  BY DEF TypeOK, Requests, Threads, PCs, RenewFails
<1>3. FenceCore'
  BY CoreUnchanged DEF coreVars, RenewFails
<1> QED
  BY <1>1, <1>2, <1>3

\* The run uses the protected resource.
LEMMA FencingUse ==
  ASSUME FencingInv, NEW h \in Holders, Use(h)
  PROVE  FencingInv'
<1> USE DEF FencingInv, Use, Goto, leaseVars, runVars, resVars
<1>1. TypeOK'
  BY DEF TypeOK
<1>2. Requests'
  BY DEF Requests
<1>3. FenceCore'
  BY CoreUse
<1> QED
  BY <1>1, <1>2, <1>3

\* The run ends.
LEMMA FencingRunEnds ==
  ASSUME FencingInv, NEW h \in Holders, RunEnds(h)
  PROVE  FencingInv'
<1> USE DEF FencingInv, RunEnds, Goto, leaseVars, runVars, resVars
<1>1. TypeOK'
  BY DEF TypeOK, PCs
<1>2. Requests'
  BY DEF TypeOK, Requests, Threads, PCs
<1>3. FenceCore'
  BY CoreUnchanged DEF coreVars
<1> QED
  BY <1>1, <1>2, <1>3

\* The renew loop of a job has ended.
LEMMA FencingDrained ==
  ASSUME FencingInv, NEW h \in Holders, Drained(h)
  PROVE  FencingInv'
<1> USE DEF FencingInv, Drained, Goto, leaseVars, runVars, resVars
<1>1. TypeOK'
  BY DEF TypeOK, PCs
<1>2. Requests'
  BY DEF TypeOK, Requests, Threads, PCs
<1>3. FenceCore'
  BY CoreUnchanged DEF coreVars
<1> QED
  BY <1>1, <1>2, <1>3

\* Release reads the object and sends the free one, or has nothing to release.
LEMMA FencingReleaseGet ==
  ASSUME FencingInv, NEW h \in Holders, ReleaseGet(h)
  PROVE  FencingInv'
<1> USE DEF FencingInv, ReleaseGet, Goto, leaseVars, runVars, resVars
<1>1. CASE pc' = [pc EXCEPT ![h] = "done"] /\ UNCHANGED leaseVars
  <2>1. TypeOK'
    BY <1>1 DEF TypeOK, PCs
  <2>2. Requests'
    BY <1>1 DEF TypeOK, Requests, Threads, PCs
  <2>3. FenceCore'
    BY <1>1, CoreUnchanged DEF coreVars
  <2> QED
    BY <2>1, <2>2, <2>3
<1>2. CASE pc' = [pc EXCEPT ![h] = "releasing"] /\ Send(h, "main", ReleasePut(h, doc))
  <2> DEFINE p == ReleasePut(h, doc)
  <2>1. p \in Puts
    BY PutTypes DEF TypeOK
  <2>2. PutSound(p)
    BY DEF TypeOK, Docs, PutSound, ReleasePut, FreeDoc
  <2>3. TypeOK'
    <3>1. LeaseTypes'
      BY <1>2, <2>1, SendTypes DEF Threads
    <3> QED
      BY <1>2, <3>1 DEF TypeOK, LeaseTypes, PCs
  <2>4. Requests'
    <3>1. p.body.state = "free"
      BY DEF ReleasePut, FreeDoc
    <3> HIDE DEF p
    <3> QED
      BY <1>2, <3>1 DEF TypeOK, Requests, Send, Threads, PCs, p
  <2>5. FenceCore'
    <3>1. phase[h]["main"] = "none"
      BY DEF TypeOK, Requests
    <3> QED
      BY <1>2, <2>1, <2>2, <3>1, CoreSendMain
  <2> QED
    BY <2>3, <2>4, <2>5
<1> QED
  BY <1>1, <1>2

\* Release has its answer.
LEMMA FencingReleased ==
  ASSUME FencingInv, NEW h \in Holders, Released(h)
  PROVE  FencingInv'
<1> USE DEF FencingInv, Released, Goto, leaseVars, runVars, resVars
<1>0. LeaseTypes'
  BY FinishTypes DEF Threads
<1>1. TypeOK'
  BY <1>0 DEF TypeOK, LeaseTypes, PCs
<1>2. Requests'
  BY DEF TypeOK, Requests, Threads, PCs, Finish
<1>3. FenceCore'
  BY CoreFinish DEF Threads
<1> QED
  BY <1>1, <1>2, <1>3

\* A request of the main goroutine fails.
LEMMA FencingCallFails ==
  ASSUME FencingInv, NEW h \in Holders, CallFails(h)
  PROVE  FencingInv'
<1> USE DEF FencingInv, CallFails, Goto, leaseVars, runVars, resVars
<1>0. LeaseTypes'
  BY FinishTypes DEF Threads
<1>1. TypeOK'
  BY <1>0 DEF TypeOK, LeaseTypes, PCs
<1>2. Requests'
  BY DEF TypeOK, Requests, Threads, PCs, Finish
<1>3. FenceCore'
  BY CoreFinish DEF Threads
<1> QED
  BY <1>1, <1>2, <1>3

\* The process dies.
LEMMA FencingCrash ==
  ASSUME FencingInv, NEW h \in Holders, Crash(h)
  PROVE  FencingInv'
<1> USE DEF FencingInv, Crash, Goto, leaseVars, runVars, resVars
<1>0. LeaseTypes'
  BY FinishTypes DEF Threads
<1>1. TypeOK'
  BY <1>0 DEF TypeOK, LeaseTypes, PCs
<1>2. Requests'
  BY DEF TypeOK, Requests, Threads, PCs, Finish
<1>3. FenceCore'
  BY CoreFinish DEF Threads
<1> QED
  BY <1>1, <1>2, <1>3

\* The bucket serves a request, or a stray.
LEMMA FencingBucket ==
  ASSUME FencingInv, Bucket
  PROVE  FencingInv'
<1> USE DEF FencingInv, Bucket, runVars, resVars
<1>1. CASE \E h \in Holders, t \in Threads : Serve(h, t)
  <2> PICK h \in Holders, t \in Threads : Serve(h, t)
    BY <1>1
  <2>1. TypeOK'
    <3>1. LeaseTypes'
      BY ServeTypes
    <3> QED
      BY <3>1 DEF TypeOK, LeaseTypes
  <2>2. Requests'
    BY DEF TypeOK, Requests, Serve, Threads
  <2>3. FenceCore'
    BY CoreServe
  <2> QED
    BY <2>1, <2>2, <2>3
<1>2. CASE \E p \in stray : ServeStray(p)
  <2> PICK p \in stray : ServeStray(p)
    BY <1>2
  <2>1. TypeOK'
    <3>1. LeaseTypes'
      BY StrayTypes
    <3> QED
      BY <3>1 DEF TypeOK, LeaseTypes
  <2>2. Requests'
    BY DEF Requests, ServeStray
  <2>3. FenceCore'
    BY CoreServeStray
  <2> QED
    BY <2>1, <2>2, <2>3
<1> QED
  BY <1>1, <1>2

\* A lease that nobody holds, and no request.
LEMMA FencingInit ==
  ASSUME Existing, Init
  PROVE  FencingInv
<1> USE LeaseConstants, RunnerConstants
        DEF Init, FreeDoc, Docs, Threads, Fences
<1>1. TypeOK
  BY PutTypes DEF TypeOK, Phases, PCs, NoPut, AbsentDoc, Puts
<1>2. Requests
  BY DEF Requests
<1>3. FenceCore
  BY DEF FenceCore, PutsSound, GrantsBounded, GrantsUnique, GrantsOrdered,
         UserSound, PastSound, Granted
<1> QED
  BY <1>1, <1>2, <1>3 DEF FencingInv

\* Every step keeps the invariant.
LEMMA FencingNext ==
  ASSUME FencingInv, [Next]_vars
  PROVE  FencingInv'
<1>1. CASE Bucket
  BY <1>1, FencingBucket
<1>2. ASSUME NEW h \in Holders, Main(h)
      PROVE  FencingInv'
  <2>1. CASE EnsureLease(h)
    BY <2>1, FencingEnsure
  <2>2. CASE AcquireGet(h)
    BY <2>2, FencingAcquireGet
  <2>3. CASE Acquired(h)
    BY <2>3, FencingAcquired
  <2>4. CASE RunEnds(h)
    BY <2>4, FencingRunEnds
  <2>5. CASE Drained(h)
    BY <2>5, FencingDrained
  <2>6. CASE ReleaseGet(h)
    BY <2>6, FencingReleaseGet
  <2>7. CASE Released(h)
    BY <2>7, FencingReleased
  <2>8. CASE CallFails(h)
    BY <2>8, FencingCallFails
  <2> QED
    BY <1>2, <2>1, <2>2, <2>3, <2>4, <2>5, <2>6, <2>7, <2>8 DEF Main
<1>3. ASSUME NEW h \in Holders, Loop(h)
      PROVE  FencingInv'
  BY <1>3, FencingRenewGet, FencingRenewed, FencingRenewCut, FencingRenewStops,
     FencingRenewGetFails DEF Loop
<1>4. ASSUME NEW h \in Holders, Use(h) \/ Crash(h)
      PROVE  FencingInv'
  BY <1>4, FencingUse, FencingCrash
<1>5. CASE UNCHANGED vars
  <2>1. TypeOK'
    BY <1>5 DEF FencingInv, TypeOK, vars
  <2>2. Requests'
    BY <1>5 DEF FencingInv, Requests, vars
  <2>3. FenceCore'
    BY <1>5, CoreUnchanged DEF FencingInv, vars, coreVars, leaseVars, resVars
  <2> QED
    BY <2>1, <2>2, <2>3 DEF FencingInv
<1> QED
  BY <1>1, <1>2, <1>3, <1>4, <1>5 DEF Next
-----------------------------------------------------------------------------
\* FencingInv is an invariant of the lease and its users, however many run it
\* and whatever expires, is lost, comes late or crashes, when the lease object
\* was created beforehand.
THEOREM FencingInvariant ==
  ASSUME Existing
  PROVE  Spec => []FencingInv
<1>1. Init => FencingInv
  BY FencingInit
<1>2. FencingInv /\ [Next]_vars => FencingInv'
  BY FencingNext
<1> QED
  BY <1>1, <1>2, PTL DEF Spec

\* Fencing: the protected resource never serves a run again that it has left
\* for another one (lease.go, ValidateFence), for any number of runs.
THEOREM NoReturnHolds ==
  ASSUME Existing
  PROVE  Spec => []NoReturn
<1>1. FencingInv => NoReturn
  BY DEF FencingInv, FenceCore, PastSound, NoReturn
<1> QED
  BY <1>1, FencingInvariant, PTL

\* The fence of the lease object never falls (lease.go, Release keeps it).
THEOREM FenceNeverFallsHolds ==
  ASSUME Existing
  PROVE  Spec => FenceNeverFalls
<1>1. FencingInv /\ [Next]_vars => [doc'.fence >= doc.fence]_vars
  <2> SUFFICES ASSUME FencingInv, Next
               PROVE  doc'.fence >= doc.fence
    OBVIOUS
  <2>0. doc.fence \in Nat
    BY DEF FencingInv, TypeOK, Docs
  <2>1. CASE UNCHANGED doc
    BY <2>0, <2>1
  <2>2. CASE \E h \in Holders, t \in Threads : Serve(h, t)
    <3> PICK h \in Holders, t \in Threads : Serve(h, t)
      BY <2>2
    <3>1. PutSound(put[h][t])
      BY DEF FencingInv, FenceCore, PutsSound, Serve
    <3> QED
      BY <2>0, <3>1 DEF Serve, Accepts, PutSound
  <2>3. CASE \E p \in stray : ServeStray(p)
    <3> PICK p \in stray : ServeStray(p)
      BY <2>3
    <3>1. PutSound(p)
      BY DEF FencingInv, FenceCore, PutsSound
    <3> QED
      BY <2>0, <3>1 DEF ServeStray, Accepts, PutSound
  <2> QED
    BY <2>1, <2>2, <2>3
       DEF Next, Bucket, Main, Loop, EnsureLease, AcquireGet, Acquired, RunEnds,
           Drained, ReleaseGet, Released, CallFails, RenewGet, Renewed, RenewCut,
           RenewStops, RenewGetFails, Use, Crash, Send, Finish, leaseVars
<1> QED
  BY <1>1, FencingInvariant, PTL DEF Spec, FenceNeverFalls
-----------------------------------------------------------------------------
(***************************************************************************)
(* One runner at a time.  HolderInv rests on FencingInv for the shape of   *)
(* the requests; it speaks of where a run is, so that a step has to be     *)
(* known not to take a run back (Forward).                                 *)
(***************************************************************************)
\* No run goes back, no fence falls, nobody becomes entitled to run.
Forward ==
  /\ \A h \in Holders :
       /\ pc[h] \in {"releasing", "done"} => pc'[h] \in {"releasing", "done"}
       /\ fence'[h] >= fence[h]
       /\ Entitled(h)' => Entitled(h)
  /\ seized \subseteq seized'

\* No step takes the sender of a Release back into its run.
LEMMA OwnedKept ==
  ASSUME TypeOK, TypeOK', Forward, NEW p \in Puts, Owned(p)
  PROVE  Owned(p)'
<1>1. p.by \in Holders /\ p.match.fence \in Int
  BY RunnerConstants, LeaseConstants DEF Puts, Docs
<1>2. fence[p.by] \in Int /\ fence'[p.by] \in Int
  BY <1>1, LeaseConstants DEF TypeOK
<1> QED
  BY <1>1, <1>2 DEF Owned, Forward

\* A PUT is sent.
LEMMA OwnedSend ==
  ASSUME TypeOK, TypeOK', PutsOwned, Forward, NEW h \in Holders, NEW t \in Threads,
         NEW p \in Puts, p.by = h, Owned(p)', Send(h, t, p)
  PROVE  PutsOwned'
<1>1. ASSUME NEW q \in Puts, Pending(q)'
      PROVE  Owned(q)'
  <2>1. q = p \/ Pending(q)
    BY <1>1 DEF Pending, Send, TypeOK
  <2> QED
    BY <2>1, OwnedKept DEF PutsOwned
<1>2. \A g \in Holders, u \in Threads : phase'[g][u] # "none" => put'[g][u].by = g
  BY DEF PutsOwned, Send, TypeOK
<1> QED
  BY <1>1, <1>2 DEF PutsOwned

\* A caller has its answer, or gives up: a PUT not yet served is a stray.
LEMMA OwnedFinish ==
  ASSUME TypeOK, TypeOK', PutsOwned, Forward, NEW h \in Holders,
         NEW ts \in SUBSET Threads, Finish(h, ts)
  PROVE  PutsOwned'
<1>1. ASSUME NEW q \in Puts, Pending(q)'
      PROVE  Owned(q)'
  <2>1. Pending(q)
    <3>1. CASE q \in stray'
      BY <3>1 DEF Pending, Finish, TypeOK
    <3>2. CASE \E g \in Holders, u \in Threads : phase'[g][u] = "sent" /\ put'[g][u] = q
      BY <3>2 DEF Pending, Finish, TypeOK
    <3> QED
      BY <1>1, <3>1, <3>2 DEF Pending
  <2> QED
    BY <2>1, OwnedKept DEF PutsOwned
<1>2. \A g \in Holders, u \in Threads : phase'[g][u] # "none" => put'[g][u].by = g
  BY DEF PutsOwned, Finish, TypeOK
<1> QED
  BY <1>1, <1>2 DEF PutsOwned

\* A step that asks the bucket for nothing.
LEMMA OwnedUnchanged ==
  ASSUME TypeOK, TypeOK', PutsOwned, Forward, UNCHANGED leaseVars
  PROVE  PutsOwned'
<1>1. ASSUME NEW q \in Puts, Pending(q)'
      PROVE  Owned(q)'
  <2>1. Pending(q)
    BY <1>1 DEF Pending, leaseVars
  <2> QED
    BY <2>1, OwnedKept DEF PutsOwned
<1> QED
  BY <1>1 DEF PutsOwned, leaseVars

\* Whoever is entitled to run stays so, or stops: the object is not written.
LEMMA HoldersKept ==
  ASSUME HoldersSound, Forward, UNCHANGED doc
  PROVE  HoldersSound'
BY DEF HoldersSound, Forward

\* Acquire: what it takes from another holder, it takes as expired.
LEMMA HolderAcquireGet ==
  ASSUME FencingInv, FencingInv', HolderInv, NEW h \in Holders, AcquireGet(h)
  PROVE  HolderInv'
<1> USE DEF FencingInv, HolderInv
<1>1. Forward
  BY DEF AcquireGet, Goto, Send, Forward, Entitled, TypeOK, leaseVars, Requests
<1>2. HoldersSound'
  BY <1>1, HoldersKept DEF AcquireGet, Send, leaseVars
<1>3. CASE UNCHANGED leaseVars
  BY <1>1, <1>2, <1>3, OwnedUnchanged
<1>4. CASE /\ doc.fence < MaxFence
           /\ Send(h, "main", AcquirePut(h, h, doc))
           /\ seized' = IF doc.state = "held" THEN seized \cup {doc.holder} ELSE seized
  <2>1. AcquirePut(h, h, doc) \in Puts
    BY <1>4, PutTypes DEF TypeOK
  <2> PICK p \in Puts : p = AcquirePut(h, h, doc)
    BY <2>1
  <2>2. p.by = h /\ Owned(p)'
    BY <1>4 DEF Owned, AcquirePut, HeldDoc
  <2>3. PutsOwned'
    BY <1>1, <1>4, <2>1, <2>2, OwnedSend DEF Threads
  <2> QED
    BY <1>2, <2>3
<1> QED
  BY <1>3, <1>4 DEF AcquireGet

\* Release frees what its own run held, which is over.
LEMMA HolderReleaseGet ==
  ASSUME FencingInv, FencingInv', HolderInv, NEW h \in Holders, ReleaseGet(h)
  PROVE  HolderInv'
<1> USE DEF FencingInv, HolderInv
<1>1. Forward
  <2>1. \A g \in Holders : fence'[g] >= fence[g]
    BY LeaseConstants DEF ReleaseGet, TypeOK
  <2>2. /\ pc[h] = "release" /\ pc'[h] \in {"releasing", "done"} /\ seized' = seized
        /\ \A g \in Holders \ {h} : pc'[g] = pc[g] /\ phase'[g] = phase[g]
    BY DEF ReleaseGet, Goto, Send, TypeOK, leaseVars
  <2> QED
    BY <2>1, <2>2 DEF Forward, Entitled
<1>2. HoldersSound'
  BY <1>1, HoldersKept DEF ReleaseGet, Send, leaseVars
<1>3. CASE UNCHANGED leaseVars
  BY <1>1, <1>2, <1>3, OwnedUnchanged
<1>4. CASE /\ StillHeld(doc, h, fence[h])
           /\ Goto(h, "releasing")
           /\ Send(h, "main", ReleasePut(h, doc))
  <2>1. ReleasePut(h, doc) \in Puts
    BY <1>4, PutTypes DEF TypeOK
  <2> PICK p \in Puts : p = ReleasePut(h, doc)
    BY <2>1
  <2>2. p.by = h /\ p.match = HeldDoc(h, fence[h]) /\ p.body.state = "free"
    BY <1>4 DEF ReleasePut, FreeDoc, StillHeld
  <2>3. pc'[h] = "releasing" /\ fence'[h] = fence[h] /\ fence[h] \in Int
    BY <1>4, LeaseConstants DEF Goto, TypeOK, ReleaseGet
  <2>4. Owned(p)'
    BY <2>2, <2>3 DEF Owned, HeldDoc
  <2>5. PutsOwned'
    BY <1>1, <1>4, <2>1, <2>2, <2>4, OwnedSend DEF Threads
  <2> QED
    BY <1>2, <2>5
<1> QED
  BY <1>3, <1>4 DEF ReleaseGet

\* Renew writes what its sender holds.
LEMMA HolderRenewGet ==
  ASSUME FencingInv, FencingInv', HolderInv, NEW h \in Holders, RenewGet(h)
  PROVE  HolderInv'
<1> USE DEF FencingInv, HolderInv
<1>1. Forward
  <2>1. \A g \in Holders : fence'[g] >= fence[g]
    BY LeaseConstants DEF RenewGet, TypeOK
  <2>2. /\ UNCHANGED <<pc, seized>>
        /\ \A g \in Holders : phase'[g]["main"] = phase[g]["main"]
    <3>1. phase' = phase \/ phase' = [phase EXCEPT ![h]["renew"] = "sent"]
      BY DEF RenewGet, Send, leaseVars
    <3>2. phase \in [Holders -> [Threads -> Phases]]
      BY DEF TypeOK
    <3>3. \A g \in Holders : phase'[g]["main"] = phase[g]["main"]
      BY <3>1, <3>2 DEF Threads
    <3> QED
      BY <3>3 DEF RenewGet
  <2> QED
    BY <2>1, <2>2 DEF Forward, Entitled
<1>2. HoldersSound'
  BY <1>1, HoldersKept DEF RenewGet, Send, leaseVars
<1>3. CASE UNCHANGED leaseVars
  BY <1>1, <1>2, <1>3, OwnedUnchanged
<1>4. CASE /\ StillHeld(doc, h, fence[h])
           /\ doc.fence < MaxFence
           /\ Send(h, "renew", RenewPut(h, h, doc))
  <2>1. RenewPut(h, h, doc) \in Puts
    BY <1>4, PutTypes DEF TypeOK
  <2> PICK p \in Puts : p = RenewPut(h, h, doc)
    BY <2>1
  <2>2. p.by = h /\ Owned(p)'
    BY <1>4 DEF Owned, RenewPut, HeldDoc, StillHeld
  <2>3. PutsOwned'
    BY <1>1, <1>4, <2>1, <2>2, OwnedSend DEF Threads
  <2> QED
    BY <1>2, <2>3
<1> QED
  BY <1>3, <1>4 DEF RenewGet

\* An answer of the bucket, a failure or a crash.
LEMMA HolderFinish ==
  ASSUME FencingInv, FencingInv', HolderInv, NEW h \in Holders,
         \/ Acquired(h) \/ Released(h) \/ CallFails(h) \/ Renewed(h) \/ RenewCut(h)
         \/ Crash(h)
  PROVE  HolderInv'
<1> USE DEF FencingInv, HolderInv
<1>1. Finish(h, {"main"}) \/ Finish(h, {"renew"}) \/ Finish(h, Threads)
  BY DEF Acquired, Released, CallFails, Renewed, RenewCut, Crash
<1>2. Forward
  <2>1. CASE Acquired(h)
    <3>1. fence[h] = 0 /\ fence'[h] \in 0..MaxFence
      BY <2>1 DEF Acquired, Requests, TypeOK
    <3>2. \A g \in Holders : fence'[g] >= fence[g]
      <4>1. \A g \in Holders : g # h => fence'[g] = fence[g]
        BY <2>1 DEF Acquired, TypeOK
      <4>2. \A g \in Holders : fence[g] \in Int
        BY LeaseConstants DEF TypeOK
      <4> QED
        BY <3>1, <4>1, <4>2, LeaseConstants
    <3> QED
      BY <2>1, <3>2 DEF Acquired, Goto, Finish, Forward, Entitled, TypeOK, Threads
  <2>2. CASE Renewed(h)
    <3>1. phase[h]["renew"] = "served" => put[h]["renew"].body.fence > fence[h]
      BY DEF Requests
    <3>2. \A g \in Holders : fence'[g] >= fence[g]
      <4>1. \A g \in Holders : g # h => fence'[g] = fence[g]
        BY <2>2 DEF Renewed, TypeOK
      <4>2. \A g \in Holders : fence[g] \in Int
        BY LeaseConstants DEF TypeOK
      <4>3. fence'[h] = fence[h] \/ fence'[h] > fence[h]
        BY <2>2, <3>1 DEF Renewed, TypeOK
      <4>4. fence'[h] \in Int
        BY LeaseConstants DEF TypeOK
      <4> QED
        BY <4>1, <4>2, <4>3, <4>4
    <3> QED
      BY <2>2, <3>2 DEF Renewed, Finish, Forward, Entitled, TypeOK, Threads
  <2>3. CASE Released(h) \/ CallFails(h) \/ RenewCut(h) \/ Crash(h)
    <3>1. \A g \in Holders : fence'[g] >= fence[g]
      BY <2>3, LeaseConstants DEF Released, CallFails, RenewCut, Crash, TypeOK
    <3> QED
      BY <2>3, <3>1 DEF Released, CallFails, RenewCut, Crash, RenewFails, Goto, Finish,
                        Forward, Entitled, TypeOK, Threads
  <2> QED
    BY <2>1, <2>2, <2>3
<1>3. HoldersSound'
  BY <1>1, <1>2, HoldersKept DEF Finish
<1>4. PutsOwned'
  BY <1>1, <1>2, OwnedFinish DEF Threads
<1> QED
  BY <1>3, <1>4

\* The steps that ask the bucket for nothing.
LEMMA HolderLocal ==
  ASSUME FencingInv, FencingInv', HolderInv, NEW h \in Holders,
         \/ EnsureLease(h) \/ RunEnds(h) \/ Drained(h) \/ Use(h)
         \/ RenewStops(h) \/ RenewGetFails(h)
  PROVE  HolderInv'
<1> USE DEF FencingInv, HolderInv
<1>1. UNCHANGED leaseVars
  BY DEF EnsureLease, RunEnds, Drained, Use, RenewStops, RenewGetFails, FenceCore,
         PutsSound, Requests
<1>2. Forward
  <2>1. UNCHANGED <<fence, seized, phase>>
    BY <1>1 DEF leaseVars, runVars, EnsureLease, RunEnds, Drained, Use, RenewStops, RenewGetFails
  <2>2. \A g \in Holders : fence'[g] >= fence[g]
    BY <2>1, LeaseConstants DEF TypeOK
  <2>3. \A g \in Holders \ {h} : pc'[g] = pc[g]
    BY DEF runVars, EnsureLease, RunEnds, Drained, Use, RenewStops, RenewGetFails, Goto,
           TypeOK
  <2>4. \/ UNCHANGED pc
        \/ /\ pc[h] \in {"ensure", "create", "run", "drain"}
           /\ pc'[h] \in {"acquire", "drain", "release", "done"}
    <3>1. CASE EnsureLease(h)
      BY <3>1, <1>1 DEF EnsureLease, Goto, TypeOK, Requests, FenceCore, PutsSound
    <3>2. CASE RunEnds(h) \/ Drained(h)
      BY <3>2 DEF RunEnds, Drained, Goto, TypeOK
    <3>3. CASE Use(h) \/ RenewStops(h) \/ RenewGetFails(h)
      BY <3>3 DEF Use, RenewStops, RenewGetFails, runVars
    <3> QED
      BY <3>1, <3>2, <3>3
  <2> QED
    BY <2>1, <2>2, <2>3, <2>4 DEF Forward, Entitled
<1>3. HoldersSound'
  BY <1>1, <1>2, HoldersKept DEF leaseVars
<1>4. PutsOwned'
  BY <1>1, <1>2, OwnedUnchanged
<1> QED
  BY <1>3, <1>4

\* A PUT that the bucket accepts: it takes the lease from its own sender, from
\* nobody, or from a run whose lease was taken as expired.
LEMMA HolderAccepted ==
  ASSUME FencingInv, HolderInv, NEW p \in Puts, Pending(p), Accepts(p, doc),
         NEW h \in Holders, Entitled(h), h \notin seized
  PROVE  p.body.state = "held" /\ p.body.holder = h
<1> USE DEF FencingInv, HolderInv
<1>1. PutSound(p) /\ Owned(p)
  BY DEF FenceCore, PutsSound, PutsOwned, Pending
<1>2. doc.state = "held" /\ doc.holder = h
  BY DEF HoldersSound
<1>3. p.match = doc
  BY <1>1 DEF PutSound, Accepts
<1>4. p.by = h
  BY <1>1, <1>2, <1>3 DEF Owned
<1>5. pc[h] \notin {"releasing", "done"}
  BY DEF Entitled
<1>6. p.body.state \in {"free", "held"}
  BY <1>1 DEF PutSound, Puts, Docs
<1> QED
  BY <1>1, <1>4, <1>5, <1>6 DEF Owned

\* The bucket serves a request, or a stray.
LEMMA HolderBucket ==
  ASSUME FencingInv, FencingInv', HolderInv, Bucket
  PROVE  HolderInv'
<1> USE DEF FencingInv, HolderInv
<1>0. UNCHANGED <<pc, fence, put, seized>>
  BY DEF Bucket, runVars, Serve, ServeStray
<1>1. \A q \in Puts : Owned(q)' <=> Owned(q)
  BY <1>0 DEF Owned
<1>2. PutsOwned'
  <2>1. stray' \subseteq stray
    BY DEF Bucket, Serve, ServeStray
  <2>2. ASSUME NEW g \in Holders, NEW u \in Threads
        PROVE  \/ phase'[g][u] = phase[g][u]
               \/ phase[g][u] = "sent" /\ phase'[g][u] # "sent"
    <3>1. CASE \E p \in stray : ServeStray(p)
      BY <3>1 DEF ServeStray
    <3>2. CASE \E h \in Holders, t \in Threads : Serve(h, t)
      <4> PICK h \in Holders, t \in Threads : Serve(h, t)
        BY <3>2
      <4>1. CASE g = h /\ u = t
        BY <4>1 DEF Serve, TypeOK
      <4>2. CASE ~(g = h /\ u = t)
        BY <4>2 DEF Serve, TypeOK
      <4> QED
        BY <4>1, <4>2
    <3> QED
      BY <3>1, <3>2 DEF Bucket
  <2>3. \A q \in Puts : Pending(q)' => Pending(q)
    BY <1>0, <2>1, <2>2 DEF Pending
  <2>4. \A h \in Holders, t \in Threads : phase'[h][t] # "none" => put'[h][t].by = h
    BY <1>0, <2>2 DEF PutsOwned
  <2> QED
    BY <1>1, <2>3, <2>4 DEF PutsOwned
<1>3. CASE \E h \in Holders, t \in Threads : Serve(h, t)
  <2> PICK h \in Holders, t \in Threads : Serve(h, t)
    BY <1>3
  <2>0. put[h][t] \in Puts /\ Pending(put[h][t])
    BY DEF Serve, Pending, TypeOK
  <2> SUFFICES ASSUME NEW g \in Holders, Entitled(g)', g \notin seized
               PROVE  doc'.state = "held" /\ doc'.holder = g
    BY <1>0, <1>2 DEF HoldersSound
  <2>1. CASE Entitled(g)
    <3>1. CASE Accepts(put[h][t], doc)
      BY <2>0, <2>1, <3>1, HolderAccepted DEF Serve
    <3>2. CASE ~Accepts(put[h][t], doc)
      BY <2>1, <3>2 DEF Serve, HoldersSound
    <3> QED
      BY <3>1, <3>2
  <2>2. CASE ~Entitled(g)
    <3>1. pc[g] = "acquiring" /\ phase[g]["main"] # "served" /\ phase'[g]["main"] = "served"
      BY <1>0, <2>2 DEF Entitled
    <3>2. g = h /\ t = "main" /\ Accepts(put[h][t], doc) /\ doc' = put[h][t].body
      BY <3>1 DEF Serve, TypeOK, Threads
    <3>3. put[h][t].body.state = "held"
      BY <3>1, <3>2 DEF Serve, Requests
    <3>4. put[h][t].by = h
      BY DEF Serve, PutsOwned
    <3>5. Owned(put[h][t])
      BY <2>0 DEF PutsOwned
    <3> QED
      BY <3>2, <3>3, <3>4, <3>5 DEF Owned
  <2> QED
    BY <2>1, <2>2
<1>4. CASE \E p \in stray : ServeStray(p)
  <2> PICK p \in stray : ServeStray(p)
    BY <1>4
  <2>0. p \in Puts /\ Pending(p)
    BY DEF Pending, TypeOK
  <2> SUFFICES ASSUME NEW g \in Holders, Entitled(g)', g \notin seized
               PROVE  doc'.state = "held" /\ doc'.holder = g
    BY <1>0, <1>2 DEF HoldersSound
  <2>1. Entitled(g)
    BY <1>0 DEF Entitled, ServeStray
  <2>2. CASE Accepts(p, doc)
    BY <2>0, <2>1, <2>2, HolderAccepted DEF ServeStray
  <2>3. CASE ~Accepts(p, doc)
    BY <2>1, <2>3 DEF ServeStray, HoldersSound
  <2> QED
    BY <2>2, <2>3
<1> QED
  BY <1>3, <1>4 DEF Bucket

\* Every step keeps the strengthening.
LEMMA HolderNext ==
  ASSUME FencingInv, FencingInv', HolderInv, [Next]_vars
  PROVE  HolderInv'
<1>1. CASE Bucket
  BY <1>1, HolderBucket
<1>2. ASSUME NEW h \in Holders, Main(h) \/ Loop(h) \/ Use(h) \/ Crash(h)
      PROVE  HolderInv'
  BY <1>2, HolderAcquireGet, HolderReleaseGet, HolderRenewGet, HolderFinish,
     HolderLocal DEF Main, Loop
<1>3. CASE UNCHANGED vars
  BY <1>3 DEF vars, HolderInv, PutsOwned, HoldersSound, Pending, Owned, Entitled
<1> QED
  BY <1>1, <1>2, <1>3 DEF Next
-----------------------------------------------------------------------------
\* HolderInv is an invariant: a PUT that may yet be served takes the lease from
\* its own sender or from a run whose lease was taken as expired, and a run that
\* nobody took for expired has the lease.
THEOREM HolderInvariant ==
  ASSUME Existing
  PROVE  Spec => []HolderInv
<1>1. Init => HolderInv
  BY DEF Init, HolderInv, PutsOwned, HoldersSound, Pending, Entitled, Threads
<1>2. FencingInv /\ FencingInv' /\ HolderInv /\ [Next]_vars => HolderInv'
  BY HolderNext
<1> QED
  BY <1>1, <1>2, FencingInvariant, PTL DEF Spec

\* RunOnce runs fn, and a singleton app runs, once at a time in the cluster
\* (job.go, runlease.go), unless the lease of one of two was taken as expired:
\* for any number of boxes, whatever is lost, comes late or crashes.
THEOREM OneRunnerHolds ==
  ASSUME Existing
  PROVE  Spec => []OneRunner
<1>1. HolderInv => OneRunner
  BY DEF HolderInv, HoldersSound, Entitled, OneRunner, Running
<1> QED
  BY <1>1, HolderInvariant, PTL

\* A held lease becomes free only by a Release of the holder that has it
\* (lease.go, "A held lease is never clobbered").
THEOREM NeverClobberedHolds ==
  ASSUME Existing
  PROVE  Spec => NeverClobbered
<1> DEFINE Clobbers ==
      /\ doc.state = "held" /\ doc'.state = "free"
      /\ ~\E h \in Holders : /\ StillHeld(doc, h, fence[h])
                             /\ pc[h] = "releasing" \/ \E p \in stray : p.by = h
<1>1. ASSUME FencingInv, HolderInv, NEW p \in Puts, Pending(p), Accepts(p, doc),
             doc.state = "held", p.body.state = "free"
      PROVE  p.by \in Holders /\ StillHeld(doc, p.by, fence[p.by])
  <2>1. PutSound(p) /\ Owned(p)
    BY <1>1 DEF FencingInv, FenceCore, PutsSound, HolderInv, PutsOwned, Pending
  <2>2. p.match = doc
    BY <1>1, <2>1 DEF PutSound, Accepts
  <2>3. p.by \in Holders
    BY RunnerConstants DEF Puts
  <2>4. doc.fence <= fence[p.by] /\ fence[p.by] <= doc.fence
    BY <1>1, <2>1, <2>2, <2>3 DEF Owned, FencingInv, FenceCore, GrantsBounded
  <2>5. doc.fence \in Int /\ fence[p.by] \in Int
    BY <1>1, <2>3, LeaseConstants DEF FencingInv, TypeOK, Docs
  <2>6. doc.fence = fence[p.by]
    BY <2>4, <2>5
  <2>7. doc = [state |-> doc.state, holder |-> doc.holder, fence |-> doc.fence]
    BY <1>1 DEF FencingInv, TypeOK, Docs
  <2> QED
    BY <1>1, <2>1, <2>2, <2>3, <2>6, <2>7 DEF Owned, StillHeld, HeldDoc
<1>2. FencingInv /\ HolderInv /\ [Next]_vars => [~Clobbers]_vars
  <2> SUFFICES ASSUME FencingInv, HolderInv, Next, doc.state = "held", doc'.state = "free"
               PROVE  \E h \in Holders : /\ StillHeld(doc, h, fence[h])
                                         /\ pc[h] = "releasing" \/ \E p \in stray : p.by = h
    BY DEF Clobbers
  <2>1. Bucket
    BY DEF Next, Main, Loop, EnsureLease, AcquireGet, Acquired, RunEnds,
           Drained, ReleaseGet, Released, CallFails, RenewGet, Renewed, RenewCut,
           RenewStops, RenewGetFails, Use, Crash, Send, Finish, leaseVars
  <2>2. CASE \E h \in Holders, t \in Threads : Serve(h, t)
    <3> PICK h \in Holders, t \in Threads : Serve(h, t)
      BY <2>2
    <3>1. put[h][t] \in Puts /\ Pending(put[h][t]) /\ put[h][t].by = h
      BY DEF Serve, Pending, FencingInv, TypeOK, HolderInv, PutsOwned
    <3>2. Accepts(put[h][t], doc) /\ put[h][t].body.state = "free"
      BY DEF Serve
    <3>3. StillHeld(doc, h, fence[h])
      BY <1>1, <3>1, <3>2
    <3>4. pc[h] = "releasing"
      BY <3>2 DEF Serve, FencingInv, Requests, Threads
    <3> QED
      BY <3>3, <3>4
  <2>3. CASE \E p \in stray : ServeStray(p)
    <3> PICK p \in stray : ServeStray(p)
      BY <2>3
    <3>1. p \in Puts /\ Pending(p)
      BY DEF Pending, FencingInv, TypeOK
    <3>2. Accepts(p, doc) /\ p.body.state = "free"
      BY DEF ServeStray
    <3>3. p.by \in Holders /\ StillHeld(doc, p.by, fence[p.by])
      BY <1>1, <3>1, <3>2
    <3> QED
      BY <3>3
  <2> QED
    BY <2>1, <2>2, <2>3 DEF Bucket
<1>3. [][~Clobbers]_vars => NeverClobbered
  <2>1. [~Clobbers]_vars =>
          [doc.state = "held" /\ doc'.state = "free" =>
             \E h \in Holders : /\ StillHeld(doc, h, fence[h])
                                /\ pc[h] = "releasing" \/ \E p \in stray : p.by = h]_vars
    BY DEF Clobbers
  <2> QED
    BY <2>1, PTL DEF NeverClobbered
<1> QED
  BY <1>2, <1>3, FencingInvariant, HolderInvariant, PTL DEF Spec
-----------------------------------------------------------------------------
\* Types alone, whether the lease object exists beforehand or not: the PUT of
\* EnsureLease too writes a document that fits.
LEMMA TypesStep ==
  ASSUME TypeOK, [Next]_vars
  PROVE  TypeOK'
<1> USE DEF leaseVars, runVars, resVars
<1>1. ASSUME NEW h \in Holders, Main(h)
      PROVE  TypeOK'
  <2>0. /\ UNCHANGED <<lost, lastSeen, user, past>>
        /\ \E l \in PCs : pc' = [pc EXCEPT ![h] = l]
    BY <1>1 DEF Main, EnsureLease, AcquireGet, Acquired, RunEnds, Drained, ReleaseGet,
       Released, CallFails, Goto, PCs
  <2>1. CASE LeaseTypes' /\ UNCHANGED <<fence, renewing, seized>>
    BY <2>0, <2>1 DEF TypeOK, LeaseTypes
  <2>2. CASE UNCHANGED <<leaseVars, fence, renewing, seized>>
    BY <2>1, <2>2 DEF TypeOK, LeaseTypes
  <2>3. CASE EnsureLease(h)
    <3>1. CreatePut(h) \in Puts
      BY LeaseConstants, RunnerConstants DEF CreatePut, AbsentDoc, FreeDoc, Docs, Puts
    <3>2. UNCHANGED leaseVars \/ LeaseTypes'
      BY <2>3, <3>1, SendTypes, FinishTypes DEF EnsureLease, Threads
    <3> QED
      BY <2>1, <2>2, <2>3, <3>2 DEF EnsureLease
  <2>4. CASE AcquireGet(h)
    <3>1. CASE UNCHANGED <<leaseVars, seized>>
      BY <2>2, <2>4, <3>1 DEF AcquireGet
    <3>2. CASE /\ doc.fence < MaxFence /\ Send(h, "main", AcquirePut(h, h, doc))
               /\ seized' = IF doc.state = "held" THEN seized \cup {doc.holder} ELSE seized
      <4>1. LeaseTypes'
        BY <3>2, PutTypes, SendTypes DEF TypeOK, Threads
      <4>2. seized' \subseteq Holders \cup {NoHolder}
        BY <3>2 DEF TypeOK, Docs
      <4> QED
        BY <2>0, <2>4, <4>1, <4>2 DEF TypeOK, LeaseTypes, AcquireGet
    <3> QED
      BY <2>4, <3>1, <3>2 DEF AcquireGet
  <2>5. CASE Acquired(h)
    <3>1. LeaseTypes'
      BY <2>5, FinishTypes DEF Acquired, Threads
    <3>2. put[h]["main"].body.fence \in 0..MaxFence
      BY DEF TypeOK, Threads, Puts, Docs
    <3> QED
      BY <2>0, <2>5, <3>1, <3>2 DEF TypeOK, LeaseTypes, Acquired
  <2>6. CASE RunEnds(h) \/ Drained(h)
    BY <2>2, <2>6 DEF RunEnds, Drained
  <2>7. CASE ReleaseGet(h)
    <3>1. UNCHANGED leaseVars \/ LeaseTypes'
      BY <2>7, PutTypes, SendTypes DEF ReleaseGet, Threads, TypeOK
    <3> QED
      BY <2>1, <2>2, <2>7, <3>1 DEF ReleaseGet
  <2>8. CASE Released(h) \/ CallFails(h)
    BY <2>1, <2>8, FinishTypes DEF Released, CallFails, Threads
  <2> QED
    BY <1>1, <2>3, <2>4, <2>5, <2>6, <2>7, <2>8 DEF Main
<1>2. ASSUME NEW h \in Holders, Loop(h)
      PROVE  TypeOK'
  <2>0. UNCHANGED <<pc, lastSeen, user, past, seized>>
    BY <1>2 DEF Loop, RenewGet, Renewed, RenewCut, RenewStops, RenewGetFails
  <2>1. CASE RenewGet(h)
    <3>1. UNCHANGED leaseVars \/ LeaseTypes'
      BY <2>1, PutTypes, SendTypes DEF RenewGet, Threads, TypeOK
    <3> QED
      BY <2>0, <2>1, <3>1 DEF RenewGet, RenewFails, TypeOK, LeaseTypes
  <2>2. CASE Renewed(h)
    <3>1. LeaseTypes'
      BY <2>2, FinishTypes DEF Renewed, Threads
    <3>2. put[h]["renew"].body.fence \in 0..MaxFence
      BY DEF TypeOK, Threads, Puts, Docs
    <3> QED
      BY <2>0, <2>2, <3>1, <3>2 DEF Renewed, RenewFails, TypeOK, LeaseTypes
  <2>3. CASE RenewCut(h)
    <3>1. LeaseTypes'
      BY <2>3, FinishTypes DEF RenewCut, Threads
    <3> QED
      BY <2>0, <2>3, <3>1 DEF RenewCut, RenewFails, TypeOK, LeaseTypes
  <2>4. CASE RenewStops(h) \/ RenewGetFails(h)
    BY <2>0, <2>4 DEF RenewStops, RenewGetFails, RenewFails, TypeOK
  <2> QED
    BY <1>2, <2>1, <2>2, <2>3, <2>4 DEF Loop
<1>3. ASSUME NEW h \in Holders, Use(h)
      PROVE  TypeOK'
  BY <1>3 DEF Use, TypeOK
<1>4. ASSUME NEW h \in Holders, Crash(h)
      PROVE  TypeOK'
  BY <1>4, FinishTypes DEF Crash, Goto, TypeOK, LeaseTypes, PCs, Threads
<1>5. CASE Bucket
  <2>1. LeaseTypes'
    BY <1>5, ServeTypes, StrayTypes DEF Bucket
  <2> QED
    BY <1>5, <2>1 DEF Bucket, TypeOK, LeaseTypes
<1>6. CASE UNCHANGED vars
  BY <1>6 DEF vars, TypeOK
<1> QED
  BY <1>1, <1>2, <1>3, <1>4, <1>5, <1>6 DEF Next

\* Every run begins with nothing under way.
LEMMA TypesInit ==
  ASSUME Init
  PROVE  TypeOK
<1>1. \A h \in Holders : NoPut(h) \in Puts
  BY LeaseConstants, RunnerConstants DEF NoPut, AbsentDoc, Docs, Puts
<1>2. put \in [Holders -> [Threads -> Puts]]
  BY <1>1 DEF Init
<1> QED
  BY <1>2, LeaseConstants DEF Init, TypeOK, FreeDoc, AbsentDoc, Docs, Phases, PCs
=============================================================================
