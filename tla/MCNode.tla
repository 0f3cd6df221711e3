-------------------------------- MODULE MCNode --------------------------------
(* The services of one box that share no state, in one run: Init picks the   *)
(* one that is explored, the others stay as they are.  A service is fairly   *)
(* scheduled where it is the one explored.                                   *)
EXTENDS Messages, Calls, OsSlots, StreamPool, GamingSessions, VideoEncoder, SqlBridge

VARIABLE focus

\* One call in each direction; the newer image has a raised minimum epoch.
TwoWays    == [c \in CallIds |-> IF c = "c1" THEN "a" ELSE "b"]
NewerEpoch == [v \in Versions |-> IF v = "v2" THEN 1 ELSE 0]

nodeVars == <<focus, letterVars, callVars, slotVars, poolVars, gamingVars, encVars, bridgeVars>>

NodeInit ==
  /\ focus \in {"letters", "calls", "slots", "pool", "gaming", "encoder", "bridge"}
  /\ LetterInit /\ CallInit /\ SlotsInit /\ PoolInit /\ GamingInit /\ EncoderInit /\ BridgeInit
  /\ focus # "encoder" => ~gaming

At(part) == focus = part

NodeNext ==
  /\ UNCHANGED focus
  /\ \/ At("letters") /\ LetterNext
     \/ ~At("letters") /\ UNCHANGED letterVars
  /\ \/ At("calls") /\ CallNext
     \/ ~At("calls") /\ UNCHANGED callVars
  /\ \/ At("slots") /\ SlotsNext
     \/ ~At("slots") /\ UNCHANGED slotVars
  /\ \/ At("pool") /\ PoolNext
     \/ ~At("pool") /\ UNCHANGED poolVars
  /\ \/ At("gaming") /\ GamingNext
     \/ ~At("gaming") /\ UNCHANGED gamingVars
  /\ \/ At("encoder") /\ EncoderNext
     \/ ~At("encoder") /\ UNCHANGED encVars
  /\ \/ At("bridge") /\ BridgeNext
     \/ ~At("bridge") /\ UNCHANGED bridgeVars

\* LetterFairness, SlotsFairness, PoolFairness, EncoderFairness, BridgeFairness.
NodeFairness ==
  /\ WF_letterVars(At("letters") /\ \E m \in Letters : Enqueue(m))
  /\ \A m \in Letters :
       /\ SF_letterVars(At("letters") /\ FallsDue(m))
       /\ SF_letterVars(At("letters") /\ path[m].due /\ \E w \in Workers : Claim(w, m))
  /\ \A w \in Workers :
       WF_letterVars(At("letters") /\ (NotDue(w) \/ Deliver(w) \/ Remove(w) \/ Restore(w)))
  /\ WF_slotVars(At("slots") /\ PowerOn)
  /\ WF_slotVars(At("slots") /\ InitRollback)
  /\ WF_slotVars(At("slots") /\ VerifyOS)
  /\ WF_slotVars(At("slots") /\ ImageCrashes)
  /\ WF_slotVars(At("slots") /\ (KioskMarksHealthy \/ HeadlessBoot))
  /\ \A s \in Sessions :
       /\ WF_poolVars(At("pool") /\ (LaunchApp(s) \/ LaunchForks(s) \/ LaunchRelease(s)
                                      \/ LaunchDone(s) \/ VncInsert(s)))
       /\ WF_poolVars(At("pool") /\ (MonitorWakes(s) \/ MonitorRestarts(s) \/ MonitorForks(s)
                                      \/ MonitorStops(s) \/ MonitorDeletes(s)))
       /\ WF_poolVars(At("pool") /\ ContextKills(s))
       /\ WF_poolVars(At("pool") /\ StopKills(s))
  /\ \A l \in Loops :
       WF_encVars(At("encoder") /\ (LoopStarts(l) \/ LoopStores(l) \/ LoopAwakes(l)))
  /\ WF_bridgeVars(At("bridge") /\ CycleStep)

NodeSpec == NodeInit /\ [][NodeNext]_nodeVars /\ NodeFairness
===============================================================================
