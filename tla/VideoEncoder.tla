----------------------------- MODULE VideoEncoder -----------------------------
(***************************************************************************)
(* The video encoder of one streaming session: services/stream/stream.go's *)
(* peerConnect, peerDisconnect, runWithBackoff and idle watcher, and the   *)
(* restart timers of pool.go.  s.gstVideo names the encoder process that   *)
(* was stored last; signals go to it and to no other.                      *)
(***************************************************************************)
EXTENDS Integers, FiniteSets

CONSTANTS Loops,        \* runWithBackoff goroutines that may be started
          MaxViewers,   \* bound: connected peers
          MaxChurn      \* bound: connects, encoder exits and restarts

VARIABLES gaming,       \* s.Gaming: the idle watcher is off
          viewers,      \* s.peerCount
          loop,         \* Loops -> the loop and its current process
          gstVideo,     \* the loop whose process is stored, or "nil"
          watcher,      \* the idle watcher: "wait", or "suspend" once decided
          churn
encVars == <<gaming, viewers, loop, gstVideo, watcher, churn>>

EncoderInit ==
    /\ gaming \in BOOLEAN
    /\ viewers = 0
    /\ loop = [l \in Loops |-> "unused"]
    /\ gstVideo = "nil"
    /\ watcher = "wait"
    /\ churn = 0

Churn == churn < MaxChurn /\ churn' = churn + 1

\* signalGroup: what the stored process does with a signal.  SIGTERM waits in a
\* stopped process until it is resumed; a process that is gone gets nothing.
Reaction(sig, state) ==
    CASE sig = "STOP" /\ state = "runs" -> "stopped"
      [] sig = "CONT" /\ state = "stopped" -> "runs"
      [] sig = "CONT" /\ state = "doomed" -> "backoff"
      [] sig = "TERM" /\ state = "runs" -> "backoff"
      [] sig = "TERM" /\ state = "stopped" -> "doomed"
      [] OTHER -> state
Signalled(sig) ==
    [l \in Loops |-> IF l = gstVideo THEN Reaction(sig, loop[l]) ELSE loop[l]]

-----------------------------------------------------------------------------
\* peerConnect: the first viewer resumes the stored process; when none was
\* stored yet it starts a loop.
Resumed_Never == loop                                  \* Fault
Resumed == Signalled("CONT")
PeerConnect ==
    /\ viewers < MaxViewers /\ Churn
    /\ viewers' = viewers + 1
    /\ CASE viewers > 0 -> UNCHANGED loop
         [] viewers = 0 /\ gstVideo # "nil" -> loop' = Resumed
         [] OTHER -> \E l \in Loops :
                /\ loop[l] = "unused"
                /\ loop' = [loop EXCEPT ![l] = "start"]
    /\ UNCHANGED <<gaming, gstVideo, watcher>>

\* peerDisconnect: without viewers the stored process is stopped.
PeerDisconnect ==
    /\ viewers > 0
    /\ viewers' = viewers - 1
    /\ loop' = IF viewers = 1 THEN Signalled("STOP") ELSE loop
    /\ UNCHANGED <<gaming, gstVideo, watcher, churn>>

-----------------------------------------------------------------------------
\* runWithBackoff: start a process (or fail and back off), store it, wait for
\* its exit, sleep, start over.
LoopStarts(l) ==
    /\ loop[l] = "start"
    /\ \/ /\ loop' = [loop EXCEPT ![l] = "started"]
          /\ UNCHANGED churn
       \/ /\ Churn
          /\ loop' = [loop EXCEPT ![l] = "backoff"]
    /\ UNCHANGED <<gaming, viewers, gstVideo, watcher>>
LoopStores(l) ==
    /\ loop[l] = "started"
    /\ loop' = [loop EXCEPT ![l] = "runs"]
    /\ gstVideo' = l
    /\ UNCHANGED <<gaming, viewers, watcher, churn>>
LoopAwakes(l) ==
    /\ loop[l] = "backoff"
    /\ loop' = [loop EXCEPT ![l] = "start"]
    /\ UNCHANGED <<gaming, viewers, gstVideo, watcher, churn>>
EncoderExits(l) ==
    /\ loop[l] = "runs" /\ Churn
    /\ loop' = [loop EXCEPT ![l] = "backoff"]
    /\ UNCHANGED <<gaming, viewers, gstVideo, watcher>>

\* The bitrate, frame rate and overlay timers end the stored process so that it
\* starts again with the new parameters.
RestartEncoder ==
    /\ gstVideo # "nil" /\ Churn
    /\ loop' = Signalled("TERM")
    /\ UNCHANGED <<gaming, viewers, gstVideo, watcher>>

\* The idle watcher reads the viewers, lets go of the lock, and stops the
\* encoder.
WatcherSamples ==
    /\ ~gaming /\ watcher = "wait" /\ viewers = 0 /\ gstVideo # "nil" /\ Churn
    /\ watcher' = "suspend"
    /\ UNCHANGED <<gaming, viewers, loop, gstVideo>>
WatcherSuspends ==
    /\ watcher = "suspend"
    /\ watcher' = "wait"
    /\ loop' = Signalled("STOP")
    /\ UNCHANGED <<gaming, viewers, gstVideo, churn>>

EncoderNext ==
    \/ PeerConnect \/ PeerDisconnect \/ RestartEncoder
    \/ WatcherSamples \/ WatcherSuspends
    \/ \E l \in Loops : LoopStarts(l) \/ LoopStores(l) \/ LoopAwakes(l) \/ EncoderExits(l)

\* The loops run whenever they can; viewers, timers and exits come as they may.
EncoderFairness ==
    \A l \in Loops : WF_encVars(LoopStarts(l) \/ LoopStores(l) \/ LoopAwakes(l))
EncoderSpec == EncoderInit /\ [][EncoderNext]_encVars /\ EncoderFairness

-----------------------------------------------------------------------------
\* A process is stored only once its loop ran, and every used loop is in one of
\* its states.
EncoderTypeOK ==
    /\ viewers \in 0..MaxViewers
    /\ loop \in [Loops -> {"unused", "start", "started", "runs", "stopped", "doomed", "backoff"}]
    /\ gstVideo \in Loops \cup {"nil"}
    /\ gstVideo # "nil" => loop[gstVideo] # "unused"

\* A viewer of a gaming session gets pictures: while someone watches and nothing
\* more disturbs it, an encoder runs for good, whether it had been stopped for
\* want of viewers, was ended by a parameter change while stopped, or died.
ViewerServed == gaming =>
    ([]<>(viewers = 0) \/ <>[](\E l \in Loops : loop[l] = "runs"))
===============================================================================
