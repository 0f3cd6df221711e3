------------------------------ MODULE StreamPool ------------------------------
(***************************************************************************)
(* services/stream: the pool of streaming sessions (pool.go, vnc.go) and   *)
(* the app-exit monitor of each session.                                   *)
(*                                                                         *)
(* A session object is one Launch; its goroutine and its monitor are named *)
(* by it.  p.mu covers one step here, never a whole Launch or Stop.        *)
(***************************************************************************)
EXTENDS Naturals, FiniteSets

CONSTANTS Ids,          \* session IDs callers ask for
          Sessions,     \* session objects, each used by one Launch
          Null

ASSUME PoolConstants == Null \notin Sessions

VARIABLES sessions,     \* p.sessions: Ids -> Sessions \cup {Null}
          sess          \* Sessions -> the object and its goroutines
poolVars == <<sessions, sess>>

Fresh == [pc |-> "free", id |-> Null, restart |-> FALSE, running |-> FALSE,
          cancelled |-> FALSE, app |-> "none", mon |-> "none", stops |-> FALSE]
Listed(s) == \E i \in Ids : sessions[i] = s
Alive(s) == sess[s].app = "alive"

PoolInit ==
    /\ sessions = [i \in Ids |-> Null]
    /\ sess = [s \in Sessions |-> Fresh]

\* Session.Stop on the object: the context is cancelled and every process of
\* it killed; a second call returns at once.
Stopped(r) == IF r.running
              THEN [r EXCEPT !.running = FALSE, !.cancelled = TRUE,
                             !.app = IF @ = "alive" THEN "dead" ELSE @]
              ELSE r

-----------------------------------------------------------------------------
\* Launch finds the ID free and reserves it with the object it will build; an
\* ID that is taken answers with the session found.
LaunchReserve(s, i, restart) ==
    /\ sess[s] = Fresh /\ sessions[i] = Null
    /\ sessions' = [sessions EXCEPT ![i] = s]
    /\ sess' = [sess EXCEPT ![s] = [Fresh EXCEPT !.pc = "build", !.id = i,
                    !.restart = restart, !.running = TRUE]]

\* Display server and app: either may fail to start, and the app must once the
\* context is cancelled (exec looks at the context, then forks).
LaunchApp(s) ==
    /\ sess[s].pc = "build"
    /\ \/ /\ ~sess[s].cancelled
          /\ sess' = [sess EXCEPT ![s].pc = "fork"]
       \/ sess' = [sess EXCEPT ![s] = [Stopped(@) EXCEPT !.pc = "release"]]
    /\ UNCHANGED sessions
LaunchForks(s) ==
    /\ sess[s].pc = "fork"
    /\ sess' = [sess EXCEPT ![s].pc = "paint", ![s].app = "alive"]
    /\ UNCHANGED sessions

\* releaseReservation.
Released(s) == [sessions EXCEPT ![sess[s].id] = IF @ = s THEN Null ELSE @]
LaunchRelease(s) ==
    /\ sess[s].pc = "release"
    /\ sessions' = Released(s)
    /\ sess' = [sess EXCEPT ![s].pc = "failed"]

LaunchDone(s) ==
    /\ sess[s].pc = "paint"
    /\ sess' = [sess EXCEPT ![s].pc = "launched", ![s].mon = "wait"]
    /\ UNCHANGED sessions

\* A VNC session has no app and no monitor; its capture loop is the process
\* here, and it inserts itself without looking again.
VncCheck(s, i) ==
    /\ sess[s] = Fresh /\ sessions[i] = Null
    /\ sess' = [sess EXCEPT ![s] = [Fresh EXCEPT !.pc = "vnc", !.id = i,
                    !.running = TRUE, !.app = "alive"]]
    /\ UNCHANGED sessions
VncInsert(s) ==
    /\ sess[s].pc = "vnc"
    /\ sessions' = [sessions EXCEPT ![sess[s].id] = s]
    /\ sess' = [sess EXCEPT ![s].pc = "vncup"]

-----------------------------------------------------------------------------
AppExits(s) ==
    /\ Alive(s) /\ sess[s].pc \in {"paint", "launched"}
    /\ sess' = [sess EXCEPT ![s].app = "dead"]
    /\ UNCHANGED sessions

\* The context's watcher kills a process Stop did not know of.
ContextKills(s) ==
    /\ Alive(s) /\ sess[s].cancelled
    /\ sess' = [sess EXCEPT ![s].app = "dead"]
    /\ UNCHANGED sessions

\* The monitor: app.Wait returns.  An app that lived under three seconds makes
\* it kill every process of that name first, other sessions' apps included.
MonitorWakes(s) ==
    /\ sess[s].mon = "wait" /\ sess[s].app = "dead"
    /\ LET next == IF sess[s].restart /\ ~sess[s].cancelled THEN "restart" ELSE "stop"
           woken == [sess EXCEPT ![s].mon = next]
       IN \/ sess' = woken
          \/ /\ ~sess[s].cancelled
             /\ sess' = [t \in Sessions |->
                            IF Alive(t) /\ sess[t].pc \in {"paint", "launched"}
                            THEN [woken[t] EXCEPT !.app = "dead"] ELSE woken[t]]
    /\ UNCHANGED sessions

MonitorRestarts(s) ==
    /\ sess[s].mon = "restart"
    /\ \/ /\ ~sess[s].cancelled
          /\ sess' = [sess EXCEPT ![s].mon = "fork"]
       \/ sess' = [sess EXCEPT ![s].mon = "stop"]
    /\ UNCHANGED sessions
MonitorForks(s) ==
    /\ sess[s].mon = "fork"
    /\ sess' = [sess EXCEPT ![s].app = "alive", ![s].mon = "done"]
    /\ UNCHANGED sessions

MonitorStops(s) ==
    /\ sess[s].mon = "stop"
    /\ sess' = [sess EXCEPT ![s] = [Stopped(@) EXCEPT !.mon = "delete"]]
    /\ UNCHANGED sessions

MonitorDeletes(s) ==
    /\ sess[s].mon = "delete"
    /\ sessions' = [sessions EXCEPT ![sess[s].id] = Null]
    /\ sess' = [sess EXCEPT ![s].mon = "done"]

\* Pool.Stop takes the session out of the map, then stops the object.
PoolStop(i) ==
    /\ sessions[i] # Null
    /\ sess' = [sess EXCEPT ![sessions[i]].stops = TRUE]
    /\ sessions' = [sessions EXCEPT ![i] = Null]
StopKills_NotCancelled(s) ==                           \* Fault
    /\ sess[s].stops
    /\ sess' = [sess EXCEPT ![s].stops = FALSE, ![s].running = FALSE,
                            ![s].app = IF @ = "alive" THEN "dead" ELSE @]
    /\ UNCHANGED sessions
StopKills(s) ==
    /\ sess[s].stops
    /\ sess' = [sess EXCEPT ![s] = [Stopped(@) EXCEPT !.stops = FALSE]]
    /\ UNCHANGED sessions

\* The steps of one session's own goroutines.
SessionStep(s) ==
    \/ LaunchApp(s) \/ LaunchForks(s) \/ LaunchRelease(s) \/ LaunchDone(s) \/ VncInsert(s)
    \/ ContextKills(s) \/ StopKills(s) \/ MonitorWakes(s) \/ MonitorRestarts(s)
    \/ MonitorForks(s) \/ MonitorStops(s) \/ MonitorDeletes(s)
PoolNext ==
    \/ \E s \in Sessions : SessionStep(s) \/ AppExits(s)
    \/ \E s \in Sessions, i \in Ids :
        VncCheck(s, i) \/ \E b \in BOOLEAN : LaunchReserve(s, i, b)
    \/ \E i \in Ids : PoolStop(i)

\* A goroutine that can take a step takes one; apps exit and owners stop
\* sessions when they like.
PoolFairness == \A s \in Sessions :
    /\ WF_poolVars(LaunchApp(s) \/ LaunchForks(s) \/ LaunchRelease(s)
                    \/ LaunchDone(s) \/ VncInsert(s))
    /\ WF_poolVars(MonitorWakes(s) \/ MonitorRestarts(s) \/ MonitorForks(s)
                    \/ MonitorStops(s) \/ MonitorDeletes(s))
    /\ WF_poolVars(ContextKills(s)) /\ WF_poolVars(StopKills(s))
PoolSpec == PoolInit /\ [][PoolNext]_poolVars /\ PoolFairness

-----------------------------------------------------------------------------
\* A session the pool lists was launched under that ID and is running, or the
\* goroutine that stopped it has yet to take it out: no launch that failed and no
\* app that exited leaves an ID taken by a dead session.
ListedIsLive == \A i \in Ids : sessions[i] # Null =>
    LET s == sess[sessions[i]] IN
        s.id = i /\ (s.running \/ s.pc = "release" \/ s.mon \in {"stop", "delete"})

\* A session that was stopped ends with no process, also when Pool.Stop met a
\* Launch half way, with the app it was about to start, or a monitor about to
\* restart the app.
StoppedDies == \A s \in Sessions :
    (sess[s] # Fresh /\ ~sess[s].running)
        ~> (~Alive(s) /\ sess[s].pc \notin {"build", "fork"}
                      /\ sess[s].mon \notin {"restart", "fork"})

\* A session whose app exited for good leaves the pool (the monitor of Launch).
ExitedLeaves == \A s \in Sessions :
    (sess[s].pc = "launched" /\ ~sess[s].restart /\ sess[s].app = "dead") ~> ~Listed(s)
===============================================================================
