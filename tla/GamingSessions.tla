---------------------------- MODULE GamingSessions ----------------------------
(***************************************************************************)
(* services/stream/gaming_session.go: one gaming session per user, on top  *)
(* of the pool.  The pool is taken as what Start and Stop see of it: the   *)
(* set of sessions GetForUser finds.                                       *)
(***************************************************************************)
EXTENDS Naturals, FiniteSets

CONSTANTS Owners,       \* authenticated users
          Starts        \* calls of Start; each launches under an ID of its own

\* The reservation is a sentinel that no session ID takes.
ASSUME GamingConstants == "reserving" \notin Starts

VARIABLES byOwner,      \* m.byOwner: a session (named by the Start that made
                        \* it), "reserving" or "none"
          bySess,       \* m.bySessID: Starts -> Owners \cup {"none"}
          pooled,       \* the sessions the pool lists
          stopping,     \* sessions whose Stop has cleared the slot
          start         \* Starts -> where that call stands
gamingVars == <<byOwner, bySess, pooled, stopping, start>>

GamingInit ==
    /\ byOwner = [o \in Owners |-> "none"]
    /\ bySess = [c \in Starts |-> "none"]
    /\ pooled = {} /\ stopping = {}
    /\ start = [c \in Starts |-> [pc |-> "idle", owner |-> "none"]]

\* Start under m.mu: a session of the owner's that the pool still lists refuses
\* the call; whatever else the slot names is taken for stale and replaced.
StartReserve(c, o) ==
    /\ start[c].pc = "idle" /\ byOwner[o] \notin pooled
    /\ bySess' = [d \in Starts |-> IF d = byOwner[o] THEN "none" ELSE bySess[d]]
    /\ byOwner' = [byOwner EXCEPT ![o] = "reserving"]
    /\ start' = [start EXCEPT ![c] = [pc |-> "launch", owner |-> o]]
    /\ UNCHANGED <<pooled, stopping>>

\* Pool.Launch, outside the lock: the session is listed from its first moment.
StartLaunch(c) ==
    /\ start[c].pc = "launch"
    /\ \/ /\ pooled' = pooled \cup {c}
          /\ start' = [start EXCEPT ![c].pc = "commit"]
       \/ /\ start' = [start EXCEPT ![c].pc = "release"]
          /\ UNCHANGED pooled
    /\ UNCHANGED <<byOwner, bySess, stopping>>

StartCommit(c) ==
    /\ start[c].pc = "commit"
    /\ byOwner' = [byOwner EXCEPT ![start[c].owner] = c]
    /\ bySess' = [bySess EXCEPT ![c] = start[c].owner]
    /\ start' = [start EXCEPT ![c].pc = "done"]
    /\ UNCHANGED <<pooled, stopping>>

\* releaseReservation after a failed Launch.
Unreserved_Never(o) == byOwner                         \* Fault
Unreserved(o) == [byOwner EXCEPT ![o] = IF @ = "reserving" THEN "none" ELSE @]
StartRelease(c) ==
    /\ start[c].pc = "release"
    /\ byOwner' = Unreserved(start[c].owner)
    /\ start' = [start EXCEPT ![c].pc = "done"]
    /\ UNCHANGED <<bySess, pooled, stopping>>

\* Stop by the owner, who found the session in the pool: the slot is cleared
\* whatever it names by now, and after the lock the pool stops the session.
GamingStop(c) ==
    /\ c \in pooled \ stopping
    /\ IF bySess[c] # "none"
       THEN /\ byOwner' = [byOwner EXCEPT ![bySess[c]] = "none"]
            /\ bySess' = [bySess EXCEPT ![c] = "none"]
       ELSE UNCHANGED <<byOwner, bySess>>
    /\ stopping' = stopping \cup {c}
    /\ UNCHANGED <<pooled, start>>
GamingStopped(c) ==
    /\ c \in stopping
    /\ stopping' = stopping \ {c}
    /\ pooled' = pooled \ {c}
    /\ UNCHANGED <<byOwner, bySess, start>>

\* The app exits and the pool's monitor removes the session; nothing calls reap.
SessionEnds(c) ==
    /\ c \in pooled
    /\ pooled' = pooled \ {c}
    /\ UNCHANGED <<byOwner, bySess, stopping, start>>

GamingNext == \E c \in Starts :
    \/ \E o \in Owners : StartReserve(c, o)
    \/ StartLaunch(c) \/ StartCommit(c) \/ StartRelease(c)
    \/ GamingStop(c) \/ GamingStopped(c) \/ SessionEnds(c)
GamingSpec == GamingInit /\ [][GamingNext]_gamingVars

-----------------------------------------------------------------------------
\* An owner's slot is "reserving" only while a Start of that owner is under way
\* and will commit or release it: no failed launch locks a user out of gaming
\* for good, however Starts, Stops and exits interleave.
ReservationHeld == \A o \in Owners : byOwner[o] = "reserving" =>
    \E c \in Starts : start[c].owner = o /\ start[c].pc \in {"launch", "commit", "release"}

\* "two concurrent Start calls for the same owner cannot both pass the check and
\* each launch a GPU session" (the comment on Start's reservation).
OneGamingSession == \A c, d \in Starts :
    c # d /\ start[c].pc \in {"launch", "commit"} /\ start[d].pc \in {"launch", "commit"}
        => start[c].owner # start[d].owner
===============================================================================
