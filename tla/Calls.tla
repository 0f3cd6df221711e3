-------------------------------- MODULE Calls --------------------------------
(***************************************************************************)
(* Calls between two boxes (services/peering/call.go): each keeps its own  *)
(* session of a call in memory, tells the other by one POST per event, and *)
(* logs how the call ended.  A browser's request and an inbound POST are   *)
(* handled under a mutex, but the POST a handler makes is sent after it    *)
(* has let go of it, so POSTs overtake one another.                        *)
(*                                                                         *)
(* Every box has the other as an approved contact with PermCall.  The      *)
(* payload of "signal" (SDP, ICE) changes no session and is left out.      *)
(***************************************************************************)
EXTENDS Integers, FiniteSets, Sequences

CONSTANTS
  CallIds,     \* call ids: UUIDs that the caller's browser chooses
  Caller,      \* who places each call
  MaxCallLosses, \* bound: POSTs lost
  CallFaults   \* the failures of a run: "network", "restart"

CallBoxes == {"a", "b"}
Peer(n)   == IF n = "a" THEN "b" ELSE "a"

ASSUME CallConstants == Caller \in [CallIds -> CallBoxes] /\ MaxCallLosses \in Nat

Callee(c) == Peer(Caller[c])

VARIABLES
  session, \* CallRelay.sessions of each box
  wire,    \* POSTs on their way
  placing, \* handleCallInitiate: waits for the answer to its POST
  used,    \* calls that have been placed
  callLog, \* CallHistStore of each box: the outcomes logged for a call
  pickedUp,  \* history: calls whose callee has answered
  upset,   \* history: calls of which a POST was lost or overtaken, or a box restarted
  losses

callVars == <<session, wire, placing, used, callLog, pickedUp, upset, losses>>

NoSession == [state |-> "none", answered |-> FALSE]
Ringing   == [state |-> "ringing", answered |-> FALSE]

Talking   == [state |-> "active", answered |-> TRUE]

CallInit ==
  /\ session = [n \in CallBoxes |-> [c \in CallIds |-> NoSession]]
  /\ wire = {}
  /\ placing = {}
  /\ used = {}
  /\ callLog = [n \in CallBoxes |-> [c \in CallIds |-> <<>>]]
  /\ pickedUp = {}
  /\ upset = {}
  /\ losses = 0

In(n, c)        == session[n][c] # NoSession
Becomes(n, c, s) == session' = [session EXCEPT ![n][c] = s]

\* sendSignal: the POST of n's event to the other box.
Signal(n, c, kind) == [to |-> Peer(n), call |-> c, kind |-> kind]
Logs(n, c, status) == callLog' = [callLog EXCEPT ![n][c] = Append(@, status)]

HangupOutcome(n, c) ==
  CASE session[n][c].answered -> "completed"
    [] ~session[n][c].answered /\ n = Callee(c) -> "missed"
    [] OTHER -> "outgoing"
-----------------------------------------------------------------------------
(* Requests of the local browser                                           *)

Initiate(c) ==
  LET n == Caller[c] IN
  /\ c \notin used
  /\ Becomes(n, c, Ringing)
  /\ wire' = wire \cup {Signal(n, c, "incoming-call")}
  /\ placing' = placing \cup {c}
  /\ used' = used \cup {c}
  /\ UNCHANGED <<callLog, pickedUp, upset, losses>>

\* The answer to incoming-call comes.
Placed(c) ==
  /\ c \in placing
  /\ Signal(Caller[c], c, "incoming-call") \notin wire
  /\ placing' = placing \ {c}
  /\ UNCHANGED <<session, wire, used, callLog, pickedUp, upset, losses>>

\* It does not: the caller's session goes, whatever has become of it.  The POST
\* is lost, or has arrived, or may yet.
PlacingFails(c) ==
  /\ "network" \in CallFaults
  /\ c \in placing
  /\ placing' = placing \ {c}
  /\ Becomes(Caller[c], c, NoSession)
  /\ wire' \in {wire, wire \ {Signal(Caller[c], c, "incoming-call")}}
  /\ upset' = upset \cup {c}
  /\ UNCHANGED <<used, callLog, pickedUp, losses>>

AnswerCall(c) ==
  LET n == Callee(c) IN
  /\ session[n][c].state = "ringing"
  /\ Becomes(n, c, Talking)
  /\ pickedUp' = pickedUp \cup {c}
  /\ wire' = wire \cup {Signal(n, c, "answer")}
  /\ UNCHANGED <<placing, used, callLog, upset, losses>>

\* Fault: the caller is not told.
RejectCall_Silent(c) ==
  LET n == Callee(c) IN
  /\ In(n, c)
  /\ Becomes(n, c, NoSession)
  /\ Logs(n, c, "rejected")
  /\ UNCHANGED <<wire, placing, used, pickedUp, upset, losses>>

\* In whatever state the session is.
RejectCall(c) ==
  LET n == Callee(c) IN
  /\ In(n, c)
  /\ Becomes(n, c, NoSession)
  /\ Logs(n, c, "rejected")
  /\ wire' = wire \cup {Signal(n, c, "reject")}
  /\ UNCHANGED <<placing, used, pickedUp, upset, losses>>

Hangup(n, c) ==
  /\ In(n, c)
  /\ Becomes(n, c, NoSession)
  /\ Logs(n, c, HangupOutcome(n, c))
  /\ wire' = wire \cup {Signal(n, c, "hangup")}
  /\ UNCHANGED <<placing, used, pickedUp, upset, losses>>
-----------------------------------------------------------------------------
(* HandleInboundCallSignal                                                 *)

InboundIncoming(m) ==
  /\ m.kind = "incoming-call"
  /\ session' = [session EXCEPT ![m.to][m.call] = IF @ = NoSession THEN Ringing ELSE @]
  /\ UNCHANGED <<callLog, upset>>

InboundAnswer(m) ==
  /\ m.kind = "answer"
  /\ session' = [session EXCEPT ![m.to][m.call] = IF @ = NoSession THEN @ ELSE Talking]
  /\ UNCHANGED <<callLog, upset>>

EndsSession(m) == In(m.to, m.call)

InboundEnd(m) ==
  /\ m.kind \in {"reject", "hangup"}
  /\ Becomes(m.to, m.call, NoSession)
  /\ IF EndsSession(m)
     THEN Logs(m.to, m.call, IF m.kind = "reject" THEN "rejected"
                             ELSE HangupOutcome(m.to, m.call))
     ELSE UNCHANGED callLog
  \* history: it has overtaken the incoming-call
  /\ upset' = IF Signal(Peer(m.to), m.call, "incoming-call") \in wire
              THEN upset \cup {m.call} ELSE upset

Inbound(m) ==
  /\ InboundIncoming(m) \/ InboundAnswer(m) \/ InboundEnd(m)
  /\ wire' = wire \ {m}
  /\ UNCHANGED <<placing, used, pickedUp, losses>>
-----------------------------------------------------------------------------
\* sendSignal fails: only logged, except for incoming-call (PlacingFails).
CallLost(m) ==
  /\ "network" \in CallFaults
  /\ m.kind # "incoming-call"
  /\ losses < MaxCallLosses
  /\ losses' = losses + 1
  /\ wire' = wire \ {m}
  /\ upset' = upset \cup {m.call}
  /\ UNCHANGED <<session, placing, used, callLog, pickedUp>>

\* A box restarts: its sessions are gone and nobody is told.
CallRestart(n) ==
  /\ "restart" \in CallFaults
  /\ \E c \in CallIds : In(n, c)
  /\ session' = [session EXCEPT ![n] = [c \in CallIds |-> NoSession]]
  /\ placing' = {c \in placing : Caller[c] # n}
  /\ upset' = upset \cup {c \in CallIds : In(n, c)}
  /\ UNCHANGED <<wire, used, callLog, pickedUp, losses>>

CallNext ==
  \/ \E c \in CallIds :
       \/ Initiate(c)
       \/ Placed(c)
       \/ PlacingFails(c)
       \/ AnswerCall(c)
       \/ RejectCall(c)
       \/ \E n \in CallBoxes : Hangup(n, c)
  \/ \E m \in wire : Inbound(m) \/ CallLost(m)
  \/ \E n \in CallBoxes : CallRestart(n)

CallSpec == CallInit /\ [][CallNext]_callVars
-----------------------------------------------------------------------------
\* Types.
CallTypeOK ==
  /\ \A n \in CallBoxes, c \in CallIds :
       /\ session[n][c].state \in {"none", "ringing", "active"}
       /\ session[n][c].answered = (session[n][c].state = "active")
       /\ callLog[n][c] \in Seq({"completed", "missed", "outgoing", "rejected"})
  /\ used \cup placing \cup pickedUp \cup upset \subseteq CallIds
  /\ losses \in 0..MaxCallLosses

\* "A call cannot be logged twice": one entry on each side, although both may
\* hang up at once, a reject may cross a hangup, and boxes restart.
LoggedOnce ==
  \A n \in CallBoxes, c \in CallIds : Len(callLog[n][c]) <= 1

\* "Logging both as completed would put calls in the log that never happened":
\* a call is completed on either side only if the callee picked it up.
CompletedWasPicked ==
  \A n \in CallBoxes, c \in CallIds :
    callLog[n][c] = <<"completed">> => c \in pickedUp

\* One side has no session of a call that the other has only while it is about
\* to be told: so unless a POST of it was lost or overtaken or a box restarted.
SidesAgree ==
  \A c \in CallIds, n \in CallBoxes :
    In(n, c) /\ ~In(Peer(n), c) /\ c \notin upset =>
      \E m \in wire : m.call = c /\
        \/ m.to = Peer(n) /\ m.kind = "incoming-call"
        \/ m.to = n /\ m.kind \in {"reject", "hangup"}
=============================================================================
