------------------------------ MODULE Messages -------------------------------
(***************************************************************************)
(* Direct messages to one peer (services/peering/messages.go, outbox.go,   *)
(* inbox.go): a send that cannot be delivered is kept as a file, and a     *)
(* worker retries.  A worker claims a file by renaming it, so a queued     *)
(* message is at its own name ("path"), at a worker's, or, after a crash,  *)
(* at the name of a worker that no longer exists.                          *)
(*                                                                         *)
(* The peer's address is "old" or "new"; only the new one is answered once *)
(* the peer has moved.  A POST either arrives or not, and its answer       *)
(* either comes back or not.                                               *)
(***************************************************************************)
EXTENDS Integers, FiniteSets

CONSTANTS
  Letters,     \* message ids: UUIDs, each sent once
  Workers,     \* retry passes that run at the same time
  MaxLetterFaults, \* bound: POSTs that fail for no lasting reason
  LetterFaults \* the failures of a run: "network", "crash", "move"

ASSUME LetterConstants ==
  /\ MaxLetterFaults \in Nat
  /\ "" \notin Letters

VARIABLES
  sending, \* handleSend: where the request of a message is
  path,    \* the file under its own name: the address in it, and if it is due
  pass,    \* a worker: the message it has claimed and the item it has read
  strand,  \* messages whose file has the name of a worker that has died
  update,  \* UpdatePeerServer: the item it has read and will write back
  home,    \* the address at which the peer is
  inbox,   \* messages the peer has stored
  faults   \* POSTs that have failed

letterVars == <<sending, path, pass, strand, update, home, inbox, faults>>

NoItem == [server |-> "", due |-> FALSE]
Asleep == [m |-> "", item |-> NoItem, pc |-> "idle"]

LetterInit ==
  /\ sending = [m \in Letters |-> "no"]
  /\ path = [m \in Letters |-> NoItem]
  /\ pass = [w \in Workers |-> Asleep]
  /\ strand = {}
  /\ update = Asleep
  /\ home = "old"
  /\ inbox = {}
  /\ faults = 0

Item(server) == [server |-> server, due |-> FALSE]
AtPath(m)    == path[m] # NoItem

\* client.Post of m to a server: what has arrived, and whether an answer came.
\* HandleInboundMessage stores a message under its id, again without effect.
Post(m, server, ok) ==
  \/ /\ ok
     /\ server = home
     /\ inbox' = inbox \cup {m}
     /\ UNCHANGED faults
  \/ /\ ~ok
     /\ IF server = home
        THEN /\ "network" \in LetterFaults
             /\ faults < MaxLetterFaults
             /\ faults' = faults + 1
             /\ inbox' \in {inbox, inbox \cup {m}}
        ELSE UNCHANGED <<faults, inbox>>
-----------------------------------------------------------------------------
(* handleSend                                                              *)

\* The first attempt goes to the address in the contacts.
Send(m) ==
  /\ sending[m] = "no"
  /\ \E ok \in BOOLEAN :
       /\ Post(m, "old", ok)
       /\ sending' = [sending EXCEPT ![m] = IF ok THEN "delivered" ELSE "enqueue"]
  /\ UNCHANGED <<path, pass, strand, update, home>>

\* Enqueue and writeItem: due after the first interval of the schedule.
Enqueue(m) ==
  /\ sending[m] = "enqueue"
  /\ path' = [path EXCEPT ![m] = IF AtPath(m) THEN @ ELSE Item("old")]
  /\ sending' = [sending EXCEPT ![m] = "queued"]
  /\ UNCHANGED <<pass, strand, update, home, inbox, faults>>
-----------------------------------------------------------------------------
(* retryPeerDir                                                            *)

\* The interval passes.
FallsDue(m) ==
  /\ AtPath(m)
  /\ ~path[m].due
  /\ path' = [path EXCEPT ![m].due = TRUE]
  /\ UNCHANGED <<sending, pass, strand, update, home, inbox, faults>>

\* The rename claims the file; the item is read under its new name.
Claim(w, m) ==
  /\ pass[w].pc = "idle"
  /\ AtPath(m)
  /\ pass' = [pass EXCEPT ![w] = [m |-> m, item |-> path[m], pc |-> "claimed"]]
  /\ path' = [path EXCEPT ![m] = NoItem]
  /\ UNCHANGED <<sending, strand, update, home, inbox, faults>>

\* Fault: an item that could not be delivered is dropped.
Restored_Dropped(w) == [path EXCEPT ![pass[w].m] = NoItem]

\* bumpAttempt, overwriteItem and the rename back, over whatever is there.
Restored(w) == [path EXCEPT ![pass[w].m] = Item(pass[w].item.server)]

NotDue(w) ==
  /\ pass[w].pc = "claimed"
  /\ ~pass[w].item.due
  /\ path' = [path EXCEPT ![pass[w].m] = pass[w].item]
  /\ pass' = [pass EXCEPT ![w] = Asleep]
  /\ UNCHANGED <<sending, strand, update, home, inbox, faults>>

Deliver(w) ==
  /\ pass[w].pc = "claimed"
  /\ pass[w].item.due
  /\ \E ok \in BOOLEAN :
       /\ Post(pass[w].m, pass[w].item.server, ok)
       /\ pass' = [pass EXCEPT ![w].pc = IF ok THEN "remove" ELSE "restore"]
  /\ UNCHANGED <<sending, path, strand, update, home>>

Remove(w) ==
  /\ pass[w].pc = "remove"
  /\ pass' = [pass EXCEPT ![w] = Asleep]
  /\ UNCHANGED <<sending, path, strand, update, home, inbox, faults>>

Restore(w) ==
  /\ pass[w].pc = "restore"
  /\ path' = Restored(w)
  /\ pass' = [pass EXCEPT ![w] = Asleep]
  /\ UNCHANGED <<sending, strand, update, home, inbox, faults>>
-----------------------------------------------------------------------------
(* Acknowledge, UpdatePeerServer, crash                                    *)

\* The peer has confirmed m: the file under its own name is removed.
Acknowledge(m) ==
  /\ m \in inbox
  /\ AtPath(m)
  /\ path' = [path EXCEPT ![m] = NoItem]
  /\ UNCHANGED <<sending, pass, strand, update, home, inbox, faults>>

\* The peer moves, for good.
PeerMoves ==
  /\ "move" \in LetterFaults
  /\ home = "old"
  /\ home' = "new"
  /\ UNCHANGED <<sending, path, pass, strand, update, inbox, faults>>

\* UpdatePeerServer comes to the file of m: read, then overwritten.
UpdateRead(m) ==
  /\ home = "new"
  /\ update = Asleep
  /\ AtPath(m)
  /\ path[m].server # "new"
  /\ update' = [m |-> m, item |-> [path[m] EXCEPT !.server = "new"], pc |-> "write"]
  /\ UNCHANGED <<sending, path, pass, strand, home, inbox, faults>>

UpdateWrite ==
  /\ update.pc = "write"
  /\ path' = [path EXCEPT ![update.m] = update.item]
  /\ update' = Asleep
  /\ UNCHANGED <<sending, pass, strand, home, inbox, faults>>

Claimed(m) == \E w \in Workers : pass[w].m = m

\* The process dies: no pass ever looks at a file with ".processing." in it.
\* A request that has not answered its caller is lost.
LetterCrash ==
  /\ "crash" \in LetterFaults
  /\ strand' = strand \cup {m \in Letters : Claimed(m)}
  /\ strand' # strand
  /\ pass' = [w \in Workers |-> Asleep]
  /\ update' = Asleep
  /\ sending' = [m \in Letters |-> IF sending[m] = "enqueue" THEN "lost" ELSE sending[m]]
  /\ UNCHANGED <<path, home, inbox, faults>>

LetterNext ==
  \/ \E m \in Letters :
       Send(m) \/ Enqueue(m) \/ FallsDue(m) \/ Acknowledge(m) \/ UpdateRead(m)
  \/ \E w \in Workers :
       \/ \E m \in Letters : Claim(w, m)
       \/ NotDue(w)
       \/ Deliver(w)
       \/ Remove(w)
       \/ Restore(w)
  \/ PeerMoves
  \/ UpdateWrite
  \/ LetterCrash

\* The ticker never stops, passes reach every file, and they are far enough
\* apart that a file at its own name falls due there.
LetterFairness ==
  /\ WF_letterVars(\E m \in Letters : Enqueue(m))
  /\ \A m \in Letters :
       /\ SF_letterVars(FallsDue(m))
       /\ SF_letterVars(path[m].due /\ \E w \in Workers : Claim(w, m))
  /\ \A w \in Workers :
       WF_letterVars(NotDue(w) \/ Deliver(w) \/ Remove(w) \/ Restore(w))
-----------------------------------------------------------------------------
\* Types.
LetterTypeOK ==
  /\ sending \in [Letters -> {"no", "enqueue", "delivered", "queued", "lost"}]
  /\ \A m \in Letters : path[m] \in [server : {"", "old", "new"}, due : BOOLEAN]
  /\ \A w \in Workers : pass[w].m \in Letters \cup {""}
  /\ strand \subseteq Letters
  /\ inbox \subseteq Letters
  /\ faults \in 0..MaxLetterFaults

\* What the user was told is queued has arrived or is in a file.
QueuedIsKept ==
  \A m \in Letters :
    sending[m] = "queued" => m \in inbox \/ AtPath(m) \/ Claimed(m) \/ m \in strand

\* "Restored so the next pass will retry it": a queued message that no worker
\* died with is retried until it has arrived, as long as the peer stays at its
\* address and the network is not cut for good.
QueuedArrives ==
  \A m \in Letters :
    sending[m] = "queued" ~> m \in inbox \/ m \in strand \/ home = "new"
=============================================================================
