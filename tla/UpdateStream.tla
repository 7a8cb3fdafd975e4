---------------------------- MODULE UpdateStream ----------------------------
(***************************************************************************)
(* The session between the operator and one kind of recipient (execution   *)
(* hosts or gateways): a unary snapshot call followed by a bidirectional   *)
(* stream of updates.  The operator's half is the recipient registry of a  *)
(* store (RegisterHost, DeregisterHost, BroadcastUpdate) and one goroutine *)
(* per stream; the recipient's half is a loop that fetches, opens a        *)
(* stream, applies updates one at a time and starts again on any failure.  *)
(*                                                                         *)
(* What is published and how it is applied is left to ConfigPublication    *)
(* and RoutePublication, which extend this module.  The configuration      *)
(* stream is cited here; the route stream has the same control.            *)
(*                                                                         *)
(* A recipient reconnects under the same identifier, so several of its     *)
(* streams can be alive in the operator at once: the recipient has left    *)
(* the older ones but their goroutines have not noticed.  A stream is a    *)
(* pair <<recipient, slot>>, and a slot is reused once its goroutine has   *)
(* returned.                                                               *)
(***************************************************************************)
EXTENDS Naturals, Sequences, FiniteSets

CONSTANTS
    Recipients,      \* identifiers of the hosts (or gateways) that connect
    MaxStreams,      \* bound: goroutines of one recipient alive at once
    ChannelCapacity  \* buffer of a registered recipient's channel, 16 in the code

ASSUME StreamsPositive == MaxStreams \in Nat \ {0}

ASSUME CapacityPositive == ChannelCapacity \in Nat \ {0}

Slots == 1..MaxStreams

Streams == Recipients \X Slots

\* No slot: the recipient has no stream, or none of its streams is registered.
NoSlot == 0

VARIABLES
    entry,    \* the registry: slot whose channel is filed under the recipient's identifier
    chan,     \* updates buffered in each stream's channel
    closed,   \* whether that channel has been closed
    handler,  \* position of each stream's goroutine
    wire,     \* the update sent to the recipient and not yet read, at most one
    acked,    \* whether an acknowledgement is on its way to the goroutine
    client,   \* position of the recipient's sync loop
    current,  \* slot of the stream the recipient is using
    synced,   \* the recipient's synced flag
    missed    \* history: an update was broadcast after the session's snapshot
              \* was read and before its stream was registered

streamVars == <<entry, chan, closed, handler, wire, acked, client, current, synced, missed>>

-----------------------------------------------------------------------------
\* "none": no goroutine; "opened": headers sent, waiting for the first
\* acknowledgement; "idle": selecting on its channel; "sent": waiting for the
\* acknowledgement of an update.
HandlerStates == {"none", "opened", "idle", "sent"}

\* "backoff": between sessions; "loading": a snapshot is on its way;
\* "loaded": snapshot applied; "opening": stream call made; "live": waiting for
\* an update; "applying": an update is being applied.
ClientStates == {"backoff", "loading", "loaded", "opening", "live", "applying"}

StreamTypeOK(Updates) ==
    /\ entry \in [Recipients -> Slots \cup {NoSlot}]
    /\ DOMAIN chan = Streams
    /\ \A s \in Streams : /\ chan[s] \in Seq(Updates) /\ Len(chan[s]) <= ChannelCapacity
                          /\ wire[s] \in Seq(Updates) /\ Len(wire[s]) <= 1
    /\ closed \in [Streams -> BOOLEAN]
    /\ handler \in [Streams -> HandlerStates]
    /\ DOMAIN wire = Streams
    /\ acked \in [Streams -> BOOLEAN]
    /\ client \in [Recipients -> ClientStates]
    /\ current \in [Recipients -> Slots \cup {NoSlot}]
    /\ synced \in [Recipients -> BOOLEAN]
    /\ missed \in [Recipients -> BOOLEAN]

StreamInit ==
    /\ entry = [r \in Recipients |-> NoSlot]
    /\ chan = [s \in Streams |-> <<>>]
    /\ closed = [s \in Streams |-> FALSE]
    /\ handler = [s \in Streams |-> "none"]
    /\ wire = [s \in Streams |-> <<>>]
    /\ acked = [s \in Streams |-> FALSE]
    /\ client = [r \in Recipients |-> "backoff"]
    /\ current = [r \in Recipients |-> NoSlot]
    /\ synced = [r \in Recipients |-> FALSE]
    /\ missed = [r \in Recipients |-> FALSE]

\* The stream recipient r is using (meaningful when current[r] is a slot).
Stream(r) == <<r, current[r]>>

InSession(r) == client[r] # "backoff"

\* r's stream is the one the registry files under r's identifier.
Attached(r) == current[r] # NoSlot /\ entry[r] = current[r]

-----------------------------------------------------------------------------
\* The operator: the registry.

\* Whether a broadcast finds room in the channel filed under r.
HasRoom(r) == Len(chan[<<r, entry[r]>>]) < ChannelCapacity

Registered == {r \in Recipients : entry[r] # NoSlot}

\* BroadcastUpdate: one critical section.  A recipient whose buffer is full is
\* taken out of the registry and its channel closed; what the channel already
\* holds can still be read.
BroadcastUpdate(u) ==
    LET fits(s) == s[1] \in Registered /\ s[2] = entry[s[1]] /\ HasRoom(s[1])
        slow(s) == s[1] \in Registered /\ s[2] = entry[s[1]] /\ ~HasRoom(s[1])
    IN /\ chan' = [s \in Streams |-> IF fits(s) THEN Append(chan[s], u) ELSE chan[s]]
       /\ closed' = [s \in Streams |-> closed[s] \/ slow(s)]
       /\ entry' = [r \in Recipients |->
                      IF r \in Registered /\ ~HasRoom(r) THEN NoSlot ELSE entry[r]]
       /\ missed' = [r \in Recipients |->
                      \/ missed[r]
                      \/ /\ InSession(r)
                         /\ current[r] = NoSlot \/ handler[Stream(r)] = "opened"]
       /\ UNCHANGED <<handler, wire, acked, client, current, synced>>

\* DeregisterHost, deferred by stream s: removes whatever channel is filed under
\* the identifier, the stream's own or that of a newer one, and closes it.  Its
\* own channel has no reader left and is forgotten.
DeregisterByClosing(s) ==   \* mutant: the entry stays
    /\ closed' = [t \in Streams |-> t # s /\ (closed[t] \/ t = <<s[1], entry[s[1]]>>)]
    /\ UNCHANGED entry

DeregisterHost(s) ==
    /\ entry' = [entry EXCEPT ![s[1]] = NoSlot]
    /\ closed' = [t \in Streams |-> t # s /\ (closed[t] \/ t = <<s[1], entry[s[1]]>>)]

-----------------------------------------------------------------------------
\* The operator: the goroutine of stream s.

\* The first acknowledgement arrives and names the recipient; RegisterHost files
\* a fresh channel under it, over any that was there.
RegisterHost(s) ==
    /\ handler[s] = "opened" /\ acked[s]
    /\ handler' = [handler EXCEPT ![s] = "idle"]
    /\ acked' = [acked EXCEPT ![s] = FALSE]
    /\ entry' = [entry EXCEPT ![s[1]] = s[2]]
    /\ UNCHANGED <<chan, closed, wire, client, current, synced, missed>>

\* Recipient s[1] has left stream s, whether or not its goroutine knows.
Abandoned(s) == current[s[1]] # s[2]

\* Takes the next update from the channel and sends it; on an abandoned stream it
\* goes nowhere.
SendUpdate(s) ==
    /\ handler[s] = "idle" /\ chan[s] # <<>>
    /\ chan' = [chan EXCEPT ![s] = Tail(@)]
    /\ wire' = [wire EXCEPT ![s] = IF Abandoned(s) THEN <<>> ELSE <<Head(chan[s])>>]
    /\ handler' = [handler EXCEPT ![s] = "sent"]
    /\ UNCHANGED <<entry, closed, acked, client, current, synced, missed>>

\* The acknowledgement of the update arrives.
RecvAck(s) ==
    /\ handler[s] = "sent" /\ acked[s]
    /\ handler' = [handler EXCEPT ![s] = "idle"]
    /\ acked' = [acked EXCEPT ![s] = FALSE]
    /\ UNCHANGED <<entry, chan, closed, wire, client, current, synced, missed>>

\* The goroutine returns.  The deferred DeregisterHost runs only once it has
\* registered.  An update already sent can still be read.
Return(s) ==
    /\ handler' = [handler EXCEPT ![s] = "none"]
    /\ IF handler[s] = "opened" THEN UNCHANGED <<entry, closed>> ELSE DeregisterHost(s)
    /\ chan' = [chan EXCEPT ![s] = <<>>]
    /\ acked' = [acked EXCEPT ![s] = FALSE]
    /\ UNCHANGED <<wire, client, current, synced, missed>>

\* Mutant: the receive does not look at whether the channel is closed.
CloseUnnoticed(s) ==
    /\ handler[s] = "idle" /\ closed[s] /\ chan[s] = <<>>
    /\ UNCHANGED streamVars

\* The channel was closed and everything it held has been delivered.
ChannelClosed(s) ==
    /\ handler[s] = "idle" /\ closed[s] /\ chan[s] = <<>>
    /\ Return(s)

\* The stream's context is done because the recipient went away.
Disconnected(s) ==
    /\ handler[s] # "none" /\ Abandoned(s)
    /\ Return(s)

\* The stream's context is done for a reason of the operator's: session limit,
\* failed revalidation of the token, loss of publication authority.
Interrupted(s) ==
    /\ handler[s] # "none" /\ ~Abandoned(s)
    /\ Return(s)

-----------------------------------------------------------------------------
\* The recipient.

\* The snapshot call is answered: the store is read here and the answer applied
\* later.  What it holds is the extending module's business.
ServeSnapshot(r) ==
    /\ client[r] = "backoff"
    /\ client' = [client EXCEPT ![r] = "loading"]
    /\ missed' = [missed EXCEPT ![r] = FALSE]
    /\ UNCHANGED <<entry, chan, closed, handler, wire, acked, current, synced>>

\* The answer arrives and replaces what the recipient had.
LoadSnapshot(r) ==
    /\ client[r] = "loading"
    /\ client' = [client EXCEPT ![r] = "loaded"]
    /\ UNCHANGED <<entry, chan, closed, handler, wire, acked, current, synced, missed>>

\* The stream call reaches the operator, whose goroutine sends headers and
\* waits.  The slot must be free: its last goroutine has returned.
OpenStream(r) ==
    /\ client[r] = "loaded"
    /\ \E n \in Slots :
         /\ handler[<<r, n>>] = "none"
         /\ current' = [current EXCEPT ![r] = n]
         /\ handler' = [handler EXCEPT ![<<r, n>>] = "opened"]
    /\ client' = [client EXCEPT ![r] = "opening"]
    /\ UNCHANGED <<entry, chan, closed, wire, acked, synced, missed>>

\* Headers arrive; the first acknowledgement is queued locally and synced is
\* raised at once, without waiting for the operator to register the stream.
InitialAck(r) ==
    /\ client[r] = "opening"
    /\ client' = [client EXCEPT ![r] = "live"]
    /\ acked' = [acked EXCEPT ![Stream(r)] = handler[Stream(r)] # "none"]
    /\ synced' = [synced EXCEPT ![r] = TRUE]
    /\ UNCHANGED <<entry, chan, closed, handler, wire, current, missed>>

\* An update is read and applied to the recipient's table.
Receive(r) ==
    /\ client[r] = "live" /\ wire[Stream(r)] # <<>>
    /\ client' = [client EXCEPT ![r] = "applying"]
    /\ wire' = [wire EXCEPT ![Stream(r)] = <<>>]
    /\ UNCHANGED <<entry, chan, closed, handler, acked, current, synced, missed>>

\* What depends on the update (modules, pools) is done; it is acknowledged.
Ack(r) ==
    /\ client[r] = "applying"
    /\ client' = [client EXCEPT ![r] = "live"]
    /\ acked' = [acked EXCEPT ![Stream(r)] = handler[Stream(r)] # "none"]
    /\ UNCHANGED <<entry, chan, closed, handler, wire, current, synced, missed>>

\* The session is over: synced is withdrawn and the stream abandoned.
Leave(r) ==
    /\ client' = [client EXCEPT ![r] = "backoff"]
    /\ current' = [current EXCEPT ![r] = NoSlot]
    /\ synced' = [synced EXCEPT ![r] = FALSE]
    /\ wire' = [s \in Streams |-> IF s = Stream(r) THEN <<>> ELSE wire[s]]
    /\ missed' = [missed EXCEPT ![r] = FALSE]
    /\ UNCHANGED <<entry, chan, closed, handler, acked>>

\* The operator ended the stream and nothing is left to read.
StreamEnded(r) ==
    /\ client[r] = "live" /\ handler[Stream(r)] = "none" /\ wire[Stream(r)] = <<>>
    /\ Leave(r)

\* A call fails, the connection breaks or the session timer fires.
SessionFails(r) ==
    /\ InSession(r)
    /\ Leave(r)

\* The steps of stream s that need no fault and no timer.
Goroutine(s) ==
    RegisterHost(s) \/ SendUpdate(s) \/ RecvAck(s) \/ ChannelClosed(s) \/ Disconnected(s)
=============================================================================
