------------------------- MODULE UpdateStreamProofs -------------------------
(***************************************************************************)
(* What holds of the sessions of UpdateStream whatever they carry: the     *)
(* registry holds open channels only, at most one update of a stream is on *)
(* its way and nothing overtakes it, and a recipient that has followed     *)
(* every broadcast since its snapshot has the later ones queued in order.  *)
(* ConfigPublicationProofs and RoutePublicationProofs build on these       *)
(* lemmas.                                                                 *)
(***************************************************************************)
EXTENDS UpdateStream, SequenceTheorems, TLAPS

-----------------------------------------------------------------------------
\* The registry holds no closed channel and no channel without a reader.
EntryInv ==
    \A r \in Recipients : entry[r] # NoSlot =>
        /\ ~closed[<<r, entry[r]>>]
        /\ handler[<<r, entry[r]>>] \in {"idle", "sent"}

\* A stream that has not registered, or not yet again, starts from nothing.
FreshInv ==
    \A s \in Streams :
        /\ handler[s] \in {"none", "opened"} => ~closed[s] /\ chan[s] = <<>>
        /\ handler[s] = "none" => ~acked[s]

\* The recipient has a stream exactly from opening it to leaving it.
ClientInv ==
    \A r \in Recipients : current[r] = NoSlot <=> client[r] \in {"backoff", "loading", "loaded"}

\* Goroutine and recipient take turns: an update is on the wire only while the one
\* waits for its acknowledgement and the other for an update, and an
\* acknowledgement is under way only when the recipient has applied everything sent.
TurnInv ==
    \A s \in Streams :
        /\ wire[s] # <<>> => /\ current[s[1]] = s[2] /\ client[s[1]] = "live"
                             /\ handler[s] \in {"sent", "none"} /\ ~acked[s]
        /\ current[s[1]] = s[2] =>
             /\ client[s[1]] = "opening" => handler[s] \in {"opened", "none"} /\ ~acked[s]
             /\ client[s[1]] = "applying" => handler[s] \in {"sent", "none"} /\ ~acked[s]
             /\ handler[s] = "idle" => ~acked[s]

SessionInv == EntryInv /\ FreshInv /\ ClientInv /\ TurnInv

\* r's session has seen every broadcast since its snapshot was read, and will see
\* the next one or record that it did not.
Following(r) ==
    /\ InSession(r) /\ ~missed[r]
    /\ current[r] = NoSlot \/ handler[Stream(r)] = "opened" \/ Attached(r)

\* The updates broadcast to r and not yet applied, oldest first.
Queued(r) == IF Attached(r) THEN wire[Stream(r)] \o chan[Stream(r)] ELSE <<>>

\* A step of one stream's goroutine.
GoroutineMoves(s) == Goroutine(s) \/ Interrupted(s)

\* A step of a session that applies no update and starts no session.
SessionMoves(r) ==
    LoadSnapshot(r) \/ OpenStream(r) \/ InitialAck(r) \/ Ack(r) \/ StreamEnded(r) \/ SessionFails(r)

-----------------------------------------------------------------------------
\* A stream is a recipient and a slot, and no slot is 0.
LEMMA StreamPairs ==
    /\ \A s \in Streams : s = <<s[1], s[2]>> /\ s[1] \in Recipients /\ s[2] \in Slots
    /\ \A r \in Recipients, n \in Slots : <<r, n>> \in Streams /\ <<r, n>>[1] = r /\ <<r, n>>[2] = n
    /\ NoSlot \notin Slots
    /\ \A r, q, n, m : <<r, n>> = <<q, m>> <=> r = q /\ n = m
BY StreamsPositive DEF Streams, Slots, NoSlot

\* The sessions start with nothing registered, buffered or sent.
LEMMA StreamInitially ==
    ASSUME NEW U, StreamInit
    PROVE  StreamTypeOK(U) /\ SessionInv
<1>1. StreamTypeOK(U)
  BY StreamPairs, EmptySeq, CapacityPositive DEF StreamInit, StreamTypeOK, HandlerStates, ClientStates
<1>2. SessionInv
  BY Zenon, StreamPairs DEF StreamInit, SessionInv, EntryInv, FreshInv, ClientInv, TurnInv
<1> QED
  BY Zenon, <1>1, <1>2

\* The stream a recipient is using is a stream.
LEMMA StreamOf ==
    ASSUME NEW U, StreamTypeOK(U), NEW r \in Recipients, current[r] # NoSlot
    PROVE  Stream(r) \in Streams /\ Stream(r)[1] = r /\ Stream(r)[2] = current[r]
BY StreamPairs DEF StreamTypeOK, Stream

\* The stream registered under a recipient is a stream.
LEMMA EntryOf ==
    ASSUME NEW U, StreamTypeOK(U), NEW r \in Recipients, entry[r] # NoSlot
    PROVE  /\ <<r, entry[r]>> \in Streams
           /\ \A s \in Streams : s = <<r, entry[r]>> <=> s[1] = r /\ s[2] = entry[r]
BY StreamPairs DEF StreamTypeOK

\* A move of a goroutine keeps the types.
LEMMA GoroutineTypes ==
    ASSUME NEW U, StreamTypeOK(U), NEW s \in Streams, GoroutineMoves(s)
    PROVE  StreamTypeOK(U)'
<1> USE StreamPairs DEF StreamTypeOK, HandlerStates
<1>1. CASE RegisterHost(s)
  BY Zenon, <1>1 DEF RegisterHost
<1>2. CASE SendUpdate(s)
  <2>1. /\ Tail(chan[s]) \in Seq(U) /\ Len(Tail(chan[s])) <= ChannelCapacity
        /\ <<Head(chan[s])>> \in Seq(U) /\ Len(<<Head(chan[s])>>) = 1
        /\ <<>> \in Seq(U) /\ Len(<<>>) = 0
    BY <1>2, CapacityPositive, HeadTailProperties DEF SendUpdate
  <2> QED
    BY <1>2, <2>1 DEF SendUpdate
<1>3. CASE RecvAck(s)
  BY Zenon, <1>3 DEF RecvAck
<1>4. CASE Return(s)
  <2>1. <<>> \in Seq(U) /\ Len(<<>>) = 0 /\ 0 <= ChannelCapacity
    BY CapacityPositive
  <2>2. entry' \in [Recipients -> Slots \cup {NoSlot}]
    BY ZenonT(30), <1>4 DEF Return, DeregisterHost
  <2>3. closed' = closed \/
          closed' = [t \in Streams |-> t # s /\ (closed[t] \/ t = <<s[1], entry[s[1]]>>)]
    BY Zenon, <1>4 DEF Return, DeregisterHost
  <2>4. closed' \in [Streams -> BOOLEAN]
    <3>1. closed \in [Streams -> BOOLEAN]
      BY Zenon
    <3>2. [t \in Streams |-> t # s /\ (closed[t] \/ t = <<s[1], entry[s[1]]>>)] \in [Streams -> BOOLEAN]
      BY Zenon
    <3> QED
      BY Zenon, <2>3, <3>1, <3>2
  <2> QED
    BY Zenon, <1>4, <2>1, <2>2, <2>4 DEF Return
<1> QED
  BY Zenon, <1>1, <1>2, <1>3, <1>4 DEF GoroutineMoves, Goroutine, ChannelClosed, Disconnected, Interrupted

\* A broadcast keeps the types; in particular no channel exceeds its capacity.
LEMMA BroadcastTypes ==
    ASSUME NEW U, StreamTypeOK(U), NEW u \in U, BroadcastUpdate(u)
    PROVE  StreamTypeOK(U)'
<1>1. \A s \in Streams : chan'[s] \in Seq(U) /\ Len(chan'[s]) <= ChannelCapacity
  <2> SUFFICES ASSUME NEW s \in Streams
               PROVE  chan'[s] \in Seq(U) /\ Len(chan'[s]) <= ChannelCapacity
    BY Zenon
  <2>1. chan'[s] = chan[s] \/ (chan'[s] = Append(chan[s], u) /\ Len(chan[s]) < ChannelCapacity)
    BY StreamPairs DEF BroadcastUpdate, HasRoom
  <2> QED
    <3>1. chan[s] \in Seq(U) /\ Len(chan[s]) <= ChannelCapacity /\ Len(chan[s]) \in Nat
      BY Zenon, LenProperties DEF StreamTypeOK
    <3>2. Append(chan[s], u) \in Seq(U) /\ Len(Append(chan[s], u)) = Len(chan[s]) + 1
      BY <3>1, AppendProperties
    <3> QED
      <4>1. CASE chan'[s] = chan[s]
        BY Zenon, <3>1, <4>1
      <4>2. CASE chan'[s] = Append(chan[s], u) /\ Len(chan[s]) < ChannelCapacity
        BY <3>1, <3>2, <4>2, CapacityPositive
      <4> QED
        BY Zenon, <2>1, <4>1, <4>2
<1>2. /\ entry' \in [Recipients -> Slots \cup {NoSlot}]
      /\ DOMAIN chan' = Streams /\ closed' \in [Streams -> BOOLEAN]
      /\ missed' \in [Recipients -> BOOLEAN]
  BY Zenon DEF StreamTypeOK, BroadcastUpdate
<1> QED
  BY Zenon, <1>1, <1>2 DEF StreamTypeOK, BroadcastUpdate

\* A move of a session keeps the types.
LEMMA SessionTypes ==
    ASSUME NEW U, StreamTypeOK(U), NEW r \in Recipients,
           ServeSnapshot(r) \/ Receive(r) \/ SessionMoves(r)
    PROVE  StreamTypeOK(U)'
<1> USE StreamPairs DEF StreamTypeOK, HandlerStates, ClientStates
<1>0. <<>> \in Seq(U) /\ Len(<<>>) = 0
  OBVIOUS
<1>1. CASE ServeSnapshot(r) \/ LoadSnapshot(r)
  BY Zenon, <1>1 DEF ServeSnapshot, LoadSnapshot
<1>2. CASE OpenStream(r)
  BY <1>2 DEF OpenStream
<1>3. CASE InitialAck(r) \/ Ack(r)
  <2>1. PICK b \in BOOLEAN : acked' = [acked EXCEPT ![Stream(r)] = b]
    <3>1. acked' = [acked EXCEPT ![Stream(r)] = handler[Stream(r)] # "none"]
      BY Zenon, <1>3 DEF InitialAck, Ack
    <3>2. (handler[Stream(r)] # "none") \in BOOLEAN
      BY Zenon
    <3> QED
      BY <3>1, <3>2, Zenon
  <2>2. acked' \in [Streams -> BOOLEAN]
    <3> HIDE DEF StreamTypeOK
    <3>1. acked \in [Streams -> BOOLEAN]
      BY Zenon DEF StreamTypeOK
    <3> QED
      BY Zenon, <2>1, <3>1
  <2>3. /\ client' = [client EXCEPT ![r] = "live"]
        /\ synced' = synced \/ synced' = [synced EXCEPT ![r] = TRUE]
        /\ UNCHANGED <<entry, chan, closed, handler, wire, current, missed>>
    BY Zenon, <1>3 DEF InitialAck, Ack
  <2> QED
    BY Zenon, <2>2, <2>3
<1>4. CASE Receive(r)
  BY <1>0, <1>4 DEF Receive
<1>5. CASE StreamEnded(r) \/ SessionFails(r)
  <2>1. /\ wire' = [s \in Streams |-> IF s = Stream(r) THEN <<>> ELSE wire[s]]
        /\ client' = [client EXCEPT ![r] = "backoff"]
        /\ current' = [current EXCEPT ![r] = NoSlot]
        /\ synced' = [synced EXCEPT ![r] = FALSE]
        /\ missed' = [missed EXCEPT ![r] = FALSE]
        /\ UNCHANGED <<entry, chan, closed, handler, acked>>
    BY Zenon, <1>5 DEF StreamEnded, SessionFails, Leave
  <2>2. DOMAIN wire' = Streams /\ \A s \in Streams : wire'[s] \in Seq(U) /\ Len(wire'[s]) <= 1
    BY <1>0, <2>1
  <2> QED
    BY Zenon, <2>1, <2>2
<1> QED
  BY Zenon, <1>1, <1>2, <1>3, <1>4, <1>5 DEF SessionMoves

\* A move of a goroutine keeps the session invariant: in particular the one that
\* returns takes the registered channel with it, whoever's it is.
LEMMA GoroutineKeeps ==
    ASSUME NEW U, StreamTypeOK(U), SessionInv, NEW s \in Streams, GoroutineMoves(s)
    PROVE  SessionInv'
<1> USE StreamPairs DEF StreamTypeOK
<1>1. CASE RegisterHost(s)
  <2>1. EntryInv'
    <3>1. ~closed[s]
      BY Zenon, <1>1 DEF SessionInv, FreshInv, RegisterHost
    <3> QED
      <4> SUFFICES ASSUME NEW q \in Recipients, entry'[q] # NoSlot
                   PROVE  ~closed[<<q, entry'[q]>>] /\ handler'[<<q, entry'[q]>>] \in {"idle", "sent"}
        BY Zenon, <1>1 DEF EntryInv, RegisterHost
      <4>1. CASE q = s[1]
        BY ZenonT(30), <1>1, <3>1, <4>1 DEF RegisterHost
      <4>2. CASE q # s[1]
        <5>1. entry'[q] = entry[q]
          BY Zenon, <1>1, <4>2 DEF RegisterHost
        <5>2. <<q, entry[q]>> \in Streams /\ <<q, entry[q]>> # s
          BY Zenon, <4>2, <5>1, EntryOf
        <5> QED
          BY Zenon, <1>1, <5>1, <5>2 DEF SessionInv, EntryInv, RegisterHost
      <4> QED
        BY Zenon, <4>1, <4>2
  <2>2. FreshInv'
    BY Zenon, <1>1 DEF SessionInv, EntryInv, FreshInv, RegisterHost
  <2>3. ClientInv'
    BY Zenon, <1>1 DEF SessionInv, ClientInv, RegisterHost
  <2>4. TurnInv'
    BY <1>1 DEF SessionInv, ClientInv, FreshInv, TurnInv, RegisterHost
  <2> QED
    BY Zenon, <2>1, <2>2, <2>3, <2>4 DEF SessionInv
<1>2. CASE SendUpdate(s)
  <2>1. EntryInv'
    BY <1>2 DEF SessionInv, EntryInv, FreshInv, SendUpdate, Abandoned
  <2>2. FreshInv'
    BY Zenon, <1>2 DEF SessionInv, EntryInv, FreshInv, SendUpdate, Abandoned
  <2>3. ClientInv'
    BY Zenon, <1>2 DEF SessionInv, ClientInv, SendUpdate, Abandoned
  <2>4. TurnInv'
    <3> SUFFICES ASSUME NEW t \in Streams
                 PROVE  /\ wire'[t] # <<>> => /\ current'[t[1]] = t[2] /\ client'[t[1]] = "live"
                                              /\ handler'[t] \in {"sent", "none"} /\ ~acked'[t]
                        /\ current'[t[1]] = t[2] =>
                             /\ client'[t[1]] = "opening" => handler'[t] \in {"opened", "none"} /\ ~acked'[t]
                             /\ client'[t[1]] = "applying" => handler'[t] \in {"sent", "none"} /\ ~acked'[t]
                             /\ handler'[t] = "idle" => ~acked'[t]
      BY Zenon DEF TurnInv
    <3>1. /\ wire'[t] = IF t = s THEN (IF Abandoned(s) THEN <<>> ELSE <<Head(chan[s])>>) ELSE wire[t]
          /\ handler'[t] = IF t = s THEN "sent" ELSE handler[t]
          /\ UNCHANGED <<acked, client, current>>
      BY <1>2 DEF SendUpdate
    <3>2. ~Abandoned(s) => client[s[1]] = "live" /\ ~acked[s] /\ current[s[1]] = s[2]
      <4> SUFFICES ASSUME current[s[1]] = s[2]
                   PROVE  client[s[1]] = "live" /\ ~acked[s]
        BY Zenon DEF Abandoned
      <4>1. handler[s] = "idle" /\ current[s[1]] # NoSlot
        BY <1>2 DEF SendUpdate
      <4>2. client[s[1]] \notin {"backoff", "loading", "loaded", "opening", "applying"} /\ ~acked[s]
        BY Zenon, <4>1 DEF SessionInv, TurnInv, ClientInv
      <4> QED
        BY <4>2 DEF ClientStates
    <3> QED
      BY <3>1, <3>2 DEF SessionInv, TurnInv, Abandoned
  <2> QED
    BY Zenon, <2>1, <2>2, <2>3, <2>4 DEF SessionInv
<1>3. CASE RecvAck(s)
  <2>1. EntryInv'
    BY <1>3 DEF SessionInv, EntryInv, FreshInv, RecvAck
  <2>2. FreshInv'
    BY Zenon, <1>3 DEF SessionInv, EntryInv, FreshInv, RecvAck
  <2>3. ClientInv'
    BY Zenon, <1>3 DEF SessionInv, ClientInv, RecvAck
  <2>4. TurnInv'
    BY <1>3 DEF SessionInv, ClientInv, FreshInv, TurnInv, RecvAck
  <2> QED
    BY Zenon, <2>1, <2>2, <2>3, <2>4 DEF SessionInv
<1>4. CASE handler[s] # "none" /\ Return(s)
  <2>a. ASSUME handler[s] = "opened" PROVE EntryInv' /\ FreshInv'
    <3>1. /\ UNCHANGED <<entry, closed>>
          /\ handler' = [handler EXCEPT ![s] = "none"]
          /\ chan' = [chan EXCEPT ![s] = <<>>]
          /\ acked' = [acked EXCEPT ![s] = FALSE]
      BY Zenon, <1>4, <2>a DEF Return
    <3>2. EntryInv'
      <4> SUFFICES ASSUME NEW q \in Recipients, entry[q] # NoSlot
                   PROVE  ~closed[<<q, entry[q]>>] /\ handler'[<<q, entry[q]>>] \in {"idle", "sent"}
        BY Zenon, <3>1 DEF EntryInv
      <4>1. <<q, entry[q]>> \in Streams /\ handler[<<q, entry[q]>>] \in {"idle", "sent"}
        BY Zenon, EntryOf DEF SessionInv, EntryInv
      <4> QED
        BY Zenon, <2>a, <3>1, <4>1 DEF SessionInv, EntryInv
    <3>3. FreshInv'
      BY Zenon, <2>a, <3>1 DEF SessionInv, FreshInv
    <3> QED
      BY Zenon, <3>2, <3>3
  <2>b. ASSUME handler[s] # "opened" PROVE EntryInv' /\ FreshInv'
    <3>1. /\ entry' = [entry EXCEPT ![s[1]] = NoSlot]
          /\ handler' = [handler EXCEPT ![s] = "none"]
          /\ chan' = [chan EXCEPT ![s] = <<>>]
          /\ acked' = [acked EXCEPT ![s] = FALSE]
      BY Zenon, <1>4, <2>b DEF Return, DeregisterHost
    <3>2. \A t \in Streams : closed'[t] <=> t # s /\ (closed[t] \/ t = <<s[1], entry[s[1]]>>)
      <4>1. closed' = [t \in Streams |-> t # s /\ (closed[t] \/ t = <<s[1], entry[s[1]]>>)]
        BY Zenon, <1>4, <2>b DEF Return, DeregisterHost
      <4> QED
        BY <4>1, Zenon
    <3>3. EntryInv'
      BY <3>1, <3>2 DEF SessionInv, EntryInv
    <3>4. ASSUME NEW t \in Streams, t # s, handler[t] \in {"none", "opened"}
          PROVE  ~closed'[t] /\ chan'[t] = <<>>
      <4>1. t # <<s[1], entry[s[1]]>>
        <5>1. CASE entry[s[1]] = NoSlot
          BY <5>1
        <5>2. CASE entry[s[1]] # NoSlot
          BY Zenon, <3>4, <5>2 DEF SessionInv, EntryInv
        <5> QED
          BY Zenon, <5>1, <5>2
      <4> QED
        BY Zenon, <3>1, <3>2, <3>4, <4>1 DEF SessionInv, FreshInv
    <3>5. ~closed'[s] /\ chan'[s] = <<>>
      BY Zenon, <3>1, <3>2
    <3>6. FreshInv'
      BY <3>1, <3>4, <3>5 DEF SessionInv, FreshInv
    <3> QED
      BY Zenon, <3>3, <3>6
  <2>1. EntryInv'
    BY Zenon, <2>a, <2>b
  <2>2. FreshInv'
    BY Zenon, <2>a, <2>b
  <2>3. ClientInv'
    BY Zenon, <1>4 DEF SessionInv, ClientInv, Return, DeregisterHost
  <2>4. TurnInv'
    BY <1>4 DEF SessionInv, ClientInv, FreshInv, TurnInv, Return, DeregisterHost
  <2> QED
    BY Zenon, <2>1, <2>2, <2>3, <2>4 DEF SessionInv
<1> QED
  BY Zenon, <1>1, <1>2, <1>3, <1>4 DEF GoroutineMoves, Goroutine, ChannelClosed, Disconnected, Interrupted

\* A broadcast keeps the session invariant: a channel it closes leaves the registry
\* in the same step.
LEMMA BroadcastKeeps ==
    ASSUME NEW U, StreamTypeOK(U), SessionInv, NEW u \in U, BroadcastUpdate(u)
    PROVE  SessionInv'
<1> USE StreamPairs DEF StreamTypeOK
<1>1. EntryInv'
  BY DEF SessionInv, EntryInv, BroadcastUpdate, Registered
<1>2. FreshInv'
  <2> SUFFICES ASSUME NEW t \in Streams
               PROVE  /\ handler[t] \in {"none", "opened"} => ~closed'[t] /\ chan'[t] = <<>>
                      /\ handler[t] = "none" => ~acked[t]
    BY Zenon DEF FreshInv, BroadcastUpdate
  <2>1. handler[t] \in {"none", "opened"} => ~(t[1] \in Registered /\ t[2] = entry[t[1]])
    <3>1. CASE entry[t[1]] = NoSlot
      BY Zenon, <3>1
    <3>2. CASE entry[t[1]] # NoSlot
      <4>1. handler[<<t[1], entry[t[1]]>>] \in {"idle", "sent"}
        BY Zenon, <3>2 DEF SessionInv, EntryInv
      <4>2. t[2] = entry[t[1]] => t = <<t[1], entry[t[1]]>>
        BY Zenon, <3>2, EntryOf
      <4> QED
        BY Zenon, <4>1, <4>2
    <3> QED
      BY Zenon, <3>1, <3>2
  <2>2. ~(t[1] \in Registered /\ t[2] = entry[t[1]]) => chan'[t] = chan[t] /\ (closed'[t] <=> closed[t])
    BY Zenon DEF BroadcastUpdate
  <2> QED
    BY Zenon, <2>1, <2>2 DEF SessionInv, FreshInv
<1>3. ClientInv' /\ TurnInv'
  BY Zenon DEF SessionInv, ClientInv, TurnInv, BroadcastUpdate
<1> QED
  BY Zenon, <1>1, <1>2, <1>3 DEF SessionInv

\* A move of a recipient keeps the session invariant.
LEMMA RecipientKeeps ==
    ASSUME NEW U, StreamTypeOK(U), SessionInv, NEW r \in Recipients,
           ServeSnapshot(r) \/ Receive(r) \/ SessionMoves(r)
    PROVE  SessionInv'
<1> USE StreamPairs DEF StreamTypeOK
<1>1. CASE ServeSnapshot(r) \/ LoadSnapshot(r)
  <2>1. EntryInv'
    BY <1>1 DEF SessionInv, EntryInv, FreshInv, ServeSnapshot, LoadSnapshot
  <2>2. FreshInv'
    BY <1>1 DEF SessionInv, EntryInv, FreshInv, ServeSnapshot, LoadSnapshot
  <2>3. ClientInv'
    <3> SUFFICES ASSUME NEW q \in Recipients
                 PROVE  (current'[q] = NoSlot <=> client'[q] \in {"backoff", "loading", "loaded"})
      BY Zenon DEF ClientInv
    <3>1. /\ client'[q] = client[q] \/
               (q = r /\ client[r] \in {"backoff", "loading"} /\ client'[q] \in {"loading", "loaded"})
          /\ current'[q] = current[q]
      BY <1>1 DEF ServeSnapshot, LoadSnapshot
    <3> QED
      BY Zenon, <3>1 DEF SessionInv, ClientInv
  <2>4. TurnInv'
    BY <1>1 DEF SessionInv, ClientInv, FreshInv, TurnInv, ServeSnapshot, LoadSnapshot
  <2> QED
    BY Zenon, <2>1, <2>2, <2>3, <2>4 DEF SessionInv
<1>2. CASE OpenStream(r)
  <2>0. PICK n \in Slots : /\ handler[<<r, n>>] = "none"
                          /\ current' = [current EXCEPT ![r] = n]
                          /\ handler' = [handler EXCEPT ![<<r, n>>] = "opened"]
    BY Zenon, <1>2 DEF OpenStream
  <2>0a. UNCHANGED <<entry, chan, closed, wire, acked>> /\ <<r, n>> \in Streams
    BY Zenon, <1>2 DEF OpenStream
  <2>1. EntryInv'
    <3> SUFFICES ASSUME NEW q \in Recipients, entry[q] # NoSlot
                 PROVE  ~closed[<<q, entry[q]>>] /\ handler'[<<q, entry[q]>>] \in {"idle", "sent"}
      BY Zenon, <2>0a DEF EntryInv
    <3>1. <<q, entry[q]>> \in Streams /\ handler[<<q, entry[q]>>] \in {"idle", "sent"}
      BY Zenon, EntryOf DEF SessionInv, EntryInv
    <3> QED
      BY Zenon, <2>0, <3>1 DEF SessionInv, EntryInv
  <2>2. FreshInv'
    <3> SUFFICES ASSUME NEW t \in Streams
                 PROVE  /\ handler'[t] \in {"none", "opened"} => ~closed[t] /\ chan[t] = <<>>
                        /\ handler'[t] = "none" => ~acked[t]
      BY Zenon, <2>0a DEF FreshInv
    <3>1. handler'[t] = handler[t] \/ (handler[t] = "none" /\ handler'[t] = "opened")
      <4>1. CASE t = <<r, n>>
        BY Zenon, <2>0, <4>1
      <4>2. CASE t # <<r, n>>
        BY <2>0, <4>2
      <4> QED
        BY Zenon, <4>1, <4>2
    <3> QED
      BY Zenon, <3>1 DEF SessionInv, FreshInv
  <2>3. ClientInv'
    BY <1>2 DEF SessionInv, ClientInv, OpenStream
  <2>4. TurnInv'
    <3> SUFFICES ASSUME NEW t \in Streams
                 PROVE  /\ wire'[t] # <<>> => /\ current'[t[1]] = t[2] /\ client'[t[1]] = "live"
                                              /\ handler'[t] \in {"sent", "none"} /\ ~acked'[t]
                        /\ current'[t[1]] = t[2] =>
                             /\ client'[t[1]] = "opening" => handler'[t] \in {"opened", "none"} /\ ~acked'[t]
                             /\ client'[t[1]] = "applying" => handler'[t] \in {"sent", "none"} /\ ~acked'[t]
                             /\ handler'[t] = "idle" => ~acked'[t]
      BY Zenon DEF TurnInv
    <3>1. /\ current'[t[1]] = IF t[1] = r THEN n ELSE current[t[1]]
          /\ handler'[t] = IF t = <<r, n>> THEN "opened" ELSE handler[t]
          /\ client'[t[1]] = IF t[1] = r THEN "opening" ELSE client[t[1]]
          /\ UNCHANGED <<wire, acked>>
      BY <1>2, <2>0 DEF OpenStream
    <3>2. t = <<r, n>> <=> t[1] = r /\ t[2] = n
      OBVIOUS
    <3>3. current[r] = NoSlot
      BY Zenon, <1>2 DEF OpenStream, SessionInv, ClientInv
    <3>4. t[1] = r => wire[t] = <<>>
      BY <3>3 DEF SessionInv, TurnInv
    <3>5. ~acked[<<r, n>>]
      BY Zenon, <2>0 DEF SessionInv, FreshInv
    <3>6. CASE t[1] = r
      BY Zenon, <3>1, <3>2, <3>4, <3>5, <3>6
    <3>7. CASE t[1] # r
      BY <3>1, <3>2, <3>7 DEF SessionInv, TurnInv
    <3> QED
      BY Zenon, <3>6, <3>7
  <2> QED
    BY Zenon, <2>1, <2>2, <2>3, <2>4 DEF SessionInv
<1>3. CASE InitialAck(r)
  <2>1. EntryInv'
    BY Zenon, <1>3 DEF SessionInv, EntryInv, FreshInv, InitialAck, Stream
  <2>2. FreshInv'
    BY Zenon, <1>3 DEF SessionInv, EntryInv, FreshInv, InitialAck, Stream
  <2>3. ClientInv'
    BY <1>3 DEF SessionInv, ClientInv, InitialAck, Stream
  <2>4. TurnInv'
    BY <1>3 DEF SessionInv, ClientInv, FreshInv, TurnInv, InitialAck, Stream
  <2> QED
    BY Zenon, <2>1, <2>2, <2>3, <2>4 DEF SessionInv
<1>4. CASE Ack(r)
  <2>1. EntryInv'
    BY Zenon, <1>4 DEF SessionInv, EntryInv, FreshInv, Ack, Stream
  <2>2. FreshInv'
    BY Zenon, <1>4 DEF SessionInv, EntryInv, FreshInv, Ack, Stream
  <2>3. ClientInv'
    BY <1>4 DEF SessionInv, ClientInv, Ack, Stream
  <2>4. TurnInv'
    BY <1>4 DEF SessionInv, ClientInv, FreshInv, TurnInv, Ack, Stream
  <2> QED
    BY Zenon, <2>1, <2>2, <2>3, <2>4 DEF SessionInv
<1>5. CASE Receive(r)
  <2>1. EntryInv'
    BY Zenon, <1>5 DEF SessionInv, EntryInv, FreshInv, Receive, Stream
  <2>2. FreshInv'
    BY Zenon, <1>5 DEF SessionInv, EntryInv, FreshInv, Receive, Stream
  <2>3. ClientInv'
    BY <1>5 DEF SessionInv, ClientInv, Receive, Stream
  <2>4. TurnInv'
    <3> SUFFICES ASSUME NEW t \in Streams
                 PROVE  /\ wire'[t] # <<>> => /\ current'[t[1]] = t[2] /\ client'[t[1]] = "live"
                                              /\ handler'[t] \in {"sent", "none"} /\ ~acked'[t]
                        /\ current'[t[1]] = t[2] =>
                             /\ client'[t[1]] = "opening" => handler'[t] \in {"opened", "none"} /\ ~acked'[t]
                             /\ client'[t[1]] = "applying" => handler'[t] \in {"sent", "none"} /\ ~acked'[t]
                             /\ handler'[t] = "idle" => ~acked'[t]
      BY Zenon DEF TurnInv
    <3>1. /\ wire'[t] = IF t = Stream(r) THEN <<>> ELSE wire[t]
          /\ client'[t[1]] = IF t[1] = r THEN "applying" ELSE client[t[1]]
          /\ UNCHANGED <<current, handler, acked>>
      BY <1>5 DEF Receive
    <3>2. current[r] # NoSlot /\ wire[Stream(r)] # <<>> /\ client[r] = "live"
      BY Zenon, <1>5 DEF Receive, SessionInv, ClientInv
    <3>3. Stream(r) \in Streams /\ (t = Stream(r) <=> t[1] = r /\ t[2] = current[r])
      BY <3>2 DEF Stream
    <3>4. handler[Stream(r)] \in {"sent", "none"} /\ ~acked[Stream(r)]
      BY Zenon, <3>2, <3>3 DEF SessionInv, TurnInv
    <3>5. t[1] = r /\ t # Stream(r) => wire[t] = <<>> /\ current'[t[1]] # t[2]
      BY <3>1, <3>3 DEF SessionInv, TurnInv
    <3> QED
      BY <3>1, <3>3, <3>4, <3>5 DEF SessionInv, TurnInv
  <2> QED
    BY Zenon, <2>1, <2>2, <2>3, <2>4 DEF SessionInv
<1>6. CASE StreamEnded(r) \/ SessionFails(r)
  <2>1. EntryInv'
    BY <1>6 DEF SessionInv, EntryInv, FreshInv, StreamEnded, SessionFails, Leave, Stream
  <2>2. FreshInv'
    BY <1>6 DEF SessionInv, EntryInv, FreshInv, StreamEnded, SessionFails, Leave, Stream
  <2>3. ClientInv'
    <3> SUFFICES ASSUME NEW q \in Recipients
                 PROVE  (current'[q] = NoSlot <=> client'[q] \in {"backoff", "loading", "loaded"})
      BY Zenon DEF ClientInv
    <3>1. /\ client'[q] = IF q = r THEN "backoff" ELSE client[q]
          /\ current'[q] = IF q = r THEN NoSlot ELSE current[q]
      BY <1>6 DEF StreamEnded, SessionFails, Leave
    <3> QED
      BY Zenon, <3>1 DEF SessionInv, ClientInv
  <2>4. TurnInv'
    BY <1>6 DEF SessionInv, ClientInv, FreshInv, TurnInv, StreamEnded, SessionFails, Leave, Stream
  <2> QED
    BY Zenon, <2>1, <2>2, <2>3, <2>4 DEF SessionInv
<1> QED
  BY Zenon, <1>1, <1>2, <1>3, <1>4, <1>5, <1>6 DEF SessionMoves

-----------------------------------------------------------------------------
\* Appending to the second of two queues appends to both.
LEMMA ConcatAppend ==
    ASSUME NEW S, NEW w \in Seq(S), NEW c \in Seq(S), NEW u \in S
    PROVE  w \o Append(c, u) = Append(w \o c, u)
<1>1. w \o c \in Seq(S) /\ <<u>> \in Seq(S)
  BY ConcatProperties
<1>2. Append(c, u) = c \o <<u>>
  BY Zenon, AppendIsConcat
<1>3. Append(w \o c, u) = (w \o c) \o <<u>>
  BY Zenon, <1>1, AppendIsConcat
<1>4. (w \o c) \o <<u>> = w \o (c \o <<u>>)
  BY <1>1, ConcatAssociative
<1> QED
  BY Zenon, <1>2, <1>3, <1>4

\* A queue is its first update followed by the rest.
LEMMA HeadThenTail ==
    ASSUME NEW S, NEW c \in Seq(S), c # <<>>
    PROVE  <<Head(c)>> \o Tail(c) = c
<1>1. Head(c) \in S /\ Tail(c) \in Seq(S) /\ <<Head(c)>> \in Seq(S) /\ Len(<<Head(c)>>) = 1
  BY HeadTailProperties
<1>2. Len(<<Head(c)>> \o Tail(c)) = Len(c) /\ <<Head(c)>> \o Tail(c) \in Seq(S)
  BY <1>1, ConcatProperties, HeadTailProperties
<1>3. \A i \in 1..Len(c) : (<<Head(c)>> \o Tail(c))[i] = c[i]
  BY <1>1, <1>2, ConcatProperties, HeadTailProperties
<1> QED
  BY Zenon, <1>2, <1>3, SeqEqual

\* What is queued for a recipient is a sequence of updates.
LEMMA QueuedType ==
    ASSUME NEW U, StreamTypeOK(U), NEW r \in Recipients
    PROVE  Queued(r) \in Seq(U)
<1>1. CASE Attached(r)
  <2>1. Stream(r) \in Streams
    BY Zenon, <1>1, StreamOf DEF Attached
  <2>2. wire[Stream(r)] \in Seq(U) /\ chan[Stream(r)] \in Seq(U)
    BY Zenon, <2>1 DEF StreamTypeOK
  <2> QED
    BY Zenon, <1>1, <2>2, ConcatProperties DEF Queued
<1>2. CASE ~Attached(r)
  BY <1>2 DEF Queued
<1> QED
  BY Zenon, <1>1, <1>2

\* A recipient whose stream has only been opened has nothing queued.
LEMMA OpenedNotAttached ==
    ASSUME NEW U, StreamTypeOK(U), SessionInv, NEW r \in Recipients,
           current[r] = NoSlot \/ handler[Stream(r)] \in {"none", "opened"}
    PROVE  ~Attached(r) /\ Queued(r) = <<>>
<1>1. ~Attached(r)
  BY Zenon DEF SessionInv, EntryInv, Attached, Stream
<1> QED
  BY Zenon, <1>1 DEF Queued

\* A step that leaves a recipient's own stream alone leaves its queue alone.
LEMMA QueueFrame ==
    ASSUME NEW r \in Recipients, entry'[r] = entry[r], current'[r] = current[r],
           missed[r] => missed'[r], InSession(r)' => InSession(r),
           current[r] # NoSlot => /\ chan'[Stream(r)] = chan[Stream(r)]
                                  /\ wire'[Stream(r)] = wire[Stream(r)]
                                  /\ handler'[Stream(r)] = "opened" => handler[Stream(r)] = "opened",
           Following(r)'
    PROVE  Following(r) /\ Queued(r)' = Queued(r)
<1>1. Stream(r)' = Stream(r) /\ (Attached(r)' <=> Attached(r))
  BY Zenon DEF Stream, Attached
<1>2. Following(r)
  BY Zenon, <1>1 DEF Following
<1>3. CASE Attached(r)
  BY Zenon, <1>1, <1>2, <1>3 DEF Queued, Attached
<1>4. CASE ~Attached(r)
  BY Zenon, <1>1, <1>2, <1>4 DEF Queued
<1> QED
  BY Zenon, <1>3, <1>4

\* A broadcast reaches every recipient that goes on following: it is queued behind
\* what was there.
LEMMA BroadcastQueues ==
    ASSUME NEW U, StreamTypeOK(U), NEW u \in U, BroadcastUpdate(u),
           NEW r \in Recipients, Following(r)'
    PROVE  Following(r) /\ Queued(r)' = Append(Queued(r), u)
<1>1. /\ InSession(r)' <=> InSession(r)
      /\ Stream(r)' = Stream(r) /\ current'[r] = current[r]
      /\ handler' = handler /\ wire' = wire
  BY Zenon DEF BroadcastUpdate, InSession, Stream
<1>2. ~missed[r] /\ current[r] # NoSlot /\ handler[Stream(r)] # "opened"
  BY Zenon, <1>1 DEF Following, BroadcastUpdate
<1>3. Attached(r)'
  BY Zenon, <1>1, <1>2 DEF Following
<1>4. entry'[r] = current[r] /\ entry[r] = current[r] /\ r \in Registered /\ HasRoom(r)
  BY Zenon, <1>1, <1>2, <1>3 DEF Attached, BroadcastUpdate, Registered
<1>5. Attached(r)
  BY Zenon, <1>2, <1>4 DEF Attached
<1>6. Stream(r) \in Streams /\ Stream(r)[1] = r /\ Stream(r)[2] = current[r]
  BY Zenon, <1>2, StreamOf
<1>7. chan'[Stream(r)] = Append(chan[Stream(r)], u)
  BY Zenon, <1>4, <1>6 DEF BroadcastUpdate
<1>8. wire[Stream(r)] \o Append(chan[Stream(r)], u) = Append(wire[Stream(r)] \o chan[Stream(r)], u)
  <2>1. wire[Stream(r)] \in Seq(U) /\ chan[Stream(r)] \in Seq(U) /\ <<u>> \in Seq(U)
    BY <1>6 DEF StreamTypeOK
  <2> QED
    <3>1. \A w, c \in Seq(U) : w \o Append(c, u) = Append(w \o c, u)
      BY ConcatAppend
    <3> QED
      BY Zenon, <2>1, <3>1
<1> QED
  BY Zenon, <1>1, <1>2, <1>3, <1>5, <1>7, <1>8 DEF Queued, Following

\* A move of a goroutine leaves the queue of every recipient that goes on following
\* alone: registering starts an empty one, sending keeps the order, and a stream
\* that ends is not followed.
LEMMA GoroutineQueues ==
    ASSUME NEW U, StreamTypeOK(U), SessionInv, NEW s \in Streams, GoroutineMoves(s),
           NEW r \in Recipients, Following(r)'
    PROVE  Following(r) /\ Queued(r)' = Queued(r) /\ client' = client
<1>0. /\ client' = client /\ current' = current /\ missed' = missed
      /\ Stream(r)' = Stream(r) /\ (InSession(r)' <=> InSession(r))
  <2>1. client' = client /\ current' = current /\ missed' = missed
    BY Zenon DEF GoroutineMoves, Goroutine, RegisterHost, SendUpdate, RecvAck, ChannelClosed, Disconnected,
           Interrupted, Return
  <2> QED
    BY Zenon, <2>1 DEF Stream, InSession
<1>s. current[r] # NoSlot => Stream(r) \in Streams /\ Stream(r)[1] = r /\ Stream(r)[2] = current[r]
  BY Zenon, StreamOf
<1>p. \A t \in Streams : t = <<t[1], t[2]>>
  BY Zenon, StreamPairs
<1> USE DEF StreamTypeOK
<1>1. CASE RegisterHost(s)
  <2>1. CASE current[r] # NoSlot /\ s = Stream(r)
    <3>1. handler[s] = "opened" /\ chan'[s] = <<>> /\ wire'[s] = <<>> /\ s[1] = r
      BY Zenon, <1>1, <1>s, <2>1 DEF RegisterHost, SessionInv, FreshInv, TurnInv
    <3>2. Following(r) /\ Queued(r) = <<>>
      BY Zenon, <1>0, <2>1, <3>1, OpenedNotAttached DEF Following
    <3>3. Queued(r)' = <<>>
      BY <1>0, <2>1, <3>1 DEF Queued
    <3> QED
      BY Zenon, <1>0, <3>2, <3>3
  <2>2. CASE s[1] = r /\ ~(current[r] # NoSlot /\ s = Stream(r))
    <3>1. entry'[r] = s[2] /\ s[2] # current[r]
      BY <1>1, <1>p, <2>2, StreamPairs DEF RegisterHost, Stream
    <3>2. ~Attached(r)'
      BY Zenon, <1>0, <3>1 DEF Attached
    <3>3. current[r] = NoSlot \/ handler[Stream(r)] = "opened"
      BY Zenon, <1>0, <1>1, <1>s, <2>2, <3>2 DEF Following, RegisterHost
    <3>4. Following(r) /\ Queued(r) = <<>>
      BY Zenon, <1>0, <3>3, OpenedNotAttached DEF Following
    <3> QED
      BY Zenon, <1>0, <3>2, <3>4 DEF Queued
  <2>3. CASE s[1] # r
    <3>1. /\ entry'[r] = entry[r]
          /\ current[r] # NoSlot => /\ chan'[Stream(r)] = chan[Stream(r)]
                                    /\ wire'[Stream(r)] = wire[Stream(r)]
                                    /\ handler'[Stream(r)] = "opened" => handler[Stream(r)] = "opened"
      BY Zenon, <1>1, <1>s, <2>3 DEF RegisterHost
    <3> QED
      BY Zenon, <1>0, <3>1, QueueFrame
  <2> QED
    BY Zenon, <1>0, <2>1, <2>2, <2>3
<1>2. CASE SendUpdate(s)
  <2>1. CASE current[r] # NoSlot /\ s = Stream(r)
    <3>1. ~Abandoned(s) /\ wire[s] = <<>> /\ handler'[s] = "sent" /\ chan[s] # <<>>
      BY Zenon, <1>2, <1>s, <2>1 DEF SendUpdate, SessionInv, TurnInv, Abandoned
    <3>2. wire'[s] = <<Head(chan[s])>> /\ chan'[s] = Tail(chan[s]) /\ entry' = entry
      BY Zenon, <1>2, <3>1 DEF SendUpdate
    <3>3. Attached(r)' /\ Attached(r) /\ Following(r)
      BY Zenon, <1>0, <2>1, <3>1, <3>2 DEF Following, Attached
    <3>4. chan[s] \in Seq(U)
      BY Zenon
    <3>5. wire'[s] \o chan'[s] = wire[s] \o chan[s]
      BY Zenon, <3>1, <3>2, <3>4, HeadThenTail, ConcatEmptySeq
    <3> QED
      BY Zenon, <1>0, <2>1, <3>3, <3>5 DEF Queued
  <2>2. CASE ~(current[r] # NoSlot /\ s = Stream(r))
    <3>1. /\ entry'[r] = entry[r]
          /\ current[r] # NoSlot => /\ chan'[Stream(r)] = chan[Stream(r)]
                                    /\ wire'[Stream(r)] = wire[Stream(r)]
                                    /\ handler'[Stream(r)] = "opened" => handler[Stream(r)] = "opened"
      BY Zenon, <1>2, <1>s, <2>2 DEF SendUpdate
    <3> QED
      BY Zenon, <1>0, <3>1, QueueFrame
  <2> QED
    BY Zenon, <2>1, <2>2
<1>3. CASE RecvAck(s)
  <2>1. /\ entry'[r] = entry[r]
        /\ current[r] # NoSlot => /\ chan'[Stream(r)] = chan[Stream(r)]
                                  /\ wire'[Stream(r)] = wire[Stream(r)]
                                  /\ handler'[Stream(r)] = "opened" => handler[Stream(r)] = "opened"
    BY Zenon, <1>3, <1>s DEF RecvAck
  <2> QED
    BY Zenon, <1>0, <2>1, QueueFrame
<1>4. CASE handler[s] # "none" /\ Return(s)
  <2>1. CASE current[r] # NoSlot /\ s = Stream(r)
    <3>1. handler'[s] = "none" /\ entry'[r] # current[r]
      <4>1. CASE handler[s] = "opened"
        BY ZenonT(30), <1>4, <1>s, <2>1, <4>1, OpenedNotAttached DEF Return, Attached
      <4>2. CASE handler[s] # "opened"
        BY Zenon, <1>4, <1>s, <2>1, <4>2 DEF Return, DeregisterHost
      <4> QED
        BY Zenon, <4>1, <4>2
    <3> QED
      BY Zenon, <1>0, <2>1, <3>1 DEF Following, Attached
  <2>2. CASE s[1] = r /\ handler[s] # "opened" /\ ~(current[r] # NoSlot /\ s = Stream(r))
    <3>1. entry'[r] = NoSlot
      BY Zenon, <1>4, <2>2 DEF Return, DeregisterHost
    <3>2. ~Attached(r)'
      BY Zenon, <1>0, <3>1 DEF Attached
    <3>3. current[r] = NoSlot \/ handler[Stream(r)] = "opened"
      BY Zenon, <1>0, <1>4, <1>s, <2>2, <3>2 DEF Following, Return
    <3>4. Following(r) /\ Queued(r) = <<>>
      BY Zenon, <1>0, <3>3, OpenedNotAttached DEF Following
    <3> QED
      BY Zenon, <1>0, <3>2, <3>4 DEF Queued
  <2>3. CASE ~(current[r] # NoSlot /\ s = Stream(r)) /\ (s[1] # r \/ handler[s] = "opened")
    <3>1. entry'[r] = entry[r]
      BY Zenon, <1>4, <2>3 DEF Return, DeregisterHost
    <3>2. current[r] # NoSlot => /\ chan'[Stream(r)] = chan[Stream(r)]
                                 /\ wire'[Stream(r)] = wire[Stream(r)]
                                 /\ handler'[Stream(r)] = "opened" => handler[Stream(r)] = "opened"
      BY Zenon, <1>4, <1>s, <2>3 DEF Return
    <3> QED
      BY Zenon, <1>0, <3>1, <3>2, QueueFrame
  <2> QED
    BY Zenon, <2>1, <2>2, <2>3
<1> QED
  BY Zenon, <1>1, <1>2, <1>3, <1>4 DEF GoroutineMoves, Goroutine, ChannelClosed, Disconnected, Interrupted

\* Reading a snapshot starts a session with an empty queue.
LEMMA SnapshotQueues ==
    ASSUME NEW U, StreamTypeOK(U), SessionInv, NEW q \in Recipients, ServeSnapshot(q),
           NEW r \in Recipients, Following(r)'
    PROVE  /\ r = q => Queued(r)' = <<>> /\ client'[r] = "loading"
           /\ r # q => Following(r) /\ Queued(r)' = Queued(r) /\ client'[r] = client[r]
<1>1. CASE r = q
  BY Zenon, <1>1 DEF ServeSnapshot, SessionInv, ClientInv, Queued, Attached, StreamTypeOK
<1>2. CASE r # q
  <2>2. missed[r] => missed'[r]
    BY Zenon, <1>2 DEF ServeSnapshot, StreamTypeOK
  <2>3. client'[r] = client[r] /\ (InSession(r)' => InSession(r))
    BY Zenon, <1>2 DEF ServeSnapshot, StreamTypeOK, InSession
  <2>4. UNCHANGED <<entry, current, chan, wire, handler>>
    BY Zenon DEF ServeSnapshot
  <2> QED
    BY Zenon, <1>2, <2>2, <2>3, <2>4, QueueFrame
<1> QED
  BY Zenon, <1>1, <1>2

\* A recipient reads exactly one update, and from its own stream.
LEMMA ReceivedUpdate ==
    ASSUME NEW U, StreamTypeOK(U), SessionInv, NEW r \in Recipients, Receive(r)
    PROVE  wire[Stream(r)] = <<wire[Stream(r)][1]>> /\ wire[Stream(r)][1] \in U
<1>1. Stream(r) \in Streams /\ wire[Stream(r)] # <<>>
  BY Zenon, StreamOf DEF Receive, SessionInv, ClientInv
<1>2. wire[Stream(r)] \in Seq(U) /\ Len(wire[Stream(r)]) <= 1
  BY Zenon, <1>1 DEF StreamTypeOK
<1>3. Len(wire[Stream(r)]) = 1
  <2>1. \A w \in Seq(U) : w # <<>> => Len(w) \in Nat \ {0}
    BY Zenon, EmptySeq
  <2>2. Len(wire[Stream(r)]) \in Nat \ {0}
    BY Zenon, <1>1, <1>2, <2>1
  <2>3. \A k \in Nat \ {0} : k <= 1 => k = 1
    OBVIOUS
  <2> QED
    BY <1>2, <2>2, <2>3, Zenon
<1> QED
  BY <1>2, <1>3

\* Applying an update takes the first one off the queue.
LEMMA ReceiveQueues ==
    ASSUME NEW U, StreamTypeOK(U), SessionInv, NEW q \in Recipients, Receive(q),
           NEW r \in Recipients, Following(r)'
    PROVE  /\ r = q => /\ Following(r) /\ Queued(r) = <<wire[Stream(r)][1]>> \o Queued(r)'
                       /\ wire[Stream(r)][1] \in U /\ Queued(r)' \in Seq(U)
                       /\ client[r] = "live" /\ client'[r] = "applying"
           /\ r # q => Following(r) /\ Queued(r)' = Queued(r) /\ client'[r] = client[r]
<1>0. UNCHANGED <<entry, chan, handler, current, missed>> /\ Stream(r)' = Stream(r)
  BY Zenon DEF Receive, Stream
<1>1. CASE r = q
  <2>1. client[r] = "live" /\ client'[r] = "applying" /\ current[r] # NoSlot /\ wire[Stream(r)] # <<>>
    BY Zenon, <1>1 DEF Receive, SessionInv, ClientInv, StreamTypeOK
  <2>2. Stream(r) \in Streams
    BY Zenon, <2>1, StreamOf
  <2>3. wire'[Stream(r)] = <<>>
    BY Zenon, <1>1, <2>2 DEF Receive, StreamTypeOK
  <2>4. handler[Stream(r)] # "opened"
    BY Zenon, <2>1, <2>2 DEF SessionInv, TurnInv
  <2>5. Attached(r)' /\ Attached(r) /\ Following(r)
    BY Zenon, <1>0, <2>1, <2>4 DEF Following, Attached, InSession
  <2>6. chan[Stream(r)] \in Seq(U)
    BY Zenon, <2>2 DEF StreamTypeOK
  <2>7. wire[Stream(r)] = <<wire[Stream(r)][1]>> /\ wire[Stream(r)][1] \in U
    BY Zenon, <1>1, ReceivedUpdate
  <2>8. Queued(r)' = chan[Stream(r)]
    BY Zenon, <1>0, <2>3, <2>5, <2>6, ConcatEmptySeq DEF Queued
  <2> QED
    BY Zenon, <1>1, <2>1, <2>5, <2>6, <2>7, <2>8 DEF Queued
<1>2. CASE r # q
  <2>1. client'[r] = client[r] /\ (InSession(r)' => InSession(r))
    BY Zenon, <1>2 DEF Receive, StreamTypeOK, InSession
  <2>2. current[r] # NoSlot => wire'[Stream(r)] = wire[Stream(r)]
    BY Zenon, <1>2, StreamOf, StreamPairs DEF Receive, StreamTypeOK, Stream
  <2> QED
    BY Zenon, <1>0, <1>2, <2>1, <2>2, QueueFrame
<1> QED
  BY Zenon, <1>1, <1>2

\* No other move of a session touches a queue that is followed; the snapshot stops
\* being under way only when it is loaded.
LEMMA SessionQueues ==
    ASSUME NEW U, StreamTypeOK(U), SessionInv, NEW q \in Recipients, SessionMoves(q),
           NEW r \in Recipients, Following(r)'
    PROVE  /\ Following(r) /\ Queued(r)' = Queued(r)
           /\ ~(r = q /\ LoadSnapshot(q)) => (client'[r] = "loading" <=> client[r] = "loading")
           /\ InSession(r)
<1>1. CASE r # q
  <2>1. /\ client'[r] = client[r] /\ current'[r] = current[r] /\ entry' = entry /\ chan' = chan
        /\ missed[r] => missed'[r]
    BY Zenon, <1>1 DEF SessionMoves, LoadSnapshot, OpenStream, InitialAck, Ack, StreamEnded, SessionFails,
                Leave, StreamTypeOK
  <2>2. current[r] # NoSlot => /\ Stream(r) \in Streams /\ Stream(r) # Stream(q)
                              /\ \A n \in Slots : Stream(r) # <<q, n>>
    BY <1>1, StreamOf, StreamPairs DEF Stream
  <2>3. current[r] # NoSlot => handler'[Stream(r)] = handler[Stream(r)]
    <3>1. CASE OpenStream(q)
      BY <2>2, <3>1 DEF OpenStream, StreamTypeOK
    <3>2. CASE ~OpenStream(q)
      BY Zenon, <3>2 DEF SessionMoves, LoadSnapshot, InitialAck, Ack, StreamEnded, SessionFails, Leave
    <3> QED
      BY <3>1, <3>2
  <2>4. current[r] # NoSlot => wire'[Stream(r)] = wire[Stream(r)]
    BY <2>2 DEF SessionMoves, LoadSnapshot, OpenStream, InitialAck, Ack, StreamEnded, SessionFails, Leave
  <2>5. InSession(r)' => InSession(r)
    BY Zenon, <2>1 DEF InSession
  <2>6. Following(r) /\ Queued(r)' = Queued(r)
    BY Zenon, <2>1, <2>3, <2>4, <2>5, QueueFrame
  <2> QED
    BY Zenon, <1>1, <2>1, <2>6 DEF Following
<1>2. CASE r = q /\ LoadSnapshot(r)
  <2>1. current[r] = NoSlot /\ current' = current /\ missed' = missed /\ InSession(r)
    BY Zenon, <1>2 DEF LoadSnapshot, SessionInv, ClientInv, InSession
  <2> QED
    BY Zenon, <1>2, <2>1 DEF Following, Queued, Attached
<1>3. CASE r = q /\ OpenStream(r)
  <2>1. PICK n \in Slots : /\ handler[<<r, n>>] = "none"
                          /\ current' = [current EXCEPT ![r] = n]
    BY Zenon, <1>3 DEF OpenStream
  <2>2. /\ client[r] = "loaded" /\ client'[r] = "opening" /\ missed' = missed /\ entry' = entry
        /\ current[r] = NoSlot
    BY Zenon, <1>3 DEF OpenStream, SessionInv, ClientInv, StreamTypeOK
  <2>3. current'[r] = n /\ entry[r] # n
    <3>1. current'[r] = n
      BY Zenon, <2>1 DEF StreamTypeOK
    <3>2. n # NoSlot
      BY Zenon, StreamPairs
    <3>3. entry[r] = n => handler[<<r, n>>] # "none"
      BY Zenon, <3>2 DEF SessionInv, EntryInv
    <3> QED
      BY Zenon, <2>1, <3>1, <3>3
  <2>4. ~Attached(r)' /\ ~Attached(r)
    BY Zenon, <2>2, <2>3 DEF Attached
  <2> QED
    BY Zenon, <1>3, <2>2, <2>4 DEF Following, Queued, InSession
<1>4. CASE r = q /\ (InitialAck(r) \/ Ack(r))
  <2>1. /\ client[r] \in {"opening", "applying"} /\ client'[r] = "live"
        /\ UNCHANGED <<entry, chan, handler, wire, current, missed>>
    BY Zenon, <1>4 DEF InitialAck, Ack, StreamTypeOK
  <2>2. InSession(r)
    BY Zenon, <2>1 DEF InSession
  <2>3. Following(r) /\ Queued(r)' = Queued(r)
    BY Zenon, <2>1, <2>2, QueueFrame
  <2> QED
    BY Zenon, <2>1, <2>2, <2>3
<1>5. CASE r = q /\ (StreamEnded(r) \/ SessionFails(r))
  BY Zenon, <1>5 DEF StreamEnded, SessionFails, Leave, Following, InSession, StreamTypeOK
<1> QED
  BY Zenon, <1>1, <1>2, <1>3, <1>4, <1>5 DEF SessionMoves

\* The steps that touch no session.
LEMMA WorkerFrame ==
    ASSUME NEW r \in Recipients, UNCHANGED streamVars
    PROVE  /\ Following(r)' <=> Following(r)
           /\ Queued(r)' = Queued(r)
           /\ InSession(r)' <=> InSession(r)
           /\ client' = client
BY Zenon DEF streamVars, Following, Queued, InSession, Attached, Stream

\* A move of a session starts none and reads no snapshot.
LEMMA ClientMoves ==
    ASSUME NEW U, StreamTypeOK(U), NEW q \in Recipients, Receive(q) \/ SessionMoves(q), NEW r \in Recipients
    PROVE  /\ InSession(r)' => InSession(r)
           /\ client'[r] = "loading" => client[r] = "loading"
           /\ r # q => client'[r] = client[r]
<1> USE DEF StreamTypeOK, InSession
<1>1. CASE Receive(q)
  BY Zenon, <1>1 DEF Receive
<1>2. CASE LoadSnapshot(q) \/ OpenStream(q) \/ InitialAck(q) \/ Ack(q)
  BY Zenon, <1>2 DEF LoadSnapshot, OpenStream, InitialAck, Ack
<1>3. CASE StreamEnded(q) \/ SessionFails(q)
  BY Zenon, <1>3 DEF StreamEnded, SessionFails, Leave
<1> QED
  BY Zenon, <1>1, <1>2, <1>3 DEF SessionMoves

\* A sequence of at most one update.
LEMMA Singleton ==
    ASSUME NEW U, NEW w \in Seq(U), Len(w) <= 1, w # <<>>
    PROVE  w[1] \in U /\ w = <<w[1]>>
<1>1. Len(w) \in Nat \ {0}
  BY Zenon, EmptySeq
<1>2. \A k \in Nat \ {0} : k <= 1 => k = 1
  OBVIOUS
<1>3. Len(w) = 1
  BY Zenon, <1>1, <1>2
<1> QED
  BY <1>3

-----------------------------------------------------------------------------
\* Somebody prevails over the updates us, of which those in G decide in its favour
\* and those in S leave it what it has: it was in possession and all spared it, or
\* one decided for it and all later ones spared it.
Prevails(owned, us, G, S) ==
    \/ owned /\ \A j \in DOMAIN us : us[j] \in S
    \/ \E i \in DOMAIN us : us[i] \in G /\ \A j \in DOMAIN us : j > i => us[j] \in S

\* One more update at the end decides what it is about and spares the rest.
LEMMA PrevailsAppend ==
    ASSUME NEW b \in BOOLEAN, NEW U, NEW us \in Seq(U), NEW u \in U, NEW G, NEW S
    PROVE  Prevails(b, Append(us, u), G, S) <=> u \in G \/ (Prevails(b, us, G, S) /\ u \in S)
<1> DEFINE vs == Append(us, u)
           n == Len(us)
<1>1. n \in Nat /\ DOMAIN us = 1..n /\ DOMAIN vs = 1..(n + 1)
  BY LenProperties, AppendProperties
<1>2. vs[n + 1] = u /\ \A i \in 1..n : vs[i] = us[i]
  BY AppendProperties
<1> HIDE DEF vs, n
<1>3. (\A j \in DOMAIN vs : vs[j] \in S) <=> (\A j \in DOMAIN us : us[j] \in S) /\ u \in S
  BY <1>1, <1>2
<1>4. ASSUME NEW i \in 1..n
      PROVE  (\A j \in DOMAIN vs : j > i => vs[j] \in S)
               <=> (\A j \in DOMAIN us : j > i => us[j] \in S) /\ u \in S
  BY <1>1, <1>2
<1>5. \A j \in DOMAIN vs : j > n + 1 => vs[j] \in S
  BY <1>1
<1>6. (\E i \in DOMAIN vs : vs[i] \in G /\ \A j \in DOMAIN vs : j > i => vs[j] \in S)
        <=> \/ u \in G
            \/ /\ \E i \in DOMAIN us : us[i] \in G /\ \A j \in DOMAIN us : j > i => us[j] \in S
               /\ u \in S
  BY <1>1, <1>2, <1>4, <1>5
<1>7. Prevails(b, vs, G, S) <=> u \in G \/ (Prevails(b, us, G, S) /\ u \in S)
  BY Zenon, <1>3, <1>6 DEF Prevails
<1> QED
  BY Zenon, <1>7 DEF vs

\* The first update can be applied at once: Prevails says what applying the updates
\* one after the other gives.
LEMMA PrevailsFirst ==
    ASSUME NEW b \in BOOLEAN, NEW c \in BOOLEAN, NEW U, NEW us \in Seq(U), NEW u \in U, NEW G, NEW S,
           c <=> (b /\ u \in S) \/ u \in G
    PROVE  Prevails(b, <<u>> \o us, G, S) <=> Prevails(c, us, G, S)
<1> DEFINE vs == <<u>> \o us
           n == Len(us)
<1>0. <<u>> \in Seq(U) /\ Len(<<u>>) = 1 /\ <<u>>[1] = u
  OBVIOUS
<1>1. n \in Nat /\ DOMAIN us = 1..n /\ vs \in Seq(U) /\ Len(vs) = 1 + n
  BY Zenon, <1>0, LenProperties, ConcatProperties
<1>1a. DOMAIN vs = 1..(n + 1)
  BY <1>1, LenProperties
<1>2. vs[1] = u /\ \A i \in 1..n : vs[i + 1] = us[i]
  BY <1>0, <1>1, ConcatProperties
<1> HIDE DEF vs, n
<1>3. (\A j \in DOMAIN vs : vs[j] \in S) <=> u \in S /\ \A j \in DOMAIN us : us[j] \in S
  <2>1. ASSUME u \in S, \A j \in DOMAIN us : us[j] \in S, NEW j \in DOMAIN vs
        PROVE  vs[j] \in S
    <3>1. CASE j = 1
      BY Zenon, <1>2, <2>1, <3>1
    <3>2. CASE j # 1
      <4>1. j - 1 \in 1..n /\ (j - 1) + 1 = j
        BY <1>1, <1>1a, <3>2
      <4> QED
        BY Zenon, <1>1, <1>2, <2>1, <4>1
    <3> QED
      BY Zenon, <3>1, <3>2
  <2>2. ASSUME \A j \in DOMAIN vs : vs[j] \in S
        PROVE  u \in S /\ \A j \in DOMAIN us : us[j] \in S
    <3>1. 1 \in DOMAIN vs /\ \A j \in DOMAIN us : j + 1 \in DOMAIN vs /\ vs[j + 1] = us[j]
      BY <1>1, <1>1a, <1>2
    <3> QED
      BY Zenon, <1>2, <2>2, <3>1
  <2> QED
    BY Zenon, <2>1, <2>2
<1>4. (\A j \in DOMAIN vs : j > 1 => vs[j] \in S) <=> \A j \in DOMAIN us : us[j] \in S
  <2>1. ASSUME \A j \in DOMAIN us : us[j] \in S, NEW j \in DOMAIN vs, j > 1
        PROVE  vs[j] \in S
    <3>1. j - 1 \in 1..n /\ (j - 1) + 1 = j
      BY <1>1, <1>1a, <2>1
    <3> QED
      BY Zenon, <1>1, <1>2, <2>1, <3>1
  <2>2. ASSUME \A j \in DOMAIN vs : j > 1 => vs[j] \in S, NEW j \in DOMAIN us
        PROVE  us[j] \in S
    <3>1. j + 1 \in DOMAIN vs /\ j + 1 > 1 /\ vs[j + 1] = us[j]
      BY <1>1, <1>1a, <1>2
    <3> QED
      BY Zenon, <2>2, <3>1
  <2> QED
    BY Zenon, <2>1, <2>2
<1>5. ASSUME NEW i \in 1..n
      PROVE  (\A j \in DOMAIN vs : j > i + 1 => vs[j] \in S)
               <=> \A j \in DOMAIN us : j > i => us[j] \in S
  <2>1. ASSUME \A j \in DOMAIN us : j > i => us[j] \in S, NEW j \in DOMAIN vs, j > i + 1
        PROVE  vs[j] \in S
    <3>1. j - 1 \in 1..n /\ (j - 1) + 1 = j /\ j - 1 > i
      BY <1>1, <1>1a, <2>1
    <3> QED
      BY Zenon, <1>1, <1>2, <2>1, <3>1
  <2>2. ASSUME \A j \in DOMAIN vs : j > i + 1 => vs[j] \in S, NEW j \in DOMAIN us, j > i
        PROVE  us[j] \in S
    <3>1. j + 1 \in DOMAIN vs /\ j + 1 > i + 1 /\ vs[j + 1] = us[j]
      BY <1>1, <1>1a, <1>2, <2>2
    <3> QED
      BY Zenon, <2>2, <3>1
  <2> QED
    BY Zenon, <2>1, <2>2
<1> DEFINE Later(s) == \E i \in DOMAIN s : s[i] \in G /\ \A j \in DOMAIN s : j > i => s[j] \in S
<1>6. Later(vs) <=> (u \in G /\ \A j \in DOMAIN us : us[j] \in S) \/ Later(us)
  <2>1. ASSUME NEW i \in DOMAIN vs, vs[i] \in G, \A j \in DOMAIN vs : j > i => vs[j] \in S
        PROVE  (u \in G /\ \A j \in DOMAIN us : us[j] \in S) \/ Later(us)
    <3>1. CASE i = 1
      BY Zenon, <1>2, <1>4, <2>1, <3>1
    <3>2. CASE i # 1
      <4>1. i - 1 \in 1..n /\ (i - 1) + 1 = i
        BY <1>1, <1>1a, <3>2
      <4>2. vs[i] = us[i - 1] /\ \A j \in DOMAIN us : j > i - 1 => us[j] \in S
        BY Zenon, <1>2, <1>5, <2>1, <4>1
      <4> QED
        BY Zenon, <1>1, <2>1, <4>1, <4>2
    <3> QED
      BY Zenon, <3>1, <3>2
  <2>2. ASSUME u \in G, \A j \in DOMAIN us : us[j] \in S
        PROVE  Later(vs)
    <3>1. 1 \in DOMAIN vs
      BY <1>1, <1>1a
    <3> QED
      BY Zenon, <1>2, <1>4, <2>2, <3>1
  <2>3. ASSUME NEW i \in DOMAIN us, us[i] \in G, \A j \in DOMAIN us : j > i => us[j] \in S
        PROVE  Later(vs)
    <3>1. i + 1 \in DOMAIN vs /\ vs[i + 1] = us[i] /\ i \in 1..n
      BY <1>1, <1>1a, <1>2
    <3> QED
      BY Zenon, <1>5, <2>3, <3>1
  <2> QED
    BY Zenon, <2>1, <2>2, <2>3
<1>7. Prevails(b, vs, G, S) <=> Prevails(c, us, G, S)
  BY Zenon, <1>3, <1>6 DEF Prevails
<1> QED
  BY Zenon, <1>7 DEF vs
=============================================================================
