--------------------------- MODULE AuthorityProofs ---------------------------
(***************************************************************************)
(* Proofs about the publication fence, for any set of Applications and any *)
(* number of changes made through the API server.                          *)
(***************************************************************************)
EXTENDS Authority, TLAPS

-----------------------------------------------------------------------------
(* The inductive invariant.                                                *)

\* What the type invariant leaves open.
ShapeInv ==
    /\ events \in [Keys -> Seq(Versions)]
    /\ processed \in [Keys -> SUBSET Versions]
    /\ \A k \in Keys : object[k][2] <= edits + 1 /\ object[k][1] <= created[k]
    /\ \A k \in Keys : object[k] # Absent => object[k][1] # 0

\* The context follows Start, and is never live again once leadership is lost.
ContextInv ==
    /\ start = "listing" => ctx = "nil"
    /\ start \in {"waiting", "serving"} => ctx # "nil"
    /\ lost \/ start = "ended" => ctx # "live"

\* observed becomes nil only with the fence open, and is not written after that.
NilInv ==
    /\ isNil => ctx = "done" \/ (ctx = "live" /\ ready)
    /\ ~panicked

\* Under a name no object has had, nothing has been seen.
UnusedInv ==
    \A k \in Keys : created[k] = 0 =>
        /\ cache[k] = Absent /\ events[k] = <<>>
        /\ k \notin queue /\ (work # <<>> => work[1] # k)
        /\ inventory[k] = Absent /\ (listing # <<>> => listing[1][k] = Absent)

\* Under a name with one object, the reconciler finds nothing only when the object
\* is gone: before the cache has seen it the name is not queued.
Gone(k) ==
    /\ \A i \in 1..Len(events[k]) : events[k][i] = Absent => object[k] = Absent
    /\ cache[k] = Absent /\ (k \in queue \/ (work # <<>> /\ work[1] = k)) => object[k] = Absent
    /\ work # <<>> /\ work[1] = k /\ work[2] = Absent => object[k] = Absent
GoneInv == \A k \in Keys : created[k] = 1 => Gone(k)

\* What was listed has a UID, and what was observed was completed.
ListedInv ==
    /\ \A k \in Keys : inventory[k] # Absent => inventory[k][1] # 0
    /\ listing # <<>> => \A k \in Keys : listing[1][k] # Absent => listing[1][k][1] # 0
    /\ \A k \in Keys : observed[k] # Absent => observed[k] \in processed[k]

\* A listed version is pending until it is settled.
FenceInv == \A k \in Keys : created[k] = 1 => pending[k] = inventory[k] \/ Settled(k)

IInv ==
    /\ TypeOK /\ ShapeInv /\ ContextInv /\ NilInv
    /\ UnusedInv /\ GoneInv /\ ListedInv /\ FenceInv

-----------------------------------------------------------------------------
(* Types.                                                                  *)

\* Absent is a version, and nothing but absent versions an inventory.
LEMMA AbsentType ==
  Absent \in Versions /\ Nothing \in [Keys -> Versions]
BY AuthorityBounds DEF Absent, Versions, Nothing

\* refreshLocked: what is left pending is part of the listing.
LEMMA RefreshType ==
  ASSUME TypeOK, NEW list \in [Keys -> Versions], RefreshLocked(list)
  PROVE  /\ pending' \in [Keys -> Versions] /\ observed' \in [Keys -> Versions]
         /\ inventory' \in [Keys -> Versions]
         /\ ready' \in BOOLEAN /\ isNil' \in BOOLEAN /\ (ready' => pending' = Nothing)
<1>1. Uncovered(list) \in [Keys -> Versions]
  BY AbsentType DEF Uncovered
<1>2. pending' \in [Keys -> Versions] /\ observed' \in [Keys -> Versions] /\ inventory' \in [Keys -> Versions]
  BY <1>1, AbsentType DEF RefreshLocked, TypeOK
<1>3. ready' \in BOOLEAN /\ isNil' \in BOOLEAN
  BY DEF RefreshLocked, TypeOK
<1>4. ready' => pending' = Nothing
  BY DEF RefreshLocked
<1>5. QED
  BY <1>2, <1>3, <1>4

\* Authority.Reconciled: what the completion of version v under k changes.
LEMMA ReconciledFence ==
  ASSUME TypeOK, ShapeInv, NEW k \in Keys, NEW v \in Versions, Reconciled(k, v)
  PROVE  /\ pending' \in [Keys -> Versions] /\ observed' \in [Keys -> Versions]
         /\ ready' \in BOOLEAN /\ isNil' \in BOOLEAN /\ panicked' \in BOOLEAN
         /\ ready' => pending' = Nothing
         /\ ctx' = ctx
         /\ processed' \in [Keys -> SUBSET Versions]
         /\ v \in processed'[k] /\ \A q \in Keys : processed[q] \subseteq processed'[q]
         /\ \A q \in Keys : observed'[q] = Absent \/ observed'[q] = observed[q] \/ (q = k /\ observed'[q] = v)
         /\ \A q \in Keys : pending'[q] = pending[q]
                            \/ (q = k /\ pending'[q] = Absent /\ Clears(v, pending[q]))
<1>1. /\ processed' \in [Keys -> SUBSET Versions]
      /\ v \in processed'[k] /\ \A q \in Keys : processed[q] \subseteq processed'[q]
  BY DEF Reconciled, ShapeInv
<1>2. CASE ctx = "done"
  BY <1>1, <1>2 DEF Reconciled, fence, TypeOK
<1>3. CASE ctx # "done"
  <2> DEFINE seen == IF Records THEN [observed EXCEPT ![k] = v] ELSE observed
             left == IF ctx # "nil" /\ pending[k] # Absent /\ Clears(v, pending[k])
                     THEN [pending EXCEPT ![k] = Absent] ELSE pending
             full == ctx # "nil" /\ left = Nothing
  <2>1. /\ panicked' = (panicked \/ (Records /\ isNil)) /\ pending' = left /\ ready' = full
        /\ observed' = (IF full THEN Nothing ELSE seen) /\ isNil' = (isNil \/ full) /\ ctx' = ctx
    BY <1>3 DEF Reconciled
  <2>2. /\ left \in [Keys -> Versions]
        /\ \A q \in Keys : left[q] = pending[q] \/ (q = k /\ left[q] = Absent /\ Clears(v, pending[q]))
    BY AbsentType DEF TypeOK
  <2>3. /\ seen \in [Keys -> Versions]
        /\ \A q \in Keys : seen[q] = observed[q] \/ (q = k /\ seen[q] = v)
    BY DEF TypeOK
  <2>4. full \in BOOLEAN /\ (full => left = Nothing)
    OBVIOUS
  <2>5. panicked' \in BOOLEAN /\ isNil' \in BOOLEAN /\ ready' \in BOOLEAN
    <3> HIDE DEF full
    <3>1. QED
      BY <2>1, <2>4 DEF TypeOK, Records
  <2>6. \A q \in Keys : Nothing[q] = Absent
    BY DEF Nothing
  <2> HIDE DEF seen, left, full
  <2>7. /\ observed' \in [Keys -> Versions]
        /\ \A q \in Keys : observed'[q] = Absent \/ observed'[q] = observed[q] \/ (q = k /\ observed'[q] = v)
    BY <2>1, <2>3, <2>4, <2>6, AbsentType
  <2>8. ready' => pending' = Nothing
    BY <2>1, <2>4
  <2>9. QED
    BY <1>1, <2>1, <2>2, <2>5, <2>7, <2>8
<1>4. QED
  BY <1>2, <1>3

\* A change made through the API server.
LEMMA ChangeType ==
  ASSUME TypeOK, ShapeInv, NEW k \in Keys, NEW v \in Versions, Change(k, v)
  PROVE  /\ object' = [object EXCEPT ![k] = v] /\ object' \in [Keys -> Versions]
         /\ events' \in [Keys -> Seq(Versions)] /\ events'[k] = Append(events[k], v)
         /\ \A q \in Keys \ {k} : events'[q] = events[q]
         /\ edits' = edits + 1 /\ edits' \in 0..MaxEdits
BY AuthorityBounds DEF Change, TypeOK, ShapeInv

\* Every step keeps the types.
LEMMA TypeStep ==
  ASSUME TypeOK, ShapeInv, Next
  PROVE  TypeOK' /\ ShapeInv'
<1> USE AuthorityBounds
<1>1. ASSUME NEW k \in Keys, Create(k) \/ Edit(k) \/ Delete(k)
      PROVE  TypeOK' /\ ShapeInv'
  <2>1. PICK v \in Versions :
          /\ Change(k, v) /\ created' \in [Keys -> 0..MaxUid]
          /\ v[2] <= edits + 2 /\ v[1] <= created'[k] /\ (v # Absent => v[1] # 0)
          /\ \A q \in Keys \ {k} : created'[q] = created[q]
    <3>1. CASE Create(k)
      <4>1. created[k] \in Nat /\ created[k] < MaxUid /\ edits \in Nat
        BY <3>1 DEF Create, TypeOK
      <4>2. <<created[k] + 1, 1>> \in Versions
        BY <4>1 DEF Versions
      <4>3. created' \in [Keys -> 0..MaxUid] /\ created'[k] = created[k] + 1
            /\ \A q \in Keys \ {k} : created'[q] = created[q]
        BY <3>1, <4>1 DEF Create, TypeOK
      <4>4. WITNESS <<created[k] + 1, 1>> \in Versions
      <4>5. QED
        BY <3>1, <4>1, <4>3 DEF Create
    <3>2. CASE Edit(k)
      <4>1. object[k] \in Versions /\ edits \in Nat /\ edits < MaxEdits /\ object[k][1] \in 0..MaxUid
            /\ object[k][2] \in Nat /\ object[k][2] <= edits + 1 /\ object[k] # Absent
        BY <3>2 DEF Edit, Change, TypeOK, ShapeInv, Versions
      <4>2. <<object[k][1], object[k][2] + 1>> \in Versions
        BY <4>1 DEF Versions
      <4>3. created' = created /\ created \in [Keys -> 0..MaxUid]
        BY <3>2 DEF Edit, TypeOK
      <4>4. object[k][1] <= created[k] /\ object[k][1] # 0
        BY <4>1 DEF ShapeInv
      <4>5. WITNESS <<object[k][1], object[k][2] + 1>> \in Versions
      <4>6. QED
        BY <3>2, <4>1, <4>3, <4>4 DEF Edit
    <3>3. CASE Delete(k)
      <4>1. created' = created /\ created \in [Keys -> 0..MaxUid] /\ edits \in Nat
        BY <3>3 DEF Delete, TypeOK
      <4> Absent \in Versions
        BY AbsentType
      <4>2. WITNESS Absent \in Versions
      <4>3. QED
        <5>1. created[k] \in Nat /\ Absent[1] = 0 /\ Absent[2] = 0
          BY <4>1 DEF Absent
        <5>2. QED
          BY <3>3, <4>1, <5>1 DEF Delete
    <3>4. QED
      BY <1>1, <3>1, <3>2, <3>3
  <2>2. /\ object' = [object EXCEPT ![k] = v] /\ object' \in [Keys -> Versions]
        /\ events' \in [Keys -> Seq(Versions)] /\ edits' = edits + 1 /\ edits' \in 0..MaxEdits
    BY <2>1, ChangeType
  <2>3. TypeOK'
    BY <2>1, <2>2 DEF Change, TypeOK, controller, fence
  <2>4. ShapeInv'
    <3>1. processed' \in [Keys -> SUBSET Versions]
      BY <2>1 DEF Change, ShapeInv, controller
    <3>2. edits \in Nat
      BY DEF TypeOK
    <3>3. object'[k] = v /\ \A q \in Keys \ {k} : object'[q] = object[q]
      BY <2>2 DEF TypeOK
    <3>4. v[2] \in Nat /\ \A q \in Keys : object[q][2] \in Nat
      BY DEF TypeOK, Versions
    <3>5. ASSUME NEW q \in Keys
          PROVE  /\ object'[q][2] <= edits' + 1 /\ object'[q][1] <= created'[q]
                 /\ (object'[q] # Absent => object'[q][1] # 0)
      <4>1. CASE q = k
        BY <2>1, <2>2, <3>2, <3>3, <3>4, <4>1
      <4>2. CASE q # k
        <5>1. /\ object'[q] = object[q] /\ created'[q] = created[q]
              /\ object[q][2] <= edits + 1 /\ object[q][1] <= created[q]
              /\ (object[q] # Absent => object[q][1] # 0)
          BY <2>1, <3>3, <4>2 DEF ShapeInv
        <5>2. QED
          BY <2>2, <3>2, <3>4, <5>1
      <4>3. QED
        BY <4>1, <4>2
    <3>6. QED
      BY <2>2, <3>1, <3>5 DEF ShapeInv
  <2>5. QED
    BY <2>3, <2>4
<1>2. ASSUME NEW k \in Keys, Observe(k)
      PROVE  TypeOK' /\ ShapeInv'
  <2>1. events[k] \in Seq(Versions) /\ events[k] # <<>>
    BY <1>2 DEF Observe, TypeOK
  <2>2. Head(events[k]) \in Versions /\ Tail(events[k]) \in Seq(Versions)
    BY <2>1
  <2>3. cache' \in [Keys -> Versions] /\ events' \in [Keys -> Seq(Versions)]
    BY <1>2, <2>2 DEF Observe, TypeOK, ShapeInv
  <2>4. TypeOK'
    BY <1>2, <2>3 DEF Observe, TypeOK, fence
  <2>5. ShapeInv'
    BY <1>2, <2>3 DEF Observe, ShapeInv
  <2>6. QED
    BY <2>4, <2>5
<1>3. ASSUME NEW k \in Keys, Take(k)
      PROVE  TypeOK' /\ ShapeInv'
  <2>1. work' \in Keys \X Versions
    BY <1>3 DEF Take, TypeOK
  <2>2. QED
    BY <1>3, <2>1 DEF Take, TypeOK, ShapeInv, world, fence
<1>4. CASE Retry
  <2>1. work[1] \in Keys
    BY <1>4 DEF Retry, TypeOK
  <2>2. QED
    BY <1>4, <2>1 DEF Retry, TypeOK, ShapeInv, world, fence
<1>5. CASE Complete
  <2>1. work[1] \in Keys /\ work[2] \in Versions /\ Reconciled(work[1], work[2])
    BY <1>5 DEF Complete, TypeOK
  <2>2. TypeOK'
    BY <1>5, <2>1, ReconciledFence DEF Complete, TypeOK, world
  <2>3. ShapeInv'
    BY <1>5, <2>1, ReconciledFence DEF Complete, ShapeInv, world
  <2>4. QED
    BY <2>2, <2>3
<1>6. CASE List
  <2>1. listing' = <<object>> /\ listing'[1] \in [Keys -> Versions]
    BY <1>6 DEF List, TypeOK
  <2>2. QED
    BY <1>6, <2>1 DEF List, TypeOK, ShapeInv, world, controller, fence
<1>7. CASE Initialize
  <2>1. listing[1] \in [Keys -> Versions] /\ RefreshLocked(listing[1])
    BY <1>7 DEF Initialize, TypeOK
  <2>2. ctx' \in {"nil", "live", "done"}
    BY <1>7 DEF Initialize
  <2>3. TypeOK'
    BY <1>7, <2>1, <2>2, RefreshType DEF Initialize, TypeOK, world, controller
  <2>4. ShapeInv'
    BY <1>7 DEF Initialize, ShapeInv, world, controller
  <2>5. QED
    BY <2>3, <2>4
<1>8. CASE Refresh
  <2>1. CASE ready
    BY <1>8, <2>1 DEF Refresh, TypeOK, ShapeInv, world, controller
  <2>2. CASE ~ready
    <3>1. listing[1] \in [Keys -> Versions] /\ RefreshLocked(listing[1])
      BY <1>8, <2>2 DEF Refresh, TypeOK
    <3>2. TypeOK'
      BY <1>8, <3>1, RefreshType DEF Refresh, TypeOK, world, controller
    <3>3. ShapeInv'
      BY <1>8 DEF Refresh, ShapeInv, world, controller
    <3>4. QED
      BY <3>2, <3>3
  <2>3. QED
    BY <2>1, <2>2
<1>9. CASE Serve
  BY <1>9 DEF Serve, TypeOK, ShapeInv, world, controller, fence
<1>10. CASE LeaderLost
  BY <1>10 DEF LeaderLost, TypeOK, ShapeInv, world, controller
<1>11. CASE Revoke
  BY <1>11 DEF Revoke, TypeOK, ShapeInv, world, controller
<1>12. QED
  BY <1>1, <1>2, <1>3, <1>4, <1>5, <1>6, <1>7, <1>8, <1>9, <1>10, <1>11
     DEF Next, Editor, Initializer

-----------------------------------------------------------------------------
(* The context and the nil map.                                            *)

\* The context is never revived, and a nil observed is never written.
LEMMA ContextStep ==
  ASSUME TypeOK, ContextInv, NilInv, Next
  PROVE  ContextInv' /\ NilInv'
<1>1. ASSUME UNCHANGED <<start, lost, fence>>
      PROVE  ContextInv' /\ NilInv'
  BY <1>1 DEF ContextInv, NilInv, fence
<1>2. CASE Editor \/ Retry \/ List \/ \E k \in Keys : Observe(k) \/ Take(k)
  <2>1. UNCHANGED <<start, lost, fence>>
    BY <1>2 DEF Editor, Create, Edit, Delete, Change, Retry, List, Observe, Take
  <2>2. QED
    BY <1>1, <2>1
<1>3. CASE Complete
  <2>1. Reconciled(work[1], work[2]) /\ UNCHANGED <<start, lost>>
    BY <1>3 DEF Complete
  <2>2. CASE ctx = "done"
    BY <1>1, <2>1, <2>2 DEF Reconciled
  <2>3. CASE ctx # "done"
    <3>1. isNil => ctx = "live" /\ ready /\ pending = Nothing
      BY <2>3 DEF NilInv, TypeOK
    <3> DEFINE left == IF ctx # "nil" /\ pending[work[1]] # Absent /\ Clears(work[2], pending[work[1]])
                       THEN [pending EXCEPT ![work[1]] = Absent] ELSE pending
               full == ctx # "nil" /\ left = Nothing
    <3>2. /\ panicked' = (panicked \/ (Records /\ isNil)) /\ ready' = full
          /\ isNil' = (isNil \/ full) /\ ctx' = ctx
      BY <2>1, <2>3 DEF Reconciled
    <3>3. isNil => full
      <4> SUFFICES ASSUME isNil
                   PROVE  full
        OBVIOUS
      <4>1. work[1] \in Keys
        BY <1>3 DEF Complete, TypeOK
      <4>2. pending[work[1]] = Absent
        BY <3>1, <4>1 DEF Nothing
      <4>3. QED
        BY <3>1, <4>2
    <3>4. full => ctx = "live"
      BY <2>3 DEF TypeOK
    <3> HIDE DEF full
    <3>5. ~(Records /\ isNil)
      BY <3>1 DEF Records
    <3>6. ~panicked'
      BY <3>2, <3>5 DEF NilInv
    <3>7. isNil' => ctx' = "live" /\ ready'
      BY <3>2, <3>3, <3>4
    <3>8. ContextInv'
      BY <2>1, <3>2 DEF ContextInv
    <3>9. QED
      BY <3>6, <3>7, <3>8 DEF NilInv
  <2>4. QED
    BY <2>2, <2>3
<1>4. CASE Initialize
  <2>1. ctx = "nil" /\ ~isNil
    BY <1>4 DEF Initialize, ContextInv, NilInv
  <2>2. (isNil' => ready') /\ ~panicked'
    BY <1>4, <2>1 DEF Initialize, RefreshLocked, NilInv
  <2>3. start' = "waiting" /\ lost' = lost /\ ctx' = IF lost THEN "done" ELSE "live"
    BY <1>4 DEF Initialize
  <2>4. QED
    BY <2>2, <2>3 DEF ContextInv, NilInv
<1>5. CASE Refresh
  <2>1. CASE ready
    BY <1>1, <1>5, <2>1 DEF Refresh, fence
  <2>2. CASE ~ready
    <3>1. RefreshLocked(listing[1]) /\ UNCHANGED <<start, lost, ctx, panicked>> /\ ctx # "nil"
      BY <1>5, <2>2 DEF Refresh, ContextInv
    <3>2. isNil' => ctx = "done" \/ ready'
      BY <2>2, <3>1 DEF RefreshLocked, NilInv
    <3>3. ctx = "live" \/ ctx = "done"
      BY <3>1 DEF TypeOK
    <3>4. QED
      BY <3>1, <3>2, <3>3 DEF ContextInv, NilInv
  <2>3. QED
    BY <2>1, <2>2
<1>6. CASE Serve
  BY <1>6 DEF Serve, ContextInv, NilInv, fence
<1>7. CASE LeaderLost
  BY <1>7 DEF LeaderLost, ContextInv, NilInv
<1>8. CASE Revoke
  BY <1>8 DEF Revoke, ContextInv, NilInv
<1>9. QED
  BY <1>2, <1>3, <1>4, <1>5, <1>6, <1>7, <1>8 DEF Next, Initializer

-----------------------------------------------------------------------------
(* What the reconciler can have seen.                                      *)

\* Nothing is seen under a name before its first object.
LEMMA UnusedStep ==
  ASSUME TypeOK, ShapeInv, UnusedInv, Next
  PROVE  UnusedInv'
<1> SUFFICES ASSUME NEW k \in Keys, created'[k] = 0
             PROVE  /\ cache'[k] = Absent /\ events'[k] = <<>>
                    /\ k \notin queue' /\ (work' # <<>> => work'[1] # k)
                    /\ inventory'[k] = Absent /\ (listing' # <<>> => listing'[1][k] = Absent)
  BY DEF UnusedInv
<1>1. created[k] = 0
  <2>1. CASE \E q \in Keys : Create(q)
    <3>1. PICK q \in Keys : created' = [created EXCEPT ![q] = @ + 1]
      BY <2>1 DEF Create
    <3>2. created[k] \in Nat
      BY AuthorityBounds DEF TypeOK
    <3>3. QED
      BY <3>1, <3>2 DEF TypeOK
  <2>2. CASE UNCHANGED created
    BY <2>2
  <2>3. QED
    BY <2>1, <2>2 DEF Next, Editor, Initializer, Edit, Delete, LeaderLost, Revoke, Complete, Retry,
                      Observe, Take, List, Initialize, Refresh, Serve, world
<1>2. /\ cache[k] = Absent /\ events[k] = <<>> /\ k \notin queue /\ (work # <<>> => work[1] # k)
      /\ inventory[k] = Absent /\ (listing # <<>> => listing[1][k] = Absent)
  BY <1>1 DEF UnusedInv
<1>3. object[k] = Absent
  <2>1. object[k][1] \in Nat /\ object[k][1] <= 0
    BY <1>1 DEF ShapeInv, TypeOK, Versions
  <2>2. QED
    BY <2>1 DEF ShapeInv
<1>4. ASSUME NEW q \in Keys, Create(q) \/ Edit(q) \/ Delete(q)
      PROVE  events'[k] = events[k] /\ UNCHANGED <<cache, queue, work, inventory, listing>>
  <2>1. q # k
    <3>1. CASE Create(q)
      <4>1. created[q] \in Nat /\ created' = [created EXCEPT ![q] = @ + 1]
        BY <3>1, AuthorityBounds DEF Create, TypeOK
      <4>2. created'[q] = created[q] + 1
        BY <4>1 DEF TypeOK
      <4>3. QED
        BY <1>1, <4>2
    <3>2. CASE Edit(q) \/ Delete(q)
      BY <1>3, <3>2 DEF Edit, Delete
    <3>3. QED
      BY <1>4, <3>1, <3>2
  <2>2. PICK v : events' = [events EXCEPT ![q] = Append(@, v)]
    BY <1>4 DEF Create, Edit, Delete, Change
  <2>3. QED
    BY <1>4, <2>1, <2>2 DEF Create, Edit, Delete, Change, controller, ShapeInv
<1>5. CASE Editor
  BY <1>2, <1>4, <1>5 DEF Editor
<1>6. ASSUME NEW q \in Keys, Observe(q)
      PROVE  /\ cache'[k] = cache[k] /\ events'[k] = events[k] /\ k \notin queue'
             /\ UNCHANGED <<work, inventory, listing>>
  <2>1. q # k
    BY <1>2, <1>6 DEF Observe
  <2>2. QED
    BY <1>2, <1>6, <2>1 DEF Observe, TypeOK, ShapeInv
<1>7. ASSUME NEW q \in Keys, Take(q)
      PROVE  work'[1] # k /\ k \notin queue' /\ UNCHANGED <<cache, events, inventory, listing>>
  BY <1>2, <1>7 DEF Take, world
<1>8. CASE Complete \/ Retry
  BY <1>2, <1>8 DEF Complete, Retry, world
<1>9. CASE List
  <2>1. listing'[1][k] = Absent
    BY <1>3, <1>9 DEF List
  <2>2. QED
    BY <1>2, <1>9, <2>1 DEF List, world, controller
<1>10. CASE Initialize \/ Refresh
  BY <1>2, <1>10 DEF Initialize, Refresh, RefreshLocked, world, controller
<1>11. CASE Serve \/ LeaderLost \/ Revoke
  BY <1>2, <1>11 DEF Serve, LeaderLost, Revoke, world, controller
<1>12. QED
  BY <1>2, <1>5, <1>6, <1>7, <1>8, <1>9, <1>10, <1>11 DEF Next, Initializer

\* The reconciler finds no object under a name only after its one object is gone.
LEMMA GoneStep ==
  ASSUME TypeOK, ShapeInv, UnusedInv, GoneInv, Next
  PROVE  GoneInv'
<1> SUFFICES ASSUME NEW k \in Keys, created'[k] = 1
             PROVE  Gone(k)'
  BY DEF GoneInv
<1>1. created[k] = 1 => Gone(k)
  BY DEF GoneInv
<1>2. ASSUME NEW q \in Keys, Create(q)
      PROVE  Gone(k)'
  <2>1. created[q] \in Nat /\ created'[q] = created[q] + 1
    BY <1>2, AuthorityBounds DEF Create, TypeOK
  <2> DEFINE v == <<created[q] + 1, 1>>
  <2>2. /\ object' = [object EXCEPT ![q] = v] /\ events' = [events EXCEPT ![q] = Append(@, v)]
        /\ UNCHANGED <<cache, queue, work>>
    BY <1>2 DEF Create, Change, controller
  <2>3. CASE q = k
    <3>1. /\ cache[k] = Absent /\ events[k] = <<>> /\ k \notin queue /\ (work # <<>> => work[1] # k)
          /\ created[k] = 0
      BY <2>1, <2>3 DEF UnusedInv
    <3>2. events'[k] = Append(<<>>, v)
      BY <2>2, <2>3, <3>1 DEF ShapeInv
    <3>3. Len(events'[k]) = 1 /\ events'[k][1] = v /\ v # Absent
      BY <3>1, <2>1, <2>3, <3>2 DEF Absent
    <3>4. QED
      BY <2>2, <3>1, <3>3 DEF Gone
  <2>4. CASE q # k
    <3>1. created[k] = 1 /\ object'[k] = object[k] /\ events'[k] = events[k]
      BY <1>2, <2>2, <2>4 DEF Create, TypeOK, ShapeInv
    <3>2. QED
      BY <1>1, <2>2, <3>1 DEF Gone
  <2>5. QED
    BY <2>3, <2>4
<1>3. ASSUME NEW q \in Keys, Edit(q) \/ Delete(q)
      PROVE  Gone(k)'
  <2>1. PICK v : /\ Change(q, v) /\ UNCHANGED created
                 /\ v = Absent \/ (v[1] = object[q][1] /\ object[q] # Absent)
    <3>1. CASE Edit(q)
      BY <3>1 DEF Edit
    <3>2. CASE Delete(q)
      BY <3>2 DEF Delete
    <3>3. QED
      BY <1>3, <3>1, <3>2
  <2>2. /\ object' = [object EXCEPT ![q] = v] /\ events' = [events EXCEPT ![q] = Append(@, v)]
        /\ UNCHANGED <<cache, queue, work>>
    BY <2>1 DEF Change, controller
  <2>3. Gone(k)
    BY <1>1, <2>1
  <2>4. CASE q # k
    <3>1. object'[k] = object[k] /\ events'[k] = events[k]
      BY <2>2, <2>4 DEF TypeOK, ShapeInv
    <3>2. QED
      BY <2>2, <2>3, <3>1 DEF Gone
  <2>5. CASE q = k /\ v = Absent
    <3>1. object'[k] = Absent
      BY <2>2, <2>5 DEF TypeOK
    <3>2. QED
      BY <3>1 DEF Gone
  <2>6. CASE q = k /\ v # Absent
    <3>1. object[k] # Absent /\ v # Absent /\ events[k] \in Seq(Versions)
      BY <2>1, <2>6 DEF ShapeInv
    <3>2. events'[k] = Append(events[k], v)
      BY <2>2, <2>6 DEF ShapeInv
    <3>3. \A i \in 1..Len(events[k]) : events[k][i] # Absent
      BY <2>3, <3>1 DEF Gone
    <3>4. \A i \in 1..Len(events'[k]) : events'[k][i] # Absent
      BY <3>1, <3>2, <3>3
    <3>5. QED
      BY <2>2, <2>3, <3>1, <3>4 DEF Gone
  <2>7. QED
    BY <2>4, <2>5, <2>6
<1>4. ASSUME NEW q \in Keys, Observe(q)
      PROVE  Gone(k)'
  <2>1. Gone(k) /\ UNCHANGED <<object, work>> /\ queue' = queue \cup {q}
        /\ cache' = [cache EXCEPT ![q] = Head(events[q])] /\ events' = [events EXCEPT ![q] = Tail(@)]
    BY <1>1, <1>4 DEF Observe
  <2>2. CASE q # k
    <3>1. cache'[k] = cache[k] /\ events'[k] = events[k] /\ (k \in queue' <=> k \in queue)
      BY <2>1, <2>2 DEF TypeOK, ShapeInv
    <3>2. QED
      BY <2>1, <3>1 DEF Gone
  <2>3. CASE q = k
    <3>1. events[k] \in Seq(Versions) /\ events[k] # <<>>
      BY <1>4, <2>3 DEF Observe, ShapeInv
    <3>2. cache'[k] = Head(events[k]) /\ events'[k] = Tail(events[k])
      BY <2>1, <2>3 DEF TypeOK, ShapeInv
    <3>3. cache'[k] = Absent => object[k] = Absent
      BY <2>1, <3>1, <3>2 DEF Gone
    <3>4. \A i \in 1..Len(events'[k]) : events'[k][i] = Absent => object[k] = Absent
      BY <2>1, <3>1, <3>2 DEF Gone
    <3>5. QED
      BY <2>1, <3>3, <3>4 DEF Gone
  <2>4. QED
    BY <2>2, <2>3
<1>5. ASSUME NEW q \in Keys, Take(q)
      PROVE  Gone(k)'
  <2>1. Gone(k) /\ q \in queue /\ UNCHANGED <<object, events, cache>> /\ queue' \subseteq queue
        /\ work' = <<q, cache[q]>>
    BY <1>1, <1>5 DEF Take, world
  <2>2. work'[1] = q /\ work'[2] = cache[q]
    BY <2>1
  <2>3. QED
    BY <2>1, <2>2 DEF Gone
<1>6. CASE Complete \/ Retry
  <2>1. Gone(k) /\ UNCHANGED <<object, events, cache>> /\ work # <<>> /\ work' = <<>>
        /\ queue' \subseteq queue \cup {work[1]}
    BY <1>1, <1>6 DEF Complete, Retry, world
  <2>2. QED
    BY <2>1 DEF Gone
<1>7. CASE Initializer \/ LeaderLost \/ Revoke
  <2>1. Gone(k) /\ UNCHANGED <<object, events, cache, queue, work>>
    BY <1>1, <1>7 DEF Initializer, LeaderLost, Revoke, List, Initialize, Refresh, Serve, world, controller
  <2>2. QED
    BY <2>1 DEF Gone
<1>8. QED
  BY <1>2, <1>3, <1>4, <1>5, <1>6, <1>7 DEF Next, Editor

-----------------------------------------------------------------------------
(* The fence.                                                              *)

\* Listings name objects that have a UID, and observed keeps completions only.
LEMMA ListedStep ==
  ASSUME TypeOK, ShapeInv, ListedInv, Next
  PROVE  ListedInv'
<1>1. ASSUME UNCHANGED <<inventory, observed, processed>>, listing' = <<>> \/ listing' = listing
      PROVE  ListedInv'
  BY <1>1 DEF ListedInv
<1>2. CASE Editor \/ Retry \/ Serve \/ LeaderLost \/ Revoke \/ \E k \in Keys : Observe(k) \/ Take(k)
  <2>1. UNCHANGED <<inventory, observed, processed>> /\ (listing' = <<>> \/ listing' = listing)
    BY <1>2 DEF Editor, Create, Edit, Delete, Change, Retry, Serve, LeaderLost, Revoke, Observe, Take,
                controller, fence
  <2>2. QED
    BY <1>1, <2>1
<1>3. CASE List
  <2>1. listing' = <<object>> /\ listing'[1] = object /\ UNCHANGED <<inventory, observed, processed>>
    BY <1>3 DEF List, fence, controller
  <2>2. QED
    BY <2>1 DEF ListedInv, ShapeInv
<1>4. CASE Complete
  <2>1. work[1] \in Keys /\ work[2] \in Versions /\ Reconciled(work[1], work[2])
    BY <1>4 DEF Complete, TypeOK
  <2>2. /\ work[2] \in processed'[work[1]] /\ \A q \in Keys : processed[q] \subseteq processed'[q]
        /\ \A q \in Keys : observed'[q] = Absent \/ observed'[q] = observed[q]
                           \/ (q = work[1] /\ observed'[q] = work[2])
    BY <2>1, ReconciledFence
  <2>3. UNCHANGED <<inventory, listing>>
    BY <1>4 DEF Complete
  <2>4. QED
    BY <2>2, <2>3 DEF ListedInv
<1>5. ASSUME listing # <<>>, RefreshLocked(listing[1]), UNCHANGED processed, listing' = <<>>
      PROVE  ListedInv'
  <2>1. inventory' = listing[1] /\ \A q \in Keys : observed'[q] = Absent \/ observed'[q] = observed[q]
    BY <1>5 DEF RefreshLocked, Nothing
  <2>2. QED
    BY <1>5, <2>1 DEF ListedInv
<1>6. CASE Initialize
  BY <1>5, <1>6 DEF Initialize, controller
<1>7. CASE Refresh
  BY <1>1, <1>5, <1>7 DEF Refresh, controller
<1>8. QED
  BY <1>2, <1>3, <1>4, <1>6, <1>7 DEF Next, Initializer

\* A version settled stays settled while its name has no second object.
LEMMA SettledStep ==
  ASSUME NEW k \in Keys, Settled(k), inventory'[k] = inventory[k], processed[k] \subseteq processed'[k],
         inventory[k] # Absent => inventory[k][1] # 0,
         object'[k][1] = object[k][1] \/ object'[k] = Absent
  PROVE  Settled(k)'
<1>1. object'[k] = Absent => object'[k][1] = 0
  BY DEF Absent
<1>2. CASE inventory[k] = Absent
  BY <1>2 DEF Settled
<1>3. CASE inventory[k] # Absent /\ \E v \in processed[k] : Covers(v, inventory[k])
  BY <1>3 DEF Settled
<1>4. CASE inventory[k] # Absent /\ object[k][1] # inventory[k][1]
  BY <1>1, <1>4 DEF Settled
<1>5. QED
  BY <1>2, <1>3, <1>4 DEF Settled

\* Recording a listing leaves pending exactly what no completion covers.
LEMMA FenceRefresh ==
  ASSUME TypeOK, ListedInv, listing # <<>>, RefreshLocked(listing[1]), UNCHANGED <<processed, object>>,
         NEW k \in Keys
  PROVE  pending'[k] = inventory'[k] \/ Settled(k)'
<1> DEFINE list == listing[1]
<1>1. inventory' = list /\ pending'[k] = Uncovered(list)[k]
  BY DEF RefreshLocked
<1>2. Uncovered(list)[k] = IF list[k] # Absent /\ ~Covers(observed[k], list[k]) THEN list[k] ELSE Absent
  BY DEF Uncovered
<1>3. CASE list[k] = Absent \/ ~Covers(observed[k], list[k])
  BY <1>1, <1>2, <1>3
<1>4. CASE list[k] # Absent /\ Covers(observed[k], list[k])
  <2>1. list[k][1] # 0
    BY <1>4 DEF ListedInv
  <2>2. observed[k] # Absent
    BY <1>4, <2>1 DEF Covers, Absent
  <2>3. observed[k] \in processed'[k]
    BY <2>2 DEF ListedInv
  <2>4. QED
    BY <1>1, <1>4, <2>3 DEF Settled
<1>5. QED
  BY <1>3, <1>4

\* Every listed version is pending or settled.
LEMMA FenceStep ==
  ASSUME TypeOK, ShapeInv, UnusedInv, GoneInv, ListedInv, FenceInv, Next
  PROVE  FenceInv'
<1> SUFFICES ASSUME NEW k \in Keys, created'[k] = 1
             PROVE  pending'[k] = inventory'[k] \/ Settled(k)'
  BY DEF FenceInv
<1>1. ASSUME created[k] = 1, UNCHANGED <<pending, inventory, processed>>,
             object'[k][1] = object[k][1] \/ object'[k] = Absent
      PROVE  pending'[k] = inventory'[k] \/ Settled(k)'
  <2>1. pending[k] = inventory[k] \/ Settled(k)
    BY <1>1 DEF FenceInv
  <2>2. QED
    BY <1>1, <2>1, SettledStep DEF ListedInv
<1>2. ASSUME NEW q \in Keys, Create(q)
      PROVE  pending'[k] = inventory'[k] \/ Settled(k)'
  <2>1. created[q] \in Nat /\ created'[q] = created[q] + 1
    BY <1>2, AuthorityBounds DEF Create, TypeOK
  <2>2. UNCHANGED <<pending, inventory, processed>>
    BY <1>2 DEF Create, Change, fence, controller
  <2>3. CASE q = k
    <3>1. inventory'[k] = Absent
      BY <2>1, <2>2, <2>3 DEF UnusedInv
    <3>2. QED
      BY <3>1 DEF Settled
  <2>4. CASE q # k
    <3>1. created[k] = 1 /\ object'[k] = object[k]
      BY <1>2, <2>4 DEF Create, Change, TypeOK
    <3>2. QED
      BY <1>1, <2>2, <3>1
  <2>5. QED
    BY <2>3, <2>4
<1>3. ASSUME NEW q \in Keys, Edit(q)
      PROVE  pending'[k] = inventory'[k] \/ Settled(k)'
  <2>1. object' = [object EXCEPT ![q] = <<object[q][1], object[q][2] + 1>>]
    BY <1>3 DEF Edit, Change
  <2>2. object'[k][1] = object[k][1]
    BY <2>1 DEF TypeOK
  <2>3. QED
    BY <1>1, <1>3, <2>2 DEF Edit, Change, fence, controller
<1>4. ASSUME NEW q \in Keys, Delete(q)
      PROVE  pending'[k] = inventory'[k] \/ Settled(k)'
  <2>1. object'[k][1] = object[k][1] \/ object'[k] = Absent
    BY <1>4 DEF Delete, Change, TypeOK
  <2>2. QED
    BY <1>1, <1>4, <2>1 DEF Delete, Change, fence, controller
<1>5. CASE Retry \/ List \/ Serve \/ LeaderLost \/ Revoke \/ \E q \in Keys : Observe(q) \/ Take(q)
  <2>1. UNCHANGED <<created, object, pending, inventory, processed>>
    BY <1>5 DEF Retry, List, Serve, LeaderLost, Revoke, Observe, Take, fence, controller, world
  <2>2. QED
    BY <1>1, <2>1
<1>6. CASE Initialize
  BY <1>6, FenceRefresh DEF Initialize, world, controller
<1>7. CASE Refresh
  <2>1. CASE ready
    BY <1>1, <1>7, <2>1 DEF Refresh, world, controller
  <2>2. CASE ~ready
    BY <1>7, <2>2, FenceRefresh DEF Refresh, world, controller
  <2>3. QED
    BY <2>1, <2>2
<1>8. CASE Complete
  <2> DEFINE v == work[2]
  <2>1. work # <<>> /\ work[1] \in Keys /\ v \in Versions /\ Reconciled(work[1], v)
    BY <1>8 DEF Complete, TypeOK
  <2>2. UNCHANGED <<created, object, inventory>>
    BY <1>8 DEF Complete, world
  <2>3. /\ processed[k] \subseteq processed'[k] /\ v \in processed'[work[1]]
        /\ pending'[k] = pending[k]
           \/ (k = work[1] /\ pending'[k] = Absent /\ Clears(v, pending[k]))
    BY <2>1, ReconciledFence
  <2>4. created[k] = 1 /\ (pending[k] = inventory[k] \/ Settled(k))
    BY <2>2 DEF FenceInv
  <2>5. CASE Settled(k)
    BY <2>2, <2>3, <2>5, SettledStep DEF ListedInv
  <2>6. CASE pending[k] = inventory[k] /\ pending'[k] = pending[k]
    BY <2>2, <2>6
  <2>7. CASE pending[k] = inventory[k] /\ k = work[1] /\ v = Absent
    <3>1. object[k] = Absent
      BY <2>1, <2>4, <2>7 DEF GoneInv, Gone
    <3>2. object'[k][1] = 0
      BY <2>2, <3>1 DEF Absent
    <3>3. QED
      BY <2>2, <3>2 DEF Settled, ListedInv
  <2>8. CASE pending[k] = inventory[k] /\ k = work[1] /\ Covers(v, pending[k])
    BY <2>2, <2>3, <2>8 DEF Settled
  <2>9. QED
    BY <2>3, <2>4, <2>5, <2>6, <2>7, <2>8 DEF Clears
<1>9. QED
  BY <1>2, <1>3, <1>4, <1>5, <1>6, <1>7, <1>8 DEF Next, Editor, Initializer

-----------------------------------------------------------------------------
(* Theorems.                                                               *)

\* The invariant holds of every reachable state.
THEOREM Invariance == Spec => []IInv
<1>1. Init => IInv
  <2> SUFFICES ASSUME Init
               PROVE  IInv
    OBVIOUS
  <2>1. ASSUME NEW k \in Keys
        PROVE  \/ object[k] = Absent /\ object[k][1] = 0 /\ object[k][2] = 0
               \/ object[k] # Absent /\ object[k][1] = 1 /\ object[k][2] = 1
    <3>1. object[k] = Absent \/ object[k] = <<1, 1>>
      BY DEF Init
    <3>2. CASE object[k] = Absent
      BY <3>2 DEF Absent
    <3>3. CASE object[k] = <<1, 1>>
      BY <3>3 DEF Absent
    <3>4. QED
      BY <3>1, <3>2, <3>3
  <2>2. <<1, 1>> \in Versions /\ Absent \in Versions /\ Nothing \in [Keys -> Versions]
    BY AuthorityBounds, AbsentType DEF Versions
  <2>3. object \in [Keys -> Versions] /\ cache \in [Keys -> Versions]
    BY <2>2 DEF Init
  <2>4. created \in [Keys -> 0..MaxUid]
    <3>1. ASSUME NEW k \in Keys
          PROVE  object[k][1] \in 0..MaxUid
      <4>1. object[k][1] = 0 \/ object[k][1] = 1
        BY <2>1
      <4>2. QED
        BY <4>1, AuthorityBounds
    <3>2. QED
      BY <3>1 DEF Init
  <2>5. events \in [Keys -> Seq(Versions)] /\ processed \in [Keys -> SUBSET Versions]
    BY DEF Init
  <2>6. TypeOK
    <3>1. lost \in BOOLEAN /\ ready \in BOOLEAN /\ isNil \in BOOLEAN /\ panicked \in BOOLEAN
          /\ (ready => pending = Nothing)
      BY DEF Init
    <3>2. \A k \in Keys : events[k] \in Seq(Versions)
      BY <2>5
    <3>3. edits \in 0..MaxEdits /\ queue \subseteq Keys
      BY AuthorityBounds DEF Init
    <3>4. QED
      BY <2>2, <2>3, <2>4, <3>1, <3>2, <3>3 DEF Init, TypeOK
  <2>7. ShapeInv
    <3>1. ASSUME NEW k \in Keys
          PROVE  /\ object[k][2] <= edits + 1 /\ object[k][1] <= created[k]
                 /\ (object[k] # Absent => object[k][1] # 0)
      <4>1. edits = 0 /\ created[k] = object[k][1]
        BY DEF Init
      <4>2. CASE object[k] = Absent /\ object[k][1] = 0 /\ object[k][2] = 0
        BY <4>1, <4>2
      <4>3. CASE object[k] # Absent /\ object[k][1] = 1 /\ object[k][2] = 1
        BY <4>1, <4>3
      <4>4. QED
        BY <2>1, <4>2, <4>3
    <3>2. QED
      BY <2>5, <3>1 DEF ShapeInv
  <2>8. ContextInv /\ NilInv
    BY DEF Init, ContextInv, NilInv
  <2>9. UnusedInv
    <3>1. \A k \in Keys : created[k] = 0 => object[k] = Absent
      BY <2>1, <2>7 DEF Init
    <3>2. QED
      BY <3>1 DEF Init, UnusedInv, Nothing
  <2>10. GoneInv
    <3>1. \A k \in Keys : cache[k] = Absent => k \notin queue
      BY DEF Init
    <3>2. QED
      BY <3>1 DEF Init, GoneInv, Gone
  <2>11. ListedInv /\ FenceInv
    BY DEF Init, ListedInv, FenceInv, Nothing
  <2>12. QED
    BY <2>6, <2>7, <2>8, <2>9, <2>10, <2>11 DEF IInv
<1>2. IInv /\ [Next]_vars => IInv'
  <2>1. CASE Next
    BY <2>1, TypeStep, ContextStep, UnusedStep, GoneStep, ListedStep, FenceStep DEF IInv
  <2>2. CASE UNCHANGED vars
    <3> USE <2>2 DEF vars, world, controller, fence
    <3>1. TypeOK /\ ShapeInv => TypeOK' /\ ShapeInv'
      BY DEF TypeOK, ShapeInv
    <3>2. ContextInv /\ NilInv => ContextInv' /\ NilInv'
      BY DEF ContextInv, NilInv
    <3>3. UnusedInv /\ GoneInv => UnusedInv' /\ GoneInv'
      BY DEF UnusedInv, GoneInv, Gone
    <3>4. ListedInv /\ FenceInv => ListedInv' /\ FenceInv'
      BY DEF ListedInv, FenceInv, Settled
    <3>5. QED
      BY <3>1, <3>2, <3>3, <3>4 DEF IInv
  <2>3. QED
    BY <2>1, <2>2
<1>3. QED
  BY <1>1, <1>2, PTL DEF Spec

\* While the operator answers, its startup inventory has been completed.
THEOREM FenceSafe == Spec => []AnswersCoverInventory
<1>1. IInv => AnswersCoverInventory
  <2> SUFFICES ASSUME IInv
               PROVE  AnswersCoverInventory
    OBVIOUS
  <2>1. TypeOK /\ ~panicked
    BY DEF IInv, NilInv
  <2>2. ASSUME Answers, NEW k \in Keys, created[k] = 1
        PROVE  Settled(k)
    <3>1. pending[k] = Absent
      BY <2>1, <2>2 DEF Answers, TypeOK, Nothing
    <3>2. QED
      BY <2>2, <3>1 DEF IInv, FenceInv, Settled
  <2>3. QED
    BY <2>1, <2>2 DEF AnswersCoverInventory
<1>2. QED
  BY <1>1, Invariance, PTL

\* Once leadership is lost or Start has returned, the operator never answers again.
THEOREM LossSafe == Spec => LossIsFinal
<1> DEFINE Over == lost \/ start = "ended"
<1>1. IInv /\ Over => ~Answers
  BY DEF IInv, ContextInv, Answers
<1>2. Over /\ [Next]_vars => Over'
  <2>1. Over /\ Next => Over'
    BY DEF Next, Editor, Initializer, Create, Edit, Delete, Change, Observe, Take, Complete, Retry,
           List, Initialize, Refresh, Serve, LeaderLost, Revoke
  <2>2. Over /\ UNCHANGED vars => Over'
    BY DEF vars
  <2>3. QED
    BY <2>1, <2>2
<1> HIDE DEF Over
<1>3. (lost \/ start = "ended") <=> Over
  BY DEF Over
<1>4. QED
  BY <1>1, <1>2, <1>3, Invariance, PTL DEF Spec, LossIsFinal
=============================================================================
