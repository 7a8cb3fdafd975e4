--------------------------- MODULE ArtifactCache ---------------------------
(***************************************************************************)
(* The module cache and its use by a preparation: the bounded LRU store,   *)
(* the three admission semaphores of its HTTP handlers, authentication,    *)
(* and the execution host's client, which falls back to the OCI registry   *)
(* and verifies what it is given.  Bytes are named by the artifact they    *)
(* hash to; Corrupt stands for bytes that hash to nothing anyone asks for. *)
(*                                                                         *)
(* Actors: preparations (one request of each kind in the server at a       *)
(* time), the server's handlers, the pod's lifecycle.                      *)
(***************************************************************************)
EXTENDS Integers, FiniteSets, FiniteSetsExt, Functions, Sequences

CONSTANTS
  Clients,       \* preparations
  Artifacts,     \* digests
  Size,          \* bytes of each artifact
  Corrupt,       \* bytes damaged on the way
  MaxBytes,      \* CACHE_MAX_BYTES
  MaxEntries,    \* CACHE_MAX_ENTRIES
  MaxAuth,       \* MAX_AUTH_REQUESTS
  MaxUploads,    \* MAX_UPLOADS
  MaxResponses   \* MAX_RESPONSES

ASSUME CacheLimits ==
  /\ Size \in [Artifacts -> Nat \ {0}] /\ Corrupt \notin Artifacts
  /\ {MaxBytes, MaxEntries, MaxAuth, MaxUploads, MaxResponses} \subseteq Nat

VARIABLES
  entries,   \* Store.entries: bytes by digest
  recency,   \* Store.recency, least recent first
  bytes,     \* Store.bytes
  ready,     \* CacheState.ready
  auth, uploads, responses,  \* free permits
  server,    \* the GET and the PUT of each preparation inside the server
  pc,        \* where each preparation stands
  art,       \* the digest its manifest named
  got,       \* the bytes it goes on with
  impossible \* history: replies the handlers only give if the store is broken

store == <<entries, recency, bytes>>
admission == <<auth, uploads, responses>>
preparation == <<pc, art, got>>
cacheVars == <<store, ready, admission, server, preparation, impossible>>

Kinds == {"get", "put"}
Contents == Artifacts \cup {Corrupt}
Nothing == [at |-> "none", digest |-> Corrupt, bytes |-> Corrupt]

Slot == [at : {"none", "auth", "sending", "body", "missing", "refused", "ok"},
         digest : Contents, bytes : Contents]

CacheTypeOK ==
  /\ DOMAIN entries \subseteq Artifacts /\ \A d \in DOMAIN entries : entries[d] \in Contents
  /\ recency \in Seq(Artifacts) /\ bytes \in Nat /\ ready \in BOOLEAN
  /\ auth \in 0..MaxAuth /\ uploads \in 0..MaxUploads /\ responses \in 0..MaxResponses
  /\ server \in [Clients -> [Kinds -> Slot]]
  /\ pc \in [Clients -> {"idle", "get", "pull", "hit", "pulled", "put"}]
  /\ art \in [Clients -> Contents] /\ got \in [Clients -> Contents]

CacheInit ==
  /\ entries = << >> /\ recency = << >> /\ bytes = 0 /\ ready = TRUE
  /\ auth = MaxAuth /\ uploads = MaxUploads /\ responses = MaxResponses
  /\ server = [c \in Clients |-> [k \in Kinds |-> Nothing]]
  /\ pc = [c \in Clients |-> "idle"]
  /\ art = [c \in Clients |-> Corrupt] /\ got = [c \in Clients |-> Corrupt]
  /\ impossible = {}

-----------------------------------------------------------------------------
(* The store.                                                              *)

\* verify_wasm: the envelope and the digest of the bytes.
Verified(d, b) == d = b

\* Mutant: an entry that is touched again is queued twice.
TouchTwice(r, d) == Append(r, d)

\* Store::touch: position finds the first occurrence, remove takes it out.
Without(r, d) ==
  LET at == {i \in 1..Len(r) : r[i] = d}
  IN  IF at = {} THEN r ELSE SubSeq(r, 1, Min(at) - 1) \o SubSeq(r, Min(at) + 1, Len(r))
Touch(r, d) == Append(Without(r, d), d)

\* Store::insert pops digests from the front until b fits: the entries that
\* go with the first n, and the bytes then counted.
Popped(n) == {recency[i] : i \in 1..n} \cap DOMAIN entries
Remaining(n) == bytes - MapThenSumSet(LAMBDA e : Size[e], Popped(n))
FitsAfter(n, b) ==
  /\ Remaining(n) + Size[b] <= MaxBytes
  /\ Cardinality(DOMAIN entries \ Popped(n)) < MaxEntries

Evictions(b) == Min({n \in 0..Len(recency) : FitsAfter(n, b)})

Insert(d, b) ==
  LET n == Evictions(b) IN
  /\ recency' = Touch(SubSeq(recency, n + 1, Len(recency)), d)
  /\ entries' = [e \in (DOMAIN entries \ Popped(n)) \cup {d} |-> IF e = d THEN b ELSE entries[e]]
  /\ bytes' = Remaining(n) + Size[b]

\* The status Store::insert answers with, and its effect.  Running out of
\* digests to pop before b fits is the handler's internal error.
Store(d, b, status) ==
  \/ /\ d \in DOMAIN entries /\ entries[d] = b /\ status = "ok"
     /\ recency' = Touch(recency, d) /\ UNCHANGED <<entries, bytes, impossible>>
  \/ /\ d \in DOMAIN entries /\ entries[d] # b /\ status = "refused"
     /\ impossible' = impossible \cup {"conflict"} /\ UNCHANGED store
  \/ /\ d \notin DOMAIN entries /\ status = "refused"
     /\ Size[b] > MaxBytes \/ MaxEntries = 0
     /\ UNCHANGED <<store, impossible>>
  \/ /\ d \notin DOMAIN entries /\ Size[b] <= MaxBytes /\ MaxEntries > 0
     /\ IF \E n \in 0..Len(recency) : FitsAfter(n, b)
        THEN Insert(d, b) /\ status = "ok" /\ UNCHANGED impossible
        ELSE /\ impossible' = impossible \cup {"exhausted"} /\ status = "refused"
             /\ recency' = << >> /\ bytes' = Remaining(Len(recency))
             /\ entries' = [e \in DOMAIN entries \ Popped(Len(recency)) |-> entries[e]]

-----------------------------------------------------------------------------
(* The server's handlers.                                                  *)

At(c, k, where) == server[c][k].at = where
Becomes(c, k, where) == server' = [server EXCEPT ![c][k].at = where]
Reply(c, k, status) == server' = [server EXCEPT ![c][k] = [Nothing EXCEPT !.at = status]]

\* A request of preparation c arrives; the middleware takes a permit or refuses.
Arrive(c, k, d, b) ==
  IF auth = 0 THEN Reply(c, k, "refused") /\ UNCHANGED auth
  ELSE /\ server' = [server EXCEPT ![c][k] = [at |-> "auth", digest |-> d, bytes |-> b]]
       /\ auth' = auth - 1

\* The token review fails, refuses or meets its deadline; or the pod is
\* shutting down and the handler refuses at once.
AuthRefused(c, k) ==
  /\ At(c, k, "auth") /\ auth' = auth + 1
  /\ Reply(c, k, "refused")
  /\ UNCHANGED <<store, ready, uploads, responses, preparation, impossible>>

\* get_module, entered when the token review allows it.
GetModule(c) ==
  LET d == server[c]["get"].digest IN
  /\ At(c, "get", "auth") /\ ready /\ auth' = auth + 1
  /\ \/ /\ d \notin DOMAIN entries
        /\ Reply(c, "get", "missing") /\ UNCHANGED <<recency, responses>>
     \/ /\ d \in DOMAIN entries /\ recency' = Touch(recency, d)
        /\ IF responses = 0 THEN Reply(c, "get", "refused") /\ UNCHANGED responses
           ELSE /\ responses' = responses - 1
                /\ server' = [server EXCEPT ![c]["get"].at = "sending",
                                            ![c]["get"].bytes = entries[d]]
  /\ UNCHANGED <<entries, bytes, ready, uploads, preparation, impossible>>

\* put_module up to its body.
PutModule(c) ==
  /\ At(c, "put", "auth") /\ ready /\ auth' = auth + 1
  /\ IF uploads = 0 THEN Reply(c, "put", "refused") /\ UNCHANGED uploads
     ELSE Becomes(c, "put", "body") /\ uploads' = uploads - 1
  /\ UNCHANGED <<store, ready, responses, preparation, impossible>>

\* The body arrives whole, damaged or not, is verified and stored.
ReceiveBody(c, damaged) ==
  LET d == server[c]["put"].digest
      b == IF damaged THEN Corrupt ELSE server[c]["put"].bytes IN
  /\ At(c, "put", "body") /\ uploads' = uploads + 1
  /\ IF Verified(d, b) THEN \E status \in {"ok", "refused"} :
                              Store(d, b, status) /\ Reply(c, "put", status)
     ELSE Reply(c, "put", "refused") /\ UNCHANGED <<store, impossible>>
  /\ UNCHANGED <<ready, auth, responses, preparation>>

\* The body breaks off or meets BODY_TIMEOUT.
BodyFails(c) ==
  /\ At(c, "put", "body") /\ uploads' = uploads + 1
  /\ Reply(c, "put", "refused")
  /\ UNCHANGED <<store, ready, auth, responses, preparation, impossible>>

\* The permits a request holds inside the server.
Holding(c, k, where) == IF At(c, k, where) THEN 1 ELSE 0

Leave(c, k) ==
  /\ server' = [server EXCEPT ![c][k] = Nothing]
  /\ auth' = auth + Holding(c, k, "auth")
  /\ uploads' = uploads + Holding(c, k, "body")
  /\ responses' = responses + Holding(c, k, "sending")

\* The connection is gone: the handler or the response it owns is dropped.
Dropped(c, k) ==
  /\ ~At(c, k, "none") /\ pc[c] # k
  /\ Leave(c, k)
  /\ UNCHANGED <<store, ready, preparation, impossible>>

-----------------------------------------------------------------------------
(* The preparation: manifest, cache lookup, fallback, compile, write back. *)

Goto(c, where) == pc' = [pc EXCEPT ![c] = where]

\* The manifest names digest d and the lookup is sent; without a readable
\* token the lookup fails and the registry is next.
Prepare(c, d) ==
  /\ pc[c] = "idle" /\ \A k \in Kinds : At(c, k, "none")
  /\ art' = [art EXCEPT ![c] = d] /\ UNCHANGED got
  /\ \/ Goto(c, "get") /\ Arrive(c, "get", d, Corrupt)
     \/ Goto(c, "pull") /\ UNCHANGED <<server, auth>>
  /\ UNCHANGED <<store, ready, uploads, responses, impossible>>

\* The lookup is answered with anything but a module.
LookupFails(c) ==
  /\ pc[c] = "get" /\ server[c]["get"].at \in {"missing", "refused"}
  /\ Goto(c, "pull") /\ Leave(c, "get")
  /\ UNCHANGED <<store, ready, art, got, impossible>>

\* Mutant: a cache hit is trusted.
LookupHitTrusted(c, damaged) ==
  /\ pc[c] = "get" /\ At(c, "get", "sending")
  /\ got' = [got EXCEPT ![c] = IF damaged THEN Corrupt ELSE server[c]["get"].bytes]
  /\ Goto(c, "hit") /\ Leave(c, "get")
  /\ UNCHANGED <<store, ready, art, impossible>>

\* The module arrives, damaged or not; a hit that does not verify is a miss.
LookupHit(c, damaged) ==
  LET b == IF damaged THEN Corrupt ELSE server[c]["get"].bytes IN
  /\ pc[c] = "get" /\ At(c, "get", "sending")
  /\ IF Verified(art[c], b) THEN Goto(c, "hit") /\ got' = [got EXCEPT ![c] = b]
     ELSE Goto(c, "pull") /\ UNCHANGED got
  /\ Leave(c, "get")
  /\ UNCHANGED <<store, ready, art, impossible>>

\* The registry's blob, damaged or not, or no blob: the preparation ends there
\* unless the bytes verify.
Pull(c, b) ==
  /\ pc[c] = "pull"
  /\ IF Verified(art[c], b) THEN Goto(c, "pulled") /\ got' = [got EXCEPT ![c] = b] /\ UNCHANGED art
     ELSE /\ Goto(c, "idle") /\ art' = [art EXCEPT ![c] = Corrupt] /\ UNCHANGED got
  /\ UNCHANGED <<store, ready, admission, server, impossible>>

\* A preparation ends; what it held is forgotten.
EndPreparation(c) ==
  /\ Goto(c, "idle")
  /\ art' = [art EXCEPT ![c] = Corrupt] /\ got' = [got EXCEPT ![c] = Corrupt]

\* Compilation ends the preparation of a hit, or of a pull that did not
\* compile, register or find a token.
Compiled(c) ==
  /\ pc[c] \in {"hit", "pulled"} /\ EndPreparation(c)
  /\ UNCHANGED <<store, ready, admission, server, impossible>>

\* What was pulled is written back.
WriteBack(c) ==
  /\ pc[c] = "pulled" /\ At(c, "put", "none")
  /\ Goto(c, "put") /\ Arrive(c, "put", art[c], got[c])
  /\ UNCHANGED <<store, ready, uploads, responses, art, got, impossible>>

WriteAnswered(c) ==
  /\ pc[c] = "put" /\ server[c]["put"].at \in {"ok", "refused"}
  /\ EndPreparation(c) /\ Leave(c, "put")
  /\ UNCHANGED <<store, ready, impossible>>

\* Mutant: the deadline covers the response head, not its body.
ClientTimesOutBeforeBody(c) ==
  /\ \/ pc[c] = "get" /\ ~At(c, "get", "sending") /\ Goto(c, "pull") /\ UNCHANGED <<art, got>>
     \/ pc[c] = "put" /\ EndPreparation(c)
  /\ UNCHANGED <<store, ready, admission, server, impossible>>

\* CACHE_TIMEOUT, or a broken connection: the client goes on, the server may
\* notice later.
ClientTimesOut(c) ==
  /\ \/ pc[c] = "get" /\ Goto(c, "pull") /\ UNCHANGED <<art, got>>
     \/ pc[c] = "put" /\ EndPreparation(c)
  /\ UNCHANGED <<store, ready, admission, server, impossible>>

-----------------------------------------------------------------------------
(* The pod's lifecycle: shutdown clears ready, a restart starts empty.     *)

Shutdown ==
  /\ ready /\ ready' = FALSE
  /\ UNCHANGED <<store, admission, server, preparation, impossible>>

Restart ==
  /\ ~ready /\ ready' = TRUE
  /\ entries' = << >> /\ recency' = << >> /\ bytes' = 0
  /\ auth' = MaxAuth /\ uploads' = MaxUploads /\ responses' = MaxResponses
  /\ server' = [c \in Clients |-> [k \in Kinds |->
                 [Nothing EXCEPT !.at = IF pc[c] = k THEN "refused" ELSE "none"]]]
  /\ UNCHANGED <<preparation, impossible>>

-----------------------------------------------------------------------------
CacheNext ==
  \/ \E c \in Clients :
       \/ \E d \in Artifacts : Prepare(c, d)
       \/ \E k \in Kinds : AuthRefused(c, k) \/ Dropped(c, k)
       \/ GetModule(c) \/ PutModule(c) \/ BodyFails(c)
       \/ \E damaged \in BOOLEAN : ReceiveBody(c, damaged) \/ LookupHit(c, damaged)
       \/ LookupFails(c) \/ \E b \in Contents : Pull(c, b)
       \/ Compiled(c) \/ WriteBack(c) \/ WriteAnswered(c) \/ ClientTimesOut(c)
  \/ Shutdown \/ Restart

CacheSpec == CacheInit /\ [][CacheNext]_cacheVars

\* Both deadlines of the client fire, and the server notices a lost connection.
FairCache ==
  /\ CacheSpec
  /\ \A c \in Clients : WF_cacheVars(ClientTimesOut(c) \/ \E k \in Kinds : Dropped(c, k))

-----------------------------------------------------------------------------
\* The store's three fields stay in step through touches, evictions, restarts
\* and uploads whose client has gone: every entry is queued for eviction
\* exactly once, the byte count is what the entries weigh, both limits hold,
\* permits are conserved, and the replies for a broken store never occur.
StoreInStep ==
  /\ CacheTypeOK
  /\ Range(recency) = DOMAIN entries /\ Len(recency) = Cardinality(DOMAIN entries)
  /\ bytes = MapThenSumSet(LAMBDA d : Size[d], DOMAIN entries)
  /\ bytes <= MaxBytes /\ Cardinality(DOMAIN entries) <= MaxEntries
  /\ LET Held(k, where) == Cardinality({c \in Clients : At(c, k, where)})
     IN /\ auth + Held("get", "auth") + Held("put", "auth") = MaxAuth
        /\ uploads + Held("put", "body") = MaxUploads
        /\ responses + Held("get", "sending") = MaxResponses
  /\ impossible = {}

\* Whatever the transport does to the bytes on the way in, on the way out or
\* from the registry, the compiler is only given the artifact its manifest named.
OnlyVerifiedCompiles ==
  /\ \A c \in Clients : pc[c] \in {"hit", "pulled", "put"} => got[c] = art[c]
  /\ \A d \in DOMAIN entries : entries[d] = d

\* A slow or dead peer does not keep a request, or the permit it holds, inside
\* the server for ever: no place of a request stays taken (p ~> ~p, as []<>~p).
RequestsEnd ==
  \A c \in Clients, k \in Kinds : []<>At(c, k, "none")
=============================================================================
