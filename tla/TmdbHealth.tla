----------------------------- MODULE TmdbHealth -----------------------------
(***************************************************************************)
(* The scrape worker's view of TMDB: the circuit breaker that lets remote  *)
(* tasks be claimed, the cached client, and the configuration it is built  *)
(* from.  Consumers pass the gate, claim remote tasks, get a client and    *)
(* note how the call went; the watcher (watchConfig, and Run at startup)   *)
(* and the admin handler reload the client; the configuration changes      *)
(* under all of them.                                                      *)
(*                                                                         *)
(* One action is one critical section of runtimeMu, one operation on the   *)
(* atomic pointer, or one read of the configuration.  The failure counter  *)
(* stops at the threshold: nothing compares it beyond.  A local variable   *)
(* is forgotten with its last use.  circuitLevel is used for one thing,    *)
(* the length of the next cooldown, and stands here as that length.        *)
(***************************************************************************)
EXTENDS Naturals

CONSTANTS
    Consumer,      \* goroutines of the scrape worker
    Reloader,      \* callers of ReloadTmdbClient
    Watcher,       \* the one among them that is watchConfig
    Key,           \* api keys an administrator may configure
    NoKey,         \* no api key is configured
    NoClient,      \* the nil client
    Threshold,     \* tmdbCircuitFailureThreshold
    BaseCooldown,  \* tmdbCircuitBaseCooldown, in ticks
    MaxCooldown,   \* tmdbCircuitMaxCooldown, in ticks
    MaxBatch       \* the most remote tasks a claim brings (scrapeClaimBatch)

ASSUME HealthAssumption ==
    /\ Watcher \in Reloader
    /\ Consumer \cap Reloader = {}
    /\ NoKey \notin Key
    /\ NoClient \notin Key
    /\ Threshold \in Nat \ {0}
    /\ BaseCooldown \in Nat \ {0}
    /\ MaxCooldown \in Nat
    /\ BaseCooldown <= MaxCooldown
    /\ MaxBatch \in Nat \ {0}

VARIABLES
    config,    \* system_config.tmdb_api_key
    cached,    \* cachedClient: the key of the client, or NoClient
    health,    \* runtime: the breaker, one record under runtimeMu
    pc,        \* where a consumer is
    left,      \* the remote tasks left of its batch, the current one included
    client,    \* the client it got hold of
    rpc,       \* where a reloader is
    loaded     \* the key a consumer or a reloader read from config

vars == <<config, cached, health, pc, left, client, rpc, loaded>>
workerVars == <<pc, left, client>>

\* runtime.tmdbState.
State == {"unknown", "ready", "degraded", "cooldown", "probing",
          "not_configured", "config_error"}

Health == [state : State, allowed : BOOLEAN, open : BOOLEAN,
           cooldown : 0..MaxCooldown, failures : 0..Threshold,
           nextCooldown : BaseCooldown..MaxCooldown]

Smaller(a, b) == IF a <= b THEN a ELSE b

-----------------------------------------------------------------------------
(* The critical sections of runtimeMu, as functions of the record.         *)

NotedSuccess(h) ==
    [h EXCEPT !.state = "ready", !.allowed = TRUE, !.open = FALSE,
              !.cooldown = 0, !.failures = 0,
              !.nextCooldown = BaseCooldown]

NotedConfigError(h, state) ==
    [h EXCEPT !.state = state, !.allowed = FALSE, !.open = FALSE,
              !.cooldown = 0, !.failures = 0,
              !.nextCooldown = BaseCooldown]

Invalidated(h) ==
    [h EXCEPT !.state = "unknown", !.allowed = FALSE, !.open = FALSE,
              !.cooldown = 0]

Doubled_Unclamped(cooldown) == 2 * cooldown

Doubled(cooldown) == Smaller(2 * cooldown, MaxCooldown)

\* Failures that come in while the circuit is open are not counted.
NotedFailure(h) ==
    LET failures == Smaller(h.failures + 1, Threshold)
        tripped  == [h EXCEPT !.state = "cooldown", !.allowed = FALSE,
                              !.open = TRUE, !.failures = failures,
                              !.cooldown = h.nextCooldown,
                              !.nextCooldown = Doubled(@)]
    IN  IF h.open THEN h
        ELSE IF failures < Threshold
          THEN [h EXCEPT !.state = "degraded", !.failures = failures]
          ELSE tripped

Probed_StillOpen(h) ==
    IF h.open /\ h.cooldown = 0
      THEN [h EXCEPT !.allowed = TRUE, !.state = "probing"] ELSE h

Probed_Never(h) == h

\* remoteClaimsAllowed: the end of the cooldown lets the claims in again,
\* the failures stay counted.
Probed(h) ==
    IF h.open /\ h.cooldown = 0
      THEN [h EXCEPT !.open = FALSE, !.allowed = TRUE, !.state = "probing"]
      ELSE h

ReloadWanted(h) == h.state \in {"not_configured", "config_error", "unknown"}

-----------------------------------------------------------------------------
(* A process starts with nothing in memory and with a reload by Run.        *)
Started ==
    [cached |-> NoClient,
     health |-> [state |-> "unknown", allowed |-> FALSE, open |-> FALSE,
                 cooldown |-> 0, failures |-> 0,
                 nextCooldown |-> BaseCooldown],
     pc     |-> [c \in Consumer |-> "gate"],
     left   |-> [c \in Consumer |-> 0],
     client |-> [c \in Consumer |-> NoClient],
     rpc    |-> [r \in Reloader |-> IF r = Watcher THEN "read" ELSE "idle"],
     loaded |-> [p \in Consumer \cup Reloader |-> NoKey]]

Init ==
    /\ config \in Key \cup {NoKey}
    /\ cached = Started.cached
    /\ health = Started.health
    /\ pc = Started.pc
    /\ left = Started.left
    /\ client = Started.client
    /\ rpc = Started.rpc
    /\ loaded = Started.loaded

SetConfig(v) ==
    /\ v # config
    /\ config' = v
    /\ UNCHANGED <<cached, health, pc, left, client, rpc, loaded>>

Tick ==
    /\ health.cooldown > 0
    /\ health' = [health EXCEPT !.cooldown = @ - 1]
    /\ UNCHANGED <<config, cached, pc, left, client, rpc, loaded>>

-----------------------------------------------------------------------------
(* A consumer: claim, tmdbClient, runTask.                                 *)

\* Without the permission the consumer goes on polling for local tasks.
PassGate(c) ==
    /\ pc[c] = "gate"
    /\ health' = Probed(health)
    /\ pc' = [pc EXCEPT ![c] = IF health'.allowed THEN "claim" ELSE "gate"]
    /\ health' # health \/ pc' # pc
    /\ UNCHANGED <<config, cached, left, client, rpc, loaded>>

\* The claim uses the permission read before; it may bring no remote task.
ClaimRemote(c) ==
    /\ pc[c] = "claim"
    /\ \E n \in 0..MaxBatch :
          /\ left' = [left EXCEPT ![c] = n]
          /\ pc' = [pc EXCEPT ![c] = IF n = 0 THEN "gate" ELSE "load"]
    /\ UNCHANGED <<config, cached, health, client, rpc, loaded>>

\* cachedClient.Load in tmdbClient.
LoadClient(c) ==
    /\ pc[c] = "load"
    /\ client' = [client EXCEPT ![c] = cached]
    /\ pc' = [pc EXCEPT ![c] = IF cached = NoClient THEN "read" ELSE "call"]
    /\ UNCHANGED <<config, cached, health, left, rpc, loaded>>

ReadConfig(c) ==
    /\ pc[c] = "read"
    /\ config # NoKey
    /\ loaded' = [loaded EXCEPT ![c] = config]
    /\ pc' = [pc EXCEPT ![c] = "cas"]
    /\ UNCHANGED <<config, cached, health, left, client, rpc>>

\* The key is missing, or system_config cannot be read.
ReadConfigFails(c) ==
    /\ pc[c] = "read"
    /\ \/ /\ config = NoKey
          /\ pc' = [pc EXCEPT ![c] = "unconfigured"]
       \/ pc' = [pc EXCEPT ![c] = "unreadable"]
    /\ UNCHANGED <<config, cached, health, left, client, rpc, loaded>>

PublishClient(c) ==
    /\ pc[c] = "cas"
    /\ pc' = [pc EXCEPT ![c] = IF cached = NoClient THEN "won" ELSE "lost"]
    /\ cached' = IF cached = NoClient THEN loaded[c] ELSE cached
    /\ UNCHANGED <<config, health, left, client, rpc, loaded>>

\* The winner notes a success and uses the client it built.
UseOwnClient(c) ==
    /\ pc[c] = "won"
    /\ health' = NotedSuccess(health)
    /\ client' = [client EXCEPT ![c] = loaded[c]]
    /\ loaded' = [loaded EXCEPT ![c] = NoKey]
    /\ pc' = [pc EXCEPT ![c] = "call"]
    /\ UNCHANGED <<config, cached, left, rpc>>

\* The loser loads the pointer a second time; a client dropped in between is
\* nil, and comes without an error.
UseOtherClient(c) ==
    /\ pc[c] = "lost"
    /\ client' = [client EXCEPT ![c] = cached]
    /\ loaded' = [loaded EXCEPT ![c] = NoKey]
    /\ pc' = [pc EXCEPT ![c] = "call"]
    /\ UNCHANGED <<config, cached, health, left, rpc>>

\* noteTMDBConfigError in tmdbClient; a missing key is fatal for the task and
\* not noted again, an unreadable configuration is noted as a failure too.
NoteMissing(c) ==
    /\ pc[c] = "unconfigured"
    /\ health' = NotedConfigError(health, "not_configured")
    /\ pc' = [pc EXCEPT ![c] = "next"]
    /\ UNCHANGED <<config, cached, left, client, rpc, loaded>>

NoteUnreadable(c) ==
    /\ pc[c] = "unreadable"
    /\ health' = NotedConfigError(health, "config_error")
    /\ pc' = [pc EXCEPT ![c] = "failed"]
    /\ UNCHANGED <<config, cached, left, client, rpc, loaded>>

\* The call itself.  It ends well, in a definite answer (no match, 404), or in
\* an error that will be retried; both may happen before the client is used.
Call(c) ==
    /\ pc[c] = "call"
    /\ pc' = [pc EXCEPT ![c] = "answered"] \/ pc' = [pc EXCEPT ![c] = "failed"]
    /\ client' = [client EXCEPT ![c] = NoClient]
    /\ UNCHANGED <<config, cached, health, left, rpc, loaded>>

\* A task that does use a nil client panics, and no consumer recovers: the
\* process ends and starts again, with what system_config holds.
Panic(c) ==
    /\ pc[c] = "call"
    /\ client[c] = NoClient
    /\ cached' = Started.cached
    /\ health' = Started.health
    /\ pc' = Started.pc
    /\ left' = Started.left
    /\ client' = Started.client
    /\ rpc' = Started.rpc
    /\ loaded' = Started.loaded
    /\ UNCHANGED config

\* backfill_episode_image with the download switched off is done without a
\* client and counts as an answer.
SkipCall(c) ==
    /\ pc[c] = "load"
    /\ pc' = [pc EXCEPT ![c] = "answered"]
    /\ UNCHANGED <<config, cached, health, left, client, rpc, loaded>>

NoteAnswer(c) ==
    /\ pc[c] = "answered"
    /\ health' = NotedSuccess(health)
    /\ pc' = [pc EXCEPT ![c] = "next"]
    /\ UNCHANGED <<config, cached, left, client, rpc, loaded>>

NoteFailure(c) ==
    /\ pc[c] = "failed"
    /\ health' = NotedFailure(health)
    /\ pc' = [pc EXCEPT ![c] = "next"]
    /\ UNCHANGED <<config, cached, left, client, rpc, loaded>>

\* The rest of the batch is worked off without passing the gate again.  (A
\* batch abandoned on a resize or a failed state write is a shorter batch.)
NextTask(c) ==
    /\ pc[c] = "next"
    /\ left' = [left EXCEPT ![c] = @ - 1]
    /\ pc' = [pc EXCEPT ![c] = IF left[c] = 1 THEN "gate" ELSE "load"]
    /\ UNCHANGED <<config, cached, health, client, rpc, loaded>>

-----------------------------------------------------------------------------
(* ReloadTmdbClient and InvalidateCachedClient.                            *)

Watch ==
    /\ rpc[Watcher] = "idle"
    /\ ReloadWanted(health)
    /\ rpc' = [rpc EXCEPT ![Watcher] = "read"]
    /\ UNCHANGED <<config, cached, health, pc, left, client, loaded>>

\* The admin handler drops the client first ...
AdminInvalidate(r) ==
    /\ r # Watcher
    /\ rpc[r] = "idle"
    /\ cached' = NoClient
    /\ rpc' = [rpc EXCEPT ![r] = "dropped"]
    /\ UNCHANGED <<config, health, pc, left, client, loaded>>

\* ... then forgets what it knew of TMDB, and reloads.
NoteInvalidated(r) ==
    /\ rpc[r] = "dropped"
    /\ health' = Invalidated(health)
    /\ rpc' = [rpc EXCEPT ![r] = "read"]
    /\ UNCHANGED <<config, cached, pc, left, client, loaded>>

ReloadRead(r) ==
    /\ rpc[r] = "read"
    /\ \/ /\ loaded' = [loaded EXCEPT ![r] = config]
          /\ rpc' = [rpc EXCEPT ![r] = IF config = NoKey THEN "missing"
                                                         ELSE "store"]
       \/ /\ rpc' = [rpc EXCEPT ![r] = "unreadable"]
          /\ UNCHANGED loaded
    /\ UNCHANGED <<config, cached, health, pc, left, client>>

ReloadStore(r) ==
    /\ rpc[r] \in {"store", "missing", "unreadable"}
    /\ cached' = IF rpc[r] = "store" THEN loaded[r] ELSE NoClient
    /\ rpc' = [rpc EXCEPT ![r] =
                 CASE @ = "store"      -> "note"
                   [] @ = "missing"    -> "noteMissing"
                   [] @ = "unreadable" -> "noteUnreadable"]
    /\ UNCHANGED <<config, health, pc, left, client, loaded>>

ReloadNote(r) ==
    /\ \/ rpc[r] = "note" /\ health' = NotedSuccess(health)
       \/ rpc[r] = "noteMissing"
          /\ health' = NotedConfigError(health, "not_configured")
       \/ rpc[r] = "noteUnreadable"
          /\ health' = NotedConfigError(health, "config_error")
    /\ rpc' = [rpc EXCEPT ![r] = "idle"]
    /\ loaded' = [loaded EXCEPT ![r] = NoKey]
    /\ UNCHANGED <<config, cached, pc, left, client>>

-----------------------------------------------------------------------------
Work(c) ==
    \/ PassGate(c) \/ ClaimRemote(c)
    \/ LoadClient(c) \/ ReadConfig(c) \/ ReadConfigFails(c)
    \/ PublishClient(c) \/ UseOwnClient(c) \/ UseOtherClient(c)
    \/ NoteMissing(c) \/ NoteUnreadable(c)
    \/ Call(c) \/ Panic(c) \/ SkipCall(c)
    \/ NoteAnswer(c) \/ NoteFailure(c) \/ NextTask(c)

Reload(r) == NoteInvalidated(r) \/ ReloadRead(r) \/ ReloadStore(r) \/ ReloadNote(r)

Next ==
    \/ \E c \in Consumer : Work(c)
    \/ \E r \in Reloader : Reload(r) \/ AdminInvalidate(r)
    \/ Watch
    \/ Tick
    \/ \E v \in Key \cup {NoKey} : SetConfig(v)

Spec == Init /\ [][Next]_vars

-----------------------------------------------------------------------------
(* Fairness: the goroutines run, time passes, and the watcher's ticker     *)
(* fires.  Nobody has to call the admin handler or change the              *)
(* configuration.                                                          *)
Fairness ==
    /\ WF_vars(Tick)
    /\ WF_vars(Watch)
    /\ \A c \in Consumer : WF_vars(Work(c))
    /\ \A r \in Reloader : WF_vars(Reload(r))

\* A key is configured, and it can be read.
Readable ==
    /\ config # NoKey
    /\ \A c \in Consumer : pc[c] \notin {"unconfigured", "unreadable"}
    /\ \A r \in Reloader :
          rpc[r] \notin {"missing", "noteMissing", "unreadable", "noteUnreadable"}

FairSpec == Spec /\ Fairness

-----------------------------------------------------------------------------
(* The state of the breaker, the cached client and the goroutines is well  *)
(* typed; in particular no cooldown is longer than tmdbCircuitMaxCooldown. *)
TypeOK ==
    /\ config \in Key \cup {NoKey}
    /\ cached \in Key \cup {NoClient}
    /\ health \in Health
    /\ pc \in [Consumer -> {"gate", "claim", "load", "read", "cas", "won",
                            "lost", "unconfigured", "unreadable", "call",
                            "answered", "failed", "next"}]
    /\ left \in [Consumer -> 0..MaxBatch]
    /\ client \in [Consumer -> Key \cup {NoClient}]
    /\ rpc \in [Reloader -> {"idle", "dropped", "read", "store", "missing",
                             "unreadable", "note", "noteMissing",
                             "noteUnreadable"}]
    /\ loaded \in [Consumer \cup Reloader -> Key \cup {NoKey}]

\* The five fields of the breaker agree with one another, whatever the order
\* in which consumers, reloads and the admin handler wrote them: an open
\* circuit lets no claim in and always has its failures counted, a closed one
\* has no cooldown left over.
BreakerAgrees ==
    /\ health.open <=> health.state = "cooldown"
    /\ health.open => ~health.allowed /\ health.failures = Threshold
    /\ ~health.open => health.cooldown = 0
    /\ health.state \in {"ready", "probing"} => health.allowed
    /\ health.state \in {"unknown", "not_configured", "config_error"} =>
          ~health.allowed

\* One failure is enough to open the circuit again while it is probing, and
\* the cooldown that follows is longer than the first one was.
ProbeIsSingle ==
    health.state = "probing" =>
        LET after == NotedFailure(health)
        IN  after.open /\ after.cooldown >= Doubled(BaseCooldown)

\* A consumer that lost the race for the client uses the one the winner set
\* (comment at scrape_worker.go:476), never none.
CallHasClient == \A c \in Consumer : pc[c] = "call" => client[c] # NoClient

\* As long as the configuration is there and can be read, remote claims are
\* allowed again and again, whatever TMDB answers and whatever is reloaded.
ClaimsResume == []Readable => []<>health.allowed

\* The same once the configuration can be read again: a spell in which it was
\* missing or unreadable is over when it ends.
ClaimsRecover == <>[]Readable => []<>health.allowed

=============================================================================
