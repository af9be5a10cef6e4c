-------------------------- MODULE TmdbHealthProofs --------------------------
(***************************************************************************)
(* The breaker's fields agree, and a probe is a single one, for any number *)
(* of consumers and administrators, any threshold and any cooldowns.       *)
(***************************************************************************)
EXTENDS TmdbHealth, TLAPS

\* What the three properties need of the breaker, as one formula of the record:
\* once the circuit has opened, the failures stay counted and the next cooldown
\* is a doubled one until a success, an error of the configuration or a reload.
Sound(h) ==
    /\ h \in Health
    /\ h.open <=> h.state = "cooldown"
    /\ h.open => ~h.allowed
    /\ ~h.open => h.cooldown = 0
    /\ h.state \in {"ready", "probing"} => h.allowed
    /\ h.state \in {"unknown", "not_configured", "config_error"} => ~h.allowed
    /\ h.state \in {"cooldown", "probing"} =>
          h.failures = Threshold /\ h.nextCooldown >= Doubled(BaseCooldown)

\* A client is built only from a key that was read.
KeyRead ==
    /\ \A c \in Consumer : pc[c] \in {"cas", "won"} => loaded[c] \in Key
    /\ \A r \in Reloader : rpc[r] = "store" => loaded[r] \in Key

\* A consumer beyond the claim has a task left.
InBatch == \A c \in Consumer : pc[c] \notin {"gate", "claim"} => left[c] > 0

HealthInv == TypeOK /\ KeyRead /\ InBatch /\ Sound(health)

-----------------------------------------------------------------------------
\* The doubled cooldown stays between the base and the longest one, and grows
\* with the cooldown it doubles.
LEMMA DoubledType ==
    ASSUME NEW d \in BaseCooldown..MaxCooldown
    PROVE  /\ Doubled(d) \in BaseCooldown..MaxCooldown
           /\ Doubled(d) >= Doubled(BaseCooldown)
BY HealthAssumption DEF Doubled, Smaller

\* The cooldowns lie among the values the fields are declared with.
LEMMA Constants ==
    /\ BaseCooldown \in BaseCooldown..MaxCooldown
    /\ 0 \in 0..MaxCooldown
    /\ 0 \in 0..Threshold
    /\ Threshold \in 0..Threshold
    /\ BaseCooldown..MaxCooldown \subseteq 0..MaxCooldown
BY HealthAssumption

\* A success leaves a sound breaker.
LEMMA SuccessSound ==
    ASSUME NEW h, Sound(h)
    PROVE  Sound(NotedSuccess(h))
<1>1. NotedSuccess(h) \in Health
  BY Constants DEF Sound, NotedSuccess, Health, State
<1>2. h \in Health
  BY DEF Sound
<1> QED
  BY <1>1, <1>2 DEF Sound, NotedSuccess, Health

\* An error of the configuration leaves a sound breaker.
LEMMA ConfigErrorSound ==
    ASSUME NEW h, Sound(h), NEW s \in {"not_configured", "config_error"}
    PROVE  Sound(NotedConfigError(h, s))
<1>1. NotedConfigError(h, s) \in Health
  BY Constants DEF Sound, NotedConfigError, Health, State
<1>2. h \in Health
  BY DEF Sound
<1> QED
  BY <1>1, <1>2 DEF Sound, NotedConfigError, Health

\* Forgetting what is known of TMDB leaves a sound breaker.
LEMMA InvalidatedSound ==
    ASSUME NEW h, Sound(h)
    PROVE  Sound(Invalidated(h))
<1>1. Invalidated(h) \in Health
  BY Constants DEF Sound, Invalidated, Health, State
<1>2. h \in Health
  BY DEF Sound
<1> QED
  BY <1>1, <1>2 DEF Sound, Invalidated, Health

\* The end of a cooldown leaves a sound breaker.
LEMMA ProbedSound ==
    ASSUME NEW h, Sound(h)
    PROVE  Sound(Probed(h))
<1>1. Probed(h) \in Health
  BY Constants DEF Sound, Probed, Health, State
<1>2. h \in Health
  BY DEF Sound
<1> QED
  BY <1>1, <1>2 DEF Sound, Probed, Health

\* A failure leaves a sound breaker, whether it is counted, opens the circuit,
\* or comes in while the circuit is open.
LEMMA FailureSound ==
    ASSUME NEW h, Sound(h)
    PROVE  Sound(NotedFailure(h))
<1> DEFINE failures == Smaller(h.failures + 1, Threshold)
<1>1. h.failures \in 0..Threshold /\ h.nextCooldown \in BaseCooldown..MaxCooldown
  BY DEF Sound, Health
<1>2. failures \in 0..Threshold
  BY <1>1, HealthAssumption DEF Smaller
<1>3. CASE h.open
  BY <1>3 DEF NotedFailure
<1>4. CASE ~h.open /\ failures < Threshold
  <2>1. NotedFailure(h) = [h EXCEPT !.state = "degraded", !.failures = failures]
    BY <1>4 DEF NotedFailure
  <2>2. h.state # "probing" \/ failures = Threshold
    BY <1>1, HealthAssumption DEF Sound, Smaller
  <2>3. NotedFailure(h) \in Health
    BY <1>2, <2>1 DEF Sound, Health, State
  <2> QED
    BY <1>4, <2>1, <2>2, <2>3 DEF Sound, Health
<1>5. CASE ~h.open /\ ~(failures < Threshold)
  <2>1. NotedFailure(h) =
          [h EXCEPT !.state = "cooldown", !.allowed = FALSE, !.open = TRUE,
                    !.failures = failures, !.cooldown = h.nextCooldown,
                    !.nextCooldown = Doubled(@)]
    BY <1>5 DEF NotedFailure
  <2>2. failures = Threshold
    BY <1>2, <1>5, HealthAssumption
  <2>3. Doubled(h.nextCooldown) \in BaseCooldown..MaxCooldown
        /\ Doubled(h.nextCooldown) >= Doubled(BaseCooldown)
    BY <1>1, DoubledType
  <2>4. h.nextCooldown \in 0..MaxCooldown
    BY <1>1, Constants
  <2>5. NotedFailure(h) \in Health
    BY <1>2, <2>1, <2>3, <2>4 DEF Sound, Health, State
  <2> QED
    BY <2>1, <2>2, <2>3, <2>5 DEF Sound, Health
<1> QED
  BY <1>3, <1>4, <1>5

\* A tick of the cooldown leaves a sound breaker.
LEMMA TickSound ==
    ASSUME NEW h, Sound(h), h.cooldown > 0
    PROVE  Sound([h EXCEPT !.cooldown = @ - 1])
<1>1. h \in Health /\ h.cooldown - 1 \in 0..MaxCooldown
  BY HealthAssumption DEF Sound, Health
<1> QED
  BY <1>1 DEF Sound, Health

-----------------------------------------------------------------------------
\* What a process starts with is a sound breaker.
LEMMA StartedSound == Sound(Started.health)
<1>1. Started.health \in Health
  BY Constants DEF Started, Health, State
<1> QED
  BY <1>1 DEF Started, Sound

\* The worker starts sound.
LEMMA InitHealth == Init => HealthInv
<1> SUFFICES ASSUME Init PROVE HealthInv
  OBVIOUS
<1>1. Sound(health)
  BY StartedSound DEF Init
<1>2. health \in Health
  BY <1>1 DEF Sound
<1>3. TypeOK
  BY <1>2, HealthAssumption DEF Init, Started, TypeOK
<1>4. KeyRead
  BY HealthAssumption DEF Init, Started, KeyRead
<1>5. InBatch
  BY DEF Init, Started, InBatch
<1> QED
  BY <1>1, <1>3, <1>4, <1>5 DEF HealthInv

\* A step of a consumer keeps the breaker sound.
LEMMA WorkHealth ==
    ASSUME HealthInv, NEW c \in Consumer, Work(c)
    PROVE  HealthInv'
<1> USE DEF HealthInv
<1>1. Sound(health)'
  <2>1. CASE PassGate(c)
    BY <2>1, ProbedSound DEF PassGate
  <2>2. CASE UseOwnClient(c) \/ NoteAnswer(c)
    BY <2>2, SuccessSound DEF UseOwnClient, NoteAnswer
  <2>3. CASE NoteMissing(c) \/ NoteUnreadable(c)
    BY <2>3, ConfigErrorSound DEF NoteMissing, NoteUnreadable
  <2>4. CASE NoteFailure(c)
    BY <2>4, FailureSound DEF NoteFailure
  <2>5. CASE Panic(c)
    BY <2>5, StartedSound DEF Panic
  <2>6. CASE UNCHANGED health
    BY <2>6
  <2> QED
    BY <2>1, <2>2, <2>3, <2>4, <2>5, <2>6
    DEF Work, ClaimRemote, LoadClient, ReadConfig, ReadConfigFails,
        PublishClient, UseOtherClient, Call, SkipCall, NextTask
<1>2. TypeOK' /\ KeyRead' /\ InBatch'
  <2> USE HealthAssumption DEF TypeOK, KeyRead, InBatch
  <2>0. health' \in Health
    BY <1>1 DEF Sound
  <2>1. CASE PassGate(c)
    BY <2>0, <2>1 DEF PassGate
  <2>2. CASE ClaimRemote(c)
    BY <2>0, <2>2 DEF ClaimRemote
  <2>3. CASE LoadClient(c)
    BY <2>0, <2>3 DEF LoadClient
  <2>4. CASE ReadConfig(c)
    BY <2>0, <2>4 DEF ReadConfig
  <2>5. CASE ReadConfigFails(c)
    BY <2>0, <2>5 DEF ReadConfigFails
  <2>6. CASE PublishClient(c)
    BY <2>0, <2>6 DEF PublishClient
  <2>7. CASE UseOwnClient(c)
    BY <2>0, <2>7 DEF UseOwnClient
  <2>8. CASE UseOtherClient(c)
    BY <2>0, <2>8 DEF UseOtherClient
  <2>9. CASE NoteMissing(c) \/ NoteUnreadable(c) \/ NoteAnswer(c) \/ NoteFailure(c)
    BY <2>0, <2>9 DEF NoteMissing, NoteUnreadable, NoteAnswer, NoteFailure
  <2>10. CASE Call(c) \/ SkipCall(c)
    BY <2>0, <2>10 DEF Call, SkipCall
  <2>11. CASE NextTask(c)
    BY <2>0, <2>11 DEF NextTask
  <2>12. CASE Panic(c)
    BY <2>0, <2>12 DEF Panic, Started
  <2> QED
    BY <2>1, <2>2, <2>3, <2>4, <2>5, <2>6, <2>7, <2>8, <2>9, <2>10, <2>11, <2>12
    DEF Work
<1> QED
  BY <1>1, <1>2

\* A step of a reload, or of the admin handler, keeps the breaker sound.
LEMMA ReloadHealth ==
    ASSUME HealthInv, NEW r \in Reloader, Reload(r) \/ AdminInvalidate(r)
    PROVE  HealthInv'
<1> USE DEF HealthInv
<1>1. Sound(health)'
  <2>1. CASE NoteInvalidated(r)
    BY <2>1, InvalidatedSound DEF NoteInvalidated
  <2>2. CASE ReloadNote(r)
    BY <2>2, SuccessSound, ConfigErrorSound DEF ReloadNote
  <2>3. CASE UNCHANGED health
    BY <2>3
  <2> QED
    BY <2>1, <2>2, <2>3 DEF Reload, AdminInvalidate, ReloadRead, ReloadStore
<1>2. TypeOK' /\ KeyRead' /\ InBatch'
  <2> USE HealthAssumption DEF TypeOK, KeyRead, InBatch
  <2>0. health' \in Health
    BY <1>1 DEF Sound
  <2>1. CASE AdminInvalidate(r)
    BY <2>0, <2>1 DEF AdminInvalidate
  <2>2. CASE NoteInvalidated(r)
    BY <2>0, <2>2 DEF NoteInvalidated
  <2>3. CASE ReloadRead(r)
    BY <2>0, <2>3 DEF ReloadRead
  <2>4. CASE ReloadStore(r)
    BY <2>0, <2>4 DEF ReloadStore
  <2>5. CASE ReloadNote(r)
    BY <2>0, <2>5 DEF ReloadNote
  <2> QED
    BY <2>1, <2>2, <2>3, <2>4, <2>5 DEF Reload
<1> QED
  BY <1>1, <1>2

\* Every step keeps the breaker sound.
LEMMA NextHealth == HealthInv /\ [Next]_vars => HealthInv'
<1> SUFFICES ASSUME HealthInv, [Next]_vars PROVE HealthInv'
  OBVIOUS
<1>1. CASE \E c \in Consumer : Work(c)
  BY <1>1, WorkHealth
<1>2. CASE \E r \in Reloader : Reload(r) \/ AdminInvalidate(r)
  BY <1>2, ReloadHealth
<1>3. CASE Watch
  BY <1>3, HealthAssumption
  DEF Watch, HealthInv, TypeOK, KeyRead, InBatch, Sound
<1>4. CASE Tick
  <2>1. Sound(health)'
    BY <1>4, TickSound DEF Tick, HealthInv
  <2> QED
    BY <1>4, <2>1 DEF Tick, HealthInv, TypeOK, KeyRead, InBatch, Sound
<1>5. CASE \E v \in Key \cup {NoKey} : SetConfig(v)
  BY <1>5 DEF SetConfig, HealthInv, TypeOK, KeyRead, InBatch, Sound
<1>6. CASE UNCHANGED vars
  BY <1>6 DEF vars, HealthInv, TypeOK, KeyRead, InBatch, Sound
<1> QED
  BY <1>1, <1>2, <1>3, <1>4, <1>5, <1>6 DEF Next

-----------------------------------------------------------------------------
\* The inductive invariant holds in every behaviour of the worker.
THEOREM HealthHolds == Spec => []HealthInv
BY InitHealth, NextHealth, PTL DEF Spec

\* The state of the breaker and its goroutines stays well typed.
THEOREM HealthTyped == Spec => []TypeOK
<1>1. HealthInv => TypeOK
  BY DEF HealthInv
<1> QED
  BY <1>1, HealthHolds, PTL

\* The fields of the breaker agree, whatever goroutines write them.
THEOREM BreakerAlwaysAgrees == Spec => []BreakerAgrees
<1>1. HealthInv => BreakerAgrees
  BY DEF HealthInv, Sound, BreakerAgrees
<1> QED
  BY <1>1, HealthHolds, PTL

\* A circuit that is probing opens at the first failure, for a doubled cooldown.
THEOREM ProbeAlwaysSingle == Spec => []ProbeIsSingle
<1>1. HealthInv => ProbeIsSingle
  <2> SUFFICES ASSUME HealthInv, health.state = "probing"
               PROVE  NotedFailure(health).open
                      /\ NotedFailure(health).cooldown >= Doubled(BaseCooldown)
    BY DEF ProbeIsSingle
  <2>1. /\ health \in Health
        /\ ~health.open
        /\ health.failures = Threshold
        /\ health.nextCooldown >= Doubled(BaseCooldown)
    BY DEF HealthInv, Sound
  <2>2. ~(Smaller(health.failures + 1, Threshold) < Threshold)
    BY <2>1, HealthAssumption DEF Smaller
  <2> QED
    BY <2>1, <2>2 DEF NotedFailure, Health
<1> QED
  BY <1>1, HealthHolds, PTL
=============================================================================
