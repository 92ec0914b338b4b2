-------------------------- MODULE LifecycleProofs ---------------------------
(***************************************************************************)
(* Proofs about Lifecycle for any environments, installed packages, bounds *)
(* and number of concurrent requests to /ready.                            *)
(***************************************************************************)
EXTENDS Lifecycle, TLAPS

\* How many resources were closed, in each phase.
ClosingFits ==
    /\ phase = "close" => closing < Len(CloseOrder)
    /\ phase = "stopped" => closing = Len(CloseOrder)
    /\ phase \notin {"close", "stopped", "failed"} => closing = 0

\* The resources closed, be it in this phase or before, are not open.
ClosedAreNotHeld == \A k \in 1 .. Len(CloseOrder) : k <= closing => CloseOrder[k] \notin held

\* The dependencies a check may have failed for.
Failing(r) == probe[r].wasDown \cup probe[r].raised \cup Unusable

\* What a request to /ready has seen and, while it is under way, sees.
SawTheTruth(r) ==
    LET p == probe[r] IN
    /\ p.ok \subseteq p.wasUp
    /\ Pending(r) => up \subseteq p.wasUp /\ Dependencies \ up \subseteq p.wasDown
    /\ \A k \in 1 .. Len(CheckOrder) : k < p.at => CheckOrder[k] \in p.ok \cup Failing(r)
    /\ p.status # 0 => p.at = Len(CheckOrder) + 1
    /\ p.status = 200 => p.ok = Dependencies

\* What is instrumented: never a part alone, and from the import to the end of the
\* lifespan what the settings and the packages say.
TracedFits ==
    /\ traced \ {"provider"} # {} => {"provider", "fastapi"} \subseteq traced
    /\ phase = "build" => traced = Instrumented(Settings(env))
    /\ phase \in {"init", "inventory", "serving"} =>
        traced = Instrumented(Settings(env)) \cup EngineTraced(Settings(env))

IInv ==
    /\ TypeOK /\ ClosingFits /\ ClosedAreNotHeld /\ TracedFits
    /\ \A r \in Probes : SawTheTruth(r)

ProbeRecord ==
    [at : 0 .. Len(CheckOrder) + 1, ok : SUBSET Dependencies, status : {0, 200, 503},
     wasUp : SUBSET Dependencies, wasDown : SUBSET Dependencies, raised : SUBSET Dependencies]

\* The orders, spelt out.
LEMMA Orders ==
    /\ Len(CheckOrder) = 3 /\ Len(CloseOrder) = 5
    /\ CheckOrder[1] = "postgres" /\ CheckOrder[2] = "redis" /\ CheckOrder[3] = "celery_broker"
    /\ \A k \in 1 .. 3 : CheckOrder[k] \in Dependencies
    /\ Dependencies = {CheckOrder[k] : k \in 1 .. 3}
    /\ \A c \in {"repository", "http_client", "rate_limiter", "cache"} :
        \E k \in 1 .. 5 : CloseOrder[k] = c
BY DEF CheckOrder, CloseOrder, Dependencies

LEMMA NoProbeTyped ==
    /\ NoProbe \in ProbeRecord /\ NoProbe.at = 0 /\ NoProbe.status = 0
    /\ NoProbe.ok = {} /\ NoProbe.wasUp = {} /\ NoProbe.wasDown = {} /\ NoProbe.raised = {}
BY Orders DEF NoProbe, Asked, ProbeRecord

LEMMA InitIInv ==
    ASSUME Init
    PROVE  IInv
<1>1. TypeOK
  BY NoProbeTyped, LifecycleAssumption, Orders DEF Init, TypeOK, ProbeRecord, Pending
<1>2. ClosingFits /\ ClosedAreNotHeld /\ TracedFits
  BY DEF Init, ClosingFits, ClosedAreNotHeld, TracedFits
<1>3. \A r \in Probes : SawTheTruth(r)
  BY NoProbeTyped, Orders DEF Init, SawTheTruth, Pending
<1> QED BY <1>1, <1>2, <1>3 DEF IInv

-----------------------------------------------------------------------------
(***************************************************************************)
(* Requests to /ready.                                                     *)
(***************************************************************************)

\* Steps that leave the requests alone, and the dependencies.
LEMMA ProbesUntouched ==
    ASSUME IInv, UNCHANGED <<env, up, probe>>
    PROVE  \A r \in Probes : SawTheTruth(r)'
BY DEF IInv, SawTheTruth, Pending, Failing, Unusable

LEMMA KillProbes ==
    ASSUME IInv, Kill
    PROVE  \A r \in Probes : SawTheTruth(r)'
BY NoProbeTyped, Orders DEF Kill, SawTheTruth, Pending

LEMMA FlipProbes ==
    ASSUME IInv, NEW d \in Dependencies, Flip(d)
    PROVE  /\ up' \subseteq Dependencies
           /\ probe' \in [Probes -> ProbeRecord]
           /\ \A r \in Probes : SawTheTruth(r)' /\ probe'[r].at = probe[r].at
<1>1. up' \subseteq Dependencies
  BY DEF Flip, IInv, TypeOK
<1>0. Unusable' = Unusable
  BY DEF Flip, Unusable
<1>2. ASSUME NEW r \in Probes, ~Pending(r)
      PROVE  /\ probe'[r] = probe[r] /\ probe'[r] \in ProbeRecord /\ SawTheTruth(r)'
  <2>1. probe'[r] = probe[r]
    BY <1>2 DEF Flip
  <2> QED BY <1>0, <1>2, <2>1 DEF IInv, TypeOK, ProbeRecord, SawTheTruth, Pending, Failing
<1>3. ASSUME NEW r \in Probes, Pending(r)
      PROVE  /\ probe'[r].at = probe[r].at /\ probe'[r] \in ProbeRecord /\ SawTheTruth(r)'
  <2>1. probe[r] \in ProbeRecord
    BY DEF IInv, TypeOK, ProbeRecord
  <2>2. probe'[r] = Asked(probe[r].at, probe[r].ok, probe[r].status,
                          probe[r].wasUp \cup up', probe[r].wasDown \cup (Dependencies \ up'),
                          probe[r].raised)
    BY <1>3 DEF Flip
  <2>3. /\ probe'[r].at = probe[r].at /\ probe'[r].ok = probe[r].ok
        /\ probe'[r].status = probe[r].status
        /\ probe'[r].wasUp = probe[r].wasUp \cup up'
        /\ probe'[r].wasDown = probe[r].wasDown \cup (Dependencies \ up')
        /\ probe'[r].raised = probe[r].raised
        /\ probe'[r] \in ProbeRecord
    BY <1>1, <2>1, <2>2 DEF ProbeRecord, Asked
  <2>4. SawTheTruth(r)
    BY DEF IInv
  <2> QED BY <1>0, <2>3, <2>4 DEF SawTheTruth, Pending, Failing
<1>4. probe' \in [Probes -> ProbeRecord]
  <2>1. probe' = [r \in Probes |-> probe'[r]]
    BY DEF Flip
  <2> QED BY <1>2, <1>3, <2>1
<1> QED BY <1>1, <1>2, <1>3, <1>4

LEMMA AskProbes ==
    ASSUME IInv, NEW r \in Probes, Ask(r)
    PROVE  /\ probe' \in [Probes -> ProbeRecord]
           /\ \A q \in Probes : SawTheTruth(q)'
<1> DEFINE p == Asked(1, {}, 0, up, Dependencies \ up, {})
<1>1. /\ p \in ProbeRecord /\ p.at = 1 /\ p.ok = {} /\ p.status = 0
      /\ p.wasUp = up /\ p.wasDown = Dependencies \ up
  BY Orders DEF Asked, ProbeRecord, IInv, TypeOK
<1>2. probe' = [probe EXCEPT ![r] = p] /\ up' = up /\ Unusable' = Unusable
  BY DEF Ask, world, surroundings, Unusable
<1>3. probe \in [Probes -> ProbeRecord]
  BY DEF IInv, TypeOK, ProbeRecord
<1> HIDE DEF p
<1>4. probe'[r] = p /\ \A q \in Probes : q # r => probe'[q] = probe[q]
  BY <1>2, <1>3
<1>5. SawTheTruth(r)'
  BY <1>1, <1>2, <1>4, Orders DEF SawTheTruth, Pending
<1>6. \A q \in Probes : q # r => SawTheTruth(q)'
  BY <1>2, <1>4 DEF IInv, SawTheTruth, Pending, Failing
<1> QED BY <1>1, <1>2, <1>3, <1>5, <1>6

LEMMA CheckProbes ==
    ASSUME IInv, NEW r \in Probes, NEW raises \in BOOLEAN, Check(r, raises)
    PROVE  /\ probe' \in [Probes -> ProbeRecord]
           /\ \A q \in Probes : SawTheTruth(q)'
           /\ \A q \in Probes : Pending(q)' => Pending(q)
<1> DEFINE i == probe[r].at
           d == CheckOrder[i]
           passes == d \in up /\ d \notin Unusable /\ ~raises
           ok == IF passes THEN probe[r].ok \cup {d} ELSE probe[r].ok
           raised == IF raises THEN probe[r].raised \cup {d} ELSE probe[r].raised
           last == i = Len(CheckOrder)
           p == Asked(i + 1, ok, IF last THEN IF ok = Dependencies THEN 200 ELSE 503 ELSE 0,
                      probe[r].wasUp, probe[r].wasDown, raised)
<1>1. /\ probe \in [Probes -> ProbeRecord] /\ probe[r] \in ProbeRecord
      /\ i \in 1 .. 3 /\ d \in Dependencies /\ SawTheTruth(r)
      /\ up \subseteq Dependencies
  BY Orders DEF Check, Pending, IInv, TypeOK, ProbeRecord
<1> DEFINE test == /\ Pinged(d) \in up /\ d \notin Unusable /\ ~raises
                   /\ d = "redis" => "cache" \in held'
           tested == IF test THEN probe[r].ok \cup {d} ELSE probe[r].ok
<1>0. tested = ok
  <2>1. test <=> passes
    BY DEF Check, Pinged, EnsuredBy
  <2> HIDE DEF test, passes
  <2> QED BY <2>1
<1>2. probe' = [probe EXCEPT ![r] = p] /\ up' = up /\ Unusable' = Unusable
  <2>1. probe' = [probe EXCEPT ![r] =
            Asked(i + 1, tested,
                  IF last THEN IF tested = Dependencies THEN 200 ELSE 503 ELSE 0,
                  probe[r].wasUp, probe[r].wasDown, raised)]
    BY DEF Check
  <2>2. probe' = [probe EXCEPT ![r] = p]
    <3> HIDE DEF tested, ok, raised, last
    <3> QED BY <1>0, <2>1
  <2> QED BY <2>2 DEF Check, surroundings, Unusable
<1> HIDE DEF test, tested
<1>3. ok \subseteq Dependencies /\ raised \subseteq Dependencies
  BY <1>1 DEF ProbeRecord
<1>9. d \in up \/ d \in probe[r].wasDown
  BY <1>1, Orders DEF SawTheTruth, Pending
<1>10. d \in ok \cup probe[r].wasDown \cup raised \cup Unusable
  BY <1>9
<1>11. probe[r].raised \subseteq raised /\ probe[r].ok \subseteq ok
  OBVIOUS
<1>12. ok \subseteq probe[r].ok \cup (up \cap {d})
  OBVIOUS
<1> HIDE DEF ok, raised
<1>4. /\ p \in ProbeRecord /\ p.at = i + 1 /\ p.ok = ok /\ p.raised = raised
      /\ p.wasUp = probe[r].wasUp /\ p.wasDown = probe[r].wasDown
      /\ p.status = IF last THEN IF ok = Dependencies THEN 200 ELSE 503 ELSE 0
  BY <1>1, <1>3, Orders DEF ProbeRecord, Asked
<1> HIDE DEF p
<1>5. probe'[r] = p /\ \A q \in Probes : q # r => probe'[q] = probe[q]
  BY <1>1, <1>2
<1>6. SawTheTruth(r)'
  <2>1. up \subseteq probe[r].wasUp /\ Dependencies \ up \subseteq probe[r].wasDown
    BY <1>1, Orders DEF SawTheTruth, Pending
  <2>2. ok \subseteq probe[r].wasUp
    BY <1>1, <1>12, <2>1 DEF SawTheTruth
  <2>3. Failing(r) \subseteq Failing(r)' /\ d \in ok \cup Failing(r)'
    BY <1>2, <1>4, <1>5, <1>10, <1>11 DEF Failing
  <2>4. \A k \in 1 .. Len(CheckOrder) : k < i + 1 => CheckOrder[k] \in ok \cup Failing(r)'
    <3> SUFFICES ASSUME NEW k \in 1 .. Len(CheckOrder), k < i + 1
                 PROVE  CheckOrder[k] \in ok \cup Failing(r)'
      OBVIOUS
    <3>1. k < i \/ k = i
      BY <1>1, Orders
    <3>2. k < i => CheckOrder[k] \in probe[r].ok \cup Failing(r)
      BY <1>1 DEF SawTheTruth
    <3> QED BY <1>11, <2>3, <3>1, <3>2
  <2> QED BY <1>1, <1>2, <1>4, <1>5, <2>1, <2>2, <2>4, Orders DEF SawTheTruth, Pending
<1>7. \A q \in Probes : q # r => SawTheTruth(q)'
  BY <1>2, <1>5 DEF IInv, SawTheTruth, Pending, Failing
<1>8. \A q \in Probes : Pending(q)' => Pending(q)
  BY <1>1, <1>5, Orders DEF Pending
<1> QED BY <1>1, <1>2, <1>4, <1>6, <1>7, <1>8

-----------------------------------------------------------------------------
(***************************************************************************)
(* Startup and shutdown.                                                   *)
(***************************************************************************)

Phases == {"import", "build", "init", "inventory", "serving", "close", "stopped", "failed"}

\* A step that leaves the requests, the dependencies and the settings alone.
LEMMA ProcessStepIInv ==
    ASSUME IInv, UNCHANGED <<surroundings, probe>>, faults' \in 0 .. MaxFaults,
           phase' \in Phases, stops' \in 0 .. MaxStops, closing' \in 0 .. 5,
           traced' \subseteq {"provider", "fastapi", "clients", "celery", "engine"},
           held' \subseteq {"repository", "http_client", "rate_limiter", "cache"},
           phase = "serving" => phase' = "serving" \/ \A r \in Probes : ~Pending(r),
           ClosingFits', ClosedAreNotHeld', TracedFits'
    PROVE  IInv'
<1>1. \A r \in Probes : Pending(r)' <=> Pending(r)
  BY DEF Pending
<1>2. TypeOK'
  <2>1. (\E r \in Probes : Pending(r)') => phase' = "serving"
    BY <1>1 DEF IInv, TypeOK
  <2>2. /\ env' \in Environments /\ installed' \in Installations
        /\ up' \subseteq Dependencies /\ flips' \in 0 .. MaxFlips
        /\ probe' \in [Probes -> ProbeRecord]
    BY DEF IInv, TypeOK, surroundings, ProbeRecord
  <2> QED BY <2>1, <2>2 DEF TypeOK, Phases, ProbeRecord
<1>3. \A r \in Probes : SawTheTruth(r)'
  BY ProbesUntouched DEF surroundings
<1> QED BY <1>2, <1>3 DEF IInv

LEMMA ImportIInv ==
    ASSUME IInv, Import
    PROVE  IInv'
<1> USE DEF Import, Enter
<1>1. closing = 0 /\ closing' = 0 /\ held' = held /\ UNCHANGED <<world, stops, probe>>
  BY DEF IInv, ClosingFits
<1>2. phase' \in {"build", "failed"} /\ phase' \in Phases /\ phase = "import"
  BY DEF Phases
<1>3. traced' \subseteq {"provider", "fastapi", "clients", "celery", "engine"}
  BY DEF Instrumented
<1>4. TracedFits'
  BY DEF TracedFits, Settings, Instrumented, Configured, HasProvider, EngineTraced, world, surroundings
<1>5. ClosingFits' /\ ClosedAreNotHeld'
  BY <1>1, <1>2, Orders DEF ClosingFits, ClosedAreNotHeld
<1> HIDE DEF Import, Enter
<1> QED BY <1>1, <1>2, <1>3, <1>4, <1>5, ProcessStepIInv DEF IInv, TypeOK, world

LEMMA BuildIInv ==
    ASSUME IInv, Build
    PROVE  IInv'
<1> USE DEF Build, Enter
<1>1. closing = 0 /\ closing' = 0 /\ UNCHANGED <<world, stops, probe>>
  BY DEF IInv, ClosingFits
<1>2. phase' \in {"init", "failed"} /\ phase' \in Phases /\ phase = "build"
  BY DEF Phases
<1>3. /\ traced' \subseteq {"provider", "fastapi", "clients", "celery", "engine"}
      /\ held' \subseteq {"repository", "http_client", "rate_limiter", "cache"}
  BY DEF EngineTraced, IInv, TypeOK
<1>4. TracedFits'
  <2>1. CASE phase' = "init"
    <3>1. env.LOG_LEVEL # "unknown" /\ "DATABASE_URL" \in Settings(env).url \cap Wellformed(env)
      BY <1>2, <2>1
    <3>2. traced' = Instrumented(Settings(env)) \cup EngineTraced(Settings(env))
      BY <3>1 DEF IInv, TracedFits
    <3>3. /\ Instrumented(Settings(env))' = Instrumented(Settings(env))
          /\ EngineTraced(Settings(env))' = EngineTraced(Settings(env))
      BY DEF Settings, Instrumented, Configured, HasProvider, EngineTraced, world, surroundings
    <3>4. traced' \ {"provider"} # {} => {"provider", "fastapi"} \subseteq traced'
      BY <3>2 DEF Instrumented, Configured, EngineTraced
    <3> QED BY <1>2, <2>1, <3>2, <3>3, <3>4 DEF TracedFits
  <2>2. CASE phase' = "failed"
    <3>1. traced' \in {traced, traced \cup EngineTraced(Settings(env))}
      OBVIOUS
    <3>2. traced = Instrumented(Settings(env))
      BY <1>2 DEF IInv, TracedFits
    <3> QED BY <2>2, <3>1, <3>2
            DEF IInv, TracedFits, Instrumented, Configured, EngineTraced
  <2> QED BY <1>2, <2>1, <2>2
<1>5. ClosingFits' /\ ClosedAreNotHeld'
  BY <1>1, <1>2, Orders DEF ClosingFits, ClosedAreNotHeld
<1> HIDE DEF Build, Enter
<1> QED BY <1>1, <1>2, <1>3, <1>4, <1>5, ProcessStepIInv DEF IInv, TypeOK, world

\* The steps of the startup after it, and those of requests, trace nothing.
LEMMA TracedStays ==
    ASSUME IInv, UNCHANGED <<env, installed, traced>>,
           phase' \in {"inventory", "serving"} => phase \in {"init", "inventory", "serving"},
           phase' \notin {"build", "init"}
    PROVE  TracedFits'
<1>1. /\ Instrumented(Settings(env))' = Instrumented(Settings(env))
      /\ EngineTraced(Settings(env))' = EngineTraced(Settings(env))
  BY DEF Settings, Instrumented, Configured, HasProvider, EngineTraced
<1> QED BY <1>1 DEF IInv, TracedFits

LEMMA StartIInv ==
    ASSUME IInv, Started \/ \E raises \in BOOLEAN : ConnectDatabase(raises)
    PROVE  IInv'
<1> USE DEF ConnectDatabase, Started, Enter
<1>1. /\ closing = 0 /\ phase \in {"init", "inventory"}
      /\ phase' \in {"inventory", "serving", "failed"}
      /\ UNCHANGED <<surroundings, held, closing, traced, stops, probe>>
  BY DEF IInv, ClosingFits, world
<1>5. faults' \in 0 .. MaxFaults
  BY LifecycleAssumption DEF IInv, TypeOK, world, MayRaise
<1> HIDE DEF ConnectDatabase, Started, Enter
<1>2. ClosingFits' /\ ClosedAreNotHeld'
  BY <1>1, Orders DEF ClosingFits, ClosedAreNotHeld
<1>3. TracedFits'
  BY <1>1, TracedStays DEF surroundings
<1>4. phase' \in Phases
  BY <1>1 DEF Phases
<1> QED BY <1>1, <1>2, <1>3, <1>4, <1>5, ProcessStepIInv DEF IInv, TypeOK

LEMMA OpenClientIInv ==
    ASSUME IInv, NEW c \in {"cache", "rate_limiter"}, OpenClient(c)
    PROVE  IInv'
<1> USE DEF OpenClient
<1>1. /\ closing = 0 /\ phase = "serving" /\ phase' = phase /\ held' = held \cup {c}
      /\ UNCHANGED <<world, closing, traced, stops, probe>>
  BY DEF IInv, ClosingFits
<1> HIDE DEF OpenClient
<1>2. ClosingFits' /\ ClosedAreNotHeld'
  BY <1>1, Orders DEF ClosingFits, ClosedAreNotHeld
<1>3. TracedFits'
  BY <1>1, TracedStays DEF world, surroundings
<1>4. phase' \in Phases /\ held' \subseteq {"repository", "http_client", "rate_limiter", "cache"}
  BY <1>1 DEF Phases, IInv, TypeOK
<1> QED BY <1>1, <1>2, <1>3, <1>4, ProcessStepIInv DEF IInv, TypeOK, world

LEMMA ShutdownIInv ==
    ASSUME IInv, Shutdown
    PROVE  IInv'
<1> USE DEF Shutdown, Enter
<1>1. /\ closing = 0 /\ phase = "serving" /\ phase' = "close"
      /\ \A r \in Probes : ~Pending(r)
      /\ UNCHANGED <<world, held, closing, traced, probe>>
  BY DEF IInv, ClosingFits
<1>2. stops' \in 0 .. MaxStops
  BY LifecycleAssumption DEF IInv, TypeOK
<1> HIDE DEF Shutdown, Enter
<1>3. ClosingFits' /\ ClosedAreNotHeld'
  BY <1>1, Orders DEF ClosingFits, ClosedAreNotHeld
<1>4. TracedFits'
  BY <1>1 DEF IInv, TracedFits
<1>5. phase' \in Phases
  BY <1>1 DEF Phases
<1> QED BY <1>1, <1>2, <1>3, <1>4, <1>5, ProcessStepIInv DEF IInv, TypeOK, world

\* What was closed before stays closed, and the next resource is closed too.
LEMMA CloseNextIInv ==
    ASSUME IInv, CloseNext
    PROVE  IInv'
<1>1. /\ phase = "close" /\ closing \in 0 .. 4 /\ closing' = closing + 1
      /\ phase' = IF closing + 1 = 5 THEN "stopped" ELSE "close"
      /\ held' = held \ {CloseOrder[closing + 1]}
      /\ UNCHANGED <<world, traced, stops, probe>>
  BY Orders DEF CloseNext, Enter, Closed, IInv, TypeOK, ClosingFits
<1>2. ClosingFits'
  BY <1>1, Orders DEF ClosingFits
<1>3. ClosedAreNotHeld'
  <2> SUFFICES ASSUME NEW k \in 1 .. Len(CloseOrder), k <= closing'
               PROVE  CloseOrder[k] \notin held'
    BY DEF ClosedAreNotHeld
  <2>1. k <= closing \/ k = closing + 1
    BY <1>1, Orders
  <2> QED BY <1>1, <2>1 DEF IInv, ClosedAreNotHeld
<1>4. TracedFits'
  BY <1>1 DEF IInv, TracedFits
<1>5. phase' \in Phases /\ closing' \in 0 .. 5
  BY <1>1 DEF Phases
<1> QED BY <1>1, <1>2, <1>3, <1>4, <1>5, ProcessStepIInv DEF IInv, TypeOK, world

LEMMA CloseFailsIInv ==
    ASSUME IInv, CloseFails
    PROVE  IInv'
<1>1. phase = "close" /\ phase' = "failed" /\ UNCHANGED <<world, held, closing, traced, stops, probe>>
  BY DEF CloseFails, Enter
<1>2. ClosingFits' /\ ClosedAreNotHeld' /\ TracedFits'
  BY <1>1 DEF IInv, ClosingFits, ClosedAreNotHeld, TracedFits
<1>3. phase' \in Phases
  BY <1>1 DEF Phases
<1> QED BY <1>1, <1>2, <1>3, ProcessStepIInv DEF IInv, TypeOK, world

LEMMA RestartIInv ==
    ASSUME IInv, Restart
    PROVE  IInv'
<1>1. /\ phase \in {"stopped", "failed"} /\ phase' = "import" /\ traced' = {} /\ held' = {} /\ closing' = 0
      /\ UNCHANGED <<world, stops, probe>>
  BY DEF Restart
<1>2. ClosingFits' /\ ClosedAreNotHeld' /\ TracedFits'
  BY <1>1, Orders DEF ClosingFits, ClosedAreNotHeld, TracedFits
<1>3. phase' \in Phases
  BY <1>1 DEF Phases
<1> QED BY <1>1, <1>2, <1>3, ProcessStepIInv DEF IInv, TypeOK, world

LEMMA KillIInv ==
    ASSUME IInv, Kill
    PROVE  IInv'
<1>1. /\ phase' = "failed" /\ held' = {} /\ closing' = 0 /\ probe' = [r \in Probes |-> NoProbe]
      /\ UNCHANGED <<world, traced>>
  BY DEF Kill
<1>2. stops' \in 0 .. MaxStops
  BY LifecycleAssumption DEF Kill, IInv, TypeOK
<1>3. TypeOK'
  BY <1>1, <1>2, NoProbeTyped, Orders DEF IInv, TypeOK, world, surroundings, Pending, ProbeRecord
<1>4. ClosingFits' /\ ClosedAreNotHeld' /\ TracedFits'
  BY <1>1, Orders DEF IInv, ClosingFits, ClosedAreNotHeld, TracedFits
<1> QED BY <1>3, <1>4, KillProbes DEF IInv

-----------------------------------------------------------------------------
(***************************************************************************)
(* The invariant, and what follows from it.                                *)
(***************************************************************************)

LEMMA FlipIInv ==
    ASSUME IInv, NEW d \in Dependencies, Flip(d)
    PROVE  IInv'
<1>1. UNCHANGED <<env, installed, faults, phase, traced, held, closing, stops>>
  BY DEF Flip, processVars
<1>2. flips' \in 0 .. MaxFlips
  BY LifecycleAssumption DEF Flip, IInv, TypeOK
<1>3. \A r \in Probes : Pending(r)' <=> Pending(r)
  BY FlipProbes DEF Pending
<1>4. TypeOK'
  BY <1>1, <1>2, <1>3, FlipProbes DEF IInv, TypeOK, ProbeRecord
<1>5. ClosingFits' /\ ClosedAreNotHeld' /\ TracedFits'
  BY <1>1 DEF IInv, ClosingFits, ClosedAreNotHeld, TracedFits, Settings, Instrumented,
              Configured, HasProvider, EngineTraced
<1> QED BY <1>4, <1>5, FlipProbes DEF IInv

LEMMA AskIInv ==
    ASSUME IInv, NEW r \in Probes, Ask(r)
    PROVE  IInv'
<1>1. phase = "serving" /\ UNCHANGED <<world, phase, traced, held, closing, stops>>
  BY DEF Ask, processVars
<1>2. TypeOK'
  BY <1>1, AskProbes DEF IInv, TypeOK, ProbeRecord, world, surroundings
<1>3. ClosingFits' /\ ClosedAreNotHeld' /\ TracedFits'
  BY <1>1 DEF IInv, ClosingFits, ClosedAreNotHeld, TracedFits, Settings, Instrumented,
              Configured, HasProvider, EngineTraced, world, surroundings
<1> QED BY <1>2, <1>3, AskProbes DEF IInv

LEMMA CheckIInv ==
    ASSUME IInv, NEW r \in Probes, NEW raises \in BOOLEAN, Check(r, raises)
    PROVE  IInv'
<1>1. phase = "serving" /\ UNCHANGED <<surroundings, phase, traced, closing, stops>>
  BY DEF Check, IInv, TypeOK
<1>2. held' \subseteq held \cup {"cache"}
  BY DEF Check, EnsuredBy
<1>3. closing = 0
  BY <1>1 DEF IInv, ClosingFits
<1>7. faults' \in 0 .. MaxFaults
  BY LifecycleAssumption DEF Check, MayRaise, IInv, TypeOK
<1>4. TypeOK'
  BY <1>1, <1>2, <1>7, CheckProbes DEF IInv, TypeOK, ProbeRecord, surroundings
<1>5. ClosingFits' /\ ClosedAreNotHeld'
  BY <1>1, <1>3, Orders DEF ClosingFits, ClosedAreNotHeld
<1>6. TracedFits'
  BY <1>1, TracedStays DEF surroundings
<1> QED BY <1>4, <1>5, <1>6, CheckProbes DEF IInv

LEMMA Inductive ==
    ASSUME IInv, [Next]_vars
    PROVE  IInv'
<1>1. CASE UNCHANGED vars
  <2>1. UNCHANGED <<surroundings, faults, processVars, stops, probe>>
    BY <1>1 DEF vars, world
  <2> QED BY <2>1 DEF surroundings, processVars, IInv, TypeOK, ClosingFits, ClosedAreNotHeld, TracedFits,
                      SawTheTruth, Pending, Failing, Unusable, Settings, Instrumented, Configured, HasProvider, EngineTraced
<1>2. CASE Next
  BY <1>2, ImportIInv, BuildIInv, StartIInv, OpenClientIInv, ShutdownIInv, CloseNextIInv,
     CloseFailsIInv, KillIInv, RestartIInv, FlipIInv, AskIInv, CheckIInv DEF Next
<1> QED BY <1>1, <1>2

LEMMA Invariant == Spec => []IInv
<1>1. Init => IInv
  BY InitIInv
<1>2. IInv /\ [Next]_vars => IInv'
  BY Inductive
<1> QED BY <1>1, <1>2, PTL DEF Spec

\* The variables have their types, and requests to /ready are under way only
\* while the process serves.
THEOREM TypeCorrect == Spec => []TypeOK
<1>1. IInv => TypeOK
  BY DEF IInv
<1> QED BY <1>1, Invariant, PTL

\* What /ready answers was true of each dependency at some time since the
\* request arrived, or its check raised, or its URL is of no use (main.py:411-434).
THEOREM ReadinessTold == Spec => []ReadinessWasTrue
<1>1. IInv => ReadinessWasTrue
  <2> SUFFICES ASSUME IInv, NEW r \in Probes
               PROVE  /\ probe[r].ok \subseteq probe[r].wasUp
                      /\ probe[r].status # 0 =>
                            Dependencies \ probe[r].ok
                                \subseteq probe[r].wasDown \cup probe[r].raised \cup Unusable
                      /\ probe[r].status = 200 => probe[r].ok = Dependencies
    BY DEF ReadinessWasTrue
  <2>1. SawTheTruth(r)
    BY DEF IInv
  <2>2. probe[r].status # 0 =>
            \A k \in 1 .. 3 : CheckOrder[k] \in probe[r].ok \cup Failing(r)
    BY <2>1, Orders DEF SawTheTruth
  <2> QED BY <2>1, <2>2, Orders DEF SawTheTruth, Failing
<1> QED BY <1>1, Invariant, PTL

\* Shutdown closes one resource after the other, and all when none raises
\* (main.py:116-123).
THEOREM ResourcesClosed == Spec => []ClosedInOrder
<1>1. IInv => ClosedInOrder
  <2> SUFFICES ASSUME IInv
               PROVE  ClosedInOrder
    OBVIOUS
  <2>1. closing \in 0 .. 5 /\ held \subseteq {"repository", "http_client", "rate_limiter", "cache"}
    BY DEF IInv, TypeOK
  <2>2. \A k \in 1 .. closing : CloseOrder[k] \notin held
    BY <2>1, Orders DEF IInv, ClosedAreNotHeld
  <2>3. phase = "stopped" => \A k \in 1 .. 5 : CloseOrder[k] \notin held
    BY <2>2, Orders DEF IInv, ClosingFits
  <2>4. phase = "stopped" => held = {}
    BY <2>1, <2>3, Orders
  <2> QED BY <2>2, <2>4 DEF ClosedInOrder
<1> QED BY <1>1, Invariant, PTL

\* No part of a process is traced without the provider and the application, and
\* the engine of a running one is if the application and its package allow
\* (main.py:126-127, tracing.py:19-58, 69-116, database.py:15-19).
THEOREM TracedTogether == Spec => []NothingTracedAlone
<1>1. IInv => NothingTracedAlone
  BY DEF IInv, TracedFits, NothingTracedAlone, Instrumented, EngineTraced, Configured
<1> QED BY <1>1, Invariant, PTL
=============================================================================
