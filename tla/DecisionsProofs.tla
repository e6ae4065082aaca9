-------------------------- MODULE DecisionsProofs --------------------------
(***************************************************************************)
(* Proofs about what the program decides from files, facts and samples,    *)
(* for any of them: the risk pipeline, the price of a pool, the health of  *)
(* endpoints, the settings, and what the operators of the risk engine, the *)
(* route planner and the copy strategy answer.                             *)
(***************************************************************************)
EXTENDS RiskPipeline, RpcHealth, WalletSettings, PoolPrice, RouteChoice, CopyStrategy,
        FunctionTheorems, FiniteSetTheorems, SequenceTheorems,
        WellFoundedInduction, TLAPS

\* The pipeline alone.
PipelineSpec == PipelineInit /\ [][PipelineNext]_rvars

-----------------------------------------------------------------------------
(* The reasons of an evaluation.                                             *)

Reasons == SignalReasons \cup FactReasons \cup IdentityReasons \cup Limits
Facts(exposure) == [NoFacts EXCEPT !.exposure = exposure]
WhyOf(checks) == UNION {checks[c].why : c \in DOMAIN checks}

\* Of the checks that look at facts only the one of the exposure has any.
LEMMA ReasonsOfFacts ==
    ASSUME NEW exposure \in Exposures, NEW p, NEW s, NEW moment
    PROVE  LET facts == Facts(exposure)
               rest == AssetCheck(p, facts.asset).why \cup QuotesCheck(p, facts.quotes, moment).why
                         \cup ExposureCheck(p, facts.exposure).why
                         \cup HealthCheck(p, s.chain[1], facts.health).why
                         \cup (IF facts.exitPlan THEN Pass ELSE Defer("exit_plan_required")).why
                         \cup SimulationCheck(p, facts.simulated).why
           IN  rest \subseteq FactReasons \cup Limits
<1> DEFINE facts == Facts(exposure)
<1>1. /\ facts.asset = Nothing /\ facts.quotes = <<>> /\ facts.exposure = exposure
      /\ facts.health = Nothing /\ facts.exitPlan = FALSE /\ facts.simulated = Nothing
  BY DEF Facts, NoFacts
<1>2. AssetCheck(p, facts.asset).why \subseteq FactReasons
  BY <1>1 DEF AssetCheck, Defer, FactReasons
<1>3. QuotesCheck(p, facts.quotes, moment).why \subseteq FactReasons
  BY <1>1 DEF QuotesCheck, Defer, Judged, Pass, FactReasons
<1>4. ExposureCheck(p, facts.exposure).why \subseteq FactReasons \cup Limits
  <2>1. exposure # Nothing => DOMAIN exposure \subseteq Limits
    BY DEF Limits
  <2>2. exposure # Nothing => OutOfBounds(p, exposure) \subseteq DOMAIN exposure
    BY DEF OutOfBounds
  <2>3. QED
    BY <1>1, <2>1, <2>2 DEF ExposureCheck, Defer, Judged, Pass, FactReasons
<1>5. HealthCheck(p, s.chain[1], facts.health).why \subseteq FactReasons
  BY <1>1 DEF HealthCheck, Defer, FactReasons
<1>6. (IF facts.exitPlan THEN Pass ELSE Defer("exit_plan_required")).why \subseteq FactReasons
  BY <1>1 DEF Defer, FactReasons
<1>7. SimulationCheck(p, facts.simulated).why \subseteq FactReasons
  BY <1>1 DEF SimulationCheck, Defer, Unless, Judged, Pass, FactReasons
<1> HIDE DEF facts
<1>8. QED
  BY <1>2, <1>3, <1>4, <1>5, <1>6, <1>7, Zenon DEF facts

LEMMA ReasonsApart == FactReasons \cap SignalReasons = {}
<1>1. \A x \in FactReasons : x \notin SignalReasons
  BY DEF FactReasons, SignalReasons
<1>2. QED
  BY <1>1

\* A duplicate is one that the engine remembers, and what is wrong with the wallet is what
\* the check of the identity found.
LEMMA ReasonsAreTraced ==
    ASSUME NEW exposure \in Exposures, NEW p, NEW reg, NEW seen, NEW s, NEW moment,
           NEW why, why = WhyOf(Checks(p, reg, seen, s, Facts(exposure), moment))
    PROVE  /\ why \subseteq Reasons
           /\ "duplicate_signal" \in why => s.id \in Remembered(p, seen, moment)
           /\ \A r \in {"wallet_not_registered", "wallet_kol_mismatch", "wallet_revoked"} :
                 r \in why => r \in IdentityCheck(p, reg, s, moment).why
<1> DEFINE facts == Facts(exposure)
<1> DEFINE rest == AssetCheck(p, facts.asset).why \cup QuotesCheck(p, facts.quotes, moment).why
                         \cup ExposureCheck(p, facts.exposure).why
                         \cup HealthCheck(p, s.chain[1], facts.health).why
                         \cup (IF facts.exitPlan THEN Pass ELSE Defer("exit_plan_required")).why
                         \cup SimulationCheck(p, facts.simulated).why
<1>1. why = DedupeCheck(p, seen, s, moment).why \cup SourceCheck(p, s).why \cup AgeCheck(p, s, moment).why
              \cup IdentityCheck(p, reg, s, moment).why \cup SideCheck(p, s).why
              \cup DecoderCheck(s).why \cup rest
  BY DEF WhyOf, Checks
<1>2. rest \subseteq FactReasons \cup Limits /\ rest \cap SignalReasons = {}
  BY ReasonsOfFacts, ReasonsApart, PipelineAssumption
<1>3. /\ DedupeCheck(p, seen, s, moment).why \subseteq {"duplicate_signal"}
      /\ "duplicate_signal" \in DedupeCheck(p, seen, s, moment).why => s.id \in Remembered(p, seen, moment)
  BY DEF DedupeCheck, Unless, Judged, Pass
<1>4. /\ SourceCheck(p, s).why \subseteq {"source_not_allowed"}
      /\ SideCheck(p, s).why \subseteq {"unknown_side"}
      /\ DecoderCheck(s).why \subseteq {"unknown_decoder"}
  BY DEF SourceCheck, SideCheck, DecoderCheck, Unless, Judged, Pass
<1>5. AgeCheck(p, s, moment).why \subseteq {"signal_timestamp_in_future", "signal_too_old"}
  BY DEF AgeCheck, Judged, Pass
<1>6. IdentityCheck(p, reg, s, moment).why \subseteq
        {"wallet_not_registered", "wallet_kol_mismatch", "wallet_revoked", "wallet_mapping_expired",
         "wallet_confidence_too_low"}
  BY DEF IdentityCheck, Judged, Pass
<1> HIDE DEF rest
<1>7. why \subseteq Reasons
  <2>1. /\ DedupeCheck(p, seen, s, moment).why \subseteq SignalReasons
        /\ SourceCheck(p, s).why \subseteq SignalReasons /\ SideCheck(p, s).why \subseteq SignalReasons
        /\ DecoderCheck(s).why \subseteq SignalReasons /\ AgeCheck(p, s, moment).why \subseteq SignalReasons
        /\ IdentityCheck(p, reg, s, moment).why \subseteq SignalReasons
    BY <1>3, <1>4, <1>5, <1>6 DEF SignalReasons
  <2>2. QED
    BY <1>1, <1>2, <2>1, Zenon DEF Reasons
<1>8. ASSUME "duplicate_signal" \in why PROVE s.id \in Remembered(p, seen, moment)
  <2>1. "duplicate_signal" \in SignalReasons
    BY DEF SignalReasons
  <2>2. "duplicate_signal" \in DedupeCheck(p, seen, s, moment).why
    BY <1>1, <1>2, <1>4, <1>5, <1>6, <1>8, <2>1
  <2>3. QED
    BY <1>3, <2>2
<1>9. ASSUME NEW r \in {"wallet_not_registered", "wallet_kol_mismatch", "wallet_revoked"}, r \in why
      PROVE  r \in IdentityCheck(p, reg, s, moment).why
  <2>1. r \in SignalReasons
    BY DEF SignalReasons
  <2>2. QED
    BY <1>1, <1>2, <1>3, <1>4, <1>5, <1>9, <2>1
<1>10. QED
  BY <1>7, <1>8, <1>9

-----------------------------------------------------------------------------
(* The worker.                                                               *)

Starting == {"readPolicy", "readRegistry", "statPolicy", "statRegistry", "built"}
Deciding == {"checkPolicy", "checkRegistry", "againPolicy", "againRegistry", "reloaded",
             "judging", "saving"}
Running  == {"idle"} \cup Deciding

Texts   == (UNION {Contents[f] : f \in Files}) \cup {Nothing}
Engines == [policy : Texts, registry : Texts, seen : [Events -> Int \cup {Nothing}], raced : BOOLEAN]
Drafts  == [content : [Files -> Texts], stamp : [Files -> Nat], at : [Files -> Nat]]

FilesOK == now \in Nat /\ disk \in [Files -> Texts] /\ edits \in [Files -> Nat]
ResultsOK ==
    /\ verdict \in [Events -> Verdicts \cup {Nothing}] /\ refused \in [Events -> Nat]
WorkerOK ==
    /\ pc \in {"down"} \cup Starting \cup Running
    /\ IF pc \in Running THEN engine \in Engines ELSE engine = Nothing
    /\ stamp \in [Files -> Nat] /\ draft \in Drafts
    /\ IF pc \in Deciding THEN cur \in Events ELSE cur = Nothing
    /\ IF pc = "saving" THEN answer \in Verdicts ELSE answer = Nothing

PipelineTypes == FilesOK /\ ResultsOK /\ WorkerOK

LEMMA FileFacts ==
    /\ Files = {"policy", "registry"}
    /\ \A step : FileOf(step) \in Files
    /\ NoDraft \in Drafts
    /\ \A f \in Files : Contents[f] \subseteq Texts
<1>1. NoDraft \in Drafts
  <2>1. Nothing \in Texts
    BY DEF Texts
  <2>2. QED
    BY <2>1 DEF NoDraft, Drafts
<1>2. \A f \in Files : Contents[f] \subseteq Texts
  BY DEF Texts
<1>3. QED
  BY <1>1, <1>2 DEF Files, FileOf

LEMMA TypesInitially == PipelineInit => PipelineTypes
<1> SUFFICES ASSUME PipelineInit PROVE PipelineTypes
  OBVIOUS
<1>1. FilesOK
  BY FileFacts DEF PipelineInit, FilesOK
<1>2. ResultsOK
  BY DEF PipelineInit, ResultsOK
<1>3. WorkerOK
  BY FileFacts DEF PipelineInit, WorkerOK, Running, Deciding, Starting
<1>4. QED
  BY <1>1, <1>2, <1>3 DEF PipelineTypes

\* What was read of a file, and when it was stat'ed, has a draft's type.
LEMMA DraftTypes ==
    ASSUME PipelineTypes, NEW f \in Files, Read(f) \/ Stat(f)
    PROVE  draft' \in Drafts
<1>1. draft \in Drafts /\ disk[f] \in Texts /\ edits[f] \in Nat
  BY DEF PipelineTypes, FilesOK, WorkerOK
<1>2. PICK c \in [Files -> Texts], m \in [Files -> Nat], a \in [Files -> Nat] :
        draft = [content |-> c, stamp |-> m, at |-> a]
  BY <1>1 DEF Drafts
<1>3. CASE Read(f)
  <2>1. draft' = [content |-> [c EXCEPT ![f] = disk[f]], stamp |-> m, at |-> [a EXCEPT ![f] = edits[f]]]
    BY <1>2, <1>3 DEF Read
  <2>2. QED
    BY <1>1, <2>1 DEF Drafts
<1>4. CASE Stat(f)
  <2>1. draft' = [content |-> c, stamp |-> [m EXCEPT ![f] = edits[f]], at |-> a]
    BY <1>2, <1>4 DEF Stat
  <2>2. QED
    BY <1>1, <2>1 DEF Drafts
<1>5. QED
  BY <1>3, <1>4

LEMMA EngineTypes == ASSUME PipelineTypes, NEW b \in BOOLEAN PROVE NewEngine(b) \in Engines
BY FileFacts DEF PipelineTypes, WorkerOK, NewEngine, Engines, Drafts

LEMMA DownTypes == ASSUME Down PROVE WorkerOK'
BY FileFacts DEF Down, WorkerOK, Running, Deciding, Starting

\* The judgement of an event that has an identity.
EngineJudges ==
    \E exposure \in Exposures :
       LET reg == engine.registry
           v   == EventOf[cur]
           w   == CHOOSE c \in Candidates(reg, v) : TRUE
           s   == SignalOf(cur, w)
           checks == Checks(engine.policy, reg, engine.seen, s, Facts(exposure), now)
       IN  /\ Candidates(reg, v) # {}
           /\ answer' = [outcome |-> Outcome(checks), why |-> WhyOf(checks)]
           /\ engine' = [engine EXCEPT !.seen = Remember(engine.policy, @, s, now)]

NotIdentified ==
    /\ Unidentified(engine.registry, EventOf[cur]) # {}
    /\ answer' = [outcome |-> "needs_identity", why |-> Unidentified(engine.registry, EventOf[cur])]
    /\ engine' = engine

LEMMA JudgeIs == ASSUME Judge PROVE EngineJudges \/ NotIdentified
<1>1. CASE Unidentified(engine.registry, EventOf[cur]) # {}
  BY <1>1 DEF Judge, NotIdentified
<1>2. CASE Unidentified(engine.registry, EventOf[cur]) = {}
  <2>1. Candidates(engine.registry, EventOf[cur]) # {}
    BY <1>2 DEF Unidentified
  <2>2. QED
    BY <1>2, <2>1 DEF Judge, EngineJudges, Facts, WhyOf
<1>3. QED
  BY <1>1, <1>2

LEMMA JudgedTypes ==
    ASSUME PipelineTypes, Judge
    PROVE  engine' \in Engines /\ answer' \in Verdicts
<1>1. engine \in Engines /\ now \in Nat /\ cur \in Events
  BY DEF Judge, PipelineTypes, WorkerOK, FilesOK, Running, Deciding
<1>2. CASE NotIdentified
  <2>1. Unidentified(engine.registry, EventOf[cur]) \subseteq IdentityReasons
    BY DEF Unidentified, IdentityReasons
  <2>2. QED
    BY <1>1, <1>2, <2>1 DEF NotIdentified, Verdicts
<1>3. CASE EngineJudges
  <2>0. PICK exposure \in Exposures : \E s, checks :
          /\ checks = Checks(engine.policy, engine.registry, engine.seen, s, Facts(exposure), now)
          /\ answer' = [outcome |-> Outcome(checks), why |-> WhyOf(checks)]
          /\ engine' = [engine EXCEPT !.seen = Remember(engine.policy, @, s, now)]
    BY <1>3 DEF EngineJudges
  <2>1. PICK s, checks :
          /\ checks = Checks(engine.policy, engine.registry, engine.seen, s, Facts(exposure), now)
          /\ answer' = [outcome |-> Outcome(checks), why |-> WhyOf(checks)]
          /\ engine' = [engine EXCEPT !.seen = Remember(engine.policy, @, s, now)]
    BY <2>0
  <2>2. WhyOf(checks) \subseteq Reasons
    BY <2>1, ReasonsAreTraced
  <2>3. Outcome(checks) \in {"rejected", "needs_data", "approved_for_shadow"}
    BY DEF Outcome
  <2>4. Remember(engine.policy, engine.seen, s, now) \in [Events -> Int \cup {Nothing}]
    BY <1>1 DEF Remember, Engines, Remembered
  <2>5. QED
    BY <1>1, <2>1, <2>2, <2>3, <2>4 DEF Engines, Verdicts, Reasons
<1>4. QED
  BY <1>2, <1>3, JudgeIs

LEMMA WorkerStep ==
    ASSUME PipelineTypes, PipelineNext
    PROVE  WorkerOK'
<1> USE DEF WorkerOK, Running, Deciding, Starting
<1>0. WorkerOK /\ PipelineTypes
  BY DEF PipelineTypes
<1>1. CASE Tick \/ \E f \in Files : Edit(f)
  BY <1>0, <1>1 DEF Tick, Edit, worker
<1>2. CASE Crash
  BY <1>2, DownTypes DEF Crash
<1>3. CASE Boot
  BY <1>0, <1>3 DEF Boot
<1>4. CASE StartStep
  <2>1. CASE Down
    BY <2>1, DownTypes
  <2>2. CASE ~Down
    <3>1. /\ pc \in DOMAIN StartSteps /\ pc' = StartSteps[pc]
          /\ \E f \in Files : Read(f) \/ Stat(f)
          /\ UNCHANGED <<engine, stamp, cur, answer>>
      BY <1>4, <2>2, FileFacts DEF StartStep
    <3>2. draft' \in Drafts
      BY <1>0, <3>1, DraftTypes
    <3>3. pc \in Starting /\ pc' \in Starting
      BY <3>1 DEF StartSteps
    <3>4. QED
      BY <1>0, <3>1, <3>2, <3>3
  <2>3. QED
    BY <2>1, <2>2
<1>5. CASE Built
  <2>1. engine' \in Engines
    BY <1>0, <1>5, EngineTypes DEF Built
  <2>2. QED
    BY <1>0, <1>5, <2>1, FileFacts DEF Built, Drafts
<1>6. CASE \E e \in Events : Begin(e)
  BY <1>0, <1>6 DEF Begin, Verdicts
<1>7. CASE CheckStamps
  <2>1. CASE Raise
    BY <1>0, <1>7, <2>1, FileFacts DEF Raise, CheckStamps
  <2>2. CASE ~Raise
    <3>1. /\ \E f \in Files : Stat(f)
          /\ pc' \in {"checkRegistry", "judging", "againPolicy"}
          /\ UNCHANGED <<engine, stamp, cur, answer>>
      BY <1>7, <2>2, FileFacts DEF CheckStamps
    <3>2. draft' \in Drafts
      BY <1>0, <3>1, DraftTypes
    <3>3. QED
      BY <1>0, <1>7, <3>1, <3>2 DEF CheckStamps
  <2>3. QED
    BY <2>1, <2>2
<1>8. CASE Reread
  <2>1. draft' \in Drafts
    BY <1>0, <1>8, FileFacts, DraftTypes DEF Reread
  <2>2. QED
    BY <1>0, <1>8, <2>1 DEF Reread
<1>9. CASE Reload
  <2>1. engine' \in Engines
    BY <1>0, <1>9, EngineTypes DEF Reload
  <2>2. QED
    BY <1>0, <1>9, <2>1, FileFacts DEF Reload, Drafts, MarksKept
<1>10. CASE Judge
  BY <1>0, <1>10, JudgedTypes, FileFacts DEF Judge
<1>11. CASE Save
  BY <1>0, <1>11 DEF Save
<1>12. CASE Refuse
  BY <1>0, <1>12, FileFacts DEF Refuse, Raise
<1>13. QED
  BY <1>1, <1>2, <1>3, <1>4, <1>5, <1>6, <1>7, <1>8, <1>9, <1>10, <1>11, <1>12 DEF PipelineNext

LEMMA RecordsStep ==
    ASSUME PipelineTypes, PipelineNext
    PROVE  FilesOK' /\ ResultsOK'
<1>0. FilesOK /\ ResultsOK /\ WorkerOK
  BY DEF PipelineTypes
<1>1. FilesOK'
  <2>1. CASE \E f \in Files : Edit(f)
    BY <1>0, <2>1, FileFacts DEF Edit, FilesOK
  <2>2. CASE Tick
    BY <1>0, <2>2 DEF Tick, FilesOK, files
  <2>3. CASE UNCHANGED <<now, files>>
    BY <1>0, <2>3 DEF FilesOK, files
  <2>4. QED
    BY <2>1, <2>2, <2>3 DEF PipelineNext, Crash, Boot, StartStep, Built, Begin, CheckStamps, Reread,
                            Reload, Judge, Save, Refuse
<1>2. ResultsOK'
  <2>1. CASE Save
    BY <1>0, <2>1 DEF Save, ResultsOK, WorkerOK, Deciding
  <2>2. CASE Refuse
    BY <1>0, <2>2 DEF Refuse, ResultsOK, WorkerOK, Deciding
  <2>3. CASE UNCHANGED <<verdict, refused>>
    BY <1>0, <2>3 DEF ResultsOK
  <2>4. QED
    BY <2>1, <2>2, <2>3 DEF PipelineNext, Crash, Boot, StartStep, Built, Begin, CheckStamps, Reread,
                            Reload, Judge, Edit, Tick
<1>3. QED
  BY <1>1, <1>2

\* The worker's engine, draft and answer have their shapes at every step.
THEOREM PipelineTyping == PipelineSpec => []PipelineTypes
<1>1. PipelineTypes /\ UNCHANGED rvars => PipelineTypes'
  BY DEF rvars, files, worker, PipelineTypes, FilesOK, ResultsOK, WorkerOK
<1>2. PipelineTypes /\ [PipelineNext]_rvars => PipelineTypes'
  BY <1>1, WorkerStep, RecordsStep DEF PipelineTypes
<1>3. QED
  BY <1>2, TypesInitially, PTL DEF PipelineSpec

-----------------------------------------------------------------------------
(* What the engine is made of.                                               *)

\* If the file has not been edited since it was in state at, it holds this content.
Marked(f, content, at) == at <= edits[f] /\ (at = edits[f] => disk[f] = content)

\* The contents of the draft are those of the files at the edits it names; a reload has
\* stat'ed a file no later than it reads it.
DraftMarks ==
    /\ pc \in {"readRegistry", "statPolicy", "statRegistry", "built", "againRegistry", "reloaded"}
          => Marked("policy", draft.content["policy"], draft.at["policy"])
    /\ pc \in {"statPolicy", "statRegistry", "built", "reloaded"}
          => Marked("registry", draft.content["registry"], draft.at["registry"])
    /\ pc \in {"checkRegistry", "againPolicy", "againRegistry", "reloaded"}
          => draft.stamp["policy"] <= edits["policy"]
    /\ pc \in {"againPolicy", "againRegistry", "reloaded"}
          => draft.stamp["registry"] <= edits["registry"]
    /\ pc \in {"againRegistry", "reloaded"} => draft.stamp["policy"] <= draft.at["policy"]
    /\ pc = "reloaded" => draft.stamp["registry"] <= draft.at["registry"]

\* The marks the worker keeps are no later than what its engine was made of.
EngineMarks ==
    pc \in Running /\ ~engine.raced =>
        /\ Marked("policy", engine.policy, stamp["policy"])
        /\ Marked("registry", engine.registry, stamp["registry"])

LEMMA EditKeepsMarks ==
    ASSUME PipelineTypes, NEW f \in Files, Edit(f)
    PROVE  \A g \in Files : /\ edits'[g] \in Nat /\ edits[g] <= edits'[g]
                            /\ \A c : \A n \in Nat : Marked(g, c, n) => Marked(g, c, n)'
BY FileFacts DEF PipelineTypes, FilesOK, Edit, Marked

LEMMA MarksStep ==
    ASSUME PipelineTypes, DraftMarks, EngineMarks, PipelineNext
    PROVE  DraftMarks' /\ EngineMarks'
<1> USE DEF Running, Deciding, Starting
<1>0. /\ WorkerOK /\ draft \in Drafts /\ "policy" \in Files /\ "registry" \in Files
      /\ \A f \in Files : /\ edits[f] \in Nat /\ stamp[f] \in Nat
                          /\ draft.stamp[f] \in Nat /\ draft.at[f] \in Nat
  BY FileFacts DEF PipelineTypes, WorkerOK, FilesOK, Drafts
<1>1. CASE \E f \in Files : Edit(f)
  <2>1. UNCHANGED worker
    BY <1>1 DEF Edit
  <2>2. \A g \in Files : /\ edits'[g] \in Nat /\ edits[g] <= edits'[g]
                         /\ \A c : \A n \in Nat : Marked(g, c, n) => Marked(g, c, n)'
    BY <1>1, EditKeepsMarks
  <2>3. DraftMarks'
    BY <1>0, <2>1, <2>2 DEF DraftMarks, worker
  <2>4. EngineMarks'
    BY <1>0, <2>1, <2>2 DEF EngineMarks, worker
  <2>5. QED
    BY <2>3, <2>4
<1>2. CASE Tick
  BY <1>2 DEF Tick, files, worker, DraftMarks, EngineMarks, Marked
<1>3. CASE Crash \/ (StartStep /\ Down)
  BY <1>3 DEF Crash, StartStep, Down, DraftMarks, EngineMarks
<1>4. CASE Boot
  BY <1>4 DEF Boot, DraftMarks, EngineMarks
<1>5. CASE StartStep /\ ~Down
  <2>1. UNCHANGED files /\ pc \in DOMAIN StartSteps /\ pc' = StartSteps[pc]
    BY <1>5 DEF StartStep
  <2>2. EngineMarks'
    BY <2>1 DEF EngineMarks, StartSteps
  <2>3. DraftMarks'
    <3>1. CASE pc = "readPolicy"
      <4>1. pc' = "readRegistry" /\ Read("policy")
        BY <1>5, <3>1 DEF StartStep, StartSteps, FileOf
      <4>2. draft'.content["policy"] = disk["policy"] /\ draft'.at["policy"] = edits["policy"]
        BY <1>0, <4>1 DEF Read, Drafts
      <4>3. QED
        BY <1>0, <2>1, <4>1, <4>2 DEF DraftMarks, Marked, files
    <3>2. CASE pc = "readRegistry"
      <4>1. pc' = "statPolicy" /\ Read("registry")
        BY <1>5, <3>2 DEF StartStep, StartSteps, FileOf
      <4>2. /\ draft'.content["registry"] = disk["registry"] /\ draft'.at["registry"] = edits["registry"]
            /\ draft'.content["policy"] = draft.content["policy"] /\ draft'.at["policy"] = draft.at["policy"]
        BY <1>0, <4>1 DEF Read, Drafts
      <4>3. QED
        BY <1>0, <2>1, <3>2, <4>1, <4>2 DEF DraftMarks, Marked, files
    <3>3. CASE pc \in {"statPolicy", "statRegistry"}
      <4>1. pc' \in {"statRegistry", "built"} /\ \E f \in Files : Stat(f)
        BY <1>5, <3>3, FileFacts DEF StartStep, StartSteps
      <4>2. draft'.content = draft.content /\ draft'.at = draft.at
        BY <1>0, <4>1 DEF Stat, Drafts
      <4>3. QED
        BY <2>1, <3>3, <4>1, <4>2 DEF DraftMarks, Marked, files
    <3>4. QED
      BY <2>1, <3>1, <3>2, <3>3 DEF StartSteps
  <2>4. QED
    BY <2>2, <2>3
<1>6. CASE Built
  <2>1. ~engine'.raced => draft.at = draft.stamp
    BY <1>6 DEF Built, NewEngine
  <2>2. QED
    BY <1>6, <2>1 DEF Built, NewEngine, DraftMarks, EngineMarks, Marked, files
<1>7. CASE \E e \in Events : Begin(e)
  BY <1>7 DEF Begin, DraftMarks, EngineMarks, Marked, files
<1>8. CASE CheckStamps
  <2>1. EngineMarks'
    BY <1>8 DEF CheckStamps, Raise, EngineMarks, Marked, files
  <2>2. CASE Raise
    BY <1>8, <2>1, <2>2 DEF CheckStamps, Raise, DraftMarks
  <2>3. CASE ~Raise /\ pc = "checkPolicy"
    <3>1. pc' = "checkRegistry" /\ Stat("policy") /\ UNCHANGED files
      BY <1>8, <2>3 DEF CheckStamps, FileOf
    <3>2. draft'.stamp["policy"] = edits["policy"]
      BY <1>0, <3>1 DEF Stat, Drafts
    <3>3. QED
      BY <1>0, <2>1, <3>1, <3>2 DEF DraftMarks, files
  <2>4. CASE ~Raise /\ pc = "checkRegistry"
    <3>1. pc' \in {"judging", "againPolicy"} /\ Stat("registry") /\ UNCHANGED files
      BY <1>8, <2>4 DEF CheckStamps, FileOf
    <3>2. draft'.stamp["registry"] = edits["registry"] /\ draft'.stamp["policy"] = draft.stamp["policy"]
      BY <1>0, <3>1 DEF Stat, Drafts
    <3>3. QED
      BY <1>0, <2>1, <2>4, <3>1, <3>2 DEF DraftMarks, files
  <2>5. QED
    BY <1>8, <2>2, <2>3, <2>4 DEF CheckStamps
<1>9. CASE Reread
  <2>1. EngineMarks'
    BY <1>9 DEF Reread, EngineMarks, Marked, files
  <2>2. CASE pc' = "judging"
    BY <2>1, <2>2 DEF DraftMarks
  <2>3. CASE pc' # "judging" /\ pc = "againPolicy"
    <3>1. pc' = "againRegistry" /\ Read("policy") /\ UNCHANGED files
      BY <1>9, <2>3 DEF Reread, FileOf
    <3>2. /\ draft'.content["policy"] = disk["policy"] /\ draft'.at["policy"] = edits["policy"]
          /\ draft'.stamp = draft.stamp
      BY <1>0, <3>1 DEF Read, Drafts
    <3>3. QED
      BY <1>0, <2>1, <2>3, <3>1, <3>2 DEF DraftMarks, Marked, files
  <2>4. CASE pc' # "judging" /\ pc = "againRegistry"
    <3>1. pc' = "reloaded" /\ Read("registry") /\ UNCHANGED files
      BY <1>9, <2>4 DEF Reread, FileOf
    <3>2. /\ draft'.content["registry"] = disk["registry"] /\ draft'.at["registry"] = edits["registry"]
          /\ draft'.content["policy"] = draft.content["policy"] /\ draft'.at["policy"] = draft.at["policy"]
          /\ draft'.stamp = draft.stamp
      BY <1>0, <3>1 DEF Read, Drafts
    <3>3. QED
      BY <1>0, <2>1, <2>4, <3>1, <3>2 DEF DraftMarks, Marked, files
  <2>5. QED
    BY <1>9, <2>2, <2>3, <2>4 DEF Reread
<1>10. CASE Reload
  BY <1>0, <1>10 DEF Reload, MarksKept, NewEngine, DraftMarks, EngineMarks, Marked, files
<1>11. CASE Judge
  <2>1. engine'.policy = engine.policy /\ engine'.registry = engine.registry
        /\ engine'.raced = engine.raced
    <3>1. engine \in Engines
      BY <1>0, <1>11 DEF Judge, WorkerOK
    <3>2. QED
      BY <3>1, <1>11, JudgeIs DEF EngineJudges, NotIdentified, Engines
  <2>2. QED
    BY <1>11, <2>1 DEF Judge, DraftMarks, EngineMarks, Marked, files
<1>12. CASE Save \/ Refuse
  BY <1>12 DEF Save, Refuse, Raise, DraftMarks, EngineMarks, Marked, files
<1>13. QED
  BY <1>1, <1>2, <1>3, <1>4, <1>5, <1>6, <1>7, <1>8, <1>9, <1>10, <1>11, <1>12 DEF PipelineNext

\* When no edit is outstanding by the marks the worker keeps, its engine is made of what
\* the files hold.
THEOREM EditsAreSeen == PipelineSpec => []NoEditIsLost
<1>1. PipelineInit => DraftMarks /\ EngineMarks
  BY DEF PipelineInit, DraftMarks, EngineMarks, Running, Deciding
<1>2. PipelineTypes /\ DraftMarks /\ EngineMarks /\ UNCHANGED rvars => DraftMarks' /\ EngineMarks'
  BY DEF rvars, files, worker, DraftMarks, EngineMarks, Marked
<1>3. PipelineTypes /\ DraftMarks /\ EngineMarks /\ [PipelineNext]_rvars => DraftMarks' /\ EngineMarks'
  BY <1>2, MarksStep
<1>4. PipelineTypes /\ EngineMarks => NoEditIsLost
  BY FileFacts DEF NoEditIsLost, EngineMarks, Marked, PipelineTypes, WorkerOK
<1>5. QED
  BY <1>1, <1>3, <1>4, PipelineTyping, PTL DEF PipelineSpec

-----------------------------------------------------------------------------
(* Duplicates.                                                               *)

\* The engine remembers only what has its verdict, was refused one, or is about to be saved;
\* the event in hand has none.
Traces ==
    /\ pc \in Deciding => verdict[cur] = Nothing
    /\ pc \in Running =>
          \A e \in Events : engine.seen[e] # Nothing =>
             verdict[e] # Nothing \/ refused[e] > 0 \/ (pc = "saving" /\ cur = e)

CallsDuplicate(v) == v.outcome = "rejected" /\ "duplicate_signal" \in v.why

AnswerTraced == pc = "saving" /\ CallsDuplicate(answer) => refused[cur] > 0

LEMMA TracesStep ==
    ASSUME PipelineTypes, Traces, AnswerTraced, DuplicateExplained, PipelineNext
    PROVE  Traces' /\ AnswerTraced' /\ DuplicateExplained'
<1> USE DEF Running, Deciding, Starting
<1>0. /\ WorkerOK /\ ResultsOK /\ Nothing \notin Verdicts /\ Nothing \notin Events
      /\ \A e \in Events : refused[e] \in Nat
  BY PipelineAssumption DEF PipelineTypes, ResultsOK
<1>1. CASE Tick \/ \E f \in Files : Edit(f)
  BY <1>1 DEF Tick, Edit, worker, Traces, AnswerTraced, DuplicateExplained
<1>2. CASE Crash \/ Boot \/ StartStep
  <2>1. pc' \notin Running /\ UNCHANGED <<verdict, refused>>
    BY <1>2 DEF Crash, Boot, StartStep, Down, StartSteps
  <2>2. QED
    BY <2>1 DEF Traces, AnswerTraced, DuplicateExplained
<1>3. CASE Built \/ Reload
  <2>1. /\ \A e \in Events : engine'.seen[e] = Nothing
        /\ pc' \in {"idle", "judging"} /\ UNCHANGED <<cur, verdict, refused>>
        /\ pc' = "judging" => pc \in Deciding
    BY <1>3 DEF Built, Reload, NewEngine
  <2>2. QED
    BY <2>1 DEF Traces, AnswerTraced, DuplicateExplained
<1>4. CASE \E e \in Events : Begin(e)
  <2>1. PICK e \in Events : Begin(e)
    BY <1>4
  <2>2. /\ cur' = e /\ verdict[e] = Nothing /\ pc = "idle" /\ pc' \in {"checkPolicy", "saving"}
        /\ pc' = "saving" => answer' = [outcome |-> "none"]
        /\ UNCHANGED <<engine, verdict, refused>>
    BY <2>1 DEF Begin, Due
  <2>3. QED
    BY <2>2 DEF Traces, AnswerTraced, CallsDuplicate, DuplicateExplained
<1>5. CASE CheckStamps \/ Reread
  <2>1. /\ pc \in Deciding /\ pc # "saving" /\ pc' \in Running /\ pc' # "saving"
        /\ UNCHANGED <<engine, verdict, refused>>
        /\ pc' \in Deciding => cur' = cur
    BY <1>5 DEF CheckStamps, Reread, Raise
  <2>2. QED
    BY <2>1 DEF Traces, AnswerTraced, DuplicateExplained
<1>6. CASE Judge
  <2>1. /\ pc = "judging" /\ pc' = "saving" /\ UNCHANGED <<cur, verdict, refused>>
        /\ engine \in Engines /\ cur \in Events /\ verdict[cur] = Nothing
    BY <1>0, <1>6 DEF Judge, WorkerOK, Traces
  <2>2. CASE NotIdentified
    BY <2>1, <2>2 DEF NotIdentified, Traces, AnswerTraced, CallsDuplicate, DuplicateExplained
  <2>3. CASE EngineJudges
    <3>0. PICK exposure \in Exposures : \E s, checks :
            /\ s.id = cur
            /\ checks = Checks(engine.policy, engine.registry, engine.seen, s, Facts(exposure), now)
            /\ answer' = [outcome |-> Outcome(checks), why |-> WhyOf(checks)]
            /\ engine' = [engine EXCEPT !.seen = Remember(engine.policy, @, s, now)]
      BY <2>3 DEF EngineJudges, SignalOf
    <3>1. PICK s, checks :
            /\ s.id = cur
            /\ checks = Checks(engine.policy, engine.registry, engine.seen, s, Facts(exposure), now)
            /\ answer' = [outcome |-> Outcome(checks), why |-> WhyOf(checks)]
            /\ engine' = [engine EXCEPT !.seen = Remember(engine.policy, @, s, now)]
      BY <3>0
    <3>2. "duplicate_signal" \in WhyOf(checks) => cur \in Remembered(engine.policy, engine.seen, now)
      BY <3>1, ReasonsAreTraced
    <3>3. "duplicate_signal" \in WhyOf(checks) => engine.seen[cur] # Nothing
      BY <3>2 DEF Remembered
    <3>4. \A e \in Events : engine'.seen[e] # Nothing => engine.seen[e] # Nothing \/ e = cur
      BY <2>1, <3>1 DEF Remember, Engines
    <3>5. AnswerTraced'
      BY <2>1, <3>1, <3>3 DEF Traces, AnswerTraced, CallsDuplicate
    <3>6. Traces'
      BY <2>1, <3>4 DEF Traces
    <3>7. QED
      BY <2>1, <3>5, <3>6 DEF DuplicateExplained
  <2>4. QED
    BY <1>6, <2>2, <2>3, JudgeIs
<1>7. CASE Save
  <2>1. /\ pc = "saving" /\ cur \in Events /\ answer \in Verdicts /\ pc' = "idle"
        /\ verdict' = [verdict EXCEPT ![cur] = answer] /\ UNCHANGED <<engine, refused>>
    BY <1>0, <1>7 DEF Save, WorkerOK
  <2>2. \A e \in Events : verdict'[e] = (IF e = cur THEN answer ELSE verdict[e])
    BY <1>0, <2>1 DEF ResultsOK
  <2>3. Traces' /\ AnswerTraced'
    BY <1>0, <2>1, <2>2 DEF Traces, AnswerTraced
  <2>4. DuplicateExplained'
    BY <2>1, <2>2 DEF AnswerTraced, CallsDuplicate, DuplicateExplained
  <2>5. QED
    BY <2>3, <2>4
<1>8. CASE Refuse
  <2>1. /\ pc = "saving" /\ cur \in Events /\ pc' = "idle" /\ UNCHANGED <<engine, verdict>>
        /\ refused' = [refused EXCEPT ![cur] = @ + 1]
    BY <1>0, <1>8 DEF Refuse, Raise, WorkerOK
  <2>2. refused'[cur] > 0 /\ \A e \in Events : refused[e] > 0 => refused'[e] > 0
    BY <1>0, <2>1 DEF ResultsOK
  <2>3. QED
    BY <2>1, <2>2 DEF Traces, AnswerTraced, DuplicateExplained
<1>9. QED
  BY <1>1, <1>2, <1>3, <1>4, <1>5, <1>6, <1>7, <1>8 DEF PipelineNext

\* A verdict "duplicate" is kept only for an event whose earlier verdict the database
\* refused, whatever was edited, refused or restarted.
THEOREM DuplicatesAreExplained == PipelineSpec => []DuplicateExplained
<1>1. PipelineInit => Traces /\ AnswerTraced /\ DuplicateExplained
  BY DEF PipelineInit, Traces, AnswerTraced, DuplicateExplained, Running, Deciding
<1>2. PipelineTypes /\ Traces /\ AnswerTraced /\ DuplicateExplained /\ UNCHANGED rvars
        => Traces' /\ AnswerTraced' /\ DuplicateExplained'
  BY DEF rvars, worker, Traces, AnswerTraced, DuplicateExplained
<1>3. PipelineTypes /\ Traces /\ AnswerTraced /\ DuplicateExplained /\ [PipelineNext]_rvars
        => Traces' /\ AnswerTraced' /\ DuplicateExplained'
  BY <1>2, TracesStep
<1>4. QED
  BY <1>1, <1>3, PipelineTyping, PTL DEF PipelineSpec

-----------------------------------------------------------------------------
(* Identities.                                                               *)

\* The registry that was read, and that of the engine, was accepted when it was read.
RegistriesValid ==
    /\ pc \in {"statPolicy", "statRegistry", "built", "reloaded"}
          => ValidRegistry(draft.content["registry"])
    /\ pc \in Running => ValidRegistry(engine.registry)

LEMMA RegistryStep ==
    ASSUME PipelineTypes, RegistriesValid, PipelineNext
    PROVE  RegistriesValid'
<1> USE DEF Running, Deciding, Starting
<1>0. WorkerOK /\ draft \in Drafts /\ "registry" \in Files
  BY FileFacts DEF PipelineTypes, WorkerOK
<1>1. CASE Tick \/ \E f \in Files : Edit(f)
  BY <1>1 DEF Tick, Edit, worker, RegistriesValid
<1>2. CASE Crash \/ Boot \/ (StartStep /\ Down)
  BY <1>2 DEF Crash, Boot, Down, RegistriesValid
<1>3. CASE StartStep /\ ~Down
  <2>1. pc \in DOMAIN StartSteps /\ pc' = StartSteps[pc] /\ pc' \notin Running
    BY <1>3 DEF StartStep, StartSteps
  <2>2. CASE pc = "readRegistry"
    <3>1. Read("registry") /\ ValidRegistry(disk["registry"])
      BY <1>3, <2>2 DEF StartStep, FileOf, Readable
    <3>2. draft'.content["registry"] = disk["registry"]
      BY <1>0, <3>1 DEF Read, Drafts
    <3>3. QED
      BY <2>1, <3>1, <3>2 DEF RegistriesValid
  <2>3. CASE pc = "readPolicy"
    BY <2>1, <2>3 DEF StartSteps, RegistriesValid
  <2>4. CASE pc \in {"statPolicy", "statRegistry"}
    <3>1. \E f \in Files : Stat(f)
      BY <1>3, <2>4, FileFacts DEF StartStep
    <3>2. draft'.content = draft.content
      BY <1>0, <3>1 DEF Stat, Drafts
    <3>3. QED
      BY <2>1, <2>4, <3>2 DEF RegistriesValid
  <2>5. QED
    BY <2>1, <2>2, <2>3, <2>4 DEF StartSteps
<1>4. CASE Built \/ Reload
  BY <1>4 DEF Built, Reload, NewEngine, RegistriesValid
<1>5. CASE (\E e \in Events : Begin(e)) \/ CheckStamps \/ Save \/ Refuse
  BY <1>5 DEF Begin, CheckStamps, Save, Refuse, Raise, RegistriesValid
<1>6. CASE Reread
  <2>1. engine' = engine /\ pc \in Running
    BY <1>6 DEF Reread
  <2>2. CASE pc' = "reloaded"
    <3>1. Read("registry") /\ ValidRegistry(disk["registry"])
      BY <1>6, <2>2 DEF Reread, FileOf, Readable
    <3>2. draft'.content["registry"] = disk["registry"]
      BY <1>0, <3>1 DEF Read, Drafts
    <3>3. QED
      BY <2>1, <3>1, <3>2 DEF RegistriesValid
  <2>3. CASE pc' # "reloaded"
    BY <1>6, <2>1, <2>3 DEF Reread, RegistriesValid
  <2>4. QED
    BY <2>2, <2>3
<1>7. CASE Judge
  <2>1. engine'.registry = engine.registry
    <3>1. engine \in Engines
      BY <1>0, <1>7 DEF Judge, WorkerOK
    <3>2. QED
      BY <3>1, <1>7, JudgeIs DEF EngineJudges, NotIdentified, Engines
  <2>2. QED
    BY <1>7, <2>1 DEF Judge, RegistriesValid
<1>8. QED
  BY <1>1, <1>2, <1>3, <1>4, <1>5, <1>6, <1>7 DEF PipelineNext

\* What a registry that loads says of a wallet it holds is what it says of the address.
LEMMA CandidateResolves ==
    ASSUME NEW reg, ValidRegistry(reg), NEW v, NEW w \in Candidates(reg, v)
    PROVE  Resolve(reg, v.chain, w.address) = {w} /\ w.status # "revoked"
<1>1. w \in reg /\ v.chain \in w.chains /\ w.status # "revoked"
  BY DEF Candidates, Aliases, WalletsForKol, WalletsForHandle
<1>2. \A e \in reg : v.chain \in e.chains /\ e.address = w.address => e = w
  BY <1>1 DEF ValidRegistry
<1>3. QED
  BY <1>1, <1>2 DEF Resolve

LEMMA IdentityIsSound ==
    ASSUME NEW reg, ValidRegistry(reg), NEW e, NEW w \in Candidates(reg, EventOf[e]), NEW p, NEW moment
    PROVE  IdentityCheck(p, reg, SignalOf(e, w), moment).why
             \cap {"wallet_not_registered", "wallet_kol_mismatch", "wallet_revoked"} = {}
<1>1. Resolve(reg, EventOf[e].chain, w.address) = {w} /\ w.status # "revoked"
  BY CandidateResolves
<1>2. /\ SignalOf(e, w).chain = EventOf[e].chain /\ SignalOf(e, w).wallet = w.address
      /\ SignalOf(e, w).kol = w.kol
  BY DEF SignalOf
<1>3. (CHOOSE x \in {w} : TRUE) = w
  OBVIOUS
<1>4. IdentityCheck(p, reg, SignalOf(e, w), moment).why
        \subseteq {"wallet_mapping_expired", "wallet_confidence_too_low"}
  BY <1>1, <1>2, <1>3 DEF IdentityCheck, Judged, Pass
<1>5. QED
  BY <1>4

LEMMA IdentityStep ==
    ASSUME PipelineTypes, RegistriesValid, IdentityAgrees, PipelineNext
    PROVE  IdentityAgrees'
<1>1. CASE Judge
  <2>1. CASE NotIdentified
    BY <2>1 DEF NotIdentified, IdentityAgrees
  <2>2. CASE EngineJudges
    <3>0. PICK exposure \in Exposures : \E w, s, checks :
            /\ w \in Candidates(engine.registry, EventOf[cur]) /\ s = SignalOf(cur, w)
            /\ checks = Checks(engine.policy, engine.registry, engine.seen, s, Facts(exposure), now)
            /\ answer' = [outcome |-> Outcome(checks), why |-> WhyOf(checks)]
      BY <2>2 DEF EngineJudges
    <3>1. PICK w, s, checks :
            /\ w \in Candidates(engine.registry, EventOf[cur]) /\ s = SignalOf(cur, w)
            /\ checks = Checks(engine.policy, engine.registry, engine.seen, s, Facts(exposure), now)
            /\ answer' = [outcome |-> Outcome(checks), why |-> WhyOf(checks)]
      BY <3>0
    <3>2. ValidRegistry(engine.registry)
      BY <1>1 DEF Judge, RegistriesValid, Running, Deciding
    <3>3. IdentityCheck(engine.policy, engine.registry, s, now).why
            \cap {"wallet_not_registered", "wallet_kol_mismatch", "wallet_revoked"} = {}
      BY <3>1, <3>2, IdentityIsSound
    <3>4. \A r \in {"wallet_not_registered", "wallet_kol_mismatch", "wallet_revoked"} :
             r \notin WhyOf(checks)
      BY <3>1, <3>3, ReasonsAreTraced
    <3>5. QED
      BY <3>1, <3>4 DEF IdentityAgrees
  <2>3. QED
    BY <1>1, <2>1, <2>2, JudgeIs
<1>2. CASE ~Judge
  <2>1. answer' \in {answer, Nothing, [outcome |-> "none"]}
    BY <1>2 DEF PipelineNext, Tick, Crash, Boot, StartStep, Built, Edit, Begin, CheckStamps, Reread,
                Reload, Save, Refuse, Raise, Down, worker
  <2>2. QED
    BY <2>1 DEF IdentityAgrees
<1>3. QED
  BY <1>1, <1>2

\* The wallet picked for an event is found by its address under the same author.
THEOREM IdentitiesAgree == PipelineSpec => []IdentityAgrees
<1>1. PipelineInit => RegistriesValid /\ IdentityAgrees
  BY DEF PipelineInit, RegistriesValid, IdentityAgrees, Running, Deciding
<1>2. PipelineTypes /\ RegistriesValid /\ IdentityAgrees /\ UNCHANGED rvars
        => RegistriesValid' /\ IdentityAgrees'
  BY DEF rvars, worker, RegistriesValid, IdentityAgrees
<1>3. PipelineTypes /\ RegistriesValid /\ IdentityAgrees /\ [PipelineNext]_rvars
        => RegistriesValid' /\ IdentityAgrees'
  BY <1>2, RegistryStep, IdentityStep
<1>4. QED
  BY <1>1, <1>3, PipelineTyping, PTL DEF PipelineSpec

-----------------------------------------------------------------------------
(* The price of the native asset.                                            *)

PriceSpec == PriceInit /\ [][PriceNext]_priceVars

FeedSteps == {"idle", "block", "state", "check", "store"}
AnyBlock  == Nat \X Nat
ChainBlocks == [version : Nat, at : Nat]

PriceTypes ==
    /\ chain \in Seq(ChainBlocks)
    /\ forks \in Nat /\ instant \in Nat
    /\ announced \subseteq AnyBlock /\ late \subseteq AnyBlock
    /\ feed \in [Feeds -> [at : FeedSteps, block : AnyBlock, published : Nat, since : Nat,
                           sound : BOOLEAN]]
    /\ latest \in {NoPrice} \cup [block : AnyBlock, published : Nat, fetched : Nat]

\* What becomes of a proven block: it is canonical, or its removal is told and still to
\* come, or came too early for it.
Accounted(b) == OnChain(b) \/ b \in announced \/ b \in late

ProofsAccounted == \A f \in Feeds : At(f, "store") => Accounted(feed[f].block)
LatestAccounted == latest # NoPrice => Accounted(latest.block)

LEMMA BlocksAreTyped ==
    ASSUME PriceTypes, NEW h \in DOMAIN chain
    PROVE  Block(h) \in AnyBlock /\ chain[h] \in ChainBlocks /\ h \in 1..Len(chain)
<1>1. chain \in Seq(ChainBlocks) /\ DOMAIN chain = 1..Len(chain) /\ Len(chain) \in Nat
  BY LenProperties DEF PriceTypes
<1>2. chain[h] \in ChainBlocks
  BY <1>1, ElementOfSeq
<1>3. QED
  BY <1>1, <1>2 DEF Block, AnyBlock, ChainBlocks

LEMMA ChainTypes ==
    ASSUME PriceTypes, Mine \/ Later \/ (\E h \in DOMAIN chain : Fork(h))
    PROVE  PriceTypes'
<1>1. CASE Mine
  <2>1. [version |-> forks, at |-> instant] \in ChainBlocks
    BY DEF PriceTypes, ChainBlocks
  <2>2. QED
    BY <1>1, <2>1 DEF Mine, PriceTypes
<1>2. CASE Later
  BY <1>2 DEF Later, PriceTypes
<1>3. ASSUME NEW h \in DOMAIN chain, Fork(h) PROVE PriceTypes'
  <2>1. h \in 1..Len(chain)
    BY BlocksAreTyped
  <2>2. chain' \in Seq(ChainBlocks)
    <3>1. \A i \in 1..(h - 1) : chain[i] \in ChainBlocks
      BY <2>1, ElementOfSeq, LenProperties DEF PriceTypes
    <3>2. QED
      BY <1>3, <2>1, <3>1, SubSeqProperties DEF Fork
  <2>3. announced' \subseteq AnyBlock
    <3>1. \A i \in h..Len(chain) : i \in DOMAIN chain
      BY <2>1, LenProperties DEF PriceTypes
    <3>2. QED
      BY <1>3, <3>1, BlocksAreTyped DEF Fork, PriceTypes
  <2>4. QED
    BY <1>3, <2>2, <2>3 DEF Fork, PriceTypes
<1>4. QED
  BY <1>1, <1>2, <1>3

LEMMA FeedTypes ==
    ASSUME PriceTypes, NEW f \in Feeds,
           \/ \E b \in Blocks : Arrive(f, b)
           \/ ReadBlock(f) \/ ReadState(f) \/ ReadCheck(f) \/ Store(f) \/ ReadFails(f)
    PROVE  PriceTypes'
<1> DEFINE Place == [at : FeedSteps, block : AnyBlock, published : Nat, since : Nat, sound : BOOLEAN]
<1>0. /\ feed \in [Feeds -> Place] /\ feed[f] \in Place /\ instant \in Nat /\ Quiet \in Place
      /\ \A r \in Place : Moves(f, r) => feed' \in [Feeds -> Place]
  BY DEF PriceTypes, Quiet, NoBlock, AnyBlock, FeedSteps, Moves
<1>1. CASE \E b \in Blocks : Arrive(f, b)
  <2>1. PICK b \in Blocks : Arrive(f, b)
    BY <1>1
  <2>2. [Quiet EXCEPT !.at = "block", !.block = b, !.since = instant] \in Place
    <3>1. b \in AnyBlock
      BY DEF Blocks, AnyBlock
    <3>2. QED
      BY <1>0, <3>1 DEF Quiet, FeedSteps
  <2>3. QED
    BY <1>0, <2>1, <2>2 DEF Arrive, PriceTypes
<1>2. CASE ReadBlock(f)
  <2>1. \A h \in DOMAIN chain : chain[h].at \in Nat
    BY BlocksAreTyped DEF ChainBlocks
  <2>2. PICK p \in Nat, sound \in BOOLEAN :
           Moves(f, [feed[f] EXCEPT !.at = "state", !.sound = sound, !.published = p])
    BY <1>2, <2>1, Zenon DEF ReadBlock, OnChain
  <2>3. QED
    BY <1>0, <1>2, <2>2 DEF ReadBlock, PriceTypes, FeedSteps
<1>3. CASE ReadState(f)
  <2>1. PICK sound \in BOOLEAN : Moves(f, [feed[f] EXCEPT !.at = "check", !.sound = sound])
    BY <1>0, <1>3 DEF ReadState
  <2>2. QED
    BY <1>0, <1>3, <2>1 DEF ReadState, PriceTypes, FeedSteps
<1>4. CASE ReadCheck(f)
  <2>1. [feed[f] EXCEPT !.at = "store"] \in Place
    BY <1>0 DEF FeedSteps
  <2>2. QED
    BY <1>0, <1>4, <2>1 DEF ReadCheck, PriceTypes
<1>5. CASE Store(f)
  <2>1. [block |-> feed[f].block, published |-> feed[f].published, fetched |-> feed[f].since]
            \in [block : AnyBlock, published : Nat, fetched : Nat]
    BY <1>0
  <2>2. latest' \in {NoPrice} \cup [block : AnyBlock, published : Nat, fetched : Nat]
    BY <1>5, <2>1 DEF Store, PriceTypes
  <2>3. QED
    BY <1>0, <1>5, <2>2 DEF Store, PriceTypes
<1>6. CASE ReadFails(f)
  BY <1>0, <1>6 DEF ReadFails, PriceTypes
<1>7. QED
  BY <1>1, <1>2, <1>3, <1>4, <1>5, <1>6

\* The variables of the price have their types, for any chain and any number of logs.
THEOREM PriceTyping == PriceSpec => []PriceTypes
<1>1. PriceInit => PriceTypes
  BY DEF PriceInit, PriceTypes, Quiet, NoBlock, AnyBlock, FeedSteps
<1>2. PriceTypes /\ [PriceNext]_priceVars => PriceTypes'
  <2>1. ASSUME PriceTypes, NEW b \in announced, Removed(b) PROVE PriceTypes'
    BY <2>1 DEF Removed, PriceTypes
  <2>2. PriceTypes /\ UNCHANGED priceVars => PriceTypes'
    BY DEF PriceTypes, priceVars
  <2>3. QED
    BY <2>1, <2>2, ChainTypes, FeedTypes DEF PriceNext
<1>3. QED
  BY <1>1, <1>2, PTL DEF PriceSpec

\* What the chain does leaves a block accounted for: one that is replaced is announced.
LEMMA ChainAccounts ==
    ASSUME PriceTypes, Mine \/ Later \/ (\E h \in DOMAIN chain : Fork(h)),
           NEW b \in AnyBlock, Accounted(b)
    PROVE  Accounted(b)'
<1> USE DEF Accounted, OnChain, Block
<1>1. CASE Mine
  <2>1. \A h \in DOMAIN chain : h \in DOMAIN chain' /\ chain'[h] = chain[h]
    BY <1>1 DEF Mine, PriceTypes
  <2>2. QED
    BY <1>1, <2>1 DEF Mine
<1>2. CASE Later
  BY <1>2 DEF Later
<1>3. ASSUME NEW h \in DOMAIN chain, Fork(h) PROVE Accounted(b)'
  <2>1. CASE b[1] \in h..Len(chain) /\ OnChain(b)
    BY <1>3, <2>1 DEF Fork
  <2>2. CASE b[1] \notin h..Len(chain) /\ OnChain(b)
    <3>1. h \in 1..Len(chain) /\ b[1] \in 1..(h - 1)
      BY <2>2, BlocksAreTyped DEF PriceTypes
    <3>2. /\ \A i \in 1..(h - 1) : chain[i] \in ChainBlocks
          /\ h - 1 \in Nat
      BY <3>1, ElementOfSeq, LenProperties DEF PriceTypes
    <3>3. /\ SubSeq(chain, 1, h - 1) \in Seq(ChainBlocks)
          /\ Len(SubSeq(chain, 1, h - 1)) = h - 1
          /\ \A i \in 1..(h - 1) : SubSeq(chain, 1, h - 1)[i] = chain[i]
      BY <3>1, <3>2, SubSeqProperties
    <3>4. b[1] \in DOMAIN chain' /\ chain'[b[1]] = chain[b[1]]
      BY <1>3, <3>1, <3>3, LenProperties DEF Fork
    <3>5. QED
      BY <2>2, <3>4
  <2>3. CASE ~OnChain(b)
    BY <1>3, <2>3 DEF Fork
  <2>4. QED
    BY <2>1, <2>2, <2>3
<1>4. QED
  BY <1>1, <1>2, <1>3

\* Whatever logs come twice, late or out of order and whatever the chain does between the
\* reads, the price given out is that of a canonical block unless its removal is under way
\* or overtook its storing.
THEOREM AnswersAreCanonical == PriceSpec => []AnswerIsCanonical
<1>1. PriceInit => ProofsAccounted /\ LatestAccounted
  BY DEF PriceInit, ProofsAccounted, LatestAccounted, At, Quiet
<1>2. ASSUME PriceTypes, ProofsAccounted, LatestAccounted, [PriceNext]_priceVars
      PROVE  ProofsAccounted' /\ LatestAccounted'
  <2> USE <1>2
  <2>1. CASE Mine \/ Later \/ (\E h \in DOMAIN chain : Fork(h))
    <3>1. feed' = feed /\ latest' = latest
      BY <2>1 DEF Mine, Later, Fork
    <3>2. \A b \in AnyBlock : Accounted(b) => Accounted(b)'
      BY <2>1, ChainAccounts
    <3>3. \A f \in Feeds : feed[f].block \in AnyBlock
      BY DEF PriceTypes
    <3>4. latest # NoPrice => latest.block \in AnyBlock
      BY DEF PriceTypes
    <3>5. QED
      BY <3>1, <3>2, <3>3, <3>4 DEF ProofsAccounted, LatestAccounted, At, Accounted, OnChain, Block
  <2>2. ASSUME NEW b \in announced, Removed(b) PROVE ProofsAccounted' /\ LatestAccounted'
    BY <2>2 DEF Removed, ProofsAccounted, LatestAccounted, Accounted, At, OnChain, Block
  <2>3. ASSUME NEW f \in Feeds, UNCHANGED <<chain, announced, late>>,
               latest' \in {latest, [block |-> feed[f].block, published |-> feed[f].published,
                                     fetched |-> feed[f].since]},
               latest' # latest => At(f, "store"),
               \E r : Moves(f, r) /\ (r.at = "store" => Accounted(r.block))
        PROVE  ProofsAccounted' /\ LatestAccounted'
    <3>1. PICK r : Moves(f, r) /\ (r.at = "store" => Accounted(r.block))
      BY <2>3
    <3>2. \A g \in Feeds : feed'[g] = (IF g = f THEN r ELSE feed[g])
      BY <3>1 DEF Moves, PriceTypes
    <3>3. \A b : Accounted(b)' <=> Accounted(b)
      BY <2>3 DEF Accounted, OnChain, Block
    <3>4. ProofsAccounted'
      BY <3>1, <3>2, <3>3 DEF ProofsAccounted, At, Accounted, OnChain, Block
    <3>5. LatestAccounted'
      BY <2>3, <3>3 DEF ProofsAccounted, LatestAccounted, At, Accounted, OnChain, Block
    <3>6. QED
      BY <3>4, <3>5
  <2>4. ASSUME NEW f \in Feeds,
               \/ \E b \in Blocks : Arrive(f, b)
               \/ ReadBlock(f) \/ ReadState(f) \/ ReadCheck(f) \/ Store(f) \/ ReadFails(f)
        PROVE  ProofsAccounted' /\ LatestAccounted'
    <3>1. UNCHANGED <<chain, announced, late>>
      BY <2>4 DEF Arrive, ReadBlock, ReadState, ReadCheck, Store, ReadFails
    <3>2. CASE Store(f)
      BY <2>3, <3>1, <3>2 DEF Store, Quiet
    <3>3. CASE ReadCheck(f)
      <4>1. \E r : Moves(f, r) /\ (r.at = "store" => Accounted(r.block))
        <5>1. CASE Proven(f)
          <6>1. Moves(f, [feed[f] EXCEPT !.at = "store"]) /\ OnChain(feed[f].block)
            BY <3>3, <5>1 DEF ReadCheck, Proven
          <6>2. [feed[f] EXCEPT !.at = "store"].block = feed[f].block
            BY DEF PriceTypes
          <6>3. QED
            BY <6>1, <6>2 DEF Accounted
        <5>2. CASE ~Proven(f)
          BY <3>3, <5>2 DEF ReadCheck, Quiet
        <5>3. QED
          BY <5>1, <5>2
      <4>2. QED
        BY <2>3, <3>1, <3>3, <4>1 DEF ReadCheck
    <3>4. CASE ~Store(f) /\ ~ReadCheck(f)
      <4>1. latest' = latest
        BY <2>4, <3>4 DEF Arrive, ReadBlock, ReadState, ReadFails
      <4>2. \E r : Moves(f, r) /\ r.at # "store"
        <5>1. CASE \E b \in Blocks : Arrive(f, b)
          <6>1. \A b : [Quiet EXCEPT !.at = "block", !.block = b, !.since = instant].at = "block"
            BY DEF Quiet
          <6>2. QED
            BY <5>1, <6>1 DEF Arrive
        <5>2. CASE ReadBlock(f)
          <6>1. \A p, x : [feed[f] EXCEPT !.at = "state", !.sound = x, !.published = p].at = "state"
            BY DEF PriceTypes
          <6>2. QED
            BY <5>2, <6>1 DEF ReadBlock
        <5>3. CASE ReadState(f)
          <6>1. \A x : [feed[f] EXCEPT !.at = "check", !.sound = x].at = "check"
            BY DEF PriceTypes
          <6>2. QED
            BY <5>3, <6>1 DEF ReadState
        <5>4. CASE ReadFails(f)
          BY <5>4 DEF ReadFails, Quiet
        <5>5. QED
          BY <2>4, <3>4, <5>1, <5>2, <5>3, <5>4
      <4>3. QED
        BY <2>3, <3>1, <4>1, <4>2
    <3>5. QED
      BY <3>2, <3>3, <3>4
  <2>5. CASE UNCHANGED priceVars
    BY <2>5 DEF priceVars, ProofsAccounted, LatestAccounted, Accounted, At, OnChain, Block
  <2>6. QED
    BY <2>1, <2>2, <2>4, <2>5 DEF PriceNext
<1>3. LatestAccounted => AnswerIsCanonical
  BY DEF LatestAccounted, AnswerIsCanonical, Answer, Accounted
<1>4. QED
  BY <1>1, <1>2, <1>3, PriceTyping, PTL DEF PriceSpec

-----------------------------------------------------------------------------
(* Least and greatest elements.                                              *)

\* A set of natural numbers has a least element.
LEMMA LeastNatural ==
    ASSUME NEW T \in SUBSET Nat, T # {}
    PROVE  \E x \in T : \A y \in T : x <= y
<1> DEFINE R == {ss \in Nat \X Nat : ss[1] < ss[2]}
<1>0. IsWellFoundedOn(R, Nat)
  BY NatLessThanWellFounded DEF OpToRel
<1> HIDE DEF R
<1>1. PICK x \in T : \A y \in T : ~ (<<y, x>> \in R)
  BY <1>0, WFMin
<1>2. \A y \in T : ~(y < x)
  BY <1>1 DEF R
<1>3. QED
  BY <1>2

LEMMA MinOfNaturals ==
    ASSUME NEW T \in SUBSET Nat, T # {}
    PROVE  Min(T) \in T /\ \A y \in T : Min(T) <= y
BY LeastNatural DEF Min

LEMMA CardinalityOfInterval ==
    ASSUME NEW n \in Nat
    PROVE  IsFiniteSet(1..n) /\ Cardinality(1..n) = n
<1>1. IsFiniteSet(1..n) /\ Cardinality(1..n) = (IF 1 > n THEN 0 ELSE n - 1 + 1)
  BY FS_Interval, SMT
<1>2. QED
  BY <1>1

LEMMA MinOfTwo ==
    ASSUME NEW a \in Nat, NEW b \in Nat
    PROVE  Min({a, b}) = IF a <= b THEN a ELSE b
BY MinOfNaturals

LEMMA MaxOfTwo ==
    ASSUME NEW a \in Int, NEW b \in Int
    PROVE  Max({a, b}) = IF a >= b THEN a ELSE b
<1>1. \E x \in {a, b} : \A y \in {a, b} : x >= y
  OBVIOUS
<1>2. QED
  BY <1>1 DEF Max

\* Of a finite set the elements that exceed the fewest others are the least: turned round,
\* a function has a greatest value on a finite set.
LEMMA GreatestValue ==
    ASSUME NEW S, IsFiniteSet(S), S # {}, NEW f \in [S -> Nat]
    PROVE  \E x \in S : \A y \in S : f[y] <= f[x]
<1> DEFINE Above(x) == {y \in S : f[y] > f[x]}
<1> DEFINE Counts == {Cardinality(Above(x)) : x \in S}
<1>1. \A x \in S : IsFiniteSet(Above(x)) /\ Cardinality(Above(x)) \in Nat
  BY FS_Subset, FS_CardinalityType
<1>2. PICK n \in Counts : \A m \in Counts : n <= m
  <2>1. Counts \subseteq Nat /\ Counts # {}
    BY <1>1
  <2> HIDE DEF Counts
  <2>2. QED
    BY <2>1, LeastNatural
<1>3. PICK x \in S : n = Cardinality(Above(x))
  BY <1>2
<1>4. ASSUME NEW y \in S, f[y] > f[x] PROVE FALSE
  <2>1. Above(y) \subseteq Above(x) /\ y \in Above(x) /\ y \notin Above(y)
    BY <1>4
  <2>2. Cardinality(Above(y)) <= Cardinality(Above(x)) /\ Cardinality(Above(y)) # Cardinality(Above(x))
    BY <1>1, <2>1, FS_Subset
  <2>3. Cardinality(Above(x)) <= Cardinality(Above(y))
    BY <1>2, <1>3
  <2>4. Cardinality(Above(x)) \in Nat /\ Cardinality(Above(y)) \in Nat
    BY <1>1
  <2> HIDE DEF Above
  <2>5. QED
    BY <2>2, <2>3, <2>4
<1>5. QED
  BY <1>4

-----------------------------------------------------------------------------
(* The health of the endpoints.                                              *)

HealthSpec == HealthInit /\ [][HealthNext]_hvars

Sample == [ok : BOOLEAN, height : Nat, latency : Nat, at : Nat]

HealthTypes ==
    /\ time \in Nat
    /\ samples \in [Endpoints -> Seq(Sample)]
    /\ configured \subseteq Endpoints
    /\ enabled \subseteq Chains /\ saved \subseteq Chains
    /\ failure \in [Endpoints -> [at : Int, since : Nat]]

\* The samples lie in the order they were taken.
NewestFirst ==
    \A e \in Endpoints : \A i, j \in 1..Len(samples[e]) :
        samples[e][i].at <= time /\ (i <= j => samples[e][i].at >= samples[e][j].at)

\* The last failure lies behind the samples that came after it, until it is pruned.
FailureIsStored ==
    \A e \in Endpoints :
        LET k == failure[e].since + 1
        IN  failure[e].at >= 0 /\ k <= Kept =>
                /\ k <= Len(samples[e])
                /\ ~samples[e][k].ok
                /\ samples[e][k].at = failure[e].at

\* What is stored: the new sample, and behind it the old ones that there is room for.
LEMMA StoredIs ==
    ASSUME NEW old \in Seq(Sample), NEW new \in Sample
    PROVE  /\ Stored(old, new) \in Seq(Sample)
           /\ Len(Stored(old, new)) = (IF Kept <= Len(old) THEN Kept ELSE Len(old) + 1)
           /\ \A i \in 1..Len(Stored(old, new)) :
                 Stored(old, new)[i] = (IF i = 1 THEN new ELSE old[i - 1])
<1> DEFINE all == <<new>> \o old
<1> DEFINE n == Min({Kept, Len(old) + 1})
<1>1. Len(old) \in Nat /\ Kept \in Nat /\ Kept >= 3
  BY HealthAssumption, LenProperties
<1>2. n = (IF Kept <= Len(old) THEN Kept ELSE Len(old) + 1)
  BY <1>1, MinOfTwo
<1>3. <<new>> \in Seq(Sample) /\ Len(<<new>>) = 1 /\ <<new>>[1] = new
  OBVIOUS
<1>4. /\ all \in Seq(Sample) /\ Len(all) = 1 + Len(old)
      /\ \A i \in 1..(1 + Len(old)) : all[i] = (IF i <= 1 THEN <<new>>[i] ELSE old[i - 1])
  BY <1>3, ConcatProperties
<1> HIDE DEF all
<1>5. \A i \in 1..n : all[i] \in Sample
  BY <1>1, <1>2, <1>4, ElementOfSeq
<1> HIDE DEF n
<1>6. /\ SubSeq(all, 1, n) \in Seq(Sample) /\ Len(SubSeq(all, 1, n)) = n
      /\ \A i \in 1..n : SubSeq(all, 1, n)[i] = all[i]
  BY <1>1, <1>2, <1>5, SubSeqProperties
<1>7. Stored(old, new) = SubSeq(all, 1, n)
  BY DEF Stored, all, n
<1>8. QED
  BY <1>1, <1>2, <1>3, <1>4, <1>6, <1>7

LEMMA ProbeTypes ==
    ASSUME HealthTypes, NEW asked, ProbeCycle(asked), asked \subseteq Endpoints
    PROVE  \E probed \in SUBSET Endpoints : \E new \in [Endpoints -> Sample] :
             /\ \A e \in Endpoints : new[e].at = time
             /\ samples' = [e \in Endpoints |-> IF e \in probed THEN Stored(samples[e], new[e])
                                                ELSE samples[e]]
             /\ failure' = [e \in Endpoints |->
                    IF e \notin probed THEN failure[e]
                    ELSE IF ~new[e].ok THEN [at |-> time, since |-> 0]
                    ELSE [failure[e] EXCEPT !.since = Min({Kept, @ + 1})]]
<1> DEFINE probed == {e \in asked : e \in configured /\ ChainOf[e] \in enabled}
<1>1. PICK got \in [probed -> UNION {Outcomes[e] : e \in probed}] :
         /\ \A e \in probed : got[e] \in Outcomes[e]
         /\ samples' = [e \in Endpoints |->
                IF e \in probed
                THEN Stored(samples[e], [ok |-> got[e].ok, height |-> got[e].height,
                                         latency |-> got[e].latency, at |-> time])
                ELSE samples[e]]
         /\ failure' = [e \in Endpoints |->
                IF e \notin probed THEN failure[e]
                ELSE IF ~got[e].ok THEN [at |-> time, since |-> 0]
                ELSE [failure[e] EXCEPT !.since = Min({Kept, @ + 1})]]
  BY DEF ProbeCycle
<1> DEFINE of(e) == IF e \in probed
                    THEN [ok |-> got[e].ok, height |-> got[e].height, latency |-> got[e].latency,
                          at |-> time]
                    ELSE [ok |-> TRUE, height |-> 0, latency |-> 0, at |-> time]
<1> DEFINE new == [e \in Endpoints |-> of(e)]
<1>2. ASSUME NEW e \in Endpoints PROVE of(e) \in Sample /\ of(e).at = time
  <2>1. CASE e \in probed
    <3>1. got[e] \in [ok : BOOLEAN, height : Nat, latency : Nat]
      BY <1>1, <2>1, HealthAssumption
    <3>2. QED
      BY <2>1, <3>1 DEF HealthTypes, Sample
  <2>2. CASE e \notin probed
    BY <2>2 DEF HealthTypes, Sample
  <2>3. QED
    BY <2>1, <2>2
<1>3. new \in [Endpoints -> Sample] /\ \A e \in Endpoints : new[e].at = time
  BY <1>2
<1>4. \A e \in probed :
         /\ new[e] = [ok |-> got[e].ok, height |-> got[e].height, latency |-> got[e].latency,
                      at |-> time]
         /\ new[e].ok = got[e].ok
  OBVIOUS
<1>5. samples' = [e \in Endpoints |-> IF e \in probed THEN Stored(samples[e], new[e])
                                      ELSE samples[e]]
  BY <1>1, <1>4
<1>6. failure' = [e \in Endpoints |->
                    IF e \notin probed THEN failure[e]
                    ELSE IF ~new[e].ok THEN [at |-> time, since |-> 0]
                    ELSE [failure[e] EXCEPT !.since = Min({Kept, @ + 1})]]
  BY <1>1, <1>4
<1>7. probed \in SUBSET Endpoints
  OBVIOUS
<1> HIDE DEF new, probed
<1>8. QED
  BY <1>3, <1>5, <1>6, <1>7

LEMMA HealthStep ==
    ASSUME HealthTypes, NewestFirst, FailureIsStored, HealthNext
    PROVE  HealthTypes' /\ NewestFirst' /\ FailureIsStored'
<1>1. CASE Passes
  <2>1. time' = time + 1 /\ UNCHANGED <<samples, configured, enabled, saved, failure>>
    BY <1>1 DEF Passes, switches
  <2>2. HealthTypes'
    BY <2>1 DEF HealthTypes
  <2>3. NewestFirst'
    <3>1. ASSUME NEW e \in Endpoints, NEW i \in 1..Len(samples[e]) PROVE samples[e][i].at \in Nat
      <4>1. samples[e] \in Seq(Sample)
        BY DEF HealthTypes
      <4>2. samples[e][i] \in Sample
        BY <4>1, ElementOfSeq
      <4>3. QED
        BY <4>2 DEF Sample
    <3>2. QED
      BY <2>1, <3>1 DEF HealthTypes, NewestFirst
  <2>4. QED
    BY <2>1, <2>2, <2>3 DEF FailureIsStored
<1>2. CASE Restart \/ (\E e \in Endpoints : SaveEndpoint(e)) \/ (\E c \in Chains : SetChain(c))
  <2>1. UNCHANGED <<time, samples, failure>> /\ configured' \subseteq Endpoints
        /\ enabled' \subseteq Chains /\ saved' \subseteq Chains
    BY <1>2 DEF Restart, SaveEndpoint, SetChain, HealthTypes
  <2>2. QED
    BY <2>1 DEF HealthTypes, NewestFirst, FailureIsStored
<1>3. ASSUME NEW asked, asked \subseteq Endpoints, ProbeCycle(asked)
      PROVE  HealthTypes' /\ NewestFirst' /\ FailureIsStored'
  <2>1. time' = time /\ UNCHANGED <<configured, enabled, saved>>
    BY <1>3 DEF ProbeCycle, switches
  <2>2. PICK probed \in SUBSET Endpoints, new \in [Endpoints -> Sample] :
             /\ \A e \in Endpoints : new[e].at = time
             /\ samples' = [e \in Endpoints |-> IF e \in probed THEN Stored(samples[e], new[e])
                                                ELSE samples[e]]
             /\ failure' = [e \in Endpoints |->
                    IF e \notin probed THEN failure[e]
                    ELSE IF ~new[e].ok THEN [at |-> time, since |-> 0]
                    ELSE [failure[e] EXCEPT !.since = Min({Kept, @ + 1})]]
    BY <1>3, ProbeTypes
  <2>3. ASSUME NEW e \in Endpoints
        PROVE  /\ samples[e] \in Seq(Sample) /\ Len(samples[e]) \in Nat
               /\ \A i \in 1..Len(samples[e]) : samples[e][i] \in Sample
               /\ failure[e] \in [at : Int, since : Nat]
               /\ Kept \in Nat /\ Kept >= 3 /\ time \in Nat
    BY LenProperties, ElementOfSeq, HealthAssumption DEF HealthTypes
  <2>4. ASSUME NEW e \in Endpoints
        PROVE  /\ Stored(samples[e], new[e]) \in Seq(Sample)
               /\ Len(Stored(samples[e], new[e])) =
                    (IF Kept <= Len(samples[e]) THEN Kept ELSE Len(samples[e]) + 1)
               /\ \A i \in 1..Len(Stored(samples[e], new[e])) :
                    Stored(samples[e], new[e])[i] = (IF i = 1 THEN new[e] ELSE samples[e][i - 1])
    BY <2>3, StoredIs
  <2>5. ASSUME NEW e \in Endpoints
        PROVE  [failure[e] EXCEPT !.since = Min({Kept, @ + 1})] =
               [at |-> failure[e].at,
                since |-> IF Kept <= failure[e].since + 1 THEN Kept ELSE failure[e].since + 1]
    <3>1. Min({Kept, failure[e].since + 1}) =
            (IF Kept <= failure[e].since + 1 THEN Kept ELSE failure[e].since + 1)
      BY <2>3, MinOfTwo
    <3>2. failure[e] \in [at : Int, since : Nat]
      BY <2>3
    <3>3. QED
      BY <3>1, <3>2
  <2>6. HealthTypes'
    <3>1. samples' \in [Endpoints -> Seq(Sample)]
      BY <2>2, <2>3, <2>4
    <3>2. failure' \in [Endpoints -> [at : Int, since : Nat]]
      <4>1. ASSUME NEW e \in Endpoints
            PROVE  (IF e \notin probed THEN failure[e]
                    ELSE IF ~new[e].ok THEN [at |-> time, since |-> 0]
                    ELSE [failure[e] EXCEPT !.since = Min({Kept, @ + 1})])
                   \in [at : Int, since : Nat]
        <5>1. [at |-> time, since |-> 0] \in [at : Int, since : Nat]
          BY <2>3
        <5>2. [failure[e] EXCEPT !.since = Min({Kept, @ + 1})] \in [at : Int, since : Nat]
          <6> DEFINE n == IF Kept <= failure[e].since + 1 THEN Kept ELSE failure[e].since + 1
          <6>1. n \in Nat /\ failure[e].at \in Int
            BY <2>3
          <6>2. [failure[e] EXCEPT !.since = Min({Kept, @ + 1})] = [at |-> failure[e].at, since |-> n]
            BY <2>5
          <6> HIDE DEF n
          <6>3. QED
            BY <6>1, <6>2
        <5>3. QED
          BY <2>3, <5>1, <5>2
      <4>2. QED
        BY <2>2, <4>1
    <3>3. QED
      BY <2>1, <3>1, <3>2 DEF HealthTypes
  <2>7. NewestFirst'
    <3> SUFFICES ASSUME NEW e \in Endpoints,
                        NEW i \in 1..Len(samples'[e]), NEW j \in 1..Len(samples'[e])
                 PROVE  samples'[e][i].at <= time'
                        /\ (i <= j => samples'[e][i].at >= samples'[e][j].at)
      BY DEF NewestFirst
    <3>1. CASE e \notin probed
      BY <2>1, <2>2, <3>1 DEF NewestFirst
    <3>2. CASE e \in probed
      <4>1. samples'[e] = Stored(samples[e], new[e])
        BY <2>2, <3>2
      <4>2. \A k \in 1..Len(samples'[e]) :
              /\ samples'[e][k] = (IF k = 1 THEN new[e] ELSE samples[e][k - 1])
              /\ k # 1 => k - 1 \in 1..Len(samples[e])
        BY <2>3, <2>4, <4>1
      <4>3. new[e].at = time /\ time \in Nat
        BY <2>2, <2>3
      <4>4. \A k \in 1..Len(samples[e]) : samples[e][k].at \in Nat
        BY <2>3 DEF Sample
      <4>5. CASE i = 1
        BY <2>1, <4>2, <4>3, <4>5 DEF NewestFirst
      <4>6. CASE i # 1
        <5>1. samples'[e][i] = samples[e][i - 1] /\ i - 1 \in 1..Len(samples[e])
          BY <4>2, <4>6
        <5>2. i <= j => /\ samples'[e][j] = samples[e][j - 1] /\ j - 1 \in 1..Len(samples[e])
                        /\ i - 1 <= j - 1
          BY <4>2, <4>6
        <5>3. QED
          BY <2>1, <5>1, <5>2 DEF NewestFirst
      <4>7. QED
        BY <4>5, <4>6
    <3>3. QED
      BY <3>1, <3>2
  <2>8. FailureIsStored'
    <3> SUFFICES ASSUME NEW e \in Endpoints, NEW k, k = failure'[e].since + 1,
                        failure'[e].at >= 0, k <= Kept
                 PROVE  /\ k <= Len(samples'[e]) /\ ~samples'[e][k].ok
                        /\ samples'[e][k].at = failure'[e].at
      BY DEF FailureIsStored
    <3>1. CASE e \notin probed
      BY <2>2, <3>1 DEF FailureIsStored
    <3>2. CASE e \in probed
      <4>1. samples'[e] = Stored(samples[e], new[e])
        BY <2>2, <3>2
      <4>2. CASE ~new[e].ok
        <5>1. failure'[e] = [at |-> time, since |-> 0]
          BY <2>2, <3>2, <4>2
        <5>2. k = 1 /\ 1 \in 1..Len(samples'[e])
          BY <2>3, <2>4, <4>1, <5>1
        <5>3. samples'[e][1] = new[e]
          BY <2>4, <4>1, <5>2
        <5>4. QED
          BY <2>2, <2>3, <2>4, <4>1, <4>2, <5>1, <5>2, <5>3
      <4>3. CASE new[e].ok
        <5>1. /\ failure'[e].at = failure[e].at
              /\ failure'[e].since = (IF Kept <= failure[e].since + 1 THEN Kept
                                      ELSE failure[e].since + 1)
          BY <2>2, <2>5, <3>2, <4>3
        <5>2. k = failure[e].since + 2 /\ failure[e].since + 1 < Kept
          BY <2>3, <5>1
        <5>3. /\ failure[e].since + 1 <= Len(samples[e])
              /\ ~samples[e][failure[e].since + 1].ok
              /\ samples[e][failure[e].since + 1].at = failure[e].at
          BY <2>3, <5>1, <5>2 DEF FailureIsStored
        <5>4. k \in 1..Len(samples'[e]) /\ k # 1 /\ k - 1 = failure[e].since + 1
          <6>1. k <= Kept /\ k <= Len(samples[e]) + 1 /\ k >= 2 /\ k \in Nat
            BY <2>3, <5>2, <5>3
          <6>2. k <= Len(samples'[e]) /\ Len(samples'[e]) \in Nat
            BY <2>3, <2>4, <4>1, <6>1
          <6>3. QED
            BY <2>3, <5>2, <6>1, <6>2
        <5>5. samples'[e][k] = samples[e][failure[e].since + 1]
          BY <2>4, <4>1, <5>4
        <5>6. QED
          BY <5>1, <5>3, <5>4, <5>5
      <4>4. QED
        BY <4>2, <4>3
    <3>3. QED
      BY <3>1, <3>2
  <2>9. QED
    BY <2>6, <2>7, <2>8
<1>4. QED
  BY <1>1, <1>2, <1>3 DEF HealthNext

\* What the status of an endpoint is made of: some of its newest samples, without a gap.
LEMMA RowsAre ==
    ASSUME HealthTypes, NewestFirst, NEW e \in Endpoints
    PROVE  /\ RowsOf(e) \in SUBSET Nat /\ IsFiniteSet(RowsOf(e)) /\ Cardinality(RowsOf(e)) \in Nat
           /\ RowsOf(e) \subseteq 1..Len(samples[e])
           /\ \A i \in 1..Len(samples[e]) : samples[e][i] \in Sample
           /\ \A i \in 1..Len(samples[e]) :
                i <= Window /\ samples[e][i].at >= time - Evaluated => i \in RowsOf(e)
<1> DEFINE n == Min({Window, Len(samples[e])})
<1>1. samples[e] \in Seq(Sample) /\ Len(samples[e]) \in Nat /\ Window \in Nat /\ Window >= 3
  BY HealthAssumption, LenProperties DEF HealthTypes
<1>2. n = (IF Window <= Len(samples[e]) THEN Window ELSE Len(samples[e]))
  BY <1>1, MinOfTwo
<1>3. \A i \in 1..Len(samples[e]) : samples[e][i] \in Sample
  BY <1>1, ElementOfSeq
<1>4. RowsOf(e) \subseteq 1..n
  BY DEF RowsOf
<1>5. IsFiniteSet(1..n)
  BY <1>1, <1>2, FS_Interval
<1>6. IsFiniteSet(RowsOf(e)) /\ Cardinality(RowsOf(e)) \in Nat
  BY <1>4, <1>5, FS_Subset, FS_CardinalityType
<1>7. \A i \in 1..n : samples[e][i].at >= time - Evaluated => i \in RowsOf(e)
  BY DEF RowsOf
<1> HIDE DEF n
<1>8. QED
  BY <1>1, <1>2, <1>3, <1>4, <1>6, <1>7

LEMMA P95IsNatural ==
    ASSUME HealthTypes, NewestFirst, NEW e \in Endpoints, Reports(e)
    PROVE  P95(e) \in Nat
<1> DEFINE good == Good(e)
<1> DEFINE took == [i \in good |-> samples[e][i].latency]
<1> DEFINE upTo(l) == {i \in good : samples[e][i].latency <= l}
<1> DEFINE ranked == {l \in {samples[e][i].latency : i \in good} :
                        100 * Cardinality(upTo(l)) >= 95 * Cardinality(good)}
<1>1. good \subseteq RowsOf(e) /\ good # {}
  BY DEF Good, Reports
<1>2. IsFiniteSet(good) /\ Cardinality(good) \in Nat
  BY <1>1, RowsAre, FS_Subset, FS_CardinalityType
<1>3. \A i \in good : samples[e][i].latency \in Nat
  BY <1>1, RowsAre DEF Sample
<1> HIDE DEF good
<1>4. took \in [good -> Nat]
  BY <1>3
<1>5. PICK x \in good : \A y \in good : took[y] <= took[x]
  <2> HIDE DEF took
  <2>1. QED
    BY <1>1, <1>2, <1>4, GreatestValue
<1>6. upTo(samples[e][x].latency) = good
  BY <1>5
<1>7. samples[e][x].latency \in ranked
  <2>1. 100 * Cardinality(good) >= 95 * Cardinality(good)
    BY <1>2
  <2>2. QED
    BY <1>6, <2>1
<1>8. ranked \subseteq Nat
  BY <1>3
<1>9. P95(e) = Min(ranked)
  BY DEF P95, good
<1> HIDE DEF ranked
<1>10. QED
  BY <1>7, <1>8, <1>9, MinOfNaturals

\* An endpoint is selected only if it is healthy: of the healthy ones there is always one
\* that comes before the others.
LEMMA SelectedIsHealthy ==
    ASSUME HealthTypes, NewestFirst, NEW c, Selected(c) # Nobody
    PROVE  Selected(c) \in Endpoints /\ Status(Selected(c)) = "healthy"
<1> DEFINE healthy == {e \in Endpoints : ChainOf[e] = c /\ Status(e) = "healthy"}
<1> DEFINE cost(e) == <<P95(e), Priority[e]>>
<1> DEFINE before(x, y) == x[1] < y[1] \/ (x[1] = y[1] /\ x[2] <= y[2])
<1>1. /\ Selected(c) = (IF healthy = {} THEN Nobody
                        ELSE CHOOSE e \in healthy : \A f \in healthy : before(cost(e), cost(f)))
  BY DEF Selected
<1>2. healthy # {}
  BY <1>1
<1>3. \A e \in healthy : P95(e) \in Nat /\ Priority[e] \in Nat
  <2>1. \A e \in healthy : Reports(e)
    BY DEF Status, Reachable
  <2>2. QED
    BY <2>1, P95IsNatural, HealthAssumption
<1>4. healthy \subseteq {e \in Endpoints : Status(e) = "healthy"}
  OBVIOUS
<1> HIDE DEF healthy
<1>5. PICK p \in {P95(e) : e \in healthy} : \A q \in {P95(e) : e \in healthy} : p <= q
  <2>1. {P95(e) : e \in healthy} \subseteq Nat /\ {P95(e) : e \in healthy} # {}
    BY <1>2, <1>3
  <2>2. QED
    BY <2>1, LeastNatural
<1> DEFINE fastest == {e \in healthy : P95(e) = p}
<1>6. PICK k \in {Priority[e] : e \in fastest} : \A q \in {Priority[e] : e \in fastest} : k <= q
  <2>1. {Priority[e] : e \in fastest} \subseteq Nat /\ {Priority[e] : e \in fastest} # {}
    BY <1>3, <1>5
  <2>2. QED
    BY <2>1, LeastNatural
<1>7. PICK e \in fastest : Priority[e] = k
  BY <1>6
<1>8. \A f \in healthy : before(cost(e), cost(f))
  <2> SUFFICES ASSUME NEW f \in healthy PROVE before(cost(e), cost(f))
    OBVIOUS
  <2>1. P95(e) = p /\ p <= P95(f) /\ P95(f) \in Nat /\ p \in Nat
    BY <1>3, <1>5, <1>7
  <2>2. P95(f) = p => k <= Priority[f]
    BY <1>6
  <2>3. QED
    BY <1>7, <2>1, <2>2
<1>9. Selected(c) \in healthy
  <2> HIDE DEF before, cost
  <2>1. QED
    BY <1>1, <1>2, <1>7, <1>8
<1>10. QED
  BY <1>4, <1>9

\* An endpoint that failed is not selected while the failure counts, unless the samples
\* looked at are enough to bear one, and never on old samples; whatever is stored, pruned,
\* configured, switched or restarted, and however many endpoints and samples there are.
THEOREM FailuresAreRemembered == HealthSpec => []FailureIsRemembered
<1>1. HealthInit => HealthTypes /\ NewestFirst /\ FailureIsStored
  <2> SUFFICES ASSUME HealthInit PROVE HealthTypes /\ NewestFirst /\ FailureIsStored
    OBVIOUS
  <2>1. \A e \in Endpoints : samples[e] = <<>> /\ failure[e].at = -1
    BY DEF HealthInit, Never
  <2>2. HealthTypes
    BY DEF HealthInit, HealthTypes, Never
  <2>3. QED
    BY <2>1, <2>2 DEF NewestFirst, FailureIsStored
<1>2. HealthTypes /\ NewestFirst /\ FailureIsStored /\ [HealthNext]_hvars
        => HealthTypes' /\ NewestFirst' /\ FailureIsStored'
  <2>1. HealthTypes /\ NewestFirst /\ FailureIsStored /\ UNCHANGED hvars
          => HealthTypes' /\ NewestFirst' /\ FailureIsStored'
    BY DEF HealthTypes, NewestFirst, FailureIsStored, hvars, switches
  <2>2. QED
    BY <2>1, HealthStep
<1>3. ASSUME HealthTypes, NewestFirst, FailureIsStored PROVE FailureIsRemembered
  <2> SUFFICES ASSUME NEW e \in Endpoints, Status(e) = "healthy"
               PROVE  /\ samples[e][1].at >= time - MaxAge
                      /\ failure[e].at >= Max({0, time - Evaluated})
                           /\ failure[e].since < Min({Window, Kept}) =>
                           100 <= (100 - SuccessRate) * Cardinality(RowsOf(e))
    BY <1>3, SelectedIsHealthy DEF FailureIsRemembered
  <2> USE <1>3
  <2>0. /\ time \in Nat /\ MaxAge \in Nat /\ Evaluated \in Nat /\ Window \in Nat /\ Kept \in Nat
        /\ SuccessRate \in Nat
        /\ Len(samples[e]) \in Nat /\ failure[e] \in [at : Int, since : Nat]
    BY HealthAssumption, LenProperties DEF HealthTypes
  <2>1. RowsOf(e) # {} /\ time - Newest(e).at <= MaxAge /\ Reliable(e)
    BY DEF Status, Reachable, Fresh
  <2>2. Min(RowsOf(e)) \in RowsOf(e)
    BY <2>1, RowsAre, MinOfNaturals
  <2>3. samples[e][1].at >= time - MaxAge
    <3> DEFINE m == Min(RowsOf(e))
    <3>1. m \in 1..Len(samples[e]) /\ 1 \in 1..Len(samples[e]) /\ 1 <= m
      BY <2>0, <2>2, RowsAre
    <3>2. samples[e][1].at >= samples[e][m].at
      BY <3>1 DEF NewestFirst
    <3>3. samples[e][1].at \in Nat /\ samples[e][m].at \in Nat
      BY <3>1, RowsAre DEF Sample
    <3>4. time - samples[e][m].at <= MaxAge
      BY <2>1 DEF Newest
    <3>5. QED
      BY <2>0, <3>2, <3>3, <3>4
  <2>4. ASSUME failure[e].at >= Max({0, time - Evaluated}), failure[e].since < Min({Window, Kept})
        PROVE  100 <= (100 - SuccessRate) * Cardinality(RowsOf(e))
    <3> DEFINE k == failure[e].since + 1
    <3>1. failure[e].at >= 0 /\ failure[e].at >= time - Evaluated /\ k <= Window /\ k <= Kept
      BY <2>0, <2>4, MinOfTwo, MaxOfTwo
    <3>2. k \in 1..Len(samples[e]) /\ ~samples[e][k].ok /\ samples[e][k].at = failure[e].at
      BY <2>0, <3>1 DEF FailureIsStored
    <3>3. k \in RowsOf(e) /\ k \notin Good(e)
      BY <3>1, <3>2, RowsAre DEF Good
    <3>4. Good(e) \subseteq RowsOf(e) \ {k}
      BY <3>3 DEF Good
    <3>5. /\ Cardinality(RowsOf(e) \ {k}) = Cardinality(RowsOf(e)) - 1
          /\ Cardinality(Good(e)) <= Cardinality(RowsOf(e) \ {k})
          /\ Cardinality(Good(e)) \in Nat /\ Cardinality(RowsOf(e)) \in Nat
      <4>1. IsFiniteSet(RowsOf(e)) /\ Cardinality(RowsOf(e)) \in Nat
        BY RowsAre
      <4>2. /\ IsFiniteSet(RowsOf(e) \ {k})
            /\ Cardinality(RowsOf(e) \ {k}) = Cardinality(RowsOf(e)) - 1
        BY <3>3, <4>1, FS_RemoveElement
      <4>3. IsFiniteSet(Good(e)) /\ Cardinality(Good(e)) <= Cardinality(RowsOf(e) \ {k})
        BY <3>4, <4>2, FS_Subset
      <4>4. QED
        BY <4>1, <4>2, <4>3, FS_CardinalityType
    <3>6. 100 * Cardinality(Good(e)) >= SuccessRate * Cardinality(RowsOf(e))
      BY <2>1 DEF Reliable
    <3>7. ASSUME NEW g \in Nat, NEW n \in Nat, NEW r \in Nat, g <= n - 1, 100 * g >= r * n
          PROVE  100 <= (100 - r) * n
      <4>1. (100 - r) * n = 100 * n - r * n /\ r * n \in Nat
        OBVIOUS
      <4>2. 100 * g <= 100 * n - 100
        BY <3>7
      <4>3. QED
        BY <3>7, <4>1, <4>2
    <3>8. QED
      BY <2>0, <3>5, <3>6, <3>7
  <2>5. QED
    BY <2>3, <2>4
<1>4. QED
  BY <1>1, <1>2, <1>3, PTL DEF HealthSpec

-----------------------------------------------------------------------------
(* The wallet settings.                                                      *)

SettingsSpec == SettingsInit /\ [][SettingsNext]_settingsVars

\* the rows of the list, of requests and of imports
Requested == WatchRows \cup UNION {{rows[i] : i \in DOMAIN rows} : rows \in Imports}
NewIds    == Nat \X Nat
Wallets ==
    [id : NewIds \cup {r.id : r \in Requested}, address : {r.address : r \in Requested},
     chains : {r.chains : r \in Requested}, status : {"active", "paused"},
     enabled : BOOLEAN \cup {r.enabled : r \in Requested}]
KolEntries ==
    [id : NewIds \cup {r.id : r \in KolRows}, kol : {r.kol : r \in KolRows},
     address : {r.address : r \in KolRows}, chains : {r.chains : r \in KolRows},
     confidence : {r.confidence : r \in KolRows}, evidenced : {r.evidenced : r \in KolRows},
     status : {"active", "shadow-only", "revoked"} \cup {r.status : r \in KolRows}]

SettingsTypes == watch \in Seq(Wallets) /\ registry \in Seq(KolEntries) /\ saves \in Nat

\* Two rows of the list that name one address on one chain have one id.
NoClash == \A i, j \in 1..Len(watch) : Clash(watch[i], watch[j]) => watch[i].id = watch[j].id

\* Two rows of the registry have one id only if it came with blanks around it.
IdsDiffer ==
    \A i, j \in 1..Len(registry) : i # j /\ registry[i].id = registry[j].id => registry[i].id \in padded

\* What a row that is put into a list does to it, and what a status that is set does.
Appended(new, list, entry) ==
    /\ \A j \in 1..Len(list) : list[j].id # entry.id
    /\ Len(new) = Len(list) + 1
    /\ \A j \in 1..(Len(list) + 1) : new[j] = (IF j = Len(list) + 1 THEN entry ELSE list[j])
Replaced(new, list, entry) ==
    /\ Len(new) = Len(list)
    /\ \E k \in 1..Len(list) :
         /\ list[k].id = entry.id
         /\ \A j \in 1..Len(list) : new[j] = (IF j = k THEN entry ELSE list[j])
StatusSet(new, list, status) ==
    /\ Len(new) = Len(list)
    /\ \A j \in 1..Len(list) : new[j] \in {list[j], [list[j] EXCEPT !.status = status]}

LEMMA PutIs ==
    ASSUME NEW S, NEW list \in Seq(S), NEW entry \in S
    PROVE  /\ Put(list, entry) \in Seq(S)
           /\ Appended(Put(list, entry), list, entry) \/ Replaced(Put(list, entry), list, entry)
<1>1. Len(list) \in Nat /\ DOMAIN list = 1..Len(list)
  BY LenProperties
<1>2. CASE Places(list, entry.id) = {}
  <2>1. Put(list, entry) = Append(list, entry)
    BY <1>2 DEF Put
  <2>2. \A j \in 1..Len(list) : list[j].id # entry.id
    BY <1>1, <1>2 DEF Places
  <2>3. /\ Append(list, entry) \in Seq(S) /\ Len(Append(list, entry)) = Len(list) + 1
        /\ \A j \in 1..Len(list) : Append(list, entry)[j] = list[j]
        /\ Append(list, entry)[Len(list) + 1] = entry
    BY AppendProperties
  <2>4. \A j \in 1..(Len(list) + 1) :
           Put(list, entry)[j] = (IF j = Len(list) + 1 THEN entry ELSE list[j])
    BY <1>1, <2>1, <2>3
  <2>5. QED
    BY <2>1, <2>2, <2>3, <2>4 DEF Appended
<1>3. CASE Places(list, entry.id) # {}
  <2> DEFINE k == Min(Places(list, entry.id))
  <2>1. k \in 1..Len(list) /\ list[k].id = entry.id
    <3>1. Places(list, entry.id) \in SUBSET Nat
      BY <1>1 DEF Places
    <3>2. k \in Places(list, entry.id)
      BY <1>3, <3>1, MinOfNaturals
    <3>3. QED
      BY <1>1, <3>2 DEF Places
  <2>2. Put(list, entry) = [list EXCEPT ![k] = entry]
    BY <1>3 DEF Put
  <2> HIDE DEF k
  <2>3. /\ Put(list, entry) \in Seq(S) /\ Len(Put(list, entry)) = Len(list)
        /\ \A j \in 1..Len(list) : Put(list, entry)[j] = (IF j = k THEN entry ELSE list[j])
    BY <2>1, <2>2, ExceptSeq
  <2>4. QED
    BY <2>1, <2>3 DEF Replaced
<1>4. QED
  BY <1>2, <1>3

LEMMA NormalizedIs ==
    ASSUME saves \in Nat, NEW row \in Requested, ValidRow(row), NEW nth \in Nat
    PROVE  /\ Normalized(row, nth) \in Wallets
           /\ Normalized(row, nth).address = row.address
           /\ Normalized(row, nth).chains = row.chains
<1>1. IdOf(row, nth) \in NewIds \cup {r.id : r \in Requested}
  BY DEF IdOf, NewIds
<1>2. (IF row.enabled = Nothing THEN row.status = "active" ELSE row.enabled)
         \in BOOLEAN \cup {r.enabled : r \in Requested}
  OBVIOUS
<1>3. QED
  BY <1>1, <1>2 DEF Normalized, Wallets, ValidRow

\* A status of a row is set, and nothing else of the list.
LEMMA StatusIsSet ==
    ASSUME NEW S, NEW list \in Seq(S), NEW id, Places(list, id) # {}, NEW status,
           \A k \in 1..Len(list) : [list[k] EXCEPT !.status = status] \in S
    PROVE  LET new == [list EXCEPT ![Min(Places(list, id))].status = status]
           IN  new \in Seq(S) /\ StatusSet(new, list, status)
<1> DEFINE k == Min(Places(list, id))
<1>1. k \in 1..Len(list)
  <2>1. Places(list, id) \in SUBSET Nat /\ Places(list, id) \subseteq 1..Len(list)
    BY LenProperties DEF Places
  <2>2. QED
    BY <2>1, MinOfNaturals
<1> DEFINE new == [list EXCEPT ![Min(Places(list, id))].status = status]
<1>2. new = [list EXCEPT ![k] = [list[k] EXCEPT !.status = status]]
  OBVIOUS
<1> DEFINE e == [list[k] EXCEPT !.status = status]
<1>3. e \in S
  BY <1>1
<1> HIDE DEF k, e
<1>4. /\ [list EXCEPT ![k] = e] \in Seq(S) /\ Len([list EXCEPT ![k] = e]) = Len(list)
      /\ \A j \in 1..Len(list) : [list EXCEPT ![k] = e][j] = (IF j = k THEN e ELSE list[j])
  BY <1>1, <1>3, ExceptSeq
<1> HIDE DEF new
<1>5. new = [list EXCEPT ![k] = e]
  BY <1>2 DEF e
<1>6. new \in Seq(S) /\ StatusSet(new, list, status)
  BY <1>4, <1>5 DEF e, StatusSet
<1>7. QED
  BY <1>6 DEF new

\* The list after each of the requests that write it.
LEMMA UpsertKeeps ==
    ASSUME SettingsTypes, NoClash, NEW row \in WatchRows, UpsertWatch(row)
    PROVE  watch' \in Seq(Wallets) /\ NoClash'
<1> DEFINE w == Normalized(row, 1)
<1>1. w \in Wallets
  BY NormalizedIs DEF UpsertWatch, SettingsTypes, Requested
<1>2. watch' = Put(watch, w) /\ \A i \in DOMAIN watch : watch[i].id # w.id => ~Clash(watch[i], w)
  BY DEF UpsertWatch
<1> HIDE DEF w
<1>3. watch \in Seq(Wallets) /\ DOMAIN watch = 1..Len(watch) /\ Len(watch) \in Nat
  BY LenProperties DEF SettingsTypes
<1>4. \A i \in 1..Len(watch) :
         /\ Clash(watch[i], w) => watch[i].id = w.id
         /\ Clash(w, watch[i]) => watch[i].id = w.id
  BY <1>2, <1>3 DEF Clash
<1>5. watch' \in Seq(Wallets)
  BY <1>1, <1>2, <1>3, PutIs
<1>6. CASE /\ Len(watch') = Len(watch) + 1
           /\ \A j \in 1..(Len(watch) + 1) : watch'[j] = (IF j = Len(watch) + 1 THEN w ELSE watch[j])
  <2>1. \A j \in 1..Len(watch') : watch'[j] = w \/ (j \in 1..Len(watch) /\ watch'[j] = watch[j])
    BY <1>3, <1>6
  <2>2. QED
    BY <1>4, <1>5, <2>1 DEF NoClash
<1>7. ASSUME NEW k \in 1..Len(watch), Len(watch') = Len(watch),
             \A j \in 1..Len(watch) : watch'[j] = (IF j = k THEN w ELSE watch[j])
      PROVE  NoClash'
  <2>1. \A j \in 1..Len(watch') : watch'[j] = w \/ (j \in 1..Len(watch) /\ watch'[j] = watch[j])
    BY <1>7
  <2>2. QED
    BY <1>4, <2>1 DEF NoClash
<1>8. QED
  <2>1. Appended(watch', watch, w) \/ Replaced(watch', watch, w)
    BY <1>1, <1>2, <1>3, PutIs
  <2>2. QED
    BY <1>5, <1>6, <1>7, <2>1 DEF Appended, Replaced

LEMMA StatusKeeps ==
    ASSUME SettingsTypes, NoClash, NEW id, NEW s \in {"active", "paused"}, SetWatchStatus(id, s)
    PROVE  watch' \in Seq(Wallets) /\ NoClash'
<1>1. watch \in Seq(Wallets) /\ \A k \in 1..Len(watch) : watch[k] \in Wallets
  BY ElementOfSeq DEF SettingsTypes
<1>2. \A k \in 1..Len(watch) :
         LET w == [watch[k] EXCEPT !.status = s]
         IN  w \in Wallets /\ w.id = watch[k].id /\ w.address = watch[k].address
             /\ w.chains = watch[k].chains
  BY <1>1 DEF Wallets
<1>3. watch' \in Seq(Wallets) /\ StatusSet(watch', watch, s)
  <2>1. /\ Places(watch, id) # {}
        /\ watch' = [watch EXCEPT ![Min(Places(watch, id))].status = s]
    BY DEF SetWatchStatus
  <2>2. \A k \in 1..Len(watch) : [watch[k] EXCEPT !.status = s] \in Wallets
    BY <1>2
  <2>3. QED
    BY <1>1, <2>1, <2>2, StatusIsSet
<1>4. \A j \in 1..Len(watch) : watch'[j].id = watch[j].id /\ watch'[j].address = watch[j].address
                                /\ watch'[j].chains = watch[j].chains
  BY <1>2, <1>3 DEF StatusSet
<1>5. QED
  BY <1>3, <1>4 DEF NoClash, Clash, StatusSet

LEMMA DeleteKeeps ==
    ASSUME SettingsTypes, NoClash, NEW id, DeleteWatch(id)
    PROVE  watch' \in Seq(Wallets) /\ NoClash'
<1> DEFINE stay == DOMAIN watch \ Places(watch, id)
<1>1. PICK from \in [1..Cardinality(stay) -> stay] : watch' = [i \in DOMAIN from |-> watch[from[i]]]
  BY DEF DeleteWatch
<1>2. watch \in Seq(Wallets) /\ DOMAIN watch = 1..Len(watch) /\ Len(watch) \in Nat
      /\ \A i \in 1..Len(watch) : watch[i] \in Wallets
  BY LenProperties, ElementOfSeq DEF SettingsTypes
<1>3. Cardinality(stay) \in Nat
  <2>1. IsFiniteSet(1..Len(watch))
    BY <1>2, FS_Interval
  <2>2. QED
    BY <1>2, <2>1, FS_Subset, FS_CardinalityType
<1>4. \A i \in 1..Cardinality(stay) : from[i] \in 1..Len(watch)
  BY <1>2
<1> HIDE DEF stay
<1>5. watch' \in Seq(Wallets) /\ Len(watch') = Cardinality(stay)
  BY <1>1, <1>2, <1>3, <1>4
<1>6. \A i \in 1..Len(watch') : watch'[i] = watch[from[i]] /\ from[i] \in 1..Len(watch)
  BY <1>1, <1>4, <1>5
<1>7. QED
  BY <1>5, <1>6 DEF NoClash

LEMMA ImportKeeps ==
    ASSUME SettingsTypes, NoClash, NEW rows \in Imports, ImportWatch(rows)
    PROVE  watch' \in Seq(Wallets) /\ NoClash'
<1> DEFINE new == [i \in DOMAIN rows |-> Normalized(rows[i], i)]
<1> DEFINE n == Len(rows)
<1>1. /\ n \in 1..MaxRows /\ NewToAll(rows) /\ watch' = watch \o new
      /\ \A i \in DOMAIN rows : ValidRow(rows[i])
  BY DEF ImportWatch
<1>2. watch \in Seq(Wallets) /\ DOMAIN watch = 1..Len(watch) /\ Len(watch) \in Nat /\ saves \in Nat
  BY LenProperties DEF SettingsTypes
<1>3. n \in Nat /\ DOMAIN rows = 1..n
  BY SettingsAssumption, LenProperties
<1>4. \A i \in 1..n :
         /\ new[i] = Normalized(rows[i], i) /\ new[i] \in Wallets
         /\ new[i].address = rows[i].address /\ new[i].chains = rows[i].chains
  <2> SUFFICES ASSUME NEW i \in 1..n
               PROVE  LET w == Normalized(rows[i], i)
                      IN  w \in Wallets /\ w.address = rows[i].address /\ w.chains = rows[i].chains
    BY <1>3
  <2>1. i \in DOMAIN rows /\ i \in Nat
    BY <1>3
  <2>2. rows[i] \in Requested
    BY <2>1 DEF Requested
  <2>3. QED
    BY <1>1, <1>2, <2>1, <2>2, NormalizedIs
<1>5. new \in Seq(Wallets) /\ Len(new) = n
  BY <1>3, <1>4
<1> HIDE DEF new, n
<1>6. /\ watch' \in Seq(Wallets) /\ Len(watch') = Len(watch) + n
      /\ \A i \in 1..(Len(watch) + n) :
            watch'[i] = (IF i <= Len(watch) THEN watch[i] ELSE new[i - Len(watch)])
  BY <1>1, <1>2, <1>5, ConcatProperties
<1>7. \A i \in 1..n : new[i].address = rows[i].address /\ new[i].chains = rows[i].chains
  BY <1>4
<1>8. /\ \A i \in 1..n, j \in 1..Len(watch) : ~Clash(new[i], watch[j]) /\ ~Clash(watch[j], new[i])
      /\ \A i, j \in 1..n : i # j => ~Clash(new[i], new[j])
  BY <1>1, <1>2, <1>3, <1>7 DEF NewToAll, Clash
<1>9. SUFFICES ASSUME NEW i \in 1..Len(watch'), NEW j \in 1..Len(watch'), Clash(watch'[i], watch'[j])
               PROVE  watch'[i].id = watch'[j].id
  BY <1>6 DEF NoClash
<1>10. CASE i <= Len(watch) /\ j <= Len(watch)
  <2>1. i \in 1..Len(watch) /\ j \in 1..Len(watch) /\ watch'[i] = watch[i] /\ watch'[j] = watch[j]
    BY <1>2, <1>3, <1>6, <1>10
  <2>2. QED
    BY <1>9, <2>1 DEF NoClash
<1>11. CASE i > Len(watch) /\ j <= Len(watch)
  <2>1. i - Len(watch) \in 1..n /\ j \in 1..Len(watch)
        /\ watch'[i] = new[i - Len(watch)] /\ watch'[j] = watch[j]
    BY <1>2, <1>3, <1>6, <1>11
  <2>2. QED
    BY <1>8, <1>9, <2>1
<1>12. CASE i <= Len(watch) /\ j > Len(watch)
  <2>1. j - Len(watch) \in 1..n /\ i \in 1..Len(watch)
        /\ watch'[j] = new[j - Len(watch)] /\ watch'[i] = watch[i]
    BY <1>2, <1>3, <1>6, <1>12
  <2>2. QED
    BY <1>8, <1>9, <2>1
<1>13. CASE i > Len(watch) /\ j > Len(watch)
  <2>1. /\ i - Len(watch) \in 1..n /\ j - Len(watch) \in 1..n
        /\ watch'[i] = new[i - Len(watch)] /\ watch'[j] = new[j - Len(watch)]
        /\ i # j => i - Len(watch) # j - Len(watch)
    BY <1>2, <1>3, <1>6, <1>13
  <2>2. QED
    BY <1>8, <1>9, <2>1
<1>14. QED
  BY <1>2, <1>3, <1>6, <1>10, <1>11, <1>12, <1>13

\* The registry after the requests that write it.
LEMMA KolKeeps ==
    ASSUME SettingsTypes, IdsDiffer, NEW row \in KolRows, NEW blanks \in BOOLEAN, UpsertKol(row, blanks)
    PROVE  registry' \in Seq(KolEntries) /\ IdsDiffer' /\ Loads(registry)'
<1> DEFINE entry == [row EXCEPT !.id = IdOf(row, 1)]
<1>1. entry \in KolEntries
  <2>1. IdOf(row, 1) \in NewIds \cup {r.id : r \in KolRows}
    BY DEF IdOf, NewIds, SettingsTypes
  <2>2. entry = [id |-> IdOf(row, 1), kol |-> row.kol, address |-> row.address, chains |-> row.chains,
                 confidence |-> row.confidence, evidenced |-> row.evidenced, status |-> row.status]
    BY SettingsAssumption
  <2> HIDE DEF entry
  <2>3. QED
    BY <2>1, <2>2 DEF KolEntries
<1>2. /\ registry' = IF blanks THEN Append(registry, entry) ELSE Put(registry, entry)
      /\ padded' = IF blanks THEN padded \cup {entry.id} ELSE padded
      /\ Loads(registry)'
  BY DEF UpsertKol, Loads, Clash, ValidRegistry, ToSet
<1>3. registry \in Seq(KolEntries) /\ Len(registry) \in Nat
  BY LenProperties DEF SettingsTypes
<1> HIDE DEF entry
<1>4. registry' \in Seq(KolEntries)
  BY <1>1, <1>2, <1>3, PutIs, AppendProperties
<1>5. CASE /\ blanks \/ \A j \in 1..Len(registry) : registry[j].id # entry.id
           /\ Len(registry') = Len(registry) + 1
           /\ \A j \in 1..(Len(registry) + 1) :
                registry'[j] = (IF j = Len(registry) + 1 THEN entry ELSE registry[j])
  <2>1. \A j \in 1..Len(registry') :
           IF j = Len(registry) + 1 THEN registry'[j] = entry
           ELSE j \in 1..Len(registry) /\ registry'[j] = registry[j]
    BY <1>3, <1>5
  <2>2. padded \subseteq padded' /\ (blanks => entry.id \in padded')
    BY <1>2
  <2>3. IdsDiffer'
    BY <1>5, <2>1, <2>2 DEF IdsDiffer
  <2>4. QED
    BY <1>2, <1>4, <2>3
<1>6. ASSUME NEW k \in 1..Len(registry), registry[k].id = entry.id, Len(registry') = Len(registry),
             \A j \in 1..Len(registry) : registry'[j] = (IF j = k THEN entry ELSE registry[j])
      PROVE  IdsDiffer'
  <2>1. \A j \in 1..Len(registry') : j \in 1..Len(registry) /\ registry'[j].id = registry[j].id
    BY <1>6
  <2>2. padded \subseteq padded'
    BY <1>2
  <2>3. QED
    BY <2>1, <2>2 DEF IdsDiffer
<1>7. CASE blanks
  <2>1. /\ Len(registry') = Len(registry) + 1
        /\ \A j \in 1..Len(registry) : registry'[j] = registry[j]
        /\ registry'[Len(registry) + 1] = entry
    BY <1>1, <1>2, <1>3, <1>7, AppendProperties
  <2>2. \A j \in 1..(Len(registry) + 1) :
           registry'[j] = (IF j = Len(registry) + 1 THEN entry ELSE registry[j])
    BY <1>3, <2>1
  <2>3. QED
    BY <1>5, <1>7, <2>1, <2>2
<1>8. CASE ~blanks
  <2>1. Appended(registry', registry, entry) \/ Replaced(registry', registry, entry)
    BY <1>1, <1>2, <1>3, <1>8, PutIs
  <2>2. QED
    BY <1>2, <1>4, <1>5, <1>6, <2>1 DEF Appended, Replaced
<1>9. QED
  BY <1>7, <1>8

LEMMA KolStatusKeeps ==
    ASSUME SettingsTypes, IdsDiffer, NEW id, NEW s \in {"active", "shadow-only", "revoked"},
           SetKolStatus(id, s)
    PROVE  registry' \in Seq(KolEntries) /\ IdsDiffer' /\ Loads(registry)'
<1>1. registry \in Seq(KolEntries) /\ \A k \in 1..Len(registry) : registry[k] \in KolEntries
  BY ElementOfSeq DEF SettingsTypes
<1>2. \A k \in 1..Len(registry) :
         LET w == [registry[k] EXCEPT !.status = s] IN w \in KolEntries /\ w.id = registry[k].id
  BY <1>1 DEF KolEntries
<1>3. registry' \in Seq(KolEntries) /\ StatusSet(registry', registry, s)
  <2>1. /\ Places(registry, id) # {}
        /\ registry' = [registry EXCEPT ![Min(Places(registry, id))].status = s]
    BY DEF SetKolStatus
  <2>2. \A k \in 1..Len(registry) : [registry[k] EXCEPT !.status = s] \in KolEntries
    BY <1>2
  <2>3. QED
    BY <1>1, <2>1, <2>2, StatusIsSet
<1>4. \A j \in 1..Len(registry) : registry'[j].id = registry[j].id
  BY <1>2, <1>3 DEF StatusSet
<1>5. Loads(registry)' /\ padded' = padded
  BY DEF SetKolStatus, Loads, Clash, ValidRegistry, ToSet
<1>6. QED
  BY <1>3, <1>4, <1>5 DEF IdsDiffer, StatusSet

LEMMA SettingsStep ==
    ASSUME SettingsTypes, NoClash, IdsDiffer, Loads(registry), SettingsNext
    PROVE  SettingsTypes' /\ NoClash' /\ IdsDiffer' /\ Loads(registry)'
<1>1. saves' \in Nat
  <2>1. \A lines : Saves(lines) => saves' \in Nat
    BY DEF Saves, SettingsTypes
  <2>2. WriteTrail \/ Interrupted => saves' \in Nat
    BY DEF WriteTrail, Interrupted, SettingsTypes
  <2>3. QED
    BY <2>1, <2>2 DEF SettingsNext, UpsertWatch, SetWatchStatus, DeleteWatch, ImportWatch,
                      UpsertKol, SetKolStatus
<1>2. CASE watch' \in Seq(Wallets) /\ NoClash' /\ UNCHANGED <<registry, padded>>
  BY <1>1, <1>2 DEF SettingsTypes, IdsDiffer, Loads, Clash, ValidRegistry, ToSet
<1>3. CASE registry' \in Seq(KolEntries) /\ IdsDiffer' /\ Loads(registry)' /\ watch' = watch
  BY <1>1, <1>3 DEF SettingsTypes, NoClash
<1>4. ASSUME NEW row \in WatchRows, UpsertWatch(row) PROVE watch' \in Seq(Wallets) /\ NoClash' /\ UNCHANGED <<registry, padded>>
  BY <1>4, UpsertKeeps DEF UpsertWatch
<1>5. ASSUME NEW id, NEW s \in {"active", "paused"}, SetWatchStatus(id, s)
      PROVE  watch' \in Seq(Wallets) /\ NoClash' /\ UNCHANGED <<registry, padded>>
  BY <1>5, StatusKeeps DEF SetWatchStatus
<1>6. ASSUME NEW id, DeleteWatch(id) PROVE watch' \in Seq(Wallets) /\ NoClash' /\ UNCHANGED <<registry, padded>>
  BY <1>6, DeleteKeeps DEF DeleteWatch
<1>7. ASSUME NEW rows \in Imports, ImportWatch(rows)
      PROVE  watch' \in Seq(Wallets) /\ NoClash' /\ UNCHANGED <<registry, padded>>
  BY <1>7, ImportKeeps DEF ImportWatch
<1>8. ASSUME NEW row \in KolRows, NEW blanks \in BOOLEAN, UpsertKol(row, blanks)
      PROVE  registry' \in Seq(KolEntries) /\ IdsDiffer' /\ Loads(registry)' /\ watch' = watch
  BY <1>8, KolKeeps DEF UpsertKol
<1>9. ASSUME NEW id, NEW s \in {"active", "shadow-only", "revoked"}, SetKolStatus(id, s)
      PROVE  registry' \in Seq(KolEntries) /\ IdsDiffer' /\ Loads(registry)' /\ watch' = watch
  BY <1>9, KolStatusKeeps DEF SetKolStatus
<1>10. CASE WriteTrail \/ Interrupted
  BY <1>1, <1>10 DEF WriteTrail, Interrupted, SettingsTypes, NoClash, IdsDiffer, Loads, Clash, ValidRegistry, ToSet
<1>11. QED
  BY <1>2, <1>3, <1>4, <1>5, <1>6, <1>7, <1>8, <1>9, <1>10 DEF SettingsNext

\* No sequence of requests, of whatever rows and imports, leaves a list that the watcher
\* refuses, but for ids that came in twice, or a registry that the risk engine refuses; an id
\* is twice in the registry only after a request with blanks around it.
THEOREM SettingsStayUsable == SettingsSpec => []SettingsAreUsable
<1>1. SettingsInit => SettingsTypes /\ NoClash /\ IdsDiffer /\ Loads(registry)
  <2> SUFFICES ASSUME SettingsInit
               PROVE  SettingsTypes /\ NoClash /\ IdsDiffer /\ Loads(registry)
    OBVIOUS
  <2>1. watch = <<>> /\ registry = <<>> /\ saves = 0
    BY DEF SettingsInit
  <2>2. ToSet(registry) = {}
    BY <2>1 DEF ToSet
  <2>3. QED
    BY <2>1, <2>2 DEF SettingsTypes, NoClash, IdsDiffer, Loads, ValidRegistry
<1>2. SettingsTypes /\ NoClash /\ IdsDiffer /\ Loads(registry) /\ [SettingsNext]_settingsVars
        => SettingsTypes' /\ NoClash' /\ IdsDiffer' /\ Loads(registry)'
  <2>1. SettingsTypes /\ NoClash /\ IdsDiffer /\ Loads(registry) /\ UNCHANGED settingsVars
          => SettingsTypes' /\ NoClash' /\ IdsDiffer' /\ Loads(registry)'
    BY DEF SettingsTypes, NoClash, IdsDiffer, settingsVars, Loads, Clash, ValidRegistry, ToSet
  <2>2. QED
    BY <2>1, SettingsStep
<1>3. ASSUME SettingsTypes, NoClash, IdsDiffer, Loads(registry) PROVE SettingsAreUsable
  <2>1. DOMAIN watch = 1..Len(watch) /\ DOMAIN registry = 1..Len(registry) /\ Len(registry) \in Nat
    BY <1>3, LenProperties DEF SettingsTypes
  <2>2. \A c : \A i, j \in Chosen(c) :
           watch[i].address = watch[j].address => watch[i].id = watch[j].id
    BY <1>3, <2>1 DEF NoClash, Chosen, Clash
  <2>3. QED
    BY <1>3, <2>1, <2>2 DEF SettingsAreUsable, IdsDiffer
<1>4. QED
  BY <1>1, <1>2, <1>3, PTL DEF SettingsSpec

-----------------------------------------------------------------------------
(* The risk engine fails closed.                                             *)

\* No check of an approved evaluation rejects or defers.
LEMMA ApprovedMeansPassed ==
  ASSUME NEW p, NEW reg, NEW seen, NEW s, NEW facts, NEW t,
         Outcome(Checks(p, reg, seen, s, facts, t)) = "approved_for_shadow",
         NEW c \in DOMAIN Checks(p, reg, seen, s, facts, t)
  PROVE  Checks(p, reg, seen, s, facts, t)[c].status \notin {"reject", "defer"}
<1> DEFINE checks == Checks(p, reg, seen, s, facts, t)
<1>1. Outcome(checks) = "approved_for_shadow" /\ c \in DOMAIN checks
  OBVIOUS
<1> HIDE DEF checks
<1>2. checks[c].status \notin {"reject", "defer"}
  BY <1>1 DEF Outcome
<1>3. QED
  BY <1>2 DEF checks

\* A check that found something bad does not pass.
LEMMA PassedMeansNone ==
  ASSUME NEW bad, Judged(bad).status \notin {"reject", "defer"}
  PROVE  bad = {}
BY DEF Judged, Pass

LEMMA DeferredIsNotPassed ==
  ASSUME NEW why PROVE Defer(why).status = "defer"
BY DEF Defer

\* What is approved has every fact, each within the policy: an asset, an exposure and a
\* health that were read, quotes of enough providers of which the last are fresh, an exit
\* plan and, where the policy asks for it, a simulation that succeeded; the signal was not
\* remembered, and one that is not of a wallet source is of an unexpired entry of its own
\* author (ReadOnlyRiskEngine.evaluate).
THEOREM ApprovalNeedsFacts ==
  ASSUME NEW p, NEW reg, NEW seen, NEW s, NEW facts, NEW t,
         facts.exitPlan \in BOOLEAN, facts.simulated \in BOOLEAN \cup {Nothing},
         Outcome(Checks(p, reg, seen, s, facts, t)) = "approved_for_shadow"
  PROVE  /\ s.id \notin Remembered(p, seen, t)
         /\ s.source \in p.allowed
         /\ s.source \in WalletSources
              \/ \E w \in Resolve(reg, s.chain, s.wallet) :
                   w.kol = s.kol /\ w.status # "revoked" /\ ~(w.expires <= t)
         /\ facts.asset # Nothing /\ OutOfBounds(p, facts.asset) = {}
         /\ \A f \in AssetFlags : facts.asset[f]
         /\ ~(Cardinality(UniqueQuotes(facts.quotes)) < p.minQuotes)
         /\ \A q \in UniqueQuotes(facts.quotes) : ~(t - q.at > p.maxQuoteAge)
         /\ facts.exposure # Nothing /\ OutOfBounds(p, facts.exposure) = {}
         /\ facts.exposure.held \/ ~(facts.exposure.open >= p.maxOpen)
         /\ facts.health # Nothing /\ ~facts.health.tripped
         /\ facts.exitPlan
         /\ p.needsSimulation => facts.simulated = TRUE
<1> DEFINE checks == Checks(p, reg, seen, s, facts, t)
<1>1. /\ checks.dedupe.status \notin {"reject", "defer"}
      /\ checks.source.status \notin {"reject", "defer"}
      /\ checks.identity.status \notin {"reject", "defer"}
      /\ checks.asset.status \notin {"reject", "defer"}
      /\ checks.quotes.status \notin {"reject", "defer"}
      /\ checks.exposure.status \notin {"reject", "defer"}
      /\ checks.health.status \notin {"reject", "defer"}
      /\ checks.exitPlan.status \notin {"reject", "defer"}
      /\ checks.simulation.status \notin {"reject", "defer"}
  <2>1. {"dedupe", "source", "identity", "asset", "quotes", "exposure", "health", "exitPlan", "simulation"}
          \subseteq DOMAIN checks
    BY DEF Checks
  <2> HIDE DEF checks
  <2>2. \A c \in DOMAIN checks : checks[c].status \notin {"reject", "defer"}
    BY ApprovedMeansPassed DEF checks
  <2>3. QED
    BY <2>1, <2>2
<1>2. /\ checks.dedupe = DedupeCheck(p, seen, s, t) /\ checks.source = SourceCheck(p, s)
      /\ checks.identity = IdentityCheck(p, reg, s, t)
      /\ checks.asset = AssetCheck(p, facts.asset)
      /\ checks.quotes = QuotesCheck(p, facts.quotes, t)
      /\ checks.exposure = ExposureCheck(p, facts.exposure)
      /\ checks.health = HealthCheck(p, s.chain[1], facts.health)
      /\ checks.exitPlan = (IF facts.exitPlan THEN Pass ELSE Defer("exit_plan_required"))
      /\ checks.simulation = SimulationCheck(p, facts.simulated)
  BY DEF Checks
<1> HIDE DEF checks
<1>3. s.id \notin Remembered(p, seen, t) /\ s.source \in p.allowed
  BY <1>1, <1>2, PassedMeansNone DEF DedupeCheck, SourceCheck, Unless
<1>4. s.source \in WalletSources
        \/ \E w \in Resolve(reg, s.chain, s.wallet) :
             w.kol = s.kol /\ w.status # "revoked" /\ ~(w.expires <= t)
  <2> SUFFICES ASSUME s.source \notin WalletSources
               PROVE  \E w \in Resolve(reg, s.chain, s.wallet) :
                        w.kol = s.kol /\ w.status # "revoked" /\ ~(w.expires <= t)
    OBVIOUS
  <2> DEFINE found == Resolve(reg, s.chain, s.wallet)
             w     == CHOOSE e \in found : TRUE
  <2>1. IdentityCheck(p, reg, s, t) =
          Judged(IF found = {} THEN {"wallet_not_registered"}
                 ELSE IF w.kol # s.kol THEN {"wallet_kol_mismatch"}
                 ELSE IF w.status = "revoked" THEN {"wallet_revoked"}
                 ELSE IF w.expires <= t THEN {"wallet_mapping_expired"}
                 ELSE IF Min({w.confidence, s.confidence}) < p.minConfidence
                      THEN {"wallet_confidence_too_low"}
                 ELSE {})
    BY DEF IdentityCheck
  <2> HIDE DEF found
  <2>2. (IF found = {} THEN {"wallet_not_registered"}
         ELSE IF w.kol # s.kol THEN {"wallet_kol_mismatch"}
         ELSE IF w.status = "revoked" THEN {"wallet_revoked"}
         ELSE IF w.expires <= t THEN {"wallet_mapping_expired"}
         ELSE IF Min({w.confidence, s.confidence}) < p.minConfidence
              THEN {"wallet_confidence_too_low"}
         ELSE {}) = {}
    BY <1>1, <1>2, <2>1, PassedMeansNone
  <2>3. found # {} /\ w \in found
    BY <2>2
  <2>4. w.kol = s.kol /\ w.status # "revoked" /\ ~(w.expires <= t)
    BY <2>2, <2>3
  <2>5. QED
    BY <2>3, <2>4 DEF found
<1>5. /\ facts.asset # Nothing /\ OutOfBounds(p, facts.asset) = {}
      /\ \A f \in AssetFlags : facts.asset[f]
  <2>1. facts.asset # Nothing
    BY <1>1, <1>2, DeferredIsNotPassed DEF AssetCheck
  <2>2. OutOfBounds(p, facts.asset) \cup {f \in AssetFlags : ~facts.asset[f]} = {}
    BY <1>1, <1>2, <2>1, PassedMeansNone DEF AssetCheck
  <2>3. QED
    BY <2>1, <2>2
<1>6. /\ ~(Cardinality(UniqueQuotes(facts.quotes)) < p.minQuotes)
      /\ \A q \in UniqueQuotes(facts.quotes) : ~(t - q.at > p.maxQuoteAge)
  <2> DEFINE unique == UniqueQuotes(facts.quotes)
  <2>1. QuotesCheck(p, facts.quotes, t) =
          IF Cardinality(unique) < p.minQuotes THEN Defer("independent_quotes_required")
          ELSE Judged({f \in {"quote_too_old"} : \E q \in unique : t - q.at > p.maxQuoteAge}
                 \cup {f \in {"price_impact_too_high"} : \E q \in unique : q.impact > p.maxImpact}
                 \cup {f \in {"quote_divergence_too_high"} : Diverged(p, {q.output : q \in unique})})
    BY DEF QuotesCheck
  <2> HIDE DEF unique
  <2>2. ~(Cardinality(unique) < p.minQuotes)
    BY <1>1, <1>2, <2>1, DeferredIsNotPassed
  <2>3. {f \in {"quote_too_old"} : \E q \in unique : t - q.at > p.maxQuoteAge}
                 \cup {f \in {"price_impact_too_high"} : \E q \in unique : q.impact > p.maxImpact}
                 \cup {f \in {"quote_divergence_too_high"} : Diverged(p, {q.output : q \in unique})} = {}
    BY <1>1, <1>2, <2>1, <2>2, PassedMeansNone
  <2>4. \A q \in unique : ~(t - q.at > p.maxQuoteAge)
    BY <2>3
  <2>5. QED
    BY <2>2, <2>4 DEF unique
<1>7. /\ facts.exposure # Nothing /\ OutOfBounds(p, facts.exposure) = {}
      /\ facts.exposure.held \/ ~(facts.exposure.open >= p.maxOpen)
  <2>1. facts.exposure # Nothing
    BY <1>1, <1>2, DeferredIsNotPassed DEF ExposureCheck
  <2>2. {f \in {"token", "kolDaily", "globalDaily"} : facts.exposure[f] + p.buyUsd > p.spend[f]}
           \cup {f \in {"openPositions"} : ~facts.exposure.held /\ facts.exposure.open >= p.maxOpen}
           \cup OutOfBounds(p, facts.exposure) = {}
    BY <1>1, <1>2, <2>1, PassedMeansNone DEF ExposureCheck
  <2>3. QED
    BY <2>1, <2>2
<1>8. facts.health # Nothing /\ ~facts.health.tripped
  <2>1. facts.health # Nothing
    BY <1>1, <1>2, DeferredIsNotPassed DEF HealthCheck
  <2> DEFINE health == facts.health
             others == {f \in {"clock_offset_too_high"} :
                          Max({health.clockOffset, -health.clockOffset}) > p.maxClockOffset}
                 \cup {f \in {"primary_stream_disconnected"} : p.needsStream /\ ~health.connected}
                 \cup {f \in {"whitelist_stale"} : p.needsWhitelist /\ ~health.whitelistFresh}
                 \cup {f \in {"rpc_lagging"} : health.lag[s.chain[1]] > p.maxLag[s.chain[1]]}
  <2>2. HealthCheck(p, s.chain[1], facts.health) =
          Judged({f \in {"circuit_breaker_tripped"} : health.tripped} \cup others)
    <3>1. {f \in {"circuit_breaker_tripped"} : health.tripped} \cup others =
          {f \in {"circuit_breaker_tripped"} : health.tripped}
           \cup {f \in {"clock_offset_too_high"} :
                    Max({health.clockOffset, -health.clockOffset}) > p.maxClockOffset}
           \cup {f \in {"primary_stream_disconnected"} : p.needsStream /\ ~health.connected}
           \cup {f \in {"whitelist_stale"} : p.needsWhitelist /\ ~health.whitelistFresh}
           \cup {f \in {"rpc_lagging"} : health.lag[s.chain[1]] > p.maxLag[s.chain[1]]}
      BY Zenon
    <3>2. QED
      BY <2>1, <3>1 DEF HealthCheck
  <2> HIDE DEF others, health
  <2>3. {f \in {"circuit_breaker_tripped"} : health.tripped} \cup others = {}
    BY <1>1, <1>2, <2>2, PassedMeansNone
  <2>4. QED
    BY <2>1, <2>3, Zenon DEF health
<1>9. facts.exitPlan
  BY <1>1, <1>2, DeferredIsNotPassed
<1>10. p.needsSimulation => facts.simulated = TRUE
  <2> SUFFICES ASSUME p.needsSimulation PROVE facts.simulated = TRUE
    OBVIOUS
  <2>1. facts.simulated # Nothing
    BY <1>1, <1>2, DeferredIsNotPassed DEF SimulationCheck
  <2>2. SimulationCheck(p, facts.simulated) = Unless(facts.simulated, "transaction_simulation_failed")
    BY <2>1 DEF SimulationCheck
  <2>3. facts.simulated \in BOOLEAN
    BY <2>1
  <2>4. QED
    BY <1>1, <1>2, <2>2, <2>3, PassedMeansNone DEF Unless
<1>11. QED
  BY <1>3, <1>4, <1>5, <1>6, <1>7, <1>8, <1>9, <1>10

-----------------------------------------------------------------------------
(* The route planner.                                                        *)

\* The choice among the eligible quotes, given the best output there is.
Choice(p, eligible, best) ==
    LET quality == {q \in eligible : q.output * 10000 >= best * (10000 - p.sacrifice)}
    IN  IF Cardinality({q.provider : q \in eligible}) < p.minRoutes THEN NoRoute
        ELSE IF quality = {} THEN NoRoute
        ELSE CHOOSE q \in quality : \A r \in quality : Faster(q, r)

BestOf(eligible, reference) == Max({reference} \cup {q.output : q \in eligible})

ChoiceAmong(p, eligible, reference) == Choice(p, eligible, BestOf(eligible, reference))

LEMMA SelectIs ==
    ASSUME NEW p, NEW where, NEW quotes, NEW reference
    PROVE  Select(p, where, quotes, reference) = ChoiceAmong(p, Eligible(p, where, quotes), reference)
BY DEF Select, ChoiceAmong, Choice, BestOf

\* A quote that is turned down counts for nothing: without any set of those the same
\* route is chosen (FastRoutePlanner.select).
THEOREM RefusedCountsNothing ==
    ASSUME NEW p, NEW where, NEW quotes, NEW reference,
           NEW turnedDown \in SUBSET (quotes \ Eligible(p, where, quotes))
    PROVE  Select(p, where, quotes \ turnedDown, reference) = Select(p, where, quotes, reference)
<1>1. Eligible(p, where, quotes \ turnedDown) = Eligible(p, where, quotes)
  BY DEF Eligible
<1>2. QED
  BY <1>1, SelectIs

LEMMA Scaling ==
    ASSUME NEW a \in Nat, NEW b \in Nat, NEW k \in Nat, a <= b
    PROVE  a * k <= b * k /\ a * k \in Nat /\ b * k \in Nat /\ k * a <= k * b
OBVIOUS

\* What is known of the quotes a planner is given: amounts and times are numbers.
QuotesAreNumbers(quotes) ==
    /\ IsFiniteSet(quotes)
    /\ \A q \in quotes : q.output \in Int /\ q.latency \in Nat /\ q.submit \in Nat /\ q.rank \in Nat

\* A quote gives enough of what could be had.
Worth(p, q, best) == q.output * 10000 >= best * (10000 - p.sacrifice)

\* The best output of the eligible quotes and the reference.
LEMMA BestOutput ==
    ASSUME NEW p, NEW where, NEW quotes, QuotesAreNumbers(quotes), NEW reference \in Nat
    PROVE  LET eligible == Eligible(p, where, quotes)
               best     == BestOf(eligible, reference)
           IN  /\ best \in Nat /\ best >= reference
               /\ \A q \in eligible : best >= q.output
               /\ best = reference \/ \E q \in eligible : best = q.output
<1> DEFINE eligible == Eligible(p, where, quotes)
           all      == {reference} \cup {q.output : q \in eligible}
<1>1. IsFiniteSet(eligible) /\ eligible \subseteq quotes
  BY FS_Subset DEF Eligible, QuotesAreNumbers
<1>2. \A q \in eligible : q.output \in Nat
  <2> SUFFICES ASSUME NEW q \in eligible PROVE q.output \in Nat
    OBVIOUS
  <2>1. q.output \in Int /\ Problems(p, where, q) = {}
    BY DEF Eligible, QuotesAreNumbers
  <2>2. {x \in {"invalid_output"} : q.output <= 0} \subseteq Problems(p, where, q)
    BY DEF Problems
  <2>3. ~(q.output <= 0)
    BY <2>1, <2>2
  <2>4. QED
    BY <2>1, <2>3
<1> HIDE DEF eligible
<1>3. \E best \in all : \A x \in all : best >= x
  <2>1. CASE eligible = {}
    <3>1. all = {reference}
      BY <2>1
    <3>2. QED
      BY <3>1
  <2>2. CASE eligible # {}
    <3> DEFINE f == [q \in eligible |-> q.output]
    <3>1. f \in [eligible -> Nat] /\ \A q \in eligible : f[q] = q.output
      BY <1>2
    <3> HIDE DEF f
    <3>2. PICK q \in eligible : \A r \in eligible : f[r] <= f[q]
      BY <1>1, <2>2, <3>1, GreatestValue
    <3>3. q.output \in Nat /\ \A r \in eligible : r.output \in Nat /\ r.output <= q.output
      BY <1>2, <3>1, <3>2
    <3>4. CASE reference <= q.output
      BY <3>3, <3>4
    <3>5. CASE ~(reference <= q.output)
      BY <3>3, <3>5
    <3>6. QED
      BY <3>4, <3>5
  <2>3. QED
    BY <2>1, <2>2
<1>4. all \subseteq Nat
  BY <1>2
<1>5. Max(all) \in all /\ \A x \in all : Max(all) >= x
  <2> HIDE DEF all
  <2>1. QED
    BY <1>3 DEF Max
<1>6. Max(all) \in Nat
  BY <1>4, <1>5
<1>7. Max(all) = reference \/ \E q \in eligible : Max(all) = q.output
  BY <1>5
<1>8. BestOf(eligible, reference) = Max(all)
  BY DEF BestOf
<1> HIDE DEF all
<1>9. /\ Max(all) \in Nat /\ Max(all) >= reference
      /\ \A q \in eligible : Max(all) >= q.output
      /\ Max(all) = reference \/ \E q \in eligible : Max(all) = q.output
  BY <1>5, <1>6, <1>7 DEF all
<1>10. QED
  BY <1>8, <1>9 DEF eligible

\* Of some quotes one is before all others in the order of the planner.
LEMMA FastestExists ==
    ASSUME NEW some, some # {}, IsFiniteSet(some),
           \A q \in some : q.output \in Nat /\ q.latency \in Nat /\ q.submit \in Nat /\ q.rank \in Nat
    PROVE  \E q \in some : \A r \in some : Faster(q, r)
<1> DEFINE total(x) == x.latency + x.submit
           Times   == {total(x) : x \in some}
<1>1. PICK t \in Times : \A u \in Times : t <= u
  <2>1. Times \subseteq Nat /\ Times # {}
    OBVIOUS
  <2> HIDE DEF Times
  <2>2. QED
    BY <2>1, LeastNatural
<1> DEFINE first == {x \in some : total(x) = t}
<1>2. /\ first # {} /\ IsFiniteSet(first) /\ t \in Nat
      /\ \A x \in some : t <= total(x) /\ total(x) \in Nat
      /\ first \subseteq some /\ \A x \in some : x \in first <=> total(x) = t
  BY <1>1, FS_Subset
<1> HIDE DEF first, Times
<1> DEFINE f == [q \in first |-> q.output]
<1>3. f \in [first -> Nat] /\ \A q \in first : f[q] = q.output
  BY <1>2
<1> HIDE DEF f
<1>4. PICK most \in first : \A r \in first : r.output <= most.output
  BY <1>2, <1>3, GreatestValue
<1> DEFINE second == {x \in first : x.output = most.output}
           Ranks  == {x.rank : x \in second}
<1>5. PICK rank \in Ranks : \A u \in Ranks : rank <= u
  <2>1. Ranks \subseteq Nat /\ Ranks # {}
    BY <1>2, <1>4
  <2> HIDE DEF Ranks
  <2>2. QED
    BY <2>1, LeastNatural
<1>6. PICK q \in second : rank = q.rank
  BY <1>5
<1>7. \A r \in some : Faster(q, r)
  <2> SUFFICES ASSUME NEW r \in some PROVE Faster(q, r)
    OBVIOUS
  <2>1. q \in some /\ q \in first /\ total(q) = t /\ q.output = most.output
    BY <1>2, <1>6
  <2>2. CASE r \notin first
    <3>1. total(q) < total(r)
      <4>1. total(r) # t /\ t <= total(r) /\ total(r) \in Nat
        BY <1>2, <2>2
      <4> HIDE DEF total
      <4>2. QED
        BY <1>2, <2>1, <4>1
    <3>2. QED
      BY <3>1 DEF Faster
  <2>3. CASE r \in first /\ r \notin second
    <3>1. total(q) = total(r) /\ q.output > r.output
      <4>1. total(r) = t /\ r.output # most.output /\ r.output <= most.output
        BY <1>2, <1>4, <2>3
      <4>2. r.output \in Nat /\ most.output \in Nat
        BY <1>2, <1>4
      <4>3. QED
        BY <2>1, <4>1, <4>2
    <3>2. QED
      BY <3>1 DEF Faster
  <2>4. CASE r \in second
    <3>1. total(q) = total(r) /\ q.output = r.output /\ q.rank <= r.rank
      BY <1>2, <1>5, <1>6, <2>1, <2>4
    <3>2. QED
      BY <3>1 DEF Faster
  <2>5. QED
    BY <2>2, <2>3, <2>4
<1>8. QED
  BY <1>2, <1>6, <1>7

\* The route that is chosen has no problem, is worth what any other eligible quote or the
\* warm reference gives but for the sacrifice, is one among enough providers, and nothing
\* as worthwhile is faster; and there is one as soon as enough providers have an eligible
\* quote and one of these is worth the reference (FastRoutePlanner.select).
THEOREM RouteIsWorthwhile ==
    ASSUME NEW p, p.sacrifice \in Nat, p.sacrifice <= 10000, NEW where, NEW quotes, QuotesAreNumbers(quotes),
           NEW reference \in Nat, NoRoute \notin quotes
    PROVE  LET q == Select(p, where, quotes, reference)
               eligible == Eligible(p, where, quotes)
               enough   == ~(Cardinality({r.provider : r \in eligible}) < p.minRoutes)
           IN  /\ q # NoRoute =>
                    /\ enough
                    /\ q \in eligible
                    /\ Worth(p, q, reference) /\ \A r \in eligible : Worth(p, q, r.output)
                    /\ \A r \in eligible :
                         Worth(p, r, reference) /\ (\A o \in eligible : Worth(p, r, o.output)) => Faster(q, r)
               /\ enough /\ (\E r \in eligible : Worth(p, r, reference)) => q # NoRoute
<1> DEFINE eligible == Eligible(p, where, quotes)
           few      == Cardinality({r.provider : r \in eligible}) < p.minRoutes
<1> DEFINE best == BestOf(eligible, reference)
<1>1. /\ best \in Nat /\ best >= reference
      /\ \A q \in eligible : best >= q.output
      /\ best = reference \/ \E q \in eligible : best = q.output
  BY BestOutput
<1> HIDE DEF best
<1> DEFINE quality == {q \in eligible : q.output * 10000 >= best * (10000 - p.sacrifice)}
<1>2. Select(p, where, quotes, reference) =
        IF few THEN NoRoute ELSE IF quality = {} THEN NoRoute
        ELSE CHOOSE q \in quality : \A r \in quality : Faster(q, r)
  <2> HIDE DEF eligible
  <2>1. Select(p, where, quotes, reference) = ChoiceAmong(p, eligible, reference)
    BY SelectIs DEF eligible
  <2>2. ChoiceAmong(p, eligible, reference) = Choice(p, eligible, best)
    BY DEF ChoiceAmong, best
  <2>3. QED
    BY <2>1, <2>2 DEF Choice
<1>3. /\ eligible \subseteq quotes /\ IsFiniteSet(eligible)
      /\ \A q \in eligible : q.output \in Nat /\ q.latency \in Nat /\ q.submit \in Nat /\ q.rank \in Nat
  <2>1. eligible \subseteq quotes /\ IsFiniteSet(eligible)
    BY FS_Subset DEF Eligible, QuotesAreNumbers
  <2>2. ASSUME NEW q \in eligible PROVE q.output > 0
    <3>1. {x \in {"invalid_output"} : q.output <= 0} \subseteq Problems(p, where, q) /\ Problems(p, where, q) = {}
      BY DEF Problems, Eligible
    <3>2. q.output \in Int
      BY <2>1 DEF QuotesAreNumbers
    <3>3. QED
      BY <3>1, <3>2
  <2>3. QED
    BY <2>1, <2>2 DEF QuotesAreNumbers
<1> HIDE DEF eligible, few
<1>4. quality \subseteq eligible /\ IsFiniteSet(quality)
  BY <1>3, FS_Subset
<1>5. \A q \in eligible : q \in quality <=>
         Worth(p, q, reference) /\ \A o \in eligible : Worth(p, q, o.output)
  <2> SUFFICES ASSUME NEW q \in eligible
               PROVE  q.output * 10000 >= best * (10000 - p.sacrifice) <=>
                        Worth(p, q, reference) /\ \A o \in eligible : Worth(p, q, o.output)
    OBVIOUS
  <2>1. 10000 - p.sacrifice \in Nat
    OBVIOUS
  <2>4. q.output * 10000 \in Nat
    BY <1>3
  <2>5. ASSUME q.output * 10000 >= best * (10000 - p.sacrifice), NEW x \in Nat, x <= best
        PROVE  Worth(p, q, x)
    <3> DEFINE kept == 10000 - p.sacrifice
               had  == q.output * 10000
    <3>1. kept \in Nat /\ had \in Nat /\ had >= best * kept
      BY <2>1, <2>4, <2>5
    <3>2. Worth(p, q, x) <=> had >= x * kept
      BY DEF Worth
    <3> HIDE DEF kept, had
    <3>3. x * kept <= best * kept /\ x * kept \in Nat /\ best * kept \in Nat
      BY <1>1, <2>5, <3>1, Scaling
    <3>4. had >= x * kept
      BY <3>1, <3>3
    <3>5. QED
      BY <3>2, <3>4
  <2>6. Worth(p, q, best) <=> q.output * 10000 >= best * (10000 - p.sacrifice)
    BY DEF Worth
  <2>7. Worth(p, q, reference) /\ (\A o \in eligible : Worth(p, q, o.output)) => Worth(p, q, best)
    BY <1>1
  <2>8. q.output * 10000 >= best * (10000 - p.sacrifice) =>
          Worth(p, q, reference) /\ \A o \in eligible : Worth(p, q, o.output)
    BY <1>1, <1>3, <2>5
  <2>9. QED
    BY <2>6, <2>7, <2>8
<1>6. (\E r \in eligible : Worth(p, r, reference)) => quality # {}
  <2> SUFFICES ASSUME NEW r \in eligible, Worth(p, r, reference) PROVE quality # {}
    OBVIOUS
  <2>1. CASE best = reference
    BY <2>1 DEF Worth
  <2>2. CASE \E q \in eligible : best = q.output
    <3>1. PICK q \in eligible : best = q.output
      BY <2>2
    <3>2. best * 10000 >= best * (10000 - p.sacrifice)
      <4>1. 10000 - p.sacrifice \in Nat /\ 10000 - p.sacrifice <= 10000
        OBVIOUS
      <4> HIDE DEF quality
      <4>2. QED
        BY <1>1, <4>1, Scaling
    <3>3. q.output * 10000 >= best * (10000 - p.sacrifice)
      BY <3>1, <3>2
    <3>4. QED
      BY <3>3
  <2>3. QED
    BY <1>1, <2>1, <2>2
<1>7. quality # {} => \E q \in quality : \A r \in quality : Faster(q, r)
  <2> HIDE DEF quality
  <2>1. QED
    BY <1>3, <1>4, FastestExists
<1> DEFINE q == Select(p, where, quotes, reference)
<1>8. ~few /\ quality # {} => q \in quality /\ \A r \in quality : Faster(q, r)
  <2> HIDE DEF quality
  <2>1. QED
    BY <1>2, <1>7
<1>9. few \/ quality = {} => q = NoRoute
  BY <1>2
<1> HIDE DEF q, quality
<1>10. /\ q # NoRoute =>
            /\ ~few
            /\ q \in eligible
            /\ Worth(p, q, reference) /\ \A r \in eligible : Worth(p, q, r.output)
            /\ \A r \in eligible :
                 Worth(p, r, reference) /\ (\A o \in eligible : Worth(p, r, o.output)) => Faster(q, r)
       /\ ~few /\ (\E r \in eligible : Worth(p, r, reference)) => q # NoRoute
  <2>1. ASSUME q # NoRoute
        PROVE  ~few /\ q \in quality /\ \A r \in quality : Faster(q, r)
    BY <1>8, <1>9, <2>1
  <2>2. ASSUME ~few, \E r \in eligible : Worth(p, r, reference)
        PROVE  q # NoRoute
    BY <1>3, <1>4, <1>6, <1>8, <2>2
  <2>3. ASSUME q # NoRoute
        PROVE  /\ q \in eligible
               /\ Worth(p, q, reference) /\ \A r \in eligible : Worth(p, q, r.output)
               /\ \A r \in eligible :
                 Worth(p, r, reference) /\ (\A o \in eligible : Worth(p, r, o.output)) => Faster(q, r)
    BY <1>4, <1>5, <2>1, <2>3
  <2>4. QED
    BY <2>1, <2>2, <2>3
<1>11. QED
  BY <1>10 DEF q, few, eligible

-----------------------------------------------------------------------------
(* The copy strategy of a watched wallet.                                    *)

\* Settings whose amounts are numbers; what is not a number copies nothing at all.
NumericSettings(c) ==
    c.minimum \in Int /\ c.buyRatio \in Int /\ c.fixedUsd \in Int /\ c.maxUsd \in Int /\ c.sellRatio \in Int

\* d is at least as strict as c, for a signal of this source; an allow list that is not
\* empty may not be emptied, since an empty one allows every token.
AsStrict(d, c, source) ==
    /\ d.enabled => c.enabled
    /\ d.status = "active" => c.status = "active"
    /\ d.chains \subseteq c.chains
    /\ d.address = c.address
    /\ Rank(source, c.confirmation) >= 0
    /\ Rank(source, d.confirmation) >= Rank(source, c.confirmation)
    /\ c.deny \subseteq d.deny
    /\ c.allow = {} \/ (d.allow # {} /\ d.allow \subseteq c.allow)
    /\ 0 <= c.minimum /\ c.minimum <= d.minimum
    /\ d.buyMode = c.buyMode /\ d.buyRatio <= c.buyRatio /\ c.buyRatio <= 100
    /\ d.fixedUsd <= c.fixedUsd /\ d.maxUsd <= c.maxUsd
    /\ d.sellMode = c.sellMode /\ d.sellRatio = c.sellRatio

LEMMA RankIs ==
    ASSUME NEW source, NEW level
    PROVE  Rank(source, level) \in -1..2 /\ (Rank(source, level) >= 1 => level \in {"confirmed", "finalized"})
<1>1. CASE level = "finalized"
  BY <1>1 DEF Rank
<1>2. CASE level = "confirmed"
  BY <1>2 DEF Rank
<1>3. CASE level \notin {"finalized", "confirmed"} /\ level = (IF source = "wallet_rpc_solana" THEN "processed" ELSE "pending")
  BY <1>3 DEF Rank
<1>4. CASE level \notin {"finalized", "confirmed"} /\ level # (IF source = "wallet_rpc_solana" THEN "processed" ELSE "pending")
  BY <1>4 DEF Rank
<1>5. QED
  BY <1>1, <1>2, <1>3, <1>4

LEMMA ConfirmedMeans ==
    ASSUME NEW c, NEW s
    PROVE  Confirmed(c, s) <=> /\ Rank(s.source, s.level) >= 1
                               /\ Rank(s.source, c.confirmation) >= 0
                               /\ Rank(s.source, s.level) >= Rank(s.source, c.confirmation)
<1> DEFINE seen == Rank(s.source, s.level)
           asked == Rank(s.source, c.confirmation)
<1>1. seen \in Int /\ asked \in Int
  BY RankIs
<1>2. Confirmed(c, s) <=> seen >= 0 /\ asked >= 0 /\ seen >= Max({1, asked})
  BY DEF Confirmed
<1> HIDE DEF seen, asked
<1>3. Max({1, asked}) = IF 1 >= asked THEN 1 ELSE asked
  BY <1>1, MaxOfTwo
<1>4. Confirmed(c, s) <=> seen >= 1 /\ asked >= 0 /\ seen >= asked
  BY <1>1, <1>2, <1>3
<1>5. QED
  BY <1>4 DEF seen, asked

\* The gates before the sizing are monotone.
LEMMA GatesAreMonotone ==
    ASSUME NEW c, NEW d, NEW s, NumericSettings(c), NumericSettings(d), AsStrict(d, c, s.source),
           s.usd \in Nat \cup {Absent},
           Watched(d, s), Confirmed(d, s), ~Filtered(d, s), LargeEnough(d, s)
    PROVE  Watched(c, s) /\ Confirmed(c, s) /\ ~Filtered(c, s) /\ LargeEnough(c, s)
<1>1. Watched(c, s)
  BY DEF Watched, AsStrict
<1>2. Confirmed(c, s)
  <2>1. Rank(s.source, c.confirmation) \in Int /\ Rank(s.source, d.confirmation) \in Int /\ Rank(s.source, s.level) \in Int
    BY RankIs
  <2>2. QED
    BY <2>1, ConfirmedMeans DEF AsStrict
<1>3. ~Filtered(c, s)
  <2> DEFINE asset == Spelled(s.source, IF s.side = "buy" THEN s.tokenOut ELSE s.tokenIn)
             allow(w) == {Spelled(s.source, t) : t \in w.allow}
             deny(w)  == {Spelled(s.source, t) : t \in w.deny}
  <2>1. asset \notin deny(d) /\ (allow(d) = {} \/ asset \in allow(d))
    BY DEF Filtered
  <2>2. deny(c) \subseteq deny(d)
    BY DEF AsStrict
  <2>3. allow(c) = {} \/ (allow(d) # {} /\ allow(d) \subseteq allow(c))
    BY DEF AsStrict
  <2>4. asset \notin deny(c) /\ (allow(c) = {} \/ asset \in allow(c))
    BY <2>1, <2>2, <2>3
  <2>5. QED
    BY <2>4 DEF Filtered
<1>4. LargeEnough(c, s)
  BY CopyAssumption DEF LargeEnough, AsStrict, NumericSettings
<1>5. QED
  BY <1>1, <1>2, <1>3, <1>4

\* What is asked for before the cap, in cents.
CentsAsked(c, s) == IF c.buyMode = "observed_ratio" THEN s.usd * c.buyRatio ELSE c.fixedUsd * 100

\* A buy is copied for what is requested, up to the cap.
LEMMA BuyIs ==
    ASSUME NEW c, NEW s, NumericSettings(c), s.usd \in Nat
    PROVE  /\ CentsAsked(c, s) \in Int
           /\ BuyIntent(c, s) # Absent <=>
                /\ c.buyMode \in {"fixed_usd", "observed_ratio"}
                /\ c.buyMode = "observed_ratio" => c.buyRatio \in 1..100
                /\ CentsAsked(c, s) > 0 /\ c.maxUsd > 0
           /\ BuyIntent(c, s) # Absent =>
                BuyIntent(c, s).usd = IF CentsAsked(c, s) <= c.maxUsd * 100 THEN CentsAsked(c, s) ELSE c.maxUsd * 100
<1> DEFINE requested == CentsAsked(c, s)
           blocked == \/ c.buyMode \notin {"fixed_usd", "observed_ratio"}
                      \/ c.buyMode = "observed_ratio" /\ c.buyRatio \notin 1..100
                      \/ c.buyMode = "fixed_usd" /\ c.fixedUsd = NaN
                      \/ c.maxUsd = NaN
                      \/ requested <= 0 \/ c.maxUsd <= 0
           most == Min({requested, c.maxUsd * 100})
<1>1. requested \in Int /\ c.maxUsd * 100 \in Int
  BY DEF NumericSettings, CentsAsked
<1>2. BuyIntent(c, s) = IF blocked THEN Absent ELSE [usd |-> most, sellRatio |-> Absent]
  BY DEF BuyIntent, CentsAsked
<1>3. c.fixedUsd # NaN /\ c.maxUsd # NaN
  BY CopyAssumption DEF NumericSettings
<1> HIDE DEF requested
<1>4. ~blocked => most = IF requested <= c.maxUsd * 100 THEN requested ELSE c.maxUsd * 100
  <2> SUFFICES ASSUME ~blocked
               PROVE  most = IF requested <= c.maxUsd * 100 THEN requested ELSE c.maxUsd * 100
    OBVIOUS
  <2>1. requested \in Nat /\ c.maxUsd * 100 \in Nat
    BY <1>1 DEF NumericSettings
  <2>2. QED
    BY <2>1, MinOfTwo
<1>5. ~blocked => most \in Int
  BY <1>1, <1>4
<1> HIDE DEF most
<1>6. ~blocked => [usd |-> most, sellRatio |-> Absent] # Absent /\ [usd |-> most, sellRatio |-> Absent].usd = most
  BY <1>5, CopyAssumption
<1>7. BuyIntent(c, s) # Absent <=> ~blocked
  <2> HIDE DEF blocked
  <2>1. QED
    BY <1>2, <1>6
<1>8. ~blocked <=> /\ c.buyMode \in {"fixed_usd", "observed_ratio"}
                   /\ c.buyMode = "observed_ratio" => c.buyRatio \in 1..100
                   /\ requested > 0 /\ c.maxUsd > 0
  BY <1>1, <1>3 DEF NumericSettings
<1>9. BuyIntent(c, s) # Absent => BuyIntent(c, s).usd = IF requested <= c.maxUsd * 100 THEN requested ELSE c.maxUsd * 100
  <2> HIDE DEF blocked
  <2>1. QED
    BY <1>2, <1>4, <1>6, <1>7
<1> HIDE DEF blocked
<1>10. QED
  BY <1>1, <1>7, <1>8, <1>9 DEF requested

\* Settings of a wallet that are at least as strict never copy a trade the others would
\* not copy, nor for more (WalletCopyStrategy.create_intent).
THEOREM StricterCopiesLess ==
    ASSUME NEW c, NEW d, NEW s, NumericSettings(c), NumericSettings(d), AsStrict(d, c, s.source),
           s.usd \in Nat \cup {Absent}, WalletIntent(d, s) # Absent
    PROVE  WalletIntent(c, s) # Absent /\ WalletIntent(d, s).usd <= WalletIntent(c, s).usd
<1>1. Watched(d, s) /\ Confirmed(d, s) /\ ~Filtered(d, s) /\ LargeEnough(d, s)
  BY DEF WalletIntent
<1>2. Watched(c, s) /\ Confirmed(c, s) /\ ~Filtered(c, s) /\ LargeEnough(c, s)
  BY <1>1, GatesAreMonotone
<1>3. s.usd \in Nat
  BY <1>1 DEF LargeEnough
<1>4. CASE s.side = "buy"
  <2>1. WalletIntent(d, s) = BuyIntent(d, s) /\ WalletIntent(c, s) = BuyIntent(c, s)
    BY <1>1, <1>2, <1>4 DEF WalletIntent
  <2>2. /\ d.buyMode \in {"fixed_usd", "observed_ratio"}
        /\ d.buyMode = "observed_ratio" => d.buyRatio \in 1..100
        /\ CentsAsked(d, s) > 0 /\ d.maxUsd > 0
    BY <1>3, <2>1, BuyIs
  <2>3. CentsAsked(d, s) <= CentsAsked(c, s) /\ CentsAsked(d, s) \in Int /\ CentsAsked(c, s) \in Int
    <3>1. CentsAsked(d, s) \in Int /\ CentsAsked(c, s) \in Int
      BY <1>3, BuyIs
    <3>2. CASE d.buyMode = "observed_ratio"
      <4>1. d.buyRatio \in Nat /\ c.buyRatio \in Nat /\ d.buyRatio <= c.buyRatio
        BY <2>2, <3>2 DEF NumericSettings, AsStrict
      <4>2. s.usd * d.buyRatio <= s.usd * c.buyRatio
        BY <1>3, <4>1, Scaling
      <4>3. c.buyMode = "observed_ratio"
        BY <3>2 DEF AsStrict
      <4>4. QED
        BY <3>1, <3>2, <4>2, <4>3 DEF CentsAsked
    <3>3. CASE d.buyMode # "observed_ratio"
      <4>1. c.buyMode # "observed_ratio" /\ d.fixedUsd <= c.fixedUsd /\ d.fixedUsd \in Int /\ c.fixedUsd \in Int
        BY <3>3 DEF AsStrict, NumericSettings
      <4>2. QED
        BY <3>1, <3>3, <4>1 DEF CentsAsked
    <3>4. QED
      BY <3>2, <3>3
  <2>4. /\ c.buyMode \in {"fixed_usd", "observed_ratio"}
        /\ c.buyMode = "observed_ratio" => c.buyRatio \in 1..100
        /\ CentsAsked(c, s) > 0 /\ c.maxUsd > 0
    <3>1. c.buyMode = d.buyMode /\ d.buyRatio <= c.buyRatio /\ c.buyRatio <= 100 /\ d.maxUsd <= c.maxUsd
      BY DEF AsStrict
    <3>2. QED
      BY <2>2, <2>3, <3>1 DEF NumericSettings
  <2>5. BuyIntent(c, s) # Absent
    BY <1>3, <2>4, BuyIs
  <2>6. /\ BuyIntent(d, s).usd = IF CentsAsked(d, s) <= d.maxUsd * 100 THEN CentsAsked(d, s) ELSE d.maxUsd * 100
        /\ BuyIntent(c, s).usd = IF CentsAsked(c, s) <= c.maxUsd * 100 THEN CentsAsked(c, s) ELSE c.maxUsd * 100
    BY <1>3, <2>1, <2>5, BuyIs
  <2>7. d.maxUsd <= c.maxUsd /\ d.maxUsd \in Int /\ c.maxUsd \in Int
    BY DEF AsStrict, NumericSettings
  <2>8. QED
    BY <2>1, <2>3, <2>5, <2>6, <2>7
<1>5. CASE s.side # "buy"
  <2>1. WalletIntent(d, s) = SellIntent(d) /\ WalletIntent(c, s) = SellIntent(c)
    BY <1>1, <1>2, <1>5 DEF WalletIntent
  <2>2. SellIntent(c) = SellIntent(d)
    BY DEF SellIntent, AsStrict
  <2>3. SellIntent(d) = [usd |-> 0, sellRatio |-> d.sellRatio]
    BY <2>1 DEF SellIntent
  <2>4. QED
    BY <2>1, <2>2, <2>3
<1>6. QED
  BY <1>4, <1>5

\* No buy is copied for more than the cap, nor a part of a trade for more than the trade,
\* and nothing is copied below "confirmed" (WalletCopyStrategy.create_intent).
THEOREM CopiesAreCapped ==
    ASSUME NEW c, NEW s, NumericSettings(c), s.usd \in Nat \cup {Absent}, WalletIntent(c, s) # Absent
    PROVE  /\ s.level \in {"confirmed", "finalized"}
           /\ s.side = "buy" => WalletIntent(c, s).usd > 0 /\ WalletIntent(c, s).usd <= c.maxUsd * 100
           /\ s.side = "buy" /\ c.buyMode = "observed_ratio" => WalletIntent(c, s).usd <= s.usd * 100
<1>1. Confirmed(c, s) /\ LargeEnough(c, s)
  BY DEF WalletIntent
<1>2. s.level \in {"confirmed", "finalized"}
  BY <1>1, ConfirmedMeans, RankIs
<1>3. s.usd \in Nat
  BY <1>1 DEF LargeEnough
<1>4. ASSUME s.side = "buy"
      PROVE  /\ WalletIntent(c, s).usd > 0 /\ WalletIntent(c, s).usd <= c.maxUsd * 100
             /\ c.buyMode = "observed_ratio" => WalletIntent(c, s).usd <= s.usd * 100
  <2>1. WalletIntent(c, s) = BuyIntent(c, s)
    BY <1>4 DEF WalletIntent
  <2>2. /\ CentsAsked(c, s) > 0 /\ c.maxUsd > 0 /\ CentsAsked(c, s) \in Int
        /\ c.buyMode = "observed_ratio" => c.buyRatio \in 1..100
        /\ BuyIntent(c, s).usd = IF CentsAsked(c, s) <= c.maxUsd * 100 THEN CentsAsked(c, s) ELSE c.maxUsd * 100
    BY <1>3, <2>1, BuyIs
  <2>3. c.buyMode = "observed_ratio" => CentsAsked(c, s) <= s.usd * 100
    <3> SUFFICES ASSUME c.buyMode = "observed_ratio" PROVE CentsAsked(c, s) <= s.usd * 100
      OBVIOUS
    <3>1. c.buyRatio \in Nat /\ c.buyRatio <= 100
      BY <2>2
    <3>2. s.usd * c.buyRatio <= s.usd * 100
      BY <1>3, <3>1, Scaling
    <3>3. QED
      BY <3>2 DEF CentsAsked
  <2>4. c.maxUsd * 100 \in Int /\ c.maxUsd * 100 > 0 /\ s.usd * 100 \in Int
    BY <1>3, <2>2 DEF NumericSettings
  <2>5. QED
    BY <2>1, <2>2, <2>3, <2>4
<1>5. QED
  BY <1>2, <1>4
=============================================================================
