---------------------------- MODULE RiskPipeline ----------------------------
(***************************************************************************)
(* The risk step of post-trade analysis (fomo/risk/pipeline.py and its     *)
(* caller in fomo/app.py): one worker evaluates events with an engine that *)
(* it built from two files, and rebuilds the engine when the modification  *)
(* time of a file differs from the one it remembers.  An operator edits    *)
(* the files while the worker stats and reads them, the database refuses a *)
(* verdict now and then, and the process restarts.                         *)
(***************************************************************************)
EXTENDS RiskEngine

CONSTANTS
    Events,         \* the events whose risk step is due
    EventOf,        \* [Events -> what an event says of its author, chain and time]
    Contents,       \* [Files -> the contents an operator may write], Broken and Gone among them
    Broken,         \* text that does not parse or does not validate
    Gone,           \* no file
    Exposures,      \* what the portfolio may answer about exposure
    MaxEdits,       \* bound: edits of the files
    MaxNow,         \* bound: the clock
    MaxRefusals     \* bound: verdicts the database refuses

Files == {"policy", "registry"}

\* the reasons that a verdict may give: of the checks that look at the signal alone, of
\* those that look at facts, and of the pipeline itself
SignalReasons == {"duplicate_signal", "source_not_allowed", "signal_timestamp_in_future",
                  "signal_too_old", "wallet_not_registered", "wallet_kol_mismatch",
                  "wallet_revoked", "wallet_mapping_expired", "wallet_confidence_too_low",
                  "unknown_side", "unknown_decoder"}
FactReasons == {"asset_snapshot_required", "independent_quotes_required", "quote_too_old",
                "price_impact_too_high", "quote_divergence_too_high",
                "exposure_snapshot_required", "token", "kolDaily", "globalDaily", "openPositions",
                "health_snapshot_required", "exit_plan_required",
                "transaction_simulation_required", "transaction_simulation_failed"}
IdentityReasons == {"missing_kol_id", "missing_chain_id", "wallet_not_registered",
                    "ambiguous_wallet_mapping"}
Limits == UNION {DOMAIN x : x \in Exposures \ {Nothing}}
Verdicts == [outcome : {"none"}]
              \cup [outcome : {"needs_identity", "rejected", "needs_data", "approved_for_shadow"},
                    why : SUBSET (SignalReasons \cup FactReasons \cup IdentityReasons \cup Limits)]

ASSUME PipelineAssumption ==
    /\ Limits \cap SignalReasons = {}
    /\ Nothing \notin Verdicts \cup Events \cup Int

VARIABLES
    now,
    disk,           \* [Files -> content]
    edits,          \* [Files -> Nat], the modification time of a file
    engine,         \* the engine in use, or Nothing
    stamp,          \* [Files -> Nat], _source_mtimes
    pc, cur,        \* the worker and the event in hand
    draft,          \* what the worker has read and stat'ed so far
    answer,         \* the verdict in hand
    verdict,        \* [Events -> the persisted verdict or Nothing]
    refused         \* [Events -> Nat], verdicts on it that the database refused

files  == <<disk, edits>>
worker == <<engine, stamp, pc, cur, draft, answer>>
rvars  == <<now, files, worker, verdict, refused>>

NoDraft == [content |-> [f \in Files |-> Nothing], stamp |-> [f \in Files |-> 0],
            at |-> [f \in Files |-> 0]]

PipelineInit ==
    /\ now = 0
    /\ \E p \in Contents["policy"] \ {Broken, Gone}, r \in Contents["registry"] \ {Broken, Gone} :
         disk = [policy |-> p, registry |-> r]
    /\ edits = [f \in Files |-> 0]
    /\ engine = Nothing /\ stamp = [f \in Files |-> 0]
    /\ pc = "down" /\ cur = Nothing /\ draft = NoDraft /\ answer = Nothing
    /\ verdict = [e \in Events |-> Nothing]
    /\ refused = [e \in Events |-> 0]

-----------------------------------------------------------------------------
(* The world.                                                                *)

Edit(f) ==
    /\ edits["policy"] + edits["registry"] < MaxEdits
    /\ \E c \in Contents[f] \ {disk[f]} : disk' = [disk EXCEPT ![f] = c]
    /\ edits' = [edits EXCEPT ![f] = @ + 1]
    /\ UNCHANGED <<now, worker, verdict, refused>>

Tick ==
    /\ now < MaxNow
    /\ now' = now + 1
    /\ UNCHANGED <<files, worker, verdict, refused>>

\* an engine lives in the process; a verdict that was not saved goes with it
Down ==
    /\ engine' = Nothing /\ stamp' = [f \in Files |-> 0]
    /\ pc' = "down" /\ cur' = Nothing /\ draft' = NoDraft /\ answer' = Nothing

Crash ==
    /\ pc # "down"
    /\ Down
    /\ UNCHANGED <<now, files, verdict, refused>>

-----------------------------------------------------------------------------
(* Reading the files.  A start reads both and stats them afterwards, a       *)
(* reload stats both and reads them afterwards.                              *)

Read(f) == draft' = [draft EXCEPT !.content[f] = disk[f], !.at[f] = edits[f]]
Stat(f) == draft' = [draft EXCEPT !.stamp[f] = edits[f]]
Readable(f) == disk[f] \notin {Broken, Gone} /\ (f = "registry" => ValidRegistry(disk[f]))

\* ReadOnlyRiskEngine.from_files: a new engine remembers no signal
NewEngine(raced) == [policy |-> draft.content["policy"], registry |-> draft.content["registry"],
                     seen |-> [e \in Events |-> Nothing], raced |-> raced]

\* RiskPipeline.__init__ and _reload_if_changed, one file operation per step
StartSteps == [readPolicy |-> "readRegistry", readRegistry |-> "statPolicy",
               statPolicy |-> "statRegistry", statRegistry |-> "built"]

FileOf(step) == IF step \in {"readPolicy", "statPolicy", "againPolicy", "checkPolicy"}
                THEN "policy" ELSE "registry"

Boot ==
    /\ pc = "down"
    /\ pc' = "readPolicy"
    /\ UNCHANGED <<now, files, engine, stamp, cur, draft, answer, verdict, refused>>

\* an unreadable file ends the start
StartStep ==
    /\ pc \in DOMAIN StartSteps
    /\ LET f == FileOf(pc) IN
         IF (pc \in {"readPolicy", "readRegistry"} /\ ~Readable(f)) \/ disk[f] = Gone
         THEN Down
         ELSE /\ pc' = StartSteps[pc]
              /\ IF pc \in {"readPolicy", "readRegistry"} THEN Read(f) ELSE Stat(f)
              /\ UNCHANGED <<engine, stamp, cur, answer>>
    /\ UNCHANGED <<now, files, verdict, refused>>

\* the mark that is kept is later than the content that is used when a file
\* was edited in between
Built ==
    /\ pc = "built"
    /\ engine' = NewEngine(draft.at # draft.stamp)
    /\ stamp' = draft.stamp
    /\ pc' = "idle" /\ draft' = NoDraft
    /\ UNCHANGED <<now, files, cur, answer, verdict, refused>>

-----------------------------------------------------------------------------
(* One risk step of one event.                                               *)

\* the step raises: fail_post_trade_step, and the event is due again
Raise ==
    /\ pc' = "idle" /\ cur' = Nothing /\ draft' = NoDraft /\ answer' = Nothing
    /\ UNCHANGED <<engine, stamp>>

\* a mutant: the mark of the step is not looked at
AlwaysDue(e) == TRUE

Due(e) == verdict[e] = Nothing

Begin(e) ==
    /\ pc = "idle"
    /\ Due(e)
    /\ cur' = e
    /\ pc' = IF EventOf[e].kind \in {"buy", "sell", "clear"} THEN "checkPolicy" ELSE "saving"
    /\ answer' = IF EventOf[e].kind \in {"buy", "sell", "clear"} THEN Nothing ELSE [outcome |-> "none"]
    /\ UNCHANGED <<now, files, engine, stamp, draft, verdict, refused>>

\* _mtimes and the comparison
CheckStamps ==
    /\ pc \in {"checkPolicy", "checkRegistry"}
    /\ LET f == FileOf(pc) IN
         IF disk[f] = Gone THEN Raise
         ELSE /\ Stat(f)
              /\ pc' = IF pc = "checkPolicy" THEN "checkRegistry"
                       ELSE IF draft'.stamp = stamp THEN "judging" ELSE "againPolicy"
              /\ UNCHANGED <<engine, stamp, cur, answer>>
    /\ UNCHANGED <<now, files, verdict, refused>>

\* a file that cannot be read leaves engine and stamp as they were
Reread ==
    /\ pc \in {"againPolicy", "againRegistry"}
    /\ LET f == FileOf(pc) IN
         IF Readable(f)
         THEN /\ Read(f)
              /\ pc' = IF pc = "againPolicy" THEN "againRegistry" ELSE "reloaded"
         ELSE /\ draft' = NoDraft
              /\ pc' = "judging"
    /\ UNCHANGED <<now, files, engine, stamp, cur, answer, verdict, refused>>

\* a mutant: the marks are taken again once the files have been read
MarksAfter == edits

\* the marks that are kept are those taken before the files were read
MarksKept == draft.stamp

Reload ==
    /\ pc = "reloaded"
    /\ engine' = NewEngine(FALSE)
    /\ stamp' = MarksKept
    /\ draft' = NoDraft /\ pc' = "judging"
    /\ UNCHANGED <<now, files, cur, answer, verdict, refused>>

\* the entries of a known author, or of the one author whose verified handle it is
Aliases(reg, v) == IF v.kol = Nothing /\ v.chain # Nothing
                   THEN WalletsForHandle(reg, v.chain, v.handle) ELSE {}
Author(reg, v) ==
    IF v.kol # Nothing THEN v.kol
    ELSE LET ids == {w.kol : w \in Aliases(reg, v)}
         IN  IF Cardinality(ids) = 1 THEN CHOOSE k \in ids : TRUE ELSE Nothing
Candidates(reg, v) ==
    IF v.chain = Nothing \/ Author(reg, v) = Nothing THEN {}
    ELSE IF v.kol # Nothing THEN WalletsForKol(reg, v.chain, v.kol)
    ELSE {w \in Aliases(reg, v) : w.kol = Author(reg, v)}

\* why an event has no identity
Unidentified(reg, v) ==
    IF Author(reg, v) = Nothing THEN {"missing_kol_id"}
    ELSE IF v.chain = Nothing THEN {"missing_chain_id"}
    ELSE IF Candidates(reg, v) = {} THEN {"wallet_not_registered"}
    ELSE IF Cardinality(Candidates(reg, v)) > 1 THEN {"ambiguous_wallet_mapping"}
    ELSE {}

SignalOf(e, w) ==
    [id |-> e, source |-> "fomo", observed |-> now, stamped |-> EventOf[e].stamped,
     chain |-> EventOf[e].chain, kol |-> w.kol, wallet |-> w.address,
     confidence |-> w.confidence, decoder |-> "fomo-event@1",
     side |-> IF EventOf[e].kind \in {"sell", "clear"} THEN "sell" ELSE "buy"]

\* evaluate_event after the reload; only the exposure of the portfolio is known
Judge ==
    /\ pc = "judging"
    /\ LET reg == engine.registry
           v   == EventOf[cur]
           why == Unidentified(reg, v)
       IN  IF why # {}
           THEN /\ answer' = [outcome |-> "needs_identity", why |-> why]
                /\ UNCHANGED engine
           ELSE \E exposure \in Exposures :
                  LET w == CHOOSE c \in Candidates(reg, v) : TRUE
                      s == SignalOf(cur, w)
                      checks == Checks(engine.policy, reg, engine.seen, s,
                                       [NoFacts EXCEPT !.exposure = exposure], now)
                  IN  /\ WellFormed(s)
                      /\ answer' = [outcome |-> Outcome(checks),
                                    why |-> UNION {checks[c].why : c \in DOMAIN checks}]
                      /\ engine' = [engine EXCEPT !.seen = Remember(engine.policy, @, s, now)]
    /\ pc' = "saving" /\ draft' = NoDraft
    /\ UNCHANGED <<now, files, stamp, cur, verdict, refused>>

\* complete_risk_step
Save ==
    /\ pc = "saving"
    /\ verdict' = [verdict EXCEPT ![cur] = answer]
    /\ pc' = "idle" /\ cur' = Nothing /\ answer' = Nothing
    /\ UNCHANGED <<now, files, engine, stamp, draft, refused>>

\* the database is locked: what the engine remembers of the event stays
Refuse ==
    /\ pc = "saving"
    /\ refused[cur] < MaxRefusals
    /\ refused' = [refused EXCEPT ![cur] = @ + 1]
    /\ Raise
    /\ UNCHANGED <<now, files, verdict>>

PipelineNext ==
    \/ Tick \/ Crash \/ Boot \/ StartStep \/ Built
    \/ \E f \in Files : Edit(f)
    \/ \E e \in Events : Begin(e)
    \/ CheckStamps \/ Reread \/ Reload \/ Judge \/ Save \/ Refuse

-----------------------------------------------------------------------------
(* Properties.                                                               *)

\* When no edit is outstanding by the marks the worker keeps, its engine is made of
\* what the files hold now, so an edit is never taken for known before it was read
\* (_reload_if_changed stats before it reads).  The start is the exception: __init__
\* reads before it stats, and an edit in between stays unseen until the next one.
NoEditIsLost ==
    engine # Nothing /\ stamp = edits /\ ~engine.raced =>
        /\ engine.policy = disk["policy"]
        /\ engine.registry = disk["registry"]

\* A verdict "duplicate" is kept only for an event whose earlier verdict the database
\* refused: the engine remembers what it looked at (evaluate), the retry meets its own
\* trace, and nothing else evaluates an event twice.
DuplicateExplained ==
    \A e \in Events :
        verdict[e] # Nothing /\ verdict[e].outcome = "rejected"
          /\ "duplicate_signal" \in verdict[e].why => refused[e] > 0

\* The wallet the pipeline picks for an event is one that the engine, which looks it up
\* again by address, finds under the same author and not revoked: both read the same
\* registry, and a registry with two owners of an address does not load.
IdentityAgrees ==
    answer # Nothing /\ answer.outcome \in {"rejected", "needs_data", "approved_for_shadow"} =>
        answer.why \cap {"wallet_not_registered", "wallet_kol_mismatch", "wallet_revoked"} = {}
=============================================================================
