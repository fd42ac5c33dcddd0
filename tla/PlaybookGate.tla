---------------------------- MODULE PlaybookGate ----------------------------
(***************************************************************************)
(* From the facts of an incident to the command the executor may run:        *)
(* matcher.match_playbooks, binding (snapshot of the match, server           *)
(* parameters, check_intent_binding), risk_axes, policy, executor_gate and   *)
(* the command of execution_dsl.                                             *)
(*                                                                         *)
(* One incident is analysed again and again, by the pipeline (the model      *)
(* proposes the intent) or by the deterministic bridge (the server renders   *)
(* it from the plan).  Between the match, the approval and the write other   *)
(* things happen: the deployment is scaled by somebody else, a new image     *)
(* brings another edition of the playbooks, a writer of analysis puts back   *)
(* or edits the stored snapshot.  A hash is modelled by what is hashed.      *)
(***************************************************************************)
EXTENDS Integers, FiniteSets

CONSTANTS Targets,       \* names of deployments
          DataTargets,   \* those that look like stateful loads
          Tiers,         \* tiers of namespaces in play, one namespace each
          MaxReplicas, MaxEdition, MaxGateFaults, MaxScales, MaxAnalyses   \* bounds

ASSUME GateAssumption ==
    /\ DataTargets \subseteq Targets
    /\ Tiers \subseteq {"dev", "squad", "preprod", "prod", "system"}
    /\ {MaxReplicas, MaxEdition} \subseteq Nat \ {0}
    /\ {MaxGateFaults, MaxScales, MaxAnalyses} \subseteq Nat

VARIABLES bindingOn,  \* REMEDIATION_PLAYBOOK_BINDING_ENABLED
          replicas,   \* spec.replicas in the cluster, for every target
          edition,    \* edition of the registry in the running image
          analysis,   \* what is stored for the incident
          run,        \* the analysis under way
          writing,    \* the intent that passed the gate
          gateFaults, scales, analyses

gateVars == <<bindingOn, replicas, edition, analysis, run, writing, gateFaults, scales, analyses>>

(***************************************************************************)
(* The registry: the two executable playbooks (the third is preview-only and *)
(* matches nothing here) and the policy of the executor.                     *)
(***************************************************************************)

Playbooks == {"restart_crashloop", "scale_out"}

AlertOf == [restart_crashloop |-> "CrashLooping", scale_out |-> "CPUThrottling"]

FactKinds == {"crashloop", "oom_killed", "recent_deploy", "process_crash", "resource_pressure"}

Found == [restart_crashloop |-> {"crashloop", "process_crash"}, scale_out |-> {"resource_pressure"}]

Absent == [restart_crashloop |-> {"oom_killed", "recent_deploy"},
           scale_out |-> {"crashloop", "oom_killed", "recent_deploy"}]

ActionOf == [restart_crashloop |-> "restart", scale_out |-> "scale"]

Mutating == {"restart", "scale"}
GateActions == {"restart", "scale", "describe"}

\* Sections of a policy: the values a section names, axis by axis.
GatePolicy ==
    [block |-> [tier |-> {"prod", "system"}, dataPlane |-> {"yes"},
                reversibility |-> {"hard"}, confidence |-> {"weak"}],
     auto |-> <<>>,
     approve |-> [tier |-> {"dev", "squad"}, dataPlane |-> {"no", "maybe"}]]

PlaybookPolicy ==
    [GatePolicy EXCEPT !.block.tier = {"prod", "preprod", "system"}]

(***************************************************************************)
(* Matching.                                                                 *)
(***************************************************************************)

(* What the sources said of a kind of fact, nothing included; "banned" is a found
   fact whose evidence the precondition excludes (a crash by a signal). *)
Findings == SUBSET {"found", "absent", "unknown"}

FactStores == [FactKinds \ {"process_crash"} -> Findings]
Crashes == SUBSET {"found", "banned", "absent", "unknown"}

\* Mutated CheckPreconditions: a source that did not answer counts as absence.
CheckPreconditionsLax(pb, facts, crash) ==
    LET said(k) == IF k = "process_crash" THEN crash ELSE facts[k]
    IN  /\ \A k \in Found[pb] : said(k) \cap {"found", "banned"} # {} /\ "banned" \notin said(k)
        /\ \A k \in Absent[pb] : "found" \notin said(k)

CheckPreconditions(pb, facts, crash) ==
    LET said(k) == IF k = "process_crash" THEN crash ELSE facts[k]
    IN  /\ \A k \in Found[pb] : /\ said(k) \cap {"found", "banned"} # {}
                                /\ "banned" \notin said(k)
        /\ \A k \in Absent[pb] : said(k) = {"absent"}

MatchPlaybooks(alert, facts, crash) ==
    {pb \in Playbooks : AlertOf[pb] = alert /\ CheckPreconditions(pb, facts, crash)}

(* What the preconditions are there for: no source contradicts a required
   fact's evidence, and a fact that must not be there was looked for, was not
   found by anybody and no source failed to answer. *)
Proved(pb, facts, crash) ==
    /\ pb = "restart_crashloop" => /\ "found" \in facts["crashloop"]
                                   /\ "found" \in crash /\ "banned" \notin crash
    /\ pb = "scale_out" => /\ "found" \in facts["resource_pressure"]
                           /\ facts["crashloop"] = {"absent"}
    /\ \A k \in {"oom_killed", "recent_deploy"} :
         facts[k] # {} /\ facts[k] \cap {"found", "unknown"} = {}

\* Every outcome of the matching, with the playbooks the facts speak for.
Outcomes ==
    {[matched |-> MatchPlaybooks(alert, facts, crash),
      proved |-> {pb \in Playbooks : Proved(pb, facts, crash)}] :
        alert \in {"CrashLooping", "CPUThrottling"}, facts \in FactStores, crash \in Crashes}

(***************************************************************************)
(* Snapshot and intent.                                                      *)
(***************************************************************************)

Nowhere == [target |-> "none", count |-> -1]
Servers == {Nowhere} \union [target : Targets, count : 0 .. MaxReplicas]

\* The hash of an entry of the snapshot, for one playbook.
Hash(e) == [edition |-> e.edition, server |-> e.server]
NoHash == [edition |-> 0, server |-> Nowhere]

NoEntry == [edition |-> 0, server |-> Nowhere, binding |-> NoHash]

Hashed(e) == [e EXCEPT !.binding = Hash(e)]

Entries == {NoEntry} \union
           {[edition |-> n, server |-> s, binding |-> [edition |-> n, server |-> s]] :
              n \in 1 .. MaxEdition, s \in Servers}

(* count: params.replicas, 0 when absent (1..100 otherwise); current:
   params.current_replicas, -1 when absent.  proved, born: ghosts, whether the
   facts spoke for the playbook and in which edition it was matched. *)
NoIntent == [action |-> "none", type |-> "none", target |-> "none", tier |-> "none", count |-> 0,
             current |-> -1, playbook |-> "none", match |-> NoHash, proved |-> FALSE, born |-> 0]

\* build_match_snapshot.
Snapshot(matched) ==
    [pb \in Playbooks |-> IF pb \in matched
                          THEN Hashed([NoEntry EXCEPT !.edition = edition]) ELSE NoEntry]

NoSnapshot == [pb \in Playbooks |-> NoEntry]

NoAnalysis == [bridge |-> FALSE, tier |-> "none", intent |-> NoIntent, snapshot |-> NoSnapshot]
NoRun == [at |-> "idle", bridge |-> FALSE, tier |-> "none", matched |-> {}, proved |-> {},
          born |-> 0, intent |-> NoIntent, snapshot |-> NoSnapshot]

Intents == [action : GateActions \union {"none"}, type : {"deployment", "pod", "none"},
            target : Targets \union {"none"}, tier : Tiers \union {"none"},
            count : 0 .. MaxReplicas, current : -1 .. MaxReplicas,
            playbook : Playbooks \union {"none"}, match : [edition : 0 .. MaxEdition, server : Servers],
            proved : BOOLEAN, born : 0 .. MaxEdition]

GateTypeOK ==
    /\ bindingOn \in BOOLEAN
    /\ replicas \in [Targets -> 0 .. MaxReplicas]
    /\ edition \in 1 .. MaxEdition
    /\ analysis.intent \in Intents /\ run.intent \in Intents /\ writing \in Intents
    /\ \A pb \in Playbooks : run.snapshot[pb] \in Entries
    /\ gateFaults \in 0 .. MaxGateFaults /\ scales \in 0 .. MaxScales /\ analyses \in 0 .. MaxAnalyses

GateInit ==
    /\ bindingOn \in BOOLEAN
    /\ replicas = [t \in Targets |-> 1]
    /\ edition = 1
    /\ analysis = NoAnalysis /\ run = NoRun /\ writing = NoIntent
    /\ gateFaults = 0 /\ scales = 0 /\ analyses = 0

(***************************************************************************)
(* An analysis: match, intent, server parameters, the stored result.         *)
(***************************************************************************)

\* With the flag off the pipeline matches nothing; the bridge always does.
Match(bridge, tier, outcome) ==
    LET matched == IF bridge \/ bindingOn THEN outcome.matched ELSE {}
    IN  /\ run = NoRun /\ analyses < MaxAnalyses
        /\ analyses' = analyses + 1
        /\ run' = [NoRun EXCEPT !.at = "matched", !.bridge = bridge, !.tier = tier,
                                !.matched = matched, !.born = edition, !.snapshot = Snapshot(matched),
                                !.proved = outcome.proved]
        /\ UNCHANGED <<bindingOn, replicas, edition, analysis, writing, gateFaults, scales>>

(* _enforce_candidate_binding: a playbook that was not matched is struck out,
   the hash is the server's. *)
Enforced(i) ==
    IF ~bindingOn THEN i
    ELSE IF i.playbook \in run.matched THEN [i EXCEPT !.match = run.snapshot[i.playbook].binding]
    ELSE [i EXCEPT !.playbook = "none"]

(* FixAgent: any intent the schema admits; server-only fields are dropped. *)
Suggest(i) ==
    /\ run.at = "matched" /\ ~run.bridge
    /\ run' = [run EXCEPT !.at = "bind",
                          !.intent = Enforced([i EXCEPT !.proved = i.playbook \in run.proved,
                                                        !.born = run.born])]
    /\ UNCHANGED <<bindingOn, replicas, edition, analysis, writing, gateFaults, scales, analyses>>

(* The bridge renders the mutating step; a scale out goes to one more than the
   live number, and is not proposed from zero or from an unknown number. *)
Render(pb, target) ==
    LET live == replicas[target]
    IN  /\ run.at = "matched" /\ run.bridge /\ pb \in run.matched
        /\ pb = "scale_out" => live \in 1 .. MaxReplicas - 1
        /\ run' = [run EXCEPT !.at = "bind",
               !.intent = [action |-> ActionOf[pb], type |-> "deployment", target |-> target,
                           tier |-> run.tier, count |-> IF pb = "scale_out" THEN live + 1 ELSE 0,
                           current |-> IF pb = "scale_out" THEN live ELSE -1, playbook |-> pb,
                           match |-> run.snapshot[pb].binding, proved |-> pb \in run.proved,
                           born |-> run.born]]
        /\ UNCHANGED <<bindingOn, replicas, edition, analysis, writing, gateFaults, scales, analyses>>

\* An analysis without a proposal: no playbook matched, or no plan rendered.
NoProposal ==
    /\ run.at = "matched" /\ run.bridge
    /\ run' = NoRun
    /\ UNCHANGED <<bindingOn, replicas, edition, analysis, writing, gateFaults, scales, analyses>>

\* _server_param_keys: the plan of the scale waits for current_replicas.
WantsCount(i) == i.playbook = "scale_out" /\ i.action = "scale"

(* bind_server_params: what the intent says of the live number is thrown
   away; the number is read anew, put into the entry and the entry hashed
   again.  Without an answer the entry stays without it. *)
Bind(answered) ==
    LET i == [run.intent EXCEPT !.current = -1]
        counted == WantsCount(i) /\ answered
        live == replicas[i.target]
        server == IF counted THEN [target |-> i.target, count |-> live] ELSE Nowhere
        entry == Hashed([run.snapshot[i.playbook] EXCEPT !.server = server])
    IN  /\ run.at = "bind"
        /\ WantsCount(i) \/ answered
        /\ run' = IF i.match = NoHash
                  THEN [run EXCEPT !.at = "store", !.intent = i]
                  ELSE [run EXCEPT !.at = "store", !.snapshot[i.playbook] = entry,
                           !.intent = [i EXCEPT !.match = entry.binding,
                                                !.current = IF counted THEN live ELSE -1]]
        /\ UNCHANGED <<bindingOn, replicas, edition, analysis, writing, gateFaults, scales, analyses>>

\* The intent and the snapshot it belongs to are stored together.
Store ==
    /\ run.at = "store"
    /\ analysis' = [bridge |-> run.bridge, tier |-> run.tier, intent |-> run.intent,
                    snapshot |-> run.snapshot]
    /\ run' = NoRun
    /\ UNCHANGED <<bindingOn, replicas, edition, writing, gateFaults, scales, analyses>>

(***************************************************************************)
(* The world.                                                                *)
(***************************************************************************)

\* Somebody else scales the deployment (external).
ScaledElsewhere(target, n) ==
    /\ scales < MaxScales /\ n # replicas[target]
    /\ scales' = scales + 1
    /\ replicas' = [replicas EXCEPT ![target] = n]
    /\ UNCHANGED <<bindingOn, edition, analysis, run, writing, gateFaults, analyses>>

\* A new image with an edited registry.
NewImage ==
    /\ edition < MaxEdition
    /\ edition' = edition + 1
    /\ UNCHANGED <<bindingOn, replicas, analysis, run, writing, gateFaults, scales, analyses>>

(* Another writer of analysis puts a snapshot of an earlier match back, or
   edits an entry without its hash.  Only the entry of the intent's playbook is
   ever read again. *)
Rewritten(pb, e, hashed) ==
    /\ gateFaults < MaxGateFaults /\ analysis # NoAnalysis
    /\ gateFaults' = gateFaults + 1
    /\ e # NoEntry /\ pb = analysis.intent.playbook
    /\ analysis' = [analysis EXCEPT !.snapshot[pb] =
                       IF hashed THEN e ELSE [e EXCEPT !.binding = analysis.snapshot[pb].binding]]
    /\ UNCHANGED <<bindingOn, replicas, edition, run, writing, scales, analyses>>

(***************************************************************************)
(* The gate and the write.                                                   *)
(***************************************************************************)

\* Mutated Axes: what is unknown is no risk.
AxesOpen(i) == [tier |-> i.tier, dataPlane |-> "no", reversibility |-> "partial", confidence |-> "medium"]

(* compute_risk_axes and _apply_fail_closed_axes for an intent, which has
   neither labels nor an owner: what is unknown counts as a risk. *)
Axes(i) ==
    LET dataPlane == IF i.target \in DataTargets THEN "yes" ELSE "maybe"
        odd == \/ i.action \in Mutating /\ i.type # "deployment"
               \/ i.action = "scale" /\ i.count = 0
    IN  [tier |-> i.tier, dataPlane |-> dataPlane,
         reversibility |-> IF dataPlane = "yes" THEN "hard" ELSE "partial",
         confidence |-> IF odd THEN "weak" ELSE "medium"]

\* A section with no constraint is met by nothing.
Meets(section, axes) == DOMAIN section # {} /\ \A a \in DOMAIN section : axes[a] \in section[a]

\* evaluate_policy: block.any, auto, approve, else block.
Evaluate(policy, axes) ==
    IF \E a \in DOMAIN policy.block : axes[a] \in policy.block[a] THEN "block"
    ELSE IF Meets(policy.auto, axes) THEN "auto"
    ELSE IF Meets(policy.approve, axes) THEN "approve"
    ELSE "block"

\* _step_matches: the action, the type and exactly the parameters of the step.
InPlan(i) ==
    /\ i.playbook # "none"
    /\ i.type = "deployment"
    /\ \/ i.action = "describe" /\ i.count = 0 /\ i.current = -1
       \/ i.action = ActionOf[i.playbook] /\ IF i.action = "scale" THEN i.count # 0 /\ i.current # -1
                                             ELSE i.count = 0 /\ i.current = -1

\* check_intent_binding; an entry has the namespace of its incident, compared in Apply.
Bound(i, snapshot) ==
    /\ i.playbook # "none" /\ i.match # NoHash
    /\ LET e == snapshot[i.playbook]
       IN  /\ e # NoEntry
           /\ e.binding = Hash(e)
           /\ i.match = e.binding
           /\ e.edition = edition
           /\ WantsCount(i) => e.server # Nowhere /\ e.server = [target |-> i.target, count |-> i.current]
    /\ InPlan(i)

\* evaluate_intent_gate: the stricter of the two decisions; reads are free.
Admits(a) ==
    LET i == a.intent
    IN  /\ i.action \in GateActions
        /\ Evaluate(GatePolicy, Axes(i)) # "block"
        /\ (a.bridge \/ bindingOn) /\ i.action \in Mutating =>
               Bound(i, a.snapshot) /\ Evaluate(PlaybookPolicy, Axes(i)) # "block"

(* apply_intent up to the claim: the namespace of the incident, the gate, and
   a dry run in which the API server compares the number it was given. *)
Apply ==
    /\ writing = NoIntent /\ analysis.intent # NoIntent
    /\ analysis.intent.tier = analysis.tier
    /\ Admits(analysis)
    /\ analysis.intent.current \in {-1, replicas[analysis.intent.target]}
    /\ writing' = analysis.intent
    /\ UNCHANGED <<bindingOn, replicas, edition, analysis, run, gateFaults, scales, analyses>>

\* Mutated Precondition: the command goes without --current-replicas.
PreconditionDropped(i) == TRUE

\* to_argv: --current-replicas makes the API server refuse a changed number.
Precondition(i) == i.action = "scale" /\ i.current # -1 => replicas[i.target] = i.current

Write ==
    /\ writing # NoIntent
    /\ replicas' = IF writing.action = "scale" /\ Precondition(writing)
                   THEN [replicas EXCEPT ![writing.target] = writing.count] ELSE replicas
    /\ writing' = NoIntent
    /\ UNCHANGED <<bindingOn, edition, analysis, run, gateFaults, scales, analyses>>

LLMIntents ==
    [action : GateActions, type : {"deployment", "pod"}, target : Targets, tier : Tiers,
     count : {0} \union {MaxReplicas}, current : {-1}, playbook : Playbooks \union {"none"},
     match : {NoHash}, proved : {FALSE}, born : {0}]

GateNext ==
    \/ \E bridge \in BOOLEAN, tier \in Tiers, outcome \in Outcomes : Match(bridge, tier, outcome)
    \/ \E i \in LLMIntents : Suggest(i)
    \/ \E pb \in Playbooks, target \in Targets : Render(pb, target)
    \/ NoProposal
    \/ \E answered \in BOOLEAN : Bind(answered)
    \/ Store
    \/ \E target \in Targets, n \in 0 .. MaxReplicas : ScaledElsewhere(target, n)
    \/ NewImage
    \/ \E pb \in Playbooks, e \in Entries, hashed \in BOOLEAN : Rewritten(pb, e, hashed)
    \/ Apply
    \/ Write

GateSpec == GateInit /\ [][GateNext]_gateVars

(***************************************************************************)
(* Properties.                                                               *)
(***************************************************************************)

Admitted(i) == writing = NoIntent /\ writing' = i /\ i # NoIntent

(* The promise of the binding: where it is required, a mutating intent passes
   the gate only if the facts of the analysis it comes from spoke for its
   playbook, the playbook has not been edited since, and the intent is the
   mutating step of its plan -- whatever the model proposed, and whatever
   happened to the stored snapshot. *)
BoundIntentsProved ==
    [][\A i \in {writing'} : Admitted(i) /\ i.action \in Mutating /\ (analysis.bridge \/ bindingOn) =>
          i.proved /\ i.born = edition /\ i.action = ActionOf[i.playbook]]_gateVars

(* Bound or not, nothing that changes the cluster is admitted outside dev and
   squad, on a target that looks stateful, or as a contradictory intent. *)
RiskyNeverAdmitted ==
    [][\A i \in {writing'} : Admitted(i) /\ i.action \in Mutating =>
          /\ i.tier \in {"dev", "squad"} /\ i.target \notin DataTargets
          /\ i.type = "deployment" /\ (i.action = "scale" => i.count > 0)]_gateVars

(* A bound scale never overwrites a number of replicas other than the one read
   when the intent was bound to its playbook. *)
NoScaleLost ==
    [][writing # NoIntent /\ writing.match # NoHash /\ replicas' # replicas /\ writing' = NoIntent =>
          replicas[writing.target] = writing.match.server.count]_gateVars

(* The bridge's scale out goes to one more than the number the command is
   conditioned on (docstring of _plan_context).  The number is read once to
   render the plan and once more by bind_server_params. *)
ScaleOutAddsOne ==
    analysis.bridge /\ analysis.intent.action = "scale" /\ analysis.intent.current # -1 =>
        analysis.intent.count = analysis.intent.current + 1

=============================================================================
