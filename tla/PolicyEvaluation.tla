-------------------------- MODULE PolicyEvaluation --------------------------
(***************************************************************************)
(* The policy engine of internal/policy/policy.go with the adapter names   *)
(* of internal/adapters/registry.go: a policy file is validated and its    *)
(* rules are sorted once, then every request walks the sorted rules,       *)
(* collecting what the matching ones ask for, and the decision is drawn    *)
(* from the collected flags.                                               *)
(*                                                                         *)
(* Text is abstracted to names; Fold is what strings.ToLower makes of them,*)
(* and strings.EqualFold compares.  A list that is only searched (tools,   *)
(* args, needs, ...) is a set.                                             *)
(***************************************************************************)
EXTENDS Integers, FiniteSets, Sequences

CONSTANTS
  Names,        \* the strings a policy or a request can hold
  NoName,       \* the blank string
  Fold,         \* name -> its lower-case form
  Registry,     \* name -> canonical adapter (canonicalByAlias), NoName if none
  Policies,     \* the contents a policy file may have
  Nothing,      \* a file that cannot be read or is not JSON; no request yet
  Requests      \* the decision contexts a caller may ask about

Effects == {"allow", "deny", "transform", "allow_with_redaction"}
Modes   == {"mask", "tokenize", "anonymize", "redact", "replace", "hash"}

EntityTypes == {"email", "phone", "ssn", "api_key", "credit_card", "ip_address",
                "date", "zip_code", "person", "organization", "location"}

ASSUME NamesAssumption ==
  /\ NoName \in Names
  /\ Fold \in [Names -> Names] /\ Registry \in [Names -> Names]
  /\ \A n \in Names : Fold[n] = NoName <=> n = NoName

\* init registers every canonical name as a name of its own family, and no blank one.
ASSUME RegistryAssumption ==
  /\ Registry[NoName] = NoName
  /\ \A n \in Names : Registry[n] # NoName => Registry[Registry[n]] = Registry[n]

Rules == [id : Names, description : Names, priority : Int, effect : Names,
          types : SUBSET Names, tools : SUBSET Names, commands : SUBSET Names,
          args : SUBSET Names, adapters : SUBSET Names,
          prefixes : SUBSET Seq(Names), sensitiveOnly : BOOLEAN,
          needs : SUBSET Names, transforms : Seq(Names \X Names)]

ASSUME PoliciesAssumption ==
  /\ Nothing \notin Policies
  /\ \A p \in Policies : p.rules \in Seq(Rules)

ASSUME RequestsAssumption ==
  \A q \in Requests : q.findings \subseteq Names /\ q.action.tool \in Names

VARIABLES
  status,     \* "starting", "refused" (the process exits), "ready", "walking"
  policy,     \* what was read from the file
  rules,      \* s.policy.Rules: the rules in the order they are tried
  request,    \* the request being decided
  next,       \* index of the next rule to try
  matchIDs, transformPlan, denyReason,
  flags,      \* {"deny", "transform", "redaction"}: the booleans that are set
  result      \* the DecisionResult, NoResult before it is known

walk == <<next, matchIDs, transformPlan, denyReason, flags>>
vars == <<status, policy, rules, request, walk, result>>

-----------------------------------------------------------------------------
(* Matching a rule against a request *)

matchesField(allowed, value) ==
  allowed = {} \/ \E a \in allowed : Fold[a] = Fold[value]

matchesArgs(required, args) ==
  \A e \in required : \E v \in args : matchesField({e}, v)

Canonical(name) == Registry[Fold[name]]

\* Mutant: only canonical names are compared.
MatchesCanonicalOnly(tool, targets) ==
  targets = {} \/ (Canonical(tool) # NoName /\ \E t \in targets : Canonical(tool) = Canonical(t))

MatchesAdapter(tool, targets) ==
  targets = {} \/ \E t \in targets :
    \/ Fold[tool] = Fold[t]
    \/ Canonical(tool) # NoName /\ Canonical(tool) \in {Canonical(t), Fold[t]}
    \/ Fold[tool] = Canonical(t)

HasPrefix(s, p) == Len(p) <= Len(s) /\ SubSeq(s, 1, Len(p)) = p

matchAction(rule, action) ==
  /\ matchesField(rule.types, action.type)
  /\ matchesField(rule.tools, action.tool)
  /\ matchesField(rule.commands, action.command)
  /\ matchesArgs(rule.args, action.args)
  /\ MatchesAdapter(action.tool, rule.adapters)
  /\ rule.sensitiveOnly => action.sensitive
  /\ rule.prefixes # {} => /\ action.resource # <<>>
                           /\ \E p \in rule.prefixes : HasPrefix(action.resource, p)

\* Mutant: a finding that is not required keeps the rule from matching.
HasExactlyEntities(reqs, findings) == {Fold[r] : r \in reqs} = {Fold[f] : f \in findings}

hasRequiredEntities(reqs, findings) ==
  \A r \in reqs : Fold[r] \in EntityTypes /\ Fold[r] \in {Fold[f] : f \in findings}

\* The three guards of the loop over the rules.
Matches(rule, q) ==
  /\ rule.effect \in Effects
  /\ matchAction(rule, q.action)
  /\ hasRequiredEntities(rule.needs, q.findings)

-----------------------------------------------------------------------------
(* Loading a policy *)

ValidatePolicy(p) ==
  /\ p.id # NoName /\ p.version # NoName /\ p.rules # <<>>
  /\ \A i, j \in DOMAIN p.rules : p.rules[i].id = p.rules[j].id => i = j
  /\ \A i \in DOMAIN p.rules :
       LET r == p.rules[i] IN
         /\ r.id # NoName /\ r.priority >= 0 /\ r.effect \in Effects
         /\ NoName \notin r.types \cup r.tools \cup r.commands \cup r.args \cup r.adapters
         /\ <<>> \notin r.prefixes
         /\ \A e \in r.needs : Fold[e] \in EntityTypes
         /\ \A k \in DOMAIN r.transforms :
              Fold[r.transforms[k][1]] \in EntityTypes /\ r.transforms[k][2] \in Modes

\* The order of sort.SliceStable: priority first, then the place in the file.
GoesBefore(rs, i, j) ==
  \/ rs[i].priority > rs[j].priority
  \/ rs[i].priority = rs[j].priority /\ i < j

\* Mutant: the lowest priority comes first.
AscendingOrders(rs) ==
  {f \in [DOMAIN rs -> DOMAIN rs] :
     /\ \A i, j \in DOMAIN rs : i < j => GoesBefore(rs, f[j], f[i])
     /\ \A k \in DOMAIN rs : \E i \in DOMAIN rs : f[i] = k}

\* The one way to line the rules up in that order.
StableOrders(rs) ==
  {f \in [DOMAIN rs -> DOMAIN rs] :
     /\ \A i, j \in DOMAIN rs : i < j => GoesBefore(rs, f[i], f[j])
     /\ \A k \in DOMAIN rs : \E i \in DOMAIN rs : f[i] = k}

NoResult == [decision |-> NoName, matched |-> <<>>, plan |-> <<>>, reason |-> NoName]

Init ==
  /\ status = "starting"
  /\ policy = Nothing /\ rules = <<>> /\ request = Nothing
  /\ next = 0 /\ matchIDs = <<>> /\ transformPlan = <<>>
  /\ denyReason = NoName /\ flags = {}
  /\ result = NoResult

\* LoadPolicyFromFile fails and main exits.
Refuse(content) ==
  /\ status = "starting"
  /\ content # Nothing => ~ValidatePolicy(content)
  /\ status' = "refused" /\ policy' = content
  /\ UNCHANGED <<rules, request, walk, result>>

\* LoadPolicyFromFile succeeds and server.New normalises the policy.
Load(content) ==
  /\ status = "starting"
  /\ content # Nothing /\ ValidatePolicy(content)
  /\ status' = "ready" /\ policy' = content
  /\ \E order \in StableOrders(content.rules) :
       rules' = [i \in DOMAIN content.rules |-> content.rules[order[i]]]
  /\ UNCHANGED <<request, walk, result>>

-----------------------------------------------------------------------------
(* Deciding a request *)

Denied(reason) == [NoResult EXCEPT !.decision = "deny", !.reason = reason]

\* EvaluateSorted is called: the early return, or the walk from the first rule.
Ask(q) ==
  /\ status = "ready"
  /\ request' = q
  /\ next' = 1 /\ matchIDs' = <<>> /\ transformPlan' = <<>>
  /\ denyReason' = NoName /\ flags' = {}
  /\ IF q.action.type = NoName
       THEN result' = Denied("action.type is required") /\ UNCHANGED status
       ELSE status' = "walking" /\ result' = NoResult
  /\ UNCHANGED <<policy, rules>>

FlagOf(effect) ==
  CASE effect = "deny"                 -> {"deny"}
    [] effect = "transform"            -> {"transform"}
    [] effect = "allow_with_redaction" -> {"redaction"}
    [] OTHER                           -> {}

\* The rule under the cursor is skipped.
Skip ==
  /\ status = "walking" /\ next <= Len(rules) /\ ~Matches(rules[next], request)
  /\ next' = next + 1
  /\ UNCHANGED <<status, policy, rules, request, matchIDs, transformPlan, denyReason,
                 flags, result>>

\* Mutant: a later transform rule overwrites the plan.
TakeLatestPlan ==
  /\ status = "walking" /\ next <= Len(rules) /\ Matches(rules[next], request)
  /\ next' = next + 1
  /\ matchIDs' = Append(matchIDs, rules[next].id)
  /\ flags' = flags \cup FlagOf(rules[next].effect)
  /\ denyReason' = IF rules[next].effect = "deny" /\ denyReason = NoName
                     THEN rules[next].description ELSE denyReason
  /\ transformPlan' = IF rules[next].effect = "transform"
                        THEN rules[next].transforms ELSE transformPlan
  /\ UNCHANGED <<status, policy, rules, request, result>>

\* The rule under the cursor matches.
Take ==
  /\ status = "walking" /\ next <= Len(rules) /\ Matches(rules[next], request)
  /\ next' = next + 1
  /\ matchIDs' = Append(matchIDs, rules[next].id)
  /\ flags' = flags \cup FlagOf(rules[next].effect)
  /\ denyReason' = IF rules[next].effect = "deny" /\ denyReason = NoName
                     THEN rules[next].description ELSE denyReason
  /\ transformPlan' = IF rules[next].effect = "transform"
                        THEN transformPlan \o rules[next].transforms ELSE transformPlan
  /\ UNCHANGED <<status, policy, rules, request, result>>

defaultEntityTransforms ==
  << <<"email", "mask">>, <<"phone", "tokenize">>, <<"ssn", "anonymize">>,
     <<"api_key", "redact">>, <<"credit_card", "redact">>, <<"ip_address", "mask">>,
     <<"date", "mask">>, <<"zip_code", "mask">>, <<"person", "redact">>,
     <<"organization", "mask">>, <<"location", "mask">> >>

PlanOrDefault == IF transformPlan = <<>> THEN defaultEntityTransforms ELSE transformPlan

\* Mutant: transforms outrank denials.
OutcomeTransformFirst ==
  CASE "transform" \in flags -> [NoResult EXCEPT !.decision = "transform",
                                   !.matched = matchIDs, !.plan = PlanOrDefault]
    [] "deny" \in flags -> [NoResult EXCEPT !.decision = "deny", !.matched = matchIDs,
                              !.reason = denyReason]
    [] OTHER -> [NoResult EXCEPT !.decision = "allow", !.matched = matchIDs]

\* The cascade after the loop.
Outcome ==
  CASE "deny" \in flags -> [Denied(denyReason) EXCEPT !.matched = matchIDs]
    [] "deny" \notin flags /\ "transform" \in flags ->
         [NoResult EXCEPT !.decision = "transform", !.matched = matchIDs, !.plan = PlanOrDefault]
    [] flags = {"redaction"} ->
         [NoResult EXCEPT !.decision = "allow_with_redaction", !.matched = matchIDs,
                          !.plan = PlanOrDefault]
    [] flags = {} /\ matchIDs # <<>> ->
         [NoResult EXCEPT !.decision = "allow", !.matched = matchIDs]
    [] OTHER -> Denied("no matching rule")

Conclude ==
  /\ status = "walking" /\ next > Len(rules)
  /\ status' = "ready" /\ result' = Outcome
  /\ UNCHANGED <<policy, rules, request, walk>>

Next ==
  \/ \E content \in Policies \cup {Nothing} : Refuse(content) \/ Load(content)
  \/ \E q \in Requests : Ask(q)
  \/ Skip
  \/ Take
  \/ Conclude

Spec == Init /\ [][Next]_vars

-----------------------------------------------------------------------------
(* Properties *)

\* The matching rules, as indices into the policy file, of some effects.
Matching(q, effects) ==
  {i \in DOMAIN policy.rules : Matches(policy.rules[i], q) /\ policy.rules[i].effect \in effects}

\* The effects that beat an effect, and the requests that have to be denied.
Outranking == [deny |-> {}, transform |-> {"deny"},
               allow_with_redaction |-> {"deny", "transform"},
               allow |-> {"deny", "transform", "allow_with_redaction"}]

MustDeny(q) ==
  \/ q.action.type = NoName
  \/ Matching(q, Effects) = {}
  \/ Matching(q, {"deny"}) # {}

Answered == status = "ready" /\ request # Nothing
Walked   == Answered /\ request.action.type # NoName

\* The answer depends on which rules of the file match and on nothing else: a
\* deny beats a transform, which beats a redaction, which beats an allow,
\* whatever the priorities say, and where no rule matches the action is denied
\* (datafog-api-mvp-spec.md:49).
Precedence ==
  Answered =>
    IF MustDeny(request) THEN result.decision = "deny"
    ELSE /\ Matching(request, {result.decision}) # {}
         /\ Matching(request, Outranking[result.decision]) = {}

\* matched_rules names every matching rule once, by priority and then in file
\* order, in a denial that some other rule would have allowed too; the reason of
\* a denial by rule is the first description of a deny rule in that order.
TraceInOrder ==
  Walked =>
    LET told == {i \in Matching(request, {"deny"}) : policy.rules[i].description # NoName} IN
    /\ Len(result.matched) = Cardinality(Matching(request, Effects))
    /\ \E trace \in [DOMAIN result.matched -> Matching(request, Effects)] :
         /\ \A k \in DOMAIN trace : result.matched[k] = policy.rules[trace[k]].id
         /\ \A k, l \in DOMAIN trace : k < l => GoesBefore(policy.rules, trace[k], trace[l])
    /\ Matching(request, {"deny"}) # {} =>
         IF told = {} THEN result.reason = NoName
         ELSE \E i \in told : /\ result.reason = policy.rules[i].description
                              /\ \A j \in told \ {i} : GoesBefore(policy.rules, i, j)

\* Whoever must transform is told how: the plan holds every step of every
\* matching transform rule, or the defaults for all entity types where there is
\* none, and no other answer carries a plan.
PlanIsComplete ==
  LET steps == UNION {{policy.rules[i].transforms[k] : k \in DOMAIN policy.rules[i].transforms} :
                        i \in Matching(request, {"transform"})}
      plan == {result.plan[k] : k \in DOMAIN result.plan}
  IN Walked =>
       CASE result.decision = "transform" /\ steps # {} -> plan = steps
         [] result.decision = "transform" /\ steps = {} -> result.plan = defaultEntityTransforms
         [] result.decision = "allow_with_redaction" -> result.plan = defaultEntityTransforms
         [] OTHER -> plan = {}

\* Detecting more never undoes a denial by rule: the same action with further
\* findings is denied as well.
DenialSurvivesFindings ==
  Walked /\ result.decision = "deny" /\ result.matched # <<>> =>
    \A q \in Requests :
      q.action = request.action /\ request.findings \subseteq q.findings => MustDeny(q)

Family(name) == IF Canonical(name) = NoName THEN Fold[name] ELSE Canonical(name)

\* A rule bound to adapters applies to an action that names a tool exactly when
\* the tool and one of the adapters are names of one family; and to one that
\* names none exactly when an adapter is not in the registry (the blank tool
\* equals the blank canonical name at registry.go:162).
AdapterFamilies ==
  LET tool == request.action.tool IN
  Walked => \A i \in DOMAIN rules : rules[i].adapters # {} =>
    (MatchesAdapter(tool, rules[i].adapters)
       <=> \E t \in rules[i].adapters : IF tool = NoName THEN Canonical(t) = NoName ELSE Family(t) = Family(tool))
=============================================================================
