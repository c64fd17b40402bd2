----------------------- MODULE PolicyEvaluationProofs -----------------------
(***************************************************************************)
(* What the policy engine decides, for every policy, every request and     *)
(* every registry of adapters.  The walk over the sorted rules is related  *)
(* to the rules of the file by IInv: the flags say which effects occur     *)
(* among the matching rules passed so far, and the sorted rules are those  *)
(* of the file in another order.                                           *)
(***************************************************************************)
EXTENDS PolicyEvaluation, SequenceTheorems, FiniteSetTheorems, TLAPS

\* The rules tried are the rules of the file, each of them and no other.
SameRules ==
  /\ rules \in Seq(Rules) /\ policy.rules \in Seq(Rules)
  /\ \A i \in 1..Len(rules) : \E k \in 1..Len(policy.rules) : rules[i] = policy.rules[k]
  /\ \A k \in 1..Len(policy.rules) : \E i \in 1..Len(rules) : rules[i] = policy.rules[k]

Passed(effect) ==
  \E i \in 1..Len(rules) : i < next /\ Matches(rules[i], request) /\ rules[i].effect = effect

\* What the walk has collected.
Collected ==
  /\ next \in Nat \ {0}
  /\ request \in Requests /\ request.action.type # NoName
  /\ flags \subseteq {"deny", "transform", "redaction"}
  /\ "deny" \in flags <=> Passed("deny")
  /\ "transform" \in flags <=> Passed("transform")
  /\ "redaction" \in flags <=> Passed("allow_with_redaction")
  /\ matchIDs # <<>> <=> \E e \in Effects : Passed(e)

\* A trace names rules that match.
TraceIsReal == Answered /\ result.matched # <<>> =>
                 request.action.type # NoName /\ Matching(request, Effects) # {}

IInv ==
  /\ rules \in Seq(Rules)
  /\ status \in {"ready", "walking"} => policy \in Policies /\ SameRules
  /\ matchIDs \in Seq(Names)
  /\ status = "starting" => request = Nothing
  /\ status = "walking" => Collected
  /\ status = "ready" => request \in Requests \cup {Nothing}
  /\ Precedence /\ TraceIsReal

-----------------------------------------------------------------------------
\* Sorting keeps the rules of the file.
LEMMA SortingKeepsRules ==
  ASSUME NEW rs \in Seq(Rules), NEW f \in StableOrders(rs)
  PROVE  LET sorted == [i \in DOMAIN rs |-> rs[f[i]]] IN
         /\ sorted \in Seq(Rules) /\ Len(sorted) = Len(rs)
         /\ \A i \in 1..Len(sorted) : \E k \in 1..Len(rs) : sorted[i] = rs[k]
         /\ \A k \in 1..Len(rs) : \E i \in 1..Len(sorted) : sorted[i] = rs[k]
<1> DEFINE sorted == [i \in DOMAIN rs |-> rs[f[i]]]
<1>1. DOMAIN rs = 1..Len(rs) /\ Len(rs) \in Nat
  OBVIOUS
<1>2. f \in [1..Len(rs) -> 1..Len(rs)] /\ \A k \in 1..Len(rs) : \E i \in 1..Len(rs) : f[i] = k
  BY <1>1 DEF StableOrders
<1>3. sorted \in [1..Len(rs) -> Rules]
  BY <1>1, <1>2
<1>4. sorted \in Seq(Rules) /\ Len(sorted) = Len(rs)
  BY <1>1, <1>3
<1> QED
  BY <1>1, <1>2, <1>4

\* A rule matches all the more when more has been found.
LEMMA MoreFindingsMoreMatches ==
  ASSUME NEW r, NEW p, NEW q, p.action = q.action, p.findings \subseteq q.findings,
         Matches(r, p)
  PROVE  Matches(r, q)
<1>1. {Fold[x] : x \in p.findings} \subseteq {Fold[x] : x \in q.findings}
  OBVIOUS
<1>2. hasRequiredEntities(r.needs, q.findings)
  BY <1>1 DEF Matches, hasRequiredEntities
<1> QED
  BY <1>2 DEF Matches

\* After the last rule, what was passed is what matches in the file.
LEMMA AllPassed ==
  ASSUME SameRules, next \in Nat, next > Len(rules), NEW e \in Effects
  PROVE  Passed(e) <=> Matching(request, {e}) # {}
<1>1. Len(rules) \in Nat /\ Len(policy.rules) \in Nat /\ DOMAIN policy.rules = 1..Len(policy.rules)
  BY DEF SameRules
<1>2. ASSUME Passed(e) PROVE Matching(request, {e}) # {}
  <2>1. PICK i \in 1..Len(rules) : Matches(rules[i], request) /\ rules[i].effect = e
    BY <1>2 DEF Passed
  <2>2. PICK k \in 1..Len(policy.rules) : rules[i] = policy.rules[k]
    BY DEF SameRules
  <2> QED
    BY <1>1, <2>1, <2>2 DEF Matching
<1>3. ASSUME Matching(request, {e}) # {} PROVE Passed(e)
  <2>1. PICK k \in 1..Len(policy.rules) : Matches(policy.rules[k], request) /\ policy.rules[k].effect = e
    BY <1>1, <1>3 DEF Matching
  <2>2. PICK i \in 1..Len(rules) : rules[i] = policy.rules[k]
    BY DEF SameRules
  <2>3. i < next
    BY <1>1
  <2> QED
    BY <2>1, <2>2, <2>3 DEF Passed
<1> QED
  BY <1>2, <1>3

-----------------------------------------------------------------------------
LEMMA InitInv == Init => IInv
  BY DEF Init, IInv, Precedence, TraceIsReal, Answered

LEMMA LoadKeepsInv ==
  ASSUME IInv, NEW content \in Policies \cup {Nothing}, Load(content)
  PROVE  IInv'
<1>1. content \in Policies /\ content.rules \in Seq(Rules)
  BY PoliciesAssumption DEF Load
<1>2. PICK f \in StableOrders(content.rules) :
        rules' = [i \in DOMAIN content.rules |-> content.rules[f[i]]]
  BY DEF Load
<1>3. /\ rules' \in Seq(Rules) /\ Len(rules') = Len(content.rules)
      /\ \A i \in 1..Len(rules') : \E k \in 1..Len(content.rules) : rules'[i] = content.rules[k]
      /\ \A k \in 1..Len(content.rules) : \E i \in 1..Len(rules') : rules'[i] = content.rules[k]
  <2> DEFINE rs == content.rules
             sorted == [i \in DOMAIN rs |-> rs[f[i]]]
  <2>1. rs \in Seq(Rules) /\ f \in StableOrders(rs) /\ rules' = sorted
    BY <1>1, <1>2
  <2> HIDE DEF rs
  <2>2. /\ sorted \in Seq(Rules) /\ Len(sorted) = Len(rs)
        /\ \A i \in 1..Len(sorted) : \E k \in 1..Len(rs) : sorted[i] = rs[k]
        /\ \A k \in 1..Len(rs) : \E i \in 1..Len(sorted) : sorted[i] = rs[k]
    BY <2>1, SortingKeepsRules, Zenon
  <2> HIDE DEF sorted
  <2>3. /\ rules' \in Seq(Rules) /\ Len(rules') = Len(rs)
        /\ \A i \in 1..Len(rules') : \E k \in 1..Len(rs) : rules'[i] = rs[k]
        /\ \A k \in 1..Len(rs) : \E i \in 1..Len(rules') : rules'[i] = rs[k]
    BY <2>1, <2>2, Zenon
  <2> QED
    BY <2>3 DEF rs
<1>4. policy' = content /\ SameRules'
  BY <1>1, <1>3 DEF Load, SameRules
<1>5. request = Nothing /\ status' = "ready" /\ UNCHANGED <<request, matchIDs, result>>
  BY DEF Load, walk, IInv
<1> QED
  BY <1>1, <1>3, <1>4, <1>5 DEF IInv, Precedence, TraceIsReal, Answered

\* The walk begins with nothing passed, or the answer is given at once.
LEMMA AskKeepsInv ==
  ASSUME IInv, NEW q \in Requests, Ask(q)
  PROVE  IInv'
<1>1. /\ status = "ready" /\ request' = q /\ next' = 1 /\ matchIDs' = <<>> /\ flags' = {}
      /\ UNCHANGED <<policy, rules>>
  BY DEF Ask
<1>2. rules \in Seq(Rules) /\ policy \in Policies /\ SameRules
  BY <1>1 DEF IInv
<1>3. SameRules'
  BY <1>1, <1>2 DEF SameRules
<1>4. CASE q.action.type = NoName
  <2>1. status' = "ready" /\ result'.decision = "deny" /\ result'.matched = <<>>
    BY <1>1, <1>4 DEF Ask, Denied, NoResult
  <2>2. Precedence'
    BY <1>1, <1>4, <2>1 DEF Precedence, MustDeny
  <2> QED
    BY <1>1, <1>2, <1>3, <2>1, <2>2 DEF IInv, TraceIsReal
<1>5. CASE q.action.type # NoName
  <2>1. status' = "walking" /\ result'.matched = <<>>
    BY <1>5 DEF Ask, NoResult
  <2>2. \A e : ~Passed(e)'
    BY <1>1 DEF Passed
  <2>3. Collected'
    BY <1>1, <1>5, <2>2 DEF Collected
  <2> QED
    BY <1>1, <1>2, <1>3, <2>1, <2>3 DEF IInv, Precedence, TraceIsReal, Answered
<1> QED
  BY <1>4, <1>5

\* One rule further, what has been passed grows by that rule.
LEMMA OneRuleFurther ==
  ASSUME next \in Nat, next <= Len(rules), next # 0, Len(rules) \in Nat, next' = next + 1,
         UNCHANGED <<rules, request>>, NEW e
  PROVE  Passed(e)' <=> \/ Passed(e)
                        \/ Matches(rules[next], request) /\ rules[next].effect = e
<1>1. \A i \in 1..Len(rules) : i < next' <=> i < next \/ i = next
  OBVIOUS
<1>2. next \in 1..Len(rules)
  OBVIOUS
<1> QED
  BY <1>1, <1>2 DEF Passed

LEMMA SkipKeepsInv == ASSUME IInv, Skip PROVE IInv'
<1>1. /\ status = "walking" /\ status' = "walking" /\ next <= Len(rules) /\ next' = next + 1
      /\ ~Matches(rules[next], request)
      /\ UNCHANGED <<policy, rules, request, matchIDs, flags, result>>
  BY DEF Skip
<1>2. rules \in Seq(Rules) /\ policy \in Policies /\ SameRules /\ Collected
  BY <1>1 DEF IInv
<1>3. \A e : Passed(e)' <=> Passed(e)
  BY <1>1, <1>2, OneRuleFurther DEF Collected
<1>4. Collected'
  BY <1>1, <1>2, <1>3 DEF Collected
<1>5. SameRules'
  BY <1>1, <1>2 DEF SameRules
<1> QED
  BY <1>1, <1>2, <1>4, <1>5 DEF IInv, Precedence, TraceIsReal, Answered

LEMMA TakeKeepsInv == ASSUME IInv, Take PROVE IInv'
<1>1. /\ status = "walking" /\ status' = "walking" /\ next <= Len(rules) /\ next' = next + 1
      /\ Matches(rules[next], request)
      /\ matchIDs' = Append(matchIDs, rules[next].id)
      /\ flags' = flags \cup FlagOf(rules[next].effect)
      /\ UNCHANGED <<policy, rules, request, result>>
  BY DEF Take
<1>2. rules \in Seq(Rules) /\ policy \in Policies /\ SameRules /\ Collected /\ matchIDs \in Seq(Names)
  BY <1>1 DEF IInv
<1>3. next \in 1..Len(rules)
  BY <1>1, <1>2 DEF Collected
<1>4. rules[next] \in Rules /\ rules[next].effect \in Effects
  BY <1>1, <1>2, <1>3 DEF Matches
<1>5. \A e : Passed(e)' <=> Passed(e) \/ rules[next].effect = e
  BY <1>1, <1>2, <1>3, OneRuleFurther
<1>6. matchIDs' \in Seq(Names) /\ matchIDs' # <<>>
  <2>1. rules[next].id \in Names
    BY <1>4 DEF Rules
  <2> QED
    BY <1>1, <1>2, <2>1, AppendProperties
<1>7. Collected'
  <2>1. /\ "deny" \in FlagOf(rules[next].effect) <=> rules[next].effect = "deny"
        /\ "transform" \in FlagOf(rules[next].effect) <=> rules[next].effect = "transform"
        /\ "redaction" \in FlagOf(rules[next].effect) <=> rules[next].effect = "allow_with_redaction"
        /\ FlagOf(rules[next].effect) \subseteq {"deny", "transform", "redaction"}
    BY <1>4 DEF FlagOf, Effects
  <2>2. \E e \in Effects : Passed(e)'
    BY <1>4, <1>5
  <2>3. /\ "deny" \in flags' <=> Passed("deny")'
        /\ "transform" \in flags' <=> Passed("transform")'
        /\ "redaction" \in flags' <=> Passed("allow_with_redaction")'
        /\ flags' \subseteq {"deny", "transform", "redaction"}
    BY <1>1, <1>2, <1>5, <2>1 DEF Collected
  <2>4. next' \in Nat \ {0}
    BY <1>1, <1>2 DEF Collected
  <2>5. matchIDs' # <<>> <=> \E e \in Effects : Passed(e)'
    BY <1>6, <2>2
  <2> QED
    BY <1>1, <1>2, <2>3, <2>4, <2>5 DEF Collected
<1>8. SameRules'
  BY <1>1, <1>2 DEF SameRules
<1> QED
  BY <1>1, <1>2, <1>6, <1>7, <1>8 DEF IInv, Precedence, TraceIsReal, Answered

\* The matching rules of the file, by effect, after the walk.
LEMMA WalkIsOver ==
  ASSUME SameRules, Collected, next > Len(rules)
  PROVE  /\ "deny" \in flags <=> Matching(request, {"deny"}) # {}
         /\ "transform" \in flags <=> Matching(request, {"transform"}) # {}
         /\ "redaction" \in flags <=> Matching(request, {"allow_with_redaction"}) # {}
         /\ matchIDs # <<>> <=> Matching(request, Effects) # {}
         /\ flags = {} /\ matchIDs # <<>> => Matching(request, {"allow"}) # {}
<1>1. next \in Nat /\ {"deny", "transform", "allow_with_redaction", "allow"} \subseteq Effects
  BY DEF Collected, Effects
<1>2. \A e \in Effects : Passed(e) <=> Matching(request, {e}) # {}
  BY <1>1, AllPassed
<1>3. Matching(request, Effects) # {} <=> \E e \in Effects : Matching(request, {e}) # {}
  BY DEF Matching
<1>4. \A e \in Effects : e \in {"deny", "transform", "allow_with_redaction", "allow"}
  BY DEF Effects
<1>5. matchIDs # <<>> <=> Matching(request, Effects) # {}
  BY <1>2, <1>3 DEF Collected
<1>6. ASSUME flags = {}, matchIDs # <<>> PROVE Matching(request, {"allow"}) # {}
  <2>1. PICK e \in Effects : Matching(request, {e}) # {}
    BY <1>3, <1>5, <1>6
  <2>2. ~Passed("deny") /\ ~Passed("transform") /\ ~Passed("allow_with_redaction")
    BY <1>6 DEF Collected
  <2> QED
    BY <1>1, <1>2, <1>4, <2>1, <2>2
<1> QED
  BY <1>1, <1>2, <1>5, <1>6 DEF Collected

LEMMA ConcludeKeepsInv == ASSUME IInv, Conclude PROVE IInv'
<1>1. /\ status = "walking" /\ status' = "ready" /\ next > Len(rules) /\ result' = Outcome
      /\ UNCHANGED <<policy, rules, request, matchIDs>>
  BY DEF Conclude, walk
<1>2. rules \in Seq(Rules) /\ policy \in Policies /\ SameRules /\ Collected /\ matchIDs \in Seq(Names)
  BY <1>1 DEF IInv
<1>3. request \in Requests /\ request.action.type # NoName
  BY <1>2 DEF Collected
<1>4. SameRules'
  BY <1>1, <1>2 DEF SameRules
<1>5. \A E : Matching(request, E)' = Matching(request, E)
  BY <1>1 DEF Matching
<1>6. /\ "deny" \in flags <=> Matching(request, {"deny"}) # {}
      /\ "transform" \in flags <=> Matching(request, {"transform"}) # {}
      /\ "redaction" \in flags <=> Matching(request, {"allow_with_redaction"}) # {}
      /\ matchIDs # <<>> <=> Matching(request, Effects) # {}
      /\ flags = {} /\ matchIDs # <<>> => Matching(request, {"allow"}) # {}
  BY <1>1, <1>2, WalkIsOver
<1>7. flags \subseteq {"deny", "transform", "redaction"}
  BY <1>2 DEF Collected
<1>8. result'.matched # <<>> => Matching(request, Effects) # {}
  BY <1>1, <1>6, <1>7 DEF Outcome, Denied, NoResult
<1>9. IF MustDeny(request) THEN result'.decision = "deny"
      ELSE /\ Matching(request, {result'.decision}) # {}
           /\ Matching(request, Outranking[result'.decision]) = {}
  <2>1. CASE "deny" \in flags
    BY <1>1, <1>6, <2>1 DEF Outcome, Denied, NoResult, MustDeny
  <2>2. CASE "deny" \notin flags /\ "transform" \in flags
    <3>1. result'.decision = "transform"
      <4>1. flags # {"redaction"} /\ flags # {}
        BY <2>2
      <4>2. Outcome = [NoResult EXCEPT !.decision = "transform", !.matched = matchIDs,
                                       !.plan = PlanOrDefault]
        BY <2>2, <4>1 DEF Outcome
      <4> QED
        BY <1>1, <4>2 DEF NoResult
    <3>2. ~MustDeny(request)
      BY <1>3, <1>6, <2>2 DEF MustDeny, Matching, Effects
    <3> QED
      BY <1>6, <2>2, <3>1, <3>2 DEF Outranking
  <2>3. CASE flags = {"redaction"}
    <3>1. result'.decision = "allow_with_redaction"
      BY <1>1, <2>3 DEF Outcome, NoResult
    <3>2. ~MustDeny(request)
      BY <1>3, <1>6, <2>3 DEF MustDeny, Matching, Effects
    <3>3. Matching(request, {"deny", "transform"}) = {}
      BY <1>6, <2>3 DEF Matching
    <3> QED
      BY <1>6, <2>3, <3>1, <3>2, <3>3 DEF Outranking
  <2>4. CASE flags = {} /\ matchIDs # <<>>
    <3>1. result'.decision = "allow"
      BY <1>1, <2>4 DEF Outcome, NoResult
    <3>2. ~MustDeny(request)
      BY <1>3, <1>6, <2>4 DEF MustDeny
    <3>3. Matching(request, {"deny", "transform", "allow_with_redaction"}) = {}
      BY <1>6, <2>4 DEF Matching
    <3> QED
      BY <1>6, <2>4, <3>1, <3>2, <3>3 DEF Outranking
  <2>5. CASE flags = {} /\ matchIDs = <<>>
    BY <1>1, <1>6, <2>5 DEF Outcome, Denied, NoResult, MustDeny
  <2> QED
    BY <1>7, <2>1, <2>2, <2>3, <2>4, <2>5
<1>10. Precedence'
  BY <1>1, <1>5, <1>9 DEF Precedence, MustDeny, Answered
<1>11. TraceIsReal'
  BY <1>1, <1>3, <1>5, <1>8 DEF TraceIsReal
<1> QED
  BY <1>1, <1>2, <1>3, <1>4, <1>10, <1>11 DEF IInv

-----------------------------------------------------------------------------
LEMMA InvHolds == Spec => []IInv
<1>1. ASSUME IInv, [Next]_vars PROVE IInv'
  <2>1. ASSUME NEW content \in Policies \cup {Nothing}, Refuse(content) PROVE IInv'
    BY <1>1, <2>1 DEF Refuse, IInv, Precedence, TraceIsReal, Answered, SameRules, walk
  <2>2. CASE UNCHANGED vars
    BY <1>1, <2>2 DEF vars, walk, IInv, Precedence, TraceIsReal, Answered, MustDeny, Matching,
                      SameRules, Collected, Passed
  <2> QED
    BY <1>1, <2>1, <2>2, LoadKeepsInv, AskKeepsInv, SkipKeepsInv, TakeKeepsInv, ConcludeKeepsInv
    DEF Next
<1> QED
  BY <1>1, InitInv, PTL DEF Spec

\* The decision is that of the strongest effect among the matching rules, for
\* every policy and whatever order its rules are tried in: EvaluateSorted's
\* cascade implements the documented precedence.
THEOREM DecisionsFollowPrecedence == Spec => []Precedence
<1>1. IInv => Precedence
  BY DEF IInv
<1> QED
  BY <1>1, InvHolds, PTL

\* A denial by rule stands when more is detected in the same action, for every
\* policy and every pair of requests.
THEOREM DenialsSurviveFindings == Spec => []DenialSurvivesFindings
<1>1. IInv => DenialSurvivesFindings
  <2> SUFFICES ASSUME IInv, Walked, result.decision = "deny", result.matched # <<>>,
                      NEW q \in Requests, q.action = request.action,
                      request.findings \subseteq q.findings
               PROVE  MustDeny(q)
    BY DEF DenialSurvivesFindings
  <2>1. Precedence /\ TraceIsReal /\ Answered
    BY DEF IInv, Walked
  <2>2. Matching(request, {"deny"}) # {}
    <3>1. request.action.type # NoName /\ Matching(request, Effects) # {}
      BY <2>1 DEF TraceIsReal
    <3>2. CASE MustDeny(request)
      BY <3>1, <3>2 DEF MustDeny
    <3>3. CASE ~MustDeny(request)
      BY <2>1, <3>3 DEF Precedence
    <3> QED
      BY <3>2, <3>3
  <2>3. PICK i \in DOMAIN policy.rules : Matches(policy.rules[i], request) /\ policy.rules[i].effect = "deny"
    BY <2>2 DEF Matching
  <2>4. Matches(policy.rules[i], q)
    BY <2>3, MoreFindingsMoreMatches
  <2>5. i \in Matching(q, {"deny"})
    BY <2>3, <2>4 DEF Matching
  <2> QED
    BY <2>5 DEF MustDeny
<1> QED
  BY <1>1, InvHolds, PTL

\* A rule bound to adapters applies to a named tool exactly when the two are
\* names of one family, and to a blank one exactly when an adapter is not in the
\* registry, for every registry that knows its canonical names and no blank one.
THEOREM AdaptersMeanFamilies == Spec => []AdapterFamilies
<1>1. ASSUME NEW tool \in Names, NEW t \in Names, tool # NoName
      PROVE  (\/ Fold[tool] = Fold[t]
              \/ Canonical(tool) # NoName /\ Canonical(tool) \in {Canonical(t), Fold[t]}
              \/ Fold[tool] = Canonical(t)) <=> Family(t) = Family(tool)
  <2>1. Fold[tool] \in Names /\ Fold[t] \in Names /\ Fold[tool] # NoName
    BY <1>1, NamesAssumption
  <2>2. ASSUME Canonical(tool) # NoName, Canonical(tool) = Fold[t] PROVE Canonical(t) = Canonical(tool)
    BY <2>1, <2>2, RegistryAssumption DEF Canonical
  <2>3. ASSUME Fold[tool] = Canonical(t) PROVE Canonical(tool) = Canonical(t) /\ Canonical(t) # NoName
    BY <2>1, <2>3, RegistryAssumption DEF Canonical
  <2>4. Fold[tool] = Fold[t] => Canonical(tool) = Canonical(t)
    BY DEF Canonical
  <2> QED
    BY <2>1, <2>2, <2>3, <2>4 DEF Family
<1>2. ASSUME NEW tool \in Names, NEW t \in Names, tool = NoName
      PROVE  (\/ Fold[tool] = Fold[t]
              \/ Canonical(tool) # NoName /\ Canonical(tool) \in {Canonical(t), Fold[t]}
              \/ Fold[tool] = Canonical(t)) <=> Canonical(t) = NoName
  <2>1. Fold[tool] = NoName /\ Canonical(tool) = NoName
    BY <1>2, NamesAssumption, RegistryAssumption DEF Canonical
  <2>2. Fold[t] = NoName => Canonical(t) = NoName
    BY RegistryAssumption DEF Canonical
  <2> QED
    BY <2>1, <2>2
<1>3. IInv => AdapterFamilies
  <2> SUFFICES ASSUME IInv, Walked, NEW i \in DOMAIN rules, rules[i].adapters # {}
               PROVE  MatchesAdapter(request.action.tool, rules[i].adapters)
                        <=> \E t \in rules[i].adapters :
                              IF request.action.tool = NoName THEN Canonical(t) = NoName
                              ELSE Family(t) = Family(request.action.tool)
    BY DEF AdapterFamilies
  <2>1. request.action.tool \in Names
    BY RequestsAssumption DEF IInv, Walked, Answered
  <2>2. rules[i].adapters \subseteq Names
    <3>1. rules[i] \in Rules
      BY DEF IInv
    <3> QED
      BY <3>1 DEF Rules
  <2> QED
    BY <1>1, <1>2, <2>1, <2>2 DEF MatchesAdapter
<1> QED
  BY <1>3, InvHolds, PTL

-----------------------------------------------------------------------------
(* What the answer says of the rules: the walk keeps a list of the rules   *)
(* it took, in the order of the sorted policy, and that order is the one   *)
(* of priorities and places in the file.                                   *)

Placed ==
  \E f \in StableOrders(policy.rules) : rules = [i \in DOMAIN policy.rules |-> policy.rules[f[i]]]

\* The rule at i of the sorted policy was passed and taken.
Hit(i) == i \in 1..Len(rules) /\ i < next /\ Matches(rules[i], request)

Traces ==
  {g \in [1..Len(matchIDs) -> 1..Len(rules)] :
     /\ \A k \in 1..Len(matchIDs) : Hit(g[k]) /\ matchIDs[k] = rules[g[k]].id
     /\ \A k, l \in 1..Len(matchIDs) : k < l => g[k] < g[l]
     /\ \A i \in 1..Len(rules) : Hit(i) => \E k \in 1..Len(matchIDs) : g[k] = i}

\* A deny rule that gives a reason.
Tells(rule) == rule.effect = "deny" /\ rule.description # NoName

Reasoned ==
  \/ denyReason = NoName /\ \A i \in 1..Len(rules) : Hit(i) => ~Tells(rules[i])
  \/ \E i \in 1..Len(rules) :
       /\ Hit(i) /\ Tells(rules[i]) /\ denyReason = rules[i].description
       /\ \A j \in 1..Len(rules) : Hit(j) /\ Tells(rules[j]) => i <= j

Steps(rule) == {rule.transforms[m] : m \in DOMAIN rule.transforms}

Planned ==
  /\ transformPlan \in Seq(Names \X Names)
  /\ {transformPlan[k] : k \in DOMAIN transformPlan} =
       UNION {Steps(rules[i]) : i \in {j \in 1..Len(rules) : Hit(j) /\ rules[j].effect = "transform"}}

WalkInv ==
  /\ status \in {"ready", "walking"} => Placed
  /\ status = "walking" => Traces # {} /\ Reasoned /\ Planned
  /\ TraceInOrder /\ PlanIsComplete

\* The walk moves one rule further.
LEMMA HitFurther ==
  ASSUME next \in Nat \ {0}, next <= Len(rules), Len(rules) \in Nat, next' = next + 1, UNCHANGED <<rules, request>>
  PROVE  /\ next \in 1..Len(rules) /\ ~Hit(next)
         /\ \A i \in 1..Len(rules) : Hit(i)' <=> Hit(i) \/ (i = next /\ Matches(rules[next], request))
         /\ \A i : Hit(i) => i < next
BY DEF Hit

LEMMA SkipKeepsWalk ==
  ASSUME IInv, WalkInv, Skip
  PROVE  WalkInv'
<1>1. /\ status = "walking" /\ status' = "walking" /\ next <= Len(rules) /\ next' = next + 1
      /\ ~Matches(rules[next], request)
      /\ UNCHANGED <<policy, rules, request, matchIDs, transformPlan, denyReason, result>>
  BY DEF Skip
<1>2. next \in Nat \ {0} /\ Len(rules) \in Nat /\ Placed /\ Traces # {} /\ Reasoned /\ Planned
  BY <1>1 DEF IInv, Collected, WalkInv
<1>3. \A i \in 1..Len(rules) : Hit(i)' <=> Hit(i)
  BY <1>1, <1>2, HitFurther
<1>4. Placed'
  BY <1>1, <1>2 DEF Placed
<1>5. Traces' # {}
  <2>1. PICK g : g \in Traces
    BY <1>2
  <2>2. g \in Traces'
    BY <1>1, <1>3, <2>1 DEF Traces
  <2> QED
    BY <2>2
<1>6. Reasoned'
  BY <1>1, <1>2, <1>3 DEF Reasoned
<1>7. Planned'
  BY <1>1, <1>2, <1>3 DEF Planned
<1> QED
  BY <1>1, <1>4, <1>5, <1>6, <1>7 DEF WalkInv, TraceInOrder, PlanIsComplete, Walked, Answered

\* The trace grows by the rule that was taken.
LEMMA TraceGrows ==
  ASSUME IInv, WalkInv, Take
  PROVE  Traces' # {}
<1>1. /\ next <= Len(rules) /\ next' = next + 1 /\ Matches(rules[next], request)
      /\ UNCHANGED <<rules, request>> /\ matchIDs' = Append(matchIDs, rules[next].id)
      /\ status = "walking"
  BY DEF Take
<1>2. next \in Nat \ {0} /\ Len(rules) \in Nat /\ matchIDs \in Seq(Names) /\ rules \in Seq(Rules)
  BY <1>1 DEF IInv, Collected
<1>3. /\ next \in 1..Len(rules) /\ ~Hit(next)
      /\ \A i \in 1..Len(rules) : Hit(i)' <=> Hit(i) \/ i = next
      /\ \A i : Hit(i) => i < next
  BY <1>1, <1>2, HitFurther
<1>4. PICK g \in Traces : TRUE
  BY <1>1 DEF WalkInv
<1>5. /\ g \in [1..Len(matchIDs) -> 1..Len(rules)]
      /\ \A k \in 1..Len(matchIDs) : Hit(g[k]) /\ matchIDs[k] = rules[g[k]].id
      /\ \A k, l \in 1..Len(matchIDs) : k < l => g[k] < g[l]
      /\ \A i \in 1..Len(rules) : Hit(i) => \E k \in 1..Len(matchIDs) : g[k] = i
  BY <1>4 DEF Traces
<1>a. PICK n \in Nat : n = Len(matchIDs)
  BY <1>2
<1>b. PICK at \in 1..Len(rules) : at = next
  BY <1>3
<1> DEFINE h == [k \in 1..(n + 1) |-> IF k = n + 1 THEN at ELSE g[k]]
<1>6. /\ n \in Nat /\ Len(matchIDs') = n + 1 /\ matchIDs'[n + 1] = rules[next].id
      /\ \A k \in 1..n : matchIDs'[k] = matchIDs[k]
  <2>1. rules[next] \in Rules
    BY <1>2, <1>3
  <2>2. rules[next].id \in Names
    BY <2>1 DEF Rules
  <2> QED
    BY <1>a, <1>1, <1>2, <2>2
<1>7. \A k \in 1..(n + 1) : k \in 1..n \/ k = n + 1
  BY <1>6
<1>8. h[n + 1] = at /\ \A k \in 1..n : h[k] = g[k]
  BY <1>6
<1>9. h \in [1..(n + 1) -> 1..Len(rules)]
  BY <1>a, <1>3, <1>5, <1>7
<1> HIDE DEF h
<1>10. \A k \in 1..(n + 1) : Hit(h[k])' /\ matchIDs'[k] = rules'[h[k]].id
  BY <1>a, <1>b, <1>1, <1>3, <1>5, <1>6, <1>7, <1>8
<1>11. ASSUME NEW k \in 1..(n + 1), NEW l \in 1..(n + 1), k < l PROVE h[k] < h[l]
  <2>1. k \in 1..n
    BY <1>6, <1>11
  <2>2. CASE l = n + 1
    BY <1>a, <1>b, <1>3, <1>5, <1>8, <2>1, <2>2
  <2>3. CASE l \in 1..n
    BY <1>a, <1>5, <1>8, <1>11, <2>1, <2>3
  <2> QED
    BY <1>7, <2>2, <2>3
<1>12. \A i \in 1..Len(rules) : Hit(i)' => \E k \in 1..(n + 1) : h[k] = i
  <2> SUFFICES ASSUME NEW i \in 1..Len(rules), Hit(i)' PROVE \E k \in 1..(n + 1) : h[k] = i
    OBVIOUS
  <2>1. CASE Hit(i)
    <3>1. PICK k \in 1..n : g[k] = i
      BY <1>a, <1>5, <2>1
    <3>2. k \in 1..(n + 1)
      BY <1>6
    <3> QED
      BY <1>8, <3>1, <3>2
  <2>2. CASE i = next
    <3>1. n + 1 \in 1..(n + 1)
      BY <1>6
    <3> QED
      BY <1>b, <1>8, <2>2, <3>1
  <2> QED
    BY <1>3, <2>1, <2>2
<1>13. h \in Traces'
  <2>1. h \in [1..Len(matchIDs') -> 1..Len(rules')]
    BY <1>1, <1>6, <1>9
  <2>2. \A k \in 1..Len(matchIDs') : Hit(h[k])' /\ matchIDs'[k] = rules'[h[k]].id
    BY <1>6, <1>10
  <2>3. \A k, l \in 1..Len(matchIDs') : k < l => h[k] < h[l]
    BY <1>6, <1>11
  <2>4. \A i \in 1..Len(rules') : Hit(i)' => \E k \in 1..Len(matchIDs') : h[k] = i
    BY <1>1, <1>6, <1>12
  <2> QED
    BY <2>1, <2>2, <2>3, <2>4 DEF Traces
<1> QED
  BY <1>13

\* The plan grows by the steps of the rule that was taken.
LEMMA PlanGrows ==
  ASSUME IInv, WalkInv, Take
  PROVE  Planned'
<1>1. /\ next <= Len(rules) /\ next' = next + 1 /\ Matches(rules[next], request)
      /\ UNCHANGED <<rules, request>> /\ status = "walking"
      /\ transformPlan' = IF rules[next].effect = "transform"
                           THEN transformPlan \o rules[next].transforms ELSE transformPlan
  BY DEF Take
<1>2. next \in Nat \ {0} /\ Len(rules) \in Nat /\ rules \in Seq(Rules) /\ Planned
  BY <1>1 DEF IInv, Collected, WalkInv
<1>3. /\ next \in 1..Len(rules) /\ ~Hit(next)
      /\ \A i \in 1..Len(rules) : Hit(i)' <=> Hit(i) \/ i = next
  BY <1>1, <1>2, HitFurther
<1>4. transformPlan \in Seq(Names \X Names) /\ rules[next].transforms \in Seq(Names \X Names)
  <2>1. rules[next] \in Rules
    BY <1>2, <1>3
  <2> QED
    BY <1>2, <2>1 DEF Planned, Rules
<1> DEFINE T == {j \in 1..Len(rules) : Hit(j) /\ rules[j].effect = "transform"}
           U == {j \in 1..Len(rules) : Hit(j)' /\ rules[j].effect = "transform"}
<1>a. ASSUME transformPlan' \in Seq(Names \X Names),
             {transformPlan'[k] : k \in DOMAIN transformPlan'} = UNION {Steps(rules[i]) : i \in U}
      PROVE  Planned'
  <2>1. {j \in 1..Len(rules') : Hit(j)' /\ rules'[j].effect = "transform"} = U
    BY <1>1
  <2>2. UNION {Steps(rules[i])' : i \in U} = UNION {Steps(rules[i]) : i \in U}
    BY <1>1 DEF Steps
  <2> HIDE DEF U
  <2> QED
    BY <1>a, <2>1, <2>2 DEF Planned
<1>5. CASE rules[next].effect = "transform"
  <2>1. U = T \cup {next}
    BY <1>3, <1>5
  <2>2. UNION {Steps(rules[i]) : i \in U} = (UNION {Steps(rules[i]) : i \in T}) \cup Steps(rules[next])
    BY <2>1
  <2>3. {transformPlan'[k] : k \in DOMAIN transformPlan'} =
          {transformPlan[k] : k \in DOMAIN transformPlan} \cup Steps(rules[next])
    <3> DEFINE p == transformPlan
               q == rules[next].transforms
    <3>1. p \in Seq(Names \X Names) /\ q \in Seq(Names \X Names) /\ transformPlan' = p \o q
      BY <1>1, <1>4, <1>5
    <3>2. Steps(rules[next]) = {q[m] : m \in DOMAIN q}
      BY DEF Steps
    <3> HIDE DEF p, q
    <3> DEFINE P == {p[k] : k \in DOMAIN p}
               Q == {q[m] : m \in DOMAIN q}
    <3>3. {(p \o q)[k] : k \in DOMAIN (p \o q)} = P \cup Q
      <4>1. /\ Len(p) \in Nat /\ Len(q) \in Nat /\ DOMAIN p = 1..Len(p) /\ DOMAIN q = 1..Len(q)
            /\ DOMAIN (p \o q) = 1..(Len(p) + Len(q))
            /\ \A k \in 1..Len(p) : (p \o q)[k] = p[k]
        BY <3>1
      <4>2. \A m \in 1..Len(q) : (p \o q)[Len(p) + m] = q[m] /\ Len(p) + m \in 1..(Len(p) + Len(q))
        BY <3>1, <4>1
      <4>3. \A k \in 1..(Len(p) + Len(q)) : k \in 1..Len(p) \/ \E m \in 1..Len(q) : k = Len(p) + m
        <5> SUFFICES ASSUME NEW k \in 1..(Len(p) + Len(q)), k \notin 1..Len(p)
                     PROVE  \E m \in 1..Len(q) : k = Len(p) + m
          OBVIOUS
        <5>1. k - Len(p) \in 1..Len(q) /\ k = Len(p) + (k - Len(p))
          BY <4>1
        <5> QED
          BY <5>1
      <4>4. \A k \in 1..Len(p) : k \in 1..(Len(p) + Len(q))
        BY <4>1
      <4>5. \A k \in DOMAIN (p \o q) : (p \o q)[k] \in P \cup Q
        <5> SUFFICES ASSUME NEW k \in 1..(Len(p) + Len(q)) PROVE (p \o q)[k] \in P \cup Q
          BY <4>1
        <5>1. CASE k \in 1..Len(p)
          BY <4>1, <5>1
        <5>2. CASE \E m \in 1..Len(q) : k = Len(p) + m
          <6>1. PICK m \in 1..Len(q) : k = Len(p) + m
            BY <5>2
          <6> QED
            BY <4>1, <4>2, <6>1
        <5> QED
          BY <4>3, <5>1, <5>2
      <4>6. \A x \in P : \E k \in DOMAIN (p \o q) : (p \o q)[k] = x
        BY <4>1, <4>4
      <4>7. \A x \in Q : \E k \in DOMAIN (p \o q) : (p \o q)[k] = x
        BY <4>1, <4>2
      <4> QED
        BY <4>5, <4>6, <4>7
    <3> QED
      BY <3>1, <3>2, <3>3 DEF p
  <2>4. transformPlan' \in Seq(Names \X Names)
    BY <1>1, <1>4, <1>5
  <2>5. {transformPlan[k] : k \in DOMAIN transformPlan} = UNION {Steps(rules[i]) : i \in T}
    BY <1>2 DEF Planned
  <2> HIDE DEF T, U
  <2>6. {transformPlan'[k] : k \in DOMAIN transformPlan'} = UNION {Steps(rules[i]) : i \in U}
    BY <2>2, <2>3, <2>5
  <2> QED
    BY <1>a, <2>4, <2>6
<1>6. CASE rules[next].effect # "transform"
  <2>1. U = T /\ transformPlan' = transformPlan
    BY <1>1, <1>3, <1>6
  <2>2. {transformPlan[k] : k \in DOMAIN transformPlan} = UNION {Steps(rules[i]) : i \in T}
    BY <1>2 DEF Planned
  <2> HIDE DEF T, U
  <2> QED
    BY <1>a, <1>4, <2>1, <2>2
<1> QED
  BY <1>5, <1>6

LEMMA TakeKeepsWalk ==
  ASSUME IInv, WalkInv, Take
  PROVE  WalkInv'
<1>1. /\ status = "walking" /\ status' = "walking" /\ next <= Len(rules) /\ next' = next + 1
      /\ Matches(rules[next], request)
      /\ denyReason' = IF rules[next].effect = "deny" /\ denyReason = NoName
                        THEN rules[next].description ELSE denyReason
      /\ UNCHANGED <<policy, rules, request, result>>
  BY DEF Take
<1>2. next \in Nat \ {0} /\ Len(rules) \in Nat /\ Placed /\ Reasoned
  BY <1>1 DEF IInv, Collected, WalkInv
<1>3. /\ next \in 1..Len(rules) /\ ~Hit(next)
      /\ \A i \in 1..Len(rules) : Hit(i)' <=> Hit(i) \/ i = next
      /\ \A i : Hit(i) => i < next
  BY <1>1, <1>2, HitFurther
<1>4. Placed'
  BY <1>1, <1>2 DEF Placed
<1>5. Reasoned'
  <2>1. CASE denyReason = NoName /\ \A i \in 1..Len(rules) : Hit(i) => ~Tells(rules[i])
    <3>1. CASE Tells(rules[next])
      <4>1. denyReason' = rules[next].description
        BY <1>1, <2>1, <3>1 DEF Tells
      <4>2. \A j \in 1..Len(rules) : Hit(j)' /\ Tells(rules[j]) => next <= j
        BY <1>2, <1>3, <2>1
      <4>3. PICK at \in 1..Len(rules) : at = next
        BY <1>3
      <4>4. Hit(at)'
        BY <1>3, <4>3
      <4> QED
        BY <1>1, <3>1, <4>1, <4>2, <4>3, <4>4 DEF Reasoned, Tells
    <3>2. CASE ~Tells(rules[next])
      <4>1. denyReason' = NoName
        BY <1>1, <2>1, <3>2 DEF Tells
      <4> QED
        BY <1>1, <1>3, <2>1, <3>2, <4>1 DEF Reasoned, Tells
    <3> QED
      BY <3>1, <3>2
  <2>2. CASE \E i \in 1..Len(rules) :
               /\ Hit(i) /\ Tells(rules[i]) /\ denyReason = rules[i].description
               /\ \A j \in 1..Len(rules) : Hit(j) /\ Tells(rules[j]) => i <= j
    <3>1. PICK i \in 1..Len(rules) :
               /\ Hit(i) /\ Tells(rules[i]) /\ denyReason = rules[i].description
               /\ \A j \in 1..Len(rules) : Hit(j) /\ Tells(rules[j]) => i <= j
      BY <2>2
    <3>2. denyReason' = rules[i].description /\ i < next
      BY <1>1, <1>3, <3>1 DEF Tells
    <3>3. \A j \in 1..Len(rules) : Hit(j)' /\ Tells(rules[j]) => i <= j
      BY <1>2, <1>3, <3>1, <3>2
    <3>4. Hit(i)'
      BY <1>3, <3>1
    <3> QED
      BY <1>1, <3>1, <3>2, <3>3, <3>4 DEF Reasoned, Tells
  <2> QED
    BY <1>2, <2>1, <2>2 DEF Reasoned
<1> QED
  BY <1>1, <1>4, <1>5, TraceGrows, PlanGrows DEF WalkInv, TraceInOrder, PlanIsComplete, Walked, Answered
-----------------------------------------------------------------------------
\* After the last rule the hits are the rules that match.
LEMMA HitsAreMatches ==
  ASSUME IInv, status = "walking", next > Len(rules), NEW f \in StableOrders(policy.rules),
         rules = [i \in DOMAIN policy.rules |-> policy.rules[f[i]]]
  PROVE  /\ Len(rules) \in Nat /\ DOMAIN policy.rules = 1..Len(rules)
         /\ f \in [1..Len(rules) -> 1..Len(rules)]
         /\ \A i \in 1..Len(rules) : rules[i] = policy.rules[f[i]]
         /\ \A i, j \in 1..Len(rules) : i < j => GoesBefore(policy.rules, f[i], f[j])
         /\ \A k \in 1..Len(rules) : \E i \in 1..Len(rules) : f[i] = k
         /\ \A i \in 1..Len(rules) : Hit(i) <=> f[i] \in Matching(request, Effects)
         /\ \A i \in 1..Len(rules), e \in Effects :
              Hit(i) /\ rules[i].effect = e <=> f[i] \in Matching(request, {e})
<1>1. rules \in Seq(Rules) /\ policy.rules \in Seq(Rules) /\ next \in Nat
  BY DEF IInv, SameRules, Collected
<1>2. DOMAIN policy.rules = DOMAIN rules /\ DOMAIN rules = 1..Len(rules) /\ Len(rules) \in Nat
  <2>1. DOMAIN rules = DOMAIN policy.rules
    OBVIOUS
  <2> QED
    BY <1>1, <2>1
<1>3. /\ f \in [1..Len(rules) -> 1..Len(rules)]
      /\ \A i, j \in 1..Len(rules) : i < j => GoesBefore(policy.rules, f[i], f[j])
      /\ \A k \in 1..Len(rules) : \E i \in 1..Len(rules) : f[i] = k
  BY <1>2 DEF StableOrders
<1>4. \A i \in 1..Len(rules) : rules[i] = policy.rules[f[i]]
  BY <1>2
<1>5. \A i \in 1..Len(rules) : Hit(i) <=> Matches(rules[i], request)
  BY <1>1, <1>2 DEF Hit
<1>6. \A i \in 1..Len(rules) : Hit(i) <=> f[i] \in Matching(request, Effects)
  BY <1>2, <1>3, <1>4, <1>5 DEF Matching, Matches
<1>7. \A i \in 1..Len(rules), e \in Effects :
              Hit(i) /\ rules[i].effect = e <=> f[i] \in Matching(request, {e})
  BY <1>2, <1>3, <1>4, <1>5 DEF Matching
<1> QED
  BY <1>2, <1>3, <1>4, <1>6, <1>7

\* A rule does not go before itself.
LEMMA BeforeIsStrict ==
  ASSUME NEW rs \in Seq(Rules), NEW i \in 1..Len(rs), GoesBefore(rs, i, i)
  PROVE  FALSE
<1>1. rs[i] \in Rules
  OBVIOUS
<1>2. rs[i].priority \in Int
  BY <1>1 DEF Rules
<1> QED
  BY <1>2 DEF GoesBefore

LEMMA TraceAfterWalk ==
  ASSUME IInv, WalkInv, status = "walking", next > Len(rules)
  PROVE  /\ Len(matchIDs) = Cardinality(Matching(request, Effects))
         /\ \E trace \in [DOMAIN matchIDs -> Matching(request, Effects)] :
              /\ \A k \in DOMAIN trace : matchIDs[k] = policy.rules[trace[k]].id
              /\ \A k, l \in DOMAIN trace : k < l => GoesBefore(policy.rules, trace[k], trace[l])
<1>1. PICK f \in StableOrders(policy.rules) : rules = [i \in DOMAIN policy.rules |-> policy.rules[f[i]]]
  BY DEF WalkInv, Placed
<1>2. PICK g : g \in Traces
  BY DEF WalkInv
<1>3. /\ Len(rules) \in Nat /\ DOMAIN policy.rules = 1..Len(rules)
      /\ f \in [1..Len(rules) -> 1..Len(rules)]
      /\ \A i \in 1..Len(rules) : rules[i] = policy.rules[f[i]]
      /\ \A i, j \in 1..Len(rules) : i < j => GoesBefore(policy.rules, f[i], f[j])
      /\ \A k \in 1..Len(rules) : \E i \in 1..Len(rules) : f[i] = k
      /\ \A i \in 1..Len(rules) : Hit(i) <=> f[i] \in Matching(request, Effects)
  BY <1>1, HitsAreMatches
<1>4. /\ g \in [1..Len(matchIDs) -> 1..Len(rules)]
      /\ \A k \in 1..Len(matchIDs) : Hit(g[k]) /\ matchIDs[k] = rules[g[k]].id
      /\ \A k, l \in 1..Len(matchIDs) : k < l => g[k] < g[l]
      /\ \A i \in 1..Len(rules) : Hit(i) => \E k \in 1..Len(matchIDs) : g[k] = i
  BY <1>2 DEF Traces
<1>5. policy.rules \in Seq(Rules) /\ matchIDs \in Seq(Names)
  BY DEF IInv, SameRules
<1> DEFINE n == Len(matchIDs)
           M == Matching(request, Effects)
           trace == [k \in 1..n |-> f[g[k]]]
<1>6. n \in Nat /\ DOMAIN matchIDs = 1..n
  BY <1>5
<1>7. trace \in [1..n -> M] /\ \A k \in 1..n : trace[k] = f[g[k]]
  BY <1>3, <1>4
<1>8. \A m \in M : m \in 1..Len(rules)
  BY <1>3 DEF Matching
<1>9. \A m \in M : \E k \in 1..n : f[g[k]] = m
  <2> SUFFICES ASSUME NEW m \in M PROVE \E k \in 1..n : f[g[k]] = m
    OBVIOUS
  <2>1. PICK i \in 1..Len(rules) : f[i] = m
    BY <1>3, <1>8
  <2>2. PICK k \in 1..n : g[k] = i
    BY <1>3, <1>4, <2>1
  <2> QED
    BY <2>1, <2>2
<1> HIDE DEF trace, M
<1>10. \A m \in M : \E k \in 1..n : trace[k] = m
  BY <1>7, <1>9
<1>11. \A k, l \in 1..n : k < l => GoesBefore(policy.rules, trace[k], trace[l])
  <2> SUFFICES ASSUME NEW k \in 1..n, NEW l \in 1..n, k < l
               PROVE  GoesBefore(policy.rules, f[g[k]], f[g[l]])
    BY <1>7
  <2>1. g[k] \in 1..Len(rules) /\ g[l] \in 1..Len(rules) /\ g[k] < g[l]
    BY <1>4
  <2> QED
    BY <1>3, <2>1
<1>12. \A k, l \in 1..n : trace[k] = trace[l] => k = l
  <2> SUFFICES ASSUME NEW k \in 1..n, NEW l \in 1..n, trace[k] = trace[l], k < l PROVE FALSE
    <3>1. \A k, l \in 1..n : k = l \/ k < l \/ l < k
      BY <1>6
    <3> QED
      BY <3>1
  <2>1. GoesBefore(policy.rules, trace[k], trace[k])
    BY <1>11
  <2>2. Len(policy.rules) = Len(rules)
    BY <1>3, <1>5
  <2>3. trace[k] \in 1..Len(policy.rules)
    BY <1>7, <1>8, <2>2
  <2> QED
    BY <1>5, <2>1, <2>3, BeforeIsStrict
<1>13. trace \in Bijection(1..n, M)
  BY <1>7, <1>10, <1>12 DEF Bijection, Injection, Surjection, IsInjective
<1>14. Cardinality(M) = n
  BY <1>6, <1>13, FS_CountingElements DEF ExistsBijection
<1>15. \A k \in 1..n : matchIDs[k] = policy.rules[trace[k]].id
  <2> SUFFICES ASSUME NEW k \in 1..n PROVE matchIDs[k] = policy.rules[trace[k]].id
    OBVIOUS
  <2>1. g[k] \in 1..Len(rules) /\ matchIDs[k] = rules[g[k]].id
    BY <1>4
  <2>2. rules[g[k]] = policy.rules[f[g[k]]]
    BY <1>3, <2>1
  <2> QED
    BY <1>7, <2>1, <2>2
<1>16. trace \in [DOMAIN matchIDs -> M] /\ DOMAIN trace = 1..n
  BY <1>6, <1>7
<1> QED
  BY <1>6, <1>11, <1>14, <1>15, <1>16 DEF M

LEMMA ReasonAfterWalk ==
  ASSUME IInv, WalkInv, status = "walking", next > Len(rules)
  PROVE  LET told == {i \in Matching(request, {"deny"}) : policy.rules[i].description # NoName} IN
         IF told = {} THEN denyReason = NoName
         ELSE \E i \in told : /\ denyReason = policy.rules[i].description
                              /\ \A j \in told \ {i} : GoesBefore(policy.rules, i, j)
<1>1. PICK f \in StableOrders(policy.rules) : rules = [i \in DOMAIN policy.rules |-> policy.rules[f[i]]]
  BY DEF WalkInv, Placed
<1>2. "deny" \in Effects
  BY DEF Effects
<1>3. /\ Len(rules) \in Nat /\ DOMAIN policy.rules = 1..Len(rules)
      /\ f \in [1..Len(rules) -> 1..Len(rules)]
      /\ \A i \in 1..Len(rules) : rules[i] = policy.rules[f[i]]
      /\ \A i, j \in 1..Len(rules) : i < j => GoesBefore(policy.rules, f[i], f[j])
      /\ \A k \in 1..Len(rules) : \E i \in 1..Len(rules) : f[i] = k
      /\ \A i \in 1..Len(rules) : Hit(i) /\ rules[i].effect = "deny" <=> f[i] \in Matching(request, {"deny"})
  BY <1>1, <1>2, HitsAreMatches
<1> DEFINE told == {i \in Matching(request, {"deny"}) : policy.rules[i].description # NoName}
<1>4. \A i \in 1..Len(rules) : Hit(i) /\ Tells(rules[i]) <=> f[i] \in told
  BY <1>3 DEF Tells
<1>5. \A k \in told : k \in 1..Len(rules)
  BY <1>3 DEF Matching
<1> HIDE DEF told
<1>6. CASE denyReason = NoName /\ \A i \in 1..Len(rules) : Hit(i) => ~Tells(rules[i])
  <2>1. told = {}
    <3> SUFFICES ASSUME NEW k \in told PROVE FALSE
      OBVIOUS
    <3>1. PICK i \in 1..Len(rules) : f[i] = k
      BY <1>3, <1>5
    <3> QED
      BY <1>4, <1>6, <3>1
  <2> QED
    BY <1>6, <2>1 DEF told
<1>7. CASE \E i \in 1..Len(rules) :
             /\ Hit(i) /\ Tells(rules[i]) /\ denyReason = rules[i].description
             /\ \A j \in 1..Len(rules) : Hit(j) /\ Tells(rules[j]) => i <= j
  <2>1. PICK i \in 1..Len(rules) :
             /\ Hit(i) /\ Tells(rules[i]) /\ denyReason = rules[i].description
             /\ \A j \in 1..Len(rules) : Hit(j) /\ Tells(rules[j]) => i <= j
    BY <1>7
  <2>2. f[i] \in told /\ denyReason = policy.rules[f[i]].description
    BY <1>3, <1>4, <2>1
  <2>3. ASSUME NEW k \in told \ {f[i]} PROVE GoesBefore(policy.rules, f[i], k)
    <3>1. PICK j \in 1..Len(rules) : f[j] = k
      BY <1>3, <1>5
    <3>2. i <= j /\ i # j
      BY <1>4, <2>1, <2>3, <3>1
    <3>3. i < j
      BY <1>3, <3>2
    <3> QED
      BY <1>3, <3>1, <3>3
  <2> QED
    BY <2>2, <2>3 DEF told
<1> QED
  BY <1>6, <1>7 DEF WalkInv, Reasoned

LEMMA PlanAfterWalk ==
  ASSUME IInv, WalkInv, status = "walking", next > Len(rules)
  PROVE  LET steps == UNION {{policy.rules[i].transforms[k] : k \in DOMAIN policy.rules[i].transforms} :
                               i \in Matching(request, {"transform"})} IN
         /\ {transformPlan[k] : k \in DOMAIN transformPlan} = steps
         /\ transformPlan = <<>> <=> steps = {}
<1>1. PICK f \in StableOrders(policy.rules) : rules = [i \in DOMAIN policy.rules |-> policy.rules[f[i]]]
  BY DEF WalkInv, Placed
<1>2. "transform" \in Effects
  BY DEF Effects
<1>3. /\ DOMAIN policy.rules = 1..Len(rules) /\ f \in [1..Len(rules) -> 1..Len(rules)]
      /\ \A i \in 1..Len(rules) : rules[i] = policy.rules[f[i]]
      /\ \A k \in 1..Len(rules) : \E i \in 1..Len(rules) : f[i] = k
      /\ \A i \in 1..Len(rules) : Hit(i) /\ rules[i].effect = "transform" <=> f[i] \in Matching(request, {"transform"})
  BY <1>1, <1>2, HitsAreMatches
<1> DEFINE T == {j \in 1..Len(rules) : Hit(j) /\ rules[j].effect = "transform"}
           M == Matching(request, {"transform"})
<1>4. /\ \A i \in T : f[i] \in M /\ Steps(rules[i]) = Steps(policy.rules[f[i]])
      /\ \A m \in M : \E i \in T : f[i] = m
  <2>1. \A m \in M : m \in 1..Len(rules)
    BY <1>3 DEF Matching
  <2> QED
    BY <1>3, <2>1
<1>5. transformPlan \in Seq(Names \X Names)
      /\ {transformPlan[k] : k \in DOMAIN transformPlan} = UNION {Steps(rules[i]) : i \in T}
  BY DEF WalkInv, Planned
<1> HIDE DEF T, M
<1>6. UNION {Steps(rules[i]) : i \in T} = UNION {Steps(policy.rules[m]) : m \in M}
  BY <1>4
<1>7. UNION {Steps(policy.rules[m]) : m \in M}
        = UNION {{policy.rules[i].transforms[k] : k \in DOMAIN policy.rules[i].transforms} : i \in M}
  BY DEF Steps
<1>8. transformPlan = <<>> <=> {transformPlan[k] : k \in DOMAIN transformPlan} = {}
  <2>1. transformPlan # <<>> => 1 \in DOMAIN transformPlan
    BY <1>5
  <2> QED
    BY <2>1
<1> QED
  BY <1>5, <1>6, <1>7, <1>8 DEF M

LEMMA ConcludeKeepsWalk ==
  ASSUME IInv, WalkInv, Conclude
  PROVE  WalkInv'
<1>1. /\ status = "walking" /\ status' = "ready" /\ next > Len(rules) /\ result' = Outcome
      /\ UNCHANGED <<policy, rules, request>>
  BY DEF Conclude, walk
<1>2. SameRules /\ Collected /\ Placed
  BY <1>1 DEF IInv, WalkInv
<1>3. /\ flags \subseteq {"deny", "transform", "redaction"}
      /\ "deny" \in flags <=> Matching(request, {"deny"}) # {}
      /\ "transform" \in flags <=> Matching(request, {"transform"}) # {}
  BY <1>1, <1>2, WalkIsOver DEF Collected
<1>4. Placed'
  BY <1>1, <1>2 DEF Placed
<1>5. \A E : Matching(request, E)' = Matching(request, E)
  BY <1>1 DEF Matching
<1>6. /\ result'.matched = matchIDs
      /\ "deny" \in flags => result'.decision = "deny" /\ result'.reason = denyReason /\ result'.plan = <<>>
      /\ "deny" \notin flags /\ "transform" \in flags => result'.decision = "transform" /\ result'.plan = PlanOrDefault
      /\ flags = {"redaction"} => result'.decision = "allow_with_redaction" /\ result'.plan = PlanOrDefault
      /\ flags = {} => result'.decision \in {"allow", "deny"} /\ result'.plan = <<>>
  <2>1. CASE "deny" \in flags
    <3>1. Outcome = [Denied(denyReason) EXCEPT !.matched = matchIDs]
      <4>1. flags # {"redaction"} /\ flags # {}
        BY <2>1
      <4> QED
        BY <2>1, <4>1 DEF Outcome
    <3> QED
      BY <1>1, <2>1, <3>1 DEF Denied, NoResult
  <2>2. CASE "deny" \notin flags /\ "transform" \in flags
    <3>1. Outcome = [NoResult EXCEPT !.decision = "transform", !.matched = matchIDs, !.plan = PlanOrDefault]
      <4>1. flags # {"redaction"} /\ flags # {}
        BY <2>2
      <4> QED
        BY <2>2, <4>1 DEF Outcome
    <3> QED
      BY <1>1, <2>2, <3>1 DEF NoResult
  <2>3. CASE flags = {"redaction"}
    <3>1. Outcome = [NoResult EXCEPT !.decision = "allow_with_redaction", !.matched = matchIDs, !.plan = PlanOrDefault]
      BY <2>3 DEF Outcome
    <3> QED
      BY <1>1, <2>3, <3>1 DEF NoResult
  <2>4. CASE flags = {} /\ matchIDs # <<>>
    <3>1. Outcome = [NoResult EXCEPT !.decision = "allow", !.matched = matchIDs]
      BY <2>4 DEF Outcome
    <3> QED
      BY <1>1, <2>4, <3>1 DEF NoResult
  <2>5. CASE flags = {} /\ matchIDs = <<>>
    <3>1. Outcome = Denied("no matching rule")
      BY <2>5 DEF Outcome
    <3> QED
      BY <1>1, <2>5, <3>1 DEF Denied, NoResult
  <2> QED
    BY <1>3, <2>1, <2>2, <2>3, <2>4, <2>5
<1> DEFINE M == Matching(request, Effects)
           told == {i \in Matching(request, {"deny"}) : policy.rules[i].description # NoName}
           steps == UNION {{policy.rules[i].transforms[k] : k \in DOMAIN policy.rules[i].transforms} :
                              i \in Matching(request, {"transform"})}
<1>7. TraceInOrder'
  <2>1. /\ Len(matchIDs) = Cardinality(M)
        /\ \E trace \in [DOMAIN matchIDs -> M] :
              /\ \A k \in DOMAIN trace : matchIDs[k] = policy.rules[trace[k]].id
              /\ \A k, l \in DOMAIN trace : k < l => GoesBefore(policy.rules, trace[k], trace[l])
    BY <1>1, TraceAfterWalk
  <2>2. IF told = {} THEN denyReason = NoName
        ELSE \E i \in told : /\ denyReason = policy.rules[i].description
                             /\ \A j \in told \ {i} : GoesBefore(policy.rules, i, j)
    BY <1>1, ReasonAfterWalk
  <2>3. \A i, j : GoesBefore(policy.rules, i, j)' <=> GoesBefore(policy.rules, i, j)
    BY <1>1 DEF GoesBefore
  <2>4. told' = told /\ M' = M
    BY <1>1, <1>5
  <2> HIDE DEF M, told
  <2>5. /\ Len(result'.matched) = Cardinality(M')
        /\ \E trace \in [DOMAIN result'.matched -> M'] :
              /\ \A k \in DOMAIN trace : result'.matched[k] = policy'.rules[trace[k]].id
              /\ \A k, l \in DOMAIN trace : k < l => GoesBefore(policy'.rules, trace[k], trace[l])
    BY <1>1, <1>6, <2>1, <2>4
  <2>6. Matching(request, {"deny"})' # {} =>
          IF told' = {} THEN result'.reason = NoName
          ELSE \E i \in told' : /\ result'.reason = policy'.rules[i].description
                                /\ \A j \in told' \ {i} : GoesBefore(policy'.rules, i, j)
    BY <1>1, <1>3, <1>5, <1>6, <2>2, <2>4
  <2> QED
    BY <2>5, <2>6 DEF TraceInOrder, M, told
<1>8. PlanIsComplete'
  <2>1. /\ {transformPlan[k] : k \in DOMAIN transformPlan} = steps
        /\ transformPlan = <<>> <=> steps = {}
    BY <1>1, PlanAfterWalk
  <2>2. steps' = steps
    BY <1>1, <1>5
  <2>3. steps # {} => Matching(request, {"transform"}) # {}
    OBVIOUS
  <2> HIDE DEF steps
  <2>4. CASE "deny" \in flags
    BY <1>6, <2>4 DEF PlanIsComplete
  <2>5. CASE "deny" \notin flags /\ "transform" \in flags
    <3>1. result'.decision = "transform" /\ result'.plan = PlanOrDefault
      BY <1>6, <2>5
    <3>2. steps # {} => result'.plan = transformPlan
      BY <2>1, <3>1 DEF PlanOrDefault
    <3>3. steps = {} => result'.plan = defaultEntityTransforms
      BY <2>1, <3>1 DEF PlanOrDefault
    <3>4. steps # {} => {result'.plan[k] : k \in DOMAIN result'.plan} = steps
      BY <2>1, <3>2
    <3> QED
      BY <2>2, <3>1, <3>3, <3>4 DEF PlanIsComplete, steps
  <2>6. CASE flags = {"redaction"}
    <3>1. result'.decision = "allow_with_redaction" /\ result'.plan = PlanOrDefault
      BY <1>6, <2>6
    <3>2. steps = {}
      BY <1>3, <2>3, <2>6
    <3>3. result'.plan = defaultEntityTransforms
      BY <2>1, <3>1, <3>2 DEF PlanOrDefault
    <3> QED
      BY <3>1, <3>3 DEF PlanIsComplete
  <2>7. CASE flags = {}
    BY <1>6, <2>7 DEF PlanIsComplete
  <2> QED
    BY <1>3, <2>4, <2>5, <2>6, <2>7
<1> QED
  BY <1>1, <1>4, <1>7, <1>8 DEF WalkInv

LEMMA AskKeepsWalk ==
  ASSUME IInv, WalkInv, NEW q \in Requests, Ask(q)
  PROVE  WalkInv'
<1>1. /\ status = "ready" /\ request' = q /\ next' = 1 /\ matchIDs' = <<>> /\ transformPlan' = <<>>
      /\ denyReason' = NoName /\ UNCHANGED <<policy, rules>>
  BY DEF Ask
<1>2. Placed'
  BY <1>1 DEF WalkInv, Placed
<1>3. CASE q.action.type = NoName
  <2>1. status' = "ready"
    BY <1>1, <1>3 DEF Ask
  <2> QED
    BY <1>1, <1>2, <1>3, <2>1 DEF WalkInv, TraceInOrder, PlanIsComplete, Walked
<1>4. CASE q.action.type # NoName
  <2>1. status' = "walking"
    BY <1>4 DEF Ask
  <2>2. \A i \in 1..Len(rules) : ~Hit(i)'
    BY <1>1 DEF Hit
  <2>3. Traces' # {}
    <3>1. Len(<<>>) = 0 /\ 1..0 = {}
      OBVIOUS
    <3>2. <<>> \in [1..Len(matchIDs') -> 1..Len(rules')]
      BY <1>1, <3>1
    <3>3. <<>> \in Traces'
      BY <1>1, <2>2, <3>1, <3>2 DEF Traces
    <3> QED
      BY <3>3
  <2>4. Reasoned'
    BY <1>1, <2>2 DEF Reasoned
  <2>5. Planned'
    <3>1. {j \in 1..Len(rules') : Hit(j)' /\ rules'[j].effect = "transform"} = {}
      BY <1>1, <2>2
    <3> QED
      BY <1>1, <3>1 DEF Planned
  <2> QED
    BY <1>2, <2>1, <2>3, <2>4, <2>5 DEF WalkInv, TraceInOrder, PlanIsComplete, Walked, Answered
<1> QED
  BY <1>3, <1>4

LEMMA WalkHolds == Spec => []WalkInv
<1>1. Init => WalkInv
  BY DEF Init, WalkInv, TraceInOrder, PlanIsComplete, Walked, Answered
<1>2. ASSUME IInv, WalkInv, [Next]_vars PROVE WalkInv'
  <2>1. ASSUME NEW content \in Policies \cup {Nothing}, Refuse(content) PROVE WalkInv'
    BY <1>2, <2>1 DEF Refuse, WalkInv, TraceInOrder, PlanIsComplete, Walked, Answered
  <2>2. ASSUME NEW content \in Policies \cup {Nothing}, Load(content) PROVE WalkInv'
    <3>1. /\ policy' = content /\ status' = "ready" /\ request' = Nothing
          /\ \E order \in StableOrders(content.rules) :
                rules' = [i \in DOMAIN content.rules |-> content.rules[order[i]]]
      BY <1>2, <2>2 DEF Load, IInv
    <3> QED
      BY <3>1 DEF WalkInv, Placed, TraceInOrder, PlanIsComplete, Walked, Answered
  <2>3. CASE UNCHANGED vars
    <3>1. UNCHANGED <<status, policy, rules, request, next, matchIDs, transformPlan, denyReason, result>>
      BY <2>3 DEF vars, walk
    <3>2. Placed' <=> Placed
      BY <3>1 DEF Placed
    <3>3. \A i : Hit(i)' <=> Hit(i)
      BY <3>1 DEF Hit
    <3>4. Traces' = Traces
      BY <3>1, <3>3 DEF Traces
    <3>5. Reasoned' <=> Reasoned
      BY <3>1, <3>3 DEF Reasoned
    <3>6. Planned' <=> Planned
      <4> DEFINE T == {j \in 1..Len(rules) : Hit(j) /\ rules[j].effect = "transform"}
      <4>1. T' = T
        BY <3>1, <3>3
      <4>2. UNION {Steps(rules[i])' : i \in T} = UNION {Steps(rules[i]) : i \in T}
        BY <3>1 DEF Steps
      <4> HIDE DEF T
      <4>3. UNION {Steps(rules[i]) : i \in T}' = UNION {Steps(rules[i]) : i \in T}
        BY <4>1, <4>2
      <4> QED
        BY <3>1, <4>3 DEF Planned, T
    <3>7. (TraceInOrder' <=> TraceInOrder) /\ (PlanIsComplete' <=> PlanIsComplete)
      BY <3>1 DEF TraceInOrder, PlanIsComplete, Walked, Answered, Matching
    <3> QED
      BY <1>2, <3>1, <3>2, <3>4, <3>5, <3>6, <3>7 DEF WalkInv
  <2> QED
    BY <1>2, <2>1, <2>2, <2>3, AskKeepsWalk, SkipKeepsWalk, TakeKeepsWalk, ConcludeKeepsWalk DEF Next
<1> QED
  BY <1>1, <1>2, InvHolds, PTL DEF Spec

\* matched_rules names every matching rule once, in the order of priorities and
\* of the file, and the reason of a denial is the first one given in it.
THEOREM TracesAreOrdered == Spec => []TraceInOrder
<1>1. WalkInv => TraceInOrder
  BY DEF WalkInv
<1> QED
  BY <1>1, WalkHolds, PTL

\* The plan of an answer holds the steps of all matching transform rules, or
\* the defaults where there are none.
THEOREM PlansAreComplete == Spec => []PlanIsComplete
<1>1. WalkInv => PlanIsComplete
  BY DEF WalkInv
<1> QED
  BY <1>1, WalkHolds, PTL
=============================================================================
