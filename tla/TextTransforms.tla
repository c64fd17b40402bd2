--------------------------- MODULE TextTransforms ---------------------------
(***************************************************************************)
(* Replacing detected entities in a text: transform.ApplyTransforms, and   *)
(* the findings and plans that /v1/transform, /v1/anonymize and the policy *)
(* gate hand to it.  Without findings in the request the text is scanned.  *)
(*                                                                         *)
(* The findings are ordered from the end of the text to its start and      *)
(* spliced in one by one at the offsets they had in the original text.     *)
(* A byte of the working copy is <<0, i>>, the i-th byte of the input, or  *)
(* <<i, j>>, the j-th byte of the replacement of the i-th finding.         *)
(***************************************************************************)
EXTENDS Detection

CONSTANTS
  N,         \* length of the input in bytes
  Findings,  \* the findings a caller may come with
  Inputs,    \* the sequences of findings that come with a request
  Texts,     \* the texts that come without findings
  ScannedJobs, \* the requests that come with those
  Jobs,      \* the requests: [kind, mode, modes, plan]
  Trim,      \* entity type -> the type without surrounding blanks
  Length     \* mode -> length of its replacement, for all modes but mask

Modes == {"mask", "tokenize", "anonymize", "redact", "replace", "hash"}

ASSUME LengthAssumption == N \in Nat /\ Length \in [Modes -> Nat]
ASSUME FindingsAssumption ==
  /\ \A f \in Findings : f \in [type : EntityTypes, start : Int, end : Int, size : Nat]
  /\ Inputs \subseteq Seq(Findings) \ {<<>>} /\ Texts \subseteq [1..N -> Words]
\* handleTransform turns away every mode but the six, and so does the policy file's
\* validation.
ASSUME JobsAssumption ==
  \A j \in Jobs \cup ScannedJobs :
    /\ j.kind \in {"transform", "anonymize", "redact"} /\ j.mode \in Modes \cup {""}
    /\ IsFiniteSet(DOMAIN j.modes) /\ j.modes \in [DOMAIN j.modes -> Modes]
    /\ \A key \in DOMAIN j.modes : Trim[key] \in EntityTypes
    /\ j.plan \in Seq(EntityTypes \X Modes)

VARIABLES
  stage,     \* "idle", "scan", "plan", "sort", "loop", "done"
  text,      \* the text, if it has to be scanned
  job, findings,
  plan,      \* the transform steps: a sequence of <<type, mode>>
  queue,     \* filtered: the findings to replace, by their place in findings
  k,         \* the next of them
  bytes,     \* the working copy
  count      \* stats.EntitiesTransformed

vars == <<stage, text, job, findings, plan, queue, k, bytes, count>>

Original == [i \in 1..N |-> <<0, i>>]

Init ==
  /\ stage = "idle" /\ text = <<>> /\ findings = <<>> /\ job = <<>> /\ plan = <<>> /\ queue = <<>>
  /\ k = 1 /\ bytes = Original /\ count = 0

\* A request that has findings.
Begin ==
  /\ stage = "idle" /\ stage' = "plan"
  /\ job' \in Jobs /\ findings' \in Inputs
  /\ UNCHANGED <<text, plan, queue, k, bytes, count>>

\* One that has none.
BeginPlain ==
  /\ stage = "idle" /\ stage' = "scan"
  /\ job' \in ScannedJobs /\ text' \in Texts
  /\ UNCHANGED <<findings, plan, queue, k, bytes, count>>

\* Without findings the output is the input.
Scan ==
  /\ stage = "scan"
  /\ findings' = ScanText(text, {})
  /\ stage' = IF findings' = <<>> THEN "done" ELSE "plan"
  /\ UNCHANGED <<text, job, plan, queue, k, bytes, count>>

-----------------------------------------------------------------------------
(* The plans of the callers *)

FoundTypes == {findings[i].type : i \in DOMAIN findings}

\* A map as the sequences of its entries: range visits them in any order.
Entries(map) == {[i \in DOMAIN o |-> <<o[i], map[o[i]]>>] : o \in SetToSeqs(DOMAIN map)}

\* entity_modes with its keys trimmed: of two keys that become equal, the one
\* visited last stays.
CanonicalModes(modes) ==
  {m \in [{Trim[key] : key \in DOMAIN modes} -> Modes] :
     \A t \in DOMAIN m : \E key \in DOMAIN modes : Trim[key] = t /\ modes[key] = m[t]}

\* handleTransform: entity_modes, else the one mode for all types found.
TransformPlans ==
  IF job.modes # <<>>
    THEN UNION {Entries(m) : m \in CanonicalModes(job.modes)}
    ELSE IF job.mode = "" THEN {<<>>} ELSE Entries([t \in FoundTypes |-> job.mode])

\* handleAnonymize: a step for each type, in the order of the findings.
AnonymizePlan ==
  FlattenSeq([i \in DOMAIN findings |->
    IF \E j \in 1..(i - 1) : findings[j].type = findings[i].type
      THEN <<>> ELSE << <<findings[i].type, "anonymize">> >>])

Plan ==
  /\ stage = "plan"
  /\ CASE job.kind = "transform" -> plan' \in TransformPlans
       [] job.kind = "anonymize" -> plan' = AnonymizePlan
       [] job.kind = "redact"    -> plan' = job.plan
  /\ stage' = "sort"
  /\ UNCHANGED <<text, job, findings, queue, k, bytes, count>>

-----------------------------------------------------------------------------
(* ApplyTransforms *)

\* The last step for a type counts.
ModeMap ==
  [t \in {plan[i][1] : i \in DOMAIN plan} |->
     plan[CHOOSE i \in DOMAIN plan :
            plan[i][1] = t /\ \A j \in DOMAIN plan : j > i => plan[j][1] # t][2]]

Covered == {i \in DOMAIN findings : findings[i].type \in DOMAIN ModeMap}

\* Mutant: the findings are sorted from the front.
GoesForward(i, j) ==
  LET f == findings[i] g == findings[j] IN
  \/ f.start < g.start
  \/ f.start = g.start /\ f.end < g.end
  \/ f.start = g.start /\ f.end = g.end /\ i < j

\* The order of the stable sort: later starts first, then later ends.
GoesBefore(i, j) ==
  LET f == findings[i] g == findings[j] IN
  \/ f.start > g.start
  \/ f.start = g.start /\ f.end > g.end
  \/ f.start = g.start /\ f.end = g.end /\ i < j

Sort ==
  /\ stage = "sort"
  /\ \E order \in SetToSeqs(Covered) :
       /\ \A a, b \in DOMAIN order : a < b => GoesBefore(order[a], order[b])
       /\ queue' = order
  /\ stage' = IF Covered = {} THEN "done" ELSE "loop"
  /\ UNCHANGED <<text, job, findings, plan, k, bytes, count>>

\* Mutant: a finding that ends before it starts is not turned away.
InRangeUnordered(f) == f.start >= 0 /\ f.start <= Len(bytes) /\ f.end >= 0 /\ f.end <= Len(bytes)

InRange(f) == f.start >= 0 /\ f.end <= Len(bytes) /\ f.start < f.end

\* ReplacementForModeWithType: a mask is as long as the finding's value.
Replacement(i) ==
  LET f == findings[i]
      length == IF ModeMap[f.type] = "mask" THEN f.size ELSE Length[ModeMap[f.type]]
  IN [j \in 1..length |-> <<i, j>>]

Spliced(f, r) == SubSeq(bytes, 1, f.start) \o r \o SubSeq(bytes, f.end + 1, Len(bytes))

Replace ==
  /\ stage = "loop" /\ k <= Len(queue) /\ InRange(findings[queue[k]])
  /\ bytes' = Spliced(findings[queue[k]], Replacement(queue[k]))
  /\ count' = count + 1 /\ k' = k + 1
  /\ UNCHANGED <<stage, text, job, findings, plan, queue>>

SkipOne ==
  /\ stage = "loop" /\ k <= Len(queue) /\ ~InRange(findings[queue[k]])
  /\ k' = k + 1
  /\ UNCHANGED <<stage, text, job, findings, plan, queue, bytes, count>>

Finish ==
  /\ stage = "loop" /\ k > Len(queue)
  /\ stage' = "done"
  /\ UNCHANGED <<text, job, findings, plan, queue, k, bytes, count>>

Next ==
  \/ Begin
  \/ BeginPlain
  \/ Scan
  \/ Plan
  \/ Sort
  \/ Replace
  \/ SkipOne
  \/ Finish

Spec == Init /\ [][Next]_vars

-----------------------------------------------------------------------------
(* Properties *)

Usable(f) == f.start >= 0 /\ f.end <= N /\ f.start < f.end

\* The findings of the types that the plan names.
Planned == {i \in DOMAIN findings : \E n \in DOMAIN plan : plan[n][1] = findings[i].type}

\* No two of them overlap; those that end before they start do not count.
Disjoint ==
  \A i, j \in {n \in Planned : findings[n].start < findings[n].end} :
    i # j => findings[i].end <= findings[j].start \/ findings[j].end <= findings[i].start

\* Whatever findings come, overlapping ones and nonsense included, the bytes of
\* the input that are left are left in their order, none of them twice.
InputKeepsOrder ==
  \A i, j \in DOMAIN bytes :
    i < j /\ bytes[i][1] = 0 /\ bytes[j][1] = 0 => bytes[i][2] < bytes[j][2]

\* For findings that do not overlap, in whatever order they come, the output is
\* the input with each usable finding of a planned type replaced whole, by the
\* mode its last step gives, and the statistics count those.
ReplacesExactly ==
  LET here == {i \in Planned : Usable(findings[i])}
      mode(i) == plan[SelectLastInSeq(plan, LAMBDA step : step[1] = findings[i].type)][2]
      size(i) == IF mode(i) = "mask" THEN findings[i].size ELSE Length[mode(i)]
      piece(p) ==
        IF \E i \in here : findings[i].start < p /\ p <= findings[i].end
          THEN LET i == CHOOSE i \in here : findings[i].start < p /\ p <= findings[i].end
               IN IF p = findings[i].start + 1 THEN [j \in 1..size(i) |-> <<i, j>>] ELSE <<>>
          ELSE << <<0, p>> >>
  IN stage = "done" /\ Disjoint =>
       /\ bytes = FlattenSeq([p \in 1..N |-> piece(p)])
       /\ count = Cardinality(here)

\* The names that a scan reports stand in the text one behind the other: no
\* word is reported as a part of two of them.
NamesAreApart ==
  stage = "plan" /\ text # <<>> =>
    \A i, j \in DOMAIN findings :
      i < j /\ findings[i].type \in NameTypes /\ findings[j].type \in NameTypes =>
        findings[i].end <= findings[j].start

\* Asking for one type only never hides a finding of it that a scan for all
\* types reports (it may add some: a word that is then free to be tried again).
FilterOnlyAdds ==
  stage = "scan" =>
    \A type \in NameTypes \cup Range(Patterns) :
      \A f \in Range(ScanText(text, {})) : f.type = type => f \in Range(ScanText(text, {type}))
=============================================================================
