--------------------------- MODULE ShimHooksProofs ---------------------------
(***************************************************************************)
(* What may stand at the path of a shim script, and in which mode it lets  *)
(* a command through, for any number of processes that install, remove and *)
(* invoke scripts side by side.                                            *)
(*                                                                         *)
(* Nobody ever takes back what it was called to do, so what a script owes  *)
(* to an installation can be traced to it for ever: Traced relates the     *)
(* content of each script, and the copies of it that processes hold, to    *)
(* the operations.  That a part of a script has a culprit needs more: a    *)
(* process that will still write must have the very file open that stands  *)
(* at the path (Torn).                                                     *)
(***************************************************************************)
EXTENDS ShimHooks, TLAPS

Does(p, doing, n) == op[p] # None /\ op[p].do = doing /\ op[p].name = n

\* A process that was called to install a script of n with the script as its
\* target, or looked n up and had the shim directory on its PATH.
MayWrap(p, n) ==
  /\ Does(p, "install", n)
  /\ \/ op[p].target = "shim"
     \/ /\ op[p].target \in {"name", "which"}
        /\ op[p].path = "ahead" \/ (op[p].path = "behind" /\ n \notin Real)

Wrapped(n) == \E p \in Procs : MayWrap(p, n)

\* Some install of n was asked to observe.
AskedBy(p, n) ==
  /\ Does(p, "install", n)
  /\ "observe" \in {op[p].mode} \cup (IF op[p].mode = None THEN {op[p].env} ELSE {})

Asked(n) == \E p \in Procs : AskedBy(p, n)

Culprit(p, n) == Does(p, "install", n) /\ (pc[p] = "broken" \/ (pc[p] = "write" /\ open[p]))

PcFits ==
  \A p \in Procs :
    /\ pc[p] = "idle" <=> op[p] = None
    /\ pc[p] = "look" => op[p].do \in {"install", "uninstall"}
    /\ pc[p] \in {"which", "resolve", "install", "write", "broken"} => op[p].do = "install"
    /\ pc[p] = "which" => op[p].target = "which"
    /\ pc[p] = "gate" => seen[p] \in Files

TracedFiles ==
  \A n \in Names : /\ file[n].target = "shim" => Wrapped(n)
                   /\ file[n].mode = "observe" => Asked(n)

TracedProcs ==
  \A p \in Procs : /\ target[p] = "shim" => MayWrap(p, op[p].name)
                   /\ pc[p] = "gate" /\ seen[p].mode = "observe" => Asked(op[p].name)

Traced == TracedFiles /\ TracedProcs

Torn ==
  \A n \in Names : file[n].kind \in {"empty", "stub", "cut"} => \E p \in Procs : Culprit(p, n)

RanOK ==
  \A p \in Procs : ran[p] = "observe" => op[p] # None /\ (op[p].env = "observe" \/ (op[p].env = None /\ Asked(op[p].name)))

IInv == TypeOK /\ PcFits /\ Traced /\ Torn /\ RanOK

-----------------------------------------------------------------------------
(* Types *)

LEMMA OpFacts ==
  ASSUME TypeOK, NEW p \in Procs, op[p] # None
  PROVE  /\ op[p].name \in Names /\ op[p].do \in Doings
         /\ op[p].mode \in Modes \cup {None} /\ op[p].env \in Modes \cup {None}
BY OpsAssumption DEF TypeOK, OpsOK

LEMMA InitType == Init => TypeOK
<1> SUFFICES ASSUME Init PROVE TypeOK
  OBVIOUS
<1>1. OpsOK
  BY DEF Init, OpsOK
<1>2. FilesOK
  BY DEF Init, FilesOK, Files, File, Kinds
<1>3. ProcsOK
  BY DEF Init, ProcsOK
<1> QED
  BY <1>1, <1>2, <1>3 DEF TypeOK

\* What is written in the place of a script is a file as the type says.
LEMMA ScriptType ==
  ASSUME TypeOK, NEW p \in Procs, op[p] # None
  PROVE  Script(p) \in Files
<1>1. target[p] \in {"real", "shim", None}
  BY DEF TypeOK, FilesOK
<1>2. op[p].mode \in Modes \cup {None} /\ op[p].env \in Modes \cup {None}
  BY OpFacts
<1>3. ModeOf(op[p], None) \in Modes
  BY <1>2, NoneAssumption DEF ModeOf, Modes
<1> QED
  BY <1>1, <1>2, <1>3, NoneAssumption DEF Script, Files, Kinds, Modes

LEMMA OverwrittenType ==
  ASSUME TypeOK, NEW p \in Procs, op[p] # None, NEW old \in Files, NEW f \in Overwritten(p, old)
  PROVE  f \in Files
<1>1. Script(p) \in Files
  BY ScriptType
<1>2. target[p] \in {"real", "shim", None}
  BY DEF TypeOK, FilesOK
<1>3. Script(p).mode \in Modes \cup {None} /\ old.mode \in Modes \cup {None} /\ old.target \in {"real", "shim", None}
  BY <1>1 DEF Files
<1>4. CASE f \in {old, File("stub")}
  BY <1>4 DEF Files, File, Kinds
<1>5. CASE f \in [kind : {"cut"}, target : {target[p], old.target} \ {None},
                  mode : {Script(p).mode, old.mode} \cup {None}]
  BY <1>2, <1>3, <1>5 DEF Files, Kinds
<1>6. CASE f \in [kind : {"whole"} \cap {old.kind}, target : {target[p], old.target} \ {None},
                  mode : {Script(p).mode, old.mode}]
  BY <1>2, <1>3, <1>6 DEF Files, Kinds
<1> QED
  BY <1>4, <1>5, <1>6 DEF Overwritten

\* What resolveTargetBinary returns.
LEMMA ResolvedType ==
  ASSUME TypeOK, NEW p \in Procs, op[p] # None
  PROVE  Resolved(p) \in {"real", "shim", None}
<1>1. op[p].target \in Targets
  BY OpsAssumption DEF TypeOK, OpsOK
<1>2. LookPath(op[p]) \in {"real", "shim", None}
  BY DEF LookPath
<1>3. target[p] \in {"real", "shim", None}
  BY DEF TypeOK, FilesOK
<1> QED
  BY <1>1, <1>2, <1>3 DEF Resolved, Targets

\* The step of one process, as the actions it may be.
LEMMA TypeStep ==
  ASSUME TypeOK, PcFits, NEW p \in Procs, Start(p) \/ Step(p)
  PROVE  TypeOK'
<1> USE DEF TypeOK, FilesOK, ProcsOK, Goto
<1>1. CASE Start(p)
  <2>1. PICK o \in Ops[p] : op' = [op EXCEPT ![p] = o]
    BY <1>1 DEF Start
  <2>2. OpsOK'
    BY <2>1 DEF OpsOK
  <2>3. PICK to \in {"which", "resolve", "look", "readdir", "find"} : pc' = [pc EXCEPT ![p] = to]
    <3>1. PICK q \in Ops[p] :
            pc' = [pc EXCEPT ![p] = CASE q.do = "install" /\ q.target = "which" -> "which"
                                      [] q.do = "install" /\ q.target # "which" -> "resolve"
                                      [] q.do = "uninstall" -> "look"
                                      [] q.do = "list" -> "readdir"
                                      [] q.do = "invoke" -> "find"]
      BY <1>1 DEF Start
    <3>2. q.do \in {"install", "uninstall", "list", "invoke"}
      BY OpsAssumption DEF Doings
    <3> QED
      BY <3>1, <3>2
  <2> QED
    BY <1>1, <2>2, <2>3 DEF Start
<1>2. CASE Resolve(p)
  <2>1. op[p] # None
    BY <1>2 DEF Resolve, PcFits
  <2>2. Resolved(p) \in {"real", "shim", None}
    BY <2>1, ResolvedType
  <2> HIDE DEF PcFits
  <2> QED
    BY <1>2, <2>2 DEF Resolve, OpsOK
<1>16. CASE Which(p)
  <2>1. LookPath(op[p]) \in {"real", "shim", None}
    BY DEF LookPath
  <2> QED
    BY <1>16, <2>1 DEF Which, OpsOK
<1>3. CASE Look(p)
  <2>1. op[p] # None /\ op[p].name \in Names /\ op[p].do \in {"install", "uninstall"}
    BY <1>3, OpFacts DEF Look, PcFits
  <2> QED
    BY <1>3, <2>1 DEF Look, OpsOK
<1>4. CASE Truncate(p)
  <2>1. op[p].name \in Names
    BY <1>4, OpFacts DEF Truncate, PcFits
  <2>2. File("empty") \in Files
    BY DEF Files, File, Kinds
  <2> QED
    BY <1>4, <2>1, <2>2 DEF Truncate, OpsOK, Exists
<1>5. CASE Write(p)
  <2>1. op[p] # None /\ Script(p) \in Files
    BY <1>5, ScriptType DEF Write, PcFits
  <2> QED
    BY <1>5, <2>1 DEF Write, Put, OpsOK
<1>6. CASE WriteFails(p)
  <2>1. op[p] # None /\ op[p].name \in Names
    BY <1>6, OpFacts DEF WriteFails, PcFits
  <2>2. PICK f \in Overwritten(p, file[op[p].name]) : Put(p, f)
    BY <1>6 DEF WriteFails
  <2>3. f \in Files
    BY <2>1, <2>2, OverwrittenType
  <2> QED
    BY <1>6, <2>2, <2>3 DEF WriteFails, Put, OpsOK
<1>7. CASE Remove(p)
  <2>1. File("absent") \in Files
    BY DEF Files, File, Kinds
  <2> QED
    BY <1>7, <2>1 DEF Remove, OpsOK
<1>8. CASE ReadDir(p)
  BY <1>8 DEF ReadDir, OpsOK
<1>9. CASE ReadEntry(p)
  BY <1>9 DEF ReadEntry, OpsOK
<1>10. CASE ListDone(p)
  BY <1>10 DEF ListDone, OpsOK
<1>11. CASE Find(p)
  BY <1>11 DEF Find, OpsOK
<1>12. CASE ReadScript(p)
  <2>1. op[p].name \in Names
    BY <1>12, OpFacts DEF ReadScript, PcFits
  <2> QED
    BY <1>12, <2>1 DEF ReadScript, OpsOK, Found
<1>13. CASE RunTarget(p)
  <2>1. op[p] # None /\ op[p].env \in Modes \cup {None} /\ seen[p] \in Files
    BY <1>13, OpFacts DEF RunTarget, PcFits
  <2>2. ModeOf(op[p], seen[p].mode) \in Modes
    BY <2>1, NoneAssumption DEF ModeOf, Modes, Files
  <2> QED
    BY <1>13, <2>2 DEF RunTarget, OpsOK
<1>14. CASE RunBlocked(p)
  BY <1>14 DEF RunBlocked, OpsOK
<1>15. CASE RunNothing(p)
  BY <1>15 DEF RunNothing, OpsOK
<1> QED
  BY <1>1, <1>2, <1>3, <1>4, <1>5, <1>6, <1>7, <1>8, <1>9, <1>10, <1>11, <1>12, <1>13, <1>14, <1>15, <1>16
  DEF Step, Invoke
-----------------------------------------------------------------------------
(* The invariant *)

\* A process is called once, and starts where its operation starts.
LEMMA StartFacts ==
  ASSUME TypeOK, PcFits, NEW p \in Procs, Start(p)
  PROVE  /\ op[p] = None /\ op'[p] # None
         /\ \A q \in Procs \ {p} : op'[q] = op[q] /\ pc'[q] = pc[q]
         /\ pc'[p] = "which" => op'[p].target = "which"
         /\ \/ op'[p].do = "install" /\ pc'[p] \in {"which", "resolve"}
            \/ op'[p].do = "uninstall" /\ pc'[p] = "look"
            \/ pc'[p] \in {"readdir", "find"}
<1>1. PICK o \in Ops[p] :
        /\ op' = [op EXCEPT ![p] = o] /\ pc[p] = "idle"
        /\ pc' = [pc EXCEPT ![p] = CASE o.do = "install" /\ o.target = "which" -> "which"
                                     [] o.do = "install" /\ o.target # "which" -> "resolve"
                                     [] o.do = "uninstall" -> "look"
                                     [] o.do = "list" -> "readdir"
                                     [] o.do = "invoke" -> "find"]
  BY DEF Start, Goto
<1>2. o # None /\ o.do \in {"install", "uninstall", "list", "invoke"}
  BY OpsAssumption, NoneAssumption DEF Doings
<1>3. op'[p] = o /\ \A q \in Procs \ {p} : op'[q] = op[q] /\ pc'[q] = pc[q]
  BY <1>1 DEF TypeOK, OpsOK, ProcsOK
<1>4. op[p] = None
  BY <1>1 DEF PcFits
<1>5. \/ o.do = "install" /\ pc'[p] \in {"which", "resolve"}
      \/ o.do = "uninstall" /\ pc'[p] = "look"
      \/ pc'[p] \in {"readdir", "find"}
  BY <1>1, <1>2 DEF TypeOK, ProcsOK
<1>6. pc'[p] = "which" => o.target = "which"
  BY <1>1, <1>2 DEF TypeOK, ProcsOK
<1> QED
  BY <1>2, <1>3, <1>4, <1>5, <1>6

\* What was asked of a process stays so.
LEMMA AskedStays ==
  ASSUME \A p \in Procs : op[p] # None => op'[p] = op[p]
  PROVE  \A n : (Wrapped(n) => Wrapped(n)') /\ (Asked(n) => Asked(n)')
<1>1. ASSUME NEW n, NEW p \in Procs, MayWrap(p, n) PROVE MayWrap(p, n)'
  BY <1>1 DEF MayWrap, Does
<1>2. ASSUME NEW n, NEW p \in Procs, AskedBy(p, n) PROVE AskedBy(p, n)'
  BY <1>2 DEF AskedBy, Does
<1> QED
  BY <1>1, <1>2 DEF Wrapped, Asked

\* Only a process that was started makes a step.
LEMMA StepOps == ASSUME NEW p \in Procs, Step(p) PROVE op' = op /\ pc[p] # "idle"
BY DEF Goto, Step, Invoke, Which, Resolve, Look, Truncate, Write, WriteFails, Remove, ReadDir, ReadEntry,
       ListDone, Find, ReadScript, RunTarget, RunBlocked, RunNothing

\* After a step of p: what its place says of its operation.
LEMMA PcStep ==
  ASSUME TypeOK, PcFits, NEW p \in Procs, Start(p) \/ Step(p)
  PROVE  PcFits'
<1>1. CASE Start(p)
  <2>1. UNCHANGED seen
    BY <1>1 DEF Start
  <2> QED
    BY <1>1, <2>1, StartFacts DEF PcFits
<1>2. CASE Step(p)
  <2>1. op' = op /\ pc[p] # "idle"
    BY <1>2, StepOps
  <2>2. \A q \in Procs \ {p} : pc'[q] = pc[q] /\ seen'[q] = seen[q]
    BY <1>2 DEF Step, Invoke, Which, Resolve, Look, Truncate, Write, WriteFails, Remove, ReadDir, ReadEntry,
         ListDone, Find, ReadScript, RunTarget, RunBlocked, RunNothing, Goto, TypeOK, ProcsOK, FilesOK
  <2>3. pc'[p] # "idle"
    <3>1. op[p] # None
      BY <2>1 DEF PcFits
    <3> QED
      BY <1>2, <3>1, OpFacts DEF Step, Invoke, Which, Resolve, Look, Truncate, Write, WriteFails, Remove, ReadDir,
         ReadEntry, ListDone, Find, ReadScript, RunTarget, RunBlocked, RunNothing, Goto, TypeOK, ProcsOK, PcFits
  <2>4. pc'[p] = "look" => op[p].do \in {"install", "uninstall"}
    <3>1. pc'[p] = "look" => Resolve(p)
      BY <1>2 DEF Step, Invoke, Which, Resolve, Look, Truncate, Write, WriteFails, Remove, ReadDir,
         ReadEntry, ListDone, Find, ReadScript, RunTarget, RunBlocked, RunNothing, Goto, TypeOK, ProcsOK, PcFits
    <3> QED
      BY <3>1 DEF Resolve, Goto, PcFits
  <2>5. pc'[p] \in {"which", "resolve", "install", "write", "broken"} => op[p].do = "install"
    BY <1>2 DEF Step, Invoke, Which, Resolve, Look, Truncate, Write, WriteFails, Remove, ReadDir,
       ReadEntry, ListDone, Find, ReadScript, RunTarget, RunBlocked, RunNothing, Goto, TypeOK, ProcsOK, PcFits
  <2>6. pc'[p] = "gate" => seen'[p] \in Files
    <3>1. pc'[p] = "gate" => ReadScript(p)
      BY <1>2 DEF Step, Invoke, Which, Resolve, Look, Truncate, Write, WriteFails, Remove, ReadDir,
         ReadEntry, ListDone, Find, ReadScript, RunTarget, RunBlocked, RunNothing, Goto, TypeOK, ProcsOK, PcFits
    <3>2. pc[p] = "script" => op[p].name \in Names
      BY <2>1, OpFacts DEF PcFits
    <3> QED
      BY <3>1, <3>2 DEF ReadScript, Found, TypeOK, FilesOK
  <2>7. pc'[p] # "which"
    BY <1>2 DEF Step, Invoke, Which, Resolve, Look, Truncate, Write, WriteFails, Remove, ReadDir,
       ReadEntry, ListDone, Find, ReadScript, RunTarget, RunBlocked, RunNothing, Goto, TypeOK, ProcsOK, PcFits
  <2> QED
    BY <2>1, <2>2, <2>3, <2>4, <2>5, <2>6, <2>7 DEF PcFits
<1> QED
  BY <1>1, <1>2
\* What an install writes, all or a part, owes its target and its mode to an
\* install of the same command.
LEMMA WrittenIsTraced ==
  ASSUME TypeOK, PcFits, Traced, NEW p \in Procs, pc[p] = "write", NEW n \in Names, op[p].name = n,
         NEW f \in {Script(p)} \cup Overwritten(p, file[n])
  PROVE  (f.target = "shim" => Wrapped(n)) /\ (f.mode = "observe" => Asked(n))
<1>1. op[p] # None /\ op[p].do = "install"
  BY DEF PcFits
<1>2. target[p] = "shim" => Wrapped(n)
  BY DEF Traced, TracedProcs, Wrapped
<1>3. Script(p).mode = "observe" => Asked(n)
  BY <1>1, NoneAssumption DEF Script, ModeOf, Asked, AskedBy, Does, Modes
<1>4. (file[n].target = "shim" => Wrapped(n)) /\ (file[n].mode = "observe" => Asked(n))
  BY DEF Traced, TracedFiles
<1>5. f.target \in {target[p], file[n].target, None}
  BY DEF Script, Overwritten, File
<1>6. f.mode \in {Script(p).mode, file[n].mode, None}
  BY DEF Overwritten, File
<1>7. None # "shim" /\ None # "observe"
  BY NoneAssumption DEF Modes
<1> QED
  BY <1>2, <1>3, <1>4, <1>5, <1>6, <1>7

\* A name leads to a script only by the PATH of the process, a path only if it is
\* the script's or was found in that way.
LEMMA FoundIsTraced ==
  ASSUME TypeOK, NEW p \in Procs, op[p] # None, op[p].do = "install",
         op[p].target \in {"name", "which"}, LookPath(op[p]) = "shim"
  PROVE  MayWrap(p, op[p].name)
<1>1. op[p].path = "ahead" \/ (op[p].path = "behind" /\ op[p].name \notin Real)
  BY NoneAssumption DEF LookPath
<1> QED
  BY <1>1 DEF MayWrap, Does

LEMMA ResolvedIsTraced ==
  ASSUME TypeOK, PcFits, TracedProcs, NEW p \in Procs, Resolve(p) \/ Which(p), target'[p] = "shim"
  PROVE  MayWrap(p, op[p].name)
<1>1. op[p] # None /\ op[p].do = "install"
  BY DEF Resolve, Which, Goto, PcFits
<1>2. CASE Which(p)
  <2>1. pc[p] = "which" /\ LookPath(op[p]) = "shim"
    BY <1>2 DEF Which, Goto, TypeOK, FilesOK
  <2>2. op[p].target = "which"
    BY <2>1 DEF PcFits
  <2> QED
    BY <1>1, <2>1, <2>2, FoundIsTraced
<1>3. CASE Resolve(p)
  <2>1. Resolved(p) = "shim"
    BY <1>3 DEF Resolve, TypeOK, FilesOK
  <2>2. CASE op[p].target = "name"
    BY <1>1, <2>1, <2>2, FoundIsTraced DEF Resolved
  <2>3. CASE op[p].target = "which"
    BY <2>1, <2>3, NoneAssumption DEF Resolved, TracedProcs
  <2>4. CASE op[p].target \notin {"name", "which"}
    <3>1. op[p].target = "shim"
      BY <2>1, <2>4, NoneAssumption DEF Resolved
    <3> QED
      BY <1>1, <3>1 DEF MayWrap, Does
  <2> QED
    BY <2>2, <2>3, <2>4
<1> QED
  BY <1>2, <1>3

LEMMA TraceStep ==
  ASSUME TypeOK, PcFits, Traced, NEW p \in Procs, Start(p) \/ Step(p)
  PROVE  Traced'
<1>1. \A q \in Procs : op[q] # None => op'[q] = op[q]
  BY StartFacts, StepOps
<1>2. \A n : (Wrapped(n) => Wrapped(n)') /\ (Asked(n) => Asked(n)')
  BY <1>1, AskedStays
<1>3. TracedFiles'
  <2> SUFFICES ASSUME NEW n \in Names
               PROVE  /\ file'[n].target = "shim" => Wrapped(n)'
                      /\ file'[n].mode = "observe" => Asked(n)'
    BY DEF TracedFiles
  <2>1. CASE file'[n] = file[n]
    BY <1>2, <2>1 DEF Traced, TracedFiles
  <2>2. CASE file'[n] \in {File("empty"), File("absent")}
    BY <2>2, NoneAssumption DEF File, Modes
  <2>3. CASE Write(p) \/ WriteFails(p)
    <3>1. pc[p] = "write" /\ (op[p].name # n => file'[n] = file[n])
      BY <2>3 DEF Write, WriteFails, Put, Goto, TypeOK, FilesOK
    <3>2. file'[n] # file[n] => file'[n] \in {Script(p)} \cup Overwritten(p, file[n])
      BY <2>3, <3>1 DEF Write, WriteFails, Put, TypeOK, FilesOK
    <3> QED
      BY <1>2, <2>1, <3>1, <3>2, WrittenIsTraced
  <2>4. \/ Write(p) \/ WriteFails(p)
        \/ file'[n] \in {file[n], File("empty"), File("absent")}
    BY DEF Start, Step, Invoke, Which, Resolve, Look, Truncate, Remove, ReadDir, ReadEntry,
           ListDone, Find, ReadScript, RunTarget, RunBlocked, RunNothing, TypeOK, FilesOK
  <2> QED
    BY <2>1, <2>2, <2>3, <2>4
<1>4. TracedProcs'
  <2> SUFFICES ASSUME NEW q \in Procs
               PROVE  /\ target'[q] = "shim" => MayWrap(q, op[q].name)'
                      /\ pc'[q] = "gate" /\ seen'[q].mode = "observe" => Asked(op[q].name)'
    BY DEF TracedProcs
  <2>1. target'[q] = "shim" => MayWrap(q, op[q].name)'
    <3>1. target'[q] = target[q] \/ (q = p /\ (Which(p) \/ Resolve(p)))
      BY DEF Start, Step, Invoke, Which, Resolve, Look, Truncate, Write, WriteFails, Remove, ReadDir, ReadEntry,
             ListDone, Find, ReadScript, RunTarget, RunBlocked, RunNothing, TypeOK, FilesOK
    <3>2. target'[q] = "shim" => MayWrap(q, op[q].name)
      BY <3>1, ResolvedIsTraced DEF Traced, TracedProcs
    <3> QED
      BY <1>1, <3>2 DEF MayWrap, Does
  <2>2. ASSUME pc'[q] = "gate", seen'[q].mode = "observe" PROVE Asked(op[q].name)'
    <3>1. op[q] # None /\ op'[q] = op[q]
      <4>1. q = p => Step(p)
        BY <2>2, StartFacts
      <4>2. q # p => pc[q] = "gate"
        BY <2>2, StartFacts DEF Step, Invoke, Which, Resolve, Look, Truncate, Write, WriteFails, Remove, ReadDir, ReadEntry,
             ListDone, Find, ReadScript, RunTarget, RunBlocked, RunNothing, Goto, TypeOK, ProcsOK
      <4> QED
        BY <1>1, <4>1, <4>2, StepOps DEF PcFits
    <3>2. \/ pc[q] = "gate" /\ seen'[q] = seen[q]
          \/ q = p /\ ReadScript(p)
      <4>1. CASE Start(p)
        BY <2>2, <4>1, StartFacts DEF Start
      <4>2. CASE Step(p) /\ q = p
        BY <2>2, <4>2 DEF Step, Invoke, Which, Resolve, Look, Truncate, Write, WriteFails, Remove, ReadDir, ReadEntry,
           ListDone, Find, ReadScript, RunTarget, RunBlocked, RunNothing, Goto, TypeOK, ProcsOK, PcFits
      <4>3. CASE Step(p) /\ q # p
        BY <2>2, <4>3 DEF Step, Invoke, Which, Resolve, Look, Truncate, Write, WriteFails, Remove, ReadDir, ReadEntry,
           ListDone, Find, ReadScript, RunTarget, RunBlocked, RunNothing, Goto, TypeOK, ProcsOK, FilesOK
      <4> QED
        BY <4>1, <4>2, <4>3
    <3>3. Asked(op[q].name)
      <4>1. CASE pc[q] = "gate" /\ seen'[q] = seen[q]
        BY <2>2, <4>1 DEF Traced, TracedProcs
      <4>2. CASE q = p /\ ReadScript(p)
        <5>1. op[p].name \in Names
          BY <3>1, <4>2, OpFacts
        <5>2. seen'[p] = file[op[p].name]
          BY <4>2 DEF ReadScript, Found, TypeOK, FilesOK
        <5> QED
          BY <2>2, <4>2, <5>1, <5>2 DEF Traced, TracedFiles
      <4> QED
        BY <3>2, <4>1, <4>2
    <3> QED
      BY <1>2, <3>1, <3>3
  <2> QED
    BY <2>1, <2>2
<1> QED
  BY <1>3, <1>4 DEF Traced
\* Whoever writes over a part either completes it or breaks off as its culprit.
LEMMA TornStep ==
  ASSUME TypeOK, PcFits, Torn, NEW p \in Procs, Start(p) \/ Step(p)
  PROVE  Torn'
<1> SUFFICES ASSUME NEW n \in Names, file'[n].kind \in {"empty", "stub", "cut"}
             PROVE  \E q \in Procs : Culprit(q, n)'
  BY DEF Torn
<1>1. ASSUME NEW q \in Procs, q # p, Culprit(q, n), open'[q] = open[q] PROVE Culprit(q, n)'
  <2>1. op'[q] = op[q] /\ pc'[q] = pc[q]
    BY <1>1, StartFacts DEF Step, Invoke, Which, Resolve, Look, Truncate, Write, WriteFails, Remove, ReadDir, ReadEntry,
       ListDone, Find, ReadScript, RunTarget, RunBlocked, RunNothing, Goto, TypeOK, ProcsOK
  <2> QED
    BY <1>1, <2>1 DEF Culprit, Does
<1>2. CASE Truncate(p) /\ op[p].name = n
  <2>1. op'[p] = op[p] /\ op[p] # None /\ op[p].do = "install"
    BY <1>2 DEF Truncate, Goto, PcFits
  <2>2. pc'[p] = "write" /\ open'[p]
    BY <1>2 DEF Truncate, Goto, TypeOK, ProcsOK
  <2> QED
    BY <1>2, <2>1, <2>2 DEF Culprit, Does
<1>3. CASE WriteFails(p) /\ op[p].name = n
  <2>1. op'[p] = op[p] /\ op[p] # None /\ op[p].do = "install" /\ pc'[p] = "broken"
    BY <1>3 DEF WriteFails, Goto, PcFits, TypeOK, ProcsOK
  <2> QED
    BY <1>3, <2>1 DEF Culprit, Does
<1>4. CASE Write(p) /\ op[p].name = n
  <2>1. ~open[p] /\ file' = file
    BY <1>4 DEF Write, Put, Script, TypeOK, FilesOK
  <2>2. PICK q \in Procs : Culprit(q, n)
    BY <2>1 DEF Torn
  <2>3. q # p /\ open'[q] = open[q]
    BY <1>4, <2>1, <2>2 DEF Culprit, Write, Goto
  <2> QED
    BY <1>1, <2>2, <2>3
<1>5. CASE Remove(p) /\ op[p].name = n
  BY <1>5 DEF Remove, File, TypeOK, FilesOK
<1>6. CASE ~(op[p].name = n /\ (Truncate(p) \/ WriteFails(p) \/ Write(p) \/ Remove(p)))
  <2>1. file'[n] = file[n]
    BY <1>6 DEF Start, Step, Invoke, Which, Resolve, Look, Truncate, Write, WriteFails, Put, Remove, ReadDir, ReadEntry,
       ListDone, Find, ReadScript, RunTarget, RunBlocked, RunNothing, TypeOK, FilesOK
  <2>2. PICK q \in Procs : Culprit(q, n)
    BY <2>1 DEF Torn
  <2>3. q # p
    BY <1>6, <2>2, StartFacts DEF Culprit, Does, Step, Invoke, Which, Resolve, Look, Truncate, Write, WriteFails, Put, Remove,
       ReadDir, ReadEntry, ListDone, Find, ReadScript, RunTarget, RunBlocked, RunNothing, Goto
  <2>4. open'[q] = open[q]
    BY <1>6, <2>2, <2>3 DEF Culprit, Does, Start, Step, Invoke, Which, Resolve, Look, Truncate, Write, WriteFails, Remove,
       ReadDir, ReadEntry, ListDone, Find, ReadScript, RunTarget, RunBlocked, RunNothing, TypeOK, ProcsOK
  <2> QED
    BY <1>1, <2>2, <2>3, <2>4
<1> QED
  BY <1>2, <1>3, <1>4, <1>5, <1>6

\* A command runs in the mode that its environment or its script gave.
LEMMA RanStep ==
  ASSUME TypeOK, PcFits, Traced, RanOK, NEW p \in Procs, Start(p) \/ Step(p)
  PROVE  RanOK'
<1> SUFFICES ASSUME NEW q \in Procs, ran'[q] = "observe"
             PROVE  /\ op'[q] # None
                    /\ op'[q].env = "observe" \/ (op'[q].env = None /\ Asked(op[q].name)')
  BY DEF RanOK
<1>1. \A r \in Procs : op[r] # None => op'[r] = op[r]
  BY StartFacts, StepOps
<1>2. \A n : Asked(n) => Asked(n)'
  BY <1>1, AskedStays
<1>3. CASE ran'[q] = ran[q]
  BY <1>1, <1>2, <1>3 DEF RanOK
<1>4. CASE RunTarget(p) /\ q = p
  <2>1. op[p] # None /\ op[p].env \in Modes \cup {None} /\ seen[p] \in Files
    BY <1>4, OpFacts DEF RunTarget, PcFits
  <2>2. CASE seen[p].target = "shim"
    BY <1>3, <1>4, <2>2 DEF RunTarget, TypeOK, ProcsOK
  <2>3. CASE seen[p].target # "shim"
    <3>1. ModeOf(op[p], seen[p].mode) = "observe"
      BY <1>4, <2>3 DEF RunTarget, TypeOK, ProcsOK
    <3>2. op[p].env = "observe" \/ (op[p].env = None /\ seen[p].mode = "observe")
      BY <2>1, <3>1 DEF ModeOf
    <3> QED
      BY <1>1, <1>2, <1>4, <2>1, <3>2 DEF RunTarget, Traced, TracedProcs
  <2> QED
    BY <2>2, <2>3
<1>5. ran'[q] = ran[q] \/ (RunTarget(p) /\ q = p)
  BY NoneAssumption DEF Start, Step, Invoke, Which, Resolve, Look, Truncate, Write, WriteFails, Remove, ReadDir, ReadEntry,
     ListDone, Find, ReadScript, RunTarget, RunBlocked, RunNothing, TypeOK, ProcsOK, Modes
<1> QED
  BY <1>3, <1>4, <1>5
-----------------------------------------------------------------------------
\* Another program touches only what is not there.
LEMMA PlantKeepsInv == ASSUME IInv, NEW n \in Names, Plant(n) PROVE IInv'
<1>1. PICK f \in {File("foreign"), File("long")}, x \in BOOLEAN :
        file' = [file EXCEPT ![n] = f] /\ exec' = [exec EXCEPT ![n] = x]
  BY DEF Plant
<1>2. f \in Files /\ f.kind \notin {"empty", "stub", "cut"} /\ f.target = None /\ f.mode = None
  BY <1>1 DEF Files, File, Kinds
<1>3. UNCHANGED <<pc, op, seen, target, open, todo, ran>>
  BY DEF Plant
<1>4. TypeOK'
  BY <1>1, <1>2, <1>3 DEF IInv, TypeOK, OpsOK, FilesOK, ProcsOK
<1>5. \A m : (Wrapped(m) => Wrapped(m)') /\ (Asked(m) => Asked(m)')
  BY <1>3, AskedStays
<1>6. \A m \in Names : file'[m] = file[m] \/ file'[m] = f
  BY <1>1 DEF IInv, TypeOK, FilesOK
<1>7. Traced'
  <2>1. TracedFiles'
    BY <1>2, <1>5, <1>6, NoneAssumption DEF IInv, Traced, TracedFiles, Modes
  <2>2. TracedProcs'
    BY <1>3, <1>5 DEF IInv, Traced, TracedProcs, MayWrap, Does
  <2> QED
    BY <2>1, <2>2 DEF Traced
<1>8. Torn'
  BY <1>2, <1>3, <1>6 DEF IInv, Torn, Culprit, Does
<1>9. PcFits' /\ RanOK'
  BY <1>3, <1>5 DEF IInv, PcFits, RanOK
<1> QED
  BY <1>4, <1>7, <1>8, <1>9 DEF IInv

LEMMA InitInv == Init => IInv
<1> SUFFICES ASSUME Init PROVE IInv
  OBVIOUS
<1>1. PcFits
  BY DEF Init, PcFits
<1>2. Traced
  BY NoneAssumption DEF Init, Traced, TracedFiles, TracedProcs, File, Modes
<1>3. Torn
  BY DEF Init, Torn, File
<1>4. RanOK
  BY NoneAssumption DEF Init, RanOK, Modes
<1> QED
  BY <1>1, <1>2, <1>3, <1>4, InitType DEF IInv

LEMMA InvHolds == Spec => []IInv
<1>1. ASSUME IInv, [Next]_vars PROVE IInv'
  <2>1. ASSUME NEW p \in Procs, Start(p) \/ Step(p) PROVE IInv'
    BY <1>1, <2>1, TypeStep, PcStep, TraceStep, TornStep, RanStep DEF IInv
  <2>2. CASE UNCHANGED vars
    BY <1>1, <2>2 DEF vars, IInv, TypeOK, OpsOK, FilesOK, ProcsOK, PcFits, Traced, TracedFiles, TracedProcs,
                      Torn, RanOK, Wrapped, MayWrap, Asked, AskedBy, Culprit, Does
  <2> QED
    BY <1>1, <2>1, <2>2, PlantKeepsInv DEF Next
<1> QED
  BY <1>1, InitInv, PTL DEF Spec

\* Every variable of the hooks model keeps to its range, and a process that is
\* at a place of an operation was called for that operation.
THEOREM HooksTypeCorrect == Spec => []TypeOK
<1>1. IInv => TypeOK
  BY DEF IInv
<1> QED
  BY <1>1, InvHolds, PTL

\* Any number of installs, uninstalls and invocations side by side leave no part
\* of a script behind, unless an install stopped or failed in its os.WriteFile.
THEOREM PartsAreExplained == Spec => []PartsHaveACulprit
<1>1. IInv => PartsHaveACulprit
  BY DEF IInv, Torn, Culprit, Does, PartsHaveACulprit
<1> QED
  BY <1>1, InvHolds, PTL

\* A script wraps itself only if an install was given the script as its --target,
\* or looked the command up, itself or in a setup script, with the shim directory
\* on its PATH, ahead or for want of a binary.
THEOREM SelfWrapsAreExplained == Spec => []SelfWrapHasACause
<1>1. IInv => SelfWrapHasACause
  BY DEF IInv, Traced, TracedFiles, Wrapped, MayWrap, Does, SelfWrapHasACause
<1> QED
  BY <1>1, InvHolds, PTL

\* No command slips through in observe mode that nobody asked to be observed.
THEOREM ObservationIsAskedFor == Spec => []ObserveIsAskedFor
<1>1. IInv => ObserveIsAskedFor
  BY DEF IInv, RanOK, Asked, AskedBy, Does, ObserveIsAskedFor
<1> QED
  BY <1>1, InvHolds, PTL
-----------------------------------------------------------------------------
(* What is overwritten and removed *)

\* A process that goes on saw what it may touch, and the file it has open is a
\* script.
LookedOK ==
  \A p \in Procs : pc[p] \in {"install", "uninstall"} => seen[p] \in Files /\ MayTouch(p, seen[p])

OpenOK ==
  \A p \in Procs : pc[p] = "write" /\ open[p] => file[op[p].name].kind \in {"whole", "cut", "stub", "empty"}

LEMMA LookedStep ==
  ASSUME IInv, LookedOK, NEW p \in Procs, Start(p) \/ Step(p)
  PROVE  LookedOK'
<1> USE DEF IInv
<1> SUFFICES ASSUME NEW q \in Procs, pc'[q] \in {"install", "uninstall"}
             PROVE  seen'[q] \in Files /\ MayTouch(q, seen[q])'
  BY DEF LookedOK
<1>1. CASE q = p /\ Look(p)
  <2>1. op[p].name \in Names /\ op' = op
    BY <1>1, OpFacts DEF Look, PcFits
  <2>2. seen'[p] = file[op[p].name] /\ MayTouch(p, file[op[p].name])
    BY <1>1, <2>1 DEF Look, Goto, TypeOK, FilesOK, ProcsOK
  <2> QED
    BY <1>1, <2>1, <2>2 DEF MayTouch, TypeOK, FilesOK
<1>2. CASE ~(q = p /\ Look(p))
  <2>1. pc'[q] = pc[q] /\ q # p
    BY <1>2, StartFacts DEF Step, Invoke, Which, Resolve, Look, Truncate, Write, WriteFails, Remove, ReadDir, ReadEntry,
       ListDone, Find, ReadScript, RunTarget, RunBlocked, RunNothing, Goto, TypeOK, ProcsOK
  <2>2. seen'[q] = seen[q]
    BY <2>1 DEF Start, Step, Invoke, Which, Resolve, Look, Truncate, Write, WriteFails, Remove, ReadDir, ReadEntry,
       ListDone, Find, ReadScript, RunTarget, RunBlocked, RunNothing, TypeOK, FilesOK
  <2>3. op'[q] = op[q]
    BY <2>1, StartFacts, StepOps
  <2> QED
    BY <2>1, <2>2, <2>3 DEF LookedOK, MayTouch
<1> QED
  BY <1>1, <1>2

LEMMA OverwrittenKind ==
  ASSUME NEW p, NEW old, old.kind \in {"whole", "cut", "stub", "empty"}, NEW f \in Overwritten(p, old)
  PROVE  f.kind \in {"whole", "cut", "stub", "empty"}
BY DEF Overwritten, File

LEMMA OpenStep ==
  ASSUME IInv, OpenOK, NEW p \in Procs, Start(p) \/ Step(p)
  PROVE  OpenOK'
<1> USE DEF IInv
<1> DEFINE Ours == {"whole", "cut", "stub", "empty"}
<1> SUFFICES ASSUME NEW q \in Procs, pc'[q] = "write", open'[q]
             PROVE  file'[op'[q].name].kind \in Ours
  BY DEF OpenOK
<1>1. CASE q = p
  <2>1. Truncate(p)
    BY <1>1, StartFacts DEF Step, Invoke, Which, Resolve, Look, Truncate, Write, WriteFails, Remove, ReadDir, ReadEntry,
       ListDone, Find, ReadScript, RunTarget, RunBlocked, RunNothing, Goto, TypeOK, ProcsOK, PcFits
  <2>2. op[p].name \in Names /\ op' = op
    BY <2>1, OpFacts DEF Truncate, Goto, PcFits
  <2> QED
    BY <1>1, <2>1, <2>2 DEF Truncate, File, TypeOK, FilesOK
<1>2. CASE q # p
  <2>1. pc[q] = "write"
    BY <1>2, StartFacts DEF Step, Invoke, Which, Resolve, Look, Truncate, Write, WriteFails, Remove, ReadDir, ReadEntry,
       ListDone, Find, ReadScript, RunTarget, RunBlocked, RunNothing, Goto, TypeOK, ProcsOK
  <2>2. op[q] # None /\ op'[q] = op[q] /\ op[q].name \in Names
    BY <1>2, <2>1, StartFacts, StepOps, OpFacts DEF PcFits
  <2>3. open[q] /\ ~(Remove(p) /\ op[p].name = op[q].name)
    BY <1>2, <2>2 DEF Start, Step, Invoke, Which, Resolve, Look, Truncate, Write, WriteFails, Remove, ReadDir, ReadEntry,
       ListDone, Find, ReadScript, RunTarget, RunBlocked, RunNothing, TypeOK, ProcsOK
  <2>4. file[op[q].name].kind \in Ours
    BY <2>1, <2>3 DEF OpenOK
  <2>5. CASE WriteFails(p) /\ op[p].name = op[q].name
    <3>1. PICK f \in Overwritten(p, file[op[q].name]) : Put(p, f)
      BY <2>5 DEF WriteFails
    <3>2. f.kind \in Ours
      BY <2>4, <3>1, OverwrittenKind
    <3> QED
      BY <2>2, <2>4, <2>5, <3>1, <3>2 DEF Put, TypeOK, FilesOK
  <2>6. CASE Write(p)
    BY <2>2, <2>4, <2>6 DEF Write, Put, Script, TypeOK, FilesOK
  <2>7. CASE Truncate(p)
    BY <2>2, <2>4, <2>7 DEF Truncate, File, TypeOK, FilesOK
  <2>8. CASE ~(Write(p) \/ Truncate(p) \/ (WriteFails(p) /\ op[p].name = op[q].name))
    <3>1. file'[op[q].name] = file[op[q].name]
      BY <2>2, <2>3, <2>8 DEF Start, Step, Invoke, Which, Resolve, Look, WriteFails, Put, Remove, ReadDir, ReadEntry,
         ListDone, Find, ReadScript, RunTarget, RunBlocked, RunNothing, TypeOK, FilesOK
    <3> QED
      BY <2>2, <2>4, <3>1
  <2> QED
    BY <2>5, <2>6, <2>7, <2>8
<1> QED
  BY <1>1, <1>2

\* An install or uninstall without force destroys a file of somebody else only
\* if it came to stand there after the process had looked.
THEOREM ForeignFilesAreSpared == Spec => ForeignIsSpared
<1> DEFINE Inv == IInv /\ LookedOK /\ OpenOK
           Spared == \A n \in Names : ~Managed(file[n]) /\ file[n].kind \in {"foreign", "long"} /\ file'[n] # file[n] =>
             \E p \in Procs : /\ pc'[p] # pc[p] /\ op[p] # None /\ op[p].name = n
                              /\ op[p].force \/ seen[p].kind # file[n].kind
<1>1. Init => Inv
  BY InitInv DEF Init, LookedOK, OpenOK
<1>2. ASSUME Inv, Next PROVE (LookedOK /\ OpenOK)'
  <2>1. ASSUME NEW n \in Names, Plant(n) PROVE (LookedOK /\ OpenOK)'
    <3>1. UNCHANGED <<pc, op, seen, open>> /\ ~Exists(file[n])
      BY <2>1 DEF Plant
    <3>2. \A m \in Names : m # n => file'[m] = file[m]
      BY <1>2, <2>1 DEF Plant, IInv, TypeOK, FilesOK
    <3>3. \A q \in Procs : pc[q] = "write" => op[q].name \in Names
      BY <1>2, OpFacts DEF IInv, PcFits
    <3> QED
      BY <1>2, <3>1, <3>2, <3>3 DEF LookedOK, OpenOK, MayTouch, Exists
  <2> QED
    BY <1>2, <2>1, LookedStep, OpenStep DEF Next
<1>3. ASSUME Inv, Next PROVE Spared
  <2> SUFFICES ASSUME NEW n \in Names, file[n].kind \in {"foreign", "long"}, file'[n] # file[n]
               PROVE  \E p \in Procs : /\ pc'[p] # pc[p] /\ op[p] # None /\ op[p].name = n
                                       /\ op[p].force \/ seen[p].kind # file[n].kind
    OBVIOUS
  <2>1. \A m \in Names : ~Plant(m)
    BY <1>3 DEF Plant, Exists, IInv, TypeOK, FilesOK
  <2>2. PICK p \in Procs : Start(p) \/ Step(p)
    BY <1>3, <2>1 DEF Next
  <2>3. op[p].name = n /\ (Truncate(p) \/ Remove(p) \/ (open[p] /\ (Write(p) \/ WriteFails(p))))
    BY <1>3, <2>2 DEF Start, Step, Invoke, Which, Resolve, Look, Truncate, Write, WriteFails, Put, Remove, ReadDir, ReadEntry,
       ListDone, Find, ReadScript, RunTarget, RunBlocked, RunNothing, IInv, TypeOK, FilesOK
  <2>4. pc[p] \in {"install", "uninstall"}
    BY <1>3, <2>3 DEF Truncate, Remove, Write, WriteFails, Goto, OpenOK
  <2>5. pc'[p] # pc[p] /\ op[p] # None
    BY <1>3, <2>3, <2>4 DEF Truncate, Remove, Write, WriteFails, Goto, IInv, TypeOK, ProcsOK, PcFits
  <2>6. op[p].force \/ seen[p].kind # file[n].kind
    BY <1>3, <2>4 DEF LookedOK, MayTouch, Exists, Managed
  <2> QED
    BY <2>3, <2>5, <2>6
<1>4. ASSUME Inv, UNCHANGED vars PROVE (LookedOK /\ OpenOK)'
  BY <1>4 DEF vars, LookedOK, OpenOK, MayTouch
<1>5. ASSUME Inv, IInv', [Next]_vars PROVE Inv'
  BY <1>2, <1>4, <1>5
<1>6. Inv /\ [Next]_vars => [Spared]_vars
  BY <1>3
<1>7. Spec => []Inv
  <2> HIDE DEF Inv
  <2>1. Inv /\ IInv' /\ [Next]_vars => Inv'
    BY <1>5
  <2> QED
    BY <1>1, <2>1, InvHolds, PTL DEF Spec
<1> QED
  BY <1>6, <1>7, PTL DEF Spec, ForeignIsSpared
=============================================================================
