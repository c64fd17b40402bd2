------------------------------ MODULE ShimHooks ------------------------------
(***************************************************************************)
(* The shim scripts of datafog-shim (cmd/datafog-shim/main.go): hooks      *)
(* install, list and uninstall, and what happens when a command that has   *)
(* a script is invoked.                                                    *)
(*                                                                         *)
(* A process is one invocation of datafog-shim or of a command.  Processes *)
(* share the shim directory with each other and with other programs, and   *)
(* lock nothing: what install and uninstall saw when they looked may be    *)
(* gone when they write.  A script is truncated and then written in place, *)
(* so a process that stops in between leaves a part of it.                 *)
(***************************************************************************)
EXTENDS Naturals, FiniteSets

CONSTANTS
  Procs,  \* the processes
  Names,  \* the commands, which are also the names of the scripts
  Real,   \* the commands whose binary is on the PATH
  Ops,    \* what each process may be called to do
  None

Modes == {"enforced", "observe"}
Doings == {"install", "uninstall", "list", "invoke"}

Targets == {"real", "shim", "name", "which"}

\* do, name: the operation and its command; target: the --target option: the path
\* of the binary, the path of the script itself, none (the bare name), or what
\* `command -v` finds, as in the setup scripts; mode, force: options; env:
\* DATAFOG_SHIM_MODE, None if unset; path: where the shim directory stands on the
\* process' PATH.
ASSUME OpsAssumption ==
  Ops \in [Procs -> SUBSET [do : Doings, name : Names, target : Targets, mode : Modes \cup {None},
                 force : BOOLEAN, env : Modes \cup {None}, path : {"ahead", "behind", "off"}]]
ASSUME NamesAssumption == Real \subseteq Names
ASSUME NoneAssumption == None \notin Modes \cup {"real", "shim"} /\ \A p \in Procs : None \notin Ops[p]

VARIABLES
  file,    \* what stands at the path of each script
  exec,    \* has that file its executable bit?
  pc, op,  \* where each process is, and what it does
  seen,    \* what it read when it looked at the script
  target,  \* the binary that it resolved
  open,    \* does the file it opened still stand at the path?
  todo,    \* the directory entries that a list has still to read
  ran      \* what the invoked command came to

vars == <<file, exec, pc, op, seen, target, open, todo, ran>>

-----------------------------------------------------------------------------
(* Files *)

\* A whole script; one cut behind the target of its last command; one cut before; one
\* without its marker or without anything; a file of somebody else; one of
\* somebody else with a line above the scanner's 64 KiB; none.
Kinds == {"whole", "cut", "stub", "empty", "foreign", "long", "absent"}
Files == [kind : Kinds, target : {"real", "shim", None}, mode : Modes \cup {None}]
File(kind) == [kind |-> kind, target |-> None, mode |-> None]

\* Mutant: a script cut before its last command is taken for a foreign file.
ManagedIfRunnable(f) == f.kind \in {"whole", "cut"}

\* readShimMetadata: the marker is there.
Managed(f) == f.kind \in {"whole", "cut", "stub"}

\* readShimMetadata fails on a line that is too long.
Readable(f) == f.kind # "long"

Exists(f) == f.kind # "absent"

\* Mutant: the installed mode goes before the environment.
ModeInstalledFirst(o, installed) ==
  IF installed # None THEN installed ELSE IF o.env # None THEN o.env ELSE "enforced"

\* coalesce: the environment goes before what a script says (in the script
\* itself), an option before the environment, and the default is to enforce.
ModeOf(o, installed) ==
  IF o.env # None THEN o.env ELSE IF installed # None THEN installed ELSE "enforced"

\* buildShimScript; runHooksInstall settles the mode.
Script(p) ==
  [kind |-> "whole", target |-> target[p],
   mode |-> IF op[p].mode # None THEN op[p].mode ELSE ModeOf(op[p], None)]

\* Mutant: the shim directory always comes first.
LookPathAhead(o) ==
  IF Exists(file[o.name]) /\ exec[o.name] THEN "shim"
  ELSE IF o.name \in Real THEN "real" ELSE None

\* Where a bare name leads: the first executable file of that name on the PATH.
LookPath(o) ==
  LET shim == Exists(file[o.name]) /\ exec[o.name] IN
  CASE o.path = "ahead" /\ shim                      -> "shim"
    [] ~(o.path = "ahead" /\ shim) /\ o.name \in Real -> "real"
    [] o.path = "behind" /\ shim /\ o.name \notin Real -> "shim"
    [] OTHER                                         -> None

-----------------------------------------------------------------------------
Init ==
  /\ file \in [Names -> {File("absent"), File("foreign"), File("long")}]
  /\ exec \in [Names -> BOOLEAN]
  /\ pc = [p \in Procs |-> "idle"] /\ op = [p \in Procs |-> None]
  /\ seen = [p \in Procs |-> None] /\ target = [p \in Procs |-> None]
  /\ open = [p \in Procs |-> FALSE] /\ todo = [p \in Procs |-> {}]
  /\ ran = [p \in Procs |-> None]

Goto(p, from, to) == pc[p] = from /\ pc' = [pc EXCEPT ![p] = to]

\* A process is started and reads its options and its environment.
Start(p) ==
  \E o \in Ops[p] :
    /\ op' = [op EXCEPT ![p] = o]
    /\ Goto(p, "idle", CASE o.do = "install" /\ o.target = "which" -> "which"
                         [] o.do = "install" /\ o.target # "which" -> "resolve"
                         [] o.do = "uninstall" -> "look"
                         [] o.do = "list" -> "readdir"
                         [] o.do = "invoke" -> "find")
    /\ UNCHANGED <<file, exec, seen, target, open, todo, ran>>

-----------------------------------------------------------------------------
(* hooks install and hooks uninstall *)

\* The setup script that runs the install looks the command up first.
Which(p) ==
  LET found == LookPath(op[p]) IN
  /\ Goto(p, "which", IF found = None THEN "failed" ELSE "resolve")
  /\ target' = [target EXCEPT ![p] = found]
  /\ UNCHANGED <<file, exec, op, seen, open, todo, ran>>

\* resolveTargetBinary: a bare name is looked up; a path must lead to a file, which
\* may well be the script, and need not be executable.
Resolved(p) ==
  LET path == IF op[p].target = "which" THEN target[p] ELSE op[p].target
      there == IF path = "shim" THEN Exists(file[op[p].name]) ELSE op[p].name \in Real
  IN IF op[p].target = "name" THEN LookPath(op[p]) ELSE IF there THEN path ELSE None

Resolve(p) ==
  /\ Goto(p, "resolve", IF Resolved(p) = None THEN "failed" ELSE "look")
  /\ target' = [target EXCEPT ![p] = Resolved(p)]
  /\ UNCHANGED <<file, exec, op, seen, open, todo, ran>>

\* Mutant: force is not asked for.
MayTouchAnything(p, f) == Readable(f) /\ (op[p].do = "install" \/ Exists(f))

\* A file that is there must be readable and managed, or forced; uninstall
\* fails without one.
MayTouch(p, f) ==
  IF Exists(f) THEN Readable(f) /\ (Managed(f) \/ op[p].force) ELSE op[p].do = "install"

Look(p) ==
  LET f == file[op[p].name] IN
  /\ pc[p] = "look"
  /\ seen' = [seen EXCEPT ![p] = f]
  /\ Goto(p, "look", IF MayTouch(p, f) THEN op[p].do ELSE "failed")
  /\ UNCHANGED <<file, exec, op, target, open, todo, ran>>

\* os.WriteFile opens and truncates; the mode bits count only for a new file.
Truncate(p) ==
  LET n == op[p].name IN
  /\ Goto(p, "install", "write")
  /\ file' = [file EXCEPT ![n] = File("empty")]
  /\ exec' = [exec EXCEPT ![n] = @ \/ ~Exists(file[n])]
  /\ open' = [open EXCEPT ![p] = TRUE]
  /\ UNCHANGED <<op, seen, target, todo, ran>>

\* Mutant: a script that is there already, as it should be, is not written again.
PutOnce(p, f) == file' = IF open[p] /\ seen[p] # f THEN [file EXCEPT ![op[p].name] = f] ELSE file

\* What it writes is seen only if the file was not removed in the meantime.  The
\* rest of a longer script, if another install wrote one, stays behind the exec.
Put(p, f) == file' = IF open[p] THEN [file EXCEPT ![op[p].name] = f] ELSE file

Write(p) ==
  /\ Goto(p, "write", "done")
  /\ Put(p, Script(p))
  /\ UNCHANGED <<exec, op, seen, target, open, todo, ran>>

\* What a part of p's script, or nothing of it, makes of the file f it is written
\* over: f may be empty or what another install wrote, all or a part.
Overwritten(p, f) ==
  LET targets == {target[p], f.target} \ {None}
      modes == {Script(p).mode, f.mode}
  IN {f, File("stub")}
       \cup [kind : {"cut"}, target : targets, mode : modes \cup {None}]
       \cup [kind : {"whole"} \cap {f.kind}, target : targets, mode : modes]

\* The disk takes no more.
WriteFails(p) ==
  /\ Goto(p, "write", "broken")
  /\ \E f \in Overwritten(p, file[op[p].name]) : Put(p, f)
  /\ UNCHANGED <<exec, op, seen, target, open, todo, ran>>

\* os.Remove takes whatever stands there now.
Remove(p) ==
  LET n == op[p].name IN
  /\ Goto(p, "uninstall", IF Exists(file[n]) THEN "done" ELSE "failed")
  /\ file' = [file EXCEPT ![n] = File("absent")]
  /\ open' = [q \in Procs |-> open[q] /\ (op[q] = None \/ op[q].name # n)]
  /\ UNCHANGED <<exec, op, seen, target, todo, ran>>

-----------------------------------------------------------------------------
(* hooks list *)

ReadDir(p) ==
  /\ Goto(p, "readdir", "list")
  /\ todo' = [todo EXCEPT ![p] = {n \in Names : Exists(file[n])}]
  /\ UNCHANGED <<file, exec, op, seen, target, open, ran>>

\* Each entry is opened and read; one that is gone or too long ends the list.
ReadEntry(p) ==
  \E n \in todo[p] :
    /\ Goto(p, "list", IF Exists(file[n]) /\ Readable(file[n]) THEN "list" ELSE "failed")
    /\ todo' = [todo EXCEPT ![p] = @ \ {n}]
    /\ seen' = [seen EXCEPT ![p] = file[n]]
    /\ UNCHANGED <<file, exec, op, target, open, ran>>

ListDone(p) ==
  /\ todo[p] = {} /\ Goto(p, "list", "done")
  /\ UNCHANGED <<file, exec, op, seen, target, open, todo, ran>>

-----------------------------------------------------------------------------
(* A command is invoked *)

\* The shell looks the command up: its script, or the binary itself.
Find(p) ==
  LET found == LookPath(op[p]) IN
  /\ Goto(p, "find", CASE found = "shim" -> "script" [] found = "real" -> "done" [] OTHER -> "failed")
  /\ ran' = [ran EXCEPT ![p] = IF found = "real" THEN "ungated" ELSE None]
  /\ UNCHANGED <<file, exec, op, seen, target, open, todo>>

Found(p) == file[op[p].name]
Runnable(p) == Exists(Found(p)) /\ exec[op[p].name]

\* The shell reads the script and runs datafog-shim run with its target and mode.
ReadScript(p) ==
  /\ pc[p] = "script" /\ Runnable(p) /\ Found(p).target # None
  /\ Goto(p, "script", "gate")
  /\ seen' = [seen EXCEPT ![p] = Found(p)]
  /\ UNCHANGED <<file, exec, op, target, open, todo, ran>>

\* Mutant: the target is looked up when the command runs.
RunTargetByName(p) ==
  /\ pc[p] = "gate"
  /\ Goto(p, "gate", IF LookPath(op[p]) = "shim" THEN "script" ELSE "done")
  /\ ran' = [ran EXCEPT ![p] = IF LookPath(op[p]) = "shim" THEN @ ELSE ModeOf(op[p], seen[p].mode)]
  /\ UNCHANGED <<file, exec, op, seen, target, open, todo>>

\* The gate lets the target through.  A target that is the script itself starts all over.
RunTarget(p) ==
  /\ pc[p] = "gate"
  /\ Goto(p, "gate", IF seen[p].target = "shim" THEN "script" ELSE "done")
  /\ ran' = [ran EXCEPT ![p] = IF seen[p].target = "shim" THEN @ ELSE ModeOf(op[p], seen[p].mode)]
  /\ UNCHANGED <<file, exec, op, seen, target, open, todo>>

\* The gate blocks it.
RunBlocked(p) ==
  /\ Goto(p, "gate", "failed")
  /\ UNCHANGED <<file, exec, op, seen, target, open, todo, ran>>

\* There is no last command to run, or no file any more.
RunNothing(p) ==
  /\ pc[p] = "script" /\ (Found(p).target = None \/ ~Runnable(p))
  /\ Goto(p, "script", IF Runnable(p) THEN "done" ELSE "failed")
  /\ ran' = [ran EXCEPT ![p] = IF Managed(Found(p)) \/ Found(p).kind = "empty" THEN "nothing" ELSE "foreign"]
  /\ UNCHANGED <<file, exec, op, seen, target, open, todo>>

-----------------------------------------------------------------------------
\* Another program puts a file of its own where there is none.
Plant(n) ==
  /\ ~Exists(file[n])
  /\ \E f \in {File("foreign"), File("long")}, x \in BOOLEAN :
       file' = [file EXCEPT ![n] = f] /\ exec' = [exec EXCEPT ![n] = x]
  /\ UNCHANGED <<pc, op, seen, target, open, todo, ran>>

Invoke(p) == Find(p) \/ ReadScript(p) \/ RunTarget(p) \/ RunBlocked(p) \/ RunNothing(p)

Step(p) ==
  \/ Which(p) \/ Resolve(p) \/ Look(p) \/ Truncate(p) \/ Write(p) \/ WriteFails(p) \/ Remove(p)
  \/ ReadDir(p) \/ ReadEntry(p) \/ ListDone(p) \/ Invoke(p)

Next ==
  \/ \E p \in Procs : Start(p) \/ Step(p)
  \/ \E n \in Names : Plant(n)

\* A process may be killed, which is to stop anywhere; only the shell and the gate
\* of an invoked command are bound to go on.
Spec == Init /\ [][Next]_vars
FairSpec == Spec /\ \A p \in Procs : WF_vars(Invoke(p))
-----------------------------------------------------------------------------
(* Properties *)

OpsOK ==
  /\ op \in [Procs -> (UNION {Ops[p] : p \in Procs}) \cup {None}]
  /\ \A p \in Procs : op[p] \in Ops[p] \cup {None}

FilesOK ==
  /\ file \in [Names -> Files] /\ exec \in [Names -> BOOLEAN]
  /\ seen \in [Procs -> Files \cup {None}] /\ target \in [Procs -> {"real", "shim", None}]

ProcsOK ==
  /\ pc \in [Procs -> {"idle", "which", "resolve", "look", "install", "write", "uninstall", "readdir",
                       "list", "find", "script", "gate", "done", "failed", "broken"}]
  /\ open \in [Procs -> BOOLEAN] /\ todo \in [Procs -> SUBSET Names]
  /\ ran \in [Procs -> Modes \cup {"ungated", "foreign", "nothing", None}]

\* Every variable stays in its range.
TypeOK == OpsOK /\ FilesOK /\ ProcsOK

\* A file of somebody else is overwritten or removed only by force, or if it
\* took the place of what the process saw when it looked.
ForeignIsSpared ==
  [][\A n \in Names : ~Managed(file[n]) /\ file[n].kind \in {"foreign", "long"} /\ file'[n] # file[n] =>
       \E p \in Procs : /\ pc'[p] # pc[p] /\ op[p] # None /\ op[p].name = n
                        /\ op[p].force \/ seen[p].kind # file[n].kind]_vars

\* A part of a script stands only where an install is still writing, or one has
\* stopped or failed while it did: install, uninstall and invocations that run
\* side by side leave nothing broken behind.
PartsHaveACulprit ==
  \A n \in Names : file[n].kind \in {"empty", "stub", "cut"} =>
    \E p \in Procs : op[p] # None /\ op[p].do = "install" /\ op[p].name = n /\ pc[p] \in {"write", "broken"}

\* A script that wraps itself was installed by a process that was told to, with the
\* script as the target, or by one that looked the command up with the shim
\* directory on its PATH, ahead or for want of a binary: an install whose target
\* is the binary, or that looked it up elsewhere, never comes to point back.
SelfWrapHasACause ==
  \A n \in Names : file[n].target = "shim" =>
    \E p \in Procs : /\ op[p] # None /\ op[p].do = "install" /\ op[p].name = n
                     /\ \/ op[p].target = "shim"
                        \/ /\ op[p].target \in {"name", "which"}
                           /\ op[p].path = "ahead" \/ (op[p].path = "behind" /\ n \notin Real)

\* A command is let through in spite of a denial (observe) only if its own
\* environment asks for that or, where it says nothing, an install of it was
\* asked to by an option or, without the option, by its environment.
ObserveIsAskedFor ==
  \A p \in Procs : ran[p] = "observe" =>
    \/ op[p].env = "observe"
    \/ /\ op[p].env = None
       /\ \E q \in Procs : /\ op[q] # None /\ op[q].do = "install" /\ op[q].name = op[p].name
                           /\ "observe" \in {op[q].mode} \cup (IF op[q].mode = None THEN {op[q].env} ELSE {})

\* An invoked command comes to an end, unless its script wraps itself, whatever
\* is installed and removed meanwhile.
InvocationsEnd ==
  \A p \in Procs : pc[p] = "script" ~>
    \/ pc[p] \in {"done", "failed"}
    \/ pc[p] = "gate" /\ seen[p].target = "shim"

\* datafog-claude-ux-spec.md:43: the flow is deterministic even if the shim is
\* already installed, so a script leads to the command's binary.
ScriptsReachTheirBinary == \A n \in Names : file[n].target # "shim"
=============================================================================
