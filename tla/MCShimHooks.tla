----------------------------- MODULE MCShimHooks -----------------------------
(* Processes that install, remove, list and invoke the same command.        *)
EXTENDS ShimHooks, TLC

CONSTANT git

O(do, target_, mode, force, env, path) ==
  [do |-> do, name |-> git, target |-> target_, mode |-> mode, force |-> force, env |-> env, path |-> path]

Installs == {
  O("install", "real", None, FALSE, None, "off"),
  O("install", "real", "observe", TRUE, None, "off"),
  O("install", "which", None, TRUE, None, "ahead"),
  O("install", "which", "enforced", FALSE, "observe", "off"),
  O("install", "name", None, FALSE, "observe", "behind"),
  O("install", "shim", None, TRUE, None, "off")}
Uninstalls == {
  O("uninstall", "name", None, FALSE, None, "off"),
  O("uninstall", "name", None, TRUE, None, "off")}
Lists == {O("list", "name", None, FALSE, None, "off")}
Invokes == {
  O("invoke", "name", None, FALSE, None, "ahead"),
  O("invoke", "name", None, FALSE, "observe", "behind"),
  O("invoke", "name", None, FALSE, "enforced", "ahead")}

MCOps == (1 :> Installs) @@ (2 :> Uninstalls \cup Installs) @@ (3 :> Lists \cup Invokes)

\* What the setup scripts do, before and after the shim directory is on the PATH.
SetupInstalls == {
  O("install", "which", mode, TRUE, None, path) : mode \in Modes, path \in {"ahead", "off"}}
SetupOps == (1 :> SetupInstalls) @@ (2 :> Uninstalls \cup SetupInstalls) @@ (3 :> Lists \cup Invokes)

\* A shim directory that is empty at first and that no other program writes into.
SetupSpec ==
  /\ Init /\ \A n \in Names : ~Exists(file[n])
  /\ [][\E p \in Procs : Start(p) \/ Step(p)]_vars
=============================================================================
