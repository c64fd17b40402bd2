------------------------- MODULE MCPolicyEvaluation -------------------------
(* A small policy vocabulary: nine rules, each with a condition of its own,  *)
(* every file of up to three of them, and the requests that tell them apart. *)
EXTENDS PolicyEvaluation

MCNames == {"", "a", "b", "c", "d", "e", "f", "g", "h", "i", "deny", "allow", "transform",
            "allow_with_redaction", "audit", "command.exec", "file.read", "git", "Git",
            "vcs", "custom", "push", "email", "EMAIL", "ssn", "mask", "hash", "why", "/src"}
MCFold == [n \in MCNames |-> CASE n = "Git" -> "git" [] n = "EMAIL" -> "email" [] OTHER -> n]
MCRegistry == [n \in MCNames |-> IF n \in {"git", "vcs"} THEN "vcs" ELSE ""]

Plain(id, priority, effect) ==
  [id |-> id, description |-> "", priority |-> priority, effect |-> effect,
   types |-> {}, tools |-> {}, commands |-> {}, args |-> {}, adapters |-> {},
   prefixes |-> {}, sensitiveOnly |-> FALSE, needs |-> {}, transforms |-> <<>>]

Menu == {
  Plain("a", 1, "allow"),
  [Plain("b", 2, "deny") EXCEPT !.description = "mask", !.needs = {"EMAIL", "ssn"}],
  [Plain("c", 1, "deny") EXCEPT !.description = "why", !.types = {"command.exec"}, !.adapters = {"vcs"}],
  [Plain("d", 2, "transform") EXCEPT !.transforms = << <<"email", "mask">> >>, !.needs = {"email"}],
  [Plain("e", 1, "transform") EXCEPT !.transforms = << <<"email", "hash">> >>, !.prefixes = {<<"/src">>}],
  [Plain("f", 0, "allow_with_redaction") EXCEPT !.tools = {"git"}, !.sensitiveOnly = TRUE],
  [Plain("g", 2, "transform") EXCEPT !.commands = {"push"}, !.args = {"push"}],
  [Plain("i", 0, "allow") EXCEPT !.adapters = {"custom"}, !.needs = {"email"}],
  [Plain("h", 1, "audit") EXCEPT !.types = {"file.read"}] }

MCPolicies ==
  {[id |-> "p", version |-> v, rules |-> rs] :
     v \in {"1"}, rs \in UNION {[1..n -> Menu] : n \in 0..3}}

Act(type, tool) ==
  [type |-> type, tool |-> tool, command |-> "", args |-> {}, sensitive |-> FALSE, resource |-> <<>>]

Actions == {
  Act("", "git"),
  Act("command.exec", "Git"),
  [Act("command.exec", "git") EXCEPT !.command = "push", !.args = {"push", "mask"}, !.sensitive = TRUE],
  [Act("file.read", "") EXCEPT !.resource = <<"/src", "a">>],
  [Act("command.exec", "custom") EXCEPT !.sensitive = TRUE] }

MCRequests == [action : Actions, findings : {{}, {"email"}, {"EMAIL", "ssn"}}]
=============================================================================
