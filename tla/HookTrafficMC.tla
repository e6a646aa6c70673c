----------------------------- MODULE HookTrafficMC -----------------------------
(* Two exchanges, a token handed from the first's response to the second's     *)
(* request, a rule that edits that response, a block on the first's request    *)
(* (which leaves only if its hook gets no answer), and dry-run rules that would *)
(* block, edit and store if they were not.  Of the rules for the response two  *)
(* or three fit the frame.                                                     *)
EXTENDS HookTraffic

RuleOf(kind, side, on, size) ==
  [kind |-> kind, side |-> side, on |-> on, dry |-> FALSE, statuses |-> {},
   size |-> size, name |-> "n", ttl |-> 1]
Dry(r) == [r EXCEPT !.dry = TRUE]

Extract == RuleOf("relay_extract", "response", {"x"}, 2)
Patch == [RuleOf("patch_field", "response", {"x"}, 3) EXCEPT !.statuses = {404}]
DryExtract == Dry(RuleOf("relay_extract", "response", {"x"}, 1))
DryPatch == Dry(RuleOf("patch_field", "response", {"x"}, 1))
Inject == RuleOf("relay_inject", "request", {"y"}, 2)
Block == RuleOf("block", "request", {"x"}, 2)
DryBlock == Dry(RuleOf("block", "request", {"x"}, 3))

MCRules == {Extract, Patch, DryExtract, DryPatch, Inject, Block, DryBlock}
MCFirst == <<Patch, Extract, DryExtract, Inject, Block, DryBlock>>
MCRevocable == {DryExtract}
MCStatus == [x \in {"x", "y"} |-> 404]
===============================================================================
