----------------------------- MODULE CaptureWaitMC -----------------------------
(* Call c1 waits for any capture, c2 for those with an even id.              *)
EXTENDS CaptureWait

MCMatches == {m \in Calls \X Record : m[1] = "c1" \/ m[2].ob % 2 = 0}
===============================================================================
