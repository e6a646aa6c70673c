------------------------------- MODULE RuleStore -------------------------------
(***************************************************************************)
(* The rule engine of rules.py and the tools that install and revoke rules *)
(* (tools/rules.py).  Each daemon keeps its rules in memory and rewrites   *)
(* rules.json, one file for all daemons of the user, on every mutation;    *)
(* it reads the file once, when it starts.                                 *)
(*                                                                         *)
(* Tools (one call at a time) and the reaper meet at the engine's lock.    *)
(* What runs under the lock is one step.  A time read before the lock is   *)
(* taken and used under it (add, reap_expired) is a step of its own.       *)
(* match_for only reads: HookTraffic has it.                               *)
(*                                                                         *)
(* A tool call installs one rule, its "only" half, or, auto_token_relay,   *)
(* two: "extract", then "inject".  A rule is its id; what it matches and   *)
(* does is left out.  A rule without ttl, or one that outlives the model,  *)
(* expires beyond MaxTime.                                                 *)
(***************************************************************************)
EXTENDS Naturals

CONSTANTS
  Daemons,
  SingleCalls,   \* calls of the tools that install one rule
  RelayCalls,    \* calls of auto_token_relay
  Ttls,          \* the ttl_seconds asked for; at most MAX_TTL_SECONDS each
  MaxTime,       \* bound on the clock
  SaveMayFail,   \* whether rewriting rules.json may fail
  LoadMayFail    \* whether reading it may

ASSUME RuleAssumption ==
  /\ SingleCalls \cap RelayCalls = {}
  /\ Ttls \subseteq Nat \ {0}
  /\ MaxTime \in Nat \ {0}
  /\ SaveMayFail \in BOOLEAN
  /\ LoadMayFail \in BOOLEAN

RuleId == (SingleCalls \X {"only"}) \cup (RelayCalls \X {"extract", "inject"})

VARIABLES
  now,       \* time.time(), from 1 on
  expires,   \* expires[i]: expires_ts of rule i
  file,      \* rules.json
  up,        \* up[d]: daemon d runs
  mem,       \* mem[d]: _rules
  tool,      \* tool[d]: the rules a call on d has yet to add, in order
  reapAt,    \* reapAt[d]: the time d's reaper read before the lock, or 0
  fate       \* fate[i]: what the tools' callers know of i (history variable)

vars == <<now, expires, file, up, mem, tool, reapAt, fate>>

\* unborn: never added; unsaved: added, but add raised; saved: added;
\* doomed: a revocation was tried and raised; revoked: a revocation returned;
\* overlooked: added, but a daemon started without having read it.
Fate == {"unborn", "unsaved", "saved", "doomed", "revoked", "overlooked"}

\* A call under way: the rules it has yet to add, with the ttl it was given and
\* the expiry computed for the next one.
Idle == [todo |-> {}, ttl |-> 0, until |-> 0]

RuleTypeOK ==
  /\ now \in 1..MaxTime
  /\ expires \in [RuleId -> Nat]
  /\ file \subseteq RuleId
  /\ up \in [Daemons -> BOOLEAN]
  /\ mem \in [Daemons -> SUBSET RuleId]
  /\ tool \in [Daemons -> [todo : SUBSET RuleId, ttl : Nat, until : Nat]]
  /\ reapAt \in [Daemons -> 0..MaxTime]
  /\ fate \in [RuleId -> Fate]

RuleInit ==
  /\ now = 1
  /\ expires = [i \in RuleId |-> 0]
  /\ file = {}
  /\ up = [d \in Daemons |-> FALSE]
  /\ mem = [d \in Daemons |-> {}]
  /\ tool = [d \in Daemons |-> Idle]
  /\ reapAt = [d \in Daemons |-> 0]
  /\ fate = [i \in RuleId |-> "unborn"]

Tick ==
  /\ now < MaxTime
  /\ now' = now + 1
  /\ UNCHANGED <<expires, file, up, mem, tool, reapAt, fate>>

\* Rule.is_expired at time t.
IsExpired(i, t) == t >= expires[i]

\* What becomes known of the rules in S.
Becomes(S, f) == fate' = [i \in RuleId |-> IF i \in S THEN f ELSE fate[i]]

\* What load makes of rules.json: all of its rules; those that still parse; or, the
\* file being unreadable or misshapen, none.
Legible == IF LoadMayFail THEN SUBSET file ELSE {file}

\* Mutant of Load: a rule in its last second is dropped.
LoadDropsEarly(S) == {i \in S : expires[i] > now + 1}

\* The rules a daemon starts with, S being legible: those not expired.
Load(S) == {i \in S : ~IsExpired(i, now)}

\* A daemon starts: RuleEngine.__init__ loads the file and does not rewrite it.
\* What it could not read is lost with its first save.
Start(d) ==
  /\ ~up[d]
  /\ up' = [up EXCEPT ![d] = TRUE]
  /\ \E S \in Legible :
       /\ mem' = [mem EXCEPT ![d] = Load(S)]
       /\ Becomes({i \in file \ S : fate[i] = "saved"}, "overlooked")
  /\ UNCHANGED <<now, expires, file, tool, reapAt>>

\* A daemon stops or dies.  stop saves nothing; an os.replace that has not
\* happened leaves the file as it was.
End(d) ==
  /\ up[d]
  /\ up' = [up EXCEPT ![d] = FALSE]
  /\ mem' = [mem EXCEPT ![d] = {}]
  /\ tool' = [tool EXCEPT ![d] = Idle]
  /\ reapAt' = [reapAt EXCEPT ![d] = 0]
  /\ UNCHANGED <<now, expires, file, fate>>

\* _save_locked, the memory being S: the file is replaced, or it raises.
Saves(S) == file' = S
SaveRaises == SaveMayFail /\ UNCHANGED file

\* Every rule ever added and not revoked.
Standing == {i \in RuleId : fate[i] \in {"unsaved", "saved", "doomed", "overlooked"}}

-------------------------------------------------------------------------------
(* The tools.                                                               *)

\* The rules of a call.
Halves(c) == IF c \in RelayCalls THEN {<<c, "extract">>, <<c, "inject">>}
                                 ELSE {<<c, "only">>}

\* A tool is called: arguments are validated, add computes the expiry.
Request(d, c, ttl) ==
  /\ up[d] /\ tool[d] = Idle
  /\ \A i \in Halves(c) : fate[i] = "unborn"
  /\ \A e \in Daemons : tool[e].todo \cap Halves(c) = {}
  /\ tool' = [tool EXCEPT ![d] = [todo |-> Halves(c), ttl |-> ttl, until |-> now + ttl]]
  /\ UNCHANGED <<now, expires, file, up, mem, reapAt, fate>>

\* Mutant of NextRule: the halves of a relay are added in any order.
NextRuleAny(todo) == todo

\* The rule a call adds next: of a relay, the extract half comes first.
NextRule(todo) ==
  {i \in todo : i[2] = "inject" => <<i[1], "extract">> \notin todo}

\* What is left of a call that has added i.
AfterInsert(t, i) ==
  IF t.todo = {i} THEN Idle
  ELSE [todo |-> t.todo \ {i}, ttl |-> t.ttl, until |-> now + t.ttl]

\* add, under the lock: memory first, then the file.  When the save raises the
\* call ends there; neither half of a relay is rolled back (only a ValueError
\* is caught, which auto_token_relay's validation has ruled out).
Insert(d, i) ==
  /\ i \in NextRule(tool[d].todo)
  /\ expires' = [expires EXCEPT ![i] = tool[d].until]
  /\ mem' = [mem EXCEPT ![d] = @ \cup {i}]
  /\ \/ /\ Saves(mem[d] \cup {i})
        /\ Becomes({i}, "saved")
        /\ tool' = [tool EXCEPT ![d] = AfterInsert(tool[d], i)]
     \/ /\ SaveRaises
        /\ Becomes({i}, "unsaved")
        /\ tool' = [tool EXCEPT ![d] = Idle]
  /\ UNCHANGED <<now, up, reapAt>>

\* Mutant of Remove: the file is not rewritten.
RemoveUnsaved(d, i) ==
  /\ up[d] /\ tool[d] = Idle
  /\ i \in mem[d]
  /\ mem' = [mem EXCEPT ![d] = @ \ {i}]
  /\ Becomes({i}, "revoked")
  /\ UNCHANGED <<now, expires, file, up, tool, reapAt>>

\* remove_rule of a rule in memory (of any other it does nothing).
Remove(d, i) ==
  /\ up[d] /\ tool[d] = Idle
  /\ i \in mem[d]
  /\ mem' = [mem EXCEPT ![d] = @ \ {i}]
  /\ \/ Saves(mem[d] \ {i}) /\ Becomes({i}, "revoked")
     \/ SaveRaises /\ Becomes({i}, "doomed")
  /\ UNCHANGED <<now, expires, up, tool, reapAt>>

\* clear_rules.
Clear(d) ==
  /\ up[d] /\ tool[d] = Idle
  /\ mem' = [mem EXCEPT ![d] = {}]
  /\ \/ Saves({}) /\ Becomes(Standing, "revoked")
     \/ SaveRaises /\ Becomes(Standing, "doomed")
  /\ UNCHANGED <<now, expires, up, tool, reapAt>>

-------------------------------------------------------------------------------
(* The reaper.                                                              *)

\* Mutant of BeginReap: the clock is read ahead.
BeginReapEarly(d) ==
  /\ up[d] /\ reapAt[d] = 0
  /\ reapAt' = [reapAt EXCEPT ![d] = now + 1]
  /\ UNCHANGED <<now, expires, file, up, mem, tool, fate>>

\* reap_expired reads the clock, then takes the lock.
BeginReap(d) ==
  /\ up[d] /\ reapAt[d] = 0
  /\ reapAt' = [reapAt EXCEPT ![d] = now]
  /\ UNCHANGED <<now, expires, file, up, mem, tool, fate>>

\* Mutant of Reap: the file is written before the memory is touched.
ReapSavesFirst(d) ==
  /\ reapAt[d] # 0
  /\ LET stale == {i \in mem[d] : IsExpired(i, reapAt[d])} IN
       \/ stale = {} /\ UNCHANGED <<file, mem>>
       \/ /\ stale # {} /\ Saves(mem[d] \ stale)
          /\ mem' = [mem EXCEPT ![d] = @ \ stale]
       \/ stale # {} /\ SaveRaises /\ UNCHANGED mem
  /\ reapAt' = [reapAt EXCEPT ![d] = 0]
  /\ UNCHANGED <<now, expires, up, tool, fate>>

\* Without a stale rule nothing is written.  A save that raises is logged by
\* _reap_loop; the rules are gone from memory all the same.
Reap(d) ==
  /\ reapAt[d] # 0
  /\ LET stale == {i \in mem[d] : IsExpired(i, reapAt[d])} IN
       /\ mem' = [mem EXCEPT ![d] = @ \ stale]
       /\ \/ stale = {} /\ UNCHANGED file
          \/ stale # {} /\ Saves(mem[d] \ stale)
          \/ stale # {} /\ SaveRaises
  /\ reapAt' = [reapAt EXCEPT ![d] = 0]
  /\ UNCHANGED <<now, expires, up, tool, fate>>

-------------------------------------------------------------------------------
ToolStep(d) ==
  \/ \E c \in SingleCalls \cup RelayCalls, ttl \in Ttls : Request(d, c, ttl)
  \/ \E i \in RuleId : Insert(d, i) \/ Remove(d, i)
  \/ Clear(d)

ReaperStep(d) == BeginReap(d) \/ Reap(d)

RuleNext ==
  \/ Tick
  \/ \E d \in Daemons :
       \/ Start(d) \/ End(d)
       \/ ToolStep(d) \/ ReaperStep(d)

RuleSpec == RuleInit /\ [][RuleNext]_vars

\* _reap_loop wakes every reap_interval_seconds and survives an exception.
RuleFairSpec == RuleSpec /\ \A d \in Daemons : WF_vars(ReaperStep(d))

-------------------------------------------------------------------------------
\* The following hold for one daemon.

\* No installed rule is lost but by a load that does not read it: a rule whose add
\* returned is in rules.json and in the memory of a running daemon until it expires,
\* its revocation is tried, or a daemon starts that finds it illegible (rules.py:256,
\* 266); through crashes, restarts, the reaper's stale clock, and failed saves of
\* other mutations.
SavedSurvives ==
  \A i \in RuleId : fate[i] = "saved" /\ ~IsExpired(i, now) =>
    /\ i \in file
    /\ \A d \in Daemons : up[d] => i \in mem[d]

\* A revoked rule stays revoked: neither a later save, nor a restart, nor a
\* failed save before or after brings it back.
RevokedIsGone ==
  \A i \in RuleId : fate[i] = "revoked" =>
    i \notin file /\ \A d \in Daemons : i \notin mem[d]

\* The inject half of a relay is never in force without the extract half that
\* feeds it, except by revoking the latter, by its expiring first, or by a load that
\* reads one and not the other.
InjectHasExtract ==
  \A c \in RelayCalls :
    LET ext == <<c, "extract">>
        inj == <<c, "inject">> IN
    inj \in file =>
      \/ ext \in file
      \/ fate[ext] \in {"doomed", "revoked", "overlooked"}
      \/ fate[ext] = "saved" /\ IsExpired(ext, now)

\* An expired rule leaves the memory of a daemon that goes on running.
ExpiredIsReaped ==
  \A d \in Daemons, i \in RuleId :
    (i \in mem[d] /\ IsExpired(i, now)) ~> i \notin mem[d]

\* Why they hold: a daemon that is down remembers nothing; the reaper's clock is
\* never ahead; a rule is nowhere before it is added; and of a relay, the second
\* half is not taken up before the first is in the file.
DownIsBlank ==
  \A d \in Daemons : ~up[d] => mem[d] = {} /\ tool[d].todo = {} /\ reapAt[d] = 0

ReapsThePast == \A d \in Daemons : reapAt[d] <= now

UnbornIsNowhere ==
  \A i \in RuleId : fate[i] = "unborn" =>
    i \notin file /\ \A d \in Daemons : i \notin mem[d]

TodoIsUnborn == \A d \in Daemons : \A i \in tool[d].todo : fate[i] = "unborn"

ExtractFirst ==
  \A c \in RelayCalls :
    LET ext == <<c, "extract">>
        inj == <<c, "inject">> IN
    \/ fate[inj] # "unborn"
    \/ \E d \in Daemons : inj \in tool[d].todo /\ ext \notin tool[d].todo
    => fate[ext] \in {"saved", "doomed", "revoked", "overlooked"}

RuleInv ==
  /\ DownIsBlank /\ ReapsThePast /\ UnbornIsNowhere /\ TodoIsUnborn /\ ExtractFirst
  /\ SavedSurvives /\ RevokedIsGone
===============================================================================
