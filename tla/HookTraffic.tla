------------------------------ MODULE HookTraffic ------------------------------
(***************************************************************************)
(* Traffic through the hook script (hook/template/addons.py) and the daemon*)
(* that serves it (daemon.py, rules.py, dry_run.py, relay.py).             *)
(*                                                                         *)
(* An exchange is a request and, once it has left for its server, its      *)
(* response.  Reqable runs one hook process per message.  The hook asks the*)
(* daemon which rules apply and then carries out a plan, a set of entries  *)
(* that it takes in the order Before; an entry may need one more call to   *)
(* the daemon.  A call is one connection: the daemon's handler carries it  *)
(* out, or does so only after the hook gave up (SOCKET_TIMEOUT_S), or      *)
(* never, when the daemon is down or dies.  The daemon's tools install and *)
(* remove rules meanwhile.                                                 *)
(*                                                                         *)
(* Of a rule the record keeps its kind, side, dry_run, status bounds, the  *)
(* exchanges whose host, method and path it matches, its size on the wire, *)
(* and for the relay kinds the token's name and ttl.  Patches and regexes  *)
(* may find nothing to change; what they do to a body is RuleTools's.      *)
(***************************************************************************)
EXTENDS RelayStore, SequencesExt

CONSTANTS
  Exchanges,
  Status,         \* Status[x]: code of x's response; 0 if it is no int
  Answered,       \* the exchanges whose server answers
  Bearers,        \* the exchanges whose response carries a token
  Rules,
  FirstRules,     \* the rules installed when the model begins, oldest first
  Budget,         \* _IPC_RULE_PAYLOAD_BUDGET
  PerRuleLimit, TotalRulesLimit,
  Revocable,      \* bound: the rules that may be withdrawn
  MayCrash,       \* whether the daemon may end and start again
  Doctored        \* a token read from a message another rule has edited

Messages == (Exchanges \X {"request"}) \cup (Answered \X {"response"})

ASSUME HookAssumption ==
  /\ IsFiniteSet(Exchanges) /\ IsFiniteSet(Rules)
  /\ Exchanges \cup {Doctored} \subseteq Values /\ Doctored \notin Exchanges
  /\ Answered \subseteq Exchanges /\ Bearers \subseteq Answered
  /\ Status \in [Exchanges -> Nat]
  /\ FirstRules \in Seq(Rules) /\ IsInjective(FirstRules)
  /\ Budget \in Nat /\ PerRuleLimit \in Nat /\ TotalRulesLimit \in Nat
  /\ Revocable \subseteq Rules /\ MayCrash \in BOOLEAN

\* What RuleEngine.add has made sure of.
ASSUME RulesAreValid ==
  \A r \in Rules :
    /\ r.on \subseteq Exchanges /\ r.size \in Nat /\ r.dry \in BOOLEAN
    /\ r.kind \in {"block", "relay_inject"} => r.side = "request"
    /\ r.kind \in {"mock", "relay_extract"} \/ r.statuses # {} => r.side = "response"
    /\ r.kind \in {"relay_inject", "relay_extract"} => r.name \in Names /\ r.ttl \in Ttls

IsBlock(r) == r.kind = "block"
IsRealBlock(r) == IsBlock(r) /\ ~r.dry
IsDryBlock(r) == IsBlock(r) /\ r.dry
IsNoBlock(r) == ~IsBlock(r)

\* What the rules of S take in the frame: each its size, and a comma.  (What is
\* beyond the budget of a rule that is larger by itself need not be counted.)
Bytes(S) == {b \in S \X (0..Budget) : b[2] <= b[1].size}

\* The block rules fit the frame: their payload is an id and a kind, and the
\* budget has room for some three thousand of them.
ASSUME BlocksFit == Cardinality(Bytes({r \in Rules : IsBlock(r)})) < Budget

VARIABLES
  (* the daemon *)
  up,
  installed,  \* the engine's rules
  hits,       \* hits[r], in memory
  born,       \* the rules ever installed, oldest first: the dictionary's order
  savedHits,  \* hits[r], as of the last rewrite of rules.json
  dryLog,     \* dryLog[r]: the messages in r's bucket, oldest first
  late,       \* calls whose hook gave up, still to be carried out
  (* the hook process of each message *)
  step,       \* the entry of its plan it is at; Idle before, Gone after
  rest,       \* the entries it has yet to come to
  call,       \* the call the hook waits for, or NoCall
  reply,      \* the daemon's reply to it, Unanswered, or Lost
  done,       \* the rules applied, to be reported as hits
  edits,      \* the rules that changed the message
  (* history *)
  matched,    \* the rules that matched when get_rules was answered
  got,        \* the answer to get_rules as the hook received it
  kept        \* the extract rules whose token of this message was stored

engineVars == <<installed, born, hits, savedHits>>
daemonVars == <<up, engineVars, dryLog>>
hookVars == <<step, rest, call, reply, done, edits, got>>
trafficVars == <<daemonVars, late, hookVars, matched, kept>>
hookTrafficVars == <<relayVars, trafficVars>>

\* The hook has not begun, asks for the rules, or is through.
Idle == [do |-> "idle"]
Asking == [do |-> "fetch"]
Left == [do |-> "left"]
Blocked == [do |-> "blocked"]
Gone == {Left, Blocked}

NoCall == [op |-> "none"]
Unanswered == [ok |-> "unanswered"]
Lost == [ok |-> "lost"]

HookInit ==
  /\ RelayInit
  /\ up = TRUE
  /\ installed = ToSet(FirstRules)
  /\ born = FirstRules
  /\ hits = [r \in Rules |-> 0]
  /\ savedHits = [r \in Rules |-> 0]
  /\ dryLog = [r \in Rules |-> <<>>]
  /\ late = {}
  /\ step = [m \in Messages |-> Idle]
  /\ rest = [m \in Messages |-> {}]
  /\ call = [m \in Messages |-> NoCall]
  /\ reply = [m \in Messages |-> Unanswered]
  /\ done = [m \in Messages |-> {}]
  /\ edits = [m \in Messages |-> {}]
  /\ matched = [m \in Messages |-> {}]
  /\ got = [m \in Messages |-> {}]
  /\ kept = [m \in Messages |-> {}]

-------------------------------------------------------------------------------
(* The daemon answers get_rules.                                            *)

\* Rule.matches: a rule with status bounds matches only a known status.
Matches(r, m) ==
  /\ r.side = m[2]
  /\ m[1] \in r.on
  /\ r.statuses # {} => m[2] = "response" /\ Status[m[1]] # 0 /\ Status[m[1]] \in r.statuses

\* Rule p stands before q in the engine's dictionary.
Older(p, q) == \E i, j \in DOMAIN born : i < j /\ born[i] = p /\ born[j] = q

\* Mutant of PackedBefore: the order of the dictionary.
PackedByAge(p, q) == Older(p, q)

\* Blocks first, then by size; the sort is stable.
PackedBefore(p, q) ==
  LET rank(r) == IF IsBlock(r) THEN 0 ELSE 1 IN
  \/ rank(p) < rank(q)
  \/ /\ rank(p) = rank(q)
     /\ p.size < q.size \/ (p.size = q.size /\ Older(p, q))

\* _pack_rules_for_ipc adds a rule if it fits after what is there already.
Fits(packed, r) == 2 + Cardinality(Bytes(packed)) + r.size <= Budget

\* What its loop over the rules S, in that order, makes of them: a rule is in the
\* answer if it fitted after those taken before it.
IsPacked(P, S) ==
  \A r \in S : r \in P <=> Fits({q \in P : PackedBefore(q, r)}, r)

Pack(S) == CHOOSE P \in SUBSET S : IsPacked(P, S)

\* get_rules: the installed rules that match; those expired were removed before.
Matching(m) == {r \in installed : Matches(r, m)}

-------------------------------------------------------------------------------
(* The plan of a hook process.                                              *)

\* Mutant of Order: an extract comes after the rules that edit the response.
OrderEditsFirst(side, kind) ==
  CASE kind = "relay_inject" -> 0
    [] kind = "inject_header" -> 1
    [] kind \in {"patch_field", "regex_replace", "replace_body", "mock"} -> 5
    [] OTHER -> 9

\* _REQUEST_KIND_ORDER and _RESPONSE_KIND_ORDER, which has no patch_multipart.
Order(side, kind) ==
  CASE kind \in {"relay_inject", "relay_extract"} -> 0
    [] kind = "inject_header" -> 1
    [] kind = "patch_field" -> 2
    [] kind = "patch_multipart" /\ side = "request" -> 2
    [] kind = "regex_replace" -> 3
    [] kind = "replace_body" -> 4
    [] kind = "mock" /\ side = "response" -> 5
    [] OTHER -> 9

\* The entries of a plan that are about one rule each.
Each(what, S) == {[do |-> what, rule |-> r] : r \in S}

\* The other entries: the hits of dry-run blocks are reported; those of the rules
\* applied, then the message leaves; those of the block rules, then it is aborted.
Credit(S) == [do |-> "credit", rules |-> S]
Leave == [do |-> "leave"]
Abort(S) == [do |-> "abort", rules |-> S]

\* When an entry's turn comes.
Stage(side, e) ==
  CASE e.do = "dry" -> 0
    [] e.do \in {"abort", "credit"} -> 1
    [] e.do = "apply" -> 2 + Order(side, e.rule.kind)
    [] OTHER -> 12

\* Entry e comes before f; among rules of one kind the order of the answer stays.
Before(side, e, f) ==
  \/ Stage(side, e) < Stage(side, f)
  \/ Stage(side, e) = Stage(side, f) /\ PackedBefore(e.rule, f.rule)

\* Mutant of Plan: a real block beside a dry one is not looked at.
PlanDryShields(S) ==
  LET real == {r \in S : IsRealBlock(r)}
      dry == {r \in S : IsDryBlock(r)}
      others == {r \in S : IsNoBlock(r)} IN
  IF real # {} /\ dry = {} THEN {Abort(real)}
  ELSE Each("dry", dry) \cup Each("apply", others) \cup {Leave}

\* What onRequest and onResponse do with the answer S: dry-run blocks are logged;
\* if a real block is left the message is aborted, otherwise their hits are
\* reported and the other rules applied.  (No block rule matches a response.)
Plan(S) ==
  LET real == {r \in S : IsRealBlock(r)}
      dry == {r \in S : IsDryBlock(r)}
      others == {r \in S : IsNoBlock(r)} IN
  Each("dry", dry) \cup
  IF real # {} THEN {Abort(real \cup dry)}
  ELSE (IF dry = {} THEN {} ELSE {Credit(dry)}) \cup Each("apply", others) \cup {Leave}

\* The token an extract rule finds in m's response: what the hook sees of it.
TokenSeen(m) ==
  IF \E r \in edits[m] : r.kind \notin {"tag", "comment"} THEN Doctored ELSE m[1]

\* Mutant of CallFor: a dry-run rule is applied like any other.
CallForDryAsReal(m) ==
  LET e == step[m]
      applies(kind) == e.do = "apply" /\ e.rule.kind = kind IN
  CASE e.do = "dry" -> [op |-> "report_dry_run", rule |-> e.rule]
    [] applies("relay_extract") /\ m[1] \in Bearers ->
         [op |-> "store_relay_value", rule |-> e.rule, val |-> TokenSeen(m)]
    [] applies("relay_inject") -> [op |-> "get_relay_value", rule |-> e.rule]
    [] e.do \in {"credit", "abort"} -> [op |-> "report_hit", rules |-> e.rules]
    [] e.do = "leave" /\ done[m] # {} -> [op |-> "report_hit", rules |-> done[m]]
    [] OTHER -> NoCall

\* The call that m's entry makes, if it makes one.
CallFor(m) ==
  LET e == step[m]
      applies(kind) == e.do = "apply" /\ e.rule.kind = kind /\ ~e.rule.dry IN
  CASE e.do = "dry" \/ (e.do = "apply" /\ e.rule.dry) ->
         [op |-> "report_dry_run", rule |-> e.rule]
    [] applies("relay_extract") /\ m[1] \in Bearers ->
         [op |-> "store_relay_value", rule |-> e.rule, val |-> TokenSeen(m)]
    [] applies("relay_inject") -> [op |-> "get_relay_value", rule |-> e.rule]
    [] e.do \in {"credit", "abort"} -> [op |-> "report_hit", rules |-> e.rules]
    [] e.do = "leave" /\ done[m] # {} -> [op |-> "report_hit", rules |-> done[m]]
    [] OTHER -> NoCall

Waits(m) == call[m] # NoCall

Busy(m) == step[m] \notin Gone \cup {Idle}

-------------------------------------------------------------------------------
(* The daemon carries out call c of message m.                              *)

\* The reply the handler writes.
ReplyTo(m, c) ==
  CASE c.op = "get_rules" -> [ok |-> "rules", rules |-> Pack(Matching(m))]
    [] c.op = "get_relay_value" -> [ok |-> "token", entry |-> Live[c.rule.name]]
    [] c.op = "store_relay_value" ->
         [ok |-> IF Accepts(c.rule.name, c.val, c.rule.ttl) THEN "yes" ELSE "no"]
    [] OTHER -> [ok |-> "yes"]

GetRules(m) ==
  /\ matched' = [matched EXCEPT ![m] = Matching(m)]
  /\ UNCHANGED <<relayVars, engineVars, dryLog, kept>>

\* record_hit: a rule that is gone counts nothing; nothing is saved.
ReportHit(S) ==
  /\ hits' = [r \in Rules |-> IF r \in S \cap installed THEN hits[r] + 1 ELSE hits[r]]
  /\ UNCHANGED <<relayVars, installed, born, savedHits, dryLog, matched, kept>>

StoreRelay(m, c) ==
  /\ Store(c.rule.name, c.val, c.rule.ttl)
  /\ kept' = IF Accepts(c.rule.name, c.val, c.rule.ttl)
             THEN [kept EXCEPT ![m] = @ \cup {c.rule}] ELSE kept
  /\ UNCHANGED <<engineVars, dryLog, matched>>

GetRelay(c) ==
  /\ Fetch(c.rule.name)
  /\ UNCHANGED <<engineVars, dryLog, matched, kept>>

\* DryRunLog.record: a full log takes no new rule; a full bucket drops its oldest.
RecordDryRun(m, r) ==
  LET buckets == {q \in Rules : dryLog[q] # <<>>}
      longer == Append(dryLog[r], m) IN
  /\ dryLog' = IF r \notin buckets /\ Cardinality(buckets) >= TotalRulesLimit THEN dryLog
               ELSE [dryLog EXCEPT ![r] =
                       IF Len(longer) > PerRuleLimit THEN Tail(longer) ELSE longer]
  /\ UNCHANGED <<relayVars, engineVars, matched, kept>>

Perform(m, c) ==
  \/ c.op = "get_rules" /\ GetRules(m)
  \/ c.op = "report_hit" /\ ReportHit(c.rules)
  \/ c.op = "store_relay_value" /\ StoreRelay(m, c)
  \/ c.op = "get_relay_value" /\ GetRelay(c)
  \/ c.op = "report_dry_run" /\ RecordDryRun(m, c.rule)

\* A handler carries out the call the hook waits for, and replies.
Handle(m) ==
  /\ up /\ Waits(m) /\ reply[m] = Unanswered
  /\ Perform(m, call[m])
  /\ reply' = [reply EXCEPT ![m] = ReplyTo(m, call[m])]
  /\ UNCHANGED <<up, late, step, rest, call, done, edits, got>>

\* It carries out a call nobody waits for any more.
HandleLate(m, c) ==
  /\ up /\ <<m, c>> \in late
  /\ Perform(m, c)
  /\ late' = late \ {<<m, c>>}
  /\ UNCHANGED <<up, hookVars>>

-------------------------------------------------------------------------------
(* The hook process of message m.                                           *)

\* _ipc_call: without a daemon behind the socket the call fails at once.
Calls(m, c) ==
  /\ call' = [call EXCEPT ![m] = c]
  /\ reply' = [reply EXCEPT ![m] = IF up THEN Unanswered ELSE Lost]

\* Reqable runs the hook on a request, or on the response of one that went out;
\* it asks for the rules.
Arrive(m) ==
  /\ step[m] = Idle
  /\ m[2] = "response" => step[<<m[1], "request">>] = Left
  /\ step' = [step EXCEPT ![m] = Asking]
  /\ Calls(m, [op |-> "get_rules"])
  /\ UNCHANGED <<relayVars, daemonVars, late, rest, done, edits, got, matched, kept>>

\* The hook's entry needs a call.
Ask(m) ==
  /\ Busy(m) /\ ~Waits(m)
  /\ CallFor(m) # NoCall /\ Calls(m, CallFor(m))
  /\ UNCHANGED <<relayVars, daemonVars, late, step, rest, done, edits, got, matched, kept>>

\* The hook goes to the first entry of todo.
GoesTo(m, todo) ==
  \E e \in todo :
    /\ \A f \in todo \ {e} : Before(m[2], e, f)
    /\ step' = [step EXCEPT ![m] = e]
    /\ rest' = [rest EXCEPT ![m] = todo \ {e}]

Ends(m, how) ==
  /\ step' = [step EXCEPT ![m] = how]
  /\ UNCHANGED rest

\* The hook is through with its entry.
Onward(m) ==
  \/ step[m].do = "abort" /\ Ends(m, Blocked)
  \/ step[m].do = "leave" /\ Ends(m, Left)
  \/ step[m].do \notin {"abort", "leave"} /\ GoesTo(m, rest[m])

\* Rule r has been applied to m; it changed the message, or only had its effect
\* in the daemon.
Applied(m, r, changed) ==
  /\ done' = [done EXCEPT ![m] = @ \cup {r}]
  /\ edits' = IF changed THEN [edits EXCEPT ![m] = @ \cup {r}] ELSE edits

NotApplied == UNCHANGED <<done, edits>>

MayMiss == {"patch_field", "patch_multipart", "regex_replace"}

\* An entry that needs no call.
Act(m) ==
  /\ Busy(m) /\ ~Waits(m)
  /\ CallFor(m) = NoCall
  /\ Onward(m)
  /\ LET e == step[m] IN
       \/ e.do = "apply" /\ e.rule.kind # "relay_extract" /\ Applied(m, e.rule, TRUE)
       \/ e.do = "apply" /\ e.rule.kind \in MayMiss \cup {"relay_extract"} /\ NotApplied
       \/ e.do # "apply" /\ NotApplied
  /\ UNCHANGED <<relayVars, daemonVars, late, call, reply, got, matched, kept>>

\* Mutant of Counts: an extract whose store failed counts as applied.
CountsAlways(e, res) == e.do = "apply"

\* Whether the rule of entry e counts as applied after its call gave res: a dry
\* run always, an extract if the daemon confirmed, an inject if it had a token.
Counts(e, res) ==
  /\ e.do = "apply"
  /\ \/ e.rule.dry
     \/ e.rule.kind = "relay_extract" /\ res.ok = "yes"
     \/ e.rule.kind = "relay_inject" /\ res.ok = "token" /\ res.entry # NoToken

\* The hook goes on with the outcome of its call: a reply, or None.
GoOn(m, res) ==
  LET e == step[m]
      rules == IF res.ok = "rules" THEN res.rules ELSE {} IN
  /\ call' = [call EXCEPT ![m] = NoCall]
  /\ reply' = [reply EXCEPT ![m] = Unanswered]
  /\ \/ /\ e = Asking
        /\ got' = [got EXCEPT ![m] = rules]
        /\ GoesTo(m, Plan(rules))
     \/ /\ e # Asking
        /\ Onward(m)
        /\ UNCHANGED got
  /\ IF Counts(e, res) THEN Applied(m, e.rule, e.rule.kind = "relay_inject" /\ ~e.rule.dry)
                       ELSE NotApplied
  /\ UNCHANGED <<relayVars, daemonVars, matched, kept>>

\* The reply is there in time.
Receive(m) ==
  /\ Waits(m) /\ reply[m] \notin {Unanswered, Lost}
  /\ GoOn(m, reply[m])
  /\ UNCHANGED late

\* Mutant of GiveUp: the socket has no timeout.
GiveUpNever(m) ==
  /\ Waits(m) /\ reply[m] = Lost
  /\ GoOn(m, Lost)
  /\ UNCHANGED late

\* Mutant of GiveUp: a dry-run report without a reply is sent once more.
GiveUpAndRetry(m) ==
  /\ Waits(m)
  /\ IF call[m].op = "report_dry_run" /\ reply[m] = Unanswered
     THEN /\ Calls(m, NoCall)
          /\ UNCHANGED <<relayVars, daemonVars, step, rest, done, edits, got, matched, kept>>
     ELSE GoOn(m, Lost)
  /\ late' = IF reply[m] = Unanswered /\ call[m].op \notin {"get_rules", "get_relay_value"}
             THEN late \cup {<<m, call[m]>>} ELSE late

\* It is not: refused, reset, or 0.3 s are over, whatever the daemon still does
\* with the call.  (A late question changes nothing.)
GiveUp(m) ==
  /\ Waits(m)
  /\ GoOn(m, Lost)
  /\ late' = IF reply[m] = Unanswered /\ call[m].op \notin {"get_rules", "get_relay_value"}
             THEN late \cup {<<m, call[m]>>} ELSE late

HookStep(m) == Ask(m) \/ Act(m) \/ Receive(m) \/ GiveUp(m)

-------------------------------------------------------------------------------
(* The rest of the daemon.                                                  *)

\* A tool installs a rule; rules.json is rewritten, hits included.
Install(r) ==
  /\ up /\ r \notin ToSet(born)
  /\ installed' = installed \cup {r}
  /\ born' = Append(born, r)
  /\ savedHits' = hits
  /\ UNCHANGED <<relayVars, up, hits, dryLog, late, hookVars, matched, kept>>

\* A rule is revoked, or expires.
Withdraw(r) ==
  /\ up /\ r \in installed \cap Revocable
  /\ installed' = installed \ {r}
  /\ savedHits' = hits
  /\ UNCHANGED <<relayVars, up, born, hits, dryLog, late, hookVars, matched, kept>>

\* clear_dry_run_log.
ClearLog(r) ==
  /\ up /\ dryLog[r] # <<>>
  /\ dryLog' = [dryLog EXCEPT ![r] = <<>>]
  /\ UNCHANGED <<relayVars, up, engineVars, late, hookVars, matched, kept>>

\* The daemon ends: relay, log and late calls with it; open calls are reset; the
\* hits of rules.json are what is left of them.
Crash ==
  /\ MayCrash /\ up
  /\ up' = FALSE
  /\ Wipe
  /\ hits' = savedHits
  /\ dryLog' = [r \in Rules |-> <<>>]
  /\ late' = {}
  /\ reply' = [m \in Messages |-> IF Waits(m) /\ reply[m] = Unanswered THEN Lost ELSE reply[m]]
  /\ UNCHANGED <<installed, born, savedHits, step, rest, call, done, edits, got,
                 matched, kept>>

Restart ==
  /\ ~up
  /\ up' = TRUE
  /\ UNCHANGED <<relayVars, engineVars, dryLog, late, hookVars, matched, kept>>

Background ==
  /\ Advance \/ (up /\ RelayReaper)
  /\ UNCHANGED trafficVars

HookNext ==
  \/ \E m \in Messages : Arrive(m) \/ HookStep(m) \/ Handle(m)
  \/ \E c \in late : HandleLate(c[1], c[2])
  \/ \E r \in Rules : Install(r) \/ Withdraw(r) \/ ClearLog(r)
  \/ Crash \/ Restart \/ Background

HookSpec == HookInit /\ [][HookNext]_hookTrafficVars

SomeHook == \E m \in Messages : HookStep(m)

\* Some hook process that can go on does, and each of its waits has a timeout;
\* nothing is assumed of the daemon.
HookFairSpec == HookSpec /\ WF_hookTrafficVars(SomeHook)

-------------------------------------------------------------------------------
Entries ==
  Each("dry", Rules) \cup Each("apply", Rules) \cup {Leave}
    \cup {Credit(S) : S \in SUBSET Rules} \cup {Abort(S) : S \in SUBSET Rules}

Call ==
  {[op |-> "get_rules"]}
    \cup [op : {"report_hit"}, rules : SUBSET Rules]
    \cup [op : {"report_dry_run"}, rule : Rules]
    \cup [op : {"store_relay_value"}, rule : {r \in Rules : r.kind = "relay_extract"}, val : Values]
    \cup [op : {"get_relay_value"}, rule : {r \in Rules : r.kind = "relay_inject"}]

Reply ==
  [ok : {"rules"}, rules : SUBSET Rules] \cup [ok : {"yes", "no"}]
    \cup [ok : {"token"}, entry : Entry \cup {NoToken}]

HookTypeOK ==
  /\ RelayTypeOK
  /\ up \in BOOLEAN
  /\ born \in Seq(Rules) /\ IsInjective(born) /\ installed \subseteq ToSet(born)
  /\ hits \in [Rules -> Nat] /\ savedHits \in [Rules -> Nat]
  /\ dryLog \in [Rules -> Seq(Messages)] /\ \A r \in Rules : Len(dryLog[r]) <= PerRuleLimit
  /\ late \subseteq Messages \X Call
  /\ step \in [Messages -> Entries \cup {Idle, Asking} \cup Gone]
  /\ rest \in [Messages -> SUBSET Entries]
  /\ call \in [Messages -> Call \cup {NoCall}]
  /\ reply \in [Messages -> Reply \cup {Unanswered, Lost}]
  /\ {done, edits, matched, got, kept} \subseteq [Messages -> SUBSET Rules]

\* Any block rule wins outright: a request that a real block rule matched, when
\* the daemon answered, leaves only if the hook never got the answer; large rules
\* beside it do not crowd it out of the frame.  Nothing else aborts a request,
\* and one that is aborted was not touched: no rule edited it, none but block
\* rules got a hit for it.
BlockWins ==
  \A m \in Messages :
    LET hasBlock == \E r \in matched[m] : IsRealBlock(r) IN
    /\ step[m] = Left /\ hasBlock => got[m] = {}
    /\ step[m] = Blocked => hasBlock /\ edits[m] = {} /\ done[m] = {}

\* A dry-run rule changes no message and stores no token.
DryRunOnlyWatches ==
  \A m \in Messages :
    /\ \A r \in edits[m] \cup kept[m] : ~r.dry
    /\ step[m] = Blocked => \E r \in got[m] : IsRealBlock(r)

\* Where a hit of rule r for message m comes from.
Earned(r, m) ==
  \/ IsBlock(r) /\ r \in got[m]
  \/ r.dry /\ r \in done[m]
  \/ r \in edits[m]
  \/ r \in kept[m]

\* A rule's hits are messages it took effect on, each counted once, although the
\* daemon carries out calls whose hook gave up and a restart goes back to the
\* hits of rules.json: for an extract rule, that its token was stored.
HitsAreEarned ==
  \A r \in Rules : hits[r] <= Cardinality({m \in Messages : Earned(r, m)})

\* A relay token is the server's: it is read before any rule edits the response.
TokenIsOriginal == \A n \in Stored : entries[n].val # Doctored

\* The dry-run log lists messages its rule matched, each once.
DryLogIsTrue ==
  \A r \in Rules :
    /\ IsInjective(dryLog[r])
    /\ \A m \in ToSet(dryLog[r]) : r \in matched[m]

\* One oversized rule does not crowd out smaller ones: of the other rules that
\* matched, none that was dropped is smaller than one that was sent.
SmallRulesFirst ==
  \A m \in Messages : got[m] # {} =>
    \A r \in matched[m] \ got[m], q \in got[m] :
      IsNoBlock(r) /\ IsNoBlock(q) => q.size <= r.size

\* Fail-open: whatever the daemon does, or if there is none, no message stays in
\* its hook for ever: in the end every one that arrived has left or is blocked.
EveryMessageLeaves == <>[](\A m \in Messages : ~Busy(m))
=============================================================================
