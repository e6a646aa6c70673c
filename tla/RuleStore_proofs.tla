---------------------------- MODULE RuleStore_proofs ----------------------------
(***************************************************************************)
(* Proofs about RuleStore: type correctness for every value of the         *)
(* constants, and, for a daemon that has rules.json to itself, that no     *)
(* installed rule is lost, but by a load that does not read it, and no     *)
(* revoked one comes back.                                                 *)
(***************************************************************************)
EXTENDS RuleStore, TLAPS

-------------------------------------------------------------------------------
(* Type correctness.                                                        *)

\* The rules of a call are rules.
LEMMA HalvesType ==
  ASSUME NEW c \in SingleCalls \cup RelayCalls
  PROVE  Halves(c) \subseteq RuleId
BY DEF Halves, RuleId

\* Replacing what is known of some rules keeps fate a function to Fate.
LEMMA BecomesType ==
  ASSUME fate \in [RuleId -> Fate], NEW S, NEW f \in Fate, Becomes(S, f)
  PROVE  fate' \in [RuleId -> Fate]
BY DEF Becomes

\* A daemon starts with rules of the file.
LEMMA LegibleInFile ==
  ASSUME NEW S \in Legible
  PROVE  S \subseteq file /\ Load(S) \subseteq S
BY DEF Legible, Load

\* The invariant RuleTypeOK: every variable keeps its type in every step of
\* the engine, its tools and the reaper.
THEOREM RuleTypeCorrect == RuleSpec => []RuleTypeOK
<1>1. RuleInit => RuleTypeOK
  BY RuleAssumption DEF RuleInit, RuleTypeOK, Idle, Fate
<1>2. RuleTypeOK /\ [RuleNext]_vars => RuleTypeOK'
  <2> SUFFICES ASSUME RuleTypeOK, [RuleNext]_vars PROVE RuleTypeOK'
    OBVIOUS
  <2>1. CASE Tick
    BY <2>1, RuleAssumption DEF RuleTypeOK, Tick
  <2>2. ASSUME NEW d \in Daemons, Start(d)
        PROVE  RuleTypeOK'
    <3>1. fate' \in [RuleId -> Fate]
      BY <2>2, BecomesType DEF Start, RuleTypeOK, Fate
    <3>2. mem' \in [Daemons -> SUBSET RuleId]
      BY <2>2, LegibleInFile DEF Start, RuleTypeOK
    <3> QED
      BY <2>2, <3>1, <3>2 DEF Start, RuleTypeOK
  <2>3. CASE \E d \in Daemons : End(d)
    BY <2>3, RuleAssumption DEF RuleTypeOK, End, Idle
  <2>4. ASSUME NEW d \in Daemons, NEW c \in SingleCalls \cup RelayCalls,
               NEW ttl \in Ttls, Request(d, c, ttl)
        PROVE  RuleTypeOK'
    <3>1. ttl \in Nat /\ now + ttl \in Nat
      BY RuleAssumption DEF RuleTypeOK
    <3>2. [todo |-> Halves(c), ttl |-> ttl, until |-> now + ttl]
            \in [todo : SUBSET RuleId, ttl : Nat, until : Nat]
      BY <3>1, HalvesType
    <3> QED
      BY <2>4, <3>2 DEF RuleTypeOK, Request
  <2>5. ASSUME NEW d \in Daemons, NEW i \in RuleId, Insert(d, i)
        PROVE  RuleTypeOK'
    <3>1. tool[d].until \in Nat /\ tool[d].ttl \in Nat /\ tool[d].todo \subseteq RuleId
      BY DEF RuleTypeOK
    <3>2. now + tool[d].ttl \in Nat
      BY <3>1 DEF RuleTypeOK
    <3>3. expires' \in [RuleId -> Nat] /\ mem' \in [Daemons -> SUBSET RuleId]
      BY <2>5, <3>1 DEF Insert, RuleTypeOK
    <3>4. file' \subseteq RuleId
      BY <2>5 DEF Insert, Saves, SaveRaises, RuleTypeOK
    <3>5. fate' \in [RuleId -> Fate]
      BY <2>5, BecomesType DEF Insert, RuleTypeOK, Fate
    <3>6. tool' \in [Daemons -> [todo : SUBSET RuleId, ttl : Nat, until : Nat]]
      BY <2>5, <3>1, <3>2 DEF Insert, AfterInsert, RuleTypeOK, Idle
    <3> QED
      BY <2>5, <3>3, <3>4, <3>5, <3>6 DEF Insert, RuleTypeOK
  <2>6. ASSUME NEW d \in Daemons, NEW i \in RuleId, Remove(d, i)
        PROVE  RuleTypeOK'
    <3>1. fate' \in [RuleId -> Fate]
      BY <2>6, BecomesType DEF Remove, RuleTypeOK, Fate
    <3>2. file' \subseteq RuleId /\ mem' \in [Daemons -> SUBSET RuleId]
      BY <2>6 DEF Remove, Saves, SaveRaises, RuleTypeOK
    <3> QED
      BY <2>6, <3>1, <3>2 DEF Remove, RuleTypeOK
  <2>7. ASSUME NEW d \in Daemons, Clear(d)
        PROVE  RuleTypeOK'
    <3>1. fate' \in [RuleId -> Fate]
      BY <2>7, BecomesType DEF Clear, RuleTypeOK, Fate
    <3>2. file' \subseteq RuleId /\ mem' \in [Daemons -> SUBSET RuleId]
      BY <2>7 DEF Clear, Saves, SaveRaises, RuleTypeOK
    <3> QED
      BY <2>7, <3>1, <3>2 DEF Clear, RuleTypeOK
  <2>8. CASE \E d \in Daemons : BeginReap(d)
    BY <2>8 DEF RuleTypeOK, BeginReap
  <2>9. ASSUME NEW d \in Daemons, Reap(d)
        PROVE  RuleTypeOK'
    <3>1. file' \subseteq RuleId /\ mem' \in [Daemons -> SUBSET RuleId]
      BY <2>9 DEF Reap, Saves, SaveRaises, RuleTypeOK
    <3> QED
      BY <2>9, <3>1, RuleAssumption DEF Reap, RuleTypeOK
  <2>10. CASE UNCHANGED vars
    BY <2>10 DEF RuleTypeOK, vars
  <2> QED
    BY <2>1, <2>2, <2>3, <2>4, <2>5, <2>6, <2>7, <2>8, <2>9, <2>10
    DEF RuleNext, ToolStep, ReaperStep
<1> QED
  BY <1>1, <1>2, PTL DEF RuleSpec

-------------------------------------------------------------------------------
(* A daemon that has rules.json to itself.                                  *)

\* RuleInv holds initially.
LEMMA RuleInvInit == RuleInit => RuleInv
BY DEF RuleInit, RuleInv, DownIsBlank, ReapsThePast, UnbornIsNowhere, TodoIsUnborn,
       ExtractFirst, SavedSurvives, RevokedIsGone, Idle, RuleId

\* What has expired stays expired as the clock goes on.
LEMMA ExpiryIsForGood ==
  ASSUME RuleTypeOK, NEW i \in RuleId, NEW s \in Nat, NEW t \in Nat, s <= t, IsExpired(i, s)
  PROVE  IsExpired(i, t)
BY DEF IsExpired, RuleTypeOK

\* Every step of a lone daemon preserves RuleInv.
LEMMA RuleInvStep ==
  ASSUME \A d, e \in Daemons : d = e, RuleTypeOK, RuleInv, [RuleNext]_vars
  PROVE  RuleInv'
<1> USE DEF RuleInv
<1>1. CASE Tick
  <2>1. UNCHANGED <<expires, file, up, mem, tool, reapAt, fate>> /\ now' = now + 1
    BY <1>1 DEF Tick
  <2>2. SavedSurvives'
    BY <2>1 DEF SavedSurvives, IsExpired, RuleTypeOK
  <2>3. ReapsThePast'
    BY <2>1 DEF ReapsThePast, RuleTypeOK
  <2> QED
    BY <2>1, <2>2, <2>3 DEF DownIsBlank, UnbornIsNowhere, TodoIsUnborn, ExtractFirst, RevokedIsGone
<1>2. ASSUME NEW d \in Daemons, Start(d)
      PROVE  RuleInv'
  <2>1. PICK S \in Legible :
          /\ mem' = [mem EXCEPT ![d] = Load(S)]
          /\ Becomes({i \in file \ S : fate[i] = "saved"}, "overlooked")
    BY <1>2 DEF Start
  <2>2. /\ UNCHANGED <<now, expires, file, tool, reapAt>>
        /\ up' = [up EXCEPT ![d] = TRUE]
    BY <1>2 DEF Start
  <2>3. /\ \A e \in Daemons : mem'[e] = Load(S)
        /\ S \subseteq file /\ Load(S) \subseteq file
    BY <2>1, LegibleInFile DEF RuleTypeOK
  <2>4. \A i \in RuleId :
          fate'[i] = IF fate[i] = "saved" /\ i \in file \ S THEN "overlooked" ELSE fate[i]
    BY <2>1 DEF Becomes
  <2>5. SavedSurvives'
    <3> SUFFICES ASSUME NEW i \in RuleId, fate'[i] = "saved", ~IsExpired(i, now)'
                 PROVE  i \in file' /\ \A e \in Daemons : up'[e] => i \in mem'[e]
      BY DEF SavedSurvives
    <3>1. fate[i] = "saved" /\ ~IsExpired(i, now) /\ i \notin file \ S
      BY <2>2, <2>4 DEF IsExpired
    <3>2. i \in file /\ i \in S
      BY <3>1 DEF SavedSurvives
    <3> QED
      BY <2>2, <2>3, <3>1, <3>2 DEF Load
  <2>6. UnbornIsNowhere' /\ RevokedIsGone'
    BY <2>2, <2>3, <2>4 DEF UnbornIsNowhere, RevokedIsGone
  <2>7. DownIsBlank'
    BY <2>2, <2>3 DEF DownIsBlank, RuleTypeOK
  <2>8. TodoIsUnborn'
    BY <2>2, <2>4 DEF TodoIsUnborn, RuleTypeOK
  <2>9. ExtractFirst'
    BY <2>2, <2>4 DEF ExtractFirst, RuleId
  <2> QED
    BY <2>2, <2>5, <2>6, <2>7, <2>8, <2>9 DEF ReapsThePast
<1>3. ASSUME NEW d \in Daemons, End(d)
      PROVE  RuleInv'
  <2>1. /\ UNCHANGED <<now, expires, file, fate>>
        /\ \A e \in Daemons : ~up'[e] /\ mem'[e] = {} /\ tool'[e].todo = {} /\ reapAt'[e] = 0
    BY <1>3 DEF End, RuleTypeOK, Idle
  <2> QED
    BY <2>1 DEF DownIsBlank, ReapsThePast, UnbornIsNowhere, TodoIsUnborn, ExtractFirst,
                SavedSurvives, RevokedIsGone, IsExpired, RuleTypeOK
<1>4. ASSUME NEW d \in Daemons, NEW c \in SingleCalls \cup RelayCalls, NEW ttl \in Ttls,
             Request(d, c, ttl)
      PROVE  RuleInv'
  <2>1. /\ UNCHANGED <<now, expires, file, up, mem, reapAt, fate>>
        /\ up[d]
        /\ \A e \in Daemons : tool'[e].todo = Halves(c)
        /\ \A i \in Halves(c) : fate[i] = "unborn"
    BY <1>4 DEF Request, RuleTypeOK
  <2>2. ExtractFirst'
    <3>1. \A b \in RelayCalls : <<b, "inject">> \in Halves(c) => <<b, "extract">> \in Halves(c)
      BY DEF Halves
    <3> SUFFICES ASSUME NEW b \in RelayCalls,
                        \/ fate'[<<b, "inject">>] # "unborn"
                        \/ \E e \in Daemons : /\ <<b, "inject">> \in tool'[e].todo
                                              /\ <<b, "extract">> \notin tool'[e].todo
                 PROVE  fate'[<<b, "extract">>] \in {"saved", "doomed", "revoked", "overlooked"}
      BY DEF ExtractFirst
    <3>3. fate'[<<b, "inject">>] # "unborn"
      BY <3>1, <2>1
    <3> QED
      BY <3>3, <2>1 DEF ExtractFirst
  <2>3. TodoIsUnborn'
    BY <2>1 DEF TodoIsUnborn
  <2>4. DownIsBlank'
    BY <2>1 DEF DownIsBlank
  <2> QED
    BY <2>1, <2>2, <2>3, <2>4 DEF ReapsThePast, UnbornIsNowhere, SavedSurvives,
                                  RevokedIsGone, IsExpired
<1>5. ASSUME NEW d \in Daemons, NEW i \in RuleId, Insert(d, i)
      PROVE  RuleInv'
  <2>1. /\ UNCHANGED <<now, up, reapAt>>
        /\ i \in tool[d].todo
        /\ i[2] = "inject" => <<i[1], "extract">> \notin tool[d].todo
        /\ expires' = [expires EXCEPT ![i] = tool[d].until]
        /\ \A e \in Daemons : mem'[e] = mem[d] \cup {i}
        /\ \A e \in Daemons : tool'[e].todo \subseteq tool[d].todo \ {i}
        /\ \A e \in Daemons : tool'[e].todo # {} => tool'[e].todo = tool[d].todo \ {i}
    BY <1>5 DEF Insert, NextRule, AfterInsert, Idle, RuleTypeOK
  <2>2. fate[i] = "unborn" /\ up[d]
    BY <2>1 DEF TodoIsUnborn, DownIsBlank, RuleTypeOK
  <2>3. \/ file' = mem[d] \cup {i} /\ fate'[i] = "saved"
        \/ file' = file /\ fate'[i] = "unsaved" /\ \A e \in Daemons : tool'[e].todo = {}
    BY <1>5 DEF Insert, Saves, SaveRaises, Becomes, Idle, RuleTypeOK
  <2>4. \A j \in RuleId : j # i => fate'[j] = fate[j] /\ expires'[j] = expires[j]
    BY <1>5 DEF Insert, Becomes, RuleTypeOK
  <2>5. SavedSurvives'
    <3> SUFFICES ASSUME NEW j \in RuleId, fate'[j] = "saved", ~IsExpired(j, now)'
                 PROVE  j \in file' /\ \A e \in Daemons : up'[e] => j \in mem'[e]
      BY DEF SavedSurvives
    <3>1. CASE j = i
      BY <3>1, <2>1, <2>3
    <3>2. CASE j # i
      <4>1. fate[j] = "saved" /\ ~IsExpired(j, now)
        BY <3>2, <2>1, <2>4 DEF IsExpired
      <4>2. j \in file /\ j \in mem[d]
        BY <4>1, <2>2 DEF SavedSurvives
      <4> QED
        BY <4>2, <2>1, <2>3
    <3> QED
      BY <3>1, <3>2
  <2>6. RevokedIsGone' /\ UnbornIsNowhere'
    BY <2>1, <2>2, <2>3, <2>4 DEF RevokedIsGone, UnbornIsNowhere
  <2>7. TodoIsUnborn'
    BY <2>1, <2>4 DEF TodoIsUnborn, RuleTypeOK
  <2>8. ExtractFirst'
    <3> SUFFICES ASSUME NEW c \in RelayCalls,
                        \/ fate'[<<c, "inject">>] # "unborn"
                        \/ \E e \in Daemons : /\ <<c, "inject">> \in tool'[e].todo
                                              /\ <<c, "extract">> \notin tool'[e].todo
                 PROVE  fate'[<<c, "extract">>] \in {"saved", "doomed", "revoked", "overlooked"}
      BY DEF ExtractFirst
    <3> DEFINE ext == <<c, "extract">>
               inj == <<c, "inject">>
    <3>1. ext \in RuleId /\ inj \in RuleId /\ ext # inj
      BY DEF RuleId
    <3>2. CASE i = ext
      <4>1. fate[inj] = "unborn"
        BY <3>1, <3>2, <2>2 DEF ExtractFirst
      <4>2. fate'[inj] = "unborn"
        BY <4>1, <3>1, <3>2, <2>4
      <4>3. \E e \in Daemons : tool'[e].todo # {}
        BY <4>2
      <4> QED
        BY <4>3, <3>2, <2>3
    <3>3. CASE i = inj
      <4>1. ext \notin tool[d].todo
        BY <3>3, <2>1
      <4>2. fate[ext] \in {"saved", "doomed", "revoked", "overlooked"}
        BY <4>1, <3>3, <2>1 DEF ExtractFirst
      <4> QED
        BY <4>2, <3>1, <3>3, <2>4
    <3>4. CASE i # ext /\ i # inj
      <4>1. fate'[ext] = fate[ext] /\ fate'[inj] = fate[inj]
        BY <3>1, <3>4, <2>4
      <4>2. ASSUME NEW e \in Daemons, inj \in tool'[e].todo, ext \notin tool'[e].todo
            PROVE  inj \in tool[d].todo /\ ext \notin tool[d].todo
        BY <4>2, <3>4, <2>1
      <4> QED
        BY <4>1, <4>2 DEF ExtractFirst
    <3> QED
      BY <3>2, <3>3, <3>4
  <2>9. DownIsBlank'
    BY <2>1, <2>2 DEF DownIsBlank
  <2>10. ReapsThePast'
    BY <2>1 DEF ReapsThePast
  <2> QED
    BY <2>5, <2>6, <2>7, <2>8, <2>9, <2>10
<1>6. ASSUME NEW d \in Daemons, NEW i \in RuleId, Remove(d, i)
      PROVE  RuleInv'
  <2>1. /\ UNCHANGED <<now, expires, up, tool, reapAt>>
        /\ up[d] /\ i \in mem[d] /\ \A e \in Daemons : tool[e].todo = {}
        /\ \A e \in Daemons : mem'[e] = mem[d] \ {i}
    BY <1>6 DEF Remove, Idle, RuleTypeOK
  <2>2. \/ file' = mem[d] \ {i} /\ fate'[i] = "revoked"
        \/ file' = file /\ fate'[i] = "doomed"
    BY <1>6 DEF Remove, Saves, SaveRaises, Becomes, RuleTypeOK
  <2>3. \A j \in RuleId : j # i => fate'[j] = fate[j]
    BY <1>6 DEF Remove, Becomes, RuleTypeOK
  <2>4. SavedSurvives'
    BY <2>1, <2>2, <2>3 DEF SavedSurvives, IsExpired
  <2>5. RevokedIsGone' /\ UnbornIsNowhere'
    BY <2>1, <2>2, <2>3 DEF RevokedIsGone, UnbornIsNowhere
  <2>6. ExtractFirst'
    BY <2>1, <2>2, <2>3 DEF ExtractFirst, RuleId, UnbornIsNowhere
  <2> QED
    BY <2>1, <2>4, <2>5, <2>6 DEF DownIsBlank, ReapsThePast, TodoIsUnborn
<1>7. ASSUME NEW d \in Daemons, Clear(d)
      PROVE  RuleInv'
  <2>1. /\ UNCHANGED <<now, expires, up, tool, reapAt>>
        /\ \A e \in Daemons : tool[e].todo = {}
        /\ \A e \in Daemons : mem'[e] = {}
    BY <1>7 DEF Clear, Idle, RuleTypeOK
  <2>2. \/ file' = {} /\ \A j \in Standing : fate'[j] = "revoked"
        \/ file' = file /\ \A j \in Standing : fate'[j] = "doomed"
    BY <1>7 DEF Clear, Saves, SaveRaises, Becomes, Standing
  <2>3. \A j \in RuleId \ Standing : fate'[j] = fate[j] /\ fate[j] \in {"unborn", "revoked"}
    BY <1>7 DEF Clear, Becomes, Standing, RuleTypeOK, Fate
  <2>4. SavedSurvives'
    BY <2>1, <2>2, <2>3 DEF SavedSurvives
  <2>5. RevokedIsGone' /\ UnbornIsNowhere'
    BY <2>1, <2>2, <2>3 DEF RevokedIsGone, UnbornIsNowhere
  <2>6. ExtractFirst'
    BY <2>1, <2>2, <2>3 DEF ExtractFirst, RuleId, Standing
  <2> QED
    BY <2>1, <2>4, <2>5, <2>6 DEF DownIsBlank, ReapsThePast, TodoIsUnborn
<1>8. ASSUME NEW d \in Daemons, BeginReap(d)
      PROVE  RuleInv'
  BY <1>8 DEF BeginReap, RuleTypeOK, DownIsBlank, ReapsThePast, UnbornIsNowhere,
              TodoIsUnborn, ExtractFirst, SavedSurvives, RevokedIsGone, IsExpired
<1>9. ASSUME NEW d \in Daemons, Reap(d)
      PROVE  RuleInv'
  <2> DEFINE stale == {i \in mem[d] : IsExpired(i, reapAt[d])}
  <2>1. /\ UNCHANGED <<now, expires, up, tool, fate>>
        /\ \A e \in Daemons : mem'[e] = mem[d] \ stale
        /\ \A e \in Daemons : reapAt'[e] = 0
        /\ file' \in {file, mem[d] \ stale}
    BY <1>9 DEF Reap, Saves, SaveRaises, RuleTypeOK
  <2>2. \A i \in RuleId : ~IsExpired(i, now) => i \notin stale
    BY ExpiryIsForGood DEF ReapsThePast, RuleTypeOK
  <2>3. \A i \in RuleId : fate[i] = "saved" /\ ~IsExpired(i, now) => i \in file
    BY DEF SavedSurvives
  <2>4. \A i \in RuleId : fate[i] = "saved" /\ ~IsExpired(i, now) /\ up[d] => i \in mem[d]
    BY DEF SavedSurvives
  <2>5. up[d]
    BY <1>9 DEF Reap, DownIsBlank, RuleTypeOK
  <2> HIDE DEF stale
  <2>6. SavedSurvives'
    BY <2>1, <2>2, <2>3, <2>4, <2>5 DEF SavedSurvives, IsExpired
  <2>7. RevokedIsGone' /\ UnbornIsNowhere'
    BY <2>1 DEF RevokedIsGone, UnbornIsNowhere
  <2>8. DownIsBlank' /\ ReapsThePast'
    BY <2>1 DEF DownIsBlank, ReapsThePast, RuleTypeOK
  <2> QED
    BY <2>1, <2>6, <2>7, <2>8 DEF TodoIsUnborn, ExtractFirst
<1>10. CASE UNCHANGED vars
  BY <1>10 DEF vars, DownIsBlank, ReapsThePast, UnbornIsNowhere, TodoIsUnborn, ExtractFirst,
               SavedSurvives, RevokedIsGone, IsExpired
<1> QED
  BY <1>1, <1>2, <1>3, <1>4, <1>5, <1>6, <1>7, <1>8, <1>9, <1>10
  DEF RuleNext, ToolStep, ReaperStep

\* The invariant RuleInv.
THEOREM RuleInvariant ==
  ASSUME \A d, e \in Daemons : d = e
  PROVE  RuleSpec => []RuleInv
<1>1. RuleInit => RuleInv
  BY RuleInvInit
<1>2. RuleTypeOK /\ RuleInv /\ [RuleNext]_vars => RuleInv'
  BY RuleInvStep
<1> QED
  BY <1>1, <1>2, RuleTypeCorrect, PTL DEF RuleSpec

\* The invariant SavedSurvives: a rule whose installation was reported is in
\* rules.json and in memory until it expires, its revocation is tried, or a daemon
\* starts without having read it, through crashes, restarts, failed saves and the
\* reaper's stale clock.
THEOREM SavedSurvivesHolds ==
  ASSUME \A d, e \in Daemons : d = e
  PROVE  RuleSpec => []SavedSurvives
BY RuleInvariant, PTL DEF RuleInv

\* The invariant RevokedIsGone: remove_rule and clear_rules, once they return,
\* are never undone by a later save, a failed one, or a restart.
THEOREM RevokedIsGoneHolds ==
  ASSUME \A d, e \in Daemons : d = e
  PROVE  RuleSpec => []RevokedIsGone
BY RuleInvariant, PTL DEF RuleInv

\* The invariant InjectHasExtract: auto_token_relay's inject rule is not in
\* rules.json without the extract rule that feeds it, unless the latter was revoked,
\* has expired, or was not read by a load.
THEOREM InjectHasExtractHolds ==
  ASSUME \A d, e \in Daemons : d = e
  PROVE  RuleSpec => []InjectHasExtract
<1>1. RuleTypeOK /\ RuleInv => InjectHasExtract
  BY DEF RuleInv, InjectHasExtract, ExtractFirst, SavedSurvives, UnbornIsNowhere, RuleId
<1> QED
  BY <1>1, RuleTypeCorrect, RuleInvariant, PTL
===============================================================================
