--------------------------- MODULE DaemonLife_proofs ---------------------------
(***************************************************************************)
(* Theorems about DaemonLife, for any number of daemons and hooks and      *)
(* whatever fails: handlers run in a daemon that is wired, a lone daemon   *)
(* can be reached, and daemons that leave in order leave nothing behind.   *)
(***************************************************************************)
EXTENDS DaemonLife, TLAPS

AtWork == {"listening", "serving", "unreaped", "drained"}
Unwired == {"off", "guarded", "polling"}

\* From its rule engine on a daemon has all its parts.
PartsByStage == \A d \in Daemons : stage[d] \notin Unwired => wired[d]

\* A connection that is held is held by a daemon; a queued one by one whose
\* socket is open.
HeldByDaemon ==
  \A h \in Hooks :
    /\ conn[h].at \in {"queued", "read"} =>
         conn[h].to \in Daemons /\ stage[conn[h].to] \in AtWork \cup {"closed", "unlinked"}
    /\ conn[h].at = "queued" => stage[conn[h].to] \in AtWork

\* A daemon without company is alone.
NoCompany ==
  \A d \in Daemons : stage[d] # "off" /\ ~company[d] => \A e \in Daemons \ {d} : stage[e] = "off"

\* A lone daemon finds the path empty, and has it until it closes its socket.
LoneHasPath ==
  \A d \in Daemons : stage[d] # "off" /\ ~company[d] =>
    /\ stage[d] = "cleared" => path = None
    /\ stage[d] \in {"bound"} \cup AtWork => path = d

\* A path leads to an open socket, or to one whose daemon is about to unlink it,
\* unless a daemon has failed.
PathIsOwned ==
  /\ \A d \in Daemons : path = d => stage[d] \in {"bound"} \cup AtWork
  /\ orderly /\ path = Stale => \E d \in Daemons : stage[d] = "closed"

LifeInv == LifeTypeOK /\ PartsByStage /\ HeldByDaemon /\ NoCompany /\ LoneHasPath /\ PathIsOwned

LEMMA LifeInvInit == LifeInit => LifeInv
<1> SUFFICES ASSUME LifeInit PROVE LifeInv
  OBVIOUS
<1>1. \A d \in Daemons : d # None /\ d # Stale
  BY LifeAssumption
<1> QED
  BY <1>1 DEF LifeInit, LifeInv, LifeTypeOK, PartsByStage, HeldByDaemon, NoCompany, LoneHasPath,
         PathIsOwned, Unwired, AtWork, Stages, Starting, Stopping, Call, Unused, None, Stale

\* A step of start or stop that moves a daemon on and touches neither path nor
\* connections.
LEMMA GoesOnKeepsInv ==
  ASSUME LifeInv, NEW d \in Daemons, NEW from, NEW to, Goes(d, from, to),
         <<from, to>> \in {<<"guarded", "polling">>, <<"bound", "listening">>,
                           <<"listening", "serving">>, <<"serving", "unreaped">>,
                           <<"unreaped", "drained">>},
         UNCHANGED <<path, wired, conn, company, orderly>>
  PROVE  LifeInv'
<1> USE DEF Goes, LifeInv, AtWork, Unwired
<1>1. LifeTypeOK'
  BY DEF LifeTypeOK, Stages, Starting, Stopping
<1>2. \A e \in Daemons : stage'[e] = IF e = d THEN to ELSE stage[e]
  BY DEF LifeTypeOK
<1>3. PartsByStage'
  BY <1>2 DEF PartsByStage
<1>4. HeldByDaemon'
  BY <1>2 DEF HeldByDaemon
<1>5. NoCompany' /\ LoneHasPath'
  BY <1>2 DEF NoCompany, LoneHasPath
<1>6. PathIsOwned'
  BY <1>2 DEF PathIsOwned
<1> QED BY <1>1, <1>3, <1>4, <1>5, <1>6

LEMMA StartKeepsInv ==
  ASSUME LifeInv, NEW d \in Daemons, Start(d)
  PROVE  LifeInv'
<1> USE DEF Goes, Start, LifeInv, AtWork, Unwired
<1>1. LifeTypeOK'
  BY DEF LifeTypeOK, Stages, Starting, Stopping
<1>2. \A e \in Daemons : stage'[e] = IF e = d THEN "guarded" ELSE stage[e]
  BY DEF LifeTypeOK
<1>3. PartsByStage' /\ HeldByDaemon' /\ PathIsOwned'
  BY <1>2 DEF PartsByStage, HeldByDaemon, PathIsOwned
<1>4. NoCompany'
  BY <1>2 DEF NoCompany, Alive
<1>5. LoneHasPath'
  <2>1. \A e \in Daemons : e # d /\ stage[e] # "off" => company'[e]
    BY DEF Alive
  <2> QED BY <1>2, <2>1 DEF LoneHasPath
<1> QED BY <1>1, <1>3, <1>4, <1>5

LEMMA WireKeepsInv ==
  ASSUME LifeInv, NEW d \in Daemons, Wire(d)
  PROVE  LifeInv'
<1> USE DEF Goes, Wire, LifeInv, AtWork, Unwired
<1>1. LifeTypeOK'
  BY DEF LifeTypeOK, Stages, Starting, Stopping
<1>2. \A e \in Daemons : /\ stage'[e] = IF e = d THEN "wired" ELSE stage[e]
                         /\ wired'[e] = IF e = d THEN TRUE ELSE wired[e]
  BY DEF LifeTypeOK
<1>3. PartsByStage'
  BY <1>2 DEF PartsByStage
<1>4. HeldByDaemon'
  BY <1>2 DEF HeldByDaemon
<1>5. PathIsOwned'
  BY <1>2 DEF PathIsOwned
<1>6. NoCompany' /\ LoneHasPath'
  BY <1>2 DEF NoCompany, LoneHasPath
<1> QED BY <1>1, <1>3, <1>4, <1>5, <1>6

\* A step that takes what is at the path away.
LEMMA ClearsPathKeepsInv ==
  ASSUME LifeInv, NEW d \in Daemons, ClearPath(d) \/ UnlinkPath(d)
  PROVE  LifeInv'
<1> USE DEF LifeInv, AtWork, Unwired
<1>1. PICK from \in {"wired", "closed"}, to \in {"cleared", "unlinked"} :
        /\ Goes(d, from, to) /\ path' = None /\ UNCHANGED <<wired, conn, company, orderly>>
        /\ from = "wired" <=> to = "cleared"
  BY DEF ClearPath, UnlinkPath
<1>2. LifeTypeOK'
  BY <1>1 DEF LifeTypeOK, Stages, Starting, Stopping, Goes
<1>3. stage[d] = from /\ \A e \in Daemons : stage'[e] = IF e = d THEN to ELSE stage[e]
  BY <1>1 DEF LifeTypeOK, Goes
<1>4. PartsByStage' /\ HeldByDaemon'
  BY <1>1, <1>3 DEF PartsByStage, HeldByDaemon
<1>5. NoCompany' /\ LoneHasPath'
  BY <1>1, <1>3 DEF NoCompany, LoneHasPath
<1>6. PathIsOwned'
  BY <1>1, LifeAssumption DEF PathIsOwned, None, Stale
<1> QED BY <1>2, <1>4, <1>5, <1>6

LEMMA BindKeepsInv ==
  ASSUME LifeInv, NEW d \in Daemons, Bind(d)
  PROVE  LifeInv'
<1> USE DEF Goes, Bind, LifeInv, AtWork, Unwired
<1>1. LifeTypeOK'
  BY DEF LifeTypeOK, Stages, Starting, Stopping
<1>2. \A e \in Daemons : stage'[e] = IF e = d THEN "bound" ELSE stage[e]
  BY DEF LifeTypeOK
<1>3. PartsByStage' /\ HeldByDaemon'
  BY <1>2 DEF PartsByStage, HeldByDaemon
<1>4. NoCompany' /\ LoneHasPath'
  BY <1>2 DEF NoCompany, LoneHasPath
<1>5. PathIsOwned'
  BY <1>2, LifeAssumption DEF PathIsOwned, Stale
<1> QED BY <1>1, <1>3, <1>4, <1>5

LEMMA CloseSocketKeepsInv ==
  ASSUME LifeInv, NEW d \in Daemons, CloseSocket(d)
  PROVE  LifeInv'
<1> USE DEF Goes, CloseSocket, LifeInv, AtWork, Unwired
<1>1. LifeTypeOK'
  BY DEF LifeTypeOK, Stages, Starting, Stopping, Call
<1>2. \A e \in Daemons : stage'[e] = IF e = d THEN "closed" ELSE stage[e]
  BY DEF LifeTypeOK
<1>3. PartsByStage'
  BY <1>2 DEF PartsByStage
<1>4. HeldByDaemon'
  <2> SUFFICES ASSUME NEW h \in Hooks
               PROVE  /\ conn'[h].at \in {"queued", "read"} =>
                           /\ conn'[h].to \in Daemons
                           /\ stage'[conn'[h].to] \in AtWork \cup {"closed", "unlinked"}
                      /\ conn'[h].at = "queued" => stage'[conn'[h].to] \in AtWork
    BY DEF HeldByDaemon
  <2>1. CASE h \in Queued(d)
    BY <2>1 DEF LifeTypeOK, Call
  <2>2. CASE h \notin Queued(d)
    BY <1>2, <2>2 DEF HeldByDaemon, Queued, LifeTypeOK
  <2> QED BY <2>1, <2>2
<1>5. NoCompany' /\ LoneHasPath'
  BY <1>2, LifeAssumption DEF NoCompany, LoneHasPath, Stale
<1>6. PathIsOwned'
  BY <1>2, LifeAssumption DEF PathIsOwned, Stale
<1> QED BY <1>1, <1>3, <1>4, <1>5, <1>6

\* A process ends, in order from its last stage or out of order from any.
LEMMA EndsProcessKeepsInv ==
  ASSUME LifeInv, NEW d \in Daemons, EndsProcess(d), orderly' \in BOOLEAN,
         orderly' => orderly /\ stage[d] = "unlinked"
  PROVE  LifeInv'
<1> USE DEF EndsProcess, LifeInv, AtWork, Unwired
<1>1. LifeTypeOK'
  BY DEF LifeTypeOK, Stages, Starting, Stopping, Call
<1>2. \A e \in Daemons : /\ stage'[e] = IF e = d THEN "off" ELSE stage[e]
                         /\ wired'[e] = IF e = d THEN FALSE ELSE wired[e]
                         /\ company'[e] = IF e = d THEN FALSE ELSE company[e]
  BY DEF LifeTypeOK
<1>3. PartsByStage'
  BY <1>2 DEF PartsByStage
<1>4. HeldByDaemon'
  <2> SUFFICES ASSUME NEW h \in Hooks, conn'[h].at \in {"queued", "read"}
               PROVE  conn'[h] = conn[h] /\ conn[h].to # d
    BY <1>2 DEF HeldByDaemon
  <2> QED BY DEF LifeTypeOK, Call
<1>5. NoCompany'
  BY <1>2 DEF NoCompany
<1>6. LoneHasPath'
  <2> SUFFICES ASSUME NEW e \in Daemons, e # d, stage[e] # "off", ~company[e]
               PROVE  path' = path
    BY <1>2 DEF LoneHasPath
  <2>1. stage[d] = "off"
    BY DEF NoCompany
  <2>2. path # d
    BY <2>1 DEF PathIsOwned
  <2> QED BY <2>2
<1>7. PathIsOwned'
  BY <1>2, LifeAssumption DEF PathIsOwned, Stale
<1> QED BY <1>1, <1>3, <1>4, <1>5, <1>6, <1>7

\* What a hook or a handler does to a connection.
LEMMA HookKeepsInv ==
  ASSUME LifeInv, NEW h \in Hooks,
         Connect(h) \/ Accept(h) \/ Answer(h) \/ HangUp(h) \/ Recall(h)
  PROVE  LifeInv'
<1> USE DEF LifeInv
<1>1. UNCHANGED <<stage, path, wired, company, orderly>>
  BY DEF Connect, Accept, Answer, HangUp, Recall
<1>2. LifeTypeOK' /\ HeldByDaemon'
  <2>1. CASE Connect(h)
    BY <1>1, <2>1 DEF Connect, Listens, HeldByDaemon, LifeTypeOK, Call, AtWork
  <2>2. CASE Accept(h)
    BY <1>1, <2>2 DEF Accept, HeldByDaemon, LifeTypeOK, Call, AtWork
  <2>3. CASE Answer(h)
    BY <1>1, <2>3 DEF Answer, HeldByDaemon, LifeTypeOK, Call, AtWork
  <2>4. CASE HangUp(h)
    BY <1>1, <2>4 DEF HangUp, HeldByDaemon, LifeTypeOK, Call, AtWork
  <2>5. CASE Recall(h)
    BY <1>1, <2>5 DEF Recall, Unused, HeldByDaemon, LifeTypeOK, Call, AtWork
  <2> QED BY <2>1, <2>2, <2>3, <2>4, <2>5
<1>3. PartsByStage' /\ NoCompany' /\ LoneHasPath' /\ PathIsOwned'
  BY <1>1 DEF PartsByStage, NoCompany, LoneHasPath, PathIsOwned
<1> QED BY <1>2, <1>3

LEMMA LifeInvStep == LifeInv /\ [LifeNext]_lifeVars => LifeInv'
<1> SUFFICES ASSUME LifeInv, [LifeNext]_lifeVars PROVE LifeInv'
  OBVIOUS
<1>1. ASSUME NEW d \in Daemons,
             StartPoller(d) \/ Listen(d) \/ Serve(d) \/ StopReaper(d) \/ JoinAcceptor(d)
      PROVE  LifeInv'
  BY <1>1, GoesOnKeepsInv DEF StartPoller, Listen, Serve, StopReaper, JoinAcceptor
<1>2. ASSUME NEW d \in Daemons, BindFails(d) \/ Fail(d) \/ Crash(d) \/ Leave(d)
      PROVE  LifeInv'
  <2>1. EndsProcess(d)
    BY <1>2 DEF BindFails, Fail, Crash, Leave
  <2>2. CASE orderly' = FALSE
    BY <2>1, <2>2, EndsProcessKeepsInv
  <2>3. CASE Leave(d)
    <3>1. orderly' \in BOOLEAN /\ (orderly' => orderly)
      BY <2>3 DEF LifeInv, LifeTypeOK, Leave
    <3> QED BY <2>1, <2>3, <3>1, EndsProcessKeepsInv DEF Leave
  <2> QED BY <1>2, <2>2, <2>3 DEF BindFails, Fail, Crash
<1>3. CASE UNCHANGED lifeVars
  BY <1>3 DEF lifeVars, LifeInv, LifeTypeOK, PartsByStage, HeldByDaemon, NoCompany, LoneHasPath,
              PathIsOwned
<1> QED BY <1>1, <1>2, <1>3, StartKeepsInv, WireKeepsInv, ClearsPathKeepsInv, BindKeepsInv,
           CloseSocketKeepsInv, HookKeepsInv DEF LifeNext

LEMMA LifeInvHolds == LifeSpec => []LifeInv
BY LifeInvInit, LifeInvStep, PTL DEF LifeSpec

\* Stages, path, connections and history keep their types.
THEOREM LifeTypeCorrect == LifeSpec => []LifeTypeOK
BY LifeInvHolds, PTL DEF LifeInv

\* No hook is answered in a daemon that is not wired yet (daemon.py start).
THEOREM ReadyHandlersHolds == LifeSpec => []ReadyHandlers
<1>1. LifeInv => ReadyHandlers
  BY DEF LifeInv, PartsByStage, HeldByDaemon, ReadyHandlers, AtWork, Unwired
<1> QED BY <1>1, LifeInvHolds, PTL

\* A daemon that has always been alone can bind, and is behind the path while its
\* socket is open, after any crash (ipc/server.py start).
THEOREM AloneIsReachableHolds == LifeSpec => []AloneIsReachable
<1>1. LifeInv => AloneIsReachable
  BY DEF LifeInv, LoneHasPath, AloneIsReachable, Listens, AtWork
<1> QED BY <1>1, LifeInvHolds, PTL

\* Daemons that leave in order leave nothing at the path (ipc/server.py stop).
THEOREM NothingLeftHolds == LifeSpec => []NothingLeft
<1>1. LifeInv => NothingLeft
  BY DEF LifeInv, LifeTypeOK, PathIsOwned, NothingLeft, Alive, AtWork
<1> QED BY <1>1, LifeInvHolds, PTL
================================================================================
