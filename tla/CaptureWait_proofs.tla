--------------------------- MODULE CaptureWait_proofs ---------------------------
(***************************************************************************)
(* Theorems about CaptureWait: what wait_for returns is in the cache, and  *)
(* was announced after the call began; for any number of processes, calls  *)
(* and captures and any filters.  What the poller does for itself is taken *)
(* from LmdbSync_proofs: a composed step is one of its steps, or none.     *)
(***************************************************************************)
EXTENDS CaptureWait, LmdbSync_proofs

USE DEF reqableVars, cacheVars, daemonVars

\* Server only ever serves: a status command is a process of its own.
ServesOnly == mode[Server] = "serve"

QueueTypeOK ==
  /\ phase \in [Calls -> Queue!Phase]
  /\ matched \in [Calls -> Record \cup {None}]
  /\ result \in [Calls -> Record \cup {None}]
  /\ atAdd \in [Calls -> SUBSET Record]

\* A call that has not begun holds nothing.
NewIsBlank ==
  \A c \in Calls : phase[c] = "new" =>
    c \notin waiters /\ matched[c] = None /\ result[c] = None

\* What the queue holds was announced, and what a call holds was announced after
\* it registered.
HoldsAnnounced ==
  \A c \in Calls :
    /\ atAdd[c] \subseteq notified[Server]
    /\ matched[c] # None => matched[c] \in notified[Server] \ atAdd[c]
    /\ result[c] # None => result[c] \in notified[Server] \ atAdd[c]

QueueInv == ServesOnly /\ QueueTypeOK /\ NewIsBlank /\ HoldsAnnounced

-------------------------------------------------------------------------------
(* The composition only restricts the poller.                                *)

LEMMA StepOfPoller == [CaptureWaitNext]_allVars => [Next]_vars
<1> SUFFICES ASSUME [CaptureWaitNext]_allVars PROVE [Next]_vars
  OBVIOUS
<1> USE ServerAssumption
<1>1. CASE Background
  BY <1>1 DEF Background, ServerStep, Next, Process, Thread
<1>2. ASSUME NEW r \in batch[Server], Announce(r) PROVE Next
  BY <1>2 DEF Announce, Next, Process, Thread
<1>3. CASE ServerEnds
  BY <1>3 DEF ServerEnds, Next, Process, Thread
<1>4. ASSUME NEW c \in Calls, Call(c) PROVE UNCHANGED vars
  BY <1>4 DEF Call
<1>5. CASE UNCHANGED allVars
  BY <1>5 DEF allVars
<1> QED BY <1>1, <1>2, <1>3, <1>4, <1>5 DEF CaptureWaitNext

LEMMA PollerInvHolds ==
  CaptureWaitSpec => [](TypeOK /\ AnnouncedIsCached /\ AnnouncedOnce)
<1>1. CaptureWaitInit => Init
  BY DEF CaptureWaitInit
<1>2. CaptureWaitSpec => Spec
  BY <1>1, StepOfPoller, PTL DEF CaptureWaitSpec, Spec
<1> QED BY <1>2, TypeCorrect, AnnouncedIsCachedHolds, AnnouncedOnceHolds, PTL

-------------------------------------------------------------------------------
(* The queue.                                                                *)

LEMMA QueueInvInit == CaptureWaitInit => QueueInv
BY ServerAssumption
   DEF CaptureWaitInit, Init, NoCalls, Queue!WaitInit, Queue!Phase, QueueInv, ServesOnly,
       QueueTypeOK, NewIsBlank, HoldsAnnounced

\* Another process does not touch what Server has announced.
LEMMA OthersKeepServer ==
  ASSUME TypeOK, NEW d \in Daemons \ {Server}, Process(d)
  PROVE  notified'[Server] = notified[Server] /\ mode'[Server] = mode[Server]
<1> USE ServerAssumption DEF TypeOK
<1>1. CASE Forgets(d)
  BY <1>1 DEF Forgets
<1>2. CASE EndIteration(d) \/ Raise(d)
  BY <1>1, <1>2 DEF EndIteration, Raise
<1>3. CASE Start(d) \/ StartStatus(d) \/ Stop(d)
  BY <1>3 DEF Start, StartStatus, Stop
<1>4. CASE Poll(d) \/ BeginScan(d) \/ Recover(d)
  BY <1>4 DEF Poll, BeginScan, Recover
<1>5. CASE Walk(d)
  BY <1>2, <1>5 DEF Walk
<1>6. CASE CommitBatch(d)
  BY <1>1, <1>6 DEF CommitBatch
<1>7. CASE \E r \in batch[d] : Notify(d, r)
  BY <1>7 DEF Notify
<1>8. CASE Crash(d) \/ Exit(d) \/ EndNotify(d) \/ WriteFails(d)
  BY <1>1, <1>2, <1>8 DEF Crash, Exit, EndNotify, WriteFails
<1> QED BY <1>3, <1>4, <1>5, <1>6, <1>7, <1>8 DEF Process, Thread

\* Nor does Server while it neither announces nor ends.
LEMMA ServerStepKeepsServer ==
  ASSUME ServesOnly, ServerStep
  PROVE  notified' = notified /\ mode' = mode
<1> USE DEF ServesOnly
<1>1. EndIteration(Server) \/ Raise(Server) => notified' = notified /\ mode' = mode
  BY DEF EndIteration, Raise
<1>2. CASE Walk(Server)
  BY <1>1, <1>2 DEF Walk
<1>3. CASE CommitBatch(Server)
  BY <1>3 DEF CommitBatch
<1>4. CASE EndNotify(Server) \/ WriteFails(Server)
  BY <1>1, <1>4 DEF EndNotify, WriteFails
<1>5. CASE Start(Server) \/ Stop(Server) \/ Poll(Server) \/ BeginScan(Server) \/ Recover(Server)
  BY <1>5 DEF Start, Stop, Poll, BeginScan, Recover
<1> QED BY <1>2, <1>3, <1>4, <1>5 DEF ServerStep

LEMMA BackgroundKeepsInv ==
  ASSUME TypeOK, QueueInv, Background
  PROVE  QueueInv'
<1>1. notified'[Server] = notified[Server] /\ mode'[Server] = mode[Server]
  <2>1. CASE Reqable
    BY <2>1 DEF Reqable, Put, Delete, Recreate
  <2>2. CASE ServerStep
    BY <2>2, ServerStepKeepsServer DEF QueueInv
  <2>3. CASE \E d \in Daemons \ {Server} : Process(d)
    BY <2>3, OthersKeepServer
  <2> QED BY <2>1, <2>2, <2>3 DEF Background
<1>2. UNCHANGED queueVars
  BY DEF Background
<1> QED BY <1>1, <1>2 DEF queueVars, QueueInv, ServesOnly, QueueTypeOK, NewIsBlank, HoldsAnnounced

\* An announcement stamps calls with a capture that was never announced before.
LEMMA AnnounceKeepsInv ==
  ASSUME TypeOK, AnnouncedOnce, QueueInv, NEW r \in batch[Server], Announce(r)
  PROVE  QueueInv'
<1> USE ServerAssumption
<1>1. /\ mode' = mode
      /\ notified'[Server] = notified[Server] \cup {r}
      /\ UNCHANGED <<phase, result, atAdd>>
      /\ waiters' \subseteq waiters
  BY DEF Announce, Notify, Queue!NotifyWaiters, TypeOK
<1>2. r \in Record /\ r \notin notified[Server]
  BY DEF TypeOK, AnnouncedOnce
<1>3. /\ matched' \in [Calls -> Record \cup {None}]
      /\ \A c \in Calls :
           \/ matched'[c] = matched[c]
           \/ matched'[c] = r /\ c \in waiters
  BY <1>2 DEF Announce, Queue!NotifyWaiters, Queue!Open, QueueInv, QueueTypeOK
<1>4. ServesOnly' /\ QueueTypeOK'
  BY <1>1, <1>3 DEF QueueInv, ServesOnly, QueueTypeOK
<1>5. NewIsBlank'
  BY <1>1, <1>3 DEF QueueInv, NewIsBlank
<1>6. HoldsAnnounced'
  BY <1>1, <1>2, <1>3 DEF QueueInv, HoldsAnnounced
<1> QED BY <1>4, <1>5, <1>6 DEF QueueInv

LEMMA ServerEndsKeepsInv ==
  ASSUME TypeOK, QueueInv, ServerEnds
  PROVE  QueueInv'
<1>1. notified'[Server] = {} /\ mode'[Server] = "serve"
  BY ServerAssumption DEF ServerEnds, Crash, Exit, Forgets, TypeOK
<1> QED BY <1>1 DEF ServerEnds, Queue!Phase, QueueInv, ServesOnly, QueueTypeOK, NewIsBlank,
                    HoldsAnnounced

\* A call's own steps: it registers when it is blank, and returns its stamp.
LEMMA CallKeepsInv ==
  ASSUME TypeOK, QueueInv, NEW c \in Calls, Call(c)
  PROVE  QueueInv'
<1> USE DEF QueueInv, ServesOnly, QueueTypeOK, NewIsBlank, HoldsAnnounced, Queue!Phase, Queue!GoesTo
<1>1. UNCHANGED <<mode, notified>> /\ notified[Server] \subseteq Record
  BY ServerAssumption DEF Call, vars, TypeOK
<1>2. CASE Queue!Add(c)
  BY <1>1, <1>2 DEF Call, Queue!Add
<1>3. CASE Queue!Lookup(c)
  BY <1>1, <1>3 DEF Call, Queue!Lookup
<1>4. CASE Queue!Wake(c) \/ Queue!TimeOut(c)
  BY <1>1, <1>4 DEF Call, Queue!Wake, Queue!TimeOut
<1>5. CASE Queue!Pop(c)
  BY <1>1, <1>5 DEF Call, Queue!Pop
<1>6. CASE Queue!Cancel(c)
  BY <1>1, <1>6 DEF Call, Queue!Cancel
<1> QED BY <1>2, <1>3, <1>4, <1>5, <1>6 DEF Call, Queue!CallStep

LEMMA QueueInvHolds == CaptureWaitSpec => []QueueInv
<1>1. TypeOK /\ AnnouncedOnce /\ QueueInv /\ [CaptureWaitNext]_allVars => QueueInv'
  <2>1. TypeOK /\ QueueInv /\ UNCHANGED allVars => QueueInv'
    BY DEF allVars, queueVars, vars, QueueInv, ServesOnly, QueueTypeOK, NewIsBlank, HoldsAnnounced
  <2> QED BY <2>1, BackgroundKeepsInv, AnnounceKeepsInv, ServerEndsKeepsInv, CallKeepsInv
          DEF CaptureWaitNext
<1> QED BY <1>1, QueueInvInit, PollerInvHolds, PTL DEF CaptureWaitSpec

\* What wait_for returns has its row in the cache, and keeps it
\* (lmdb_source.py:289-304, daemon.py:137).
THEOREM ResultIsCachedHolds == CaptureWaitSpec => []ResultIsCached
<1>1. AnnouncedIsCached /\ QueueInv => ResultIsCached
  BY ServerAssumption DEF AnnouncedIsCached, QueueInv, HoldsAnnounced, ResultIsCached
<1> QED BY <1>1, QueueInvHolds, PollerInvHolds, PTL

\* No call returns a capture that was announced before it registered.
THEOREM NoStaleAnnouncementHolds == CaptureWaitSpec => []NoStaleAnnouncement
<1>1. QueueInv => NoStaleAnnouncement
  BY DEF QueueInv, HoldsAnnounced, NoStaleAnnouncement
<1> QED BY <1>1, QueueInvHolds, PTL
===============================================================================
