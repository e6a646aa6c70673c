---------------------------- MODULE LmdbSync_proofs ----------------------------
(* Proofs about the poller, for every number of processes and of captures.   *)
EXTENDS LmdbSync, TLAPS

USE DEF reqableVars, cacheVars, daemonVars

-------------------------------------------------------------------------------
(* Type correctness.                                                         *)

LEMMA ForgetsType ==
  ASSUME TypeOK, NEW d \in Daemons, Forgets(d)
  PROVE  /\ pc' \in [Daemons -> Control]
         /\ mode' \in [Daemons -> {"serve", "status"}]
         /\ stopping' \in [Daemons -> BOOLEAN]
         /\ lastSeen' \in [Daemons -> 0..MaxOb]
         /\ curTxn' \in [Daemons -> Nat]
         /\ seenTxn' \in [Daemons -> Nat]
         /\ snap' \in [Daemons -> [recs : SUBSET Record, txn : Nat]]
         /\ batch' \in [Daemons -> SUBSET Record]
         /\ notified' \in [Daemons -> SUBSET Record]
BY SyncAssumption DEF TypeOK, Forgets, Control, NoSnap

LEMMA EndIterationType ==
  ASSUME TypeOK, NEW d \in Daemons, EndIteration(d)
  PROVE  /\ pc' \in [Daemons -> Control]
         /\ mode' \in [Daemons -> {"serve", "status"}]
         /\ stopping' \in [Daemons -> BOOLEAN]
         /\ lastSeen' \in [Daemons -> 0..MaxOb]
         /\ curTxn' \in [Daemons -> Nat]
         /\ seenTxn' \in [Daemons -> Nat]
         /\ snap' \in [Daemons -> [recs : SUBSET Record, txn : Nat]]
         /\ batch' \in [Daemons -> SUBSET Record]
         /\ notified' \in [Daemons -> SUBSET Record]
<1>1. CASE mode[d] = "status"
  BY <1>1, ForgetsType DEF EndIteration
<1>2. CASE mode[d] # "status"
  <2>1. /\ pc' = [pc EXCEPT ![d] = "poll"]
        /\ seenTxn' = [seenTxn EXCEPT ![d] = curTxn[d]]
        /\ snap' = [snap EXCEPT ![d] = NoSnap]
        /\ batch' = [batch EXCEPT ![d] = {}]
        /\ UNCHANGED <<mode, stopping, lastSeen, curTxn, notified>>
    BY <1>2 DEF EndIteration
  <2> QED BY <2>1 DEF TypeOK, Control, NoSnap
<1> QED BY <1>1, <1>2

LEMMA RaiseType ==
  ASSUME TypeOK, NEW d \in Daemons, Raise(d)
  PROVE  /\ pc' \in [Daemons -> Control]
         /\ mode' \in [Daemons -> {"serve", "status"}]
         /\ stopping' \in [Daemons -> BOOLEAN]
         /\ lastSeen' \in [Daemons -> 0..MaxOb]
         /\ curTxn' \in [Daemons -> Nat]
         /\ seenTxn' \in [Daemons -> Nat]
         /\ snap' \in [Daemons -> [recs : SUBSET Record, txn : Nat]]
         /\ batch' \in [Daemons -> SUBSET Record]
         /\ notified' \in [Daemons -> SUBSET Record]
<1>1. CASE mode[d] = "status"
  BY <1>1, ForgetsType DEF Raise
<1>2. CASE mode[d] # "status"
  <2>1. /\ pc' = [pc EXCEPT ![d] = "error"]
        /\ snap' = [snap EXCEPT ![d] = NoSnap]
        /\ batch' = [batch EXCEPT ![d] = {}]
        /\ UNCHANGED <<mode, stopping, lastSeen, curTxn, seenTxn, notified>>
    BY <1>2 DEF Raise
  <2> QED BY <2>1 DEF TypeOK, Control, NoSnap
<1> QED BY <1>1, <1>2

\* What a walk keeps are records of the snapshot.
LEMMA ReadableInSnap ==
  ASSUME NEW d \in Daemons, NEW S \in Readable(d)
  PROVE  S \subseteq snap[d].recs
BY DEF Readable

LEMMA NextTypeOK == TypeOK /\ [Next]_vars => TypeOK'
<1> SUFFICES ASSUME TypeOK, [Next]_vars PROVE TypeOK'
  OBVIOUS
<1> USE SyncAssumption
<1>1. ASSUME NEW k \in Kinds, Put(k) PROVE TypeOK'
  <2>1. [ob |-> nextOb, epoch |-> epoch, kind |-> k] \in Record
    BY <1>1 DEF Put, TypeOK, Record
  <2> QED BY <1>1, <2>1 DEF Put, TypeOK
<1>2. ASSUME NEW r \in lmdb, Delete(r) PROVE TypeOK'
  BY <1>2 DEF Delete, TypeOK
<1>3. ASSUME Recreate PROVE TypeOK'
  BY <1>3 DEF Recreate, TypeOK
<1>4. ASSUME NEW d \in Daemons, Start(d) PROVE TypeOK'
  BY <1>4 DEF Start, TypeOK, Control
<1>5. ASSUME NEW d \in Daemons, StartStatus(d) PROVE TypeOK'
  BY <1>5 DEF StartStatus, TypeOK, Control
<1>6. ASSUME NEW d \in Daemons, Stop(d) PROVE TypeOK'
  BY <1>6 DEF Stop, TypeOK
<1>7. ASSUME NEW d \in Daemons, Crash(d) PROVE TypeOK'
  BY <1>7, ForgetsType DEF Crash, TypeOK
<1>8. ASSUME NEW d \in Daemons, Poll(d) PROVE TypeOK'
  BY <1>8 DEF Poll, TypeOK, Control
<1>9. ASSUME NEW d \in Daemons, Exit(d) PROVE TypeOK'
  BY <1>9, ForgetsType DEF Exit, TypeOK
<1>10. ASSUME NEW d \in Daemons, BeginScan(d) PROVE TypeOK'
  BY <1>10 DEF BeginScan, TypeOK, Control
<1>11. ASSUME NEW d \in Daemons, Walk(d) PROVE TypeOK'
  <2>1. UNCHANGED <<reqableVars, cacheVars>>
    BY <1>11 DEF Walk
  <2>2. PICK seen \in Readable(d) :
          LET new == Fresh(seen, lastSeen[d]) IN
          \/ Raise(d)
          \/ EndIteration(d)
          \/ /\ pc' = [pc EXCEPT ![d] = "write"]
             /\ snap' = [snap EXCEPT ![d] = NoSnap]
             /\ batch' = [batch EXCEPT ![d] = new]
             /\ UNCHANGED <<mode, stopping, lastSeen, curTxn, seenTxn, notified>>
    BY <1>11 DEF Walk
  <2>3. Fresh(seen, lastSeen[d]) \subseteq Record
    <3>1. snap[d].recs \subseteq Record
      BY DEF TypeOK
    <3> QED BY <3>1, ReadableInSnap DEF Fresh
  <2>4. CASE Raise(d)
    BY <2>1, <2>4, RaiseType DEF TypeOK
  <2>5. CASE EndIteration(d)
    BY <2>1, <2>5, EndIterationType DEF TypeOK
  <2>6. CASE /\ pc' = [pc EXCEPT ![d] = "write"]
             /\ snap' = [snap EXCEPT ![d] = NoSnap]
             /\ batch' = [batch EXCEPT ![d] = Fresh(seen, lastSeen[d])]
             /\ UNCHANGED <<mode, stopping, lastSeen, curTxn, seenTxn, notified>>
    BY <2>1, <2>3, <2>6 DEF TypeOK, Control, NoSnap
  <2> QED BY <2>2, <2>4, <2>5, <2>6
<1>12. ASSUME NEW d \in Daemons, CommitBatch(d) PROVE TypeOK'
  <2>1. PICK m \in batch[d] :
          /\ cursor' = m.ob
          /\ \/ Forgets(d)
             \/ /\ lastSeen' = [lastSeen EXCEPT ![d] = m.ob]
                /\ pc' = [pc EXCEPT ![d] = "notify"]
                /\ UNCHANGED <<mode, stopping, curTxn, seenTxn, snap, batch, notified>>
    BY <1>12 DEF CommitBatch, LastOf
  <2>2. m \in Record /\ m.ob \in 0..MaxOb
    BY DEF TypeOK, Record
  <2>3. rows' \subseteq Record /\ cursor' \in 0..MaxOb
    BY <1>12, <2>1, <2>2 DEF CommitBatch, Upsert, TypeOK
  <2>4. UNCHANGED reqableVars
    BY <1>12 DEF CommitBatch
  <2>5. CASE Forgets(d)
    BY <2>3, <2>4, <2>5, ForgetsType DEF TypeOK
  <2>6. CASE /\ lastSeen' = [lastSeen EXCEPT ![d] = m.ob]
             /\ pc' = [pc EXCEPT ![d] = "notify"]
             /\ UNCHANGED <<mode, stopping, curTxn, seenTxn, snap, batch, notified>>
    BY <2>2, <2>3, <2>4, <2>6 DEF TypeOK, Control
  <2> QED BY <2>1, <2>5, <2>6
<1>13. ASSUME NEW d \in Daemons, NEW r \in batch[d], Notify(d, r) PROVE TypeOK'
  BY <1>13 DEF Notify, TypeOK
<1>14. ASSUME NEW d \in Daemons, EndNotify(d) PROVE TypeOK'
  BY <1>14, EndIterationType DEF EndNotify, TypeOK
<1>15. ASSUME NEW d \in Daemons, Recover(d) PROVE TypeOK'
  BY <1>15 DEF Recover, TypeOK, Control
<1>16. ASSUME NEW d \in Daemons, WriteFails(d) PROVE TypeOK'
  BY <1>16, RaiseType DEF WriteFails, TypeOK
<1>17. CASE UNCHANGED vars
  BY <1>17 DEF vars, TypeOK
<1> QED
  BY <1>1, <1>2, <1>3, <1>4, <1>5, <1>6, <1>7, <1>8, <1>9, <1>10, <1>11, <1>12,
     <1>13, <1>14, <1>15, <1>16, <1>17 DEF Next, Reqable, Process, Thread

\* Every state of the poller is well typed.
THEOREM TypeCorrect == Spec => []TypeOK
<1>1. Init => TypeOK
  BY SyncAssumption DEF Init, TypeOK, Control, NoSnap, Record
<1> QED BY <1>1, NextTypeOK, PTL DEF Spec

-------------------------------------------------------------------------------
(* The cursor never runs ahead of the cache.                                 *)

\* Dying, or ending a status command, disturbs no part of the invariant.
LEMMA ForgetsSyncInv ==
  ASSUME TypeOK, SyncInv, NEW d \in Daemons, Forgets(d),
         UNCHANGED <<reqableVars, cacheVars>>
  PROVE  SyncInv'
<1> USE DEF Forgets, TypeOK, NoSnap, Record
<1>1. \A e \in Daemons :
        /\ e # d => /\ pc'[e] = pc[e] /\ lastSeen'[e] = lastSeen[e]
                    /\ snap'[e] = snap[e] /\ batch'[e] = batch[e]
                    /\ notified'[e] = notified[e]
        /\ e = d => /\ pc'[e] = "off" /\ lastSeen'[e] = 0
                    /\ snap'[e].recs = {} /\ batch'[e] = {}
                    /\ notified'[e] = {}
  OBVIOUS
<1>2. IdsGrow' /\ AllWereWritten'
  BY <1>1 DEF SyncInv, IdsGrow, AllWereWritten, Decodable
<1>3. SnapMissesOnlyNewer' /\ BatchMissesOnlyNewer' /\ BatchIsAboveCursor'
  BY <1>1 DEF SyncInv, SnapMissesOnlyNewer, BatchMissesOnlyNewer,
              BatchIsAboveCursor, Decodable
<1>4. NoGap' /\ AnnouncedIsCached' /\ AnnouncedOnce'
  <2>1. \A r \in lmdb : ~(r.ob <= 0)
    OBVIOUS
  <2> QED BY <1>1, <2>1 DEF SyncInv, NoGap, AnnouncedIsCached, AnnouncedOnce
<1> QED BY <1>2, <1>3, <1>4 DEF SyncInv

\* Leaving the scan or the announcements with an empty batch disturbs nothing.
LEMMA LeaveSyncInv ==
  ASSUME TypeOK, SyncInv, NEW d \in Daemons, NEW p \in {"poll", "error"},
         pc' = [pc EXCEPT ![d] = p],
         snap' = [snap EXCEPT ![d] = NoSnap],
         batch' = [batch EXCEPT ![d] = {}],
         UNCHANGED <<reqableVars, cacheVars, lastSeen, notified>>
  PROVE  SyncInv'
<1> USE DEF TypeOK, NoSnap
<1>1. \A e \in Daemons :
        /\ e # d => /\ pc'[e] = pc[e] /\ snap'[e] = snap[e] /\ batch'[e] = batch[e]
        /\ e = d => /\ pc'[e] = p /\ snap'[e].recs = {} /\ batch'[e] = {}
  OBVIOUS
<1>2. IdsGrow' /\ AllWereWritten'
  BY <1>1 DEF SyncInv, IdsGrow, AllWereWritten, Decodable
<1>3. SnapMissesOnlyNewer' /\ BatchMissesOnlyNewer' /\ BatchIsAboveCursor'
  BY <1>1 DEF SyncInv, SnapMissesOnlyNewer, BatchMissesOnlyNewer,
              BatchIsAboveCursor, Decodable
<1>4. NoGap' /\ AnnouncedIsCached' /\ AnnouncedOnce'
  BY <1>1 DEF SyncInv, NoGap, AnnouncedIsCached, AnnouncedOnce
<1> QED BY <1>2, <1>3, <1>4 DEF SyncInv

LEMMA RaiseSyncInv ==
  ASSUME TypeOK, SyncInv, NEW d \in Daemons, Raise(d),
         UNCHANGED <<reqableVars, cacheVars>>
  PROVE  SyncInv'
BY ForgetsSyncInv, LeaveSyncInv DEF Raise

LEMMA EndIterationSyncInv ==
  ASSUME TypeOK, SyncInv, NEW d \in Daemons, EndIteration(d),
         UNCHANGED <<reqableVars, cacheVars>>
  PROVE  SyncInv'
BY ForgetsSyncInv, LeaveSyncInv DEF EndIteration

\* A control step of the poller that touches neither snapshot nor batch; a start
\* loads the cursor.
LEMMA MoveSyncInv ==
  ASSUME TypeOK, SyncInv, NEW d \in Daemons, NEW p \in {"poll", "begin"},
         pc[d] \in {"off", "poll", "error"},
         pc' = [pc EXCEPT ![d] = p],
         UNCHANGED <<reqableVars, cacheVars, snap, batch, notified>>,
         \/ lastSeen' = lastSeen
         \/ pc[d] = "off" /\ lastSeen' = [lastSeen EXCEPT ![d] = cursor]
  PROVE  SyncInv'
<1>1. \A e \in Daemons :
        /\ e # d => pc'[e] = pc[e] /\ lastSeen'[e] = lastSeen[e]
        /\ e = d => /\ pc'[e] = p
                    /\ \/ lastSeen'[e] = lastSeen[e]
                       \/ pc[e] = "off" /\ lastSeen'[e] = cursor
  <2>1. pc \in [Daemons -> Control] /\ lastSeen \in [Daemons -> 0..MaxOb]
    BY DEF TypeOK
  <2>2. \A e \in Daemons : pc'[e] = IF e = d THEN p ELSE pc[e]
    BY <2>1
  <2>3. CASE lastSeen' = lastSeen
    BY <2>2, <2>3
  <2>4. CASE pc[d] = "off" /\ lastSeen' = [lastSeen EXCEPT ![d] = cursor]
    BY <2>1, <2>2, <2>4
  <2> QED BY <2>3, <2>4
<1> USE DEF TypeOK
<1>2. IdsGrow' /\ AllWereWritten'
  BY <1>1 DEF SyncInv, IdsGrow, AllWereWritten, Decodable
<1>3. SnapMissesOnlyNewer' /\ BatchMissesOnlyNewer' /\ BatchIsAboveCursor'
  BY <1>1 DEF SyncInv, SnapMissesOnlyNewer, BatchMissesOnlyNewer,
              BatchIsAboveCursor, Decodable
<1>4. NoGap' /\ AnnouncedIsCached' /\ AnnouncedOnce'
  BY <1>1 DEF SyncInv, NoGap, AnnouncedIsCached, AnnouncedOnce
<1> QED BY <1>2, <1>3, <1>4 DEF SyncInv

\* A new capture is newer than everything any process has seen.
LEMMA PutSyncInv ==
  ASSUME TypeOK, SyncInv, NEW k \in Kinds, Put(k)
  PROVE  SyncInv'
<1> DEFINE new == [ob |-> nextOb, epoch |-> epoch, kind |-> k]
<1>1. /\ lmdb' = lmdb \cup {new} /\ everPut' = everPut \cup {new}
      /\ nextOb' = nextOb + 1
      /\ new.ob = nextOb
      /\ UNCHANGED <<cacheVars, daemonVars>>
  BY DEF Put
<1>2. nextOb \in Nat /\ cursor \in Nat
  BY SyncAssumption DEF TypeOK
<1>3. /\ \A r \in everPut : r.ob \in Nat /\ r.ob < nextOb
      /\ \A d \in Daemons : lastSeen[d] \in Nat /\ lastSeen[d] < nextOb
      /\ cursor < nextOb
  BY DEF TypeOK, Record, SyncInv, IdsGrow
<1> HIDE DEF new
<1>4. IdsGrow'
  BY <1>1, <1>2, <1>3 DEF SyncInv, IdsGrow
<1>5. AllWereWritten'
  BY <1>1 DEF SyncInv, AllWereWritten, Decodable
<1>6. SnapMissesOnlyNewer' /\ BatchMissesOnlyNewer'
  BY <1>1, <1>3 DEF SyncInv, SnapMissesOnlyNewer, BatchMissesOnlyNewer, Decodable,
                    AllWereWritten
<1>7. BatchIsAboveCursor' /\ AnnouncedIsCached' /\ AnnouncedOnce'
  BY <1>1 DEF SyncInv, BatchIsAboveCursor, AnnouncedIsCached, AnnouncedOnce
<1>8. NoGap'
  BY <1>1, <1>2, <1>3 DEF SyncInv, NoGap
<1> QED BY <1>4, <1>5, <1>6, <1>7, <1>8 DEF SyncInv

LEMMA DeleteSyncInv ==
  ASSUME TypeOK, SyncInv, NEW r \in lmdb, Delete(r)
  PROVE  SyncInv'
BY DEF Delete, SyncInv, IdsGrow, AllWereWritten, SnapMissesOnlyNewer,
       BatchMissesOnlyNewer, BatchIsAboveCursor, NoGap, AnnouncedIsCached,
       AnnouncedOnce, Decodable

LEMMA BeginScanSyncInv ==
  ASSUME TypeOK, SyncInv, NEW d \in Daemons, BeginScan(d)
  PROVE  SyncInv'
<1> USE DEF BeginScan, TypeOK
<1>1. \A e \in Daemons :
        /\ e # d => pc'[e] = pc[e] /\ snap'[e] = snap[e]
        /\ e = d => pc'[e] = "walk" /\ snap'[e].recs = lmdb
  OBVIOUS
<1>2. IdsGrow' /\ AllWereWritten'
  BY <1>1 DEF SyncInv, IdsGrow, AllWereWritten, Decodable
<1>3. SnapMissesOnlyNewer' /\ BatchMissesOnlyNewer' /\ BatchIsAboveCursor'
  BY <1>1 DEF SyncInv, SnapMissesOnlyNewer, BatchMissesOnlyNewer,
              BatchIsAboveCursor, Decodable
<1>4. NoGap' /\ AnnouncedIsCached' /\ AnnouncedOnce'
  BY <1>1 DEF SyncInv, NoGap, AnnouncedIsCached, AnnouncedOnce
<1> QED BY <1>2, <1>3, <1>4 DEF SyncInv

\* A walk that is not torn turns a snapshot that misses only newer captures into
\* a batch that misses only seen or newer ones.
LEMMA WalkSyncInv ==
  ASSUME TypeOK, SyncInv, ~TornReads, NEW d \in Daemons, Walk(d)
  PROVE  SyncInv'
<1> DEFINE new == Fresh(snap[d].recs, lastSeen[d])
<1>1. UNCHANGED <<reqableVars, cacheVars>> /\ pc[d] = "walk"
  BY DEF Walk
<1>2. \/ Raise(d)
      \/ EndIteration(d)
      \/ /\ pc' = [pc EXCEPT ![d] = "write"]
         /\ snap' = [snap EXCEPT ![d] = NoSnap]
         /\ batch' = [batch EXCEPT ![d] = new]
         /\ UNCHANGED <<mode, stopping, lastSeen, curTxn, seenTxn, notified>>
  BY DEF Walk, Readable
<1>3. CASE Raise(d)
  BY <1>1, <1>3, RaiseSyncInv
<1>4. CASE EndIteration(d)
  BY <1>1, <1>4, EndIterationSyncInv
<1>5. CASE /\ pc' = [pc EXCEPT ![d] = "write"]
           /\ snap' = [snap EXCEPT ![d] = NoSnap]
           /\ batch' = [batch EXCEPT ![d] = new]
           /\ UNCHANGED <<mode, stopping, lastSeen, curTxn, seenTxn, notified>>
  <2>1. \A e \in Daemons :
          /\ e # d => /\ pc'[e] = pc[e] /\ snap'[e] = snap[e]
                      /\ batch'[e] = batch[e]
          /\ e = d => /\ pc'[e] = "write" /\ snap'[e].recs = {}
                      /\ batch'[e] = new
    BY <1>5 DEF TypeOK, NoSnap
  <2>2. /\ new \subseteq Decodable(everPut)
        /\ new \subseteq snap[d].recs
        /\ \A r \in new : r.ob > lastSeen[d]
        /\ \A r \in Decodable(lmdb) :
              r.ob <= lastSeen[d] \/ r \in new \/ \A q \in new : q.ob < r.ob
    <3>1. lastSeen[d] \in Nat /\ \A r \in lmdb : r.ob \in Nat
      BY DEF TypeOK, Record
    <3> QED
      BY <1>1, <3>1 DEF Fresh, Decodable, SyncInv, AllWereWritten, SnapMissesOnlyNewer
  <2>3. new \cap notified[d] = {}
    <3>1. lastSeen[d] \in Nat /\ \A r \in notified[d] : r.ob \in Nat
      BY DEF TypeOK, Record
    <3> QED BY <2>2, <3>1 DEF SyncInv, BatchIsAboveCursor
  <2> HIDE DEF new
  <2>4. IdsGrow' /\ AllWereWritten'
    BY <1>1, <1>5, <2>1, <2>2 DEF SyncInv, IdsGrow, AllWereWritten, Decodable
  <2>5. SnapMissesOnlyNewer'
    BY <1>1, <1>5, <2>1 DEF SyncInv, SnapMissesOnlyNewer
  <2>6. BatchMissesOnlyNewer' /\ BatchIsAboveCursor'
    BY <1>1, <1>5, <2>1, <2>2 DEF SyncInv, BatchMissesOnlyNewer,
                                  BatchIsAboveCursor, Decodable
  <2>7. NoGap' /\ AnnouncedIsCached' /\ AnnouncedOnce'
    BY <1>1, <1>5, <2>1, <2>3 DEF SyncInv, NoGap, AnnouncedIsCached, AnnouncedOnce
  <2> QED BY <2>4, <2>5, <2>6, <2>7 DEF SyncInv
<1> QED BY <1>2, <1>3, <1>4, <1>5

\* Ids identify captures, so INSERT OR REPLACE never evicts another capture.
LEMMA UpsertKeeps ==
  ASSUME SyncInv, NEW d \in Daemons
  PROVE  Upsert(batch[d]) = rows \cup batch[d]
BY DEF Upsert, SyncInv, AllWereWritten, IdsGrow, Decodable

LEMMA CommitBatchSyncInv ==
  ASSUME TypeOK, SyncInv, NEW d \in Daemons, CommitBatch(d)
  PROVE  SyncInv'
<1>1. PICK m \in batch[d] :
        /\ \A r \in batch[d] : r.ob <= m.ob
        /\ cursor' = m.ob
        /\ \/ Forgets(d)
           \/ /\ lastSeen' = [lastSeen EXCEPT ![d] = m.ob]
              /\ pc' = [pc EXCEPT ![d] = "notify"]
              /\ UNCHANGED <<mode, stopping, curTxn, seenTxn, snap, batch, notified>>
  BY DEF CommitBatch, LastOf
<1>2. pc[d] = "write" /\ rows' = rows \cup batch[d] /\ UNCHANGED reqableVars
  BY UpsertKeeps DEF CommitBatch
<1>3. \A e \in Daemons :
        /\ e # d => /\ pc'[e] = pc[e] /\ lastSeen'[e] = lastSeen[e]
                    /\ snap'[e] = snap[e] /\ batch'[e] = batch[e]
                    /\ notified'[e] = notified[e]
        /\ e = d => \/ /\ pc'[e] = "off" /\ lastSeen'[e] = 0
                       /\ snap'[e].recs = {} /\ batch'[e] = {}
                       /\ notified'[e] = {}
                    \/ /\ pc'[e] = "notify" /\ lastSeen'[e] = m.ob
                       /\ snap'[e] = snap[e] /\ batch'[e] = batch[e]
                       /\ notified'[e] = notified[e]
  BY <1>1 DEF Forgets, TypeOK, NoSnap
<1>4. /\ m \in everPut /\ m.ob \in Nat /\ m.ob < nextOb /\ nextOb \in Nat
      /\ lastSeen[d] \in Nat /\ m.ob > lastSeen[d]
      /\ \A r \in lmdb : r.ob \in Nat /\ r.ob >= 1
      /\ \A e \in Daemons : \A r \in batch[e] \cup notified[e] : r.ob \in Nat
  BY <1>2, SyncAssumption DEF TypeOK, Record, SyncInv, AllWereWritten, IdsGrow,
                              BatchIsAboveCursor, Decodable
<1>5. IdsGrow'
  BY <1>1, <1>2, <1>3, <1>4 DEF SyncInv, IdsGrow
<1>6. AllWereWritten'
  BY <1>2, <1>3 DEF SyncInv, AllWereWritten, Decodable
<1>7. SnapMissesOnlyNewer' /\ BatchMissesOnlyNewer'
  BY <1>2, <1>3 DEF SyncInv, SnapMissesOnlyNewer, BatchMissesOnlyNewer, Decodable
<1>8. BatchIsAboveCursor'
  BY <1>1, <1>2, <1>3, <1>4 DEF SyncInv, BatchIsAboveCursor
<1>9. NoGap'
  <2>1. ASSUME NEW r \in lmdb, r.kind = "ok", r.ob <= m.ob PROVE r \in rows'
    BY <1>1, <1>2, <1>4, <2>1 DEF SyncInv, NoGap, BatchMissesOnlyNewer, Decodable
  <2> QED BY <1>1, <1>2, <1>3, <1>4, <2>1 DEF SyncInv, NoGap
<1>10. AnnouncedIsCached' /\ AnnouncedOnce'
  BY <1>2, <1>3 DEF SyncInv, AnnouncedIsCached, AnnouncedOnce
<1> QED BY <1>5, <1>6, <1>7, <1>8, <1>9, <1>10 DEF SyncInv

LEMMA NotifySyncInv ==
  ASSUME TypeOK, SyncInv, NEW d \in Daemons, NEW r \in batch[d], Notify(d, r)
  PROVE  SyncInv'
<1>1. \A e \in Daemons :
        /\ e # d => batch'[e] = batch[e] /\ notified'[e] = notified[e]
        /\ e = d => /\ batch'[e] = batch[e] \ {r}
                    /\ notified'[e] = notified[e] \cup {r}
  BY DEF Notify, TypeOK
<1>2. pc[d] = "notify" /\ UNCHANGED <<reqableVars, cacheVars, pc, lastSeen, snap>>
  BY DEF Notify
<1>3. IdsGrow' /\ AllWereWritten'
  BY <1>1, <1>2 DEF SyncInv, IdsGrow, AllWereWritten, Decodable
<1>4. SnapMissesOnlyNewer' /\ BatchMissesOnlyNewer' /\ BatchIsAboveCursor'
  BY <1>1, <1>2 DEF SyncInv, SnapMissesOnlyNewer, BatchMissesOnlyNewer,
                    BatchIsAboveCursor, Decodable
<1>5. NoGap' /\ AnnouncedIsCached' /\ AnnouncedOnce'
  BY <1>1, <1>2 DEF SyncInv, NoGap, AnnouncedIsCached, AnnouncedOnce
<1> QED BY <1>3, <1>4, <1>5 DEF SyncInv

LEMMA NextSyncInv ==
  ASSUME ~TornReads, MaxEpoch = 1
  PROVE  TypeOK /\ SyncInv /\ [Next]_vars => SyncInv'
<1> SUFFICES ASSUME TypeOK, SyncInv, [Next]_vars PROVE SyncInv'
  OBVIOUS
<1>1. ASSUME Reqable PROVE SyncInv'
  <2>1. ~Recreate
    BY DEF Recreate, TypeOK
  <2> QED BY <1>1, <2>1, PutSyncInv, DeleteSyncInv DEF Reqable
<1>2. ASSUME NEW d \in Daemons, Start(d) PROVE SyncInv'
  BY <1>2, MoveSyncInv DEF Start
<1>3. ASSUME NEW d \in Daemons, StartStatus(d) PROVE SyncInv'
  BY <1>3, MoveSyncInv DEF StartStatus
<1>4. ASSUME NEW d \in Daemons, Poll(d) PROVE SyncInv'
  BY <1>4, MoveSyncInv DEF Poll
<1>5. ASSUME NEW d \in Daemons, Recover(d) PROVE SyncInv'
  BY <1>5, MoveSyncInv DEF Recover
<1>6. ASSUME NEW d \in Daemons, Crash(d) \/ Exit(d) PROVE SyncInv'
  BY <1>6, ForgetsSyncInv DEF Crash, Exit
<1>7. ASSUME NEW d \in Daemons, EndNotify(d) PROVE SyncInv'
  BY <1>7, EndIterationSyncInv DEF EndNotify
<1>8. ASSUME NEW d \in Daemons, WriteFails(d) PROVE SyncInv'
  BY <1>8, RaiseSyncInv DEF WriteFails
<1>9. ASSUME NEW d \in Daemons, Stop(d) PROVE SyncInv'
  BY <1>9 DEF Stop, SyncInv, IdsGrow, AllWereWritten, SnapMissesOnlyNewer,
     BatchMissesOnlyNewer, BatchIsAboveCursor, NoGap, AnnouncedIsCached, AnnouncedOnce
<1>10. CASE UNCHANGED vars
  BY <1>10 DEF vars, SyncInv, IdsGrow, AllWereWritten, SnapMissesOnlyNewer,
     BatchMissesOnlyNewer, BatchIsAboveCursor, NoGap, AnnouncedIsCached, AnnouncedOnce
<1> QED
  BY <1>1, <1>2, <1>3, <1>4, <1>5, <1>6, <1>7, <1>8, <1>9, <1>10, BeginScanSyncInv,
     WalkSyncInv, CommitBatchSyncInv, NotifySyncInv DEF Next, Process, Thread

LEMMA InitSyncInv == Init => SyncInv
BY DEF Init, SyncInv, IdsGrow, AllWereWritten, SnapMissesOnlyNewer, Decodable, NoSnap,
   BatchMissesOnlyNewer, BatchIsAboveCursor, NoGap, AnnouncedIsCached, AnnouncedOnce

\* The inductive invariant, for untorn reads of a database never re-created.
THEOREM SyncInvariant ==
  ASSUME ~TornReads, MaxEpoch = 1
  PROVE  Spec => []SyncInv
BY InitSyncInv, NextSyncInv, TypeCorrect, PTL DEF Spec

\* However many processes share the cache and wherever they crash, no capture at
\* or below a cursor is missing from the cache.
THEOREM NoGapHolds ==
  ASSUME ~TornReads, MaxEpoch = 1
  PROVE  Spec => []NoGap
<1>1. SyncInv => NoGap
  BY DEF SyncInv
<1> QED BY <1>1, SyncInvariant, PTL

-------------------------------------------------------------------------------
(* The poller implements CaptureFeed.                                        *)

\* A status command announces nothing.
StatusIsSilent ==
  \A d \in Daemons : mode[d] = "status" =>
    pc[d] \in {"begin", "walk", "write"} /\ notified[d] = {}

LEMMA NextStatusIsSilent ==
  TypeOK /\ SyncInv /\ StatusIsSilent /\ [Next]_vars => StatusIsSilent'
<1> SUFFICES ASSUME TypeOK, SyncInv, StatusIsSilent, [Next]_vars
             PROVE  StatusIsSilent'
  OBVIOUS
<1> USE DEF StatusIsSilent, TypeOK
<1>1. CASE Reqable \/ UNCHANGED vars
  BY <1>1 DEF Reqable, Put, Delete, Recreate, vars
<1>2. ASSUME NEW d \in Daemons, Process(d) PROVE StatusIsSilent'
  <2>1. CASE Start(d) \/ StartStatus(d) \/ Stop(d) \/ Poll(d) \/ BeginScan(d) \/ Recover(d)
    BY <2>1 DEF Start, StartStatus, Stop, Poll, BeginScan, Recover, SyncInv,
                BatchIsAboveCursor
  <2>2. CASE Crash(d) \/ Exit(d)
    BY <2>2 DEF Crash, Exit, Forgets
  <2>3. CASE Walk(d)
    BY <2>3 DEF Walk, Raise, EndIteration, Forgets
  <2>4. CASE CommitBatch(d)
    BY <2>4 DEF CommitBatch, Forgets
  <2>5. CASE \E r \in batch[d] : Notify(d, r)
    BY <2>5 DEF Notify
  <2>6. CASE EndNotify(d)
    BY <2>6 DEF EndNotify, EndIteration, Forgets
  <2>7. CASE WriteFails(d)
    BY <2>7 DEF WriteFails, Raise, Forgets
  <2> QED BY <1>2, <2>1, <2>2, <2>3, <2>4, <2>5, <2>6, <2>7 DEF Process, Thread
<1> QED BY <1>1, <1>2 DEF Next

\* Dying is Forgo; so is the end of a status command.
LEMMA ForgetsIsForgo ==
  ASSUME TypeOK, NEW d \in Daemons, Forgets(d), UNCHANGED <<reqableVars, cacheVars>>
  PROVE  Feed!Next
<1>1. Feed!Forgo(d)
  BY DEF Feed!Forgo, Forgets
<1> QED BY <1>1 DEF Feed!Next

LEMMA StepImplementsFeed ==
  ASSUME ~TornReads, MaxEpoch = 1
  PROVE  TypeOK /\ SyncInv /\ StatusIsSilent /\ [Next]_vars => [Feed!Next]_(Feed!vars)
<1> SUFFICES ASSUME TypeOK, SyncInv, StatusIsSilent, [Next]_vars
             PROVE  Feed!Next \/ UNCHANGED Feed!vars
  OBVIOUS
<1>1. ASSUME NEW k \in Kinds, Put(k) PROVE Feed!Next \/ UNCHANGED Feed!vars
  <2> DEFINE new == [ob |-> nextOb, epoch |-> epoch, kind |-> k]
  <2>1. /\ lmdb' = lmdb \cup {new} /\ everPut' = everPut \cup {new}
        /\ new.ob = nextOb /\ new.kind = k
        /\ UNCHANGED <<cacheVars, daemonVars>>
    BY <1>1 DEF Put
  <2>2. new \in Record
    BY <1>1, SyncAssumption DEF Put, TypeOK, Record
  <2> HIDE DEF new
  <2>3. CASE k = "ok"
    <3>1. new \in Decodable(Record)
      BY <2>1, <2>2, <2>3 DEF Decodable
    <3>2. Feed!Publish(new)
      BY <2>1, <2>3 DEF Feed!Publish, Decodable, SyncInv, IdsGrow
    <3> QED BY <3>1, <3>2 DEF Feed!Next
  <2>4. CASE k # "ok"
    BY <2>1, <2>4 DEF Feed!vars, Decodable
  <2> QED BY <2>3, <2>4
<1>2. ASSUME NEW r \in lmdb, Delete(r) PROVE Feed!Next \/ UNCHANGED Feed!vars
  <2>1. lmdb' = lmdb \ {r} /\ UNCHANGED <<everPut, cacheVars, daemonVars>>
    BY <1>2 DEF Delete
  <2>2. CASE r.kind = "ok"
    <3>1. r \in Decodable(Record)
      BY <2>2 DEF TypeOK, Decodable
    <3>2. Feed!Forget(r)
      BY <2>1, <2>2 DEF Feed!Forget, Decodable
    <3> QED BY <3>1, <3>2 DEF Feed!Next
  <2>3. CASE r.kind # "ok"
    BY <2>1, <2>3 DEF Feed!vars, Decodable
  <2> QED BY <2>2, <2>3
<1>3. ~Recreate
  BY DEF Recreate, TypeOK
<1>4. ASSUME NEW d \in Daemons, CommitBatch(d) PROVE Feed!Next
  <2>1. rows' = rows \cup batch[d] /\ pc[d] = "write" /\ UNCHANGED reqableVars
    BY <1>4, UpsertKeeps DEF CommitBatch
  <2>2. notified' = notified
    <3>1. CASE mode[d] = "status"
      <4>1. notified' = [notified EXCEPT ![d] = {}]
        BY <1>4, <3>1 DEF CommitBatch, Forgets
      <4>2. notified[d] = {} /\ notified \in [Daemons -> SUBSET Record]
        BY <3>1 DEF StatusIsSilent, TypeOK
      <4> QED BY <4>1, <4>2
    <3>2. CASE mode[d] # "status"
      BY <1>4, <3>2 DEF CommitBatch
    <3> QED BY <3>1, <3>2
  <2>3. /\ batch[d] \subseteq Decodable(everPut)
        /\ \A r \in Decodable(lmdb) :
             r \in rows \/ r \in batch[d] \/ \A q \in batch[d] : q.ob < r.ob
    BY <2>1 DEF SyncInv, AllWereWritten, BatchMissesOnlyNewer, NoGap, Decodable
  <2>4. \A r \in everPut : r.ob \in Nat
    BY DEF TypeOK, Record
  <2>5. Feed!Store(batch[d])
    BY <2>1, <2>2, <2>3, <2>4 DEF Feed!Store, Decodable, SyncInv, AllWereWritten
  <2> QED BY <2>3, <2>5 DEF Feed!Next
<1>5. ASSUME NEW d \in Daemons, NEW r \in batch[d], Notify(d, r)
      PROVE  Feed!Next \/ UNCHANGED Feed!vars
  <2>1. /\ r \in rows /\ r \in Decodable(Record)
        /\ notified' = [notified EXCEPT ![d] = @ \cup {r}]
        /\ UNCHANGED <<reqableVars, cacheVars>>
    BY <1>5 DEF Notify, SyncInv, AnnouncedIsCached, AllWereWritten, Decodable, TypeOK
  <2>2. r \notin notified[d]
    BY DEF SyncInv, AnnouncedOnce
  <2>3. Feed!Tell(d, r)
    BY <2>1, <2>2 DEF Feed!Tell
  <2> QED BY <2>1, <2>3 DEF Feed!Next
<1>6. ASSUME NEW d \in Daemons, Crash(d) \/ Exit(d) PROVE Feed!Next
  BY <1>6, ForgetsIsForgo DEF Crash, Exit
<1>7. ASSUME NEW d \in Daemons, Raise(d) \/ EndIteration(d),
             UNCHANGED <<reqableVars, cacheVars>>
      PROVE  Feed!Next \/ UNCHANGED Feed!vars
  <2>1. CASE mode[d] = "status"
    BY <1>7, <2>1, ForgetsIsForgo DEF Raise, EndIteration
  <2>2. CASE mode[d] # "status"
    BY <1>7, <2>2 DEF Raise, EndIteration, Feed!vars
  <2> QED BY <2>1, <2>2
<1>8. ASSUME NEW d \in Daemons, Walk(d) PROVE Feed!Next \/ UNCHANGED Feed!vars
  <2>1. \/ Raise(d) \/ EndIteration(d)
        \/ UNCHANGED notified
    BY <1>8 DEF Walk
  <2>2. UNCHANGED <<reqableVars, cacheVars>>
    BY <1>8 DEF Walk
  <2> QED BY <1>7, <2>1, <2>2 DEF Feed!vars
<1>9. ASSUME NEW d \in Daemons, EndNotify(d) \/ WriteFails(d)
      PROVE  Feed!Next \/ UNCHANGED Feed!vars
  BY <1>7, <1>9 DEF EndNotify, WriteFails
<1>10. ASSUME NEW d \in Daemons,
              Start(d) \/ StartStatus(d) \/ Stop(d) \/ Poll(d) \/ BeginScan(d) \/ Recover(d)
       PROVE  UNCHANGED Feed!vars
  BY <1>10 DEF Start, StartStatus, Stop, Poll, BeginScan, Recover, Feed!vars
<1>11. CASE UNCHANGED vars
  BY <1>11 DEF vars, Feed!vars
<1> QED
  BY <1>1, <1>2, <1>3, <1>4, <1>5, <1>6, <1>8, <1>9, <1>10, <1>11
     DEF Next, Reqable, Process, Thread

\* For every number of processes and captures, the poller implements CaptureFeed,
\* whatever crashes, failed transactions and status commands do.
THEOREM ImplementsFeed ==
  ASSUME ~TornReads, MaxEpoch = 1
  PROVE  Spec => FeedSpec
<1>1. Init => Feed!Init /\ StatusIsSilent
  BY DEF Init, Feed!Init, Decodable, StatusIsSilent
<1>2. Spec => []StatusIsSilent
  BY <1>1, SyncInvariant, TypeCorrect, NextStatusIsSilent, PTL DEF Spec
<1> QED
  BY <1>1, <1>2, SyncInvariant, TypeCorrect, StepImplementsFeed, PTL
     DEF Spec, FeedSpec, Feed!Spec

-------------------------------------------------------------------------------
(* What a process announces is cached and announced once: without any         *)
(* assumption, also when reads are torn and Reqable's database starts over.   *)
(*                                                                            *)
(* A database starts over only while no process has it open, so what a running*)
(* process holds is of the current epoch, where ids identify captures: INSERT *)
(* OR REPLACE evicts rows of an older epoch at most.                          *)

\* The records of Reqable's present database.
Current == {r \in everPut : r.epoch = epoch}

IdsIdentify ==
  /\ lmdb \subseteq Current
  /\ \A r \in everPut : r.epoch <= epoch
  /\ \A r \in Current : r.ob < nextOb
  /\ \A r, q \in Current : r.ob = q.ob => r = q

\* What process d holds: in a batch to be written what is beyond its cursor, in a
\* batch to be announced what is cached and within it, and what it has announced.
Holds(d) ==
  /\ snap[d].recs \cup batch[d] \cup notified[d] \subseteq Current
  /\ batch[d] # {} => pc[d] \in {"write", "notify"}
  /\ pc[d] = "write" => \A r \in batch[d] : r.ob > lastSeen[d]
  /\ pc[d] = "notify" => \A r \in batch[d] : r.ob <= lastSeen[d] /\ r \in rows
  /\ \A r \in notified[d] : r.ob <= lastSeen[d] /\ r \in rows
  /\ pc[d] = "off" => snap[d].recs = {} /\ notified[d] = {}
  /\ batch[d] \cap notified[d] = {}

AnnounceInv == IdsIdentify /\ \A d \in Daemons : Holds(d)

-------------------------------------------------------------------------------
(* Steps of one process.                                                     *)

\* The step leaves the other processes alone.
OnlyOf(d) ==
  \A e \in Daemons \ {d} :
    /\ pc'[e] = pc[e] /\ lastSeen'[e] = lastSeen[e] /\ snap'[e] = snap[e]
    /\ batch'[e] = batch[e] /\ notified'[e] = notified[e]

LEMMA StepOfOne ==
  ASSUME AnnounceInv, NEW d \in Daemons, OnlyOf(d), UNCHANGED reqableVars,
         rows \cap Current \subseteq rows', Holds(d)'
  PROVE  AnnounceInv'
<1>1. IdsIdentify' /\ Current' = Current
  BY DEF AnnounceInv, IdsIdentify, Current
<1>2. ASSUME NEW e \in Daemons \ {d} PROVE Holds(e)'
  <2>1. Holds(e) /\ UNCHANGED <<pc[e], lastSeen[e], snap[e], batch[e], notified[e]>>
    BY <1>2 DEF OnlyOf, AnnounceInv
  <2> QED BY <1>1, <2>1 DEF Holds
<1> QED BY <1>1, <1>2 DEF AnnounceInv

LEMMA ForgetsHoldsNothing ==
  ASSUME TypeOK, AnnounceInv, NEW d \in Daemons, Forgets(d), UNCHANGED reqableVars,
         rows \cap Current \subseteq rows'
  PROVE  AnnounceInv'
<1>1. OnlyOf(d)
  BY DEF Forgets, OnlyOf, TypeOK
<1>2. pc'[d] = "off" /\ snap'[d].recs = {} /\ batch'[d] = {} /\ notified'[d] = {}
  BY DEF Forgets, TypeOK, NoSnap
<1>3. Holds(d)'
  BY <1>2 DEF Holds
<1> QED BY <1>1, <1>3, StepOfOne

\* An iteration ends, or an exception leaves the scan.
LEMMA LeaveKeepsAnnounceInv ==
  ASSUME TypeOK, AnnounceInv, NEW d \in Daemons, EndIteration(d) \/ Raise(d),
         UNCHANGED <<reqableVars, cacheVars>>
  PROVE  AnnounceInv'
<1>1. CASE Forgets(d)
  BY <1>1, ForgetsHoldsNothing
<1>2. CASE /\ \E p \in {"poll", "error"} : pc' = [pc EXCEPT ![d] = p]
           /\ snap' = [snap EXCEPT ![d] = NoSnap]
           /\ batch' = [batch EXCEPT ![d] = {}]
           /\ UNCHANGED <<lastSeen, notified>>
  <2>1. OnlyOf(d)
    BY <1>2 DEF OnlyOf, TypeOK
  <2>2. pc'[d] \in {"poll", "error"} /\ snap'[d].recs = {} /\ batch'[d] = {}
    BY <1>2 DEF TypeOK, NoSnap
  <2>3. Holds(d)'
    BY <1>2, <2>2 DEF Holds, AnnounceInv, Current
  <2> QED BY <2>1, <2>3, StepOfOne
<1> QED BY <1>1, <1>2 DEF EndIteration, Raise

\* Steps that leave snapshot, batch and announcements as they are.
LEMMA MoveKeepsAnnounceInv ==
  ASSUME TypeOK, AnnounceInv, NEW d \in Daemons,
         Start(d) \/ StartStatus(d) \/ Stop(d) \/ Poll(d) \/ Recover(d)
  PROVE  AnnounceInv'
<1> USE DEF TypeOK
<1>1. OnlyOf(d) /\ UNCHANGED <<reqableVars, cacheVars, snap, batch, notified>>
  BY DEF Start, StartStatus, Stop, Poll, Recover, OnlyOf
<1>2. \/ pc[d] = "off" /\ pc'[d] \in {"poll", "begin"}
      \/ pc[d] \in {"poll", "error"} /\ pc'[d] \in {"poll", "begin"} /\ lastSeen' = lastSeen
      \/ UNCHANGED <<pc, lastSeen>>
  BY DEF Start, StartStatus, Stop, Poll, Recover
<1>3. Holds(d)'
  BY <1>1, <1>2 DEF Holds, AnnounceInv, Current
<1> QED BY <1>1, <1>3, StepOfOne

LEMMA BeginScanKeepsAnnounceInv ==
  ASSUME TypeOK, AnnounceInv, NEW d \in Daemons, BeginScan(d)
  PROVE  AnnounceInv'
<1> USE DEF BeginScan, TypeOK
<1>1. OnlyOf(d)
  BY DEF OnlyOf
<1>2. /\ pc[d] = "begin" /\ pc'[d] = "walk" /\ snap'[d].recs = lmdb
      /\ UNCHANGED <<reqableVars, cacheVars, lastSeen, batch, notified>>
  OBVIOUS
<1>3. Holds(d)'
  BY <1>2 DEF Holds, AnnounceInv, IdsIdentify, Current
<1> QED BY <1>1, <1>2, <1>3, StepOfOne

\* Whatever part of its snapshot a walk sees, its batch is beyond the cursor, and
\* so is none of what was announced.
LEMMA WalkKeepsAnnounceInv ==
  ASSUME TypeOK, AnnounceInv, NEW d \in Daemons, Walk(d)
  PROVE  AnnounceInv'
<1>1. UNCHANGED <<reqableVars, cacheVars>>
  BY DEF Walk
<1>2. CASE EndIteration(d) \/ Raise(d)
  BY <1>1, <1>2, LeaveKeepsAnnounceInv
<1>3. ASSUME NEW seen \in Readable(d),
             pc' = [pc EXCEPT ![d] = "write"],
             snap' = [snap EXCEPT ![d] = NoSnap],
             batch' = [batch EXCEPT ![d] = Fresh(seen, lastSeen[d])],
             UNCHANGED <<lastSeen, notified>>
      PROVE  AnnounceInv'
  <2>1. OnlyOf(d)
    BY <1>3 DEF OnlyOf, TypeOK
  <2>2. pc'[d] = "write" /\ snap'[d].recs = {} /\ batch'[d] = Fresh(seen, lastSeen[d])
    BY <1>3 DEF TypeOK, NoSnap
  <2>3. /\ Fresh(seen, lastSeen[d]) \subseteq snap[d].recs
        /\ \A r \in Fresh(seen, lastSeen[d]) : r.ob > lastSeen[d]
    BY ReadableInSnap DEF Fresh
  <2>4. lastSeen[d] \in Nat /\ \A r \in snap[d].recs \cup notified[d] : r.ob \in Nat
    BY DEF TypeOK, Record
  <2>5. Fresh(seen, lastSeen[d]) \cap notified[d] = {}
    BY <2>3, <2>4 DEF Holds, AnnounceInv
  <2>6. Holds(d)'
    BY <1>1, <1>3, <2>2, <2>3, <2>5 DEF Holds, AnnounceInv, Current
  <2> QED BY <1>1, <2>1, <2>6, StepOfOne
<1> QED BY <1>2, <1>3 DEF Walk

\* A commit evicts no row of the current epoch.
LEMMA CommitKeepsAnnounceInv ==
  ASSUME TypeOK, AnnounceInv, NEW d \in Daemons, CommitBatch(d)
  PROVE  AnnounceInv'
<1>1. /\ pc[d] = "write" /\ UNCHANGED reqableVars
      /\ batch[d] \subseteq rows'
      /\ rows \cap Current \subseteq rows'
  <2>1. batch[d] \subseteq Current
    BY DEF AnnounceInv, Holds
  <2>2. \A r \in rows \cap Current, q \in batch[d] : r.ob = q.ob => r = q
    BY <2>1 DEF AnnounceInv, IdsIdentify
  <2> QED BY <2>2 DEF CommitBatch, Upsert
<1>2. CASE Forgets(d)
  BY <1>1, <1>2, ForgetsHoldsNothing
<1>3. ASSUME NEW m \in LastOf(batch[d]),
             lastSeen' = [lastSeen EXCEPT ![d] = m.ob],
             pc' = [pc EXCEPT ![d] = "notify"],
             UNCHANGED <<snap, batch, notified>>
      PROVE  AnnounceInv'
  <2>1. OnlyOf(d)
    BY <1>3 DEF OnlyOf, TypeOK
  <2>2. pc'[d] = "notify" /\ lastSeen'[d] = m.ob
    BY <1>3 DEF TypeOK
  <2>3. m \in batch[d] /\ \A r \in batch[d] : r.ob <= m.ob
    BY DEF LastOf
  <2>4. lastSeen[d] \in Nat /\ \A r \in batch[d] \cup notified[d] : r.ob \in Nat
    BY DEF TypeOK, Record
  <2>5. \A r \in notified[d] : r.ob <= m.ob /\ r \in rows'
    BY <1>1, <2>3, <2>4 DEF Holds, AnnounceInv
  <2>6. Holds(d)'
    BY <1>1, <1>3, <2>2, <2>3, <2>5 DEF Holds, AnnounceInv, Current
  <2> QED BY <1>1, <2>1, <2>6, StepOfOne
<1> QED BY <1>2, <1>3 DEF CommitBatch

LEMMA NotifyKeepsAnnounceInv ==
  ASSUME TypeOK, AnnounceInv, NEW d \in Daemons, NEW r \in batch[d], Notify(d, r)
  PROVE  AnnounceInv'
<1> USE DEF Notify, TypeOK
<1>1. OnlyOf(d)
  BY DEF OnlyOf
<1>2. /\ pc[d] = "notify" /\ UNCHANGED <<reqableVars, cacheVars, pc, lastSeen, snap>>
      /\ batch'[d] = batch[d] \ {r} /\ notified'[d] = notified[d] \cup {r}
  OBVIOUS
<1>3. Holds(d)'
  BY <1>2 DEF Holds, AnnounceInv, Current
<1> QED BY <1>1, <1>2, <1>3, StepOfOne

-------------------------------------------------------------------------------
(* Reqable's steps.                                                          *)

LEMMA PutKeepsAnnounceInv ==
  ASSUME TypeOK, AnnounceInv, NEW k \in Kinds, Put(k)
  PROVE  AnnounceInv'
<1> DEFINE new == [ob |-> nextOb, epoch |-> epoch, kind |-> k]
<1>1. /\ lmdb' = lmdb \cup {new} /\ everPut' = everPut \cup {new}
      /\ nextOb' = nextOb + 1 /\ epoch' = epoch
      /\ UNCHANGED <<cacheVars, daemonVars>>
  BY DEF Put
<1>2. new.ob = nextOb /\ new.epoch = epoch
  OBVIOUS
<1>3. epoch \in Nat /\ nextOb \in Nat /\ \A r \in everPut : r.ob \in Nat /\ r.epoch \in Nat
  BY SyncAssumption DEF TypeOK, Record
<1> HIDE DEF new
<1>4. Current' = Current \cup {new}
  BY <1>1, <1>2 DEF Current
<1>5. IdsIdentify'
  <2>1. \A r \in Current : r.ob \in Nat /\ r.ob < nextOb
    BY <1>3 DEF AnnounceInv, IdsIdentify, Current
  <2> QED BY <1>1, <1>2, <1>3, <1>4, <2>1 DEF AnnounceInv, IdsIdentify
<1>6. ASSUME NEW d \in Daemons PROVE Holds(d)'
  BY <1>1, <1>4, <1>6 DEF AnnounceInv, Holds
<1> QED BY <1>5, <1>6 DEF AnnounceInv

LEMMA DeleteKeepsAnnounceInv ==
  ASSUME AnnounceInv, NEW r \in lmdb, Delete(r)
  PROVE  AnnounceInv'
BY DEF Delete, AnnounceInv, IdsIdentify, Holds, Current

\* A new epoch has no records yet, and nobody holds any.
LEMMA RecreateKeepsAnnounceInv ==
  ASSUME TypeOK, AnnounceInv, Recreate
  PROVE  AnnounceInv'
<1>1. /\ lmdb' = {} /\ epoch' = epoch + 1 /\ everPut' = everPut
      /\ UNCHANGED <<cacheVars, daemonVars>>
      /\ \A d \in Daemons : pc[d] = "off"
  BY DEF Recreate
<1>2. epoch \in Nat /\ \A r \in everPut : r.epoch \in Nat /\ r.epoch <= epoch
  BY DEF TypeOK, Record, AnnounceInv, IdsIdentify
<1>3. Current' = {}
  BY <1>1, <1>2 DEF Current
<1>4. IdsIdentify'
  BY <1>1, <1>2, <1>3 DEF IdsIdentify
<1>5. ASSUME NEW d \in Daemons PROVE Holds(d)'
  <2>1. Holds(d) /\ pc[d] = "off"
    BY <1>1 DEF AnnounceInv
  <2>2. snap[d].recs = {} /\ batch[d] = {} /\ notified[d] = {}
    BY <2>1 DEF Holds
  <2> QED BY <1>1, <2>1, <2>2 DEF Holds
<1> QED BY <1>4, <1>5 DEF AnnounceInv

-------------------------------------------------------------------------------
LEMMA AnnounceInvHolds == Spec => [](TypeOK /\ AnnounceInv)
<1>1. Init => AnnounceInv
  BY DEF Init, AnnounceInv, IdsIdentify, Holds, Current, NoSnap
<1>2. TypeOK /\ AnnounceInv /\ [Next]_vars => AnnounceInv'
  <2> SUFFICES ASSUME TypeOK, AnnounceInv, [Next]_vars PROVE AnnounceInv'
    OBVIOUS
  <2>1. CASE Reqable
    BY <2>1, PutKeepsAnnounceInv, DeleteKeepsAnnounceInv, RecreateKeepsAnnounceInv DEF Reqable
  <2>2. ASSUME NEW d \in Daemons, Crash(d) \/ Exit(d) PROVE AnnounceInv'
    BY <2>2, ForgetsHoldsNothing DEF Crash, Exit
  <2>3. ASSUME NEW d \in Daemons, EndNotify(d) \/ WriteFails(d) PROVE AnnounceInv'
    BY <2>3, LeaveKeepsAnnounceInv DEF EndNotify, WriteFails
  <2>4. CASE UNCHANGED vars
    BY <2>4 DEF vars, AnnounceInv, IdsIdentify, Holds, Current
  <2> QED BY <2>1, <2>2, <2>3, <2>4, MoveKeepsAnnounceInv, BeginScanKeepsAnnounceInv,
             WalkKeepsAnnounceInv, CommitKeepsAnnounceInv, NotifyKeepsAnnounceInv
          DEF Next, Process, Thread
<1> QED BY <1>1, <1>2, TypeCorrect, PTL DEF Spec

\* An announced capture can be looked up in the cache, for as long as its announcer
\* runs, whatever other processes write (lmdb_source.py:289-304, db.py:75).
THEOREM AnnouncedIsCachedHolds == Spec => []AnnouncedIsCached
<1>1. AnnounceInv => AnnouncedIsCached
  BY DEF AnnounceInv, Holds, AnnouncedIsCached
<1> QED BY <1>1, AnnounceInvHolds, PTL

\* No capture is announced twice by one process (lmdb_source.py:279).
THEOREM AnnouncedOnceHolds == Spec => []AnnouncedOnce
<1>1. AnnounceInv => AnnouncedOnce
  BY DEF AnnounceInv, Holds, AnnouncedOnce
<1> QED BY <1>1, AnnounceInvHolds, PTL

\* The stored cursor is the id of a row: rows and cursor are one transaction
\* (lmdb_source.py:289-296).
THEOREM CursorIsOfARowHolds == Spec => []CursorIsOfARow
<1>1. Init => CursorIsOfARow
  BY DEF Init, CursorIsOfARow
<1>2. CursorIsOfARow /\ [Next]_vars => CursorIsOfARow'
  <2> SUFFICES ASSUME CursorIsOfARow, [Next]_vars PROVE CursorIsOfARow'
    OBVIOUS
  <2>1. CASE UNCHANGED cacheVars
    BY <2>1 DEF CursorIsOfARow
  <2>2. ASSUME NEW d \in Daemons, CommitBatch(d) PROVE CursorIsOfARow'
    BY <2>2 DEF CommitBatch, Upsert, LastOf, CursorIsOfARow
  <2>3. CASE Reqable
    BY <2>1, <2>3 DEF Reqable, Put, Delete, Recreate
  <2>4. ASSUME NEW d \in Daemons, Process(d), ~CommitBatch(d) PROVE UNCHANGED cacheVars
    BY <2>4 DEF Process, Thread, Start, StartStatus, Stop, Crash, Poll, Exit, BeginScan,
                Walk, Notify, EndNotify, Recover, WriteFails
  <2> QED BY <2>1, <2>2, <2>3, <2>4 DEF Next, vars
<1> QED BY <1>1, <1>2, PTL DEF Spec
===============================================================================
