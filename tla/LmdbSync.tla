------------------------------- MODULE LmdbSync -------------------------------
(***************************************************************************)
(* The poller of sources/lmdb_source.py: it follows Reqable's LMDB by a    *)
(* cursor (the largest ObjectBox id seen), copies new captures into the    *)
(* SQLite cache together with the cursor, and announces each of them.      *)
(*                                                                         *)
(* A process d is off, a serving daemon, or a one-shot `status` command    *)
(* (__main__.cmd_status), which scans once from id 0.  All processes share *)
(* the cache file.  One step is one visible effect of the poller thread,   *)
(* in the order of the code; pc[d] names the next one:                     *)
(*                                                                         *)
(*   poll -> begin -> walk -> write -> notify -> poll                      *)
(*                      \________\__> error ___/                           *)
(*                                                                         *)
(* A capture is a record: its ObjectBox id, the epoch of Reqable's         *)
(* database it was written in (together its uid), and its kind, what the   *)
(* decoder makes of it:                                                    *)
(*   "ok"    projected onto a row                                          *)
(*   "skip"  too short, undecodable or without uid: _decode returns None   *)
(*   "bad"   decodes, but _project_record raises, outside _decode's try    *)
(***************************************************************************)
EXTENDS Naturals

CONSTANTS
  Daemons,      \* processes sharing the cache
  Kinds,        \* the kinds of record Reqable writes
  MaxOb,        \* bound on ObjectBox ids
  MaxEpoch,     \* bound on re-creations of Reqable's database
  DiskMayFail,  \* whether a SQLite transaction may fail
  TornReads     \* whether a scan overtaken by two commits may lose records:
                \* the environment is opened with lock=False, so Reqable does
                \* not know of the reader and may recycle its pages

ASSUME SyncAssumption ==
  /\ Kinds \subseteq {"ok", "skip", "bad"}
  /\ MaxOb \in Nat
  /\ MaxEpoch \in Nat \ {0}
  /\ DiskMayFail \in BOOLEAN
  /\ TornReads \in BOOLEAN

VARIABLES
  (* Reqable *)
  lmdb,      \* records in its history
  everPut,   \* every record it ever wrote (history variable)
  nextOb,    \* next ObjectBox id
  epoch,     \* incarnation of its database
  txnid,     \* LMDB's last_txnid
  (* cache.db *)
  rows,      \* table captures: the records it has a row for
  cursor,    \* sync_state.last_ob_id
  (* each process *)
  pc,        \* next effect of the poller thread
  mode,      \* "serve" or "status"
  stopping,  \* _stop is set
  lastSeen,  \* stats.last_seen_ob_id
  curTxn,    \* cur_txnid
  seenTxn,   \* last_txnid of _run; 0 stands for None
  snap,      \* the LMDB read transaction's snapshot and the txnid it began at
  batch,     \* new_records still to be written or announced
  notified   \* records announced to on_new_capture (history variable)

reqableVars == <<lmdb, everPut, nextOb, epoch, txnid>>
cacheVars == <<rows, cursor>>
daemonVars == <<pc, mode, stopping, lastSeen, curTxn, seenTxn, snap, batch, notified>>
vars == <<reqableVars, cacheVars, daemonVars>>

Record == [ob : 1..MaxOb, epoch : 1..MaxEpoch, kind : Kinds]

NoSnap == [recs |-> {}, txn |-> 0]

Control == {"off", "poll", "begin", "walk", "write", "notify", "error"}

TypeOK ==
  /\ lmdb \subseteq Record
  /\ everPut \subseteq Record
  /\ nextOb \in 1..(MaxOb + 1)
  /\ epoch \in 1..MaxEpoch
  /\ txnid \in Nat \ {0}
  /\ rows \subseteq Record
  /\ cursor \in 0..MaxOb
  /\ pc \in [Daemons -> Control]
  /\ mode \in [Daemons -> {"serve", "status"}]
  /\ stopping \in [Daemons -> BOOLEAN]
  /\ lastSeen \in [Daemons -> 0..MaxOb]
  /\ curTxn \in [Daemons -> Nat]
  /\ seenTxn \in [Daemons -> Nat]
  /\ snap \in [Daemons -> [recs : SUBSET Record, txn : Nat]]
  /\ batch \in [Daemons -> SUBSET Record]
  /\ notified \in [Daemons -> SUBSET Record]

Init ==
  /\ lmdb = {} /\ everPut = {} /\ nextOb = 1 /\ epoch = 1 /\ txnid = 1
  /\ rows = {} /\ cursor = 0
  /\ pc = [d \in Daemons |-> "off"]
  /\ mode = [d \in Daemons |-> "serve"]
  /\ stopping = [d \in Daemons |-> FALSE]
  /\ lastSeen = [d \in Daemons |-> 0]
  /\ curTxn = [d \in Daemons |-> 0]
  /\ seenTxn = [d \in Daemons |-> 0]
  /\ snap = [d \in Daemons |-> NoSnap]
  /\ batch = [d \in Daemons |-> {}]
  /\ notified = [d \in Daemons |-> {}]

-------------------------------------------------------------------------------
(* Reqable, seen through its database file.                                 *)

\* Reqable records a capture under the next id.
Put(k) ==
  /\ nextOb <= MaxOb
  /\ LET r == [ob |-> nextOb, epoch |-> epoch, kind |-> k] IN
       /\ lmdb' = lmdb \cup {r}
       /\ everPut' = everPut \cup {r}
  /\ nextOb' = nextOb + 1
  /\ txnid' = txnid + 1
  /\ UNCHANGED <<epoch, cacheVars, daemonVars>>

\* A capture is removed from Reqable's history.
Delete(r) ==
  /\ r \in lmdb
  /\ lmdb' = lmdb \ {r}
  /\ txnid' = txnid + 1
  /\ UNCHANGED <<everPut, nextOb, epoch, cacheVars, daemonVars>>

\* Reqable starts over with an empty database while nothing has it open
\* (an open environment would go on reading the deleted file).
Recreate ==
  /\ epoch < MaxEpoch
  /\ \A d \in Daemons : pc[d] = "off"
  /\ lmdb' = {}
  /\ nextOb' = 1
  /\ epoch' = epoch + 1
  /\ txnid' = txnid + 1
  /\ UNCHANGED <<everPut, cacheVars, daemonVars>>

-------------------------------------------------------------------------------
(* The processes.                                                           *)

\* What a process that is not running remembers: nothing.
Forgets(d) ==
  /\ pc' = [pc EXCEPT ![d] = "off"]
  /\ mode' = [mode EXCEPT ![d] = "serve"]
  /\ stopping' = [stopping EXCEPT ![d] = FALSE]
  /\ lastSeen' = [lastSeen EXCEPT ![d] = 0]
  /\ curTxn' = [curTxn EXCEPT ![d] = 0]
  /\ seenTxn' = [seenTxn EXCEPT ![d] = 0]
  /\ snap' = [snap EXCEPT ![d] = NoSnap]
  /\ batch' = [batch EXCEPT ![d] = {}]
  /\ notified' = [notified EXCEPT ![d] = {}]

\* LmdbSource.start: resume from the cursor in the cache.
Start(d) ==
  /\ pc[d] = "off"
  /\ pc' = [pc EXCEPT ![d] = "poll"]
  /\ lastSeen' = [lastSeen EXCEPT ![d] = cursor]
  /\ UNCHANGED <<reqableVars, cacheVars, mode, stopping, curTxn, seenTxn,
                 snap, batch, notified>>

\* cmd_status: one scan_once by a fresh LmdbSource, whose cursor is 0.
StartStatus(d) ==
  /\ pc[d] = "off"
  /\ pc' = [pc EXCEPT ![d] = "begin"]
  /\ mode' = [mode EXCEPT ![d] = "status"]
  /\ UNCHANGED <<reqableVars, cacheVars, stopping, lastSeen, curTxn, seenTxn,
                 snap, batch, notified>>

\* LmdbSource.stop sets _stop; the thread sees it between two iterations.
Stop(d) ==
  /\ pc[d] # "off" /\ mode[d] = "serve" /\ ~stopping[d]
  /\ stopping' = [stopping EXCEPT ![d] = TRUE]
  /\ UNCHANGED <<reqableVars, cacheVars, pc, mode, lastSeen, curTxn, seenTxn,
                 snap, batch, notified>>

\* The process dies, or exits although stop's join timed out.
Crash(d) ==
  /\ pc[d] # "off"
  /\ Forgets(d)
  /\ UNCHANGED <<reqableVars, cacheVars>>

\* _run: a scan is due when last_txnid moved (an idle poll changes nothing).
Poll(d) ==
  /\ pc[d] = "poll" /\ ~stopping[d]
  /\ txnid # seenTxn[d]
  /\ curTxn' = [curTxn EXCEPT ![d] = txnid]
  /\ pc' = [pc EXCEPT ![d] = "begin"]
  /\ UNCHANGED <<reqableVars, cacheVars, mode, stopping, lastSeen, seenTxn,
                 snap, batch, notified>>

\* _run leaves its loop.
Exit(d) ==
  /\ pc[d] = "poll" /\ stopping[d]
  /\ Forgets(d)
  /\ UNCHANGED <<reqableVars, cacheVars>>

\* _scan_once_unsafe opens its read transaction.
BeginScan(d) ==
  /\ pc[d] = "begin"
  /\ snap' = [snap EXCEPT ![d] = [recs |-> lmdb, txn |-> txnid]]
  /\ pc' = [pc EXCEPT ![d] = "walk"]
  /\ UNCHANGED <<reqableVars, cacheVars, mode, stopping, lastSeen, curTxn,
                 seenTxn, batch, notified>>

\* What the walk of d's snapshot may come across.
Readable(d) ==
  IF TornReads /\ txnid > snap[d].txn + 1 THEN SUBSET snap[d].recs
                                          ELSE {snap[d].recs}

\* Mutants of Fresh: the cursor is ignored, compared with >=, or off by one.
FreshAll(S, seen) == {r \in S : r.kind = "ok"}
FreshAgain(S, seen) == {r \in S : r.kind = "ok" /\ r.ob >= seen}
FreshSkipsOne(S, seen) == {r \in S : r.kind = "ok" /\ r.ob > seen + 1}

\* The records a walk over S keeps: decodable and above the cursor.
Fresh(S, seen) == {r \in S : r.kind = "ok" /\ r.ob > seen}

\* Mutant of EndIteration: the txnid is read after the scan, not before it.
EndIterationLate(d) ==
  IF mode[d] = "status"
  THEN Forgets(d)
  ELSE /\ pc' = [pc EXCEPT ![d] = "poll"]
       /\ seenTxn' = [seenTxn EXCEPT ![d] = txnid]
       /\ snap' = [snap EXCEPT ![d] = NoSnap]
       /\ batch' = [batch EXCEPT ![d] = {}]
       /\ UNCHANGED <<mode, stopping, lastSeen, curTxn, notified>>

\* An iteration of _run completes (a status command ends).
EndIteration(d) ==
  IF mode[d] = "status"
  THEN Forgets(d)
  ELSE /\ pc' = [pc EXCEPT ![d] = "poll"]
       /\ seenTxn' = [seenTxn EXCEPT ![d] = curTxn[d]]
       /\ snap' = [snap EXCEPT ![d] = NoSnap]
       /\ batch' = [batch EXCEPT ![d] = {}]
       /\ UNCHANGED <<mode, stopping, lastSeen, curTxn, notified>>

\* An exception leaves the scan: _run's handler takes it, `status` exits.
Raise(d) ==
  IF mode[d] = "status"
  THEN Forgets(d)
  ELSE /\ pc' = [pc EXCEPT ![d] = "error"]
       /\ snap' = [snap EXCEPT ![d] = NoSnap]
       /\ batch' = [batch EXCEPT ![d] = {}]
       /\ UNCHANGED <<mode, stopping, lastSeen, curTxn, seenTxn, notified>>

\* The walk: every record under the prefix is decoded, old ones included.
Walk(d) ==
  /\ pc[d] = "walk"
  /\ \E seen \in Readable(d) :
       LET new == Fresh(seen, lastSeen[d]) IN
       \/ /\ \E r \in seen : r.kind = "bad"
          /\ Raise(d)
       \/ /\ \A r \in seen : r.kind # "bad"
          /\ new = {}
          /\ EndIteration(d)
       \/ /\ \A r \in seen : r.kind # "bad"
          /\ new # {}
          /\ pc' = [pc EXCEPT ![d] = "write"]
          /\ snap' = [snap EXCEPT ![d] = NoSnap]
          /\ batch' = [batch EXCEPT ![d] = new]
          /\ UNCHANGED <<mode, stopping, lastSeen, curTxn, seenTxn, notified>>
  /\ UNCHANGED <<reqableVars, cacheVars>>

\* Mutant of Upsert: INSERT OR IGNORE.
UpsertIgnores(S) == rows \cup {q \in S : \A r \in rows : q.ob # r.ob}

\* INSERT OR REPLACE: uid is the key of captures, ob_id is UNIQUE.
Upsert(S) == {r \in rows : \A q \in S : q.ob # r.ob} \cup S

\* Mutant of LastOf: the cursor names the next id, not the last one.
PastLastOf(S) == {[m EXCEPT !.ob = @ + 1] : m \in {q \in S : \A r \in S : r.ob <= q.ob}}

\* The record of the batch with the largest id (max_ob).
LastOf(S) == {m \in S : \A r \in S : r.ob <= m.ob}

\* The transaction commits: rows and cursor together, then the memory cursor.
CommitBatch(d) ==
  /\ pc[d] = "write"
  /\ rows' = Upsert(batch[d])
  /\ \E m \in LastOf(batch[d]) :
       /\ cursor' = m.ob
       /\ IF mode[d] = "status"
          THEN Forgets(d)      \* its on_new_capture does nothing
          ELSE /\ lastSeen' = [lastSeen EXCEPT ![d] = m.ob]
               /\ pc' = [pc EXCEPT ![d] = "notify"]
               /\ UNCHANGED <<mode, stopping, curTxn, seenTxn, snap, batch, notified>>
  /\ UNCHANGED reqableVars

\* Mutant of WriteFails: the error is swallowed and the batch announced.
WriteFailsUnnoticed(d) ==
  /\ DiskMayFail
  /\ pc[d] = "write"
  /\ pc' = [pc EXCEPT ![d] = IF mode[d] = "serve" THEN "notify" ELSE "write"]
  /\ UNCHANGED <<reqableVars, cacheVars, mode, stopping, lastSeen, curTxn, seenTxn,
                 snap, batch, notified>>

\* The transaction fails (disk full, lock timeout): the connection is closed
\* without COMMIT.
WriteFails(d) ==
  /\ DiskMayFail
  /\ pc[d] = "write"
  /\ Raise(d)
  /\ UNCHANGED <<reqableVars, cacheVars>>

\* on_new_capture is called for one more record of the batch.
Notify(d, r) ==
  /\ pc[d] = "notify"
  /\ r \in batch[d]
  /\ notified' = [notified EXCEPT ![d] = @ \cup {r}]
  /\ batch' = [batch EXCEPT ![d] = @ \ {r}]
  /\ UNCHANGED <<reqableVars, cacheVars, pc, mode, stopping, lastSeen, curTxn,
                 seenTxn, snap>>

\* Every record has been announced.
EndNotify(d) ==
  /\ pc[d] = "notify"
  /\ batch[d] = {}
  /\ EndIteration(d)
  /\ UNCHANGED <<reqableVars, cacheVars>>

\* _run's handler: forget the failed transaction, whatever has come since.
Recover(d) ==
  /\ pc[d] = "error"
  /\ seenTxn' = [seenTxn EXCEPT ![d] = txnid]
  /\ pc' = [pc EXCEPT ![d] = "poll"]
  /\ UNCHANGED <<reqableVars, cacheVars, mode, stopping, lastSeen, curTxn, snap,
                 batch, notified>>

-------------------------------------------------------------------------------
Reqable ==
  \/ \E k \in Kinds : Put(k)
  \/ \E r \in lmdb : Delete(r)
  \/ Recreate

\* What the poller thread does on its own.
Thread(d) ==
  \/ Poll(d) \/ Exit(d) \/ BeginScan(d) \/ Walk(d) \/ CommitBatch(d)
  \/ \E r \in batch[d] : Notify(d, r)
  \/ EndNotify(d) \/ Recover(d)

Process(d) ==
  \/ Start(d) \/ StartStatus(d) \/ Stop(d) \/ Crash(d)
  \/ Thread(d) \/ WriteFails(d)

Next == Reqable \/ \E d \in Daemons : Process(d)

Spec == Init /\ [][Next]_vars

\* The poller thread keeps running: its waits have timeouts, and what it does
\* between them never blocks for ever (SQLite's busy timeout is 5 s).
FairSpec == Spec /\ \A d \in Daemons : WF_vars(Thread(d))

-------------------------------------------------------------------------------
(* Properties.                                                              *)

Serving(d) == pc[d] # "off" /\ mode[d] = "serve" /\ ~stopping[d]

\* The cursor never runs ahead of the cache: every decodable capture still in
\* Reqable's history at or below the shared cursor, or below the memory cursor
\* of a process, has its row.  _scan_once_unsafe never looks at a record
\* at or below its cursor again, so one that is missing stays missing.
NoGap ==
  \A r \in lmdb : r.kind = "ok" =>
    /\ r.ob <= cursor => r \in rows
    /\ \A d \in Daemons : r.ob <= lastSeen[d] => r \in rows

\* A capture is announced only once its row is committed, so that a tool woken
\* by it finds it in the cache: also when a second process rewrites that row or
\* the scan that found it fails half-way.
AnnouncedIsCached ==
  \A d \in Daemons :
    /\ notified[d] \subseteq rows
    /\ pc[d] = "notify" => batch[d] \subseteq rows

\* A serving daemon announces no capture twice, although every scan walks the
\* whole history again and other processes move the shared cursor back.
AnnouncedOnce == \A d \in Daemons : batch[d] \cap notified[d] = {}

\* A process that restarts after a crash, at whatever point it died, resumes at
\* a cursor some transaction committed: an id of a row, or 0 on a fresh cache.
CursorIsOfARow == cursor = 0 \/ \E r \in rows : r.ob = cursor

\* Every capture beyond its cursor that a daemon finds in Reqable's history is
\* announced by it sooner or later (the promise behind wait_for), unless
\* the capture is cleared or the daemon stops.
EventuallyAnnounced ==
  \A d \in Daemons, r \in Record :
    (r \in lmdb /\ r.kind = "ok" /\ Serving(d) /\ lastSeen[d] < r.ob)
      ~> (r \in notified[d] \/ r \notin lmdb \/ ~Serving(d))

\* The decoder is fail-safe: a record that will not decode is skipped, and a
\* capture written after it reaches the cache of a daemon that keeps running, with
\* that record still in the history (_decode, _project_record).
BadRecordIsSkipped ==
  \A d \in Daemons, b, r \in Record :
    (/\ b \in lmdb /\ b.kind = "bad"
     /\ r \in lmdb /\ r.kind = "ok" /\ r.ob > b.ob
     /\ Serving(d))
      ~> (r \in rows \/ {b, r} \ lmdb # {} \/ ~Serving(d))

\* Why NoGap and the two announcement invariants hold, when Reqable's database
\* is never re-created and reads are not torn: ids identify captures and only
\* grow; a snapshot misses only captures newer than all it has; a batch misses
\* only captures at or below the memory cursor or newer than all it has.
Decodable(S) == {r \in S : r.kind = "ok"}

IdsGrow ==
  /\ \A r \in everPut : r.ob < nextOb
  /\ \A r, q \in everPut : r.ob = q.ob => r = q
  /\ cursor < nextOb
  /\ \A d \in Daemons : lastSeen[d] < nextOb

AllWereWritten ==
  /\ lmdb \subseteq everPut
  /\ rows \subseteq Decodable(everPut)
  /\ \A d \in Daemons : snap[d].recs \subseteq everPut
  /\ \A d \in Daemons : batch[d] \subseteq Decodable(everPut)

SnapMissesOnlyNewer ==
  \A d \in Daemons : pc[d] = "walk" =>
    \A r \in lmdb : r \in snap[d].recs \/ \A q \in snap[d].recs : q.ob < r.ob

BatchMissesOnlyNewer ==
  \A d \in Daemons : pc[d] = "write" =>
    \A r \in Decodable(lmdb) :
      \/ r.ob <= lastSeen[d]
      \/ r \in batch[d]
      \/ \A q \in batch[d] : q.ob < r.ob

BatchIsAboveCursor ==
  \A d \in Daemons :
    /\ batch[d] # {} => pc[d] \in {"write", "notify"}
    /\ pc[d] = "write" => \A r \in batch[d] : r.ob > lastSeen[d]
    /\ pc[d] = "notify" => \A r \in batch[d] : r.ob <= lastSeen[d]
    /\ \A r \in notified[d] : r.ob <= lastSeen[d]
    /\ pc[d] = "off" => notified[d] = {}

SyncInv ==
  /\ IdsGrow /\ AllWereWritten
  /\ SnapMissesOnlyNewer /\ BatchMissesOnlyNewer /\ BatchIsAboveCursor
  /\ NoGap /\ AnnouncedIsCached /\ AnnouncedOnce

\* What the tools rely on: see CaptureFeed.
Feed == INSTANCE CaptureFeed WITH
          Capture <- Decodable(Record), published <- Decodable(everPut),
          live <- Decodable(lmdb), stored <- rows, told <- notified

\* The poller implements CaptureFeed: a crash, a failed transaction or another
\* process rewriting cursor and rows never shows to a reader of the cache.
FeedSpec == Feed!Spec
===============================================================================
