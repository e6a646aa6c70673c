------------------------------ MODULE CaptureWait ------------------------------
(***************************************************************************)
(* The wait_for path of one daemon, Server: its poller (LmdbSync) announces*)
(* captures to its wait queue (WaitQueue), as daemon.start wires them with *)
(* on_new_capture=self.wait_queue.notify.  The other processes only share  *)
(* the cache.  The registry and the blocked calls die with the daemon.     *)
(***************************************************************************)
EXTENDS LmdbSync, Sequences

CONSTANTS Server, Calls, Matches, None

ASSUME ServerAssumption == Server \in Daemons

VARIABLES
  phase, waiters, matched, event, result, offered,
  atAdd     \* atAdd[c]: what Server had announced when call c registered
            \* (history variable)

Queue == INSTANCE WaitQueue WITH
           Captures <- Record, Raises <- {}, MaxOffered <- MaxOb

queueVars == <<phase, waiters, matched, event, result, offered, atAdd>>
allVars == <<vars, queueVars>>

NoCalls ==
  /\ Queue!WaitInit
  /\ atAdd = [c \in Calls |-> {}]

CaptureWaitInit == Init /\ NoCalls

\* Server's poller announces r: notify runs on the poller thread.
Announce(r) ==
  /\ Notify(Server, r)
  /\ Queue!NotifyWaiters(r)
  /\ UNCHANGED atAdd

\* Server dies, or leaves its loop, with its calls.
ServerEnds ==
  /\ Crash(Server) \/ Exit(Server)
  /\ phase' = [c \in Calls |-> "new"]
  /\ waiters' = {}
  /\ matched' = [c \in Calls |-> None]
  /\ event' = [c \in Calls |-> FALSE]
  /\ result' = [c \in Calls |-> None]
  /\ offered' = [c \in Calls |-> <<>>]
  /\ atAdd' = [c \in Calls |-> {}]

\* A step of a wait_for call while Server serves.
Call(c) ==
  /\ Serving(Server)
  /\ Queue!CallStep(c)
  /\ atAdd' = IF phase[c] = "new" THEN [atAdd EXCEPT ![c] = notified[Server]] ELSE atAdd
  /\ UNCHANGED vars

\* What Server does that its queue does not see.
ServerStep ==
  \/ Start(Server) \/ Stop(Server) \/ Poll(Server) \/ BeginScan(Server)
  \/ Walk(Server) \/ CommitBatch(Server) \/ EndNotify(Server)
  \/ Recover(Server) \/ WriteFails(Server)

Background ==
  /\ Reqable \/ ServerStep \/ \E d \in Daemons \ {Server} : Process(d)
  /\ UNCHANGED queueVars

CaptureWaitNext ==
  \/ Background
  \/ \E r \in batch[Server] : Announce(r)
  \/ ServerEnds
  \/ \E c \in Calls : Call(c)

CaptureWaitSpec == CaptureWaitInit /\ [][CaptureWaitNext]_allVars

\* The poller thread of Server runs (see LmdbSync!FairSpec).
PollerRuns ==
  \/ /\ Poll(Server) \/ BeginScan(Server) \/ Walk(Server) \/ CommitBatch(Server)
        \/ EndNotify(Server) \/ Recover(Server)
     /\ UNCHANGED queueVars
  \/ \E r \in batch[Server] : Announce(r)

CaptureWaitFairSpec == CaptureWaitSpec /\ WF_allVars(PollerRuns)

-------------------------------------------------------------------------------
\* What wait_for returns can be looked up: its row is in the cache when the call
\* returns it, and stays there.
ResultIsCached == \A c \in Calls : result[c] # None => result[c] \in rows

\* A call never returns a capture that was announced before the call began, so
\* two calls one after the other never return the same capture, although every
\* poll walks the whole history again.
NoStaleAnnouncement ==
  \A c \in Calls : result[c] # None => result[c] \notin atAdd[c]

\* A call blocked on the queue when a matching capture lies beyond the cursor is
\* woken by a capture, with no help from its timeout.
MatchWakesCall ==
  \A c \in Calls, r \in Record :
    (/\ phase[c] = "blocked" /\ Serving(Server)
     /\ <<c, r>> \in Matches
     /\ r \in lmdb /\ r.kind = "ok" /\ lastSeen[Server] < r.ob)
      ~> (event[c] \/ phase[c] # "blocked" \/ r \notin lmdb \/ ~Serving(Server))
===============================================================================
