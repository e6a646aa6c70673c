------------------------------- MODULE DaemonLife -------------------------------
(***************************************************************************)
(* The life of the daemons of one user: `reqable-mcp serve` (__main__.py)  *)
(* takes a daemon through the steps of daemon.start, serves, and through   *)
(* those of daemon.stop; each MCP client starts a daemon of its own.  They *)
(* share one socket path, where ipc/server.py listens for hook processes.  *)
(*                                                                         *)
(* One step is one effect another process can see, in the order of the     *)
(* code; stage[d] names the last one taken:                                *)
(*                                                                         *)
(*   off -> guarded -> polling -> wired -> cleared -> bound -> listening   *)
(*    ^                                                           |        *)
(*    '-- gone <- unlinked <- closed <- drained <- unreaped <- serving     *)
(*                                                                         *)
(* The poller thread runs from polling on, the acceptor from listening to  *)
(* unreaped, the reaper while serving.  A start that raises ends the       *)
(* process, and its threads with it.                                       *)
(* The socket path leads to the socket a daemon bound there last, which is *)
(* Stale once that socket is closed.                                       *)
(***************************************************************************)
EXTENDS Naturals, FiniteSets

CONSTANTS
  Daemons,
  Hooks,        \* hook processes, one call each
  Proxies,      \* states of the system's proxies a daemon may find
  Strict,       \* strict[d]: d runs with --strict-proxy
  Backlog,      \* the connections listen() queues
  MayFail       \* whether a start may raise and a daemon be killed

None == "none"
Stale == "stale"

Networks == {"http", "https", "socks"}

ASSUME LifeAssumption ==
  /\ {None, Stale} \cap Daemons = {}
  /\ Proxies \subseteq [Networks -> {"off", "loopback", "remote", "hostless"}]
  /\ Strict \in [Daemons -> BOOLEAN]
  /\ Backlog \in Nat \ {0} /\ MayFail \in BOOLEAN

VARIABLES
  stage,     \* stage[d]
  path,      \* what the socket path leads to
  wired,     \* wired[d]: rule engine, relay store and dry-run log exist
  conn,      \* conn[h]: whom h is connected to, whether it has sent a whole frame,
             \* and what has become of it
  company,   \* company[d]: another daemon was there since d's start (history)
  orderly    \* no daemon has failed or crashed (history)

lifeVars == <<stage, path, wired, conn, company, orderly>>

Starting == {"guarded", "polling", "wired", "cleared", "bound", "listening"}
Stopping == {"unreaped", "drained", "closed", "unlinked"}
Stages == {"off", "serving"} \cup Starting \cup Stopping

\* Whether d's socket accepts connections into its queue.
Listens(d) == stage[d] \in {"listening", "serving", "unreaped", "drained"}

Unused == [to |-> None, whole |-> FALSE, at |-> "new"]
Call == [to : Daemons \cup {None}, whole : BOOLEAN,
         at : {"new", "queued", "read", "done", "failed"}]

LifeTypeOK ==
  /\ stage \in [Daemons -> Stages]
  /\ path \in Daemons \cup {None, Stale}
  /\ wired \in [Daemons -> BOOLEAN]
  /\ conn \in [Hooks -> Call]
  /\ company \in [Daemons -> BOOLEAN]
  /\ orderly \in BOOLEAN

LifeInit ==
  /\ stage = [d \in Daemons |-> "off"]
  /\ path = None
  /\ wired = [d \in Daemons |-> FALSE]
  /\ conn = [h \in Hooks |-> Unused]
  /\ company = [d \in Daemons |-> FALSE]
  /\ orderly = TRUE

Goes(d, from, to) == stage[d] = from /\ stage' = [stage EXCEPT ![d] = to]

Queued(d) == {h \in Hooks : conn[h].to = d /\ conn[h].at = "queued"}

Alive == {d \in Daemons : stage[d] # "off"}

-------------------------------------------------------------------------------
(* daemon.start.                                                            *)

\* points_to_loopback: every proxy that is on has a loopback host.
PointsToLoopback(p) == \A n \in Networks : p[n] \in {"off", "loopback"}

\* assert_proxy_safe scrubs the environment and looks at the system's proxies; a
\* strict daemon exits beside a third-party one.  (Then Reqable's files are
\* looked for, the schema read, the cache opened: what may fail does in Fail.)
Start(d) ==
  /\ \E p \in Proxies : PointsToLoopback(p) \/ ~Strict[d]
  /\ Goes(d, "off", "guarded")
  /\ company' = [e \in Daemons |-> IF e = d THEN Alive # {} ELSE company[e] \/ e \in Alive]
  /\ UNCHANGED <<path, wired, conn, orderly>>

\* lmdb_source.start.
StartPoller(d) ==
  /\ Goes(d, "guarded", "polling")
  /\ UNCHANGED <<path, wired, conn, company, orderly>>

\* Rule engine, relay store, dry-run log.
Wire(d) ==
  /\ Goes(d, "polling", "wired")
  /\ wired' = [wired EXCEPT ![d] = TRUE]
  /\ UNCHANGED <<path, conn, company, orderly>>

\* Mutant of ClearPath: the socket of a crashed daemon is left in place.
KeepPath(d) ==
  /\ Goes(d, "wired", "cleared")
  /\ UNCHANGED <<path, wired, conn, company, orderly>>

\* IpcServer.start removes what a crash left at the path.
ClearPath(d) ==
  /\ Goes(d, "wired", "cleared")
  /\ path' = None
  /\ UNCHANGED <<wired, conn, company, orderly>>

\* What d leaves of the path and of the connections when its process ends.
EndsProcess(d) ==
  /\ stage' = [stage EXCEPT ![d] = "off"]
  /\ path' = IF path = d THEN Stale ELSE path
  /\ wired' = [wired EXCEPT ![d] = FALSE]
  /\ conn' = [h \in Hooks |-> IF conn[h].to = d /\ conn[h].at \in {"queued", "read"}
                              THEN [conn[h] EXCEPT !.at = "failed"] ELSE conn[h]]
  /\ company' = [company EXCEPT ![d] = FALSE]

\* bind raises if something has come to the path since.
BindFails(d) ==
  /\ stage[d] = "cleared" /\ path # None
  /\ EndsProcess(d)
  /\ orderly' = FALSE

Bind(d) ==
  /\ path = None
  /\ Goes(d, "cleared", "bound")
  /\ path' = d
  /\ UNCHANGED <<wired, conn, company, orderly>>

\* listen, and the acceptor thread.
Listen(d) ==
  /\ Goes(d, "bound", "listening")
  /\ UNCHANGED <<path, wired, conn, company, orderly>>

\* The reaper thread; _started; set_daemon and the stdio loop.
Serve(d) ==
  /\ Goes(d, "listening", "serving")
  /\ UNCHANGED <<path, wired, conn, company, orderly>>

\* Any step of start raises, and serve ends with it.
Fail(d) ==
  /\ MayFail /\ stage[d] \in Starting
  /\ EndsProcess(d)
  /\ orderly' = FALSE

Crash(d) ==
  /\ MayFail /\ stage[d] \in {"serving"} \cup Stopping
  /\ EndsProcess(d)
  /\ orderly' = FALSE

-------------------------------------------------------------------------------
(* daemon.stop, when the client disconnects.                                *)

StopReaper(d) ==
  /\ Goes(d, "serving", "unreaped")
  /\ UNCHANGED <<path, wired, conn, company, orderly>>

\* IpcServer.stop joins the acceptor, which sees _stop within ACCEPT_POLL_S.
JoinAcceptor(d) ==
  /\ Goes(d, "unreaped", "drained")
  /\ UNCHANGED <<path, wired, conn, company, orderly>>

\* The socket is closed: connections still queued are reset.
CloseSocket(d) ==
  /\ Goes(d, "drained", "closed")
  /\ path' = IF path = d THEN Stale ELSE path
  /\ conn' = [h \in Hooks |-> IF h \in Queued(d)
                              THEN [conn[h] EXCEPT !.at = "failed"] ELSE conn[h]]
  /\ UNCHANGED <<wired, company, orderly>>

\* Mutant of UnlinkPath: the file is left behind.
UnlinkNothing(d) ==
  /\ Goes(d, "closed", "unlinked")
  /\ UNCHANGED <<path, wired, conn, company, orderly>>

\* Handlers are joined, or not in time; the path is unlinked, whoever bound it.
UnlinkPath(d) ==
  /\ Goes(d, "closed", "unlinked")
  /\ path' = None
  /\ UNCHANGED <<wired, conn, company, orderly>>

\* The poller is joined, or not in time; the process ends.
Leave(d) == stage[d] = "unlinked" /\ EndsProcess(d) /\ UNCHANGED orderly

-------------------------------------------------------------------------------
(* Connections.                                                             *)

\* A hook connects; without a listener behind the path it fails at once.
Connect(h) ==
  /\ conn[h] = Unused
  /\ \/ /\ path \in Daemons /\ Listens(path) /\ Cardinality(Queued(path)) < Backlog
        /\ \E whole \in BOOLEAN :
             conn' = [conn EXCEPT ![h] = [to |-> path, whole |-> whole, at |-> "queued"]]
     \/ /\ ~(path \in Daemons /\ Listens(path) /\ Cardinality(Queued(path)) < Backlog)
        /\ conn' = [conn EXCEPT ![h].at = "failed"]
  /\ UNCHANGED <<stage, path, wired, company, orderly>>

\* The acceptor hands the connection to a handler thread.
Accept(h) ==
  /\ conn[h].at = "queued" /\ stage[conn[h].to] \in {"listening", "serving", "unreaped"}
  /\ conn' = [conn EXCEPT ![h].at = "read"]
  /\ UNCHANGED <<stage, path, wired, company, orderly>>

\* Mutant of Answer: the handler waits for the rest of a frame without a timeout.
AnswerPatiently(h) ==
  /\ conn[h].at = "read" /\ conn[h].whole
  /\ conn' = [conn EXCEPT ![h].at = "done"]
  /\ UNCHANGED <<stage, path, wired, company, orderly>>

\* The handler reads a frame, dispatches it and replies, an error if it is no
\* message or the handler raised; a frame that does not come within
\* READ_TIMEOUT_S gets no answer.
Answer(h) ==
  /\ conn[h].at = "read"
  /\ conn' = [conn EXCEPT ![h].at = IF conn[h].whole THEN "done" ELSE "failed"]
  /\ UNCHANGED <<stage, path, wired, company, orderly>>

\* The hook gives up after SOCKET_TIMEOUT_S.
HangUp(h) ==
  /\ conn[h].at \in {"queued", "read"}
  /\ conn' = [conn EXCEPT ![h].at = "failed"]
  /\ UNCHANGED <<stage, path, wired, company, orderly>>

\* The next message's hook.
Recall(h) ==
  /\ conn[h].at \in {"done", "failed"}
  /\ conn' = [conn EXCEPT ![h] = Unused]
  /\ UNCHANGED <<stage, path, wired, company, orderly>>

LifeNext ==
  \/ \E d \in Daemons :
       \/ Start(d) \/ StartPoller(d) \/ Wire(d) \/ ClearPath(d) \/ BindFails(d)
       \/ Bind(d) \/ Listen(d) \/ Serve(d) \/ Fail(d) \/ Crash(d)
       \/ StopReaper(d) \/ JoinAcceptor(d) \/ CloseSocket(d) \/ UnlinkPath(d) \/ Leave(d)
  \/ \E h \in Hooks : Connect(h) \/ Accept(h) \/ Answer(h) \/ HangUp(h) \/ Recall(h)

LifeSpec == LifeInit /\ [][LifeNext]_lifeVars

\* The daemon's own threads run; nothing makes a hook hang up.
LifeFairSpec ==
  /\ LifeSpec
  /\ \A h \in Hooks : WF_lifeVars(Accept(h) \/ Answer(h))
  /\ \A d \in Daemons : WF_lifeVars(JoinAcceptor(d) \/ CloseSocket(d))

-------------------------------------------------------------------------------
\* A call is read only in a process whose rule engine, relay store and dry-run
\* log exist: nothing a hook asks in the middle of a start is answered by an
\* engine that is not there (daemon.py:148-162).
ReadyHandlers ==
  \A h \in Hooks : conn[h].at = "read" => wired[conn[h].to]

\* A daemon that has been the only one since it started can always bind, and is
\* then behind the path until it closes its socket, whatever crash came before
\* it (ipc/server.py:94).
AloneIsReachable ==
  \A d \in Daemons : (stage[d] # "off" /\ ~company[d] /\ Alive = {d}) =>
    /\ stage[d] = "cleared" => path = None
    /\ stage[d] = "bound" \/ Listens(d) => path = d

\* When every daemon has come and gone in order nothing is left at the path, in
\* whatever order their starts and stops met (ipc/server.py:130).
NothingLeft ==
  orderly /\ Alive = {} => path = None

\* A connection a daemon holds is answered or closed, even if its peer never
\* sends a whole frame or the daemon stops (ipc/server.py:113-132, 177).
EveryCallEnds ==
  \A h \in Hooks :
    conn[h].at \in {"queued", "read"} ~> conn[h].at \in {"done", "failed"}

===============================================================================
