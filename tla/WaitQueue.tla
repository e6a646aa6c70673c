------------------------------- MODULE WaitQueue -------------------------------
(***************************************************************************)
(* wait_queue.py and the wait_for tool: calls block until the poller       *)
(* announces a capture that matches their filter, or until their timeout.  *)
(*                                                                         *)
(* A call c registers a waiter (add), looks it up (the start of wait),     *)
(* blocks on its event, unregisters it and returns what it was stamped     *)
(* with (the end of wait); wait_for's finally then cancels it.  Everything *)
(* under the lock is one step; the event wait is not under the lock, so    *)
(* notify and reap_expired interleave with it.                             *)
(***************************************************************************)
EXTENDS Naturals, Sequences

CONSTANTS
  Calls,     \* wait_for calls
  Captures,  \* what can be announced
  Matches,   \* pairs <<call, capture>> whose filter matches
  Raises,    \* pairs whose matcher raises
  None       \* no capture

ASSUME WaitAssumption ==
  /\ Matches \subseteq Calls \X Captures
  /\ Raises \subseteq Calls \X Captures
  /\ Matches \cap Raises = {}
  /\ None \notin Captures

VARIABLES
  phase,     \* phase[c]: where call c is
  waiters,   \* calls registered in _waiters
  matched,   \* matched[c]: the stamp of c's _Waiter
  event,     \* event[c]: whether its event is set
  result,    \* result[c]: what the call returned
  offered    \* matching captures announced while c was registered (history)

waitVars == <<phase, waiters, matched, event, result, offered>>

Phase == {"new", "added", "blocked", "awake", "returned", "done"}

WaitTypeOK ==
  /\ phase \in [Calls -> Phase]
  /\ waiters \subseteq Calls
  /\ matched \in [Calls -> Captures \cup {None}]
  /\ event \in [Calls -> BOOLEAN]
  /\ result \in [Calls -> Captures \cup {None}]
  /\ offered \in [Calls -> Seq(Captures)]

WaitInit ==
  /\ phase = [c \in Calls |-> "new"]
  /\ waiters = {}
  /\ matched = [c \in Calls |-> None]
  /\ event = [c \in Calls |-> FALSE]
  /\ result = [c \in Calls |-> None]
  /\ offered = [c \in Calls |-> <<>>]

GoesTo(c, p) == phase' = [phase EXCEPT ![c] = p]

\* wait_for registers its waiter.
Add(c) ==
  /\ phase[c] = "new"
  /\ waiters' = waiters \cup {c}
  /\ GoesTo(c, "added")
  /\ UNCHANGED <<matched, event, result, offered>>

\* wait: the waiter is there, or it is gone and the call returns None at once.
Lookup(c) ==
  /\ phase[c] = "added"
  /\ GoesTo(c, IF c \in waiters THEN "blocked" ELSE "returned")
  /\ UNCHANGED <<waiters, matched, event, result, offered>>

\* event.wait returns: the event is set.
Wake(c) ==
  /\ phase[c] = "blocked" /\ event[c]
  /\ GoesTo(c, "awake")
  /\ UNCHANGED <<waiters, matched, event, result, offered>>

\* Mutant of TimeOut: the event alone ends the wait.
TimeOutNever(c) ==
  /\ phase[c] = "blocked" /\ event[c]
  /\ GoesTo(c, "awake")
  /\ UNCHANGED <<waiters, matched, event, result, offered>>

\* event.wait returns: the timeout elapsed, set or not.
TimeOut(c) ==
  /\ phase[c] = "blocked"
  /\ GoesTo(c, "awake")
  /\ UNCHANGED <<waiters, matched, event, result, offered>>

\* Mutant of Pop: the waiter stays registered.
PopLeaks(c) ==
  /\ phase[c] = "awake"
  /\ result' = [result EXCEPT ![c] = matched[c]]
  /\ GoesTo(c, "returned")
  /\ UNCHANGED <<waiters, matched, event, offered>>

\* The end of wait: unregister, return the stamp.
Pop(c) ==
  /\ phase[c] = "awake"
  /\ waiters' = waiters \ {c}
  /\ result' = [result EXCEPT ![c] = matched[c]]
  /\ GoesTo(c, "returned")
  /\ UNCHANGED <<matched, event, offered>>

\* wait_for's finally.
Cancel(c) ==
  /\ phase[c] = "returned"
  /\ waiters' = waiters \ {c}
  /\ GoesTo(c, "done")
  /\ UNCHANGED <<matched, event, result, offered>>

\* Mutant of Open: a later match overwrites the stamp.
OpenAll == waiters

\* The waiters notify looks at: it skips those already stamped.
Open == {c \in waiters : matched[c] = None}

\* notify: stamp every registered, unstamped waiter that matches; drop, without
\* waking it, one whose matcher raises.
NotifyWaiters(x) ==
  LET hit == {c \in Open : <<c, x>> \in Matches} IN
  /\ waiters' = waiters \ {c \in Open : <<c, x>> \in Raises}
  /\ matched' = [c \in Calls |-> IF c \in hit THEN x ELSE matched[c]]
  /\ event' = [c \in Calls |-> event[c] \/ c \in hit]
  /\ offered' = [c \in Calls |-> IF c \in waiters /\ <<c, x>> \in Matches
                                 THEN Append(offered[c], x) ELSE offered[c]]
  /\ UNCHANGED <<phase, result>>

\* reap_expired (no caller in the daemon): drop old waiters and release them.
\* A waiter that is old is taken to be past its lookup, the next statement after
\* add: one reaped between the two would lose a stamp it already had.
Reap(S) ==
  /\ S # {} /\ S \subseteq waiters
  /\ \A c \in S : phase[c] # "added"
  /\ waiters' = waiters \ S
  /\ event' = [c \in Calls |-> event[c] \/ c \in S]
  /\ UNCHANGED <<phase, matched, result, offered>>

CallStep(c) == Add(c) \/ Lookup(c) \/ Wake(c) \/ TimeOut(c) \/ Pop(c) \/ Cancel(c)

-------------------------------------------------------------------------------
(* The queue on its own: any capture may be announced at any time, at most   *)
(* MaxOffered times per call (a bound for model checking).                   *)
CONSTANT MaxOffered

ASSUME OfferedAssumption == MaxOffered \in Nat

WaitNext ==
  \/ \E c \in Calls : CallStep(c)
  \/ \E x \in Captures :
       /\ \A c \in Calls : Len(offered[c]) < MaxOffered
       /\ NotifyWaiters(x)
  \/ \E S \in SUBSET waiters : Reap(S)

WaitSpec == WaitInit /\ [][WaitNext]_waitVars

\* A call's thread runs, and its event wait ends at the timeout at the latest
\* (wait_for caps it at 300 s).
WaitFairSpec == WaitSpec /\ \A c \in Calls : WF_waitVars(phase[c] # "new" /\ CallStep(c))

-------------------------------------------------------------------------------
\* The first matching capture announced while the call was registered is what it
\* returns: also when the timeout strikes between the stamp and the return, when
\* a later match arrives before the caller has run, or when it is reaped.
FirstMatchWins ==
  \A c \in Calls :
    phase[c] \in {"returned", "done"} =>
      result[c] = IF offered[c] = <<>> THEN None ELSE offered[c][1]

\* A call that has returned has left nothing in the registry, whichever of the
\* four ways out of wait it took.
NoWaiterLeaks == \A c \in waiters : phase[c] \in {"added", "blocked", "awake"}

\* A registered call returns.
EveryCallReturns == \A c \in Calls : phase[c] = "added" ~> phase[c] = "done"
===============================================================================
