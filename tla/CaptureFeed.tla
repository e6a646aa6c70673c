------------------------------ MODULE CaptureFeed ------------------------------
(***************************************************************************)
(* What the synchronisation of Reqable's history promises to the tools,    *)
(* whatever its poller does internally: a capture enters the cache only if *)
(* Reqable recorded it, never ahead of an older capture that Reqable still *)
(* holds, and a serving daemon announces each cached capture at most once. *)
(*                                                                         *)
(* LmdbSync implements this specification (LmdbSync!Feed).                 *)
(***************************************************************************)
EXTENDS Naturals

CONSTANTS
  Daemons,   \* processes that poll Reqable and announce captures
  Capture    \* every capture Reqable can record; a record with a field ob

VARIABLES
  published,  \* captures Reqable has ever recorded
  live,       \* those still in its history
  stored,     \* those in the SQLite cache
  told        \* told[d]: those announced by d since d started

vars == <<published, live, stored, told>>

Init ==
  /\ published = {}
  /\ live = {}
  /\ stored = {}
  /\ told = [d \in Daemons |-> {}]

\* Reqable records a capture: its id is above every earlier one.
Publish(r) ==
  /\ \A q \in published : q.ob < r.ob
  /\ published' = published \cup {r}
  /\ live' = live \cup {r}
  /\ UNCHANGED <<stored, told>>

\* Reqable's user clears captures from its history.
Forget(r) ==
  /\ r \in live
  /\ live' = live \ {r}
  /\ UNCHANGED <<published, stored, told>>

\* A batch enters the cache; no older capture still in the history is left out.
Store(S) ==
  /\ S \subseteq published
  /\ \A q \in live, r \in S : q.ob < r.ob => q \in stored \cup S
  /\ stored' = stored \cup S
  /\ UNCHANGED <<published, live, told>>

\* Daemon d announces a cached capture it has not announced before.
Tell(d, r) ==
  /\ r \in stored \ told[d]
  /\ told' = [told EXCEPT ![d] = @ \cup {r}]
  /\ UNCHANGED <<published, live, stored>>

\* Daemon d stops or dies: what it announced is forgotten with it.
Forgo(d) ==
  /\ told' = [told EXCEPT ![d] = {}]
  /\ UNCHANGED <<published, live, stored>>

Next ==
  \/ \E r \in Capture : Publish(r) \/ Forget(r)
  \/ \E S \in SUBSET published : Store(S)
  \/ \E d \in Daemons : Forgo(d) \/ \E r \in Capture : Tell(d, r)

Spec == Init /\ [][Next]_vars
================================================================================
