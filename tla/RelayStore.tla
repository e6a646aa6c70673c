------------------------------- MODULE RelayStore -------------------------------
(***************************************************************************)
(* The relay store of relay.py, as the daemon uses it: IPC handlers call   *)
(* set and get, the reaper thread calls reap_expired, and a restart leaves *)
(* it empty.  remove, clear, stats and list_names have no caller that      *)
(* changes anything, so they are left out.                                 *)
(*                                                                         *)
(* set and get read the clock under the store's lock and are one step;     *)
(* reap_expired reads it before it takes the lock.                         *)
(***************************************************************************)
EXTENDS FiniteSets, Naturals

CONSTANTS
  Names, Values,
  Ttls,         \* ttl_seconds of a store; 0 and MaxRelayTtl + 1 are refused
  MaxRelayTtl,  \* MAX_RELAY_TTL_SECONDS
  BigValues,    \* the values longer than MAX_RELAY_VALUE_BYTES
  MaxEntries,   \* MAX_RELAY_ENTRIES
  MaxClock,     \* bound on the clock
  NoToken

ASSUME RelayAssumption ==
  /\ BigValues \subseteq Values
  /\ MaxRelayTtl \in Nat \ {0} /\ Ttls \subseteq Nat
  /\ MaxEntries \in Nat \ {0} /\ MaxClock \in Nat \ {0}
  /\ NoToken \notin [val : Values, until : Nat]

VARIABLES
  clock,    \* time.time(), from 1 on
  entries,  \* _values: an entry, or NoToken where there is none
  reapsAt,  \* the time the reaper read before the lock, or 0
  answer    \* the entry the last get returned the value of, or NoToken

relayVars == <<clock, entries, reapsAt, answer>>

Entry == [val : Values, until : Nat]

RelayTypeOK ==
  /\ clock \in 1..MaxClock
  /\ entries \in [Names -> Entry \cup {NoToken}]
  /\ reapsAt \in 0..MaxClock
  /\ answer \in Entry \cup {NoToken}

RelayInit ==
  /\ clock = 1
  /\ entries = [n \in Names |-> NoToken]
  /\ reapsAt = 0
  /\ answer = NoToken

Advance ==
  /\ clock < MaxClock
  /\ clock' = clock + 1
  /\ UNCHANGED <<entries, reapsAt, answer>>

Stored == {n \in Names : entries[n] # NoToken}

Expired(e, t) == e # NoToken /\ t >= e.until

\* _handle_store_relay and set take the value: it is small enough, its ttl in
\* range, and the name is known or below the cap, which counts expired entries.
Accepts(n, v, ttl) ==
  /\ v \notin BigValues /\ ttl \in 1..MaxRelayTtl
  /\ n \in Stored \/ Cardinality(Stored) < MaxEntries

Put(n, v, ttl) ==
  entries' = [entries EXCEPT ![n] = [val |-> v, until |-> clock + ttl]]

\* The daemon handles store_relay_value.
Store(n, v, ttl) ==
  /\ IF Accepts(n, v, ttl) THEN Put(n, v, ttl) ELSE UNCHANGED entries
  /\ UNCHANGED <<clock, reapsAt, answer>>

\* Mutant of Fetch: an expired entry is deleted, but served one last time.
FetchOnceMore(n) ==
  /\ answer' = entries[n]
  /\ entries' = [entries EXCEPT ![n] = IF Expired(@, clock) THEN NoToken ELSE @]
  /\ UNCHANGED <<clock, reapsAt>>

\* The daemon handles get_relay_value: get deletes an expired entry it meets.
Fetch(n) ==
  /\ LET left == IF Expired(entries[n], clock) THEN NoToken ELSE entries[n] IN
       /\ answer' = left
       /\ entries' = [entries EXCEPT ![n] = left]
  /\ UNCHANGED <<clock, reapsAt>>

BeginReap ==
  /\ reapsAt = 0
  /\ reapsAt' = clock
  /\ UNCHANGED <<clock, entries, answer>>

\* Mutant of Reap: the time is read once, for all rounds.
ReapWithOldClock ==
  /\ reapsAt # 0
  /\ entries' = [n \in Names |-> IF Expired(entries[n], reapsAt) THEN NoToken
                                                                 ELSE entries[n]]
  /\ UNCHANGED <<clock, reapsAt, answer>>

\* reap_expired under the lock, with the time it read before.
Reap ==
  /\ reapsAt # 0
  /\ entries' = [n \in Names |-> IF Expired(entries[n], reapsAt) THEN NoToken
                                                                 ELSE entries[n]]
  /\ reapsAt' = 0
  /\ UNCHANGED <<clock, answer>>

\* The daemon ends; its successor starts with an empty store.
Wipe ==
  /\ entries' = [n \in Names |-> NoToken]
  /\ reapsAt' = 0
  /\ answer' = NoToken
  /\ UNCHANGED clock

RelayReaper == BeginReap \/ Reap

RelayNext ==
  \/ Advance \/ RelayReaper \/ Wipe
  \/ \E n \in Names :
       \/ Fetch(n)
       \/ \E v \in Values, ttl \in Ttls : Store(n, v, ttl)

RelaySpec == RelayInit /\ [][RelayNext]_relayVars

\* _reap_loop comes round every reap_interval_seconds.
RelayFairSpec == RelaySpec /\ WF_relayVars(RelayReaper)

-------------------------------------------------------------------------------
\* The tokens a get would still serve.
Live == [n \in Names |-> IF Expired(entries[n], clock) THEN NoToken ELSE entries[n]]

Register == INSTANCE TokenRegister WITH token <- Live

\* The store is a register with deadlines: get returns the token stored last
\* under the name and never one past its ttl, the reaper removes nothing that is
\* still live although its clock may be stale, and a refused store leaves what
\* was there.
TokenService == Register!Spec

\* Room is given back: an expired entry, which counts against the cap, leaves
\* the store (or is refreshed) although nobody asks for it.
ExpiredEntryLeaves ==
  \A n \in Names : Expired(entries[n], clock) ~> ~Expired(entries[n], clock)

\* Why the stale clock does no harm.
ReapClockIsPast == reapsAt <= clock
================================================================================
