----------------------------- MODULE TokenRegister -----------------------------
(***************************************************************************)
(* What the relay store promises to the hook, whatever it does internally: *)
(* a name holds the token stored under it last, until the token's deadline *)
(* passes, another token replaces it, or the daemon ends.  A store may be  *)
(* refused; then nothing changes.                                          *)
(*                                                                         *)
(* RelayStore implements this specification (RelayStore!TokenService).     *)
(***************************************************************************)
EXTENDS Naturals

CONSTANTS Names, Values, Ttls, NoToken

VARIABLES
  clock,    \* the time
  token,    \* token[n]: what name n holds, with its deadline; or NoToken
  answer    \* the reply to the last question for a token

vars == <<clock, token, answer>>

Held == [val : Values, until : Nat]

Init ==
  /\ clock = 1
  /\ token = [n \in Names |-> NoToken]
  /\ answer = NoToken

\* Time passes; tokens whose deadline it reaches are gone.
Advance ==
  /\ clock' = clock + 1
  /\ token' = [n \in Names |->
                 IF token[n] # NoToken /\ token[n].until <= clock' THEN NoToken
                                                                   ELSE token[n]]
  /\ UNCHANGED answer

Store(n, v, ttl) ==
  /\ token' = [token EXCEPT ![n] = [val |-> v, until |-> clock + ttl]]
  /\ UNCHANGED <<clock, answer>>

Fetch(n) ==
  /\ answer' = token[n]
  /\ UNCHANGED <<clock, token>>

Wipe ==
  /\ token' = [n \in Names |-> NoToken]
  /\ answer' = NoToken
  /\ UNCHANGED clock

Next ==
  \/ Advance \/ Wipe
  \/ \E n \in Names :
       \/ Fetch(n)
       \/ \E v \in Values, ttl \in Ttls : Store(n, v, ttl)

Spec == Init /\ [][Next]_vars
================================================================================
