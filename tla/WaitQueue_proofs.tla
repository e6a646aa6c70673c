---------------------------- MODULE WaitQueue_proofs ----------------------------
(***************************************************************************)
(* Theorems about WaitQueue: for any number of calls and captures, any     *)
(* filters and any matchers that raise, the first match wins and no waiter *)
(* is leaked.                                                              *)
(***************************************************************************)
EXTENDS WaitQueue, TLAPS

\* A waiter's stamp is the first capture offered to it.
StampIsFirst ==
  \A c \in Calls : matched[c] = IF offered[c] = <<>> THEN None ELSE offered[c][1]

\* A call that finds its waiter gone at the lookup was not stamped: what dropped
\* it was its own matcher.
LostUnstamped ==
  \A c \in Calls : phase[c] = "added" /\ c \notin waiters => matched[c] = None

\* A call's result is its stamp from its return on.
ResultIsStamp ==
  \A c \in Calls :
    result[c] = IF phase[c] \in {"returned", "done"} THEN matched[c] ELSE None

WaitInv == WaitTypeOK /\ NoWaiterLeaks /\ StampIsFirst /\ LostUnstamped /\ ResultIsStamp

LEMMA WaitInvInit == WaitInit => WaitInv
BY DEF WaitInit, WaitInv, WaitTypeOK, Phase, NoWaiterLeaks, StampIsFirst, LostUnstamped,
       ResultIsStamp

LEMMA FirstOfLonger ==
  ASSUME NEW s \in Seq(Captures), NEW x \in Captures
  PROVE  /\ Append(s, x) \in Seq(Captures) /\ Append(s, x) # <<>>
         /\ s = <<>> => Append(s, x)[1] = x
         /\ s # <<>> => Append(s, x)[1] = s[1] /\ s[1] \in Captures
OBVIOUS

\* A call's own steps.
LEMMA CallStepKeepsInv ==
  ASSUME WaitInv, NEW c \in Calls, CallStep(c)
  PROVE  WaitInv'
<1> USE DEF WaitInv, WaitTypeOK, Phase, NoWaiterLeaks, StampIsFirst, LostUnstamped, ResultIsStamp,
            GoesTo
<1>1. CASE Add(c)
  BY <1>1 DEF Add
<1>2. CASE Lookup(c)
  BY <1>2 DEF Lookup
<1>3. CASE Wake(c)
  BY <1>3 DEF Wake
<1>4. CASE TimeOut(c)
  BY <1>4 DEF TimeOut
<1>5. CASE Pop(c)
  BY <1>5 DEF Pop
<1>6. CASE Cancel(c)
  BY <1>6 DEF Cancel
<1> QED BY <1>1, <1>2, <1>3, <1>4, <1>5, <1>6 DEF CallStep

\* An announcement stamps only waiters that have been offered nothing.
LEMMA NotifyKeepsInv ==
  ASSUME WaitInv, NEW x \in Captures, NotifyWaiters(x)
  PROVE  WaitInv'
<1> USE DEF WaitInv
<1>1. UNCHANGED <<phase, result>>
  BY DEF NotifyWaiters
<1>2. waiters' \subseteq waiters /\ WaitTypeOK'
  <2>1. offered' \in [Calls -> Seq(Captures)]
    BY FirstOfLonger DEF NotifyWaiters, WaitTypeOK
  <2>2. matched' \in [Calls -> Captures \cup {None}] /\ event' \in [Calls -> BOOLEAN]
    BY DEF NotifyWaiters, WaitTypeOK
  <2> QED BY <1>1, <2>1, <2>2 DEF NotifyWaiters, WaitTypeOK
<1>3. NoWaiterLeaks'
  BY <1>1, <1>2 DEF NoWaiterLeaks
<1>4. ASSUME NEW c \in Calls, ~(c \in waiters /\ <<c, x>> \in Matches)
      PROVE  matched'[c] = matched[c] /\ offered'[c] = offered[c]
  BY <1>4 DEF NotifyWaiters, Open, WaitTypeOK
<1>5. ASSUME NEW c \in Calls, c \in waiters, <<c, x>> \in Matches
      PROVE  /\ offered'[c] = Append(offered[c], x)
             /\ matched'[c] = IF matched[c] = None THEN x ELSE matched[c]
  BY <1>5 DEF NotifyWaiters, Open, WaitTypeOK
<1>6. StampIsFirst'
  <2> SUFFICES ASSUME NEW c \in Calls
               PROVE  matched'[c] = IF offered'[c] = <<>> THEN None ELSE offered'[c][1]
    BY DEF StampIsFirst
  <2>1. matched[c] = (IF offered[c] = <<>> THEN None ELSE offered[c][1])
    BY DEF StampIsFirst
  <2>2. CASE c \in waiters /\ <<c, x>> \in Matches
    <3>1. offered[c] \in Seq(Captures)
      BY DEF WaitTypeOK
    <3>2. CASE offered[c] = <<>>
      BY <1>5, <2>1, <2>2, <3>1, <3>2, FirstOfLonger
    <3>3. CASE offered[c] # <<>>
      <4>1. offered[c][1] # None
        BY <3>1, <3>3, FirstOfLonger, WaitAssumption
      <4> QED BY <1>5, <2>1, <2>2, <3>1, <3>3, <4>1, FirstOfLonger
    <3> QED BY <3>2, <3>3
  <2>3. CASE ~(c \in waiters /\ <<c, x>> \in Matches)
    BY <1>4, <2>1, <2>3
  <2> QED BY <2>2, <2>3
<1>7. LostUnstamped'
  <2> SUFFICES ASSUME NEW c \in Calls, phase[c] = "added", c \notin waiters'
               PROVE  matched'[c] = None
    BY <1>1 DEF LostUnstamped
  <2>1. CASE c \in waiters
    <3>1. c \in Open /\ <<c, x>> \in Raises
      BY <2>1 DEF NotifyWaiters
    <3>2. <<c, x>> \notin Matches
      BY <3>1, WaitAssumption
    <3> QED BY <1>4, <3>1, <3>2 DEF Open
  <2>2. CASE c \notin waiters
    BY <1>4, <2>2 DEF LostUnstamped
  <2> QED BY <2>1, <2>2
<1>8. ResultIsStamp'
  <2> SUFFICES ASSUME NEW c \in Calls
               PROVE  result[c] = IF phase[c] \in {"returned", "done"} THEN matched'[c] ELSE None
    BY <1>1 DEF ResultIsStamp
  <2>1. CASE phase[c] \in {"returned", "done"}
    <3>1. c \notin waiters
      BY <2>1 DEF NoWaiterLeaks
    <3> QED BY <1>4, <2>1, <3>1 DEF ResultIsStamp
  <2> QED BY <2>1 DEF ResultIsStamp
<1> QED BY <1>2, <1>3, <1>6, <1>7, <1>8

LEMMA ReapKeepsInv ==
  ASSUME WaitInv, NEW S \in SUBSET waiters, Reap(S)
  PROVE  WaitInv'
BY DEF Reap, WaitInv, WaitTypeOK, NoWaiterLeaks, StampIsFirst, LostUnstamped, ResultIsStamp

LEMMA WaitInvHolds == WaitSpec => []WaitInv
<1>1. WaitInv /\ [WaitNext]_waitVars => WaitInv'
  <2>1. WaitInv /\ UNCHANGED waitVars => WaitInv'
    BY DEF waitVars, WaitInv, WaitTypeOK, NoWaiterLeaks, StampIsFirst, LostUnstamped,
           ResultIsStamp
  <2> QED BY <2>1, CallStepKeepsInv, NotifyKeepsInv, ReapKeepsInv DEF WaitNext
<1> QED BY <1>1, WaitInvInit, PTL DEF WaitSpec

\* The registry and every call's record keep their types.
THEOREM WaitTypeCorrect == WaitSpec => []WaitTypeOK
BY WaitInvHolds, PTL DEF WaitInv

\* What a call returns is the first matching capture announced while it was
\* registered (wait_queue.py: wait, notify).
THEOREM FirstMatchWinsHolds == WaitSpec => []FirstMatchWins
<1>1. WaitInv => FirstMatchWins
  BY DEF WaitInv, StampIsFirst, ResultIsStamp, FirstMatchWins
<1> QED BY <1>1, WaitInvHolds, PTL

\* No call that has returned is left in the registry.
THEOREM NoWaiterLeaksHolds == WaitSpec => []NoWaiterLeaks
BY WaitInvHolds, PTL DEF WaitInv
===============================================================================
