--------------------------- MODULE HookTraffic_proofs ---------------------------
(***************************************************************************)
(* Theorems about the hook and the relay store behind it.  RelayStore: its *)
(* types, the age of the reaper's clock, and that it implements            *)
(* TokenRegister, for any names, values, ttls and cap.  HookTraffic: type  *)
(* correctness and the six safety properties of the run, for any number of *)
(* exchanges and rules.                                                    *)
(***************************************************************************)
EXTENDS HookTraffic, TLAPS, FiniteSetTheorems

-------------------------------------------------------------------------------
(* The relay store.                                                         *)

\* An entry is a record with a deadline, and no entry is NoToken.
LEMMA EntryIsNoToken ==
  ASSUME NEW e \in Entry
  PROVE  e # NoToken /\ e.val \in Values /\ e.until \in Nat
BY RelayAssumption DEF Entry

LEMMA PutTypes ==
  ASSUME RelayTypeOK, NEW n \in Names, NEW v \in Values, NEW ttl \in Nat, Put(n, v, ttl)
  PROVE  entries' \in [Names -> Entry \cup {NoToken}]
<1>1. [val |-> v, until |-> clock + ttl] \in Entry
  BY RelayAssumption DEF Entry, RelayTypeOK
<1> QED BY <1>1 DEF Put, RelayTypeOK

\* The inductive invariant: types, and the reaper's clock is never ahead.
RelayInv == RelayTypeOK /\ ReapClockIsPast

LEMMA RelayInvInit == RelayInit => RelayInv
BY RelayAssumption DEF RelayInit, RelayInv, RelayTypeOK, ReapClockIsPast

LEMMA RelayInvStep == RelayInv /\ [RelayNext]_relayVars => RelayInv'
<1> SUFFICES ASSUME RelayInv, [RelayNext]_relayVars PROVE RelayInv'
  OBVIOUS
<1> USE DEF RelayInv, RelayTypeOK, ReapClockIsPast
<1>1. CASE Advance
  BY <1>1, RelayAssumption DEF Advance
<1>2. CASE BeginReap
  BY <1>2, RelayAssumption DEF BeginReap
<1>3. CASE Reap
  BY <1>3, RelayAssumption DEF Reap
<1>4. CASE Wipe
  BY <1>4, RelayAssumption DEF Wipe
<1>5. ASSUME NEW n \in Names, Fetch(n) PROVE RelayInv'
  BY <1>5, RelayAssumption DEF Fetch
<1>6. ASSUME NEW n \in Names, NEW v \in Values, NEW ttl \in Ttls, Store(n, v, ttl)
      PROVE  RelayInv'
  <2>1. ttl \in Nat
    BY RelayAssumption
  <2>2. entries' \in [Names -> Entry \cup {NoToken}]
    BY <1>6, <2>1, PutTypes DEF Store
  <2> QED BY <1>6, <2>2 DEF Store
<1>7. CASE UNCHANGED relayVars
  BY <1>7 DEF relayVars
<1> QED BY <1>1, <1>2, <1>3, <1>4, <1>5, <1>6, <1>7 DEF RelayNext, RelayReaper

LEMMA RelayInvHolds == RelaySpec => []RelayInv
BY RelayInvInit, RelayInvStep, PTL DEF RelaySpec

\* Every variable of the store keeps its type.
THEOREM RelayTypeCorrect == RelaySpec => []RelayTypeOK
BY RelayInvHolds, PTL DEF RelayInv

\* The time reap_expired read before the lock is in the past when it is used.
THEOREM ReapClockIsPastHolds == RelaySpec => []ReapClockIsPast
BY RelayInvHolds, PTL DEF RelayInv

-------------------------------------------------------------------------------
(* The refinement, one lemma per kind of step.                              *)

LEMMA AdvanceRefines ==
  ASSUME RelayTypeOK, Advance PROVE Register!Advance
<1> USE DEF Advance, Live, Expired
<1>1. clock \in Nat
  BY DEF RelayTypeOK
<1>2. ASSUME NEW n \in Names
      PROVE  Live'[n] = IF Live[n] # NoToken /\ Live[n].until <= clock' THEN NoToken ELSE Live[n]
  <2>1. CASE entries[n] = NoToken
    BY <2>1
  <2>2. CASE entries[n] # NoToken
    <3>1. entries[n] \in Entry
      BY <2>2 DEF RelayTypeOK
    <3>2. entries[n].until \in Nat
      BY <3>1, EntryIsNoToken
    <3> QED BY <1>1, <2>2, <3>2
  <2> QED BY <2>1, <2>2
<1> QED BY <1>2 DEF Register!Advance

LEMMA StoreRefines ==
  ASSUME RelayTypeOK, NEW n \in Names, NEW v \in Values, NEW ttl \in Ttls, Store(n, v, ttl)
  PROVE  Register!Store(n, v, ttl) \/ UNCHANGED <<clock, Live, answer>>
<1>1. CASE Accepts(n, v, ttl)
  <2> DEFINE e == [val |-> v, until |-> clock + ttl]
  <2>1. clock \in Nat /\ ttl \in Nat /\ ttl >= 1
    BY <1>1, RelayAssumption DEF RelayTypeOK, Accepts
  <2>2. e \in Entry
    BY <2>1 DEF Entry
  <2>3. ~Expired(e, clock)
    BY <2>1 DEF Expired
  <2>4. entries' = [entries EXCEPT ![n] = e] /\ UNCHANGED <<clock, answer>>
    BY <1>1 DEF Store, Put
  <2>5. Live' = [Live EXCEPT ![n] = e]
    <3>1. \A m \in Names : entries'[m] = IF m = n THEN e ELSE entries[m]
      BY <2>4 DEF RelayTypeOK
    <3> QED BY <2>3, <2>4, <3>1 DEF Live
  <2> QED BY <2>4, <2>5 DEF Register!Store
<1>2. CASE ~Accepts(n, v, ttl)
  BY <1>2 DEF Store, Live
<1> QED BY <1>1, <1>2

LEMMA FetchRefines ==
  ASSUME RelayTypeOK, NEW n \in Names, Fetch(n)
  PROVE  Register!Fetch(n)
<1>1. Live' = Live
  <2>1. \A m \in Names :
          entries'[m] = IF m = n /\ Expired(entries[n], clock) THEN NoToken ELSE entries[m]
    BY DEF Fetch, RelayTypeOK
  <2>2. ~Expired(NoToken, clock)
    BY DEF Expired
  <2> QED BY <2>1, <2>2 DEF Fetch, Live
<1> QED BY <1>1 DEF Fetch, Live, Register!Fetch

\* What a stale clock finds expired has expired by now.
LEMMA ReapRefines ==
  ASSUME RelayInv, Reap
  PROVE  UNCHANGED <<clock, Live, answer>>
<1> USE DEF RelayInv, RelayTypeOK
<1>1. ASSUME NEW n \in Names, Expired(entries[n], reapsAt) PROVE Expired(entries[n], clock)
  <2>1. entries[n] \in Entry
    BY <1>1 DEF Expired
  <2>2. entries[n].until \in Nat
    BY <2>1, EntryIsNoToken
  <2> QED BY <1>1, <2>2 DEF Expired, ReapClockIsPast
<1>2. ~Expired(NoToken, clock)
  BY DEF Expired
<1>3. Live' = Live
  BY <1>1, <1>2 DEF Reap, Live
<1> QED BY <1>3 DEF Reap

\* The store is a register with deadlines, whatever the reaper does and however
\* the cap strikes (relay.py set, get, reap_expired).
THEOREM ImplementsRegister == RelaySpec => TokenService
<1>1. RelayInit => Register!Init
  BY DEF RelayInit, Register!Init, Live, Expired
<1>2. RelayInv /\ [RelayNext]_relayVars => [Register!Next]_(Register!vars)
  <2> SUFFICES ASSUME RelayInv, [RelayNext]_relayVars
               PROVE  Register!Next \/ UNCHANGED <<clock, Live, answer>>
    BY DEF Register!vars
  <2>1. CASE Advance
    BY <2>1, AdvanceRefines DEF RelayInv, Register!Next
  <2>2. CASE BeginReap
    BY <2>2 DEF BeginReap, Live
  <2>3. CASE Reap
    BY <2>3, ReapRefines
  <2>4. CASE Wipe
    BY <2>4 DEF Wipe, Live, Expired, Register!Next, Register!Wipe
  <2>5. ASSUME NEW n \in Names, Fetch(n) PROVE Register!Next
    BY <2>5, FetchRefines DEF RelayInv, Register!Next
  <2>6. ASSUME NEW n \in Names, NEW v \in Values, NEW ttl \in Ttls, Store(n, v, ttl)
        PROVE  Register!Next \/ UNCHANGED <<clock, Live, answer>>
    BY <2>6, StoreRefines DEF RelayInv, Register!Next
  <2>7. CASE UNCHANGED relayVars
    BY <2>7 DEF relayVars, Live
  <2> QED BY <2>1, <2>2, <2>3, <2>4, <2>5, <2>6, <2>7 DEF RelayNext, RelayReaper
<1> QED BY <1>1, <1>2, RelayInvHolds, PTL DEF RelaySpec, TokenService, Register!Spec

-------------------------------------------------------------------------------
(* The daemon's answer: what its packing loop makes of the rules that match.*)

\* Among finitely many sets one is minimal.
LEMMA MinimalSet ==
  ASSUME NEW S, IsFiniteSet(S), NEW F, F \subseteq SUBSET S, F # {}
  PROVE  \E T \in F : \A U \in F : U \subseteq T => U = T
<1> DEFINE R == StrictSubsetOrdering(S)
<1>1. IsWellFoundedOn(R, SUBSET S)
  BY FS_StrictSubsetOrderingWellFounded, FS_FiniteSubsetsOfFinite
<1> HIDE DEF R
<1>2. PICK T \in F : \A U \in F : ~ (<<U, T>> \in R)
  BY <1>1, WFMin
<1>3. ASSUME NEW U \in F, U \subseteq T, U # T PROVE FALSE
  <2>1. <<U, T>> \in R
    BY <1>3 DEF R, StrictSubsetOrdering
  <2> QED
    BY <2>1, <1>2
<1> QED
  BY <1>3

\* To append what is not there yet leaves a sequence without repetitions.
LEMMA AppendFresh ==
  ASSUME NEW S, NEW s \in Seq(S), IsInjective(s), NEW x \in S, x \notin ToSet(s)
  PROVE  /\ Append(s, x) \in Seq(S) /\ IsInjective(Append(s, x))
         /\ ToSet(Append(s, x)) = ToSet(s) \cup {x}
<1> DEFINE n == Len(s)
           t == Append(s, x)
<1>1. /\ n \in Nat /\ DOMAIN s = 1..n /\ t \in Seq(S) /\ DOMAIN t = 1..(n + 1)
      /\ \A i \in 1..(n + 1) : t[i] = IF i <= n THEN s[i] ELSE x
  OBVIOUS
<1>2. \A i \in 1..n : i \in 1..(n + 1) /\ t[i] = s[i]
  BY <1>1
<1>3. n + 1 \in 1..(n + 1) /\ t[n + 1] = x
  BY <1>1
<1> HIDE DEF n, t
<1>4. IsInjective(t)
  BY <1>1 DEF IsInjective, ToSet
<1>5. ToSet(t) \subseteq ToSet(s) \cup {x}
  BY <1>1 DEF ToSet
<1>6. ToSet(s) \cup {x} \subseteq ToSet(t)
  BY <1>1, <1>2, <1>3 DEF ToSet
<1> QED
  BY <1>1, <1>4, <1>5, <1>6 DEF t

LEMMA TailFresh ==
  ASSUME NEW S, NEW s \in Seq(S), s # <<>>, IsInjective(s)
  PROVE  IsInjective(Tail(s)) /\ ToSet(Tail(s)) \subseteq ToSet(s)
<1> DEFINE n == Len(s)
           t == Tail(s)
<1>1. /\ n \in Nat \ {0} /\ DOMAIN s = 1..n /\ DOMAIN t = 1..(n - 1)
      /\ \A i \in 1..(n - 1) : i + 1 \in 1..n /\ t[i] = s[i + 1]
  OBVIOUS
<1> HIDE DEF n, t
<1>2. ASSUME NEW i \in 1..(n - 1), NEW j \in 1..(n - 1), t[i] = t[j] PROVE i = j
  <2>1. s[i + 1] = s[j + 1] /\ i + 1 \in 1..n /\ j + 1 \in 1..n
    BY <1>1, <1>2
  <2>2. i + 1 = j + 1
    BY <1>1, <2>1 DEF IsInjective
  <2> QED
    BY <2>2
<1>3. IsInjective(t)
  BY <1>1, <1>2 DEF IsInjective
<1>4. ToSet(t) \subseteq ToSet(s)
  BY <1>1 DEF ToSet
<1> QED
  BY <1>3, <1>4 DEF t

\* Of two rules of the dictionary one is packed before the other.
LEMMA PackedTotal ==
  ASSUME born \in Seq(Rules), NEW p \in ToSet(born), NEW q \in ToSet(born), p # q
  PROVE  PackedBefore(p, q) \/ PackedBefore(q, p)
<1>1. p \in Rules /\ q \in Rules
  BY DEF ToSet
<1>2. p.size \in Nat /\ q.size \in Nat
  BY <1>1, RulesAreValid
<1>3. PICK i \in DOMAIN born, j \in DOMAIN born : born[i] = p /\ born[j] = q
  BY DEF ToSet
<1>4. i \in Nat /\ j \in Nat /\ i # j
  BY <1>3
<1>5. Older(p, q) \/ Older(q, p)
  BY <1>3, <1>4 DEF Older
<1> QED
  BY <1>2, <1>5 DEF PackedBefore

LEMMA PackedTransitive ==
  ASSUME born \in Seq(Rules), IsInjective(born),
         NEW p \in ToSet(born), NEW q \in ToSet(born), NEW r \in ToSet(born),
         PackedBefore(p, q), PackedBefore(q, r)
  PROVE  PackedBefore(p, r)
<1>1. p \in Rules /\ q \in Rules /\ r \in Rules
  BY DEF ToSet
<1>2. p.size \in Nat /\ q.size \in Nat /\ r.size \in Nat
  BY <1>1, RulesAreValid
<1>3. Older(p, q) /\ Older(q, r) => Older(p, r)
  <2> SUFFICES ASSUME Older(p, q), Older(q, r) PROVE Older(p, r)
    OBVIOUS
  <2>1. PICK i \in DOMAIN born, j \in DOMAIN born : i < j /\ born[i] = p /\ born[j] = q
    BY DEF Older
  <2>2. PICK k \in DOMAIN born, l \in DOMAIN born : k < l /\ born[k] = q /\ born[l] = r
    BY DEF Older
  <2>3. j = k /\ i \in Nat /\ j \in Nat /\ l \in Nat
    BY <2>1, <2>2 DEF IsInjective
  <2> QED
    BY <2>1, <2>2, <2>3 DEF Older
<1> QED
  BY <1>2, <1>3 DEF PackedBefore

LEMMA PackedIrreflexive ==
  ASSUME born \in Seq(Rules), IsInjective(born), NEW p \in ToSet(born)
  PROVE  ~PackedBefore(p, p)
<1>1. p.size \in Nat
  BY RulesAreValid DEF ToSet
<1>2. ~Older(p, p)
  BY DEF Older, IsInjective
<1> QED
  BY <1>1, <1>2 DEF PackedBefore

\* Of finitely many rules one is packed last.
LEMMA PackedLast ==
  ASSUME born \in Seq(Rules), IsInjective(born),
         NEW S, S \subseteq ToSet(born), IsFiniteSet(S), S # {}
  PROVE  \E z \in S : \A q \in S \ {z} : PackedBefore(q, z)
<1> DEFINE After(z) == {q \in S : PackedBefore(z, q)}
           F == {After(z) : z \in S}
<1>1. PICK T \in F : \A U \in F : U \subseteq T => U = T
  <2>1. F \subseteq SUBSET S /\ F # {}
    OBVIOUS
  <2> HIDE DEF F
  <2> QED
    BY <2>1, MinimalSet
<1>2. PICK z \in S : T = After(z)
  OBVIOUS
<1>3. ASSUME NEW q \in S, PackedBefore(z, q) PROVE FALSE
  <2>1. After(q) \subseteq After(z)
    BY <1>3, PackedTransitive
  <2>2. q \in After(z) /\ q \notin After(q)
    BY <1>3, PackedIrreflexive
  <2> QED
    BY <1>1, <1>2, <2>1, <2>2
<1> QED
  BY <1>3, PackedTotal

\* The loop has an outcome: the answer Pack describes exists.
LEMMA PackExists ==
  ASSUME born \in Seq(Rules), IsInjective(born),
         NEW S, S \subseteq ToSet(born), IsFiniteSet(S)
  PROVE  \E P \in SUBSET S : IsPacked(P, S)
<1> DEFINE F == {T \in SUBSET S : ~ \E P \in SUBSET T : IsPacked(P, T)}
<1>1. SUFFICES ASSUME F # {} PROVE FALSE
  OBVIOUS
<1>2. PICK T \in F : \A U \in F : U \subseteq T => U = T
  <2>1. F \subseteq SUBSET S
    OBVIOUS
  <2> HIDE DEF F
  <2> QED
    BY <1>1, <2>1, MinimalSet
<1>3. T # {}
  BY DEF IsPacked
<1>4. PICK z \in T : \A q \in T \ {z} : PackedBefore(q, z)
  BY <1>3, PackedLast, FS_Subset
<1>5. PICK P \in SUBSET (T \ {z}) : IsPacked(P, T \ {z})
  <2>1. T \ {z} \in SUBSET S /\ T \ {z} \notin F
    BY <1>2
  <2> QED
    BY <2>1
<1> DEFINE Q == IF Fits(P, z) THEN P \cup {z} ELSE P
<1>6. IsPacked(Q, T)
  <2>1. ~PackedBefore(z, z)
    BY PackedIrreflexive
  <2>2. {q \in Q : PackedBefore(q, z)} = P
    BY <1>4, <2>1
  <2>3. ASSUME NEW r \in T \ {z} PROVE r \in Q <=> Fits({q \in Q : PackedBefore(q, r)}, r)
    <3>1. ~PackedBefore(z, r)
      <4>1. PackedBefore(r, z) /\ z \in ToSet(born) /\ r \in ToSet(born)
        BY <1>4
      <4> QED
        BY <4>1, <2>1, PackedTransitive
    <3>2. {q \in Q : PackedBefore(q, r)} = {q \in P : PackedBefore(q, r)}
      BY <3>1
    <3> QED
      BY <1>5, <3>2 DEF IsPacked
  <2>4. z \in Q <=> Fits({q \in Q : PackedBefore(q, z)}, z)
    BY <2>2
  <2> HIDE DEF Q
  <2> QED
    BY <2>3, <2>4 DEF IsPacked
<1>7. Q \in SUBSET T /\ T \in F
  BY <1>2, <1>5
<1> HIDE DEF Q
<1> QED
  BY <1>6, <1>7

\* More rules take at least as much of the frame.
LEMMA BytesGrow ==
  ASSUME NEW A, NEW B, A \subseteq B, B \subseteq Rules
  PROVE  /\ IsFiniteSet(Bytes(B)) /\ Cardinality(Bytes(A)) \in Nat
         /\ Cardinality(Bytes(B)) \in Nat
         /\ Cardinality(Bytes(A)) <= Cardinality(Bytes(B))
<1>1. IsFiniteSet(B) /\ IsFiniteSet(0..Budget)
  BY HookAssumption, FS_Subset, FS_Interval
<1>2. IsFiniteSet(B \X (0..Budget))
  BY <1>1, FS_Product
<1>3. Bytes(B) \in SUBSET (B \X (0..Budget)) /\ Bytes(A) \in SUBSET Bytes(B)
  BY DEF Bytes
<1>4. IsFiniteSet(Bytes(B))
  BY <1>2, <1>3, FS_Subset
<1>5. IsFiniteSet(Bytes(A)) /\ Cardinality(Bytes(A)) <= Cardinality(Bytes(B))
  BY <1>3, <1>4, FS_Subset
<1> QED
  BY <1>4, <1>5, FS_CardinalityType

\* A rule takes its size and a comma.
LEMMA BytesOfOne ==
  ASSUME NEW r \in Rules
  PROVE  Cardinality(Bytes({r})) = (IF r.size <= Budget THEN r.size ELSE Budget) + 1
<1> DEFINE n == IF r.size <= Budget THEN r.size ELSE Budget
<1>1. n \in Nat /\ n \in Int /\ 0 \in Int
  BY HookAssumption, RulesAreValid
<1>2. Bytes({r}) = {r} \X (0..n)
  BY HookAssumption, RulesAreValid DEF Bytes
<1> HIDE DEF n
<1>3. IsFiniteSet(0..n) /\ Cardinality(0..n) = n + 1
  BY <1>1, FS_Interval
<1>4. IsFiniteSet({r}) /\ Cardinality({r}) = 1
  BY FS_Singleton
<1>5. Cardinality({r} \X (0..n)) = Cardinality({r}) * Cardinality(0..n)
  BY <1>3, <1>4, FS_Product
<1>6. 1 * (n + 1) = n + 1
  BY <1>1
<1>7. Cardinality(Bytes({r})) = n + 1
  BY <1>2, <1>3, <1>4, <1>5, <1>6
<1> QED
  BY <1>7 DEF n

LEMMA BytesAdd ==
  ASSUME NEW A, A \subseteq Rules, NEW r \in Rules \ A, r.size <= Budget
  PROVE  Cardinality(Bytes(A \cup {r})) = Cardinality(Bytes(A)) + r.size + 1
<1>1. /\ IsFiniteSet(Bytes(A)) /\ IsFiniteSet(Bytes({r}))
      /\ Cardinality(Bytes(A)) \in Nat
  BY BytesGrow
<1>2. Bytes(A \cup {r}) = Bytes(A) \cup Bytes({r}) /\ Bytes(A) \cap Bytes({r}) = {}
  BY DEF Bytes
<1>3. Cardinality(Bytes({r})) = r.size + 1 /\ r.size \in Nat
  BY BytesOfOne, RulesAreValid
<1>4. Cardinality({}) = 0
  BY FS_EmptySet
<1>5. Cardinality(Bytes(A) \cup Bytes({r}))
        = Cardinality(Bytes(A)) + Cardinality(Bytes({r})) - Cardinality(Bytes(A) \cap Bytes({r}))
  BY <1>1, FS_Union
<1>6. Cardinality(Bytes(A \cup {r})) = Cardinality(Bytes(A)) + Cardinality(Bytes({r})) - 0
  BY <1>2, <1>4, <1>5, Zenon
<1> QED
  BY <1>1, <1>3, <1>6

\* What an answer P to a message that the rules S match is good for: it has every
\* block rule, and of the others none that is larger than one that is missing.
GoodAnswer(P, S) ==
  /\ P \subseteq S
  /\ \A r \in S : IsBlock(r) => r \in P
  /\ \A r \in S \ P, q \in P : IsNoBlock(r) /\ IsNoBlock(q) => q.size <= r.size

\* The daemon answers with every block rule that matched, and large rules are the
\* first to be dropped.
LEMMA PackIsGood ==
  ASSUME born \in Seq(Rules), IsInjective(born), NEW S, S \subseteq ToSet(born)
  PROVE  GoodAnswer(Pack(S), S)
<1>1. S \subseteq Rules /\ IsFiniteSet(S)
  BY HookAssumption, FS_Subset DEF ToSet
<1> DEFINE P == Pack(S)
           Ahead(r) == {q \in P : PackedBefore(q, r)}
           Used(r) == Cardinality(Bytes(Ahead(r)))
           B == {r \in Rules : IsBlock(r)}
<1>2. P \in SUBSET S /\ IsPacked(P, S)
  BY <1>1, PackExists DEF Pack
<1> HIDE DEF P
<1>3. ASSUME NEW r \in S
      PROVE  /\ r.size \in Nat /\ Used(r) \in Nat /\ Ahead(r) \subseteq Rules
             /\ r \in P <=> 2 + Used(r) + r.size <= Budget
  <2>1. Ahead(r) \subseteq Rules
    BY <1>1, <1>2
  <2>2. Used(r) \in Nat
    BY <2>1, BytesGrow
  <2>3. r \in P <=> Fits(Ahead(r), r)
    BY <1>2 DEF IsPacked
  <2> QED
    BY <1>1, <2>1, <2>2, <2>3, RulesAreValid DEF Fits
<1>4. Budget \in Nat
  BY HookAssumption
<1>5. ASSUME NEW r \in S, IsBlock(r) PROVE r \in P
  <2>1. Ahead(r) \cup {r} \subseteq B
    <3>1. \A q \in Ahead(r) : IsBlock(q)
      BY <1>5 DEF PackedBefore
    <3> QED
      BY <1>1, <1>3, <1>5, <3>1
  <2>2. r \in Rules \ Ahead(r)
    BY <1>1, PackedIrreflexive
  <2>3. /\ Cardinality(Bytes({r})) <= Cardinality(Bytes(B))
        /\ Cardinality(Bytes(Ahead(r) \cup {r})) <= Cardinality(Bytes(B))
        /\ Cardinality(Bytes(B)) \in Nat
    BY <2>1, BytesGrow
  <2>4. Cardinality(Bytes(B)) < Budget
    BY BlocksFit
  <2>5. r.size <= Budget
    BY <1>3, <1>4, <2>2, <2>3, <2>4, BytesOfOne
  <2>6. Cardinality(Bytes(Ahead(r) \cup {r})) = Used(r) + r.size + 1
    BY <1>3, <2>2, <2>5, BytesAdd
  <2> QED
    BY <1>3, <1>4, <2>3, <2>4, <2>6
<1>6. ASSUME NEW r \in S \ P, NEW q \in P, IsNoBlock(r), IsNoBlock(q), ~(q.size <= r.size)
      PROVE  FALSE
  <2>1. r \in S /\ q \in S
    BY <1>2, <1>6
  <2>2. r.size \in Nat /\ q.size \in Nat
    BY <1>3, <2>1
  <2>3. r.size < q.size
    BY <1>6, <2>2
  <2>4. PackedBefore(r, q)
    BY <1>6, <2>3 DEF PackedBefore, IsNoBlock
  <2>5. Ahead(r) \subseteq Ahead(q)
    BY <1>2, <2>1, <2>4, PackedTransitive
  <2>6. Used(r) <= Used(q)
    BY <1>3, <2>1, <2>5, BytesGrow
  <2> QED
    BY <1>3, <1>4, <1>6, <2>1, <2>3, <2>6
<1> QED
  BY <1>2, <1>5, <1>6 DEF GoodAnswer, P

-------------------------------------------------------------------------------
(* Type correctness.                                                        *)

USE DEF Gone

\* A plan for rules is made of entries about them.
LEMMA PlanType ==
  ASSUME NEW S, S \subseteq Rules
  PROVE  Plan(S) \subseteq Entries
BY DEF Plan, Entries, Each, Credit, Abort, Leave

LEMMA CallForType ==
  ASSUME HookTypeOK, NEW m \in Messages
  PROVE  CallFor(m) \in Call \cup {NoCall}
<1>1. step[m] \in Entries \cup {Idle, Asking} \cup Gone
  BY DEF HookTypeOK
<1>2. m[1] \in Values /\ Doctored \in Values /\ done[m] \subseteq Rules
  BY HookAssumption DEF Messages, HookTypeOK
<1>3. TokenSeen(m) \in Values
  BY <1>2 DEF TokenSeen
<1>4. step[m].do \in {"dry", "apply"} => step[m].rule \in Rules
  BY <1>1 DEF Entries, Each, Credit, Abort, Leave, Idle, Asking, Left, Blocked
<1>5. step[m].do \in {"credit", "abort"} => step[m].rules \subseteq Rules
  BY <1>1 DEF Entries, Each, Credit, Abort, Leave, Idle, Asking, Left, Blocked
<1> QED
  BY <1>2, <1>3, <1>4, <1>5 DEF CallFor, Call, NoCall

LEMMA GoesToType ==
  ASSUME HookTypeOK, NEW m \in Messages, NEW todo, todo \subseteq Entries, GoesTo(m, todo)
  PROVE  /\ step' \in [Messages -> Entries \cup {Idle, Asking} \cup Gone]
         /\ rest' \in [Messages -> SUBSET Entries]
BY DEF GoesTo, HookTypeOK

LEMMA OnwardType ==
  ASSUME HookTypeOK, NEW m \in Messages, Onward(m)
  PROVE  /\ step' \in [Messages -> Entries \cup {Idle, Asking} \cup Gone]
         /\ rest' \in [Messages -> SUBSET Entries]
<1>1. CASE \E how \in Gone : Ends(m, how)
  BY <1>1 DEF Ends, HookTypeOK
<1>2. CASE GoesTo(m, rest[m])
  BY <1>2, GoesToType DEF HookTypeOK
<1> QED
  BY <1>1, <1>2 DEF Onward

\* The daemon's handlers call the store as its users may.
LEMMA PerformRelays ==
  ASSUME HookTypeOK, NEW m \in Messages, NEW c \in Call, Perform(m, c)
  PROVE  RelayNext \/ UNCHANGED relayVars
<1>1. CASE c.op = "store_relay_value"
  <2>1. c.rule \in Rules /\ c.rule.kind = "relay_extract" /\ c.val \in Values
    BY <1>1 DEF Call
  <2>2. c.rule.name \in Names /\ c.rule.ttl \in Ttls
    BY <2>1, RulesAreValid
  <2>3. Store(c.rule.name, c.val, c.rule.ttl)
    BY <1>1 DEF Perform, StoreRelay
  <2> QED
    BY <2>1, <2>2, <2>3 DEF RelayNext
<1>2. CASE c.op = "get_relay_value"
  <2>1. c.rule \in Rules /\ c.rule.kind = "relay_inject"
    BY <1>2 DEF Call
  <2>2. c.rule.name \in Names
    BY <2>1, RulesAreValid
  <2>3. Fetch(c.rule.name)
    BY <1>2 DEF Perform, GetRelay
  <2> QED
    BY <2>2, <2>3 DEF RelayNext
<1>3. CASE c.op \notin {"store_relay_value", "get_relay_value"}
  BY <1>3 DEF Perform, GetRules, ReportHit, RecordDryRun
<1> QED
  BY <1>1, <1>2, <1>3

\* Seen from the relay store, the traffic is what any user may do to it.
LEMMA NextRelays ==
  ASSUME HookTypeOK, [HookNext]_hookTrafficVars
  PROVE  [RelayNext]_relayVars
<1>1. ASSUME NEW m \in Messages, Arrive(m) PROVE UNCHANGED relayVars
  BY <1>1 DEF Arrive
<1>2. ASSUME NEW m \in Messages, HookStep(m) PROVE UNCHANGED relayVars
  BY <1>2 DEF HookStep, Ask, Act, Receive, GiveUp, GoOn
<1>3. ASSUME NEW m \in Messages, Handle(m) PROVE [RelayNext]_relayVars
  BY <1>3, PerformRelays DEF Handle, Waits, HookTypeOK
<1>4. ASSUME NEW x \in late, HandleLate(x[1], x[2]) PROVE [RelayNext]_relayVars
  BY <1>4, PerformRelays DEF HandleLate, HookTypeOK
<1>5. ASSUME NEW r \in Rules, Install(r) \/ Withdraw(r) \/ ClearLog(r) PROVE UNCHANGED relayVars
  BY <1>5 DEF Install, Withdraw, ClearLog
<1>6. CASE Crash
  BY <1>6 DEF Crash, RelayNext
<1>7. CASE Restart
  BY <1>7 DEF Restart
<1>8. CASE Background
  BY <1>8 DEF Background, RelayNext
<1>9. CASE UNCHANGED hookTrafficVars
  BY <1>9 DEF hookTrafficVars
<1> QED
  BY <1>1, <1>2, <1>3, <1>4, <1>5, <1>6, <1>7, <1>8, <1>9 DEF HookNext
\* The rules that match a message are in the dictionary, and of its side.
LEMMA MatchingType ==
  ASSUME HookTypeOK, NEW m \in Messages
  PROVE  /\ Matching(m) \subseteq ToSet(born) /\ Matching(m) \subseteq Rules
         /\ \A r \in Matching(m) : r.side = m[2]
         /\ GoodAnswer(Pack(Matching(m)), Matching(m))
<1>1. ToSet(born) \subseteq Rules
  BY DEF HookTypeOK, ToSet
<1>2. Matching(m) \subseteq ToSet(born) /\ \A r \in Matching(m) : r.side = m[2]
  BY DEF Matching, Matches, HookTypeOK
<1> QED
  BY <1>1, <1>2, PackIsGood DEF HookTypeOK

LEMMA ReplyToType ==
  ASSUME HookTypeOK, NEW m \in Messages, NEW c \in Call
  PROVE  ReplyTo(m, c) \in Reply
<1>1. CASE c.op = "get_rules"
  BY <1>1, MatchingType DEF ReplyTo, Reply, GoodAnswer
<1>2. CASE c.op = "get_relay_value"
  <2>1. c.rule.name \in Names
    BY <1>2, RulesAreValid DEF Call
  <2>2. Live[c.rule.name] \in Entry \cup {NoToken}
    BY <2>1 DEF Live, HookTypeOK, RelayTypeOK
  <2> QED
    BY <1>2, <2>2 DEF ReplyTo, Reply
<1> QED
  BY <1>1, <1>2 DEF ReplyTo, Reply

\* The types of what the daemon keeps, and of what is remembered of it.
DaemonTypeOK ==
  /\ up \in BOOLEAN
  /\ born \in Seq(Rules) /\ IsInjective(born) /\ installed \subseteq ToSet(born)
  /\ hits \in [Rules -> Nat] /\ savedHits \in [Rules -> Nat]
  /\ dryLog \in [Rules -> Seq(Messages)] /\ \A r \in Rules : Len(dryLog[r]) <= PerRuleLimit
  /\ {matched, kept} \subseteq [Messages -> SUBSET Rules]

LEMMA RecordDryRunType ==
  ASSUME HookTypeOK, NEW m \in Messages, NEW r \in Rules, RecordDryRun(m, r)
  PROVE  dryLog' \in [Rules -> Seq(Messages)] /\ \A q \in Rules : Len(dryLog'[q]) <= PerRuleLimit
<1> DEFINE longer == Append(dryLog[r], m)
           bucket == IF Len(longer) > PerRuleLimit THEN Tail(longer) ELSE longer
<1>1. dryLog[r] \in Seq(Messages) /\ Len(dryLog[r]) <= PerRuleLimit /\ PerRuleLimit \in Nat
  BY HookAssumption DEF HookTypeOK
<1>2. longer \in Seq(Messages) /\ Len(longer) = Len(dryLog[r]) + 1
  BY <1>1
<1>3. bucket \in Seq(Messages) /\ Len(bucket) <= PerRuleLimit
  BY <1>1, <1>2
<1>4. dryLog' = dryLog \/ dryLog' = [dryLog EXCEPT ![r] = bucket]
  BY DEF RecordDryRun
<1> HIDE DEF bucket
<1> QED
  BY <1>3, <1>4 DEF HookTypeOK

LEMMA PerformType ==
  ASSUME HookTypeOK, NEW m \in Messages, NEW c \in Call, Perform(m, c), UNCHANGED up
  PROVE  DaemonTypeOK'
<1> USE DEF HookTypeOK, DaemonTypeOK
<1>1. CASE c.op = "get_rules" /\ GetRules(m)
  BY <1>1, MatchingType DEF GetRules, engineVars
<1>2. CASE c.op = "report_hit" /\ ReportHit(c.rules)
  BY <1>2 DEF ReportHit
<1>3. CASE c.op = "store_relay_value" /\ StoreRelay(m, c)
  BY <1>3 DEF StoreRelay, engineVars, Call
<1>4. CASE c.op = "get_relay_value" /\ GetRelay(c)
  BY <1>4 DEF GetRelay, engineVars
<1>5. CASE c.op = "report_dry_run" /\ RecordDryRun(m, c.rule)
  <2>1. c.rule \in Rules
    BY <1>5 DEF Call
  <2> QED
    BY <1>5, <2>1, RecordDryRunType DEF RecordDryRun, engineVars
<1> QED
  BY <1>1, <1>2, <1>3, <1>4, <1>5 DEF Perform
\* Every variable keeps its type.
LEMMA HookTypeStep ==
  ASSUME HookTypeOK, [HookNext]_hookTrafficVars
  PROVE  HookTypeOK'
<1>1. RelayTypeOK'
  <2>1. RelayTypeOK /\ [RelayNext]_relayVars
    BY NextRelays DEF HookTypeOK
  <2>2. CASE Advance \/ RelayReaper \/ Wipe \/ UNCHANGED relayVars
    BY <2>1, <2>2, RelayAssumption
       DEF Advance, RelayReaper, BeginReap, Reap, Wipe, relayVars, RelayTypeOK
  <2>3. ASSUME NEW n \in Names, NEW v \in Values, NEW ttl \in Ttls, Store(n, v, ttl)
        PROVE  RelayTypeOK'
    BY <2>1, <2>3, PutTypes, RelayAssumption DEF Store, RelayTypeOK
  <2>4. ASSUME NEW n \in Names, Fetch(n) PROVE RelayTypeOK'
    BY <2>1, <2>4 DEF Fetch, RelayTypeOK
  <2> QED
    BY <2>1, <2>2, <2>3, <2>4 DEF RelayNext
<1> DEFINE HookVarsOK ==
             /\ late \subseteq Messages \X Call
             /\ step \in [Messages -> Entries \cup {Idle, Asking} \cup Gone]
             /\ rest \in [Messages -> SUBSET Entries]
             /\ call \in [Messages -> Call \cup {NoCall}]
             /\ reply \in [Messages -> Reply \cup {Unanswered, Lost}]
             /\ {done, edits, got} \subseteq [Messages -> SUBSET Rules]
<1>2. DaemonTypeOK /\ HookVarsOK
  BY DEF HookTypeOK, DaemonTypeOK
<1>3. ASSUME DaemonTypeOK', HookVarsOK' PROVE HookTypeOK'
  BY <1>1, <1>3 DEF HookTypeOK, DaemonTypeOK
<1>4. ASSUME UNCHANGED <<daemonVars, matched, kept>> PROVE DaemonTypeOK'
  BY <1>2, <1>4 DEF DaemonTypeOK, daemonVars, engineVars
<1>5. ASSUME UNCHANGED hookVars PROVE HookVarsOK' <=> late' \subseteq Messages \X Call
  BY <1>2, <1>5 DEF hookVars
<1>6. ASSUME NEW m \in Messages, Arrive(m) PROVE HookTypeOK'
  <2>1. [op |-> "get_rules"] \in Call
    BY DEF Call
  <2>2. HookVarsOK'
    BY <1>2, <1>6, <2>1 DEF Arrive, Calls
  <2> QED
    BY <1>3, <1>4, <1>6, <2>2 DEF Arrive
<1>7. ASSUME NEW m \in Messages, Ask(m) PROVE HookTypeOK'
  <2>1. CallFor(m) \in Call
    BY <1>7, CallForType DEF Ask
  <2>2. HookVarsOK'
    BY <1>2, <1>7, <2>1 DEF Ask, Calls
  <2> QED
    BY <1>3, <1>4, <1>7, <2>2 DEF Ask
<1>8. ASSUME NEW m \in Messages, NEW r \in Rules, NEW b, Applied(m, r, b)
      PROVE  {done', edits'} \subseteq [Messages -> SUBSET Rules]
  BY <1>2, <1>8 DEF Applied
<1>9. ASSUME NEW m \in Messages, step[m].do = "apply" PROVE step[m].rule \in Rules
  BY <1>2, <1>9 DEF Entries, Each, Credit, Abort, Leave, Idle, Asking, Left, Blocked
<1>10. ASSUME NEW m \in Messages, Act(m) PROVE HookTypeOK'
  <2>1. {done', edits'} \subseteq [Messages -> SUBSET Rules]
    BY <1>2, <1>8, <1>9, <1>10 DEF Act, NotApplied
  <2>2. HookVarsOK'
    BY <1>2, <1>10, <2>1, OnwardType DEF Act
  <2> QED
    BY <1>3, <1>4, <1>10, <2>2 DEF Act
<1>11. ASSUME NEW m \in Messages, NEW res \in Reply \cup {Lost}, GoOn(m, res),
              late' \subseteq Messages \X Call
       PROVE  HookTypeOK'
  <2>1. {done', edits'} \subseteq [Messages -> SUBSET Rules]
    BY <1>2, <1>8, <1>9, <1>11 DEF GoOn, NotApplied, Counts
  <2> DEFINE rules == IF res.ok = "rules" THEN res.rules ELSE {}
  <2>2. rules \subseteq Rules
    BY <1>11 DEF Reply, Lost
  <2>3. /\ step' \in [Messages -> Entries \cup {Idle, Asking} \cup Gone]
        /\ rest' \in [Messages -> SUBSET Entries]
    <3>1. CASE GoesTo(m, Plan(rules))
      BY <2>2, <3>1, PlanType, GoesToType
    <3>2. CASE Onward(m)
      BY <3>2, OnwardType
    <3> QED
      BY <1>11, <3>1, <3>2 DEF GoOn
  <2>4. got' \in [Messages -> SUBSET Rules]
    BY <1>2, <1>11, <2>2 DEF GoOn
  <2>5. call' \in [Messages -> Call \cup {NoCall}]
        /\ reply' \in [Messages -> Reply \cup {Unanswered, Lost}]
    BY <1>2, <1>11 DEF GoOn
  <2> QED
    BY <1>3, <1>4, <1>11, <2>1, <2>3, <2>4, <2>5 DEF GoOn
<1>12. ASSUME NEW m \in Messages, Receive(m) PROVE HookTypeOK'
  BY <1>2, <1>11, <1>12 DEF Receive
<1>13. ASSUME NEW m \in Messages, GiveUp(m) PROVE HookTypeOK'
  <2>1. call[m] \in Call
    BY <1>2, <1>13 DEF GiveUp, Waits
  <2> QED
    BY <1>2, <1>11, <1>13, <2>1 DEF GiveUp
<1>14. ASSUME NEW m \in Messages, Handle(m) PROVE HookTypeOK'
  <2>1. call[m] \in Call
    BY <1>2, <1>14 DEF Handle, Waits
  <2>2. HookVarsOK'
    BY <1>2, <1>14, <2>1, ReplyToType DEF Handle
  <2> QED
    BY <1>3, <1>14, <2>1, <2>2, PerformType DEF Handle
<1>15. ASSUME NEW x \in late, HandleLate(x[1], x[2]) PROVE HookTypeOK'
  BY <1>2, <1>3, <1>5, <1>15, PerformType DEF HandleLate
<1>16. ASSUME NEW r \in Rules, Install(r) PROVE HookTypeOK'
  <2>1. born' \in Seq(Rules) /\ IsInjective(born') /\ ToSet(born') = ToSet(born) \cup {r}
    BY <1>2, <1>16, AppendFresh DEF Install, DaemonTypeOK
  <2>2. DaemonTypeOK'
    BY <1>2, <1>16, <2>1 DEF Install, DaemonTypeOK
  <2> QED
    BY <1>2, <1>3, <1>5, <1>16, <2>2 DEF Install
<1>17. ASSUME NEW r \in Rules, Withdraw(r) PROVE HookTypeOK'
  BY <1>2, <1>3, <1>5, <1>17 DEF Withdraw, DaemonTypeOK
<1>18. ASSUME NEW r \in Rules, ClearLog(r) PROVE HookTypeOK'
  <2>1. <<>> \in Seq(Messages) /\ Len(<<>>) <= PerRuleLimit
    BY HookAssumption
  <2>2. DaemonTypeOK'
    BY <1>2, <1>18, <2>1 DEF ClearLog, DaemonTypeOK, engineVars
  <2> QED
    BY <1>2, <1>3, <1>5, <1>18, <2>2 DEF ClearLog
<1>19. CASE Crash
  <2>1. <<>> \in Seq(Messages) /\ Len(<<>>) <= PerRuleLimit
    BY HookAssumption
  <2>2. DaemonTypeOK'
    BY <1>2, <1>19, <2>1 DEF Crash, DaemonTypeOK
  <2>3. HookVarsOK'
    BY <1>2, <1>19 DEF Crash
  <2> QED
    BY <1>3, <2>2, <2>3
<1>20. CASE Restart
  BY <1>2, <1>3, <1>5, <1>20 DEF Restart, DaemonTypeOK, engineVars
<1>21. CASE Background
  BY <1>2, <1>3, <1>4, <1>5, <1>21 DEF Background, trafficVars
<1>22. CASE UNCHANGED hookTrafficVars
  BY <1>2, <1>3, <1>4, <1>5, <1>22 DEF hookTrafficVars, trafficVars
<1> QED
  BY <1>6, <1>7, <1>10, <1>12, <1>13, <1>14, <1>15, <1>16, <1>17, <1>18, <1>19, <1>20,
     <1>21, <1>22 DEF HookNext, HookStep

LEMMA HookTypeInit == HookInit => HookTypeOK
<1>1. RelayInit => RelayTypeOK
  BY RelayInvInit DEF RelayInv
<1>2. \A r \in Rules : <<>> \in Seq(Messages) /\ Len(<<>>) <= PerRuleLimit
  BY HookAssumption
<1> QED
  BY <1>1, <1>2, HookAssumption DEF HookInit, HookTypeOK

\* The invariant HookTypeOK, whatever the hooks, the daemon and its tools do.
THEOREM HookTypeCorrect == HookSpec => []HookTypeOK
BY HookTypeInit, HookTypeStep, PTL DEF HookSpec

\* The relay store behind the hooks is RelayStore: its theorems, TokenService among
\* them, hold of the traffic, late calls and crashes included.
THEOREM TrafficIsRelay == HookSpec => RelaySpec
<1>1. HookInit => RelayInit
  BY DEF HookInit
<1> QED
  BY <1>1, HookTypeCorrect, NextRelays, PTL DEF HookSpec, RelaySpec
-------------------------------------------------------------------------------
(* The inductive invariant.                                                 *)

NotBegun(m) == step[m] \in {Idle, Asking}

\* Before it has its answer the hook has done nothing.
Beginning(m) ==
  NotBegun(m) =>
    /\ rest[m] = {} /\ got[m] = {} /\ done[m] = {} /\ edits[m] = {} /\ kept[m] = {}
    /\ call[m] = IF step[m] = Idle THEN NoCall ELSE [op |-> "get_rules"]

\* Then it takes the entries of the plan for its answer, in the order of their stages.
FollowsPlan(m) ==
  ~NotBegun(m) =>
    /\ step[m] \in Plan(got[m]) \cup Gone
    /\ rest[m] \subseteq Plan(got[m]) \ {step[m]}
    /\ \A e \in rest[m] : Stage(m[2], step[m]) <= Stage(m[2], e)
    /\ step[m] = Left => Leave \in Plan(got[m])
    /\ step[m] = Blocked => \E r \in got[m] : IsRealBlock(r)
    /\ step[m] \in Gone => rest[m] = {} /\ ~Waits(m)
    /\ Waits(m) => call[m] = CallFor(m)

\* The daemon's replies are what they claim, and the answer the hook has is one.
AnswersAreGood(m) ==
  /\ \A r \in matched[m] : r.side = m[2]
  /\ got[m] = {} \/ GoodAnswer(got[m], matched[m])
  /\ Waits(m) /\ reply[m] \notin {Unanswered, Lost} =>
       /\ call[m].op = "get_rules" =>
            reply[m].ok = "rules" /\ GoodAnswer(reply[m].rules, matched[m])
       /\ call[m].op = "store_relay_value" /\ reply[m].ok = "yes" => call[m].rule \in kept[m]

\* What the hook has done is what its plan told it, each rule when its stage came.
EffectsAreDue(m) ==
  /\ \A r \in done[m] : IsNoBlock(r) /\ r \in got[m] /\ (r.dry \/ r \in edits[m] \cup kept[m])
  /\ \A r \in edits[m] : r \in done[m] /\ ~r.dry /\ r.kind # "relay_extract"
  /\ \A r \in kept[m] : r \in got[m] /\ ~r.dry
  /\ done[m] # {} => \A r \in got[m] : ~IsRealBlock(r)
  /\ \A r \in edits[m] : 2 + Order(m[2], r.kind) <= Stage(m[2], step[m])

HookOK(m) == Beginning(m) /\ FollowsPlan(m) /\ AnswersAreGood(m) /\ EffectsAreDue(m)

\* Entry e is about rule r: a dry run or an application of it.
IsAbout(e, r) == e.do \in {"dry", "apply"} /\ e.rule = r

\* It may report a hit of r.
Credits(e, r) ==
  \/ e.do \in {"credit", "abort"} /\ r \in e.rules
  \/ e.do = "leave" /\ IsNoBlock(r)

\* The reports of message m.
DryRun(r) == [op |-> "report_dry_run", rule |-> r]
Hits(S) == [op |-> "report_hit", rules |-> S]

\* The block rules of S.
Blocks(S) == {r \in S : IsBlock(r)}

\* The entries still to be reached, and the one the hook is at.
Agenda(m) == rest[m] \cup {step[m]}

\* A late call is one that the hook has made and will not make again.
LateOK(m, c) ==
  /\ ~NotBegun(m)
  /\ \/ \E r \in got[m] : c = DryRun(r) /\ \A e \in Agenda(m) : ~IsAbout(e, r)
     \/ /\ c.op = "store_relay_value" /\ c.val \in Exchanges
        /\ c.rule \in got[m] /\ ~c.rule.dry
     \/ c = Hits(Blocks(got[m])) /\ \A e \in Agenda(m) : e.do \notin {"credit", "abort"}
     \/ c = Hits(done[m]) /\ step[m] = Left

\* The entries whose call, if they make one, the daemon may yet carry out.
Ahead(m) == IF Waits(m) /\ reply[m] # Unanswered THEN rest[m] ELSE Agenda(m)

\* The daemon may yet be told of a dry run of rule r on m.
DryDue(r, m) ==
  \/ NotBegun(m)
  \/ \E e \in Ahead(m) : IsAbout(e, r)
  \/ <<m, DryRun(r)>> \in late

\* The daemon may yet be told of a hit of r for m.
HitDue(r, m) ==
  \/ NotBegun(m)
  \/ \E e \in Ahead(m) : Credits(e, r)
  \/ \E x \in late : x[1] = m /\ x[2].op = "report_hit" /\ r \in x[2].rules

LogIsDone ==
  \A r \in Rules :
    /\ IsInjective(dryLog[r])
    /\ \A m \in ToSet(dryLog[r]) : r \in matched[m] /\ ~DryDue(r, m)

\* The messages whose hit of r may have been counted.
Counted(r) == {m \in Messages : Earned(r, m) /\ ~HitDue(r, m)}

HitsAreCounted ==
  \A r \in Rules : /\ hits[r] <= Cardinality(Counted(r))
                   /\ savedHits[r] <= Cardinality(Counted(r))

TokensAreServers == \A n \in Stored : entries[n].val \in Exchanges

-------------------------------------------------------------------------------
(* Plans.                                                                   *)

LEMMA StageType ==
  ASSUME NEW side, NEW e
  PROVE  /\ Stage(side, e) \in 0..12
         /\ e.do = "apply" => Stage(side, e) = 2 + Order(side, e.rule.kind)
         /\ \A kind : Order(side, kind) \in 0..9
<1>1. \A kind : Order(side, kind) \in 0..9
  BY DEF Order
<1>2. CASE e.do = "apply"
  BY <1>1, <1>2 DEF Stage
<1> QED
  BY <1>1, <1>2 DEF Stage

\* What the entries of a plan are.
LEMMA PlanEntries ==
  ASSUME NEW S, NEW e \in Plan(S)
  PROVE  /\ e.do \in {"dry", "apply", "credit", "abort", "leave"}
         /\ e.do = "dry" => /\ e = [do |-> "dry", rule |-> e.rule]
                            /\ e.rule \in S /\ IsDryBlock(e.rule)
         /\ e.do = "apply" => /\ e = [do |-> "apply", rule |-> e.rule]
                              /\ e.rule \in S /\ IsNoBlock(e.rule)
         /\ e.do = "credit" => e = Credit(Blocks(S))
         /\ e.do = "abort" => e = Abort(Blocks(S))
         /\ e.do = "leave" => e = Leave
         /\ (\E r \in S : IsRealBlock(r)) => e.do \in {"dry", "abort"}
         /\ e.do = "abort" => \E r \in S : IsRealBlock(r)
<1> DEFINE real == {r \in S : IsRealBlock(r)}
           dry == {r \in S : IsDryBlock(r)}
           others == {r \in S : IsNoBlock(r)}
<1>1. \/ e \in Each("dry", dry)
      \/ real # {} /\ e = Abort(real \cup dry)
      \/ real = {} /\ dry # {} /\ e = Credit(dry)
      \/ real = {} /\ e \in Each("apply", others) \cup {Leave}
  BY DEF Plan
<1>2. real \cup dry = Blocks(S) /\ (real = {} => dry = Blocks(S))
  BY DEF Blocks, IsRealBlock, IsDryBlock
<1>3. real # {} <=> \E r \in S : IsRealBlock(r)
  OBVIOUS
<1>4. CASE e \in Each("dry", dry)
  BY <1>4 DEF Each
<1>5. CASE real # {} /\ e = Abort(real \cup dry)
  BY <1>2, <1>3, <1>5 DEF Abort
<1>6. CASE real = {} /\ dry # {} /\ e = Credit(dry)
  BY <1>2, <1>3, <1>6 DEF Credit
<1>7. CASE real = {} /\ e \in Each("apply", others)
  BY <1>3, <1>7 DEF Each
<1>8. CASE real = {} /\ e = Leave
  BY <1>3, <1>8 DEF Leave
<1> QED
  BY <1>1, <1>4, <1>5, <1>6, <1>7, <1>8

\* No rule is taken up, and no hit reported, by two entries of a plan.
LEMMA PlanOnce ==
  ASSUME NEW S, NEW e \in Plan(S), NEW f \in Plan(S), e # f
  PROVE  /\ \A r : ~(IsAbout(e, r) /\ IsAbout(f, r)) /\ ~(Credits(e, r) /\ Credits(f, r))
         /\ ~(e.do \in {"credit", "abort"} /\ f.do \in {"credit", "abort"})
<1>1. ~(e.do \in {"credit", "abort"} /\ f.do \in {"credit", "abort"})
  BY PlanEntries
<1>2. ASSUME NEW r, IsAbout(e, r), IsAbout(f, r) PROVE FALSE
  BY <1>2, PlanEntries DEF IsAbout, IsDryBlock, IsNoBlock
<1>3. ASSUME NEW r, Credits(e, r), Credits(f, r) PROVE FALSE
  <2>1. CASE e.do \in {"credit", "abort"}
    <3>1. r \in Blocks(S)
      BY <1>3, <2>1, PlanEntries DEF Credits, Credit, Abort
    <3> QED
      BY <1>1, <1>3, <2>1, <3>1 DEF Credits, Blocks, IsNoBlock
  <2>2. CASE f.do \in {"credit", "abort"}
    <3>1. r \in Blocks(S)
      BY <1>3, <2>2, PlanEntries DEF Credits, Credit, Abort
    <3> QED
      BY <1>1, <1>3, <2>2, <3>1 DEF Credits, Blocks, IsNoBlock
  <2> QED
    BY <1>3, <2>1, <2>2, PlanEntries DEF Credits
<1> QED
  BY <1>1, <1>2, <1>3

\* The markers of a hook that is not at an entry are no entries.
LEMMA NotInPlan ==
  ASSUME NEW S, NEW e \in Plan(S)
  PROVE  e \notin Gone \cup {Idle, Asking}
BY PlanEntries DEF Left, Blocked, Idle, Asking

\* To go to the first entry of todo.
LEMMA GoesToFirst ==
  ASSUME HookTypeOK, NEW m \in Messages, NEW todo, GoesTo(m, todo)
  PROVE  /\ step'[m] \in todo /\ rest'[m] = todo \ {step'[m]}
         /\ \A e \in rest'[m] : Stage(m[2], step'[m]) <= Stage(m[2], e)
         /\ \A n \in Messages \ {m} : step'[n] = step[n] /\ rest'[n] = rest[n]
<1>1. PICK e \in todo : /\ \A f \in todo \ {e} : Before(m[2], e, f)
                        /\ step' = [step EXCEPT ![m] = e]
                        /\ rest' = [rest EXCEPT ![m] = todo \ {e}]
  BY DEF GoesTo
<1>2. step'[m] = e /\ rest'[m] = todo \ {e}
  BY <1>1 DEF HookTypeOK
<1>3. \A f \in todo \ {e} : Stage(m[2], e) <= Stage(m[2], f)
  BY <1>1, StageType DEF Before
<1> QED
  BY <1>1, <1>2, <1>3 DEF HookTypeOK

\* The hook of a message goes on: to an entry of the rest, or the last one is over.
LEMMA Moves ==
  ASSUME HookTypeOK, NEW m \in Messages, FollowsPlan(m), Busy(m), step[m] # Asking, Onward(m)
  PROVE  /\ step[m] \in Plan(got[m])
         /\ step'[m] \in rest[m] \cup Gone /\ step'[m] # step[m] /\ step'[m] \notin {Idle, Asking}
         /\ rest'[m] \subseteq rest[m] \ {step'[m]}
         /\ \A e \in rest'[m] : Stage(m[2], step'[m]) <= Stage(m[2], e)
         /\ Stage(m[2], step[m]) <= Stage(m[2], step'[m])
         /\ step'[m] \in Gone => rest'[m] = {}
         /\ step'[m] = Left <=> step[m].do = "leave"
         /\ step'[m] = Left => Leave \in Plan(got[m])
         /\ step'[m] = Blocked => \E r \in got[m] : IsRealBlock(r)
         /\ \A n \in Messages \ {m} : step'[n] = step[n] /\ rest'[n] = rest[n]
<1>1. step[m] \in Plan(got[m]) /\ rest[m] \subseteq Plan(got[m]) \ {step[m]}
      /\ \A e \in rest[m] : Stage(m[2], step[m]) <= Stage(m[2], e)
  BY DEF FollowsPlan, NotBegun, Busy
<1>2. step[m] \notin Gone \cup {Idle, Asking}
      /\ \A e \in rest[m] : e \notin Gone \cup {Idle, Asking} /\ e.do \in {"dry", "apply", "credit", "abort", "leave"}
  BY <1>1, NotInPlan, PlanEntries
<1>3. CASE step[m].do = "abort" /\ Ends(m, Blocked)
  <2>1. step'[m] = Blocked /\ rest' = rest /\ \A n \in Messages \ {m} : step'[n] = step[n]
    BY <1>3 DEF Ends, HookTypeOK
  <2>2. \E r \in got[m] : IsRealBlock(r)
    BY <1>1, <1>3, PlanEntries
  <2>3. rest[m] = {}
    <3>1. SUFFICES ASSUME NEW e \in rest[m] PROVE FALSE
      OBVIOUS
    <3>2. e.do \in {"dry", "abort"}
      BY <1>1, <2>2, PlanEntries
    <3>3. e.do = "abort"
      BY <1>1, <1>3, <3>2 DEF Stage
    <3> QED
      BY <1>1, <1>3, <3>3, PlanOnce
  <2>4. Stage(m[2], step[m]) = 1 /\ Stage(m[2], Blocked) = 12
    BY <1>3 DEF Stage, Blocked
  <2>5. Blocked # Left /\ {Left, Blocked} \cap {Idle, Asking} = {}
    BY DEF Left, Blocked, Idle, Asking
  <2>6. rest'[m] = {} /\ rest'[m] \subseteq rest[m] \ {step'[m]}
        /\ \A n \in Messages \ {m} : rest'[n] = rest[n]
    BY <2>1, <2>3
  <2>7. Stage(m[2], step[m]) <= Stage(m[2], step'[m])
    BY <2>1, <2>4
  <2>8. step'[m] # step[m] /\ step'[m] \notin {Idle, Asking}
    BY <1>2, <2>1, <2>5
  <2> QED
    BY <1>1, <1>3, <2>1, <2>2, <2>5, <2>6, <2>7, <2>8
<1>4. CASE step[m].do = "leave" /\ Ends(m, Left)
  <2>1. step'[m] = Left /\ rest' = rest /\ \A n \in Messages \ {m} : step'[n] = step[n]
    BY <1>4 DEF Ends, HookTypeOK
  <2>2. step[m] = Leave
    BY <1>1, <1>4, PlanEntries
  <2>3. rest[m] = {}
    <3>1. SUFFICES ASSUME NEW e \in rest[m] PROVE FALSE
      OBVIOUS
    <3>2. Stage(m[2], step[m]) = 12
      BY <1>4 DEF Stage
    <3>3. e.do = "leave"
      BY <1>1, <1>2, <3>2, StageType DEF Stage
    <3> QED
      BY <1>1, <2>2, <3>3, PlanEntries
  <2>4. Stage(m[2], step[m]) = 12 /\ Stage(m[2], Left) = 12
    BY <1>4 DEF Stage, Left
  <2>5. Blocked # Left /\ {Left, Blocked} \cap {Idle, Asking} = {}
    BY DEF Left, Blocked, Idle, Asking
  <2>6. rest'[m] = {} /\ rest'[m] \subseteq rest[m] \ {step'[m]}
        /\ \A n \in Messages \ {m} : rest'[n] = rest[n]
    BY <2>1, <2>3
  <2>7. Stage(m[2], step[m]) <= Stage(m[2], step'[m])
    BY <2>1, <2>4
  <2>8. step'[m] # step[m] /\ step'[m] \notin {Idle, Asking}
    BY <1>2, <2>1, <2>5
  <2> QED
    BY <1>1, <1>4, <2>1, <2>2, <2>5, <2>6, <2>7, <2>8
<1>5. CASE step[m].do \notin {"abort", "leave"} /\ GoesTo(m, rest[m])
  <2>1. /\ step'[m] \in rest[m] /\ rest'[m] = rest[m] \ {step'[m]}
        /\ \A e \in rest'[m] : Stage(m[2], step'[m]) <= Stage(m[2], e)
        /\ \A n \in Messages \ {m} : step'[n] = step[n] /\ rest'[n] = rest[n]
    BY <1>5, GoesToFirst
  <2> QED
    BY <1>1, <1>2, <1>5, <2>1
<1> QED
  BY <1>3, <1>4, <1>5 DEF Onward

-------------------------------------------------------------------------------
(* The steps of a hook.                                                     *)

\* In a step the hook of m stays well and, once it has begun, only goes forward.
StaysWell(m) ==
  /\ HookOK(m)'
  /\ NotBegun(m)' => NotBegun(m)
  /\ ~NotBegun(m) =>
       /\ got'[m] = got[m] /\ matched'[m] = matched[m]
       /\ done[m] \subseteq done'[m] /\ edits[m] \subseteq edits'[m] /\ kept[m] \subseteq kept'[m]
       /\ Agenda(m)' \subseteq Agenda(m) \cup Gone /\ Ahead(m)' \subseteq Ahead(m) \cup Gone
       /\ step[m] \in Gone => step'[m] = step[m] /\ done'[m] = done[m]

LEMMA SameCall ==
  ASSUME NEW m, step'[m] = step[m], done'[m] = done[m], edits'[m] = edits[m]
  PROVE  CallFor(m)' = CallFor(m)
BY DEF CallFor, TokenSeen

\* A step that does not touch the hook's own state, but perhaps ends its wait.
LEMMA HookFrame ==
  ASSUME NEW m, HookOK(m),
         step'[m] = step[m], rest'[m] = rest[m], call'[m] = call[m],
         reply'[m] = reply[m] \/ reply'[m] = Lost,
         done'[m] = done[m], edits'[m] = edits[m],
         matched'[m] = matched[m], got'[m] = got[m], kept'[m] = kept[m]
  PROVE  StaysWell(m)
<1>1. Beginning(m)' /\ EffectsAreDue(m)'
  BY DEF HookOK, Beginning, EffectsAreDue, NotBegun
<1>2. FollowsPlan(m)'
  BY SameCall DEF HookOK, FollowsPlan, NotBegun, Waits
<1>3. AnswersAreGood(m)'
  BY DEF HookOK, AnswersAreGood, Waits
<1>4. Agenda(m)' = Agenda(m) /\ Ahead(m)' \subseteq Ahead(m)
  BY DEF Agenda, Ahead, Waits, Unanswered, Lost
<1>5. NotBegun(m)' <=> NotBegun(m)
  BY DEF NotBegun
<1> QED
  BY <1>1, <1>2, <1>3, <1>4, <1>5 DEF HookOK, StaysWell

\* The call that the hook of m waits for, once it has its answer.
LEMMA CallsOf ==
  ASSUME HookTypeOK, NEW m \in Messages, HookOK(m), ~NotBegun(m), step[m] \notin Gone
  PROVE  /\ step[m] \in Plan(got[m])
         /\ \/ CallFor(m) = NoCall
            \/ /\ IsAbout(step[m], step[m].rule) /\ step[m].rule \in got[m]
               /\ CallFor(m) = DryRun(step[m].rule)
            \/ /\ step[m].do = "apply" /\ step[m].rule \in got[m] /\ ~step[m].rule.dry
               /\ step[m].rule.kind = "relay_extract"
               /\ CallFor(m) = [op |-> "store_relay_value", rule |-> step[m].rule, val |-> m[1]]
            \/ /\ step[m].do = "apply" /\ step[m].rule.kind = "relay_inject"
               /\ ~step[m].rule.dry
               /\ CallFor(m) = [op |-> "get_relay_value", rule |-> step[m].rule]
            \/ /\ step[m].do \in {"credit", "abort"} /\ step[m].rules = Blocks(got[m])
               /\ CallFor(m) = Hits(Blocks(got[m]))
            \/ step[m] = Leave /\ CallFor(m) = Hits(done[m])
<1> DEFINE e == step[m]
<1>1. e \in Plan(got[m]) /\ got[m] \subseteq Rules
  BY DEF HookOK, FollowsPlan, HookTypeOK
<1>2. CASE e.do = "dry" \/ (e.do = "apply" /\ e.rule.dry)
  <2>1. CallFor(m) = DryRun(e.rule) /\ IsAbout(e, e.rule)
    BY <1>2 DEF CallFor, DryRun, IsAbout
  <2> QED
    BY <1>1, <1>2, <2>1, PlanEntries
<1>3. CASE e.do = "apply" /\ ~e.rule.dry /\ e.rule.kind = "relay_extract"
  <2>1. e.rule \in got[m] /\ e.rule \in Rules
    BY <1>1, <1>3, PlanEntries
  <2>2. edits[m] = {}
    <3>1. SUFFICES ASSUME NEW q \in edits[m] PROVE FALSE
      OBVIOUS
    <3>2. q \in got[m] /\ q.kind # "relay_extract" /\ 2 + Order(m[2], q.kind) <= Stage(m[2], e)
      BY DEF HookOK, EffectsAreDue
    <3>3. Stage(m[2], e) = 2
      BY <1>3 DEF Stage, Order
    <3>4. Order(m[2], q.kind) = 0
      BY <3>2, <3>3, StageType
    <3>5. q.kind = "relay_inject"
      BY <3>2, <3>4 DEF Order
    <3>6. got[m] \subseteq matched[m]
      BY DEF HookOK, AnswersAreGood, GoodAnswer
    <3>7. q.side = m[2] /\ e.rule.side = m[2] /\ q \in Rules
      BY <1>1, <2>1, <3>2, <3>6 DEF HookOK, AnswersAreGood
    <3>8. e.rule.side = "response" /\ q.side = "request"
      BY <1>3, <2>1, <3>5, <3>7, RulesAreValid
    <3> QED
      BY <3>7, <3>8
  <2>3. TokenSeen(m) = m[1]
    BY <2>2 DEF TokenSeen
  <2>4. CallFor(m) \in {NoCall, [op |-> "store_relay_value", rule |-> e.rule, val |-> m[1]]}
    BY <1>3, <2>3 DEF CallFor
  <2> QED
    BY <1>1, <1>3, <2>1, <2>4
<1>4. CASE e.do = "apply" /\ ~e.rule.dry /\ e.rule.kind = "relay_inject"
  BY <1>1, <1>4 DEF CallFor
<1>5. CASE e.do \in {"credit", "abort"}
  <2>1. e.rules = Blocks(got[m])
    BY <1>1, <1>5, PlanEntries DEF Credit, Abort
  <2> QED
    BY <1>1, <1>5, <2>1 DEF CallFor, Hits
<1>6. CASE e.do = "leave"
  <2>1. e = Leave
    BY <1>1, <1>6, PlanEntries
  <2>2. CallFor(m) \in {NoCall, Hits(done[m])}
    BY <1>6 DEF CallFor, Hits
  <2> QED
    BY <1>1, <2>1, <2>2
<1>7. CASE e.do = "apply" /\ ~e.rule.dry /\ e.rule.kind \notin {"relay_extract", "relay_inject"}
  BY <1>1, <1>7 DEF CallFor
<1> QED
  BY <1>1, <1>2, <1>3, <1>4, <1>5, <1>6, <1>7, PlanEntries

LEMMA ArriveHook ==
  ASSUME HookTypeOK, NEW m \in Messages, HookOK(m), Arrive(m)
  PROVE  StaysWell(m)
<1>1. /\ step[m] = Idle /\ step'[m] = Asking /\ Asking # Idle
      /\ call'[m] = [op |-> "get_rules"] /\ reply'[m] \in {Unanswered, Lost}
      /\ UNCHANGED <<rest, done, edits, got, matched, kept>>
  BY DEF Arrive, Calls, HookTypeOK, Asking, Idle
<1>2. rest[m] = {} /\ got[m] = {} /\ done[m] = {} /\ edits[m] = {} /\ kept[m] = {}
  BY <1>1 DEF HookOK, Beginning, NotBegun
<1>3. Beginning(m)' /\ FollowsPlan(m)' /\ EffectsAreDue(m)'
  BY <1>1, <1>2 DEF Beginning, FollowsPlan, EffectsAreDue, NotBegun
<1>4. AnswersAreGood(m)'
  BY <1>1 DEF HookOK, AnswersAreGood
<1> QED
  BY <1>1, <1>3, <1>4 DEF StaysWell, HookOK, NotBegun

\* A hook that is at an entry, or waits, and does not ask for the rules, has begun.
LEMMA HasBegun ==
  ASSUME NEW m \in Messages, HookOK(m),
         (Busy(m) /\ ~Waits(m)) \/ (Waits(m) /\ step[m] # Asking)
  PROVE  ~NotBegun(m) /\ step[m] \notin Gone /\ Busy(m) /\ step[m] # Asking
<1>1. step[m] = Idle => ~Waits(m)
  BY DEF HookOK, Beginning, NotBegun, Waits
<1>2. step[m] = Asking => Waits(m)
  BY DEF HookOK, Beginning, NotBegun, Waits, NoCall, Asking, Idle
<1>3. step[m] \in Gone => ~NotBegun(m) /\ ~Waits(m)
  BY DEF HookOK, FollowsPlan, NotBegun, Left, Blocked, Idle, Asking
<1> QED
  BY <1>1, <1>2, <1>3 DEF NotBegun, Busy

LEMMA AskHook ==
  ASSUME HookTypeOK, NEW m \in Messages, HookOK(m), Ask(m)
  PROVE  StaysWell(m)
<1>1. /\ ~Waits(m) /\ call'[m] = CallFor(m) /\ reply'[m] \in {Unanswered, Lost}
      /\ UNCHANGED <<step, rest, done, edits, got, matched, kept>>
  BY DEF Ask, Calls, HookTypeOK
<1>2. ~NotBegun(m) /\ step[m] \notin Gone
  BY HasBegun DEF Ask
<1>3. Beginning(m)' /\ EffectsAreDue(m)'
  BY <1>1, <1>2 DEF HookOK, Beginning, EffectsAreDue, NotBegun
<1>4. FollowsPlan(m)'
  BY <1>1, <1>2, SameCall DEF HookOK, FollowsPlan, NotBegun
<1>5. AnswersAreGood(m)'
  BY <1>1 DEF HookOK, AnswersAreGood
<1>6. Agenda(m)' = Agenda(m) /\ Ahead(m)' \subseteq Ahead(m)
  BY <1>1 DEF Agenda, Ahead
<1> QED
  BY <1>1, <1>2, <1>3, <1>4, <1>5, <1>6 DEF StaysWell, HookOK, NotBegun

\* What the hook may have done with its entry: nothing, or it applied the rule.
DoesEntry(m) ==
  \/ done'[m] = done[m] /\ edits'[m] = edits[m]
  \/ LET e == step[m] IN
       /\ e.do = "apply" /\ done'[m] = done[m] \cup {e.rule}
       /\ \/ edits'[m] = edits[m] /\ (e.rule.dry \/ e.rule \in kept[m])
          \/ edits'[m] = edits[m] \cup {e.rule} /\ ~e.rule.dry /\ e.rule.kind # "relay_extract"

\* A hook that has its answer goes on.
LEMMA OnwardHook ==
  ASSUME HookTypeOK, NEW m \in Messages, HookOK(m), Busy(m), step[m] # Asking,
         Onward(m), DoesEntry(m),
         call'[m] = NoCall, got'[m] = got[m], matched'[m] = matched[m], kept'[m] = kept[m]
  PROVE  StaysWell(m)
<1> DEFINE e == step[m]
<1>1. /\ e \in Plan(got[m])
      /\ step'[m] \in rest[m] \cup Gone /\ step'[m] # step[m] /\ step'[m] \notin {Idle, Asking}
      /\ rest'[m] \subseteq rest[m] \ {step'[m]}
      /\ \A f \in rest'[m] : Stage(m[2], step'[m]) <= Stage(m[2], f)
      /\ Stage(m[2], step[m]) <= Stage(m[2], step'[m])
      /\ step'[m] \in Gone => rest'[m] = {}
      /\ step'[m] = Left => Leave \in Plan(got[m])
      /\ step'[m] = Blocked => \E r \in got[m] : IsRealBlock(r)
  BY Moves DEF HookOK
<1>2. ~NotBegun(m) /\ ~NotBegun(m)' /\ ~Waits(m)' /\ e \notin Gone
  BY <1>1 DEF NotBegun, Busy, Waits
<1>3. rest[m] \subseteq Plan(got[m])
  BY <1>2 DEF HookOK, FollowsPlan
<1>4. Beginning(m)' /\ AnswersAreGood(m)'
  BY <1>2 DEF HookOK, Beginning, AnswersAreGood
<1>5. FollowsPlan(m)'
  BY <1>1, <1>2, <1>3 DEF FollowsPlan
<1>6. /\ \A r \in done[m] : IsNoBlock(r) /\ r \in got[m] /\ (r.dry \/ r \in edits[m] \cup kept[m])
      /\ \A r \in edits[m] : r \in done[m] /\ ~r.dry /\ r.kind # "relay_extract"
      /\ \A r \in kept[m] : r \in got[m] /\ ~r.dry
      /\ done[m] # {} => \A r \in got[m] : ~IsRealBlock(r)
      /\ \A r \in edits[m] : 2 + Order(m[2], r.kind) <= Stage(m[2], e)
  BY DEF HookOK, EffectsAreDue
<1>7. e.do = "apply" => /\ e.rule \in got[m] /\ IsNoBlock(e.rule)
                        /\ \A r \in got[m] : ~IsRealBlock(r)
                        /\ 2 + Order(m[2], e.rule.kind) = Stage(m[2], e)
  BY <1>1, PlanEntries, StageType
<1>8. ASSUME NEW r \in edits'[m] PROVE 2 + Order(m[2], r.kind) <= Stage(m[2], step'[m])
  <2>1. 2 + Order(m[2], r.kind) <= Stage(m[2], e)
    BY <1>6, <1>7, <1>8, StageType DEF DoesEntry
  <2> QED
    BY <1>1, <2>1, StageType
<1>9. EffectsAreDue(m)'
  <2>1. \A r \in done'[m] : IsNoBlock(r) /\ r \in got[m] /\ (r.dry \/ r \in edits'[m] \cup kept[m])
    BY <1>6, <1>7 DEF DoesEntry
  <2>2. \A r \in edits'[m] : r \in done'[m] /\ ~r.dry /\ r.kind # "relay_extract"
    BY <1>6, <1>7 DEF DoesEntry
  <2>3. done'[m] # {} => \A r \in got[m] : ~IsRealBlock(r)
    BY <1>6, <1>7 DEF DoesEntry
  <2> QED
    BY <1>6, <1>8, <2>1, <2>2, <2>3 DEF EffectsAreDue
<1>10. done[m] \subseteq done'[m] /\ edits[m] \subseteq edits'[m]
  BY DEF DoesEntry
<1>11. Agenda(m)' \subseteq rest[m] \cup Gone /\ rest[m] \subseteq Agenda(m) \cap Ahead(m)
       /\ Ahead(m)' = Agenda(m)'
  BY <1>1, <1>2 DEF Agenda, Ahead
<1> QED
  BY <1>2, <1>4, <1>5, <1>9, <1>10, <1>11 DEF StaysWell, HookOK

LEMMA AppliedRule ==
  ASSUME HookTypeOK, NEW m \in Messages, NEW r, NEW b, Applied(m, r, b)
  PROVE  /\ done'[m] = done[m] \cup {r}
         /\ edits'[m] = IF b THEN edits[m] \cup {r} ELSE edits[m]
         /\ \A n \in Messages \ {m} : done'[n] = done[n] /\ edits'[n] = edits[n]
BY DEF Applied, HookTypeOK

LEMMA ActHook ==
  ASSUME HookTypeOK, NEW m \in Messages, HookOK(m), Act(m)
  PROVE  /\ StaysWell(m)
         /\ \A n \in Messages \ {m} : /\ step'[n] = step[n] /\ rest'[n] = rest[n]
                                      /\ done'[n] = done[n] /\ edits'[n] = edits[n]
<1>1. ~NotBegun(m) /\ step[m] \notin Gone /\ Busy(m) /\ step[m] # Asking
  BY HasBegun DEF Act
<1>2. /\ CallFor(m) = NoCall /\ call[m] = NoCall /\ Onward(m)
      /\ UNCHANGED <<call, got, matched, kept>>
  BY DEF Act, Waits
<1>3. ~(step[m].do = "apply" /\ step[m].rule.dry)
  BY <1>2 DEF CallFor, NoCall
<1>4. \/ NotApplied
      \/ /\ step[m].do = "apply" /\ step[m].rule.kind # "relay_extract"
         /\ Applied(m, step[m].rule, TRUE)
  BY DEF Act
<1>5. DoesEntry(m)
  BY <1>3, <1>4, AppliedRule DEF DoesEntry, NotApplied
<1>6. \A n \in Messages \ {m} : done'[n] = done[n] /\ edits'[n] = edits[n]
  BY <1>4, AppliedRule DEF NotApplied
<1>7. \A n \in Messages \ {m} : step'[n] = step[n] /\ rest'[n] = rest[n]
  BY <1>1, <1>2, Moves DEF HookOK
<1> QED
  BY <1>1, <1>2, <1>5, <1>6, <1>7, OnwardHook

LEMMA GoOnHook ==
  ASSUME HookTypeOK, NEW m \in Messages, HookOK(m), Waits(m), NEW res, GoOn(m, res),
         res = Lost \/ (res = reply[m] /\ reply[m] \notin {Unanswered, Lost})
  PROVE  /\ StaysWell(m)
         /\ step[m] # Asking => DoesEntry(m)
         /\ \A n \in Messages \ {m} :
              /\ step'[n] = step[n] /\ rest'[n] = rest[n] /\ call'[n] = call[n]
              /\ reply'[n] = reply[n] /\ done'[n] = done[n] /\ edits'[n] = edits[n]
              /\ got'[n] = got[n]
<1> DEFINE rules == IF res.ok = "rules" THEN res.rules ELSE {}
           e == step[m]
<1>1. /\ call'[m] = NoCall /\ UNCHANGED <<matched, kept>>
      /\ \A n \in Messages \ {m} : call'[n] = call[n] /\ reply'[n] = reply[n]
  BY DEF GoOn, HookTypeOK
<1>2. CASE e = Asking
  <2>1. GoesTo(m, Plan(rules)) /\ got' = [got EXCEPT ![m] = rules] /\ NotApplied
    BY <1>2 DEF GoOn, Counts, Asking
  <2>2. /\ step'[m] \in Plan(rules) /\ rest'[m] = Plan(rules) \ {step'[m]}
        /\ \A f \in rest'[m] : Stage(m[2], step'[m]) <= Stage(m[2], f)
        /\ \A n \in Messages \ {m} : step'[n] = step[n] /\ rest'[n] = rest[n]
    BY <2>1, GoesToFirst
  <2>3. got'[m] = rules /\ \A n \in Messages \ {m} : got'[n] = got[n]
    BY <2>1 DEF HookTypeOK
  <2>4. done'[m] = {} /\ edits'[m] = {} /\ kept[m] = {} /\ call[m] = [op |-> "get_rules"]
    BY <1>2, <2>1 DEF NotApplied, HookOK, Beginning, NotBegun, Asking, Idle
  <2>5. step'[m] \notin Gone \cup {Idle, Asking} /\ ~Waits(m)'
    BY <1>1, <2>2, NotInPlan DEF Waits
  <2>6. Beginning(m)' /\ FollowsPlan(m)'
    BY <2>2, <2>3, <2>5 DEF Beginning, FollowsPlan, NotBegun
  <2>7. EffectsAreDue(m)'
    BY <1>1, <2>4 DEF EffectsAreDue
  <2>8. rules = {} \/ GoodAnswer(rules, matched[m])
    BY <2>4 DEF HookOK, AnswersAreGood, Lost
  <2>9. AnswersAreGood(m)'
    BY <1>1, <2>3, <2>5, <2>8 DEF HookOK, AnswersAreGood
  <2>10. NotBegun(m)
    BY <1>2 DEF NotBegun
  <2> QED
    BY <1>1, <1>2, <2>1, <2>2, <2>3, <2>6, <2>7, <2>9, <2>10 DEF StaysWell, HookOK, NotApplied
<1>3. CASE e # Asking
  <2>1. ~NotBegun(m) /\ e \notin Gone /\ Busy(m)
    BY <1>3, HasBegun
  <2>2. Onward(m) /\ UNCHANGED got
    BY <1>3 DEF GoOn
  <2>3. call[m] = CallFor(m) /\ call[m] # NoCall
    BY <2>1 DEF HookOK, FollowsPlan, Waits
  <2>4. ASSUME ~Counts(e, res) PROVE DoesEntry(m)
    BY <2>4 DEF GoOn, NotApplied, DoesEntry
  <2>5. ASSUME Counts(e, res) PROVE DoesEntry(m)
    <3>1. Applied(m, e.rule, e.rule.kind = "relay_inject" /\ ~e.rule.dry)
      BY <2>5 DEF GoOn
    <3>2. e.do = "apply"
      BY <2>5 DEF Counts
    <3>3. CASE e.rule.dry
      BY <3>1, <3>2, <3>3, AppliedRule DEF DoesEntry
    <3>4. CASE ~e.rule.dry /\ e.rule.kind = "relay_inject"
      BY <3>1, <3>2, <3>4, AppliedRule DEF DoesEntry
    <3>5. CASE ~e.rule.dry /\ e.rule.kind # "relay_inject"
      <4>1. e.rule.kind = "relay_extract" /\ res.ok = "yes"
        BY <2>5, <3>5 DEF Counts
      <4>2. call[m].op = "store_relay_value" /\ call[m].rule = e.rule
        BY <2>3, <3>2, <3>5, <4>1 DEF CallFor
      <4>3. res = reply[m] /\ reply[m] \notin {Unanswered, Lost}
        BY <4>1 DEF Lost
      <4>4. e.rule \in kept[m]
        BY <4>1, <4>2, <4>3 DEF HookOK, AnswersAreGood
      <4> QED
        BY <3>1, <3>2, <3>5, <4>4, AppliedRule DEF DoesEntry
    <3> QED
      BY <3>3, <3>4, <3>5
  <2>6. \A n \in Messages \ {m} : done'[n] = done[n] /\ edits'[n] = edits[n]
    BY AppliedRule DEF GoOn, NotApplied
  <2>7. \A n \in Messages \ {m} : step'[n] = step[n] /\ rest'[n] = rest[n]
    BY <1>3, <2>1, <2>2, Moves DEF HookOK
  <2>8. DoesEntry(m)
    BY <2>4, <2>5
  <2>9. StaysWell(m)
    BY <1>1, <1>3, <2>1, <2>2, <2>8, OnwardHook
  <2> QED
    BY <1>1, <2>2, <2>6, <2>7, <2>8, <2>9
<1> QED
  BY <1>2, <1>3

\* What is remembered of a call that is carried out.
LEMMA PerformHistory ==
  ASSUME HookTypeOK, NEW m \in Messages, NEW c, Perform(m, c)
  PROVE  /\ \A n \in Messages \ {m} : matched'[n] = matched[n] /\ kept'[n] = kept[n]
         /\ matched'[m] = IF c.op = "get_rules" THEN Matching(m) ELSE matched[m]
         /\ \/ kept'[m] = kept[m]
            \/ c.op = "store_relay_value" /\ kept'[m] = kept[m] \cup {c.rule}
         /\ c.op = "store_relay_value" /\ Accepts(c.rule.name, c.val, c.rule.ttl)
              => kept'[m] = kept[m] \cup {c.rule}
<1> USE DEF HookTypeOK
<1>1. CASE c.op = "get_rules" /\ GetRules(m)
  BY <1>1 DEF GetRules
<1>2. CASE c.op = "report_hit" /\ ReportHit(c.rules)
  BY <1>2 DEF ReportHit
<1>3. CASE c.op = "store_relay_value" /\ StoreRelay(m, c)
  BY <1>3 DEF StoreRelay
<1>4. CASE c.op = "get_relay_value" /\ GetRelay(c)
  BY <1>4 DEF GetRelay
<1>5. CASE c.op = "report_dry_run" /\ RecordDryRun(m, c.rule)
  BY <1>5 DEF RecordDryRun
<1> QED
  BY <1>1, <1>2, <1>3, <1>4, <1>5 DEF Perform

LEMMA HandleHook ==
  ASSUME HookTypeOK, NEW m \in Messages, HookOK(m), Handle(m)
  PROVE  StaysWell(m)
<1> DEFINE c == call[m]
<1>1. /\ Waits(m) /\ reply[m] = Unanswered /\ reply'[m] = ReplyTo(m, c)
      /\ Perform(m, c) /\ UNCHANGED <<step, rest, call, done, edits, got>>
  BY DEF Handle, HookTypeOK
<1>2. ReplyTo(m, c) \in Reply /\ ReplyTo(m, c) # Unanswered
  <2>1. c \in Call
    BY <1>1 DEF Waits, HookTypeOK
  <2> QED
    BY <2>1, ReplyToType DEF Reply, Unanswered
<1>3. Ahead(m)' \subseteq Ahead(m) /\ Agenda(m)' = Agenda(m)
      /\ (NotBegun(m)' <=> NotBegun(m))
  BY <1>1, <1>2 DEF Ahead, Agenda, Waits, NotBegun
<1>4. CASE step[m] = Asking
  <2>1. /\ c = [op |-> "get_rules"] /\ rest[m] = {} /\ got[m] = {} /\ done[m] = {}
        /\ edits[m] = {} /\ kept[m] = {} /\ Asking # Idle /\ NotBegun(m)
    BY <1>4 DEF HookOK, Beginning, NotBegun, Asking, Idle
  <2>2. matched'[m] = Matching(m) /\ kept'[m] = kept[m]
    BY <1>1, <2>1, PerformHistory
  <2>3. reply'[m].ok = "rules" /\ GoodAnswer(reply'[m].rules, matched'[m])
        /\ \A r \in matched'[m] : r.side = m[2]
    BY <1>1, <2>1, <2>2, MatchingType DEF ReplyTo
  <2>4. AnswersAreGood(m)'
    BY <1>1, <2>1, <2>3 DEF AnswersAreGood
  <2>5. Beginning(m)' /\ FollowsPlan(m)' /\ EffectsAreDue(m)'
    BY <1>1, <1>4, <2>1, <2>2 DEF Beginning, FollowsPlan, EffectsAreDue, NotBegun
  <2> QED
    BY <1>3, <2>1, <2>4, <2>5 DEF StaysWell, HookOK
<1>5. CASE step[m] # Asking
  <2>1. ~NotBegun(m) /\ step[m] \notin Gone
    BY <1>1, <1>5, HasBegun
  <2>2. c = CallFor(m) /\ c # NoCall
    BY <1>1, <2>1 DEF HookOK, FollowsPlan, Waits
  <2>3. c.op # "get_rules" /\ (c.op = "store_relay_value" => c.rule \in got[m] /\ ~c.rule.dry)
    BY <2>1, <2>2, CallsOf DEF DryRun, Hits
  <2>4. matched'[m] = matched[m] /\ kept[m] \subseteq kept'[m]
        /\ (kept'[m] = kept[m] \/ (c.op = "store_relay_value" /\ kept'[m] = kept[m] \cup {c.rule}))
    BY <1>1, <2>3, PerformHistory
  <2>5. c.op = "store_relay_value" /\ reply'[m].ok = "yes" => c.rule \in kept'[m]
    BY <1>1, PerformHistory DEF ReplyTo
  <2>6. AnswersAreGood(m)'
    BY <1>1, <2>3, <2>4, <2>5 DEF HookOK, AnswersAreGood
  <2>7. Beginning(m)'
    BY <1>3, <2>1 DEF Beginning
  <2>8. FollowsPlan(m)'
    BY <1>1, <2>1, SameCall DEF HookOK, FollowsPlan, NotBegun, Waits
  <2>9. EffectsAreDue(m)'
    BY <1>1, <2>3, <2>4 DEF HookOK, EffectsAreDue
  <2> QED
    BY <1>1, <1>3, <2>1, <2>4, <2>6, <2>7, <2>8, <2>9 DEF StaysWell, HookOK
<1> QED
  BY <1>4, <1>5

\* A late call is about a message whose hook has begun; it can only store its token.
LEMMA LateHook ==
  ASSUME HookTypeOK, NEW m \in Messages, HookOK(m), NEW c, LateOK(m, c), Perform(m, c),
         UNCHANGED hookVars
  PROVE  StaysWell(m)
<1>1. UNCHANGED <<step, rest, call, reply, done, edits, got>> /\ ~NotBegun(m)
  BY DEF hookVars, LateOK
<1>2. c.op # "get_rules" /\ (c.op = "store_relay_value" => c.rule \in got[m] /\ ~c.rule.dry)
  BY DEF LateOK, DryRun, Hits
<1>3. matched'[m] = matched[m] /\ kept[m] \subseteq kept'[m]
      /\ (kept'[m] = kept[m] \/ (c.op = "store_relay_value" /\ kept'[m] = kept[m] \cup {c.rule}))
  BY <1>2, PerformHistory
<1>4. Ahead(m)' = Ahead(m) /\ Agenda(m)' = Agenda(m) /\ ~NotBegun(m)'
  BY <1>1 DEF Ahead, Agenda, Waits, NotBegun
<1>5. AnswersAreGood(m)'
  BY <1>1, <1>3 DEF HookOK, AnswersAreGood, Waits
<1>6. FollowsPlan(m)' /\ Beginning(m)'
  BY <1>1, <1>4, SameCall DEF HookOK, FollowsPlan, Beginning, Waits
<1>7. EffectsAreDue(m)'
  BY <1>1, <1>2, <1>3 DEF HookOK, EffectsAreDue
<1> QED
  BY <1>1, <1>3, <1>4, <1>5, <1>6, <1>7 DEF StaysWell, HookOK

HooksOK == \A m \in Messages : HookOK(m)
LateCallsOK == \A x \in late : LateOK(x[1], x[2])

\* Whatever happens, every hook stays well.
LEMMA HooksStayWell ==
  ASSUME HookTypeOK, HooksOK, LateCallsOK, [HookNext]_hookTrafficVars
  PROVE  \A m \in Messages : StaysWell(m)
<1> USE DEF HooksOK
<1> DEFINE Still(n) ==
             /\ step'[n] = step[n] /\ rest'[n] = rest[n] /\ call'[n] = call[n]
             /\ reply'[n] = reply[n] \/ reply'[n] = Lost
             /\ done'[n] = done[n] /\ edits'[n] = edits[n] /\ got'[n] = got[n]
             /\ matched'[n] = matched[n] /\ kept'[n] = kept[n]
<1>1. ASSUME NEW n \in Messages, Still(n) PROVE StaysWell(n)
  BY <1>1, HookFrame
<1>2. ASSUME UNCHANGED <<hookVars, matched, kept>> PROVE \A n \in Messages : StaysWell(n)
  BY <1>1, <1>2 DEF hookVars
<1>3. ASSUME NEW m \in Messages, Arrive(m) \/ Ask(m), NEW n \in Messages
      PROVE  StaysWell(n)
  <2>1. CASE n = m
    BY <1>3, <2>1, ArriveHook, AskHook
  <2>2. CASE n # m
    BY <1>1, <1>3, <2>2 DEF Arrive, Ask, Calls, HookTypeOK
  <2> QED
    BY <2>1, <2>2
<1>4. ASSUME NEW m \in Messages, Act(m), NEW n \in Messages PROVE StaysWell(n)
  <2>1. CASE n # m
    BY <1>1, <1>4, <2>1, ActHook DEF Act
  <2> QED
    BY <1>4, <2>1, ActHook
<1>5. ASSUME NEW m \in Messages, Receive(m) \/ GiveUp(m), NEW n \in Messages
      PROVE  StaysWell(n)
  <2>1. PICK res : /\ GoOn(m, res) /\ Waits(m)
                   /\ res = Lost \/ (res = reply[m] /\ reply[m] \notin {Unanswered, Lost})
    BY <1>5 DEF Receive, GiveUp
  <2>2. CASE n # m
    BY <1>1, <2>1, <2>2, GoOnHook DEF GoOn
  <2> QED
    BY <2>1, <2>2, GoOnHook
<1>6. ASSUME NEW m \in Messages, Handle(m), NEW n \in Messages PROVE StaysWell(n)
  <2>1. CASE n # m
    <3>1. matched'[n] = matched[n] /\ kept'[n] = kept[n]
      BY <1>6, <2>1, PerformHistory DEF Handle
    <3> QED
      BY <1>1, <1>6, <2>1, <3>1 DEF Handle, HookTypeOK
  <2> QED
    BY <1>6, <2>1, HandleHook
<1>7. ASSUME NEW x \in late, HandleLate(x[1], x[2]), NEW n \in Messages PROVE StaysWell(n)
  <2>1. /\ x[1] \in Messages /\ LateOK(x[1], x[2]) /\ Perform(x[1], x[2])
        /\ UNCHANGED hookVars
    BY <1>7 DEF HandleLate, LateCallsOK, HookTypeOK
  <2>2. CASE n # x[1]
    <3>1. matched'[n] = matched[n] /\ kept'[n] = kept[n]
      BY <2>1, <2>2, PerformHistory
    <3> QED
      BY <1>1, <2>1, <3>1 DEF hookVars
  <2> QED
    BY <2>1, <2>2, LateHook
<1>8. ASSUME NEW r \in Rules, Install(r) \/ Withdraw(r) \/ ClearLog(r)
      PROVE  \A n \in Messages : StaysWell(n)
  BY <1>2, <1>8 DEF Install, Withdraw, ClearLog
<1>9. ASSUME Crash, NEW n \in Messages PROVE StaysWell(n)
  BY <1>1, <1>9 DEF Crash
<1>10. ASSUME Restart \/ Background \/ UNCHANGED hookTrafficVars
       PROVE  \A n \in Messages : StaysWell(n)
  BY <1>2, <1>10 DEF Restart, Background, trafficVars, hookTrafficVars
<1> QED
  BY <1>3, <1>4, <1>5, <1>6, <1>7, <1>8, <1>9, <1>10 DEF HookNext, HookStep

\* A late call that was well stays well.
LEMMA LateStaysOK ==
  ASSUME NEW m, NEW c, LateOK(m, c), StaysWell(m)
  PROVE  LateOK(m, c)'
<1>1. /\ ~NotBegun(m) /\ ~NotBegun(m)' /\ got'[m] = got[m]
      /\ Agenda(m)' \subseteq Agenda(m) \cup Gone
      /\ step[m] \in Gone => step'[m] = step[m] /\ done'[m] = done[m]
  BY DEF LateOK, StaysWell
<1>2. \A e \in Gone : e.do \notin {"credit", "abort"} /\ \A r : ~IsAbout(e, r)
  BY DEF Left, Blocked, IsAbout
<1> QED
  BY <1>1, <1>2 DEF LateOK

\* A hook that gives up leaves a call behind only if it was open; its entry was
\* the only one to make it, and is over.
LEMMA NewLateOK ==
  ASSUME HookTypeOK, NEW m \in Messages, HookOK(m), GiveUp(m), reply[m] = Unanswered,
         NEW c, c = call[m], c.op \notin {"get_rules", "get_relay_value"}
  PROVE  /\ LateOK(m, c)'
         /\ ~NotBegun(m) /\ step[m] \in Ahead(m)
         /\ \/ \E r \in got[m] : c = DryRun(r) /\ IsAbout(step[m], r)
            \/ c.op = "store_relay_value"
            \/ c.op = "report_hit" /\ \A r \in c.rules : Credits(step[m], r)
<1>1. Waits(m) /\ GoOn(m, Lost)
  BY DEF GiveUp
<1>2. step[m] # Asking
  BY DEF HookOK, Beginning, NotBegun, Asking, Idle
<1>3. ~NotBegun(m) /\ step[m] \notin Gone /\ Busy(m)
  BY <1>1, <1>2, HasBegun
<1>4. c = CallFor(m) /\ c # NoCall
  BY <1>1, <1>3 DEF HookOK, FollowsPlan, Waits
<1>5. step[m] \in Ahead(m)
  BY DEF Ahead, Agenda
<1>6. Onward(m) /\ got' = got
  BY <1>2 DEF GiveUp, GoOn
<1>7. /\ step'[m] \in rest[m] \cup Gone /\ rest'[m] \subseteq rest[m]
      /\ step'[m] = Left <=> step[m].do = "leave"
      /\ step'[m] \notin {Idle, Asking}
  BY <1>2, <1>3, <1>6, Moves DEF HookOK
<1>8. step[m] \in Plan(got[m]) /\ rest[m] \subseteq Plan(got[m]) \ {step[m]}
  BY <1>3 DEF HookOK, FollowsPlan
<1>9. ASSUME NEW e \in Agenda(m)'
      PROVE  /\ \A r : IsAbout(step[m], r) => ~IsAbout(e, r)
             /\ step[m].do \in {"credit", "abort"} => e.do \notin {"credit", "abort"}
  <2>1. e \in Gone \/ e \in rest[m]
    BY <1>7 DEF Agenda
  <2>2. CASE e \in Gone
    BY <2>2 DEF Left, Blocked, IsAbout
  <2>3. CASE e \in rest[m]
    BY <1>8, <2>3, PlanOnce
  <2> QED
    BY <2>1, <2>2, <2>3
<1>10. ~NotBegun(m)' /\ got'[m] = got[m]
  BY <1>6, <1>7 DEF NotBegun
<1>11. CASE /\ IsAbout(step[m], step[m].rule) /\ step[m].rule \in got[m]
            /\ CallFor(m) = DryRun(step[m].rule)
  BY <1>3, <1>4, <1>5, <1>9, <1>10, <1>11 DEF LateOK
<1>12. CASE /\ step[m].rule \in got[m] /\ ~step[m].rule.dry
            /\ CallFor(m) = [op |-> "store_relay_value", rule |-> step[m].rule, val |-> m[1]]
  <2>1. m[1] \in Exchanges
    BY HookAssumption DEF Messages
  <2> QED
    BY <1>3, <1>4, <1>5, <1>10, <1>12, <2>1 DEF LateOK
<1>13. CASE /\ step[m].do \in {"credit", "abort"} /\ step[m].rules = Blocks(got[m])
            /\ CallFor(m) = Hits(Blocks(got[m]))
  BY <1>3, <1>4, <1>5, <1>9, <1>10, <1>13 DEF LateOK, Hits, Credits
<1>14. CASE step[m] = Leave /\ CallFor(m) = Hits(done[m])
  <2>1. step'[m] = Left
    BY <1>7, <1>14 DEF Leave
  <2>2. done'[m] = done[m]
    BY <1>14 DEF GiveUp, GoOn, Counts, NotApplied, Leave
  <2>3. \A r \in done[m] : Credits(step[m], r)
    BY <1>14 DEF HookOK, EffectsAreDue, Credits, Leave
  <2> QED
    BY <1>3, <1>4, <1>5, <1>10, <1>14, <2>1, <2>2, <2>3 DEF LateOK, Hits
<1>15. CallFor(m).op # "get_relay_value" /\ CallFor(m) # NoCall
  BY <1>4
<1> QED
  BY <1>3, <1>11, <1>12, <1>13, <1>14, <1>15, CallsOf

\* Where late calls come from.
LEMMA LateComesFrom ==
  ASSUME [HookNext]_hookTrafficVars, NEW x \in late' \ late
  PROVE  \E m \in Messages : /\ GiveUp(m) /\ x = <<m, call[m]>> /\ reply[m] = Unanswered
                             /\ call[m].op \notin {"get_rules", "get_relay_value"}
<1>1. CASE \E m \in Messages : GiveUp(m)
  BY <1>1 DEF GiveUp
<1>2. CASE \E m \in Messages : Arrive(m) \/ Ask(m) \/ Act(m) \/ Receive(m) \/ Handle(m)
  BY <1>2 DEF Arrive, Ask, Act, Receive, Handle
<1>3. CASE \E c \in late : HandleLate(c[1], c[2])
  BY <1>3 DEF HandleLate
<1>4. CASE \E r \in Rules : Install(r) \/ Withdraw(r) \/ ClearLog(r)
  BY <1>4 DEF Install, Withdraw, ClearLog
<1>5. CASE Crash \/ Restart \/ Background \/ UNCHANGED hookTrafficVars
  BY <1>5 DEF Crash, Restart, Background, trafficVars, hookTrafficVars
<1> QED
  BY <1>1, <1>2, <1>3, <1>4, <1>5 DEF HookNext, HookStep

LEMMA LateCallsStayOK ==
  ASSUME HookTypeOK, HooksOK, LateCallsOK, [HookNext]_hookTrafficVars
  PROVE  LateCallsOK'
<1>1. SUFFICES ASSUME NEW x \in late' PROVE LateOK(x[1], x[2])'
  BY DEF LateCallsOK
<1>2. CASE x \in late
  <2>1. x[1] \in Messages /\ LateOK(x[1], x[2])
    BY <1>2 DEF LateCallsOK, HookTypeOK
  <2> QED
    BY <2>1, HooksStayWell, LateStaysOK
<1>3. CASE x \notin late
  <2>1. PICK m \in Messages : /\ GiveUp(m) /\ x = <<m, call[m]>> /\ reply[m] = Unanswered
                              /\ call[m].op \notin {"get_rules", "get_relay_value"}
    BY <1>3, LateComesFrom
  <2>2. \A c : c = call[m] => LateOK(m, c)'
    BY <2>1, NewLateOK DEF HooksOK
  <2> QED
    BY <2>1, <2>2
<1> QED
  BY <1>2, <1>3

-------------------------------------------------------------------------------
(* What the daemon is told.                                                 *)

\* A report that is no longer due does not become due again, and a hit that was
\* earned stays so.
LEMMA NeverDueAgain ==
  ASSUME HookTypeOK, HooksOK, LateCallsOK, [HookNext]_hookTrafficVars,
         NEW m \in Messages, NEW r
  PROVE  /\ DryDue(r, m)' => DryDue(r, m)
         /\ HitDue(r, m)' => HitDue(r, m)
         /\ ~NotBegun(m) => matched'[m] = matched[m] /\ (Earned(r, m) => Earned(r, m)')
<1>1. StaysWell(m)
  BY HooksStayWell
<1>2. ASSUME NEW e \in Ahead(m)', ~NotBegun(m), IsAbout(e, r) \/ Credits(e, r)
      PROVE  e \in Ahead(m)
  BY <1>1, <1>2 DEF StaysWell, IsAbout, Credits, Left, Blocked
<1>3. ASSUME NEW x \in late' \ late, x[1] = m
      PROVE  /\ step[m] \in Ahead(m)
             /\ \/ \E q : x[2] = DryRun(q) /\ IsAbout(step[m], q)
                \/ x[2].op = "store_relay_value"
                \/ x[2].op = "report_hit" /\ \A q \in x[2].rules : Credits(step[m], q)
  <2>1. PICK n \in Messages : /\ GiveUp(n) /\ x = <<n, call[n]>> /\ reply[n] = Unanswered
                              /\ call[n].op \notin {"get_rules", "get_relay_value"}
    BY <1>3, LateComesFrom
  <2>2. n = m /\ x[2] = call[m]
    BY <1>3, <2>1
  <2> QED
    BY <2>1, <2>2, NewLateOK DEF HooksOK
<1>4. DryDue(r, m)' => DryDue(r, m)
  <2>1. CASE NotBegun(m)'
    BY <1>1, <2>1 DEF StaysWell, DryDue
  <2>2. CASE \E e \in Ahead(m)' : IsAbout(e, r)
    BY <1>2, <2>2 DEF DryDue
  <2>3. CASE <<m, DryRun(r)>> \in late'
    <3>1. SUFFICES ASSUME <<m, DryRun(r)>> \notin late PROVE DryDue(r, m)
      BY DEF DryDue
    <3>2. /\ step[m] \in Ahead(m)
          /\ \/ \E q : DryRun(r) = DryRun(q) /\ IsAbout(step[m], q)
             \/ DryRun(r).op = "store_relay_value"
             \/ DryRun(r).op = "report_hit"
      BY <1>3, <2>3, <3>1
    <3>3. IsAbout(step[m], r)
      BY <3>2 DEF DryRun
    <3> QED
      BY <3>2, <3>3 DEF DryDue
  <2> QED
    BY <2>1, <2>2, <2>3 DEF DryDue
<1>5. HitDue(r, m)' => HitDue(r, m)
  <2>1. CASE NotBegun(m)'
    BY <1>1, <2>1 DEF StaysWell, HitDue
  <2>2. CASE \E e \in Ahead(m)' : Credits(e, r)
    BY <1>2, <2>2 DEF HitDue
  <2>3. ASSUME NEW x \in late', x[1] = m, x[2].op = "report_hit", r \in x[2].rules
        PROVE  HitDue(r, m)
    <3>1. CASE x \in late
      BY <2>3, <3>1 DEF HitDue
    <3>2. CASE x \notin late
      <4>1. \A q : DryRun(q).op # "report_hit"
        BY DEF DryRun
      <4>2. step[m] \in Ahead(m) /\ Credits(step[m], r)
        BY <1>3, <2>3, <3>2, <4>1
      <4> QED
        BY <4>2 DEF HitDue
    <3> QED
      BY <3>1, <3>2
  <2> QED
    BY <2>1, <2>2, <2>3 DEF HitDue
<1> QED
  BY <1>1, <1>4, <1>5 DEF StaysWell, Earned

\* A call that is carried out now: the hook waits for it, or has given up.
CarriedOut(m, c) ==
  \/ Handle(m) /\ c = call[m]
  \/ <<m, c>> \in late /\ HandleLate(m, c)

\* The entry at which the hook waits is the only one of its plan to make its call,
\* and it makes it once.
LEMMA CallOfStep ==
  ASSUME HookTypeOK, NEW m \in Messages, HookOK(m), Handle(m),
         NEW c, c = call[m], c.op \in {"report_hit", "report_dry_run"}
  PROVE  /\ ~NotBegun(m) /\ step[m] \in Ahead(m) /\ Ahead(m)' = rest[m] /\ late' = late
         /\ step[m] \in Plan(got[m]) /\ rest[m] \subseteq Plan(got[m]) \ {step[m]}
         /\ \/ /\ IsAbout(step[m], step[m].rule) /\ step[m].rule \in got[m]
               /\ c = DryRun(step[m].rule)
            \/ /\ step[m].do \in {"credit", "abort"} /\ step[m].rules = Blocks(got[m])
               /\ c = Hits(Blocks(got[m]))
            \/ step[m] = Leave /\ c = Hits(done[m])
<1>1. /\ Waits(m) /\ reply[m] = Unanswered /\ reply'[m] = ReplyTo(m, c)
      /\ UNCHANGED <<step, rest, call, late>>
  BY DEF Handle, HookTypeOK
<1>2. ReplyTo(m, c) # Unanswered
  BY DEF ReplyTo, Unanswered
<1>3. step[m] # Asking
  BY DEF HookOK, Beginning, NotBegun, Asking, Idle
<1>4. ~NotBegun(m) /\ step[m] \notin Gone
  BY <1>1, <1>3, HasBegun
<1>5. c = CallFor(m) /\ c # NoCall
  BY <1>1, <1>4 DEF HookOK, FollowsPlan, Waits
<1>6. step[m] \in Ahead(m) /\ Ahead(m)' = rest[m]
  BY <1>1, <1>2 DEF Ahead, Agenda, Waits
<1>7. rest[m] \subseteq Plan(got[m]) \ {step[m]}
  BY <1>4 DEF HookOK, FollowsPlan
<1> QED
  BY <1>1, <1>4, <1>5, <1>6, <1>7, CallsOf

\* A dry run is reported once, and of a rule that matched.
LEMMA DryRunTold ==
  ASSUME HookTypeOK, HooksOK, LateCallsOK, [HookNext]_hookTrafficVars,
         NEW m \in Messages, NEW c, CarriedOut(m, c), c.op = "report_dry_run"
  PROVE  DryDue(c.rule, m) /\ ~DryDue(c.rule, m)' /\ c.rule \in matched'[m]
<1> DEFINE r == c.rule
<1>1. StaysWell(m) /\ HookOK(m)
  BY HooksStayWell DEF HooksOK
<1>2. got[m] \subseteq matched[m]
  BY <1>1 DEF HookOK, AnswersAreGood, GoodAnswer
<1>3. ASSUME NEW q, <<m, DryRun(q)>> \in late
      PROVE  q \in got[m] /\ \A e \in Agenda(m) : ~IsAbout(e, q)
  <2>1. LateOK(m, DryRun(q))
    BY <1>3 DEF LateCallsOK
  <2>2. DryRun(q).op = "report_dry_run" /\ DryRun(q).rule = q
    BY DEF DryRun
  <2>3. PICK p \in got[m] : DryRun(q) = DryRun(p) /\ \A e \in Agenda(m) : ~IsAbout(e, p)
    BY <2>1, <2>2 DEF LateOK, Hits
  <2>4. p = q
    BY <2>2, <2>3 DEF DryRun
  <2> QED
    BY <2>3, <2>4
<1>4. CASE Handle(m) /\ c = call[m]
  <2>1. /\ ~NotBegun(m) /\ step[m] \in Ahead(m) /\ Ahead(m)' = rest[m] /\ late' = late
        /\ step[m] \in Plan(got[m]) /\ rest[m] \subseteq Plan(got[m]) \ {step[m]}
        /\ IsAbout(step[m], r) /\ r \in got[m]
    BY <1>1, <1>4, CallOfStep DEF DryRun, Hits
  <2>2. \A e \in rest[m] : ~IsAbout(e, r)
    BY <2>1, PlanOnce
  <2>3. <<m, DryRun(r)>> \notin late
    BY <1>3, <2>1 DEF Agenda
  <2>4. ~DryDue(r, m)'
    BY <1>1, <2>1, <2>2, <2>3 DEF DryDue, StaysWell
  <2> QED
    BY <1>1, <1>2, <2>1, <2>4 DEF DryDue, StaysWell
<1>5. CASE <<m, c>> \in late /\ HandleLate(m, c)
  <2>1. LateOK(m, c) /\ late' = late \ {<<m, c>>} /\ UNCHANGED <<step, rest, call, reply>>
    BY <1>5 DEF LateCallsOK, HandleLate, hookVars
  <2>2. c = DryRun(r) /\ ~NotBegun(m)
    BY <2>1 DEF LateOK, DryRun, Hits
  <2>3. r \in got[m] /\ \A e \in Agenda(m) : ~IsAbout(e, r)
    BY <1>3, <1>5, <2>2
  <2>4. Ahead(m)' \subseteq Agenda(m)
    BY <2>1 DEF Ahead, Agenda, Waits
  <2>5. ~DryDue(r, m)'
    BY <1>1, <2>1, <2>2, <2>3, <2>4 DEF DryDue, StaysWell
  <2> QED
    BY <1>1, <1>2, <1>5, <2>2, <2>3, <2>5 DEF DryDue, StaysWell
<1> QED
  BY <1>4, <1>5 DEF CarriedOut

\* A hit is reported once, and was earned.
LEMMA HitTold ==
  ASSUME HookTypeOK, HooksOK, LateCallsOK, [HookNext]_hookTrafficVars,
         NEW m \in Messages, NEW c, CarriedOut(m, c), c.op = "report_hit", NEW r \in c.rules
  PROVE  HitDue(r, m) /\ ~HitDue(r, m)' /\ Earned(r, m)'
<1>1. StaysWell(m) /\ HookOK(m)
  BY HooksStayWell DEF HooksOK
<1>2. /\ \A q \in done[m] : IsNoBlock(q) /\ Earned(q, m)
      /\ \A q \in Blocks(got[m]) : IsBlock(q) /\ Earned(q, m)
  BY <1>1 DEF HookOK, EffectsAreDue, Earned, Blocks
<1>3. ASSUME NEW x \in late, x[1] = m, x[2].op = "report_hit"
      PROVE  \/ /\ x[2] = Hits(Blocks(got[m]))
                /\ \A e \in Agenda(m) : e.do \notin {"credit", "abort"}
             \/ x[2] = Hits(done[m]) /\ step[m] = Left
  <2>1. LateOK(m, x[2])
    BY <1>3 DEF LateCallsOK
  <2>2. \A q : DryRun(q).op # "report_hit"
    BY DEF DryRun
  <2> QED
    BY <1>3, <2>1, <2>2 DEF LateOK
<1>4. Earned(r, m) /\ ~NotBegun(m) => Earned(r, m)'
  BY NeverDueAgain
<1>5. CASE Handle(m) /\ c = call[m]
  <2>1. /\ ~NotBegun(m) /\ step[m] \in Ahead(m) /\ Ahead(m)' = rest[m] /\ late' = late
        /\ step[m] \in Plan(got[m]) /\ rest[m] \subseteq Plan(got[m]) \ {step[m]}
        /\ \/ /\ step[m].do \in {"credit", "abort"} /\ step[m].rules = Blocks(got[m])
              /\ c = Hits(Blocks(got[m]))
           \/ step[m] = Leave /\ c = Hits(done[m])
    BY <1>1, <1>5, CallOfStep DEF DryRun
  <2>2. Credits(step[m], r) /\ Earned(r, m)
    BY <1>2, <2>1 DEF Credits, Hits, Leave
  <2>3. \A e \in rest[m] : ~Credits(e, r)
    BY <2>1, <2>2, PlanOnce
  <2>4. ASSUME NEW x \in late, x[1] = m, x[2].op = "report_hit", r \in x[2].rules
        PROVE  FALSE
    <3>1. step[m] # Left
      BY <2>1, NotInPlan
    <3>2. /\ x[2] = Hits(Blocks(got[m]))
          /\ \A e \in Agenda(m) : e.do \notin {"credit", "abort"}
      BY <1>3, <2>4, <3>1
    <3>3. step[m] = Leave /\ c = Hits(done[m])
      BY <2>1, <3>2 DEF Agenda
    <3> QED
      BY <1>2, <2>4, <3>2, <3>3 DEF Hits, IsNoBlock
  <2>5. ~HitDue(r, m)'
    BY <1>1, <2>1, <2>3, <2>4 DEF HitDue, StaysWell
  <2> QED
    BY <1>4, <2>1, <2>2, <2>5 DEF HitDue
<1>6. CASE <<m, c>> \in late /\ HandleLate(m, c)
  <2>1. /\ ~NotBegun(m) /\ late' = late \ {<<m, c>>} /\ late \subseteq Messages \X Call
        /\ UNCHANGED <<step, rest, call, reply>>
    BY <1>6 DEF LateCallsOK, LateOK, HandleLate, hookVars, HookTypeOK
  <2>2. \/ /\ c = Hits(Blocks(got[m]))
           /\ \A e \in Agenda(m) : e.do \notin {"credit", "abort"}
        \/ c = Hits(done[m]) /\ step[m] = Left
    BY <1>3, <1>6
  <2>3. Earned(r, m)
    BY <1>2, <2>2 DEF Hits
  <2>4. ASSUME NEW x \in late, x[1] = m, x[2].op = "report_hit", r \in x[2].rules
        PROVE  x = <<m, c>>
    <3>1. x[2] \in {Hits(Blocks(got[m])), Hits(done[m])}
      BY <1>3, <2>4
    <3>2. x[2] = c
      BY <1>2, <2>2, <2>4, <3>1 DEF Hits, IsNoBlock
    <3> QED
      BY <2>1, <2>4, <3>2
  <2>5. ASSUME NEW e \in Agenda(m), Credits(e, r) PROVE FALSE
    <3>1. CASE c = Hits(Blocks(got[m])) /\ e.do \notin {"credit", "abort"}
      BY <1>2, <2>5, <3>1 DEF Credits, Hits, IsNoBlock
    <3>2. CASE c = Hits(done[m]) /\ step[m] = Left
      <4>1. rest[m] = {}
        BY <1>1, <2>1, <3>2 DEF HookOK, FollowsPlan
      <4> QED
        BY <2>5, <3>2, <4>1 DEF Agenda, Credits, Left
    <3> QED
      BY <2>2, <3>1, <3>2
  <2>6. Ahead(m)' \subseteq Agenda(m)
    BY <2>1 DEF Ahead, Agenda, Waits
  <2>7. ~HitDue(r, m)'
    BY <1>1, <2>1, <2>4, <2>5, <2>6 DEF HitDue, StaysWell
  <2>8. HitDue(r, m)
    <3> DEFINE x == <<m, c>>
    <3>1. x \in late /\ x[1] = m /\ x[2].op = "report_hit" /\ r \in x[2].rules
      BY <1>6
    <3> HIDE DEF x
    <3> QED
      BY <3>1 DEF HitDue
  <2> QED
    BY <1>4, <2>1, <2>3, <2>7, <2>8
<1> QED
  BY <1>5, <1>6 DEF CarriedOut

-------------------------------------------------------------------------------
(* What the daemon keeps.                                                   *)

\* A step of the daemon carries out a call, or does no more than to forget.
LEMMA DaemonSteps ==
  ASSUME HookTypeOK, [HookNext]_hookTrafficVars
  PROVE  \/ \E m \in Messages, c \in Call : CarriedOut(m, c) /\ Perform(m, c)
         \/ /\ \A r \in Rules : dryLog'[r] \in {dryLog[r], <<>>}
            /\ {hits', savedHits'} \subseteq {hits, savedHits}
            /\ \A n \in Names : entries'[n] \in {entries[n], NoToken}
<1>1. ASSUME NEW m \in Messages, Handle(m)
      PROVE  \E c \in Call : CarriedOut(m, c) /\ Perform(m, c)
  BY <1>1 DEF Handle, CarriedOut, HookTypeOK, Waits
<1>2. ASSUME NEW x \in late, HandleLate(x[1], x[2])
      PROVE  \E m \in Messages, c \in Call : CarriedOut(m, c) /\ Perform(m, c)
  <2>1. x[1] \in Messages /\ x[2] \in Call /\ x = <<x[1], x[2]>>
    BY DEF HookTypeOK
  <2> QED
    BY <1>2, <2>1 DEF HandleLate, CarriedOut
<1> DEFINE Forgets == /\ \A r \in Rules : dryLog'[r] \in {dryLog[r], <<>>}
                      /\ {hits', savedHits'} \subseteq {hits, savedHits}
                      /\ \A n \in Names : entries'[n] \in {entries[n], NoToken}
<1>3. CASE \E m \in Messages : Arrive(m) \/ HookStep(m)
  BY <1>3 DEF Arrive, HookStep, Ask, Act, Receive, GiveUp, GoOn, relayVars, daemonVars, engineVars
<1>4. CASE \E r \in Rules : Install(r) \/ Withdraw(r) \/ ClearLog(r)
  BY <1>4 DEF Install, Withdraw, ClearLog, relayVars, engineVars, HookTypeOK
<1>5. CASE Crash
  BY <1>5 DEF Crash, Wipe
<1>6. CASE Restart \/ UNCHANGED hookTrafficVars
  BY <1>6 DEF Restart, relayVars, engineVars, hookTrafficVars, trafficVars, daemonVars
<1>7. CASE Background
  <2>1. UNCHANGED <<dryLog, hits, savedHits>>
    BY <1>7 DEF Background, trafficVars, daemonVars, engineVars
  <2>2. \A n \in Names : entries'[n] \in {entries[n], NoToken}
    BY <1>7 DEF Background, Advance, RelayReaper, BeginReap, Reap
  <2> QED
    BY <2>1, <2>2
<1> QED
  BY <1>1, <1>2, <1>3, <1>4, <1>5, <1>6, <1>7 DEF HookNext

LEMMA LogStaysDone ==
  ASSUME HookTypeOK, HooksOK, LateCallsOK, LogIsDone, [HookNext]_hookTrafficVars
  PROVE  LogIsDone'
<1>1. ASSUME NEW r \in Rules, NEW m \in ToSet(dryLog[r])
      PROVE  m \in Messages /\ r \in matched'[m] /\ ~DryDue(r, m)'
  <2>1. m \in Messages
    BY DEF HookTypeOK, ToSet
  <2>2. r \in matched[m] /\ ~DryDue(r, m)
    BY DEF LogIsDone
  <2> QED
    BY <2>1, <2>2, NeverDueAgain DEF DryDue
<1>2. ASSUME \A r \in Rules : dryLog'[r] \in {dryLog[r], <<>>} PROVE LogIsDone'
  <2>1. SUFFICES ASSUME NEW r \in Rules
                 PROVE  /\ IsInjective(dryLog'[r])
                        /\ \A m \in ToSet(dryLog'[r]) : r \in matched'[m] /\ ~DryDue(r, m)'
    BY DEF LogIsDone
  <2>2. CASE dryLog'[r] = dryLog[r]
    BY <1>1, <2>2 DEF LogIsDone
  <2>3. CASE dryLog'[r] = <<>>
    BY <2>3 DEF IsInjective, ToSet
  <2> QED
    BY <1>2, <2>2, <2>3
<1>3. ASSUME NEW m \in Messages, NEW c \in Call, CarriedOut(m, c), Perform(m, c)
      PROVE  LogIsDone'
  <2>1. CASE c.op # "report_dry_run"
    <3>1. UNCHANGED dryLog
      BY <1>3, <2>1 DEF Perform, GetRules, ReportHit, StoreRelay, GetRelay
    <3> QED
      BY <1>2, <3>1
  <2>2. CASE c.op = "report_dry_run"
    <3> DEFINE r == c.rule
               longer == Append(dryLog[r], m)
    <3>1. r \in Rules /\ RecordDryRun(m, r)
      BY <1>3, <2>2 DEF Call, Perform
    <3>2. DryDue(r, m) /\ ~DryDue(r, m)' /\ r \in matched'[m]
      BY <1>3, <2>2, DryRunTold
    <3>3. /\ dryLog[r] \in Seq(Messages) /\ IsInjective(dryLog[r]) /\ m \notin ToSet(dryLog[r])
      BY <3>1, <3>2 DEF LogIsDone, HookTypeOK
    <3>4. /\ longer \in Seq(Messages) /\ longer # <<>> /\ IsInjective(longer)
          /\ ToSet(longer) = ToSet(dryLog[r]) \cup {m}
      <4> HIDE DEF r
      <4>1. /\ longer \in Seq(Messages) /\ IsInjective(longer)
            /\ ToSet(longer) = ToSet(dryLog[r]) \cup {m}
        BY <3>3, AppendFresh
      <4>2. longer # <<>>
        <5>1. Len(longer) = Len(dryLog[r]) + 1 /\ Len(dryLog[r]) \in Nat
          BY <3>3
        <5>2. Len(longer) # 0
          BY <5>1
        <5> QED
          BY <5>2
      <4> QED
        BY <4>1, <4>2
    <3>5. IsInjective(Tail(longer)) /\ ToSet(Tail(longer)) \subseteq ToSet(longer)
      BY <3>4, TailFresh
    <3> HIDE DEF longer
    <3>6. \/ dryLog' = dryLog
          \/ dryLog' = [dryLog EXCEPT ![r] = longer]
          \/ dryLog' = [dryLog EXCEPT ![r] = Tail(longer)]
      BY <3>1 DEF RecordDryRun, longer
    <3>7. SUFFICES ASSUME NEW q \in Rules
                   PROVE  /\ IsInjective(dryLog'[q])
                          /\ \A n \in ToSet(dryLog'[q]) : q \in matched'[n] /\ ~DryDue(q, n)'
      BY DEF LogIsDone
    <3>8. CASE dryLog'[q] = dryLog[q]
      BY <1>1, <3>8 DEF LogIsDone
    <3>9. CASE q = r /\ dryLog'[q] \in {longer, Tail(longer)}
      BY <1>1, <3>1, <3>2, <3>4, <3>5, <3>9
    <3> QED
      BY <3>1, <3>6, <3>8, <3>9 DEF HookTypeOK
  <2> QED
    BY <2>1, <2>2
<1> QED
  BY <1>2, <1>3, DaemonSteps

LEMMA CountGrows ==
  ASSUME NEW A, NEW B, A \subseteq B, B \subseteq Messages
  PROVE  /\ Cardinality(A) \in Nat /\ Cardinality(B) \in Nat
         /\ Cardinality(A) <= Cardinality(B)
         /\ B \ A # {} => Cardinality(A) + 1 <= Cardinality(B)
<1>1. IsFiniteSet(Exchanges \X {"request", "response"})
  <2>1. {"request", "response"} = {"request"} \cup {"response"}
    OBVIOUS
  <2>2. IsFiniteSet({"request"} \cup {"response"})
    BY FS_Singleton, FS_AddElement
  <2> QED
    BY <2>1, <2>2, HookAssumption, FS_Product
<1>2. Messages \subseteq Exchanges \X {"request", "response"}
  BY HookAssumption DEF Messages
<1>3. IsFiniteSet(B) /\ IsFiniteSet(A) /\ Cardinality(A) <= Cardinality(B)
  BY <1>1, <1>2, FS_Subset
<1>4. ASSUME NEW m \in B \ A PROVE Cardinality(A) + 1 <= Cardinality(B)
  <2>1. Cardinality(A \cup {m}) = Cardinality(A) + 1
    BY <1>3, <1>4, FS_AddElement
  <2>2. Cardinality(A \cup {m}) <= Cardinality(B)
    BY <1>3, <1>4, FS_Subset
  <2> QED
    BY <2>1, <2>2
<1> QED
  BY <1>3, <1>4, FS_CardinalityType

LEMMA HitsStayCounted ==
  ASSUME HookTypeOK, HooksOK, LateCallsOK, HitsAreCounted, [HookNext]_hookTrafficVars
  PROVE  HitsAreCounted'
<1>1. ASSUME NEW r \in Rules
      PROVE  Counted(r) \subseteq Counted(r)' /\ Counted(r)' \subseteq Messages
  BY NeverDueAgain DEF Counted, HitDue
<1>2. ASSUME NEW r \in Rules
      PROVE  /\ hits[r] <= Cardinality(Counted(r)') /\ savedHits[r] <= Cardinality(Counted(r)')
             /\ hits[r] \in Nat /\ savedHits[r] \in Nat
  <2>1. /\ Cardinality(Counted(r)) \in Nat /\ Cardinality(Counted(r)') \in Nat
        /\ Cardinality(Counted(r)) <= Cardinality(Counted(r)')
    BY <1>1, CountGrows
  <2>2. /\ hits[r] <= Cardinality(Counted(r)) /\ savedHits[r] <= Cardinality(Counted(r))
        /\ hits[r] \in Nat /\ savedHits[r] \in Nat
    BY DEF HitsAreCounted, HookTypeOK
  <2> QED
    BY <2>1, <2>2
<1>3. ASSUME {hits', savedHits'} \subseteq {hits, savedHits} PROVE HitsAreCounted'
  BY <1>2, <1>3 DEF HitsAreCounted
<1>4. ASSUME NEW m \in Messages, NEW c \in Call, CarriedOut(m, c), Perform(m, c)
      PROVE  HitsAreCounted'
  <2>1. CASE c.op # "report_hit"
    <3>1. UNCHANGED <<hits, savedHits>>
      BY <1>4, <2>1 DEF Perform, GetRules, RecordDryRun, StoreRelay, GetRelay, engineVars
    <3> QED
      BY <1>3, <3>1
  <2>2. CASE c.op = "report_hit"
    <3>1. /\ \A r \in Rules : hits'[r] = IF r \in c.rules \cap installed THEN hits[r] + 1 ELSE hits[r]
          /\ savedHits' = savedHits
      BY <1>4, <2>2 DEF Perform, ReportHit
    <3>2. ASSUME NEW r \in Rules, r \in c.rules
          PROVE  hits[r] + 1 <= Cardinality(Counted(r)')
      <4>1. m \in Counted(r)' \ Counted(r)
        BY <1>4, <2>2, <3>2, HitTold DEF Counted
      <4>2. /\ Cardinality(Counted(r)) \in Nat /\ Cardinality(Counted(r)') \in Nat
            /\ Cardinality(Counted(r)) + 1 <= Cardinality(Counted(r)')
        BY <1>1, <4>1, CountGrows
      <4>3. hits[r] <= Cardinality(Counted(r)) /\ hits[r] \in Nat
        BY DEF HitsAreCounted, HookTypeOK
      <4> QED
        BY <4>2, <4>3
    <3> QED
      BY <1>2, <3>1, <3>2 DEF HitsAreCounted
  <2> QED
    BY <2>1, <2>2
<1> QED
  BY <1>3, <1>4, DaemonSteps

\* What is stored under a name is what the server sent.
LEMMA TokenTold ==
  ASSUME HookTypeOK, HooksOK, LateCallsOK, NEW m \in Messages, NEW c,
         CarriedOut(m, c), c.op = "store_relay_value"
  PROVE  c.val \in Exchanges
<1>1. CASE Handle(m) /\ c = call[m]
  <2>1. HookOK(m) /\ Waits(m)
    BY <1>1 DEF HooksOK, Handle
  <2>2. step[m] # Asking
    BY <1>1, <2>1 DEF HookOK, Beginning, NotBegun, Asking, Idle
  <2>3. ~NotBegun(m) /\ step[m] \notin Gone
    BY <2>1, <2>2, HasBegun
  <2>4. c = CallFor(m) /\ c # NoCall
    BY <1>1, <2>1, <2>3 DEF HookOK, FollowsPlan, Waits
  <2>5. c.val = m[1]
    BY <2>1, <2>3, <2>4, CallsOf DEF DryRun, Hits
  <2> QED
    BY <2>5, HookAssumption DEF Messages
<1>2. CASE <<m, c>> \in late
  <2>1. LateOK(m, c)
    BY <1>2 DEF LateCallsOK
  <2> QED
    BY <2>1 DEF LateOK, DryRun, Hits
<1> QED
  BY <1>1, <1>2 DEF CarriedOut

LEMMA TokensStayServers ==
  ASSUME HookTypeOK, HooksOK, LateCallsOK, TokensAreServers, [HookNext]_hookTrafficVars
  PROVE  TokensAreServers'
<1>1. ASSUME \A n \in Names : entries'[n] \in {entries[n], NoToken} PROVE TokensAreServers'
  BY <1>1 DEF TokensAreServers, Stored
<1>2. ASSUME NEW m \in Messages, NEW c \in Call, CarriedOut(m, c), Perform(m, c)
      PROVE  TokensAreServers'
  <2>1. CASE c.op = "store_relay_value"
    <3>1. c.val \in Exchanges
      BY <1>2, <2>1, TokenTold
    <3>2. entries' = entries \/ Put(c.rule.name, c.val, c.rule.ttl)
      BY <1>2, <2>1 DEF Perform, StoreRelay, Store
    <3> QED
      BY <3>1, <3>2 DEF Put, TokensAreServers, Stored, HookTypeOK, RelayTypeOK
  <2>2. CASE c.op = "get_relay_value"
    <3>1. Fetch(c.rule.name)
      BY <1>2, <2>2 DEF Perform, GetRelay
    <3>2. \A n \in Names : entries'[n] \in {entries[n], NoToken}
      BY <3>1 DEF Fetch, HookTypeOK, RelayTypeOK
    <3> QED
      BY <1>1, <3>2
  <2>3. CASE c.op \notin {"store_relay_value", "get_relay_value"}
    <3>1. UNCHANGED entries
      BY <1>2, <2>3 DEF Perform, GetRules, ReportHit, RecordDryRun, relayVars
    <3> QED
      BY <1>1, <3>1
  <2> QED
    BY <2>1, <2>2, <2>3
<1> QED
  BY <1>1, <1>2, DaemonSteps

-------------------------------------------------------------------------------
(* The safety properties.                                                   *)

HookInv ==
  /\ HookTypeOK /\ HooksOK /\ LateCallsOK
  /\ TokensAreServers /\ LogIsDone /\ HitsAreCounted

LEMMA HookInvInit == HookInit => HookInv
<1> SUFFICES ASSUME HookInit PROVE HookInv
  OBVIOUS
<1>1. HookTypeOK
  BY HookTypeInit
<1>2. HooksOK
  BY DEF HookInit, HooksOK, HookOK, Beginning, FollowsPlan, AnswersAreGood, EffectsAreDue,
         NotBegun, Waits
<1>3. LateCallsOK /\ TokensAreServers
  BY DEF HookInit, RelayInit, LateCallsOK, TokensAreServers, Stored
<1>4. LogIsDone
  BY DEF HookInit, LogIsDone, IsInjective, ToSet
<1>5. HitsAreCounted
  <2>1. \A r \in Rules : Cardinality(Counted(r)) \in Nat
    BY CountGrows DEF Counted
  <2> QED
    BY <2>1 DEF HookInit, HitsAreCounted
<1> QED
  BY <1>1, <1>2, <1>3, <1>4, <1>5 DEF HookInv

LEMMA HookInvStep == HookInv /\ [HookNext]_hookTrafficVars => HookInv'
<1> SUFFICES ASSUME HookInv, [HookNext]_hookTrafficVars PROVE HookInv'
  OBVIOUS
<1>1. HookTypeOK' /\ LateCallsOK'
  BY HookTypeStep, LateCallsStayOK DEF HookInv
<1>2. HooksOK'
  BY HooksStayWell DEF HookInv, HooksOK, StaysWell
<1>3. TokensAreServers' /\ LogIsDone' /\ HitsAreCounted'
  BY TokensStayServers, LogStaysDone, HitsStayCounted DEF HookInv
<1> QED
  BY <1>1, <1>2, <1>3 DEF HookInv

LEMMA HookInvHolds == HookSpec => []HookInv
BY HookInvInit, HookInvStep, PTL DEF HookSpec

\* The invariant BlockWins: the answer a hook gets holds every block rule that
\* matched, because blocks are packed first and fit, and its plan aborts.
THEOREM BlockWinsHolds == HookSpec => []BlockWins
<1>1. HookInv => BlockWins
  <2> SUFFICES ASSUME HookInv, NEW m \in Messages
               PROVE  /\ step[m] = Left /\ (\E r \in matched[m] : IsRealBlock(r)) => got[m] = {}
                      /\ step[m] = Blocked => /\ \E r \in matched[m] : IsRealBlock(r)
                                              /\ edits[m] = {} /\ done[m] = {}
    BY DEF BlockWins
  <2>1. FollowsPlan(m) /\ AnswersAreGood(m) /\ EffectsAreDue(m)
    BY DEF HookInv, HooksOK, HookOK
  <2>2. step[m] = Left => Leave \in Plan(got[m])
    BY <2>1 DEF FollowsPlan, NotBegun, Left, Idle, Asking
  <2>3. step[m] = Blocked => \E r \in got[m] : IsRealBlock(r)
    BY <2>1 DEF FollowsPlan, NotBegun, Blocked, Idle, Asking
  <2>4. got[m] = {} \/ GoodAnswer(got[m], matched[m])
    BY <2>1 DEF AnswersAreGood
  <2>5. Leave \in Plan(got[m]) => ~ \E r \in got[m] : IsRealBlock(r)
    BY PlanEntries DEF Leave
  <2>6. CASE step[m] = Left
    <3>1. Left # Blocked
      BY DEF Left, Blocked
    <3> QED
      BY <2>2, <2>4, <2>5, <2>6, <3>1 DEF GoodAnswer, IsRealBlock
  <2>7. CASE step[m] = Blocked
    <3>1. Left # Blocked
      BY DEF Left, Blocked
    <3>2. \E r \in matched[m] : IsRealBlock(r)
      BY <2>3, <2>4, <2>7 DEF GoodAnswer
    <3>3. done[m] = {} /\ edits[m] = {}
      BY <2>1, <2>3, <2>7 DEF EffectsAreDue
    <3> QED
      BY <2>7, <3>1, <3>2, <3>3
  <2> QED
    BY <2>6, <2>7
<1> QED
  BY <1>1, HookInvHolds, PTL

\* The invariant DryRunOnlyWatches.
THEOREM DryRunOnlyWatchesHolds == HookSpec => []DryRunOnlyWatches
<1>1. HookInv => DryRunOnlyWatches
  <2> SUFFICES ASSUME HookInv, NEW m \in Messages
               PROVE  /\ \A r \in edits[m] \cup kept[m] : ~r.dry
                      /\ step[m] = Blocked => \E r \in got[m] : IsRealBlock(r)
    BY DEF DryRunOnlyWatches
  <2>1. FollowsPlan(m) /\ EffectsAreDue(m)
    BY DEF HookInv, HooksOK, HookOK
  <2> QED
    BY <2>1 DEF FollowsPlan, EffectsAreDue, NotBegun, Blocked, Idle, Asking
<1> QED
  BY <1>1, HookInvHolds, PTL

\* The invariant HitsAreEarned, whatever calls are carried out late or lost: a call
\* belongs to one entry of one plan, so what it reports is reported once.
THEOREM HitsAreEarnedHolds == HookSpec => []HitsAreEarned
<1>1. HookInv => HitsAreEarned
  <2> SUFFICES ASSUME HookInv, NEW r \in Rules
               PROVE  hits[r] <= Cardinality({m \in Messages : Earned(r, m)})
    BY DEF HitsAreEarned
  <2> DEFINE E == {m \in Messages : Earned(r, m)}
  <2>1. Counted(r) \subseteq E /\ E \subseteq Messages
    BY DEF Counted
  <2> HIDE DEF E
  <2>2. /\ Cardinality(Counted(r)) \in Nat /\ Cardinality(E) \in Nat
        /\ Cardinality(Counted(r)) <= Cardinality(E)
    BY <2>1, CountGrows
  <2>3. hits[r] <= Cardinality(Counted(r)) /\ hits[r] \in Nat
    BY DEF HookInv, HitsAreCounted, HookTypeOK
  <2>4. hits[r] <= Cardinality(E)
    BY <2>2, <2>3
  <2> QED
    BY <2>4 DEF E
<1> QED
  BY <1>1, HookInvHolds, PTL

\* The invariant TokenIsOriginal: an extract rule's turn comes before that of any
\* rule that edits the response.
THEOREM TokenIsOriginalHolds == HookSpec => []TokenIsOriginal
<1>1. HookInv => TokenIsOriginal
  BY HookAssumption DEF HookInv, TokensAreServers, TokenIsOriginal
<1> QED
  BY <1>1, HookInvHolds, PTL

\* The invariant DryLogIsTrue.
THEOREM DryLogIsTrueHolds == HookSpec => []DryLogIsTrue
<1>1. HookInv => DryLogIsTrue
  BY DEF HookInv, LogIsDone, DryLogIsTrue
<1> QED
  BY <1>1, HookInvHolds, PTL

\* The invariant SmallRulesFirst: rules are packed in the order of their sizes, and
\* a smaller rule fits wherever a larger one after it does.
THEOREM SmallRulesFirstHolds == HookSpec => []SmallRulesFirst
<1>1. HookInv => SmallRulesFirst
  BY DEF HookInv, HooksOK, HookOK, AnswersAreGood, GoodAnswer, SmallRulesFirst
<1> QED
  BY <1>1, HookInvHolds, PTL
===============================================================================
